SPECIFICATION Spec
CONSTANTS
  Employees = {1, 2}
  Ids = {a, b}
  Scans = {a}
  Instances = {i1}
  MaxEdits = 1
  MaxFiles = 2
  Nobody = Nobody
INVARIANTS IdentitiesKept
 
