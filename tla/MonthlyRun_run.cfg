SPECIFICATION Spec
CONSTANTS
    e1 = e1
    e2 = e2
    w1 = w1
    w2 = w2
    Emps = {1}
    Editors = {e1, e2}
    Runners = {w1, w2}
    AdminWrites = {"create", "delete"}
    MaxStamp = 3
    MaxKeys = 1
    Mails = {TRUE}
    MayForce = TRUE
    MayCrash = TRUE
    CloudRun = TRUE
    Manages = {"attendance", "staff"}
    MaxFiles = 1
    MaxDays = 0
SYMMETRY SalarySymmetry
INVARIANTS SettlementSound  RefusedNeverApplied
PROPERTIES CorrectedKept
CHECK_DEADLOCK FALSE
