CONSTANTS
  Browsers = {br1, br2}
  LiffBrowsers = {br2}
  Accounts = {acc1}
  States = {st1}
  Calls = {c1, c2}
  Nobody = Nobody
  Employees = {e1}
  BindingIds = {k1, k2}
  Requests = {r1, r2}
  MaxRequests = 3
SPECIFICATION FairSpec
INVARIANTS LoginSound  PurgeErases
PROPERTIES ExpiredPurged
CHECK_DEADLOCK FALSE
