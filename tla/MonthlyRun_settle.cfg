SPECIFICATION FairSpec
CONSTANTS
    e1 = e1
    e2 = e2
    w1 = w1
    w2 = w2
    Emps = {1, 2}
    Editors = {e1}
    Runners = {w1}
    AdminWrites = {"create"}
    MaxStamp = 2
    MaxKeys = 0
    Mails = {TRUE}
    MayForce = FALSE
    MayCrash = FALSE
    CloudRun = FALSE
    Manages = {"attendance"}
    MaxFiles = 0
    MaxDays = 1

INVARIANTS ReportDelivered
 
