SPECIFICATION Spec
CONSTANTS
    p1 = p1
    p2 = p2
    r1 = r1
    r2 = r2
    e1 = e1
    e2 = e2
    q1 = q1
    q2 = q2
    g1 = g1
    o1 = o1
    o2 = o2
    Panels = {g1}
    RunRequests = {o1, o2}
    MaxMonth = 3
    Staff = {e1, e2}
    ImportRequests = {q1, q2}
    MaxLines = 2
    MaxImports = 2
    SettingsPages = {p1, p2}
    MaxTyped = 1
    MaxStores = 2
    LeaveDays = {1, 2}
    LeaveRequests = {r1, r2}
    MaxHolidayId = 3
    DayTicks = 2
    MaxTime = 0
    MaxWrites = 3
    AdminOps = {"create", "update", "delete"}
    PageLimit = 1
CONSTRAINT Explored
INVARIANTS DesksSound OwnWriteShown   ConfirmedMonth
 
