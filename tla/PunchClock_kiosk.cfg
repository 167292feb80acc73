SPECIFICATION Spec
CONSTANTS
    t1 = t1
    t2 = t2
    d1 = d1
    d2 = d2
    k1 = k1
    k2 = k2
    Tabs = {t1}
    Devices = {d1}
    DeviceOf <- OneTab
    DayTicks = 2
    MaxTime = 2
    MaxWrites = 3
    AdminOps = {"account"}
    Window = 1
    Skews <- Punctual
    MayPause = FALSE
    MaxEvents = 1
    Scans = {k1, k2}
    DedupTicks = 1
    MaxScans = 2
SYMMETRY SameScans
INVARIANTS ConfirmedAction RecordedPunchStays PunchesAccounted OneOpenShift
