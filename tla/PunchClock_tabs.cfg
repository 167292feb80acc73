SPECIFICATION Spec
CONSTANTS
    t1 = t1
    t2 = t2
    d1 = d1
    d2 = d2
    k1 = k1
    k2 = k2
    Tabs = {t1, t2}
    Devices = {d1}
    DeviceOf <- OneDevice
    DayTicks = 2
    MaxTime = 2
    MaxWrites = 2
    AdminOps = {}
    Window = 1
    Skews <- Punctual
    MayPause = TRUE
    MaxEvents = 2
    Scans = {}
    DedupTicks = 1
    MaxScans = 0
SYMMETRY SameDeviceTabs
INVARIANTS RejectedNeverRecorded ConfirmedHasReceipt
PROPERTIES PendingKept SettledOnce
