SPECIFICATION Spec
CONSTANTS
    Days <- MCDays
    Weekend <- MCWeekend
    Calendar <- MCCalendar
    Shifts <- MCShifts
    Tariffs <- MCTariffs
    FirstTariff <- MCFirstTariff
    CashDays = 1
    CorrTypes <- MCCorrTypes
    Fees <- MCFees
    Rules <- MCRules
    Requests = {q1, q2}
    MaxRows = 2
    MaxWork = 4
INVARIANTS BooksSound LeaveAccounted PathIndependent
PROPERTIES SettledAsPreviewed
CHECK_DEADLOCK FALSE
