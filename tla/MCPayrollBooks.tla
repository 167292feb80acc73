-------------------------- MODULE MCPayrollBooks ---------------------------
(* Small instances of PayrollBooks.                                         *)
EXTENDS PayrollBooks

MCDays == {"mon", "sat"}
MCWeekend == {"sat"}
MCCalendar == [d \in MCDays |-> "none"]

Shift(in, out, type) == [in |-> in, out |-> out, type |-> type, flag |-> type # "none"]
MCShifts ==
    {Shift(480, 975, "none"), Shift(1140, 1200, "none"),
     Shift(480, 720, "sick_leave"), Shift(NoTime, NoTime, "sick_leave"),
     Shift(480, 960, "worked")}
MCFirstTariff == [base |-> 75, rate |-> 10, welfare |-> 5, fee |-> 3]
MCTariffs ==
    {MCFirstTariff,
     [base |-> 140, rate |-> 10, welfare |-> 5, fee |-> 4]}
MCCorrTypes == {"sick_leave", "worked", "national_holiday"}
MCFees == {0}
MCRules ==
    {[base |-> 75, h1 |-> 1, h2 |-> 0, otPay |-> 9, gross |-> 90, net |-> 80],
     [base |-> 75, h1 |-> 1, h2 |-> 0, otPay |-> 10, gross |-> 91, net |-> 81]}
============================================================================
