---------------------------- MODULE MCMonthlyRun ----------------------------
(* Instances of MonthlyRun for TLC.  Dialogs are interchangeable, and so    *)
(* are runners; employees are not, they are ordered by name.                *)
EXTENDS MonthlyRun, TLC

CONSTANTS e1, e2, w1, w2

SalarySymmetry == Permutations(Editors) \cup Permutations(Runners)
=============================================================================
