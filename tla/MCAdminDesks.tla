---------------------------- MODULE MCAdminDesks ----------------------------
(* Instances of AdminDesks for TLC.                                         *)
EXTENDS AdminDesks

CONSTANTS p1, p2, r1, r2, e1, e2, q1, q2, g1, o1, o2

\* LeaveBacked says nothing after a tear, so behaviours end at the first one; and
\* the page does not list while the month is settled, when it cannot preview, nor
\* while a settlement is under way, which holds its own rows.
Explored == ~torn /\ (monthly # <<>> \/ posted.at # "none" => fetch.page = 0)
=============================================================================
