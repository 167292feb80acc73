---------------------------- MODULE MCPunchClock ----------------------------
(* Instances of PunchClock for TLC.                                         *)
EXTENDS PunchClock, TLC

CONSTANTS t1, t2, d1, d2, k1, k2

OneDevice == t1 :> d1 @@ t2 :> d1
OneTab == t1 :> d1

SameDeviceTabs == Permutations({t1, t2})
SameScans == Permutations({k1, k2})

Punctual == {0}
=============================================================================
