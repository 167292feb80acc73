------------------------------- MODULE Outbox -------------------------------
(***************************************************************************)
(* What a scanner with an offline cache promises: a swipe it has announced *)
(* as cached is only ever forgotten by being counted as a punch.           *)
(***************************************************************************)
CONSTANT Swipes

VARIABLE fate   \* swipe -> what has become of it

Init == fate = [s \in Swipes |-> "unseen"]

Move(s, from, to) == fate[s] \in from /\ fate' = [fate EXCEPT ![s] = to]

Submit(s) == Move(s, {"unseen"}, "waiting")
Promise(s) == Move(s, {"waiting"}, "promised")
\* A request that timed out may still be counted after its swipe was dropped.
Count(s) == Move(s, {"waiting", "promised", "dropped"}, "counted")
\* A crash drops every waiting swipe at once, a refusal drops one.
Drop(D) ==
  /\ D # {} /\ \A s \in D : fate[s] = "waiting"
  /\ fate' = [s \in Swipes |-> IF s \in D THEN "dropped" ELSE fate[s]]

Next ==
  \/ \E s \in Swipes : Submit(s) \/ Promise(s) \/ Count(s)
  \/ \E D \in SUBSET Swipes : Drop(D)

Spec == Init /\ [][Next]_fate
=============================================================================
