--------------------------- MODULE MCLeaseQueue ---------------------------
(* Instances of LeaseQueue for TLC. *)
EXTENDS LeaseQueue, TLC

CONSTANTS i1, i2, w1, w2, q1, q2

TwoItems == {i1, i2}
TwoWorkers == {w1, w2}
OneObject == [w \in TwoWorkers |-> q1]
TwoObjects == (w1 :> q1) @@ (w2 :> q2)
OnePriority == [i \in TwoItems |-> 0]
TwoPriorities == (i1 :> 0) @@ (i2 :> 1)

=============================================================================
