----------------------------- MODULE MCOutboxRelay -----------------------------
(* Instances of the outbox for TLC. *)
EXTENDS OutboxRelay, TLC
CONSTANTS e1, e2, e3, r1, r2

ThreeEvents == {e1, e2, e3}
CreatedThree == e1 :> 1 @@ e2 :> 2 @@ e3 :> 3
TwoRelays == {r1, r2}
\* Three valid rows, or a whole batch of bad ones ahead of the valid one.
NoneOrBatch == {{}, {e1, e2}}
=============================================================================
