------------------------------ MODULE WriteOnce ------------------------------
(* What the idempotency records promise: under one name a value is decided     *)
(* once, it never changes, and whoever asks under that name is told it.        *)
CONSTANTS Names, Values
VARIABLES kept, told

Init == kept = [n \in Names |-> {}] /\ told = {}

Decide(n, v) == /\ kept[n] = {}
                /\ kept' = [kept EXCEPT ![n] = {v}]
                /\ UNCHANGED told

Tell(n, v) == /\ v \in kept[n]
              /\ told' = told \cup {<<n, v>>}
              /\ UNCHANGED kept

Next == \E n \in Names, v \in Values : Decide(n, v) \/ Tell(n, v)

Spec == Init /\ [][Next]_<<kept, told>>
==============================================================================
