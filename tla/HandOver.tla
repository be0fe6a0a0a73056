------------------------------- MODULE HandOver --------------------------------
(***************************************************************************)
(* What a transfer promises: an item's amount departs from one place once, *)
(* leaving no less than the place's floor, and then either arrives once    *)
(* and whole at the other place or is disputed and arrives nowhere.        *)
(***************************************************************************)
EXTENDS Integers

CONSTANTS Items, Places, Nowhere,
          Amounts,    \* what one item may carry
          Least       \* Least[s]: what must remain at place s

VARIABLES
  stage,     \* stage[i]: HELD, TRAVELLING, ARRIVED or DISPUTED
  load,      \* load[i]: what i carries, and where to
  position   \* position[s]: what is at place s

handOverVars == <<stage, load, position>>

Depart(i, s, d, n) ==
  /\ stage[i] = "HELD"
  /\ position[s] - n >= Least[s]
  /\ stage' = [stage EXCEPT ![i] = "TRAVELLING"]
  /\ load' = [load EXCEPT ![i] = [to |-> d, amount |-> n]]
  /\ position' = [position EXCEPT ![s] = @ - n]

Arrive(i) ==
  /\ stage[i] = "TRAVELLING"
  /\ stage' = [stage EXCEPT ![i] = "ARRIVED"]
  /\ position' = [position EXCEPT ![load[i].to] = @ + load[i].amount]
  /\ UNCHANGED load

Dispute(i) ==
  /\ stage[i] = "TRAVELLING"
  /\ stage' = [stage EXCEPT ![i] = "DISPUTED"]
  /\ UNCHANGED <<load, position>>

HandOverInit ==
  /\ stage = [i \in Items |-> "HELD"]
  /\ load = [i \in Items |-> [to |-> Nowhere, amount |-> 0]]
  /\ position \in [Places -> Int]

HandOverNext ==
  \E i \in Items :
    \/ \E s, d \in Places, n \in Amounts : s # d /\ Depart(i, s, d, n)
    \/ Arrive(i)
    \/ Dispute(i)

HandOverSpec == HandOverInit /\ [][HandOverNext]_handOverVars
===============================================================================
