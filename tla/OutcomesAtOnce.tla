--------------------------- MODULE OutcomesAtOnce ---------------------------
(***************************************************************************)
(* What the reversal of an executed payment and the outcomes of its bank   *)
(* instructions promise when each is one step: no reversal after a         *)
(* confirmation, no negative outcome without the reversal that gives the   *)
(* money back.  The order of these steps need not be that of the commits:  *)
(* a confirmation that a reversal overlooks comes after it here, though it *)
(* may be committed before.  Confirmations that come one right after       *)
(* another, or right after the reversal, may show in one step.             *)
(***************************************************************************)
CONSTANT Lines

VARIABLES reversed, state

vars == <<reversed, state>>

Negative == {"REJECTED", "CANCELLED", "RETURNED"}

Init == reversed = FALSE /\ state = [l \in Lines |-> "PENDING_CONFIRMATION"]

Confirmed(ls) ==
  /\ \A l \in ls : state[l] = "PENDING_CONFIRMATION"
  /\ state' = [l \in Lines |-> IF l \in ls THEN "CONFIRMED" ELSE state[l]]

Reverse ==
  /\ ~reversed
  /\ \A l \in Lines : state[l] \notin {"CONFIRMED", "RETURNED"}
  /\ reversed' = TRUE
  /\ \E ls \in SUBSET Lines : Confirmed(ls)

Confirm == UNCHANGED reversed /\ \E ls \in SUBSET Lines : Confirmed(ls)

Refute(l, outcome) ==
  /\ reversed
  /\ state[l] = IF outcome = "RETURNED" THEN "CONFIRMED" ELSE "PENDING_CONFIRMATION"
  /\ state' = [state EXCEPT ![l] = outcome] /\ UNCHANGED reversed

Next ==
  \/ Reverse \/ Confirm
  \/ \E l \in Lines, outcome \in Negative : Refute(l, outcome)

Spec == Init /\ [][Next]_vars
=============================================================================
