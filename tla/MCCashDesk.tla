------------------------------- MODULE MCCashDesk -------------------------------
(***************************************************************************)
(* The parts of DeskParts, two of them about days:                         *)
(*   closing   a cashbox over two dates, two closes and two requests;      *)
(*   queue     a cashbox over one date with a cheque, three requests;      *)
(*   money     amounts on their way through a payment: two places, digits  *)
(*             on both sides of the half, zeros behind the last digit and  *)
(*             rates that leave a rounding difference of either sign;      *)
(*   lists     every kind of list, of three rows, read page by page;       *)
(*   report    four rows, one to a page, covered by two grants: one over   *)
(*             the ends of the report, one over its middle; rows created   *)
(*             in the first microsecond, later in its millisecond, and     *)
(*             late in the next one.                                       *)
(***************************************************************************)
EXTENDS DeskParts, TLC

CONSTANTS kay, amy

DayUsers == {kay, amy}
DayGrants ==
  {[user |-> kay, permission |-> p, limit |-> 2] :
     p \in {"cashbox.close", "cashbox.reopen", "cashbox.approve"}}
  \cup {[user |-> amy, permission |-> p, limit |-> 2] : p \in {"cashbox.approve", "cashbox.reject"}}

Plain(whole, fraction) == [negative |-> FALSE, whole |-> whole, fraction |-> fraction]

MCAmounts == {Plain(1, <<>>), Plain(0, <<5>>), Plain(0, <<9, 0, 0, 0>>), Plain(1, <<5>>),
              Plain(0, <<0, 5>>), Plain(1, <<2, 5>>)}
MCRates == {Plain(1, <<0, 0, 0>>), Plain(0, <<3, 3, 3>>), Plain(2, <<5, 0, 0>>),
            Plain(0, <<0, 0, 5>>), Plain(0, <<6, 6, 7>>)}
MCFloors == {-250, -200, -30, 0, 50}
MCPositions == {5 * i : i \in -60 .. 60}

MCCovers == [g \in {"ends", "middle"} |-> IF g = "ends" THEN {1, 2, 4} ELSE {2, 3}]

\* A closing has two requests and no cheques, a queue one date.  A row is cut off from
\* a report or not, whichever microsecond between the extremes it is created in.
Bounded ==
  \/ part \in {"money", "lists"}
  \/ part = "report" /\ \A r \in ReportRows : facts'[r].created \in {0, 1, 2 * PerMs - 1}
  \/ /\ part = "closing"
     /\ held' = {} /\ Len(requests') <= 2
  \/ /\ part = "queue"
     /\ postings' <= 1
     /\ cycles'[2] = <<>> /\ movements'[2] = 0
     /\ \A i \in DOMAIN requests' : requests'[i].date = 1
     /\ \A k \in Keys : reserved'[k] # Nothing => reserved'[k].date = 1

MCNext == PartsNext /\ Bounded

MCSpec == PartsInit /\ [][MCNext]_allParts

Symmetric == Permutations(Keys)
===============================================================================
