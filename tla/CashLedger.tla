------------------------------ MODULE CashLedger ------------------------------
(***************************************************************************)
(* What payments promise about money: each is paid at most once, as a      *)
(* whole and never below the floor of a source it draws on, and refunded   *)
(* at most once, as a whole, after it was paid.                            *)
(***************************************************************************)
EXTENDS Integers

CONSTANTS Payments, Sources, Opening, Floor,
          Amounts     \* what one payment may draw on one source

VARIABLES
  position,   \* position[s]: the money in source s
  status,     \* status[p]: UNPAID, PAID or REFUNDED
  outflow     \* outflow[p][s]: what p drew on s when it was paid

ledgerVars == <<position, status, outflow>>

Pay(p, draw) ==
  /\ status[p] = "UNPAID"
  /\ \A s \in Sources : draw[s] > 0 => position[s] - draw[s] >= Floor[s]
  /\ position' = [s \in Sources |-> position[s] - draw[s]]
  /\ status' = [status EXCEPT ![p] = "PAID"]
  /\ outflow' = [outflow EXCEPT ![p] = draw]

Refund(p) ==
  /\ status[p] = "PAID"
  /\ position' = [s \in Sources |-> position[s] + outflow[p][s]]
  /\ status' = [status EXCEPT ![p] = "REFUNDED"]
  /\ UNCHANGED outflow

LedgerInit ==
  /\ position = Opening
  /\ status = [p \in Payments |-> "UNPAID"]
  /\ outflow = [p \in Payments |-> [s \in Sources |-> 0]]

LedgerNext ==
  \E p \in Payments : Refund(p) \/ \E draw \in [Sources -> Amounts] : Pay(p, draw)

LedgerSpec == LedgerInit /\ [][LedgerNext]_ledgerVars
===============================================================================
