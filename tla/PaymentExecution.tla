--------------------------- MODULE PaymentExecution ---------------------------
(***************************************************************************)
(* Execution and reversal of approved payments, the movement facts they    *)
(* post, the bank instructions they send and their outcomes; composed with *)
(* the approval commands on the same payment rows.                         *)
(*                                                                         *)
(* A content's lines each draw one amount from one source.  Reservations   *)
(* and allocations are rows that no command of the repository inserts: the *)
(* actions that add them stand for the external writer, constrained only   *)
(* by the tables.                                                          *)
(***************************************************************************)
EXTENDS PaymentApproval

CONSTANTS
  Lines,          \* payment lines
  LinesOf,        \* LinesOf[c]: the lines of content c
  LineSource,     \* LineSource[l]: the cashbox or account line l draws on
  LineAmount,     \* its amount
  Cashboxes, Accounts,
  Opening,        \* Opening[s]: the sum of the other facts of source s
  Floor,          \* Floor[s]: the least position a payment may leave
  Ceiling,        \* Ceiling[s]: the most one payment may draw
  CanPay, CanReceive,   \* ACTIVE sources with the capability
  ClosedDays,     \* pairs <<cashbox, date>> whose day is not OPEN
  Obligations,    \* external objects that allocations refer to
  ReservedAmounts, AllocatedAmounts, KnownTotals   \* bounds on external rows

Sources == Cashboxes \cup Accounts

Unknown == 0      \* an obligation total that is NULL

ASSUME ExecutionAssumption ==
  /\ IsFiniteSet(Lines)
  /\ LinesOf \in [Contents -> (SUBSET Lines) \ {{}}]
  /\ LineSource \in [Lines -> Sources]
  /\ LineAmount \in [Lines -> Nat \ {0}]
  /\ \A c \in Contents : Amount[c] = Sum(LinesOf[c], LineAmount)
  /\ Cashboxes \cap Accounts = {}
  /\ Opening \in [Sources -> Int]
  /\ Floor \in [Sources -> Int] /\ \A s \in Accounts : Floor[s] = 0
  /\ Ceiling \in [Sources -> Nat]
  /\ CanPay \subseteq Sources /\ CanReceive \subseteq Sources
  /\ ClosedDays \subseteq Cashboxes \X Dates
  /\ ReservedAmounts \subseteq Nat \ {0}
  /\ AllocatedAmounts \subseteq Nat \ {0}
  /\ KnownTotals \subseteq Nat

VARIABLES
  facts,        \* the movement facts posted for payments
  instruction,  \* instruction[p][l]: the bank instruction of line l of p
  reservation,  \* reservation[p][s]: what p holds back of source s
  allocation,   \* allocation[p][o]: what p settles of obligation o
  reversing     \* the payments whose row a reversal holds that has read their
                \* instructions

executionVars == <<facts, instruction, reservation, allocation, reversing>>
rows == <<doc, snapshot, facts, instruction, reservation, allocation>>
vars == <<doc, snapshot, facts, instruction, reservation, allocation, reversing>>

Fact == [payment: Payments, line: Lines, direction: {"DEBIT", "CREDIT"},
         of: Payments \cup {NoPayment}]

Negative == {"REJECTED", "CANCELLED", "RETURNED"}

InstructionStates == {"NONE", "PENDING_CONFIRMATION", "CONFIRMED"} \cup Negative

\* OVERDUE is an ACTIVE reservation past its review date.
Held == {"ACTIVE", "OVERDUE", "REVIEW_REQUIRED"}

Reservation == [state: {"NONE", "CONSUMED", "RELEASED"} \cup Held,
                amount: ReservedAmounts \cup {0}]

Allocation == [state: {"NONE", "ACTIVE", "REVERSED"},
               amount: AllocatedAmounts \cup {0},
               known: KnownTotals \cup {Unknown}, waived: BOOLEAN]

NoReservation == [state |-> "NONE", amount |-> 0]
NoAllocation == [state |-> "NONE", amount |-> 0, known |-> Unknown, waived |-> FALSE]

-------------------------------------------------------------------------------
(* Positions of the sources.                                               *)

\* The amount moved by the facts of source s in one direction.
Moves(s, direction) ==
  LET moved == {f \in facts : LineSource[f.line] = s /\ f.direction = direction}
  IN Sum(moved, [f \in moved |-> LineAmount[f.line]])

Position(s) == Opening[s] + Moves(s, "CREDIT") - Moves(s, "DEBIT")

LinesFrom(p, s) == {l \in LinesOf[doc[p].content] : LineSource[l] = s}

\* What the lines of p together draw on source s.
Draw(p, s) == Sum(LinesFrom(p, s), LineAmount)

SourcesOf(p) == {LineSource[l] : l \in LinesOf[doc[p].content]}

\* Held by every other payment, overdue reviews included.
ReservedByOthers(p, s) ==
  LET others == {q \in Payments \ {p} : reservation[q][s].state \in Held}
  IN Sum(others, [q \in others |-> reservation[q][s].amount])

Payable(p, s) ==
  /\ s \in CanPay
  /\ <<s, doc[p].date>> \notin ClosedDays
  /\ Draw(p, s) <= Ceiling[s]
  /\ Position(s) - ReservedByOthers(p, s) - Draw(p, s) >= Floor[s]

Receivable(s, d) == s \in CanReceive /\ <<s, d>> \notin ClosedDays

-------------------------------------------------------------------------------
(* Execution.                                                              *)

Approvals(p) == {a \in snapshot[p].actions : a.kind = "APPROVED"}

ApproverUsers(p) ==
  ({a.actor : a \in Approvals(p)} \cup {a.from : a \in Approvals(p)}) \ {NoUser}

\* Faulty variant: the override may name the executor's own approval.
SeparatedByAnyApproval(u, p) ==
  \/ u \notin {doc[p].creator} \cup ApproverUsers(p)
  \/ /\ u \in Holders["separation.override"]
     /\ \E a \in Approvals(p) : a.reasoned

\* The executor neither created nor approved the payment, or may override and
\* names an approval by another user that gives the same reason.
Separated(u, p) ==
  \/ u \notin {doc[p].creator} \cup ApproverUsers(p)
  \/ /\ u \in Holders["separation.override"]
     /\ \E a \in Approvals(p) : a.reasoned /\ a.actor # u

Allocated(S, o) == Sum(S, [q \in S |-> allocation[q][o].amount])

Siblings(o) == {q \in Payments : allocation[q][o].state = "ACTIVE"}

\* Faulty variant: only the payment's own allocation is held against the total.
OwnAllocationsValid(p) ==
  \A o \in Obligations :
    allocation[p][o].state # "NONE" =>
      /\ allocation[p][o].state = "ACTIVE"
      /\ allocation[p][o].known # Unknown => allocation[p][o].amount <= allocation[p][o].known

AllocationsValid(p) ==
  \A o \in Obligations :
    LET known == allocation[p][o].known
    IN allocation[p][o].state # "NONE" =>
         /\ allocation[p][o].state = "ACTIVE"
         /\ \A q \in Siblings(o) : allocation[q][o].known = known
         /\ known # Unknown => Allocated(Siblings(o), o) <= known
         /\ known = Unknown =>
              Cardinality({q \in Siblings(o) : ~allocation[q][o].waived}) <= 1

ReservationsValid(p) ==
  \A s \in Sources :
    reservation[p][s].state # "NONE" =>
      /\ reservation[p][s].state \in {"ACTIVE", "REVIEW_REQUIRED"}
      /\ s \in SourcesOf(p)
      /\ reservation[p][s].amount = Draw(p, s)

\* Faulty variant: a reservation under review is left as it is.
ConsumedIfActive(r) == IF r.state = "ACTIVE" THEN [r EXCEPT !.state = "CONSUMED"] ELSE r

Consumed(r) == IF r.state = "NONE" THEN r ELSE [r EXCEPT !.state = "CONSUMED"]

Executable(p) == doc[p].state = "APPROVED" /\ snapshot[p].policy # NoPolicy

Execute(u, p) ==
  /\ Executable(p)
  /\ Permitted(u, "payment.execute")
  /\ Separated(u, p)
  /\ AllocationsValid(p)
  /\ ReservationsValid(p)
  /\ \A s \in SourcesOf(p) : Payable(p, s)
  /\ reservation' = [reservation EXCEPT
       ![p] = [s \in Sources |-> Consumed(reservation[p][s])]]
  /\ doc' = [doc EXCEPT ![p] = [Moved(@, "EXECUTED") EXCEPT !.executor = u]]
  /\ facts' = facts \cup
       {[payment |-> p, line |-> l, direction |-> "DEBIT", of |-> NoPayment] :
          l \in LinesOf[doc[p].content]}
  /\ instruction' = [instruction EXCEPT ![p] = [l \in Lines |->
       IF l \in LinesOf[doc[p].content] /\ LineSource[l] \in Accounts
       THEN "PENDING_CONFIRMATION" ELSE @[l]]]
  /\ UNCHANGED <<snapshot, allocation, reversing>>

-------------------------------------------------------------------------------
(* Reversal: a new executed document that credits every line back.  It     *)
(* locks the row of the payment and reads the instructions without locking *)
(* theirs, so outcomes may be recorded before it commits.                  *)

Posted(p) == {f \in facts : f.payment = p}

\* Faulty variant: reversals are reversible.
ReversibleAgain(p) ==
  /\ doc[p].state = "EXECUTED"
  /\ doc[p].reversedBy = NoPayment
  /\ Cardinality(Posted(p)) = Cardinality(LinesOf[doc[p].content])

\* The effect trigger accepts a reversal of outgoing effects only.
Reversible(p) ==
  /\ doc[p].state = "EXECUTED"
  /\ doc[p].reversedBy = NoPayment
  /\ Cardinality(Posted(p)) = Cardinality(LinesOf[doc[p].content])
  /\ \A f \in Posted(p) : f.direction = "DEBIT"

\* Faulty variant: only what was returned blocks.
Unreturned(p) == \A l \in Lines : instruction[p][l] # "RETURNED"

Unconfirmed(p) == \A l \in Lines : instruction[p][l] \notin {"CONFIRMED", "RETURNED"}

\* Faulty variant: the document is written in a state of its own.
ReversalInOwnState(u, p, d) ==
  [state |-> "REVERSAL", version |-> 1, creator |-> u, executor |-> u,
   content |-> doc[p].content, date |-> d, reversedBy |-> NoPayment]

ReversalOf(u, p, d) ==
  [state |-> "EXECUTED", version |-> 1, creator |-> u, executor |-> u,
   content |-> doc[p].content, date |-> d, reversedBy |-> NoPayment]

\* Faulty variant: the executor may undo what they executed.
NotInitiator(u, p) == u \notin {doc[p].creator} \cup ApproverUsers(p)

Outsider(u, p) == u \notin {doc[p].creator, doc[p].executor} \cup ApproverUsers(p)

\* The row is taken and the instructions are read; what is committed then counts.
ReadEffects(u, p) ==
  /\ p \notin reversing
  /\ Reversible(p)
  /\ Permitted(u, "payment.reverse")
  /\ Outsider(u, p)
  /\ Unconfirmed(p)
  /\ reversing' = reversing \cup {p}
  /\ UNCHANGED rows

\* A later check refuses the reversal, or its transaction fails.
GiveUp(p) ==
  /\ p \in reversing
  /\ reversing' = reversing \ {p}
  /\ UNCHANGED rows

\* The reversal commits.  Its checks of the payment and of the user stand since the
\* reading, as only its own transaction changes the row.
Reverse(u, p, r, d) ==
  /\ p \in reversing
  /\ doc[r].state = "ABSENT"
  /\ Reversible(p)
  /\ Permitted(u, "payment.reverse")
  /\ Outsider(u, p)
  /\ \A s \in SourcesOf(p) : Receivable(s, d)
  /\ doc' = [doc EXCEPT
       ![p] = [Moved(@, "REVERSED") EXCEPT !.reversedBy = r],
       ![r] = ReversalOf(u, p, d)]
  /\ facts' = facts \cup
       {[payment |-> r, line |-> f.line, direction |-> "CREDIT", of |-> p] :
          f \in Posted(p)}
  /\ allocation' = [allocation EXCEPT ![p] = [o \in Obligations |->
       IF @[o].state = "ACTIVE" THEN [@[o] EXCEPT !.state = "REVERSED"] ELSE @[o]]]
  /\ reversing' = reversing \ {p}
  /\ UNCHANGED <<snapshot, instruction, reservation>>

-------------------------------------------------------------------------------
(* Bank outcomes, recorded on the instruction row alone.                   *)

Transition(from, outcome) ==
  \/ from = "PENDING_CONFIRMATION" /\ outcome # "RETURNED"
  \/ from = "CONFIRMED" /\ outcome = "RETURNED"

\* Faulty variant: the correction is not looked up.
ExecutedOrCorrected(p) == doc[p].state \in {"EXECUTED", "REVERSED"}

\* A negative outcome names the executed reversal of the payment.
Corrected(p) ==
  doc[p].reversedBy # NoPayment /\ doc[doc[p].reversedBy].state = "EXECUTED"

RecordOutcome(u, p, l, outcome) ==
  /\ Transition(instruction[p][l], outcome)
  /\ Permitted(u, "bank-instruction.record-outcome")
  /\ outcome \in Negative => u # doc[p].executor /\ Corrected(p)
  /\ instruction' = [instruction EXCEPT ![p][l] = outcome]
  /\ UNCHANGED <<doc, snapshot, facts, reservation, allocation, reversing>>

-------------------------------------------------------------------------------
(* The external writer of reservations and allocations, before execution.  *)

Unexecuted(p) == doc[p].state \in {"DRAFT", "APPROVAL_PENDING", "APPROVED"}

Reserve(p, s, a) ==
  /\ Unexecuted(p)
  /\ reservation[p][s].state = "NONE"
  /\ reservation' = [reservation EXCEPT ![p][s] = [state |-> "ACTIVE", amount |-> a]]
  /\ UNCHANGED <<doc, snapshot, facts, instruction, allocation, reversing>>

\* The states a reservation falls due, is reviewed or is released from.
Before(to) ==
  CASE to = "OVERDUE" -> {"ACTIVE"}
    [] to = "REVIEW_REQUIRED" -> {"OVERDUE"}
    [] to = "RELEASED" -> {"ACTIVE", "REVIEW_REQUIRED"}

ChangeReservation(p, s) ==
  \E to \in {"OVERDUE", "REVIEW_REQUIRED", "RELEASED"} :
    /\ reservation[p][s].state \in Before(to)
    /\ reservation' = [reservation EXCEPT ![p][s].state = to]
    /\ UNCHANGED <<doc, snapshot, facts, instruction, allocation, reversing>>

Allocate(p, o, a, known, waived) ==
  /\ Unexecuted(p)
  /\ allocation[p][o].state = "NONE"
  /\ known # Unknown => a <= known
  /\ allocation' = [allocation EXCEPT ![p][o] =
       [state |-> "ACTIVE", amount |-> a, known |-> known, waived |-> waived]]
  /\ UNCHANGED <<doc, snapshot, facts, instruction, reservation, reversing>>

External(p) ==
  \/ \E s \in Sources : ChangeReservation(p, s) \/ \E a \in ReservedAmounts : Reserve(p, s, a)
  \/ \E o \in Obligations, a \in AllocatedAmounts, known \in KnownTotals, waived \in BOOLEAN :
       Allocate(p, o, a, known, waived)

-------------------------------------------------------------------------------
Init ==
  /\ ApprovalInit
  /\ facts = {}
  /\ instruction = [p \in Payments |-> [l \in Lines |-> "NONE"]]
  /\ reservation = [p \in Payments |-> [s \in Sources |-> NoReservation]]
  /\ allocation = [p \in Payments |-> [o \in Obligations |-> NoAllocation]]
  /\ reversing = {}

\* The steps that commit rows
Commit ==
  \/ ApprovalNext /\ UNCHANGED executionVars
  \/ \E p \in Payments, u \in Users :
       \/ Execute(u, p)
       \/ \E r \in Payments \ {p}, d \in Dates : Reverse(u, p, r, d)
       \/ \E l \in Lines, outcome \in Negative \cup {"CONFIRMED"} :
            RecordOutcome(u, p, l, outcome)
  \/ \E p \in Payments : External(p)

Next ==
  \/ Commit
  \/ \E p \in Payments : GiveUp(p) \/ \E u \in Users : ReadEffects(u, p)

Spec == Init /\ [][Next]_vars

-------------------------------------------------------------------------------
(* Properties.                                                             *)

\* The rows have their types.
ExecutionTypeOK ==
  /\ ApprovalTypeOK
  /\ facts \subseteq Fact
  /\ instruction \in [Payments -> [Lines -> InstructionStates]]
  /\ reservation \in [Payments -> [Sources -> Reservation]]
  /\ allocation \in [Payments -> [Obligations -> Allocation]]
  /\ reversing \subseteq Payments

IsReversal(r) == \E p \in Payments : doc[p].reversedBy = r

\* What a document should have posted, given the state it is in.
Due(p) ==
  IF doc[p].state \notin {"EXECUTED", "REVERSED"} THEN {}
  ELSE IF IsReversal(p)
  THEN {[payment |-> p, line |-> l, direction |-> "CREDIT",
         of |-> CHOOSE q \in Payments : doc[q].reversedBy = p] :
          l \in LinesOf[doc[p].content]}
  ELSE {[payment |-> p, line |-> l, direction |-> "DEBIT", of |-> NoPayment] :
          l \in LinesOf[doc[p].content]}

\* The movement facts are exactly one debit per executed line and one credit
\* per line of a reversal, which undoes one payment of the same content: no
\* sequence of executions and reversals posts a line twice (execute, reverse).
FactsFollowDocuments ==
  /\ \A p \in Payments : Posted(p) = Due(p)
  /\ \A p \in Payments : (doc[p].state = "REVERSED") <=> (doc[p].reversedBy # NoPayment)
  /\ \A p, q \in Payments :
       doc[p].reversedBy = q => /\ doc[q].state = "EXECUTED"
                                /\ doc[q].content = doc[p].content
                                /\ \A r \in Payments : doc[r].reversedBy = q => r = p

\* Every document that moved money out was fully approved, on the snapshot it
\* still points to (execute demands APPROVED and nothing clears the snapshot).
PaidWasApproved ==
  \A f \in facts : f.direction = "DEBIT" => FullyApproved(f.payment)

\* No payment is made by one person: someone other than its executor created
\* or approved it, also under a separation override.
NoSoloPayment ==
  \A f \in facts :
    f.direction = "DEBIT" =>
      \E u \in {doc[f.payment].creator} \cup {a.actor : a \in Approvals(f.payment)} :
        u # doc[f.payment].executor

\* Whoever undoes a payment took no part in it, nor did anyone act for them.
ReversedByOutsider ==
  \A p, r \in Payments :
    doc[p].reversedBy = r =>
      doc[r].executor \notin {doc[p].creator, doc[p].executor} \cup ApproverUsers(p)

\* Payments leave a source that was not below its floor without them at the floor
\* or above, however their lines share sources (payable, on totals per source).
FloorHolds ==
  \A s \in Sources : Opening[s] >= Floor[s] => Position(s) >= Floor[s]

\* Money leaves for what was approved, and for nothing else: the facts are those
\* of the documents, each approved in full and by more than one person, and the
\* sources keep their floors (execute, reverse).
FundsFollowApproval ==
  /\ FactsFollowDocuments
  /\ PaidWasApproved
  /\ NoSoloPayment
  /\ FloorHolds

\* The payments executed against an obligation of known total never allocate
\* more than the total, although allocations are checked one payment at a time.
ObligationNotOverpaid ==
  \A o \in Obligations, p \in Payments :
    LET settled == {q \in Siblings(o) : doc[q].state = "EXECUTED"}
    IN p \in settled /\ allocation[p][o].known # Unknown =>
         Allocated(settled, o) <= allocation[p][o].known

\* An executed payment holds no money back any more: what it reserved is never
\* both paid and withheld from the other payments (consumeReservations).
ExecutedHoldsNothing ==
  \A p \in Payments, s \in Sources :
    doc[p].state \in {"EXECUTED", "REVERSED"} => reservation[p][s].state \notin Held

\* A failed or returned transfer is recorded only once its money is back.
NegativeOutcomeIsReversed ==
  \A p \in Payments, l \in Lines :
    instruction[p][l] \in Negative => doc[p].state = "REVERSED"

\* Once a bank has confirmed a line of an executed payment, a RETURNED outcome is
\* blocked by the missing reversal, and a reversal by the confirmation, but for one
\* that read the instructions before: it commits although the line is confirmed
\* (payment-execution.service.ts:219).
ConfirmedUnlessOverlooked ==
  [][\A p \in Payments, l \in Lines :
       instruction[p][l] = "CONFIRMED" /\ doc[p].state = "EXECUTED"
       => /\ instruction'[p][l] = "CONFIRMED"
          /\ p \notin reversing => doc'[p] = doc[p] /\ p \notin reversing']_vars

\* Every command that changes an existing payment row advances its version by
\* one, so that an If-Match read before it no longer matches after it.
VersionAdvances ==
  [][\A p \in Payments :
       doc[p].state # "ABSENT" /\ doc'[p] # doc[p]
       => doc'[p].version = doc[p].version + 1]_vars

-------------------------------------------------------------------------------
(* The payments implement the ledger.                                      *)

PaidOut(p) == \E f \in Posted(p) : f.direction = "DEBIT"

Ledger == INSTANCE CashLedger WITH
  Amounts  <- 0 .. Sum(Lines, LineAmount),
  position <- [s \in Sources |-> Position(s)],
  status   <- [p \in Payments |->
                IF ~PaidOut(p) THEN "UNPAID"
                ELSE IF doc[p].reversedBy = NoPayment THEN "PAID" ELSE "REFUNDED"],
  outflow  <- [p \in Payments |-> [s \in Sources |->
                IF PaidOut(p) THEN Draw(p, s) ELSE 0]]

\* Executions and reversals, read off the movement facts and the documents,
\* pay and refund each payment at most once and as a whole.
ImplementsLedger == Ledger!LedgerSpec

-------------------------------------------------------------------------------
(* Liveness.                                                               *)

\* Clients keep trying the commands that move a payment forward.
Advance(p) ==
  /\ \/ Act(p)
     \/ \E u \in Users : Submit(u, p)
  /\ UNCHANGED executionVars

FairSpec == Spec /\ \A p \in Payments : WF_vars(Advance(p))

\* An "Approval aggregate stale" refusal is declared retryable: a pending
\* payment that is stale should become fresh, or leave the pending state.
StaleIsTemporary ==
  \A p \in Payments :
    doc[p].state = "APPROVAL_PENDING" /\ ~AggregationFresh(p)
      ~> (doc[p].state = "APPROVAL_PENDING" => AggregationFresh(p))
===============================================================================
