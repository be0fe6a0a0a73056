----------------------------- MODULE CashboxDay -----------------------------
(***************************************************************************)
(* The closing of a cashbox day: the custodian counts, a second user       *)
(* approves a variance, a business number is reserved in one transaction   *)
(* and consumed in a second one that closes the day and books the          *)
(* variance, and a closed day can be reopened, which starts a new cycle.   *)
(*                                                                         *)
(* One cashbox with one currency.  Every transaction here locks the row of *)
(* the cashbox first, so each is one action; the server may stop between   *)
(* the two transactions of a close, and the client repeats the command     *)
(* with the same idempotency key.  The custodian never changes: no command *)
(* rewrites an assignment.                                                 *)
(***************************************************************************)
EXTENDS Integers, Sequences, FiniteSets, SequencesExt, FiniteSetsExt

CONSTANTS
  Dates,          \* business dates, naturals in calendar order
  Users,
  Custodian,      \* the primary custodian of the cashbox
  Grants,         \* records [user, permission, limit] over cashbox permissions
  Keys,           \* idempotency keys the client of closeDay uses
  Reasons,        \* texts of variance reasons and reopen reasons
  Counts,         \* counted amounts, naturals
  Instruments,    \* cheques the cashbox may hold
  Nothing, NoReason,
  MaxValue,       \* the last number the numbering rule can give
  MaxPostings, MaxRequests, MaxCycles   \* bounds of the model

\* The counts of a close: the amount, why it differs, the cheques observed.
Command == [count : Counts, reason : Reasons \cup {NoReason}, observed : SUBSET Instruments]

Reservation ==
  [by : Users, date : Dates, command : Command, request : Nat, cycle : Nat, number : Nat,
   state : {"RESERVED", "CONSUMED"}]

DayAssumption ==
  /\ Dates \subseteq Nat /\ Counts \subseteq Nat
  /\ Nothing \notin Reservation
  /\ Custodian \in Users /\ MaxValue \in Nat /\ MaxCycles \in Nat \ {0}

VARIABLES
  cycles,         \* date -> sequence of its cashbox_days rows, one per cycle
  movements,      \* date -> sum of the movement facts dated on it
  postings,       \* how many movements other commands have appended
  held,           \* the cheques in the custody of the cashbox
  requests,       \* the close and reopen approval requests, by insertion
  nextValue,      \* numbering rule: the next value
  reserved,       \* key -> number reservation of closeDay, or Nothing
  call            \* key -> the close between its two transactions, or Nothing

vars == <<cycles, movements, postings, held, requests, nextValue, reserved, call>>

Abs(n) == IF n < 0 THEN -n ELSE n

\* The book amount: what is dated up to a day, or everything.
BookOf(dates) == FoldFunctionOnSet(+, 0, movements, dates)
Book(d) == BookOf({e \in Dates : e <= d})
Position == BookOf(Dates)

Latest(d) == cycles[d][Len(cycles[d])]
IsClosed(d) == cycles[d] # <<>> /\ Latest(d).state = "CLOSED"

\* The row a close starts from: the reopened one, or none yet (0).
SourceCycle(d) == Len(cycles[d])
CycleToClose(d) == Max({1, Len(cycles[d])})

Allowed(u, permission, amount) ==
  \E g \in Grants : g.user = u /\ g.permission = permission /\ amount <= g.limit

ReasonFits(c, book) == (c.reason = NoReason) <=> (c.count = book)

(***************************************************************************)
(* The approval requests of a day.  One command is requested once for a    *)
(* source row, whatever became of the request.                             *)
(***************************************************************************)
Request(kind, d, u, c, reason) ==
  [kind |-> kind, date |-> d, by |-> u, command |-> c, reason |-> reason,
   source |-> SourceCycle(d), book |-> Book(d), held |-> held,
   state |-> "PENDING", actor |-> Nothing]

Subject(r) == <<r.kind, r.date, r.command, r.reason, r.source>>

InsertRequest(r) ==
  /\ Len(requests) < MaxRequests
  /\ Subject(r) \notin {Subject(requests[i]) : i \in DOMAIN requests}
  /\ requests' = Append(requests, r)
  /\ UNCHANGED <<cycles, movements, postings, held, nextValue, reserved, call>>

RequestClose(u, d, c) ==
  /\ ~ IsClosed(d)
  /\ u = Custodian
  /\ ReasonFits(c, Book(d)) /\ c.count # Book(d)
  /\ c.observed \subseteq held
  /\ Allowed(u, "cashbox.close", Abs(c.count - Book(d)))
  /\ InsertRequest(Request("CLOSE", d, u, c, NoReason))

RequestReopen(u, d, reason) ==
  /\ IsClosed(d)
  /\ Allowed(u, "cashbox.reopen", 0)
  /\ InsertRequest(Request("REOPEN", d, u, Nothing, reason))

\* The approver judges a close against everything the cashbox holds, not
\* against what is dated up to the day.
Visible(u, r, permission) ==
  IF r.kind = "CLOSE"
    THEN /\ ReasonFits(r.command, Position)
         /\ Allowed(u, permission, Abs(r.command.count - Position))
    ELSE Allowed(u, permission, 0)

Actionable(u, r) == r.state = "PENDING" /\ r.by # u

\* One request whose reason no longer fits fails the whole listing.
ActionableQueue(u, permission) ==
  LET shown == {i \in DOMAIN requests : Actionable(u, requests[i])}
  IN IF \E i \in shown : /\ requests[i].kind = "CLOSE"
                         /\ ~ ReasonFits(requests[i].command, Position)
       THEN {}
       ELSE {i \in shown : Visible(u, requests[i], permission)}

CompleteAction(u, i, verdict) ==
  requests' = [requests EXCEPT ![i].state = verdict, ![i].actor = u]

MayAct(u, i, verdict) ==
  /\ requests[i].state = "PENDING"
  /\ requests[i].by # u
  /\ Visible(u, requests[i],
             IF verdict = "APPROVED" THEN "cashbox.approve" ELSE "cashbox.reject")

ActOnApproval(u, i, verdict) ==
  /\ MayAct(u, i, verdict)
  /\ CompleteAction(u, i, verdict)
  /\ UNCHANGED <<cycles, movements, postings, held, nextValue, reserved, call>>

(***************************************************************************)
(* Closing.  An approval serves the command, the source row and the book   *)
(* and cheques it was requested for.                                       *)
(***************************************************************************)
SnapshotStands(r) == r.book = Book(r.date) /\ r.held = held

SameSource(r) == r.source = SourceCycle(r.date)

ApprovedAction(i, u) ==
  i \in DOMAIN requests /\ requests[i].state = "APPROVED" /\ requests[i].by = u

ApprovalServes(i, u, d, c) ==
  /\ ApprovedAction(i, u)
  /\ requests[i].kind = "CLOSE" /\ requests[i].date = d /\ requests[i].command = c
  /\ SameSource(requests[i]) /\ SnapshotStands(requests[i])

PrepareClose(u, d, c, i) ==
  /\ ~ IsClosed(d)
  /\ u = Custodian
  /\ Allowed(u, "cashbox.close", 0)
  /\ ReasonFits(c, Book(d))
  /\ c.observed \subseteq held
  /\ IF c.count # Book(d) THEN ApprovalServes(i, u, d, c) ELSE i = 0

WithinWidth == nextValue <= MaxValue

TakeNumber(k, r) ==
  /\ WithinWidth
  /\ nextValue' = nextValue + 1
  /\ reserved' = [reserved EXCEPT ![k] = r]

\* The first transaction of closeDay under a key it has not seen.
ReserveNumber(u, k, d, c, i) ==
  /\ reserved[k] = Nothing
  /\ PrepareClose(u, d, c, i)
  /\ TakeNumber(k, [by |-> u, date |-> d, command |-> c, request |-> i,
                     cycle |-> CycleToClose(d), number |-> nextValue, state |-> "RESERVED"])
  /\ call' = [call EXCEPT ![k] = "reserved"]
  /\ UNCHANGED <<cycles, movements, postings, held, requests>>

\* The client repeats a close it has no answer to: the number is there.
RetryClose(k) ==
  /\ reserved[k] # Nothing /\ reserved[k].state = "RESERVED"
  /\ call[k] = Nothing
  /\ call' = [call EXCEPT ![k] = "reserved"]
  /\ UNCHANGED <<cycles, movements, postings, held, requests, nextValue, reserved>>

\* The second transaction refuses, or the server stops before it.
CloseLost(k) ==
  /\ call[k] # Nothing
  /\ call' = [call EXCEPT ![k] = Nothing]
  /\ UNCHANGED <<cycles, movements, postings, held, requests, nextValue, reserved>>

ClosedRow(n, d, c, i, version) ==
  [state |-> "CLOSED", version |-> version, number |-> n, count |-> c.count,
   book |-> Book(d), held |-> held, request |-> i]

\* Faulty variant: the number serves a later cycle.
AnyCycle(r) == TRUE
CycleHolds(r) == r.cycle = CycleToClose(r.date)

WriteClosed(d, row) ==
  cycles' = [cycles EXCEPT ![d] = IF @ = <<>> THEN <<row>> ELSE [@ EXCEPT ![Len(@)] = row]]

ConsumeNumber(k) ==
  reserved[k].state = "RESERVED" /\ reserved' = [reserved EXCEPT ![k].state = "CONSUMED"]

\* The second transaction: close the row, consume the number, book the variance.
CloseDay(k) ==
  LET r == reserved[k]
      d == r.date
      row == ClosedRow(r.number, d, r.command, r.request,
                       IF cycles[d] = <<>> THEN 1 ELSE Latest(d).version + 1)
  IN /\ call[k] # Nothing
     /\ PrepareClose(r.by, d, r.command, r.request)
     /\ CycleHolds(r)
     /\ WriteClosed(d, row)
     /\ movements' = [movements EXCEPT ![d] = @ + r.command.count - Book(d)]
     /\ ConsumeNumber(k)
     /\ call' = [call EXCEPT ![k] = Nothing]
     /\ UNCHANGED <<postings, held, requests, nextValue>>

ReopenedRow(i) ==
  [state |-> "REOPENED", version |-> 1, number |-> Nothing, count |-> Nothing,
   book |-> Nothing, held |-> {}, request |-> i]

ReopenDay(u, d, i) ==
  /\ IsClosed(d)
  /\ Len(cycles[d]) < MaxCycles
  /\ Allowed(u, "cashbox.reopen", 0)
  /\ ApprovedAction(i, u)
  /\ requests[i].kind = "REOPEN" /\ requests[i].date = d
  /\ SameSource(requests[i])
  /\ cycles' = [cycles EXCEPT ![d] = Append(@, ReopenedRow(i))]
  /\ UNCHANGED <<movements, postings, held, requests, nextValue, reserved, call>>

(***************************************************************************)
(* What other commands do to the cashbox.  A receipt, a payment and the    *)
(* release of a transfer look at the day of their date; the receipt of a   *)
(* transfer at its destination does not.                                   *)
(***************************************************************************)
AppendMovement(d, amount) ==
  /\ postings < MaxPostings
  /\ postings' = postings + 1
  /\ movements' = [movements EXCEPT ![d] = @ + amount]
  /\ UNCHANGED <<cycles, held, requests, nextValue, reserved, call>>

\* Faulty variant: a reopened day takes postings.
UnlessClosed(d) == ~ IsClosed(d)
DayOpen(d) == cycles[d] = <<>>

PostOnOpenDay(d, amount) ==
  /\ DayOpen(d)
  /\ amount < 0 => Position + amount >= 0
  /\ AppendMovement(d, amount)

AcknowledgeTransfer(d, amount) == AppendMovement(d, amount)

MoveCheque(q) ==
  /\ postings < MaxPostings
  /\ postings' = postings + 1
  /\ held' = IF q \in held THEN held \ {q} ELSE held \cup {q}
  /\ UNCHANGED <<cycles, movements, requests, nextValue, reserved, call>>

Init ==
  /\ cycles = [d \in Dates |-> <<>>]
  /\ movements = [d \in Dates |-> 0]
  /\ postings = 0
  /\ held = {}
  /\ requests = <<>>
  /\ nextValue = 1
  /\ reserved = [k \in Keys |-> Nothing]
  /\ call = [k \in Keys |-> Nothing]

Next ==
  \/ \E u \in Users, d \in Dates, c \in Command : RequestClose(u, d, c)
  \/ \E u \in Users, d \in Dates, reason \in Reasons : RequestReopen(u, d, reason)
  \/ \E u \in Users, i \in DOMAIN requests, verdict \in {"APPROVED", "REJECTED"} :
       ActOnApproval(u, i, verdict)
  \/ \E u \in Users, k \in Keys, d \in Dates, c \in Command, i \in 0 .. Len(requests) :
       ReserveNumber(u, k, d, c, i)
  \/ \E k \in Keys : RetryClose(k) \/ CloseLost(k) \/ CloseDay(k)
  \/ \E u \in Users, d \in Dates, i \in DOMAIN requests : ReopenDay(u, d, i)
  \/ \E d \in Dates, amount \in {-1, 1} : PostOnOpenDay(d, amount)
  \/ \E d \in Dates : AcknowledgeTransfer(d, 1)
  \/ \E q \in Instruments : MoveCheque(q)

Spec == Init /\ [][Next]_vars

-----------------------------------------------------------------------------
\* Row, reservation and request states are those of the check constraints.
DayTypeOK ==
  /\ \A d \in Dates : \A n \in DOMAIN cycles[d] :
       cycles[d][n].state \in {"CLOSED", "REOPENED"} /\ n <= MaxCycles
  /\ \A k \in Keys : reserved[k] # Nothing =>
       reserved[k].state \in {"RESERVED", "CONSUMED"} /\ reserved[k].number < nextValue
  /\ nextValue \in 1 .. MaxValue + 1

\* Every closed cycle carries the number of exactly one consumed reservation,
\* made for that date and cycle, and no consumed reservation is without its
\* closed cycle: neither a stop between the two transactions nor a repeated
\* or a competing close gives a day two numbers or two days one number.
NumbersMatchDays ==
  /\ \A d \in Dates : \A n \in DOMAIN cycles[d] : cycles[d][n].state = "CLOSED" =>
       \E k \in Keys : /\ reserved[k] # Nothing
                       /\ reserved[k].state = "CONSUMED"
                       /\ reserved[k].date = d /\ reserved[k].cycle = n
                       /\ reserved[k].number = cycles[d][n].number
  /\ \A k \in Keys : reserved[k] # Nothing /\ reserved[k].state = "CONSUMED" =>
       /\ reserved[k].cycle \in DOMAIN cycles[reserved[k].date]
       /\ cycles[reserved[k].date][reserved[k].cycle].number = reserved[k].number
  /\ \A k, l \in Keys : k # l /\ reserved[k] # Nothing /\ reserved[l] # Nothing =>
       reserved[k].number # reserved[l].number

\* A variance is booked only as another user approved it: the amounts counted
\* and booked and the cheques held are those of the request, which started
\* from the same cycle.
VarianceWasApproved ==
  \A d \in Dates : \A n \in DOMAIN cycles[d] :
    LET row == cycles[d][n]
    IN row.state = "CLOSED" /\ row.count # row.book =>
         /\ row.request \in DOMAIN requests
         /\ LET r == requests[row.request]
            IN /\ r.kind = "CLOSE" /\ r.date = d
               /\ r.state = "APPROVED" /\ r.actor # Custodian
               /\ r.command.count = row.count /\ r.book = row.book /\ r.held = row.held
               /\ r.source = IF n = 1 THEN 0 ELSE n

\* An approval is spent once: no two rows, closed or reopened, of the cashbox
\* stand on the same approval.
ApprovalSpentOnce ==
  \A d, e \in Dates : \A n \in DOMAIN cycles[d], m \in DOMAIN cycles[e] :
    /\ cycles[d][n].request \in DOMAIN requests
    /\ cycles[d][n].request = cycles[e][m].request
    => d = e /\ n = m

\* However closes, reopenings, approvals and postings interleave, stop half-way
\* and are repeated, a closed day carries one number of its own, and a variance
\* is booked only as another user approved it and by an approval spent once
\* (cashbox-operations.service.ts:357).
DaysAreSound ==
  /\ DayTypeOK /\ NumbersMatchDays
  /\ VarianceWasApproved /\ ApprovalSpentOnce

\* What the queue of an approver shows is what the approver may act on.
QueueShowsActionable ==
  \A u \in Users : \A i \in ActionableQueue(u, "cashbox.approve") :
    i \in DOMAIN requests /\ MayAct(u, i, "APPROVED")

\* The command a day is closed by leaves the book of the day at the amount
\* counted, and no other step moves the money of a day that has been closed
\* unless it acknowledges a transfer.
Booked ==
  \A d \in Dates : movements'[d] # movements[d] /\ cycles[d] # <<>> =>
    \/ BookOf({e \in Dates : e <= d})' = Latest(d)'.count /\ ~ IsClosed(d)
    \/ AcknowledgeTransfer(d, 1)
=============================================================================
