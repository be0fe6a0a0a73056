------------------------------ MODULE RowLocks ------------------------------
(***************************************************************************)
(* Which rows the commands on payments, bank instructions and transfers    *)
(* lock, in which order, and how their transactions wait for each other.   *)
(* The other modules take a command as one step because it holds these     *)
(* locks until it commits; this module looks at what they cost.            *)
(*                                                                         *)
(* PostgreSQL is modelled by what the code relies on: a row lock is        *)
(* exclusive (FOR UPDATE) or shared (FOR SHARE) and kept to the end of the *)
(* transaction, requests for a row are served in their order, and of a     *)
(* circle of waiting transactions one is aborted.                          *)
(***************************************************************************)
EXTENDS Naturals, Sequences, SequencesExt, FiniteSets, Functions

\* Documents are numbered as they are made, the other rows in the order of their ids.
CONSTANTS
  Commands,      \* transactions that run side by side
  Tasks,         \* records [do, on]: what a transaction is asked to do
  Sources,       \* Sources[p]: the cashboxes and accounts of payment p, in
                 \* the order of its lines
  Allocations,   \* Allocations[p]: the active allocations of p
  Siblings,      \* Siblings[a]: the active allocations to the same obligation
  Reservations,  \* Reservations[p]: the reservations of p
  Reserved,      \* Reserved[p][s]: what other payments than p have reserved of s
  GroupOf,       \* GroupOf[p]: the group payment p is aggregated in
  Participants,  \* Participants[p]: the other payments of the group, by id
  PaymentOf,     \* PaymentOf[i]: the payment bank instruction i belongs to
  ReversalOf,    \* ReversalOf[i]: the document that reverses that payment
  Route          \* Route[t]: [from, to] of transfer t

Payments == DOMAIN Sources
Instructions == DOMAIN PaymentOf
Transfers == DOMAIN Route
End == [cashbox : Nat] \cup [user : Nat]

TasksAssumption ==
  /\ IsFiniteSet(Commands)
  /\ Tasks \subseteq [do : {"act", "execute", "reverse"}, on : Payments]
                      \cup [do : {"outcome"}, on : Instructions]
                      \cup [do : {"release", "finish"}, on : Transfers]

\* A reservation is of one source, and a reversal comes after what it reverses.
RowsAssumption ==
  /\ Payments \cup Instructions \cup Transfers \subseteq Nat
  /\ Sources \in [Payments -> Seq(Nat)] /\ Allocations \in [Payments -> Seq(Nat)]
  /\ Reservations \in [Payments -> Seq(Nat)] /\ Participants \in [Payments -> Seq(Nat)]
  /\ GroupOf \in [Payments -> Nat] /\ Route \in [Transfers -> [from : End, to : End]]
  /\ \A p \in Payments :
       /\ \A a \in Range(Allocations[p]) : Siblings[a] \in Seq(Nat)
       /\ \A s \in Range(Sources[p]) : Reserved[p][s] \in Seq(Nat)
  /\ \A p, q \in Payments : \A s \in Range(Sources[p]), t \in Range(Sources[q]) :
       s # t => Range(Reserved[p][s]) \cap Range(Reserved[q][t]) = {}
  /\ \A i \in Instructions :
       PaymentOf[i] \in Nat /\ ReversalOf[i] \in Nat /\ PaymentOf[i] < ReversalOf[i]

VARIABLES
  task,    \* what each transaction does
  taken,   \* how many of its requests have been granted
  state,   \* "running", "committed" or "aborted"
  locks,   \* the granted requests: records [by, row, mode]
  waiting  \* waiting[c]: of those that wait, the ones that came before c

vars == <<task, taken, state, locks, waiting>>

-----------------------------------------------------------------------------
(* The requests of each command, in the order its code makes them          *)

Update(kind, id) == [row |-> <<kind, id>>, mode |-> "exclusive"]
Share(kind, id) == [row |-> <<kind, id>>, mode |-> "shared"]

UpdateAll(kind, ids) == [i \in DOMAIN ids |-> Update(kind, ids[i])]

\* The payment itself, then its allocations, then its reservations.  The rows
\* of its lines are locked under it and by nobody else.
LockPayment(p) ==
  <<Update("payment", p)>> \o UpdateAll("allocation", Allocations[p])
                           \o UpdateAll("reservation", Reservations[p])

\* For every allocation in turn, all active allocations of its obligation
SiblingAllocations(p) ==
  FlattenSeq([i \in DOMAIN Allocations[p] |->
                UpdateAll("allocation", Siblings[Allocations[p][i]])])

\* Whoever pays from s also locks what other payments have reserved of it.
Payable(p, s) == <<Update("source", s)>> \o UpdateAll("reservation", Reserved[p][s])

CheckSources(p) == FlattenSeq([i \in DOMAIN Sources[p] |-> Payable(p, Sources[p][i])])

\* pg_advisory_xact_lock on the key of the group, then its other documents
MatchingParticipants(p) ==
  <<Update("group", GroupOf[p])>> \o
  [i \in DOMAIN Participants[p] |-> Share("payment", Participants[p][i])]

\* Faulty variant: the cashboxes are locked as the transfer names them, the
\* source first.
CustodiansAsNamed(t) ==
  LET lock(e) == IF "user" \in DOMAIN e THEN <<Share("user", e.user)>>
                                        ELSE <<Update("source", e.cashbox)>>
  IN  lock(Route[t].from) \o lock(Route[t].to)

Ascending(S) ==
  CHOOSE q \in [1 .. Cardinality(S) -> S] : \A i, j \in DOMAIN q : i < j => q[i] < q[j]

\* The cashboxes of both ends in the order of their ids, then the users
Custodians(t) ==
  LET cashboxes == {e \in {Route[t].from, Route[t].to} : "cashbox" \in DOMAIN e}
      users(e) == IF "user" \in DOMAIN e THEN <<Share("user", e.user)>> ELSE <<>>
  IN  UpdateAll("source", Ascending({e.cashbox : e \in cashboxes})) \o
      users(Route[t].from) \o users(Route[t].to)

SourceAvailability(t) ==
  LET from == Route[t].from
  IN  IF "user" \in DOMAIN from THEN <<Update("user", from.user)>>
                                ELSE <<Update("source", from.cashbox)>>

Act(p) == <<Update("payment", p)>> \o MatchingParticipants(p)
ExecutePayment(p) == LockPayment(p) \o SiblingAllocations(p) \o CheckSources(p)
ReversePayment(p) == LockPayment(p) \o UpdateAll("source", Sources[p])
\* A negative outcome also reads the payment and the one that corrects it.
RecordOutcome(i) == <<Update("instruction", i), Share("payment", PaymentOf[i]),
                      Share("payment", ReversalOf[i])>>
\* The last approval of a transfer and its acknowledgement
Finish(t) == <<Update("transfer", t)>> \o Custodians(t)
Release(t) == Finish(t) \o SourceAvailability(t)

RequestsOf(x) ==
  CASE x.do = "act" -> Act(x.on)
    [] x.do = "execute" -> ExecutePayment(x.on)
    [] x.do = "reverse" -> ReversePayment(x.on)
    [] x.do = "outcome" -> RecordOutcome(x.on)
    [] x.do = "release" -> Release(x.on)
    [] x.do = "finish" -> Finish(x.on)

Requests(c) == RequestsOf(task[c])

-----------------------------------------------------------------------------
(* The lock manager                                                        *)

Init ==
  /\ task \in [Commands -> Tasks]
  /\ taken = [c \in Commands |-> 0]
  /\ state = [c \in Commands |-> "running"]
  /\ locks = {}
  /\ waiting = [c \in {} |-> {}]

Request(c) == Requests(c)[taken[c] + 1]
Wants(c) == state[c] = "running" /\ taken[c] < Len(Requests(c))
Waits(c) == c \in DOMAIN waiting

Conflict(r, l) == r.row = l.row /\ "exclusive" \in {r.mode, l.mode}

Earlier(c) == IF Waits(c) THEN waiting[c] ELSE DOMAIN waiting

\* What c has to wait for: holders of its row, and those who asked before it
\* unless it holds the row in some mode
Blockers(c) ==
  {l.by : l \in {k \in locks : k.by # c /\ Conflict(Request(c), k)}}
  \cup {d \in Earlier(c) : Conflict(Request(c), Request(d))
                            /\ ~\E l \in locks : l.by = c /\ l.row = Request(c).row}

Left(c) == [d \in DOMAIN waiting \ {c} |-> waiting[d] \ {c}]

Lock(c) ==
  /\ Wants(c) /\ Blockers(c) = {}
  /\ locks' = locks \cup {[by |-> c, row |-> Request(c).row, mode |-> Request(c).mode]}
  /\ taken' = [taken EXCEPT ![c] = @ + 1]
  /\ waiting' = Left(c)
  /\ UNCHANGED <<task, state>>

Wait(c) ==
  /\ Wants(c) /\ ~Waits(c) /\ Blockers(c) # {}
  /\ waiting' = [d \in DOMAIN waiting \cup {c} |-> IF d = c THEN DOMAIN waiting ELSE waiting[d]]
  /\ UNCHANGED <<task, taken, state, locks>>

\* Every lock of the code ends with its transaction, the advisory one too.
Released(c) == {l \in locks : l.by # c}

Commit(c) ==
  /\ state[c] = "running" /\ taken[c] = Len(Requests(c))
  /\ state' = [state EXCEPT ![c] = "committed"]
  /\ locks' = Released(c)
  /\ UNCHANGED <<task, taken, waiting>>

\* T has whom c waits for in S, whom these wait for, and so on.
Follows(T, c, S) ==
  /\ Blockers(c) \cap S \subseteq T
  /\ \A d \in T : Waits(d) => Blockers(d) \cap S \subseteq T

\* c waits for itself, directly or through others in S.
InCircle(c, S) == Waits(c) /\ \A T \in SUBSET S : Follows(T, c, S) => c \in T

\* The deadlock detector makes one of a circle its victim.  Its transaction is
\* rolled back and its caller gets an error: no code repeats the command.
Abort(c) ==
  /\ InCircle(c, Commands)
  /\ state' = [state EXCEPT ![c] = "aborted"]
  /\ locks' = Released(c)
  /\ waiting' = Left(c)
  /\ UNCHANGED <<task, taken>>

Done == /\ \A c \in Commands : state[c] # "running"
        /\ UNCHANGED vars

Next ==
  \/ \E c \in Commands : Lock(c) \/ Wait(c) \/ Commit(c) \/ Abort(c)
  \/ Done

Spec == Init /\ [][Next]_vars

-----------------------------------------------------------------------------
(* Properties                                                              *)

\* Types of the variables; no row has a conflicting holder, and what has ended
\* holds nothing
LockTypeOK ==
  /\ task \in [Commands -> Tasks]
  /\ taken \in [Commands -> Nat] /\ \A c \in Commands : taken[c] <= Len(Requests(c))
  /\ state \in [Commands -> {"running", "committed", "aborted"}]
  /\ \A l \in locks : l.by \in Commands /\ l.mode \in {"exclusive", "shared"}
  /\ \A l \in locks : state[l.by] = "running"
  /\ \A k, l \in locks : k.by # l.by => ~Conflict(k, l)
  /\ DOMAIN waiting \subseteq Commands
  /\ \A c \in DOMAIN waiting : waiting[c] \subseteq DOMAIN waiting \ {c}

\* The commands whose locks are taken in one order: outcomes of instructions,
\* executions and reversals of payments from one source with neither
\* allocations nor reservations, and every command on a transfer except the
\* release by a user, which takes the user's row twice.
InOneOrder(x) ==
  \/ x.do \in {"outcome", "finish"}
  \/ x.do = "release" /\ "cashbox" \in DOMAIN Route[x.on].from
  \/ x.do \in {"execute", "reverse"} /\ Len(Sources[x.on]) = 1
                                    /\ Allocations[x.on] = <<>> /\ Reservations[x.on] = <<>>
Ordered == {c \in Commands : InOneOrder(task[c])}

\* Two cashboxes may be emptied into each other, paid from and paid back into
\* at the same time: commands that lock in one order never wait for each other
\* in a circle, whatever the names of the cashboxes and the order of arrival
\* (transfer.repository.ts:740, the sort of the ids before the locks).
OrderedNeverDeadlock == \A c \in Ordered : ~InCircle(c, Ordered)

\* Committed, or aborted with an error to its caller
Ended(c) == state[c] # "running"

=============================================================================
