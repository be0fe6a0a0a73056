----------------------------- MODULE MCTransactions -----------------------------
(***************************************************************************)
(* Transactions of clients who repeat their commands and of users who race, *)
(* in five parts, one of which a behaviour is about:                       *)
(*   keys     commands under one key: one that is sent twice at once, one  *)
(*            that reuses the key for another body, one by another actor;  *)
(*   retries  the first two of these, under fairness;                      *)
(*   race     two reversals and two clerks over two instructions;          *)
(*   waits    two commands on rows they share, under fairness;             *)
(*   order    three commands of those that lock in one order.              *)
(* In the last two, payments 1 and 2 are of one group and one obligation,  *)
(* draw on two tills in opposite orders and have reservations on them;     *)
(* payment 3 is plain and paid from till 1; payment 4 is the reversal of   *)
(* payment 1.  Transfers 1 and 2 move cash between the tills both ways,    *)
(* transfer 3 hands over from a user to till 1.                            *)
(* Where a part is not about commands under a key, or not about the race,  *)
(* these stay as they start.                                               *)
(***************************************************************************)
EXTENDS TransactionParts

CONSTANTS
  ann, bob, key, pay, other, l1, l2, r1, r2, c1, c2, t1, t2, t3

-------------------------------------------------------------------------------
(* The parts.                                                              *)

Mine == [actor |-> ann, key |-> key, body |-> pay]
Reused == [actor |-> ann, key |-> key, body |-> other]
Theirs == [actor |-> bob, key |-> key, body |-> pay]

MCCommands == {Mine, Reused, Theirs}
MCAttempts == {<<Mine, 1>>, <<Mine, 2>>, <<Reused, 1>>, <<Theirs, 1>>}
RetryAttempts == {<<Mine, 1>>, <<Mine, 2>>, <<Reused, 1>>}

Retried == INSTANCE IdempotentCommand WITH Commands <- {Mine, Reused}, Attempts <- RetryAttempts

MCLines == {l1, l2}
MCReversers == {r1, r2}
MCClerks == {c1, c2}

Do(what, on) == {[do |-> what, on |-> x] : x \in on}

AllTasks ==
  Do("act", 1 .. 3) \cup Do("execute", 1 .. 3) \cup Do("reverse", {1, 3})
    \cup Do("outcome", {1}) \cup Do("release", 1 .. 3) \cup Do("finish", 1 .. 3)
OrderedTasks ==
  Do("execute", {3}) \cup Do("reverse", {3}) \cup Do("outcome", {1})
    \cup Do("release", {1, 2}) \cup Do("finish", {1, 2})

MCSources == << <<1, 2>>, <<2, 1>>, <<1>>, <<>> >>
MCAllocations == << <<1>>, <<2>>, <<>>, <<>> >>
MCSiblings == << <<1, 2>>, <<1, 2>> >>
MCReservations == << <<1>>, <<2>>, <<>>, <<>> >>
MCReserved == << << <<>>, <<2>> >>, << <<1>>, <<>> >>, << <<1>>, <<2>> >>, << <<1>>, <<2>> >> >>
MCGroupOf == <<1, 1, 2, 3>>
MCParticipants == << <<2>>, <<1>>, <<>>, <<>> >>
MCPaymentOf == <<1>>
MCReversalOf == <<4>>
MCRoute == << [from |-> [cashbox |-> 1], to |-> [cashbox |-> 2]],
              [from |-> [cashbox |-> 2], to |-> [cashbox |-> 1]],
              [from |-> [user |-> 1], to |-> [cashbox |-> 1]] >>

MCLockCommands == {t1, t2, t3}

ASSUME RetryAssumption == Retried!CommandsAssumption /\ Retried!NoneAssumption

\* Commands on rows are interchangeable, so their tasks are dealt in one order.
Order == <<"act", "execute", "reverse", "outcome", "release", "finish">>
Dealt(c) == 4 * (CHOOSE k \in DOMAIN Order : Order[k] = work[c].do) + work[c].on

MCInit ==
  /\ PartsInit
  /\ part \notin CommandParts => helper = CreatePayment /\ allowed = Actors
  /\ part \in LockParts => Dealt(t1) <= Dealt(t2)
  /\ part = "waits" => work[t3] = [do |-> "finish", on |-> 1]
  /\ part = "order" => work[t1] \in OrderedTasks /\ work[t2] \in OrderedTasks
                       /\ work[t3] \in OrderedTasks /\ Dealt(t2) <= Dealt(t3)

\* In the parts under fairness the other actor and the third transaction never
\* come.
MCNext ==
  /\ PartsNext
  /\ part = "retries" => \A a \in Attempts \ RetryAttempts : at'[a] = "idle"
  /\ part = "waits" => taken'[t3] = 0 /\ t3 \notin DOMAIN waiting'

\* The fairness of IdempotentCommand in its part.  Of transactions, each that can
\* go on does, and the detector finds every circle.
NotLocks == UNCHANGED <<part, raceVars, lockPart>>
OnlyLocks == UNCHANGED <<part, vars, raceVars>>
MCFairness ==
  /\ \A a \in RetryAttempts :
       /\ WF_allParts(part = "retries" /\ Send(a) /\ NotLocks)
       /\ SF_allParts(part = "retries" /\ TakeLock(a) /\ NotLocks)
       /\ WF_allParts(part = "retries" /\ Serve(a) /\ NotLocks)
       /\ SF_allParts(part = "retries" /\ Hear(a) /\ NotLocks)
  /\ \A c \in {t1, t2} :
       /\ WF_allParts(part = "waits" /\ Rows!Lock(c) /\ OnlyLocks)
       /\ WF_allParts(part = "waits" /\ Rows!Wait(c) /\ OnlyLocks)
       /\ WF_allParts(part = "waits" /\ Rows!Commit(c) /\ OnlyLocks)
  /\ WF_allParts(part = "waits" /\ (\E c \in {t1, t2} : Rows!Abort(c)) /\ OnlyLocks)

MCSpec == MCInit /\ [][MCNext]_allParts /\ MCFairness

-------------------------------------------------------------------------------
(* Properties.                                                             *)

\* Whoever repeats a command until it is heard of, and keeps the authority, is
\* answered, unless the key was spent on another command; and no command is
\* left waiting for a lock its holder will never give back (the idempotency
\* record and its rollback, payment-approval.repository.ts:285).
EveryCommandEnds ==
  /\ part = "retries" => Retried!RetriesAreAnswered
  /\ \A c \in {t1, t2} : <>(part = "waits" => Rows!Ended(c))
===============================================================================
