----------------------------- MODULE ReverseRace -----------------------------
(***************************************************************************)
(* A reversal and the outcomes of bank instructions with their reads and   *)
(* locks as steps.  A reversal locks the payment and reads the             *)
(* instructions; an outcome locks its instruction and reads the payment.   *)
(* Neither locks what the other writes, and each reads what is committed.  *)
(***************************************************************************)
EXTENDS Naturals

CONSTANTS Lines, Reversers, Clerks

Nobody == "none"
Racers == Reversers \cup Clerks

ASSUME RaceAssumption == Reversers \cap Clerks = {} /\ Nobody \notin Racers

Negative == {"REJECTED", "CANCELLED", "RETURNED"}
Outcomes == {"CONFIRMED"} \cup Negative

VARIABLES
  payment,      \* committed: reversed, version
  instruction,  \* committed: state and version by line
  paymentLock,  \* who holds the payment FOR UPDATE
  shares,       \* who holds it FOR SHARE
  lineLock,     \* who holds an instruction FOR UPDATE
  task          \* what each actor's command has come to

raceVars == <<payment, instruction, paymentLock, shares, lineLock, task>>

Idle == [step |-> "idle", match |-> 0, line |-> Nobody, outcome |-> Nobody]

RaceInit ==
  /\ payment = [reversed |-> FALSE, version |-> 0]
  /\ instruction = [l \in Lines |-> [state |-> "PENDING_CONFIRMATION", version |-> 0]]
  /\ paymentLock = Nobody /\ shares = {} /\ lineLock = [l \in Lines |-> Nobody]
  /\ task = [a \in Racers |-> Idle]

At(a, step) == task[a].step = step
Goto(a, step) == task' = [task EXCEPT ![a].step = step]

\* A command ends, by a refusal, a fault or its commit, and its locks with it.
End(a) ==
  /\ task' = [task EXCEPT ![a] = Idle]
  /\ paymentLock' = IF paymentLock = a THEN Nobody ELSE paymentLock
  /\ shares' = shares \ {a}
  /\ lineLock' = [l \in Lines |-> IF lineLock[l] = a THEN Nobody ELSE lineLock[l]]

GiveUp(a) == End(a) /\ UNCHANGED <<payment, instruction>>

\* If-Match is a version the client has read.
AskReversal(r) ==
  /\ At(r, "idle")
  /\ task' = [task EXCEPT ![r] = [Idle EXCEPT !.step = "asked", !.match = payment.version]]
  /\ UNCHANGED <<payment, instruction, paymentLock, shares, lineLock>>

AskOutcome(c, l, outcome) ==
  /\ At(c, "idle")
  /\ task' = [task EXCEPT ![c] = [step |-> "asked", match |-> instruction[l].version,
                                  line |-> l, outcome |-> outcome]]
  /\ UNCHANGED <<payment, instruction, paymentLock, shares, lineLock>>

-----------------------------------------------------------------------------
(* Reversal                                                                *)

lockPayment(r) ==
  /\ At(r, "asked") /\ paymentLock = Nobody /\ shares = {}
  /\ IF payment.version = task[r].match /\ ~payment.reversed
     THEN /\ Goto(r, "locked") /\ paymentLock' = r
          /\ UNCHANGED <<payment, instruction, shares, lineLock>>
     ELSE GiveUp(r)

\* Faulty variant: only what has been returned blocks.
blocksReturnedOnly(state) == state = "RETURNED"

blocks(state) == state \in {"CONFIRMED", "RETURNED"}

effects(r) ==
  /\ At(r, "locked")
  /\ IF \E l \in Lines : blocks(instruction[l].state)
     THEN GiveUp(r)
     ELSE Goto(r, "read") /\ UNCHANGED <<payment, instruction, paymentLock, shares, lineLock>>

completeReversal(r) ==
  /\ At(r, "read")
  /\ payment' = [reversed |-> TRUE, version |-> payment.version + 1]
  /\ End(r) /\ UNCHANGED instruction

-----------------------------------------------------------------------------
(* Outcome                                                                 *)

transition(state, outcome) ==
  \/ state = "PENDING_CONFIRMATION" /\ outcome # "RETURNED"
  \/ state = "CONFIRMED" /\ outcome = "RETURNED"

lockInstruction(c) ==
  LET l == task[c].line IN
  /\ At(c, "asked") /\ lineLock[l] = Nobody
  /\ IF instruction[l].version = task[c].match /\ transition(instruction[l].state, task[c].outcome)
     THEN /\ Goto(c, "locked") /\ lineLock' = [lineLock EXCEPT ![l] = c]
          /\ UNCHANGED <<payment, instruction, paymentLock, shares>>
     ELSE GiveUp(c)

\* A payment that carries no link to the correction is no row to wait for.
correctionValid(c) ==
  /\ At(c, "locked") /\ task[c].outcome \in Negative
  /\ IF payment.reversed
     THEN /\ paymentLock = Nobody
          /\ Goto(c, "checked") /\ shares' = shares \cup {c}
          /\ UNCHANGED <<payment, instruction, paymentLock, lineLock>>
     ELSE GiveUp(c)

record(c) ==
  LET l == task[c].line IN
  /\ At(c, "checked") \/ (At(c, "locked") /\ task[c].outcome = "CONFIRMED")
  /\ instruction' = [instruction EXCEPT ![l] = [state |-> task[c].outcome, version |-> @.version + 1]]
  /\ End(c) /\ UNCHANGED payment

-----------------------------------------------------------------------------

\* Another check refuses the command, or its connection is lost.
Fail(a) == ~At(a, "idle") /\ GiveUp(a)

Reversal(r) == AskReversal(r) \/ lockPayment(r) \/ effects(r) \/ completeReversal(r)

Outcome(c) ==
  \/ \E l \in Lines, outcome \in Outcomes : AskOutcome(c, l, outcome)
  \/ lockInstruction(c) \/ correctionValid(c) \/ record(c)

RaceNext ==
  \/ \E r \in Reversers : Reversal(r)
  \/ \E c \in Clerks : Outcome(c)
  \/ \E a \in Racers : Fail(a)

RaceSpec == RaceInit /\ [][RaceNext]_raceVars

-----------------------------------------------------------------------------
(* Properties                                                              *)

\* The types.  Every lock is held by a command that is past taking it.
RaceTypeOK ==
  /\ payment.reversed \in BOOLEAN /\ payment.version \in 0..1
  /\ payment.reversed <=> payment.version = 1
  /\ \A l \in Lines : /\ instruction[l].state \in Outcomes \cup {"PENDING_CONFIRMATION"}
                      /\ instruction[l].version \in 0..2
                      /\ lineLock[l] # Nobody => task[lineLock[l]].step \in {"locked", "checked"}
  /\ \A r \in Reversers : task[r].step \in {"locked", "read"} => paymentLock = r
  /\ paymentLock # Nobody => shares = {}

\* What makes the race harmless.  A reversal past its lock holds the payment, and the
\* payment is not reversed.  An outcome past its lock holds an instruction from which
\* it may go on, and past its check the payment is reversed.
Kinds ==
  /\ payment \in [reversed : BOOLEAN, version : Nat]
  /\ instruction \in [Lines -> [state : Outcomes \cup {"PENDING_CONFIRMATION"}, version : Nat]]
  /\ lineLock \in [Lines -> Racers \cup {Nobody}]
  /\ task \in [Racers -> [step : {"idle", "asked", "locked", "read", "checked"}, match : Nat,
                          line : Lines \cup {Nobody}, outcome : Outcomes \cup {Nobody}]]

ReversalsHold ==
  \A r \in Reversers : task[r].step \in {"locked", "read"} => paymentLock = r /\ ~payment.reversed

OutcomesHold ==
  \A c \in Clerks :
    /\ task[c].step # "read"
    /\ task[c].step # "idle" => task[c].line \in Lines /\ task[c].outcome \in Outcomes
    /\ task[c].step \in {"locked", "checked"} =>
         /\ lineLock[task[c].line] = c
         /\ transition(instruction[task[c].line].state, task[c].outcome)
    /\ task[c].step = "checked" => payment.reversed

\* A confirmation that a reversal has overlooked counts as one after the reversal:
\* it is seen when the reversal has ended.
Overlooked(l) ==
  /\ instruction[l].state = "CONFIRMED"
  /\ \E r \in Reversers : At(r, "read")

Shown == [l \in Lines |-> IF Overlooked(l) THEN "PENDING_CONFIRMATION" ELSE instruction[l].state]

AtOnce == INSTANCE OutcomesAtOnce WITH reversed <- payment.reversed, state <- Shown

\* Although a reversal reads the instructions without locking them, and may commit
\* after a confirmation it has not seen, every outcome of the race is one that the two
\* commands have one after the other (payment-execution.service.ts:219): in some order,
\* which is not that of their commits when a confirmation was overlooked.
ActsAtOnce == AtOnce!Spec

\* A negative outcome is never recorded before the reversal it refers to has committed,
\* nor without it (bank-instruction-outcome.repository.ts:216).
NegativeIsCorrected ==
  \A l \in Lines : instruction[l].state \in Negative => payment.reversed

\* What the proofs carry from step to step
RaceInvariant == Kinds /\ ReversalsHold /\ OutcomesHold /\ NegativeIsCorrected

=============================================================================
