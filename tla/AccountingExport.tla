--------------------------- MODULE AccountingExport ---------------------------
(***************************************************************************)
(* Exports of executed payments to accounting systems, their               *)
(* acknowledgements in whatever order the systems answer, and the posting  *)
(* lock an acceptance leaves; composed with the commands on payments.      *)
(*                                                                         *)
(* An export is addressed to a target, a system and a kind of export, and  *)
(* there is one per target, payment and version of it.  A payment is       *)
(* exported in the version its execution wrote, so one per target.         *)
(* Acknowledgements naming another external document are refused.          *)
(***************************************************************************)
EXTENDS PaymentExecution

CONSTANTS
  Targets, Systems,
  System,         \* System[t]: the accounting system of target t
  Forbidding,      \* systems that refuse an export by the payment's executor
  Exporters, Acknowledgers,   \* who holds accounting.export, .acknowledge
  LineMethod,     \* LineMethod[l]: the method definition of line l
  Mappings,       \* rows of accounting_mappings
  Periods         \* rows of fiscal_periods

MappingStates == {"ACTIVE", "INACTIVE", "CONFLICT"}
PeriodStates == {"OPEN", "CLOSED"}

ASSUME AccountingAssumption ==
  /\ System \in [Targets -> Systems]
  /\ Forbidding \subseteq Systems
  /\ Exporters \subseteq Users /\ Acknowledgers \subseteq Users
  /\ \A row \in Mappings : row.system \in Systems /\ row.state \in MappingStates
  /\ \A row \in Periods : row.system \in Systems /\ row.state \in PeriodStates

VARIABLES
  export,      \* export[t][p]: the accounting_exports row, and its attempts
  accounting,  \* accounting[p]: the accounting state on the payment row
  posting      \* posting[p]: the posting lock of the payment

accountingVars == <<export, accounting, posting>>
allVars == <<vars, accountingVars>>

ExportStates == {"NONE", "QUEUED", "SENDING", "SENDING_UNKNOWN", "ACCEPTED", "FAILED", "RETURNED"}

Attempts == {"QUEUED", "SENDING_UNKNOWN", "ACCEPTED", "FAILED"}

Export == [state: ExportStates, version: Nat, exporter: Users \cup {NoUser},
           attempts: Seq(Attempts)]

NoExport == [state |-> "NONE", version |-> 0, exporter |-> NoUser, attempts |-> <<>>]

PostingLock == [state: {"NONE", "ACTIVE", "RETURNED"}, target: Targets \cup {"none"}]

Outcomes == {"ACCEPTED", "REJECTED", "OUTCOME_UNKNOWN", "RETURNED"}

-------------------------------------------------------------------------------
(* What an export needs.                                                   *)

\* The local objects that need a mapping.
RequiredMappings(p) ==
  LET c == doc[p].content
  IN {Beneficiary[c]} \cup {LineMethod[l] : l \in LinesOf[c]}
       \cup {LineSource[l] : l \in LinesOf[c]}

MappingRows(s, p) == {row \in Mappings : row.system = s /\ row.local \in RequiredMappings(p)}

\* No conflict, and exactly one active row for each.
Mapped(s, p) ==
  \A object \in RequiredMappings(p) :
    LET matches == {row \in MappingRows(s, p) : row.local = object}
    IN /\ \A row \in matches : row.state # "CONFLICT"
       /\ Cardinality({row \in matches : row.state = "ACTIVE"}) = 1

PeriodsOf(s, d) == {row \in Periods : row.system = s /\ row.first <= d /\ d <= row.last}

PeriodOpen(s, d) ==
  Cardinality(PeriodsOf(s, d)) = 1 /\ \A row \in PeriodsOf(s, d) : row.state = "OPEN"

AcceptedSourceExport(p) == \E t \in Targets : export[t][p].state = "ACCEPTED"

DuplicateExport(t, p) == export[t][p].state # "NONE"

-------------------------------------------------------------------------------
(* Commands.                                                               *)

Queued(u) == [state |-> "QUEUED", version |-> 1, exporter |-> u, attempts |-> <<"QUEUED">>]

CreateExport(u, t, p) ==
  /\ u \in Exporters
  /\ p \notin reversing
  /\ doc[p].state = "EXECUTED"
  /\ System[t] \in Forbidding => u # doc[p].executor
  /\ ~AcceptedSourceExport(p)
  /\ ~DuplicateExport(t, p)
  /\ Mapped(System[t], p)
  /\ PeriodOpen(System[t], doc[p].date)
  /\ export' = [export EXCEPT ![t][p] = Queued(u)]
  /\ accounting' = [accounting EXCEPT ![p] = "QUEUED"]
  /\ UNCHANGED <<vars, posting>>

Answerable == {"QUEUED", "SENDING", "SENDING_UNKNOWN"}

\* The state an outcome leads to, NONE when it is refused.
TargetState(from, outcome) ==
  CASE outcome = "ACCEPTED" /\ from \in Answerable -> "ACCEPTED"
    [] outcome = "REJECTED" /\ from \in Answerable -> "FAILED"
    [] outcome = "OUTCOME_UNKNOWN" /\ from \in {"QUEUED", "SENDING"} -> "SENDING_UNKNOWN"
    [] outcome = "RETURNED" /\ from = "ACCEPTED" -> "RETURNED"
    [] OTHER -> "NONE"

\* What an attempt records: a return has no outcome of its own.
AttemptOutcome(outcome) ==
  CASE outcome = "ACCEPTED" -> "ACCEPTED"
    [] outcome = "OUTCOME_UNKNOWN" -> "SENDING_UNKNOWN"
    [] OTHER -> "FAILED"

Acknowledged(row, outcome) ==
  [row EXCEPT !.state = TargetState(@, outcome), !.version = @ + 1,
              !.attempts = Append(@, AttemptOutcome(outcome))]

\* Faulty variant: the lock is unique per export only.
LockPerExport(t, p) == posting[p].target # t

\* One posting lock per payment version, whatever its state.
Lockable(t, p) == posting[p].state = "NONE"

\* The lock after an outcome.  A return finds the lock of its own export.
Locked(t, p, outcome) ==
  CASE outcome = "ACCEPTED" -> [state |-> "ACTIVE", target |-> t]
    [] outcome = "RETURNED" /\ posting[p].target = t -> [posting[p] EXCEPT !.state = "RETURNED"]
    [] OTHER -> posting[p]

\* It locks the export row only; the payment row gets the new state as it is, once
\* no reversal holds it.
Acknowledge(u, t, p, outcome) ==
  /\ p \notin reversing
  /\ u \in Acknowledgers /\ export[t][p].exporter # u
  /\ TargetState(export[t][p].state, outcome) # "NONE"
  /\ outcome = "ACCEPTED" => Lockable(t, p)
  /\ export' = [export EXCEPT ![t][p] = Acknowledged(@, outcome)]
  /\ posting' = [posting EXCEPT ![p] = Locked(t, p, outcome)]
  /\ accounting' = [accounting EXCEPT ![p] = TargetState(export[t][p].state, outcome)]
  /\ UNCHANGED vars

REVERSAL_BLOCKED_ACCOUNTING_STATES == {"QUEUED", "SENDING", "SENDING_UNKNOWN", "ACCEPTED"}

\* Faulty variant: only an active lock holds the payment row.
ActiveHolds(p) == posting[p].state = "ACTIVE"

\* The trigger on payment rows: any lock holds everything but accounting.
HeldByLock(p) == posting[p].state # "NONE"

ReverseAccounted(u, p, r, d) ==
  /\ accounting[p] \notin REVERSAL_BLOCKED_ACCOUNTING_STATES
  /\ ~HeldByLock(p)
  /\ Reverse(u, p, r, d)
  /\ UNCHANGED accountingVars

-------------------------------------------------------------------------------
AccountingInit ==
  /\ Init
  /\ export = [t \in Targets |-> [p \in Payments |-> NoExport]]
  /\ accounting = [p \in Payments |-> "NOT_READY"]
  /\ posting = [p \in Payments |-> [state |-> "NONE", target |-> "none"]]

AccountingNext ==
  \/ ApprovalNext /\ UNCHANGED <<executionVars, accountingVars>>
  \/ \E p \in Payments, u \in Users :
       \/ Execute(u, p) /\ UNCHANGED accountingVars
       \/ \E r \in Payments \ {p}, d \in Dates : ReverseAccounted(u, p, r, d)
       \/ \E l \in Lines, outcome \in Negative \cup {"CONFIRMED"} :
            RecordOutcome(u, p, l, outcome) /\ UNCHANGED accountingVars
       \/ \E t \in Targets :
            \/ CreateExport(u, t, p)
            \/ \E outcome \in Outcomes : Acknowledge(u, t, p, outcome)
  \/ \E p \in Payments :
       (External(p) \/ GiveUp(p) \/ \E u \in Users : ReadEffects(u, p)) /\ UNCHANGED accountingVars

AccountingSpec == AccountingInit /\ [][AccountingNext]_allVars

-------------------------------------------------------------------------------
(* Properties.                                                             *)

\* The rows have their types.
AccountingTypeOK ==
  /\ export \in [Targets -> [Payments -> Export]]
  /\ accounting \in [Payments -> ExportStates \cup {"NOT_READY"}]
  /\ posting \in [Payments -> PostingLock]

\* One system at a time holds a payment as posted, and the lock says which
\* (acknowledge: an acceptance, a return and a unique key keep them together).
OnePosting ==
  \A p \in Payments, t \in Targets :
    /\ export[t][p].state = "ACCEPTED" <=> posting[p] = [state |-> "ACTIVE", target |-> t]
    /\ export[t][p].state = "RETURNED" <=> posting[p] = [state |-> "RETURNED", target |-> t]

\* A payment exported once is not reversed under an export that may still be
\* accepted, nor under one that was (createExport, acknowledge, reverse).
SoleExportHolds ==
  \A p \in Payments, t \in Targets :
    /\ export[t][p].state \in Answerable \cup {"ACCEPTED"}
    /\ \A other \in Targets \ {t} : export[other][p] = NoExport
    => doc[p].state = "EXECUTED"

\* Once a payment was posted its row never changes again, even if the posting
\* came back and another system's refusal hid it (the posting-lock trigger).
PostedIsFrozen ==
  [][\A p \in Payments : posting[p].state # "NONE" => doc'[p] = doc[p]]_allVars

\* A return is recorded as a failed attempt, and can still be told from a
\* refusal by the attempts before it; there is one attempt for each version.
AttemptsTellOutcome ==
  \A p \in Payments, t \in Targets :
    LET row == export[t][p]
        accepted == \E i \in DOMAIN row.attempts : row.attempts[i] = "ACCEPTED"
    IN /\ Len(row.attempts) = row.version
       /\ row.state = "RETURNED" <=> accepted /\ row.attempts[Len(row.attempts)] = "FAILED"
       /\ row.state = "FAILED" <=> ~accepted /\ row.version > 0
                                   /\ row.attempts[Len(row.attempts)] = "FAILED"

\* The exports, their attempts, the posting lock and the payment agree, in
\* whatever order the systems answer.
PostingsAgree ==
  /\ AccountingTypeOK
  /\ OnePosting
  /\ SoleExportHolds
  /\ AttemptsTellOutcome
===============================================================================
