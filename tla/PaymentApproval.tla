---------------------------- MODULE PaymentApproval ----------------------------
(***************************************************************************)
(* The approval life of a payment: creation as a draft, submission against *)
(* the resolved policy, and the approve, reject and return actions.        *)
(*                                                                         *)
(* Each command is one database transaction that first locks the payment   *)
(* row, and for an aggregating policy the advisory lock of the group and   *)
(* the rows of its members, so it is one action here.  The payment's lines *)
(* share one (currency, method) context; its content never changes after   *)
(* creation.  The If-Match version of a command is the version of the row  *)
(* it finds: any other is refused without effect.                          *)
(***************************************************************************)
EXTENDS ApprovalPolicy, Authority, Sequences, FiniteSets, Sums

CONSTANTS
  Payments,       \* identifiers of payment documents
  NoPayment,
  Contents,       \* what a creator may ask to pay
  NoContent,
  Dates, NoDate,
  Parties,
  Context,        \* Context[c]: the policy context of content c
  Beneficiary,    \* Beneficiary[c]: the party content c pays
  Amount,         \* Amount[c]: its total base amount
  Steps,          \* Steps[pol]: the approval steps of policy pol
  Aggregation,    \* Aggregation[pol]: the window its amounts are summed over
  MaxVersion      \* bound: no submission of a payment at this version

Permissions == {"payment.create", "payment.submit", "payment.approve",
                "payment.reject", "payment.execute", "payment.reverse",
                "separation.override", "bank-instruction.record-outcome"}

SeparationRules == {"CREATOR_NOT_APPROVER", "REQUESTER_NOT_APPROVER"}

\* holders: those of the step's role, or the single named approver.
Step == [holders: SUBSET Users, required: Nat \ {0}, rules: SUBSET SeparationRules]

ASSUME PaymentAssumption ==
  /\ IsFiniteSet(Payments) /\ NoPayment \notin Payments
  /\ NoContent \notin Contents
  /\ NoDate \notin Dates
  /\ Context \in [Contents -> [Keys -> Values]]
  /\ Beneficiary \in [Contents -> Parties]
  /\ Amount \in [Contents -> Nat]
  /\ Holders \in [Permissions -> SUBSET Users]
  /\ Steps \in [Policies -> Seq(Step)]
  /\ Aggregation \in [Policies -> {"NONE", "BENEFICIARY", "UNAVAILABLE"}]
  /\ MaxVersion \in Nat

VARIABLES
  doc,        \* doc[p]: the payment_documents row of p
  snapshot    \* snapshot[p]: the approval snapshot p points to, with its
              \* aggregation evidence and recorded actions

approvalVars == <<doc, snapshot>>

States == {"ABSENT", "DRAFT", "APPROVAL_PENDING", "APPROVED", "REJECTED",
           "EXECUTED", "REVERSED"}

AbsentDocument ==
  [state |-> "ABSENT", version |-> 0, creator |-> NoUser, executor |-> NoUser,
   content |-> NoContent, date |-> NoDate, reversedBy |-> NoPayment]

Document ==
  {AbsentDocument} \cup
  [state: States \ {"ABSENT"}, version: Nat, creator: Users,
   executor: Users \cup {NoUser}, content: Contents, date: Dates,
   reversedBy: Payments \cup {NoPayment}]

Action == [step: Nat, actor: Users, from: Users \cup {NoUser},
           kind: {"APPROVED", "REJECTED"}, reasoned: BOOLEAN]

Snapshot == [policy: Policies \cup {NoPolicy}, basis: Nat,
             others: SUBSET (Payments \X Nat), actions: SUBSET Action]

NoSnapshot == [policy |-> NoPolicy, basis |-> 0, others |-> {}, actions |-> {}]

-------------------------------------------------------------------------------
(* Aggregation: the other live payments to the same party on the same day. *)

\* Of the states the query lists, the code writes these.
Counted == {"APPROVAL_PENDING", "APPROVED", "EXECUTED"}

SameGroup(p, q) ==
  /\ doc[q].date = doc[p].date
  /\ Beneficiary[doc[q].content] = Beneficiary[doc[p].content]

\* Faulty variant: payments still being approved are not counted.
ApprovedParticipants(p) ==
  {q \in Payments \ {p} : doc[q].state \in {"APPROVED", "EXECUTED"} /\ SameGroup(p, q)}

MatchingParticipants(p) ==
  {q \in Payments \ {p} : doc[q].state \in Counted /\ SameGroup(p, q)}

Evidence(p) == {<<q, doc[q].version>> : q \in MatchingParticipants(p)}

TotalOf(S) == Sum(S, [q \in S |-> Amount[doc[q].content]])

LiveTotal(p) == TotalOf(MatchingParticipants(p) \cup {p})

Aggregates(p) ==
  snapshot[p].policy # NoPolicy /\ Aggregation[snapshot[p].policy] = "BENEFICIARY"

\* Faulty variants: new participants are overlooked, or nothing is compared.
FreshIfKept(p) == Aggregates(p) => snapshot[p].others \subseteq Evidence(p)
AlwaysFresh(p) == TRUE

AggregationFresh(p) == Aggregates(p) => snapshot[p].others = Evidence(p)

-------------------------------------------------------------------------------
(* Progress of the current snapshot.                                       *)

StepsOf(p) == Steps[snapshot[p].policy]

Approvers(p, i) ==
  {a.actor : a \in {b \in snapshot[p].actions : b.step = i /\ b.kind = "APPROVED"}}

Incomplete(p) ==
  {i \in DOMAIN StepsOf(p) : Cardinality(Approvers(p, i)) < StepsOf(p)[i].required}

IsCurrentStep(p, i) == i \in Incomplete(p) /\ \A j \in Incomplete(p) : i <= j

\* The step a RETURN is recorded at; 0 stands for no step.
IsReturnStep(p, i) ==
  IF Incomplete(p) # {} THEN IsCurrentStep(p, i) ELSE i = Len(StepsOf(p))

StepHolders(p, i, permission) ==
  IF i = 0 THEN Holders[permission]
  ELSE Holders[permission] \cap StepsOf(p)[i].holders

Eligible(p, i, u, from) ==
  i # 0 =>
    /\ "CREATOR_NOT_APPROVER" \in StepsOf(p)[i].rules => doc[p].creator \notin {u, from}
    /\ "REQUESTER_NOT_APPROVER" \notin StepsOf(p)[i].rules

\* Faulty variant: the unique index is missing.
MayActAgain(p, i, u) == TRUE

\* One action of a user per step of a snapshot: a unique index.
NotYetActed(p, i, u) == \A a \in snapshot[p].actions : ~(a.step = i /\ a.actor = u)

\* Faulty variant: the command's name is recorded as it is.
AsCommanded(command) == command

\* What is recorded of a command (a RETURN is recorded on the old snapshot).
Recorded(command) == IF command = "APPROVE" THEN "APPROVED" ELSE "REJECTED"

\* What every action demands of the acting user.
MayAct(u, p, i, permission, from) ==
  /\ snapshot[p].policy # NoPolicy
  /\ AggregationFresh(p)
  /\ from \in Authority(u, StepHolders(p, i, permission))
  /\ Eligible(p, i, u, from)
  /\ NotYetActed(p, i, u)

-------------------------------------------------------------------------------
(* Commands.                                                               *)

\* The row after a command that moves it to another state.
Moved(row, state) == [row EXCEPT !.state = state, !.version = @ + 1]

Create(u, p, c, d) ==
  /\ doc[p].state = "ABSENT"
  /\ Permitted(u, "payment.create")
  /\ doc' = [doc EXCEPT ![p] =
       [state |-> "DRAFT", version |-> 0, creator |-> u, executor |-> NoUser,
        content |-> c, date |-> d, reversedBy |-> NoPayment]]
  /\ UNCHANGED snapshot

\* Contexts are resolved on the payment's own amount, and again on the sum of
\* its group when that policy aggregates; the two must agree.
Submission(p) ==
  LET policy == Resolve(Context[doc[p].content], Amount[doc[p].content])
      summed == policy # NoPolicy /\ Aggregation[policy] = "BENEFICIARY"
  IN [policy  |-> policy,
      basis   |-> IF summed THEN LiveTotal(p) ELSE Amount[doc[p].content],
      others  |-> IF summed THEN Evidence(p) ELSE {},
      actions |-> {}]

Submit(u, p) ==
  LET s == Submission(p)
  IN /\ doc[p].state = "DRAFT"
     /\ doc[p].version < MaxVersion
     /\ Permitted(u, "payment.submit")
     /\ s.policy # NoPolicy
     /\ Aggregation[s.policy] # "UNAVAILABLE"
     /\ Resolve(Context[doc[p].content], s.basis) = s.policy
     /\ \A i \in DOMAIN Steps[s.policy] :
          "REQUESTER_NOT_APPROVER" \notin Steps[s.policy][i].rules
     /\ snapshot' = [snapshot EXCEPT ![p] = s]
     /\ doc' = [doc EXCEPT ![p] = Moved(@,
          IF Steps[s.policy] = <<>> THEN "APPROVED" ELSE "APPROVAL_PENDING")]

StateAfterApproval(p, i) ==
  IF /\ Cardinality(Approvers(p, i)) + 1 >= StepsOf(p)[i].required
     /\ i = Len(StepsOf(p))
  THEN "APPROVED" ELSE "APPROVAL_PENDING"

Approve(u, p, i, from, reasoned) ==
  /\ doc[p].state = "APPROVAL_PENDING"
  /\ IsCurrentStep(p, i)
  /\ MayAct(u, p, i, "payment.approve", from)
  /\ snapshot' = [snapshot EXCEPT ![p].actions = @ \cup
       {[step |-> i, actor |-> u, from |-> from, kind |-> Recorded("APPROVE"),
         reasoned |-> reasoned]}]
  /\ doc' = [doc EXCEPT ![p] = Moved(@, StateAfterApproval(p, i))]

Reject(u, p, i, from) ==
  /\ doc[p].state = "APPROVAL_PENDING"
  /\ IsCurrentStep(p, i)
  /\ MayAct(u, p, i, "payment.reject", from)
  /\ snapshot' = [snapshot EXCEPT ![p].actions = @ \cup
       {[step |-> i, actor |-> u, from |-> from, kind |-> Recorded("REJECT"),
         reasoned |-> TRUE]}]
  /\ doc' = [doc EXCEPT ![p] = Moved(@, "REJECTED")]

\* The RETURNED action row stays with the old snapshot, no longer current.
Return(u, p, i, from) ==
  /\ doc[p].state \in {"APPROVAL_PENDING", "APPROVED"}
  /\ IsReturnStep(p, i)
  /\ MayAct(u, p, i, "payment.reject", from)
  /\ snapshot' = [snapshot EXCEPT ![p] = NoSnapshot]
  /\ doc' = [doc EXCEPT ![p] = Moved(@, "DRAFT")]

StepNumbers(p) == IF snapshot[p].policy = NoPolicy THEN {} ELSE 0 .. Len(StepsOf(p))

Act(p) ==
  \E u \in Users, i \in StepNumbers(p), from \in Users \cup {NoUser} :
    \/ \E reasoned \in BOOLEAN : Approve(u, p, i, from, reasoned)
    \/ Reject(u, p, i, from)
    \/ Return(u, p, i, from)

ApprovalInit ==
  /\ doc = [p \in Payments |-> AbsentDocument]
  /\ snapshot = [p \in Payments |-> NoSnapshot]

ApprovalNext ==
  \E p \in Payments :
    \/ \E u \in Users, c \in Contents, d \in Dates : Create(u, p, c, d)
    \/ \E u \in Users : Submit(u, p)
    \/ Act(p)

ApprovalSpec == ApprovalInit /\ [][ApprovalNext]_approvalVars

-------------------------------------------------------------------------------
(* Properties.                                                             *)

\* The rows and snapshots have their types.
ApprovalTypeOK ==
  /\ doc \in [Payments -> Document]
  /\ snapshot \in [Payments -> Snapshot]

\* Each step of p's snapshot has the required number of distinct approvers,
\* none acting as or for the creator where the step forbids it.
FullyApproved(p) ==
  /\ snapshot[p].policy # NoPolicy
  /\ \A i \in DOMAIN StepsOf(p) :
       Cardinality({a.actor : a \in {b \in snapshot[p].actions :
         /\ b.step = i
         /\ b.kind = "APPROVED"
         /\ "CREATOR_NOT_APPROVER" \in StepsOf(p)[i].rules =>
              doc[p].creator \notin {b.actor, b.from}}}) >= StepsOf(p)[i].required

\* A payment is APPROVED only when every step is complete with eligible
\* approvers, although approvals are recorded one at a time, each command
\* trusting its own count of the earlier ones (payment approval act).
ApprovedIsComplete ==
  \A p \in Payments : doc[p].state = "APPROVED" => FullyApproved(p)

\* Payments under an aggregating policy that are still in force.
Aggregated(p) == doc[p].state \in Counted /\ Aggregates(p)

CountedIn(p) == {e[1] : e \in snapshot[p].others}

\* Of two aggregated payments of one group, one was counted when the other was
\* submitted: two halves of a split payment cannot both pass unseen.
SplitIsSeen ==
  \A p, q \in Payments :
    p # q /\ Aggregated(p) /\ Aggregated(q) /\ SameGroup(p, q) =>
      q \in CountedIn(p) \/ p \in CountedIn(q)

\* Some member of each group was evaluated on an amount at least as large as
\* all its aggregated members together: splitting never evades a threshold.
SplitIsCovered ==
  \A p \in Payments :
    Aggregated(p) =>
      LET members == {q \in Payments : Aggregated(q) /\ SameGroup(p, q)}
      IN \E q \in members : snapshot[q].basis >= TotalOf(members)

\* Fresh evidence compares identifiers and versions only; that is enough for
\* the recorded basis to be the sum of the group as it is now.
FreshBasisIsLive ==
  \A p \in Payments :
    doc[p].state = "APPROVAL_PENDING" /\ Aggregates(p) /\ AggregationFresh(p) =>
      snapshot[p].basis = LiveTotal(p)

\* What the approvals of a split payment rest on: some member was judged on the
\* whole, and a member that passes for fresh is judged on what there is now.
GroupTotalsHold == SplitIsCovered /\ FreshBasisIsLive

\* A payment becomes APPROVED only under the policy of what its group sums to
\* at that moment, whatever its members did since it was submitted.
ApprovedOnLiveTotal ==
  [][\A p \in Payments :
       /\ doc[p].state # "APPROVED"
       /\ doc'[p].state = "APPROVED"
       /\ Aggregates(p)'
       => snapshot'[p].policy
            = Resolve(Context[doc'[p].content], LiveTotal(p)')]_approvalVars
===============================================================================
