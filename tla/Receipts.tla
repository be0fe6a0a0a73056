------------------------------- MODULE Receipts -------------------------------
(***************************************************************************)
(* Receipts: drafts whose amounts are derived from the rate table, their   *)
(* approval under the composed policies of their lines, execution and      *)
(* reversal; composed with the settlement of what was collected through a  *)
(* provider.                                                               *)
(*                                                                         *)
(* Every command is one transaction that locks the receipt row, so it is   *)
(* one action.  Fact[l] holds what line l says; one line may be written in *)
(* the drafts of several receipts.  Executing a transit line collects the  *)
(* item <<r, l>> that settlements allocate.                                *)
(***************************************************************************)
EXTENDS ApprovalPolicy, StepComposition, Settlement

CONSTANTS
  Receipts, NoReceipt,
  Lines, Fact,       \* Fact[l]: what a client writes in a line
  Forms,             \* the sequences of lines a client may send
  Cashboxes, Cheques,
  BaseCurrency,
  Rates,             \* rows of exchange_rates that may be approved in time
  Instants,          \* when a receipt is entered
  Steps,             \* Steps[policy]: its approval steps
  MaxVersion         \* bound: no submission of a receipt at this version

ReceiptPermissions == {"receipt.create", "receipt.edit-draft", "receipt.submit",
  "receipt.approve", "receipt.reject", "receipt.execute", "receipt.reverse",
  "separation.override"}

SeparationRules == {"CREATOR_NOT_APPROVER", "REQUESTER_NOT_APPROVER"}

Transit == {"POS", "GATEWAY", "BANK_TRANSFER", "DIRECT_DEPOSIT", "CARD_TRANSFER",
            "FOREIGN_REMITTANCE"}

\* One anchor per category: a cashbox, a cheque, or the account credited.
ValidLine(l) ==
  /\ Fact[l].amount \in Nat \ {0}
  /\ CASE Fact[l].category = "CASH" -> Fact[l].anchor \in Cashboxes
       [] Fact[l].category = "CHEQUE" -> Fact[l].anchor \in Cheques
       [] OTHER -> Fact[l].category \in Transit /\ Fact[l].anchor \in BankAccounts
  /\ Fact[l].collected => Fact[l].category \in Transit   \* createsFundsInTransit

Collected(r, form) == {<<r, l>> : l \in {k \in ElementsOf(form) : Fact[k].collected}}

ASSUME ReceiptAssumption ==
  /\ \A l \in Lines : ValidLine(l)
  /\ \A form \in Forms : form \in Seq(Lines) /\ form # <<>>
  /\ Items = UNION {Collected(r, form) : r \in Receipts, form \in Forms}
  /\ \A i \in Items : ItemGross[i] = Fact[i[2]].amount /\ ItemAccount[i] = Fact[i[2]].anchor
  /\ Holders \in [SettlementPermissions \cup ReceiptPermissions -> SUBSET Users]
  /\ \A p \in Policies :
       Steps[p] \in Seq([holders: SUBSET Users, required: Nat \ {0}, rules: SUBSET SeparationRules])
  /\ \A row \in Rates : {row.numerator, row.denominator} \subseteq Nat \ {0}
  /\ NoReceipt \notin Receipts
  /\ MaxVersion \in Nat

VARIABLES
  receipt,    \* receipt[r]: the receipt_documents row and its lines
  approval,   \* approval[r]: the snapshot r points to and its actions
  recorded,   \* the receipt_execution_effects
  cheque,     \* cheque[q]: the received_cheques row, by its last event
  rates       \* the APPROVED rows of exchange_rates

receiptVars == <<receipt, approval, recorded, cheque, rates>>
receiptAllVars == <<receiptVars, settlementVars>>

ReceiptStates == {"ABSENT", "DRAFT", "APPROVAL_PENDING", "APPROVED", "REJECTED",
                  "EXECUTED", "REVERSED"}

AbsentReceipt ==
  [state |-> "ABSENT", version |-> 0, creator |-> NoUser, executor |-> NoUser,
   form |-> <<>>, entered |-> 0, base |-> <<>>, reversedBy |-> NoReceipt,
   reverses |-> NoReceipt]

\* version: the version the receipt had when it was submitted, plus one.
NoApproval == [version |-> 0, basis |-> 0, steps |-> <<>>, actions |-> {}]

-------------------------------------------------------------------------------
(* What a draft is worth.                                                  *)

\* Half of a unit is rounded up.
RoundDivision(n, d) == (n + d \div 2) \div d

\* The latest rates approved for the pair before the receipt was entered.
LatestRates(currency, entered) ==
  {row \in rates :
     /\ row.currency = currency /\ row.at <= entered
     /\ \A other \in rates :
          other.currency = currency /\ other.at <= entered => other.at <= row.at}

Convertible(l, entered) ==
  Fact[l].currency = BaseCurrency
    \/ Cardinality(LatestRates(Fact[l].currency, entered)) = 1

DeriveTarget(amount, row) == RoundDivision(amount * row.numerator, row.denominator)

BaseAmount(l, entered) ==
  IF Fact[l].currency = BaseCurrency THEN Fact[l].amount
  ELSE LET row == CHOOSE x \in LatestRates(Fact[l].currency, entered) : TRUE
       IN DeriveTarget(Fact[l].amount, row)

Derived(form, entered) == [n \in DOMAIN form |-> BaseAmount(form[n], entered)]

Derivable(form, entered) ==
  \A n \in DOMAIN form :
    /\ Convertible(form[n], entered)
    /\ Fact[form[n]].anchor \in usable \cup Cheques

\* A receipt may be operated by whoever holds the permission, and by every
\* delegate of such a user.
ScopeAllowed(u, permission) ==
  u \in Holders[permission] \/ Grantors(u, Holders[permission]) # {}

TotalBase(r) == Sum(DOMAIN receipt[r].base, receipt[r].base)

-------------------------------------------------------------------------------
(* Approval.                                                               *)

ContextOf(l) == [currency |-> Fact[l].currency, method |-> Fact[l].category]

\* The lines that are the first of their (currency, method) context.
FirstLines(form) ==
  {n \in DOMAIN form : \A m \in 1 .. n - 1 : ContextOf(form[m]) # ContextOf(form[n])}

\* The k-th of them.
FirstLine(form, k) ==
  CHOOSE n \in FirstLines(form) : Cardinality({m \in FirstLines(form) : m < n}) = k - 1

Contexts(form) ==
  [k \in 1 .. Cardinality(FirstLines(form)) |-> ContextOf(form[FirstLine(form, k)])]

PoliciesOf(r) ==
  LET contexts == Contexts(receipt[r].form)
  IN [k \in DOMAIN contexts |-> Resolve(contexts[k], TotalBase(r))]

StepsOfPolicies(policies) == [k \in DOMAIN policies |-> Steps[policies[k]]]

StepsAsked(r) == approval[r].steps

Approvers(r, i) ==
  {a.actor : a \in {b \in approval[r].actions : b.step = i /\ b.kind = "APPROVED"}}

AllApprovers(r) == {a.actor : a \in {b \in approval[r].actions : b.kind = "APPROVED"}}

Incomplete(r) ==
  {i \in DOMAIN StepsAsked(r) : Cardinality(Approvers(r, i)) < StepsAsked(r)[i].required}

IsCurrentStep(r, i) == i \in Incomplete(r) /\ \A j \in Incomplete(r) : i <= j

\* A RETURN without an incomplete step is recorded at the last; 0: at none.
IsReturnStep(r, i) ==
  IF Incomplete(r) # {} THEN IsCurrentStep(r, i) ELSE i = Len(StepsAsked(r))

StepHolders(r, i, permission) ==
  IF i = 0 THEN Holders[permission] ELSE Holders[permission] \cap StepsAsked(r)[i].holders

\* Faulty variant: only the acting user is compared with the creator.
ActorNotCreator(r, i, u, from) ==
  i # 0 /\ StepsAsked(r)[i].rules # {} => receipt[r].creator # u

\* Under either rule neither the actor nor who delegates to him is the creator.
Separated(r, i, u, from) ==
  i # 0 /\ StepsAsked(r)[i].rules # {} => receipt[r].creator \notin {u, from}

MayAct(u, r, i, permission, from) ==
  /\ from \in Authority(u, StepHolders(r, i, permission))
  /\ Separated(r, i, u, from)
  /\ \A a \in approval[r].actions : ~(a.step = i /\ a.actor = u)

Advanced(row, state) == [row EXCEPT !.state = state, !.version = @ + 1]

WithAction(r, i, u, from, kind, reasoned) ==
  [approval EXCEPT ![r].actions = @ \cup
     {[step |-> i, actor |-> u, from |-> from, kind |-> kind, reasoned |-> reasoned]}]

-------------------------------------------------------------------------------
(* Drafts.                                                                 *)

Create(u, r, form, entered) ==
  /\ receipt[r] = AbsentReceipt
  /\ ScopeAllowed(u, "receipt.create")
  /\ Derivable(form, entered)
  /\ receipt' = [receipt EXCEPT ![r] =
       [AbsentReceipt EXCEPT !.state = "DRAFT", !.creator = u, !.form = form,
          !.entered = entered, !.base = Derived(form, entered)]]
  /\ UNCHANGED <<approval, recorded, cheque, rates, settlementVars>>

Editable(r) == receipt[r].state = "DRAFT"

\* The rates of the first entry are looked up again.
Replace(u, r, form) ==
  /\ Editable(r)
  /\ receipt[r].version < MaxVersion
  /\ ScopeAllowed(u, "receipt.edit-draft")
  /\ Derivable(form, receipt[r].entered)
  /\ receipt' = [receipt EXCEPT ![r].form = form, ![r].version = @ + 1,
                   ![r].base = Derived(form, receipt[r].entered)]
  /\ UNCHANGED <<approval, recorded, cheque, rates, settlementVars>>

\* What a draft says is derived once more, and has not changed.
Revalidated(r) ==
  /\ Derivable(receipt[r].form, receipt[r].entered)
  /\ Derived(receipt[r].form, receipt[r].entered) = receipt[r].base

\* Every context of the lines has its policy, and their steps can be composed.
Submit(u, r) ==
  /\ receipt[r].state = "DRAFT"
  /\ receipt[r].version < MaxVersion
  /\ ScopeAllowed(u, "receipt.submit")
  /\ Revalidated(r)
  /\ \E policies \in [DOMAIN Contexts(receipt[r].form) -> Policies] :
       LET asked == StepsOfPolicies(policies)
       IN /\ policies = PoliciesOf(r)
          /\ Composable(asked)
          /\ approval' = [approval EXCEPT ![r] =
               [version |-> receipt[r].version + 1, basis |-> TotalBase(r),
                steps |-> Composed(asked), actions |-> {}]]
          /\ receipt' = [receipt EXCEPT ![r] =
               Advanced(@, IF Composed(asked) = <<>> THEN "APPROVED" ELSE "APPROVAL_PENDING")]
  /\ UNCHANGED <<recorded, cheque, rates, settlementVars>>

Approve(u, r, i, from, reasoned) ==
  /\ receipt[r].state = "APPROVAL_PENDING"
  /\ IsCurrentStep(r, i)
  /\ MayAct(u, r, i, "receipt.approve", from)
  /\ approval' = WithAction(r, i, u, from, "APPROVED", reasoned)
  /\ receipt' = [receipt EXCEPT ![r] = Advanced(@,
       IF Cardinality(Approvers(r, i)) + 1 >= StepsAsked(r)[i].required
            /\ i = Len(StepsAsked(r))
       THEN "APPROVED" ELSE "APPROVAL_PENDING")]
  /\ UNCHANGED <<recorded, cheque, rates, settlementVars>>

Reject(u, r, i, from) ==
  /\ receipt[r].state = "APPROVAL_PENDING"
  /\ IsCurrentStep(r, i)
  /\ MayAct(u, r, i, "receipt.reject", from)
  /\ approval' = WithAction(r, i, u, from, "REJECTED", TRUE)
  /\ receipt' = [receipt EXCEPT ![r] = Advanced(@, "REJECTED")]
  /\ UNCHANGED <<recorded, cheque, rates, settlementVars>>

\* The action stays with the old snapshot, which r no longer points to.
Return(u, r, i, from) ==
  /\ receipt[r].state \in {"APPROVAL_PENDING", "APPROVED"}
  /\ IsReturnStep(r, i)
  /\ MayAct(u, r, i, "receipt.reject", from)
  /\ approval' = [approval EXCEPT ![r] = NoApproval]
  /\ receipt' = [receipt EXCEPT ![r] = Advanced(@, "DRAFT")]
  /\ UNCHANGED <<recorded, cheque, rates, settlementVars>>

StepNumbers(r) == 0 .. Len(StepsAsked(r))

Act(r) ==
  \E u \in Users, from \in Users \cup {NoUser}, i \in StepNumbers(r) :
    \/ \E reasoned \in BOOLEAN : Approve(u, r, i, from, reasoned)
    \/ Reject(u, r, i, from)
    \/ Return(u, r, i, from)

-------------------------------------------------------------------------------
(* Execution.                                                              *)

\* The approval of another user that excuses an executor who took part.
OverrideApprovalValid(u, r, a) ==
  /\ u \in Holders["separation.override"]
  /\ a \in approval[r].actions /\ a.kind = "APPROVED" /\ a.reasoned
  /\ a.actor # u

Conflict(u, r) == u = receipt[r].creator \/ u \in AllApprovers(r)

\* No other cheque or collection is recorded under this line's identity: the
\* keys of received_cheques and of the provider references.
Unrecorded(r, l) ==
  /\ Fact[l].category = "CHEQUE" => cheque[Fact[l].anchor] = "ABSENT"
  /\ Fact[l].collected =>
       \A i \in Items : item[i] # NoItem => Fact[i[2]].reference # Fact[l].reference

Effected(r, l, direction) == [receipt |-> r, line |-> l, direction |-> direction]

\* Of a line the table keeps the kind of its effect, which follows its method.
ExecuteLine(r, l) ==
  /\ Fact[l].anchor \in usable \cup Cheques
  /\ Unrecorded(r, l)

\* Two lines of one receipt under one identity contradict each other as well.
DistinctIdentities(r) ==
  \A m, n \in DOMAIN receipt[r].form :
    LET l == Fact[receipt[r].form[m]]
        k == Fact[receipt[r].form[n]]
    IN m # n => /\ ~(l.category = "CHEQUE" /\ k.category = "CHEQUE" /\ l.anchor = k.anchor)
                /\ ~(l.collected /\ k.collected /\ l.reference = k.reference)

MarkExecuted(row, u) == [Advanced(row, "EXECUTED") EXCEPT !.executor = u]

Execute(u, r) ==
  LET lines == ElementsOf(receipt[r].form)
  IN /\ receipt[r].state = "APPROVED"
     /\ ScopeAllowed(u, "receipt.execute")
     /\ Conflict(u, r) => \E a \in approval[r].actions : OverrideApprovalValid(u, r, a)
     /\ \A l \in lines : ExecuteLine(r, l)
     /\ DistinctIdentities(r)
     /\ recorded' = recorded \cup {Effected(r, l, "INCOMING") : l \in lines}
     /\ cheque' = [q \in Cheques |->
          IF q \in {Fact[l].anchor : l \in lines} THEN "RECEIVED" ELSE cheque[q]]
     /\ item' = [i \in Items |->
          IF i \in Collected(r, receipt[r].form) THEN Opened(i) ELSE item[i]]
     /\ receipt' = [receipt EXCEPT ![r] = MarkExecuted(@, u)]
     /\ UNCHANGED <<approval, rates, batch, effect, usable>>

-------------------------------------------------------------------------------
(* Reversal.                                                               *)

\* Only executions and reversals write these states; accounting has no
\* receipt exports that would hold one back.
IsReversalBlocked(r) ==
  receipt[r].state # "EXECUTED" \/ receipt[r].reverses # NoReceipt

PriorActors(r) == {receipt[r].creator, receipt[r].executor} \cup AllApprovers(r)

\* Faulty variant: an item that is open again or still open is taken back.
OpenOrReopened(i) == item[i].state \in Allocatable

\* Of the states an item can be in, the one a reversed settlement leaves.
ReversibleSnapshot(i) == item[i].state = "REOPENED_AFTER_REVERSAL"

\* Money leaves where it came in; a cheque has been given back, and what was
\* collected was settled and released again.
ReverseEffect(r, l) ==
  CASE Fact[l].category = "CHEQUE" -> cheque[Fact[l].anchor] = "RETURNED"
    [] Fact[l].collected -> ReversibleSnapshot(<<r, l>>)
    [] OTHER -> Fact[l].anchor \in usable

\* Faulty variant: the reversal does not name what it reverses.
UnlinkedReversal(u, r) ==
  [receipt[r] EXCEPT !.state = "EXECUTED", !.version = 1, !.creator = u, !.executor = u]

CreateReversalReceipt(u, r) ==
  [receipt[r] EXCEPT !.state = "EXECUTED", !.version = 1, !.creator = u, !.executor = u,
                     !.reverses = r]

CompleteReversal(row, v) == [Advanced(row, "REVERSED") EXCEPT !.reversedBy = v]

Reverse(u, r, v) ==
  LET lines == ElementsOf(receipt[r].form)
  IN /\ ~IsReversalBlocked(r)
     /\ receipt[v] = AbsentReceipt
     /\ ScopeAllowed(u, "receipt.reverse")
     /\ u \notin PriorActors(r)
     /\ \A l \in lines : ReverseEffect(r, l)
     /\ receipt' = [receipt EXCEPT
          ![r] = CompleteReversal(@, v),
          ![v] = CreateReversalReceipt(u, r)]
     /\ recorded' = recorded \cup {Effected(v, l, "REVERSAL") : l \in lines}
     /\ UNCHANGED <<approval, cheque, rates, settlementVars>>

-------------------------------------------------------------------------------
(* What others do: a rate is approved, a cheque returned, a resource is    *)
(* withdrawn or restored (a cashbox also when its day is closed).          *)

ApproveRate(row) ==
  /\ rates' = rates \cup {row}
  /\ UNCHANGED <<receipt, approval, recorded, cheque, settlementVars>>

ReturnCheque(q) ==
  /\ cheque[q] = "RECEIVED"
  /\ cheque' = [cheque EXCEPT ![q] = "RETURNED"]
  /\ UNCHANGED <<receipt, approval, recorded, rates, settlementVars>>

Withdraw(x) ==
  /\ usable' = IF x \in usable THEN usable \ {x} ELSE usable \cup {x}
  /\ UNCHANGED <<receiptVars, item, batch, effect>>

ReceiptInit ==
  /\ receipt = [r \in Receipts |-> AbsentReceipt]
  /\ approval = [r \in Receipts |-> NoApproval]
  /\ recorded = {}
  /\ cheque = [q \in Cheques |-> "ABSENT"]
  /\ rates = {}
  /\ item = [i \in Items |-> NoItem]
  /\ batch = [b \in Batches |-> NoRow]
  /\ effect = {}
  /\ usable = BankAccounts \cup Attachments \cup Cashboxes

ReceiptCommand ==
  \E r \in Receipts :
    \/ Act(r)
    \/ \E u \in Users :
         \/ \E form \in Forms : Replace(u, r, form)
         \/ \E form \in Forms, entered \in Instants : Create(u, r, form, entered)
         \/ Submit(u, r) \/ Execute(u, r)
         \/ \E v \in Receipts : Reverse(u, r, v)

ReceiptNext ==
  \/ ReceiptCommand
  \/ SettlementCommand /\ UNCHANGED receiptVars
  \/ \E row \in Rates : ApproveRate(row)
  \/ \E q \in Cheques : ReturnCheque(q)
  \/ \E x \in BankAccounts \cup Attachments \cup Cashboxes : Withdraw(x)

ReceiptSpec == ReceiptInit /\ [][ReceiptNext]_receiptAllVars

-------------------------------------------------------------------------------
(* Properties.                                                             *)

\* The rows have their types, and the settlement rows theirs.
ReceiptTypeOK ==
  /\ \A r \in Receipts :
       /\ receipt[r].state \in ReceiptStates /\ receipt[r].version \in Nat
       /\ receipt[r].form \in Forms \cup {<<>>}
       /\ {receipt[r].creator, receipt[r].executor} \subseteq Users \cup {NoUser}
       /\ {receipt[r].reversedBy, receipt[r].reverses} \subseteq Receipts \cup {NoReceipt}
       /\ \A a \in approval[r].actions : a.step \in Nat /\ a.actor \in Users
  /\ cheque \in [Cheques -> {"ABSENT", "RECEIVED", "RETURNED"}]
  /\ rates \subseteq Rates
  /\ item \in [Items -> Item]
  /\ usable \subseteq BankAccounts \cup Attachments \cup Cashboxes

EffectedLines(r, direction) == {e.line : e \in {x \in recorded : x.receipt = r /\ x.direction = direction}}

LinesIf(condition, r) == IF condition THEN ElementsOf(receipt[r].form) ELSE {}

\* What a receipt brought is recorded line by line when it is executed, and
\* taken back line by line by the one receipt that reverses it; a line has
\* collected its item exactly when it was executed (execute, reverse).
LinesAreEffected ==
  \A r \in Receipts :
    LET done == receipt[r].state \in {"EXECUTED", "REVERSED"}
        original == receipt[r].reverses = NoReceipt
    IN /\ EffectedLines(r, "INCOMING") = LinesIf(done /\ original, r)
       /\ EffectedLines(r, "REVERSAL") = LinesIf(done /\ ~original, r)
       /\ {i \in Items : i[1] = r /\ item[i] # NoItem}
            = IF done /\ original THEN Collected(r, receipt[r].form) ELSE {}
       /\ receipt[r].state = "REVERSED" <=>
            \E v \in Receipts : receipt[v].reverses = r /\ receipt[r].reversedBy = v

\* Once approved, every step of every policy that the receipt's lines fall under
\* has its number of distinct approvers, none acting as or for the creator
\* where the step forbids it, although the steps asked were merged and sorted
\* (composeSteps, act).
PoliciesAreSatisfied ==
  \A r \in Receipts :
    receipt[r].state \in {"APPROVED", "EXECUTED", "REVERSED"} /\ receipt[r].reverses = NoReceipt =>
      \A n \in DOMAIN receipt[r].form :
        LET policy == Resolve(ContextOf(receipt[r].form[n]), TotalBase(r))
        IN /\ policy # NoPolicy
           /\ \A step \in ElementsOf(Steps[policy]) :
                \E i \in DOMAIN StepsAsked(r) :
                  LET S == {a \in approval[r].actions : a.step = i /\ a.kind = "APPROVED"}
                  IN
                  /\ Cardinality({a.actor : a \in S}) >= step.required
                  /\ \A a \in S : /\ {a.actor, a.from} \cap step.holders # {}
                                  /\ step.rules # {} => receipt[r].creator \notin {a.actor, a.from}

\* What was approved is what is executed: since its submission a receipt has
\* changed by its approvals, its execution and its reversal only, and still has
\* the worth it was submitted with (the version numbers, replace).
ApprovedAsSubmitted ==
  \A r \in Receipts :
    receipt[r].state \in ReceiptStates \ {"ABSENT", "DRAFT"} /\ receipt[r].reverses = NoReceipt =>
      /\ approval[r].basis = TotalBase(r)
      /\ receipt[r].version = approval[r].version + Cardinality(approval[r].actions)
           + CASE receipt[r].state = "EXECUTED" -> 1
               [] receipt[r].state = "REVERSED" -> 2
               [] OTHER -> 0

\* No one takes a receipt all the way alone, and its reversal is the act of
\* somebody who had no part in it (separationOverride, priorActors).
NoSoloReceipt ==
  \A r \in Receipts :
    /\ receipt[r].executor # NoUser /\ receipt[r].reverses = NoReceipt =>
         {receipt[r].creator, receipt[r].executor} \cup AllApprovers(r) # {receipt[r].executor}
    /\ receipt[r].reverses # NoReceipt =>
         receipt[r].creator \notin PriorActors(receipt[r].reverses)

\* A receipt is reversed only when no settlement in force has credited any of
\* what it collected (reversibleSnapshot).
Unsettled ==
  \A r \in Receipts :
    receipt[r].state = "EXECUTED" /\ receipt'[r].state = "REVERSED" =>
      \A i \in Collected(r, receipt[r].form) : Holding(i) = {}

\* A submission is worth what the rate table says at that moment, however the
\* table changed since the draft was saved (revalidateSubmission).
AtCurrentRates ==
  \A r \in Receipts :
    receipt[r].state = "DRAFT" /\ receipt'[r].state \in {"APPROVAL_PENDING", "APPROVED"} =>
      approval'[r].basis = Sum(DOMAIN receipt[r].form, Derived(receipt[r].form, receipt[r].entered))

\* A receipt that is approved has, for every policy its lines fall under, the
\* approvers that policy asks although the steps were merged and sorted, and is
\* worth what it was submitted with (composeSteps, act, replace).
EveryPolicyApproved ==
  ReceiptTypeOK /\ PoliciesAreSatisfied /\ ApprovedAsSubmitted

\* What a receipt brought is recorded when it is executed, and taken back by the
\* one receipt that reverses it; no one takes a receipt all the way alone, and
\* its reversal is the act of somebody who had no part in it (execute, reverse).
EffectsFollowReceipts ==
  LinesAreEffected /\ NoSoloReceipt

\* A submission is worth what the rate table says at that moment, and a receipt
\* is reversed only when no settlement in force has credited any of what it
\* collected (revalidateSubmission, reversibleSnapshot).
SubmittedAndReversed ==
  [][AtCurrentRates /\ Unsettled]_receiptAllVars
===============================================================================
