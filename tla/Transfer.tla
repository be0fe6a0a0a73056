------------------------------- MODULE Transfer --------------------------------
(***************************************************************************)
(* Transfers of money and controlled assets between the custodians of two  *)
(* endpoints: creation, submission, approval, which freezes the custodians *)
(* of both, release by the one and acknowledgement by the other.           *)
(*                                                                         *)
(* Each command is one transaction that locks the transfer, and before it  *)
(* moves money the rows of the endpoints, so it is one action.  Custody of *)
(* cashboxes changes at any time, by a writer outside the repository.      *)
(* Amounts are in one currency.                                            *)
(***************************************************************************)
EXTENDS ApprovalPolicy, Authority, Sequences, FiniteSets, Sums

CONSTANTS
  Transfers,
  Plans,          \* what a creator may ask to transfer
  NoPlan,
  Cashboxes, Accounts,
  Assets,         \* cheques and documents that travel with the money
  Steps,          \* Steps[pol]: the approval steps of policy pol
  Capable,        \* ACTIVE endpoints with the transfer capability
  Releasing,      \* endpoints that are in use and whose day is not closed
  Opening,        \* Opening[e]: the sum of the other facts of endpoint e
  Withheld,       \* Withheld[e]: what payments have reserved of it
  Floor, Ceiling, \* bounds of the position and of one release
  Counts,         \* bound: the amounts a receiver may count
  Keepers         \* bound: the users that cashboxes are assigned to

\* Cashboxes, bank accounts and users.
Endpoints == Cashboxes \cup Accounts \cup Users

Permissions == {"transfer.create", "transfer.submit", "transfer.approve",
                "transfer.reject", "transfer.release", "transfer.receive"}

SeparationRules == {"CREATOR_NOT_APPROVER", "SOURCE_CUSTODIAN_NOT_APPROVER"}

\* Policies share their table with payments, whose rules include others.
Step == [holders: SUBSET Users, required: Nat \ {0},
         rules: SUBSET (SeparationRules \cup {"REQUESTER_NOT_APPROVER"})]

Plan == [source: Endpoints, destination: Endpoints, amount: Nat \ {0},
         assets: SUBSET Assets, context: [Keys -> Values]]

ASSUME TransferAssumption ==
  /\ IsFiniteSet(Transfers)
  /\ Plans \subseteq Plan /\ NoPlan \notin Plans
  /\ Cashboxes \cap Accounts = {} /\ Cashboxes \cap Users = {}
  /\ Accounts \cap Users = {}
  /\ NoUser \notin Endpoints
  /\ Holders \in [Permissions -> SUBSET Users]
  /\ Steps \in [Policies -> Seq(Step)]
  /\ Capable \subseteq Endpoints /\ Releasing \subseteq Endpoints
  /\ Opening \in [Endpoints -> Int]
  /\ Withheld \in [Endpoints -> Nat]
  /\ Floor \in [Endpoints -> Int]
  /\ Ceiling \in [Endpoints -> Nat]
  /\ Counts \subseteq Nat
  /\ Keepers \subseteq Users

VARIABLES
  transfer,   \* transfer[t]: the transfer_documents row of t
  approval,   \* approval[t]: its policy snapshot and recorded actions
  transit,    \* transit[t]: its transit obligation
  asset,      \* asset[t][a]: the state of asset a on the list of t
  facts,      \* the movement facts of transfers
  holder      \* holder[b]: the current primary custodian of cashbox b

vars == <<transfer, approval, transit, asset, facts, holder>>

States == {"ABSENT", "DRAFT", "REQUESTED", "APPROVED", "REJECTED",
           "IN_TRANSIT", "DISCREPANCY", "COMPLETED"}

Row == [state: States, version: Nat, creator: Users \cup {NoUser},
        plan: Plans \cup {NoPlan},
        sourceCustodian: Users \cup {NoUser},
        destinationCustodian: Users \cup {NoUser},
        releasedBy: Users \cup {NoUser}, receivedBy: Users \cup {NoUser}]

AbsentRow == [state |-> "ABSENT", version |-> 0, creator |-> NoUser, plan |-> NoPlan,
              sourceCustodian |-> NoUser, destinationCustodian |-> NoUser,
              releasedBy |-> NoUser, receivedBy |-> NoUser]

Action == [step: Nat, actor: Users, from: Users \cup {NoUser},
           kind: {"APPROVED", "REJECTED"}]

Approval == [policy: Policies \cup {NoPolicy}, actions: SUBSET Action]

Obligation == [state: {"NONE", "OPEN", "DISCREPANCY", "CLOSED"}, received: Nat]

AssetStates == {"NONE", "PLANNED", "RELEASED", "RECEIVED"}

Fact == [transfer: Transfers, endpoint: Endpoints, direction: {"DEBIT", "CREDIT"},
         amount: Nat]

-------------------------------------------------------------------------------
(* Custody.                                                                *)

\* A user keeps their own; nobody is the custodian of a bank account.
Custodian(e) ==
  IF e \in Users THEN e ELSE IF e \in Cashboxes THEN holder[e] ELSE NoUser

\* Both endpoints have custodians, and different ones.
Separate(plan) ==
  /\ {Custodian(plan.source), Custodian(plan.destination)} \subseteq Users
  /\ Custodian(plan.source) # Custodian(plan.destination)

\* Faulty variant: only the frozen custodians are compared with the actor.
FrozenOnly(u, t, side) ==
  u = IF side = "source" THEN transfer[t].sourceCustodian ELSE transfer[t].destinationCustodian

\* The custodians are still those frozen by the approval, and u is the one of
\* the given side.
InCustody(u, t, side) ==
  /\ Separate(transfer[t].plan)
  /\ Custodian(transfer[t].plan.source) = transfer[t].sourceCustodian
  /\ Custodian(transfer[t].plan.destination) = transfer[t].destinationCustodian
  /\ u = IF side = "source" THEN transfer[t].sourceCustodian
                            ELSE transfer[t].destinationCustodian
  /\ transfer[t].releasedBy \in {NoUser, transfer[t].sourceCustodian}

-------------------------------------------------------------------------------
(* Progress of the approval.                                               *)

StepsOf(t) == Steps[approval[t].policy]

Approvals(t, i) == {a \in approval[t].actions : a.step = i /\ a.kind = "APPROVED"}

Incomplete(t) ==
  {i \in DOMAIN StepsOf(t) : Cardinality(Approvals(t, i)) < StepsOf(t)[i].required}

IsCurrentStep(t, i) == i \in Incomplete(t) /\ \A j \in Incomplete(t) : i <= j

\* One action of a user per step: a unique index; without it, MayActAgain.
MayActAgain(t, i, u) == TRUE
NotYetActed(t, i, u) == \A a \in approval[t].actions : ~(a.step = i /\ a.actor = u)

\* The separation rules of step i, for u acting for from.
Eligible(t, i, u, from) ==
  LET rules == StepsOf(t)[i].rules
      keeper == Custodian(transfer[t].plan.source)
  IN /\ "CREATOR_NOT_APPROVER" \in rules => transfer[t].creator \notin {u, from}
     /\ "SOURCE_CUSTODIAN_NOT_APPROVER" \in rules => keeper \notin {NoUser, u, from}

\* Faulty variant: only the approvals of the last step are looked at.
LastStepSeparated(t, actions) ==
  LET i == Len(StepsOf(t))
  IN "SOURCE_CUSTODIAN_NOT_APPROVER" \in StepsOf(t)[i].rules =>
       \A a \in actions :
         a.step = i => Custodian(transfer[t].plan.source) \notin {a.actor, a.from}

\* The custodian about to be frozen took part in none of the actions at steps
\* that forbid it, whoever the custodian was at the time.
CustodianSeparated(t, actions) ==
  \A a \in actions :
    "SOURCE_CUSTODIAN_NOT_APPROVER" \in StepsOf(t)[a.step].rules =>
      Custodian(transfer[t].plan.source) \notin {a.actor, a.from}

\* Faulty variant: the command's name is recorded as it is.
AsCommanded(command) == command
Recorded(command) == IF command = "APPROVE" THEN "APPROVED" ELSE "REJECTED"

-------------------------------------------------------------------------------
(* Positions.                                                              *)

SumOf(moved) == Sum(moved, [f \in moved |-> f.amount])

Posted(direction) == SumOf({f \in facts : f.direction = direction})

Moves(e, direction) == SumOf({f \in facts : f.endpoint = e /\ f.direction = direction})

Position(e) == Opening[e] + Moves(e, "CREDIT") - Moves(e, "DEBIT")

\* In use for transfers, on a day that is not closed.
Usable(e) == e \in Capable \cap Releasing

\* What is there and not reserved by a payment.
Unreserved(e) == Position(e) - Withheld[e]

\* Faulty variant: earlier transfers are not deducted.
OpeningCovers(plan) ==
  /\ Usable(plan.source)
  /\ Opening[plan.source] - Withheld[plan.source] - plan.amount >= Floor[plan.source]

SourceAvailable(plan) ==
  /\ Usable(plan.source)
  /\ plan.amount <= Ceiling[plan.source]
  /\ Unreserved(plan.source) - plan.amount >= Floor[plan.source]

-------------------------------------------------------------------------------
(* Commands.                                                               *)

\* There is a route for the endpoints: none between a user and an account.
Routed(plan) ==
  ~({plan.source, plan.destination} \cap Users # {}
    /\ {plan.source, plan.destination} \cap Accounts # {})

Acceptable(plan) ==
  /\ {plan.source, plan.destination} \subseteq Capable
  /\ plan.source # plan.destination
  /\ Routed(plan)

Create(u, t, plan) ==
  /\ transfer[t].state = "ABSENT"
  /\ Acceptable(plan)
  /\ Permitted(u, "transfer.create")
  /\ transfer' = [transfer EXCEPT ![t] =
       [AbsentRow EXCEPT !.state = "DRAFT", !.creator = u, !.plan = plan]]
  /\ asset' = [asset EXCEPT ![t] = [a \in Assets |->
       IF a \in plan.assets THEN "PLANNED" ELSE "NONE"]]
  /\ UNCHANGED <<approval, transit, facts, holder>>

\* The row in another state, and when that is APPROVED with its custodians.
Advanced(row, state) ==
  IF state = "APPROVED"
  THEN [row EXCEPT !.state = state, !.version = @ + 1,
                   !.sourceCustodian = Custodian(row.plan.source),
                   !.destinationCustodian = Custodian(row.plan.destination)]
  ELSE [row EXCEPT !.state = state, !.version = @ + 1]

Submit(u, t) ==
  LET plan == transfer[t].plan
      policy == Resolve(plan.context, plan.amount)
  IN /\ transfer[t].state = "DRAFT"
     /\ Acceptable(plan)
     /\ Permitted(u, "transfer.submit")
     /\ policy # NoPolicy
     /\ \A i \in DOMAIN Steps[policy] : Steps[policy][i].rules \subseteq SeparationRules
     /\ Steps[policy] = <<>> => Separate(plan)
     /\ approval' = [approval EXCEPT ![t] = [policy |-> policy, actions |-> {}]]
     /\ transfer' = [transfer EXCEPT ![t] =
          Advanced(@, IF Steps[policy] = <<>> THEN "APPROVED" ELSE "REQUESTED")]
     /\ UNCHANGED <<transit, asset, facts, holder>>

\* What every action at step i demands of u, and its record.
Acting(u, t, i, from, permission, kind) ==
  /\ transfer[t].state = "REQUESTED"
  /\ IsCurrentStep(t, i)
  /\ from \in Authority(u, Holders[permission] \cap StepsOf(t)[i].holders)
  /\ Eligible(t, i, u, from)
  /\ NotYetActed(t, i, u)
  /\ approval' = [approval EXCEPT ![t].actions = @ \cup
       {[step |-> i, actor |-> u, from |-> from, kind |-> kind]}]
  /\ UNCHANGED <<transit, asset, facts, holder>>

Completes(t, i) ==
  /\ Cardinality(Approvals(t, i)) + 1 >= StepsOf(t)[i].required
  /\ i = Len(StepsOf(t))

\* The last approval freezes the custodians, itself among those looked at.
Approve(u, t, i, from) ==
  /\ Acting(u, t, i, from, "transfer.approve", Recorded("APPROVE"))
  /\ Completes(t, i) => /\ Separate(transfer[t].plan)
                        /\ CustodianSeparated(t, approval'[t].actions)
  /\ transfer' = [transfer EXCEPT ![t] =
       Advanced(@, IF Completes(t, i) THEN "APPROVED" ELSE "REQUESTED")]

Reject(u, t, i, from) ==
  /\ Acting(u, t, i, from, "transfer.reject", Recorded("REJECT"))
  /\ transfer' = [transfer EXCEPT ![t] = Advanced(@, "REJECTED")]

Posting(t, e, direction) ==
  [transfer |-> t, endpoint |-> e, direction |-> direction, amount |-> transfer[t].plan.amount]

Release(u, t) ==
  /\ transfer[t].state = "APPROVED"
  /\ InCustody(u, t, "source")
  /\ Permitted(u, "transfer.release")
  /\ SourceAvailable(transfer[t].plan)
  /\ \A a \in transfer[t].plan.assets : asset[t][a] = "PLANNED"
  /\ facts' = facts \cup {Posting(t, transfer[t].plan.source, "DEBIT")}
  /\ transit' = [transit EXCEPT ![t].state = "OPEN"]
  /\ asset' = [asset EXCEPT ![t] = [a \in Assets |->
       IF @[a] = "PLANNED" THEN "RELEASED" ELSE @[a]]]
  /\ transfer' = [transfer EXCEPT ![t] = [Advanced(@, "IN_TRANSIT") EXCEPT !.releasedBy = u]]
  /\ UNCHANGED <<approval, holder>>

\* Faulty variant: assets are not compared.
AmountExact(t, n, arrived) == n = transfer[t].plan.amount

Exact(t, n, arrived) == n = transfer[t].plan.amount /\ arrived = transfer[t].plan.assets

\* Faulty variant: what was counted is credited, the rest remains disputed.
CreditCounted(t, n, exact) ==
  IF n = 0 THEN {}
  ELSE {[Posting(t, transfer[t].plan.destination, "CREDIT") EXCEPT !.amount = n]}

\* A discrepancy posts nothing.
Credit(t, n, exact) ==
  IF exact THEN {Posting(t, transfer[t].plan.destination, "CREDIT")} ELSE {}

Acknowledge(u, t, n, arrived) ==
  LET exact == Exact(t, n, arrived)
  IN /\ transfer[t].state = "IN_TRANSIT"
     /\ InCustody(u, t, "destination")
     /\ Permitted(u, "transfer.receive")
     /\ \A a \in transfer[t].plan.assets : asset[t][a] = "RELEASED"
     /\ arrived \subseteq transfer[t].plan.assets
     /\ facts' = facts \cup Credit(t, n, exact)
     /\ asset' = [asset EXCEPT ![t] = [a \in Assets |->
          IF a \in arrived THEN "RECEIVED" ELSE @[a]]]
     /\ transit' = [transit EXCEPT ![t] =
          [state |-> IF exact THEN "CLOSED" ELSE "DISCREPANCY", received |-> n]]
     /\ transfer' = [transfer EXCEPT ![t] =
          [Advanced(@, IF exact THEN "COMPLETED" ELSE "DISCREPANCY") EXCEPT !.receivedBy = u]]
     /\ UNCHANGED <<approval, holder>>

\* The external writer of cashbox assignments: at most one is primary.
Assign(b, u) ==
  /\ holder' = [holder EXCEPT ![b] = u]
  /\ UNCHANGED <<transfer, approval, transit, asset, facts>>

-------------------------------------------------------------------------------
Init ==
  /\ transfer = [t \in Transfers |-> AbsentRow]
  /\ approval = [t \in Transfers |-> [policy |-> NoPolicy, actions |-> {}]]
  /\ transit = [t \in Transfers |-> [state |-> "NONE", received |-> 0]]
  /\ asset = [t \in Transfers |-> [a \in Assets |-> "NONE"]]
  /\ facts = {}
  /\ holder \in [Cashboxes -> Keepers \cup {NoUser}]

StepNumbers(t) == IF approval[t].policy = NoPolicy THEN {} ELSE DOMAIN StepsOf(t)

Next ==
  \/ \E t \in Transfers, u \in Users :
       \/ \E plan \in Plans : Create(u, t, plan)
       \/ Submit(u, t)
       \/ \E i \in StepNumbers(t), from \in Users \cup {NoUser} :
            Approve(u, t, i, from) \/ Reject(u, t, i, from)
       \/ Release(u, t)
       \/ \E n \in Counts, arrived \in SUBSET Assets : Acknowledge(u, t, n, arrived)
  \/ \E b \in Cashboxes, u \in Keepers \cup {NoUser} : Assign(b, u)

Spec == Init /\ [][Next]_vars

-------------------------------------------------------------------------------
(* Properties.                                                             *)

\* The rows have their types.
TransferTypeOK ==
  /\ transfer \in [Transfers -> Row]
  /\ approval \in [Transfers -> Approval]
  /\ transit \in [Transfers -> Obligation]
  /\ asset \in [Transfers -> [Assets -> AssetStates]]
  /\ facts \subseteq Fact
  /\ holder \in [Cashboxes -> Keepers \cup {NoUser}]

Approved(t) == transfer[t].state \in {"APPROVED", "IN_TRANSIT", "DISCREPANCY", "COMPLETED"}

\* What is approved was approved at every step by the required number of
\* different users, none of them or of those they acted for the creator where
\* the step forbids it (act trusts its counts of earlier transactions).
ApprovedIsComplete ==
  \A t \in Transfers :
    Approved(t) =>
      \A i \in DOMAIN StepsOf(t) :
        Cardinality({a.actor : a \in {b \in Approvals(t, i) :
          "CREATOR_NOT_APPROVER" \in StepsOf(t)[i].rules =>
            transfer[t].creator \notin {b.actor, b.from}}}) >= StepsOf(t)[i].required

\* The custodian who hands over did not approve a step that forbids it, even
\* if the cashbox was someone else's when they approved (assertCustodianSeparation).
CustodianDidNotApprove ==
  \A t \in Transfers :
    Approved(t) =>
      \A a \in approval[t].actions :
        "SOURCE_CUSTODIAN_NOT_APPROVER" \in StepsOf(t)[a.step].rules =>
          transfer[t].sourceCustodian \notin {a.actor, a.from}

\* Money neither appears nor vanishes: what left the endpoints and arrived
\* nowhere is owed in full by an open or a disputed obligation (acknowledge).
MoneyConserved ==
  LET owed == {t \in Transfers : transit[t].state \in {"OPEN", "DISCREPANCY"}}
  IN Posted("DEBIT") - Posted("CREDIT") = Sum(owed, [t \in owed |-> transfer[t].plan.amount])

\* Releases leave an endpoint what it must keep and what payments reserved,
\* however many transfers draw on it (sourceAvailability).
FloorHolds ==
  \A e \in Endpoints :
    Opening[e] - Withheld[e] >= Floor[e] => Unreserved(e) >= Floor[e]

\* A completed transfer delivered all of its money and assets; a disputed one
\* lacks something, and what did not arrive stays on the list as released.
CompletedIsWhole ==
  \A t \in Transfers :
    LET plan == transfer[t].plan
        missing == {a \in Assets : asset[t][a] = "RELEASED"}
    IN /\ transfer[t].state = "COMPLETED" =>
            missing = {} /\ transit[t].received = plan.amount
       /\ transfer[t].state = "DISCREPANCY" =>
            missing # {} \/ transit[t].received # plan.amount

\* Cash leaves and reaches an endpoint in the hands of its custodian of that
\* moment, and only while both custodians are those the approval froze.
CashMovesInCustody ==
  [][\A f \in facts' \ facts :
       LET t == f.transfer
       IN /\ Custodian(transfer[t].plan.source) = transfer[t].sourceCustodian
          /\ Custodian(transfer[t].plan.destination) = transfer[t].destinationCustodian
          /\ Custodian(f.endpoint) = IF f.direction = "DEBIT" THEN transfer'[t].releasedBy
                                                             ELSE transfer'[t].receivedBy]_vars

-------------------------------------------------------------------------------
(* The transfers implement hand-overs.                                     *)

FactsOf(t, direction) == {f \in facts : f.transfer = t /\ f.direction = direction}

HandedOver == INSTANCE HandOver WITH
  Items    <- Transfers,
  Places   <- Endpoints,
  Amounts  <- {plan.amount : plan \in Plans},
  Least    <- [e \in Endpoints |-> Floor[e] + Withheld[e]],
  stage    <- [t \in Transfers |->
                IF FactsOf(t, "CREDIT") # {} THEN "ARRIVED"
                ELSE IF transit[t].state = "DISCREPANCY" THEN "DISPUTED"
                ELSE IF FactsOf(t, "DEBIT") # {} THEN "TRAVELLING"
                ELSE "HELD"],
  load     <- [t \in Transfers |->
                [to     |-> IF FactsOf(t, "DEBIT") = {} THEN NoPlan
                            ELSE transfer[t].plan.destination,
                 amount |-> SumOf(FactsOf(t, "DEBIT"))]],
  Nowhere  <- NoPlan,
  position <- [e \in Endpoints |-> Position(e)]

\* Read off the facts and obligations, each transfer departs once and either
\* arrives once and whole at its destination or is disputed (release, acknowledge).
ImplementsHandOver == HandedOver!HandOverSpec
===============================================================================
