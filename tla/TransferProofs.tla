---------------------------- MODULE TransferProofs ----------------------------
(***************************************************************************)
(* What holds of the transfers for every set of transfers, users, plans,   *)
(* endpoints and policies.                                                 *)
(***************************************************************************)
EXTENDS Transfer, Sums

-------------------------------------------------------------------------------
(* Types.                                                                  *)

\* A transfer that exists has a plan and a creator.
Planned ==
  \A t \in Transfers :
    transfer[t].state # "ABSENT" => transfer[t].plan \in Plans /\ transfer[t].creator \in Users

Typed == TransferTypeOK /\ Planned

\* A custodian is a user or nobody.
LEMMA CustodianType ==
  ASSUME TransferTypeOK, NEW e
  PROVE  Custodian(e) \in Users \cup {NoUser}
BY TransferAssumption DEF TransferTypeOK, Custodian

\* A resolved policy is one of the policies, or none.
LEMMA ResolvedPolicy ==
  ASSUME NEW c, NEW a
  PROVE  Resolve(c, a) \in Policies \cup {NoPolicy}
BY DEF Resolve, UniqueMaximal

\* What advancing changes of a row, and what it keeps.
LEMMA AdvancedRow ==
  ASSUME TransferTypeOK, NEW row \in Row, NEW state \in States
  PROVE  /\ Advanced(row, state) \in Row
         /\ Advanced(row, state).state = state
         /\ Advanced(row, state).plan = row.plan
         /\ Advanced(row, state).creator = row.creator
         /\ Advanced(row, state).releasedBy = row.releasedBy
         /\ state = "APPROVED" =>
              Advanced(row, state).sourceCustodian = Custodian(row.plan.source)
         /\ state # "APPROVED" =>
              Advanced(row, state).sourceCustodian = row.sourceCustodian
<1>1. /\ Custodian(row.plan.source) \in Users \cup {NoUser}
      /\ Custodian(row.plan.destination) \in Users \cup {NoUser}
  BY CustodianType
<1> HIDE DEF States
<1>2. row.version + 1 \in Nat
  BY DEF Row
<1> QED BY <1>1, <1>2 DEF Advanced, Row

\* The posting of a planned transfer is a fact.
LEMMA PostingType ==
  ASSUME NEW t \in Transfers, transfer[t].plan \in Plans
  PROVE  /\ Posting(t, transfer[t].plan.source, "DEBIT") \in Fact
         /\ Posting(t, transfer[t].plan.destination, "CREDIT") \in Fact
BY TransferAssumption DEF Posting, Fact, Plan

\* A row that a command replaces leaves the others.
LEMMA OtherRows ==
  ASSUME TransferTypeOK, NEW t \in Transfers, NEW row,
         transfer' = [transfer EXCEPT ![t] = row]
  PROVE  transfer'[t] = row /\ \A q \in Transfers \ {t} : transfer'[q] = transfer[q]
BY DEF TransferTypeOK

\* Creation keeps the types.
LEMMA CreateTyped ==
  ASSUME Typed, NEW t \in Transfers, NEW u \in Users, NEW plan \in Plans, Create(u, t, plan)
  PROVE  Typed'
<1> DEFINE row == [AbsentRow EXCEPT !.state = "DRAFT", !.creator = u, !.plan = plan]
<1>1. row \in Row /\ row.plan = plan /\ row.creator = u
  <2>1. AbsentRow \in Row /\ "DRAFT" \in States
    BY DEF AbsentRow, Row, States
  <2> HIDE DEF States
  <2> QED BY <2>1 DEF Row
<1>2. transfer'[t] \in Row /\ transfer'[t].plan = plan /\ transfer'[t].creator = u
  BY <1>1, OtherRows DEF Create, Typed
<1>3. transfer' \in [Transfers -> Row]
  BY <1>2 DEF Create, Typed, TransferTypeOK
<1>4. asset' \in [Transfers -> [Assets -> AssetStates]]
  BY DEF Create, Typed, TransferTypeOK, AssetStates
<1>5. Planned'
  BY <1>2, OtherRows DEF Create, Typed, Planned
<1> QED BY <1>3, <1>4, <1>5 DEF Create, Typed, TransferTypeOK

\* Replacing one row of an existing transfer by an advanced one keeps the types
\* of the rows.
LEMMA AdvanceTyped ==
  ASSUME Typed, NEW t \in Transfers, transfer[t].state # "ABSENT", NEW state \in States,
         transfer' = [transfer EXCEPT ![t] = Advanced(transfer[t], state)]
  PROVE  transfer' \in [Transfers -> Row] /\ Planned'
<1>1. transfer[t] \in Row
  BY DEF Typed, TransferTypeOK
<1>2. /\ Advanced(transfer[t], state) \in Row
      /\ Advanced(transfer[t], state).plan = transfer[t].plan
      /\ Advanced(transfer[t], state).creator = transfer[t].creator
  BY <1>1, AdvancedRow DEF Typed
<1>3. transfer' \in [Transfers -> Row]
  BY <1>2 DEF Typed, TransferTypeOK
<1>4. Planned'
  BY <1>2, OtherRows DEF Typed, Planned
<1> QED BY <1>3, <1>4

\* Submission keeps the types.
LEMMA SubmitTyped ==
  ASSUME Typed, NEW t \in Transfers, NEW u \in Users, Submit(u, t)
  PROVE  Typed'
<1> DEFINE policy == Resolve(transfer[t].plan.context, transfer[t].plan.amount)
           state == IF Steps[policy] = <<>> THEN "APPROVED" ELSE "REQUESTED"
<1>1. transfer' = [transfer EXCEPT ![t] = Advanced(transfer[t], state)]
  BY DEF Submit
<1>2. transfer[t].state # "ABSENT" /\ state \in States
  BY DEF Submit, States
<1>3. transfer' \in [Transfers -> Row] /\ Planned'
  <2> HIDE DEF state
  <2> QED BY <1>1, <1>2, AdvanceTyped
<1>4. policy \in Policies \cup {NoPolicy}
  BY ResolvedPolicy
<1>5. approval' \in [Transfers -> Approval]
  BY <1>4 DEF Submit, Typed, TransferTypeOK, Approval
<1> QED BY <1>3, <1>5 DEF Submit, Typed, TransferTypeOK

\* The numbers of a transfer's steps are naturals.
LEMMA StepNumberType ==
  ASSUME Typed, NEW t \in Transfers, NEW i \in StepNumbers(t)
  PROVE  i \in Nat
<1>1. approval[t].policy \in Policies
  BY DEF Typed, TransferTypeOK, Approval, StepNumbers
<1>2. Steps[approval[t].policy] \in Seq(Step)
  BY <1>1, TransferAssumption
<1>3. i \in 1 .. Len(Steps[approval[t].policy])
  BY <1>2 DEF StepNumbers, StepsOf
<1> QED BY <1>2, <1>3

\* Recording an action keeps the types.
LEMMA ActingTyped ==
  ASSUME Typed, NEW t \in Transfers, NEW u \in Users, NEW i \in StepNumbers(t),
         NEW from \in Users \cup {NoUser}, NEW permission,
         NEW kind \in {"APPROVED", "REJECTED"},
         Acting(u, t, i, from, permission, kind), NEW state \in States,
         transfer' = [transfer EXCEPT ![t] = Advanced(transfer[t], state)]
  PROVE  Typed'
<1>1. [step |-> i, actor |-> u, from |-> from, kind |-> kind] \in Action
  BY StepNumberType DEF Action
<1>2. approval' \in [Transfers -> Approval]
  BY <1>1 DEF Acting, Typed, TransferTypeOK, Approval
<1>3. transfer[t].state # "ABSENT"
  BY DEF Acting
<1>4. transfer' \in [Transfers -> Row] /\ Planned'
  BY <1>3, AdvanceTyped
<1> QED BY <1>2, <1>4 DEF Acting, Typed, TransferTypeOK

\* Approval and rejection keep the types.
LEMMA ActTyped ==
  ASSUME Typed, NEW t \in Transfers, NEW u \in Users, NEW i \in StepNumbers(t),
         NEW from \in Users \cup {NoUser}, Approve(u, t, i, from) \/ Reject(u, t, i, from)
  PROVE  Typed'
<1>1. CASE Approve(u, t, i, from)
  <2> DEFINE state == IF Completes(t, i) THEN "APPROVED" ELSE "REQUESTED"
  <2>1. Recorded("APPROVE") \in {"APPROVED", "REJECTED"} /\ state \in States
    BY DEF Recorded, States
  <2>2. transfer' = [transfer EXCEPT ![t] = Advanced(transfer[t], state)]
    BY <1>1 DEF Approve
  <2>3. Acting(u, t, i, from, "transfer.approve", Recorded("APPROVE"))
    BY <1>1 DEF Approve
  <2> HIDE DEF state
  <2> QED BY <2>1, <2>2, <2>3, ActingTyped
<1>2. CASE Reject(u, t, i, from)
  <2>1. Recorded("REJECT") \in {"APPROVED", "REJECTED"} /\ "REJECTED" \in States
    BY DEF Recorded, States
  <2>2. transfer' = [transfer EXCEPT ![t] = Advanced(transfer[t], "REJECTED")]
    BY <1>2 DEF Reject
  <2>3. Acting(u, t, i, from, "transfer.reject", Recorded("REJECT"))
    BY <1>2 DEF Reject
  <2> QED BY <2>1, <2>2, <2>3, ActingTyped
<1> QED BY <1>1, <1>2

\* Release keeps the types.
LEMMA ReleaseTyped ==
  ASSUME Typed, NEW t \in Transfers, NEW u \in Users, Release(u, t)
  PROVE  Typed'
<1> DEFINE advanced == Advanced(transfer[t], "IN_TRANSIT")
           row == [advanced EXCEPT !.releasedBy = u]
<1>1. transfer[t] \in Row /\ transfer[t].plan \in Plans /\ transfer[t].creator \in Users
  BY DEF Typed, TransferTypeOK, Planned, Release
<1>2. /\ advanced \in Row
      /\ advanced.plan = transfer[t].plan /\ advanced.creator = transfer[t].creator
  BY <1>1, AdvancedRow DEF Typed, States
<1>3. row \in Row /\ row.plan = transfer[t].plan /\ row.creator = transfer[t].creator
  <2> HIDE DEF advanced
  <2> QED BY <1>2 DEF Row
<1>4. transfer' = [transfer EXCEPT ![t] = row]
  BY DEF Release
<1> HIDE DEF row
<1>5. transfer' \in [Transfers -> Row]
  BY <1>3, <1>4 DEF Typed, TransferTypeOK
<1>6. Planned'
  BY <1>1, <1>3, <1>4, OtherRows DEF Typed, Planned
<1>7. facts' \subseteq Fact
  BY <1>1, PostingType DEF Release, Typed, TransferTypeOK
<1>8. transit' \in [Transfers -> Obligation]
  BY DEF Release, Typed, TransferTypeOK, Obligation
<1>9. asset' \in [Transfers -> [Assets -> AssetStates]]
  BY DEF Release, Typed, TransferTypeOK, AssetStates
<1> QED BY <1>5, <1>6, <1>7, <1>8, <1>9 DEF Release, Typed, TransferTypeOK

\* Acknowledgement keeps the types.
LEMMA AcknowledgeTyped ==
  ASSUME Typed, NEW t \in Transfers, NEW u \in Users, NEW n \in Counts,
         NEW arrived \in SUBSET Assets, Acknowledge(u, t, n, arrived)
  PROVE  Typed'
<1> DEFINE exact == Exact(t, n, arrived)
           state == IF exact THEN "COMPLETED" ELSE "DISCREPANCY"
           advanced == Advanced(transfer[t], state)
           row == [advanced EXCEPT !.receivedBy = u]
<1>1. transfer[t] \in Row /\ transfer[t].plan \in Plans /\ transfer[t].creator \in Users
  BY DEF Typed, TransferTypeOK, Planned, Acknowledge
<1>2. state \in States
  BY DEF States
<1>3. /\ advanced \in Row
      /\ advanced.plan = transfer[t].plan /\ advanced.creator = transfer[t].creator
  <2> HIDE DEF state
  <2> QED BY <1>1, <1>2, AdvancedRow DEF Typed
<1>4. row \in Row /\ row.plan = transfer[t].plan /\ row.creator = transfer[t].creator
  <2> HIDE DEF advanced
  <2> QED BY <1>3 DEF Row
<1>5. transfer' = [transfer EXCEPT ![t] = row]
  BY DEF Acknowledge
<1>6. Credit(t, n, exact) \subseteq Fact
  BY <1>1, PostingType DEF Credit
<1>7. facts' \subseteq Fact
  BY <1>6 DEF Acknowledge, Typed, TransferTypeOK
<1>8. transit' \in [Transfers -> Obligation]
  <2>1. n \in Nat
    BY TransferAssumption
  <2>2. [state |-> IF exact THEN "CLOSED" ELSE "DISCREPANCY", received |-> n] \in Obligation
    BY <2>1 DEF Obligation
  <2> QED BY <2>2 DEF Acknowledge, Typed, TransferTypeOK
<1>9. asset' \in [Transfers -> [Assets -> AssetStates]]
  BY DEF Acknowledge, Typed, TransferTypeOK, AssetStates
<1> HIDE DEF row
<1>10. transfer' \in [Transfers -> Row]
  BY <1>4, <1>5 DEF Typed, TransferTypeOK
<1>11. Planned'
  BY <1>1, <1>4, <1>5, OtherRows DEF Typed, Planned
<1> QED BY <1>7, <1>8, <1>9, <1>10, <1>11 DEF Acknowledge, Typed, TransferTypeOK

\* Custody passes only to keepers.
LEMMA AssignTyped ==
  ASSUME Typed, NEW b \in Cashboxes, NEW u \in Keepers \cup {NoUser}, Assign(b, u)
  PROVE  Typed'
BY DEF Assign, Typed, TransferTypeOK, Planned

\* The rows have their types, and existing transfers their plan and creator.
THEOREM Types == Spec => []Typed
<1>1. Init => Typed
  <2> SUFFICES ASSUME Init PROVE Typed
    OBVIOUS
  <2>1. AbsentRow \in Row
    BY DEF AbsentRow, Row, States
  <2>2. \A t \in Transfers : transfer[t].state = "ABSENT"
    BY DEF Init, AbsentRow
  <2> QED BY <2>1, <2>2
       DEF Init, Typed, TransferTypeOK, Planned, Approval, Obligation, AssetStates
<1>2. Typed /\ [Next]_vars => Typed'
  <2> SUFFICES ASSUME Typed, [Next]_vars PROVE Typed'
    OBVIOUS
  <2>1. CASE Next
    BY <2>1, CreateTyped, SubmitTyped, ActTyped, ReleaseTyped, AcknowledgeTyped, AssignTyped
       DEF Next
  <2>2. CASE UNCHANGED vars
    BY <2>2 DEF vars, Typed, TransferTypeOK, Planned
  <2> QED BY <2>1, <2>2
<1> QED BY <1>1, <1>2, PTL DEF Spec

\* Every reachable state has its types.
THEOREM TransferTypes == Spec => []TransferTypeOK
<1>1. Typed => TransferTypeOK
  BY DEF Typed
<1> QED BY <1>1, Types, PTL

-------------------------------------------------------------------------------
(* Custody.                                                                *)

\* What an advanced row with the actor of a movement is.
LEMMA ActorOfMovement ==
  ASSUME Typed, NEW t \in Transfers, NEW state \in States \ {"APPROVED"}, NEW u \in Users
  PROVE  /\ [Advanced(transfer[t], state) EXCEPT !.releasedBy = u].releasedBy = u
         /\ [Advanced(transfer[t], state) EXCEPT !.receivedBy = u].receivedBy = u
         /\ \A row \in {[Advanced(transfer[t], state) EXCEPT !.releasedBy = u],
                         [Advanced(transfer[t], state) EXCEPT !.receivedBy = u]} :
              /\ row.state = state
              /\ row.plan = transfer[t].plan
              /\ row.creator = transfer[t].creator
              /\ row.sourceCustodian = transfer[t].sourceCustodian
<1> DEFINE advanced == Advanced(transfer[t], state)
<1>1. transfer[t] \in Row
  BY DEF Typed, TransferTypeOK
<1>2. /\ advanced \in Row /\ advanced.state = state /\ advanced.plan = transfer[t].plan
      /\ advanced.creator = transfer[t].creator
      /\ advanced.sourceCustodian = transfer[t].sourceCustodian
  BY <1>1, AdvancedRow DEF Typed
<1> HIDE DEF advanced, States
<1>3. /\ [advanced EXCEPT !.releasedBy = u].releasedBy = u
      /\ [advanced EXCEPT !.receivedBy = u].receivedBy = u
      /\ \A row \in {[advanced EXCEPT !.releasedBy = u], [advanced EXCEPT !.receivedBy = u]} :
           /\ row.state = state
           /\ row.plan = transfer[t].plan
           /\ row.creator = transfer[t].creator
           /\ row.sourceCustodian = transfer[t].sourceCustodian
  BY <1>2 DEF Row
<1> QED BY <1>3 DEF advanced

\* The rows after a release.
LEMMA ReleaseRow ==
  ASSUME Typed, NEW t \in Transfers, NEW u \in Users, Release(u, t)
  PROVE  /\ transfer'[t].state = "IN_TRANSIT"
         /\ transfer'[t].plan = transfer[t].plan
         /\ transfer'[t].creator = transfer[t].creator
         /\ transfer'[t].sourceCustodian = transfer[t].sourceCustodian
         /\ transfer'[t].releasedBy = u
         /\ \A q \in Transfers \ {t} : transfer'[q] = transfer[q]
<1> DEFINE row == [Advanced(transfer[t], "IN_TRANSIT") EXCEPT !.releasedBy = u]
<1>1. transfer' = [transfer EXCEPT ![t] = row]
  BY DEF Release
<1>2. "IN_TRANSIT" \in States \ {"APPROVED"}
  BY DEF States
<1>3. /\ row.releasedBy = u /\ row.state = "IN_TRANSIT"
      /\ row.plan = transfer[t].plan
      /\ row.creator = transfer[t].creator
      /\ row.sourceCustodian = transfer[t].sourceCustodian
  BY <1>2, ActorOfMovement
<1> HIDE DEF row
<1> QED BY <1>1, <1>3, OtherRows DEF Typed

\* The rows after an acknowledgement.
LEMMA AcknowledgeRow ==
  ASSUME Typed, NEW t \in Transfers, NEW u \in Users, NEW n \in Counts,
         NEW arrived \in SUBSET Assets, Acknowledge(u, t, n, arrived)
  PROVE  /\ transfer'[t].state = IF Exact(t, n, arrived) THEN "COMPLETED" ELSE "DISCREPANCY"
         /\ transfer'[t].plan = transfer[t].plan
         /\ transfer'[t].creator = transfer[t].creator
         /\ transfer'[t].sourceCustodian = transfer[t].sourceCustodian
         /\ transfer'[t].receivedBy = u
         /\ \A q \in Transfers \ {t} : transfer'[q] = transfer[q]
<1> DEFINE state == IF Exact(t, n, arrived) THEN "COMPLETED" ELSE "DISCREPANCY"
           row == [Advanced(transfer[t], state) EXCEPT !.receivedBy = u]
<1>1. transfer' = [transfer EXCEPT ![t] = row]
  BY DEF Acknowledge
<1>2. state \in States \ {"APPROVED"}
  BY DEF States
<1>3. /\ row.receivedBy = u /\ row.state = state
      /\ row.plan = transfer[t].plan
      /\ row.creator = transfer[t].creator
      /\ row.sourceCustodian = transfer[t].sourceCustodian
  <2> HIDE DEF state
  <2> QED BY <1>2, ActorOfMovement
<1> HIDE DEF row
<1> QED BY <1>1, <1>3, OtherRows DEF Typed

\* The commands before the release move nothing.
LEMMA NothingMoves ==
  ASSUME NEW t, NEW u, NEW i, NEW from, NEW plan,
         Create(u, t, plan) \/ Submit(u, t) \/ Approve(u, t, i, from) \/ Reject(u, t, i, from)
  PROVE  facts' = facts /\ transit' = transit
<1>1. CASE Create(u, t, plan)
  BY <1>1 DEF Create
<1>2. CASE Submit(u, t)
  BY <1>2 DEF Submit
<1>3. CASE Approve(u, t, i, from)
  BY <1>3 DEF Approve, Acting
<1>4. CASE Reject(u, t, i, from)
  BY <1>4 DEF Reject, Acting
<1> QED BY <1>1, <1>2, <1>3, <1>4

\* CustodianDidNotApprove for one transfer.
Uninvolved(t) ==
  Approved(t) =>
    \A a \in approval[t].actions :
      "SOURCE_CUSTODIAN_NOT_APPROVER" \in StepsOf(t)[a.step].rules =>
        transfer[t].sourceCustodian \notin {a.actor, a.from}

\* A step that leaves the approval and the row of a transfer leaves this.
LEMMA UninvolvedKept ==
  ASSUME NEW t \in Transfers, Uninvolved(t),
         approval'[t] = approval[t], transfer'[t] = transfer[t]
  PROVE  Uninvolved(t)'
BY DEF Uninvolved, Approved, StepsOf

\* An approval either does not complete the transfer, or freezes a custodian who
\* was compared with all recorded actions and the new one.
LEMMA ApproveUninvolved ==
  ASSUME Typed, NEW t \in Transfers, NEW u \in Users, NEW i \in StepNumbers(t),
         NEW from \in Users \cup {NoUser}, Approve(u, t, i, from)
  PROVE  Uninvolved(t)'
<1>1. transfer[t] \in Row
  BY DEF Typed, TransferTypeOK
<1>2. approval'[t].policy = approval[t].policy
  BY DEF Approve, Acting, Typed, TransferTypeOK, Approval
<1>3. CASE Completes(t, i)
  <2>1. transfer'[t] = Advanced(transfer[t], "APPROVED")
    BY <1>3, OtherRows DEF Approve, Typed
  <2>2. transfer'[t].sourceCustodian = Custodian(transfer[t].plan.source)
    BY <1>1, <2>1, AdvancedRow DEF Typed, States
  <2>3. CustodianSeparated(t, approval'[t].actions)
    BY <1>3 DEF Approve
  <2> QED BY <1>2, <2>2, <2>3 DEF CustodianSeparated, Uninvolved, StepsOf
<1>4. CASE ~Completes(t, i)
  <2>1. transfer'[t] = Advanced(transfer[t], "REQUESTED")
    BY <1>4, OtherRows DEF Approve, Typed
  <2>2. transfer'[t].state = "REQUESTED"
    BY <1>1, <2>1, AdvancedRow DEF Typed, States
  <2> QED BY <2>2 DEF Uninvolved, Approved
<1> QED BY <1>3, <1>4

\* The custodian who hands over took part in no approval that forbids it,
\* whatever changes of custody came before.
THEOREM CustodiansDidNotApprove == Spec => []CustodianDidNotApprove
<1> DEFINE Inv == \A t \in Transfers : Uninvolved(t)
<1>1. Init => Inv
  BY DEF Init, Uninvolved, Approved, AbsentRow
<1>2. Typed /\ Inv /\ [Next]_vars => Inv'
  <2> SUFFICES ASSUME Typed, Inv, [Next]_vars, NEW q \in Transfers
               PROVE  Uninvolved(q)'
    OBVIOUS
  <2>1. ASSUME NEW t \in Transfers, NEW u \in Users, NEW plan \in Plans, Create(u, t, plan)
        PROVE  Uninvolved(q)'
    <3>1. transfer'[t].state = "DRAFT"
      <4>1. transfer'[t] = [AbsentRow EXCEPT !.state = "DRAFT", !.creator = u, !.plan = plan]
        BY <2>1, OtherRows DEF Create, Typed
      <4> QED BY <4>1 DEF AbsentRow
    <3>2. q # t => transfer'[q] = transfer[q]
      BY <2>1, OtherRows DEF Create, Typed
    <3> QED BY <2>1, <3>1, <3>2, UninvolvedKept DEF Create, Uninvolved, Approved
  <2>2. ASSUME NEW t \in Transfers, NEW u \in Users, Submit(u, t)
        PROVE  Uninvolved(q)'
    <3>1. approval'[t].actions = {}
      BY <2>2 DEF Submit, Typed, TransferTypeOK
    <3>2. q # t => transfer'[q] = transfer[q] /\ approval'[q] = approval[q]
      BY <2>2, OtherRows DEF Submit, Typed, TransferTypeOK
    <3> QED BY <3>1, <3>2, UninvolvedKept DEF Uninvolved
  <2>3. ASSUME NEW t \in Transfers, NEW u \in Users, NEW i \in StepNumbers(t),
               NEW from \in Users \cup {NoUser}, Approve(u, t, i, from)
        PROVE  Uninvolved(q)'
    <3>1. q # t => transfer'[q] = transfer[q] /\ approval'[q] = approval[q]
      BY <2>3, OtherRows DEF Approve, Acting, Typed, TransferTypeOK
    <3> QED BY <2>3, <3>1, ApproveUninvolved, UninvolvedKept
  <2>4. ASSUME NEW t \in Transfers, NEW u \in Users, NEW i \in StepNumbers(t),
               NEW from \in Users \cup {NoUser}, Reject(u, t, i, from)
        PROVE  Uninvolved(q)'
    <3>1. q # t => transfer'[q] = transfer[q] /\ approval'[q] = approval[q]
      BY <2>4, OtherRows DEF Reject, Acting, Typed, TransferTypeOK
    <3>2. transfer[t] \in Row
      BY DEF Typed, TransferTypeOK
    <3>3. transfer'[t].state = "REJECTED"
      <4>1. transfer'[t] = Advanced(transfer[t], "REJECTED")
        BY <2>4, OtherRows DEF Reject, Typed
      <4> QED BY <3>2, <4>1, AdvancedRow DEF Typed, States
    <3> QED BY <3>1, <3>3, UninvolvedKept DEF Uninvolved, Approved
  <2>5. ASSUME NEW t \in Transfers, NEW u \in Users, Release(u, t)
        PROVE  Uninvolved(q)'
    <3>1. Approved(t) /\ approval' = approval
      BY <2>5 DEF Release, Approved
    <3> QED BY <2>5, <3>1, ReleaseRow, UninvolvedKept DEF Uninvolved, StepsOf
  <2>6. ASSUME NEW t \in Transfers, NEW u \in Users, NEW n \in Counts,
               NEW arrived \in SUBSET Assets, Acknowledge(u, t, n, arrived)
        PROVE  Uninvolved(q)'
    <3>1. Approved(t) /\ approval' = approval
      BY <2>6 DEF Acknowledge, Approved
    <3> QED BY <2>6, <3>1, AcknowledgeRow, UninvolvedKept DEF Uninvolved, StepsOf
  <2>7. ASSUME NEW b \in Cashboxes, NEW u \in Keepers \cup {NoUser}, Assign(b, u)
        PROVE  Uninvolved(q)'
    BY <2>7, UninvolvedKept DEF Assign
  <2>8. CASE UNCHANGED vars
    BY <2>8, UninvolvedKept DEF vars
  <2> HIDE DEF Inv
  <2> QED BY <2>1, <2>2, <2>3, <2>4, <2>5, <2>6, <2>7, <2>8 DEF Next
<1>3. Inv <=> CustodianDidNotApprove
  BY DEF Uninvolved, CustodianDidNotApprove
<1> HIDE DEF Inv
<1> QED BY <1>1, <1>2, <1>3, Types, PTL DEF Spec

\* Cash leaves and reaches an endpoint in the hands of its custodian of that
\* moment, while both custodians are those the approval froze.
THEOREM CashInCustody == Spec => CashMovesInCustody
<1> DEFINE Held(f) ==
             LET t == f.transfer
             IN /\ Custodian(transfer[t].plan.source) = transfer[t].sourceCustodian
                /\ Custodian(transfer[t].plan.destination) = transfer[t].destinationCustodian
                /\ Custodian(f.endpoint) =
                     IF f.direction = "DEBIT" THEN transfer'[t].releasedBy
                                              ELSE transfer'[t].receivedBy
           InCustodyStep == \A f \in facts' \ facts : Held(f)
<1>1. Typed /\ [Next]_vars => [InCustodyStep]_vars
  <2> SUFFICES ASSUME Typed, Next, NEW f \in facts' \ facts
               PROVE  Held(f)
    OBVIOUS
  <2>1. ASSUME NEW t \in Transfers, NEW u \in Users, Release(u, t)
        PROVE  Held(f)
    <3>1. f = Posting(t, transfer[t].plan.source, "DEBIT")
      BY <2>1 DEF Release
    <3>2. transfer'[t].releasedBy = u
      BY <2>1, ReleaseRow
    <3> QED BY <2>1, <3>1, <3>2 DEF Posting, Release, InCustody
  <2>2. ASSUME NEW t \in Transfers, NEW u \in Users, NEW n \in Counts,
               NEW arrived \in SUBSET Assets, Acknowledge(u, t, n, arrived)
        PROVE  Held(f)
    <3>1. f = Posting(t, transfer[t].plan.destination, "CREDIT")
      BY <2>2 DEF Acknowledge, Credit
    <3>2. transfer'[t].receivedBy = u
      BY <2>2, AcknowledgeRow
    <3> QED BY <2>2, <3>1, <3>2 DEF Posting, Acknowledge, InCustody
  <2>3. \/ \E t \in Transfers, u \in Users : Release(u, t)
        \/ \E t \in Transfers, u \in Users, n \in Counts, arrived \in SUBSET Assets :
             Acknowledge(u, t, n, arrived)
    BY NothingMoves DEF Next, Assign
  <2> HIDE DEF Held
  <2> QED BY <2>1, <2>2, <2>3
<1>2. Spec => [][InCustodyStep]_vars
  BY <1>1, Types, PTL DEF Spec
<1> QED BY <1>2 DEF CashMovesInCustody

-------------------------------------------------------------------------------
(* Approvals are complete.                                                 *)

\* The recorded actions: finitely many, none before the transfer exists, one of
\* a user at each step, and none for its creator where the step forbids it.
WellRecorded(t) ==
  /\ transfer[t].state = "ABSENT" => approval[t].actions = {}
  /\ IsFiniteSet(approval[t].actions)
  /\ \A a, b \in approval[t].actions : a.step = b.step /\ a.actor = b.actor => a = b
  /\ \A a \in approval[t].actions :
       "CREATOR_NOT_APPROVER" \in StepsOf(t)[a.step].rules =>
         transfer[t].creator \notin {a.actor, a.from}

NothingLeft(t) == Approved(t) => approval[t].policy # NoPolicy /\ Incomplete(t) = {}

CompleteInvariant == \A t \in Transfers : WellRecorded(t) /\ NothingLeft(t)

\* The steps of a submitted transfer.
LEMMA StepsType ==
  ASSUME TransferTypeOK, NEW t \in Transfers, approval[t].policy # NoPolicy
  PROVE  /\ DOMAIN StepsOf(t) = 1 .. Len(StepsOf(t)) /\ Len(StepsOf(t)) \in Nat
         /\ \A i \in DOMAIN StepsOf(t) : StepsOf(t)[i].required \in Nat
<1>1. approval[t].policy \in Policies
  BY DEF TransferTypeOK, Approval
<1>2. StepsOf(t) \in Seq(Step)
  BY <1>1, TransferAssumption DEF StepsOf
<1>3. \A i \in DOMAIN StepsOf(t) : StepsOf(t)[i] \in Step
  BY <1>2
<1> QED BY <1>2, <1>3 DEF Step

\* What was complete stays so where the approval and the creator stay.
LEMMA CompleteKept ==
  ASSUME NEW t \in Transfers, WellRecorded(t), NothingLeft(t),
         approval'[t] = approval[t], transfer'[t].creator = transfer[t].creator,
         transfer'[t].state = "ABSENT" => transfer[t].state = "ABSENT",
         Approved(t)' => Approved(t)
  PROVE  WellRecorded(t)' /\ NothingLeft(t)'
BY DEF WellRecorded, NothingLeft, Incomplete, Approvals, StepsOf

\* One more action, by a user who had not acted and is not barred.
LEMMA ActingRecords ==
  ASSUME Typed, NEW t \in Transfers, WellRecorded(t), NEW u, NEW i,
         NEW from, NEW permission, NEW kind,
         Acting(u, t, i, from, permission, kind),
         transfer'[t].creator = transfer[t].creator, transfer'[t].state # "ABSENT"
  PROVE  /\ WellRecorded(t)'
         /\ approval'[t].policy = approval[t].policy
         /\ approval'[t].actions = approval[t].actions \cup
              {[step |-> i, actor |-> u, from |-> from, kind |-> kind]}
<1> DEFINE a == [step |-> i, actor |-> u, from |-> from, kind |-> kind]
<1>1. /\ approval'[t].policy = approval[t].policy
      /\ approval'[t].actions = approval[t].actions \cup {a}
  BY DEF Acting, Typed, TransferTypeOK, Approval
<1>2. a.step = i /\ a.actor = u /\ a.from = from
  OBVIOUS
<1>3. StepsOf(t)' = StepsOf(t)
  BY <1>1 DEF StepsOf
<1> HIDE DEF a
<1>4. IsFiniteSet(approval'[t].actions)
  <2>1. IsFiniteSet(approval[t].actions)
    BY DEF WellRecorded
  <2>2. IsFiniteSet(approval[t].actions \cup {a})
    BY <2>1, FS_AddElement
  <2> QED BY <1>1, <2>2
<1>5. \A b \in approval[t].actions : ~(b.step = i /\ b.actor = u)
  BY DEF Acting, NotYetActed
<1>6. \A b, c \in approval'[t].actions : b.step = c.step /\ b.actor = c.actor => b = c
  BY <1>1, <1>2, <1>5 DEF WellRecorded
<1>7. "CREATOR_NOT_APPROVER" \in StepsOf(t)[i].rules => transfer[t].creator \notin {u, from}
  BY DEF Acting, Eligible
<1>8. \A b \in approval'[t].actions :
        "CREATOR_NOT_APPROVER" \in StepsOf(t)[b.step].rules =>
          transfer[t].creator \notin {b.actor, b.from}
  BY <1>1, <1>2, <1>7 DEF WellRecorded
<1>9. WellRecorded(t)'
  BY <1>3, <1>4, <1>6, <1>8 DEF WellRecorded
<1> QED BY <1>1, <1>9 DEF a

\* An approval counts at its own step, and completes the transfer only at the
\* last step, when the other steps are complete.
LEMMA ApproveCompletes ==
  ASSUME Typed, NEW t \in Transfers, WellRecorded(t), NEW u \in Users,
         NEW i \in StepNumbers(t), NEW from \in Users \cup {NoUser}, Approve(u, t, i, from)
  PROVE  WellRecorded(t)' /\ NothingLeft(t)'
<1> DEFINE a == [step |-> i, actor |-> u, from |-> from, kind |-> "APPROVED"]
           state == IF Completes(t, i) THEN "APPROVED" ELSE "REQUESTED"
<1>1. transfer'[t].state = state /\ transfer'[t].creator = transfer[t].creator
  <2>1. transfer[t] \in Row /\ state \in States
    BY DEF Typed, TransferTypeOK, States
  <2>2. transfer'[t] = Advanced(transfer[t], state)
    BY OtherRows DEF Approve, Typed
  <2> HIDE DEF state
  <2> QED BY <2>1, <2>2, AdvancedRow DEF Typed
<1>2. Acting(u, t, i, from, "transfer.approve", "APPROVED")
  BY DEF Approve, Recorded
<1>3. /\ WellRecorded(t)'
      /\ approval'[t].policy = approval[t].policy
      /\ approval'[t].actions = approval[t].actions \cup {a}
  BY <1>1, <1>2, ActingRecords
<1>4. approval[t].policy # NoPolicy /\ i \in DOMAIN StepsOf(t)
  BY DEF StepNumbers
<1>5. StepsOf(t)' = StepsOf(t)
  BY <1>3 DEF StepsOf
<1>6. a.step = i /\ a.kind = "APPROVED" /\ a \notin approval[t].actions
  BY <1>2 DEF Acting, NotYetActed
<1> HIDE DEF a
<1>7. /\ Approvals(t, i)' = Approvals(t, i) \cup {a} /\ a \notin Approvals(t, i)
      /\ \A j \in DOMAIN StepsOf(t) \ {i} : Approvals(t, j)' = Approvals(t, j)
  BY <1>3, <1>6 DEF Approvals
<1>8. IsFiniteSet(Approvals(t, i))
  BY FS_Subset DEF WellRecorded, Approvals
<1>9. ASSUME Approved(t)', NEW j \in DOMAIN StepsOf(t)
      PROVE  ~(Cardinality(Approvals(t, j)') < StepsOf(t)[j].required)
  <2>1. /\ Cardinality(Approvals(t, i)) + 1 >= StepsOf(t)[i].required
        /\ i = Len(StepsOf(t))
    BY <1>1, <1>9 DEF Completes, Approved
  <2>2. CASE j = i
    <3>1. Cardinality(Approvals(t, i)') = Cardinality(Approvals(t, i)) + 1
      <4>1. PICK A : A = Approvals(t, i)
        OBVIOUS
      <4>2. Cardinality(A \cup {a}) = Cardinality(A) + 1
        BY <1>7, <1>8, <4>1, FS_AddElement
      <4>3. Approvals(t, i)' = A \cup {a}
        BY <1>7, <4>1
      <4> QED BY <4>1, <4>2, <4>3
    <3>2. Cardinality(Approvals(t, i)) \in Nat /\ StepsOf(t)[i].required \in Nat
      BY <1>4, <1>8, FS_CardinalityType, StepsType DEF Typed
    <3> QED BY <2>1, <2>2, <3>1, <3>2
  <2>3. CASE j # i
    <3>1. j \in Nat /\ i \in Nat /\ j <= i
      BY <1>4, <2>1, StepsType DEF Typed
    <3>2. j \notin Incomplete(t)
      BY <1>2, <2>3, <3>1 DEF Acting, IsCurrentStep
    <3>3. Approvals(t, j)' = Approvals(t, j)
      BY <1>7, <2>3
    <3> QED BY <3>2, <3>3 DEF Incomplete
  <2> QED BY <2>2, <2>3
<1>10. NothingLeft(t)'
  BY <1>3, <1>4, <1>5, <1>9 DEF NothingLeft, Incomplete
<1> QED BY <1>3, <1>10

\* The commands keep the invariant.
LEMMA CommandCompletes ==
  ASSUME Typed, CompleteInvariant, NEW q \in Transfers, NEW t \in Transfers, NEW u \in Users
  PROVE  /\ \A plan \in Plans : Create(u, t, plan) => WellRecorded(q)' /\ NothingLeft(q)'
         /\ Submit(u, t) => WellRecorded(q)' /\ NothingLeft(q)'
         /\ \A i \in StepNumbers(t), from \in Users \cup {NoUser} :
              Approve(u, t, i, from) \/ Reject(u, t, i, from) =>
                WellRecorded(q)' /\ NothingLeft(q)'
         /\ Release(u, t) => WellRecorded(q)' /\ NothingLeft(q)'
         /\ \A n \in Counts, arrived \in SUBSET Assets :
              Acknowledge(u, t, n, arrived) => WellRecorded(q)' /\ NothingLeft(q)'
<1> USE DEF CompleteInvariant
<1>1. transfer[t] \in Row
  BY DEF Typed, TransferTypeOK
<1>2. ASSUME NEW state \in States, transfer' = [transfer EXCEPT ![t] = Advanced(transfer[t], state)]
      PROVE  transfer'[t].state = state /\ transfer'[t].creator = transfer[t].creator
  <2>1. transfer'[t] = Advanced(transfer[t], state)
    BY <1>2, OtherRows DEF Typed
  <2>2. /\ Advanced(transfer[t], state).state = state
        /\ Advanced(transfer[t], state).creator = transfer[t].creator
    BY <1>1, <1>2, AdvancedRow DEF Typed
  <2> QED BY <2>1, <2>2
<1>3. ASSUME q # t, transfer'[q] = transfer[q], approval'[q] = approval[q]
      PROVE  WellRecorded(q)' /\ NothingLeft(q)'
  BY <1>3, CompleteKept DEF Approved
<1>4. ASSUME NEW plan \in Plans, Create(u, t, plan)
      PROVE  WellRecorded(q)' /\ NothingLeft(q)'
  <2> DEFINE row == [AbsentRow EXCEPT !.state = "DRAFT", !.creator = u, !.plan = plan]
  <2>1. transfer' = [transfer EXCEPT ![t] = row] /\ row.state = "DRAFT"
    BY <1>4 DEF Create, AbsentRow
  <2> HIDE DEF row
  <2>2. transfer'[t].state = "DRAFT" /\ (q # t => transfer'[q] = transfer[q])
    BY <2>1, OtherRows DEF Typed
  <2>3. approval' = approval /\ approval[t].actions = {}
    BY <1>4 DEF Create, WellRecorded
  <2>4. CASE q = t
    BY <2>2, <2>3, <2>4, FS_EmptySet DEF WellRecorded, NothingLeft, Approved
  <2> QED BY <1>3, <2>2, <2>3, <2>4
<1>5. ASSUME Submit(u, t)
      PROVE  WellRecorded(q)' /\ NothingLeft(q)'
  <2> DEFINE policy == Resolve(transfer[t].plan.context, transfer[t].plan.amount)
             state == IF Steps[policy] = <<>> THEN "APPROVED" ELSE "REQUESTED"
  <2>1. /\ approval'[t].policy = policy /\ approval'[t].actions = {}
        /\ q # t => approval'[q] = approval[q]
    BY <1>5 DEF Submit, Typed, TransferTypeOK
  <2>2. transfer'[t].state = state /\ (q # t => transfer'[q] = transfer[q])
    <3>1. state \in States /\ transfer' = [transfer EXCEPT ![t] = Advanced(transfer[t], state)]
      BY <1>5 DEF Submit, States
    <3> HIDE DEF state
    <3> QED BY <1>2, <3>1, OtherRows DEF Typed
  <2>3. CASE q = t
    <3>1. WellRecorded(t)'
      BY <2>1, FS_EmptySet DEF WellRecorded
    <3>2. Approved(t)' => Steps[policy] = <<>>
      BY <2>2 DEF Approved
    <3>3. policy # NoPolicy
      BY <1>5 DEF Submit
    <3>4. NothingLeft(t)'
      <4> HIDE DEF policy
      <4> QED BY <2>1, <3>2, <3>3 DEF NothingLeft, Incomplete, StepsOf
    <3> QED BY <2>3, <3>1, <3>4
  <2> QED BY <1>3, <2>1, <2>2, <2>3
<1>6. ASSUME NEW i \in StepNumbers(t), NEW from \in Users \cup {NoUser},
             Approve(u, t, i, from) \/ Reject(u, t, i, from)
      PROVE  WellRecorded(q)' /\ NothingLeft(q)'
  <2>1. q # t => transfer'[q] = transfer[q] /\ approval'[q] = approval[q]
    BY <1>6, OtherRows DEF Approve, Reject, Acting, Typed, TransferTypeOK
  <2>2. ASSUME Approve(u, t, i, from)
        PROVE  WellRecorded(t)' /\ NothingLeft(t)'
    BY <2>2, ApproveCompletes
  <2>3. ASSUME Reject(u, t, i, from)
        PROVE  WellRecorded(t)' /\ NothingLeft(t)'
    <3>1. transfer'[t].state = "REJECTED" /\ transfer'[t].creator = transfer[t].creator
      BY <1>2, <2>3 DEF Reject, States
    <3>2. WellRecorded(t)'
      BY <2>3, <3>1, ActingRecords DEF Reject
    <3> QED BY <3>1, <3>2 DEF NothingLeft, Approved
  <2> QED BY <1>3, <1>6, <2>1, <2>2, <2>3
<1>7. ASSUME Release(u, t)
      PROVE  WellRecorded(q)' /\ NothingLeft(q)'
  <2>1. approval' = approval /\ Approved(t)
    BY <1>7 DEF Release, Approved
  <2> QED BY <1>3, <1>7, <2>1, ReleaseRow, CompleteKept
<1>8. ASSUME NEW n \in Counts, NEW arrived \in SUBSET Assets, Acknowledge(u, t, n, arrived)
      PROVE  WellRecorded(q)' /\ NothingLeft(q)'
  <2>1. approval' = approval /\ Approved(t)
    BY <1>8 DEF Acknowledge, Approved
  <2>2. transfer'[t].state # "ABSENT"
    BY <1>8, AcknowledgeRow
  <2> QED BY <1>3, <1>8, <2>1, <2>2, AcknowledgeRow, CompleteKept
<1> QED BY <1>4, <1>5, <1>6, <1>7, <1>8

\* Different users acted at a step, so its approvals count its approvers.
LEMMA NothingLeftIsComplete ==
  ASSUME Typed, NEW t \in Transfers, WellRecorded(t),
         approval[t].policy # NoPolicy, Incomplete(t) = {}, NEW i \in DOMAIN StepsOf(t)
  PROVE  Cardinality({a.actor : a \in {b \in Approvals(t, i) :
           "CREATOR_NOT_APPROVER" \in StepsOf(t)[i].rules =>
             transfer[t].creator \notin {b.actor, b.from}}}) >= StepsOf(t)[i].required
<1> DEFINE S == Approvals(t, i)
           T == {a.actor : a \in S}
           f == [a \in S |-> a.actor]
<1>1. {b \in Approvals(t, i) : "CREATOR_NOT_APPROVER" \in StepsOf(t)[i].rules =>
         transfer[t].creator \notin {b.actor, b.from}} = S
  BY DEF WellRecorded, Approvals
<1>2. IsFiniteSet(S)
  BY FS_Subset DEF WellRecorded, Approvals
<1>3. f \in [S -> T] /\ \A a, b \in S : f[a] = f[b] => a = b
  BY DEF WellRecorded, Approvals
<1>4. f \in Injection(S, T) /\ f \in Surjection(S, T)
  BY <1>3 DEF Injection, Surjection, IsInjective
<1>5. Cardinality(T) = Cardinality(S)
  <2> HIDE DEF S, T, f
  <2> QED BY <1>2, <1>4, FS_Surjection
<1>6. ~(Cardinality(S) < StepsOf(t)[i].required)
  BY DEF Incomplete
<1>7. StepsOf(t)[i].required \in Nat
  BY StepsType DEF Typed
<1>8. Cardinality(S) \in Nat
  BY <1>2, FS_CardinalityType
<1>9. Cardinality(T) >= StepsOf(t)[i].required
  <2> HIDE DEF S, T
  <2> QED BY <1>5, <1>6, <1>7, <1>8
<1> QED BY <1>1, <1>9

LEMMA CompleteAlways == Spec => []CompleteInvariant
<1>1. Init => CompleteInvariant
  <2> SUFFICES ASSUME Init, NEW t \in Transfers
               PROVE  WellRecorded(t) /\ NothingLeft(t)
    BY DEF CompleteInvariant
  <2>1. approval[t].actions = {} /\ transfer[t].state = "ABSENT"
    BY DEF Init, AbsentRow
  <2> QED BY <2>1, FS_EmptySet DEF WellRecorded, NothingLeft, Approved
<1>2. Typed /\ CompleteInvariant /\ [Next]_vars => CompleteInvariant'
  <2> SUFFICES ASSUME Typed, CompleteInvariant, [Next]_vars, NEW q \in Transfers
               PROVE  WellRecorded(q)' /\ NothingLeft(q)'
    BY DEF CompleteInvariant
  <2>1. CASE transfer' = transfer /\ approval' = approval
    BY <2>1, CompleteKept DEF CompleteInvariant, Approved
  <2>2. CASE Next
    <3>1. ASSUME NEW b \in Cashboxes, NEW u \in Keepers \cup {NoUser}, Assign(b, u)
          PROVE  transfer' = transfer /\ approval' = approval
      BY <3>1 DEF Assign
    <3> QED BY <2>1, <2>2, <3>1, CommandCompletes DEF Next
  <2> QED BY <2>1, <2>2 DEF vars
<1> QED BY <1>1, <1>2, Types, PTL DEF Spec

\* What is approved was approved at every step by the required number of
\* different users, none of them or of those they acted for the creator where
\* the step forbids it, however the commands of the users interleave.
THEOREM TransfersApprovedComplete == Spec => []ApprovedIsComplete
<1>1. Typed /\ CompleteInvariant => ApprovedIsComplete
  BY NothingLeftIsComplete DEF CompleteInvariant, NothingLeft, ApprovedIsComplete
<1> QED BY <1>1, Types, CompleteAlways, PTL

-------------------------------------------------------------------------------
(* Sums of facts.                                                          *)

\* Facts sum to a natural, and a new one adds its amount.
LEMMA SumOfFacts ==
  ASSUME NEW S \in SUBSET Fact, IsFiniteSet(S)
  PROVE  /\ SumOf(S) \in Nat
         /\ \A g \in Fact \ S : SumOf(S \cup {g}) = SumOf(S) + g.amount
<1>1. \A f \in S : [h \in S |-> h.amount][f] \in Nat
  BY DEF Fact
<1>2. SumOf(S) \in Nat
  BY <1>1, SumType DEF SumOf
<1>3. ASSUME NEW g \in Fact \ S
      PROVE  SumOf(S \cup {g}) = SumOf(S) + g.amount
  <2> DEFINE all == [h \in S \cup {g} |-> h.amount]
             old == [h \in S |-> h.amount]
  <2>1. \A f \in S \cup {g} : all[f] \in Nat
    BY DEF Fact
  <2>2. all[g] = g.amount /\ \A f \in S : all[f] = old[f]
    OBVIOUS
  <2> HIDE DEF all, old
  <2>3. Sum(S \cup {g}, all) = Sum(S, all) + all[g]
    BY <2>1, SumAdd
  <2>4. Sum(S, all) = Sum(S, old)
    BY <2>2, SumSame
  <2> QED BY <2>2, <2>3, <2>4 DEF SumOf, all, old
<1> QED BY <1>2, <1>3

Finite == IsFiniteSet(facts)

\* What is moved at an endpoint is a natural, before and after one more fact.
LEMMA MovesAfter ==
  ASSUME Typed, Finite, NEW g \in Fact \ facts, facts' = facts \cup {g},
         NEW e, NEW direction
  PROVE  /\ Moves(e, direction) \in Nat
         /\ Moves(e, direction)' = Moves(e, direction)
              + IF g.endpoint = e /\ g.direction = direction THEN g.amount ELSE 0
<1> DEFINE old == {f \in facts : f.endpoint = e /\ f.direction = direction}
           new == {f \in facts' : f.endpoint = e /\ f.direction = direction}
<1>1. old \in SUBSET Fact /\ IsFiniteSet(old) /\ g \notin old
  BY FS_Subset DEF Typed, TransferTypeOK, Finite
<1>2. SumOf(old) \in Nat
  BY <1>1, SumOfFacts
<1>3. CASE g.endpoint = e /\ g.direction = direction
  <2>1. new = old \cup {g}
    BY <1>3
  <2>2. SumOf(new) = SumOf(old) + g.amount
    <3> HIDE DEF old, new
    <3> QED BY <1>1, <2>1, SumOfFacts
  <2> QED BY <1>2, <1>3, <2>2 DEF Moves
<1>4. CASE ~(g.endpoint = e /\ g.direction = direction)
  <2>1. new = old
    BY <1>4
  <2>2. SumOf(new) = SumOf(old)
    BY <2>1
  <2> QED BY <1>2, <1>4, <2>2 DEF Moves
<1> QED BY <1>3, <1>4

\* So is what is moved at all.
LEMMA PostedAfter ==
  ASSUME Typed, Finite, NEW g \in Fact \ facts, facts' = facts \cup {g}, NEW direction
  PROVE  /\ Posted(direction) \in Nat
         /\ Posted(direction)' = Posted(direction)
              + IF g.direction = direction THEN g.amount ELSE 0
<1> DEFINE old == {f \in facts : f.direction = direction}
           new == {f \in facts' : f.direction = direction}
<1>1. old \in SUBSET Fact /\ IsFiniteSet(old) /\ g \notin old
  BY FS_Subset DEF Typed, TransferTypeOK, Finite
<1>2. SumOf(old) \in Nat
  BY <1>1, SumOfFacts
<1>3. CASE g.direction = direction
  <2>1. new = old \cup {g}
    BY <1>3
  <2>2. SumOf(new) = SumOf(old) + g.amount
    <3> HIDE DEF old, new
    <3> QED BY <1>1, <2>1, SumOfFacts
  <2> QED BY <1>2, <1>3, <2>2 DEF Posted
<1>4. CASE g.direction # direction
  <2>1. new = old
    BY <1>4
  <2>2. SumOf(new) = SumOf(old)
    BY <2>1
  <2> QED BY <1>2, <1>4, <2>2 DEF Posted
<1> QED BY <1>3, <1>4

\* The position of an endpoint after one more fact.
LEMMA PositionAfter ==
  ASSUME Typed, Finite, NEW g \in Fact \ facts, facts' = facts \cup {g},
         NEW e \in Endpoints
  PROVE  /\ Position(e) \in Int
         /\ Position(e)' = IF g.endpoint # e THEN Position(e)
                           ELSE IF g.direction = "DEBIT" THEN Position(e) - g.amount
                           ELSE Position(e) + g.amount
<1>1. Opening[e] \in Int
  BY TransferAssumption
<1>2. /\ Moves(e, "CREDIT") \in Nat /\ Moves(e, "DEBIT") \in Nat
      /\ Moves(e, "CREDIT")' = Moves(e, "CREDIT")
           + IF g.endpoint = e /\ g.direction = "CREDIT" THEN g.amount ELSE 0
      /\ Moves(e, "DEBIT")' = Moves(e, "DEBIT")
           + IF g.endpoint = e /\ g.direction = "DEBIT" THEN g.amount ELSE 0
  BY MovesAfter
<1>3. g.amount \in Nat /\ g.direction \in {"DEBIT", "CREDIT"}
  BY DEF Fact
<1>4. /\ Position(e) = Opening[e] + Moves(e, "CREDIT") - Moves(e, "DEBIT")
      /\ Position(e)' = Opening[e] + Moves(e, "CREDIT")' - Moves(e, "DEBIT")'
  BY DEF Position
<1> QED BY <1>1, <1>2, <1>3, <1>4

-------------------------------------------------------------------------------
(* The facts a step adds.                                                  *)

Added(g) == g \in Fact \ facts /\ facts' = facts \cup {g}

\* A step adds no fact, or that of a release or of an exact acknowledgement.
LEMMA StepFacts ==
  ASSUME Typed, [Next]_vars
  PROVE  \/ facts' = facts
         \/ \E t \in Transfers, u \in Users :
              Release(u, t) /\ Added(Posting(t, transfer[t].plan.source, "DEBIT"))
         \/ \E t \in Transfers, u \in Users, n \in Counts, arrived \in SUBSET Assets :
              /\ Acknowledge(u, t, n, arrived) /\ Exact(t, n, arrived)
              /\ Added(Posting(t, transfer[t].plan.destination, "CREDIT"))
<1>1. ASSUME NEW t \in Transfers, NEW u \in Users, Release(u, t), facts' # facts
      PROVE  Added(Posting(t, transfer[t].plan.source, "DEBIT"))
  <2>1. transfer[t].plan \in Plans
    BY <1>1 DEF Typed, Planned, Release
  <2> QED BY <1>1, <2>1, PostingType DEF Release, Added
<1>2. ASSUME NEW t \in Transfers, NEW u \in Users, NEW n \in Counts,
             NEW arrived \in SUBSET Assets, Acknowledge(u, t, n, arrived), facts' # facts
      PROVE  Exact(t, n, arrived) /\ Added(Posting(t, transfer[t].plan.destination, "CREDIT"))
  <2>1. transfer[t].plan \in Plans
    BY <1>2 DEF Typed, Planned, Acknowledge
  <2>2. Exact(t, n, arrived)
    BY <1>2 DEF Acknowledge, Credit
  <2> QED BY <1>2, <2>1, <2>2, PostingType DEF Acknowledge, Credit, Added
<1>3. CASE UNCHANGED vars
  BY <1>3 DEF vars
<1>4. CASE Next
  <2>1. \/ facts' = facts
        \/ \E t \in Transfers, u \in Users : Release(u, t)
        \/ \E t \in Transfers, u \in Users, n \in Counts, arrived \in SUBSET Assets :
             Acknowledge(u, t, n, arrived)
    BY <1>4, NothingMoves DEF Next, Assign
  <2> QED BY <1>1, <1>2, <2>1
<1> QED BY <1>3, <1>4

\* The facts stay finitely many.
LEMMA FinitelyMany == Spec => []Finite
<1>1. Init => Finite
  BY FS_EmptySet DEF Init, Finite
<1>2. Typed /\ Finite /\ [Next]_vars => Finite'
  <2>1. ASSUME Finite, NEW g, Added(g)
        PROVE  Finite'
    BY <2>1, FS_AddElement DEF Added, Finite
  <2> QED BY <2>1, StepFacts DEF Finite
<1> QED BY <1>1, <1>2, Types, PTL DEF Spec

\* No release takes an endpoint below what it must keep and what payments have
\* reserved, however many transfers draw on it.
THEOREM FloorsHold == Spec => []FloorHolds
<1>1. Init => FloorHolds
  <2> SUFFICES ASSUME Init, NEW e \in Endpoints,
                      Opening[e] - Withheld[e] >= Floor[e]
               PROVE  Unreserved(e) >= Floor[e]
    BY DEF FloorHolds
  <2>1. \A direction : {f \in facts : f.endpoint = e /\ f.direction = direction} = {}
    BY DEF Init
  <2>2. Moves(e, "CREDIT") = 0 /\ Moves(e, "DEBIT") = 0
    BY <2>1, SumEmpty DEF Moves, SumOf
  <2>3. Opening[e] \in Int
    BY TransferAssumption
  <2> QED BY <2>2, <2>3 DEF Unreserved, Position
<1>2. Typed /\ Finite /\ FloorHolds /\ [Next]_vars => FloorHolds'
  <2> SUFFICES ASSUME Typed, Finite, FloorHolds, [Next]_vars, NEW e \in Endpoints,
                      Opening[e] - Withheld[e] >= Floor[e]
               PROVE  Unreserved(e)' >= Floor[e]
    BY DEF FloorHolds
  <2>1. Unreserved(e) >= Floor[e]
    BY DEF FloorHolds
  <2>2. Floor[e] \in Int /\ Withheld[e] \in Nat
    BY TransferAssumption
  <2>3. CASE facts' = facts
    BY <2>1, <2>3 DEF Unreserved, Position, Moves
  <2>4. ASSUME NEW t \in Transfers, NEW u \in Users, Release(u, t),
               Added(Posting(t, transfer[t].plan.source, "DEBIT"))
        PROVE  Unreserved(e)' >= Floor[e]
    <3> DEFINE g == Posting(t, transfer[t].plan.source, "DEBIT")
    <3>1. g.endpoint = transfer[t].plan.source /\ g.direction = "DEBIT"
          /\ g.amount = transfer[t].plan.amount
      BY DEF Posting
    <3>2. g \in Fact \ facts /\ facts' = facts \cup {g} /\ g.amount \in Nat
      BY <2>4 DEF Added, Fact
    <3> HIDE DEF g
    <3>3. Position(e) \in Int
          /\ Position(e)' = IF g.endpoint # e THEN Position(e) ELSE Position(e) - g.amount
      BY <3>1, <3>2, PositionAfter
    <3>4. Unreserved(e) = Position(e) - Withheld[e] /\ Unreserved(e)' = Position(e)' - Withheld[e]
      BY DEF Unreserved
    <3>5. CASE g.endpoint # e
      BY <2>1, <3>3, <3>4, <3>5
    <3>6. CASE g.endpoint = e
      <4>1. Unreserved(e) - g.amount >= Floor[e]
        BY <2>4, <3>1, <3>6 DEF Release, SourceAvailable
      <4> QED BY <2>2, <3>2, <3>3, <3>4, <3>6, <4>1
    <3> QED BY <3>5, <3>6
  <2>5. ASSUME NEW t \in Transfers, Added(Posting(t, transfer[t].plan.destination, "CREDIT"))
        PROVE  Unreserved(e)' >= Floor[e]
    <3> DEFINE g == Posting(t, transfer[t].plan.destination, "CREDIT")
    <3>1. g.direction = "CREDIT"
      BY DEF Posting
    <3>2. g \in Fact \ facts /\ facts' = facts \cup {g} /\ g.amount \in Nat
      BY <2>5 DEF Added, Fact
    <3> HIDE DEF g
    <3>3. Position(e) \in Int
          /\ Position(e)' = IF g.endpoint # e THEN Position(e) ELSE Position(e) + g.amount
      BY <3>1, <3>2, PositionAfter
    <3>4. Unreserved(e) = Position(e) - Withheld[e] /\ Unreserved(e)' = Position(e)' - Withheld[e]
      BY DEF Unreserved
    <3> QED BY <2>1, <2>2, <3>2, <3>3, <3>4
  <2> QED BY <2>3, <2>4, <2>5, StepFacts
<1> QED BY <1>1, <1>2, Types, FinitelyMany, PTL DEF Spec

-------------------------------------------------------------------------------
(* Conservation.                                                           *)

Moving == {"IN_TRANSIT", "DISCREPANCY", "COMPLETED"}

\* The obligation follows the state of the transfer.
ObligationFollows(t) ==
  /\ transfer[t].state \notin Moving => transit[t].state = "NONE"
  /\ transfer[t].state = "IN_TRANSIT" => transit[t].state = "OPEN"
  /\ transfer[t].state = "DISCREPANCY" => transit[t].state = "DISCREPANCY"
  /\ transfer[t].state = "COMPLETED" => transit[t].state = "CLOSED"

\* A fact belongs to a transfer that was released; a credit to one closed.
FactFollows(f) ==
  /\ transit[f.transfer].state # "NONE"
  /\ f.direction = "CREDIT" => transit[f.transfer].state = "CLOSED"

Owed == {t \in Transfers : transit[t].state \in {"OPEN", "DISCREPANCY"}}

OwedSum == Sum(Owed, [t \in Owed |-> transfer[t].plan.amount])

Conserved ==
  /\ \A t \in Transfers : ObligationFollows(t)
  /\ \A f \in facts : FactFollows(f)
  /\ Posted("DEBIT") - Posted("CREDIT") = OwedSum

\* The commands before the release touch no row of a moving transfer, and make
\* none move.
LEMMA BeforeRelease ==
  ASSUME Typed, NEW t \in Transfers, NEW u \in Users, NEW i, NEW from, NEW plan,
         Create(u, t, plan) \/ Submit(u, t) \/ Approve(u, t, i, from) \/ Reject(u, t, i, from)
  PROVE  /\ transfer[t].state \notin Moving /\ transfer'[t].state \notin Moving
         /\ \A q \in Transfers \ {t} : transfer'[q] = transfer[q]
<1>1. transfer[t] \in Row
  BY DEF Typed, TransferTypeOK
<1>2. CASE Create(u, t, plan)
  <2> DEFINE row == [AbsentRow EXCEPT !.state = "DRAFT", !.creator = u, !.plan = plan]
  <2>1. row.state = "DRAFT"
    BY DEF AbsentRow
  <2>2. transfer' = [transfer EXCEPT ![t] = row] /\ transfer[t].state = "ABSENT"
    BY <1>2 DEF Create
  <2> HIDE DEF row
  <2> QED BY <2>1, <2>2, OtherRows DEF Typed, Moving
<1>3. ASSUME NEW state \in {"REQUESTED", "APPROVED", "REJECTED"},
             transfer' = [transfer EXCEPT ![t] = Advanced(transfer[t], state)]
      PROVE  /\ transfer'[t].state \notin Moving
             /\ \A q \in Transfers \ {t} : transfer'[q] = transfer[q]
  <2>1. Advanced(transfer[t], state).state = state
    BY <1>1, AdvancedRow DEF Typed, States
  <2> QED BY <1>3, <2>1, OtherRows DEF Typed, Moving
<1>4. CASE Submit(u, t)
  BY <1>3, <1>4 DEF Submit, Moving
<1>5. CASE Approve(u, t, i, from)
  BY <1>3, <1>5 DEF Approve, Acting, Moving
<1>6. CASE Reject(u, t, i, from)
  BY <1>3, <1>6 DEF Reject, Acting, Moving
<1> QED BY <1>2, <1>4, <1>5, <1>6

\* Amounts of owed transfers, naturals over a finite set.
LEMMA OwedAmounts ==
  ASSUME Typed, \A t \in Transfers : ObligationFollows(t)
  PROVE  /\ IsFiniteSet(Owed)
         /\ \A t \in Owed : transfer[t].plan.amount \in Nat
<1>1. IsFiniteSet(Owed)
  BY TransferAssumption, FS_Subset DEF Owed
<1>2. ASSUME NEW t \in Owed
      PROVE  transfer[t].plan \in Plans
  BY <1>2 DEF Owed, ObligationFollows, Moving, Typed, Planned
<1> QED BY <1>1, <1>2, TransferAssumption DEF Plan

\* Where rows of owed transfers keep their plans, their sum stays.
LEMMA OwedSumKept ==
  ASSUME Owed' = Owed, \A t \in Owed : transfer'[t].plan = transfer[t].plan
  PROVE  OwedSum' = OwedSum
<1>1. Sum(Owed, [t \in Owed |-> transfer'[t].plan.amount])
        = Sum(Owed, [t \in Owed |-> transfer[t].plan.amount])
  BY SumSame
<1> QED BY <1>1 DEF OwedSum

\* The commands before the release conserve.
LEMMA BeforeReleaseConserves ==
  ASSUME Typed, Conserved, NEW t \in Transfers, NEW u \in Users, NEW i, NEW from, NEW plan,
         Create(u, t, plan) \/ Submit(u, t) \/ Approve(u, t, i, from) \/ Reject(u, t, i, from)
  PROVE  Conserved'
<1>1. facts' = facts /\ transit' = transit
  BY NothingMoves
<1>2. /\ transfer[t].state \notin Moving /\ transfer'[t].state \notin Moving
      /\ \A q \in Transfers \ {t} : transfer'[q] = transfer[q]
  BY BeforeRelease
<1>3. \A q \in Transfers : ObligationFollows(q)'
  BY <1>1, <1>2 DEF Conserved, ObligationFollows, Moving
<1>4. t \notin Owed
  BY <1>2 DEF Conserved, ObligationFollows, Owed
<1>5. Owed' = Owed /\ \A q \in Owed : transfer'[q].plan = transfer[q].plan
  BY <1>1, <1>2, <1>4 DEF Owed
<1>6. OwedSum' = OwedSum
  BY <1>5, OwedSumKept
<1> QED BY <1>1, <1>3, <1>6 DEF Conserved, FactFollows, Posted

\* A release makes its transfer owed in full.
LEMMA ReleaseConserves ==
  ASSUME Typed, Finite, Conserved, NEW t \in Transfers, NEW u \in Users, Release(u, t)
  PROVE  Conserved'
<1> DEFINE g == Posting(t, transfer[t].plan.source, "DEBIT")
           n == transfer[t].plan.amount
<1>1. transit[t].state = "NONE"
  BY DEF Release, Conserved, ObligationFollows, Moving
<1>2. /\ transit'[t].state = "OPEN"
      /\ \A q \in Transfers \ {t} : transit'[q] = transit[q]
  BY DEF Release, Typed, TransferTypeOK, Obligation
<1>3. transfer[t].plan \in Plans
  BY DEF Release, Typed, Planned
<1>4. g \in Fact /\ g.transfer = t /\ g.direction = "DEBIT" /\ g.amount = n /\ n \in Nat
  BY <1>3, PostingType DEF Posting, Fact
<1>5. g \notin facts
  BY <1>1, <1>4 DEF Conserved, FactFollows
<1>6. facts' = facts \cup {g}
  BY DEF Release
<1> HIDE DEF g
<1>7. \A q \in Transfers : ObligationFollows(q)'
  BY <1>2, ReleaseRow DEF Conserved, ObligationFollows, Moving
<1>8. \A f \in facts' : FactFollows(f)'
  <2>1. ASSUME NEW f, f = g
        PROVE  FactFollows(f)'
    BY <2>1, <1>2, <1>4 DEF FactFollows
  <2>2. ASSUME NEW f \in facts
        PROVE  FactFollows(f)'
    <3>1. f.transfer \in Transfers \ {t}
      BY <1>1 DEF Typed, TransferTypeOK, Fact, Conserved, FactFollows
    <3> QED BY <1>2, <3>1 DEF Conserved, FactFollows
  <2> QED BY <1>6, <2>1, <2>2
<1>9. /\ Posted("DEBIT") \in Nat /\ Posted("CREDIT") \in Nat
      /\ Posted("DEBIT")' = Posted("DEBIT") + n /\ Posted("CREDIT")' = Posted("CREDIT")
  BY <1>4, <1>5, <1>6, PostedAfter
<1>10. OwedSum \in Nat /\ OwedSum' = OwedSum + n
  <2> DEFINE amount == [q \in Owed' |-> transfer'[q].plan.amount]
             before == [q \in Owed |-> transfer[q].plan.amount]
  <2>1. t \notin Owed /\ Owed' = Owed \cup {t}
    BY <1>1, <1>2 DEF Owed
  <2>2. \A q \in Owed : amount[q] = before[q] /\ before[q] \in Nat
    BY <2>1, ReleaseRow, OwedAmounts DEF Conserved, Owed
  <2>3. amount[t] = n
    BY <2>1, ReleaseRow
  <2>4. IsFiniteSet(Owed)
    BY OwedAmounts DEF Conserved
  <2>5. OwedSum' = Sum(Owed', amount) /\ OwedSum = Sum(Owed, before)
    BY DEF OwedSum
  <2> HIDE DEF amount, before, n
  <2>6. Sum(Owed \cup {t}, amount) = Sum(Owed, amount) + n
    BY <1>4, <2>1, <2>2, <2>3, <2>4, SumAdd
  <2>7. Sum(Owed, amount) = Sum(Owed, before) /\ Sum(Owed, before) \in Nat
    BY <2>2, <2>4, SumSame, SumType
  <2> QED BY <2>1, <2>5, <2>6, <2>7
<1>11. Posted("DEBIT") - Posted("CREDIT") = OwedSum
  BY DEF Conserved
<1>12. (Posted("DEBIT") - Posted("CREDIT") = OwedSum)'
  <2> HIDE DEF n
  <2> QED BY <1>4, <1>9, <1>10, <1>11
<1> QED BY <1>7, <1>8, <1>12 DEF Conserved

\* An acknowledgement pays what is owed in full, or leaves it owed in full.
LEMMA AcknowledgeConserves ==
  ASSUME Typed, Finite, Conserved, NEW t \in Transfers, NEW u \in Users, NEW c \in Counts,
         NEW arrived \in SUBSET Assets, Acknowledge(u, t, c, arrived)
  PROVE  Conserved'
<1> DEFINE g == Posting(t, transfer[t].plan.destination, "CREDIT")
           n == transfer[t].plan.amount
<1>1. transit[t].state = "OPEN"
  BY DEF Acknowledge, Conserved, ObligationFollows
<1>2. /\ transit'[t].state = IF Exact(t, c, arrived) THEN "CLOSED" ELSE "DISCREPANCY"
      /\ \A q \in Transfers \ {t} : transit'[q] = transit[q]
  BY DEF Acknowledge, Typed, TransferTypeOK, Obligation
<1>3. transfer[t].plan \in Plans
  BY DEF Acknowledge, Typed, Planned
<1>4. g \in Fact /\ g.transfer = t /\ g.direction = "CREDIT" /\ g.amount = n /\ n \in Nat
  BY <1>3, PostingType DEF Posting, Fact
<1>5. g \notin facts
  BY <1>1, <1>4 DEF Conserved, FactFollows
<1>6. facts' = IF Exact(t, c, arrived) THEN facts \cup {g} ELSE facts
  BY DEF Acknowledge, Credit
<1> HIDE DEF g
<1>7. \A q \in Transfers : ObligationFollows(q)'
  BY <1>2, AcknowledgeRow DEF Conserved, ObligationFollows, Moving
<1>8. \A f \in facts' : FactFollows(f)'
  <2>1. ASSUME NEW f, f = g, Exact(t, c, arrived)
        PROVE  FactFollows(f)'
    BY <2>1, <1>2, <1>4 DEF FactFollows
  <2>2. ASSUME NEW f \in facts
        PROVE  FactFollows(f)'
    <3>1. f.transfer \in Transfers /\ FactFollows(f)
      BY DEF Typed, TransferTypeOK, Fact, Conserved
    <3>2. CASE f.transfer = t
      BY <1>1, <1>2, <3>1, <3>2 DEF FactFollows
    <3>3. CASE f.transfer # t
      BY <1>2, <3>1, <3>3 DEF FactFollows
    <3> QED BY <3>2, <3>3
  <2> QED BY <1>6, <2>1, <2>2
<1>9. Posted("DEBIT") - Posted("CREDIT") = OwedSum
  BY DEF Conserved
<1>10. CASE Exact(t, c, arrived)
  <2>1. /\ Posted("DEBIT") \in Nat /\ Posted("CREDIT") \in Nat
        /\ Posted("DEBIT")' = Posted("DEBIT") /\ Posted("CREDIT")' = Posted("CREDIT") + n
    BY <1>4, <1>5, <1>6, <1>10, PostedAfter
  <2>2. OwedSum' \in Nat /\ OwedSum = OwedSum' + n
    <3> DEFINE amount == [q \in Owed' |-> transfer'[q].plan.amount]
               before == [q \in Owed |-> transfer[q].plan.amount]
    <3>1. t \notin Owed' /\ Owed = Owed' \cup {t}
      BY <1>1, <1>2, <1>10 DEF Owed
    <3>2. \A q \in Owed' : amount[q] = before[q] /\ before[q] \in Nat
      BY <3>1, AcknowledgeRow, OwedAmounts DEF Conserved, Owed
    <3>3. before[t] = n
      BY <3>1
    <3>4. IsFiniteSet(Owed')
      BY <3>1, OwedAmounts, FS_Subset DEF Conserved
    <3>5. OwedSum' = Sum(Owed', amount) /\ OwedSum = Sum(Owed, before)
      BY DEF OwedSum
    <3> HIDE DEF amount, before, n
    <3>6. Sum(Owed' \cup {t}, before) = Sum(Owed', before) + n
      BY <1>4, <3>1, <3>2, <3>3, <3>4, SumAdd
    <3>7. Sum(Owed', amount) = Sum(Owed', before) /\ Sum(Owed', before) \in Nat
      BY <3>2, <3>4, SumSame, SumType
    <3> QED BY <3>1, <3>5, <3>6, <3>7
  <2>3. (Posted("DEBIT") - Posted("CREDIT") = OwedSum)'
    <3> HIDE DEF n
    <3> QED BY <1>4, <1>9, <2>1, <2>2
  <2> QED BY <1>7, <1>8, <2>3 DEF Conserved
<1>11. CASE ~Exact(t, c, arrived)
  <2>1. Owed' = Owed /\ \A q \in Owed : transfer'[q].plan = transfer[q].plan
    BY <1>1, <1>2, <1>11, AcknowledgeRow DEF Owed
  <2>2. OwedSum' = OwedSum
    BY <2>1, OwedSumKept
  <2>3. facts' = facts
    BY <1>6, <1>11
  <2> QED BY <1>7, <1>8, <1>9, <2>2, <2>3 DEF Conserved, Posted
<1> QED BY <1>10, <1>11

LEMMA ConservedAlways == Spec => []Conserved
<1>1. Init => Conserved
  <2> SUFFICES ASSUME Init PROVE Conserved
    OBVIOUS
  <2>1. \A t \in Transfers : ObligationFollows(t)
    BY DEF Init, AbsentRow, ObligationFollows, Moving
  <2>2. Owed = {} /\ facts = {}
    BY DEF Init, Owed
  <2>3. OwedSum = 0
    BY <2>2, SumEmpty DEF OwedSum
  <2>4. Posted("DEBIT") = 0 /\ Posted("CREDIT") = 0
    <3>1. \A direction : {f \in facts : f.direction = direction} = {}
      BY <2>2
    <3> QED BY <3>1, SumEmpty DEF Posted, SumOf
  <2> QED BY <2>1, <2>2, <2>3, <2>4 DEF Conserved
<1>2. Typed /\ Finite /\ Conserved /\ [Next]_vars => Conserved'
  <2> SUFFICES ASSUME Typed, Finite, Conserved, [Next]_vars PROVE Conserved'
    OBVIOUS
  <2>1. ASSUME UNCHANGED <<transfer, transit, facts>>
        PROVE  Conserved'
    BY <2>1 DEF Conserved, ObligationFollows, FactFollows, Posted, OwedSum, Owed
  <2>2. CASE Next
    <3>1. ASSUME NEW b \in Cashboxes, NEW u \in Keepers \cup {NoUser}, Assign(b, u)
          PROVE  Conserved'
      BY <2>1, <3>1 DEF Assign
    <3> QED BY <2>2, <3>1, BeforeReleaseConserves, ReleaseConserves, AcknowledgeConserves
         DEF Next
  <2>3. CASE UNCHANGED vars
    BY <2>1, <2>3 DEF vars
  <2> QED BY <2>2, <2>3
<1> QED BY <1>1, <1>2, Types, FinitelyMany, PTL DEF Spec

\* Money neither appears nor vanishes: what has left the endpoints and arrived
\* nowhere is owed in full.
THEOREM MoneyIsConserved == Spec => []MoneyConserved
<1>1. Conserved => MoneyConserved
  BY DEF Conserved, MoneyConserved, OwedSum, Owed
<1> QED BY <1>1, ConservedAlways, PTL

-------------------------------------------------------------------------------
(* What is completed is whole.                                             *)

\* Only listed assets move; a completed transfer has received all of them and
\* the amount, a disputed one lacks some of either.
Whole(t) ==
  LET plan == transfer[t].plan
      released == {a \in Assets : asset[t][a] = "RELEASED"}
  IN /\ transfer[t].state # "ABSENT" =>
          \A a \in Assets : a \notin plan.assets => asset[t][a] = "NONE"
     /\ transfer[t].state = "COMPLETED" =>
          released = {} /\ transit[t].received = plan.amount
     /\ transfer[t].state = "DISCREPANCY" =>
          released # {} \/ transit[t].received # plan.amount

\* A step that leaves the list and the obligation of a transfer leaves this, if
\* its row keeps the plan and moves neither into nor between the final states.
LEMMA WholeKept ==
  ASSUME NEW t \in Transfers, Whole(t), transfer[t].state # "ABSENT",
         asset'[t] = asset[t], transit'[t] = transit[t],
         transfer'[t].plan = transfer[t].plan,
         transfer'[t].state \in {"COMPLETED", "DISCREPANCY"} =>
           transfer'[t].state = transfer[t].state
  PROVE  Whole(t)'
BY DEF Whole

\* Rows that stay with their lists and obligations keep it.
LEMMA WholeUnmoved ==
  ASSUME NEW t \in Transfers, Whole(t), transfer'[t] = transfer[t],
         asset'[t] = asset[t], transit'[t] = transit[t]
  PROVE  Whole(t)'
BY DEF Whole

\* Creation lists exactly the assets of the plan.
LEMMA CreateWhole ==
  ASSUME Typed, NEW t \in Transfers, NEW u \in Users, NEW plan \in Plans, Create(u, t, plan)
  PROVE  Whole(t)'
<1> DEFINE row == [AbsentRow EXCEPT !.state = "DRAFT", !.creator = u, !.plan = plan]
<1>1. row.state = "DRAFT" /\ row.plan = plan
  BY DEF AbsentRow
<1>2. transfer' = [transfer EXCEPT ![t] = row]
  BY DEF Create
<1> HIDE DEF row
<1>3. transfer'[t] = row
  BY <1>2, OtherRows DEF Typed
<1>4. \A a \in Assets : asset'[t][a] = IF a \in plan.assets THEN "PLANNED" ELSE "NONE"
  BY DEF Create, Typed, TransferTypeOK
<1> QED BY <1>1, <1>3, <1>4 DEF Whole

\* A release moves what is planned on its list.
LEMMA ReleaseWhole ==
  ASSUME Typed, NEW t \in Transfers, Whole(t), NEW u \in Users, Release(u, t)
  PROVE  Whole(t)'
<1>1. transfer[t].state # "ABSENT"
  BY DEF Release
<1>2. \A a \in Assets : asset'[t][a] = IF asset[t][a] = "PLANNED" THEN "RELEASED" ELSE asset[t][a]
  BY DEF Release, Typed, TransferTypeOK
<1> QED BY <1>1, <1>2, ReleaseRow DEF Whole

\* An acknowledgement is exact when the amount and all assets arrived; what did
\* not arrive stays released.
LEMMA AcknowledgeWhole ==
  ASSUME Typed, NEW t \in Transfers, Whole(t), NEW u \in Users, NEW n \in Counts,
         NEW arrived \in SUBSET Assets, Acknowledge(u, t, n, arrived)
  PROVE  Whole(t)'
<1> DEFINE plan == transfer[t].plan
<1>1. /\ transfer[t].state # "ABSENT" /\ arrived \subseteq plan.assets
      /\ \A a \in plan.assets : asset[t][a] = "RELEASED"
  BY DEF Acknowledge
<1>2. /\ transfer'[t].state = IF Exact(t, n, arrived) THEN "COMPLETED" ELSE "DISCREPANCY"
      /\ transfer'[t].plan = plan
  BY AcknowledgeRow
<1>3. /\ \A a \in Assets : asset'[t][a] = IF a \in arrived THEN "RECEIVED" ELSE asset[t][a]
      /\ transit'[t].received = n
  BY DEF Acknowledge, Typed, TransferTypeOK
<1>4. \A a \in Assets : a \notin plan.assets => asset[t][a] = "NONE"
  BY <1>1 DEF Whole
<1>5. plan.assets \subseteq Assets
  <2>1. plan \in Plans
    BY <1>1 DEF Typed, Planned
  <2> QED BY <2>1, TransferAssumption DEF Plan
<1>6. CASE Exact(t, n, arrived)
  <2>1. n = plan.amount /\ arrived = plan.assets
    BY <1>6 DEF Exact
  <2>2. \A a \in Assets : asset'[t][a] # "RELEASED"
    BY <1>3, <1>4, <2>1
  <2> QED BY <1>1, <1>2, <1>3, <1>4, <1>6, <2>1, <2>2 DEF Whole
<1>7. CASE ~Exact(t, n, arrived)
  <2>1. n # plan.amount \/ \E a \in plan.assets : a \notin arrived
    BY <1>1, <1>7 DEF Exact
  <2>2. n # plan.amount \/ \E a \in Assets : asset'[t][a] = "RELEASED"
    BY <1>1, <1>3, <1>5, <2>1
  <2> QED BY <1>1, <1>2, <1>3, <1>4, <1>7, <2>2 DEF Whole
<1> QED BY <1>6, <1>7

\* Submission and the actions of approvers keep the plan of an existing transfer.
LEMMA PlanKept ==
  ASSUME Typed, NEW t \in Transfers, NEW u \in Users, NEW i, NEW from,
         Submit(u, t) \/ Approve(u, t, i, from) \/ Reject(u, t, i, from)
  PROVE  /\ transfer[t].state # "ABSENT"
         /\ transfer'[t].plan = transfer[t].plan
         /\ asset' = asset
<1>1. transfer[t] \in Row
  BY DEF Typed, TransferTypeOK
<1>2. ASSUME NEW state \in States, transfer' = [transfer EXCEPT ![t] = Advanced(transfer[t], state)]
      PROVE  transfer'[t].plan = transfer[t].plan
  <2>1. transfer'[t] = Advanced(transfer[t], state)
    BY <1>2, OtherRows DEF Typed
  <2> QED BY <1>1, <2>1, AdvancedRow DEF Typed
<1>3. CASE Submit(u, t)
  BY <1>2, <1>3 DEF Submit, States
<1>4. CASE Approve(u, t, i, from)
  BY <1>2, <1>4 DEF Approve, Acting, States
<1>5. CASE Reject(u, t, i, from)
  BY <1>2, <1>5 DEF Reject, Acting, States
<1> QED BY <1>3, <1>4, <1>5

\* A completed transfer delivered all of its money and assets; a disputed one
\* lacks something that stays on the list as released.
THEOREM CompletedAreWhole == Spec => []CompletedIsWhole
<1> DEFINE Inv == \A t \in Transfers : Whole(t)
<1>1. Init => Inv
  BY DEF Init, AbsentRow, Whole
<1>2. Typed /\ Inv /\ [Next]_vars => Inv'
  <2> SUFFICES ASSUME Typed, Inv, [Next]_vars, NEW q \in Transfers
               PROVE  Whole(q)'
    OBVIOUS
  <2>1. ASSUME NEW t \in Transfers, NEW u \in Users, NEW plan \in Plans, Create(u, t, plan)
        PROVE  Whole(q)'
    <3>1. q # t => transfer'[q] = transfer[q] /\ asset'[q] = asset[q] /\ transit'[q] = transit[q]
      BY <2>1, OtherRows DEF Create, Typed, TransferTypeOK
    <3> QED BY <2>1, <3>1, CreateWhole, WholeUnmoved
  <2>2. ASSUME NEW t \in Transfers, NEW u \in Users, NEW i, NEW from,
               Submit(u, t) \/ Approve(u, t, i, from) \/ Reject(u, t, i, from)
        PROVE  Whole(q)'
    <3>1. transit' = transit /\ asset' = asset
      BY <2>2, NothingMoves, PlanKept
    <3>2. /\ transfer'[t].state \notin {"COMPLETED", "DISCREPANCY"}
          /\ \A r \in Transfers \ {t} : transfer'[r] = transfer[r]
      BY <2>2, BeforeRelease DEF Moving
    <3>3. CASE q = t
      BY <2>2, <3>1, <3>2, <3>3, PlanKept, WholeKept
    <3>4. CASE q # t
      BY <3>1, <3>2, <3>4, WholeUnmoved
    <3> QED BY <3>3, <3>4
  <2>3. ASSUME NEW t \in Transfers, NEW u \in Users, Release(u, t)
        PROVE  Whole(q)'
    <3>1. q # t => asset'[q] = asset[q] /\ transit'[q] = transit[q]
      BY <2>3 DEF Release, Typed, TransferTypeOK
    <3> QED BY <2>3, <3>1, ReleaseRow, ReleaseWhole, WholeUnmoved
  <2>4. ASSUME NEW t \in Transfers, NEW u \in Users, NEW n \in Counts,
               NEW arrived \in SUBSET Assets, Acknowledge(u, t, n, arrived)
        PROVE  Whole(q)'
    <3>1. q # t => asset'[q] = asset[q] /\ transit'[q] = transit[q]
      BY <2>4 DEF Acknowledge, Typed, TransferTypeOK
    <3> QED BY <2>4, <3>1, AcknowledgeRow, AcknowledgeWhole, WholeUnmoved
  <2>5. CASE UNCHANGED <<transfer, asset, transit>>
    BY <2>5, WholeUnmoved
  <2> HIDE DEF Inv
  <2> QED BY <2>1, <2>2, <2>3, <2>4, <2>5 DEF Next, Assign, vars
<1>3. Inv => CompletedIsWhole
  BY DEF Whole, CompletedIsWhole
<1> HIDE DEF Inv
<1> QED BY <1>1, <1>2, <1>3, Types, PTL DEF Spec

-------------------------------------------------------------------------------
(* The transfers implement hand-overs.                                     *)

\* The facts of a transfer are those of its plan: one debit once it is
\* released, one credit once it is completed.
Carried(t) ==
  /\ transit[t].state # "NONE" =>
       FactsOf(t, "DEBIT") = {Posting(t, transfer[t].plan.source, "DEBIT")}
  /\ transit[t].state = "CLOSED" =>
       FactsOf(t, "CREDIT") = {Posting(t, transfer[t].plan.destination, "CREDIT")}

FundsInvariant == Typed /\ Finite /\ Conserved /\ \A t \in Transfers : Carried(t)

\* A transfer whose row, obligation and facts stay carries what it carried.
LEMMA CarriedKept ==
  ASSUME NEW t \in Transfers, Carried(t), transfer'[t].plan = transfer[t].plan,
         transit'[t].state = transit[t].state,
         \A direction \in {"DEBIT", "CREDIT"} : FactsOf(t, direction)' = FactsOf(t, direction)
  PROVE  Carried(t)'
BY DEF Carried, Posting

\* One more fact is a fact of one transfer in one direction.
LEMMA FactsOfAfter ==
  ASSUME NEW g, facts' = facts \cup {g}, NEW t, NEW direction
  PROVE  FactsOf(t, direction)' =
           IF g.transfer = t /\ g.direction = direction
           THEN FactsOf(t, direction) \cup {g} ELSE FactsOf(t, direction)
BY DEF FactsOf

\* Without an obligation there are no facts, and without a completed one no credit.
LEMMA NoFacts ==
  ASSUME Conserved, NEW t \in Transfers
  PROVE  /\ transit[t].state = "NONE" => FactsOf(t, "DEBIT") = {}
         /\ transit[t].state # "CLOSED" => FactsOf(t, "CREDIT") = {}
BY DEF Conserved, FactFollows, FactsOf

\* A release adds the debit of its plan,
LEMMA ReleaseCarries ==
  ASSUME FundsInvariant, NEW t \in Transfers, NEW u \in Users, Release(u, t)
  PROVE  /\ transit[t].state = "NONE" /\ transit'[t].state = "OPEN"
         /\ \A q \in Transfers \ {t} : transit'[q] = transit[q]
         /\ facts' = facts \cup {Posting(t, transfer[t].plan.source, "DEBIT")}
         /\ Posting(t, transfer[t].plan.source, "DEBIT") \in Fact \ facts
         /\ \A q \in Transfers : Carried(q)'
<1> USE DEF FundsInvariant
<1> DEFINE g == Posting(t, transfer[t].plan.source, "DEBIT")
<1>1. transit[t].state = "NONE"
  BY DEF Release, Conserved, ObligationFollows, Moving
<1>2. /\ transit'[t].state = "OPEN"
      /\ \A q \in Transfers \ {t} : transit'[q] = transit[q]
  BY DEF Release, Typed, TransferTypeOK, Obligation
<1>3. transfer[t].plan \in Plans
  BY DEF Release, Typed, Planned
<1>4. g \in Fact /\ g.transfer = t /\ g.direction = "DEBIT"
  BY <1>3, PostingType DEF Posting
<1>5. g \notin facts
  BY <1>1, <1>4 DEF Conserved, FactFollows
<1>6. facts' = facts \cup {g}
  BY DEF Release
<1>7. Posting(t, transfer[t].plan.source, "DEBIT")' = g
  BY ReleaseRow DEF Posting
<1> HIDE DEF g
<1>8. \A q \in Transfers, direction \in {"DEBIT", "CREDIT"} :
        FactsOf(q, direction)' = IF q = t /\ direction = "DEBIT"
                                 THEN FactsOf(q, direction) \cup {g} ELSE FactsOf(q, direction)
  BY <1>4, <1>6 DEF FactsOf
<1>9. FactsOf(t, "DEBIT")' = {g}
  BY <1>1, <1>8, NoFacts
<1>10. Carried(t)'
  BY <1>2, <1>7, <1>9 DEF Carried
<1>11. ASSUME NEW q \in Transfers \ {t}
       PROVE  Carried(q)'
  BY <1>2, <1>8, ReleaseRow, CarriedKept
<1> QED BY <1>1, <1>2, <1>4, <1>5, <1>6, <1>10, <1>11 DEF g

\* and an acknowledgement the credit, if it is exact.
LEMMA AcknowledgeCarries ==
  ASSUME FundsInvariant, NEW t \in Transfers, NEW u \in Users, NEW n \in Counts,
         NEW arrived \in SUBSET Assets, Acknowledge(u, t, n, arrived)
  PROVE  /\ transit[t].state = "OPEN"
         /\ transit'[t].state = IF Exact(t, n, arrived) THEN "CLOSED" ELSE "DISCREPANCY"
         /\ \A q \in Transfers \ {t} : transit'[q] = transit[q]
         /\ Exact(t, n, arrived) =>
              /\ facts' = facts \cup {Posting(t, transfer[t].plan.destination, "CREDIT")}
              /\ Posting(t, transfer[t].plan.destination, "CREDIT") \in Fact \ facts
         /\ ~Exact(t, n, arrived) => facts' = facts
         /\ \A q \in Transfers : Carried(q)'
<1> USE DEF FundsInvariant
<1> DEFINE g == Posting(t, transfer[t].plan.destination, "CREDIT")
<1>1. transit[t].state = "OPEN"
  BY DEF Acknowledge, Conserved, ObligationFollows
<1>2. /\ transit'[t].state = IF Exact(t, n, arrived) THEN "CLOSED" ELSE "DISCREPANCY"
      /\ \A q \in Transfers \ {t} : transit'[q] = transit[q]
  BY DEF Acknowledge, Typed, TransferTypeOK, Obligation
<1>3. transfer[t].plan \in Plans
  BY DEF Acknowledge, Typed, Planned
<1>4. g \in Fact /\ g.transfer = t /\ g.direction = "CREDIT"
  BY <1>3, PostingType DEF Posting
<1>5. g \notin facts
  BY <1>1, <1>4 DEF Conserved, FactFollows
<1>6. facts' = IF Exact(t, n, arrived) THEN facts \cup {g} ELSE facts
  BY DEF Acknowledge, Credit
<1>7. /\ Posting(t, transfer[t].plan.source, "DEBIT")' = Posting(t, transfer[t].plan.source, "DEBIT")
      /\ Posting(t, transfer[t].plan.destination, "CREDIT")' = g
  BY AcknowledgeRow DEF Posting
<1> HIDE DEF g
<1>8. \A q \in Transfers, direction \in {"DEBIT", "CREDIT"} :
        FactsOf(q, direction)' = IF q = t /\ direction = "CREDIT" /\ Exact(t, n, arrived)
                                 THEN FactsOf(q, direction) \cup {g} ELSE FactsOf(q, direction)
  BY <1>4, <1>6 DEF FactsOf
<1>9. /\ FactsOf(t, "DEBIT")' = {Posting(t, transfer[t].plan.source, "DEBIT")}
      /\ Exact(t, n, arrived) => FactsOf(t, "CREDIT")' = {g}
  BY <1>1, <1>8, NoFacts DEF Carried
<1>10. Carried(t)'
  BY <1>2, <1>7, <1>9 DEF Carried
<1>11. ASSUME NEW q \in Transfers \ {t}
       PROVE  Carried(q)'
  BY <1>2, <1>8, AcknowledgeRow, CarriedKept
<1> QED BY <1>1, <1>2, <1>4, <1>5, <1>6, <1>10, <1>11 DEF g

\* The commands before the release leave what moving transfers carry.
LEMMA BeforeReleaseCarries ==
  ASSUME FundsInvariant, NEW t \in Transfers, NEW u \in Users, NEW i, NEW from, NEW plan,
         Create(u, t, plan) \/ Submit(u, t) \/ Approve(u, t, i, from) \/ Reject(u, t, i, from)
  PROVE  /\ facts' = facts /\ transit' = transit
         /\ transit[t].state = "NONE"
         /\ \A q \in Transfers \ {t} : transfer'[q] = transfer[q]
         /\ \A q \in Transfers : Carried(q)'
<1> USE DEF FundsInvariant
<1>1. facts' = facts /\ transit' = transit
  BY NothingMoves
<1>2. /\ transfer[t].state \notin Moving
      /\ \A q \in Transfers \ {t} : transfer'[q] = transfer[q]
  BY BeforeRelease
<1>3. transit[t].state = "NONE"
  BY <1>2 DEF Conserved, ObligationFollows
<1>4. \A q \in Transfers \ {t} : Carried(q)'
  BY <1>1, <1>2, CarriedKept DEF FactsOf
<1>5. Carried(t)'
  BY <1>1, <1>3 DEF Carried
<1> QED BY <1>1, <1>2, <1>3, <1>4, <1>5

LEMMA FundsAlways == Spec => []FundsInvariant
<1> DEFINE Inv == \A t \in Transfers : Carried(t)
<1>1. Init => Inv
  BY DEF Init, Carried
<1>2. Typed /\ Finite /\ Conserved /\ Inv /\ [Next]_vars => Inv'
  <2> SUFFICES ASSUME FundsInvariant, [Next]_vars PROVE Inv'
    BY DEF FundsInvariant
  <2>1. CASE UNCHANGED <<transfer, transit, facts>>
    BY <2>1, CarriedKept DEF FundsInvariant, FactsOf
  <2> HIDE DEF Inv
  <2>2. CASE Next
    <3>1. ASSUME NEW b \in Cashboxes, NEW u \in Keepers \cup {NoUser}, Assign(b, u)
          PROVE  Inv'
      BY <2>1, <3>1 DEF Assign
    <3> QED BY <2>2, <3>1, BeforeReleaseCarries, ReleaseCarries, AcknowledgeCarries DEF Next, Inv
  <2> QED BY <2>1, <2>2 DEF vars
<1>3. Typed /\ Finite /\ Conserved /\ Inv => FundsInvariant
  BY DEF FundsInvariant
<1> HIDE DEF Inv
<1> QED BY <1>1, <1>2, <1>3, Types, FinitelyMany, ConservedAlways, PTL DEF Spec

\* The stage of a transfer and what it carries, read off the facts.
StageOf(t) ==
  IF FactsOf(t, "CREDIT") # {} THEN "ARRIVED"
  ELSE IF transit[t].state = "DISCREPANCY" THEN "DISPUTED"
  ELSE IF FactsOf(t, "DEBIT") # {} THEN "TRAVELLING"
  ELSE "HELD"

LoadOf(t) ==
  [to     |-> IF FactsOf(t, "DEBIT") = {} THEN NoPlan ELSE transfer[t].plan.destination,
   amount |-> SumOf(FactsOf(t, "DEBIT"))]

\* The stage follows the obligation, and the load the plan.
Staged(t) ==
  /\ StageOf(t) = IF transit[t].state = "NONE" THEN "HELD"
                  ELSE IF transit[t].state = "OPEN" THEN "TRAVELLING"
                  ELSE IF transit[t].state = "CLOSED" THEN "ARRIVED"
                  ELSE "DISPUTED"
  /\ LoadOf(t) = IF transit[t].state = "NONE" THEN [to |-> NoPlan, amount |-> 0]
                 ELSE [to     |-> transfer[t].plan.destination,
                       amount |-> transfer[t].plan.amount]

LEMMA StageAndLoad ==
  ASSUME FundsInvariant, NEW t \in Transfers
  PROVE  Staged(t)
<1> USE DEF FundsInvariant
<1>1. transit[t].state \in {"NONE", "OPEN", "DISCREPANCY", "CLOSED"}
  BY DEF Typed, TransferTypeOK, Obligation
<1>2. /\ transit[t].state = "NONE" => FactsOf(t, "DEBIT") = {}
      /\ transit[t].state # "CLOSED" => FactsOf(t, "CREDIT") = {}
  BY NoFacts
<1>3. /\ transit[t].state # "NONE" =>
           FactsOf(t, "DEBIT") = {Posting(t, transfer[t].plan.source, "DEBIT")}
      /\ transit[t].state = "CLOSED" => FactsOf(t, "CREDIT") # {}
  BY DEF Carried
<1>4. CASE transit[t].state = "NONE"
  <2>1. SumOf({}) = 0
    BY SumEmpty DEF SumOf
  <2> QED BY <1>2, <1>4, <2>1 DEF Staged, StageOf, LoadOf
<1>5. CASE transit[t].state # "NONE"
  <2> DEFINE g == Posting(t, transfer[t].plan.source, "DEBIT")
             amounts == [f \in {g} |-> f.amount]
  <2>1. transfer[t].state # "ABSENT"
    BY <1>5 DEF Conserved, ObligationFollows, Moving
  <2>2. transfer[t].plan.amount \in Nat
    BY <2>1, TransferAssumption DEF Typed, Planned, Plan
  <2>3. amounts[g] = transfer[t].plan.amount
    BY DEF Posting
  <2> HIDE DEF g, amounts
  <2>4. Sum({g}, amounts) = transfer[t].plan.amount
    BY <2>2, <2>3, SumSingle
  <2>5. SumOf(FactsOf(t, "DEBIT")) = transfer[t].plan.amount
    BY <1>3, <1>5, <2>4 DEF SumOf, g, amounts
  <2> QED BY <1>1, <1>2, <1>3, <1>5, <2>5 DEF Staged, StageOf, LoadOf
<1> QED BY <1>4, <1>5

\* Transfers whose obligation and facts stay are at their stage, and those with
\* an obligation keep their load where they keep their plan.
LEMMA StageKept ==
  ASSUME NEW t \in Transfers, transit'[t].state = transit[t].state,
         \A direction \in {"DEBIT", "CREDIT"} : FactsOf(t, direction)' = FactsOf(t, direction),
         FactsOf(t, "DEBIT") # {} => transfer'[t].plan = transfer[t].plan
  PROVE  StageOf(t)' = StageOf(t) /\ LoadOf(t)' = LoadOf(t)
BY DEF StageOf, LoadOf, SumOf

\* Commands that add no fact and change no obligation hand nothing over.
LEMMA NothingHandedOver ==
  ASSUME FundsInvariant, facts' = facts, transit' = transit,
         \A t \in Transfers : transit[t].state # "NONE" => transfer'[t] = transfer[t]
  PROVE  UNCHANGED HandedOver!handOverVars
<1>1. \A t \in Transfers, direction \in {"DEBIT", "CREDIT"} :
        FactsOf(t, direction)' = FactsOf(t, direction)
  BY DEF FactsOf
<1>2. \A t \in Transfers : FactsOf(t, "DEBIT") # {} => transfer'[t] = transfer[t]
  BY NoFacts DEF FundsInvariant
<1>3. \A t \in Transfers : StageOf(t)' = StageOf(t) /\ LoadOf(t)' = LoadOf(t)
  BY <1>1, <1>2, StageKept
<1>4. \A e \in Endpoints : Position(e)' = Position(e)
  BY DEF Position, Moves
<1> QED BY <1>3, <1>4 DEF HandedOver!handOverVars, StageOf, LoadOf

\* A release is a departure that leaves the source its floor,
LEMMA ReleaseDeparts ==
  ASSUME FundsInvariant, NEW t \in Transfers, Staged(t), Staged(t)', NEW u \in Users, Release(u, t)
  PROVE  HandedOver!HandOverNext
<1> USE DEF FundsInvariant
<1>1. PICK plan \in Plans : plan = transfer[t].plan
  BY DEF Release, Typed, Planned
<1>2. plan.source \in Endpoints /\ plan.destination \in Endpoints /\ plan.amount \in Nat
  BY TransferAssumption DEF Plan
<1>3. plan.source # plan.destination
  BY <1>1 DEF Release, InCustody, Separate
<1>4. PICK g : g = Posting(t, transfer[t].plan.source, "DEBIT")
  OBVIOUS
<1>5. /\ transit[t].state = "NONE" /\ transit'[t].state = "OPEN"
      /\ \A q \in Transfers \ {t} : transit'[q] = transit[q]
      /\ facts' = facts \cup {g} /\ g \in Fact \ facts
  BY <1>4, ReleaseCarries
<1>6. /\ g.transfer = t /\ g.endpoint = plan.source
      /\ g.direction = "DEBIT" /\ g.amount = plan.amount
  BY <1>1, <1>4 DEF Posting
<1>7. /\ StageOf(t) = "HELD" /\ StageOf(t)' = "TRAVELLING"
      /\ LoadOf(t)' = [to |-> plan.destination, amount |-> plan.amount]
  BY <1>1, <1>5, ReleaseRow DEF Staged
<1>8. \A q \in Transfers \ {t} : StageOf(q)' = StageOf(q) /\ LoadOf(q)' = LoadOf(q)
  BY <1>5, <1>6, FactsOfAfter, StageKept, ReleaseRow
<1>9. ASSUME NEW e \in Endpoints
      PROVE  /\ Position(e) \in Int
             /\ Position(e)' = IF e = plan.source THEN Position(e) - plan.amount ELSE Position(e)
  BY <1>5, <1>6, PositionAfter
<1>10. Position(plan.source) - plan.amount >= Floor[plan.source] + Withheld[plan.source]
  <2>1. Position(plan.source) - Withheld[plan.source] - plan.amount >= Floor[plan.source]
    BY <1>1 DEF Release, SourceAvailable, Unreserved
  <2>2. Floor[plan.source] \in Int /\ Withheld[plan.source] \in Nat
    BY <1>2, TransferAssumption
  <2> QED BY <1>2, <1>9, <2>1, <2>2
<1>11. HandedOver!Depart(t, plan.source, plan.destination, plan.amount)
  BY <1>2, <1>7, <1>8, <1>9, <1>10 DEF HandedOver!Depart, StageOf, LoadOf
<1> QED BY <1>2, <1>3, <1>11 DEF HandedOver!HandOverNext

\* an exact acknowledgement the arrival, and another the dispute.
LEMMA AcknowledgeArrives ==
  ASSUME FundsInvariant, NEW t \in Transfers, Staged(t), Staged(t)', NEW u \in Users,
         NEW n \in Counts, NEW arrived \in SUBSET Assets, Acknowledge(u, t, n, arrived)
  PROVE  HandedOver!HandOverNext
<1> USE DEF FundsInvariant
<1>1. PICK plan \in Plans : plan = transfer[t].plan
  BY DEF Acknowledge, Typed, Planned
<1>2. plan.destination \in Endpoints /\ plan.amount \in Nat
  BY TransferAssumption DEF Plan
<1>3. /\ transit[t].state = "OPEN"
      /\ transit'[t].state = IF Exact(t, n, arrived) THEN "CLOSED" ELSE "DISCREPANCY"
      /\ \A q \in Transfers \ {t} : transit'[q] = transit[q]
  BY AcknowledgeCarries
<1>4. /\ StageOf(t) = "TRAVELLING"
      /\ StageOf(t)' = IF Exact(t, n, arrived) THEN "ARRIVED" ELSE "DISPUTED"
      /\ LoadOf(t) = [to |-> plan.destination, amount |-> plan.amount]
      /\ LoadOf(t)' = LoadOf(t)
  BY <1>1, <1>3, AcknowledgeRow DEF Staged
<1>5. CASE Exact(t, n, arrived)
  <2>1. PICK g : g = Posting(t, transfer[t].plan.destination, "CREDIT")
    OBVIOUS
  <2>2. facts' = facts \cup {g} /\ g \in Fact \ facts
    BY <1>5, <2>1, AcknowledgeCarries
  <2>3. /\ g.transfer = t /\ g.endpoint = plan.destination
        /\ g.direction = "CREDIT" /\ g.amount = plan.amount
    BY <1>1, <2>1 DEF Posting
  <2>4. \A q \in Transfers \ {t} : StageOf(q)' = StageOf(q) /\ LoadOf(q)' = LoadOf(q)
    BY <1>3, <2>2, <2>3, FactsOfAfter, StageKept, AcknowledgeRow
  <2>5. ASSUME NEW e \in Endpoints
        PROVE  Position(e)' = IF e = plan.destination THEN Position(e) + plan.amount
                              ELSE Position(e)
    BY <2>2, <2>3, PositionAfter
  <2>6. HandedOver!Arrive(t)
    BY <1>2, <1>4, <1>5, <2>4, <2>5 DEF HandedOver!Arrive, StageOf, LoadOf
  <2> QED BY <2>6 DEF HandedOver!HandOverNext
<1>6. CASE ~Exact(t, n, arrived)
  <2>1. facts' = facts
    BY <1>6, AcknowledgeCarries
  <2>2. \A q \in Transfers \ {t} : StageOf(q)' = StageOf(q) /\ LoadOf(q)' = LoadOf(q)
    BY <1>3, <2>1, StageKept, AcknowledgeRow DEF FactsOf
  <2>3. \A e \in Endpoints : Position(e)' = Position(e)
    BY <2>1 DEF Position, Moves
  <2>4. HandedOver!Dispute(t)
    BY <1>4, <1>6, <2>2, <2>3 DEF HandedOver!Dispute, StageOf, LoadOf
  <2> QED BY <2>4 DEF HandedOver!HandOverNext
<1> QED BY <1>5, <1>6

\* Read off the facts and obligations, each transfer departs once and either
\* arrives once and whole at its destination or is disputed.
THEOREM HandOverImplemented == Spec => ImplementsHandOver
<1>1. Init => HandedOver!HandOverInit
  <2> SUFFICES ASSUME Init PROVE HandedOver!HandOverInit
    OBVIOUS
  <2>1. \A t \in Transfers, direction \in {"DEBIT", "CREDIT"} : FactsOf(t, direction) = {}
    BY DEF Init, FactsOf
  <2>2. SumOf({}) = 0
    BY SumEmpty DEF SumOf
  <2>3. \A t \in Transfers : transit[t].state = "NONE"
    BY DEF Init
  <2>4. ASSUME NEW e \in Endpoints
        PROVE  Position(e) \in Int
    <3>1. \A direction : {f \in facts : f.endpoint = e /\ f.direction = direction} = {}
      BY DEF Init
    <3>2. Moves(e, "CREDIT") = 0 /\ Moves(e, "DEBIT") = 0
      BY <2>2, <3>1 DEF Moves
    <3> QED BY <3>2, TransferAssumption DEF Position
  <2> QED BY <2>1, <2>2, <2>3, <2>4 DEF HandedOver!HandOverInit
<1> DEFINE AllStaged == \A t \in Transfers : Staged(t)
<1>2. FundsInvariant => AllStaged
  BY StageAndLoad
<1>3. FundsInvariant /\ AllStaged /\ AllStaged' /\ [Next]_vars
        => [HandedOver!HandOverNext]_(HandedOver!handOverVars)
  <2> SUFFICES ASSUME FundsInvariant, AllStaged, AllStaged', [Next]_vars
               PROVE  HandedOver!HandOverNext \/ UNCHANGED HandedOver!handOverVars
    OBVIOUS
  <2>1. ASSUME NEW t \in Transfers, NEW u \in Users, NEW i, NEW from, NEW plan,
               \/ Create(u, t, plan) \/ Submit(u, t)
               \/ Approve(u, t, i, from) \/ Reject(u, t, i, from)
        PROVE  UNCHANGED HandedOver!handOverVars
    BY <2>1, BeforeReleaseCarries, NothingHandedOver
  <2>2. CASE UNCHANGED <<transfer, transit, facts>>
    BY <2>2, NothingHandedOver
  <2> QED BY <2>1, <2>2, ReleaseDeparts, AcknowledgeArrives DEF Next, Assign, vars
<1> HIDE DEF AllStaged
<1> QED BY <1>1, <1>2, <1>3, FundsAlways, PTL DEF Spec, ImplementsHandOver, HandedOver!HandOverSpec
===============================================================================
