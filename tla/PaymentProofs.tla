----------------------------- MODULE PaymentProofs -----------------------------
(***************************************************************************)
(* What holds of the payments for every set of documents, users, contents, *)
(* policies, sources and obligations: their approval and their groups; who *)
(* reverses, the order of reversals and outcomes, the row versions, the    *)
(* movement facts, what they rest on, what they leave in the sources, and  *)
(* the ledger they implement; and of the exports and postings of executed  *)
(* payments, for every set of targets, systems, mappings and periods.      *)
(***************************************************************************)
EXTENDS AccountingExport, Sums

-------------------------------------------------------------------------------
(* The operators the commands are built from.                              *)

\* A resolved policy is one of the policies, or none.
LEMMA ResolveType ==
  ASSUME NEW c, NEW a
  PROVE  Resolve(c, a) \in Policies \cup {NoPolicy}
BY DEF Resolve, UniqueMaximal

\* A row that exists has a content, a creator and a date.
LEMMA PresentDocument ==
  ASSUME ApprovalTypeOK, NEW p \in Payments, doc[p].state # "ABSENT"
  PROVE  /\ doc[p].content \in Contents
         /\ doc[p].creator \in Users
         /\ doc[p].date \in Dates
         /\ doc[p].version \in Nat
         /\ doc[p] \in [state: States \ {"ABSENT"}, version: Nat, creator: Users,
              executor: Users \cup {NoUser}, content: Contents, date: Dates,
              reversedBy: Payments \cup {NoPayment}]
BY DEF ApprovalTypeOK, Document, AbsentDocument

\* The version of a row is a natural.
LEMMA VersionType ==
  ASSUME ApprovalTypeOK, NEW p \in Payments
  PROVE  doc[p].version \in Nat
BY DEF ApprovalTypeOK, Document, AbsentDocument

\* The total of a draft's group is a natural.
LEMMA LiveTotalType ==
  ASSUME ApprovalTypeOK, NEW p \in Payments, doc[p].state = "DRAFT"
  PROVE  LiveTotal(p) \in Nat
<1> DEFINE S == MatchingParticipants(p) \cup {p}
           f == [q \in S |-> Amount[doc[q].content]]
<1>1. S \subseteq Payments
  BY DEF MatchingParticipants
<1>2. IsFiniteSet(S)
  BY <1>1, PaymentAssumption, FS_Subset
<1>3. \A q \in S : doc[q].content \in Contents
  BY <1>1, PresentDocument DEF MatchingParticipants, Counted
<1>4. \A q \in S : f[q] \in Nat
  BY <1>3, PaymentAssumption
<1>5. Sum(S, f) \in Nat
  <2> HIDE DEF S, f
  <2> QED BY <1>2, <1>4, SumType
<1> QED BY <1>5 DEF LiveTotal, TotalOf

-------------------------------------------------------------------------------
(* Types: approval commands.                                               *)

\* A new draft has its type.
LEMMA CreateType ==
  ASSUME ApprovalTypeOK, NEW p \in Payments, NEW u \in Users, NEW c \in Contents,
         NEW d \in Dates, Create(u, p, c, d)
  PROVE  ApprovalTypeOK'
BY DEF ApprovalTypeOK, Create, Document, States

\* A row moved to another state keeps its type.
LEMMA MovedType ==
  ASSUME ApprovalTypeOK, NEW p \in Payments, doc[p].state # "ABSENT",
         NEW state \in States \ {"ABSENT"}
  PROVE  Moved(doc[p], state) \in Document
<1> DEFINE Row == [state: States \ {"ABSENT"}, version: Nat, creator: Users,
              executor: Users \cup {NoUser}, content: Contents, date: Dates,
              reversedBy: Payments \cup {NoPayment}]
<1>1. doc[p] \in Row
  BY PresentDocument
<1>2. ASSUME NEW row \in Row, NEW n \in Nat
      PROVE  [row EXCEPT !.state = state, !.version = n] \in Row
  <2>1. [row EXCEPT !.state = state] \in Row
    OBVIOUS
  <2>2. \A r \in Row : [r EXCEPT !.version = n] \in Row
    OBVIOUS
  <2> HIDE DEF Row
  <2> QED BY <2>1, <2>2
<1>3. Moved(doc[p], state) = [doc[p] EXCEPT !.state = state, !.version = doc[p].version + 1]
  BY <1>1 DEF Moved
<1>4. doc[p].version + 1 \in Nat
  BY VersionType
<1>5. Moved(doc[p], state) \in Row
  <2> HIDE DEF Row
  <2> QED BY <1>1, <1>2, <1>3, <1>4
<1> QED BY <1>5 DEF Document

\* So does an executed row and a reversed one.
LEMMA ExecutedType ==
  ASSUME ApprovalTypeOK, NEW p \in Payments, doc[p].state # "ABSENT", NEW u \in Users,
         NEW r \in Payments
  PROVE  /\ [Moved(doc[p], "EXECUTED") EXCEPT !.executor = u] \in Document
         /\ [Moved(doc[p], "REVERSED") EXCEPT !.reversedBy = r] \in Document
<1>1. Moved(doc[p], "EXECUTED") \in Document /\ Moved(doc[p], "REVERSED") \in Document
  BY MovedType DEF States
<1>2. Moved(doc[p], "EXECUTED").state = "EXECUTED" /\ Moved(doc[p], "REVERSED").state = "REVERSED"
  BY PresentDocument DEF Moved
<1> QED BY <1>1, <1>2 DEF Document, AbsentDocument

\* A submitted payment and its snapshot have theirs.
LEMMA SubmitType ==
  ASSUME ApprovalTypeOK, NEW p \in Payments, NEW u \in Users, Submit(u, p)
  PROVE  ApprovalTypeOK'
<1>1. Amount[doc[p].content] \in Nat /\ LiveTotal(p) \in Nat
  BY PresentDocument, LiveTotalType, PaymentAssumption DEF Submit
<1>2. Evidence(p) \subseteq Payments \X Nat
  BY VersionType DEF Evidence, MatchingParticipants
<1>3. Submission(p) \in Snapshot
  BY <1>1, <1>2, ResolveType DEF Submission, Snapshot
<1>4. doc' \in [Payments -> Document]
  BY MovedType DEF Submit, ApprovalTypeOK, States
<1>5. snapshot' \in [Payments -> Snapshot]
  BY <1>3 DEF Submit, ApprovalTypeOK
<1> QED BY <1>4, <1>5 DEF ApprovalTypeOK

\* So have the payment and the snapshot after an approval action.
LEMMA ActType ==
  ASSUME ApprovalTypeOK, NEW p \in Payments, Act(p)
  PROVE  ApprovalTypeOK'
<1>1. PICK u \in Users, i \in StepNumbers(p), from \in Users \cup {NoUser} :
        \/ \E reasoned \in BOOLEAN : Approve(u, p, i, from, reasoned)
        \/ Reject(u, p, i, from)
        \/ Return(u, p, i, from)
  BY DEF Act
<1>2. i \in Nat
  BY DEF StepNumbers
<1>3. doc[p].state # "ABSENT"
  BY <1>1 DEF Approve, Reject, Return
<1>4. \A state \in States \ {"ABSENT"} : Moved(doc[p], state) \in Document
  BY <1>3, MovedType
<1>5. StateAfterApproval(p, i) \in States \ {"ABSENT"}
  BY DEF StateAfterApproval, States
<1>6. CASE \E reasoned \in BOOLEAN : Approve(u, p, i, from, reasoned)
  BY <1>2, <1>4, <1>5, <1>6 DEF Approve, ApprovalTypeOK, Snapshot, Action, Recorded
<1>7. CASE Reject(u, p, i, from)
  <2>1. [step |-> i, actor |-> u, from |-> from, kind |-> Recorded("REJECT"),
         reasoned |-> TRUE] \in Action
    BY <1>2 DEF Action, Recorded
  <2>2. \A s \in Snapshot, a \in Action : [s EXCEPT !.actions = @ \cup {a}] \in Snapshot
    BY DEF Snapshot
  <2>3. snapshot' \in [Payments -> Snapshot]
    BY <2>1, <2>2, <1>7 DEF Reject, ApprovalTypeOK
  <2>4. doc' \in [Payments -> Document]
    BY <1>4, <1>7 DEF Reject, ApprovalTypeOK, States
  <2> QED BY <2>3, <2>4 DEF ApprovalTypeOK
<1>8. CASE Return(u, p, i, from)
  BY <1>4, <1>8 DEF Return, ApprovalTypeOK, Snapshot, NoSnapshot, States
<1> QED BY <1>1, <1>6, <1>7, <1>8

\* Hence the approval commands keep the types.
LEMMA ApprovalNextType ==
  ASSUME ApprovalTypeOK, ApprovalNext
  PROVE  ApprovalTypeOK'
BY CreateType, SubmitType, ActType DEF ApprovalNext

-------------------------------------------------------------------------------
(* Types: execution, reversal, outcomes and the external writer.           *)

\* A reservation or an allocation keeps its type in another state.
LEMMA ExternalRowTypes ==
  /\ \A r \in Reservation, state \in Held \cup {"CONSUMED", "RELEASED"} :
       [r EXCEPT !.state = state] \in Reservation
  /\ \A r \in Reservation : Consumed(r) \in Reservation
  /\ \A a \in Allocation : [a EXCEPT !.state = "REVERSED"] \in Allocation
<1>1. ASSUME NEW r \in Reservation, NEW state \in Held \cup {"CONSUMED", "RELEASED"}
      PROVE  [r EXCEPT !.state = state] \in Reservation
  BY DEF Reservation
<1>2. ASSUME NEW r \in Reservation PROVE Consumed(r) \in Reservation
  BY <1>1 DEF Consumed
<1>3. ASSUME NEW a \in Allocation PROVE [a EXCEPT !.state = "REVERSED"] \in Allocation
  BY DEF Allocation
<1> QED BY <1>1, <1>2, <1>3

\* Execution posts typed facts and instructions.
LEMMA ExecuteType ==
  ASSUME ExecutionTypeOK, NEW p \in Payments, NEW u \in Users, Execute(u, p)
  PROVE  ExecutionTypeOK'
<1> USE DEF ExecutionTypeOK
<1>1. doc[p].state # "ABSENT"
  BY DEF Execute, Executable
<1>2. doc' \in [Payments -> Document]
  BY <1>1, ExecutedType DEF Execute, ApprovalTypeOK
<1>3. ApprovalTypeOK'
  BY <1>2 DEF Execute, ApprovalTypeOK
<1>4. facts' \subseteq Fact
  BY <1>1, PresentDocument, ExecutionAssumption DEF Execute, Fact
<1>5. instruction' \in [Payments -> [Lines -> InstructionStates]]
  BY DEF Execute, InstructionStates
<1>6. \A s \in Sources : Consumed(reservation[p][s]) \in Reservation
  BY ExternalRowTypes
<1>7. reservation' \in [Payments -> [Sources -> Reservation]]
  BY <1>6 DEF Execute
<1> QED BY <1>3, <1>4, <1>5, <1>7 DEF Execute

\* Reversal writes a typed document and typed facts.
LEMMA ReverseType ==
  ASSUME ExecutionTypeOK, NEW p \in Payments, NEW r \in Payments \ {p}, NEW u \in Users,
         NEW d \in Dates, Reverse(u, p, r, d)
  PROVE  ExecutionTypeOK'
<1> USE DEF ExecutionTypeOK
<1>1. doc[p].state # "ABSENT"
  BY DEF Reverse, Reversible
<1>2. ReversalOf(u, p, d) \in Document
  BY <1>1, PresentDocument DEF ReversalOf, Document, States
<1>3. doc' \in [Payments -> Document]
  BY <1>1, <1>2, ExecutedType DEF Reverse, ApprovalTypeOK
<1>4. ApprovalTypeOK'
  BY <1>3 DEF Reverse, ApprovalTypeOK
<1>5. facts' \subseteq Fact
  BY DEF Reverse, Posted, Fact
<1>6. \A o \in Obligations :
        [allocation[p][o] EXCEPT !.state = "REVERSED"] \in Allocation
  BY ExternalRowTypes
<1>7. allocation' \in [Payments -> [Obligations -> Allocation]]
  BY <1>6 DEF Reverse
<1> QED BY <1>4, <1>5, <1>7 DEF Reverse

\* A recorded outcome is one of the states of an instruction.
LEMMA RecordOutcomeType ==
  ASSUME ExecutionTypeOK, NEW p \in Payments, NEW l \in Lines, NEW u \in Users,
         NEW outcome \in Negative \cup {"CONFIRMED"}, RecordOutcome(u, p, l, outcome)
  PROVE  ExecutionTypeOK'
BY DEF ExecutionTypeOK, ApprovalTypeOK, RecordOutcome, InstructionStates

\* The external writer keeps the types of its rows.
LEMMA ExternalType ==
  ASSUME ExecutionTypeOK, NEW p \in Payments, External(p)
  PROVE  ExecutionTypeOK'
<1> USE DEF ExecutionTypeOK, ApprovalTypeOK
<1>1. ASSUME NEW s \in Sources, ChangeReservation(p, s)
      PROVE  ExecutionTypeOK'
  <2>1. PICK state \in {"OVERDUE", "REVIEW_REQUIRED", "RELEASED"} :
          reservation' = [reservation EXCEPT ![p][s].state = state]
    BY <1>1 DEF ChangeReservation
  <2>2. reservation[p][s] \in Reservation /\ state \in Held \cup {"CONSUMED", "RELEASED"}
    BY DEF Held
  <2>3. [reservation[p][s] EXCEPT !.state = state] \in Reservation
    BY <2>2, ExternalRowTypes
  <2>4. reservation' \in [Payments -> [Sources -> Reservation]]
    BY <2>1, <2>3
  <2> QED BY <1>1, <2>4 DEF ChangeReservation
<1>2. ASSUME NEW s \in Sources, NEW a \in ReservedAmounts, Reserve(p, s, a)
      PROVE  ExecutionTypeOK'
  BY <1>2 DEF Reserve, Reservation, Held
<1>3. ASSUME NEW o \in Obligations, NEW a \in AllocatedAmounts, NEW known \in KnownTotals,
             NEW waived \in BOOLEAN, Allocate(p, o, a, known, waived)
      PROVE  ExecutionTypeOK'
  <2>1. [state |-> "ACTIVE", amount |-> a, known |-> known, waived |-> waived] \in Allocation
    BY DEF Allocation
  <2> QED BY <1>3, <2>1 DEF Allocate
<1> QED BY <1>1, <1>2, <1>3 DEF External

\* The initial state has its types.
LEMMA TypeInitially == Init => ExecutionTypeOK
BY DEF Init, ApprovalInit, ExecutionTypeOK, ApprovalTypeOK, Document, Snapshot, NoSnapshot,
       InstructionStates, NoReservation, Reservation, NoAllocation, Allocation

\* Every step keeps them.
LEMMA TypeKept ==
  ASSUME ExecutionTypeOK, [Next]_vars
  PROVE  ExecutionTypeOK'
<1>1. CASE ApprovalNext /\ UNCHANGED executionVars
  BY <1>1, ApprovalNextType DEF ExecutionTypeOK, executionVars
<1>2. ASSUME NEW p \in Payments, NEW u \in Users, Execute(u, p)
      PROVE  ExecutionTypeOK'
  BY <1>2, ExecuteType
<1>3. ASSUME NEW p \in Payments, NEW u \in Users, NEW r \in Payments \ {p}, NEW d \in Dates,
             Reverse(u, p, r, d)
      PROVE  ExecutionTypeOK'
  BY <1>3, ReverseType
<1>4. ASSUME NEW p \in Payments, NEW u \in Users, NEW l \in Lines,
             NEW outcome \in Negative \cup {"CONFIRMED"}, RecordOutcome(u, p, l, outcome)
      PROVE  ExecutionTypeOK'
  BY <1>4, RecordOutcomeType
<1>5. ASSUME NEW p \in Payments, External(p)
      PROVE  ExecutionTypeOK'
  BY <1>5, ExternalType
<1>6. ASSUME UNCHANGED rows, reversing' \subseteq Payments
      PROVE  ExecutionTypeOK'
  BY <1>6 DEF rows, ExecutionTypeOK, ApprovalTypeOK
<1>7. CASE UNCHANGED vars
  BY <1>6, <1>7 DEF vars, rows, ExecutionTypeOK
<1>8. ASSUME NEW p \in Payments, GiveUp(p) \/ \E u \in Users : ReadEffects(u, p)
      PROVE  ExecutionTypeOK'
  BY <1>6, <1>8 DEF GiveUp, ReadEffects, ExecutionTypeOK
<1> QED BY <1>1, <1>2, <1>3, <1>4, <1>5, <1>7, <1>8 DEF Next, Commit

\* Every reachable state has its types: no command writes a row, a snapshot, a
\* fact or an instruction that the tables would not hold.
THEOREM TypeCorrect == Spec => []ExecutionTypeOK
<1>1. Init => ExecutionTypeOK
  BY TypeInitially
<1>2. ExecutionTypeOK /\ [Next]_vars => ExecutionTypeOK'
  BY TypeKept
<1> QED BY <1>1, <1>2, PTL DEF Spec

\* A step commits rows or leaves them: a reversal that reads or gives up writes none.
LEMMA StepCases ==
  ASSUME [Next]_vars
  PROVE  Commit \/ UNCHANGED rows
BY DEF Next, vars, rows, ReadEffects, GiveUp

-------------------------------------------------------------------------------
(* What each command does to a row.                                        *)

\* The rows an approval command moves are not yet executed.
Open == {"ABSENT", "DRAFT", "APPROVAL_PENDING", "APPROVED"}

\* An approval command moves one open row, to a state before execution, and
\* leaves its creator, executor and reversal link as they are.
LEMMA ApprovalMoves ==
  ASSUME ExecutionTypeOK, ApprovalNext
  PROVE  \E p \in Payments :
           /\ doc[p].state \in Open
           /\ doc'[p].state \in {"DRAFT", "APPROVAL_PENDING", "APPROVED", "REJECTED"}
           /\ doc[p].state # "ABSENT" => /\ doc'[p].creator = doc[p].creator
                                         /\ doc'[p].executor = doc[p].executor
                                         /\ doc'[p].version = doc[p].version + 1
           /\ doc'[p].reversedBy = doc[p].reversedBy
           /\ \A q \in Payments \ {p} : doc'[q] = doc[q] /\ snapshot'[q] = snapshot[q]
<1> DEFINE Claim(p) ==
           /\ doc[p].state \in Open
           /\ doc'[p].state \in {"DRAFT", "APPROVAL_PENDING", "APPROVED", "REJECTED"}
           /\ doc[p].state # "ABSENT" => /\ doc'[p].creator = doc[p].creator
                                         /\ doc'[p].executor = doc[p].executor
                                         /\ doc'[p].version = doc[p].version + 1
           /\ doc'[p].reversedBy = doc[p].reversedBy
           /\ \A q \in Payments \ {p} : doc'[q] = doc[q] /\ snapshot'[q] = snapshot[q]
<1> USE DEF ExecutionTypeOK, ApprovalTypeOK, Open
<1>1. ASSUME NEW p \in Payments, NEW u \in Users, NEW c \in Contents, NEW d \in Dates,
             Create(u, p, c, d)
      PROVE  Claim(p)
  BY <1>1 DEF Create, Document, AbsentDocument
<1>2. ASSUME NEW p \in Payments, NEW u \in Users, Submit(u, p)
      PROVE  Claim(p)
  BY <1>2, PresentDocument DEF Submit, Moved
<1>3. ASSUME NEW p \in Payments, Act(p)
      PROVE  Claim(p)
  <2>1. PICK i \in StepNumbers(p), u \in Users, from \in Users \cup {NoUser} :
          \/ \E reasoned \in BOOLEAN : Approve(u, p, i, from, reasoned)
          \/ Reject(u, p, i, from)
          \/ Return(u, p, i, from)
    BY <1>3 DEF Act
  <2>2. StateAfterApproval(p, i) \in {"APPROVAL_PENDING", "APPROVED"}
    BY DEF StateAfterApproval
  <2>3. CASE \E reasoned \in BOOLEAN : Approve(u, p, i, from, reasoned)
    BY <2>2, <2>3, PresentDocument DEF Approve, Moved
  <2>4. CASE Reject(u, p, i, from)
    BY <2>4, PresentDocument DEF Reject, Moved
  <2>5. CASE Return(u, p, i, from)
    BY <2>5, PresentDocument DEF Return, Moved
  <2> QED BY <2>1, <2>3, <2>4, <2>5
<1>4. \E p \in Payments : Claim(p)
  <2> HIDE DEF Claim
  <2> QED BY <1>1, <1>2, <1>3 DEF ApprovalNext
<1> QED BY <1>4

\* Execution moves one approved row; only its state, executor and version change.
LEMMA ExecuteMoves ==
  ASSUME ExecutionTypeOK, NEW p \in Payments, NEW u \in Users, Execute(u, p)
  PROVE  /\ doc[p].state = "APPROVED" /\ doc'[p].state = "EXECUTED"
         /\ doc'[p].version = doc[p].version + 1
         /\ doc'[p].reversedBy = doc[p].reversedBy
         /\ \A q \in Payments \ {p} : doc'[q] = doc[q]
         /\ snapshot' = snapshot
BY PresentDocument DEF ExecutionTypeOK, ApprovalTypeOK, Execute, Executable, Moved

\* A reversal moves one executed row and fills one that did not exist.
LEMMA ReverseMoves ==
  ASSUME ExecutionTypeOK, NEW p \in Payments, NEW r \in Payments \ {p}, NEW u \in Users,
         NEW d \in Dates, Reverse(u, p, r, d)
  PROVE  /\ doc[p].state = "EXECUTED" /\ doc'[p].state = "REVERSED"
         /\ doc'[p].version = doc[p].version + 1
         /\ doc'[p].reversedBy = r
         /\ doc'[p].creator = doc[p].creator /\ doc'[p].executor = doc[p].executor
         /\ doc[r].state = "ABSENT" /\ doc'[r].state = "EXECUTED"
         /\ doc'[r].executor = u /\ doc'[r].reversedBy = NoPayment
         /\ \A q \in Payments \ {p, r} : doc'[q] = doc[q]
         /\ snapshot' = snapshot
BY PresentDocument DEF ExecutionTypeOK, ApprovalTypeOK, Reverse, Reversible, ReversalOf, Moved

-------------------------------------------------------------------------------
(* Splitting a payment is seen.                                            *)

\* A document that does not exist has no snapshot: this is what keeps a
\* reversal, whose row is new, out of every group.
AbsentIsBlank == \A p \in Payments : doc[p].state = "ABSENT" => snapshot[p] = NoSnapshot

SplitInvariant == ExecutionTypeOK /\ AbsentIsBlank /\ SplitIsSeen

\* What p brings into a step that counts it in its group afterwards.
Unmoved(p) ==
  /\ Aggregated(p)
  /\ doc'[p].date = doc[p].date
  /\ doc'[p].content = doc[p].content
  /\ snapshot'[p].others = snapshot[p].others

\* A step that brings no payment into a group keeps the property.
LEMMA GroupsKept ==
  ASSUME SplitIsSeen, \A p \in Payments : Aggregated(p)' => Unmoved(p)
  PROVE  SplitIsSeen'
<1> SUFFICES ASSUME NEW p \in Payments, NEW q \in Payments, p # q,
                    Aggregated(p)', Aggregated(q)', SameGroup(p, q)'
             PROVE  (q \in CountedIn(p) \/ p \in CountedIn(q))'
  BY DEF SplitIsSeen
<1>1. Unmoved(p) /\ Unmoved(q)
  OBVIOUS
<1>2. SameGroup(p, q)
  BY <1>1 DEF SameGroup, Unmoved
<1>3. q \in CountedIn(p) \/ p \in CountedIn(q)
  BY <1>1, <1>2 DEF SplitIsSeen, Unmoved
<1> QED BY <1>1, <1>3 DEF CountedIn, Unmoved

\* A submission counts every aggregated payment of its group.
LEMMA SubmissionCounts ==
  ASSUME SplitInvariant, NEW u \in Users, NEW p \in Payments, Submit(u, p)
  PROVE  SplitIsSeen'
<1> USE DEF SplitInvariant, ExecutionTypeOK, ApprovalTypeOK
<1>1. /\ doc'[p].date = doc[p].date /\ doc'[p].content = doc[p].content
      /\ \A q \in Payments \ {p} : doc'[q] = doc[q] /\ snapshot'[q] = snapshot[q]
      /\ snapshot'[p] = Submission(p)
  BY PresentDocument DEF Submit, Moved
<1>2. ASSUME NEW q \in Payments \ {p}, Aggregated(p)', Aggregated(q)', SameGroup(p, q)'
      PROVE  (q \in CountedIn(p))'
  <2>1. q \in MatchingParticipants(p)
    BY <1>1, <1>2 DEF Aggregated, MatchingParticipants, SameGroup
  <2>2. snapshot'[p].others = Evidence(p)
    BY <1>1, <1>2 DEF Aggregated, Aggregates, Submission
  <2>3. <<q, doc[q].version>> \in snapshot'[p].others
    BY <2>1, <2>2 DEF Evidence
  <2> QED BY <2>3 DEF CountedIn
<1>3. ASSUME NEW q \in Payments \ {p}, NEW r \in Payments \ {p}, q # r,
             Aggregated(q)', Aggregated(r)', SameGroup(q, r)'
      PROVE  (r \in CountedIn(q) \/ q \in CountedIn(r))'
  BY <1>1, <1>3 DEF SplitIsSeen, Aggregated, Aggregates, SameGroup, CountedIn
<1>4. \A q \in Payments : SameGroup(q, p)' => SameGroup(p, q)'
  BY DEF SameGroup
<1> QED BY <1>2, <1>3, <1>4 DEF SplitIsSeen

\* The other approval commands, execution and reversal bring none in.
LEMMA OtherCommandsKeepGroups ==
  ASSUME SplitInvariant, NEW p \in Payments,
         \/ \E u \in Users, c \in Contents, d \in Dates : Create(u, p, c, d)
         \/ Act(p)
         \/ \E u \in Users : Execute(u, p)
         \/ \E u \in Users, r \in Payments \ {p}, d \in Dates : Reverse(u, p, r, d)
  PROVE  \A q \in Payments : Aggregated(q)' => Unmoved(q)
<1> USE DEF SplitInvariant, ExecutionTypeOK, ApprovalTypeOK, Unmoved
<1>1. ASSUME NEW u \in Users, NEW c \in Contents, NEW d \in Dates, Create(u, p, c, d)
      PROVE  \A q \in Payments : Aggregated(q)' => Unmoved(q)
  BY <1>1 DEF Create, Aggregated, Aggregates, Counted
<1>2. ASSUME Act(p)
      PROVE  \A q \in Payments : Aggregated(q)' => Unmoved(q)
  <2>1. PICK i \in StepNumbers(p), u \in Users, from \in Users \cup {NoUser} :
          \/ \E reasoned \in BOOLEAN : Approve(u, p, i, from, reasoned)
          \/ Reject(u, p, i, from)
          \/ Return(u, p, i, from)
    BY <1>2 DEF Act
  <2>2. CASE \E reasoned \in BOOLEAN : Approve(u, p, i, from, reasoned)
    BY <2>2, PresentDocument DEF Approve, Moved, Aggregated, Aggregates, Counted, Snapshot
  <2>3. CASE Reject(u, p, i, from)
    BY <2>3, PresentDocument DEF Reject, Moved, Aggregated, Aggregates, Counted, Snapshot
  <2>4. CASE Return(u, p, i, from)
    BY <2>4, PresentDocument DEF Return, Moved, Aggregated, Aggregates, Counted, NoSnapshot
  <2> QED BY <2>1, <2>2, <2>3, <2>4
<1>3. ASSUME NEW u \in Users, Execute(u, p)
      PROVE  \A q \in Payments : Aggregated(q)' => Unmoved(q)
  BY <1>3, PresentDocument DEF Execute, Executable, Moved, Aggregated, Aggregates, Counted
<1>4. ASSUME NEW u \in Users, NEW r \in Payments \ {p}, NEW d \in Dates, Reverse(u, p, r, d)
      PROVE  \A q \in Payments : Aggregated(q)' => Unmoved(q)
  <2>1. snapshot[r] = NoSnapshot
    BY <1>4 DEF Reverse, AbsentIsBlank
  <2>2. ~Aggregated(r)'
    BY <1>4, <2>1 DEF Reverse, Aggregated, Aggregates, NoSnapshot
  <2>3. doc[p] \in Document /\ p # r
    BY <1>4, PresentDocument DEF Reverse, Reversible
  <2>4. doc'[p].state = "REVERSED"
    BY <1>4, <2>3 DEF Reverse, Moved, Document, AbsentDocument
  <2>5. ~Aggregated(p)'
    BY <2>4 DEF Aggregated, Counted
  <2> QED BY <1>4, <2>2, <2>5 DEF Reverse, Aggregated, Aggregates
<1> QED BY <1>1, <1>2, <1>3, <1>4

\* Outcomes and the external writer touch neither rows nor snapshots.
LEMMA ApprovalUntouched ==
  ASSUME NEW p \in Payments,
         \/ \E u \in Users, l \in Lines, outcome \in Negative \cup {"CONFIRMED"} :
              RecordOutcome(u, p, l, outcome)
         \/ External(p)
  PROVE  doc' = doc /\ snapshot' = snapshot
BY DEF RecordOutcome, External, ChangeReservation, Reserve, Allocate

\* Only existing documents get a snapshot.
LEMMA BlankKept ==
  ASSUME ExecutionTypeOK, AbsentIsBlank, Commit
  PROVE  AbsentIsBlank'
<1> USE DEF ExecutionTypeOK, ApprovalTypeOK, AbsentIsBlank
<1>1. ASSUME NEW p \in Payments, NEW u \in Users, NEW c \in Contents, NEW d \in Dates,
             Create(u, p, c, d)
      PROVE  AbsentIsBlank'
  BY <1>1 DEF Create
<1>2. ASSUME NEW p \in Payments, NEW u \in Users, Submit(u, p)
      PROVE  AbsentIsBlank'
  BY <1>2, PresentDocument DEF Submit, Moved
<1>3. ASSUME NEW p \in Payments, Act(p)
      PROVE  AbsentIsBlank'
  <2>1. doc'[p].state # "ABSENT" /\ \A q \in Payments \ {p} :
          doc'[q] = doc[q] /\ snapshot'[q] = snapshot[q]
    <3>1. PICK i \in StepNumbers(p), u \in Users, from \in Users \cup {NoUser} :
            \/ \E reasoned \in BOOLEAN : Approve(u, p, i, from, reasoned)
            \/ Reject(u, p, i, from)
            \/ Return(u, p, i, from)
      BY <1>3 DEF Act
    <3>2. doc[p].state # "ABSENT" /\ StateAfterApproval(p, i) # "ABSENT"
      BY <3>1 DEF Approve, Reject, Return, StateAfterApproval
    <3>3. CASE \E reasoned \in BOOLEAN : Approve(u, p, i, from, reasoned)
      BY <3>2, <3>3, PresentDocument DEF Approve, Moved
    <3>4. CASE Reject(u, p, i, from)
      BY <3>2, <3>4, PresentDocument DEF Reject, Moved
    <3>5. CASE Return(u, p, i, from)
      BY <3>2, <3>5, PresentDocument DEF Return, Moved
    <3> QED BY <3>1, <3>3, <3>4, <3>5
  <2> QED BY <2>1
<1>4. ASSUME NEW p \in Payments, NEW u \in Users, Execute(u, p)
      PROVE  AbsentIsBlank'
  BY <1>4 DEF Execute, Executable, Moved
<1>5. ASSUME NEW p \in Payments, NEW u \in Users, NEW r \in Payments \ {p}, NEW d \in Dates,
             Reverse(u, p, r, d)
      PROVE  AbsentIsBlank'
  BY <1>5, PresentDocument DEF Reverse, Reversible, ReversalOf, Moved
<1> QED BY <1>1, <1>2, <1>3, <1>4, <1>5, ApprovalUntouched DEF Commit, ApprovalNext

\* Of two aggregated payments of one group, the later submission counted the
\* earlier one, in every reachable state: no order of submissions, approvals,
\* returns, executions and reversals hides a part of a split payment.
THEOREM SplitSeen == Spec => []SplitIsSeen
<1>1. Init => SplitInvariant
  BY TypeInitially DEF Init, ApprovalInit, SplitInvariant, AbsentIsBlank, SplitIsSeen, Aggregated,
         Counted, AbsentDocument
<1>2. SplitInvariant /\ [Next]_vars => SplitInvariant'
  <2> SUFFICES ASSUME SplitInvariant, [Next]_vars
               PROVE  SplitInvariant'
    OBVIOUS
  <2>1. ExecutionTypeOK'
    BY TypeKept DEF SplitInvariant
  <2>2. AbsentIsBlank'
    BY BlankKept, StepCases DEF SplitInvariant, AbsentIsBlank, rows
  <2>3. ASSUME NEW p \in Payments, NEW u \in Users, Submit(u, p)
        PROVE  SplitIsSeen'
    BY <2>3, SubmissionCounts
  <2>4. ASSUME NEW p \in Payments,
               \/ \E u \in Users, c \in Contents, d \in Dates : Create(u, p, c, d)
               \/ Act(p)
               \/ \E u \in Users : Execute(u, p)
               \/ \E u \in Users, r \in Payments \ {p}, d \in Dates : Reverse(u, p, r, d)
        PROVE  SplitIsSeen'
    BY <2>4, OtherCommandsKeepGroups, GroupsKept DEF SplitInvariant
  <2>5. ASSUME doc' = doc, snapshot' = snapshot
        PROVE  SplitIsSeen'
    <3>1. ASSUME NEW p \in Payments, Aggregated(p)'
          PROVE  Unmoved(p)
      <4>1. Aggregated(p)
        BY <2>5, <3>1 DEF Aggregated, Aggregates
      <4> QED BY <2>5, <4>1 DEF Unmoved
    <3> QED BY <3>1, GroupsKept DEF SplitInvariant
  <2>6. SplitIsSeen'
    BY <2>3, <2>4, <2>5, StepCases, ApprovalUntouched DEF Commit, ApprovalNext, rows
  <2> QED BY <2>1, <2>2, <2>6 DEF SplitInvariant
<1>3. SplitInvariant => SplitIsSeen
  BY DEF SplitInvariant
<1> QED BY <1>1, <1>2, <1>3, PTL DEF Spec

-------------------------------------------------------------------------------
(* Approvals are complete.                                                 *)

\* No reachable state has a snapshot on a document that does not exist.
LEMMA BlankAlways == Spec => []AbsentIsBlank
<1>1. Init => AbsentIsBlank
  BY DEF Init, ApprovalInit, AbsentIsBlank, AbsentDocument
<1>2. ExecutionTypeOK /\ AbsentIsBlank /\ [Next]_vars => AbsentIsBlank'
  BY BlankKept, StepCases DEF rows, AbsentIsBlank
<1> QED BY <1>1, <1>2, TypeCorrect, PTL DEF Spec

\* The recorded actions are finitely many, and none at a step that forbids it is
\* by or for the creator.
WellRecorded(p) ==
  /\ IsFiniteSet(snapshot[p].actions)
  /\ \A a \in snapshot[p].actions :
       /\ a.kind = "APPROVED"
       /\ a.step # 0
       /\ "CREATOR_NOT_APPROVER" \in StepsOf(p)[a.step].rules
       => doc[p].creator \notin {a.actor, a.from}

\* An approved payment has a policy and no step left to approve.
NothingLeft(p) ==
  doc[p].state = "APPROVED" => snapshot[p].policy # NoPolicy /\ Incomplete(p) = {}

CompleteInvariant ==
  /\ ExecutionTypeOK
  /\ AbsentIsBlank
  /\ \A p \in Payments : WellRecorded(p) /\ NothingLeft(p)

\* The steps of a policy are numbered from one.
LEMMA StepsType ==
  ASSUME ExecutionTypeOK, NEW p \in Payments, snapshot[p].policy # NoPolicy
  PROVE  /\ StepsOf(p) \in Seq(Step)
         /\ DOMAIN StepsOf(p) = 1 .. Len(StepsOf(p))
         /\ \A i \in DOMAIN StepsOf(p) : i \in Nat \ {0} /\ StepsOf(p)[i].required \in Nat
<1>1. snapshot[p].policy \in Policies
  BY DEF ExecutionTypeOK, ApprovalTypeOK, Snapshot
<1>2. StepsOf(p) \in Seq(Step)
  BY <1>1, PaymentAssumption DEF StepsOf
<1>3. DOMAIN StepsOf(p) = 1 .. Len(StepsOf(p)) /\ Len(StepsOf(p)) \in Nat
  BY <1>2
<1>4. ASSUME NEW i \in DOMAIN StepsOf(p)
      PROVE  i \in Nat \ {0} /\ StepsOf(p)[i].required \in Nat
  <2>1. StepsOf(p)[i] \in Step
    BY <1>2
  <2>2. StepsOf(p)[i].required \in Nat \ {0}
    BY <2>1 DEF Step
  <2> QED BY <1>3, <2>2
<1> QED BY <1>2, <1>3, <1>4

\* The approvers of a step are finitely many.
LEMMA ApproversFinite ==
  ASSUME NEW p \in Payments, WellRecorded(p), NEW i
  PROVE  IsFiniteSet(Approvers(p, i)) /\ Cardinality(Approvers(p, i)) \in Nat
<1> DEFINE S == {b \in snapshot[p].actions : b.step = i /\ b.kind = "APPROVED"}
           f == [a \in S |-> a.actor]
<1>1. IsFiniteSet(S)
  BY FS_Subset DEF WellRecorded
<1>2. f \in Surjection(S, Approvers(p, i))
  BY DEF Surjection, Approvers
<1>3. IsFiniteSet(Approvers(p, i))
  <2> HIDE DEF S, f
  <2> QED BY <1>1, <1>2, FS_Surjection
<1> QED BY <1>3, FS_CardinalityType

\* A payment without incomplete steps is fully approved.
LEMMA NothingLeftIsComplete ==
  ASSUME ExecutionTypeOK, NEW p \in Payments, WellRecorded(p),
         snapshot[p].policy # NoPolicy, Incomplete(p) = {}
  PROVE  FullyApproved(p)
<1> SUFFICES ASSUME NEW i \in DOMAIN StepsOf(p)
             PROVE  Cardinality({a.actor : a \in {b \in snapshot[p].actions :
                      /\ b.step = i
                      /\ b.kind = "APPROVED"
                      /\ "CREATOR_NOT_APPROVER" \in StepsOf(p)[i].rules =>
                           doc[p].creator \notin {b.actor, b.from}}}) >= StepsOf(p)[i].required
  BY DEF FullyApproved
<1>1. i # 0 /\ StepsOf(p)[i].required \in Nat
  BY StepsType
<1>2. {b \in snapshot[p].actions :
         /\ b.step = i
         /\ b.kind = "APPROVED"
         /\ "CREATOR_NOT_APPROVER" \in StepsOf(p)[i].rules =>
              doc[p].creator \notin {b.actor, b.from}}
       = {b \in snapshot[p].actions : b.step = i /\ b.kind = "APPROVED"}
  BY <1>1 DEF WellRecorded
<1>3. ~(Cardinality(Approvers(p, i)) < StepsOf(p)[i].required)
  BY DEF Incomplete
<1>4. Cardinality(Approvers(p, i)) >= StepsOf(p)[i].required
  BY <1>1, <1>3, ApproversFinite
<1> QED BY <1>2, <1>4 DEF Approvers

\* What was complete stays so where the snapshot and the creator stay.
LEMMA CompleteKept ==
  ASSUME NEW p \in Payments, WellRecorded(p), NothingLeft(p), snapshot'[p] = snapshot[p],
         doc'[p].creator = doc[p].creator,
         doc'[p].state = "APPROVED" => doc[p].state = "APPROVED"
  PROVE  WellRecorded(p)' /\ NothingLeft(p)'
BY DEF WellRecorded, NothingLeft, Incomplete, Approvers, StepsOf

\* A snapshot without actions is well recorded.
LEMMA NothingRecorded ==
  ASSUME NEW p, snapshot[p].actions = {}
  PROVE  WellRecorded(p)
BY FS_EmptySet DEF WellRecorded

\* An approval counts one more user at its own step, and completes the payment
\* only at the last step, when the other steps are complete.
LEMMA ApproveCompletes ==
  ASSUME CompleteInvariant, NEW p \in Payments, NEW u \in Users, NEW i \in StepNumbers(p),
         NEW from \in Users \cup {NoUser}, NEW reasoned \in BOOLEAN,
         Approve(u, p, i, from, reasoned)
  PROVE  WellRecorded(p)' /\ NothingLeft(p)'
<1> USE DEF CompleteInvariant
<1> DEFINE a == [step |-> i, actor |-> u, from |-> from, kind |-> "APPROVED",
                 reasoned |-> reasoned]
<1>1. /\ snapshot'[p].policy = snapshot[p].policy
      /\ snapshot'[p].actions = snapshot[p].actions \cup {a}
  BY DEF Approve, Recorded, ExecutionTypeOK, ApprovalTypeOK, Snapshot
<1>2. StepsOf(p)' = StepsOf(p)
  BY <1>1 DEF StepsOf
<1>3. doc'[p].creator = doc[p].creator /\ doc'[p].state = StateAfterApproval(p, i)
  BY PresentDocument DEF Approve, Moved, ExecutionTypeOK, ApprovalTypeOK
<1>4. snapshot[p].policy # NoPolicy /\ i \in DOMAIN StepsOf(p) /\ i \in Nat \ {0}
  BY StepsType DEF Approve, MayAct, IsCurrentStep, Incomplete
<1>5. a.step = i /\ a.actor = u /\ a.from = from /\ a.kind = "APPROVED"
  OBVIOUS
<1> HIDE DEF a
<1>6. IsFiniteSet(snapshot[p].actions)
  BY DEF WellRecorded
<1>7. WellRecorded(p)'
  <2>1. IsFiniteSet(snapshot'[p].actions)
    BY <1>1, <1>6, FS_AddElement
  <2>2. "CREATOR_NOT_APPROVER" \in StepsOf(p)[i].rules => doc[p].creator \notin {u, from}
    BY <1>4 DEF Approve, MayAct, Eligible
  <2> QED BY <1>1, <1>2, <1>3, <1>5, <2>1, <2>2 DEF WellRecorded
<1>8. /\ Approvers(p, i)' = Approvers(p, i) \cup {u}
      /\ \A j \in DOMAIN StepsOf(p) \ {i} : Approvers(p, j)' = Approvers(p, j)
  <2>1. {b \in snapshot'[p].actions : b.step = i /\ b.kind = "APPROVED"}
          = {b \in snapshot[p].actions : b.step = i /\ b.kind = "APPROVED"} \cup {a}
    BY <1>1, <1>5
  <2>2. Approvers(p, i)' = Approvers(p, i) \cup {u}
    BY <1>5, <2>1 DEF Approvers
  <2>3. ASSUME NEW j \in DOMAIN StepsOf(p) \ {i}
        PROVE  Approvers(p, j)' = Approvers(p, j)
    <3>1. {b \in snapshot'[p].actions : b.step = j /\ b.kind = "APPROVED"}
            = {b \in snapshot[p].actions : b.step = j /\ b.kind = "APPROVED"}
      BY <1>1, <1>5
    <3> QED BY <3>1 DEF Approvers
  <2> QED BY <2>2, <2>3
<1>9. ASSUME doc'[p].state = "APPROVED", NEW j \in DOMAIN StepsOf(p)
      PROVE  ~(Cardinality(Approvers(p, j)') < StepsOf(p)[j].required)
  <2>1. /\ Cardinality(Approvers(p, i)) + 1 >= StepsOf(p)[i].required
        /\ i = Len(StepsOf(p))
    BY <1>3, <1>9 DEF StateAfterApproval
  <2>2. CASE j = i
    <3>1. u \notin Approvers(p, i)
      BY DEF Approve, MayAct, NotYetActed, Approvers
    <3>2. Cardinality(Approvers(p, i) \cup {u}) = Cardinality(Approvers(p, i)) + 1
      BY <3>1, ApproversFinite, FS_AddElement
    <3>3. Cardinality(Approvers(p, i)) \in Nat /\ StepsOf(p)[i].required \in Nat
      BY <1>4, ApproversFinite, StepsType
    <3>4. Cardinality(Approvers(p, j)') = Cardinality(Approvers(p, i)) + 1
      BY <1>8, <2>2, <3>2
    <3> QED BY <2>1, <2>2, <3>3, <3>4
  <2>3. CASE j # i
    <3>1. j \in Nat /\ j <= i
      BY <1>4, <2>1, StepsType
    <3>2. j \notin Incomplete(p)
      BY <1>4, <2>3, <3>1 DEF Approve, IsCurrentStep
    <3> QED BY <1>8, <2>3, <3>2 DEF Incomplete
  <2> QED BY <2>2, <2>3
<1>10. NothingLeft(p)'
  BY <1>1, <1>2, <1>4, <1>9 DEF NothingLeft, Incomplete
<1> QED BY <1>7, <1>10

\* So the approval commands keep the invariant,
LEMMA ApprovalCompletes ==
  ASSUME CompleteInvariant, ApprovalNext, NEW q \in Payments
  PROVE  WellRecorded(q)' /\ NothingLeft(q)'
<1> USE DEF CompleteInvariant
<1>1. ASSUME NEW p \in Payments, NEW u \in Users, NEW c \in Contents, NEW d \in Dates,
             Create(u, p, c, d)
      PROVE  WellRecorded(q)' /\ NothingLeft(q)'
  <2>1. snapshot' = snapshot /\ snapshot[p].actions = {} /\ doc'[p].state = "DRAFT"
    BY <1>1 DEF Create, AbsentIsBlank, NoSnapshot, ExecutionTypeOK, ApprovalTypeOK
  <2>2. q # p => doc'[q] = doc[q]
    BY <1>1 DEF Create
  <2>3. CASE q = p
    BY <2>1, <2>3, NothingRecorded DEF NothingLeft, WellRecorded
  <2>4. CASE q # p
    BY <2>1, <2>2, <2>4, CompleteKept
  <2> QED BY <2>3, <2>4
<1>2. ASSUME NEW p \in Payments, NEW u \in Users, Submit(u, p)
      PROVE  WellRecorded(q)' /\ NothingLeft(q)'
  <2>1. snapshot'[p] = Submission(p) /\ Submission(p).policy # NoPolicy
        /\ Submission(p).actions = {}
    BY <1>2 DEF Submit, Submission, ExecutionTypeOK, ApprovalTypeOK
  <2>2. q # p => doc'[q] = doc[q] /\ snapshot'[q] = snapshot[q]
    BY <1>2 DEF Submit
  <2>3. WellRecorded(p)'
    BY <2>1, FS_EmptySet DEF WellRecorded
  <2>4. doc'[p].state = "APPROVED" => Steps[Submission(p).policy] = <<>>
    BY <1>2, PresentDocument DEF Submit, Moved, ExecutionTypeOK, ApprovalTypeOK
  <2>5. NothingLeft(p)'
    BY <2>1, <2>4 DEF NothingLeft, Incomplete, StepsOf
  <2> QED BY <2>2, <2>3, <2>5, CompleteKept
<1>3. ASSUME NEW p \in Payments, Act(p)
      PROVE  WellRecorded(q)' /\ NothingLeft(q)'
  <2>1. PICK i \in StepNumbers(p), u \in Users, from \in Users \cup {NoUser} :
          \/ \E reasoned \in BOOLEAN : Approve(u, p, i, from, reasoned)
          \/ Reject(u, p, i, from)
          \/ Return(u, p, i, from)
    BY <1>3 DEF Act
  <2>2. q # p => doc'[q] = doc[q] /\ snapshot'[q] = snapshot[q]
    BY <2>1 DEF Approve, Reject, Return, ExecutionTypeOK, ApprovalTypeOK
  <2>3. CASE q # p
    BY <2>2, <2>3, CompleteKept
  <2>4. ASSUME NEW reasoned \in BOOLEAN, Approve(u, p, i, from, reasoned)
        PROVE  WellRecorded(p)' /\ NothingLeft(p)'
    BY <2>4, ApproveCompletes
  <2>5. ASSUME Reject(u, p, i, from)
        PROVE  WellRecorded(p)' /\ NothingLeft(p)'
    <3> DEFINE a == [step |-> i, actor |-> u, from |-> from, kind |-> "REJECTED",
                     reasoned |-> TRUE]
    <3>1. /\ snapshot'[p].policy = snapshot[p].policy
          /\ snapshot'[p].actions = snapshot[p].actions \cup {a}
      BY <2>5 DEF Reject, Recorded, ExecutionTypeOK, ApprovalTypeOK, Snapshot
    <3>2. doc'[p].creator = doc[p].creator /\ doc'[p].state = "REJECTED"
      BY <2>5, PresentDocument DEF Reject, Moved, ExecutionTypeOK, ApprovalTypeOK
    <3>3. a.kind = "REJECTED"
      OBVIOUS
    <3> HIDE DEF a
    <3>4. IsFiniteSet(snapshot[p].actions)
      BY DEF WellRecorded
    <3>5. IsFiniteSet(snapshot'[p].actions)
      BY <3>1, <3>4, FS_AddElement
    <3> QED BY <3>1, <3>2, <3>3, <3>5 DEF WellRecorded, NothingLeft, StepsOf
  <2>6. ASSUME Return(u, p, i, from)
        PROVE  WellRecorded(p)' /\ NothingLeft(p)'
    <3>1. snapshot'[p] = NoSnapshot /\ doc'[p].state = "DRAFT"
      BY <2>6, PresentDocument DEF Return, Moved, ExecutionTypeOK, ApprovalTypeOK
    <3> QED BY <3>1, FS_EmptySet DEF WellRecorded, NothingLeft, NoSnapshot
  <2> QED BY <2>1, <2>3, <2>4, <2>5, <2>6
<1> QED BY <1>1, <1>2, <1>3 DEF ApprovalNext

\* and the other commands leave it.
LEMMA ExecutionCompletes ==
  ASSUME CompleteInvariant, [Next]_vars
  PROVE  CompleteInvariant'
<1> USE DEF CompleteInvariant
<1>1. ExecutionTypeOK' /\ AbsentIsBlank'
  BY TypeKept, BlankKept, StepCases DEF rows, AbsentIsBlank
<1>2. ASSUME ApprovalNext, NEW q \in Payments
      PROVE  WellRecorded(q)' /\ NothingLeft(q)'
  BY <1>2, ApprovalCompletes
<1>3. ASSUME NEW p \in Payments, NEW u \in Users, Execute(u, p), NEW q \in Payments
      PROVE  WellRecorded(q)' /\ NothingLeft(q)'
  <2>1. snapshot' = snapshot /\ doc'[p].state = "EXECUTED" /\ (q # p => doc'[q] = doc[q])
    BY <1>3, ExecuteMoves
  <2>2. doc'[p].creator = doc[p].creator
    BY <1>3, PresentDocument DEF Execute, Executable, Moved, ExecutionTypeOK, ApprovalTypeOK
  <2> QED BY <2>1, <2>2, CompleteKept
<1>4. ASSUME NEW p \in Payments, NEW u \in Users, NEW r \in Payments \ {p}, NEW d \in Dates,
             Reverse(u, p, r, d), NEW q \in Payments
      PROVE  WellRecorded(q)' /\ NothingLeft(q)'
  <2>1. /\ snapshot' = snapshot /\ doc'[p].state = "REVERSED"
        /\ doc'[p].creator = doc[p].creator
        /\ doc[r].state = "ABSENT" /\ doc'[r].state = "EXECUTED"
        /\ (q \notin {p, r} => doc'[q] = doc[q])
    BY <1>4, ReverseMoves
  <2>2. CASE q = r
    BY <2>1, <2>2, FS_EmptySet DEF AbsentIsBlank, NoSnapshot, WellRecorded, NothingLeft
  <2>3. CASE q # r
    BY <2>1, <2>3, CompleteKept
  <2> QED BY <2>2, <2>3
<1>5. ASSUME doc' = doc, snapshot' = snapshot, NEW q \in Payments
      PROVE  WellRecorded(q)' /\ NothingLeft(q)'
  BY <1>5, CompleteKept
<1>6. \A q \in Payments : WellRecorded(q)' /\ NothingLeft(q)'
  <2> SUFFICES ASSUME NEW q \in Payments
               PROVE  WellRecorded(q)' /\ NothingLeft(q)'
    OBVIOUS
  <2> QED BY <1>2, <1>3, <1>4, <1>5, StepCases, ApprovalUntouched DEF Commit, rows
<1> QED BY <1>1, <1>6

LEMMA CompleteAlways == Spec => []CompleteInvariant
<1>1. Init => CompleteInvariant
  <2> SUFFICES ASSUME Init
               PROVE  CompleteInvariant
    OBVIOUS
  <2>1. \A p \in Payments : doc[p].state = "ABSENT" /\ snapshot[p] = NoSnapshot
    BY DEF Init, ApprovalInit, AbsentDocument
  <2> QED BY <2>1, TypeInitially, FS_EmptySet
       DEF CompleteInvariant, AbsentIsBlank, WellRecorded, NothingLeft, NoSnapshot
<1> QED BY <1>1, ExecutionCompletes, PTL DEF Spec

\* What is approved was approved at every step by the required number of
\* different users, none of them nor of those they acted for the creator where
\* the step forbids it, however the commands of the users interleave.
THEOREM ApprovalsComplete == Spec => []ApprovedIsComplete
<1>1. CompleteInvariant => ApprovedIsComplete
  BY NothingLeftIsComplete DEF CompleteInvariant, NothingLeft, ApprovedIsComplete
<1> QED BY <1>1, CompleteAlways, PTL
-------------------------------------------------------------------------------
(* Groups are judged on their totals.                                      *)

\* A group of aggregated payments, or a part of one.
IsGroup(T) ==
  /\ T # {}
  /\ \A p \in T : Aggregated(p)
  /\ \A p, q \in T : SameGroup(p, q)

\* In every part of a group one member counted all the others: the one that was
\* submitted last.
PartsAreSeen ==
  \A T \in SUBSET Payments :
    IsGroup(T) => \E q \in T : T \ {q} \subseteq CountedIn(q)

\* The counted payments exist, so their contents are final; the basis is their
\* sum and p's own amount, and it is the amount the policy was resolved on.
BasisIsRecorded(p) ==
  Aggregates(p) =>
    /\ \A q \in CountedIn(p) : q \in Payments \ {p} /\ doc[q].state # "ABSENT"
    /\ snapshot[p].basis = TotalOf(CountedIn(p) \cup {p})
    /\ snapshot[p].policy = Resolve(Context[doc[p].content], snapshot[p].basis)

GroupInvariant ==
  /\ ExecutionTypeOK
  /\ AbsentIsBlank
  /\ PartsAreSeen
  /\ \A p \in Payments : BasisIsRecorded(p)

\* What a payment asks for is fixed when it is created.
LEMMA ContentsKept ==
  ASSUME ExecutionTypeOK, [Next]_vars, NEW q \in Payments, doc[q].state # "ABSENT"
  PROVE  /\ doc'[q].state # "ABSENT"
         /\ doc'[q].content = doc[q].content
         /\ doc'[q].date = doc[q].date
<1> DEFINE Kept == /\ doc'[q].state # "ABSENT"
                   /\ doc'[q].content = doc[q].content
                   /\ doc'[q].date = doc[q].date
<1> USE DEF ExecutionTypeOK, ApprovalTypeOK
<1>1. ASSUME NEW p \in Payments, NEW u \in Users, NEW c \in Contents, NEW d \in Dates,
             Create(u, p, c, d)
      PROVE  Kept
  BY <1>1 DEF Create
<1>2. ASSUME NEW p \in Payments, NEW u \in Users, Submit(u, p)
      PROVE  Kept
  BY <1>2, PresentDocument DEF Submit, Moved
<1>3. ASSUME NEW p \in Payments, Act(p)
      PROVE  Kept
  <2>1. PICK i \in StepNumbers(p), u \in Users, from \in Users \cup {NoUser} :
          \/ \E reasoned \in BOOLEAN : Approve(u, p, i, from, reasoned)
          \/ Reject(u, p, i, from)
          \/ Return(u, p, i, from)
    BY <1>3 DEF Act
  <2>2. PICK state \in States \ {"ABSENT"} : doc' = [doc EXCEPT ![p] = Moved(@, state)]
    BY <2>1 DEF Approve, Reject, Return, StateAfterApproval, States
  <2> QED BY <2>2, PresentDocument DEF Moved
<1>4. ASSUME NEW p \in Payments, NEW u \in Users, Execute(u, p)
      PROVE  Kept
  BY <1>4, PresentDocument DEF Execute, Executable, Moved
<1>5. ASSUME NEW p \in Payments, NEW u \in Users, NEW r \in Payments \ {p}, NEW d \in Dates,
             Reverse(u, p, r, d)
      PROVE  Kept
  BY <1>5, PresentDocument DEF Reverse, Reversible, Moved
<1>6. ASSUME doc' = doc
      PROVE  Kept
  BY <1>6
<1> HIDE DEF Kept
<1>7. Kept
  BY <1>1, <1>2, <1>3, <1>4, <1>5, <1>6, StepCases, ApprovalUntouched
     DEF Commit, ApprovalNext, rows
<1> QED BY <1>7 DEF Kept

\* The total of a set of payments depends on their contents alone,
LEMMA TotalKept ==
  ASSUME NEW S, \A q \in S : doc'[q].content = doc[q].content
  PROVE  TotalOf(S)' = TotalOf(S)
<1> DEFINE f == [q \in S |-> Amount[doc[q].content]]
           g == [q \in S |-> Amount[doc'[q].content]]
<1>1. f = g
  OBVIOUS
<1> QED BY <1>1 DEF TotalOf

\* and the total of a part is at most that of the whole.
LEMMA TotalMonotone ==
  ASSUME ApprovalTypeOK, NEW S \in SUBSET Payments, \A q \in S : doc[q].state # "ABSENT",
         NEW T \in SUBSET S
  PROVE  /\ TotalOf(S) \in Nat
         /\ TotalOf(T) <= TotalOf(S)
<1> DEFINE f == [q \in S |-> Amount[doc[q].content]]
           g == [q \in T |-> Amount[doc[q].content]]
<1>1. \A q \in S : f[q] \in Nat
  BY PresentDocument, PaymentAssumption
<1>2. \A q \in T : f[q] = g[q]
  OBVIOUS
<1>3. IsFiniteSet(S)
  BY PaymentAssumption, FS_Subset
<1> HIDE DEF f, g
<1>4. Sum(T, f) <= Sum(S, f) /\ Sum(S, f) \in Nat
  BY <1>1, <1>3, SumMonotone, SumType
<1>5. Sum(T, f) = Sum(T, g)
  BY <1>2, SumSame
<1> QED BY <1>4, <1>5 DEF TotalOf, f, g

\* A step that brings no payment into a group keeps its parts seen.
LEMMA PartsKept ==
  ASSUME PartsAreSeen, \A p \in Payments : Aggregated(p)' => Unmoved(p)
  PROVE  PartsAreSeen'
<1> SUFFICES ASSUME NEW T \in SUBSET Payments, IsGroup(T)'
             PROVE  \E q \in T : T \ {q} \subseteq CountedIn(q)'
  BY DEF PartsAreSeen
<1>1. \A p \in T : Unmoved(p)
  BY DEF IsGroup
<1>2. IsGroup(T)
  BY <1>1 DEF IsGroup, Unmoved, SameGroup
<1>3. PICK q \in T : T \ {q} \subseteq CountedIn(q)
  BY <1>2 DEF PartsAreSeen
<1>4. CountedIn(q)' = CountedIn(q)
  BY <1>1 DEF Unmoved, CountedIn
<1> QED BY <1>3, <1>4

\* What a submission does to the row and the snapshot it writes.
LEMMA SubmitWrites ==
  ASSUME ExecutionTypeOK, NEW u \in Users, NEW p \in Payments, Submit(u, p)
  PROVE  /\ doc[p].state = "DRAFT"
         /\ doc'[p].date = doc[p].date /\ doc'[p].content = doc[p].content
         /\ \A q \in Payments \ {p} : doc'[q] = doc[q] /\ snapshot'[q] = snapshot[q]
         /\ snapshot'[p] = Submission(p)
         /\ Resolve(Context[doc[p].content], Submission(p).basis) = Submission(p).policy
BY PresentDocument DEF Submit, Moved, ExecutionTypeOK, ApprovalTypeOK

\* The payments a submission or fresh evidence names are those of the group.
LEMMA EvidenceNames ==
  ASSUME NEW p
  PROVE  {e[1] : e \in Evidence(p)} = MatchingParticipants(p)
<1>1. ASSUME NEW e \in Evidence(p)
      PROVE  e[1] \in MatchingParticipants(p)
  BY DEF Evidence
<1>2. ASSUME NEW q \in MatchingParticipants(p)
      PROVE  \E e \in Evidence(p) : q = e[1]
  <2>1. <<q, doc[q].version>> \in Evidence(p)
    BY DEF Evidence
  <2> QED BY <2>1
<1> QED BY <1>1, <1>2

\* A submission counts every aggregated payment of its group, so it is the one
\* that saw each part it joins.
LEMMA SubmissionSeesParts ==
  ASSUME GroupInvariant, NEW u \in Users, NEW p \in Payments, Submit(u, p)
  PROVE  PartsAreSeen'
<1> USE DEF GroupInvariant
<1> SUFFICES ASSUME NEW T \in SUBSET Payments, IsGroup(T)'
             PROVE  \E q \in T : T \ {q} \subseteq CountedIn(q)'
  BY DEF PartsAreSeen
<1>1. /\ doc'[p].date = doc[p].date /\ doc'[p].content = doc[p].content
      /\ \A q \in Payments \ {p} : doc'[q] = doc[q] /\ snapshot'[q] = snapshot[q]
      /\ snapshot'[p] = Submission(p)
  BY SubmitWrites
<1>2. CASE p \in T
  <2>1. snapshot'[p].others = Evidence(p)
    BY <1>1, <1>2 DEF IsGroup, Aggregated, Aggregates, Submission
  <2>2. CountedIn(p)' = MatchingParticipants(p)
    BY <2>1, EvidenceNames DEF CountedIn
  <2>3. T \ {p} \subseteq MatchingParticipants(p)
    BY <1>1, <1>2 DEF IsGroup, Aggregated, MatchingParticipants, SameGroup
  <2> QED BY <1>2, <2>2, <2>3
<1>3. CASE p \notin T
  <2>1. \A q \in T : doc'[q] = doc[q] /\ snapshot'[q] = snapshot[q]
    BY <1>1, <1>3
  <2>2. IsGroup(T)
    BY <2>1 DEF IsGroup, Aggregated, Aggregates, SameGroup
  <2>3. PICK q \in T : T \ {q} \subseteq CountedIn(q)
    BY <2>2 DEF PartsAreSeen
  <2> QED BY <2>1, <2>3 DEF CountedIn
<1> QED BY <1>2, <1>3

\* The record of a payment's basis stays true while its snapshot stays.
LEMMA BasisKept ==
  ASSUME GroupInvariant, [Next]_vars, NEW p \in Payments,
         snapshot'[p].policy = snapshot[p].policy,
         snapshot'[p].basis = snapshot[p].basis,
         snapshot'[p].others = snapshot[p].others
  PROVE  BasisIsRecorded(p)'
<1> USE DEF GroupInvariant
<1> SUFFICES ASSUME Aggregates(p)'
             PROVE  (/\ \A q \in CountedIn(p) : q \in Payments \ {p} /\ doc[q].state # "ABSENT"
                     /\ snapshot[p].basis = TotalOf(CountedIn(p) \cup {p})
                     /\ snapshot[p].policy = Resolve(Context[doc[p].content], snapshot[p].basis))'
  BY DEF BasisIsRecorded
<1> DEFINE C == CountedIn(p) \cup {p}
<1>1. Aggregates(p)
  BY DEF Aggregates
<1>2. doc[p].state # "ABSENT"
  BY <1>1 DEF Aggregates, AbsentIsBlank, NoSnapshot
<1>3. \A q \in C : q \in Payments /\ doc[q].state # "ABSENT"
  BY <1>1, <1>2 DEF BasisIsRecorded
<1>4. \A q \in C : doc'[q].state # "ABSENT" /\ doc'[q].content = doc[q].content
  BY <1>3, ContentsKept
<1>5. TotalOf(C)' = TotalOf(CountedIn(p) \cup {p})
  BY <1>4, TotalKept DEF CountedIn
<1> QED BY <1>1, <1>4, <1>5 DEF BasisIsRecorded, CountedIn

\* A submission records it.
LEMMA SubmissionRecordsBasis ==
  ASSUME GroupInvariant, NEW u \in Users, NEW p \in Payments, Submit(u, p)
  PROVE  BasisIsRecorded(p)'
<1> USE DEF GroupInvariant
<1> SUFFICES ASSUME Aggregates(p)'
             PROVE  (/\ \A q \in CountedIn(p) : q \in Payments \ {p} /\ doc[q].state # "ABSENT"
                     /\ snapshot[p].basis = TotalOf(CountedIn(p) \cup {p})
                     /\ snapshot[p].policy = Resolve(Context[doc[p].content], snapshot[p].basis))'
  BY DEF BasisIsRecorded
<1>0. PICK M : M = MatchingParticipants(p)
  OBVIOUS
<1>1. /\ doc'[p].content = doc[p].content
      /\ \A q \in Payments \ {p} : doc'[q] = doc[q]
      /\ snapshot'[p] = Submission(p)
      /\ Resolve(Context[doc[p].content], Submission(p).basis) = Submission(p).policy
  BY SubmitWrites
<1>2. snapshot'[p].others = Evidence(p) /\ snapshot'[p].basis = TotalOf(M \cup {p})
  BY <1>0, <1>1 DEF Aggregates, Submission, LiveTotal
<1>3. CountedIn(p)' = M
  BY <1>0, <1>2, EvidenceNames DEF CountedIn
<1>4. \A q \in M : q \in Payments \ {p} /\ doc'[q].state # "ABSENT"
  BY <1>0, <1>1 DEF MatchingParticipants, Counted
<1>5. \A q \in M \cup {p} : doc'[q].content = doc[q].content
  BY <1>1, <1>4
<1>6. TotalOf(M \cup {p})' = TotalOf(M \cup {p})
  BY <1>5, TotalKept
<1>7. TotalOf(CountedIn(p) \cup {p})' = TotalOf(M \cup {p})
  BY <1>3, <1>6 DEF TotalOf
<1> QED BY <1>1, <1>2, <1>3, <1>4, <1>7

\* Creation, the actions, execution and reversal change no record but to clear it
\* or to add an action.
LEMMA OtherCommandsKeepBasis ==
  ASSUME GroupInvariant, NEW p \in Payments,
         \/ \E u \in Users, c \in Contents, d \in Dates : Create(u, p, c, d)
         \/ Act(p)
         \/ \E u \in Users : Execute(u, p)
         \/ \E u \in Users, r \in Payments \ {p}, d \in Dates : Reverse(u, p, r, d)
  PROVE  \A q \in Payments :
           Aggregates(q)' => /\ snapshot'[q].policy = snapshot[q].policy
                             /\ snapshot'[q].basis = snapshot[q].basis
                             /\ snapshot'[q].others = snapshot[q].others
<1> USE DEF GroupInvariant, ExecutionTypeOK, ApprovalTypeOK
<1> DEFINE Kept == \A q \in Payments :
             Aggregates(q)' => /\ snapshot'[q].policy = snapshot[q].policy
                               /\ snapshot'[q].basis = snapshot[q].basis
                               /\ snapshot'[q].others = snapshot[q].others
<1>1. ASSUME snapshot' = snapshot
      PROVE  Kept
  BY <1>1
<1>2. ASSUME Act(p)
      PROVE  Kept
  <2>1. PICK i \in StepNumbers(p), u \in Users, from \in Users \cup {NoUser} :
          \/ \E reasoned \in BOOLEAN : Approve(u, p, i, from, reasoned)
          \/ Reject(u, p, i, from)
          \/ Return(u, p, i, from)
    BY <1>2 DEF Act
  <2>2. CASE \E reasoned \in BOOLEAN : Approve(u, p, i, from, reasoned)
    BY <2>2 DEF Approve, Snapshot
  <2>3. CASE Reject(u, p, i, from)
    BY <2>3 DEF Reject, Snapshot
  <2>4. CASE Return(u, p, i, from)
    <3>1. ~Aggregates(p)'
      BY <2>4 DEF Return, Aggregates, NoSnapshot
    <3> QED BY <2>4, <3>1 DEF Return
  <2> QED BY <2>1, <2>2, <2>3, <2>4
<1> QED BY <1>1, <1>2 DEF Create, Execute, Reverse

\* Where the parts of a group are seen, so is each pair.
LEMMA PartsSeeSplits ==
  ASSUME PartsAreSeen
  PROVE  SplitIsSeen
<1> SUFFICES ASSUME NEW p \in Payments, NEW q \in Payments, p # q,
                    Aggregated(p), Aggregated(q), SameGroup(p, q)
             PROVE  q \in CountedIn(p) \/ p \in CountedIn(q)
  BY DEF SplitIsSeen
<1>1. IsGroup({p, q})
  BY DEF IsGroup, SameGroup
<1>2. PICK t \in {p, q} : {p, q} \ {t} \subseteq CountedIn(t)
  BY <1>1 DEF PartsAreSeen
<1> QED BY <1>2

\* Evidence that is fresh names the group as it is, so the basis is its total.
LEMMA FreshIsLive ==
  ASSUME GroupInvariant, NEW p \in Payments, Aggregates(p), AggregationFresh(p)
  PROVE  snapshot[p].basis = LiveTotal(p)
<1>1. CountedIn(p) = MatchingParticipants(p)
  BY EvidenceNames DEF AggregationFresh, CountedIn
<1> QED BY <1>1 DEF GroupInvariant, BasisIsRecorded, LiveTotal

\* So every step keeps the invariant.
LEMMA GroupKept ==
  ASSUME GroupInvariant, [Next]_vars
  PROVE  GroupInvariant'
<1> USE DEF GroupInvariant
<1> DEFINE Kept == PartsAreSeen' /\ \A q \in Payments : BasisIsRecorded(q)'
           Same(q) == /\ snapshot'[q].policy = snapshot[q].policy
                      /\ snapshot'[q].basis = snapshot[q].basis
                      /\ snapshot'[q].others = snapshot[q].others
<1>1. ExecutionTypeOK' /\ AbsentIsBlank'
  BY TypeKept, BlankKept, StepCases DEF rows, AbsentIsBlank
<1>2. ASSUME NEW q \in Payments, Aggregates(q)' => Same(q)
      PROVE  BasisIsRecorded(q)'
  <2>1. CASE Aggregates(q)'
    BY <1>2, <2>1, BasisKept
  <2>2. CASE ~Aggregates(q)'
    BY <2>2 DEF BasisIsRecorded
  <2> QED BY <2>1, <2>2
<1>3. ASSUME NEW p \in Payments, NEW u \in Users, Submit(u, p)
      PROVE  Kept
  <2>1. ASSUME NEW q \in Payments
        PROVE  BasisIsRecorded(q)'
    <3>1. CASE q = p
      BY <1>3, <3>1, SubmissionRecordsBasis
    <3>2. CASE q # p
      BY <1>2, <1>3, <3>2, SubmitWrites
    <3> QED BY <3>1, <3>2
  <2> QED BY <1>3, <2>1, SubmissionSeesParts
<1>4. ASSUME NEW p \in Payments,
             \/ \E u \in Users, c \in Contents, d \in Dates : Create(u, p, c, d)
             \/ Act(p)
             \/ \E u \in Users : Execute(u, p)
             \/ \E u \in Users, r \in Payments \ {p}, d \in Dates : Reverse(u, p, r, d)
      PROVE  Kept
  <2>1. \A q \in Payments : Aggregated(q)' => Unmoved(q)
    <3>1. SplitIsSeen
      BY PartsSeeSplits
    <3> QED BY <1>4, <3>1, OtherCommandsKeepGroups DEF SplitInvariant
  <2>2. \A q \in Payments : Aggregates(q)' => Same(q)
    BY <1>4, OtherCommandsKeepBasis
  <2> QED BY <1>2, <2>1, <2>2, PartsKept
<1>5. ASSUME doc' = doc, snapshot' = snapshot
      PROVE  Kept
  <2>1. \A q \in Payments : Aggregated(q)' => Unmoved(q)
    BY <1>5 DEF Aggregated, Aggregates, Unmoved
  <2> QED BY <1>2, <1>5, <2>1, PartsKept
<1> HIDE DEF Kept
<1>6. Kept
  BY <1>3, <1>4, <1>5, StepCases, ApprovalUntouched DEF Commit, ApprovalNext, rows
<1> QED BY <1>1, <1>6 DEF Kept

\* The invariant holds in every reachable state.
THEOREM GroupsInvariant == Spec => []GroupInvariant
<1>1. Init => GroupInvariant
  <2> SUFFICES ASSUME Init
               PROVE  GroupInvariant
    OBVIOUS
  <2>1. \A p \in Payments : doc[p].state = "ABSENT" /\ snapshot[p] = NoSnapshot
    BY DEF Init, ApprovalInit, AbsentDocument
  <2>2. \A p \in Payments : ~Aggregates(p)
    BY <2>1 DEF Aggregates, NoSnapshot
  <2>3. PartsAreSeen
    BY <2>2 DEF PartsAreSeen, IsGroup, Aggregated
  <2> QED BY <2>1, <2>2, <2>3, TypeInitially DEF GroupInvariant, AbsentIsBlank, BasisIsRecorded
<1> QED BY <1>1, GroupKept, PTL DEF Spec

\* Some member of every group was judged on at least what its members sum to, and
\* a pending payment with fresh evidence on exactly what there is now: in no
\* order of commands does a split payment pass unseen (submit, act).
THEOREM GroupTotals == Spec => []GroupTotalsHold
<1>1. GroupInvariant => SplitIsCovered
  <2> SUFFICES ASSUME GroupInvariant, NEW p \in Payments, Aggregated(p)
               PROVE  LET members == {q \in Payments : Aggregated(q) /\ SameGroup(p, q)}
                      IN  \E q \in members : snapshot[q].basis >= TotalOf(members)
    BY DEF SplitIsCovered
  <2> DEFINE members == {q \in Payments : Aggregated(q) /\ SameGroup(p, q)}
  <2>1. IsGroup(members)
    BY DEF IsGroup, SameGroup
  <2>2. PICK q \in members : members \ {q} \subseteq CountedIn(q)
    BY <2>1 DEF GroupInvariant, PartsAreSeen
  <2> DEFINE S == CountedIn(q) \cup {q}
  <2>3. BasisIsRecorded(q) /\ Aggregates(q)
    BY DEF GroupInvariant, Aggregated
  <2>4. \A r \in S : r \in Payments /\ doc[r].state # "ABSENT"
    BY <2>3 DEF BasisIsRecorded, Aggregated, Counted
  <2>5. members \subseteq S
    BY <2>2
  <2>6. ApprovalTypeOK /\ snapshot[q].basis = TotalOf(S)
    BY <2>3 DEF GroupInvariant, ExecutionTypeOK, BasisIsRecorded
  <2> HIDE DEF members, S
  <2>7. TotalOf(S) \in Nat /\ TotalOf(members) <= TotalOf(S)
    BY <2>4, <2>5, <2>6, TotalMonotone
  <2>8. snapshot[q].basis >= TotalOf(members)
    BY <2>6, <2>7
  <2> QED BY <2>8 DEF members
<1>2. GroupInvariant => FreshBasisIsLive
  <2> SUFFICES ASSUME GroupInvariant, NEW p \in Payments, Aggregates(p), AggregationFresh(p)
               PROVE  snapshot[p].basis = LiveTotal(p)
    BY DEF FreshBasisIsLive
  <2> QED BY FreshIsLive
<1>3. GroupInvariant => GroupTotalsHold
  BY <1>1, <1>2 DEF GroupTotalsHold
<1> QED BY <1>3, GroupsInvariant, PTL

\* The live total of a payment changes only with the other rows.
LEMMA LiveTotalKept ==
  ASSUME ApprovalTypeOK, NEW p \in Payments,
         doc'[p].content = doc[p].content, doc'[p].date = doc[p].date,
         \A q \in Payments \ {p} : doc'[q] = doc[q]
  PROVE  LiveTotal(p)' = LiveTotal(p)
<1>0. PICK M : M = MatchingParticipants(p)
  OBVIOUS
<1>1. MatchingParticipants(p)' = M
  BY <1>0 DEF MatchingParticipants, SameGroup
<1>2. \A q \in M \cup {p} : doc'[q].content = doc[q].content
  BY <1>0 DEF MatchingParticipants
<1>3. TotalOf(M \cup {p})' = TotalOf(M \cup {p})
  BY <1>2, TotalKept
<1> QED BY <1>0, <1>1, <1>3 DEF LiveTotal, TotalOf

\* What an approval or a submission finds when it makes a payment approved.
LEMMA ApprovedOnTotal ==
  ASSUME GroupInvariant, Commit, NEW p \in Payments,
         doc[p].state # "APPROVED", doc'[p].state = "APPROVED", Aggregates(p)'
  PROVE  snapshot'[p].policy = Resolve(Context[doc'[p].content], LiveTotal(p)')
<1> USE DEF GroupInvariant
<1>1. ASSUME NEW u \in Users, Submit(u, p)
      PROVE  snapshot'[p].policy = Resolve(Context[doc'[p].content], LiveTotal(p)')
  <2>1. LiveTotal(p)' = LiveTotal(p) /\ doc'[p].content = doc[p].content
    BY <1>1, SubmitWrites, LiveTotalKept DEF ExecutionTypeOK
  <2>2. /\ snapshot'[p] = Submission(p)
        /\ Resolve(Context[doc[p].content], Submission(p).basis) = Submission(p).policy
    BY <1>1, SubmitWrites
  <2>3. Submission(p).basis = LiveTotal(p)
    BY <2>2 DEF Aggregates, Submission
  <2> QED BY <2>1, <2>2, <2>3
<1>2. ASSUME NEW u \in Users, NEW i \in StepNumbers(p), NEW from \in Users \cup {NoUser},
             NEW reasoned \in BOOLEAN, Approve(u, p, i, from, reasoned)
      PROVE  snapshot'[p].policy = Resolve(Context[doc'[p].content], LiveTotal(p)')
  <2>1. /\ doc'[p].content = doc[p].content /\ doc'[p].date = doc[p].date
        /\ \A q \in Payments \ {p} : doc'[q] = doc[q]
    BY <1>2, PresentDocument DEF Approve, Moved, ExecutionTypeOK, ApprovalTypeOK
  <2>2. snapshot'[p].policy = snapshot[p].policy
    BY <1>2 DEF Approve, ExecutionTypeOK, ApprovalTypeOK, Snapshot
  <2>3. LiveTotal(p)' = LiveTotal(p)
    BY <2>1, LiveTotalKept DEF ExecutionTypeOK
  <2>4. Aggregates(p) /\ AggregationFresh(p)
    BY <1>2, <2>2 DEF Aggregates, Approve, MayAct
  <2>5. snapshot[p].basis = LiveTotal(p)
    BY <2>4, FreshIsLive
  <2> QED BY <2>1, <2>2, <2>3, <2>4, <2>5 DEF BasisIsRecorded
<1>3. ASSUME NEW q \in Payments, NEW u \in Users, NEW i \in StepNumbers(q),
             NEW from \in Users \cup {NoUser},
             \/ Reject(u, q, i, from)
             \/ Return(u, q, i, from)
      PROVE  FALSE
  <2>1. PICK state \in {"REJECTED", "DRAFT"} : doc' = [doc EXCEPT ![q] = Moved(@, state)]
    BY <1>3 DEF Reject, Return
  <2>2. doc[q].state # "ABSENT"
    BY <1>3 DEF Reject, Return
  <2> QED BY <2>1, <2>2, PresentDocument DEF Moved, ExecutionTypeOK, ApprovalTypeOK
<1>4. ASSUME NEW q \in Payments, NEW u \in Users, NEW c \in Contents, NEW d \in Dates,
             Create(u, q, c, d)
      PROVE  FALSE
  BY <1>4 DEF Create, ExecutionTypeOK, ApprovalTypeOK
<1>5. ASSUME NEW q \in Payments \ {p}, NEW u \in Users, NEW i \in StepNumbers(q),
             NEW from \in Users \cup {NoUser}, NEW reasoned \in BOOLEAN,
             Approve(u, q, i, from, reasoned)
      PROVE  FALSE
  BY <1>5 DEF Approve, ExecutionTypeOK, ApprovalTypeOK
<1>6. ASSUME NEW q \in Payments, NEW u \in Users, Execute(u, q)
      PROVE  FALSE
  BY <1>6, ExecuteMoves
<1>7. ASSUME NEW q \in Payments, NEW u \in Users, NEW r \in Payments \ {q}, NEW d \in Dates,
             Reverse(u, q, r, d)
      PROVE  FALSE
  BY <1>7, ReverseMoves
<1>8. ASSUME NEW q \in Payments, NEW u \in Users, Submit(u, q), q # p
      PROVE  FALSE
  BY <1>8 DEF Submit, ExecutionTypeOK, ApprovalTypeOK
<1>9. ASSUME NEW q \in Payments, Act(q)
      PROVE  snapshot'[p].policy = Resolve(Context[doc'[p].content], LiveTotal(p)')
  <2>1. PICK i \in StepNumbers(q), u \in Users, from \in Users \cup {NoUser} :
          \/ \E reasoned \in BOOLEAN : Approve(u, q, i, from, reasoned)
          \/ Reject(u, q, i, from)
          \/ Return(u, q, i, from)
    BY <1>9 DEF Act
  <2>2. PICK reasoned \in BOOLEAN : Approve(u, q, i, from, reasoned)
    BY <2>1, <1>3
  <2>3. q = p
    BY <2>2, <1>5
  <2> QED BY <2>2, <2>3, <1>2
<1>10. doc' # doc
  OBVIOUS
<1> QED BY <1>1, <1>4, <1>6, <1>7, <1>8, <1>9, <1>10, ApprovalUntouched
     DEF Commit, ApprovalNext

\* A payment becomes approved only on what its group sums to at that moment: an
\* approval of stale evidence is refused, and a submission that needs no approver
\* resolves its policy on the live total (submit, act).
THEOREM ApprovedOnTotals == Spec => ApprovedOnLiveTotal
<1> DEFINE Judged(p) == /\ doc[p].state # "APPROVED"
                        /\ doc'[p].state = "APPROVED"
                        /\ Aggregates(p)'
                        => snapshot'[p].policy
                             = Resolve(Context[doc'[p].content], LiveTotal(p)')
<1>1. ASSUME GroupInvariant, Commit
      PROVE  \A p \in Payments : Judged(p)
  BY <1>1, ApprovedOnTotal
<1>2. GroupInvariant /\ [Next]_vars => [\A p \in Payments : Judged(p)]_approvalVars
  BY <1>1, StepCases DEF rows, approvalVars
<1>3. Spec => [][\A p \in Payments : Judged(p)]_approvalVars
  BY <1>2, GroupsInvariant, PTL DEF Spec
<1> QED BY <1>3 DEF ApprovedOnLiveTotal

-------------------------------------------------------------------------------
(* Reversals and outcomes.                                                 *)

\* A payment with a reversal is REVERSED, and its reversal was executed.
ReversalsLinked ==
  \A p \in Payments : doc[p].reversedBy # NoPayment =>
    /\ doc[p].state = "REVERSED"
    /\ doc[doc[p].reversedBy].state \in {"EXECUTED", "REVERSED"}

ReversalInvariant ==
  /\ ExecutionTypeOK
  /\ ReversalsLinked
  /\ ReversedByOutsider
  /\ NegativeOutcomeIsReversed

-------------------------------------------------------------------------------
(* Versions.                                                               *)

\* Every change of an existing row advances its version by one.
THEOREM VersionsAdvance == Spec => VersionAdvances
<1> DEFINE Advances == \A p \in Payments :
             doc[p].state # "ABSENT" /\ doc'[p] # doc[p]
             => doc'[p].version = doc[p].version + 1
<1>1. ExecutionTypeOK /\ [Next]_vars => [Advances]_vars
  <2> SUFFICES ASSUME ExecutionTypeOK, [Next]_vars
               PROVE  Advances
    BY DEF Advances
  <2>1. CASE ApprovalNext
    BY <2>1, ApprovalMoves
  <2>2. ASSUME NEW p \in Payments, NEW u \in Users, Execute(u, p)
        PROVE  Advances
    BY <2>2, ExecuteMoves
  <2>3. ASSUME NEW p \in Payments, NEW u \in Users, NEW r \in Payments \ {p}, NEW d \in Dates,
               Reverse(u, p, r, d)
        PROVE  Advances
    BY <2>3, ReverseMoves
  <2>4. ASSUME doc' = doc
        PROVE  Advances
    BY <2>4
  <2> HIDE DEF Advances
  <2> QED BY <2>1, <2>2, <2>3, <2>4, StepCases, ApprovalUntouched DEF Commit, rows
<1>2. Spec => [][Advances]_vars
  BY <1>1, TypeCorrect, PTL DEF Spec
<1> QED BY <1>2 DEF VersionAdvances

-------------------------------------------------------------------------------
(* Reversals and outcomes.                                                 *)

\* Approval commands touch no executed payment.
LEMMA ApprovalKeepsReversals ==
  ASSUME ReversalInvariant, ApprovalNext, UNCHANGED executionVars
  PROVE  ReversalsLinked' /\ ReversedByOutsider' /\ NegativeOutcomeIsReversed'
<1> USE DEF ReversalInvariant, Open
<1>1. PICK p \in Payments :
           /\ doc[p].state \in Open
           /\ doc'[p].state \in {"DRAFT", "APPROVAL_PENDING", "APPROVED", "REJECTED"}
           /\ doc[p].state # "ABSENT" => /\ doc'[p].creator = doc[p].creator
                                         /\ doc'[p].executor = doc[p].executor
                                         /\ doc'[p].version = doc[p].version + 1
           /\ doc'[p].reversedBy = doc[p].reversedBy
           /\ \A q \in Payments \ {p} : doc'[q] = doc[q] /\ snapshot'[q] = snapshot[q]
  BY ApprovalMoves
<1>2. doc[p].reversedBy = NoPayment
  BY <1>1 DEF ReversalsLinked
<1>3. \A q \in Payments : doc'[q].reversedBy = doc[q].reversedBy
  BY <1>1
<1>4. ASSUME NEW q \in Payments, NEW r \in Payments, doc[q].reversedBy = r
      PROVE  q # p /\ r # p
  <2>1. r # NoPayment
    BY PaymentAssumption
  <2>2. doc[r].state \in {"EXECUTED", "REVERSED"}
    BY <1>4, <2>1 DEF ReversalsLinked
  <2>3. r # p
    BY <1>1, <2>2
  <2> QED BY <1>2, <1>4, <2>1, <2>3
<1>5. ReversedByOutsider'
  BY <1>1, <1>3, <1>4 DEF ReversedByOutsider, ApproverUsers, Approvals
<1>6. \A q \in Payments : doc[q].reversedBy \in Payments \cup {NoPayment}
  BY DEF ExecutionTypeOK, ApprovalTypeOK, Document, AbsentDocument
<1>7. ReversalsLinked'
  BY <1>1, <1>3, <1>4, <1>6 DEF ReversalsLinked
<1>8. NegativeOutcomeIsReversed'
  BY <1>1 DEF NegativeOutcomeIsReversed, executionVars
<1> QED BY <1>5, <1>7, <1>8

\* Nor does an execution.
LEMMA ExecuteKeepsReversals ==
  ASSUME ReversalInvariant, NEW p \in Payments, NEW u \in Users, Execute(u, p)
  PROVE  ReversalsLinked' /\ ReversedByOutsider' /\ NegativeOutcomeIsReversed'
<1> USE DEF ReversalInvariant
<1>1. /\ doc[p].state = "APPROVED" /\ doc'[p].state = "EXECUTED"
      /\ doc'[p].reversedBy = doc[p].reversedBy
      /\ \A q \in Payments \ {p} : doc'[q] = doc[q]
      /\ snapshot' = snapshot
  BY ExecuteMoves
<1>2. \A q, r \in Payments : doc[q].reversedBy = r => q # p /\ r # p
  BY <1>1, PaymentAssumption DEF ReversalsLinked
<1>3. ReversedByOutsider'
  BY <1>1, <1>2 DEF ReversedByOutsider, ApproverUsers, Approvals
<1>4. \A q \in Payments : doc[q].reversedBy \in Payments \cup {NoPayment}
  BY DEF ExecutionTypeOK, ApprovalTypeOK, Document, AbsentDocument
<1>5. ReversalsLinked'
  BY <1>1, <1>2, <1>4 DEF ReversalsLinked
<1>6. ASSUME NEW q \in Payments, NEW l \in Lines, instruction'[q][l] \in Negative
      PROVE  instruction[q][l] \in Negative
  BY <1>6 DEF Execute, ExecutionTypeOK, Negative
<1>7. NegativeOutcomeIsReversed'
  BY <1>1, <1>6 DEF NegativeOutcomeIsReversed
<1> QED BY <1>3, <1>5, <1>7

\* A reversal is by an outsider, and links an executed row.
LEMMA ReverseKeepsReversals ==
  ASSUME ReversalInvariant, NEW p \in Payments, NEW r \in Payments \ {p}, NEW u \in Users,
         NEW d \in Dates, Reverse(u, p, r, d)
  PROVE  ReversalsLinked' /\ ReversedByOutsider' /\ NegativeOutcomeIsReversed'
<1> USE DEF ReversalInvariant
<1>1. /\ doc[p].state = "EXECUTED" /\ doc'[p].state = "REVERSED"
      /\ doc'[p].reversedBy = r
      /\ doc'[p].creator = doc[p].creator /\ doc'[p].executor = doc[p].executor
      /\ doc[r].state = "ABSENT" /\ doc'[r].state = "EXECUTED"
      /\ doc'[r].executor = u /\ doc'[r].reversedBy = NoPayment
      /\ \A q \in Payments \ {p, r} : doc'[q] = doc[q]
      /\ snapshot' = snapshot
  BY ReverseMoves
<1>2. ASSUME NEW q \in Payments, NEW t \in Payments, doc[q].reversedBy = t
      PROVE  q \notin {p, r} /\ t # r
  <2>1. t # NoPayment
    BY PaymentAssumption
  <2>2. doc[q].state = "REVERSED" /\ doc[t].state \in {"EXECUTED", "REVERSED"}
    BY <1>2, <2>1 DEF ReversalsLinked
  <2> QED BY <1>1, <2>2
<1>3. doc'[r].executor \notin {doc'[p].creator, doc'[p].executor} \cup ApproverUsers(p)'
  BY <1>1 DEF Reverse, Outsider, ApproverUsers, Approvals
<1>4. ReversedByOutsider'
  <2> SUFFICES ASSUME NEW q \in Payments, NEW t \in Payments, doc'[q].reversedBy = t
               PROVE  doc'[t].executor \notin
                        {doc'[q].creator, doc'[q].executor} \cup ApproverUsers(q)'
    BY DEF ReversedByOutsider
  <2>1. CASE q = p
    BY <1>1, <1>3, <2>1
  <2>2. CASE q # p
    <3>1. q # r /\ doc[q].reversedBy = t /\ t # r
      BY <1>1, <1>2, <2>2, PaymentAssumption
    <3>2. doc'[q] = doc[q] /\ doc'[t].executor = doc[t].executor
      BY <1>1, <2>2, <3>1
    <3> QED BY <1>1, <3>1, <3>2 DEF ReversedByOutsider, ApproverUsers, Approvals
  <2> QED BY <2>1, <2>2
<1>5. \A q \in Payments : doc[q].reversedBy \in Payments \cup {NoPayment}
  BY DEF ExecutionTypeOK, ApprovalTypeOK, Document, AbsentDocument
<1>6. ReversalsLinked'
  BY <1>1, <1>2, <1>5 DEF ReversalsLinked
<1>7. NegativeOutcomeIsReversed'
  BY <1>1 DEF NegativeOutcomeIsReversed, Reverse
<1> QED BY <1>4, <1>6, <1>7

\* A negative outcome finds the payment reversed.
LEMMA OutcomeKeepsReversals ==
  ASSUME ReversalInvariant, NEW p \in Payments, NEW l \in Lines, NEW u \in Users,
         NEW outcome \in Negative \cup {"CONFIRMED"}, RecordOutcome(u, p, l, outcome)
  PROVE  ReversalsLinked' /\ ReversedByOutsider' /\ NegativeOutcomeIsReversed'
<1> USE DEF ReversalInvariant
<1>1. doc' = doc /\ snapshot' = snapshot
  BY DEF RecordOutcome
<1>2. ReversalsLinked' /\ ReversedByOutsider'
  BY <1>1 DEF ReversalsLinked, ReversedByOutsider, ApproverUsers, Approvals
<1>3. outcome \in Negative => doc[p].state = "REVERSED"
  BY DEF RecordOutcome, Corrected, ReversalsLinked
<1>4. "CONFIRMED" \notin Negative
  BY DEF Negative
<1>5. ASSUME NEW q \in Payments, NEW k \in Lines, instruction'[q][k] \in Negative
      PROVE  doc[q].state = "REVERSED"
  <2>1. CASE q = p /\ k = l
    BY <1>3, <1>4, <1>5, <2>1 DEF RecordOutcome, ExecutionTypeOK
  <2>2. CASE ~(q = p /\ k = l)
    BY <1>5, <2>2 DEF RecordOutcome, ExecutionTypeOK, NegativeOutcomeIsReversed
  <2> QED BY <2>1, <2>2
<1>6. NegativeOutcomeIsReversed'
  BY <1>1, <1>5 DEF NegativeOutcomeIsReversed
<1> QED BY <1>2, <1>6

\* The invariant holds in every reachable state.
THEOREM ReversalsInvariant == Spec => []ReversalInvariant
<1>1. Init => ReversalInvariant
  <2> SUFFICES ASSUME Init
               PROVE  ReversalInvariant
    OBVIOUS
  <2>1. \A p \in Payments : doc[p].reversedBy = NoPayment
    BY DEF Init, ApprovalInit, AbsentDocument
  <2>2. ReversalsLinked /\ ReversedByOutsider
    BY <2>1, PaymentAssumption DEF ReversalsLinked, ReversedByOutsider, PaymentAssumption
  <2>3. \A p \in Payments, l \in Lines : instruction[p][l] = "NONE"
    BY DEF Init
  <2>4. NegativeOutcomeIsReversed
    BY <2>3 DEF NegativeOutcomeIsReversed, Negative
  <2> QED BY <2>2, <2>4, TypeInitially DEF ReversalInvariant
<1>2. ReversalInvariant /\ [Next]_vars => ReversalInvariant'
  <2> SUFFICES ASSUME ReversalInvariant, [Next]_vars
               PROVE  ReversalInvariant'
    OBVIOUS
  <2> DEFINE Kept == ReversalsLinked' /\ ReversedByOutsider' /\ NegativeOutcomeIsReversed'
  <2>1. ExecutionTypeOK'
    BY TypeKept DEF ReversalInvariant
  <2>2. ASSUME ApprovalNext, UNCHANGED executionVars
        PROVE  Kept
    BY <2>2, ApprovalKeepsReversals
  <2>3. ASSUME NEW p \in Payments, NEW u \in Users, Execute(u, p)
        PROVE  Kept
    BY <2>3, ExecuteKeepsReversals
  <2>4. ASSUME NEW p \in Payments, NEW u \in Users, NEW r \in Payments \ {p}, NEW d \in Dates,
               Reverse(u, p, r, d)
        PROVE  Kept
    BY <2>4, ReverseKeepsReversals
  <2>5. ASSUME NEW p \in Payments, NEW u \in Users, NEW l \in Lines,
               NEW outcome \in Negative \cup {"CONFIRMED"}, RecordOutcome(u, p, l, outcome)
        PROVE  Kept
    BY <2>5, OutcomeKeepsReversals
  <2>6. ASSUME doc' = doc, snapshot' = snapshot, instruction' = instruction
        PROVE  Kept
    BY <2>6 DEF ReversalInvariant, ReversalsLinked, ReversedByOutsider, ApproverUsers, Approvals,
       NegativeOutcomeIsReversed
  <2>7. ASSUME NEW p \in Payments, External(p)
        PROVE  instruction' = instruction
    BY <2>7 DEF External, ChangeReservation, Reserve, Allocate
  <2>8. Kept
    <3> HIDE DEF Kept
    <3> QED BY <2>2, <2>3, <2>4, <2>5, <2>6, <2>7, StepCases, ApprovalUntouched
            DEF Commit, rows
  <2> QED BY <2>1, <2>8 DEF ReversalInvariant
<1> QED BY <1>1, <1>2, PTL DEF Spec

\* Whoever reverses a payment neither created, executed nor approved it, nor
\* did anyone approve it for them; this outlives every later command.
THEOREM OutsidersReverse == Spec => []ReversedByOutsider
<1>1. ReversalInvariant => ReversedByOutsider
  BY DEF ReversalInvariant
<1> QED BY <1>1, ReversalsInvariant, PTL

\* A rejected, cancelled or returned instruction belongs to a reversed payment.
THEOREM NegativeOutcomesReversed == Spec => []NegativeOutcomeIsReversed
<1>1. ReversalInvariant => NegativeOutcomeIsReversed
  BY DEF ReversalInvariant
<1> QED BY <1>1, ReversalsInvariant, PTL

\* The confirmation of a line of an executed payment is never taken back, and
\* neither is the payment but by a reversal that has read before: RETURNED waits for
\* a reversal, and no reversal reads what is confirmed and goes on.
THEOREM ConfirmationsStand == Spec => ConfirmedUnlessOverlooked
<1> DEFINE Stands(p, l) ==
             instruction[p][l] = "CONFIRMED" /\ doc[p].state = "EXECUTED"
             => /\ instruction'[p][l] = "CONFIRMED"
                /\ p \notin reversing => doc'[p] = doc[p] /\ p \notin reversing'
           Stand == \A p \in Payments, l \in Lines : Stands(p, l)
<1>1. ReversalInvariant /\ [Next]_vars => [Stand]_vars
  <2> SUFFICES ASSUME ReversalInvariant, Next, NEW q \in Payments, NEW l \in Lines,
                      instruction[q][l] = "CONFIRMED", doc[q].state = "EXECUTED"
               PROVE  /\ instruction'[q][l] = "CONFIRMED"
                      /\ q \notin reversing => doc'[q] = doc[q] /\ q \notin reversing'
    OBVIOUS
  <2> DEFINE Goal == /\ instruction'[q][l] = "CONFIRMED"
                     /\ q \notin reversing => doc'[q] = doc[q] /\ q \notin reversing'
  <2> USE DEF ReversalInvariant
  <2>1. ASSUME ApprovalNext, UNCHANGED executionVars
        PROVE  Goal
    BY <2>1, ApprovalMoves DEF executionVars, Open
  <2>2. ASSUME NEW p \in Payments, NEW u \in Users, Execute(u, p)
        PROVE  Goal
    <3>1. doc[p].state = "APPROVED" /\ reversing' = reversing
      BY <2>2 DEF Execute, Executable
    <3>2. \A o \in Payments \ {p} : doc'[o] = doc[o] /\ instruction'[o] = instruction[o]
      BY <2>2 DEF Execute, ExecutionTypeOK, ApprovalTypeOK
    <3> QED BY <3>1, <3>2
  <2>3. ASSUME NEW p \in Payments, NEW u \in Users, NEW r \in Payments \ {p}, NEW d \in Dates,
               Reverse(u, p, r, d)
        PROVE  Goal
    <3>1. p \in reversing /\ reversing' = reversing \ {p} /\ instruction' = instruction
      BY <2>3 DEF Reverse
    <3>2. doc[r].state = "ABSENT"
      BY <2>3 DEF Reverse
    <3>3. \A o \in Payments \ {p, r} : doc'[o] = doc[o]
      BY <2>3, ReverseMoves
    <3> QED BY <3>1, <3>2, <3>3
  <2>4. ASSUME NEW p \in Payments, NEW u \in Users, NEW k \in Lines,
               NEW outcome \in Negative \cup {"CONFIRMED"}, RecordOutcome(u, p, k, outcome)
        PROVE  Goal
    <3>1. doc' = doc /\ reversing' = reversing
      BY <2>4 DEF RecordOutcome
    <3>2. ASSUME instruction[p][k] = "CONFIRMED", doc[p].state = "EXECUTED"
          PROVE  FALSE
      BY <2>4, <3>2 DEF RecordOutcome, Transition, Negative, Corrected, ReversalsLinked
    <3>3. ~(q = p /\ l = k) => instruction'[q][l] = instruction[q][l]
      BY <2>4 DEF RecordOutcome, ExecutionTypeOK
    <3> QED BY <3>1, <3>2, <3>3
  <2>5. ASSUME NEW p \in Payments, External(p)
        PROVE  Goal
    BY <2>5, ApprovalUntouched DEF External, ChangeReservation, Reserve, Allocate
  <2>6. ASSUME NEW p \in Payments, NEW u \in Users, ReadEffects(u, p)
        PROVE  Goal
    <3>1. q # p
      BY <2>6 DEF ReadEffects, Unconfirmed
    <3> QED BY <2>6, <3>1 DEF ReadEffects, rows
  <2>7. ASSUME NEW p \in Payments, GiveUp(p)
        PROVE  Goal
    BY <2>7 DEF GiveUp, rows
  <2> HIDE DEF Goal
  <2>8. ASSUME Commit
        PROVE  Goal
    BY <2>8, <2>1, <2>2, <2>3, <2>4, <2>5, ZenonT(60) DEF Commit
  <2>9. Goal
    BY <2>6, <2>7, <2>8, ZenonT(60) DEF Next
  <2> QED BY <2>9 DEF Goal
<1>2. Spec => [][Stand]_vars
  BY <1>1, ReversalsInvariant, PTL DEF Spec
<1> QED BY <1>2 DEF ConfirmedUnlessOverlooked

-------------------------------------------------------------------------------
(* The movement facts of the documents.                                    *)

\* One fact of document p for each line of L.
Entries(p, L, direction, q) ==
  {[payment |-> p, line |-> l, direction |-> direction, of |-> q] : l \in L}

Debits(p) == Entries(p, LinesOf[doc[p].content], "DEBIT", NoPayment)

Credits(r, p) == Entries(r, LinesOf[doc[r].content], "CREDIT", p)

\* The facts of a document that was not executed, of a payment, of a reversal.
Booked(p) ==
  /\ doc[p].state \notin {"EXECUTED", "REVERSED"} => Posted(p) = {}
  /\ doc[p].state \in {"EXECUTED", "REVERSED"} /\ ~IsReversal(p) => Posted(p) = Debits(p)
  /\ \A q \in Payments : doc[q].reversedBy = p => Posted(p) = Credits(p, q)

\* A reversal undoes one payment, of its own content, and is final itself.
Linked(p) ==
  /\ doc[p].state = "REVERSED" <=> doc[p].reversedBy # NoPayment
  /\ \A r \in Payments :
       doc[p].reversedBy = r => /\ doc[r].state = "EXECUTED"
                                /\ doc[r].content = doc[p].content
                                /\ \A q \in Payments : doc[q].reversedBy = r => q = p

BooksInvariant ==
  /\ ExecutionTypeOK
  /\ AbsentIsBlank
  /\ IsFiniteSet(facts)
  /\ \A p \in Payments : Booked(p) /\ Linked(p)

\* An executed document has a content, so it has lines.
LEMMA LinesExist ==
  ASSUME ExecutionTypeOK, NEW p \in Payments, doc[p].state # "ABSENT"
  PROVE  /\ LinesOf[doc[p].content] \subseteq Lines
         /\ LinesOf[doc[p].content] # {}
         /\ IsFiniteSet(LinesOf[doc[p].content])
<1>1. doc[p].content \in Contents
  BY PresentDocument DEF ExecutionTypeOK
<1>2. LinesOf[doc[p].content] \in (SUBSET Lines) \ {{}}
  BY <1>1, ExecutionAssumption
<1> QED BY <1>2, ExecutionAssumption, FS_Subset

\* The facts of a finite set of lines are finitely many.
LEMMA FactsFinite ==
  ASSUME NEW L, IsFiniteSet(L), NEW p, NEW direction, NEW q
  PROVE  IsFiniteSet(Entries(p, L, direction, q))
<1> DEFINE f == [l \in L |-> [payment |-> p, line |-> l, direction |-> direction, of |-> q]]
<1>1. f \in Surjection(L, Entries(p, L, direction, q))
  BY DEF Surjection, Entries
<1> HIDE DEF f
<1> QED BY <1>1, FS_Surjection

\* Posted facts are the new ones of the document that posts them.
LEMMA PostedAfter ==
  ASSUME NEW p, NEW D, \A f \in D : f.payment = p, facts' = facts \cup D
  PROVE  /\ Posted(p)' = Posted(p) \cup D
         /\ \A q : q # p => Posted(q)' = Posted(q)
BY DEF Posted

\* A step that leaves executed documents and the facts alone keeps the books.
LEMMA BooksKept ==
  ASSUME BooksInvariant, ExecutionTypeOK', facts' = facts,
         \A p \in Payments :
           \/ doc'[p] = doc[p]
           \/ /\ doc[p].state \in Open
              /\ doc'[p].state \notin {"EXECUTED", "REVERSED"}
              /\ doc'[p].reversedBy = doc[p].reversedBy
  PROVE  IsFiniteSet(facts)' /\ \A p \in Payments : Booked(p)' /\ Linked(p)'
<1> USE DEF BooksInvariant, Open
<1>1. \A p \in Payments : /\ Posted(p)' = Posted(p)
                          /\ doc'[p].reversedBy = doc[p].reversedBy
                          /\ IsReversal(p)' = IsReversal(p)
  BY DEF Posted, IsReversal
<1>2. ASSUME NEW p \in Payments, NEW r \in Payments, doc[p].reversedBy = r
      PROVE  doc'[p] = doc[p] /\ doc'[r] = doc[r]
  <2>1. r # NoPayment
    BY PaymentAssumption
  <2>2. doc[p].state = "REVERSED" /\ doc[r].state = "EXECUTED"
    BY <1>2, <2>1 DEF Linked
  <2> QED BY <2>2
<1>3. ASSUME NEW p \in Payments
      PROVE  Booked(p)'
  <2>1. CASE doc'[p] = doc[p]
    BY <1>1, <2>1 DEF Booked, Debits, Credits
  <2>2. CASE doc'[p] # doc[p]
    <3>1. doc'[p].state \notin {"EXECUTED", "REVERSED"} /\ Posted(p) = {}
      BY <2>2 DEF Booked
    <3>2. \A q \in Payments : doc'[q].reversedBy # p
      BY <1>1, <1>2, <2>2
    <3> QED BY <1>1, <3>1, <3>2 DEF Booked
  <2> QED BY <2>1, <2>2
<1>4. ASSUME NEW p \in Payments
      PROVE  Linked(p)'
  <2>1. (doc'[p].state = "REVERSED") <=> (doc'[p].reversedBy # NoPayment)
    BY DEF Linked
  <2>2. ASSUME NEW r \in Payments, doc'[p].reversedBy = r
        PROVE  /\ doc'[r].state = "EXECUTED" /\ doc'[r].content = doc'[p].content
               /\ \A q \in Payments : doc'[q].reversedBy = r => q = p
    BY <1>1, <1>2, <2>2 DEF Linked
  <2> QED BY <2>1, <2>2 DEF Linked
<1> QED BY <1>3, <1>4

\* Execution posts one debit per line.
LEMMA ExecutionBooks ==
  ASSUME BooksInvariant, NEW p \in Payments, NEW u \in Users, Execute(u, p)
  PROVE  IsFiniteSet(facts)' /\ \A q \in Payments : Booked(q)' /\ Linked(q)'
<1> USE DEF BooksInvariant
<1>1. /\ doc[p].state = "APPROVED" /\ doc'[p].state = "EXECUTED"
      /\ doc'[p].reversedBy = doc[p].reversedBy
      /\ \A q \in Payments \ {p} : doc'[q] = doc[q]
  BY ExecuteMoves
<1>2. facts' = facts \cup Debits(p) /\ doc'[p].content = doc[p].content
  BY PresentDocument
     DEF Execute, Executable, Debits, Entries, Moved, ExecutionTypeOK, ApprovalTypeOK
<1>3. IsFiniteSet(Debits(p))
  BY <1>1, LinesExist, FactsFinite DEF Debits
<1>4. IsFiniteSet(facts)'
  BY <1>2, <1>3, FS_Union
<1>5. \A q \in Payments : doc[q].reversedBy # p
  BY <1>1 DEF Linked
<1>6. /\ \A q \in Payments : IsReversal(q)' = IsReversal(q)
      /\ \A q \in Payments : doc'[q].reversedBy = doc[q].reversedBy
  BY <1>1 DEF IsReversal
<1>7. Posted(p)' = Debits(p)' /\ \A q \in Payments \ {p} : Posted(q)' = Posted(q)
  <2>1. \A f \in Debits(p) : f.payment = p
    BY DEF Debits, Entries
  <2>2. Posted(p) = {}
    BY <1>1 DEF Booked
  <2>3. Posted(p)' = {} \cup Debits(p) /\ \A q \in Payments \ {p} : Posted(q)' = Posted(q)
    BY <1>2, <2>1, <2>2, PostedAfter
  <2> QED BY <1>2, <2>3 DEF Debits
<1>8. Booked(p)'
  BY <1>1, <1>5, <1>6, <1>7 DEF Booked
<1>9. ASSUME NEW q \in Payments \ {p}
      PROVE  Booked(q)'
  BY <1>1, <1>6, <1>7 DEF Booked, Debits, Credits
<1>10. ASSUME NEW q \in Payments
       PROVE  Linked(q)'
  BY <1>1, <1>5, <1>6 DEF Linked
<1> QED BY <1>4, <1>8, <1>9, <1>10

\* A reversal is no payment, so it cannot be reversed in turn.
LEMMA ReversedIsPayment ==
  ASSUME BooksInvariant, NEW p \in Payments, Reversible(p)
  PROVE  ~IsReversal(p) /\ Posted(p) = Debits(p)
<1> USE DEF BooksInvariant
<1>1. doc[p].state = "EXECUTED"
  BY DEF Reversible
<1>2. PICK l : l \in LinesOf[doc[p].content]
  BY <1>1, LinesExist
<1>3. ASSUME NEW q \in Payments, doc[q].reversedBy = p
      PROVE  FALSE
  <2>1. [payment |-> p, line |-> l, direction |-> "CREDIT", of |-> q] \in Posted(p)
    BY <1>2, <1>3 DEF Booked, Credits, Entries
  <2> QED BY <2>1 DEF Reversible
<1> QED BY <1>1, <1>3 DEF Booked, IsReversal

\* A reversal posts one credit per line it undoes.
LEMMA ReversalBooks ==
  ASSUME BooksInvariant, NEW p \in Payments, NEW r \in Payments \ {p}, NEW u \in Users,
         NEW d \in Dates, Reverse(u, p, r, d)
  PROVE  /\ IsFiniteSet(facts)' /\ \A q \in Payments : Booked(q)' /\ Linked(q)'
         /\ facts' = facts \cup Credits(r, p)'
<1> USE DEF BooksInvariant
<1>1. /\ doc[p].state = "EXECUTED" /\ doc'[p].state = "REVERSED"
      /\ doc'[p].reversedBy = r
      /\ doc[r].state = "ABSENT" /\ doc'[r].state = "EXECUTED"
      /\ doc'[r].reversedBy = NoPayment
      /\ \A q \in Payments \ {p, r} : doc'[q] = doc[q]
  BY ReverseMoves
<1>2. doc'[p].content = doc[p].content /\ doc'[r].content = doc[p].content
  BY <1>1, PresentDocument DEF Reverse, Moved, ReversalOf, ExecutionTypeOK, ApprovalTypeOK
<1>3. Posted(p) = Debits(p) /\ ~IsReversal(p)
  BY ReversedIsPayment DEF Reverse
<1>4. facts' = facts \cup Credits(r, p)'
  <2> DEFINE L == LinesOf[doc[p].content]
             D == Entries(p, L, "DEBIT", NoPayment)
             back(f) == [payment |-> r, line |-> f.line, direction |-> "CREDIT", of |-> p]
  <2>1. ASSUME NEW e \in Entries(r, L, "CREDIT", p)
        PROVE  \E f \in D : e = back(f)
    <3>1. PICK l \in L : e = [payment |-> r, line |-> l, direction |-> "CREDIT", of |-> p]
      BY DEF Entries
    <3>2. [payment |-> p, line |-> l, direction |-> "DEBIT", of |-> NoPayment] \in D
      BY DEF Entries
    <3> QED BY <3>1, <3>2
  <2>2. ASSUME NEW f \in D
        PROVE  back(f) \in Entries(r, L, "CREDIT", p)
    BY DEF Entries
  <2>3. {back(f) : f \in D} = Entries(r, L, "CREDIT", p)
    BY <2>1, <2>2
  <2>4. facts' = facts \cup {back(f) : f \in D}
    BY <1>3 DEF Reverse, Debits
  <2> QED BY <1>2, <2>3, <2>4 DEF Credits
<1>5. IsFiniteSet(facts)'
  <2>1. IsFiniteSet(LinesOf[doc[p].content])
    BY <1>1, LinesExist
  <2>2. IsFiniteSet(Credits(r, p)')
    BY <1>2, <2>1, FactsFinite DEF Credits
  <2> QED BY <1>4, <2>2, FS_Union
<1>6. \A q \in Payments : doc[q].reversedBy # r /\ doc[q].reversedBy # p
  BY <1>1, <1>3 DEF Linked, IsReversal
<1>7. doc[p].reversedBy = NoPayment /\ doc[r].reversedBy = NoPayment
  BY <1>1 DEF Linked
<1>8. /\ \A q \in Payments, t \in Payments \ {r} :
           doc'[q].reversedBy = t <=> doc[q].reversedBy = t
      /\ \A q \in Payments : doc'[q].reversedBy = r <=> q = p
  <2> SUFFICES ASSUME NEW q \in Payments
               PROVE  /\ \A t \in Payments \ {r} : doc'[q].reversedBy = t <=> doc[q].reversedBy = t
                      /\ doc'[q].reversedBy = r <=> q = p
    OBVIOUS
  <2>1. NoPayment \notin Payments
    BY PaymentAssumption
  <2> HIDE DEF BooksInvariant
  <2>2. CASE q \in {p, r}
    BY <1>1, <1>6, <1>7, <2>1, <2>2
  <2>3. CASE q \notin {p, r}
    BY <1>1, <1>6, <2>3
  <2> QED BY <2>2, <2>3
<1>9. /\ \A q \in Payments \ {r} : IsReversal(q)' = IsReversal(q)
      /\ IsReversal(r)'
  BY <1>8 DEF IsReversal
<1>10. Posted(r)' = Credits(r, p)' /\ \A q \in Payments \ {r} : Posted(q)' = Posted(q)
  <2>1. \A f \in Credits(r, p)' : f.payment = r
    BY DEF Credits, Entries
  <2>2. Posted(r) = {}
    BY <1>1 DEF Booked
  <2>3. Posted(r)' = {} \cup Credits(r, p)' /\ \A q \in Payments \ {r} : Posted(q)' = Posted(q)
    BY <1>4, <2>1, <2>2, PostedAfter
  <2> QED BY <2>3
<1>11. Booked(r)'
  BY <1>1, <1>8, <1>9, <1>10 DEF Booked
<1>12. Booked(p)'
  BY <1>1, <1>2, <1>3, <1>6, <1>8, <1>9, <1>10 DEF Booked, Debits
<1>13. ASSUME NEW q \in Payments \ {p, r}
       PROVE  Booked(q)'
  BY <1>1, <1>8, <1>9, <1>10 DEF Booked, Debits, Credits
<1>14. ASSUME NEW q \in Payments
       PROVE  Linked(q)'
  <2>1. CASE q = p
    BY <1>1, <1>2, <1>8, <2>1, PaymentAssumption DEF Linked
  <2>2. CASE q = r
    BY <1>1, <2>2, PaymentAssumption DEF Linked
  <2>3. CASE q \notin {p, r}
    BY <1>1, <1>6, <1>8, <2>3 DEF Linked
  <2> QED BY <2>1, <2>2, <2>3
<1> QED BY <1>4, <1>5, <1>11, <1>12, <1>13, <1>14

\* So every step keeps the books.
LEMMA BooksInvariantKept ==
  ASSUME BooksInvariant, [Next]_vars
  PROVE  BooksInvariant'
<1> USE DEF BooksInvariant
<1> DEFINE Kept == IsFiniteSet(facts)' /\ \A p \in Payments : Booked(p)' /\ Linked(p)'
<1>1. ExecutionTypeOK' /\ AbsentIsBlank'
  BY TypeKept, BlankKept, StepCases DEF rows, AbsentIsBlank
<1>2. ASSUME ApprovalNext, UNCHANGED executionVars
      PROVE  Kept
  BY <1>1, <1>2, BooksKept, ApprovalMoves DEF executionVars
<1>3. ASSUME NEW p \in Payments, NEW u \in Users, Execute(u, p)
      PROVE  Kept
  BY <1>3, ExecutionBooks
<1>4. ASSUME NEW p \in Payments, NEW u \in Users, NEW r \in Payments \ {p}, NEW d \in Dates,
             Reverse(u, p, r, d)
      PROVE  Kept
  BY <1>4, ReversalBooks
<1>5. ASSUME doc' = doc, facts' = facts
      PROVE  Kept
  BY <1>1, <1>5, BooksKept
<1>6. ASSUME NEW p \in Payments,
             \/ \E u \in Users, l \in Lines, outcome \in Negative \cup {"CONFIRMED"} :
                  RecordOutcome(u, p, l, outcome)
             \/ External(p)
      PROVE  doc' = doc /\ facts' = facts
  BY <1>6 DEF RecordOutcome, External, ChangeReservation, Reserve, Allocate
<1> HIDE DEF Kept
<1>7. Kept
  BY <1>2, <1>3, <1>4, <1>5, <1>6, StepCases DEF Commit, rows
<1> QED BY <1>1, <1>7 DEF Kept

LEMMA BooksAlways == Spec => []BooksInvariant
<1>1. Init => BooksInvariant
  <2> SUFFICES ASSUME Init
               PROVE  BooksInvariant
    OBVIOUS
  <2>1. \A p \in Payments : /\ doc[p].state = "ABSENT" /\ doc[p].reversedBy = NoPayment
                            /\ snapshot[p] = NoSnapshot
                            /\ Posted(p) = {}
    BY DEF Init, ApprovalInit, AbsentDocument, Posted
  <2>2. IsFiniteSet(facts)
    BY FS_EmptySet DEF Init
  <2>3. \A p, q \in Payments : doc[p].reversedBy # q
    BY <2>1, PaymentAssumption
  <2> QED BY <2>1, <2>2, <2>3, TypeInitially DEF BooksInvariant, AbsentIsBlank, Booked, Linked
<1> QED BY <1>1, BooksInvariantKept, PTL DEF Spec

\* The facts are exactly those due for the documents as they are.
LEMMA BooksFollow ==
  ASSUME BooksInvariant
  PROVE  FactsFollowDocuments
<1> USE DEF BooksInvariant
<1>1. ASSUME NEW p \in Payments
      PROVE  Posted(p) = Due(p)
  <2>1. CASE doc[p].state \notin {"EXECUTED", "REVERSED"}
    BY <2>1 DEF Booked, Due
  <2>2. CASE doc[p].state \in {"EXECUTED", "REVERSED"} /\ ~IsReversal(p)
    BY <2>2 DEF Booked, Due, Debits, Entries
  <2>3. CASE doc[p].state \in {"EXECUTED", "REVERSED"} /\ IsReversal(p)
    <3>1. PICK q \in Payments : doc[q].reversedBy = p
      BY <2>3 DEF IsReversal
    <3>2. \A t \in Payments : doc[t].reversedBy = p => t = q
      BY <3>1 DEF Linked
    <3>3. (CHOOSE t \in Payments : doc[t].reversedBy = p) = q
      BY <3>1, <3>2
    <3>4. Posted(p) = Credits(p, q)
      BY <3>1 DEF Booked
    <3> QED BY <2>3, <3>3, <3>4 DEF Due, Credits, Entries
  <2> QED BY <2>1, <2>2, <2>3
<1> QED BY <1>1 DEF FactsFollowDocuments, Linked

-------------------------------------------------------------------------------
(* What the facts rest on.                                                 *)

\* A debit belongs to an executed document that is no reversal.
LEMMA DebitedWasExecuted ==
  ASSUME BooksInvariant, NEW f \in facts, f.direction = "DEBIT"
  PROVE  /\ f.payment \in Payments
         /\ doc[f.payment].state \in {"EXECUTED", "REVERSED"}
<1> USE DEF BooksInvariant
<1>1. f.payment \in Payments
  BY DEF ExecutionTypeOK, Fact
<1>2. f \in Posted(f.payment)
  BY DEF Posted
<1> QED BY <1>1, <1>2 DEF Booked

\* An executed document keeps its creator, its executor and its snapshot.
LEMMA ExecutedIsFinal ==
  ASSUME ExecutionTypeOK, [Next]_vars, NEW p \in Payments,
         doc[p].state \in {"EXECUTED", "REVERSED"}
  PROVE  /\ doc'[p].creator = doc[p].creator
         /\ doc'[p].executor = doc[p].executor
         /\ snapshot'[p] = snapshot[p]
<1> DEFINE Kept == /\ doc'[p].creator = doc[p].creator
                   /\ doc'[p].executor = doc[p].executor
                   /\ snapshot'[p] = snapshot[p]
<1>1. ASSUME ApprovalNext
      PROVE  Kept
  <2>1. PICK q \in Payments :
          /\ doc[q].state \in Open
          /\ \A t \in Payments \ {q} : doc'[t] = doc[t] /\ snapshot'[t] = snapshot[t]
    BY <1>1, ApprovalMoves
  <2> QED BY <2>1 DEF Open
<1>2. ASSUME NEW q \in Payments, NEW u \in Users, Execute(u, q)
      PROVE  Kept
  <2>1. /\ doc[q].state = "APPROVED" /\ snapshot' = snapshot
        /\ \A t \in Payments \ {q} : doc'[t] = doc[t]
    BY <1>2, ExecuteMoves
  <2> QED BY <2>1
<1>3. ASSUME NEW q \in Payments, NEW u \in Users, NEW r \in Payments \ {q}, NEW d \in Dates,
             Reverse(u, q, r, d)
      PROVE  Kept
  BY <1>3, ReverseMoves
<1>4. ASSUME doc' = doc, snapshot' = snapshot
      PROVE  Kept
  BY <1>4
<1> HIDE DEF Kept
<1>5. Kept
  BY <1>1, <1>2, <1>3, <1>4, StepCases, ApprovalUntouched DEF Commit, rows
<1> QED BY <1>5 DEF Kept

\* What was fully approved stays so with its snapshot and its creator.
LEMMA FullyApprovedKept ==
  ASSUME NEW p, FullyApproved(p), snapshot'[p] = snapshot[p], doc'[p].creator = doc[p].creator
  PROVE  FullyApproved(p)'
BY DEF FullyApproved, StepsOf

\* Another than the executor created or approved p.
NotSolo(p) ==
  \E u \in {doc[p].creator} \cup {a.actor : a \in Approvals(p)} : u # doc[p].executor

LEMMA NotSoloKept ==
  ASSUME NEW p, NotSolo(p), snapshot'[p] = snapshot[p],
         doc'[p].creator = doc[p].creator, doc'[p].executor = doc[p].executor
  PROVE  NotSolo(p)'
BY DEF NotSolo, Approvals

ApprovedInvariant == BooksInvariant /\ CompleteInvariant /\ PaidWasApproved /\ NoSoloPayment

\* Execution finds the payment fully approved, and an executor who is not alone.
LEMMA ExecutionRests ==
  ASSUME ApprovedInvariant, NEW p \in Payments, NEW u \in Users, Execute(u, p)
  PROVE  FullyApproved(p)' /\ NotSolo(p)'
<1> USE DEF ApprovedInvariant, CompleteInvariant
<1>1. /\ snapshot' = snapshot
      /\ doc'[p].creator = doc[p].creator /\ doc'[p].executor = u
  BY PresentDocument DEF Execute, Executable, Moved, ExecutionTypeOK, ApprovalTypeOK
<1>2. FullyApproved(p)
  BY NothingLeftIsComplete DEF Execute, Executable, NothingLeft
<1>3. \E v \in {doc[p].creator} \cup {a.actor : a \in Approvals(p)} : v # u
  BY DEF Execute, Separated
<1>4. NotSolo(p)'
  BY <1>1, <1>3 DEF NotSolo, Approvals
<1> QED BY <1>1, <1>2, <1>4, FullyApprovedKept

\* A debit is new only in the execution of its payment.
LEMMA NewDebits ==
  ASSUME BooksInvariant, [Next]_vars, NEW f \in facts', f \notin facts, f.direction = "DEBIT"
  PROVE  \E p \in Payments, u \in Users : Execute(u, p) /\ f.payment = p
<1>1. ASSUME NEW p \in Payments, NEW u \in Users, Execute(u, p)
      PROVE  f.payment = p
  BY <1>1 DEF Execute
<1>2. ASSUME NEW p \in Payments, NEW u \in Users, NEW r \in Payments \ {p}, NEW d \in Dates,
             Reverse(u, p, r, d)
      PROVE  FALSE
  BY <1>2 DEF Reverse
<1>3. ASSUME facts' = facts
      PROVE  FALSE
  BY <1>3
<1>4. ASSUME NEW p \in Payments,
             \/ \E u \in Users, l \in Lines, outcome \in Negative \cup {"CONFIRMED"} :
                  RecordOutcome(u, p, l, outcome)
             \/ External(p)
      PROVE  facts' = facts
  BY <1>4 DEF RecordOutcome, External, ChangeReservation, Reserve, Allocate
<1> QED BY <1>1, <1>2, <1>3, <1>4, StepCases DEF Commit, rows, executionVars

LEMMA ApprovedKept ==
  ASSUME ApprovedInvariant, [Next]_vars
  PROVE  ApprovedInvariant'
<1> USE DEF ApprovedInvariant
<1>1. BooksInvariant' /\ CompleteInvariant'
  BY BooksInvariantKept, ExecutionCompletes
<1>2. ASSUME NEW f \in facts', f.direction = "DEBIT"
      PROVE  FullyApproved(f.payment)' /\ NotSolo(f.payment)'
  <2>1. CASE f \in facts
    <3>1. FullyApproved(f.payment) /\ NotSolo(f.payment)
      BY <1>2, <2>1 DEF PaidWasApproved, NoSoloPayment, NotSolo
    <3>2. /\ snapshot'[f.payment] = snapshot[f.payment]
          /\ doc'[f.payment].creator = doc[f.payment].creator
          /\ doc'[f.payment].executor = doc[f.payment].executor
      BY <1>2, <2>1, DebitedWasExecuted, ExecutedIsFinal DEF BooksInvariant
    <3> QED BY <3>1, <3>2, FullyApprovedKept, NotSoloKept
  <2>2. CASE f \notin facts
    <3>1. PICK p \in Payments, u \in Users : Execute(u, p) /\ f.payment = p
      BY <1>2, <2>2, NewDebits
    <3> QED BY <3>1, ExecutionRests
  <2> QED BY <2>1, <2>2
<1>3. PaidWasApproved' /\ NoSoloPayment'
  BY <1>2 DEF PaidWasApproved, NoSoloPayment, NotSolo
<1> QED BY <1>1, <1>3

LEMMA ApprovedAlways == Spec => []ApprovedInvariant
<1>1. Init => PaidWasApproved /\ NoSoloPayment
  BY DEF Init, PaidWasApproved, NoSoloPayment
<1>2. BooksInvariant /\ CompleteInvariant /\ PaidWasApproved /\ NoSoloPayment /\ [Next]_vars
      => (PaidWasApproved /\ NoSoloPayment)'
  BY ApprovedKept DEF ApprovedInvariant
<1>3. BooksInvariant /\ CompleteInvariant /\ PaidWasApproved /\ NoSoloPayment
      => ApprovedInvariant
  BY DEF ApprovedInvariant
<1> QED BY <1>1, <1>2, <1>3, BooksAlways, CompleteAlways, PTL DEF Spec

-------------------------------------------------------------------------------
(* What the facts leave in the sources.                                    *)

\* The facts of one source and direction are finitely many, of natural amounts.
LEMMA MovesType ==
  ASSUME ExecutionTypeOK, IsFiniteSet(facts), NEW s, NEW direction
  PROVE  Moves(s, direction) \in Nat
<1> DEFINE moved == {f \in facts : LineSource[f.line] = s /\ f.direction = direction}
           g == [f \in moved |-> LineAmount[f.line]]
<1>1. IsFiniteSet(moved)
  BY FS_Subset
<1>2. \A f \in moved : g[f] \in Nat
  BY ExecutionAssumption DEF ExecutionTypeOK, Fact
<1> HIDE DEF moved, g
<1>3. Sum(moved, g) \in Nat
  BY <1>1, <1>2, SumType
<1> QED BY <1>3 DEF Moves, moved, g

LEMMA PositionType ==
  ASSUME ExecutionTypeOK, IsFiniteSet(facts), NEW s \in Sources
  PROVE  Position(s) \in Int
<1>1. Moves(s, "CREDIT") \in Nat /\ Moves(s, "DEBIT") \in Nat
  BY MovesType
<1>2. Opening[s] \in Int
  BY ExecutionAssumption
<1> QED BY <1>1, <1>2 DEF Position

\* The entries of distinct lines are distinct, so they sum to what the lines do.
LEMMA EntriesSum ==
  ASSUME NEW K \in SUBSET Lines, NEW p, NEW direction, NEW q,
         NEW g, \A f \in Entries(p, K, direction, q) : g[f] = LineAmount[f.line]
  PROVE  Sum(Entries(p, K, direction, q), g) = Sum(K, LineAmount)
<1> DEFINE e(l) == [payment |-> p, line |-> l, direction |-> direction, of |-> q]
           h == [l \in K |-> e(l)]
<1>1. h \in Bijection(K, Entries(p, K, direction, q))
  <2>1. h \in [K -> Entries(p, K, direction, q)]
    BY DEF Entries
  <2>2. ASSUME NEW k \in K, NEW l \in K, h[k] = h[l]
        PROVE  k = l
    <3>1. e(k).line = e(l).line
      BY <2>2
    <3> QED BY <3>1
  <2>3. \A f \in Entries(p, K, direction, q) : \E l \in K : h[l] = f
    BY DEF Entries
  <2> HIDE DEF h
  <2> QED BY <2>1, <2>2, <2>3 DEF Bijection, Injection, Surjection, IsInjective
<1>2. IsFiniteSet(K)
  BY ExecutionAssumption, FS_Subset
<1>3. ASSUME NEW l \in K
      PROVE  LineAmount[l] \in Nat /\ g[h[l]] = LineAmount[l]
  <2>1. h[l] \in Entries(p, K, direction, q) /\ h[l].line = l
    BY DEF Entries
  <2> QED BY <2>1, ExecutionAssumption
<1> HIDE DEF h
<1> QED BY <1>1, <1>2, <1>3, SumImage

\* The entries of a new document add what its lines draw on each source.
LEMMA MovesAdded ==
  ASSUME ExecutionTypeOK, IsFiniteSet(facts), NEW p, Posted(p) = {},
         NEW L \in SUBSET Lines, NEW direction, NEW q,
         facts' = facts \cup Entries(p, L, direction, q), NEW s
  PROVE  /\ Moves(s, direction)'
              = Moves(s, direction) + Sum({l \in L : LineSource[l] = s}, LineAmount)
         /\ \A other : other # direction => Moves(s, other)' = Moves(s, other)
<1> DEFINE K == {l \in L : LineSource[l] = s}
           old == {f \in facts : LineSource[f.line] = s /\ f.direction = direction}
           new == Entries(p, K, direction, q)
           g == [f \in old \cup new |-> LineAmount[f.line]]
<1>1. {f \in facts' : LineSource[f.line] = s /\ f.direction = direction} = old \cup new
  BY DEF Entries
<1>2. old \cap new = {}
  BY DEF Posted, Entries
<1>3. IsFiniteSet(old) /\ IsFiniteSet(new)
  <2>1. IsFiniteSet(K)
    BY ExecutionAssumption, FS_Subset
  <2> HIDE DEF K
  <2> QED BY <2>1, FactsFinite, FS_Subset
<1>4. \A f \in old \cup new : g[f] \in Nat
  <2>1. \A f \in old \cup new : f.line \in Lines
    BY DEF ExecutionTypeOK, Fact, Entries
  <2> HIDE DEF old, new
  <2> QED BY <2>1, ExecutionAssumption
<1>5. \A f \in new : g[f] = LineAmount[f.line]
  OBVIOUS
<1>6. Sum(old, g) = Sum(old, [f \in old |-> LineAmount[f.line]])
  <2> DEFINE k == [f \in old |-> LineAmount[f.line]]
  <2>1. \A f \in old : g[f] = k[f]
    OBVIOUS
  <2> HIDE DEF old, g, k
  <2>2. Sum(old, g) = Sum(old, k)
    BY <2>1, SumSame
  <2> QED BY <2>2 DEF k
<1>7. K \in SUBSET Lines
  OBVIOUS
<1>8. Moves(s, direction)' = Sum(old \cup new, g)
  BY <1>1 DEF Moves
<1>9. Moves(s, direction) = Sum(old, g)
  BY <1>6 DEF Moves
<1>10. Sum(new, g) = Sum(K, LineAmount)
  <2> HIDE DEF g, K
  <2> QED BY <1>5, <1>7, EntriesSum
<1>11. Sum(old \cup new, g) = Sum(old, g) + Sum(new, g)
  <2> HIDE DEF old, new, g
  <2> QED BY <1>2, <1>3, <1>4, SumDisjoint
<1>12. ASSUME NEW other, other # direction
       PROVE  Moves(s, other)' = Moves(s, other)
  <2>1. {f \in facts' : LineSource[f.line] = s /\ f.direction = other}
          = {f \in facts : LineSource[f.line] = s /\ f.direction = other}
    BY <1>12 DEF Entries
  <2> QED BY <2>1 DEF Moves
<1> QED BY <1>8, <1>9, <1>10, <1>11, <1>12

\* What the lines of a document draw is a natural.
LEMMA DrawType ==
  ASSUME ExecutionTypeOK, NEW p \in Payments, doc[p].state # "ABSENT", NEW s
  PROVE  /\ Draw(p, s) \in 0 .. Sum(Lines, LineAmount)
         /\ s \notin SourcesOf(p) => Draw(p, s) = 0
         /\ LinesFrom(p, s) \subseteq Lines
<1>1. LinesFrom(p, s) \in SUBSET Lines
  BY LinesExist DEF LinesFrom
<1>2. \A l \in Lines : LineAmount[l] \in Nat
  BY ExecutionAssumption
<1>3. IsFiniteSet(Lines) /\ IsFiniteSet(LinesFrom(p, s))
  BY <1>1, ExecutionAssumption, FS_Subset
<1>4. Sum(LinesFrom(p, s), LineAmount) <= Sum(Lines, LineAmount)
  BY <1>1, <1>2, <1>3, SumMonotone
<1>5. Sum(LinesFrom(p, s), LineAmount) \in Nat /\ Sum(Lines, LineAmount) \in Nat
  BY <1>1, <1>2, <1>3, SumType
<1>6. s \notin SourcesOf(p) => LinesFrom(p, s) = {}
  BY DEF SourcesOf, LinesFrom
<1>7. Sum({}, LineAmount) = 0
  BY SumEmpty
<1> QED BY <1>1, <1>4, <1>5, <1>6, <1>7 DEF Draw

\* Execution takes from each source what the lines draw on it,
LEMMA ExecutionDraws ==
  ASSUME BooksInvariant, NEW p \in Payments, NEW u \in Users, Execute(u, p), NEW s \in Sources
  PROVE  Position(s)' = Position(s) - Draw(p, s)
<1> USE DEF BooksInvariant
<1>1. doc[p].state = "APPROVED"
  BY ExecuteMoves
<1>2. Posted(p) = {} /\ LinesOf[doc[p].content] \in SUBSET Lines
  BY <1>1, LinesExist DEF Booked
<1>3. facts' = facts \cup Entries(p, LinesOf[doc[p].content], "DEBIT", NoPayment)
  BY DEF Execute, Entries
<1>4. /\ Moves(s, "DEBIT")' = Moves(s, "DEBIT") + Draw(p, s)
      /\ Moves(s, "CREDIT")' = Moves(s, "CREDIT")
  BY <1>2, <1>3, MovesAdded DEF Draw, LinesFrom
<1>5. /\ Moves(s, "DEBIT") \in Nat /\ Moves(s, "CREDIT") \in Nat /\ Draw(p, s) \in Nat
      /\ Opening[s] \in Int
  BY <1>1, MovesType, DrawType, ExecutionAssumption
<1> QED BY <1>4, <1>5 DEF Position

\* and a reversal gives it back.
LEMMA ReversalReturns ==
  ASSUME BooksInvariant, NEW p \in Payments, NEW r \in Payments \ {p}, NEW u \in Users,
         NEW d \in Dates, Reverse(u, p, r, d), NEW s \in Sources
  PROVE  Position(s)' = Position(s) + Draw(p, s)
<1> USE DEF BooksInvariant
<1>1. doc[p].state = "EXECUTED" /\ doc[r].state = "ABSENT"
  BY ReverseMoves
<1>2. Posted(r) = {} /\ LinesOf[doc[p].content] \in SUBSET Lines
  BY <1>1, LinesExist DEF Booked
<1>3. doc'[r].content = doc[p].content
  BY DEF Reverse, ReversalOf, ExecutionTypeOK, ApprovalTypeOK
<1>4. facts' = facts \cup Entries(r, LinesOf[doc[p].content], "CREDIT", p)
  BY <1>3, ReversalBooks DEF Credits
<1>5. /\ Moves(s, "CREDIT")' = Moves(s, "CREDIT") + Draw(p, s)
      /\ Moves(s, "DEBIT")' = Moves(s, "DEBIT")
  <2> DEFINE L == LinesOf[doc[p].content]
  <2>1. facts' = facts \cup Entries(r, L, "CREDIT", p) /\ Posted(r) = {} /\ L \in SUBSET Lines
    BY <1>2, <1>4
  <2>2. ExecutionTypeOK /\ IsFiniteSet(facts)
    OBVIOUS
  <2>3. Draw(p, s) = Sum({l \in L : LineSource[l] = s}, LineAmount)
    BY DEF Draw, LinesFrom
  <2> HIDE DEF BooksInvariant, L
  <2>4. ASSUME NEW e, e = "CREDIT", facts' = facts \cup Entries(r, L, e, p)
        PROVE  /\ Moves(s, e)' = Moves(s, e) + Sum({l \in L : LineSource[l] = s}, LineAmount)
               /\ \A other : other # e => Moves(s, other)' = Moves(s, other)
    BY <2>1, <2>2, <2>4, MovesAdded
  <2>5. /\ Moves(s, "CREDIT")'
             = Moves(s, "CREDIT") + Sum({l \in L : LineSource[l] = s}, LineAmount)
        /\ \A other : other # "CREDIT" => Moves(s, other)' = Moves(s, other)
    BY <2>1, <2>4
  <2> QED BY <2>3, <2>5
<1>6. /\ Moves(s, "DEBIT") \in Nat /\ Moves(s, "CREDIT") \in Nat /\ Draw(p, s) \in Nat
      /\ Opening[s] \in Int
  BY <1>1, MovesType, DrawType, ExecutionAssumption
<1> QED BY <1>5, <1>6 DEF Position

\* What the other payments hold back is a natural.
LEMMA ReservedType ==
  ASSUME ExecutionTypeOK, NEW p \in Payments, NEW s \in Sources
  PROVE  ReservedByOthers(p, s) \in Nat
<1> DEFINE S == {q \in Payments \ {p} : reservation[q][s].state \in Held}
           f == [q \in S |-> reservation[q][s].amount]
<1>1. IsFiniteSet(S)
  BY PaymentAssumption, FS_Subset
<1>2. \A q \in S : f[q] \in Nat
  <2>1. \A q \in S : reservation[q][s] \in Reservation
    BY DEF ExecutionTypeOK
  <2>2. ReservedAmounts \cup {0} \subseteq Nat
    BY ExecutionAssumption
  <2>3. \A r \in Reservation : r.amount \in Nat
    BY <2>2 DEF Reservation
  <2> QED BY <2>1, <2>3
<1> HIDE DEF S, f
<1>3. Sum(S, f) \in Nat
  BY <1>1, <1>2, SumType
<1> QED BY <1>3 DEF ReservedByOthers, S, f

\* No source a payment draws on is left below its floor.
LEMMA ExecutionLeavesFloor ==
  ASSUME BooksInvariant, NEW p \in Payments, NEW u \in Users, Execute(u, p), NEW s \in Sources,
         s \in SourcesOf(p)
  PROVE  Position(s) - Draw(p, s) >= Floor[s]
<1> USE DEF BooksInvariant
<1>1. Position(s) - ReservedByOthers(p, s) - Draw(p, s) >= Floor[s]
  BY DEF Execute, Payable
<1>2. doc[p].state # "ABSENT"
  BY ExecuteMoves
<1>3. /\ Position(s) \in Int /\ ReservedByOthers(p, s) \in Nat /\ Draw(p, s) \in Nat
      /\ Floor[s] \in Int
  BY <1>2, PositionType, ReservedType, DrawType, ExecutionAssumption
<1> QED BY <1>1, <1>3

\* So every step leaves the sources that were at their floors there or above.
LEMMA FloorKept ==
  ASSUME BooksInvariant, [Next]_vars, FloorHolds
  PROVE  FloorHolds'
<1> USE DEF BooksInvariant
<1> SUFFICES ASSUME NEW s \in Sources, Opening[s] >= Floor[s]
             PROVE  Position(s)' >= Floor[s]
  BY DEF FloorHolds
<1>1. Position(s) >= Floor[s] /\ Position(s) \in Int /\ Floor[s] \in Int
  BY PositionType, ExecutionAssumption DEF FloorHolds
<1>2. ASSUME NEW p \in Payments, NEW u \in Users, Execute(u, p)
      PROVE  Position(s)' >= Floor[s]
  <2>1. Position(s)' = Position(s) - Draw(p, s)
    BY <1>2, ExecutionDraws
  <2>2. s \notin SourcesOf(p) => Draw(p, s) = 0
    BY <1>2, ExecuteMoves, DrawType
  <2>3. CASE s \in SourcesOf(p)
    BY <1>2, <2>1, <2>3, ExecutionLeavesFloor
  <2>4. CASE s \notin SourcesOf(p)
    BY <1>1, <2>1, <2>2, <2>4
  <2> QED BY <2>3, <2>4
<1>3. ASSUME NEW p \in Payments, NEW u \in Users, NEW r \in Payments \ {p}, NEW d \in Dates,
             Reverse(u, p, r, d)
      PROVE  Position(s)' >= Floor[s]
  <2>1. Position(s)' = Position(s) + Draw(p, s)
    BY <1>3, ReversalReturns
  <2>2. Draw(p, s) \in Nat
    BY <1>3, ReverseMoves, DrawType
  <2> QED BY <1>1, <2>1, <2>2
<1>4. ASSUME facts' = facts
      PROVE  Position(s)' >= Floor[s]
  BY <1>1, <1>4 DEF Position, Moves
<1>5. ASSUME NEW p \in Payments,
             \/ \E u \in Users, l \in Lines, outcome \in Negative \cup {"CONFIRMED"} :
                  RecordOutcome(u, p, l, outcome)
             \/ External(p)
      PROVE  facts' = facts
  BY <1>5 DEF RecordOutcome, External, ChangeReservation, Reserve, Allocate
<1> QED BY <1>2, <1>3, <1>4, <1>5, StepCases DEF Commit, rows, executionVars

\* Before any fact every source has what it was opened with.
LEMMA PositionInitially ==
  ASSUME Init, NEW s \in Sources
  PROVE  Position(s) = Opening[s]
<1>1. Moves(s, "CREDIT") = 0 /\ Moves(s, "DEBIT") = 0
  <2>1. ASSUME NEW direction
        PROVE  Moves(s, direction) = 0
    <3>1. {f \in facts : LineSource[f.line] = s /\ f.direction = direction} = {}
      BY DEF Init
    <3> QED BY <3>1, SumEmpty DEF Moves
  <2> QED BY <2>1
<1>2. Opening[s] \in Int
  BY ExecutionAssumption
<1> QED BY <1>1, <1>2 DEF Position

\* The movement facts are those of the documents, every payment was approved in
\* full and by more than one person, and the sources keep their floors: for any
\* number of documents, lines and sources, in any order of the commands.
THEOREM FundsFollow == Spec => []FundsFollowApproval
<1>1. Init => FloorHolds
  BY PositionInitially DEF FloorHolds
<1>2. ApprovedInvariant /\ FloorHolds /\ [Next]_vars => FloorHolds'
  BY FloorKept DEF ApprovedInvariant
<1>3. ApprovedInvariant /\ FloorHolds => FundsFollowApproval
  BY BooksFollow DEF ApprovedInvariant, FundsFollowApproval
<1> QED BY <1>1, <1>2, <1>3, ApprovedAlways, PTL DEF Spec

-------------------------------------------------------------------------------
(* Reservations and allocations.                                           *)

\* No external row refers to a document that does not exist.
UnreferencedIfAbsent ==
  \A p \in Payments :
    doc[p].state = "ABSENT" =>
      /\ \A s \in Sources : reservation[p][s].state = "NONE"
      /\ \A o \in Obligations : allocation[p][o].state = "NONE"

\* The payments settled against an obligation.
Settled(o) == {q \in Siblings(o) : doc[q].state = "EXECUTED"}

ExternalInvariant ==
  /\ ExecutionTypeOK
  /\ UnreferencedIfAbsent
  /\ ExecutedHoldsNothing
  /\ ObligationNotOverpaid

\* Amounts and totals of allocations are naturals.
LEMMA AllocationNaturals ==
  ASSUME ExecutionTypeOK, NEW p \in Payments, NEW o \in Obligations
  PROVE  allocation[p][o].amount \in Nat /\ allocation[p][o].known \in Nat
<1>1. allocation[p][o] \in Allocation
  BY DEF ExecutionTypeOK
<1>2. AllocatedAmounts \cup {0} \subseteq Nat /\ KnownTotals \cup {Unknown} \subseteq Nat
  BY ExecutionAssumption DEF Unknown
<1>3. \A a \in Allocation : a.amount \in Nat /\ a.known \in Nat
  BY <1>2 DEF Allocation
<1> QED BY <1>1, <1>3

\* A step keeps the obligations where nothing new is settled and the settled
\* allocations stay.
LEMMA SettledKept ==
  ASSUME ExecutionTypeOK, ObligationNotOverpaid,
         \A o \in Obligations, q \in Payments :
           allocation'[q][o].state = "ACTIVE" /\ doc'[q].state = "EXECUTED"
           => /\ allocation'[q][o] = allocation[q][o]
              /\ doc[q].state = "EXECUTED"
  PROVE  ObligationNotOverpaid'
<1> SUFFICES ASSUME NEW o \in Obligations, NEW p \in Settled(o)', allocation'[p][o].known # Unknown
             PROVE  Sum(Settled(o)', [q \in Settled(o)' |-> allocation'[q][o].amount])
                      <= allocation'[p][o].known
  BY DEF ObligationNotOverpaid, Allocated, Settled, Siblings
<1> DEFINE f == [q \in Settled(o) |-> allocation[q][o].amount]
           g == [q \in Settled(o)' |-> allocation'[q][o].amount]
<1>1. /\ Settled(o)' \in SUBSET Settled(o)
      /\ \A q \in Settled(o)' : allocation'[q][o] = allocation[q][o]
  BY DEF Settled, Siblings
<1>2. p \in Settled(o) /\ allocation[p][o].known # Unknown
  BY <1>1
<1>3. Sum(Settled(o), f) <= allocation[p][o].known
  BY <1>2 DEF ObligationNotOverpaid, Allocated, Settled, Siblings
<1>4. IsFiniteSet(Settled(o)) /\ IsFiniteSet(Settled(o)')
  BY <1>1, PaymentAssumption, FS_Subset DEF Settled, Siblings
<1>5. \A q \in Payments : allocation[q][o].amount \in Nat /\ allocation[q][o].known \in Nat
  BY AllocationNaturals
<1>6. \A q \in Settled(o) : q \in Payments /\ f[q] \in Nat
  BY <1>5 DEF Settled, Siblings
<1>7. \A q \in Settled(o)' : g[q] = f[q]
  BY <1>1
<1> HIDE DEF f, g
<1>8. Sum(Settled(o)', g) = Sum(Settled(o)', f)
  BY <1>7, SumSame
<1>9. Sum(Settled(o)', f) <= Sum(Settled(o), f)
  BY <1>1, <1>4, <1>6, SumMonotone
<1>10. Sum(Settled(o)', f) \in Nat /\ Sum(Settled(o), f) \in Nat
  BY <1>1, <1>4, <1>6, SumType
<1>11. allocation[p][o].known \in Nat /\ allocation'[p][o].known = allocation[p][o].known
  BY <1>1, <1>2, <1>5, <1>6
<1> QED BY <1>3, <1>8, <1>9, <1>10, <1>11 DEF g

\* Execution compares all active allocations of each obligation it settles.
LEMMA ExecutionSettles ==
  ASSUME ExternalInvariant, NEW p \in Payments, NEW u \in Users, Execute(u, p)
  PROVE  ObligationNotOverpaid'
<1> USE DEF ExternalInvariant
<1>1. /\ doc[p].state = "APPROVED" /\ doc'[p].state = "EXECUTED"
      /\ \A q \in Payments \ {p} : doc'[q] = doc[q]
      /\ allocation' = allocation
  BY ExecuteMoves DEF Execute
<1> SUFFICES ASSUME NEW o \in Obligations, NEW t \in Settled(o)', allocation[t][o].known # Unknown
             PROVE  Sum(Settled(o)', [q \in Settled(o)' |-> allocation[q][o].amount])
                      <= allocation[t][o].known
  BY <1>1 DEF ObligationNotOverpaid, Allocated, Settled, Siblings
<1>2. Siblings(o)' = Siblings(o)
  BY <1>1 DEF Siblings
<1>3. CASE allocation[p][o].state = "ACTIVE"
  <2> DEFINE f == [q \in Siblings(o) |-> allocation[q][o].amount]
             g == [q \in Settled(o)' |-> allocation[q][o].amount]
  <2>1. Settled(o)' \in SUBSET Siblings(o) /\ t \in Siblings(o)
    BY <1>2 DEF Settled
  <2>2. allocation[t][o].known = allocation[p][o].known
    BY <1>3, <2>1 DEF Execute, AllocationsValid
  <2>3. Sum(Siblings(o), f) <= allocation[t][o].known
    BY <1>3, <2>2 DEF Execute, AllocationsValid, Allocated
  <2>4. IsFiniteSet(Siblings(o)) /\ IsFiniteSet(Settled(o)')
    BY <2>1, PaymentAssumption, FS_Subset DEF Siblings
  <2>5. \A q \in Siblings(o) : q \in Payments /\ f[q] \in Nat
    BY AllocationNaturals DEF Siblings
  <2>6. \A q \in Settled(o)' : g[q] = f[q]
    BY <2>1
  <2> HIDE DEF f, g
  <2>7. Sum(Settled(o)', g) = Sum(Settled(o)', f)
    BY <2>6, SumSame
  <2>8. Sum(Settled(o)', f) <= Sum(Siblings(o), f)
    BY <2>1, <2>4, <2>5, SumMonotone
  <2>9. Sum(Settled(o)', f) \in Nat /\ Sum(Siblings(o), f) \in Nat
    BY <2>1, <2>4, <2>5, SumType
  <2>10. allocation[t][o].known \in Nat
    BY <2>1, <2>5, AllocationNaturals
  <2> QED BY <2>3, <2>7, <2>8, <2>9, <2>10 DEF g
<1>4. CASE allocation[p][o].state # "ACTIVE"
  <2>1. Settled(o)' = Settled(o)
    BY <1>1, <1>2, <1>4 DEF Settled, Siblings
  <2> QED BY <2>1 DEF ObligationNotOverpaid, Allocated, Settled, Siblings
<1> QED BY <1>3, <1>4

\* Every step keeps the external rows in order.
LEMMA ExternalKept ==
  ASSUME ExternalInvariant, [Next]_vars
  PROVE  ExternalInvariant'
<1> USE DEF ExternalInvariant
<1> DEFINE Kept == UnreferencedIfAbsent' /\ ExecutedHoldsNothing' /\ ObligationNotOverpaid'
<1>1. ExecutionTypeOK'
  BY TypeKept
<1>2. ASSUME ApprovalNext, UNCHANGED executionVars
      PROVE  Kept
  <2>1. PICK p \in Payments :
          /\ doc[p].state \in Open
          /\ doc'[p].state \in {"DRAFT", "APPROVAL_PENDING", "APPROVED", "REJECTED"}
          /\ \A q \in Payments \ {p} : doc'[q] = doc[q]
    BY <1>2, ApprovalMoves
  <2>2. reservation' = reservation /\ allocation' = allocation
    BY <1>2 DEF executionVars
  <2>3. ObligationNotOverpaid'
    BY <2>1, <2>2, SettledKept
  <2> QED BY <2>1, <2>2, <2>3 DEF UnreferencedIfAbsent, ExecutedHoldsNothing
<1>3. ASSUME NEW p \in Payments, NEW u \in Users, Execute(u, p)
      PROVE  Kept
  <2>1. /\ doc[p].state = "APPROVED" /\ doc'[p].state = "EXECUTED"
        /\ \A q \in Payments \ {p} : doc'[q] = doc[q]
        /\ allocation' = allocation
    BY <1>3, ExecuteMoves DEF Execute
  <2>2. /\ \A s \in Sources : reservation'[p][s] = Consumed(reservation[p][s])
        /\ \A q \in Payments \ {p} : reservation'[q] = reservation[q]
    BY <1>3 DEF Execute, ExecutionTypeOK
  <2>3. \A s \in Sources : reservation'[p][s].state \notin Held
    <3>1. \A r \in Reservation : Consumed(r).state \in {"NONE", "CONSUMED"}
      BY DEF Consumed, Reservation
    <3> QED BY <2>2, <3>1 DEF ExecutionTypeOK, Held
  <2>4. ObligationNotOverpaid'
    BY <1>3, ExecutionSettles
  <2> QED BY <2>1, <2>2, <2>3, <2>4 DEF UnreferencedIfAbsent, ExecutedHoldsNothing
<1>4. ASSUME NEW p \in Payments, NEW u \in Users, NEW r \in Payments \ {p}, NEW d \in Dates,
             Reverse(u, p, r, d)
      PROVE  Kept
  <2>1. /\ doc[p].state = "EXECUTED" /\ doc'[p].state = "REVERSED"
        /\ doc[r].state = "ABSENT" /\ doc'[r].state = "EXECUTED"
        /\ \A q \in Payments \ {p, r} : doc'[q] = doc[q]
    BY <1>4, ReverseMoves
  <2>2. /\ reservation' = reservation
        /\ \A q \in Payments \ {p} : allocation'[q] = allocation[q]
    BY <1>4 DEF Reverse, ExecutionTypeOK
  <2>3. \A o \in Obligations : allocation[r][o].state = "NONE"
    BY <2>1 DEF UnreferencedIfAbsent
  <2>4. ObligationNotOverpaid'
    BY <2>1, <2>2, <2>3, SettledKept
  <2>5. "NONE" \notin Held
    BY DEF Held
  <2> QED BY <2>1, <2>2, <2>4, <2>5 DEF UnreferencedIfAbsent, ExecutedHoldsNothing
<1>5. ASSUME NEW p \in Payments, NEW s \in Sources, ChangeReservation(p, s)
      PROVE  Kept
  <2>1. PICK to \in {"OVERDUE", "REVIEW_REQUIRED", "RELEASED"} :
          /\ reservation[p][s].state \in Before(to)
          /\ reservation' = [reservation EXCEPT ![p][s].state = to]
          /\ doc' = doc /\ allocation' = allocation
    BY <1>5 DEF ChangeReservation
  <2>2. reservation[p][s].state \in Held /\ "NONE" \notin Held
    BY <2>1 DEF Before, Held
  <2>3. /\ doc[p].state \notin {"EXECUTED", "REVERSED"}
        /\ doc[p].state # "ABSENT"
    BY <2>2 DEF ExecutedHoldsNothing, UnreferencedIfAbsent
  <2>4. \A q \in Payments \ {p} : reservation'[q] = reservation[q]
    BY <2>1 DEF ExecutionTypeOK
  <2>5. ObligationNotOverpaid'
    BY <2>1, SettledKept
  <2> QED BY <2>1, <2>3, <2>4, <2>5 DEF UnreferencedIfAbsent, ExecutedHoldsNothing
<1>6. ASSUME NEW p \in Payments, NEW s \in Sources, NEW a \in ReservedAmounts, Reserve(p, s, a)
      PROVE  Kept
  <2>1. /\ doc[p].state \in {"DRAFT", "APPROVAL_PENDING", "APPROVED"}
        /\ doc' = doc /\ allocation' = allocation
        /\ \A q \in Payments \ {p} : reservation'[q] = reservation[q]
    BY <1>6 DEF Reserve, Unexecuted, ExecutionTypeOK
  <2>2. ObligationNotOverpaid'
    BY <2>1, SettledKept
  <2> QED BY <2>1, <2>2 DEF UnreferencedIfAbsent, ExecutedHoldsNothing
<1>7. ASSUME NEW p \in Payments, NEW o \in Obligations, NEW a \in AllocatedAmounts,
             NEW known \in KnownTotals, NEW waived \in BOOLEAN, Allocate(p, o, a, known, waived)
      PROVE  Kept
  <2>1. /\ doc[p].state \in {"DRAFT", "APPROVAL_PENDING", "APPROVED"}
        /\ doc' = doc /\ reservation' = reservation
        /\ \A q \in Payments \ {p} : allocation'[q] = allocation[q]
    BY <1>7 DEF Allocate, Unexecuted, ExecutionTypeOK
  <2>2. ObligationNotOverpaid'
    BY <2>1, SettledKept
  <2> QED BY <2>1, <2>2 DEF UnreferencedIfAbsent, ExecutedHoldsNothing
<1>8. ASSUME doc' = doc, reservation' = reservation, allocation' = allocation
      PROVE  Kept
  <2>1. ObligationNotOverpaid'
    BY <1>8, SettledKept
  <2> QED BY <1>8, <2>1 DEF UnreferencedIfAbsent, ExecutedHoldsNothing
<1> HIDE DEF Kept
<1>9. ASSUME NEW p \in Payments, External(p)
      PROVE  Kept
  BY <1>9, <1>5, <1>6, <1>7 DEF External
<1>10. Kept
  BY <1>2, <1>3, <1>4, <1>8, <1>9, StepCases DEF Commit, rows, RecordOutcome
<1> QED BY <1>1, <1>10 DEF Kept

LEMMA ExternalAlways == Spec => []ExternalInvariant
<1>1. Init => ExternalInvariant
  <2> SUFFICES ASSUME Init
               PROVE  ExternalInvariant
    OBVIOUS
  <2>1. /\ \A p \in Payments : doc[p].state = "ABSENT"
        /\ \A p \in Payments, s \in Sources : reservation[p][s].state = "NONE"
        /\ \A p \in Payments, o \in Obligations : allocation[p][o].state = "NONE"
    BY DEF Init, ApprovalInit, AbsentDocument, NoReservation, NoAllocation
  <2> QED BY <2>1, TypeInitially
       DEF ExternalInvariant, UnreferencedIfAbsent, ExecutedHoldsNothing, ObligationNotOverpaid,
           Siblings
<1> QED BY <1>1, ExternalKept, PTL DEF Spec

\* What an executed payment reserved is consumed, whatever the writer of the
\* reservations made of them before (consumeReservations).
THEOREM ReservationsConsumed == Spec => []ExecutedHoldsNothing
<1>1. ExternalInvariant => ExecutedHoldsNothing
  BY DEF ExternalInvariant
<1> QED BY <1>1, ExternalAlways, PTL

\* The payments executed against an obligation stay within its known total, in
\* whatever order they are allocated, executed and reversed.
THEOREM ObligationsNotOverpaid == Spec => []ObligationNotOverpaid
<1>1. ExternalInvariant => ObligationNotOverpaid
  BY DEF ExternalInvariant
<1> QED BY <1>1, ExternalAlways, PTL

-------------------------------------------------------------------------------
(* The payments implement the ledger.                                      *)

\* A document that posts debits has paid out, one that posts credits or nothing
\* has not.
LEMMA DebitsPayOut ==
  ASSUME ExecutionTypeOK, NEW p \in Payments, doc[p].state # "ABSENT", Posted(p) = Debits(p)
  PROVE  PaidOut(p)
<1>1. PICK l : l \in LinesOf[doc[p].content]
  BY LinesExist
<1>2. [payment |-> p, line |-> l, direction |-> "DEBIT", of |-> NoPayment] \in Posted(p)
  BY <1>1 DEF Debits, Entries
<1> QED BY <1>2 DEF PaidOut

\* What a payment drew is fixed with its content.
LEMMA DrawKept ==
  ASSUME NEW p, NEW s, doc'[p].content = doc[p].content
  PROVE  Draw(p, s)' = Draw(p, s)
BY DEF Draw, LinesFrom

\* A payment that paid out exists.
LEMMA PaidOutExists ==
  ASSUME BooksInvariant, NEW p \in Payments, PaidOut(p)
  PROVE  doc[p].state \in {"EXECUTED", "REVERSED"}
BY DEF BooksInvariant, Booked, PaidOut

\* How the ledger sees payment p.
StatusOf(p) ==
  IF ~PaidOut(p) THEN "UNPAID"
  ELSE IF doc[p].reversedBy = NoPayment THEN "PAID" ELSE "REFUNDED"

OutflowOf(p) == [s \in Sources |-> IF PaidOut(p) THEN Draw(p, s) ELSE 0]

\* It sees no change of a document whose facts and reversal link stay.
LEMMA SeenAlike ==
  ASSUME BooksInvariant, [Next]_vars, NEW p \in Payments,
         Posted(p)' = Posted(p), doc'[p].reversedBy = doc[p].reversedBy
  PROVE  StatusOf(p)' = StatusOf(p) /\ OutflowOf(p)' = OutflowOf(p)
<1>1. PaidOut(p)' = PaidOut(p)
  BY DEF PaidOut
<1>2. ASSUME PaidOut(p), NEW s \in Sources
      PROVE  Draw(p, s)' = Draw(p, s)
  BY <1>2, PaidOutExists, ContentsKept, DrawKept DEF BooksInvariant
<1> QED BY <1>1, <1>2 DEF StatusOf, OutflowOf

\* Execution is a payment of the ledger,
LEMMA ExecutionPays ==
  ASSUME BooksInvariant, NEW p \in Payments, NEW u \in Users, Execute(u, p)
  PROVE  Ledger!LedgerNext
<1> USE DEF BooksInvariant
<1>0. PICK draw : draw = [s \in Sources |-> Draw(p, s)]
  OBVIOUS
<1>1. /\ doc[p].state = "APPROVED" /\ doc'[p].state = "EXECUTED"
      /\ doc'[p].reversedBy = doc[p].reversedBy
      /\ \A q \in Payments \ {p} : doc'[q] = doc[q]
  BY ExecuteMoves
<1>2. Next
  BY DEF Next, Commit
<1>3. doc'[p].content = doc[p].content
  BY <1>1, <1>2, ContentsKept
<1>4. facts' = facts \cup Debits(p) /\ \A f \in Debits(p) : f.payment = p
  BY DEF Execute, Debits, Entries
<1>5. Posted(p) = {} /\ doc[p].reversedBy = NoPayment
  BY <1>1 DEF Booked, Linked
<1>6. Posted(p)' = Debits(p)' /\ \A q \in Payments \ {p} : Posted(q)' = Posted(q)
  <2>1. Posted(p)' = {} \cup Debits(p) /\ \A q \in Payments \ {p} : Posted(q)' = Posted(q)
    BY <1>4, <1>5, PostedAfter
  <2> QED BY <1>3, <2>1 DEF Debits
<1>7. ~PaidOut(p) /\ PaidOut(p)'
  <2>1. PICK l : l \in LinesOf[doc[p].content]
    BY <1>1, LinesExist
  <2>2. [payment |-> p, line |-> l, direction |-> "DEBIT", of |-> NoPayment] \in Posted(p)'
    BY <1>3, <1>6, <2>1 DEF Debits, Entries
  <2> QED BY <1>5, <2>2 DEF PaidOut
<1>8. \A q \in Payments \ {p} : StatusOf(q)' = StatusOf(q) /\ OutflowOf(q)' = OutflowOf(q)
  BY <1>1, <1>2, <1>6, SeenAlike
<1>9. StatusOf(p) = "UNPAID" /\ StatusOf(p)' = "PAID"
  BY <1>1, <1>5, <1>7 DEF StatusOf
<1>10. OutflowOf(p)' = draw
  <2>1. \A s \in Sources : Draw(p, s)' = Draw(p, s)
    BY <1>3, DrawKept
  <2> QED BY <1>0, <1>7, <2>1 DEF OutflowOf
<1>11. draw \in [Sources -> 0 .. Sum(Lines, LineAmount)]
  BY <1>0, <1>1, DrawType
<1>12. ASSUME NEW s \in Sources
       PROVE  /\ Position(s)' = Position(s) - Draw(p, s)
              /\ Draw(p, s) > 0 => Position(s) - Draw(p, s) >= Floor[s]
  <2>1. Draw(p, s) > 0 => s \in SourcesOf(p)
    BY <1>1, DrawType
  <2> QED BY <2>1, ExecutionDraws, ExecutionLeavesFloor
<1>13. Ledger!Pay(p, draw)
  <2> DEFINE status == [q \in Payments |-> StatusOf(q)]
             outflow == [q \in Payments |-> OutflowOf(q)]
             position == [s \in Sources |-> Position(s)]
  <2>1. status[p] = "UNPAID" /\ status' = [status EXCEPT ![p] = "PAID"]
    BY <1>8, <1>9
  <2>2. outflow' = [outflow EXCEPT ![p] = draw]
    BY <1>8, <1>10
  <2>3. \A s \in Sources : draw[s] > 0 => position[s] - draw[s] >= Floor[s]
    BY <1>0, <1>12
  <2>4. position' = [s \in Sources |-> position[s] - draw[s]]
    BY <1>0, <1>12
  <2> QED BY <2>1, <2>2, <2>3, <2>4 DEF Ledger!Pay, StatusOf, OutflowOf
<1> QED BY <1>11, <1>13 DEF Ledger!LedgerNext

\* and a reversal refunds the payment it undoes.
LEMMA ReversalRefunds ==
  ASSUME BooksInvariant, NEW p \in Payments, NEW r \in Payments \ {p}, NEW u \in Users,
         NEW d \in Dates, Reverse(u, p, r, d)
  PROVE  Ledger!LedgerNext
<1> USE DEF BooksInvariant
<1>1. /\ doc[p].state = "EXECUTED" /\ doc'[p].state = "REVERSED"
      /\ doc'[p].reversedBy = r
      /\ doc[r].state = "ABSENT" /\ doc'[r].reversedBy = NoPayment
      /\ \A q \in Payments \ {p, r} : doc'[q] = doc[q]
  BY ReverseMoves
<1>2. Next
  BY DEF Next, Commit
<1>3. doc'[p].content = doc[p].content
  BY <1>1, <1>2, ContentsKept
<1>4. /\ facts' = facts \cup Credits(r, p)'
      /\ \A f \in Credits(r, p)' : f.payment = r /\ f.direction = "CREDIT"
  BY ReversalBooks DEF Credits, Entries
<1>5. Posted(r) = {} /\ doc[p].reversedBy = NoPayment
  BY <1>1 DEF Booked, Linked
<1>6. Posted(r)' = Credits(r, p)' /\ \A q \in Payments \ {r} : Posted(q)' = Posted(q)
  <2>1. Posted(r)' = {} \cup Credits(r, p)' /\ \A q \in Payments \ {r} : Posted(q)' = Posted(q)
    BY <1>4, <1>5, PostedAfter
  <2> QED BY <2>1
<1>7. ~PaidOut(r) /\ ~PaidOut(r)'
  BY <1>4, <1>5, <1>6 DEF PaidOut
<1>8. PaidOut(p) /\ PaidOut(p)'
  <2>1. PaidOut(p)
    BY <1>1, ReversedIsPayment, DebitsPayOut DEF Reverse
  <2> QED BY <1>6, <2>1 DEF PaidOut
<1>9. \A q \in Payments \ {p, r} : StatusOf(q)' = StatusOf(q) /\ OutflowOf(q)' = OutflowOf(q)
  BY <1>1, <1>2, <1>6, SeenAlike
<1>10. StatusOf(r)' = StatusOf(r) /\ OutflowOf(r)' = OutflowOf(r)
  BY <1>7 DEF StatusOf, OutflowOf
<1>11. StatusOf(p) = "PAID" /\ StatusOf(p)' = "REFUNDED"
  BY <1>1, <1>5, <1>8, PaymentAssumption DEF StatusOf
<1>12. \A s \in Sources : OutflowOf(p)[s] = Draw(p, s) /\ OutflowOf(p)'[s] = Draw(p, s)
  <2>1. \A s \in Sources : Draw(p, s)' = Draw(p, s)
    BY <1>3, DrawKept
  <2> QED BY <1>8, <2>1 DEF OutflowOf
<1>13. OutflowOf(p)' = OutflowOf(p)
  BY <1>12 DEF OutflowOf
<1>14. \A s \in Sources : Position(s)' = Position(s) + Draw(p, s)
  BY ReversalReturns
<1>15. Ledger!Refund(p)
  <2> DEFINE status == [q \in Payments |-> StatusOf(q)]
             outflow == [q \in Payments |-> OutflowOf(q)]
             position == [s \in Sources |-> Position(s)]
  <2>1. status[p] = "PAID" /\ status' = [status EXCEPT ![p] = "REFUNDED"]
    <3>1. \A q \in Payments \ {p} : StatusOf(q)' = StatusOf(q)
      BY <1>9, <1>10
    <3> QED BY <1>11, <3>1
  <2>2. outflow' = outflow
    <3>1. \A q \in Payments : OutflowOf(q)' = OutflowOf(q)
      BY <1>9, <1>10, <1>13
    <3> QED BY <3>1
  <2>3. position' = [s \in Sources |-> position[s] + outflow[p][s]]
    BY <1>12, <1>14
  <2> QED BY <2>1, <2>2, <2>3 DEF Ledger!Refund, StatusOf, OutflowOf
<1> QED BY <1>15 DEF Ledger!LedgerNext

\* The other commands and the external writer are not seen by it.
LEMMA LedgerUnmoved ==
  ASSUME BooksInvariant, [Next]_vars, facts' = facts,
         \A p \in Payments : doc'[p].reversedBy = doc[p].reversedBy
  PROVE  UNCHANGED Ledger!ledgerVars
<1>1. \A p \in Payments : StatusOf(p)' = StatusOf(p) /\ OutflowOf(p)' = OutflowOf(p)
  BY SeenAlike DEF Posted
<1>2. \A s \in Sources : Position(s)' = Position(s)
  BY DEF Position, Moves
<1> QED BY <1>1, <1>2 DEF Ledger!ledgerVars, StatusOf, OutflowOf

\* The payments implement the ledger: whatever users, drafts, approvals, outcomes
\* and external rows do, the money is seen to leave once for each payment, as a
\* whole and down to the floor at most, and to come back at most once, as a whole.
THEOREM LedgerImplemented == Spec => ImplementsLedger
<1>1. Init => Ledger!LedgerInit
  <2> SUFFICES ASSUME Init
               PROVE  Ledger!LedgerInit
    OBVIOUS
  <2>1. [s \in Sources |-> Position(s)] = Opening
    BY PositionInitially, ExecutionAssumption
  <2>2. \A p \in Payments : ~PaidOut(p)
    BY DEF Init, PaidOut, Posted
  <2> QED BY <2>1, <2>2 DEF Ledger!LedgerInit
<1>2. BooksInvariant /\ [Next]_vars => [Ledger!LedgerNext]_(Ledger!ledgerVars)
  <2> SUFFICES ASSUME BooksInvariant, [Next]_vars
               PROVE  Ledger!LedgerNext \/ UNCHANGED Ledger!ledgerVars
    OBVIOUS
  <2>1. ASSUME ApprovalNext, UNCHANGED executionVars
        PROVE  UNCHANGED Ledger!ledgerVars
    <3>1. PICK p \in Payments : /\ doc'[p].reversedBy = doc[p].reversedBy
                                /\ \A q \in Payments \ {p} : doc'[q] = doc[q]
      BY <2>1, ApprovalMoves DEF BooksInvariant
    <3> QED BY <2>1, <3>1, LedgerUnmoved DEF executionVars
  <2>2. ASSUME doc' = doc, facts' = facts
        PROVE  UNCHANGED Ledger!ledgerVars
    BY <2>2, LedgerUnmoved
  <2>3. ASSUME NEW p \in Payments,
               \/ \E u \in Users, l \in Lines, outcome \in Negative \cup {"CONFIRMED"} :
                    RecordOutcome(u, p, l, outcome)
               \/ External(p)
        PROVE  doc' = doc /\ facts' = facts
    BY <2>3 DEF RecordOutcome, External, ChangeReservation, Reserve, Allocate
  <2> QED BY <2>1, <2>2, <2>3, StepCases, ExecutionPays, ReversalRefunds DEF Commit, rows
<1> QED BY <1>1, <1>2, BooksAlways, PTL DEF Spec, ImplementsLedger, Ledger!LedgerSpec

-------------------------------------------------------------------------------
(* The rows of exports.                                                    *)

Accepted(row) == \E i \in DOMAIN row.attempts : row.attempts[i] = "ACCEPTED"

Last(row) == row.attempts[Len(row.attempts)]

\* What the attempts of an export tell in each of its states.
Told(row) ==
  /\ row \in Export
  /\ Len(row.attempts) = row.version
  /\ row.state = "NONE" => row = NoExport
  /\ row.state # "NONE" => row.version > 0
  /\ row.state \in Answerable => ~Accepted(row) /\ Last(row) # "FAILED"
  /\ row.state = "ACCEPTED" => Accepted(row) /\ Last(row) # "FAILED"
  /\ row.state = "RETURNED" => Accepted(row) /\ Last(row) = "FAILED"
  /\ row.state = "FAILED" => ~Accepted(row) /\ Last(row) = "FAILED"

LEMMA NothingTold == Told(NoExport)
<1>1. <<>> \in Seq(Attempts) /\ Len(<<>>) = 0 /\ DOMAIN <<>> = {}
  OBVIOUS
<1> QED BY <1>1 DEF Told, NoExport, Export, ExportStates, Answerable, Accepted

LEMMA QueuedTold ==
  ASSUME NEW u \in Users
  PROVE  Told(Queued(u)) /\ Queued(u).state = "QUEUED"
<1>1. /\ <<"QUEUED">> \in Seq(Attempts) /\ Len(<<"QUEUED">>) = 1
      /\ DOMAIN <<"QUEUED">> = {1} /\ <<"QUEUED">>[1] = "QUEUED"
  BY DEF Attempts
<1> QED BY <1>1 DEF Told, Queued, Export, ExportStates, Answerable, Accepted, Last

\* The states an outcome leads from and to.
LEMMA OutcomeLeads ==
  ASSUME NEW from, NEW outcome, TargetState(from, outcome) # "NONE"
  PROVE  \/ /\ outcome = "ACCEPTED" /\ from \in Answerable
            /\ TargetState(from, outcome) = "ACCEPTED"
         \/ /\ outcome = "REJECTED" /\ from \in Answerable
            /\ TargetState(from, outcome) = "FAILED"
         \/ /\ outcome = "OUTCOME_UNKNOWN" /\ from \in Answerable
            /\ TargetState(from, outcome) = "SENDING_UNKNOWN"
         \/ /\ outcome = "RETURNED" /\ from = "ACCEPTED"
            /\ TargetState(from, outcome) = "RETURNED"
BY DEF TargetState, Answerable

\* What a sequence has after one more element.
LEMMA Appended ==
  ASSUME NEW S, NEW s \in Seq(S), NEW x \in S
  PROVE  /\ Append(s, x) \in Seq(S)
         /\ Len(s) \in Nat /\ Len(Append(s, x)) = Len(s) + 1
         /\ Append(s, x)[Len(s) + 1] = x
         /\ \A i \in DOMAIN s : i \in DOMAIN Append(s, x) /\ Append(s, x)[i] = s[i]
         /\ \A i \in DOMAIN Append(s, x) : i = Len(s) + 1 \/ i \in DOMAIN s
         /\ Len(s) + 1 \in DOMAIN Append(s, x)
<1>1. /\ Append(s, x) \in Seq(S) /\ Len(Append(s, x)) = Len(s) + 1 /\ Len(s) \in Nat
      /\ DOMAIN s = 1 .. Len(s)
  OBVIOUS
<1>2. DOMAIN Append(s, x) = 1 .. Len(s) + 1
  BY <1>1
<1>3. Append(s, x)[Len(s) + 1] = x /\ \A i \in 1 .. Len(s) : Append(s, x)[i] = s[i]
  OBVIOUS
<1> QED BY <1>1, <1>2, <1>3

\* An outcome adds the attempt that the next state asks for.
LEMMA AcknowledgedTold ==
  ASSUME NEW row, Told(row), NEW outcome \in Outcomes, TargetState(row.state, outcome) # "NONE"
  PROVE  /\ Told(Acknowledged(row, outcome))
         /\ Acknowledged(row, outcome).state = TargetState(row.state, outcome)
         /\ Acknowledged(row, outcome).exporter = row.exporter
<1> DEFINE attempt == AttemptOutcome(outcome)
           state == TargetState(row.state, outcome)
           next == Acknowledged(row, outcome)
<1>1. row \in Export /\ row.attempts \in Seq(Attempts) /\ row.version \in Nat
  BY DEF Told, Export
<1>2. attempt \in Attempts
  BY DEF AttemptOutcome, Attempts
<1>3. state \in ExportStates
  BY OutcomeLeads DEF ExportStates
<1>4. next = [row EXCEPT !.state = state, !.version = row.version + 1,
                         !.attempts = Append(row.attempts, attempt)]
  BY DEF Acknowledged
<1>5. /\ Append(row.attempts, attempt) \in Seq(Attempts)
      /\ Len(row.attempts) \in Nat
      /\ Len(Append(row.attempts, attempt)) = Len(row.attempts) + 1
      /\ Append(row.attempts, attempt)[Len(row.attempts) + 1] = attempt
      /\ \A i \in DOMAIN row.attempts :
           /\ i \in DOMAIN Append(row.attempts, attempt)
           /\ Append(row.attempts, attempt)[i] = row.attempts[i]
      /\ \A i \in DOMAIN Append(row.attempts, attempt) :
           i = Len(row.attempts) + 1 \/ i \in DOMAIN row.attempts
      /\ Len(row.attempts) + 1 \in DOMAIN Append(row.attempts, attempt)
  <2> HIDE DEF attempt
  <2> QED BY <1>1, <1>2, Appended
<1> HIDE DEF attempt, state, next
<1>6. /\ next \in Export /\ next.state = state /\ next.version = row.version + 1
      /\ next.attempts = Append(row.attempts, attempt) /\ next.exporter = row.exporter
  <2>1. PICK longer \in Seq(Attempts) : longer = Append(row.attempts, attempt)
    BY <1>5
  <2>2. PICK n \in Nat : n = row.version + 1
    BY <1>1
  <2>3. next = [row EXCEPT !.state = state, !.version = n, !.attempts = longer]
    BY <1>4, <2>1, <2>2
  <2>4. /\ next \in Export /\ next.state = state /\ next.version = n
        /\ next.attempts = longer /\ next.exporter = row.exporter
    BY <1>1, <1>3, <2>3 DEF Export
  <2> QED BY <2>1, <2>2, <2>4
<1>7. Last(next) = attempt
  BY <1>5, <1>6 DEF Last
<1>8. Accepted(next) <=> Accepted(row) \/ attempt = "ACCEPTED"
  BY <1>5, <1>6 DEF Accepted
<1>9. Len(next.attempts) = next.version /\ next.version > 0
  BY <1>1, <1>5, <1>6 DEF Told
<1>10. /\ outcome = "ACCEPTED" => attempt = "ACCEPTED"
       /\ outcome = "OUTCOME_UNKNOWN" => attempt = "SENDING_UNKNOWN"
       /\ outcome \in {"REJECTED", "RETURNED"} => attempt = "FAILED"
  BY DEF attempt, AttemptOutcome
<1>11. Told(next)
  BY <1>6, <1>7, <1>8, <1>9, <1>10, OutcomeLeads DEF Told, Answerable, state
<1> QED BY <1>6, <1>11 DEF next, state

-------------------------------------------------------------------------------
(* The payments under the exports.                                         *)

Closed == {"EXECUTED", "REVERSED"}

\* The commands composed with the exports are those of the payments.
LEMMA PaymentSteps ==
  ASSUME [AccountingNext]_allVars
  PROVE  [Next]_vars
BY DEF AccountingNext, allVars, Next, Commit, ReverseAccounted, CreateExport, Acknowledge

\* Types of the payments hold under the exports too.
LEMMA PaymentTypes == AccountingSpec => []ExecutionTypeOK
<1>1. AccountingInit => ExecutionTypeOK
  BY TypeInitially DEF AccountingInit
<1>2. ExecutionTypeOK /\ [AccountingNext]_allVars => ExecutionTypeOK'
  BY PaymentSteps, TypeKept
<1> QED BY <1>1, <1>2, PTL DEF AccountingSpec

\* What happens to an executed payment: nothing, or the reversal that the
\* accounting state and the posting lock let through.
LEMMA ClosedMoves ==
  ASSUME ExecutionTypeOK, [AccountingNext]_allVars, NEW q \in Payments, doc[q].state \in Closed
  PROVE  \/ doc'[q] = doc[q]
         \/ /\ doc'[q].state = "REVERSED"
            /\ accounting[q] \notin REVERSAL_BLOCKED_ACCOUNTING_STATES
            /\ ~HeldByLock(q)
            /\ UNCHANGED accountingVars
<1> DEFINE Claim == \/ doc'[q] = doc[q]
                    \/ /\ doc'[q].state = "REVERSED"
                       /\ accounting[q] \notin REVERSAL_BLOCKED_ACCOUNTING_STATES
                       /\ ~HeldByLock(q)
                       /\ UNCHANGED accountingVars
<1>1. ASSUME ApprovalNext
      PROVE  Claim
  <2>1. PICK p \in Payments : /\ doc[p].state \in Open
                              /\ \A r \in Payments \ {p} : doc'[r] = doc[r]
    BY <1>1, ApprovalMoves
  <2> QED BY <2>1 DEF Open, Closed
<1>2. ASSUME NEW p \in Payments, NEW u \in Users, Execute(u, p)
      PROVE  Claim
  BY <1>2, ExecuteMoves DEF Closed
<1>3. ASSUME NEW p \in Payments, NEW u \in Users, NEW r \in Payments \ {p}, NEW d \in Dates,
             ReverseAccounted(u, p, r, d)
      PROVE  Claim
  <2>1. /\ doc'[p].state = "REVERSED" /\ doc[r].state = "ABSENT"
        /\ \A o \in Payments \ {p, r} : doc'[o] = doc[o]
    BY <1>3, ReverseMoves DEF ReverseAccounted
  <2> QED BY <1>3, <2>1 DEF ReverseAccounted, Closed
<1>4. ASSUME NEW p \in Payments,
             \/ \E u \in Users, l \in Lines, outcome \in Negative \cup {"CONFIRMED"} :
                  RecordOutcome(u, p, l, outcome)
             \/ External(p)
      PROVE  Claim
  BY <1>4, ApprovalUntouched
<1>5. ASSUME UNCHANGED vars \/ UNCHANGED rows
      PROVE  Claim
  BY <1>5 DEF vars, rows
<1> HIDE DEF Claim
<1>6. Claim
  BY <1>1, <1>2, <1>3, <1>4, <1>5 DEF AccountingNext, CreateExport, Acknowledge, ReadEffects,
     GiveUp, allVars
<1> QED BY <1>6 DEF Claim

-------------------------------------------------------------------------------
(* The exports, the postings and the payments agree.                       *)

\* Whether t is the only target that p was exported to.
Sole(t, p) ==
  /\ export[t][p] # NoExport
  /\ \A other \in Targets \ {t} : export[other][p] = NoExport

\* The payment carries the state of its only export, and only what was executed
\* is exported.
Followed ==
  \A p \in Payments, t \in Targets :
    /\ Sole(t, p) => accounting[p] = export[t][p].state
    /\ export[t][p] # NoExport => doc[p].state \in Closed

\* A lock that was taken names its target.
LocksNamed == \A p \in Payments : posting[p].state # "NONE" => posting[p].target \in Targets

PostingInvariant ==
  /\ ExecutionTypeOK
  /\ AccountingTypeOK
  /\ LocksNamed
  /\ \A t \in Targets, p \in Payments : Told(export[t][p])
  /\ OnePosting
  /\ Followed
  /\ SoleExportHolds

\* A payment that is held as posted was executed.
LEMMA PostedIsClosed ==
  ASSUME PostingInvariant, NEW p \in Payments, posting[p].state # "NONE"
  PROVE  doc[p].state \in Closed
<1>1. posting[p] \in PostingLock
  BY DEF PostingInvariant, AccountingTypeOK
<1>2. PICK t \in Targets : posting[p].target = t
  BY DEF PostingInvariant, LocksNamed
<1>3. \/ posting[p] = [state |-> "ACTIVE", target |-> t]
      \/ posting[p] = [state |-> "RETURNED", target |-> t]
  BY <1>1, <1>2 DEF PostingLock
<1>4. export[t][p].state \in {"ACCEPTED", "RETURNED"}
  BY <1>3 DEF PostingInvariant, OnePosting
<1> QED BY <1>4 DEF PostingInvariant, Followed, NoExport

\* The commands on payments keep the agreement: a payment whose export may
\* still be accepted carries that state, which blocks its reversal.
LEMMA PaymentsAgree ==
  ASSUME PostingInvariant, [AccountingNext]_allVars, UNCHANGED accountingVars
  PROVE  PostingInvariant'
<1> USE DEF PostingInvariant
<1>1. ExecutionTypeOK'
  BY PaymentSteps, TypeKept
<1>2. AccountingTypeOK' /\ LocksNamed' /\ OnePosting' /\ \A t \in Targets, p \in Payments : Told(export[t][p])'
  BY DEF accountingVars, AccountingTypeOK, LocksNamed, OnePosting
<1>3. Followed'
  BY ClosedMoves DEF Followed, Sole, accountingVars, Closed
<1>4. SoleExportHolds'
  <2> SUFFICES ASSUME NEW p \in Payments, NEW t \in Targets,
                      export[t][p].state \in Answerable \cup {"ACCEPTED"},
                      \A other \in Targets \ {t} : export[other][p] = NoExport
               PROVE  doc'[p].state = "EXECUTED"
    BY DEF SoleExportHolds, accountingVars
  <2>1. doc[p].state = "EXECUTED"
    BY DEF SoleExportHolds
  <2>2. Sole(t, p)
    BY DEF Sole, NoExport, Answerable
  <2>3. accounting[p] \in REVERSAL_BLOCKED_ACCOUNTING_STATES
    BY <2>2 DEF Followed, Answerable, REVERSAL_BLOCKED_ACCOUNTING_STATES
  <2> QED BY <2>1, <2>3, ClosedMoves DEF Closed
<1> QED BY <1>1, <1>2, <1>3, <1>4

\* A new export is queued beside what was never exported, failed or came back.
LEMMA CreationAgrees ==
  ASSUME PostingInvariant, NEW u \in Users, NEW t \in Targets, NEW p \in Payments,
         CreateExport(u, t, p)
  PROVE  PostingInvariant'
<1> USE DEF PostingInvariant
<1>1. doc' = doc /\ posting' = posting /\ UNCHANGED vars
  BY DEF CreateExport, vars
<1>2. export[t][p] = NoExport /\ doc[p].state = "EXECUTED"
  BY DEF CreateExport, DuplicateExport, Told
<1>3. /\ export'[t][p] = Queued(u)
      /\ \A s \in Targets, q \in Payments : s # t \/ q # p => export'[s][q] = export[s][q]
      /\ Told(Queued(u)) /\ Queued(u).state = "QUEUED"
      /\ export' \in [Targets -> [Payments -> Export]]
  <2>1. Told(Queued(u)) /\ Queued(u).state = "QUEUED"
    BY QueuedTold
  <2>2. Queued(u) \in Export
    BY <2>1 DEF Told
  <2>3. export' = [export EXCEPT ![t][p] = Queued(u)]
    BY DEF CreateExport
  <2>4. export \in [Targets -> [Payments -> Export]]
    BY DEF AccountingTypeOK
  <2> HIDE DEF PostingInvariant
  <2>5. PICK row : row = Queued(u)
    OBVIOUS
  <2>6. /\ export'[t][p] = row
        /\ \A s \in Targets, q \in Payments : s # t \/ q # p => export'[s][q] = export[s][q]
        /\ export' \in [Targets -> [Payments -> Export]]
    BY <2>2, <2>3, <2>4, <2>5
  <2> QED BY <2>1, <2>5, <2>6
<1>4. /\ accounting'[p] = "QUEUED"
      /\ \A q \in Payments \ {p} : accounting'[q] = accounting[q]
      /\ accounting' \in [Payments -> ExportStates \cup {"NOT_READY"}]
  BY DEF CreateExport, AccountingTypeOK, ExportStates
<1>5. ExecutionTypeOK' /\ AccountingTypeOK' /\ LocksNamed'
  BY <1>1, <1>3, <1>4, TypeKept DEF AccountingTypeOK, LocksNamed
<1>6. \A s \in Targets, q \in Payments : Told(export'[s][q])
  BY <1>3
<1>7. OnePosting'
  <2>1. export'[t][p].state = "QUEUED" /\ export[t][p].state = "NONE"
    BY <1>2, <1>3 DEF NoExport
  <2>2. ASSUME NEW s \in Targets, NEW q \in Payments
        PROVE  \A state \in {"ACCEPTED", "RETURNED"} :
                 export'[s][q].state = state <=> export[s][q].state = state
    <3> HIDE DEF PostingInvariant
    <3>1. CASE s = t /\ q = p
      BY <2>1, <3>1
    <3>2. CASE s # t \/ q # p
      BY <1>3, <3>2
    <3> QED BY <3>1, <3>2
  <2> HIDE DEF PostingInvariant
  <2>3. OnePosting
    BY DEF PostingInvariant
  <2> SUFFICES ASSUME NEW q \in Payments, NEW s \in Targets
               PROVE  /\ export'[s][q].state = "ACCEPTED"
                           <=> posting'[q] = [state |-> "ACTIVE", target |-> s]
                      /\ export'[s][q].state = "RETURNED"
                           <=> posting'[q] = [state |-> "RETURNED", target |-> s]
    BY DEF OnePosting
  <2>4. posting'[q] = posting[q]
    BY <1>1
  <2>5. /\ export[s][q].state = "ACCEPTED" <=> posting[q] = [state |-> "ACTIVE", target |-> s]
        /\ export[s][q].state = "RETURNED" <=> posting[q] = [state |-> "RETURNED", target |-> s]
    BY <2>3 DEF OnePosting
  <2> QED BY <2>2, <2>4, <2>5
<1>8. Followed'
  BY <1>1, <1>2, <1>3, <1>4 DEF Followed, Sole, NoExport, Closed
<1>9. SoleExportHolds'
  BY <1>1, <1>2, <1>3 DEF SoleExportHolds
<1> QED BY <1>5, <1>6, <1>7, <1>8, <1>9

\* An outcome moves the row, the payment's state and the lock together.
LEMMA OutcomeAgrees ==
  ASSUME PostingInvariant, NEW u \in Users, NEW t \in Targets, NEW p \in Payments,
         NEW outcome \in Outcomes, Acknowledge(u, t, p, outcome)
  PROVE  PostingInvariant'
<1> USE DEF PostingInvariant
<1> DEFINE from == export[t][p].state
           state == TargetState(from, outcome)
           row == Acknowledged(export[t][p], outcome)
<1>1. doc' = doc /\ UNCHANGED vars
  BY DEF Acknowledge, vars
<1>2. state # "NONE" /\ Told(row) /\ row.state = state
  BY AcknowledgedTold DEF Acknowledge
<1>3. /\ export'[t][p] = row
      /\ \A s \in Targets, q \in Payments : s # t \/ q # p => export'[s][q] = export[s][q]
      /\ export' \in [Targets -> [Payments -> Export]]
  <2>1. export \in [Targets -> [Payments -> Export]]
    BY DEF AccountingTypeOK
  <2>2. row \in Export
    BY <1>2 DEF Told
  <2>3. export' = [export EXCEPT ![t][p] = row]
    BY DEF Acknowledge
  <2> HIDE DEF PostingInvariant, from, state, row
  <2> QED BY <2>1, <2>2, <2>3
<1>4. /\ posting'[p] = Locked(t, p, outcome)
      /\ \A q \in Payments \ {p} : posting'[q] = posting[q]
      /\ accounting'[p] = state
      /\ \A q \in Payments \ {p} : accounting'[q] = accounting[q]
      /\ accounting' \in [Payments -> ExportStates \cup {"NOT_READY"}]
  <2>1. state \in ExportStates
    BY <1>2, OutcomeLeads DEF ExportStates
  <2> QED BY <2>1 DEF Acknowledge, AccountingTypeOK
<1>5. \/ outcome = "ACCEPTED" /\ from \in Answerable /\ state = "ACCEPTED"
      \/ outcome = "REJECTED" /\ from \in Answerable /\ state = "FAILED"
      \/ outcome = "OUTCOME_UNKNOWN" /\ from \in Answerable /\ state = "SENDING_UNKNOWN"
      \/ outcome = "RETURNED" /\ from = "ACCEPTED" /\ state = "RETURNED"
  BY <1>2, OutcomeLeads
<1>6. outcome = "ACCEPTED" => posting[p].state = "NONE"
  BY DEF Acknowledge, Lockable
<1>7. posting[p] \in PostingLock
  BY DEF AccountingTypeOK
<1> HIDE DEF from, state, row
<1>8. posting'[p] = IF outcome = "ACCEPTED" THEN [state |-> "ACTIVE", target |-> t]
                    ELSE IF outcome = "RETURNED" THEN [state |-> "RETURNED", target |-> t]
                    ELSE posting[p]
  <2>1. CASE outcome = "RETURNED"
    <3>1. posting[p] = [state |-> "ACTIVE", target |-> t]
      BY <1>5, <2>1 DEF OnePosting, from
    <3> QED BY <1>4, <2>1, <3>1 DEF Locked
  <2> QED BY <1>4, <2>1 DEF Locked
<1>9. posting' \in [Payments -> PostingLock] /\ LocksNamed'
  <2>1. posting'[p] \in PostingLock /\ (posting'[p].state # "NONE" => posting'[p].target \in Targets)
    BY <1>7, <1>8 DEF PostingLock, LocksNamed
  <2>2. posting' \in [Payments -> PostingLock]
    BY <1>4, <2>1 DEF Acknowledge, AccountingTypeOK
  <2> QED BY <1>4, <2>1, <2>2 DEF LocksNamed
<1>10. ExecutionTypeOK' /\ AccountingTypeOK'
  BY <1>1, <1>3, <1>4, <1>9, TypeKept DEF AccountingTypeOK
<1>11. \A s \in Targets, q \in Payments : Told(export'[s][q])
  BY <1>2, <1>3
<1>12. OnePosting'
  <2> SUFFICES ASSUME NEW q \in Payments, NEW s \in Targets
               PROVE  /\ export'[s][q].state = "ACCEPTED"
                           <=> posting'[q] = [state |-> "ACTIVE", target |-> s]
                      /\ export'[s][q].state = "RETURNED"
                           <=> posting'[q] = [state |-> "RETURNED", target |-> s]
    BY DEF OnePosting
  <2>1. /\ export[s][q].state = "ACCEPTED" <=> posting[q] = [state |-> "ACTIVE", target |-> s]
        /\ export[s][q].state = "RETURNED" <=> posting[q] = [state |-> "RETURNED", target |-> s]
    BY DEF OnePosting
  <2>2. CASE q # p
    BY <1>3, <1>4, <2>1, <2>2
  <2>3. CASE q = p /\ s = t
    BY <1>2, <1>3, <1>5, <1>8, <2>1, <2>3 DEF Answerable, from
  <2>4. CASE q = p /\ s # t
    <3>1. export'[s][q] = export[s][q]
      BY <1>3, <2>4
    <3>2. outcome \in {"ACCEPTED", "RETURNED"} =>
            posting[p].state = "NONE" \/ posting[p] = [state |-> "ACTIVE", target |-> t]
      BY <1>5, <1>6 DEF OnePosting, from
    <3> QED BY <1>8, <2>1, <2>4, <3>1, <3>2
  <2> QED BY <2>2, <2>3, <2>4
<1>13. from # "NONE" /\ export[t][p] # NoExport /\ row # NoExport
  BY <1>2, <1>5 DEF from, NoExport, Answerable
<1>14. \A s \in Targets, q \in Payments :
         /\ export'[s][q] # NoExport <=> export[s][q] # NoExport
         /\ Sole(s, q)' <=> Sole(s, q)
  BY <1>3, <1>13 DEF Sole
<1>15. Followed'
  <2>1. \A s \in Targets : Sole(s, p) => s = t
    BY <1>13 DEF Sole
  <2> QED BY <1>1, <1>2, <1>3, <1>4, <1>14, <2>1 DEF Followed
<1>16. SoleExportHolds'
  BY <1>1, <1>2, <1>3, <1>5, <1>14, <1>13 DEF SoleExportHolds, from, Sole, Answerable
<1> QED BY <1>9, <1>10, <1>11, <1>12, <1>15, <1>16

LEMMA PostingsAlwaysAgree == AccountingSpec => []PostingInvariant
<1>1. AccountingInit => PostingInvariant
  <2> SUFFICES ASSUME AccountingInit PROVE PostingInvariant
    OBVIOUS
  <2>1. /\ ExecutionTypeOK
        /\ \A t \in Targets, p \in Payments : export[t][p] = NoExport
    BY TypeInitially DEF AccountingInit
  <2>2. NoExport \in Export /\ Told(NoExport)
    BY NothingTold DEF Told
  <2>3. AccountingTypeOK /\ LocksNamed
    BY <2>2 DEF AccountingInit, AccountingTypeOK, LocksNamed, PostingLock
  <2>4. OnePosting /\ Followed /\ SoleExportHolds
    BY <2>1 DEF AccountingInit, OnePosting, Followed, Sole, SoleExportHolds, NoExport, Answerable
  <2> QED BY <2>1, <2>2, <2>3, <2>4 DEF PostingInvariant
<1>2. PostingInvariant /\ [AccountingNext]_allVars => PostingInvariant'
  <2> SUFFICES ASSUME PostingInvariant, [AccountingNext]_allVars PROVE PostingInvariant'
    OBVIOUS
  <2> QED BY PaymentsAgree, CreationAgrees, OutcomeAgrees
       DEF AccountingNext, ReverseAccounted, allVars
<1> QED BY <1>1, <1>2, PTL DEF AccountingSpec

\* The exports, their attempts, the posting lock and the payment agree, in
\* whatever order the systems answer and the users command.
THEOREM ExportsAgree == AccountingSpec => []PostingsAgree
<1>1. PostingInvariant => PostingsAgree
  <2> SUFFICES ASSUME PostingInvariant PROVE AttemptsTellOutcome
    BY DEF PostingInvariant, PostingsAgree
  <2> SUFFICES ASSUME NEW p \in Payments, NEW t \in Targets
               PROVE  LET row == export[t][p]
                          accepted == \E i \in DOMAIN row.attempts : row.attempts[i] = "ACCEPTED"
                      IN /\ Len(row.attempts) = row.version
                         /\ row.state = "RETURNED"
                              <=> accepted /\ row.attempts[Len(row.attempts)] = "FAILED"
                         /\ row.state = "FAILED"
                              <=> ~accepted /\ row.version > 0
                                  /\ row.attempts[Len(row.attempts)] = "FAILED"
    BY DEF AttemptsTellOutcome
  <2> DEFINE row == export[t][p]
  <2>1. Told(row)
    BY DEF PostingInvariant
  <2>2. row.state \in ExportStates
    BY <2>1 DEF Told, Export
  <2>3. row.state = "NONE" => ~Accepted(row) /\ ~(row.version > 0)
    BY <2>1 DEF Told, NoExport, Accepted
  <2> HIDE DEF row
  <2>4. /\ Len(row.attempts) = row.version
        /\ row.state = "RETURNED" <=> Accepted(row) /\ Last(row) = "FAILED"
        /\ row.state = "FAILED" <=> ~Accepted(row) /\ row.version > 0 /\ Last(row) = "FAILED"
    BY <2>1, <2>2, <2>3 DEF Told, ExportStates, Answerable
  <2> QED BY <2>4 DEF row, Accepted, Last
<1> QED BY <1>1, PostingsAlwaysAgree, PTL

\* Once a payment was posted its row never changes again, whatever the other
\* systems answer: the lock stops the only command that could change it.
THEOREM PostedFrozen == AccountingSpec => PostedIsFrozen
<1> DEFINE Frozen == \A p \in Payments : posting[p].state # "NONE" => doc'[p] = doc[p]
<1>1. PostingInvariant /\ [AccountingNext]_allVars => [Frozen]_allVars
  <2> SUFFICES ASSUME PostingInvariant, [AccountingNext]_allVars, NEW p \in Payments,
                      posting[p].state # "NONE"
               PROVE  doc'[p] = doc[p]
    BY DEF Frozen
  <2>1. doc[p].state \in Closed
    BY PostedIsClosed
  <2> QED BY <2>1, ClosedMoves DEF PostingInvariant, HeldByLock
<1>2. AccountingSpec => [][Frozen]_allVars
  BY <1>1, PostingsAlwaysAgree, PTL DEF AccountingSpec
<1> QED BY <1>2 DEF PostedIsFrozen
===============================================================================
