---------------------------- MODULE PolicyRegistry -----------------------------
(***************************************************************************)
(* Creation of the approval policies of one document type.                 *)
(*                                                                         *)
(* The author's authority is judged before the transaction and, from rows  *)
(* then locked, inside it.  Under the advisory lock of the document type   *)
(* the command wants enough approvers whose grants reach what the policy   *)
(* selects, and no active policy it overlaps without being narrower or     *)
(* wider.  What is selected later is the business of ApprovalPolicy.       *)
(***************************************************************************)
EXTENDS GrantScope, FiniteSets

CONSTANTS
  PolicyIds, NoRecord,
  Requests, Idle,
  Base,            \* the base currency of the organization
  DocumentType,    \* a value of dimension "document"
  PolicyScopes,    \* the scopes requested
  MaxAmount,       \* bound of the amounts of documents
  Authors,         \* the scopes of the author's approval-policy.manage grants
  Subjects,        \* a role or a named approver
  Approvers,       \* Approvers[subject]: grants [user, scope] that may approve
  MaxNeed          \* bound of the approvals a step asks for

Keys == (Dims \cap {"branch", "unit", "method"}) \cup {"currency"}
NoMax == MaxAmount + 1
NoMin == -1

RegistryAssumption ==
  /\ Base \in Currencies
  /\ DocumentType \in Values
  /\ Authors \subseteq Scope
  /\ \A subject \in Subjects : \A a \in Approvers[subject] :
       a.scope \in Scope /\ (a.scope.wide => a.scope = OpenScope)
  /\ IsFiniteSet(PolicyIds) /\ NoRecord \notin PolicyIds /\ NoValue \notin Currencies
  /\ MaxAmount \in Nat /\ Amounts \subseteq 0 .. MaxAmount
  /\ \A p \in PolicyScopes :
       /\ \A k \in Keys \ {"currency"} : p.at[k] \in Values \cup {NoValue}
       /\ p.at["currency"] \in Currencies \cup {NoValue}
       /\ p.min \in 0 .. MaxAmount \cup {NoMin} /\ p.max \in 0 .. NoMax

VARIABLES
  policies,    \* the ACTIVE policies
  requests     \* the commands under way

vars == <<policies, requests>>

Step == [subject : Subjects, need : 1 .. MaxNeed]
Policy == [scope : PolicyScopes, step : Step]
Request == [stage : {"admitted", "locked", "clear"}, policy : Policy]

InStage(r, stage) == requests[r] # Idle /\ requests[r].stage = stage
HoldsLock(r) == InStage(r, "locked") \/ InStage(r, "clear")
Locked == \E r \in Requests : HoldsLock(r)

\* Types, and the advisory lock is held once.
PolicyTypeOK ==
  /\ policies \in [PolicyIds -> Policy \cup {NoRecord}]
  /\ requests \in [Requests -> Request \cup {Idle}]
  /\ \A r, q \in Requests : HoldsLock(r) /\ HoldsLock(q) => r = q

Active == {p \in PolicyIds : policies[p] # NoRecord}

\* The selection rules of submitted documents, over the policies active now.
Selection ==
  INSTANCE ApprovalPolicy WITH
    Policies <- Active, NoPolicy <- NoRecord, Keys <- Keys,
    Values <- Values \cup Currencies, AnyValue <- NoValue,
    Scope <- [p \in Active |-> policies[p].scope.at],
    Minimum <- [p \in Active |-> policies[p].scope.min],
    Maximum <- [p \in Active |-> policies[p].scope.max],
    NoMaximum <- NoMax

-----------------------------------------------------------------------------
(* What the command checks                                                 *)

Whole(s) == s.min = NoMin /\ s.max = NoMax /\ \A k \in Keys : s.at[k] = NoValue

WellFormedPolicy(s) == s.min # NoMin /\ s.max # NoMax => s.min <= s.max

Chosen(s, k) == IF s.at[k] = NoValue THEN {} ELSE {s.at[k]}

PolicyAt(s) ==
  [d \in Dims |-> IF d = "document" THEN {DocumentType}
                  ELSE IF d \in Keys THEN Chosen(s, d) ELSE {}]

\* The policy as a grant, for the check before the transaction.
PolicyAuthorization(s) ==
  [wide |-> FALSE, at |-> PolicyAt(s), currencies |-> Chosen(s, "currency"),
   ceiling |-> IF s.max = NoMax THEN NoCeiling ELSE [amount |-> s.max, currency |-> Base]]

\* The check inside the transaction.
PolicyGrantContains(g, s) ==
  LET required == IF s.at["currency"] = NoValue /\ s.max # NoMax THEN {Base}
                  ELSE Chosen(s, "currency")
  IN  \/ g.wide
      \/ /\ \A d \in Dims : ContainsValues(g.at[d], PolicyAt(s)[d])
         /\ ContainsValues(EffectiveCurrencies(g), required)
         /\ g.ceiling # NoCeiling =>
              s.max # NoMax /\ g.ceiling.currency = Base /\ s.max <= g.ceiling.amount

\* A grant of an approver reaches whatever the policy selects.
Reaches(g, s) ==
  \/ g.wide
  \/ /\ ~Whole(s)
     /\ \A d \in Dims : ContainsValues(g.at[d], PolicyAt(s)[d])
     /\ ContainsValues(g.currencies, Chosen(s, "currency"))
     /\ g.ceiling # NoCeiling =>
          s.max # NoMax /\ g.ceiling.currency = Base /\ s.max <= g.ceiling.amount

Counted(p) == {a \in Approvers[p.step.subject] : Reaches(a.scope, p.scope)}
SubjectEligible(p) == Cardinality({a.user : a \in Counted(p)}) >= p.step.need

Overlap(s, t) ==
  /\ \A k \in Keys : s.at[k] = NoValue \/ t.at[k] = NoValue \/ s.at[k] = t.at[k]
  /\ ~(s.max # NoMax /\ t.min # NoMin /\ s.max < t.min)
  /\ ~(t.max # NoMax /\ s.min # NoMin /\ t.max < s.min)

\* An open bound is below, or above, every other.
StrictlyNarrower(s, t) ==
  /\ \A k \in Keys : t.at[k] \in {NoValue, s.at[k]}
  /\ t.min <= s.min /\ s.max <= t.max
  /\ \/ \E k \in Keys : t.at[k] = NoValue /\ s.at[k] # NoValue
     \/ t.min < s.min
     \/ s.max < t.max

AmbiguousOverlap(s, t) ==
  Overlap(s, t) /\ ~StrictlyNarrower(s, t) /\ ~StrictlyNarrower(t, s)

-----------------------------------------------------------------------------
Init ==
  /\ policies = [p \in PolicyIds |-> NoRecord]
  /\ requests = [r \in Requests |-> Idle]

\* The command before its transaction.  (PolicyIds bounds the policies.)
Propose(r, p) ==
  /\ requests[r] = Idle
  /\ Active # PolicyIds
  /\ WellFormedPolicy(p.scope)
  /\ \E g \in Authors : GrantContains(g, PolicyAuthorization(p.scope))
  /\ requests' = [requests EXCEPT ![r] = [stage |-> "admitted", policy |-> p]]
  /\ UNCHANGED policies

\* The advisory lock of the document type.
TakeLock(r) ==
  /\ InStage(r, "admitted")
  /\ ~Locked
  /\ requests' = [requests EXCEPT ![r].stage = "locked"]
  /\ UNCHANGED policies

Acceptable(p) ==
  /\ SubjectEligible(p)
  /\ \E g \in Authors : PolicyGrantContains(g, p.scope)
  /\ \A q \in Active : ~AmbiguousOverlap(policies[q].scope, p.scope)

\* The reads of the transaction; a refusal ends it.
Validate(r) ==
  /\ InStage(r, "locked")
  /\ IF Acceptable(requests[r].policy)
     THEN requests' = [requests EXCEPT ![r].stage = "clear"]
     ELSE requests' = [requests EXCEPT ![r] = Idle]
  /\ UNCHANGED policies

\* The inserts and the commit, which gives the lock back.
Insert(r) ==
  /\ InStage(r, "clear")
  /\ \E p \in PolicyIds \ Active : policies' = [policies EXCEPT ![p] = requests[r].policy]
  /\ requests' = [requests EXCEPT ![r] = Idle]

\* The process or its connection ends; the transaction rolls back.
Abort(r) ==
  /\ requests[r] # Idle
  /\ requests' = [requests EXCEPT ![r] = Idle]
  /\ UNCHANGED policies

Next ==
  \E r \in Requests :
    \/ \E p \in Policy : Propose(r, p)
    \/ TakeLock(r) \/ Validate(r) \/ Insert(r) \/ Abort(r)

Spec == Init /\ [][Next]_vars

-----------------------------------------------------------------------------
(* Properties                                                              *)

DocumentContexts ==
  {c \in [Keys -> Values \cup Currencies] :
     /\ c["currency"] \in Currencies
     /\ \A k \in Keys \ {"currency"} : c[k] \in Values}

\* However the commands that created them raced, the active policies that
\* admit a document have one narrowest among them: submission never finds the
\* selection ambiguous.  The creation compares two policies at a time.
SelectionNeverAmbiguous ==
  \A c \in DocumentContexts, a \in 0 .. MaxAmount :
    Selection!Candidates(c, a) # {} => Selection!Resolve(c, a) # NoRecord

\* Inside its transaction a command is never refused for want of authority
\* when the grants are those the check before it read: two functions in two
\* files decide the same question.
ChecksAgree ==
  \A r \in Requests : requests[r] # Idle =>
    \A g \in Authors :
      GrantContains(g, PolicyAuthorization(requests[r].policy.scope))
        <=> PolicyGrantContains(g, requests[r].policy.scope)

\* A document of one line, as the approval sees it.
Document(c, a) ==
  [at |-> [d \in Dims |-> IF d = "document" THEN {DocumentType}
                          ELSE IF d \in Keys THEN {c[d]} ELSE Values],
   currencies |-> {c["currency"], Base}, base |-> Base, amount |-> a]

\* An approver that counted when the policy was created can approve every
\* document the policy selects.  Not so for a policy of a foreign currency:
\* approval wants the base currency within the grant as well.
CountedCanApprove ==
  \A p \in Active : policies[p].scope.at["currency"] \in {NoValue, Base} =>
    \A c \in DocumentContexts, a \in 0 .. MaxAmount :
      p \in Selection!Candidates(c, a) =>
        \A g \in Counted(policies[p]) : Allows(g.scope, Document(c, a), "PAYMENT")
===============================================================================
