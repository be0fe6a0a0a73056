---------------------------- MODULE ApprovalPolicy ----------------------------
(***************************************************************************)
(* Selection of the approval policy of a submitted document.               *)
(*                                                                         *)
(* The database query keeps the active policies whose scope and amount     *)
(* band admit the document; the service then wants exactly one most        *)
(* specific policy among them, and refuses the submission otherwise.       *)
(*                                                                         *)
(* A policy leaves a scope key open with AnyValue, and an amount bound with     *)
(* NoMinimum or NoMaximum (NULL in the table).  NoMinimum is below and     *)
(* NoMaximum above every amount, so "narrower" is the order on the bounds. *)
(***************************************************************************)
EXTENDS Naturals, Integers

CONSTANTS
  Policies,       \* the ACTIVE approval policies
  NoPolicy,       \* no unique policy exists
  Keys,           \* scope keys: branch, treasury unit, currency, method
  Values, AnyValue,    \* values of the keys, and the open value
  Scope,          \* Scope[p][k]: the value policy p asks of key k, or AnyValue
  Minimum,        \* Minimum[p] .. Maximum[p]: the amount band of p
  Maximum,
  NoMaximum       \* the open upper bound

NoMinimum == -1

ASSUME PolicyAssumption ==
  /\ NoPolicy \notin Policies
  /\ AnyValue \notin Values
  /\ NoMaximum \in Nat
  /\ Scope \in [Policies -> [Keys -> Values \cup {AnyValue}]]
  /\ Minimum \in [Policies -> Nat \cup {NoMinimum}]
  /\ Maximum \in [Policies -> 0 .. NoMaximum]

\* The policies the query returns for a document of context c and basis a.
Candidates(c, a) ==
  {p \in Policies :
     /\ \A k \in Keys : Scope[p][k] \in {AnyValue, c[k]}
     /\ Minimum[p] <= a
     /\ a <= Maximum[p]}

\* p leaves at most what q leaves: each key closed by q is closed the same way.
Within(p, q) ==
  /\ \A k \in Keys : Scope[q][k] \in {AnyValue, Scope[p][k]}
  /\ Minimum[q] <= Minimum[p]
  /\ Maximum[p] <= Maximum[q]

Strict(p, q) ==
  \/ \E k \in Keys : Scope[q][k] = AnyValue /\ Scope[p][k] # AnyValue
  \/ Minimum[q] < Minimum[p]
  \/ Maximum[p] < Maximum[q]

Dominates(p, q) == Within(p, q) /\ Strict(p, q)

Maximal(C) == {p \in C : \A q \in C : q # p => ~Dominates(q, p)}

\* The single most specific candidate, NoPolicy when there are none or several.
UniqueMaximal(C) ==
  IF \E p \in Policies : Maximal(C) = {p}
  THEN CHOOSE p \in Policies : Maximal(C) = {p}
  ELSE NoPolicy

Resolve(c, a) == UniqueMaximal(Candidates(c, a))
===============================================================================
