------------------------------ MODULE GrantScope -------------------------------
(***************************************************************************)
(* What a grant of access reaches.                                         *)
(*                                                                         *)
(* A grant is open to the organization or limited along dimensions, to     *)
(* currencies and by a ceiling on the amount; a dimension with no values   *)
(* is open.  A delegation narrows one grant further.  Containment decides  *)
(* what an administrator may hand out or see; coverage decides what a      *)
(* command on a document may do.  They are written separately, in          *)
(* TypeScript and several times in SQL; here they can be compared.         *)
(***************************************************************************)
EXTENDS Integers

CONSTANTS
  Dims,          \* the dimensions in use, among AllDims
  Values,        \* values of a dimension
  Currencies, NoCurrency,
  Amounts, NoCeiling,
  NoValue        \* a dimension that a delegation leaves as it is

AllDims == {"branch", "unit", "cashbox", "account", "document", "method"}

ScopeAssumption ==
  /\ Dims \subseteq AllDims
  /\ Amounts \subseteq Nat \ {0}
  /\ NoCurrency \notin Currencies
  /\ NoCeiling \notin [amount : Nat, currency : Currencies]
  /\ NoValue \notin Values

DelegatedDims == Dims \cap {"branch", "unit", "document", "method"}

Ceilings == [amount : Amounts, currency : Currencies] \cup {NoCeiling}

Scope ==
  [wide : BOOLEAN, at : [Dims -> SUBSET Values], currencies : SUBSET Currencies, ceiling : Ceilings]

DelegationScope ==
  [at : [DelegatedDims -> Values \cup {NoValue}],
   currency : Currencies \cup {NoCurrency}, ceiling : Ceilings]

OpenAt == [d \in Dims |-> {}]
OpenScope == [wide |-> TRUE, at |-> OpenAt, currencies |-> {}, ceiling |-> NoCeiling]

\* A request names the whole organization or at least one limit, never both;
\* the currency of a ceiling is among the currencies, if there are any.
WellFormed(s) ==
  /\ s.wide <=> s = [OpenScope EXCEPT !.wide = s.wide]
  /\ s.ceiling # NoCeiling /\ s.currencies # {} => s.ceiling.currency \in s.currencies

WellFormedDelegation(d) ==
  /\ d # [at |-> [k \in DelegatedDims |-> NoValue], currency |-> NoCurrency, ceiling |-> NoCeiling]
  /\ d.ceiling # NoCeiling => d.currency \in {NoCurrency, d.ceiling.currency}

-----------------------------------------------------------------------------
(* Containment                                                             *)

\* Faulty variant: a target that is open counts as contained.
ContainsGiven(source, target) == source = {} \/ target \subseteq source

ContainsValues(source, target) ==
  source = {} \/ (target # {} /\ target \subseteq source)

\* A ceiling with no currencies stands for its own currency.
EffectiveCurrencies(s) ==
  IF s.currencies = {} /\ s.ceiling # NoCeiling THEN {s.ceiling.currency} ELSE s.currencies

CeilingWithin(target, source) ==
  source # NoCeiling =>
    /\ target # NoCeiling
    /\ target.currency = source.currency
    /\ target.amount <= source.amount

LowerCeiling(target, source) ==
  /\ target # NoCeiling
  /\ source # NoCeiling => target.amount < source.amount

GrantContains(source, target) ==
  \/ source.wide
  \/ /\ ~target.wide
     /\ \A d \in Dims : ContainsValues(source.at[d], target.at[d])
     /\ ContainsValues(EffectiveCurrencies(source), EffectiveCurrencies(target))
     /\ CeilingWithin(target.ceiling, source.ceiling)

\* The same grant to the same user twice: currencies left to the ceiling count.
ComparableScope(s) == [s EXCEPT !.currencies = EffectiveCurrencies(s)]

-----------------------------------------------------------------------------
(* Delegation                                                              *)

Selected(d) == {k \in DelegatedDims : d.at[k] # NoValue}

TargetCurrency(d) ==
  IF d.currency = NoCurrency /\ d.ceiling # NoCeiling THEN d.ceiling.currency ELSE d.currency

\* The check of the command that creates the delegation.
StrictlyNarrows(s, d) ==
  LET currency == TargetCurrency(d)
      allowed == EffectiveCurrencies(s)
      single(values) == \E v \in values : values = {v}
  IN  /\ \A k \in Selected(d) : ContainsValues(s.at[k], {d.at[k]})
      /\ currency # NoCurrency => ContainsValues(allowed, {currency})
      /\ d.ceiling # NoCeiling => CeilingWithin(d.ceiling, s.ceiling)
      /\ \/ \E k \in Selected(d) : ~single(s.at[k])
         \/ currency # NoCurrency /\ ~single(allowed)
         \/ LowerCeiling(d.ceiling, s.ceiling)

\* The check of delegation_is_current, at each use of the delegation.
StillNarrows(s, d) ==
  LET single(values) == \E v \in values : values = {v}
  IN  /\ \A k \in Selected(d) : ContainsValues(s.at[k], {d.at[k]})
      /\ d.currency # NoCurrency => ContainsValues(s.currencies, {d.currency})
      /\ d.ceiling # NoCeiling =>
           /\ CeilingWithin(d.ceiling, s.ceiling)
           /\ ContainsValues(s.currencies, {d.ceiling.currency})
      /\ \/ \E k \in Selected(d) : ~single(s.at[k])
         \/ d.currency # NoCurrency /\ ~single(s.currencies)
         \/ LowerCeiling(d.ceiling, s.ceiling)

NarrowedAt(s, d) ==
  [k \in Dims |-> IF k \in Selected(d) THEN {d.at[k]} ELSE s.at[k]]

\* The lower of the two ceilings, in the currency of the delegation's.
LeastCeiling(s, d) ==
  IF d.ceiling = NoCeiling THEN s.ceiling
  ELSE IF LowerCeiling(d.ceiling, s.ceiling) THEN d.ceiling
  ELSE [amount |-> s.ceiling.amount, currency |-> d.ceiling.currency]

\* The grant a delegate holds, as the commands read it.
DelegatedScope(s, d) ==
  [wide |-> FALSE, at |-> NarrowedAt(s, d),
   currencies |-> IF d.currency = NoCurrency THEN s.currencies ELSE {d.currency},
   ceiling |-> LeastCeiling(s, d)]

\* The grant a delegate holds, as the list of delegations judges it.
ShownScope(s, d) ==
  [wide |-> FALSE, at |-> NarrowedAt(s, d),
   currencies |-> IF TargetCurrency(d) = NoCurrency THEN s.currencies ELSE {TargetCurrency(d)},
   ceiling |-> IF d.ceiling = NoCeiling THEN s.ceiling ELSE d.ceiling]

-----------------------------------------------------------------------------
(* Coverage                                                                *)

Covers(scope, values) == scope = {} \/ (values # {} /\ values \subseteq scope)

Profiles == {"PAYMENT", "REQUEST", "ACCOUNTING", "TRANSFER", "SETTLEMENT", "CASHBOX"}

\* The dimensions a command of each profile looks at.
Checked(p) ==
  Dims \cap CASE p = "PAYMENT" -> AllDims
              [] p \in {"REQUEST", "ACCOUNTING"} -> {"branch", "unit", "document"}
              [] p = "TRANSFER" -> AllDims \ {"method"}
              [] p = "SETTLEMENT" -> {"branch", "unit", "account"}
              [] p = "CASHBOX" -> {"branch", "unit", "cashbox", "account"}

\* A command on a cashbox wants these open.
MustBeOpen(p) == IF p = "CASHBOX" THEN Dims \cap {"document", "method"} ELSE {}

UnderCeiling(ceiling, c) ==
  ceiling # NoCeiling => ceiling.currency = c.base /\ c.amount <= ceiling.amount

\* Whether one grant covers a command of profile p on a document of context c.
Allows(s, c, p) ==
  /\ \A d \in Checked(p) : Covers(s.at[d], c.at[d])
  /\ \A d \in MustBeOpen(p) : s.at[d] = {}
  /\ p # "ACCOUNTING" => Covers(s.currencies, c.currencies)
  /\ UnderCeiling(s.ceiling, c)

\* The list of payments, for one grant and what a delegation leaves of it.
\* The ceiling of the grant itself is not looked at.
PaymentListed(s, d, c) ==
  /\ \A k \in Dims : Covers(s.at[k], c.at[k])
  /\ s.currencies # {} => c.base \in s.currencies /\ c.currencies \subseteq s.currencies
  /\ \A k \in Selected(d) : c.at[k] = {d.at[k]}
  /\ d.currency # NoCurrency => c.base = d.currency /\ c.currencies \subseteq {d.currency}
  /\ UnderCeiling(d.ceiling, c)

\* The list of accounting exports that wait for an acknowledgement.
ExportListed(s, d, c) ==
  /\ \A k \in Checked("ACCOUNTING") : Covers(s.at[k], c.at[k])
  /\ UnderCeiling(s.ceiling, c)
  /\ \A k \in Selected(d) : k # "method" /\ c.at[k] = {d.at[k]}
  /\ d.currency \in {NoCurrency, c.base}
  /\ UnderCeiling(d.ceiling, c)

\* A handover looks at three dimensions of the grant, and wants a delegation
\* that says nothing of documents, methods, currencies or amounts.
HandoverAllowed(s, d, c) ==
  /\ \A k \in Dims \cap {"branch", "unit", "cashbox"} : Covers(s.at[k], c.at[k])
  /\ \A k \in Selected(d) : k \in {"branch", "unit"} /\ c.at[k] = {d.at[k]}
  /\ d.currency = NoCurrency
  /\ d.ceiling = NoCeiling
===============================================================================
