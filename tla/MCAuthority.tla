------------------------------ MODULE MCAuthority ------------------------------
(***************************************************************************)
(* Who may do what, in seven parts, one of which a behaviour is about:     *)
(*   rotation     three rows of two sessions, which two requests rotate;   *)
(*   commands     two protected commands and two step-up proofs;           *)
(*   grants       two requests of a grant over time, spelt in two ways;    *)
(*   containment  grants with money limits of every kind, handed on;       *)
(*   delegation   a grant and a delegation with limits of every kind;      *)
(*   policies     two requests of policies, and room for three;            *)
(*   checks       one policy of any scope, an author and approvers with    *)
(*                grants of every kind.                                    *)
(* In the parts that are not about sessions, these stay as they start.     *)
(* Grants start from a founding one over the whole organization.  They are *)
(* limited in two dimensions: one a delegation can narrow (method) and one *)
(* it cannot (cashbox).                                                    *)
(***************************************************************************)
EXTENDS AuthorityParts, TLC

CONSTANTS
  x1, x2,         \* two requests
  y1, y2, y3,     \* session rows, policies; two of them: grants
  root, ann, bob, admin, clerk, g1, d1, v1, v2, usd, eur, anyone, lead

-------------------------------------------------------------------------------
(* What grants, delegations and policies are limited to.                   *)

MCValues == {v1, v2}
MCCurrencies == {usd, eur}
MCGrantDims == {"method", "cashbox"}
MCPolicyDims == {"branch", "cashbox", "document"}

Ceiling(n, c) == [amount |-> n, currency |-> c]
Limited(at, currencies, ceiling) ==
  [wide |-> FALSE, at |-> at, currencies |-> currencies, ceiling |-> ceiling]
Open(dims) ==
  [wide |-> TRUE, at |-> [d \in dims |-> {}], currencies |-> {}, ceiling |-> NoCeiling]

At(method, cashbox) == [d \in GrantDims |-> IF d = "method" THEN method ELSE cashbox]

\* One limit, spelt in two ways.
FewScopes ==
  {Limited(At({}, {}), {}, Ceiling(1, usd)), Limited(At({}, {}), {usd}, Ceiling(1, usd))}

\* Money limits of every kind, and one dimension limited at a time.
MoneyScopes ==
  {Open(GrantDims)}
    \cup {Limited(At({}, {}), cs, l) :
            cs \in {{}, {usd}, {usd, eur}}, l \in {NoCeiling, Ceiling(1, usd), Ceiling(2, usd)}}
    \cup {Limited(At({v1}, {}), {}, NoCeiling), Limited(At({v1, v2}, {v1}), {}, NoCeiling)}

\* Ceilings with every currency, and ceilings with a list of methods.
ManyScopes ==
  {Open(GrantDims)}
    \cup {Limited(At({}, {}), cs, l) :
            cs \in {{}, {usd}, {usd, eur}}, l \in {Ceiling(1, usd), Ceiling(2, usd), Ceiling(2, eur)}}
    \cup {Limited(At(m, {v1}), {usd}, l) :
            m \in {{v1}, {v1, v2}}, l \in {Ceiling(1, usd), Ceiling(2, usd)}}

FewContexts ==
  {[at |-> At(m, b), currencies |-> cs \cup {base}, base |-> base, amount |-> n] :
     m \in {{v1}, {v1, v2}}, b \in {{}, {v1}},
     cs \in SUBSET Currencies, base \in Currencies, n \in 1 .. 2}

Administration == {"access-grant.manage", "delegation.manage", "access-control.view"}

TheGrants(ids) ==
  [g \in ids |->
     IF g = g1 THEN [user |-> root, role |-> admin, scope |-> Open(GrantDims),
                     from |-> 0, to |-> 2, by |-> NoGrant]
     ELSE NoGrant]
TheRoles(ids) == [k \in ids |-> IF k = admin THEN Administration ELSE NoRole]

Within(branch, cashbox, document) ==
  [d \in PolicyDims |->
     CASE d = "branch" -> branch [] d = "cashbox" -> cashbox [] d = "document" -> document]

\* Grants with every limit on money, and limits on one dimension each.
SomeGrants ==
  {Limited(Within({}, {}, {}), cs, l) :
     cs \in {{}, {usd}, {usd, eur}}, l \in {NoCeiling, Ceiling(1, usd), Ceiling(2, usd)}}
    \cup {Limited(Within({v1}, {}, {v1}), {}, NoCeiling),
          Limited(Within({v1, v2}, {}, {v1}), {}, NoCeiling),
          Limited(Within({}, {v1}, {}), {}, NoCeiling),
          Limited(Within({}, {}, {v2}), {}, NoCeiling), Open(PolicyDims)}

NoMin == -1
NoMax == MaxAmount + 1
ScopesOf(branches, currencies, minima, maxima) ==
  {[at |-> [k \in {"branch", "currency"} |-> IF k = "branch" THEN b ELSE c], min |-> lo, max |-> hi] :
     b \in branches, c \in currencies, lo \in minima, hi \in maxima}

MCApprovers ==
  [s \in {lead, anyone} |->
     IF s = lead THEN [user : {ann}, scope : {Open(PolicyDims)}]
     ELSE [user : {ann, bob}, scope : SomeGrants]]

-------------------------------------------------------------------------------
(* The parts.                                                              *)

MCRows == {y1, y2, y3}
MCRequests == {x1, x2}

MCUsers == {root, ann}

\* What a delegation may narrow its grant to.
Narrowing ==
  [at : [{"method"} -> Values \cup {NoValue}], currency : Currencies \cup {NoCurrency},
   ceiling : {NoCeiling, Ceiling(1, usd), Ceiling(2, usd), Ceiling(2, eur)}]

MCGrantSetting ==
  "grants" :>
    [secured |-> {root}, roles |-> {admin, clerk}, privileged |-> {"access-grant.manage"},
     grants |-> {g1, y1, y2}, delegations |-> {}, requests |-> {x1, x2},
     founding |-> TheGrants({g1, y1, y2}), foundingRoles |-> TheRoles({admin, clerk}),
     scopes |-> FewScopes, narrowings |-> {}, contexts |-> {}]
  @@ "containment" :>
    [secured |-> Users, roles |-> {admin}, privileged |-> Administration,
     grants |-> {g1, y1, y2}, delegations |-> {}, requests |-> {x1},
     founding |-> TheGrants({g1, y1, y2}), foundingRoles |-> TheRoles({admin}),
     scopes |-> MoneyScopes, narrowings |-> {}, contexts |-> FewContexts]
  @@ "delegation" :>
    [secured |-> Users, roles |-> {admin}, privileged |-> Administration,
     grants |-> {g1, y1}, delegations |-> {d1}, requests |-> {x1},
     founding |-> TheGrants({g1, y1}), foundingRoles |-> TheRoles({admin}),
     scopes |-> ManyScopes, narrowings |-> Narrowing, contexts |-> FewContexts]

MCPolicySetting ==
  "policies" :>
    [policies |-> {y1, y2, y3}, requests |-> {x1, x2}, subjects |-> {lead}, maxNeed |-> 1,
     authors |-> {Open(PolicyDims)},
     scopes |-> ScopesOf({NoValue, v1}, {NoValue, usd}, {NoMin, 1}, {1, NoMax})]
  @@ "checks" :>
    [policies |-> {y1}, requests |-> {x1}, subjects |-> {lead, anyone}, maxNeed |-> 2,
     authors |-> SomeGrants,
     scopes |-> ScopesOf({NoValue, v1, v2}, {NoValue, usd, eur}, {NoMin, 0, 2}, {0, 1, 2, NoMax})]

\* A rotation asks for no proof, meets one epoch and is of one of two sessions, one
\* of which one request leaves, before their absolute end; commands are of a session
\* of one row that stays in use.
SessionBound ==
  \/ /\ part = "rotation"
     /\ proof' = proof /\ epoch' = epoch
     /\ Cardinality({s \in Rows : row'[s].logical = s}) <= 2
     /\ Cardinality({r \in Requests : request'[r].at = "LEAVING"}) <= 1
     /\ out' = {}
  \/ /\ part = "commands"
     /\ Cardinality(Used') <= 1
     /\ \A s \in Rows : ~row'[s].idle /\ ~row'[s].due
  \/ part \notin SessionParts

MCNext == PartsNext /\ SessionBound

MCSpec == PartsInit /\ [][MCNext]_allParts

Symmetric == Permutations({x1, x2}) \cup Permutations({y1, y2, y3})
===============================================================================
