----------------------------- MODULE AccessGrants ------------------------------
(***************************************************************************)
(* Grants and delegations of one organization over time.                   *)
(*                                                                         *)
(* An administrator hands out a grant that one of the own grants contains; *)
(* the containment is judged before the transaction that writes it.  The   *)
(* holder of a grant delegates a strictly narrower part of it.  Nothing is *)
(* revoked: what a grant is worth depends on the clock alone.              *)
(***************************************************************************)
EXTENDS GrantScope, FiniteSets

CONSTANTS
  Users,
  ActiveUsers,     \* active, with an active account
  SecuredUsers,    \* active, the account privileged and with an authenticator
  RoleIds, Permissions, Privileged, NoRole,
  GrantIds, NoGrant,
  DelegationIds, NoDelegation,
  Requests, NoRequest,
  Founding,        \* the grants of the bootstrap: [GrantIds -> grant or NoGrant]
  FoundingRoles,   \* the roles of the bootstrap: [RoleIds -> permissions or NoRole]
  GrantScopes,     \* the scopes requested, among Scope
  DelegationScopes,
  Contexts,        \* the documents the properties are judged on
  MaxTime, Forever

GrantAssumption ==
  /\ SecuredUsers \subseteq ActiveUsers /\ ActiveUsers \subseteq Users
  /\ Privileged \subseteq Permissions
  /\ {"access-grant.manage", "delegation.manage", "access-control.view"} \subseteq Permissions
  /\ GrantScopes \subseteq Scope /\ DelegationScopes \subseteq DelegationScope
  /\ MaxTime \in Nat /\ Forever = MaxTime + 1

\* The documents of the commands: the base currency counts as one of them.
ContextAssumption ==
  Contexts \subseteq
    {c \in [at : [Dims -> SUBSET Values], currencies : SUBSET Currencies,
            base : Currencies, amount : Nat] : c.base \in c.currencies}

VARIABLES
  now, roles, grants, delegations, requests

vars == <<now, roles, grants, delegations, requests>>

Times == 0 .. MaxTime
Ends == 1 .. Forever          \* Forever: no end

Grant ==
  [user : Users, role : RoleIds, scope : Scope, from : Times, to : Ends, by : GrantIds \cup {NoGrant}]

Delegation ==
  [grant : GrantIds, delegate : Users, scope : DelegationScope, from : Times, to : Ends]

GrantsTypeOK ==
  /\ now \in Times
  /\ roles \in [RoleIds -> ((SUBSET Permissions) \ {{}}) \cup {NoRole}]
  /\ grants \in [GrantIds -> Grant \cup {NoGrant}]
  /\ delegations \in [DelegationIds -> Delegation \cup {NoDelegation}]
  /\ requests \in [Requests -> Grant \cup {NoRequest}]

\* The bootstrap makes the roles, and one grant over the whole organization.
FoundingAssumption ==
  /\ FoundingRoles \in [RoleIds -> ((SUBSET Permissions) \ {{}}) \cup {NoRole}]
  /\ Founding \in [GrantIds -> Grant \cup {NoGrant}]
  /\ \A g \in GrantIds : Founding[g] # NoGrant =>
       /\ Founding[g].scope = OpenScope /\ Founding[g].by = NoGrant
       /\ \A h \in GrantIds : Founding[h] # NoGrant => h = g

Granted == {g \in GrantIds : grants[g] # NoGrant}
Delegated == {d \in DelegationIds : delegations[d] # NoDelegation}

During(x) == x.from <= now /\ now < x.to
HasPermission(g, permission) == permission \in roles[grants[g].role]

\* The user's own grants of a permission that are in force.
PermissionGrants(u, permission) ==
  {g \in Granted : grants[g].user = u /\ HasPermission(g, permission) /\ During(grants[g])}

\* The source contains the grant x, in scope and in time.
Authorizes(g, x) ==
  /\ grants[g].from <= x.from
  /\ x.to <= grants[g].to
  /\ GrantContains(grants[g].scope, x.scope)

\* The lists show what one grant to view contains.
Viewing(u) == PermissionGrants(u, "access-control.view")

VisibleGrants(u) == {g \in Granted : \E v \in Viewing(u) : Authorizes(v, grants[g])}

DelegationAuthorization(d) ==
  [from |-> delegations[d].from, to |-> delegations[d].to,
   scope |-> ShownScope(grants[delegations[d].grant].scope, delegations[d].scope)]

VisibleDelegations(u) ==
  {d \in Delegated : \E v \in Viewing(u) : Authorizes(v, DelegationAuthorization(d))}

-----------------------------------------------------------------------------
Init ==
  /\ now = 0
  /\ roles = FoundingRoles
  /\ grants = Founding
  /\ delegations = [d \in DelegationIds |-> NoDelegation]
  /\ requests = [r \in Requests |-> NoRequest]

Tick ==
  /\ now < MaxTime
  /\ now' = now + 1
  /\ UNCHANGED <<roles, grants, delegations, requests>>

\* createRole: the name is new, the permissions are not empty.
ValidRole(permissions) == permissions # {}

CreateRole(k, permissions) ==
  /\ roles[k] = NoRole
  /\ ValidRole(permissions)
  /\ roles' = [roles EXCEPT ![k] = permissions]
  /\ UNCHANGED <<now, grants, delegations, requests>>

\* createAccessGrant up to its transaction: the grant is prepared and the
\* authority of the actor judged; the source is remembered for the properties.
\* (GrantIds bounds the grants.)
PrepareGrant(r, actor, x) ==
  /\ requests[r] = NoRequest
  /\ Granted # GrantIds
  /\ WellFormed(x.scope)
  /\ x.from < x.to
  /\ x.by \in PermissionGrants(actor, "access-grant.manage")
  /\ Authorizes(x.by, x)
  /\ requests' = [requests EXCEPT ![r] = x]
  /\ UNCHANGED <<now, roles, grants, delegations>>

SameGrant(g, x) ==
  [grants[g] EXCEPT !.by = NoGrant, !.scope = ComparableScope(@)]
    = [x EXCEPT !.by = NoGrant, !.scope = ComparableScope(@)]

ExactGrantExists(x) == \E g \in Granted : SameGrant(g, x)

Eligible(x) ==
  /\ x.user \in ActiveUsers
  /\ roles[x.role] # NoRole
  /\ roles[x.role] \cap Privileged # {} => x.user \in SecuredUsers

\* The transaction, under the advisory lock of user and role.
CommitGrant(r) ==
  /\ requests[r] # NoRequest
  /\ requests' = [requests EXCEPT ![r] = NoRequest]
  /\ LET x == requests[r]
     IN  IF Eligible(x) /\ ~ExactGrantExists(x)
         THEN \E g \in GrantIds \ Granted : grants' = [grants EXCEPT ![g] = x]
         ELSE UNCHANGED grants
  /\ UNCHANGED <<now, roles, delegations>>

\* The process ends between the check and the transaction.
AbandonGrant(r) ==
  /\ requests[r] # NoRequest
  /\ requests' = [requests EXCEPT ![r] = NoRequest]
  /\ UNCHANGED <<now, roles, grants, delegations>>

WithinWindow(g, x) ==
  /\ grants[g].from <= x.from
  /\ x.to <= grants[g].to
  /\ now < x.to

CreateDelegation(actor, x) ==
  /\ x.from < x.to
  /\ WellFormedDelegation(x.scope)
  /\ x.grant \in PermissionGrants(actor, "delegation.manage")
  /\ actor \in ActiveUsers
  /\ WithinWindow(x.grant, x)
  /\ x.delegate \in ActiveUsers \ {actor}
  /\ StrictlyNarrows(grants[x.grant].scope, x.scope)
  /\ \E d \in DelegationIds \ Delegated :
       delegations' = [delegations EXCEPT ![d] = x]
  /\ UNCHANGED <<now, roles, grants, requests>>

GrantRequests ==
  [user : Users, role : RoleIds, scope : GrantScopes, from : {now}, to : Ends, by : Granted]
DelegationRequests ==
  [grant : Granted, delegate : Users, scope : DelegationScopes, from : {now}, to : Ends \ {Forever}]

Next ==
  \/ Tick
  \/ \E k \in RoleIds, permissions \in SUBSET Permissions : CreateRole(k, permissions)
  \/ \E r \in Requests, actor \in Users, x \in GrantRequests : PrepareGrant(r, actor, x)
  \/ \E r \in Requests : CommitGrant(r) \/ AbandonGrant(r)
  \/ \E actor \in Users, x \in DelegationRequests : CreateDelegation(actor, x)

Spec == Init /\ [][Next]_vars

-----------------------------------------------------------------------------
(* Properties                                                              *)

\* A document whose lines are all in the base currency.
OneCurrency(c) == c.currencies = {c.base}

\* What a grant of an administrator permits, a grant of the administrator
\* permits at that moment, whatever the command and the document, through
\* every generation; the check ran before the write and is not repeated.
\* Containment takes the currency of a ceiling for the only currency of the
\* grant, which coverage does not: lines in several currencies are left out
\* when the source names currencies and the new grant does not.
GrantsStayWithinSource ==
  \A g \in Granted : grants[g].by # NoGrant /\ During(grants[g]) =>
    LET source == grants[grants[g].by]
    IN  /\ During(source)
        /\ \A c \in Contexts, p \in Profiles :
             /\ Allows(grants[g].scope, c, p)
             /\ OneCurrency(c) \/ grants[g].scope.currencies # {} \/ source.scope.currencies = {}
             => Allows(source.scope, c, p)

\* Two requests never leave the same grant twice to the same user, though
\* the request may spell the currency of its ceiling or leave it out.
NoGrantTwice ==
  \A g, h \in Granted :
    g # h => \/ grants[g].user # grants[h].user \/ grants[g].role # grants[h].role
             \/ grants[g].from # grants[h].from \/ grants[g].to # grants[h].to
             \/ grants[g].scope.at # grants[h].scope.at
             \/ grants[g].scope.ceiling # grants[h].scope.ceiling
             \/ EffectiveCurrencies(grants[g].scope) # EffectiveCurrencies(grants[h].scope)

\* The conditions delegation_is_current evaluates at each use.
DelegationCurrent(d) ==
  /\ During(delegations[d])
  /\ During(grants[delegations[d].grant])
  /\ StillNarrows(grants[delegations[d].grant].scope, delegations[d].scope)

SourceScope(d) == grants[delegations[d].grant].scope

\* A delegate permits nothing the grantor does not, and only while the grantor
\* does; the scope a command reads is put together in SQL, dimension by
\* dimension, apart from the check that admitted the delegation.
DelegateWithinGrantor ==
  \A d \in Delegated : During(delegations[d]) =>
    /\ During(grants[delegations[d].grant])
    /\ \A c \in Contexts, p \in Profiles :
         Allows(DelegatedScope(SourceScope(d), delegations[d].scope), c, p)
           => Allows(SourceScope(d), c, p)

\* Ceilings in a named currency aside, a delegation the command admits is one
\* the database honours: the two tests of "strictly narrower" agree.  They
\* part when all the delegation narrows is the currency of its ceiling.
OnlyNamesCeilingCurrency(s, d) ==
  d.currency = NoCurrency /\ d.ceiling # NoCeiling /\ d.ceiling = s.ceiling

DelegationsTakeEffect ==
  \A d \in Delegated :
    During(delegations[d])
    /\ ~OnlyNamesCeilingCurrency(SourceScope(d), delegations[d].scope)
      => DelegationCurrent(d)

\* The list of delegations shows the authority the commands grant: the scope
\* it judges permits the same single-currency documents as the one in force.
ShownIsEffective ==
  \A d \in Delegated : \A c \in {x \in Contexts : OneCurrency(x)}, p \in Profiles \ {"ACCOUNTING"} :
    Allows(ShownScope(SourceScope(d), delegations[d].scope), c, p)
      <=> Allows(DelegatedScope(SourceScope(d), delegations[d].scope), c, p)

\* A delegate finds in the lists what a command would let through: the
\* payments under the grant without its ceiling, which the list leaves out,
\* and only exports the acknowledgement admits.
ListsFollowAuthority ==
  \A d \in Delegated : \A c \in Contexts :
    LET s == SourceScope(d)
        x == delegations[d].scope
    IN  /\ PaymentListed(s, x, c)
             <=> Allows(DelegatedScope([s EXCEPT !.ceiling = NoCeiling], x), c, "PAYMENT")
        /\ ExportListed(s, x, c) => Allows(DelegatedScope(s, x), c, "ACCOUNTING")
        /\ HandoverAllowed(s, x, c) => \A k \in {"branch", "unit", "cashbox"} \cap Dims :
                                         Covers(DelegatedScope(s, x).at[k], c.at[k])

\* What the lists show a viewer, a grant to view that the viewer holds now
\* permits as well, for single-currency documents; grants and delegations are
\* judged by two scopes put together in different places.
ListsStayWithinViewer ==
  \A u \in Users :
    LET permitted(s) == \A c \in {x \in Contexts : OneCurrency(x)}, p \in Profiles \ {"ACCOUNTING"} :
                          Allows(s, c, p) => \E v \in Viewing(u) : Allows(grants[v].scope, c, p)
    IN  /\ \A g \in VisibleGrants(u) : permitted(grants[g].scope)
        /\ \A d \in VisibleDelegations(u) :
             permitted(DelegatedScope(SourceScope(d), delegations[d].scope))
===============================================================================
