----------------------------- MODULE AuthorityParts -----------------------------
(***************************************************************************)
(* Who may do what: the sessions of an account, the grants and delegations *)
(* of an organization, and its approval policies.  They share no state, so *)
(* a behaviour is about one part: one setting of one of the three.  The    *)
(* other two stay as they start.                                           *)
(*                                                                         *)
(* The parts of a kind differ in what is asked of them; a part is given by *)
(* the record of the constants in which it differs from the others.        *)
(***************************************************************************)
EXTENDS Sessions

CONSTANTS
  SessionParts, GrantParts, PolicyParts,
  GrantSetting, PolicySetting,      \* what a part of grants, of policies, differs in
  GrantDims, PolicyDims,            \* the dimensions of each
  Values, Currencies, NoCurrency, Amounts, NoCeiling, NoValue,
  Users, ActiveUsers, Permissions, NoRole, NoGrant, NoDelegation, NoRequest,
  MaxTime, Forever,
  NoRecord, Idle, Base, DocumentType, MaxAmount, Approvers,
  Unused                            \* the value of a variable of the other parts

VARIABLES
  part,
  now, roles, grants, delegations,
  policies,
  requests        \* of grants, or of policies

grantPart == <<now, roles, grants, delegations>>
allParts == <<part, vars, grantPart, policies, requests>>

Grants(k) == INSTANCE AccessGrants WITH
  Dims <- GrantDims, SecuredUsers <- GrantSetting[k].secured,
  RoleIds <- GrantSetting[k].roles, Privileged <- GrantSetting[k].privileged,
  GrantIds <- GrantSetting[k].grants, DelegationIds <- GrantSetting[k].delegations,
  Requests <- GrantSetting[k].requests,
  Founding <- GrantSetting[k].founding, FoundingRoles <- GrantSetting[k].foundingRoles,
  GrantScopes <- GrantSetting[k].scopes, DelegationScopes <- GrantSetting[k].narrowings,
  Contexts <- GrantSetting[k].contexts

Policies(k) == INSTANCE PolicyRegistry WITH
  Dims <- PolicyDims, PolicyIds <- PolicySetting[k].policies,
  Requests <- PolicySetting[k].requests, PolicyScopes <- PolicySetting[k].scopes,
  Authors <- PolicySetting[k].authors, Subjects <- PolicySetting[k].subjects,
  MaxNeed <- PolicySetting[k].maxNeed

ASSUME PartsAssumption ==
  /\ SessionAssumption
  /\ \A k \in GrantParts :
       /\ Grants(k)!ScopeAssumption /\ Grants(k)!GrantAssumption
       /\ Grants(k)!ContextAssumption /\ Grants(k)!FoundingAssumption
  /\ \A k \in PolicyParts : Policies(k)!ScopeAssumption /\ Policies(k)!RegistryAssumption
  /\ SessionParts \cap (GrantParts \cup PolicyParts) = {} /\ GrantParts \cap PolicyParts = {}

-------------------------------------------------------------------------------

NoGrants == now = Unused /\ roles = Unused /\ grants = Unused /\ delegations = Unused

PartsInit ==
  /\ Init
  /\ \/ part \in SessionParts /\ NoGrants /\ policies = Unused /\ requests = Unused
     \/ \E k \in GrantParts : part = k /\ Grants(k)!Init /\ policies = Unused
     \/ \E k \in PolicyParts : part = k /\ Policies(k)!Init /\ NoGrants

PartsNext ==
  \/ part \in SessionParts /\ Next /\ UNCHANGED <<part, grantPart, policies, requests>>
  \/ \E k \in GrantParts : part = k /\ Grants(k)!Next /\ UNCHANGED <<part, vars, policies>>
  \/ \E k \in PolicyParts : part = k /\ Policies(k)!Next /\ UNCHANGED <<part, vars, grantPart>>

PartsSpec == PartsInit /\ [][PartsNext]_allParts

-------------------------------------------------------------------------------
(* Properties.                                                             *)

GrantsContained(k) ==
  /\ Grants(k)!GrantsTypeOK /\ Grants(k)!NoGrantTwice
  /\ Grants(k)!GrantsStayWithinSource
  /\ Grants(k)!DelegateWithinGrantor /\ Grants(k)!DelegationsTakeEffect
  /\ Grants(k)!ShownIsEffective
  /\ Grants(k)!ListsFollowAuthority /\ Grants(k)!ListsStayWithinViewer

PoliciesSettled(k) ==
  /\ Policies(k)!PolicyTypeOK /\ Policies(k)!SelectionNeverAmbiguous
  /\ Policies(k)!ChecksAgree /\ Policies(k)!CountedCanApprove

\* Nobody gets authority that was not there to give: a grant stays within its
\* source and is given once, a delegation permits what its grantor may do and
\* what the lists and commands say it does, and the policies that admit a
\* document have one narrowest, whose approvers can approve it
\* (access-admin.repository.ts:483 and :570, access-authorization.repository.ts:238).
AuthorityIsContained ==
  /\ \A k \in GrantParts : part = k => GrantsContained(k)
  /\ \A k \in PolicyParts : part = k => PoliciesSettled(k)
===============================================================================
