------------------------------- MODULE Authority -------------------------------
(***************************************************************************)
(* Authority of a command: one's own grant, or a grant of the only grantor *)
(* who delegates to the acting user.  Payments, transfers and settlements  *)
(* resolve it alike.  Grants and delegations do not change here.           *)
(***************************************************************************)
CONSTANTS
  Users, NoUser,
  Holders,        \* Holders[perm]: the users granted perm over the documents
  Delegations     \* pairs <<delegate, grantor>> in force

ASSUME AuthorityAssumption ==
  /\ NoUser \notin Users
  /\ Delegations \subseteq Users \X Users

Grantors(u, holders) == {g \in holders : <<u, g>> \in Delegations}

\* The delegated-from user the command records, or no value when refused.
Authority(u, holders) ==
  IF u \in holders THEN {NoUser}
  ELSE IF \E g \in Users : Grantors(u, holders) = {g}
       THEN Grantors(u, holders)
       ELSE {}

Permitted(u, permission) == Authority(u, Holders[permission]) # {}
===============================================================================
