------------------------------ MODULE MCTransfer ------------------------------
(***************************************************************************)
(* Two transfers out of a till of 3, of which payments have reserved 1: 2  *)
(* to Dan with a cheque (two steps of approval), 1 back from Dan (none),   *)
(* or 2 to a bank account.  Bob, Eve or nobody keeps the till.             *)
(***************************************************************************)
EXTENDS Transfer, TLC

CONSTANTS t1, t2, ana, bob, dan, eve, till, account, cheque, free, checked,
          unit, branch

MCCashboxes == {till}
MCAccounts == {account}

MCKeys == {unit}
MCValues == {branch}
MCPolicies == {free, checked}
MCScope == [pol \in MCPolicies |-> [k \in MCKeys |-> IF pol = free THEN branch ELSE AnyValue]]
MCMinimum == [pol \in MCPolicies |-> IF pol = free THEN NoMinimum ELSE 2]
MCMaximum == [pol \in MCPolicies |-> IF pol = free THEN 1 ELSE 99]

Planned(from, to, n, list) ==
  [source |-> from, destination |-> to, amount |-> n, assets |-> list,
   context |-> [k \in MCKeys |-> branch]]

\* The last one has no route.
MCPlans == {Planned(till, dan, 2, {cheque}), Planned(dan, till, 1, {}),
            Planned(till, account, 2, {}), Planned(dan, account, 1, {})}

\* Dan approves only for Eve.
MCHolders == [perm \in Permissions |->
  CASE perm \in {"transfer.create", "transfer.submit"} -> {ana}
    [] perm = "transfer.approve" -> {ana, bob, eve}
    [] perm = "transfer.reject" -> {bob}
    [] OTHER -> {bob, dan, eve}]
MCDelegations == {<<dan, eve>>}

MCSteps ==
  free :> <<>> @@
  checked :> << [holders |-> {bob, eve}, required |-> 1,
                 rules |-> {"SOURCE_CUSTODIAN_NOT_APPROVER"}],
                [holders |-> {ana, bob, eve}, required |-> 2,
                 rules |-> {"CREATOR_NOT_APPROVER"}] >>

MCEndpoints == {till, account, dan}
MCOpening == [e \in Endpoints |-> IF e = till THEN 3 ELSE 0]
MCWithheld == [e \in Endpoints |-> IF e = till THEN 1 ELSE 0]
MCFloor == [e \in Endpoints |-> 0]
MCCeiling == [e \in Endpoints |-> 2]

Symmetric == Permutations(Transfers)
===============================================================================
