----------------------------- MODULE MCAccounting -----------------------------
(***************************************************************************)
(* One payment of 3 and room for its reversal, exported to two systems.    *)
(* The ledger separates exporter and executor.  The archive has no open    *)
(* period on date 2, and a former mapping next to the active one.          *)
(***************************************************************************)
EXTENDS AccountingExport, TLC

CONSTANTS p1, p2, ana, bob, cyd, fees, pol, method, cash, wire, account, ledger, archive

ACPolicies == {pol}
ACKeys == {method}
ACScope == pol :> [k \in ACKeys |-> AnyValue]
ACMinimum == pol :> NoMinimum
ACMaximum == pol :> 99
ACContents == {fees}
ACContext == [c \in Contents |-> [k \in ACKeys |-> cash]]
ACBeneficiary == [c \in Contents |-> "landlord"]
ACAmount == [c \in Contents |-> 3]
ACLinesOf == [c \in Contents |-> {wire}]
ACLineSource == wire :> account
ACLineAmount == wire :> 3
ACOpening == account :> 9
ACFloor == account :> 0
ACCeiling == account :> 9
ACHolders == [perm \in Permissions |->
  CASE perm = "payment.execute" -> {bob}
    [] perm = "payment.reverse" -> {cyd}
    [] OTHER -> {ana}]
ACSteps == pol :> << >>
ACAggregation == pol :> "NONE"

ACSystem == ledger :> ledger @@ archive :> archive
ACLineMethod == wire :> method
Objects == {"landlord", account, method}
ACMappings ==
  {[system |-> s, local |-> x, state |-> "ACTIVE", entry |-> 1] : s \in {ledger, archive}, x \in Objects}
  \cup {[system |-> archive, local |-> account, state |-> "INACTIVE", entry |-> 2]}
ACPeriods == {[system |-> ledger, first |-> 1, last |-> 2, state |-> "OPEN"],
              [system |-> archive, first |-> 1, last |-> 1, state |-> "OPEN"],
              [system |-> archive, first |-> 2, last |-> 2, state |-> "CLOSED"]}

Symmetric == Permutations(Payments)
===============================================================================
