-------------------------- MODULE MCPaymentExecution --------------------------
(***************************************************************************)
(* Payments of two contents: fees (3 from the till in two lines) and wire  *)
(* (1 from the account), to one party, under one summed policy.            *)
(***************************************************************************)
EXTENDS PaymentExecution, TLC

CONSTANTS p1, p2, p3, ana, bob, cyd, fees, wire, pol, method, cash,
          coins, notes, transfer, till, account

MCPolicies == {pol}
MCKeys == {method}
MCValues == {cash}
MCScope == pol :> [k \in MCKeys |-> AnyValue]
MCMinimum == pol :> NoMinimum
MCMaximum == pol :> 99

MCContents == {fees, wire}
MCOnlyFees == {fees}
MCOnlyWire == {wire}
MCContext == [c \in Contents |-> [k \in MCKeys |-> cash]]
MCBeneficiary == [c \in Contents |-> "landlord"]
MCAmount == [c \in Contents |-> IF c = fees THEN 3 ELSE 1]

MCLines == {coins, notes, transfer}
MCLinesOf == [c \in Contents |-> IF c = fees THEN {coins, notes} ELSE {transfer}]
MCLineSource == [l \in MCLines |-> IF l = transfer THEN account ELSE till]
MCLineAmount == coins :> 1 @@ notes :> 2 @@ transfer :> 1
MCOpening == till :> 6 @@ account :> 1
MCAmple == till :> 7 @@ account :> 1
MCFloor == till :> 1 @@ account :> 0
MCCeiling == till :> 4 @@ account :> 4

\* Ana creates and may execute under an override; Bob approves and executes;
\* Cyd acts for Ana, and reverses.
MCHolders == [perm \in Permissions |-> Users \cap
  CASE perm \in {"payment.create", "payment.submit", "separation.override"} -> {ana}
    [] perm \in {"payment.approve", "payment.execute"} -> {ana, bob}
    [] perm = "payment.reverse" -> {bob, cyd}
    [] perm = "bank-instruction.record-outcome" -> {bob, cyd}
    [] OTHER -> {bob}]
MCDelegations == {<<cyd, ana>>}
MCNoDelegations == {}
MCSteps == pol :> << [holders |-> {ana, bob}, required |-> 1, rules |-> {}] >>
MCTwoApprovals == pol :> << [holders |-> {ana, bob}, required |-> 2, rules |-> {}] >>
MCNoSteps == pol :> << >>
MCSummed == pol :> "BENEFICIARY"
MCAlone == pol :> "NONE"
MCClosedDays == {<<till, 2>>}

Symmetric == Permutations(Payments)
===============================================================================
