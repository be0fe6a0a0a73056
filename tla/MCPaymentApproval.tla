-------------------------- MODULE MCPaymentApproval --------------------------
(***************************************************************************)
(* Two payments of 1 or 10 to one party on one day, under two policies     *)
(* summed per day and party: up to 9 with one step, above with two.        *)
(***************************************************************************)
EXTENDS PaymentApproval, TLC

CONSTANTS p1, p2, ana, bob, cyd, small, large, up9, from10, method, cash

MCKeys == {method}
MCValues == {cash}
MCPolicies == {up9, from10}
MCScope == [pol \in MCPolicies |-> [k \in MCKeys |-> IF pol = up9 THEN AnyValue ELSE cash]]
MCMinimum == up9 :> NoMinimum @@ from10 :> 10
MCMaximum == up9 :> 9 @@ from10 :> 99

MCContents == {small, large}
MCContext == [c \in Contents |-> [k \in MCKeys |-> cash]]
MCBeneficiary == [c \in Contents |-> "landlord"]
MCAmount == [c \in Contents |-> IF c = small THEN 1 ELSE 10]

\* Cyd approves only for Bob; Ana creates, and may approve where no rule forbids.
MCHolders == [perm \in Permissions |->
  CASE perm \in {"payment.create", "payment.submit"} -> {ana}
    [] perm = "payment.reject" -> {bob}
    [] OTHER -> {ana, bob}]
MCDelegations == {<<cyd, bob>>}

MCSteps ==
  up9 :> << [holders |-> {ana, bob}, required |-> 1, rules |-> {"CREATOR_NOT_APPROVER"}] >> @@
  from10 :> << [holders |-> {ana}, required |-> 1, rules |-> {}],
               [holders |-> {bob}, required |-> 2, rules |-> {}] >>
MCAggregation == [pol \in MCPolicies |-> "BENEFICIARY"]

Symmetric == Permutations(Payments)
==============================================================================
