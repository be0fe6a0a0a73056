SPECIFICATION ApprovalSpec
CONSTANTS
  p1 = p1
  p2 = p2
  ana = ana
  bob = bob
  cyd = cyd
  small = small
  large = large
  up9 = up9
  from10 = from10
  method = method
  cash = cash
  Policies <- MCPolicies
  NoPolicy = NoPolicy
  Keys <- MCKeys
  Values <- MCValues
  AnyValue = AnyValue
  Scope <- MCScope
  Minimum <- MCMinimum
  Maximum <- MCMaximum
  NoMaximum = 99
  Payments = {p1, p2}
  NoPayment = NoPayment
  Users = {ana, bob, cyd}
  NoUser = NoUser
  Contents <- MCContents
  NoContent = NoContent
  Dates = {1}
  NoDate = NoDate
  Parties = {"landlord"}
  Context <- MCContext
  Beneficiary <- MCBeneficiary
  Amount <- MCAmount
  Holders <- MCHolders
  Delegations <- MCDelegations
  Steps <- MCSteps
  Aggregation <- MCAggregation
  MaxVersion = 4
SYMMETRY Symmetric
INVARIANTS
  ApprovedIsComplete
PROPERTIES
  ApprovedOnLiveTotal
CHECK_DEADLOCK FALSE
