SPECIFICATION Spec
CONSTANTS
  p1 = p1
  p2 = p2
  p3 = p3
  ana = ana
  bob = bob
  cyd = cyd
  fees = fees
  wire = wire
  pol = pol
  method = method
  cash = cash
  coins = coins
  notes = notes
  transfer = transfer
  till = till
  account = account
  Policies <- MCPolicies
  NoPolicy = NoPolicy
  Keys <- MCKeys
  Values <- MCValues
  AnyValue = AnyValue
  Scope <- MCScope
  Minimum <- MCMinimum
  Maximum <- MCMaximum
  NoMaximum = 99
  Payments = {p1, p2}
  NoPayment = NoPayment
  Users = {bob, ana}
  NoUser = NoUser
  Contents <- MCOnlyFees
  NoContent = NoContent
  Dates = {1, 2}
  NoDate = NoDate
  Parties = {"landlord"}
  Context <- MCContext
  Beneficiary <- MCBeneficiary
  Amount <- MCAmount
  Holders <- MCHolders
  Delegations <- MCNoDelegations
  Steps <- MCNoSteps
  Aggregation <- MCAlone
  MaxVersion = 1
  Lines <- MCLines
  LinesOf <- MCLinesOf
  LineSource <- MCLineSource
  LineAmount <- MCLineAmount
  Cashboxes = {till}
  Accounts = {account}
  Opening <- MCAmple
  Floor <- MCFloor
  Ceiling <- MCCeiling
  CanPay = {till, account}
  CanReceive = {till, account}
  ClosedDays <- MCClosedDays
  Obligations = {"invoice"}
  ReservedAmounts = {3}
  AllocatedAmounts = {1, 2}
  KnownTotals = {0, 2}
SYMMETRY Symmetric
INVARIANTS
  ObligationNotOverpaid
  ExecutedHoldsNothing
CHECK_DEADLOCK FALSE
