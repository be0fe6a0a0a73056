SPECIFICATION FairSpec
CONSTANTS
  p1 = p1
  p2 = p2
  p3 = p3
  ana = ana
  bob = bob
  cyd = cyd
  fees = fees
  wire = wire
  pol = pol
  method = method
  cash = cash
  coins = coins
  notes = notes
  transfer = transfer
  till = till
  account = account
  Policies <- MCPolicies
  NoPolicy = NoPolicy
  Keys <- MCKeys
  Values <- MCValues
  AnyValue = AnyValue
  Scope <- MCScope
  Minimum <- MCMinimum
  Maximum <- MCMaximum
  NoMaximum = 99
  Payments = {p1, p2}
  NoPayment = NoPayment
  Users = {ana, bob, cyd}
  NoUser = NoUser
  Contents <- MCOnlyWire
  NoContent = NoContent
  Dates = {1}
  NoDate = NoDate
  Parties = {"landlord"}
  Context <- MCContext
  Beneficiary <- MCBeneficiary
  Amount <- MCAmount
  Holders <- MCHolders
  Delegations <- MCDelegations
  Steps <- MCSteps
  Aggregation <- MCSummed
  MaxVersion = 3
  Lines <- MCLines
  LinesOf <- MCLinesOf
  LineSource <- MCLineSource
  LineAmount <- MCLineAmount
  Cashboxes = {till}
  Accounts = {account}
  Opening <- MCOpening
  Floor <- MCFloor
  Ceiling <- MCCeiling
  CanPay = {till, account}
  CanReceive = {till, account}
  ClosedDays = {}
  Obligations = {}
  ReservedAmounts = {}
  AllocatedAmounts = {}
  KnownTotals = {}
PROPERTIES
  StaleIsTemporary
CHECK_DEADLOCK FALSE
