SPECIFICATION AccountingSpec
CONSTANTS
  p1 = p1
  p2 = p2
  ana = ana
  bob = bob
  cyd = cyd
  fees = fees
  pol = pol
  method = method
  cash = cash
  wire = wire
  account = account
  ledger = ledger
  archive = archive
  Policies <- ACPolicies
  NoPolicy = NoPolicy
  Keys <- ACKeys
  Values = {cash}
  AnyValue = AnyValue
  Scope <- ACScope
  Minimum <- ACMinimum
  Maximum <- ACMaximum
  NoMaximum = 99
  Payments = {p1, p2}
  NoPayment = NoPayment
  Users = {ana, bob, cyd}
  NoUser = NoUser
  Contents <- ACContents
  NoContent = NoContent
  Dates = {1, 2}
  NoDate = NoDate
  Parties = {"landlord"}
  Context <- ACContext
  Beneficiary <- ACBeneficiary
  Amount <- ACAmount
  Holders <- ACHolders
  Delegations = {}
  Steps <- ACSteps
  Aggregation <- ACAggregation
  MaxVersion = 1
  Lines = {wire}
  LinesOf <- ACLinesOf
  LineSource <- ACLineSource
  LineAmount <- ACLineAmount
  Cashboxes = {}
  Accounts = {account}
  Opening <- ACOpening
  Floor <- ACFloor
  Ceiling <- ACCeiling
  CanPay = {account}
  CanReceive = {account}
  ClosedDays = {}
  Obligations = {"invoice"}
  ReservedAmounts = {}
  AllocatedAmounts = {3}
  KnownTotals = {0}
  Targets = {ledger, archive}
  Systems = {ledger, archive}
  System <- ACSystem
  Forbidding = {ledger}
  Exporters = {ana, bob}
  Acknowledgers = {bob}
  LineMethod <- ACLineMethod
  Mappings <- ACMappings
  Periods <- ACPeriods
SYMMETRY Symmetric
INVARIANTS
  PostingsAgree
PROPERTIES
  PostedIsFrozen
CHECK_DEADLOCK FALSE
