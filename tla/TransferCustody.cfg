SPECIFICATION Spec
CONSTANTS
  t1 = t1
  t2 = t2
  ana = ana
  bob = bob
  dan = dan
  eve = eve
  till = till
  account = account
  cheque = cheque
  free = free
  checked = checked
  unit = unit
  branch = branch
  Policies <- MCPolicies
  NoPolicy = NoPolicy
  Keys <- MCKeys
  Values <- MCValues
  AnyValue = AnyValue
  Scope <- MCScope
  Minimum <- MCMinimum
  Maximum <- MCMaximum
  NoMaximum = 99
  Users = {ana, bob, dan, eve}
  NoUser = NoUser
  Holders <- MCHolders
  Delegations <- MCDelegations
  Transfers = {t1, t2}
  Plans <- MCPlans
  NoPlan = NoPlan
  Cashboxes <- MCCashboxes
  Accounts <- MCAccounts
  Assets = {cheque}
  Steps <- MCSteps
  Capable <- MCEndpoints
  Releasing <- MCEndpoints
  Opening <- MCOpening
  Withheld <- MCWithheld
  Floor <- MCFloor
  Ceiling <- MCCeiling
  Counts = {0, 1, 2}
  Keepers = {bob, eve}
SYMMETRY Symmetric
INVARIANTS
  TransferTypeOK
  ApprovedIsComplete
  CustodianDidNotApprove
  MoneyConserved
  FloorHolds
  CompletedIsWhole
PROPERTIES
  CashMovesInCustody
  ImplementsHandOver
