SPECIFICATION MCSpec
CONSTANTS
  x1 = x1
  x2 = x2
  y1 = y1
  y2 = y2
  y3 = y3
  Rows <- MCRows
  Requests <- MCRequests
  Proofs = {p1, p2}
  Commands = {"grant", "role"}
  MaxEpoch = 1
  NoRow = NoRow
  NoCommand = NoCommand
  SessionParts = {"rotation", "commands"}
  GrantParts = {"grants", "containment", "delegation"}
  PolicyParts = {"policies", "checks"}
  GrantSetting <- MCGrantSetting
  PolicySetting <- MCPolicySetting
  GrantDims <- MCGrantDims
  PolicyDims <- MCPolicyDims
  Values <- MCValues
  Currencies <- MCCurrencies
  Amounts = {1, 2}
  Users <- MCUsers
  ActiveUsers <- MCUsers
  Permissions <- Administration
  MaxTime = 1
  Forever = 2
  Base = usd
  DocumentType = v1
  MaxAmount = 2
  Approvers <- MCApprovers
  root = root
  ann = ann
  bob = bob
  admin = admin
  clerk = clerk
  g1 = g1
  d1 = d1
  v1 = v1
  v2 = v2
  usd = usd
  eur = eur
  anyone = anyone
  lead = lead
  NoCurrency = NoCurrency
  NoCeiling = NoCeiling
  NoValue = NoValue
  NoRole = NoRole
  NoGrant = NoGrant
  NoDelegation = NoDelegation
  NoRequest = NoRequest
  NoRecord = NoRecord
  Idle = Idle
  Unused = Unused
SYMMETRY Symmetric
INVARIANTS
  SessionsAreSound
  AuthorityIsContained
CHECK_DEADLOCK FALSE
