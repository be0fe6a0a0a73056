SPECIFICATION PartsSpec
CONSTANTS
  r1 = r1
  r2 = r2
  b1 = b1
  b2 = b2
  b3 = b3
  b4 = b4
  ana = ana
  bob = bob
  cyd = cyd
  dan = dan
  account = account
  box = box
  slip = slip
  chq = chq
  coins = coins
  paper = paper
  dollars = dollars
  card = card
  wire = wire
  giro = giro
  cashrule = cashrule
  chequerule = chequerule
  cardrule = cardrule
  anyrule = anyrule
  cashier = cashier
  treasurer = treasurer
  auditor = auditor
  AskedSteps = {cashier, treasurer, auditor}
  Receipts = {r1, r2}
  Batches = {b1, b2, b3, b4}
  Users = {ana, bob, cyd, dan}
  NoUser = NoUser
  Holders <- TheHolders
  Delegations <- TheDelegations
  Items <- TheItems
  ItemGross <- TheGross
  ItemAccount <- TheAccounts
  NoBatch = NoBatch
  Proposals <- TheProposals
  BankAccounts = {account}
  Attachments = {slip}
  MaxItemVersion = 3
  Policies = {cashrule, chequerule, cardrule, anyrule}
  NoPolicy = NoPolicy
  Keys = {"currency", "method"}
  Values = {"CASH", "CHEQUE", "POS", "BANK_TRANSFER", "IRR", "USD"}
  AnyValue = AnyValue
  Scope <- TheScopes
  Minimum <- TheMinima
  Maximum <- TheMaxima
  NoMaximum = 99
  NoReceipt = NoReceipt
  Lines = {coins, paper, dollars, card, wire, giro}
  Fact <- TheLines
  Forms <- TheForms
  Cashboxes = {box}
  Cheques = {chq}
  BaseCurrency = "IRR"
  Rates <- TheRates
  Instants = {1, 2}
  Steps <- TheSteps
  MaxVersion = 4
INVARIANTS
  EveryPolicyApproved
  EffectsFollowReceipts
  CreditedOnce
  ComposedAsAsked
PROPERTY
  SubmittedAndReversed
CHECK_DEADLOCK FALSE
