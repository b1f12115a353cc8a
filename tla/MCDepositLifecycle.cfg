SPECIFICATION FairSpec
CONSTANTS
  a1 = a1
  wnt = wnt
  usd = usd
  keeper = keeper
  Accounts = {a1}
  Tokens = {wnt, usd}
  WNT = wnt
  OrderKeepers = {keeper}
  MinExecutionFee = 1
  ExpirationAge = 1
  MaxNonce = 2
  MaxBlock = 3
  MaxReports = 2
  MaxAmount = 2
  Supply <- MCSupply
  NoDeposit = NoDeposit
  NoTx = NoTx
INVARIANTS
  Solvent
  CreditMatches
PROPERTIES
  ImplementsEscrow
  NoFreeOption
  DepositorGetsOut
CHECK_DEADLOCK FALSE
