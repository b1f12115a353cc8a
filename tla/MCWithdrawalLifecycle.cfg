SPECIFICATION FairSpec
CONSTANTS
  a1 = a1
  wnt = wnt
  gmA = gmA
  gmB = gmB
  keeper = keeper
  Accounts = {a1}
  MarketTokens = {gmA, gmB}
  WNT = wnt
  OrderKeepers = {keeper}
  MinExecutionFee = 1
  ExpirationAge = 1
  MaxNonce = 3
  MaxBlock = 2
  MaxReports = 2
  MaxAmount = 2
  Supply <- MCSupply
  NoWithdrawal = NoWithdrawal
  NoTx = NoTx
INVARIANTS
  Solvent
  CreditMatches
PROPERTIES
  ImplementsEscrow
  NoFreeOption
  WithdrawerGetsOut
CHECK_DEADLOCK FALSE
