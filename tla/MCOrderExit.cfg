SPECIFICATION FairSpec
CONSTANTS
  a1 = a1
  wnt = wnt
  usd = usd
  keeper = keeper
  frozenKeeper = frozenKeeper
  liquidator = liquidator
  adl = adl
  Accounts = {a1}
  Tokens = {wnt}
  WNT = wnt
  OrderKeepers = {keeper, frozenKeeper}
  FrozenOrderKeepers = {frozenKeeper}
  LiquidationKeeper = liquidator
  AdlKeeper = adl
  OrderTypes = {"MarketIncrease", "LimitIncrease", "LimitDecrease"}
  MinExecutionFee = 1
  ExpirationAge = 1
  MaxNonce = 3
  MaxBlock = 2
  MaxReports = 2
  MaxAmount = 1
  Supply <- MCExitSupply
  NoOrder = NoOrder
  NoTx = NoTx
PROPERTIES
  OwnerGetsOut
  PricesNotBeforePosition
CHECK_DEADLOCK FALSE
