SPECIFICATION Spec
CONSTANTS
  a1 = a1
  wnt = wnt
  usd = usd
  keeper = keeper
  frozenKeeper = frozenKeeper
  liquidator = liquidator
  adl = adl
  Accounts = {a1}
  Tokens = {wnt, usd}
  WNT = wnt
  OrderKeepers = {keeper, frozenKeeper}
  FrozenOrderKeepers = {frozenKeeper}
  LiquidationKeeper = liquidator
  AdlKeeper = adl
  OrderTypes = {"MarketIncrease", "LimitSwap", "LimitDecrease"}
  MinExecutionFee = 1
  ExpirationAge = 1
  MaxNonce = 2
  MaxBlock = 2
  MaxReports = 2
  MaxAmount = 2
  Supply <- MCSupply
  NoOrder = NoOrder
  NoTx = NoTx
PROPERTIES
  CancelOnlyAfterExpiry
CHECK_DEADLOCK FALSE
