CONSTANTS
  m1 = m1
  m2 = m2
  m3 = m3
  a = a
  b = b
  frontend = frontend
  broker = broker
  nowhere = nowhere
  Markets = {m1, m2, m3}
  Tokens = {a, b}
  WNT = a
  UiFeeReceivers = {frontend, broker}
  Outside = nowhere
  FloatPrecision = 8
  FloatToWei = 4
  SwapFeeReceiverFactor = 2
  MaxPoolAmount = 40
  MaxExecutions = 2
  MaxStray = 1
  Amounts = {0, 8}
  LongToken <- MCLongToken
  ShortToken <- MCShortToken
  SwapFeeFactor <- MCSwapFeeFactor
  UiFeeFactor <- MCUiFeeFactor
  PriceSets <- MCTwoPriceSets
  Impacts <- MCImpacts
  Paths <- MCPathsOfTwo
  InitialMarkets <- MCEmptyOrDeposited
SPECIFICATION MCSpec
INVARIANTS TypeOK Accounted UiFeesMatch
PROPERTY SharePriceNeverFalls
CHECK_DEADLOCK FALSE
