CONSTANTS
  alice = alice
  bob = bob
  holder = holder
  wnt = wnt
  usdc = usdc
  LongToken = wnt
  ShortToken = usdc
  Accounts = {alice, bob}
  HoldingAddress = holder
  FloatPrecision = 8
  FloatToWei = 4
  PerSize = 16
  PositionKeys <- MCPositionKeys
  Setting <- MCSetting
  Situations <- MCSituations
  InitialPool <- MCInitialPool
  IncreaseOrders <- MCIncreaseOrders
  DecreaseOrders <- MCDecreaseOrders
  AdlSizes = {12}
  ClaimableFactors = {4, 8}
  MaxActions = 5
SPECIFICATION Spec
INVARIANTS TypeOK TokensAccounted SumsMatch FundingCovered ProfitsReserved
CHECK_DEADLOCK FALSE
