---------------------------- MODULE DataStoreKeys ----------------------------
(***************************************************************************)
(* utils/keys.ts: where the DataStore keeps each setting.  A key is the    *)
(* hash of a base key and its arguments; here it is the tuple that is      *)
(* hashed, so that two keys are equal exactly when their base keys and     *)
(* their arguments are.  A market is known by its market token.            *)
(***************************************************************************)
EXTENDS Sequences

isMarketDisabledKey(market) == <<"IS_MARKET_DISABLED", market>>
tokenTransferGasLimit(token) == <<"TOKEN_TRANSFER_GAS_LIMIT", token>>
priceFeedKey(token) == <<"PRICE_FEED", token>>
priceFeedMultiplierKey(token) == <<"PRICE_FEED_MULTIPLIER", token>>
priceFeedHeartbeatDurationKey(token) == <<"PRICE_FEED_HEARTBEAT_DURATION", token>>
realtimeFeedIdKey(token) == <<"REALTIME_FEED_ID", token>>
realtimeFeedMultiplierKey(token) == <<"REALTIME_FEED_MULTIPLIER", token>>
stablePriceKey(token) == <<"STABLE_PRICE", token>>
oracleTypeKey(token) == <<"ORACLE_TYPE", token>>
minCollateralFactorKey(market) == <<"MIN_COLLATERAL_FACTOR", market>>
minCollateralFactorForOpenInterestMultiplierKey(market, isLong) ==
    <<"MIN_COLLATERAL_FACTOR_FOR_OPEN_INTEREST_MULTIPLIER", market, isLong>>
reserveFactorKey(market, isLong) == <<"RESERVE_FACTOR", market, isLong>>
openInterestReserveFactorKey(market, isLong) == <<"OPEN_INTEREST_RESERVE_FACTOR", market, isLong>>
maxPnlFactorKey(pnlFactorType, market, isLong) == <<"MAX_PNL_FACTOR", pnlFactorType, market, isLong>>
minPnlFactorAfterAdl(market, isLong) == <<"MIN_PNL_FACTOR_AFTER_ADL", market, isLong>>
maxPoolAmountKey(market, token) == <<"MAX_POOL_AMOUNT", market, token>>
maxPoolAmountForDepositKey(market, token) == <<"MAX_POOL_AMOUNT_FOR_DEPOSIT", market, token>>
maxOpenInterestKey(market, isLong) == <<"MAX_OPEN_INTEREST", market, isLong>>
minPositionImpactPoolAmountKey(market) == <<"MIN_POSITION_IMPACT_POOL_AMOUNT", market>>
positionImpactPoolDistributionRateKey(market) == <<"POSITION_IMPACT_POOL_DISTRIBUTION_RATE", market>>
\* Fault: the key leaves out the sign, so that both fee factors share one place.
swapFeeFactorKeyUnsigned(market, forPositiveImpact) == <<"SWAP_FEE_FACTOR", market>>

swapFeeFactorKey(market, forPositiveImpact) == <<"SWAP_FEE_FACTOR", market, forPositiveImpact>>
swapImpactFactorKey(market, isPositive) == <<"SWAP_IMPACT_FACTOR", market, isPositive>>
swapImpactExponentFactorKey(market) == <<"SWAP_IMPACT_EXPONENT_FACTOR", market>>
positionImpactFactorKey(market, isPositive) == <<"POSITION_IMPACT_FACTOR", market, isPositive>>
positionImpactExponentFactorKey(market) == <<"POSITION_IMPACT_EXPONENT_FACTOR", market>>
maxPositionImpactFactorKey(market, isPositive) == <<"MAX_POSITION_IMPACT_FACTOR", market, isPositive>>
maxPositionImpactFactorForLiquidationsKey(market) ==
    <<"MAX_POSITION_IMPACT_FACTOR_FOR_LIQUIDATIONS", market>>
positionFeeFactorKey(market, forPositiveImpact) == <<"POSITION_FEE_FACTOR", market, forPositiveImpact>>
fundingFactorKey(market) == <<"FUNDING_FACTOR", market>>
fundingExponentFactorKey(market) == <<"FUNDING_EXPONENT_FACTOR", market>>
fundingIncreaseFactorPerSecondKey(market) == <<"FUNDING_INCREASE_FACTOR_PER_SECOND", market>>
fundingDecreaseFactorPerSecondKey(market) == <<"FUNDING_DECREASE_FACTOR_PER_SECOND", market>>
minFundingFactorPerSecondKey(market) == <<"MIN_FUNDING_FACTOR_PER_SECOND", market>>
maxFundingFactorPerSecondKey(market) == <<"MAX_FUNDING_FACTOR_PER_SECOND", market>>
thresholdForStableFundingKey(market) == <<"THRESHOLD_FOR_STABLE_FUNDING", market>>
thresholdForDecreaseFundingKey(market) == <<"THRESHOLD_FOR_DECREASE_FUNDING", market>>
borrowingFactorKey(market, isLong) == <<"BORROWING_FACTOR", market, isLong>>
borrowingExponentFactorKey(market, isLong) == <<"BORROWING_EXPONENT_FACTOR", market, isLong>>
depositGasLimitKey(singleToken) == <<"DEPOSIT_GAS_LIMIT", singleToken>>
withdrawalGasLimitKey == <<"hash", "WITHDRAWAL_GAS_LIMIT">>
singleSwapGasLimitKey == <<"SINGLE_SWAP_GAS_LIMIT">>
increaseOrderGasLimitKey == <<"INCREASE_ORDER_GAS_LIMIT">>
decreaseOrderGasLimitKey == <<"DECREASE_ORDER_GAS_LIMIT">>
swapOrderGasLimitKey == <<"SWAP_ORDER_GAS_LIMIT">>
virtualTokenIdKey(token) == <<"VIRTUAL_TOKEN_ID", token>>
virtualMarketIdKey(market) == <<"VIRTUAL_MARKET_ID", market>>

\* getFullKey: the key Config writes for a base key and the encoded arguments that follow it.
getFullKey(baseKey, keyData) == baseKey \o keyData

=============================================================================
