--------------------------- MODULE MarketSettings ----------------------------
(***************************************************************************)
(* The settings of the markets: the sequence deployAndConfigureMarkets     *)
(* writes for one market and the sequence updateMarketConfig compares.     *)
(***************************************************************************)
EXTENDS GeneralSettings

\* getMarketKey of the token addresses: it also stands for the market token, which createMarket derives from them.
getMarketKey(m) == <<IF m.swapOnly THEN "AddressZero" ELSE m.indexToken, m.longToken, m.shortToken>>

\* What the scripts take for true: not undefined and not the number 0.
Truthy(m, f) == f \in DOMAIN m /\ (f \in {"virtualMarketId", "virtualTokenIdForIndexToken"} \/ m[f] # NumberZero)
IfSet(m, type, key, f) == IF Truthy(m, f) THEN <<Setting(type, key, m[f])>> ELSE <<>>

-----------------------------------------------------------------------------
\* deployAndConfigureMarkets, the second loop.  The order is the order of the transactions.

VirtualIdSettings(m) ==
    IfSet(m, "bytes32", virtualMarketIdKey(getMarketKey(m)), "virtualMarketId")
    \o IfSet(m, "bytes32", virtualTokenIdKey(getMarketKey(m)[1]), "virtualTokenIdForIndexToken")

PoolSettings(m) ==
    LET mt == getMarketKey(m)
        uint(key, f) == Setting("uint", key, Field(m, f))
    IN <<uint(maxPoolAmountKey(mt, m.longToken), "maxLongTokenPoolAmount"),
         uint(maxPoolAmountKey(mt, m.shortToken), "maxShortTokenPoolAmount"),
         uint(maxPoolAmountForDepositKey(mt, m.longToken), "maxLongTokenPoolAmountForDeposit"),
         uint(maxPoolAmountForDepositKey(mt, m.shortToken), "maxShortTokenPoolAmountForDeposit")>>

SwapSettings(m) ==
    LET mt == getMarketKey(m)
        uint(key, f) == IfSet(m, "uint", key, f)
    IN uint(swapImpactExponentFactorKey(mt), "swapImpactExponentFactor")
       \o (IF "isDisabled" \in DOMAIN m THEN <<Setting("bool", isMarketDisabledKey(mt), m.isDisabled)>> ELSE <<>>)
       \o uint(swapFeeFactorKey(mt, TRUE), "swapFeeFactorForPositiveImpact")
       \o uint(swapFeeFactorKey(mt, FALSE), "swapFeeFactorForNegativeImpact")
       \o uint(swapImpactFactorKey(mt, TRUE), "positiveSwapImpactFactor")
       \o uint(swapImpactFactorKey(mt, FALSE), "negativeSwapImpactFactor")

RiskSettings(m, g) ==
    LET mt == getMarketKey(m)
        uint(key, f) == Setting("uint", key, Field(m, f))
    IN <<uint(minCollateralFactorKey(mt), "minCollateralFactor"),
         uint(minCollateralFactorForOpenInterestMultiplierKey(mt, TRUE),
              "minCollateralFactorForOpenInterestMultiplierLong"),
         uint(minCollateralFactorForOpenInterestMultiplierKey(mt, FALSE),
              "minCollateralFactorForOpenInterestMultiplierShort"),
         uint(maxOpenInterestKey(mt, TRUE), "maxOpenInterestForLongs"),
         uint(maxOpenInterestKey(mt, FALSE), "maxOpenInterestForShorts"),
         uint(reserveFactorKey(mt, TRUE), "reserveFactorLongs"),
         uint(reserveFactorKey(mt, FALSE), "reserveFactorShorts"),
         uint(openInterestReserveFactorKey(mt, TRUE), "openInterestReserveFactorLongs"),
         uint(openInterestReserveFactorKey(mt, FALSE), "openInterestReserveFactorShorts"),
         uint(maxPnlFactorKey("MAX_PNL_FACTOR_FOR_TRADERS", mt, TRUE), "maxPnlFactorForTradersLongs"),
         uint(maxPnlFactorKey("MAX_PNL_FACTOR_FOR_TRADERS", mt, FALSE), "maxPnlFactorForTradersShorts"),
         uint(maxPnlFactorKey("MAX_PNL_FACTOR_FOR_ADL", mt, TRUE), "maxPnlFactorForAdlLongs"),
         uint(maxPnlFactorKey("MAX_PNL_FACTOR_FOR_ADL", mt, FALSE), "maxPnlFactorForAdlShorts"),
         uint(minPnlFactorAfterAdl(mt, TRUE), "minPnlFactorAfterAdlLongs"),
         uint(minPnlFactorAfterAdl(mt, FALSE), "minPnlFactorAfterAdlShorts"),
         uint(maxPnlFactorKey("MAX_PNL_FACTOR_FOR_DEPOSITS", mt, TRUE), "maxPnlFactorForDepositsLongs"),
         uint(maxPnlFactorKey("MAX_PNL_FACTOR_FOR_DEPOSITS", mt, FALSE), "maxPnlFactorForDepositsShorts"),
         uint(maxPnlFactorKey("MAX_PNL_FACTOR_FOR_WITHDRAWALS", mt, TRUE), "maxPnlFactorForWithdrawalsLongs"),
         uint(maxPnlFactorKey("MAX_PNL_FACTOR_FOR_WITHDRAWALS", mt, FALSE), "maxPnlFactorForWithdrawalsShorts"),
         Setting("uint", tokenTransferGasLimit(mt), Field(g, "tokenTransferGasLimit"))>>

PricingSettings(m) ==
    LET mt == getMarketKey(m)
        uint(key, f) == IfSet(m, "uint", key, f)
    IN uint(positionImpactExponentFactorKey(mt), "positionImpactExponentFactor")
       \o uint(fundingFactorKey(mt), "fundingFactor")
       \o uint(fundingIncreaseFactorPerSecondKey(mt), "fundingIncreaseFactorPerSecond")
       \o uint(fundingDecreaseFactorPerSecondKey(mt), "fundingDecreaseFactorPerSecond")
       \o uint(minFundingFactorPerSecondKey(mt), "minFundingFactorPerSecond")
       \o uint(maxFundingFactorPerSecondKey(mt), "maxFundingFactorPerSecond")
       \o uint(thresholdForStableFundingKey(mt), "thresholdForStableFunding")
       \o uint(thresholdForDecreaseFundingKey(mt), "thresholdForDecreaseFunding")
       \o uint(positionImpactPoolDistributionRateKey(mt), "positionImpactPoolDistributionRate")
       \o uint(minPositionImpactPoolAmountKey(mt), "minPositionImpactPoolAmount")
       \o uint(fundingExponentFactorKey(mt), "fundingExponentFactor")
       \o uint(positionFeeFactorKey(mt, TRUE), "positionFeeFactorForPositiveImpact")
       \o uint(positionFeeFactorKey(mt, FALSE), "positionFeeFactorForNegativeImpact")
       \o uint(borrowingFactorKey(mt, TRUE), "borrowingFactorForLongs")
       \o uint(borrowingFactorKey(mt, FALSE), "borrowingFactorForShorts")
       \o uint(borrowingExponentFactorKey(mt, TRUE), "borrowingExponentFactorForLongs")
       \o uint(borrowingExponentFactorKey(mt, FALSE), "borrowingExponentFactorForShorts")
       \o uint(positionImpactFactorKey(mt, TRUE), "positivePositionImpactFactor")
       \o uint(positionImpactFactorKey(mt, FALSE), "negativePositionImpactFactor")
       \o uint(maxPositionImpactFactorForLiquidationsKey(mt), "maxPositionImpactFactorForLiquidations")
       \o uint(maxPositionImpactFactorKey(mt, TRUE), "positiveMaxPositionImpactFactor")
       \o uint(maxPositionImpactFactorKey(mt, FALSE), "negativeMaxPositionImpactFactor")

\* Fault: the pool limits are written before the virtual IDs.
MarketSetupPoolFirst(m, g) ==
    PoolSettings(m) \o VirtualIdSettings(m) \o SwapSettings(m)
    \o (IF m.swapOnly THEN <<>> ELSE RiskSettings(m, g) \o PricingSettings(m))

\* Swap-only markets stop after the swap settings.
MarketSetup(m, g) ==
    VirtualIdSettings(m) \o PoolSettings(m) \o SwapSettings(m)
    \o (IF m.swapOnly THEN <<>> ELSE RiskSettings(m, g) \o PricingSettings(m))

-----------------------------------------------------------------------------
\* updateMarketConfig, processMarkets: base key and encoded arguments, the value defined or not.

SwapUpdates(m, g) ==
    LET mt == getMarketKey(m)
        uint(baseKey, keyData, f) == Setting("uint", getFullKey(<<baseKey>>, keyData), Field(m, f))
    IN <<uint("MAX_POOL_AMOUNT", <<mt, m.longToken>>, "maxLongTokenPoolAmount"),
         uint("MAX_POOL_AMOUNT", <<mt, m.shortToken>>, "maxShortTokenPoolAmount"),
         uint("MAX_POOL_AMOUNT_FOR_DEPOSIT", <<mt, m.longToken>>, "maxLongTokenPoolAmountForDeposit"),
         uint("MAX_POOL_AMOUNT_FOR_DEPOSIT", <<mt, m.shortToken>>, "maxShortTokenPoolAmountForDeposit"),
         uint("SWAP_IMPACT_EXPONENT_FACTOR", <<mt>>, "swapImpactExponentFactor"),
         uint("SWAP_FEE_FACTOR", <<mt, TRUE>>, "swapFeeFactorForPositiveImpact"),
         uint("SWAP_FEE_FACTOR", <<mt, FALSE>>, "swapFeeFactorForNegativeImpact"),
         uint("SWAP_IMPACT_FACTOR", <<mt, TRUE>>, "positiveSwapImpactFactor"),
         uint("SWAP_IMPACT_FACTOR", <<mt, FALSE>>, "negativeSwapImpactFactor"),
         Setting("uint", getFullKey(<<"TOKEN_TRANSFER_GAS_LIMIT">>, <<mt>>), Field(g, "tokenTransferGasLimit"))>>

RiskUpdates(m) ==
    LET mt == getMarketKey(m)
        uint(baseKey, keyData, f) == Setting("uint", getFullKey(<<baseKey>>, keyData), Field(m, f))
        both(baseKey, data, long, short) ==
            <<uint(baseKey, data \o <<mt, TRUE>>, long), uint(baseKey, data \o <<mt, FALSE>>, short)>>
    IN <<uint("MIN_COLLATERAL_FACTOR", <<mt>>, "minCollateralFactor")>>
       \o both("MIN_COLLATERAL_FACTOR_FOR_OPEN_INTEREST_MULTIPLIER", <<>>,
               "minCollateralFactorForOpenInterestMultiplierLong",
               "minCollateralFactorForOpenInterestMultiplierShort")
       \o both("MAX_OPEN_INTEREST", <<>>, "maxOpenInterestForLongs", "maxOpenInterestForShorts")
       \o both("RESERVE_FACTOR", <<>>, "reserveFactorLongs", "reserveFactorShorts")
       \o both("OPEN_INTEREST_RESERVE_FACTOR", <<>>, "openInterestReserveFactorLongs",
               "openInterestReserveFactorShorts")
       \o both("MAX_PNL_FACTOR", <<"MAX_PNL_FACTOR_FOR_TRADERS">>, "maxPnlFactorForTradersLongs",
               "maxPnlFactorForTradersShorts")
       \o both("MAX_PNL_FACTOR", <<"MAX_PNL_FACTOR_FOR_ADL">>, "maxPnlFactorForAdlLongs",
               "maxPnlFactorForAdlShorts")
       \o both("MIN_PNL_FACTOR_AFTER_ADL", <<>>, "minPnlFactorAfterAdlLongs", "minPnlFactorAfterAdlShorts")
       \o both("MAX_PNL_FACTOR", <<"MAX_PNL_FACTOR_FOR_DEPOSITS">>, "maxPnlFactorForDepositsLongs",
               "maxPnlFactorForDepositsShorts")
       \o both("MAX_PNL_FACTOR", <<"MAX_PNL_FACTOR_FOR_WITHDRAWALS">>, "maxPnlFactorForWithdrawalsLongs",
               "maxPnlFactorForWithdrawalsShorts")

PricingUpdates(m) ==
    LET mt == getMarketKey(m)
        uint(baseKey, f) == <<Setting("uint", getFullKey(<<baseKey>>, <<mt>>), Field(m, f))>>
        both(baseKey, positive, negative) ==
            <<Setting("uint", getFullKey(<<baseKey>>, <<mt, TRUE>>), Field(m, positive)),
              Setting("uint", getFullKey(<<baseKey>>, <<mt, FALSE>>), Field(m, negative))>>
    IN uint("POSITION_IMPACT_EXPONENT_FACTOR", "positionImpactExponentFactor")
       \o uint("FUNDING_FACTOR", "fundingFactor")
       \o uint("FUNDING_EXPONENT_FACTOR", "fundingExponentFactor")
       \o uint("FUNDING_INCREASE_FACTOR_PER_SECOND", "fundingIncreaseFactorPerSecond")
       \o uint("FUNDING_DECREASE_FACTOR_PER_SECOND", "fundingDecreaseFactorPerSecond")
       \o uint("MIN_FUNDING_FACTOR_PER_SECOND", "minFundingFactorPerSecond")
       \o uint("MAX_FUNDING_FACTOR_PER_SECOND", "maxFundingFactorPerSecond")
       \o uint("THRESHOLD_FOR_STABLE_FUNDING", "thresholdForStableFunding")
       \o uint("THRESHOLD_FOR_DECREASE_FUNDING", "thresholdForDecreaseFunding")
       \o both("POSITION_FEE_FACTOR", "positionFeeFactorForPositiveImpact", "positionFeeFactorForNegativeImpact")
       \o both("BORROWING_FACTOR", "borrowingFactorForLongs", "borrowingFactorForShorts")
       \o both("BORROWING_EXPONENT_FACTOR", "borrowingExponentFactorForLongs", "borrowingExponentFactorForShorts")
       \o both("POSITION_IMPACT_FACTOR", "positivePositionImpactFactor", "negativePositionImpactFactor")
       \o uint("MAX_POSITION_IMPACT_FACTOR_FOR_LIQUIDATIONS", "maxPositionImpactFactorForLiquidations")
       \o both("MAX_POSITION_IMPACT_FACTOR", "positiveMaxPositionImpactFactor", "negativeMaxPositionImpactFactor")

processMarket(m, g) ==
    SwapUpdates(m, g) \o (IF m.swapOnly THEN <<>> ELSE RiskUpdates(m) \o PricingUpdates(m))

=============================================================================
