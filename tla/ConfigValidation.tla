-------------------------- MODULE ConfigValidation ---------------------------
(***************************************************************************)
(* What stands between the configuration and the chain when a keeper       *)
(* updates the markets: the checks of validateMarketConfigsUtils, which    *)
(* updateMarketConfig runs first, and the keys and ranges Config accepts.  *)
(***************************************************************************)
EXTENDS MarketSettings

\* Comparison of <<mantissa, decimals>> pairs, within the integers TLC has.
ScaledDown(n, k) == IF k > 9 THEN 0 ELSE n \div (10 ^ k)
Greater(a, b) ==
    IF a[2] <= b[2] THEN a[1] > ScaledDown(b[1], b[2] - a[2])
                    ELSE a[1] > 0 /\ ScaledDown(a[1] - 1, a[2] - b[2]) >= b[1]

\* a * 10000 / b of two factors, in whole basis points.
RatioInBps(a, b) ==
    IF a[2] <= b[2] THEN (a[1] * 10 ^ (b[2] - a[2]) * 10000) \div b[1]
                    ELSE (a[1] * 10000) \div (b[1] * 10 ^ (a[2] - b[2]))
WithinAPercent(ratio, expected) == ratio - expected \in -100..100

-----------------------------------------------------------------------------
stablecoinSymbols == {"USDC", "USDC.e", "USDT", "USDT.e", "DAI", "DAI.e"}

\* negativeImpactFactor is half the factor of the source's decimalToFloat.
Recommended(negative, swapRatio, positionRatio) ==
    [negativeImpactFactor |-> negative, expectedSwapImpactRatio |-> swapRatio,
     expectedPositionImpactRatio |-> positionRatio]
recommendedStablecoinSwapConfig == Recommended(Float(5, 10), 10000, 10000)

recommendedArbitrum ==
    [s \in {"BTC", "WETH"} |-> Recommended(Float(25, 12), 10000, 16666)]
    @@ [s \in {"LINK", "ARB"} |-> Recommended(Float(25, 11), 20000, 20000)]
    @@ ("UNI" :> Recommended(Float(2, 8), 20000, 20000))
    @@ [s \in {"LTC", "DOGE"} |-> Recommended(Float(4, 9), 20000, 20000)]
    @@ [s \in {"SOL", "XRP"} |-> Recommended(Float(25, 10), 20000, 20000)]

recommendedAvalanche ==
    [s \in {"BTC.b", "WETH.e"} |-> Recommended(Float(25, 12), 10000, 16666)]
    @@ ("WAVAX" :> Recommended(Float(5, 9), 20000, 20000))
    @@ [s \in {"LTC", "DOGE"} |-> Recommended(Float(4, 9), 20000, 20000)]
    @@ [s \in {"SOL", "XRP"} |-> Recommended(Float(25, 10), 20000, 20000)]

\* Only these two networks have recommendations; for the others the lookup itself throws.
recommendedMarketConfig == [arbitrum |-> recommendedArbitrum, avalanche |-> recommendedAvalanche]
configTokenMapping == [arbitrum |-> [s \in {"WBTC.e"} |-> "BTC"]]

\* utils/math pow(openInterest, exponent) / openInterest, rounded up, for the configurations there are.
PowerOverBase(openInterest, exponent) ==
    CASE exponent = Float(1, 0) -> 1
      [] exponent = Float(14, 1) /\ openInterest = Float(64000000, 0) -> 1331
      [] exponent = Float(15, 1) /\ openInterest = Float(1000000, 0) -> 1000
      [] exponent = Float(15, 1) /\ openInterest = Float(5500000, 0) -> 2346
      [] exponent = Float(15, 1) /\ openInterest = Float(10000000, 0) -> 3163
OneHundredPercentPerYear == Float(31709, 12)     \* 1 / SECONDS_PER_YEAR

\* The values that are checked: the configuration's, or with READ_FROM_CHAIN those behind these keys.
ReadKeys(mt) ==
    [negativePositionImpactFactor |-> positionImpactFactorKey(mt, FALSE),
     positivePositionImpactFactor |-> positionImpactFactorKey(mt, TRUE),
     negativeSwapImpactFactor |-> swapImpactFactorKey(mt, FALSE),
     positiveSwapImpactFactor |-> swapImpactFactorKey(mt, TRUE),
     borrowingExponentFactorForLongs |-> borrowingExponentFactorKey(mt, TRUE),
     borrowingExponentFactorForShorts |-> borrowingExponentFactorKey(mt, FALSE),
     borrowingFactorForLongs |-> borrowingFactorKey(mt, TRUE),
     borrowingFactorForShorts |-> borrowingFactorKey(mt, FALSE),
     openInterestReserveFactorLongs |-> openInterestReserveFactorKey(mt, TRUE),
     openInterestReserveFactorShorts |-> openInterestReserveFactorKey(mt, FALSE),
     fundingExponentFactor |-> fundingExponentFactorKey(mt),
     fundingFactor |-> fundingFactorKey(mt)]
CheckedValues(m, chain, fromChain) ==
    LET keys == ReadKeys(getMarketKey(m))
    IN IF fromChain
       THEN [f \in DOMAIN keys |-> IF keys[f] \in DOMAIN chain THEN chain[keys[f]] ELSE Float(0, 0)]
       ELSE m

\* validatePerpConfig of a market with the values v.
validPerpConfig(network, m, v) ==
    getMarketKey(m)[1] # "AddressZero" =>
        /\ network \in DOMAIN recommendedMarketConfig
        /\ m.indexToken \in DOMAIN recommendedMarketConfig[network]
        /\ LET r == recommendedMarketConfig[network][m.indexToken]
               ratio == RatioInBps(v.negativePositionImpactFactor, v.positivePositionImpactFactor)
           IN /\ v.positivePositionImpactFactor[1] > 0
              /\ WithinAPercent(ratio, r.expectedPositionImpactRatio)
              /\ ~Greater(r.negativeImpactFactor, v.negativePositionImpactFactor)

recommendedSwapConfigs(network, m) ==
    IF {m.longToken, m.shortToken} \subseteq stablecoinSymbols THEN {recommendedStablecoinSwapConfig}
    ELSE IF network \notin DOMAIN recommendedMarketConfig THEN {}
    ELSE LET table == recommendedMarketConfig[network]
             mapped == IF network \in DOMAIN configTokenMapping THEN configTokenMapping[network] ELSE <<>>
         IN IF m.longToken \in DOMAIN table THEN {table[m.longToken]}
            ELSE {table[mapped[s]] : s \in {m.longToken} \cap DOMAIN mapped}

validBorrowing(m, side, v) ==
    LET exponent == v["borrowingExponentFactorFor" \o side]
        factor == v["borrowingFactorFor" \o side]
        reserve == v["openInterestReserveFactor" \o side]
        power == PowerOverBase(m["maxOpenInterestFor" \o side], exponent)
    IN /\ ~Greater(Float(1, 0), exponent) /\ ~Greater(exponent, Float(15, 1))
       /\ ~Greater(Float(factor[1] * reserve[1] * power, factor[2] + reserve[2]), OneHundredPercentPerYear)

validSwapConfig(network, m, v) ==
    /\ m.shortToken \in stablecoinSymbols
    /\ \E r \in recommendedSwapConfigs(network, m) :
          /\ v.positiveSwapImpactFactor[1] > 0
          /\ WithinAPercent(RatioInBps(v.negativeSwapImpactFactor, v.positiveSwapImpactFactor),
                            r.expectedSwapImpactRatio)
          /\ ~Greater(r.negativeImpactFactor, v.negativeSwapImpactFactor)
    /\ validBorrowing(m, "Longs", v)
    /\ validBorrowing(m, "Shorts", v)
    /\ v.fundingExponentFactor = Float(1, 0)
    /\ ~Greater(v.fundingFactor, OneHundredPercentPerYear)

\* validateMarketConfigs over the markets on chain, given what the DataStore holds; FALSE also where it throws.
validMarketConfigs(network, markets, chain, fromChain) ==
    \A m \in markets :
        LET v == CheckedValues(m, chain, fromChain)
        IN validPerpConfig(network, m, v) /\ validSwapConfig(network, m, v)

-----------------------------------------------------------------------------
\* Config: the base keys a config keeper may write that the update scripts use, and the largest value of each.
allowedBaseKeys ==
    {"MAX_UI_FEE_FACTOR", "MIN_HANDLE_EXECUTION_ERROR_GAS", "MIN_HANDLE_EXECUTION_ERROR_GAS_TO_FORWARD",
     "MIN_ADDITIONAL_GAS_FOR_EXECUTION", "MAX_CALLBACK_GAS_LIMIT", "MAX_SWAP_PATH_LENGTH", "MIN_COLLATERAL_USD",
     "MIN_POSITION_SIZE_USD", "SWAP_FEE_RECEIVER_FACTOR", "POSITION_FEE_RECEIVER_FACTOR", "DEPOSIT_GAS_LIMIT",
     "hash", "SINGLE_SWAP_GAS_LIMIT", "INCREASE_ORDER_GAS_LIMIT", "DECREASE_ORDER_GAS_LIMIT",
     "SWAP_ORDER_GAS_LIMIT", "NATIVE_TOKEN_TRANSFER_GAS_LIMIT", "ESTIMATED_GAS_FEE_BASE_AMOUNT",
     "ESTIMATED_GAS_FEE_MULTIPLIER_FACTOR", "EXECUTION_GAS_FEE_BASE_AMOUNT",
     "EXECUTION_GAS_FEE_MULTIPLIER_FACTOR", "REQUEST_EXPIRATION_BLOCK_AGE", "MAX_POOL_AMOUNT",
     "MAX_POOL_AMOUNT_FOR_DEPOSIT", "SWAP_IMPACT_EXPONENT_FACTOR", "SWAP_FEE_FACTOR", "SWAP_IMPACT_FACTOR",
     "TOKEN_TRANSFER_GAS_LIMIT", "MIN_COLLATERAL_FACTOR",
     "MIN_COLLATERAL_FACTOR_FOR_OPEN_INTEREST_MULTIPLIER", "MAX_OPEN_INTEREST", "RESERVE_FACTOR",
     "OPEN_INTEREST_RESERVE_FACTOR", "MAX_PNL_FACTOR", "MIN_PNL_FACTOR_AFTER_ADL",
     "POSITION_IMPACT_EXPONENT_FACTOR", "FUNDING_FACTOR", "FUNDING_EXPONENT_FACTOR",
     "FUNDING_INCREASE_FACTOR_PER_SECOND", "FUNDING_DECREASE_FACTOR_PER_SECOND",
     "MIN_FUNDING_FACTOR_PER_SECOND", "MAX_FUNDING_FACTOR_PER_SECOND", "THRESHOLD_FOR_STABLE_FUNDING",
     "THRESHOLD_FOR_DECREASE_FUNDING", "POSITION_FEE_FACTOR", "BORROWING_FACTOR", "BORROWING_EXPONENT_FACTOR",
     "POSITION_IMPACT_FACTOR", "MAX_POSITION_IMPACT_FACTOR_FOR_LIQUIDATIONS", "MAX_POSITION_IMPACT_FACTOR"}

validRange(baseKey, value) ==
    /\ baseKey \in {"FUNDING_FACTOR", "BORROWING_FACTOR"} => ~Greater(value, Float(1, 2))
    /\ baseKey \in {"SWAP_FEE_FACTOR", "POSITION_FEE_FACTOR", "MAX_UI_FEE_FACTOR"} => ~Greater(value, Float(5, 2))
    /\ baseKey \in {"POSITION_FEE_RECEIVER_FACTOR", "SWAP_FEE_RECEIVER_FACTOR", "MIN_COLLATERAL_FACTOR",
                    "MAX_PNL_FACTOR", "MIN_PNL_FACTOR_AFTER_ADL"} => ~Greater(value, Float(1, 0))

setUintAccepted(s) == s.key[1] \in allowedBaseKeys /\ validRange(s.key[1], s.value)

=============================================================================
