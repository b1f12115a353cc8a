---------------------------- MODULE MarketConfigs ----------------------------
(***************************************************************************)
(* config/markets.ts: the markets each network is configured with, as      *)
(* records whose fields have the names of the source.                      *)
(*                                                                         *)
(* A value is <<mantissa, decimals>>, the number mantissa / 10^decimals;   *)
(* decimalToFloat and expandDecimals only scale it.  The amounts and rates *)
(* no script compares with a bound (pool amounts, the open interest        *)
(* multiplier, the adaptive funding rates, the distribution of the impact  *)
(* pool) are the one nonzero value Amount.  A field the source leaves      *)
(* undefined is not in the record.                                         *)
(***************************************************************************)
EXTENDS Integers, Sequences, FiniteSets, TLC

Float(mantissa, decimals) == <<mantissa, decimals>>
Amount == <<1, 0>>
NumberZero == <<0, 1>>     \* the literal 0, falsy where a BigNumber 0 is not
HashZero == "0x00"         \* a truthy string, the value of an unset bytes32

Both(name1, name2, value) == (name1 :> value) @@ (name2 :> value)

Perp(index, long, short) ==
    [indexToken |-> index, longToken |-> long, shortToken |-> short, swapOnly |-> FALSE]
Spot(long, short) == [longToken |-> long, shortToken |-> short, swapOnly |-> TRUE]

VirtualIds(token, market) == [virtualTokenIdForIndexToken |-> token, virtualMarketId |-> market]
PositionImpact(negative, positive) ==
    [negativePositionImpactFactor |-> negative, positivePositionImpactFactor |-> positive]
\* Fault: the two factors are swapped.
SwapImpactSwapped(negative, positive) ==
    [negativeSwapImpactFactor |-> positive, positiveSwapImpactFactor |-> negative]

SwapImpact(negative, positive) ==
    [negativeSwapImpactFactor |-> negative, positiveSwapImpactFactor |-> positive]
OpenInterest(v) == Both("maxOpenInterestForLongs", "maxOpenInterestForShorts", v)
ReserveFactor(v) == Both("reserveFactorLongs", "reserveFactorShorts", v)
OpenInterestReserveFactor(v) ==
    Both("openInterestReserveFactorLongs", "openInterestReserveFactorShorts", v)
MaxPnlFactorForTraders(v) == Both("maxPnlFactorForTradersLongs", "maxPnlFactorForTradersShorts", v)
MaxPnlFactorForAdl(v) == Both("maxPnlFactorForAdlLongs", "maxPnlFactorForAdlShorts", v)
MinPnlFactorAfterAdl(v) == Both("minPnlFactorAfterAdlLongs", "minPnlFactorAfterAdlShorts", v)
MaxPnlFactorForDeposits(v) == Both("maxPnlFactorForDepositsLongs", "maxPnlFactorForDepositsShorts", v)
MaxPnlFactorForWithdrawals(v) ==
    Both("maxPnlFactorForWithdrawalsLongs", "maxPnlFactorForWithdrawalsShorts", v)
BorrowingFactor(v) == Both("borrowingFactorForLongs", "borrowingFactorForShorts", v)
BorrowingExponent(v) == Both("borrowingExponentFactorForLongs", "borrowingExponentFactorForShorts", v)
SwapFee(positive, negative) ==
    [swapFeeFactorForPositiveImpact |-> positive, swapFeeFactorForNegativeImpact |-> negative]
PositionFee(positive, negative) ==
    [positionFeeFactorForPositiveImpact |-> positive, positionFeeFactorForNegativeImpact |-> negative]
MaxPositionImpact(v) == Both("positiveMaxPositionImpactFactor", "negativeMaxPositionImpactFactor", v)

PoolAmounts ==
    [f \in {"maxLongTokenPoolAmount", "maxShortTokenPoolAmount", "maxLongTokenPoolAmountForDeposit",
            "maxShortTokenPoolAmountForDeposit"} |-> Amount]
MultiplierFields == {"minCollateralFactorForOpenInterestMultiplierLong",
                     "minCollateralFactorForOpenInterestMultiplierShort"}
OpenInterestMultiplier == [f \in MultiplierFields |-> Amount]
FundingRateFields ==
    {"fundingIncreaseFactorPerSecond", "fundingDecreaseFactorPerSecond", "minFundingFactorPerSecond",
     "maxFundingFactorPerSecond", "thresholdForStableFunding", "thresholdForDecreaseFunding"}
AdaptiveFunding == [f \in FundingRateFields |-> Amount]
StableFunding ==
    Both("fundingDecreaseFactorPerSecond", "thresholdForDecreaseFunding", Float(0, 0)) @@ AdaptiveFunding
ImpactPoolFields == {"positionImpactPoolDistributionRate", "minPositionImpactPoolAmount"}
DistributedImpactPool == [f \in ImpactPoolFields |-> Amount]

baseMarketConfig ==
    [minCollateralFactor |-> Float(1, 2), positionImpactExponentFactor |-> Float(2, 0),
     maxPositionImpactFactorForLiquidations |-> Float(1, 2), swapImpactExponentFactor |-> Float(2, 0),
     minCollateralUsd |-> Float(1, 0), fundingFactor |-> Float(2, 8), fundingExponentFactor |-> Float(1, 0)]
    @@ [f \in MultiplierFields \union FundingRateFields \union ImpactPoolFields |-> NumberZero]
    @@ PoolAmounts @@ OpenInterest(Float(1000000000, 0)) @@ ReserveFactor(Float(95, 2))
    @@ OpenInterestReserveFactor(Float(9, 1)) @@ MaxPnlFactorForTraders(Float(8, 1))
    @@ MaxPnlFactorForAdl(Float(1, 0)) @@ MinPnlFactorAfterAdl(Float(8, 1))
    @@ MaxPnlFactorForDeposits(Float(8, 1)) @@ MaxPnlFactorForWithdrawals(Float(8, 1))
    @@ PositionFee(Float(5, 4), Float(7, 4)) @@ PositionImpact(Float(1, 7), Float(5, 8))
    @@ MaxPositionImpact(Float(1, 2)) @@ SwapFee(Float(5, 4), Float(7, 4))
    @@ SwapImpact(Float(1, 5), Float(5, 6)) @@ BorrowingFactor(Float(625, 11))
    @@ BorrowingExponent(Float(1, 0))

synthethicMarketConfig ==
    ReserveFactor(Float(8, 1)) @@ OpenInterestReserveFactor(Float(7, 1))
    @@ MaxPnlFactorForTraders(Float(5, 1)) @@ MaxPnlFactorForAdl(Float(45, 2))
    @@ MinPnlFactorAfterAdl(Float(4, 1)) @@ MaxPnlFactorForDeposits(Float(6, 1))
    @@ MaxPnlFactorForWithdrawals(Float(3, 1))

stablecoinSwapMarketConfig ==
    SwapFee(Float(1, 4), Float(1, 4)) @@ SwapImpact(Float(5, 10), Float(5, 10))

hardhatBaseMarketConfig ==
    [minCollateralFactor |-> Float(1, 2), maxPositionImpactFactorForLiquidations |-> Float(1, 2)]
    @@ [f \in MultiplierFields |-> NumberZero] @@ PoolAmounts @@ OpenInterest(Float(1000000000, 0))
    @@ ReserveFactor(Float(5, 1)) @@ OpenInterestReserveFactor(Float(5, 1))
    @@ MaxPnlFactorForTraders(Float(5, 1)) @@ MaxPnlFactorForAdl(Float(45, 2))
    @@ MinPnlFactorAfterAdl(Float(4, 1)) @@ MaxPnlFactorForDeposits(Float(6, 1))
    @@ MaxPnlFactorForWithdrawals(Float(3, 1)) @@ MaxPositionImpact(Float(2, 2))

-----------------------------------------------------------------------------
seiTestnet_WBTC ==
    Perp("WBTC", "WBTC", "USDT") @@ VirtualIds("PERP:WBTC/USD", "SPOT:WBTC/USD") @@
    PositionImpact(Float(15, 11), Float(9, 11)) @@ SwapImpact(Float(2, 10), Float(2, 10)) @@
    OpenInterest(Float(64000000, 0)) @@ BorrowingFactor(Float(680, 14)) @@
    BorrowingExponent(Float(14, 1)) @@ OpenInterestMultiplier @@ StableFunding @@ DistributedImpactPool

seiTestnet_WETH ==
    Perp("WETH", "WETH", "USDT") @@ VirtualIds("PERP:ETH/USD", "SPOT:ETH/USD") @@
    PositionImpact(Float(15, 11), Float(9, 11)) @@ SwapImpact(Float(2, 10), Float(2, 10)) @@
    OpenInterest(Float(64000000, 0)) @@ BorrowingFactor(Float(720, 14)) @@
    BorrowingExponent(Float(14, 1)) @@ OpenInterestMultiplier @@ StableFunding @@ DistributedImpactPool

seiTestnet_WSEI ==
    Perp("WSEI", "WSEI", "USDT") @@ VirtualIds("PERP:WSEI/USD", "SPOT:WSEI/USD") @@
    PositionImpact(Float(15, 11), Float(9, 11)) @@ SwapImpact(Float(2, 10), Float(2, 10)) @@
    OpenInterest(Float(64000000, 0)) @@ BorrowingFactor(Float(720, 14)) @@
    BorrowingExponent(Float(14, 1)) @@ OpenInterestMultiplier @@ StableFunding @@ DistributedImpactPool

seiTestnet == <<seiTestnet_WBTC, seiTestnet_WETH, seiTestnet_WSEI>>

seiMainnet_WETH ==
    Perp("WETH", "WETH", "USDT") @@ VirtualIds("PERP:ETH/USD", "SPOT:ETH/USD") @@
    PositionImpact(Float(15, 11), Float(9, 11)) @@ SwapImpact(Float(2, 10), Float(2, 10)) @@
    OpenInterest(Float(64000000, 0)) @@ BorrowingFactor(Float(720, 14)) @@
    BorrowingExponent(Float(14, 1)) @@ OpenInterestMultiplier @@ StableFunding @@ DistributedImpactPool

seiMainnet_WSEI ==
    Perp("WSEI", "WSEI", "USDT") @@ VirtualIds("PERP:WSEI/USD", "SPOT:WSEI/USD") @@
    PositionImpact(Float(15, 11), Float(9, 11)) @@ SwapImpact(Float(2, 10), Float(2, 10)) @@
    OpenInterest(Float(64000000, 0)) @@ BorrowingFactor(Float(720, 14)) @@
    BorrowingExponent(Float(14, 1)) @@ OpenInterestMultiplier @@ StableFunding @@ DistributedImpactPool

seiMainnet == <<seiMainnet_WETH, seiMainnet_WSEI>>

arbitrum_BTC ==
    Perp("BTC", "WBTC.e", "USDC") @@ VirtualIds("PERP:BTC/USD", "SPOT:BTC/USD") @@
    PositionImpact(Float(15, 11), Float(9, 11)) @@ SwapImpact(Float(2, 10), Float(2, 10)) @@
    OpenInterest(Float(64000000, 0)) @@ BorrowingFactor(Float(680, 14)) @@
    BorrowingExponent(Float(14, 1)) @@ OpenInterestMultiplier @@ StableFunding @@ DistributedImpactPool

arbitrum_WETH ==
    Perp("WETH", "WETH", "USDC") @@ VirtualIds("PERP:ETH/USD", "SPOT:ETH/USD") @@
    PositionImpact(Float(15, 11), Float(9, 11)) @@ SwapImpact(Float(2, 10), Float(2, 10)) @@
    OpenInterest(Float(64000000, 0)) @@ BorrowingFactor(Float(720, 14)) @@
    BorrowingExponent(Float(14, 1)) @@ OpenInterestMultiplier @@ StableFunding @@ DistributedImpactPool

arbitrum_XRP ==
    Perp("XRP", "WETH", "USDC") @@ VirtualIds("PERP:XRP/USD", "SPOT:XRP/USD") @@
    PositionImpact(Float(28, 9), Float(14, 9)) @@ SwapImpact(Float(5, 9), Float(5, 9)) @@
    OpenInterest(Float(1000000, 0)) @@ OpenInterestReserveFactor(Float(75, 2)) @@
    BorrowingFactor(Float(225, 13)) @@ BorrowingExponent(Float(15, 1)) @@ OpenInterestMultiplier @@
    StableFunding @@ DistributedImpactPool @@ synthethicMarketConfig

arbitrum_DOGE ==
    Perp("DOGE", "WETH", "USDC") @@ VirtualIds("PERP:DOGE/USD", "SPOT:DOGE/USD") @@
    PositionImpact(Float(26, 9), Float(13, 9)) @@ SwapImpact(Float(5, 9), Float(5, 9)) @@
    OpenInterest(Float(1000000, 0)) @@ OpenInterestReserveFactor(Float(75, 2)) @@
    BorrowingFactor(Float(23, 12)) @@ BorrowingExponent(Float(15, 1)) @@ OpenInterestMultiplier @@
    StableFunding @@ DistributedImpactPool @@ synthethicMarketConfig

arbitrum_SOL ==
    Perp("SOL", "SOL", "USDC") @@ VirtualIds("PERP:SOL/USD", "SPOT:SOL/USD") @@
    PositionImpact(Float(76, 10), Float(38, 10)) @@ SwapImpact(Float(1, 8), Float(5, 9)) @@
    OpenInterest(Float(10000000, 0)) @@ BorrowingFactor(Float(425, 14)) @@
    BorrowingExponent(Float(15, 1)) @@ OpenInterestMultiplier @@ StableFunding @@ DistributedImpactPool

arbitrum_LTC ==
    Perp("LTC", "WETH", "USDC") @@ VirtualIds("PERP:LTC/USD", "SPOT:LTC/USD") @@
    PositionImpact(Float(36, 9), Float(18, 9)) @@ SwapImpact(Float(5, 9), Float(5, 9)) @@
    OpenInterest(Float(1000000, 0)) @@ ReserveFactor(Float(85, 2)) @@
    OpenInterestReserveFactor(Float(8, 1)) @@ BorrowingFactor(Float(235, 13)) @@
    BorrowingExponent(Float(15, 1)) @@ OpenInterestMultiplier @@ StableFunding @@ DistributedImpactPool
    @@ synthethicMarketConfig

arbitrum_UNI ==
    Perp("UNI", "UNI", "USDC") @@ VirtualIds("PERP:UNI/USD", "SPOT:UNI/USD") @@
    PositionImpact(Float(42, 9), Float(21, 9)) @@ SwapImpact(Float(3, 8), Float(15, 9)) @@
    OpenInterest(Float(1000000, 0)) @@ BorrowingFactor(Float(94, 10)) @@ OpenInterestMultiplier @@
    StableFunding @@ DistributedImpactPool

arbitrum_LINK ==
    Perp("LINK", "LINK", "USDC") @@ VirtualIds("PERP:LINK/USD", "SPOT:LINK/USD") @@
    PositionImpact(Float(5, 10), Float(25, 11)) @@ SwapImpact(Float(8, 9), Float(4, 9)) @@
    OpenInterest(Float(5500000, 0)) @@ BorrowingFactor(Float(615, 14)) @@
    BorrowingExponent(Float(15, 1)) @@ OpenInterestMultiplier @@ StableFunding @@ DistributedImpactPool
    @@ [positionImpactExponentFactor |-> Float(22, 1)]

arbitrum_ARB ==
    Perp("ARB", "ARB", "USDC") @@ VirtualIds("PERP:ARB/USD", "SPOT:ARB/USD") @@
    PositionImpact(Float(5, 10), Float(25, 11)) @@ SwapImpact(Float(8, 9), Float(4, 9)) @@
    OpenInterest(Float(5500000, 0)) @@ BorrowingFactor(Float(510, 14)) @@
    BorrowingExponent(Float(15, 1)) @@ OpenInterestMultiplier @@ StableFunding @@ DistributedImpactPool
    @@ [positionImpactExponentFactor |-> Float(22, 1)]

arbitrum_USDC_USDCe ==
    Spot("USDC", "USDC.e") @@ SwapImpact(Float(15, 10), Float(15, 10)) @@
    [swapFeeFactorForPositiveImpact |-> Float(5, 5), swapFeeFactorForNegativeImpact |-> Float(2, 4)] @@
    stablecoinSwapMarketConfig

arbitrum_USDC_USDT ==
    Spot("USDC", "USDT") @@ SwapImpact(Float(5, 9), Float(5, 9)) @@
    [swapFeeFactorForPositiveImpact |-> Float(5, 5), swapFeeFactorForNegativeImpact |-> Float(2, 4)] @@
    stablecoinSwapMarketConfig

arbitrum_USDC_DAI ==
    Spot("USDC", "DAI") @@ SwapImpact(Float(5, 9), Float(5, 9)) @@
    [swapFeeFactorForPositiveImpact |-> Float(5, 5), swapFeeFactorForNegativeImpact |-> Float(2, 4)] @@
    stablecoinSwapMarketConfig

arbitrum ==
    <<arbitrum_BTC, arbitrum_WETH, arbitrum_XRP, arbitrum_DOGE, arbitrum_SOL, arbitrum_LTC, arbitrum_UNI,
      arbitrum_LINK, arbitrum_ARB, arbitrum_USDC_USDCe, arbitrum_USDC_USDT, arbitrum_USDC_DAI>>

avalanche_BTCb ==
    Perp("BTC.b", "BTC.b", "USDC") @@ VirtualIds("PERP:BTC/USD", "SPOT:BTC/USD") @@
    PositionImpact(Float(15, 11), Float(9, 11)) @@ SwapImpact(Float(24, 11), Float(24, 11)) @@
    ReserveFactor(Float(9, 1)) @@ OpenInterestReserveFactor(Float(8, 1)) @@ OpenInterestMultiplier @@
    StableFunding

avalanche_WETHe ==
    Perp("WETH.e", "WETH.e", "USDC") @@ VirtualIds("PERP:ETH/USD", "SPOT:ETH/USD") @@
    PositionImpact(Float(15, 11), Float(9, 11)) @@ SwapImpact(Float(24, 11), Float(24, 11)) @@
    ReserveFactor(Float(9, 1)) @@ OpenInterestReserveFactor(Float(8, 1)) @@ OpenInterestMultiplier @@
    StableFunding

avalanche_XRP ==
    Perp("XRP", "WAVAX", "USDC") @@ VirtualIds("PERP:XRP/USD", "SPOT:XRP/USD") @@
    PositionImpact(Float(8, 9), Float(4, 9)) @@ SwapImpact(Float(1, 8), Float(5, 9)) @@
    OpenInterestMultiplier @@ StableFunding @@ synthethicMarketConfig

avalanche_DOGE ==
    Perp("DOGE", "WAVAX", "USDC") @@ VirtualIds("PERP:DOGE/USD", "SPOT:DOGE/USD") @@
    PositionImpact(Float(8, 9), Float(4, 9)) @@ SwapImpact(Float(1, 8), Float(5, 9)) @@
    OpenInterestMultiplier @@ StableFunding @@ synthethicMarketConfig

avalanche_SOL ==
    Perp("SOL", "SOL", "USDC") @@ VirtualIds("PERP:SOL/USD", "SPOT:SOL/USD") @@
    PositionImpact(Float(1, 8), Float(5, 9)) @@ SwapImpact(Float(1, 8), Float(5, 9)) @@
    ReserveFactor(Float(9, 1)) @@ OpenInterestReserveFactor(Float(8, 1)) @@ OpenInterestMultiplier @@
    StableFunding

avalanche_LTC ==
    Perp("LTC", "WAVAX", "USDC") @@ VirtualIds("PERP:LTC/USD", "SPOT:LTC/USD") @@
    PositionImpact(Float(8, 9), Float(4, 9)) @@ SwapImpact(Float(1, 8), Float(5, 9)) @@
    OpenInterestMultiplier @@ StableFunding @@ synthethicMarketConfig

avalanche_WAVAX ==
    Perp("WAVAX", "WAVAX", "USDC") @@ VirtualIds("PERP:AVAX/USD", "SPOT:AVAX/USD") @@
    PositionImpact(Float(1, 8), Float(5, 9)) @@ SwapImpact(Float(1, 8), Float(5, 9)) @@
    OpenInterest(Float(2500000, 0)) @@ ReserveFactor(Float(9, 1)) @@
    OpenInterestReserveFactor(Float(8, 1)) @@ OpenInterestMultiplier @@ StableFunding @@
    DistributedImpactPool

avalanche_USDC_USDTe ==
    Spot("USDC", "USDT.e") @@ stablecoinSwapMarketConfig

avalanche_USDC_USDCe ==
    Spot("USDC", "USDC.e") @@ stablecoinSwapMarketConfig

avalanche_USDT_USDTe ==
    Spot("USDT", "USDT.e") @@ stablecoinSwapMarketConfig

avalanche_USDC_DAIe ==
    Spot("USDC", "DAI.e") @@ stablecoinSwapMarketConfig

avalanche ==
    <<avalanche_BTCb, avalanche_WETHe, avalanche_XRP, avalanche_DOGE, avalanche_SOL, avalanche_LTC,
      avalanche_WAVAX, avalanche_USDC_USDTe, avalanche_USDC_USDCe, avalanche_USDT_USDTe,
      avalanche_USDC_DAIe>>

arbitrumGoerli ==
    <<Perp("WETH", "WETH", "USDC") @@ AdaptiveFunding @@ [virtualMarketId |-> "0x04533437"],
      Perp("WETH", "WETH", "DAI") @@ [virtualMarketId |-> HashZero],
      Perp("WETH", "USDC", "USDC"),
      Perp("BTC", "WBTC", "USDC"),
      Perp("WBTC", "WBTC", "USDC") @@ PositionImpact(Float(1, 9), Float(5, 10)) @@
        SwapImpact(Float(1, 7), Float(5, 8)) @@ [virtualMarketId |-> "0x11111137",
        virtualTokenIdForIndexToken |-> "0x04533137", positionImpactPoolDistributionRate |-> Amount],
      Perp("WBTC", "WBTC", "DAI") @@ PositionImpact(Float(1, 9), Float(5, 10)) @@
        SwapImpact(Float(1, 7), Float(5, 8)),
      Perp("SOL", "WBTC", "USDC") @@ PositionImpact(Float(1, 9), Float(5, 10)) @@
        SwapImpact(Float(1, 7), Float(5, 8)) @@ [isDisabled |-> FALSE],
      Spot("USDC", "USDT") @@ SwapImpact(Float(2, 8), Float(1, 8)),
      Perp("DOGE", "WBTC", "DAI") @@ PositionImpact(Float(1, 9), Float(5, 10)) @@
        SwapImpact(Float(1, 7), Float(5, 8)) @@ DistributedImpactPool,
      Perp("LINK", "WBTC", "DAI") @@ PositionImpact(Float(1, 9), Float(5, 10)) @@
        SwapImpact(Float(1, 7), Float(5, 8)),
      Perp("BNB", "WBTC", "DAI") @@ [isDisabled |-> TRUE],
      Perp("ADA", "WBTC", "DAI") @@ [isDisabled |-> TRUE],
      Perp("TRX", "WBTC", "DAI") @@ [isDisabled |-> TRUE],
      Perp("MATIC", "WBTC", "USDC") @@ [isDisabled |-> TRUE],
      Perp("DOT", "WBTC", "USDC") @@ [isDisabled |-> TRUE],
      Perp("UNI", "WBTC", "USDC") @@ [isDisabled |-> TRUE],
      Perp("TEST", "WBTC", "USDC") @@ PositionImpact(Float(26, 6), Float(125, 7)) @@
        SwapImpact(Float(1, 5), Float(5, 6)) @@ MaxPnlFactorForAdl(Float(2, 2)) @@
        MinPnlFactorAfterAdl(Float(1, 2)) @@ [positionImpactExponentFactor |-> Float(2, 0),
        swapImpactExponentFactor |-> Float(2, 0), isDisabled |-> FALSE],
      Perp("WBTC", "USDC", "USDT") @@ BorrowingFactor(Float(3, 7)) @@ [fundingFactor |-> Float(16, 7)],
      Perp("WETH", "USDC", "DAI") @@ BorrowingFactor(Float(3, 7)) @@ [fundingFactor |-> Float(16, 7)]>>

avalancheFuji ==
    <<Perp("WAVAX", "WAVAX", "USDC"),
      Perp("WETH", "WETH", "USDC") @@ OpenInterestReserveFactor(Float(7, 1)) @@ DistributedImpactPool
        @@ [virtualMarketId |-> "0x04533437", maxOpenInterestForLongs |-> Float(55000, 0),
        maxOpenInterestForShorts |-> Float(40000, 0)],
      Perp("WETH", "WETH", "DAI") @@ [virtualMarketId |-> "SPOT:AVAX/USD",
        virtualTokenIdForIndexToken |-> "0x275d2a6e"],
      Perp("WETH", "USDC", "USDC") @@ [virtualTokenIdForIndexToken |-> "0x275d2a6e"],
      Perp("WBTC", "WBTC", "USDC") @@ [virtualMarketId |-> "0x11111137",
        virtualTokenIdForIndexToken |-> "0x04533137"],
      Perp("WBTC", "WBTC", "DAI") @@ [virtualMarketId |-> "0x11111137"],
      Perp("SOL", "WETH", "USDC") @@ [virtualMarketId |-> "0x04533437"],
      Spot("USDC", "USDT"),
      Perp("DOGE", "WETH", "DAI") @@ DistributedImpactPool,
      Perp("LINK", "WETH", "DAI"),
      Perp("BNB", "WETH", "DAI"),
      Perp("ADA", "WETH", "DAI"),
      Perp("TRX", "WETH", "DAI"),
      Perp("MATIC", "WETH", "USDC"),
      Perp("DOT", "WETH", "USDC"),
      Perp("UNI", "WETH", "USDC"),
      Perp("TEST", "WETH", "USDC") @@ PositionImpact(Float(25, 6), Float(125, 7)) @@
        SwapImpact(Float(1, 5), Float(5, 6)) @@ MaxPnlFactorForAdl(Float(2, 2)) @@
        MinPnlFactorAfterAdl(Float(1, 2)) @@ [positionImpactExponentFactor |-> Float(2, 0),
        swapImpactExponentFactor |-> Float(2, 0)],
      Perp("WBTC", "USDC", "USDT") @@ BorrowingFactor(Float(3, 7)) @@ [fundingFactor |-> Float(16, 7)],
      Perp("WETH", "USDC", "DAI") @@ BorrowingFactor(Float(3, 7)) @@ [fundingFactor |-> Float(16, 7)]>>

hardhat ==
    <<Perp("WETH", "WETH", "USDC"),
      Perp("WETH", "WETH", "USDT"),
      Spot("WETH", "USDC"),
      Perp("WBTC", "WBTC", "USDC"),
      Perp("SOL", "WETH", "USDC"),
      Perp("WETH", "USDC", "USDC")>>

localhost ==
    <<Perp("WETH", "WETH", "USDC"),
      Spot("WETH", "USDC"),
      Perp("SOL", "WETH", "USDC")>>

-----------------------------------------------------------------------------
config ==
    [seiTestnet |-> seiTestnet, seiMainnet |-> seiMainnet, arbitrum |-> arbitrum, avalanche |-> avalanche,
     arbitrumGoerli |-> arbitrumGoerli, avalancheFuji |-> avalancheFuji, hardhat |-> hardhat,
     localhost |-> localhost]

\* gmx.getMarkets(): the markets of the network, with the fields they leave out taken from the default.
getMarkets(network) ==
    [i \in DOMAIN config[network] |->
        config[network][i] @@ (IF network = "hardhat" THEN hardhatBaseMarketConfig ELSE baseMarketConfig)]

=============================================================================
