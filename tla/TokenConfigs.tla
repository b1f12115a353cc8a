---------------------------- MODULE TokenConfigs -----------------------------
(***************************************************************************)
(* config/tokens.ts and config/oracle.ts: the tokens of each network, and  *)
(* where their prices come from.  The symbol of a token stands for its     *)
(* address: the addresses of a network are all different, those of         *)
(* synthetic tokens being hashes of their symbols.  Feeds, feed IDs and    *)
(* oracle signers are known by the first digits of their addresses.        *)
(***************************************************************************)
EXTENDS MarketConfigs

Token(symbol, decimals) ==
    [symbol |-> symbol, decimals |-> decimals, synthetic |-> FALSE, wrappedNative |-> FALSE,
     transferGasLimit |-> Amount]
Wrapped(symbol, decimals) == [Token(symbol, decimals) EXCEPT !.wrappedNative = TRUE]
Synthetic(symbol, decimals) ==
    [symbol |-> symbol, decimals |-> decimals, synthetic |-> TRUE, wrappedNative |-> FALSE]
Feed(id) == [realtimeFeedId |-> id, realtimeFeedDecimals |-> 8]

seiMainnetTokens ==
    <<Token("WETH", 18), Wrapped("WSEI", 18), Token("USDT", 6), Token("USDC", 6)>>

seiTestnetTokens ==
    <<Token("WBTC", 8), Token("WETH", 18), Wrapped("WSEI", 18), Token("USDT", 6), Token("USDC", 6)>>

arbitrumTokens ==
    <<Synthetic("BTC", 8) @@ Feed("0x0f49a4"), Token("WBTC.e", 8) @@ Feed("0x0f49a4"),
      Wrapped("WETH", 18) @@ Feed("0x74aca6"), Synthetic("XRP", 6) @@ Feed("0x0001c2"),
      Synthetic("DOGE", 8) @@ Feed("0x5f82d1"), Token("SOL", 9) @@ Feed("0x000110"),
      Synthetic("LTC", 8) @@ Feed("0x0001ba"), Token("UNI", 18) @@ Feed("0x0001bb"),
      Token("LINK", 18) @@ Feed("0x64ee16"), Token("ARB", 18) @@ Feed("0xb43dc4"),
      Token("USDC", 6) @@ Feed("0x95241f"), Token("USDC.e", 6) @@ Feed("0x95241f"),
      Token("USDT", 6) @@ Feed("0x297cc1"), Token("DAI", 18) @@ Feed("0x2cdd4a")>>

avalancheTokens ==
    <<Token("BTC.b", 8), Token("WETH.e", 18), Synthetic("XRP", 6), Synthetic("DOGE", 8),
      Token("SOL", 9), Synthetic("LTC", 8), Wrapped("WAVAX", 18), Token("USDC", 6), Token("USDC.e", 6),
      Token("USDT", 6), Token("USDT.e", 6), Token("DAI.e", 18)>>

arbitrumGoerliTokens ==
    <<Wrapped("WETH", 18) @@ Feed("0x455448"), Synthetic("BTC", 8) @@ Feed("0x425443"),
      Token("WBTC", 8) @@ Feed("0x425443"), Token("USDC", 6) @@ Feed("0x555344"), Synthetic("SOL", 18),
      Token("USDT", 6) @@ Feed("0x12be18"), Token("DAI", 18) @@ Feed("0xbf1feb"), Synthetic("TEST", 18),
      Synthetic("BNB", 18) @@ Feed("0x26c16f"), Synthetic("DOGE", 8) @@ Feed("0x4ce52c"),
      Synthetic("LINK", 18) @@ Feed("0x14e044"), Synthetic("ADA", 18), Synthetic("DOT", 18),
      Synthetic("MATIC", 18), Synthetic("UNI", 18), Synthetic("TRX", 18)>>

avalancheFujiTokens ==
    <<Wrapped("WAVAX", 18), Synthetic("TEST", 18), Token("WBTC", 8), Synthetic("SOL", 18),
      Token("USDC", 6), Token("USDT", 6), Token("DAI", 6), Token("WETH", 18), Synthetic("BNB", 18),
      Synthetic("DOGE", 8), Synthetic("LINK", 18), Synthetic("ADA", 18), Synthetic("DOT", 18),
      Synthetic("MATIC", 18), Synthetic("UNI", 18), Synthetic("TRX", 18)>>

hardhatTokens ==
    <<Wrapped("WETH", 18), Token("WBTC", 8), Token("USDC", 6), Token("USDT", 6), Synthetic("SOL", 18)>>

localhostTokens == hardhatTokens

getTokens(network) ==
    CASE network = "seiMainnet" -> seiMainnetTokens
      [] network = "seiTestnet" -> seiTestnetTokens
      [] network = "arbitrum" -> arbitrumTokens
      [] network = "avalanche" -> avalancheTokens
      [] network = "arbitrumGoerli" -> arbitrumGoerliTokens
      [] network = "avalancheFuji" -> avalancheFujiTokens
      [] network = "hardhat" -> hardhatTokens
      [] network = "localhost" -> localhostTokens
TokenOf(network, symbol) ==
    LET tokens == getTokens(network) IN tokens[CHOOSE i \in DOMAIN tokens : tokens[i].symbol = symbol]

-----------------------------------------------------------------------------
\* Counts and seconds are <<n, 0>>.  A feed with `stable` has stablePrice: decimalToFloat(1).
PriceFeed(symbol, address, heartbeatDuration) ==
    [symbol |-> symbol, address |-> address, decimals |-> 8, heartbeatDuration |-> Float(heartbeatDuration, 0)]
StableFeed(symbol, address, heartbeatDuration) ==
    [stablePrice |-> Float(1, 0)] @@ PriceFeed(symbol, address, heartbeatDuration)
Hours(n) == n * 60 * 60

OracleConfig(signers, minSigners, confirmations, priceAge, feeds) ==
    [signers |-> signers, minOracleSigners |-> Float(minSigners, 0),
     minOracleBlockConfirmations |-> Float(confirmations, 0), maxOraclePriceAge |-> Float(priceAge, 0),
     maxRefPriceDeviationFactor |-> Float(5, 1), tokens |-> feeds]

\* The signers of hardhat and localhost are accounts of the node, two of which stand for all.
TestSigners == <<"signer10", "signer11">>
GoerliAndFujiSigners == <<"0xFb11f1", "0x23247a">>

localhostOracle == OracleConfig(TestSigners, 0, 255, Hours(24), <<>>)

\* `deploy: true`: deployTestPriceFeeds deploys the feed under this name.
hardhatOracle ==
    OracleConfig(TestSigners, 0, 255, Hours(1),
        <<PriceFeed("USDC", "USDCPriceFeed", Hours(24)), PriceFeed("USDT", "USDTPriceFeed", Hours(24))>>)

arbitrumOracle ==
    LET feed(symbol, address) == PriceFeed(symbol, address, Hours(25))
        stable(symbol, address) == StableFeed(symbol, address, Hours(25))
    IN OracleConfig(<<"0x0F7113">>, 1, 255, 300,
        <<feed("BTC", "0x6ce185"), feed("WBTC.e", "0x6ce185"), feed("WETH", "0x639Fe6"),
          feed("DOGE", "0x9A7FB1"), feed("SOL", "0x24ceA4"), feed("UNI", "0x9C9170"),
          feed("LINK", "0x86E53C"), feed("ARB", "0xb2A824"), stable("USDC", "0x50834F"),
          stable("USDC.e", "0x50834F"), stable("USDT", "0x3f3f5d"), stable("DAI", "0xc5C8E7")>>)

avalancheOracle ==
    LET feed(symbol, address) == PriceFeed(symbol, address, Hours(25))
        stable(symbol, address) == StableFeed(symbol, address, Hours(25))
    IN OracleConfig(<<"0x7f2CA7">>, 1, 255, 300,
        <<feed("BTC.b", "0x2779D3"), feed("WETH.e", "0x976B3D"), feed("WAVAX", "0x0A7723"),
          stable("USDC", "0xF09687"), stable("USDC.e", "0xF09687"), stable("USDT", "0xEBE676"),
          stable("USDT.e", "0xEBE676"), stable("DAI.e", "0x51D718")>>)

arbitrumGoerliOracle ==
    OracleConfig(GoerliAndFujiSigners, 1, 255, 300,
        <<PriceFeed("USDC", "0x1692Bd", Hours(72)), PriceFeed("USDT", "0x0a023a", Hours(72)),
          PriceFeed("DAI", "0x103b53", Hours(72))>>)

seiTestnetOracle ==
    OracleConfig(<<"0x56F848", "0x985285", "0x9e6907", "0xCf02f3", "0xA44432">>, 1, 0, Hours(24), <<>>)
seiMainnetOracle ==
    OracleConfig(<<"0x99eb2f", "0xB80602", "0x48E022", "0x395aAF", "0x518A52">>, 1, 0, Hours(24), <<>>)

\* One feed for all three.
avalancheFujiOracle ==
    OracleConfig(GoerliAndFujiSigners, 1, 255, 300,
        [i \in 1..3 |-> PriceFeed(<<"USDC", "USDT", "DAI">>[i], "0x7898Ac", Hours(72))])

oracleConfigOf(network) ==
    CASE network = "localhost" -> localhostOracle
      [] network = "hardhat" -> hardhatOracle
      [] network = "arbitrum" -> arbitrumOracle
      [] network = "avalanche" -> avalancheOracle
      [] network = "arbitrumGoerli" -> arbitrumGoerliOracle
      [] network = "seiTestnet" -> seiTestnetOracle
      [] network = "seiMainnet" -> seiMainnetOracle
      [] network = "avalancheFuji" -> avalancheFujiOracle

\* gmx.getOracle(): after the tokens that have a feed all the others, so that each has an oracle type.
getOracle(network) ==
    LET oracle == oracleConfigOf(network)
        named == {oracle.tokens[i].symbol : i \in DOMAIN oracle.tokens}
        others == SelectSeq(getTokens(network), LAMBDA t : t.symbol \notin named)
    IN [oracle EXCEPT !.tokens = @ \o [i \in DOMAIN others |-> [symbol |-> others[i].symbol]]]

=============================================================================
