---------------------------- MODULE TokenSettings ----------------------------
(***************************************************************************)
(* What the scripts deployTestTokens, configureOracleSigners,              *)
(* configureOracleTokens, configureRealtimeFeeds and deployOracle write    *)
(* for the tokens and the oracle, in the order of their transactions.      *)
(***************************************************************************)
EXTENDS GeneralSettings, TokenConfigs, SequencesExt

\* The address of a token among those of market tokens, which are triples of symbols.
TokenAddress(symbol) == <<symbol>>

\* 10^k, of which the other uint values are the 10^30th parts.
PowerOfTen(k) == Float(1, 30 - k)

\* deployTestTokens: the gas limit of the transfer of every token there is, and the wrapped native token.
tokenSettings(network) ==
    LET real == SelectSeq(getTokens(network), LAMBDA t : ~t.synthetic)
        wrapped == SelectSeq(getTokens(network), LAMBDA t : t.wrappedNative)
    IN [i \in DOMAIN real |->
            Setting("uint", tokenTransferGasLimit(TokenAddress(real[i].symbol)), real[i].transferGasLimit)]
       \o <<Setting("address", <<"WNT">>, Head(wrapped).symbol)>>

\* configureOracleSigners: the signers are in the OracleStore, each under a key of its own here.  The script
\* also removes the signers that are not configured, which there are none of: only this script adds any.
oracleSignerSettings(network) ==
    LET oracle == getOracle(network)
    IN [i \in DOMAIN oracle.signers |-> Setting("bool", <<"ORACLE_SIGNER", oracle.signers[i]>>, TRUE)]
       \o <<Setting("uint", <<"MIN_ORACLE_SIGNERS">>, oracle.minOracleSigners)>>

PriceFeedSettings(feed, token) ==
    <<Setting("address", priceFeedKey(token.symbol), feed.address),
      Setting("uint", priceFeedMultiplierKey(token.symbol), PowerOfTen(60 - feed.decimals - token.decimals))>>
    \o (IF "stablePrice" \in DOMAIN feed
        THEN <<Setting("uint", stablePriceKey(token.symbol),
                       Float(feed.stablePrice[1], feed.stablePrice[2] + token.decimals))>>
        ELSE <<>>)
    \o <<Setting("uint", priceFeedHeartbeatDurationKey(token.symbol), feed.heartbeatDuration)>>

\* configureOracleTokens: an oracle type for each token, and its price feed if it has one.
oracleTokenSettings(network) ==
    LET tokens == getOracle(network).tokens
    IN FlattenSeq([i \in DOMAIN tokens |->
           <<Setting("bytes32", oracleTypeKey(tokens[i].symbol), "one-percent-per-minute")>>
           \o (IF "address" \in DOMAIN tokens[i]
               THEN PriceFeedSettings(tokens[i], TokenOf(network, tokens[i].symbol)) ELSE <<>>)])

\* configureRealtimeFeeds.
realtimeFeedSettings(network) ==
    LET tokens == SelectSeq(getTokens(network), LAMBDA t : "realtimeFeedId" \in DOMAIN t)
    IN FlattenSeq([i \in DOMAIN tokens |->
           LET t == tokens[i]
           IN <<Setting("bytes32", realtimeFeedIdKey(t.symbol), t.realtimeFeedId),
                Setting("uint", realtimeFeedMultiplierKey(t.symbol),
                        PowerOfTen(60 - t.decimals - t.realtimeFeedDecimals))>>])

\* deployOracle, after the deployment.
oracleSettings(network) ==
    LET oracle == getOracle(network)
    IN <<Setting("uint", <<"MIN_ORACLE_BLOCK_CONFIRMATIONS">>, oracle.minOracleBlockConfirmations),
         Setting("uint", <<"MAX_ORACLE_PRICE_AGE">>, oracle.maxOraclePriceAge),
         Setting("uint", <<"MAX_ORACLE_REF_PRICE_DEVIATION_FACTOR">>, oracle.maxRefPriceDeviationFactor)>>

=============================================================================
