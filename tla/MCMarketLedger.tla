--------------------------- MODULE MCMarketLedger ---------------------------
(* Amounts of 8, fees of 1/8 or 2/8 of which 2/8 go to the fee receiver,   *)
(* ui fees of 1/8. A behaviour has one of two scopes: one market, two       *)
(* transactions at two sets of prices and two ui fee receivers; or three    *)
(* markets and one transaction along paths of up to two markets.            *)
EXTENDS MarketLedger, TLC

CONSTANTS m1, m2, m3, a, b, frontend, broker, nowhere

VARIABLE scope

MCLongToken == [m \in Markets |-> a]
MCShortToken == [m \in Markets |-> IF m = m3 THEN a ELSE b]
MCSwapFeeFactor == [positive \in BOOLEAN |-> IF positive THEN 1 ELSE 2]
MCUiFeeFactor == [r \in UiFeeReceivers |-> 1]
MCPriceSets == {(a :> [min |-> 2, max |-> 3] @@ b :> [min |-> 1, max |-> 1])}
MCTwoPriceSets == MCPriceSets \cup {(a :> [min |-> 1, max |-> 1] @@ b :> [min |-> 1, max |-> 2])}
MCImpacts == {-1, 3}
MCPaths == {<<>>, <<m1>>}
MCPathsOfTwo == {<<>>, <<m1>>, <<m1, m2>>}
MCPool == [pool |-> [m \in Markets |-> [t \in Tokens |-> IF t \in TokensOf(m) THEN 9 ELSE 0]],
           supply |-> [m \in Markets |-> 2]]
MCEmptyOrDeposited == {MCPool, [pool |-> NoTokens, supply |-> [m \in Markets |-> 0]]}

MCInit == Init /\ scope \in {"one", "paths"} /\ (scope = "paths" => poolAmount = MCPool.pool)

RequestInOne ==
  /\ scope = "one"
  /\ RequestOf({m1}, MCPaths, MCTwoPriceSets, UiFeeReceivers)

RequestAlongPaths ==
  /\ scope = "paths" /\ executions < 1
  /\ RequestOf(Markets, MCPathsOfTwo, MCPriceSets, {frontend})

(* Nothing happens at the markets out of scope.                             *)
ClaimInScope == Claim /\ (scope = "one" => \A m \in Markets \ {m1} : stray'[m] = stray[m])

MCNext == (RequestInOne \/ RequestAlongPaths \/ Execute \/ ClaimInScope) /\ UNCHANGED scope

MCSpec == MCInit /\ [][MCNext]_<<vars, scope>>
=============================================================================
