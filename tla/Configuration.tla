---------------------------- MODULE Configuration -----------------------------
(***************************************************************************)
(* Configuring the exchange.  The scripts of deploy/ that configure it     *)
(* write the DataStore one transaction at a time, the general settings     *)
(* first and the markets last, may be killed after any of them, and are    *)
(* then run again from the start, writing what differs.  Later a keeper    *)
(* runs updateGeneralConfig or updateMarketConfig, which reads all values  *)
(* in one call and writes what differed in another, while other config     *)
(* keepers write too.                                                      *)
(***************************************************************************)
EXTENDS ConfigValidation, TokenSettings, DeployGraph

CONSTANTS ConfigNetworks,   \* the networks configured
          MaxKills          \* bound: how often the setup is killed

VARIABLES
    net,        \* the network the scripts run for
    store,      \* the DataStore: the keys written so far and their values
    created,    \* the keys of the markets on chain
    setup,      \* the deployment scripts: [phase, pos, skip]
    update,     \* the update script: [phase, script, fromChain, writes]
    kills,      \* how often the setup was killed
    drifted     \* the keys another keeper changed since a script last wrote or read them
configVars == <<net, store, created, setup, update, kills, drifted>>

SetupPhases == {"idle", "running", "done", "failed"}
UpdatePhases == {"idle", "read", "done", "failed"}
NoUpdate == [phase |-> "idle", script |-> "general", fromChain |-> FALSE, writes |-> <<>>]

ConfigInit ==
    /\ net \in ConfigNetworks
    /\ store = <<>>
    /\ created = {}
    /\ setup = [phase |-> "idle", pos |-> 1, skip |-> FALSE]
    /\ update = NoUpdate
    /\ kills = 0
    /\ drifted = {}

-----------------------------------------------------------------------------
\* What the DataStore returns, and setIfDifferent's comparison with the value to write.
Default == [uint |-> Float(0, 0), bytes32 |-> HashZero, bool |-> FALSE, address |-> "AddressZero"]
Stored(type, key) == IF key \in DOMAIN store THEN store[key] ELSE Default[type]
SameUint(a, b) == a = b \/ (a[1] = 0 /\ b[1] = 0)
Written(s) ==
    IF s.type = "uint" THEN s.value # Undefined /\ SameUint(Stored(s.type, s.key), s.value)
                       ELSE Stored(s.type, s.key) = s.value

\* The two scripts as one sequence: create every market, then look each one up and write its settings.
Create(m) == Setting("create", getMarketKey(m), "")
LookUp(m) == Setting("market", getMarketKey(m), "")
SetupPlan(markets, g) ==
    [i \in DOMAIN markets |-> Create(markets[i])]
    \o FlattenSeq([i \in DOMAIN markets |-> <<LookUp(markets[i])>> \o MarketSetup(markets[i], g)])
SettingsOf(tag, n) ==
    CASE tag = "GeneralSettings" -> configureGeneralSettings(n)
      [] tag = "OracleSigners" -> oracleSignerSettings(n)
      [] tag = "Tokens" -> tokenSettings(n)
      [] tag = "ConfigurePriceFeeds" -> oracleTokenSettings(n)
      [] tag = "RealtimeFeeds" -> realtimeFeedSettings(n)
      [] tag = "Oracle" -> oracleSettings(n)
      [] tag = "Markets" -> SetupPlan(getMarkets(n), getGeneral(n))
      [] OTHER -> <<>>

\* The scripts in the order of the deployment, the first of which throws where there are no general settings.
Plans ==
    [n \in ConfigNetworks |->
        IF GeneralDefined(n) THEN FlattenSeq([i \in DOMAIN ScriptOrder |-> SettingsOf(ScriptOrder[i], n)])
                             ELSE <<Setting("uint", <<>>, Undefined)>>]

\* A step with nothing to send: the value is there, the market exists or SKIP_NEW_MARKETS leaves it out.
Settled(s) ==
    CASE s.type = "create" -> s.key \in created \/ setup.skip
      [] s.type = "market" -> s.key \in created
      [] OTHER -> Written(s)

\* The script throws: no general settings, no such market, a value undefined.
Throws(s) == s.type = "market" \/ (s.type = "uint" /\ s.value = Undefined)

\* The first step from i on that has something to do, Len + 1 when none has.
NextStep(plan, from) ==
    CHOOSE i \in from..(Len(plan) + 1) :
        /\ i <= Len(plan) => ~Settled(plan[i])
        /\ \A j \in from..(i - 1) : Settled(plan[j])

StartSetup(skip) ==
    /\ setup.phase # "running" /\ update.phase # "read"
    /\ setup' = [phase |-> "running", pos |-> 1, skip |-> skip]
    /\ update' = NoUpdate
    /\ UNCHANGED <<net, store, created, kills, drifted>>

\* One transaction: createMarket, or one set of the DataStore.
SendTransaction(plan, i) ==
    /\ i <= Len(plan) /\ ~Throws(plan[i])
    /\ IF plan[i].type = "create"
       THEN created' = created \union {plan[i].key} /\ UNCHANGED <<store, drifted>>
       ELSE /\ store' = [k \in DOMAIN store \union {plan[i].key} |->
                   IF k = plan[i].key THEN plan[i].value ELSE store[k]]
            /\ drifted' = drifted \ {plan[i].key}
            /\ UNCHANGED created
    /\ setup' = [setup EXCEPT !.pos = i + 1]
    /\ UNCHANGED <<net, update, kills>>

FinishSetup(plan, i) ==
    /\ i > Len(plan)
    /\ setup' = [setup EXCEPT !.phase = "done"]
    /\ UNCHANGED <<net, store, created, update, kills, drifted>>

FailSetup(plan, i) ==
    /\ i <= Len(plan) /\ Throws(plan[i])
    /\ setup' = [setup EXCEPT !.phase = "failed"]
    /\ UNCHANGED <<net, store, created, update, kills, drifted>>

KillSetup ==
    /\ setup.phase = "running"
    /\ kills < MaxKills
    /\ kills' = kills + 1
    /\ setup' = [setup EXCEPT !.phase = "idle"]
    /\ UNCHANGED <<net, store, created, update, drifted>>

SetupNext(plan) ==
    \/ \E skip \in BOOLEAN : StartSetup(skip)
    \/ /\ setup.phase = "running"
       /\ \E i \in {NextStep(plan, setup.pos)} :
              SendTransaction(plan, i) \/ FinishSetup(plan, i) \/ FailSetup(plan, i)
    \/ KillSetup

-----------------------------------------------------------------------------
OnChain(markets) == {m \in Range(markets) : getMarketKey(m) \in created}
UpdateItems(script, n) ==
    IF script = "general" THEN processGeneralConfig(n)
    ELSE FlattenSeq([i \in DOMAIN getMarkets(n) |-> processMarket(getMarkets(n)[i], getGeneral(n))])

\* The script throws before it reads: no general settings, an invalid market configuration, a market not created.
CannotUpdate(script, markets, fromChain) ==
    \/ ~GeneralDefined(net)
    \/ /\ script = "markets"
       /\ \/ /\ net \notin {"arbitrumGoerli", "avalancheFuji"}
             /\ ~validMarketConfigs(net, OnChain(markets), store, fromChain)
          \/ OnChain(markets) # Range(markets)

\* The first half: validate, read every value in one call and keep what differs, at its place in the list.
Differing(items) == [i \in {i \in DOMAIN items : ~Written(items[i])} |-> items[i]]
ReadForUpdate(script, markets, fromChain) ==
    /\ setup.phase \in {"done", "failed"} /\ update.phase # "read"
    /\ update' = IF CannotUpdate(script, markets, fromChain)
                 THEN [phase |-> "failed", script |-> script, fromChain |-> fromChain, writes |-> <<>>]
                 ELSE [phase |-> "read", script |-> script, fromChain |-> fromChain,
                       writes |-> Differing(UpdateItems(script, net))]
    /\ UNCHANGED <<net, store, created, setup, kills, drifted>>

LastWrite(writes, key) == writes[Max({i \in DOMAIN writes : writes[i].key = key})]

\* The second half: one multicall of Config, which reverts as a whole.
WriteUpdate ==
    /\ update.phase = "read"
    /\ IF \A s \in Range(update.writes) : ~Throws(s) /\ setUintAccepted(s)
       THEN /\ update' = [update EXCEPT !.phase = "done"]
            /\ LET keys == {s.key : s \in Range(update.writes)}
               IN /\ store' = [k \in DOMAIN store \union keys |->
                         IF k \in keys THEN LastWrite(update.writes, k).value ELSE store[k]]
                  /\ drifted' = drifted \ keys
       ELSE /\ update' = [update EXCEPT !.phase = "failed"]
            /\ UNCHANGED <<store, drifted>>
    /\ UNCHANGED <<net, created, setup, kills>>

\* Another config keeper, before or between the two halves: the pool limit of the first market.
PoolKey(m) == maxPoolAmountKey(getMarketKey(m), m.longToken)
KeeperChange(m) ==
    LET key == PoolKey(m)
    IN /\ setup.phase = "done"
       /\ Stored("uint", key) = m.maxLongTokenPoolAmount
       /\ store' = [k \in DOMAIN store \union {key} |-> IF k = key THEN Float(7, 0) ELSE store[k]]
       /\ drifted' = drifted \union {key}
       /\ UNCHANGED <<net, created, setup, update, kills>>

UpdateNext(markets) ==
    \/ \E script \in {"general", "markets"}, fromChain \in BOOLEAN : ReadForUpdate(script, markets, fromChain)
    \/ WriteUpdate
    \/ KeeperChange(Head(markets))

ConfigNext == SetupNext(Plans[net]) \/ UpdateNext(getMarkets(net))

ConfigSpec == ConfigInit /\ [][ConfigNext]_configVars

-----------------------------------------------------------------------------
\* The set uint value is not zero.
NonZero(key) == ~SameUint(Stored("uint", key), Float(0, 0))

\* What the contracts need of a token: a gas limit to transfer it, an oracle type, and with each feed the
\* multiplier without which Oracle reverts, with a price feed also a heartbeat its answers are not older than.
Transferable(token) == NonZero(tokenTransferGasLimit(TokenAddress(token)))
Priceable(token) ==
    /\ Stored("bytes32", oracleTypeKey(token)) # HashZero
    /\ Stored("address", priceFeedKey(token)) # "AddressZero" =>
           NonZero(priceFeedMultiplierKey(token)) /\ NonZero(priceFeedHeartbeatDurationKey(token))
    /\ Stored("bytes32", realtimeFeedIdKey(token)) # HashZero => NonZero(realtimeFeedMultiplierKey(token))

\* A market can be deposited into, and so traded in, only when it is ready: the virtual IDs it is configured
\* with are set, its tokens can be priced and transferred and the Oracle accepts prices of some age.  This is
\* the order the scripts write in, which a kill and a second run must keep too.
ReadyBeforeOpen ==
    \A m \in Range(getMarkets(net)) :
        NonZero(PoolKey(m)) =>
            /\ \A s \in Range(VirtualIdSettings(m)) : Written(s)
            /\ \A token \in {m.longToken, m.shortToken} : Transferable(token) /\ Priceable(token)
            /\ ~m.swapOnly => Priceable(m.indexToken)
            /\ NonZero(<<"MAX_ORACLE_PRICE_AGE">>)

\* After the setup every setting it planned is stored, unless another keeper changed it since: no market
\* overwrites what another one wrote, a killed run left nothing out, and a later run of an update script
\* writes the very values the setup did, so that it undoes a keeper's change and nothing else.
ConfiguredAsWritten ==
    setup.phase = "done" =>
        \A s \in Range(Plans[net]) : Settled(s) \/ s.key \in drifted

\* Which it is for when the lists agree: no two settings of the setup have one key and different values, and
\* neither has one of the setup and one of an update script.
IsSetting(s) == s.type \notin {"create", "market"}
SameValue(s, t) == s.key = t.key => s.type = t.type /\ s.value = t.value
ListsAgree(n) ==
    /\ Plans[n] \in Seq(Range(Plans[n]))
    /\ \A s, t \in Range(Plans[n]) : IsSetting(s) /\ IsSetting(t) => SameValue(s, t)
    /\ GeneralDefined(n) => \A script \in {"general", "markets"} :
           /\ UpdateItems(script, n) \in Seq(Range(UpdateItems(script, n)))
           /\ \A s \in Range(Plans[n]), t \in Range(UpdateItems(script, n)) : IsSetting(s) => SameValue(s, t)

\* And a market is ready before it opens when the settings it needs come before its pool limit in the list of
\* the setup, and the pool limits are in no list that may be written before the setup is done.
Keys(items) == {items[i].key : i \in DOMAIN items}
WritableKeys(n) ==
    Keys(Plans[n]) \union Keys(UpdateItems("general", n)) \union Keys(UpdateItems("markets", n))
    \union {PoolKey(Head(getMarkets(n)))}
SettingsBefore(n, p) ==
    {s \in {Plans[n][j] : j \in 1..(p - 1)} : IsSetting(s) /\ s.key # PoolKey(Head(getMarkets(n)))}
Sets(settings, key) == \E s \in settings : s.type = "uint" /\ s.key = key /\ s.value[1] # 0
MakesPriceable(settings, keys, token) ==
    /\ \E s \in settings : s.type = "bytes32" /\ s.key = oracleTypeKey(token) /\ s.value # HashZero
    /\ priceFeedKey(token) \in keys =>
           Sets(settings, priceFeedMultiplierKey(token)) /\ Sets(settings, priceFeedHeartbeatDurationKey(token))
    /\ realtimeFeedIdKey(token) \in keys => Sets(settings, realtimeFeedMultiplierKey(token))
MakesReady(settings, keys, m) ==
    /\ Range(VirtualIdSettings(m)) \subseteq settings
    /\ \A token \in {m.longToken, m.shortToken} :
           Sets(settings, tokenTransferGasLimit(TokenAddress(token))) /\ MakesPriceable(settings, keys, token)
    /\ ~m.swapOnly => MakesPriceable(settings, keys, m.indexToken)
    /\ Sets(settings, <<"MAX_ORACLE_PRICE_AGE">>)
ReadyInOrder(n) == GeneralDefined(n) =>
    /\ \A s \in Range(Plans[n]) :
           /\ s.type = "uint" => s.value # Undefined
           /\ s.type = "market" => \E m \in Range(getMarkets(n)) : s.key = getMarketKey(m)
    /\ \A m \in Range(getMarkets(n)) :
           /\ PoolKey(m) \notin Keys(UpdateItems("general", n))
           /\ \E p \in DOMAIN Plans[n] :
                  /\ \A j \in 1..(p - 1) : Plans[n][j].key # PoolKey(m)
                  /\ MakesReady(SettingsBefore(n, p), WritableKeys(n), m)

\* An exchange that was set up on a network the validation knows can be updated: the script accepts the
\* configuration it is about to write, and Config accepts every key and value.  The one refusal left is
\* that of READ_FROM_CHAIN where a market is swap-only, as nothing was written for its borrowing.
KnownNetworks == {"arbitrum", "avalanche", "arbitrumGoerli", "avalancheFuji"}
UpdateAccepted ==
    setup.phase = "done" /\ update.phase = "failed" /\ net \in KnownNetworks =>
        update.script = "markets" /\ update.fromChain /\ \E m \in Range(getMarkets(net)) : m.swapOnly

\* Every market that was set up can send its market tokens out: the transfer has a gas limit.
SwapMarketsCanReturnTokens ==
    setup.phase = "done" =>
        \A m \in Range(getMarkets(net)) : NonZero(tokenTransferGasLimit(getMarketKey(m)))

=============================================================================
