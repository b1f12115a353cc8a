----------------------------- MODULE DeployGraph ------------------------------
(***************************************************************************)
(* The deployment scripts, one definition per file of deploy/ under the    *)
(* name of the file: what a script deploys, what it needs, what it does    *)
(* after the deployment, and what it names as its dependencies.            *)
(*                                                                         *)
(* A script that configures (a Task) writes many values; here each script  *)
(* writes the DataStore once, as module Configuration has the detail.  The *)
(* files of deploy/migrations/ run on the old test networks only.          *)
(***************************************************************************)
EXTENDS Naturals, Sequences, FiniteSets, SequencesExt

\* One transaction after the deployment: `what` is done in contract `on`, about contract `about`, by accounts
\* that must have these roles.  The deployer is the administrator of the roles and the governor of ReferralStorage.
Effect(on, about, what, needs) == [on |-> on, about |-> about, what |-> what, needs |-> needs]
Grant(account, role) == Effect("RoleStore", account, role, {})
Write(script) == Effect("DataStore", "DataStore", script, {<<"deployer", "CONTROLLER">>})

\* createDeployFunction: dependencies are the constructor's contracts and then the libraries.
Contract(name, deps, libs, roles) ==
    [tag |-> name, name |-> name, gets |-> deps \o libs, links |-> deps \o libs, dependencies |-> deps \o libs,
     after |-> [i \in DOMAIN roles |-> Grant(name, roles[i])]]
Library(name, libs) == Contract(name, <<>>, libs, <<>>)
Task(tag, dependencies, gets, after) ==
    [tag |-> tag, name |-> "", gets |-> gets, links |-> <<>>, dependencies |-> dependencies, after |-> after]

StoreDependencies == <<"RoleStore", "DataStore", "EventEmitter">>
OrderDependencies ==
    <<"RoleStore", "DataStore", "EventEmitter", "OrderVault", "Oracle", "SwapHandler", "ReferralStorage">>

-----------------------------------------------------------------------------
configureGeneralSettingsTask == Task("GeneralSettings", <<"DataStore">>, <<>>, <<Write("GeneralSettings")>>)
configureOracleSigners ==
    Task("OracleSigners", <<"RoleStore", "OracleStore", "DataStore">>, <<"OracleStore">>,
         <<Effect("OracleStore", "OracleStore", "addSigner", {<<"deployer", "CONTROLLER">>}),
           Write("OracleSigners")>>)
configureOracleTokens ==
    Task("ConfigurePriceFeeds", <<"Tokens", "PriceFeeds", "DataStore">>, <<>>, <<Write("ConfigurePriceFeeds")>>)
configureRealtimeFeeds == Task("RealtimeFeeds", <<"Tokens">>, <<>>, <<Write("RealtimeFeeds")>>)
configureRoles ==
    Task("Roles", <<"RoleStore">>, <<>>, <<Grant("deployer", "CONTROLLER"), Grant("deployer", "MARKET_KEEPER")>>)
deployAdlHandler ==
    Contract("AdlHandler", OrderDependencies, <<"GasUtils", "OrderUtils", "AdlUtils", "MarketStoreUtils",
        "PositionStoreUtils", "OrderStoreUtils">>, <<"CONTROLLER">>)
deployAdlUtils ==
    Library("AdlUtils", <<"MarketStoreUtils", "PositionStoreUtils", "OrderStoreUtils", "OrderEventUtils">>)
deployAndConfigureDataStore ==
    [Contract("DataStore", <<"RoleStore">>, <<"GasUtils", "OrderUtils", "AdlUtils", "PositionStoreUtils",
        "OrderStoreUtils">>, <<>>) EXCEPT !.dependencies = Append(@, "Roles"), !.links = <<"RoleStore">>]
deployAndConfigureMarkets ==
    Task("Markets", <<"MarketFactory", "Tokens", "DataStore">>, <<"DataStore", "Reader">>,
         <<Effect("DataStore", "MarketFactory", "createMarket",
                  {<<"deployer", "MARKET_KEEPER">>, <<"MarketFactory", "CONTROLLER">>}),
           Write("Markets")>>)
deployBaseOrderUtils == Library("BaseOrderUtils", <<>>)
deployCallbackUtils == Library("CallbackUtils", <<>>)
deployConfig == Contract("Config", StoreDependencies, <<"MarketUtils">>, <<"CONTROLLER">>)
deployDecreaseOrderUtils ==
    Library("DecreaseOrderUtils", <<"SwapUtils", "PositionStoreUtils", "DecreasePositionUtils",
        "OrderStoreUtils">>)
deployDecreasePositionCollateralUtils ==
    Library("DecreasePositionCollateralUtils", <<"BaseOrderUtils", "FeeUtils", "MarketEventUtils",
        "PositionUtils", "PositionPricingUtils", "PositionEventUtils", "OrderEventUtils",
        "DecreasePositionSwapUtils">>)
deployDecreasePositionSwapUtils == Library("DecreasePositionSwapUtils", <<>>)
deployDecreasePositionUtils ==
    Library("DecreasePositionUtils", <<"MarketUtils", "MarketEventUtils", "PositionUtils",
        "PositionStoreUtils", "PositionEventUtils", "OrderEventUtils", "PositionPricingUtils",
        "ReferralEventUtils", "DecreasePositionCollateralUtils", "DecreasePositionSwapUtils">>)
deployDepositEventUtils == Library("DepositEventUtils", <<>>)
deployDepositHandler ==
    Contract("DepositHandler", <<"RoleStore", "DataStore", "EventEmitter", "DepositVault", "Oracle">>,
        <<"DepositUtils", "ExecuteDepositUtils", "DepositStoreUtils", "GasUtils">>, <<"CONTROLLER">>)
deployDepositStoreUtils == Library("DepositStoreUtils", <<>>)
deployDepositUtils ==
    Library("DepositUtils", <<"GasUtils", "FeeUtils", "MarketStoreUtils", "MarketEventUtils",
        "DepositStoreUtils", "DepositEventUtils">>)
deployDepositVault == Contract("DepositVault", <<"RoleStore", "DataStore">>, <<>>, <<>>)
deployEventEmitter == Contract("EventEmitter", <<"RoleStore">>, <<>>, <<>>)
deployExchangeRouter ==
    Contract("ExchangeRouter", <<"Router", "RoleStore", "DataStore", "EventEmitter", "DepositHandler",
        "WithdrawalHandler", "OrderHandler">>, <<"CallbackUtils", "DepositStoreUtils", "FeeUtils",
        "MarketEventUtils", "MarketStoreUtils", "OrderStoreUtils", "ReferralUtils", "WithdrawalStoreUtils">>,
        <<"CONTROLLER", "ROUTER_PLUGIN">>)
deployExecuteDepositUtils ==
    Library("ExecuteDepositUtils", <<"GasUtils", "FeeUtils", "MarketUtils", "MarketStoreUtils",
        "MarketEventUtils", "DepositStoreUtils", "DepositEventUtils", "SwapUtils", "SwapPricingUtils">>)
deployExecuteWithdrawalUtils ==
    Library("ExecuteWithdrawalUtils", <<"GasUtils", "FeeUtils", "MarketUtils", "MarketStoreUtils",
        "MarketEventUtils", "WithdrawalStoreUtils", "WithdrawalEventUtils", "SwapUtils", "SwapPricingUtils">>)
deployFeeHandler == Contract("FeeHandler", StoreDependencies, <<"MarketUtils">>, <<"CONTROLLER">>)
deployFeeUtils == Library("FeeUtils", <<"MarketUtils">>)
deployGasUtils == Library("GasUtils", <<>>)
deployGovTimelockController == Contract("GovTimelockController", <<>>, <<>>, <<>>)
deployGovToken == Contract("GovToken", <<"RoleStore">>, <<>>, <<>>)
deployIncreaseOrderUtils ==
    Library("IncreaseOrderUtils", <<"SwapUtils", "PositionStoreUtils", "IncreasePositionUtils",
        "OrderStoreUtils", "MarketEventUtils">>)
deployIncreasePositionUtils ==
    Library("IncreasePositionUtils", <<"FeeUtils", "MarketUtils", "MarketEventUtils", "PositionUtils",
        "PositionStoreUtils", "PositionEventUtils", "ReferralEventUtils">>)
deployLiquidationHandler ==
    Contract("LiquidationHandler", OrderDependencies, <<"OrderUtils", "LiquidationUtils",
        "MarketStoreUtils", "PositionStoreUtils", "OrderStoreUtils">>, <<"CONTROLLER">>)
deployLiquidationUtils ==
    Library("LiquidationUtils", <<"PositionStoreUtils", "OrderStoreUtils", "OrderEventUtils">>)
deployMarketEventUtils == Library("MarketEventUtils", <<>>)
deployMarketFactory == Contract("MarketFactory", StoreDependencies, <<"MarketStoreUtils">>, <<"CONTROLLER">>)
deployMarketStoreUtils == Library("MarketStoreUtils", <<>>)
deployMarketUtils == Library("MarketUtils", <<"MarketEventUtils", "MarketStoreUtils">>)
deployMockPriceFeed == Library("MockPriceFeed", <<>>)
deployMockRealtimeFeedVerifier == Contract("MockRealtimeFeedVerifier", <<"MockFeeManager">>, <<>>, <<>>)
deployMulticall3 == [Contract("Multicall3", <<>>, <<>>, <<>>) EXCEPT !.tag = "Multicall"]
deployOracle ==
    LET oracle == Contract("Oracle", <<"RoleStore", "OracleStore">>, <<>>, <<"CONTROLLER">>)
    IN [oracle EXCEPT !.dependencies = @ \o <<"Tokens", "MockRealtimeFeedVerifier">>,
                      !.after = <<Write("Oracle")>> \o @]
deployOracleStore == Contract("OracleStore", <<"RoleStore", "EventEmitter">>, <<>>, <<"CONTROLLER">>)
deployOrderEventUtils == Library("OrderEventUtils", <<>>)
deployOrderHandler ==
    [Contract("OrderHandler", OrderDependencies, <<"MarketStoreUtils", "OrderUtils", "OrderStoreUtils",
        "OrderEventUtils">>, <<"CONTROLLER">>)
     EXCEPT !.after = <<Effect("ReferralStorage", "OrderHandler", "setHandler", {})>> \o @]
deployOrderStoreUtils == Library("OrderStoreUtils", <<>>)
deployOrderUtils ==
    Library("OrderUtils", <<"BaseOrderUtils", "MarketStoreUtils", "MarketUtils", "OrderStoreUtils",
        "OrderEventUtils", "IncreaseOrderUtils", "DecreaseOrderUtils", "SwapOrderUtils", "GasUtils">>)
deployOrderVault == Contract("OrderVault", <<"RoleStore", "DataStore">>, <<>>, <<>>)
deployPositionEventUtils == Library("PositionEventUtils", <<>>)
deployPositionPricingUtils == Library("PositionPricingUtils", <<>>)
deployPositionStoreUtils == Library("PositionStoreUtils", <<>>)
deployPositionUtils == Library("PositionUtils", <<"MarketStoreUtils", "MarketUtils", "PositionPricingUtils">>)
deployProtocolGovernor == Contract("ProtocolGovernor", <<"GovToken", "GovTimelockController">>, <<>>, <<>>)
deployReader ==
    Library("Reader", <<"MarketUtils", "MarketStoreUtils", "DepositStoreUtils", "WithdrawalStoreUtils",
        "PositionStoreUtils", "PositionUtils", "OrderStoreUtils", "ReaderUtils", "ReaderDepositUtils",
        "ReaderWithdrawalUtils", "ReaderPricingUtils">>)
deployReaderDepositUtils ==
    Library("ReaderDepositUtils", <<"MarketUtils", "MarketStoreUtils", "PositionStoreUtils",
        "PositionUtils">>)
deployReaderPricingUtils ==
    Library("ReaderPricingUtils", <<"MarketStoreUtils", "PositionStoreUtils", "PositionUtils">>)
deployReaderUtils ==
    Library("ReaderUtils", <<"ReaderPricingUtils", "MarketStoreUtils", "PositionStoreUtils",
        "PositionUtils">>)
deployReaderWithdrawalUtils ==
    Library("ReaderWithdrawalUtils", <<"MarketUtils", "MarketStoreUtils", "PositionStoreUtils",
        "PositionUtils">>)
deployReferralEventUtils == Library("ReferralEventUtils", <<>>)
deployReferralStorage ==
    [Contract("ReferralStorage", <<>>, <<>>, <<>>)
     EXCEPT !.after = <<Effect("ReferralStorage", "ReferralStorage", "setTier", {})>>]
deployReferralUtils == Library("ReferralUtils", <<"MarketUtils", "ReferralEventUtils">>)
deployRoleStore ==
    [Contract("RoleStore", <<>>, <<>>, <<>>) EXCEPT !.dependencies = Append(@, "FundAccounts")]
deployRouter == Contract("Router", <<"RoleStore">>, <<>>, <<>>)
deploySubaccountRouter ==
    Contract("SubaccountRouter", <<"Router", "RoleStore", "DataStore", "EventEmitter", "OrderHandler",
        "OrderVault">>, <<"OrderStoreUtils">>, <<"CONTROLLER", "ROUTER_PLUGIN">>)
deploySwapHandler == Contract("SwapHandler", <<"RoleStore">>, <<"SwapUtils">>, <<"CONTROLLER">>)
deploySwapOrderUtils == Library("SwapOrderUtils", <<"OrderStoreUtils", "SwapUtils">>)
deploySwapPricingUtils == Library("SwapPricingUtils", <<>>)
deploySwapUtils == Library("SwapUtils", <<"FeeUtils", "MarketEventUtils", "SwapPricingUtils">>)
deployTestPriceFeeds == Task("PriceFeeds", <<"Tokens", "DataStore">>, <<>>, <<>>)
deployTestTokens == Task("Tokens", <<"DataStore">>, <<>>, <<Write("Tokens")>>)
deployTimelock ==
    Contract("Timelock", <<"RoleStore", "DataStore", "EventEmitter", "OracleStore">>, <<>>, <<"CONTROLLER",
        "ROLE_ADMIN">>)
deployWithdrawalEventUtils == Library("WithdrawalEventUtils", <<>>)
deployWithdrawalHandler ==
    Contract("WithdrawalHandler", <<"RoleStore", "DataStore", "EventEmitter", "WithdrawalVault", "Oracle">>,
        <<"WithdrawalUtils", "ExecuteWithdrawalUtils", "WithdrawalStoreUtils", "GasUtils">>, <<"CONTROLLER">>)
deployWithdrawalStoreUtils == Library("WithdrawalStoreUtils", <<>>)
deployWithdrawalUtils ==
    Library("WithdrawalUtils", <<"GasUtils", "FeeUtils", "MarketUtils", "MarketStoreUtils",
        "MarketEventUtils", "WithdrawalStoreUtils", "WithdrawalEventUtils", "SwapUtils">>)
deployWithdrawalVault == Contract("WithdrawalVault", <<"RoleStore", "DataStore">>, <<>>, <<>>)
\* The virtual inventories are the sums of what was traded.  Nothing is traded while a network is deployed, so
\* that the sums are 0, which the DataStore returns for them anyway, and the scripts write nothing.  That
\* hardhat-deploy does not repeat one that returned true (they have an id) therefore makes no difference.
fixVirtualInventoryForPositions ==
    Task("FixVirtualInventoryForPositions", <<>>, <<"DataStore", "Reader">>, <<>>)
fixVirtualInventoryForSwaps == Task("FixVirtualInventoryForSwaps", <<>>, <<"DataStore", "Reader">>, <<>>)
fixVirtualInventoryForSwaps2 == Task("FixVirtualInventoryForSwaps2", <<>>, <<"DataStore", "Reader">>, <<>>)
fundAccounts == Task("FundAccounts", <<>>, <<>>, <<>>)

-----------------------------------------------------------------------------
\* The files in the order of their names, and the order hardhat-deploy runs them in: before each the scripts
\* whose tags it depends on, a tag nobody has being ignored, and the ones with runAtTheEnd last.
Files ==
    <<configureGeneralSettingsTask, configureOracleSigners, configureOracleTokens, configureRealtimeFeeds,
      configureRoles, deployAdlHandler, deployAdlUtils, deployAndConfigureDataStore,
      deployAndConfigureMarkets, deployBaseOrderUtils, deployCallbackUtils, deployConfig,
      deployDecreaseOrderUtils, deployDecreasePositionCollateralUtils,
      deployDecreasePositionSwapUtils, deployDecreasePositionUtils, deployDepositEventUtils,
      deployDepositHandler, deployDepositStoreUtils, deployDepositUtils, deployDepositVault,
      deployEventEmitter, deployExchangeRouter, deployExecuteDepositUtils,
      deployExecuteWithdrawalUtils, deployFeeHandler, deployFeeUtils, deployGasUtils,
      deployGovTimelockController, deployGovToken, deployIncreaseOrderUtils,
      deployIncreasePositionUtils, deployLiquidationHandler, deployLiquidationUtils,
      deployMarketEventUtils, deployMarketFactory, deployMarketStoreUtils, deployMarketUtils,
      deployMockPriceFeed, deployMockRealtimeFeedVerifier, deployMulticall3, deployOracle,
      deployOracleStore, deployOrderEventUtils, deployOrderHandler, deployOrderStoreUtils,
      deployOrderUtils, deployOrderVault, deployPositionEventUtils, deployPositionPricingUtils,
      deployPositionStoreUtils, deployPositionUtils, deployProtocolGovernor, deployReader,
      deployReaderDepositUtils, deployReaderPricingUtils, deployReaderUtils,
      deployReaderWithdrawalUtils, deployReferralEventUtils, deployReferralStorage,
      deployReferralUtils, deployRoleStore, deployRouter, deploySubaccountRouter, deploySwapHandler,
      deploySwapOrderUtils, deploySwapPricingUtils, deploySwapUtils, deployTestPriceFeeds,
      deployTestTokens, deployTimelock, deployWithdrawalEventUtils, deployWithdrawalHandler,
      deployWithdrawalStoreUtils, deployWithdrawalUtils, deployWithdrawalVault,
      fixVirtualInventoryForPositions, fixVirtualInventoryForSwaps, fixVirtualInventoryForSwaps2,
      fundAccounts>>
Scripts == Range(Files)
ScriptOf(tag) == CHOOSE s \in Scripts : s.tag = tag
Tags == {s.tag : s \in Scripts}

AddAll[done \in Seq(STRING), tags \in Seq(STRING)] ==
    IF tags = <<>> THEN done
    ELSE IF Head(tags) \notin Tags \/ Head(tags) \in Range(done) THEN AddAll[done, Tail(tags)]
    ELSE LET first == AddAll[done, ScriptOf(Head(tags)).dependencies]
         IN AddAll[Append(first, Head(tags)), Tail(tags)]

runAtTheEnd == {"Markets"}
ScriptOrder ==
    LET order == AddAll[<<>>, [i \in DOMAIN Files |-> Files[i].tag]]
    IN SelectSeq(order, LAMBDA t : t \notin runAtTheEnd) \o SelectSeq(order, LAMBDA t : t \in runAtTheEnd)

Script == [i \in DOMAIN ScriptOrder |-> ScriptOf(ScriptOrder[i])]

\* func.skip of the scripts that have one; hardhat is the one network that is not live.
Skipped(network) ==
    (IF network = "hardhat" THEN {} ELSE {"MockRealtimeFeedVerifier", "FundAccounts"})
    \union (IF network \in {"avalancheFuji", "arbitrumGoerli", "seiTestnet", "seiMainnet", "hardhat"}
            THEN {} ELSE {"ReferralStorage"})
    \union (IF network = "avalancheFuji"
            THEN {} ELSE {"FixVirtualInventoryForPositions", "FixVirtualInventoryForSwaps"})
    \union (IF network = "arbitrumGoerli" THEN {} ELSE {"FixVirtualInventoryForSwaps2"})

=============================================================================
