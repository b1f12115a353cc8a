# A formal model of the exchange contracts

TLA+ specifications of the Solidity contracts under `contracts/` (a deployment
of the GMX synthetics exchange) and of the TypeScript that deploys, configures and
operates them (`deploy/`, `config/`, `scripts/`, `utils/`), the TLC configurations
that check them on small instances, and theorems about them that TLAPS proves for
every instance. Source
references below are relative to the repository's root.

Contents: [the system](#1-the-system) · [modules](#2-modules-and-the-code) ·
[runs](#3-runs-bounds-and-what-they-show) · [fairness](#4-fairness) ·
[proofs](#5-proofs) · [divergences](#6-where-documents-and-code-disagree) ·
[limits](#7-what-is-only-checked-and-what-is-not-modelled) · [plan](#8-plan)

## 1. The system

Traders and liquidity providers never act on a market directly. They file a
*request* (deposit, withdrawal or order) with a router; its tokens and an
execution fee wait in a vault. Later a *keeper* executes the request with prices
that oracle signers signed for the block the request was made at. The contracts
are one-threaded, but three things interleave with every step: other people's
transactions between a request's creation, update, cancellation and execution;
plain ERC20 transfers to any contract; and foreign code, which runs in the
middle of an execution whenever a callback is made or native tokens are sent.

The exchange is put on a chain and kept there by scripts. Each script is a long
sequence of transactions that may stop after any of them and is then run again,
while keepers, the Timelock and other runs write the same storage.

| Component | State it keeps | Operations | Talks to | What is hard | What makes it correct |
|---|---|---|---|---|---|
| Vaults (`bank/`) | ERC20 balances, `tokenBalances` | `recordTransferIn`, `transferOut`, `syncTokenBalance` | every handler | records trail balances; anyone may send tokens; burns bypass `transferOut` | recorded balances cover all requests; a request gets out what it put in, once |
| Orders (`order/`, `exchange/OrderHandler`) | order store, position stamps | create, update, cancel, execute; freeze or cancel on errors | vault, oracle, swaps, positions, callbacks | fee paid in several places, frozen orders, block rules of 7 order types, error classification | no order stranded, no fee or collateral paid twice, no prices from before a position |
| Liquidation, ADL (`exchange/`, `adl/`, `liquidation/`) | ADL flags and blocks | create and execute an order in one transaction | orders, oracle, markets | outside create/execute protocol | the order does not survive the transaction; prices not before the position |
| Deposits (`deposit/`) | deposit store | create, cancel, execute, cancel on errors | vault, swaps, markets | fee carved out of one of two sides, which may be the same token; two swaps, two mints | exact refund; no free option on later prices; share price never falls |
| Withdrawals (`withdrawal/`) | withdrawal store | the same | vault, market token burns, swaps | burn without `transferOut`; two outputs, two swaps | the same |
| Reentrancy, callbacks (`utils/GlobalReentrancyGuard`, `callback/`, `oracle/OracleModule`) | two guards, prices of the transaction | modifiers around every entry point | everything | foreign code calls back; failures are caught; simulation sets prices before the guard is checked | one handler at a time; own prices only; nothing left behind |
| Oracle (`oracle/`) | primary prices, tokens with prices, signers | set, simulate, clear prices | handlers | block ranges, medians, signer sets, feeds | prices are those of the transaction, within their ranges |
| Swaps (`swap/`, `pricing/SwapPricingUtils`) | path flags; through markets: pools, impact pools | `swap`, `_swap` | markets, token transfers | tokens sent before they are booked; paths that end in the market itself | each token in one book; nothing lost on a path |
| Markets (`market/`) | pool, impact pools, open interest, borrowing and funding accumulators, claimable amounts, market token supply | deltas, valuations, claims, mint, burn | everything | rounding directions, halved pools of one-token markets, bounded decreases | books cover balances; share price |
| Positions (`position/`, `pricing/PositionPricingUtils`) | position store | increase, decrease, collateral waterfall | markets, swaps, fees, referrals | order of payment of fees, losses and impact; insolvent closes | open interest is the sum of positions; nobody is paid twice |
| Fees and referrals (`fee/`, `referral/`) | claimable fees, ui fees, affiliate rewards, fee batches | accrue, claim, batch, swap, distribute | markets | two counters for one claim | totals match claims |
| Execution fee (`gas/GasUtils`) | none | estimate, `payExecutionFee` | vaults, callbacks | refund of what the keeper did not need | fee leaves once |
| Routers (`router/`, `subaccount/`) | router guard, subaccount action counts | `multicall`, send, create, cancel, claim | handlers | transfers and creation are separate calls | action limits hold |
| DataStore, roles, features (`data/`, `role/`, `feature/`) | key-value storage, sets, roles | get, set, add, remove, grant, revoke | everything | enumerable sets and stores agree | the last admins stay |
| Configuration (`contracts/config/Config`, `config/`, `deploy/configure*`, `deploy/deployAndConfigureMarkets.ts`, `scripts/update*Config.ts`, `utils/keys.ts`, `utils/dataStore.ts`) | the settings in the DataStore, the files they come from | set up a network, update general and market settings | DataStore, Config, MarketFactory, Oracle, Reader | hundreds of transactions, kills, a validation with rules of its own, other keepers between read and write, two lists of the same settings | what is stored is what is configured; a market opens only when it can be priced, transferred and tracked; updates are accepted |
| Timelock and roles (`contracts/config/Timelock`, `scripts/updateRoles.ts`, `contracts/role/`) | members, pending actions, delay, price feed mode | signal, execute, cancel, revoke, increase the delay | RoleStore, DataStore, OracleStore | signals of several scripts and accounts in any order; lists carried out as a whole | nothing takes effect before its delay; a mistaken revocation can be taken back |
| Deployment (`deploy/`, `utils/deploy.ts`, `config/roles.ts`) | deployments with what they are linked with, roles and other facts | run, stop, run again, release | RoleStore, DataStore, every contract | the order follows from named dependencies only; linking by address; stops between a deployment and its grant | after a run nothing stands on an old contract and every role is there |
| Incentives (`scripts/incentives/batchSend.ts`) | tokens sent, allowance, record file | send a distribution batch by batch, record it | BatchSender | interrupted and overlapping runs, short last batch | everyone is paid, nobody twice |
| Migration (`migration/`) | migrated amounts | redeem into deposits | deposits | caps | caps hold |
| Readers, events, mocks, other scripts, `gov/` | none | views, logs, test doubles, library contracts | – | – | – |

`PROJECT.json` lists the same components with their sources and status, the
hazards of the code at the lines where they bite, and the properties that cover
each of them.

## 2. Modules and the code

    Precision      Totals        StrictBank
        |   \      /     \         /    \
        |   Positions    Requests      Escrow       HandlerCalls
    MarketLedger        /    |    \      ^
          OrderLifecycle  Deposit  Withdrawal   (each implements Escrow)

    MarketConfigs   DataStoreKeys
       |      \      /
    TokenConfigs  GeneralSettings
        \        /           \
      TokenSettings     MarketSettings - ConfigValidation
              \                |            DeployGraph
               +------ Configuration ---------+    \
                             |               Deployment   Timelock   Distribution
                             +--------- MCOperations --------+-----------+

| Module | Models | State and actions |
|---|---|---|
| `StrictBank` | `bank/StrictBank.sol` | A bank is a record: `balance` (what the ERC20 contract says) and `tokenBalances` (the contract's mapping). Operators for a stranger's transfer, `recordTransferIn` and `transferOut`, which also records whatever arrived unasked. |
| `Totals` | – | Sums as cardinalities, so that they can be proved about without recursion. |
| `Requests` | parts of `Oracle`, `OracleUtils`, `ExchangeUtils`, `GasUtils` that all requests use | Price reports as block ranges, the cancellation age, `payExecutionFee`. |
| `OrderLifecycle` | `OrderHandler`, `BaseOrderHandler`, `LiquidationHandler`, `AdlHandler`, `OrderUtils`, the block rules of the three order kinds | `orders` (the store), `nonce`, `vault`, `positions` (only their block stamps), `block`, `tx`. One action per handler; the execution's outcome is chosen among success and the errors that can reach `_handleOrderError`, which reverts, cancels or freezes as the code does. Liquidation and deleveraging are `CreateAndExecute`: the keeper's order is put in the store and `ExecutionSucceeds`, the same operator `ExecuteOrder` uses, runs on that store, so that the order is gone afterwards because executing removes it. |
| `DepositLifecycle`, `WithdrawalLifecycle` | handlers, utils and stores of both, with their vaults | the same shape; the fee carved out of one side; the burn followed by `syncTokenBalance`. |
| `Escrow` | what a vault promises | Abstract: keys are new, open or closed for good; each step concerns one key; no claim grows unless tokens were recorded and no recorded token leaves unless the claim falls by as much. |
| `HandlerCalls` | `GlobalReentrancyGuard`, `ReentrancyGuard` of the routers, `OracleModule`, `Oracle.setPrices/clearAllPrices`, the flags of `SwapUtils.swap`, callbacks and native transfers | A call stack whose frames keep the storage they found, restored by a revert. Foreign code may call every entry point and may catch what it called. |
| `Precision` | `utils/Precision.sol`, `utils/Calc.sol` as far as used | fixed-point operators with their rounding. |
| `MarketLedger` | `SwapUtils`, `SwapPricingUtils`, `ExecuteDepositUtils`, `ExecuteWithdrawalUtils`, the pool, fee and token parts of `MarketUtils`, `FeeUtils`, `MarketToken` | The books of each market (`poolAmount`, `swapImpactPool`, `claimableFee`, `claimableUiFee`, `uiFeeOf`), the ERC20 `balance` and `supply`; an execution is a transaction of several steps, so that claims by foreign code fall between a transfer and its booking. |
| `Positions` | `IncreasePositionUtils`, `DecreasePositionUtils`, `DecreasePositionCollateralUtils`, `DecreasePositionSwapUtils`, `PositionUtils`, `PositionPricingUtils`, `FeeUtils`, `ReferralUtils`, the position parts of `MarketUtils` and `PositionImpactPoolUtils`, `AdlUtils` | `positions`, `market` (every book of the DataStore for them), `balance`. One action per execution of an order (`Increase`, `Decrease`, liquidation, auto-deleveraging), because all of them change the books in one transaction without a callback in between, and one per claim. Every execution begins with the accrual of funding, borrowing and the distribution of the impact pool, and its steps follow the code's: sizes, price impact, fees, the payment of the costs from output, collateral and the other token's profit, limits. Histories: `funding` (paid and not claimed), `unpaid`, `stranded`, `uncovered`. |
| `MarketConfigs`, `TokenConfigs` | `config/markets.ts`, `config/tokens.ts`, `config/oracle.ts` | The configured data of each network under the source's names, defaults applied the way `Object.assign` and the spreads do. |
| `DataStoreKeys` | `utils/keys.ts` | A key is the tuple that is hashed. |
| `GeneralSettings`, `TokenSettings`, `MarketSettings` | `config/general.ts`, the configure scripts, `deployAndConfigureMarkets.ts`, the lists of `updateGeneralConfig.ts` and `updateMarketConfig.ts` | Sequences of `[type, key, value]` in the order of the transactions, and the other script's list of the same. |
| `ConfigValidation` | `validateMarketConfigsUtils.ts`, keys and ranges of `Config.sol` | The checks an update has to pass, on both sides. |
| `Configuration` | `utils/dataStore.ts`, the loops of the setup and update scripts | `store`, `created`, `setup`, `update`, `kills`, `drifted`. One action per transaction of the setup; an update is two actions, the read and the multicall; another keeper writes before, between and after. |
| `DeployGraph` | every script of `deploy/` outside `deploy/migrations/` | For each script what it gets, links, names as dependencies and does afterwards. |
| `Deployment` | `utils/deploy.ts`, the order and the rules of hardhat-deploy as the scripts use it (external) | `deployed`, `facts`, `run`, `sources`. `RunScript` sends one missing transaction, `StopRun` stops between two, `Release` changes a contract's source between runs. |
| `Timelock` | `Timelock.sol`, `RoleStore.sol`'s grants and revocations, `updateRoles.ts` | `pendingActions`, `timelockDelay`, `members`, `parameters`, `strict`, `now`; `receipts` are the transactions whose actions `updateRoles` can look up again; `signals` is the history of when each action was signalled and under which delay. |
| `Distribution` | `batchSend.ts` | The phases of a run of each of several operators: start, funds, approval, batches, record. |

`MCOperations` puts the four operational modules side by side. They share no
variable, so a behaviour picks one `job` and the others keep still: exploring
their product would show nothing new. `Configuration` takes the order of the
scripts from `DeployGraph`.

How a transaction is cut. In the lifecycle modules a transaction is one step up
to its callback and one step after it: `tx` holds the key and the fee in between.
Between them foreign code may move tokens; it cannot get a second handler to
run, which is what `HandlerCalls` shows (`OneHandlerAtATime`) and why every
handler action asks for `tx = NoTx`. In `MarketLedger` the steps are finer: one
for each transfer and one for the entry in the books that follows it. A state of
an execution without a next step stands for a transaction that reverts, which on
the chain leaves no trace; it is harmless to explore its beginning, and the
reason for `CHECK_DEADLOCK FALSE`. In the lifecycles the bounded counters end a
behaviour. `HandlerCalls` has no such states and is checked for deadlock.

What `credit`, `stray` and the fields of `tx` that no guard reads are for:
`credit` is a history of what came in for a key less what went out, `stray` of
what strangers sent; `tx.op`, `tx.keeper`, `tx.prices` and `tx.oracleBlocks` are
there for the properties.

Abstractions that matter:

- In the lifecycles prices are known by the block range of their report only. A
  price from a feed has no range, so the set of reports may be empty, and every
  check of `Array.sol` over it then passes, as in the code.
- In the lifecycles what an execution does in the market is success or an error.
  An error is there to decide what the handler does next, so one member stands
  for all that are treated alike.
- One nonce serves all handlers in the code (`NonceUtils`). Each lifecycle has its
  own here: the others' requests only make the shared one skip numbers.
- In `MarketLedger` the price impact is any number of a set of both signs, not the
  formula of `SwapPricingUtils`. A minimum output that is not met reverts and
  changes nothing, so it is left out; reserves and the pnl limits concern positions,
  and no position exists there.
- `MarketLedger` takes the markets empty or with a pool that was deposited without
  fees, at any ratio to the supply; its requests start where the vault sends the
  tokens off, and are not composed with the lifecycle modules.
- `MCMarketLedger` adds a variable `scope`: a behaviour has two executions in one
  market, or one execution along paths through three markets. It only restricts
  which requests are made.
- `Positions` has one market of two different tokens whose index is the long or
  another token; one ui fee receiver and one affiliate, whose books are kept as totals
  by token; and one time key for claimable collateral. What needs powers or long
  times, the price impact, the funding rate, the borrowing factor and the distribution
  of the impact pool, is given by a member of `Situations`, as are prices; caps,
  splits among positions and everything paid are computed. Swaps inside a decrease pay
  fees and have no price impact. A minimum output or an acceptable price that is not met
  reverts and changes nothing, and is left out; the request, its block rules and
  reentrancy are the subject of `OrderLifecycle` and `HandlerCalls`. `updateAdlState`
  only records a condition of the market for the keeper, so `AdlEnabled` evaluates it.
- A position of `Positions` whose size in tokens runs out before its size in dollars
  leaves open interest behind. The instance keeps `minPositionSizeUsd` above the price of
  a unit of the index token, as any real setting does; `SumsMatch` needs that for longs
  (`UnitsFine` in section 5).
- In the configuration modules a number is mantissa and decimals, and amounts no script
  compares are one value. An address is the symbol of its token or the first digits
  that tell it apart. The signers of the oracle and the keepers' addresses are data.
- In `DeployGraph` a script that configures writes once: `Configuration` has the detail.
- hardhat-deploy does not repeat a script with a `func.id` that has returned `true`. Only
  `fixVirtualInventoryForPositions`, `fixVirtualInventoryForSwaps` and
  `fixVirtualInventoryForSwaps2` have an id, and they write nothing on a network that is
  being deployed, so that `Deployment` repeats them.
- In `Timelock` the parameters are names with values; every setter has the shape of
  `SignalSet` and `SetAfterSignal`. The receivers and amounts in `Distribution` are
  numbers and 1.
- Numbers have no width: the code's arithmetic is checked and reverts.

Definitions whose comment begins with *Fault:* are not part of any specification.
Each is a plausible mistake in the definition below it (a guard that is dropped, a
reset that is forgotten, a rounding that goes the other way) with which the
property named beside it in `PROJECT.json` must be violated.

## 3. Runs, bounds and what they show

| Run | Checks | Instance |
|---|---|---|
| `orders` | `TypeOK`, `Solvent`, `CreditMatches`, `StoredOrderUsable`, `ImplementsEscrow` | one account, two keys, wnt and usd, a market increase, a limit swap and a limit decrease; two blocks, two reports; 265 054 states |
| `order_exit` | `OwnerGetsOut`, `PricesNotBeforePosition` under `FairSpec` | three keys, wnt only, a market increase, a limit increase and a limit decrease; two blocks, two reports; 145 556 states |
| `deposits` | `Solvent`, `CreditMatches`, `ImplementsEscrow`, `NoFreeOption`, `DepositorGetsOut` under `FairSpec` | two deposits, both tokens on either side, three blocks; 165 846 states |
| `withdrawals` | the same with `WithdrawerGetsOut` | up to three withdrawals of two markets; 58 765 states |
| `handler_calls` | `AtRest`, `OneHandlerAtATime`, `OwnPrices`, `OwnFlags` | three priced tokens, three markets, call depth 8; 380 states |
| `market_ledger` | `TypeOK`, `Accounted`, `UiFeesMatch`, `SharePriceNeverFalls` | two scopes: one market, empty or with a pool, two executions at either of two price sets, two ui fee receivers; or three markets, the third of one token, and one execution with paths of up to two markets; 1 086 000 states |
| `positions` | `TypeOK`, `TokensAccounted`, `SumsMatch`, `FundingCovered`, `ProfitsReserved` | a long and two shorts of two accounts, collateral in either token; three situations with prices of 2 to 9, funding of both signs, impact of both signs; five executions or claims; 214 301 states |
| `operations` | `ReadyBeforeOpen`, `ConfiguredAsWritten`, `UpdateAccepted`; `BuiltOnCurrent`, `RolesReady`, `RunNeverFails`; `RevocationRevertible`, `ChangedOnlyAfterDelay`; `EveryonePaid`, `NobodyPaidTwice` | seven networks configured with their own data, one kill each; three networks deployed to, one release of one of five contracts, one stop; three accounts and four roles under delays of 1 and 2; two distributions of three recipients in batches of two by two operators, one interruption; 611 000 states |
| `cancel_only_after_expiry`, `limit_prices_after_creation`, `simulation_sets_no_tokens` | the sentence of a document, expected to be violated | as `orders` and `handler_calls` |
| `swap_markets_can_return_tokens` | the sentence of a comment, expected to be violated | the setup of a network with a swap-only market |

The types of deposits and withdrawals are a conjunct of `Solvent`, those of handler
calls of `AtRest`.

What the properties say:

- `Solvent`: the vault's *recorded* balances cover the collateral and fees of all
  stored requests and of the transaction in progress, and true balances cover the
  records (so `recordTransferIn` never underflows).
- `CreditMatches`: what was recorded for a key less what left for it is exactly what
  it is still owed, and nothing once it is gone. Solvency alone would let one
  request be paid from a stranger's surplus.
- `ImplementsEscrow`: refinement of `Escrow`; each key opens and closes once and each
  step settles one key.
- `StoredOrderUsable`: no sequence of create, update and freeze stores an order that
  `validateNonEmptyOrder`, repeated by cancel, freeze and execute, would strand; and no
  order that a liquidation or deleveraging makes, which has no fee, outlives its transaction.
- `PricesNotBeforePosition`: no limit or stop-loss decrease is executed at a report that
  starts before the last increase of its position, and no liquidation at one that starts
  before its last increase or its last decrease.
- `NoFreeOption`: a deposit or withdrawal leaves the store only at prices of its own
  block, or by its account once it has expired. It rests on the order of the checks
  and on which errors revert the keeper.
- `OwnerGetsOut`, `DepositorGetsOut`, `WithdrawerGetsOut`: an account that keeps asking
  gets its request out of the store.
- `OneHandlerAtATime`, `OwnPrices`, `OwnFlags`, `AtRest`: see `HandlerCalls`; together
  they say that a transaction, with all that is caught inside it, leaves guards,
  prices and swap flags as it found them and never works with another call's.
- `Accounted`: at *every* step of an execution each token of a market is in exactly
  one book, on its way, booked next, or a stranger's gift. `UiFeesMatch`: the market's
  ui fee total is the sum of its receivers' claims.
- `SharePriceNeverFalls`: at the execution's prices no step makes a market token
  worth less to those who hold it. It excludes markets of one token, whose pool is
  halved and rounded down twice when valued, and markets without supply, whose
  first depositor gets what is left in them.
- `TokensAccounted`: every token in the market is in one book, through every order in
  which a decrease can pay its costs from its three sources. Two histories measure
  the exceptions the code has: `stranded`, the affiliate's reward of an insolvent
  close, taken off the fees and credited to nobody; and `uncovered`, fees credited in
  full although their rest rounds to nothing in the other token.
- `SumsMatch`: open interest, in dollars and in tokens, collateral and borrowing are the
  sums over the positions, whatever was closed, halved, liquidated or deleveraged.
- `FundingCovered`: what can be claimed of funding, now or after touching a position, is
  covered by what was paid, is owed, or was left `unpaid` by a liquidation. It rests on
  the rounding of the two divisions, up for who pays and down for who receives.
- `ProfitsReserved`: the pool holds the uncapped profits of all open positions of a side
  at every price of the instance, although the reserve is only checked when a
  position is opened and when a swap takes tokens out.
- `ReadyBeforeOpen`: whatever prefix of the setup has been sent, a market that can be
  deposited into has its virtual ids, and its tokens can be priced and transferred.
- `ConfiguredAsWritten`: a finished setup stored all it planned, kills included; no two
  markets write one key differently; an update script, which has a list of its own,
  writes the same. `UpdateAccepted`: what the scripts set up, they can also
  update, but for a read from the chain where a swap-only market has no borrowing factors.
- `BuiltOnCurrent`, `RolesReady`, `RunNeverFails`: after stops and releases a run leaves no
  contract linked with a library or built with an address that was replaced, and no
  contract without its role; on the Sei network no script runs before what it gets, also
  where it forgot to name it.
- `ChangedOnlyAfterDelay`, `RevocationRevertible`: signals, cancellations, executions and a
  growing delay in every order; no action is carried out early, twice or after it was
  cancelled; a revocation waits with its revert.
- `EveryonePaid`, `NobodyPaidTwice`: a recorded distribution reached everyone. A double
  payment needs a run that was asked to ignore the record, overlapped another one or ended
  half way: `excused` names exactly those runs, as nothing in the script detects them.

Why these bounds. Two keys are the least for one request to be paid from
another's tokens; wnt is made scarcer than the requests could use, so that
surplus, refunds and fees compete for the same units. With `ExpirationAge = 1` two or
three blocks hold a request before, at and after its age, and two reports are
the least that can disagree with each other. Withdrawals get a third key for a stale
record to meet a second burn, and `order_exit` for a position to be increased, decreased and
then liquidated at prices of before the decrease. Eight calls deep holds the deepest nesting the guards
leave (execution, attempt, swap, foreign code, a claim from it) with room
to spare; deeper calls are rejected by the guards and not by the bound.
In the ledger an amount of 8 with fees of 1/8 and 2/8 and prices of 1 to 3 makes
fees, swaps and mints round in some states; impacts of -1 and 3 fill the impact
pool and meet it when it is empty or too small and when it is not. Two executions are needed for
a fee or impact of one to be met by the next.
In `positions` two positions of opposite sides pay funding to each other and a third
shares one of its sides, so that both divisions round; the price may rise to more than
twice an entry price or fall to half of it, which makes shorts insolvent, lets them be
liquidated at once or with fees unpaid, and lets longs reach the limit for
auto-deleveraging; the smaller side pays no borrowing fee, as configured for every network but
the local one; five steps hold an increase of each position, a change and a
liquidation or a claim after it.
In `operations` one kill or stop is enough because the scripts keep no memory but the
chain: the run after the next finds only another prefix, and the theorems on `Configuration` and
`Deployment` hold for any number of them. One release is the least that
can leave something behind; the contracts that may change are a root of the graph, a
storage, a library deep in the links, a vault and a library of libraries. The clock
reaches 3, so an action can be signalled, run under a delay of 1 or 2, and be signalled
again. Two operators and two distributions are what it takes for one run's record to
overwrite another's.

Symmetry is not used: the runs are small, and liveness is checked in several.

## 4. Fairness

`FairSpec` of the lifecycle modules assumes

- strong fairness of the account's cancellations. The account may send its
  transaction again whenever it is rejected, and cancellation is enabled again and
  again rather than continuously, because other transactions come between.
- weak fairness of blocks, which the chain provides, and
- weak fairness of the last step of a transaction: the callback before it runs under
  a gas limit and its failure is caught, so the transaction ends.

Nothing is assumed of keepers: they may never execute, freeze at will or fail
for ever. The exits are stated for requests that can reach their expiry within the
explored blocks. The other modules have no fairness and no liveness properties: keepers
and operators are free never to act, and what must hold of a run when it ends is an
invariant.

## 5. Proofs

| Module | Proves about | Theorems |
|---|---|---|
| `Ledger_proofs` | `Totals`, `StrictBank`, `Requests` | lemmas on sums, banks and the execution fee |
| `OrderLifecycle_proofs` | `OrderLifecycle` | `OrdersTyped`, `OrdersSolvent`, `OrdersCreditMatch`, `OrdersUsable`, `OrdersPricesNotBeforePosition`, `OrdersImplementEscrow` |
| `DepositLifecycle_proofs` | `DepositLifecycle` | `DepositsImplementEscrow`, `DepositsSolvent`, `DepositsCreditMatch`, `DepositsNoFreeOption` |
| `WithdrawalLifecycle_proofs` | `WithdrawalLifecycle` | `WithdrawalsImplementEscrow`, `WithdrawalsSolvent`, `WithdrawalsCreditMatch`, `WithdrawalsNoFreeOption` |
| `Protocol_proofs` | `Escrow`, `HandlerCalls` | `EscrowType`, `EscrowBacked`, `CallsAtRest`, `CallsOneHandler`, `CallsOwnPrices`, `CallsOwnFlags` |
| `MarketLedger_proofs` | `MarketLedger` | `MarketsTyped`, `MarketsAccounted`, `UiFeeTotals`, `SharesKeepTheirWorth` |
| `Positions_proofs` | `Positions` | `PositionsInvariant`, `PositionsType`, `PositionsTokensAccounted`, `PositionsCovered`, `PositionsShortsExact`, `PositionsSumsMatch`, `PositionsFundingCovered`, `PositionsFundingPaid`, `PositionsReservesPay`, `PositionsOrdersReserved` |
| `Operations_proofs` | `Timelock`, `Distribution`, `Deployment`, `Configuration` | `TimelockInvariant`, `TimelockRevocationRevertible`, `TimelockChangedOnlyAfterDelay`, `DistributionEveryonePaid`, `DistributionPaysOnce`, `DeploymentBuiltOnCurrent`, `DeploymentRolesReady`, `DeploymentNeverFails`, `SetupKeepsWhatAgrees`, `MarketsOpenReady` |

Assumptions: `OrdersAssumption`, `DepositsAssumption` and `WithdrawalsAssumption` (types of
the constants; no size is bounded; WNT is one of the tokens of the vault, and it is no
market token), `AbsentAssumption` and its two namesakes (the absent values are not a
stored request and not a transaction); `CallsAssumption` (the stack holds one call at
least); `MarketsAssumption` (types, and prices that are positive and in order);
`PrecisionAssumption` (the precisions are positive); `TimelockAssumption` (types, an initial
delay within the maximum); `DistributionAssumption` (a batch is not empty);
`PositionsAssumption` (types, prices in order, which `Oracle.sol:497` and 674 demand, a holding address that is no account; rebates and discounts
are at most everything, which `mock/ReferralStorage.sol:74`, 75 and 95 demand, and so is the
receiver's share of a swap fee, `Config.sol:370`); `OrderAssumption` and `SeiAssumption`, which
speak of the scripts of `deploy/` and not of a constant: what their order puts before what.
TLC evaluates them in the runs of those modules.

`Ledger_proofs` has the lemmas on sums and banks. `TotalUpdate` says what an update
of one argument does to a sum, by counting the units it is made of, `TotalPlus`,
`TotalParts` and `TotalTimes` what the sum of sums, of parts and of multiples is; `TotalCovered`
what that means for a sum that must stay covered; `TransferOutBook` and its
neighbours give types and effects of the bank's operators; `PayFeeType` those of the
payment of an execution fee to keeper and receiver.

The three lifecycles. `IInv == TypeOK /\ VaultCovered /\ KeysIssued` is the inductive
invariant of each. `TypeOK` alone is not inductive: an amount recorded is
`balance - tokenBalances`, a natural number only because true balances cover the
records (`VaultCovered`); and a key handed out could belong to a request already stored,
or to the pending transaction, were it not that both lie at or below the nonce
(`KeysIssued`), without which `Open` of `Escrow` would not be what a creation does.
`NextInv` proves that it is kept, one lemma per action. On it rest:

| Theorem | Says | Argument |
|---|---|---|
| `...ImplementEscrow` | `Spec => ImplementsEscrow` | every action opens, adjusts or closes one key, or is a stutter of the escrow |
| `...Solvent` | `Spec => []Solvent` | every step settles one key: the recorded balances move at least as far as what the key is owed (`Settles`), then `TotalCovered` |
| `...CreditMatch` | `Spec => []CreditMatches` | the same steps: what a key is credited with moves exactly as far |
| `OrdersUsable`, `OrdersPricesNotBeforePosition`, `...NoFreeOption` | `Spec => []StoredOrderUsable`, `Spec => PricesNotBeforePosition`, `Spec => NoFreeOption` | one step per action, from its guards and the types; for a liquidation or deleveraging `CreateAndExecuteLeaves`, which derives from `KeysIssued` that storing and executing under a fresh key leaves the store as it was |

The fee carved out of one side of a deposit makes its creation the hardest
step: long token, short token and WNT may be one token, recorded in up to three calls.
The proof follows the difference of the records token by token and shows that it is the
claim of the new key. A withdrawal burns what the vault holds before it is closed;
`BurnType` shows the burn and the `syncTokenBalance` after it to be a `TransferOut`, because
WNT is not a market token.

`Protocol_proofs`. `EscrowBacked` proves `EscrowSpec => []Backed` for every finite set of
keys, that is, whatever implements the escrow is solvent; `EscrowType` gives types and
that only open keys have claims.

The four theorems about calls rest on `CallsInv`. None of `AtRest`, `OneHandlerAtATime`,
`OwnPrices` and `OwnFlags` is inductive, because a call that reverts puts back a copy of the
storage: `SavedFit` demands of the copy in each frame what `Fits` demands of the storage
now, for the frames below it. `Fits` ties the two guards to the frames that hold them,
each price to the depth of a running frame that brings prices, and the flags to a
running swap. `OneRouter` and `OneHandlerAtATime` make the release of a guard right: no
other frame holds it. `AttemptsInside` says that below an attempt lies the execution or the
simulation whose outcome it decides. `Pushed` and `Popped` reduce each action to
whether the new storage fits; `FitsCall`, `FitsPriced` and `FitsReturn` answer that.
The checks of `BeginSimulation` do not include that no prices are set; the proof shows why
none can be: without a held guard there is no frame that could have left one.

`MarketLedger_proofs`:

| Theorem | Says | Rests on |
|---|---|---|
| `MarketsTyped` | `Spec => []TypeOK` | `IInv`; `FeesSplit`, `ImpactTypes`, `PoolValueType` and their like, which bound every division and difference |
| `MarketsAccounted` | `Spec => []Accounted` | `IInv`, one lemma per action, `AccountedStep` |
| `UiFeeTotals` | `Spec => []UiFeesMatch` | `IInv`, `TotalUpdate` |
| `SharesKeepTheirWorth` | `Spec => SharePriceNeverFalls` | `IInv`; `BurnWorth`, `ExchangeWorth`, `MintWorth` |

The inductive invariant is `IInv == TypeOK /\ UiFeesMatch /\ Accounted /\ Shape`.
`TypeOK` is not inductive without `UiFeesMatch`: a claim subtracts one receiver's
fees from the market's total, which stays a natural number only because the
total is their sum. `Accounted` is not without `Shape`, what the kinds of
transaction have in common with their two legs: a mint books what a leg carries
into `tx.market` and drops the leg, so its tokens must be there already; and the
end of a swap or a withdrawal drops both legs, so theirs must have left every
market. For a step, `AccountedStep` leaves one equation to prove for each market
and token: the balance changes by the sum of what the books, the legs and the
booking change by. `FeesSplit` closes it for fees: what `SwapFees` takes and
what it leaves make up the amount, whatever the factors, or the step reverts.

`SharePriceNeverFalls` relates products of values and supplies, none of which the prover
can compute with as they stand: each of its three lemmas is about naturals with names. A
withdrawal pays two quotients of a quotient, at prices the value is divided by first, and
`SharesAtMost` bounds them by the part of the *lower* value its shares stand for
(`BurnWorth`); a swap books no more value than it takes (`ExchangeWorth`), because
`AmountOut` divides by the upper price of what goes out after multiplying with the lower
of what comes in; a deposit mints for what has been rounded down twice (`MintWorth`).
The booking is a step of its own, after the hop that priced it, with foreign code in between,
so its fairness must survive until then: that is the conjunct `BookingFair` of `Shape`.

`Positions_proofs`. The contracts never recompute an aggregate from the positions: they add
and subtract deltas, so an aggregate that is once wrong stays wrong, and one that is too
small stops every close, because checked arithmetic reverts. The inductive invariant is
`PositionsInv == TypeOK /\ BooksCover /\ PositionsBehind /\ ClaimsMatch /\ TokensAccounted`.

| Theorem | Says | Rests on |
|---|---|---|
| `PositionsInvariant` | `Spec => []PositionsInv` | one lemma per action |
| `PositionsType`, `PositionsTokensAccounted` | `Spec => []TypeOK`, `Spec => []TokensAccounted` | its conjuncts |
| `PositionsCovered` | `Spec => [](BooksCover /\ ClaimsMatch)`: open interest in tokens, collateral and claimable collateral are exactly the sums, open interest in usd and borrowing are no less | its conjuncts |
| `PositionsFundingCovered` | `Spec /\ []SumsMatch => []FundingCovered` | `PositionsInv`, `FundingFits` |
| `PositionsShortsExact` | `Spec => []ExactOn(positions, market, FALSE)` | `PositionsInv`, `SettledKeepsExact` |
| `PositionsSumsMatch` | `Spec /\ []UnitsFine => []SumsMatch` | the same for both sides |
| `PositionsFundingPaid` | `Spec /\ []UnitsFine => []FundingCovered` | the two theorems on sums and funding |
| `PositionsReservesPay` | `Spec => [](validateReserve => Payable)` for each side and price, and so `ReservesHold => ProfitsReserved` | `PositionsCovered`, `NeedsReserved`, `ProfitNeeded` |
| `PositionsOrdersReserved` | `Spec => [][GrowsPosition \/ SwapsOutput => Payable']_vars` | `PositionsReservesPay`'s lemmas, `GrowthChecked`, `SwapChecked` |

- `TypeOK` is not inductive without `BooksCover`: a position is subtracted from aggregates
  of naturals.
- Nor without `PositionsBehind`: what a position owes is a size times the difference
  between the market's cumulative factor and its own, and the tokens of a partial decrease
  are divided by the size. Factors only grow (`AccruedType`), and a position that is
  stored is at the latest ones (`UpToDate`).
- Nor without `ClaimsMatch`: a claim is subtracted from a total over owners.
- `TokensAccounted` follows a decrease through its steps. `CostsPaidSplit`: the payments
  take from output, collateral and the other token's output exactly what they report.
  `PositionFeesSplit`: a fee is what pool, receiver, ui and affiliate get of it, which
  needs the bounds on rebates and discounts. `TakeProfitBooks` and `MarketSwapBooks`: what
  the pool gives up is the output. `ProcessCollateralBooks`: what leaves the purse is in a
  book, paid out, or recorded in `funding`, `stranded` or `uncovered`.
  `SettledKeepsBooks`: a position enters the aggregates as it left them but for what the
  order changed, by `TotalUpdate`.

`FundingCovered` is not inductive: every claim in it is rounded down by itself, so fractions
that a state does not count add up to tokens in the next one. The invariant is `FundingFits`, the same sums before they are divided by `PerSize`,
and it is kept for two reasons. When the market is brought up to date, a unit of the
receiving side's size gets a quotient rounded down and a unit of the paying side's owes one
rounded up, so that over the two sides' open interests no more is credited than charged
(`RoundedAgainstPayers`, `FundingBalanced`); and the positions' sizes are those open
interests, so the sum of what positions get grows by no more than that of what they owe
(`FitsGrown`, by `TotalPlus` and `TotalTimes`). When a position is settled, what it got
is rounded down into its account's claims and what it owed is rounded up and either paid or
left unpaid (`SettledRounds`, `FitsSettled`); a claim takes from both sides alike
(`FitsClaimed`). `FitsCovers` goes back to the rounded amounts, which favour the market
twice. The hypothesis `[]SumsMatch` is used for one thing, the open interest in usd
(`InterestExact`): payers are charged per unit of an open interest, so if it held size that
no position has, that part of the fee would be credited and never charged.

`SumsMatch` asks for equality in usd and borrowing too. For shorts that is a theorem
without a condition. For longs it is not one for every constant: a partial decrease rounds
the tokens it closes up and can take the last one while size in usd is left; the position is
then removed (`DecreasePositionUtils.sol:262`), and only the size of the order leaves the open
interest (`DecreasePositionUtils.sol:290`). `UnitsFine` says that no long's size comes to more
than `minPositionSizeUsd` for each unit of its index token. Less than one unit's worth is left
when the last token goes; `UnitsFine` makes that less than the smallest position, and such a
decrease closes all of the position or reverts. A unit of an index token is
the smallest fraction its contract knows, worth far below a cent, and the smallest position
is a dollar. TLC finds `UnitsFine` in every state of the instance.

`ProfitsReserved` is what `MarketUtils.validateReserve` is for, and the two theorems say what
the check achieves. The aggregates bound the positions (`PositionsCovered`): a long's profit is
at most what its tokens are worth, a short's at most its size, and the reserve is the sum
(`NeedsReserved`); dividing each profit by the price of the token it is paid in, down, leaves
all of them together in the pool (`ReservePays`, by `TotalTimes`). They assume a reserve factor
of at most 1, which `Config.sol:377` does not ask for and every network's configuration keeps.
`PositionsOrdersReserved` says it of the state after the orders that are checked
(`IncreasePositionUtils` ends with the check, and so does a swap out of the pool).

`Operations_proofs`:

| Theorem | Says | Rests on |
|---|---|---|
| `TimelockInvariant` | `TimelockSpec => []TimelockInv` | one lemma per kind of action |
| `TimelockChangedOnlyAfterDelay` | `TimelockSpec => ChangedOnlyAfterDelay` | `TimelockInv` |
| `TimelockRevocationRevertible` | `TimelockSpec => []RevocationRevertible` | a conjunct of `TimelockInv` |
| `DistributionEveryonePaid` | `DistributionSpec => []EveryonePaid` | `EveryonePaidInv` |
| `DistributionPaysOnce` | `DistributionSpec => []NobodyPaidTwice` | `PaidOnceInv` |
| `DeploymentBuiltOnCurrent`, `DeploymentRolesReady` | `DeploySpec => []BuiltOnCurrent`, `DeploySpec => []RolesReady` | `DeployInv`, `OrderAssumption` |
| `DeploymentNeverFails` | `DeploySpec => []RunNeverFails` | a conjunct of `DeployInv`; `ReachedCanRun`, `SeiAssumption` |
| `SetupKeepsWhatAgrees` | `ConfigSpec => []ConfiguredAsWritten`, if `ListsAgree` | `ConfigInv` |
| `MarketsOpenReady` | `ConfigSpec => []ReadyBeforeOpen`, if `ListsAgree` and `ReadyInOrder` | `OpenInv` |

`ChangedOnlyAfterDelay` speaks of the history `signals`, the guards of the code of
`pendingActions`. `TimelockInv` joins them: what is pending has its signal open and falls
due at the signal's time plus the delay *of then* (`PendingIsOpenSignal`), which a later
increase of the delay does not change. `SignalsInThePast` is what makes a grant that is
signalled again later as recent as the revocation still pending (`RevocationRevertible`).
`KindsDiffer`, that no two kinds of action share a key, keeps an execution of one from
closing another.

`EveryonePaid` needs that the copies of the record that runs still hold are as good as
the record, for they are written back, and that a run has reached everyone before its
next batch (`BatchesReached`). `NobodyPaidTwice` needs more: runs that write at the same
time are both excused (`OverlapsExcused`), so what one of them read differs from the
record only by excused distributions (`ReadIsRecord`) although each overwrites the file;
a run that is not excused has paid nobody from its next batch on (`OwnRunAhead`); and a
distribution neither recorded nor being sent has paid nobody (`UntouchedUnpaid`), so a
run that starts, starts from nothing.

A run of the deployment looks at each script once, in order, and never back. `DeployInv` says
that it need not: while a run is at a script, every script before it is complete
(`NothingMissing`). A deployment could take that away, because a contract that is
replaced makes stale what is linked with it and undoes what was done in it or for it;
`DeployKeepsComplete` shows that all this comes later in the order, which is
`OrderAssumption`. A transaction takes nothing away (`FactsKeepComplete`), and a stop, a failure
or a release ends the run and with it the promise. On the Sei networks `SeiAssumption` says of the first
run that the order serves every script what it gets and every transaction its roles;
`ReachedCanRun` carries that over to every later run, with whatever earlier ones left.
A script out of its place makes an assumption false: without `runAtTheEnd` the
`Reader` would not be there for `deployAndConfigureMarkets`.

A setup of the markets writes hundreds of settings, one transaction each, and remembers
nothing but the chain. `ConfigInv` says that everything behind its position is kept, which
means stored as its list says or noted as changed by a keeper. A later setting of the setup,
or one of an update script, could take that away, for the two have lists of their own:
`WriteKeepsKept` needs them to agree on every key both write (`ListsAgree`). Where they do,
no kill, restart or update undoes a setting, in whatever order the transactions come.
`OpenInv` adds what keeps a market closed. When its pool limit is in the store, so
is all that comes before the limit in the list (`PoolsLast`), although the limit can
come from another run of the setup, from the market update or from a keeper: the update waits
until the setup is done, because a setup that failed has a market left to create
(`UpdateWaits`), and nothing else than the listed keys is ever stored (`WritesListed`), so
no feed appears whose multiplier is not written before it is needed. `ReadyInOrder` then says of the list that
the settings a market needs come before its limit. `ListsAgree` and `ReadyInOrder` speak of constant
data, and TLC evaluates both to TRUE for each of the seven networks of `MCOperations.cfg`. They
are hypotheses of the theorems and no assumptions of the module, so that an error in a list shows in
the run as a violation of the property it breaks.

Out of the prover's reach and left to TLC: liveness under fairness and `ENABLED`;
induction over data (what a recursive definition computes for every input), which is
why sums are cardinalities; and modules with `RECURSIVE` operators, of which there
are none.

## 6. Where documents and code disagree

Each run checks the sentence as a property and TLC finds it violated.

- `CancelOnlyAfterExpiry`: README.md:763 says order requests cannot be cancelled
  for a number of blocks; `OrderHandler.cancelOrder` asks that of market orders only.
- `LimitPricesAfterCreation`: README.md:175 says a limit order created at block n
  is executed with prices after n; the code accepts those of block n itself.
- `SimulationSetsNoTokens`: a comment at `oracle/OracleModule.sol:38` says a
  simulation does not set `tokensWithPrices`; `_setPrimaryPrice` does. Nothing lasts,
  since a simulation always reverts.
- `SwapMarketsCanReturnTokens`: a comment at `deploy/deployAndConfigureMarkets.ts:211` says
  the settings after it are not used for swap-only markets, and the script goes on with
  the next market. The gas limit for transfers of the market token, written at line 309, is
  used: `TokenUtils.sol:57` rejects a transfer without it, so a withdrawal from such a market
  cannot be cancelled until `updateMarketConfig`, which writes the limit for every
  market (`scripts/updateMarketConfig.ts:89`), has run.

## 7. What is only checked, and what is not modelled

Model-checked and not proved: every liveness property; `SumsMatch` without `UnitsFine`, which
does not hold for every constant (section 5); `ProfitsReserved` between two checks of the
reserve: prices move, other orders are not checked, and a positive price impact is paid out of
the pool although the reserve does not count the impact pool, so that it is a property of the
instance's prices and settings; and `UpdateAccepted` of `Configuration`, which compares the values the
networks' files hold with the checks of the update: for it the run is not a small instance but the
whole configuration, and a proof would assume of the data what it is there to find out. Of
`ReadyBeforeOpen` and `ConfiguredAsWritten` the behaviour is proved (section 5); that the seven networks'
lists are as the theorems ask is an evaluation of TLC's.

Not modelled, though state of the system depends on it:

- the formulas of price impact, funding rate and borrowing factor, which raise to
  fractional powers (`Situations` and `Impacts` stand for what they can return), and the
  virtual inventories that enter the price impact;
- the oracle's signers, compacted medians and feed heartbeats: prices are given;
- the fee batches of `FeeHandler` and `FeeDistributor` and the tiers of the referral storage;
- DataStore's enumerable sets and deltas, and feature flags;
- `setClaimableCollateralFactor` and the other calls of `Config` no script makes;
- subaccounts: the router counts an action and makes the exchange router's call;
- migration: one deposit with what an outside contract redeems;
- `MarketLedger`, `Positions` and the lifecycles are not composed: each sees the same
  execution at another grain.

Left out for good: gas estimates (any call may run out of gas instead), `gov/`
(configuration of library contracts), readers, events and mocks, which change no state,
`deploy/migrations/`, which runs on old test networks only, and scripts that only print.

## 8. Plan

Order: the escrow of requests first, because it holds everybody's tokens between
two transactions; then what an execution may be interleaved with; then the
markets' books; then positions and prices; then administration.

| Step | Module | Content | Properties and theorems | State |
|---|---|---|---|---|
| 1 | `OrderLifecycle`, `Escrow` | orders, vault, refinement | see above, proved | done |
| 2 | `DepositLifecycle`, `WithdrawalLifecycle` | as above | checked and proved | done |
| 3 | `HandlerCalls` | reentrancy | checked and proved | done |
| 4 | `MarketLedger`, `Precision` | books of swaps, deposits, withdrawals, claims | checked and proved | done |
| 5 | `Positions` | increases, decreases, liquidations, auto-deleveraging, claims; open interest, collateral, funding, borrowing, impact pool | checked; proved, `SumsMatch` and `FundingCovered` given `UnitsFine`, `ProfitsReserved` where the reserve is checked | done |
| 6 | `DataStoreKeys` to `Configuration` | the networks' settings, setup and updates | checked; proved, but for `UpdateAccepted`, where the lists agree and are in order | done |
| 7 | `DeployGraph`, `Deployment` | deployment, stops, releases | checked and proved | done |
| 8 | `Timelock` | signal, delay, execute; `updateRoles` | checked and proved | done |
| 9 | `Distribution` | incentives | checked and proved | done |
| 10 | `OraclePrices` | signer sets, ranges, ages, compacted medians, feeds | a stored price lies between honest reports; ranges are those checked | planned |
| 11 | `PriceImpact`, `DataSets`, `Subaccounts`, `FeeBatches`, `Migration` | formulas with integer exponents; sets beside stores; action counts; batches; caps | each against a small reference definition | planned |
| 12 | `Exchange` | requests of all kinds over one nonce, one guard and one market | composed solvency of vaults and markets | planned |

Pure algorithms with recursion stay with TLC and are compared with reference definitions
over bounded inputs.
