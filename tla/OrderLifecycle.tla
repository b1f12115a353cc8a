--------------------------- MODULE OrderLifecycle ---------------------------
(***************************************************************************)
(* The life of an order: OrderHandler, OrderUtils, LiquidationHandler    *)
(* and AdlHandler over the OrderVault, the order store and the oracle       *)
(* block numbers.                                                           *)
(*                                                                         *)
(* A transaction is one step, except that executing, cancelling, freezing,  *)
(* liquidating and deleveraging call the order's callback contract after    *)
(* the store and the vault have changed and before the execution fee is     *)
(* paid.  `tx` holds such a transaction half way.  While it is pending      *)
(* foreign code runs: it may move tokens, but the handlers'                 *)
(* globalNonReentrant rejects its calls (module HandlerCalls), which is why *)
(* every handler action asks for NoTx.                                      *)
(*                                                                         *)
(* Prices, swaps and sizes are abstracted to whether processing the order   *)
(* succeeds and, if it fails, to the error it fails with.                   *)
(***************************************************************************)
EXTENDS Requests

CONSTANTS Accounts, Tokens, WNT,
          OrderKeepers, FrozenOrderKeepers, LiquidationKeeper, AdlKeeper,
          OrderTypes,       \* the order types accounts create
          MinExecutionFee,  \* the least fee validateExecutionFee accepts
          ExpirationAge,    \* REQUEST_EXPIRATION_BLOCK_AGE
          MaxNonce, MaxBlock, MaxAmount, MaxReports, Supply, \* bounds
          NoOrder, NoTx

MarketOrders   == {"MarketSwap", "MarketIncrease", "MarketDecrease"}
SwapOrders     == {"MarketSwap", "LimitSwap"}
IncreaseOrders == {"MarketIncrease", "LimitIncrease"}
DecreaseOrders ==
  {"MarketDecrease", "LimitDecrease", "StopLossDecrease", "Liquidation"}
CreatableOrders ==
  SwapOrders \cup IncreaseOrders \cup (DecreaseOrders \ {"Liquidation"})

ASSUME OrdersAssumption ==
  /\ WNT \in Tokens
  /\ OrderTypes \subseteq CreatableOrders
  /\ MinExecutionFee \in Nat /\ ExpirationAge \in Nat
  /\ MaxNonce \in Nat /\ MaxBlock \in Nat \ {0} /\ MaxAmount \in Nat
  /\ MaxReports \in Nat
  /\ Supply \in [Tokens -> Nat]

Keys    == 1..MaxNonce
Blocks  == 0..MaxBlock
Amounts == 0..MaxAmount

Prices == ReportSets(Blocks \ {0}, MaxReports)

Order == [account : Accounts, orderType : CreatableOrders \cup {"Liquidation"},
          initialCollateralToken : Tokens, sizeDeltaUsd : {0, 1},
          initialCollateralDeltaAmount : Nat, executionFee : Nat,
          updatedAtBlock : Blocks, isFrozen : BOOLEAN]

(* A position is known here by the blocks of its last changes; all zero is  *)
(* the empty position, which removal from the store leaves.                 *)
Position   == [increasedAtBlock : Blocks, decreasedAtBlock : Blocks]
NoPosition == [increasedAtBlock |-> 0, decreasedAtBlock |-> 0]

(* A transaction that has called back but not yet paid: the key it handles, *)
(* what it did, the execution fee it still has to pay, the keeper it pays   *)
(* (the account itself when an account cancels) and, when it executed, the  *)
(* block each price report it used starts at.                               *)
Transaction == [key : Keys, op : {"execute", "cancel", "freeze", "liquidate", "adl"},
                executionFee : Nat,
                keeper : Accounts \cup OrderKeepers \cup {LiquidationKeeper, AdlKeeper},
                oracleBlocks : SUBSET Blocks]

ASSUME AbsentAssumption == NoOrder \notin Order /\ NoTx \notin Transaction

VARIABLES orders,    \* OrderStoreUtils: the stored order of each key
          nonce,     \* NonceUtils: the last key handed out
          vault,     \* the OrderVault
          positions, \* PositionStoreUtils, one position for each account
          block,     \* Chain.currentBlockNumber
          tx,        \* the pending transaction, NoTx when NOT_ENTERED
          credit     \* history: what came in for a key less what went out

vars == <<orders, nonce, vault, positions, block, tx, credit>>

isMarketOrder(o)   == o.orderType \in MarketOrders
isSwapOrder(o)     == o.orderType \in SwapOrders
isIncreaseOrder(o) == o.orderType \in IncreaseOrders
isDecreaseOrder(o) == o.orderType \in DecreaseOrders

(* Orders whose collateral waits in the vault; a decrease order names an    *)
(* amount of the position's collateral instead.                             *)
EscrowsCollateral(type) == type \in SwapOrders \cup IncreaseOrders

NonEmpty(size, amount) == size # 0 \/ amount # 0

Stored(k) == orders[k] # NoOrder

(* What the vault owes for a stored order, and for the pending transaction. *)
Owed(k, t) ==
  IF ~Stored(k) THEN 0
  ELSE (IF EscrowsCollateral(orders[k].orderType) /\ orders[k].initialCollateralToken = t
          THEN orders[k].initialCollateralDeltaAmount ELSE 0)
       + (IF t = WNT THEN orders[k].executionFee ELSE 0)

InFlight(k, t) ==
  IF tx = NoTx THEN 0
  ELSE IF tx.key = k /\ t = WNT THEN tx.executionFee ELSE 0

Init ==
  /\ orders = [k \in Keys |-> NoOrder]
  /\ nonce = 0
  /\ vault = EmptyBank(Tokens)
  /\ positions = [a \in Accounts |-> NoPosition]
  /\ block = 1
  /\ tx = NoTx
  /\ credit = [k \in Keys |-> [t \in Tokens |-> 0]]

-----------------------------------------------------------------------------
(* Anybody may transfer tokens to the vault at any time: ExchangeRouter's   *)
(* sendTokens and sendWnt, a plain ERC20 transfer, or a callback contract.  *)
Transfer(t, n) ==
  /\ n > 0 /\ vault.balance[t] + n <= Supply[t]
  /\ vault' = TransferIn(vault, t, n)
  /\ UNCHANGED <<orders, nonce, positions, block, tx, credit>>

NextBlock ==
  /\ tx = NoTx /\ block < MaxBlock
  /\ block' = block + 1
  /\ UNCHANGED <<orders, nonce, vault, positions, tx, credit>>

-----------------------------------------------------------------------------
(* createOrder.  The collateral transfer is recorded first; when it is in   *)
(* wnt the execution fee is carved out of it, otherwise all the wnt that    *)
(* arrived becomes the execution fee.                                       *)
CreateOrder(a, type, token, size, amountParam, feeParam) ==
  LET escrows   == EscrowsCollateral(type)
      shared    == escrows /\ token = WNT
      received  == Received(vault, token)
      collected == IF escrows THEN RecordTransferIn(vault, token) ELSE vault
      fee       == IF shared THEN feeParam ELSE Received(collected, WNT)
      amount    == IF ~escrows THEN amountParam
                   ELSE IF shared THEN received - feeParam ELSE received
      key       == nonce + 1
  IN  /\ tx = NoTx /\ nonce < MaxNonce
      /\ shared => received >= feeParam
      /\ fee >= feeParam /\ fee >= MinExecutionFee
      /\ NonEmpty(size, amount)
      /\ nonce' = key
      /\ vault' = IF shared THEN collected ELSE RecordTransferIn(collected, WNT)
      /\ orders' = [orders EXCEPT ![key] =
           [account |-> a, orderType |-> type, initialCollateralToken |-> token,
            sizeDeltaUsd |-> size, initialCollateralDeltaAmount |-> amount,
            executionFee |-> fee, updatedAtBlock |-> block, isFrozen |-> FALSE]]
      /\ credit' = [credit EXCEPT ![key] =
           [t \in Tokens |-> Recorded(vault', t) - Recorded(vault, t)]]
      /\ UNCHANGED <<positions, block, tx>>

(* Fault: the updated order is stored without validateNonEmptyOrder.        *)
UpdateUnvalidated(k, size) ==
  /\ tx = NoTx /\ Stored(k)
  /\ ~isMarketOrder(orders[k])
  /\ orders[k].executionFee + Received(vault, WNT) >= MinExecutionFee
  /\ vault' = RecordTransferIn(vault, WNT)
  /\ orders' = [orders EXCEPT ![k] =
       [@ EXCEPT !.sizeDeltaUsd = size, !.executionFee = @ + Received(vault, WNT),
                 !.isFrozen = FALSE, !.updatedAtBlock = block]]
  /\ credit' = [credit EXCEPT ![k][WNT] = @ + Received(vault, WNT)]
  /\ UNCHANGED <<nonce, positions, block, tx>>

(* updateOrder: the owner changes the size and the prices, tops the fee up  *)
(* with the wnt that arrived, and thaws the order.                          *)
UpdateOrder(k, size) ==
  LET topUp == Received(vault, WNT)
      fee   == orders[k].executionFee + topUp
  IN  /\ tx = NoTx /\ Stored(k)
      /\ ~isMarketOrder(orders[k])
      /\ fee >= MinExecutionFee
      /\ NonEmpty(size, orders[k].initialCollateralDeltaAmount)
      /\ vault' = RecordTransferIn(vault, WNT)
      /\ orders' = [orders EXCEPT ![k] =
           [@ EXCEPT !.sizeDeltaUsd = size, !.executionFee = fee,
                     !.isFrozen = FALSE, !.updatedAtBlock = block]]
      /\ credit' = [credit EXCEPT ![k][WNT] = @ + topUp]
      /\ UNCHANGED <<nonce, positions, block, tx>>

-----------------------------------------------------------------------------
(* Fault: an order that the same transaction stored is not found and stays. *)
RemoveFound(store, k) ==
  orders' = IF Stored(k) THEN [store EXCEPT ![k] = NoOrder] ELSE store

(* OrderStoreUtils.remove, from the store as the transaction has it.        *)
RemoveOrder(store, k) == orders' = [store EXCEPT ![k] = NoOrder]

(* Fault: the order is refunded but stays in the store.                     *)
RefundOnly(k, keeper) ==
  /\ tx' = [key |-> k, op |-> "cancel", executionFee |-> orders[k].executionFee,
            keeper |-> keeper, oracleBlocks |-> {}]
  /\ CanTransferOut(vault, orders[k].initialCollateralToken, Owed(k, orders[k].initialCollateralToken))
  /\ vault' = TransferOut(vault, orders[k].initialCollateralToken, Owed(k, orders[k].initialCollateralToken))
  /\ UNCHANGED <<orders, nonce, positions, block, credit>>

(* OrderVault.transferOut of the collateral of o under its key k, to the    *)
(* account when it is cancelled and to the markets when it is executed.     *)
CollateralLeaves(k, o) ==
  LET amount == o.initialCollateralDeltaAmount
      token  == o.initialCollateralToken
  IN  IF EscrowsCollateral(o.orderType) /\ amount > 0
        THEN /\ CanTransferOut(vault, token, amount)
             /\ vault' = TransferOut(vault, token, amount)
             /\ credit' = [credit EXCEPT ![k][token] = @ - amount]
        ELSE UNCHANGED <<vault, credit>>

(* OrderUtils.cancelOrder up to the callback: the order leaves the store    *)
(* and its collateral goes back to the account.                             *)
RemoveAndRefund(k, keeper) ==
  /\ NonEmpty(orders[k].sizeDeltaUsd, orders[k].initialCollateralDeltaAmount)
  /\ RemoveOrder(orders, k)
  /\ tx' = [key |-> k, op |-> "cancel", executionFee |-> orders[k].executionFee,
            keeper |-> keeper, oracleBlocks |-> {}]
  /\ CollateralLeaves(k, orders[k])
  /\ UNCHANGED <<nonce, positions, block>>

(* OrderHandler.cancelOrder: the owner cancels, a market order only once    *)
(* it has expired.                                                          *)
CancelOrder(k) ==
  /\ tx = NoTx /\ Stored(k)
  /\ isMarketOrder(orders[k]) =>
       Expired(orders[k].updatedAtBlock, block, ExpirationAge)
  /\ RemoveAndRefund(k, orders[k].account)

(* Fault: the frozen order keeps the execution fee that is about to be paid.*)
FreezeKeepsFee(k, keeper) ==
  /\ ~orders[k].isFrozen
  /\ orders' = [orders EXCEPT ![k].isFrozen = TRUE]
  /\ tx' = [key |-> k, op |-> "freeze", executionFee |-> orders[k].executionFee,
            keeper |-> keeper, oracleBlocks |-> {}]
  /\ UNCHANGED <<nonce, vault, positions, block, credit>>

(* OrderUtils.freezeOrder up to the callback.                               *)
FreezeOrder(k, keeper) ==
  /\ NonEmpty(orders[k].sizeDeltaUsd, orders[k].initialCollateralDeltaAmount)
  /\ ~orders[k].isFrozen
  /\ orders' = [orders EXCEPT ![k] = [@ EXCEPT !.executionFee = 0, !.isFrozen = TRUE]]
  /\ tx' = [key |-> k, op |-> "freeze", executionFee |-> orders[k].executionFee,
            keeper |-> keeper, oracleBlocks |-> {}]
  /\ UNCHANGED <<nonce, vault, positions, block, credit>>

-----------------------------------------------------------------------------
(* Fault: decreases and liquidations forget the position's last changes.    *)
BlocksAcceptedForOrder(o, prices) ==
  IF isMarketOrder(o) THEN WithinRange(prices, o.updatedAtBlock)
  ELSE \A r \in prices : r.min >= (IF o.orderType = "Liquidation" THEN 0 ELSE o.updatedAtBlock)

(* validateOracleBlockNumbers of the three order kinds, for the reports an  *)
(* execution is given: a market order asks for the block it was made at,    *)
(* the others for prices not older than the order and, when they decrease,  *)
(* than the position's last increase.  A liquidation is held only to the    *)
(* position's last increase and decrease.                                   *)
BlocksAccepted(o, prices) ==
  IF isMarketOrder(o) THEN WithinRange(prices, o.updatedAtBlock)
  ELSE \A r \in prices :
         /\ isDecreaseOrder(o) => r.min >= positions[o.account].increasedAtBlock
         /\ r.min >= (IF o.orderType = "Liquidation"
                        THEN positions[o.account].decreasedAtBlock ELSE o.updatedAtBlock)

HasPosition(a) == positions[a] # NoPosition

(* _executeOrder asks for a frozen order keeper for frozen orders and for   *)
(* every limit swap.                                                        *)
KeeperAccepted(o, keeper) ==
  (o.isFrozen \/ o.orderType = "LimitSwap") => keeper \in FrozenOrderKeepers

(* The errors an execution of o may end with.  A disabled market is found   *)
(* before anything else is checked; an increase order swaps its collateral  *)
(* before it looks at the block numbers, the other kinds look first.        *)
Errors(o, keeper, prices) ==
  {"DisabledMarket"}
  \cup (IF ~KeeperAccepted(o, keeper) THEN {"InvalidKeeperForFrozenOrder"}
        ELSE {"DisabledFeature"}
          \cup (IF isSwapOrder(o) THEN {} ELSE {"InvalidOrderPrices", "InvalidPositionMarket"})
          \cup (IF isDecreaseOrder(o) /\ ~HasPosition(o.account) THEN {"EmptyPosition"}
                ELSE (IF BlocksAccepted(o, prices) THEN {} ELSE {"OracleError"})
                  \cup (IF BlocksAccepted(o, prices) \/ isIncreaseOrder(o)
                          THEN {"InsufficientOutputAmount"} ELSE {})
                  \cup (IF BlocksAccepted(o, prices) /\ ~isSwapOrder(o)
                          THEN {"InvalidPositionSizeValues"} ELSE {})))

(* _handleOrderError: the errors that revert the keeper's transaction, and  *)
(* those that cancel the order; any other freezes it.                       *)
Reverts(o, error) ==
  \/ error \in {"OracleError", "EmptyOrder", "DisabledFeature",
                "InvalidKeeperForFrozenOrder", "UnsupportedOrderType",
                "InvalidOrderPrices"}
  \/ o.isFrozen
  \/ error = "EmptyPosition" /\ ~isMarketOrder(o)

Cancels(o, error) ==
  \/ isMarketOrder(o)
  \/ error \in {"InvalidPositionMarket", "InvalidCollateralTokenForMarket",
                "InvalidPositionSizeValues"}

ExecutionFails(k, keeper, prices) ==
  \E error \in Errors(orders[k], keeper, prices) :
    /\ ~Reverts(orders[k], error)
    /\ IF Cancels(orders[k], error) THEN RemoveAndRefund(k, keeper) ELSE FreezeOrder(k, keeper)

(* What processOrder does to the account's position: an increase stamps it, *)
(* a decrease stamps it or, as a liquidation of the full size does, removes *)
(* it.                                                                      *)
ProcessPosition(o) ==
  CASE isIncreaseOrder(o) ->
         positions' = [positions EXCEPT ![o.account].increasedAtBlock = block]
    [] isDecreaseOrder(o) ->
         \/ /\ o.orderType # "Liquidation"
            /\ positions' = [positions EXCEPT ![o.account].decreasedAtBlock = block]
         \/ positions' = [positions EXCEPT ![o.account] = NoPosition]
    [] OTHER -> UNCHANGED positions

(* OrderUtils.executeOrder of the order the store holds under k, up to the  *)
(* callback: the order leaves the store and its collateral leaves the vault *)
(* for the markets.                                                         *)
ExecutionSucceeds(store, k, op, keeper, prices) ==
  LET o == store[k]
  IN  /\ NonEmpty(o.sizeDeltaUsd, o.initialCollateralDeltaAmount)
      /\ isDecreaseOrder(o) => HasPosition(o.account)
      /\ BlocksAccepted(o, prices)
      /\ RemoveOrder(store, k)
      /\ tx' = [key |-> k, op |-> op, executionFee |-> o.executionFee,
                keeper |-> keeper, oracleBlocks |-> StartBlocks(prices)]
      /\ ProcessPosition(o)
      /\ CollateralLeaves(k, o)
      /\ UNCHANGED block

(* OrderHandler.executeOrder.  An oracle error reverts before the try.      *)
ExecuteOrder(k, keeper, prices) ==
  /\ tx = NoTx /\ Stored(k)
  /\ KnownAt(prices, block)
  /\ \/ /\ KeeperAccepted(orders[k], keeper)
        /\ ExecutionSucceeds(orders, k, "execute", keeper, prices)
        /\ UNCHANGED nonce
     \/ ExecutionFails(k, keeper, prices)

(* The size of a's position, as far as the orders' sizes are told apart.    *)
SizeInUsd(a) == IF HasPosition(a) THEN 1 ELSE 0

(* The order a keeper's transaction makes for an account: it escrows        *)
(* nothing and carries no execution fee.                                    *)
KeeperOrder(a, type, token, size, updatedAtBlock) ==
  [account |-> a, orderType |-> type, initialCollateralToken |-> token,
   sizeDeltaUsd |-> size, initialCollateralDeltaAmount |-> 0, executionFee |-> 0,
   updatedAtBlock |-> updatedAtBlock, isFrozen |-> FALSE]

(* The order is stored under a fresh key and executed in the same           *)
(* transaction, which reverts as a whole when that fails.                   *)
CreateAndExecute(o, op, keeper, prices) ==
  LET key == nonce + 1
  IN  /\ tx = NoTx /\ nonce < MaxNonce
      /\ KnownAt(prices, block)
      /\ nonce' = key
      /\ ExecutionSucceeds([orders EXCEPT ![key] = o], key, op, keeper, prices)

(* executeLiquidation: whether the position can be liquidated is left open. *)
ExecuteLiquidation(a, token, prices) ==
  CreateAndExecute(KeeperOrder(a, "Liquidation", token, SizeInUsd(a), block),
                   "liquidate", LiquidationKeeper, prices)

(* executeAdl makes a market decrease order "at" the start of the first     *)
(* report (and panics when there is none), so only the reports have to      *)
(* agree with each other.  Whether the market needs deleveraging is left    *)
(* open.                                                                    *)
ExecuteAdl(a, token, size, prices) ==
  /\ size <= SizeInUsd(a)
  /\ \E first \in prices :
       CreateAndExecute(KeeperOrder(a, "MarketDecrease", token, size, first.min),
                        "adl", AdlKeeper, prices)

(* Fault: the part of the fee the keeper did not need is not refunded.      *)
PayKeeperOnly(forKeeper) ==
  /\ tx # NoTx
  /\ forKeeper <= tx.executionFee
  /\ CanTransferOut(vault, WNT, forKeeper)
  /\ vault' = TransferOut(vault, WNT, forKeeper)
  /\ credit' = [credit EXCEPT ![tx.key][WNT] = @ - forKeeper]
  /\ tx' = NoTx
  /\ UNCHANGED <<orders, nonce, positions, block>>

(* GasUtils.payExecutionFee ends the transaction.                           *)
PayExecutionFee(forKeeper) ==
  /\ tx # NoTx
  /\ forKeeper <= tx.executionFee
  /\ CanTransferOut(vault, WNT, tx.executionFee)
  /\ vault' = PayFee(vault, WNT, tx.executionFee, forKeeper)
  /\ credit' = [credit EXCEPT ![tx.key][WNT] =
                  @ - (vault.balance[WNT] - vault'.balance[WNT])]
  /\ tx' = NoTx
  /\ UNCHANGED <<orders, nonce, positions, block>>

-----------------------------------------------------------------------------
Next ==
  \/ \E t \in Tokens, n \in 1..MaxAmount : Transfer(t, n)
  \/ NextBlock
  \/ \E a \in Accounts, type \in OrderTypes, t \in Tokens, size \in {0, 1},
        amount \in Amounts, fee \in Amounts :
       CreateOrder(a, type, t, size, amount, fee)
  \/ \E k \in Keys, size \in {0, 1} : UpdateOrder(k, size)
  \/ \E k \in Keys : CancelOrder(k)
  \/ \E k \in Keys, keeper \in OrderKeepers, prices \in Prices :
       ExecuteOrder(k, keeper, prices)
  \/ \E a \in Accounts, t \in Tokens, prices \in Prices : ExecuteLiquidation(a, t, prices)
  \/ \E a \in Accounts, t \in Tokens, size \in {0, 1}, prices \in Prices :
       ExecuteAdl(a, t, size, prices)
  \/ \E n \in 0..(IF tx = NoTx THEN 0 ELSE tx.executionFee) : PayExecutionFee(n)

Spec == Init /\ [][Next]_vars

(* An account whose transaction is rejected may send it again, and a chain  *)
(* includes it in the end: cancelOrder is enabled again and again between   *)
(* other transactions, so strong fairness.  Blocks go on, and a callback    *)
(* runs under a gas limit, so the transaction around it ends.               *)
Fairness ==
  /\ \A k \in Keys : SF_vars(CancelOrder(k))
  /\ WF_vars(NextBlock)
  /\ WF_vars(\E n \in 0..(IF tx = NoTx THEN 0 ELSE tx.executionFee) : PayExecutionFee(n))

FairSpec == Spec /\ Fairness

-----------------------------------------------------------------------------
TypeOK ==
  /\ orders \in [Keys -> Order \cup {NoOrder}]
  /\ nonce \in 0..MaxNonce
  /\ vault \in BankType(Tokens)
  /\ positions \in [Accounts -> Position]
  /\ block \in Blocks
  /\ tx \in Transaction \cup {NoTx}
  /\ credit \in [Keys -> [Tokens -> Int]]

(* The handlers implement Escrow: a key is handed out once and never comes  *)
(* back after it was executed, cancelled or liquidated, each step settles   *)
(* one key, and it takes from the vault what it takes off that key's claim. *)
EscrowState(k) ==
  IF k > nonce THEN "new"
  ELSE IF Stored(k) \/ (tx # NoTx /\ tx.key = k) THEN "open" ELSE "closed"

Claim(k) == [t \in Tokens |-> Owed(k, t) + InFlight(k, t)]

E == INSTANCE Escrow WITH
       state  <- [k \in Keys |-> EscrowState(k)],
       claims <- [k \in Keys |-> Claim(k)],
       held   <- vault.tokenBalances

ImplementsEscrow == E!EscrowSpec

OwedInAll(t) == Total([k \in Keys |-> Owed(k, t) + InFlight(k, t)])

(* The vault can always pay every stored order its collateral and execution *)
(* fee, and the pending transaction its fee, out of what it has recorded,   *)
(* whatever was sent to it, frozen, topped up, refunded or paid before      *)
(* (StrictBank.tokenBalances against the order store).                      *)
Solvent ==
  /\ \A t \in Tokens : OwedInAll(t) <= vault.tokenBalances[t]
  /\ Covered(vault, Tokens)

(* Each key gets out of the vault exactly what was recorded for it: nothing *)
(* when it is still owed, and nothing twice (a freeze that left the fee on  *)
(* the order, a cancel that did not remove it, a refund not paid).          *)
CreditMatches ==
  \A k \in Keys, t \in Tokens : credit[k][t] = Owed(k, t) + InFlight(k, t)

(* A stored order can be handled: validateNonEmptyOrder, which cancelling,  *)
(* freezing and executing all repeat, never strands one; an unfrozen order  *)
(* still carries a fee for its keeper, and a frozen one is not a market     *)
(* order and has no fee left.  The orders that liquidation and deleveraging *)
(* make, without a fee and of a type nobody may create, never outlive their *)
(* transaction, and cannot be seen by the callback inside it.               *)
StoredOrderUsable ==
  \A k \in Keys : Stored(k) =>
    /\ orders[k].orderType \in CreatableOrders
    /\ NonEmpty(orders[k].sizeDeltaUsd, orders[k].initialCollateralDeltaAmount)
    /\ IF orders[k].isFrozen
         THEN orders[k].executionFee = 0 /\ ~isMarketOrder(orders[k])
         ELSE orders[k].executionFee >= MinExecutionFee

(* A limit or stop-loss decrease never closes a position with a price       *)
(* report from before that position was last increased, even when the order *)
(* is older than the position; a liquidation uses none from before the last *)
(* increase or the last decrease.  (Deleveraging may.)                      *)
PricesNotBeforePosition ==
  [][\A a \in Accounts :
       positions'[a] # positions[a] /\ tx = NoTx
       => \A b \in tx'.oracleBlocks :
            /\ tx'.op = "liquidate" =>
                 b >= positions[a].increasedAtBlock /\ b >= positions[a].decreasedAtBlock
            /\ tx'.op = "execute" /\ orders[tx'.key].orderType \in {"LimitDecrease", "StopLossDecrease"}
                 => b >= positions[a].increasedAtBlock]_vars

(* An account that keeps asking for its order back gets it out of the       *)
(* store, whether keepers freeze, try or ignore it, if the blocks of the    *)
(* exploration last until a market order expires.                           *)
OwnerGetsOut ==
  \A k \in Keys :
    Stored(k) /\ orders[k].updatedAtBlock + ExpirationAge <= MaxBlock ~> ~Stored(k)

(* README.md:763 says order requests cannot be cancelled in the request     *)
(* cancellation period.  cancelOrder asks only market orders to have aged.  *)
CancelOnlyAfterExpiry ==
  [][\A k \in Keys :
       tx = NoTx /\ tx' # NoTx /\ tx'.key = k /\ tx'.op = "cancel" /\ tx'.keeper \in Accounts
       => block - orders[k].updatedAtBlock >= ExpirationAge]_vars

(* README.md:175 says a limit order created at block n is executed with     *)
(* oracle prices after block n.  The code accepts prices of block n.        *)
LimitPricesAfterCreation ==
  [][\A k \in Keys :
       tx = NoTx /\ tx' # NoTx /\ tx'.key = k /\ tx'.op = "execute" /\ ~isMarketOrder(orders[k])
       => \A b \in tx'.oracleBlocks : b > orders[k].updatedAtBlock]_vars

=============================================================================
