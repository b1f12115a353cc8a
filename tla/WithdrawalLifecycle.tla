------------------------ MODULE WithdrawalLifecycle ------------------------
(***************************************************************************)
(* The life of a withdrawal: WithdrawalHandler, WithdrawalUtils and the     *)
(* part of ExecuteWithdrawalUtils that concerns the WithdrawalVault, which  *)
(* holds market tokens until they are burnt and wnt for the keepers.        *)
(*                                                                         *)
(* A transaction is one step up to the callback and one step after it, as   *)
(* in OrderLifecycle; what it does in the market is success or an error.    *)
(***************************************************************************)
EXTENDS Requests

CONSTANTS Accounts, MarketTokens, WNT, OrderKeepers,
          MinExecutionFee, \* the least fee validateExecutionFee accepts
          ExpirationAge,   \* REQUEST_EXPIRATION_BLOCK_AGE
          MaxNonce, MaxBlock, MaxAmount, MaxReports, Supply, \* bounds
          NoWithdrawal, NoTx

Tokens == MarketTokens \cup {WNT}

ASSUME WithdrawalsAssumption ==
  /\ WNT \notin MarketTokens
  /\ MinExecutionFee \in Nat /\ ExpirationAge \in Nat
  /\ MaxNonce \in Nat /\ MaxBlock \in Nat \ {0} /\ MaxAmount \in Nat
  /\ MaxReports \in Nat
  /\ Supply \in [Tokens -> Nat]

Keys    == 1..MaxNonce
Blocks  == 0..MaxBlock
Amounts == 0..MaxAmount

Prices == ReportSets(Blocks \ {0}, MaxReports)

Withdrawal == [account : Accounts, market : MarketTokens, marketTokenAmount : Nat,
               executionFee : Nat, updatedAtBlock : Blocks]

(* A transaction that has called back but not yet paid: an account's        *)
(* cancellation, or a keeper's execution, which may fail and cancel, with   *)
(* the prices it was given.                                                 *)
Transaction == [key : Keys, op : {"cancel", "execute", "fail"}, executionFee : Nat,
                keeper : Accounts \cup OrderKeepers, prices : Prices]

ASSUME WithdrawalAbsentAssumption ==
  NoWithdrawal \notin Withdrawal /\ NoTx \notin Transaction

VARIABLES withdrawals, \* WithdrawalStoreUtils: the stored withdrawal of each key
          nonce,       \* NonceUtils: the last key handed out
          vault,       \* the WithdrawalVault
          block,       \* Chain.currentBlockNumber
          tx,          \* the pending transaction, NoTx when NOT_ENTERED
          credit       \* history: what came in for a key less what went out

vars == <<withdrawals, nonce, vault, block, tx, credit>>

Stored(k) == withdrawals[k] # NoWithdrawal

(* What the vault owes for a stored withdrawal, and for the transaction.    *)
Owed(k, t) ==
  IF ~Stored(k) THEN 0
  ELSE (IF withdrawals[k].market = t THEN withdrawals[k].marketTokenAmount ELSE 0)
       + (IF t = WNT THEN withdrawals[k].executionFee ELSE 0)

InFlight(k, t) ==
  IF tx = NoTx THEN 0
  ELSE IF tx.key = k /\ t = WNT THEN tx.executionFee ELSE 0

Init ==
  /\ withdrawals = [k \in Keys |-> NoWithdrawal]
  /\ nonce = 0
  /\ vault = EmptyBank(Tokens)
  /\ block = 1
  /\ tx = NoTx
  /\ credit = [k \in Keys |-> [t \in Tokens |-> 0]]

-----------------------------------------------------------------------------
(* Anybody may transfer tokens to the vault at any time.                    *)
Transfer(t, n) ==
  /\ n > 0 /\ vault.balance[t] + n <= Supply[t]
  /\ vault' = TransferIn(vault, t, n)
  /\ UNCHANGED <<withdrawals, nonce, block, tx, credit>>

NextBlock ==
  /\ tx = NoTx /\ block < MaxBlock
  /\ block' = block + 1
  /\ UNCHANGED <<withdrawals, nonce, vault, tx, credit>>

(* createWithdrawal: all the wnt that arrived is the execution fee, all the *)
(* market tokens that arrived are to be burnt.                              *)
CreateWithdrawal(a, market, feeParam) ==
  LET fee    == Received(vault, WNT)
      amount == Received(vault, market)
      key    == nonce + 1
  IN  /\ tx = NoTx /\ nonce < MaxNonce
      /\ fee >= feeParam /\ fee >= MinExecutionFee
      /\ amount # 0
      /\ nonce' = key
      /\ vault' = RecordTransferIn(RecordTransferIn(vault, WNT), market)
      /\ withdrawals' = [withdrawals EXCEPT ![key] =
           [account |-> a, market |-> market, marketTokenAmount |-> amount,
            executionFee |-> fee, updatedAtBlock |-> block]]
      /\ credit' = [credit EXCEPT ![key] =
           [t \in Tokens |-> Recorded(vault', t) - Recorded(vault, t)]]
      /\ UNCHANGED <<block, tx>>

-----------------------------------------------------------------------------
(* MarketToken.burn(WithdrawalVault, amount): the ERC20 balance falls.      *)
Burn(bank, t, n) == [bank EXCEPT !.balance[t] = @ - n]

(* Fault: the burn is not followed by syncTokenBalance.                     *)
BurnUnsynced(bank, t, n) == Burn(bank, t, n)

(* Fault: the whole balance of the vault is burnt.                          *)
BurnWhole(bank, t, n) == RecordTransferIn(Burn(bank, t, bank.balance[t]), t)

(* A burn, and StrictBank.syncTokenBalance for what it took.                *)
BurnAndSync(bank, t, n) == RecordTransferIn(Burn(bank, t, n), t)

(* The withdrawal leaves the store, and its market tokens the vault.        *)
Leaves(k, op, keeper, prices, left) ==
  /\ CanTransferOut(vault, withdrawals[k].market, withdrawals[k].marketTokenAmount)
  /\ vault' = left
  /\ withdrawals' = [withdrawals EXCEPT ![k] = NoWithdrawal]
  /\ tx' = [key |-> k, op |-> op, executionFee |-> withdrawals[k].executionFee,
            keeper |-> keeper, prices |-> prices]
  /\ credit' = [credit EXCEPT ![k] =
       [t \in Tokens |-> @[t] - (vault.balance[t] - left.balance[t])]]
  /\ UNCHANGED <<nonce, block>>

(* Fault: the whole balance in market tokens is sent back.                  *)
RemoveAndRefundAll(k, op, keeper, prices) ==
  LET w == withdrawals[k]
  IN  /\ w.marketTokenAmount # 0
      /\ Leaves(k, op, keeper, prices, TransferOut(vault, w.market, vault.balance[w.market]))

(* WithdrawalUtils.cancelWithdrawal up to the callback.                     *)
RemoveAndRefund(k, op, keeper, prices) ==
  LET w == withdrawals[k]
  IN  /\ w.marketTokenAmount # 0
      /\ Leaves(k, op, keeper, prices, TransferOut(vault, w.market, w.marketTokenAmount))

(* WithdrawalHandler.cancelWithdrawal: the account cancels an expired one.  *)
CancelWithdrawal(k) ==
  /\ tx = NoTx /\ Stored(k)
  /\ Expired(withdrawals[k].updatedAtBlock, block, ExpirationAge)
  /\ RemoveAndRefund(k, "cancel", withdrawals[k].account, {})

(* ExecuteWithdrawalUtils.executeWithdrawal up to the callback: the market  *)
(* tokens are burnt out of the vault.                                       *)
ExecutionSucceeds(k, keeper, prices) ==
  LET w == withdrawals[k]
  IN  /\ w.marketTokenAmount # 0
      /\ WithinRange(prices, w.updatedAtBlock)
      /\ Leaves(k, "execute", keeper, prices, BurnAndSync(vault, w.market, w.marketTokenAmount))

(* Fault: oracle errors cancel the withdrawal instead of reverting.         *)
RevertsOnDisabledOnly(error) == error = "DisabledFeature"

(* _handleWithdrawalError: the errors that revert the transaction; any      *)
(* other cancels the withdrawal.                                            *)
Reverts(error) ==
  error \in {"OracleBlockNumberNotWithinRange", "EmptyPrimaryPrice", "DisabledFeature"}

(* The errors an execution may end with, block numbers first.               *)
Errors(k, prices) ==
  {"DisabledFeature"}
  \cup IF WithinRange(prices, withdrawals[k].updatedAtBlock)
         THEN {"DisabledMarket", "InsufficientReserve", "EmptyPrimaryPrice"}
         ELSE {"OracleBlockNumberNotWithinRange"}

(* WithdrawalHandler.executeWithdrawal.                                     *)
ExecuteWithdrawal(k, keeper, prices) ==
  /\ tx = NoTx /\ Stored(k)
  /\ KnownAt(prices, block)
  /\ \/ ExecutionSucceeds(k, keeper, prices)
     \/ \E error \in Errors(k, prices) : ~Reverts(error) /\ RemoveAndRefund(k, "fail", keeper, prices)

PayExecutionFee(forKeeper) ==
  /\ tx # NoTx
  /\ forKeeper <= tx.executionFee
  /\ CanTransferOut(vault, WNT, tx.executionFee)
  /\ vault' = PayFee(vault, WNT, tx.executionFee, forKeeper)
  /\ credit' = [credit EXCEPT ![tx.key][WNT] =
                  @ - (vault.balance[WNT] - vault'.balance[WNT])]
  /\ tx' = NoTx
  /\ UNCHANGED <<withdrawals, nonce, block>>

-----------------------------------------------------------------------------
Next ==
  \/ \E t \in Tokens, n \in 1..MaxAmount : Transfer(t, n)
  \/ NextBlock
  \/ \E a \in Accounts, market \in MarketTokens, fee \in Amounts :
       CreateWithdrawal(a, market, fee)
  \/ \E k \in Keys : CancelWithdrawal(k)
  \/ \E k \in Keys, keeper \in OrderKeepers, prices \in Prices :
       ExecuteWithdrawal(k, keeper, prices)
  \/ \E n \in 0..(IF tx = NoTx THEN 0 ELSE tx.executionFee) : PayExecutionFee(n)

Spec == Init /\ [][Next]_vars

(* As for orders: an account may repeat a rejected cancellation until it is *)
(* included between other transactions, blocks go on, transactions end.     *)
Fairness ==
  /\ \A k \in Keys : SF_vars(CancelWithdrawal(k))
  /\ WF_vars(NextBlock)
  /\ WF_vars(\E n \in 0..(IF tx = NoTx THEN 0 ELSE tx.executionFee) : PayExecutionFee(n))

FairSpec == Spec /\ Fairness

-----------------------------------------------------------------------------
TypeOK ==
  /\ withdrawals \in [Keys -> Withdrawal \cup {NoWithdrawal}]
  /\ nonce \in 0..MaxNonce
  /\ vault \in BankType(Tokens)
  /\ block \in Blocks
  /\ tx \in Transaction \cup {NoTx}
  /\ credit \in [Keys -> [Tokens -> Int]]

(* Each step settles one key and takes from the vault what it takes off     *)
(* that key's claim, and a key is opened and closed once: see Escrow.       *)
EscrowState(k) ==
  IF k > nonce THEN "new"
  ELSE IF Stored(k) \/ (tx # NoTx /\ tx.key = k) THEN "open" ELSE "closed"

Claim(k) == [t \in Tokens |-> Owed(k, t) + InFlight(k, t)]

E == INSTANCE Escrow WITH
       state  <- [k \in Keys |-> EscrowState(k)],
       claims <- [k \in Keys |-> Claim(k)],
       held   <- vault.tokenBalances

ImplementsEscrow == E!EscrowSpec

OwedInAll(t) == Total([k \in Keys |-> Owed(k, t) + InFlight(k, t)])

(* The WithdrawalVault can always give every stored withdrawal its market   *)
(* tokens back and pay its fee, although burns bypass its transferOut;      *)
(* what is stored has its type.                                             *)
Solvent ==
  /\ TypeOK
  /\ \A t \in Tokens : OwedInAll(t) <= vault.tokenBalances[t]
  /\ Covered(vault, Tokens)

(* Each withdrawal gets out, burnt or refunded, exactly what was recorded   *)
(* for it.                                                                  *)
CreditMatches ==
  \A k \in Keys, t \in Tokens : credit[k][t] = Owed(k, t) + InFlight(k, t)

(* A withdrawal cannot be used as a free option on later prices: it leaves  *)
(* the store, executed or cancelled, by whomever, only with prices of the   *)
(* block it was made at or once it has expired.                             *)
NoFreeOption ==
  [][\A k \in Keys :
       Stored(k) /\ withdrawals'[k] # withdrawals[k] =>
         IF tx'.op = "cancel"
           THEN Expired(withdrawals[k].updatedAtBlock, block, ExpirationAge)
           ELSE WithinRange(tx'.prices, withdrawals[k].updatedAtBlock)]_vars

(* An account that keeps asking for its market tokens back gets them, if    *)
(* the blocks of the exploration last until the withdrawal expires.         *)
WithdrawerGetsOut ==
  \A k \in Keys :
    Stored(k) /\ withdrawals[k].updatedAtBlock + ExpirationAge <= MaxBlock ~> ~Stored(k)
=============================================================================
