-------------------------- MODULE DepositLifecycle --------------------------
(***************************************************************************)
(* The life of a deposit: DepositHandler, DepositUtils and the part of      *)
(* ExecuteDepositUtils that concerns the DepositVault.                      *)
(*                                                                         *)
(* As in OrderLifecycle, a transaction is one step up to the callback and   *)
(* one step after it, tokens may arrive at the vault in between, and what   *)
(* happens in the market is abstracted to success or an error.              *)
(***************************************************************************)
EXTENDS Requests

CONSTANTS Accounts, Tokens, WNT, OrderKeepers,
          MinExecutionFee, \* the least fee validateExecutionFee accepts
          ExpirationAge,   \* REQUEST_EXPIRATION_BLOCK_AGE
          MaxNonce, MaxBlock, MaxAmount, MaxReports, Supply, \* bounds
          NoDeposit, NoTx

ASSUME DepositsAssumption ==
  /\ WNT \in Tokens
  /\ MinExecutionFee \in Nat /\ ExpirationAge \in Nat
  /\ MaxNonce \in Nat /\ MaxBlock \in Nat \ {0} /\ MaxAmount \in Nat
  /\ MaxReports \in Nat
  /\ Supply \in [Tokens -> Nat]

Keys    == 1..MaxNonce
Blocks  == 0..MaxBlock
Amounts == 0..MaxAmount

Prices == ReportSets(Blocks \ {0}, MaxReports)

(* Any token may be sent for either side; a swap path turns it into the     *)
(* market's token when the deposit is executed.                             *)
Deposit == [account : Accounts, initialLongToken : Tokens, initialShortToken : Tokens,
            initialLongTokenAmount : Nat, initialShortTokenAmount : Nat,
            executionFee : Nat, updatedAtBlock : Blocks]

(* A transaction that has called back but not yet paid: an account's        *)
(* cancellation, or a keeper's execution, which may fail and cancel, with   *)
(* the prices it was given.                                                 *)
Transaction == [key : Keys, op : {"cancel", "execute", "fail"}, executionFee : Nat,
                keeper : Accounts \cup OrderKeepers, prices : Prices]

ASSUME DepositAbsentAssumption == NoDeposit \notin Deposit /\ NoTx \notin Transaction

VARIABLES deposits, \* DepositStoreUtils: the stored deposit of each key
          nonce,    \* NonceUtils: the last key handed out
          vault,    \* the DepositVault
          block,    \* Chain.currentBlockNumber
          tx,       \* the pending transaction, NoTx when NOT_ENTERED
          credit    \* history: what came in for a key less what went out

vars == <<deposits, nonce, vault, block, tx, credit>>

Stored(k) == deposits[k] # NoDeposit

(* What the vault owes for a stored deposit, and for the transaction.       *)
Owed(k, t) ==
  IF ~Stored(k) THEN 0
  ELSE LET d == deposits[k]
       IN  (IF d.initialLongToken = t THEN d.initialLongTokenAmount ELSE 0)
           + (IF d.initialShortToken = t THEN d.initialShortTokenAmount ELSE 0)
           + (IF t = WNT THEN d.executionFee ELSE 0)

InFlight(k, t) ==
  IF tx = NoTx THEN 0
  ELSE IF tx.key = k /\ t = WNT THEN tx.executionFee ELSE 0

Init ==
  /\ deposits = [k \in Keys |-> NoDeposit]
  /\ nonce = 0
  /\ vault = EmptyBank(Tokens)
  /\ block = 1
  /\ tx = NoTx
  /\ credit = [k \in Keys |-> [t \in Tokens |-> 0]]

-----------------------------------------------------------------------------
(* Anybody may transfer tokens to the vault at any time.                    *)
Transfer(t, n) ==
  /\ n > 0 /\ vault.balance[t] + n <= Supply[t]
  /\ vault' = TransferIn(vault, t, n)
  /\ UNCHANGED <<deposits, nonce, block, tx, credit>>

NextBlock ==
  /\ tx = NoTx /\ block < MaxBlock
  /\ block' = block + 1
  /\ UNCHANGED <<deposits, nonce, vault, tx, credit>>

-----------------------------------------------------------------------------
(* Fault: the fee is counted as part of the long side as well.              *)
LongAmountUncarved(long, feeParam) == Received(vault, long)

(* The execution fee is carved out of the long side if that is wnt, else    *)
(* out of the short side; only when neither is do the wnt that arrived      *)
(* become the fee.                                                          *)
LongAmount(long, feeParam) ==
  Received(vault, long) - (IF long = WNT THEN feeParam ELSE 0)

(* Carving out the fee is a checked subtraction, some amount must be left,  *)
(* and the fee must cover the estimate of the keeper's gas.                 *)
Acceptable(longAmount, shortAmount, fee, feeParam) ==
  /\ longAmount >= 0 /\ shortAmount >= 0 /\ fee >= feeParam
  /\ longAmount # 0 \/ shortAmount # 0
  /\ fee >= MinExecutionFee

(* createDeposit records the long token, then the short token, so that two  *)
(* sides in the same token all count as long.                               *)
CreateDeposit(a, long, short, feeParam) ==
  LET longBooked  == RecordTransferIn(vault, long)
      bothBooked  == RecordTransferIn(longBooked, short)
      carved      == WNT \in {long, short}
      longAmount  == LongAmount(long, feeParam)
      shortAmount == Received(longBooked, short)
                       - (IF long # WNT /\ short = WNT THEN feeParam ELSE 0)
      fee         == IF carved THEN feeParam ELSE Received(bothBooked, WNT)
      key         == nonce + 1
  IN  /\ tx = NoTx /\ nonce < MaxNonce
      /\ Acceptable(longAmount, shortAmount, fee, feeParam)
      /\ nonce' = key
      /\ vault' = IF carved THEN bothBooked ELSE RecordTransferIn(bothBooked, WNT)
      /\ deposits' = [deposits EXCEPT ![key] =
           [account |-> a, initialLongToken |-> long, initialShortToken |-> short,
            initialLongTokenAmount |-> longAmount, initialShortTokenAmount |-> shortAmount,
            executionFee |-> fee, updatedAtBlock |-> block]]
      /\ credit' = [credit EXCEPT ![key] =
           [t \in Tokens |-> Recorded(vault', t) - Recorded(vault, t)]]
      /\ UNCHANGED <<block, tx>>

-----------------------------------------------------------------------------
(* DepositVault.transferOut for each side that has an amount.               *)
OutIfAny(bank, t, n) == IF n > 0 THEN TransferOut(bank, t, n) ELSE bank

(* Fault: only the long side leaves.                                        *)
LongLeaves(k) ==
  LET d    == deposits[k]
      left == OutIfAny(vault, d.initialLongToken, d.initialLongTokenAmount)
  IN  /\ CanTransferOut(vault, d.initialLongToken, d.initialLongTokenAmount)
      /\ vault' = left
      /\ credit' = [credit EXCEPT ![k] =
           [t \in Tokens |-> @[t] - (vault.balance[t] - left.balance[t])]]

(* Both sides leave the vault, long first: to the account when the deposit  *)
(* is cancelled, to the market or the first market of the side's swap path  *)
(* when it is executed.                                                     *)
AmountsLeave(k) ==
  LET d     == deposits[k]
      once  == OutIfAny(vault, d.initialLongToken, d.initialLongTokenAmount)
      twice == OutIfAny(once, d.initialShortToken, d.initialShortTokenAmount)
  IN  /\ CanTransferOut(vault, d.initialLongToken, d.initialLongTokenAmount)
      /\ CanTransferOut(once, d.initialShortToken, d.initialShortTokenAmount)
      /\ vault' = twice
      /\ credit' = [credit EXCEPT ![k] =
           [t \in Tokens |-> @[t] - (vault.balance[t] - twice.balance[t])]]

Leaves(k, op, keeper, prices) ==
  /\ deposits' = [deposits EXCEPT ![k] = NoDeposit]
  /\ tx' = [key |-> k, op |-> op, executionFee |-> deposits[k].executionFee,
            keeper |-> keeper, prices |-> prices]
  /\ AmountsLeave(k)
  /\ UNCHANGED <<nonce, block>>

(* Fault: a deposit of one side only is taken for an empty one.             *)
RemoveAndRefundBothSides(k, op, keeper, prices) ==
  /\ deposits[k].initialLongTokenAmount # 0 /\ deposits[k].initialShortTokenAmount # 0
  /\ Leaves(k, op, keeper, prices)

(* Fault: the deposit is refunded but stays in the store.                   *)
RefundOnly(k, op, keeper, prices) ==
  /\ tx' = [key |-> k, op |-> op, executionFee |-> deposits[k].executionFee,
            keeper |-> keeper, prices |-> prices]
  /\ AmountsLeave(k)
  /\ UNCHANGED <<deposits, nonce, block>>

(* DepositUtils.cancelDeposit up to the callback.                           *)
RemoveAndRefund(k, op, keeper, prices) ==
  /\ deposits[k].initialLongTokenAmount # 0 \/ deposits[k].initialShortTokenAmount # 0
  /\ Leaves(k, op, keeper, prices)

(* DepositHandler.cancelDeposit: the account cancels an expired deposit.    *)
CancelDeposit(k) ==
  /\ tx = NoTx /\ Stored(k)
  /\ Expired(deposits[k].updatedAtBlock, block, ExpirationAge)
  /\ RemoveAndRefund(k, "cancel", deposits[k].account, {})

-----------------------------------------------------------------------------
(* Fault: the market is looked up before the block numbers are checked.     *)
ErrorsMarketFirst(k, prices) ==
  {"DisabledFeature", "DisabledMarket"}
  \cup IF WithinRange(prices, deposits[k].updatedAtBlock)
         THEN {"MinMarketTokens", "EmptyPrimaryPrice"}
         ELSE {"OracleBlockNumberNotWithinRange"}

(* The errors an execution may end with: the block numbers are checked      *)
(* before anything else of the deposit is.                                  *)
Errors(k, prices) ==
  {"DisabledFeature"}
  \cup IF WithinRange(prices, deposits[k].updatedAtBlock)
         THEN {"DisabledMarket", "MinMarketTokens", "EmptyPrimaryPrice"}
         ELSE {"OracleBlockNumberNotWithinRange"}

(* _handleDepositError: oracle errors and a disabled feature revert the     *)
(* keeper's transaction, any other error cancels the deposit.               *)
Reverts(error) ==
  error \in {"OracleBlockNumberNotWithinRange", "EmptyPrimaryPrice", "DisabledFeature"}

(* ExecuteDepositUtils.executeDeposit up to the callback: both sides go to  *)
(* the market, which mints for them.                                        *)
ExecutionSucceeds(k, keeper, prices) ==
  /\ WithinRange(prices, deposits[k].updatedAtBlock)
  /\ Leaves(k, "execute", keeper, prices)

(* DepositHandler.executeDeposit.                                           *)
ExecuteDeposit(k, keeper, prices) ==
  /\ tx = NoTx /\ Stored(k)
  /\ KnownAt(prices, block)
  /\ \/ ExecutionSucceeds(k, keeper, prices)
     \/ \E error \in Errors(k, prices) : ~Reverts(error) /\ RemoveAndRefund(k, "fail", keeper, prices)

PayExecutionFee(forKeeper) ==
  /\ tx # NoTx
  /\ forKeeper <= tx.executionFee
  /\ CanTransferOut(vault, WNT, tx.executionFee)
  /\ vault' = PayFee(vault, WNT, tx.executionFee, forKeeper)
  /\ credit' = [credit EXCEPT ![tx.key][WNT] =
                  @ - (vault.balance[WNT] - vault'.balance[WNT])]
  /\ tx' = NoTx
  /\ UNCHANGED <<deposits, nonce, block>>

-----------------------------------------------------------------------------
Next ==
  \/ \E t \in Tokens, n \in 1..MaxAmount : Transfer(t, n)
  \/ NextBlock
  \/ \E a \in Accounts, long, short \in Tokens, fee \in Amounts :
       CreateDeposit(a, long, short, fee)
  \/ \E k \in Keys : CancelDeposit(k)
  \/ \E k \in Keys, keeper \in OrderKeepers, prices \in Prices :
       ExecuteDeposit(k, keeper, prices)
  \/ \E n \in 0..(IF tx = NoTx THEN 0 ELSE tx.executionFee) : PayExecutionFee(n)

Spec == Init /\ [][Next]_vars

(* As for orders: an account may repeat a rejected cancellation until it is *)
(* included between other transactions, blocks go on, transactions end.     *)
Fairness ==
  /\ \A k \in Keys : SF_vars(CancelDeposit(k))
  /\ WF_vars(NextBlock)
  /\ WF_vars(\E n \in 0..(IF tx = NoTx THEN 0 ELSE tx.executionFee) : PayExecutionFee(n))

FairSpec == Spec /\ Fairness

-----------------------------------------------------------------------------
TypeOK ==
  /\ deposits \in [Keys -> Deposit \cup {NoDeposit}]
  /\ nonce \in 0..MaxNonce
  /\ vault \in BankType(Tokens)
  /\ block \in Blocks
  /\ tx \in Transaction \cup {NoTx}
  /\ credit \in [Keys -> [Tokens -> Int]]

(* Each step settles one key and takes from the vault what it takes off     *)
(* that key's claim, and a key is opened and closed once: see Escrow.       *)
EscrowState(k) ==
  IF k > nonce THEN "new"
  ELSE IF Stored(k) \/ (tx # NoTx /\ tx.key = k) THEN "open" ELSE "closed"

Claim(k) == [t \in Tokens |-> Owed(k, t) + InFlight(k, t)]

E == INSTANCE Escrow WITH
       state  <- [k \in Keys |-> EscrowState(k)],
       claims <- [k \in Keys |-> Claim(k)],
       held   <- vault.tokenBalances

ImplementsEscrow == E!EscrowSpec

OwedInAll(t) == Total([k \in Keys |-> Owed(k, t) + InFlight(k, t)])

(* The DepositVault can always pay out every stored deposit and its fee,    *)
(* whatever arrived unasked and whichever side the fee was carved out of;   *)
(* what is stored has its type.                                             *)
Solvent ==
  /\ TypeOK
  /\ \A t \in Tokens : OwedInAll(t) <= vault.tokenBalances[t]
  /\ Covered(vault, Tokens)

(* Each deposit gets out exactly what was recorded for it, also when both   *)
(* its sides and the fee are in one token.                                  *)
CreditMatches ==
  \A k \in Keys, t \in Tokens : credit[k][t] = Owed(k, t) + InFlight(k, t)

(* A deposit cannot be used as a free option on later prices: it leaves the *)
(* store, executed or cancelled, by whomever, only with prices of the block *)
(* it was made at or once it has expired.                                   *)
NoFreeOption ==
  [][\A k \in Keys :
       Stored(k) /\ deposits'[k] # deposits[k] =>
         IF tx'.op = "cancel"
           THEN Expired(deposits[k].updatedAtBlock, block, ExpirationAge)
           ELSE WithinRange(tx'.prices, deposits[k].updatedAtBlock)]_vars

(* An account that keeps asking for its deposit back gets it out of the     *)
(* store, if the blocks of the exploration last until it expires.           *)
DepositorGetsOut ==
  \A k \in Keys :
    Stored(k) /\ deposits[k].updatedAtBlock + ExpirationAge <= MaxBlock ~> ~Stored(k)
=============================================================================
