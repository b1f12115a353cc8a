---------------------- MODULE WithdrawalLifecycle_proofs ----------------------
(* The withdrawal lifecycle for every set of accounts, tokens and keepers   *)
(* and every bound: types, what each key is credited with, the price range  *)
(* a withdrawal leaves with, and the refinement of Escrow, from which the   *)
(* solvency of the WithdrawalVault follows.                                 *)
EXTENDS WithdrawalLifecycle, Ledger_proofs

(* tokenBalances never exceeds the ERC20 balance: without it a recorded     *)
(* transfer could be negative.                                              *)
VaultCovered == Covered(vault, Tokens)

(* Only keys already handed out are stored or pending.                      *)
KeysIssued ==
  /\ \A k \in Keys : Stored(k) => k <= nonce
  /\ tx # NoTx => tx.key <= nonce

(* The inductive invariant under the type, the refinement and solvency.     *)
IInv == TypeOK /\ VaultCovered /\ KeysIssued

USE WithdrawalsAssumption, WithdrawalAbsentAssumption DEF Keys, Blocks

LEMMA OwedType ==
  ASSUME IInv, NEW k \in Keys, NEW t \in Tokens
  PROVE  Owed(k, t) \in Nat
<1>1. Stored(k) => withdrawals[k] \in Withdrawal
  BY DEF IInv, TypeOK, Stored
<1> QED
  BY <1>1 DEF Owed, Withdrawal

PartsTyped == \A k \in Keys, t \in Tokens : Owed(k, t) \in Nat /\ InFlight(k, t) \in Nat

LEMMA InvParts == IInv => PartsTyped
BY OwedType DEF InFlight, IInv, TypeOK, Transaction, PartsTyped

LEMMA InitInv == Init => IInv
BY DEF Init, IInv, TypeOK, VaultCovered, KeysIssued, Stored, EmptyBank, BankType, Covered

LEMMA TransferInv ==
  ASSUME IInv, NEW t \in Tokens, NEW n \in 1..MaxAmount, Transfer(t, n)
  PROVE  IInv'
<1>1. n \in Nat
  OBVIOUS
<1>2. vault' \in BankType(Tokens) /\ VaultCovered'
  BY <1>1, TransferInType DEF Transfer, IInv, TypeOK, VaultCovered
<1> QED
  BY <1>2 DEF Transfer, IInv, TypeOK, KeysIssued, Stored

LEMMA NextBlockInv == ASSUME IInv, NextBlock PROVE IInv'
BY DEF NextBlock, IInv, TypeOK, VaultCovered, KeysIssued, Stored

(* Creation records wnt and the market token; what it records is the fee    *)
(* and the amount of the new withdrawal.                                    *)
LEMMA CreateInv ==
  ASSUME IInv, NEW a \in Accounts, NEW market \in MarketTokens, NEW feeParam \in Amounts,
         CreateWithdrawal(a, market, feeParam)
  PROVE  /\ IInv'
         /\ nonce' = nonce + 1 /\ nonce' \in Keys /\ tx = NoTx /\ tx' = NoTx
         /\ withdrawals'[nonce'] \in Withdrawal
         /\ \A k \in Keys \ {nonce'} :
              withdrawals'[k] = withdrawals[k] /\ credit'[k] = credit[k]
         /\ \A k \in Keys, t \in Tokens : k = nonce + 1 =>
              /\ vault'.tokenBalances[t] - vault.tokenBalances[t] = Owed(k, t)'
              /\ credit'[k][t] = Owed(k, t)'
<1> DEFINE feeBooked == RecordTransferIn(vault, WNT)
           last      == RecordTransferIn(feeBooked, market)
           fee       == Received(vault, WNT)
           amount    == Received(vault, market)
           w         == [account |-> a, market |-> market, marketTokenAmount |-> amount,
                         executionFee |-> fee, updatedAtBlock |-> block]
<1>0. /\ tx = NoTx /\ nonce < MaxNonce /\ nonce' = nonce + 1
      /\ vault' = last
      /\ withdrawals' = [withdrawals EXCEPT ![nonce + 1] = w]
      /\ credit' = [credit EXCEPT ![nonce + 1] =
                      [t \in Tokens |-> Recorded(vault', t) - Recorded(vault, t)]]
      /\ UNCHANGED <<block, tx>>
  BY Zenon DEF CreateWithdrawal
<1>1. /\ tx = NoTx /\ nonce < MaxNonce /\ nonce' = nonce + 1
      /\ vault' = last
      /\ withdrawals' = [withdrawals EXCEPT ![nonce'] = w]
      /\ credit' = [credit EXCEPT ![nonce'] =
                      [t \in Tokens |-> Recorded(vault', t) - Recorded(vault, t)]]
      /\ UNCHANGED <<block, tx>>
  BY <1>0, Zenon
<1> USE DEF IInv
<1>2. market \in Tokens /\ WNT \in Tokens /\ market # WNT
  BY DEF WithdrawalsAssumption, Tokens
<1>3. vault \in BankType(Tokens) /\ Covered(vault, Tokens)
  BY DEF TypeOK, VaultCovered
<1>4. vault.balance \in [Tokens -> Nat] /\ vault.tokenBalances \in [Tokens -> Nat]
  BY <1>3 DEF BankType
<1>5. /\ feeBooked \in BankType(Tokens) /\ Covered(feeBooked, Tokens)
      /\ feeBooked.balance = vault.balance
      /\ feeBooked.tokenBalances = [vault.tokenBalances EXCEPT ![WNT] = vault.balance[WNT]]
      /\ fee \in Nat
  BY <1>2, <1>3, RecordType
<1> HIDE DEF feeBooked
<1>6. /\ last \in BankType(Tokens) /\ Covered(last, Tokens)
      /\ last.balance = feeBooked.balance
      /\ last.tokenBalances =
           [feeBooked.tokenBalances EXCEPT ![market] = feeBooked.balance[market]]
  BY <1>2, <1>5, RecordType
<1> HIDE DEF last
<1>7. vault' \in BankType(Tokens) /\ VaultCovered'
  BY <1>1, <1>6 DEF VaultCovered
<1>8. /\ amount = vault.balance[market] - vault.tokenBalances[market] /\ amount \in Nat
      /\ fee = vault.balance[WNT] - vault.tokenBalances[WNT]
  BY <1>2, <1>3, <1>4 DEF Received, Covered
<1> HIDE DEF fee, amount
<1>9. w \in Withdrawal
  BY <1>5, <1>8 DEF Withdrawal, TypeOK
<1>10. nonce' \in Keys
  BY <1>1 DEF TypeOK
<1>11. /\ withdrawals' \in [Keys -> Withdrawal \cup {NoWithdrawal}] /\ withdrawals'[nonce'] = w
       /\ \A k \in Keys \ {nonce'} :
            withdrawals'[k] = withdrawals[k] /\ credit'[k] = credit[k]
  BY <1>1, <1>9, <1>10 DEF TypeOK
<1>12. credit' \in [Keys -> [Tokens -> Int]]
  <2>1. [t \in Tokens |-> Recorded(vault', t) - Recorded(vault, t)] \in [Tokens -> Int]
    BY <1>3, <1>7 DEF Recorded, BankType
  <2> QED
    BY <1>1, <1>10, <2>1 DEF TypeOK
<1>13. TypeOK'
  BY <1>1, <1>7, <1>10, <1>11, <1>12 DEF TypeOK
<1>14. KeysIssued'
  <2>1. ASSUME NEW k \in Keys, Stored(k)' PROVE k <= nonce'
    <3>1. CASE k = nonce'
      BY <1>10, <3>1
    <3>2. CASE k # nonce'
      BY <1>1, <1>11, <2>1, <3>2 DEF KeysIssued, Stored, TypeOK
    <3> QED
      BY <3>1, <3>2
  <2> QED
    BY <1>1, <2>1 DEF KeysIssued
<1>15. ASSUME NEW k \in Keys, NEW t \in Tokens, k = nonce + 1
       PROVE  vault'.tokenBalances[t] - vault.tokenBalances[t] = Owed(k, t)'
  <2>1. Owed(k, t)' = (IF market = t THEN amount ELSE 0) + (IF t = WNT THEN fee ELSE 0)
    BY <1>1, <1>9, <1>11, <1>15 DEF Owed, Stored
  <2>2. vault'.tokenBalances[t] = IF t = market \/ t = WNT THEN vault.balance[t]
                                 ELSE vault.tokenBalances[t]
    BY <1>1, <1>2, <1>4, <1>5, <1>6
  <2> QED
    BY <1>2, <1>4, <1>5, <1>8, <2>1, <2>2
<1>16. ASSUME NEW k \in Keys, NEW t \in Tokens, k = nonce + 1
       PROVE  credit'[k][t] = vault'.tokenBalances[t] - vault.tokenBalances[t]
  BY <1>1, <1>10, <1>16 DEF TypeOK, Recorded
<1> QED
  BY <1>1, <1>7, <1>9, <1>10, <1>11, <1>13, <1>14, <1>15, <1>16

(* The credit of k is its claim.                                            *)
CreditMatchesAt(k) == \A t \in Tokens : credit[k][t] = Owed(k, t) + InFlight(k, t)

(* A step settles k: no other withdrawal changes, no other transaction is   *)
(* pending, the recorded balances move at least as far as k's claim, and    *)
(* k's credit moves exactly as far.                                         *)
Settles(k) ==
  /\ \A j \in Keys \ {k} : withdrawals'[j] = withdrawals[j] /\ credit'[j] = credit[j]
  /\ tx = NoTx \/ tx.key = k
  /\ tx' = NoTx \/ tx'.key = k
  /\ CreditMatchesAt(k) => CreditMatchesAt(k)'
  /\ \A t \in Tokens :
       vault'.tokenBalances[t] - vault.tokenBalances[t]
         >= (Owed(k, t)' + InFlight(k, t)') - (Owed(k, t) + InFlight(k, t))

(* What a step takes off k's claim it takes off its credit, and at most     *)
(* that off the recorded balances.                                          *)
LEMMA SettlesBy ==
  ASSUME IInv, IInv', NEW k \in Keys, NEW d \in [Tokens -> Int],
         \A j \in Keys \ {k} : withdrawals'[j] = withdrawals[j] /\ credit'[j] = credit[j],
         tx = NoTx \/ tx.key = k, tx' = NoTx \/ tx'.key = k,
         \A t \in Tokens :
           /\ Owed(k, t)' + InFlight(k, t)' = Owed(k, t) + InFlight(k, t) - d[t]
           /\ credit'[k][t] = credit[k][t] - d[t]
           /\ vault'.tokenBalances[t] - vault.tokenBalances[t] >= 0 - d[t]
  PROVE  Settles(k)
<1>1. PartsTyped'
  BY InvParts, PTL
<1>2. ASSUME NEW t \in Tokens
      PROVE  /\ Owed(k, t) \in Nat /\ InFlight(k, t) \in Nat
             /\ Owed(k, t)' \in Nat /\ InFlight(k, t)' \in Nat
             /\ vault.tokenBalances[t] \in Nat /\ vault'.tokenBalances[t] \in Nat
  BY <1>1, InvParts DEF PartsTyped, IInv, TypeOK, BankType
<1>3. \A t \in Tokens :
        vault'.tokenBalances[t] - vault.tokenBalances[t]
          >= (Owed(k, t)' + InFlight(k, t)') - (Owed(k, t) + InFlight(k, t))
  BY <1>2
<1>4. ASSUME CreditMatchesAt(k), NEW t \in Tokens
      PROVE  credit'[k][t] = Owed(k, t)' + InFlight(k, t)'
  BY <1>2, <1>4 DEF CreditMatchesAt
<1>5. CreditMatchesAt(k) => CreditMatchesAt(k)'
  BY <1>4 DEF CreditMatchesAt
<1>6. \A j \in Keys \ {k} : withdrawals'[j] = withdrawals[j] /\ credit'[j] = credit[j]
  OBVIOUS
<1>7. (tx = NoTx \/ tx.key = k) /\ (tx' = NoTx \/ tx'.key = k)
  OBVIOUS
<1> QED
  BY <1>3, <1>5, <1>6, <1>7, Zenon DEF Settles

LEMMA CreateSettles ==
  ASSUME IInv, NEW a \in Accounts, NEW market \in MarketTokens, NEW feeParam \in Amounts,
         CreateWithdrawal(a, market, feeParam),
         NEW k \in Keys, k = nonce + 1
  PROVE  Settles(k) /\ Stored(k)' /\ nonce' = nonce + 1
<1>1. /\ nonce' = nonce + 1 /\ tx = NoTx /\ tx' = NoTx /\ withdrawals'[k] \in Withdrawal
      /\ \A j \in Keys \ {k} : withdrawals'[j] = withdrawals[j] /\ credit'[j] = credit[j]
      /\ \A t \in Tokens : /\ vault'.tokenBalances[t] - vault.tokenBalances[t] = Owed(k, t)'
                            /\ credit'[k][t] = Owed(k, t)'
  BY CreateInv
<1>2. ~Stored(k)
  BY DEF IInv, KeysIssued, TypeOK
<1>3. \A t \in Tokens : Owed(k, t) = 0 /\ InFlight(k, t) = 0 /\ InFlight(k, t)' = 0
  BY <1>1, <1>2 DEF Owed, InFlight
<1>4. Stored(k)'
  BY <1>1 DEF Stored, WithdrawalAbsentAssumption
<1>5. \A t \in Tokens : Owed(k, t)' \in Nat
  BY <1>1 DEF Owed, Withdrawal
<1>6. CreditMatchesAt(k)'
  <2>1. ASSUME NEW t \in Tokens PROVE credit'[k][t] = Owed(k, t)' + InFlight(k, t)'
    BY <1>1, <1>3, <1>5
  <2> QED
    BY <2>1 DEF CreditMatchesAt
<1> QED
  BY <1>1, <1>3, <1>4, <1>5, <1>6 DEF Settles

-----------------------------------------------------------------------------
(* A refund and a burn take the same from the vault: the one records what   *)
(* is left in transferOut, the other in syncTokenBalance.                   *)
LEMMA BurnType ==
  ASSUME NEW v \in BankType(Tokens), NEW t \in Tokens, NEW n \in Nat,
         CanTransferOut(v, t, n)
  PROVE  BurnAndSync(v, t, n) = TransferOut(v, t, n)
<1>1. v = [balance |-> v.balance, tokenBalances |-> v.tokenBalances]
      /\ v.balance \in [Tokens -> Nat]
  BY DEF BankType
<1> DEFINE burnt == [v.balance EXCEPT ![t] = v.balance[t] - n]
<1>2. burnt[t] = v.balance[t] - n
  BY <1>1
<1>3. Burn(v, t, n) = [balance |-> burnt, tokenBalances |-> v.tokenBalances]
  BY <1>1 DEF Burn
<1>4. BurnAndSync(v, t, n) =
        [balance |-> burnt, tokenBalances |-> [v.tokenBalances EXCEPT ![t] = burnt[t]]]
  BY <1>3 DEF BurnAndSync, RecordTransferIn
<1>5. TransferOut(v, t, n) =
        [balance |-> burnt, tokenBalances |-> [v.tokenBalances EXCEPT ![t] = v.balance[t] - n]]
  BY DEF TransferOut
<1> HIDE DEF burnt
<1> QED
  BY <1>2, <1>4, <1>5

(* What execution and cancellation share: the withdrawal leaves the store,  *)
(* its market tokens leave the vault, and the fee waits in the transaction. *)
LEMMA LeaveInv ==
  ASSUME IInv, NEW k \in Keys, tx = NoTx, Stored(k), NEW op \in {"cancel", "execute", "fail"},
         NEW keeper \in Accounts \cup OrderKeepers, NEW prices \in Prices, NEW left,
         left = TransferOut(vault, withdrawals[k].market, withdrawals[k].marketTokenAmount),
         Leaves(k, op, keeper, prices, left)
  PROVE  /\ IInv' /\ Settles(k) /\ ~Stored(k)' /\ nonce' = nonce
         /\ tx' # NoTx /\ tx'.key = k /\ tx'.op = op /\ tx'.prices = prices
<1> DEFINE w      == withdrawals[k]
           token  == w.market
           amount == w.marketTokenAmount
           fee    == w.executionFee
           d      == [t \in Tokens |-> IF t = token THEN amount ELSE 0]
<1> USE DEF IInv
<1>1. w \in Withdrawal
  BY DEF TypeOK, Stored
<1>2. amount \in Nat /\ fee \in Nat /\ token \in Tokens
  BY <1>1 DEF Withdrawal, Tokens
<1>3. /\ tx' = [key |-> k, op |-> op, executionFee |-> fee, keeper |-> keeper, prices |-> prices]
      /\ withdrawals' = [withdrawals EXCEPT ![k] = NoWithdrawal]
      /\ CanTransferOut(vault, token, amount) /\ left = TransferOut(vault, token, amount)
      /\ vault' = left
      /\ credit' = [credit EXCEPT ![k] =
           [t \in Tokens |-> credit[k][t] - (vault.balance[t] - left.balance[t])]]
      /\ UNCHANGED <<nonce, block>>
  BY DEF Leaves
<1>4. vault \in BankType(Tokens) /\ Covered(vault, Tokens)
  BY DEF TypeOK, VaultCovered
<1> HIDE DEF token, amount, fee
<1>5. /\ left \in BankType(Tokens)
      /\ left.balance = [vault.balance EXCEPT ![token] = vault.balance[token] - amount]
      /\ left.tokenBalances =
           [vault.tokenBalances EXCEPT ![token] = vault.balance[token] - amount]
      /\ Covered(left, Tokens)
  BY <1>2, <1>3, <1>4, TransferOutType
<1>6. \A t \in Tokens : left.tokenBalances[t] - vault.tokenBalances[t]
                          >= 0 - (IF t = token THEN amount ELSE 0)
  BY <1>2, <1>3, <1>4, TransferOutBook
<1>7. vault' \in BankType(Tokens) /\ VaultCovered'
  BY <1>3, <1>5 DEF VaultCovered
<1>8. d \in [Tokens -> Int]
  BY <1>2
<1>9. ASSUME NEW t \in Tokens
      PROVE  /\ vault'.tokenBalances[t] - vault.tokenBalances[t] >= 0 - d[t]
             /\ vault.balance[t] - left.balance[t] = d[t]
  <2>1. vault.balance \in [Tokens -> Nat]
    BY <1>4 DEF BankType
  <2> QED
    BY <1>2, <1>3, <1>5, <1>6, <2>1
<1>10. /\ credit' \in [Keys -> [Tokens -> Int]]
       /\ \A j \in Keys \ {k} : credit'[j] = credit[j]
       /\ \A t \in Tokens : credit'[k][t] = credit[k][t] - d[t]
  <2> HIDE DEF d
  <2>1. \A t \in Tokens : vault.balance[t] - left.balance[t] \in Int
    BY <1>8, <1>9
  <2>2. [t \in Tokens |-> credit[k][t] - (vault.balance[t] - left.balance[t])] \in [Tokens -> Int]
    BY <2>1 DEF TypeOK
  <2> QED
    BY <1>3, <1>9, <2>2 DEF TypeOK
<1>11. tx' \in Transaction /\ tx'.key = k /\ tx'.executionFee = fee /\ tx' # NoTx /\ ~Stored(k)'
       /\ tx'.op = op /\ tx'.prices = prices
  BY <1>2, <1>3 DEF Transaction, Stored, TypeOK, WithdrawalAbsentAssumption
<1>12. IInv'
  <2>1. TypeOK'
    BY <1>3, <1>7, <1>10, <1>11 DEF TypeOK
  <2>2. KeysIssued'
    BY <1>3, <1>11 DEF KeysIssued, Stored, TypeOK
  <2> QED
    BY <1>7, <2>1, <2>2
<1>13. ASSUME NEW t \in Tokens
       PROVE  Owed(k, t)' + InFlight(k, t)' = Owed(k, t) + InFlight(k, t) - d[t]
  <2>1. Owed(k, t)' = 0 /\ InFlight(k, t) = 0
    BY <1>11 DEF Owed, InFlight
  <2>2. InFlight(k, t)' = IF t = WNT THEN fee ELSE 0
    BY <1>11 DEF InFlight
  <2>3. Owed(k, t) = (IF token = t THEN amount ELSE 0) + (IF t = WNT THEN fee ELSE 0)
    BY DEF Owed, token, amount, fee
  <2> QED
    BY <1>2, <2>1, <2>2, <2>3
<1>14. Settles(k)
  <2>1. \A t \in Tokens :
           /\ Owed(k, t)' + InFlight(k, t)' = Owed(k, t) + InFlight(k, t) - d[t]
           /\ credit'[k][t] = credit[k][t] - d[t]
           /\ vault'.tokenBalances[t] - vault.tokenBalances[t] >= 0 - d[t]
    BY <1>9, <1>10, <1>13
  <2>2. \A j \in Keys \ {k} : withdrawals'[j] = withdrawals[j] /\ credit'[j] = credit[j]
    BY <1>3, <1>10 DEF TypeOK
  <2> HIDE DEF d, IInv
  <2> QED
    BY <1>8, <1>11, <1>12, <2>1, <2>2, SettlesBy
<1> QED
  BY <1>3, <1>11, <1>12, <1>14

(* Executing burns what cancelling would have sent back.                    *)
LEMMA OutInv ==
  ASSUME IInv, NEW k \in Keys, tx = NoTx, Stored(k), NEW op \in {"cancel", "execute", "fail"},
         NEW keeper \in Accounts \cup OrderKeepers, NEW prices \in Prices,
         \/ Leaves(k, op, keeper, prices,
                   TransferOut(vault, withdrawals[k].market, withdrawals[k].marketTokenAmount))
         \/ Leaves(k, op, keeper, prices,
                   BurnAndSync(vault, withdrawals[k].market, withdrawals[k].marketTokenAmount))
  PROVE  /\ IInv' /\ Settles(k) /\ ~Stored(k)' /\ nonce' = nonce
         /\ tx' # NoTx /\ tx'.key = k /\ tx'.op = op /\ tx'.prices = prices
<1>1. /\ withdrawals[k].market \in Tokens /\ withdrawals[k].marketTokenAmount \in Nat
      /\ vault \in BankType(Tokens)
  BY DEF IInv, TypeOK, Stored, Withdrawal, Tokens
<1>2. CanTransferOut(vault, withdrawals[k].market, withdrawals[k].marketTokenAmount)
  BY DEF Leaves
<1>3. BurnAndSync(vault, withdrawals[k].market, withdrawals[k].marketTokenAmount)
        = TransferOut(vault, withdrawals[k].market, withdrawals[k].marketTokenAmount)
  BY <1>1, <1>2, BurnType
<1> QED
  BY <1>3, LeaveInv

LEMMA ExecuteInv ==
  ASSUME IInv, NEW k \in Keys, NEW keeper \in OrderKeepers, NEW prices \in Prices,
         ExecuteWithdrawal(k, keeper, prices)
  PROVE  /\ IInv' /\ Settles(k) /\ Stored(k) /\ tx = NoTx /\ nonce' = nonce
         /\ tx' # NoTx /\ tx'.key = k
         /\ tx'.op # "cancel" /\ WithinRange(tx'.prices, withdrawals[k].updatedAtBlock)
<1> DEFINE sent  == TransferOut(vault, withdrawals[k].market, withdrawals[k].marketTokenAmount)
           burnt == BurnAndSync(vault, withdrawals[k].market, withdrawals[k].marketTokenAmount)
<1>1. tx = NoTx /\ Stored(k)
  BY DEF ExecuteWithdrawal
<1>2. PICK op \in {"execute", "fail"} :
        Leaves(k, op, keeper, prices, sent) \/ Leaves(k, op, keeper, prices, burnt)
  BY DEF ExecuteWithdrawal, ExecutionSucceeds, RemoveAndRefund
<1>3. WithinRange(prices, withdrawals[k].updatedAtBlock)
  <2>1. ASSUME NEW error \in Errors(k, prices), ~Reverts(error),
               ~WithinRange(prices, withdrawals[k].updatedAtBlock)
        PROVE  FALSE
    BY <2>1 DEF Errors, Reverts
  <2> QED
    BY <2>1 DEF ExecuteWithdrawal, ExecutionSucceeds
<1> QED
  BY <1>1, <1>2, <1>3, OutInv

LEMMA CancelInv ==
  ASSUME IInv, NEW k \in Keys, CancelWithdrawal(k)
  PROVE  /\ IInv' /\ Settles(k) /\ Stored(k) /\ tx = NoTx /\ nonce' = nonce
         /\ tx' # NoTx /\ tx'.key = k /\ tx'.op = "cancel"
         /\ Expired(withdrawals[k].updatedAtBlock, block, ExpirationAge)
<1>1. /\ tx = NoTx /\ Stored(k)
      /\ Leaves(k, "cancel", withdrawals[k].account, {},
                TransferOut(vault, withdrawals[k].market, withdrawals[k].marketTokenAmount))
      /\ Expired(withdrawals[k].updatedAtBlock, block, ExpirationAge)
  BY DEF CancelWithdrawal, RemoveAndRefund
<1>2. withdrawals[k].account \in Accounts
  BY <1>1 DEF IInv, TypeOK, Stored, Withdrawal
<1>3. {} \in Prices
  BY FS_EmptySet DEF Prices, ReportSets, WithdrawalsAssumption
<1> QED
  BY <1>1, <1>2, <1>3, OutInv

(* The execution fee leaves the vault, and with it the transaction's claim. *)
LEMMA PayInv ==
  ASSUME IInv, tx # NoTx, NEW n \in 0..tx.executionFee, PayExecutionFee(n)
  PROVE  /\ IInv' /\ tx.key \in Keys /\ tx.key <= nonce
         /\ \A k \in Keys : k = tx.key => Settles(k)
         /\ tx' = NoTx /\ UNCHANGED <<withdrawals, nonce>>
<1> DEFINE fee == tx.executionFee
           paid == PayFee(vault, WNT, fee, n)
<1> USE DEF IInv
<1>1. tx.key \in Keys /\ fee \in Nat /\ WNT \in Tokens
  BY DEF TypeOK, Transaction, Tokens
<1>2. /\ CanTransferOut(vault, WNT, fee)
      /\ vault' = paid
      /\ credit' = [credit EXCEPT ![tx.key] = [credit[tx.key] EXCEPT ![WNT] =
                      credit[tx.key][WNT] - (vault.balance[WNT] - vault'.balance[WNT])]]
      /\ tx' = NoTx
      /\ UNCHANGED <<withdrawals, nonce, block>>
  BY DEF PayExecutionFee
<1>3. vault \in BankType(Tokens) /\ Covered(vault, Tokens)
  BY DEF TypeOK, VaultCovered
<1>4. vault.balance \in [Tokens -> Nat] /\ vault.tokenBalances \in [Tokens -> Nat]
  BY <1>3 DEF BankType
<1>5. /\ paid \in BankType(Tokens) /\ Covered(paid, Tokens)
      /\ paid.balance = [vault.balance EXCEPT ![WNT] = vault.balance[WNT] - fee]
      /\ paid.tokenBalances = [vault.tokenBalances EXCEPT ![WNT] = vault.balance[WNT] - fee]
  BY <1>1, <1>2, <1>3, PayFeeType
<1> HIDE DEF paid
<1>6. vault' \in BankType(Tokens) /\ Covered(vault, Tokens)'
  BY <1>2, <1>5 DEF Covered
<1>7. vault.balance[WNT] - vault'.balance[WNT] = fee
  BY <1>1, <1>2, <1>4, <1>5
<1> HIDE DEF fee
<1>8. /\ credit' \in [Keys -> [Tokens -> Int]]
      /\ \A j \in Keys \ {tx.key} : credit'[j] = credit[j]
      /\ \A t \in Tokens :
           credit'[tx.key][t] = credit[tx.key][t] - (IF t = WNT THEN fee ELSE 0)
  BY <1>1, <1>2, <1>7 DEF TypeOK
<1>9. IInv'
  BY <1>2, <1>6, <1>8 DEF TypeOK, KeysIssued, Stored, VaultCovered
<1>10. ASSUME NEW t \in Tokens
       PROVE  vault'.tokenBalances[t] - vault.tokenBalances[t]
                >= 0 - (IF t = WNT THEN fee ELSE 0)
  <2>1. vault.tokenBalances[t] <= vault.balance[t]
    BY <1>3 DEF Covered
  <2> QED
    BY <1>1, <1>2, <1>4, <1>5, <2>1
<1>11. ASSUME NEW k \in Keys, k = tx.key, NEW t \in Tokens
       PROVE  Owed(k, t)' + InFlight(k, t)'
                = Owed(k, t) + InFlight(k, t) - (IF t = WNT THEN fee ELSE 0)
  <2>1. Owed(k, t)' = Owed(k, t)
    BY <1>2 DEF Owed, Stored
  <2>2. Owed(k, t) \in Nat
    BY OwedType
  <2>3. InFlight(k, t)' = 0 /\ InFlight(k, t) = IF t = WNT THEN fee ELSE 0
    BY <1>2, <1>11 DEF InFlight, fee
  <2> QED
    BY <1>1, <2>1, <2>2, <2>3
<1>12. ASSUME NEW k \in Keys, k = tx.key PROVE Settles(k)
  <2> DEFINE d == [t \in Tokens |-> IF t = WNT THEN fee ELSE 0]
  <2>1. d \in [Tokens -> Int]
    BY <1>1
  <2>2. \A t \in Tokens :
           /\ Owed(k, t)' + InFlight(k, t)' = Owed(k, t) + InFlight(k, t) - d[t]
           /\ credit'[k][t] = credit[k][t] - d[t]
           /\ vault'.tokenBalances[t] - vault.tokenBalances[t] >= 0 - d[t]
    BY <1>8, <1>10, <1>11, <1>12
  <2>3. \A j \in Keys \ {k} : withdrawals'[j] = withdrawals[j] /\ credit'[j] = credit[j]
    BY <1>2, <1>8, <1>12
  <2> HIDE DEF d, IInv
  <2> QED
    BY <1>2, <1>9, <1>12, <2>1, <2>2, <2>3, SettlesBy
<1> QED
  BY <1>1, <1>2, <1>9, <1>12 DEF KeysIssued

-----------------------------------------------------------------------------
LEMMA NextInv == IInv /\ [Next]_vars => IInv'
<1> SUFFICES ASSUME IInv, [Next]_vars PROVE IInv'
  OBVIOUS
<1>1. ASSUME NEW n \in 0..(IF tx = NoTx THEN 0 ELSE tx.executionFee), PayExecutionFee(n)
      PROVE  IInv'
  <2>1. tx # NoTx
    BY <1>1 DEF PayExecutionFee
  <2> QED
    BY <1>1, <2>1, PayInv
<1>2. CASE UNCHANGED vars
  BY <1>2 DEF vars, IInv, TypeOK, VaultCovered, Covered, KeysIssued, Stored
<1> QED
  BY <1>1, <1>2, TransferInv, NextBlockInv, CreateInv, CancelInv, ExecuteInv DEF Next

(* The inductive invariant holds in every reachable state: the vault        *)
(* records no more than it holds, and only keys handed out are in use.      *)
LEMMA WithdrawalsInvariant == Spec => []IInv
BY InitInv, NextInv, PTL DEF Spec

(* Every step settles one key, or touches no withdrawal, transaction,       *)
(* credit or recorded balance.                                              *)
LEMMA StepSettles ==
  ASSUME IInv, [Next]_vars
  PROVE  \/ UNCHANGED <<withdrawals, nonce, tx, credit, vault.tokenBalances>>
         \/ \E k \in Keys : /\ Settles(k)
                            /\ \/ k = nonce + 1 /\ nonce' = nonce + 1 /\ Stored(k)'
                               \/ /\ nonce' = nonce /\ Stored(k)
                                  /\ tx' # NoTx /\ tx'.key = k
                               \/ /\ nonce' = nonce /\ tx # NoTx /\ tx.key = k
                                  /\ tx' = NoTx /\ (Stored(k)' <=> Stored(k))
<1>1. ASSUME NEW t \in Tokens, NEW n \in 1..MaxAmount, Transfer(t, n)
      PROVE  UNCHANGED <<withdrawals, nonce, tx, credit, vault.tokenBalances>>
  BY <1>1 DEF Transfer, TransferIn
<1>2. ASSUME NextBlock \/ UNCHANGED vars
      PROVE  UNCHANGED <<withdrawals, nonce, tx, credit, vault.tokenBalances>>
  BY <1>2 DEF NextBlock, vars
<1>3. ASSUME NEW a \in Accounts, NEW market \in MarketTokens, NEW fee \in Amounts,
             CreateWithdrawal(a, market, fee)
      PROVE  \E k \in Keys : Settles(k) /\ k = nonce + 1 /\ nonce' = nonce + 1 /\ Stored(k)'
  <2>1. PICK k \in Keys : k = nonce + 1
    BY <1>3, CreateInv
  <2> QED
    BY <1>3, <2>1, CreateSettles
<1>4. ASSUME NEW k \in Keys, CancelWithdrawal(k)
      PROVE  Settles(k) /\ nonce' = nonce /\ Stored(k) /\ tx' # NoTx /\ tx'.key = k
  BY <1>4, CancelInv
<1>5. ASSUME NEW k \in Keys, NEW keeper \in OrderKeepers, NEW prices \in Prices,
             ExecuteWithdrawal(k, keeper, prices)
      PROVE  Settles(k) /\ nonce' = nonce /\ Stored(k) /\ tx' # NoTx /\ tx'.key = k
  BY <1>5, ExecuteInv
<1>6. ASSUME NEW n \in 0..(IF tx = NoTx THEN 0 ELSE tx.executionFee), PayExecutionFee(n)
      PROVE  \E k \in Keys : /\ Settles(k) /\ nonce' = nonce /\ tx # NoTx /\ tx.key = k
                             /\ tx' = NoTx /\ (Stored(k)' <=> Stored(k))
  <2>1. tx # NoTx
    BY <1>6 DEF PayExecutionFee
  <2>2. PICK k \in Keys : k = tx.key
    BY <1>6, <2>1, PayInv
  <2>3. Settles(k) /\ tx' = NoTx /\ nonce' = nonce /\ (Stored(k)' <=> Stored(k))
    BY <1>6, <2>1, <2>2, PayInv DEF Stored
  <2> QED
    BY <2>1, <2>2, <2>3
<1> QED
  BY <1>1, <1>2, <1>3, <1>4, <1>5, <1>6 DEF Next

-----------------------------------------------------------------------------
ClaimsTyped == \A k \in Keys : Claim(k) \in [Tokens -> Nat]

LEMMA InvClaims == IInv => ClaimsTyped
BY InvParts DEF Claim, ClaimsTyped, PartsTyped

LEMMA SettlesBook ==
  ASSUME IInv, IInv', NEW k \in Keys, Settles(k)
  PROVE  E!Book(k)
<1>0. ClaimsTyped'
  BY InvClaims, PTL
<1>1. \A j \in Keys : Claim(j)' \in [Tokens -> Nat]
  BY <1>0 DEF ClaimsTyped
<1>2. ASSUME NEW j \in Keys \ {k} PROVE Claim(j)' = Claim(j)
  <2>1. \A t \in Tokens : InFlight(j, t) = 0 /\ InFlight(j, t)' = 0
    BY DEF Settles, InFlight
  <2>2. \A t \in Tokens : Owed(j, t)' = Owed(j, t)
    BY DEF Settles, Owed, Stored
  <2> QED
    BY <2>1, <2>2 DEF Claim
<1>3. vault'.tokenBalances \in [Tokens -> Nat]
  BY DEF IInv, TypeOK, BankType
<1>4. \A t \in Tokens : vault'.tokenBalances[t] - vault.tokenBalances[t]
                         >= Claim(k)'[t] - Claim(k)[t]
  BY DEF Settles, Claim
<1> QED
  BY <1>1, <1>2, <1>3, <1>4 DEF E!Book

LEMMA InitEscrow == Init => E!EscrowInit
BY DEF Init, E!EscrowInit, E!NoClaim, EscrowState, Claim, Owed, InFlight, Stored,
       EmptyBank

LEMMA Opens ==
  ASSUME IInv, IInv', NEW k \in Keys, Settles(k), k = nonce + 1, nonce' = nonce + 1, Stored(k)'
  PROVE  E!Open(k)
<1>1. EscrowState(k) = "new" /\ EscrowState(k)' = "open"
  BY DEF EscrowState, IInv, TypeOK
<1>2. ASSUME NEW j \in Keys \ {k} PROVE EscrowState(j)' = EscrowState(j)
  BY DEF Settles, EscrowState, Stored, IInv, TypeOK
<1> QED
  BY <1>1, <1>2, SettlesBook DEF E!Open

LEMMA Adjusts ==
  ASSUME IInv, IInv', NEW k \in Keys, Settles(k), nonce' = nonce,
         Stored(k) \/ (tx # NoTx /\ tx.key = k),
         Stored(k)' \/ (tx' # NoTx /\ tx'.key = k)
  PROVE  E!Adjust(k)
<1>1. EscrowState(k) = "open" /\ EscrowState(k)' = "open"
  BY DEF EscrowState, IInv, TypeOK, KeysIssued
<1>2. ASSUME NEW j \in Keys \ {k} PROVE EscrowState(j)' = EscrowState(j)
  BY DEF Settles, EscrowState, Stored
<1> QED
  BY <1>1, <1>2, SettlesBook DEF E!Adjust

LEMMA Closes ==
  ASSUME IInv, IInv', NEW k \in Keys, Settles(k), nonce' = nonce,
         tx # NoTx /\ tx.key = k, ~Stored(k)', tx' = NoTx
  PROVE  E!Close(k)
<1>1. EscrowState(k) = "open" /\ EscrowState(k)' = "closed"
  BY DEF EscrowState, IInv, TypeOK, KeysIssued
<1>2. ASSUME NEW j \in Keys \ {k} PROVE EscrowState(j)' = EscrowState(j)
  BY DEF Settles, EscrowState, Stored
<1>3. Claim(k)' = [t \in Tokens |-> 0]
  BY DEF Claim, Owed, InFlight
<1> QED
  BY <1>1, <1>2, <1>3, SettlesBook DEF E!Close, E!NoClaim

(* Every step of the handlers is a step of the escrow on one key, or leaves *)
(* the escrow alone.                                                        *)
LEMMA StepImplements ==
  ASSUME IInv, [Next]_vars
  PROVE  [E!EscrowNext]_(E!escrowVars)
<1>1. IInv'
  BY NextInv
<1>2. CASE UNCHANGED <<withdrawals, nonce, tx, credit, vault.tokenBalances>>
  BY <1>2 DEF E!escrowVars, EscrowState, Stored, Claim, Owed, InFlight
<1>3. ASSUME NEW k \in Keys, Settles(k), k = nonce + 1, nonce' = nonce + 1, Stored(k)'
      PROVE  E!EscrowNext
  BY <1>1, <1>3, Opens DEF E!EscrowNext
<1>4. ASSUME NEW k \in Keys, Settles(k), nonce' = nonce, Stored(k), tx' # NoTx, tx'.key = k
      PROVE  E!EscrowNext
  BY <1>1, <1>4, Adjusts DEF E!EscrowNext
<1>5. ASSUME NEW k \in Keys, Settles(k), nonce' = nonce, tx # NoTx, tx.key = k, tx' = NoTx,
             Stored(k)' <=> Stored(k)
      PROVE  E!EscrowNext
  BY <1>1, <1>5, Adjusts, Closes DEF E!EscrowNext
<1> QED
  BY <1>2, <1>3, <1>4, <1>5, StepSettles

(* The withdrawal handlers implement Escrow, for any number of keys,        *)
(* accounts, tokens, keepers and blocks: no key is opened twice or          *)
(* reopened, and no step touches the money of another key.                  *)
THEOREM WithdrawalsImplementEscrow == Spec => ImplementsEscrow
BY WithdrawalsInvariant, InitEscrow, StepImplements, PTL DEF Spec, ImplementsEscrow, E!EscrowSpec

-----------------------------------------------------------------------------
(* Settling one key keeps what is owed covered: one summand moves, and the  *)
(* recorded balance moves at least as far.                                  *)
OwedCovered == \A t \in Tokens : OwedInAll(t) <= vault.tokenBalances[t]

LEMMA CoveredStep == IInv /\ OwedCovered /\ [Next]_vars => OwedCovered'
<1> SUFFICES ASSUME IInv, OwedCovered, [Next]_vars, NEW t \in Tokens
             PROVE  OwedInAll(t)' <= vault'.tokenBalances[t]
  BY DEF OwedCovered
<1> DEFINE row  == [j \in Keys |-> Claim(j)[t]]
           next == [j \in Keys |-> Claim(j)'[t]]
<1>1. OwedInAll(t) = Total(row) /\ OwedInAll(t)' = Total(next)
  BY DEF OwedInAll, Claim
<1>2. IsFiniteSet(Keys)
  BY FS_Interval DEF Keys, WithdrawalsAssumption
<1>3. vault.tokenBalances \in [Tokens -> Nat] /\ row \in [Keys -> Nat]
  <2>1. vault.tokenBalances \in [Tokens -> Nat]
    BY DEF IInv, TypeOK, BankType
  <2>2. \A j \in Keys : Claim(j)[t] \in Nat
    BY InvClaims DEF ClaimsTyped
  <2> QED
    BY <2>1, <2>2
<1>4. ASSUME NEW k \in Keys, E!Book(k) PROVE Total(next) <= vault'.tokenBalances[t]
  <2>1. /\ \A j \in Keys : Claim(j)' \in [Tokens -> Nat]
        /\ vault'.tokenBalances \in [Tokens -> Nat]
        /\ \A j \in Keys \ {k} : Claim(j)' = Claim(j)
        /\ vault'.tokenBalances[t] - vault.tokenBalances[t] >= Claim(k)'[t] - Claim(k)[t]
    BY <1>4 DEF E!Book
  <2>2. /\ next \in [Keys -> Nat]
        /\ \A j \in Keys \ {k} : next[j] = row[j]
        /\ vault'.tokenBalances[t] - vault.tokenBalances[t] >= next[k] - row[k]
    BY <2>1
  <2>3. Total(row) <= vault.tokenBalances[t]
    BY <1>1 DEF OwedCovered
  <2>4. vault.tokenBalances[t] \in Nat /\ vault'.tokenBalances[t] \in Nat
    BY <1>3, <2>1
  <2> DEFINE b == vault.tokenBalances[t]
             c == vault'.tokenBalances[t]
  <2>5. b \in Nat /\ c \in Nat /\ Total(row) <= b /\ c - b >= next[k] - row[k]
    BY <2>2, <2>3, <2>4
  <2>6. next \in [Keys -> Nat] /\ row \in [Keys -> Nat] /\ \A j \in Keys \ {k} : next[j] = row[j]
    BY <1>3, <2>2
  <2> HIDE DEF row, next, b, c
  <2>7. Total(next) <= c
    BY <1>2, <2>5, <2>6, TotalCovered
  <2> QED
    BY <2>7 DEF b, c
<1>5. CASE UNCHANGED E!escrowVars
  <2>1. vault'.tokenBalances = vault.tokenBalances /\ \A j \in Keys : Claim(j)' = Claim(j)
    BY <1>5 DEF E!escrowVars
  <2> QED
    BY <1>1, <2>1 DEF OwedCovered
<1> QED
  BY <1>1, <1>4, <1>5, StepImplements DEF E!EscrowNext, E!Open, E!Adjust, E!Close

LEMMA InitCovered == Init => OwedCovered
<1> SUFFICES ASSUME Init, NEW t \in Tokens PROVE OwedInAll(t) <= vault.tokenBalances[t]
  BY DEF OwedCovered
<1> DEFINE row == [k \in Keys |-> Owed(k, t) + InFlight(k, t)]
<1>1. IsFiniteSet(Keys)
  BY FS_Interval DEF Keys, WithdrawalsAssumption
<1>2. row \in [Keys -> Nat] /\ \A k \in Keys : row[k] = 0
  BY DEF Init, Owed, InFlight, Stored
<1>3. vault.tokenBalances[t] = 0
  BY DEF Init, EmptyBank
<1>4. OwedInAll(t) = Total(row)
  BY DEF OwedInAll
<1> HIDE DEF row
<1> QED
  BY <1>1, <1>2, <1>3, <1>4, TotalZero

(* The WithdrawalVault covers every stored withdrawal and the pending fee   *)
(* at all times, whichever side the fee was carved out of and whatever      *)
(* arrived unasked.                                                         *)
THEOREM WithdrawalsSolvent == Spec => []Solvent
BY WithdrawalsInvariant, NextInv, InitCovered, CoveredStep, PTL
   DEF Spec, Solvent, OwedCovered, IInv, VaultCovered

-----------------------------------------------------------------------------
(* Settling k keeps the books of k, and the claims and credits of all other *)
(* keys are untouched.                                                      *)
LEMMA SettlesCredit ==
  ASSUME CreditMatches, NEW k \in Keys, Settles(k)
  PROVE  CreditMatches'
<1>1. CreditMatchesAt(k)'
  BY DEF CreditMatches, CreditMatchesAt, Settles
<1>2. ASSUME NEW j \in Keys \ {k}, NEW t \in Tokens
      PROVE  credit'[j][t] = Owed(j, t)' + InFlight(j, t)'
  <2>1. InFlight(j, t) = 0 /\ InFlight(j, t)' = 0
    BY DEF Settles, InFlight
  <2>2. Owed(j, t)' = Owed(j, t) /\ credit'[j] = credit[j]
    BY DEF Settles, Owed, Stored
  <2>3. credit[j][t] = Owed(j, t) + InFlight(j, t)
    BY DEF CreditMatches
  <2> QED
    BY <2>1, <2>2, <2>3
<1> QED
  BY <1>1, <1>2 DEF CreditMatches, CreditMatchesAt

(* Each withdrawal gets out of the vault exactly what was recorded for it.  *)
THEOREM WithdrawalsCreditMatch == Spec => []CreditMatches
<1>1. Init => CreditMatches
  BY DEF Init, CreditMatches, Owed, InFlight, Stored
<1>2. ASSUME CreditMatches, UNCHANGED <<withdrawals, tx, credit>> PROVE CreditMatches'
  BY <1>2 DEF CreditMatches, Owed, InFlight, Stored
<1>3. IInv /\ CreditMatches /\ [Next]_vars => CreditMatches'
  BY <1>2, StepSettles, SettlesCredit
<1> QED
  BY <1>1, <1>3, WithdrawalsInvariant, PTL DEF Spec

-----------------------------------------------------------------------------
(* A step that changes a stored withdrawal is its account's cancellation or *)
(* a keeper's execution of that withdrawal.                                 *)
LEMMA OptionStep ==
  ASSUME IInv, [Next]_vars, NEW k \in Keys, Stored(k), withdrawals'[k] # withdrawals[k]
  PROVE  IF tx'.op = "cancel"
           THEN Expired(withdrawals[k].updatedAtBlock, block, ExpirationAge)
           ELSE WithinRange(tx'.prices, withdrawals[k].updatedAtBlock)
<1>1. ASSUME NEW j \in Keys, Settles(j) PROVE k = j
  BY <1>1 DEF Settles
<1>2. ASSUME NEW j \in Keys, CancelWithdrawal(j)
      PROVE  tx'.op = "cancel" /\ Expired(withdrawals[k].updatedAtBlock, block, ExpirationAge)
  <2>1. k = j
    BY <1>1, <1>2, CancelInv
  <2> QED
    BY <1>2, <2>1, CancelInv
<1>3. ASSUME NEW j \in Keys, NEW keeper \in OrderKeepers, NEW prices \in Prices,
             ExecuteWithdrawal(j, keeper, prices)
      PROVE  tx'.op # "cancel" /\ WithinRange(tx'.prices, withdrawals[k].updatedAtBlock)
  <2>1. k = j
    BY <1>1, <1>3, ExecuteInv
  <2> QED
    BY <1>3, <2>1, ExecuteInv
<1>4. ASSUME NEW a \in Accounts, NEW market \in MarketTokens, NEW fee \in Amounts,
             CreateWithdrawal(a, market, fee)
      PROVE  FALSE
  <2>1. nonce' = nonce + 1 /\ \A j \in Keys \ {nonce'} : withdrawals'[j] = withdrawals[j]
    BY <1>4, CreateInv
  <2>2. k # nonce'
    BY <2>1 DEF IInv, KeysIssued, TypeOK
  <2> QED
    BY <2>1, <2>2
<1>5. ASSUME NEW t, NEW n, Transfer(t, n) \/ NextBlock \/ PayExecutionFee(n) \/ UNCHANGED vars
      PROVE  FALSE
  BY <1>5 DEF Transfer, NextBlock, PayExecutionFee, vars
<1> QED
  BY <1>2, <1>3, <1>4, <1>5 DEF Next

(* For every expiration age and any number of reports: a withdrawal leaves  *)
(* the store only with prices of the block it was made at, or once expired. *)
THEOREM WithdrawalsNoFreeOption == Spec => NoFreeOption
<1>1. IInv /\ [Next]_vars =>
        [\A k \in Keys :
           Stored(k) /\ withdrawals'[k] # withdrawals[k] =>
             IF tx'.op = "cancel"
               THEN Expired(withdrawals[k].updatedAtBlock, block, ExpirationAge)
               ELSE WithinRange(tx'.prices, withdrawals[k].updatedAtBlock)]_vars
  BY OptionStep
<1> QED
  BY <1>1, WithdrawalsInvariant, PTL DEF Spec, NoFreeOption
=============================================================================
