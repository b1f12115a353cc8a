------------------------ MODULE OrderLifecycle_proofs ------------------------
(* The order lifecycle for every set of accounts, tokens, keepers and order *)
(* types and every bound: types, the usability of stored orders, and the    *)
(* refinement of Escrow, from which the vault's solvency follows.           *)
EXTENDS OrderLifecycle, Ledger_proofs

(* tokenBalances never exceeds the ERC20 balance: without it a recorded     *)
(* transfer could be negative.                                              *)
VaultCovered == Covered(vault, Tokens)

(* Only keys already handed out are stored or pending.                      *)
KeysIssued ==
  /\ \A k \in Keys : Stored(k) => k <= nonce
  /\ tx # NoTx => tx.key <= nonce

(* The inductive invariant under the type, the refinement and solvency.     *)
IInv == TypeOK /\ VaultCovered /\ KeysIssued

USE OrdersAssumption, AbsentAssumption DEF Keys, Blocks

LEMMA OwedType ==
  ASSUME IInv, NEW k \in Keys, NEW t \in Tokens
  PROVE  Owed(k, t) \in Nat
<1>1. Stored(k) => orders[k] \in Order
  BY DEF IInv, TypeOK, Stored
<1> QED
  BY <1>1 DEF Owed, Order

PartsTyped == \A k \in Keys, t \in Tokens : Owed(k, t) \in Nat /\ InFlight(k, t) \in Nat

LEMMA InvParts == IInv => PartsTyped
BY OwedType DEF InFlight, IInv, TypeOK, Transaction, PartsTyped

LEMMA InitInv == Init => IInv
BY DEF Init, IInv, TypeOK, VaultCovered, KeysIssued, Stored, EmptyBank, BankType,
       NoPosition, Position, Covered

LEMMA TransferInv ==
  ASSUME IInv, NEW t \in Tokens, NEW n \in 1..MaxAmount, Transfer(t, n)
  PROVE  IInv'
<1>1. n \in Nat
  OBVIOUS
<1>2. vault' \in BankType(Tokens) /\ VaultCovered'
  BY <1>1, TransferInType DEF Transfer, IInv, TypeOK, VaultCovered
<1> QED
  BY <1>2 DEF Transfer, IInv, TypeOK, KeysIssued, Stored

LEMMA NextBlockInv == ASSUME IInv, NextBlock PROVE IInv'
BY DEF NextBlock, IInv, TypeOK, VaultCovered, KeysIssued, Stored

(* Creation records one or two transfers, and what it records is the        *)
(* collateral and the fee of the new order, and what it is credited with.   *)
LEMMA CreateInv ==
  ASSUME IInv, NEW a \in Accounts, NEW type \in OrderTypes, NEW token \in Tokens,
         NEW size \in {0, 1}, NEW amountParam \in Amounts, NEW feeParam \in Amounts,
         CreateOrder(a, type, token, size, amountParam, feeParam)
  PROVE  /\ IInv'
         /\ nonce' = nonce + 1 /\ nonce' \in Keys
         /\ orders'[nonce'] \in Order
         /\ \A k \in Keys \ {nonce'} : orders'[k] = orders[k] /\ credit'[k] = credit[k]
         /\ \A k \in Keys, t \in Tokens : k = nonce + 1 =>
              /\ vault'.tokenBalances[t] - vault.tokenBalances[t] = Owed(k, t)'
              /\ credit'[k][t] = Owed(k, t)'
<1> DEFINE escrows   == EscrowsCollateral(type)
           shared    == escrows /\ token = WNT
           received  == Received(vault, token)
           collected == IF escrows THEN RecordTransferIn(vault, token) ELSE vault
           last      == RecordTransferIn(collected, WNT)
           fee       == IF shared THEN feeParam ELSE Received(collected, WNT)
           amount    == IF ~escrows THEN amountParam
                        ELSE IF shared THEN received - feeParam ELSE received
           o         == [account |-> a, orderType |-> type, initialCollateralToken |-> token,
                         sizeDeltaUsd |-> size, initialCollateralDeltaAmount |-> amount,
                         executionFee |-> fee, updatedAtBlock |-> block, isFrozen |-> FALSE]
<1>0. /\ tx = NoTx /\ nonce < MaxNonce /\ nonce' = nonce + 1
      /\ shared => received >= feeParam
      /\ vault' = IF shared THEN collected ELSE last
      /\ orders' = [orders EXCEPT ![nonce + 1] = o]
      /\ credit' = [credit EXCEPT ![nonce + 1] =
                      [t \in Tokens |-> Recorded(vault', t) - Recorded(vault, t)]]
      /\ UNCHANGED <<positions, block, tx>>
  BY Zenon DEF CreateOrder
<1>1. /\ tx = NoTx /\ nonce < MaxNonce /\ nonce' = nonce + 1
      /\ shared => received >= feeParam
      /\ vault' = IF shared THEN collected ELSE last
      /\ orders' = [orders EXCEPT ![nonce'] = o]
      /\ credit' = [credit EXCEPT ![nonce'] =
                      [t \in Tokens |-> Recorded(vault', t) - Recorded(vault, t)]]
      /\ UNCHANGED <<positions, block, tx>>
  BY <1>0, Zenon
<1> USE DEF IInv
<1>2. feeParam \in Nat /\ amountParam \in Nat
  BY DEF Amounts
<1>3. vault \in BankType(Tokens) /\ received \in Nat
  BY RecordType DEF TypeOK, VaultCovered
<1>4. /\ collected \in BankType(Tokens) /\ collected.balance = vault.balance
      /\ Covered(collected, Tokens)
      /\ collected.tokenBalances =
           IF escrows THEN [vault.tokenBalances EXCEPT ![token] = vault.balance[token]]
                      ELSE vault.tokenBalances
  <2>1. CASE ~escrows
    BY <1>3, <2>1 DEF VaultCovered
  <2>2. CASE escrows
    BY <1>3, <2>2, RecordType DEF VaultCovered
  <2> QED
    BY <2>1, <2>2
<1> HIDE DEF collected
<1>5. /\ last \in BankType(Tokens) /\ last.balance = vault.balance
      /\ Received(collected, WNT) \in Nat
      /\ Covered(last, Tokens)
      /\ last.tokenBalances = [collected.tokenBalances EXCEPT ![WNT] = vault.balance[WNT]]
  <2>1. WNT \in Tokens
    BY DEF OrdersAssumption
  <2>2. /\ last \in BankType(Tokens) /\ last.balance = collected.balance
        /\ Received(collected, WNT) \in Nat
        /\ Covered(last, Tokens)
        /\ last.tokenBalances =
             [collected.tokenBalances EXCEPT ![WNT] = collected.balance[WNT]]
    <3>1. collected \in BankType(Tokens)
      BY <1>4
    <3>2. Covered(collected, Tokens)
      BY <1>4
    <3>3. last = RecordTransferIn(collected, WNT)
      OBVIOUS
    <3> HIDE DEF last
    <3> QED
      BY <2>1, <3>1, <3>2, <3>3, RecordType
  <2> QED
    BY <1>4, <2>2
<1> HIDE DEF last
<1>6. vault' \in BankType(Tokens) /\ VaultCovered'
  BY <1>1, <1>4, <1>5 DEF VaultCovered
<1>7. fee \in Nat /\ amount \in Nat
  BY <1>1, <1>2, <1>3, <1>5
<1> HIDE DEF received, fee, amount
<1>8. o \in Order
  BY <1>7 DEF Order, TypeOK, OrdersAssumption
<1>9. nonce' \in Keys
  BY <1>1 DEF TypeOK
<1>10. orders' \in [Keys -> Order \cup {NoOrder}] /\ orders'[nonce'] = o
  BY <1>1, <1>8, <1>9 DEF TypeOK
<1>11. credit' \in [Keys -> [Tokens -> Int]]
  <2>1. [t \in Tokens |-> Recorded(vault', t) - Recorded(vault, t)] \in [Tokens -> Int]
    BY <1>3, <1>6 DEF Recorded, BankType
  <2> QED
    BY <1>1, <1>9, <2>1 DEF TypeOK
<1>12. TypeOK'
  BY <1>1, <1>6, <1>9, <1>10, <1>11 DEF TypeOK
<1>13. KeysIssued'
  BY <1>1, <1>9, <1>10 DEF KeysIssued, Stored, TypeOK
<1>14. \A k \in Keys \ {nonce'} : orders'[k] = orders[k] /\ credit'[k] = credit[k]
  BY <1>1, <1>9 DEF TypeOK
<1>15. ASSUME NEW k \in Keys, NEW t \in Tokens, k = nonce + 1
       PROVE  vault'.tokenBalances[t] - vault.tokenBalances[t] = Owed(k, t)'
  <2>1. Owed(k, t)'      = (IF escrows /\ token = t THEN amount ELSE 0)
                           + (IF t = WNT THEN fee ELSE 0)
    BY <1>1, <1>8, <1>10, <1>15 DEF Owed, Stored
  <2>2. vault.balance \in [Tokens -> Nat] /\ vault.tokenBalances \in [Tokens -> Nat]
    BY <1>3 DEF BankType
  <2>3. vault.tokenBalances[t] <= vault.balance[t]
    BY DEF VaultCovered, Covered
  <2>4. CASE shared
    BY <1>1, <1>2, <1>4, <2>1, <2>2, <2>3, <2>4 DEF fee, amount, received, Received
  <2>5. CASE escrows /\ ~shared
    BY <1>1, <1>4, <1>5, <2>1, <2>2, <2>3, <2>5 DEF fee, amount, received, Received
  <2>6. CASE ~escrows
    BY <1>1, <1>4, <1>5, <2>1, <2>2, <2>3, <2>6 DEF fee, Received
  <2> QED
    BY <2>4, <2>5, <2>6
<1>16. ASSUME NEW k \in Keys, NEW t \in Tokens, k = nonce + 1
       PROVE  credit'[k][t] = vault'.tokenBalances[t] - vault.tokenBalances[t]
  BY <1>1, <1>9, <1>16 DEF TypeOK, Recorded
<1> QED
  BY <1>1, <1>6, <1>8, <1>9, <1>10, <1>12, <1>13, <1>14, <1>15, <1>16

(* The credit of k is its claim.                                            *)
CreditMatchesAt(k) == \A t \in Tokens : credit[k][t] = Owed(k, t) + InFlight(k, t)

(* A step settles k: no other order changes, no other transaction is        *)
(* pending, the recorded balances move at least as far as k's claim, and    *)
(* k's credit moves exactly as far.                                         *)
Settles(k) ==
  /\ \A j \in Keys \ {k} : orders'[j] = orders[j] /\ credit'[j] = credit[j]
  /\ tx = NoTx \/ tx.key = k
  /\ tx' = NoTx \/ tx'.key = k
  /\ CreditMatchesAt(k) => CreditMatchesAt(k)'
  /\ \A t \in Tokens :
       vault'.tokenBalances[t] - vault.tokenBalances[t]
         >= (Owed(k, t)' + InFlight(k, t)') - (Owed(k, t) + InFlight(k, t))

(* What a step takes off k's claim it takes off its credit, and at most     *)
(* that off the recorded balances.                                          *)
LEMMA SettlesBy ==
  ASSUME IInv, IInv', NEW k \in Keys, NEW d \in [Tokens -> Int],
         \A j \in Keys \ {k} : orders'[j] = orders[j] /\ credit'[j] = credit[j],
         tx = NoTx \/ tx.key = k, tx' = NoTx \/ tx'.key = k,
         \A t \in Tokens :
           /\ Owed(k, t)' + InFlight(k, t)' = Owed(k, t) + InFlight(k, t) - d[t]
           /\ credit'[k][t] = credit[k][t] - d[t]
           /\ vault'.tokenBalances[t] - vault.tokenBalances[t] >= 0 - d[t]
  PROVE  Settles(k)
<1>1. PartsTyped'
  BY InvParts, PTL
<1>2. ASSUME NEW t \in Tokens
      PROVE  /\ Owed(k, t) \in Nat /\ InFlight(k, t) \in Nat
             /\ Owed(k, t)' \in Nat /\ InFlight(k, t)' \in Nat
             /\ vault.tokenBalances[t] \in Nat /\ vault'.tokenBalances[t] \in Nat
  BY <1>1, InvParts DEF PartsTyped, IInv, TypeOK, BankType
<1>3. \A t \in Tokens :
        vault'.tokenBalances[t] - vault.tokenBalances[t]
          >= (Owed(k, t)' + InFlight(k, t)') - (Owed(k, t) + InFlight(k, t))
  BY <1>2
<1>4. ASSUME CreditMatchesAt(k), NEW t \in Tokens
      PROVE  credit'[k][t] = Owed(k, t)' + InFlight(k, t)'
  BY <1>2, <1>4 DEF CreditMatchesAt
<1>5. CreditMatchesAt(k) => CreditMatchesAt(k)'
  BY <1>4 DEF CreditMatchesAt
<1>6. \A j \in Keys \ {k} : orders'[j] = orders[j] /\ credit'[j] = credit[j]
  OBVIOUS
<1>7. (tx = NoTx \/ tx.key = k) /\ (tx' = NoTx \/ tx'.key = k)
  OBVIOUS
<1> QED
  BY <1>3, <1>5, <1>6, <1>7, Zenon DEF Settles

LEMMA CreateSettles ==
  ASSUME IInv, NEW a \in Accounts, NEW type \in OrderTypes, NEW token \in Tokens,
         NEW size \in {0, 1}, NEW amountParam \in Amounts, NEW feeParam \in Amounts,
         CreateOrder(a, type, token, size, amountParam, feeParam),
         NEW k \in Keys, k = nonce + 1
  PROVE  Settles(k) /\ Stored(k)' /\ nonce' = nonce + 1
<1>1. tx = NoTx /\ tx' = NoTx
  BY DEF CreateOrder
<1>2. ~Stored(k)
  BY DEF IInv, KeysIssued, TypeOK
<1>3. \A t \in Tokens : Owed(k, t) = 0 /\ InFlight(k, t) = 0 /\ InFlight(k, t)' = 0
  BY <1>1, <1>2 DEF Owed, InFlight
<1>4. /\ nonce' = nonce + 1 /\ orders'[k] \in Order
      /\ \A j \in Keys \ {k} : orders'[j] = orders[j] /\ credit'[j] = credit[j]
      /\ \A t \in Tokens : /\ vault'.tokenBalances[t] - vault.tokenBalances[t] = Owed(k, t)'
                            /\ credit'[k][t] = Owed(k, t)'
  BY CreateInv
<1>5. Stored(k)'
  BY <1>4 DEF Stored, AbsentAssumption
<1>6. \A t \in Tokens : Owed(k, t)' \in Nat
  BY <1>4 DEF Owed, Order
<1>7. CreditMatchesAt(k)'
  <2>1. ASSUME NEW t \in Tokens PROVE credit'[k][t] = Owed(k, t)' + InFlight(k, t)'
    BY <1>3, <1>4, <1>6
  <2> QED
    BY <2>1 DEF CreditMatchesAt
<1> QED
  BY <1>1, <1>3, <1>4, <1>5, <1>6, <1>7 DEF Settles

LEMMA UpdateInv ==
  ASSUME IInv, NEW k \in Keys, NEW size \in {0, 1}, UpdateOrder(k, size)
  PROVE  IInv' /\ Settles(k) /\ Stored(k) /\ Stored(k)'
<1> DEFINE topUp == Received(vault, WNT)
           fee   == orders[k].executionFee + topUp
           o     == [orders[k] EXCEPT !.sizeDeltaUsd = size, !.executionFee = fee,
                                      !.isFrozen = FALSE, !.updatedAtBlock = block]
<1>1. /\ tx = NoTx /\ Stored(k)
      /\ vault' = RecordTransferIn(vault, WNT)
      /\ orders' = [orders EXCEPT ![k] = o]
      /\ credit' = [credit EXCEPT ![k] = [credit[k] EXCEPT ![WNT] = credit[k][WNT] + topUp]]
      /\ UNCHANGED <<nonce, positions, block, tx>>
  BY DEF UpdateOrder
<1> USE DEF IInv
<1>2. vault \in BankType(Tokens) /\ WNT \in Tokens
  BY DEF TypeOK, OrdersAssumption
<1>3. /\ vault' \in BankType(Tokens) /\ VaultCovered' /\ topUp \in Nat
      /\ vault'.tokenBalances = [vault.tokenBalances EXCEPT ![WNT] = vault.balance[WNT]]
  <2>1. Covered(vault, Tokens)
    BY DEF VaultCovered
  <2> DEFINE v == RecordTransferIn(vault, WNT)
  <2>2. /\ v \in BankType(Tokens) /\ topUp \in Nat
        /\ v.tokenBalances = [vault.tokenBalances EXCEPT ![WNT] = vault.balance[WNT]]
        /\ Covered(v, Tokens)
    BY <1>2, <2>1, RecordType
  <2>3. vault' = v
    BY <1>1
  <2> HIDE DEF v
  <2> QED
    BY <2>2, <2>3 DEF VaultCovered
<1>4. orders[k] \in Order
  BY <1>1 DEF TypeOK, Stored
<1>5. topUp = vault.balance[WNT] - vault.tokenBalances[WNT]
  BY DEF Received
<1> HIDE DEF topUp
<1>6. /\ o \in Order /\ o.executionFee = orders[k].executionFee + topUp
      /\ o.orderType = orders[k].orderType
      /\ o.initialCollateralToken = orders[k].initialCollateralToken
      /\ o.initialCollateralDeltaAmount = orders[k].initialCollateralDeltaAmount
  <2>1. fee \in Nat /\ block \in Blocks
    BY <1>3, <1>4 DEF Order, TypeOK
  <2> HIDE DEF fee
  <2> QED
    BY <1>4, <2>1 DEF Order, fee
<1> HIDE DEF o
<1>7. orders' \in [Keys -> Order \cup {NoOrder}] /\ orders'[k] = o /\ Stored(k)'
  BY <1>1, <1>6 DEF TypeOK, Stored
<1>8. credit' \in [Keys -> [Tokens -> Int]]
  BY <1>1, <1>3 DEF TypeOK
<1>9. IInv'
  BY <1>1, <1>3, <1>7, <1>8 DEF TypeOK, KeysIssued, Stored
<1>10. ASSUME NEW t \in Tokens
       PROVE  /\ (Owed(k, t)' + InFlight(k, t)')
                    = Owed(k, t) + InFlight(k, t) + (IF t = WNT THEN topUp ELSE 0)
              /\ vault'.tokenBalances[t] - vault.tokenBalances[t] = IF t = WNT THEN topUp ELSE 0
              /\ Owed(k, t) + InFlight(k, t) \in Nat
  <2>1. InFlight(k, t) = 0 /\ InFlight(k, t)' = 0
    BY <1>1 DEF InFlight
  <2>2. Owed(k, t)' = Owed(k, t) + (IF t = WNT THEN topUp ELSE 0) /\ Owed(k, t) \in Nat
    <3>1. Owed(k, t) \in Nat
      BY OwedType
    <3>2. /\ o.orderType = orders[k].orderType
          /\ o.initialCollateralToken = orders[k].initialCollateralToken
          /\ o.initialCollateralDeltaAmount = orders[k].initialCollateralDeltaAmount
          /\ o.executionFee = orders[k].executionFee + topUp
      BY <1>4 DEF o, Order
    <3>3. o.initialCollateralDeltaAmount \in Nat /\ orders[k].executionFee \in Nat
      BY <1>4, <3>2 DEF Order
    <3> DEFINE escrowed == IF EscrowsCollateral(o.orderType) /\ o.initialCollateralToken = t
                             THEN o.initialCollateralDeltaAmount ELSE 0
    <3>4. Owed(k, t)' = escrowed + (IF t = WNT THEN o.executionFee ELSE 0)
      BY <1>7 DEF Owed
    <3>5. Owed(k, t) = escrowed + (IF t = WNT THEN orders[k].executionFee ELSE 0)
      BY <1>1, <3>2 DEF Owed
    <3>6. escrowed \in Nat
      BY <3>3
    <3> HIDE DEF escrowed
    <3> QED
      BY <1>3, <3>1, <3>2, <3>3, <3>4, <3>5, <3>6
  <2>3. vault'.tokenBalances[t] - vault.tokenBalances[t] = IF t = WNT THEN topUp ELSE 0
    BY <1>2, <1>3, <1>5 DEF BankType
  <2> QED
    BY <1>3, <2>1, <2>2, <2>3
<1>11. ASSUME CreditMatchesAt(k), NEW t \in Tokens
       PROVE  credit'[k][t] = (Owed(k, t)' + InFlight(k, t)')
  <2>1. credit'[k][t] = credit[k][t] + (IF t = WNT THEN topUp ELSE 0)
    BY <1>1, <1>3 DEF TypeOK
  <2> QED
    BY <1>10, <1>11, <2>1 DEF CreditMatchesAt
<1>12. ASSUME NEW t \in Tokens
       PROVE  vault'.tokenBalances[t] - vault.tokenBalances[t]
                >= (Owed(k, t)' + InFlight(k, t)') - (Owed(k, t) + InFlight(k, t))
  BY <1>3, <1>10
<1>13. CreditMatchesAt(k) => CreditMatchesAt(k)'
  BY <1>11 DEF CreditMatchesAt
<1>14. \A j \in Keys \ {k} : orders'[j] = orders[j] /\ credit'[j] = credit[j]
  BY <1>1 DEF TypeOK
<1> QED
  BY <1>1, <1>7, <1>9, <1>12, <1>13, <1>14 DEF Settles

(* What execution and cancellation share: the order leaves the store, its   *)
(* collateral leaves the vault, and its fee waits in the transaction.       *)
LEMMA LeaveInv ==
  ASSUME IInv, NEW k \in Keys, tx = NoTx, Stored(k),
         tx' \in Transaction, tx'.key = k, tx'.executionFee = orders[k].executionFee,
         orders' = [orders EXCEPT ![k] = NoOrder],
         positions' \in [Accounts -> Position], UNCHANGED <<nonce, block>>,
         CollateralLeaves(k, orders[k])
  PROVE  IInv' /\ Settles(k) /\ ~Stored(k)' /\ tx' # NoTx
<1> DEFINE o      == orders[k]
           amount == o.initialCollateralDeltaAmount
           token  == o.initialCollateralToken
           paid   == EscrowsCollateral(o.orderType) /\ amount > 0
<1> USE DEF IInv
<1>1. o \in Order
  BY DEF TypeOK, Stored
<1>2. amount \in Nat /\ token \in Tokens /\ o.executionFee \in Nat
  BY <1>1 DEF Order
<1>3. vault \in BankType(Tokens) /\ Covered(vault, Tokens)
  BY DEF TypeOK, VaultCovered
<1>4. /\ vault' \in BankType(Tokens) /\ Covered(vault, Tokens)'
      /\ credit' \in [Keys -> [Tokens -> Int]]
      /\ \A j \in Keys \ {k} : credit'[j] = credit[j]
      /\ \A t \in Tokens : credit'[k][t] = credit[k][t] - (IF paid /\ t = token THEN amount ELSE 0)
      /\ \A t \in Tokens : vault'.tokenBalances[t] - vault.tokenBalances[t]
                            >= 0 - (IF paid /\ t = token THEN amount ELSE 0)
  <2>1. CASE paid
    <3>1. /\ CanTransferOut(vault, token, amount)
          /\ vault' = TransferOut(vault, token, amount)
          /\ credit' = [credit EXCEPT ![k] = [credit[k] EXCEPT ![token] = credit[k][token] - amount]]
      BY <2>1 DEF CollateralLeaves
    <3> HIDE DEF amount, token, paid
    <3>2. /\ credit' \in [Keys -> [Tokens -> Int]]
          /\ \A j \in Keys \ {k} : credit'[j] = credit[j]
          /\ \A t \in Tokens : credit'[k][t] = credit[k][t] - (IF t = token THEN amount ELSE 0)
      BY <1>2, <3>1 DEF TypeOK
    <3>3. vault' \in BankType(Tokens) /\ Covered(vault, Tokens)'
      BY <1>2, <1>3, <3>1, TransferOutType DEF Covered
    <3>4. \A t \in Tokens : vault'.tokenBalances[t] - vault.tokenBalances[t]
                            >= 0 - (IF t = token THEN amount ELSE 0)
      BY <1>2, <1>3, <3>1, TransferOutBook
    <3> QED
      BY <2>1, <3>2, <3>3, <3>4
  <2>2. CASE ~paid
    <3>1. UNCHANGED <<vault, credit>>
      BY <2>2 DEF CollateralLeaves
    <3>2. \A t \in Tokens : vault.tokenBalances[t] \in Int
      BY <1>3 DEF BankType
    <3> QED
      BY <1>3, <2>2, <3>1, <3>2 DEF TypeOK, Covered
  <2> QED
    BY <2>1, <2>2
<1>5. ~Stored(k)' /\ tx' # NoTx
  BY DEF Stored, TypeOK, AbsentAssumption
<1>6. TypeOK'
  BY <1>4 DEF TypeOK
<1>7. KeysIssued'
  BY <1>5 DEF KeysIssued, Stored, TypeOK
<1>8. ASSUME NEW t \in Tokens
      PROVE  /\ (Owed(k, t)' + InFlight(k, t)')
                   = Owed(k, t) + InFlight(k, t) - (IF paid /\ t = token THEN amount ELSE 0)
             /\ Owed(k, t) + InFlight(k, t) \in Nat
  <2>1. Owed(k, t)' = 0 /\ InFlight(k, t) = 0
    BY <1>5 DEF Owed, InFlight
  <2>2. InFlight(k, t)' = IF t = WNT THEN o.executionFee ELSE 0
    BY <1>5 DEF InFlight
  <2>3. Owed(k, t) = (IF paid /\ t = token THEN amount ELSE 0)
                     + (IF t = WNT THEN o.executionFee ELSE 0)
    BY <1>2 DEF Owed
  <2> QED
    BY <1>2, <2>1, <2>2, <2>3
<1>9. Settles(k)
  <2> DEFINE d == [t \in Tokens |-> IF paid /\ t = token THEN amount ELSE 0]
  <2>1. d \in [Tokens -> Int]
    BY <1>2
  <2>2. \A t \in Tokens :
           /\ Owed(k, t)' + InFlight(k, t)' = Owed(k, t) + InFlight(k, t) - d[t]
           /\ credit'[k][t] = credit[k][t] - d[t]
           /\ vault'.tokenBalances[t] - vault.tokenBalances[t] >= 0 - d[t]
    BY <1>4, <1>8
  <2>3. \A j \in Keys \ {k} : orders'[j] = orders[j] /\ credit'[j] = credit[j]
    BY <1>4 DEF TypeOK
  <2>4. IInv /\ IInv'
    BY <1>4, <1>6, <1>7 DEF VaultCovered
  <2> HIDE DEF d, IInv
  <2> QED
    BY <2>1, <2>2, <2>3, <2>4, SettlesBy
<1> QED
  BY <1>4, <1>5, <1>6, <1>7, <1>9 DEF VaultCovered

LEMMA RefundInv ==
  ASSUME IInv, NEW k \in Keys, NEW keeper \in Accounts \cup OrderKeepers,
         tx = NoTx, Stored(k), RemoveAndRefund(k, keeper)
  PROVE  IInv' /\ Settles(k) /\ ~Stored(k)' /\ tx' # NoTx /\ tx'.key = k /\ nonce' = nonce
<1>1. orders[k] \in Order
  BY DEF IInv, TypeOK, Stored
<1>2. tx' \in Transaction /\ tx'.key = k /\ tx'.executionFee = orders[k].executionFee
  BY <1>1 DEF RemoveAndRefund, Order, Transaction
<1> QED
  BY <1>2, LeaveInv DEF RemoveAndRefund, RemoveOrder, IInv, TypeOK

LEMMA ProcessType ==
  ASSUME IInv, NEW o \in Order, ProcessPosition(o)
  PROVE  positions' \in [Accounts -> Position]
<1>1. o.account \in Accounts /\ block \in Blocks /\ positions \in [Accounts -> Position]
  BY DEF Order, IInv, TypeOK
<1> QED
  BY <1>1 DEF ProcessPosition, Position, NoPosition

LEMMA StartType == ASSUME NEW prices \in Prices PROVE StartBlocks(prices) \in SUBSET Blocks
BY DEF StartBlocks, Prices, ReportSets

LEMMA SuccessInv ==
  ASSUME IInv, NEW k \in Keys, NEW keeper \in OrderKeepers, NEW prices \in Prices, tx = NoTx,
         Stored(k), ExecutionSucceeds(orders, k, "execute", keeper, prices), UNCHANGED nonce
  PROVE  IInv' /\ Settles(k) /\ ~Stored(k)' /\ tx' # NoTx /\ tx'.key = k /\ nonce' = nonce
<1>1. orders[k] \in Order
  BY DEF IInv, TypeOK, Stored
<1>2. tx' \in Transaction /\ tx'.key = k /\ tx'.executionFee = orders[k].executionFee
  <2>1. tx' = [key |-> k, op |-> "execute", executionFee |-> orders[k].executionFee,
               keeper |-> keeper, oracleBlocks |-> StartBlocks(prices)]
    BY DEF ExecutionSucceeds
  <2> QED
    BY <1>1, <2>1, StartType DEF Order, Transaction
<1>3. positions' \in [Accounts -> Position]
  BY <1>1, ProcessType DEF ExecutionSucceeds
<1> QED
  BY <1>2, <1>3, LeaveInv DEF ExecutionSucceeds, RemoveOrder

LEMMA FreezeInv ==
  ASSUME IInv, NEW k \in Keys, NEW keeper \in OrderKeepers, tx = NoTx, Stored(k),
         FreezeOrder(k, keeper)
  PROVE  IInv' /\ Settles(k) /\ Stored(k)' /\ tx' # NoTx /\ tx'.key = k /\ nonce' = nonce
<1> DEFINE o    == [orders[k] EXCEPT !.executionFee = 0, !.isFrozen = TRUE]
           next == [key |-> k, op |-> "freeze", executionFee |-> orders[k].executionFee,
                    keeper |-> keeper, oracleBlocks |-> {}]
<1>1. /\ orders' = [orders EXCEPT ![k] = o]
      /\ tx' = next
      /\ UNCHANGED <<nonce, vault, positions, block, credit>>
  BY DEF FreezeOrder
<1> USE DEF IInv
<1>2. orders[k] \in Order
  BY DEF TypeOK, Stored
<1>3. /\ o \in Order /\ o.executionFee = 0
      /\ o.orderType = orders[k].orderType
      /\ o.initialCollateralToken = orders[k].initialCollateralToken
      /\ o.initialCollateralDeltaAmount = orders[k].initialCollateralDeltaAmount
  BY <1>2 DEF Order
<1>4. next \in Transaction /\ next.key = k /\ next.executionFee = orders[k].executionFee
  BY <1>2 DEF Order, Transaction
<1> HIDE DEF o, next
<1>5. orders'[k] = o /\ Stored(k)' /\ tx' # NoTx
  BY <1>1, <1>3, <1>4 DEF TypeOK, Stored, AbsentAssumption
<1>6. IInv'
  BY <1>1, <1>3, <1>4, <1>5 DEF TypeOK, KeysIssued, Stored, VaultCovered, Covered
<1>7. ASSUME NEW t \in Tokens
      PROVE  (Owed(k, t)' + InFlight(k, t)') = Owed(k, t) + InFlight(k, t)
             /\ Owed(k, t) + InFlight(k, t) \in Int
  <2>1. Owed(k, t) \in Nat
    BY <1>2 DEF Owed, Order
  <2>2. Owed(k, t) = Owed(k, t)' + (IF t = WNT THEN orders[k].executionFee ELSE 0)
    BY <1>2, <1>3, <1>5 DEF Owed, Order
  <2>3. InFlight(k, t) = 0 /\ InFlight(k, t)' = IF t = WNT THEN orders[k].executionFee ELSE 0
    BY <1>1, <1>4, <1>5 DEF InFlight
  <2>4. Owed(k, t)' \in Nat
    BY <1>3, <1>5 DEF Owed, Order
  <2> QED
    BY <1>2, <2>1, <2>2, <2>3, <2>4 DEF Order
<1>8. \A t \in Tokens : vault.tokenBalances[t] \in Int
  BY DEF TypeOK, BankType
<1>9. CreditMatchesAt(k) => CreditMatchesAt(k)'
  BY <1>1, <1>7 DEF CreditMatchesAt
<1> QED
  BY <1>1, <1>4, <1>5, <1>6, <1>7, <1>8, <1>9 DEF Settles, TypeOK

(* An execution ends the order or freezes it; either way one key is         *)
(* settled.                                                                 *)
LEMMA ExecuteInv ==
  ASSUME IInv, NEW k \in Keys, NEW keeper \in OrderKeepers, NEW prices \in Prices, ExecuteOrder(k, keeper, prices)
  PROVE  /\ IInv' /\ Settles(k) /\ tx' # NoTx /\ tx'.key = k /\ nonce' = nonce
         /\ Stored(k) /\ tx = NoTx
<1>1. tx = NoTx /\ Stored(k)
  BY DEF ExecuteOrder
<1>2. CASE ExecutionSucceeds(orders, k, "execute", keeper, prices) /\ UNCHANGED nonce
  BY <1>1, <1>2, SuccessInv
<1>3. CASE ExecutionFails(k, keeper, prices)
  <2>1. RemoveAndRefund(k, keeper) \/ FreezeOrder(k, keeper)
    BY <1>3 DEF ExecutionFails
  <2> QED
    BY <1>1, <2>1, RefundInv, FreezeInv
<1> QED
  BY <1>2, <1>3 DEF ExecuteOrder

LEMMA CancelInv ==
  ASSUME IInv, NEW k \in Keys, CancelOrder(k)
  PROVE  IInv' /\ Settles(k) /\ Stored(k) /\ tx' # NoTx /\ tx'.key = k /\ nonce' = nonce
<1>1. orders[k].account \in Accounts
  BY DEF CancelOrder, IInv, TypeOK, Stored, Order
<1> QED
  BY <1>1, RefundInv DEF CancelOrder

(* What a keeper's transaction creates it executes: the fresh key is in     *)
(* nobody's store afterwards, and nothing was escrowed under it.            *)
LEMMA CreateAndExecuteLeaves ==
  ASSUME IInv, NEW o \in Order, o.initialCollateralDeltaAmount = 0, o.executionFee = 0,
         NEW op, NEW keeper, NEW prices \in Prices, CreateAndExecute(o, op, keeper, prices)
  PROVE  /\ tx = NoTx /\ nonce < MaxNonce /\ nonce' = nonce + 1
         /\ positions' \in [Accounts -> Position] /\ ProcessPosition(o)
         /\ BlocksAccepted(o, prices)
         /\ tx' = [key |-> nonce + 1, op |-> op, executionFee |-> 0, keeper |-> keeper,
                   oracleBlocks |-> StartBlocks(prices)]
         /\ UNCHANGED <<orders, vault, block, credit>>
<1> DEFINE key   == nonce + 1
           store == [orders EXCEPT ![key] = o]
<1>1. /\ tx = NoTx /\ nonce < MaxNonce /\ nonce' = key
      /\ ExecutionSucceeds(store, key, op, keeper, prices)
  BY Zenon DEF CreateAndExecute
<1>2. key \in Keys /\ orders \in [Keys -> Order \cup {NoOrder}]
  BY <1>1 DEF IInv, TypeOK
<1>3. orders[key] = NoOrder
  BY <1>2 DEF IInv, TypeOK, KeysIssued, Stored
<1>4. store[key] = o /\ [store EXCEPT ![key] = NoOrder] = orders
  BY <1>2, <1>3
<1> HIDE DEF store
<1>5. UNCHANGED orders
  BY <1>1, <1>4 DEF ExecutionSucceeds, RemoveOrder
<1>6. UNCHANGED <<vault, credit>>
  BY <1>1, <1>4 DEF ExecutionSucceeds, CollateralLeaves
<1>7. /\ ProcessPosition(o) /\ BlocksAccepted(o, prices) /\ UNCHANGED block
      /\ tx' = [key |-> key, op |-> op, executionFee |-> 0, keeper |-> keeper,
                oracleBlocks |-> StartBlocks(prices)]
  BY <1>1, <1>4 DEF ExecutionSucceeds
<1> QED
  BY <1>1, <1>5, <1>6, <1>7, ProcessType

LEMMA KeeperOrderType ==
  ASSUME NEW a \in Accounts, NEW type \in {"Liquidation", "MarketDecrease"},
         NEW token \in Tokens, NEW size \in {0, 1}, NEW b \in Blocks
  PROVE  LET o == KeeperOrder(a, type, token, size, b)
         IN  /\ o \in Order /\ o.initialCollateralDeltaAmount = 0 /\ o.executionFee = 0
             /\ o.account = a /\ o.orderType = type
BY DEF KeeperOrder, Order, CreatableOrders, SwapOrders, IncreaseOrders, DecreaseOrders

LEMMA LiquidationLeaves ==
  ASSUME IInv, NEW a \in Accounts, NEW t \in Tokens, NEW prices \in Prices,
         ExecuteLiquidation(a, t, prices)
  PROVE  \E o \in Order :
           /\ o.initialCollateralDeltaAmount = 0 /\ o.executionFee = 0
           /\ o.account = a /\ o.orderType = "Liquidation"
           /\ CreateAndExecute(o, "liquidate", LiquidationKeeper, prices)
<1> DEFINE o == KeeperOrder(a, "Liquidation", t, SizeInUsd(a), block)
<1>1. SizeInUsd(a) \in {0, 1} /\ block \in Blocks
  BY DEF SizeInUsd, IInv, TypeOK
<1>2. /\ o \in Order /\ o.initialCollateralDeltaAmount = 0 /\ o.executionFee = 0
      /\ o.account = a /\ o.orderType = "Liquidation"
  BY <1>1, KeeperOrderType
<1>3. CreateAndExecute(o, "liquidate", LiquidationKeeper, prices)
  BY DEF ExecuteLiquidation
<1> HIDE DEF o
<1> QED
  BY <1>2, <1>3

LEMMA AdlLeaves ==
  ASSUME IInv, NEW a \in Accounts, NEW t \in Tokens, NEW size \in {0, 1},
         NEW prices \in Prices, ExecuteAdl(a, t, size, prices)
  PROVE  \E o \in Order :
           /\ o.initialCollateralDeltaAmount = 0 /\ o.executionFee = 0
           /\ CreateAndExecute(o, "adl", AdlKeeper, prices)
<1>1. PICK first \in prices :
        CreateAndExecute(KeeperOrder(a, "MarketDecrease", t, size, first.min),
                         "adl", AdlKeeper, prices)
  BY DEF ExecuteAdl
<1>2. first.min \in Blocks
  BY DEF Prices, ReportSets
<1> DEFINE o == KeeperOrder(a, "MarketDecrease", t, size, first.min)
<1>3. o \in Order /\ o.initialCollateralDeltaAmount = 0 /\ o.executionFee = 0
  BY <1>2, KeeperOrderType
<1>4. CreateAndExecute(o, "adl", AdlKeeper, prices)
  BY <1>1
<1> HIDE DEF o
<1> QED
  BY <1>3, <1>4

(* The transactions of the liquidation and the ADL keeper.                  *)
KeeperStep ==
  \/ \E a \in Accounts, t \in Tokens, prices \in Prices : ExecuteLiquidation(a, t, prices)
  \/ \E a \in Accounts, t \in Tokens, size \in {0, 1}, prices \in Prices :
       ExecuteAdl(a, t, size, prices)

LEMMA LiquidateInv ==
  ASSUME IInv, KeeperStep
  PROVE  /\ IInv' /\ nonce' = nonce + 1 /\ nonce' \in Keys
         /\ tx = NoTx /\ tx' # NoTx /\ tx'.key = nonce + 1
         /\ UNCHANGED <<orders, vault>>
         /\ \A k \in Keys : k = nonce + 1 => Settles(k)
<1>0. PICK o \in Order, prices \in Prices, op \in {"liquidate", "adl"},
           keeper \in {LiquidationKeeper, AdlKeeper} :
        /\ o.initialCollateralDeltaAmount = 0 /\ o.executionFee = 0
        /\ CreateAndExecute(o, op, keeper, prices)
  <2>1. CASE \E a \in Accounts, t \in Tokens, prices \in Prices : ExecuteLiquidation(a, t, prices)
    BY <2>1, LiquidationLeaves
  <2>2. CASE \E a \in Accounts, t \in Tokens, size \in {0, 1}, prices \in Prices :
               ExecuteAdl(a, t, size, prices)
    BY <2>2, AdlLeaves
  <2> QED
    BY <2>1, <2>2 DEF KeeperStep
<1> DEFINE next == [key |-> nonce + 1, op |-> op, executionFee |-> 0, keeper |-> keeper,
                    oracleBlocks |-> StartBlocks(prices)]
<1>1. /\ tx = NoTx /\ nonce < MaxNonce /\ nonce' = nonce + 1
      /\ positions' \in [Accounts -> Position]
      /\ tx' = next
      /\ UNCHANGED <<orders, vault, block, credit>>
  BY <1>0, CreateAndExecuteLeaves
<1> USE DEF IInv
<1>2. nonce' \in Keys
  BY <1>1 DEF TypeOK
<1>3. tx' \in Transaction /\ tx'.key = nonce + 1 /\ tx'.executionFee = 0
  BY <1>1, <1>2, StartType DEF Transaction
<1> HIDE DEF next
<1>4. tx' # NoTx
  BY <1>1, <1>3 DEF AbsentAssumption
<1>5. TypeOK'
  BY <1>1, <1>2, <1>3 DEF TypeOK
<1>6. KeysIssued'
  BY <1>1, <1>2, <1>3 DEF KeysIssued, Stored, TypeOK
<1>7. ASSUME NEW k \in Keys, k = nonce + 1 PROVE Settles(k)
  <2>1. ~Stored(k) /\ ~Stored(k)'
    BY <1>1, <1>7 DEF KeysIssued, Stored, TypeOK
  <2>2. \A t \in Tokens : Owed(k, t) = 0 /\ Owed(k, t)' = 0
    BY <2>1 DEF Owed
  <2>3. \A t \in Tokens : InFlight(k, t) = 0 /\ InFlight(k, t)' = 0
    BY <1>1, <1>3, <1>4 DEF InFlight
  <2>4. \A t \in Tokens : vault.tokenBalances[t] \in Int
    BY DEF TypeOK, BankType
  <2>5. CreditMatchesAt(k) => CreditMatchesAt(k)'
    BY <1>1, <2>2, <2>3 DEF CreditMatchesAt
  <2> QED
    BY <1>1, <1>3, <1>7, <2>2, <2>3, <2>4, <2>5 DEF Settles
<1> QED
  BY <1>1, <1>2, <1>3, <1>4, <1>5, <1>6, <1>7 DEF VaultCovered, Covered

(* The execution fee leaves the vault, and with it the transaction's claim. *)
LEMMA PayInv ==
  ASSUME IInv, tx # NoTx, NEW n \in 0..tx.executionFee, PayExecutionFee(n)
  PROVE  /\ IInv' /\ tx.key \in Keys /\ tx.key <= nonce
         /\ \A k \in Keys : k = tx.key => Settles(k)
         /\ tx' = NoTx /\ UNCHANGED <<orders, nonce>>
<1> DEFINE fee == tx.executionFee
           paid == PayFee(vault, WNT, fee, n)
<1> USE DEF IInv
<1>1. tx.key \in Keys /\ fee \in Nat /\ WNT \in Tokens
  BY DEF TypeOK, Transaction, OrdersAssumption
<1>2. /\ CanTransferOut(vault, WNT, fee)
      /\ vault' = paid
      /\ credit' = [credit EXCEPT ![tx.key] = [credit[tx.key] EXCEPT ![WNT] =
                      credit[tx.key][WNT] - (vault.balance[WNT] - vault'.balance[WNT])]]
      /\ tx' = NoTx
      /\ UNCHANGED <<orders, nonce, positions, block>>
  BY DEF PayExecutionFee
<1>3. vault \in BankType(Tokens) /\ Covered(vault, Tokens)
  BY DEF TypeOK, VaultCovered
<1>4. vault.balance \in [Tokens -> Nat] /\ vault.tokenBalances \in [Tokens -> Nat]
  BY <1>3 DEF BankType
<1>5. /\ paid \in BankType(Tokens) /\ Covered(paid, Tokens)
      /\ paid.balance = [vault.balance EXCEPT ![WNT] = vault.balance[WNT] - fee]
      /\ paid.tokenBalances = [vault.tokenBalances EXCEPT ![WNT] = vault.balance[WNT] - fee]
  BY <1>1, <1>2, <1>3, PayFeeType
<1> HIDE DEF paid
<1>6. vault' \in BankType(Tokens) /\ Covered(vault, Tokens)'
  BY <1>2, <1>5 DEF Covered
<1>7. vault.balance[WNT] - vault'.balance[WNT] = fee
  BY <1>1, <1>2, <1>4, <1>5
<1> HIDE DEF fee
<1>8. /\ credit' \in [Keys -> [Tokens -> Int]]
      /\ \A j \in Keys \ {tx.key} : credit'[j] = credit[j]
      /\ \A t \in Tokens :
           credit'[tx.key][t] = credit[tx.key][t] - (IF t = WNT THEN fee ELSE 0)
  BY <1>1, <1>2, <1>7 DEF TypeOK
<1>9. IInv'
  BY <1>2, <1>6, <1>8 DEF TypeOK, KeysIssued, Stored, VaultCovered
<1>10. ASSUME NEW t \in Tokens
       PROVE  vault'.tokenBalances[t] - vault.tokenBalances[t]
                >= 0 - (IF t = WNT THEN fee ELSE 0)
  <2>1. vault.tokenBalances[t] <= vault.balance[t]
    BY <1>3 DEF Covered
  <2> QED
    BY <1>1, <1>2, <1>4, <1>5, <2>1
<1>11. ASSUME NEW k \in Keys, k = tx.key, NEW t \in Tokens
       PROVE  /\ (Owed(k, t)' + InFlight(k, t)')
                    = Owed(k, t) + InFlight(k, t) - (IF t = WNT THEN fee ELSE 0)
              /\ Owed(k, t) + InFlight(k, t) \in Nat
  <2>1. Owed(k, t)' = Owed(k, t)
    BY <1>2 DEF Owed, Stored
  <2>2. Owed(k, t) \in Nat
    BY OwedType
  <2>3. InFlight(k, t)' = 0 /\ InFlight(k, t) = IF t = WNT THEN fee ELSE 0
    BY <1>2, <1>11 DEF InFlight, fee
  <2> QED
    BY <1>1, <2>1, <2>2, <2>3
<1>12. ASSUME NEW k \in Keys, k = tx.key PROVE Settles(k)
  <2> DEFINE d == [t \in Tokens |-> IF t = WNT THEN fee ELSE 0]
  <2>1. d \in [Tokens -> Int]
    BY <1>1
  <2>2. \A t \in Tokens :
           /\ Owed(k, t)' + InFlight(k, t)' = Owed(k, t) + InFlight(k, t) - d[t]
           /\ credit'[k][t] = credit[k][t] - d[t]
           /\ vault'.tokenBalances[t] - vault.tokenBalances[t] >= 0 - d[t]
    BY <1>8, <1>10, <1>11, <1>12
  <2>3. \A j \in Keys \ {k} : orders'[j] = orders[j] /\ credit'[j] = credit[j]
    BY <1>2, <1>8, <1>12
  <2> HIDE DEF d, IInv
  <2> QED
    BY <1>2, <1>9, <1>12, <2>1, <2>2, <2>3, SettlesBy
<1> QED
  BY <1>1, <1>2, <1>9, <1>12 DEF KeysIssued

-----------------------------------------------------------------------------
LEMMA NextInv == IInv /\ [Next]_vars => IInv'
<1> SUFFICES ASSUME IInv, [Next]_vars PROVE IInv'
  OBVIOUS
<1>1. ASSUME NEW n \in 0..(IF tx = NoTx THEN 0 ELSE tx.executionFee), PayExecutionFee(n)
      PROVE  IInv'
  <2>1. tx # NoTx
    BY <1>1 DEF PayExecutionFee
  <2> QED
    BY <1>1, <2>1, PayInv
<1>2. CASE UNCHANGED vars
  BY <1>2 DEF vars, IInv, TypeOK, VaultCovered, Covered, KeysIssued, Stored
<1> QED
  BY <1>1, <1>2, TransferInv, NextBlockInv, CreateInv, UpdateInv, CancelInv, ExecuteInv,
     LiquidateInv DEF Next, KeeperStep

(* The inductive invariant holds in every reachable state: the vault        *)
(* records no more than it holds, and only keys handed out are in use.      *)
LEMMA OrdersInvariant == Spec => []IInv
BY InitInv, NextInv, PTL DEF Spec

(* Every reachable state of the order lifecycle has its type; in particular *)
(* no subtraction of the fee and collateral bookkeeping goes below zero.    *)
THEOREM OrdersTyped == Spec => []TypeOK
<1>1. IInv => TypeOK
  BY DEF IInv
<1> QED
  BY <1>1, OrdersInvariant, PTL

-----------------------------------------------------------------------------
ClaimsTyped == \A k \in Keys : Claim(k) \in [Tokens -> Nat]

LEMMA InvClaims == IInv => ClaimsTyped
<1> SUFFICES ASSUME IInv, NEW k \in Keys, NEW t \in Tokens
             PROVE  Owed(k, t) + InFlight(k, t) \in Nat
  BY DEF Claim, ClaimsTyped
<1>1. Owed(k, t) \in Nat
  BY OwedType
<1>2. InFlight(k, t) \in Nat
  BY DEF InFlight, IInv, TypeOK, Transaction
<1> QED
  BY <1>1, <1>2

LEMMA SettlesBook ==
  ASSUME IInv, IInv', NEW k \in Keys, Settles(k)
  PROVE  E!Book(k)
<1>0. ClaimsTyped'
  BY InvClaims, PTL
<1>1. \A j \in Keys : Claim(j)' \in [Tokens -> Nat]
  BY <1>0 DEF ClaimsTyped
<1>2. ASSUME NEW j \in Keys \ {k} PROVE Claim(j)' = Claim(j)
  <2>1. \A t \in Tokens : InFlight(j, t) = 0 /\ InFlight(j, t)' = 0
    BY DEF Settles, InFlight
  <2>2. \A t \in Tokens : Owed(j, t)' = Owed(j, t)
    BY DEF Settles, Owed, Stored
  <2> QED
    BY <2>1, <2>2 DEF Claim
<1>3. vault'.tokenBalances \in [Tokens -> Nat]
  BY DEF IInv, TypeOK, BankType
<1>4. \A t \in Tokens : vault'.tokenBalances[t] - vault.tokenBalances[t]
                         >= Claim(k)'[t] - Claim(k)[t]
  BY DEF Settles, Claim
<1> QED
  BY <1>1, <1>2, <1>3, <1>4 DEF E!Book

LEMMA InitEscrow == Init => E!EscrowInit
BY DEF Init, E!EscrowInit, E!NoClaim, EscrowState, Claim, Owed, InFlight, Stored,
       EmptyBank, OrdersAssumption

LEMMA Opens ==
  ASSUME IInv, IInv', NEW k \in Keys, Settles(k), k = nonce + 1, nonce' = nonce + 1,
         Stored(k)' \/ (tx' # NoTx /\ tx'.key = k)
  PROVE  E!Open(k)
<1>1. EscrowState(k) = "new" /\ EscrowState(k)' = "open"
  BY DEF EscrowState, IInv, TypeOK
<1>2. ASSUME NEW j \in Keys \ {k} PROVE EscrowState(j)' = EscrowState(j)
  BY DEF Settles, EscrowState, Stored, IInv, TypeOK
<1> QED
  BY <1>1, <1>2, SettlesBook DEF E!Open

LEMMA Adjusts ==
  ASSUME IInv, IInv', NEW k \in Keys, Settles(k), nonce' = nonce,
         Stored(k) \/ (tx # NoTx /\ tx.key = k),
         Stored(k)' \/ (tx' # NoTx /\ tx'.key = k)
  PROVE  E!Adjust(k)
<1>1. EscrowState(k) = "open" /\ EscrowState(k)' = "open"
  BY DEF EscrowState, IInv, TypeOK, KeysIssued
<1>2. ASSUME NEW j \in Keys \ {k} PROVE EscrowState(j)' = EscrowState(j)
  BY DEF Settles, EscrowState, Stored
<1> QED
  BY <1>1, <1>2, SettlesBook DEF E!Adjust

LEMMA Closes ==
  ASSUME IInv, IInv', NEW k \in Keys, Settles(k), nonce' = nonce,
         tx # NoTx /\ tx.key = k, ~Stored(k)', tx' = NoTx
  PROVE  E!Close(k)
<1>1. EscrowState(k) = "open" /\ EscrowState(k)' = "closed"
  BY DEF EscrowState, IInv, TypeOK, KeysIssued
<1>2. ASSUME NEW j \in Keys \ {k} PROVE EscrowState(j)' = EscrowState(j)
  BY DEF Settles, EscrowState, Stored
<1>3. Claim(k)' = [t \in Tokens |-> 0]
  BY DEF Claim, Owed, InFlight
<1> QED
  BY <1>1, <1>2, <1>3, SettlesBook DEF E!Close, E!NoClaim

(* Every step of the handlers is a step of the escrow on one key, or leaves *)
(* the escrow alone.                                                        *)
LEMMA StepImplements ==
  ASSUME IInv, [Next]_vars
  PROVE  [E!EscrowNext]_(E!escrowVars)
<1>0. IInv'
  BY NextInv
<1>1. ASSUME UNCHANGED <<orders, nonce, tx>>, vault'.tokenBalances = vault.tokenBalances
      PROVE  UNCHANGED E!escrowVars
  BY <1>1 DEF E!escrowVars, EscrowState, Stored, Claim, Owed, InFlight
<1>2. ASSUME NEW t \in Tokens, NEW n \in 1..MaxAmount, Transfer(t, n)
      PROVE  UNCHANGED E!escrowVars
  BY <1>1, <1>2 DEF Transfer, TransferIn
<1>3. CASE NextBlock
  BY <1>1, <1>3 DEF NextBlock
<1>4. ASSUME NEW a \in Accounts, NEW type \in OrderTypes, NEW t \in Tokens,
             NEW size \in {0, 1}, NEW amount \in Amounts, NEW fee \in Amounts,
             CreateOrder(a, type, t, size, amount, fee)
      PROVE  E!EscrowNext
  <2>1. PICK k \in Keys : k = nonce + 1
    BY <1>4, CreateInv
  <2>2. Settles(k) /\ Stored(k)' /\ nonce' = nonce + 1
    BY <1>4, <2>1, CreateSettles
  <2> QED
    BY <1>0, <2>1, <2>2, Opens DEF E!EscrowNext
<1>5. ASSUME NEW k \in Keys, NEW size \in {0, 1}, UpdateOrder(k, size)
      PROVE  E!EscrowNext
  <2>1. nonce' = nonce
    BY <1>5 DEF UpdateOrder
  <2> QED
    BY <1>0, <1>5, <2>1, UpdateInv, Adjusts DEF E!EscrowNext
<1>6. ASSUME NEW k \in Keys, CancelOrder(k) PROVE E!EscrowNext
  BY <1>0, <1>6, CancelInv, Adjusts DEF E!EscrowNext
<1>7. ASSUME NEW k \in Keys, NEW keeper \in OrderKeepers, NEW prices \in Prices, ExecuteOrder(k, keeper, prices)
      PROVE  E!EscrowNext
  BY <1>0, <1>7, ExecuteInv, Adjusts DEF E!EscrowNext
<1>8. CASE KeeperStep
  BY <1>0, <1>8, LiquidateInv, Opens DEF E!EscrowNext
<1>9. ASSUME NEW n \in 0..(IF tx = NoTx THEN 0 ELSE tx.executionFee), PayExecutionFee(n)
      PROVE  E!EscrowNext
  <2>1. tx # NoTx
    BY <1>9 DEF PayExecutionFee
  <2>2. PICK k \in Keys : k = tx.key
    BY <1>9, <2>1, PayInv
  <2>3. Settles(k) /\ tx' = NoTx /\ nonce' = nonce /\ (Stored(k)' <=> Stored(k))
    BY <1>9, <2>1, <2>2, PayInv DEF Stored
  <2> QED
    BY <1>0, <2>1, <2>2, <2>3, Adjusts, Closes DEF E!EscrowNext
<1>10. CASE UNCHANGED vars
  BY <1>1, <1>10 DEF vars
<1> QED
  BY <1>2, <1>3, <1>4, <1>5, <1>6, <1>7, <1>8, <1>9, <1>10 DEF Next, KeeperStep

(* The handlers implement Escrow, for any number of keys, accounts, tokens, *)
(* keepers and blocks: no key is opened twice or reopened, and no step      *)
(* touches the money of another key.                                        *)
THEOREM OrdersImplementEscrow == Spec => ImplementsEscrow
BY OrdersInvariant, InitEscrow, StepImplements, PTL DEF Spec, ImplementsEscrow, E!EscrowSpec

(* Settling one key keeps what is owed covered: one summand moves, and the  *)
(* recorded balance moves at least as far.                                  *)
OwedCovered == \A t \in Tokens : OwedInAll(t) <= vault.tokenBalances[t]

LEMMA CoveredStep == IInv /\ OwedCovered /\ [Next]_vars => OwedCovered'
<1> SUFFICES ASSUME IInv, OwedCovered, [Next]_vars, NEW t \in Tokens
             PROVE  OwedInAll(t)' <= vault'.tokenBalances[t]
  BY DEF OwedCovered
<1> DEFINE row  == [j \in Keys |-> Claim(j)[t]]
           next == [j \in Keys |-> Claim(j)'[t]]
<1>1. OwedInAll(t) = Total(row) /\ OwedInAll(t)' = Total(next)
  BY DEF OwedInAll, Claim
<1>2. IsFiniteSet(Keys)
  BY FS_Interval DEF Keys, OrdersAssumption
<1>3. vault.tokenBalances \in [Tokens -> Nat] /\ row \in [Keys -> Nat]
  <2>1. vault.tokenBalances \in [Tokens -> Nat]
    BY DEF IInv, TypeOK, BankType
  <2>2. \A j \in Keys : Claim(j)[t] \in Nat
    BY InvClaims DEF ClaimsTyped
  <2> QED
    BY <2>1, <2>2
<1>4. ASSUME NEW k \in Keys, E!Book(k) PROVE Total(next) <= vault'.tokenBalances[t]
  <2>1. /\ \A j \in Keys : Claim(j)' \in [Tokens -> Nat]
        /\ vault'.tokenBalances \in [Tokens -> Nat]
        /\ \A j \in Keys \ {k} : Claim(j)' = Claim(j)
        /\ vault'.tokenBalances[t] - vault.tokenBalances[t] >= Claim(k)'[t] - Claim(k)[t]
    BY <1>4 DEF E!Book
  <2>2. /\ next \in [Keys -> Nat]
        /\ \A j \in Keys \ {k} : next[j] = row[j]
        /\ vault'.tokenBalances[t] - vault.tokenBalances[t] >= next[k] - row[k]
    BY <2>1
  <2>3. Total(row) <= vault.tokenBalances[t]
    BY <1>1 DEF OwedCovered
  <2>4. vault.tokenBalances[t] \in Nat /\ vault'.tokenBalances[t] \in Nat
    BY <1>3, <2>1
  <2> DEFINE b == vault.tokenBalances[t]
             c == vault'.tokenBalances[t]
  <2>5. b \in Nat /\ c \in Nat /\ Total(row) <= b /\ c - b >= next[k] - row[k]
    BY <2>2, <2>3, <2>4
  <2>6. next \in [Keys -> Nat] /\ row \in [Keys -> Nat] /\ \A j \in Keys \ {k} : next[j] = row[j]
    BY <1>3, <2>2
  <2> HIDE DEF row, next, b, c
  <2>7. Total(next) <= c
    BY <1>2, <2>5, <2>6, TotalCovered
  <2> QED
    BY <2>7 DEF b, c
<1>5. CASE UNCHANGED E!escrowVars
  <2>1. vault'.tokenBalances = vault.tokenBalances /\ \A j \in Keys : Claim(j)' = Claim(j)
    BY <1>5 DEF E!escrowVars
  <2> QED
    BY <1>1, <2>1 DEF OwedCovered
<1> QED
  BY <1>1, <1>4, <1>5, StepImplements DEF E!EscrowNext, E!Open, E!Adjust, E!Close

LEMMA InitCovered == Init => OwedCovered
<1> SUFFICES ASSUME Init, NEW t \in Tokens PROVE OwedInAll(t) <= vault.tokenBalances[t]
  BY DEF OwedCovered
<1> DEFINE row == [k \in Keys |-> Owed(k, t) + InFlight(k, t)]
<1>1. IsFiniteSet(Keys)
  BY FS_Interval DEF Keys, OrdersAssumption
<1>2. row \in [Keys -> Nat] /\ \A k \in Keys : row[k] = 0
  BY DEF Init, Owed, InFlight, Stored
<1>3. vault.tokenBalances[t] = 0
  BY DEF Init, EmptyBank
<1>4. OwedInAll(t) = Total(row)
  BY DEF OwedInAll
<1> HIDE DEF row
<1> QED
  BY <1>1, <1>2, <1>3, <1>4, TotalZero

(* The vault covers every stored order and the pending fee at all times.    *)
THEOREM OrdersSolvent == Spec => []Solvent
BY OrdersInvariant, NextInv, InitCovered, CoveredStep, PTL
   DEF Spec, Solvent, OwedCovered, IInv, VaultCovered

-----------------------------------------------------------------------------
(* Settling k keeps the books of k, and the claims and credits of all other *)
(* keys are untouched.                                                      *)
LEMMA SettlesCredit ==
  ASSUME CreditMatches, NEW k \in Keys, Settles(k)
  PROVE  CreditMatches'
<1>1. CreditMatchesAt(k)'
  BY DEF CreditMatches, CreditMatchesAt, Settles
<1>2. ASSUME NEW j \in Keys \ {k}, NEW t \in Tokens
      PROVE  credit'[j][t] = Owed(j, t)' + InFlight(j, t)'
  <2>1. InFlight(j, t) = 0 /\ InFlight(j, t)' = 0
    BY DEF Settles, InFlight
  <2>2. Owed(j, t)' = Owed(j, t) /\ credit'[j] = credit[j]
    BY DEF Settles, Owed, Stored
  <2>3. credit[j][t] = Owed(j, t) + InFlight(j, t)
    BY DEF CreditMatches
  <2> QED
    BY <2>1, <2>2, <2>3
<1> QED
  BY <1>1, <1>2 DEF CreditMatches, CreditMatchesAt

(* Every step settles one key or touches no order, transaction or credit.   *)
LEMMA StepSettles ==
  ASSUME IInv, [Next]_vars
  PROVE  UNCHANGED <<orders, tx, credit>> \/ \E k \in Keys : Settles(k)
<1>1. ASSUME NEW t, NEW n, Transfer(t, n) \/ NextBlock \/ UNCHANGED vars
      PROVE  UNCHANGED <<orders, tx, credit>>
  BY <1>1 DEF Transfer, NextBlock, vars
<1>2. ASSUME NEW a \in Accounts, NEW type \in OrderTypes, NEW t \in Tokens,
             NEW size \in {0, 1}, NEW amount \in Amounts, NEW fee \in Amounts,
             CreateOrder(a, type, t, size, amount, fee)
      PROVE  \E k \in Keys : Settles(k)
  <2>1. PICK k \in Keys : k = nonce + 1
    BY <1>2, CreateInv
  <2> QED
    BY <1>2, <2>1, CreateSettles
<1>3. ASSUME NEW k \in Keys, NEW size \in {0, 1}, UpdateOrder(k, size) PROVE Settles(k)
  BY <1>3, UpdateInv
<1>4. ASSUME NEW k \in Keys, CancelOrder(k) PROVE Settles(k)
  BY <1>4, CancelInv
<1>5. ASSUME NEW k \in Keys, NEW keeper \in OrderKeepers, NEW prices \in Prices,
             ExecuteOrder(k, keeper, prices)
      PROVE  Settles(k)
  BY <1>5, ExecuteInv
<1>6. ASSUME KeeperStep PROVE \E k \in Keys : Settles(k)
  BY <1>6, LiquidateInv
<1>7. ASSUME NEW n \in 0..(IF tx = NoTx THEN 0 ELSE tx.executionFee), PayExecutionFee(n)
      PROVE  \E k \in Keys : Settles(k)
  <2>1. tx # NoTx
    BY <1>7 DEF PayExecutionFee
  <2> QED
    BY <1>7, <2>1, PayInv
<1> QED
  BY <1>1, <1>2, <1>3, <1>4, <1>5, <1>6, <1>7 DEF Next, KeeperStep

(* Each order gets out of the vault exactly what was recorded for it.       *)
THEOREM OrdersCreditMatch == Spec => []CreditMatches
<1>1. Init => CreditMatches
  BY DEF Init, CreditMatches, Owed, InFlight, Stored
<1>2. ASSUME CreditMatches, UNCHANGED <<orders, tx, credit>> PROVE CreditMatches'
  BY <1>2 DEF CreditMatches, Owed, InFlight, Stored
<1>3. IInv /\ CreditMatches /\ [Next]_vars => CreditMatches'
  BY <1>2, StepSettles, SettlesCredit
<1> QED
  BY <1>1, <1>3, OrdersInvariant, PTL DEF Spec

-----------------------------------------------------------------------------
(* A new order satisfies what every later handler asks of it.               *)
LEMMA CreateUsable ==
  ASSUME IInv, StoredOrderUsable, NEW a \in Accounts, NEW type \in OrderTypes,
         NEW token \in Tokens, NEW size \in {0, 1}, NEW amountParam \in Amounts,
         NEW feeParam \in Amounts, CreateOrder(a, type, token, size, amountParam, feeParam)
  PROVE  StoredOrderUsable'
<1>1. PICK amount, fee :
        /\ fee >= MinExecutionFee /\ NonEmpty(size, amount)
        /\ orders' = [orders EXCEPT ![nonce + 1] =
             [account |-> a, orderType |-> type, initialCollateralToken |-> token,
              sizeDeltaUsd |-> size, initialCollateralDeltaAmount |-> amount,
              executionFee |-> fee, updatedAtBlock |-> block, isFrozen |-> FALSE]]
  BY Zenon DEF CreateOrder
<1> QED
  BY <1>1 DEF StoredOrderUsable, Stored, IInv, TypeOK, NonEmpty, OrdersAssumption

LEMMA UpdateUsable ==
  ASSUME IInv, StoredOrderUsable, NEW k \in Keys, NEW size \in {0, 1}, UpdateOrder(k, size)
  PROVE  StoredOrderUsable'
<1>1. PICK fee :
        /\ Stored(k) /\ fee >= MinExecutionFee
        /\ NonEmpty(size, orders[k].initialCollateralDeltaAmount)
        /\ orders' = [orders EXCEPT ![k] =
             [orders[k] EXCEPT !.sizeDeltaUsd = size, !.executionFee = fee,
                               !.isFrozen = FALSE, !.updatedAtBlock = block]]
  BY DEF UpdateOrder
<1> DEFINE o == [orders[k] EXCEPT !.sizeDeltaUsd = size, !.executionFee = fee,
                                  !.isFrozen = FALSE, !.updatedAtBlock = block]
<1>2. orders[k] \in Order
  BY <1>1 DEF IInv, TypeOK, Stored
<1>3. /\ o.sizeDeltaUsd = size /\ o.executionFee = fee /\ ~o.isFrozen
      /\ o.orderType = orders[k].orderType
      /\ o.initialCollateralDeltaAmount = orders[k].initialCollateralDeltaAmount
  BY <1>2 DEF Order
<1>4. orders' = [orders EXCEPT ![k] = o]
  BY <1>1
<1> HIDE DEF o
<1> QED
  BY <1>1, <1>3, <1>4 DEF StoredOrderUsable, Stored, IInv, TypeOK

(* A freeze takes the fee of an order that is neither frozen nor a market   *)
(* order: _handleOrderError cancels market orders.                          *)
LEMMA ExecuteUsable ==
  ASSUME IInv, StoredOrderUsable, NEW k \in Keys, NEW keeper \in OrderKeepers,
         NEW prices \in Prices, ExecuteOrder(k, keeper, prices)
  PROVE  StoredOrderUsable'
<1>1. CASE orders' = [orders EXCEPT ![k] = NoOrder]
  BY <1>1 DEF StoredOrderUsable, Stored, IInv, TypeOK
<1>2. CASE FreezeOrder(k, keeper) /\ ~isMarketOrder(orders[k])
  <2> DEFINE o == [orders[k] EXCEPT !.executionFee = 0, !.isFrozen = TRUE]
  <2>1. orders[k] \in Order
    BY DEF ExecuteOrder, IInv, TypeOK, Stored
  <2>2. /\ o.executionFee = 0 /\ o.isFrozen /\ o.orderType = orders[k].orderType
        /\ o.sizeDeltaUsd = orders[k].sizeDeltaUsd
        /\ o.initialCollateralDeltaAmount = orders[k].initialCollateralDeltaAmount
    BY <2>1 DEF Order
  <2>3. /\ orders' = [orders EXCEPT ![k] = o]
        /\ NonEmpty(orders[k].sizeDeltaUsd, orders[k].initialCollateralDeltaAmount)
    BY <1>2 DEF FreezeOrder
  <2>4. orders[k].orderType \in CreatableOrders
    BY DEF ExecuteOrder, StoredOrderUsable
  <2> HIDE DEF o
  <2> QED
    BY <1>2, <2>2, <2>3, <2>4 DEF StoredOrderUsable, Stored, IInv, TypeOK, isMarketOrder
<1>3. \/ orders' = [orders EXCEPT ![k] = NoOrder]
      \/ FreezeOrder(k, keeper) /\ ~isMarketOrder(orders[k])
  BY DEF ExecuteOrder, ExecutionSucceeds, ExecutionFails, RemoveAndRefund, RemoveOrder, Cancels
<1> QED
  BY <1>1, <1>2, <1>3

LEMMA UsableStep == IInv /\ StoredOrderUsable /\ [Next]_vars => StoredOrderUsable'
<1> SUFFICES ASSUME IInv, StoredOrderUsable, [Next]_vars PROVE StoredOrderUsable'
  OBVIOUS
<1>1. ASSUME NEW k \in Keys, CancelOrder(k) PROVE StoredOrderUsable'
  BY <1>1 DEF CancelOrder, RemoveAndRefund, RemoveOrder, StoredOrderUsable, Stored, IInv, TypeOK
<1>2. ASSUME UNCHANGED orders PROVE StoredOrderUsable'
  BY <1>2 DEF StoredOrderUsable, Stored
<1>3. KeeperStep => UNCHANGED orders
  BY LiquidateInv
<1>4. ASSUME NEW n, PayExecutionFee(n) PROVE UNCHANGED orders
  BY <1>4 DEF PayExecutionFee
<1>5. ASSUME NEW t, NEW n, Transfer(t, n) \/ NextBlock PROVE UNCHANGED orders
  BY <1>5 DEF Transfer, NextBlock
<1>6. UNCHANGED vars => UNCHANGED orders
  BY DEF vars
<1> QED
  BY <1>1, <1>2, <1>3, <1>4, <1>5, <1>6, CreateUsable, UpdateUsable, ExecuteUsable
     DEF Next, KeeperStep

(* No handler ever leaves an order in the store that the later ones would   *)
(* refuse: every stored order can be cancelled, frozen and executed, and    *)
(* none is one that a liquidation or deleveraging made.                     *)
THEOREM OrdersUsable == Spec => []StoredOrderUsable
<1>1. Init => StoredOrderUsable
  BY DEF Init, StoredOrderUsable, Stored
<1> QED
  BY <1>1, UsableStep, OrdersInvariant, PTL DEF Spec

-----------------------------------------------------------------------------
(* Only executions move positions, and those of resting decreases and of    *)
(* liquidations compare every report with the position's last changes.      *)
PricesNotBefore(a, b) ==
  /\ tx'.op = "liquidate" =>
       b >= positions[a].increasedAtBlock /\ b >= positions[a].decreasedAtBlock
  /\ tx'.op = "execute" /\ orders[tx'.key].orderType \in {"LimitDecrease", "StopLossDecrease"}
       => b >= positions[a].increasedAtBlock

LEMMA PricesStep ==
  ASSUME IInv, [Next]_vars, NEW a \in Accounts, positions'[a] # positions[a], tx = NoTx,
         NEW b \in tx'.oracleBlocks
  PROVE  PricesNotBefore(a, b)
<1>1. ASSUME NEW c \in Accounts, NEW t \in Tokens, NEW prices \in Prices,
             ExecuteLiquidation(c, t, prices)
      PROVE  PricesNotBefore(a, b)
  <2>1. PICK o \in Order :
          /\ o.initialCollateralDeltaAmount = 0 /\ o.executionFee = 0
          /\ o.account = c /\ o.orderType = "Liquidation"
          /\ CreateAndExecute(o, "liquidate", LiquidationKeeper, prices)
    BY <1>1, LiquidationLeaves
  <2>2. /\ tx'.op = "liquidate" /\ tx'.oracleBlocks = StartBlocks(prices)
        /\ BlocksAccepted(o, prices) /\ ProcessPosition(o)
    BY <2>1, CreateAndExecuteLeaves
  <2>3. isDecreaseOrder(o) /\ ~isIncreaseOrder(o) /\ ~isMarketOrder(o)
    BY <2>1 DEF isDecreaseOrder, isIncreaseOrder, isMarketOrder, DecreaseOrders,
                IncreaseOrders, MarketOrders
  <2>4. a = o.account
    BY <2>1, <2>2, <2>3 DEF ProcessPosition, IInv, TypeOK
  <2> QED
    BY <2>1, <2>2, <2>3, <2>4 DEF BlocksAccepted, StartBlocks, PricesNotBefore
<1>2. ASSUME NEW c \in Accounts, NEW t \in Tokens, NEW size \in {0, 1}, NEW prices \in Prices,
             ExecuteAdl(c, t, size, prices)
      PROVE  PricesNotBefore(a, b)
  <2>1. tx'.op = "adl"
    BY <1>2, AdlLeaves, CreateAndExecuteLeaves
  <2> QED
    BY <2>1 DEF PricesNotBefore
<1>3. ASSUME NEW k \in Keys, NEW keeper \in OrderKeepers, NEW prices \in Prices,
             ExecuteOrder(k, keeper, prices)
      PROVE  PricesNotBefore(a, b)
  <2>1. ExecutionSucceeds(orders, k, "execute", keeper, prices)
    BY <1>3 DEF ExecuteOrder, ExecutionFails, RemoveAndRefund, FreezeOrder
  <2>2. /\ tx'.key = k /\ tx'.op = "execute" /\ tx'.oracleBlocks = StartBlocks(prices)
        /\ BlocksAccepted(orders[k], prices) /\ ProcessPosition(orders[k])
    BY <2>1 DEF ExecutionSucceeds
  <2>3. SUFFICES ASSUME orders[k].orderType \in {"LimitDecrease", "StopLossDecrease"}
                 PROVE  b >= positions[a].increasedAtBlock
    BY <2>2 DEF PricesNotBefore
  <2>4. isDecreaseOrder(orders[k]) /\ ~isIncreaseOrder(orders[k]) /\ ~isMarketOrder(orders[k])
    BY <2>3 DEF isDecreaseOrder, isIncreaseOrder, isMarketOrder, DecreaseOrders,
                IncreaseOrders, MarketOrders
  <2>5. a = orders[k].account
    BY <2>2, <2>4 DEF ProcessPosition, IInv, TypeOK
  <2> QED
    BY <2>2, <2>4, <2>5 DEF BlocksAccepted, StartBlocks
<1>4. ASSUME NEW n, PayExecutionFee(n) PROVE FALSE
  BY <1>4 DEF PayExecutionFee
<1>5. ASSUME NEW k \in Keys, CancelOrder(k) PROVE FALSE
  BY <1>5 DEF CancelOrder, RemoveAndRefund
<1>6. ASSUME UNCHANGED positions PROVE FALSE
  BY <1>6
<1>7. ASSUME NEW c \in Accounts, NEW type \in OrderTypes, NEW t \in Tokens,
             NEW size \in {0, 1}, NEW amount \in Amounts, NEW fee \in Amounts,
             CreateOrder(c, type, t, size, amount, fee)
      PROVE  UNCHANGED positions
  BY <1>7, Zenon DEF CreateOrder
<1>8. ASSUME NEW k \in Keys, NEW size \in {0, 1}, UpdateOrder(k, size)
      PROVE  UNCHANGED positions
  BY <1>8 DEF UpdateOrder
<1>9. ASSUME NEW t, NEW n, Transfer(t, n) \/ NextBlock PROVE UNCHANGED positions
  BY <1>9 DEF Transfer, NextBlock
<1>10. UNCHANGED vars => UNCHANGED positions
  BY DEF vars
<1> QED
  BY <1>1, <1>2, <1>3, <1>4, <1>5, <1>6, <1>7, <1>8, <1>9, <1>10 DEF Next

(* No account's position is closed by one of its resting orders at a signed *)
(* price older than its last increase, or by a liquidation at one older     *)
(* than its last increase or decrease.                                      *)
THEOREM OrdersPricesNotBeforePosition == Spec => PricesNotBeforePosition
<1>1. IInv /\ [Next]_vars =>
        [\A a \in Accounts :
           positions'[a] # positions[a] /\ tx = NoTx
           => \A b \in tx'.oracleBlocks :
                /\ tx'.op = "liquidate" =>
                     b >= positions[a].increasedAtBlock /\ b >= positions[a].decreasedAtBlock
                /\ tx'.op = "execute" /\ orders[tx'.key].orderType \in {"LimitDecrease", "StopLossDecrease"}
                     => b >= positions[a].increasedAtBlock]_vars
  BY PricesStep DEF PricesNotBefore
<1> QED
  BY <1>1, OrdersInvariant, PTL DEF Spec, PricesNotBeforePosition
=============================================================================
