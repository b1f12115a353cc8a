----------------------------- MODULE StrictBank -----------------------------
(***************************************************************************)
(* bank/StrictBank.sol: a token holder that compares its ERC20 balance      *)
(* with the balance it last recorded.  DepositVault, WithdrawalVault and    *)
(* OrderVault are StrictBanks.                                              *)
(*                                                                         *)
(* A bank is a record of two functions on tokens: `balance`, what the ERC20 *)
(* contracts say the bank holds, and `tokenBalances`, the mapping of that   *)
(* name in the contract.  The two differ only between a transfer made by    *)
(* somebody else and the next call that touches the token.                  *)
(***************************************************************************)
EXTENDS Integers

BankType(Tokens) == [balance : [Tokens -> Nat], tokenBalances : [Tokens -> Nat]]

EmptyBank(Tokens) ==
  [balance |-> [t \in Tokens |-> 0], tokenBalances |-> [t \in Tokens |-> 0]]

(* No more is recorded than is there, so that no recorded arrival is        *)
(* negative.                                                                *)
Covered(bank, Tokens) == \A t \in Tokens : bank.tokenBalances[t] <= bank.balance[t]

(* ERC20 transfer from outside: the contract does not run.                  *)
TransferIn(bank, t, n) == [bank EXCEPT !.balance[t] = @ + n]

(* What recordTransferIn(t) returns: everything that arrived unrecorded,    *)
(* whoever sent it.                                                         *)
Received(bank, t) == bank.balance[t] - bank.tokenBalances[t]

RecordTransferIn(bank, t) == [bank EXCEPT !.tokenBalances[t] = bank.balance[t]]

(* The ERC20 transfer fails when the balance is short, and _afterTransferOut *)
(* then records the whole balance, unrecorded arrivals included.            *)
CanTransferOut(bank, t, n) == n <= bank.balance[t]

(* Fault: _afterTransferOut is not overridden, so the record goes stale.    *)
TransferOutUnsynced(bank, t, n) == [bank EXCEPT !.balance[t] = @ - n]

TransferOut(bank, t, n) ==
  LET left == bank.balance[t] - n
  IN  [balance |-> [bank.balance EXCEPT ![t] = left],
       tokenBalances |-> [bank.tokenBalances EXCEPT ![t] = left]]

Recorded(bank, t) == bank.tokenBalances[t]
=============================================================================
