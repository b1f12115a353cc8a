------------------------------ MODULE Requests ------------------------------
(***************************************************************************)
(* What deposits, withdrawals and orders have in common: the vault that     *)
(* holds their tokens, the price reports their execution is given, the age  *)
(* at which their account may cancel them, and the execution fee.           *)
(***************************************************************************)
EXTENDS StrictBank, Totals

(* The prices of a transaction, known here by the block range each price    *)
(* report is signed for; Oracle._validateBlockRanges asks that the ranges   *)
(* share a block.  A price read from a price feed has no range, so the set  *)
(* may be empty, and every check of the ranges then passes.                 *)
ReportSets(Blocks, MaxReports) ==
  {p \in SUBSET [min : Blocks, max : Blocks] :
     /\ Cardinality(p) <= MaxReports
     /\ \A r, s \in p : r.min <= s.max}

(* Prices are of the past: a signed report ends before the current block, a *)
(* realtime report with it at the latest.                                   *)
KnownAt(prices, block) == \A r \in prices : r.max <= block

WithinRange(prices, b) == \A r \in prices : r.min <= b /\ b <= r.max

StartBlocks(prices) == {r.min : r \in prices}

(* ExchangeUtils.validateRequestCancellation.                               *)
Expired(updatedAtBlock, block, age) == block - updatedAtBlock >= age

(* GasUtils.payExecutionFee: the keeper gets the cost of its gas up to the  *)
(* fee, the refund receiver what is left of the fee.                        *)
PayFee(bank, token, fee, forKeeper) ==
  LET paid   == TransferOut(bank, token, forKeeper)
      refund == fee - forKeeper
  IN  IF refund = 0 THEN paid ELSE TransferOut(paid, token, refund)
=============================================================================
