------------------------ MODULE MCWithdrawalLifecycle ------------------------
(* Instances of WithdrawalLifecycle for TLC.                                *)
EXTENDS WithdrawalLifecycle

CONSTANTS a1, wnt, gmA, gmB, keeper

MCSupply == [t \in Tokens |-> IF t = WNT THEN 3 ELSE 2]
=============================================================================
