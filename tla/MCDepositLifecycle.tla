------------------------- MODULE MCDepositLifecycle -------------------------
(* Instances of DepositLifecycle for TLC.                                   *)
EXTENDS DepositLifecycle

CONSTANTS a1, wnt, usd, keeper

MCSupply == [t \in Tokens |-> IF t = WNT THEN 5 ELSE 2]
=============================================================================
