-------------------------- MODULE MCOrderLifecycle --------------------------
(* Instances of OrderLifecycle for TLC: wnt is scarcer than the orders could *)
(* use, so that fees, refunds and surplus compete for the same units.       *)
EXTENDS OrderLifecycle

CONSTANTS a1, wnt, usd, keeper, frozenKeeper, liquidator, adl

MCSupply == [t \in Tokens |-> IF t = WNT THEN 3 ELSE 1]

(* Less wnt where three keys are followed, so that one of them can be a      *)
(* liquidation after an increase and a decrease of the position.             *)
MCExitSupply == [t \in Tokens |-> 2]
=============================================================================
