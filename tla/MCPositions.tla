----------------------------- MODULE MCPositions -----------------------------
(* Factors are of 8.  The index token is the long token.                    *)
EXTENDS Positions, TLC

CONSTANTS alice, bob, holder, wnt, usdc

MCPositionKeys ==
  {[account |-> alice, collateral |-> usdc, isLong |-> TRUE],
   [account |-> alice, collateral |-> wnt, isLong |-> FALSE],
   [account |-> bob, collateral |-> usdc, isLong |-> FALSE]}

MCSetting ==
  [positionFeeFactor |-> [positive \in BOOLEAN |-> IF positive THEN 1 ELSE 2],
   positionFeeReceiverFactor |-> 2, borrowingFeeReceiverFactor |-> 2,
   skipBorrowingFeeForSmallerSide |-> TRUE,
   uiFeeFactor |-> 1, totalRebateFactor |-> (alice :> 4 @@ bob :> 0), traderDiscountFactor |-> 4,
   swapFeeFactor |-> 1, swapFeeReceiverFactor |-> 2,
   maxPositionImpactFactor |-> [positive \in BOOLEAN |-> 1], maxPositionImpactFactorForLiquidations |-> 1,
   minPositionImpactPoolAmount |-> 0,
   maxPnlFactorForTraders |-> 4, maxPnlFactorForAdl |-> 2, minPnlFactorAfterAdl |-> 0,
   maxPnlFactorForDeposits |-> 6, maxPnlFactorForWithdrawals |-> 5,
   reserveFactor |-> 6, maxPoolAmount |-> 400, maxOpenInterest |-> 200,
   minCollateralFactor |-> 1, minCollateralFactorForOpenInterestMultiplier |-> 0,
   minCollateralUsd |-> 4, minPositionSizeUsd |-> 12]

Quote(low, high, rate, borrowing, distribution, impact, closing) ==
  [index |-> [min |-> low, max |-> high],
   token |-> (wnt :> [min |-> low, max |-> high] @@ usdc :> [min |-> 1, max |-> 1]),
   fundingRate |-> rate, borrowing |-> [b \in BOOLEAN |-> borrowing],
   distribution |-> distribution, impact |-> impact, closingImpact |-> closing]

MCSituations ==
  {Quote(4, 4, 3, 1, 0, 8, 0), Quote(9, 9, 7, 0, 1, 5, 2), Quote(2, 3, -4, 1, 0, -9, -2)}

MCIncreaseOrders == {[collateral |-> 20, size |-> 24], [collateral |-> 9, size |-> 0]}

MCDecreaseOrders ==
  {[collateral |-> 0, size |-> 24, swap |-> "none"], [collateral |-> 5, size |-> 12, swap |-> "none"],
   [collateral |-> 5, size |-> 0, swap |-> "none"], [collateral |-> 0, size |-> 24, swap |-> "profit"],
   [collateral |-> 0, size |-> 24, swap |-> "collateral"]}

MCInitialPool == (wnt :> 10 @@ usdc :> 80)
=============================================================================
