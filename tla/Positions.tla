------------------------------ MODULE Positions ------------------------------
(***************************************************************************)
(* The positions of one market of two tokens and the market's books for    *)
(* them: open interest, collateral, borrowing, funding, the position        *)
(* impact pool, fees and what can be claimed.  IncreasePositionUtils,       *)
(* DecreasePositionUtils with the order in which a decrease pays its costs, *)
(* liquidation and auto-deleveraging, and the claims.                       *)
(*                                                                         *)
(* An order changes the books in one transaction, so each is one action;    *)
(* what an execution is given, the prices, the time that has passed and the *)
(* price impact, is a member of Situations.                                 *)
(***************************************************************************)
EXTENDS Precision, Totals

CONSTANTS LongToken, ShortToken,
          Accounts, HoldingAddress, \* HOLDING_ADDRESS: gets funding fees paid in the wrong token
          PositionKeys,             \* records of an account, a collateral token and isLong
          PerSize,                  \* FLOAT_PRECISION * FLOAT_PRECISION_SQRT
          Setting,                  \* the market's settings in the DataStore
          Situations,               \* what executions may be given
          InitialPool,              \* what was deposited before
          IncreaseOrders, DecreaseOrders, AdlSizes, \* what keepers execute
          ClaimableFactors,         \* the shares of claimable collateral that may be released
          MaxActions                \* bound

Tokens == {LongToken, ShortToken}
Sides == Tokens \X BOOLEAN
Owners == Accounts \cup {HoldingAddress}

Settings ==
  [positionFeeFactor : [BOOLEAN -> Nat],     \* by forPositiveImpact
   positionFeeReceiverFactor : Nat, borrowingFeeReceiverFactor : Nat,
   skipBorrowingFeeForSmallerSide : BOOLEAN,
   uiFeeFactor : Nat, totalRebateFactor : [Accounts -> Nat], traderDiscountFactor : Nat,
   swapFeeFactor : Nat, swapFeeReceiverFactor : Nat,
   maxPositionImpactFactor : [BOOLEAN -> Nat], maxPositionImpactFactorForLiquidations : Nat,
   minPositionImpactPoolAmount : Nat,
   maxPnlFactorForTraders : Nat, maxPnlFactorForAdl : Nat, minPnlFactorAfterAdl : Nat,
   maxPnlFactorForDeposits : Nat, maxPnlFactorForWithdrawals : Nat,
   reserveFactor : Nat,                      \* the smaller of the two reserve factors
   maxPoolAmount : Nat, maxOpenInterest : Nat,
   minCollateralFactor : Nat, minCollateralFactorForOpenInterestMultiplier : Nat,
   minCollateralUsd : Nat, minPositionSizeUsd : Nat]

(* Which of a decrease's two swaps is asked for and does not fail.          *)
Swaps == {"none", "profit", "collateral"}

Price == {p \in [min : Nat \ {0}, max : Nat \ {0}] : p.min <= p.max}

(* fundingRate is the funding factor over the time that has passed, above 0 *)
(* when longs pay shorts; borrowing is the same for each side's borrowing   *)
(* factor; distribution is what the impact pool is due to give up; impact   *)
(* is the price impact of the order and closingImpact that of closing what  *)
(* it leaves, both before any cap.                                          *)
Situation ==
  [index : Price, token : [Tokens -> Price], fundingRate : Int, borrowing : [BOOLEAN -> Nat],
   distribution : Nat, impact : Int, closingImpact : Int]

(* Rebates and discounts are shares of at most everything, which the        *)
(* referral storage demands (mock/ReferralStorage.sol:74, 75 and 95), and   *)
(* so is the receiver's share of a swap fee (Config.sol:370).               *)
ASSUME PositionsAssumption ==
  /\ LongToken # ShortToken /\ HoldingAddress \notin Accounts
  /\ IsFiniteSet(Accounts) /\ IsFiniteSet(PositionKeys)
  /\ PositionKeys \subseteq [account : Accounts, collateral : Tokens, isLong : BOOLEAN]
  /\ PerSize \in Nat \ {0} /\ Setting \in Settings
  /\ \A a \in Accounts : Setting.totalRebateFactor[a] <= FloatPrecision
  /\ Setting.traderDiscountFactor <= FloatPrecision /\ Setting.swapFeeReceiverFactor <= FloatPrecision
  /\ Situations \subseteq Situation /\ InitialPool \in [Tokens -> Nat]
  /\ IncreaseOrders \subseteq [collateral : Nat, size : Nat]
  /\ DecreaseOrders \subseteq [collateral : Nat, size : Nat, swap : Swaps] /\ AdlSizes \subseteq Nat
  /\ ClaimableFactors \subseteq 0..FloatPrecision /\ MaxActions \in Nat

VARIABLES
  positions, \* the PositionStore
  market,    \* the DataStore's books of the market
  balance,   \* the ERC20 balances of the market
  funding,   \* history: funding fees the market has got, less those claimed
  unpaid,    \* history: funding fees that closed positions did not pay in their collateral
  stranded,  \* history: tokens that were taken as costs and entered no book
  uncovered, \* history: fees entered in the books that nobody paid
  actions    \* their number, which is bounded

vars == <<positions, market, balance, funding, unpaid, stranded, uncovered, actions>>

NoTokens == [t \in Tokens |-> 0]
Of(t, n) == [u \in Tokens |-> IF u = t THEN n ELSE 0]
Plus(f, g) == [t \in Tokens |-> f[t] + g[t]]
PositivePart(n) == IF n > 0 THEN n ELSE 0

Position == [sizeInUsd : Nat, sizeInTokens : Nat, collateralAmount : Nat, borrowingFactor : Nat,
             fundingFeeAmountPerSize : Nat, claimableFundingAmountPerSize : [Tokens -> Nat]]

NoPosition == [sizeInUsd |-> 0, sizeInTokens |-> 0, collateralAmount |-> 0, borrowingFactor |-> 0,
               fundingFeeAmountPerSize |-> 0, claimableFundingAmountPerSize |-> NoTokens]

Market ==
  [poolAmount : [Tokens -> Nat], positionImpactPool : Nat,
   openInterest : [Sides -> Nat], openInterestInTokens : [Sides -> Nat], collateralSum : [Sides -> Nat],
   cumulativeBorrowingFactor : [BOOLEAN -> Nat], totalBorrowing : [BOOLEAN -> Nat],
   fundingFeeAmountPerSize : [Sides -> Nat], claimableFundingAmountPerSize : [Sides -> Nat],
   claimableFee : [Tokens -> Nat], claimableUiFee : [Tokens -> Nat], affiliateReward : [Tokens -> Nat],
   claimableFunding : [Tokens -> [Accounts -> Nat]],
   claimableCollateral : [Tokens -> [Owners -> Nat]],  \* by time key, of which there is one here
   claimedCollateral : [Tokens -> [Owners -> Nat]],
   claimableCollateralAmount : [Tokens -> Nat]]        \* what of it is still to be claimed

Init ==
  LET none == [x \in Sides |-> 0]
      nobody(S) == [t \in Tokens |-> [o \in S |-> 0]]
  IN  /\ positions = [k \in PositionKeys |-> NoPosition]
      /\ market = [poolAmount |-> InitialPool, positionImpactPool |-> 0,
                   openInterest |-> none, openInterestInTokens |-> none, collateralSum |-> none,
                   cumulativeBorrowingFactor |-> [b \in BOOLEAN |-> 0],
                   totalBorrowing |-> [b \in BOOLEAN |-> 0],
                   fundingFeeAmountPerSize |-> none, claimableFundingAmountPerSize |-> none,
                   claimableFee |-> NoTokens, claimableUiFee |-> NoTokens, affiliateReward |-> NoTokens,
                   claimableFunding |-> nobody(Accounts), claimableCollateral |-> nobody(Owners),
                   claimedCollateral |-> nobody(Owners), claimableCollateralAmount |-> NoTokens]
      /\ balance = InitialPool
      /\ funding = NoTokens /\ unpaid = NoTokens /\ stranded = NoTokens /\ uncovered = NoTokens
      /\ actions = 0

-----------------------------------------------------------------------------
PnlToken(isLong) == IF isLong THEN LongToken ELSE ShortToken

OpenInterest(mk, isLong) == mk.openInterest[<<LongToken, isLong>>] + mk.openInterest[<<ShortToken, isLong>>]

OpenInterestInTokens(mk, isLong) ==
  mk.openInterestInTokens[<<LongToken, isLong>>] + mk.openInterestInTokens[<<ShortToken, isLong>>]

PoolUsd(mk, s, isLong) == mk.poolAmount[PnlToken(isLong)] * s.token[PnlToken(isLong)].min

(* What the pool may have to pay a side: longs the tokens they are open     *)
(* for, shorts at most their size.                                          *)
ReservedUsd(mk, s, isLong) ==
  IF isLong THEN OpenInterestInTokens(mk, TRUE) * s.index.max ELSE OpenInterest(mk, FALSE)

(* Fault: each side is checked against the pool that pays the other.        *)
validateReserveOfOther(mk, s, isLong) ==
  ReservedUsd(mk, s, isLong) <= ApplyFactor(PoolUsd(mk, s, ~isLong), Setting.reserveFactor)

validateReserve(mk, s, isLong) ==
  ReservedUsd(mk, s, isLong) <= ApplyFactor(PoolUsd(mk, s, isLong), Setting.reserveFactor)

(* The impact pool gives up what it is due to, down to its minimum.         *)
DistributedImpactPool(mk, s) ==
  mk.positionImpactPool
    - Smaller(s.distribution, PositivePart(mk.positionImpactPool - Setting.minPositionImpactPoolAmount))

(* Fault: what payers owe per unit of size is rounded down.                 *)
FundingPerSizeRoundedDown(mk, s) ==
  LET longsPay == s.fundingRate > 0
      owing    == OpenInterest(mk, longsPay)
      other    == OpenInterest(mk, ~longsPay)
      usd      == ApplyFactor(IF owing > other THEN owing ELSE other,
                              IF longsPay THEN s.fundingRate ELSE -s.fundingRate)
      usdOf    == [t \in Tokens |-> MulDiv(usd, mk.openInterest[<<t, longsPay>>], owing)]
  IN  [pay |-> [t \in Tokens |-> IF usdOf[t] = 0 THEN 0
                  ELSE ((usdOf[t] * PerSize) \div mk.openInterest[<<t, longsPay>>]) \div s.token[t].max],
       get |-> [t \in Tokens |-> MulDiv(usdOf[t], PerSize, other) \div s.token[t].max]]

(* getNextFundingAmountPerSize: what a unit of the paying side's size owes  *)
(* in its collateral token, rounded up, and what a unit of the other side's *)
(* size gets of each token, rounded down.                                   *)
FundingPerSize(mk, s) ==
  LET longsPay == s.fundingRate > 0
      owing    == OpenInterest(mk, longsPay)
      other    == OpenInterest(mk, ~longsPay)
      usd      == ApplyFactor(IF owing > other THEN owing ELSE other,
                              IF longsPay THEN s.fundingRate ELSE -s.fundingRate)
      usdOf    == [t \in Tokens |-> MulDiv(usd, mk.openInterest[<<t, longsPay>>], owing)]
  IN  [pay |-> [t \in Tokens |-> IF usdOf[t] = 0 THEN 0 ELSE
                  RoundUpDivision(RoundUpDivision(usdOf[t] * PerSize, mk.openInterest[<<t, longsPay>>]),
                                  s.token[t].max)],
       get |-> [t \in Tokens |-> MulDiv(usdOf[t], PerSize, other) \div s.token[t].max]]

(* A side without open interest means no funding.                           *)
Funded(mk, s) ==
  LET longsPay == s.fundingRate > 0
      f        == FundingPerSize(mk, s)
      Grown(perSize, by, isLong) ==
        [x \in Sides |-> perSize[x] + (IF x[2] = isLong THEN by[x[1]] ELSE 0)]
  IN  IF s.fundingRate = 0 \/ OpenInterest(mk, TRUE) = 0 \/ OpenInterest(mk, FALSE) = 0 THEN mk
      ELSE [mk EXCEPT
              !.fundingFeeAmountPerSize = Grown(@, f.pay, longsPay),
              !.claimableFundingAmountPerSize = Grown(@, f.get, ~longsPay)]

(* A side borrows when the pool is reserved for it, unless it is the        *)
(* smaller one and that is let off.  (Funding moves no open interest, so it *)
(* does not matter that funding comes first.)                               *)
Borrows(mk, s, isLong) ==
  /\ ReservedUsd(mk, s, isLong) > 0
  /\ Setting.skipBorrowingFeeForSmallerSide => OpenInterest(mk, isLong) >= OpenInterest(mk, ~isLong)

(* The borrowing factor divides by the pool of a side that borrows.         *)
CanAccrue(mk, s) == \A b \in BOOLEAN : Borrows(mk, s, b) => PoolUsd(mk, s, b) > 0

(* distributePositionImpactPool and updateFundingAndBorrowingState.         *)
Accrued(mk, s) ==
  [Funded(mk, s) EXCEPT
     !.positionImpactPool = DistributedImpactPool(mk, s),
     !.cumulativeBorrowingFactor =
        [b \in BOOLEAN |-> @[b] + (IF Borrows(mk, s, b) THEN s.borrowing[b] ELSE 0)]]

-----------------------------------------------------------------------------
Side(k) == <<k.collateral, k.isLong>>

FundingDue(size, latest, own, roundUp) ==
  IF roundUp THEN RoundUpDivision(size * (latest - own), PerSize) ELSE (size * (latest - own)) \div PerSize

FundingFee(mk, k, p) ==
  FundingDue(p.sizeInUsd, mk.fundingFeeAmountPerSize[Side(k)], p.fundingFeeAmountPerSize, TRUE)

ClaimableFunding(mk, k, p, t) ==
  FundingDue(p.sizeInUsd, mk.claimableFundingAmountPerSize[<<t, k.isLong>>],
             p.claimableFundingAmountPerSize[t], FALSE)

(* getPositionFees without the funding fee, in the collateral token.  The   *)
(* rebate goes to the trader, as a discount, and to the affiliate.          *)
PositionFees(mk, k, p, s, d, positive, uiFeeFactor) ==
  LET pc        == s.token[k.collateral].min
      fee       == ApplyFactor(d, Setting.positionFeeFactor[positive]) \div pc
      rebate    == ApplyFactor(fee, Setting.totalRebateFactor[k.account])
      discount  == ApplyFactor(rebate, Setting.traderDiscountFactor)
      receiver  == ApplyFactor(fee - rebate, Setting.positionFeeReceiverFactor)
      borrowing == ApplyFactor(p.sizeInUsd, mk.cumulativeBorrowingFactor[k.isLong] - p.borrowingFactor) \div pc
      ofThat    == ApplyFactor(borrowing, Setting.borrowingFeeReceiverFactor)
      ui        == ApplyFactor(d, uiFeeFactor) \div pc
  IN  [pool |-> fee - rebate - receiver + borrowing - ofThat, receiver |-> receiver + ofThat, ui |-> ui,
       affiliate |-> rebate - discount, cost |-> fee + borrowing + ui - discount]

(* MarketUtils.getPnl, at the index price that makes it larger.             *)
PoolPnl(mk, s, isLong) ==
  IF OpenInterest(mk, isLong) = 0 \/ OpenInterestInTokens(mk, isLong) = 0 THEN 0
  ELSE IF isLong THEN OpenInterestInTokens(mk, TRUE) * s.index.max - OpenInterest(mk, TRUE)
  ELSE OpenInterest(mk, FALSE) - OpenInterestInTokens(mk, FALSE) * s.index.min

(* The pnl of a whole position, at the index price that makes it smaller.   *)
UncappedPnl(k, p, s) ==
  LET value == p.sizeInTokens * (IF k.isLong THEN s.index.min ELSE s.index.max)
  IN  IF k.isLong THEN value - p.sizeInUsd ELSE p.sizeInUsd - value

(* A profit is cut in the proportion in which the profit of its side is     *)
(* capped.                                                                  *)
TotalPnl(mk, k, p, s) ==
  LET pnl   == UncappedPnl(k, p, s)
      ofAll == PoolPnl(mk, s, k.isLong)
      most  == ApplyFactor(PoolUsd(mk, s, k.isLong), Setting.maxPnlFactorForTraders)
  IN  IF pnl > 0 /\ ofAll > most /\ most > 0 THEN MulDiv(pnl, most, ofAll) ELSE pnl

SizeDeltaInTokens(k, p, d) ==
  IF d = p.sizeInUsd THEN p.sizeInTokens
  ELSE IF k.isLong THEN RoundUpDivision(p.sizeInTokens * d, p.sizeInUsd)
  ELSE (p.sizeInTokens * d) \div p.sizeInUsd

(* getCappedPositionImpactUsd: an impact in the trader's favour is bounded  *)
(* by the impact pool and by a share of the order.                          *)
CappedImpact(mk, s, impact, d) ==
  IF impact <= 0 THEN impact
  ELSE Smaller(Smaller(impact, mk.positionImpactPool * s.index.min),
               ApplyFactor(d, Setting.maxPositionImpactFactor[TRUE]))

isPositionLiquidatable(mk, k, p, s, withMinCollateral) ==
  LET pc        == s.token[k.collateral].min
      worst     == -ApplyFactor(p.sizeInUsd, Setting.maxPositionImpactFactorForLiquidations)
      impact    == IF s.closingImpact >= 0 THEN 0
                   ELSE IF s.closingImpact < worst THEN worst ELSE s.closingImpact
      fees      == PositionFees(mk, k, p, s, p.sizeInUsd, s.closingImpact > 0, 0)
      remaining == p.collateralAmount * pc + TotalPnl(mk, k, p, s) + impact
                     - (fees.cost + FundingFee(mk, k, p)) * pc
  IN  \/ withMinCollateral /\ remaining < Setting.minCollateralUsd
      \/ remaining <= 0
      \/ remaining < ApplyFactor(p.sizeInUsd, Setting.minCollateralFactor)

(* willPositionCollateralBeSufficient, for what is left in usd.             *)
Sufficient(mk, isLong, size, remainingUsd, openInterestDelta) ==
  LET byOpenInterest == ApplyFactor(OpenInterest(mk, isLong) + openInterestDelta,
                                    Setting.minCollateralFactorForOpenInterestMultiplier)
      least == IF byOpenInterest > Setting.minCollateralFactor THEN byOpenInterest
                                                               ELSE Setting.minCollateralFactor
  IN  remainingUsd >= 0 /\ remainingUsd >= ApplyFactor(size, least)

(* The market's checks of its own balance after it has paid.                *)
validateMarketTokenBalance(mk, b) ==
  \A t \in Tokens :
    /\ b[t] >= mk.poolAmount[t] + mk.claimableCollateralAmount[t] + mk.claimableFee[t]
                 + mk.claimableUiFee[t] + mk.affiliateReward[t]
    /\ b[t] >= mk.collateralSum[<<t, TRUE>>] + mk.collateralSum[<<t, FALSE>>]
    /\ b[t] >= Total(mk.claimableFunding[t])

(* Fault: the total borrowing keeps the factor the position had.            *)
SettledAtOldFactor(mk, k, before, after, factor) ==
  LET x == Side(k)
  IN  [mk EXCEPT
         !.totalBorrowing[k.isLong] = @ - ApplyFactor(before.sizeInUsd, before.borrowingFactor)
                                        + ApplyFactor(after.sizeInUsd, before.borrowingFactor),
         !.openInterest[x] = @ + after.sizeInUsd - before.sizeInUsd,
         !.openInterestInTokens[x] = @ + after.sizeInTokens - before.sizeInTokens,
         !.collateralSum[x] = @ + after.collateralAmount - before.collateralAmount,
         !.claimableFunding = [t \in Tokens |->
            [mk.claimableFunding[t] EXCEPT ![k.account] = @ + ClaimableFunding(mk, k, before, t)]]]

(* A position settles with the books when it is changed: the open interest  *)
(* and the total borrowing move with it, and the funding due to it becomes  *)
(* its account's to claim.                                                  *)
Settled(mk, k, before, after, factor) ==
  LET x == Side(k)
  IN  [mk EXCEPT
         !.totalBorrowing[k.isLong] = @ - ApplyFactor(before.sizeInUsd, before.borrowingFactor)
                                        + ApplyFactor(after.sizeInUsd, factor),
         !.openInterest[x] = @ + after.sizeInUsd - before.sizeInUsd,
         !.openInterestInTokens[x] = @ + after.sizeInTokens - before.sizeInTokens,
         !.collateralSum[x] = @ + after.collateralAmount - before.collateralAmount,
         !.claimableFunding = [t \in Tokens |->
            [mk.claimableFunding[t] EXCEPT ![k.account] = @ + ClaimableFunding(mk, k, before, t)]]]

-----------------------------------------------------------------------------
Took == actions' = actions + 1

LatestOf(mk, k) ==
  [fundingFeeAmountPerSize |-> mk.fundingFeeAmountPerSize[Side(k)],
   claimableFundingAmountPerSize |-> [t \in Tokens |-> mk.claimableFundingAmountPerSize[<<t, k.isLong>>]]]

(* A position without size starts at the market's latest funding.           *)
Opened(mk, k) ==
  IF positions[k].sizeInUsd > 0 THEN positions[k]
  ELSE [positions[k] EXCEPT
          !.fundingFeeAmountPerSize = LatestOf(mk, k).fundingFeeAmountPerSize,
          !.claimableFundingAmountPerSize = LatestOf(mk, k).claimableFundingAmountPerSize]

(* getExecutionPriceForIncrease: the impact in index tokens and the size    *)
(* with it, both rounded against the trader.                                *)
IncreaseAmounts(mk, k, s, d) ==
  LET impact == IF d = 0 THEN 0 ELSE CappedImpact(mk, s, s.impact, d)
      amount == IF impact > 0 THEN impact \div s.index.max ELSE -RoundUpDivision(-impact, s.index.min)
  IN  [positive |-> impact > 0, impactAmount |-> amount,
       tokens |-> IF k.isLong THEN (d \div s.index.max) + amount
                              ELSE RoundUpDivision(d, s.index.min) - amount]

Increased(mk, k, p, d, tokens, collateral) ==
  LET latest == LatestOf(mk, k)
  IN  [sizeInUsd |-> p.sizeInUsd + d, sizeInTokens |-> p.sizeInTokens + tokens,
       collateralAmount |-> collateral,
       borrowingFactor |-> mk.cumulativeBorrowingFactor[k.isLong],
       fundingFeeAmountPerSize |-> latest.fundingFeeAmountPerSize,
       claimableFundingAmountPerSize |-> latest.claimableFundingAmountPerSize]

(* The end of an increase: the market's limits, when the size has grown,    *)
(* and the position's.                                                      *)
FinishIncrease(k, d, s, next, after) ==
  /\ d > 0 =>
       /\ OpenInterest(after, k.isLong) <= Setting.maxOpenInterest
       /\ validateReserve(after, s, k.isLong)
       /\ Sufficient(after, k.isLong, next.sizeInUsd,
                     next.collateralAmount * s.token[k.collateral].min, 0)
  /\ next.sizeInTokens > 0 /\ next.sizeInUsd > 0 /\ next.sizeInUsd >= Setting.minPositionSizeUsd
  /\ ~isPositionLiquidatable(after, k, next, s, TRUE)
  /\ validateMarketTokenBalance(after, balance')
  /\ positions' = [positions EXCEPT ![k] = next]
  /\ market' = after

(* IncreasePositionUtils.increasePosition: `in` has been sent to the market *)
(* and d is added to the size.  mk is the market accrued up to now.         *)
IncreasePosition(k, in, d, s, mk) ==
  LET c == k.collateral
  IN  /\ balance' = Plus(balance, Of(c, in))
      /\ \E p \in {Opened(mk, k)}, size \in {IncreaseAmounts(mk, k, s, d)} :
         \E fees \in {PositionFees(mk, k, p, s, d, size.positive, Setting.uiFeeFactor)},
            funded \in {FundingFee(mk, k, p)} :
         \E next \in {Increased(mk, k, p, d, size.tokens, p.collateralAmount + in - fees.cost - funded)} :
           /\ fees.pool >= 0 /\ next.collateralAmount >= 0
           /\ d > 0 => size.tokens > 0
           /\ FinishIncrease(k, d, s, next,
                [Settled(mk, k, p, next, next.borrowingFactor) EXCEPT
                   !.poolAmount[c] = @ + fees.pool,
                   !.claimableFee[c] = @ + fees.receiver, !.claimableUiFee[c] = @ + fees.ui,
                   !.affiliateReward[c] = @ + fees.affiliate,
                   !.positionImpactPool = PositivePart(@ - size.impactAmount)])
           /\ funding' = Plus(funding, Of(c, funded))
      /\ UNCHANGED <<unpaid, stranded, uncovered>> /\ Took

-----------------------------------------------------------------------------
(* What of d and x, the size and the collateral to be taken out, a partial  *)
(* decrease is changed to before anything else happens.                     *)
Adjusted(k, p, s, d, x) ==
  LET pnl      == TotalPnl(market, k, p, s)
      realized == SignedMulDiv(pnl, d, p.sizeInUsd)
      loss     == IF realized < 0 THEN realized ELSE 0
      Left(y)  == (p.collateralAmount - y) * s.token[k.collateral].min + loss
      enough   == Sufficient(market, k.isLong, p.sizeInUsd - d, Left(x), -d)
      y        == IF enough THEN x ELSE 0
      closes   == \/ Left(y) + pnl - realized < Setting.minCollateralUsd
                  \/ p.sizeInUsd - d < Setting.minPositionSizeUsd
  IN  [possible |-> enough \/ d > 0,
       d |-> IF closes THEN p.sizeInUsd ELSE d, x |-> IF closes THEN 0 ELSE y]

AdjustedDecrease(k, p, s, d, x) ==
  IF d < p.sizeInUsd THEN Adjusted(k, p, s, d, x) ELSE [possible |-> TRUE, d |-> d, x |-> 0]

(* MarketUtils.getPnlToPoolFactor, at the lower value of the pool.          *)
PnlToPoolFactor(mk, s, isLong) ==
  IF PoolUsd(mk, s, isLong) = 0 THEN 0
  ELSE SignedMulDiv(PoolPnl(mk, s, isLong), FloatPrecision, PoolUsd(mk, s, isLong))

(* Both sides' profits must be a small enough part of the pool, with the    *)
(* bound for withdrawals on the side whose token leaves.                    *)
validateMaxPnl(mk, s, tokenOut) ==
  \A isLong \in BOOLEAN :
    PnlToPoolFactor(mk, s, isLong)
      <= IF PnlToken(isLong) = tokenOut THEN Setting.maxPnlFactorForWithdrawals
                                        ELSE Setting.maxPnlFactorForDeposits

(* A swap inside the market, at the prices against the trader and without a *)
(* swap price impact; its fee is taken from what goes in.                   *)
MarketSwap(mk, s, tokenIn, n, uiFeeFactor) ==
  LET tokenOut == IF tokenIn = LongToken THEN ShortToken ELSE LongToken
      fee      == ApplyFactor(n, Setting.swapFeeFactor)
      receiver == ApplyFactor(fee, Setting.swapFeeReceiverFactor)
      ui       == ApplyFactor(n, uiFeeFactor)
      out      == ((n - fee - ui) * s.token[tokenIn].min) \div s.token[tokenOut].max
      after    == [mk EXCEPT !.poolAmount[tokenIn] = @ + n - receiver - ui,
                             !.poolAmount[tokenOut] = @ - out,
                             !.claimableFee[tokenIn] = @ + receiver, !.claimableUiFee[tokenIn] = @ + ui]
  IN  [market |-> after, out |-> out,
       possible |-> /\ n > 0 /\ fee + ui <= n /\ out <= mk.poolAmount[tokenOut]
                    /\ after.poolAmount[tokenIn] <= Setting.maxPoolAmount
                    /\ validateReserve(after, s, tokenOut = LongToken)
                    /\ validateMaxPnl(after, s, tokenOut)]

(* Fault: what is paid in the other token is not taken from it.             *)
payForCostKeepingProfit(purse, usd, pc, ps) ==
  LET need     == RoundUpDivision(usd, pc)
      fromOut  == Smaller(need, purse.out)
      fromRest == Smaller(need - fromOut, purse.rest)
      due      == ((need - fromOut - fromRest) * pc) \div ps
      fromSec  == Smaller(due, purse.sec)
  IN  [purse |-> [out |-> purse.out - fromOut, rest |-> purse.rest - fromRest, sec |-> purse.sec],
       paid |-> fromOut + fromRest, paidInOther |-> fromSec, owing |-> (due - fromSec) * ps]

(* DecreasePositionCollateralUtils.payForCost: from the output, then from   *)
(* the collateral, both rounded up, then from the profit in the other       *)
(* token, rounded down.                                                     *)
payForCost(purse, usd, pc, ps) ==
  LET need     == RoundUpDivision(usd, pc)
      fromOut  == Smaller(need, purse.out)
      fromRest == Smaller(need - fromOut, purse.rest)
      due      == ((need - fromOut - fromRest) * pc) \div ps
      fromSec  == Smaller(due, purse.sec)
  IN  [purse |-> [out |-> purse.out - fromOut, rest |-> purse.rest - fromRest, sec |-> purse.sec - fromSec],
       paid |-> fromOut + fromRest, paidInOther |-> fromSec, owing |-> (due - fromSec) * ps]

(* The costs are paid in order; after one that is not covered comes none.   *)
PayNext(before, usd, pc, ps) ==
  IF before.owing > 0 THEN [before EXCEPT !.paid = 0, !.paidInOther = 0]
                      ELSE payForCost(before.purse, usd, pc, ps)

(* What a negative impact is beyond the most that is charged at once.       *)
ImpactDiff(impact, d) == PositivePart(-impact - ApplyFactor(d, Setting.maxPositionImpactFactor[FALSE]))

(* What a decrease of d realizes, and what it costs.                        *)
Realized(mk, k, p, s, d, uiFeeFactor) ==
  LET capped == IF d = 0 THEN 0 ELSE CappedImpact(mk, s, s.impact, d)
      diff   == ImpactDiff(capped, d)
      tokens == SizeDeltaInTokens(k, p, d)
  IN  [tokens |-> tokens, pnl |-> SignedMulDiv(TotalPnl(mk, k, p, s), tokens, p.sizeInTokens),
       impact |-> capped + diff, diff |-> diff, funding |-> FundingFee(mk, k, p),
       fees |-> PositionFees(mk, k, p, s, d, capped > 0, uiFeeFactor)]

(* The profit leaves the pool for the output or, in the other token, for    *)
(* the secondary output, unless it is swapped.                              *)
TakeProfit(mk, k, s, v, swapped, uiFeeFactor) ==
  LET c      == k.collateral
      t      == PnlToken(k.isLong)
      profit == (PositivePart(v.pnl) \div s.token[t].max) + (PositivePart(v.impact) \div s.token[t].max)
      taken  == [mk EXCEPT !.poolAmount[t] = @ - profit,
                           !.positionImpactPool =
                              BoundedDecrease(@, RoundUpDivision(PositivePart(v.impact), s.index.min))]
      swap   == MarketSwap(taken, s, t, profit, uiFeeFactor)
  IN  IF swapped
      THEN [market |-> swap.market, out |-> swap.out, sec |-> 0,
            possible |-> profit <= mk.poolAmount[t] /\ swap.possible]
      ELSE [market |-> taken, out |-> IF c = t THEN profit ELSE 0, sec |-> IF c = t THEN 0 ELSE profit,
            possible |-> profit <= mk.poolAmount[t]]

(* The costs of a decrease in the order in which they are paid.             *)
CostsPaid(purse, v, pc, ps) ==
  LET ofFunding == payForCost(purse, v.funding * pc, pc, ps)
      ofLoss    == PayNext(ofFunding, PositivePart(-v.pnl), pc, ps)
      ofFees    == PayNext(ofLoss, v.fees.cost * pc, pc, ps)
      ofImpact  == PayNext(ofFees, PositivePart(-v.impact), pc, ps)
  IN  [funding |-> ofFunding, loss |-> ofLoss, fees |-> ofFees, impact |-> ofImpact,
       diff |-> PayNext(ofImpact, v.diff, pc, ps)]

(* DecreasePositionCollateralUtils.processCollateral, when its costs have   *)
(* been paid: the books, and what of the purse is paid out.  Fees that are  *)
(* not paid in full in the collateral token go to the pool.                 *)
ProcessCollateral(mk, k, s, x, v, paid) ==
  LET c     == k.collateral
      other == PnlToken(k.isLong)
      pc    == s.token[c].min
      complete == paid.diff.owing = 0
      inFull   == paid.fees.owing = 0 /\ paid.fees.paidInOther = 0
      Fee(n)   == IF inFull THEN n ELSE 0
      toPool   == paid.loss.paid + paid.impact.paid + (IF inFull THEN v.fees.pool ELSE paid.fees.paid)
      otherToPool == paid.loss.paidInOther + paid.fees.paidInOther + paid.impact.paidInOther
      wanted   == IF v.diff > 0 THEN PositivePart(x - v.diff \div pc) ELSE x
      rest     == paid.diff.purse.rest
      taken    == IF complete THEN Smaller(wanted, rest) ELSE 0
      claim    == Plus(Of(c, paid.diff.paid), Of(other, paid.diff.paidInOther))
      held     == Of(other, paid.funding.paidInOther)
  IN  [complete |-> complete, rest |-> rest - taken,
       out |-> paid.diff.purse.out + taken, sec |-> paid.diff.purse.sec,
       funding |-> paid.funding.paid, unpaid |-> v.funding - paid.funding.paid,
       stranded |-> IF complete THEN 0 ELSE Fee(v.fees.affiliate),
       uncovered |-> Fee(v.fees.cost - paid.fees.paid),
       market |->
         [mk EXCEPT
            !.poolAmount = Plus(@, Plus(Of(c, toPool), Of(other, otherToPool))),
            !.claimableFee[c] = @ + Fee(v.fees.receiver), !.claimableUiFee[c] = @ + Fee(v.fees.ui),
            !.affiliateReward[c] = @ + (IF complete THEN Fee(v.fees.affiliate) ELSE 0),
            !.positionImpactPool = @ + ((paid.impact.paid * pc) \div s.index.max)
                                     + ((paid.impact.paidInOther * s.token[other].min) \div s.index.max),
            !.claimableCollateral = [t \in Tokens |->
               [o \in Owners |-> @[t][o] + (IF o = k.account THEN claim[t] ELSE 0)
                                         + (IF o = HoldingAddress THEN held[t] ELSE 0)]],
            !.claimableCollateralAmount = Plus(@, Plus(claim, held))]]

(* getExecutionPriceForDecrease must not be below zero.                     *)
PriceNotNegative(k, p, s, d, impact) ==
  LET adjusted == IF k.isLong THEN impact ELSE -impact
      price    == IF k.isLong THEN s.index.min ELSE s.index.max
  IN  d > 0 => /\ -adjusted <= d
               /\ price + SignedMulDiv(SignedMulDiv(p.sizeInUsd, adjusted, p.sizeInTokens), 1, d) >= 0

(* A swap of what is paid out to the token of the profit, if one is made.   *)
SwappedOut(mk, k, s, swap, n, uiFeeFactor) ==
  IF swap = "collateral" THEN MarketSwap(mk, s, k.collateral, n, uiFeeFactor)
                         ELSE [market |-> mk, out |-> 0, possible |-> TRUE]

(* AdlHandler: only while the profit of the side is too large a part of the *)
(* pool, and the decrease must reduce it, but not by more than needed.      *)
AdlEnabled(mk, s, isLong) == PnlToPoolFactor(mk, s, isLong) > Setting.maxPnlFactorForAdl

AdlAllowed(mk, after, s, isLong) ==
  /\ PnlToPoolFactor(after, s, isLong) < PnlToPoolFactor(mk, s, isLong)
  /\ PnlToPoolFactor(after, s, isLong) >= Setting.minPnlFactorAfterAdl

(* What a decrease leaves of its position; it is closed when its size in    *)
(* either unit is used up.                                                  *)
Decreased(mk, k, p, d, tokens, rest) ==
  LET latest == LatestOf(mk, k)
      closed == p.sizeInUsd = d \/ p.sizeInTokens = tokens
  IN  [sizeInUsd |-> p.sizeInUsd - d, sizeInTokens |-> p.sizeInTokens - tokens,
       collateralAmount |-> IF closed THEN 0 ELSE rest,
       borrowingFactor |-> mk.cumulativeBorrowingFactor[k.isLong],
       fundingFeeAmountPerSize |-> latest.fundingFeeAmountPerSize,
       claimableFundingAmountPerSize |-> latest.claimableFundingAmountPerSize]

(* The end of a decrease: the position is settled or removed, what is left  *)
(* of it must be sound, what is paid out is swapped and sent.               *)
FinishDecrease(k, kind, swap, s, uiFeeFactor, next, result, after) ==
  LET closed == next.sizeInUsd = 0 \/ next.sizeInTokens = 0
      out    == result.out + (IF closed THEN result.rest ELSE 0)
  IN  \E done \in {SwappedOut(after, k, s, swap, out, uiFeeFactor)} :
        LET paid == IF swap = "collateral" THEN Of(PnlToken(k.isLong), result.sec + done.out)
                    ELSE Plus(Of(k.collateral, out), Of(PnlToken(k.isLong), result.sec))
        IN  /\ closed \/ ~isPositionLiquidatable(after, k, next, s, FALSE)
            /\ done.possible
            /\ kind = "adl" => AdlAllowed(market, done.market, s, k.isLong)
            /\ \A t \in Tokens : paid[t] <= balance[t]
            /\ balance' = [t \in Tokens |-> balance[t] - paid[t]]
            /\ validateMarketTokenBalance(done.market, balance')
            /\ market' = done.market
            /\ positions' = [positions EXCEPT ![k] = IF closed THEN NoPosition ELSE next]

(* DecreasePositionUtils.decreasePosition for an order, a liquidation or an *)
(* auto-deleveraging, up to the transfers: d and x are asked for, and swap  *)
(* is the swap that was asked for and did not fail.  Only a liquidation or  *)
(* an auto-deleveraging may leave costs unpaid, by closing the position.    *)
(* The singletons name what one step of the code hands to the next.         *)
DecreasePosition(k, kind, d, x, swap, s, mk) ==
  LET p  == positions[k]
      c  == k.collateral
      ui == IF kind = "order" THEN Setting.uiFeeFactor ELSE 0
  IN  /\ p.sizeInUsd > 0 /\ d <= p.sizeInUsd
      /\ swap # "none" => c # PnlToken(k.isLong)
      /\ kind = "adl" => AdlEnabled(market, s, k.isLong)
      /\ \E asked \in {AdjustedDecrease(k, p, s, d, x)} :
           /\ asked.possible
           /\ kind = "liquidation" => isPositionLiquidatable(mk, k, p, s, TRUE)
           /\ \E v \in {Realized(mk, k, p, s, asked.d, ui)} :
              \E start \in {TakeProfit(mk, k, s, v, swap = "profit", ui)} :
                /\ start.possible /\ v.fees.pool >= 0
                /\ PriceNotNegative(k, p, s, asked.d, v.impact)
                /\ \E paid \in {CostsPaid([out |-> start.out, rest |-> p.collateralAmount, sec |-> start.sec],
                                          v, s.token[c].min, s.token[PnlToken(k.isLong)].min)} :
                   \E result \in {ProcessCollateral(start.market, k, s, asked.x, v, paid)} :
                     /\ ~result.complete => asked.d = p.sizeInUsd /\ kind # "order"
                     /\ \E next \in {Decreased(mk, k, p, asked.d, v.tokens, result.rest)} :
                          FinishDecrease(k, kind, swap, s, ui, next, result,
                                         Settled(result.market, k, p, next, next.borrowingFactor))
                     /\ funding' = Plus(funding, Of(c, result.funding))
                     /\ unpaid' = Plus(unpaid, Of(c, result.unpaid))
                     /\ stranded' = Plus(stranded, Of(c, result.stranded))
                     /\ uncovered' = Plus(uncovered, Of(c, result.uncovered))
      /\ Took

(* An order for more than the position has is cut to it, unless it is a     *)
(* market order, which then fails.  A decrease order may swap either way;   *)
(* the orders that liquidations and auto-deleveraging create ask for the    *)
(* profit in the collateral token.                                          *)
Decrease(k, s, mk) ==
  \/ \E o \in DecreaseOrders :
       DecreasePosition(k, "order", Smaller(o.size, positions[k].sizeInUsd),
                        Smaller(o.collateral, positions[k].collateralAmount), o.swap, s, mk)
  \/ \E swap \in {"none", "profit"} :
       \/ DecreasePosition(k, "liquidation", positions[k].sizeInUsd, 0, swap, s, mk)
       \/ \E d \in AdlSizes : DecreasePosition(k, "adl", d, 0, swap, s, mk)

Increase(k, s, mk) == \E o \in IncreaseOrders : IncreasePosition(k, o.collateral, o.size, s, mk)

(* Either starts by bringing the market's impact pool, funding and          *)
(* borrowing up to the present.                                             *)
Execute ==
  \E s \in Situations :
    /\ CanAccrue(market, s)
    /\ \E mk \in {Accrued(market, s)}, k \in PositionKeys : Increase(k, s, mk) \/ Decrease(k, s, mk)

-----------------------------------------------------------------------------
PayOut(t, n, mk) ==
  /\ 0 < n /\ n <= balance[t]
  /\ market' = mk
  /\ balance' = [balance EXCEPT ![t] = @ - n]
  /\ validateMarketTokenBalance(mk, balance')
  /\ UNCHANGED <<positions, unpaid, stranded, uncovered>> /\ Took

(* MarketUtils.claimFundingFees.                                            *)
ClaimFundingFees(account, t) ==
  LET n == market.claimableFunding[t][account]
  IN  /\ PayOut(t, n, [market EXCEPT !.claimableFunding[t][account] = 0])
      /\ funding' = [funding EXCEPT ![t] = @ - n]

(* Fault: what was claimed before is paid again.                            *)
ClaimCollateralAgain(owner, t, factor) ==
  LET released == ApplyFactor(market.claimableCollateral[t][owner], factor)
  IN  /\ released > market.claimedCollateral[t][owner]
      /\ PayOut(t, released, [market EXCEPT !.claimedCollateral[t][owner] = released,
                                            !.claimableCollateralAmount[t] = @ - released])
      /\ UNCHANGED funding

(* MarketUtils.claimCollateral: the share that the keepers have released,   *)
(* less what was claimed before.                                            *)
ClaimCollateral(owner, t, factor) ==
  LET released == ApplyFactor(market.claimableCollateral[t][owner], factor)
      n        == released - market.claimedCollateral[t][owner]
  IN  /\ PayOut(t, n, [market EXCEPT !.claimedCollateral[t][owner] = released,
                                     !.claimableCollateralAmount[t] = @ - n])
      /\ UNCHANGED funding

(* FeeUtils.claimFees and claimUiFees, ReferralUtils.claimAffiliateReward.  *)
ClaimFees(book, t) ==
  /\ PayOut(t, market[book][t], [market EXCEPT ![book][t] = 0])
  /\ UNCHANGED funding

Claim ==
  \E t \in Tokens :
    \/ \E account \in Accounts : ClaimFundingFees(account, t)
    \/ \E owner \in Owners, factor \in ClaimableFactors : ClaimCollateral(owner, t, factor)
    \/ \E book \in {"claimableFee", "claimableUiFee", "affiliateReward"} : ClaimFees(book, t)

Next == actions < MaxActions /\ (Execute \/ Claim)

Spec == Init /\ [][Next]_vars

-----------------------------------------------------------------------------
TypeOK ==
  /\ positions \in [PositionKeys -> Position] /\ market \in Market
  /\ balance \in [Tokens -> Nat] /\ unpaid \in [Tokens -> Nat]
  /\ stranded \in [Tokens -> Nat] /\ uncovered \in [Tokens -> Nat]
  /\ funding \in [Tokens -> Int] /\ actions \in 0..MaxActions

(* Every token in the market is in exactly one of its books: the pool, a    *)
(* position's collateral, fees, rewards and collateral that can be claimed, *)
(* or the funding fees paid and not yet claimed.  Whatever order a decrease *)
(* pays its costs in, from three sources and in two tokens, nothing is      *)
(* credited twice or lost, with two exceptions the histories measure: the   *)
(* reward of an insolvent close is in no book, and fees whose rest rounds   *)
(* down to nothing in the other token are credited in full.                 *)
TokensAccounted ==
  \A t \in Tokens :
    balance[t] + uncovered[t] =
      market.poolAmount[t] + market.collateralSum[<<t, TRUE>>] + market.collateralSum[<<t, FALSE>>]
      + market.claimableFee[t] + market.claimableUiFee[t] + market.affiliateReward[t]
      + market.claimableCollateralAmount[t] + funding[t] + stranded[t]

(* The market's aggregates, which limits, pool value, funding and borrowing *)
(* are computed from, are the sums over the positions that are open: a      *)
(* position that is closed, liquidated or changed leaves nothing behind.    *)
SumsMatch ==
  LET Sum(f(_), S) == Total([k \in S |-> f(positions[k])])
      In(x)  == {k \in PositionKeys : Side(k) = x}
      On(b)  == {k \in PositionKeys : k.isLong = b}
      Size(p) == p.sizeInUsd
      InTokens(p) == p.sizeInTokens
      Collateral(p) == p.collateralAmount
      Borrowing(p) == ApplyFactor(p.sizeInUsd, p.borrowingFactor)
  IN  /\ \A x \in Sides : /\ market.openInterest[x] = Sum(Size, In(x))
                          /\ market.openInterestInTokens[x] = Sum(InTokens, In(x))
                          /\ market.collateralSum[x] = Sum(Collateral, In(x))
      /\ \A b \in BOOLEAN : market.totalBorrowing[b] = Sum(Borrowing, On(b))

(* What accounts can claim of funding now, and could if they changed their  *)
(* positions, is never more than what payers have paid, still owe, or left  *)
(* unpaid when they were liquidated: funding is paid by traders and not out *)
(* of the pool or other traders' collateral, whatever is rounded where.     *)
FundingCovered ==
  \A t \in Tokens :
    LET due  == Total([k \in PositionKeys |-> ClaimableFunding(market, k, positions[k], t)])
        owed == Total([k \in {k \in PositionKeys : k.collateral = t} |->
                         FundingFee(market, k, positions[k])])
    IN  Total(market.claimableFunding[t]) + due <= funding[t] + owed + unpaid[t]

(* The pool could pay the profits of all open positions of a side, before   *)
(* any cap and at each of the prices of Situations, as long as longs are    *)
(* paid in the index token: what is reserved is checked when a position is  *)
(* opened, and what other positions, fees and swaps do to the pool does not *)
(* use it up.                                                               *)
ProfitsReserved ==
  \A b \in BOOLEAN, s \in Situations :
    LET t == PnlToken(b)
        Profit(k) == PositivePart(UncappedPnl(k, positions[k], s)) \div s.token[t].max
    IN  Total([k \in {k \in PositionKeys : k.isLong = b} |-> Profit(k)]) <= market.poolAmount[t]
=============================================================================
