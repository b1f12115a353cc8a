---------------------------- MODULE MarketLedger ----------------------------
(***************************************************************************)
(* The tokens a MarketToken contract holds and the DataStore's records of   *)
(* what they are for: the pool, the swap impact pool, fees and ui fees that *)
(* can be claimed.  Swaps along a path of markets, deposits and withdrawals *)
(* with their swaps, and claims.  Positions are not in this module.         *)
(*                                                                         *)
(* An execution is one transaction of several steps, a step for each        *)
(* transfer, for the entry in the books that follows it and for each side   *)
(* minted: tokens that have left a market whose books still count them, and *)
(* tokens that are in a market and in no book, exist only between those     *)
(* steps.  Foreign code runs there when native tokens are sent, and may     *)
(* claim ui fees, which no global guard protects.  A transaction that has   *)
(* no next step is one that reverts.                                        *)
(***************************************************************************)
EXTENDS Precision, Sequences, Totals

CONSTANTS Markets, Tokens, WNT, UiFeeReceivers,
          LongToken, ShortToken,  \* Market.Props: the tokens of each market
          SwapFeeFactor,          \* by forPositiveImpact
          SwapFeeReceiverFactor, UiFeeFactor, MaxPoolAmount,
          Outside,                \* any address that is not a market
          PriceSets,              \* the prices an execution may be given
          Impacts,                \* the price impacts in usd, of either sign
          Paths, Amounts,         \* what requests ask for
          InitialMarkets,         \* pools and supplies from deposits before
          MaxExecutions, MaxStray \* bounds

ASSUME MarketsAssumption ==
  /\ Outside \notin Markets /\ WNT \in Tokens /\ IsFiniteSet(UiFeeReceivers)
  /\ LongToken \in [Markets -> Tokens] /\ ShortToken \in [Markets -> Tokens]
  /\ SwapFeeFactor \in [BOOLEAN -> Nat]
  /\ SwapFeeReceiverFactor \in Nat /\ UiFeeFactor \in [UiFeeReceivers -> Nat]
  /\ MaxPoolAmount \in Nat /\ MaxExecutions \in Nat /\ MaxStray \in Nat
  /\ PriceSets \subseteq [Tokens -> [min : Nat, max : Nat]]
  /\ \A p \in PriceSets, t \in Tokens : 0 < p[t].min /\ p[t].min <= p[t].max
  /\ InitialMarkets \subseteq [pool : [Markets -> [Tokens -> Nat]], supply : [Markets -> Nat]]
  /\ Impacts \subseteq Int /\ Paths \subseteq Seq(Markets) /\ Amounts \subseteq Nat

VARIABLES poolAmount, swapImpactPool, claimableFee, claimableUiFee, uiFeeOf,
          balance, \* the ERC20 balance of each market
          supply,  \* the supply of each market token
          tx,      \* the transaction being executed
          legs,    \* its two amounts on their way along their paths
          booking, \* a swap's change of the pool that is still to be booked
          foreign, \* foreign code may run before the next step
          stray,   \* history: tokens strangers sent to a market
          executions \* their number, which is bounded

books == <<poolAmount, swapImpactPool, claimableFee, claimableUiFee, uiFeeOf>>
execution == <<tx, legs, booking, foreign>>
vars == <<books, balance, supply, execution, stray, executions>>

Sides == {"long", "short"}
TokensOf(m) == {LongToken[m], ShortToken[m]}
SideToken(m, side) == IF side = "long" THEN LongToken[m] ELSE ShortToken[m]
getOppositeToken(t, m) == IF t = LongToken[m] THEN ShortToken[m] ELSE LongToken[m]

Places == Markets \cup {Outside}
Leg == [at : Places, path : Seq(Markets), token : Tokens, amount : Nat, to : Places]
Booking == [market : Places, tokenIn : Tokens, in : Nat, tokenOut : Tokens, out : Nat]

NoLeg == [at |-> Outside, path |-> <<>>, token |-> WNT, amount |-> 0, to |-> Outside]
NoLegs == [side \in Sides |-> NoLeg]
NoBooking == [market |-> Outside, tokenIn |-> WNT, in |-> 0, tokenOut |-> WNT, out |-> 0]
Idle == [op |-> "none"]

(* A deposit turns into a "mint" once its swaps are done; impact is the     *)
(* price impact of the deposit split between the sides.                     *)
Transaction == [op : {"swap", "deposit", "mint", "withdraw"}, market : Markets,
                prices : PriceSets, ui : UiFeeReceivers, impact : [Sides -> Int]]

Amount == [Markets -> [Tokens -> Nat]]
NoTokens == [m \in Markets |-> [t \in Tokens |-> 0]]

(* Markets start empty, or with a pool deposited without fees.              *)
Init ==
  /\ \E initial \in InitialMarkets : poolAmount = initial.pool /\ supply = initial.supply
  /\ swapImpactPool = NoTokens
  /\ claimableFee = NoTokens /\ claimableUiFee = NoTokens
  /\ uiFeeOf = [m \in Markets |-> [t \in Tokens |-> [r \in UiFeeReceivers |-> 0]]]
  /\ balance = poolAmount /\ stray = NoTokens
  /\ executions = 0
  /\ tx = Idle /\ legs = NoLegs /\ booking = NoBooking /\ foreign = FALSE

-----------------------------------------------------------------------------
(* SwapPricingUtils.getSwapFees; a fee larger than the amount reverts.      *)
SwapFees(amount, positive, r) ==
  LET fee      == ApplyFactor(amount, SwapFeeFactor[positive])
      receiver == ApplyFactor(fee, SwapFeeReceiverFactor)
      ui       == ApplyFactor(amount, UiFeeFactor[r])
  IN  [receiver |-> receiver, pool |-> fee - receiver, ui |-> ui, after |-> amount - fee - ui]

Payable(fees) == fees.pool >= 0 /\ fees.after >= 0

(* MarketUtils.getSwapImpactAmountWithCap: an impact in the user's favour   *)
(* is paid out of the impact pool, as far as that goes.                     *)
PositiveImpact(m, t, usd, price) == Smaller(usd \div price.max, swapImpactPool[m][t])

(* An impact against the user is rounded up.                                *)
NegativeImpact(usd, price) == RoundUpDivision(-usd, price.min)

(* Fault: each token at its price in the trader's favour.                   *)
AmountOutAtBetterPrices(amountIn, priceIn, priceOut) == (amountIn * priceIn.max) \div priceOut.min

(* What a swap's amount buys, each token at its price against the trader.   *)
AmountOut(amountIn, priceIn, priceOut) == (amountIn * priceIn.min) \div priceOut.max

(* getPoolAmount halves the pool of a market of one token for each side.    *)
getPoolAmount(pool, m, t) == pool[m][t] \div (IF LongToken[m] = ShortToken[m] THEN 2 ELSE 1)

(* getPoolValueInfo of a market that has no positions.                      *)
PoolValue(pool, m, prices, bound) ==
    getPoolAmount(pool, m, LongToken[m]) * prices[LongToken[m]][bound]
  + getPoolAmount(pool, m, ShortToken[m]) * prices[ShortToken[m]][bound]

usdToMarketTokenAmount(usd, poolValue, s) ==
  IF s = 0 THEN floatToWei(poolValue + usd) ELSE MulDiv(s, usd, poolValue)

getExpectedMinTokenBalance(m, t) ==
  poolAmount[m][t] + swapImpactPool[m][t] + claimableFee[m][t] + claimableUiFee[m][t]

(* The check of the market's balance, in the state it is made in.           *)
validateMarketTokenBalance(m) ==
  \A t \in TokensOf(m) : balance[m][t] >= getExpectedMinTokenBalance(m, t)

(* n of t moves from one place to another; a market cannot send more than   *)
(* it has.                                                                  *)
CanSend(from, t, n) == from \in Markets => n <= balance[from][t]

Transferred(from, to, t, n) ==
  [m \in Markets |-> [u \in Tokens |->
     balance[m][u] + (IF m = to /\ u = t THEN n ELSE 0) - (IF m = from /\ u = t THEN n ELSE 0)]]

(* Amounts of the tokens: of one of them, and of a market's two sides,      *)
(* which may be the same token.                                             *)
Of(t, n) == [u \in Tokens |-> IF u = t THEN n ELSE 0]

(* Fault: the sides are taken to be different tokens.                       *)
OfSidesTwoTokens(m, n) ==
  [u \in Tokens |-> IF u = LongToken[m] THEN n["long"]
                    ELSE IF u = ShortToken[m] THEN n["short"] ELSE 0]

OfSides(m, n) ==
  [u \in Tokens |-> (IF u = LongToken[m] THEN n["long"] ELSE 0)
                    + (IF u = ShortToken[m] THEN n["short"] ELSE 0)]

Both(a, b) == [t \in Tokens |-> a[t] + b[t]]

Added(f, m, amounts) == [f EXCEPT ![m] = [t \in Tokens |-> @[t] + amounts[t]]]

(* What MarketUtils.applySwapImpactWithCap does to the impact pool: `in` is *)
(* added to it and `out` taken from it.                                     *)
ImpactPool(m, tokenIn, in, tokenOut, out) ==
  [swapImpactPool EXCEPT ![m] =
     [t \in Tokens |-> BoundedDecrease(@[t] + Of(tokenIn, in)[t], Of(tokenOut, out)[t])]]

(* FeeUtils.incrementClaimableFeeAmount and incrementClaimableUiFeeAmount.  *)
AccrueFees(m, fee, ui, r) ==
  /\ claimableFee' = Added(claimableFee, m, fee)
  /\ claimableUiFee' = Added(claimableUiFee, m, ui)
  /\ uiFeeOf' = [uiFeeOf EXCEPT ![m] = [t \in Tokens |->
                                     [@[t] EXCEPT ![r] = uiFeeOf[m][t][r] + ui[t]]]]

-----------------------------------------------------------------------------
(* Requests are executed one at a time, under the global guard.             *)
AtRest == tx = Idle

NoImpact == [side \in Sides |-> 0]

(* SwapUtils.swap: no market twice in a path.                               *)
NoDuplicates(path) == \A i, j \in DOMAIN path : i # j => path[i] # path[j]

Begin(op, m, p, r) ==
  /\ executions' = executions + 1
  /\ tx' = [op |-> op, market |-> m, prices |-> p, ui |-> r, impact |-> NoImpact]

(* SwapOrderUtils.processOrder: from the OrderVault along the path.         *)
BeginSwap(path, t, n, p, r) ==
  /\ path # <<>> /\ NoDuplicates(path) /\ n > 0
  /\ Begin("swap", Head(path), p, r)
  /\ legs' = [NoLegs EXCEPT !["long"] =
                [at |-> Outside, path |-> path, token |-> t, amount |-> n, to |-> Outside]]
  /\ UNCHANGED <<books, balance, supply, booking, foreign, stray>>

(* ExecuteDepositUtils.executeDeposit, up to its two swaps: from the        *)
(* DepositVault to the market.  A side of nothing is not swapped: its path  *)
(* is left empty here, and its token must be the side's already.            *)
BeginDeposit(m, path, token, amount, p, r) ==
  /\ \A side \in Sides : /\ NoDuplicates(path[side])
                         /\ amount[side] = 0 => path[side] = <<>> /\ token[side] = SideToken(m, side)
  /\ Begin("deposit", m, p, r)
  /\ legs' = [side \in Sides |-> [at |-> Outside, path |-> path[side], token |-> token[side],
                                  amount |-> amount[side], to |-> m]]
  /\ UNCHANGED <<books, balance, supply, booking, foreign, stray>>

(* ExecuteWithdrawalUtils._getOutputAmounts: w market tokens are worth      *)
(* their share of the pool at its lower value, paid in the proportion of    *)
(* the pool's two tokens at the upper prices.                               *)
OutputAmount(m, side, w, p) ==
  LET usd   == MulDiv(PoolValue(poolAmount, m, p, "min"), w, supply[m])
      t     == SideToken(m, side)
      inUsd == getPoolAmount(poolAmount, m, t) * p[t].max
  IN  MulDiv(usd, inUsd, PoolValue(poolAmount, m, p, "max")) \div p[t].max

(* ExecuteWithdrawalUtils._executeWithdrawal, up to its two swaps: the      *)
(* amounts and their fees leave the pool, the market tokens are burnt, and  *)
(* each side sets out along its path.                                       *)
BeginWithdraw(m, w, path, p, r) ==
  LET out  == [side \in Sides |-> OutputAmount(m, side, w, p)]
      fees == [side \in Sides |-> SwapFees(out[side], FALSE, r)]
      left == [side \in Sides |-> out[side] - fees[side].pool]
  IN  /\ w \in 1..supply[m] /\ PoolValue(poolAmount, m, p, "min") > 0
      /\ \A side \in Sides : Payable(fees[side]) /\ NoDuplicates(path[side])
      /\ \A t \in Tokens : OfSides(m, left)[t] <= poolAmount[m][t]
      /\ poolAmount' = [poolAmount EXCEPT ![m] = [t \in Tokens |-> @[t] - OfSides(m, left)[t]]]
      /\ AccrueFees(m, OfSides(m, [side \in Sides |-> fees[side].receiver]),
                    OfSides(m, [side \in Sides |-> fees[side].ui]), r)
      /\ supply' = [supply EXCEPT ![m] = @ - w]
      /\ legs' = [side \in Sides |-> [at |-> m, path |-> path[side], token |-> SideToken(m, side),
                                      amount |-> fees[side].after, to |-> Outside]]
      /\ Begin("withdraw", m, p, r)
      /\ UNCHANGED <<swapImpactPool, balance, booking, foreign, stray>>

-----------------------------------------------------------------------------
(* An amount of 0 goes nowhere.                                             *)
Underway(leg) == leg.amount > 0 /\ (leg.path # <<>> \/ leg.at # leg.to)

NothingToBook == booking.in = 0 /\ booking.out = 0

(* The long amount is swapped before the short one.                         *)
ToMove(side) ==
  /\ ~AtRest /\ NothingToBook
  /\ Underway(legs[side]) /\ (side = "short" => ~Underway(legs["long"]))

(* Foreign code runs when native tokens are sent: TokenUtils.sendNativeToken. *)
RunsForeignCode(to, t, n) == to = Outside /\ t = WNT /\ n > 0

(* The transfer SwapUtils.swap makes itself: to the first market of the     *)
(* path, or to the receiver when there is none.                             *)
Send(side) ==
  LET leg  == legs[side]
      dest == IF leg.path = <<>> THEN leg.to ELSE Head(leg.path)
  IN  /\ ToMove(side)
      /\ leg.at # dest /\ CanSend(leg.at, leg.token, leg.amount)
      /\ balance' = Transferred(leg.at, dest, leg.token, leg.amount)
      /\ legs' = [legs EXCEPT ![side].at = dest]
      /\ foreign' = RunsForeignCode(dest, leg.token, leg.amount)
      /\ UNCHANGED <<books, supply, tx, booking, stray, executions>>

(* SwapUtils._swap up to the transfer of what was bought: fees, impact, and *)
(* a price against the trader.  The pool amounts are set after it.          *)
SwapHop(side, impact) ==
  LET leg == legs[side]
      m == Head(leg.path)
      tokenIn == leg.token
      tokenOut == getOppositeToken(tokenIn, m)
      fees == SwapFees(leg.amount, impact > 0, tx.ui)
      impactIn == IF impact > 0 THEN 0 ELSE NegativeImpact(impact, tx.prices[tokenIn])
      impactOut == IF impact > 0 THEN PositiveImpact(m, tokenOut, impact, tx.prices[tokenOut]) ELSE 0
      amountIn == fees.after - impactIn
      poolAmountOut == AmountOut(amountIn, tx.prices[tokenIn], tx.prices[tokenOut])
      amountOut == poolAmountOut + impactOut
      receiver == IF Tail(leg.path) = <<>> THEN leg.to ELSE Head(Tail(leg.path))
  IN  /\ ToMove(side) /\ leg.path # <<>> /\ leg.at = m
      /\ LongToken[m] # ShortToken[m] /\ tokenIn \in TokensOf(m)
      /\ Payable(fees) /\ (impact <= 0 => fees.after > impactIn)
      /\ Tail(leg.path) # <<>> => amountOut > 0
      /\ receiver # m => CanSend(m, tokenOut, amountOut)
      /\ AccrueFees(m, Of(tokenIn, fees.receiver), Of(tokenIn, fees.ui), tx.ui)
      /\ swapImpactPool' = ImpactPool(m, tokenIn, impactIn, tokenOut, impactOut)
      /\ balance' = IF receiver = m THEN balance
                    ELSE Transferred(m, receiver, tokenOut, amountOut)
      /\ legs' = [legs EXCEPT ![side] = [at |-> receiver, path |-> Tail(leg.path), token |-> tokenOut,
                                         amount |-> amountOut, to |-> leg.to]]
      /\ booking' = [market |-> m, tokenIn |-> tokenIn, in |-> amountIn + fees.pool,
                     tokenOut |-> tokenOut, out |-> poolAmountOut]
      /\ foreign' = RunsForeignCode(receiver, tokenOut, amountOut)
      /\ UNCHANGED <<poolAmount, supply, tx, stray, executions>>

(* Fault: the pool amount may go below 0.                                   *)
BookUnchecked ==
  LET m == booking.market
  IN  /\ ~NothingToBook
      /\ poolAmount' = Added(poolAmount, m, Both(Of(booking.tokenIn, booking.in),
                                                 Of(booking.tokenOut, -booking.out)))
      /\ booking' = NoBooking /\ foreign' = FALSE
      /\ UNCHANGED <<swapImpactPool, claimableFee, claimableUiFee, uiFeeOf, balance, supply,
                     tx, legs, stray, executions>>

(* SwapUtils._swap after the transfer: applyDeltaToPoolAmount for both      *)
(* tokens, and validatePoolAmount.                                          *)
Book ==
  LET m == booking.market
  IN  /\ ~NothingToBook
      /\ booking.out <= poolAmount[m][booking.tokenOut]
      /\ poolAmount' = Added(poolAmount, m, Both(Of(booking.tokenIn, booking.in),
                                                 Of(booking.tokenOut, -booking.out)))
      /\ getPoolAmount(poolAmount', m, booking.tokenIn) <= MaxPoolAmount
      /\ booking' = NoBooking /\ foreign' = FALSE
      /\ UNCHANGED <<swapImpactPool, claimableFee, claimableUiFee, uiFeeOf, balance, supply,
                     tx, legs, stray, executions>>

(* executeDeposit between its swaps and its mints: the price impact of the  *)
(* two amounts, split in proportion to their value.                         *)
midPrice(p) == (p.min + p.max) \div 2

Arrived == ~AtRest /\ NothingToBook /\ \A side \in Sides : ~Underway(legs[side])

PriceDeposit(impact) ==
  LET usd == [side \in Sides |-> legs[side].amount * midPrice(tx.prices[legs[side].token])]
      split == [side \in Sides |-> SignedMulDiv(impact, usd[side], usd["long"] + usd["short"])]
  IN  /\ Arrived /\ tx.op = "deposit"
      /\ \A side \in Sides : legs[side].token = SideToken(tx.market, side)
      /\ usd["long"] + usd["short"] > 0
      /\ tx' = [tx EXCEPT !.op = "mint", !.impact = split]
      /\ UNCHANGED <<books, balance, supply, legs, booking, foreign, stray, executions>>

(* ExecuteDepositUtils._executeDeposit for one side, the long one first.    *)
(* The fees are chosen before an impact on the first deposit is dropped.    *)
Mint(side) ==
  LET m == tx.market
      p == tx.prices
      tokenIn == legs[side].token
      tokenOut == SideToken(m, IF side = "long" THEN "short" ELSE "long")
      fees == SwapFees(legs[side].amount, tx.impact[side] > 0, tx.ui)
      impact == IF tx.impact[side] > 0 /\ supply[m] = 0 THEN 0 ELSE tx.impact[side]
      poolValue == PoolValue(poolAmount, m, p, "max")
      bonus == IF impact > 0 THEN PositiveImpact(m, tokenOut, impact, p[tokenOut]) ELSE 0
      penalty == IF impact < 0 THEN NegativeImpact(impact, p[tokenIn]) ELSE 0
      after == fees.after - penalty
  IN  /\ ~AtRest /\ tx.op = "mint" /\ legs[side].amount > 0
      /\ side = "short" => legs["long"].amount = 0
      /\ Payable(fees) /\ after >= 0
      /\ poolValue = 0 => supply[m] = 0
      /\ AccrueFees(m, Of(tokenIn, fees.receiver), Of(tokenIn, fees.ui), tx.ui)
      /\ swapImpactPool' = ImpactPool(m, tokenIn, penalty, tokenOut, bonus)
      /\ poolAmount' = Added(poolAmount, m, Both(Of(tokenIn, after + fees.pool), Of(tokenOut, bonus)))
      /\ \A t \in {tokenIn} \cup (IF impact > 0 THEN {tokenOut} ELSE {}) :
           getPoolAmount(poolAmount', m, t) <= MaxPoolAmount
      /\ supply' = [supply EXCEPT ![m] = @
            + (IF impact > 0 THEN usdToMarketTokenAmount(bonus * p[tokenOut].max, poolValue, supply[m])
               ELSE 0)
            + usdToMarketTokenAmount(after * p[tokenIn].min, poolValue, supply[m])]
      /\ legs' = [legs EXCEPT ![side].amount = 0]
      /\ UNCHANGED <<balance, tx, booking, foreign, stray, executions>>

(* The end of the execution.  It checks the balance of every market it went *)
(* through; those it did not are as they were.                              *)
Finish ==
  /\ Arrived
  /\ tx.op # "deposit" /\ (tx.op = "mint" => \A side \in Sides : legs[side].amount = 0)
  /\ \A m \in Markets : validateMarketTokenBalance(m)
  /\ tx' = Idle /\ legs' = NoLegs /\ foreign' = FALSE
  /\ UNCHANGED <<books, balance, supply, booking, stray, executions>>

-----------------------------------------------------------------------------
(* Fault: the receiver's claim is settled but not the market's total.       *)
ClaimUiFeesTotalKept(m, t, r) ==
  LET n == uiFeeOf[m][t][r]
  IN  /\ AtRest \/ foreign
      /\ n > 0 /\ CanSend(m, t, n)
      /\ uiFeeOf' = [uiFeeOf EXCEPT ![m][t][r] = 0]
      /\ balance' = Transferred(m, Outside, t, n)
      /\ UNCHANGED <<poolAmount, swapImpactPool, claimableFee, claimableUiFee, supply, execution,
                     stray, executions>>
      /\ validateMarketTokenBalance(m)'

(* FeeUtils.claimUiFees, by anyone for himself: between transactions, or by *)
(* foreign code in one.                                                     *)
ClaimUiFees(m, t, r) ==
  LET n == uiFeeOf[m][t][r]
  IN  /\ AtRest \/ foreign
      /\ n > 0 /\ CanSend(m, t, n)
      /\ uiFeeOf' = [uiFeeOf EXCEPT ![m][t][r] = 0]
      /\ claimableUiFee' = [claimableUiFee EXCEPT ![m][t] = @ - n]
      /\ balance' = Transferred(m, Outside, t, n)
      /\ UNCHANGED <<poolAmount, swapImpactPool, claimableFee, supply, execution, stray, executions>>
      /\ validateMarketTokenBalance(m)'

(* FeeHandler.claimFees, by the fee keeper.                                 *)
ClaimFees(m, t) ==
  LET n == claimableFee[m][t]
  IN  /\ AtRest /\ n > 0 /\ CanSend(m, t, n)
      /\ claimableFee' = [claimableFee EXCEPT ![m][t] = 0]
      /\ balance' = Transferred(m, Outside, t, n)
      /\ UNCHANGED <<poolAmount, swapImpactPool, claimableUiFee, uiFeeOf, supply, execution, stray, executions>>
      /\ validateMarketTokenBalance(m)'

(* Anyone sends a token to a market: the contract does not run.             *)
SendStray(m, t) ==
  /\ AtRest \/ foreign
  /\ stray[m][t] < MaxStray
  /\ balance' = Transferred(Outside, m, t, 1)
  /\ stray' = Added(stray, m, Of(t, 1))
  /\ UNCHANGED <<books, supply, execution, executions>>

Execute ==
  \/ \E side \in Sides : Send(side) \/ Mint(side) \/ \E impact \in Impacts : SwapHop(side, impact)
  \/ Book
  \/ \E impact \in Impacts : PriceDeposit(impact)
  \/ Finish

(* The requests for these markets, paths, prices and ui fee receivers.      *)
RequestOf(markets, paths, priceSets, receivers) ==
  /\ AtRest /\ executions < MaxExecutions
  /\ \E p \in priceSets, r \in receivers :
       \/ \E path \in paths, t \in Tokens, n \in Amounts : BeginSwap(path, t, n, p, r)
       \/ \E m \in markets, path \in [Sides -> paths] :
            \/ \E token \in [Sides -> Tokens], amount \in [Sides -> Amounts] :
                 BeginDeposit(m, path, token, amount, p, r)
            \/ \E w \in 1..supply[m] : BeginWithdraw(m, w, path, p, r)

Request == RequestOf(Markets, Paths, PriceSets, UiFeeReceivers)

Claim == \E m \in Markets, t \in Tokens :
           ClaimFees(m, t) \/ SendStray(m, t) \/ \E r \in UiFeeReceivers : ClaimUiFees(m, t, r)

Next == Request \/ Execute \/ Claim

Spec == Init /\ [][Next]_vars

-----------------------------------------------------------------------------
TypeOK ==
  /\ poolAmount \in Amount /\ swapImpactPool \in Amount
  /\ claimableFee \in Amount /\ claimableUiFee \in Amount
  /\ uiFeeOf \in [Markets -> [Tokens -> [UiFeeReceivers -> Nat]]]
  /\ balance \in Amount /\ stray \in Amount
  /\ supply \in [Markets -> Nat] /\ executions \in 0..MaxExecutions
  /\ tx = Idle \/ tx \in Transaction
  /\ legs \in [Sides -> Leg] /\ booking \in Booking /\ foreign \in BOOLEAN

(* What is at a market on its way elsewhere or into its pool, and what its  *)
(* pool will be changed by.                                                 *)
InTransit(m, t) ==
  LET At(leg) == IF leg.at = m /\ leg.token = t THEN leg.amount ELSE 0
  IN  At(legs["long"]) + At(legs["short"])

Unbooked(m, t) ==
    (IF booking.market = m /\ booking.tokenIn = t THEN booking.in ELSE 0)
  - (IF booking.market = m /\ booking.tokenOut = t THEN booking.out ELSE 0)

(* At every step of every execution each token in a market is in exactly    *)
(* one of its books, on its way, or a stranger's gift: nothing is recorded  *)
(* twice or paid from another account's share, whatever the swaps, fees,    *)
(* impacts, mints, burns and claims in between.  The balance checks of      *)
(* MarketUtils.validateMarketTokenBalance follow from it at rest.           *)
Accounted ==
  \A m \in Markets, t \in Tokens :
    balance[m][t] = getExpectedMinTokenBalance(m, t) + InTransit(m, t) + Unbooked(m, t) + stray[m][t]

(* The total ui fee of a market is what its receivers can claim, so that    *)
(* the decrement in FeeUtils.claimUiFees never underflows.                  *)
UiFeesMatch ==
  \A m \in Markets, t \in Tokens : claimableUiFee[m][t] = Total(uiFeeOf[m][t])

(* No step makes a market token worth less, at the prices of the execution  *)
(* and in a market of two tokens: swaps, deposits and withdrawals leave     *)
(* what their rounding, spread and fees take to those who hold the rest.    *)
(* (The halved pool of a market of one token is rounded down twice, and the *)
(* first deposit gets what an empty market has left.)                       *)
SharePriceNeverFalls ==
  [][ LET p == IF tx = Idle THEN tx'.prices ELSE tx.prices
          Value(pool, m) == PoolValue(pool, m, p, "max")
      IN  poolAmount # poolAmount' \/ supply # supply' =>
            \A m \in Markets : LongToken[m] # ShortToken[m] /\ supply[m] > 0 =>
              Value(poolAmount', m) * supply[m] >= Value(poolAmount, m) * supply'[m] ]_vars
=============================================================================
