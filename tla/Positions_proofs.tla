-------------------------- MODULE Positions_proofs --------------------------
(* Proofs about Positions.  The market keeps aggregates of its positions    *)
(* (open interest in usd and in tokens, collateral, borrowing) and never    *)
(* recomputes them: every increase, decrease, liquidation and               *)
(* auto-deleveraging takes the position as it was out of them and enters it *)
(* as it is, so that one order settled wrongly would be carried for ever.   *)
(* The theorems, at the end, say that no order and no claim does, for every *)
(* set of accounts and positions, every price and every setting.            *)
(*                                                                          *)
(* A decrease is proved in the order in which the code runs it: the costs   *)
(* are paid from a purse (PayForCostSplit, CostsPaidSplit), what is taken   *)
(* from the purse goes into the books (ProcessCollateralBooks), the         *)
(* position is settled (SettledKeepsBooks) and the output is swapped and    *)
(* paid out (MarketSwapBooks, FinishKeepsInv).                              *)
(*                                                                          *)
(* That funding is paid by traders alone is proved along the same steps, of *)
(* what positions get and owe before it is divided (FundingFits): bringing  *)
(* the market up to date credits one side no more than it charges the other *)
(* (FundingBalanced, FitsGrown), and settling a position rounds what it     *)
(* gets down and what it owes up (SettledRounds, FitsSettled).              *)
EXTENDS Positions, Ledger_proofs

-----------------------------------------------------------------------------
(* Rounding: quotients, factors and precision.                              *)

(* The quotient of two naturals is a natural.                               *)
LEMMA DivType ==
  ASSUME NEW a \in Nat, NEW b \in Nat, b > 0
  PROVE  a \div b \in Nat
OBVIOUS

(* So is their product.                                                     *)
LEMMA TimesType ==
  ASSUME NEW a \in Nat, NEW b \in Nat
  PROVE  a * b \in Nat
OBVIOUS

(* mulDiv of naturals is a natural.                                         *)
LEMMA MulDivType ==
  ASSUME NEW a \in Nat, NEW b \in Nat, NEW c \in Nat, c > 0
  PROVE  MulDiv(a, b, c) \in Nat
BY DivType, TimesType DEF MulDiv

(* A product grows with its factor.                                         *)
LEMMA TimesMonotone ==
  ASSUME NEW a \in Nat, NEW b \in Nat, NEW c \in Nat, b <= c
  PROVE  a * b <= a * c
OBVIOUS

(* A quotient is at most a if what is divided is at most a times the        *)
(* divisor, and so is a quotient rounded up.                                *)
LEMMA DivAtMost ==
  ASSUME NEW n \in Nat, NEW a \in Nat, NEW b \in Nat, b > 0, n <= a * b
  PROVE  n \div b <= a
<1> DEFINE q == n \div b
<1>1. q \in Nat /\ q * b <= n
  BY DivType
<1> HIDE DEF q
<1>2. ~(q >= a + 1)
  <2> SUFFICES ASSUME q >= a + 1 PROVE FALSE
    OBVIOUS
  <2>1. (a + 1) * b <= q * b
    BY <1>1
  <2>2. (a + 1) * b = a * b + b
    OBVIOUS
  <2>3. a * b \in Int /\ q * b \in Int
    BY <1>1
  <2> QED
    BY <1>1, <2>1, <2>2, <2>3
<1>3. q <= a
  BY <1>1, <1>2
<1> QED
  BY <1>3 DEF q

(* A quotient rounded up is a natural.                                      *)
LEMMA RoundUpType ==
  ASSUME NEW n \in Nat, NEW b \in Nat, b > 0
  PROVE  RoundUpDivision(n, b) \in Nat
<1>1. n + b - 1 \in Nat
  OBVIOUS
<1> QED
  BY <1>1, DivType DEF RoundUpDivision

(* The bound of DivAtMost holds of a quotient rounded up.                   *)
LEMMA RoundUpAtMost ==
  ASSUME NEW n \in Nat, NEW a \in Nat, NEW b \in Nat, b > 0, n <= a * b
  PROVE  RoundUpDivision(n, b) <= a
<1> DEFINE m == n + b - 1
           q == m \div b
<1>1. m \in Nat
  OBVIOUS
<1>2. q \in Nat /\ q * b <= m
  BY <1>1, DivType
<1>3. m = n + b - 1
  OBVIOUS
<1> HIDE DEF m, q
<1>4. ~(q >= a + 1)
  <2> SUFFICES ASSUME q >= a + 1 PROVE FALSE
    OBVIOUS
  <2>1. (a + 1) * b <= q * b
    BY <1>2
  <2>2. (a + 1) * b = a * b + b
    OBVIOUS
  <2>3. a * b \in Int /\ q * b \in Int
    BY <1>2
  <2> QED
    BY <1>1, <1>2, <1>3, <2>1, <2>2, <2>3
<1>5. q <= a
  BY <1>2, <1>4
<1> QED
  BY <1>5 DEF q, m, RoundUpDivision

(* The fixed-point unit is positive.                                        *)
LEMMA PrecisionType == FloatPrecision \in Nat /\ FloatPrecision > 0
BY PrecisionAssumption

(* A factor of an amount is an amount.                                      *)
LEMMA FactorType ==
  ASSUME NEW n \in Nat, NEW f \in Nat
  PROVE  ApplyFactor(n, f) \in Nat
BY PrecisionType, MulDivType DEF ApplyFactor

(* A factor of at most 1 of an amount is at most the amount.                *)
LEMMA FactorAtMost ==
  ASSUME NEW n \in Nat, NEW f \in Nat, f <= FloatPrecision
  PROVE  ApplyFactor(n, f) <= n
<1>1. n * f <= n * FloatPrecision
  BY PrecisionType, TimesMonotone
<1>2. n * f \in Nat
  BY TimesType
<1>3. (n * f) \div FloatPrecision <= n
  BY <1>1, <1>2, PrecisionType, DivAtMost
<1> QED
  BY <1>3 DEF ApplyFactor, MulDiv

(* mulDiv of a signed amount is a signed amount.                            *)
LEMMA SignedMulDivType ==
  ASSUME NEW n \in Int, NEW a \in Nat, NEW b \in Nat, b > 0
  PROVE  SignedMulDiv(n, a, b) \in Int
<1>1. CASE n < 0
  <2>1. -n \in Nat
    BY <1>1
  <2>2. MulDiv(-n, a, b) \in Nat
    BY <2>1, MulDivType
  <2> QED
    BY <1>1, <2>2 DEF SignedMulDiv
<1>2. CASE n >= 0
  <2>1. MulDiv(n, a, b) \in Nat
    BY <1>2, MulDivType
  <2> QED
    BY <1>2, <2>1 DEF SignedMulDiv
<1> QED
  BY <1>1, <1>2

(* What is positive of a signed amount is an amount.                        *)
LEMMA PositivePartType ==
  ASSUME NEW n \in Int
  PROVE  PositivePart(n) \in Nat
BY DEF PositivePart

-----------------------------------------------------------------------------
(* What the constants and the books of a market are made of.                *)

(* The market has two tokens, and a side's profit is paid in one of them.   *)
LEMMA TokensPair ==
  /\ LongToken \in Tokens /\ ShortToken \in Tokens /\ LongToken # ShortToken
  /\ \A t \in Tokens : t = LongToken \/ t = ShortToken
  /\ \A b \in BOOLEAN : PnlToken(b) \in Tokens
BY PositionsAssumption DEF Tokens, PnlToken

(* What a position's key names.                                             *)
LEMMA KeyType ==
  ASSUME NEW k \in PositionKeys
  PROVE  /\ k.account \in Accounts /\ k.account \in Owners /\ k.collateral \in Tokens
         /\ k.isLong \in BOOLEAN
         /\ Side(k) \in Sides /\ \A t \in Tokens : <<t, k.isLong>> \in Sides
         /\ PnlToken(k.isLong) \in Tokens
<1>1. k \in [account : Accounts, collateral : Tokens, isLong : BOOLEAN]
  BY PositionsAssumption
<1> QED
  BY <1>1, TokensPair DEF Side, Sides, Owners

(* Prices are positive; only the price impacts and the funding rate are     *)
(* signed.                                                                  *)
LEMMA SituationType ==
  ASSUME NEW s \in Situations
  PROVE  /\ s.index.min \in Nat /\ s.index.min > 0 /\ s.index.max \in Nat /\ s.index.max > 0
         /\ \A t \in Tokens : /\ s.token[t].min \in Nat /\ s.token[t].min > 0
                              /\ s.token[t].max \in Nat /\ s.token[t].max > 0
         /\ s.fundingRate \in Int /\ \A b \in BOOLEAN : s.borrowing[b] \in Nat
         /\ s.distribution \in Nat /\ s.impact \in Int /\ s.closingImpact \in Int
<1>1. s \in Situation
  BY PositionsAssumption
<1> QED
  BY <1>1 DEF Situation, Price

(* No price is below itself, whatever spread it was signed with.            *)
LEMMA PricesOrdered ==
  ASSUME NEW s \in Situations
  PROVE  s.index.min <= s.index.max /\ \A t \in Tokens : s.token[t].min <= s.token[t].max
<1>1. s \in Situation
  BY PositionsAssumption
<1> QED
  BY <1>1 DEF Situation, Price

(* The settings are amounts, and a rebate, a discount or a receiver's share *)
(* is at most all of it.                                                    *)
LEMMA SettingType ==
  /\ PerSize \in Nat /\ PerSize > 0
  /\ \A b \in BOOLEAN : /\ Setting.positionFeeFactor[b] \in Nat
                        /\ Setting.maxPositionImpactFactor[b] \in Nat
  /\ Setting.positionFeeReceiverFactor \in Nat /\ Setting.borrowingFeeReceiverFactor \in Nat
  /\ Setting.uiFeeFactor \in Nat
  /\ \A a \in Accounts : /\ Setting.totalRebateFactor[a] \in Nat
                         /\ Setting.totalRebateFactor[a] <= FloatPrecision
  /\ Setting.traderDiscountFactor \in Nat /\ Setting.traderDiscountFactor <= FloatPrecision
  /\ Setting.swapFeeFactor \in Nat /\ Setting.swapFeeReceiverFactor \in Nat
  /\ Setting.swapFeeReceiverFactor <= FloatPrecision
  /\ Setting.minPositionImpactPoolAmount \in Nat /\ Setting.maxPnlFactorForTraders \in Nat
BY PositionsAssumption DEF Settings

(* The open interest of a side is an amount.                                *)
LEMMA OpenInterestType ==
  ASSUME NEW mk \in Market, NEW b \in BOOLEAN
  PROVE  /\ OpenInterest(mk, b) \in Nat /\ OpenInterestInTokens(mk, b) \in Nat
         /\ \A t \in Tokens : mk.openInterest[<<t, b>>] \in Nat
<1>1. /\ mk.openInterest \in [Sides -> Nat] /\ mk.openInterestInTokens \in [Sides -> Nat]
  BY DEF Market
<1>2. \A t \in Tokens : <<t, b>> \in Sides
  BY DEF Sides
<1> QED
  BY <1>1, <1>2, TokensPair DEF OpenInterest, OpenInterestInTokens

(* What the pool's tokens of a side are worth is an amount.                 *)
LEMMA PoolUsdType ==
  ASSUME NEW mk, mk.poolAmount \in [Tokens -> Nat], NEW s \in Situations, NEW b \in BOOLEAN
  PROVE  PoolUsd(mk, s, b) \in Nat
<1>1. mk.poolAmount[PnlToken(b)] \in Nat /\ s.token[PnlToken(b)].min \in Nat
  BY TokensPair, SituationType
<1> QED
  BY <1>1, TimesType DEF PoolUsd

(* What a unit of size owes and gets for funding is never negative.         *)
LEMMA FundingPerSizeType ==
  ASSUME NEW mk \in Market, NEW s \in Situations, s.fundingRate # 0,
         OpenInterest(mk, TRUE) > 0, OpenInterest(mk, FALSE) > 0
  PROVE  /\ FundingPerSize(mk, s).pay \in [Tokens -> Nat]
         /\ FundingPerSize(mk, s).get \in [Tokens -> Nat]
<1> DEFINE longsPay == s.fundingRate > 0
           owing    == OpenInterest(mk, longsPay)
           other    == OpenInterest(mk, ~longsPay)
           most     == IF owing > other THEN owing ELSE other
           rate     == IF longsPay THEN s.fundingRate ELSE -s.fundingRate
           usd      == ApplyFactor(most, rate)
           usdOf    == [t \in Tokens |-> MulDiv(usd, mk.openInterest[<<t, longsPay>>], owing)]
           pay == [t \in Tokens |-> IF usdOf[t] = 0 THEN 0 ELSE
                     RoundUpDivision(RoundUpDivision(usdOf[t] * PerSize, mk.openInterest[<<t, longsPay>>]),
                                     s.token[t].max)]
           get == [t \in Tokens |-> MulDiv(usdOf[t], PerSize, other) \div s.token[t].max]
<1>1. longsPay \in BOOLEAN /\ rate \in Nat
  BY SituationType
<1>2. owing \in Nat /\ owing > 0 /\ other \in Nat /\ other > 0
  <2>1. longsPay = TRUE \/ longsPay = FALSE
    BY <1>1
  <2>2. CASE longsPay = TRUE
    BY <2>2, OpenInterestType
  <2>3. CASE longsPay = FALSE
    BY <2>3, OpenInterestType
  <2> QED
    BY <2>1, <2>2, <2>3
<1>3. \A t \in Tokens : mk.openInterest[<<t, longsPay>>] \in Nat
  BY <1>1, OpenInterestType
<1>4. FundingPerSize(mk, s) = [pay |-> pay, get |-> get]
  BY Zenon DEF FundingPerSize
<1> HIDE DEF longsPay, owing, other, rate
<1>5. usd \in Nat
  <2>1. most \in Nat
    BY <1>2
  <2> HIDE DEF most
  <2> QED
    BY <1>1, <2>1, FactorType
<1> HIDE DEF usd
<1>6. ASSUME NEW t \in Tokens
      PROVE  pay[t] \in Nat /\ get[t] \in Nat
  <2> DEFINE oi == mk.openInterest[<<t, longsPay>>]
             max == s.token[t].max
             u == MulDiv(usd, oi, owing)
  <2>1. oi \in Nat /\ max \in Nat /\ max > 0
    BY <1>3, SituationType
  <2>2. u \in Nat
    BY <1>2, <1>5, <2>1, MulDivType
  <2>3. u # 0 => oi > 0
    <3>1. CASE oi = 0
      <4>1. u = 0
        BY <1>2, <1>5, <3>1 DEF MulDiv
      <4> QED
        BY <4>1
    <3> QED
      BY <2>1, <3>1
  <2>4. pay[t] = IF u = 0 THEN 0 ELSE RoundUpDivision(RoundUpDivision(u * PerSize, oi), max)
    OBVIOUS
  <2>5. get[t] = MulDiv(u, PerSize, other) \div max
    OBVIOUS
  <2> HIDE DEF oi, max, u
  <2>6. u * PerSize \in Nat /\ MulDiv(u, PerSize, other) \in Nat
    BY <1>2, <2>2, SettingType, TimesType, MulDivType
  <2>7. MulDiv(u, PerSize, other) \div max \in Nat
    BY <2>1, <2>6, DivType
  <2>8. u # 0 => RoundUpDivision(RoundUpDivision(u * PerSize, oi), max) \in Nat
    <3>1. SUFFICES ASSUME u # 0
                   PROVE  RoundUpDivision(RoundUpDivision(u * PerSize, oi), max) \in Nat
      OBVIOUS
    <3>2. RoundUpDivision(u * PerSize, oi) \in Nat
      BY <2>1, <2>3, <2>6, <3>1, RoundUpType
    <3> QED
      BY <2>1, <3>2, RoundUpType
  <2> HIDE DEF pay, get
  <2> QED
    BY <2>4, <2>5, <2>7, <2>8
<1>7. pay = [t \in Tokens |-> pay[t]] /\ get = [t \in Tokens |-> get[t]]
  OBVIOUS
<1> HIDE DEF pay, get
<1>8. pay \in [Tokens -> Nat] /\ get \in [Tokens -> Nat]
  BY <1>6, <1>7
<1> QED
  BY <1>4, <1>8

-----------------------------------------------------------------------------
(* Funding is rounded against those who pay it.                             *)

(* A product of naturals in either order, and of three in any grouping.     *)
LEMMA TimesAssoc ==
  ASSUME NEW a \in Nat, NEW b \in Nat, NEW c \in Nat
  PROVE  (a * b) * c = a * (b * c) /\ a * b = b * a
OBVIOUS

(* A positive factor cancels from an inequality of products.                *)
LEMMA TimesCancel ==
  ASSUME NEW a \in Nat, NEW b \in Nat, NEW c \in Nat, c > 0, a * c <= b * c
  PROVE  a <= b
<1>1. ~(a >= b + 1)
  <2> SUFFICES ASSUME a >= b + 1 PROVE FALSE
    OBVIOUS
  <2>1. (b + 1) * c <= a * c
    BY UpToFactor
  <2>2. (b + 1) * c = b * c + c /\ b * c \in Nat /\ a * c \in Nat
    OBVIOUS
  <2> DEFINE x == a * c
             y == b * c
  <2>3. x \in Nat /\ y \in Nat /\ x <= y /\ y + c <= x
    BY <2>1, <2>2
  <2> HIDE DEF x, y
  <2> QED
    BY <2>3
<1> QED
  BY <1>1

(* A quotient times its divisor is at most what was divided; rounded up it  *)
(* is no less.                                                              *)
LEMMA DivTimes ==
  ASSUME NEW n \in Nat, NEW b \in Nat, b > 0
  PROVE  (n \div b) * b <= n /\ n <= RoundUpDivision(n, b) * b
<1>1. (n \div b) * b <= n
  OBVIOUS
<1>2. n <= RoundUpDivision(n, b) * b
  <2> DEFINE m == n + b - 1
             q == m \div b
  <2>1. m \in Nat /\ RoundUpDivision(n, b) = q
    BY DEF RoundUpDivision
  <2> HIDE DEF m
  <2>2. q \in Nat /\ m < q * b + b
    BY <2>1
  <2> HIDE DEF q
  <2> DEFINE x == q * b
  <2>3. x \in Nat /\ m < x + b
    BY <2>2
  <2> HIDE DEF x
  <2>4. n <= x
    BY <2>1, <2>3 DEF m
  <2> QED
    BY <2>1, <2>4 DEF x
<1> QED
  BY <1>1, <1>2

(* What the other side gets of one token is at most what the owing side     *)
(* pays in it: the one is rounded down, the other up.                       *)
LEMMA RoundedAgainstPayers ==
  ASSUME NEW u \in Nat, NEW oi \in Nat, NEW other \in Nat, other > 0, NEW max \in Nat, max > 0,
         u # 0 => oi > 0
  PROVE  other * (MulDiv(u, PerSize, other) \div max)
           <= oi * (IF u = 0 THEN 0 ELSE RoundUpDivision(RoundUpDivision(u * PerSize, oi), max))
<1> DEFINE n == u * PerSize
           q == n \div other
           get == q \div max
           a == RoundUpDivision(n, oi)
           pay == IF u = 0 THEN 0 ELSE RoundUpDivision(a, max)
<1>1. n \in Nat /\ MulDiv(u, PerSize, other) = q
  BY SettingType, TimesType DEF MulDiv
<1>2. u = 0 => n = 0
  BY SettingType
<1> HIDE DEF n
<1>3. q \in Nat /\ q * other <= n
  BY <1>1, DivType, DivTimes
<1> HIDE DEF q
<1>4. get \in Nat /\ get * max <= q
  BY <1>3, DivType, DivTimes
<1> HIDE DEF get
<1>5. (get * max) * other <= n
  <2>1. (get * max) * other <= q * other
    BY <1>3, <1>4, TimesType, UpToFactor
  <2>2. get * max \in Nat /\ (get * max) * other \in Nat /\ q * other \in Nat
    BY <1>3, <1>4, TimesType
  <2> QED
    BY <1>1, <1>3, <2>1, <2>2
<1>6. (get * max) * other = (other * get) * max
  <2>1. (get * max) * other = other * (get * max) /\ get * max \in Nat
    BY <1>4, TimesType, TimesAssoc
  <2> QED
    BY <1>4, <2>1, TimesAssoc
<1>7. CASE u = 0
  <2>1. get = 0
    <3>1. q = 0
      BY <1>1, <1>2, <1>7 DEF q
    <3> QED
      BY <3>1 DEF get
  <2>2. other * get = 0 /\ oi * pay = 0
    BY <1>7, <2>1
  <2> QED
    BY <1>1, <2>2, <1>7 DEF get
<1>8. CASE u # 0
  <2>1. a \in Nat /\ n <= a * oi
    BY <1>1, <1>8, RoundUpType, DivTimes
  <2> HIDE DEF a
  <2>2. pay \in Nat /\ a <= pay * max
    BY <1>8, <2>1, RoundUpType, DivTimes
  <2>3. pay = RoundUpDivision(a, max)
    BY <1>8
  <2> HIDE DEF pay
  <2>4. a * oi <= (pay * max) * oi
    BY <2>1, <2>2, TimesType, UpToFactor
  <2>5. (pay * max) * oi = (oi * pay) * max
    <3>1. (pay * max) * oi = oi * (pay * max) /\ pay * max \in Nat
      BY <2>2, TimesType, TimesAssoc
    <3> QED
      BY <2>2, <3>1, TimesAssoc
  <2>6. /\ other * get \in Nat /\ oi * pay \in Nat
        /\ (other * get) * max \in Nat /\ (oi * pay) * max \in Nat /\ a * oi \in Nat
    BY <1>4, <2>1, <2>2, TimesType
  <2> DEFINE x == (other * get) * max
             y == (oi * pay) * max
             z == a * oi
  <2>7. x <= n /\ n <= z /\ z <= y /\ x \in Nat /\ y \in Nat /\ z \in Nat
    BY <1>5, <1>6, <2>1, <2>4, <2>5, <2>6
  <2>8. x <= y
    <3> HIDE DEF x, y, z
    <3> QED
      BY <1>1, <2>7
  <2>9. other * get <= oi * pay
    BY <2>6, <2>8, TimesCancel
  <2> QED
    BY <1>1, <1>8, <2>3, <2>9 DEF get, a, n
<1> QED
  BY <1>7, <1>8

(* The same of a whole side: one unit of its size gets no more than the     *)
(* payers' sizes owe.                                                       *)
LEMMA FundingBalanced ==
  ASSUME NEW mk \in Market, NEW s \in Situations, s.fundingRate # 0,
         OpenInterest(mk, TRUE) > 0, OpenInterest(mk, FALSE) > 0, NEW t \in Tokens,
         NEW longsPay \in BOOLEAN, longsPay = (s.fundingRate > 0)
  PROVE  OpenInterest(mk, ~longsPay) * FundingPerSize(mk, s).get[t]
           <= mk.openInterest[<<t, longsPay>>] * FundingPerSize(mk, s).pay[t]
<1> DEFINE owing    == OpenInterest(mk, longsPay)
           other    == OpenInterest(mk, ~longsPay)
           most     == IF owing > other THEN owing ELSE other
           rate     == IF longsPay THEN s.fundingRate ELSE -s.fundingRate
           usd      == ApplyFactor(most, rate)
           usdOf    == [z \in Tokens |-> MulDiv(usd, mk.openInterest[<<z, longsPay>>], owing)]
           pay == [z \in Tokens |-> IF usdOf[z] = 0 THEN 0 ELSE
                     RoundUpDivision(RoundUpDivision(usdOf[z] * PerSize, mk.openInterest[<<z, longsPay>>]),
                                     s.token[z].max)]
           get == [z \in Tokens |-> MulDiv(usdOf[z], PerSize, other) \div s.token[z].max]
<1>1. longsPay \in BOOLEAN /\ rate \in Nat
  <2>1. s.fundingRate \in Int
    BY SituationType
  <2>2. CASE s.fundingRate > 0
    <3>1. longsPay = TRUE /\ rate = s.fundingRate
      BY <2>2
    <3> QED
      BY <2>1, <2>2, <3>1
  <2>3. CASE ~(s.fundingRate > 0)
    <3>1. longsPay = FALSE /\ rate = -s.fundingRate
      BY <2>3
    <3> QED
      BY <2>1, <2>3, <3>1
  <2> QED
    BY <2>2, <2>3
<1>2. owing \in Nat /\ owing > 0 /\ other \in Nat /\ other > 0
  <2>1. longsPay = TRUE \/ longsPay = FALSE
    BY <1>1
  <2>2. CASE longsPay = TRUE
    BY <2>2, OpenInterestType
  <2>3. CASE longsPay = FALSE
    BY <2>3, OpenInterestType
  <2> QED
    BY <2>1, <2>2, <2>3
<1>3. mk.openInterest[<<t, longsPay>>] \in Nat
  BY <1>1, OpenInterestType
<1>4. FundingPerSize(mk, s) = [pay |-> pay, get |-> get]
  BY Zenon DEF FundingPerSize
<1> HIDE DEF owing, other, rate
<1>5. usd \in Nat
  <2>1. most \in Nat
    BY <1>2
  <2> HIDE DEF most
  <2> QED
    BY <1>1, <2>1, FactorType
<1> HIDE DEF usd
<1> DEFINE oi == mk.openInterest[<<t, longsPay>>]
           max == s.token[t].max
           u == MulDiv(usd, oi, owing)
<1>6. max \in Nat /\ max > 0 /\ u \in Nat
  BY <1>2, <1>3, <1>5, SituationType, MulDivType
<1>7. u # 0 => oi > 0
  <2>1. CASE oi = 0
    <3>1. u = 0
      BY <1>2, <1>5, <2>1 DEF MulDiv
    <3> QED
      BY <3>1
  <2> QED
    BY <1>3, <2>1
<1>8. /\ pay[t] = IF u = 0 THEN 0 ELSE RoundUpDivision(RoundUpDivision(u * PerSize, oi), max)
      /\ get[t] = MulDiv(u, PerSize, other) \div max
  OBVIOUS
<1> HIDE DEF oi, max, u, pay, get
<1>9. other * get[t] <= oi * pay[t]
  BY <1>2, <1>3, <1>6, <1>7, <1>8, RoundedAgainstPayers DEF oi
<1>10. FundingPerSize(mk, s).get = get /\ FundingPerSize(mk, s).pay = pay
  BY <1>4
<1> QED
  BY <1>9, <1>10 DEF oi, other

-----------------------------------------------------------------------------
(* Funding, borrowing and the distribution of the impact pool keep the      *)
(* books.                                                                   *)

(* The tokens t in the market's books, but for the positions' collateral.   *)
BookSum(mk, t) ==
  mk.poolAmount[t] + mk.claimableFee[t] + mk.claimableUiFee[t] + mk.affiliateReward[t]
    + mk.claimableCollateralAmount[t]

(* Both markets have the same aggregates of their positions.                *)
SamePositionBooks(mk, mk2) ==
  /\ mk2.openInterest = mk.openInterest /\ mk2.openInterestInTokens = mk.openInterestInTokens
  /\ mk2.collateralSum = mk.collateralSum /\ mk2.totalBorrowing = mk.totalBorrowing
  /\ mk2.claimableFunding = mk.claimableFunding

(* Both markets have the same cumulative factors.                           *)
SameFactors(mk, mk2) ==
  /\ mk2.cumulativeBorrowingFactor = mk.cumulativeBorrowingFactor
  /\ mk2.fundingFeeAmountPerSize = mk.fundingFeeAmountPerSize
  /\ mk2.claimableFundingAmountPerSize = mk.claimableFundingAmountPerSize

(* No cumulative factor of mk2 is behind that of mk.                        *)
FactorsGrow(mk, mk2) ==
  /\ \A b \in BOOLEAN : mk.cumulativeBorrowingFactor[b] <= mk2.cumulativeBorrowingFactor[b]
  /\ \A x \in Sides : mk.fundingFeeAmountPerSize[x] <= mk2.fundingFeeAmountPerSize[x]
  /\ \A x \in Sides : mk.claimableFundingAmountPerSize[x] <= mk2.claimableFundingAmountPerSize[x]

(* Both markets have set aside the same collateral.                         *)
SameClaims(mk, mk2) ==
  /\ mk2.claimableCollateral = mk.claimableCollateral
  /\ mk2.claimedCollateral = mk.claimedCollateral
  /\ mk2.claimableCollateralAmount = mk.claimableCollateralAmount

(* The amounts per unit of size of one side, grown by what each token adds. *)
Grown(perSize, by, isLong) ==
  [x \in Sides |-> perSize[x] + (IF x[2] = isLong THEN by[x[1]] ELSE 0)]

(* Growing leaves no amount per unit of size lower.                         *)
LEMMA GrownType ==
  ASSUME NEW perSize \in [Sides -> Nat], NEW by \in [Tokens -> Nat], NEW isLong
  PROVE  /\ Grown(perSize, by, isLong) \in [Sides -> Nat]
         /\ \A x \in Sides : perSize[x] <= Grown(perSize, by, isLong)[x]
<1>1. \A x \in Sides : x[1] \in Tokens
  BY DEF Sides
<1>2. \A x \in Sides : /\ perSize[x] + (IF x[2] = isLong THEN by[x[1]] ELSE 0) \in Nat
                       /\ perSize[x] <= perSize[x] + (IF x[2] = isLong THEN by[x[1]] ELSE 0)
  BY <1>1
<1> QED
  BY <1>2 DEF Grown

(* Updating the funding moves the funding factors forward and touches no    *)
(* other book.                                                              *)
LEMMA FundedType ==
  ASSUME NEW mk \in Market, NEW s \in Situations
  PROVE  /\ Funded(mk, s) \in Market /\ FactorsGrow(mk, Funded(mk, s))
         /\ SamePositionBooks(mk, Funded(mk, s)) /\ SameClaims(mk, Funded(mk, s))
         /\ Funded(mk, s).positionImpactPool = mk.positionImpactPool
         /\ Funded(mk, s).claimableFunding = mk.claimableFunding
         /\ \A t \in Tokens : BookSum(Funded(mk, s), t) = BookSum(mk, t)
<1> DEFINE long == OpenInterest(mk, TRUE)
           short == OpenInterest(mk, FALSE)
           idle == s.fundingRate = 0 \/ long = 0 \/ short = 0
           longsPay == s.fundingRate > 0
           f == FundingPerSize(mk, s)
           pay == Grown(mk.fundingFeeAmountPerSize, f.pay, longsPay)
           get == Grown(mk.claimableFundingAmountPerSize, f.get, ~longsPay)
           grown == [mk EXCEPT !.fundingFeeAmountPerSize = pay, !.claimableFundingAmountPerSize = get]
           r == Funded(mk, s)
<1>0. r = IF idle THEN mk ELSE grown
  BY Zenon DEF Funded, Grown
<1> HIDE DEF r
<1>1. /\ mk.fundingFeeAmountPerSize \in [Sides -> Nat]
      /\ mk.claimableFundingAmountPerSize \in [Sides -> Nat]
      /\ mk.cumulativeBorrowingFactor \in [BOOLEAN -> Nat]
  BY DEF Market
<1>2. ASSUME idle
      PROVE  /\ r \in Market /\ FactorsGrow(mk, r)
             /\ SamePositionBooks(mk, r) /\ SameClaims(mk, r)
             /\ r.positionImpactPool = mk.positionImpactPool
             /\ r.claimableFunding = mk.claimableFunding
             /\ \A t \in Tokens : BookSum(r, t) = BookSum(mk, t)
  <2>1. r = mk
    BY <1>0, <1>2
  <2> HIDE DEF grown, idle, f, longsPay
  <2>2. FactorsGrow(mk, r)
    BY <1>1, <2>1 DEF FactorsGrow
  <2>3. SamePositionBooks(mk, r) /\ SameClaims(mk, r)
    BY <2>1 DEF SamePositionBooks, SameClaims
  <2>4. r \in Market /\ r.positionImpactPool = mk.positionImpactPool
        /\ r.claimableFunding = mk.claimableFunding
    BY <2>1
  <2>5. \A t \in Tokens : BookSum(r, t) = BookSum(mk, t)
    BY <2>1 DEF BookSum
  <2> QED
    BY <2>2, <2>3, <2>4, <2>5
<1>3. ASSUME ~idle
      PROVE  /\ r \in Market /\ FactorsGrow(mk, r)
             /\ SamePositionBooks(mk, r) /\ SameClaims(mk, r)
             /\ r.positionImpactPool = mk.positionImpactPool
             /\ r.claimableFunding = mk.claimableFunding
             /\ \A t \in Tokens : BookSum(r, t) = BookSum(mk, t)
  <2>1. r = grown
    BY <1>0, <1>3
  <2>2. s.fundingRate # 0 /\ long > 0 /\ short > 0
    <3>1. long \in Nat /\ short \in Nat
      BY OpenInterestType
    <3> HIDE DEF long, short
    <3> QED
      BY <1>3, <3>1
  <2>3. f.pay \in [Tokens -> Nat] /\ f.get \in [Tokens -> Nat]
    BY <2>2, FundingPerSizeType
  <2> HIDE DEF f, idle, longsPay
  <2>4. /\ pay \in [Sides -> Nat] /\ \A x \in Sides : mk.fundingFeeAmountPerSize[x] <= pay[x]
        /\ get \in [Sides -> Nat] /\ \A x \in Sides : mk.claimableFundingAmountPerSize[x] <= get[x]
    BY <1>1, <2>3, GrownType
  <2> HIDE DEF pay, get
  <2>5. grown \in Market
    BY <2>4 DEF Market
  <2>6. /\ grown.fundingFeeAmountPerSize = pay /\ grown.claimableFundingAmountPerSize = get
        /\ grown.cumulativeBorrowingFactor = mk.cumulativeBorrowingFactor
    BY DEF Market
  <2>7. FactorsGrow(mk, grown)
    <3> HIDE DEF grown
    <3> QED
      BY <1>1, <2>4, <2>6 DEF FactorsGrow
  <2>8. SamePositionBooks(mk, grown) /\ SameClaims(mk, grown)
    BY DEF Market, SamePositionBooks, SameClaims
  <2>9. grown.positionImpactPool = mk.positionImpactPool /\ grown.claimableFunding = mk.claimableFunding
    BY DEF Market
  <2>10. \A t \in Tokens : BookSum(grown, t) = BookSum(mk, t)
    BY DEF Market, BookSum
  <2> HIDE DEF grown
  <2> QED
    BY <2>1, <2>5, <2>7, <2>8, <2>9, <2>10
<1>4. /\ r \in Market /\ FactorsGrow(mk, r)
      /\ SamePositionBooks(mk, r) /\ SameClaims(mk, r)
      /\ r.positionImpactPool = mk.positionImpactPool
      /\ r.claimableFunding = mk.claimableFunding
      /\ \A t \in Tokens : BookSum(r, t) = BookSum(mk, t)
  <2> HIDE DEF idle, grown
  <2> QED
    BY <1>2, <1>3
<1> QED
  BY <1>4 DEF r

(* Bringing a market up to date moves the factors forward and moves no      *)
(* token of the books.                                                      *)
LEMMA AccruedType ==
  ASSUME NEW mk \in Market, NEW s \in Situations
  PROVE  /\ Accrued(mk, s) \in Market /\ FactorsGrow(mk, Accrued(mk, s))
         /\ SamePositionBooks(mk, Accrued(mk, s)) /\ SameClaims(mk, Accrued(mk, s))
         /\ \A t \in Tokens : BookSum(Accrued(mk, s), t) = BookSum(mk, t)
<1> DEFINE fd == Funded(mk, s)
           pool == DistributedImpactPool(mk, s)
           factor == [b \in BOOLEAN |-> fd.cumulativeBorrowingFactor[b]
                                         + (IF Borrows(mk, s, b) THEN s.borrowing[b] ELSE 0)]
           acc == [fd EXCEPT !.positionImpactPool = pool, !.cumulativeBorrowingFactor = factor]
<1>1. Accrued(mk, s) = acc
  BY Zenon DEF Accrued
<1>2. /\ fd \in Market /\ FactorsGrow(mk, fd) /\ SamePositionBooks(mk, fd) /\ SameClaims(mk, fd)
      /\ \A t \in Tokens : BookSum(fd, t) = BookSum(mk, t)
  BY FundedType
<1> HIDE DEF fd
<1>3. fd.cumulativeBorrowingFactor \in [BOOLEAN -> Nat] /\ mk.positionImpactPool \in Nat
      /\ mk.cumulativeBorrowingFactor \in [BOOLEAN -> Nat]
  BY <1>2 DEF Market
<1>4. pool \in Nat
  <2> DEFINE spare == PositivePart(mk.positionImpactPool - Setting.minPositionImpactPoolAmount)
  <2>1. spare \in Nat /\ spare <= mk.positionImpactPool
    BY <1>3, SettingType DEF PositivePart
  <2>2. pool = mk.positionImpactPool - Smaller(s.distribution, spare)
    BY DEF DistributedImpactPool
  <2> HIDE DEF spare, pool
  <2> QED
    BY <1>3, <2>1, <2>2, SituationType DEF Smaller
<1>5. \A b \in BOOLEAN : s.borrowing[b] \in Nat
  BY SituationType
<1>6. \A b \in BOOLEAN : factor[b] \in Nat /\ fd.cumulativeBorrowingFactor[b] <= factor[b]
  BY <1>3, <1>5
<1>7. factor \in [BOOLEAN -> Nat]
  BY <1>6
<1> HIDE DEF pool, factor
<1>8. acc \in Market
  BY <1>2, <1>4, <1>7 DEF Market
<1>9. /\ acc.cumulativeBorrowingFactor = factor
      /\ acc.fundingFeeAmountPerSize = fd.fundingFeeAmountPerSize
      /\ acc.claimableFundingAmountPerSize = fd.claimableFundingAmountPerSize
  BY <1>2 DEF Market
<1>10. SamePositionBooks(mk, acc) /\ SameClaims(mk, acc)
  BY <1>2 DEF Market, SamePositionBooks, SameClaims
<1>11. \A t \in Tokens : BookSum(acc, t) = BookSum(fd, t)
  BY <1>2 DEF Market, BookSum
<1> HIDE DEF acc
<1>12. FactorsGrow(mk, acc)
  <2>1. \A b \in BOOLEAN : mk.cumulativeBorrowingFactor[b] <= acc.cumulativeBorrowingFactor[b]
    <3> SUFFICES ASSUME NEW b \in BOOLEAN
                 PROVE  mk.cumulativeBorrowingFactor[b] <= acc.cumulativeBorrowingFactor[b]
      OBVIOUS
    <3>1. mk.cumulativeBorrowingFactor[b] <= fd.cumulativeBorrowingFactor[b]
      BY <1>2 DEF FactorsGrow
    <3> QED
      BY <1>3, <1>6, <1>9, <3>1
  <2> QED
    BY <1>2, <1>9, <2>1 DEF FactorsGrow
<1> QED
  BY <1>1, <1>2, <1>8, <1>10, <1>11, <1>12

-----------------------------------------------------------------------------
(* What bringing the market up to date does to the funding factors.         *)

(* Funding factors of mk2 are those of mk, grown by what the payers of one  *)
(* side owe and the other side gets.                                        *)
FundingGrown(mk, mk2, pay, get, longsPay) ==
  /\ pay \in [Tokens -> Nat] /\ get \in [Tokens -> Nat]
  /\ mk2.fundingFeeAmountPerSize = Grown(mk.fundingFeeAmountPerSize, pay, longsPay)
  /\ mk2.claimableFundingAmountPerSize = Grown(mk.claimableFundingAmountPerSize, get, ~longsPay)
  /\ \A t \in Tokens :
       OpenInterest(mk, ~longsPay) * get[t] <= mk.openInterest[<<t, longsPay>>] * pay[t]

(* Both markets have the same funding factors.                              *)
FundingSame(mk, mk2) ==
  /\ mk2.fundingFeeAmountPerSize = mk.fundingFeeAmountPerSize
  /\ mk2.claimableFundingAmountPerSize = mk.claimableFundingAmountPerSize

(* Funding was not due, or grew.                                            *)
FundingMoved(mk, mk2) ==
  FundingSame(mk, mk2) \/ \E longsPay \in BOOLEAN, pay, get \in [Tokens -> Nat] :
                            FundingGrown(mk, mk2, pay, get, longsPay)

(* Bringing a market up to date lets the other side get at most what the    *)
(* payers owe.                                                              *)
LEMMA AccruedMovesFunding ==
  ASSUME NEW mk \in Market, NEW s \in Situations
  PROVE  FundingMoved(mk, Accrued(mk, s))
<1> DEFINE long == OpenInterest(mk, TRUE)
           short == OpenInterest(mk, FALSE)
           idle == s.fundingRate = 0 \/ long = 0 \/ short = 0
           longsPay == s.fundingRate > 0
           f == FundingPerSize(mk, s)
           pay == Grown(mk.fundingFeeAmountPerSize, f.pay, longsPay)
           get == Grown(mk.claimableFundingAmountPerSize, f.get, ~longsPay)
           grown == [mk EXCEPT !.fundingFeeAmountPerSize = pay, !.claimableFundingAmountPerSize = get]
           fd == Funded(mk, s)
           pool == DistributedImpactPool(mk, s)
           factor == [b \in BOOLEAN |-> fd.cumulativeBorrowingFactor[b]
                                         + (IF Borrows(mk, s, b) THEN s.borrowing[b] ELSE 0)]
           acc == [fd EXCEPT !.positionImpactPool = pool, !.cumulativeBorrowingFactor = factor]
<1>1. Accrued(mk, s) = acc
  BY Zenon DEF Accrued
<1>2. fd = IF idle THEN mk ELSE grown
  BY Zenon DEF Funded, Grown
<1>3. fd \in Market
  BY FundedType
<1> HIDE DEF fd, pool, factor
<1>4. FundingSame(fd, acc)
  BY <1>3 DEF Market, FundingSame
<1> HIDE DEF acc
<1>5. CASE idle
  <2>1. fd = mk
    BY <1>2, <1>5
  <2> QED
    BY <1>1, <1>4, <2>1 DEF FundingMoved
<1>6. CASE ~idle
  <2>1. fd = grown
    BY <1>2, <1>6
  <2>2. s.fundingRate # 0 /\ long > 0 /\ short > 0
    <3>1. long \in Nat /\ short \in Nat
      BY OpenInterestType
    <3> HIDE DEF long, short
    <3> QED
      BY <1>6, <3>1
  <2>3. f.pay \in [Tokens -> Nat] /\ f.get \in [Tokens -> Nat]
    BY <2>2, FundingPerSizeType
  <2>4. longsPay \in BOOLEAN
    OBVIOUS
  <2>5. \A t \in Tokens : OpenInterest(mk, ~longsPay) * f.get[t] <= mk.openInterest[<<t, longsPay>>] * f.pay[t]
    <3> HIDE DEF longsPay
    <3>1. longsPay = (s.fundingRate > 0)
      BY DEF longsPay
    <3> QED
      BY <2>2, <2>4, <3>1, FundingBalanced
  <2> HIDE DEF longsPay, f, idle
  <2>6. grown.fundingFeeAmountPerSize = pay /\ grown.claimableFundingAmountPerSize = get
    <3> HIDE DEF pay, get
    <3> QED
      BY DEF Market
  <2> HIDE DEF grown
  <2>7. /\ acc.fundingFeeAmountPerSize = pay /\ acc.claimableFundingAmountPerSize = get
    BY <1>4, <2>1, <2>6 DEF FundingSame
  <2>8. FundingGrown(mk, acc, f.pay, f.get, longsPay)
    BY <2>3, <2>5, <2>7 DEF FundingGrown
  <2> QED
    BY <1>1, <2>3, <2>4, <2>8 DEF FundingMoved
<1> QED
  BY <1>5, <1>6

-----------------------------------------------------------------------------
(* Fees, profit, price impact and the size of a decrease.                   *)

(* A position that is not ahead of the market owes no negative funding.     *)
LEMMA FundingDueType ==
  ASSUME NEW size \in Nat, NEW latest \in Nat, NEW own \in Nat, own <= latest, NEW up \in BOOLEAN
  PROVE  FundingDue(size, latest, own, up) \in Nat
<1>1. latest - own \in Nat
  OBVIOUS
<1>2. size * (latest - own) \in Nat
  BY <1>1, TimesType
<1>3. (size * (latest - own)) \div PerSize \in Nat
  BY <1>2, SettingType, DivType
<1>4. RoundUpDivision(size * (latest - own), PerSize) \in Nat
  BY <1>2, SettingType, RoundUpType
<1> QED
  BY <1>3, <1>4 DEF FundingDue

(* What a position costs is what its fees enter in the books.               *)
FeesSplit(fees) ==
  /\ fees.pool \in Int /\ fees.receiver \in Nat /\ fees.ui \in Nat /\ fees.affiliate \in Nat
  /\ fees.cost \in Nat
  /\ fees.cost = fees.pool + fees.receiver + fees.ui + fees.affiliate

(* Every fee of a position goes to the pool, the fee receiver, the ui or    *)
(* the affiliate.                                                           *)
LEMMA PositionFeesSplit ==
  ASSUME NEW k \in PositionKeys, NEW s \in Situations, NEW p, p.sizeInUsd \in Nat, NEW mk,
         mk.cumulativeBorrowingFactor[k.isLong] - p.borrowingFactor \in Nat,
         NEW d \in Nat, NEW positive \in BOOLEAN, NEW uiFeeFactor \in Nat
  PROVE  FeesSplit(PositionFees(mk, k, p, s, d, positive, uiFeeFactor))
<1> DEFINE fees      == PositionFees(mk, k, p, s, d, positive, uiFeeFactor)
           pc        == s.token[k.collateral].min
           gross     == ApplyFactor(d, Setting.positionFeeFactor[positive])
           fee       == gross \div pc
           rebate    == ApplyFactor(fee, Setting.totalRebateFactor[k.account])
           discount  == ApplyFactor(rebate, Setting.traderDiscountFactor)
           receiver  == ApplyFactor(fee - rebate, Setting.positionFeeReceiverFactor)
           factor    == mk.cumulativeBorrowingFactor[k.isLong] - p.borrowingFactor
           inUsd     == ApplyFactor(p.sizeInUsd, factor)
           borrowing == inUsd \div pc
           ofThat    == ApplyFactor(borrowing, Setting.borrowingFeeReceiverFactor)
           uiUsd     == ApplyFactor(d, uiFeeFactor)
           ui        == uiUsd \div pc
<1>1. fees = [pool |-> fee - rebate - receiver + borrowing - ofThat, receiver |-> receiver + ofThat,
              ui |-> ui, affiliate |-> rebate - discount, cost |-> fee + borrowing + ui - discount]
  BY Zenon DEF PositionFees
<1>2. pc \in Nat /\ pc > 0
  BY KeyType, SituationType
<1>3. Setting.positionFeeFactor[positive] \in Nat /\ Setting.totalRebateFactor[k.account] \in Nat
      /\ Setting.totalRebateFactor[k.account] <= FloatPrecision
  BY KeyType, SettingType
<1> HIDE DEF pc
<1>4. fee \in Nat
  <2>1. gross \in Nat
    BY <1>3, FactorType
  <2> HIDE DEF gross
  <2> QED
    BY <1>2, <2>1, DivType
<1> HIDE DEF fee
<1>5. rebate \in Nat /\ rebate <= fee
  BY <1>3, <1>4, FactorType, FactorAtMost
<1> HIDE DEF rebate
<1>6. discount \in Nat /\ discount <= rebate
  BY <1>5, SettingType, FactorType, FactorAtMost
<1>7. receiver \in Nat
  <2>1. fee - rebate \in Nat
    BY <1>4, <1>5
  <2> QED
    BY <2>1, SettingType, FactorType
<1>8. borrowing \in Nat
  <2>1. inUsd \in Nat
    BY FactorType
  <2> HIDE DEF inUsd
  <2> QED
    BY <1>2, <2>1, DivType
<1> HIDE DEF borrowing, discount, receiver
<1>9. ofThat \in Nat
  BY <1>8, SettingType, FactorType
<1>10. ui \in Nat
  <2>1. uiUsd \in Nat
    BY FactorType
  <2> HIDE DEF uiUsd
  <2> QED
    BY <1>2, <2>1, DivType
<1> HIDE DEF fees, ofThat, ui
<1>11. FeesSplit(fees)
  BY <1>1, <1>4, <1>5, <1>6, <1>7, <1>8, <1>9, <1>10 DEF FeesSplit
<1> QED
  BY <1>11 DEF fees

(* The profit of a position, capped or not, is a signed amount.             *)
LEMMA PnlType ==
  ASSUME NEW k \in PositionKeys, NEW s \in Situations, NEW p \in Position, NEW mk \in Market
  PROVE  TotalPnl(mk, k, p, s) \in Int
<1> DEFINE value == p.sizeInTokens * (IF k.isLong THEN s.index.min ELSE s.index.max)
           pnl   == UncappedPnl(k, p, s)
           ofAll == PoolPnl(mk, s, k.isLong)
           most  == ApplyFactor(PoolUsd(mk, s, k.isLong), Setting.maxPnlFactorForTraders)
<1>1. p.sizeInTokens \in Nat /\ p.sizeInUsd \in Nat
  BY DEF Position
<1>2. pnl \in Int
  <2>1. value \in Nat
    BY <1>1, SituationType, TimesType
  <2>2. pnl = IF k.isLong THEN value - p.sizeInUsd ELSE p.sizeInUsd - value
    BY DEF UncappedPnl
  <2> HIDE DEF value, pnl
  <2> QED
    BY <1>1, <2>1, <2>2
<1>3. ofAll \in Int
  <2> DEFINE lt == OpenInterestInTokens(mk, TRUE) * s.index.max
             st == OpenInterestInTokens(mk, FALSE) * s.index.min
             lo == OpenInterest(mk, TRUE)
             so == OpenInterest(mk, FALSE)
  <2>1. lo \in Nat /\ so \in Nat
    BY OpenInterestType
  <2>2. OpenInterestInTokens(mk, TRUE) \in Nat /\ OpenInterestInTokens(mk, FALSE) \in Nat
    BY OpenInterestType
  <2>3. lt \in Nat /\ st \in Nat
    BY <2>2, SituationType, TimesType
  <2>4. ofAll \in {0, lt - lo, so - st}
    BY DEF PoolPnl
  <2> HIDE DEF lt, st, lo, so, ofAll
  <2> QED
    BY <2>1, <2>3, <2>4
<1>4. most \in Nat
  <2>1. PoolUsd(mk, s, k.isLong) \in Nat
    BY KeyType, PoolUsdType DEF Market
  <2> QED
    BY <2>1, SettingType, FactorType
<1>5. TotalPnl(mk, k, p, s) = IF pnl > 0 /\ ofAll > most /\ most > 0 THEN MulDiv(pnl, most, ofAll) ELSE pnl
  BY Zenon DEF TotalPnl
<1> HIDE DEF pnl, ofAll, most
<1>6. CASE pnl > 0 /\ ofAll > most /\ most > 0
  <2>1. pnl \in Nat /\ ofAll \in Nat /\ ofAll > 0
    BY <1>2, <1>3, <1>4, <1>6
  <2>2. MulDiv(pnl, most, ofAll) \in Nat
    BY <1>4, <2>1, MulDivType
  <2> QED
    BY <1>5, <1>6, <2>2
<1>7. CASE ~(pnl > 0 /\ ofAll > most /\ most > 0)
  BY <1>2, <1>5, <1>7
<1> QED
  BY <1>6, <1>7

(* The price impact, capped or not, is a signed amount, and what the cap    *)
(* cuts off is an amount.                                                   *)
LEMMA ImpactType ==
  ASSUME NEW s \in Situations, NEW mk, mk.positionImpactPool \in Nat, NEW d \in Nat
  PROVE  /\ CappedImpact(mk, s, s.impact, d) \in Int
         /\ \A n \in Int : ImpactDiff(n, d) \in Nat
<1> DEFINE inPool == mk.positionImpactPool * s.index.min
           most == ApplyFactor(d, Setting.maxPositionImpactFactor[TRUE])
           least == ApplyFactor(d, Setting.maxPositionImpactFactor[FALSE])
<1>1. inPool \in Nat
  BY SituationType, TimesType
<1>2. most \in Nat /\ least \in Nat
  BY SettingType, FactorType
<1>3. s.impact \in Int
  BY SituationType
<1>4. CappedImpact(mk, s, s.impact, d) =
        IF s.impact <= 0 THEN s.impact ELSE Smaller(Smaller(s.impact, inPool), most)
  BY DEF CappedImpact
<1>5. \A n \in Int : ImpactDiff(n, d) = PositivePart(-n - least)
  BY DEF ImpactDiff
<1> HIDE DEF inPool, most, least
<1>6. CappedImpact(mk, s, s.impact, d) \in Int
  BY <1>1, <1>2, <1>3, <1>4 DEF Smaller
<1> QED
  BY <1>2, <1>5, <1>6 DEF PositivePart

(* A position has no less size in tokens than a decrease takes from it.     *)
LEMMA SizeDeltaType ==
  ASSUME NEW k \in PositionKeys, NEW p \in Position, NEW d \in Nat, d <= p.sizeInUsd, p.sizeInUsd > 0
  PROVE  /\ SizeDeltaInTokens(k, p, d) \in Nat
         /\ SizeDeltaInTokens(k, p, d) <= p.sizeInTokens
<1> DEFINE n == p.sizeInTokens * d
           up == RoundUpDivision(n, p.sizeInUsd)
           down == n \div p.sizeInUsd
<1>1. p.sizeInTokens \in Nat /\ p.sizeInUsd \in Nat
  BY DEF Position
<1>2. n \in Nat
  BY <1>1, TimesType
<1>3. n <= p.sizeInTokens * p.sizeInUsd
  BY <1>1, TimesMonotone
<1>4. SizeDeltaInTokens(k, p, d) = IF d = p.sizeInUsd THEN p.sizeInTokens ELSE IF k.isLong THEN up ELSE down
  BY DEF SizeDeltaInTokens
<1> HIDE DEF n
<1>5. up \in Nat /\ up <= p.sizeInTokens
  BY <1>1, <1>2, <1>3, RoundUpType, RoundUpAtMost
<1>6. down \in Nat /\ down <= p.sizeInTokens
  BY <1>1, <1>2, <1>3, DivType, DivAtMost
<1> HIDE DEF up, down
<1> QED
  BY <1>1, <1>4, <1>5, <1>6

-----------------------------------------------------------------------------
(* Swaps, and one payment from the purse of a decrease.                     *)

(* The other one of the market's two tokens.                                *)
OtherToken(t) == IF t = LongToken THEN ShortToken ELSE LongToken

(* It is a token of the market, and not t.                                  *)
LEMMA OtherTokenType ==
  ASSUME NEW t \in Tokens
  PROVE  OtherToken(t) \in Tokens /\ OtherToken(t) # t
BY TokensPair DEF OtherToken

(* A swap moves what comes in and what goes out through the pool and the    *)
(* fees, and nothing else.                                                  *)
LEMMA MarketSwapBooks ==
  ASSUME NEW mk \in Market, NEW s \in Situations, NEW tokenIn \in Tokens, NEW n \in Nat,
         NEW uiFeeFactor \in Nat, NEW swap, swap = MarketSwap(mk, s, tokenIn, n, uiFeeFactor),
         swap.possible
  PROVE  /\ swap.market \in Market /\ swap.out \in Nat
         /\ SamePositionBooks(mk, swap.market) /\ SameFactors(mk, swap.market)
         /\ SameClaims(mk, swap.market)
         /\ BookSum(swap.market, tokenIn) = BookSum(mk, tokenIn) + n
         /\ BookSum(swap.market, OtherToken(tokenIn)) = BookSum(mk, OtherToken(tokenIn)) - swap.out
<1> DEFINE tokenOut == OtherToken(tokenIn)
           fee      == ApplyFactor(n, Setting.swapFeeFactor)
           receiver == ApplyFactor(fee, Setting.swapFeeReceiverFactor)
           ui       == ApplyFactor(n, uiFeeFactor)
           left     == n - fee - ui
           value    == left * s.token[tokenIn].min
           out      == value \div s.token[tokenOut].max
           after    == [mk EXCEPT !.poolAmount[tokenIn] = @ + n - receiver - ui,
                                  !.poolAmount[tokenOut] = @ - out,
                                  !.claimableFee[tokenIn] = @ + receiver,
                                  !.claimableUiFee[tokenIn] = @ + ui]
           fits     == /\ n > 0 /\ fee + ui <= n /\ out <= mk.poolAmount[tokenOut]
                       /\ after.poolAmount[tokenIn] <= Setting.maxPoolAmount
                       /\ validateReserve(after, s, tokenOut = LongToken)
                       /\ validateMaxPnl(after, s, tokenOut)
<1>1. swap = [market |-> after, out |-> out, possible |-> fits]
  BY Zenon DEF MarketSwap, OtherToken
<1>2. swap.market = after /\ swap.out = out /\ (swap.possible => fits)
  <2> HIDE DEF after, out, fits
  <2> QED
    BY <1>1
<1>3. fee + ui <= n /\ out <= mk.poolAmount[tokenOut]
  <2>1. fits
    <3> HIDE DEF fits, after, out
    <3> QED
      BY <1>2
  <2> HIDE DEF after, out, fee, ui
  <2> QED
    BY <2>1
<1>4. tokenOut \in Tokens /\ tokenOut # tokenIn
  BY OtherTokenType
<1>5. fee \in Nat /\ ui \in Nat
  BY SettingType, FactorType
<1> HIDE DEF fee, ui
<1>6. receiver \in Nat /\ receiver <= fee
  BY <1>5, SettingType, FactorType, FactorAtMost
<1>7. out \in Nat
  <2>1. left \in Nat
    BY <1>3, <1>5
  <2> HIDE DEF left
  <2>2. s.token[tokenIn].min \in Nat /\ s.token[tokenOut].max \in Nat /\ s.token[tokenOut].max > 0
    BY <1>4, SituationType
  <2>3. value \in Nat
    BY <2>1, <2>2, TimesType
  <2> HIDE DEF value
  <2> QED
    BY <2>2, <2>3, DivType
<1> HIDE DEF receiver, out, tokenOut, fits
<1>8. /\ mk.poolAmount \in [Tokens -> Nat] /\ mk.claimableFee \in [Tokens -> Nat]
      /\ mk.claimableUiFee \in [Tokens -> Nat] /\ mk.affiliateReward \in [Tokens -> Nat]
      /\ mk.claimableCollateralAmount \in [Tokens -> Nat]
  BY DEF Market
<1> DEFINE in == mk.poolAmount[tokenIn] + n - receiver - ui
           rest == mk.poolAmount[tokenOut] - out
           pool == [mk.poolAmount EXCEPT ![tokenIn] = in, ![tokenOut] = rest]
           fees == [mk.claimableFee EXCEPT ![tokenIn] = @ + receiver]
           uis  == [mk.claimableUiFee EXCEPT ![tokenIn] = @ + ui]
<1>9. in \in Nat /\ rest \in Nat
  BY <1>3, <1>4, <1>5, <1>6, <1>7, <1>8
<1>10. after = [mk EXCEPT !.poolAmount = pool, !.claimableFee = fees, !.claimableUiFee = uis]
  BY <1>4 DEF Market
<1>11. /\ in = mk.poolAmount[tokenIn] + n - receiver - ui
       /\ rest = mk.poolAmount[tokenOut] - out
  OBVIOUS
<1> HIDE DEF after, in, rest
<1>12. /\ pool \in [Tokens -> Nat] /\ fees \in [Tokens -> Nat] /\ uis \in [Tokens -> Nat]
       /\ pool[tokenIn] = in /\ pool[tokenOut] = rest
       /\ fees[tokenIn] = mk.claimableFee[tokenIn] + receiver /\ fees[tokenOut] = mk.claimableFee[tokenOut]
       /\ uis[tokenIn] = mk.claimableUiFee[tokenIn] + ui /\ uis[tokenOut] = mk.claimableUiFee[tokenOut]
  BY <1>4, <1>5, <1>6, <1>8, <1>9
<1> HIDE DEF pool, fees, uis
<1>13. after \in Market
  BY <1>10, <1>12 DEF Market
<1>14. SamePositionBooks(mk, after) /\ SameFactors(mk, after) /\ SameClaims(mk, after)
  BY <1>10 DEF Market, SamePositionBooks, SameFactors, SameClaims
<1>15. /\ after.poolAmount = pool /\ after.claimableFee = fees /\ after.claimableUiFee = uis
       /\ after.affiliateReward = mk.affiliateReward
       /\ after.claimableCollateralAmount = mk.claimableCollateralAmount
  BY <1>10 DEF Market
<1>16. BookSum(after, tokenIn) = BookSum(mk, tokenIn) + n
  BY <1>5, <1>6, <1>8, <1>11, <1>12, <1>15 DEF BookSum
<1>17. BookSum(after, tokenOut) = BookSum(mk, tokenOut) - out
  BY <1>4, <1>7, <1>8, <1>11, <1>12, <1>15 DEF BookSum
<1>18. BookSum(after, OtherToken(tokenIn)) = BookSum(mk, OtherToken(tokenIn)) - out
  BY <1>17 DEF tokenOut
<1> QED
  BY <1>2, <1>7, <1>13, <1>14, <1>16, <1>18

(* What a decrease pays with: its output, the collateral left and the       *)
(* output in the other token.                                               *)
Purse == [out : Nat, rest : Nat, sec : Nat]
(* A payment from the purse, and what is still owing in usd.                *)
Payment == [purse : Purse, paid : Nat, paidInOther : Nat, owing : Nat]

(* What leaves the purse has been paid, in the one token or in the other,   *)
(* and no more than is needed.                                              *)
PaidFrom(purse, r, need) ==
  /\ r \in Payment
  /\ r.purse.out + r.purse.rest + r.paid = purse.out + purse.rest
  /\ r.purse.sec + r.paidInOther = purse.sec
  /\ r.paid <= need

(* payForCost takes from the purse exactly what it reports as paid.         *)
LEMMA PayForCostSplit ==
  ASSUME NEW purse \in Purse, NEW usd \in Nat, NEW pc \in Nat, pc > 0, NEW ps \in Nat, ps > 0
  PROVE  PaidFrom(purse, payForCost(purse, usd, pc, ps), RoundUpDivision(usd, pc))
<1> DEFINE r == payForCost(purse, usd, pc, ps)
           need     == RoundUpDivision(usd, pc)
           fromOut  == Smaller(need, purse.out)
           fromRest == Smaller(need - fromOut, purse.rest)
           lacking  == need - fromOut - fromRest
           value    == lacking * pc
           due      == value \div ps
           fromSec  == Smaller(due, purse.sec)
           owing    == (due - fromSec) * ps
<1>1. r = [purse |-> [out |-> purse.out - fromOut, rest |-> purse.rest - fromRest,
                      sec |-> purse.sec - fromSec],
           paid |-> fromOut + fromRest, paidInOther |-> fromSec, owing |-> owing]
  BY Zenon DEF payForCost
<1> HIDE DEF r
<1>2. purse.out \in Nat /\ purse.rest \in Nat /\ purse.sec \in Nat
  BY DEF Purse
<1>3. need \in Nat
  BY RoundUpType
<1> HIDE DEF need
<1>4. fromOut \in Nat /\ fromOut <= need /\ fromOut <= purse.out
  BY <1>2, <1>3 DEF Smaller
<1> HIDE DEF fromOut
<1>5. fromRest \in Nat /\ fromRest <= need - fromOut /\ fromRest <= purse.rest
  BY <1>2, <1>3, <1>4 DEF Smaller
<1> HIDE DEF fromRest
<1>6. lacking \in Nat
  BY <1>3, <1>4, <1>5
<1> HIDE DEF lacking
<1>7. value \in Nat
  BY <1>6, TimesType
<1> HIDE DEF value
<1>8. due \in Nat
  BY <1>7, DivType
<1> HIDE DEF due
<1>9. fromSec \in Nat /\ fromSec <= due /\ fromSec <= purse.sec
  BY <1>2, <1>8 DEF Smaller
<1> HIDE DEF fromSec
<1>10. owing \in Nat
  <2>1. due - fromSec \in Nat
    BY <1>8, <1>9
  <2> QED
    BY <2>1, TimesType
<1> HIDE DEF owing
<1>11. r \in Payment
  BY <1>1, <1>2, <1>4, <1>5, <1>9, <1>10 DEF Payment, Purse
<1>12. PaidFrom(purse, r, need)
  BY <1>1, <1>2, <1>3, <1>4, <1>5, <1>9, <1>11 DEF PaidFrom
<1> QED
  BY <1>12 DEF r, need

(* So does a payment that follows another one.                              *)
LEMMA PayNextSplit ==
  ASSUME NEW before \in Payment, NEW usd \in Nat, NEW pc \in Nat, pc > 0, NEW ps \in Nat, ps > 0
  PROVE  PaidFrom(before.purse, PayNext(before, usd, pc, ps), RoundUpDivision(usd, pc))
<1> DEFINE r == PayNext(before, usd, pc, ps)
           need == RoundUpDivision(usd, pc)
<1>1. before.purse \in Purse /\ before.owing \in Nat
  BY DEF Payment
<1>2. CASE before.owing > 0
  <2>1. r = [before EXCEPT !.paid = 0, !.paidInOther = 0]
    BY <1>2 DEF PayNext
  <2>2. r = [purse |-> before.purse, paid |-> 0, paidInOther |-> 0, owing |-> before.owing]
    BY <2>1 DEF Payment
  <2>3. need \in Nat
    BY RoundUpType
  <2> HIDE DEF r, need
  <2>4. before.purse.out \in Nat /\ before.purse.rest \in Nat /\ before.purse.sec \in Nat
    BY <1>1 DEF Purse
  <2>5. r \in Payment
    BY <1>1, <2>2 DEF Payment
  <2>6. PaidFrom(before.purse, r, need)
    BY <2>2, <2>3, <2>4, <2>5 DEF PaidFrom
  <2> QED
    BY <2>6 DEF r, need
<1>3. CASE ~(before.owing > 0)
  <2>1. r = payForCost(before.purse, usd, pc, ps)
    BY <1>3 DEF PayNext
  <2> QED
    BY <1>1, <2>1, PayForCostSplit
<1> QED
  BY <1>2, <1>3

-----------------------------------------------------------------------------
(* All the payments of a decrease, and the profit it takes.                 *)

(* What the five payments of a decrease take from the purse.                *)
CostsSplit(purse, v, r) ==
  /\ r.funding \in Payment /\ r.loss \in Payment /\ r.fees \in Payment
  /\ r.impact \in Payment /\ r.diff \in Payment
  /\ r.diff.purse.out + r.diff.purse.rest + r.funding.paid + r.loss.paid + r.fees.paid
       + r.impact.paid + r.diff.paid = purse.out + purse.rest
  /\ r.diff.purse.sec + r.funding.paidInOther + r.loss.paidInOther + r.fees.paidInOther
       + r.impact.paidInOther + r.diff.paidInOther = purse.sec
  /\ r.funding.paid <= v.funding /\ r.fees.paid <= v.fees.cost

(* The payments, in the order of the code, take from the purse what they    *)
(* report.                                                                  *)
LEMMA CostsPaidSplit ==
  ASSUME NEW purse \in Purse, NEW v, v.funding \in Nat, v.pnl \in Int, v.impact \in Int,
         v.diff \in Nat, v.fees.cost \in Nat,
         NEW pc \in Nat, pc > 0, NEW ps \in Nat, ps > 0
  PROVE  CostsSplit(purse, v, CostsPaid(purse, v, pc, ps))
<1> DEFINE r         == CostsPaid(purse, v, pc, ps)
           inUsd     == v.funding * pc
           feesUsd   == v.fees.cost * pc
           lossUsd   == PositivePart(-v.pnl)
           impactUsd == PositivePart(-v.impact)
           ofFunding == payForCost(purse, inUsd, pc, ps)
           ofLoss    == PayNext(ofFunding, lossUsd, pc, ps)
           ofFees    == PayNext(ofLoss, feesUsd, pc, ps)
           ofImpact  == PayNext(ofFees, impactUsd, pc, ps)
           ofDiff    == PayNext(ofImpact, v.diff, pc, ps)
<1>1. /\ r.funding = ofFunding /\ r.loss = ofLoss /\ r.fees = ofFees /\ r.impact = ofImpact
      /\ r.diff = ofDiff
  BY DEF CostsPaid
<1>2. inUsd \in Nat /\ feesUsd \in Nat
  BY TimesType
<1>3. lossUsd \in Nat /\ impactUsd \in Nat
  BY DEF PositivePart
<1>4. RoundUpDivision(inUsd, pc) <= v.funding /\ RoundUpDivision(feesUsd, pc) <= v.fees.cost
  BY <1>2, RoundUpAtMost
<1>5. RoundUpDivision(inUsd, pc) \in Nat /\ RoundUpDivision(feesUsd, pc) \in Nat
  BY <1>2, RoundUpType
<1> HIDE DEF inUsd, feesUsd, lossUsd, impactUsd
<1>6. PaidFrom(purse, ofFunding, RoundUpDivision(inUsd, pc))
  BY <1>2, PayForCostSplit
<1> HIDE DEF ofFunding
<1>7. PaidFrom(ofFunding.purse, ofLoss, RoundUpDivision(lossUsd, pc))
  <2>1. ofFunding \in Payment /\ lossUsd \in Nat
    BY <1>3, <1>6 DEF PaidFrom
  <2> QED
    BY <2>1, PayNextSplit
<1> HIDE DEF ofLoss
<1>8. PaidFrom(ofLoss.purse, ofFees, RoundUpDivision(feesUsd, pc))
  <2>1. ofLoss \in Payment /\ feesUsd \in Nat
    BY <1>2, <1>7 DEF PaidFrom
  <2> QED
    BY <2>1, PayNextSplit
<1> HIDE DEF ofFees
<1>9. PaidFrom(ofFees.purse, ofImpact, RoundUpDivision(impactUsd, pc))
  <2>1. ofFees \in Payment /\ impactUsd \in Nat
    BY <1>3, <1>8 DEF PaidFrom
  <2> QED
    BY <2>1, PayNextSplit
<1> HIDE DEF ofImpact
<1>10. PaidFrom(ofImpact.purse, ofDiff, RoundUpDivision(v.diff, pc))
  <2>1. ofImpact \in Payment /\ v.diff \in Nat
    BY <1>9 DEF PaidFrom
  <2> QED
    BY <2>1, PayNextSplit
<1> HIDE DEF ofDiff
<1>11. ASSUME NEW q \in Payment
       PROVE  /\ q.purse.out \in Nat /\ q.purse.rest \in Nat /\ q.purse.sec \in Nat
              /\ q.paid \in Nat /\ q.paidInOther \in Nat
  BY DEF Payment, Purse
<1>12. purse.out \in Nat /\ purse.rest \in Nat /\ purse.sec \in Nat
  BY DEF Purse
<1>13. /\ ofDiff.purse.out + ofDiff.purse.rest + ofFunding.paid + ofLoss.paid + ofFees.paid
            + ofImpact.paid + ofDiff.paid = purse.out + purse.rest
       /\ ofDiff.purse.sec + ofFunding.paidInOther + ofLoss.paidInOther + ofFees.paidInOther
            + ofImpact.paidInOther + ofDiff.paidInOther = purse.sec
  BY <1>6, <1>7, <1>8, <1>9, <1>10, <1>11, <1>12 DEF PaidFrom
<1>14. ofFunding.paid <= v.funding /\ ofFees.paid <= v.fees.cost
  BY <1>4, <1>5, <1>6, <1>8, <1>11 DEF PaidFrom
<1> HIDE DEF r
<1>15. CostsSplit(purse, v, r)
  BY <1>1, <1>6, <1>7, <1>8, <1>9, <1>10, <1>13, <1>14 DEF PaidFrom, CostsSplit
<1> QED
  BY <1>15 DEF r

(* The profit that leaves the books is what the trader is given.            *)
LEMMA TakeProfitBooks ==
  ASSUME NEW mk \in Market, NEW k \in PositionKeys, NEW s \in Situations,
         NEW v, v.pnl \in Int, v.impact \in Int,
         NEW swapped \in BOOLEAN, swapped => k.collateral # PnlToken(k.isLong),
         NEW uiFeeFactor \in Nat,
         NEW r, r = TakeProfit(mk, k, s, v, swapped, uiFeeFactor), r.possible
  PROVE  /\ r.market \in Market /\ r.out \in Nat /\ r.sec \in Nat
         /\ SamePositionBooks(mk, r.market) /\ SameFactors(mk, r.market) /\ SameClaims(mk, r.market)
         /\ \A u \in Tokens :
              BookSum(r.market, u) = BookSum(mk, u) - (IF u = k.collateral THEN r.out ELSE 0)
                                       - (IF u = PnlToken(k.isLong) THEN r.sec ELSE 0)
<1> DEFINE c      == k.collateral
           t      == PnlToken(k.isLong)
           ofPnl  == PositivePart(v.pnl) \div s.token[t].max
           ofImpact == PositivePart(v.impact) \div s.token[t].max
           profit == ofPnl + ofImpact
           pool   == BoundedDecrease(mk.positionImpactPool,
                                     RoundUpDivision(PositivePart(v.impact), s.index.min))
           taken  == [mk EXCEPT !.poolAmount[t] = @ - profit, !.positionImpactPool = pool]
           swap   == MarketSwap(taken, s, t, profit, uiFeeFactor)
           fits   == profit <= mk.poolAmount[t] /\ swap.possible
           keeps  == profit <= mk.poolAmount[t]
<1>1. r = IF swapped
          THEN [market |-> swap.market, out |-> swap.out, sec |-> 0, possible |-> fits]
          ELSE [market |-> taken, out |-> IF c = t THEN profit ELSE 0, sec |-> IF c = t THEN 0 ELSE profit,
                possible |-> keeps]
  BY Zenon DEF TakeProfit
<1>2. c \in Tokens /\ t \in Tokens
  BY KeyType
<1>3. profit \in Nat
  <2>1. s.token[t].max \in Nat /\ s.token[t].max > 0
    BY <1>2, SituationType
  <2>2. PositivePart(v.pnl) \in Nat /\ PositivePart(v.impact) \in Nat
    BY DEF PositivePart
  <2>3. ofPnl \in Nat /\ ofImpact \in Nat
    BY <2>1, <2>2, DivType
  <2> HIDE DEF ofPnl, ofImpact
  <2> QED
    BY <2>3
<1> HIDE DEF ofPnl, ofImpact
<1>4. pool \in Nat
  <2>1. PositivePart(v.impact) \in Nat
    BY DEF PositivePart
  <2>2. RoundUpDivision(PositivePart(v.impact), s.index.min) \in Nat
    BY <2>1, SituationType, RoundUpType
  <2>3. mk.positionImpactPool \in Nat
    BY DEF Market
  <2> QED
    BY <2>2, <2>3 DEF BoundedDecrease
<1>5. profit <= mk.poolAmount[t] /\ (swapped => swap.possible)
  <2>1. IF swapped THEN fits ELSE keeps
    <3> HIDE DEF fits, keeps, swap, taken, profit, c, t
    <3> QED
      BY <1>1
  <2> HIDE DEF swap, taken, profit, c, t
  <2> QED
    BY <2>1
<1> HIDE DEF fits, keeps
<1> HIDE DEF profit, pool, swap, t, c
<1>6. /\ mk.poolAmount \in [Tokens -> Nat] /\ mk.claimableFee \in [Tokens -> Nat]
      /\ mk.claimableUiFee \in [Tokens -> Nat] /\ mk.affiliateReward \in [Tokens -> Nat]
      /\ mk.claimableCollateralAmount \in [Tokens -> Nat]
  BY DEF Market
<1> DEFINE left == mk.poolAmount[t] - profit
           pools == [mk.poolAmount EXCEPT ![t] = left]
<1>7. left \in Nat /\ left = mk.poolAmount[t] - profit
  BY <1>2, <1>3, <1>5, <1>6
<1>8. taken = [mk EXCEPT !.poolAmount = pools, !.positionImpactPool = pool]
  BY DEF Market
<1> HIDE DEF left, taken
<1>9. pools \in [Tokens -> Nat] /\ pools[t] = left /\ \A u \in Tokens : u # t => pools[u] = mk.poolAmount[u]
  BY <1>2, <1>6, <1>7
<1> HIDE DEF pools
<1>10. taken \in Market
  BY <1>4, <1>8, <1>9 DEF Market
<1>11. SamePositionBooks(mk, taken) /\ SameFactors(mk, taken) /\ SameClaims(mk, taken)
  BY <1>8 DEF Market, SamePositionBooks, SameFactors, SameClaims
<1>12. /\ taken.poolAmount = pools /\ taken.claimableFee = mk.claimableFee
       /\ taken.claimableUiFee = mk.claimableUiFee /\ taken.affiliateReward = mk.affiliateReward
       /\ taken.claimableCollateralAmount = mk.claimableCollateralAmount
  BY <1>8 DEF Market
<1>13. BookSum(taken, t) = BookSum(mk, t) - profit
  BY <1>2, <1>3, <1>6, <1>7, <1>9, <1>12 DEF BookSum
<1>14. \A u \in Tokens : u # t => BookSum(taken, u) = BookSum(mk, u)
  BY <1>9, <1>12 DEF BookSum
<1>15. \A u \in Tokens : BookSum(mk, u) \in Int
  BY <1>6 DEF BookSum
<1>16. CASE ~swapped
  <2>1. /\ r.market = taken /\ r.out = (IF c = t THEN profit ELSE 0)
        /\ r.sec = (IF c = t THEN 0 ELSE profit)
    BY <1>1, <1>16
  <2>2. r.out \in Nat /\ r.sec \in Nat
    BY <1>3, <2>1
  <2>3. \A u \in Tokens : BookSum(taken, u) = BookSum(mk, u) - (IF u = c THEN r.out ELSE 0)
                                                - (IF u = t THEN r.sec ELSE 0)
    BY <1>2, <1>3, <1>13, <1>14, <1>15, <2>1
  <2> QED
    BY <1>10, <1>11, <2>1, <2>2, <2>3 DEF c, t
<1>17. CASE swapped
  <2>1. r.market = swap.market /\ r.out = swap.out /\ r.sec = 0
    BY <1>1, <1>17
  <2>9. swap.possible
    BY <1>5, <1>17
  <2>2. c = OtherToken(t) /\ c # t
    BY <1>2, <1>17, TokensPair DEF OtherToken, c, t
  <2>3. /\ swap.market \in Market /\ swap.out \in Nat
        /\ SamePositionBooks(taken, swap.market) /\ SameFactors(taken, swap.market)
        /\ SameClaims(taken, swap.market)
        /\ BookSum(swap.market, t) = BookSum(taken, t) + profit
        /\ BookSum(swap.market, OtherToken(t)) = BookSum(taken, OtherToken(t)) - swap.out
    <3>1. swap = MarketSwap(taken, s, t, profit, uiFeeFactor)
      BY DEF swap
    <3> QED
      BY <1>2, <1>3, <1>10, <2>9, <3>1, MarketSwapBooks
  <2>4. SamePositionBooks(mk, swap.market) /\ SameFactors(mk, swap.market) /\ SameClaims(mk, swap.market)
    BY <1>11, <2>3 DEF SamePositionBooks, SameFactors, SameClaims
  <2>5. \A u \in Tokens : u = c \/ u = t
    BY <2>2, <1>2, TokensPair
  <2>6. BookSum(swap.market, t) = BookSum(mk, t)
    BY <1>2, <1>3, <1>13, <1>15, <2>3
  <2>7. BookSum(swap.market, c) = BookSum(mk, c) - swap.out
    BY <1>2, <1>14, <2>2, <2>3
  <2>8. \A u \in Tokens : BookSum(swap.market, u) = BookSum(mk, u) - (IF u = c THEN r.out ELSE 0)
                                                     - (IF u = t THEN r.sec ELSE 0)
    BY <1>2, <1>15, <2>1, <2>2, <2>3, <2>5, <2>6, <2>7
  <2> QED
    BY <2>1, <2>3, <2>4, <2>8 DEF c, t
<1> QED
  BY <1>16, <1>17

-----------------------------------------------------------------------------
(* Collateral that is set aside, and its owners.                            *)

(* What each owner has still to claim of the tokens t set aside.            *)
OwnersLeft(mk, t) == [o \in Owners |-> mk.claimableCollateral[t][o] - mk.claimedCollateral[t][o]]

(* What of the collateral that was set aside is still to be claimed is what *)
(* its owners have not claimed.                                             *)
ClaimsMatch(mk) ==
  \A t \in Tokens :
    /\ \A o \in Owners : mk.claimedCollateral[t][o] <= mk.claimableCollateral[t][o]
    /\ Total(OwnersLeft(mk, t)) = mk.claimableCollateralAmount[t]

(* There are finitely many owners, and the holding address is one.          *)
LEMMA OwnersFinite == IsFiniteSet(Owners) /\ HoldingAddress \in Owners
BY PositionsAssumption, FS_AddElement DEF Owners

(* g is f with n more at a and m more at b.                                 *)
GrowsAt(S, f, g, a, n, b, m) ==
  \A j \in S : g[j] = f[j] + (IF j = a THEN n ELSE 0) + (IF j = b THEN m ELSE 0)

(* Its total is greater by both.                                            *)
LEMMA TotalGrowsTwice ==
  ASSUME NEW S, IsFiniteSet(S), NEW f \in [S -> Nat], NEW g \in [S -> Nat],
         NEW a \in S, NEW b \in S, a # b, NEW n \in Nat, NEW m \in Nat,
         GrowsAt(S, f, g, a, n, b, m)
  PROVE  Total(g) = Total(f) + n + m
<1>0. \A j \in S : g[j] = f[j] + (IF j = a THEN n ELSE 0) + (IF j = b THEN m ELSE 0)
  BY DEF GrowsAt
<1> DEFINE h == [f EXCEPT ![a] = @ + n]
<1>1. h \in [S -> Nat] /\ h[a] = f[a] + n /\ \A j \in S \ {a} : h[j] = f[j]
  OBVIOUS
<1> HIDE DEF h
<1>2. Total(h) = Total(f) - f[a] + h[a]
  BY <1>1, TotalUpdate
<1>3. \A j \in S \ {b} : g[j] = h[j]
  BY <1>0, <1>1
<1>4. Total(g) = Total(h) - h[b] + g[b]
  BY <1>1, <1>3, TotalUpdate
<1>5. g[b] = h[b] + m
  BY <1>0, <1>1
<1>6. Total(f) \in Nat /\ Total(g) \in Nat /\ Total(h) \in Nat
  BY <1>1, UnitsFinite
<1>7. f[a] \in Nat /\ h[a] \in Nat /\ h[b] \in Nat /\ g[b] \in Nat
  BY <1>1
<1> QED
  BY <1>1, <1>2, <1>4, <1>5, <1>6, <1>7

(* Adding amounts token by token.                                           *)
LEMMA PlusType ==
  ASSUME NEW f \in [Tokens -> Nat], NEW g \in [Tokens -> Nat]
  PROVE  Plus(f, g) \in [Tokens -> Nat] /\ \A t \in Tokens : Plus(f, g)[t] = f[t] + g[t]
BY DEF Plus

(* n tokens t and none of another.                                          *)
LEMMA OfType ==
  ASSUME NEW t, NEW n \in Nat
  PROVE  Of(t, n) \in [Tokens -> Nat] /\ \A u \in Tokens : Of(t, n)[u] = IF u = t THEN n ELSE 0
BY DEF Of

(* Collateral that is set aside for a trader or for the holding address is  *)
(* set aside once.                                                          *)
SetAsideIn(mk, mk2, a, claim, held) ==
  /\ mk2.claimedCollateral = mk.claimedCollateral
  /\ mk2.claimableCollateral = [t \in Tokens |-> [o \in Owners |->
        mk.claimableCollateral[t][o] + (IF o = a THEN claim[t] ELSE 0)
                                     + (IF o = HoldingAddress THEN held[t] ELSE 0)]]
  /\ \A t \in Tokens : mk2.claimableCollateralAmount[t]
                          = mk.claimableCollateralAmount[t] + claim[t] + held[t]

(* Setting collateral aside keeps what is to be claimed equal to what its   *)
(* owners have not claimed.                                                 *)
LEMMA SetAside ==
  ASSUME NEW mk \in Market, ClaimsMatch(mk), NEW a \in Accounts,
         NEW claim \in [Tokens -> Nat], NEW held \in [Tokens -> Nat],
         NEW mk2, SetAsideIn(mk, mk2, a, claim, held)
  PROVE  mk2.claimableCollateral \in [Tokens -> [Owners -> Nat]] /\ ClaimsMatch(mk2)
<1>1. a \in Owners /\ HoldingAddress \in Owners /\ a # HoldingAddress /\ IsFiniteSet(Owners)
  BY PositionsAssumption, OwnersFinite DEF Owners
<1>2. \A t \in Tokens : /\ mk.claimableCollateral[t] \in [Owners -> Nat]
                        /\ mk.claimedCollateral[t] \in [Owners -> Nat]
  BY DEF Market
<1>3. ASSUME NEW t \in Tokens, NEW o \in Owners
      PROVE  /\ mk2.claimableCollateral[t][o] =
                  mk.claimableCollateral[t][o] + (IF o = a THEN claim[t] ELSE 0)
                                               + (IF o = HoldingAddress THEN held[t] ELSE 0)
             /\ mk2.claimableCollateral[t][o] \in Nat
  BY <1>2 DEF SetAsideIn
<1>4. mk2.claimableCollateral \in [Tokens -> [Owners -> Nat]]
  <2>1. mk2.claimableCollateral = [t \in Tokens |-> [o \in Owners |-> mk2.claimableCollateral[t][o]]]
    BY DEF SetAsideIn
  <2> QED
    BY <1>3, <2>1
<1>5. ASSUME NEW t \in Tokens
      PROVE  /\ \A o \in Owners : mk2.claimedCollateral[t][o] <= mk2.claimableCollateral[t][o]
             /\ Total(OwnersLeft(mk2, t)) = mk2.claimableCollateralAmount[t]
  <2> DEFINE f == OwnersLeft(mk, t)
             g == OwnersLeft(mk2, t)
             n == claim[t]
             m == held[t]
  <2>1. \A o \in Owners : mk.claimedCollateral[t][o] <= mk.claimableCollateral[t][o]
    BY DEF ClaimsMatch
  <2>2. \A o \in Owners : mk.claimedCollateral[t][o] \in Nat /\ mk.claimableCollateral[t][o] \in Nat
    BY <1>2
  <2>3. \A o \in Owners : mk2.claimedCollateral[t][o] = mk.claimedCollateral[t][o]
    BY DEF SetAsideIn
  <2>4. claim[t] \in Nat /\ held[t] \in Nat
    OBVIOUS
  <2>5. \A o \in Owners : mk2.claimedCollateral[t][o] <= mk2.claimableCollateral[t][o]
    BY <1>3, <2>1, <2>2, <2>3, <2>4
  <2>6. /\ f = [o \in Owners |-> mk.claimableCollateral[t][o] - mk.claimedCollateral[t][o]]
        /\ g = [o \in Owners |-> mk2.claimableCollateral[t][o] - mk2.claimedCollateral[t][o]]
    BY DEF OwnersLeft
  <2> HIDE DEF f, g
  <2>7. f \in [Owners -> Nat]
    BY <2>1, <2>2, <2>6
  <2>8. \A o \in Owners : g[o] = f[o] + (IF o = a THEN claim[t] ELSE 0)
                                      + (IF o = HoldingAddress THEN held[t] ELSE 0)
    BY <1>3, <2>2, <2>3, <2>4, <2>6
  <2>9. g \in [Owners -> Nat]
    BY <2>4, <2>6, <2>7, <2>8
  <2>10. Total(g) = Total(f) + n + m
    <3>1. n \in Nat /\ m \in Nat
      BY <2>4
    <3>2. GrowsAt(Owners, f, g, a, n, HoldingAddress, m)
      BY <2>8 DEF GrowsAt
    <3>3. f \in [Owners -> Nat] /\ g \in [Owners -> Nat]
      BY <2>7, <2>9
    <3>4. a \in Owners /\ HoldingAddress \in Owners
      BY <1>1
    <3>5. a # HoldingAddress /\ IsFiniteSet(Owners)
      BY <1>1
    <3> HIDE DEF n, m
    <3> QED
      BY <3>1, <3>2, <3>3, <3>4, <3>5, TotalGrowsTwice
  <2>11. Total(f) = mk.claimableCollateralAmount[t]
    BY DEF ClaimsMatch, f
  <2> QED
    BY <2>5, <2>10, <2>11 DEF g, SetAsideIn
<1>6. ClaimsMatch(mk2)
  BY <1>5 DEF ClaimsMatch
<1> QED
  BY <1>4, <1>6

-----------------------------------------------------------------------------
(* The costs of a decrease are in the books, paid out, or in a history.     *)

(* What a decrease realizes has its type.                                   *)
RealizedType(v) ==
  /\ v.tokens \in Nat /\ v.pnl \in Int /\ v.impact \in Int /\ v.diff \in Nat /\ v.funding \in Nat
  /\ FeesSplit(v.fees)

(* What the books gain is what was in the purse and is not paid out, or is  *)
(* recorded in a history.                                                   *)
CollateralProcessed(mk, k, purse, r) ==
  /\ r.market \in Market /\ ClaimsMatch(r.market)
  /\ SamePositionBooks(mk, r.market) /\ SameFactors(mk, r.market)
  /\ r.rest \in Nat /\ r.out \in Nat /\ r.sec \in Nat
  /\ r.funding \in Nat /\ r.unpaid \in Nat /\ r.stranded \in Nat /\ r.uncovered \in Nat
  /\ \A u \in Tokens :
       BookSum(r.market, u) =
         BookSum(mk, u) + (IF u = k.collateral
                           THEN purse.out + purse.rest + r.uncovered
                                  - r.out - r.rest - r.funding - r.stranded
                           ELSE 0)
                        + (IF u = PnlToken(k.isLong) THEN purse.sec - r.sec ELSE 0)

(* Processing the collateral loses no token: what is not paid out is in a   *)
(* book or a history; and the funding fee is paid or left unpaid.           *)
LEMMA ProcessCollateralBooks ==
  ASSUME NEW mk \in Market, ClaimsMatch(mk), NEW k \in PositionKeys, NEW s \in Situations,
         NEW x \in Nat, NEW v, RealizedType(v), v.fees.pool >= 0,
         NEW purse \in Purse, NEW paid, CostsSplit(purse, v, paid)
  PROVE  /\ CollateralProcessed(mk, k, purse, ProcessCollateral(mk, k, s, x, v, paid))
         /\ ProcessCollateral(mk, k, s, x, v, paid).funding
              + ProcessCollateral(mk, k, s, x, v, paid).unpaid = v.funding
<1> DEFINE c     == k.collateral
           other == PnlToken(k.isLong)
           pc    == s.token[c].min
           po    == s.token[other].min
           complete == paid.diff.owing = 0
           inFull   == paid.fees.owing = 0 /\ paid.fees.paidInOther = 0
           receiver == IF inFull THEN v.fees.receiver ELSE 0
           ui       == IF inFull THEN v.fees.ui ELSE 0
           reward   == IF inFull THEN v.fees.affiliate ELSE 0
           entered  == IF complete THEN reward ELSE 0
           lost     == IF complete THEN 0 ELSE reward
           uncov    == IF inFull THEN v.fees.cost - paid.fees.paid ELSE 0
           toPool   == paid.loss.paid + paid.impact.paid + (IF inFull THEN v.fees.pool ELSE paid.fees.paid)
           otherToPool == paid.loss.paidInOther + paid.fees.paidInOther + paid.impact.paidInOther
           wanted   == IF v.diff > 0 THEN PositivePart(x - v.diff \div pc) ELSE x
           rest     == paid.diff.purse.rest
           taken    == IF complete THEN Smaller(wanted, rest) ELSE 0
           claim    == Plus(Of(c, paid.diff.paid), Of(other, paid.diff.paidInOther))
           held     == Of(other, paid.funding.paidInOther)
           impactPool == mk.positionImpactPool + ((paid.impact.paid * pc) \div s.index.max)
                           + ((paid.impact.paidInOther * po) \div s.index.max)
           owners   == [t \in Tokens |->
                          [o \in Owners |-> mk.claimableCollateral[t][o]
                                              + (IF o = k.account THEN claim[t] ELSE 0)
                                              + (IF o = HoldingAddress THEN held[t] ELSE 0)]]
           pools    == Plus(mk.poolAmount, Plus(Of(c, toPool), Of(other, otherToPool)))
           fees     == [mk.claimableFee EXCEPT ![c] = @ + receiver]
           uis      == [mk.claimableUiFee EXCEPT ![c] = @ + ui]
           rewards  == [mk.affiliateReward EXCEPT ![c] = @ + entered]
           amounts  == Plus(mk.claimableCollateralAmount, Plus(claim, held))
           mk2 == [mk EXCEPT !.poolAmount = pools, !.claimableFee = fees, !.claimableUiFee = uis,
                             !.affiliateReward = rewards, !.positionImpactPool = impactPool,
                             !.claimableCollateral = owners, !.claimableCollateralAmount = amounts]
           r == ProcessCollateral(mk, k, s, x, v, paid)
<1>1. /\ r.market = mk2 /\ r.rest = rest - taken /\ r.out = paid.diff.purse.out + taken
      /\ r.sec = paid.diff.purse.sec /\ r.funding = paid.funding.paid
      /\ r.unpaid = v.funding - paid.funding.paid
      /\ r.stranded = lost /\ r.uncovered = uncov
  BY DEF ProcessCollateral
<1> HIDE DEF r
<1>2. c \in Tokens /\ other \in Tokens /\ k.account \in Accounts
  BY KeyType
<1>3. /\ v.diff \in Nat /\ v.funding \in Nat
      /\ v.fees.pool \in Nat /\ v.fees.receiver \in Nat /\ v.fees.ui \in Nat /\ v.fees.affiliate \in Nat
      /\ v.fees.cost = v.fees.pool + v.fees.receiver + v.fees.ui + v.fees.affiliate
  BY DEF RealizedType, FeesSplit
<1>4. /\ pc \in Nat /\ pc > 0 /\ po \in Nat /\ s.index.max \in Nat /\ s.index.max > 0
  BY <1>2, SituationType
<1>5. /\ purse.out \in Nat /\ purse.rest \in Nat /\ purse.sec \in Nat
  BY DEF Purse
<1>6. /\ paid.funding.paid \in Nat /\ paid.funding.paidInOther \in Nat
      /\ paid.loss.paid \in Nat /\ paid.loss.paidInOther \in Nat
      /\ paid.fees.paid \in Nat /\ paid.fees.paidInOther \in Nat
      /\ paid.impact.paid \in Nat /\ paid.impact.paidInOther \in Nat
      /\ paid.diff.paid \in Nat /\ paid.diff.paidInOther \in Nat
      /\ paid.diff.purse.out \in Nat /\ rest \in Nat /\ paid.diff.purse.sec \in Nat
  BY DEF CostsSplit, Payment, Purse
<1>7. /\ paid.diff.purse.out + rest + paid.funding.paid + paid.loss.paid + paid.fees.paid
            + paid.impact.paid + paid.diff.paid = purse.out + purse.rest
      /\ paid.diff.purse.sec + paid.funding.paidInOther + paid.loss.paidInOther + paid.fees.paidInOther
            + paid.impact.paidInOther + paid.diff.paidInOther = purse.sec
      /\ paid.funding.paid <= v.funding /\ paid.fees.paid <= v.fees.cost
  BY DEF CostsSplit
<1>8. wanted \in Nat
  <2>1. v.diff \div pc \in Nat
    BY <1>3, <1>4, DivType
  <2> DEFINE q == v.diff \div pc
  <2> HIDE DEF q, pc
  <2>2. PositivePart(x - q) \in Nat
    BY <2>1 DEF PositivePart, q
  <2> QED
    BY <2>2 DEF q
<1>9. impactPool \in Nat
  <2>1. paid.impact.paid * pc \in Nat /\ paid.impact.paidInOther * po \in Nat
    BY <1>4, <1>6, TimesType
  <2>2. /\ (paid.impact.paid * pc) \div s.index.max \in Nat
        /\ (paid.impact.paidInOther * po) \div s.index.max \in Nat
    BY <1>4, <2>1, DivType
  <2>3. mk.positionImpactPool \in Nat
    BY DEF Market
  <2> DEFINE a == (paid.impact.paid * pc) \div s.index.max
             b == (paid.impact.paidInOther * po) \div s.index.max
  <2>4. a \in Nat /\ b \in Nat
    BY <2>2
  <2>5. impactPool = mk.positionImpactPool + a + b
    OBVIOUS
  <2> HIDE DEF a, b, impactPool
  <2> QED
    BY <2>3, <2>4, <2>5
<1> HIDE DEF c, other, pc, po, wanted, rest, impactPool
<1>10. taken \in Nat /\ taken <= rest
  BY <1>6, <1>8 DEF Smaller
<1> HIDE DEF taken
<1>11. /\ receiver \in Nat /\ ui \in Nat /\ reward \in Nat /\ entered \in Nat /\ lost \in Nat
       /\ reward = entered + lost
  BY <1>3
<1>12. toPool \in Nat /\ otherToPool \in Nat /\ uncov \in Nat
  BY <1>3, <1>6, <1>7
(* What is credited in each token, and what is recorded as not credited.    *)
<1>13. toPool + receiver + ui + entered + paid.diff.paid + lost
         = paid.loss.paid + paid.fees.paid + paid.impact.paid + paid.diff.paid + uncov
  <2>1. CASE inFull
    BY <1>3, <1>6, <2>1
  <2>2. CASE ~inFull
    BY <1>6, <2>2
  <2> QED
    BY <2>1, <2>2
<1> HIDE DEF receiver, ui, reward, entered, lost, uncov, toPool, otherToPool, complete, inFull
<1> DEFINE gain == toPool + receiver + ui + entered + paid.diff.paid
           otherGain == otherToPool + paid.diff.paidInOther + paid.funding.paidInOther
<1>14. /\ gain = purse.out + purse.rest + r.uncovered - r.out - r.rest - r.funding - r.stranded
       /\ otherGain = purse.sec - r.sec
  <2>1. gain + lost = paid.loss.paid + paid.fees.paid + paid.impact.paid + paid.diff.paid + uncov
        /\ gain \in Nat
    BY <1>6, <1>11, <1>12, <1>13
  <2>2. otherGain = paid.loss.paidInOther + paid.fees.paidInOther + paid.impact.paidInOther
                      + paid.diff.paidInOther + paid.funding.paidInOther
    BY <1>6 DEF otherToPool
  <2> HIDE DEF gain, otherGain, mk2
  <2>3. gain = purse.out + purse.rest + r.uncovered - r.out - r.rest - r.funding - r.stranded
    <3>1. /\ r.uncovered = uncov /\ r.stranded = lost /\ r.funding = paid.funding.paid
          /\ r.out = paid.diff.purse.out + taken /\ r.rest = rest - taken
      BY <1>1
    <3>2. gain = purse.out + purse.rest + uncov - (paid.diff.purse.out + taken) - (rest - taken)
                   - paid.funding.paid - lost
      BY <1>5, <1>6, <1>7, <1>10, <1>11, <1>12, <2>1
    <3> QED
      BY <3>1, <3>2
  <2>4. otherGain = purse.sec - r.sec
    BY <1>1, <1>5, <1>6, <1>7, <2>2
  <2> QED
    BY <2>3, <2>4
<1>15. /\ r.rest \in Nat /\ r.out \in Nat /\ r.sec \in Nat
       /\ r.funding \in Nat /\ r.unpaid \in Nat /\ r.stranded \in Nat /\ r.uncovered \in Nat
  <2> HIDE DEF mk2
  <2> QED
    BY <1>1, <1>3, <1>6, <1>7, <1>10, <1>11, <1>12
<1>16. /\ mk.poolAmount \in [Tokens -> Nat] /\ mk.claimableFee \in [Tokens -> Nat]
       /\ mk.claimableUiFee \in [Tokens -> Nat] /\ mk.affiliateReward \in [Tokens -> Nat]
       /\ mk.claimableCollateralAmount \in [Tokens -> Nat]
  BY DEF Market
<1>17. /\ claim \in [Tokens -> Nat] /\ held \in [Tokens -> Nat]
       /\ \A u \in Tokens : /\ claim[u] = (IF u = c THEN paid.diff.paid ELSE 0)
                                            + (IF u = other THEN paid.diff.paidInOther ELSE 0)
                            /\ held[u] = IF u = other THEN paid.funding.paidInOther ELSE 0
  BY <1>6, PlusType, OfType
<1> HIDE DEF claim, held
<1>18. /\ pools \in [Tokens -> Nat] /\ fees \in [Tokens -> Nat] /\ uis \in [Tokens -> Nat]
       /\ rewards \in [Tokens -> Nat] /\ amounts \in [Tokens -> Nat]
       /\ \A u \in Tokens :
            /\ pools[u] = mk.poolAmount[u] + (IF u = c THEN toPool ELSE 0)
                                           + (IF u = other THEN otherToPool ELSE 0)
            /\ fees[u] = mk.claimableFee[u] + (IF u = c THEN receiver ELSE 0)
            /\ uis[u] = mk.claimableUiFee[u] + (IF u = c THEN ui ELSE 0)
            /\ rewards[u] = mk.affiliateReward[u] + (IF u = c THEN entered ELSE 0)
            /\ amounts[u] = mk.claimableCollateralAmount[u] + claim[u] + held[u]
  <2>1. /\ pools \in [Tokens -> Nat]
        /\ \A u \in Tokens : pools[u] = mk.poolAmount[u] + (IF u = c THEN toPool ELSE 0)
                                           + (IF u = other THEN otherToPool ELSE 0)
    BY <1>12, <1>16, PlusType, OfType
  <2>2. /\ amounts \in [Tokens -> Nat]
        /\ \A u \in Tokens : amounts[u] = mk.claimableCollateralAmount[u] + claim[u] + held[u]
    BY <1>16, <1>17, PlusType
  <2>3. /\ fees \in [Tokens -> Nat] /\ uis \in [Tokens -> Nat] /\ rewards \in [Tokens -> Nat]
        /\ \A u \in Tokens :
            /\ fees[u] = mk.claimableFee[u] + (IF u = c THEN receiver ELSE 0)
            /\ uis[u] = mk.claimableUiFee[u] + (IF u = c THEN ui ELSE 0)
            /\ rewards[u] = mk.affiliateReward[u] + (IF u = c THEN entered ELSE 0)
    BY <1>2, <1>11, <1>16
  <2> QED
    BY <2>1, <2>2, <2>3
<1> HIDE DEF pools, fees, uis, rewards, amounts
<1>19. /\ mk2.poolAmount = pools /\ mk2.claimableFee = fees /\ mk2.claimableUiFee = uis
       /\ mk2.affiliateReward = rewards /\ mk2.claimableCollateralAmount = amounts
       /\ mk2.claimableCollateral = owners /\ mk2.claimedCollateral = mk.claimedCollateral
  BY DEF Market
<1>20. SetAsideIn(mk, mk2, k.account, claim, held)
  BY <1>18, <1>19 DEF SetAsideIn
<1>21. mk2.claimableCollateral \in [Tokens -> [Owners -> Nat]] /\ ClaimsMatch(mk2)
  BY <1>2, <1>17, <1>20, SetAside
<1>22. owners \in [Tokens -> [Owners -> Nat]]
  BY <1>19, <1>21
<1> HIDE DEF owners
<1>23. mk2 \in Market
  BY <1>9, <1>18, <1>22 DEF Market
<1>24. SamePositionBooks(mk, mk2) /\ SameFactors(mk, mk2)
  BY DEF Market, SamePositionBooks, SameFactors
<1> HIDE DEF mk2
<1>25. \A u \in Tokens : BookSum(mk2, u) = BookSum(mk, u) + (IF u = c THEN gain ELSE 0)
                                            + (IF u = other THEN otherGain ELSE 0)
  <2> TAKE u \in Tokens
  <2>1. /\ mk.poolAmount[u] \in Nat /\ mk.claimableFee[u] \in Nat /\ mk.claimableUiFee[u] \in Nat
        /\ mk.affiliateReward[u] \in Nat /\ mk.claimableCollateralAmount[u] \in Nat
    BY <1>16
  <2>2. BookSum(mk2, u) = pools[u] + fees[u] + uis[u] + rewards[u] + amounts[u]
    BY <1>19 DEF BookSum
  <2>3. BookSum(mk, u) = mk.poolAmount[u] + mk.claimableFee[u] + mk.claimableUiFee[u] + mk.affiliateReward[u]
                           + mk.claimableCollateralAmount[u]
    BY DEF BookSum
  <2>4. /\ pools[u] = mk.poolAmount[u] + (IF u = c THEN toPool ELSE 0)
                                       + (IF u = other THEN otherToPool ELSE 0)
        /\ fees[u] = mk.claimableFee[u] + (IF u = c THEN receiver ELSE 0)
        /\ uis[u] = mk.claimableUiFee[u] + (IF u = c THEN ui ELSE 0)
        /\ rewards[u] = mk.affiliateReward[u] + (IF u = c THEN entered ELSE 0)
    BY <1>18
  <2>5. amounts[u] = mk.claimableCollateralAmount[u]
                       + (IF u = c THEN paid.diff.paid ELSE 0)
                       + (IF u = other THEN paid.diff.paidInOther ELSE 0)
                       + (IF u = other THEN paid.funding.paidInOther ELSE 0)
    BY <1>6, <1>17, <1>18, <2>1
  <2> DEFINE a == mk.poolAmount[u]
             b == mk.claimableFee[u]
             d == mk.claimableUiFee[u]
             e == mk.affiliateReward[u]
             f == mk.claimableCollateralAmount[u]
  <2>6. a \in Nat /\ b \in Nat /\ d \in Nat /\ e \in Nat /\ f \in Nat
    BY <2>1
  <2> HIDE DEF a, b, d, e, f
  <2>7. BookSum(mk2, u) = a + b + d + e + f + (IF u = c THEN gain ELSE 0) + (IF u = other THEN otherGain ELSE 0)
    BY <1>6, <1>11, <1>12, <2>2, <2>4, <2>5, <2>6 DEF a, b, d, e, f
  <2> QED
    BY <2>3, <2>7 DEF a, b, d, e, f
<1> HIDE DEF gain, otherGain
<1>26. CollateralProcessed(mk, k, purse, r)
  <2>1. \A u \in Tokens :
          BookSum(r.market, u) =
            BookSum(mk, u) + (IF u = c THEN purse.out + purse.rest + r.uncovered
                                              - r.out - r.rest - r.funding - r.stranded ELSE 0)
                           + (IF u = other THEN purse.sec - r.sec ELSE 0)
    BY <1>1, <1>14, <1>25
  <2> QED
    BY <1>1, <1>15, <1>21, <1>23, <1>24, <2>1 DEF CollateralProcessed, c, other
<1>27. r.funding + r.unpaid = v.funding
  <2> HIDE DEF mk2
  <2>1. r.funding = paid.funding.paid /\ r.unpaid = v.funding - paid.funding.paid
    BY <1>1
  <2> QED
    BY <1>3, <1>6, <2>1
<1> QED
  BY <1>26, <1>27 DEF r

-----------------------------------------------------------------------------
(* The positions and the aggregates the market keeps of them.               *)

(* The positions on one side with one collateral, and all the positions of  *)
(* a side.                                                                  *)
KeysOf(x) == {k \in PositionKeys : Side(k) = x}
KeysOn(b) == {k \in PositionKeys : k.isLong = b}

(* What each of them contributes to an aggregate.                           *)
Sizes(pos, x) == [k \in KeysOf(x) |-> pos[k].sizeInUsd]
SizesInTokens(pos, x) == [k \in KeysOf(x) |-> pos[k].sizeInTokens]
Collaterals(pos, x) == [k \in KeysOf(x) |-> pos[k].collateralAmount]
Borrowings(pos, b) == [k \in KeysOn(b) |-> ApplyFactor(pos[k].sizeInUsd, pos[k].borrowingFactor)]

(* The open interest in tokens and the collateral are the sums over the     *)
(* positions; the open interest in usd and the total borrowing are no less. *)
BooksCover(pos, mk) ==
  /\ \A x \in Sides : /\ Total(Sizes(pos, x)) <= mk.openInterest[x]
                      /\ Total(SizesInTokens(pos, x)) = mk.openInterestInTokens[x]
                      /\ Total(Collaterals(pos, x)) = mk.collateralSum[x]
  /\ \A b \in BOOLEAN : Total(Borrowings(pos, b)) <= mk.totalBorrowing[b]

(* The open interest in usd and the total borrowing of longs, or of shorts, *)
(* are the sums over their positions too.                                   *)
ExactOn(pos, mk, b) ==
  /\ \A t \in Tokens : Total(Sizes(pos, <<t, b>>)) = mk.openInterest[<<t, b>>]
  /\ Total(Borrowings(pos, b)) = mk.totalBorrowing[b]

(* No position is ahead of the market's cumulative factors, and one with a  *)
(* size in usd has a size in tokens.                                        *)
Behind(p, k, mk) ==
  /\ p.borrowingFactor <= mk.cumulativeBorrowingFactor[k.isLong]
  /\ p.fundingFeeAmountPerSize <= mk.fundingFeeAmountPerSize[Side(k)]
  /\ \A t \in Tokens :
       p.claimableFundingAmountPerSize[t] <= mk.claimableFundingAmountPerSize[<<t, k.isLong>>]

PositionsBehind(pos, mk) ==
  \A k \in PositionKeys : Behind(pos[k], k, mk) /\ (pos[k].sizeInUsd > 0 => pos[k].sizeInTokens > 0)

(* There are finitely many of them.                                         *)
LEMMA KeysFinite ==
  /\ \A x \in Sides : KeysOf(x) \subseteq PositionKeys /\ IsFiniteSet(KeysOf(x))
  /\ \A b \in BOOLEAN : KeysOn(b) \subseteq PositionKeys /\ IsFiniteSet(KeysOn(b))
<1>1. \A x \in Sides : KeysOf(x) \subseteq PositionKeys
  BY DEF KeysOf
<1>2. \A b \in BOOLEAN : KeysOn(b) \subseteq PositionKeys
  BY DEF KeysOn
<1>3. IsFiniteSet(PositionKeys)
  BY PositionsAssumption
<1> QED
  BY <1>1, <1>2, <1>3, FS_Subset

(* The fields of a position are amounts.                                    *)
LEMMA PositionType ==
  ASSUME NEW p \in Position
  PROVE  /\ p.sizeInUsd \in Nat /\ p.sizeInTokens \in Nat /\ p.collateralAmount \in Nat
         /\ p.borrowingFactor \in Nat /\ p.fundingFeeAmountPerSize \in Nat
         /\ \A t \in Tokens : p.claimableFundingAmountPerSize[t] \in Nat
         /\ ApplyFactor(p.sizeInUsd, p.borrowingFactor) \in Nat
BY FactorType DEF Position

(* So are the contributions.                                                *)
LEMMA SumsType ==
  ASSUME NEW pos \in [PositionKeys -> Position]
  PROVE  /\ \A x \in Sides : /\ Sizes(pos, x) \in [KeysOf(x) -> Nat]
                             /\ SizesInTokens(pos, x) \in [KeysOf(x) -> Nat]
                             /\ Collaterals(pos, x) \in [KeysOf(x) -> Nat]
         /\ \A b \in BOOLEAN : Borrowings(pos, b) \in [KeysOn(b) -> Nat]
<1>1. \A k \in PositionKeys :
        /\ pos[k].sizeInUsd \in Nat /\ pos[k].sizeInTokens \in Nat /\ pos[k].collateralAmount \in Nat
        /\ ApplyFactor(pos[k].sizeInUsd, pos[k].borrowingFactor) \in Nat
  BY PositionType
<1> QED
  BY <1>1, KeysFinite DEF Sizes, SizesInTokens, Collaterals, Borrowings

(* A summand is not above the total.                                        *)
LEMMA TotalAtLeast ==
  ASSUME NEW S, IsFiniteSet(S), NEW f \in [S -> Nat], NEW k \in S
  PROVE  f[k] <= Total(f)
<1> DEFINE g == [f EXCEPT ![k] = 0]
<1>1. g \in [S -> Nat] /\ g[k] = 0 /\ \A j \in S \ {k} : g[j] = f[j]
  OBVIOUS
<1> HIDE DEF g
<1>2. Total(g) = Total(f) - f[k] + g[k]
  BY <1>1, TotalUpdate
<1>3. Total(g) \in Nat /\ Total(f) \in Nat /\ f[k] \in Nat
  BY <1>1, UnitsFinite
<1> QED
  BY <1>1, <1>2, <1>3

(* g is f with another value at k, if k is there.                           *)
ChangedAt(S, f, g, k) == \A j \in S \ {k} : g[j] = f[j]

(* A book that covers a total still does when a summand and the book have   *)
(* moved alike.                                                             *)
LEMMA CoverMoves ==
  ASSUME NEW S, IsFiniteSet(S), NEW f \in [S -> Nat], NEW g \in [S -> Nat], NEW k \in S,
         ChangedAt(S, f, g, k), NEW book \in Nat, Total(f) <= book, NEW n \in Nat
  PROVE  /\ book + n - f[k] \in Nat
         /\ g[k] <= n => Total(g) <= book + n - f[k]
         /\ g[k] = n /\ Total(f) = book => Total(g) = book + n - f[k]
<1>1. Total(g) = Total(f) - f[k] + g[k]
  BY TotalUpdate DEF ChangedAt
<1>2. f[k] <= Total(f)
  BY TotalAtLeast
<1>3. Total(f) \in Nat /\ Total(g) \in Nat /\ f[k] \in Nat /\ g[k] \in Nat
  BY UnitsFinite
<1> QED
  BY <1>1, <1>2, <1>3

(* A total to which the position does not contribute stays.                 *)
LEMMA CoverStays ==
  ASSUME NEW S, NEW f \in [S -> Nat], NEW g \in [S -> Nat], NEW k, k \notin S, ChangedAt(S, f, g, k)
  PROVE  Total(g) = Total(f)
<1>1. g = f
  BY DEF ChangedAt
<1> QED
  BY <1>1

(* The aggregates and the cumulative factors are amounts.                   *)
LEMMA AggregatesType ==
  ASSUME NEW mk \in Market
  PROVE  /\ \A x \in Sides : /\ mk.openInterest[x] \in Nat /\ mk.openInterestInTokens[x] \in Nat
                             /\ mk.collateralSum[x] \in Nat
         /\ \A b \in BOOLEAN : mk.totalBorrowing[b] \in Nat /\ mk.cumulativeBorrowingFactor[b] \in Nat
         /\ \A x \in Sides : /\ mk.fundingFeeAmountPerSize[x] \in Nat
                             /\ mk.claimableFundingAmountPerSize[x] \in Nat
BY DEF Market

(* Positions that are behind stay behind when the factors grow.             *)
LEMMA BehindGrows ==
  ASSUME NEW pos \in [PositionKeys -> Position], NEW mk \in Market, NEW mk2 \in Market,
         PositionsBehind(pos, mk), FactorsGrow(mk, mk2)
  PROVE  PositionsBehind(pos, mk2)
<1> SUFFICES ASSUME NEW k \in PositionKeys
             PROVE  Behind(pos[k], k, mk2) /\ (pos[k].sizeInUsd > 0 => pos[k].sizeInTokens > 0)
  BY DEF PositionsBehind
<1> DEFINE p == pos[k]
<1>1. p \in Position /\ Behind(p, k, mk) /\ (p.sizeInUsd > 0 => p.sizeInTokens > 0)
  BY DEF PositionsBehind
<1> HIDE DEF p
<1>2. /\ p.borrowingFactor \in Nat /\ p.fundingFeeAmountPerSize \in Nat
      /\ \A t \in Tokens : p.claimableFundingAmountPerSize[t] \in Nat
  BY <1>1, PositionType
<1>3. k.isLong \in BOOLEAN /\ Side(k) \in Sides /\ \A t \in Tokens : <<t, k.isLong>> \in Sides
  BY KeyType
<1>4. Behind(p, k, mk2)
  <2>1. p.borrowingFactor <= mk2.cumulativeBorrowingFactor[k.isLong]
    <3>1. p.borrowingFactor <= mk.cumulativeBorrowingFactor[k.isLong]
      BY <1>1 DEF Behind
    <3>2. mk.cumulativeBorrowingFactor[k.isLong] <= mk2.cumulativeBorrowingFactor[k.isLong]
      BY <1>3 DEF FactorsGrow
    <3>3. mk.cumulativeBorrowingFactor[k.isLong] \in Nat /\ mk2.cumulativeBorrowingFactor[k.isLong] \in Nat
      BY <1>3, AggregatesType
    <3> QED
      BY <1>2, <3>1, <3>2, <3>3
  <2>2. p.fundingFeeAmountPerSize <= mk2.fundingFeeAmountPerSize[Side(k)]
    <3>1. p.fundingFeeAmountPerSize <= mk.fundingFeeAmountPerSize[Side(k)]
      BY <1>1 DEF Behind
    <3>2. mk.fundingFeeAmountPerSize[Side(k)] <= mk2.fundingFeeAmountPerSize[Side(k)]
      BY <1>3 DEF FactorsGrow
    <3>3. mk.fundingFeeAmountPerSize[Side(k)] \in Nat /\ mk2.fundingFeeAmountPerSize[Side(k)] \in Nat
      BY <1>3, AggregatesType
    <3> QED
      BY <1>2, <3>1, <3>2, <3>3
  <2>3. ASSUME NEW t \in Tokens
        PROVE  p.claimableFundingAmountPerSize[t] <= mk2.claimableFundingAmountPerSize[<<t, k.isLong>>]
    <3>0. <<t, k.isLong>> \in Sides
      BY <1>3
    <3>1. p.claimableFundingAmountPerSize[t] <= mk.claimableFundingAmountPerSize[<<t, k.isLong>>]
      BY <1>1 DEF Behind
    <3>2. mk.claimableFundingAmountPerSize[<<t, k.isLong>>] <= mk2.claimableFundingAmountPerSize[<<t, k.isLong>>]
      BY <3>0 DEF FactorsGrow
    <3>3. /\ mk.claimableFundingAmountPerSize[<<t, k.isLong>>] \in Nat
          /\ mk2.claimableFundingAmountPerSize[<<t, k.isLong>>] \in Nat
      BY <3>0, AggregatesType
    <3> QED
      BY <1>2, <3>1, <3>2, <3>3
  <2> QED
    BY <2>1, <2>2, <2>3 DEF Behind
<1> QED
  BY <1>1, <1>4 DEF p

(* Factors that stay do not fall.                                           *)
LEMMA SameFactorsGrow ==
  ASSUME NEW mk \in Market, NEW mk2, SameFactors(mk, mk2)
  PROVE  FactorsGrow(mk, mk2)
BY AggregatesType DEF SameFactors, FactorsGrow

(* Aggregates that stay cover what they covered.                            *)
LEMMA CoverSame ==
  ASSUME NEW pos, NEW mk, NEW mk2, BooksCover(pos, mk), SamePositionBooks(mk, mk2)
  PROVE  BooksCover(pos, mk2)
BY DEF BooksCover, SamePositionBooks

(* Exactness is about the aggregates of the positions alone.                *)
LEMMA ExactSame ==
  ASSUME NEW pos, NEW mk, NEW mk2, NEW b, ExactOn(pos, mk, b), SamePositionBooks(mk, mk2)
  PROVE  ExactOn(pos, mk2, b)
BY DEF ExactOn, SamePositionBooks

-----------------------------------------------------------------------------
(* A position is settled in the aggregates.                                 *)

(* The tokens t that are collateral of a position.                          *)
CollateralOf(mk, t) == mk.collateralSum[<<t, TRUE>>] + mk.collateralSum[<<t, FALSE>>]

(* `before` is the position k as it is stored, but for its funding.         *)
Stored(pos, k, before) ==
  /\ before \in Position
  /\ before.sizeInUsd = pos[k].sizeInUsd /\ before.sizeInTokens = pos[k].sizeInTokens
  /\ before.collateralAmount = pos[k].collateralAmount /\ before.borrowingFactor = pos[k].borrowingFactor

(* `stored` is what is kept of the position the books were settled for.     *)
KeptOf(after, stored) ==
  /\ after \in Position /\ stored \in Position
  /\ stored.sizeInUsd <= after.sizeInUsd /\ stored.sizeInTokens = after.sizeInTokens
  /\ stored.collateralAmount = after.collateralAmount
  /\ ApplyFactor(stored.sizeInUsd, stored.borrowingFactor)
       <= ApplyFactor(after.sizeInUsd, after.borrowingFactor)

(* What is kept is all of it.                                               *)
KeptExactly(after, stored) ==
  /\ stored.sizeInUsd = after.sizeInUsd
  /\ ApplyFactor(stored.sizeInUsd, stored.borrowingFactor)
       = ApplyFactor(after.sizeInUsd, after.borrowingFactor)

(* Books that were exact still are, unless some of k was not kept.          *)
ExactSettled(pos, mk, k, after, stored, mk2) ==
  \A b \in BOOLEAN :
    ExactOn(pos, mk, b) /\ (b = k.isLong => KeptExactly(after, stored))
      => ExactOn([pos EXCEPT ![k] = stored], mk2, b)

(* The account of k can claim what k is due.                                *)
FundingClaimed(mk, k, before, mk2) ==
  \A t \in Tokens :
    mk2.claimableFunding[t] =
      [mk.claimableFunding[t] EXCEPT ![k.account] = @ + ClaimableFunding(mk, k, before, t)]

(* The aggregates cover the positions once k is stored, and only k's        *)
(* collateral has moved.                                                    *)
SettledBooks(pos, mk, k, before, after, stored, mk2) ==
  /\ mk2 \in Market /\ BooksCover([pos EXCEPT ![k] = stored], mk2)
  /\ SameFactors(mk, mk2) /\ SameClaims(mk, mk2) /\ FundingClaimed(mk, k, before, mk2)
  /\ ExactSettled(pos, mk, k, after, stored, mk2)
  /\ \A t \in Tokens :
       /\ BookSum(mk2, t) = BookSum(mk, t)
       /\ CollateralOf(mk2, t) =
            CollateralOf(mk, t) + (IF t = k.collateral
                                   THEN after.collateralAmount - before.collateralAmount ELSE 0)

(* Settling takes the position as it was out of the aggregates and enters   *)
(* it as it is.                                                             *)
LEMMA SettledKeepsBooks ==
  ASSUME NEW pos \in [PositionKeys -> Position], NEW mk \in Market, BooksCover(pos, mk),
         NEW k \in PositionKeys, NEW before, Stored(pos, k, before), Behind(before, k, mk),
         NEW after, NEW stored, KeptOf(after, stored)
  PROVE  SettledBooks(pos, mk, k, before, after, stored, Settled(mk, k, before, after, after.borrowingFactor))
<1> DEFINE x == Side(k)
           b == k.isLong
           pos2 == [pos EXCEPT ![k] = stored]
           was  == ApplyFactor(before.sizeInUsd, before.borrowingFactor)
           is   == ApplyFactor(after.sizeInUsd, after.borrowingFactor)
           borrowing == mk.totalBorrowing[b] - was + is
           interest  == mk.openInterest[x] + after.sizeInUsd - before.sizeInUsd
           inTokens  == mk.openInterestInTokens[x] + after.sizeInTokens - before.sizeInTokens
           sum       == mk.collateralSum[x] + after.collateralAmount - before.collateralAmount
           totals    == [mk.totalBorrowing EXCEPT ![b] = borrowing]
           interests == [mk.openInterest EXCEPT ![x] = interest]
           insTokens == [mk.openInterestInTokens EXCEPT ![x] = inTokens]
           sums      == [mk.collateralSum EXCEPT ![x] = sum]
           due(t)    == ClaimableFunding(mk, k, before, t)
           claims    == [t \in Tokens |-> [mk.claimableFunding[t] EXCEPT ![k.account] = @ + due(t)]]
           mk2 == [mk EXCEPT !.totalBorrowing = totals, !.openInterest = interests,
                             !.openInterestInTokens = insTokens, !.collateralSum = sums,
                             !.claimableFunding = claims]
           moved == [mk EXCEPT
                       !.totalBorrowing[b] = @ - was + is,
                       !.openInterest[x] = @ + after.sizeInUsd - before.sizeInUsd,
                       !.openInterestInTokens[x] = @ + after.sizeInTokens - before.sizeInTokens,
                       !.collateralSum[x] = @ + after.collateralAmount - before.collateralAmount,
                       !.claimableFunding = [t \in Tokens |-> [mk.claimableFunding[t] EXCEPT ![k.account] = @ + due(t)]]]
           r == Settled(mk, k, before, after, after.borrowingFactor)
<1>1. r = mk2
  <2>1. r = moved
    BY Zenon DEF Settled
  <2> HIDE DEF was, is, due, x, b, r
  <2>2. moved = mk2
    BY DEF Market
  <2> QED
    BY <2>1, <2>2
<1> HIDE DEF r
<1>2. /\ x \in Sides /\ b \in BOOLEAN /\ k \in KeysOf(x) /\ k \in KeysOn(b)
      /\ k.collateral \in Tokens /\ x = <<k.collateral, b>> /\ k.account \in Accounts
  BY KeyType DEF KeysOf, KeysOn, Side
<1> HIDE DEF x, b
<1>3. pos2 \in [PositionKeys -> Position] /\ pos2[k] = stored
      /\ \A j \in PositionKeys : j # k => pos2[j] = pos[j]
  BY DEF KeptOf
<1> HIDE DEF pos2
<1>4. /\ before \in Position /\ after \in Position /\ stored \in Position
      /\ pos[k] \in Position
  BY DEF Stored, KeptOf
<1>5. /\ was \in Nat /\ is \in Nat
      /\ after.sizeInUsd \in Nat /\ after.sizeInTokens \in Nat /\ after.collateralAmount \in Nat
  BY <1>4, PositionType
<1>6. /\ before.sizeInUsd = Sizes(pos, x)[k] /\ before.sizeInTokens = SizesInTokens(pos, x)[k]
      /\ before.collateralAmount = Collaterals(pos, x)[k] /\ was = Borrowings(pos, b)[k]
  BY <1>2 DEF Stored, Sizes, SizesInTokens, Collaterals, Borrowings
<1>7. /\ Sizes(pos2, x)[k] <= after.sizeInUsd /\ SizesInTokens(pos2, x)[k] = after.sizeInTokens
      /\ Collaterals(pos2, x)[k] = after.collateralAmount /\ Borrowings(pos2, b)[k] <= is
  BY <1>2, <1>3 DEF KeptOf, Sizes, SizesInTokens, Collaterals, Borrowings
<1>8. /\ \A y \in Sides : /\ ChangedAt(KeysOf(y), Sizes(pos, y), Sizes(pos2, y), k)
                          /\ ChangedAt(KeysOf(y), SizesInTokens(pos, y), SizesInTokens(pos2, y), k)
                          /\ ChangedAt(KeysOf(y), Collaterals(pos, y), Collaterals(pos2, y), k)
      /\ \A a \in BOOLEAN : ChangedAt(KeysOn(a), Borrowings(pos, a), Borrowings(pos2, a), k)
  BY <1>3, KeysFinite DEF ChangedAt, Sizes, SizesInTokens, Collaterals, Borrowings
<1>9. /\ \A y \in Sides : y # x => k \notin KeysOf(y)
      /\ \A a \in BOOLEAN : a # b => k \notin KeysOn(a)
  BY <1>2 DEF KeysOf, KeysOn
<1> HIDE DEF was, is
<1>10. /\ interest \in Nat /\ Total(Sizes(pos2, x)) <= interest
       /\ Total(Sizes(pos, x)) = mk.openInterest[x] /\ stored.sizeInUsd = after.sizeInUsd
            => Total(Sizes(pos2, x)) = interest
  <2> DEFINE f == Sizes(pos, x)
             g == Sizes(pos2, x)
             n == after.sizeInUsd
             book == mk.openInterest[x]
  <2>1. f \in [KeysOf(x) -> Nat] /\ g \in [KeysOf(x) -> Nat]
    BY <1>2, <1>3, SumsType
  <2>2. ChangedAt(KeysOf(x), f, g, k) /\ k \in KeysOf(x) /\ IsFiniteSet(KeysOf(x))
    BY <1>2, <1>8, KeysFinite
  <2>3. book \in Nat /\ Total(f) <= book /\ n \in Nat
    BY <1>2, <1>5, AggregatesType DEF BooksCover
  <2>4. interest = book + n - f[k] /\ g[k] <= n
    BY <1>2, <1>4, <1>5, <1>6, <1>7, <2>3, PositionType
  <2>4a. g[k] = stored.sizeInUsd
    BY <1>2, <1>3 DEF Sizes
  <2> HIDE DEF f, g, n, book, interest
  <2>5. /\ book + n - f[k] \in Nat
        /\ g[k] <= n => Total(g) <= book + n - f[k]
        /\ g[k] = n /\ Total(f) = book => Total(g) = book + n - f[k]
    BY <2>1, <2>2, <2>3, CoverMoves
  <2>6. interest \in Nat /\ Total(g) <= interest
    BY <2>3, <2>4, <2>5
  <2>7. g[k] = n /\ Total(f) = book => Total(g) = interest
    BY <2>4, <2>5
  <2>8. Total(f) = book /\ stored.sizeInUsd = n => Total(g) = interest
    BY <2>4a, <2>7
  <2> QED
    BY <2>6, <2>8 DEF f, g, n, book
<1>11. inTokens \in Nat /\ Total(SizesInTokens(pos2, x)) = inTokens
  <2> DEFINE f == SizesInTokens(pos, x)
             g == SizesInTokens(pos2, x)
             n == after.sizeInTokens
             book == mk.openInterestInTokens[x]
  <2>1. f \in [KeysOf(x) -> Nat] /\ g \in [KeysOf(x) -> Nat]
    BY <1>2, <1>3, SumsType
  <2>2. ChangedAt(KeysOf(x), f, g, k) /\ k \in KeysOf(x) /\ IsFiniteSet(KeysOf(x))
    BY <1>2, <1>8, KeysFinite
  <2>3. book \in Nat /\ Total(f) = book /\ n \in Nat
    BY <1>2, <1>5, AggregatesType DEF BooksCover
  <2>4. inTokens = book + n - f[k] /\ g[k] = n
    BY <1>2, <1>4, <1>5, <1>6, <1>7, <2>3, PositionType
  <2> HIDE DEF f, g, n, book, inTokens
  <2>5. /\ book + n - f[k] \in Nat
        /\ g[k] = n /\ Total(f) = book => Total(g) = book + n - f[k]
    BY <2>1, <2>2, <2>3, CoverMoves
  <2>6. inTokens \in Nat /\ Total(g) = inTokens
    BY <2>3, <2>4, <2>5
  <2> QED
    BY <2>6 DEF g
<1>12. sum \in Nat /\ Total(Collaterals(pos2, x)) = sum
  <2> DEFINE f == Collaterals(pos, x)
             g == Collaterals(pos2, x)
             n == after.collateralAmount
             book == mk.collateralSum[x]
  <2>1. f \in [KeysOf(x) -> Nat] /\ g \in [KeysOf(x) -> Nat]
    BY <1>2, <1>3, SumsType
  <2>2. ChangedAt(KeysOf(x), f, g, k) /\ k \in KeysOf(x) /\ IsFiniteSet(KeysOf(x))
    BY <1>2, <1>8, KeysFinite
  <2>3. book \in Nat /\ Total(f) = book /\ n \in Nat
    BY <1>2, <1>5, AggregatesType DEF BooksCover
  <2>4. sum = book + n - f[k] /\ g[k] = n
    BY <1>2, <1>4, <1>5, <1>6, <1>7, <2>3, PositionType
  <2> HIDE DEF f, g, n, book, sum
  <2>5. /\ book + n - f[k] \in Nat
        /\ g[k] = n /\ Total(f) = book => Total(g) = book + n - f[k]
    BY <2>1, <2>2, <2>3, CoverMoves
  <2>6. sum \in Nat /\ Total(g) = sum
    BY <2>3, <2>4, <2>5
  <2> QED
    BY <2>6 DEF g
<1>13. /\ borrowing \in Nat /\ Total(Borrowings(pos2, b)) <= borrowing
       /\ Total(Borrowings(pos, b)) = mk.totalBorrowing[b] /\ KeptExactly(after, stored)
            => Total(Borrowings(pos2, b)) = borrowing
  <2> DEFINE f == Borrowings(pos, b)
             g == Borrowings(pos2, b)
             n == is
             book == mk.totalBorrowing[b]
  <2>1. f \in [KeysOn(b) -> Nat] /\ g \in [KeysOn(b) -> Nat]
    BY <1>2, <1>3, SumsType
  <2>2. ChangedAt(KeysOn(b), f, g, k) /\ k \in KeysOn(b) /\ IsFiniteSet(KeysOn(b))
    BY <1>2, <1>8, KeysFinite
  <2>3. book \in Nat /\ Total(f) <= book /\ n \in Nat
    BY <1>2, <1>5, AggregatesType DEF BooksCover
  <2>4. borrowing = book + n - f[k] /\ g[k] <= n
    BY <1>2, <1>4, <1>5, <1>6, <1>7, <2>3, PositionType
  <2>4a. KeptExactly(after, stored) => g[k] = n
    BY <1>2, <1>3 DEF Borrowings, KeptExactly, is
  <2> HIDE DEF f, g, n, book, borrowing
  <2>5. /\ book + n - f[k] \in Nat
        /\ g[k] <= n => Total(g) <= book + n - f[k]
        /\ g[k] = n /\ Total(f) = book => Total(g) = book + n - f[k]
    BY <2>1, <2>2, <2>3, CoverMoves
  <2>6. borrowing \in Nat /\ Total(g) <= borrowing
    BY <2>3, <2>4, <2>5
  <2>7. g[k] = n /\ Total(f) = book => Total(g) = borrowing
    BY <2>4, <2>5
  <2>8. Total(f) = book /\ KeptExactly(after, stored) => Total(g) = borrowing
    BY <2>4a, <2>7
  <2> QED
    BY <2>6, <2>8 DEF f, g, book
<1>14. /\ \A y \in Sides : y # x =>
             /\ Total(Sizes(pos2, y)) = Total(Sizes(pos, y))
             /\ Total(SizesInTokens(pos2, y)) = Total(SizesInTokens(pos, y))
             /\ Total(Collaterals(pos2, y)) = Total(Collaterals(pos, y))
       /\ \A a \in BOOLEAN : a # b => Total(Borrowings(pos2, a)) = Total(Borrowings(pos, a))
  <2>1. ASSUME NEW y \in Sides, y # x
        PROVE  /\ Total(Sizes(pos2, y)) = Total(Sizes(pos, y))
               /\ Total(SizesInTokens(pos2, y)) = Total(SizesInTokens(pos, y))
               /\ Total(Collaterals(pos2, y)) = Total(Collaterals(pos, y))
    <3>1. k \notin KeysOf(y)
      BY <1>9, <2>1
    <3>2. /\ Sizes(pos, y) \in [KeysOf(y) -> Nat] /\ Sizes(pos2, y) \in [KeysOf(y) -> Nat]
          /\ SizesInTokens(pos, y) \in [KeysOf(y) -> Nat] /\ SizesInTokens(pos2, y) \in [KeysOf(y) -> Nat]
          /\ Collaterals(pos, y) \in [KeysOf(y) -> Nat] /\ Collaterals(pos2, y) \in [KeysOf(y) -> Nat]
      BY <1>3, SumsType
    <3> QED
      BY <1>8, <3>1, <3>2, CoverStays
  <2>2. ASSUME NEW a \in BOOLEAN, a # b
        PROVE  Total(Borrowings(pos2, a)) = Total(Borrowings(pos, a))
    <3>1. k \notin KeysOn(a)
      BY <1>9, <2>2
    <3>2. Borrowings(pos, a) \in [KeysOn(a) -> Nat] /\ Borrowings(pos2, a) \in [KeysOn(a) -> Nat]
      BY <1>3, SumsType
    <3> QED
      BY <1>8, <3>1, <3>2, CoverStays
  <2> QED
    BY <2>1, <2>2
<1> HIDE DEF interest, inTokens, sum, borrowing
<1>15. /\ totals \in [BOOLEAN -> Nat] /\ interests \in [Sides -> Nat]
       /\ insTokens \in [Sides -> Nat] /\ sums \in [Sides -> Nat]
       /\ totals[b] = borrowing /\ interests[x] = interest /\ insTokens[x] = inTokens /\ sums[x] = sum
       /\ \A y \in Sides : y # x => /\ interests[y] = mk.openInterest[y]
                                    /\ insTokens[y] = mk.openInterestInTokens[y]
                                    /\ sums[y] = mk.collateralSum[y]
       /\ \A a \in BOOLEAN : a # b => totals[a] = mk.totalBorrowing[a]
  BY <1>2, <1>10, <1>11, <1>12, <1>13 DEF Market
<1> HIDE DEF totals, interests, insTokens, sums
<1>16. claims \in [Tokens -> [Accounts -> Nat]]
  <2>1. ASSUME NEW t \in Tokens PROVE due(t) \in Nat
    <3> DEFINE latest == mk.claimableFundingAmountPerSize[<<t, k.isLong>>]
               own == before.claimableFundingAmountPerSize[t]
    <3>1. latest \in Nat /\ own \in Nat /\ before.sizeInUsd \in Nat
      BY <1>4, KeyType, AggregatesType, PositionType
    <3>2. own <= latest
      BY DEF Behind
    <3>3. due(t) = FundingDue(before.sizeInUsd, latest, own, FALSE)
      BY DEF ClaimableFunding
    <3> HIDE DEF latest, own, due
    <3> QED
      BY <3>1, <3>2, <3>3, FundingDueType
  <2>2. \A t \in Tokens : mk.claimableFunding[t] \in [Accounts -> Nat]
    BY DEF Market
  <2> HIDE DEF due
  <2>3. \A t \in Tokens : [mk.claimableFunding[t] EXCEPT ![k.account] = @ + due(t)] \in [Accounts -> Nat]
    BY <1>2, <2>1, <2>2
  <2> QED
    BY <2>3
<1>16a. \A t \in Tokens :
         claims[t] = [mk.claimableFunding[t] EXCEPT ![k.account] = @ + ClaimableFunding(mk, k, before, t)]
  BY Zenon
<1> HIDE DEF claims
<1>17. mk2 \in Market
  BY <1>15, <1>16 DEF Market
<1>18. /\ mk2.totalBorrowing = totals /\ mk2.openInterest = interests
       /\ mk2.openInterestInTokens = insTokens /\ mk2.collateralSum = sums
       /\ mk2.claimableFunding = claims
  BY DEF Market
<1>19. SameFactors(mk, mk2) /\ SameClaims(mk, mk2) /\ \A t \in Tokens : BookSum(mk2, t) = BookSum(mk, t)
  BY DEF Market, SameFactors, SameClaims, BookSum
<1> HIDE DEF mk2
<1>20. BooksCover(pos2, mk2)
  <2>1. ASSUME NEW y \in Sides
        PROVE  /\ Total(Sizes(pos2, y)) <= mk2.openInterest[y]
               /\ Total(SizesInTokens(pos2, y)) = mk2.openInterestInTokens[y]
               /\ Total(Collaterals(pos2, y)) = mk2.collateralSum[y]
    <3>1. CASE y = x
      BY <1>10, <1>11, <1>12, <1>15, <1>18, <3>1
    <3>2. CASE y # x
      <4>1. /\ Total(Sizes(pos, y)) <= mk.openInterest[y]
            /\ Total(SizesInTokens(pos, y)) = mk.openInterestInTokens[y]
            /\ Total(Collaterals(pos, y)) = mk.collateralSum[y]
        BY DEF BooksCover
      <4> QED
        BY <1>14, <1>15, <1>18, <3>2, <4>1
    <3> QED
      BY <3>1, <3>2
  <2>2. ASSUME NEW a \in BOOLEAN
        PROVE  Total(Borrowings(pos2, a)) <= mk2.totalBorrowing[a]
    <3>1. CASE a = b
      BY <1>13, <1>15, <1>18, <3>1
    <3>2. CASE a # b
      <4>1. Total(Borrowings(pos, a)) <= mk.totalBorrowing[a]
        BY DEF BooksCover
      <4> QED
        BY <1>14, <1>15, <1>18, <3>2, <4>1
    <3> QED
      BY <3>1, <3>2
  <2> QED
    BY <2>1, <2>2 DEF BooksCover
<1>21. ASSUME NEW t \in Tokens
       PROVE  CollateralOf(mk2, t) =
                CollateralOf(mk, t) + (IF t = k.collateral
                                       THEN after.collateralAmount - before.collateralAmount ELSE 0)
  <2>1. <<t, TRUE>> \in Sides /\ <<t, FALSE>> \in Sides
    BY DEF Sides
  <2>2. mk.collateralSum[<<t, TRUE>>] \in Nat /\ mk.collateralSum[<<t, FALSE>>] \in Nat
    BY <2>1, AggregatesType
  <2>3. sum = mk.collateralSum[x] + after.collateralAmount - before.collateralAmount
    BY DEF sum
  <2>4. before.collateralAmount \in Nat
    BY <1>4, PositionType
  <2>5. t # k.collateral => <<t, TRUE>> # x /\ <<t, FALSE>> # x
    BY <1>2
  <2> DEFINE p == mk.collateralSum[<<t, TRUE>>]
             q == mk.collateralSum[<<t, FALSE>>]
             p2 == mk2.collateralSum[<<t, TRUE>>]
             q2 == mk2.collateralSum[<<t, FALSE>>]
             n == after.collateralAmount
             m == before.collateralAmount
  <2>6. p \in Nat /\ q \in Nat /\ n \in Nat /\ m \in Nat
    BY <1>5, <2>2, <2>4
  <2>7. CollateralOf(mk, t) = p + q /\ CollateralOf(mk2, t) = p2 + q2
    BY DEF CollateralOf
  <2>8. CASE t # k.collateral
    <3>1. p2 = p /\ q2 = q
      BY <1>15, <1>18, <2>1, <2>5, <2>8
    <3> HIDE DEF p, q, p2, q2
    <3> QED
      BY <2>6, <2>7, <2>8, <3>1
  <2>9. CASE t = k.collateral /\ b = TRUE
    <3>1. x = <<t, TRUE>> /\ <<t, FALSE>> # x
      BY <1>2, <2>9
    <3>2. p2 = p + n - m /\ q2 = q
      BY <1>15, <1>18, <2>1, <2>3, <3>1
    <3> HIDE DEF p, q, p2, q2, n, m
    <3>3. p2 + q2 = p + q + (n - m)
      BY <2>6, <3>2
    <3> QED
      BY <2>7, <2>9, <3>3 DEF n, m
  <2>10. CASE t = k.collateral /\ b = FALSE
    <3>1. x = <<t, FALSE>> /\ <<t, TRUE>> # x
      BY <1>2, <2>10
    <3>2. q2 = q + n - m /\ p2 = p
      BY <1>15, <1>18, <2>1, <2>3, <3>1
    <3> HIDE DEF p, q, p2, q2, n, m
    <3>3. p2 + q2 = p + q + (n - m)
      BY <2>6, <3>2
    <3> QED
      BY <2>7, <2>10, <3>3 DEF n, m
  <2> QED
    BY <1>2, <2>8, <2>9, <2>10
<1>21a. FundingClaimed(mk, k, before, mk2)
  BY <1>18, <1>16a DEF FundingClaimed
<1>21b. ExactSettled(pos, mk, k, after, stored, mk2)
  <2> SUFFICES ASSUME NEW a \in BOOLEAN, ExactOn(pos, mk, a), a = k.isLong => KeptExactly(after, stored)
               PROVE  ExactOn(pos2, mk2, a)
    BY DEF ExactSettled, pos2
  <2>1. ASSUME NEW t \in Tokens
        PROVE  Total(Sizes(pos2, <<t, a>>)) = mk2.openInterest[<<t, a>>]
    <3> DEFINE y == <<t, a>>
    <3>1. y \in Sides /\ Total(Sizes(pos, y)) = mk.openInterest[y]
      BY DEF Sides, ExactOn
    <3>2. CASE y = x
      <4>1. a = k.isLong
        BY <1>2, <3>2 DEF b
      <4>2. stored.sizeInUsd = after.sizeInUsd
        BY <4>1 DEF KeptExactly
      <4> QED
        BY <1>10, <1>15, <1>18, <3>1, <3>2, <4>2
    <3>3. CASE y # x
      BY <1>14, <1>15, <1>18, <3>1, <3>3
    <3> QED
      BY <3>2, <3>3
  <2>2. Total(Borrowings(pos2, a)) = mk2.totalBorrowing[a]
    <3>1. Total(Borrowings(pos, a)) = mk.totalBorrowing[a]
      BY DEF ExactOn
    <3>2. CASE a = b
      BY <1>13, <1>15, <1>18, <3>1, <3>2 DEF b
    <3>3. CASE a # b
      BY <1>14, <1>15, <1>18, <3>1, <3>3
    <3> QED
      BY <3>2, <3>3
  <2> QED
    BY <2>1, <2>2 DEF ExactOn
<1>22. SettledBooks(pos, mk, k, before, after, stored, r)
  BY <1>1, <1>17, <1>19, <1>20, <1>21, <1>21a, <1>21b DEF SettledBooks, pos2
<1> QED
  BY <1>22 DEF r

-----------------------------------------------------------------------------
(* Bringing the market up to date, and what an increase enters in it.       *)

(* The books fit the positions.                                             *)
Sound(pos, mk) ==
  mk \in Market /\ BooksCover(pos, mk) /\ PositionsBehind(pos, mk) /\ ClaimsMatch(mk)

(* Both markets hold the same tokens.                                       *)
SameTokens(mk, mk2) ==
  \A t \in Tokens : BookSum(mk2, t) = BookSum(mk, t) /\ CollateralOf(mk2, t) = CollateralOf(mk, t)

(* What is set aside fits as long as it stays.                              *)
LEMMA ClaimsSame ==
  ASSUME NEW mk, NEW mk2, ClaimsMatch(mk), SameClaims(mk, mk2)
  PROVE  ClaimsMatch(mk2)
BY DEF ClaimsMatch, SameClaims, OwnersLeft

(* The books are amounts.                                                   *)
LEMMA BooksType ==
  ASSUME NEW mk \in Market, NEW t \in Tokens
  PROVE  /\ BookSum(mk, t) \in Nat /\ CollateralOf(mk, t) \in Nat
         /\ mk.poolAmount[t] \in Nat /\ mk.claimableFee[t] \in Nat /\ mk.claimableUiFee[t] \in Nat
         /\ mk.affiliateReward[t] \in Nat /\ mk.claimableCollateralAmount[t] \in Nat
<1>1. /\ mk.poolAmount[t] \in Nat /\ mk.claimableFee[t] \in Nat /\ mk.claimableUiFee[t] \in Nat
      /\ mk.affiliateReward[t] \in Nat /\ mk.claimableCollateralAmount[t] \in Nat
  BY DEF Market
<1>2. <<t, TRUE>> \in Sides /\ <<t, FALSE>> \in Sides
  BY DEF Sides
<1>3. mk.collateralSum[<<t, TRUE>>] \in Nat /\ mk.collateralSum[<<t, FALSE>>] \in Nat
  BY <1>2, AggregatesType
<1>4. BookSum(mk, t) \in Nat
  BY <1>1 DEF BookSum
<1>5. CollateralOf(mk, t) \in Nat
  BY <1>3 DEF CollateralOf
<1> QED
  BY <1>1, <1>4, <1>5

(* The collateral stays when the aggregates do.                             *)
LEMMA CollateralSame ==
  ASSUME NEW mk, NEW mk2, SamePositionBooks(mk, mk2), NEW t
  PROVE  CollateralOf(mk2, t) = CollateralOf(mk, t)
BY DEF CollateralOf, SamePositionBooks

(* Bringing the market up to date keeps its books fitting the positions.    *)
LEMMA AccruedSound ==
  ASSUME NEW s \in Situations, positions \in [PositionKeys -> Position], Sound(positions, market)
  PROVE  Sound(positions, Accrued(market, s)) /\ SameTokens(market, Accrued(market, s))
<1> DEFINE mk == Accrued(market, s)
<1>1. market \in Market /\ BooksCover(positions, market) /\ PositionsBehind(positions, market)
      /\ ClaimsMatch(market)
  BY DEF Sound
<1>2. /\ mk \in Market /\ FactorsGrow(market, mk)
      /\ SamePositionBooks(market, mk) /\ SameClaims(market, mk)
      /\ \A t \in Tokens : BookSum(mk, t) = BookSum(market, t)
  BY <1>1, AccruedType
<1> HIDE DEF mk
<1>3. BooksCover(positions, mk)
  BY <1>1, <1>2, CoverSame
<1>4. PositionsBehind(positions, mk)
  BY <1>1, <1>2, BehindGrows
<1>5. ClaimsMatch(mk)
  BY <1>1, <1>2, ClaimsSame
<1>6. SameTokens(market, mk)
  BY <1>2, CollateralSame DEF SameTokens
<1> QED
  BY <1>2, <1>3, <1>4, <1>5, <1>6 DEF Sound, mk

(* The position an order increases is the stored one, or a new one at the   *)
(* latest factors.                                                          *)
LEMMA OpenedType ==
  ASSUME positions \in [PositionKeys -> Position], NEW mk \in Market, PositionsBehind(positions, mk),
         NEW k \in PositionKeys
  PROVE  Stored(positions, k, Opened(mk, k)) /\ Behind(Opened(mk, k), k, mk)
<1> DEFINE p == positions[k]
           own == mk.fundingFeeAmountPerSize[Side(k)]
           get == [t \in Tokens |-> mk.claimableFundingAmountPerSize[<<t, k.isLong>>]]
           new == [p EXCEPT !.fundingFeeAmountPerSize = own, !.claimableFundingAmountPerSize = get]
           opened == Opened(mk, k)
<1>1. p \in Position /\ Behind(p, k, mk)
  BY DEF PositionsBehind
<1>2. opened = IF p.sizeInUsd > 0 THEN p ELSE new
  BY DEF Opened, LatestOf
<1> HIDE DEF opened
<1>3. CASE p.sizeInUsd > 0
  BY <1>1, <1>2, <1>3 DEF Stored, opened
<1>4. CASE ~(p.sizeInUsd > 0)
  <2>1. own \in Nat /\ get \in [Tokens -> Nat]
    BY KeyType, AggregatesType
  <2>2. \A t \in Tokens : get[t] <= mk.claimableFundingAmountPerSize[<<t, k.isLong>>]
    BY KeyType, AggregatesType
  <2>3. own <= mk.fundingFeeAmountPerSize[Side(k)]
    BY KeyType, AggregatesType
  <2>4. p.borrowingFactor <= mk.cumulativeBorrowingFactor[k.isLong]
    BY <1>1 DEF Behind
  <2> HIDE DEF own, get, p
  <2>5. opened = new
    BY <1>2, <1>4
  <2>6. new \in Position
    BY <1>1, <2>1 DEF Position
  <2>7. /\ new.sizeInUsd = p.sizeInUsd /\ new.sizeInTokens = p.sizeInTokens
        /\ new.collateralAmount = p.collateralAmount /\ new.borrowingFactor = p.borrowingFactor
        /\ new.fundingFeeAmountPerSize = own /\ new.claimableFundingAmountPerSize = get
    BY <1>1 DEF Position
  <2> HIDE DEF new
  <2>8. Stored(positions, k, opened)
    BY <2>5, <2>6, <2>7 DEF Stored, p
  <2>9. Behind(opened, k, mk)
    BY <2>2, <2>3, <2>4, <2>5, <2>7 DEF Behind
  <2> QED
    BY <2>8, <2>9 DEF opened
<1> QED
  BY <1>3, <1>4

(* What an increase enters in the books besides its position.               *)
Entered(mk, c, fees, n) ==
  [mk EXCEPT !.poolAmount[c] = @ + fees.pool,
             !.claimableFee[c] = @ + fees.receiver, !.claimableUiFee[c] = @ + fees.ui,
             !.affiliateReward[c] = @ + fees.affiliate,
             !.positionImpactPool = PositivePart(@ - n)]

(* The fees are in the books, and nothing else has moved.                   *)
FeesEntered(mk, c, fees, mk2) ==
  /\ mk2 \in Market /\ SamePositionBooks(mk, mk2) /\ SameFactors(mk, mk2) /\ SameClaims(mk, mk2)
  /\ \A t \in Tokens : BookSum(mk2, t) = BookSum(mk, t) + (IF t = c THEN fees.cost ELSE 0)

(* Entering the fees of an increase enters what they cost.                  *)
LEMMA EnteredBooks ==
  ASSUME NEW mk \in Market, NEW c \in Tokens, NEW fees, FeesSplit(fees), fees.pool >= 0, NEW n \in Int
  PROVE  FeesEntered(mk, c, fees, Entered(mk, c, fees, n))
<1> DEFINE pools == [mk.poolAmount EXCEPT ![c] = @ + fees.pool]
           receivers == [mk.claimableFee EXCEPT ![c] = @ + fees.receiver]
           uis == [mk.claimableUiFee EXCEPT ![c] = @ + fees.ui]
           rewards == [mk.affiliateReward EXCEPT ![c] = @ + fees.affiliate]
           impactPool == PositivePart(mk.positionImpactPool - n)
           mk2 == [mk EXCEPT !.poolAmount = pools, !.claimableFee = receivers, !.claimableUiFee = uis,
                             !.affiliateReward = rewards, !.positionImpactPool = impactPool]
           r == Entered(mk, c, fees, n)
<1>1. r = mk2
  BY DEF Entered, Market
<1> HIDE DEF r
<1>2. /\ fees.pool \in Nat /\ fees.receiver \in Nat /\ fees.ui \in Nat /\ fees.affiliate \in Nat
      /\ fees.cost = fees.pool + fees.receiver + fees.ui + fees.affiliate
  BY DEF FeesSplit
<1>3. /\ mk.poolAmount \in [Tokens -> Nat] /\ mk.claimableFee \in [Tokens -> Nat]
      /\ mk.claimableUiFee \in [Tokens -> Nat] /\ mk.affiliateReward \in [Tokens -> Nat]
      /\ mk.positionImpactPool \in Nat
  BY DEF Market
<1>4. /\ pools \in [Tokens -> Nat] /\ receivers \in [Tokens -> Nat]
      /\ uis \in [Tokens -> Nat] /\ rewards \in [Tokens -> Nat]
  BY <1>2, <1>3
<1>5. impactPool \in Nat
  BY <1>3 DEF PositivePart
<1>6. /\ pools[c] = mk.poolAmount[c] + fees.pool /\ receivers[c] = mk.claimableFee[c] + fees.receiver
      /\ uis[c] = mk.claimableUiFee[c] + fees.ui /\ rewards[c] = mk.affiliateReward[c] + fees.affiliate
      /\ \A t \in Tokens : t # c =>
           /\ pools[t] = mk.poolAmount[t] /\ receivers[t] = mk.claimableFee[t]
           /\ uis[t] = mk.claimableUiFee[t] /\ rewards[t] = mk.affiliateReward[t]
  BY <1>3
<1> HIDE DEF pools, receivers, uis, rewards, impactPool
<1>7. mk2 \in Market
  BY <1>4, <1>5 DEF Market
<1>8. SamePositionBooks(mk, mk2) /\ SameFactors(mk, mk2) /\ SameClaims(mk, mk2)
  BY DEF Market, SamePositionBooks, SameFactors, SameClaims
<1>9. /\ mk2.poolAmount = pools /\ mk2.claimableFee = receivers /\ mk2.claimableUiFee = uis
      /\ mk2.affiliateReward = rewards
      /\ mk2.claimableCollateralAmount = mk.claimableCollateralAmount
  BY DEF Market
<1> HIDE DEF mk2
<1>10. ASSUME NEW t \in Tokens
       PROVE  BookSum(mk2, t) = BookSum(mk, t) + (IF t = c THEN fees.cost ELSE 0)
  <2> DEFINE u == mk.poolAmount[t]
             v == mk.claimableFee[t]
             w == mk.claimableUiFee[t]
             y == mk.affiliateReward[t]
             z == mk.claimableCollateralAmount[t]
  <2>1. u \in Nat /\ v \in Nat /\ w \in Nat /\ y \in Nat /\ z \in Nat
    BY BooksType
  <2>2. BookSum(mk, t) = u + v + w + y + z
    BY DEF BookSum
  <2>3. BookSum(mk2, t) = pools[t] + receivers[t] + uis[t] + rewards[t] + z
    BY <1>9 DEF BookSum
  <2>4. CASE t = c
    <3>1. BookSum(mk2, t) = (u + fees.pool) + (v + fees.receiver) + (w + fees.ui) + (y + fees.affiliate) + z
      BY <1>6, <2>3, <2>4
    <3> HIDE DEF u, v, w, y, z
    <3> QED
      BY <1>2, <2>1, <2>2, <2>4, <3>1
  <2>5. CASE t # c
    <3>1. BookSum(mk2, t) = u + v + w + y + z
      BY <1>6, <2>3, <2>5
    <3> HIDE DEF u, v, w, y, z
    <3> QED
      BY <2>1, <2>2, <2>5, <3>1
  <2> QED
    BY <2>4, <2>5
<1> QED
  BY <1>1, <1>7, <1>8, <1>10 DEF FeesEntered, r

-----------------------------------------------------------------------------
(* The inductive invariant.                                                 *)

(* TokensAccounted, of given values.                                        *)
Balanced(b, u, mk, f, st) ==
  \A t \in Tokens : b[t] + u[t] = BookSum(mk, t) + CollateralOf(mk, t) + f[t] + st[t]

(* The inductive invariant: types, aggregates that cover the positions,     *)
(* positions behind the factors, claims that match, and every token in one  *)
(* book.                                                                    *)
PositionsInv ==
  /\ TypeOK
  /\ BooksCover(positions, market) /\ PositionsBehind(positions, market) /\ ClaimsMatch(market)
  /\ TokensAccounted

(* What the invariant says of each variable.                                *)
LEMMA InvUse ==
  ASSUME PositionsInv
  PROVE  /\ TypeOK /\ Sound(positions, market) /\ market \in Market
         /\ positions \in [PositionKeys -> Position]
         /\ balance \in [Tokens -> Nat] /\ unpaid \in [Tokens -> Nat]
         /\ stranded \in [Tokens -> Nat] /\ uncovered \in [Tokens -> Nat]
         /\ funding \in [Tokens -> Int] /\ actions \in 0..MaxActions
         /\ Balanced(balance, uncovered, market, funding, stranded)
<1>1. /\ positions \in [PositionKeys -> Position] /\ market \in Market
      /\ balance \in [Tokens -> Nat] /\ unpaid \in [Tokens -> Nat]
      /\ stranded \in [Tokens -> Nat] /\ uncovered \in [Tokens -> Nat]
      /\ funding \in [Tokens -> Int] /\ actions \in 0..MaxActions
  BY DEF PositionsInv, TypeOK
<1>2. Sound(positions, market)
  BY <1>1 DEF PositionsInv, Sound
<1>3. ASSUME NEW t \in Tokens
      PROVE  balance[t] + uncovered[t] = BookSum(market, t) + CollateralOf(market, t) + funding[t] + stranded[t]
  <2> DEFINE a == market.poolAmount[t]
             b == market.collateralSum[<<t, TRUE>>]
             c == market.collateralSum[<<t, FALSE>>]
             d == market.claimableFee[t]
             e == market.claimableUiFee[t]
             f == market.affiliateReward[t]
             g == market.claimableCollateralAmount[t]
  <2>1. balance[t] + uncovered[t] = a + b + c + d + e + f + g + funding[t] + stranded[t]
    BY DEF PositionsInv, TokensAccounted
  <2>2. BookSum(market, t) = a + d + e + f + g /\ CollateralOf(market, t) = b + c
    BY DEF BookSum, CollateralOf
  <2>3. a \in Nat /\ d \in Nat /\ e \in Nat /\ f \in Nat /\ g \in Nat
    BY <1>1, BooksType
  <2>4. b \in Nat /\ c \in Nat
    BY <1>1, AggregatesType DEF Sides
  <2>5. funding[t] \in Int /\ stranded[t] \in Int
    BY <1>1
  <2> HIDE DEF a, b, c, d, e, f, g
  <2> QED
    BY <2>1, <2>2, <2>3, <2>4, <2>5
<1> QED
  BY <1>1, <1>2, <1>3 DEF PositionsInv, Balanced

(* What has to be shown of the next state.                                  *)
LEMMA InvAgain ==
  ASSUME positions' \in [PositionKeys -> Position], Sound(positions', market'),
         balance' \in [Tokens -> Nat], unpaid' \in [Tokens -> Nat],
         stranded' \in [Tokens -> Nat], uncovered' \in [Tokens -> Nat],
         funding' \in [Tokens -> Int], actions' \in 0..MaxActions,
         Balanced(balance', uncovered', market', funding', stranded')
  PROVE  PositionsInv'
<1> DEFINE mk == market'
<1>1. mk \in Market /\ BooksCover(positions', mk) /\ PositionsBehind(positions', mk) /\ ClaimsMatch(mk)
  BY DEF Sound
<1>2. TypeOK'
  BY <1>1 DEF TypeOK
<1>3. ASSUME NEW t \in Tokens
      PROVE  balance'[t] + uncovered'[t] =
               mk.poolAmount[t] + mk.collateralSum[<<t, TRUE>>] + mk.collateralSum[<<t, FALSE>>]
               + mk.claimableFee[t] + mk.claimableUiFee[t] + mk.affiliateReward[t]
               + mk.claimableCollateralAmount[t] + funding'[t] + stranded'[t]
  <2> DEFINE a == mk.poolAmount[t]
             b == mk.collateralSum[<<t, TRUE>>]
             c == mk.collateralSum[<<t, FALSE>>]
             d == mk.claimableFee[t]
             e == mk.claimableUiFee[t]
             f == mk.affiliateReward[t]
             g == mk.claimableCollateralAmount[t]
  <2>1. balance'[t] + uncovered'[t] = BookSum(mk, t) + CollateralOf(mk, t) + funding'[t] + stranded'[t]
    BY DEF Balanced
  <2>2. BookSum(mk, t) = a + d + e + f + g /\ CollateralOf(mk, t) = b + c
    BY DEF BookSum, CollateralOf
  <2>3. a \in Nat /\ d \in Nat /\ e \in Nat /\ f \in Nat /\ g \in Nat
    BY <1>1, BooksType
  <2>4. b \in Nat /\ c \in Nat
    BY <1>1, AggregatesType DEF Sides
  <2>5. funding'[t] \in Int /\ stranded'[t] \in Int
    OBVIOUS
  <2>6. balance'[t] + uncovered'[t] = a + b + c + d + e + f + g + funding'[t] + stranded'[t]
    <3> HIDE DEF a, b, c, d, e, f, g, mk
    <3> QED
      BY <2>1, <2>2, <2>3, <2>4, <2>5
  <2> QED
    BY <2>6
<1>4. TokensAccounted'
  BY <1>3 DEF TokensAccounted
<1> QED
  BY <1>1, <1>2, <1>4 DEF PositionsInv

(* A position that has been settled at the market's latest factors.         *)
LEMMA SoundWith ==
  ASSUME NEW pos \in [PositionKeys -> Position], NEW mk \in Market, PositionsBehind(pos, mk),
         NEW k \in PositionKeys, NEW p \in Position, Behind(p, k, mk),
         p.sizeInUsd > 0 => p.sizeInTokens > 0,
         NEW mk2 \in Market, SameFactors(mk, mk2), BooksCover([pos EXCEPT ![k] = p], mk2), ClaimsMatch(mk2)
  PROVE  Sound([pos EXCEPT ![k] = p], mk2)
<1> DEFINE pos2 == [pos EXCEPT ![k] = p]
<1>1. pos2 \in [PositionKeys -> Position]
  OBVIOUS
<1>2. PositionsBehind(pos2, mk)
  BY DEF PositionsBehind
<1>3. FactorsGrow(mk, mk2)
  BY SameFactorsGrow
<1> HIDE DEF pos2
<1>4. PositionsBehind(pos2, mk2)
  BY <1>1, <1>2, <1>3, BehindGrows
<1> QED
  BY <1>4 DEF Sound, pos2

(* A position that is brought up to date is behind.                         *)
LEMMA UpToDate ==
  ASSUME NEW mk \in Market, NEW k \in PositionKeys, NEW p,
         p.borrowingFactor = mk.cumulativeBorrowingFactor[k.isLong],
         p.fundingFeeAmountPerSize = LatestOf(mk, k).fundingFeeAmountPerSize,
         p.claimableFundingAmountPerSize = LatestOf(mk, k).claimableFundingAmountPerSize
  PROVE  /\ Behind(p, k, mk) /\ p.borrowingFactor \in Nat /\ p.fundingFeeAmountPerSize \in Nat
         /\ p.claimableFundingAmountPerSize \in [Tokens -> Nat]
<1>1. /\ p.fundingFeeAmountPerSize = mk.fundingFeeAmountPerSize[Side(k)]
      /\ p.claimableFundingAmountPerSize =
           [t \in Tokens |-> mk.claimableFundingAmountPerSize[<<t, k.isLong>>]]
  BY DEF LatestOf
<1>2. /\ mk.cumulativeBorrowingFactor[k.isLong] \in Nat /\ mk.fundingFeeAmountPerSize[Side(k)] \in Nat
      /\ \A t \in Tokens : mk.claimableFundingAmountPerSize[<<t, k.isLong>>] \in Nat
  BY KeyType, AggregatesType
<1>3. /\ p.borrowingFactor \in Nat /\ p.fundingFeeAmountPerSize \in Nat
      /\ p.claimableFundingAmountPerSize \in [Tokens -> Nat]
  BY <1>1, <1>2
<1>4. Behind(p, k, mk)
  <2>1. p.borrowingFactor <= mk.cumulativeBorrowingFactor[k.isLong]
    BY <1>2
  <2>2. p.fundingFeeAmountPerSize <= mk.fundingFeeAmountPerSize[Side(k)]
    BY <1>1, <1>2
  <2>3. \A t \in Tokens :
          p.claimableFundingAmountPerSize[t] <= mk.claimableFundingAmountPerSize[<<t, k.isLong>>]
    BY <1>1, <1>2
  <2> QED
    BY <2>1, <2>2, <2>3 DEF Behind
<1> QED
  BY <1>3, <1>4

(* The funding fee of a position that is not ahead of the market.           *)
LEMMA FundingFeeType ==
  ASSUME NEW mk \in Market, NEW k \in PositionKeys, NEW p \in Position, Behind(p, k, mk)
  PROVE  FundingFee(mk, k, p) \in Nat
<1> DEFINE latest == mk.fundingFeeAmountPerSize[Side(k)]
           own == p.fundingFeeAmountPerSize
<1>1. latest \in Nat /\ own \in Nat /\ p.sizeInUsd \in Nat
  BY KeyType, AggregatesType, PositionType
<1>2. own <= latest
  BY DEF Behind
<1>3. FundingFee(mk, k, p) = FundingDue(p.sizeInUsd, latest, own, TRUE)
  BY DEF FundingFee
<1>4. FundingDue(p.sizeInUsd, latest, own, TRUE) \in Nat
  <2> HIDE DEF latest, own
  <2> QED
    BY <1>1, <1>2, FundingDueType
<1> QED
  BY <1>3, <1>4

(* The borrowing factor has not fallen since the position was settled.      *)
LEMMA BehindBorrowing ==
  ASSUME NEW mk \in Market, NEW k \in PositionKeys, NEW p \in Position, Behind(p, k, mk)
  PROVE  mk.cumulativeBorrowingFactor[k.isLong] - p.borrowingFactor \in Nat
<1>1. mk.cumulativeBorrowingFactor[k.isLong] \in Nat /\ p.borrowingFactor \in Nat
  BY KeyType, AggregatesType, PositionType
<1>2. p.borrowingFactor <= mk.cumulativeBorrowingFactor[k.isLong]
  BY DEF Behind
<1> QED
  BY <1>1, <1>2

-----------------------------------------------------------------------------
(* What positions get and owe of funding, before it is rounded.             *)

(* The positions with collateral t.                                         *)
KeysIn(t) == {k \in PositionKeys : k.collateral = t}

(* What each position gets and owes of funding since it was settled, before *)
(* it is divided by PerSize.                                                *)
Gets(pos, mk, t) ==
  [k \in PositionKeys |->
     pos[k].sizeInUsd * (mk.claimableFundingAmountPerSize[<<t, k.isLong>>]
                           - pos[k].claimableFundingAmountPerSize[t])]
Owes(pos, mk, t) ==
  [k \in KeysIn(t) |->
     pos[k].sizeInUsd * (mk.fundingFeeAmountPerSize[Side(k)] - pos[k].fundingFeeAmountPerSize)]

(* FundingCovered before anything is rounded, of given values: f + u is     *)
(* what was paid or left unpaid, less what was claimed.                     *)
FundingFits(pos, mk, f, u) ==
  \A t \in Tokens :
    PerSize * Total(mk.claimableFunding[t]) + Total(Gets(pos, mk, t))
      <= PerSize * (f[t] + u[t]) + Total(Owes(pos, mk, t))

(* The open interest in usd is the sum over the positions.                  *)
InterestExact(pos, mk) == \A x \in Sides : Total(Sizes(pos, x)) = mk.openInterest[x]

(* There are finitely many of them.                                         *)
LEMMA KeysInFinite ==
  /\ IsFiniteSet(PositionKeys)
  /\ \A t \in Tokens : KeysIn(t) \subseteq PositionKeys /\ IsFiniteSet(KeysIn(t))
<1>1. \A t : KeysIn(t) \subseteq PositionKeys
  BY DEF KeysIn
<1>2. IsFiniteSet(PositionKeys)
  BY PositionsAssumption
<1> QED
  BY <1>1, <1>2, FS_Subset

(* What a position gets and owes is never negative.                         *)
LEMMA FundingSumsType ==
  ASSUME NEW pos \in [PositionKeys -> Position], NEW mk \in Market, PositionsBehind(pos, mk),
         NEW t \in Tokens
  PROVE  Gets(pos, mk, t) \in [PositionKeys -> Nat] /\ Owes(pos, mk, t) \in [KeysIn(t) -> Nat]
<1>1. ASSUME NEW k \in PositionKeys
      PROVE  /\ pos[k].sizeInUsd * (mk.claimableFundingAmountPerSize[<<t, k.isLong>>]
                                      - pos[k].claimableFundingAmountPerSize[t]) \in Nat
             /\ pos[k].sizeInUsd * (mk.fundingFeeAmountPerSize[Side(k)]
                                      - pos[k].fundingFeeAmountPerSize) \in Nat
  <2> DEFINE n == pos[k].sizeInUsd
             a == mk.claimableFundingAmountPerSize[<<t, k.isLong>>]
             b == pos[k].claimableFundingAmountPerSize[t]
             c == mk.fundingFeeAmountPerSize[Side(k)]
             d == pos[k].fundingFeeAmountPerSize
  <2>1. n \in Nat /\ a \in Nat /\ b \in Nat /\ c \in Nat /\ d \in Nat
    BY KeyType, AggregatesType, PositionType
  <2>2. b <= a /\ d <= c
    BY DEF PositionsBehind, Behind
  <2> HIDE DEF n, a, b, c, d
  <2>3. a - b \in Nat /\ c - d \in Nat
    BY <2>1, <2>2
  <2>4. n * (a - b) \in Nat /\ n * (c - d) \in Nat
    BY <2>1, <2>3, TimesType
  <2> QED
    BY <2>4 DEF n, a, b, c, d
<1> QED
  BY <1>1, KeysInFinite DEF Gets, Owes

(* Factors and claims that stay, and no more paid out, keep funding backed. *)
LEMMA FitsSame ==
  ASSUME NEW pos, NEW mk, NEW mk2, NEW f, NEW u, FundingFits(pos, mk, f, u),
         SameFactors(mk, mk2), mk2.claimableFunding = mk.claimableFunding
  PROVE  FundingFits(pos, mk2, f, u)
<1>1. ASSUME NEW t \in Tokens
      PROVE  Gets(pos, mk2, t) = Gets(pos, mk, t) /\ Owes(pos, mk2, t) = Owes(pos, mk, t)
  BY DEF SameFactors, Gets, Owes
<1> QED
  BY <1>1 DEF FundingFits

(* The sizes of a side, over both collaterals and over one.                 *)
LEMMA SizesOn ==
  ASSUME NEW pos \in [PositionKeys -> Position], NEW b \in BOOLEAN, NEW t \in Tokens
  PROVE  /\ Total([k \in PositionKeys |-> IF k.isLong = b THEN pos[k].sizeInUsd ELSE 0])
              = Total(Sizes(pos, <<LongToken, b>>)) + Total(Sizes(pos, <<ShortToken, b>>))
         /\ Total([k \in KeysIn(t) |-> IF k.isLong = b THEN pos[k].sizeInUsd ELSE 0])
              = Total(Sizes(pos, <<t, b>>))
<1> DEFINE size(k) == IF k.isLong = b THEN pos[k].sizeInUsd ELSE 0
           all == [k \in PositionKeys |-> size(k)]
           mine(z) == [k \in KeysIn(z) |-> size(k)]
           off(z) == KeysIn(z) \ KeysOf(<<z, b>>)
           none(z) == [k \in off(z) |-> 0]
<1>1. \A k \in PositionKeys : size(k) \in Nat
  BY PositionType
<1>2. ASSUME NEW z \in Tokens
      PROVE  mine(z) \in [KeysIn(z) -> Nat] /\ Total(mine(z)) = Total(Sizes(pos, <<z, b>>))
  <2> DEFINE x == <<z, b>>
             g == mine(z)
             s == Sizes(pos, x)
             n == none(z)
             A == KeysOf(x)
             B == off(z)
             S == KeysIn(z)
  <2>1. x \in Sides
    BY DEF Sides
  <2>2. \A k \in PositionKeys : Side(k) = x <=> k.collateral = z /\ k.isLong = b
    BY DEF Side
  <2>3. A \subseteq S /\ A \cap B = {} /\ S = A \cup B
    BY <2>2 DEF KeysOf, KeysIn
  <2>4. IsFiniteSet(A) /\ IsFiniteSet(S) /\ IsFiniteSet(B)
    BY <2>1, KeysFinite, KeysInFinite, FS_Subset
  <2>5. s \in [A -> Nat]
    BY <2>1, SumsType
  <2>6. g \in [S -> Nat] /\ n \in [B -> Nat]
    BY <1>1, KeysInFinite
  <2>7. \A k \in A : g[k] = s[k]
    BY <2>2, <2>3 DEF Sizes, KeysOf, KeysIn
  <2>8. \A k \in B : g[k] = 0 /\ n[k] = 0
    BY <2>2 DEF KeysOf, KeysIn
  <2> HIDE DEF g, s, n, A, B, S
  <2>9. Total(g) = Total(s) + Total(n)
    BY <2>3, <2>4, <2>5, <2>6, <2>7, <2>8, TotalParts
  <2>10. Total(n) = 0 /\ Total(s) \in Nat
    BY <2>4, <2>5, <2>6, <2>8, TotalZero, UnitsFinite
  <2>11. Total(g) = Total(s)
    BY <2>9, <2>10
  <2> QED
    BY <2>6, <2>11 DEF g, s, S
<1>3. Total(all) = Total(mine(LongToken)) + Total(mine(ShortToken))
  <2> DEFINE A == KeysIn(LongToken)
             B == KeysIn(ShortToken)
             f == mine(LongToken)
             g == mine(ShortToken)
  <2>1. \A k \in PositionKeys : k.collateral = LongToken \/ k.collateral = ShortToken
    BY KeyType, TokensPair
  <2>2. A \cap B = {} /\ PositionKeys = A \cup B
    BY <2>1, TokensPair DEF KeysIn
  <2>3. IsFiniteSet(A) /\ IsFiniteSet(B)
    BY KeysInFinite, TokensPair
  <2>4. /\ all \in [PositionKeys -> Nat] /\ f \in [A -> Nat] /\ g \in [B -> Nat]
    BY <1>1, <1>2, TokensPair
  <2>5. (\A k \in A : all[k] = f[k]) /\ (\A k \in B : all[k] = g[k])
    BY <2>2
  <2> HIDE DEF A, B, f, g, all
  <2>6. Total(all) = Total(f) + Total(g)
    BY <2>2, <2>3, <2>4, <2>5, TotalParts
  <2> QED
    BY <2>6 DEF f, g
<1>4. Total(all) = Total(Sizes(pos, <<LongToken, b>>)) + Total(Sizes(pos, <<ShortToken, b>>))
  <2>1. /\ Total(mine(LongToken)) = Total(Sizes(pos, <<LongToken, b>>))
        /\ Total(mine(ShortToken)) = Total(Sizes(pos, <<ShortToken, b>>))
    BY <1>2, TokensPair
  <2> HIDE DEF all, mine
  <2> QED
    BY <1>3, <2>1
<1>5. Total(mine(t)) = Total(Sizes(pos, <<t, b>>))
  BY <1>2
<1> QED
  BY <1>4, <1>5

-----------------------------------------------------------------------------
(* Funding stays backed when the factors grow.                              *)

(* What one position gets or owes more when the factors have grown.         *)
LEMMA SizeTimes ==
  ASSUME NEW n \in Nat, NEW a \in Nat, NEW b \in Nat, NEW c \in Nat, NEW is \in BOOLEAN
  PROVE  n * ((a + (IF is THEN c ELSE 0)) - b) = n * (a - b) + c * (IF is THEN n ELSE 0)
<1>1. CASE is = TRUE
  <2>1. n * ((a + c) - b) = n * (a - b) + c * n
    OBVIOUS
  <2> QED
    BY <1>1, <2>1
<1>2. CASE is = FALSE
  <2>1. n * ((a + 0) - b) = n * (a - b) + c * 0
    OBVIOUS
  <2> QED
    BY <1>2, <2>1
<1> QED
  BY <1>1, <1>2

(* When every position is credited and charged for its size, the sum of     *)
(* what they get grows by no more than the sum of what they owe.            *)
LEMMA FitsGrown ==
  ASSUME NEW pos \in [PositionKeys -> Position], NEW mk \in Market, NEW mk2 \in Market,
         PositionsBehind(pos, mk), PositionsBehind(pos, mk2), InterestExact(pos, mk),
         NEW longsPay \in BOOLEAN, NEW pay \in [Tokens -> Nat], NEW get \in [Tokens -> Nat],
         FundingGrown(mk, mk2, pay, get, longsPay), NEW t \in Tokens
  PROVE  /\ Total(Gets(pos, mk2, t)) = Total(Gets(pos, mk, t)) + OpenInterest(mk, ~longsPay) * get[t]
         /\ Total(Owes(pos, mk2, t)) = Total(Owes(pos, mk, t)) + mk.openInterest[<<t, longsPay>>] * pay[t]
<1> DEFINE gs == Gets(pos, mk, t)
           gs2 == Gets(pos, mk2, t)
           os == Owes(pos, mk, t)
           os2 == Owes(pos, mk2, t)
           other == [k \in PositionKeys |-> IF k.isLong = ~longsPay THEN pos[k].sizeInUsd ELSE 0]
           payers == [k \in KeysIn(t) |-> IF k.isLong = longsPay THEN pos[k].sizeInUsd ELSE 0]
           more == [k \in PositionKeys |-> get[t] * other[k]]
           due == [k \in KeysIn(t) |-> pay[t] * payers[k]]
<1>0. IsFiniteSet(PositionKeys) /\ IsFiniteSet(KeysIn(t))
  BY KeysInFinite
<1>1. /\ gs \in [PositionKeys -> Nat] /\ os \in [KeysIn(t) -> Nat]
      /\ gs2 \in [PositionKeys -> Nat] /\ os2 \in [KeysIn(t) -> Nat]
  BY FundingSumsType
<1>2. get[t] \in Nat /\ pay[t] \in Nat
  OBVIOUS
<1>3. other \in [PositionKeys -> Nat] /\ payers \in [KeysIn(t) -> Nat]
  <2>1. \A k \in PositionKeys : pos[k].sizeInUsd \in Nat
    BY PositionType
  <2> QED
    BY <2>1, KeysInFinite
<1>4. more \in [PositionKeys -> Nat] /\ due \in [KeysIn(t) -> Nat]
  <2>1. \A k \in PositionKeys : get[t] * other[k] \in Nat
    BY <1>2, <1>3, TimesType
  <2>2. \A k \in KeysIn(t) : pay[t] * payers[k] \in Nat
    BY <1>2, <1>3, TimesType
  <2> QED
    BY <2>1, <2>2
<1>5. ASSUME NEW k \in PositionKeys PROVE gs2[k] = gs[k] + more[k]
  <2> DEFINE n == pos[k].sizeInUsd
             x == <<t, k.isLong>>
             a == mk.claimableFundingAmountPerSize[x]
             b == pos[k].claimableFundingAmountPerSize[t]
             c == get[t]
             is == k.isLong = ~longsPay
  <2>0. is \in BOOLEAN
    OBVIOUS
  <2>1. n \in Nat /\ a \in Nat /\ b \in Nat /\ c \in Nat
    BY KeyType, AggregatesType, PositionType
  <2>2. x \in Sides /\ x[1] = t /\ x[2] = k.isLong
    BY KeyType
  <2>3. mk2.claimableFundingAmountPerSize[x] = a + (IF is THEN c ELSE 0)
    <3>1. mk2.claimableFundingAmountPerSize = Grown(mk.claimableFundingAmountPerSize, get, ~longsPay)
      BY DEF FundingGrown
    <3> HIDE DEF x
    <3> QED
      BY <2>2, <3>1 DEF Grown
  <2>4. gs2[k] = n * (mk2.claimableFundingAmountPerSize[x] - b) /\ gs[k] = n * (a - b)
    BY DEF Gets
  <2>5. more[k] = c * (IF is THEN n ELSE 0)
    OBVIOUS
  <2> HIDE DEF n, a, b, c, is, gs, gs2, more
  <2>6. n * ((a + (IF is THEN c ELSE 0)) - b) = n * (a - b) + c * (IF is THEN n ELSE 0)
    BY <2>0, <2>1, SizeTimes
  <2> QED
    BY Zenon, <2>3, <2>4, <2>5, <2>6
<1>6. ASSUME NEW k \in KeysIn(t) PROVE os2[k] = os[k] + due[k]
  <2> DEFINE n == pos[k].sizeInUsd
             x == Side(k)
             a == mk.fundingFeeAmountPerSize[x]
             b == pos[k].fundingFeeAmountPerSize
             c == pay[t]
             is == k.isLong = longsPay
  <2>0. k \in PositionKeys /\ k.collateral = t /\ is \in BOOLEAN
    BY DEF KeysIn
  <2>1. n \in Nat /\ a \in Nat /\ b \in Nat /\ c \in Nat
    BY <2>0, KeyType, AggregatesType, PositionType
  <2>2. x \in Sides /\ x[1] = t /\ x[2] = k.isLong
    BY <2>0, KeyType DEF Side
  <2>3. mk2.fundingFeeAmountPerSize[x] = a + (IF is THEN c ELSE 0)
    <3>1. mk2.fundingFeeAmountPerSize = Grown(mk.fundingFeeAmountPerSize, pay, longsPay)
      BY DEF FundingGrown
    <3> HIDE DEF x
    <3> QED
      BY <2>2, <3>1 DEF Grown
  <2>4. os2[k] = n * (mk2.fundingFeeAmountPerSize[x] - b) /\ os[k] = n * (a - b)
    BY DEF Owes
  <2>5. due[k] = c * (IF is THEN n ELSE 0)
    OBVIOUS
  <2> HIDE DEF n, a, b, c, is, os, os2, due, x
  <2>6. n * ((a + (IF is THEN c ELSE 0)) - b) = n * (a - b) + c * (IF is THEN n ELSE 0)
    BY <2>0, <2>1, SizeTimes
  <2> QED
    BY Zenon, <2>3, <2>4, <2>5, <2>6
<1>7. \A k \in PositionKeys : more[k] = get[t] * other[k]
  OBVIOUS
<1>8. \A k \in KeysIn(t) : due[k] = pay[t] * payers[k]
  OBVIOUS
<1>9. Total(other) = OpenInterest(mk, ~longsPay)
  <2>1. (~longsPay) \in BOOLEAN /\ <<LongToken, ~longsPay>> \in Sides /\ <<ShortToken, ~longsPay>> \in Sides
    BY TokensPair DEF Sides
  <2>2. Total(other) = Total(Sizes(pos, <<LongToken, ~longsPay>>)) + Total(Sizes(pos, <<ShortToken, ~longsPay>>))
    BY <2>1, SizesOn
  <2> QED
    BY <2>1, <2>2 DEF InterestExact, OpenInterest
<1>10. Total(payers) = mk.openInterest[<<t, longsPay>>]
  <2>1. <<t, longsPay>> \in Sides
    BY DEF Sides
  <2>2. Total(payers) = Total(Sizes(pos, <<t, longsPay>>))
    BY SizesOn
  <2> QED
    BY <2>1, <2>2 DEF InterestExact
<1>11. OpenInterest(mk, ~longsPay) \in Nat /\ mk.openInterest[<<t, longsPay>>] \in Nat
  BY OpenInterestType
<1> HIDE DEF gs, gs2, os, os2, other, payers, more, due
<1>12. Total(gs2) = Total(gs) + Total(more) /\ Total(os2) = Total(os) + Total(due)
  <2>1. Total(gs2) = Total(gs) + Total(more)
    BY <1>0, <1>1, <1>4, <1>5, TotalPlus
  <2> DEFINE S == KeysIn(t)
  <2>2. IsFiniteSet(S) /\ os \in [S -> Nat] /\ due \in [S -> Nat] /\ os2 \in [S -> Nat]
    BY <1>0, <1>1, <1>4
  <2>3. \A k \in S : os2[k] = os[k] + due[k]
    BY <1>6
  <2> HIDE DEF S
  <2>4. Total(os2) = Total(os) + Total(due)
    BY <2>2, <2>3, TotalPlus
  <2> QED
    BY <2>1, <2>4
<1>13. Total(more) = get[t] * Total(other)
  BY <1>2, <1>3, <1>4, <1>7, <1>0, TotalTimes
<1>14. Total(due) = pay[t] * Total(payers)
  BY <1>2, <1>3, <1>4, <1>8, <1>0, TotalTimes
<1>15. /\ get[t] * OpenInterest(mk, ~longsPay) = OpenInterest(mk, ~longsPay) * get[t]
       /\ pay[t] * mk.openInterest[<<t, longsPay>>] = mk.openInterest[<<t, longsPay>>] * pay[t]
  BY <1>2, <1>11, TimesAssoc
<1>16. /\ Total(gs2) = Total(gs) + OpenInterest(mk, ~longsPay) * get[t]
       /\ Total(os2) = Total(os) + mk.openInterest[<<t, longsPay>>] * pay[t]
  BY <1>9, <1>10, <1>12, <1>13, <1>14, <1>15
<1> QED
  BY <1>16 DEF gs, gs2, os, os2

(* So bringing the market up to date keeps funding backed.                  *)
LEMMA FitsAccrued ==
  ASSUME NEW pos \in [PositionKeys -> Position], NEW mk \in Market, NEW mk2 \in Market,
         PositionsBehind(pos, mk), PositionsBehind(pos, mk2), InterestExact(pos, mk),
         FundingMoved(mk, mk2), mk2.claimableFunding = mk.claimableFunding,
         NEW f \in [Tokens -> Int], NEW u \in [Tokens -> Int], FundingFits(pos, mk, f, u)
  PROVE  FundingFits(pos, mk2, f, u)
<1>1. CASE FundingSame(mk, mk2)
  <2>1. ASSUME NEW t \in Tokens
        PROVE  Gets(pos, mk2, t) = Gets(pos, mk, t) /\ Owes(pos, mk2, t) = Owes(pos, mk, t)
    BY <1>1 DEF FundingSame, Gets, Owes
  <2> QED
    BY <2>1 DEF FundingFits
<1>2. ASSUME NEW longsPay \in BOOLEAN, NEW pay \in [Tokens -> Nat], NEW get \in [Tokens -> Nat],
             FundingGrown(mk, mk2, pay, get, longsPay)
      PROVE  FundingFits(pos, mk2, f, u)
  <2> SUFFICES ASSUME NEW t \in Tokens
               PROVE  PerSize * Total(mk2.claimableFunding[t]) + Total(Gets(pos, mk2, t))
                        <= PerSize * (f[t] + u[t]) + Total(Owes(pos, mk2, t))
    BY DEF FundingFits
  <2> DEFINE g == Total(Gets(pos, mk, t))
             g2 == Total(Gets(pos, mk2, t))
             o == Total(Owes(pos, mk, t))
             o2 == Total(Owes(pos, mk2, t))
             a == OpenInterest(mk, ~longsPay) * get[t]
             b == mk.openInterest[<<t, longsPay>>] * pay[t]
             l == PerSize * Total(mk.claimableFunding[t])
             r == PerSize * (f[t] + u[t])
  <2>1. g2 = g + a /\ o2 = o + b
    BY <1>2, FitsGrown
  <2>2. a <= b
    BY <1>2 DEF FundingGrown
  <2>3. a \in Nat /\ b \in Nat
    <3>1. OpenInterest(mk, ~longsPay) \in Nat /\ mk.openInterest[<<t, longsPay>>] \in Nat
      BY OpenInterestType
    <3> QED
      BY <3>1, TimesType
  <2>4. g \in Nat /\ o \in Nat
    <3>1. Gets(pos, mk, t) \in [PositionKeys -> Nat] /\ Owes(pos, mk, t) \in [KeysIn(t) -> Nat]
      BY FundingSumsType
    <3> QED
      BY <3>1, KeysInFinite, UnitsFinite
  <2>5. l \in Int /\ r \in Int
    <3>1. Total(mk.claimableFunding[t]) \in Nat
      <4>1. mk.claimableFunding[t] \in [Accounts -> Nat] /\ IsFiniteSet(Accounts)
        BY PositionsAssumption DEF Market
      <4> QED
        BY <4>1, UnitsFinite
    <3>2. f[t] + u[t] \in Int
      OBVIOUS
    <3> QED
      BY <3>1, <3>2, SettingType
  <2>6. l + g <= r + o
    BY DEF FundingFits
  <2>7. PerSize * Total(mk2.claimableFunding[t]) = l
    OBVIOUS
  <2> HIDE DEF g, g2, o, o2, a, b, l, r
  <2>8. l + g2 <= r + o2
    BY <2>1, <2>2, <2>3, <2>4, <2>5, <2>6
  <2> QED
    BY <2>7, <2>8 DEF g2, o2, r
<1> QED
  BY <1>1, <1>2 DEF FundingMoved

-----------------------------------------------------------------------------
(* Funding stays backed when a position is settled.                         *)

(* What is stored of k starts at the market's funding, or has no size.      *)
StartsAt(mk, k, stored) ==
  stored.sizeInUsd > 0 =>
    /\ stored.fundingFeeAmountPerSize = mk.fundingFeeAmountPerSize[Side(k)]
    /\ \A t \in Tokens :
         stored.claimableFundingAmountPerSize[t] = mk.claimableFundingAmountPerSize[<<t, k.isLong>>]

(* `before` has the funding of the position k that is stored, or no size.   *)
FundingStored(pos, k, before) ==
  pos[k].sizeInUsd > 0 =>
    /\ before.fundingFeeAmountPerSize = pos[k].fundingFeeAmountPerSize
    /\ before.claimableFundingAmountPerSize = pos[k].claimableFundingAmountPerSize

(* The funding fee of k is paid or left unpaid.                             *)
FeeEntered(mk, k, before, f, u, f2, u2) ==
  \A t \in Tokens :
    f2[t] + u2[t] = f[t] + u[t] + (IF t = k.collateral THEN FundingFee(mk, k, before) ELSE 0)

(* What k gets is rounded down when it is claimed, what it owes is rounded  *)
(* up when it is paid.                                                      *)
LEMMA SettledRounds ==
  ASSUME NEW pos \in [PositionKeys -> Position], NEW mk \in Market, PositionsBehind(pos, mk),
         NEW k \in PositionKeys, NEW before, Stored(pos, k, before), FundingStored(pos, k, before),
         Behind(before, k, mk), NEW t \in Tokens
  PROVE  /\ ClaimableFunding(mk, k, before, t) \in Nat /\ FundingFee(mk, k, before) \in Nat
         /\ PerSize * ClaimableFunding(mk, k, before, t) <= Gets(pos, mk, t)[k]
         /\ k.collateral = t => Owes(pos, mk, t)[k] <= PerSize * FundingFee(mk, k, before)
<1> DEFINE n == before.sizeInUsd
           a == mk.claimableFundingAmountPerSize[<<t, k.isLong>>]
           b == before.claimableFundingAmountPerSize[t]
           c == mk.fundingFeeAmountPerSize[Side(k)]
           d == before.fundingFeeAmountPerSize
           claim == ClaimableFunding(mk, k, before, t)
           fee == FundingFee(mk, k, before)
<1>1. n \in Nat /\ a \in Nat /\ b \in Nat /\ c \in Nat /\ d \in Nat
  <2>1. before \in Position
    BY DEF Stored
  <2> QED
    BY <2>1, KeyType, AggregatesType, PositionType
<1>2. b <= a /\ d <= c
  BY DEF Behind
<1>3. claim = (n * (a - b)) \div PerSize /\ fee = RoundUpDivision(n * (c - d), PerSize)
  BY DEF ClaimableFunding, FundingFee, FundingDue
<1>4. Gets(pos, mk, t)[k] = n * (a - b)
  <2> DEFINE e == pos[k].claimableFundingAmountPerSize[t]
  <2>1. Gets(pos, mk, t)[k] = n * (a - e)
    BY DEF Gets, Stored
  <2>2. e \in Nat
    BY PositionType
  <2>3. n > 0 => e = b
    BY DEF Stored, FundingStored
  <2> HIDE DEF n, a, b, e
  <2>4. n = 0 => n * (a - e) = 0 /\ n * (a - b) = 0
    BY <1>1, <2>2
  <2> QED
    BY <1>1, <2>1, <2>3, <2>4
<1>5. k.collateral = t => Owes(pos, mk, t)[k] = n * (c - d)
  <2> DEFINE e == pos[k].fundingFeeAmountPerSize
  <2>1. k.collateral = t => Owes(pos, mk, t)[k] = n * (c - e)
    BY DEF Owes, KeysIn, Stored
  <2>2. e \in Nat
    BY PositionType
  <2>3. n > 0 => e = d
    BY DEF Stored, FundingStored
  <2> HIDE DEF n, c, d, e
  <2>4. n = 0 => n * (c - e) = 0 /\ n * (c - d) = 0
    BY <1>1, <2>2
  <2> QED
    BY <1>1, <2>1, <2>3, <2>4
<1> HIDE DEF n, a, b, c, d, claim, fee
<1> DEFINE g == n * (a - b)
           o == n * (c - d)
<1>6. g \in Nat /\ o \in Nat
  <2>1. a - b \in Nat /\ c - d \in Nat
    BY <1>1, <1>2
  <2> QED
    BY <1>1, <2>1, TimesType
<1>7. claim = g \div PerSize /\ fee = RoundUpDivision(o, PerSize)
  BY <1>3
<1>8. Gets(pos, mk, t)[k] = g /\ (k.collateral = t => Owes(pos, mk, t)[k] = o)
  BY <1>4, <1>5
<1> HIDE DEF g, o
<1>9. claim \in Nat /\ fee \in Nat
  BY <1>6, <1>7, SettingType, DivType, RoundUpType
<1>10. claim * PerSize <= g /\ o <= fee * PerSize
  BY <1>6, <1>7, SettingType, DivTimes
<1>11. PerSize * claim <= g /\ o <= PerSize * fee
  BY <1>9, <1>10, SettingType, TimesAssoc
<1> QED
  BY <1>8, <1>9, <1>11 DEF claim, fee

(* Settling one position moves what it gets into what can be claimed, and   *)
(* what it owes into what is paid or left unpaid.                           *)
LEMMA FitsSettled ==
  ASSUME NEW pos \in [PositionKeys -> Position], NEW mk \in Market, NEW mk2 \in Market,
         PositionsBehind(pos, mk), NEW k \in PositionKeys, NEW before, Stored(pos, k, before),
         FundingStored(pos, k, before), Behind(before, k, mk),
         NEW stored \in Position, StartsAt(mk, k, stored),
         SameFactors(mk, mk2), FundingClaimed(mk, k, before, mk2),
         NEW f \in [Tokens -> Int], NEW u \in [Tokens -> Int],
         NEW f2 \in [Tokens -> Int], NEW u2 \in [Tokens -> Int],
         FeeEntered(mk, k, before, f, u, f2, u2), FundingFits(pos, mk, f, u)
  PROVE  FundingFits([pos EXCEPT ![k] = stored], mk2, f2, u2)
<1> DEFINE pos2 == [pos EXCEPT ![k] = stored]
<1> SUFFICES ASSUME NEW t \in Tokens
             PROVE  PerSize * Total(mk2.claimableFunding[t]) + Total(Gets(pos2, mk2, t))
                      <= PerSize * (f2[t] + u2[t]) + Total(Owes(pos2, mk2, t))
  BY DEF FundingFits
<1>0. pos2[k] = stored /\ \A j \in PositionKeys : j # k => pos2[j] = pos[j]
  OBVIOUS
<1> HIDE DEF pos2
<1> DEFINE gs == Gets(pos, mk, t)
           gs2 == Gets(pos2, mk2, t)
           os == Owes(pos, mk, t)
           os2 == Owes(pos2, mk2, t)
           cs == mk.claimableFunding[t]
           cs2 == mk2.claimableFunding[t]
           claim == ClaimableFunding(mk, k, before, t)
           fee == FundingFee(mk, k, before)
           account == k.account
           S == KeysIn(t)
           mine == t = k.collateral
<1>1. IsFiniteSet(PositionKeys) /\ IsFiniteSet(S) /\ IsFiniteSet(Accounts)
  BY KeysInFinite, PositionsAssumption
<1>2. gs \in [PositionKeys -> Nat] /\ os \in [S -> Nat]
  BY FundingSumsType
<1>3. /\ claim \in Nat /\ fee \in Nat /\ PerSize * claim <= gs[k]
      /\ mine => os[k] <= PerSize * fee
  BY SettledRounds
<1>4. /\ mk2.fundingFeeAmountPerSize = mk.fundingFeeAmountPerSize
      /\ mk2.claimableFundingAmountPerSize = mk.claimableFundingAmountPerSize
  BY DEF SameFactors
<1>5. \A j \in PositionKeys \ {k} : gs2[j] = gs[j]
  BY <1>0, <1>4 DEF Gets
<1>6. \A j \in S \ {k} : os2[j] = os[j]
  BY <1>0, <1>4 DEF Owes, KeysIn
<1>7. mine <=> k \in S
  BY DEF KeysIn
<1>8. gs2[k] = 0 /\ (mine => os2[k] = 0)
  <2> DEFINE n == stored.sizeInUsd
             a == mk.claimableFundingAmountPerSize[<<t, k.isLong>>]
             b == stored.claimableFundingAmountPerSize[t]
             c == mk.fundingFeeAmountPerSize[Side(k)]
             d == stored.fundingFeeAmountPerSize
  <2>1. n \in Nat /\ a \in Nat /\ b \in Nat /\ c \in Nat /\ d \in Nat
    BY KeyType, AggregatesType, PositionType
  <2>2. n > 0 => a = b /\ c = d
    BY DEF StartsAt
  <2>3. gs2[k] = n * (a - b)
    BY <1>0, <1>4 DEF Gets
  <2>4. mine => os2[k] = n * (c - d)
    BY <1>0, <1>4, <1>7 DEF Owes
  <2> HIDE DEF n, a, b, c, d, gs2, os2
  <2>5. n * (a - b) = 0 /\ n * (c - d) = 0
    <3>1. CASE n = 0
      BY <2>1, <3>1
    <3>2. CASE n > 0
      <4>1. a - b = 0 /\ c - d = 0
        BY <2>1, <2>2, <3>2
      <4> QED
        BY <2>1, <4>1
    <3> QED
      BY <2>1, <3>1, <3>2
  <2> QED
    BY <2>3, <2>4, <2>5
<1>9. gs2 \in [PositionKeys -> Nat] /\ os2 \in [S -> Nat]
  <2>1. gs2 = [j \in PositionKeys |-> gs2[j]] /\ os2 = [j \in S |-> os2[j]]
    BY DEF Gets, Owes
  <2> HIDE DEF gs, gs2, os, os2, S, mine
  <2>2. \A j \in PositionKeys : gs2[j] \in Nat
    BY <1>2, <1>5, <1>8
  <2>3. \A j \in S : os2[j] \in Nat
    BY <1>2, <1>6, <1>7, <1>8
  <2> QED
    BY <2>1, <2>2, <2>3
<1>10. Total(gs2) = Total(gs) - gs[k] /\ Total(gs) \in Nat /\ gs[k] \in Nat
  <2> HIDE DEF gs, gs2
  <2>1. Total(gs2) = Total(gs) - gs[k] + gs2[k]
    BY <1>1, <1>2, <1>5, <1>9, TotalUpdate
  <2>2. Total(gs) \in Nat /\ gs[k] \in Nat
    BY <1>1, <1>2, UnitsFinite
  <2> QED
    BY <1>8, <2>1, <2>2
<1>11. Total(os) \in Nat /\ (mine => os[k] \in Nat /\ Total(os2) = Total(os) - os[k])
       /\ (~mine => Total(os2) = Total(os))
  <2> HIDE DEF os, os2, S, mine
  <2>1. Total(os) \in Nat
    BY <1>1, <1>2, UnitsFinite
  <2>2. CASE mine
    <3>1. Total(os2) = Total(os) - os[k] + os2[k] /\ os[k] \in Nat
      BY <1>1, <1>2, <1>6, <1>7, <1>9, <2>2, TotalUpdate
    <3> QED
      BY <1>8, <2>1, <2>2, <3>1
  <2>3. CASE ~mine
    <3>1. os2 = os
      BY <1>2, <1>6, <1>7, <1>9, <2>3
    <3> QED
      BY <2>1, <2>3, <3>1
  <2> QED
    BY <2>2, <2>3
<1>12. Total(cs) \in Nat /\ Total(cs2) = Total(cs) + claim
  <2>1. cs \in [Accounts -> Nat] /\ cs2 \in [Accounts -> Nat] /\ account \in Accounts
    BY KeyType DEF Market
  <2>2. cs2 = [cs EXCEPT ![account] = @ + claim]
    BY DEF FundingClaimed
  <2> HIDE DEF cs, cs2, claim, account
  <2>3. cs2[account] = cs[account] + claim /\ \A j \in Accounts \ {account} : cs2[j] = cs[j]
    BY <2>1, <2>2
  <2>4. Total(cs2) = Total(cs) - cs[account] + cs2[account]
    BY <1>1, <2>1, <2>3, TotalUpdate
  <2>5. Total(cs) \in Nat /\ cs[account] \in Nat
    BY <1>1, <2>1, UnitsFinite
  <2> QED
    BY <1>3, <2>3, <2>4, <2>5
<1> DEFINE P == PerSize
           C == Total(cs)
           G == Total(gs)
           O == Total(os)
           F == f[t] + u[t]
           F2 == f2[t] + u2[t]
           g == gs[k]
           o == os[k]
<1>13. P \in Nat /\ F \in Int
  BY SettingType
<1>14. P * C + G <= P * F + O
  BY DEF FundingFits
<1>15. F2 = F + (IF mine THEN fee ELSE 0)
  BY DEF FeeEntered
<1> DEFINE G2 == Total(gs2)
           O2 == Total(os2)
           C2 == Total(cs2)
<1>16. P * C2 + G2 <= P * F2 + O2
  <2>1. G2 = G - g /\ G \in Nat /\ g \in Nat /\ C \in Nat /\ C2 = C + claim
    BY <1>10, <1>12
  <2>2. O \in Nat /\ (mine => o \in Nat /\ O2 = O - o) /\ (~mine => O2 = O)
    BY <1>11
  <2>3. P * claim <= g /\ (mine => o <= P * fee) /\ claim \in Nat /\ fee \in Nat
    BY <1>3
  <2> HIDE DEF P, C, G, O, F, F2, g, o, G2, O2, C2, claim, fee, mine
  <2>4. P * C2 = P * C + P * claim /\ P * C \in Int /\ P * F \in Int /\ P * claim \in Int
    BY <1>13, <2>1, <2>3
  <2>5. P * fee \in Int /\ P * (F + fee) = P * F + P * fee
    BY <1>13, <2>3
  <2> DEFINE pc == P * C
             pf == P * F
             pd == P * claim
             pe == P * fee
             pc2 == P * C2
             pf2 == P * F2
  <2>6. pc2 = pc + pd /\ pc \in Int /\ pd \in Int /\ pf \in Int /\ pe \in Int
    BY <2>4, <2>5
  <2>7. pc + G <= pf + O /\ pd <= g /\ (mine => o <= pe)
    BY <1>14, <2>3
  <2>8. (mine => pf2 = pf + pe) /\ (~mine => pf2 = pf)
    <3>1. CASE mine
      <4>1. F2 = F + fee
        BY <1>15, <3>1
      <4> QED
        BY <2>5, <3>1, <4>1
    <3>2. CASE ~mine
      <4>1. F2 = F + 0
        BY <1>15, <3>2
      <4>2. F2 = F
        BY <1>13, <4>1
      <4> QED
        BY <3>2, <4>2
    <3> QED
      BY <3>1, <3>2
  <2> HIDE DEF pc, pf, pd, pe, pc2, pf2
  <2>9. pc2 + G2 <= pf2 + O2
    <3>1. CASE mine
      BY <2>1, <2>2, <2>6, <2>7, <2>8, <3>1
    <3>2. CASE ~mine
      BY <2>1, <2>2, <2>6, <2>7, <2>8, <3>2
    <3> QED
      BY <3>1, <3>2
  <2> QED
    BY <2>9 DEF pc2, pf2
<1> QED
  BY <1>16 DEF P, C2, G2, F2, O2

-----------------------------------------------------------------------------
(* What funding that is backed means once it is rounded.                    *)

(* A positive factor cancels, of integers too.                              *)
LEMMA CancelFactor ==
  ASSUME NEW a \in Int, NEW b \in Int, NEW c \in Nat, c > 0, c * a <= c * b
  PROVE  a <= b
<1> SUFFICES ASSUME a > b PROVE FALSE
  OBVIOUS
<1> DEFINE d == a - b
<1>1. d \in Nat /\ 1 <= d /\ 1 \in Nat
  OBVIOUS
<1>2. c * d = c * a - c * b /\ c * a \in Int /\ c * b \in Int
  OBVIOUS
<1> HIDE DEF d
<1>3. c * 1 <= c * d /\ c * 1 = c
  BY <1>1, TimesMonotone
<1> DEFINE x == c * a
           y == c * b
           z == c * d
<1>4. x <= y /\ x \in Int /\ y \in Int /\ z = x - y /\ c <= z
  BY <1>2, <1>3
<1> HIDE DEF x, y, z
<1> QED
  BY <1>4

(* What is backed before it is rounded is covered when it is: claims are    *)
(* rounded down and fees up.                                                *)
LEMMA FitsCovers ==
  ASSUME NEW pos \in [PositionKeys -> Position], NEW mk \in Market, PositionsBehind(pos, mk),
         NEW f \in [Tokens -> Int], NEW u \in [Tokens -> Int], FundingFits(pos, mk, f, u),
         NEW t \in Tokens
  PROVE  Total(mk.claimableFunding[t]) + Total([k \in PositionKeys |-> ClaimableFunding(mk, k, pos[k], t)])
           <= f[t] + Total([k \in {k \in PositionKeys : k.collateral = t} |-> FundingFee(mk, k, pos[k])]) + u[t]
<1> DEFINE gs == Gets(pos, mk, t)
           os == Owes(pos, mk, t)
           S == KeysIn(t)
           claims == [k \in PositionKeys |-> ClaimableFunding(mk, k, pos[k], t)]
           fees == [k \in S |-> FundingFee(mk, k, pos[k])]
           claims2 == [k \in PositionKeys |-> PerSize * claims[k]]
           fees2 == [k \in S |-> PerSize * fees[k]]
           cs == mk.claimableFunding[t]
<1>1. IsFiniteSet(PositionKeys) /\ IsFiniteSet(S) /\ IsFiniteSet(Accounts)
  BY KeysInFinite, PositionsAssumption
<1>2. gs \in [PositionKeys -> Nat] /\ os \in [S -> Nat]
  BY FundingSumsType
<1>3. ASSUME NEW k \in PositionKeys
      PROVE  /\ ClaimableFunding(mk, k, pos[k], t) \in Nat /\ FundingFee(mk, k, pos[k]) \in Nat
             /\ PerSize * ClaimableFunding(mk, k, pos[k], t) <= gs[k]
             /\ k.collateral = t => os[k] <= PerSize * FundingFee(mk, k, pos[k])
  <2> DEFINE p == pos[k]
  <2>1. Stored(pos, k, p) /\ FundingStored(pos, k, p) /\ Behind(p, k, mk)
    BY DEF Stored, FundingStored, PositionsBehind
  <2> HIDE DEF p, gs, os
  <2>2. /\ ClaimableFunding(mk, k, p, t) \in Nat /\ FundingFee(mk, k, p) \in Nat
        /\ PerSize * ClaimableFunding(mk, k, p, t) <= gs[k]
        /\ k.collateral = t => os[k] <= PerSize * FundingFee(mk, k, p)
    BY <2>1, SettledRounds DEF gs, os
  <2> QED
    BY <2>2 DEF p
<1>4. S \subseteq PositionKeys /\ \A k \in S : k.collateral = t
  BY DEF KeysIn
<1>5. claims \in [PositionKeys -> Nat] /\ \A k \in PositionKeys : PerSize * claims[k] <= gs[k]
  BY <1>3
<1>6. fees \in [S -> Nat] /\ \A k \in S : os[k] <= PerSize * fees[k]
  BY <1>3, <1>4
<1>7. /\ claims = [k \in PositionKeys |-> ClaimableFunding(mk, k, pos[k], t)]
      /\ fees = [k \in {k \in PositionKeys : k.collateral = t} |-> FundingFee(mk, k, pos[k])]
  BY DEF KeysIn
<1> HIDE DEF gs, os, S, claims, fees
<1>8. claims2 \in [PositionKeys -> Nat] /\ \A k \in PositionKeys : claims2[k] = PerSize * claims[k]
  BY <1>5, SettingType, TimesType
<1>9. fees2 \in [S -> Nat] /\ \A k \in S : fees2[k] = PerSize * fees[k]
  BY <1>6, SettingType, TimesType
<1> HIDE DEF claims2, fees2
<1>10. Total(claims2) = PerSize * Total(claims) /\ Total(fees2) = PerSize * Total(fees)
  <2>1. Total(claims2) = PerSize * Total(claims)
    BY <1>1, <1>5, <1>8, SettingType, TotalTimes
  <2>2. Total(fees2) = PerSize * Total(fees)
    BY <1>1, <1>6, <1>9, SettingType, TotalTimes
  <2> QED
    BY <2>1, <2>2
<1>11. Total(claims2) <= Total(gs) /\ Total(os) <= Total(fees2)
  <2>1. \A k \in PositionKeys : claims2[k] <= gs[k]
    BY <1>5, <1>8
  <2>2. \A k \in S : os[k] <= fees2[k]
    BY <1>6, <1>9
  <2>3. Total(claims2) <= Total(gs)
    BY <1>1, <1>2, <1>8, <2>1, TotalAtMost
  <2>4. Total(os) <= Total(fees2)
    BY <1>1, <1>2, <1>9, <2>2, TotalAtMost
  <2> QED
    BY <2>3, <2>4
<1>12. cs \in [Accounts -> Nat]
  BY DEF Market
<1>13. /\ Total(cs) \in Nat /\ Total(claims) \in Nat /\ Total(fees) \in Nat
       /\ Total(gs) \in Nat /\ Total(os) \in Nat
  BY <1>1, <1>2, <1>5, <1>6, <1>12, UnitsFinite
<1> DEFINE C == Total(cs)
           D == Total(claims)
           E == Total(fees)
           G == Total(gs)
           O == Total(os)
           F == f[t] + u[t]
<1>14. PerSize * C + G <= PerSize * F + O
  BY DEF FundingFits, gs, os
<1>15. PerSize * D <= G /\ O <= PerSize * E
  BY <1>10, <1>11
<1>16. C \in Nat /\ D \in Nat /\ E \in Nat /\ G \in Nat /\ O \in Nat /\ F \in Int
  BY <1>13
<1> HIDE DEF C, D, E, G, O, F
<1>17. C + D <= F + E
  <2>1. PerSize * (C + D) = PerSize * C + PerSize * D /\ PerSize * (F + E) = PerSize * F + PerSize * E
    BY <1>16, SettingType
  <2>2. PerSize * C \in Int /\ PerSize * D \in Int /\ PerSize * F \in Int /\ PerSize * E \in Int
    BY <1>16, SettingType
  <2> DEFINE a == PerSize * C
             b == PerSize * D
             c == PerSize * F
             d == PerSize * E
  <2>3. a + G <= c + O /\ b <= G /\ O <= d /\ a \in Int /\ b \in Int /\ c \in Int /\ d \in Int
    BY <1>14, <1>15, <2>2
  <2>4. PerSize * (C + D) = a + b /\ PerSize * (F + E) = c + d
    BY <2>1
  <2> HIDE DEF a, b, c, d
  <2>5. PerSize * (C + D) <= PerSize * (F + E)
    BY <1>16, <2>3, <2>4
  <2> QED
    BY <1>16, <2>5, SettingType, CancelFactor
<1>18. Total(cs) + Total(claims) <= f[t] + Total(fees) + u[t]
  BY <1>13, <1>17 DEF C, D, E, F
<1> QED
  BY <1>7, <1>18

(* A step taken with the books mk keeps funding backed.                     *)
FundingKept(mk) ==
  FundingFits(positions, mk, funding, unpaid) => FundingFits(positions', market', funding', unpaid')

(* The usd size of longs is no more than their tokens would be worth if one *)
(* unit were worth a smallest position: part of a long that is left when it *)
(* is decreased has a token then, although the tokens taken are rounded up. *)
UnitsFine ==
  \A k \in PositionKeys :
    k.isLong => positions[k].sizeInUsd <= positions[k].sizeInTokens * Setting.minPositionSizeUsd

(* A step taken with the books mk keeps those of a side exact.              *)
ExactKept(mk, b) == ExactOn(positions, mk, b) => ExactOn(positions', market', b)

ExactHeld(mk) == \A b \in BOOLEAN : (b => UnitsFine) => ExactKept(mk, b)

(* A position that is increased has the funding that is stored, or no size. *)
LEMMA OpenedFunding ==
  ASSUME positions \in [PositionKeys -> Position], NEW mk, NEW k \in PositionKeys
  PROVE  FundingStored(positions, k, Opened(mk, k))
BY DEF FundingStored, Opened

(* What is up to date starts at the market's funding.                       *)
LEMMA LatestStarts ==
  ASSUME NEW mk, NEW k, NEW p,
         p.fundingFeeAmountPerSize = LatestOf(mk, k).fundingFeeAmountPerSize,
         p.claimableFundingAmountPerSize = LatestOf(mk, k).claimableFundingAmountPerSize
  PROVE  StartsAt(mk, k, p)
BY DEF StartsAt, LatestOf

(* A position that is settled and stored, with books that enter no funding  *)
(* besides.                                                                 *)
LEMMA SettledKeepsFunding ==
  ASSUME PositionsInv, NEW mk \in Market, PositionsBehind(positions, mk), NEW k \in PositionKeys,
         NEW before, Stored(positions, k, before), FundingStored(positions, k, before),
         Behind(before, k, mk), NEW stored \in Position, StartsAt(mk, k, stored),
         NEW mk2, FundingClaimed(mk, k, before, mk2), market' \in Market, SameFactors(mk, market'),
         market'.claimableFunding = mk2.claimableFunding,
         positions' = [positions EXCEPT ![k] = stored],
         funding' \in [Tokens -> Int], unpaid' \in [Tokens -> Nat],
         FeeEntered(mk, k, before, funding, unpaid, funding', unpaid')
  PROVE  FundingKept(mk)
<1> SUFFICES ASSUME FundingFits(positions, mk, funding, unpaid)
             PROVE  FundingFits(positions', market', funding', unpaid')
  BY DEF FundingKept
<1> DEFINE last == market'
           f2 == funding'
           u2 == unpaid'
<1>1. /\ positions \in [PositionKeys -> Position] /\ funding \in [Tokens -> Int]
      /\ unpaid \in [Tokens -> Int] /\ u2 \in [Tokens -> Int] /\ f2 \in [Tokens -> Int]
  BY InvUse
<1>2. FundingClaimed(mk, k, before, last)
  BY DEF FundingClaimed
<1>3. last \in Market /\ SameFactors(mk, last) /\ FeeEntered(mk, k, before, funding, unpaid, f2, u2)
  OBVIOUS
<1> HIDE DEF last, f2, u2
<1>4. FundingFits([positions EXCEPT ![k] = stored], last, f2, u2)
  BY <1>1, <1>2, <1>3, FitsSettled
<1> QED
  BY <1>4 DEF last, f2, u2

(* Settling a position keeps its side exact when what is stored of it is    *)
(* what is entered in the aggregates.                                       *)
LEMMA SettledKeepsExact ==
  ASSUME NEW mk, NEW taken, SamePositionBooks(mk, taken), NEW k, NEW after, NEW stored, NEW st,
         ExactSettled(positions, taken, k, after, stored, st),
         SamePositionBooks(st, market'), positions' = [positions EXCEPT ![k] = stored],
         NEW b \in BOOLEAN, b = k.isLong => KeptExactly(after, stored)
  PROVE  ExactKept(mk, b)
<1> SUFFICES ASSUME ExactOn(positions, mk, b) PROVE ExactOn(positions', market', b)
  BY DEF ExactKept
<1>1. ExactOn(positions, taken, b)
  BY ExactSame
<1>2. ExactOn([positions EXCEPT ![k] = stored], st, b)
  BY <1>1 DEF ExactSettled
<1> DEFINE last == market'
           pos2 == [positions EXCEPT ![k] = stored]
<1>3. SamePositionBooks(st, last)
  OBVIOUS
<1> HIDE DEF last, pos2
<1>4. ExactOn(pos2, last, b)
  BY <1>2, <1>3, ExactSame DEF pos2
<1> QED
  BY <1>4 DEF last, pos2

-----------------------------------------------------------------------------
(* Increasing a position.                                                   *)

(* What an increase computes has its type.                                  *)
LEMMA IncreaseAmountsType ==
  ASSUME NEW mk \in Market, NEW k \in PositionKeys, NEW s \in Situations, NEW d \in Nat
  PROVE  /\ IncreaseAmounts(mk, k, s, d).positive \in BOOLEAN
         /\ IncreaseAmounts(mk, k, s, d).impactAmount \in Int
         /\ IncreaseAmounts(mk, k, s, d).tokens \in Int
<1> DEFINE impact == IF d = 0 THEN 0 ELSE CappedImpact(mk, s, s.impact, d)
           gain == impact \div s.index.max
           loss == RoundUpDivision(-impact, s.index.min)
           amount == IF impact > 0 THEN gain ELSE -loss
           low == d \div s.index.max
           high == RoundUpDivision(d, s.index.min)
           tokens == IF k.isLong THEN low + amount ELSE high - amount
           r == IncreaseAmounts(mk, k, s, d)
<1>1. r = [positive |-> impact > 0, impactAmount |-> amount, tokens |-> tokens]
  BY Zenon DEF IncreaseAmounts
<1>2. impact \in Int
  <2>1. mk.positionImpactPool \in Nat
    BY DEF Market
  <2> QED
    BY <2>1, ImpactType
<1> HIDE DEF impact
<1>3. /\ s.index.min \in Nat /\ s.index.min > 0 /\ s.index.max \in Nat /\ s.index.max > 0
  BY SituationType
<1>4. low \in Nat /\ high \in Nat
  BY <1>3, DivType, RoundUpType
<1>5. amount \in Int
  <2>1. CASE impact > 0
    <3>1. impact \in Nat
      BY <1>2, <2>1
    <3>2. gain \in Nat
      BY <1>3, <3>1, DivType
    <3> HIDE DEF gain, loss
    <3> QED
      BY <2>1, <3>2
  <2>2. CASE ~(impact > 0)
    <3>1. -impact \in Nat
      BY <1>2, <2>2
    <3>2. loss \in Nat
      BY <1>3, <3>1, RoundUpType
    <3> HIDE DEF gain, loss
    <3> QED
      BY <2>2, <3>2
  <2> QED
    BY <2>1, <2>2
<1> HIDE DEF amount, low, high
<1>6. tokens \in Int
  BY <1>4, <1>5
<1> DEFINE grows == impact > 0
<1>7. grows \in BOOLEAN
  OBVIOUS
<1> HIDE DEF tokens, r, grows
<1>8. r = [positive |-> grows, impactAmount |-> amount, tokens |-> tokens]
  BY <1>1 DEF grows
<1>9. r.positive = grows /\ r.impactAmount = amount /\ r.tokens = tokens
  BY <1>8
<1> QED
  BY <1>5, <1>6, <1>7, <1>9 DEF r

(* IncreasePosition keeps the invariant, and funding backed.                *)
LEMMA IncreaseKeepsInv ==
  ASSUME PositionsInv, actions < MaxActions, NEW k \in PositionKeys, NEW in \in Nat, NEW d \in Nat,
         NEW s \in Situations, NEW mk, Sound(positions, mk), SameTokens(market, mk),
         IncreasePosition(k, in, d, s, mk)
  PROVE  PositionsInv' /\ FundingKept(mk) /\ ExactHeld(mk)
<1> DEFINE c == k.collateral
           p == Opened(mk, k)
           size == IncreaseAmounts(mk, k, s, d)
           fees == PositionFees(mk, k, p, s, d, size.positive, Setting.uiFeeFactor)
           funded == FundingFee(mk, k, p)
           left == p.collateralAmount + in - fees.cost - funded
           next == Increased(mk, k, p, d, size.tokens, left)
           st == Settled(mk, k, p, next, next.borrowingFactor)
           after == Entered(st, c, fees, size.impactAmount)
<1>1. /\ balance' = Plus(balance, Of(c, in)) /\ funding' = Plus(funding, Of(c, funded))
      /\ fees.pool >= 0 /\ next.collateralAmount >= 0
      /\ FinishIncrease(k, d, s, next, after)
      /\ UNCHANGED <<unpaid, stranded, uncovered>> /\ Took
  <2> DEFINE Feed(q, z) == PositionFees(mk, k, q, s, d, z.positive, Setting.uiFeeFactor)
             Next1(q, z, f, g) == Increased(mk, k, q, d, z.tokens, q.collateralAmount + in - f.cost - g)
             Last(q, z, f, g, n) ==
               /\ f.pool >= 0 /\ n.collateralAmount >= 0
               /\ d > 0 => z.tokens > 0
               /\ FinishIncrease(k, d, s, n, Entered(Settled(mk, k, q, n, n.borrowingFactor), c, f, z.impactAmount))
               /\ funding' = Plus(funding, Of(c, g))
  <2>1. /\ balance' = Plus(balance, Of(c, in))
        /\ \E q \in {Opened(mk, k)}, z \in {IncreaseAmounts(mk, k, s, d)} :
             \E f \in {Feed(q, z)}, g \in {FundingFee(mk, k, q)} :
             \E n \in {Next1(q, z, f, g)} : Last(q, z, f, g, n)
        /\ UNCHANGED <<unpaid, stranded, uncovered>> /\ Took
    BY Zenon DEF IncreasePosition, Entered
  <2> HIDE DEF Feed, Next1, Last
  <2>2. Last(p, size, Feed(p, size), FundingFee(mk, k, p), Next1(p, size, Feed(p, size), FundingFee(mk, k, p)))
    BY Zenon, <2>1
  <2> QED
    BY Zenon, <2>1, <2>2 DEF Feed, Next1, Last
<1>2. /\ positions' = [positions EXCEPT ![k] = next] /\ market' = after /\ next.sizeInTokens > 0
  BY <1>1 DEF FinishIncrease
<1>3. /\ mk \in Market /\ BooksCover(positions, mk) /\ PositionsBehind(positions, mk) /\ ClaimsMatch(mk)
  BY DEF Sound
<1>4. /\ positions \in [PositionKeys -> Position] /\ market \in Market
      /\ balance \in [Tokens -> Nat] /\ unpaid \in [Tokens -> Nat]
      /\ stranded \in [Tokens -> Nat] /\ uncovered \in [Tokens -> Nat]
      /\ funding \in [Tokens -> Int] /\ actions \in 0..MaxActions
      /\ Balanced(balance, uncovered, market, funding, stranded)
  BY InvUse
<1>5. Stored(positions, k, p) /\ Behind(p, k, mk)
  BY <1>3, <1>4, OpenedType
<1>5a. FundingStored(positions, k, p)
  BY <1>4, OpenedFunding
<1> HIDE DEF p
<1>6. /\ p \in Position /\ p.sizeInUsd \in Nat /\ p.sizeInTokens \in Nat /\ p.collateralAmount \in Nat
  BY <1>5, PositionType DEF Stored
<1>7. size.positive \in BOOLEAN /\ size.impactAmount \in Int /\ size.tokens \in Int
  BY <1>3, IncreaseAmountsType
<1> HIDE DEF size
<1>8. FeesSplit(fees)
  <2>1. mk.cumulativeBorrowingFactor[k.isLong] - p.borrowingFactor \in Nat
    BY <1>3, <1>5, <1>6, BehindBorrowing
  <2>2. Setting.uiFeeFactor \in Nat
    BY SettingType
  <2> QED
    BY <1>6, <1>7, <2>1, <2>2, PositionFeesSplit
<1> HIDE DEF fees
<1>9. funded \in Nat
  BY <1>3, <1>5, <1>6, FundingFeeType
<1>9a. funded = FundingFee(mk, k, p)
  OBVIOUS
<1> HIDE DEF funded
<1>10. fees.cost \in Nat
  BY <1>8 DEF FeesSplit
<1>11. left \in Int
  BY <1>6, <1>9, <1>10
<1>12. /\ next.sizeInUsd = p.sizeInUsd + d /\ next.sizeInTokens = p.sizeInTokens + size.tokens
       /\ next.collateralAmount = left
       /\ next.borrowingFactor = mk.cumulativeBorrowingFactor[k.isLong]
       /\ next.fundingFeeAmountPerSize = LatestOf(mk, k).fundingFeeAmountPerSize
       /\ next.claimableFundingAmountPerSize = LatestOf(mk, k).claimableFundingAmountPerSize
       /\ next = [sizeInUsd |-> next.sizeInUsd, sizeInTokens |-> next.sizeInTokens,
                  collateralAmount |-> next.collateralAmount, borrowingFactor |-> next.borrowingFactor,
                  fundingFeeAmountPerSize |-> next.fundingFeeAmountPerSize,
                  claimableFundingAmountPerSize |-> next.claimableFundingAmountPerSize]
  <2> HIDE DEF left
  <2> QED
    BY DEF Increased
<1>13. /\ next.sizeInUsd \in Nat /\ next.sizeInTokens \in Nat /\ next.collateralAmount \in Nat
       /\ left \in Nat
  <2> HIDE DEF next, left
  <2> QED
    BY <1>1, <1>2, <1>6, <1>7, <1>11, <1>12
<1> HIDE DEF next
<1>14. Behind(next, k, mk) /\ next \in Position
  <2>1. /\ Behind(next, k, mk) /\ next.borrowingFactor \in Nat /\ next.fundingFeeAmountPerSize \in Nat
        /\ next.claimableFundingAmountPerSize \in [Tokens -> Nat]
    BY <1>3, <1>12, UpToDate
  <2> QED
    BY <1>12, <1>13, <2>1 DEF Position
<1>15. KeptOf(next, next)
  <2>1. ApplyFactor(next.sizeInUsd, next.borrowingFactor) \in Nat
    BY <1>14, PositionType
  <2> QED
    BY <1>13, <1>14, <2>1 DEF KeptOf
<1>16. SettledBooks(positions, mk, k, p, next, next, st)
  BY <1>3, <1>4, <1>5, <1>15, SettledKeepsBooks
<1> HIDE DEF st
<1>17. /\ st \in Market /\ BooksCover([positions EXCEPT ![k] = next], st)
       /\ SameFactors(mk, st) /\ SameClaims(mk, st)
  BY <1>16 DEF SettledBooks
<1>18. c \in Tokens
  BY KeyType
<1>19. FeesEntered(st, c, fees, after)
  BY <1>1, <1>7, <1>8, <1>17, <1>18, EnteredBooks
<1> HIDE DEF after
<1>20. after \in Market /\ SamePositionBooks(st, after) /\ SameFactors(st, after) /\ SameClaims(st, after)
  BY <1>19 DEF FeesEntered
<1>21. Sound([positions EXCEPT ![k] = next], after)
  <2>1. SameFactors(mk, after)
    BY <1>17, <1>20 DEF SameFactors
  <2>2. BooksCover([positions EXCEPT ![k] = next], after)
    BY <1>17, <1>20, CoverSame
  <2>3. ClaimsMatch(after)
    BY <1>3, <1>17, <1>20, ClaimsSame
  <2> QED
    BY <1>2, <1>3, <1>4, <1>14, <1>20, <2>1, <2>2, <2>3, SoundWith
<1>22. /\ balance' \in [Tokens -> Nat] /\ \A t \in Tokens : balance'[t] = balance[t] + (IF t = c THEN in ELSE 0)
  BY <1>1, <1>4 DEF Plus, Of
<1>23. /\ funding' \in [Tokens -> Int]
       /\ \A t \in Tokens : funding'[t] = funding[t] + (IF t = c THEN funded ELSE 0)
  BY <1>1, <1>4, <1>9 DEF Plus, Of
<1>24. Balanced(balance', uncovered', market', funding', stranded')
  <2>1. ASSUME NEW t \in Tokens
        PROVE  balance'[t] + uncovered'[t] =
                 BookSum(after, t) + CollateralOf(after, t) + funding'[t] + stranded'[t]
    <3>1. balance[t] + uncovered[t] = BookSum(market, t) + CollateralOf(market, t) + funding[t] + stranded[t]
      BY <1>4 DEF Balanced
    <3>2. BookSum(mk, t) = BookSum(market, t) /\ CollateralOf(mk, t) = CollateralOf(market, t)
      BY DEF SameTokens
    <3>3. /\ BookSum(st, t) = BookSum(mk, t)
          /\ CollateralOf(st, t) = CollateralOf(mk, t)
               + (IF t = c THEN next.collateralAmount - p.collateralAmount ELSE 0)
      BY <1>16 DEF SettledBooks
    <3>4. /\ BookSum(after, t) = BookSum(st, t) + (IF t = c THEN fees.cost ELSE 0)
          /\ CollateralOf(after, t) = CollateralOf(st, t)
      BY <1>19, <1>20, CollateralSame DEF FeesEntered
    <3>5. /\ BookSum(market, t) \in Nat /\ CollateralOf(market, t) \in Nat
          /\ balance[t] \in Nat /\ uncovered[t] \in Nat /\ funding[t] \in Int /\ stranded[t] \in Nat
      BY <1>4, BooksType
    <3>6. /\ uncovered'[t] = uncovered[t] /\ stranded'[t] = stranded[t]
      BY <1>1
    <3>7. next.collateralAmount = p.collateralAmount + in - fees.cost - funded
      BY <1>12
    <3>8. /\ balance'[t] = balance[t] + (IF t = c THEN in ELSE 0)
          /\ funding'[t] = funding[t] + (IF t = c THEN funded ELSE 0)
      BY <1>22, <1>23
    <3> HIDE DEF left, c
    <3>9. CASE t = c
      BY <1>6, <1>9, <1>10, <3>1, <3>2, <3>3, <3>4, <3>5, <3>6, <3>7, <3>8, <3>9
    <3>10. CASE t # c
      BY <3>1, <3>2, <3>3, <3>4, <3>5, <3>6, <3>8, <3>10
    <3> QED
      BY <3>9, <3>10
  <2> QED
    BY <1>2, <2>1 DEF Balanced
<1>25. /\ unpaid' \in [Tokens -> Nat] /\ stranded' \in [Tokens -> Nat] /\ uncovered' \in [Tokens -> Nat]
  BY <1>1, <1>4
<1>26. actions' \in 0..MaxActions
  BY <1>1, <1>4, PositionsAssumption DEF Took
<1>27. positions' \in [PositionKeys -> Position]
  BY <1>2, <1>4, <1>14
<1>28. Sound(positions', market')
  BY <1>2, <1>21
<1>29. PositionsInv'
  BY <1>22, <1>23, <1>24, <1>25, <1>26, <1>27, <1>28, InvAgain
<1>30. FundingKept(mk)
  <2>1. FeeEntered(mk, k, p, funding, unpaid, funding', unpaid')
    <3>1. ASSUME NEW t \in Tokens
          PROVE  funding'[t] + unpaid'[t] =
                   funding[t] + unpaid[t] + (IF t = c THEN FundingFee(mk, k, p) ELSE 0)
      <4>1. funding'[t] = funding[t] + (IF t = c THEN funded ELSE 0) /\ unpaid'[t] = unpaid[t]
        BY <1>1, <1>23
      <4>2. funding[t] \in Int /\ unpaid[t] \in Nat
        BY <1>4
      <4> QED
        BY <1>9, <1>9a, <4>1, <4>2
    <3> QED
      BY <3>1 DEF FeeEntered
  <2>2. StartsAt(mk, k, next)
    BY <1>12, LatestStarts
  <2>3. FundingClaimed(mk, k, p, st) /\ after.claimableFunding = st.claimableFunding
    BY <1>16, <1>20 DEF SettledBooks, SamePositionBooks
  <2>4. SameFactors(mk, after)
    BY <1>17, <1>20 DEF SameFactors
  <2>5. market' \in Market /\ SameFactors(mk, market') /\ market'.claimableFunding = st.claimableFunding
        /\ positions' = [positions EXCEPT ![k] = next]
    BY <1>2, <1>20, <2>3, <2>4
  <2> QED
    BY <1>3, <1>5, <1>5a, <1>14, <1>23, <1>25, <2>1, <2>2, <2>3, <2>5, SettledKeepsFunding
<1>31. ExactHeld(mk)
  <2>1. ExactSettled(positions, mk, k, next, next, st)
    BY <1>16 DEF SettledBooks
  <2>2. SamePositionBooks(mk, mk)
    BY DEF SamePositionBooks
  <2>3. SamePositionBooks(st, market') /\ positions' = [positions EXCEPT ![k] = next]
    BY <1>2, <1>20
  <2>4. KeptExactly(next, next)
    BY DEF KeptExactly
  <2>5. \A b \in BOOLEAN : ExactKept(mk, b)
    BY <2>1, <2>2, <2>3, <2>4, SettledKeepsExact
  <2> QED
    BY <2>5 DEF ExactHeld
<1> QED
  BY <1>29, <1>30, <1>31

-----------------------------------------------------------------------------
(* What a decrease reads, and what it leaves of the position.               *)

(* What is asked for is changed to no more than the position has, and       *)
(* leaves nothing or a smallest position.                                   *)
LEMMA AdjustedType ==
  ASSUME NEW k, NEW p \in Position, NEW s, NEW d \in Nat, d <= p.sizeInUsd, NEW x \in Nat
  PROVE  /\ AdjustedDecrease(k, p, s, d, x).d \in Nat /\ AdjustedDecrease(k, p, s, d, x).d <= p.sizeInUsd
         /\ AdjustedDecrease(k, p, s, d, x).x \in Nat
         /\ AdjustedDecrease(k, p, s, d, x).d = p.sizeInUsd
              \/ p.sizeInUsd - AdjustedDecrease(k, p, s, d, x).d >= Setting.minPositionSizeUsd
<1> DEFINE pnl      == TotalPnl(market, k, p, s)
           realized == SignedMulDiv(pnl, d, p.sizeInUsd)
           loss     == IF realized < 0 THEN realized ELSE 0
           Left(y)  == (p.collateralAmount - y) * s.token[k.collateral].min + loss
           enough   == Sufficient(market, k.isLong, p.sizeInUsd - d, Left(x), -d)
           y        == IF enough THEN x ELSE 0
           closes   == \/ Left(y) + pnl - realized < Setting.minCollateralUsd
                       \/ p.sizeInUsd - d < Setting.minPositionSizeUsd
           fine     == enough \/ d > 0
           dd       == IF closes THEN p.sizeInUsd ELSE d
           xx       == IF closes THEN 0 ELSE y
           adjusted == [possible |-> fine, d |-> dd, x |-> xx]
           asis     == [possible |-> TRUE, d |-> d, x |-> 0]
           r        == AdjustedDecrease(k, p, s, d, x)
<1>1. r = IF d < p.sizeInUsd THEN adjusted ELSE asis
  BY Zenon DEF AdjustedDecrease, Adjusted
<1>2. p.sizeInUsd \in Nat /\ Setting.minPositionSizeUsd \in Nat
  BY PositionType, PositionsAssumption DEF Settings
<1>2a. closes \/ p.sizeInUsd - d >= Setting.minPositionSizeUsd
  BY <1>2
<1> HIDE DEF r, fine, closes, enough
<1>3. /\ dd \in Nat /\ dd <= p.sizeInUsd /\ xx \in Nat
      /\ dd = p.sizeInUsd \/ p.sizeInUsd - dd >= Setting.minPositionSizeUsd
  BY <1>2, <1>2a
<1> HIDE DEF dd, xx
<1>4. (r.d = dd /\ r.x = xx) \/ (d = p.sizeInUsd /\ r.d = d /\ r.x = 0)
  BY <1>1, <1>2
<1>5. /\ r.d \in Nat /\ r.d <= p.sizeInUsd /\ r.x \in Nat
      /\ r.d = p.sizeInUsd \/ p.sizeInUsd - r.d >= Setting.minPositionSizeUsd
  BY <1>3, <1>4
<1> QED
  BY <1>5 DEF r

(* What a decrease realizes has its type, and takes no more tokens than the *)
(* position has.                                                            *)
LEMMA RealizedIs ==
  ASSUME NEW k \in PositionKeys, NEW s \in Situations, NEW mk \in Market, NEW p \in Position,
         Behind(p, k, mk), p.sizeInUsd > 0, p.sizeInTokens > 0,
         NEW d \in Nat, d <= p.sizeInUsd, NEW uiFeeFactor \in Nat
  PROVE  /\ RealizedType(Realized(mk, k, p, s, d, uiFeeFactor))
         /\ Realized(mk, k, p, s, d, uiFeeFactor).funding = FundingFee(mk, k, p)
         /\ Realized(mk, k, p, s, d, uiFeeFactor).tokens <= p.sizeInTokens
         /\ d = p.sizeInUsd => Realized(mk, k, p, s, d, uiFeeFactor).tokens = p.sizeInTokens
         /\ Realized(mk, k, p, s, d, uiFeeFactor).tokens = SizeDeltaInTokens(k, p, d)
<1> DEFINE capped == IF d = 0 THEN 0 ELSE CappedImpact(mk, s, s.impact, d)
           diff   == ImpactDiff(capped, d)
           tokens == SizeDeltaInTokens(k, p, d)
           pnl    == SignedMulDiv(TotalPnl(mk, k, p, s), tokens, p.sizeInTokens)
           impact == capped + diff
           funding1 == FundingFee(mk, k, p)
           favourable == capped > 0
           fees   == PositionFees(mk, k, p, s, d, favourable, uiFeeFactor)
           r      == Realized(mk, k, p, s, d, uiFeeFactor)
<1>1. r = [tokens |-> tokens, pnl |-> pnl, impact |-> impact, diff |-> diff, funding |-> funding1,
           fees |-> fees]
  BY Zenon DEF Realized
<1>2. capped \in Int /\ diff \in Nat
  <2>1. mk.positionImpactPool \in Nat
    BY DEF Market
  <2>2. capped \in Int
    BY <2>1, ImpactType
  <2> HIDE DEF capped
  <2>3. diff \in Nat
    BY <2>1, <2>2, ImpactType
  <2> QED
    BY <2>2, <2>3
<1>3. tokens \in Nat /\ tokens <= p.sizeInTokens /\ (d = p.sizeInUsd => tokens = p.sizeInTokens)
  BY SizeDeltaType DEF SizeDeltaInTokens
<1> HIDE DEF tokens
<1>4. pnl \in Int
  <2>1. TotalPnl(mk, k, p, s) \in Int
    BY PnlType
  <2>2. p.sizeInTokens \in Nat
    BY PositionType
  <2> QED
    BY <1>3, <2>1, <2>2, SignedMulDivType
<1>5. funding1 \in Nat
  BY FundingFeeType
<1>6. favourable \in BOOLEAN
  OBVIOUS
<1> HIDE DEF favourable, capped, diff, pnl, funding1
<1>7. FeesSplit(fees)
  BY <1>6, BehindBorrowing, PositionType, PositionFeesSplit
<1>8. impact \in Int
  BY <1>2
<1> HIDE DEF fees, impact, r
<1>9. /\ r.tokens = tokens /\ r.pnl = pnl /\ r.impact = impact /\ r.diff = diff /\ r.funding = funding1
      /\ r.fees = fees
  BY <1>1
<1>10. RealizedType(r) /\ r.tokens <= p.sizeInTokens /\ (d = p.sizeInUsd => r.tokens = p.sizeInTokens)
  BY <1>2, <1>3, <1>4, <1>5, <1>7, <1>8, <1>9 DEF RealizedType
<1>11. r.funding = FundingFee(mk, k, p) /\ r.tokens = SizeDeltaInTokens(k, p, d)
  BY <1>9 DEF funding1, tokens
<1> QED
  BY <1>10, <1>11 DEF r

(* Tokens are left of a position that is not used up: of a short because    *)
(* what is taken is rounded down, of a long because its units are fine.     *)
LEMMA TokensLeft ==
  ASSUME NEW k \in PositionKeys, NEW p \in Position, p.sizeInTokens > 0,
         NEW d \in Nat, d < p.sizeInUsd, NEW least \in Nat, p.sizeInUsd - d >= least,
         k.isLong => p.sizeInUsd <= p.sizeInTokens * least
  PROVE  SizeDeltaInTokens(k, p, d) < p.sizeInTokens
<1> DEFINE S == p.sizeInUsd
           T == p.sizeInTokens
           n == T * d
           m == T - 1
           up == RoundUpDivision(n, S)
           down == n \div S
<1>1. S \in Nat /\ T \in Nat /\ S > 0 /\ T > 0 /\ d < S /\ S - d >= least
  BY PositionType
<1>2. k.isLong \in BOOLEAN /\ SizeDeltaInTokens(k, p, d) = IF k.isLong THEN up ELSE down
  BY KeyType DEF SizeDeltaInTokens
<1>3. k.isLong => S <= T * least
  OBVIOUS
<1> HIDE DEF S, T
<1>4. n \in Nat /\ m \in Nat
  BY <1>1, TimesType
<1>5. CASE k.isLong
  <2> DEFINE left == S - d
             ls == T * least
             lf == T * left
             all == T * S
             ms == m * S
  <2>1. left \in Nat /\ left >= least
    BY <1>1
  <2>2. ls <= lf
    BY <1>1, <2>1, TimesMonotone
  <2>3. n = all - lf
    <3>1. d = S - left /\ T * (S - left) = T * S - T * left
      BY <1>1
    <3> QED
      BY <3>1
  <2>4. ms = all - S
    BY <1>1
  <2>5. S <= ls
    BY <1>3, <1>5
  <2>6. ls \in Nat /\ lf \in Nat /\ all \in Nat
    BY <1>1, <2>1, TimesType
  <2> HIDE DEF n, ls, lf, all, ms, left
  <2>7. n <= ms
    BY <1>1, <1>4, <2>2, <2>3, <2>4, <2>5, <2>6
  <2>8. up <= m /\ up \in Nat
    BY <1>1, <1>4, <2>7, RoundUpAtMost, RoundUpType DEF ms
  <2> HIDE DEF up
  <2> QED
    BY <1>1, <1>2, <1>5, <2>8 DEF T, m
<1>6. CASE ~k.isLong
  <2>1. down \in Nat /\ down * S <= n
    BY <1>1, <1>4, DivType
  <2>2. n < T * S
    BY <1>1
  <2> HIDE DEF n, down
  <2>3. down < T
    <3> SUFFICES ASSUME T <= down PROVE FALSE
      BY <1>1, <2>1
    <3>1. T * S <= down * S
      BY <1>1, <2>1
    <3> QED
      BY <1>1, <1>4, <2>1, <2>2, <3>1
  <2> QED
    BY <1>2, <1>6, <2>3 DEF T
<1> QED
  BY <1>2, <1>5, <1>6

(* A swap of what is paid out moves it into the books and the other token   *)
(* out of them.                                                             *)
OutSwapped(mk, k, swap, n, r) ==
  /\ r.market \in Market /\ r.out \in Nat
  /\ SamePositionBooks(mk, r.market) /\ SameFactors(mk, r.market) /\ SameClaims(mk, r.market)
  /\ swap = "collateral" =>
       \A t \in Tokens : BookSum(r.market, t) = BookSum(mk, t) + (IF t = k.collateral THEN n ELSE 0)
                                                  - (IF t = PnlToken(k.isLong) THEN r.out ELSE 0)
  /\ swap # "collateral" => \A t \in Tokens : BookSum(r.market, t) = BookSum(mk, t)

(* The swap of the output moves as many tokens into the books as out of the *)
(* payout.                                                                  *)
LEMMA SwappedOutBooks ==
  ASSUME NEW mk \in Market, NEW k \in PositionKeys, NEW s \in Situations, NEW swap,
         swap = "collateral" => k.collateral # PnlToken(k.isLong), NEW n \in Nat, NEW uiFeeFactor \in Nat,
         SwappedOut(mk, k, s, swap, n, uiFeeFactor).possible
  PROVE  OutSwapped(mk, k, swap, n, SwappedOut(mk, k, s, swap, n, uiFeeFactor))
<1> DEFINE c == k.collateral
           t == PnlToken(k.isLong)
           r == SwappedOut(mk, k, s, swap, n, uiFeeFactor)
<1>1. c \in Tokens /\ t \in Tokens
  BY KeyType
<1>2. CASE swap = "collateral"
  <2> DEFINE m == MarketSwap(mk, s, c, n, uiFeeFactor)
  <2>1. r = m
    BY <1>2, Zenon DEF SwappedOut
  <2>2. m.possible
    BY <2>1
  <2>3. c # t
    BY <1>2
  <2>4. t = OtherToken(c)
    BY <1>1, <2>3, TokensPair DEF OtherToken
  <2> HIDE DEF c, t, r
  <2>5. /\ m.market \in Market /\ m.out \in Nat
        /\ SamePositionBooks(mk, m.market) /\ SameFactors(mk, m.market) /\ SameClaims(mk, m.market)
        /\ BookSum(m.market, c) = BookSum(mk, c) + n
        /\ BookSum(m.market, t) = BookSum(mk, t) - m.out
    BY <1>1, <2>2, <2>4, MarketSwapBooks
  <2> HIDE DEF m
  <2>6. \A u \in Tokens : u = c \/ u = t
    BY <1>1, <2>3, TokensPair
  <2>7. \A u \in Tokens : BookSum(m.market, u) = BookSum(mk, u) + (IF u = c THEN n ELSE 0)
                                                   - (IF u = t THEN m.out ELSE 0)
    <3> TAKE u \in Tokens
    <3>1. BookSum(mk, u) \in Nat
      BY BooksType
    <3>2. CASE u = c
      <4>1. BookSum(m.market, u) = BookSum(mk, u) + n
        BY <2>5, <3>2
      <4>2. u # t
        BY <2>3, <3>2
      <4> QED
        BY <3>1, <3>2, <4>1, <4>2
    <3>3. CASE u = t
      <4>1. BookSum(m.market, u) = BookSum(mk, u) - m.out
        BY <2>5, <3>3
      <4>2. u # c
        BY <2>3, <3>3
      <4> QED
        BY <2>5, <3>1, <3>3, <4>1, <4>2
    <3> QED
      BY <2>6, <3>2, <3>3
  <2> QED
    BY <1>2, <2>1, <2>5, <2>7 DEF OutSwapped, c, t, r
<1>3. CASE swap # "collateral"
  <2>1. r = [market |-> mk, out |-> 0, possible |-> TRUE]
    BY <1>3, Zenon DEF SwappedOut
  <2> HIDE DEF r
  <2>2. r.market = mk /\ r.out = 0
    BY <2>1
  <2>3. SamePositionBooks(mk, mk) /\ SameFactors(mk, mk) /\ SameClaims(mk, mk)
    BY DEF SamePositionBooks, SameFactors, SameClaims
  <2> QED
    BY <1>3, <2>2, <2>3 DEF OutSwapped, r
<1> QED
  BY <1>2, <1>3

(* What a decrease leaves, and what is stored of it.                        *)
Left(next) == IF next.sizeInUsd = 0 \/ next.sizeInTokens = 0 THEN NoPosition ELSE next

(* next is the position after a decrease, and Left(next) fits the market.   *)
Reduced(mk, k, rest, next) ==
  /\ next \in Position /\ Left(next) \in Position
  /\ Behind(Left(next), k, mk) /\ KeptOf(next, Left(next)) /\ StartsAt(mk, k, Left(next))
  /\ Left(next).sizeInUsd > 0 => Left(next).sizeInTokens > 0
  /\ next.collateralAmount = IF next.sizeInUsd = 0 \/ next.sizeInTokens = 0 THEN 0 ELSE rest

(* No position is behind every market.                                      *)
LEMMA NoPositionType ==
  ASSUME NEW mk \in Market, NEW k \in PositionKeys
  PROVE  NoPosition \in Position /\ Behind(NoPosition, k, mk) /\ ApplyFactor(0, 0) = 0
<1>1. NoPosition \in Position
  BY DEF NoPosition, Position, NoTokens
<1>2. /\ NoPosition.borrowingFactor = 0 /\ NoPosition.fundingFeeAmountPerSize = 0
      /\ \A t \in Tokens : NoPosition.claimableFundingAmountPerSize[t] = 0
  BY DEF NoPosition, NoTokens
<1>3. /\ mk.cumulativeBorrowingFactor[k.isLong] \in Nat /\ mk.fundingFeeAmountPerSize[Side(k)] \in Nat
      /\ \A t \in Tokens : mk.claimableFundingAmountPerSize[<<t, k.isLong>>] \in Nat
  BY KeyType, AggregatesType
<1>4. Behind(NoPosition, k, mk)
  BY <1>2, <1>3 DEF Behind
<1>5. ApplyFactor(0, 0) = 0
  <2>1. ApplyFactor(0, 0) \in Nat /\ ApplyFactor(0, 0) <= 0
    BY PrecisionType, FactorType, FactorAtMost
  <2> QED
    BY <2>1
<1> QED
  BY <1>1, <1>4, <1>5

(* A position of size 0 contributes nothing.                                *)
LEMMA NothingOf ==
  ASSUME NEW f \in Nat
  PROVE  ApplyFactor(0, f) = 0
BY PrecisionType DEF ApplyFactor, MulDiv

(* A decrease leaves a position that fits the market, or none.              *)
LEMMA DecreasedType ==
  ASSUME NEW mk \in Market, NEW k \in PositionKeys, NEW p \in Position,
         NEW d \in Nat, d <= p.sizeInUsd, NEW tokens \in Nat, tokens <= p.sizeInTokens,
         d = p.sizeInUsd => tokens = p.sizeInTokens, NEW rest \in Nat
  PROVE  /\ Reduced(mk, k, rest, Decreased(mk, k, p, d, tokens, rest))
         /\ d = p.sizeInUsd \/ tokens < p.sizeInTokens =>
              KeptExactly(Decreased(mk, k, p, d, tokens, rest), Left(Decreased(mk, k, p, d, tokens, rest)))
<1> DEFINE closed == p.sizeInUsd = d \/ p.sizeInTokens = tokens
           left == IF closed THEN 0 ELSE rest
           usd == p.sizeInUsd - d
           inTokens == p.sizeInTokens - tokens
           next == Decreased(mk, k, p, d, tokens, rest)
<1>1. p.sizeInUsd \in Nat /\ p.sizeInTokens \in Nat
  BY PositionType
<1>2. /\ usd \in Nat /\ inTokens \in Nat /\ left \in Nat
      /\ closed <=> usd = 0 \/ inTokens = 0
      /\ closed => inTokens = 0
      /\ d = p.sizeInUsd \/ tokens < p.sizeInTokens => (inTokens = 0 => usd = 0)
  BY <1>1
<1>3. next = [sizeInUsd |-> usd, sizeInTokens |-> inTokens, collateralAmount |-> left,
              borrowingFactor |-> mk.cumulativeBorrowingFactor[k.isLong],
              fundingFeeAmountPerSize |-> LatestOf(mk, k).fundingFeeAmountPerSize,
              claimableFundingAmountPerSize |-> LatestOf(mk, k).claimableFundingAmountPerSize]
  BY Zenon DEF Decreased
<1> HIDE DEF next, usd, inTokens, left
<1>4. /\ next.sizeInUsd = usd /\ next.sizeInTokens = inTokens /\ next.collateralAmount = left
      /\ next.borrowingFactor = mk.cumulativeBorrowingFactor[k.isLong]
      /\ next.fundingFeeAmountPerSize = LatestOf(mk, k).fundingFeeAmountPerSize
      /\ next.claimableFundingAmountPerSize = LatestOf(mk, k).claimableFundingAmountPerSize
  BY <1>3
<1>5. /\ Behind(next, k, mk) /\ next.borrowingFactor \in Nat /\ next.fundingFeeAmountPerSize \in Nat
      /\ next.claimableFundingAmountPerSize \in [Tokens -> Nat]
  BY <1>4, UpToDate
<1>6. next \in Position
  BY <1>2, <1>3, <1>4, <1>5 DEF Position
<1>7. next.collateralAmount = IF next.sizeInUsd = 0 \/ next.sizeInTokens = 0 THEN 0 ELSE rest
  BY <1>2, <1>4 DEF left
<1>8. NoPosition \in Position /\ Behind(NoPosition, k, mk) /\ ApplyFactor(0, 0) = 0
  BY NoPositionType
<1>9. ApplyFactor(next.sizeInUsd, next.borrowingFactor) \in Nat
  BY <1>6, PositionType
<1>10. CASE next.sizeInUsd = 0 \/ next.sizeInTokens = 0
  <2>1. Left(next) = NoPosition
    BY <1>10 DEF Left
  <2>2. /\ NoPosition.sizeInUsd = 0 /\ NoPosition.sizeInTokens = 0 /\ NoPosition.collateralAmount = 0
        /\ NoPosition.borrowingFactor = 0
    BY DEF NoPosition
  <2>3. next.collateralAmount = 0
    BY <1>7, <1>10
  <2>4. next.sizeInTokens = 0
    BY Zenon, <1>2, <1>4, <1>10
  <2>5. KeptOf(next, NoPosition)
    BY <1>4, <1>6, <1>8, <1>9, <2>2, <2>3, <2>4, <1>2 DEF KeptOf
  <2>6. StartsAt(mk, k, NoPosition)
    BY <2>2 DEF StartsAt
  <2>7. ASSUME d = p.sizeInUsd \/ tokens < p.sizeInTokens
        PROVE  KeptExactly(next, NoPosition)
    <3>1. next.sizeInUsd = 0
      BY Zenon, <1>2, <1>4, <1>10, <2>7
    <3>2. ApplyFactor(next.sizeInUsd, next.borrowingFactor) = 0
      BY <1>5, <3>1, NothingOf
    <3> QED
      BY <1>8, <2>2, <3>1, <3>2 DEF KeptExactly
  <2> QED
    BY <1>6, <1>7, <1>8, <2>1, <2>2, <2>5, <2>6, <2>7 DEF Reduced, next
<1>11. CASE ~(next.sizeInUsd = 0 \/ next.sizeInTokens = 0)
  <2>1. Left(next) = next
    BY <1>11 DEF Left
  <2>2. KeptOf(next, next)
    BY <1>2, <1>4, <1>6, <1>9 DEF KeptOf
  <2>3. next.sizeInTokens > 0
    BY <1>2, <1>4, <1>11
  <2>4. StartsAt(mk, k, next)
    BY <1>4, LatestStarts
  <2>5. KeptExactly(next, next)
    BY DEF KeptExactly
  <2> QED
    BY <1>5, <1>6, <1>7, <2>1, <2>2, <2>3, <2>4, <2>5 DEF Reduced, next
<1> QED
  BY <1>10, <1>11

-----------------------------------------------------------------------------
(* The end of a decrease: settling, swapping and paying out.                *)

(* What a decrease has taken from the purse is in the books, to be paid out *)
(* or in a history, before its position is settled.                         *)
Processed(mk, taken, k, result) ==
  /\ taken \in Market /\ ClaimsMatch(taken)
  /\ SamePositionBooks(mk, taken) /\ SameFactors(mk, taken)
  /\ result.rest \in Nat /\ result.out \in Nat /\ result.sec \in Nat
  /\ result.funding \in Nat /\ result.unpaid \in Nat
  /\ result.stranded \in Nat /\ result.uncovered \in Nat
  /\ result.funding + result.unpaid = FundingFee(mk, k, positions[k])
  /\ \A t \in Tokens :
       BookSum(taken, t) =
         BookSum(mk, t) + (IF t = k.collateral
                           THEN positions[k].collateralAmount + result.uncovered
                                  - result.out - result.rest - result.funding - result.stranded
                           ELSE 0)
                        - (IF t = PnlToken(k.isLong) THEN result.sec ELSE 0)

(* Settling the position and paying out keep the invariant, and funding     *)
(* backed.                                                                  *)
LEMMA FinishKeepsInv ==
  ASSUME PositionsInv, actions < MaxActions, NEW k \in PositionKeys, NEW kind,
         NEW swap, swap = "collateral" => k.collateral # PnlToken(k.isLong),
         NEW s \in Situations, NEW ui \in Nat,
         NEW mk, Sound(positions, mk), SameTokens(market, mk),
         NEW taken, NEW next, NEW result, Processed(mk, taken, k, result), Reduced(mk, k, result.rest, next),
         FinishDecrease(k, kind, swap, s, ui, next, result,
                        Settled(taken, k, positions[k], next, next.borrowingFactor)),
         funding' = Plus(funding, Of(k.collateral, result.funding)),
         unpaid' = Plus(unpaid, Of(k.collateral, result.unpaid)),
         stranded' = Plus(stranded, Of(k.collateral, result.stranded)),
         uncovered' = Plus(uncovered, Of(k.collateral, result.uncovered)),
         Took
  PROVE  /\ PositionsInv' /\ FundingKept(mk)
         /\ \A b \in BOOLEAN : (b = k.isLong => KeptExactly(next, Left(next))) => ExactKept(mk, b)
<1> DEFINE c == k.collateral
           t0 == PnlToken(k.isLong)
           p == positions[k]
           closed == next.sizeInUsd = 0 \/ next.sizeInTokens = 0
           kept == Left(next)
           pos2 == [positions EXCEPT ![k] = kept]
           after == Settled(taken, k, p, next, next.borrowingFactor)
           out == result.out + (IF closed THEN result.rest ELSE 0)
           done == SwappedOut(after, k, s, swap, out, ui)
           swapped == Of(t0, result.sec + done.out)
           direct == Plus(Of(c, out), Of(t0, result.sec))
           paid == IF swap = "collateral" THEN swapped ELSE direct
<1>0. /\ taken \in Market /\ ClaimsMatch(taken) /\ SamePositionBooks(mk, taken) /\ SameFactors(mk, taken)
      /\ result.rest \in Nat /\ result.out \in Nat /\ result.sec \in Nat
      /\ result.funding \in Nat /\ result.unpaid \in Nat
      /\ result.stranded \in Nat /\ result.uncovered \in Nat
  BY DEF Processed
<1>1. /\ done.possible
      /\ \A t \in Tokens : paid[t] <= balance[t]
      /\ balance' = [t \in Tokens |-> balance[t] - paid[t]]
      /\ market' = done.market
      /\ positions' = pos2
  BY Zenon DEF FinishDecrease, Left
<1>2. /\ positions \in [PositionKeys -> Position] /\ market \in Market
      /\ balance \in [Tokens -> Nat] /\ unpaid \in [Tokens -> Nat]
      /\ stranded \in [Tokens -> Nat] /\ uncovered \in [Tokens -> Nat]
      /\ funding \in [Tokens -> Int] /\ actions \in 0..MaxActions
      /\ Balanced(balance, uncovered, market, funding, stranded)
  BY InvUse
<1>3. /\ mk \in Market /\ BooksCover(positions, mk) /\ PositionsBehind(positions, mk) /\ ClaimsMatch(mk)
  BY DEF Sound
<1>4. c \in Tokens /\ t0 \in Tokens
  BY KeyType
<1>5. /\ p \in Position /\ p.collateralAmount \in Nat
  BY <1>2, PositionType
<1>6. /\ next \in Position /\ kept \in Position /\ Behind(kept, k, mk) /\ KeptOf(next, kept)
      /\ kept.sizeInUsd > 0 => kept.sizeInTokens > 0
      /\ next.collateralAmount = IF closed THEN 0 ELSE result.rest
  BY DEF Reduced
<1>7. out \in Nat /\ out + next.collateralAmount = result.out + result.rest
  BY <1>0, <1>6
<1> HIDE DEF kept, pos2, after, out, done, p, closed, c, t0
<1>8. SettledBooks(positions, taken, k, p, next, kept, after)
  <2>1. BooksCover(positions, taken)
    BY <1>0, <1>3, CoverSame
  <2>2. PositionsBehind(positions, taken)
    BY <1>0, <1>2, <1>3, SameFactorsGrow, BehindGrows
  <2>3. Behind(p, k, taken)
    BY <2>2 DEF PositionsBehind, p
  <2>4. Stored(positions, k, p)
    BY <1>5 DEF Stored, p
  <2> QED
    BY <1>0, <1>2, <1>6, <2>1, <2>3, <2>4, SettledKeepsBooks DEF after
<1>9. /\ after \in Market /\ BooksCover(pos2, after) /\ SameFactors(taken, after) /\ SameClaims(taken, after)
  BY <1>8 DEF SettledBooks, pos2
<1>10. OutSwapped(after, k, swap, out, done)
  BY <1>1, <1>7, <1>9, SwappedOutBooks DEF done
<1>11. /\ done.market \in Market /\ done.out \in Nat
       /\ SamePositionBooks(after, done.market) /\ SameFactors(after, done.market)
       /\ SameClaims(after, done.market)
  BY <1>10 DEF OutSwapped
<1>12. Sound(pos2, done.market)
  <2>1. SameFactors(mk, done.market)
    BY <1>0, <1>9, <1>11 DEF SameFactors
  <2>2. BooksCover(pos2, done.market)
    BY <1>9, <1>11, CoverSame
  <2>3. ClaimsMatch(after)
    BY <1>0, <1>9, ClaimsSame
  <2>4. ClaimsMatch(done.market)
    BY <1>11, <2>3, ClaimsSame
  <2> QED
    BY <1>2, <1>3, <1>6, <1>11, <2>1, <2>2, <2>4, SoundWith DEF pos2
(* What each token of the market's leaves it, and where it was.             *)
<1>13. paid \in [Tokens -> Nat]
  <2>1. swapped \in [Tokens -> Nat]
    BY <1>0, <1>11, OfType
  <2>2. Of(c, out) \in [Tokens -> Nat] /\ Of(t0, result.sec) \in [Tokens -> Nat]
    BY <1>0, <1>7, OfType
  <2>3. direct \in [Tokens -> Nat]
    BY <2>2, PlusType
  <2> QED
    BY <2>1, <2>3
<1>14. ASSUME NEW t \in Tokens
       PROVE  BookSum(done.market, t) + CollateralOf(done.market, t) + paid[t] =
                BookSum(taken, t) + CollateralOf(taken, t)
                + (IF t = c THEN result.out + result.rest - p.collateralAmount ELSE 0)
                + (IF t = t0 THEN result.sec ELSE 0)
  <2> DEFINE a == BookSum(taken, t)
             b == CollateralOf(taken, t)
  <2>1. a \in Nat /\ b \in Nat
    BY <1>0, BooksType
  <2>2. /\ BookSum(after, t) = a
        /\ CollateralOf(after, t) = b + (IF t = c THEN next.collateralAmount - p.collateralAmount ELSE 0)
    BY <1>8 DEF SettledBooks, c
  <2>3. CollateralOf(done.market, t) = CollateralOf(after, t)
    BY <1>11, CollateralSame
  <2>4. next.collateralAmount \in Nat
    BY <1>6, PositionType
  <2> HIDE DEF a, b
  <2>5. CASE swap = "collateral"
    <3>1. BookSum(done.market, t) = a + (IF t = c THEN out ELSE 0) - (IF t = t0 THEN done.out ELSE 0)
      BY <1>10, <2>2, <2>5 DEF OutSwapped, c, t0
    <3>2. paid[t] = IF t = t0 THEN result.sec + done.out ELSE 0
      BY <2>5 DEF Of
    <3>3. t = c => t # t0
      BY <2>5 DEF c, t0
    <3> HIDE DEF paid
    <3>4. CASE t = c
      BY <1>0, <1>5, <1>7, <2>1, <2>2, <2>3, <2>4, <3>1, <3>2, <3>3, <3>4 DEF a, b
    <3>5. CASE t # c /\ t = t0
      BY <1>0, <1>11, <2>1, <2>2, <2>3, <3>1, <3>2, <3>5 DEF a, b
    <3>6. CASE t # c /\ t # t0
      BY <2>1, <2>2, <2>3, <3>1, <3>2, <3>6 DEF a, b
    <3> QED
      BY <3>4, <3>5, <3>6
  <2>6. CASE swap # "collateral"
    <3>1. BookSum(done.market, t) = a
      BY <1>10, <2>2, <2>6 DEF OutSwapped
    <3>2. paid[t] = (IF t = c THEN out ELSE 0) + (IF t = t0 THEN result.sec ELSE 0)
      BY <2>6 DEF Of, Plus
    <3> HIDE DEF paid
    <3> DEFINE e == IF t = t0 THEN result.sec ELSE 0
    <3>3. e \in Nat
      BY <1>0
    <3> HIDE DEF e
    <3>4. CASE t = c
      BY <1>0, <1>5, <1>7, <2>1, <2>2, <2>3, <2>4, <3>1, <3>2, <3>3, <3>4 DEF a, b, e
    <3>5. CASE t # c
      BY <2>1, <2>2, <2>3, <3>1, <3>2, <3>3, <3>5 DEF a, b, e
    <3> QED
      BY <3>4, <3>5
  <2> QED
    BY <2>5, <2>6
<1>15. balance' \in [Tokens -> Nat] /\ \A t \in Tokens : balance'[t] = balance[t] - paid[t]
  <2> HIDE DEF paid
  <2>1. \A t \in Tokens : balance[t] - paid[t] \in Nat
    BY <1>1, <1>2, <1>13
  <2> QED
    BY <1>1, <2>1
<1>16. /\ funding' \in [Tokens -> Int] /\ unpaid' \in [Tokens -> Nat]
       /\ stranded' \in [Tokens -> Nat] /\ uncovered' \in [Tokens -> Nat]
       /\ \A t \in Tokens : /\ funding'[t] = funding[t] + (IF t = c THEN result.funding ELSE 0)
                            /\ unpaid'[t] = unpaid[t] + (IF t = c THEN result.unpaid ELSE 0)
                            /\ stranded'[t] = stranded[t] + (IF t = c THEN result.stranded ELSE 0)
                            /\ uncovered'[t] = uncovered[t] + (IF t = c THEN result.uncovered ELSE 0)
  BY <1>0, <1>2 DEF Plus, Of, c
<1> HIDE DEF paid
<1>17. Balanced(balance', uncovered', market', funding', stranded')
  <2>1. ASSUME NEW t \in Tokens
        PROVE  balance'[t] + uncovered'[t] =
                 BookSum(done.market, t) + CollateralOf(done.market, t) + funding'[t] + stranded'[t]
    <3> DEFINE a == BookSum(mk, t)
               b == CollateralOf(mk, t)
               a2 == BookSum(done.market, t)
               b2 == CollateralOf(done.market, t)
               a1 == BookSum(taken, t)
               z == IF t = t0 THEN result.sec ELSE 0
    <3>1. balance[t] + uncovered[t] = a + b + funding[t] + stranded[t]
      BY <1>2 DEF Balanced, SameTokens
    <3>2. a1 = a + (IF t = c THEN p.collateralAmount + result.uncovered
                                   - result.out - result.rest - result.funding - result.stranded
                             ELSE 0) - z
      BY DEF Processed, c, t0, p
    <3>3. CollateralOf(taken, t) = b
      BY <1>0, CollateralSame
    <3>4. a2 + b2 + paid[t] =
            a1 + b + (IF t = c THEN result.out + result.rest - p.collateralAmount ELSE 0) + z
      BY <1>14, <3>3
    <3>5. /\ a \in Nat /\ b \in Nat /\ a1 \in Nat /\ a2 \in Nat /\ b2 \in Nat
          /\ balance[t] \in Nat /\ uncovered[t] \in Nat /\ funding[t] \in Int /\ stranded[t] \in Nat
          /\ paid[t] \in Nat
      BY <1>0, <1>2, <1>3, <1>11, <1>13, BooksType
    <3>6. z \in Nat
      BY <1>0
    <3> HIDE DEF a, b, a1, a2, b2, z
    <3>7. CASE t = c
      <4>1. balance'[t] = balance[t] - paid[t] /\ funding'[t] = funding[t] + result.funding
            /\ stranded'[t] = stranded[t] + result.stranded
            /\ uncovered'[t] = uncovered[t] + result.uncovered
        BY <1>15, <1>16, <3>7
      <4>2. a1 = a + (p.collateralAmount + result.uncovered
                       - result.out - result.rest - result.funding - result.stranded) - z
        BY <3>2, <3>7
      <4>3. a2 + b2 + paid[t] = a1 + b + (result.out + result.rest - p.collateralAmount) + z
        BY <3>4, <3>7
      <4> QED
        BY <1>0, <1>5, <3>1, <3>5, <3>6, <4>1, <4>2, <4>3 DEF a2, b2
    <3>8. CASE t # c
      <4>1. balance'[t] = balance[t] - paid[t] /\ funding'[t] = funding[t] + 0
            /\ stranded'[t] = stranded[t] + 0 /\ uncovered'[t] = uncovered[t] + 0
        BY <1>15, <1>16, <3>8
      <4>2. a1 = a + 0 - z
        BY <3>2, <3>8
      <4>3. a2 + b2 + paid[t] = a1 + b + 0 + z
        BY <3>4, <3>8
      <4> QED
        BY <3>1, <3>5, <3>6, <4>1, <4>2, <4>3 DEF a2, b2
    <3> QED
      BY <3>7, <3>8
  <2> QED
    BY <1>1, <2>1 DEF Balanced
<1>18. actions' \in 0..MaxActions
  BY <1>2, PositionsAssumption DEF Took
<1>19. positions' \in [PositionKeys -> Position]
  BY <1>1, <1>2, <1>6 DEF pos2
<1>20. Sound(positions', market')
  BY <1>1, <1>12
<1>21. PositionsInv'
  BY <1>15, <1>16, <1>17, <1>18, <1>19, <1>20, InvAgain
(* Funding: what the position owed is paid or left unpaid.                  *)
<1>22. FundingKept(mk)
  <2>1. Stored(positions, k, p) /\ FundingStored(positions, k, p) /\ Behind(p, k, mk)
    BY <1>3, <1>5 DEF Stored, FundingStored, PositionsBehind, p
  <2>2. StartsAt(mk, k, kept)
    BY DEF Reduced, kept
  <2>3. FundingClaimed(taken, k, p, after)
    BY <1>8 DEF SettledBooks
  <2>4. FundingClaimed(mk, k, p, after)
    BY <1>0, <2>3 DEF FundingClaimed, SameFactors, SamePositionBooks, ClaimableFunding
  <2>5. market'.claimableFunding = after.claimableFunding
    BY <1>1, <1>11 DEF SamePositionBooks
  <2>6. market' \in Market /\ SameFactors(mk, market')
    BY <1>0, <1>1, <1>9, <1>11 DEF SameFactors
  <2>7. positions' = [positions EXCEPT ![k] = kept]
    BY <1>1 DEF pos2
  <2>8. FeeEntered(mk, k, p, funding, unpaid, funding', unpaid')
    <3>1. result.funding + result.unpaid = FundingFee(mk, k, p)
      BY DEF Processed, p
    <3> DEFINE fee == FundingFee(mk, k, p)
    <3>2. fee = result.funding + result.unpaid
      BY <3>1
    <3> HIDE DEF fee
    <3>3. \A t \in Tokens : funding'[t] + unpaid'[t] = funding[t] + unpaid[t] + (IF t = c THEN fee ELSE 0)
      BY <1>0, <1>2, <1>16, <3>2
    <3> QED
      BY <3>3 DEF FeeEntered, fee, c
  <2> QED
    BY <1>3, <1>6, <1>16, <2>1, <2>2, <2>4, <2>5, <2>6, <2>7, <2>8, SettledKeepsFunding
<1>23. ASSUME NEW b \in BOOLEAN, b = k.isLong => KeptExactly(next, kept)
       PROVE  ExactKept(mk, b)
  <2>1. ExactSettled(positions, taken, k, next, kept, after)
    BY <1>8 DEF SettledBooks
  <2>2. SamePositionBooks(after, market') /\ positions' = [positions EXCEPT ![k] = kept]
    BY <1>1, <1>11 DEF pos2
  <2> QED
    BY <1>0, <1>23, <2>1, <2>2, SettledKeepsExact
<1> QED
  BY <1>21, <1>22, <1>23 DEF kept

-----------------------------------------------------------------------------
(* Decreasing a position.                                                   *)

(* DecreasePosition, liquidations and auto-deleveraging included, keeps the *)
(* invariant, and funding backed.                                           *)
LEMMA DecreaseKeepsInv ==
  ASSUME PositionsInv, actions < MaxActions, NEW k \in PositionKeys, NEW kind,
         NEW d \in Nat, NEW x \in Nat, NEW swap \in Swaps,
         NEW s \in Situations, NEW mk, Sound(positions, mk), SameTokens(market, mk),
         DecreasePosition(k, kind, d, x, swap, s, mk)
  PROVE  PositionsInv' /\ FundingKept(mk) /\ ExactHeld(mk)
<1> DEFINE c == k.collateral
           t0 == PnlToken(k.isLong)
           p == positions[k]
           ui == IF kind = "order" THEN Setting.uiFeeFactor ELSE 0
           pc == s.token[c].min
           ps == s.token[t0].min
           inProfit == swap = "profit"
           Was(y) == [out |-> y.out, rest |-> p.collateralAmount, sec |-> y.sec]
           asked == AdjustedDecrease(k, p, s, d, x)
           v == Realized(mk, k, p, s, asked.d, ui)
           start == TakeProfit(mk, k, s, v, inProfit, ui)
           paid == CostsPaid(Was(start), v, pc, ps)
           result == ProcessCollateral(start.market, k, s, asked.x, v, paid)
           next == Decreased(mk, k, p, asked.d, v.tokens, result.rest)
           after == Settled(result.market, k, p, next, next.borrowingFactor)
           Histories(r) ==
             /\ funding' = Plus(funding, Of(c, r.funding))
             /\ unpaid' = Plus(unpaid, Of(c, r.unpaid))
             /\ stranded' = Plus(stranded, Of(c, r.stranded))
             /\ uncovered' = Plus(uncovered, Of(c, r.uncovered))
<1>1. /\ p.sizeInUsd > 0 /\ d <= p.sizeInUsd /\ swap # "none" => c # t0
      /\ start.possible /\ v.fees.pool >= 0
      /\ FinishDecrease(k, kind, swap, s, ui, next, result, after)
      /\ Histories(result) /\ Took
  <2> DEFINE V(a) == Realized(mk, k, p, s, a.d, ui)
             S(w) == TakeProfit(mk, k, s, w, inProfit, ui)
             P(w, y) == CostsPaid(Was(y), w, pc, ps)
             R(a, w, y, q) == ProcessCollateral(y.market, k, s, a.x, w, q)
             N(a, w, r) == Decreased(mk, k, p, a.d, w.tokens, r.rest)
             First(a) == /\ a.possible
                         /\ kind = "liquidation" => isPositionLiquidatable(mk, k, p, s, TRUE)
             Second(a, w, y) == /\ y.possible /\ w.fees.pool >= 0
                                /\ PriceNotNegative(k, p, s, a.d, w.impact)
             Third(a, r) == ~r.complete => a.d = p.sizeInUsd /\ kind # "order"
             Fourth(r, n) == FinishDecrease(k, kind, swap, s, ui, n, r,
                                            Settled(r.market, k, p, n, n.borrowingFactor))
  <2>1. /\ p.sizeInUsd > 0 /\ d <= p.sizeInUsd
        /\ swap # "none" => c # t0
        /\ \E a \in {asked} :
             /\ First(a)
             /\ \E w \in {V(a)} : \E y \in {S(w)} :
                  /\ Second(a, w, y)
                  /\ \E q \in {P(w, y)} : \E r \in {R(a, w, y, q)} :
                       /\ Third(a, r)
                       /\ \E n \in {N(a, w, r)} : Fourth(r, n)
                       /\ Histories(r)
        /\ Took
    BY ZenonT(60) DEF DecreasePosition
  <2> HIDE DEF asked, V, S, P, R, N, First, Second, Third, Fourth, Histories
  <2>2. \E w \in {V(asked)} : \E y \in {S(w)} :
                  /\ Second(asked, w, y)
                  /\ \E q \in {P(w, y)} : \E r \in {R(asked, w, y, q)} :
                       /\ Third(asked, r)
                       /\ \E n \in {N(asked, w, r)} : Fourth(r, n)
                       /\ Histories(r)
    BY Zenon, <2>1
  <2>3. \E y \in {S(V(asked))} :
                  /\ Second(asked, V(asked), y)
                  /\ \E q \in {P(V(asked), y)} : \E r \in {R(asked, V(asked), y, q)} :
                       /\ Third(asked, r)
                       /\ \E n \in {N(asked, V(asked), r)} : Fourth(r, n)
                       /\ Histories(r)
    BY Zenon, <2>2
  <2>4. v = V(asked) /\ start = S(v) /\ paid = P(v, start)
        /\ result = R(asked, v, start, paid) /\ next = N(asked, v, result)
    BY Zenon DEF V, S, P, R, N
  <2> HIDE DEF v, start, paid, result, next
  <2>5. /\ Second(asked, v, start)
        /\ \E q \in {P(v, start)} : \E r \in {R(asked, v, start, q)} :
             /\ Third(asked, r)
             /\ \E n \in {N(asked, v, r)} : Fourth(r, n)
             /\ Histories(r)
    BY Zenon, <2>3, <2>4
  <2>6. (\E n \in {N(asked, v, result)} : Fourth(result, n)) /\ Histories(result)
    BY Zenon, <2>4, <2>5
  <2>7. Fourth(result, next)
    BY Zenon, <2>4, <2>6
  <2> QED
    BY Zenon, <2>1, <2>5, <2>6, <2>7 DEF Second, Fourth
<1>20. p.sizeInUsd > 0 /\ d <= p.sizeInUsd
  BY Zenon DEF DecreasePosition
<1>21. swap # "none" => c # t0
  BY Zenon DEF DecreasePosition
<1>2. positions \in [PositionKeys -> Position]
  BY InvUse
<1>3. /\ mk \in Market /\ BooksCover(positions, mk) /\ PositionsBehind(positions, mk) /\ ClaimsMatch(mk)
  BY DEF Sound
<1>4. /\ p \in Position /\ Behind(p, k, mk) /\ p.sizeInTokens > 0 /\ p.collateralAmount \in Nat
  BY <1>2, <1>3, <1>20, PositionType DEF PositionsBehind
<1>5. ui \in Nat
  BY SettingType
<1>6. c \in Tokens /\ t0 \in Tokens
  BY KeyType
<1>7. pc \in Nat /\ pc > 0 /\ ps \in Nat /\ ps > 0
  BY <1>6, SituationType
<1>8. inProfit \in BOOLEAN /\ (inProfit => c # t0) /\ (swap = "collateral" => c # t0)
  BY <1>21
<1>9. /\ asked.d \in Nat /\ asked.d <= p.sizeInUsd /\ asked.x \in Nat
      /\ asked.d = p.sizeInUsd \/ p.sizeInUsd - asked.d >= Setting.minPositionSizeUsd
  BY <1>4, <1>20, AdjustedType
<1> HIDE DEF asked, ui, pc, ps, inProfit
<1>10. /\ RealizedType(v) /\ v.funding = FundingFee(mk, k, p)
       /\ v.tokens <= p.sizeInTokens /\ (asked.d = p.sizeInUsd => v.tokens = p.sizeInTokens)
      /\ v.tokens = SizeDeltaInTokens(k, p, asked.d)
  BY <1>3, <1>4, <1>5, <1>9, <1>20, RealizedIs
<1> HIDE DEF v
<1>11. v.tokens \in Nat /\ v.pnl \in Int /\ v.impact \in Int /\ v.diff \in Nat /\ v.funding \in Nat
       /\ v.fees.cost \in Nat
  BY <1>10 DEF RealizedType, FeesSplit
<1> HIDE DEF start
<1>12. /\ start.market \in Market /\ start.out \in Nat /\ start.sec \in Nat
       /\ SamePositionBooks(mk, start.market) /\ SameFactors(mk, start.market)
       /\ SameClaims(mk, start.market)
       /\ \A u \in Tokens :
            BookSum(start.market, u) = BookSum(mk, u) - (IF u = c THEN start.out ELSE 0)
                                         - (IF u = t0 THEN start.sec ELSE 0)
  BY <1>1, <1>3, <1>5, <1>8, <1>11, TakeProfitBooks DEF start
<1> DEFINE purse == Was(start)
<1>13. /\ purse \in Purse /\ purse.out = start.out /\ purse.rest = p.collateralAmount
       /\ purse.sec = start.sec
  BY <1>4, <1>12 DEF Purse
<1> HIDE DEF purse
<1>14. CostsSplit(purse, v, paid)
  BY <1>7, <1>11, <1>13, CostsPaidSplit DEF purse
<1> HIDE DEF paid
<1>15. ClaimsMatch(start.market)
  BY <1>3, <1>12, ClaimsSame
<1>16. CollateralProcessed(start.market, k, purse, result) /\ result.funding + result.unpaid = v.funding
  BY <1>1, <1>9, <1>10, <1>12, <1>13, <1>14, <1>15, ProcessCollateralBooks
<1> HIDE DEF result
<1>17. /\ result.market \in Market /\ ClaimsMatch(result.market)
       /\ SamePositionBooks(start.market, result.market) /\ SameFactors(start.market, result.market)
       /\ result.rest \in Nat /\ result.out \in Nat /\ result.sec \in Nat
       /\ result.funding \in Nat /\ result.unpaid \in Nat
       /\ result.stranded \in Nat /\ result.uncovered \in Nat
  BY <1>16 DEF CollateralProcessed
<1>18. Processed(mk, result.market, k, result)
  <2>1. SamePositionBooks(mk, result.market) /\ SameFactors(mk, result.market)
    BY <1>12, <1>17 DEF SamePositionBooks, SameFactors
  <2>2. ASSUME NEW t \in Tokens
        PROVE  BookSum(result.market, t) =
                 BookSum(mk, t) + (IF t = c
                                   THEN p.collateralAmount + result.uncovered
                                          - result.out - result.rest - result.funding - result.stranded
                                   ELSE 0)
                                - (IF t = t0 THEN result.sec ELSE 0)
    <3> DEFINE a == BookSum(mk, t)
               a1 == BookSum(start.market, t)
               a2 == BookSum(result.market, t)
    <3>1. a \in Nat /\ a1 \in Nat /\ a2 \in Nat
      BY <1>3, <1>12, <1>17, BooksType
    <3>2. a1 = a - (IF t = c THEN start.out ELSE 0) - (IF t = t0 THEN start.sec ELSE 0)
      BY <1>12
    <3>3. a2 = a1 + (IF t = c
                     THEN start.out + p.collateralAmount + result.uncovered
                            - result.out - result.rest - result.funding - result.stranded
                     ELSE 0)
                  + (IF t = t0 THEN start.sec - result.sec ELSE 0)
      BY <1>13, <1>16 DEF CollateralProcessed
    <3> HIDE DEF a, a1, a2, c, t0, p
    <3>4. CASE t = c /\ t = t0
      BY <1>4, <1>12, <1>17, <3>1, <3>2, <3>3, <3>4 DEF a, a2
    <3>5. CASE t = c /\ t # t0
      BY <1>4, <1>12, <1>17, <3>1, <3>2, <3>3, <3>5 DEF a, a2
    <3>6. CASE t # c /\ t = t0
      BY <1>4, <1>12, <1>17, <3>1, <3>2, <3>3, <3>6 DEF a, a2
    <3>7. CASE t # c /\ t # t0
      BY <1>4, <1>12, <1>17, <3>1, <3>2, <3>3, <3>7 DEF a, a2
    <3> QED
      BY <3>4, <3>5, <3>6, <3>7
  <2>3. result.funding + result.unpaid = FundingFee(mk, k, positions[k])
    BY <1>10, <1>16
  <2> QED
    BY <1>17, <2>1, <2>2, <2>3 DEF Processed
<1>19. /\ Reduced(mk, k, result.rest, next)
       /\ asked.d = p.sizeInUsd \/ v.tokens < p.sizeInTokens => KeptExactly(next, Left(next))
  BY <1>3, <1>4, <1>9, <1>10, <1>11, <1>17, DecreasedType
<1> HIDE DEF next
<1>22. /\ PositionsInv' /\ FundingKept(mk)
       /\ \A b \in BOOLEAN : (b = k.isLong => KeptExactly(next, Left(next))) => ExactKept(mk, b)
  BY <1>1, <1>5, <1>8, <1>18, <1>19, FinishKeepsInv
<1>23. ExactHeld(mk)
  <2>1. ASSUME NEW b \in BOOLEAN, b => UnitsFine, b = k.isLong
        PROVE  KeptExactly(next, Left(next))
    <3>1. CASE asked.d = p.sizeInUsd
      BY <1>19, <3>1
    <3>2. CASE asked.d # p.sizeInUsd
      <4> DEFINE least == Setting.minPositionSizeUsd
      <4>1. p.sizeInUsd \in Nat /\ least \in Nat
        BY <1>4, PositionType, PositionsAssumption DEF Settings
      <4>2. asked.d < p.sizeInUsd /\ p.sizeInUsd - asked.d >= least
        BY <1>9, <3>2, <4>1
      <4>3. k.isLong => p.sizeInUsd <= p.sizeInTokens * least
        BY <2>1 DEF UnitsFine
      <4> HIDE DEF least, p
      <4>4. SizeDeltaInTokens(k, p, asked.d) < p.sizeInTokens
        BY <1>4, <1>9, <4>1, <4>2, <4>3, TokensLeft
      <4> QED
        BY <1>10, <1>19, <4>4
    <3> QED
      BY <3>1, <3>2
  <2> QED
    BY <1>22, <2>1 DEF ExactHeld
<1> QED
  BY <1>22, <1>23

-----------------------------------------------------------------------------
(* Claims of funding and of collateral.                                     *)

(* The n tokens t that are paid out were in the books.                      *)
TakenFromBooks(mk, t, n) ==
  \A u \in Tokens :
    BookSum(mk, u) + CollateralOf(mk, u) + funding'[u] =
      BookSum(market, u) + CollateralOf(market, u) + funding[u] - (IF u = t THEN n ELSE 0)

(* Paying out tokens that have left the books keeps the invariant.          *)
LEMMA PayOutKeepsInv ==
  ASSUME PositionsInv, actions < MaxActions, NEW t \in Tokens, NEW n \in Nat, NEW mk,
         Sound(positions, mk), funding' \in [Tokens -> Int], TakenFromBooks(mk, t, n), PayOut(t, n, mk)
  PROVE  PositionsInv'
<1>1. /\ positions \in [PositionKeys -> Position] /\ market \in Market
      /\ balance \in [Tokens -> Nat] /\ unpaid \in [Tokens -> Nat]
      /\ stranded \in [Tokens -> Nat] /\ uncovered \in [Tokens -> Nat]
      /\ funding \in [Tokens -> Int] /\ actions \in 0..MaxActions
      /\ Balanced(balance, uncovered, market, funding, stranded)
  BY InvUse
<1>2. /\ n <= balance[t] /\ market' = mk /\ balance' = [balance EXCEPT ![t] = @ - n]
      /\ positions' = positions /\ unpaid' = unpaid /\ stranded' = stranded /\ uncovered' = uncovered
      /\ actions' = actions + 1
  BY DEF PayOut, Took
<1>3. /\ balance' \in [Tokens -> Nat]
      /\ \A u \in Tokens : balance'[u] = balance[u] - (IF u = t THEN n ELSE 0)
  BY <1>1, <1>2
<1>4. mk \in Market
  BY DEF Sound
<1>5. Balanced(balance', uncovered', market', funding', stranded')
  <2>1. ASSUME NEW u \in Tokens
        PROVE  balance'[u] + uncovered'[u] = BookSum(mk, u) + CollateralOf(mk, u) + funding'[u] + stranded'[u]
    <3> DEFINE a == BookSum(market, u) + CollateralOf(market, u)
               b == BookSum(mk, u) + CollateralOf(mk, u)
               m == IF u = t THEN n ELSE 0
               f == funding[u]
               f2 == funding'[u]
               x == balance[u]
               y == uncovered[u]
               z == stranded[u]
    <3>1. a \in Nat /\ b \in Nat /\ m \in Nat
      BY <1>1, <1>4, BooksType
    <3>2. x + y = a + f + z
      BY <1>1 DEF Balanced
    <3>3. b + f2 = a + f - m
      BY DEF TakenFromBooks
    <3>4. balance'[u] = x - m /\ uncovered'[u] = y /\ stranded'[u] = z
      BY <1>2, <1>3
    <3>5. x \in Nat /\ y \in Nat /\ z \in Nat /\ f \in Int /\ f2 \in Int
      BY <1>1
    <3> HIDE DEF a, b, m, f, f2, x, y, z
    <3>6. x - m + y = b + f2 + z
      BY <3>1, <3>2, <3>3, <3>5
    <3> QED
      BY <3>4, <3>6 DEF b, f2
  <2> QED
    BY <1>2, <2>1 DEF Balanced
<1>6. actions' \in 0..MaxActions
  BY <1>1, <1>2, PositionsAssumption
<1> QED
  BY <1>1, <1>2, <1>3, <1>5, <1>6, InvAgain

(* A claim keeps funding backed.                                            *)
FundingHeld ==
  FundingFits(positions, market, funding, unpaid) => FundingFits(positions', market', funding', unpaid')

(* Books that change neither the positions' nor what is set aside.          *)
LEMMA SoundSame ==
  ASSUME NEW pos \in [PositionKeys -> Position], NEW mk, Sound(pos, mk), NEW mk2 \in Market,
         SamePositionBooks(mk, mk2), SameFactors(mk, mk2), ClaimsMatch(mk2)
  PROVE  Sound(pos, mk2)
<1>1. mk \in Market /\ BooksCover(pos, mk) /\ PositionsBehind(pos, mk)
  BY DEF Sound
<1>2. BooksCover(pos, mk2)
  BY <1>1, CoverSame
<1>3. PositionsBehind(pos, mk2)
  BY <1>1, SameFactorsGrow, BehindGrows
<1> QED
  BY <1>2, <1>3 DEF Sound

(* A claim of something else than funding keeps funding backed.             *)
LEMMA OtherClaimHolds ==
  ASSUME NEW mk, SameFactors(market, mk), mk.claimableFunding = market.claimableFunding,
         NEW t, NEW n, PayOut(t, n, mk), funding' = funding
  PROVE  FundingHeld
<1>1. market' = mk /\ positions' = positions /\ unpaid' = unpaid
  BY DEF PayOut
<1>2. ASSUME FundingFits(positions, market, funding, unpaid)
      PROVE  FundingFits(positions, mk, funding, unpaid)
  BY <1>2, FitsSame
<1> QED
  BY <1>1, <1>2 DEF FundingHeld

(* A claim changes no position's books.                                     *)
LEMMA ClaimHoldsExact ==
  ASSUME NEW mk, mk.openInterest = market.openInterest, mk.totalBorrowing = market.totalBorrowing,
         NEW t, NEW n, PayOut(t, n, mk)
  PROVE  ExactHeld(market)
<1>1. market' = mk /\ positions' = positions
  BY DEF PayOut
<1>2. ASSUME NEW b \in BOOLEAN, ExactOn(positions, market, b)
      PROVE  ExactOn(positions, mk, b)
  BY <1>2 DEF ExactOn
<1> QED
  BY <1>1, <1>2 DEF ExactHeld, ExactKept

(* A product distributes over a difference.                                 *)
LEMMA TimesMinus ==
  ASSUME NEW a \in Int, NEW b \in Int, NEW c \in Int
  PROVE  a * (b - c) = a * b - a * c
OBVIOUS

(* One account claims n tokens t, which leave the funding fees paid.        *)
FundingTaken(mk, mk2, t, account, n, f, f2) ==
  /\ n = mk.claimableFunding[t][account] /\ mk2.claimableFunding[t][account] = 0
  /\ \A a \in Accounts \ {account} : mk2.claimableFunding[t][a] = mk.claimableFunding[t][a]
  /\ \A v \in Tokens \ {t} : mk2.claimableFunding[v] = mk.claimableFunding[v]
  /\ \A v \in Tokens : f2[v] = f[v] - (IF v = t THEN n ELSE 0)

(* So does a claim of funding, which takes as much from what is paid as     *)
(* from what can be claimed.                                                *)
LEMMA FitsClaimed ==
  ASSUME NEW pos \in [PositionKeys -> Position], NEW mk \in Market, PositionsBehind(pos, mk),
         NEW mk2 \in Market, SameFactors(mk, mk2),
         NEW f \in [Tokens -> Int], NEW u \in [Tokens -> Int], NEW f2,
         NEW t \in Tokens, NEW account \in Accounts, NEW n \in Nat,
         FundingTaken(mk, mk2, t, account, n, f, f2), FundingFits(pos, mk, f, u)
  PROVE  FundingFits(pos, mk2, f2, u)
<1> SUFFICES ASSUME NEW v \in Tokens
             PROVE  PerSize * Total(mk2.claimableFunding[v]) + Total(Gets(pos, mk2, v))
                      <= PerSize * (f2[v] + u[v]) + Total(Owes(pos, mk2, v))
  BY DEF FundingFits
<1> DEFINE cs == mk.claimableFunding[v]
           cs2 == mk2.claimableFunding[v]
           G == Total(Gets(pos, mk, v))
           O == Total(Owes(pos, mk, v))
           F == f[v] + u[v]
           F2 == f2[v] + u[v]
<1>1. Gets(pos, mk2, v) = Gets(pos, mk, v) /\ Owes(pos, mk2, v) = Owes(pos, mk, v)
  BY DEF SameFactors, Gets, Owes
<1>2. PerSize * Total(cs) + G <= PerSize * F + O
  BY DEF FundingFits
<1>5. G \in Nat /\ O \in Nat
  <2> DEFINE g == Gets(pos, mk, v)
             o == Owes(pos, mk, v)
             S == KeysIn(v)
  <2>1. g \in [PositionKeys -> Nat] /\ o \in [S -> Nat] /\ IsFiniteSet(PositionKeys) /\ IsFiniteSet(S)
    BY FundingSumsType, KeysInFinite
  <2> HIDE DEF g, o, S
  <2>2. Total(g) \in Nat /\ Total(o) \in Nat
    BY <2>1, UnitsFinite
  <2> QED
    BY <2>2 DEF g, o
<1>3. CASE v # t
  <2>1. cs2 = cs
    BY <1>3 DEF FundingTaken
  <2>2. F2 = F
    <3>1. f2[v] = f[v] - 0 /\ f[v] \in Int
      BY <1>3 DEF FundingTaken
    <3> QED
      BY <3>1
  <2> HIDE DEF cs, cs2, F, F2
  <2>3. PerSize * Total(cs2) + G <= PerSize * F2 + O
    BY <1>2, <2>1, <2>2
  <2> QED
    BY <1>1, <2>3 DEF cs2, F2
<1>4. CASE v = t
  <2>1. cs \in [Accounts -> Nat] /\ cs2 \in [Accounts -> Nat] /\ IsFiniteSet(Accounts)
    BY PositionsAssumption DEF Market
  <2>2. cs[account] = n /\ cs2[account] = 0 /\ \A a \in Accounts \ {account} : cs2[a] = cs[a]
    BY <1>4 DEF FundingTaken
  <2>3. F2 = F - n /\ F \in Int
    <3>1. f2[v] = f[v] - n /\ f[v] \in Int /\ u[v] \in Int
      BY <1>4 DEF FundingTaken
    <3> QED
      BY <3>1
  <2> HIDE DEF cs, cs2
  <2>4. Total(cs2) = Total(cs) - cs[account] + cs2[account]
    BY <2>1, <2>2, TotalUpdate
  <2> DEFINE C == Total(cs)
             C2 == Total(cs2)
  <2>5. C \in Nat /\ C2 \in Nat
    BY <2>1, UnitsFinite
  <2> HIDE DEF C, C2, F, F2
  <2>6. C2 = C - n
    BY <2>2, <2>4, <2>5 DEF C, C2
  <2> DEFINE a == PerSize * C
             b == PerSize * n
             c == PerSize * F
  <2>7. PerSize * C2 = a - b /\ PerSize * F2 = c - b
    <3>1. PerSize * (C - n) = a - b /\ PerSize * (F - n) = c - b
      BY <2>3, <2>5, SettingType, TimesMinus
    <3> QED
      BY <2>3, <2>6, <3>1
  <2>8. a \in Int /\ b \in Int /\ c \in Int
    BY <2>3, <2>5, SettingType
  <2> DEFINE x == PerSize * C2
             y == PerSize * F2
  <2>9. a + G <= c + O
    BY <1>2 DEF C
  <2>10. x = a - b /\ y = c - b
    BY <2>7
  <2> HIDE DEF a, b, c, x, y, G, O
  <2>11. x + G <= y + O
    BY <1>5, <2>8, <2>9, <2>10
  <2> QED
    BY <1>1, <2>11 DEF x, y, C2, F2, G, O, cs2
<1> QED
  BY <1>3, <1>4

(* claimFundingFees keeps the invariant, and funding backed.                *)
LEMMA ClaimFundingKeepsInv ==
  ASSUME PositionsInv, actions < MaxActions, NEW t \in Tokens, NEW account \in Accounts,
         ClaimFundingFees(account, t)
  PROVE  PositionsInv' /\ FundingHeld /\ ExactHeld(market)
<1> DEFINE n == market.claimableFunding[t][account]
           mine == [market.claimableFunding[t] EXCEPT ![account] = 0]
           claims == [market.claimableFunding EXCEPT ![t] = mine]
           mk2 == [market EXCEPT !.claimableFunding = claims]
           mk == [market EXCEPT !.claimableFunding[t][account] = 0]
<1>1. PayOut(t, n, mk) /\ funding' = [funding EXCEPT ![t] = @ - n]
  BY DEF ClaimFundingFees
<1>2. positions \in [PositionKeys -> Position] /\ market \in Market /\ Sound(positions, market)
      /\ funding \in [Tokens -> Int] /\ ClaimsMatch(market)
  BY InvUse DEF Sound
<1>3. market.claimableFunding \in [Tokens -> [Accounts -> Nat]]
  BY <1>2 DEF Market
<1>4. mk = mk2
  BY <1>2, <1>3 DEF Market
<1>5. n \in Nat /\ mine \in [Accounts -> Nat]
  BY <1>3
<1> HIDE DEF mk, n, mine
<1>6. claims \in [Tokens -> [Accounts -> Nat]]
  BY <1>3, <1>5
<1> HIDE DEF claims
<1>7. mk2 \in Market
  BY <1>2, <1>6 DEF Market
<1>8. /\ SameFactors(market, mk2) /\ SameClaims(market, mk2)
      /\ mk2.openInterest = market.openInterest /\ mk2.openInterestInTokens = market.openInterestInTokens
      /\ mk2.collateralSum = market.collateralSum /\ mk2.totalBorrowing = market.totalBorrowing
      /\ mk2.claimableFunding = claims
  BY <1>2 DEF Market, SameFactors, SameClaims
<1>9. \A u \in Tokens : BookSum(mk2, u) = BookSum(market, u)
  BY <1>2 DEF Market, BookSum
<1> HIDE DEF mk2
<1>10. Sound(positions, mk)
  <2>1. BooksCover(positions, mk2)
    BY <1>2, <1>8 DEF Sound, BooksCover
  <2>2. PositionsBehind(positions, mk2)
    BY <1>2, <1>7, <1>8, SameFactorsGrow, BehindGrows DEF Sound
  <2>3. ClaimsMatch(mk2)
    BY <1>2, <1>8, ClaimsSame
  <2> QED
    BY <1>4, <1>7, <2>1, <2>2, <2>3 DEF Sound
<1>11. funding' \in [Tokens -> Int] /\ \A u \in Tokens : funding'[u] = funding[u] - (IF u = t THEN n ELSE 0)
  BY <1>1, <1>2, <1>5
<1>12. TakenFromBooks(mk, t, n)
  <2>1. ASSUME NEW u \in Tokens
        PROVE  BookSum(mk, u) + CollateralOf(mk, u) + funding'[u] =
                 BookSum(market, u) + CollateralOf(market, u) + funding[u] - (IF u = t THEN n ELSE 0)
    <3>1. BookSum(mk, u) = BookSum(market, u) /\ CollateralOf(mk, u) = CollateralOf(market, u)
      BY <1>4, <1>8, <1>9 DEF CollateralOf
    <3>2. BookSum(market, u) \in Nat /\ CollateralOf(market, u) \in Nat /\ funding[u] \in Int
      BY <1>2, BooksType
    <3>3. funding'[u] = funding[u] - (IF u = t THEN n ELSE 0)
      BY <1>11
    <3> QED
      BY <1>5, <3>1, <3>2, <3>3
  <2> QED
    BY <2>1 DEF TakenFromBooks
<1>13. PositionsInv'
  BY <1>1, <1>5, <1>10, <1>11, <1>12, PayOutKeepsInv
<1>14. FundingHeld
  <2>1. market' = mk2 /\ positions' = positions /\ unpaid' = unpaid
    BY <1>1, <1>4 DEF PayOut
  <2>2. unpaid \in [Tokens -> Int]
    BY InvUse
  <2>3. /\ n = market.claimableFunding[t][account] /\ mk2.claimableFunding[t][account] = 0
        /\ \A a \in Accounts \ {account} : mk2.claimableFunding[t][a] = market.claimableFunding[t][a]
        /\ \A v \in Tokens \ {t} : mk2.claimableFunding[v] = market.claimableFunding[v]
    BY <1>3, <1>8 DEF n, mine, claims
  <2> DEFINE f2 == funding'
  <2>4. \A u \in Tokens : f2[u] = funding[u] - (IF u = t THEN n ELSE 0)
    BY <1>11
  <2> HIDE DEF f2
  <2> HIDE DEF mk2
  <2>6. PositionsBehind(positions, market)
    BY <1>2 DEF Sound
  <2>7. ASSUME FundingFits(positions, market, funding, unpaid)
        PROVE  FundingFits(positions, mk2, f2, unpaid)
    <3>1. FundingTaken(market, mk2, t, account, n, funding, f2)
      BY <2>3, <2>4 DEF FundingTaken
    <3> QED
      BY <1>2, <1>5, <1>7, <1>8, <2>2, <2>6, <2>7, <3>1, FitsClaimed
  <2>5. FundingFits(positions, market, funding, unpaid) => FundingFits(positions, mk2, f2, unpaid)
    BY <2>7
  <2> QED
    BY <2>1, <2>5 DEF FundingHeld, f2
<1>15. ExactHeld(market)
  BY <1>1, <1>4, <1>8, ClaimHoldsExact
<1> QED
  BY <1>13, <1>14, <1>15

(* claimCollateral keeps the invariant, and funding backed.                 *)
LEMMA ClaimCollateralKeepsInv ==
  ASSUME PositionsInv, actions < MaxActions, NEW t \in Tokens, NEW owner \in Owners,
         NEW factor \in ClaimableFactors, ClaimCollateral(owner, t, factor)
  PROVE  PositionsInv' /\ FundingHeld /\ ExactHeld(market)
<1> DEFINE released == ApplyFactor(market.claimableCollateral[t][owner], factor)
           before == market.claimedCollateral[t][owner]
           n == released - before
           mine == [market.claimedCollateral[t] EXCEPT ![owner] = released]
           claimed == [market.claimedCollateral EXCEPT ![t] = mine]
           left == market.claimableCollateralAmount[t] - n
           amounts == [market.claimableCollateralAmount EXCEPT ![t] = left]
           mk2 == [market EXCEPT !.claimedCollateral = claimed, !.claimableCollateralAmount = amounts]
           mk == [market EXCEPT !.claimedCollateral[t][owner] = released,
                                !.claimableCollateralAmount[t] = @ - n]
<1>1. PayOut(t, n, mk) /\ funding' = funding
  BY Zenon DEF ClaimCollateral
<1>2. positions \in [PositionKeys -> Position] /\ market \in Market /\ Sound(positions, market)
      /\ funding \in [Tokens -> Int] /\ ClaimsMatch(market)
  BY InvUse DEF Sound
<1>3. /\ market.claimedCollateral \in [Tokens -> [Owners -> Nat]]
      /\ market.claimableCollateral \in [Tokens -> [Owners -> Nat]]
      /\ market.claimableCollateralAmount \in [Tokens -> Nat]
  BY <1>2 DEF Market
<1>4. /\ released \in Nat /\ released <= market.claimableCollateral[t][owner] /\ before \in Nat
  <2>1. factor \in Nat /\ factor <= FloatPrecision
    BY PositionsAssumption, PrecisionType
  <2>2. market.claimableCollateral[t][owner] \in Nat /\ before \in Nat
    BY <1>3
  <2> QED
    BY <2>1, <2>2, FactorType, FactorAtMost
<1> HIDE DEF released, before
<1>5. n \in Nat /\ n > 0
  <2>1. 0 < n
    BY <1>1 DEF PayOut
  <2> QED
    BY <1>4, <2>1
<1>6. mk = mk2
  BY <1>2, <1>3 DEF Market
<1> HIDE DEF mk
<1>7. mine \in [Owners -> Nat] /\ claimed \in [Tokens -> [Owners -> Nat]]
  BY <1>3, <1>4
<1> DEFINE f == OwnersLeft(market, t)
           g == [o \in Owners |-> market.claimableCollateral[t][o] - mine[o]]
<1>8. /\ \A o \in Owners : /\ market.claimedCollateral[t][o] \in Nat /\ market.claimableCollateral[t][o] \in Nat
                           /\ market.claimedCollateral[t][o] <= market.claimableCollateral[t][o]
      /\ Total(f) = market.claimableCollateralAmount[t]
  BY <1>2, <1>3 DEF ClaimsMatch
<1>9. /\ mine[owner] = released /\ \A o \in Owners : o # owner => mine[o] = market.claimedCollateral[t][o]
  BY <1>3
<1>10. f \in [Owners -> Nat] /\ f[owner] = market.claimableCollateral[t][owner] - before
  BY <1>8 DEF OwnersLeft, before
<1>11. \A o \in Owners : mine[o] <= market.claimableCollateral[t][o] /\ mine[o] \in Nat
  <2> HIDE DEF mine
  <2> QED
    BY <1>4, <1>8, <1>9
<1>12. /\ g \in [Owners -> Nat] /\ g[owner] = market.claimableCollateral[t][owner] - released
       /\ \A o \in Owners \ {owner} : g[o] = f[o]
  <2> HIDE DEF mine
  <2> QED
    BY <1>8, <1>9, <1>11 DEF OwnersLeft
<1> HIDE DEF f, g
<1>13. Total(g) = Total(f) - f[owner] + g[owner]
  BY <1>10, <1>12, OwnersFinite, TotalUpdate
<1>14. Total(g) = left /\ left \in Nat
  <2>1. Total(g) \in Nat /\ Total(f) \in Nat
    BY <1>10, <1>12, OwnersFinite, UnitsFinite
  <2>2. market.claimableCollateral[t][owner] \in Nat
    BY <1>3
  <2> QED
    BY <1>4, <1>8, <1>10, <1>12, <1>13, <2>1, <2>2
<1> HIDE DEF left, mine, n
<1>15. amounts \in [Tokens -> Nat] /\ amounts[t] = left
       /\ \A u \in Tokens : u # t => amounts[u] = market.claimableCollateralAmount[u]
  BY <1>3, <1>14
<1>16. claimed[t] = mine /\ \A u \in Tokens : u # t => claimed[u] = market.claimedCollateral[u]
  BY <1>3
<1> HIDE DEF claimed, amounts
<1>17. mk2 \in Market
  BY <1>2, <1>7, <1>15 DEF Market
<1>18. SamePositionBooks(market, mk2) /\ SameFactors(market, mk2)
  BY <1>2 DEF Market, SamePositionBooks, SameFactors
<1>19. /\ mk2.claimedCollateral = claimed /\ mk2.claimableCollateralAmount = amounts
       /\ mk2.claimableCollateral = market.claimableCollateral
       /\ mk2.poolAmount = market.poolAmount /\ mk2.claimableFee = market.claimableFee
       /\ mk2.claimableUiFee = market.claimableUiFee /\ mk2.affiliateReward = market.affiliateReward
  BY <1>2 DEF Market
<1> HIDE DEF mk2
<1>20. ClaimsMatch(mk2)
  <2>1. ASSUME NEW u \in Tokens
        PROVE  /\ \A o \in Owners : mk2.claimedCollateral[u][o] <= mk2.claimableCollateral[u][o]
               /\ Total(OwnersLeft(mk2, u)) = mk2.claimableCollateralAmount[u]
    <3>1. CASE u = t
      <4>1. OwnersLeft(mk2, u) = g
        BY <1>16, <1>19, <3>1 DEF OwnersLeft, g
      <4> QED
        BY <1>11, <1>14, <1>15, <1>16, <1>19, <3>1, <4>1
    <3>2. CASE u # t
      <4>1. OwnersLeft(mk2, u) = OwnersLeft(market, u)
        BY <1>16, <1>19, <3>2 DEF OwnersLeft
      <4>2. /\ \A o \in Owners : market.claimedCollateral[u][o] <= market.claimableCollateral[u][o]
            /\ Total(OwnersLeft(market, u)) = market.claimableCollateralAmount[u]
        BY <1>2 DEF ClaimsMatch
      <4> QED
        BY <1>15, <1>16, <1>19, <3>2, <4>1, <4>2
    <3> QED
      BY <3>1, <3>2
  <2> QED
    BY <2>1 DEF ClaimsMatch
<1>21. Sound(positions, mk)
  BY <1>2, <1>6, <1>17, <1>18, <1>20, SoundSame
<1>22. funding' \in [Tokens -> Int]
  BY <1>1, <1>2
<1>23. TakenFromBooks(mk, t, n)
  <2>1. ASSUME NEW u \in Tokens
        PROVE  BookSum(mk, u) + CollateralOf(mk, u) + funding'[u] =
                 BookSum(market, u) + CollateralOf(market, u) + funding[u] - (IF u = t THEN n ELSE 0)
    <3> DEFINE a == market.poolAmount[u]
               b == market.claimableFee[u]
               c == market.claimableUiFee[u]
               d == market.affiliateReward[u]
               e == market.claimableCollateralAmount[u]
               e2 == amounts[u]
               q == CollateralOf(market, u)
    <3>1. /\ a \in Nat /\ b \in Nat /\ c \in Nat /\ d \in Nat /\ e \in Nat /\ q \in Nat
          /\ funding[u] \in Int /\ funding'[u] = funding[u]
      BY <1>1, <1>2, BooksType
    <3>2. BookSum(market, u) = a + b + c + d + e
      BY DEF BookSum
    <3>3. BookSum(mk, u) = a + b + c + d + e2
      BY <1>6, <1>19 DEF BookSum
    <3>4. CollateralOf(mk, u) = q
      BY <1>6, <1>18, CollateralSame
    <3>5. e2 = e - (IF u = t THEN n ELSE 0)
      <4>1. CASE u = t
        BY <1>15, <4>1 DEF left
      <4>2. CASE u # t
        BY <1>15, <3>1, <4>2
      <4> QED
        BY <4>1, <4>2
    <3> HIDE DEF a, b, c, d, e, e2
    <3>6. BookSum(mk, u) + q + funding'[u] = BookSum(market, u) + q + funding[u] - (IF u = t THEN n ELSE 0)
      <4> HIDE DEF q
      <4> QED
        BY <1>5, <3>1, <3>2, <3>3, <3>5
    <3> QED
      BY <3>4, <3>6
  <2> QED
    BY <2>1 DEF TakenFromBooks
<1>24. PositionsInv'
  BY <1>1, <1>5, <1>21, <1>22, <1>23, PayOutKeepsInv
<1>25. FundingHeld
  BY <1>1, <1>6, <1>18, OtherClaimHolds DEF SamePositionBooks
<1>26. ExactHeld(market)
  BY <1>1, <1>6, <1>18, ClaimHoldsExact DEF SamePositionBooks
<1> QED
  BY <1>24, <1>25, <1>26

-----------------------------------------------------------------------------
(* Claims of fees, and every step.                                          *)

(* A book of fees whose tokens t are paid out in full.                      *)
Emptied(mk, book, t, mk2) ==
  /\ mk2 \in Market /\ SamePositionBooks(mk, mk2) /\ SameFactors(mk, mk2) /\ SameClaims(mk, mk2)
  /\ \A u \in Tokens : BookSum(mk2, u) = BookSum(mk, u) - (IF u = t THEN mk[book][t] ELSE 0)

(* Emptying a book of fees takes its tokens from the sum of the books.      *)
LEMMA EmptiedBooks ==
  ASSUME NEW mk \in Market, NEW t \in Tokens,
         NEW book \in {"claimableFee", "claimableUiFee", "affiliateReward"}
  PROVE  mk[book][t] \in Nat /\ Emptied(mk, book, t, [mk EXCEPT ![book][t] = 0])
<1> DEFINE Less(f) == [f EXCEPT ![t] = 0]
<1>1. ASSUME NEW f \in [Tokens -> Nat]
      PROVE  /\ Less(f) \in [Tokens -> Nat] /\ f[t] \in Nat /\ Less(f)[t] = f[t] - f[t]
             /\ \A u \in Tokens : Less(f)[u] = f[u] - (IF u = t THEN f[t] ELSE 0)
  OBVIOUS
<1>2. /\ mk.poolAmount \in [Tokens -> Nat] /\ mk.claimableFee \in [Tokens -> Nat]
      /\ mk.claimableUiFee \in [Tokens -> Nat] /\ mk.affiliateReward \in [Tokens -> Nat]
      /\ mk.claimableCollateralAmount \in [Tokens -> Nat]
  BY DEF Market
<1>3. CASE book = "claimableFee"
  <2> DEFINE less == Less(mk.claimableFee)
             mk2 == [mk EXCEPT !.claimableFee = less]
  <2>1. [mk EXCEPT ![book][t] = 0] = mk2 /\ mk[book][t] = mk.claimableFee[t]
    BY <1>3 DEF Market
  <2>2. /\ less \in [Tokens -> Nat] /\ mk.claimableFee[t] \in Nat
        /\ \A u \in Tokens : less[u] = mk.claimableFee[u] - (IF u = t THEN mk.claimableFee[t] ELSE 0)
    BY <1>1, <1>2
  <2> HIDE DEF less
  <2>3. mk2 \in Market
    BY <2>2 DEF Market
  <2>4. SamePositionBooks(mk, mk2) /\ SameFactors(mk, mk2) /\ SameClaims(mk, mk2)
    BY DEF Market, SamePositionBooks, SameFactors, SameClaims
  <2>5. \A u \in Tokens :
          BookSum(mk2, u) = mk.poolAmount[u] + less[u] + mk.claimableUiFee[u]
                              + mk.affiliateReward[u] + mk.claimableCollateralAmount[u]
    BY DEF Market, BookSum
  <2> HIDE DEF mk2
  <2>6. \A u \in Tokens : BookSum(mk2, u) = BookSum(mk, u) - (IF u = t THEN mk.claimableFee[t] ELSE 0)
    BY <1>2, <2>2, <2>5 DEF BookSum
  <2> QED
    BY <2>1, <2>2, <2>3, <2>4, <2>6 DEF Emptied
<1>4. CASE book = "claimableUiFee"
  <2> DEFINE less == Less(mk.claimableUiFee)
             mk2 == [mk EXCEPT !.claimableUiFee = less]
  <2>1. [mk EXCEPT ![book][t] = 0] = mk2 /\ mk[book][t] = mk.claimableUiFee[t]
    BY <1>4 DEF Market
  <2>2. /\ less \in [Tokens -> Nat] /\ mk.claimableUiFee[t] \in Nat
        /\ \A u \in Tokens : less[u] = mk.claimableUiFee[u] - (IF u = t THEN mk.claimableUiFee[t] ELSE 0)
    BY <1>1, <1>2
  <2> HIDE DEF less
  <2>3. mk2 \in Market
    BY <2>2 DEF Market
  <2>4. SamePositionBooks(mk, mk2) /\ SameFactors(mk, mk2) /\ SameClaims(mk, mk2)
    BY DEF Market, SamePositionBooks, SameFactors, SameClaims
  <2>5. \A u \in Tokens :
          BookSum(mk2, u) = mk.poolAmount[u] + mk.claimableFee[u] + less[u]
                              + mk.affiliateReward[u] + mk.claimableCollateralAmount[u]
    BY DEF Market, BookSum
  <2> HIDE DEF mk2
  <2>6. \A u \in Tokens : BookSum(mk2, u) = BookSum(mk, u) - (IF u = t THEN mk.claimableUiFee[t] ELSE 0)
    BY <1>2, <2>2, <2>5 DEF BookSum
  <2> QED
    BY <2>1, <2>2, <2>3, <2>4, <2>6 DEF Emptied
<1>5. CASE book = "affiliateReward"
  <2> DEFINE less == Less(mk.affiliateReward)
             mk2 == [mk EXCEPT !.affiliateReward = less]
  <2>1. [mk EXCEPT ![book][t] = 0] = mk2 /\ mk[book][t] = mk.affiliateReward[t]
    BY <1>5 DEF Market
  <2>2. /\ less \in [Tokens -> Nat] /\ mk.affiliateReward[t] \in Nat
        /\ \A u \in Tokens : less[u] = mk.affiliateReward[u] - (IF u = t THEN mk.affiliateReward[t] ELSE 0)
    BY <1>1, <1>2
  <2> HIDE DEF less
  <2>3. mk2 \in Market
    BY <2>2 DEF Market
  <2>4. SamePositionBooks(mk, mk2) /\ SameFactors(mk, mk2) /\ SameClaims(mk, mk2)
    BY DEF Market, SamePositionBooks, SameFactors, SameClaims
  <2>5. \A u \in Tokens :
          BookSum(mk2, u) = mk.poolAmount[u] + mk.claimableFee[u] + mk.claimableUiFee[u]
                              + less[u] + mk.claimableCollateralAmount[u]
    BY DEF Market, BookSum
  <2> HIDE DEF mk2
  <2>6. \A u \in Tokens : BookSum(mk2, u) = BookSum(mk, u) - (IF u = t THEN mk.affiliateReward[t] ELSE 0)
    BY <1>2, <2>2, <2>5 DEF BookSum
  <2> QED
    BY <2>1, <2>2, <2>3, <2>4, <2>6 DEF Emptied
<1> QED
  BY <1>3, <1>4, <1>5

(* Claiming the fees of a token keeps the invariant, and funding backed.    *)
LEMMA ClaimFeesKeepsInv ==
  ASSUME PositionsInv, actions < MaxActions, NEW t \in Tokens,
         NEW book \in {"claimableFee", "claimableUiFee", "affiliateReward"}, ClaimFees(book, t)
  PROVE  PositionsInv' /\ FundingHeld /\ ExactHeld(market)
<1> DEFINE n == market[book][t]
           mk == [market EXCEPT ![book][t] = 0]
<1>1. PayOut(t, n, mk) /\ funding' = funding
  BY DEF ClaimFees
<1>2. positions \in [PositionKeys -> Position] /\ market \in Market /\ Sound(positions, market)
      /\ funding \in [Tokens -> Int] /\ ClaimsMatch(market)
  BY InvUse DEF Sound
<1>3. n \in Nat /\ Emptied(market, book, t, mk)
  BY <1>2, EmptiedBooks
<1> HIDE DEF mk
<1>4. /\ mk \in Market /\ SamePositionBooks(market, mk) /\ SameFactors(market, mk) /\ SameClaims(market, mk)
      /\ \A u \in Tokens : BookSum(mk, u) = BookSum(market, u) - (IF u = t THEN n ELSE 0)
  BY <1>3 DEF Emptied
<1> HIDE DEF n
<1>5. Sound(positions, mk)
  BY <1>2, <1>4, SoundSame, ClaimsSame
<1>6. TakenFromBooks(mk, t, n)
  <2>1. ASSUME NEW u \in Tokens
        PROVE  BookSum(mk, u) + CollateralOf(mk, u) + funding'[u] =
                 BookSum(market, u) + CollateralOf(market, u) + funding[u] - (IF u = t THEN n ELSE 0)
    <3>1. CollateralOf(mk, u) = CollateralOf(market, u)
      BY <1>4, CollateralSame
    <3>2. BookSum(market, u) \in Nat /\ CollateralOf(market, u) \in Nat /\ funding[u] \in Int
      BY <1>2, BooksType
    <3>3. BookSum(mk, u) = BookSum(market, u) - (IF u = t THEN n ELSE 0) /\ funding'[u] = funding[u]
      BY <1>1, <1>4
    <3> QED
      BY <1>3, <3>1, <3>2, <3>3
  <2> QED
    BY <2>1 DEF TakenFromBooks
<1>7. funding' \in [Tokens -> Int]
  BY <1>1, <1>2
<1>8. PositionsInv'
  BY <1>1, <1>3, <1>5, <1>6, <1>7, PayOutKeepsInv
<1>9. FundingHeld
  BY <1>1, <1>4, OtherClaimHolds DEF SamePositionBooks
<1>10. ExactHeld(market)
  BY <1>1, <1>4, ClaimHoldsExact DEF SamePositionBooks
<1> QED
  BY <1>8, <1>9, <1>10

(* Every claim keeps the invariant, and funding backed.                     *)
LEMMA ClaimKeepsInv ==
  ASSUME PositionsInv, actions < MaxActions, Claim
  PROVE  PositionsInv' /\ FundingHeld /\ ExactHeld(market)
<1>1. PICK t \in Tokens :
        \/ \E account \in Accounts : ClaimFundingFees(account, t)
        \/ \E owner \in Owners, factor \in ClaimableFactors : ClaimCollateral(owner, t, factor)
        \/ \E book \in {"claimableFee", "claimableUiFee", "affiliateReward"} : ClaimFees(book, t)
  BY DEF Claim
<1>2. CASE \E account \in Accounts : ClaimFundingFees(account, t)
  BY <1>2, ClaimFundingKeepsInv
<1>3. CASE \E owner \in Owners, factor \in ClaimableFactors : ClaimCollateral(owner, t, factor)
  BY <1>3, ClaimCollateralKeepsInv
<1>4. CASE \E book \in {"claimableFee", "claimableUiFee", "affiliateReward"} : ClaimFees(book, t)
  BY <1>4, ClaimFeesKeepsInv
<1> QED
  BY <1>1, <1>2, <1>3, <1>4

(* Every execution of an order keeps the invariant, and funding backed if   *)
(* the open interest in usd was exact.                                      *)
LEMMA ExecuteKeepsInv ==
  ASSUME PositionsInv, actions < MaxActions, Execute
  PROVE  PositionsInv' /\ (InterestExact(positions, market) => FundingHeld) /\ ExactHeld(market)
<1>1. PICK s \in Situations : \E mk \in {Accrued(market, s)}, k \in PositionKeys :
                                Increase(k, s, mk) \/ Decrease(k, s, mk)
  BY DEF Execute
<1> DEFINE mk == Accrued(market, s)
<1>2. PICK k \in PositionKeys : Increase(k, s, mk) \/ Decrease(k, s, mk)
  BY <1>1
<1>3. positions \in [PositionKeys -> Position] /\ Sound(positions, market)
  BY InvUse
<1>4. Sound(positions, mk) /\ SameTokens(market, mk)
  BY <1>3, AccruedSound
<1>7. ASSUME InterestExact(positions, market), FundingKept(mk)
      PROVE  FundingHeld
  <2>1. FundingMoved(market, mk)
    BY <1>3, AccruedMovesFunding DEF Sound
  <2>2. /\ market \in Market /\ mk \in Market
        /\ PositionsBehind(positions, market) /\ PositionsBehind(positions, mk)
    BY <1>3, <1>4 DEF Sound
  <2>3. mk.claimableFunding = market.claimableFunding
    BY <2>2, AccruedType DEF SamePositionBooks
  <2>4. funding \in [Tokens -> Int] /\ unpaid \in [Tokens -> Int]
    BY InvUse
  <2> HIDE DEF mk
  <2>5. ASSUME FundingFits(positions, market, funding, unpaid)
        PROVE  FundingFits(positions, mk, funding, unpaid)
    BY <1>3, <1>7, <2>1, <2>2, <2>3, <2>4, <2>5, FitsAccrued
  <2> QED
    BY <1>7, <2>5 DEF FundingHeld, FundingKept
<1>8. ASSUME ExactHeld(mk)
      PROVE  ExactHeld(market)
  <2>1. SamePositionBooks(market, mk)
    BY <1>3, AccruedType DEF Sound
  <2> HIDE DEF mk
  <2>2. \A b \in BOOLEAN : ExactOn(positions, market, b) => ExactOn(positions, mk, b)
    BY <2>1, ExactSame
  <2> QED
    BY <1>8, <2>2 DEF ExactHeld, ExactKept
<1> HIDE DEF mk
<1>5. CASE Increase(k, s, mk)
  <2>1. PICK o \in IncreaseOrders : IncreasePosition(k, o.collateral, o.size, s, mk)
    BY <1>5 DEF Increase
  <2>2. o.collateral \in Nat /\ o.size \in Nat
    BY PositionsAssumption
  <2> QED
    BY <1>4, <1>7, <1>8, <2>1, <2>2, IncreaseKeepsInv
<1>6. CASE Decrease(k, s, mk)
  <2>1. /\ positions[k].sizeInUsd \in Nat /\ positions[k].collateralAmount \in Nat
    BY <1>3, PositionType
  <2>2. ASSUME NEW o \in DecreaseOrders,
               DecreasePosition(k, "order", Smaller(o.size, positions[k].sizeInUsd),
                                Smaller(o.collateral, positions[k].collateralAmount), o.swap, s, mk)
        PROVE  PositionsInv' /\ FundingKept(mk) /\ ExactHeld(mk)
    <3>1. o.collateral \in Nat /\ o.size \in Nat /\ o.swap \in Swaps
      BY PositionsAssumption
    <3>2. /\ Smaller(o.size, positions[k].sizeInUsd) \in Nat
          /\ Smaller(o.collateral, positions[k].collateralAmount) \in Nat
      BY <2>1, <3>1 DEF Smaller
    <3> QED
      BY <1>4, <2>2, <3>1, <3>2, DecreaseKeepsInv
  <2>3. "none" \in Swaps /\ "profit" \in Swaps /\ 0 \in Nat
    BY DEF Swaps
  <2>4. ASSUME NEW swap \in {"none", "profit"},
               DecreasePosition(k, "liquidation", positions[k].sizeInUsd, 0, swap, s, mk)
        PROVE  PositionsInv' /\ FundingKept(mk) /\ ExactHeld(mk)
    BY <1>4, <2>1, <2>3, <2>4, DecreaseKeepsInv
  <2>5. ASSUME NEW swap \in {"none", "profit"}, NEW d \in AdlSizes,
               DecreasePosition(k, "adl", d, 0, swap, s, mk)
        PROVE  PositionsInv' /\ FundingKept(mk) /\ ExactHeld(mk)
    <3>1. d \in Nat
      BY PositionsAssumption
    <3> QED
      BY <1>4, <2>3, <2>5, <3>1, DecreaseKeepsInv
  <2> QED
    BY <1>6, <1>7, <1>8, <2>2, <2>4, <2>5 DEF Decrease
<1> QED
  BY <1>2, <1>5, <1>6

(* So does every step.                                                      *)
LEMMA StepKeepsInv ==
  ASSUME PositionsInv, [Next]_vars
  PROVE  PositionsInv' /\ (InterestExact(positions, market) => FundingHeld) /\ ExactHeld(market)
<1>1. CASE Next
  BY <1>1, ExecuteKeepsInv, ClaimKeepsInv DEF Next
<1>2. CASE UNCHANGED vars
  <2>1. /\ positions' = positions /\ market' = market /\ balance' = balance /\ funding' = funding
        /\ unpaid' = unpaid /\ stranded' = stranded /\ uncovered' = uncovered /\ actions' = actions
    BY <1>2 DEF vars
  <2>2. PositionsInv'
    BY <2>1, InvUse, InvAgain
  <2>3. FundingHeld
    BY <2>1 DEF FundingHeld
  <2>4. ExactHeld(market)
    BY <2>1 DEF ExactHeld, ExactKept
  <2> QED
    BY <2>2, <2>3, <2>4
<1> QED
  BY <1>1, <1>2

-----------------------------------------------------------------------------
(* What the reserve of a side pays for.                                     *)

(* What the positions of a side would take from the pool at given prices.   *)
Profits(pos, s, b) ==
  [k \in KeysOn(b) |-> PositivePart(UncappedPnl(k, pos[k], s)) \div s.token[PnlToken(b)].max]

Payable(pos, mk, s, b) == Total(Profits(pos, s, b)) <= mk.poolAmount[PnlToken(b)]

(* The most a position may be due: the value of its tokens, or its size.    *)
Needs(pos, s, b) ==
  [k \in KeysOn(b) |-> IF b THEN s.index.max * pos[k].sizeInTokens ELSE pos[k].sizeInUsd]

(* The positions of a side are those of each collateral token.              *)
LEMMA SideParts ==
  ASSUME NEW b \in BOOLEAN
  PROVE  /\ KeysOn(b) = KeysOf(<<LongToken, b>>) \cup KeysOf(<<ShortToken, b>>)
         /\ KeysOf(<<LongToken, b>>) \cap KeysOf(<<ShortToken, b>>) = {}
<1> DEFINE A == KeysOf(<<LongToken, b>>)
           B == KeysOf(<<ShortToken, b>>)
<1>1. A \cap B = {}
  BY TokensPair DEF KeysOf, Side
<1>2. ASSUME NEW k \in KeysOn(b) PROVE k \in A \cup B
  <2>1. k \in PositionKeys /\ k.isLong = b
    BY DEF KeysOn
  <2>2. k.collateral = LongToken \/ k.collateral = ShortToken
    BY <2>1, KeyType, TokensPair
  <2> QED
    BY <2>1, <2>2 DEF KeysOf, Side
<1>3. ASSUME NEW k \in A \cup B PROVE k \in KeysOn(b)
  BY DEF KeysOf, KeysOn, Side
<1> QED
  BY <1>1, <1>2, <1>3

(* All of it is at most what is reserved.                                   *)
LEMMA NeedsReserved ==
  ASSUME NEW pos \in [PositionKeys -> Position], NEW mk \in Market, BooksCover(pos, mk),
         NEW s \in Situations, NEW b \in BOOLEAN
  PROVE  Needs(pos, s, b) \in [KeysOn(b) -> Nat] /\ Total(Needs(pos, s, b)) <= ReservedUsd(mk, s, b)
<1> DEFINE x == <<LongToken, b>>
           y == <<ShortToken, b>>
           m == s.index.max
           S == KeysOn(b)
           A == KeysOf(x)
           B == KeysOf(y)
<1>1. x \in Sides /\ y \in Sides
  BY TokensPair DEF Sides
<1>2. m \in Nat
  BY SituationType
<1>3. \A k \in PositionKeys : pos[k].sizeInUsd \in Nat /\ pos[k].sizeInTokens \in Nat
  BY PositionType
<1>4. A \subseteq PositionKeys /\ B \subseteq PositionKeys /\ S \subseteq PositionKeys
  BY <1>1, KeysFinite
<1>5. \A k \in S : (IF b THEN m * pos[k].sizeInTokens ELSE pos[k].sizeInUsd) \in Nat
  BY <1>2, <1>3, <1>4, TimesType
<1>6. Needs(pos, s, b) \in [S -> Nat]
  BY <1>5 DEF Needs
<1>6a. S = A \cup B /\ A \cap B = {}
  BY SideParts
<1>7. CASE b
  <2> DEFINE g == [k \in A |-> m * pos[k].sizeInTokens]
             h == [k \in B |-> m * pos[k].sizeInTokens]
             tx == SizesInTokens(pos, x)
             ty == SizesInTokens(pos, y)
             f == Needs(pos, s, b)
  <2>1. g \in [A -> Nat] /\ h \in [B -> Nat]
    BY <1>2, <1>3, <1>4, TimesType
  <2>2. /\ \A k \in A : f[k] = g[k]
        /\ \A k \in B : f[k] = h[k]
    BY <1>6a, <1>7 DEF Needs
  <2>3. tx \in [A -> Nat] /\ ty \in [B -> Nat]
    BY <1>1, SumsType
  <2>4. /\ \A k \in A : g[k] = m * tx[k]
        /\ \A k \in B : h[k] = m * ty[k]
    BY DEF SizesInTokens
  <2>5. IsFiniteSet(A) /\ IsFiniteSet(B)
    BY <1>1, KeysFinite
  <2>6. Total(tx) = mk.openInterestInTokens[x] /\ Total(ty) = mk.openInterestInTokens[y]
    BY <1>1 DEF BooksCover
  <2>6a. f \in [S -> Nat]
    BY <1>6
  <2> HIDE DEF g, h, tx, ty, f, m, S, A, B
  <2>7. Total(f) = Total(g) + Total(h)
    BY <1>6a, <2>1, <2>2, <2>5, <2>6a, TotalParts
  <2>8. Total(g) = m * Total(tx)
    BY <1>2, <2>1, <2>3, <2>4, <2>5, TotalTimes
  <2>9. Total(h) = m * Total(ty)
    BY <1>2, <2>1, <2>3, <2>4, <2>5, TotalTimes
  <2>10. mk.openInterestInTokens[x] \in Nat /\ mk.openInterestInTokens[y] \in Nat
    BY <1>1, AggregatesType
  <2>11. ReservedUsd(mk, s, b) = (mk.openInterestInTokens[x] + mk.openInterestInTokens[y]) * m
    BY <1>7 DEF ReservedUsd, OpenInterestInTokens, m
  <2> HIDE DEF x, y
  <2>12. Total(f) = ReservedUsd(mk, s, b)
    BY <1>2, <2>6, <2>7, <2>8, <2>9, <2>10, <2>11
  <2>13. ReservedUsd(mk, s, b) \in Nat
    BY <1>2, <2>10, <2>11, TimesType
  <2> QED
    BY <1>6, <2>12, <2>13 DEF f, S
<1>8. CASE ~b
  <2> DEFINE g == Sizes(pos, x)
             h == Sizes(pos, y)
             f == Needs(pos, s, b)
  <2>1. g \in [A -> Nat] /\ h \in [B -> Nat]
    BY <1>1, SumsType
  <2>2. /\ \A k \in A : f[k] = g[k]
        /\ \A k \in B : f[k] = h[k]
    BY <1>6a, <1>8 DEF Needs, Sizes
  <2>3. IsFiniteSet(A) /\ IsFiniteSet(B)
    BY <1>1, KeysFinite
  <2>4. Total(g) <= mk.openInterest[x] /\ Total(h) <= mk.openInterest[y]
    BY <1>1 DEF BooksCover
  <2>5. mk.openInterest[x] \in Nat /\ mk.openInterest[y] \in Nat
    BY <1>1, AggregatesType
  <2>6. ReservedUsd(mk, s, b) = mk.openInterest[x] + mk.openInterest[y]
    BY <1>8 DEF ReservedUsd, OpenInterest
  <2>6a. f \in [S -> Nat]
    BY <1>6
  <2> HIDE DEF g, h, f, S, A, B
  <2>7. Total(f) = Total(g) + Total(h)
    BY <1>6a, <2>1, <2>2, <2>3, <2>6a, TotalParts
  <2>8. Total(g) \in Nat /\ Total(h) \in Nat
    BY <2>1, <2>3, UnitsFinite
  <2> HIDE DEF x, y
  <2> QED
    BY <1>6, <2>4, <2>5, <2>6, <2>7, <2>8 DEF f, S
<1> QED
  BY <1>6, <1>7, <1>8

(* No position's profit is more than that.                                  *)
LEMMA ProfitNeeded ==
  ASSUME NEW pos \in [PositionKeys -> Position], NEW s \in Situations, NEW b \in BOOLEAN,
         NEW k \in KeysOn(b)
  PROVE  /\ Profits(pos, s, b)[k] \in Nat
         /\ s.token[PnlToken(b)].max * Profits(pos, s, b)[k] <= Needs(pos, s, b)[k]
<1> DEFINE p == pos[k]
           size == p.sizeInUsd
           tokens == p.sizeInTokens
           price == s.token[PnlToken(b)].max
           low == s.index.min
           high == s.index.max
           pnl == UncappedPnl(k, p, s)
           n == PositivePart(pnl)
           q == n \div price
           need == IF b THEN high * tokens ELSE size
<1>1. k \in PositionKeys /\ k.isLong = b
  BY DEF KeysOn
<1>2. p \in Position /\ size \in Nat /\ tokens \in Nat
  BY <1>1, PositionType
<1>3. price \in Nat /\ price > 0
  BY TokensPair, SituationType
<1>4. low \in Nat /\ high \in Nat /\ low <= high
  BY SituationType, PricesOrdered
<1>5. Profits(pos, s, b)[k] = q /\ Needs(pos, s, b)[k] = need
  BY DEF Profits, Needs
<1>6. pnl = IF b THEN tokens * low - size ELSE size - tokens * high
  BY <1>1 DEF UncappedPnl
<1> HIDE DEF p, size, tokens, price, low, high, pnl
<1>7. tokens * low \in Nat /\ tokens * high \in Nat /\ tokens * high = high * tokens
  BY <1>2, <1>4, TimesType
<1>8. tokens * low <= tokens * high
  BY <1>2, <1>4, TimesMonotone
<1>9. pnl \in Int /\ n \in Nat /\ n <= need
  BY <1>2, <1>6, <1>7, <1>8 DEF PositivePart
<1>10. need \in Nat
  BY <1>2, <1>7
<1> HIDE DEF n, need
<1>11. q \in Nat /\ price * q <= n
  BY <1>3, <1>9, DivType
<1> HIDE DEF q
<1>12. price * q \in Nat
  BY <1>3, <1>11, TimesType
<1> QED
  BY <1>5, <1>9, <1>10, <1>11, <1>12 DEF price

(* A side whose reserve is in the pool can be paid.                         *)
LEMMA ReservePays ==
  ASSUME Setting.reserveFactor <= FloatPrecision,
         NEW pos \in [PositionKeys -> Position], NEW mk \in Market, BooksCover(pos, mk),
         NEW s \in Situations, NEW b \in BOOLEAN, validateReserve(mk, s, b)
  PROVE  Payable(pos, mk, s, b)
<1> DEFINE t == PnlToken(b)
           S == KeysOn(b)
           price == s.token[t].max
           low == s.token[t].min
           pool == mk.poolAmount[t]
           f == Profits(pos, s, b)
           g == [k \in S |-> price * f[k]]
           h == Needs(pos, s, b)
           reserved == ReservedUsd(mk, s, b)
           usd == PoolUsd(mk, s, b)
<1>1. t \in Tokens
  BY TokensPair
<1>2. price \in Nat /\ price > 0 /\ low \in Nat /\ low <= price
  BY <1>1, SituationType, PricesOrdered
<1>3. pool \in Nat
  BY <1>1 DEF Market
<1>4. h \in [S -> Nat] /\ Total(h) <= reserved
  BY NeedsReserved
<1>5. \A k \in S : f[k] \in Nat /\ price * f[k] <= h[k]
  BY ProfitNeeded
<1>6. IsFiniteSet(S)
  BY KeysFinite
<1>7. f \in [S -> Nat]
  <2>1. f = [k \in S |-> f[k]]
    BY DEF Profits
  <2> HIDE DEF f
  <2> QED
    BY <1>5, <2>1
<1>8. reserved <= ApplyFactor(usd, Setting.reserveFactor)
  BY DEF validateReserve
<1>9. usd = pool * low /\ usd \in Nat
  BY <1>2, <1>3, TimesType DEF PoolUsd
<1>10. Setting.reserveFactor \in Nat
  BY PositionsAssumption DEF Settings
<1>11. ApplyFactor(usd, Setting.reserveFactor) \in Nat /\ ApplyFactor(usd, Setting.reserveFactor) <= usd
  BY <1>9, <1>10, FactorType, FactorAtMost
<1>12. reserved \in Nat
  <2>1. OpenInterest(mk, FALSE) \in Nat /\ OpenInterestInTokens(mk, TRUE) \in Nat
    BY OpenInterestType
  <2>2. s.index.max \in Nat
    BY SituationType
  <2> QED
    BY <2>1, <2>2, TimesType DEF ReservedUsd
<1> HIDE DEF price, low, pool, f, h, reserved, usd, S
<1>13. g \in [S -> Nat] /\ \A k \in S : g[k] = price * f[k]
  BY <1>2, <1>7, TimesType
<1> HIDE DEF g
<1>14. \A k \in S : g[k] <= h[k]
  BY <1>5, <1>13
<1>15. Total(g) <= Total(h)
  BY <1>4, <1>6, <1>13, <1>14, TotalAtMost
<1>16. Total(g) = price * Total(f)
  BY <1>2, <1>6, <1>7, <1>13, TotalTimes
<1>17. Total(f) \in Nat /\ Total(g) \in Nat /\ Total(h) \in Nat
  BY <1>4, <1>6, <1>7, <1>13, UnitsFinite
<1>18. pool * low <= pool * price /\ pool * price \in Nat
  BY <1>2, <1>3, TimesMonotone, TimesType
<1>19. Total(g) <= pool * price
  BY <1>4, <1>8, <1>9, <1>11, <1>12, <1>15, <1>17, <1>18
<1>20. Total(f) * price <= pool * price
  BY <1>2, <1>16, <1>17, <1>19
<1>21. Total(f) <= pool
  BY <1>2, <1>3, <1>17, <1>20, TimesCancel
<1> QED
  BY <1>21 DEF Payable, f, pool

(* The orders that the reserve of a side is checked for, at s: one that     *)
(* grows a position, and one whose output is swapped for the token that     *)
(* the profits of its side are paid in.                                     *)
GrowsPosition(k, s) ==
  \E o \in IncreaseOrders :
    o.size > 0 /\ IncreasePosition(k, o.collateral, o.size, s, Accrued(market, s))

SwapsOutput(k, s) ==
  \E o \in DecreaseOrders :
    /\ o.swap = "collateral"
    /\ DecreasePosition(k, "order", Smaller(o.size, positions[k].sizeInUsd),
                        Smaller(o.collateral, positions[k].collateralAmount), o.swap, s, Accrued(market, s))

(* An increase ends with the check of the reserve.                          *)
LEMMA GrowthChecked ==
  ASSUME NEW k, NEW in, NEW d, NEW s, NEW mk, IncreasePosition(k, in, d, s, mk), d > 0
  PROVE  validateReserve(market', s, k.isLong)
<1> DEFINE Last(q, z, f, g, n) ==
             /\ f.pool >= 0 /\ n.collateralAmount >= 0
             /\ d > 0 => z.tokens > 0
             /\ FinishIncrease(k, d, s, n, Entered(Settled(mk, k, q, n, n.borrowingFactor), k.collateral, f,
                                                  z.impactAmount))
             /\ funding' = Plus(funding, Of(k.collateral, g))
           Fees(q, z) == PositionFees(mk, k, q, s, d, z.positive, Setting.uiFeeFactor)
           Next1(q, z, f, g) == Increased(mk, k, q, d, z.tokens, q.collateralAmount + in - f.cost - g)
<1>0. \E q \in {Opened(mk, k)}, z \in {IncreaseAmounts(mk, k, s, d)} :
        \E f \in {Fees(q, z)}, g \in {FundingFee(mk, k, q)} :
        \E n \in {Next1(q, z, f, g)} : Last(q, z, f, g, n)
  BY Zenon DEF IncreasePosition, Entered
<1>1. \E a, b : FinishIncrease(k, d, s, a, b)
  <2> HIDE DEF Fees, Next1
  <2> QED
    BY Zenon, <1>0
<1>2. PICK a, b : FinishIncrease(k, d, s, a, b)
  BY Zenon, <1>1
<1> QED
  BY <1>2 DEF FinishIncrease

(* So does a decrease that swaps its output for the token of the profits.   *)
LEMMA SwapChecked ==
  ASSUME NEW k \in PositionKeys, NEW kind, NEW d, NEW x, NEW s, NEW mk,
         DecreasePosition(k, kind, d, x, "collateral", s, mk)
  PROVE  validateReserve(market', s, k.isLong)
<1>1. k.collateral # PnlToken(k.isLong)
  <2>1. "collateral" # "none" => k.collateral # PnlToken(k.isLong)
    BY Zenon DEF DecreasePosition
  <2> QED
    BY <2>1
<1>2. \E u, n, r, a : FinishDecrease(k, kind, "collateral", s, u, n, r, a)
  BY ZenonT(60) DEF DecreasePosition
<1>3. PICK u, n, r, a : FinishDecrease(k, kind, "collateral", s, u, n, r, a)
  BY Zenon, <1>2
<1>4. \E m : SwappedOut(a, k, s, "collateral", m, u).possible
              /\ market' = SwappedOut(a, k, s, "collateral", m, u).market
  BY Zenon, <1>3 DEF FinishDecrease
<1>5. PICK m : /\ SwappedOut(a, k, s, "collateral", m, u).possible
               /\ market' = SwappedOut(a, k, s, "collateral", m, u).market
  BY <1>4
<1> DEFINE t == IF k.collateral = LongToken THEN ShortToken ELSE LongToken
           sw == MarketSwap(a, s, k.collateral, m, u)
<1>6. sw.possible /\ market' = sw.market
  BY <1>5 DEF SwappedOut
<1>7. sw.possible => validateReserve(sw.market, s, t = LongToken)
  BY Zenon DEF MarketSwap
<1> HIDE DEF sw
<1>8. (t = LongToken) = k.isLong
  <2>1. k.collateral \in Tokens /\ k.isLong \in BOOLEAN
    BY KeyType
  <2> QED
    BY <1>1, <2>1, TokensPair DEF PnlToken
<1> QED
  BY <1>6, <1>7, <1>8

-----------------------------------------------------------------------------
(* The initial state and the theorems.                                      *)

(* The initial state satisfies the invariant.                               *)
LEMMA InitInv ==
  ASSUME Init
  PROVE  PositionsInv
<1> DEFINE none == [x \in Sides |-> 0]
           nobody(S) == [t \in Tokens |-> [o \in S |-> 0]]
           mk == [poolAmount |-> InitialPool, positionImpactPool |-> 0,
                  openInterest |-> none, openInterestInTokens |-> none, collateralSum |-> none,
                  cumulativeBorrowingFactor |-> [b \in BOOLEAN |-> 0],
                  totalBorrowing |-> [b \in BOOLEAN |-> 0],
                  fundingFeeAmountPerSize |-> none, claimableFundingAmountPerSize |-> none,
                  claimableFee |-> NoTokens, claimableUiFee |-> NoTokens, affiliateReward |-> NoTokens,
                  claimableFunding |-> nobody(Accounts), claimableCollateral |-> nobody(Owners),
                  claimedCollateral |-> nobody(Owners), claimableCollateralAmount |-> NoTokens]
<1>1. /\ positions = [k \in PositionKeys |-> NoPosition] /\ market = mk /\ balance = InitialPool
      /\ funding = NoTokens /\ unpaid = NoTokens /\ stranded = NoTokens /\ uncovered = NoTokens
      /\ actions = 0
  BY Zenon DEF Init
<1>2. /\ InitialPool \in [Tokens -> Nat] /\ NoTokens \in [Tokens -> Nat] /\ none \in [Sides -> Nat]
      /\ nobody(Accounts) \in [Tokens -> [Accounts -> Nat]] /\ nobody(Owners) \in [Tokens -> [Owners -> Nat]]
      /\ [b \in BOOLEAN |-> 0] \in [BOOLEAN -> Nat]
  BY PositionsAssumption DEF NoTokens
<1> DEFINE accounts == nobody(Accounts)
           owners == nobody(Owners)
           zeros == [b \in BOOLEAN |-> 0]
<1>3. /\ accounts \in [Tokens -> [Accounts -> Nat]] /\ owners \in [Tokens -> [Owners -> Nat]]
      /\ zeros \in [BOOLEAN -> Nat]
      /\ \A t \in Tokens, o \in Owners : owners[t][o] = 0
      /\ \A t \in Tokens : NoTokens[t] = 0
      /\ \A x \in Sides : none[x] = 0
      /\ \A b \in BOOLEAN : zeros[b] = 0
  BY <1>2 DEF NoTokens
<1>4. market = [poolAmount |-> InitialPool, positionImpactPool |-> 0,
                openInterest |-> none, openInterestInTokens |-> none, collateralSum |-> none,
                cumulativeBorrowingFactor |-> zeros, totalBorrowing |-> zeros,
                fundingFeeAmountPerSize |-> none, claimableFundingAmountPerSize |-> none,
                claimableFee |-> NoTokens, claimableUiFee |-> NoTokens, affiliateReward |-> NoTokens,
                claimableFunding |-> accounts, claimableCollateral |-> owners,
                claimedCollateral |-> owners, claimableCollateralAmount |-> NoTokens]
  BY <1>1
<1> HIDE DEF mk, none, nobody, accounts, owners, zeros
<1>5. market \in Market
  BY <1>2, <1>3, <1>4 DEF Market
<1>6. /\ market.poolAmount = InitialPool /\ market.openInterest = none
      /\ market.openInterestInTokens = none /\ market.collateralSum = none
      /\ market.cumulativeBorrowingFactor = zeros /\ market.totalBorrowing = zeros
      /\ market.fundingFeeAmountPerSize = none /\ market.claimableFundingAmountPerSize = none
      /\ market.claimableFee = NoTokens /\ market.claimableUiFee = NoTokens
      /\ market.affiliateReward = NoTokens /\ market.claimableCollateral = owners
      /\ market.claimedCollateral = owners /\ market.claimableCollateralAmount = NoTokens
  BY <1>4
<1>7. ASSUME NEW k \in PositionKeys
      PROVE  /\ NoPosition \in Position /\ Behind(NoPosition, k, market) /\ ApplyFactor(0, 0) = 0
  BY <1>5, NoPositionType
<1>8. positions \in [PositionKeys -> Position]
  BY <1>1, <1>7
<1>9. TypeOK
  BY <1>1, <1>2, <1>5, <1>8, PositionsAssumption DEF TypeOK
<1>10. \A k \in PositionKeys :
         /\ positions[k].sizeInUsd = 0 /\ positions[k].sizeInTokens = 0
         /\ positions[k].collateralAmount = 0
         /\ ApplyFactor(positions[k].sizeInUsd, positions[k].borrowingFactor) = 0
  BY <1>1, <1>7 DEF NoPosition
<1>11. PositionsBehind(positions, market)
  BY <1>1, <1>7, <1>10 DEF PositionsBehind
<1>12. BooksCover(positions, market)
  <2>1. ASSUME NEW x \in Sides
        PROVE  /\ Total(Sizes(positions, x)) = 0 /\ Total(SizesInTokens(positions, x)) = 0
               /\ Total(Collaterals(positions, x)) = 0
    <3>1. \A k \in KeysOf(x) : /\ Sizes(positions, x)[k] = 0 /\ SizesInTokens(positions, x)[k] = 0
                               /\ Collaterals(positions, x)[k] = 0
      BY <1>10, KeysFinite DEF Sizes, SizesInTokens, Collaterals
    <3>2. /\ Sizes(positions, x) \in [KeysOf(x) -> Nat] /\ SizesInTokens(positions, x) \in [KeysOf(x) -> Nat]
          /\ Collaterals(positions, x) \in [KeysOf(x) -> Nat]
      BY <1>8, SumsType
    <3> QED
      BY <3>1, <3>2, TotalZero
  <2>2. ASSUME NEW b \in BOOLEAN
        PROVE  Total(Borrowings(positions, b)) = 0
    <3>1. \A k \in KeysOn(b) : Borrowings(positions, b)[k] = 0
      BY <1>10, KeysFinite DEF Borrowings
    <3>2. Borrowings(positions, b) \in [KeysOn(b) -> Nat]
      BY <1>8, SumsType
    <3> QED
      BY <3>1, <3>2, TotalZero
  <2> QED
    BY <1>3, <1>6, <2>1, <2>2 DEF BooksCover
<1>13. ClaimsMatch(market)
  <2>1. ASSUME NEW t \in Tokens
        PROVE  /\ \A o \in Owners : market.claimedCollateral[t][o] <= market.claimableCollateral[t][o]
               /\ Total(OwnersLeft(market, t)) = market.claimableCollateralAmount[t]
    <3>1. OwnersLeft(market, t) = [o \in Owners |-> 0]
      BY <1>3, <1>6 DEF OwnersLeft
    <3>2. Total(OwnersLeft(market, t)) = 0
      <4> DEFINE f == [o \in Owners |-> 0]
      <4>1. f \in [Owners -> Nat] /\ \A o \in Owners : f[o] = 0
        OBVIOUS
      <4> HIDE DEF f
      <4>2. Total(f) = 0
        BY <4>1, TotalZero
      <4> QED
        BY <3>1, <4>2 DEF f
    <3> QED
      BY <1>3, <1>6, <3>2
  <2> QED
    BY <2>1 DEF ClaimsMatch
<1>14. TokensAccounted
  <2>1. ASSUME NEW t \in Tokens
        PROVE  balance[t] + uncovered[t] =
                 market.poolAmount[t] + market.collateralSum[<<t, TRUE>>] + market.collateralSum[<<t, FALSE>>]
                 + market.claimableFee[t] + market.claimableUiFee[t] + market.affiliateReward[t]
                 + market.claimableCollateralAmount[t] + funding[t] + stranded[t]
    <3>1. <<t, TRUE>> \in Sides /\ <<t, FALSE>> \in Sides
      BY DEF Sides
    <3>2. InitialPool[t] \in Nat
      BY <1>2
    <3> QED
      BY <1>1, <1>3, <1>6, <3>1, <3>2
  <2> QED
    BY <2>1 DEF TokensAccounted
<1> QED
  BY <1>9, <1>11, <1>12, <1>13, <1>14 DEF PositionsInv

(* Nothing is due at first.                                                 *)
LEMMA InitFits ==
  ASSUME Init, PositionsInv
  PROVE  FundingFits(positions, market, funding, unpaid)
<1> SUFFICES ASSUME NEW t \in Tokens
             PROVE  PerSize * Total(market.claimableFunding[t]) + Total(Gets(positions, market, t))
                      <= PerSize * (funding[t] + unpaid[t]) + Total(Owes(positions, market, t))
  BY DEF FundingFits
<1> DEFINE claims == market.claimableFunding[t]
           gs == Gets(positions, market, t)
           os == Owes(positions, market, t)
           S == KeysIn(t)
           nobody(A) == [u \in Tokens |-> [o \in A |-> 0]]
<1>1. /\ positions \in [PositionKeys -> Position] /\ market \in Market /\ PositionsBehind(positions, market)
  BY InvUse DEF Sound
<1>2. /\ positions = [k \in PositionKeys |-> NoPosition] /\ funding = NoTokens /\ unpaid = NoTokens
      /\ market.claimableFunding = nobody(Accounts)
  BY DEF Init
<1>3. claims \in [Accounts -> Nat] /\ \A a \in Accounts : claims[a] = 0
  BY <1>2
<1>4. funding[t] = 0 /\ unpaid[t] = 0
  BY <1>2 DEF NoTokens
<1>5. gs \in [PositionKeys -> Nat] /\ os \in [S -> Nat] /\ IsFiniteSet(S)
  BY <1>1, FundingSumsType, KeysInFinite
<1>6. \A k \in PositionKeys : gs[k] = 0
  <2> SUFFICES ASSUME NEW k \in PositionKeys PROVE gs[k] = 0
    OBVIOUS
  <2> DEFINE a == market.claimableFundingAmountPerSize[<<t, k.isLong>>]
             b == positions[k].claimableFundingAmountPerSize[t]
  <2>1. positions[k].sizeInUsd = 0
    BY <1>2 DEF NoPosition
  <2>2. gs[k] = positions[k].sizeInUsd * (a - b)
    BY DEF Gets
  <2>3. a \in Nat /\ b \in Nat
    BY <1>1, KeyType, AggregatesType, PositionType
  <2> HIDE DEF a, b, gs
  <2> QED
    BY <2>1, <2>2, <2>3
<1> HIDE DEF claims, gs, os, S
<1>7. Total(claims) = 0 /\ Total(gs) = 0
  BY <1>3, <1>5, <1>6, TotalZero
<1>8. Total(os) \in Nat
  BY <1>5, UnitsFinite
<1>9. PerSize * Total(claims) = 0 /\ PerSize * (funding[t] + unpaid[t]) = 0
  BY <1>4, <1>7, SettingType
<1> QED
  BY <1>7, <1>8, <1>9 DEF claims, gs, os

(* The open interest in usd is a sum over the positions when all the sums   *)
(* match.                                                                   *)
LEMMA MatchExact ==
  ASSUME SumsMatch
  PROVE  InterestExact(positions, market)
<1> SUFFICES ASSUME NEW x \in Sides PROVE Total(Sizes(positions, x)) = market.openInterest[x]
  BY DEF InterestExact
<1> DEFINE In(y) == {k \in PositionKeys : Side(k) = y}
<1>1. \A y \in Sides : market.openInterest[y] = Total([k \in In(y) |-> positions[k].sizeInUsd])
  BY DEF SumsMatch
<1>2. Sizes(positions, x) = [k \in In(x) |-> positions[k].sizeInUsd]
  BY DEF Sizes, KeysOf
<1> QED
  BY <1>1, <1>2

(* At first both sides are exact: there are no positions.                   *)
LEMMA InitExact ==
  ASSUME Init, NEW b \in BOOLEAN
  PROVE  ExactOn(positions, market, b)
<1>1. positions = [k \in PositionKeys |-> NoPosition]
  BY DEF Init
<1>2. /\ market.openInterest = [x \in Sides |-> 0]
      /\ market.totalBorrowing = [a \in BOOLEAN |-> 0]
  BY DEF Init
<1>3. positions \in [PositionKeys -> Position] /\ BooksCover(positions, market)
  BY InitInv, InvUse DEF Sound
<1>4. ASSUME NEW t \in Tokens
      PROVE  Total(Sizes(positions, <<t, b>>)) = market.openInterest[<<t, b>>]
  <2> DEFINE f == Sizes(positions, <<t, b>>)
  <2>1. <<t, b>> \in Sides
    BY DEF Sides
  <2>2. f \in [KeysOf(<<t, b>>) -> Nat] /\ IsFiniteSet(KeysOf(<<t, b>>))
    BY <1>3, <2>1, SumsType, KeysFinite
  <2>3. Total(f) <= market.openInterest[<<t, b>>] /\ market.openInterest[<<t, b>>] = 0
    BY <1>2, <1>3, <2>1 DEF BooksCover
  <2> HIDE DEF f
  <2>4. Total(f) \in Nat
    BY <2>2, UnitsFinite
  <2> QED
    BY <2>3, <2>4 DEF f
<1>5. Total(Borrowings(positions, b)) = market.totalBorrowing[b]
  <2> DEFINE f == Borrowings(positions, b)
  <2>1. f \in [KeysOn(b) -> Nat] /\ IsFiniteSet(KeysOn(b))
    BY <1>3, SumsType, KeysFinite
  <2>2. Total(f) <= market.totalBorrowing[b] /\ market.totalBorrowing[b] = 0
    BY <1>2, <1>3 DEF BooksCover
  <2> HIDE DEF f
  <2>3. Total(f) \in Nat
    BY <2>1, UnitsFinite
  <2> QED
    BY <2>2, <2>3 DEF f
<1> QED
  BY <1>4, <1>5 DEF ExactOn

(* Books that cover, and are exact on both sides, match.                    *)
LEMMA ExactMatch ==
  ASSUME PositionsInv, ExactOn(positions, market, TRUE), ExactOn(positions, market, FALSE)
  PROVE  SumsMatch
<1> DEFINE In(x) == {k \in PositionKeys : Side(k) = x}
           On(b) == {k \in PositionKeys : k.isLong = b}
<1>1. BooksCover(positions, market)
  BY DEF PositionsInv
<1>2. ASSUME NEW x \in Sides
      PROVE  /\ market.openInterest[x] = Total([k \in In(x) |-> positions[k].sizeInUsd])
             /\ market.openInterestInTokens[x] = Total([k \in In(x) |-> positions[k].sizeInTokens])
             /\ market.collateralSum[x] = Total([k \in In(x) |-> positions[k].collateralAmount])
  <2>1. PICK t \in Tokens, b \in BOOLEAN : x = <<t, b>>
    BY DEF Sides
  <2>2. b = TRUE \/ b = FALSE
    OBVIOUS
  <2>3. Total(Sizes(positions, x)) = market.openInterest[x]
    BY <2>1, <2>2 DEF ExactOn
  <2>4. /\ Total(SizesInTokens(positions, x)) = market.openInterestInTokens[x]
        /\ Total(Collaterals(positions, x)) = market.collateralSum[x]
    BY <1>1 DEF BooksCover
  <2>5. /\ Sizes(positions, x) = [k \in In(x) |-> positions[k].sizeInUsd]
        /\ SizesInTokens(positions, x) = [k \in In(x) |-> positions[k].sizeInTokens]
        /\ Collaterals(positions, x) = [k \in In(x) |-> positions[k].collateralAmount]
    BY DEF Sizes, SizesInTokens, Collaterals, KeysOf
  <2> QED
    BY <2>3, <2>4, <2>5
<1>3. ASSUME NEW b \in BOOLEAN
      PROVE  market.totalBorrowing[b] =
               Total([k \in On(b) |-> ApplyFactor(positions[k].sizeInUsd, positions[k].borrowingFactor)])
  <2>1. b = TRUE \/ b = FALSE
    OBVIOUS
  <2>2. Total(Borrowings(positions, b)) = market.totalBorrowing[b]
    BY <2>1 DEF ExactOn
  <2>3. Borrowings(positions, b) =
          [k \in On(b) |-> ApplyFactor(positions[k].sizeInUsd, positions[k].borrowingFactor)]
    BY DEF Borrowings, KeysOn
  <2> QED
    BY <2>2, <2>3
<1> QED
  BY <1>2, <1>3 DEF SumsMatch

(* What is backed before it is rounded is covered.                          *)
LEMMA FitsCovered ==
  ASSUME PositionsInv, FundingFits(positions, market, funding, unpaid)
  PROVE  FundingCovered
<1>1. /\ positions \in [PositionKeys -> Position] /\ market \in Market /\ PositionsBehind(positions, market)
      /\ funding \in [Tokens -> Int] /\ unpaid \in [Tokens -> Int]
  BY InvUse DEF Sound
<1>2. ASSUME NEW t \in Tokens
      PROVE  Total(market.claimableFunding[t])
               + Total([k \in PositionKeys |-> ClaimableFunding(market, k, positions[k], t)])
               <= funding[t] + Total([k \in {k \in PositionKeys : k.collateral = t} |->
                                        FundingFee(market, k, positions[k])]) + unpaid[t]
  BY <1>1, FitsCovers
<1> QED
  BY <1>2 DEF FundingCovered

(* After every sequence of increases, decreases, liquidations, auto-        *)
(* deleveraging and claims the market's books fit its positions: the        *)
(* invariant is inductive.                                                  *)
THEOREM PositionsInvariant == Spec => []PositionsInv
<1>1. Init => PositionsInv
  BY InitInv
<1>2. PositionsInv /\ [Next]_vars => PositionsInv'
  BY StepKeepsInv
<1> QED
  BY <1>1, <1>2, PTL DEF Spec

(* Every book, position and history stays a natural number (a history of    *)
(* funding an integer): no aggregate is ever decreased below zero, whatever *)
(* the orders, prices and settings are.                                     *)
THEOREM PositionsType == Spec => []TypeOK
<1>1. PositionsInv => TypeOK
  BY DEF PositionsInv
<1> QED
  BY <1>1, PositionsInvariant, PTL

(* Every token the market's bank holds is in exactly one of its books: the  *)
(* pool, the collateral of a position, a fee to be claimed or collateral    *)
(* set aside; funding paid in and not yet out, amounts that were rounded    *)
(* away and amounts the pool could not cover are the only differences, and  *)
(* are known exactly.                                                       *)
THEOREM PositionsTokensAccounted == Spec => []TokensAccounted
<1>1. PositionsInv => TokensAccounted
  BY DEF PositionsInv
<1> QED
  BY <1>1, PositionsInvariant, PTL

(* The open interest in tokens and the collateral of a side are the sums    *)
(* over its positions, its open interest in usd and its total borrowing are *)
(* no less than theirs, and the collateral set aside is exactly what its    *)
(* owners have not claimed.                                                 *)
THEOREM PositionsCovered == Spec => [](BooksCover(positions, market) /\ ClaimsMatch(market))
<1>1. PositionsInv => BooksCover(positions, market) /\ ClaimsMatch(market)
  BY DEF PositionsInv
<1> QED
  BY <1>1, PositionsInvariant, PTL

(* Of shorts every aggregate is exactly the sum over the positions,         *)
(* whatever is asked for and however it is rounded.                         *)
(* (DecreasePositionUtils.sol:262 removes a position without a size in      *)
(* tokens and takes only what the order asked for from the open interest.   *)
(* The tokens that are closed are rounded up for a long, down for a short:  *)
(* usd can be left of a long that has no token any more.)                   *)
THEOREM PositionsShortsExact == Spec => []ExactOn(positions, market, FALSE)
<1> DEFINE Exact == ExactOn(positions, market, FALSE)
<1>1. Init => PositionsInv /\ Exact
  BY InitInv, InitExact
<1>2. PositionsInv /\ Exact /\ [Next]_vars => PositionsInv' /\ Exact'
  BY StepKeepsInv DEF ExactHeld, ExactKept
<1> HIDE DEF Exact
<1>3. Spec => []Exact
  BY <1>1, <1>2, PTL DEF Spec
<1> QED
  BY <1>3 DEF Exact

(* So are those of longs if no long's size comes to more than               *)
(* minPositionSizeUsd for each unit of its index token: what is left of it  *)
(* in usd after a decrease then has a token left. The deployed markets are  *)
(* far from this bound.                                                     *)
THEOREM PositionsSumsMatch == Spec /\ []UnitsFine => []SumsMatch
<1> DEFINE Longs == ExactOn(positions, market, TRUE)
           Shorts == ExactOn(positions, market, FALSE)
<1>1. Init => PositionsInv /\ Longs /\ Shorts
  BY InitInv, InitExact
<1>2. PositionsInv /\ Longs /\ Shorts /\ UnitsFine /\ [Next]_vars => PositionsInv' /\ Longs' /\ Shorts'
  BY StepKeepsInv DEF ExactHeld, ExactKept
<1>3. PositionsInv /\ Longs /\ Shorts => SumsMatch
  BY ExactMatch
<1> HIDE DEF Longs, Shorts
<1> QED
  BY <1>1, <1>2, <1>3, PTL DEF Spec

(* As long as the aggregates are the sums over the positions, what all      *)
(* accounts can claim of funding, now and after settling their positions,   *)
(* is never more than what payers have paid, still owe or left unpaid:      *)
(* claimFundingFees never takes tokens of the pool or of other traders'     *)
(* collateral, for every price, rate, setting and order. It is proved of    *)
(* the amounts before they are divided (FundingFits), because floors do not *)
(* add up; SumsMatch is needed because a unit of size owes what its side's  *)
(* open interest divides.                                                   *)
THEOREM PositionsFundingCovered == Spec /\ []SumsMatch => []FundingCovered
<1> DEFINE Fits == FundingFits(positions, market, funding, unpaid)
<1>1. Init => PositionsInv /\ Fits
  BY InitInv, InitFits
<1>2. PositionsInv /\ Fits /\ SumsMatch /\ [Next]_vars => PositionsInv' /\ Fits'
  BY StepKeepsInv, MatchExact DEF FundingHeld
<1>3. PositionsInv /\ Fits => FundingCovered
  BY FitsCovered
<1> HIDE DEF Fits
<1> QED
  BY <1>1, <1>2, <1>3, PTL DEF Spec

(* The same under the condition on single positions that makes the sums     *)
(* match.                                                                   *)
THEOREM PositionsFundingPaid == Spec /\ []UnitsFine => []FundingCovered
BY PositionsSumsMatch, PositionsFundingCovered, PTL

(* Both sides have their reserve in the pool, at all the prices there are.  *)
ReservesHold == \A b \in BOOLEAN, s \in Situations : validateReserve(market, s, b)

(* What the reserve is for: if a side passes the check of                   *)
(* MarketUtils.validateReserve at some prices, then the profits of all its  *)
(* positions at these prices are in the pool, to the last of them; and if   *)
(* both sides pass it at all prices, ProfitsReserved holds. It needs a      *)
(* reserve factor of at most 1, which Config.sol does not enforce and the   *)
(* deployments keep.                                                        *)
THEOREM PositionsReservesPay ==
  ASSUME Setting.reserveFactor <= FloatPrecision
  PROVE  Spec => [](/\ \A b \in BOOLEAN, s \in Situations :
                          validateReserve(market, s, b) => Payable(positions, market, s, b)
                    /\ ReservesHold => ProfitsReserved)
<1> DEFINE Paid == \A b \in BOOLEAN, s \in Situations :
                     validateReserve(market, s, b) => Payable(positions, market, s, b)
<1>1. PositionsInv => Paid
  <2> SUFFICES ASSUME PositionsInv, NEW b \in BOOLEAN, NEW s \in Situations, validateReserve(market, s, b)
               PROVE  Payable(positions, market, s, b)
    OBVIOUS
  <2>1. positions \in [PositionKeys -> Position] /\ market \in Market /\ BooksCover(positions, market)
    BY InvUse DEF Sound
  <2> QED
    BY <2>1, ReservePays
<1>2. Paid /\ ReservesHold => ProfitsReserved
  <2> SUFFICES ASSUME Paid, ReservesHold, NEW b \in BOOLEAN, NEW s \in Situations
               PROVE  LET t == PnlToken(b)
                          Profit(k) == PositivePart(UncappedPnl(k, positions[k], s)) \div s.token[t].max
                      IN  Total([k \in {k \in PositionKeys : k.isLong = b} |-> Profit(k)])
                            <= market.poolAmount[t]
    BY DEF ProfitsReserved
  <2>1. Payable(positions, market, s, b)
    BY DEF ReservesHold
  <2> QED
    BY <2>1 DEF Payable, Profits, KeysOn
<1> DEFINE Reserved == /\ Paid
                       /\ ReservesHold => ProfitsReserved
<1>3. PositionsInv => Reserved
  BY <1>1, <1>2
<1> HIDE DEF Reserved
<1>4. Spec => []Reserved
  BY <1>3, PositionsInvariant, PTL
<1> QED
  BY <1>4 DEF Reserved, Paid

(* An order that grows a position, or swaps the output of a decrease for    *)
(* the token that the profits of its side are paid in, leaves the pool able *)
(* to pay the profits of that side's positions at the prices of the order.  *)
THEOREM PositionsOrdersReserved ==
  ASSUME Setting.reserveFactor <= FloatPrecision
  PROVE  Spec => [][\A k \in PositionKeys, s \in Situations :
                      GrowsPosition(k, s) \/ SwapsOutput(k, s) => Payable(positions', market', s, k.isLong)]_vars
<1> DEFINE Act == \A k \in PositionKeys, s \in Situations :
                    GrowsPosition(k, s) \/ SwapsOutput(k, s) => Payable(positions', market', s, k.isLong)
<1>1. PositionsInv /\ [Next]_vars => Act
  <2> SUFFICES ASSUME PositionsInv, [Next]_vars, NEW k \in PositionKeys, NEW s \in Situations,
                      GrowsPosition(k, s) \/ SwapsOutput(k, s)
               PROVE  Payable(positions', market', s, k.isLong)
    BY Zenon
  <2>1. validateReserve(market', s, k.isLong)
    <3>1. CASE GrowsPosition(k, s)
      <4>1. PICK o \in IncreaseOrders :
              o.size > 0 /\ IncreasePosition(k, o.collateral, o.size, s, Accrued(market, s))
        BY Zenon, <3>1 DEF GrowsPosition
      <4> QED
        BY <4>1, GrowthChecked
    <3>2. CASE SwapsOutput(k, s)
      <4>1. PICK o \in DecreaseOrders :
              /\ o.swap = "collateral"
              /\ DecreasePosition(k, "order", Smaller(o.size, positions[k].sizeInUsd),
                                  Smaller(o.collateral, positions[k].collateralAmount), o.swap, s,
                                  Accrued(market, s))
        BY Zenon, <3>2 DEF SwapsOutput
      <4> QED
        BY <4>1, SwapChecked
    <3> QED
      BY <3>1, <3>2
  <2>2. PositionsInv'
    BY StepKeepsInv
  <2>3. /\ positions' \in [PositionKeys -> Position] /\ market' \in Market
        /\ BooksCover(positions', market')
    BY <2>2 DEF PositionsInv, TypeOK
  <2>4. k.isLong \in BOOLEAN
    BY KeyType
  <2> DEFINE mk == market'
             pos == positions'
  <2>5. pos \in [PositionKeys -> Position] /\ mk \in Market /\ BooksCover(pos, mk)
        /\ validateReserve(mk, s, k.isLong)
    BY <2>1, <2>3
  <2> HIDE DEF mk, pos
  <2>6. Payable(pos, mk, s, k.isLong)
    BY <2>4, <2>5, ReservePays
  <2> QED
    BY <2>6 DEF mk, pos
<1>2. Spec => [][PositionsInv /\ Next]_vars
  BY PositionsInvariant, PTL DEF Spec
<1>3. [PositionsInv /\ Next]_vars => [Act]_vars
  BY <1>1
<1> HIDE DEF Act
<1>4. Spec => [][Act]_vars
  BY <1>2, <1>3, PTL
<1> QED
  BY <1>4 DEF Act
=============================================================================
