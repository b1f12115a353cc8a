------------------------- MODULE MarketLedger_proofs -------------------------
(* The books of the markets: that they are well typed, that they account    *)
(* for every token in every market at every step of every execution, that   *)
(* the ui fees of a market are those its receivers may claim, and that no   *)
(* step makes a market token worth less.                                    *)
EXTENDS MarketLedger, Ledger_proofs, SequenceTheorems

-----------------------------------------------------------------------------
(* Arithmetic: divisions by what is positive, and what they bound.          *)
LEMMA DivType ==
  ASSUME NEW a \in Nat, NEW b \in Nat, b > 0
  PROVE  a \div b \in Nat
OBVIOUS

LEMMA TimesType ==
  ASSUME NEW a \in Nat, NEW b \in Nat
  PROVE  a * b \in Nat /\ (a > 0 /\ b > 0 => a * b > 0)
OBVIOUS

LEMMA MulDivType ==
  ASSUME NEW a \in Nat, NEW b \in Nat, NEW c \in Nat, c > 0
  PROVE  MulDiv(a, b, c) \in Nat
BY DivType, TimesType DEF MulDiv

LEMMA DivAtMost ==
  ASSUME NEW a \in Nat, NEW b \in Nat, b > 0
  PROVE  (a \div b) * b <= a
OBVIOUS

(* A product grows with either factor.                                      *)
LEMMA TimesGrows ==
  ASSUME NEW a \in Nat, NEW b \in Nat, NEW x \in Nat, NEW y \in Nat, x <= y
  PROVE  a * x <= (a + b) * y
<1>1. a * x <= a * y
  OBVIOUS
<1>2. (a + b) * y = a * y + b * y /\ b * y \in Nat /\ a * y \in Nat
  OBVIOUS
<1> QED
  BY <1>1, <1>2

(* A sum times a factor, and a difference.                                  *)
LEMMA TimesSum ==
  ASSUME NEW a \in Int, NEW b \in Int, NEW c \in Int
  PROVE  (a + b) * c = a * c + b * c /\ (a - b) * c = a * c - b * c /\ a * c \in Int /\ a * c = c * a
OBVIOUS

LEMMA TimesUp ==
  ASSUME NEW a \in Int, NEW b \in Int, NEW c \in Nat, a <= b
  PROVE  a * c <= b * c
OBVIOUS

LEMMA CancelTimes ==
  ASSUME NEW a \in Nat, NEW b \in Nat, NEW c \in Nat, c > 0, a * c <= b * c
  PROVE  a <= b
<1>1. ~(b + 1 <= a)
  <2> SUFFICES ASSUME b + 1 <= a PROVE FALSE
    OBVIOUS
  <2>1. (b + 1) * c <= a * c
    BY TimesUp
  <2>2. (b + 1) * c = b * c + c /\ b * c \in Int /\ a * c \in Int
    BY TimesSum
  <2> QED
    BY <2>1, <2>2
<1> QED
  BY <1>1

(* A pool worth v loses nothing when what leaves it is worth no more than   *)
(* what enters.                                                             *)
LEMMA ExchangeWorth ==
  ASSUME NEW a \in Nat, NEW c \in Nat, NEW in \in Nat, NEW out \in Nat, NEW p \in Nat, NEW q \in Nat,
         out * q <= in * p
  PROVE  (a + in) * p + (c - out) * q >= a * p + c * q
<1>1. (a + in) * p = a * p + in * p /\ a * p \in Int /\ in * p \in Int
  BY TimesSum
<1>2. (c - out) * q = c * q - out * q /\ c * q \in Int /\ out * q \in Int
  BY TimesSum
<1> QED
  BY <1>1, <1>2

(* Shares that are minted for u and v, rounded down, take nothing from the  *)
(* others: v2 is what the pool is worth then.                               *)
LEMMA MintWorth ==
  ASSUME NEW v \in Nat, NEW s \in Nat, NEW u \in Nat, NEW w \in Nat, NEW g \in Nat, NEW n \in Nat,
         NEW v2 \in Nat, g * v <= s * u, n * v <= s * w, v + u + w <= v2
  PROVE  v2 * s >= v * (s + g + n)
<1>1. (v + u + w) * s <= v2 * s
  BY TimesUp
<1>2. (v + u + w) * s = v * s + u * s + w * s
  <2>1. (v + u + w) * s = (v + u) * s + w * s /\ (v + u) * s = v * s + u * s
    BY TimesSum
  <2> QED
    BY <2>1
<1>3. (s + g + n) * v = s * v + g * v + n * v
  <2>1. (s + g + n) * v = (s + g) * v + n * v /\ (s + g) * v = s * v + g * v
    BY TimesSum
  <2> QED
    BY <2>1
<1>4. /\ v * s \in Int /\ u * s \in Int /\ w * s \in Int /\ g * v \in Int /\ n * v \in Int
      /\ s * v = v * s /\ u * s = s * u /\ w * s = s * w /\ v2 * s \in Int
  BY TimesSum
<1>5. v * (s + g + n) = (s + g + n) * v
  BY TimesSum
<1> QED
  BY <1>1, <1>2, <1>3, <1>4, <1>5

(* Two shares of usd, in proportion to the parts of a pool and rounded      *)
(* down, are no more than usd.                                              *)
LEMMA SharesAtMost ==
  ASSUME NEW usd \in Nat, NEW a \in Nat, NEW c \in Nat, NEW v \in Nat, v = a + c, v > 0,
         NEW x \in Nat, NEW y \in Nat, x = MulDiv(usd, a, v), y = MulDiv(usd, c, v)
  PROVE  x + y <= usd
<1>1. usd * a \in Nat /\ usd * c \in Nat
  BY TimesType
<1>2. x * v <= usd * a /\ y * v <= usd * c
  BY <1>1, DivAtMost DEF MulDiv
<1>3. (x + y) * v = x * v + y * v /\ x * v \in Int /\ y * v \in Int
  BY TimesSum
<1>4. (a + c) * usd = a * usd + c * usd /\ a * usd = usd * a /\ c * usd = usd * c
  BY TimesSum
<1>5. v * usd = usd * v
  BY TimesSum
<1>6. (x + y) * v <= usd * v
  BY <1>1, <1>2, <1>3, <1>4, <1>5
<1> QED
  BY <1>6, CancelTimes

(* w of s shares are burnt for at most their part of the pool.              *)
LEMMA BurnWorth ==
  ASSUME NEW v \in Nat, NEW low \in Nat, low <= v, NEW s \in Nat, s > 0, NEW w \in Nat,
         NEW usd \in Nat, usd = MulDiv(low, w, s), NEW x \in Nat, x <= usd
  PROVE  (v - x) * s >= v * (s - w)
<1>1. low * w \in Nat
  BY TimesType
<1>2. usd * s <= low * w
  BY <1>1, DivAtMost DEF MulDiv
<1>3. low * w <= v * w /\ x * s <= usd * s
  BY TimesUp
<1>4. (v - x) * s = v * s - x * s /\ v * s \in Int /\ x * s \in Int /\ usd * s \in Int
  BY TimesSum
<1>5. (s - w) * v = s * v - w * v /\ s * v = v * s /\ w * v = v * w /\ v * w \in Int
  BY TimesSum
<1>6. v * (s - w) = (s - w) * v
  BY TimesSum
<1> QED
  BY <1>1, <1>2, <1>3, <1>4, <1>5, <1>6

(* What fees take from an amount and what they leave is the amount.         *)
LEMMA FeesSplit ==
  ASSUME NEW amount \in Nat, NEW positive \in BOOLEAN, NEW r \in UiFeeReceivers,
         NEW fees, fees = SwapFees(amount, positive, r), Payable(fees)
  PROVE  /\ fees.receiver \in Nat /\ fees.pool \in Nat /\ fees.ui \in Nat /\ fees.after \in Nat
         /\ fees.receiver + fees.pool + fees.ui + fees.after = amount
<1> DEFINE fee == ApplyFactor(amount, SwapFeeFactor[positive])
           receiver == ApplyFactor(fee, SwapFeeReceiverFactor)
           ui == ApplyFactor(amount, UiFeeFactor[r])
<1>1. FloatPrecision \in Nat /\ FloatPrecision > 0
  BY PrecisionAssumption
<1>2. SwapFeeFactor[positive] \in Nat /\ SwapFeeReceiverFactor \in Nat /\ UiFeeFactor[r] \in Nat
  BY MarketsAssumption
<1>3. fee \in Nat
  BY <1>1, <1>2, MulDivType DEF ApplyFactor
<1>4. receiver \in Nat
  <2> HIDE DEF fee
  <2> QED
    BY <1>1, <1>2, <1>3, MulDivType DEF ApplyFactor
<1>5. ui \in Nat
  BY <1>1, <1>2, MulDivType DEF ApplyFactor
<1>6. fees = [receiver |-> receiver, pool |-> fee - receiver, ui |-> ui, after |-> amount - fee - ui]
  BY Zenon DEF SwapFees
<1> HIDE DEF fee, receiver, ui
<1> QED
  BY <1>3, <1>4, <1>5, <1>6 DEF Payable

LEMMA ImpactTypes ==
  ASSUME NEW m \in Markets, NEW t \in Tokens, swapImpactPool \in Amount,
         NEW price \in [min : Nat, max : Nat], 0 < price.min, price.min <= price.max,
         NEW usd \in Int
  PROVE  /\ usd >= 0 => /\ PositiveImpact(m, t, usd, price) \in Nat
                       /\ PositiveImpact(m, t, usd, price) <= swapImpactPool[m][t]
         /\ usd <= 0 => NegativeImpact(usd, price) \in Nat
<1>1. ASSUME usd >= 0 PROVE usd \div price.max \in Nat
  BY <1>1, DivType
<1>2. ASSUME usd <= 0 PROVE NegativeImpact(usd, price) \in Nat
  <2>1. -usd + price.min - 1 \in Nat
    BY <1>2
  <2> QED
    BY <2>1, DivType DEF NegativeImpact, RoundUpDivision
<1>3. swapImpactPool[m][t] \in Nat
  BY DEF Amount
<1> QED
  BY <1>1, <1>2, <1>3 DEF PositiveImpact, Smaller

LEMMA PricesType ==
  ASSUME NEW p \in PriceSets, NEW t \in Tokens
  PROVE  p[t] \in [min : Nat, max : Nat] /\ 0 < p[t].min /\ p[t].min <= p[t].max
BY MarketsAssumption

LEMMA SideTokens ==
  ASSUME NEW m \in Markets
  PROVE  /\ LongToken[m] \in Tokens /\ ShortToken[m] \in Tokens
         /\ \A side \in Sides : SideToken(m, side) \in Tokens
         /\ \A t \in Tokens : getOppositeToken(t, m) \in Tokens
BY MarketsAssumption DEF SideToken, getOppositeToken

LEMMA PoolAmountType ==
  ASSUME NEW pool \in Amount, NEW m \in Markets, NEW t \in Tokens
  PROVE  getPoolAmount(pool, m, t) \in Nat
<1>1. pool[m][t] \in Nat
  BY DEF Amount
<1> QED
  BY <1>1, DivType DEF getPoolAmount

(* A pool is worth something at the upper prices if it is at the lower.     *)
LEMMA PoolValueType ==
  ASSUME NEW pool \in Amount, NEW m \in Markets, NEW p \in PriceSets
  PROVE  /\ PoolValue(pool, m, p, "min") \in Nat
         /\ PoolValue(pool, m, p, "max") \in Nat
         /\ PoolValue(pool, m, p, "min") > 0 => PoolValue(pool, m, p, "max") > 0
<1> DEFINE long == getPoolAmount(pool, m, LongToken[m])
           short == getPoolAmount(pool, m, ShortToken[m])
           pl == p[LongToken[m]]
           ps == p[ShortToken[m]]
<1>1. long \in Nat /\ short \in Nat
  BY PoolAmountType, SideTokens
<1>2. pl.min \in Nat /\ pl.max \in Nat /\ ps.min \in Nat /\ ps.max \in Nat /\ pl.max > 0 /\ ps.max > 0
  BY PricesType, SideTokens
<1>3. /\ PoolValue(pool, m, p, "min") = long * pl.min + short * ps.min
      /\ PoolValue(pool, m, p, "max") = long * pl.max + short * ps.max
  BY DEF PoolValue
<1> HIDE DEF long, short, pl, ps
<1>4. /\ long * pl.min \in Nat /\ short * ps.min \in Nat
      /\ long * pl.max \in Nat /\ short * ps.max \in Nat
      /\ long > 0 => long * pl.max > 0
      /\ short > 0 => short * ps.max > 0
  BY <1>1, <1>2, TimesType
<1>5. (long = 0 => long * pl.min = 0) /\ (short = 0 => short * ps.min = 0)
  BY <1>1, <1>2
<1> QED
  BY <1>1, <1>3, <1>4, <1>5

(* The pool of a market of two tokens, at the bounds of the prices.         *)
LEMMA PoolValueIs ==
  ASSUME NEW pool \in Amount, NEW m \in Markets, NEW p \in PriceSets, LongToken[m] # ShortToken[m]
  PROVE  /\ PoolValue(pool, m, p, "max") = pool[m][LongToken[m]] * p[LongToken[m]].max
                                             + pool[m][ShortToken[m]] * p[ShortToken[m]].max
         /\ getPoolAmount(pool, m, LongToken[m]) = pool[m][LongToken[m]]
         /\ getPoolAmount(pool, m, ShortToken[m]) = pool[m][ShortToken[m]]
         /\ PoolValue(pool, m, p, "min") <= PoolValue(pool, m, p, "max")
<1> DEFINE l == LongToken[m]
           s == ShortToken[m]
           a == pool[m][l]
           c == pool[m][s]
<1>1. l \in Tokens /\ s \in Tokens
  BY SideTokens
<1>2. a \in Nat /\ c \in Nat
  BY <1>1 DEF Amount
<1>3. /\ p[l].min \in Nat /\ p[l].max \in Nat /\ p[s].min \in Nat /\ p[s].max \in Nat
      /\ p[l].min <= p[l].max /\ p[s].min <= p[s].max
  BY <1>1, PricesType
<1>4. \A n \in Nat : n \div 1 = n
  OBVIOUS
<1>5. getPoolAmount(pool, m, l) = a /\ getPoolAmount(pool, m, s) = c
  BY <1>2, <1>4 DEF getPoolAmount
<1>6. /\ PoolValue(pool, m, p, "max") = a * p[l].max + c * p[s].max
      /\ PoolValue(pool, m, p, "min") = a * p[l].min + c * p[s].min
  BY <1>5 DEF PoolValue
<1> HIDE DEF a, c, l, s
<1>7. a * p[l].min <= a * p[l].max /\ c * p[s].min <= c * p[s].max
  BY <1>2, <1>3
<1>8. a * p[l].min \in Nat /\ a * p[l].max \in Nat /\ c * p[s].min \in Nat /\ c * p[s].max \in Nat
  BY <1>2, <1>3, TimesType
<1>9. PoolValue(pool, m, p, "min") <= PoolValue(pool, m, p, "max")
  BY <1>6, <1>7, <1>8
<1> QED
  BY <1>5, <1>6, <1>9 DEF a, c, l, s

LEMMA MarketTokensType ==
  ASSUME NEW usd \in Nat, NEW value \in Nat, NEW s \in Nat, value = 0 => s = 0
  PROVE  usdToMarketTokenAmount(usd, value, s) \in Nat
<1>1. FloatToWei \in Nat /\ FloatToWei > 0
  BY PrecisionAssumption
<1>2. floatToWei(value + usd) \in Nat
  BY <1>1, DivType DEF floatToWei
<1>3. CASE s = 0
  BY <1>2, <1>3 DEF usdToMarketTokenAmount
<1>4. CASE s # 0
  BY <1>4, MulDivType DEF usdToMarketTokenAmount
<1> QED
  BY <1>3, <1>4

LEMMA OutputType ==
  ASSUME poolAmount \in Amount, supply \in [Markets -> Nat],
         NEW m \in Markets, NEW side \in Sides, NEW w \in 1..supply[m], NEW p \in PriceSets,
         PoolValue(poolAmount, m, p, "min") > 0
  PROVE  OutputAmount(m, side, w, p) \in Nat
<1> DEFINE min == PoolValue(poolAmount, m, p, "min")
           max == PoolValue(poolAmount, m, p, "max")
           usd == MulDiv(min, w, supply[m])
           t == SideToken(m, side)
           price == p[t].max
           inUsd == getPoolAmount(poolAmount, m, t) * price
<1>1. min \in Nat /\ max \in Nat /\ max > 0
  BY PoolValueType
<1>2. t \in Tokens /\ price \in Nat /\ price > 0
  BY SideTokens, PricesType
<1>3. w \in Nat /\ supply[m] \in Nat /\ supply[m] > 0
  OBVIOUS
<1>4. OutputAmount(m, side, w, p) = MulDiv(usd, inUsd, max) \div price
  BY Zenon DEF OutputAmount
<1> HIDE DEF min, max, t, price
<1>5. usd \in Nat
  BY <1>1, <1>3, MulDivType
<1>6. inUsd \in Nat
  BY <1>2, PoolAmountType, TimesType
<1> HIDE DEF usd, inUsd
<1>7. MulDiv(usd, inUsd, max) \in Nat
  BY <1>1, <1>5, <1>6, MulDivType
<1> QED
  BY <1>2, <1>4, <1>7, DivType

-----------------------------------------------------------------------------
(* Updates of a market's amounts, value by value.                           *)
LEMMA AmountAt ==
  ASSUME NEW f \in Amount, NEW m \in Markets, NEW t \in Tokens
  PROVE  f[m] \in [Tokens -> Nat] /\ f[m][t] \in Nat
BY DEF Amount

LEMMA AmountIntro ==
  ASSUME NEW f, f = [m \in Markets |-> f[m]], \A m \in Markets : f[m] = [t \in Tokens |-> f[m][t]],
         \A m \in Markets, t \in Tokens : f[m][t] \in Nat
  PROVE  f \in Amount
<1>1. \A m \in Markets : f[m] \in [Tokens -> Nat]
  OBVIOUS
<1> QED
  BY <1>1 DEF Amount

LEMMA OfType ==
  ASSUME NEW n \in Nat, NEW t
  PROVE  Of(t, n) \in [Tokens -> Nat]
BY DEF Of

LEMMA OfSidesType ==
  ASSUME NEW n \in [Sides -> Nat], NEW m
  PROVE  OfSides(m, n) \in [Tokens -> Nat]
BY DEF OfSides, Sides

LEMMA AddedAt ==
  ASSUME NEW f \in Amount, NEW m \in Markets, NEW a \in [Tokens -> Nat]
  PROVE  /\ Added(f, m, a) \in Amount
         /\ \A k \in Markets, t \in Tokens :
              Added(f, m, a)[k][t] = f[k][t] + (IF k = m THEN a[t] ELSE 0)
<1>1. f \in [Markets -> [Tokens -> Nat]]
  BY DEF Amount
<1>2. Added(f, m, a) = [f EXCEPT ![m] = [t \in Tokens |-> f[m][t] + a[t]]]
  BY DEF Added
<1> QED
  BY <1>1, <1>2 DEF Amount

LEMMA TransferredAt ==
  ASSUME balance \in Amount, NEW from \in Places, NEW to \in Places, NEW t \in Tokens,
         NEW n \in Nat, CanSend(from, t, n)
  PROVE  /\ Transferred(from, to, t, n) \in Amount
         /\ \A m \in Markets, u \in Tokens :
              Transferred(from, to, t, n)[m][u] =
                balance[m][u] + (IF m = to /\ u = t THEN n ELSE 0)
                              - (IF m = from /\ u = t THEN n ELSE 0)
<1> DEFINE g == Transferred(from, to, t, n)
<1>1. \A m \in Markets, u \in Tokens :
        g[m][u] = balance[m][u] + (IF m = to /\ u = t THEN n ELSE 0)
                                - (IF m = from /\ u = t THEN n ELSE 0)
  BY DEF Transferred
<1>2. \A m \in Markets, u \in Tokens : g[m][u] \in Nat
  BY <1>1, AmountAt DEF CanSend
<1>3. g = [m \in Markets |-> g[m]] /\ \A m \in Markets : g[m] = [u \in Tokens |-> g[m][u]]
  BY Zenon DEF Transferred
<1> HIDE DEF g
<1>4. g \in Amount
  BY <1>2, <1>3, AmountIntro
<1> QED
  BY <1>1, <1>4 DEF g

(* A claim or an accrual changes one receiver's ui fees and the total alike.*)
LEMMA UiFeesType ==
  ASSUME uiFeeOf \in [Markets -> [Tokens -> [UiFeeReceivers -> Nat]]],
         NEW m \in Markets, NEW t \in Tokens, NEW r \in UiFeeReceivers
  PROVE  uiFeeOf[m][t] \in [UiFeeReceivers -> Nat] /\ uiFeeOf[m][t][r] \in Nat
OBVIOUS

LEMMA Accrual ==
  ASSUME TypeOK, UiFeesMatch, NEW m \in Markets, NEW r \in UiFeeReceivers,
         NEW fee \in [Tokens -> Nat], NEW ui \in [Tokens -> Nat], AccrueFees(m, fee, ui, r)
  PROVE  /\ claimableFee' \in Amount /\ claimableUiFee' \in Amount
         /\ uiFeeOf' \in [Markets -> [Tokens -> [UiFeeReceivers -> Nat]]]
         /\ UiFeesMatch'
         /\ \A k \in Markets, t \in Tokens :
              /\ claimableFee'[k][t] = claimableFee[k][t] + (IF k = m THEN fee[t] ELSE 0)
              /\ claimableUiFee'[k][t] = claimableUiFee[k][t] + (IF k = m THEN ui[t] ELSE 0)
<1>1. /\ claimableFee' = Added(claimableFee, m, fee)
      /\ claimableUiFee' = Added(claimableUiFee, m, ui)
      /\ uiFeeOf' = [uiFeeOf EXCEPT ![m] = [t \in Tokens |->
                       [uiFeeOf[m][t] EXCEPT ![r] = uiFeeOf[m][t][r] + ui[t]]]]
  BY Zenon DEF AccrueFees
<1>2. /\ claimableFee' \in Amount /\ claimableUiFee' \in Amount
      /\ \A k \in Markets, t \in Tokens :
           /\ claimableFee'[k][t] = claimableFee[k][t] + (IF k = m THEN fee[t] ELSE 0)
           /\ claimableUiFee'[k][t] = claimableUiFee[k][t] + (IF k = m THEN ui[t] ELSE 0)
  BY <1>1, AddedAt DEF TypeOK
<1>3. uiFeeOf \in [Markets -> [Tokens -> [UiFeeReceivers -> Nat]]]
  BY DEF TypeOK
<1>4. uiFeeOf' \in [Markets -> [Tokens -> [UiFeeReceivers -> Nat]]]
  BY <1>1, <1>3
<1>5. ASSUME NEW k \in Markets, NEW t \in Tokens
      PROVE  claimableUiFee'[k][t] = Total(uiFeeOf'[k][t])
  <2> DEFINE f == uiFeeOf[k][t]
             g == uiFeeOf'[k][t]
  <2>1. f \in [UiFeeReceivers -> Nat] /\ g \in [UiFeeReceivers -> Nat]
    BY <1>3, <1>4
  <2>2. claimableUiFee[k][t] = Total(f) /\ claimableUiFee[k][t] \in Nat
    BY AmountAt DEF UiFeesMatch, TypeOK
  <2>3. CASE k # m
    BY <1>1, <1>2, <1>3, <2>2, <2>3
  <2>4. CASE k = m
    <3>1. g = [f EXCEPT ![r] = f[r] + ui[t]]
      <4>1. uiFeeOf'[m] = [u \in Tokens |-> [uiFeeOf[m][u] EXCEPT ![r] = uiFeeOf[m][u][r] + ui[u]]]
        BY <1>1, <1>3, Zenon
      <4>2. uiFeeOf'[m][t] = [uiFeeOf[m][t] EXCEPT ![r] = uiFeeOf[m][t][r] + ui[t]]
        BY <4>1, Zenon
      <4> QED
        BY <2>4, <4>2
    <3> HIDE DEF f, g
    <3>2. /\ \A j \in UiFeeReceivers \ {r} : g[j] = f[j]
          /\ g[r] = f[r] + ui[t] /\ f[r] \in Nat /\ ui[t] \in Nat
      BY <2>1, <3>1
    <3>3. Total(g) = Total(f) - f[r] + g[r]
      <4>1. IsFiniteSet(UiFeeReceivers)
        BY MarketsAssumption
      <4>2. \A j \in UiFeeReceivers \ {r} : g[j] = f[j]
        BY <3>2
      <4> QED
        BY <2>1, <4>1, <4>2, TotalUpdate
    <3> QED
      BY <1>2, <2>2, <2>4, <3>2, <3>3 DEF g
  <2> QED
    BY <2>3, <2>4
<1> QED
  BY <1>2, <1>4, <1>5 DEF UiFeesMatch

LEMMA ImpactPoolAt ==
  ASSUME swapImpactPool \in Amount, NEW m \in Markets, NEW tokenIn \in Tokens, NEW tokenOut \in Tokens,
         NEW in \in Nat, NEW out \in Nat, out <= swapImpactPool[m][tokenOut]
  PROVE  /\ ImpactPool(m, tokenIn, in, tokenOut, out) \in Amount
         /\ \A k \in Markets, t \in Tokens :
              ImpactPool(m, tokenIn, in, tokenOut, out)[k][t] =
                swapImpactPool[k][t] + (IF k = m THEN Of(tokenIn, in)[t] - Of(tokenOut, out)[t] ELSE 0)
<1> DEFINE g == ImpactPool(m, tokenIn, in, tokenOut, out)
           new(t) == BoundedDecrease(swapImpactPool[m][t] + Of(tokenIn, in)[t], Of(tokenOut, out)[t])
<1>1. g = [swapImpactPool EXCEPT ![m] = [t \in Tokens |-> new(t)]]
  BY Zenon DEF ImpactPool
<1>2. Of(tokenIn, in) \in [Tokens -> Nat] /\ Of(tokenOut, out) \in [Tokens -> Nat]
  BY OfType
<1>3. \A t \in Tokens : Of(tokenOut, out)[t] <= swapImpactPool[m][t]
  BY AmountAt DEF Of
<1>4. \A t \in Tokens : /\ new(t) = swapImpactPool[m][t] + Of(tokenIn, in)[t] - Of(tokenOut, out)[t]
                        /\ new(t) \in Nat
  BY <1>2, <1>3, AmountAt DEF BoundedDecrease
<1>5. swapImpactPool \in [Markets -> [Tokens -> Nat]]
  BY DEF Amount
<1> HIDE DEF g, new
<1> QED
  BY <1>1, <1>4, <1>5 DEF g, Amount

-----------------------------------------------------------------------------
(* A swap's change of the pool takes no more out than it puts in: both are  *)
(* tokens of the market, at the upper prices of the execution.              *)
BookingFair ==
  LET m == booking.market
  IN  /\ tx # Idle /\ m \in Markets
      /\ booking.tokenIn \in TokensOf(m) /\ booking.tokenOut = getOppositeToken(booking.tokenIn, m)
      /\ LongToken[m] # ShortToken[m]
      /\ booking.out * tx.prices[booking.tokenOut].max <= booking.in * tx.prices[booking.tokenIn].max

(* The shape of an execution: at rest nothing is on its way, what a deposit *)
(* moves ends in its market and has all arrived, in the tokens of its sides,*)
(* when it is minted for, what a swap or a withdrawal moves ends outside,   *)
(* and what is still to be booked is fair.                                  *)
Shape ==
  /\ tx = Idle => legs = NoLegs
  /\ tx.op \in {"deposit", "mint"} => \A s \in Sides : legs[s].to = tx.market
  /\ tx.op = "mint" => \A s \in Sides : ~Underway(legs[s]) /\ legs[s].token = SideToken(tx.market, s)
  /\ tx.op \in {"swap", "withdraw"} => \A s \in Sides : legs[s].to = Outside
  /\ ~NothingToBook => BookingFair

IInv == TypeOK /\ UiFeesMatch /\ Accounted /\ Shape

(* A market of two tokens whose shares the step makes worth no less.        *)
HolderKeeps(m, p) ==
  LongToken[m] # ShortToken[m] /\ supply[m] > 0 =>
    PoolValue(poolAmount', m, p, "max") * supply[m] >= PoolValue(poolAmount, m, p, "max") * supply'[m]

HoldersKeep(p) == \A m \in Markets : HolderKeeps(m, p)

LEMMA UntouchedKeeps ==
  ASSUME NEW m \in Markets, NEW p \in PriceSets, poolAmount \in Amount, poolAmount' \in Amount,
         supply \in [Markets -> Nat], supply'[m] = supply[m],
         \A t \in Tokens : poolAmount'[m][t] = poolAmount[m][t]
  PROVE  HolderKeeps(m, p)
<1> SUFFICES ASSUME LongToken[m] # ShortToken[m]
             PROVE  PoolValue(poolAmount', m, p, "max") * supply[m]
                      >= PoolValue(poolAmount, m, p, "max") * supply'[m]
  BY DEF HolderKeeps
<1>1. PoolValue(poolAmount', m, p, "max") = PoolValue(poolAmount, m, p, "max")
  <2> DEFINE new == poolAmount'
  <2>1. new \in Amount /\ \A t \in Tokens : new[m][t] = poolAmount[m][t]
    OBVIOUS
  <2> HIDE DEF new
  <2>2. PoolValue(new, m, p, "max") = PoolValue(poolAmount, m, p, "max")
    BY <2>1, PoolValueIs, SideTokens
  <2> QED
    BY <2>2 DEF new
<1>2. PoolValue(poolAmount, m, p, "max") \in Nat /\ supply[m] \in Nat
  BY PoolValueType
<1>3. PoolValue(poolAmount, m, p, "max") * supply[m] \in Nat
  BY <1>2, TimesType
<1> QED
  BY <1>1, <1>3

(* At rest nothing is still to be booked.                                   *)
LEMMA RestBooked ==
  ASSUME Shape, tx = Idle
  PROVE  NothingToBook
BY DEF Shape, BookingFair

LEMMA BookingStays ==
  ASSUME Shape, booking' = booking, tx' = tx
  PROVE  ~NothingToBook' => BookingFair'
BY DEF Shape, BookingFair, NothingToBook

LEMMA ShapeStays ==
  ASSUME Shape, booking' = booking, tx' = tx, legs' = legs
  PROVE  Shape'
<1>1. ~NothingToBook' => BookingFair'
  BY BookingStays
<1> QED
  BY <1>1 DEF Shape, Underway

(* What a leg has at a market.                                              *)
Carried(leg, m, t) == IF leg.at = m /\ leg.token = t THEN leg.amount ELSE 0

LEMMA InTransitIs ==
  ASSUME legs \in [Sides -> Leg]
  PROVE  \A m \in Markets, t \in Tokens :
           /\ InTransit(m, t) = Carried(legs["long"], m, t) + Carried(legs["short"], m, t)
           /\ InTransit(m, t) \in Nat
           /\ \A s \in Sides : Carried(legs[s], m, t) \in Nat
BY DEF InTransit, Carried, Sides, Leg

LEMMA InTransitNext ==
  ASSUME legs' \in [Sides -> Leg]
  PROVE  \A m \in Markets, t \in Tokens :
           /\ InTransit(m, t)' = Carried(legs'["long"], m, t) + Carried(legs'["short"], m, t)
           /\ \A s \in Sides : Carried(legs'[s], m, t) \in Nat
BY DEF InTransit, Carried, Sides, Leg

LEMMA UnbookedType ==
  ASSUME booking \in Booking
  PROVE  \A m \in Markets, t \in Tokens : Unbooked(m, t) \in Int
BY DEF Unbooked, Booking

(* A step that changes one leg.                                             *)
LEMMA LegChange ==
  ASSUME legs \in [Sides -> Leg], legs' \in [Sides -> Leg], NEW side \in Sides,
         \A s \in Sides : s # side => legs'[s] = legs[s]
  PROVE  \A m \in Markets, t \in Tokens :
           InTransit(m, t)' = InTransit(m, t) - Carried(legs[side], m, t) + Carried(legs'[side], m, t)
<1>1. \A m \in Markets, t \in Tokens :
        /\ InTransit(m, t) = Carried(legs["long"], m, t) + Carried(legs["short"], m, t)
        /\ InTransit(m, t)' = Carried(legs'["long"], m, t) + Carried(legs'["short"], m, t)
        /\ Carried(legs["long"], m, t) \in Nat /\ Carried(legs["short"], m, t) \in Nat
        /\ Carried(legs'["long"], m, t) \in Nat /\ Carried(legs'["short"], m, t) \in Nat
  BY DEF InTransit, Carried, Sides, Leg
<1>2. CASE side = "long"
  BY <1>1, <1>2 DEF Sides
<1>3. CASE side = "short"
  BY <1>1, <1>3 DEF Sides
<1> QED
  BY <1>2, <1>3 DEF Sides

LEMMA NothingCarried ==
  ASSUME legs \in [Sides -> Leg], \A s \in Sides : legs[s].at = Outside \/ legs[s].amount = 0
  PROVE  \A m \in Markets, t \in Tokens : InTransit(m, t) = 0
BY MarketsAssumption DEF InTransit, Sides, Leg

LEMMA Values ==
  ASSUME TypeOK
  PROVE  \A k \in Markets, t \in Tokens :
           /\ poolAmount[k][t] \in Nat /\ swapImpactPool[k][t] \in Nat /\ claimableFee[k][t] \in Nat
           /\ claimableUiFee[k][t] \in Nat /\ stray[k][t] \in Nat /\ balance[k][t] \in Nat
           /\ InTransit(k, t) \in Nat /\ Unbooked(k, t) \in Int
BY AmountAt, InTransitIs, UnbookedType DEF TypeOK

(* What changes the balance of a market changes its books by as much.       *)
LEMMA AccountedStep ==
  ASSUME TypeOK, TypeOK', Accounted,
         \A k \in Markets, t \in Tokens :
           balance'[k][t] - balance[k][t] =
               (poolAmount'[k][t] - poolAmount[k][t]) + (swapImpactPool'[k][t] - swapImpactPool[k][t])
             + (claimableFee'[k][t] - claimableFee[k][t]) + (claimableUiFee'[k][t] - claimableUiFee[k][t])
             + (InTransit(k, t)' - InTransit(k, t)) + (Unbooked(k, t)' - Unbooked(k, t))
             + (stray'[k][t] - stray[k][t])
  PROVE  Accounted'
<1> SUFFICES ASSUME NEW k \in Markets, NEW t \in Tokens
             PROVE  balance'[k][t] = getExpectedMinTokenBalance(k, t)' + InTransit(k, t)'
                                     + Unbooked(k, t)' + stray'[k][t]
  BY DEF Accounted
<1>1. /\ poolAmount[k][t] \in Nat /\ swapImpactPool[k][t] \in Nat /\ claimableFee[k][t] \in Nat
      /\ claimableUiFee[k][t] \in Nat /\ stray[k][t] \in Nat /\ balance[k][t] \in Nat
      /\ InTransit(k, t) \in Nat /\ Unbooked(k, t) \in Int
  BY Values
<1>2. /\ poolAmount'[k][t] \in Nat /\ swapImpactPool'[k][t] \in Nat /\ claimableFee'[k][t] \in Nat
      /\ claimableUiFee'[k][t] \in Nat /\ stray'[k][t] \in Nat /\ balance'[k][t] \in Nat
  BY AmountAt DEF TypeOK
<1>3. InTransit(k, t)' \in Nat
  <2>1. legs' \in [Sides -> Leg]
    BY DEF TypeOK
  <2> QED
    BY <2>1, InTransitNext DEF Sides
<1>4. Unbooked(k, t)' \in Int
  BY DEF TypeOK, Unbooked, Booking
<1>5. balance[k][t] = poolAmount[k][t] + swapImpactPool[k][t] + claimableFee[k][t] + claimableUiFee[k][t]
                      + InTransit(k, t) + Unbooked(k, t) + stray[k][t]
  BY DEF Accounted, getExpectedMinTokenBalance
<1>6. getExpectedMinTokenBalance(k, t)' =
        poolAmount'[k][t] + swapImpactPool'[k][t] + claimableFee'[k][t] + claimableUiFee'[k][t]
  BY DEF getExpectedMinTokenBalance
<1> QED
  BY <1>1, <1>2, <1>3, <1>4, <1>5, <1>6

LEMMA NoLegsType == NoLegs \in [Sides -> Leg]
BY MarketsAssumption DEF NoLegs, NoLeg, Leg, Places

LEMMA IdleIs ==
  ASSUME TypeOK
  PROVE  /\ tx = Idle <=> tx \notin Transaction
         /\ tx = Idle <=> tx.op = "none"
BY DEF TypeOK, Idle, Transaction

LEMMA InitInv == Init => IInv
<1> SUFFICES ASSUME Init PROVE IInv
  OBVIOUS
<1>1. NoTokens \in Amount /\ \A m \in Markets, t \in Tokens : NoTokens[m][t] = 0
  BY DEF NoTokens, Amount
<1>2. poolAmount \in Amount /\ supply \in [Markets -> Nat]
  BY MarketsAssumption DEF Init, Amount
<1>3. NoBooking \in Booking
  BY MarketsAssumption DEF NoBooking, Booking, Places
<1>4. TypeOK
  <2>1. uiFeeOf \in [Markets -> [Tokens -> [UiFeeReceivers -> Nat]]]
    BY DEF Init
  <2>2. executions \in 0..MaxExecutions
    BY MarketsAssumption DEF Init
  <2> QED
    BY <1>1, <1>2, <1>3, <2>1, <2>2, NoLegsType DEF Init, TypeOK
<1>5. UiFeesMatch
  <2> SUFFICES ASSUME NEW m \in Markets, NEW t \in Tokens
               PROVE  claimableUiFee[m][t] = Total(uiFeeOf[m][t])
    BY DEF UiFeesMatch
  <2>1. uiFeeOf[m][t] \in [UiFeeReceivers -> Nat] /\ \A r \in UiFeeReceivers : uiFeeOf[m][t][r] = 0
    BY DEF Init
  <2>2. Total(uiFeeOf[m][t]) = 0
    BY <2>1, TotalZero
  <2> QED
    BY <1>1, <2>2 DEF Init
<1>6. Accounted
  <2>1. \A m \in Markets, t \in Tokens : InTransit(m, t) = 0
    BY <1>4, NothingCarried, Zenon DEF Init, TypeOK, NoLegs, NoLeg
  <2>2. \A m \in Markets, t \in Tokens : Unbooked(m, t) = 0
    BY DEF Init, Unbooked, NoBooking
  <2> QED
    BY <1>1, <1>2, <2>1, <2>2, AmountAt DEF Accounted, Init, getExpectedMinTokenBalance
<1>7. Shape
  BY DEF Init, Shape, Idle, NothingToBook, NoBooking
<1> QED
  BY <1>4, <1>5, <1>6, <1>7 DEF IInv

(* The requests: what they send off is outside the markets, or is taken     *)
(* from the books of the market it is in.                                   *)
LEMMA BeginType ==
  ASSUME IInv, AtRest, executions < MaxExecutions, NEW op \in {"swap", "deposit", "withdraw"},
         NEW m \in Markets, NEW p \in PriceSets, NEW r \in UiFeeReceivers, Begin(op, m, p, r)
  PROVE  /\ executions' \in 0..MaxExecutions
         /\ tx' \in Transaction /\ tx'.op = op /\ tx'.market = m
         /\ legs = NoLegs
         /\ \A k \in Markets, t \in Tokens : InTransit(k, t) = 0
<1>1. executions' \in 0..MaxExecutions
  BY MarketsAssumption DEF IInv, TypeOK, Begin
<1>2. tx' \in Transaction /\ tx'.op = op /\ tx'.market = m
  BY DEF Begin, Transaction, NoImpact
<1>3. legs = NoLegs
  BY DEF IInv, Shape, AtRest
<1>4. \A k \in Markets, t \in Tokens : InTransit(k, t) = 0
  BY <1>3, NoLegsType, NothingCarried, Zenon DEF NoLegs, NoLeg
<1> QED
  BY <1>1, <1>2, <1>3, <1>4

(* A request that leaves the books as they are and starts outside.          *)
LEMMA SetOutInv ==
  ASSUME IInv, AtRest, executions < MaxExecutions, NEW op \in {"swap", "deposit"},
         NEW m \in Markets, NEW p \in PriceSets, NEW r \in UiFeeReceivers, Begin(op, m, p, r),
         legs' \in [Sides -> Leg], \A s \in Sides : legs'[s].at = Outside,
         \A s \in Sides : legs'[s].to = IF op = "swap" THEN Outside ELSE m,
         UNCHANGED <<books, balance, supply, booking, foreign, stray>>
  PROVE  IInv'
<1>1. /\ executions' \in 0..MaxExecutions
      /\ tx' \in Transaction /\ tx'.op = op /\ tx'.market = m
      /\ \A k \in Markets, t \in Tokens : InTransit(k, t) = 0
  BY BeginType
<1>2. /\ UNCHANGED <<poolAmount, swapImpactPool, claimableFee, claimableUiFee, uiFeeOf>>
      /\ UNCHANGED <<balance, supply, booking, foreign, stray>>
  BY DEF books
<1>3. TypeOK'
  BY <1>1, <1>2 DEF IInv, TypeOK
<1>4. UiFeesMatch'
  BY <1>2 DEF IInv, UiFeesMatch
<1>5. \A k \in Markets, t \in Tokens : InTransit(k, t)' = 0
  <2>1. \A k \in Markets, t \in Tokens, s \in Sides : Carried(legs'[s], k, t) = 0
    BY MarketsAssumption DEF Carried
  <2> QED
    BY <2>1, InTransitNext DEF Sides
<1>6. Accounted'
  <2>1. Accounted
    BY DEF IInv
  <2> QED
    BY <1>1, <1>2, <1>5, <2>1 DEF Accounted, getExpectedMinTokenBalance, Unbooked
<1>7. Shape'
  <2>1. NothingToBook'
    BY <1>2, RestBooked DEF IInv, AtRest, NothingToBook
  <2> QED
    BY <1>1, IdleIs, <1>3, <2>1 DEF Shape, Idle, Transaction
<1> QED
  BY <1>3, <1>4, <1>6, <1>7 DEF IInv

LEMMA BeginSwapInv ==
  ASSUME IInv, AtRest, executions < MaxExecutions, NEW path \in Paths, NEW t \in Tokens,
         NEW n \in Amounts, NEW p \in PriceSets, NEW r \in UiFeeReceivers,
         BeginSwap(path, t, n, p, r)
  PROVE  IInv'
<1> DEFINE leg == [at |-> Outside, path |-> path, token |-> t, amount |-> n, to |-> Outside]
<1>1. path \in Seq(Markets) /\ Head(path) \in Markets /\ n \in Nat
  BY MarketsAssumption DEF BeginSwap
<1>2. leg \in Leg
  BY <1>1 DEF Leg, Places
<1>3. legs' = [NoLegs EXCEPT !["long"] = leg]
  BY DEF BeginSwap
<1>4. legs' \in [Sides -> Leg]
  BY <1>2, <1>3, NoLegsType
<1>5. \A s \in Sides : legs'[s].at = Outside /\ legs'[s].to = Outside
  BY <1>3 DEF NoLegs, NoLeg, Sides
<1>6. /\ Begin("swap", Head(path), p, r)
      /\ UNCHANGED <<books, balance, supply, booking, foreign, stray>>
  BY DEF BeginSwap
<1> QED
  BY <1>1, <1>4, <1>5, <1>6, SetOutInv

LEMMA BeginDepositInv ==
  ASSUME IInv, AtRest, executions < MaxExecutions, NEW m \in Markets, NEW path \in [Sides -> Paths],
         NEW token \in [Sides -> Tokens], NEW amount \in [Sides -> Amounts],
         NEW p \in PriceSets, NEW r \in UiFeeReceivers,
         BeginDeposit(m, path, token, amount, p, r)
  PROVE  IInv'
<1>1. /\ legs' = [s \in Sides |-> [at |-> Outside, path |-> path[s], token |-> token[s],
                                   amount |-> amount[s], to |-> m]]
      /\ Begin("deposit", m, p, r)
      /\ UNCHANGED <<books, balance, supply, booking, foreign, stray>>
  BY DEF BeginDeposit
<1>2. \A s \in Sides : path[s] \in Seq(Markets) /\ amount[s] \in Nat
  BY MarketsAssumption
<1>3. legs' \in [Sides -> Leg]
  BY <1>1, <1>2 DEF Leg, Places
<1>4. \A s \in Sides : legs'[s].at = Outside /\ legs'[s].to = m
  BY <1>1
<1> QED
  BY <1>1, <1>3, <1>4, SetOutInv

(* What a withdrawal takes off the books is what fees put back and what the *)
(* two sides carry, and it is no more than the burnt shares' part.          *)
LEMMA BeginWithdrawInv ==
  ASSUME IInv, AtRest, executions < MaxExecutions, NEW m \in Markets, NEW w \in 1..supply[m],
         NEW path \in [Sides -> Paths], NEW p \in PriceSets, NEW r \in UiFeeReceivers,
         BeginWithdraw(m, w, path, p, r)
  PROVE  IInv' /\ tx = Idle /\ tx'.prices = p /\ HoldersKeep(p)
<1> DEFINE out == [s \in Sides |-> OutputAmount(m, s, w, p)]
           fees == [s \in Sides |-> SwapFees(out[s], FALSE, r)]
           left == [s \in Sides |-> out[s] - fees[s].pool]
           receiver == [s \in Sides |-> fees[s].receiver]
           ui == [s \in Sides |-> fees[s].ui]
           after == [s \in Sides |-> fees[s].after]
<1>1. /\ PoolValue(poolAmount, m, p, "min") > 0
      /\ \A s \in Sides : Payable(fees[s])
      /\ \A t \in Tokens : OfSides(m, left)[t] <= poolAmount[m][t]
      /\ poolAmount' = [poolAmount EXCEPT ![m] = [t \in Tokens |-> poolAmount[m][t] - OfSides(m, left)[t]]]
      /\ AccrueFees(m, OfSides(m, receiver), OfSides(m, ui), r)
      /\ supply' = [supply EXCEPT ![m] = supply[m] - w]
      /\ legs' = [s \in Sides |-> [at |-> m, path |-> path[s], token |-> SideToken(m, s),
                                   amount |-> fees[s].after, to |-> Outside]]
      /\ Begin("withdraw", m, p, r)
      /\ UNCHANGED <<swapImpactPool, balance, booking, foreign, stray>>
  BY Zenon DEF BeginWithdraw
<1>2. TypeOK /\ UiFeesMatch /\ Accounted
  BY DEF IInv
<1>3. \A s \in Sides : out[s] \in Nat
  BY <1>1, <1>2, OutputType DEF TypeOK
<1> HIDE DEF out
<1>4. \A s \in Sides : /\ fees[s].receiver \in Nat /\ fees[s].pool \in Nat
                       /\ fees[s].ui \in Nat /\ fees[s].after \in Nat
                       /\ fees[s].receiver + fees[s].pool + fees[s].ui + fees[s].after = out[s]
  <2> SUFFICES ASSUME NEW s \in Sides
               PROVE  /\ fees[s].receiver \in Nat /\ fees[s].pool \in Nat
                      /\ fees[s].ui \in Nat /\ fees[s].after \in Nat
                      /\ fees[s].receiver + fees[s].pool + fees[s].ui + fees[s].after = out[s]
    OBVIOUS
  <2>1. fees[s] = SwapFees(out[s], FALSE, r) /\ Payable(fees[s]) /\ out[s] \in Nat
    BY <1>1, <1>3
  <2> HIDE DEF fees
  <2> QED
    BY <2>1, FeesSplit
<1> HIDE DEF fees
<1>5. /\ left \in [Sides -> Nat] /\ receiver \in [Sides -> Nat]
      /\ ui \in [Sides -> Nat] /\ after \in [Sides -> Nat]
      /\ \A s \in Sides : left[s] = receiver[s] + ui[s] + after[s]
  BY <1>3, <1>4
<1>6. \A s \in Sides : after[s] = fees[s].after
  OBVIOUS
<1> HIDE DEF left, receiver, ui, after
<1>7. \A t \in Tokens : /\ OfSides(m, left)[t] = OfSides(m, receiver)[t] + OfSides(m, ui)[t] + OfSides(m, after)[t]
                        /\ OfSides(m, left)[t] \in Nat
  BY <1>5 DEF OfSides, Sides
<1>8. poolAmount' \in Amount
      /\ \A k \in Markets, t \in Tokens :
           poolAmount'[k][t] = poolAmount[k][t] - (IF k = m THEN OfSides(m, left)[t] ELSE 0)
  <2>1. poolAmount \in [Markets -> [Tokens -> Nat]]
    BY <1>2 DEF TypeOK, Amount
  <2> QED
    BY <1>1, <1>7, <2>1 DEF Amount
<1>9. /\ claimableFee' \in Amount /\ claimableUiFee' \in Amount
      /\ uiFeeOf' \in [Markets -> [Tokens -> [UiFeeReceivers -> Nat]]]
      /\ UiFeesMatch'
      /\ \A k \in Markets, t \in Tokens :
           /\ claimableFee'[k][t] = claimableFee[k][t] + (IF k = m THEN OfSides(m, receiver)[t] ELSE 0)
           /\ claimableUiFee'[k][t] = claimableUiFee[k][t] + (IF k = m THEN OfSides(m, ui)[t] ELSE 0)
  <2> DEFINE fee == OfSides(m, receiver)
             uiFee == OfSides(m, ui)
  <2>1. fee \in [Tokens -> Nat] /\ uiFee \in [Tokens -> Nat]
    BY <1>5, OfSidesType
  <2>2. AccrueFees(m, fee, uiFee, r)
    BY <1>1
  <2> HIDE DEF fee, uiFee
  <2>3. /\ claimableFee' \in Amount /\ claimableUiFee' \in Amount
        /\ uiFeeOf' \in [Markets -> [Tokens -> [UiFeeReceivers -> Nat]]]
        /\ UiFeesMatch'
        /\ \A k \in Markets, t \in Tokens :
             /\ claimableFee'[k][t] = claimableFee[k][t] + (IF k = m THEN fee[t] ELSE 0)
             /\ claimableUiFee'[k][t] = claimableUiFee[k][t] + (IF k = m THEN uiFee[t] ELSE 0)
    BY <1>2, <2>1, <2>2, Accrual
  <2> QED
    BY <2>3 DEF fee, uiFee
<1>10. legs' \in [Sides -> Leg]
  <2>1. \A s \in Sides : path[s] \in Seq(Markets)
    BY MarketsAssumption
  <2>2. \A s \in Sides : SideToken(m, s) \in Tokens
    BY SideTokens
  <2> QED
    BY <1>1, <1>4, <2>1, <2>2 DEF Leg, Places
<1>11. \A k \in Markets, t \in Tokens :
         InTransit(k, t)' = IF k = m THEN OfSides(m, after)[t] ELSE 0
  <2>1. \A k \in Markets, t \in Tokens, s \in Sides :
          Carried(legs'[s], k, t) = IF k = m /\ t = SideToken(m, s) THEN after[s] ELSE 0
    BY <1>1, <1>6 DEF Carried
  <2>2. \A t \in Tokens : OfSides(m, after)[t] =
          (IF t = SideToken(m, "long") THEN after["long"] ELSE 0)
          + (IF t = SideToken(m, "short") THEN after["short"] ELSE 0)
    BY DEF OfSides, SideToken
  <2>3. after["long"] \in Nat /\ after["short"] \in Nat
    BY <1>5 DEF Sides
  <2>4. \A k \in Markets, t \in Tokens :
          InTransit(k, t)' = Carried(legs'["long"], k, t) + Carried(legs'["short"], k, t)
    BY <1>10, InTransitNext
  <2> QED
    BY <2>1, <2>2, <2>3, <2>4 DEF Sides
<1>12. /\ executions' \in 0..MaxExecutions
       /\ tx' \in Transaction /\ tx'.op = "withdraw"
       /\ \A k \in Markets, t \in Tokens : InTransit(k, t) = 0
  BY <1>1, BeginType
<1>13. supply' \in [Markets -> Nat]
  <2>1. supply \in [Markets -> Nat]
    BY <1>2 DEF TypeOK
  <2> QED
    BY <1>1, <2>1
<1>14. TypeOK'
  BY <1>1, <1>2, <1>8, <1>9, <1>10, <1>12, <1>13 DEF TypeOK
<1>15. Accounted'
  <2>1. \A k \in Markets, t \in Tokens : Unbooked(k, t)' = Unbooked(k, t)
    BY <1>1 DEF Unbooked
  <2>2. \A t \in Tokens : /\ OfSides(m, receiver)[t] \in Nat /\ OfSides(m, ui)[t] \in Nat
                          /\ OfSides(m, after)[t] \in Nat
    BY <1>5, OfSidesType
  <2>3. \A k \in Markets, t \in Tokens :
          balance'[k][t] - balance[k][t] =
              (poolAmount'[k][t] - poolAmount[k][t]) + (swapImpactPool'[k][t] - swapImpactPool[k][t])
            + (claimableFee'[k][t] - claimableFee[k][t]) + (claimableUiFee'[k][t] - claimableUiFee[k][t])
            + (InTransit(k, t)' - InTransit(k, t)) + (Unbooked(k, t)' - Unbooked(k, t))
            + (stray'[k][t] - stray[k][t])
    <3> TAKE k \in Markets, t \in Tokens
    <3>1. balance'[k][t] = balance[k][t] /\ stray'[k][t] = stray[k][t] /\ swapImpactPool'[k][t] = swapImpactPool[k][t]
      BY <1>1
    <3>2. InTransit(k, t) = 0 /\ Unbooked(k, t)' = Unbooked(k, t) /\ Unbooked(k, t) \in Int
      BY <1>2, <1>12, <2>1, Values
    <3>3. CASE k = m
      BY <1>2, <1>7, <1>8, <1>9, <1>11, <2>2, <3>1, <3>2, <3>3, Values
    <3>4. CASE k # m
      BY <1>2, <1>8, <1>9, <1>11, <3>1, <3>2, <3>4, Values
    <3> QED
      BY <3>3, <3>4
  <2> QED
    BY <1>2, <1>14, <2>3, AccountedStep
<1>16. Shape'
  <2>1. NothingToBook'
    BY <1>1, RestBooked DEF IInv, AtRest, NothingToBook
  <2> QED
    BY <1>1, <1>12, <1>14, <2>1, IdleIs DEF Shape, Idle, Transaction
<1>17. HolderKeeps(m, p)
  <2> SUFFICES ASSUME LongToken[m] # ShortToken[m], supply[m] > 0
               PROVE  PoolValue(poolAmount', m, p, "max") * supply[m]
                        >= PoolValue(poolAmount, m, p, "max") * supply'[m]
    BY DEF HolderKeeps
  <2> DEFINE new == poolAmount'
             l == LongToken[m]
             s == ShortToken[m]
             v == PoolValue(poolAmount, m, p, "max")
             v2 == PoolValue(new, m, p, "max")
             low == PoolValue(poolAmount, m, p, "min")
             usd == MulDiv(low, w, supply[m])
             pl == p[l].max
             ps == p[s].max
             a == poolAmount[m][l]
             c == poolAmount[m][s]
             x == MulDiv(usd, a * pl, v)
             y == MulDiv(usd, c * ps, v)
             ll == left["long"]
             lr == left["short"]
  <2>1. poolAmount \in Amount /\ new \in Amount /\ l \in Tokens /\ s \in Tokens /\ l # s
    BY <1>2, <1>8, SideTokens DEF TypeOK
  <2>2. /\ a \in Nat /\ c \in Nat /\ pl \in Nat /\ ps \in Nat /\ pl > 0 /\ ps > 0
        /\ supply[m] \in Nat /\ w \in Nat /\ supply'[m] = supply[m] - w
    <3>1. supply \in [Markets -> Nat] /\ supply'[m] = supply[m] - w
      BY <1>1, <1>2 DEF TypeOK
    <3> QED
      BY <2>1, <3>1, AmountAt, PricesType
  <2>3. v \in Nat /\ low \in Nat /\ low <= v /\ v > 0 /\ v2 \in Nat
    <3> HIDE DEF new
    <3> QED
      BY <1>1, <2>1, PoolValueType, PoolValueIs
  <2>4. v = a * pl + c * ps /\ v2 = new[m][l] * pl + new[m][s] * ps
    <3> HIDE DEF new
    <3> QED
      BY <2>1, PoolValueIs
  <2>5. out["long"] = x \div pl /\ out["short"] = y \div ps
    <3>1. /\ SideToken(m, "long") = l /\ SideToken(m, "short") = s
          /\ getPoolAmount(poolAmount, m, l) = a /\ getPoolAmount(poolAmount, m, s) = c
      BY <2>1, PoolValueIs DEF SideToken
    <3>2. out["long"] = OutputAmount(m, "long", w, p) /\ out["short"] = OutputAmount(m, "short", w, p)
      BY DEF out, Sides
    <3>3. \A side \in Sides : OutputAmount(m, side, w, p) =
            MulDiv(usd, getPoolAmount(poolAmount, m, SideToken(m, side)) * p[SideToken(m, side)].max, v)
              \div p[SideToken(m, side)].max
      BY Zenon DEF OutputAmount
    <3> HIDE DEF usd, v, a, c, l, s
    <3> QED
      BY <3>1, <3>2, <3>3 DEF Sides
  <2>6. /\ ll \in Nat /\ lr \in Nat /\ ll <= out["long"] /\ lr <= out["short"]
        /\ out["long"] \in Nat /\ out["short"] \in Nat
    BY <1>3, <1>4, <1>5 DEF left, Sides
  <2>7. new[m][l] = a - ll /\ new[m][s] = c - lr
    <3>1. OfSides(m, left)[l] = ll /\ OfSides(m, left)[s] = lr
      BY <2>1, <2>6 DEF OfSides
    <3> QED
      BY <1>8, <2>1, <3>1
  <2> HIDE DEF v, v2, low, new, l, s, pl, ps, a, c, ll, lr
  <2>8. usd \in Nat
    BY <2>2, <2>3, MulDivType
  <2> HIDE DEF usd
  <2>9. a * pl \in Nat /\ c * ps \in Nat
    BY <2>2, TimesType
  <2>10. x \in Nat /\ y \in Nat
    BY <2>3, <2>8, <2>9, MulDivType
  <2>11. x + y <= usd
    <3> DEFINE b == a * pl
               d == c * ps
    <3>1. b \in Nat /\ d \in Nat /\ v = b + d /\ x = MulDiv(usd, b, v) /\ y = MulDiv(usd, d, v)
      BY <2>4, <2>9
    <3> HIDE DEF b, d, x, y
    <3> QED
      BY <2>3, <2>8, <2>10, <3>1, SharesAtMost
  <2> HIDE DEF x, y
  <2>12. ll * pl <= x /\ lr * ps <= y /\ ll * pl \in Nat /\ lr * ps \in Nat
    <3>1. (x \div pl) * pl <= x /\ (y \div ps) * ps <= y
      BY <2>2, <2>10, DivAtMost
    <3>2. ll * pl <= out["long"] * pl /\ lr * ps <= out["short"] * ps
      BY <2>2, <2>6, TimesUp
    <3>3. ll * pl \in Nat /\ lr * ps \in Nat
      BY <2>2, <2>6, TimesType
    <3>4. out["long"] * pl \in Nat /\ out["short"] * ps \in Nat
      BY <2>2, <2>6, TimesType
    <3> DEFINE q == out["long"] * pl
               z == out["short"] * ps
    <3>5. q <= x /\ z <= y
      BY <2>5, <3>1
    <3> HIDE DEF q, z
    <3>6. ll * pl <= q /\ lr * ps <= z /\ q \in Nat /\ z \in Nat
      BY <3>2, <3>4 DEF q, z
    <3> QED
      BY <2>10, <3>3, <3>5, <3>6
  <2> DEFINE gone == ll * pl + lr * ps
  <2>13. gone \in Nat /\ gone <= usd
    BY <2>8, <2>10, <2>11, <2>12
  <2>14. v2 = v - gone
    <3>1. (a - ll) * pl = a * pl - ll * pl /\ (c - lr) * ps = c * ps - lr * ps
      BY <2>2, <2>6, TimesSum
    <3> QED
      BY <2>4, <2>7, <2>9, <2>12, <3>1
  <2> HIDE DEF gone
  <2>15. (v - gone) * supply[m] >= v * (supply[m] - w)
    BY <2>2, <2>3, <2>8, <2>13, BurnWorth DEF usd
  <2> QED
    BY <2>2, <2>14, <2>15 DEF v, v2, new
<1>18. HoldersKeep(p)
  <2> SUFFICES ASSUME NEW k \in Markets PROVE HolderKeeps(k, p)
    BY DEF HoldersKeep
  <2>1. CASE k = m
    BY <1>17, <2>1
  <2>2. CASE k # m
    <3>1. poolAmount \in Amount /\ supply \in [Markets -> Nat]
      BY <1>2 DEF TypeOK
    <3>2. supply'[k] = supply[k]
      BY <1>1, <2>2, <3>1
    <3>3. \A t \in Tokens : poolAmount'[k][t] = poolAmount[k][t]
      BY <1>8, <2>2, <3>1, AmountAt
    <3> QED
      BY <1>8, <3>1, <3>2, <3>3, UntouchedKeeps
  <2> QED
    BY <2>1, <2>2
<1>19. tx = Idle /\ tx'.prices = p
  BY <1>1 DEF Begin, AtRest
<1> QED
  BY <1>9, <1>14, <1>15, <1>16, <1>18, <1>19 DEF IInv

-----------------------------------------------------------------------------
(* The steps of an execution.                                               *)
LEMMA SendInv ==
  ASSUME IInv, NEW side \in Sides, Send(side)
  PROVE  IInv'
<1> DEFINE leg == legs[side]
           dest == IF leg.path = <<>> THEN leg.to ELSE Head(leg.path)
<1>1. /\ ToMove(side) /\ CanSend(leg.at, leg.token, leg.amount)
      /\ balance' = Transferred(leg.at, dest, leg.token, leg.amount)
      /\ legs' = [legs EXCEPT ![side].at = dest]
      /\ foreign' = RunsForeignCode(dest, leg.token, leg.amount)
      /\ UNCHANGED <<poolAmount, swapImpactPool, claimableFee, claimableUiFee, uiFeeOf>>
      /\ UNCHANGED <<supply, tx, booking, stray, executions>>
  BY Zenon DEF Send, books
<1>2. TypeOK /\ UiFeesMatch /\ Accounted /\ Shape
  BY DEF IInv
<1>3. /\ leg \in Leg /\ legs \in [Sides -> Leg] /\ dest \in Places
      /\ leg.at \in Places /\ leg.token \in Tokens /\ leg.amount \in Nat
  BY <1>2 DEF TypeOK, Leg, Places
<1> HIDE DEF dest
<1>4. legs' \in [Sides -> Leg]
  BY <1>1, <1>3 DEF Leg
<1>5. balance' \in Amount
      /\ \A k \in Markets, t \in Tokens :
           balance'[k][t] = balance[k][t] + (IF k = dest /\ t = leg.token THEN leg.amount ELSE 0)
                                          - (IF k = leg.at /\ t = leg.token THEN leg.amount ELSE 0)
  BY <1>1, <1>2, <1>3, TransferredAt DEF TypeOK
<1>6. foreign' \in BOOLEAN
  BY <1>1 DEF RunsForeignCode
<1>7. TypeOK'
  BY <1>1, <1>2, <1>4, <1>5, <1>6 DEF TypeOK
<1>8. \A k \in Markets, t \in Tokens :
        InTransit(k, t)' = InTransit(k, t) - Carried(legs[side], k, t) + Carried(legs'[side], k, t)
  BY <1>1, <1>3, <1>4, LegChange
<1>9. \A k \in Markets, t \in Tokens :
        /\ Carried(legs[side], k, t) = IF k = leg.at /\ t = leg.token THEN leg.amount ELSE 0
        /\ Carried(legs'[side], k, t) = IF k = dest /\ t = leg.token THEN leg.amount ELSE 0
  BY <1>1, <1>3 DEF Carried, Leg
<1>10. Accounted'
  <2>1. \A k \in Markets, t \in Tokens :
          Unbooked(k, t)' = Unbooked(k, t)
    BY <1>1 DEF Unbooked
  <2>2. \A k \in Markets, t \in Tokens :
          balance'[k][t] - balance[k][t] =
              (poolAmount'[k][t] - poolAmount[k][t]) + (swapImpactPool'[k][t] - swapImpactPool[k][t])
            + (claimableFee'[k][t] - claimableFee[k][t]) + (claimableUiFee'[k][t] - claimableUiFee[k][t])
            + (InTransit(k, t)' - InTransit(k, t)) + (Unbooked(k, t)' - Unbooked(k, t))
            + (stray'[k][t] - stray[k][t])
    BY <1>1, <1>2, <1>3, <1>5, <1>8, <1>9, <2>1, Values
  <2> QED
    BY <1>2, <1>7, <2>2, AccountedStep
<1>11. UiFeesMatch'
  BY <1>1, <1>2 DEF UiFeesMatch
<1>12. Shape'
  <2>1. tx # Idle /\ Underway(legs[side])
    BY <1>1 DEF ToMove, AtRest
  <2>2. tx.op # "mint"
    BY <1>2, <2>1 DEF Shape
  <2>3. \A s \in Sides : legs'[s].to = legs[s].to
    BY <1>1, <1>3 DEF Leg
  <2>4. ~NothingToBook' => BookingFair'
    BY <1>1, <1>2, BookingStays
  <2> QED
    BY <1>1, <1>2, <2>1, <2>2, <2>3, <2>4 DEF Shape
<1> QED
  BY <1>7, <1>10, <1>11, <1>12 DEF IInv

(* A hop: what a leg has at a market is shared between fees, the impact     *)
(* pool and the pool that is booked next, and what it leaves with is taken  *)
(* from the impact pool and from the pool that is booked next.              *)
LEMMA SwapHopInv ==
  ASSUME IInv, NEW side \in Sides, NEW impact \in Impacts, SwapHop(side, impact)
  PROVE  IInv'
<1> DEFINE leg == legs[side]
           m == Head(leg.path)
           tokenIn == leg.token
           tokenOut == getOppositeToken(tokenIn, m)
           fees == SwapFees(leg.amount, impact > 0, tx.ui)
           impactIn == IF impact > 0 THEN 0 ELSE NegativeImpact(impact, tx.prices[tokenIn])
           impactOut == IF impact > 0 THEN PositiveImpact(m, tokenOut, impact, tx.prices[tokenOut]) ELSE 0
           amountIn == fees.after - impactIn
           poolAmountOut == AmountOut(amountIn, tx.prices[tokenIn], tx.prices[tokenOut])
           amountOut == poolAmountOut + impactOut
           receiver == IF Tail(leg.path) = <<>> THEN leg.to ELSE Head(Tail(leg.path))
           new == [at |-> receiver, path |-> Tail(leg.path), token |-> tokenOut,
                   amount |-> amountOut, to |-> leg.to]
           newBooking == [market |-> m, tokenIn |-> tokenIn, in |-> amountIn + fees.pool,
                          tokenOut |-> tokenOut, out |-> poolAmountOut]
<1>1. /\ ToMove(side) /\ leg.path # <<>> /\ leg.at = m
      /\ Payable(fees) /\ (impact <= 0 => fees.after > impactIn)
      /\ receiver # m => CanSend(m, tokenOut, amountOut)
      /\ AccrueFees(m, Of(tokenIn, fees.receiver), Of(tokenIn, fees.ui), tx.ui)
      /\ swapImpactPool' = ImpactPool(m, tokenIn, impactIn, tokenOut, impactOut)
      /\ balance' = IF receiver = m THEN balance ELSE Transferred(m, receiver, tokenOut, amountOut)
      /\ legs' = [legs EXCEPT ![side] = new]
      /\ booking' = newBooking
      /\ foreign' = RunsForeignCode(receiver, tokenOut, amountOut)
      /\ UNCHANGED <<poolAmount, supply, tx, stray, executions>>
  BY Zenon DEF SwapHop
<1>1a. LongToken[m] # ShortToken[m] /\ tokenIn \in TokensOf(m)
  BY Zenon DEF SwapHop
<1>2. TypeOK /\ UiFeesMatch /\ Accounted /\ Shape
  BY DEF IInv
<1>3. tx \in Transaction /\ NothingToBook /\ Underway(leg)
  BY <1>1, <1>2 DEF ToMove, AtRest, TypeOK
<1>4. /\ legs \in [Sides -> Leg]
      /\ leg.path \in Seq(Markets) /\ leg.token \in Tokens /\ leg.amount \in Nat /\ leg.to \in Places
  BY <1>2 DEF TypeOK, Leg
<1>5. /\ m \in Markets /\ Tail(leg.path) \in Seq(Markets) /\ receiver \in Places
      /\ tokenIn \in Tokens
  <2>1. m \in Markets /\ Tail(leg.path) \in Seq(Markets)
    BY <1>1, <1>4, HeadTailProperties
  <2>2. Tail(leg.path) # <<>> => Head(Tail(leg.path)) \in Markets
    BY <2>1, HeadTailProperties
  <2> QED
    BY <1>4, <2>1, <2>2 DEF Places
<1>6. tokenOut \in Tokens
  BY <1>5, SideTokens
<1>7. /\ impact \in Int /\ tx.ui \in UiFeeReceivers
      /\ tx.prices[tokenIn] \in [min : Nat, max : Nat] /\ tx.prices[tokenOut] \in [min : Nat, max : Nat]
      /\ 0 < tx.prices[tokenIn].min /\ tx.prices[tokenIn].min <= tx.prices[tokenIn].max
      /\ 0 < tx.prices[tokenOut].min /\ tx.prices[tokenOut].min <= tx.prices[tokenOut].max
  BY <1>3, <1>5, <1>6, PricesType, MarketsAssumption DEF Transaction
<1> HIDE DEF m, tokenIn, tokenOut, receiver
<1>8. /\ fees.receiver \in Nat /\ fees.pool \in Nat /\ fees.ui \in Nat /\ fees.after \in Nat
      /\ fees.receiver + fees.pool + fees.ui + fees.after = leg.amount
  <2>1. fees = SwapFees(leg.amount, impact > 0, tx.ui) /\ (impact > 0) \in BOOLEAN
    OBVIOUS
  <2> HIDE DEF fees
  <2> QED
    BY <1>1, <1>4, <1>7, <2>1, FeesSplit
<1> HIDE DEF fees
<1>9. /\ impactIn \in Nat /\ impactOut \in Nat /\ impactOut <= swapImpactPool[m][tokenOut]
  <2> DEFINE in == tx.prices[tokenIn]
             out == tx.prices[tokenOut]
  <2>1. impact <= 0 => NegativeImpact(impact, in) \in Nat
    <3> HIDE DEF in
    <3> QED
      BY <1>2, <1>5, <1>7, ImpactTypes DEF in, TypeOK
  <2>2. impact >= 0 => /\ PositiveImpact(m, tokenOut, impact, out) \in Nat
                      /\ PositiveImpact(m, tokenOut, impact, out) <= swapImpactPool[m][tokenOut]
    <3> HIDE DEF out
    <3> QED
      BY <1>2, <1>5, <1>6, <1>7, ImpactTypes DEF out, TypeOK
  <2>3. swapImpactPool[m][tokenOut] \in Nat
    BY <1>2, <1>5, <1>6, Values
  <2> QED
    BY <1>7, <2>1, <2>2, <2>3
<1> HIDE DEF impactIn, impactOut
<1>10. amountIn \in Nat /\ leg.amount = fees.receiver + fees.pool + fees.ui + impactIn + amountIn
  <2>1. CASE impact > 0
    BY <1>4, <1>8, <2>1 DEF impactIn
  <2>2. CASE ~(impact > 0)
    <3>1. impact <= 0
      BY <1>7, <2>2
    <3>2. fees.after > impactIn
      BY <1>1, <3>1
    <3> QED
      BY <1>4, <1>8, <1>9, <3>2
  <2> QED
    BY <2>1, <2>2
<1> HIDE DEF amountIn
<1>11. poolAmountOut \in Nat /\ amountOut \in Nat /\ amountOut = poolAmountOut + impactOut
  <2>1. amountIn * tx.prices[tokenIn].min \in Nat
    BY <1>7, <1>10, TimesType
  <2>2. poolAmountOut \in Nat
    BY <1>7, <2>1, DivType DEF AmountOut
  <2> QED
    BY <1>9, <2>2
<1>11a. poolAmountOut * tx.prices[tokenOut].max <= (amountIn + fees.pool) * tx.prices[tokenIn].max
  <2> DEFINE in == tx.prices[tokenIn]
             out == tx.prices[tokenOut]
             n == amountIn * in.min
  <2>1. /\ in.min \in Nat /\ in.max \in Nat /\ in.min <= in.max
        /\ out.max \in Nat /\ out.max > 0 /\ fees.pool \in Nat
    BY <1>7, <1>8
  <2>2. poolAmountOut = n \div out.max
    BY DEF AmountOut
  <2> HIDE DEF in, out, poolAmountOut
  <2>3. n \in Nat /\ n <= (amountIn + fees.pool) * in.max
    BY <1>10, <2>1, TimesType, TimesGrows
  <2> HIDE DEF n
  <2>4. poolAmountOut * out.max <= n
    BY <2>1, <2>2, <2>3, DivAtMost
  <2>5. poolAmountOut \in Nat /\ poolAmountOut * out.max \in Nat
    BY <2>1, <2>2, <2>3, DivType, TimesType
  <2>6. (amountIn + fees.pool) * in.max \in Nat
    BY <1>10, <2>1, TimesType
  <2> QED
    BY <2>3, <2>4, <2>5, <2>6 DEF in, out
<1> HIDE DEF poolAmountOut, amountOut
<1>12. /\ swapImpactPool' \in Amount
       /\ \A k \in Markets, t \in Tokens :
            swapImpactPool'[k][t] =
              swapImpactPool[k][t] + (IF k = m THEN Of(tokenIn, impactIn)[t] - Of(tokenOut, impactOut)[t] ELSE 0)
  BY <1>1, <1>2, <1>5, <1>6, <1>9, ImpactPoolAt DEF TypeOK
<1>13. /\ claimableFee' \in Amount /\ claimableUiFee' \in Amount
       /\ uiFeeOf' \in [Markets -> [Tokens -> [UiFeeReceivers -> Nat]]]
       /\ UiFeesMatch'
       /\ \A k \in Markets, t \in Tokens :
            /\ claimableFee'[k][t] = claimableFee[k][t] + (IF k = m THEN Of(tokenIn, fees.receiver)[t] ELSE 0)
            /\ claimableUiFee'[k][t] = claimableUiFee[k][t] + (IF k = m THEN Of(tokenIn, fees.ui)[t] ELSE 0)
  <2> DEFINE fee == Of(tokenIn, fees.receiver)
             uiFee == Of(tokenIn, fees.ui)
             r == tx.ui
  <2>1. fee \in [Tokens -> Nat] /\ uiFee \in [Tokens -> Nat]
    BY <1>8, OfType
  <2>2. AccrueFees(m, fee, uiFee, r) /\ r \in UiFeeReceivers
    BY <1>1, <1>7
  <2> HIDE DEF fee, uiFee, r
  <2>3. /\ claimableFee' \in Amount /\ claimableUiFee' \in Amount
        /\ uiFeeOf' \in [Markets -> [Tokens -> [UiFeeReceivers -> Nat]]]
        /\ UiFeesMatch'
        /\ \A k \in Markets, t \in Tokens :
             /\ claimableFee'[k][t] = claimableFee[k][t] + (IF k = m THEN fee[t] ELSE 0)
             /\ claimableUiFee'[k][t] = claimableUiFee[k][t] + (IF k = m THEN uiFee[t] ELSE 0)
    BY <1>2, <1>5, <2>1, <2>2, Accrual
  <2> QED
    BY <2>3 DEF fee, uiFee
<1>14. /\ balance' \in Amount
       /\ \A k \in Markets, t \in Tokens :
            balance'[k][t] = balance[k][t] + (IF k = receiver /\ t = tokenOut THEN amountOut ELSE 0)
                                           - (IF k = m /\ t = tokenOut THEN amountOut ELSE 0)
  <2>1. CASE receiver = m
    BY <1>1, <1>2, <1>11, <2>1, Values DEF TypeOK
  <2>2. CASE receiver # m
    <3>1. m \in Places /\ CanSend(m, tokenOut, amountOut)
      BY <1>1, <1>5, <2>2 DEF Places
    <3> QED
      BY <1>1, <1>2, <1>5, <1>6, <1>11, <2>2, <3>1, TransferredAt DEF TypeOK
  <2> QED
    BY <2>1, <2>2
<1>15. new \in Leg /\ legs' \in [Sides -> Leg]
  <2>1. new \in Leg
    BY <1>4, <1>5, <1>6, <1>11 DEF Leg
  <2> QED
    BY <1>1, <1>4, <2>1
<1>16. newBooking \in Booking
  BY <1>5, <1>6, <1>8, <1>10, <1>11 DEF Booking, Places
<1>17. foreign' \in BOOLEAN
  BY <1>1 DEF RunsForeignCode
<1>18. TypeOK'
  BY <1>1, <1>2, <1>12, <1>13, <1>14, <1>15, <1>16, <1>17 DEF TypeOK
<1>19. \A k \in Markets, t \in Tokens :
         InTransit(k, t)' = InTransit(k, t) - (IF k = m /\ t = tokenIn THEN leg.amount ELSE 0)
                            + (IF k = receiver /\ t = tokenOut THEN amountOut ELSE 0)
  <2>1. \A k \in Markets, t \in Tokens :
          InTransit(k, t)' = InTransit(k, t) - Carried(legs[side], k, t) + Carried(legs'[side], k, t)
    BY <1>1, <1>4, <1>15, LegChange
  <2>2. legs'[side] = new
    BY <1>1, <1>4
  <2>3. leg.at = m /\ leg.token = tokenIn
    BY <1>1 DEF tokenIn
  <2>4. \A k \in Markets, t \in Tokens :
          /\ Carried(legs[side], k, t) = IF k = m /\ t = tokenIn THEN leg.amount ELSE 0
          /\ Carried(legs'[side], k, t) = IF k = receiver /\ t = tokenOut THEN amountOut ELSE 0
    BY <2>2, <2>3 DEF Carried
  <2> QED
    BY <2>1, <2>4
<1>20. \A k \in Markets, t \in Tokens :
         /\ Unbooked(k, t) = 0
         /\ Unbooked(k, t)' = (IF k = m /\ t = tokenIn THEN amountIn + fees.pool ELSE 0)
                               - (IF k = m /\ t = tokenOut THEN poolAmountOut ELSE 0)
  BY <1>1, <1>3 DEF Unbooked, NothingToBook
<1>21. Accounted'
  <2>1. \A t \in Tokens :
          /\ Of(tokenIn, impactIn)[t] = IF t = tokenIn THEN impactIn ELSE 0
          /\ Of(tokenOut, impactOut)[t] = IF t = tokenOut THEN impactOut ELSE 0
          /\ Of(tokenIn, fees.receiver)[t] = IF t = tokenIn THEN fees.receiver ELSE 0
          /\ Of(tokenIn, fees.ui)[t] = IF t = tokenIn THEN fees.ui ELSE 0
    BY DEF Of
  <2>2. \A k \in Markets, t \in Tokens :
          poolAmount'[k][t] = poolAmount[k][t] /\ stray'[k][t] = stray[k][t]
    BY <1>1
  <2>3. \A k \in Markets, t \in Tokens :
          balance'[k][t] - balance[k][t] =
              (poolAmount'[k][t] - poolAmount[k][t]) + (swapImpactPool'[k][t] - swapImpactPool[k][t])
            + (claimableFee'[k][t] - claimableFee[k][t]) + (claimableUiFee'[k][t] - claimableUiFee[k][t])
            + (InTransit(k, t)' - InTransit(k, t)) + (Unbooked(k, t)' - Unbooked(k, t))
            + (stray'[k][t] - stray[k][t])
    <3> TAKE k \in Markets, t \in Tokens
    <3>1. CASE k # m
      BY <1>2, <1>11, <1>12, <1>13, <1>14, <1>19, <1>20, <2>2, <3>1, Values
    <3>2. CASE k = m
      <4>1. balance'[k][t] - balance[k][t] =
              (IF k = receiver /\ t = tokenOut THEN amountOut ELSE 0) - (IF t = tokenOut THEN amountOut ELSE 0)
        BY <1>2, <1>11, <1>14, <3>2, Values
      <4>2. swapImpactPool'[k][t] - swapImpactPool[k][t] =
              (IF t = tokenIn THEN impactIn ELSE 0) - (IF t = tokenOut THEN impactOut ELSE 0)
        BY <1>2, <1>9, <1>12, <2>1, <3>2, Values
      <4>3. /\ claimableFee'[k][t] - claimableFee[k][t] = IF t = tokenIn THEN fees.receiver ELSE 0
            /\ claimableUiFee'[k][t] - claimableUiFee[k][t] = IF t = tokenIn THEN fees.ui ELSE 0
        BY <1>2, <1>8, <1>13, <2>1, <3>2, Values
      <4>4. InTransit(k, t)' - InTransit(k, t) =
              (IF k = receiver /\ t = tokenOut THEN amountOut ELSE 0) - (IF t = tokenIn THEN leg.amount ELSE 0)
        BY <1>2, <1>4, <1>11, <1>19, <3>2, Values
      <4>5. Unbooked(k, t)' - Unbooked(k, t) =
              (IF t = tokenIn THEN amountIn + fees.pool ELSE 0) - (IF t = tokenOut THEN poolAmountOut ELSE 0)
        BY <1>8, <1>10, <1>11, <1>20, <3>2
      <4>6. poolAmount'[k][t] - poolAmount[k][t] = 0 /\ stray'[k][t] - stray[k][t] = 0
        BY <1>2, <2>2, Values
      <4> DEFINE arrives == IF k = receiver /\ t = tokenOut THEN amountOut ELSE 0
                 leaves(n) == IF t = tokenOut THEN n ELSE 0
                 enters(n) == IF t = tokenIn THEN n ELSE 0
      <4>7. /\ arrives \in Nat
            /\ leaves(amountOut) \in Nat /\ leaves(impactOut) \in Nat /\ leaves(poolAmountOut) \in Nat
            /\ enters(leg.amount) \in Nat /\ enters(impactIn) \in Nat /\ enters(fees.receiver) \in Nat
            /\ enters(fees.ui) \in Nat /\ enters(amountIn + fees.pool) \in Nat
            /\ leaves(amountOut) = leaves(impactOut) + leaves(poolAmountOut)
            /\ enters(leg.amount) = enters(impactIn) + enters(fees.receiver) + enters(fees.ui)
                                     + enters(amountIn + fees.pool)
        <5>1. amountIn + fees.pool \in Nat
          BY <1>8, <1>10
        <5>2. /\ leaves(amountOut) \in Nat /\ leaves(impactOut) \in Nat /\ leaves(poolAmountOut) \in Nat
              /\ leaves(amountOut) = leaves(impactOut) + leaves(poolAmountOut)
          BY <1>9, <1>11
        <5>3. /\ enters(leg.amount) \in Nat /\ enters(impactIn) \in Nat /\ enters(fees.receiver) \in Nat
              /\ enters(fees.ui) \in Nat /\ enters(amountIn + fees.pool) \in Nat
          BY <1>4, <1>8, <1>9, <5>1
        <5>4. enters(leg.amount) = enters(impactIn) + enters(fees.receiver) + enters(fees.ui)
                                   + enters(amountIn + fees.pool)
          <6>1. CASE t = tokenIn
            BY <1>8, <1>9, <1>10, <6>1
          <6>2. CASE t # tokenIn
            BY <6>2
          <6> QED
            BY <6>1, <6>2
        <5> QED
          BY <1>11, <5>2, <5>3, <5>4
      <4>8. /\ balance'[k][t] - balance[k][t] = arrives - leaves(amountOut)
            /\ swapImpactPool'[k][t] - swapImpactPool[k][t] = enters(impactIn) - leaves(impactOut)
            /\ claimableFee'[k][t] - claimableFee[k][t] = enters(fees.receiver)
            /\ claimableUiFee'[k][t] - claimableUiFee[k][t] = enters(fees.ui)
            /\ InTransit(k, t)' - InTransit(k, t) = arrives - enters(leg.amount)
            /\ Unbooked(k, t)' - Unbooked(k, t) = enters(amountIn + fees.pool) - leaves(poolAmountOut)
        BY <4>1, <4>2, <4>3, <4>4, <4>5
      <4> HIDE DEF arrives, leaves, enters
      <4> QED
        BY <4>6, <4>7, <4>8
    <3> QED
      BY <3>1, <3>2
  <2> QED
    BY <1>2, <1>18, <2>3, AccountedStep
<1>22. Shape'
  <2>1. tx # Idle /\ tx.op # "mint"
    BY <1>1, <1>2, <1>3 DEF Shape, ToMove, AtRest
  <2>2. \A s \in Sides : legs'[s].to = legs[s].to
    BY <1>1, <1>4 DEF Leg
  <2>3. BookingFair'
    <3>1. /\ booking'.market = m /\ booking'.tokenIn = tokenIn /\ booking'.tokenOut = tokenOut
          /\ booking'.in = amountIn + fees.pool /\ booking'.out = poolAmountOut /\ tx' = tx
      BY <1>1
    <3>2. tokenOut = getOppositeToken(tokenIn, m) /\ tokenIn \in TokensOf(m) /\ LongToken[m] # ShortToken[m]
      BY <1>1a DEF m, tokenIn, tokenOut
    <3> QED
      BY <1>5, <1>11a, <2>1, <3>1, <3>2 DEF BookingFair
  <2> QED
    BY <1>1, <1>2, <2>1, <2>2, <2>3 DEF Shape
<1> QED
  BY <1>13, <1>18, <1>21, <1>22 DEF IInv

LEMMA BookInv ==
  ASSUME IInv, Book
  PROVE  IInv' /\ tx # Idle /\ HoldersKeep(tx.prices)
<1> DEFINE m == booking.market
           change(t) == Of(booking.tokenIn, booking.in)[t] + Of(booking.tokenOut, -booking.out)[t]
<1>1. /\ booking.out <= poolAmount[m][booking.tokenOut]
      /\ poolAmount' = [poolAmount EXCEPT ![m] = [t \in Tokens |-> poolAmount[m][t] + change(t)]]
      /\ booking' = NoBooking /\ foreign' = FALSE
      /\ UNCHANGED <<swapImpactPool, claimableFee, claimableUiFee, uiFeeOf>>
      /\ UNCHANGED <<balance, supply, tx, legs, stray, executions>>
  <2>1. /\ booking.out <= poolAmount[m][booking.tokenOut]
        /\ poolAmount' = Added(poolAmount, m, Both(Of(booking.tokenIn, booking.in),
                                                  Of(booking.tokenOut, -booking.out)))
        /\ booking' = NoBooking /\ foreign' = FALSE
        /\ UNCHANGED <<swapImpactPool, claimableFee, claimableUiFee, uiFeeOf>>
        /\ UNCHANGED <<balance, supply, tx, legs, stray, executions>>
    BY Zenon DEF Book
  <2> QED
    BY <2>1 DEF Added, Both
<1>0. ~NothingToBook
  BY DEF Book
<1>2. TypeOK /\ UiFeesMatch /\ Accounted /\ Shape
  BY DEF IInv
<1>3. /\ m \in Places /\ booking.tokenIn \in Tokens /\ booking.tokenOut \in Tokens
      /\ booking.in \in Nat /\ booking.out \in Nat
  BY <1>2 DEF TypeOK, Booking
<1>4. \A t \in Tokens : change(t) = (IF t = booking.tokenIn THEN booking.in ELSE 0)
                                   - (IF t = booking.tokenOut THEN booking.out ELSE 0)
  BY <1>3 DEF Of
<1> HIDE DEF change
<1>5. /\ poolAmount' \in Amount
      /\ \A k \in Markets, t \in Tokens :
           poolAmount'[k][t] = poolAmount[k][t] + (IF k = m THEN change(t) ELSE 0)
  <2>1. poolAmount \in [Markets -> [Tokens -> Nat]]
    BY <1>2 DEF TypeOK, Amount
  <2>2. m \in Markets => \A t \in Tokens : change(t) \in Int /\ poolAmount[m][t] + change(t) \in Nat
    <3> SUFFICES ASSUME m \in Markets, NEW t \in Tokens
                 PROVE  change(t) \in Int /\ poolAmount[m][t] + change(t) \in Nat
      OBVIOUS
    <3>1. poolAmount[m][t] \in Nat
      BY <2>1
    <3> QED
      BY <1>1, <1>3, <1>4, <3>1
  <2>3. CASE m \in Markets
    <3> DEFINE g == [t \in Tokens |-> poolAmount[m][t] + change(t)]
    <3>1. g \in [Tokens -> Nat] /\ \A t \in Tokens : g[t] = poolAmount[m][t] + change(t)
      BY <2>2, <2>3
    <3>2. poolAmount' = [poolAmount EXCEPT ![m] = g]
      BY <1>1
    <3> HIDE DEF g
    <3>3. \A k \in Markets : poolAmount'[k] = IF k = m THEN g ELSE poolAmount[k]
      BY <2>1, <3>2
    <3>4. poolAmount' \in Amount
      BY <2>1, <3>1, <3>2 DEF Amount
    <3>5. ASSUME NEW k \in Markets, NEW t \in Tokens
          PROVE  poolAmount'[k][t] = poolAmount[k][t] + (IF k = m THEN change(t) ELSE 0)
      <4>1. CASE k = m
        BY <3>1, <3>3, <4>1
      <4>2. CASE k # m
        BY <2>1, <3>3, <4>2
      <4> QED
        BY <4>1, <4>2
    <3> QED
      BY <3>4, <3>5
  <2>4. CASE m \notin Markets
    <3>1. poolAmount' = poolAmount
      BY <1>1, <2>1, <2>4
    <3>2. \A k \in Markets : k # m
      BY <2>4
    <3> QED
      BY <2>1, <3>1, <3>2 DEF Amount
  <2> QED
    BY <2>3, <2>4
<1>6. NoBooking \in Booking
  BY MarketsAssumption DEF NoBooking, Booking, Places
<1>7. TypeOK'
  BY <1>1, <1>2, <1>5, <1>6 DEF TypeOK
<1>8. Accounted'
  <2>1. \A k \in Markets, t \in Tokens : Unbooked(k, t)' = 0
    BY <1>1 DEF Unbooked, NoBooking
  <2>2. \A k \in Markets, t \in Tokens : Unbooked(k, t) = IF k = m THEN change(t) ELSE 0
    BY <1>3, <1>4 DEF Unbooked
  <2>3. \A k \in Markets, t \in Tokens : InTransit(k, t)' = InTransit(k, t)
    BY <1>1 DEF InTransit
  <2>4. \A k \in Markets, t \in Tokens :
          balance'[k][t] - balance[k][t] =
              (poolAmount'[k][t] - poolAmount[k][t]) + (swapImpactPool'[k][t] - swapImpactPool[k][t])
            + (claimableFee'[k][t] - claimableFee[k][t]) + (claimableUiFee'[k][t] - claimableUiFee[k][t])
            + (InTransit(k, t)' - InTransit(k, t)) + (Unbooked(k, t)' - Unbooked(k, t))
            + (stray'[k][t] - stray[k][t])
    <3> TAKE k \in Markets, t \in Tokens
    <3>1. change(t) \in Int
      BY <1>3, <1>4
    <3>2. /\ balance'[k][t] - balance[k][t] = 0 /\ stray'[k][t] - stray[k][t] = 0
          /\ swapImpactPool'[k][t] - swapImpactPool[k][t] = 0
          /\ claimableFee'[k][t] - claimableFee[k][t] = 0
          /\ claimableUiFee'[k][t] - claimableUiFee[k][t] = 0
          /\ InTransit(k, t)' - InTransit(k, t) = 0
      BY <1>1, <1>2, <2>3, Values
    <3> QED
      BY <1>2, <1>5, <2>1, <2>2, <3>1, <3>2, Values
  <2> QED
    BY <1>2, <1>7, <2>4, AccountedStep
<1>9. UiFeesMatch'
  BY <1>1, <1>2 DEF UiFeesMatch
<1>10. Shape'
  BY <1>1, <1>2 DEF Shape, Underway, NothingToBook, NoBooking
<1>11. BookingFair
  BY <1>0, <1>2 DEF Shape
<1>12. tx # Idle /\ tx.prices \in PriceSets
  BY <1>2, <1>11 DEF BookingFair, TypeOK, Transaction
<1>13. HoldersKeep(tx.prices)
  <2> SUFFICES ASSUME NEW k \in Markets PROVE HolderKeeps(k, tx.prices)
    BY DEF HoldersKeep
  <2>1. poolAmount \in Amount /\ supply \in [Markets -> Nat] /\ supply'[k] = supply[k]
    BY <1>1, <1>2 DEF TypeOK
  <2>2. CASE k # m
    <3>1. \A t \in Tokens : poolAmount'[k][t] = poolAmount[k][t]
      BY <1>5, <2>1, <2>2, AmountAt
    <3> QED
      BY <1>5, <1>12, <2>1, <3>1, UntouchedKeeps
  <2>3. CASE k = m /\ LongToken[m] # ShortToken[m]
    <3> DEFINE p == tx.prices
               l == LongToken[k]
               s == ShortToken[k]
               a == poolAmount[k][l]
               c == poolAmount[k][s]
               new == poolAmount'
               in == booking.in
               out == booking.out
               v == PoolValue(poolAmount, k, p, "max")
               v2 == PoolValue(new, k, p, "max")
    <3>1. l \in Tokens /\ s \in Tokens
      BY SideTokens
    <3>2. a \in Nat /\ c \in Nat /\ in \in Nat /\ out \in Nat
      BY <1>3, <2>1, <3>1, AmountAt
    <3>3. p[l].max \in Nat /\ p[s].max \in Nat
      BY <1>12, <3>1, PricesType
    <3>4. new \in Amount
      BY <1>5
    <3>5. /\ new[k][l] = a + change(l) /\ new[k][s] = c + change(s)
      BY <1>5, <2>3, <3>1
    <3>6. v = a * p[l].max + c * p[s].max
      BY <1>12, <2>1, <2>3, PoolValueIs
    <3>7. v2 = new[k][l] * p[l].max + new[k][s] * p[s].max
      <4> HIDE DEF new, p
      <4> QED
        BY <1>12, <2>3, <3>4, PoolValueIs DEF p
    <3>8. v2 >= v
      <4>1. CASE booking.tokenIn = l
        <5>1. booking.tokenOut = s /\ out * p[s].max <= in * p[l].max
          BY <1>11, <2>3, <4>1 DEF BookingFair, getOppositeToken
        <5>2. new[k][l] = a + in /\ new[k][s] = c - out
          BY <1>4, <2>3, <3>1, <3>2, <3>5, <4>1, <5>1
        <5> HIDE DEF p, l, s, a, c, new, in, out, v, v2
        <5>3. (a + in) * p[l].max + (c - out) * p[s].max >= a * p[l].max + c * p[s].max
          BY <3>2, <3>3, <5>1, ExchangeWorth
        <5> QED
          BY <3>6, <3>7, <5>2, <5>3
      <4>2. CASE booking.tokenIn = s
        <5>1. booking.tokenOut = l /\ out * p[l].max <= in * p[s].max
          BY <1>11, <2>3, <4>2 DEF BookingFair, getOppositeToken
        <5>2. new[k][s] = c + in /\ new[k][l] = a - out
          BY <1>4, <2>3, <3>1, <3>2, <3>5, <4>2, <5>1
        <5> HIDE DEF p, l, s, a, c, new, in, out, v, v2
        <5>3. (c + in) * p[s].max + (a - out) * p[l].max >= c * p[s].max + a * p[l].max
          BY <3>2, <3>3, <5>1, ExchangeWorth
        <5>4. /\ (c + in) * p[s].max \in Int /\ (a - out) * p[l].max \in Int
              /\ c * p[s].max \in Int /\ a * p[l].max \in Int
          BY <3>2, <3>3, TimesSum
        <5> QED
          BY <3>6, <3>7, <5>2, <5>3, <5>4
      <4> QED
        BY <1>11, <2>3, <4>1, <4>2 DEF BookingFair, TokensOf
    <3>9. v \in Nat /\ v2 \in Nat /\ supply[k] \in Nat
      <4> HIDE DEF new, p
      <4> QED
        BY <1>12, <2>1, <3>4, PoolValueType DEF p
    <3> HIDE DEF v, v2
    <3>10. v * supply[k] <= v2 * supply[k] /\ v * supply[k] \in Int /\ v2 * supply[k] \in Int
      BY <3>8, <3>9, TimesUp, TimesSum
    <3> QED
      BY <2>1, <3>10 DEF HolderKeeps, v, v2
  <2>4. CASE k = m /\ LongToken[m] = ShortToken[m]
    BY <2>4 DEF HolderKeeps
  <2> QED
    BY <2>2, <2>3, <2>4
<1> QED
  BY <1>7, <1>8, <1>9, <1>10, <1>12, <1>13 DEF IInv

(* A step that leaves every amount where it is.                             *)
LEMMA NoMoneyInv ==
  ASSUME IInv, UNCHANGED <<books, balance, supply, stray, executions>>, booking' = booking,
         tx' \in Transaction \/ tx' = Idle, foreign' \in BOOLEAN,
         legs' \in [Sides -> Leg], Shape',
         \A k \in Markets, t \in Tokens : InTransit(k, t)' = InTransit(k, t)
  PROVE  IInv'
<1>1. /\ UNCHANGED <<poolAmount, swapImpactPool, claimableFee, claimableUiFee, uiFeeOf>>
      /\ UNCHANGED <<balance, supply, stray, executions>>
  BY DEF books
<1>2. TypeOK'
  BY <1>1 DEF IInv, TypeOK
<1>3. UiFeesMatch'
  BY <1>1 DEF IInv, UiFeesMatch
<1>4. Accounted'
  BY <1>1 DEF IInv, Accounted, getExpectedMinTokenBalance, Unbooked
<1> QED
  BY <1>2, <1>3, <1>4 DEF IInv

LEMMA PriceDepositInv ==
  ASSUME IInv, NEW impact \in Impacts, PriceDeposit(impact)
  PROVE  IInv'
<1> DEFINE usd == [s \in Sides |-> legs[s].amount * midPrice(tx.prices[legs[s].token])]
           split == [s \in Sides |-> SignedMulDiv(impact, usd[s], usd["long"] + usd["short"])]
<1>1. /\ Arrived /\ tx.op = "deposit" /\ usd["long"] + usd["short"] > 0
      /\ tx' = [tx EXCEPT !.op = "mint", !.impact = split]
      /\ UNCHANGED <<books, balance, supply, legs, booking, foreign, stray, executions>>
  BY Zenon DEF PriceDeposit
<1>1a. \A s \in Sides : legs[s].token = SideToken(tx.market, s)
  BY Zenon DEF PriceDeposit
<1>2. TypeOK /\ Shape /\ tx \in Transaction
  BY <1>1 DEF IInv, TypeOK, Arrived, AtRest
<1>3. \A s \in Sides : legs[s].amount \in Nat /\ legs[s].token \in Tokens
  BY <1>2 DEF TypeOK, Leg
<1>4. \A s \in Sides : usd[s] \in Nat
  <2> SUFFICES ASSUME NEW s \in Sides PROVE usd[s] \in Nat
    OBVIOUS
  <2> DEFINE price == tx.prices[legs[s].token]
  <2>1. price.min \in Nat /\ price.max \in Nat
    BY <1>2, <1>3, PricesType DEF Transaction
  <2> HIDE DEF price
  <2>2. midPrice(price) \in Nat
    BY <2>1, DivType DEF midPrice
  <2>3. legs[s].amount * midPrice(price) \in Nat
    BY <1>3, <2>2, TimesType
  <2> QED
    BY <2>3 DEF price
<1> HIDE DEF usd
<1>5. split \in [Sides -> Int]
  <2>1. impact \in Int /\ usd["long"] + usd["short"] \in Nat
    BY <1>4, MarketsAssumption DEF Sides
  <2> SUFFICES ASSUME NEW s \in Sides PROVE SignedMulDiv(impact, usd[s], usd["long"] + usd["short"]) \in Int
    OBVIOUS
  <2>2. impact < 0 => -impact \in Nat
    BY <2>1
  <2>3. impact < 0 => MulDiv(-impact, usd[s], usd["long"] + usd["short"]) \in Nat
    BY <1>1, <1>4, <2>1, <2>2, MulDivType
  <2>4. ~(impact < 0) => MulDiv(impact, usd[s], usd["long"] + usd["short"]) \in Nat
    <3>1. ~(impact < 0) => impact \in Nat
      BY <2>1
    <3> QED
      BY <1>1, <1>4, <2>1, <3>1, MulDivType
  <2> QED
    BY <2>1, <2>3, <2>4 DEF SignedMulDiv
<1> HIDE DEF split
<1>6. tx' \in Transaction /\ tx'.op = "mint" /\ tx'.market = tx.market
  BY <1>1, <1>2, <1>5 DEF Transaction
<1>7. Shape'
  <2>1. \A s \in Sides : legs'[s].to = tx'.market /\ ~Underway(legs'[s])
    BY <1>1, <1>2, <1>6 DEF Shape, Arrived
  <2>2. tx' # Idle
    BY <1>6 DEF Idle
  <2>3. NothingToBook'
    BY <1>1 DEF Arrived, NothingToBook
  <2>4. \A s \in Sides : legs'[s].token = SideToken(tx'.market, s)
    BY <1>1, <1>1a, <1>6
  <2> QED
    BY <1>6, <2>1, <2>2, <2>3, <2>4 DEF Shape
<1>8. \A k \in Markets, t \in Tokens : InTransit(k, t)' = InTransit(k, t)
  BY <1>1 DEF InTransit
<1> QED
  BY <1>1, <1>2, <1>6, <1>7, <1>8, NoMoneyInv DEF TypeOK

(* What has arrived of a swap or a withdrawal is outside, and of a deposit  *)
(* nothing is left once it is minted for.                                   *)
LEMMA FinishInv ==
  ASSUME IInv, Finish
  PROVE  IInv'
<1>1. /\ Arrived /\ tx.op # "deposit" /\ (tx.op = "mint" => \A s \in Sides : legs[s].amount = 0)
      /\ tx' = Idle /\ legs' = NoLegs /\ foreign' = FALSE
      /\ UNCHANGED <<books, balance, supply, booking, stray, executions>>
  BY DEF Finish
<1>2. TypeOK /\ Shape /\ tx \in Transaction
  BY <1>1 DEF IInv, TypeOK, Arrived, AtRest
<1>3. \A s \in Sides : legs[s].at = Outside \/ legs[s].amount = 0
  <2> SUFFICES ASSUME NEW s \in Sides, tx.op \in {"swap", "withdraw"}
               PROVE  legs[s].at = Outside \/ legs[s].amount = 0
    BY <1>1, <1>2 DEF Transaction
  <2>1. legs[s].to = Outside /\ ~Underway(legs[s]) /\ legs[s].amount \in Nat
    BY <1>1, <1>2 DEF Shape, Arrived, TypeOK, Leg
  <2> QED
    BY <2>1 DEF Underway
<1>4. \A k \in Markets, t \in Tokens : InTransit(k, t) = 0
  BY <1>2, <1>3, NothingCarried DEF TypeOK
<1>5. \A k \in Markets, t \in Tokens : InTransit(k, t)' = 0
  <2>1. \A k \in Markets, t \in Tokens, s \in Sides : Carried(legs'[s], k, t) = 0
    BY <1>1, MarketsAssumption DEF Carried, NoLegs, NoLeg
  <2>2. legs' \in [Sides -> Leg]
    BY <1>1, NoLegsType
  <2> QED
    BY <2>1, <2>2, InTransitNext DEF Sides
<1>6. Shape'
  BY <1>1 DEF Shape, Idle, Arrived, NothingToBook
<1> QED
  BY <1>1, <1>4, <1>5, <1>6, NoLegsType, NoMoneyInv

(* What a mint adds to the supply is a number: a pool that is worth nothing *)
(* has no tokens.                                                           *)
LEMMA MintedType ==
  ASSUME TypeOK, tx \in Transaction, NEW m \in Markets, NEW t \in Tokens, NEW n \in Nat,
         NEW bound \in {"min", "max"},
         PoolValue(poolAmount, m, tx.prices, "max") = 0 => supply[m] = 0
  PROVE  usdToMarketTokenAmount(n * tx.prices[t][bound],
                                PoolValue(poolAmount, m, tx.prices, "max"), supply[m]) \in Nat
<1> DEFINE value == PoolValue(poolAmount, m, tx.prices, "max")
           price == tx.prices[t][bound]
<1>1. tx.prices \in PriceSets
  BY DEF Transaction
<1>2. value \in Nat /\ price \in Nat
  BY <1>1, PoolValueType, PricesType DEF TypeOK
<1>3. supply[m] \in Nat /\ (value = 0 => supply[m] = 0)
  BY DEF TypeOK
<1> HIDE DEF value, price
<1>4. n * price \in Nat
  BY <1>2, TimesType
<1>5. usdToMarketTokenAmount(n * price, value, supply[m]) \in Nat
  BY <1>2, <1>3, <1>4, MarketTokensType
<1> QED
  BY <1>5 DEF value, price

(* A mint books what has arrived for one side, all of it, and moves a bonus *)
(* from the impact pool to the pool.                                        *)
LEMMA MintInv ==
  ASSUME IInv, NEW side \in Sides, Mint(side)
  PROVE  IInv' /\ tx # Idle /\ HoldersKeep(tx.prices)
<1> DEFINE leg == legs[side]
           m == tx.market
           p == tx.prices
           tokenIn == leg.token
           tokenOut == SideToken(m, IF side = "long" THEN "short" ELSE "long")
           fees == SwapFees(leg.amount, tx.impact[side] > 0, tx.ui)
           impact == IF tx.impact[side] > 0 /\ supply[m] = 0 THEN 0 ELSE tx.impact[side]
           poolValue == PoolValue(poolAmount, m, p, "max")
           bonus == IF impact > 0 THEN PositiveImpact(m, tokenOut, impact, p[tokenOut]) ELSE 0
           penalty == IF impact < 0 THEN NegativeImpact(impact, p[tokenIn]) ELSE 0
           after == fees.after - penalty
           given == IF impact > 0 THEN usdToMarketTokenAmount(bonus * p[tokenOut].max, poolValue, supply[m])
                    ELSE 0
           minted == usdToMarketTokenAmount(after * p[tokenIn].min, poolValue, supply[m])
<1>1. /\ tx # Idle /\ tx.op = "mint" /\ leg.amount > 0
      /\ Payable(fees) /\ after >= 0
      /\ poolValue = 0 => supply[m] = 0
      /\ AccrueFees(m, Of(tokenIn, fees.receiver), Of(tokenIn, fees.ui), tx.ui)
      /\ swapImpactPool' = ImpactPool(m, tokenIn, penalty, tokenOut, bonus)
      /\ poolAmount' = Added(poolAmount, m, Both(Of(tokenIn, after + fees.pool), Of(tokenOut, bonus)))
      /\ supply' = [supply EXCEPT ![m] = supply[m] + given + minted]
      /\ legs' = [legs EXCEPT ![side].amount = 0]
      /\ UNCHANGED <<balance, tx, booking, foreign, stray, executions>>
  BY Zenon DEF Mint, AtRest
<1>2. TypeOK /\ UiFeesMatch /\ Accounted /\ Shape
  BY DEF IInv
<1>3. tx \in Transaction /\ m \in Markets /\ p \in PriceSets /\ tx.ui \in UiFeeReceivers
      /\ tx.impact[side] \in Int
  BY <1>1, <1>2 DEF TypeOK, Transaction
<1>4. legs \in [Sides -> Leg] /\ leg \in Leg /\ leg.amount \in Nat /\ tokenIn \in Tokens
  BY <1>2 DEF TypeOK, Leg
<1>5. leg.at = m /\ leg.path = <<>>
  BY <1>1, <1>2, <1>4 DEF Shape, Underway
<1>6. tokenOut \in Tokens
  BY <1>3, SideTokens DEF Sides
<1>7. /\ p[tokenIn] \in [min : Nat, max : Nat] /\ p[tokenOut] \in [min : Nat, max : Nat]
      /\ 0 < p[tokenIn].min /\ p[tokenIn].min <= p[tokenIn].max
      /\ 0 < p[tokenOut].min /\ p[tokenOut].min <= p[tokenOut].max
  BY <1>3, <1>4, <1>6, PricesType
<1>8. impact \in Int
  BY <1>3
<1> HIDE DEF m, p, tokenIn, tokenOut
<1>9. /\ fees.receiver \in Nat /\ fees.pool \in Nat /\ fees.ui \in Nat /\ fees.after \in Nat
      /\ fees.receiver + fees.pool + fees.ui + fees.after = leg.amount
  <2> DEFINE positive == tx.impact[side] > 0
  <2>1. fees = SwapFees(leg.amount, positive, tx.ui) /\ positive \in BOOLEAN
    OBVIOUS
  <2> HIDE DEF fees, positive
  <2> QED
    BY <1>1, <1>3, <1>4, <2>1, FeesSplit
<1> HIDE DEF fees, impact
<1>10. /\ bonus \in Nat /\ bonus <= swapImpactPool[m][tokenOut] /\ penalty \in Nat
  <2> DEFINE in == p[tokenIn]
             out == p[tokenOut]
  <2>1. impact <= 0 => NegativeImpact(impact, in) \in Nat
    <3> HIDE DEF in
    <3> QED
      BY <1>2, <1>3, <1>4, <1>7, <1>8, ImpactTypes DEF in, m, TypeOK
  <2>2. impact >= 0 => /\ PositiveImpact(m, tokenOut, impact, out) \in Nat
                      /\ PositiveImpact(m, tokenOut, impact, out) <= swapImpactPool[m][tokenOut]
    <3> HIDE DEF out
    <3> QED
      BY <1>2, <1>3, <1>6, <1>7, <1>8, ImpactTypes DEF out, m, TypeOK
  <2>3. swapImpactPool[m][tokenOut] \in Nat
    BY <1>2, <1>3, <1>6, Values DEF m
  <2> QED
    BY <1>8, <2>1, <2>2, <2>3
<1> HIDE DEF bonus, penalty
<1>11. after \in Nat /\ leg.amount = fees.receiver + fees.ui + penalty + (after + fees.pool)
  BY <1>1, <1>4, <1>9, <1>10
<1> HIDE DEF after
<1>12. m \in Markets
  BY <1>3 DEF m
<1>13. /\ swapImpactPool' \in Amount
       /\ \A k \in Markets, t \in Tokens :
            swapImpactPool'[k][t] =
              swapImpactPool[k][t] + (IF k = m THEN Of(tokenIn, penalty)[t] - Of(tokenOut, bonus)[t] ELSE 0)
  BY <1>1, <1>2, <1>4, <1>6, <1>10, <1>12, ImpactPoolAt DEF TypeOK, tokenIn
<1>14. /\ claimableFee' \in Amount /\ claimableUiFee' \in Amount
       /\ uiFeeOf' \in [Markets -> [Tokens -> [UiFeeReceivers -> Nat]]]
       /\ UiFeesMatch'
       /\ \A k \in Markets, t \in Tokens :
            /\ claimableFee'[k][t] = claimableFee[k][t] + (IF k = m THEN Of(tokenIn, fees.receiver)[t] ELSE 0)
            /\ claimableUiFee'[k][t] = claimableUiFee[k][t] + (IF k = m THEN Of(tokenIn, fees.ui)[t] ELSE 0)
  <2> DEFINE fee == Of(tokenIn, fees.receiver)
             uiFee == Of(tokenIn, fees.ui)
             r == tx.ui
  <2>1. fee \in [Tokens -> Nat] /\ uiFee \in [Tokens -> Nat]
    BY <1>9, OfType
  <2>2. AccrueFees(m, fee, uiFee, r) /\ r \in UiFeeReceivers
    BY <1>1, <1>3
  <2> HIDE DEF fee, uiFee, r
  <2>3. /\ claimableFee' \in Amount /\ claimableUiFee' \in Amount
        /\ uiFeeOf' \in [Markets -> [Tokens -> [UiFeeReceivers -> Nat]]]
        /\ UiFeesMatch'
        /\ \A k \in Markets, t \in Tokens :
             /\ claimableFee'[k][t] = claimableFee[k][t] + (IF k = m THEN fee[t] ELSE 0)
             /\ claimableUiFee'[k][t] = claimableUiFee[k][t] + (IF k = m THEN uiFee[t] ELSE 0)
    BY <1>2, <1>12, <2>1, <2>2, Accrual
  <2> QED
    BY <2>3 DEF fee, uiFee
<1>15. /\ poolAmount' \in Amount
       /\ \A k \in Markets, t \in Tokens :
            poolAmount'[k][t] =
              poolAmount[k][t]
              + (IF k = m THEN (IF t = tokenIn THEN after + fees.pool ELSE 0)
                               + (IF t = tokenOut THEN bonus ELSE 0) ELSE 0)
  <2> DEFINE a == Both(Of(tokenIn, after + fees.pool), Of(tokenOut, bonus))
  <2>1. after + fees.pool \in Nat
    BY <1>9, <1>11
  <2>2. \A t \in Tokens : a[t] = (IF t = tokenIn THEN after + fees.pool ELSE 0)
                                 + (IF t = tokenOut THEN bonus ELSE 0)
    BY DEF Both, Of
  <2>3. a = [t \in Tokens |-> a[t]]
    BY DEF Both
  <2>4. poolAmount' = Added(poolAmount, m, a) /\ poolAmount \in Amount
    BY <1>1, <1>2 DEF TypeOK
  <2> HIDE DEF a
  <2>5. a \in [Tokens -> Nat]
    BY <1>10, <2>1, <2>2, <2>3
  <2> QED
    BY <1>12, <2>2, <2>4, <2>5, AddedAt
<1>16. supply' \in [Markets -> Nat]
  <2>1. PoolValue(poolAmount, m, tx.prices, "max") = 0 => supply[m] = 0
    BY <1>1 DEF p
  <2>2. minted \in Nat
    BY <1>2, <1>3, <1>4, <1>11, <1>12, <2>1, MintedType DEF p, tokenIn
  <2>3. given \in Nat
    BY <1>2, <1>3, <1>6, <1>10, <1>12, <2>1, MintedType DEF p
  <2>4. supply \in [Markets -> Nat]
    BY <1>2 DEF TypeOK
  <2> HIDE DEF minted, given
  <2> QED
    BY <1>1, <1>12, <2>2, <2>3, <2>4
<1>16a. \A k \in Markets : k = m /\ LongToken[k] # ShortToken[k] /\ supply[k] > 0 => HolderKeeps(k, p)
  <2> SUFFICES ASSUME LongToken[m] # ShortToken[m], supply[m] > 0 PROVE HolderKeeps(m, p)
    BY <1>12
  <2> DEFINE new == poolAmount'
             v2 == PoolValue(new, m, p, "max")
             x == after + fees.pool
             u == bonus * p[tokenOut].max
             w == after * p[tokenIn].min
             l == LongToken[m]
             sh == ShortToken[m]
             price(t) == p[t].max
  <2>1. /\ new \in Amount /\ poolAmount \in Amount /\ p \in PriceSets /\ supply[m] \in Nat
    BY <1>2, <1>3, <1>12, <1>15 DEF TypeOK, p
  <2>2. poolValue \in Nat /\ v2 \in Nat
    <3> HIDE DEF new, p
    <3> QED
      BY <1>12, <2>1, PoolValueType
  <2>3. poolValue > 0 /\ x \in Nat
    BY <1>1, <1>9, <1>11, <2>1, <2>2
  <2>4. (tokenIn = l /\ tokenOut = sh) \/ (tokenIn = sh /\ tokenOut = l)
    <3>1. tokenIn = SideToken(m, side)
      BY <1>1, <1>2 DEF Shape, tokenIn, m
    <3>2. side = "long" \/ side = "short"
      BY DEF Sides
    <3> QED
      BY <3>1, <3>2 DEF SideToken, tokenOut
  <2>5. u \in Nat /\ w \in Nat /\ x * p[tokenIn].max \in Nat
    BY <1>7, <1>10, <1>11, <2>3, TimesType
  <2>6. w <= x * p[tokenIn].max
    BY <1>7, <1>9, <1>11, TimesGrows
  <2>7. v2 = poolValue + x * p[tokenIn].max + u
    <3>1. poolValue = poolAmount[m][l] * price(l) + poolAmount[m][sh] * price(sh)
      BY <1>12, <2>1, PoolValueIs
    <3>2. v2 = new[m][l] * price(l) + new[m][sh] * price(sh)
      <4> HIDE DEF new, p
      <4> QED
        BY <1>12, <2>1, PoolValueIs
    <3>3. poolAmount[m][l] \in Nat /\ poolAmount[m][sh] \in Nat
      BY <1>12, <2>1, SideTokens, AmountAt
    <3>4. price(l) \in Nat /\ price(sh) \in Nat
      BY <1>7, <2>4
    <3>5. CASE tokenIn = l /\ tokenOut = sh
      <4>1. new[m][l] = poolAmount[m][l] + x /\ new[m][sh] = poolAmount[m][sh] + bonus
        BY <1>4, <1>6, <1>10, <1>12, <1>15, <2>3, <3>3, <3>5
      <4>2. u = bonus * price(sh) /\ x * p[tokenIn].max = x * price(l)
        BY <3>5
      <4> HIDE DEF v2, new, x, u, l, sh, price, poolValue
      <4>3. /\ (poolAmount[m][l] + x) * price(l) = poolAmount[m][l] * price(l) + x * price(l)
            /\ poolAmount[m][l] * price(l) \in Int /\ x * price(l) \in Int
        BY <2>3, <3>3, <3>4, TimesSum
      <4>4. /\ (poolAmount[m][sh] + bonus) * price(sh) = poolAmount[m][sh] * price(sh) + bonus * price(sh)
            /\ poolAmount[m][sh] * price(sh) \in Int /\ bonus * price(sh) \in Int
        BY <1>10, <3>3, <3>4, TimesSum
      <4> QED
        BY <3>1, <3>2, <4>1, <4>2, <4>3, <4>4
    <3>6. CASE tokenIn = sh /\ tokenOut = l
      <4>1. new[m][sh] = poolAmount[m][sh] + x /\ new[m][l] = poolAmount[m][l] + bonus
        BY <1>4, <1>6, <1>10, <1>12, <1>15, <2>3, <3>3, <3>6
      <4>2. u = bonus * price(l) /\ x * p[tokenIn].max = x * price(sh)
        BY <3>6
      <4> HIDE DEF v2, new, x, u, l, sh, price, poolValue
      <4>3. /\ (poolAmount[m][sh] + x) * price(sh) = poolAmount[m][sh] * price(sh) + x * price(sh)
            /\ poolAmount[m][sh] * price(sh) \in Int /\ x * price(sh) \in Int
        BY <2>3, <3>3, <3>4, TimesSum
      <4>4. /\ (poolAmount[m][l] + bonus) * price(l) = poolAmount[m][l] * price(l) + bonus * price(l)
            /\ poolAmount[m][l] * price(l) \in Int /\ bonus * price(l) \in Int
        BY <1>10, <3>3, <3>4, TimesSum
      <4> QED
        BY <3>1, <3>2, <4>1, <4>2, <4>3, <4>4
    <3> QED
      BY <2>4, <3>5, <3>6
  <2>8. given \in Nat /\ given * poolValue <= supply[m] * u
    <3>1. CASE impact > 0
      <4>1. given = MulDiv(supply[m], u, poolValue)
        BY <3>1 DEF usdToMarketTokenAmount
      <4> HIDE DEF given, u, poolValue
      <4>2. supply[m] * u \in Nat
        BY <2>1, <2>5, TimesType
      <4> QED
        BY <2>2, <2>3, <4>1, <4>2, DivType, DivAtMost DEF MulDiv
    <3>2. CASE ~(impact > 0)
      <4>1. given = 0
        BY <3>2
      <4> HIDE DEF given, u, poolValue
      <4>2. supply[m] * u \in Nat /\ 0 * poolValue = 0
        BY <2>1, <2>2, <2>5, TimesType
      <4> QED
        BY <4>1, <4>2
    <3> QED
      BY <3>1, <3>2
  <2>9. minted \in Nat /\ minted * poolValue <= supply[m] * w
    <3>1. minted = MulDiv(supply[m], w, poolValue)
      BY DEF usdToMarketTokenAmount
    <3> HIDE DEF minted, w, poolValue
    <3>2. supply[m] * w \in Nat
      BY <2>1, <2>5, TimesType
    <3> QED
      BY <2>2, <2>3, <3>1, <3>2, DivType, DivAtMost DEF MulDiv
  <2>10. supply'[m] = supply[m] + given + minted
    <3>1. supply \in [Markets -> Nat]
      BY <1>2 DEF TypeOK
    <3> HIDE DEF given, minted
    <3> QED
      BY <1>1, <1>12, <3>1
  <2> HIDE DEF v2, new, u, w, x, given, minted, poolValue
  <2>11. poolValue + u + w <= v2
    BY <2>2, <2>5, <2>6, <2>7
  <2>12. v2 * supply[m] >= poolValue * (supply[m] + given + minted)
    BY <2>1, <2>2, <2>5, <2>8, <2>9, <2>11, MintWorth
  <2> QED
    BY <2>10, <2>12 DEF HolderKeeps, v2, new, poolValue
<1>16b. HoldersKeep(p)
  <2> SUFFICES ASSUME NEW k \in Markets PROVE HolderKeeps(k, p)
    BY DEF HoldersKeep
  <2>1. CASE k = m
    BY <1>16a, <2>1 DEF HolderKeeps
  <2>2. CASE k # m
    <3>1. supply \in [Markets -> Nat] /\ poolAmount \in Amount /\ p \in PriceSets
      BY <1>2, <1>3 DEF TypeOK, p
    <3>2. supply'[k] = supply[k]
      <4> HIDE DEF given, minted
      <4> QED
        BY <1>1, <2>2, <3>1
    <3>3. \A t \in Tokens : poolAmount'[k][t] = poolAmount[k][t]
      BY <1>15, <2>2, <3>1, AmountAt
    <3> QED
      BY <1>15, <3>1, <3>2, <3>3, UntouchedKeeps
  <2> QED
    BY <2>1, <2>2
<1> HIDE DEF minted, given, poolValue
<1>17. legs' \in [Sides -> Leg]
  BY <1>1, <1>4 DEF Leg
<1>18. TypeOK'
  BY <1>1, <1>2, <1>13, <1>14, <1>15, <1>16, <1>17 DEF TypeOK
<1>19. \A k \in Markets, t \in Tokens :
         InTransit(k, t)' = InTransit(k, t) - (IF k = m /\ t = tokenIn THEN leg.amount ELSE 0)
  <2>1. \A k \in Markets, t \in Tokens :
          InTransit(k, t)' = InTransit(k, t) - Carried(legs[side], k, t) + Carried(legs'[side], k, t)
    BY <1>1, <1>4, <1>17, LegChange
  <2>2. legs'[side].amount = 0
    BY <1>1, <1>4 DEF Leg
  <2>3. \A k \in Markets, t \in Tokens :
          /\ Carried(legs[side], k, t) = IF k = m /\ t = tokenIn THEN leg.amount ELSE 0
          /\ Carried(legs'[side], k, t) = 0
    BY <1>5, <2>2 DEF Carried, tokenIn, m
  <2> QED
    BY <1>2, <1>4, <2>1, <2>3, Values
<1>20. Accounted'
  <2>1. \A t \in Tokens :
          /\ Of(tokenIn, penalty)[t] = IF t = tokenIn THEN penalty ELSE 0
          /\ Of(tokenOut, bonus)[t] = IF t = tokenOut THEN bonus ELSE 0
          /\ Of(tokenIn, fees.receiver)[t] = IF t = tokenIn THEN fees.receiver ELSE 0
          /\ Of(tokenIn, fees.ui)[t] = IF t = tokenIn THEN fees.ui ELSE 0
    BY DEF Of
  <2>2. \A k \in Markets, t \in Tokens :
          balance'[k][t] = balance[k][t] /\ stray'[k][t] = stray[k][t] /\ Unbooked(k, t)' = Unbooked(k, t)
    BY <1>1 DEF Unbooked
  <2>3. \A k \in Markets, t \in Tokens :
          balance'[k][t] - balance[k][t] =
              (poolAmount'[k][t] - poolAmount[k][t]) + (swapImpactPool'[k][t] - swapImpactPool[k][t])
            + (claimableFee'[k][t] - claimableFee[k][t]) + (claimableUiFee'[k][t] - claimableUiFee[k][t])
            + (InTransit(k, t)' - InTransit(k, t)) + (Unbooked(k, t)' - Unbooked(k, t))
            + (stray'[k][t] - stray[k][t])
    <3> TAKE k \in Markets, t \in Tokens
    <3>1. CASE k # m
      BY <1>2, <1>13, <1>14, <1>15, <1>19, <2>2, <3>1, Values
    <3>2. CASE k = m
      <4> DEFINE enters(n) == IF t = tokenIn THEN n ELSE 0
                 given2 == IF t = tokenOut THEN bonus ELSE 0
      <4>1. /\ enters(leg.amount) \in Nat /\ enters(penalty) \in Nat /\ enters(fees.receiver) \in Nat
            /\ enters(fees.ui) \in Nat /\ enters(after + fees.pool) \in Nat /\ given2 \in Nat
            /\ enters(leg.amount) = enters(penalty) + enters(fees.receiver) + enters(fees.ui)
                                     + enters(after + fees.pool)
        <5>1. after + fees.pool \in Nat
          BY <1>9, <1>11
        <5>2. CASE t = tokenIn
          BY <1>4, <1>9, <1>10, <1>11, <5>1, <5>2
        <5>3. CASE t # tokenIn
          BY <1>10, <5>3
        <5> QED
          BY <5>2, <5>3
      <4>2. /\ balance'[k][t] - balance[k][t] = 0 /\ stray'[k][t] - stray[k][t] = 0
            /\ Unbooked(k, t)' - Unbooked(k, t) = 0
        BY <1>2, <2>2, Values
      <4>3. swapImpactPool'[k][t] - swapImpactPool[k][t] = enters(penalty) - given2
        BY <1>2, <1>10, <1>13, <2>1, <3>2, Values
      <4>4. /\ claimableFee'[k][t] - claimableFee[k][t] = enters(fees.receiver)
            /\ claimableUiFee'[k][t] - claimableUiFee[k][t] = enters(fees.ui)
        BY <1>2, <1>9, <1>14, <2>1, <3>2, Values
      <4>5. poolAmount'[k][t] - poolAmount[k][t] = enters(after + fees.pool) + given2
        <5>1. poolAmount'[k][t] = poolAmount[k][t] + (enters(after + fees.pool) + given2)
          BY <1>15, <3>2
        <5>2. poolAmount[k][t] \in Nat
          BY <1>2, Values
        <5> HIDE DEF enters, given2
        <5> QED
          BY <4>1, <5>1, <5>2
      <4>6. InTransit(k, t)' - InTransit(k, t) = 0 - enters(leg.amount)
        BY <1>2, <1>4, <1>19, <3>2, Values
      <4> HIDE DEF enters, given2
      <4> QED
        BY <4>1, <4>2, <4>3, <4>4, <4>5, <4>6
    <3> QED
      BY <3>1, <3>2
  <2> QED
    BY <1>2, <1>18, <2>3, AccountedStep
<1>21. Shape'
  <2>1. \A s \in Sides : legs'[s].to = legs[s].to /\ ~Underway(legs'[s])
    <3> SUFFICES ASSUME NEW s \in Sides PROVE legs'[s].to = legs[s].to /\ ~Underway(legs'[s])
      OBVIOUS
    <3>1. CASE s = side
      BY <1>1, <1>4, <3>1 DEF Leg, Underway
    <3>2. CASE s # side
      BY <1>1, <1>2, <1>4, <3>2 DEF Shape
    <3> QED
      BY <3>1, <3>2
  <2>2. \A s \in Sides : legs'[s].token = legs[s].token
    BY <1>1, <1>4 DEF Leg
  <2>3. ~NothingToBook' => BookingFair'
    BY <1>1, <1>2, BookingStays
  <2> QED
    BY <1>1, <1>2, <2>1, <2>2, <2>3 DEF Shape, Idle
<1>22. HoldersKeep(tx.prices)
  BY <1>16b DEF p
<1> QED
  BY <1>1, <1>14, <1>18, <1>20, <1>21, <1>22 DEF IInv

-----------------------------------------------------------------------------
(* The claims, of which one may happen in the middle of an execution, and   *)
(* what strangers send.                                                     *)
LEMMA PaidOut ==
  ASSUME TypeOK, NEW m \in Markets, NEW t \in Tokens, NEW n \in Nat, CanSend(m, t, n),
         balance' = Transferred(m, Outside, t, n)
  PROVE  /\ balance' \in Amount
         /\ \A k \in Markets, u \in Tokens :
              balance'[k][u] = balance[k][u] - (IF k = m /\ u = t THEN n ELSE 0)
<1>1. m \in Places /\ Outside \in Places
  BY DEF Places
<1>2. /\ balance' \in Amount
      /\ \A k \in Markets, u \in Tokens :
           balance'[k][u] = balance[k][u] + (IF k = Outside /\ u = t THEN n ELSE 0)
                                          - (IF k = m /\ u = t THEN n ELSE 0)
  BY <1>1, TransferredAt DEF TypeOK
<1>3. \A k \in Markets : k # Outside
  BY MarketsAssumption
<1> QED
  BY <1>2, <1>3, Values

LEMMA ClaimUiFeesInv ==
  ASSUME IInv, NEW m \in Markets, NEW t \in Tokens, NEW r \in UiFeeReceivers, ClaimUiFees(m, t, r)
  PROVE  IInv'
<1> DEFINE n == uiFeeOf[m][t][r]
           left == claimableUiFee[m][t] - n
<1>1. /\ CanSend(m, t, n)
      /\ uiFeeOf' = [uiFeeOf EXCEPT ![m][t][r] = 0]
      /\ claimableUiFee' = [claimableUiFee EXCEPT ![m][t] = left]
      /\ balance' = Transferred(m, Outside, t, n)
      /\ UNCHANGED <<poolAmount, swapImpactPool, claimableFee, supply, tx, legs, booking, foreign>>
      /\ UNCHANGED <<stray, executions>>
  BY DEF ClaimUiFees, execution
<1>2. TypeOK /\ UiFeesMatch /\ Accounted /\ Shape
  BY DEF IInv
<1>3. uiFeeOf \in [Markets -> [Tokens -> [UiFeeReceivers -> Nat]]] /\ n \in Nat
  BY <1>2 DEF TypeOK
<1>4. uiFeeOf' \in [Markets -> [Tokens -> [UiFeeReceivers -> Nat]]]
  BY <1>1, <1>3
<1>5. Total(uiFeeOf'[m][t]) = left /\ left \in Nat
  <2> DEFINE f == uiFeeOf[m][t]
             g == uiFeeOf'[m][t]
  <2>1. f \in [UiFeeReceivers -> Nat] /\ g \in [UiFeeReceivers -> Nat]
    BY <1>3, <1>4
  <2>2. g = [f EXCEPT ![r] = 0] /\ f[r] = n
    BY <1>1, <1>3
  <2>3. claimableUiFee[m][t] = Total(f)
    BY <1>2 DEF UiFeesMatch
  <2> HIDE DEF f, g
  <2>4. IsFiniteSet(UiFeeReceivers)
    BY MarketsAssumption
  <2>5. (\A j \in UiFeeReceivers \ {r} : g[j] = f[j]) /\ g[r] = 0
    BY <2>1, <2>2
  <2>6. Total(g) = Total(f) - f[r] + g[r]
    BY <2>1, <2>4, <2>5, TotalUpdate
  <2>7. Total(f) \in Nat /\ Total(g) \in Nat
    BY <2>1, <2>4, UnitsFinite
  <2>8. Total(g) = left
    BY <1>3, <2>2, <2>3, <2>5, <2>6, <2>7
  <2> QED
    BY <2>7, <2>8 DEF g
<1>6. /\ balance' \in Amount
      /\ \A k \in Markets, u \in Tokens :
           balance'[k][u] = balance[k][u] - (IF k = m /\ u = t THEN n ELSE 0)
  BY <1>1, <1>2, <1>3, PaidOut
<1> HIDE DEF left
<1>7. /\ claimableUiFee' \in Amount
      /\ \A k \in Markets, u \in Tokens :
           claimableUiFee'[k][u] = IF k = m /\ u = t THEN left ELSE claimableUiFee[k][u]
  <2>1. claimableUiFee \in [Markets -> [Tokens -> Nat]]
    BY <1>2 DEF TypeOK, Amount
  <2> QED
    BY <1>1, <1>5, <2>1 DEF Amount
<1>8. TypeOK'
  BY <1>1, <1>2, <1>4, <1>6, <1>7 DEF TypeOK
<1>9. UiFeesMatch'
  <2> SUFFICES ASSUME NEW k \in Markets, NEW u \in Tokens
               PROVE  claimableUiFee'[k][u] = Total(uiFeeOf'[k][u])
    BY DEF UiFeesMatch
  <2>1. CASE k = m /\ u = t
    BY <1>5, <1>7, <2>1
  <2>2. CASE ~(k = m /\ u = t)
    <3>1. uiFeeOf'[k][u] = uiFeeOf[k][u]
      BY <1>1, <1>3, <2>2
    <3> QED
      BY <1>2, <1>7, <2>2, <3>1 DEF UiFeesMatch
  <2> QED
    BY <2>1, <2>2
<1>10. Accounted'
  <2>1. \A k \in Markets, u \in Tokens :
          /\ InTransit(k, u)' = InTransit(k, u) /\ Unbooked(k, u)' = Unbooked(k, u)
          /\ poolAmount'[k][u] = poolAmount[k][u] /\ swapImpactPool'[k][u] = swapImpactPool[k][u]
          /\ claimableFee'[k][u] = claimableFee[k][u] /\ stray'[k][u] = stray[k][u]
    BY <1>1 DEF InTransit, Unbooked
  <2>2. \A k \in Markets, u \in Tokens :
          balance'[k][u] - balance[k][u] =
              (poolAmount'[k][u] - poolAmount[k][u]) + (swapImpactPool'[k][u] - swapImpactPool[k][u])
            + (claimableFee'[k][u] - claimableFee[k][u]) + (claimableUiFee'[k][u] - claimableUiFee[k][u])
            + (InTransit(k, u)' - InTransit(k, u)) + (Unbooked(k, u)' - Unbooked(k, u))
            + (stray'[k][u] - stray[k][u])
    <3> TAKE k \in Markets, u \in Tokens
    <3>1. CASE k = m /\ u = t
      BY <1>2, <1>3, <1>6, <1>7, <2>1, <3>1, Values DEF left
    <3>2. CASE ~(k = m /\ u = t)
      BY <1>2, <1>6, <1>7, <2>1, <3>2, Values
    <3> QED
      BY <3>1, <3>2
  <2> QED
    BY <1>2, <1>8, <2>2, AccountedStep
<1>11. Shape'
  BY <1>1, <1>2, ShapeStays
<1> QED
  BY <1>8, <1>9, <1>10, <1>11 DEF IInv

LEMMA ClaimFeesInv ==
  ASSUME IInv, NEW m \in Markets, NEW t \in Tokens, ClaimFees(m, t)
  PROVE  IInv'
<1> DEFINE n == claimableFee[m][t]
<1>1. /\ CanSend(m, t, n)
      /\ claimableFee' = [claimableFee EXCEPT ![m][t] = 0]
      /\ balance' = Transferred(m, Outside, t, n)
      /\ UNCHANGED <<poolAmount, swapImpactPool, claimableUiFee, uiFeeOf, supply, tx, legs, booking>>
      /\ UNCHANGED <<foreign, stray, executions>>
  BY DEF ClaimFees, execution
<1>2. TypeOK /\ UiFeesMatch /\ Accounted /\ Shape
  BY DEF IInv
<1>3. n \in Nat
  BY <1>2, Values
<1>4. /\ balance' \in Amount
      /\ \A k \in Markets, u \in Tokens :
           balance'[k][u] = balance[k][u] - (IF k = m /\ u = t THEN n ELSE 0)
  BY <1>1, <1>2, <1>3, PaidOut
<1>5. /\ claimableFee' \in Amount
      /\ \A k \in Markets, u \in Tokens :
           claimableFee'[k][u] = IF k = m /\ u = t THEN 0 ELSE claimableFee[k][u]
  <2>1. claimableFee \in [Markets -> [Tokens -> Nat]]
    BY <1>2 DEF TypeOK, Amount
  <2> QED
    BY <1>1, <2>1 DEF Amount
<1>6. TypeOK'
  BY <1>1, <1>2, <1>4, <1>5 DEF TypeOK
<1>7. UiFeesMatch'
  BY <1>1, <1>2 DEF UiFeesMatch
<1>8. Accounted'
  <2>1. \A k \in Markets, u \in Tokens :
          /\ InTransit(k, u)' = InTransit(k, u) /\ Unbooked(k, u)' = Unbooked(k, u)
          /\ poolAmount'[k][u] = poolAmount[k][u] /\ swapImpactPool'[k][u] = swapImpactPool[k][u]
          /\ claimableUiFee'[k][u] = claimableUiFee[k][u] /\ stray'[k][u] = stray[k][u]
    BY <1>1 DEF InTransit, Unbooked
  <2>2. \A k \in Markets, u \in Tokens :
          balance'[k][u] - balance[k][u] =
              (poolAmount'[k][u] - poolAmount[k][u]) + (swapImpactPool'[k][u] - swapImpactPool[k][u])
            + (claimableFee'[k][u] - claimableFee[k][u]) + (claimableUiFee'[k][u] - claimableUiFee[k][u])
            + (InTransit(k, u)' - InTransit(k, u)) + (Unbooked(k, u)' - Unbooked(k, u))
            + (stray'[k][u] - stray[k][u])
    BY <1>2, <1>4, <1>5, <2>1, Values
  <2> QED
    BY <1>2, <1>6, <2>2, AccountedStep
<1>9. Shape'
  BY <1>1, <1>2, ShapeStays
<1> QED
  BY <1>6, <1>7, <1>8, <1>9 DEF IInv

LEMMA SendStrayInv ==
  ASSUME IInv, NEW m \in Markets, NEW t \in Tokens, SendStray(m, t)
  PROVE  IInv'
<1>1. /\ balance' = Transferred(Outside, m, t, 1)
      /\ stray' = Added(stray, m, Of(t, 1))
      /\ UNCHANGED <<poolAmount, swapImpactPool, claimableFee, claimableUiFee, uiFeeOf, supply>>
      /\ UNCHANGED <<tx, legs, booking, foreign, executions>>
  BY DEF SendStray, books, execution
<1>2. TypeOK /\ UiFeesMatch /\ Accounted /\ Shape
  BY DEF IInv
<1>3. Outside \in Places /\ m \in Places /\ CanSend(Outside, t, 1) /\ \A k \in Markets : k # Outside
  BY MarketsAssumption DEF Places, CanSend
<1>4. /\ balance' \in Amount
      /\ \A k \in Markets, u \in Tokens :
           balance'[k][u] = balance[k][u] + (IF k = m /\ u = t THEN 1 ELSE 0)
                                          - (IF k = Outside /\ u = t THEN 1 ELSE 0)
  BY <1>1, <1>2, <1>3, TransferredAt DEF TypeOK
<1>5. /\ stray' \in Amount
      /\ \A k \in Markets, u \in Tokens : stray'[k][u] = stray[k][u] + (IF k = m THEN Of(t, 1)[u] ELSE 0)
  <2>1. Of(t, 1) \in [Tokens -> Nat]
    BY DEF Of
  <2> DEFINE one == Of(t, 1)
  <2>2. stray \in Amount /\ stray' = Added(stray, m, one) /\ one \in [Tokens -> Nat]
    BY <1>1, <1>2, <2>1 DEF TypeOK
  <2> HIDE DEF one
  <2>3. /\ stray' \in Amount
        /\ \A k \in Markets, u \in Tokens : stray'[k][u] = stray[k][u] + (IF k = m THEN one[u] ELSE 0)
    BY <2>2, AddedAt
  <2> QED
    BY <2>3 DEF one
<1>6. TypeOK'
  BY <1>1, <1>2, <1>4, <1>5 DEF TypeOK
<1>7. UiFeesMatch'
  BY <1>1, <1>2 DEF UiFeesMatch
<1>8. Accounted'
  <2>1. \A k \in Markets, u \in Tokens :
          /\ InTransit(k, u)' = InTransit(k, u) /\ Unbooked(k, u)' = Unbooked(k, u)
          /\ poolAmount'[k][u] = poolAmount[k][u] /\ swapImpactPool'[k][u] = swapImpactPool[k][u]
          /\ claimableUiFee'[k][u] = claimableUiFee[k][u] /\ claimableFee'[k][u] = claimableFee[k][u]
    BY <1>1 DEF InTransit, Unbooked
  <2>2. \A k \in Markets, u \in Tokens :
          balance'[k][u] - balance[k][u] =
              (poolAmount'[k][u] - poolAmount[k][u]) + (swapImpactPool'[k][u] - swapImpactPool[k][u])
            + (claimableFee'[k][u] - claimableFee[k][u]) + (claimableUiFee'[k][u] - claimableUiFee[k][u])
            + (InTransit(k, u)' - InTransit(k, u)) + (Unbooked(k, u)' - Unbooked(k, u))
            + (stray'[k][u] - stray[k][u])
    BY <1>2, <1>3, <1>4, <1>5, <2>1, Values DEF Of
  <2> QED
    BY <1>2, <1>6, <2>2, AccountedStep
<1>9. Shape'
  BY <1>1, <1>2, ShapeStays
<1> QED
  BY <1>6, <1>7, <1>8, <1>9 DEF IInv

-----------------------------------------------------------------------------
LEMMA RequestInv ==
  ASSUME IInv, Request
  PROVE  IInv'
<1>1. AtRest /\ executions < MaxExecutions
  BY DEF Request, RequestOf
<1>2. PICK p \in PriceSets, r \in UiFeeReceivers :
        \/ \E path \in Paths, t \in Tokens, n \in Amounts : BeginSwap(path, t, n, p, r)
        \/ \E m \in Markets, path \in [Sides -> Paths] :
             \/ \E token \in [Sides -> Tokens], amount \in [Sides -> Amounts] :
                  BeginDeposit(m, path, token, amount, p, r)
             \/ \E w \in 1..supply[m] : BeginWithdraw(m, w, path, p, r)
  BY DEF Request, RequestOf
<1>3. ASSUME NEW path \in Paths, NEW t \in Tokens, NEW n \in Amounts, BeginSwap(path, t, n, p, r)
      PROVE  IInv'
  BY <1>1, <1>3, BeginSwapInv
<1>4. ASSUME NEW m \in Markets, NEW path \in [Sides -> Paths], NEW token \in [Sides -> Tokens],
             NEW amount \in [Sides -> Amounts], BeginDeposit(m, path, token, amount, p, r)
      PROVE  IInv'
  BY <1>1, <1>4, BeginDepositInv
<1>5. ASSUME NEW m \in Markets, NEW path \in [Sides -> Paths], NEW w \in 1..supply[m],
             BeginWithdraw(m, w, path, p, r)
      PROVE  IInv'
  BY <1>1, <1>5, BeginWithdrawInv
<1> QED
  BY <1>2, <1>3, <1>4, <1>5

LEMMA NextInv == IInv /\ [Next]_vars => IInv'
<1> SUFFICES ASSUME IInv, [Next]_vars PROVE IInv'
  OBVIOUS
<1>1. CASE Request
  BY <1>1, RequestInv
<1>2. CASE Execute
  BY <1>2, SendInv, MintInv, SwapHopInv, BookInv, PriceDepositInv, FinishInv DEF Execute
<1>3. CASE Claim
  BY <1>3, ClaimFeesInv, SendStrayInv, ClaimUiFeesInv DEF Claim
<1>4. CASE UNCHANGED vars
  <2>1. /\ UNCHANGED <<books, balance, supply, stray, executions>> /\ booking' = booking
        /\ tx' = tx /\ legs' = legs /\ foreign' = foreign
    BY <1>4 DEF vars, execution
  <2>2. tx' \in Transaction \/ tx' = Idle
    BY <2>1 DEF IInv, TypeOK
  <2>3. legs' \in [Sides -> Leg] /\ foreign' \in BOOLEAN
    BY <2>1 DEF IInv, TypeOK
  <2>4. Shape'
    BY <2>1, ShapeStays DEF IInv
  <2>5. \A k \in Markets, t \in Tokens : InTransit(k, t)' = InTransit(k, t)
    BY <2>1 DEF InTransit
  <2> QED
    BY <2>1, <2>2, <2>3, <2>4, <2>5, NoMoneyInv
<1> QED
  BY <1>1, <1>2, <1>3, <1>4 DEF Next

LEMMA MarketsInvariant == Spec => []IInv
BY InitInv, NextInv, PTL DEF Spec

LEMMA IInvImplies == IInv => TypeOK /\ Accounted /\ UiFeesMatch
BY DEF IInv

(* The books, the balances and an execution's own state always have their   *)
(* types, natural numbers above all: no subtraction of MarketUtils, FeeUtils*)
(* or SwapUtils takes more than there is.                                   *)
THEOREM MarketsTyped == Spec => []TypeOK
BY MarketsInvariant, IInvImplies, PTL

(* At every step of every execution each token in a market is in exactly    *)
(* one of its books, on its way, or a stranger's gift: for any markets,     *)
(* tokens, fees, prices, impacts and paths.                                 *)
THEOREM MarketsAccounted == Spec => []Accounted
BY MarketsInvariant, IInvImplies, PTL

(* A market's claimable ui fee is the sum of what its receivers can claim,  *)
(* also when they claim in the middle of an execution.                      *)
THEOREM UiFeeTotals == Spec => []UiFeesMatch
BY MarketsInvariant, IInvImplies, PTL

-----------------------------------------------------------------------------
(* What a market token is worth.  Only withdrawals, the entries of swaps    *)
(* and mints change a pool or a supply.                                     *)
ExecutionPrices == IF tx = Idle THEN tx'.prices ELSE tx.prices

LEMMA RequestKeepsWorth ==
  ASSUME IInv, Request, poolAmount # poolAmount' \/ supply # supply'
  PROVE  HoldersKeep(ExecutionPrices)
<1>1. AtRest /\ executions < MaxExecutions
  BY DEF Request, RequestOf
<1>2. PICK p \in PriceSets, r \in UiFeeReceivers :
        \/ \E path \in Paths, t \in Tokens, n \in Amounts : BeginSwap(path, t, n, p, r)
        \/ \E m \in Markets, path \in [Sides -> Paths] :
             \/ \E token \in [Sides -> Tokens], amount \in [Sides -> Amounts] :
                  BeginDeposit(m, path, token, amount, p, r)
             \/ \E w \in 1..supply[m] : BeginWithdraw(m, w, path, p, r)
  BY DEF Request, RequestOf
<1>3. ~ \E path \in Paths, t \in Tokens, n \in Amounts : BeginSwap(path, t, n, p, r)
  BY DEF BeginSwap, books
<1>4. ~ \E m \in Markets, path \in [Sides -> Paths], token \in [Sides -> Tokens],
           amount \in [Sides -> Amounts] : BeginDeposit(m, path, token, amount, p, r)
  BY DEF BeginDeposit, books
<1>5. PICK m \in Markets, path \in [Sides -> Paths] : \E w \in 1..supply[m] : BeginWithdraw(m, w, path, p, r)
  BY <1>2, <1>3, <1>4
<1>6. PICK w \in 1..supply[m] : BeginWithdraw(m, w, path, p, r)
  BY <1>5
<1>7. tx = Idle /\ tx'.prices = p /\ HoldersKeep(p)
  BY <1>1, <1>6, BeginWithdrawInv
<1> QED
  BY <1>7 DEF ExecutionPrices

LEMMA WorthStep ==
  ASSUME IInv, [Next]_vars, poolAmount # poolAmount' \/ supply # supply'
  PROVE  HoldersKeep(ExecutionPrices)
<1>1. CASE Request
  BY <1>1, RequestKeepsWorth
<1>2. CASE Execute
  <2>1. ASSUME NEW side \in Sides PROVE ~Send(side) /\ \A impact \in Impacts : ~SwapHop(side, impact)
    BY DEF Send, SwapHop, books
  <2>2. ~Finish /\ \A impact \in Impacts : ~PriceDeposit(impact)
    BY DEF Finish, PriceDeposit, books
  <2>3. Book \/ \E side \in Sides : Mint(side)
    BY <1>2, <2>1, <2>2 DEF Execute
  <2>4. tx # Idle /\ HoldersKeep(tx.prices)
    BY <2>3, BookInv, MintInv
  <2> QED
    BY <2>4 DEF ExecutionPrices
<1>3. ~Claim
  BY DEF Claim, ClaimFees, SendStray, ClaimUiFees, books
<1>4. ~UNCHANGED vars
  BY DEF vars, books
<1> QED
  BY <1>1, <1>2, <1>3, <1>4 DEF Next

(* No step makes a share of a market of two tokens worth less at the prices *)
(* of the execution: what a withdrawal pays, a swap exchanges and a deposit *)
(* mints is rounded against the one who asks for it, for any prices, fees,  *)
(* impacts, pools and supplies.                                             *)
THEOREM SharesKeepTheirWorth == Spec => SharePriceNeverFalls
<1> DEFINE Keeps ==
      LET p == IF tx = Idle THEN tx'.prices ELSE tx.prices
          Value(pool, m) == PoolValue(pool, m, p, "max")
      IN  poolAmount # poolAmount' \/ supply # supply' =>
            \A m \in Markets : LongToken[m] # ShortToken[m] /\ supply[m] > 0 =>
              Value(poolAmount', m) * supply[m] >= Value(poolAmount, m) * supply'[m]
<1>1. IInv /\ [Next]_vars => Keeps
  <2> SUFFICES ASSUME IInv, [Next]_vars PROVE Keeps
    OBVIOUS
  <2>1. poolAmount # poolAmount' \/ supply # supply' => HoldersKeep(ExecutionPrices)
    BY WorthStep
  <2> QED
    BY <2>1, Zenon DEF HoldersKeep, HolderKeeps, ExecutionPrices
<1>2. SharePriceNeverFalls <=> [][Keeps]_vars
  BY DEF SharePriceNeverFalls
<1> HIDE DEF Keeps
<1>3. IInv /\ [Next]_vars => [Keeps]_vars
  BY <1>1
<1> QED
  BY <1>2, <1>3, MarketsInvariant, PTL DEF Spec
=============================================================================
