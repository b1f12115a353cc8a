SPECIFICATION Spec
CONSTANTS
  t1 = t1
  t2 = t2
  t3 = t3
  m1 = m1
  m2 = m2
  m3 = m3
  PriceTokens = {t1, t2, t3}
  Markets = {m1, m2, m3}
  MaxDepth = 8
INVARIANTS
  AtRest
  OneHandlerAtATime
  OwnPrices
  OwnFlags
