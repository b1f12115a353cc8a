----------------------------- MODULE Precision -----------------------------
(***************************************************************************)
(* The fixed-point arithmetic of utils/Precision.sol and utils/Calc.sol and *)
(* the additions of DataStore.sol, on integers without a width: a result    *)
(* that does not fit reverts.                                               *)
(***************************************************************************)
EXTENDS Integers

CONSTANTS FloatPrecision, \* FLOAT_PRECISION: the factor one
          FloatToWei      \* FLOAT_TO_WEI_DIVISOR: usd per unit of a market token

ASSUME PrecisionAssumption == FloatPrecision \in Nat \ {0} /\ FloatToWei \in Nat \ {0}

MulDiv(value, numerator, denominator) == (value * numerator) \div denominator

(* The mulDiv of a signed value works on the magnitude.                     *)
SignedMulDiv(value, numerator, denominator) ==
  IF value < 0 THEN -MulDiv(-value, numerator, denominator)
               ELSE MulDiv(value, numerator, denominator)

ApplyFactor(value, factor) == MulDiv(value, factor, FloatPrecision)

RoundUpDivision(a, b) == (a + b - 1) \div b

floatToWei(value) == value \div FloatToWei

Smaller(a, b) == IF a < b THEN a ELSE b

(* applyBoundedDeltaToUint for a decrease: what does not fit is dropped.    *)
BoundedDecrease(value, n) == IF n > value THEN 0 ELSE value - n
=============================================================================
