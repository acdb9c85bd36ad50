----------------------------- MODULE MoneyMath -----------------------------
(***************************************************************************)
(* The monetary arithmetic of src/utils/money-math.util.ts.  An amount is  *)
(* a whole number of mills (thousandths of the currency unit), so that an  *)
(* amount a client sends may fall between two cents; everything the code   *)
(* stores has gone through toFixed(2) and is a whole number of cents.      *)
(***************************************************************************)
EXTENDS Integers

\* Mills in a cent: toFixed(2) keeps multiples of this.
Cent == 10

\* A faulty variant: truncation.
RoundDown(x) ==
  IF x >= 0 THEN Cent * (x \div Cent) ELSE -(Cent * (-x \div Cent))

\* Decimal.toFixed(2) under ROUND_HALF_UP: to the nearest cent, a half cent
\* away from zero.
RoundHalfUp(x) ==
  IF x >= 0 THEN Cent * ((x + Cent \div 2) \div Cent)
            ELSE -(Cent * ((Cent \div 2 - x) \div Cent))

WholeCents(x) == x % Cent = 0

Format(amount) == RoundHalfUp(amount)

\* Faulty variants: sums kept to the last digit.
AddUnrounded(a, b)      == a + b
SubtractUnrounded(a, b) == a - b

Add(a, b)      == RoundHalfUp(a + b)
Subtract(a, b) == RoundHalfUp(a - b)

\* Comparisons are made on the exact values, before any rounding.
Compare(a, b) == IF a < b THEN -1 ELSE IF a > b THEN 1 ELSE 0

\* A faulty variant: the operands swapped.
LessThanSwapped(a, b) == Compare(b, a) < 0

LessThan(a, b)        == Compare(a, b) < 0
LessThanOrEqual(a, b) == Compare(a, b) <= 0
GreaterThan(a, b)     == Compare(a, b) > 0
=============================================================================
