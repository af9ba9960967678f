------------------------------ MODULE Fraction ------------------------------
(***************************************************************************)
(* Fixed-point arithmetic of utils/fraction.rs.  A Fraction is a natural    *)
(* number of "sf" units; ONE is SF of them (2^60 in the code, a small       *)
(* number when model checking, so that the rounding the code does in its    *)
(* last bit shows up in every amount).                                      *)
(***************************************************************************)
EXTENDS Integers

CONSTANT SF   \* Fraction::ONE.to_bits()

ASSUME SFAssumption == SF \in Nat \ {0}

MinOf(a, b) == IF a <= b THEN a ELSE b
MaxOf(a, b) == IF a >= b THEN a ELSE b

\* u64 -> Fraction
FromInt(n) == n * SF

\* Fraction -> u64
ToFloor(f) == f \div SF
ToCeil(f) == (f + SF - 1) \div SF
ToRound(f) == (2 * f + SF) \div (2 * SF)

\* Fraction * Fraction, Fraction / Fraction: both truncate
Mul(f, g) == (f * g) \div SF
Div(f, g) == (f * SF) \div g

SaturatingSub(f, g) == IF f >= g THEN f - g ELSE 0

=============================================================================
