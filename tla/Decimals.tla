------------------------------ MODULE Decimals ------------------------------
(***************************************************************************)
(* Decimal of decimal.js, as the client uses it: exact fractions, the        *)
(* twenty digits of precision being far more than the bounds here need. A    *)
(* decimal is a pair of integers without a common divisor, the second one    *)
(* positive, so that equal decimals are equal pairs.                          *)
(***************************************************************************)
EXTENDS Integers

gcd[p \in Nat \X Nat] == IF p[2] = 0 THEN p[1] ELSE gcd[<<p[2], p[1] % p[2]>>]
Gcd(m, n) == gcd[<<m, n>>]

Magnitude(n) == IF n < 0 THEN -n ELSE n

Divided(n, d, g) ==
    IF n = 0 THEN <<0, 1>>
    ELSE IF d < 0 THEN <<(-n) \div g, (-d) \div g>> ELSE <<n \div g, d \div g>>
Ratio(n, d) == Divided(n, d, Gcd(Magnitude(n), Magnitude(d)))

Dec(n) == <<n, 1>>
Zero == Dec(0)
One == Dec(1)

\* reduced before they multiply, so that intermediate products stay small
SumOver(x, y, g) == Ratio(x[1] * (y[2] \div g) + y[1] * (x[2] \div g), x[2] * (y[2] \div g))
Plus(x, y) == SumOver(x, y, Gcd(x[2], y[2]))
Minus(x, y) == Plus(x, <<-y[1], y[2]>>)
Product(p, q) == <<p[1] * q[1], p[2] * q[2]>>
Times(x, y) == Product(Ratio(x[1], y[2]), Ratio(y[1], x[2]))
Over(x, y) == Times(x, Ratio(y[2], y[1]))
\* by whole parts, then by the inverses of what is left
leq[x \in Int \X Int, y \in Int \X Int] ==
    LET whole == x[1] \div x[2]
        left == x[1] % x[2]
    IN IF whole # y[1] \div y[2] THEN whole < y[1] \div y[2]
       ELSE IF left = 0 \/ y[1] % y[2] = 0 THEN left = 0
       ELSE leq[<<y[2], y[1] % y[2]>>, <<x[2], left>>]
Leq(x, y) == leq[x, y]
Abs(x) == <<Magnitude(x[1]), x[2]>>
Floor(x) == x[1] \div x[2]
Ceil(x) == -((-x[1]) \div x[2])
Least2(x, y) == IF Leq(x, y) THEN x ELSE y
IsInt(x) == x[2] = 1

\* one more than x, as in 1 + fee and 1 + slippage
OnePlus(x) == Plus(One, x)

\* toLamports, fromLamports: a token amount against its mint's factor
toLamports(x, factor) == Times(x, Dec(factor))
fromLamports(n, factor) == Ratio(n, factor)
\* toDecimalPlaces(decimals, ROUND_CEIL)
CeilPlaces(x, factor) == Ratio(Ceil(toLamports(x, factor)), factor)

=============================================================================
