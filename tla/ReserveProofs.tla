--------------------------- MODULE ReserveProofs ----------------------------
(***************************************************************************)
(* The reserve keeps its books, stays solvent and never dilutes a           *)
(* depositor, for every scale of the fixed-point arithmetic, every rate,    *)
(* fee, limit, set of obligations, referrers and amounts.                   *)
(*                                                                         *)
(* First what the arithmetic guarantees for every scale SF, every rate and  *)
(* every amount: no operation is negative, interest belongs to somebody,    *)
(* and rounding never favours the caller.                                   *)
(***************************************************************************)
EXTENDS Reserve, SumProofs, TLAPS

-----------------------------------------------------------------------------
(* Integer division.                                                         *)

\* Euclid: the quotient is the largest multiple that fits.
LEMMA DivFacts ==
    ASSUME NEW x \in Int, NEW d \in Nat \ {0}
    PROVE  /\ x \div d \in Int
           /\ d * (x \div d) <= x
           /\ x < d * (x \div d) + d
BY SMT

\* A natural number divided by a positive one is natural.
LEMMA DivNat ==
    ASSUME NEW x \in Nat, NEW d \in Nat \ {0}
    PROVE  x \div d \in Nat
BY SMT

\* Division keeps the order of its dividends.
LEMMA DivMono ==
    ASSUME NEW x \in Int, NEW y \in Int, x <= y, NEW d \in Nat \ {0}
    PROVE  x \div d <= y \div d
BY DivFacts, SMT

\* Dividing a multiple gives the factor back.
LEMMA DivExact ==
    ASSUME NEW n \in Int, NEW d \in Nat \ {0}
    PROVE  (n * d) \div d = n
<1> DEFINE q == (n * d) \div d
<1>1. n * d \in Int
  OBVIOUS
<1>2. q \in Int /\ d * q <= n * d /\ n * d < d * q + d
  BY <1>1, DivFacts
<1>3. q <= n
  <2>1. SUFFICES ASSUME q >= n + 1 PROVE FALSE
    BY <1>2
  <2>2. d * q >= d * (n + 1)
    BY <1>2, <2>1, SMT
  <2> QED
    BY <1>2, <2>2, SMT
<1>4. q >= n
  <2>1. SUFFICES ASSUME q + 1 <= n PROVE FALSE
    BY <1>2
  <2>2. d * (q + 1) <= d * n
    BY <1>2, <2>1, SMT
  <2> QED
    BY <1>2, <2>2, SMT
<1> HIDE DEF q
<1>5. q = n
  BY <1>2, <1>3, <1>4
<1> QED
  BY <1>5 DEF q

\* Products of natural numbers are natural and keep the order.
LEMMA TimesNat ==
    ASSUME NEW a \in Nat, NEW b \in Nat
    PROVE  a * b \in Nat
BY SMT

LEMMA TimesMono ==
    ASSUME NEW a \in Int, NEW b \in Int, NEW c \in Nat, a <= b
    PROVE  a * c <= b * c /\ c * a <= c * b
BY SMT

-----------------------------------------------------------------------------
(* Fractions.                                                                *)

\* Fraction multiplication stays natural.
LEMMA MulNat ==
    ASSUME NEW f \in Nat, NEW g \in Nat
    PROVE  Mul(f, g) \in Nat
BY SFAssumption, TimesNat, DivNat DEF Mul

\* Fraction multiplication keeps the order of its factors although it truncates.
LEMMA MulMono ==
    ASSUME NEW f \in Nat, NEW g \in Nat, NEW h \in Nat, g <= h
    PROVE  Mul(f, g) <= Mul(f, h) /\ Mul(g, f) <= Mul(h, f)
<1>1. f * g <= f * h /\ g * f <= h * f
  BY TimesMono
<1>2. f * g \in Int /\ f * h \in Int /\ g * f \in Int /\ h * f \in Int
  OBVIOUS
<1> QED
  BY <1>1, <1>2, DivMono, SFAssumption DEF Mul

\* ONE is neutral.
LEMMA MulOne ==
    ASSUME NEW f \in Nat
    PROVE  Mul(f, SF) = f
BY SFAssumption, DivExact DEF Mul

\* Whole tokens survive the conversion to a fraction and back.
LEMMA FloorOfInt ==
    ASSUME NEW n \in Int
    PROVE  ToFloor(FromInt(n)) = n
BY SFAssumption, DivExact DEF ToFloor, FromInt

\* Rounding down hands out at most the fraction.
LEMMA FloorFacts ==
    ASSUME NEW f \in Nat
    PROVE  /\ ToFloor(f) \in Nat
           /\ FromInt(ToFloor(f)) \in Nat
           /\ FromInt(ToFloor(f)) <= f
<1>1. ToFloor(f) \in Nat
  BY SFAssumption, DivNat DEF ToFloor
<1>2. SF * (f \div SF) <= f
  BY SFAssumption, DivFacts
<1>3. FromInt(ToFloor(f)) = SF * (f \div SF)
  BY <1>1, SFAssumption DEF FromInt, ToFloor
<1>4. FromInt(ToFloor(f)) \in Nat
  BY <1>1, SFAssumption, TimesNat DEF FromInt
<1> QED
  BY <1>1, <1>2, <1>3, <1>4

\* Rounding up takes at least the fraction.
LEMMA CeilFacts ==
    ASSUME NEW f \in Nat
    PROVE  /\ ToCeil(f) \in Nat
           /\ FromInt(ToCeil(f)) \in Nat
           /\ FromInt(ToCeil(f)) >= f
<1> DEFINE x == f + SF - 1
<1>1. x \in Nat
  BY SFAssumption
<1>2. ToCeil(f) \in Nat
  BY <1>1, SFAssumption, DivNat DEF ToCeil
<1>3. x < SF * (x \div SF) + SF
  BY <1>1, SFAssumption, DivFacts
<1>4. FromInt(ToCeil(f)) = SF * (x \div SF)
  BY <1>2, SFAssumption DEF FromInt, ToCeil
<1>5. FromInt(ToCeil(f)) \in Nat
  BY <1>2, SFAssumption, TimesNat DEF FromInt
<1> HIDE DEF x
<1>6. FromInt(ToCeil(f)) + SF > x
  BY <1>1, <1>3, <1>4, <1>5, SFAssumption
<1> QED
  BY <1>2, <1>5, <1>6, SFAssumption DEF x

-----------------------------------------------------------------------------
(* Interest.                                                                 *)

\* Compounding never shrinks a debt and grows with the rate, in the exact
\* branches of approximate_compounded_interest and in the binomial one.
LEMMA CompoundedInterestFacts ==
    ASSUME NEW a \in Nat, NEW b \in Nat, a <= b, NEW n \in Nat
    PROVE  /\ CompoundedInterest(a, n) \in Nat
           /\ CompoundedInterest(b, n) \in Nat
           /\ CompoundedInterest(a, n) >= SF
           /\ CompoundedInterest(a, n) <= CompoundedInterest(b, n)
<1> USE SFAssumption
<1> DEFINE oneA == SF + a
           oneB == SF + b
           twoA == Mul(oneA, oneA)
           twoB == Mul(oneB, oneB)
<1>1. oneA \in Nat /\ oneB \in Nat /\ SF <= oneA /\ oneA <= oneB /\ SF \in Nat
  OBVIOUS
<1>2. twoA \in Nat /\ twoB \in Nat /\ SF <= twoA /\ twoA <= twoB
  <2>1. twoA \in Nat /\ twoB \in Nat /\ Mul(oneA, oneB) \in Nat
    BY <1>1, MulNat
  <2>2. oneA <= twoA
    BY <1>1, MulMono, MulOne
  <2>3. twoA <= Mul(oneA, oneB) /\ Mul(oneA, oneB) <= twoB
    BY <1>1, MulMono
  <2> QED
    BY <1>1, <2>1, <2>2, <2>3
<1> HIDE DEF oneA, oneB, twoA, twoB
<1>3. CASE n = 0
  BY <1>3, <1>1 DEF CompoundedInterest
<1>4. CASE n = 1
  BY <1>4, <1>1 DEF CompoundedInterest, oneA, oneB
<1>5. CASE n = 2
  BY <1>5, <1>2 DEF CompoundedInterest, oneA, oneB, twoA, twoB
<1>6. CASE n = 3
  <2>1. CompoundedInterest(a, n) = Mul(twoA, oneA)
    BY <1>6 DEF CompoundedInterest, oneA, twoA
  <2>2. CompoundedInterest(b, n) = Mul(twoB, oneB)
    BY <1>6 DEF CompoundedInterest, oneB, twoB
  <2>3. Mul(twoA, oneA) \in Nat /\ Mul(twoB, oneB) \in Nat /\ Mul(twoA, oneB) \in Nat
    BY <1>1, <1>2, MulNat
  <2>4. twoA <= Mul(twoA, oneA)
    BY <1>1, <1>2, MulMono, MulOne
  <2>5. Mul(twoA, oneA) <= Mul(twoA, oneB) /\ Mul(twoA, oneB) <= Mul(twoB, oneB)
    BY <1>1, <1>2, MulMono
  <2> QED
    BY <1>1, <1>2, <2>1, <2>2, <2>3, <2>4, <2>5
<1>7. CASE n = 4
  <2>1. CompoundedInterest(a, n) = Mul(twoA, twoA)
    BY <1>7 DEF CompoundedInterest, oneA, twoA
  <2>2. CompoundedInterest(b, n) = Mul(twoB, twoB)
    BY <1>7 DEF CompoundedInterest, oneB, twoB
  <2>3. Mul(twoA, twoA) \in Nat /\ Mul(twoB, twoB) \in Nat /\ Mul(twoA, twoB) \in Nat
    BY <1>2, MulNat
  <2>4. twoA <= Mul(twoA, twoA)
    BY <1>1, <1>2, MulMono, MulOne
  <2>5. Mul(twoA, twoA) <= Mul(twoA, twoB) /\ Mul(twoA, twoB) <= Mul(twoB, twoB)
    BY <1>2, MulMono
  <2> QED
    BY <1>1, <1>2, <2>1, <2>2, <2>3, <2>4, <2>5
<1>8. CASE n > 4
  <2> DEFINE a2 == Mul(a, a)
             a3 == Mul(a2, a)
             b2 == Mul(b, b)
             b3 == Mul(b2, b)
             k2 == n * (n - 1)
             k3 == n * (n - 1) * (n - 2)
  <2>1. a2 \in Nat /\ b2 \in Nat /\ a3 \in Nat /\ b3 \in Nat
    BY MulNat
  <2>2. a2 <= b2
    <3>1. Mul(a, b) \in Nat /\ a2 <= Mul(a, b) /\ Mul(a, b) <= b2
      BY MulNat, MulMono
    <3> QED
      BY <2>1, <3>1
  <2>3. a3 <= b3
    <3>1. Mul(a2, b) \in Nat /\ a3 <= Mul(a2, b) /\ Mul(a2, b) <= b3
      BY <2>1, <2>2, MulNat, MulMono
    <3> QED
      BY <2>1, <3>1
  <2>4. k2 \in Nat /\ k3 \in Nat
    <3>1. n - 1 \in Nat /\ n - 2 \in Nat
      BY <1>8
    <3>2. n * (n - 1) \in Nat
      BY <3>1, TimesNat
    <3> QED
      BY <3>1, <3>2, TimesNat
  <2> HIDE DEF a2, a3, b2, b3
  <2>5. /\ CompoundedInterest(a, n)
             = SF + a * n + (a2 * n * (n - 1)) \div 2
                 + (a3 * n * (n - 1) * (n - 2)) \div 6
        /\ CompoundedInterest(b, n)
             = SF + b * n + (b2 * n * (n - 1)) \div 2
                 + (b3 * n * (n - 1) * (n - 2)) \div 6
    BY <1>8 DEF CompoundedInterest, a2, a3, b2, b3
  <2>6. /\ a2 * n * (n - 1) = a2 * k2 /\ b2 * n * (n - 1) = b2 * k2
        /\ a3 * n * (n - 1) * (n - 2) = a3 * k3
        /\ b3 * n * (n - 1) * (n - 2) = b3 * k3
    BY <2>1, SMT
  <2> HIDE DEF k2, k3
  <2>7. /\ a * n \in Nat /\ b * n \in Nat /\ a * n <= b * n
        /\ a2 * k2 \in Nat /\ b2 * k2 \in Nat /\ a2 * k2 <= b2 * k2
        /\ a3 * k3 \in Nat /\ b3 * k3 \in Nat /\ a3 * k3 <= b3 * k3
    BY <2>1, <2>2, <2>3, <2>4, TimesNat, TimesMono
  <2>8. /\ (a2 * k2) \div 2 \in Nat /\ (b2 * k2) \div 2 \in Nat
        /\ (a2 * k2) \div 2 <= (b2 * k2) \div 2
        /\ (a3 * k3) \div 6 \in Nat /\ (b3 * k3) \div 6 \in Nat
        /\ (a3 * k3) \div 6 <= (b3 * k3) \div 6
    BY <2>7, DivNat, DivMono
  <2> QED
    BY <2>5, <2>6, <2>7, <2>8
<1> QED
  BY <1>3, <1>4, <1>5, <1>6, <1>7, <1>8

\* compound_interest: every unit of new debt is split between depositors, the
\* protocol and the referrers, and the depositors' part is never negative.
LEMMA CompoundFacts ==
    ASSUME NEW l \in LiquidityType, NEW rate \in Nat, NEW fixed_rate \in Nat,
           SF <= fixed_rate, fixed_rate <= rate, NEW referral_rate \in 0 .. SF
    PROVE  LET c == Compound(l, rate, fixed_rate, referral_rate)
           IN /\ c \in LiquidityType
              /\ c.available_amount = l.available_amount
              /\ c.accumulated_referrer_fees_sf = l.accumulated_referrer_fees_sf
              /\ TotalSupply(c) >= TotalSupply(l)
              /\ c.cumulative_borrow_rate_bsf >= l.cumulative_borrow_rate_bsf
<1> USE SFAssumption, ReserveConfigAssumption
<1> DEFINE debt == l.borrowed_amount_sf
           cum == l.cumulative_borrow_rate_bsf
           new_debt == Mul(debt, rate)
           new_fixed == Mul(debt, fixed_rate)
           net == new_debt - debt - (new_fixed - debt)
           fee == Mul(net, TakeRate)
           absolute == Mul(TakeRate, referral_rate)
           ref_fee == Mul(net, absolute)
           new_cum == Mul(cum, rate)
           c == Compound(l, rate, fixed_rate, referral_rate)
<1>1. debt \in Nat /\ cum \in Nat /\ TakeRate \in Nat /\ TakeRate <= SF
      /\ referral_rate \in Nat /\ referral_rate <= SF
  BY DEF LiquidityType
<1>2. new_debt \in Nat /\ new_fixed \in Nat /\ debt <= new_fixed /\ new_fixed <= new_debt
  <2>1. new_debt \in Nat /\ new_fixed \in Nat
    BY <1>1, MulNat
  <2>2. Mul(debt, SF) <= new_fixed /\ new_fixed <= new_debt
    BY <1>1, MulMono
  <2> QED
    BY <1>1, <2>1, <2>2, MulOne
<1>3. new_cum \in Nat /\ cum <= new_cum
  <2>1. SF <= rate
    OBVIOUS
  <2>2. Mul(cum, SF) = cum /\ Mul(cum, SF) <= Mul(cum, rate) /\ Mul(cum, rate) \in Nat
    BY <1>1, <2>1, MulNat, MulMono, MulOne
  <2> QED
    BY <2>2
<1>4. net \in Nat
  BY <1>1, <1>2
<1>5. absolute \in Nat /\ absolute <= TakeRate
  <2>1. Mul(TakeRate, referral_rate) <= Mul(TakeRate, SF)
    BY <1>1, MulMono
  <2> QED
    BY <1>1, <2>1, MulNat, MulOne
<1>6. fee \in Nat /\ ref_fee \in Nat /\ ref_fee <= fee /\ fee <= net
  <2>1. fee \in Nat /\ ref_fee \in Nat
    BY <1>1, <1>4, <1>5, MulNat
  <2>2. ref_fee <= fee
    BY <1>1, <1>4, <1>5, MulMono
  <2>3. fee <= Mul(net, SF)
    BY <1>1, <1>4, MulMono
  <2> QED
    BY <1>4, <2>1, <2>2, <2>3, MulOne
<1>7. c = [available_amount |-> l.available_amount,
           borrowed_amount_sf |-> new_debt,
           accumulated_protocol_fees_sf |->
              l.accumulated_protocol_fees_sf + (new_fixed - debt) + fee - ref_fee,
           accumulated_referrer_fees_sf |-> l.accumulated_referrer_fees_sf,
           pending_referrer_fees_sf |-> l.pending_referrer_fees_sf + ref_fee,
           absolute_referral_rate_sf |-> absolute,
           cumulative_borrow_rate_bsf |-> new_cum]
  BY DEF Compound
<1> HIDE DEF new_debt, new_fixed, net, fee, absolute, ref_fee, new_cum, c
<1>8. c \in LiquidityType
  BY <1>1, <1>2, <1>3, <1>5, <1>6, <1>7 DEF LiquidityType
<1>9. TotalSupply(c) >= TotalSupply(l)
  <2>1. TotalSupply(c) = TotalSupply(l) + (new_debt - debt) - (new_fixed - debt) - fee
    <3>1. FromInt(l.available_amount) \in Int
      BY DEF LiquidityType, FromInt
    <3> QED
      BY <1>1, <1>2, <1>6, <1>7, <3>1 DEF TotalSupply, LiquidityType
  <2>2. TotalSupply(l) \in Int
    BY DEF TotalSupply, LiquidityType, FromInt
  <2>3. net = new_debt - new_fixed
    BY <1>1, <1>2 DEF net
  <2> QED
    BY <1>1, <1>2, <1>6, <2>1, <2>2, <2>3
<1> QED
  BY <1>3, <1>7, <1>8, <1>9 DEF c

\* accrue_interest, for any number of elapsed slots.
LEMMA AccrueFacts ==
    ASSUME NEW l \in LiquidityType, NEW n \in Nat, NEW v \in Nat,
           NEW referral_rate \in 0 .. SF
    PROVE  LET c == AccrueInterest(l, n, v, referral_rate)
           IN /\ c \in LiquidityType
              /\ c.available_amount = l.available_amount
              /\ c.accumulated_referrer_fees_sf = l.accumulated_referrer_fees_sf
              /\ TotalSupply(c) >= TotalSupply(l)
              /\ c.cumulative_borrow_rate_bsf >= l.cumulative_borrow_rate_bsf
              /\ n = 0 => c = l
<1> USE SFAssumption, ReserveConfigAssumption
<1>1. CASE n > 0
  <2> DEFINE rate == CompoundedInterest(v + FixedBase, n)
             fixed_rate == CompoundedInterest(FixedBase, n)
  <2>1. FixedBase <= v + FixedBase /\ v + FixedBase \in Nat /\ FixedBase \in Nat
    OBVIOUS
  <2>2. rate \in Nat /\ fixed_rate \in Nat /\ SF <= fixed_rate /\ fixed_rate <= rate
    BY <2>1, CompoundedInterestFacts
  <2>3. AccrueInterest(l, n, v, referral_rate)
          = Compound(l, rate, fixed_rate, referral_rate)
    BY <1>1 DEF AccrueInterest
  <2> HIDE DEF rate, fixed_rate
  <2> QED
    BY <1>1, <2>2, <2>3, CompoundFacts
<1>2. CASE n = 0
  <2>1. AccrueInterest(l, n, v, referral_rate) = l
    BY <1>2 DEF AccrueInterest
  <2>2. TotalSupply(l) \in Int /\ l.cumulative_borrow_rate_bsf \in Nat
    BY DEF TotalSupply, LiquidityType, FromInt
  <2> QED
    BY <1>2, <2>1, <2>2
<1> QED
  BY <1>1, <1>2

-----------------------------------------------------------------------------
(* The exchange rate.                                                        *)

\* A product of two sides can be compared through a common factor.
LEMMA ShareOfWhole ==
    ASSUME NEW T \in Int, NEW S \in Int, NEW p \in Int, NEW c \in Int
    PROVE  /\ p * S <= c * T => (T - p) * S >= T * (S - c)
           /\ p * S >= c * T => (T + p) * S >= T * (S + c)
<1>1. (T - p) * S = T * S - p * S /\ T * (S - c) = T * S - c * T
  BY SMT
<1>2. (T + p) * S = T * S + p * S /\ T * (S + c) = T * S + c * T
  BY SMT
<1> QED
  BY <1>1, <1>2, SMT

\* What belongs to the depositors is an integer.
LEMMA TotalSupplyInt ==
    ASSUME NEW l \in LiquidityType
    PROVE  TotalSupply(l) \in Int
BY SFAssumption DEF TotalSupply, LiquidityType, FromInt

\* redeem_collateral pays at most the burnt collateral's share of the pool.
LEMMA RedeemPaysAtMostShare ==
    ASSUME NEW l \in LiquidityType, NEW s \in Nat \ {0}, NEW c \in Nat,
           TotalSupply(l) > 0
    PROVE  /\ CollateralToLiquidity(l, s, c) \in Nat
           /\ FromInt(CollateralToLiquidity(l, s, c)) * s <= c * TotalSupply(l)
<1> DEFINE T == TotalSupply(l)
           q == (c * T) \div s
           pay == CollateralToLiquidity(l, s, c)
<1>1. T \in Nat /\ T # 0
  BY TotalSupplyInt
<1>2. pay = ToFloor(q)
  BY <1>1 DEF CollateralToLiquidity, RateLiquidity, RateCollateral, IsInitialRate
<1> HIDE DEF T
<1>3. c * T \in Nat
  BY <1>1, TimesNat
<1>4. q \in Nat /\ s * q <= c * T
  BY <1>3, DivNat, DivFacts
<1> HIDE DEF q, pay
<1>5. pay \in Nat /\ FromInt(pay) \in Nat /\ FromInt(pay) <= q
  BY <1>2, <1>4, FloorFacts
<1>6. FromInt(pay) * s <= q * s
  BY <1>4, <1>5, TimesMono
<1>7. q * s = s * q
  BY <1>4
<1>8. FromInt(pay) * s \in Int /\ q * s \in Int
  BY <1>4, <1>5
<1>9. FromInt(pay) * s <= c * T
  BY <1>3, <1>4, <1>6, <1>7, <1>8
<1> QED
  BY <1>5, <1>9 DEF pay, T

\* A deposit pays at least the minted collateral's share of the pool.
LEMMA DepositPaysAtLeastShare ==
    ASSUME NEW l \in LiquidityType, NEW s \in Nat \ {0}, NEW c \in Nat,
           TotalSupply(l) > 0
    PROVE  /\ CollateralToLiquidityCeil(l, s, c) \in Nat
           /\ FromInt(CollateralToLiquidityCeil(l, s, c)) * s >= c * TotalSupply(l)
<1> DEFINE T == TotalSupply(l)
           x == c * T + s - 1
           q == x \div s
           pay == CollateralToLiquidityCeil(l, s, c)
<1>1. T \in Nat /\ T # 0
  BY TotalSupplyInt
<1>2. pay = ToCeil(q)
  BY <1>1 DEF CollateralToLiquidityCeil, RateLiquidity, RateCollateral, IsInitialRate
<1> HIDE DEF T
<1>3. c * T \in Nat
  BY <1>1, TimesNat
<1>4. x \in Nat /\ x = c * T + s - 1
  BY <1>3
<1> HIDE DEF x
<1>5. q \in Nat /\ x < s * q + s
  BY <1>4, DivNat, DivFacts
<1> HIDE DEF q, pay
<1>6. pay \in Nat /\ FromInt(pay) \in Nat /\ FromInt(pay) >= q
  BY <1>2, <1>5, CeilFacts
<1>7. q * s <= FromInt(pay) * s
  BY <1>5, <1>6, TimesMono
<1>8. q * s = s * q /\ s * q \in Int /\ FromInt(pay) * s \in Int
  BY <1>5, <1>6
<1>9. FromInt(pay) * s >= c * T
  BY <1>3, <1>4, <1>5, <1>7, <1>8
<1> QED
  BY <1>6, <1>9 DEF pay, T

\* The collateral minted for a deposit is a natural number.
LEMMA LiquidityToCollateralNat ==
    ASSUME NEW l \in LiquidityType, NEW s \in Nat \ {0}, NEW a \in Nat,
           TotalSupply(l) > 0
    PROVE  LiquidityToCollateral(l, s, a) \in Nat
<1> DEFINE T == TotalSupply(l)
           x == FromInt(s * a) * SF
<1>1. T \in Nat \ {0}
  BY TotalSupplyInt
<1>2. LiquidityToCollateral(l, s, a) = ToFloor(x \div T)
  BY <1>1 DEF LiquidityToCollateral, RateLiquidity, RateCollateral, IsInitialRate
<1>3. x \in Nat
  <2>1. s * a \in Nat
    BY TimesNat
  <2>2. FromInt(s * a) \in Nat
    BY <2>1, SFAssumption, TimesNat DEF FromInt
  <2> QED
    BY <2>2, SFAssumption, TimesNat
<1> HIDE DEF T, x
<1>4. x \div T \in Nat
  BY <1>1, <1>3, DivNat
<1> QED
  BY <1>2, <1>4, FloorFacts
-----------------------------------------------------------------------------
(* Fees and the changes to ReserveLiquidity.                                 *)

\* Fees are natural numbers of tokens.
LEMMA FeesNat ==
    ASSUME NEW amount_f \in Nat, NEW fee \in Nat, NEW inclusive \in BOOLEAN,
           NEW referral_rate \in 0 .. SF, NEW has_referrer \in BOOLEAN
    PROVE  /\ TotalFee(amount_f, fee, inclusive) \in Nat
           /\ ReferrerFee(amount_f, fee, inclusive, referral_rate, has_referrer) \in Nat
<1> USE SFAssumption
<1>1. FeeRateFor(fee, inclusive) \in Nat
  <2>1. fee * SF \in Nat /\ fee + SF \in Nat \ {0}
    BY TimesNat
  <2> QED
    BY <2>1, DivNat DEF FeeRateFor, Div
<1>2. FeeAmount(amount_f, fee, inclusive) \in Nat
  BY <1>1, MulNat DEF FeeAmount, MaxOf
<1> DEFINE f == FeeAmount(amount_f, fee, inclusive)
<1> HIDE DEF f
<1>3. ToRound(f) \in Nat
  <2>1. 2 * f + SF \in Nat /\ 2 * SF \in Nat \ {0}
    BY <1>2 DEF f
  <2> QED
    BY <2>1, DivNat DEF ToRound
<1>4. TotalFee(amount_f, fee, inclusive) \in Nat
  BY <1>3 DEF TotalFee, f
<1>5. ToFloor(Mul(f, referral_rate)) \in Nat
  <2>1. Mul(f, referral_rate) \in Nat
    <3>1. referral_rate \in Nat
      OBVIOUS
    <3> QED
      BY <1>2, <3>1, MulNat DEF f
  <2> QED
    BY <2>1, FloorFacts
<1> QED
  BY <1>4, <1>5 DEF ReferrerFee, f

\* A natural number in any amount field keeps the record well typed.
LEMMA FieldType ==
    ASSUME NEW l \in LiquidityType, NEW n \in Nat
    PROVE  /\ [l EXCEPT !.available_amount = n] \in LiquidityType
           /\ [l EXCEPT !.borrowed_amount_sf = n] \in LiquidityType
           /\ [l EXCEPT !.accumulated_protocol_fees_sf = n] \in LiquidityType
           /\ [l EXCEPT !.accumulated_referrer_fees_sf = n] \in LiquidityType
           /\ [l EXCEPT !.pending_referrer_fees_sf = n] \in LiquidityType
BY DEF LiquidityType

\* Moving whole tokens in and out moves the depositors' assets by as much.
LEMMA CashFacts ==
    ASSUME NEW l \in LiquidityType, NEW a \in Nat
    PROVE  /\ Deposited(l, a) \in LiquidityType
           /\ TotalSupply(Deposited(l, a)) = TotalSupply(l) + FromInt(a)
           /\ Deposited(l, a) = [l EXCEPT !.available_amount = l.available_amount + a]
           /\ a <= l.available_amount =>
                /\ Withdrawn(l, a) \in LiquidityType
                /\ TotalSupply(Withdrawn(l, a)) = TotalSupply(l) - FromInt(a)
<1>1. l.available_amount \in Nat
  BY DEF LiquidityType
<1>2. /\ FromInt(l.available_amount) \in Int /\ FromInt(a) \in Int
      /\ FromInt(l.available_amount + a) = FromInt(l.available_amount) + FromInt(a)
      /\ FromInt(l.available_amount - a) = FromInt(l.available_amount) - FromInt(a)
  BY <1>1, SFAssumption DEF FromInt
<1> QED
  BY <1>1, <1>2 DEF Deposited, Withdrawn, TotalSupply, LiquidityType

\* A borrow books at least what it hands out.
LEMMA BorrowedFacts ==
    ASSUME NEW l \in LiquidityType, NEW f \in Nat, ToFloor(f) <= l.available_amount
    PROVE  /\ Borrowed(l, f) \in LiquidityType
           /\ Borrowed(l, f).available_amount = l.available_amount - ToFloor(f)
           /\ Borrowed(l, f).cumulative_borrow_rate_bsf = l.cumulative_borrow_rate_bsf
           /\ TotalSupply(Borrowed(l, f)) >= TotalSupply(l)
<1>1. l.available_amount \in Nat /\ l.borrowed_amount_sf \in Nat
  BY DEF LiquidityType
<1>2. ToFloor(f) \in Nat /\ FromInt(ToFloor(f)) \in Nat /\ FromInt(ToFloor(f)) <= f
  BY FloorFacts
<1>3. /\ FromInt(l.available_amount) \in Int
      /\ FromInt(l.available_amount - ToFloor(f))
           = FromInt(l.available_amount) - FromInt(ToFloor(f))
  BY <1>1, <1>2, SFAssumption DEF FromInt
<1>4. Borrowed(l, f) \in LiquidityType
  <2> DEFINE m == [l EXCEPT !.available_amount = l.available_amount - ToFloor(f)]
  <2>1. l.available_amount - ToFloor(f) \in Nat /\ l.borrowed_amount_sf + f \in Nat
    BY <1>1, <1>2
  <2>2. m \in LiquidityType
    BY <2>1, FieldType
  <2>3. [m EXCEPT !.borrowed_amount_sf = l.borrowed_amount_sf + f] \in LiquidityType
    BY <2>1, <2>2, FieldType
  <2> QED
    BY <2>3 DEF Borrowed, LiquidityType
<1>5. TotalSupply(Borrowed(l, f)) = TotalSupply(l) - FromInt(ToFloor(f)) + f
  BY <1>1, <1>2, <1>3 DEF Borrowed, TotalSupply, LiquidityType
<1> QED
  BY <1>1, <1>2, <1>4, <1>5, TotalSupplyInt DEF Borrowed, LiquidityType

\* A repayment brings in at least the debt it settles, even when the position
\* believes it owes more than the pool does.
LEMMA RepaidFacts ==
    ASSUME NEW l \in LiquidityType, NEW n \in Nat, NEW f \in Nat, f <= FromInt(n)
    PROVE  /\ Repaid(l, n, f) \in LiquidityType
           /\ Repaid(l, n, f).available_amount = l.available_amount + n
           /\ Repaid(l, n, f).cumulative_borrow_rate_bsf = l.cumulative_borrow_rate_bsf
           /\ TotalSupply(Repaid(l, n, f)) >= TotalSupply(l)
<1> DEFINE paid == MinOf(f, l.borrowed_amount_sf)
<1>1. l.available_amount \in Nat /\ l.borrowed_amount_sf \in Nat
  BY DEF LiquidityType
<1>2. paid \in Nat /\ paid <= f /\ paid <= l.borrowed_amount_sf
  BY <1>1 DEF MinOf
<1>3. /\ FromInt(l.available_amount) \in Int /\ FromInt(n) \in Int
      /\ FromInt(l.available_amount + n) = FromInt(l.available_amount) + FromInt(n)
  BY <1>1, SFAssumption DEF FromInt
<1>4. Repaid(l, n, f) = [l EXCEPT !.available_amount = l.available_amount + n,
                                  !.borrowed_amount_sf = l.borrowed_amount_sf - paid]
  BY DEF Repaid, LiquidityType
<1> HIDE DEF paid
<1>5. Repaid(l, n, f) \in LiquidityType
  <2> DEFINE m == [l EXCEPT !.available_amount = l.available_amount + n]
  <2>1. l.available_amount + n \in Nat /\ l.borrowed_amount_sf - paid \in Nat
    BY <1>1, <1>2
  <2>2. m \in LiquidityType
    BY <2>1, FieldType
  <2>3. [m EXCEPT !.borrowed_amount_sf = l.borrowed_amount_sf - paid] \in LiquidityType
    BY <2>1, <2>2, FieldType
  <2> QED
    BY <2>3, <1>4
<1>6. TotalSupply(Repaid(l, n, f)) = TotalSupply(l) + FromInt(n) - paid
  BY <1>1, <1>2, <1>3, <1>4 DEF TotalSupply, LiquidityType
<1> QED
  BY <1>1, <1>2, <1>3, <1>4, <1>5, <1>6, TotalSupplyInt DEF LiquidityType

\* Paying out fees takes nothing from the depositors.
LEMMA FeesRedeemedFacts ==
    ASSUME NEW l \in LiquidityType
    PROVE  LET a == RedeemableFees(l) IN
           /\ a \in Nat /\ a <= l.available_amount
           /\ FeesRedeemed(l, a) \in LiquidityType
           /\ TotalSupply(FeesRedeemed(l, a)) = TotalSupply(l)
<1> DEFINE a == RedeemableFees(l)
           fees == l.accumulated_protocol_fees_sf
<1>1. l.available_amount \in Nat /\ fees \in Nat
  BY DEF LiquidityType
<1>2. ToFloor(fees) \in Nat /\ FromInt(ToFloor(fees)) <= fees
  BY <1>1, FloorFacts
<1>3. a \in Nat /\ a <= l.available_amount /\ a <= ToFloor(fees)
  BY <1>1, <1>2 DEF RedeemableFees, MinOf
<1> HIDE DEF a
<1>4. FromInt(a) <= FromInt(ToFloor(fees))
  BY <1>2, <1>3, TimesMono, SFAssumption DEF FromInt
<1>5. /\ FromInt(a) \in Int /\ FromInt(l.available_amount) \in Int
      /\ FromInt(ToFloor(fees)) \in Int
      /\ FromInt(l.available_amount - a) = FromInt(l.available_amount) - FromInt(a)
  BY <1>1, <1>2, <1>3, SFAssumption DEF FromInt
<1>6. FeesRedeemed(l, a) \in LiquidityType
  <2> DEFINE m == [l EXCEPT !.available_amount = l.available_amount - a]
  <2>1. l.available_amount - a \in Nat /\ fees - FromInt(a) \in Nat
    BY <1>1, <1>2, <1>3, <1>4, <1>5
  <2>2. m \in LiquidityType
    BY <2>1, FieldType
  <2>3. [m EXCEPT !.accumulated_protocol_fees_sf = fees - FromInt(a)] \in LiquidityType
    BY <2>1, <2>2, FieldType
  <2> QED
    BY <2>3 DEF FeesRedeemed, LiquidityType
<1>7. TotalSupply(FeesRedeemed(l, a)) = TotalSupply(l)
  BY <1>1, <1>3, <1>5 DEF FeesRedeemed, TotalSupply, LiquidityType
<1> QED
  BY <1>3, <1>6, <1>7 DEF a

\* The same for a referrer, whose own claim bounds the payment too.
LEMMA ReferrerFeesWithdrawnFacts ==
    ASSUME NEW l \in LiquidityType, NEW u \in Nat
    PROVE  LET a == WithdrawableReferrerFees(l, u) IN
           /\ a \in Nat /\ a <= l.available_amount /\ FromInt(a) <= u
           /\ FromInt(a) \in Nat
           /\ ReferrerFeesWithdrawn(l, a) \in LiquidityType
           /\ TotalSupply(ReferrerFeesWithdrawn(l, a)) = TotalSupply(l)
<1> DEFINE a == WithdrawableReferrerFees(l, u)
           fees == l.accumulated_referrer_fees_sf
           claim == MinOf(u, fees)
<1>1. l.available_amount \in Nat /\ fees \in Nat
  BY DEF LiquidityType
<1>2. claim \in Nat /\ claim <= u /\ claim <= fees
  BY <1>1 DEF MinOf
<1>3. a = MinOf(ToFloor(claim), l.available_amount)
  BY DEF WithdrawableReferrerFees
<1> HIDE DEF claim, a
<1>4. ToFloor(claim) \in Nat /\ FromInt(ToFloor(claim)) <= claim
  BY <1>2, FloorFacts
<1>5. a \in Nat /\ a <= l.available_amount /\ a <= ToFloor(claim)
  BY <1>1, <1>3, <1>4 DEF MinOf
<1>6. FromInt(a) <= FromInt(ToFloor(claim))
  BY <1>4, <1>5, TimesMono, SFAssumption DEF FromInt
<1>7. FromInt(a) \in Nat
  BY <1>5, TimesNat, SFAssumption DEF FromInt
<1>8. /\ FromInt(l.available_amount) \in Int /\ FromInt(ToFloor(claim)) \in Int
      /\ FromInt(l.available_amount - a) = FromInt(l.available_amount) - FromInt(a)
  BY <1>1, <1>4, <1>5, SFAssumption DEF FromInt
<1>9. FromInt(a) <= u /\ FromInt(a) <= fees
  BY <1>1, <1>2, <1>4, <1>6, <1>7, <1>8
<1>10. ReferrerFeesWithdrawn(l, a) \in LiquidityType
  <2> DEFINE m == [l EXCEPT !.available_amount = l.available_amount - a]
  <2>1. l.available_amount - a \in Nat /\ fees - FromInt(a) \in Nat
    BY <1>1, <1>5, <1>7, <1>9
  <2>2. m \in LiquidityType
    BY <2>1, FieldType
  <2>3. [m EXCEPT !.accumulated_referrer_fees_sf = fees - FromInt(a)] \in LiquidityType
    BY <2>1, <2>2, FieldType
  <2> QED
    BY <2>3 DEF ReferrerFeesWithdrawn, LiquidityType
<1>11. TotalSupply(ReferrerFeesWithdrawn(l, a)) = TotalSupply(l)
  BY <1>1, <1>5, <1>7, <1>8 DEF ReferrerFeesWithdrawn, TotalSupply, LiquidityType
<1> QED
  BY <1>5, <1>7, <1>9, <1>10, <1>11 DEF a

\* A referrer's share that stays in the vault is nobody else's.
LEMMA ReferrerFeeKeptFacts ==
    ASSUME NEW l \in LiquidityType, NEW n \in Nat
    PROVE  /\ ReferrerFeeKept(l, n) \in LiquidityType
           /\ ReferrerFeeKept(l, n).available_amount = l.available_amount + n
           /\ ReferrerFeeKept(l, n).cumulative_borrow_rate_bsf
                = l.cumulative_borrow_rate_bsf
           /\ TotalSupply(ReferrerFeeKept(l, n)) = TotalSupply(l)
           /\ FromInt(n) \in Nat
<1>1. l.available_amount \in Nat /\ l.accumulated_referrer_fees_sf \in Nat
  BY DEF LiquidityType
<1>2. FromInt(n) \in Nat
  BY TimesNat, SFAssumption DEF FromInt
<1>3. /\ FromInt(l.available_amount) \in Int
      /\ FromInt(l.available_amount + n) = FromInt(l.available_amount) + FromInt(n)
  BY <1>1, SFAssumption DEF FromInt
<1>4. ReferrerFeeKept(l, n) \in LiquidityType
  <2> DEFINE m == [l EXCEPT !.available_amount = l.available_amount + n]
  <2>1. /\ l.available_amount + n \in Nat
        /\ l.accumulated_referrer_fees_sf + FromInt(n) \in Nat
    BY <1>1, <1>2
  <2>2. m \in LiquidityType
    BY <2>1, FieldType
  <2>3. [m EXCEPT !.accumulated_referrer_fees_sf =
           l.accumulated_referrer_fees_sf + FromInt(n)] \in LiquidityType
    BY <2>1, <2>2, FieldType
  <2> QED
    BY <2>3 DEF ReferrerFeeKept, LiquidityType
<1>5. TotalSupply(ReferrerFeeKept(l, n)) = TotalSupply(l)
  BY <1>1, <1>2, <1>3 DEF ReferrerFeeKept, TotalSupply, LiquidityType
<1> QED
  BY <1>1, <1>2, <1>4, <1>5 DEF ReferrerFeeKept, LiquidityType

\* Forgiving a debt costs the depositors exactly that debt.
LEMMA ForgivenFacts ==
    ASSUME NEW l \in LiquidityType, NEW f \in Nat, f <= l.borrowed_amount_sf
    PROVE  /\ Forgiven(l, f) \in LiquidityType
           /\ Forgiven(l, f).available_amount = l.available_amount
           /\ Forgiven(l, f).cumulative_borrow_rate_bsf = l.cumulative_borrow_rate_bsf
           /\ Forgiven(l, f).borrowed_amount_sf = l.borrowed_amount_sf - f
           /\ TotalSupply(Forgiven(l, f)) = TotalSupply(l) - f
<1>1. FromInt(l.available_amount) \in Int
  BY SFAssumption DEF LiquidityType, FromInt
<1> QED
  BY <1>1 DEF Forgiven, TotalSupply, LiquidityType

-----------------------------------------------------------------------------
(* The withdrawal caps.                                                      *)

\* An accepted call of check_and_update_withdrawal_caps keeps the cap well typed.
LEMMA CapAfterType ==
    ASSUME NEW c \in WithdrawalCapsType, NEW t \in Nat, NEW a \in Nat,
           NEW action \in {"Add", "Remove"}, CapAllows(c, a, t, action)
    PROVE  CapAfter(c, a, t, action) \in WithdrawalCapsType
<1>1. 0 \in I64
  BY I64Assumption DEF I64, I64Min
<1>2. RollInterval(c, t) \in WithdrawalCapsType
  BY <1>1 DEF RollInterval, ResetIntervalAndCounter, WithdrawalCapsType
<1>3. CASE Enabled(c)
  <2>1. RollInterval(c, t).current_total + Signed(a, action) \in I64
    BY <1>3 DEF CapAllows
  <2> QED
    BY <1>2, <1>3, <2>1 DEF CapAfter, WithdrawalCapsType
<1>4. CASE ~Enabled(c)
  <2>1. c.current_total \in Int /\ Signed(a, action) \in Int
    BY DEF WithdrawalCapsType, I64, I64Min, Signed
  <2>2. SaturateI64(c.current_total + Signed(a, action)) \in I64
    BY <2>1, I64Assumption DEF SaturateI64, I64, I64Min
  <2> QED
    BY <1>4, <2>2 DEF CapAfter, WithdrawalCapsType
<1> QED
  BY <1>3, <1>4

-----------------------------------------------------------------------------
(* The inductive invariant.                                                  *)

\* The reserve's money: well typed, backed by tokens, never negative.
Money ==
    /\ liquidity \in LiquidityType
    /\ liquidity.cumulative_borrow_rate_bsf > 0
    /\ circulating \in Nat
    /\ BooksMatchTokens
    /\ Solvent

\* Everything that decides when an operation is allowed.  A retired reserve is
\* stale, and the last refresh never lies in the future.
Control ==
    /\ slot \in Nat
    /\ version \in {"current", "deprecated"}
    /\ last_update \in LastUpdateType
    /\ last_update.slot <= slot
    /\ version = "deprecated" => last_update.stale
    /\ crossed \in [deposit : Nat, borrow : Nat]
    /\ caps \in [deposit : WithdrawalCapsType, debt : WithdrawalCapsType]
    /\ unclaimed \in [Referrers -> Nat]
    /\ referral \in 0 .. SF
    /\ flash \subseteq Nat

\* A position never knows a higher borrow rate than the reserve, and one that
\* was refreshed in this slot knows the rate the reserve got in this slot.
PositionOK(b, rate, refreshed_at, now) ==
    /\ b \in BorrowType
    /\ b.last_update.slot <= now
    /\ b.borrowed_amount_sf > 0 =>
          /\ b.cumulative_borrow_rate_bsf > 0
          /\ b.cumulative_borrow_rate_bsf <= rate
    /\ b.borrowed_amount_sf > 0 /\ ~b.last_update.stale /\ b.last_update.slot = now =>
          /\ refreshed_at = now
          /\ b.cumulative_borrow_rate_bsf = rate

Positions ==
    /\ borrow \in [Obligations -> BorrowType]
    /\ \A o \in Obligations :
         PositionOK(borrow[o], liquidity.cumulative_borrow_rate_bsf,
                    last_update.slot, slot)

IInv == Money /\ Control /\ Positions

\* The invariants checked by TLC are parts of the inductive one.
LEMMA IInvImplies ==
    ASSUME IInv
    PROVE  TypeOK /\ BooksMatchTokens /\ Solvent /\ FreshDebtIsCurrent
<1> USE ReserveAssumption
<1>1. supply \in Nat /\ vault \in Nat
  BY DEF IInv, Money, BooksMatchTokens, LiquidityType
<1>2. TypeOK
  BY <1>1 DEF IInv, Money, Control, Positions, TypeOK
<1>3. FreshDebtIsCurrent
  <2> SUFFICES ASSUME NEW o \in Obligations, HasBorrow(o), ObligationFresh(o, NONE)
               PROVE  borrow[o].cumulative_borrow_rate_bsf
                        = liquidity.cumulative_borrow_rate_bsf
    BY DEF FreshDebtIsCurrent
  <2>1. /\ borrow[o] \in BorrowType
        /\ borrow[o].last_update.slot <= slot
        /\ borrow[o].last_update.slot \in Nat /\ slot \in Nat
    BY DEF IInv, Control, Positions, PositionOK, BorrowType, LastUpdateType
  <2>2. ~borrow[o].last_update.stale /\ borrow[o].last_update.slot = slot
    BY <2>1 DEF ObligationFresh, IsStale, STALE_AFTER_SLOTS_ELAPSED
  <2> QED
    BY <2>2 DEF HasBorrow, IInv, Positions, PositionOK
<1> QED
  BY <1>2, <1>3 DEF IInv, Money

\* Init satisfies the invariant: the seed deposit backs the seed supply.
LEMMA InitIInv ==
    ASSUME Init
    PROVE  IInv
<1> USE ReserveAssumption, SFAssumption
<1>1. Money
  <2>1. liquidity \in LiquidityType /\ liquidity.cumulative_borrow_rate_bsf > 0
        /\ liquidity.available_amount = MinInitialDeposit
    BY DEF Init, NewReserveLiquidity, LiquidityType
  <2>2. TotalSupply(liquidity) = MinInitialDeposit * SF
    BY DEF Init, NewReserveLiquidity, TotalSupply, FromInt
  <2>3. MinInitialDeposit * SF > 0
    BY SMT
  <2>4. vault = MinInitialDeposit /\ supply = MinInitialDeposit /\ circulating = 0
    BY DEF Init
  <2> QED
    BY <2>1, <2>2, <2>3, <2>4 DEF Money, BooksMatchTokens, Solvent
<1>2. NewLastUpdate(1) \in LastUpdateType /\ NewLastUpdate(1).slot = 1
  BY DEF NewLastUpdate, LastUpdateType, PriceLevel
<1>3. Control
  BY <1>2 DEF Init, Control
<1>4. Positions
  <2>1. NoBorrow(NewLastUpdate(1)) \in BorrowType
    BY <1>2 DEF NoBorrow, BorrowType
  <2>2. \A o \in Obligations : borrow[o] = NoBorrow(NewLastUpdate(1))
    BY DEF Init
  <2>3. slot = 1 /\ borrow \in [Obligations -> BorrowType]
    BY <2>1 DEF Init
  <2> QED
    BY <1>2, <2>1, <2>2, <2>3 DEF Positions, PositionOK, NoBorrow
<1> QED
  BY <1>1, <1>3, <1>4 DEF IInv

-----------------------------------------------------------------------------
(* Steps shared by many actions.                                             *)

\* Stamps: a refresh is fresh and current, an operation leaves it stale.
LEMMA StampFacts ==
    ASSUME NEW t \in Nat, NEW level \in PriceLevel, NEW lu \in LastUpdateType
    PROVE  /\ UpdateSlot(t, level) \in LastUpdateType
           /\ UpdateSlot(t, level).slot = t
           /\ MarkStale(lu) \in LastUpdateType
           /\ MarkStale(lu).slot = lu.slot
           /\ MarkStale(lu).stale
           /\ lu.slot \in Nat
BY DEF UpdateSlot, MarkStale, LastUpdateType

\* The price levels a refresh may leave are levels.
LEMMA KeptLevels ==
    ASSUME Control
    PROVE  KeptPriceLevels \subseteq PriceLevel /\ PriceLevels \subseteq PriceLevel
BY ReserveAssumption DEF Control, KeptPriceLevels, LastUpdateType, PriceLevel

\* A retired reserve is never fresh.
LEMMA FreshIsCurrent ==
    ASSUME Control, NEW level \in PriceLevel, ReserveFresh(level)
    PROVE  /\ version = "current"
           /\ ~last_update.stale
           /\ last_update.slot = slot
<1>1. last_update.slot \in Nat /\ last_update.slot <= slot /\ slot \in Nat
  BY DEF Control, LastUpdateType
<1>2. ~last_update.stale /\ ~(slot - last_update.slot >= 1)
  BY DEF ReserveFresh, IsStale, STALE_AFTER_SLOTS_ELAPSED
<1> QED
  BY <1>1, <1>2 DEF Control

\* How the reserve's rate and stamp may move: the rate only with the stamp.
RateStep ==
    /\ slot' = slot
    /\ liquidity'.cumulative_borrow_rate_bsf \in Nat
    /\ liquidity'.cumulative_borrow_rate_bsf >= liquidity.cumulative_borrow_rate_bsf
    /\ \/ last_update'.slot = slot
       \/ /\ last_update'.slot = last_update.slot
          /\ liquidity'.cumulative_borrow_rate_bsf = liquidity.cumulative_borrow_rate_bsf
    /\ last_update.slot = slot =>
          liquidity'.cumulative_borrow_rate_bsf = liquidity.cumulative_borrow_rate_bsf

\* Interest accrued by a refresh, and that it is accrued once per slot.
LEMMA RefreshedFacts ==
    ASSUME IInv, NEW v \in VariableBases
    PROVE  LET l == Refreshed(v) IN
           /\ l \in LiquidityType
           /\ l.available_amount = liquidity.available_amount
           /\ TotalSupply(l) >= TotalSupply(liquidity)
           /\ TotalSupply(l) \in Int /\ TotalSupply(liquidity) \in Int
           /\ l.cumulative_borrow_rate_bsf \in Nat
           /\ l.cumulative_borrow_rate_bsf >= liquidity.cumulative_borrow_rate_bsf
           /\ l.cumulative_borrow_rate_bsf > 0
           /\ last_update.slot = slot => l = liquidity
           /\ version = "current" => TotalSupply(l) > 0
<1> DEFINE l == Refreshed(v)
<1>1. v \in Nat /\ referral \in 0 .. SF /\ liquidity \in LiquidityType
  BY ReserveAssumption DEF IInv, Control, Money
<1>2. SlotsElapsed \in Nat /\ (last_update.slot = slot => SlotsElapsed = 0)
  BY DEF IInv, Control, SlotsElapsed, LastUpdateType
<1>3. /\ l \in LiquidityType
      /\ l.available_amount = liquidity.available_amount
      /\ TotalSupply(l) >= TotalSupply(liquidity)
      /\ l.cumulative_borrow_rate_bsf >= liquidity.cumulative_borrow_rate_bsf
      /\ SlotsElapsed = 0 => l = liquidity
  BY <1>1, <1>2, AccrueFacts DEF Refreshed
<1> HIDE DEF l
<1>4. TotalSupply(l) \in Int /\ TotalSupply(liquidity) \in Int
  BY <1>1, <1>3, TotalSupplyInt
<1>5. /\ l.cumulative_borrow_rate_bsf \in Nat
      /\ liquidity.cumulative_borrow_rate_bsf \in Nat
      /\ liquidity.cumulative_borrow_rate_bsf > 0
  BY <1>1, <1>3 DEF LiquidityType, IInv, Money
<1>6. version = "current" => TotalSupply(l) > 0
  BY <1>3, <1>4 DEF IInv, Money, Solvent
<1> QED
  BY <1>2, <1>3, <1>4, <1>5, <1>6 DEF l

\* Limit timestamps are timestamps.
LEMMA LimitTimestampsType ==
    ASSUME Control, NEW l
    PROVE  LimitTimestamps(l) \in [deposit : Nat, borrow : Nat]
BY DEF Control, LimitTimestamps

\* A charge on either withdrawal cap keeps both well typed.
LEMMA CapStepType ==
    ASSUME Control, NEW kind \in {"deposit", "debt"}, NEW a \in Nat,
           NEW action \in {"Add", "Remove"}, CapStep(kind, a, action)
    PROVE  caps' \in [deposit : WithdrawalCapsType, debt : WithdrawalCapsType]
<1>1. slot \in Nat
      /\ caps \in [deposit : WithdrawalCapsType, debt : WithdrawalCapsType]
  BY DEF Control
<1>2. caps[kind] \in WithdrawalCapsType
  BY <1>1
<1> DEFINE new == CapAfter(caps[kind], a, slot, action)
<1>3. new \in WithdrawalCapsType
  BY <1>1, <1>2, CapAfterType DEF CapStep
<1> HIDE DEF new
<1>4. caps' = caps \/ caps' = [caps EXCEPT ![kind] = new]
  BY DEF CapStep, new
<1> QED
  BY <1>1, <1>3, <1>4

\* Anything that mints and burns nothing and does not lower the depositors'
\* assets is harmless, on a live reserve and on a retired one.
LEMMA MoneyKept ==
    ASSUME IInv, version' = version,
           liquidity' \in LiquidityType,
           liquidity'.cumulative_borrow_rate_bsf > 0,
           TotalSupply(liquidity') >= TotalSupply(liquidity),
           supply' = supply, circulating' = circulating,
           vault' = liquidity'.available_amount
    PROVE  Money' /\ Pool!PoolNext
<1>1. TotalSupply(liquidity') \in Int /\ TotalSupply(liquidity) \in Int
  BY TotalSupplyInt DEF IInv, Money
<1>2. /\ supply \in Nat /\ supply >= MinInitialDeposit /\ circulating \in Nat
      /\ supply = MinInitialDeposit + circulating
  BY ReserveAssumption DEF IInv, Money, BooksMatchTokens
<1>3. CASE version = "current"
  <2>1. TotalSupply(liquidity) > 0 /\ TotalSupply(liquidity') > 0
    BY <1>1, <1>3 DEF IInv, Money, Solvent
  <2>2. Money'
    BY <1>2, <2>1 DEF Money, BooksMatchTokens, Solvent
  <2>3. TotalSupply(liquidity') * supply >= TotalSupply(liquidity) * supply'
    BY <1>1, <1>2, TimesMono
  <2> QED
    BY <1>2, <1>3, <2>1, <2>2, <2>3 DEF Pool!PoolNext, Pool!Operate
<1>4. CASE version # "current"
  BY <1>2, <1>4 DEF Money, BooksMatchTokens, Solvent, Pool!PoolNext, Pool!Closed
<1> QED
  BY <1>3, <1>4

\* A redemption of collateral that somebody holds, on any liquidity the
\* depositors are not worse off with: the others keep their share, and the
\* seed collateral keeps the pool from emptying.
LEMMA MoneyRedeemed ==
    ASSUME IInv, version = "current", version' = version,
           NEW l \in LiquidityType, l.cumulative_borrow_rate_bsf > 0,
           TotalSupply(l) >= TotalSupply(liquidity),
           NEW c \in Nat, Redeem(l, c, CollateralToLiquidity(l, supply, c)),
           vault' = l.available_amount - CollateralToLiquidity(l, supply, c)
    PROVE  /\ Money' /\ Pool!PoolNext
           /\ liquidity'.cumulative_borrow_rate_bsf = l.cumulative_borrow_rate_bsf
           /\ crossed' = LimitTimestamps(liquidity')
<1> DEFINE T == TotalSupply(l)
           a == CollateralToLiquidity(l, supply, c)
           T0 == TotalSupply(liquidity)
           p == FromInt(a)
<1>1. T \in Int /\ T0 \in Int /\ T0 > 0 /\ T >= T0 /\ T > 0
  BY TotalSupplyInt DEF IInv, Money, Solvent
<1>2. /\ supply \in Nat \ {0} /\ circulating \in Nat /\ c <= circulating
      /\ supply = MinInitialDeposit + circulating
      /\ MinInitialDeposit \in Nat \ {0}
  BY ReserveAssumption DEF IInv, Money, BooksMatchTokens, Redeem
<1>3. a \in Nat /\ p * supply <= c * T
  BY <1>1, <1>2, RedeemPaysAtMostShare
<1>4. a <= l.available_amount
  BY DEF Redeem
<1>5. /\ liquidity' = Withdrawn(l, a)
      /\ supply' = supply - c /\ circulating' = circulating - c
      /\ crossed' = LimitTimestamps(liquidity')
  BY DEF Redeem
<1>6. /\ liquidity' \in LiquidityType
      /\ TotalSupply(liquidity') = T - p
      /\ liquidity'.available_amount = l.available_amount - a
      /\ liquidity'.cumulative_borrow_rate_bsf = l.cumulative_borrow_rate_bsf
  BY <1>3, <1>4, <1>5, CashFacts DEF Withdrawn, LiquidityType
<1>7. p \in Int
  BY <1>3, SFAssumption DEF FromInt
<1> HIDE DEF T, T0, a, p
<1>8. (T - p) * supply >= T * (supply - c)
  BY <1>1, <1>2, <1>3, <1>7, ShareOfWhole
<1>9. supply - c \in Nat /\ supply - c > 0 /\ supply - c >= MinInitialDeposit
  BY <1>2
<1>10. T - p > 0
  <2>1. T * (supply - c) > 0
    BY <1>1, <1>9, SMT
  <2>2. (T - p) * supply > 0
    BY <1>1, <1>2, <1>7, <1>8, <1>9, <2>1, SMT
  <2> QED
    BY <1>1, <1>2, <1>7, <2>2, SMT
<1>11. (T - p) * supply >= T0 * (supply - c)
  <2>1. T0 * (supply - c) <= T * (supply - c)
    BY <1>1, <1>9, TimesMono
  <2> QED
    BY <1>1, <1>2, <1>7, <1>8, <1>9, <2>1, SMT
<1>12. Money'
  BY <1>2, <1>5, <1>6, <1>9, <1>10 DEF Money, BooksMatchTokens, Solvent, a
<1>13. Pool!Operate
  BY <1>5, <1>6, <1>9, <1>10, <1>11 DEF Pool!Operate, T0
<1> QED
  BY <1>5, <1>6, <1>12, <1>13 DEF Pool!PoolNext

\* Positions survive whatever happens to the reserve, because the rate moves
\* only in a slot in which no position is fresh yet.
LEMMA PositionsSame ==
    ASSUME IInv, RateStep, borrow' = borrow
    PROVE  Positions'
<1> DEFINE rate == liquidity.cumulative_borrow_rate_bsf
           rate2 == liquidity'.cumulative_borrow_rate_bsf
<1>1. rate \in Nat /\ rate2 \in Nat /\ rate <= rate2 /\ slot' = slot
  BY DEF IInv, Money, LiquidityType, RateStep
<1> SUFFICES ASSUME NEW o \in Obligations
             PROVE  PositionOK(borrow[o], rate2, last_update'.slot, slot)
  BY <1>1 DEF IInv, Positions
<1>2. PositionOK(borrow[o], rate, last_update.slot, slot)
  BY DEF IInv, Positions
<1>3. /\ \/ last_update'.slot = slot
         \/ last_update'.slot = last_update.slot /\ rate2 = rate
      /\ last_update.slot = slot => rate2 = rate
  BY DEF RateStep
<1>4. borrow[o].cumulative_borrow_rate_bsf \in Nat
  BY <1>2 DEF PositionOK, BorrowType
<1> HIDE DEF rate, rate2
<1> QED
  BY <1>1, <1>2, <1>3, <1>4 DEF PositionOK

\* The same when one position is replaced by a good one.
LEMMA PositionsReplaced ==
    ASSUME IInv, RateStep, NEW o \in Obligations, NEW b,
           PositionOK(b, liquidity'.cumulative_borrow_rate_bsf,
                      last_update'.slot, slot),
           borrow' = [borrow EXCEPT ![o] = b]
    PROVE  Positions'
<1> DEFINE rate == liquidity.cumulative_borrow_rate_bsf
           rate2 == liquidity'.cumulative_borrow_rate_bsf
<1>1. rate \in Nat /\ rate2 \in Nat /\ rate <= rate2 /\ slot' = slot
  BY DEF IInv, Money, LiquidityType, RateStep
<1>2. borrow \in [Obligations -> BorrowType] /\ b \in BorrowType
  BY DEF IInv, Positions, PositionOK
<1>3. /\ \/ last_update'.slot = slot
         \/ last_update'.slot = last_update.slot /\ rate2 = rate
      /\ last_update.slot = slot => rate2 = rate
  BY DEF RateStep
<1>4. ASSUME NEW q \in Obligations
      PROVE  PositionOK(borrow'[q], rate2, last_update'.slot, slot)
  <2>1. CASE q = o
    BY <1>2, <2>1
  <2>2. CASE q # o
    <3>1. borrow'[q] = borrow[q]
      BY <1>2, <2>2
    <3>2. PositionOK(borrow[q], rate, last_update.slot, slot)
      BY DEF IInv, Positions
    <3>3. borrow[q].cumulative_borrow_rate_bsf \in Nat
      BY <3>2 DEF PositionOK, BorrowType
    <3> HIDE DEF rate, rate2
    <3> QED
      BY <1>1, <1>3, <3>1, <3>2, <3>3 DEF PositionOK
  <2> QED
    BY <2>1, <2>2
<1> QED
  BY <1>1, <1>2, <1>4 DEF Positions

\* What is known of one position.
LEMMA PositionFacts ==
    ASSUME IInv, NEW o \in Obligations
    PROVE  /\ borrow[o] \in BorrowType
           /\ borrow[o].borrowed_amount_sf \in Nat
           /\ borrow[o].cumulative_borrow_rate_bsf \in Nat
           /\ borrow[o].last_update \in LastUpdateType
           /\ borrow[o].last_update.slot \in Nat
           /\ borrow[o].last_update.slot <= slot
           /\ HasBorrow(o) =>
                /\ borrow[o].cumulative_borrow_rate_bsf > 0
                /\ borrow[o].cumulative_borrow_rate_bsf
                     <= liquidity.cumulative_borrow_rate_bsf
           /\ liquidity.cumulative_borrow_rate_bsf \in Nat
           /\ slot \in Nat
<1>1. borrow[o] \in BorrowType /\ slot \in Nat /\ liquidity \in LiquidityType
  BY DEF IInv, Money, Control, Positions
<1>2. PositionOK(borrow[o], liquidity.cumulative_borrow_rate_bsf, last_update.slot, slot)
  BY DEF IInv, Positions
<1>3. borrow[o].last_update \in LastUpdateType /\ borrow[o].last_update.slot \in Nat
  BY <1>1 DEF BorrowType, LastUpdateType
<1>4. /\ borrow[o].borrowed_amount_sf \in Nat
      /\ borrow[o].cumulative_borrow_rate_bsf \in Nat
      /\ liquidity.cumulative_borrow_rate_bsf \in Nat
  BY <1>1 DEF BorrowType, LiquidityType
<1> QED
  BY <1>1, <1>2, <1>3, <1>4 DEF PositionOK, HasBorrow

\* A stale position is good as soon as it is well typed and not ahead.
LEMMA StalePositionOK ==
    ASSUME NEW amount \in Nat, NEW rate \in Nat, NEW lu \in LastUpdateType,
           NEW top \in Nat, NEW refreshed_at, NEW now \in Nat, lu.slot <= now,
           amount > 0 => rate > 0 /\ rate <= top
    PROVE  PositionOK([borrowed_amount_sf |-> amount,
                       cumulative_borrow_rate_bsf |-> rate,
                       last_update |-> MarkStale(lu)], top, refreshed_at, now)
BY DEF PositionOK, BorrowType, MarkStale, LastUpdateType

\* Marking an obligation stale.
LEMMA PositionsMarked ==
    ASSUME IInv, RateStep, NEW o \in Obligations,
           borrow' = [borrow EXCEPT ![o].last_update = MarkStale(@)]
    PROVE  Positions'
<1> DEFINE b == [borrowed_amount_sf |-> borrow[o].borrowed_amount_sf,
                 cumulative_borrow_rate_bsf |-> borrow[o].cumulative_borrow_rate_bsf,
                 last_update |-> MarkStale(borrow[o].last_update)]
<1>1. borrow' = [borrow EXCEPT ![o] = b]
  <2>1. borrow[o] \in BorrowType
    BY PositionFacts
  <2>2. [borrow[o] EXCEPT !.last_update = MarkStale(borrow[o].last_update)] = b
    BY <2>1 DEF BorrowType
  <2>3. borrow' = [borrow EXCEPT ![o] =
           [borrow[o] EXCEPT !.last_update = MarkStale(borrow[o].last_update)]]
    BY Zenon
  <2> QED
    BY <2>2, <2>3, Zenon
<1>2. /\ liquidity'.cumulative_borrow_rate_bsf \in Nat
      /\ liquidity'.cumulative_borrow_rate_bsf >= liquidity.cumulative_borrow_rate_bsf
  BY DEF RateStep
<1>3. PositionOK(b, liquidity'.cumulative_borrow_rate_bsf, last_update'.slot, slot)
  BY <1>2, PositionFacts, StalePositionOK DEF HasBorrow
<1> HIDE DEF b
<1> QED
  BY <1>1, <1>3, PositionsReplaced

\* Settling part or all of a debt.
LEMMA PositionsSettled ==
    ASSUME IInv, RateStep, NEW o \in Obligations, NEW position \in BorrowType,
           position.last_update.slot <= slot,
           position.borrowed_amount_sf > 0 =>
              /\ position.cumulative_borrow_rate_bsf > 0
              /\ position.cumulative_borrow_rate_bsf
                   <= liquidity.cumulative_borrow_rate_bsf,
           NEW settle_f \in Nat, settle_f <= position.borrowed_amount_sf,
           Settle(o, position, settle_f)
    PROVE  Positions'
<1> DEFINE lu == position.last_update
           debt == position.borrowed_amount_sf
           cum == position.cumulative_borrow_rate_bsf
           b0 == [borrowed_amount_sf |-> 0, cumulative_borrow_rate_bsf |-> 0,
                  last_update |-> MarkStale(lu)]
           b1 == [borrowed_amount_sf |-> debt - settle_f,
                  cumulative_borrow_rate_bsf |-> cum,
                  last_update |-> MarkStale(lu)]
<1>1. /\ lu \in LastUpdateType /\ debt \in Nat /\ cum \in Nat /\ slot \in Nat
      /\ debt - settle_f \in Nat
      /\ liquidity.cumulative_borrow_rate_bsf \in Nat
  BY PositionFacts DEF BorrowType
<1>2. /\ liquidity'.cumulative_borrow_rate_bsf \in Nat
      /\ liquidity'.cumulative_borrow_rate_bsf >= liquidity.cumulative_borrow_rate_bsf
  BY DEF RateStep
<1>3. PositionOK(b0, liquidity'.cumulative_borrow_rate_bsf, last_update'.slot, slot)
  BY <1>1, <1>2, StalePositionOK
<1>4. PositionOK(b1, liquidity'.cumulative_borrow_rate_bsf, last_update'.slot, slot)
  <2>1. debt - settle_f > 0 =>
           cum > 0 /\ cum <= liquidity'.cumulative_borrow_rate_bsf
    BY <1>1, <1>2
  <2> QED
    BY <1>1, <1>2, <2>1, StalePositionOK
<1>5. CASE settle_f = debt
  <2>1. borrow' = [borrow EXCEPT ![o] = b0]
    BY <1>5 DEF Settle, NoBorrow
  <2> HIDE DEF b0
  <2> QED
    BY <1>3, <2>1, PositionsReplaced
<1>6. CASE settle_f # debt
  <2>1. [position EXCEPT !.borrowed_amount_sf = @ - settle_f,
                         !.last_update = MarkStale(lu)] = b1
    <3> DEFINE m == [position EXCEPT !.borrowed_amount_sf = debt - settle_f]
    <3>1. /\ m.last_update = lu /\ m.cumulative_borrow_rate_bsf = cum
          /\ m.borrowed_amount_sf = debt - settle_f /\ m \in BorrowType
      BY <1>1 DEF BorrowType
    <3>2. [position EXCEPT !.borrowed_amount_sf = @ - settle_f,
                           !.last_update = MarkStale(lu)]
            = [m EXCEPT !.last_update = MarkStale(lu)]
      OBVIOUS
    <3> HIDE DEF m
    <3>3. [m EXCEPT !.last_update = MarkStale(lu)] = b1
      BY <3>1 DEF BorrowType
    <3> QED
      BY <3>2, <3>3
  <2>2. borrow' = [borrow EXCEPT ![o] = b1]
    BY <1>6, <2>1 DEF Settle
  <2> HIDE DEF b1
  <2> QED
    BY <1>4, <2>2, PositionsReplaced
<1> QED
  BY <1>5, <1>6

-----------------------------------------------------------------------------
(* The actions, one lemma each: the invariant is kept, and the step is one   *)
(* the abstract share pool allows.                                           *)

\* Time passes: no position is fresh in the new slot.
LEMMA TickStep ==
    ASSUME IInv, Tick
    PROVE  IInv' /\ Pool!PoolNext
<1>1. /\ slot \in Nat /\ slot' = slot + 1
      /\ UNCHANGED <<liquidity, supply, version, last_update, crossed, caps, borrow,
                     unclaimed, referral, flash, vault, circulating>>
  BY DEF IInv, Control, Tick, pool, market
<1>2. Money' /\ Pool!PoolNext
  BY <1>1, MoneyKept, TotalSupplyInt DEF IInv, Money, BooksMatchTokens
<1>3. Control'
  BY <1>1 DEF IInv, Control, LastUpdateType
<1>4. Positions'
  <2> SUFFICES ASSUME NEW o \in Obligations
               PROVE  PositionOK(borrow[o], liquidity.cumulative_borrow_rate_bsf,
                                 last_update.slot, slot')
    BY <1>1 DEF IInv, Positions
  <2>1. PositionOK(borrow[o], liquidity.cumulative_borrow_rate_bsf,
                   last_update.slot, slot)
    BY DEF IInv, Positions
  <2> QED
    BY <1>1, <2>1, PositionFacts DEF PositionOK
<1> QED
  BY <1>2, <1>3, <1>4 DEF IInv

\* A refresh, alone or as the first half of another handler, moves the rate
\* and the stamp together.
LEMMA RefreshedRateStep ==
    ASSUME IInv, NEW v \in VariableBases, slot' = slot, last_update'.slot = slot,
           liquidity'.cumulative_borrow_rate_bsf
              = Refreshed(v).cumulative_borrow_rate_bsf
    PROVE  RateStep
BY RefreshedFacts DEF RateStep

\* refresh_reserve
LEMMA RefreshReserveStep ==
    ASSUME IInv, NEW v \in VariableBases, NEW p \in PriceLevel, RefreshReserve(v, p)
    PROVE  IInv' /\ Pool!PoolNext
<1>1. /\ liquidity' = Refreshed(v)
      /\ last_update' = UpdateSlot(slot, p)
      /\ crossed' = LimitTimestamps(liquidity')
      /\ version = "current"
      /\ UNCHANGED <<slot, supply, version, caps, borrow, unclaimed, referral,
                     flash, vault, circulating>>
  BY DEF RefreshReserve, market
<1>2. slot \in Nat /\ vault = liquidity.available_amount
  BY DEF IInv, Control, Money, BooksMatchTokens
<1>3. last_update' \in LastUpdateType /\ last_update'.slot = slot
  BY <1>1, <1>2, StampFacts DEF IInv, Control
<1>4. Money' /\ Pool!PoolNext
  BY <1>1, <1>2, RefreshedFacts, MoneyKept
<1>5. Control'
  BY <1>1, <1>2, <1>3, LimitTimestampsType DEF IInv, Control
<1>6. Positions'
  BY <1>1, <1>3, RefreshedRateStep, PositionsSame
<1> QED
  BY <1>4, <1>5, <1>6 DEF IInv

\* update_reserve_config, also on a retired reserve
LEMMA UpdateReserveConfigStep ==
    ASSUME IInv, NEW v \in VariableBases, NEW p \in PriceLevel,
           UpdateReserveConfig(v, p)
    PROVE  IInv' /\ Pool!PoolNext
<1>1. /\ liquidity' = Refreshed(v)
      /\ last_update' = MarkStale(UpdateSlot(slot, p))
      /\ UNCHANGED <<slot, supply, version, crossed, caps, borrow, unclaimed,
                     referral, flash, vault, circulating>>
  BY DEF UpdateReserveConfig, ReserveUsed, market
<1>2. slot \in Nat /\ vault = liquidity.available_amount
  BY DEF IInv, Control, Money, BooksMatchTokens
<1>3. /\ last_update' \in LastUpdateType /\ last_update'.slot = slot
      /\ last_update'.stale
  BY <1>1, <1>2, StampFacts DEF IInv, Control
<1>4. Money' /\ Pool!PoolNext
  BY <1>1, <1>2, RefreshedFacts, MoneyKept
<1>5. Control'
  BY <1>1, <1>2, <1>3 DEF IInv, Control
<1>6. Positions'
  BY <1>1, <1>3, RefreshedRateStep, PositionsSame
<1> QED
  BY <1>4, <1>5, <1>6 DEF IInv

\* deposit_reserve_liquidity: the depositor pays at least the share received.
LEMMA DepositStep ==
    ASSUME IInv, NEW amount \in Nat, NEW v \in VariableBases, NEW p \in PriceLevel,
           DepositReserveLiquidity(amount, v, p)
    PROVE  IInv' /\ Pool!PoolNext
<1> DEFINE l == Refreshed(v)
           T == TotalSupply(l)
           T0 == TotalSupply(liquidity)
           c == LiquidityToCollateral(l, supply, amount)
           a == CollateralToLiquidityCeil(l, supply, c)
           paid == FromInt(a)
<1>1. /\ version = "current"
      /\ CapStep("deposit", a, "Remove")
      /\ liquidity' = Deposited(l, a)
      /\ supply' = supply + c
      /\ vault' = vault + a
      /\ circulating' = circulating + c
      /\ last_update' = MarkStale(UpdateSlot(slot, p))
      /\ UNCHANGED <<slot, version, crossed, borrow, unclaimed, referral, flash>>
  BY DEF DepositReserveLiquidity, ReserveUsed, market
<1>2. /\ supply \in Nat \ {0} /\ circulating \in Nat
      /\ supply = MinInitialDeposit + circulating
      /\ MinInitialDeposit \in Nat \ {0}
      /\ vault = liquidity.available_amount
      /\ slot \in Nat
  BY ReserveAssumption DEF IInv, Money, BooksMatchTokens, Control
<1>3. /\ l \in LiquidityType /\ l.available_amount = vault
      /\ T \in Int /\ T0 \in Int /\ T >= T0 /\ T > 0
      /\ l.cumulative_borrow_rate_bsf > 0
  BY <1>1, <1>2, RefreshedFacts
<1>4. c \in Nat
  BY <1>2, <1>3, LiquidityToCollateralNat
<1> HIDE DEF c
<1>5. a \in Nat /\ paid * supply >= c * T
  BY <1>2, <1>3, <1>4, DepositPaysAtLeastShare
<1> HIDE DEF a
<1>6. paid \in Nat
  BY <1>5, SFAssumption, TimesNat DEF FromInt
<1>7. /\ liquidity' \in LiquidityType
      /\ TotalSupply(liquidity') = T + paid
      /\ liquidity'.available_amount = vault + a
      /\ liquidity'.cumulative_borrow_rate_bsf = l.cumulative_borrow_rate_bsf
  BY <1>1, <1>3, <1>5, CashFacts DEF LiquidityType
<1>8. /\ last_update' \in LastUpdateType /\ last_update'.slot = slot
      /\ last_update'.stale
  BY <1>1, <1>2, StampFacts DEF IInv, Control
<1>9. caps' \in [deposit : WithdrawalCapsType, debt : WithdrawalCapsType]
  BY <1>1, <1>5, CapStepType DEF IInv
<1>10. RateStep
  BY <1>1, <1>7, <1>8, RefreshedRateStep
<1> HIDE DEF l, T, T0, paid
<1>11. (T + paid) * supply >= T0 * (supply + c)
  <2>1. (T + paid) * supply >= T * (supply + c)
    BY <1>2, <1>3, <1>4, <1>5, <1>6, ShareOfWhole
  <2>2. T0 * (supply + c) <= T * (supply + c)
    BY <1>2, <1>3, <1>4, TimesMono
  <2> QED
    BY <1>2, <1>3, <1>4, <1>6, <2>1, <2>2, SMT
<1>12. T + paid > 0
  BY <1>3, <1>6
<1>13. Money'
  BY <1>1, <1>2, <1>3, <1>4, <1>7, <1>12 DEF Money, BooksMatchTokens, Solvent
<1>14. Pool!PoolNext
  <2>1. supply + c >= MinInitialDeposit
    BY <1>2, <1>4
  <2> QED
    BY <1>1, <1>7, <1>11, <1>12, <2>1 DEF Pool!PoolNext, Pool!Operate, T0
<1>15. Control'
  BY <1>1, <1>2, <1>8, <1>9 DEF IInv, Control
<1>16. Positions'
  BY <1>1, <1>10, PositionsSame
<1> QED
  BY <1>13, <1>14, <1>15, <1>16 DEF IInv

\* redeem_reserve_collateral
LEMMA RedeemStep ==
    ASSUME IInv, NEW c \in Nat, NEW v \in VariableBases, NEW p \in PriceLevel,
           RedeemReserveCollateral(c, v, p)
    PROVE  IInv' /\ Pool!PoolNext
<1> DEFINE l == Refreshed(v)
           a == CollateralToLiquidity(l, supply, c)
<1>1. /\ version = "current"
      /\ Redeem(l, c, a)
      /\ vault' = vault - a
      /\ CapStep("deposit", a, "Add")
      /\ last_update' = MarkStale(UpdateSlot(slot, p))
      /\ UNCHANGED <<slot, version, borrow, unclaimed, referral, flash>>
  BY DEF RedeemReserveCollateral, ReserveUsed, market
<1>2. slot \in Nat /\ vault = liquidity.available_amount /\ supply \in Nat \ {0}
  BY ReserveAssumption DEF IInv, Control, Money, BooksMatchTokens
<1>3. /\ l \in LiquidityType /\ l.available_amount = vault
      /\ TotalSupply(l) >= TotalSupply(liquidity)
      /\ TotalSupply(l) > 0
      /\ l.cumulative_borrow_rate_bsf > 0
  BY <1>1, <1>2, RefreshedFacts
<1>4. a \in Nat
  BY <1>2, <1>3, RedeemPaysAtMostShare
<1>5. /\ Money' /\ Pool!PoolNext
      /\ liquidity'.cumulative_borrow_rate_bsf = l.cumulative_borrow_rate_bsf
      /\ crossed' = LimitTimestamps(liquidity')
  BY <1>1, <1>2, <1>3, MoneyRedeemed
<1>6. /\ last_update' \in LastUpdateType /\ last_update'.slot = slot
      /\ last_update'.stale
  BY <1>1, <1>2, StampFacts DEF IInv, Control
<1>7. caps' \in [deposit : WithdrawalCapsType, debt : WithdrawalCapsType]
  BY <1>1, <1>4, CapStepType DEF IInv
<1>8. Positions'
  BY <1>1, <1>5, <1>6, RefreshedRateStep, PositionsSame
<1>9. Control'
  BY <1>1, <1>2, <1>5, <1>6, <1>7, LimitTimestampsType DEF IInv, Control
<1> QED
  BY <1>5, <1>8, <1>9 DEF IInv

\* deposit_obligation_collateral
LEMMA DepositCollateralStep ==
    ASSUME IInv, NEW o \in Obligations, NEW v \in VariableBases,
           NEW p \in PriceLevel, DepositObligationCollateral(o, v, p)
    PROVE  IInv' /\ Pool!PoolNext
<1>1. /\ liquidity' = Refreshed(v)
      /\ last_update' = MarkStale(UpdateSlot(slot, p))
      /\ borrow' = [borrow EXCEPT ![o].last_update = MarkStale(@)]
      /\ UNCHANGED <<slot, supply, version, crossed, caps, unclaimed,
                     referral, flash, vault, circulating>>
  BY DEF DepositObligationCollateral, ReserveUsed, market
<1>2. slot \in Nat /\ vault = liquidity.available_amount
  BY DEF IInv, Control, Money, BooksMatchTokens
<1>3. /\ last_update' \in LastUpdateType /\ last_update'.slot = slot
      /\ last_update'.stale
  BY <1>1, <1>2, StampFacts DEF IInv, Control
<1>4. Money' /\ Pool!PoolNext
  BY <1>1, <1>2, RefreshedFacts, MoneyKept
<1>5. Control'
  BY <1>1, <1>2, <1>3 DEF IInv, Control
<1>6. RateStep
  BY <1>1, <1>3, RefreshedRateStep
<1>7. Positions'
  BY <1>1, <1>6, PositionsMarked
<1> QED
  BY <1>4, <1>5, <1>7 DEF IInv

\* withdraw_obligation_collateral
LEMMA WithdrawCollateralStep ==
    ASSUME IInv, NEW o \in Obligations, WithdrawObligationCollateral(o)
    PROVE  IInv' /\ Pool!PoolNext
<1>1. /\ borrow' = [borrow EXCEPT ![o].last_update = MarkStale(@)]
      /\ UNCHANGED <<slot, liquidity, supply, version, last_update, crossed, caps,
                     unclaimed, referral, flash, vault, circulating>>
  BY DEF WithdrawObligationCollateral, market, pool
<1>2. Money' /\ Pool!PoolNext
  BY <1>1, MoneyKept, TotalSupplyInt DEF IInv, Money, BooksMatchTokens
<1>3. Control'
  BY <1>1 DEF IInv, Control
<1>4. RateStep
  BY <1>1 DEF RateStep, IInv, Money, LiquidityType
<1>5. Positions'
  BY <1>1, <1>4, PositionsMarked
<1> QED
  BY <1>2, <1>3, <1>5 DEF IInv

\* An operation that does not refresh keeps the rate and the stamp's slot.
LEMMA UsedStep ==
    ASSUME IInv, slot' = slot, last_update' = MarkStale(last_update),
           liquidity'.cumulative_borrow_rate_bsf = liquidity.cumulative_borrow_rate_bsf
    PROVE  /\ RateStep
           /\ last_update' \in LastUpdateType
           /\ last_update'.slot <= slot
           /\ last_update'.stale
<1>1. /\ last_update \in LastUpdateType /\ last_update.slot <= slot
      /\ liquidity.cumulative_borrow_rate_bsf \in Nat
  BY DEF IInv, Control, Money, LiquidityType
<1>2. /\ last_update' \in LastUpdateType /\ last_update'.slot = last_update.slot
      /\ last_update'.stale
  BY <1>1 DEF MarkStale, LastUpdateType
<1> QED
  BY <1>1, <1>2 DEF RateStep

\* The debt booked by calculate_borrow, for an exact amount and for "max".
LEMMA BorrowAmountNat ==
    ASSUME IInv, NEW o \in Obligations, NEW amount \in Nat, NEW power \in Nat
    PROVE  /\ BorrowAmount(o, amount, power) \in Nat
           /\ TotalFee(FromInt(amount), BorrowFee, FALSE) \in Nat
           /\ amount # U64Max =>
                ToFloor(BorrowAmount(o, amount, power))
                  = amount + TotalFee(FromInt(amount), BorrowFee, FALSE)
<1> USE SFAssumption, ReserveConfigAssumption
<1>1. /\ liquidity.borrowed_amount_sf \in Nat /\ liquidity.available_amount \in Nat
      /\ referral \in 0 .. SF
  BY DEF IInv, Money, Control, LiquidityType
<1>2. /\ FromInt(liquidity.available_amount) \in Nat /\ FromInt(BorrowLimit) \in Nat
      /\ FromInt(amount) \in Nat
  BY <1>1, TimesNat DEF FromInt
<1>3. TotalFee(FromInt(amount), BorrowFee, FALSE) \in Nat
  BY <1>1, <1>2, FeesNat
<1> DEFINE fee == TotalFee(FromInt(amount), BorrowFee, FALSE)
<1>4. BorrowAmount(o, amount, power) =
        IF amount = U64Max
        THEN MinOf(power, MinOf(SaturatingSub(FromInt(BorrowLimit),
                                              liquidity.borrowed_amount_sf),
                                FromInt(liquidity.available_amount)))
        ELSE FromInt(amount + fee)
  BY DEF BorrowAmount
<1>5. fee \in Nat
  BY <1>3
<1> HIDE DEF fee
<1>6. CASE amount = U64Max
  <2>1. SaturatingSub(FromInt(BorrowLimit), liquidity.borrowed_amount_sf) \in Nat
    BY <1>1, <1>2 DEF SaturatingSub
  <2>2. BorrowAmount(o, amount, power) \in Nat
    BY <1>2, <1>4, <1>6, <2>1 DEF MinOf
  <2> QED
    BY <1>3, <1>6, <2>2
<1>7. CASE amount # U64Max
  <2>1. amount + fee \in Nat
    BY <1>5
  <2>2. FromInt(amount + fee) \in Nat /\ ToFloor(FromInt(amount + fee)) = amount + fee
    BY <2>1, TimesNat, FloorOfInt DEF FromInt
  <2>3. BorrowAmount(o, amount, power) = FromInt(amount + fee)
    BY <1>4, <1>7
  <2> QED
    BY <1>5, <1>7, <2>2, <2>3 DEF fee
<1> QED
  BY <1>6, <1>7

\* borrow_obligation_liquidity
LEMMA BorrowStep ==
    ASSUME IInv, NEW o \in Obligations, NEW amount \in Nat, NEW power \in Nat,
           BorrowObligationLiquidity(o, amount, power)
    PROVE  IInv' /\ Pool!PoolNext
<1> USE SFAssumption, ReserveConfigAssumption
<1> DEFINE max == amount = U64Max
           bf == BorrowAmount(o, amount, power)
           base == IF max THEN bf ELSE FromInt(amount)
           fee == TotalFee(base, BorrowFee, max)
           rfee == ReferrerFee(base, BorrowFee, max, referral, HasReferrer(o))
           receive == IF max THEN ToFloor(bf) - fee ELSE amount
           lent == ReferrerFeeKept(Borrowed(liquidity, bf), rfee)
           b == [borrowed_amount_sf |-> borrow[o].borrowed_amount_sf + bf,
                 cumulative_borrow_rate_bsf |->
                    IF HasBorrow(o) THEN borrow[o].cumulative_borrow_rate_bsf
                    ELSE liquidity.cumulative_borrow_rate_bsf,
                 last_update |-> MarkStale(borrow[o].last_update)]
<1>1. /\ version = "current"
      /\ CapStep("debt", ToCeil(bf), "Add")
      /\ ToFloor(bf) <= liquidity.available_amount
      /\ liquidity' = lent
      /\ unclaimed' = IF HasReferrer(o)
                      THEN [unclaimed EXCEPT ![ReferrerOf[o]] = @ + FromInt(rfee)]
                      ELSE unclaimed
      /\ borrow' = [borrow EXCEPT ![o] = b]
      /\ vault' = vault - (receive + fee - rfee)
      /\ last_update' = MarkStale(last_update)
      /\ UNCHANGED <<slot, supply, version, crossed, referral, flash, circulating>>
  BY DEF BorrowObligationLiquidity
<1>2. /\ liquidity \in LiquidityType /\ vault = liquidity.available_amount
      /\ vault \in Nat /\ referral \in 0 .. SF
      /\ liquidity.cumulative_borrow_rate_bsf \in Nat
      /\ liquidity.cumulative_borrow_rate_bsf > 0
      /\ TotalSupply(liquidity) \in Int
  BY TotalSupplyInt DEF IInv, Money, Control, BooksMatchTokens, LiquidityType
<1>3. bf \in Nat /\ (~max => ToFloor(bf) = amount + fee)
  BY BorrowAmountNat
<1>4. base \in Nat
  BY <1>3, TimesNat DEF FromInt
<1>5. fee \in Nat /\ rfee \in Nat
  <2>1. max \in BOOLEAN /\ HasReferrer(o) \in BOOLEAN
    BY DEF HasReferrer
  <2> HIDE DEF max, base
  <2> QED
    BY <1>2, <1>4, <2>1, FeesNat
<1>6. /\ ToFloor(bf) \in Nat /\ ToCeil(bf) \in Nat
  BY <1>3, FloorFacts, CeilFacts
<1>7. receive + fee - rfee = ToFloor(bf) - rfee
  <2> HIDE DEF fee, rfee, bf
  <2> QED
    BY <1>3, <1>5, <1>6
<1> HIDE DEF receive, fee, rfee, bf, base
<1> DEFINE m == Borrowed(liquidity, bf)
<1>8. /\ m \in LiquidityType
      /\ m.available_amount = vault - ToFloor(bf)
      /\ m.cumulative_borrow_rate_bsf = liquidity.cumulative_borrow_rate_bsf
      /\ TotalSupply(m) >= TotalSupply(liquidity)
  BY <1>1, <1>2, <1>3, BorrowedFacts
<1> HIDE DEF m
<1>9. /\ lent \in LiquidityType
      /\ lent.available_amount = vault - ToFloor(bf) + rfee
      /\ lent.cumulative_borrow_rate_bsf = liquidity.cumulative_borrow_rate_bsf
      /\ TotalSupply(lent) >= TotalSupply(liquidity)
      /\ FromInt(rfee) \in Nat
  <2>1. lent = ReferrerFeeKept(m, rfee)
    BY DEF m
  <2>2. /\ ReferrerFeeKept(m, rfee) \in LiquidityType
        /\ ReferrerFeeKept(m, rfee).available_amount = m.available_amount + rfee
        /\ ReferrerFeeKept(m, rfee).cumulative_borrow_rate_bsf
             = m.cumulative_borrow_rate_bsf
        /\ TotalSupply(ReferrerFeeKept(m, rfee)) = TotalSupply(m)
        /\ FromInt(rfee) \in Nat
    BY <1>5, <1>8, ReferrerFeeKeptFacts, Zenon
  <2> HIDE DEF lent
  <2> QED
    BY <1>8, <2>1, <2>2
<1> HIDE DEF lent
<1>10. vault' = liquidity'.available_amount
  BY <1>1, <1>2, <1>5, <1>6, <1>7, <1>9
<1>11. Money' /\ Pool!PoolNext
  BY <1>1, <1>2, <1>9, <1>10, MoneyKept
<1>12. RateStep /\ last_update' \in LastUpdateType /\ last_update'.slot <= slot
  BY <1>1, <1>9, UsedStep
<1>13. unclaimed' \in [Referrers -> Nat]
  <2>1. HasReferrer(o) => ReferrerOf[o] \in Referrers
    BY ReserveAssumption DEF HasReferrer
  <2>2. unclaimed \in [Referrers -> Nat]
    BY DEF IInv, Control
  <2>3. HasReferrer(o) => unclaimed[ReferrerOf[o]] + FromInt(rfee) \in Nat
    BY <1>9, <2>1, <2>2
  <2> QED
    BY <1>1, <2>1, <2>2, <2>3
<1>14. caps' \in [deposit : WithdrawalCapsType, debt : WithdrawalCapsType]
  BY <1>1, <1>6, CapStepType DEF IInv
<1>15. Control'
  BY <1>1, <1>12, <1>13, <1>14 DEF IInv, Control
<1>16. PositionOK(b, liquidity'.cumulative_borrow_rate_bsf, last_update'.slot, slot)
  <2> DEFINE amt == borrow[o].borrowed_amount_sf + bf
             cum == IF HasBorrow(o) THEN borrow[o].cumulative_borrow_rate_bsf
                    ELSE liquidity.cumulative_borrow_rate_bsf
  <2>1. amt \in Nat /\ cum \in Nat /\ cum > 0
        /\ cum <= liquidity.cumulative_borrow_rate_bsf
    BY <1>2, <1>3, PositionFacts
  <2> HIDE DEF amt, cum
  <2>2. PositionOK([borrowed_amount_sf |-> amt, cumulative_borrow_rate_bsf |-> cum,
                    last_update |-> MarkStale(borrow[o].last_update)],
                   liquidity.cumulative_borrow_rate_bsf, last_update'.slot, slot)
    BY <2>1, PositionFacts, StalePositionOK
  <2> QED
    BY <1>1, <1>9, <2>2 DEF amt, cum
<1> HIDE DEF b
<1>17. Positions'
  BY <1>1, <1>12, <1>16, PositionsReplaced
<1> QED
  BY <1>11, <1>15, <1>17 DEF IInv

\* ObligationLiquidity::accrue_interest brings a debt to the reserve's rate.
LEMMA AccruedFacts ==
    ASSUME IInv, NEW o \in Obligations, HasBorrow(o)
    PROVE  LET b == Accrued(borrow[o]) IN
           /\ b \in BorrowType
           /\ b.borrowed_amount_sf \in Nat
           /\ b.last_update = borrow[o].last_update
           /\ b.cumulative_borrow_rate_bsf = liquidity.cumulative_borrow_rate_bsf
<1> DEFINE rate == liquidity.cumulative_borrow_rate_bsf
           old == borrow[o].cumulative_borrow_rate_bsf
           debt == borrow[o].borrowed_amount_sf
           new == (debt * rate) \div old
<1>1. /\ borrow[o] \in BorrowType /\ debt \in Nat /\ old \in Nat \ {0}
      /\ rate \in Nat /\ old <= rate
  BY PositionFacts
<1>2. new \in Nat
  BY <1>1, TimesNat, DivNat
<1>3. CASE rate > old
  <2> DEFINE m == [borrow[o] EXCEPT !.borrowed_amount_sf = new]
  <2>1. m \in BorrowType /\ m.last_update = borrow[o].last_update
        /\ m.borrowed_amount_sf = new
    BY <1>1, <1>2 DEF BorrowType
  <2>2. Accrued(borrow[o]) = [m EXCEPT !.cumulative_borrow_rate_bsf = rate]
    BY <1>1, <1>3 DEF Accrued, BorrowType
  <2> HIDE DEF m, new
  <2> QED
    BY <1>1, <1>2, <2>1, <2>2 DEF BorrowType
<1>4. CASE ~(rate > old)
  <2>1. Accrued(borrow[o]) = borrow[o]
    BY <1>4 DEF Accrued
  <2> QED
    BY <1>1, <1>4, <2>1
<1> QED
  BY <1>3, <1>4

\* Referrer fees that become due move from the reserve's pending fees to the
\* referrer or to the protocol, never to or from the depositors.
LEMMA PendingFeesMoved ==
    ASSUME NEW l \in LiquidityType, NEW n \in Nat, n <= l.pending_referrer_fees_sf
    PROVE  LET r == [l EXCEPT !.pending_referrer_fees_sf = @ - n,
                              !.accumulated_referrer_fees_sf = @ + n]
               q == [l EXCEPT !.pending_referrer_fees_sf = @ - n,
                              !.accumulated_protocol_fees_sf = @ + n]
           IN /\ r \in LiquidityType /\ q \in LiquidityType
              /\ TotalSupply(r) = TotalSupply(l) /\ TotalSupply(q) = TotalSupply(l)
              /\ r.available_amount = l.available_amount
              /\ q.available_amount = l.available_amount
              /\ r.cumulative_borrow_rate_bsf = l.cumulative_borrow_rate_bsf
              /\ q.cumulative_borrow_rate_bsf = l.cumulative_borrow_rate_bsf
<1> DEFINE m == [l EXCEPT !.pending_referrer_fees_sf = l.pending_referrer_fees_sf - n]
           r == [m EXCEPT !.accumulated_referrer_fees_sf =
                             l.accumulated_referrer_fees_sf + n]
           q == [m EXCEPT !.accumulated_protocol_fees_sf =
                             l.accumulated_protocol_fees_sf + n]
<1>1. /\ l.pending_referrer_fees_sf - n \in Nat
      /\ l.accumulated_referrer_fees_sf + n \in Nat
      /\ l.accumulated_protocol_fees_sf + n \in Nat
      /\ FromInt(l.available_amount) \in Int
  BY SFAssumption DEF LiquidityType, FromInt
<1>2. m \in LiquidityType
  BY <1>1, FieldType
<1>3. r \in LiquidityType /\ q \in LiquidityType
  BY <1>1, <1>2, FieldType
<1>4. /\ m.available_amount = l.available_amount
      /\ m.borrowed_amount_sf = l.borrowed_amount_sf
      /\ m.accumulated_protocol_fees_sf = l.accumulated_protocol_fees_sf
      /\ m.accumulated_referrer_fees_sf = l.accumulated_referrer_fees_sf
      /\ m.pending_referrer_fees_sf = l.pending_referrer_fees_sf - n
      /\ m.cumulative_borrow_rate_bsf = l.cumulative_borrow_rate_bsf
  BY DEF LiquidityType
<1>5. /\ [l EXCEPT !.pending_referrer_fees_sf = @ - n,
                   !.accumulated_referrer_fees_sf = @ + n]
           = [m EXCEPT !.accumulated_referrer_fees_sf =
                          m.accumulated_referrer_fees_sf + n]
      /\ [l EXCEPT !.pending_referrer_fees_sf = @ - n,
                   !.accumulated_protocol_fees_sf = @ + n]
           = [m EXCEPT !.accumulated_protocol_fees_sf =
                          m.accumulated_protocol_fees_sf + n]
  BY Zenon
<1> HIDE DEF m
<1>6. /\ r.available_amount = l.available_amount
      /\ r.borrowed_amount_sf = l.borrowed_amount_sf
      /\ r.accumulated_protocol_fees_sf = l.accumulated_protocol_fees_sf
      /\ r.accumulated_referrer_fees_sf = l.accumulated_referrer_fees_sf + n
      /\ r.pending_referrer_fees_sf = l.pending_referrer_fees_sf - n
      /\ r.cumulative_borrow_rate_bsf = l.cumulative_borrow_rate_bsf
  BY <1>2, <1>4 DEF LiquidityType
<1>7. /\ q.available_amount = l.available_amount
      /\ q.borrowed_amount_sf = l.borrowed_amount_sf
      /\ q.accumulated_protocol_fees_sf = l.accumulated_protocol_fees_sf + n
      /\ q.accumulated_referrer_fees_sf = l.accumulated_referrer_fees_sf
      /\ q.pending_referrer_fees_sf = l.pending_referrer_fees_sf - n
      /\ q.cumulative_borrow_rate_bsf = l.cumulative_borrow_rate_bsf
  BY <1>2, <1>4 DEF LiquidityType
<1>8. TotalSupply(r) = TotalSupply(l) /\ TotalSupply(q) = TotalSupply(l)
  <2> HIDE DEF r, q
  <2> QED
    BY <1>1, <1>6, <1>7 DEF TotalSupply, LiquidityType
<1>9. /\ r = [l EXCEPT !.pending_referrer_fees_sf = @ - n,
                       !.accumulated_referrer_fees_sf = @ + n]
      /\ q = [l EXCEPT !.pending_referrer_fees_sf = @ - n,
                       !.accumulated_protocol_fees_sf = @ + n]
  BY <1>4, <1>5, Zenon
<1> HIDE DEF r, q
<1> QED
  BY <1>3, <1>6, <1>7, <1>8, <1>9, Zenon

\* The referrer's share is bounded by what the reserve set aside.
LEMMA ReferralShareFacts ==
    ASSUME IInv, NEW o \in Obligations, HasBorrow(o),
           liquidity.absolute_referral_rate_sf # 0, ReferralComputable(o)
    PROVE  /\ ReferralShare(o) \in Nat
           /\ ReferralShare(o) <= liquidity.pending_referrer_fees_sf
<1> USE SFAssumption, ReserveConfigAssumption
<1>1. /\ borrow[o].borrowed_amount_sf \in Nat
      /\ slot - borrow[o].last_update.slot \in Nat
      /\ liquidity.absolute_referral_rate_sf \in Nat
      /\ liquidity.pending_referrer_fees_sf \in Nat
  BY PositionFacts DEF IInv, Money, LiquidityType
<1>2. FixedDebt(o) \in Int
  <2> DEFINE n == slot - borrow[o].last_update.slot
             rate == CompoundedInterest(FixedBase, n)
             debt == borrow[o].borrowed_amount_sf
  <2>1. n \in Nat /\ FixedBase \in Nat /\ FixedBase <= FixedBase /\ debt \in Nat
    BY <1>1
  <2>2. FixedDebt(o) = Mul(debt, rate) - debt
    BY DEF FixedDebt
  <2> HIDE DEF n, debt
  <2>3. rate \in Nat
    BY <2>1, CompoundedInterestFacts
  <2> HIDE DEF rate
  <2>4. Mul(debt, rate) \in Nat
    BY <2>1, <2>3, MulNat
  <2> QED
    BY <2>1, <2>2, <2>4
<1>3. NewDebt(o) \in Int
  BY <1>1, AccruedFacts DEF NewDebt
<1>4. NewDebt(o) - FixedDebt(o) \in Nat
  BY <1>2, <1>3 DEF ReferralComputable
<1>5. Mul(NewDebt(o) - FixedDebt(o), liquidity.absolute_referral_rate_sf) \in Nat
  BY <1>1, <1>4, MulNat
<1> QED
  BY <1>1, <1>5 DEF ReferralShare, MinOf

\* refresh_obligation
LEMMA RefreshObligationStep ==
    ASSUME IInv, NEW o \in Obligations, NEW p \in PriceLevel, RefreshObligation(o, p)
    PROVE  IInv' /\ Pool!PoolNext
<1> DEFINE old == IF HasBorrow(o) THEN Accrued(borrow[o]) ELSE borrow[o]
           b == [old EXCEPT !.last_update = UpdateSlot(slot, p)]
<1>1. /\ borrow' = [borrow EXCEPT ![o] = b]
      /\ UNCHANGED <<slot, supply, version, last_update, crossed, caps, referral,
                     flash, vault, circulating>>
      /\ HasBorrow(o) => ReserveFresh(NONE) /\ ReferralComputable(o)
  BY DEF RefreshObligation
<1>2. /\ liquidity \in LiquidityType /\ vault = liquidity.available_amount
      /\ unclaimed \in [Referrers -> Nat]
      /\ liquidity.cumulative_borrow_rate_bsf > 0
      /\ liquidity.cumulative_borrow_rate_bsf \in Nat
      /\ TotalSupply(liquidity) \in Int
      /\ slot \in Nat
  BY TotalSupplyInt DEF IInv, Money, Control, BooksMatchTokens, LiquidityType
<1>3. /\ liquidity' \in LiquidityType
      /\ TotalSupply(liquidity') = TotalSupply(liquidity)
      /\ liquidity'.available_amount = liquidity.available_amount
      /\ liquidity'.cumulative_borrow_rate_bsf = liquidity.cumulative_borrow_rate_bsf
      /\ unclaimed' \in [Referrers -> Nat]
  <2>1. CASE ~HasBorrow(o) \/ liquidity.absolute_referral_rate_sf = 0
    BY <1>2, <2>1 DEF RefreshObligation
  <2>2. CASE HasBorrow(o) /\ liquidity.absolute_referral_rate_sf # 0
    <3> DEFINE n == ReferralShare(o)
    <3>1. n \in Nat /\ n <= liquidity.pending_referrer_fees_sf
      BY <1>1, <2>2, ReferralShareFacts
    <3>2. CASE ReferrerOf[o] # NoReferrer /\ referral > 0
      <4>1. /\ liquidity' = [liquidity EXCEPT !.pending_referrer_fees_sf = @ - n,
                                !.accumulated_referrer_fees_sf = @ + n]
            /\ unclaimed' = [unclaimed EXCEPT ![ReferrerOf[o]] = @ + n]
        BY <2>2, <3>2 DEF RefreshObligation
      <4>2. ReferrerOf[o] \in Referrers
        BY <3>2, ReserveAssumption
      <4> HIDE DEF n
      <4>3. unclaimed' \in [Referrers -> Nat]
        BY <1>2, <3>1, <4>1, <4>2
      <4> QED
        BY <1>2, <3>1, <4>1, <4>3, PendingFeesMoved
    <3>3. CASE ~(ReferrerOf[o] # NoReferrer /\ referral > 0)
      <4>1. /\ liquidity' = [liquidity EXCEPT !.pending_referrer_fees_sf = @ - n,
                                !.accumulated_protocol_fees_sf = @ + n]
            /\ unclaimed' = unclaimed
        BY <2>2, <3>3 DEF RefreshObligation
      <4> HIDE DEF n
      <4> QED
        BY <1>2, <3>1, <4>1, PendingFeesMoved
    <3> QED
      BY <3>2, <3>3
  <2> QED
    BY <2>1, <2>2
<1>4. Money' /\ Pool!PoolNext
  BY <1>1, <1>2, <1>3, MoneyKept
<1>5. Control'
  BY <1>1, <1>3 DEF IInv, Control
<1>6. RateStep
  BY <1>1, <1>2, <1>3 DEF RateStep
<1>7. PositionOK(b, liquidity.cumulative_borrow_rate_bsf, last_update.slot, slot)
  <2>1. UpdateSlot(slot, p) \in LastUpdateType /\ UpdateSlot(slot, p).slot = slot
    BY <1>2, StampFacts DEF IInv, Control
  <2>2. CASE HasBorrow(o)
    <3>1. /\ old \in BorrowType
          /\ old.cumulative_borrow_rate_bsf = liquidity.cumulative_borrow_rate_bsf
      BY <2>2, AccruedFacts
    <3> HIDE DEF old
    <3>2. /\ b \in BorrowType /\ b.last_update = UpdateSlot(slot, p)
          /\ b.cumulative_borrow_rate_bsf = liquidity.cumulative_borrow_rate_bsf
      BY <2>1, <3>1 DEF BorrowType
    <3>3. last_update.slot = slot
      BY <1>1, <2>2, FreshIsCurrent DEF IInv, NONE, PriceLevel
    <3> HIDE DEF b
    <3> QED
      BY <1>2, <2>1, <3>2, <3>3 DEF PositionOK
  <2>3. CASE ~HasBorrow(o)
    <3>1. old = borrow[o] /\ old \in BorrowType /\ old.borrowed_amount_sf = 0
      BY <2>3, PositionFacts DEF HasBorrow
    <3> HIDE DEF old
    <3>2. /\ b \in BorrowType /\ b.last_update = UpdateSlot(slot, p)
          /\ b.borrowed_amount_sf = 0
      BY <2>1, <3>1 DEF BorrowType
    <3> HIDE DEF b
    <3> QED
      BY <1>2, <2>1, <3>2 DEF PositionOK
  <2> QED
    BY <2>2, <2>3
<1> HIDE DEF b
<1>8. Positions'
  BY <1>1, <1>3, <1>6, <1>7, PositionsReplaced
<1> QED
  BY <1>4, <1>5, <1>8 DEF IInv

\* repay_obligation_liquidity
LEMMA RepayStep ==
    ASSUME IInv, NEW o \in Obligations, NEW amount \in Nat,
           RepayObligationLiquidity(o, amount)
    PROVE  IInv' /\ Pool!PoolNext
<1> DEFINE position == Accrued(borrow[o])
           debt == position.borrowed_amount_sf
           f == IF amount = U64Max THEN debt ELSE MinOf(FromInt(amount), debt)
           n == ToCeil(f)
<1>1. /\ HasBorrow(o)
      /\ CapStep("debt", n, "Remove")
      /\ liquidity' = Repaid(liquidity, n, f)
      /\ Settle(o, position, f)
      /\ vault' = vault + n
      /\ last_update' = MarkStale(last_update)
      /\ UNCHANGED <<slot, supply, version, crossed, unclaimed, referral, flash,
                     circulating>>
  BY DEF RepayObligationLiquidity, market
<1>2. /\ liquidity \in LiquidityType /\ vault = liquidity.available_amount
      /\ liquidity.cumulative_borrow_rate_bsf > 0
  BY DEF IInv, Money, BooksMatchTokens
<1>3. /\ position \in BorrowType /\ debt \in Nat
      /\ position.last_update = borrow[o].last_update
      /\ position.cumulative_borrow_rate_bsf = liquidity.cumulative_borrow_rate_bsf
  BY <1>1, AccruedFacts
<1>4. f \in Nat /\ f <= debt
  <2>1. FromInt(amount) \in Nat
    BY SFAssumption, TimesNat DEF FromInt
  <2> HIDE DEF debt
  <2> QED
    BY <1>3, <2>1 DEF MinOf
<1> HIDE DEF position, f
<1>5. n \in Nat /\ f <= FromInt(n)
  BY <1>4, CeilFacts
<1> HIDE DEF n
<1>6. /\ liquidity' \in LiquidityType
      /\ liquidity'.available_amount = vault + n
      /\ liquidity'.cumulative_borrow_rate_bsf = liquidity.cumulative_borrow_rate_bsf
      /\ TotalSupply(liquidity') >= TotalSupply(liquidity)
  BY <1>1, <1>2, <1>4, <1>5, RepaidFacts
<1>7. Money' /\ Pool!PoolNext
  BY <1>1, <1>2, <1>6, MoneyKept
<1>8. RateStep /\ last_update' \in LastUpdateType /\ last_update'.slot <= slot
      /\ last_update'.stale
  BY <1>1, <1>6, UsedStep
<1>9. caps' \in [deposit : WithdrawalCapsType, debt : WithdrawalCapsType]
  BY <1>1, <1>5, CapStepType DEF IInv
<1>10. Control'
  BY <1>1, <1>8, <1>9 DEF IInv, Control
<1>11. Positions'
  <2>1. position.last_update.slot <= slot
    BY <1>3, PositionFacts
  <2>2. liquidity.cumulative_borrow_rate_bsf \in Nat
    BY PositionFacts
  <2> QED
    BY <1>1, <1>2, <1>3, <1>4, <1>8, <2>1, <2>2, PositionsSettled
<1> QED
  BY <1>7, <1>10, <1>11 DEF IInv

\* What a liquidator's repayment does to the reserve and to the position.
LEMMA LiquidatorRepays ==
    ASSUME IInv, NEW o \in Obligations, NEW f \in Nat, RepaidByLiquidator(o, f)
    PROVE  LET n == ToCeil(f)
               l == Repaid(liquidity, n, f)
           IN /\ n \in Nat
              /\ l \in LiquidityType
              /\ l.available_amount = vault + n
              /\ l.cumulative_borrow_rate_bsf = liquidity.cumulative_borrow_rate_bsf
              /\ l.cumulative_borrow_rate_bsf > 0
              /\ TotalSupply(l) >= TotalSupply(liquidity)
              /\ RateStep => Positions'
<1> DEFINE n == ToCeil(f)
           l == Repaid(liquidity, n, f)
<1>1. /\ liquidity \in LiquidityType /\ vault = liquidity.available_amount
      /\ liquidity.cumulative_borrow_rate_bsf > 0
  BY DEF IInv, Money, BooksMatchTokens
<1>2. n \in Nat /\ f <= FromInt(n)
  BY CeilFacts
<1> HIDE DEF n
<1>3. /\ l \in LiquidityType
      /\ l.available_amount = vault + n
      /\ l.cumulative_borrow_rate_bsf = liquidity.cumulative_borrow_rate_bsf
      /\ TotalSupply(l) >= TotalSupply(liquidity)
  BY <1>1, <1>2, RepaidFacts
<1>4. ASSUME RateStep PROVE Positions'
  <2>1. f <= borrow[o].borrowed_amount_sf /\ Settle(o, borrow[o], f)
    BY DEF RepaidByLiquidator
  <2> QED
    BY <1>4, <2>1, PositionFacts, PositionsSettled DEF HasBorrow
<1> QED
  BY <1>1, <1>2, <1>3, <1>4 DEF n

\* liquidation, the repaid reserve
LEMMA LiquidateRepayStep ==
    ASSUME IInv, NEW o \in Obligations, NEW f \in Nat, LiquidateRepay(o, f)
    PROVE  IInv' /\ Pool!PoolNext
<1> DEFINE n == ToCeil(f)
<1>1. /\ RepaidByLiquidator(o, f)
      /\ liquidity' = Repaid(liquidity, n, f)
      /\ vault' = vault + n
      /\ last_update' = MarkStale(last_update)
      /\ UNCHANGED <<slot, supply, version, crossed, caps, unclaimed, referral,
                     flash, circulating>>
  BY DEF LiquidateRepay, market
<1>2. /\ liquidity' \in LiquidityType
      /\ liquidity'.available_amount = vault + n
      /\ liquidity'.cumulative_borrow_rate_bsf = liquidity.cumulative_borrow_rate_bsf
      /\ liquidity'.cumulative_borrow_rate_bsf > 0
      /\ TotalSupply(liquidity') >= TotalSupply(liquidity)
      /\ RateStep => Positions'
  BY <1>1, LiquidatorRepays
<1>3. Money' /\ Pool!PoolNext
  BY <1>1, <1>2, MoneyKept
<1>4. RateStep /\ last_update' \in LastUpdateType /\ last_update'.slot <= slot
      /\ last_update'.stale
  BY <1>1, <1>2, UsedStep
<1>5. Control'
  BY <1>1, <1>4 DEF IInv, Control
<1> QED
  BY <1>2, <1>3, <1>4, <1>5 DEF IInv

\* Redeeming seized collateral, from a reserve refreshed in this slot.
LEMMA SeizedRedeemed ==
    ASSUME IInv, version = "current", last_update.slot = slot,
           slot' = slot, version' = version,
           NEW l \in LiquidityType, l.cumulative_borrow_rate_bsf > 0,
           l.cumulative_borrow_rate_bsf = liquidity.cumulative_borrow_rate_bsf,
           TotalSupply(l) >= TotalSupply(liquidity),
           NEW c \in Nat, NEW p \in PriceLevel, NEW paid_in \in Nat,
           l.available_amount = vault + paid_in,
           RedeemSeized(l, c, p, paid_in)
    PROVE  /\ Money' /\ Pool!PoolNext /\ RateStep
           /\ last_update' \in LastUpdateType /\ last_update'.slot = slot
           /\ crossed' \in [deposit : Nat, borrow : Nat]
<1> DEFINE redeemable == LiquidityToCollateral(l, supply, l.available_amount)
           coll == MinOf(c, redeemable)
           a == CollateralToLiquidity(l, supply, coll)
<1>1. /\ supply \in Nat \ {0} /\ vault \in Nat /\ slot \in Nat
      /\ TotalSupply(l) > 0 /\ l.available_amount \in Nat
      /\ liquidity.cumulative_borrow_rate_bsf \in Nat
  BY ReserveAssumption, TotalSupplyInt
     DEF IInv, Money, Control, BooksMatchTokens, Solvent, LiquidityType
<1>2. redeemable \in Nat
  BY <1>1, LiquidityToCollateralNat
<1> HIDE DEF redeemable
<1>3. coll \in Nat
  BY <1>2 DEF MinOf
<1> HIDE DEF coll
<1>4. a \in Nat
  BY <1>1, <1>3, RedeemPaysAtMostShare
<1>5. CASE /\ Redeem(l, coll, a)
           /\ vault' = vault + paid_in - a
           /\ last_update' = MarkStale(UpdateSlot(slot, p))
  <2>1. vault' = l.available_amount - a
    BY <1>1, <1>4, <1>5
  <2>2. /\ Money' /\ Pool!PoolNext
        /\ liquidity'.cumulative_borrow_rate_bsf = l.cumulative_borrow_rate_bsf
        /\ crossed' = LimitTimestamps(liquidity')
    BY <1>3, <1>5, <2>1, MoneyRedeemed
  <2>3. last_update' \in LastUpdateType /\ last_update'.slot = slot
    BY <1>1, <1>5, StampFacts DEF IInv, Control
  <2> QED
    BY <1>1, <2>2, <2>3, LimitTimestampsType DEF RateStep, IInv
<1>6. CASE /\ liquidity' = l
           /\ vault' = vault + paid_in
           /\ last_update' = UpdateSlot(slot, p)
           /\ UNCHANGED <<supply, circulating, crossed>>
  <2>1. Money' /\ Pool!PoolNext
    BY <1>6, MoneyKept
  <2>2. last_update' \in LastUpdateType /\ last_update'.slot = slot
    BY <1>1, <1>6, StampFacts DEF IInv, Control
  <2> QED
    BY <1>1, <1>6, <2>1, <2>2 DEF RateStep, IInv, Control
<1> QED
  BY <1>5, <1>6 DEF RedeemSeized, ReserveUsed, redeemable, coll

\* liquidation, the reserve the collateral is redeemed from
LEMMA LiquidateRedeemStep ==
    ASSUME IInv, NEW o \in Obligations, NEW c \in Nat, NEW p \in PriceLevel,
           LiquidateRedeem(o, c, p)
    PROVE  IInv' /\ Pool!PoolNext
<1>1. /\ Liquidatable(o)
      /\ RedeemSeized(liquidity, c, p, 0)
      /\ borrow' = [borrow EXCEPT ![o].last_update = MarkStale(@)]
      /\ UNCHANGED <<slot, version, caps, unclaimed, referral, flash>>
  BY DEF LiquidateRedeem, market
<1>2. version = "current" /\ last_update.slot = slot
  BY <1>1, FreshIsCurrent DEF IInv, Liquidatable, LIQUIDATION_CHECKS, PriceLevel
<1>3. /\ liquidity \in LiquidityType /\ liquidity.cumulative_borrow_rate_bsf > 0
      /\ liquidity.available_amount = vault + 0
      /\ TotalSupply(liquidity) >= TotalSupply(liquidity)
  BY TotalSupplyInt DEF IInv, Money, BooksMatchTokens, LiquidityType
<1>4. /\ Money' /\ Pool!PoolNext /\ RateStep
      /\ last_update' \in LastUpdateType /\ last_update'.slot = slot
      /\ crossed' \in [deposit : Nat, borrow : Nat]
  BY <1>1, <1>2, <1>3, SeizedRedeemed
<1>5. Control'
  BY <1>1, <1>2, <1>4 DEF IInv, Control
<1>6. Positions'
  BY <1>1, <1>4, PositionsMarked
<1> QED
  BY <1>4, <1>5, <1>6 DEF IInv

\* liquidation within one reserve: repaid first, then redeemed
LEMMA LiquidateSameReserveStep ==
    ASSUME IInv, NEW o \in Obligations, NEW f \in Nat, NEW c \in Nat,
           NEW p \in PriceLevel, LiquidateSameReserve(o, f, c, p)
    PROVE  IInv' /\ Pool!PoolNext
<1> DEFINE n == ToCeil(f)
           l == Repaid(liquidity, n, f)
<1>1. /\ Liquidatable(o)
      /\ RepaidByLiquidator(o, f)
      /\ RedeemSeized(l, c, p, n)
      /\ UNCHANGED <<slot, version, caps, unclaimed, referral, flash>>
  BY DEF LiquidateSameReserve, market
<1>2. version = "current" /\ last_update.slot = slot
  BY <1>1, FreshIsCurrent DEF IInv, Liquidatable, LIQUIDATION_CHECKS, PriceLevel
<1>3. /\ n \in Nat
      /\ l \in LiquidityType
      /\ l.available_amount = vault + n
      /\ l.cumulative_borrow_rate_bsf = liquidity.cumulative_borrow_rate_bsf
      /\ l.cumulative_borrow_rate_bsf > 0
      /\ TotalSupply(l) >= TotalSupply(liquidity)
      /\ RateStep => Positions'
  BY <1>1, LiquidatorRepays
<1> HIDE DEF n, l
<1>4. /\ Money' /\ Pool!PoolNext /\ RateStep
      /\ last_update' \in LastUpdateType /\ last_update'.slot = slot
      /\ crossed' \in [deposit : Nat, borrow : Nat]
  BY <1>1, <1>2, <1>3, SeizedRedeemed
<1>5. Control'
  BY <1>1, <1>2, <1>4 DEF IInv, Control
<1> QED
  BY <1>3, <1>4, <1>5 DEF IInv

\* socialize_loss: the one step that costs the depositors something.
LEMMA SocializeLossStep ==
    ASSUME IInv, NEW o \in Obligations, NEW amount \in Nat, SocializeLoss(o, amount)
    PROVE  IInv' /\ Pool!PoolNext
<1> DEFINE f == MinOf(FromInt(amount), borrow[o].borrowed_amount_sf)
<1>1. /\ ReserveFresh(ALL_CHECKS)
      /\ f <= liquidity.borrowed_amount_sf
      /\ version' = IF LossTakesSupply(liquidity, f) THEN "deprecated" ELSE version
      /\ liquidity' = Forgiven(liquidity, f)
      /\ Settle(o, borrow[o], f)
      /\ last_update' = MarkStale(last_update)
      /\ UNCHANGED <<slot, supply, crossed, caps, unclaimed, referral, flash, vault,
                     circulating>>
  BY DEF SocializeLoss, market
<1>2. version = "current"
  BY <1>1, FreshIsCurrent DEF IInv, ALL_CHECKS, PriceLevel
<1>3. /\ liquidity \in LiquidityType /\ vault = liquidity.available_amount
      /\ liquidity.borrowed_amount_sf \in Nat
      /\ TotalSupply(liquidity) \in Int
      /\ liquidity.cumulative_borrow_rate_bsf > 0
  BY TotalSupplyInt DEF IInv, Money, BooksMatchTokens, LiquidityType
<1>4. f \in Nat /\ f <= borrow[o].borrowed_amount_sf
  <2>1. FromInt(amount) \in Nat
    BY SFAssumption, TimesNat DEF FromInt
  <2> QED
    BY <2>1, PositionFacts DEF MinOf
<1> HIDE DEF f
<1>5. /\ liquidity' \in LiquidityType
      /\ liquidity'.available_amount = vault
      /\ liquidity'.cumulative_borrow_rate_bsf = liquidity.cumulative_borrow_rate_bsf
      /\ liquidity'.borrowed_amount_sf = liquidity.borrowed_amount_sf - f
      /\ TotalSupply(liquidity') = TotalSupply(liquidity) - f
  BY <1>1, <1>3, <1>4, ForgivenFacts
<1>6. version' = "current" <=> TotalSupply(liquidity') > 0
  BY <1>1, <1>2, <1>3, <1>4, <1>5 DEF LossTakesSupply
<1>7. Money'
  BY <1>1, <1>3, <1>5, <1>6 DEF IInv, Money, BooksMatchTokens, Solvent
<1>8. Pool!PoolNext
  <2>1. liquidity'.borrowed_amount_sf <= liquidity.borrowed_amount_sf
    BY <1>3, <1>4, <1>5
  <2>2. TotalSupply(liquidity) - TotalSupply(liquidity')
          = liquidity.borrowed_amount_sf - liquidity'.borrowed_amount_sf
    BY <1>3, <1>4, <1>5
  <2> QED
    BY <1>1, <1>2, <1>6, <2>1, <2>2 DEF Pool!PoolNext, Pool!Lose
<1>9. RateStep /\ last_update' \in LastUpdateType /\ last_update'.slot <= slot
      /\ last_update'.stale
  BY <1>1, <1>5, UsedStep
<1>10. Control'
  BY <1>1, <1>2, <1>9 DEF IInv, Control
<1>11. Positions'
  BY <1>1, <1>4, <1>9, PositionFacts, PositionsSettled DEF HasBorrow
<1> QED
  BY <1>7, <1>8, <1>10, <1>11 DEF IInv

\* flash_borrow_reserve_liquidity
LEMMA FlashBorrowStep ==
    ASSUME IInv, NEW amount \in Nat, NEW v \in VariableBases, NEW p \in PriceLevel,
           FlashBorrow(amount, v, p)
    PROVE  IInv' /\ Pool!PoolNext
<1> DEFINE l == Refreshed(v)
<1>1. /\ amount <= l.available_amount
      /\ liquidity' = Borrowed(l, FromInt(amount))
      /\ flash' = {amount}
      /\ vault' = vault - amount
      /\ last_update' = MarkStale(UpdateSlot(slot, p))
      /\ UNCHANGED <<slot, supply, version, crossed, caps, borrow, unclaimed,
                     referral, circulating>>
  BY DEF FlashBorrow, ReserveUsed
<1>2. slot \in Nat /\ vault = liquidity.available_amount
  BY DEF IInv, Control, Money, BooksMatchTokens
<1>3. /\ l \in LiquidityType /\ l.available_amount = vault
      /\ TotalSupply(l) >= TotalSupply(liquidity)
      /\ TotalSupply(l) \in Int /\ TotalSupply(liquidity) \in Int
      /\ l.cumulative_borrow_rate_bsf > 0
  BY <1>2, RefreshedFacts
<1> HIDE DEF l
<1>4. FromInt(amount) \in Nat /\ ToFloor(FromInt(amount)) = amount
  BY SFAssumption, TimesNat, FloorOfInt DEF FromInt
<1>5. /\ liquidity' \in LiquidityType
      /\ liquidity'.available_amount = vault - amount
      /\ liquidity'.cumulative_borrow_rate_bsf = l.cumulative_borrow_rate_bsf
      /\ TotalSupply(liquidity') >= TotalSupply(l)
  BY <1>1, <1>3, <1>4, BorrowedFacts
<1>6. TotalSupply(liquidity') >= TotalSupply(liquidity)
  <2>1. TotalSupply(liquidity') \in Int
    BY <1>5, TotalSupplyInt
  <2> QED
    BY <1>3, <1>5, <2>1
<1>7. Money' /\ Pool!PoolNext
  BY <1>1, <1>2, <1>3, <1>5, <1>6, MoneyKept
<1>8. /\ last_update' \in LastUpdateType /\ last_update'.slot = slot
      /\ last_update'.stale
  BY <1>1, <1>2, StampFacts DEF IInv, Control
<1>9. Control'
  BY <1>1, <1>2, <1>8 DEF IInv, Control
<1>10. Positions'
  BY <1>1, <1>5, <1>8, RefreshedRateStep, PositionsSame DEF l
<1> QED
  BY <1>7, <1>9, <1>10 DEF IInv

\* flash_repay_reserve_liquidity, also on a reserve retired in between
LEMMA FlashRepayStep ==
    ASSUME IInv, NEW amount \in flash, NEW r \in Referrers \cup {NoReferrer},
           FlashRepay(amount, r)
    PROVE  IInv' /\ Pool!PoolNext /\ vault' >= vault
<1> USE SFAssumption, ReserveConfigAssumption
<1> DEFINE base == FromInt(amount)
           rfee == ReferrerFee(base, FlashFee, FALSE, referral, r # NoReferrer)
           m == Repaid(liquidity, amount, base)
<1>1. /\ crossed' = LimitTimestamps(m)
      /\ liquidity' = ReferrerFeeKept(m, rfee)
      /\ unclaimed' = IF r # NoReferrer
                      THEN [unclaimed EXCEPT ![r] = @ + FromInt(rfee)]
                      ELSE unclaimed
      /\ flash' = {}
      /\ vault' = vault + amount + rfee
      /\ last_update' = MarkStale(last_update)
      /\ UNCHANGED <<slot, supply, version, caps, borrow, referral, circulating>>
  BY DEF FlashRepay
<1>2. /\ liquidity \in LiquidityType /\ vault = liquidity.available_amount
      /\ vault \in Nat /\ referral \in 0 .. SF /\ amount \in Nat
      /\ liquidity.cumulative_borrow_rate_bsf > 0
      /\ unclaimed \in [Referrers -> Nat]
  BY DEF IInv, Money, Control, BooksMatchTokens, LiquidityType
<1>3. base \in Nat /\ base <= FromInt(amount)
  BY <1>2, TimesNat DEF FromInt
<1>4. rfee \in Nat
  <2>1. (r # NoReferrer) \in BOOLEAN /\ FALSE \in BOOLEAN
    OBVIOUS
  <2> QED
    BY <1>2, <1>3, <2>1, FeesNat
<1> HIDE DEF rfee
<1>5. /\ m \in LiquidityType
      /\ m.available_amount = vault + amount
      /\ m.cumulative_borrow_rate_bsf = liquidity.cumulative_borrow_rate_bsf
      /\ TotalSupply(m) >= TotalSupply(liquidity)
  BY <1>2, <1>3, RepaidFacts
<1> HIDE DEF m
<1>6. /\ liquidity' \in LiquidityType
      /\ liquidity'.available_amount = m.available_amount + rfee
      /\ liquidity'.cumulative_borrow_rate_bsf = m.cumulative_borrow_rate_bsf
      /\ TotalSupply(liquidity') = TotalSupply(m)
      /\ FromInt(rfee) \in Nat
  BY <1>1, <1>4, <1>5, ReferrerFeeKeptFacts
<1>7. Money' /\ Pool!PoolNext
  BY <1>1, <1>2, <1>5, <1>6, MoneyKept
<1>8. RateStep /\ last_update' \in LastUpdateType /\ last_update'.slot <= slot
      /\ last_update'.stale
  BY <1>1, <1>5, <1>6, UsedStep
<1>9. unclaimed' \in [Referrers -> Nat]
  BY <1>1, <1>2, <1>6
<1>10. Control'
  BY <1>1, <1>8, <1>9, LimitTimestampsType DEF IInv, Control
<1>11. Positions'
  BY <1>1, <1>8, PositionsSame
<1>12. vault' >= vault
  BY <1>1, <1>2, <1>4
<1> QED
  BY <1>7, <1>10, <1>11, <1>12 DEF IInv

\* redeem_fees
LEMMA RedeemFeesStep ==
    ASSUME IInv, RedeemFees
    PROVE  IInv' /\ Pool!PoolNext
<1> DEFINE a == RedeemableFees(liquidity)
<1>1. /\ liquidity' = FeesRedeemed(liquidity, a)
      /\ vault' = vault - a
      /\ last_update' = MarkStale(last_update)
      /\ UNCHANGED <<slot, supply, version, crossed, caps, borrow, unclaimed,
                     referral, flash, circulating>>
  BY DEF RedeemFees, market
<1>2. /\ liquidity \in LiquidityType /\ vault = liquidity.available_amount
      /\ liquidity.cumulative_borrow_rate_bsf > 0
      /\ TotalSupply(liquidity) \in Int
  BY TotalSupplyInt DEF IInv, Money, BooksMatchTokens
<1>3. /\ liquidity' \in LiquidityType
      /\ TotalSupply(liquidity') = TotalSupply(liquidity)
  BY <1>1, <1>2, FeesRedeemedFacts
<1>4. /\ liquidity'.available_amount = vault - a
      /\ liquidity'.cumulative_borrow_rate_bsf = liquidity.cumulative_borrow_rate_bsf
  BY <1>1, <1>2 DEF FeesRedeemed, LiquidityType
<1>5. Money' /\ Pool!PoolNext
  BY <1>1, <1>2, <1>3, <1>4, MoneyKept
<1>6. RateStep /\ last_update' \in LastUpdateType /\ last_update'.slot <= slot
      /\ last_update'.stale
  BY <1>1, <1>4, UsedStep
<1>7. Control'
  BY <1>1, <1>6 DEF IInv, Control
<1>8. Positions'
  BY <1>1, <1>6, PositionsSame
<1> QED
  BY <1>5, <1>7, <1>8 DEF IInv

\* withdraw_referrer_fees
LEMMA WithdrawReferrerFeesStep ==
    ASSUME IInv, NEW r \in Referrers, WithdrawReferrerFees(r)
    PROVE  IInv' /\ Pool!PoolNext
<1> DEFINE a == WithdrawableReferrerFees(liquidity, unclaimed[r])
<1>1. /\ liquidity' = ReferrerFeesWithdrawn(liquidity, a)
      /\ unclaimed' = [unclaimed EXCEPT ![r] = @ - FromInt(a)]
      /\ vault' = vault - a
      /\ last_update' = MarkStale(last_update)
      /\ UNCHANGED <<slot, supply, version, crossed, caps, borrow, referral, flash,
                     circulating>>
  BY DEF WithdrawReferrerFees
<1>2. /\ liquidity \in LiquidityType /\ vault = liquidity.available_amount
      /\ liquidity.cumulative_borrow_rate_bsf > 0
      /\ TotalSupply(liquidity) \in Int
      /\ unclaimed \in [Referrers -> Nat]
  BY TotalSupplyInt DEF IInv, Money, Control, BooksMatchTokens
<1>3. /\ liquidity' \in LiquidityType
      /\ TotalSupply(liquidity') = TotalSupply(liquidity)
      /\ FromInt(a) \in Nat /\ FromInt(a) <= unclaimed[r]
  BY <1>1, <1>2, ReferrerFeesWithdrawnFacts
<1>4. /\ liquidity'.available_amount = vault - a
      /\ liquidity'.cumulative_borrow_rate_bsf = liquidity.cumulative_borrow_rate_bsf
  BY <1>1, <1>2 DEF ReferrerFeesWithdrawn, LiquidityType
<1> HIDE DEF a
<1>5. Money' /\ Pool!PoolNext
  BY <1>1, <1>2, <1>3, <1>4, MoneyKept
<1>6. RateStep /\ last_update' \in LastUpdateType /\ last_update'.slot <= slot
      /\ last_update'.stale
  BY <1>1, <1>4, UsedStep
<1>7. unclaimed' \in [Referrers -> Nat]
  BY <1>1, <1>2, <1>3
<1>8. Control'
  BY <1>1, <1>6, <1>7 DEF IInv, Control
<1>9. Positions'
  BY <1>1, <1>6, PositionsSame
<1> QED
  BY <1>5, <1>8, <1>9 DEF IInv

\* update_lending_market, the referral fee
LEMMA UpdateReferralFeeStep ==
    ASSUME IInv, NEW q \in ReferralRates, UpdateReferralFee(q)
    PROVE  IInv' /\ Pool!PoolNext
<1>1. /\ referral' = q /\ q \in 0 .. SF
      /\ UNCHANGED <<slot, liquidity, supply, version, last_update, crossed, caps,
                     borrow, unclaimed, flash, vault, circulating>>
  BY ReserveAssumption DEF UpdateReferralFee, pool
<1>2. Money' /\ Pool!PoolNext
  BY <1>1, MoneyKept, TotalSupplyInt DEF IInv, Money, BooksMatchTokens
<1>3. Control'
  BY <1>1 DEF IInv, Control
<1>4. RateStep
  BY <1>1 DEF RateStep, IInv, Money, LiquidityType
<1>5. Positions'
  BY <1>1, <1>4, PositionsSame
<1> QED
  BY <1>2, <1>3, <1>5 DEF IInv

-----------------------------------------------------------------------------
(* The theorems.                                                             *)

\* Every step keeps the invariant and is a step of the share pool.
LEMMA NextStep ==
    ASSUME IInv, Next
    PROVE  IInv' /\ Pool!PoolNext
<1> USE ReserveAssumption
<1>1. /\ KeptPriceLevels \subseteq PriceLevel /\ PriceLevels \subseteq PriceLevel
      /\ circulating \in Nat /\ Amounts \subseteq Nat /\ U64Max \in Nat
      /\ \A o \in Obligations : borrow[o].borrowed_amount_sf \in Nat
  BY KeptLevels, PositionFacts DEF IInv, Money
<1>2. CASE Tick
  BY <1>2, TickStep
<1>3. CASE \E v \in VariableBases, p \in PriceLevels \cup KeptPriceLevels :
              RefreshReserve(v, p) \/ UpdateReserveConfig(v, p)
  BY <1>1, <1>3, RefreshReserveStep, UpdateReserveConfigStep
<1>4. CASE \E o \in Obligations, p \in PriceLevels : RefreshObligation(o, p)
  BY <1>1, <1>4, RefreshObligationStep
<1>5. CASE \E a \in Amounts, v \in VariableBases, p \in KeptPriceLevels :
              \/ DepositReserveLiquidity(a, v, p)
              \/ RedeemReserveCollateral(a, v, p)
              \/ FlashBorrow(a, v, p)
  <2>1. PICK a \in Amounts, v \in VariableBases, p \in KeptPriceLevels :
              \/ DepositReserveLiquidity(a, v, p)
              \/ RedeemReserveCollateral(a, v, p)
              \/ FlashBorrow(a, v, p)
    BY <1>5
  <2>2. a \in Nat /\ p \in PriceLevel
    BY <1>1
  <2> QED
    BY <2>1, <2>2, DepositStep, RedeemStep, FlashBorrowStep
<1>6. CASE \E o \in Obligations, a \in Amounts \cup {U64Max}, w \in BorrowPowers :
              BorrowObligationLiquidity(o, a, w)
  <2>1. PICK o \in Obligations, a \in Amounts \cup {U64Max}, w \in BorrowPowers :
              BorrowObligationLiquidity(o, a, w)
    BY <1>6
  <2>2. a \in Nat /\ w \in Nat
    BY <1>1
  <2> QED
    BY <2>1, <2>2, BorrowStep
<1>7. CASE \E o \in Obligations, a \in Amounts \cup {U64Max} :
              RepayObligationLiquidity(o, a)
  <2>1. PICK o \in Obligations, a \in Amounts \cup {U64Max} :
              RepayObligationLiquidity(o, a)
    BY <1>7
  <2>2. a \in Nat
    BY <1>1
  <2> QED
    BY <2>1, <2>2, RepayStep
<1>8. CASE \E o \in Obligations : WithdrawObligationCollateral(o)
  BY <1>8, WithdrawCollateralStep
<1>9. CASE \E o \in Obligations, v \in VariableBases, p \in KeptPriceLevels :
              DepositObligationCollateral(o, v, p)
  BY <1>1, <1>9, DepositCollateralStep
<1>10. CASE \E o \in Obligations : \E f \in 1 .. borrow[o].borrowed_amount_sf :
              LiquidateRepay(o, f)
  <2>1. PICK o \in Obligations : \E f \in 1 .. borrow[o].borrowed_amount_sf :
              LiquidateRepay(o, f)
    BY <1>10
  <2>2. PICK f \in 1 .. borrow[o].borrowed_amount_sf : LiquidateRepay(o, f)
    BY <2>1
  <2>3. f \in Nat
    BY <1>1, <2>2
  <2> QED
    BY <2>2, <2>3, LiquidateRepayStep
<1>11. CASE \E o \in Obligations, c \in 1 .. circulating, p \in KeptPriceLevels :
              LiquidateRedeem(o, c, p)
  <2>1. PICK o \in Obligations, c \in 1 .. circulating, p \in KeptPriceLevels :
              LiquidateRedeem(o, c, p)
    BY <1>11
  <2>2. c \in Nat /\ p \in PriceLevel
    BY <1>1
  <2> QED
    BY <2>1, <2>2, LiquidateRedeemStep
<1>12. CASE \E o \in Obligations, c \in 1 .. circulating, p \in KeptPriceLevels :
              \E f \in 1 .. borrow[o].borrowed_amount_sf :
                 LiquidateSameReserve(o, f, c, p)
  <2>1. PICK o \in Obligations, c \in 1 .. circulating, p \in KeptPriceLevels :
              \E f \in 1 .. borrow[o].borrowed_amount_sf :
                 LiquidateSameReserve(o, f, c, p)
    BY <1>12
  <2>2. PICK f \in 1 .. borrow[o].borrowed_amount_sf : LiquidateSameReserve(o, f, c, p)
    BY <2>1
  <2>3. f \in Nat /\ c \in Nat /\ p \in PriceLevel
    BY <1>1, <2>2
  <2> QED
    BY <2>2, <2>3, LiquidateSameReserveStep
<1>13. CASE \E o \in Obligations, a \in Amounts : SocializeLoss(o, a)
  BY <1>1, <1>13, SocializeLossStep
<1>14. CASE \E a \in flash, r \in Referrers \cup {NoReferrer} : FlashRepay(a, r)
  BY <1>14, FlashRepayStep
<1>15. CASE RedeemFees
  BY <1>15, RedeemFeesStep
<1>16. CASE \E r \in Referrers : WithdrawReferrerFees(r)
  BY <1>16, WithdrawReferrerFeesStep
<1>17. CASE \E q \in ReferralRates : UpdateReferralFee(q)
  BY <1>17, UpdateReferralFeeStep
<1> QED
  BY <1>2, <1>3, <1>4, <1>5, <1>6, <1>7, <1>8, <1>9, <1>10, <1>11, <1>12, <1>13,
     <1>14, <1>15, <1>16, <1>17 DEF Next

\* A step that changes nothing.
LEMMA StutterStep ==
    ASSUME IInv, UNCHANGED vars
    PROVE  IInv' /\ UNCHANGED Pool!poolVars
<1>1. UNCHANGED <<slot, liquidity, supply, version, last_update, crossed, caps,
                  borrow, unclaimed, referral, flash, vault, circulating>>
  BY DEF vars, pool, market
<1>2. UNCHANGED Pool!poolVars
  BY <1>1 DEF Pool!poolVars, TotalSupply
<1>3. Money'
  BY <1>1 DEF IInv, Money, BooksMatchTokens, Solvent, TotalSupply
<1>4. Control'
  BY <1>1 DEF IInv, Control
<1>5. Positions'
  BY <1>1 DEF IInv, Positions
<1> QED
  BY <1>2, <1>3, <1>4, <1>5 DEF IInv

\* The inductive invariant holds in every reachable state.
THEOREM Inductive == Spec => []IInv
<1>1. Init => IInv
  BY InitIInv
<1>2. IInv /\ [Next]_vars => IInv'
  BY NextStep, StutterStep
<1> QED
  BY <1>1, <1>2, PTL DEF Spec

\* Every variable keeps its type: in particular no u64 or fraction of the
\* reserve, of a position or of a referrer ever goes below zero.
THEOREM TypeCorrect == Spec => []TypeOK
<1>1. IInv => TypeOK
  BY IInvImplies
<1> QED
  BY <1>1, Inductive, PTL

\* The vault always holds exactly available_amount, and the collateral in
\* circulation is the supply without the seed.
THEOREM BooksAlwaysMatch == Spec => []BooksMatchTokens
<1>1. IInv => BooksMatchTokens
  BY IInvImplies
<1> QED
  BY <1>1, Inductive, PTL

\* A live reserve always belongs to its depositors.
THEOREM AlwaysSolvent == Spec => []Solvent
<1>1. IInv => Solvent
  BY IInvImplies
<1> QED
  BY <1>1, Inductive, PTL

\* A fresh obligation carries the reserve's current borrow rate.
THEOREM FreshDebtAlwaysCurrent == Spec => []FreshDebtIsCurrent
<1>1. IInv => FreshDebtIsCurrent
  BY IInvImplies
<1> QED
  BY <1>1, Inductive, PTL

\* The reserve implements the share pool: no operation but a socialised loss
\* lowers the liquidity behind a collateral token, and a loss costs exactly the
\* debt written off.
THEOREM ImplementsSharePool == Spec => SharesNeverDiluted
<1>1. Init => Pool!PoolInit
  <2> SUFFICES ASSUME Init PROVE Pool!PoolInit
    OBVIOUS
  <2>1. /\ liquidity = NewReserveLiquidity(MinInitialDeposit)
        /\ supply = MinInitialDeposit /\ version = "current"
    BY DEF Init
  <2>2. FromInt(MinInitialDeposit) \in Int
    BY SFAssumption, ReserveAssumption DEF FromInt
  <2>3. /\ TotalSupply(liquidity) = FromInt(MinInitialDeposit)
        /\ liquidity.borrowed_amount_sf = 0
    BY <2>1, <2>2 DEF NewReserveLiquidity, TotalSupply
  <2> QED
    BY <2>1, <2>3 DEF Pool!PoolInit
<1>2. IInv /\ [Next]_vars => [Pool!PoolNext]_(Pool!poolVars)
  BY NextStep, StutterStep
<1> QED
  BY <1>1, <1>2, Inductive, PTL DEF Spec, SharesNeverDiluted, Pool!PoolSpec

\* What a step of a retired reserve leaves alone.
Frozen ==
    /\ version' = "deprecated"
    /\ vault' >= vault
    /\ \A o \in Obligations :
          borrow'[o].borrowed_amount_sf = borrow[o].borrowed_amount_sf

\* Marking an obligation stale leaves every debt as it is.
LEMMA MarkedDebts ==
    ASSUME IInv, NEW o \in Obligations,
           borrow' = [borrow EXCEPT ![o].last_update = MarkStale(@)]
    PROVE  \A q \in Obligations :
              borrow'[q].borrowed_amount_sf = borrow[q].borrowed_amount_sf
<1> SUFFICES ASSUME NEW q \in Obligations
             PROVE  borrow'[q].borrowed_amount_sf = borrow[q].borrowed_amount_sf
  OBVIOUS
<1>1. borrow \in [Obligations -> BorrowType] /\ borrow[o] \in BorrowType
  BY PositionFacts DEF IInv, Positions
<1> DEFINE b == [borrow[o] EXCEPT !.last_update = MarkStale(borrow[o].last_update)]
<1>2. borrow' = [borrow EXCEPT ![o] = b]
  BY Zenon
<1>3. b.borrowed_amount_sf = borrow[o].borrowed_amount_sf
  BY <1>1 DEF BorrowType
<1> HIDE DEF b
<1> QED
  BY <1>1, <1>2, <1>3

\* Every step of a retired reserve is frozen.
LEMMA RetiredStep ==
    ASSUME IInv, Next, version = "deprecated"
    PROVE  Frozen
<1>1. \A level \in PriceLevel : ~ReserveFresh(level)
  BY FreshIsCurrent DEF IInv
<1>2. ~ReserveFresh(NONE) /\ ~ReserveFresh(LIQUIDATION_CHECKS) /\ ~ReserveFresh(ALL_CHECKS)
  BY <1>1 DEF NONE, LIQUIDATION_CHECKS, ALL_CHECKS, PriceLevel
<1>3. vault \in Nat /\ vault >= vault
  BY DEF IInv, Money, BooksMatchTokens, LiquidityType
<1>4. CASE Tick \/ \E q \in ReferralRates : UpdateReferralFee(q)
  BY <1>3, <1>4 DEF Tick, UpdateReferralFee, pool, Frozen
<1>5. CASE \E v \in VariableBases, p \in PriceLevels \cup KeptPriceLevels :
              RefreshReserve(v, p) \/ UpdateReserveConfig(v, p)
  BY <1>3, <1>5 DEF RefreshReserve, UpdateReserveConfig, Frozen
<1>6. CASE \E o \in Obligations, p \in PriceLevels : RefreshObligation(o, p)
  <2>1. PICK o \in Obligations, p \in PriceLevels : RefreshObligation(o, p)
    BY <1>6
  <2> DEFINE b == [borrow[o] EXCEPT !.last_update = UpdateSlot(slot, p)]
  <2>2. ~HasBorrow(o)
    BY <2>1 DEF RefreshObligation
  <2>3. borrow' = [borrow EXCEPT ![o] = b] /\ UNCHANGED <<version, vault>>
    BY <2>1, <2>2 DEF RefreshObligation
  <2>4. borrow \in [Obligations -> BorrowType] /\ borrow[o] \in BorrowType
    BY PositionFacts DEF IInv, Positions
  <2>5. b.borrowed_amount_sf = borrow[o].borrowed_amount_sf
    BY <2>4 DEF BorrowType
  <2> HIDE DEF b
  <2> QED
    BY <1>3, <2>3, <2>4, <2>5 DEF Frozen
<1>7. CASE \E o \in Obligations : WithdrawObligationCollateral(o)
  <2>1. PICK o \in Obligations : WithdrawObligationCollateral(o)
    BY <1>7
  <2>2. UNCHANGED <<version, vault>>
        /\ borrow' = [borrow EXCEPT ![o].last_update = MarkStale(@)]
    BY <2>1 DEF WithdrawObligationCollateral, pool
  <2> QED
    BY <1>3, <2>2, MarkedDebts DEF Frozen
<1>8. CASE \E a \in flash, r \in Referrers \cup {NoReferrer} : FlashRepay(a, r)
  <2>1. PICK a \in flash, r \in Referrers \cup {NoReferrer} : FlashRepay(a, r)
    BY <1>8
  <2>2. version' = version /\ borrow' = borrow
    BY <2>1 DEF FlashRepay
  <2>3. vault' >= vault
    BY <2>1, FlashRepayStep
  <2> QED
    BY <2>2, <2>3 DEF Frozen
<1>9. /\ \A a, v, p : /\ ~DepositReserveLiquidity(a, v, p)
                      /\ ~RedeemReserveCollateral(a, v, p)
                      /\ ~FlashBorrow(a, v, p)
      /\ \A o, a, w : ~BorrowObligationLiquidity(o, a, w)
      /\ \A o, v, p : ~DepositObligationCollateral(o, v, p)
  BY DEF DepositReserveLiquidity, RedeemReserveCollateral, FlashBorrow,
         BorrowObligationLiquidity, DepositObligationCollateral
<1>10. /\ \A o, a : ~RepayObligationLiquidity(o, a)
       /\ \A o, f : ~LiquidateRepay(o, f)
       /\ \A o, c, p : ~LiquidateRedeem(o, c, p)
       /\ \A o, f, c, p : ~LiquidateSameReserve(o, f, c, p)
  BY DEF RepayObligationLiquidity, LiquidateRepay, LiquidateRedeem,
         LiquidateSameReserve, Liquidatable
<1>11. /\ \A o, a : ~SocializeLoss(o, a)
       /\ \A r : ~WithdrawReferrerFees(r)
       /\ ~RedeemFees
  BY <1>2 DEF SocializeLoss, WithdrawReferrerFees, RedeemFees
<1> QED
  BY <1>4, <1>5, <1>6, <1>7, <1>8, <1>9, <1>10, <1>11 DEF Next

\* A reserve retired by socialize_loss never pays anybody again and no debt in
\* it moves, although redeem_fees and withdraw_referrer_fees ignore the version.
THEOREM RetirementAlwaysFinal == Spec => RetirementIsFinal
<1>1. IInv /\ [Next]_vars =>
        [version = "deprecated" =>
           /\ version' = "deprecated"
           /\ vault' >= vault
           /\ \A o \in Obligations :
                 borrow'[o].borrowed_amount_sf = borrow[o].borrowed_amount_sf]_vars
  BY RetiredStep DEF Frozen
<1> QED
  BY <1>1, Inductive, PTL DEF Spec, RetirementIsFinal

-----------------------------------------------------------------------------
(* The referrers' ledgers.                                                   *)

\* The reserve's ledger and one referrer's change by the same amount, or neither.
LedgerStep ==
    LET fees == liquidity.accumulated_referrer_fees_sf
        fees2 == liquidity'.accumulated_referrer_fees_sf
    IN \/ fees2 = fees /\ unclaimed' = unclaimed
       \/ \E r \in Referrers : \E n \in Int :
             /\ fees2 = fees + n
             /\ unclaimed' = [unclaimed EXCEPT ![r] = unclaimed[r] + n]

\* Such a step keeps the reserve's ledger the sum of the referrers'.
LEMMA LedgerFollows ==
    ASSUME IInv, IInv', ReferrerFeesBacked, LedgerStep
    PROVE  ReferrerFeesBacked'
<1>1. /\ unclaimed \in [Referrers -> Nat] /\ unclaimed' \in [Referrers -> Nat]
      /\ IsFiniteSet(Referrers) /\ liquidity.accumulated_referrer_fees_sf \in Nat
  BY ReserveAssumption DEF IInv, Control, Money, LiquidityType
<1>2. CASE /\ liquidity'.accumulated_referrer_fees_sf
                = liquidity.accumulated_referrer_fees_sf
           /\ unclaimed' = unclaimed
  BY <1>2 DEF ReferrerFeesBacked
<1>3. ASSUME NEW r \in Referrers, NEW n \in Int,
             liquidity'.accumulated_referrer_fees_sf
                = liquidity.accumulated_referrer_fees_sf + n,
             unclaimed' = [unclaimed EXCEPT ![r] = unclaimed[r] + n]
      PROVE  ReferrerFeesBacked'
  <2>1. /\ unclaimed'[r] = unclaimed[r] + n
        /\ \A q \in Referrers \ {r} : unclaimed'[q] = unclaimed[q]
    BY <1>1, <1>3
  <2>2. SumFunction(unclaimed') = SumFunction(unclaimed) - unclaimed[r] + unclaimed'[r]
    BY <1>1, <2>1, SumChange
  <2>3. SumFunction(unclaimed) = liquidity.accumulated_referrer_fees_sf
    BY DEF ReferrerFeesBacked
  <2>4. unclaimed[r] \in Nat
    BY <1>1
  <2>5. SumFunction(unclaimed') = liquidity'.accumulated_referrer_fees_sf
    BY <1>1, <1>3, <2>1, <2>2, <2>3, <2>4
  <2> QED
    BY <2>5 DEF ReferrerFeesBacked
<1> QED
  BY <1>2, <1>3 DEF LedgerStep

\* Refreshing a reserve leaves what is set aside for referrers alone: their
\* share of new interest is only pending.
LEMMA RefreshedLedger ==
    ASSUME IInv, NEW v \in VariableBases
    PROVE  /\ Refreshed(v) \in LiquidityType
           /\ Refreshed(v).accumulated_referrer_fees_sf
                = liquidity.accumulated_referrer_fees_sf
<1>1. Refreshed(v) \in LiquidityType
  BY RefreshedFacts
<1>2. Refreshed(v).accumulated_referrer_fees_sf = liquidity.accumulated_referrer_fees_sf
  BY DEF Refreshed, AccrueInterest, Compound
<1> QED
  BY <1>1, <1>2

\* Moving liquidity and debt leaves it alone too.
LEMMA MovesNoReferrerFees ==
    ASSUME NEW l \in LiquidityType, NEW a, NEW f
    PROVE  LET fees == l.accumulated_referrer_fees_sf
           IN /\ Deposited(l, a).accumulated_referrer_fees_sf = fees
              /\ Withdrawn(l, a).accumulated_referrer_fees_sf = fees
              /\ Borrowed(l, f).accumulated_referrer_fees_sf = fees
              /\ Repaid(l, a, f).accumulated_referrer_fees_sf = fees
              /\ Forgiven(l, f).accumulated_referrer_fees_sf = fees
              /\ FeesRedeemed(l, a).accumulated_referrer_fees_sf = fees
BY DEF Deposited, Withdrawn, Borrowed, Repaid, Forgiven, FeesRedeemed, LiquidityType

\* A referrer's share of a fee enters the reserve's ledger.
LEMMA KeepsReferrerFee ==
    ASSUME NEW l \in LiquidityType, NEW a, NEW f, NEW fee
    PROVE  LET fees == l.accumulated_referrer_fees_sf
           IN /\ ReferrerFeeKept(Borrowed(l, f), fee).accumulated_referrer_fees_sf
                   = fees + FromInt(fee)
              /\ ReferrerFeeKept(Repaid(l, a, f), fee).accumulated_referrer_fees_sf
                   = fees + FromInt(fee)
              /\ ReferrerFeesWithdrawn(l, a).accumulated_referrer_fees_sf
                   = fees - FromInt(a)
BY DEF ReferrerFeeKept, ReferrerFeesWithdrawn, Borrowed, Repaid, LiquidityType

\* A redemption of seized collateral.
LEMMA SeizedLedger ==
    ASSUME NEW l \in LiquidityType, NEW w, NEW p, NEW paid, RedeemSeized(l, w, p, paid)
    PROVE  liquidity'.accumulated_referrer_fees_sf = l.accumulated_referrer_fees_sf
<1>1. (\E a : liquidity' = Withdrawn(l, a)) \/ liquidity' = l
  BY DEF RedeemSeized, Redeem
<1> QED
  BY <1>1, MovesNoReferrerFees

\* What a referrer gains or draws moves its ledger and the reserve's alike.
LEMMA FeeLedger ==
    ASSUME IInv, NEW r, NEW n \in Int,
           r \in Referrers \/ n = 0,
           liquidity'.accumulated_referrer_fees_sf
              = liquidity.accumulated_referrer_fees_sf + n,
           unclaimed' = IF r \in Referrers
                        THEN [unclaimed EXCEPT ![r] = unclaimed[r] + n]
                        ELSE unclaimed
    PROVE  LedgerStep
<1>1. liquidity.accumulated_referrer_fees_sf \in Nat
  BY DEF IInv, Money, LiquidityType
<1> QED
  BY <1>1 DEF LedgerStep

\* A refresh of an obligation hands a referrer its share of pending fees.
LEMMA RefreshObligationLedger ==
    ASSUME IInv, NEW o \in Obligations, NEW p \in PriceLevel, RefreshObligation(o, p)
    PROVE  LedgerStep
<1> DEFINE n == ReferralShare(o)
<1>1. liquidity \in LiquidityType /\ unclaimed \in [Referrers -> Nat]
  BY DEF IInv, Money, Control
<1>2. CASE ~HasBorrow(o) \/ liquidity.absolute_referral_rate_sf = 0
  BY <1>2 DEF RefreshObligation, LedgerStep
<1>3. CASE HasBorrow(o) /\ liquidity.absolute_referral_rate_sf # 0
  <2>1. n \in Nat
    BY <1>3, ReferralShareFacts DEF RefreshObligation
  <2>2. CASE ReferrerOf[o] # NoReferrer /\ referral > 0
    <3>1. /\ liquidity' = [liquidity EXCEPT
                !.pending_referrer_fees_sf = @ - n,
                !.accumulated_referrer_fees_sf = @ + n]
          /\ unclaimed' = [unclaimed EXCEPT
                ![ReferrerOf[o]] = unclaimed[ReferrerOf[o]] + n]
      BY <1>3, <2>2 DEF RefreshObligation
    <3>2. ReferrerOf[o] \in Referrers
      BY <2>2, ReserveAssumption
    <3> DEFINE r == ReferrerOf[o]
    <3> HIDE DEF n
    <3>3. liquidity'.accumulated_referrer_fees_sf
            = liquidity.accumulated_referrer_fees_sf + n
      BY <1>1, <3>1 DEF LiquidityType
    <3>4. r \in Referrers /\ unclaimed' = [unclaimed EXCEPT ![r] = unclaimed[r] + n]
      BY <3>1, <3>2
    <3>5. n \in Int
      BY <2>1
    <3> HIDE DEF r
    <3> QED
      BY <3>3, <3>4, <3>5, FeeLedger
  <2>3. CASE ~(ReferrerOf[o] # NoReferrer /\ referral > 0)
    <3>1. /\ liquidity' = [liquidity EXCEPT
                !.pending_referrer_fees_sf = @ - n,
                !.accumulated_protocol_fees_sf = @ + n]
          /\ unclaimed' = unclaimed
      BY <1>3, <2>3 DEF RefreshObligation
    <3> HIDE DEF n
    <3>2. liquidity'.accumulated_referrer_fees_sf = liquidity.accumulated_referrer_fees_sf
      BY <1>1, <3>1 DEF LiquidityType
    <3> QED
      BY <3>1, <3>2 DEF LedgerStep
  <2> QED
    BY <2>2, <2>3
<1> QED
  BY <1>2, <1>3

\* Without a referrer there is no share of a fee.
LEMMA NoShare ==
    ASSUME NEW base, NEW fee, NEW inclusive, NEW rate
    PROVE  FromInt(ReferrerFee(base, fee, inclusive, rate, FALSE)) = 0
BY SFAssumption DEF ReferrerFee, FromInt

\* A borrow credits the referrer with its share of the origination fee.
LEMMA BorrowLedger ==
    ASSUME IInv, NEW o \in Obligations, NEW amount \in Nat, NEW power \in Nat,
           BorrowObligationLiquidity(o, amount, power)
    PROVE  LedgerStep
<1> USE SFAssumption, ReserveConfigAssumption, ReserveAssumption
<1> DEFINE max == amount = U64Max
           bf == BorrowAmount(o, amount, power)
           base == IF max THEN bf ELSE FromInt(amount)
           rfee == ReferrerFee(base, BorrowFee, max, referral, HasReferrer(o))
           r == ReferrerOf[o]
<1>1. /\ liquidity' = ReferrerFeeKept(Borrowed(liquidity, bf), rfee)
      /\ unclaimed' = IF HasReferrer(o)
                      THEN [unclaimed EXCEPT ![r] = @ + FromInt(rfee)] ELSE unclaimed
  BY DEF BorrowObligationLiquidity
<1>2. liquidity \in LiquidityType /\ referral \in 0 .. SF
  BY DEF IInv, Money, Control
<1>3. bf \in Nat
  BY BorrowAmountNat
<1>4. base \in Nat
  BY <1>3, TimesNat DEF FromInt
<1>5. HasReferrer(o) = (r \in Referrers)
  BY DEF HasReferrer
<1>6. rfee \in Nat
  <2>1. max \in BOOLEAN /\ HasReferrer(o) \in BOOLEAN
    BY DEF HasReferrer
  <2> HIDE DEF max, base
  <2> QED
    BY <1>2, <1>4, <2>1, FeesNat
<1>7. ~HasReferrer(o) => FromInt(rfee) = 0
  <2> HIDE DEF max, base
  <2>1. ASSUME ~HasReferrer(o) PROVE HasReferrer(o) = FALSE
    BY <2>1 DEF HasReferrer
  <2> QED
    BY <2>1, NoShare
<1> HIDE DEF rfee, bf, r
<1>8. FromInt(rfee) \in Int
  BY <1>6, TimesNat DEF FromInt
<1>9. liquidity'.accumulated_referrer_fees_sf
        = liquidity.accumulated_referrer_fees_sf + FromInt(rfee)
  BY <1>1, <1>2, KeepsReferrerFee
<1> QED
  BY <1>1, <1>5, <1>7, <1>8, <1>9, FeeLedger

\* So does the repayment of a flash loan, with its share of the flash fee.
LEMMA FlashRepayLedger ==
    ASSUME IInv, NEW amount \in flash, NEW r \in Referrers \cup {NoReferrer},
           FlashRepay(amount, r)
    PROVE  LedgerStep
<1> USE SFAssumption, ReserveConfigAssumption, ReserveAssumption
<1> DEFINE base == FromInt(amount)
           rfee == ReferrerFee(base, FlashFee, FALSE, referral, r # NoReferrer)
<1>1. /\ liquidity' = ReferrerFeeKept(Repaid(liquidity, amount, base), rfee)
      /\ unclaimed' = IF r # NoReferrer
                      THEN [unclaimed EXCEPT ![r] = @ + FromInt(rfee)] ELSE unclaimed
  BY DEF FlashRepay
<1>2. liquidity \in LiquidityType /\ referral \in 0 .. SF /\ amount \in Nat
  BY DEF IInv, Money, Control
<1>3. base \in Nat
  BY <1>2, TimesNat DEF FromInt
<1>4. (r # NoReferrer) = (r \in Referrers)
  OBVIOUS
<1>5. rfee \in Nat
  <2>1. (r # NoReferrer) \in BOOLEAN /\ FALSE \in BOOLEAN
    OBVIOUS
  <2> QED
    BY <1>2, <1>3, <2>1, FeesNat
<1>6. r = NoReferrer => FromInt(rfee) = 0
  <2>1. ASSUME r = NoReferrer PROVE (r # NoReferrer) = FALSE
    BY <2>1
  <2> HIDE DEF base
  <2> QED
    BY <2>1, NoShare
<1> HIDE DEF rfee
<1>7. FromInt(rfee) \in Int
  BY <1>5, TimesNat DEF FromInt
<1>8. liquidity'.accumulated_referrer_fees_sf
        = liquidity.accumulated_referrer_fees_sf + FromInt(rfee)
  BY <1>1, <1>2, KeepsReferrerFee
<1> QED
  BY <1>1, <1>4, <1>6, <1>7, <1>8, FeeLedger

\* A referrer draws what its ledger and the vault both cover.
LEMMA WithdrawReferrerFeesLedger ==
    ASSUME IInv, NEW r \in Referrers, WithdrawReferrerFees(r)
    PROVE  LedgerStep
<1> DEFINE a == WithdrawableReferrerFees(liquidity, unclaimed[r])
           n == 0 - FromInt(a)
<1>1. /\ liquidity' = ReferrerFeesWithdrawn(liquidity, a)
      /\ unclaimed' = [unclaimed EXCEPT ![r] = unclaimed[r] - FromInt(a)]
  BY DEF WithdrawReferrerFees
<1>2. /\ liquidity \in LiquidityType /\ unclaimed \in [Referrers -> Nat]
      /\ unclaimed[r] \in Nat /\ liquidity.accumulated_referrer_fees_sf \in Nat
  BY DEF IInv, Money, Control, LiquidityType
<1>3. FromInt(a) \in Nat
  BY <1>2, ReferrerFeesWithdrawnFacts
<1> HIDE DEF a
<1>4. liquidity'.accumulated_referrer_fees_sf
        = liquidity.accumulated_referrer_fees_sf - FromInt(a)
  BY <1>1, <1>2, KeepsReferrerFee
<1>5. /\ n \in Int /\ unclaimed[r] - FromInt(a) = unclaimed[r] + n
      /\ liquidity'.accumulated_referrer_fees_sf
           = liquidity.accumulated_referrer_fees_sf + n
  BY <1>2, <1>3, <1>4
<1> HIDE DEF n
<1> QED
  BY <1>1, <1>2, <1>5, FeeLedger

\* Every step moves both ledgers together.
LEMMA NextLedger ==
    ASSUME IInv, Next
    PROVE  LedgerStep
<1> USE ReserveAssumption
<1>1. /\ KeptPriceLevels \subseteq PriceLevel /\ PriceLevels \subseteq PriceLevel
      /\ Amounts \subseteq Nat /\ U64Max \in Nat /\ BorrowPowers \subseteq Nat
      /\ liquidity \in LiquidityType
  BY KeptLevels DEF IInv, Money
<1>2. CASE \/ Tick
           \/ \E o \in Obligations : WithdrawObligationCollateral(o)
           \/ \E q \in ReferralRates : UpdateReferralFee(q)
  BY <1>2 DEF Tick, WithdrawObligationCollateral, UpdateReferralFee, pool, market,
              LedgerStep
<1>3. CASE \E v \in VariableBases, p \in PriceLevels \cup KeptPriceLevels :
              RefreshReserve(v, p) \/ UpdateReserveConfig(v, p)
  BY <1>3, RefreshedLedger DEF RefreshReserve, UpdateReserveConfig, market, LedgerStep
<1>4. CASE \E o \in Obligations, p \in PriceLevels : RefreshObligation(o, p)
  BY <1>1, <1>4, RefreshObligationLedger
<1>5. ASSUME NEW a \in Amounts, NEW v \in VariableBases, NEW p \in KeptPriceLevels,
             \/ DepositReserveLiquidity(a, v, p)
             \/ RedeemReserveCollateral(a, v, p)
             \/ FlashBorrow(a, v, p)
      PROVE  LedgerStep
  <2> DEFINE l == Refreshed(v)
  <2>1. \E x : liquidity' = Deposited(l, x) \/ liquidity' = Withdrawn(l, x)
                 \/ liquidity' = Borrowed(l, x)
    BY <1>5 DEF DepositReserveLiquidity, RedeemReserveCollateral, FlashBorrow, Redeem
  <2>2. unclaimed' = unclaimed
    BY <1>5 DEF DepositReserveLiquidity, RedeemReserveCollateral, FlashBorrow, market
  <2>3. l \in LiquidityType
        /\ l.accumulated_referrer_fees_sf = liquidity.accumulated_referrer_fees_sf
    BY RefreshedLedger
  <2> HIDE DEF l
  <2>4. liquidity'.accumulated_referrer_fees_sf = l.accumulated_referrer_fees_sf
    BY <2>1, <2>3, MovesNoReferrerFees
  <2> QED
    BY <2>2, <2>3, <2>4 DEF LedgerStep
<1>6. CASE \E o \in Obligations, a \in Amounts \cup {U64Max}, w \in BorrowPowers :
              BorrowObligationLiquidity(o, a, w)
  <2>1. PICK o \in Obligations, a \in Amounts \cup {U64Max}, w \in BorrowPowers :
              BorrowObligationLiquidity(o, a, w)
    BY <1>6
  <2>2. a \in Nat /\ w \in Nat
    BY <1>1
  <2> QED
    BY <2>1, <2>2, BorrowLedger
<1>7. ASSUME \/ \E o \in Obligations, a \in Amounts \cup {U64Max} :
                   RepayObligationLiquidity(o, a)
             \/ \E o \in Obligations : \E f \in 1 .. borrow[o].borrowed_amount_sf :
                   LiquidateRepay(o, f)
             \/ \E o \in Obligations, a \in Amounts : SocializeLoss(o, a)
             \/ RedeemFees
      PROVE  LedgerStep
  <2>1. \E n, f : \/ liquidity' = Repaid(liquidity, n, f)
                  \/ liquidity' = Forgiven(liquidity, f)
                  \/ liquidity' = FeesRedeemed(liquidity, n)
    BY <1>7 DEF RepayObligationLiquidity, LiquidateRepay, SocializeLoss, RedeemFees
  <2>2. unclaimed' = unclaimed
    BY <1>7 DEF RepayObligationLiquidity, LiquidateRepay, SocializeLoss, RedeemFees, market
  <2> QED
    BY <1>1, <2>1, <2>2, MovesNoReferrerFees DEF LedgerStep
<1>8. CASE \E o \in Obligations, v \in VariableBases, p \in KeptPriceLevels :
              DepositObligationCollateral(o, v, p)
  BY <1>8, RefreshedLedger DEF DepositObligationCollateral, market, LedgerStep
<1>9. CASE \E o \in Obligations, c \in 1 .. circulating, p \in KeptPriceLevels :
              LiquidateRedeem(o, c, p)
  BY <1>1, <1>9, SeizedLedger DEF LiquidateRedeem, market, LedgerStep
<1>10. CASE \E o \in Obligations, c \in 1 .. circulating, p \in KeptPriceLevels :
              \E f \in 1 .. borrow[o].borrowed_amount_sf :
                 LiquidateSameReserve(o, f, c, p)
  <2>1. PICK o \in Obligations, c \in 1 .. circulating, p \in KeptPriceLevels :
              \E f \in 1 .. borrow[o].borrowed_amount_sf :
                 LiquidateSameReserve(o, f, c, p)
    BY <1>10
  <2>2. PICK f \in 1 .. borrow[o].borrowed_amount_sf : LiquidateSameReserve(o, f, c, p)
    BY <2>1
  <2> DEFINE l == Repaid(liquidity, ToCeil(f), f)
  <2>3. f \in Nat /\ f <= FromInt(ToCeil(f)) /\ ToCeil(f) \in Nat
    <3>1. f \in Nat
      BY <2>2, PositionFacts
    <3> QED
      BY <3>1, CeilFacts
  <2>4. l \in LiquidityType
    BY <1>1, <2>3, RepaidFacts
  <2>5. RedeemSeized(l, c, p, ToCeil(f)) /\ unclaimed' = unclaimed
    BY <2>2 DEF LiquidateSameReserve, market
  <2>6. l.accumulated_referrer_fees_sf = liquidity.accumulated_referrer_fees_sf
    BY <1>1, MovesNoReferrerFees
  <2> HIDE DEF l
  <2> QED
    BY <2>4, <2>5, <2>6, SeizedLedger DEF LedgerStep
<1>11. CASE \E a \in flash, r \in Referrers \cup {NoReferrer} : FlashRepay(a, r)
  BY <1>11, FlashRepayLedger
<1>12. CASE \E r \in Referrers : WithdrawReferrerFees(r)
  BY <1>12, WithdrawReferrerFeesLedger
<1> QED
  BY <1>2, <1>3, <1>4, <1>5, <1>6, <1>7, <1>8, <1>9, <1>10, <1>11, <1>12 DEF Next

\* A new reserve has set nothing aside.
LEMMA InitLedger == Init => ReferrerFeesBacked
<1> SUFFICES ASSUME Init PROVE ReferrerFeesBacked
  OBVIOUS
<1>1. liquidity.accumulated_referrer_fees_sf = 0
  BY DEF Init, NewReserveLiquidity
<1>2. unclaimed \in [Referrers -> Nat] /\ \A r \in Referrers : unclaimed[r] = 0
  BY DEF Init
<1>3. SumFunction(unclaimed) = 0
  BY <1>2, ReserveAssumption, SumZero
<1> QED
  BY <1>1, <1>3 DEF ReferrerFeesBacked

\* The fees set aside for referrers are exactly what the referrers may claim,
\* with any number of referrers and whatever the referral rate becomes.
THEOREM ReferrerFeesAlwaysBacked == Spec => []ReferrerFeesBacked
<1>1. IInv /\ IInv' /\ ReferrerFeesBacked /\ [Next]_vars => ReferrerFeesBacked'
  <2>1. ASSUME IInv, IInv', ReferrerFeesBacked, Next PROVE ReferrerFeesBacked'
    BY <2>1, NextLedger, LedgerFollows
  <2>2. ASSUME ReferrerFeesBacked, UNCHANGED vars PROVE ReferrerFeesBacked'
    BY <2>2 DEF vars, pool, market, ReferrerFeesBacked
  <2> QED
    BY <2>1, <2>2
<1> QED
  BY <1>1, InitLedger, Inductive, PTL DEF Spec
=============================================================================
