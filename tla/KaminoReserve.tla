--------------------------- MODULE KaminoReserve ---------------------------
(***************************************************************************)
(* KaminoReserve of ts-client/src/classes/reserve.ts: what the client works   *)
(* out of a reserve it has loaded - interest since the last refresh, rates,    *)
(* limits, fees, how much is left to borrow. A reserve R is a record of the    *)
(* account's fields and recentSlotDurationMs, the slot duration the client was *)
(* given; m is the market, a function from addresses to reserves. Amounts are  *)
(* decimals in lamports.                                                       *)
(***************************************************************************)
EXTENDS KaminoAction, Decimals

CONSTANTS SLOTS_PER_YEAR,
          SLOTS_PER_DAY,
          SLOTS_PER_SECOND,
          INITIAL_COLLATERAL_RATE    \* a decimal

PctToDec(n) == Ratio(n, 100)
BpsToDec(n) == Ratio(n, 10000)

Highest(x, y) == IF Leq(x, y) THEN y ELSE x
LessThan(x, y) == ~Leq(y, x)
positiveOrZero(x) == Highest(x, Zero)
LeastOf(xs) == CHOOSE x \in xs : \A y \in xs : Leq(x, y)
SumOf(F(_), S) == FoldSet(LAMBDA r, acc : Plus(F(r), acc), Zero, S)

-----------------------------------------------------------------------------
(* Supply, rates and interest *)

getTotalSupply(R) ==
    Minus(Minus(Minus(Plus(R.available, R.borrowed), R.protocolFees), R.referrerFees), R.pendingFees)

SlotsElapsed(R, slot) == IF slot > R.lastSlot THEN slot - R.lastSlot ELSE 0

ExchangeRate(R, supply) ==
    IF R.mintSupply = 0 \/ supply = Zero THEN INITIAL_COLLATERAL_RATE
    ELSE Over(Dec(R.mintSupply), supply)
getCollateralExchangeRate(R) == ExchangeRate(R, getTotalSupply(R))

getDepositTvl(R) == Over(Times(getTotalSupply(R), R.price), Dec(R.factor))
getBorrowTvl(R) == Over(Times(R.borrowed, R.price), Dec(R.factor))

calculateUtilizationRatio(R) ==
    IF getTotalSupply(R) = Zero THEN Zero ELSE Over(R.borrowed, getTotalSupply(R))

\* truncateBorrowCurve, getBorrowRate, interpolate: the first point at or above the
\* utilization and the one before it; a curve has at least two points
interpolate(u, x0, x1, y0, y1) ==
    IF u = x1 THEN y1 ELSE Plus(y0, Over(Times(Minus(u, x0), Minus(y1, y0)), Minus(x1, x0)))
RateBetween(u, p, q) == interpolate(u, BpsToDec(p[1]), BpsToDec(q[1]), BpsToDec(p[2]), BpsToDec(q[2]))
RateAt(u, curve) ==
    LET i == CHOOSE j \in 2 .. Len(curve) :
                 Leq(u, BpsToDec(curve[j][1])) /\ \A k \in 2 .. j - 1 : ~Leq(u, BpsToDec(curve[k][1]))
    IN RateBetween(u, curve[i - 1], curve[i])
getBorrowRate(utilization, curve) == RateAt(Least2(utilization, One), curve)

\* the curve's rate is for slots of 500 ms; the client scales it to the duration it has
slotAdjustmentFactor(R) == Ratio(1000, SLOTS_PER_SECOND * R.recentSlotDurationMs)
BorrowRateAt(R, utilization) == Times(getBorrowRate(utilization, R.curve), slotAdjustmentFactor(R))
calculateBorrowRate(R) == BorrowRateAt(R, calculateUtilizationRatio(R))

\* exact for the first few slots, three terms of the binomial series after
Compounded(base, b1, elapsed) ==
    LET b2 == Times(b1, b1)
        t2 == Times(Times(base, base), Ratio(elapsed * (elapsed - 1), 2))
        t3 == Times(Times(Times(base, base), base),
                    Ratio(elapsed * (elapsed - 1) * (elapsed - 2), 6))
    IN CASE elapsed = 0 -> One
         [] elapsed = 1 -> b1
         [] elapsed = 2 -> b2
         [] elapsed = 3 -> Times(b2, b1)
         [] elapsed = 4 -> Times(b2, b2)
         [] OTHER -> Plus(Plus(OnePlus(Times(base, Dec(elapsed))), t2), t3)
CompoundedOver(base, elapsed) == Compounded(base, OnePlus(base), elapsed)
approximateCompoundedInterest(rate, elapsed) == CompoundedOver(Over(rate, Dec(SLOTS_PER_YEAR)), elapsed)

\* Mutant: the host's fixed rate is not part of what the debt grows by.
compoundInterestNoHost(R, elapsed, referralFeeBps) ==
    LET grown == Times(R.borrowed, approximateCompoundedInterest(calculateBorrowRate(R), elapsed))
        fee == Times(Minus(grown, R.borrowed), PctToDec(R.takeRatePct))
        referral == Times(fee, BpsToDec(referralFeeBps))
    IN [newDebt |-> grown, variableProtocolFee |-> fee, fixedHostFee |-> Zero,
        newAccProtocolFees |-> Plus(Minus(fee, referral), R.protocolFees),
        pendingReferralFees |-> Plus(R.pendingFees, referral)]

\* the interest and its shares: the host's, the protocol's and the referrers'
Shared(R, newDebt, hostFee, variableFee, referral) ==
    [newDebt |-> newDebt, variableProtocolFee |-> variableFee, fixedHostFee |-> hostFee,
     newAccProtocolFees |-> Plus(Minus(Plus(variableFee, hostFee), referral), R.protocolFees),
     pendingReferralFees |-> Plus(R.pendingFees, referral)]
WithReferral(R, newDebt, hostFee, variableFee, referralFeeBps) ==
    Shared(R, newDebt, hostFee, variableFee, Times(variableFee, BpsToDec(referralFeeBps)))
WithFees(R, newDebt, hostFee, referralFeeBps) ==
    WithReferral(R, newDebt, hostFee,
                 Times(Minus(Minus(newDebt, R.borrowed), hostFee), PctToDec(R.takeRatePct)), referralFeeBps)
compoundInterest(R, elapsed, referralFeeBps) ==
    WithFees(R,
             Times(R.borrowed,
                   approximateCompoundedInterest(Plus(calculateBorrowRate(R), R.hostRate), elapsed)),
             Minus(Times(R.borrowed, approximateCompoundedInterest(R.hostRate, elapsed)), R.borrowed),
             referralFeeBps)

Estimated(R, c) ==
    [totalBorrow |-> c.newDebt,
     totalSupply |-> Minus(Minus(Minus(Plus(R.available, c.newDebt), c.newAccProtocolFees),
                                 R.referrerFees), c.pendingReferralFees)]
getEstimatedDebtAndSupply(R, slot, referralFeeBps) ==
    IF SlotsElapsed(R, slot) = 0 THEN [totalBorrow |-> R.borrowed, totalSupply |-> getTotalSupply(R)]
    ELSE Estimated(R, compoundInterest(R, SlotsElapsed(R, slot), referralFeeBps))

getEstimatedTotalSupply(R, slot, referralFeeBps) ==
    getEstimatedDebtAndSupply(R, slot, referralFeeBps).totalSupply
getEstimatedCollateralExchangeRate(R, slot, referralFeeBps) ==
    ExchangeRate(R, getEstimatedTotalSupply(R, slot, referralFeeBps))

getEstimatedAccumulatedProtocolFees(R, slot, referralFeeBps) ==
    LET n == SlotsElapsed(R, slot)
    IN IF n = 0 THEN R.protocolFees ELSE compoundInterest(R, n, referralFeeBps).newAccProtocolFees

UtilizationOf(e) == IF e.totalSupply = Zero THEN Zero ELSE Over(e.totalBorrow, e.totalSupply)
getEstimatedUtilizationRatio(R, slot, referralFeeBps) ==
    UtilizationOf(getEstimatedDebtAndSupply(R, slot, referralFeeBps))

calculateEstimatedBorrowRate(R, slot, referralFeeBps) ==
    BorrowRateAt(R, getEstimatedUtilizationRatio(R, slot, referralFeeBps))
calculateBorrowAPR(R, slot, referralFeeBps) ==
    Plus(calculateEstimatedBorrowRate(R, slot, referralFeeBps), R.hostRate)

\* the share of the interest that suppliers keep; utilization as of the last refresh
SupplyShare(R, utilization, borrowRate) ==
    Times(Times(utilization, borrowRate), Minus(One, PctToDec(R.takeRatePct)))
calculateSupplyAPR(R, slot, referralFeeBps) ==
    SupplyShare(R, calculateUtilizationRatio(R), calculateEstimatedBorrowRate(R, slot, referralFeeBps))

\* Mutant: the rate as of the last refresh, over all of the time since.
getEstimatedCumulativeBorrowRateLoaded(R, slot, referralFeeBps) ==
    Times(R.rate, approximateCompoundedInterest(Plus(calculateBorrowRate(R), R.hostRate),
                                                SlotsElapsed(R, slot)))

\* the rate of the utilization there will be, over all of the time since the refresh
getEstimatedCumulativeBorrowRate(R, slot, referralFeeBps) ==
    Times(R.rate, approximateCompoundedInterest(calculateBorrowAPR(R, slot, referralFeeBps),
                                                SlotsElapsed(R, slot)))

\* what an action would make of supply and debt; amount goes in, out comes out
Simulated(e, amount, action, out) ==
    LET supply == CASE action \in {"deposit", "mint", "depositAndBorrow"} -> Plus(e.totalSupply, amount)
                    [] action \in {"withdraw", "redeem"} -> Minus(e.totalSupply, amount)
                    [] action = "repayAndWithdraw" -> Minus(e.totalSupply, out)
                    [] OTHER -> e.totalSupply
        debt == CASE action = "borrow" -> Plus(e.totalBorrow, amount)
                  [] action = "depositAndBorrow" -> Plus(e.totalBorrow, out)
                  [] action \in {"repay", "repayAndWithdraw"} -> Minus(e.totalBorrow, amount)
                  [] OTHER -> e.totalBorrow
    IN UtilizationOf([totalBorrow |-> debt, totalSupply |-> supply])
calcSimulatedUtilizationRatio(R, amount, action, slot, referralFeeBps, out) ==
    Simulated(getEstimatedDebtAndSupply(R, slot, referralFeeBps), amount, action, out)

calcSimulatedBorrowRate(R, amount, action, slot, referralFeeBps, out) ==
    BorrowRateAt(R, calcSimulatedUtilizationRatio(R, amount, action, slot, referralFeeBps, out))
calcSimulatedBorrowAPR(R, amount, action, slot, referralFeeBps, out) ==
    Plus(calcSimulatedBorrowRate(R, amount, action, slot, referralFeeBps, out), R.hostRate)
calcSimulatedSupplyAPR(R, amount, action, slot, referralFeeBps, out) ==
    SupplyShare(R, calcSimulatedUtilizationRatio(R, amount, action, slot, referralFeeBps, out),
                calcSimulatedBorrowRate(R, amount, action, slot, referralFeeBps, out))

-----------------------------------------------------------------------------
(* Limits and caps *)

depositLimitCrossed(R) == LessThan(Dec(R.depositLimit), getTotalSupply(R))
borrowLimitCrossed(R) == LessThan(Dec(R.borrowLimit), R.borrowed)

\* the client takes a cap as reset a day after the reserve's last refresh
CapCurrent(R, cap, slot) == IF SlotsElapsed(R, slot) > SLOTS_PER_DAY THEN 0 ELSE cap.current
getDepositWithdrawalCapCurrent(R, slot) == CapCurrent(R, R.depositCap, slot)
getDebtWithdrawalCapCurrent(R, slot) == CapCurrent(R, R.debtCap, slot)

\* one lamport at least; with a referrer, a part of it rounded down
SplitFee(amount, rate, fee, referralFeeBps, hasReferrer) ==
    LET share == BpsToDec(referralFeeBps)
        referral == IF ~hasReferrer \/ share = Zero THEN Zero
                    ELSE IF share = One THEN fee ELSE Dec(Floor(Times(fee, share)))
    IN IF Leq(rate, Zero) \/ Leq(amount, Zero)
       THEN [error |-> "", protocolFees |-> Zero, referrerFees |-> Zero]
       ELSE [error |-> IF Leq(amount, fee) THEN "Borrow amount is too small" ELSE "",
             protocolFees |-> Minus(fee, referral), referrerFees |-> referral]
calculateFees(amount, rate, inclusive, referralFeeBps, hasReferrer) ==
    LET factor == IF inclusive THEN Over(rate, OnePlus(rate)) ELSE rate
    IN SplitFee(amount, rate, Highest(Times(amount, factor), One), referralFeeBps, hasReferrer)

calculateFlashLoanFees(R, amount, referralFeeBps, hasReferrer) ==
    calculateFees(amount, R.flashFee, FALSE, referralFeeBps, hasReferrer)

\* what an amount to be received leaves after an inclusive fee
WithoutFee(amount, rate) == Minus(amount, Times(amount, Over(rate, OnePlus(rate))))

\* getMarketElevationGroupDescriptions: the collateral reserves of a group
CollateralsOf(g) == {r \in Reserves : Contains(ReserveGroups[r], g) /\ r # GroupDebtReserve[g]}

\* the group two reserves have in common with the highest loan-to-value, or 0
BestCommonGroup(coll, debt) ==
    LET common == SelectSeq(ReserveGroups[coll],
                      LAMBDA g : g # 0 /\ Contains(ReserveGroups[debt], g) /\ GroupDebtReserve[g] = debt)
    IN FoldLeft(LAMBDA prev, curr : IF prev # 0 /\ GroupLtv[prev] > GroupLtv[curr] THEN prev ELSE curr,
                0, common)

getMaxBorrowAmountWithCollReserve(m, debt, coll, slot) ==
    LET R == m[debt]
        group == BestCommonGroup(coll, debt)
        free == Least2(R.available, Minus(Dec(R.borrowLimit), R.borrowed))
        capped == IF R.debtCap.capacity > 0
                  THEN Least2(free, Dec(R.debtCap.capacity - getDebtWithdrawalCapCurrent(R, slot)))
                  ELSE free
        afterFee == WithoutFee(capped, R.borrowFee)
        limit == PctToDec(R.utilizationLimitPct)
        used == calculateUtilizationRatio(R)
        byUse == IF R.utilizationLimitPct > 0 /\ LessThan(used, limit)
                 THEN Least2(afterFee, Times(Minus(limit, used), getTotalSupply(R))) ELSE afterFee
        byGroup == IF group = 0 THEN Dec(R.outsideLimit - R.outsideBorrowed)
                   ELSE positiveOrZero(Dec(m[coll].groupLimit[group] - m[coll].groupBorrowed[group]))
    IN IF R.utilizationLimitPct > 0 /\ LessThan(limit, used) THEN Zero
       ELSE positiveOrZero(Least2(byUse, byGroup))

getBorrowCapForReserve(m, debt) ==
    LET R == m[debt]
    IN [utilizationCap |-> IF R.utilizationLimitPct > 0 THEN PctToDec(R.utilizationLimitPct) ELSE One,
        netWithdrawal |-> R.debtCap,
        remainingGlobal |-> Minus(Dec(R.borrowLimit), R.borrowed),
        remainingOutside |-> Dec(R.outsideLimit - R.outsideBorrowed),
        againstCollateral |->
            {[collateral |-> c, group |-> g, left |-> Dec(m[c].groupLimit[g] - m[c].groupBorrowed[g])] :
                c \in Reserves, g \in {h \in GroupIds : GroupDebtReserve[h] = debt}}]

\* the least of everything that limits a borrow, in one elevation group (0: none)
getLiquidityAvailableForDebtReserveGivenCaps(m, debt, group, collaterals) ==
    LET R == m[debt]
        caps == getBorrowCapForReserve(m, debt)
        inGroup == {c \in caps.againstCollateral : c.group = group /\ c.collateral \in CollateralsOf(group)}
        inside == IF inGroup = {} THEN Zero
                  ELSE LeastOf({IF c.collateral \in collaterals THEN c.left ELSE Dec(U64_MAX) : c \in inGroup})
        daily == IF caps.netWithdrawal.interval = 0 THEN Dec(U64_MAX)
                 ELSE Dec(caps.netWithdrawal.capacity - caps.netWithdrawal.current)
        byUse == Times(getTotalSupply(R), Minus(caps.utilizationCap, calculateUtilizationRatio(R)))
    IN LeastOf({positiveOrZero(x) :
                   x \in {R.available, IF group = 0 THEN caps.remainingOutside ELSE inside,
                          daily, caps.remainingGlobal, byUse}})

=============================================================================
