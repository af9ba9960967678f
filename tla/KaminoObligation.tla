-------------------------- MODULE KaminoObligation --------------------------
(***************************************************************************)
(* KaminoObligation of ts-client/src/classes/obligation.ts: what the client   *)
(* makes of an obligation it has loaded. A deposit slot holds collateral      *)
(* tokens; a borrow slot holds a decimal amount and, as "stamp", the          *)
(* cumulative rate it was last brought up to. A loaded obligation o is the     *)
(* account with its positions and stats as of the slot it was loaded at.       *)
(***************************************************************************)
EXTENDS KaminoReserve

CONSTANTS GroupLiquidationLtv,  \* group -> its liquidation threshold, in percent
          ReferralFeeBps,       \* referralFeeBps of the market
          RateLimb,             \* what a limb of a cumulative rate holds: 16
          FRACTION_ONE          \* 2^60, the scale of a fraction

Held(slots) == ToSet(Keys(slots))
SlotIndex(slots, r) == CHOOSE i \in DOMAIN slots : slots[i].reserve = r
FirstFree(slots) ==
    CHOOSE i \in DOMAIN slots : slots[i].reserve = NullKey
                                /\ \A j \in 1 .. i - 1 : slots[j].reserve # NullKey
QuotientOrZero(x, y) == IF y = Zero THEN Zero ELSE Over(x, y)
ValueOf(R, amount) == Over(Times(amount, R.price), Dec(R.factor))

-----------------------------------------------------------------------------
(* Elevation groups *)

GroupActive(r, g) == g # 0 /\ Contains(ReserveGroups[r], g)
getLtvForReserve(m, r, g) ==
    IF GroupActive(r, g)
    THEN [maxLtv |-> PctToDec(GroupLtv[g]), liquidationLtv |-> PctToDec(GroupLiquidationLtv[g])]
    ELSE [maxLtv |-> PctToDec(m[r].ltvPct), liquidationLtv |-> PctToDec(m[r].liquidationPct)]
getBorrowFactorForReserve(m, r, g) ==
    IF GroupActive(r, g) THEN One ELSE PctToDec(m[r].borrowFactorPct)

getElevationGroupsForReserves(rs) ==
    {g \in GroupIds : rs # {} /\ \A r \in rs : Contains(ReserveGroups[r], g)}
getElevationGroups(ob) == getElevationGroupsForReserves(Held(ob.deposits) \cup Held(ob.borrows))

\* debts: the empty set, or the one reserve that is borrowed
getElevationGroupsForReservesCombination(colls, debts) ==
    {g \in GroupIds : colls \subseteq CollateralsOf(g) /\ debts \subseteq {GroupDebtReserve[g]}}
getElevationGroupsForObligation(ob) ==
    IF Cardinality(Held(ob.borrows)) > 1 THEN {}
    ELSE getElevationGroupsForReservesCombination(Held(ob.deposits), Held(ob.borrows))

-----------------------------------------------------------------------------
(* Rates and positions *)

getCollateralExchangeRatesForObligation(m, ob, slot, added) ==
    [r \in Held(ob.deposits) \cup added |-> getEstimatedCollateralExchangeRate(m[r], slot, ReferralFeeBps)]
getCumulativeBorrowRatesForObligation(m, ob, slot, added) ==
    [r \in Held(ob.borrows) \cup added |-> getEstimatedCumulativeBorrowRate(m[r], slot, ReferralFeeBps)]
getRatesForObligation(m, ob, slot, added) ==
    [coll |-> getCollateralExchangeRatesForObligation(m, ob, slot, added),
     debt |-> getCumulativeBorrowRatesForObligation(m, ob, slot, added)]

\* cumulativeBorrowRates = null: the rates as of the last refresh of each reserve
LoadedBorrowRates(m) == [r \in Reserves |-> m[r].rate]

DepositStats(held, amount, value, ltv) ==
    LET Value(r) == value[r]
        Limit(r) == Times(value[r], ltv[r].maxLtv)
        LiquidationLimit(r) == Times(value[r], ltv[r].liquidationLtv)
        liquidatable == SumOf(Value, {r \in held : ltv[r].liquidationLtv # Zero})
    IN [amount |-> amount, value |-> value, userTotalDeposit |-> SumOf(Value, held),
        userTotalCollateralDeposit |-> SumOf(Value, {r \in held : ltv[r].maxLtv # Zero}),
        userTotalLiquidatableDeposit |-> liquidatable,
        borrowLimit |-> SumOf(Limit, held), borrowLiquidationLimit |-> SumOf(LiquidationLimit, held),
        liquidationLtv |-> QuotientOrZero(SumOf(LiquidationLimit, held), liquidatable)]
DepositsWorth(m, amount, g) ==
    DepositStats(DOMAIN amount, amount, [r \in DOMAIN amount |-> ValueOf(m[r], amount[r])],
                 [r \in DOMAIN amount |-> getLtvForReserve(m, r, g)])
calculateObligationDeposits(m, deposits, collRates, g) ==
    DepositsWorth(m, [r \in Held(deposits) |->
                          Over(Dec(deposits[SlotIndex(deposits, r)].amount), collRates[r])], g)

BorrowStats(m, held, amount, value, g) ==
    LET Value(r) == value[r]
        Adjusted(r) == Times(value[r], getBorrowFactorForReserve(m, r, g))
    IN [amount |-> amount, value |-> value, userTotalBorrow |-> SumOf(Value, held),
        userTotalBorrowBorrowFactorAdjusted |-> SumOf(Adjusted, held)]
\* the limbs of the rate, added without being shifted: exact below RateLimb
getCumulativeBorrowRate(stamp) ==
    LET high == Floor(stamp) \div RateLimb
    IN Plus(Minus(stamp, Dec(RateLimb * high)), Ratio(high, FRACTION_ONE))

BorrowsWorth(m, amount, g) ==
    BorrowStats(m, DOMAIN amount, amount, [r \in DOMAIN amount |-> ValueOf(m[r], amount[r])], g)
calculateObligationBorrows(m, borrows, debtRates, g) ==
    BorrowsWorth(m, [r \in Held(borrows) |->
                         LET b == borrows[SlotIndex(borrows, r)]
                         IN Over(Times(b.amount, debtRates[r]), getCumulativeBorrowRate(b.stamp))], g)

\* the ratios are those of valueOrZero: nothing here reads an infinite one
PositionsOf(d, b) ==
    LET adjusted == b.userTotalBorrowBorrowFactorAdjusted
        net == Minus(d.userTotalDeposit, b.userTotalBorrow)
    IN [deposits |-> d, borrows |-> b, borrowLimit |-> d.borrowLimit, adjustedDebt |-> adjusted,
        netAccountValue |-> net, leverage |-> QuotientOrZero(d.userTotalDeposit, net),
        borrowUtilization |-> QuotientOrZero(adjusted, d.borrowLimit),
        loanToValue |-> QuotientOrZero(adjusted, d.userTotalCollateralDeposit)]
calculatePositions(m, deposits, borrows, g, collRates, debtRates) ==
    PositionsOf(calculateObligationDeposits(m, deposits, collRates, g),
                calculateObligationBorrows(m, borrows, debtRates, g))

\* the constructor: stats as of the slot the obligation is loaded at
LoadObligation(m, ob, slot) ==
    [deposits |-> ob.deposits, borrows |-> ob.borrows, group |-> ob.group,
     pos |-> calculatePositions(m, ob.deposits, ob.borrows, ob.group,
                                getCollateralExchangeRatesForObligation(m, ob, slot, {}),
                                getCumulativeBorrowRatesForObligation(m, ob, slot, {}))]

loanToValue(o) == QuotientOrZero(o.pos.adjustedDebt, o.pos.deposits.userTotalDeposit)
getNumberOfPositions(o) == Cardinality(Held(o.deposits)) + Cardinality(Held(o.borrows))

GrowthSince(stamp, estimated) == IF LessThan(stamp, estimated) THEN Over(estimated, stamp) ELSE Zero
estimateObligationInterestRate(m, b, slot) ==
    GrowthSince(getCumulativeBorrowRate(b.stamp),
                getEstimatedCumulativeBorrowRate(m[b.reserve], slot, ReferralFeeBps))

-----------------------------------------------------------------------------
(* What an action would make of the obligation *)

\* toFixed(0): to the nearest lamport
Rounded(x) == Floor(Plus(x, Ratio(1, 2)))

NoSlot(slots, r) == r \notin Held(slots) /\ \A i \in DOMAIN slots : slots[i].reserve # NullKey

\* change is in lamports of liquidity, negative for a withdrawal
simulateDepositChange(deposits, change, r, collRates) ==
    LET i == IF r \in Held(deposits) THEN SlotIndex(deposits, r) ELSE FirstFree(deposits)
        sum == deposits[i].amount + Rounded(Times(change, collRates[r]))
    IN [deposits EXCEPT ![i] = [reserve |-> r, amount |-> IF sum > 0 THEN sum ELSE 0]]

simulateBorrowChange(borrows, change, r, rate) ==
    IF r \in Held(borrows)
    THEN [borrows EXCEPT ![SlotIndex(borrows, r)].amount = positiveOrZero(Plus(@, change))]
    ELSE [borrows EXCEPT ![FirstFree(borrows)] = [reserve |-> r, amount |-> change, stamp |-> rate]]

TouchesColl(action) == action \notin {"borrow", "repay"}
TouchesDebt(action) == action \notin {"deposit", "withdraw"}
SimulatedStats(m, o, action, coll, amountCollateral, debt, amountDebt, collRates, g) ==
    LET incoming == action \in {"deposit", "borrow", "depositAndBorrow"}
        Signed(x) == IF incoming THEN x ELSE Minus(Zero, x)
        deposits == IF TouchesColl(action)
                    THEN simulateDepositChange(o.deposits, Signed(amountCollateral), coll, collRates)
                    ELSE o.deposits
        borrows == IF TouchesDebt(action)
                   THEN simulateBorrowChange(o.borrows, Signed(amountDebt), debt, m[debt].rate)
                   ELSE o.borrows
    IN IF (TouchesColl(action) /\ NoSlot(o.deposits, coll)) \/ (TouchesDebt(action) /\ NoSlot(o.borrows, debt))
       THEN [error |-> "No available borrows to modify", pos |-> o.pos]
       ELSE [error |-> "",
             pos |-> calculatePositions(m, deposits, borrows, g, collRates, LoadedBorrowRates(m))]
getSimulatedObligationStats(m, o, action, coll, amountCollateral, debt, amountDebt, slot, g) ==
    LET added == (IF TouchesColl(action) THEN {coll} ELSE {})
                     \cup (IF TouchesDebt(action) THEN {debt} ELSE {})
    IN SimulatedStats(m, o, action, coll, amountCollateral, debt, amountDebt,
                      getCollateralExchangeRatesForObligation(m, o, slot, added), g)

PostSwapStats(m, o, source, withdrawn, target, deposited, g, rates) ==
    LET out == simulateDepositChange(o.deposits, Minus(Zero, withdrawn), source, rates)
    IN IF NoSlot(o.deposits, source) \/ NoSlot(out, target)
       THEN [error |-> "No available borrows to modify", pos |-> o.pos]
       ELSE [error |-> "",
             pos |-> calculatePositions(m, simulateDepositChange(out, deposited, target, rates),
                                        o.borrows, g, rates, LoadedBorrowRates(m))]
getPostSwapCollObligationStats(m, o, source, withdrawn, target, deposited, g, slot) ==
    PostSwapStats(m, o, source, withdrawn, target, deposited, g,
                  getCollateralExchangeRatesForObligation(m, o, slot, {source, target}))

-----------------------------------------------------------------------------
(* How much may be borrowed or withdrawn *)

MaxLtvOf(d) == QuotientOrZero(d.borrowLimit, d.userTotalCollateralDeposit)
getMaxLoanLtvGivenElevationGroup(m, o, g, slot) ==
    MaxLtvOf(calculateObligationDeposits(m, o.deposits,
                 getCollateralExchangeRatesForObligation(m, o, slot, {}), g))

\* Mutant: a debt counts for its value, whatever its borrow factor.
getBorrowPowerUnweighted(m, o, debt, slot, g) ==
    LET left == Minus(calculateObligationDeposits(m, o.deposits,
                          getCollateralExchangeRatesForObligation(m, o, slot, {}), g).borrowLimit,
                      calculateObligationBorrows(m, o.borrows,
                          getCumulativeBorrowRatesForObligation(m, o, slot, {}), g).userTotalBorrow)
    IN Highest(Zero, WithoutFee(Times(Over(left, m[debt].price), Dec(m[debt].factor)), m[debt].borrowFee))

\* disableUsageAsCollOutsideEmode of a deposit leaves no power outside the group
PowerLeft(m, o, debt, left, g) ==
    LET power == Times(Over(Over(left, getBorrowFactorForReserve(m, debt, g)), m[debt].price),
                       Dec(m[debt].factor))
    IN IF ~GroupActive(debt, g) /\ \E r \in Held(o.deposits) : m[r].disabledOutside THEN Zero
       ELSE Highest(Zero, WithoutFee(power, m[debt].borrowFee))
getBorrowPower(m, o, debt, slot, g) ==
    PowerLeft(m, o, debt,
              Minus(calculateObligationDeposits(m, o.deposits,
                        getCollateralExchangeRatesForObligation(m, o, slot, {}), g).borrowLimit,
                    calculateObligationBorrows(m, o.borrows,
                        getCumulativeBorrowRatesForObligation(m, o, slot, {}), g)
                            .userTotalBorrowBorrowFactorAdjusted), g)

getMaxBorrowAmountV2(m, o, debt, slot, g) ==
    LET available == getLiquidityAvailableForDebtReserveGivenCaps(m, debt, g, Held(o.deposits))
        own == IF debt \in Held(o.borrows) THEN o.pos.borrows.amount[debt] ELSE Zero
    IN Least2(getBorrowPower(m, o, debt, slot, g),
              IF g = o.group THEN available ELSE positiveOrZero(Minus(available, own)))

isLoanEligibleForElevationGroup(m, o, slot, g) ==
    /\ Cardinality(Held(o.borrows)) <= 1
    /\ g # 0 => Held(o.deposits) \subseteq CollateralsOf(g) /\ Held(o.borrows) \subseteq {GroupDebtReserve[g]}
    /\ Leq(o.pos.adjustedDebt,
           calculateObligationDeposits(m, o.deposits,
               getCollateralExchangeRatesForObligation(m, o, slot, {}), g).borrowLimit)

\* the group all deposits and the debt have in common with the highest loan-to-value
BestGroupFor(o, debt) ==
    LET common == SelectSeq(ReserveGroups[debt],
                      LAMBDA g : /\ g # 0 /\ GroupDebtReserve[g] = debt
                                 /\ \A r \in Held(o.deposits) : Contains(ReserveGroups[r], g))
    IN FoldLeft(LAMBDA prev, curr : IF prev # 0 /\ GroupLtv[prev] > GroupLtv[curr] THEN prev ELSE curr,
                0, common)

\* deprecated: stats as loaded, in the group it was loaded with
getMaxBorrowAmount(m, o, debt, slot, requestsGroup) ==
    LET R == m[debt]
        best == BestGroupFor(o, debt)
        g == IF best # 0 /\ requestsGroup THEN best ELSE o.group
        active == GroupActive(debt, g)
        power == Times(Over(Over(Minus(o.pos.borrowLimit, o.pos.adjustedDebt),
                                 getBorrowFactorForReserve(m, debt, g)), R.price), Dec(R.factor))
        room == IF ~active /\ \E r \in Held(o.deposits) : m[r].disabledOutside THEN Zero
                ELSE Minus(Dec(R.borrowLimit), R.borrowed)
        free == LeastOf({power, R.available, room})
        capped == IF R.debtCap.capacity > 0
                  THEN Least2(free, Dec(R.debtCap.capacity - getDebtWithdrawalCapCurrent(R, slot)))
                  ELSE free
        limit == PctToDec(R.utilizationLimitPct)
        used == calculateUtilizationRatio(R)
        byUse == IF R.utilizationLimitPct > 0 /\ LessThan(used, limit)
                 THEN Least2(WithoutFee(capped, R.borrowFee), Times(Minus(limit, used), getTotalSupply(R)))
                 ELSE WithoutFee(capped, R.borrowFee)
        byGroup == IF ~active THEN Dec(R.outsideLimit - R.outsideBorrowed)
                   ELSE LeastOf({Dec(U64_MAX)} \cup
                            {positiveOrZero(Dec(m[r].groupLimit[g] - m[r].groupBorrowed[g])) :
                                r \in Held(o.deposits)})
    IN IF R.utilizationLimitPct > 0 /\ LessThan(limit, used) THEN Zero
       ELSE positiveOrZero(Least2(byUse, byGroup))

\* Mutant: the loan-to-value of the collateral is left out of what may leave.
getMaxWithdrawAmountByValue(m, o, coll, slot) ==
    LET R == m[coll]
        whole == o.pos.deposits.amount[coll]
        value == Minus(o.pos.deposits.userTotalDeposit, o.pos.adjustedDebt)
    IN IF o.pos.adjustedDebt = Zero THEN whole
       ELSE positiveOrZero(LeastOf({whole, Times(Over(value, R.price), Dec(R.factor)), R.available}))

\* all of it without a debt; a deposit without a loan-to-value is bounded as if its
\* amount were its value
getMaxWithdrawAmount(m, o, coll, slot) ==
    LET R == m[coll]
        whole == o.pos.deposits.amount[coll]
        ltv == getLtvForReserve(m, coll, o.group).maxLtv
        value == IF ltv = Zero THEN whole
                 ELSE Times(Over(Minus(o.pos.borrowLimit, o.pos.adjustedDebt), ltv), Ratio(999, 1000))
    IN IF o.pos.adjustedDebt = Zero THEN whole
       ELSE IF Leq(o.pos.borrowLimit, o.pos.adjustedDebt) THEN Zero
       ELSE positiveOrZero(LeastOf({whole, Times(Over(value, R.price), Dec(R.factor)), R.available,
                                    Dec(R.depositCap.capacity - getDepositWithdrawalCapCurrent(R, slot))}))

=============================================================================
