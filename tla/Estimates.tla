----------------------------- MODULE Estimates -----------------------------
(***************************************************************************)
(* The client's estimates against the program. A client loads the market and   *)
(* an obligation and works out, for the slot it is then, what is owed and how   *)
(* much may be borrowed or withdrawn; meanwhile slots pass, anybody refreshes   *)
(* reserves, others borrow and supply. The program's side is in the same exact  *)
(* decimals: accrue_interest and the checks of a borrow and of a withdrawal,    *)
(* each on reserves refreshed in the slot.                                       *)
(***************************************************************************)
EXTENDS KaminoObligation

CONSTANTS Markets,       \* markets to start from: reserve -> its account
          Obligations,   \* obligations to start from
          DebtReserve,   \* what the user borrows
          CollReserve,   \* and what secures it
          OtherAmounts,  \* what others borrow or supply at a time
          MaxSlot,       \* bound on the time; below 5, where the program's interest is exact
          MaxSteps       \* bound on the operations

VARIABLES res,    \* the reserves on chain
          ob,     \* the obligation on chain
          slot,
          view,   \* what the client has loaded: [m, ob, slot]
          steps

vars == <<res, ob, slot, view, steps>>

-----------------------------------------------------------------------------
(* The program *)

\* the segment of the curve is looked up in whole basis points
SegmentRate(curve, u, bps) ==
    LET i == CHOOSE j \in 1 .. Len(curve) - 1 : bps >= curve[j][1] /\ bps <= curve[j + 1][1]
                  /\ \A k \in 1 .. j - 1 : bps > curve[k + 1][1]
        slope == Ratio(curve[i + 1][2] - curve[i][2], curve[i + 1][1] - curve[i][1])
    IN IF bps = curve[i][1] THEN BpsToDec(curve[i][2])
       ELSE IF bps = curve[i + 1][1] THEN BpsToDec(curve[i + 1][2])
       ELSE Plus(Times(Minus(u, BpsToDec(curve[i][1])), slope), BpsToDec(curve[i][2]))
Nearest(x) == Floor(Plus(x, Ratio(1, 2)))
\* rounded to the nearest; the whole percents apart, so that the products stay small
InBps(pct) == 100 * Floor(pct) + Nearest(Times(Minus(pct, Dec(Floor(pct))), Dec(100)))
CappedRate(curve, u) == SegmentRate(curve, u, InBps(Times(u, Dec(100))))
get_borrow_rate(curve, utilization) == CappedRate(curve, Least2(utilization, One))

\* a power of 1 + rate / SLOTS_PER_YEAR, up to the four slots for which it is exact
approximate_compounded_interest(rate, n) ==
    LET b == OnePlus(Over(rate, Dec(SLOTS_PER_YEAR)))
    IN FoldLeft(LAMBDA acc, i : Times(acc, b), One, [i \in 1 .. n |-> i])

Accrued(R, growth, hostFee, variable) ==
    LET take == PctToDec(R.takeRatePct)
        referrers == Times(variable, Times(take, BpsToDec(ReferralFeeBps)))
    IN [R EXCEPT !.rate = Times(@, growth), !.borrowed = Times(@, growth),
                 !.pendingFees = Plus(@, referrers),
                 !.protocolFees = Minus(Plus(Plus(@, hostFee), Times(variable, take)), referrers)]
Grown(R, growth, hostFee) ==
    Accrued(R, growth, hostFee, Minus(Times(R.borrowed, Minus(growth, One)), hostFee))
compound_interest(R, rate, n) ==
    Grown(R, approximate_compounded_interest(Plus(rate, R.hostRate), n),
          Times(R.borrowed, Minus(approximate_compounded_interest(R.hostRate, n), One)))

total_supply(R) ==
    Minus(Plus(R.available, R.borrowed), Plus(Plus(R.protocolFees, R.referrerFees), R.pendingFees))
utilization_rate(R) == IF total_supply(R) = Zero THEN Zero ELSE Over(R.borrowed, total_supply(R))

\* accrue_interest and the new last_update
refresh_reserve(R) ==
    [IF slot > R.lastSlot
     THEN compound_interest(R, get_borrow_rate(R.curve, utilization_rate(R)), slot - R.lastSlot)
     ELSE R EXCEPT !.lastSlot = slot]
Refreshed == [r \in Reserves |-> refresh_reserve(res[r])]

ToCollateral(R) == IF R.mintSupply = 0 THEN INITIAL_COLLATERAL_RATE
                   ELSE Over(Dec(R.mintSupply), total_supply(R))
MarketValue(R, amount) == Over(Times(amount, R.price), Dec(R.factor))

\* refresh_obligation: the debts at the reserves' rates, and the values
Owed(m, b) == Over(Times(b.amount, m[b.reserve].rate), b.stamp)
ValuesOf(m, deposit, debt) ==
    LET LtvPct(r) == IF ob.group = 0 THEN m[r].ltvPct ELSE GroupLtv[ob.group]
        Deposit(r) == deposit[r]
        Allowed(r) == Times(deposit[r], PctToDec(LtvPct(r)))
        Debt(r) == debt[r]
        Weighted(r) == Times(debt[r], PctToDec(IF ob.group = 0 THEN m[r].borrowFactorPct ELSE 100))
    IN [deposit |-> deposit, ltvPct |-> [r \in Reserves |-> LtvPct(r)],
        deposited |-> SumOf(Deposit, DOMAIN deposit), allowed |-> SumOf(Allowed, DOMAIN deposit),
        borrowed |-> SumOf(Debt, DOMAIN debt), weighted |-> SumOf(Weighted, DOMAIN debt)]
ObligationValues(m) ==
    ValuesOf(m, [r \in Held(ob.deposits) |->
                     MarketValue(m[r], Over(Dec(ob.deposits[SlotIndex(ob.deposits, r)].amount),
                                            ToCollateral(m[r])))],
             [r \in Held(ob.borrows) |->
                     MarketValue(m[r], Owed(m, ob.borrows[SlotIndex(ob.borrows, r)]))])

\* a fee of at least a lamport, rounded to the nearest one
BorrowFee(R, amount) ==
    IF R.borrowFee = Zero THEN 0 ELSE Rounded(Highest(Times(Dec(amount), R.borrowFee), One))

\* borrow_obligation_liquidity of an exact amount: its error, or ""
BorrowCheck(m, R, v, amount, fee) ==
    LET left == Minus(v.allowed, v.weighted)
        total == amount + fee
        after == [R EXCEPT !.available = Minus(@, Dec(total)), !.borrowed = Plus(@, Dec(total))]
        weight == IF ob.group = 0 THEN PctToDec(R.borrowFactorPct) ELSE One
        value == Times(MarketValue(R, Dec(total)), weight)
    IN IF amount <= 0 THEN "InvalidAmount"
       ELSE IF LessThan(Dec(R.borrowLimit), Plus(Dec(amount), R.borrowed)) THEN "BorrowLimitExceeded"
       ELSE IF Leq(left, Zero) THEN "BorrowTooLarge"
       ELSE IF fee >= amount THEN "BorrowTooSmall"
       ELSE IF LessThan(left, value) THEN "BorrowTooLarge"
       ELSE IF R.debtCap.interval # 0 /\ R.debtCap.current + total > R.debtCap.capacity THEN "WithdrawalCapReached"
       ELSE IF LessThan(R.available, Dec(total)) THEN "InsufficientLiquidity"
       ELSE IF R.utilizationLimitPct # 0 /\ Leq(PctToDec(R.utilizationLimitPct), utilization_rate(after)) THEN
                "BorrowingAboveUtilizationRateDisabled"
       ELSE IF ob.group = 0 /\ R.outsideBorrowed + total > R.outsideLimit THEN "BorrowLimitExceeded"
       ELSE IF ob.group # 0 /\ \E c \in Held(ob.deposits) :
                               m[c].groupBorrowed[ob.group] + total > m[c].groupLimit[ob.group] THEN
                "ElevationGroupBorrowLimitExceeded"
       ELSE IF Leq(v.deposited, Plus(v.borrowed, MarketValue(R, Dec(total)))) THEN "LiabilitiesBiggerThanAssets"
       ELSE ""
BorrowError(m, r, amount) == BorrowCheck(m, m[r], ObligationValues(m), amount, BorrowFee(m[r], amount))

Borrowed(m, r, amount) ==
    LET total == amount + BorrowFee(m[r], amount)
    IN [c \in Reserves |->
           [(IF c = r THEN [m[c] EXCEPT !.available = Minus(@, Dec(total)),
                                        !.borrowed = Plus(@, Dec(total)),
                                        !.debtCap.current = @ + total]
             ELSE m[c]) EXCEPT !.outsideBorrowed = IF ob.group = 0 /\ c = r THEN @ + total ELSE @,
                               !.groupBorrowed = [g \in GroupIds |->
                                    @[g] + IF g = ob.group /\ c \in Held(ob.deposits) THEN total ELSE 0]]]

OwingMore(m, r, amount) ==
    LET i == IF r \in Held(ob.borrows) THEN SlotIndex(ob.borrows, r) ELSE FirstFree(ob.borrows)
        total == Dec(amount + BorrowFee(m[r], amount))
        old == IF r \in Held(ob.borrows) THEN Owed(m, ob.borrows[i]) ELSE Zero
    IN [ob EXCEPT !.borrows[i] = [reserve |-> r, amount |-> Plus(old, total), stamp |-> m[r].rate]]

\* withdraw_obligation_collateral of an exact amount of collateral, in MaxLtv mode
WithdrawCheck(r, collateral, v) ==
    LET held == ob.deposits[SlotIndex(ob.deposits, r)].amount
        most == IF Leq(v.allowed, v.weighted) THEN Zero
                ELSE IF v.ltvPct[r] = 0 THEN v.deposit[r]
                ELSE Over(Minus(v.allowed, v.weighted), PctToDec(v.ltvPct[r]))
    IN IF collateral <= 0 THEN "InvalidAmount"
       ELSE IF Held(ob.borrows) = {} THEN ""
       ELSE IF most = Zero THEN "MaximumWithdrawValueZero"
       ELSE IF LessThan(most, Times(v.deposit[r], Ratio(IF collateral <= held THEN collateral ELSE held, held)))
            THEN "WithdrawTooLarge"
       ELSE ""
WithdrawError(m, r, collateral) == WithdrawCheck(r, collateral, ObligationValues(m))

-----------------------------------------------------------------------------
(* The client and the others *)

Loaded == LoadObligation(view.m, view.ob, view.slot)

\* what the client tells its user there is to borrow, and to withdraw
MaxBorrow == Floor(getMaxBorrowAmountV2(view.m, Loaded, DebtReserve, slot, view.ob.group))
PowerToBorrow == Floor(getBorrowPower(view.m, Loaded, DebtReserve, slot, view.ob.group))
MaxWithdraw == Floor(getMaxWithdrawAmount(view.m, Loaded, CollReserve, view.slot))
WithdrawnCollateral ==
    Floor(Times(Dec(MaxWithdraw),
                getEstimatedCollateralExchangeRate(view.m[CollReserve], view.slot, ReferralFeeBps)))

Init ==
    /\ res \in Markets
    /\ ob \in Obligations
    /\ slot = 0
    /\ view = [m |-> res, ob |-> ob, slot |-> slot]
    /\ steps = 0

Tick == slot < MaxSlot /\ slot' = slot + 1 /\ UNCHANGED <<res, ob, view, steps>>

Load == /\ view' = [m |-> res, ob |-> ob, slot |-> slot]
        /\ UNCHANGED <<res, ob, slot, steps>>

Step == steps < MaxSteps /\ steps' = steps + 1 /\ UNCHANGED <<slot, view>>

Refresh == \E r \in Reserves :
    /\ res[r].lastSlot < slot
    /\ Step /\ res' = [res EXCEPT ![r] = refresh_reserve(@)] /\ UNCHANGED ob

OthersBorrow == \E n \in OtherAmounts, R \in {refresh_reserve(res[DebtReserve])} :
    /\ Leq(Dec(n), R.available)
    /\ Step /\ UNCHANGED ob
    /\ res' = [res EXCEPT ![DebtReserve] = [R EXCEPT !.available = Minus(@, Dec(n)),
                                                     !.borrowed = Plus(@, Dec(n)),
                                                     !.outsideBorrowed = @ + n,
                                                     !.debtCap.current = @ + n]]

\* the user borrows a lamport less than the most there is, to pay the fee's rounding
BorrowMax == \E n \in {MaxBorrow - 1}, m \in {Refreshed} :
    /\ Step
    /\ BorrowError(m, DebtReserve, n) = ""
    /\ res' = Borrowed(m, DebtReserve, n)
    /\ ob' = OwingMore(m, DebtReserve, n)

Next == Tick \/ Load \/ Refresh \/ OthersBorrow \/ BorrowMax

Spec == Init /\ [][Next]_vars

-----------------------------------------------------------------------------
(* Properties *)

ViewIsCurrent == view.m = res /\ view.ob = ob

\* The client compounds at the curve's rate times slotAdjustmentFactor, the program at
\* the curve's rate: what the client makes of a reserve loaded at its last refresh is
\* exact; otherwise it falls short with slots of more than 500 ms and exceeds with less.
Exact(m, r, at) == m[r].lastSlot = at \/ slotAdjustmentFactor(m[r]) = One
NoShortfall(m, r, at) == Exact(m, r, at) \/ Leq(One, slotAdjustmentFactor(m[r]))
NoExcess(m, r, at) == Exact(m, r, at) \/ Leq(slotAdjustmentFactor(m[r]), One)

\* getEstimatedCumulativeBorrowRate never understates, for slots of up to 500 ms: however
\* often the reserve has been refreshed since it was loaded, with nobody borrowing or
\* supplying in between, a debt is not more on chain than the client's positions say it is.
DebtNeverUnderstated ==
    (view.m[DebtReserve].outsideBorrowed = res[DebtReserve].outsideBorrowed /\ view.ob = ob
        /\ NoShortfall(view.m, DebtReserve, slot)) =>
        \A r \in Held(ob.borrows), m \in {Refreshed},
           debts \in {calculateObligationBorrows(view.m, view.ob.borrows,
                          getRatesForObligation(view.m, view.ob, slot, {}).debt, ob.group)} :
               Leq(Owed(m, ob.borrows[SlotIndex(ob.borrows, r)]), debts.amount[r])

\* getEstimatedDebtAndSupply is what a refresh in that slot makes of the reserve, with
\* slots of 500 ms; both are at least that with shorter slots, at most that with longer.
EstimateIsTheRefresh ==
    \A r \in Reserves :
        view.m[r] = res[r] =>
            \A e \in {getEstimatedDebtAndSupply(view.m[r], slot, ReferralFeeBps)},
               R \in {refresh_reserve(res[r])} :
                /\ NoShortfall(res, r, slot) => Leq(R.borrowed, e.totalBorrow) /\ Leq(total_supply(R), e.totalSupply)
                /\ NoExcess(res, r, slot) => Leq(e.totalBorrow, R.borrowed) /\ Leq(e.totalSupply, total_supply(R))

\* no figure the client has for slot at overstates the collateral or understates the debt
ErrsOnTheSafeSide(m, at) ==
    /\ \A r \in Held(ob.deposits) : NoExcess(m, r, at)
    /\ \A r \in Held(ob.borrows) : NoShortfall(m, r, at)

\* getMaxBorrowAmountV2: one lamport less than the most is never too large for the
\* obligation, at whatever slot it is sent, when the slot durations make the client err on
\* the safe side only; and with the interest up to date and the obligation's power the
\* limit, three lamports more are always refused.
MaxBorrowIsTheMost ==
    ViewIsCurrent => \A most \in {MaxBorrow}, m \in {Refreshed} :
        /\ ErrsOnTheSafeSide(view.m, slot) /\ most > 2 =>
               BorrowError(m, DebtReserve, most - 1) # "BorrowTooLarge"
        /\ res = m /\ most = PowerToBorrow => BorrowError(res, DebtReserve, most + 3) # ""

\* getMaxWithdrawAmount: its collateral, worked out in the slot the obligation was loaded
\* in, may leave then and in every later slot in which the debt, with its interest and its
\* borrow factor, has not outgrown what the client knew by a thousandth of the headroom.
MaxWithdrawFits ==
    view.ob = ob /\ ErrsOnTheSafeSide(view.m, view.slot) =>
        \A m \in {Refreshed}, pos \in {Loaded.pos} :
            Leq(Times(Dec(1000), Minus(ObligationValues(m).weighted, pos.adjustedDebt)),
                Minus(pos.borrowLimit, pos.adjustedDebt)) =>
                \A c \in {WithdrawnCollateral} : c > 0 => WithdrawError(m, CollReserve, c) = ""

=============================================================================
