--------------------------- MODULE CollateralOps ---------------------------
(***************************************************************************)
(* ts-client/src/lending_operations: a debt repaid out of the collateral, and *)
(* one collateral swapped for another, each inside a flash loan. o is the       *)
(* obligation as KaminoObligation holds it, with its statistics.                *)
(***************************************************************************)
EXTENDS Leverage

CONSTANTS GroupMaxCollaterals  \* group -> maxReservesAsCollateral

-----------------------------------------------------------------------------
(* Repay with collateral *)

calcFlashRepayAmount(R, amount, hasReferrer) ==
    LET fees == calculateFlashLoanFees(R, amount, ReferralFeeBps, hasReferrer)
    IN Plus(amount, Plus(fees.protocolFees, fees.referrerFees))

\* close to the whole debt, the interest since it was loaded is repaid too
RepaidWithGrowth(R, all, amount, growth) ==
    LET adjusted == CeilPlaces(Times(amount, Times(growth, Ratio(1001, 1000))), R.factor)
    IN toLamports(IF Leq(all, adjusted) THEN adjusted ELSE amount, R.factor)

FlashRepaid(R, repaid, hasReferrer) ==
    [repayAmountLamports |-> repaid,
     flashRepayAmountLamports |-> calcFlashRepayAmount(R, repaid, hasReferrer)]

calcRepayAmountWithSlippage(m, o, debt, amount, slot, hasReferrer) ==
    LET R == m[debt]
        b == o.borrows[SlotIndex(o.borrows, debt)]
        growth == CeilPlaces(estimateObligationInterestRate(m, b, slot), R.factor)
        all == Over(o.pos.borrows.amount[debt], Dec(R.factor))
    IN FlashRepaid(R, RepaidWithGrowth(R, all, amount, growth), hasReferrer)

getMaxWithdrawLtvCheck(o) ==
    IF Leq(o.pos.borrowLimit, o.pos.adjustedDebt) THEN "LIQUIDATION_THRESHOLD" ELSE "MAX_LTV"

\* with several debts only the ones that are not repaid here count
calcMaxWithdrawCollateral(m, o, coll, debt, repaid) ==
    LET left == Dec(Ceil(Minus(o.pos.borrows.amount[debt], repaid)))
        others == Held(o.borrows) \ {debt}
        DebtValue(r) == o.pos.borrows.value[r]
        owed == IF others = {} THEN ValueOf(m[debt], left) ELSE SumOf(DebtValue, others)
        Ltv(r) == LET ltv == getLtvForReserve(m, r, o.group)
                  IN IF getMaxWithdrawLtvCheck(o) = "MAX_LTV" THEN ltv.maxLtv ELSE ltv.liquidationLtv
        Weighted(r) == Times(o.pos.deposits.value[r], Ltv(r))
        rest == SumOf(Weighted, Held(o.deposits) \ {coll})
        most == Over(Minus(Plus(Weighted(coll), rest), owed), Times(m[coll].price, Ltv(coll)))
    IN IF Leq(owed, rest) THEN Floor(o.pos.deposits.amount[coll])
       ELSE Floor(toLamports(most, m[coll].factor))

\* what a form shows before the operation is built
estimateDebtRepaymentWithColl(m, o, debt, collAmount, priceDebtToColl, fee, slot) ==
    LET b == o.borrows[SlotIndex(o.borrows, debt)]
        growth == CeilPlaces(estimateObligationInterestRate(m, b, slot), m[debt].factor)
        repaid == Over(Over(Over(collAmount, OnePlus(Slippage)), priceDebtToColl), OnePlus(fee))
    IN CeilPlaces(Over(repaid, Times(growth, Ratio(101, 100))), m[debt].factor)
estimateCollNeededForDebtRepayment(debtAmount, priceDebtToColl, fee) ==
    Times(Times(Times(debtAmount, OnePlus(fee)), OnePlus(Slippage)), priceDebtToColl)

\* an amount with decimals cannot become a BN
NotAnInteger(amount) == IF IsInt(amount) THEN "" ELSE "Invalid character"

buildRepayWithCollateralIxs(p, ob, rpc, o, repaid, withdrawn, swapped) ==
    LET q == [PartOfTwo(p, "repayAndWithdraw", p.debt, IF p.closing THEN U64_MAX ELSE Floor(repaid),
                        p.coll, IF p.closing THEN U64_MAX ELSE withdrawn)
                  EXCEPT !.requestGroup = ~p.closing /\ ob.group # 0]
        atas == createAtasIdempotent(<<Liquidity(p.coll), Liquidity(p.debt)>>)
        Ixs(acts) == Around(getScopeRefreshIx(p, ob, p.coll, p.debt), atas, <<>>, p.debt, repaid,
                            actionToIxs(acts[1]) \o swapped, <<>>)
    IN Assembled(IF p.closing THEN "" ELSE NotAnInteger(repaid),
                 <<IF getMaxWithdrawLtvCheck(o) = "MAX_LTV" THEN buildRepayAndWithdrawTxns(q, ob, rpc)
                   ELSE buildRepayAndWithdrawV2Txns([q EXCEPT !.kind = "repayAndWithdrawV2"], ob, rpc)>>,
                 "", Ixs)

\* the swap is sized by the quote, and cut to what may be withdrawn
SizedRepay(m, p, ob, rpc, o, quote, amounts, max) ==
    LET oracle == Ceil(Times(Times(Over(amounts.repayAmountLamports, Dec(m[p.debt].factor)),
                                   PriceOf(m, p.debt, p.coll)),
                             Times(Ratio(11, 10), Dec(m[p.coll].factor))))
        counted == buildRepayWithCollateralIxs(p, ob, rpc, o, amounts.repayAmountLamports,
                                               Least(max, oracle), <<>>)
        in == Ceil(toLamports(Over(Over(amounts.flashRepayAmountLamports, Dec(m[p.debt].factor)), quote),
                              m[p.coll].factor))
    IN [error |-> counted.error, repaid |-> amounts.repayAmountLamports, swapIn |-> Least(in, max)]

SizedFor(m, p, ob, rpc, o, quote, amounts) ==
    SizedRepay(m, p, ob, rpc, o, quote, amounts,
               calcMaxWithdrawCollateral(m, o, p.coll, p.debt, amounts.repayAmountLamports))

getRepayWithCollSwapInputs(m, p, ob, rpc, o, quote) ==
    SizedFor(m, p, ob, rpc, o, quote,
             calcRepayAmountWithSlippage(m, o, p.debt, p.amount, 0, ob.referrer))

getRepayWithCollIxs(m, p, ob, rpc, o, quote) ==
    IF p.debt \notin Held(ob.borrows) \/ p.coll \notin Held(ob.deposits)
    THEN Built("Debt or collateral position not found", <<>>)
    ELSE WhenSized(getRepayWithCollSwapInputs(m, p, ob, rpc, o, quote),
                   LAMBDA inputs :
                       buildRepayWithCollateralIxs(p, ob, rpc, o, inputs.repaid, inputs.swapIn,
                                                   withdrawSwapper(p, inputs.swapIn)))

-----------------------------------------------------------------------------
(* Swap collateral: p.coll is the source, p.target the new collateral *)

\* what is flash borrowed is what the swap gives less the fee in it
calculateTargetCollFlashBorrowedAmount(m, p, out, hasReferrer) ==
    LET fees == calculateFees(toLamports(out, m[p.target].factor), m[p.target].flashFee, TRUE,
                              ReferralFeeBps, hasReferrer)
    IN Minus(out, Over(Plus(fees.protocolFees, fees.referrerFees), Dec(m[p.target].factor)))

getAtaCreationIxns(p) == createAtasIdempotent(<<Liquidity(p.coll), Liquidity(p.target)>>)
getAtaCloseIxns(p) == CloseWsol({p.coll, p.target})

mustRemoveElevationGroupBeforeDeposit(p, ob) ==
    /\ ~HasPosition(ob.deposits, p.target) /\ ob.group # 0
    /\ \/ ~Contains(ReserveGroups[p.target], ob.group)
       \/ Len(Keys(ob.deposits)) >= GroupMaxCollaterals[ob.group]

getDepositTargetCollIxns(p, ob, rpc, lamports) ==
    LET removes == mustRemoveElevationGroupBeforeDeposit(p, ob)
        a == buildDepositTxns([PartOf(p, "deposit", p.target, Floor(lamports))
                                  EXCEPT !.requestGroup = removes,
                                         !.override = IF removes THEN 0 ELSE NoOverride], ob, rpc)
    IN Assembled(NotAnInteger(lamports), <<a>>, "", LAMBDA acts : actionToIxs(acts[1]))

\* Mutant: a group that the deposit had to leave is not asked for again.
elevationGroupIdToRequestAfterWithdrawIfOther(p, ob, removed) ==
    IF p.group = ob.group THEN NoOverride
    ELSE IF p.group = 0 /\ removed THEN NoOverride ELSE p.group

\* NoOverride: nothing is requested
elevationGroupIdToRequestAfterWithdraw(p, ob, removed) ==
    IF p.group = 0
    THEN IF ob.group = 0 \/ removed THEN NoOverride ELSE 0
    ELSE IF ~removed /\ ob.group = p.group THEN NoOverride ELSE p.group

getWithdrawSourceCollIxns(m, p, ob, rpc) ==
    LET lamports == toLamports(p.amount, m[p.coll].factor)
        group == elevationGroupIdToRequestAfterWithdraw(p, ob,
                                                        mustRemoveElevationGroupBeforeDeposit(p, ob))
        q == [PartOf(p, "withdraw", p.coll, IF p.closing THEN U64_MAX ELSE Floor(lamports))
                 EXCEPT !.requestGroup = group # NoOverride, !.override = group,
                        !.added = IF HasPosition(ob.deposits, p.target) THEN <<>> ELSE <<p.target>>]
        a == buildWithdrawTxns(q, ob, rpc)
    IN Assembled(IF p.closing THEN "" ELSE NotAnInteger(lamports), <<a>>, "",
                 LAMBDA acts : actionToIxs(acts[1]))

getExternalSwapIxns(m, p, quote) ==
    [swapOutAmount |-> Times(quote, p.amount),
     ixns |-> <<swap(p.coll, p.target, Floor(toLamports(p.amount, m[p.coll].factor)))>>]

\* getKlendIxns and listIxns: the instructions around and inside the flash loan
AroundFlash(p, ob, borrowed, swapped, parts) ==
    Assembled("", parts, "",
              LAMBDA ps : Around(getScopeRefreshIx(p, ob, p.coll, p.target), getAtaCreationIxns(p),
                                 <<>>, p.target, borrowed, ps[1].ixs \o ps[2].ixs \o swapped,
                                 getAtaCloseIxns(p)))

KlendIxnsFor(m, p, ob, rpc, borrowed, swapped) ==
    AroundFlash(p, ob, borrowed, swapped,
                <<getDepositTargetCollIxns(p, ob, rpc, borrowed),
                  getWithdrawSourceCollIxns(m, p, ob, rpc)>>)

getKlendIxns(m, p, ob, rpc, out, swapped) ==
    KlendIxnsFor(m, p, ob, rpc, toLamports(calculateTargetCollFlashBorrowedAmount(m, p, out, ob.referrer),
                                           m[p.target].factor), swapped)

\* the group that is asked for must take the resulting collateral and the debt, and the
\* resulting loan to value must be within the limit
ExceedsMaxLtv(after) ==
    LET maxLtv == QuotientOrZero(after.pos.borrowLimit, after.pos.deposits.userTotalCollateralDeposit)
    IN IF after.error # "" THEN after.error
       ELSE IF LessThan(maxLtv, after.pos.loanToValue) THEN "exceeding its max LTV" ELSE ""

checkResultingObligationValid(m, p, ob, o, out) ==
    LET colls == (Held(ob.deposits) \cup {p.target}) \ (IF p.closing THEN {p.coll} ELSE {})
        withdrawn == IF p.closing THEN o.pos.deposits.amount[p.coll]
                     ELSE toLamports(p.amount, m[p.coll].factor)
    IN IF p.group # 0 /\ Held(ob.borrows) \notin {{}, {GroupDebtReserve[p.group]}} THEN
                "The obligation with debt reserves cannot request elevation group"
       ELSE IF p.group # 0 /\ (\/ Cardinality(colls) > GroupMaxCollaterals[p.group]
                               \/ ~(colls \subseteq CollateralsOf(p.group))) THEN
                "The obligation with collateral reserves cannot request elevation group"
       ELSE ExceedsMaxLtv(getPostSwapCollObligationStats(
                    m, o, p.coll, withdrawn, p.target, toLamports(out, m[p.target].factor), p.group, 0))

\* once the accounts are counted, with a swap that gives one token
SwapCollIxns(m, p, ob, rpc, o, external) ==
    WhenSized([error |-> checkResultingObligationValid(m, p, ob, o, external.swapOutAmount)],
              LAMBDA valid : getKlendIxns(m, p, ob, rpc, external.swapOutAmount, external.ixns))

getSwapCollIxns(m, p, ob, rpc, o, quote) ==
    IF p.coll = p.target THEN Built("Cannot swap from/to the same collateral", <<>>)
    ELSE IF Leq(p.amount, Zero) THEN Built("Cannot swap a negative amount", <<>>)
    ELSE WhenSized(getKlendIxns(m, p, ob, rpc, One, <<>>),
                   LAMBDA fake : SwapCollIxns(m, p, ob, rpc, o, getExternalSwapIxns(m, p, quote)))

=============================================================================
