--------------------------- MODULE LeverageCalcs ---------------------------
(***************************************************************************)
(* ts-client/src/leverage/calcs.ts and the calculations of repaying with     *)
(* collateral: from what a user has and wants to the amounts that are flash  *)
(* borrowed, deposited, borrowed, repaid, withdrawn and swapped. Amounts are *)
(* decimals in tokens; fee and slippage are fractions of one.                 *)
(***************************************************************************)
EXTENDS Decimals

\* the debt that takes a deposit to its target leverage, with the flash loan's fee
calcBorrowAmount(deposit, leverage, priceCollToDebt, fee) ==
    LET finalColl == Times(deposit, leverage)
    IN Times(Times(Minus(finalColl, deposit), priceCollToDebt), OnePlus(fee))

\* what is taken out and repaid so that the leverage stays
calcWithdrawAmounts(deposited, borrowed, priceCollToDebt, amount, inColl) ==
    LET net == Minus(deposited, Over(borrowed, priceCollToDebt))
        leverage == Over(deposited, net)
        left == Minus(net, IF inColl THEN amount ELSE Over(amount, priceCollToDebt))
    IN [adjustDepositPosition |-> Minus(deposited, Times(left, leverage)),
        adjustBorrowPosition |->
            Minus(borrowed, calcBorrowAmount(left, leverage, priceCollToDebt, Zero))]
estimateWithdrawMode(deposited, borrowed, priceCollToDebt, amount, inColl) ==
    calcWithdrawAmounts(deposited, borrowed, priceCollToDebt, amount, inColl)

calcAdjustAmounts(deposited, borrowed, leverage, priceCollToDebt, fee) ==
    LET net == Minus(deposited, Over(borrowed, priceCollToDebt))
    IN [adjustDepositPosition |-> Minus(Times(net, leverage), deposited),
        adjustBorrowPosition |->
            Minus(calcBorrowAmount(net, leverage, priceCollToDebt, fee), borrowed)]
estimateAdjustMode(deposited, borrowed, leverage, priceCollToDebt, fee) ==
    calcAdjustAmounts(deposited, borrowed, leverage, priceCollToDebt, fee)

\* slippage is 0 unless the caller gives one
estimateDepositMode(amount, leverage, priceCollToDebt, priceDebtToColl, inColl, fee, slippage) ==
    LET coll == IF inColl THEN amount ELSE Times(amount, priceDebtToColl)
    IN [adjustDepositPosition |-> Times(coll, leverage),
        adjustBorrowPosition |->
            Times(calcBorrowAmount(coll, leverage, priceCollToDebt, fee), OnePlus(slippage))]

\* fuzzyEqual(a, b, closingPositionDiffTolerance)
fuzzyEqual(x, y, tolerance) == Leq(Abs(Minus(x, y)), tolerance)

\* what the form shows of the position after the operation of its tab
calculateMultiplyEffects(tab, deposited, borrowed, amount, leverage, priceCollToDebt, inColl, fee, tolerance) ==
    LET priceDebtToColl == Over(One, priceCollToDebt)
        opened == estimateDepositMode(amount, leverage, priceCollToDebt, priceDebtToColl, inColl, fee,
                                      Zero)
        out == estimateWithdrawMode(deposited, borrowed, priceCollToDebt, amount, inColl)
        adjusted == estimateAdjustMode(deposited, borrowed, leverage, priceCollToDebt, fee)
        closing == /\ \/ Leq(deposited, out.adjustDepositPosition)
                      \/ Leq(borrowed, out.adjustBorrowPosition)
                      \/ fuzzyEqual(out.adjustDepositPosition, deposited, tolerance)
                      \/ fuzzyEqual(out.adjustBorrowPosition, borrowed, tolerance)
                   /\ ~fuzzyEqual(out.adjustDepositPosition, Zero, tolerance)
        Total(d, b) == [isClosing |-> FALSE, deposited |-> d, borrowed |-> b]
    IN CASE tab = "deposit" ->
                Total(Plus(deposited, opened.adjustDepositPosition),
                      Plus(borrowed, opened.adjustBorrowPosition))
         [] tab = "adjust" ->
                Total(Plus(deposited, adjusted.adjustDepositPosition),
                      Plus(borrowed, adjusted.adjustBorrowPosition))
         [] OTHER ->
                IF closing THEN [isClosing |-> TRUE, deposited |-> Zero, borrowed |-> Zero]
                ELSE Total(Minus(deposited, out.adjustDepositPosition),
                           Minus(borrowed, out.adjustBorrowPosition))

-----------------------------------------------------------------------------
(* The amounts of one operation *)

DepositCalcs(flashColl, sol, debt, coll, swapIn, flashDebt, single) ==
    [flashBorrowInCollToken |-> flashColl, initDepositInSol |-> sol, debtTokenToBorrow |-> debt,
     collTokenToDeposit |-> coll, swapDebtTokenIn |-> swapIn,
     flashBorrowInDebtTokenKtokenOnly |-> flashDebt, singleSidedDepositKtokenOnly |-> single]

\* Mutant: the debt is sized at the bare price, without fee and slippage.
depositLeverageCalcsBare(amount, inColl, isSol, priceDebtToColl, leverage, slippage, fee) ==
    LET x == Over(Times(OnePlus(fee), OnePlus(slippage)), priceDebtToColl)
        ratio == Over(Minus(leverage, One), Times(leverage, priceDebtToColl))
        coll == Over(IF inColl THEN Times(amount, x) ELSE amount, Minus(x, ratio))
        lent == IF inColl THEN Minus(coll, amount) ELSE coll
        debt == Over(Minus(coll, amount), priceDebtToColl)
    IN DepositCalcs(Times(lent, OnePlus(fee)), IF isSol THEN amount ELSE Zero, debt, coll,
                    IF inColl THEN debt ELSE Plus(debt, amount), Zero, Zero)

\* all of the collateral is flash borrowed, or what the user's own leaves to borrow
depositLeverageCalcs(amount, inColl, isSol, priceDebtToColl, leverage, slippage, fee) ==
    LET y == Times(leverage, priceDebtToColl)
        x == Over(Times(OnePlus(fee), OnePlus(slippage)), priceDebtToColl)
        rest == Minus(x, Over(Minus(leverage, One), y))
        sol == IF isSol THEN amount ELSE Zero
        own == Over(Times(amount, x), rest)
        bought == Over(amount, rest)
        debtForOwn == Times(Minus(own, amount), x)
        debtForBought == Over(Times(Minus(leverage, One), bought), y)
    IN IF inColl
       THEN DepositCalcs(Times(Minus(own, amount), OnePlus(fee)), sol, debtForOwn, own, debtForOwn,
                         Zero, Zero)
       ELSE DepositCalcs(Times(bought, OnePlus(fee)), sol, debtForBought, bought,
                         Plus(debtForBought, amount), Zero, Zero)

\* the tokens a number of shares takes, and the shares the program mints for them:
\* the amounts are rounded up, then cut to the strategy's own proportion. Holdings and
\* shares of a strategy are in lamports.
RequiredOf(strategy, held, factor, shares) ==
    Times(Over(fromLamports(held, factor), fromLamports(strategy.shares, strategy.factorShares)), shares)

MintedFor(strategy, actualA, actualB) ==
    LET fromA == (actualA * strategy.shares) \div strategy.a
        fromB == (actualB * strategy.shares) \div strategy.b
    IN fromLamports(IF fromA <= fromB THEN fromA ELSE fromB, strategy.factorShares)

SharesFor(strategy, uA, uB) ==
    LET depositableB == (uA * strategy.b) \div strategy.a
        fits == depositableB <= uB
        actualA == ((IF fits THEN depositableB ELSE uB) * strategy.a) \div strategy.b
    IN MintedFor(strategy, actualA, IF fits THEN uB ELSE (actualA * strategy.b) \div strategy.a)

simulateMintKToken(strategy, shares) ==
    LET a == RequiredOf(strategy, strategy.a, strategy.factorA, shares)
        b == RequiredOf(strategy, strategy.b, strategy.factorB, shares)
    IN [a |-> a, b |-> b,
        minted |-> SharesFor(strategy, Ceil(toLamports(a, strategy.factorA)),
                             Ceil(toLamports(b, strategy.factorB)))]

\* the flash loan pays for both tokens of the shares, out of the debt token alone
CalcsOfMint(strategy, mint, amount, sol, slippage, fee) ==
    LET single == IF strategy.debtIsA THEN Plus(mint.a, Over(mint.b, strategy.priceAinB))
                  ELSE Plus(mint.b, Times(mint.a, strategy.priceAinB))
        withSlippage == Over(single, Minus(One, slippage))
        flashBought == Over(Minus(withSlippage, amount), Minus(One, fee))
    IN DepositCalcs(Zero, sol, Over(flashBought, Minus(One, fee)), mint.minted, Zero,
                    flashBought, withSlippage)

\* collateral that is a share of a strategy: the flash loan is in the debt token
depositLeverageKtokenCalcs(strategy, amount, inColl, isSol, priceDebtToColl, leverage, slippage, fee) ==
    LET sol == IF isSol THEN amount ELSE Zero
        x == Over(OnePlus(slippage), priceDebtToColl)
        y == Times(OnePlus(fee), priceDebtToColl)
        z == Over(Times(leverage, y), Minus(leverage, One))
        flash == Over(amount, Minus(z, Over(One, x)))
        finalColl == Over(amount, Minus(Times(OnePlus(fee), x),
                                        Over(Minus(leverage, One), Times(leverage, priceDebtToColl))))
    IN IF inColl
       THEN DepositCalcs(Zero, sol, Times(flash, OnePlus(fee)), Plus(amount, Over(flash, x)), Zero,
                         flash, flash)
       ELSE CalcsOfMint(strategy, simulateMintKToken(strategy, finalColl), amount, sol, slippage, fee)

\* interest is the growth of the debt since it was last accrued, as a factor, or 0;
\* it is read here as basis points
WithdrawCalcsFor(adj, priceCollToDebt, inColl, closing, interest, debtFactor, slippage, fee) ==
    LET w == adj.adjustDepositPosition
        bps == Over(Plus(CeilPlaces(interest, debtFactor), Ratio(1, 10)), Dec(10000))
        repay == CeilPlaces(Times(adj.adjustBorrowPosition, OnePlus(bps)), debtFactor)
        toRepay == Over(Times(Times(repay, OnePlus(fee)), OnePlus(slippage)), priceCollToDebt)
    IN [repayAmount |-> repay,
        depositTokenWithdrawAmount |-> IF closing THEN w ELSE Times(w, OnePlus(fee)),
        collTokenSwapIn |-> IF inColl THEN toRepay ELSE w]

withdrawLeverageCalcs(deposited, borrowed, priceCollToDebt, amount, inColl, closing, interest, debtFactor, slippage, fee) ==
    WithdrawCalcsFor(IF closing
                     THEN [adjustDepositPosition |-> deposited, adjustBorrowPosition |-> borrowed]
                     ELSE calcWithdrawAmounts(deposited, borrowed, priceCollToDebt, amount, inColl),
                     priceCollToDebt, inColl, closing, interest, debtFactor, slippage, fee)

adjustDepositLeverageCalcs(adj, priceDebtToColl, debtFactor, slippage, fee) ==
    LET withSlippage == Over(Times(adj.adjustDepositPosition, OnePlus(slippage)), priceDebtToColl)
    IN [adjustDepositPosition |-> adj.adjustDepositPosition,
        amountToFlashBorrowDebt |-> CeilPlaces(withSlippage, debtFactor),
        borrowAmount |-> Times(withSlippage, OnePlus(fee))]

adjustWithdrawLeverageCalcs(adj, slippage, fee) ==
    [adjustBorrowPosition |-> Abs(adj.adjustBorrowPosition),
     withdrawAmountWithSlippageAndFlashLoanFee |->
        Times(Times(Abs(adj.adjustDepositPosition), OnePlus(fee)), OnePlus(slippage))]

=============================================================================
