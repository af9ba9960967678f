------------------------------ MODULE Leverage ------------------------------
(***************************************************************************)
(* ts-client/src/leverage/operations.ts: one transaction that flash borrows,  *)
(* changes a collateral and a debt together, swaps one token for the other     *)
(* and repays the flash loan. A builder is given the request p, the market m   *)
(* and the obligation ob as the client holds them and the chain rpc as it      *)
(* answers while building; quote is the price, debt tokens for one collateral   *)
(* token, that the exchange quotes. It first sizes the operation with its own   *)
(* price, to learn the accounts it uses, then with the quoted one. The result   *)
(* is an error or the instructions.                                            *)
(*                                                                          *)
(* The least amount a swap must give is a parameter of the exchange and left    *)
(* out: a swap gives what it gives, and the transaction fails when that does    *)
(* not pay. The collateral of a kToken is a share of a strategy that holds the  *)
(* debt token and another one; minting and burning shares is one exchange.      *)
(***************************************************************************)
EXTENDS KlendChain, KaminoObligation, LeverageCalcs

CONSTANTS Slippage,      \* slippagePct, as a fraction
          KTokens,       \* the reserves whose token is a kToken
          Strategy,      \* kToken -> its strategy's holdings and price
          BalanceToWrap  \* lamports wrapped to cover an estimate that falls short

\* debt tokens for one collateral token
PriceOf(m, coll, debt) == Over(m[coll].price, m[debt].price)

Built(error, ixs) == [error |-> error, ixs |-> IF error = "" THEN ixs ELSE <<>>]

\* the arguments every operation leaves at the same values when it builds an action:
\* no accounts, metadata, lookup table, budget or scope refresh of the action's own
PartOf(p, kind, reserve, amount) ==
    [kind |-> kind, reserve |-> reserve, outflow |-> NullKey, amount |-> amount, outAmount |-> 0,
     useV2 |-> p.useV2, requestGroup |-> FALSE, override |-> NoOverride, ata |-> FALSE,
     metadata |-> FALSE, lut |-> FALSE, budget |-> FALSE, scope |-> FALSE, viaIxs |-> TRUE,
     added |-> <<>>]
PartOfTwo(p, kind, reserve, amount, outflow, outAmount) ==
    [PartOf(p, kind, reserve, amount) EXCEPT !.outflow = outflow, !.outAmount = outAmount]

getScopeRefreshIx(p, ob, first, second) ==
    LET held == IF ob.exists THEN Keys(ob.deposits) \o Keys(ob.borrows) ELSE <<>>
        ids == SelectSeq(PublicKeySet(held \o <<first, second>>), LAMBDA r : r \in ScopeReserves)
    IN IF ids # <<>> /\ p.scope THEN <<refreshScopePrices(ids)>> ELSE <<>>

createAtasIdempotent(accounts) == [i \in DOMAIN accounts |-> createAta(accounts[i])]

\* coll, debt, the collateral token and, for a kToken, its strategy's other token
AtasOf(p) ==
    createAtasIdempotent(<<Liquidity(p.coll), Liquidity(p.debt), CToken(p.coll)>>
                         \o IF p.coll \in KTokens THEN <<Liquidity(Strategy[p.coll].other)>> ELSE <<>>)

getTransferWsolIxns(r, lamports) == <<transferLamports(Liquidity(r), lamports), syncNative(Liquidity(r))>>
FillWsol(r, lamports) == IF Native(r) THEN getTransferWsolIxns(r, lamports) ELSE <<>>
CloseWsol(rs) == IF rs \cap NativeReserves = {} THEN <<>>
                 ELSE <<closeAccount(Liquidity(CHOOSE r \in rs : Native(r)))>>

\* the amount is floored in both halves; the repayment names the borrow by its index
getFlashLoanInstructions(r, amount, index) ==
    [flashBorrowIxn |-> flashBorrowReserveLiquidity(r, Floor(amount)),
     flashRepayIxn |-> flashRepayReserveLiquidity(r, Floor(amount), index)]

\* Mutant: the index does not count the two instructions that wrap SOL.
AroundUncounted(scope, atas, fill, r, amount, inside, close) ==
    LET flash == getFlashLoanInstructions(r, amount, Len(scope) + 1 + Len(atas))
    IN scope \o <<computeBudget>> \o atas \o fill \o <<flash.flashBorrowIxn>> \o inside
       \o <<flash.flashRepayIxn>> \o close

Around(scope, atas, fill, r, amount, inside, close) ==
    LET flash == getFlashLoanInstructions(r, amount, 1 + Len(atas) + Len(fill)
                                                      + (IF scope # <<>> THEN 1 ELSE 0))
    IN scope \o <<computeBudget>> \o atas \o fill \o <<flash.flashBorrowIxn>> \o inside
       \o <<flash.flashRepayIxn>> \o close

\* a swap into or out of the collateral; a kToken's debt must be one of its two tokens
SwapError(p) ==
    IF p.coll \in KTokens /\ p.debt \notin {Strategy[p.coll].tokenA, Strategy[p.coll].tokenB}
    THEN "Deposit token is neither A nor B in the strategy" ELSE ""
depositSwapper(p, amount) == <<swap(p.debt, p.coll, amount)>>
withdrawSwapper(p, amount) == <<swap(p.coll, p.debt, amount)>>

FirstError(errors) ==
    LET some == SelectSeq(errors, LAMBDA e : e # "") IN IF some = <<>> THEN "" ELSE some[1]

\* the instructions made of some built actions, or the first error: of the arguments,
\* of building an action, of what follows
Assembled(before, acts, after, Ixs(_)) ==
    Built(FirstError(<<before>> \o [i \in DOMAIN acts |-> acts[i].error] \o <<after>>), Ixs(acts))

\* the second build, with the inputs the first one has led to
WhenSized(inputs, Build(_)) ==
    IF inputs.error # "" THEN Built(inputs.error, <<>>) ELSE Build(inputs)

-----------------------------------------------------------------------------
(* Deposit: collateral or debt tokens become a position of the target leverage *)

\* the flash loan and the debt of a kToken are rounded up to whole lamports
RoundedUp(calcs, factor) ==
    [calcs EXCEPT !.flashBorrowInDebtTokenKtokenOnly = CeilPlaces(@, factor),
                  !.debtTokenToBorrow = CeilPlaces(@, factor),
                  !.singleSidedDepositKtokenOnly = CeilPlaces(@, factor)]

getDepositWithLeverageCalcs(m, p, priceDebtToColl) ==
    LET inColl == p.selected = p.coll
        fee == m[p.coll].flashFee
    IN IF p.coll \notin KTokens
       THEN depositLeverageCalcs(p.amount, inColl, Native(p.selected), priceDebtToColl, p.leverage,
                                 Slippage, fee)
       ELSE RoundedUp(depositLeverageKtokenCalcs(Strategy[p.coll], p.amount, inColl,
                                                 Native(p.selected), priceDebtToColl, p.leverage,
                                                 Slippage, fee), m[p.debt].factor)

buildDepositWithLeverageIxns(m, p, ob, rpc, calcs) ==
    LET isK == p.coll \in KTokens
        q == [PartOfTwo(p, "depositAndBorrow", p.coll,
                        Floor(toLamports(calcs.collTokenToDeposit, m[p.coll].factor)), p.debt,
                        Ceil(toLamports(calcs.debtTokenToBorrow, m[p.debt].factor)))
                  EXCEPT !.requestGroup = p.override # 0]
        r == IF isK THEN p.debt ELSE p.coll
        borrowed == IF isK THEN calcs.flashBorrowInDebtTokenKtokenOnly ELSE calcs.flashBorrowInCollToken
        in == IF isK THEN calcs.singleSidedDepositKtokenOnly ELSE calcs.swapDebtTokenIn
        swapped == depositSwapper(p, Ceil(toLamports(in, m[p.debt].factor)))
        Inside(a) == IF isK THEN swapped \o a.setup \o actionToLendingIxs(a) \o a.cleanup
                     ELSE actionToIxs(a) \o swapped
        Ixs(acts) ==
            Around(getScopeRefreshIx(p, ob, p.coll, p.debt), AtasOf(p),
                   FillWsol(p.selected, Ceil(toLamports(calcs.initDepositInSol, m[p.selected].factor))),
                   r, toLamports(borrowed, m[r].factor), Inside(acts[1]), <<>>)
    IN Assembled("", <<buildDepositAndBorrowTxns(q, ob, rpc)>>, SwapError(p), Ixs)

\* the amounts the first, account counting build uses, and those of the quote
getDepositWithLeverageSwapInputs(m, p, ob, rpc, quote) ==
    [error |-> buildDepositWithLeverageIxns(
                   m, [p EXCEPT !.override = NoOverride], ob, rpc,
                   getDepositWithLeverageCalcs(m, p, PriceOf(m, p.debt, p.coll))).error,
     calcs |-> getDepositWithLeverageCalcs(m, p, Over(One, quote))]

getDepositWithLeverageIxns(m, p, ob, rpc, quote) ==
    WhenSized(getDepositWithLeverageSwapInputs(m, p, ob, rpc, quote),
              LAMBDA inputs : buildDepositWithLeverageIxns(m, p, ob, rpc, inputs.calcs))

-----------------------------------------------------------------------------
(* Withdraw: some or all of a position, in one of its two tokens *)

DepositedIn(m, ob, r) ==
    fromLamports(Floor(Over(Dec(AmountIn(ob.deposits, r)), getCollateralExchangeRate(m[r]))), m[r].factor)
BorrowedFrom(m, ob, r) == fromLamports(AmountIn(ob.borrows, r), m[r].factor)

WithdrawCalcs(m, p, ob, price) ==
    withdrawLeverageCalcs(DepositedIn(m, ob, p.coll), BorrowedFrom(m, ob, p.debt), price, p.amount,
                          p.selected = p.coll, p.closing, Zero, m[p.debt].factor, Slippage,
                          m[p.debt].flashFee)

buildWithdrawWithLeverageIxns(m, p, ob, rpc, calcs) ==
    LET repaid == toLamports(calcs.repayAmount, m[p.debt].factor)
        out == toLamports(calcs.depositTokenWithdrawAmount, m[p.coll].factor)
        q == PartOfTwo(p, "repayAndWithdraw", p.debt, IF p.closing THEN U64_MAX ELSE Floor(repaid),
                       p.coll, IF p.closing THEN U64_MAX ELSE Ceil(out))
        swapped == withdrawSwapper(p, Ceil(toLamports(calcs.collTokenSwapIn, m[p.coll].factor)))
        Ixs(acts) ==
            Around(getScopeRefreshIx(p, ob, p.coll, p.debt), AtasOf(p), FillWsol(p.debt, BalanceToWrap),
                   p.debt, repaid, actionToIxs(acts[1]) \o swapped, CloseWsol({p.selected, p.debt}))
    IN Assembled("", <<buildRepayAndWithdrawTxns(q, ob, rpc)>>, SwapError(p), Ixs)

getWithdrawWithLeverageSwapInputs(m, p, ob, rpc, quote) ==
    LET price == PriceOf(m, p.coll, p.debt)
        counted == buildWithdrawWithLeverageIxns(m, p, ob, rpc, WithdrawCalcs(m, p, ob, price))
    IN [error |-> counted.error,
        calcs |-> WithdrawCalcs(m, p, ob, IF p.coll \in KTokens THEN price ELSE quote)]

getWithdrawWithLeverageIxns(m, p, ob, rpc, quote) ==
    WhenSized(getWithdrawWithLeverageSwapInputs(m, p, ob, rpc, quote),
              LAMBDA inputs : buildWithdrawWithLeverageIxns(m, p, ob, rpc, inputs.calcs))

-----------------------------------------------------------------------------
(* Adjust: more or less of both, to the target leverage *)

\* both actions are built from the same obligation, before either has run
buildIncreaseLeverageIxns(m, p, ob, rpc, calcs) ==
    LET isK == p.coll \in KTokens
        d == buildDepositTxns(PartOf(p, "deposit", p.coll,
                 Floor(toLamports(calcs.adjustDepositPosition, m[p.coll].factor))), ob, rpc)
        b == buildBorrowTxns(PartOf(p, "borrow", p.debt,
                 Ceil(toLamports(calcs.borrowAmount, m[p.debt].factor))), ob, rpc)
        r == IF isK THEN p.debt ELSE p.coll
        flash == IF isK THEN calcs.amountToFlashBorrowDebt ELSE calcs.adjustDepositPosition
        in == IF isK THEN calcs.amountToFlashBorrowDebt ELSE calcs.borrowAmount
        swapped == depositSwapper(p, Ceil(toLamports(in, m[p.debt].factor)))
        Inside(ixs) == IF isK THEN swapped \o ixs ELSE ixs \o swapped
        Ixs(acts) ==
            Around(getScopeRefreshIx(p, ob, p.coll, p.debt), AtasOf(p), <<>>, r,
                   toLamports(flash, m[r].factor),
                   Inside(actionToIxs(acts[1]) \o actionToIxs(acts[2])), <<>>)
    IN Assembled("", <<d, b>>, SwapError(p), Ixs)

buildDecreaseLeverageIxns(m, p, ob, rpc, calcs) ==
    LET repaid == toLamports(calcs.adjustBorrowPosition, m[p.debt].factor)
        out == Ceil(toLamports(calcs.withdrawAmountWithSlippageAndFlashLoanFee, m[p.coll].factor))
        a == buildRepayTxns(PartOf(p, "repay", p.debt, Floor(repaid)), ob, rpc)
        w == buildWithdrawTxns(PartOf(p, "withdraw", p.coll, out), ob, rpc)
        Ixs(acts) ==
            Around(getScopeRefreshIx(p, ob, p.coll, p.debt), AtasOf(p), FillWsol(p.debt, BalanceToWrap),
                   p.debt, repaid,
                   actionToIxs(acts[1]) \o actionToIxs(acts[2]) \o withdrawSwapper(p, out),
                   CloseWsol({p.debt}))
    IN Assembled("", <<a, w>>, SwapError(p), Ixs)

buildAdjustIxns(m, p, ob, rpc, isDeposit, calcs) ==
    IF isDeposit THEN buildIncreaseLeverageIxns(m, p, ob, rpc, calcs)
    ELSE buildDecreaseLeverageIxns(m, p, ob, rpc, calcs)

AdjustAmounts(m, p, ob, price, fee) ==
    calcAdjustAmounts(DepositedIn(m, ob, p.coll), BorrowedFrom(m, ob, p.debt), p.leverage, price, fee)

\* up when the target is at least the leverage that the loaded obligation has
getAdjustLeverageSwapInputs(m, p, ob, rpc, quote, leverage) ==
    LET price == PriceOf(m, p.coll, p.debt)
        up == Leq(leverage, p.leverage)
        fee == IF up THEN m[p.coll].flashFee ELSE m[p.debt].flashFee
        adj == AdjustAmounts(m, p, ob, price, fee)
        isDeposit == Leq(Zero, adj.adjustDepositPosition) /\ Leq(Zero, adj.adjustBorrowPosition)
        Calcs(at) == IF isDeposit
                     THEN adjustDepositLeverageCalcs(AdjustAmounts(m, p, ob, at, fee), Over(One, at),
                                                     m[p.debt].factor, Slippage, fee)
                     ELSE adjustWithdrawLeverageCalcs(AdjustAmounts(m, p, ob, at, fee), Slippage, fee)
    IN IF up # isDeposit THEN [error |-> "Invalid target leverage", isDeposit |-> up, calcs |-> adj]
       ELSE [error |-> buildAdjustIxns(m, p, ob, rpc, isDeposit, Calcs(price)).error,
             isDeposit |-> isDeposit, calcs |-> Calcs(quote)]

getAdjustLeverageIxns(m, p, ob, rpc, quote, leverage) ==
    WhenSized(getAdjustLeverageSwapInputs(m, p, ob, rpc, quote, leverage),
              LAMBDA inputs : buildAdjustIxns(m, p, ob, rpc, inputs.isDeposit, inputs.calcs))

=============================================================================
