---------------------------- MODULE MCEstimates ----------------------------
EXTENDS Estimates

MCReserves == {"SOL", "USDC"}
MCReferrerTokenState == [r \in MCReserves |-> IF r = "SOL" THEN "rtsSOL" ELSE "rtsUSDC"]
MCGroupDebtReserve == [g \in {1} |-> "USDC"]
MCGroupLtv == [g \in {1} |-> 90]
MCGroupLiquidationLtv == [g \in {1} |-> 95]
MCReserveGroups == [r \in MCReserves |-> <<1, 0>>]
MCRate == <<1, 1>>

\* the rate doubles when more than three fifths are borrowed
Curve == <<<<0, 10000>>, <<6000, 10000>>, <<6001, 20000>>, <<10000, 20000>>>>
Cap(capacity) == [capacity |-> capacity, current |-> 0, interval |-> 1]

SOL == [available |-> Dec(150), borrowed |-> Dec(50), protocolFees |-> Zero, referrerFees |-> Zero,
        pendingFees |-> Zero, rate |-> One, price |-> Dec(2), hostRate |-> Zero, borrowFee |-> Zero,
        flashFee |-> Zero, mintSupply |-> 400, lastSlot |-> 0, recentSlotDurationMs |-> 500, factor |-> 10,
        depositLimit |-> 1000, borrowLimit |-> 1000, outsideLimit |-> 1000, outsideBorrowed |-> 100,
        groupLimit |-> [g \in {1} |-> 60], groupBorrowed |-> [g \in {1} |-> 0], depositCap |-> Cap(1000),
        debtCap |-> Cap(1000), utilizationLimitPct |-> 0, curve |-> <<<<0, 10000>>, <<10000, 10000>>>>,
        takeRatePct |-> 0, ltvPct |-> 50, liquidationPct |-> 80, borrowFactorPct |-> 100,
        disabledOutside |-> FALSE]
\* host: the host's fixed rate; use: utilizationLimitBlockBorrowingAbovePct
USDC(available, borrowed, host, use, fee, cap) ==
    [SOL EXCEPT !.available = Dec(available), !.borrowed = Dec(borrowed), !.price = One, !.hostRate = Dec(host),
                !.borrowFee = fee, !.mintSupply = available + borrowed, !.curve = Curve, !.takeRatePct = 50,
                !.utilizationLimitPct = use, !.borrowFactorPct = 200, !.outsideBorrowed = 0,
                !.debtCap = Cap(cap)]

Deposit(n) == <<[reserve |-> "SOL", amount |-> n], [reserve |-> NullKey, amount |-> 0]>>
NoDebt == [reserve |-> NullKey, amount |-> Zero, stamp |-> One]
Debt(x) == <<[reserve |-> "USDC", amount |-> x, stamp |-> One], NoDebt>>
Owing(deposit, borrows, groups) == {[deposits |-> deposit, borrows |-> borrows, group |-> g] : g \in groups}
\* next to the small debt a slot's interest is less than a thousandth of the headroom
MCObligations == Owing(Deposit(100), <<NoDebt, NoDebt>>, {0, 1}) \cup Owing(Deposit(100), Debt(Dec(10)), {0, 1})
                     \cup Owing(Deposit(300), Debt(Ratio(1, 4)), {0})

\* a little and a lot of liquidity; at three fifths the first interest changes the rate
Plenty == USDC(400, 200, 0, 0, <<1, 10>>, 1000)
Little == USDC(40, 60, 1, 0, Zero, 1000)
Capped == USDC(40, 60, 1, 80, <<1, 10>>, 20)
MarketsWith(usdc, durations) ==
    {[r \in MCReserves |-> [(IF r = "SOL" THEN SOL ELSE u) EXCEPT !.recentSlotDurationMs = d]] :
        u \in usdc, d \in durations}
\* slots as long as those the rates are for, shorter ones and longer ones
MCMarkets == MarketsWith({Plenty, Little, Capped}, {500}) \cup MarketsWith({Plenty}, {400, 1000})
                 \cup MarketsWith({Capped}, {1000})

=============================================================================
