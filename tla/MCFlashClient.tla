--------------------------- MODULE MCFlashClient ---------------------------
EXTENDS FlashClient

MCReserves == {"SOL", "USDC", "JUP", "KAB"}
MCReferrerTokenState == [r \in MCReserves |-> <<"rts", r>>]
MCGroupDebtReserve == [g \in {1, 2} |-> "USDC"]
MCGroupLtv == [g \in {1, 2} |-> 90]
MCGroupLiquidationLtv == [g \in {1, 2} |-> 95]
MCGroupMaxCollaterals == [g \in {1, 2} |-> 1]
MCReserveGroups ==
    [r \in MCReserves |-> CASE r \in {"JUP", "USDC"} -> <<1, 2>> [] r = "KAB" -> <<0>> [] OTHER -> <<1, 0>>]
MCFlashFee == [r \in MCReserves |-> <<1, 10>>]
MCBorrowFee == [r \in MCReserves |-> IF r = "USDC" THEN <<1, 50>> ELSE <<0, 1>>]
MCRate == <<2, 1>>
MCSlippage == <<1, 10>>
MCSlippages == {<<0, 1>>, <<1, 20>>}

Cap == [capacity |-> 10000, current |-> 0, interval |-> 1]
Record(factor, fee) ==
    [available |-> Dec(10000), borrowed |-> Zero, protocolFees |-> Zero, referrerFees |-> Zero,
     pendingFees |-> Zero, rate |-> One, price |-> One, hostRate |-> Zero, borrowFee |-> fee,
     flashFee |-> <<1, 10>>, mintSupply |-> 20000, lastSlot |-> 0, recentSlotDurationMs |-> 450, factor |-> factor,
     depositLimit |-> 10000, borrowLimit |-> 10000, outsideLimit |-> 10000, outsideBorrowed |-> 0,
     groupLimit |-> [g \in {1, 2} |-> 10000], groupBorrowed |-> [g \in {1, 2} |-> 0],
     depositCap |-> Cap, debtCap |-> Cap, utilizationLimitPct |-> 0,
     curve |-> <<<<0, 0>>, <<10000, 0>>>>, takeRatePct |-> 0, ltvPct |-> 80, liquidationPct |-> 90,
     borrowFactorPct |-> 100, disabledOutside |-> FALSE]
MCMarket == [r \in MCReserves |-> Record(CASE r = "USDC" -> 200 [] r = "JUP" -> 220 [] OTHER -> 100,
                                        MCBorrowFee[r])]
MCPrices == {[r \in MCReserves |-> IF r = "SOL" THEN s ELSE One] : s \in {One, Dec(2)}}

\* half of the strategy is USDC, half a token of the same price
MCStrategy == [r \in {"KAB"} |-> [a |-> 10000, b |-> 5000, shares |-> 10000, factorA |-> 200, factorB |-> 100,
                                 factorShares |-> 100, tokenA |-> "USDC", tokenB |-> "JUP", other |-> "JUP",
                                 debtIsA |-> TRUE, priceAinB |-> One]]

Wealthy(c) == [c EXCEPT !.bal = [r \in Reserves |-> IF r = "SOL" THEN 0 ELSE 440]]
Holding(r, n) == [reserve |-> r, amount |-> n]
Start(deposits, borrows, group) ==
    Wealthy(StartChain([deposits |-> deposits, borrows |-> borrows, group |-> group, referrer |-> FALSE]))
MCStartChains ==
    {Wealthy([EmptyChain(FALSE) EXCEPT !.metadata = TRUE, !.atas = {Liquidity("USDC")}]),
     Start(<<Holding("SOL", 600), EmptySlot>>, <<Holding("USDC", 300), EmptySlot>>, 1),
     Start(<<Holding("SOL", 600), Holding("JUP", 440)>>, <<Holding("USDC", 300), EmptySlot>>, 0),
     Start(<<Holding("JUP", 1760), EmptySlot>>, <<Holding("SOL", 100), EmptySlot>>, 0),
     Start(<<Holding("KAB", 600), EmptySlot>>, <<Holding("USDC", 300), EmptySlot>>, 0)}

Base == [kind |-> "deposit", coll |-> "SOL", debt |-> "USDC", target |-> "JUP", selected |-> "SOL",
         amount |-> One, leverage |-> Dec(2), closing |-> FALSE, useV2 |-> FALSE, scope |-> FALSE,
         override |-> NoOverride, group |-> 0]
Pairs2 == {<<"SOL", "USDC">>, <<"JUP", "SOL">>, <<"KAB", "USDC">>}
MCOperations ==
    {[Base EXCEPT !.coll = c[1], !.debt = c[2], !.selected = c[i], !.leverage = Dec(l), !.useV2 = v,
                  !.scope = v, !.override = 0] :
        c \in Pairs2, i \in {1, 2}, l \in {2, 3}, v \in {TRUE}}
    \cup {Base}
    \cup {[Base EXCEPT !.kind = "withdraw", !.coll = c[1], !.debt = c[2], !.selected = c[i],
                       !.closing = z, !.useV2 = v, !.scope = v] :
             c \in Pairs2, i \in {1, 2}, z \in BOOLEAN, v \in {TRUE}}
    \cup {[Base EXCEPT !.kind = "adjust", !.coll = c[1], !.debt = c[2], !.leverage = l, !.useV2 = v,
                       !.scope = v] : c \in Pairs2, l \in {Ratio(5, 4), Dec(3)}, v \in {FALSE}}
    \cup {[Base EXCEPT !.kind = "repayWithColl", !.coll = c[1], !.debt = c[2], !.closing = z,
                       !.amount = n, !.useV2 = v, !.scope = v] :
             c \in Pairs2, z \in BOOLEAN, n \in {Ratio(1, 2), Ratio(3, 2)}, v \in {FALSE}}
    \cup {[Base EXCEPT !.kind = "swapColl", !.closing = z, !.amount = n, !.useV2 = v, !.scope = v,
                       !.group = g] :
             z \in BOOLEAN, n \in {One, Dec(3)}, v \in {TRUE}, g \in {0, 1, 2}}

=============================================================================
