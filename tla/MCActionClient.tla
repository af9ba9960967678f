--------------------------- MODULE MCActionClient ---------------------------
EXTENDS ActionClient

MCReserves == {"SOL", "USDC", "JUP"}
MCReferrerTokenState ==
    [r \in MCReserves |-> CASE r = "SOL" -> "rtsSOL" [] r = "USDC" -> "rtsUSDC" [] OTHER -> "rtsJUP"]
MCGroupDebtReserve == [g \in {1} |-> "USDC"]
MCGroupLtv == [g \in {1} |-> 90]
MCReserveGroups == [r \in MCReserves |-> IF r = "JUP" THEN <<0>> ELSE <<1, 0>>]

MCFlashFee == [r \in MCReserves |-> <<0, 1>>]
MCBorrowFee == [r \in MCReserves |-> IF r = "JUP" THEN <<1, 10>> ELSE <<0, 1>>]

Holding(r, n) == [reserve |-> r, amount |-> n]
At(r) == Holding(r, 1)
Start(deposits, borrows, group, referrer) ==
    [deposits |-> deposits, borrows |-> borrows, group |-> group, referrer |-> referrer]
MCStarts ==
    {Start(<<At("SOL"), EmptySlot>>, <<EmptySlot, EmptySlot>>, 0, FALSE),
     Start(<<EmptySlot, At("JUP")>>, <<EmptySlot, At("USDC")>>, 0, FALSE),
     Start(<<At("JUP"), At("USDC")>>, <<At("SOL"), EmptySlot>>, 0, TRUE),
     Start(<<At("USDC"), At("SOL")>>, <<At("USDC"), At("SOL")>>, 0, FALSE),
     Start(<<At("SOL"), EmptySlot>>, <<Holding("USDC", 2), EmptySlot>>, 1, FALSE),
     Start(<<At("SOL"), EmptySlot>>, <<At("USDC"), EmptySlot>>, 0, FALSE),
     Start(<<At("SOL"), EmptySlot>>, <<At("USDC"), EmptySlot>>, 1, TRUE)}

Plain == [kind |-> "refreshObligation", reserve |-> "SOL", outflow |-> NullKey, amount |-> 1,
          outAmount |-> 0, useV2 |-> FALSE, requestGroup |-> FALSE, override |-> NoOverride,
          ata |-> TRUE, metadata |-> TRUE, lut |-> FALSE, budget |-> FALSE, scope |-> FALSE,
          viaIxs |-> FALSE, added |-> <<>>]

One(kinds, reserves, amounts) ==
    {[Plain EXCEPT !.kind = k, !.reserve = r, !.amount = n, !.useV2 = v,
                   !.viaIxs = v, !.budget = v] :
        k \in kinds, r \in reserves, n \in amounts, v \in BOOLEAN}

Two(kinds, pairs, amounts) ==
    {[Plain EXCEPT !.kind = k, !.reserve = p[1], !.outflow = p[2], !.amount = n,
                   !.outAmount = IF k = "depositAndBorrow" /\ p[2] = "JUP" /\ n = 1 THEN 2 ELSE n,
                   !.useV2 = v, !.viaIxs = v, !.budget = v] : k \in kinds, p \in pairs, n \in amounts, v \in BOOLEAN}

SingleRequests ==
    {Plain} \cup One({"deposit"}, MCReserves, {1}) \cup One({"borrow"}, {"SOL", "USDC"}, {1})
      \cup One({"borrow"}, {"JUP"}, {1, 2})
    \cup One({"withdraw", "repay"}, MCReserves, {1, U64_MAX})
    \cup One({"depositCollateral"}, {"JUP"}, {1})
    \cup One({"mint", "redeem", "withdrawReferrerFee"}, {"SOL"}, {1})

AllPairs == {p \in MCReserves \X MCReserves : p[1] # p[2]}
DoubleRequests ==
    Two({"depositAndBorrow", "repayAndWithdraw", "repayAndWithdrawV2", "liquidate",
         "depositAndWithdraw"}, AllPairs, {1, U64_MAX})

Grouped(rs, overrides) ==
    {[q EXCEPT !.requestGroup = TRUE, !.override = g, !.scope = q.useV2, !.lut = TRUE] :
        q \in rs, g \in overrides}
GroupRequests ==
    {Plain, [Plain EXCEPT !.kind = "withdrawReferrerFee", !.reserve = "USDC"]}
    \cup {[Plain EXCEPT !.kind = "requestElevationGroup", !.override = g] : g \in {0, 1}}
    \cup Grouped(One({"deposit"}, {"USDC"}, {1}), {NoOverride, 1})
    \cup Grouped(One({"borrow"}, {"SOL", "USDC"}, {1}), {NoOverride, 0, 1})
    \cup Grouped(One({"withdraw"}, {"SOL"}, {1, U64_MAX}), {NoOverride, 0})
    \cup Grouped(One({"repay"}, {"USDC"}, {1, U64_MAX}), {NoOverride})
    \cup Grouped(Two({"depositAndBorrow"}, {<<"SOL", "USDC">>}, {1}), {NoOverride})
    \cup Grouped(Two({"repayAndWithdrawV2"}, {<<"USDC", "SOL">>}, {1, U64_MAX}), {NoOverride})

MCRequests == SingleRequests \cup DoubleRequests \cup GroupRequests

=============================================================================
