--------------------------- MODULE MCVaultClient ---------------------------
EXTENDS VaultClient

MCReserves == {"A", "B"}
MCReferrerTokenState == [r \in MCReserves |-> IF r = "A" THEN "rtsA" ELSE "rtsB"]
MCGroupDebtReserve == [g \in {1} |-> "A"]
MCGroupLtv == [g \in {1} |-> 90]
MCReserveGroups == [r \in MCReserves |-> <<0>>]
MCRate == <<1, 1>>
MCTokens == {Dec(2)}
MCShares == {Dec(1), Dec(3)}
MCAllocations == {<<"A", 0>>, <<"B", 3>>}

EmptySlot == [reserve |-> NullKey, weight |-> 0, cap |-> 0, ctokens |-> 0]
SlotFor(r, w, n) == [reserve |-> r, weight |-> w, cap |-> 0, ctokens |-> n]

MCNoVault == [admin |-> NullKey, pending |-> NullKey, available |-> 0, issued |-> 0, fees |-> Zero,
              prevAum |-> Zero, perfBps |-> 0, mgmtBps |-> 0, lastCharge |-> 0, minInvest |-> 4,
              farm |-> NullKey, lut |-> NoTable, alloc |-> <<EmptySlot, EmptySlot>>]

\* debts grow by a tenth in a slot; of the interest a part is the protocol's
Lent(available, borrowed, supply, takeRate, referral) ==
    [available |-> Dec(available), borrowed |-> Dec(borrowed), protocolFees |-> Zero, referrerFees |-> Zero,
     pendingFees |-> Zero, rate |-> One, price |-> One, hostRate |-> Zero, borrowFee |-> Zero,
     flashFee |-> Zero, mintSupply |-> supply, lastSlot |-> 1, recentSlotDurationMs |-> 450, factor |-> 10,
     curve |-> <<<<0, 10000>>, <<10000, 10000>>>>, takeRatePct |-> takeRate, liquidationPct |-> 80,
     absoluteReferralRate |-> referral, market |-> "main", status |-> "active"]

MCMarket == [r \in MCReserves |-> IF r = "A" THEN Lent(60, 40, 100, 50, <<1, 4>>) ELSE Lent(50, 50, 80, 0, Zero)]

Base == {Owner("admin"), <<"main", "market">>}
KeysOf(r) == ReserveKeys(r, {"reserve", "ctokenVault", "supplyVault", "collateralMint"})
Start(vault, tables, shares, staked) ==
    [slot |-> 1, vault |-> vault, market |-> MCMarket, tables |-> tables,
     sol |-> [o \in {"admin", "next", "user"} |-> 100], token |-> [o \in {"admin", "next", "user"} |-> 0],
     shares |-> [o \in {"admin", "next", "user"} |-> IF o = "user" THEN shares ELSE 0],
     staked |-> [o \in {"admin", "next", "user"} |-> IF o = "user" THEN staked ELSE 0],
     unstaked |-> [o \in {"admin", "next", "user"} |-> 0],
     stakers |-> IF staked > 0 THEN {"user"} ELSE {}]

TableOf(keys) == (<<"admin", 0>> :> [authority |-> "admin", keys |-> keys])
Running == [MCNoVault EXCEPT !.admin = "admin", !.lut = <<"admin", 0>>, !.lastCharge = 10]

\* none yet; one that is invested in both reserves and about to change hands; one whose
\* first slot is a hole, with a farm; and one with no lookup table
MCChains ==
    {Start(MCNoVault, [x \in {} |-> {}], 0, 0),
     Start([Running EXCEPT !.available = 10, !.issued = 50, !.prevAum = Dec(55), !.perfBps = 1000,
                           !.pending = "next",
                           !.alloc = <<SlotFor("A", 1, 25), SlotFor("B", 1, 16)>>],
           TableOf(Base \cup {Owner("next")} \cup KeysOf("A") \cup KeysOf("B")), 50, 0),
     Start([Running EXCEPT !.available = 5, !.issued = 25, !.prevAum = Dec(25), !.farm = "farm",
                           !.alloc = <<EmptySlot, SlotFor("B", 1, 16)>>],
           TableOf(Base \cup KeysOf("B")), 5, 20),
     Start([Running EXCEPT !.available = 20, !.issued = 20, !.prevAum = Dec(20), !.lut = NoTable], [x \in {} |-> {}], 20, 0)}

=============================================================================
