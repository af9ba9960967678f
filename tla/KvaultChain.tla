---------------------------- MODULE KvaultChain ----------------------------
(***************************************************************************)
(* What the transactions of KaminoVault do on chain: the vault program, the   *)
(* farms program and the lookup tables, none of which is in the repository.    *)
(* They are modelled from how the client uses them and reads their accounts.    *)
(* A chain c holds the slot, the vault, the reserves, the lookup tables and       *)
(* what every owner has of SOL, tokens, shares and stakes. An instruction is       *)
(* refused (Allowed) or changes the chain (Apply).                                  *)
(***************************************************************************)
EXTENDS KaminoVault

CONSTANTS Farms,         \* the farms that exist
          SlotSeconds,   \* of the clock, for a slot
          NoVault        \* the vault account before it is created

Seconds(c) == c.slot * SlotSeconds

\* a refresh of a reserve: the client's estimate for slots of 500 ms, which Estimates
\* shows equal to the program's
RefreshReserve(R, slot) ==
    LET With(i) == [R EXCEPT !.borrowed = i.newDebt, !.protocolFees = i.newAccProtocolFees,
                             !.pendingFees = i.pendingReferralFees, !.lastSlot = slot]
        unscaled == [R EXCEPT !.recentSlotDurationMs = 1000 \div SLOTS_PER_SECOND]
    IN IF SlotsElapsed(R, slot) = 0 THEN R ELSE With(compoundInterest(unscaled, SlotsElapsed(R, slot), 0))

Gross(V, m) == Plus(Dec(V.available),
                    SumOf(LAMBDA r : Over(CTokensIn(V, r), getCollateralExchangeRate(m[r])), ReserveSet(V)))
Net(V, m) == Minus(Gross(V, m), V.fees)

\* every instruction refreshes the reserves and charges the fees since the last one
ChargedOn(c, m) ==
    LET mgmt == Times(c.vault.prevAum, Ratio((Seconds(c) - c.vault.lastCharge) * c.vault.mgmtBps,
                                             SECONDS_PER_YEAR * 10000))
        earned == positiveOrZero(Minus(Minus(Net(c.vault, m), c.vault.prevAum), mgmt))
        fee == Plus(mgmt, Times(earned, BpsToDec(c.vault.perfBps)))
    IN [c EXCEPT !.market = m, !.vault.fees = Plus(@, fee), !.vault.lastCharge = Seconds(c)]
Charged(c) ==
    ChargedOn(c, [r \in Reserves |-> IF r \in ReserveSet(c.vault) THEN RefreshReserve(c.market[r], c.slot)
                                     ELSE c.market[r]])

\* what the next charge is worked out from
Settled(c) == [c EXCEPT !.vault.prevAum = Net(c.vault, c.market)]

Worth(c, shares) == IF c.vault.issued = 0 THEN Zero
                    ELSE Over(Times(Dec(shares), Net(c.vault, c.market)), Dec(c.vault.issued))

\* the slot of a reserve, and the first one that is free
SlotOf(V, r) == CHOOSE i \in DOMAIN V.alloc : V.alloc[i].reserve = r
FreeSlot(V) == CHOOSE i \in DOMAIN V.alloc :
                   V.alloc[i].reserve = NullKey /\ \A j \in 1 .. i - 1 : V.alloc[j].reserve # NullKey

\* liquidity moved between the vault's tokens and a reserve, in whole collateral
Disinvest(c, r, tokens) ==
    LET rate == getCollateralExchangeRate(c.market[r])
        i == SlotOf(c.vault, r)
        ctokens == Min({c.vault.alloc[i].ctokens, Ceil(Times(Dec(tokens), rate))})
        liquidity == Min({Floor(Over(Dec(ctokens), rate)), Floor(c.market[r].available)})
    IN [c EXCEPT !.vault.available = @ + liquidity, !.vault.alloc[i].ctokens = @ - ctokens,
                 !.market[r].available = Minus(@, Dec(liquidity)), !.market[r].mintSupply = @ - ctokens]
Invest(c, r, tokens) ==
    LET rate == getCollateralExchangeRate(c.market[r])
    IN [c EXCEPT !.vault.available = @ - tokens,
                 !.vault.alloc[SlotOf(c.vault, r)].ctokens = @ + Floor(Times(Dec(tokens), rate)),
                 !.market[r].available = Plus(@, Dec(tokens)),
                 !.market[r].mintSupply = @ + Floor(Times(Dec(tokens), rate))]
\* the most that a reserve can give back
CanGive(c, r) == Min({Floor(Over(CTokensIn(c.vault, r), getCollateralExchangeRate(c.market[r]))),
                      Floor(c.market[r].available)})

TargetOf(c, r) ==
    LET a == getVaultAllocations(c.vault)[r]
        share == IF WeightSum(c.vault) = Zero THEN 0
                 ELSE Floor(Over(Times(Dec(a.weight), Net(c.vault, c.market)), WeightSum(c.vault)))
    IN IF a.cap > 0 THEN Min({share, a.cap}) ELSE share

\* c once the reserve has given what is lacking, as far as it can
WithAvailable(c, r, due) ==
    IF due <= c.vault.available \/ r = NullKey THEN c
    ELSE Disinvest(c, r, Min({due - c.vault.available, CanGive(c, r)}))

\* shares are burnt for what is paid
Paid(c, d, owner, asked, due) ==
    LET paid == Min({due, d.vault.available})
        burnt == IF paid = due THEN asked
                 ELSE Min({asked, Ceil(Over(Times(Dec(paid), Dec(c.vault.issued)), Net(c.vault, c.market)))})
    IN [d EXCEPT !.vault.available = @ - paid, !.vault.issued = @ - burnt,
                 !.shares[owner] = @ - burnt, !.token[owner] = @ + paid]
PaidDue(c, owner, asked, due, r) == Paid(c, WithAvailable(c, r, due), owner, asked, due)

\* up to the owner's shares, from what is available and then from the reserve
PayOut(c, owner, shares, r) ==
    LET asked == Min({shares, c.shares[owner]})
    IN PaidDue(c, owner, asked, Floor(Worth(c, asked)), r)

-----------------------------------------------------------------------------

NeedsList == {"deposit", "withdraw", "withdrawPendingFees", "invest", "updateVaultConfig"}
AdminOnly == {"updateVaultConfig", "updateReserveAllocation", "removeAllocation", "giveUpPendingFees",
              "withdrawPendingFees"}

Allowed(c, i) ==
    /\ i.ix \in AdminOnly => i.signer = c.vault.admin
    /\ i.ix \in NeedsList => i.reserves = getVaultReserves(c.vault)
    /\ i.ix \in {"withdraw", "withdrawPendingFees", "invest"} => i.reserve \in ReserveSet(c.vault)
    /\ CASE i.ix = "wrapSol" -> c.sol[i.signer] >= i.amount
         [] i.ix = "initVault" -> /\ c.vault = NoVault
                                  /\ c.token[i.signer] >= VAULT_INITIAL_DEPOSIT
         [] i.ix = "createLookupTable" -> i.table \notin DOMAIN c.tables
         [] i.ix = "extendLookupTable" -> IF i.table \in DOMAIN c.tables
                                          THEN c.tables[i.table].authority = i.signer ELSE FALSE
         [] i.ix = "updateAdmin" -> i.signer = c.vault.pending /\ i.signer # NullKey
         [] i.ix = "updateReserveAllocation" ->
                i.reserve \in ReserveSet(c.vault) \/ \E j \in DOMAIN c.vault.alloc : c.vault.alloc[j].reserve = NullKey
         [] i.ix = "removeAllocation" ->
                IF i.reserve \in ReserveSet(c.vault) THEN getVaultAllocations(c.vault)[i.reserve].ctokens = 0 ELSE FALSE
         [] i.ix = "deposit" -> i.amount > 0 /\ c.token[i.signer] >= i.amount
         [] i.ix \in {"withdraw", "withdrawFromAvailable"} -> i.amount > 0 /\ c.shares[i.signer] > 0
         [] i.ix = "createFarmUser" -> i.signer \notin c.stakers
         [] i.ix \in {"stake", "unstake"} -> i.signer \in c.stakers
         [] OTHER -> TRUE

ApplyDeposit(c, i) ==
    LET minted == IF c.vault.issued = 0 THEN i.amount
                  ELSE Floor(Over(Times(Dec(i.amount), Dec(c.vault.issued)), Net(c.vault, c.market)))
    IN [c EXCEPT !.vault.available = @ + i.amount, !.vault.issued = @ + minted,
                 !.token[i.signer] = @ - i.amount, !.shares[i.signer] = @ + minted]

\* towards the target, if the difference is worth it
Towards(c, r, held, target) ==
    IF Magnitude(target - held) < c.vault.minInvest THEN c
    ELSE IF target < held THEN Disinvest(c, r, Min({held - target, CanGive(c, r)}))
    ELSE Invest(c, r, Min({target - held, c.vault.available}))
ApplyInvest(c, r) ==
    Towards(c, r, Floor(Over(CTokensIn(c.vault, r), getCollateralExchangeRate(c.market[r]))), TargetOf(c, r))

FeesPaid(d, signer, due) ==
    LET paid == Min({due, d.vault.available})
    IN [d EXCEPT !.vault.available = @ - paid, !.vault.fees = Minus(@, Dec(paid)),
                 !.token[signer] = @ + paid]
ApplyFees(c, i) ==
    FeesPaid(WithAvailable(c, i.reserve, Floor(c.vault.fees)), i.signer, Floor(c.vault.fees))

\* what a vault instruction does once the fees are charged
VaultStep(c, i) ==
    CASE i.ix = "deposit" -> ApplyDeposit(c, i)
      [] i.ix = "withdraw" -> PayOut(c, i.signer, i.amount, i.reserve)
      [] i.ix = "withdrawFromAvailable" -> PayOut(c, i.signer, i.amount, NullKey)
      [] i.ix = "invest" -> ApplyInvest(c, i.reserve)
      [] i.ix = "withdrawPendingFees" -> ApplyFees(c, i)
      [] i.ix = "giveUpPendingFees" -> [c EXCEPT !.vault.fees = Minus(@, Least2(@, Dec(i.amount)))]
      [] i.ix = "updateVaultConfig" -> [c EXCEPT !.vault[i.field] = i.value]
      [] OTHER -> c

Apply(c, i) ==
    CASE i.ix = "wrapSol" -> [c EXCEPT !.sol[i.signer] = @ - i.amount, !.token[i.signer] = @ + i.amount]
      [] i.ix = "initVault" ->
             [c EXCEPT !.vault = [NoVault EXCEPT !.admin = i.signer, !.available = VAULT_INITIAL_DEPOSIT,
                                                 !.issued = VAULT_INITIAL_DEPOSIT,
                                                 !.prevAum = Dec(VAULT_INITIAL_DEPOSIT),
                                                 !.lastCharge = Seconds(c)],
                       !.token[i.signer] = @ - VAULT_INITIAL_DEPOSIT]
      [] i.ix = "createLookupTable" ->
             [c EXCEPT !.tables = [t \in DOMAIN @ \cup {i.table} |->
                                      IF t = i.table THEN [authority |-> i.signer, keys |-> {}] ELSE @[t]]]
      [] i.ix = "extendLookupTable" -> [c EXCEPT !.tables[i.table].keys = @ \cup i.keys]
      [] i.ix = "updateAdmin" -> [c EXCEPT !.vault.admin = i.signer, !.vault.pending = NullKey]
      [] i.ix = "updateReserveAllocation" ->
             LET j == IF i.reserve \in ReserveSet(c.vault) THEN SlotOf(c.vault, i.reserve) ELSE FreeSlot(c.vault)
             IN [c EXCEPT !.vault.alloc[j] = [@ EXCEPT !.reserve = i.reserve, !.weight = i.weight, !.cap = i.cap]]
      [] i.ix = "removeAllocation" ->
             [c EXCEPT !.vault.alloc[SlotOf(c.vault, i.reserve)] =
                           [reserve |-> NullKey, weight |-> 0, cap |-> 0, ctokens |-> 0]]
      [] i.ix = "createFarmUser" -> [c EXCEPT !.stakers = @ \cup {i.signer}]
      [] i.ix = "stake" ->
             LET n == Min({i.amount, c.shares[i.signer]})
             IN [c EXCEPT !.shares[i.signer] = @ - n, !.staked[i.signer] = @ + n]
      [] i.ix = "unstake" ->
             LET n == Min({i.amount, c.staked[i.signer]})
             IN [c EXCEPT !.staked[i.signer] = @ - n, !.unstaked[i.signer] = @ + n]
      [] i.ix = "withdrawUnstaked" ->
             [c EXCEPT !.shares[i.signer] = @ + c.unstaked[i.signer], !.unstaked[i.signer] = 0]
      [] OTHER -> Settled(VaultStep(Charged(c), i))

\* a transaction lands whole or not at all
Then(e, c, i) == IF e.ok /\ Allowed(e.c, i) THEN [ok |-> TRUE, c |-> Apply(e.c, i)]
                 ELSE [ok |-> FALSE, c |-> c]
Executed(c, tx) ==
    LET after[n \in 0 .. Len(tx)] ==
            IF n = 0 THEN [ok |-> TRUE, c |-> c]
            ELSE CHOOSE e \in {Then(d, c, tx[n]) : d \in {after[n - 1]}} : TRUE
    IN after[Len(tx)]

=============================================================================
