---------------------------- MODULE VaultClient ----------------------------
(***************************************************************************)
(* The vault client at work: an administrator, the next one and a depositor   *)
(* ask KaminoVault for instructions, which the scripts around it group into     *)
(* transactions (client_kamino_manager.ts and the examples) and send one after    *)
(* the other. A refused transaction ends the script and drops the rest; one that    *)
(* expires is taken for sent by some scripts and ends the others. The vault's        *)
(* state is read once and kept until it is reloaded; meanwhile time passes and        *)
(* others borrow from the reserves.                                                    *)
(***************************************************************************)
EXTENDS KvaultChain

CONSTANTS Chains,        \* the chains to start from
          Admin, Next2, User,
          WrappedSol,        \* the vault's token is wrapped SOL
          Fee,           \* a performance fee, in basis points
          TokenAmounts,  \* of deposits, in tokens
          ShareAmounts,  \* of withdrawals, in shares
          Allocations,   \* that are asked for: a reserve and its weight
          BorrowedFrom,  \* by somebody else: the reserves, and the lamports
          BorrowAmount,
          MaxSlot,       \* bound on the clock
          MaxOps,        \* bound on the operations asked for
          MaxBorrows     \* bound on what others do

\* The accounts of a vault that its lookup table should hold, at the least, and whether
\* the table the vault points at does
AccountsOf(c) ==
    {Owner(c.vault.admin)}
        \cup UNION {ReserveKeys(r, {"reserve", "ctokenVault", "supplyVault", "collateralMint"})
                        \cup {<<c.market[r].market, "market">>} : r \in ReserveSet(c.vault)}
TableServes(c) ==
    c.vault.lut # NoTable =>
        /\ c.vault.lut \in DOMAIN c.tables
        /\ c.tables[c.vault.lut].authority = c.vault.admin
        /\ AccountsOf(c) \subseteq c.tables[c.vault.lut].keys

\* The administrator to come is another one, and in the table
PendingListed(c) ==
    c.vault.pending # NullKey =>
        /\ c.vault.pending # c.vault.admin
        /\ c.vault.lut # NoTable
        /\ Owner(c.vault.pending) \in c.tables[c.vault.lut].keys

VaultFields == {"admin", "pending", "available", "issued", "fees", "prevAum", "perfBps", "mgmtBps",
                "lastCharge", "minInvest", "farm", "lut", "alloc"}
ChainFields == {"slot", "vault", "market", "tables", "sol", "token", "shares", "staked", "unstaked", "stakers"}
AllocSlots == [reserve : Reserves \cup {NullKey}, weight : Nat, cap : Nat, ctokens : Nat]

\* A vault starts with a table that its operations have kept up, or with none; the
\* accounts of owners, reserves and markets are told apart
ASSUME ChainsAssumption ==
    \A c \in Chains :
        /\ DOMAIN c = ChainFields
        /\ DOMAIN c.vault = VaultFields /\ c.vault.alloc \in Seq(AllocSlots)
        /\ Reserves \subseteq DOMAIN c.market
        /\ \A r \in Reserves : "market" \in DOMAIN c.market[r] /\ c.market[r].market # "owner"
        /\ NoTable \notin DOMAIN c.tables
        /\ \A t \in DOMAIN c.tables :
               DOMAIN c.tables[t] = {"authority", "keys"} /\ IsFiniteSet(c.tables[t].keys)
        /\ TableServes(c) /\ PendingListed(c)
ASSUME NoVaultAssumption ==
    /\ DOMAIN NoVault = VaultFields /\ NoVault.alloc \in Seq(AllocSlots)
    /\ NoVault.lut = NoTable /\ NoVault.pending = NullKey /\ ReserveSet(NoVault) = {}
ASSUME AllocationsAssumption ==
    /\ "owner" \notin Reserves
    /\ \A a \in Allocations : a[1] \in Reserves
    /\ ChunkSize \in Nat \ {0}

VARIABLES chain,    \* what is on chain
          view,      \* the state that the KaminoVault object keeps: none yet or one
          plan,      \* the transactions still to be sent
          job,       \* the last operation: its kind, amount, error and starting chain;
                     \* fresh: it was built and sent undisturbed; landed: nothing was refused
          clean,     \* no transaction was refused or lost so far
          ops, borrows

vars == <<chain, view, plan, job, clean, ops, borrows>>

NoJob == [kind |-> "none", amount |-> Zero, err |-> "", before |-> chain, fresh |-> FALSE, landed |-> TRUE]

Init == /\ chain \in Chains
        /\ view = <<>>
        /\ plan = <<>>
        /\ job = NoJob
        /\ clean = TRUE
        /\ ops = 0
        /\ borrows = 0

\* getState: what was read before, or what is there now
getState == IF view = <<>> THEN chain.vault ELSE view[1]

\* an operation: its transactions, without the empty ones
Ask(kind, amount, err, txs) ==
    /\ plan = <<>>
    /\ ops < MaxOps
    /\ view' = <<getState>>
    /\ plan' = IF err = "" THEN Without(txs, {<<>>}) ELSE <<>>
    /\ job' = [kind |-> kind, amount |-> amount, err |-> err, before |-> chain,
               fresh |-> getState = chain.vault, landed |-> TRUE]
    /\ ops' = ops + 1
    /\ UNCHANGED <<chain, clean, borrows>>

AskOne(kind, amount, built) == Ask(kind, amount, built.err, <<built.ixs>>)

CreateVault ==
    /\ chain.vault = NoVault
    /\ view = <<>>
    /\ plan = <<>>
    /\ ops < MaxOps
    /\ plan' = createVaultIxs(Admin, Fee, 0, chain.slot, WrappedSol)
    /\ job' = [NoJob EXCEPT !.kind = "create", !.fresh = TRUE]
    /\ ops' = ops + 1
    /\ UNCHANGED <<chain, view, clean, borrows>>

Exists == chain.vault # NoVault

\* reloadState, or another KaminoVault object
Reload == /\ plan = <<>>
          /\ view # <<>>
          /\ view[1] # chain.vault
          /\ view' = <<chain.vault>>
          /\ UNCHANGED <<chain, plan, job, clean, ops, borrows>>

Allocate(r, w, cap) ==
    Exists /\ AskOne("allocate", Zero, updateReserveAllocationIxs(getState, chain.market, chain.tables, r, w, cap))
RemoveReserve(r) == Exists /\ Ask("remove", Zero, "", <<removeReserveFromAllocationIx(getState, r)>>)
\* nobody hands the vault over to themselves
SetPending ==
    Exists /\ getState.admin # Next2
           /\ AskOne("pending", Zero,
                            updateVaultConfigIxs(getState, chain.tables, "pending", Next2, getState.admin, Farms))
SetFarm(f) == Exists /\ AskOne("farm", Zero, setVaultFarmIxs(getState, chain.tables, f, TRUE, Farms))
SetFee ==
    Exists /\ AskOne("fee", Zero,
                     updateVaultConfigIxs(getState, chain.tables, "perfBps", Fee, getState.admin, Farms))

\* accepted together with the new table, which is filled and set in a transaction after
Accept ==
    /\ Exists
    /\ LET a == acceptVaultOwnershipIxs(getState, chain.tables, chain.slot)
       IN Ask("accept", Zero, a.err, <<<<a.accept, a.init>>, a.fill>>)

Sync ==
    /\ Exists
    /\ LET s == syncVaultLookupTableIxs(getState, chain.market, chain.tables, chain.slot)
       IN Ask("sync", Zero, s.err, <<s.setup>> \o [i \in DOMAIN s.sync |-> <<s.sync[i]>>])

GiveUp(x) == Exists /\ AskOne("giveUp", x, giveUpPendingFeesIx(getState, x))
WithdrawFees ==
    Exists /\ AskOne("fees", Zero, withdrawPendingFeesIxs(getState, chain.market, chain.slot))
Deposit(x) ==
    Exists /\ AskOne("deposit", x, depositIxs(getState, User, x, WrappedSol, Farms, User \in chain.stakers))
Stake ==
    Exists /\ AskOne("stake", Zero, stakeSharesIxs(getState, User, <<>>, Farms, User \in chain.stakers))
Withdraw(x) ==
    Exists /\ AskOne("withdraw", x,
                     withdrawIxs(getState, chain.market, User, x, chain.slot, chain.slot, Farms))

\* one transaction for each instruction
InvestAll ==
    /\ Exists
    /\ \E i \in {investAllReservesIxs(getState, chain.market, User, chain.slot)} :
           Ask("invest", Zero, i.err, [n \in DOMAIN i.ixs |-> <<i.ixs[n]>>])
InvestSingle(r) ==
    Exists /\ Ask("investOne", Zero, "", <<investSingleReserveIxs(getState, User, r)>>)

\* the next transaction arrives; when it is refused, the sender throws and the rest is dropped
Land == /\ plan # <<>>
        /\ \E e \in {Executed(chain, Head(plan))} :
              /\ chain' = e.c
              /\ job' = [job EXCEPT !.landed = @ /\ e.ok]
              /\ clean' = (clean /\ e.ok)
              /\ plan' = IF e.ok THEN Tail(plan) ELSE <<>>
        /\ UNCHANGED <<view, ops, borrows>>

\* it expires: the manager's loop goes on with the next one, the other scripts end
Lose == /\ plan # <<>>
        /\ plan' \in {Tail(plan), <<>>}
        /\ job' = [job EXCEPT !.fresh = FALSE]
        /\ clean' = FALSE
        /\ UNCHANGED <<chain, view, ops, borrows>>

Tick == /\ chain.slot < MaxSlot
        /\ chain' = [chain EXCEPT !.slot = @ + 1]
        /\ job' = [job EXCEPT !.fresh = FALSE]
        /\ UNCHANGED <<view, plan, clean, ops, borrows>>

OthersBorrow(r) ==
    /\ borrows < MaxBorrows
    /\ \E R \in {RefreshReserve(chain.market[r], chain.slot)} :
          /\ Leq(Dec(BorrowAmount), R.available)
          /\ chain' = [chain EXCEPT !.market[r] = [R EXCEPT !.available = Minus(@, Dec(BorrowAmount)),
                                                            !.borrowed = Plus(@, Dec(BorrowAmount))]]
    /\ job' = [job EXCEPT !.fresh = FALSE]
    /\ borrows' = borrows + 1
    /\ UNCHANGED <<view, plan, clean, ops>>

Next == \/ CreateVault \/ Reload \/ SetPending \/ SetFee \/ Accept \/ Sync
        \/ WithdrawFees \/ Stake \/ InvestAll
        \/ \E a \in Allocations : Allocate(a[1], a[2], Zero)
        \/ \E r \in Reserves : RemoveReserve(r) \/ InvestSingle(r)
        \/ \E r \in BorrowedFrom : OthersBorrow(r)
        \/ \E f \in Farms : SetFarm(f)
        \/ \E x \in TokenAmounts : Deposit(x) \/ GiveUp(x)
        \/ \E x \in ShareAmounts : Withdraw(x)
        \/ Land \/ Lose \/ Tick

Spec == Init /\ [][Next]_vars

-----------------------------------------------------------------------------
(* Properties *)

Ended(kind) == plan = <<>> /\ job.kind = kind /\ job.fresh

\* the shares of the depositor, in the wallet and in the farm
Owned(c) == c.shares[User] + (IF hasFarm(c.vault) THEN c.staked[User] ELSE 0)

\* what the client does not handle: shares that need more than one reserve, a hole in
\* the first slot when none is needed, and a vault with a farm the user never staked in
AcrossReserves(c, x) ==
    LET V == c.vault
        More(left, free) == LessThan(Zero, left) /\ (free = <<>> \/ LessThan(free[1].free, left))
    IN More(Minus(Times(toLamports(x, Factor),
                        getTokensPerShareSingleVault(V, c.market, c.slot, c.slot)), Dec(V.available)),
            MostFirst(getReserveAllocationAvailableLiquidityToWithdraw(V, c.market, c.slot)))
HoleFirst(c) == ReserveSet(c.vault) # {} /\ c.vault.alloc[1].reserve = NullKey
NeverStaked(c) == hasFarm(c.vault) /\ User \notin c.stakers

\* A withdrawal that at most one reserve must serve goes through, whether its shares
\* are in the wallet or staked, and pays what they are worth once the fees have been
\* charged, to the lamport: the instruction carries the shares for what is available and
\* for the reserve's part (withdrawIxs, wihdrdrawWithReserveIxns).
WithdrawPays ==
    LET c == job.before
        lamports == toLamports(job.amount, Factor)
    IN Ended("withdraw") =>
           \/ ~IsInt(lamports) \/ ~Leq(lamports, Dec(Owned(c)))
           \/ AcrossReserves(c, job.amount) \/ HoleFirst(c) \/ NeverStaked(c)
           \/ /\ job.err = "" /\ job.landed
              /\ chain.token[User] - c.token[User] >= Floor(Worth(Charged(c), Floor(lamports))) - 1

Held(c, r) == Over(CTokensIn(c.vault, r), getCollateralExchangeRate(c.market[r]))

\* After investAllReservesIxs, sent undisturbed, every reserve holds its share of the
\* vault up to the amount that is not worth a transaction and the interest the client
\* could not see: the reserves that give tokens back come before those that take them.
\* A reserve short of liquidity may keep more, and leave the others with less.
CrankSettles ==
    Ended("invest") /\ job.err = "" /\ job.landed =>
        \A c \in {Charged(job.before)} :
            \/ \E r \in ReserveSet(c.vault) : LessThan(c.market[r].available, Held(c, r))
            \/ \A slack \in {Plus(Dec(c.vault.minInvest + 2),
                                   Minus(Gross(c.vault, c.market), Gross(c.vault, job.before.market)))} :
                   \A r \in ReserveSet(chain.vault) :
                       Leq(Abs(Minus(Dec(TargetOf(chain, r)), Held(chain, r))), slack)

\* As long as no transaction is refused or lost, the vault's lookup table belongs to its
\* administrator, so that it can be extended, and holds the administrator and the
\* accounts of every reserve of the allocation: across a change of administrator, whose
\* table is not the former one's, and whatever state the client had kept.
TableFollowsVault == clean /\ plan = <<>> => TableServes(chain)

\* The three figures of getVaultOverview for what is invested agree, and the two for what is
\* lent out of it, now and for a slot to come, though one of them takes the referrers' part
\* of the interest into account and the others do not.
OverviewAgrees ==
    plan = <<>> =>
        \A slot \in {chain.slot, MaxSlot} :
            \A o \in {getVaultOverview(chain.vault, One, chain.market, slot, chain.slot)} :
                LET supplied(r) == o.reservesOverview[r].suppliedAmount
                    lent(r) == o.reservesOverview[r].amountBorrowedFromSupplied
                IN /\ o.holdingsUSD.investedUSD = o.totalSupplied
                   /\ SumOf(supplied, ReserveSet(chain.vault)) = o.totalSupplied
                   /\ SumOf(lent, ReserveSet(chain.vault)) = o.totalBorrowed

=============================================================================
