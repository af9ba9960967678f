# Verification of Kamino Lend: the program and its client

TLA+ models of the on-chain lending program in `src/programs/klend/src` (Solana,
Anchor, Rust) and of the TypeScript client in `src/ts-client/src`, which builds the
transactions, predicts what they will do and administers markets and vaults. They
are model-checked with TLC. Most of what the runs check of the program, and of the
client the transactions it builds, its configuration commands and the lookup tables of
its vaults, are also proved with TLAPS.

Paths of Rust files below are relative to `src/programs/klend/src/`, paths of
TypeScript files to `src/ts-client/src/`.

## 1. The system

### The program

KLend is a set of accounts changed only by instructions. Instructions of one
transaction run one after the other; an instruction that returns an error or
panics (release builds check integer overflow) undoes its whole transaction.
There are no threads and no background work: every state change is requested by
a user, a liquidator, the market owner or the risk council, in any order and at
any time, also inside one transaction and across programs (CPI).

| part | state it keeps | operations | what is hard |
|---|---|---|---|
| withdrawal caps (`lending_market/withdrawal_cap_operations.rs`) | capacity, signed counter, interval start and length | add / subtract on each withdrawal and supply; four ways for the owner to rewrite | i64 limits, rollover, rewriting in mid-interval |
| reserve (`state/reserve.rs`) | tokens available, debt and fees as 60-bit fractions, collateral supply, cumulative borrow rate, limit-crossed timestamps | deposit, redeem, borrow, repay, accrue, fees, forgive | rounding, order of accruals, fees booked but not paid |
| freshness (`state/last_update.rs`) | slot, stale flag, price status | refresh, mark stale, test | values computed by one instruction and used by another |
| obligation (`state/obligation.rs`) | debts and deposits per reserve, values, health | borrow, repay, deposit, withdraw, refresh, elevation group, liquidation | debt rounding against the reserve's, stale values |
| elevation groups (`lending_operations.rs`, `state/lending_market.rs`) | per reserve: debt against it in each group, debt outside all groups; per position: its contribution to these | request a group; counted by every borrow, repayment, deposit, withdrawal, liquidation and refresh | two copies of a sum kept by different instructions, saturating subtraction, whole tokens against fractions |
| flash loans (`lending_market/flash_ixs.rs`) | nothing at all | borrow, repay | pairing by reading the transaction's other instructions |
| referrals (`state/referral.rs`) | unclaimed fees per referrer and mint | accumulate, withdraw, change of rate | fees set aside by an accrual, handed out by a later refresh |
| liquidation (`state/liquidation_operations.rs`) | margin call clocks | liquidate, mark for deleveraging | same reserve on both sides, empty pool, clocks |
| lending market (`state/lending_market.rs`, `handlers/handler_update_lending_market.rs`) | owner and pending owner, limits, elevation groups | update, two-step ownership | settings changed in mid-behaviour |
| prices (`utils/prices`) | last price and its time | load, age / TWAP / heuristic checks | which checks an instruction may rely on |
| refresh checks (`utils/refresh_ix_utils.rs`) | nothing | look for refreshes at fixed positions | positions shift when instructions are batched |

How they interact: a handler in `handlers/` loads the accounts, usually calls
`refresh_reserve`, calls one function of `lending_market/lending_operations.rs`
and moves tokens (`utils/token_transfer.rs`). Reserve and obligation share
nothing but the cumulative borrow rate: an obligation's debt is brought up to
date by `refresh_obligation`, which also hands out the referrer's part of the
interest that the reserve had set aside.

### The client

The client keeps no state of its own on chain. What is hard about it is that it
decides from accounts it read earlier, and that the program then checks the
transaction against the accounts as they are when it runs: which reserves must be
refreshed in which order, which accounts must be passed, which amounts are still
covered.

| part | state it keeps | operations | what is hard |
|---|---|---|---|
| transaction builder (`classes/action.ts`) | the obligation as it was loaded; three lists of instructions | one builder per user operation, in a version with refreshes and farm instructions around each instruction (V1) and one with farm accounts inside it (V2) | the order the program insists on, slots with holes, wrapped SOL accounts, elevation groups asked for in the same transaction, full repayment of a debt that grows |
| reserve and obligation estimates (`classes/reserve.ts`, `classes/obligation.ts`, `classes/market.ts`) | loaded accounts and the slot they are from | interest since then, values, limits, simulated operations, the most that can be borrowed or withdrawn | the estimate is used some slots later and after others have acted; fees and padding |
| leverage and collateral operations (`leverage/`, `lending_operations/`) | none; a quote of an exchange | open, close and adjust a leveraged position (kTokens too), repay with collateral, swap collateral | one transaction around a flash loan must come out even although the exchange keeps something |
| vaults (`classes/vault.ts`, `classes/farm_utils.ts`, `utils/lookupTable.ts`) | the vault as it was loaded | create, allocate, deposit, withdraw, stake, invest, fees, ownership, lookup tables | operations of several transactions, some of which are lost; state kept from before |
| configuration (`classes/manager.ts`, `utils/managerTypes.ts`, the reserve and market parts of `classes/reserve.ts` and `classes/market.ts`, `client_kamino_manager.ts`) | configuration files, defaults shared by the described assets | create a market and a reserve, send the difference between a file and the chain, send it entire, change oracles, hand the market over | fields that are only valid together are sent one by one; steps are lost, late or refused |
| transaction sender (`utils/sendTransactionsUtils.ts`) | none | send once, wait, go on or stop | an unconfirmed transaction counts as sent, and may still land |

Builders call the estimates for amounts and groups; leverage and collateral operations
are built out of the transaction builder's single operations; vaults use the reserve
estimates; the command line (`client_kamino_manager.ts`) groups what managers return
into transactions and hands them to the sender.

The hazards this design is exposed to are listed in `PROJECT.json`, each with
the line where it bites and the property that would notice.

## 2. Modules

| module | models | role |
|---|---|---|
| `Fraction` | `utils/fraction.rs` | fixed point with the code's truncation, scale `SF` (2^60 in the code) |
| `LastUpdate` | `state/last_update.rs` | freshness stamps; price status as three levels |
| `WithdrawalCapOps`, `WithdrawalCaps` | `withdrawal_cap_operations.rs`, cap modes of `update_reserve_config` | operators on a cap; one cap over time with its owner |
| `ReserveOps` | `state/reserve.rs` | pure arithmetic: total supply, exchange rate, compounding, fees, each change of the liquidity record |
| `Reserve` | the handlers and `lending_operations.rs` | one reserve, its borrowers, referrers and market; one action per instruction |
| `SharePool` | - | abstract specification: what a pool promises its depositors |
| `FlashLoan` | `flash_ixs.rs`, `ix_utils.rs` | transactions as sequences of instructions, calls from below, rollback |
| `DebtTrackers` | elevation groups in `lending_operations.rs` and `state/obligation.rs` | several obligations over several reserves, reduced to debts, collaterals and the counters on both sides |
| `KlendIxs` | `idl_codegen/instructions` | the instructions of the program as records: which accounts, amounts and remaining accounts they carry |
| `KlendChain` | `lending_operations.rs`, `refresh_ix_utils.rs`, the handlers of one obligation | one user's accounts, and the program as a function that executes a transaction or names the error: slots of the obligation, freshness, elevation groups, farm stakes, refresh checks, wrapped SOL, flash loans |
| `KaminoAction` | `classes/action.ts` | every builder, as a function from a request and the loaded obligation to instructions or an exception |
| `ActionClient` | the user | load, build and send, with interest and other devices in between |
| `Decimals` | decimal.js | exact fractions with the code's rounding to lamports |
| `KaminoReserve`, `KaminoObligation` | `classes/reserve.ts`, `classes/obligation.ts`, `classes/market.ts` | the client's figures, as pure operators |
| `Estimates` | `state/reserve.rs`, `lending_operations.rs` and the user | the program's accrual and checks in the same decimals, and a client that uses its figures later |
| `LeverageCalcs`, `Leverage`, `CollateralOps` | `leverage/`, `lending_operations/` | amounts, then instructions, of the operations around a flash loan |
| `FlashClient` | the user and an exchange | load, build with a quote, send; prices and debts move |
| `KvaultIxs`, `KaminoVault` | `idl_codegen_kamino_vault/instructions`, `classes/vault.ts`, `classes/farm_utils.ts`, `utils/lookupTable.ts` | vault instructions, and every builder and figure of the vault client |
| `KvaultChain` | - | the vault, farms and lookup table programs as the client uses them (they are not in the repository) |
| `VaultClient` | the vault commands and examples | administrators and a depositor sending operations of several transactions |
| `KaminoManager` | `classes/manager.ts`, `utils/managerTypes.ts`, the configuration parts of `reserve.ts` and `market.ts` | describing assets, difference and entire updates, encodings, files |
| `ConfigChain` | `handler_update_reserve_config.rs`, `handler_update_lending_market.rs`, the owner handlers, `state/reserve.rs` validation | each setting, its validation and when it is skipped |
| `ConfigClient` | `client_kamino_manager.ts`, `utils/sendTransactionsUtils.ts` | commands running against the chain, with lost, late and refused transactions |
| `MC*` | - | instances for TLC |
| `*Proofs` | - | theorems and their lemmas |

The client's modules are layered. `ActionClient` is `KlendChain` (the program) over
`KaminoAction` (the builders) over `KlendIxs`. `FlashClient` stands on `CollateralOps` and
`Leverage`, and these on `KlendChain`, so that leveraged operations are executed by the same
program as single ones. `VaultClient` stands on `KvaultChain`, `KaminoVault` and
`KaminoReserve`, `ConfigClient` on `ConfigChain` and `KaminoManager`.

Correspondence of state, for `Reserve`: `liquidity` is `reserve.liquidity`,
`supply` is `reserve.collateral.mint_total_supply`, `version`, `last_update` and
`crossed` are the reserve's fields, `caps` its two withdrawal caps, `borrow[o]`
is the obligation's `ObligationLiquidity` for this reserve together with the
obligation's `last_update`, `unclaimed` is `amount_unclaimed_sf` of the
`ReferrerTokenState`s, `referral` is the market's `referral_fee_bps`. `vault` and
`circulating` are the token program's view (the tokens in the supply vault and
the collateral tokens in existence outside the seed), computed from the
transfers and never from the books. `flash` is the amount lent within the
running transaction.

Every action is a whole handler: the in-line `refresh_reserve` without a price,
the cap, the transfers and the final `mark_stale` are part of it. A handler that
fails is not a step. The composite handlers (deposit and collateral, repay and
withdraw, deposit and withdraw) are sequences of these actions. The v1 and v2
versions of a handler differ only in farms and refresh checks and are one action.

In `DebtTrackers` an obligation's `debt`, `outside` and `against` are
`borrowed_amount_sf`, `borrowed_amount_outside_elevation_groups` and
`borrowed_amount_against_this_collateral_in_elevation_group` of its positions (0
where it has none), `deposited` the reserves it has collateral in; `against_total`
and `outside_total` are the reserves' counters. `freshness` summarises the
obligation's `last_update`: `fresh` (refreshed in this slot and not used since),
`stale` (used since) or `due` (a slot has passed). Interest is any amount of
`Interests` per refresh in a new slot. Values are left to the environment: any
borrow, withdrawal or liquidation amount may occur, and a debt of at most `Dust` is
worth nothing. `socialize_loss` counts like a repayment and is the same action; the
order of `refresh_obligation_borrows` before `_deposits` is kept in that the debt
counted against a collateral already contains its interest.

In the client's modules a builder is a function: it returns the instructions, or the
error it throws. What the client awaits from the network is an argument (`Rpc(chain)`),
so that reading the accounts and building are one step and everything after it may meet
other accounts. The chain is one record; executing a transaction goes through its
instructions one by one (at most `MaxIxs` of them), and a transaction that fails leaves the accounts as they were. `view` is what the client has loaded, `tx` or `plan` what it has built
and not sent, `job` and `from` what a property needs to remember of the moment it was
built. In `ConfigClient`, `plan[k]` is what command `k` still has to send and `late` the
transactions whose confirmation did not come in time.

Abstractions of the program's own modules, all of them over-approximations of what an instruction may do:

- what an obligation's collateral supports (`BorrowPowers`), and the amounts a
  liquidation repays and seizes, are any amount;
- the interest rate curve may return any rate of `VariableBases`, as a rate per
  slot, and the oracles any price level of `PriceLevels`;
- a slot and a second are the same clock;
- the settings of a reserve are constants; updating them accrues and makes stale.

In the client's modules, amounts are small integers with one to some hundred lamports
per token; labels, logging and compute budgets that no property is about are left out;
token accounts that every transaction creates if they are missing are left out in
`VaultClient` and kept where the wrapped SOL account is concerned. A reserve's
configuration in `ConfigClient` has every field, with a few values each. A scope price
chain of all zeros and a missing one are the same.

`LastUpdate` orders the price status by strength. The flags an instruction asks
for are none, the three of `LIQUIDATION_CHECKS` or all six, so a set of flags
matters only through the strongest of these that it contains, and the
intersection taken by `refresh_obligation` passes the smaller of two levels.

## 3. What is checked

| run | instance | shows |
|---|---|---|
| `caps` | i64 scaled down to -5..4, amounts to 5, five seconds | counter exact, capacity kept, an elapsed interval never blocks |
| `reserve` | 1 borrower, 3 slots, scale 3, fixed and variable interest | solvent, fresh debts current, share pool implemented, retirement final |
| `reserve_fees` | 1 referred borrower, scale 2, all fees, referral rate on/off | books equal tokens, referrers' claims backed, nobody diluted |
| `reserve_two` | 2 borrowers, caps enabled | debts that count as fresh are current, with borrowers that are refreshed independently |
| `referral` | 1 borrower, no variable interest | **fails**, see section 6 |
| `flash` | all transactions of up to 3 instructions, 2 reserves, 2 amounts, 3 account lists | no loan survives its transaction, loans never overlap |
| `trackers` | 2 obligations, 3 reserves, 2 groups, scale 2, debts to 2.5 tokens | counters are the sums of the contributions, contributions exact when fresh, limits bound real debts, collateral of groups backs nothing outside |
| `action` | 3 reserves, 2 slots for deposits and 2 for debts, 1 group, an origination fee, every kind of request, 2 transactions or moves elsewhere | a fresh build is executed, a stale one does what was meant or nothing; farms, wrapped SOL and groups come out right |
| `estimates` | 2 reserves that both bear interest, slots of 400, 500 and 1000 ms, 4 of them, 2 actions of others or of the user, curves with a kink, fees | debts are never understated by slots of up to 500 ms, an estimate is what a refresh makes at 500 ms and lies on a known side of it otherwise, the most is the most |
| `leverage` | 4 reserves (one a kToken), 2 groups, 2 prices, an origination fee of a fiftieth, slippage 0 or 1/20 where 1/10 is allowed, 4 actions | leveraged operations go through and cost no more than was asked; targets and groups are reached |
| `vault` | 2 reserves and a farm, 2 slots, 2 operations and what others borrow | withdrawals pay, cranks settle, lookup tables follow the vault, the three figures of the overview agree |
| `config` | starts that differ in chain, files and budget; at most one loss, edit or handover each | only valid reserves are usable, only the named owner takes over, repeated updates converge |

The scale `SF` is tiny on purpose: with 2 or 3 units per token each conversion
and each accrual rounds by a large part of a token, so that errors that take
billions of operations at 2^60 take one. Amounts are small because the
properties relate sums and ratios: two tokens, an interest period on each side
of an operation and one loss reach all the cases. Three slots give an accrual
over one slot, over two, and a repeated refresh in one slot. `CompoundedInterest`
has a branch for more than four slots that the runs do not enter; the proofs
cover it. In `flash`, three instructions allow a borrow, its repayment and any
third instruction before, between or after; the theorems hold for every length.
`MCTransactions` fixes the unused fields of an instruction, nothing else.

`ExposureWithinLimit` allows one token for each other obligation that is not
refreshed. The allowance is needed: a liquidation that settles half a token lowers
the counter by a whole one, so until the next refresh the counter is below the
debt (without the allowance TLC finds that state). Two obligations are enough for
one to borrow against what another has freed; limits of two and three tokens are
reached by one or by both; the second group admits one collateral only, so that
changing groups can be refused.

What the bounds of the client runs let happen:

- `action`: two slots per side are the least with a hole before a position and with an
  obligation that is full. The obligations to start from have every arrangement of
  deposits, debts, holes and group that the requests tell apart. Two steps allow a build
  followed by a change elsewhere and the sending, or two transactions in a row. What a
  build depends on changes by interest (`Accrue`), by deposits, withdrawals, borrows and
  repayments of another device and by liquidations, of a part or of everything
  (`LendElsewhere`), by leaving and entering groups (`GroupElsewhere`) and by the wrapped
  SOL account (`WrapElsewhere`). These run the program's own handlers with their refreshes
  in place and with funds from elsewhere; a deposit elsewhere into a reserve with a farm
  needs the farm's account of the obligation to exist. A position of 1 stands for any amount below `U64_MAX`, which stands for
  everything; requests of both are made. `MaxIxs` is above the length of everything built.
- `estimates`: the slot durations are one below, one at and one above the 500 ms that the
  rates are for; the client reads the duration, so it is part of a loaded reserve. Which
  side an estimate errs on is named (`NoShortfall`, `NoExcess`), and the properties of
  what may be borrowed and withdrawn are stated where collateral is not overstated and
  debt not understated (`ErrsOnTheSafeSide`), at whatever later slot they are used.
  `MaxSlot` is below 5, where the program's interest is an exact power. From
  five slots on the program approximates the power from below, and the client does not.
- `leverage`: four actions are a load, a build, a price move or interest, and a sending. At
  exactly the slippage that is allowed for, rounding the flash loan fee up to a lamport can
  leave the repayment one short; the run stays within it. Interest comes from `Accrue`; the
  curves are zero, so that what is loaded has none to be estimated. `LandsOnTarget`
  counts the origination fee, which the program adds to the debt and the client's target
  does not know of.
- `vault`: two operations are enough for one to rely on what another left behind (an
  allocation and then an investment, an offer of ownership and its acceptance); slots are
  of 450 ms for the client, the repository's default; the chains
  to start from have a vault in each stage of its life. `MaxRounds` bounds the investment
  loop, and the caps are 0 (unlimited): see section 6.
- `config`: the budget is part of each start, so that losses meet a lossy start and edits
  an edited one, not all of them at once.

Deadlock is checked in `caps`, `flash` and `trackers`. The other runs stop at a bound on
time or steps, or when the users have nothing left to ask for.

### Fairness

Only `config` assumes any. The program schedules nothing: whether anything happens is
decided by its users, so the code alone guarantees no progress, and what a user can rely
on is stated as what the code admits (`ElapsedIntervalAdmits`, `FreshBuildExecutes`,
`MaxBorrowIsTheMost`). `UpdateConverges` says what an administrator can rely on who
repeats the two update commands as long as they have something to send: weak fairness of
`UpdateReserve` and `UpdateMarket` is that repetition, and weak fairness of `Land(k)` says
that a transaction which was sent, and is not one of the boundedly many that are lost, is
executed. The sender submits each transaction once, so losing without a bound would refute
any progress. Nothing else is fair: late transactions may never land, others need not act.

### What the client properties leave out

Each exclusion is a named operator next to its property, and each is a case in which the
client does not prepare a transaction that the program accepts.

- `FreshBuildExecutes` (`NotHandled`): `FillsHole`, a first deposit into a slot before
  others; `RepaysOwnCollateral`, a full repayment in a reserve that is also collateral;
  `OutgrownByInterest`, an amount that covered the debt when it was loaded;
  `HeldOutsideGroup`, a group chosen without looking at the other positions;
  `NoCollateralLeft`, leaving a group after a liquidation has taken the last deposit;
  `LeavesGroupAfterWithdraw`, `NeedsReferrerStates`, `KeepsWithdrawnReserve` and
  `NewCollateralInGroup`, combined operations in which a later instruction needs a
  reserve or an account that the builder did not count on. In all of them the transaction
  fails as a whole; `CommitsWhatWasMeant` has no exclusion. What a request means (`Meant`)
  is stated on the amounts in the slots alone, without running an instruction.
- `LastRepayLeavesGroup` is about a debt that has not become less since it was loaded. A
  repayment built as one of a part does not ask for the group, so that a repayment or
  liquidation elsewhere which makes it one of the whole leaves the obligation in its group
  (without that condition TLC finds the state), see section 6.
- `FreshOperationPays`: repaying with collateral and swapping collateral tolerate no
  slippage (`Tolerated`); a swap that keeps part of the old collateral and asks for a group
  afterwards (`GroupAfterPart`). Obligations are dedicated to the operation, and a closing
  repayment names at least the debt.
- `WithdrawPays`: `AcrossReserves`, `HoleFirst`, `NeverStaked`, see section 6.
  `TableFollowsVault` is stated while no transaction has been refused or lost, for vaults
  with a table; and nobody hands a vault over to themselves (`SetPending`), see section 6.
- `UpdateConverges`: `OrderMatters`, fields that are only valid together and are sent one by
  one; `CannotSend`, values the client cannot encode, and price fields of a live reserve
  short of liquidity; a goal that is itself invalid. Commands are run by whoever owns the
  market when they read the chain.

Every property has a mutant: a plausible bug in a modelled definition, defined just before
that definition, under which TLC finds the property violated.

## 4. What is proved

The theorems hold for every value of the constants, under the assumptions named in the
modules that declare them:

- of the program: `SFAssumption`, `ReserveConfigAssumption`, `ReserveAssumption`,
  `I64Assumption`, `CapsConstants`, `FlashAssumption`, `TrackerAssumption`. They say no
  more than the code does: a scale of at least 1, rates that are natural numbers, take rate
  and referral rate of at most 100 %, a `min_initial_deposit_amount` above 0, finitely many
  obligations and referrers;
- of the client: `ReservesAssumption` (the default key is no reserve, collateral farms
  belong to reserves), `SlotsAssumption`, `GroupsAssumption` (groups are numbered from 1),
  `ManagerAssumption` (`updateMarket` sends at least one instruction per transaction), the
  types of what is asked for: `RequestsAssumption` (the arguments of the builders) and
  `AllocationsAssumption` (allocations name reserves, a chunk of addresses is not empty), and
  what a state to start from must be: `StartsAssumption` (a slot is empty or holds a
  positive amount of a reserve, and no reserve has two slots of a side), `ConfigAssumption`
  (whole configurations, no offer of ownership pending, a usable reserve is valid),
  `ChainsAssumption` (a vault has no table or one that serves it, and the administrator who
  is to come is another one and listed in it) and `NoVaultAssumption` (before its creation
  a vault has neither table nor reserves).

| module | theorems |
|---|---|
| `WithdrawalCapsProofs` | `TypeCorrect`, `CounterExact`, `CapHolds`, `ElapsedAlwaysAdmits` |
| `ReserveProofs` | `Inductive` (`Spec => []IInv`), and from it `TypeCorrect`, `BooksAlwaysMatch`, `AlwaysSolvent`, `FreshDebtAlwaysCurrent`, `RetirementAlwaysFinal`, `ReferrerFeesAlwaysBacked`, and `ImplementsSharePool`, the refinement of `SharePool` |
| `FlashLoanProofs` | `TypeCorrect`, `LoansEndWithTheirTransaction`, `OneLoanAtATime` |
| `DebtTrackersProofs` | `Inductive`, `TypeCorrect`, `FreshTrackersAlwaysExact`, `EmodeCollateralNeverBacksOutsideDebt`, `TrackersAlwaysSums`, `ExposureAlwaysWithinLimit` |
| `ConfigClientProofs` | `ConfigInductive`, `UsableReserveAlwaysValid`, `OwnerAlwaysNamed` |
| `ActionClientProofs` | `StakesAlwaysFollow`, `CommitsAsMeant` |
| `VaultClientProofs` | `TableKept` |

The lemmas on the operators of a reserve and of a cap are in `ReserveProofs` and
`WithdrawalCapsProofs`, before the theorems that use them. `SumProofs` has those on sums
over a finite set, and on `FlattenSeq`, by which the builders put sequences together.

The inductive invariant of the reserve is `Money /\ Control /\ Positions`.
`Money`: types, the books equal the tokens, a live reserve has a positive total
supply, and its supply is at least the seed. Solvency alone is not inductive: a
redemption keeps the pool positive only because the seed's collateral tokens can
never be redeemed, so the redeemed part is strictly less than the whole. `Control`:
a deprecated reserve is marked stale, and stamps never lie in the future. This is
what makes retirement final although two handlers ignore the version.
`Positions`: a position with debt has a positive rate not above the reserve's, and
equal to it when the obligation is fresh; an obligation that is fresh implies that
no accrual has happened since, because an accrual needs a later slot.

The refinement argument per operation is one inequality,
`assets' * shares >= assets * shares'`: deposits and redemptions by the direction
of their rounding, everything else because it leaves the shares
alone and does not lower the assets. For interest this needs that fees taken from
new debt never exceed it, which rests on truncating multiplication being monotone.

The flash loan invariant says that while a loan is open, exactly one matching
repayment lies ahead and no other repayment can claim the borrow; between
transactions, and in the state a failure restores, nothing is owed.

The invariant of the debt trackers is per obligation: nothing is left behind (no
contribution where the group or the position does not allow one), and while it is
fresh every contribution equals the debt and `borrowing_disabled` matches the
collateral. The first part carries exactness through a change of group, where the
code only resets the contributions of existing positions; the second ends with the
first use, which is why every operation must mark the obligation stale.

**Sums.** `ReferrerFeesBacked`, `TrackersAreSums` and `ExposureWithinLimit` compare a counter
with a sum over all referrers or all obligations. The library's induction theorems take the
statement as an operator, which the provers cannot instantiate; `SumProofs` argues by a
smallest counterexample instead (`SmallestNat`, `SmallestSubset`), and gives what the
proofs need: a sum of natural numbers is one, changing one summand changes the sum by the
difference (`SumChange`), and a bound on the summands bounds the sum (`SumExcess`).

For the referrers, `IInv` is extended by the claim itself, and each action is shown to be a
`LedgerStep`: the referrers' total and what one of them may claim move by the same amount.
The trackers need more than their sums. A counter of a reserve saturates at 0 when it is
lowered, so that the sum survives only if no obligation ever takes out more than it put in.
`SumInv` therefore adds to `Inductive` that the counters are the sums; that a limit bounds
real debts follows with `Owes`, by which a debt exceeds its contribution by at most one
token while the obligation is not refreshed, and not at all when it is.

**Configuration.** The invariant of `ConfigClientProofs` is about what can still land. A
command builds transactions of three shapes: instructions that name the owner as signer
and never write the owner's field, one that creates a market, one that accepts it. Every
transaction that is planned or late is one of these and is paid by an administrator; the
chain is in order (a reserve that is usable has a configuration that validates by itself);
and the owner who is cached on the chain was named by the owner of that moment. Each
instruction is applied to the chain it finds, so the order in which late transactions
arrive does not matter. The shapes quantify over sets that are not enumerable; TLC checks
the two properties, and the invariant only through them.

**Farms.** `StakesAlwaysFollow` does not open any builder: it holds for every sequence of
instructions, and so shows that it is the program, not the client, which keeps stakes and
collateral in step. The property is not inductive over the instructions of a transaction,
because a V1 instruction moves the collateral and only the next instruction moves the
stake. The invariant within a transaction says that every stake follows but for at most
one, whose refresh is the next instruction: `check_refresh` has found it there when the
V1 instruction ran, and a V2 instruction refreshes the farm after its own effect. `Sound`
adds that an obligation which does not exist has no collateral. That a whole transaction
keeps this is again shown by a smallest counterexample, the first instruction after which
it fails.

**Builders.** `CommitsAsMeant` does open the builders, for every kind of request, and is
about a transaction that may be sent long after it was built. The argument has two
halves. The builder's: whatever has been loaded, everything that is put before and after
the instructions of the operation itself (refreshes, price updates, farm stakes, account
creations, the request of a group) moves no position (`Framed`), and the instructions
that do move one are those of the request, in its order and with its amounts (`Ready`,
`CarriesOut`). The program's: executing a sequence of instructions of this kind has the
effect of the moving ones alone, and the effect of each on the slots is the arithmetic
that `Meant` states. The inductive invariant `BuiltInv` says that the transaction that
was built carries out its request, and that the obligations on chain and in the view have
all their slots. It does not mention what has happened since the building, which is why
the theorem holds however stale the view was. `FarmInv`, the invariant of the stakes, is
a part of it because a V1 instruction moves positions only together with its neighbours.

**Vault tables.** An instruction is soft if it leaves the administrators and the table a
vault points at alone and brings no new reserve: it takes nothing away that the table must
hold. All operations of the vault client but five build soft instructions. To allocate, to
name the next administrator, to accept, to synchronise without a table and to create each
put the table right in one transaction or two, and between them the table does not serve
the vault. The invariant `CourseInv` therefore says where the plan leads: the table serves
and what is left of the plan is soft (`Rest`), or it does so after the next transaction, if
that is executed, or after the next two (`LandsOnce`, `LandsTwice`), from any chain that
time and other users can bring about in the meantime.

The hard part is that a plan is worked out from a state of the vault that may be old.
`Known` is what such a state still tells: if its administrator is still the vault's, then so is
its table, unless there was none; if its next administrator is still the next one, then
there has been no handover; and if it shows no table, then nobody has been named since and
no reserve was added. The first suffices because a transaction signed by a former
administrator is refused, and then the property claims nothing. The part of `Rest` that
speaks of one state was checked by TLC as an invariant before the proof, on an instance
restricted to five operations and two clock ticks (685 000 states).

The models are corrected where the proofs, or a comparison with the code, showed them to
differ:

- a second `createMarket` makes another account (`Keypair.generate()`) and leaves the
  market the commands follow alone;
- `refresh_obligation_farms_for_reserve` checks that the farm passed is the reserve's, and
  succeeds without one;
- a vault that is handed over to its own administrator gets a table that does not list
  them (section 6); the administrator of `VaultClient` no longer does this;
- the table that a lookup table instruction creates is written out as a function of the
  tables there were, and what filters or joins lists (`Kept`, `Without`, the rounds of an
  investment, the parts of a withdrawal) as `FlattenSeq` or a recursive function;
- a borrow adds the origination fee to the debt (`with_borrow_fee`), as `calculate_borrow`
  does; the rate of an estimate has the slot adjustment factor, and the basis points of a
  utilisation are rounded to the nearest;
- another device and a liquidator change a position by a part as well as by the whole of it;
- a new market's elevation groups admit 255 collaterals, and a group whose threshold or
  loan-to-value is 0 admits no reserve;
- some `CASE` expressions of `KlendChain`, `Estimates` and `CollateralOps` had arms that
  overlap. TLC takes the first that applies, TLA+ any; the order of the code's checks is
  now written out.

What recurs is written as a function (`Execute`, `Executed`) in the modules that are
proved about, since a `RECURSIVE` operator is out of the provers' reach.

## 5. What is only model-checked

- `estimates` and `leverage`: the properties compare exact fractions that are divided,
  rounded and raised to powers in both programs. They would need nonlinear arithmetic over
  sums and products of quotients, which the SMT backend does not settle, and induction over
  the number of slots.
- `vault`, but for the tables: `WithdrawPays`, `CrankSettles` and `OverviewAgrees` compare
  such fractions too, `CrankSettles` at the end of a loop (`Rounds`) that need not settle the
  allocation before its bound.
- `action`: `FreshBuildExecutes` says that a transaction goes through, so that every check of
  the program must be discharged for every list of positions, farms and groups, against nine
  named exclusions. `WrappedSolAccountedFor` holds only while the interest of the time
  between building and sending stays within the padding of a full repayment, which is a
  fact of the instance, not of every value of the constants. `LastRepayLeavesGroup` rests
  on the program refusing to refresh an obligation with other reserves than it has; its
  invariant would have to say of every old view which of its refreshes still succeed.
- `UpdateConverges` is liveness. Liveness under fairness, `ENABLED` and what recursive
  definitions compute are outside the prover's reach.

## 6. Findings and observations

### Finding

`refresh_obligation` can fail with "Cannot calculate referral amount due to slots
mismatch" although no slots mismatch. `accumulate_referrer_fees`
(`lending_operations.rs:1765`) subtracts the fixed part of a borrower's new
interest, computed directly, from the whole of it, computed through the cumulative
borrow rate, and reports the mismatch when the difference is negative. When the
variable rate is 0 (an all-zero curve is accepted) and the fixed rate is not, the
two are the same interest along two roundings. Run `referral` shows the state. As
repaying, withdrawing and liquidating need a refreshed obligation, they are blocked
in that slot; a later slot rounds differently and may succeed.

### Observations on the client

Met while translating the client; the models do what the code does. None is shown by a run
of its own, because no line of the repository promises otherwise or because the case is one
of the exclusions above.

Transaction builder (`classes/action.ts`):

- `buildDepositAndWithdrawV2Txns` always throws `Invalid action` (744, 3365-3410).
- Depositing and borrowing SOL prefunds the deposited amount (3321).
- `getTransactions` leaves the compute budget out (1157).
- The refresh after a full repayment skips a deposit in the same reserve (2507).
- Whether a repayment leaves the elevation group is decided by the debt as loaded (2499). If
  a liquidation or another device repays part of it in between, the last debt is repaid and
  the group stays; nothing fails. If a liquidation takes the last deposit, a repayment that
  asks to leave the group fails, since the program wants a deposit to be there.
- `buildRefreshObligationTxns` and `buildRequestElevationGroupTxns` throw for an obligation
  without deposits (319, 350).
- `withdrawReferrerFee` leaves the wrapped SOL account open.

Estimates:

- The client's interest is the program's at a slot duration of 500 ms only.
  `calculateBorrowRate` multiplies the rate of the curve by `slotAdjustmentFactor`,
  `1000 / SLOTS_PER_SECOND / recentSlotDurationMs` (`classes/reserve.ts:622`), and
  `compoundInterest` (914) compounds that rate over the elapsed slots. Its comment refers to
  the program's function, which compounds the rate of the curve without such a factor. At
  the repository's default of 450 ms (53) the factor is 10/9, and debt and supply are
  estimated as more than a refresh in the same slot makes them. At more than 500 ms they
  are estimated as less, and a debt is understated. The properties of `estimates` say what
  holds on either side.
- `getMaxBorrowAmountV2` allows for the fee only where the obligation's power is the limit,
  not where liquidity or a cap is (`classes/obligation.ts:1122`).
- The rate is read off the curve at the exact utilisation, the program looks its segment up
  in basis points, to the nearest.
- `KaminoObligation.getCumulativeBorrowRate` adds the limbs of the rate without shifting
  them (`classes/obligation.ts:1401`: the result of `shrn` is not used), and so is right
  only while the rate is below 16, the most that one limb holds.
- `getMaxWithdrawAmount` rounds the tokens down, and a withdrawal of them is turned into
  collateral rounded up (`classes/action.ts:3476`). `MaxWithdrawFits` rounds down; the one
  unit is less than a thousandth of the position from a thousand units on.
- `getSimulatedObligationStats` uses rates of the loaded slot and no borrow fee.

Leverage and collateral:

- Adjusting overshoots its target by the slippage and the flash loan fee.
- A deposit with a kToken uses the collateral's flash loan fee.
- The least amount out is compared without `toLamports` (`leverage/operations.ts`, about 721).
- `calcMaxWithdrawCollateral` looks at one debt only; fractional lamports make `BN` throw; a
  loan-to-value is compared as a string (`swap_collateral_operations.ts`, about 600).

Vaults (`classes/vault.ts`):

- A withdrawal across reserves passes tokens where shares are expected for every part but
  the last (1046-1050) and counts what is available twice (1028), so that less than
  everything is withdrawn although the comment at 885 allows any value above the user's
  shares.
- A hole in the first slot of the allocation makes withdrawals throw; a user who never
  staked cannot withdraw from a vault with a farm.
- Investing throws when the net holdings are at most one token (about 1602), mixes lamports
  and tokens when caps bind, and then may not end; when every weight has reached its cap, a
  reserve without a weight is given 0 / 0 (1607), which `AllotTo` leaves out.
- `accept-vault-ownership` of the command line does not send `initNewLUTIx`; a transfer of
  ownership that stops half way leaves the former administrator's lookup table.
- `acceptVaultOwnershipIxs` fills the new table with what the old one held but for the
  former administrator (600). When a vault is handed over to its own administrator, which
  the client does not refuse, the new table lacks them.
- `!vault.hasFarm()` is not awaited (875); `forEach(async ...)` is not waited for (1690);
  `getVaultHoldings` mixes milliseconds with seconds (about 2190).

Configuration:

- Reading and writing a reserve file puts `protocolLiquidationFeePct` into
  `protocolTakeRatePct`, which `README_KAMINO_MANAGER.md:76` does not say.
- A file with cap totals makes the difference throw, and the entire update resets them.
- `hostFixedInterestRateBps` is sent with no bytes; values above 2^53 throw;
  `minNetValueInObligationSf` is sent in the opposite byte order.
- One elevation group is sent per update; the margin call period is compared by reference.
- A market file that names an owner offers the market to that owner again after a handover.
- The difference cannot set up a fresh reserve: when the second transaction of `add-asset` is
  lost, only `--update-entire-config` recovers.
- `DefaultConfigParams` is shared, so that one described asset leaves its fields to the next.
- `--mode multisig` of the update commands throws, though `README_KAMINO_MANAGER.md:145`
  shows it.
- The comment at `utils/sendTransactionsUtils.ts:155` speaks of resending; a transaction is
  sent once, and an unconfirmed one counts as a success.

## 7. Not modelled

- Of the program: liquidation amounts and auto-deleverage clocks, price loading and price
  checks, obligation values in the program's own fractions (they are exact decimals in
  `Estimates`), the effect of changing group settings and limits under open positions, asset
  tiers, the interpolation of the rate curve in fractions, farm rewards, account
  initialisation for referrers, the protocol fee vault.
- Of the client: oracle readers (`utils/oracle.ts`, `pyth/`), loading and caching in bulk,
  printing, reward statistics, generated account and type decoders and error classes. They
  decode or format and decide nothing that a builder does not decide again.
- The vault and farms programs, the exchange and the lookup table program are not in the
  repository. `KvaultChain` and parts of `KlendChain` model what the client relies on; they
  are marked external.
- The Rust client is a command line over RPC and keeps no state.

`PROJECT.json` gives the reason for each.

## 8. Plan

1. More proofs of the client: that `KlendChain` never lets a stale reserve or obligation
   through (from the refresh checks), and `WrappedSolAccountedFor` for a padding that is
   assumed to cover the interest, from `CarriesOut` extended by the wrapped SOL account.
2. `Liquidation`: reasons, close factor, dust, bonus, marks and margin call clocks, using
   the limit-crossed timestamps of `Reserve`. Promise: no deleveraging before its margin
   call has run out, and a liquidation never leaves the obligation worse.
3. `Obligation`: values over several reserves in the program's fractions. Promise: no
   operation of the owner makes a healthy obligation liquidatable at unchanged prices.
4. `DebtTrackers`, extended: group settings and limits that change, the collateral swap as
   one action.
5. `BorrowRateCurve` and `Prices`: pure algorithms against reference definitions.
6. That `FlashLoan` discharges what `Reserve` assumes of flash loans.
