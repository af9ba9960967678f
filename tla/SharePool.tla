----------------------------- MODULE SharePool ------------------------------
(***************************************************************************)
(* What a reserve promises its depositors, without any of its mechanics:    *)
(* `assets' is what belongs to them (total_supply()), `owed' the part of it *)
(* that is lent out, `shares' the collateral tokens in existence.  While    *)
(* the pool is open nobody can dilute the others: no operation lowers the   *)
(* assets behind one share.  Only a socialised loss does, by exactly the    *)
(* debt that is written off, and a loss of everything closes the pool.      *)
(***************************************************************************)
EXTENDS Integers

CONSTANTS
    Seed,       \* shares minted at creation that nobody holds
    SeedAssets  \* what they are worth then

VARIABLES assets, owed, shares, open

poolVars == <<assets, owed, shares, open>>

PoolInit ==
    /\ assets = SeedAssets
    /\ owed = 0
    /\ shares = Seed
    /\ open = TRUE

\* Deposits, redemptions, borrows, repayments, interest, fees.
Operate ==
    /\ open /\ open'
    /\ assets' > 0
    /\ shares' >= Seed
    /\ assets' * shares >= assets * shares'

\* A loss is shared by everybody; what is left, if anything, stays open.
Lose ==
    /\ open
    /\ owed' <= owed
    /\ assets - assets' = owed - owed'
    /\ shares' = shares
    /\ open' <=> assets' > 0

\* A closed pool mints and burns nothing and never opens again.
Closed ==
    /\ ~open /\ ~open'
    /\ shares' = shares

PoolNext == Operate \/ Lose \/ Closed

PoolSpec == PoolInit /\ [][PoolNext]_poolVars

=============================================================================
