----------------------------- MODULE LastUpdate -----------------------------
(***************************************************************************)
(* The freshness stamp of a reserve or an obligation, state/last_update.rs. *)
(* Price status flags are abstracted to the strongest check they pass:      *)
(*   0  not all of PRICE_LOADED, PRICE_AGE_CHECKED, PRICE_USAGE_ALLOWED,    *)
(*   1  LIQUIDATION_CHECKS (those three),                                   *)
(*   2  ALL_CHECKS.                                                         *)
(* The intersection of two flag sets passes exactly the smaller level.      *)
(***************************************************************************)
EXTENDS Integers

PriceLevel == 0 .. 2
NONE == 0
LIQUIDATION_CHECKS == 1
ALL_CHECKS == 2

STALE_AFTER_SLOTS_ELAPSED == 1

LastUpdateType == [slot : Nat, stale : BOOLEAN, price_status : PriceLevel]

NewLastUpdate(slot) == [slot |-> slot, stale |-> TRUE, price_status |-> 0]

\* update_slot(slot, Some(price_status)); passing the old level is the None case
UpdateSlot(slot, price_status) ==
    [slot |-> slot, stale |-> FALSE, price_status |-> price_status]

\* Mutant: the operation forgets to mark the account stale.
LeaveFresh(lu) == lu

MarkStale(lu) == [lu EXCEPT !.stale = TRUE]

\* Mutant: the slot after a refresh still counts as refreshed.
IsStaleOneSlotLate(lu, slot, min_price_status) ==
    \/ lu.stale
    \/ slot - lu.slot > STALE_AFTER_SLOTS_ELAPSED
    \/ lu.price_status < min_price_status

IsStale(lu, slot, min_price_status) ==
    \/ lu.stale
    \/ slot - lu.slot >= STALE_AFTER_SLOTS_ELAPSED
    \/ lu.price_status < min_price_status

=============================================================================
