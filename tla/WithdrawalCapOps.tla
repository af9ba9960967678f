-------------------------- MODULE WithdrawalCapOps --------------------------
(***************************************************************************)
(* The rate limiter that guards a reserve: at most config_capacity units    *)
(* may flow out, net of what flows in, during one interval.  A reserve has  *)
(* two of them: deposit_withdrawal_cap (redeem adds, deposit removes) and   *)
(* debt_withdrawal_cap (borrow adds, repay removes).                        *)
(*                                                                         *)
(* Pure operators on a WithdrawalCaps record, translated from               *)
(* lending_market/withdrawal_cap_operations.rs.  A Rust function that       *)
(* returns Err aborts the whole transaction, so it becomes a guard          *)
(* (CapAllows) and the new record (CapAfter) that is used when it holds.    *)
(***************************************************************************)
EXTENDS Integers

CONSTANT I64Max   \* i64::MAX: the width of the counter, 2^63 - 1 in the code

ASSUME I64Assumption == I64Max \in Nat \ {0}

I64Min == -I64Max - 1
I64 == I64Min .. I64Max

WithdrawalCapsType ==
    [config_capacity : I64,
     current_total : I64,
     last_interval_start_timestamp : Nat,
     config_interval_length_seconds : Nat]

\* A cap that was never configured: the zeroed ReserveConfig of init_reserve.
NoCap == [config_capacity |-> 0, current_total |-> 0,
          last_interval_start_timestamp |-> 0,
          config_interval_length_seconds |-> 0]

Enabled(caps) == caps.config_interval_length_seconds # 0

\* Mutant: an interval that has just elapsed still counts as running.
LastIntervalElapsedStrict(caps, now) ==
    caps.config_interval_length_seconds
        < now - caps.last_interval_start_timestamp

\* check_last_interval_elapsed, once last_interval_start_timestamp <= now
LastIntervalElapsed(caps, now) ==
    caps.config_interval_length_seconds
        <= now - caps.last_interval_start_timestamp

\* Mutant: the new interval starts with the old interval's counter.
ResetIntervalOnly(caps, now) ==
    [caps EXCEPT !.last_interval_start_timestamp = now]

ResetIntervalAndCounter(caps, now) ==
    [caps EXCEPT !.current_total = 0, !.last_interval_start_timestamp = now]

RollInterval(caps, now) ==
    IF LastIntervalElapsed(caps, now)
    THEN ResetIntervalAndCounter(caps, now)
    ELSE caps

Signed(amount, action) == IF action = "Add" THEN amount ELSE -amount

\* Mutant: wrapping instead of saturating arithmetic while disabled.
UnboundedI64(n) == n

SaturateI64(n) == IF n > I64Max THEN I64Max ELSE IF n < I64Min THEN I64Min ELSE n

\* Mutant: the requested amount is left out of the comparison.
CapacityNotYetReached(caps, amount) ==
    /\ caps.config_capacity >= 0
    /\ caps.current_total <= caps.config_capacity

CapacityAllowsWithdrawals(caps, amount) ==
    /\ caps.config_capacity >= 0
    /\ caps.current_total + amount <= caps.config_capacity

\* The conditions under which check_and_update_withdrawal_caps returns Ok.
CapAllows(caps, amount, now, action) ==
    /\ amount <= I64Max
    /\ Enabled(caps) =>
         /\ caps.last_interval_start_timestamp <= now
         /\ LET rolled == RollInterval(caps, now) IN
              /\ action = "Add" => CapacityAllowsWithdrawals(rolled, amount)
              /\ rolled.current_total + Signed(amount, action) \in I64

\* The record check_and_update_withdrawal_caps leaves behind.
CapAfter(caps, amount, now, action) ==
    IF Enabled(caps)
    THEN LET rolled == RollInterval(caps, now)
         IN [rolled EXCEPT !.current_total = @ + Signed(amount, action)]
    ELSE [caps EXCEPT !.current_total = SaturateI64(@ + Signed(amount, action))]

=============================================================================
