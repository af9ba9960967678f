--------------------------- MODULE WithdrawalCaps ---------------------------
(***************************************************************************)
(* One withdrawal cap over time: users withdraw and supply, the clock moves *)
(* and the market owner reconfigures the cap at any moment, also in the     *)
(* middle of an interval (update_reserve_config).                           *)
(*                                                                         *)
(* `opening' and `net' are history variables: the counter's value when the  *)
(* current accounting period began (an interval rolled over or the owner    *)
(* rewrote the cap) and the tokens that really left, less those that came   *)
(* in, since then.  They are computed from the amounts moved and never from *)
(* current_total.                                                           *)
(***************************************************************************)
EXTENDS WithdrawalCapOps

CONSTANTS Amounts,     \* the u64 amounts users move
          Capacities,  \* the u64 capacities and totals the owner may write
          Lengths,     \* the interval lengths the owner may write, 0 = disabled
          MaxTime      \* bound: last unix timestamp explored

ASSUME CapsConstants ==
    /\ Amounts \subseteq Nat
    /\ Capacities \subseteq Nat
    /\ Lengths \subseteq Nat
    /\ MaxTime \in Nat

VARIABLES caps, now, opening, net

vars == <<caps, now, opening, net>>

TypeOK ==
    /\ caps \in WithdrawalCapsType
    /\ now \in Nat
    /\ opening \in I64
    /\ net \in Int

Init ==
    /\ caps = NoCap
    /\ now = 0
    /\ opening = 0
    /\ net = 0

\* One call of check_and_update_withdrawal_caps that succeeds.
Move(amount, action) ==
    /\ CapAllows(caps, amount, now, action)
    /\ caps' = CapAfter(caps, amount, now, action)
    /\ IF Enabled(caps)
       THEN IF LastIntervalElapsed(caps, now)
            THEN opening' = 0 /\ net' = Signed(amount, action)
            ELSE opening' = opening /\ net' = net + Signed(amount, action)
       ELSE opening' = caps'.current_total /\ net' = 0
    /\ UNCHANGED now

AddToWithdrawalAccum(amount) == Move(amount, "Add")
SubFromWithdrawalAccum(amount) == Move(amount, "Remove")

Rewrite(new) ==
    /\ caps' = new
    /\ opening' = new.current_total
    /\ net' = 0
    /\ UNCHANGED now

\* Modes UpdateDebtWithdrawalCap / UpdateDepositWithdrawalCap: neither the
\* counter nor the interval's start is touched.  The u64 must fit an i64.
UpdateWithdrawalCap(capacity, length) ==
    /\ capacity <= I64Max
    /\ Rewrite([caps EXCEPT !.config_capacity = capacity,
                            !.config_interval_length_seconds = length])

\* Modes Update{Debt,Deposit}WithdrawalCapCurrentTotal.
UpdateCurrentTotal(total) ==
    /\ total <= I64Max
    /\ Rewrite([caps EXCEPT !.current_total = total])

\* Mode UpdateEntireReserveConfig replaces the caps with the rest of the
\* config, running counters and the interval's start included.
UpdateEntireReserveConfig(capacity, length, total, start) ==
    /\ capacity <= I64Max /\ total <= I64Max
    /\ Rewrite([config_capacity |-> capacity, current_total |-> total,
                last_interval_start_timestamp |-> start,
                config_interval_length_seconds |-> length])

Tick == now < MaxTime /\ now' = now + 1 /\ UNCHANGED <<caps, opening, net>>

Next ==
    \/ Tick
    \/ \E a \in Amounts : AddToWithdrawalAccum(a) \/ SubFromWithdrawalAccum(a)
    \/ \E c \in Capacities, l \in Lengths : UpdateWithdrawalCap(c, l)
    \/ \E t \in Capacities : UpdateCurrentTotal(t)
    \/ \E c \in Capacities, l \in Lengths, t \in Capacities, s \in 0 .. MaxTime :
          UpdateEntireReserveConfig(c, l, t, s)

Spec == Init /\ [][Next]_vars
-----------------------------------------------------------------------------
\* While a cap is enabled its counter is exactly the net outflow of the
\* current interval on top of what the owner last wrote: no call is dropped,
\* counted twice or carried from one interval into the next
\* (check_and_update_withdrawal_caps, reset_current_interval_and_counter).
CounterIsNetOutflow ==
    Enabled(caps) => caps.current_total = opening + net

\* The promise of the cap: whatever the interleaving of withdrawals, supplies,
\* rollovers and reconfigurations, a withdrawal accepted by an enabled cap
\* leaves the net outflow of its interval within the configured capacity
\* (check_capacity_allows_withdrawals).
WithdrawalStep == \E a \in Amounts : a > 0 /\ AddToWithdrawalAccum(a)

OutflowWithinCapacity ==
    [][WithdrawalStep /\ Enabled(caps)
         => opening' + net' <= caps.config_capacity]_vars

\* An interval that is already used up does not block withdrawals for longer
\* than its length: from the moment it has elapsed any amount within a
\* configured capacity is accepted again, whatever the counter says
\* (check_last_interval_elapsed runs before the capacity check).
ElapsedIntervalAdmits ==
    \A a \in Amounts :
        (/\ Enabled(caps)
         /\ now >= caps.last_interval_start_timestamp
                     + caps.config_interval_length_seconds
         /\ a <= caps.config_capacity)
        => CapAllows(caps, a, now, "Add")

=============================================================================
