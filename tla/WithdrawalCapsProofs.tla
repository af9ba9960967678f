------------------------ MODULE WithdrawalCapsProofs ------------------------
(***************************************************************************)
(* Proofs about WithdrawalCaps for every width of the counter, every set of *)
(* amounts, capacities and interval lengths and every clock.                *)
(***************************************************************************)
EXTENDS WithdrawalCaps, TLAPS

-----------------------------------------------------------------------------
(* The withdrawal-cap operators.                                             *)

\* The parts of TypeOK that the arithmetic needs, kept together so that the
\* provers see them without unfolding the record type at every step.
CapsTyped(c) ==
    /\ c \in WithdrawalCapsType
    /\ c.config_capacity \in Int /\ c.config_capacity <= I64Max
    /\ c.config_capacity >= I64Min
    /\ c.current_total \in Int /\ c.current_total <= I64Max
    /\ c.current_total >= I64Min
    /\ c.last_interval_start_timestamp \in Nat
    /\ c.config_interval_length_seconds \in Nat

\* Membership in WithdrawalCapsType spelled out field by field.
LEMMA CapsTypedIff ==
    ASSUME NEW c \in WithdrawalCapsType
    PROVE  CapsTyped(c)
BY I64Assumption DEF CapsTyped, WithdrawalCapsType, I64, I64Min

\* Rolling the interval over keeps a cap well typed and its configuration.
LEMMA RollIntervalType ==
    ASSUME NEW c \in WithdrawalCapsType, NEW t \in Nat
    PROVE  /\ RollInterval(c, t) \in WithdrawalCapsType
           /\ RollInterval(c, t).config_capacity = c.config_capacity
           /\ RollInterval(c, t).current_total =
                IF LastIntervalElapsed(c, t) THEN 0 ELSE c.current_total
<1>1. 0 \in I64
  BY I64Assumption DEF I64, I64Min
<1>2. CASE LastIntervalElapsed(c, t)
  BY <1>1, <1>2 DEF RollInterval, ResetIntervalAndCounter, WithdrawalCapsType
<1>3. CASE ~LastIntervalElapsed(c, t)
  BY <1>3 DEF RollInterval
<1> QED
  BY <1>2, <1>3

\* An accepted call of check_and_update_withdrawal_caps keeps the cap well
\* typed (no wrap-around in either mode) and, when the cap is enabled, moves
\* the counter of the rolled interval by exactly the signed amount.
LEMMA CapAfterType ==
    ASSUME NEW c \in WithdrawalCapsType, NEW t \in Nat, NEW a \in Nat,
           NEW action \in {"Add", "Remove"}, CapAllows(c, a, t, action)
    PROVE  /\ CapAfter(c, a, t, action) \in WithdrawalCapsType
           /\ Enabled(CapAfter(c, a, t, action)) = Enabled(c)
           /\ Enabled(c) =>
                CapAfter(c, a, t, action).current_total =
                   (IF LastIntervalElapsed(c, t) THEN 0 ELSE c.current_total)
                     + Signed(a, action)
<1>1. CASE Enabled(c)
  <2>1. RollInterval(c, t).current_total + Signed(a, action) \in I64
    BY <1>1 DEF CapAllows
  <2>2. RollInterval(c, t).config_interval_length_seconds
           = c.config_interval_length_seconds
    BY DEF RollInterval, ResetIntervalAndCounter, WithdrawalCapsType
  <2> QED
    BY <1>1, <2>1, <2>2, RollIntervalType
       DEF CapAfter, WithdrawalCapsType, Enabled
<1>2. CASE ~Enabled(c)
  <2>1. c.current_total \in Int /\ Signed(a, action) \in Int
    BY CapsTypedIff DEF CapsTyped, Signed
  <2>2. SaturateI64(c.current_total + Signed(a, action)) \in I64
    BY <2>1, I64Assumption DEF SaturateI64, I64, I64Min
  <2> QED
    BY <1>2, <2>2 DEF CapAfter, WithdrawalCapsType, Enabled
<1> QED
  BY <1>1, <1>2

-----------------------------------------------------------------------------
(* The theorems.                                                             *)

\* Type correctness: current_total never leaves the i64 range in any mode.
THEOREM TypeCorrect == Spec => []TypeOK
<1>1. Init => TypeOK
  BY I64Assumption DEF Init, TypeOK, NoCap, WithdrawalCapsType, I64, I64Min
<1>2. TypeOK /\ [Next]_vars => TypeOK'
  <2> SUFFICES ASSUME TypeOK, [Next]_vars PROVE TypeOK'
    OBVIOUS
  <2> USE CapsConstants, I64Assumption
  <2>1. ASSUME NEW a \in Amounts, NEW action \in {"Add", "Remove"},
               Move(a, action)
        PROVE TypeOK'
    <3>1. a \in Nat
      OBVIOUS
    <3>2. caps' \in WithdrawalCapsType
      BY <2>1, <3>1, CapAfterType DEF TypeOK, Move
    <3>3. Signed(a, action) \in Int
      BY <3>1 DEF Signed
    <3>4. opening' \in I64
      <4>1. opening' \in {0, opening, caps'.current_total}
        BY <2>1 DEF Move
      <4>2. 0 \in I64 /\ opening \in I64 /\ caps'.current_total \in I64
        BY <3>2, I64Assumption DEF TypeOK, WithdrawalCapsType, I64, I64Min
      <4> QED
        BY <4>1, <4>2
    <3>5. net' \in Int
      <4>1. net' \in {0, Signed(a, action), net + Signed(a, action)}
        BY <2>1 DEF Move
      <4> QED
        BY <4>1, <3>3 DEF TypeOK
    <3> QED
      BY <2>1, <3>2, <3>4, <3>5 DEF TypeOK, Move
  <2>2. ASSUME NEW new \in WithdrawalCapsType, Rewrite(new)
        PROVE TypeOK'
    BY <2>2 DEF TypeOK, Rewrite, WithdrawalCapsType
  <2>3. CASE Tick
    BY <2>3 DEF TypeOK, Tick
  <2>4. ASSUME NEW c \in Capacities, NEW l \in Lengths, UpdateWithdrawalCap(c, l)
        PROVE TypeOK'
    <3> DEFINE new == [caps EXCEPT !.config_capacity = c,
                                   !.config_interval_length_seconds = l]
    <3>1. c \in I64 /\ l \in Nat
      BY <2>4 DEF UpdateWithdrawalCap, I64, I64Min
    <3>2. new \in WithdrawalCapsType
      BY <3>1 DEF TypeOK, WithdrawalCapsType
    <3>3. Rewrite(new)
      BY <2>4 DEF UpdateWithdrawalCap
    <3> QED
      BY <2>2, <3>2, <3>3
  <2>5. ASSUME NEW t \in Capacities, UpdateCurrentTotal(t)
        PROVE TypeOK'
    BY <2>5, <2>2 DEF UpdateCurrentTotal, TypeOK, WithdrawalCapsType, I64, I64Min
  <2>6. ASSUME NEW c \in Capacities, NEW l \in Lengths, NEW t \in Capacities,
               NEW s \in 0 .. MaxTime, UpdateEntireReserveConfig(c, l, t, s)
        PROVE TypeOK'
    BY <2>6, <2>2
       DEF UpdateEntireReserveConfig, TypeOK, WithdrawalCapsType, I64, I64Min
  <2>7. CASE UNCHANGED vars
    BY <2>7 DEF TypeOK, vars
  <2> QED
    BY <2>1, <2>3, <2>4, <2>5, <2>6, <2>7
       DEF Next, AddToWithdrawalAccum, SubFromWithdrawalAccum
<1> QED
  BY <1>1, <1>2, PTL DEF Spec

\* The counter of an enabled cap is the real net outflow of its interval.
THEOREM CounterExact == Spec => []CounterIsNetOutflow
<1>1. Init => CounterIsNetOutflow
  BY DEF Init, CounterIsNetOutflow, NoCap, Enabled
<1>2. TypeOK /\ CounterIsNetOutflow /\ [Next]_vars => CounterIsNetOutflow'
  <2> SUFFICES ASSUME TypeOK, CounterIsNetOutflow, [Next]_vars
               PROVE CounterIsNetOutflow'
    OBVIOUS
  <2> USE CapsConstants
  <2>1. ASSUME NEW a \in Amounts, NEW action \in {"Add", "Remove"},
               Move(a, action)
        PROVE CounterIsNetOutflow'
    <3>1. a \in Nat /\ Signed(a, action) \in Int
      BY DEF Signed
    <3>2. /\ Enabled(caps') = Enabled(caps)
          /\ Enabled(caps) => caps'.current_total =
               (IF LastIntervalElapsed(caps, now) THEN 0 ELSE caps.current_total)
                 + Signed(a, action)
      BY <2>1, <3>1, CapAfterType DEF Move, TypeOK
    <3>3. opening \in Int /\ net \in Int /\ caps.current_total \in Int
      BY CapsTypedIff DEF TypeOK, CapsTyped, I64, I64Min
    <3>4. CASE ~Enabled(caps)
      BY <3>2, <3>4 DEF CounterIsNetOutflow
    <3>5. CASE Enabled(caps) /\ LastIntervalElapsed(caps, now)
      <4>1. opening' = 0 /\ net' = Signed(a, action)
        BY <2>1, <3>5 DEF Move
      <4> QED
        BY <3>1, <3>2, <3>5, <4>1 DEF CounterIsNetOutflow
    <3>6. CASE Enabled(caps) /\ ~LastIntervalElapsed(caps, now)
      <4>1. opening' = opening /\ net' = net + Signed(a, action)
        BY <2>1, <3>6 DEF Move
      <4> QED
        BY <3>1, <3>2, <3>3, <3>6, <4>1 DEF CounterIsNetOutflow
    <3> QED
      BY <3>4, <3>5, <3>6
  <2>2. ASSUME NEW new, new.current_total \in Int, Rewrite(new)
        PROVE CounterIsNetOutflow'
    BY <2>2 DEF CounterIsNetOutflow, Rewrite
  <2>3. CASE Tick
    BY <2>3 DEF CounterIsNetOutflow, Tick
  <2>4. ASSUME NEW c \in Capacities, NEW l \in Lengths, UpdateWithdrawalCap(c, l)
        PROVE CounterIsNetOutflow'
    <3> DEFINE new == [caps EXCEPT !.config_capacity = c,
                                   !.config_interval_length_seconds = l]
    <3>1. new.current_total = caps.current_total /\ caps.current_total \in Int
      BY CapsTypedIff DEF TypeOK, WithdrawalCapsType, CapsTyped
    <3>2. Rewrite(new)
      BY <2>4 DEF UpdateWithdrawalCap
    <3> QED
      BY <2>2, <3>1, <3>2
  <2>5. ASSUME NEW t \in Capacities, UpdateCurrentTotal(t)
        PROVE CounterIsNetOutflow'
    BY <2>5, <2>2 DEF UpdateCurrentTotal, TypeOK, WithdrawalCapsType
  <2>6. ASSUME NEW c \in Capacities, NEW l \in Lengths, NEW t \in Capacities,
               NEW s \in 0 .. MaxTime, UpdateEntireReserveConfig(c, l, t, s)
        PROVE CounterIsNetOutflow'
    BY <2>6, <2>2 DEF UpdateEntireReserveConfig
  <2>7. CASE UNCHANGED vars
    BY <2>7 DEF CounterIsNetOutflow, vars
  <2> QED
    BY <2>1, <2>3, <2>4, <2>5, <2>6, <2>7
       DEF Next, AddToWithdrawalAccum, SubFromWithdrawalAccum
<1> QED
  BY <1>1, <1>2, TypeCorrect, PTL DEF Spec

\* A withdrawal accepted by an enabled cap leaves the interval's net outflow
\* within the capacity, in every behaviour.
THEOREM CapHolds == Spec => OutflowWithinCapacity
<1>1. TypeOK /\ CounterIsNetOutflow /\ [Next]_vars
        => [WithdrawalStep /\ Enabled(caps)
              => opening' + net' <= caps.config_capacity]_vars
  <2> SUFFICES ASSUME TypeOK, CounterIsNetOutflow, Enabled(caps),
                      NEW a \in Amounts, AddToWithdrawalAccum(a)
               PROVE  opening' + net' <= caps.config_capacity
    BY DEF WithdrawalStep
  <2>1. a \in Nat /\ now \in Nat
    BY CapsConstants DEF TypeOK
  <2>2. CapacityAllowsWithdrawals(RollInterval(caps, now), a)
    BY DEF AddToWithdrawalAccum, Move, CapAllows
  <2>3. (IF LastIntervalElapsed(caps, now) THEN 0 ELSE caps.current_total) + a
           <= caps.config_capacity
    BY <2>1, <2>2, RollIntervalType DEF CapacityAllowsWithdrawals, TypeOK
  <2>4. opening \in Int /\ net \in Int /\ caps.current_total = opening + net
    BY DEF TypeOK, I64, I64Min, CounterIsNetOutflow
  <2> QED
    BY <2>1, <2>3, <2>4 DEF AddToWithdrawalAccum, Move, Signed
<1> QED
  BY <1>1, TypeCorrect, CounterExact, PTL DEF Spec, OutflowWithinCapacity

\* Once an interval has elapsed, a withdrawal within the capacity is admitted
\* whatever the counter held: it is started afresh before it is compared, the
\* clock is not behind the interval's start, and the new total fits an i64.
THEOREM ElapsedAlwaysAdmits == Spec => []ElapsedIntervalAdmits
<1>1. TypeOK => ElapsedIntervalAdmits
  <2> SUFFICES ASSUME TypeOK, NEW a \in Amounts, Enabled(caps),
                      now >= caps.last_interval_start_timestamp
                               + caps.config_interval_length_seconds,
                      a <= caps.config_capacity
               PROVE  CapAllows(caps, a, now, "Add")
    BY DEF ElapsedIntervalAdmits
  <2> DEFINE rolled == RollInterval(caps, now)
  <2>1. /\ a \in Nat /\ now \in Nat
        /\ caps.last_interval_start_timestamp \in Nat
        /\ caps.config_interval_length_seconds \in Nat
        /\ caps.config_capacity \in I64
    BY CapsConstants DEF TypeOK, WithdrawalCapsType
  <2>2. LastIntervalElapsed(caps, now) /\ caps.last_interval_start_timestamp <= now
    BY <2>1 DEF LastIntervalElapsed
  <2>3. rolled.current_total = 0 /\ rolled.config_capacity = caps.config_capacity
    BY <2>1, <2>2, RollIntervalType DEF TypeOK
  <2>4. a <= I64Max /\ a \in I64
    BY <2>1, I64Assumption DEF I64, I64Min
  <2>5. rolled.current_total + Signed(a, "Add") = a
    BY <2>1, <2>3 DEF Signed
  <2>6. CapacityAllowsWithdrawals(rolled, a)
    BY <2>1, <2>3, I64Assumption DEF CapacityAllowsWithdrawals, I64, I64Min
  <2> HIDE DEF rolled
  <2> QED
    BY <2>2, <2>4, <2>5, <2>6 DEF CapAllows, rolled
<1> QED
  BY <1>1, TypeCorrect, PTL

=============================================================================
