\* i64::MAX is scaled down to 4 so that saturation and overflow are reached.
CONSTANTS
    I64Max = 4
    Amounts = {0, 1, 3, 5}
    Capacities = {0, 2, 4}
    Lengths = {0, 1, 2}
    MaxTime = 4
SPECIFICATION Spec
INVARIANTS TypeOK CounterIsNetOutflow ElapsedIntervalAdmits
PROPERTY OutflowWithinCapacity
