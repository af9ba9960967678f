----------------------------- MODULE MCReserve ------------------------------
(* Model-checking instances of Reserve.                                      *)
EXTENDS Reserve

CONSTANTS o1, o2, r1

\* The first borrower was referred, the others were not.
MCReferrerOf == [o \in Obligations |-> IF o = o1 THEN r1 ELSE NoReferrer]

\* One token net may leave per two slots.
MCSmallCap == [config_capacity |-> 1, current_total |-> 0,
               last_interval_start_timestamp |-> 1,
               config_interval_length_seconds |-> 2]

MCNoCap == NoCap

=============================================================================
