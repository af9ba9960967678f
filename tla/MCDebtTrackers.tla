--------------------------- MODULE MCDebtTrackers ---------------------------
(***************************************************************************)
(* Two obligations and three reserves.  Group g1 lends `usd' against `sol'  *)
(* and `lst'; `lst' is collateral only inside a group.  A token is two sf,  *)
(* so that a debt of an odd number of sf is counted rounded up.             *)
(***************************************************************************)
EXTENDS DebtTrackers, TLC

CONSTANTS usd, sol, lst, g1, g2

MCReserves == {usd, sol, lst}
MCDebtReserve == [g \in Groups |-> usd]
MCMembers == [g \in Groups |-> IF g = g1 THEN {usd, sol, lst} ELSE {usd, sol}]
MCMaxCollaterals == [g \in Groups |-> IF g = g1 THEN 2 ELSE 1]
MCGroupLimit == [r \in Reserves |-> [g \in Groups |-> IF r = sol THEN 3 ELSE 2]]
MCOutsideLimit == [r \in Reserves |-> IF r = usd THEN 2 ELSE 0]

Symmetry == Permutations(Obligations)

=============================================================================
