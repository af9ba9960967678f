---------------------------- MODULE MCFlashLoan -----------------------------
(* Two reserves; three account lists, two of them for the same reserve; every *)
(* transaction of up to MaxLen instructions.                                  *)
EXTENDS FlashLoan, SequencesExt

CONSTANTS r1, r2, a1, a2, b1, MaxLen

MCReserveAt == a1 :> r1 @@ a2 :> r1 @@ b1 :> r2

\* Fields that an instruction of its kind does not have are fixed.
Canonical(i) ==
    /\ i.kind # "flash_repay" => i.borrow_instruction_index = 0
    /\ i.kind = "none" => i.accounts = a1 /\ i.liquidity_amount = 1

MCTransactions ==
    BoundedSeq({i \in Instruction : Canonical(i)}, MaxLen) \ {<<>>}

=============================================================================
