----------------------------- MODULE FlashLoan ------------------------------
(***************************************************************************)
(* Flash loans inside a transaction.  The program stores no record of an    *)
(* open flash loan: that it is paid back rests on flash_ixs.rs, where the   *)
(* borrow reads the instructions that FOLLOW it in the transaction and the  *)
(* repayment reads the one it CLAIMS to repay.  Other instructions run in   *)
(* between, other programs may call back into this one, and a failing       *)
(* instruction undoes the whole transaction.                                *)
(***************************************************************************)
EXTENDS Integers, Sequences

CONSTANTS
    Reserves,
    Accounts,       \* lists of accounts an instruction may be given
    ReserveAt,      \* [Accounts -> Reserves]: accounts[3] of such a list
    Amounts,        \* u64 amounts
    MaxIndex,       \* u8::MAX: the largest borrow_instruction_index
    Transactions    \* transactions that may be submitted

Programs == {"klend", "other"}
Kinds == {"flash_borrow", "flash_repay", "none"}

\* An instruction of another program may carry the same discriminator.
Instruction ==
    [program : Programs, kind : Kinds, accounts : Accounts, liquidity_amount : Amounts,
     borrow_instruction_index : 0 .. MaxIndex]

ASSUME FlashAssumption ==
    /\ ReserveAt \in [Accounts -> Reserves]
    /\ Amounts \subseteq Nat
    /\ MaxIndex \in Nat
    /\ Transactions \subseteq Seq(Instruction)

VARIABLES
    tx,       \* the instructions of the running transaction; <<>> if none
    current,  \* index of the instruction being executed
    owed,     \* [Reserves -> what flash loans have taken and not returned]
    saved     \* owed when the transaction began: what a failure restores

vars == <<tx, current, owed, saved>>

NoLoans == [r \in Reserves |-> 0]
Idle == tx = <<>>

TypeOK ==
    /\ tx \in Seq(Instruction)
    /\ current \in 0 .. Len(tx)
    /\ owed \in [Reserves -> Nat]
    /\ saved \in [Reserves -> Nat]

Init == tx = <<>> /\ current = 0 /\ owed = NoLoans /\ saved = NoLoans

\* Instructions are numbered from 0, sequences from 1.
At(i) == tx[i + 1]
LastIndex == Len(tx) - 1
Ours(i, kind) == At(i).program = "klend" /\ At(i).kind = kind

\* is_flash_forbidden_cpi_call: not below another program, not below itself
FlashForbiddenCpiCall(height) == At(current).program # "klend" \/ height > 1

\* flash_borrow_check_matching_repay: the same amount, the index of the borrow
\* and the same accounts, one by one
MatchingRepay(liquidity_amount, i, j) ==
    /\ At(j).liquidity_amount = liquidity_amount
    /\ At(j).borrow_instruction_index = i
    /\ At(j).accounts = At(i).accounts

RepaysAfter(i) == {j \in i + 1 .. LastIndex : Ours(j, "flash_repay")}

\* Mutant: a second repayment of the same loan is let through.
FlashBorrowChecksAnyRepays(liquidity_amount, height) ==
    /\ ~FlashForbiddenCpiCall(height)
    /\ \A j \in current + 1 .. LastIndex : ~Ours(j, "flash_borrow")
    /\ RepaysAfter(current) # {}
    /\ \A j \in RepaysAfter(current) : MatchingRepay(liquidity_amount, current, j)

\* Mutant: the loop ends without asking whether it met a repayment.
FlashBorrowChecksNoneFound(liquidity_amount, height) ==
    /\ ~FlashForbiddenCpiCall(height)
    /\ \A j \in current + 1 .. LastIndex : ~Ours(j, "flash_borrow")
    /\ \A j, k \in RepaysAfter(current) : j = k
    /\ \A j \in RepaysAfter(current) : MatchingRepay(liquidity_amount, current, j)

\* flash_borrow_checks_internal: no other borrow follows, exactly one
\* repayment does, and it matches
FlashBorrowChecks(liquidity_amount, height) ==
    /\ ~FlashForbiddenCpiCall(height)
    /\ \A j \in current + 1 .. LastIndex : ~Ours(j, "flash_borrow")
    /\ RepaysAfter(current) # {}
    /\ \A j, k \in RepaysAfter(current) : j = k
    /\ \A j \in RepaysAfter(current) : MatchingRepay(liquidity_amount, current, j)

\* flash_repay_checks: the instruction at the given index, not a later one, is
\* this program's flash borrow of that amount from that reserve
FlashRepayChecks(call, height) ==
    LET i == call.borrow_instruction_index
    IN /\ ~FlashForbiddenCpiCall(height)
       /\ i <= current
       /\ Ours(i, "flash_borrow")
       /\ ReserveAt[At(i).accounts] = ReserveAt[call.accounts]
       /\ call.liquidity_amount = At(i).liquidity_amount

\* What may be executed now: the current instruction of the transaction, or,
\* through a call from it, any instruction of this program at all.
Executable(call, height) ==
    /\ ~Idle /\ current <= LastIndex
    /\ call.program = "klend"
    /\ height = 1 => call = At(current)

Advance(height) == current' = IF height = 1 THEN current + 1 ELSE current

FlashBorrowReserveLiquidity(call, height) ==
    /\ Executable(call, height)
    /\ call.kind = "flash_borrow"
    /\ FlashBorrowChecks(call.liquidity_amount, height)
    /\ owed' = [owed EXCEPT ![ReserveAt[call.accounts]] = @ + call.liquidity_amount]
    /\ Advance(height)
    /\ UNCHANGED <<tx, saved>>

FlashRepayReserveLiquidity(call, height) ==
    /\ Executable(call, height)
    /\ call.kind = "flash_repay"
    /\ FlashRepayChecks(call, height)
    /\ owed' = [owed EXCEPT ![ReserveAt[call.accounts]] = @ - call.liquidity_amount]
    /\ Advance(height)
    /\ UNCHANGED <<tx, saved>>

\* Any other instruction, of this program or another one.
OtherInstruction ==
    /\ ~Idle /\ current <= LastIndex
    /\ ~Ours(current, "flash_borrow") /\ ~Ours(current, "flash_repay")
    /\ Advance(1)
    /\ UNCHANGED <<tx, owed, saved>>

\* The runtime: transactions run one after the other and take effect as a whole.
Begin(t) ==
    /\ tx' = t /\ current' = 0 /\ saved' = owed
    /\ UNCHANGED owed

Commit ==
    /\ ~Idle /\ current > LastIndex
    /\ tx' = <<>> /\ current' = 0
    /\ UNCHANGED <<owed, saved>>

\* An instruction fails: a check of this module, a lack of funds, anything.
Revert ==
    /\ ~Idle /\ current <= LastIndex
    /\ tx' = <<>> /\ current' = 0 /\ owed' = saved
    /\ UNCHANGED saved

Next ==
    \/ Idle /\ \E t \in Transactions : Begin(t)
    \/ \E call \in Instruction, height \in 1 .. 2 :
          \/ FlashBorrowReserveLiquidity(call, height)
          \/ FlashRepayReserveLiquidity(call, height)
    \/ OtherInstruction
    \/ Commit
    \/ Revert

Spec == Init /\ [][Next]_vars
-----------------------------------------------------------------------------
(* Properties.                                                              *)

\* Between transactions nothing is owed: a committed transaction has returned
\* every flash loan it took, whatever else it and other programs did.
NoLoanOutlivesItsTransaction == Idle => owed = NoLoans

\* What Reserve takes for granted of flash loans: one is taken only while none
\* is open, and a repayment returns exactly the open one, once.
LoansNeverOverlap ==
    [][\A r \in Reserves :
         /\ owed'[r] > owed[r] => owed = NoLoans
         /\ owed'[r] < owed[r] => owed' = NoLoans /\ owed[r] > 0]_vars

=============================================================================
