-------------------------- MODULE FlashLoanProofs ---------------------------
(***************************************************************************)
(* Flash loans are returned within their transaction, for transactions of   *)
(* any length, any reserves, account lists and amounts.                     *)
(***************************************************************************)
EXTENDS FlashLoan, TLAPS

-----------------------------------------------------------------------------
(* The inductive invariant: the program keeps no record of an open loan, so  *)
(* the record is read off the instructions already executed.                 *)

\* What the checks of a flash borrow at index i have established.
Checked(i) ==
    /\ \A j \in i + 1 .. LastIndex : ~Ours(j, "flash_borrow")
    /\ RepaysAfter(i) # {}
    /\ \A j, k \in RepaysAfter(i) : j = k
    /\ \A j \in RepaysAfter(i) : MatchingRepay(At(i).liquidity_amount, i, j)

LoanOf(i) ==
    [NoLoans EXCEPT ![ReserveAt[At(i).accounts]] = At(i).liquidity_amount]

\* The flash borrows executed so far in the running transaction.
Lent == {i \in 0 .. current - 1 : Ours(i, "flash_borrow")}

\* The loan is open until the one repayment that matches it has been executed.
Ledger ==
    /\ \A i \in Lent : Checked(i)
    /\ \A i \in Lent : \A j \in RepaysAfter(i) :
          owed = IF j >= current THEN LoanOf(i) ELSE NoLoans
    /\ Lent = {} => owed = NoLoans

FInv ==
    /\ tx \in Seq(Instruction)
    /\ current \in 0 .. Len(tx)
    /\ owed \in [Reserves -> Nat]
    /\ saved = NoLoans
    /\ Ledger

\* Every index of the transaction holds an instruction.
LEMMA AtType ==
    ASSUME tx \in Seq(Instruction), NEW i \in 0 .. LastIndex
    PROVE  /\ At(i) \in Instruction
           /\ ReserveAt[At(i).accounts] \in Reserves
           /\ At(i).liquidity_amount \in Nat
           /\ LoanOf(i) \in [Reserves -> Nat]
<1>1. i + 1 \in 1 .. Len(tx)
  BY DEF LastIndex
<1>2. At(i) \in Instruction
  BY <1>1 DEF At
<1>3. ReserveAt[At(i).accounts] \in Reserves /\ At(i).liquidity_amount \in Nat
  BY <1>2, FlashAssumption DEF Instruction
<1> QED
  BY <1>2, <1>3 DEF LoanOf, NoLoans

\* No loan is open when no transaction runs.
LEMMA IdleOwesNothing ==
    ASSUME FInv, Idle
    PROVE  owed = NoLoans
<1>1. current = 0
  BY DEF FInv, Idle
<1>2. Lent = {}
  BY <1>1 DEF Lent
<1> QED
  BY <1>2 DEF FInv, Ledger

\* What is read off the transaction does not change while it runs.
LEMMA SameTransaction ==
    ASSUME tx' = tx, NEW i
    PROVE  /\ At(i)' = At(i)
           /\ RepaysAfter(i)' = RepaysAfter(i)
           /\ Checked(i)' <=> Checked(i)
           /\ LoanOf(i)' = LoanOf(i)
           /\ \A k : Ours(i, k)' <=> Ours(i, k)
<1>1. LastIndex' = LastIndex /\ NoLoans' = NoLoans
  BY DEF LastIndex, NoLoans
<1>2. \A j : At(j)' = At(j)
  BY DEF At
<1>3. \A j, k : Ours(j, k)' <=> Ours(j, k)
  BY <1>2 DEF Ours
<1>4. RepaysAfter(i)' = RepaysAfter(i)
  BY <1>1, <1>3 DEF RepaysAfter
<1>5. Checked(i)' <=> Checked(i)
  BY <1>1, <1>2, <1>3, <1>4 DEF Checked, MatchingRepay
<1> QED
  BY <1>1, <1>2, <1>3, <1>4, <1>5 DEF LoanOf

\* A flash borrow is only executed while no loan is open.
LEMMA BorrowStep ==
    ASSUME FInv, NEW call \in Instruction, NEW height \in 1 .. 2,
           FlashBorrowReserveLiquidity(call, height)
    PROVE  FInv' /\ owed = NoLoans
<1>1. PICK c \in Nat : c = current
  BY DEF FInv
<1>2. /\ height = 1
      /\ c \in 0 .. LastIndex /\ call = At(c) /\ Ours(c, "flash_borrow")
      /\ tx' = tx /\ saved' = saved /\ current' = c + 1
      /\ owed' = [owed EXCEPT ![ReserveAt[call.accounts]] = @ + call.liquidity_amount]
  BY <1>1 DEF FlashBorrowReserveLiquidity, FlashBorrowChecks, FlashForbiddenCpiCall,
         Executable, Advance, Ours, FInv, LastIndex
<1>3. Checked(c)
  BY <1>1, <1>2 DEF FlashBorrowReserveLiquidity, FlashBorrowChecks, Checked
<1>4. Lent = {}
  <2> SUFFICES ASSUME NEW i \in Lent PROVE FALSE
    OBVIOUS
  <2>1. i \in 0 .. c - 1 /\ c \in i + 1 .. LastIndex
    BY <1>1, <1>2 DEF Lent, FInv, LastIndex
  <2> QED
    BY <1>2, <2>1 DEF FInv, Ledger, Checked
<1>5. owed = NoLoans
  BY <1>4 DEF FInv, Ledger
<1>6. owed' = LoanOf(c) /\ LoanOf(c) \in [Reserves -> Nat]
  <2>1. LoanOf(c) \in [Reserves -> Nat] /\ ReserveAt[At(c).accounts] \in Reserves
        /\ At(c).liquidity_amount \in Nat
    BY <1>2, AtType DEF FInv
  <2> DEFINE r == ReserveAt[At(c).accounts]
             a == At(c).liquidity_amount
  <2>2. owed' = [NoLoans EXCEPT ![r] = NoLoans[r] + a]
    BY <1>2, <1>5
  <2>3. NoLoans[r] + a = a
    BY <2>1 DEF NoLoans
  <2> QED
    BY <2>1, <2>2, <2>3 DEF LoanOf
<1>7. Lent' = {c}
  <2>1. \A i \in 0 .. c - 1 : ~Ours(i, "flash_borrow")
    BY <1>1, <1>4 DEF Lent
  <2>2. Lent' = {i \in 0 .. c : Ours(i, "flash_borrow")}
    BY <1>2, SameTransaction DEF Lent
  <2> QED
    BY <1>2, <2>1, <2>2
<1>8. RepaysAfter(c)' = RepaysAfter(c) /\ Checked(c)' /\ LoanOf(c)' = LoanOf(c)
  BY <1>2, <1>3, SameTransaction
<1>9. \A j \in RepaysAfter(c) : j >= c + 1
  BY <1>2 DEF RepaysAfter, LastIndex, FInv
<1>10. Ledger'
  BY <1>2, <1>6, <1>7, <1>8, <1>9 DEF Ledger
<1>11. current' \in 0 .. Len(tx)
  BY <1>2 DEF LastIndex, FInv
<1> QED
  BY <1>2, <1>5, <1>6, <1>10, <1>11 DEF FInv

\* A repayment is the one that the open loan was checked against.
LEMMA RepayStep ==
    ASSUME FInv, NEW call \in Instruction, NEW height \in 1 .. 2,
           FlashRepayReserveLiquidity(call, height)
    PROVE  FInv' /\ owed' = NoLoans
<1>1. PICK c \in Nat : c = current
  BY DEF FInv
<1>2. PICK i \in Nat : i = call.borrow_instruction_index
  BY FlashAssumption DEF Instruction
<1>3. /\ height = 1
      /\ c \in 0 .. LastIndex /\ call = At(c) /\ Ours(c, "flash_repay")
      /\ tx' = tx /\ saved' = saved /\ current' = c + 1
      /\ owed' = [owed EXCEPT ![ReserveAt[call.accounts]] = @ - call.liquidity_amount]
      /\ i <= c /\ Ours(i, "flash_borrow")
  BY <1>1, <1>2 DEF FlashRepayReserveLiquidity, FlashRepayChecks,
     FlashForbiddenCpiCall, Executable, Advance, Ours, FInv, LastIndex
<1>4. i # c
  BY <1>3 DEF Ours
<1>5. i \in Lent
  BY <1>1, <1>3, <1>4 DEF Lent
<1>6. c \in RepaysAfter(i)
  BY <1>3, <1>4 DEF RepaysAfter, LastIndex, FInv
<1>7. Checked(i) /\ owed = LoanOf(i)
  BY <1>1, <1>5, <1>6 DEF FInv, Ledger
<1>8. At(c).accounts = At(i).accounts /\ At(c).liquidity_amount = At(i).liquidity_amount
  BY <1>6, <1>7 DEF Checked, MatchingRepay
<1>9. owed' = NoLoans
  <2>1. ReserveAt[At(i).accounts] \in Reserves /\ At(i).liquidity_amount \in Nat
    <3>1. i \in 0 .. LastIndex
      BY <1>3 DEF LastIndex, FInv
    <3> QED
      BY <3>1, AtType DEF FInv
  <2> QED
    BY <1>3, <1>7, <1>8, <2>1 DEF LoanOf, NoLoans
<1>10. Lent' = Lent
  <2>1. ~Ours(c, "flash_borrow")
    BY <1>3 DEF Ours
  <2>2. Lent' = {k \in 0 .. c : Ours(k, "flash_borrow")}
    BY <1>3, SameTransaction DEF Lent
  <2> QED
    BY <1>1, <2>1, <2>2 DEF Lent
<1>11. \A k \in Lent : k = i
  <2> SUFFICES ASSUME NEW k \in Lent, k # i PROVE FALSE
    OBVIOUS
  <2>1. k \in 0 .. LastIndex /\ i \in 0 .. LastIndex
        /\ Ours(k, "flash_borrow") /\ Checked(k)
    BY <1>1, <1>3, <1>5 DEF Lent, FInv, Ledger, LastIndex
  <2>2. k \in i + 1 .. LastIndex \/ i \in k + 1 .. LastIndex
    BY <2>1 DEF LastIndex, FInv
  <2> QED
    BY <1>3, <1>7, <2>1, <2>2 DEF Checked
<1>12. RepaysAfter(i)' = RepaysAfter(i) /\ Checked(i)'
  BY <1>3, <1>7, SameTransaction
<1>13. \A j \in RepaysAfter(i) : ~(j >= c + 1)
  <2>1. \A j \in RepaysAfter(i) : j = c
    BY <1>6, <1>7 DEF Checked
  <2> QED
    BY <2>1
<1>14. NoLoans' = NoLoans
  BY DEF NoLoans
<1>15. Ledger'
  BY <1>3, <1>5, <1>9, <1>10, <1>11, <1>12, <1>13, <1>14 DEF Ledger
<1>16. current' \in 0 .. Len(tx)
  BY <1>3 DEF LastIndex, FInv
<1>17. NoLoans \in [Reserves -> Nat]
  BY DEF NoLoans
<1> QED
  BY <1>3, <1>9, <1>15, <1>16, <1>17 DEF FInv

\* Instructions in between change neither the loan nor its repayment.
LEMMA OtherStep ==
    ASSUME FInv, OtherInstruction
    PROVE  FInv' /\ owed' = owed
<1>1. PICK c \in Nat : c = current
  BY DEF FInv
<1>2. /\ c \in 0 .. LastIndex /\ tx' = tx /\ saved' = saved /\ current' = c + 1
      /\ owed' = owed
      /\ ~Ours(c, "flash_borrow") /\ ~Ours(c, "flash_repay")
  BY <1>1 DEF OtherInstruction, Advance, FInv, LastIndex
<1>3. Lent' = Lent
  <2>1. Lent' = {k \in 0 .. c : Ours(k, "flash_borrow")}
    BY <1>2, SameTransaction DEF Lent
  <2> QED
    BY <1>1, <1>2, <2>1 DEF Lent
<1>4. ASSUME NEW i \in Lent, NEW j \in RepaysAfter(i)
      PROVE  j >= c <=> j >= c + 1
  <2>1. j \in Int /\ j # c
    BY <1>2 DEF RepaysAfter
  <2> QED
    BY <2>1
<1>5. \A i : /\ RepaysAfter(i)' = RepaysAfter(i) /\ (Checked(i)' <=> Checked(i))
             /\ LoanOf(i)' = LoanOf(i)
  BY <1>2, SameTransaction
<1>6. NoLoans' = NoLoans
  BY DEF NoLoans
<1>7. Ledger'
  <2>1. \A i \in Lent' : Checked(i)'
    BY <1>3, <1>5 DEF FInv, Ledger
  <2>2. ASSUME NEW i \in Lent', NEW j \in RepaysAfter(i)'
        PROVE  owed' = IF j >= current' THEN LoanOf(i)' ELSE NoLoans'
    <3>1. i \in Lent /\ j \in RepaysAfter(i)
      BY <1>3, <1>5
    <3>2. owed = IF j >= c THEN LoanOf(i) ELSE NoLoans
      BY <1>1, <3>1 DEF FInv, Ledger
    <3>3. j >= c <=> j >= c + 1
      BY <1>4, <3>1
    <3> QED
      BY <1>2, <1>5, <1>6, <3>2, <3>3
  <2>3. Lent' = {} => owed' = NoLoans'
    BY <1>2, <1>3, <1>6 DEF FInv, Ledger
  <2> QED
    BY <2>1, <2>2, <2>3 DEF Ledger
<1>8. current' \in 0 .. Len(tx)
  BY <1>2 DEF LastIndex, FInv
<1> QED
  BY <1>2, <1>7, <1>8 DEF FInv

\* The end of a transaction: the matching repayment has been executed.
LEMMA CommitStep ==
    ASSUME FInv, Commit
    PROVE  owed = NoLoans
<1>1. current > LastIndex
  BY DEF Commit
<1>2. CASE Lent = {}
  BY <1>2 DEF FInv, Ledger
<1>3. CASE Lent # {}
  <2>1. PICK i \in Lent : TRUE
    BY <1>3
  <2>2. PICK j \in RepaysAfter(i) : TRUE
    BY <2>1 DEF FInv, Ledger, Checked
  <2>3. ~(j >= current)
    BY <1>1, <2>2 DEF RepaysAfter, FInv, LastIndex
  <2> QED
    BY <2>1, <2>2, <2>3 DEF FInv, Ledger
<1> QED
  BY <1>2, <1>3

\* Beginning and ending a transaction starts a clean ledger.
LEMMA CleanLedger ==
    ASSUME current' = 0, owed' = NoLoans
    PROVE  Ledger'
<1>1. Lent' = {} /\ NoLoans' = NoLoans
  BY DEF Lent, NoLoans
<1> QED
  BY <1>1 DEF Ledger

\* The invariant is inductive and every step respects one loan at a time.
LEMMA NextStep ==
    ASSUME FInv, [Next]_vars
    PROVE  /\ FInv'
           /\ \A r \in Reserves :
                 /\ owed'[r] > owed[r] => owed = NoLoans
                 /\ owed'[r] < owed[r] => owed' = NoLoans /\ owed[r] > 0
<1> DEFINE OneLoan == \A r \in Reserves :
                 /\ owed'[r] > owed[r] => owed = NoLoans
                 /\ owed'[r] < owed[r] => owed' = NoLoans /\ owed[r] > 0
<1>1. owed \in [Reserves -> Nat] /\ NoLoans \in [Reserves -> Nat]
      /\ \A r \in Reserves : NoLoans[r] = 0
  BY DEF FInv, NoLoans
<1>2. ASSUME NEW t \in Transactions, Idle, Begin(t)
      PROVE  FInv' /\ OneLoan
  <2>1. /\ tx' \in Seq(Instruction) /\ current' = 0 /\ saved' = owed /\ owed' = owed
        /\ owed = NoLoans
    BY <1>2, FlashAssumption, IdleOwesNothing DEF Begin
  <2>2. current' \in 0 .. Len(tx') /\ Ledger' /\ NoLoans' = NoLoans
    BY <2>1, CleanLedger DEF NoLoans
  <2> QED
    BY <1>1, <2>1, <2>2 DEF FInv
<1>3. ASSUME NEW call \in Instruction, NEW height \in 1 .. 2,
             FlashBorrowReserveLiquidity(call, height)
      PROVE  FInv' /\ OneLoan
  <2>1. FInv' /\ owed = NoLoans
    BY <1>3, BorrowStep
  <2>2. \A r \in Reserves : owed'[r] >= 0 /\ owed'[r] \in Nat
    BY <2>1 DEF FInv
  <2> QED
    BY <1>1, <2>1, <2>2
<1>4. ASSUME NEW call \in Instruction, NEW height \in 1 .. 2,
             FlashRepayReserveLiquidity(call, height)
      PROVE  FInv' /\ OneLoan
  <2>1. FInv' /\ owed' = NoLoans
    BY <1>4, RepayStep
  <2> QED
    BY <1>1, <2>1
<1>5. ASSUME OtherInstruction PROVE FInv' /\ OneLoan
  BY <1>1, <1>5, OtherStep
<1>6. ASSUME Commit PROVE FInv' /\ OneLoan
  <2>1. /\ tx' = <<>> /\ current' = 0 /\ saved' = saved /\ owed' = owed
        /\ owed = NoLoans
    BY <1>6, CommitStep DEF Commit
  <2>2. /\ tx' \in Seq(Instruction) /\ current' \in 0 .. Len(tx')
        /\ Ledger' /\ NoLoans' = NoLoans
    BY <2>1, CleanLedger DEF NoLoans
  <2> QED
    BY <1>1, <2>1, <2>2 DEF FInv
<1>7. ASSUME Revert PROVE FInv' /\ OneLoan
  <2>1. /\ tx' = <<>> /\ current' = 0 /\ saved' = saved /\ owed' = NoLoans
    BY <1>7 DEF Revert, FInv
  <2>2. /\ tx' \in Seq(Instruction) /\ current' \in 0 .. Len(tx')
        /\ Ledger' /\ NoLoans' = NoLoans
    BY <2>1, CleanLedger DEF NoLoans
  <2>3. FInv'
    BY <1>1, <2>1, <2>2 DEF FInv
  <2> QED
    BY <1>1, <2>1, <2>3
<1>8. ASSUME UNCHANGED vars PROVE FInv' /\ OneLoan
  <2>1. tx' = tx /\ current' = current /\ owed' = owed /\ saved' = saved
        /\ NoLoans' = NoLoans
    BY <1>8 DEF vars, NoLoans
  <2>2. Lent' = Lent
    BY <2>1, SameTransaction DEF Lent
  <2>3. \A i : /\ RepaysAfter(i)' = RepaysAfter(i) /\ (Checked(i)' <=> Checked(i))
               /\ LoanOf(i)' = LoanOf(i)
    BY <2>1, SameTransaction
  <2>4. Ledger'
    BY <2>1, <2>2, <2>3 DEF FInv, Ledger
  <2> QED
    BY <1>1, <2>1, <2>4 DEF FInv
<1> QED
  BY <1>2, <1>3, <1>4, <1>5, <1>6, <1>7, <1>8 DEF Next

-----------------------------------------------------------------------------
(* The theorems.                                                             *)

\* The ledger read off the instructions is right in every reachable state.
THEOREM Inductive == Spec => []FInv
<1>1. Init => FInv
  <2> SUFFICES ASSUME Init PROVE FInv
    OBVIOUS
  <2>1. Lent = {} /\ NoLoans \in [Reserves -> Nat]
    BY DEF Init, Lent, NoLoans
  <2> QED
    BY <2>1 DEF Init, FInv, Ledger
<1>2. FInv /\ [Next]_vars => FInv'
  BY NextStep
<1> QED
  BY <1>1, <1>2, PTL DEF Spec

\* Every variable keeps its type and the index never leaves the transaction.
THEOREM TypeCorrect == Spec => []TypeOK
<1>1. FInv => TypeOK
  BY DEF FInv, TypeOK, NoLoans
<1> QED
  BY <1>1, Inductive, PTL

\* A committed transaction has returned every flash loan it took.
THEOREM LoansEndWithTheirTransaction == Spec => []NoLoanOutlivesItsTransaction
<1>1. FInv => NoLoanOutlivesItsTransaction
  BY IdleOwesNothing DEF NoLoanOutlivesItsTransaction
<1> QED
  BY <1>1, Inductive, PTL

\* One loan at a time, returned in full and once: what Reserve assumes.
THEOREM OneLoanAtATime == Spec => LoansNeverOverlap
<1>1. FInv /\ [Next]_vars =>
        [\A r \in Reserves :
           /\ owed'[r] > owed[r] => owed = NoLoans
           /\ owed'[r] < owed[r] => owed' = NoLoans /\ owed[r] > 0]_vars
  BY NextStep
<1> QED
  BY <1>1, Inductive, PTL DEF Spec, LoansNeverOverlap

=============================================================================
