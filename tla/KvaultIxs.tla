----------------------------- MODULE KvaultIxs -----------------------------
(***************************************************************************)
(* The instructions of the vault program, as idl_codegen_kamino_vault builds   *)
(* them, and those of the farms program, the lookup tables and wrapped SOL as   *)
(* the client uses them: who signs, and what the program is told. The accounts   *)
(* that follow from the vault and the reserve are left out; the list of the       *)
(* allocation's reserves, appended to the accounts by the client, is not.          *)
(***************************************************************************)

initVault(admin) == [ix |-> "initVault", signer |-> admin]
updateVaultConfig(signer, field, value, reserves) ==
    [ix |-> "updateVaultConfig", signer |-> signer, field |-> field, value |-> value, reserves |-> reserves]
updateReserveAllocation(admin, reserve, weight, cap) ==
    [ix |-> "updateReserveAllocation", signer |-> admin, reserve |-> reserve, weight |-> weight, cap |-> cap]
removeAllocation(admin, reserve) == [ix |-> "removeAllocation", signer |-> admin, reserve |-> reserve]
updateAdmin(pending) == [ix |-> "updateAdmin", signer |-> pending]
giveUpPendingFees(admin, amount) == [ix |-> "giveUpPendingFees", signer |-> admin, amount |-> amount]
withdrawPendingFees(admin, reserve, reserves) ==
    [ix |-> "withdrawPendingFees", signer |-> admin, reserve |-> reserve, reserves |-> reserves]
deposit(user, amount, reserves) ==
    [ix |-> "deposit", signer |-> user, amount |-> amount, reserves |-> reserves]
withdraw(user, reserve, shares, reserves) ==
    [ix |-> "withdraw", signer |-> user, reserve |-> reserve, amount |-> shares, reserves |-> reserves]
withdrawFromAvailable(user, shares) ==
    [ix |-> "withdrawFromAvailable", signer |-> user, amount |-> shares]
invest(payer, reserve, reserves) ==
    [ix |-> "invest", signer |-> payer, reserve |-> reserve, reserves |-> reserves]

createFarmUser(user) == [ix |-> "createFarmUser", signer |-> user]
stake(user, farm, amount) == [ix |-> "stake", signer |-> user, farm |-> farm, amount |-> amount]
unstake(user, farm, amount) == [ix |-> "unstake", signer |-> user, farm |-> farm, amount |-> amount]
withdrawUnstaked(user, farm) == [ix |-> "withdrawUnstaked", signer |-> user, farm |-> farm]

createTable(authority, slot) ==
    [ix |-> "createLookupTable", signer |-> authority, table |-> <<authority, slot>>]
extendTable(authority, table, keys) ==
    [ix |-> "extendLookupTable", signer |-> authority, table |-> table, keys |-> keys]
wrapSol(owner, amount) == [ix |-> "wrapSol", signer |-> owner, amount |-> amount]

=============================================================================
