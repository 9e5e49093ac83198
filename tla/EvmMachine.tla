----------------------------- MODULE EvmMachine -----------------------------
(***************************************************************************)
(* The state of the virtual machine (chain-evm/src: machine.rs, state/)    *)
(* and the ledger that runs its transactions                               *)
(* (chain-impl-mockchain/src/ledger/evm.rs).  The accounts and the storage *)
(* of each are tries; the executor of the evm crate is external: it reads  *)
(* through the Backend and hands back the values to apply.                 *)
(***************************************************************************)
EXTENDS Hamt

CONSTANTS
    Slots,      \* the keys of an account's storage
    MaxNonce    \* bound on the transactions of one caller

Zero == 0
ZeroHash == "zero"
NoCode == <<>>

TrieContains(t, k) == HamtLookup(t, k) # Absent

TriePut(t, k, v) ==
    IF TrieContains(t, k) THEN HamtUpdate(t, k, LAMBDA old : Ok({v})).val
    ELSE HamtInsert(t, k, v).val

TrieRemove(t, k) == LET r == HamtRemove(t, k) IN IF IsOk(r) THEN r.val ELSE t

DefaultAccount == [nonce |-> 0, balance |-> 0, storage |-> EmptyNode, code |-> NoCode]

\* The account found, or a new one.
AccountOr(t, address) ==
    IF TrieContains(t, address) THEN HamtLookup(t, address) ELSE DefaultAccount

is_empty(account) ==
    account.nonce = 0 /\ account.balance = 0 /\ account.storage = EmptyNode

modify_account(t, address, f(_)) ==
    LET changed == f(AccountOr(t, address)) IN
    IF changed = {} THEN TrieRemove(t, address)
    ELSE TriePut(t, address, CHOOSE account \in changed : TRUE)

-----------------------------------------------------------------------------
(* Backend: what the executor reads *)

EnvironmentNew ==
    [chain_id |-> ZeroHash, gas_price |-> 0, block_gas_limit |-> 0,
     block_hashes |-> <<>>, block_number |-> 0]

VirtualMachine(state, logs, environment) ==
    [state |-> state, logs |-> logs, environment |-> environment]

\* The latest hash stands first.
block_hash(environment, number) ==
    LET back == environment.block_number - number - 1 IN
    IF number >= environment.block_number \/ back >= Len(environment.block_hashes)
    THEN ZeroHash
    ELSE environment.block_hashes[back + 1]

basic(vm, address) ==
    LET a == AccountOr(vm.state, address) IN [nonce |-> a.nonce, balance |-> a.balance]

code(vm, address) == AccountOr(vm.state, address).code

storage(vm, address, slot) ==
    LET found == HamtLookup(AccountOr(vm.state, address).storage, slot) IN
    IF found = Absent THEN Zero ELSE found

-----------------------------------------------------------------------------
(* The executor of the evm crate, for the forks a configuration can name: the *)
(* nonce of the caller goes up, and so does that of a contract when it is     *)
(* created.                                                                   *)

ModifyValue(address, account, newCode, writes, reset) ==
    [kind |-> "Modify", address |-> address, basic |-> account, code |-> newCode,
     storage |-> writes, reset_storage |-> reset]

DeleteValue(address) == [kind |-> "Delete", address |-> address]

Writes == UNION {[S -> {Zero, 1}] : S \in SUBSET Slots}

Success(values, logs) == [exit |-> "Succeed", values |-> values, logs |-> logs]
Failure(exit) == [exit |-> exit, values |-> <<>>, logs |-> <<>>]

NextNonce(vm, caller) ==
    ModifyValue(caller, [basic(vm, caller) EXCEPT !.nonce = @ + 1], {}, <<>>, FALSE)

\* An address with code or a nonce is taken.
Created(vm, caller, address) ==
    IF code(vm, address) # NoCode \/ basic(vm, address).nonce > 0 THEN {}
    ELSE {Success(<<NextNonce(vm, caller),
                    ModifyValue(address, [basic(vm, address) EXCEPT !.nonce = 1],
                                {<<"code">>}, w, TRUE)>>, <<>>) : w \in Writes}

\* Code writes its storage or destroys itself; without code the account is
\* touched only.
Called(vm, caller, address) ==
    LET touched(w) == ModifyValue(address, basic(vm, address), {}, w, FALSE) IN
    IF code(vm, address) = NoCode
    THEN {Success(<<NextNonce(vm, caller), touched(<<>>)>>, <<>>)}
    ELSE {Success(<<NextNonce(vm, caller), touched(w)>>, <<address>>) : w \in Writes}
         \cup {Success(<<NextNonce(vm, caller), DeleteValue(address)>>, <<>>)}

Executor(vm, contract) ==
    {Failure(exit) : exit \in {"Revert", "Error", "Fatal"}} \cup
    IF basic(vm, contract.caller).nonce >= MaxNonce THEN {}
    ELSE IF contract.kind = "Call" THEN Called(vm, contract.caller, contract.address)
    ELSE Created(vm, contract.caller, contract.address)

-----------------------------------------------------------------------------
(* ApplyBackend *)

WriteNonZeroes(account, writes) ==
    [account EXCEPT !.storage =
        FoldSet(LAMBDA slot, t : IF writes[slot] = Zero THEN t
                                 ELSE TriePut(t, slot, writes[slot]),
                @, DOMAIN writes)]

\* Zeroes are not stored.
WriteSlots(account, writes) ==
    [account EXCEPT !.storage =
        FoldSet(LAMBDA slot, t : IF writes[slot] = Zero THEN TrieRemove(t, slot)
                                 ELSE TriePut(t, slot, writes[slot]),
                @, DOMAIN writes)]

ModifyAccount(account, value, delete_empty) ==
    LET set == [account EXCEPT !.balance = value.basic.balance,
                               !.nonce = value.basic.nonce,
                               !.code = IF value.code = {} THEN @
                                        ELSE CHOOSE c \in value.code : TRUE,
                               !.storage = IF value.reset_storage THEN EmptyNode ELSE @]
        written == WriteSlots(set, value.storage)
    IN  IF delete_empty /\ is_empty(written) THEN {} ELSE {written}

ApplyValue(state, value, delete_empty) ==
    IF value.kind = "Delete" THEN TrieRemove(state, value.address)
    ELSE modify_account(state, value.address,
                        LAMBDA account : ModifyAccount(account, value, delete_empty))

\* The logs go under the hash of the current block number, which is the zero
\* hash: each transaction's replace those before.
apply(vm, values, logs, delete_empty) ==
    [vm EXCEPT
        !.state = FoldLeft(LAMBDA state, value : ApplyValue(state, value, delete_empty),
                           @, values),
        !.logs = LET hash == block_hash(vm.environment, vm.environment.block_number)
                 IN  [h \in DOMAIN @ \cup {hash} |-> IF h = hash THEN logs ELSE @[h]]]

execute_transaction(vm, outcome, delete_empty) ==
    IF outcome.exit = "Succeed" THEN {apply(vm, outcome.values, outcome.logs, delete_empty)}
    ELSE {}

-----------------------------------------------------------------------------
(* The ledger of a block *)

EvmLedgerNew == [accounts |-> EmptyNode, logs |-> <<>>, environment |-> EnvironmentNew]

MachineOf(ledger) == VirtualMachine(ledger.accounts, ledger.logs, ledger.environment)

\* Creates, second creates and calls alike; a failure leaves the ledger.
run_transaction(ledger, outcome) ==
    {[ledger EXCEPT !.accounts = vm.state, !.logs = vm.logs] :
        vm \in execute_transaction(MachineOf(ledger), outcome, TRUE)}

\* begin_block sets what comes from block0 and the settings.
SetEnvironment(ledger, chain_id, gas_price, block_gas_limit) ==
    [ledger EXCEPT !.environment.chain_id = chain_id,
                   !.environment.gas_price = gas_price,
                   !.environment.block_gas_limit = block_gas_limit]

update_block_environment(ledger, content_hash) ==
    [ledger EXCEPT !.environment.block_hashes = <<content_hash>> \o @,
                   !.environment.block_number = Len(ledger.environment.block_hashes) + 1]
=============================================================================
