------------------------------- MODULE Ledger -------------------------------
(***************************************************************************)
(* The ledger of chain-impl-mockchain: unspent outputs, accounts with      *)
(* their spending counters and delegation, registered stake pools, the     *)
(* pots and the log of block creators, and how block0, fragments and       *)
(* blocks change them (ledger/ledger.rs, ledger/check.rs, utxo.rs,         *)
(* accounting/account, stake/delegation.rs).                               *)
(*                                                                         *)
(* A ledger is an immutable value in the code: every operation works on a  *)
(* clone and an error drops the clone.  Here an operation that may fail    *)
(* maps a ledger to the set of ledgers it can return: {L} for Ok(L), the   *)
(* empty set for any error.                                                *)
(***************************************************************************)
EXTENDS Integers, FiniteSets, Sequences, FiniteSetsExt, SequencesExt

CONSTANTS
    Accounts,       \* public keys: account identifiers and keys of addresses
    Registrations,  \* hashes of stake pool registrations; also the pool ids
    RegOf,          \* what each registration declares
    Fragments,      \* fragment ids
    Body,           \* what each fragment carries
    Block0,         \* the fragments of block0, in order
    InitialPots,    \* treasury and rewards pot set by the initial fragment
    Dates,          \* block dates <<epoch, slot>>
    Discrimination, \* production or test network
    Fees,           \* the linear fee: constant, coefficient, certificate
    MaxExpiry,      \* transaction_max_expiry_epochs
    MaxOutputs,     \* CHECK_TX_MAXIMUM_OUTPUTS
    MaxOwners,      \* CHECK_POOL_REG_MAXIMUM_OWNERS
    MaxOperators,   \* CHECK_POOL_REG_MAXIMUM_OPERATORS
    LaneCount,      \* SpendingCounterIncreasing::LANES
    CounterMod,     \* a lane's counter wraps here, 2^29 in the code
    MaxValue        \* the largest Value, 2^64 - 1 in the code

ASSUME SizesAreNaturals ==
    /\ MaxExpiry \in Nat /\ MaxOutputs \in Nat /\ MaxOwners \in Nat
    /\ MaxOperators \in Nat /\ MaxValue \in Nat
    /\ LaneCount \in Nat \ {0} /\ CounterMod \in Nat \ {0}

Lanes == 0 .. LaneCount - 1

IsSequence(s) == s \in Seq(ToSet(s))

\* DelegationType: empty for NonDelegated, one entry for Full, several for Ratio.
DelegationTypes == Seq([pool : Registrations, weight : Nat \ {0}])

\* TaxType, as it is read: no ratio is above one.  A limit of 0 is no limit.
IsTaxType(tax) ==
    /\ tax.fixed \in Nat /\ tax.num \in Nat /\ tax.den \in Nat \ {0} /\ tax.limit \in Nat
    /\ tax.num <= tax.den

\* What the readers of fragments and registrations let through.
ASSUME FragmentsAreRead ==
    /\ \A f \in Fragments :
        LET body == Body[f] IN
        /\ IsSequence(body.inputs) /\ \A i \in DOMAIN body.inputs : body.inputs[i].value \in Nat
        /\ \A i \in DOMAIN body.inputs :
            \/ body.inputs[i].from = "utxo"
            \/ body.inputs[i].lane \in Lanes /\ body.inputs[i].counter \in 0 .. CounterMod - 1
        /\ IsSequence(body.outputs) /\ \A i \in DOMAIN body.outputs : body.outputs[i].value \in Nat
        /\ body.kind \in {"stake_delegation", "owner_delegation"} =>
                body.cert.delegation \in DelegationTypes
        /\ body.kind = "old_declaration" => body.inputs = <<>>
        /\ body.kind = "pool_registration" => body.cert.reg \in Registrations
        /\ body.kind = "pool_update" => body.cert.new \in Registrations
    /\ \A r \in Registrations : RegOf[r].owners \in Seq(Accounts) /\ IsTaxType(RegOf[r].tax)

\* What the initial fragment and the clock supply.
ASSUME SettingsAreRead ==
    /\ Block0 \in Seq(Fragments)
    /\ InitialPots.treasury \in Nat /\ InitialPots.rewards \in Nat
    /\ Dates \subseteq Nat \X Nat
    /\ Fees.constant \in Nat /\ Fees.coefficient \in Nat /\ Fees.certificate \in Nat

VARIABLES
    ledger,     \* the ledger after the last block
    block,      \* the ApplyBlockLedger in progress: <<>> or <<[ledger, date]>>
    closing,    \* the caller has closed the epoch of ledger.date
    panicked    \* the call of the library that has panicked, "none" before

vars == <<ledger, block, closing, panicked>>

\* The result of a fallible operation F on the ledgers of an earlier result.
Then(result, F(_)) == UNION {F(L) : L \in result}

Without(f, x) == [y \in DOMAIN f \ {x} |-> f[y]]
With(f, x, v) == [y \in DOMAIN f \cup {x} |-> IF y = x THEN v ELSE f[y]]

-----------------------------------------------------------------------------
(* Dates, values and checks. *)

Epoch(d) == d[1]

Later(d, e) == \/ d[1] > e[1]
               \/ d[1] = e[1] /\ d[2] > e[2]

\* The values of outputs, inputs or accounts, added up.
ValuesOf(f) == SumFunction([x \in DOMAIN f |-> f[x].value])

IsCertificate(f) == Body[f].kind # "transaction"

calculate_fee(f) ==
    Min({MaxValue,
         Fees.constant
         + Fees.coefficient * (Len(Body[f].inputs) + Len(Body[f].outputs))
         + (IF IsCertificate(f) THEN Fees.certificate ELSE 0)})

StrictlyBalanced(f) ==
    /\ ValuesOf(Body[f].inputs) <= MaxValue
    /\ ValuesOf(Body[f].outputs) + calculate_fee(f) <= MaxValue
    /\ ValuesOf(Body[f].inputs) = ValuesOf(Body[f].outputs) + calculate_fee(f)

valid_transaction_ios_number(f) == Len(Body[f].outputs) <= MaxOutputs

valid_output_value(out) == out.value # 0

valid_block0_transaction_no_inputs(f) == Len(Body[f].inputs) = 0

valid_block0_cert_transaction(f) == Len(Body[f].inputs) = 0 /\ Len(Body[f].outputs) = 0

valid_stake_owner_delegation_transaction(f) ==
    Len(Body[f].inputs) = 1 /\ Len(Body[f].outputs) = 0

valid_transaction_date(until, date) ==
    /\ Epoch(date) >= Epoch(until) - MaxExpiry
    /\ ~Later(date, until)

valid_pool_registration(r) ==
    LET reg == RegOf[r] IN
    /\ reg.threshold # 0
    /\ reg.threshold <= Len(reg.owners)
    /\ Len(reg.owners) \in 1 .. MaxOwners
    /\ reg.operators <= MaxOperators

valid_pool_owner_signature(signatures) == Len(signatures) \in 1 .. MaxOwners

\* PoolOwnersSignature::verify: signatures of distinct owners, each at its own
\* index, enough for the threshold.
OwnersSigned(r, signatures) ==
    LET reg == RegOf[r] IN
    /\ valid_pool_owner_signature(signatures)
    /\ Len(signatures) >= reg.threshold
    /\ \A i \in DOMAIN signatures :
        /\ signatures[i].index \in DOMAIN reg.owners
        /\ reg.owners[signatures[i].index] = signatures[i].by
    /\ \A i, j \in DOMAIN signatures :
        signatures[i].index = signatures[j].index => i = j

-----------------------------------------------------------------------------
(* Accounts. *)

NewAccount(v) ==
    [value |-> v, nexts |-> [l \in Lanes |-> 0], delegation |-> <<>>]

increment(counter) == (counter + 1) % CounterMod

\* AccountState::add and the creation of a missing account.
AddValueOrAccount(L, a, v) ==
    IF a \notin DOMAIN L.accounts
    THEN {[L EXCEPT !.accounts = With(@, a, NewAccount(v))]}
    ELSE IF L.accounts[a].value + v > MaxValue
    THEN {}
    ELSE {[L EXCEPT !.accounts[a].value = @ + v]}

set_delegation(L, a, delegation) ==
    IF a \in DOMAIN L.accounts
    THEN {[L EXCEPT !.accounts[a].delegation = delegation]}
    ELSE {}

-----------------------------------------------------------------------------
(* Transactions. *)

\* The witness kind chooses the set of outputs the pointer is looked up in.
apply_input_to_utxo(L, in) ==
    LET set == IF in.witness = "utxo" THEN "utxos" ELSE "oldutxos" IN
    IF /\ in.witness \in {"utxo", "old"}
       /\ in.ptr \in DOMAIN L[set]
       /\ in.value = L[set][in.ptr].value
       /\ in.signer = L[set][in.ptr].address.key
    THEN {[L EXCEPT ![set] = Without(@, in.ptr)]}
    ELSE {}

\* Mutant: the counter is checked against its lane and not incremented.
SpendAccountReplayable(L, in) ==
    IF /\ in.witness = "account"
       /\ in.id \in DOMAIN L.accounts
       /\ in.value <= L.accounts[in.id].value
       /\ L.accounts[in.id].nexts[in.lane] = in.counter
    THEN {[L EXCEPT !.accounts[in.id].value = @ - in.value]}
    ELSE {}

\* An account after a spending at the next counter of its lane.
remove_value(account, in) ==
    [account EXCEPT !.value = @ - in.value, !.nexts[in.lane] = increment(@)]

\* remove_value then the signature.  A multisig witness is looked up among
\* the declarations of the multisig ledger, which no fragment fills.
input_single_account_verify(L, in) ==
    IF /\ in.witness = "account"
       /\ in.id \in DOMAIN L.accounts
       /\ in.value <= L.accounts[in.id].value
       /\ L.accounts[in.id].nexts[in.lane] = in.counter
       /\ in.signer = in.id
    THEN {[L EXCEPT !.accounts[in.id] = remove_value(@, in)]}
    ELSE {}

apply_tx_inputs(L, f) ==
    FoldLeft(LAMBDA result, in :
                Then(result, LAMBDA M : IF in.from = "utxo"
                                        THEN apply_input_to_utxo(M, in)
                                        ELSE input_single_account_verify(M, in)),
             {L}, Body[f].inputs)

\* What one output does to the accounts.  Multisig outputs need a declared
\* multisig account and scripts are refused.
AccountsAfterOutput(L, out) ==
    IF ~valid_output_value(out) \/ out.address.net # Discrimination THEN {}
    ELSE CASE out.address.kind = "single" -> {L}
           [] out.address.kind = "group" ->
                IF out.address.account \in DOMAIN L.accounts
                THEN {L}
                ELSE AddValueOrAccount(L, out.address.account, 0)
           [] out.address.kind = "account" ->
                AddValueOrAccount(L, out.address.account, out.value)
           [] OTHER -> {}

NewUtxos(f) ==
    [ptr \in {<<f, i>> : i \in {j \in DOMAIN Body[f].outputs :
                Body[f].outputs[j].address.kind \in {"single", "group"}}} |->
        Body[f].outputs[ptr[2]]]

\* utxo::Ledger::add refuses a fragment that still has unspent outputs.
AddUtxos(L, f) ==
    IF DOMAIN NewUtxos(f) # {} /\ \E ptr \in DOMAIN L.utxos : ptr[1] = f
    THEN {}
    ELSE {[L EXCEPT !.utxos = [ptr \in DOMAIN @ \cup DOMAIN NewUtxos(f) |->
                IF ptr \in DOMAIN @ THEN @[ptr] ELSE NewUtxos(f)[ptr]]]}

apply_tx_outputs(L, f) ==
    Then(FoldLeft(LAMBDA result, out :
                    Then(result, LAMBDA M : AccountsAfterOutput(M, out)),
                  {L}, Body[f].outputs),
         LAMBDA M : AddUtxos(M, f))

append_fees(L, fee) ==
    IF L.fees + fee > MaxValue THEN {} ELSE {[L EXCEPT !.fees = @ + fee]}

apply_tx_fee(L, f) == append_fees(L, calculate_fee(f))

apply_transaction(L, f, date) ==
    IF /\ valid_transaction_ios_number(f)
       /\ valid_transaction_date(Body[f].until, date)
       /\ StrictlyBalanced(f)
    THEN Then(Then(apply_tx_inputs(L, f), LAMBDA M : apply_tx_outputs(M, f)),
              LAMBDA M : apply_tx_fee(M, f))
    ELSE {}

-----------------------------------------------------------------------------
(* Stake pools: the registration a pool id stands for. *)

stake_pool_exists(L, pool) == pool \in DOMAIN L.pools

stake_pool_get(L, pool) == IF stake_pool_exists(L, pool) THEN {L.pools[pool]} ELSE {}

stake_pool_set_state(L, pool, r) == [L EXCEPT !.pools[pool] = r]

register_stake_pool(L, r) ==
    IF stake_pool_exists(L, r) THEN {} ELSE {[L EXCEPT !.pools = With(@, r, r)]}

deregister_stake_pool(L, pool) == {[L EXCEPT !.pools = Without(@, pool)]}

-----------------------------------------------------------------------------
(* Certificates. *)

apply_stake_delegation(L, cert) == set_delegation(L, cert.account, cert.delegation)

apply_owner_stake_delegation(L, f) ==
    IF Body[f].inputs[1].from = "account"
    THEN set_delegation(L, Body[f].inputs[1].id, Body[f].cert.delegation)
    ELSE {}

apply_pool_registration(L, r) ==
    IF valid_pool_registration(r) THEN register_stake_pool(L, r) ELSE {}

apply_pool_registration_signcheck(L, cert) ==
    IF OwnersSigned(cert.reg, cert.signatures)
    THEN apply_pool_registration(L, cert.reg)
    ELSE {}

apply_pool_retirement(L, cert) ==
    Then(stake_pool_get(L, cert.pool), LAMBDA r :
         IF OwnersSigned(r, cert.signatures) THEN deregister_stake_pool(L, cert.pool) ELSE {})

valid_pool_update_certificate(cert) == valid_pool_registration(cert.new)

\* The certificate names the registration it replaces and may not change
\* the pool's rewards; the owners of the replaced registration sign.
apply_pool_update(L, cert) ==
    Then(stake_pool_get(L, cert.pool), LAMBDA r :
         IF /\ valid_pool_update_certificate(cert)
            /\ cert.last = r
            /\ RegOf[cert.new].tax = RegOf[r].tax
            /\ OwnersSigned(r, cert.signatures)
         THEN {stake_pool_set_state(L, cert.pool, cert.new)}
         ELSE {})

ApplyCertificate(L, f) ==
    LET cert == Body[f].cert IN
    CASE Body[f].kind = "transaction" -> {L}
      [] Body[f].kind = "owner_delegation" -> apply_owner_stake_delegation(L, f)
      [] Body[f].kind = "stake_delegation" ->
            apply_stake_delegation(L, cert)
      [] Body[f].kind = "pool_registration" ->
            apply_pool_registration_signcheck(L, cert)
      [] Body[f].kind = "pool_retirement" -> apply_pool_retirement(L, cert)
      [] Body[f].kind = "pool_update" -> apply_pool_update(L, cert)
      [] OTHER -> {}      \* minting after block0

\* The early checks of apply_fragment, before the transaction is applied.
PreCheck(f) ==
    CASE Body[f].kind = "owner_delegation" ->
            valid_stake_owner_delegation_transaction(f)
      [] Body[f].kind = "stake_delegation" ->
            Body[f].cert.signer = Body[f].cert.account
      [] OTHER -> Body[f].kind # "old_declaration"

\* Every certificate is paid by a transaction applied before it.  The field
\* applied is a history of the chain, read by the properties only.
apply_fragment(L, f, date) ==
    IF ~PreCheck(f) THEN {}
    ELSE Then(Then(apply_transaction(L, f, date),
                   LAMBDA M : ApplyCertificate(M, f)),
              LAMBDA M : {[M EXCEPT !.applied[f] = @ + 1]})

-----------------------------------------------------------------------------
(* Block0. *)

EmptyLedger ==
    [utxos |-> <<>>, oldutxos |-> <<>>, accounts |-> <<>>, pools |-> <<>>,
     fees |-> 0, treasury |-> InitialPots.treasury,
     rewards |-> InitialPots.rewards, leaders_log |-> <<>>,
     date |-> <<0, 0>>, chain_length |-> 0,
     applied |-> [f \in Fragments |-> 0]]

apply_old_declaration(L, f) ==
    IF DOMAIN NewUtxos(f) # {} /\ \E ptr \in DOMAIN L.oldutxos : ptr[1] = f
    THEN {}
    ELSE {[L EXCEPT !.oldutxos = [ptr \in DOMAIN @ \cup DOMAIN NewUtxos(f) |->
                IF ptr \in DOMAIN @ THEN @[ptr] ELSE NewUtxos(f)[ptr]]]}

\* Block0 fragments have no inputs, pay no fee and are not signed.
ApplyBlock0Fragment(L, f) ==
    LET body == Body[f] IN
    Then(CASE body.kind = "old_declaration" -> apply_old_declaration(L, f)
           [] body.kind = "transaction" /\ valid_block0_transaction_no_inputs(f) ->
                apply_tx_outputs(L, f)
           [] body.kind = "stake_delegation" /\ valid_block0_cert_transaction(f) ->
                apply_stake_delegation(L, body.cert)
           [] body.kind = "pool_registration" /\ valid_block0_cert_transaction(f) ->
                apply_pool_registration(L, body.cert.reg)
           [] OTHER -> {},
         LAMBDA M : {[M EXCEPT !.applied[f] = @ + 1]})

get_total_value(L) ==
    ValuesOf(L.oldutxos) + ValuesOf(L.utxos) + ValuesOf(L.accounts)
    + L.fees + L.treasury + L.rewards

NewLedger ==
    {L \in FoldLeft(LAMBDA result, f :
                        Then(result, LAMBDA M : ApplyBlock0Fragment(M, f)),
                    {EmptyLedger}, Block0) : get_total_value(L) <= MaxValue}

ASSUME Block0IsValid == NewLedger # {}

-----------------------------------------------------------------------------
(* Blocks. *)

Init ==
    /\ ledger \in NewLedger
    /\ block = <<>>
    /\ closing = FALSE
    /\ panicked = "none"

LogTotal(L) == SumFunction(L.leaders_log)

\* begin_block.  The caller has closed the epoch exactly when the block is
\* the first of a later one.
begin_block(d) ==
    /\ block = <<>> /\ panicked = "none"
    /\ Later(d, ledger.date)
    /\ closing <=> Epoch(d) > Epoch(ledger.date)
    /\ IF Epoch(d) > Epoch(ledger.date) /\ LogTotal(ledger) > 0
       THEN panicked' = "begin_block" /\ UNCHANGED <<ledger, block, closing>>
       ELSE /\ block' = <<[ledger |-> [ledger EXCEPT !.chain_length = @ + 1],
                           date |-> d]>>
            /\ UNCHANGED <<ledger, closing, panicked>>

\* A fragment that fails leaves the block as it was.
ApplyFragment(f) ==
    /\ block # <<>>
    /\ \E L \in apply_fragment(block[1].ledger, f, block[1].date) :
        block' = <<[block[1] EXCEPT !.ledger = L]>>
    /\ UNCHANGED <<ledger, closing, panicked>>

\* finish, for a block created by a stake pool (creator = <<pool>>) or by a
\* BFT leader (creator = <<>>).
finish(creator) ==
    /\ block # <<>>
    /\ LET L == block[1].ledger
           log == L.leaders_log IN
       ledger' = [L EXCEPT !.date = block[1].date,
                           !.leaders_log =
                                IF creator = <<>> THEN @
                                ELSE With(@, creator[1],
                                          IF creator[1] \in DOMAIN log
                                          THEN log[creator[1]] + 1 ELSE 1)]
    /\ block' = <<>>
    /\ closing' = FALSE
    /\ UNCHANGED panicked

\* A fragment of apply_block failed, or the producer gave the block up.  The
\* epoch stays closed: the next block is built on the same ledger.
DropBlock ==
    /\ block # <<>>
    /\ block' = <<>>
    /\ UNCHANGED <<ledger, closing, panicked>>

-----------------------------------------------------------------------------
(***************************************************************************)
(* The entries a ledger is written out as, and the ledger that is rebuilt  *)
(* from them after a restart (ledger/iter.rs).  The settings, proposals    *)
(* and vote plans are entries too; their state is in other modules.        *)
(***************************************************************************)

PotNames == {"fees", "treasury", "rewards"}

EntriesOf(kind, f) == {[kind |-> kind, key |-> x, value |-> f[x]] : x \in DOMAIN f}

\* Pots::entries
PotEntries(L) == EntriesOf("pots", [n \in PotNames |-> L[n]])

\* Pots::set_from_entry
set_from_entry(L, e) == [L EXCEPT ![e.key] = e.value]

\* Ledger::iter: the globals, then each part of the ledger in its turn.
Iter(L) ==
    <<[kind |-> "globals", date |-> L.date, chain_length |-> L.chain_length]>>
    \o SetToSeq(EntriesOf("utxos", L.utxos))
    \o SetToSeq(EntriesOf("oldutxos", L.oldutxos))
    \o SetToSeq(EntriesOf("accounts", L.accounts))
    \o SetToSeq(EntriesOf("pools", L.pools))
    \o SetToSeq(PotEntries(L))
    \o SetToSeq(EntriesOf("leaders_log", L.leaders_log))

\* Mutant: the counts of the log are started again.
AddEntryCounting(L, e) ==
    CASE e.kind = "globals" -> [L EXCEPT !.date = e.date, !.chain_length = e.chain_length]
      [] e.kind = "pots" -> set_from_entry(L, e)
      [] e.kind = "pools" -> L
      [] e.kind = "leaders_log" -> [L EXCEPT !.leaders_log = With(@, e.key, 1)]
      [] OTHER -> [L EXCEPT ![e.kind] = With(@, e.key, e.value)]

\* One turn of the loop of from_iter.  A stake pool is inserted into a map
\* that shares nothing with the one the new ledger gets.
AddEntry(L, e) ==
    CASE e.kind = "globals" -> [L EXCEPT !.date = e.date, !.chain_length = e.chain_length]
      [] e.kind = "pots" -> set_from_entry(L, e)
      [] e.kind = "pools" -> L
      [] OTHER -> [L EXCEPT ![e.kind] = With(@, e.key, e.value)]

\* What the loop starts from.  The history is no part of the entries.
Blank(history) ==
    [EmptyLedger EXCEPT !.treasury = 0, !.rewards = 0, !.applied = history]

\* from_iter: {} for Error::IncompleteLedger.
from_iter(entries, history) ==
    IF \E i \in DOMAIN entries : entries[i].kind = "globals"
    THEN {FoldLeft(AddEntry, Blank(history), entries)}
    ELSE {}

Restored(L) == from_iter(Iter(L), L.applied)

-----------------------------------------------------------------------------
(* Properties. *)

\* A restart between any two blocks loses no value: the outputs, the accounts
\* with their counters and delegation, the pots and the participation of the
\* current epoch come back as they were, so nothing can be spent again.
RestartKeepsValue ==
    \A M \in Restored(ledger) :
        [M EXCEPT !.pools = ledger.pools] = ledger
=============================================================================
