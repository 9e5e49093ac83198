---------------------------- MODULE HamtClients ----------------------------
(***************************************************************************)
(* The trie under the calls its users make.  The "map" client is any user  *)
(* of Hamt (accounts, pools, declarations); the "utxo" client is           *)
(* utxo::Ledger, a trie of sparse arrays (chain-impl-mockchain/src/        *)
(* utxo.rs); the "evm" client is the ledger of EVM accounts, a trie of     *)
(* tries.  A behaviour follows one client.                                 *)
(***************************************************************************)
EXTENDS EvmMachine

CONSTANTS
    Keys,       \* the keys of the map, the fragments of the utxos
    Vals,       \* the values of the map, the outputs of the utxos
    Indexes,    \* the indexes of a fragment's outputs
    UtxoKeys,   \* the fragments the utxo client uses
    Addresses,  \* the accounts of the evm client
    MaxBlocks   \* bound on the blocks the evm client sees

VARIABLES
    client,     \* whose calls the trie gets
    trie,       \* the root node
    evm,        \* logs and environment of the evm client, its accounts are trie
    seen,       \* what lookup, get, or the machine's Backend answers for every key
    did         \* the last call and its answer

hamtVars == <<client, trie, evm, seen, did>>

LookupAll(t) ==
    [k \in {x \in Keys : HamtLookup(t, x) # Absent} |-> HamtLookup(t, k)]

GetAll(t) ==
    LET known == LookupAll(t) IN
    [ptr \in {p \in (DOMAIN known) \X Indexes : FastGet(known[p[1]], p[2]) # Absent} |->
        FastGet(known[ptr[1]], ptr[2])]

\* What contracts see: accounts, storage and the hashes of the blocks by number.
BackendAll(ledger) ==
    LET vm == MachineOf(ledger) IN
    [world |-> [address \in Addresses |->
                  [nonce |-> basic(vm, address).nonce, balance |-> basic(vm, address).balance,
                   code |-> code(vm, address),
                   storage |-> [s \in Slots |-> storage(vm, address, s)]]],
     hashes |-> [n \in 1 .. ledger.environment.block_number |->
                  block_hash(ledger.environment, n - 1)]]

HamtInit ==
    /\ client \in {"map", "utxo", "evm"}
    /\ trie = EmptyNode
    /\ evm = [logs |-> EvmLedgerNew.logs, environment |-> EvmLedgerNew.environment]
    /\ seen = IF client = "evm" THEN BackendAll(EvmLedgerNew) ELSE << >>
    /\ did = [op |-> "none"]

----------------------------------------------------------------------------
(* The map client *)

Step(op, k, r) ==
    /\ client = "map"
    /\ trie' = IF IsOk(r) THEN r.val ELSE trie
    /\ seen' = LookupAll(trie')
    /\ did' = [op |-> op, k |-> k, out |-> r.err]
    /\ UNCHANGED <<client, evm>>

\* What the callbacks of an update may do with the value they are given.
Swapped(v) == CHOOSE w \in Vals : w # v
Callback(kind, v) == CASE kind = "store" -> Ok({Swapped(v)})
                       [] kind = "delete" -> Ok({})
                       [] kind = "fail" -> Err(CallbackError)

DoInsert(k, v) == Step("insert", k, HamtInsert(trie, k, v))
DoRemove(k) == Step("remove", k, HamtRemove(trie, k))
DoRemoveMatch(k, v) == Step("remove_match", k, HamtRemoveMatch(trie, k, v))
DoReplace(k, v) == Step("replace", k, HamtReplace(trie, k, v))
DoReplaceWith(k) == Step("replace", k, HamtReplaceWith(trie, k, Swapped))
DoUpdate(k, kind) ==
    Step("update", k, HamtUpdate(trie, k, LAMBDA v : Callback(kind, v)))
DoInsertOrUpdate(k, v, kind) ==
    Step("insert_or_update", k,
         HamtInsertOrUpdate(trie, k, v, LAMBDA w : Callback(kind, w)))

\* A panic in a call leaves the caller with the trie it had.
Rebuilt(r) ==
    /\ trie' = IF IsOk(r) THEN r.val ELSE trie
    /\ did' = [op |-> "from_iter", out |-> r.err]

DoFromIter ==
    /\ client = "map"
    /\ Rebuilt(HamtFromIter(HamtIter(trie)))
    /\ seen' = LookupAll(trie')
    /\ UNCHANGED <<client, evm>>

----------------------------------------------------------------------------
(* The utxo client *)

from_outputs(outs) == FastBuild(outs)

remove_input(unspents, index) ==
    IF FastGet(unspents, index) = Absent THEN Err("IndexNotFound")
    ELSE Ok([left |-> FastRemove(unspents, index), out |-> FastGet(unspents, index)])

\* remove is remove_multiple of one index; got are the outputs it returns.
RemoveInputs(unspents, indexes) ==
    FoldLeft(LAMBDA acc, i :
                IF ~IsOk(acc) THEN acc
                ELSE LET r == remove_input(acc.val.left, i) IN
                     IF ~IsOk(r) THEN r
                     ELSE Ok([left |-> r.val.left,
                              got |-> acc.val.got \cup {<<i, r.val.out>>}]),
             Ok([left |-> unspents, got |-> {}]), indexes)

UtxoAnswer(op, f, out, got) ==
    did' = [op |-> op, k |-> f, out |-> out, got |-> got]

UtxoAdd(f, outs) ==
    LET r == HamtInsert(trie, f, from_outputs(outs)) IN
    /\ client = "utxo"
    /\ trie' = IF IsOk(r) THEN r.val ELSE trie
    /\ seen' = GetAll(trie')
    /\ UtxoAnswer("add", f, r.err, {})
    /\ UNCHANGED <<client, evm>>

UtxoRemove(f, indexes) ==
    LET found == HamtLookup(trie, f)
        r == IF found = Absent THEN Err("TransactionNotFound")
             ELSE RemoveInputs(found, indexes)
        t == IF r.val.left.index = {} THEN HamtRemove(trie, f)
             ELSE HamtReplace(trie, f, r.val.left) IN
    /\ client = "utxo"
    /\ \/ /\ IsOk(r)
          /\ trie' = t.val
          /\ UtxoAnswer("spend", f, t.err, r.val.got)
       \/ /\ ~IsOk(r)
          /\ UNCHANGED trie
          /\ UtxoAnswer("spend", f, r.err, {})
    /\ seen' = GetAll(trie')
    /\ UNCHANGED <<client, evm>>

\* A rebuilt ledger adds the outputs the iterator gives, fragment by fragment.
UtxoFromIter ==
    /\ client = "utxo"
    /\ LET all == HamtIter(trie) IN
       Rebuilt(HamtFromIter([i \in DOMAIN all |->
                                <<all[i][1], from_outputs(FastIter(all[i][2]))>>]))
    /\ seen' = GetAll(trie')
    /\ UNCHANGED <<client, evm>>

----------------------------------------------------------------------------
(* The evm client *)

BlockHashes == {"h1", "h2"}
Block0Hash == "h0"

\* Settings of the environment: no rule depends on them.
GasPrice == 1
BlockGasLimit == 1

EvmLedger == [accounts |-> trie, logs |-> evm.logs, environment |-> evm.environment]

SetLedger(ledger) ==
    /\ trie' = ledger.accounts
    /\ evm' = [logs |-> ledger.logs, environment |-> ledger.environment]
    /\ seen' = BackendAll(ledger)

\* apply_fragment of an EVM transaction, in block0 or later.
EvmTransact(kind, caller, address) ==
    /\ client = "evm"
    /\ \E outcome \in Executor(MachineOf(EvmLedger),
                               [kind |-> kind, caller |-> caller, address |-> address]) :
        \/ /\ outcome.exit # "Succeed" /\ run_transaction(EvmLedger, outcome) = {}
           /\ did' = [op |-> "failed", out |-> outcome.exit]
           /\ UNCHANGED <<trie, evm, seen>>
        \/ /\ \E ledger \in run_transaction(EvmLedger, outcome) : SetLedger(ledger)
           /\ did' = [op |-> "transact", values |-> outcome.values]
    /\ UNCHANGED client

\* begin_block and update_evm_block: the hash of a block is known before its
\* own fragments run.
EvmBlock(hash) ==
    /\ client = "evm"
    /\ evm.environment.block_number < MaxBlocks
    /\ SetLedger(update_block_environment(SetEnvironment(EvmLedger, Block0Hash, GasPrice,
                                                         BlockGasLimit), hash))
    /\ did' = [op |-> "block", hash |-> hash]
    /\ UNCHANGED client

----------------------------------------------------------------------------
Kinds == {"store", "delete", "fail"}

\* The outputs of a fragment with their indexes, in any order.
OutputLists ==
    {outs \in UNION {[1 .. n -> Indexes \X Vals] : n \in 1 .. Cardinality(Indexes)} :
        \A i, j \in DOMAIN outs : i # j => outs[i][1] # outs[j][1]}

IndexLists == UNION {[1 .. n -> Indexes] : n \in 1 .. 2}

HamtNext ==
    \/ \E k \in Keys :
        \/ DoRemove(k)
        \/ DoReplaceWith(k)
        \/ \E v \in Vals : \/ DoInsert(k, v)
                           \/ DoRemoveMatch(k, v)
                           \/ DoReplace(k, v)
        \/ \E kind \in Kinds : DoUpdate(k, kind)
        \/ \E v \in Vals, kind \in {"store", "delete"} : DoInsertOrUpdate(k, v, kind)
    \/ DoFromIter
    \/ \E f \in UtxoKeys :
        \/ \E outs \in OutputLists : UtxoAdd(f, outs)
        \/ \E indexes \in IndexLists : UtxoRemove(f, indexes)
    \/ UtxoFromIter
    \/ \E kind \in {"Create", "Create2", "Call"}, caller, address \in Addresses :
        caller # address /\ EvmTransact(kind, caller, address)
    \/ \E hash \in BlockHashes : EvmBlock(hash)

HamtSpec == HamtInit /\ [][HamtNext]_hamtVars

----------------------------------------------------------------------------
(* The trie as its clients see it *)

\* For every key, the pairs of other keys that share a hash which is not the
\* key's but has its first group of bits: once both are in a collision list, the
\* key may lead to that list.
ClashesOf ==
    [k \in Keys |->
        {S \in SUBSET (Keys \ {k}) : Cardinality(S) = 2 /\ \E h \in {HashOf[x] : x \in S} :
            /\ \A x \in S : HashOf[x] = h
            /\ h # HashOf[k] /\ LevelIndex(h, 0) = LevelIndex(HashOf[k], 0)}]

AsMap == INSTANCE KeyedMap WITH
    Clashes <- ClashesOf,
    map <- IF client = "map" THEN seen ELSE << >>,
    did <- IF client = "map" THEN did ELSE [op |-> "none"]

AsUnspent == INSTANCE UnspentOutputs WITH
    Fragments <- UtxoKeys,
    unspent <- IF client = "utxo" THEN seen ELSE << >>,
    did <- IF client = "utxo" THEN did ELSE [op |-> "none"]

EmptyWorld == BackendAll(EvmLedgerNew).world

AsWorld == INSTANCE EvmWorld WITH
    world <- IF client = "evm" THEN seen.world ELSE EmptyWorld,
    hashes <- IF client = "evm" THEN seen.hashes ELSE << >>,
    did <- IF client = "evm" THEN did ELSE [op |-> "none"]

\* The machine shows contracts the world they left: slots that are zero and
\* accounts that are empty are not stored, a contract that destroyed itself
\* leaves nothing to one created there later, a failed transaction changes
\* nothing, and the hash of every block of the branch is found under its number
\* (apply, block_hash in machine.rs, update_block_environment).
ImplementsWorld == AsWorld!Spec

\* The trie of the map client is the map its answers describe: every operation
\* changes the value of its own key only and answers as the map would.  Insert
\* may split a leaf into subnodes several levels deep or start a collision
\* list, and remove_rec collapses them again (node/reference.rs).  A call may
\* panic only for a key it does not hold whose hash meets the collision list of
\* another hash, and then changes nothing.
ImplementsMap == AsMap!Spec

\* utxo::Ledger is the set of unspent outputs: spending an index of an array
\* whose removed values are still stored never brings back or loses another
\* output, and a failed remove_multiple spends nothing (utxo.rs).
ImplementsUnspent == AsUnspent!Spec

\* HamtIter::next visits every key once with the value lookup finds, and size
\* counts what it visits, whatever splits and collapses came before; the trie
\* collected from it is equal by PartialEq, unless collecting it meets the
\* collision list of another hash and panics (hamt.rs).
IterationIsExact ==
    LET all == HamtIter(trie)
        known == LookupAll(trie) IN
    /\ {all[i][1] : i \in DOMAIN all} = DOMAIN known
    /\ \A i \in DOMAIN all : known[all[i][1]] = all[i][2]
    /\ \A i, j \in DOMAIN all : all[i][1] = all[j][1] => i = j
    /\ size_rec(trie) = Len(all)
    /\ LET rebuilt == HamtFromIter(all) IN
       \/ IsOk(rebuilt) /\ TrieEq(rebuilt.val, trie)
       \/ rebuilt.err = Panic /\ \E k \in DOMAIN known, S \in SUBSET DOMAIN known : S \in ClashesOf[k]

=============================================================================
