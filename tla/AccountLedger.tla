---------------------------- MODULE AccountLedger ----------------------------
(* Accounts, who controls how much stake by them, and multisig accounts.     *)
EXTENDS Integers, Sequences, FiniteSets, FiniteSetsExt, SequencesExt

------------------------------------------------------------------------------
(***************************************************************************)
(* The generic ledger of accounts (accounting/account of                   *)
(* chain-impl-mockchain: mod.rs, account_state.rs, spending.rs,            *)
(* last_rewards.rs), used for single and for multisig accounts.            *)
(*                                                                         *)
(* A fallible operation maps a ledger to the set of its results: {L} for   *)
(* Ok(L), the empty set for any error.  A spending counter is the u32 of   *)
(* the code, with fewer bits: the lane above, the counter below.           *)
(***************************************************************************)

CONSTANTS
    LanesBits,          \* LANES_BITS
    UnlanesBits,        \* UNLANES_BITS: 29 in the code
    MaxValue,           \* the largest Value, 2^64 - 1 in the code
    MaxDecls            \* DELEGATION_RATIO_MAX_DECLS

ASSUME AccountSizes ==
    /\ LanesBits \in Nat /\ UnlanesBits \in Nat \ {0}
    /\ MaxValue \in Nat /\ MaxDecls \in Nat

Extend(f, x, v) == [y \in DOMAIN f \cup {x} |-> IF y = x THEN v ELSE f[y]]

Drop(f, x) == [y \in DOMAIN f \ {x} |-> f[y]]

checked_add(x, y) == IF x + y > MaxValue THEN {} ELSE {x + y}

checked_sub(x, y) == IF y > x THEN {} ELSE {x - y}

-----------------------------------------------------------------------------
(* Spending counters. *)

LANES == 2 ^ LanesBits

CounterMod == 2 ^ UnlanesBits

ASSUME CounterSizes == LANES \in Nat \ {0} /\ CounterMod \in Nat \ {0}

lane(c) == c \div CounterMod

unlaned_counter(c) == c % CounterMod

CounterNew(l, counter) == l * CounterMod + counter

increment_nth(c, n) == CounterNew(lane(c), (unlaned_counter(c) + n) % CounterMod)

\* Mutant: the last counter of a lane stays the last.
IncrementSaturating(c) == CounterNew(lane(c), Min({unlaned_counter(c) + 1, CounterMod - 1}))

increment(c) == CounterNew(lane(c), (unlaned_counter(c) + 1) % CounterMod)

SpendingDefault == [l \in 0 .. LANES - 1 |-> CounterNew(l, 0)]

next_verify(nexts, counter) ==
    IF nexts[lane(counter)] = counter
    THEN {[nexts EXCEPT ![lane(counter)] = increment(counter)]} ELSE {}

-----------------------------------------------------------------------------
(* The state of an account. *)

RatioIsValid(parts, pools) ==
    /\ \A i \in DOMAIN pools : pools[i][2] # 0
    /\ parts > 1 /\ Len(pools) \in 2 .. MaxDecls
    /\ FoldLeft(LAMBDA total, x : total + x[2], 0, pools) = parts

DelegationRatioNew(parts, pools) ==
    IF RatioIsValid(parts, pools) THEN {[parts |-> parts, pools |-> pools]} ELSE {}

NonDelegated == <<>>

NoRewards == [epoch |-> 0, reward |-> 0]

\* An earlier epoch or a sum out of range would panic: the epochs only grow
\* and the rewards are part of the supply.
add_for(last, epoch, v) ==
    IF epoch = last.epoch THEN [last EXCEPT !.reward = @ + v]
    ELSE [epoch |-> epoch, reward |-> v]

StateNew(v) ==
    [spending |-> SpendingDefault, delegation |-> NonDelegated, value |-> v,
     tokens |-> <<>>, last_rewards |-> NoRewards]

new_reward(epoch, v) == [StateNew(v) EXCEPT !.last_rewards = add_for(@, epoch, v)]

StateAdd(st, v) == {[st EXCEPT !.value = w] : w \in checked_add(st.value, v)}

add_rewards(st, epoch, v) ==
    {[t EXCEPT !.last_rewards = add_for(@, epoch, v)] : t \in StateAdd(st, v)}

\* The value is checked before the counter; an error leaves both alone.
StateSub(st, counter, v) ==
    {[t EXCEPT !.spending = s] :
        t \in {[st EXCEPT !.value = w] : w \in checked_sub(st.value, v)},
        s \in next_verify(st.spending, counter)}

StateTokenAdd(st, token, v) ==
    IF token \in DOMAIN st.tokens
    THEN {[st EXCEPT !.tokens[token] = w] : w \in checked_add(st.tokens[token], v)}
    ELSE {[st EXCEPT !.tokens = Extend(@, token, v)]}

-----------------------------------------------------------------------------
(* The ledger: a map from identifiers to states. *)

\* Hamt::update with a fallible callback, given by its results.
UpdateAccount(L, id, results) ==
    IF id \in DOMAIN L THEN {[L EXCEPT ![id] = st] : st \in results} ELSE {}

add_account(L, id, v) == IF id \in DOMAIN L THEN {} ELSE {Extend(L, id, StateNew(v))}

set_delegation(L, id, delegation) ==
    IF id \in DOMAIN L THEN {[L EXCEPT ![id].delegation = delegation]} ELSE {}

remove_account(L, id) ==
    IF id \in DOMAIN L /\ L[id].value = 0 THEN {Drop(L, id)} ELSE {}

add_value(L, id, v) ==
    IF id \in DOMAIN L THEN UpdateAccount(L, id, StateAdd(L[id], v)) ELSE {}

add_value_or_account(L, id, v) ==
    IF id \in DOMAIN L THEN add_value(L, id, v) ELSE {Extend(L, id, StateNew(v))}

add_rewards_to_account(L, id, epoch, v) ==
    IF id \in DOMAIN L THEN UpdateAccount(L, id, add_rewards(L[id], epoch, v))
    ELSE {Extend(L, id, new_reward(epoch, v))}

remove_value(L, id, counter, v) ==
    IF id \in DOMAIN L THEN UpdateAccount(L, id, StateSub(L[id], counter, v)) ELSE {}

token_add(L, id, token, v) ==
    IF id \in DOMAIN L THEN UpdateAccount(L, id, StateTokenAdd(L[id], token, v)) ELSE {}

get_total_value(L) ==
    LET values == [id \in DOMAIN L |-> L[id].value]
    IN  MapThenSumSet(LAMBDA id : values[id], DOMAIN L)

------------------------------------------------------------------------------
(***************************************************************************)
(* Who controls how much stake (chain-impl-mockchain/src/stake:            *)
(* controlled.rs, stake.rs), computed from a ledger or kept up to date     *)
(* with it.                                                                *)
(***************************************************************************)

wrapping_add(x, y) == (x + y) % (MaxValue + 1)

wrapping_sub(x, y) == (x - y) % (MaxValue + 1)

ControlNew == [assigned |-> 0, unassigned |-> 0, control |-> <<>>]

\* A result of None removes the entry, as an overflow or a difference below
\* zero does.
PutStake(control, id, result) ==
    IF result = {} THEN Drop(control, id)
    ELSE Extend(control, id, CHOOSE s \in result : TRUE)

add_unassigned(sc, stake) == [sc EXCEPT !.unassigned = wrapping_add(@, stake)]

remove_unassigned(sc, stake) == [sc EXCEPT !.unassigned = wrapping_sub(@, stake)]

add_to(sc, id, stake) ==
    [sc EXCEPT !.assigned = wrapping_add(@, stake),
               !.control = PutStake(@, id, IF id \in DOMAIN @
                                           THEN checked_add(@[id], stake) ELSE {stake})]

\* Mutant: only the entry is reduced, not the sum of all entries.
RemoveFromEntry(sc, id, stake) ==
    [sc EXCEPT !.control = IF id \in DOMAIN @
                           THEN PutStake(@, id, checked_sub(@[id], stake)) ELSE @]

\* An entry that is missing is not made.
remove_from(sc, id, stake) ==
    [sc EXCEPT !.assigned = wrapping_sub(@, stake),
               !.control = IF id \in DOMAIN @
                           THEN PutStake(@, id, checked_sub(@[id], stake)) ELSE @]

update_accounts(sc, L) ==
    FoldLeft(LAMBDA s, id : add_to(s, id, L[id].value), sc, SetToSeq(DOMAIN L))

\* Unspent outputs as sequences of [to, value]: to is the account key of a
\* group address, <<>> for an address without one.
update_utxos(sc, outputs) ==
    FoldLeft(LAMBDA s, o : IF o.to = <<>> THEN add_unassigned(s, o.value)
                           ELSE add_to(s, o.to[1], o.value), sc, outputs)

new_with(L, outputs) == update_utxos(update_accounts(ControlNew, L), outputs)

ControlTotal(sc) == sc.assigned + sc.unassigned

by(sc, id) == IF id \in DOMAIN sc.control THEN {sc.control[id]} ELSE {}

-----------------------------------------------------------------------------
(***************************************************************************)
(* Multisig accounts (chain-impl-mockchain/src/multisig): declarations of  *)
(* owners with a threshold, the ledger that keeps an account beside every  *)
(* declaration, and the witness of a spending.                             *)
(*                                                                         *)
(* The hash of a public key is the key, and the identifier of a            *)
(* declaration is the record of what is hashed, so a key and an identifier *)
(* are never equal.  A signature is the pair of its key and its message.   *)
(***************************************************************************)

CONSTANT LevelMax       \* LEVEL_MAXLIMIT

\* DeclElement::to_hash: the key of an owner, the identifier of a declaration.
Owner(key) == [sub |-> FALSE, hash |-> key]

owners_to_identifier(threshold, owners) ==
    [threshold |-> threshold, hashes |-> [i \in DOMAIN owners |-> owners[i].hash]]

to_identifier(decl) == owners_to_identifier(decl.threshold, decl.owners)

Sub(decl) == [sub |-> TRUE, hash |-> to_identifier(decl)]

is_valid(decl) ==
    /\ decl.threshold >= 1 /\ decl.threshold <= Len(decl.owners)
    /\ Len(decl.owners) > 1
    /\ Len(decl.owners) <= LevelMax

-----------------------------------------------------------------------------
(* Witnesses. *)

\* Index::from_u8 takes one index more than a declaration may have owners.
Indexes == 0 .. LevelMax

D1(i) == [depth |-> 1, at |-> <<i>>]

D2(i, j) == [depth |-> 2, at |-> <<i, j>>]

\* What WitnessBuilder has put together: from tree indexes to keys with their
\* signatures, one for each index.
WitnessAppend(witness, index, key, signature) ==
    IF index \in DOMAIN witness THEN {}     \* an assert
    ELSE {Extend(witness, index, [key |-> key, sig |-> signature])}

\* The owners with the witnesses' keys at their places hash to the identifier.
PutKeys(decl, keys) ==
    [i \in DOMAIN decl.owners |->
        IF i - 1 \in DOMAIN keys THEN Owner(keys[i - 1]) ELSE decl.owners[i]]

\* Mutant: the number of witnesses is not compared with the threshold.
AnyNumberOfKeys(decl, keys) ==
    /\ \A i \in DOMAIN keys : i < Len(decl.owners)
    /\ owners_to_identifier(decl.threshold, PutKeys(decl, keys)) = to_identifier(decl)

verify_identifier_threshold(decl, keys) ==
    /\ Cardinality(DOMAIN keys) >= decl.threshold
    /\ \A i \in DOMAIN keys : i < Len(decl.owners)
    /\ owners_to_identifier(decl.threshold, PutKeys(decl, keys)) = to_identifier(decl)

WitnessVerify(witness, decl, msg) ==
    /\ \A ti \in DOMAIN witness :
        /\ ti.depth = 1
        /\ witness[ti].sig = [key |-> witness[ti].key, msg |-> msg]
    /\ verify_identifier_threshold(decl,
            [i \in {ti.at[1] : ti \in DOMAIN witness} |-> witness[D1(i)].key])

-----------------------------------------------------------------------------
(* The ledger. *)

MultisigNew == [accounts |-> <<>>, declarations |-> <<>>]

MultisigAddAccount(M, decl) ==
    LET id == to_identifier(decl) IN
    IF ~is_valid(decl) \/ id \in DOMAIN M.declarations THEN {}
    ELSE {[accounts |-> A, declarations |-> Extend(M.declarations, id, decl)] :
            A \in add_account(M.accounts, id, 0)}

MultisigRemoveAccount(M, id) ==
    IF id \notin DOMAIN M.declarations THEN {}
    ELSE {[accounts |-> A, declarations |-> Drop(M.declarations, id)] :
            A \in remove_account(M.accounts, id)}

MultisigAddValue(M, id, v) ==
    {[M EXCEPT !.accounts = A] : A \in add_value(M.accounts, id, v)}

MultisigRemoveValue(M, id, counter, v) ==
    IF id \notin DOMAIN M.declarations THEN {}
    ELSE {[M EXCEPT !.accounts = A] : A \in remove_value(M.accounts, id, counter, v)}

MultisigSetDelegation(M, id, delegation) ==
    {[M EXCEPT !.accounts = A] : A \in set_delegation(M.accounts, id, delegation)}

\* The value goes first; a witness that does not verify drops the result.
input_multi_account_verify(M, id, msg, witness, counter, v) ==
    {N \in MultisigRemoveValue(M, id, counter, v) :
        WitnessVerify(witness, M.declarations[id], msg)}
=============================================================================
