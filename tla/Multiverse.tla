----------------------------- MODULE Multiverse -----------------------------
(***************************************************************************)
(* The multiverse: the ledger states of many blocks kept in memory, pinned *)
(* by the Refs its users hold and thinned out by gc (multiverse.rs).       *)
(*                                                                         *)
(* A state is named by its block: two insertions of one block never        *)
(* overlap, because users add a block when it is new or when get_ref did   *)
(* not find it.  The number of strong pointers to a state is then the      *)
(* number of handles that hold a Ref to its block, plus the entry itself   *)
(* while it is retained.                                                   *)
(***************************************************************************)
EXTENDS Integers, FiniteSets, Sequences, SequencesExt

CONSTANTS
    Blocks,     \* header ids
    Genesis,    \* block0
    Parent,     \* the parent of every other block
    ChainLength,\* the chain length in the header of each block
    Handles,    \* places where users keep a Ref
    NoRef,      \* what a handle holds when it holds no Ref
    Depths      \* the cut_to_depth values gc is called with

ASSUME MultiverseConstants ==
    /\ Genesis \in Blocks /\ NoRef \notin Blocks /\ Depths \subseteq Nat
    /\ IsFiniteSet(Handles)

\* What the verification of a header against its parent demands.
ASSUME HeadersVerified ==
    /\ ChainLength \in [Blocks -> Nat] /\ ChainLength[Genesis] = 0
    /\ \A b \in Blocks \ {Genesis} :
        Parent[b] \in Blocks /\ ChainLength[b] = ChainLength[Parent[b]] + 1

VARIABLES
    store,                  \* blocks the user has in its block storage
    states_by_hash,         \* block -> "retained" or "collectable"
    states_by_chain_length, \* chain length -> blocks
    refs,                   \* handle -> the block it pins, or NoRef
    panicked                \* gc has met a dangling index entry

vars == <<store, states_by_hash, states_by_chain_length, refs, panicked>>

\* Sets of blocks that hold the parents of their blocks.
Closed(S) == \A b \in S : b # Genesis => Parent[b] \in S

\* Blocks from b down to block0: the least closed set with b.
Ancestry == [b \in Blocks |->
    {a \in Blocks : \A S \in SUBSET Blocks : b \in S /\ Closed(S) => a \in S}]

-----------------------------------------------------------------------------
(* Entries. *)

strong_count(b) == Cardinality({h \in Handles : refs[h] = b})

\* Multiverse::get: a collectable entry is found while some Ref is alive.
Gettable(b) ==
    /\ b \in DOMAIN states_by_hash
    /\ states_by_hash[b] = "retained" \/ strong_count(b) > 0

\* Multiverse::insert, on the two maps.
InsertHash(by_hash, b) ==
    [c \in DOMAIN by_hash \cup {b} |-> IF c = b THEN "retained" ELSE by_hash[c]]

InsertLength(by_length, b) ==
    [l \in DOMAIN by_length \cup {ChainLength[b]} |->
        (IF l \in DOMAIN by_length THEN by_length[l] ELSE {})
        \cup (IF l = ChainLength[b] THEN {b} ELSE {})]

-----------------------------------------------------------------------------
(* Garbage collection. *)

\* GcEntry::collect: the entry becomes weak, and may go when nothing pins it.
collect(b) == strong_count(b) = 0

\* Mutant: the gap to the next kept length does not grow.
GcAtNextLength(acc, l, longest) ==
    IF l \notin DOMAIN acc.by_length THEN acc
    ELSE IF l >= acc.to_keep THEN [acc EXCEPT !.to_keep = l]
    ELSE acc

\* One turn of the loop of gc, at the chain length l.
gc_at(acc, l, longest) ==
    IF l \notin DOMAIN acc.by_length THEN acc
    ELSE IF l >= acc.to_keep
    THEN [acc EXCEPT !.to_keep = l + (longest - l) \div 2]
    ELSE LET hashes == acc.by_length[l]
             gone   == {b \in hashes : collect(b)}
         IN  [to_keep |-> acc.to_keep,
              panicked |-> acc.panicked \/ ~(hashes \subseteq DOMAIN acc.by_hash),
              by_hash |-> [b \in DOMAIN acc.by_hash \ gone |->
                            IF b \in hashes THEN "collectable" ELSE acc.by_hash[b]],
              by_length |-> [k \in IF gone = hashes THEN DOMAIN acc.by_length \ {l}
                                   ELSE DOMAIN acc.by_length |->
                                IF k = l THEN hashes \ gone ELSE acc.by_length[k]]]

\* Mutant: the scan starts above block0.
FirstToKeepOne == 1

\* The chain length from which gc keeps the first state it meets.
FirstToKeep == 0

\* Mutant: the states at the cut depth are collected too.
ThresholdAbove(longest, depth) == longest - depth + 1

\* The lengths below this one are scanned, none when the chain is shorter.
gc_threshold_length(longest, depth) == longest - depth

LongestChain == CHOOSE l \in DOMAIN states_by_chain_length :
                    \A k \in DOMAIN states_by_chain_length : k <= l

\* The maps after the loop of gc, which passes the lengths in their order.
GcResult(depth) ==
    FoldLeft(LAMBDA acc, l : gc_at(acc, l, LongestChain),
             [to_keep |-> FirstToKeep, by_hash |-> states_by_hash,
              by_length |-> states_by_chain_length, panicked |-> FALSE],
             [i \in 1 .. gc_threshold_length(LongestChain, depth) |-> i - 1])

gc(depth) ==
    LET result == GcResult(depth)
    IN  /\ ~panicked
        /\ UNCHANGED <<store, refs>>
        /\ states_by_hash' = result.by_hash
        /\ states_by_chain_length' = result.by_length
        /\ panicked' = result.panicked

-----------------------------------------------------------------------------
(* Users. *)

Init ==
    /\ store = {Genesis}
    /\ states_by_hash = [b \in {Genesis} |-> "retained"]
    /\ states_by_chain_length = [l \in {0} |-> {Genesis}]
    /\ refs = [h \in Handles |-> NoRef]
    /\ panicked = FALSE

Pin(h, b) == refs' = [refs EXCEPT ![h] = b]

\* A block is applied to the state of its parent, which the user has pinned,
\* and added; the Ref that insert returns is kept in h.
add(h, b) ==
    /\ ~panicked
    /\ b \notin store
    /\ \E parent \in Handles : refs[parent] = Parent[b]
    /\ store' = store \cup {b}
    /\ states_by_hash' = InsertHash(states_by_hash, b)
    /\ states_by_chain_length' = InsertLength(states_by_chain_length, b)
    /\ Pin(h, b)
    /\ UNCHANGED panicked

\* get_ref, when the state is in memory.
get_ref(h, b) ==
    /\ ~panicked
    /\ refs[h] # b
    /\ Gettable(b)
    /\ Pin(h, b)
    /\ UNCHANGED <<store, states_by_hash, states_by_chain_length, panicked>>

\* The ancestors a search for b passes before it finds one in memory.
Missing(b) == {c \in Ancestry[b] :
    \A a \in Ancestry[b] : Gettable(a) => ChainLength[a] < ChainLength[c]}

\* get_from_storage when b is not in memory: every state above the nearest
\* ancestor in memory is computed again and added; the last Ref is kept.
get_from_storage(h, b) ==
    /\ ~panicked
    /\ b \in store /\ ~Gettable(b)
    /\ \E a \in Ancestry[b] : Gettable(a)
    /\ states_by_hash' =
        [c \in DOMAIN states_by_hash \cup Missing(b) |->
            IF c \in Missing(b) THEN "retained" ELSE states_by_hash[c]]
    /\ states_by_chain_length' =
        [l \in DOMAIN states_by_chain_length \cup {ChainLength[c] : c \in Missing(b)} |->
            (IF l \in DOMAIN states_by_chain_length THEN states_by_chain_length[l] ELSE {})
            \cup {c \in Missing(b) : ChainLength[c] = l}]
    /\ Pin(h, b)
    /\ UNCHANGED <<store, panicked>>

\* A Ref goes out of scope.
drop(h) ==
    /\ ~panicked
    /\ refs[h] # NoRef
    /\ Pin(h, NoRef)
    /\ UNCHANGED <<store, states_by_hash, states_by_chain_length, panicked>>

Next ==
    \/ \E h \in Handles, b \in Blocks : add(h, b)
    \/ \E h \in Handles, b \in Blocks : get_ref(h, b)
    \/ \E h \in Handles, b \in Blocks : get_from_storage(h, b)
    \/ \E h \in Handles : drop(h)
    \/ \E d \in Depths : gc(d)

Spec == Init /\ [][Next]_vars

-----------------------------------------------------------------------------
(* Properties. *)

\* The index by chain length and the map by hash list the same blocks, each at
\* its own length, and no length without blocks stays: gc never runs into its
\* panic!("dangling state index entry") and never leaks an entry it can no
\* longer reach through the index.
IndexExact ==
    /\ ~panicked
    /\ UNION Range(states_by_chain_length) = DOMAIN states_by_hash
    /\ \A l \in DOMAIN states_by_chain_length :
        /\ states_by_chain_length[l] # {}
        /\ \A b \in states_by_chain_length[l] : ChainLength[b] = l

\* A Ref pins its state in memory: as long as it lives, gc leaves the entry
\* and get finds it.
PinnedIsFound == \A h \in Handles : refs[h] # NoRef => Gettable(refs[h])

\* Every stored block can be brought back: get_from_storage never climbs past
\* block0 to its panic "don't know how to reconstruct initial chain state".
Reconstructable == \A b \in store : \E a \in Ancestry[b] : Gettable(a)

Keeps(b) == b \in DOMAIN states_by_hash' /\ states_by_hash'[b] \in {states_by_hash[b], "retained"}

\* Only gc gives a state up, and it leaves those at most its depth below the
\* longest chain alone, on every branch: the blocks a fork is decided on stay
\* in memory without any Ref.
RecentIsKept ==
    [][/\ (\A b \in DOMAIN states_by_hash : Keeps(b)) \/ \E d \in Depths : gc(d)
       /\ \A d \in Depths : gc(d) =>
            \A b \in DOMAIN states_by_hash :
                ChainLength[b] >= LongestChain - d => Keeps(b)]_vars

Pinned(l) == \E h \in Handles : refs[h] # NoRef /\ ChainLength[refs[h]] = l

PowerOfTwo(k) == FoldLeft(LAMBDA acc, i : acc + acc, 1, [i \in 1 .. k |-> i])

\* What gc leaves below the cut, apart from pinned states, is a number of chain
\* lengths logarithmic in the length of the chain, in whatever state it runs:
\* n lengths at depth d need a chain of more than 2^(n - 1) * d, and at depth 0
\* one of more than 2^(n - 2).
SparseBelowCut ==
    \A d \in Depths :
        LET left == {l \in DOMAIN GcResult(d).by_length :
                        l < LongestChain - d /\ ~Pinned(l)}
            n    == Cardinality(left)
        IN  /\ n > 0 => PowerOfTwo(n - 1) * d < LongestChain
            /\ n > 1 => PowerOfTwo(n - 2) < LongestChain

\* What users rely on over any sequence of calls: the two indexes agree, a Ref
\* keeps its state, and every stored block can be brought back.
StatesHeld == IndexExact /\ PinnedIsFound /\ Reconstructable
=============================================================================
