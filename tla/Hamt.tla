-------------------------------- MODULE Hamt ---------------------------------
(* The persistent maps of imhamt and the arrays of sparse-array.             *)
EXTENDS Integers, Sequences, FiniteSets, SequencesExt, FiniteSetsExt

------------------------------------------------------------------------------
(***************************************************************************)
(* The arrays of the sparse-array crate: a bitmap of the indexes in use    *)
(* and the values packed in index order (sparse_array.rs, bitmap.rs), and  *)
(* the wrapper whose remove only clears its own bitmap and leaves the      *)
(* value in the packed array (fast.rs).  A bitmap is the set of its one    *)
(* bits.                                                                   *)
(***************************************************************************)

CONSTANT Absent   \* the None of a lookup

----------------------------------------------------------------------------
(* BitmapIndex *)

\* How many indexes below idx are in use: the place idx has, or would get.
CountBelow(index, idx) == Cardinality({i \in index : i < idx})

GetRealIndex(index, idx) ==
    IF idx \in index THEN CountBelow(index, idx) + 1 ELSE 0

GetFirstIndex(index) == Min(index)

----------------------------------------------------------------------------
(* SparseArray *)

EmptyArray == [index |-> {}, data |-> << >>]

ArrayGet(a, idx) ==
    IF idx \in a.index THEN a.data[GetRealIndex(a.index, idx)] ELSE Absent

ArraySet(a, idx, value) ==
    IF idx \in a.index
    THEN [a EXCEPT !.data[GetRealIndex(a.index, idx)] = value]
    ELSE LET index == a.index \cup {idx} IN
         [index |-> index,
          data |-> InsertAt(a.data, GetRealIndex(index, idx), value)]

----------------------------------------------------------------------------
(* FastSparseArray *)

FastEmpty == [index |-> {}, data |-> EmptyArray]

\* Mutant: the wrapper's own bitmap is not looked at.
FastGetStale(a, idx) == ArrayGet(a.data, idx)

FastGet(a, idx) ==
    IF idx \in a.index THEN ArrayGet(a.data, idx) ELSE Absent

FastSet(a, idx, value) ==
    [index |-> a.index \cup {idx}, data |-> ArraySet(a.data, idx, value)]

FastRemove(a, idx) == [a EXCEPT !.index = @ \ {idx}]

\* The iterator walks its own copy of the bitmap from its first index up.
FastIter(a) ==
    LET walk[index \in SUBSET a.index] ==
            IF index = {} THEN << >>
            ELSE LET first == GetFirstIndex(index) IN
                 <<<<first, FastGet(a, first)>>>> \o walk[index \ {first}]
    IN walk[a.index]

\* FastSparseArrayBuilder and SparseArrayBuilder set pairs one at a time.
FastBuild(pairs) ==
    FoldLeft(LAMBDA a, p : FastSet(a, p[1], p[2]), FastEmpty, pairs)

------------------------------------------------------------------------------
(***************************************************************************)
(* The persistent hash array mapped trie of the imhamt crate (hamt.rs,     *)
(* node/reference.rs, bitmap.rs, hash.rs).  A node packs its children in   *)
(* the order of the bits of its bitmap, the bitmap is the set of its one   *)
(* bits; the child of a key at a level is chosen by a group of bits of the *)
(* key's hash.  An operation returns the new node or an error; a failing   *)
(* assert! is the error Panic.                                             *)
(***************************************************************************)

CONSTANTS
    HashOf,     \* the hash of each key
    HashBits,   \* the width of a hash (64 in the code)
    GroupBits   \* the bits a level of the trie uses (5 in the code)

EntryExists == "EntryExists"
KeyNotFound == "KeyNotFound"
ValueNotMatching == "ValueNotMatching"
CallbackError == "ValueCallbackError"
Panic == "panic"

Leaf(h, k, v) == [t |-> "leaf", h |-> h, k |-> k, v |-> v]
LeafMany(h, col) == [t |-> "many", h |-> h, col |-> col]
SubNode(n) == [t |-> "sub", node |-> n]

Ok(val) == [err |-> "none", val |-> val]
Err(e) == [err |-> e]
IsOk(r) == r.err = "none"

\* wrapping_shr takes the shift modulo the width of the hash.
LevelIndex(hash, lvl) ==
    (hash \div 2 ^ ((lvl * GroupBits) % HashBits)) % 2 ^ GroupBits

----------------------------------------------------------------------------
(* Node *)

EmptyNode == [bitmap |-> {}, children |-> << >>]

\* The option a removal returns: NoNode when the last child is gone.
NoNode == EmptyNode

Singleton(idx, child) == [bitmap |-> {idx}, children |-> <<child>>]

GetChild(node, idx) == node.children[GetRealIndex(node.bitmap, idx)]

SetAt(node, idx, child) ==
    [bitmap |-> node.bitmap \cup {idx},
     children |-> InsertAt(node.children, CountBelow(node.bitmap, idx) + 1,
                           child)]

ClearAt(node, idx) ==
    IF node.bitmap = {idx} THEN NoNode
    ELSE [bitmap |-> node.bitmap \ {idx},
          children |-> RemoveAt(node.children, CountBelow(node.bitmap, idx) + 1)]

ReplaceChild(node, idx, child) ==
    [node EXCEPT !.children[GetRealIndex(node.bitmap, idx)] = child]

ClearOrReplaceAt(node, idx, children) ==
    IF children = {} THEN ClearAt(node, idx)
    ELSE ReplaceChild(node, idx, CHOOSE c \in children : TRUE)

----------------------------------------------------------------------------
(* Collision: the pairs whose keys have the same hash, at least two *)

PositionsOf(col, k) == {i \in DOMAIN col : col[i][1] = k}

CollisionInsert(h, col, k, v) ==
    IF PositionsOf(col, k) # {} THEN Err(EntryExists)
    ELSE Ok({LeafMany(h, Append(col, <<k, v>>))})

\* Mutant: of two pairs the removed one is kept.
CollisionDropOther(h, col, pos) ==
    IF Len(col) = 2 THEN {Leaf(h, col[pos][1], col[pos][2])}
    ELSE {LeafMany(h, RemoveAt(col, pos))}

CollisionDrop(h, col, pos) ==
    IF Len(col) = 2 THEN LET keep == col[3 - pos] IN {Leaf(h, keep[1], keep[2])}
    ELSE {LeafMany(h, RemoveAt(col, pos))}

CollisionRemove(h, col, k) ==
    IF PositionsOf(col, k) = {} THEN Err(KeyNotFound)
    ELSE Ok(CollisionDrop(h, col, Min(PositionsOf(col, k))))

CollisionRemoveMatch(h, col, k, v) ==
    IF PositionsOf(col, k) = {} THEN Err(KeyNotFound)
    ELSE LET pos == Min(PositionsOf(col, k)) IN
         IF col[pos][2] # v THEN Err(ValueNotMatching)
         ELSE Ok(CollisionDrop(h, col, pos))

\* The callback f gives Ok({}) to delete the key, Ok({v}) to store v, or an error.
CollisionUpdate(h, col, k, f(_)) ==
    IF PositionsOf(col, k) = {} THEN Err(KeyNotFound)
    ELSE LET pos == Min(PositionsOf(col, k))
             new == f(col[pos][2]) IN
         IF ~IsOk(new) THEN new
         ELSE IF new.val = {} THEN Ok(CollisionDrop(h, col, pos))
         ELSE Ok({LeafMany(h, [col EXCEPT ![pos] = <<k, v>>]) : v \in new.val})

CollisionReplaceWith(h, col, k, g(_)) ==
    CollisionUpdate(h, col, k, LAMBDA v : Ok({g(v)}))

----------------------------------------------------------------------------
(* The recursive operations *)

RECURSIVE insert_rec(_, _, _, _, _)
insert_rec(node, hash, lvl, key, value) ==
    LET idx == LevelIndex(hash, lvl)
        Into(sub) ==
            LET r == insert_rec(sub, hash, lvl + 1, key, value) IN
            IF IsOk(r) THEN Ok(ReplaceChild(node, idx, SubNode(r.val))) ELSE r IN
    IF idx \notin node.bitmap THEN Ok(SetAt(node, idx, Leaf(hash, key, value)))
    ELSE LET e == GetChild(node, idx) IN
         CASE e.t = "leaf" /\ e.h = hash /\ e.k = key -> Err(EntryExists)
           [] e.t = "leaf" /\ e.h = hash /\ e.k # key ->
                Ok(ReplaceChild(node, idx,
                             LeafMany(hash, <<<<e.k, e.v>>, <<key, value>>>>)))
           [] e.t = "leaf" /\ e.h # hash ->
                LET leafIdx == LevelIndex(e.h, lvl + 1)
                    nextIdx == LevelIndex(hash, lvl + 1)
                    subnode == Singleton(leafIdx, e) IN
                IF nextIdx = leafIdx THEN Into(subnode)
                ELSE Ok(ReplaceChild(node, idx, SubNode(
                            SetAt(subnode, nextIdx, Leaf(hash, key, value)))))
           [] e.t = "many" ->
                IF e.h # hash THEN Err(Panic)
                ELSE LET r == CollisionInsert(e.h, e.col, key, value) IN
                     IF IsOk(r) THEN Ok(ClearOrReplaceAt(node, idx, r.val)) ELSE r
           [] e.t = "sub" -> Into(e.node)

\* The way down that remove_rec, remove_eq_rec, update_rec, replace_rec and
\* replace_with_rec share: the entry that must hold the key.
RECURSIVE FindEntry(_, _, _, _)
FindEntry(node, hash, lvl, key) ==
    LET idx == LevelIndex(hash, lvl) IN
    IF idx \notin node.bitmap THEN Err(KeyNotFound)
    ELSE LET e == GetChild(node, idx) IN
         CASE e.t = "leaf" -> IF e.h = hash /\ e.k = key THEN Ok(e)
                              ELSE Err(KeyNotFound)
           [] e.t = "many" -> IF e.h # hash THEN Err(Panic) ELSE Ok(e)
           [] e.t = "sub" -> FindEntry(e.node, hash, lvl + 1, key)

\* And the way up: the entry is replaced, or cleared with every node that its
\* removal empties.
RECURSIVE PutEntry(_, _, _, _)
PutEntry(node, hash, lvl, entries) ==
    LET idx == LevelIndex(hash, lvl)
        e == GetChild(node, idx) IN
    IF e.t # "sub" THEN ClearOrReplaceAt(node, idx, entries)
    ELSE LET sub == PutEntry(e.node, hash, lvl + 1, entries) IN
         IF sub = NoNode THEN ClearAt(node, idx)
         ELSE ReplaceChild(node, idx, SubNode(sub))

\* Change(e) is Ok of the new entry, if any, or an error.
Modify(node, hash, key, Change(_)) ==
    LET found == FindEntry(node, hash, 0, key) IN
    IF ~IsOk(found) THEN found
    ELSE LET new == Change(found.val) IN
         IF IsOk(new) THEN Ok(PutEntry(node, hash, 0, new.val)) ELSE new

remove_eq_rec(node, hash, key, value) ==
    Modify(node, hash, key, LAMBDA e :
        IF e.t = "many" THEN CollisionRemoveMatch(hash, e.col, key, value)
        ELSE IF e.v = value THEN Ok({})
        ELSE Err(ValueNotMatching))

remove_rec(node, hash, key) ==
    Modify(node, hash, key, LAMBDA e :
        IF e.t = "many" THEN CollisionRemove(hash, e.col, key) ELSE Ok({}))

update_rec(node, hash, key, f(_)) ==
    Modify(node, hash, key, LAMBDA e :
        IF e.t = "many" THEN CollisionUpdate(hash, e.col, key, f)
        ELSE IF ~IsOk(f(e.v)) THEN f(e.v)
        ELSE Ok({Leaf(e.h, e.k, v) : v \in f(e.v).val}))

replace_with_rec(node, hash, key, g(_)) ==
    Modify(node, hash, key, LAMBDA e :
        IF e.t = "many" THEN CollisionReplaceWith(e.h, e.col, key, g)
        ELSE Ok({Leaf(e.h, e.k, g(e.v))}))

RECURSIVE lookup_from(_, _, _, _)
lookup_from(node, hash, lvl, key) ==
    LET idx == LevelIndex(hash, lvl) IN
    IF idx \notin node.bitmap THEN Absent
    ELSE LET e == GetChild(node, idx) IN
         CASE e.t = "leaf" -> IF e.h = hash /\ e.k = key THEN e.v ELSE Absent
           [] e.t = "many" ->
                IF e.h # hash \/ PositionsOf(e.col, key) = {} THEN Absent
                ELSE e.col[Min(PositionsOf(e.col, key))][2]
           [] e.t = "sub" -> lookup_from(e.node, hash, lvl + 1, key)

\* Mutant: a collision list counts as one entry.
SizeOfEntries(node) == Len(node.children)

RECURSIVE size_rec(_)
size_rec(node) ==
    FoldLeft(LAMBDA sum, e : sum + CASE e.t = "leaf" -> 1
                                     [] e.t = "many" -> Len(e.col)
                                     [] e.t = "sub" -> size_rec(e.node),
             0, node.children)

----------------------------------------------------------------------------
(* Hamt *)

HamtInsert(trie, k, v) == insert_rec(trie, HashOf[k], 0, k, v)
HamtRemoveMatch(trie, k, v) == remove_eq_rec(trie, HashOf[k], k, v)
HamtRemove(trie, k) == remove_rec(trie, HashOf[k], k)
HamtReplace(trie, k, v) == replace_with_rec(trie, HashOf[k], k, LAMBDA old : v)
HamtReplaceWith(trie, k, g(_)) == replace_with_rec(trie, HashOf[k], k, g)
HamtUpdate(trie, k, f(_)) == update_rec(trie, HashOf[k], k, f)
HamtLookup(trie, k) == lookup_from(trie, HashOf[k], 0, k)

HamtInsertOrUpdate(trie, k, v, f(_)) ==
    LET r == HamtUpdate(trie, k, f) IN
    IF r.err = KeyNotFound
    THEN LET i == HamtInsert(trie, k, v) IN IF IsOk(i) THEN i ELSE Err(Panic)
    ELSE r

\* The iterator keeps a stack of node iterators and the collision it is in.
RECURSIVE HamtIter(_)
HamtIter(node) ==
    FoldLeft(LAMBDA seen, e : seen \o CASE e.t = "leaf" -> <<<<e.k, e.v>>>>
                                        [] e.t = "many" -> e.col
                                        [] e.t = "sub" -> HamtIter(e.node),
             << >>, node.children)

\* A pair that cannot be inserted is skipped; a panic is not caught.
HamtFromIter(pairs) ==
    FoldLeft(LAMBDA made, p :
                IF ~IsOk(made) THEN made
                ELSE LET r == HamtInsert(made.val, p[1], p[2]) IN
                     IF IsOk(r) \/ r.err = Panic THEN r ELSE made,
             Ok(EmptyNode), pairs)

\* PartialEq looks the entries of one trie up in the other.
TrieEq(one, other) ==
    /\ (one = EmptyNode) = (other = EmptyNode)
    /\ \A i \in DOMAIN HamtIter(one) :
            HamtLookup(other, HamtIter(one)[i][1]) = HamtIter(one)[i][2]
==============================================================================
