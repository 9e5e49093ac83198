------------------------- MODULE BlockStoreQueries -------------------------
(***************************************************************************)
(* The queries of BlockStore that walk the chain: is_ancestor,             *)
(* get_nth_ancestor, find_lowest_common_ancestor, get_blocks_by_chain_length *)
(* and the iterator.  They take shortcuts through the permanent piles and  *)
(* the chain length index; the properties compare their answers with the   *)
(* tree of blocks itself, in every state of a store between two calls.     *)
(***************************************************************************)
EXTENDS BlockStore

Ok(x) == <<"Ok", x>>

None == <<"None">>

Err(e) == <<"Err", e>>

\* Sets of blocks that hold the parents of their blocks.
Closed(S) == \A b \in S : Parent[b] # Root => Parent[b] \in S

\* A block and its ancestors down to the genesis block: the least closed set
\* that has the block.
Ancestry == [b \in Blocks |->
    {a \in Blocks : \A S \in SUBSET Blocks : b \in S /\ Closed(S) => a \in S}]

-----------------------------------------------------------------------------
(* The implementation.                                                    *)

\* chain_length and parent_id of the BlockInfo that get_block_info returns: for
\* a permanent block both come from the permanent store.
InfoLength(b) == IF InPermanent(b) THEN permIndex[b] ELSE ChainLength[b]

InfoParent(b) ==
    IF ~InPermanent(b) THEN Parent[b]
    ELSE IF permIndex[b] = 0 THEN Root
    ELSE pileIds[permIndex[b]]

\* The loops that follow parent_id through the volatile store only: the blocks
\* visited from b on, b included.
VolatileWalk(b) ==
    {x \in Ancestry[b] : \A y \in Ancestry[b] :
        (ChainLength[x] <= ChainLength[y] /\ y # b) => InVolatile(y)}

GetBlocksByChainLength(n) ==
    IF PermanentAt(n) # {} THEN Ok(PermanentAt(n))
    ELSE IF IndexedAt(n) \subseteq blocks THEN Ok(IndexedAt(n))
    ELSE Err("ChainLength")

\* Mutant: the second call of next() is left out.
SoleUnchecked(n) == IndexedAt(n) # {}

\* The index lists exactly one block of the length.
Sole(n) == Cardinality(IndexedAt(n)) = 1

IsAncestor(ancestor, descendant) ==
    LET n    == InfoLength(ancestor)
        dist == InfoLength(descendant) - n
        walk == VolatileWalk(descendant)
    IN  IF ~Stored(descendant) THEN Err("BlockNotFound")
        ELSE IF ancestor = descendant THEN Ok(0)
        ELSE IF ancestor = Root THEN Ok(InfoLength(descendant))
        ELSE IF InPermanent(ancestor) THEN (IF dist > 0 THEN Ok(dist) ELSE None)
        ELSE IF ~InVolatile(ancestor) THEN Err("BlockNotFound")
        ELSE IF dist <= 0 THEN None
        ELSE IF InfoParent(descendant) = ancestor THEN Ok(1)
        ELSE IF Sole(n) \/ ancestor \in walk THEN Ok(dist)
        ELSE None

GetNthAncestor(b, distance) ==
    LET target == InfoLength(b) - distance
        found  == {x \in VolatileWalk(b) : ChainLength[x] = target}
    IN  IF ~Stored(b) THEN Err("BlockNotFound")
        ELSE IF target < 0 THEN Err("CannotIterate")
        ELSE IF target < Len(pileIds) THEN Ok(pileIds[target + 1])
        ELSE IF Sole(target) THEN Ok(CHOOSE x \in IndexedAt(target) : TRUE)
        ELSE IF found # {} THEN Ok(CHOOSE x \in found : TRUE)
        ELSE Err("BlockNotFound")

\* The two-sided climb of find_lowest_common_ancestor, from blocks of length n.
Meet(b1, b2) ==
    LET n == InfoLength(b1)
        Climb[k \in 0..n] == IF k = n THEN <<b1, b2>>
                             ELSE LET q == Climb[k + 1]
                                  IN  IF q[1] = q[2] THEN q
                                      ELSE <<InfoParent(q[1]), InfoParent(q[2])>>
    IN  Climb[0]

FindLowestCommonAncestor(b1, b2) ==
    LET low  == IF ChainLength[b1] > ChainLength[b2] THEN b2 ELSE b1
        high == IF low = b1 THEN b2 ELSE b1
        nth  == GetNthAncestor(high, ChainLength[high] - ChainLength[low])
        top  == Meet(low, nth[2])
    IN  IF InPermanent(b1) /\ InPermanent(b2)
        THEN Ok(IF permIndex[b1] < permIndex[b2] THEN b1 ELSE b2)
        ELSE IF ~Stored(b1) \/ ~Stored(b2) THEN Err("BlockNotFound")
        ELSE IF InPermanent(b1) THEN Ok(b1)
        ELSE IF InPermanent(b2) THEN Ok(b2)
        ELSE IF nth[1] = "Err" THEN nth
        ELSE IF top[1] = top[2] THEN Ok(top[1])
        ELSE None

\* gather_blocks_ids: the volatile blocks from stopAt up to `to'; a gap in the
\* branch is an error.
GatherBlocksIds(to, stopAt) ==
    LET wanted == {x \in Ancestry[to] : ChainLength[x] >= stopAt}
    IN  IF ~InVolatile(to) THEN Ok({})
        ELSE IF \A x \in wanted : InVolatile(x) THEN Ok(wanted)
        ELSE Err("MissingParentBlock")

\* StorageIterator: all the blocks it yields.  In the permanent state it stops
\* when the current length is the length of `to', before yielding it; a
\* distance of 0 starts it beyond that length.
Iterate(to, distance) ==
    LET length  == IF InVolatile(to) THEN ChainLength[to] ELSE permIndex[to]
        from    == length + 1 - distance
        stop    == IF from <= length THEN length ELSE Len(pile)
        piled   == {pile[i + 1] : i \in {j \in from..(stop - 1) : j < Len(pile)}}
        rest    == GatherBlocksIds(to, IF from < Len(pile) THEN Len(pile) ELSE from)
    IN  IF ~Stored(to) THEN Err("BlockNotFound")
        ELSE IF length + 1 < distance THEN Err("CannotIterate")
        ELSE IF from >= Len(pile) THEN rest
        ELSE IF from <= length /\ length <= Len(pile) THEN Ok(piled)
        ELSE IF rest[1] = "Err" THEN rest
        ELSE Ok(piled \cup rest[2])

-----------------------------------------------------------------------------
(* The tree, and the states in which the answers are compared with it.    *)

Quiet == \A t \in Threads : pc[t] = "idle"

\* Branches that left the chain below its permanent part are ready for removal;
\* the queries promise nothing about them.
Settled(b) == Stored(b) /\ DOMAIN permIndex \subseteq Ancestry[b] \cup {c \in Blocks : b \in Ancestry[c]}

TrueDistance(x, y) == IF x \in Ancestry[y] THEN Ok(ChainLength[y] - ChainLength[x]) ELSE None

\* is_ancestor on two blocks of branches that extend the permanent chain tells
\* whether one is the ancestor of the other and at which distance, in spite of
\* its shortcut through the chain length index.
IsAncestorCorrect ==
    Quiet => \A x, y \in Blocks :
        Settled(x) /\ Settled(y) => IsAncestor(x, y) = TrueDistance(x, y)

\* get_nth_ancestor climbs exactly `distance' blocks, whichever of its three
\* ways it takes.
NthAncestorCorrect ==
    Quiet => \A x \in Blocks : Settled(x) =>
        \A k \in 0..ChainLength[x] :
            LET q == GetNthAncestor(x, k)
            IN  q[1] = "Ok" /\ TrueDistance(q[2], x) = Ok(k)

\* find_lowest_common_ancestor finds the highest block below both, and nothing
\* only when the two come from different genesis blocks.
LowestCommonAncestorCorrect ==
    Quiet => \A x, y \in Blocks : Settled(x) /\ Settled(y) =>
        LET q      == FindLowestCommonAncestor(x, y)
            common == Ancestry[x] \cap Ancestry[y]
        IN  IF common = {} THEN q = None
            ELSE /\ q[1] = "Ok"
                 /\ q[2] \in common
                 /\ \A z \in common : ChainLength[z] <= ChainLength[q[2]]

\* get_blocks_by_chain_length never meets an index entry without its block and
\* returns every settled block of the length.
ByChainLengthComplete ==
    Quiet => \A x \in Blocks : Settled(x) =>
        LET q == GetBlocksByChainLength(ChainLength[x])
        IN  q[1] = "Ok" /\ x \in q[2]

\* The block x and its ancestors nearer than k.
Stretch(x, k) == {y \in Ancestry[x] : ChainLength[y] > ChainLength[x] - k}

\* The iterator reaches the length of `to' while it is still in the permanent
\* state, where it compares that length before it asks for the next block.
EndsInPile(x, k) == ChainLength[x] + 1 - k < Len(pile) /\ ChainLength[x] <= Len(pile)

\* The iterator yields the branch of `to' without a gap where the piles end and
\* without a block of another branch.  The last block, `to' itself, is yielded
\* exactly when the iterator has left the permanent state before it; at distance
\* 0 it yields all the permanent blocks above `to' (iterator.rs).
IterateExact ==
    Quiet => \A x \in Blocks : Settled(x) =>
        /\ Iterate(x, 0) = Ok({pile[i] : i \in (ChainLength[x] + 2)..Len(pile)})
        /\ \A k \in 1..(ChainLength[x] + 1) :
            Iterate(x, k) = Ok(IF EndsInPile(x, k) THEN Stretch(x, k) \ {x} ELSE Stretch(x, k))

\* What the documentation of BlockStore::iter says: "`distance == 1` means that
\* only `to_block` will be iterated. `distance == 0` means empty iterator"
\* (block_store.rs:640-642).  The code does so only for blocks above the piles.
IterateAsDocumented ==
    Quiet => \A x \in Blocks : Settled(x) =>
        \A k \in 0..(ChainLength[x] + 1) : Iterate(x, k) = Ok(Stretch(x, k))

\* The answers of all queries are those of the tree of blocks, with whatever
\* part of it flushed, pruned or left behind.
QueriesCorrect ==
    /\ IsAncestorCorrect /\ NthAncestorCorrect /\ LowestCommonAncestorCorrect
    /\ ByChainLengthComplete /\ IterateExact
=============================================================================
