----------------------------- MODULE BlockStore -----------------------------
(***************************************************************************)
(* The block storage of the node (crate chain-storage): a volatile part    *)
(* held in sled trees, where branches of the chain may be added, tagged    *)
(* and pruned, and a permanent part, two append-only piles plus an index,  *)
(* to which flush_to_permanent_store moves the settled prefix of a branch. *)
(*                                                                         *)
(* A BlockStore is a handle that is cloned between threads.  A sled        *)
(* transaction is one atomic step; everything a method reads or writes     *)
(* outside a transaction is a step of its own, so that the steps of two    *)
(* threads interleave as they do in the program.                           *)
(***************************************************************************)
EXTENDS Integers, Sequences, FiniteSets, Functions

CONSTANTS
    Blocks,        \* identifiers of the blocks that callers may put
    Root,          \* the id the first block names as its parent
    Parent,        \* BlockInfo::parent_id of every block
    ChainLength,   \* BlockInfo::chain_length of every block
    Tags,          \* tag names
    Threads,       \* threads that hold a clone of the store
    May,           \* the methods each thread calls
    MinNumbers,    \* the min_number arguments given to a flush
    FlushTargets,  \* the blocks callers flush up to
    MaxRef,        \* u32::MAX, scaled down
    MaxPile        \* bound: the number of blocks that fit in a pile

Methods == {"put", "tag", "prune", "flush", "get", "stop"}

ASSUME RootAssumption == Root \notin Blocks

ASSUME ParentAssumption == Parent \in [Blocks -> Blocks \cup {Root}]

\* A genesis block has length 0 and every other block one more than its parent.
ASSUME LengthAssumption ==
    /\ ChainLength \in [Blocks -> Nat]
    /\ \A b \in Blocks : ChainLength[b] = IF Parent[b] = Root THEN 0
                                          ELSE ChainLength[Parent[b]] + 1

ASSUME MayAssumption == May \in [Threads -> SUBSET Methods]

\* flush_to_permanent_store panics on a min_number below 1.
ASSUME MinNumberAssumption == MinNumbers \subseteq Nat \ {0}

ASSUME TargetAssumption == FlushTargets \subseteq Blocks

ASSUME BoundAssumption == MaxRef \in Nat /\ MaxPile \in Nat

VARIABLES
    blocks,       \* blocks_tree: ids whose bytes are stored
    info,         \* info_tree: id -> reference counters
    lengthIndex,  \* chain_length_index_tree: pairs <<chain length, id>>
    tips,         \* branches_tips_tree
    tags,         \* tags_tree: tag -> id
    pile,         \* PermanentStore::blocks, the block with sequence number i at i + 1
    pileIds,      \* PermanentStore::chain_length_index, ids by sequence number
    permIndex,    \* PermanentStore::block_id_index: id -> chain length
    pc,           \* where each thread is in the method it runs
    arg,          \* the block the method works on
    ext,          \* put_block: parent_in_permanent_store
    num,          \* flush: min_number, later the position in a loop
    infos,        \* flush: block_infos, the newest block first
    data,         \* flush: the blocks read for put_blocks, the oldest first
    ret           \* what each thread's last method returned

volatile == <<blocks, info, lengthIndex, tips, tags>>
permanent == <<pile, pileIds, permIndex>>
locals == <<arg, ext, num, infos, data>>
vars == <<volatile, permanent, pc, locals, ret>>

-----------------------------------------------------------------------------
(* Trees as partial functions, and the fields of BlockInfo.               *)

Insert(f, k, v) == [x \in DOMAIN f \cup {k} |-> IF x = k THEN v ELSE f[x]]

TreeRemove(f, ks) == [x \in DOMAIN f \ ks |-> f[x]]

FreshInfo == [parentRefs |-> 0, tagRefs |-> 0]

RefCount(i) == i.parentRefs + i.tagRefs

\* u32 arithmetic of a release build: it wraps at both ends.
Inc(n) == IF n = MaxRef THEN 0 ELSE n + 1

\* Mutant: the counter is written back without the decrement.
DecForgotten(n) == n

Dec(n) == IF n = 0 THEN MaxRef ELSE n - 1

InPermanent(b) == b \in DOMAIN permIndex

InVolatile(b) == b \in DOMAIN info

\* block_exists
Stored(b) == InPermanent(b) \/ InVolatile(b)

\* PermanentStore::get_block_by_chain_length, as the set of the block found.
PermanentAt(n) == IF n < Len(pile) THEN {pile[n + 1]} ELSE {}

\* chain_length_index_tree.scan_prefix
IndexedAt(n) == {b \in Blocks : <<n, b>> \in lengthIndex}

Init ==
    /\ blocks = {}
    /\ info = << >>
    /\ lengthIndex = {}
    /\ tips = {}
    /\ tags = << >>
    /\ pile = << >>
    /\ pileIds = << >>
    /\ permIndex = << >>
    /\ pc = [t \in Threads |-> "idle"]
    /\ arg = [t \in Threads |-> Root]
    /\ ext = [t \in Threads |-> FALSE]
    /\ num = [t \in Threads |-> 0]
    /\ infos = [t \in Threads |-> << >>]
    /\ data = [t \in Threads |-> << >>]
    /\ ret = [t \in Threads |-> "none"]

-----------------------------------------------------------------------------
(* Control of a thread: Call starts a method, Goto moves to its next step, *)
(* Return leaves it and forgets its locals.                                *)

Call(t, method) == pc[t] = "idle" /\ method \in May[t]

Goto(t, label) ==
    /\ pc' = [pc EXCEPT ![t] = label]
    /\ UNCHANGED ret

Return(t, result) ==
    /\ pc' = [pc EXCEPT ![t] = "idle"]
    /\ ret' = [ret EXCEPT ![t] = result]
    /\ arg' = [arg EXCEPT ![t] = Root]
    /\ ext' = [ext EXCEPT ![t] = FALSE]
    /\ num' = [num EXCEPT ![t] = 0]
    /\ infos' = [infos EXCEPT ![t] = << >>]
    /\ data' = [data EXCEPT ![t] = << >>]

-----------------------------------------------------------------------------
(* put_block: block_exists, then the lookup of the parent, then the        *)
(* transaction, which trusts both answers.                                 *)

PutBlock(t, b) ==
    /\ Call(t, "put")
    /\ \/ /\ InPermanent(b)
          /\ Return(t, "BlockAlreadyPresent")
       \/ /\ ~InPermanent(b)
          /\ Goto(t, "put_exists_volatile")
          /\ arg' = [arg EXCEPT ![t] = b]
          /\ UNCHANGED <<ext, num, infos, data>>
    /\ UNCHANGED <<volatile, permanent>>

PutExistsVolatile(t) ==
    /\ pc[t] = "put_exists_volatile"
    /\ \/ /\ InVolatile(arg[t])
          /\ Return(t, "BlockAlreadyPresent")
       \/ /\ ~InVolatile(arg[t])
          /\ Goto(t, "put_parent")
          /\ UNCHANGED locals
    /\ UNCHANGED <<volatile, permanent>>

PutParent(t) ==
    /\ pc[t] = "put_parent"
    /\ ext' = [ext EXCEPT ![t] = InPermanent(Parent[arg[t]])]
    /\ Goto(t, "put_txn")
    /\ UNCHANGED <<volatile, permanent, arg, num, infos, data>>

\* put_block_impl without the parent, then with a parent in the volatile store.
WithParentRef(p) == [info EXCEPT ![p].parentRefs = Inc(@)]

PutTxn(t) ==
    LET b == arg[t]
        p == Parent[b]
        inVolatile == ~ext[t] /\ p # Root
    IN  /\ pc[t] = "put_txn"
        /\ \/ /\ inVolatile
              /\ ~InVolatile(p)
              /\ Return(t, "MissingParent")
              /\ UNCHANGED volatile
           \/ /\ inVolatile => InVolatile(p)
              /\ info' = Insert(IF inVolatile THEN WithParentRef(p) ELSE info, b, FreshInfo)
              /\ tips' = (tips \ {p}) \cup {b}
              /\ lengthIndex' = lengthIndex \cup {<<ChainLength[b], b>>}
              /\ blocks' = blocks \cup {b}
              /\ Return(t, "Ok")
              /\ UNCHANGED tags
        /\ UNCHANGED permanent

-----------------------------------------------------------------------------
(* put_tag: one transaction over the info, tags and permanent index trees. *)
(* An abort rolls back the insertion of the tag.                           *)

\* Mutant: the reference of the block the tag leaves is kept.
RetagKeepsOld(i, tag, b) ==
    IF b \in DOMAIN i THEN [i EXCEPT ![b].tagRefs = Inc(@)] ELSE i

Retag(i, tag, b) ==
    LET added == IF b \in DOMAIN i THEN [i EXCEPT ![b].tagRefs = Inc(@)] ELSE i
    IN  IF tag \in DOMAIN tags THEN [added EXCEPT ![tags[tag]].tagRefs = Dec(@)] ELSE added

PutTag(t, tag, b) ==
    /\ Call(t, "tag")
    /\ \/ /\ ~Stored(b)
          /\ Return(t, "BlockNotFound")
          /\ UNCHANGED volatile
       \/ /\ Stored(b)
          /\ tag \in DOMAIN tags
          /\ ~InVolatile(tags[tag])
          /\ Return(t, "TaggedBlock")
          /\ UNCHANGED volatile
       \/ /\ Stored(b)
          /\ tag \in DOMAIN tags => InVolatile(tags[tag])
          /\ info' = Retag(info, tag, b)
          /\ tags' = Insert(tags, tag, b)
          /\ Return(t, "Ok")
          /\ UNCHANGED <<blocks, lengthIndex, tips>>
    /\ UNCHANGED permanent

-----------------------------------------------------------------------------
(* prune_branch: the tip is looked up, one transaction removes blocks from *)
(* the tip down, and a branch that ended at a permanent block may make     *)
(* that block a tip again, outside the transaction.                        *)

\* Mutant: the removal looks at the tags and not at the other children.
UnreferencedByTags(b, tip) ==
    ~InPermanent(b) /\ InVolatile(b) /\ info[b].tagRefs = 0

\* remove_tip_impl takes this block away once its child on the branch is gone.
Unreferenced(b, tip) ==
    /\ ~InPermanent(b)
    /\ InVolatile(b)
    /\ RefCount(info[b]) = (IF b = tip THEN 0 ELSE 1)
    /\ b # tip => info[b].parentRefs = 1

\* The loop over remove_tip_impl goes from a block to its parent as long as the
\* parent is left without references.
ClosedUnderRemoval(S, tip) ==
    /\ Unreferenced(tip, tip) => tip \in S
    /\ \A c \in S : Parent[c] # Root /\ Unreferenced(Parent[c], tip) => Parent[c] \in S

\* The blocks the loop removes: the least set that it does not lead out of.
Removed(tip) ==
    {b \in Blocks : \A S \in SUBSET Blocks : ClosedUnderRemoval(S, tip) => b \in S}

\* The parent of the last block removed, as a set.
Bereft(gone) == {Parent[b] : b \in gone} \ gone

\* The keys build_chain_length_index makes for removed blocks.
LengthKeys(gone) == {<<ChainLength[b], b>> : b \in gone}

PruneBranch(t, tip) ==
    /\ Call(t, "prune")
    /\ \/ /\ tip \notin tips
          /\ Return(t, "BranchNotFound")
       \/ /\ tip \in tips
          /\ Goto(t, "prune_txn")
          /\ arg' = [arg EXCEPT ![t] = tip]
          /\ UNCHANGED <<ext, num, infos, data>>
    /\ UNCHANGED <<volatile, permanent>>

\* Nothing is removed: the tip is permanent or still referenced, or the loop ran
\* into a missing entry and the transaction aborts.
PruneNothing(t) ==
    LET tip      == arg[t]
        orphaned == \E p \in Bereft(Removed(tip)) : p # Root /\ ~Stored(p)
    IN  /\ pc[t] = "prune_txn"
        /\ Removed(tip) = {} \/ orphaned
        /\ Return(t, IF orphaned THEN "MissingParentBlock"
                     ELSE IF Stored(tip) THEN "Ok" ELSE "BlockInfo")
        /\ UNCHANGED <<volatile, permanent>>

PruneTxn(t) ==
    LET gone   == Removed(arg[t])
        shrunk == {p \in Bereft(gone) : InVolatile(p) /\ ~InPermanent(p)}
        left(p) == Dec(info[p].parentRefs)
    IN  /\ pc[t] = "prune_txn"
        /\ gone # {}
        /\ \A p \in Bereft(gone) : p = Root \/ Stored(p)
        /\ blocks' = blocks \ gone
        /\ lengthIndex' = lengthIndex \ LengthKeys(gone)
        /\ info' = [b \in DOMAIN info \ gone |->
                       IF b \in shrunk THEN [info[b] EXCEPT !.parentRefs = left(b)] ELSE info[b]]
        /\ tips' = (tips \ gone) \cup {p \in shrunk : left(p) = 0}
        /\ \/ /\ \A p \in Bereft(gone) : ~InPermanent(p)
              /\ Return(t, "Ok")
           \/ \E p \in Bereft(gone) :
                 /\ InPermanent(p)
                 /\ Goto(t, "prune_look")
                 /\ arg' = [arg EXCEPT ![t] = p]
                 /\ UNCHANGED <<ext, num, infos, data>>
        /\ UNCHANGED <<tags, permanent>>

\* get_blocks_by_chain_length of the length above the permanent block.
PruneLook(t) ==
    LET n == permIndex[arg[t]] + 1
        found == IF PermanentAt(n) # {} THEN PermanentAt(n) ELSE IndexedAt(n)
    IN  /\ pc[t] = "prune_look"
        /\ \/ /\ found = {}
              /\ Goto(t, "prune_tip")
              /\ UNCHANGED locals
           \/ /\ found # {}
              /\ Return(t, IF PermanentAt(n) # {} \/ found \subseteq blocks THEN "Ok"
                           ELSE "ChainLength")
        /\ UNCHANGED <<volatile, permanent>>

PruneTip(t) ==
    /\ pc[t] = "prune_tip"
    /\ tips' = tips \cup {arg[t]}
    /\ Return(t, "Ok")
    /\ UNCHANGED <<blocks, info, lengthIndex, tags, permanent>>

-----------------------------------------------------------------------------
(* flush_to_permanent_store: not a transaction; every access to a tree or  *)
(* a pile is a step.                                                       *)

FlushToPermanentStore(t, to, min) ==
    /\ Call(t, "flush")
    /\ \/ /\ ~InVolatile(to) \/ ChainLength[to] < min
          /\ Return(t, "Ok0")
       \/ /\ InVolatile(to) /\ ChainLength[to] >= min
          /\ Goto(t, "flush_scan")
          /\ arg' = [arg EXCEPT ![t] = to]
          /\ num' = [num EXCEPT ![t] = min]
          /\ infos' = [infos EXCEPT ![t] = <<to>>]
          /\ UNCHANGED <<ext, data>>
    /\ UNCHANGED <<volatile, permanent>>

FlushScan(t) ==
    /\ pc[t] = "flush_scan"
    /\ \/ /\ IndexedAt(ChainLength[arg[t]] - num[t]) = {}
          /\ Return(t, "Ok0")
       \/ /\ IndexedAt(ChainLength[arg[t]] - num[t]) # {}
          /\ Goto(t, "flush_gather")
          /\ UNCHANGED locals
    /\ UNCHANGED <<volatile, permanent>>

\* One round of the loop over the volatile ancestors.
FlushGather(t) ==
    LET p == Parent[infos[t][Len(infos[t])]]
    IN  /\ pc[t] = "flush_gather"
        /\ \/ /\ InVolatile(p)
              /\ infos' = [infos EXCEPT ![t] = Append(@, p)]
              /\ UNCHANGED <<pc, ret, arg, ext, num, data>>
           \/ /\ ~InVolatile(p)
              /\ Len(infos[t]) < num[t]
              /\ Return(t, "Ok0")
           \/ /\ ~InVolatile(p)
              /\ Len(infos[t]) >= num[t]
              /\ Goto(t, "flush_read")
              /\ UNCHANGED locals
        /\ UNCHANGED <<volatile, permanent>>

\* Mutant: the order of the walk is not reversed.
OldestNotReversed(t) == infos[t]

\* The blocks in the order of the chain, as put_blocks receives them.
Oldest(t) == [i \in 1..Len(infos[t]) |-> infos[t][Len(infos[t]) + 1 - i]]

\* What get_block returns for a block, as the set of the block found.
Found(b) ==
    IF InPermanent(b) /\ PermanentAt(permIndex[b]) # {} THEN PermanentAt(permIndex[b])
    ELSE {b} \cap blocks

\* get_block of every block, the oldest first.
FlushRead(t) ==
    /\ pc[t] = "flush_read"
    /\ \/ /\ \E i \in DOMAIN infos[t] : Found(infos[t][i]) = {}
          /\ Return(t, "BlockNotFound")
       \/ /\ \A i \in DOMAIN infos[t] : Found(infos[t][i]) # {}
          /\ data' = [data EXCEPT ![t] =
                         [i \in DOMAIN infos[t] |-> CHOOSE b \in Found(Oldest(t)[i]) : TRUE]]
          /\ Goto(t, "flush_append")
          /\ UNCHANGED <<arg, ext, num, infos>>
    /\ UNCHANGED <<volatile, permanent>>

FlushAppend(t) ==
    /\ pc[t] = "flush_append"
    /\ Len(pile) + Len(data[t]) <= MaxPile
    /\ pile' = pile \o data[t]
    /\ Goto(t, "flush_append_ids")
    /\ UNCHANGED <<volatile, pileIds, permIndex, locals>>

FlushAppendIds(t) ==
    /\ pc[t] = "flush_append_ids"
    /\ pileIds' = pileIds \o Oldest(t)
    /\ num' = [num EXCEPT ![t] = 1]
    /\ Goto(t, "flush_index")
    /\ UNCHANGED <<volatile, pile, permIndex, arg, ext, infos, data>>

\* Mutant: lengths counted from the parent of the oldest block.
StartBelow(t) == ChainLength[infos[t][Len(infos[t])]] - 1

\* start_chain_length
Start(t) == ChainLength[infos[t][Len(infos[t])]]

FlushIndex(t) ==
    LET i    == num[t]
        last == i = Len(infos[t])
    IN  /\ pc[t] = "flush_index"
        /\ permIndex' = Insert(permIndex, Oldest(t)[i], Start(t) + i - 1)
        /\ num' = [num EXCEPT ![t] = IF last THEN 1 ELSE i + 1]
        /\ IF last THEN Goto(t, "flush_remove_info") ELSE UNCHANGED <<pc, ret>>
        /\ UNCHANGED <<volatile, pile, pileIds, arg, ext, infos, data>>

\* The three removals of the i-th round of the last loop.
FlushRemoveInfo(t) ==
    /\ pc[t] = "flush_remove_info"
    /\ info' = TreeRemove(info, {infos[t][num[t]]})
    /\ Goto(t, "flush_remove_block")
    /\ UNCHANGED <<blocks, lengthIndex, tips, tags, permanent, locals>>

\* Mutant: bytes are removed in the order opposite to the infos.
FlushRemoveBlockReversed(t) ==
    /\ pc[t] = "flush_remove_block"
    /\ blocks' = blocks \ {Oldest(t)[num[t]]}
    /\ Goto(t, "flush_remove_length")
    /\ UNCHANGED <<info, lengthIndex, tips, tags, permanent, locals>>

FlushRemoveBlock(t) ==
    /\ pc[t] = "flush_remove_block"
    /\ blocks' = blocks \ {infos[t][num[t]]}
    /\ Goto(t, "flush_remove_length")
    /\ UNCHANGED <<info, lengthIndex, tips, tags, permanent, locals>>

\* The key is built from the round's position, which counts up from the
\* oldest block's length, while the round's block counts down from the newest.
FlushRemoveLength(t) ==
    LET i    == num[t]
        last == i = Len(infos[t])
    IN  /\ pc[t] = "flush_remove_length"
        /\ lengthIndex' = lengthIndex \ {<<Start(t) + i - 1, infos[t][i]>>}
        /\ \/ last /\ Return(t, "Ok")
           \/ /\ ~last
              /\ num' = [num EXCEPT ![t] = i + 1]
              /\ Goto(t, "flush_remove_info")
              /\ UNCHANGED <<arg, ext, infos, data>>
        /\ UNCHANGED <<blocks, info, tips, tags, permanent>>

-----------------------------------------------------------------------------
(* get_block: the permanent store first, then the volatile tree.           *)

GetBlock(t, b) ==
    /\ Call(t, "get")
    /\ LET hit == InPermanent(b) /\ PermanentAt(permIndex[b]) # {}
       IN  \/ /\ hit
              /\ Return(t, IF Found(b) = {b} THEN "Ok" ELSE "WrongBlock")
           \/ /\ ~hit
              /\ Goto(t, "get_volatile")
              /\ arg' = [arg EXCEPT ![t] = b]
              /\ UNCHANGED <<ext, num, infos, data>>
    /\ UNCHANGED <<volatile, permanent>>

GetVolatile(t) ==
    /\ pc[t] = "get_volatile"
    /\ Return(t, IF arg[t] \in blocks THEN "Ok" ELSE "BlockNotFound")
    /\ UNCHANGED <<volatile, permanent>>

-----------------------------------------------------------------------------
(* A backend error (the `?' after every access) or the end of the process  *)
(* stops a method between two steps; the store stays as it then is.        *)

Fail(t) ==
    /\ "stop" \in May[t]
    /\ pc[t] # "idle"
    /\ Return(t, "BackendError")
    /\ UNCHANGED <<volatile, permanent>>

Next ==
    \E t \in Threads :
        \/ \E b \in Blocks : PutBlock(t, b) \/ PruneBranch(t, b) \/ GetBlock(t, b)
        \/ PutExistsVolatile(t) \/ PutParent(t) \/ PutTxn(t)
        \/ \E tag \in Tags, b \in Blocks : PutTag(t, tag, b)
        \/ PruneNothing(t) \/ PruneTxn(t) \/ PruneLook(t) \/ PruneTip(t)
        \/ \E to \in FlushTargets, min \in MinNumbers : FlushToPermanentStore(t, to, min)
        \/ FlushScan(t) \/ FlushGather(t) \/ FlushRead(t)
        \/ FlushAppend(t) \/ FlushAppendIds(t) \/ FlushIndex(t)
        \/ FlushRemoveInfo(t) \/ FlushRemoveBlock(t) \/ FlushRemoveLength(t)
        \/ GetVolatile(t)
        \/ Fail(t)

Spec == Init /\ [][Next]_vars
-----------------------------------------------------------------------------
(* Properties.                                                             *)

Info == [parentRefs : 0..MaxRef, tagRefs : 0..MaxRef]

Labels == {"idle", "put_exists_volatile", "put_parent", "put_txn", "prune_txn",
           "prune_look", "prune_tip", "flush_scan", "flush_gather", "flush_read",
           "flush_append", "flush_append_ids", "flush_index", "flush_remove_info",
           "flush_remove_block", "flush_remove_length", "get_volatile"}

\* A partial function, a sled tree with keys in S and values in T.
IsTree(f, S, T) ==
    /\ DOMAIN f \subseteq S
    /\ f \in [DOMAIN f -> T]

\* Every tree and pile of the store, and every local of a method, holds
\* values of its type.
TypeOK ==
    /\ blocks \subseteq Blocks
    /\ IsTree(info, Blocks, Info)
    /\ lengthIndex \subseteq Nat \X Blocks
    /\ tips \subseteq Blocks
    /\ IsTree(tags, Tags, Blocks)
    /\ pile \in Seq(Blocks)
    /\ pileIds \in Seq(Blocks)
    /\ IsTree(permIndex, Blocks, Nat)
    /\ pc \in [Threads -> Labels]
    /\ arg \in [Threads -> Blocks \cup {Root}]
    /\ ext \in [Threads -> BOOLEAN]
    /\ num \in [Threads -> Nat]
    /\ infos \in [Threads -> Seq(Blocks)]
    /\ data \in [Threads -> Seq(Blocks)]

\* put_block, prune_branch and flush_to_permanent_store keep the info and the
\* bytes of a block together: an entry of the info tree always has its bytes,
\* and bytes without info are those of a block a flush has already indexed.
BytesMatchInfo ==
    /\ DOMAIN info \subseteq blocks
    /\ blocks \ DOMAIN info \subseteq DOMAIN permIndex

\* put_block's MissingParent check and the counters prune_branch consults keep
\* every stored block attached to a stored parent, or to the root id.
ParentsStored ==
    \A b \in Blocks : Stored(b) => Parent[b] = Root \/ Stored(Parent[b])

\* A tag set by put_tag always leads to a stored block, whatever prune_branch
\* and flush_to_permanent_store did to the branch since.
TagsResolve == \A tag \in DOMAIN tags : Stored(tags[tag])

\* What refers to a block finds it: the parent of every stored block and the
\* block of every tag are stored, whoever put, tagged, pruned or flushed in
\* between (put_block, put_tag, prune_branch, flush_to_permanent_store).
ReferencesResolve == ParentsStored /\ TagsResolve

VolatileChildren(b) == {c \in DOMAIN info : Parent[c] = b}

TagsOf(b) == {tag \in DOMAIN tags : tags[tag] = b}

\* The counters of a block that is not permanent count its children in the
\* volatile store and its tags, so that prune_branch may rely on them.
RefCountsExact ==
    \A b \in DOMAIN info \ DOMAIN permIndex :
        info[b] = [parentRefs |-> Cardinality(VolatileChildren(b)),
                   tagRefs |-> Cardinality(TagsOf(b))]

\* branches_tips_tree holds the blocks of the volatile storage that have no
\* descendants, and apart from them only stored blocks.
TipsAreLeaves ==
    /\ \A b \in DOMAIN info \ DOMAIN permIndex : b \in tips <=> VolatileChildren(b) = {}
    /\ \A b \in tips : Stored(b) /\ VolatileChildren(b) \subseteq DOMAIN permIndex

\* The chain length index lists every volatile block under its own length, and
\* lists nothing that is no longer stored.
LengthIndexSound ==
    /\ \A b \in DOMAIN info \ DOMAIN permIndex : <<ChainLength[b], b>> \in lengthIndex
    /\ \A e \in lengthIndex : e[1] = ChainLength[e[2]] /\ Stored(e[2])

\* An indexed permanent block is found in both piles at its chain length, and
\* the piles hold one chain, so reading by length and by id agree.
PermanentAligned ==
    /\ \A b \in DOMAIN permIndex :
          /\ permIndex[b] = ChainLength[b]
          /\ permIndex[b] < Len(pileIds)
          /\ pile[permIndex[b] + 1] = b
          /\ pileIds[permIndex[b] + 1] = b
    /\ \A i \in DOMAIN pile : Parent[pile[i]] = IF i = 1 THEN Root ELSE pile[i - 1]

\* Only the transaction of prune_branch forgets a block, and it forgets no
\* block that is permanent, tagged, or parent of a block that stays.
OnlyPruneForgets ==
    [][ \A b \in Blocks :
          Stored(b) /\ ~Stored(b)' =>
              /\ \E t \in Threads : pc[t] = "prune_txn" /\ pc'[t] # "prune_txn"
              /\ ~InPermanent(b)
              /\ TagsOf(b) = {}
              /\ \A c \in DOMAIN info' : Parent[c] # b ]_vars

\* A flush that is stopped between two of its steps leaves no block half
\* removed: infos, bytes and the chain length index still tell the same.
FlushedPartsAgree == BytesMatchInfo /\ LengthIndexSound
=============================================================================
