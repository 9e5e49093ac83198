-------------------------- MODULE BlockStoreProofs --------------------------
(***************************************************************************)
(* Theorems about the block store and its queries, for every tree of       *)
(* blocks, every set of tags and every number of threads.                  *)
(***************************************************************************)
EXTENDS BlockStoreQueries, FiniteSetTheorems, TLAPS

-----------------------------------------------------------------------------
(* Type correctness.                                                       *)

FlushLoopLabels == {"flush_index", "flush_remove_info", "flush_remove_block",
                    "flush_remove_length"}

FlushLabels == FlushLoopLabels \cup {"flush_scan", "flush_gather", "flush_read",
                                     "flush_append", "flush_append_ids"}

\* The locals a method relies on at each of its steps.
LocalsOK ==
    \A t \in Threads :
        /\ pc[t] # "idle" => arg[t] \in Blocks
        /\ pc[t] \in FlushLabels => infos[t] # << >>
        /\ pc[t] \in FlushLoopLabels => num[t] \in 1..Len(infos[t])

TypeInv == TypeOK /\ LocalsOK

\* Inserting an entry keeps a tree a tree (sled insert).
LEMMA IsTreeInsert ==
    ASSUME NEW S, NEW T, NEW f, IsTree(f, S, T), NEW k \in S, NEW v \in T
    PROVE  IsTree(Insert(f, k, v), S, T) /\ DOMAIN Insert(f, k, v) = DOMAIN f \cup {k}
BY DEF IsTree, Insert

\* Removing entries keeps a tree a tree (sled remove).
LEMMA IsTreeRemove ==
    ASSUME NEW S, NEW T, NEW f, IsTree(f, S, T), NEW ks
    PROVE  IsTree(TreeRemove(f, ks), S, T) /\ DOMAIN TreeRemove(f, ks) = DOMAIN f \ ks
BY DEF IsTree, TreeRemove

\* Reference counters stay 32-bit numbers, wrapping around at both ends.
LEMMA CounterTypes ==
    ASSUME NEW n \in 0..MaxRef
    PROVE  Inc(n) \in 0..MaxRef /\ Dec(n) \in 0..MaxRef
BY BoundAssumption DEF Inc, Dec

\* Writing the parent counter of a stored block keeps the info tree well typed.
LEMMA ParentInfoType ==
    ASSUME NEW f, IsTree(f, Blocks, Info), NEW p \in DOMAIN f, NEW n \in 0..MaxRef
    PROVE  IsTree([f EXCEPT ![p].parentRefs = n], Blocks, Info)
BY DEF IsTree, Info

\* Writing the tag counter of a stored block keeps the info tree well typed.
LEMMA TagInfoType ==
    ASSUME NEW f, IsTree(f, Blocks, Info), NEW p \in DOMAIN f, NEW n \in 0..MaxRef
    PROVE  IsTree([f EXCEPT ![p].tagRefs = n], Blocks, Info)
BY DEF IsTree, Info

\* The counters read from the info tree are 32-bit numbers.
LEMMA InfoFields ==
    ASSUME NEW f, IsTree(f, Blocks, Info), NEW p \in DOMAIN f
    PROVE  f[p].parentRefs \in 0..MaxRef /\ f[p].tagRefs \in 0..MaxRef
BY DEF IsTree, Info

\* A returning method leaves well-typed locals.
LEMMA ReturnType ==
    ASSUME TypeInv, NEW t \in Threads, NEW r, Return(t, r)
    PROVE  /\ pc' \in [Threads -> Labels]
           /\ arg' \in [Threads -> Blocks \cup {Root}]
           /\ ext' \in [Threads -> BOOLEAN]
           /\ num' \in [Threads -> Nat]
           /\ infos' \in [Threads -> Seq(Blocks)]
           /\ data' \in [Threads -> Seq(Blocks)]
           /\ LocalsOK'
BY DEF TypeInv, TypeOK, LocalsOK, Return, Labels, FlushLabels, FlushLoopLabels

\* A new store is empty and well typed (BlockStore::new).
LEMMA TypeInit == Init => TypeInv
<1> SUFFICES ASSUME Init PROVE TypeInv
  OBVIOUS
<1>1. \A S, T : IsTree(<< >>, S, T)
  BY DEF IsTree
<1> QED
  BY <1>1 DEF Init, TypeInv, TypeOK, LocalsOK, Labels, FlushLabels, FlushLoopLabels

\* The steps of put_block preserve types.
LEMMA TypePut ==
    ASSUME TypeInv, NEW t \in Threads,
           \/ \E b \in Blocks : PutBlock(t, b)
           \/ PutExistsVolatile(t) \/ PutParent(t) \/ PutTxn(t)
    PROVE  TypeInv'
<1>1. ASSUME NEW b \in Blocks, PutBlock(t, b) PROVE TypeInv'
  BY <1>1, ReturnType DEF PutBlock, Goto, Call, TypeInv, TypeOK, LocalsOK, volatile, permanent,
                          Labels, FlushLabels, FlushLoopLabels
<1>2. CASE PutExistsVolatile(t)
  BY <1>2, ReturnType DEF PutExistsVolatile, Goto, TypeInv, TypeOK, LocalsOK, volatile, permanent,
                          locals, Labels, FlushLabels, FlushLoopLabels
<1>3. CASE PutParent(t)
  BY <1>3 DEF PutParent, Goto, TypeInv, TypeOK, LocalsOK, volatile, permanent, InPermanent,
              Labels, FlushLabels, FlushLoopLabels
<1>4. CASE PutTxn(t)
  <2> DEFINE p == Parent[arg[t]]
  <2>1. arg[t] \in Blocks /\ ChainLength[arg[t]] \in Nat
    BY <1>4, LengthAssumption DEF PutTxn, TypeInv, LocalsOK
  <2>2. \A r : Return(t, r) => /\ pc' \in [Threads -> Labels]
                               /\ arg' \in [Threads -> Blocks \cup {Root}]
                               /\ ext' \in [Threads -> BOOLEAN]
                               /\ num' \in [Threads -> Nat]
                               /\ infos' \in [Threads -> Seq(Blocks)]
                               /\ data' \in [Threads -> Seq(Blocks)]
                               /\ LocalsOK'
    BY ReturnType
  <2>3. FreshInfo \in Info
    BY BoundAssumption DEF FreshInfo, Info
  <2>4. p \in DOMAIN info => IsTree(WithParentRef(p), Blocks, Info)
    <3> SUFFICES ASSUME p \in DOMAIN info PROVE IsTree(WithParentRef(p), Blocks, Info)
      OBVIOUS
    <3>1. Inc(info[p].parentRefs) \in 0..MaxRef
      BY InfoFields, CounterTypes DEF TypeInv, TypeOK
    <3> QED BY <3>1, ParentInfoType DEF TypeInv, TypeOK, WithParentRef
  <2>5. IsTree(info', Blocks, Info)
    <3> DEFINE base == IF ~ext[t] /\ p # Root THEN WithParentRef(p) ELSE info
    <3>1. CASE UNCHANGED volatile
      BY <3>1 DEF TypeInv, TypeOK, volatile
    <3>2. CASE /\ ~ext[t] /\ p # Root => InVolatile(p)
               /\ info' = Insert(base, arg[t], FreshInfo)
      <4>1. IsTree(base, Blocks, Info)
        BY <2>4, <3>2 DEF InVolatile, TypeInv, TypeOK
      <4> HIDE DEF base
      <4> QED BY <2>1, <2>3, <3>2, <4>1, IsTreeInsert
    <3> QED BY <1>4, <3>1, <3>2 DEF PutTxn
  <2>6. /\ blocks' \subseteq Blocks /\ lengthIndex' \subseteq Nat \X Blocks /\ tips' \subseteq Blocks
        /\ tags' = tags
    BY <1>4, <2>1 DEF PutTxn, TypeInv, TypeOK, volatile
  <2> QED
    BY <1>4, <2>2, <2>5, <2>6 DEF PutTxn, TypeInv, TypeOK, permanent
<1> QED BY <1>1, <1>2, <1>3, <1>4

\* put_tag preserves types, whichever block the tag leaves.
LEMMA TypePutTag ==
    ASSUME TypeInv, NEW t \in Threads, NEW tag \in Tags, NEW b \in Blocks, PutTag(t, tag, b)
    PROVE  TypeInv'
<1>1. ASSUME tag \in DOMAIN tags => InVolatile(tags[tag])
      PROVE  IsTree(Retag(info, tag, b), Blocks, Info)
  <2> DEFINE added == IF b \in DOMAIN info THEN [info EXCEPT ![b].tagRefs = Inc(@)] ELSE info
  <2>1. IsTree(added, Blocks, Info) /\ DOMAIN added = DOMAIN info
    <3>1. b \in DOMAIN info => Inc(info[b].tagRefs) \in 0..MaxRef
      BY InfoFields, CounterTypes DEF TypeInv, TypeOK
    <3> QED BY <3>1, TagInfoType DEF TypeInv, TypeOK
  <2> HIDE DEF added
  <2>2. tag \in DOMAIN tags => Dec(added[tags[tag]].tagRefs) \in 0..MaxRef
    BY <1>1, <2>1, InfoFields, CounterTypes DEF InVolatile
  <2>3. tag \in DOMAIN tags => IsTree([added EXCEPT ![tags[tag]].tagRefs = Dec(@)], Blocks, Info)
    BY <1>1, <2>1, <2>2, TagInfoType DEF InVolatile
  <2> QED BY <2>1, <2>3 DEF Retag, added
<1>2. IsTree(Insert(tags, tag, b), Tags, Blocks)
  BY IsTreeInsert DEF TypeInv, TypeOK
<1> QED
  BY <1>1, <1>2, ReturnType DEF PutTag, TypeInv, TypeOK, volatile, permanent

\* The steps of prune_branch outside its transaction preserve types.
LEMMA TypePrune ==
    ASSUME TypeInv, NEW t \in Threads,
           \/ \E b \in Blocks : PruneBranch(t, b)
           \/ PruneNothing(t) \/ PruneLook(t) \/ PruneTip(t)
    PROVE  TypeInv'
<1>1. ASSUME NEW b \in Blocks, PruneBranch(t, b) PROVE TypeInv'
  BY <1>1, ReturnType DEF PruneBranch, Goto, Call, TypeInv, TypeOK, LocalsOK, volatile, permanent,
                          Labels, FlushLabels, FlushLoopLabels
<1>2. CASE PruneNothing(t)
  BY <1>2, ReturnType DEF PruneNothing, TypeInv, TypeOK, volatile, permanent
<1>3. CASE PruneLook(t)
  BY <1>3, ReturnType DEF PruneLook, Goto, TypeInv, TypeOK, LocalsOK, volatile, permanent, locals,
                          Labels, FlushLabels, FlushLoopLabels
<1>4. CASE PruneTip(t)
  <2>1. arg[t] \in Blocks
    BY <1>4 DEF PruneTip, TypeInv, LocalsOK
  <2> QED BY <1>4, <2>1, ReturnType DEF PruneTip, TypeInv, TypeOK, permanent
<1> QED BY <1>1, <1>2, <1>3, <1>4

\* The transaction of prune_branch preserves types, whatever it removes.
LEMMA TypePruneTxn ==
    ASSUME TypeInv, NEW t \in Threads, PruneTxn(t)
    PROVE  TypeInv'
<1> DEFINE gone == Removed(arg[t])
           shrunk == {p \in Bereft(gone) : InVolatile(p) /\ ~InPermanent(p)}
<1>1. IsTree(info', Blocks, Info)
  <2>1. \A p \in DOMAIN info : Dec(info[p].parentRefs) \in 0..MaxRef
    BY InfoFields, CounterTypes DEF TypeInv, TypeOK
  <2>2. \A p \in DOMAIN info : [info[p] EXCEPT !.parentRefs = Dec(info[p].parentRefs)] \in Info
    BY <2>1 DEF TypeInv, TypeOK, IsTree, Info
  <2>3. \A p \in shrunk : p \in DOMAIN info
    BY DEF InVolatile
  <2> HIDE DEF gone, shrunk
  <2>4. info' = [x \in DOMAIN info \ gone |->
                   IF x \in shrunk THEN [info[x] EXCEPT !.parentRefs = Dec(info[x].parentRefs)]
                   ELSE info[x]]
    BY DEF PruneTxn, gone, shrunk
  <2> QED BY <2>2, <2>3, <2>4 DEF TypeInv, TypeOK, IsTree
<1>2. blocks' \subseteq Blocks /\ lengthIndex' \subseteq Nat \X Blocks
  BY DEF PruneTxn, TypeInv, TypeOK
<1>3. tips' \subseteq Blocks
  BY DEF PruneTxn, TypeInv, TypeOK, InVolatile, IsTree
<1>4. /\ pc' \in [Threads -> Labels]
      /\ arg' \in [Threads -> Blocks \cup {Root}]
      /\ ext' \in [Threads -> BOOLEAN]
      /\ num' \in [Threads -> Nat]
      /\ infos' \in [Threads -> Seq(Blocks)]
      /\ data' \in [Threads -> Seq(Blocks)]
      /\ LocalsOK'
  <2>1. CASE Return(t, "Ok")
    BY <2>1, ReturnType
  <2>2. CASE \E p \in Bereft(gone) : /\ InPermanent(p)
                                     /\ Goto(t, "prune_look")
                                     /\ arg' = [arg EXCEPT ![t] = p]
                                     /\ UNCHANGED <<ext, num, infos, data>>
    <3> HIDE DEF gone
    <3>1. PICK p \in Bereft(gone) : /\ InPermanent(p)
                                    /\ Goto(t, "prune_look")
                                    /\ arg' = [arg EXCEPT ![t] = p]
                                    /\ UNCHANGED <<ext, num, infos, data>>
      BY <2>2
    <3>2. p \in Blocks
      BY <3>1 DEF InPermanent, TypeInv, TypeOK, IsTree
    <3> QED BY <3>1, <3>2 DEF Goto, TypeInv, TypeOK, LocalsOK, Labels, FlushLabels, FlushLoopLabels
  <2> QED BY <2>1, <2>2 DEF PruneTxn
<1> QED
  BY <1>1, <1>2, <1>3, <1>4 DEF PruneTxn, TypeInv, TypeOK, permanent

\* The steps of a flush up to the index preserve types; the loops get at
\* least one block.
LEMMA TypeFlush ==
    ASSUME TypeInv, NEW t \in Threads,
           \/ \E to \in FlushTargets, min \in MinNumbers : FlushToPermanentStore(t, to, min)
           \/ FlushScan(t) \/ FlushGather(t) \/ FlushRead(t)
           \/ FlushAppend(t) \/ FlushAppendIds(t) \/ FlushIndex(t)
    PROVE  TypeInv'
<1>1. ASSUME NEW to \in FlushTargets, NEW min \in MinNumbers, FlushToPermanentStore(t, to, min)
      PROVE  TypeInv'
  <2>1. to \in Blocks /\ min \in Nat /\ <<to>> \in Seq(Blocks) /\ <<to>> # << >>
    BY TargetAssumption, MinNumberAssumption
  <2>2. CASE Return(t, "Ok0")
    BY <1>1, <2>2, ReturnType DEF FlushToPermanentStore, TypeInv, TypeOK, volatile, permanent
  <2>3. CASE /\ Goto(t, "flush_scan")
             /\ arg' = [arg EXCEPT ![t] = to]
             /\ num' = [num EXCEPT ![t] = min]
             /\ infos' = [infos EXCEPT ![t] = <<to>>]
             /\ UNCHANGED <<ext, data>>
    BY <1>1, <2>1, <2>3 DEF FlushToPermanentStore, Goto, TypeInv, TypeOK, LocalsOK, volatile, permanent,
                            Labels, FlushLabels, FlushLoopLabels
  <2> QED BY <1>1, <2>2, <2>3 DEF FlushToPermanentStore
<1>2. CASE FlushScan(t)
  BY <1>2, ReturnType DEF FlushScan, Goto, TypeInv, TypeOK, LocalsOK, volatile, permanent, locals,
                          Labels, FlushLabels, FlushLoopLabels
<1>3. CASE FlushGather(t)
  <2> DEFINE p == Parent[infos[t][Len(infos[t])]]
  <2>1. CASE InVolatile(p) /\ infos' = [infos EXCEPT ![t] = Append(@, p)]
             /\ UNCHANGED <<pc, ret, arg, ext, num, data>>
    <3> HIDE DEF p
    <3>1. p \in Blocks
      BY <2>1 DEF InVolatile, TypeInv, TypeOK, IsTree
    <3>2. Append(infos[t], p) \in Seq(Blocks) /\ Append(infos[t], p) # << >>
      <4>1. infos[t] \in Seq(Blocks)
        BY DEF TypeInv, TypeOK
      <4>2. Append(infos[t], p) \in Seq(Blocks) /\ Len(Append(infos[t], p)) = Len(infos[t]) + 1
        BY <3>1, <4>1
      <4> QED BY <4>1, <4>2
    <3>3. pc[t] = "flush_gather"
      BY <1>3 DEF FlushGather
    <3> QED BY <1>3, <2>1, <3>2, <3>3 DEF FlushGather, TypeInv, TypeOK, LocalsOK, volatile, permanent,
                                          FlushLabels, FlushLoopLabels
  <2>2. CASE Return(t, "Ok0")
    BY <1>3, <2>2, ReturnType DEF FlushGather, TypeInv, TypeOK, volatile, permanent
  <2>3. CASE Goto(t, "flush_read") /\ UNCHANGED locals
    BY <1>3, <2>3 DEF FlushGather, Goto, TypeInv, TypeOK, LocalsOK, volatile, permanent, locals,
                      Labels, FlushLabels, FlushLoopLabels
  <2> QED BY <1>3, <2>1, <2>2, <2>3 DEF FlushGather
<1>4. CASE FlushRead(t)
  <2>1. CASE Return(t, "BlockNotFound")
    BY <1>4, <2>1, ReturnType DEF FlushRead, TypeInv, TypeOK, volatile, permanent
  <2>2. CASE /\ \A i \in DOMAIN infos[t] : Found(infos[t][i]) # {}
             /\ data' = [data EXCEPT ![t] =
                            [i \in DOMAIN infos[t] |-> CHOOSE b \in Found(Oldest(t)[i]) : TRUE]]
             /\ Goto(t, "flush_append")
             /\ UNCHANGED <<arg, ext, num, infos>>
    <3> DEFINE read == [i \in DOMAIN infos[t] |-> CHOOSE b \in Found(Oldest(t)[i]) : TRUE]
    <3>1. \A b \in Blocks : Found(b) \subseteq Blocks
      <4> SUFFICES ASSUME NEW b \in Blocks PROVE Found(b) \subseteq Blocks
        OBVIOUS
      <4>1. \A n \in Nat : PermanentAt(n) \subseteq Blocks
        BY DEF PermanentAt, TypeInv, TypeOK
      <4>2. b \in DOMAIN permIndex => permIndex[b] \in Nat
        BY DEF TypeInv, TypeOK, IsTree
      <4> QED BY <4>1, <4>2 DEF Found, InPermanent
    <3>2. read \in Seq(Blocks)
      <4>1. infos[t] \in Seq(Blocks)
        BY DEF TypeInv, TypeOK
      <4>2. \A i \in 1..Len(infos[t]) : Oldest(t)[i] \in Blocks /\ Found(Oldest(t)[i]) # {}
        <5> SUFFICES ASSUME NEW i \in 1..Len(infos[t])
                     PROVE  Oldest(t)[i] \in Blocks /\ Found(Oldest(t)[i]) # {}
          OBVIOUS
        <5>1. Len(infos[t]) + 1 - i \in DOMAIN infos[t]
          BY <4>1
        <5>2. Oldest(t)[i] = infos[t][Len(infos[t]) + 1 - i]
          BY DEF Oldest
        <5> QED BY <2>2, <4>1, <5>1, <5>2
      <4>3. \A i \in 1..Len(infos[t]) : (CHOOSE b \in Found(Oldest(t)[i]) : TRUE) \in Blocks
        BY <3>1, <4>2
      <4>4. read \in [1..Len(infos[t]) -> Blocks] /\ Len(infos[t]) \in Nat
        BY <4>1, <4>3
      <4> HIDE DEF read
      <4> QED BY <4>4
    <3>3. data' = [data EXCEPT ![t] = read]
      BY <2>2
    <3> HIDE DEF read
    <3> QED BY <1>4, <2>2, <3>2, <3>3 DEF FlushRead, Goto, TypeInv, TypeOK, LocalsOK, volatile, permanent,
                                          Labels, FlushLabels, FlushLoopLabels
  <2> QED BY <1>4, <2>1, <2>2 DEF FlushRead
<1>5. CASE FlushAppend(t)
  <2>1. pile \o data[t] \in Seq(Blocks)
    BY DEF TypeInv, TypeOK
  <2> QED BY <1>5, <2>1 DEF FlushAppend, Goto, TypeInv, TypeOK, LocalsOK, volatile, locals,
                            Labels, FlushLabels, FlushLoopLabels
<1>6. CASE FlushAppendIds(t)
  <2>1. infos[t] \in Seq(Blocks) /\ infos[t] # << >>
    BY <1>6 DEF FlushAppendIds, TypeInv, TypeOK, LocalsOK, FlushLabels
  <2>2. Oldest(t) \in Seq(Blocks) /\ 1 \in 1..Len(infos[t])
    BY <2>1 DEF Oldest
  <2>3. pileIds \o Oldest(t) \in Seq(Blocks)
    BY <2>2 DEF TypeInv, TypeOK
  <2> QED BY <1>6, <2>2, <2>3 DEF FlushAppendIds, Goto, TypeInv, TypeOK, LocalsOK, volatile,
                                  Labels, FlushLabels, FlushLoopLabels
<1>7. CASE FlushIndex(t)
  <2>1. infos[t] \in Seq(Blocks) /\ num[t] \in 1..Len(infos[t])
    BY <1>7 DEF FlushIndex, TypeInv, TypeOK, LocalsOK, FlushLoopLabels
  <2>2. Oldest(t)[num[t]] \in Blocks /\ Start(t) \in Nat
    <3>1. Len(infos[t]) \in 1..Len(infos[t]) /\ Len(infos[t]) + 1 - num[t] \in 1..Len(infos[t])
      BY <2>1
    <3>2. infos[t][Len(infos[t])] \in Blocks /\ infos[t][Len(infos[t]) + 1 - num[t]] \in Blocks
      BY <2>1, <3>1
    <3> QED BY <2>1, <3>2, LengthAssumption DEF Oldest, Start
  <2>3. IsTree(permIndex', Blocks, Nat)
    <3>1. permIndex' = Insert(permIndex, Oldest(t)[num[t]], Start(t) + num[t] - 1)
      BY <1>7 DEF FlushIndex
    <3>2. Start(t) + num[t] - 1 \in Nat
      BY <2>1, <2>2
    <3> QED BY <2>2, <3>1, <3>2, IsTreeInsert DEF TypeInv, TypeOK
  <2>4. CASE num[t] = Len(infos[t])
    <3>1. /\ pc' = [pc EXCEPT ![t] = "flush_remove_info"] /\ num' = [num EXCEPT ![t] = 1]
          /\ UNCHANGED <<volatile, pile, pileIds, arg, ext, infos, data>>
      BY <1>7, <2>4 DEF FlushIndex, Goto
    <3>2. 1 \in 1..Len(infos[t]) /\ infos[t] # << >>
      BY <2>1
    <3>3. TypeOK'
      BY <2>3, <3>1 DEF TypeInv, TypeOK, volatile, Labels
    <3>4. LocalsOK'
      BY <1>7, <3>1, <3>2 DEF FlushIndex, TypeInv, TypeOK, LocalsOK, FlushLabels, FlushLoopLabels
    <3> QED BY <3>3, <3>4 DEF TypeInv
  <2>5. CASE num[t] # Len(infos[t])
    BY <1>7, <2>1, <2>3, <2>5 DEF FlushIndex, TypeInv, TypeOK, LocalsOK, volatile,
                                  Labels, FlushLabels, FlushLoopLabels
  <2> QED BY <2>4, <2>5
<1> QED BY <1>1, <1>2, <1>3, <1>4, <1>5, <1>6, <1>7

\* The removal loops of a flush preserve types and stay within their blocks.
LEMMA TypeFlushRemove ==
    ASSUME TypeInv, NEW t \in Threads,
           FlushRemoveInfo(t) \/ FlushRemoveBlock(t) \/ FlushRemoveLength(t)
    PROVE  TypeInv'
<1>1. CASE FlushRemoveInfo(t)
  <2>1. IsTree(info', Blocks, Info)
    BY <1>1, IsTreeRemove DEF FlushRemoveInfo, TypeInv, TypeOK
  <2> QED BY <1>1, <2>1 DEF FlushRemoveInfo, Goto, TypeInv, TypeOK, LocalsOK, permanent, locals,
                            Labels, FlushLabels, FlushLoopLabels
<1>2. CASE FlushRemoveBlock(t)
  BY <1>2 DEF FlushRemoveBlock, Goto, TypeInv, TypeOK, LocalsOK, permanent, locals,
              Labels, FlushLabels, FlushLoopLabels
<1>3. CASE FlushRemoveLength(t)
  <2>1. CASE Return(t, "Ok")
    BY <1>3, <2>1, ReturnType DEF FlushRemoveLength, TypeInv, TypeOK, permanent
  <2>2. CASE /\ num[t] # Len(infos[t])
             /\ num' = [num EXCEPT ![t] = num[t] + 1]
             /\ Goto(t, "flush_remove_info")
             /\ UNCHANGED <<arg, ext, infos, data>>
    <3>1. infos[t] \in Seq(Blocks) /\ num[t] \in 1..Len(infos[t])
      BY <1>3 DEF FlushRemoveLength, TypeInv, TypeOK, LocalsOK, FlushLoopLabels
    <3> QED BY <1>3, <2>2, <3>1 DEF FlushRemoveLength, Goto, TypeInv, TypeOK, LocalsOK, permanent,
                                    Labels, FlushLabels, FlushLoopLabels
  <2> QED BY <1>3, <2>1, <2>2 DEF FlushRemoveLength
<1> QED BY <1>1, <1>2, <1>3

\* get_block and a method that is stopped preserve types.
LEMMA TypeRead ==
    ASSUME TypeInv, NEW t \in Threads,
           \/ \E b \in Blocks : GetBlock(t, b)
           \/ GetVolatile(t) \/ Fail(t)
    PROVE  TypeInv'
<1>1. ASSUME NEW b \in Blocks, GetBlock(t, b) PROVE TypeInv'
  BY <1>1, ReturnType DEF GetBlock, Goto, Call, TypeInv, TypeOK, LocalsOK, volatile, permanent,
                          Labels, FlushLabels, FlushLoopLabels
<1>2. CASE GetVolatile(t)
  BY <1>2, ReturnType DEF GetVolatile, TypeInv, TypeOK, volatile, permanent
<1>3. CASE Fail(t)
  BY <1>3, ReturnType DEF Fail, TypeInv, TypeOK, volatile, permanent
<1> QED BY <1>1, <1>2, <1>3

\* Every step of every thread preserves types and locals.
LEMMA TypeNext == TypeInv /\ [Next]_vars => TypeInv'
<1> SUFFICES ASSUME TypeInv, [Next]_vars PROVE TypeInv'
  OBVIOUS
<1>1. CASE Next
  BY <1>1, TypePut, TypePutTag, TypePrune, TypePruneTxn, TypeFlush, TypeFlushRemove, TypeRead
     DEF Next
<1>2. CASE UNCHANGED vars
  BY <1>2 DEF vars, volatile, permanent, locals, TypeInv, TypeOK, LocalsOK
<1> QED BY <1>1, <1>2

\* Type correctness of the store: no sequence of calls, by any threads and with
\* methods stopping anywhere, puts a value of the wrong type in a tree or a pile.
THEOREM StoreTypeCorrect == Spec => []TypeOK
<1>1. TypeInv => TypeOK
  BY DEF TypeInv
<1> QED BY <1>1, TypeInit, TypeNext, PTL DEF Spec

-----------------------------------------------------------------------------
(***************************************************************************)
(* What the block store keeps for one writing thread that may be stopped   *)
(* anywhere, and any number of threads that tag and read beside it: every  *)
(* reference resolves, the reference counters are exact, the tips are the  *)
(* leaves, the parts of the volatile store agree, and only a prune ever    *)
(* forgets a block.  Two writers break these properties, because put_block *)
(* and flush_to_permanent_store use after a step what they read before it. *)
(***************************************************************************)

Writer(t) == May[t] \cap {"put", "prune", "flush"} # {}

\* At most one thread calls the methods that add, remove or move blocks.
OneWriter == \A t, u \in Threads : Writer(t) /\ Writer(u) => t = u

\* The reference counters are wide enough for the blocks and the tags there are.
CountersFit ==
    /\ IsFiniteSet(Blocks) /\ Cardinality(Blocks) <= MaxRef
    /\ IsFiniteSet(Tags) /\ Cardinality(Tags) <= MaxRef

-----------------------------------------------------------------------------
(* The inductive invariant.                                                *)

\* A thread is inside a writing method only if it is a writer.
WritersWrite ==
    \A t \in Threads : pc[t] \notin {"idle", "get_volatile"} => Writer(t)

FlushGathers == {"flush_scan", "flush_gather"}
FlushHolds == {"flush_read", "flush_append", "flush_append_ids", "flush_index"}
FlushRemoves == {"flush_remove_info", "flush_remove_block", "flush_remove_length"}

\* block_infos is a branch read from its newest block down.
IsBranch(s) ==
    /\ \A j \in 1..Len(s) - 1 : Parent[s[j]] = s[j + 1]
    /\ \A j \in 1..Len(s) : ChainLength[s[j]] + j = ChainLength[s[1]] + 1

\* What put_block has read of the store is still so.
PutFacts(t) ==
    /\ pc[t] = "put_exists_volatile" => ~InPermanent(arg[t])
    /\ pc[t] \in {"put_parent", "put_txn"} => ~Stored(arg[t])
    /\ pc[t] = "put_txn" => ext[t] = InPermanent(Parent[arg[t]])

\* After its transaction prune_branch looks at a permanent block, and makes it
\* a tip only if no volatile branch starts there.
PruneFacts(t) ==
    /\ pc[t] \in {"prune_look", "prune_tip"} => InPermanent(arg[t])
    /\ pc[t] = "prune_tip" => VolatileChildren(arg[t]) \subseteq DOMAIN permIndex

\* A flush holds a volatile branch down to a block without volatile parent,
\* indexes it from its oldest block up, and removes it once all is indexed.
FlushFacts(t) ==
    LET s == infos[t] IN
    /\ pc[t] \in FlushGathers \cup FlushHolds \cup FlushRemoves => IsBranch(s)
    /\ pc[t] \in FlushGathers \cup FlushHolds => \A j \in 1..Len(s) : InVolatile(s[j])
    /\ pc[t] \in FlushHolds \cup FlushRemoves => ~InVolatile(Parent[s[Len(s)]])
    /\ pc[t] = "flush_index" =>
          \A j \in 1..Len(s) : j > Len(s) + 1 - num[t] => InPermanent(s[j])
    /\ pc[t] \in FlushRemoves => \A j \in 1..Len(s) : InPermanent(s[j])
    /\ pc[t] = "flush_remove_block" => ~InVolatile(s[num[t]])

Facts(t) == PutFacts(t) /\ PruneFacts(t) /\ FlushFacts(t)

\* The permanent blocks are closed under parents and indexed by their length.
PermanentClosed ==
    \A b \in DOMAIN permIndex :
        /\ Parent[b] = Root \/ InPermanent(Parent[b])
        /\ permIndex[b] = ChainLength[b]

Shared ==
    /\ PermanentClosed
    /\ ParentsStored
    /\ TagsResolve
    /\ RefCountsExact
    /\ TipsAreLeaves
    /\ BytesMatchInfo
    /\ LengthIndexSound

StoreInv ==
    /\ TypeInv
    /\ WritersWrite
    /\ \A t \in Threads : Facts(t)
    /\ Shared

-----------------------------------------------------------------------------
(* Steps, and what they leave alone.                                       *)

\* One step of thread t, the disjunct of Next for t.
StepOf(t) ==
    \/ \E b \in Blocks : PutBlock(t, b) \/ PruneBranch(t, b) \/ GetBlock(t, b)
    \/ PutExistsVolatile(t) \/ PutParent(t) \/ PutTxn(t)
    \/ \E tag \in Tags, b \in Blocks : PutTag(t, tag, b)
    \/ PruneNothing(t) \/ PruneTxn(t) \/ PruneLook(t) \/ PruneTip(t)
    \/ \E to \in FlushTargets, min \in MinNumbers : FlushToPermanentStore(t, to, min)
    \/ FlushScan(t) \/ FlushGather(t) \/ FlushRead(t)
    \/ FlushAppend(t) \/ FlushAppendIds(t) \/ FlushIndex(t)
    \/ FlushRemoveInfo(t) \/ FlushRemoveBlock(t) \/ FlushRemoveLength(t)
    \/ GetVolatile(t)
    \/ Fail(t)

\* The locals of thread u are as before.
SameLocals(u) ==
    /\ pc'[u] = pc[u] /\ arg'[u] = arg[u] /\ ext'[u] = ext[u]
    /\ num'[u] = num[u] /\ infos'[u] = infos[u]

\* A returning method changes the locals of its own thread only.
LEMMA ReturnLocals ==
    ASSUME TypeInv, NEW t \in Threads, NEW r, Return(t, r)
    PROVE  pc'[t] = "idle" /\ \A u \in Threads : u # t => SameLocals(u)
BY DEF Return, SameLocals, TypeInv, TypeOK

\* So does a method that goes on to its next step.
LEMMA GotoLocals ==
    ASSUME TypeInv, NEW t \in Threads, NEW l, Goto(t, l)
    PROVE  pc'[t] = l /\ \A u \in Threads : u # t => pc'[u] = pc[u]
BY DEF Goto, TypeInv, TypeOK

\* No step of a thread touches the locals of another one.
LEMMA OtherLocals ==
    ASSUME TypeInv, NEW t \in Threads, StepOf(t), NEW u \in Threads, u # t
    PROVE  SameLocals(u)
<1>1. ASSUME NEW r, Return(t, r) PROVE SameLocals(u)
  BY <1>1, ReturnLocals
<1>2. ASSUME NEW b \in Blocks, PutBlock(t, b) PROVE SameLocals(u)
  BY <1>1, <1>2 DEF PutBlock, Goto, SameLocals, TypeInv, TypeOK
<1>3. ASSUME NEW b \in Blocks, PruneBranch(t, b) PROVE SameLocals(u)
  BY <1>1, <1>3 DEF PruneBranch, Goto, SameLocals, TypeInv, TypeOK
<1>4. ASSUME NEW b \in Blocks, GetBlock(t, b) PROVE SameLocals(u)
  BY <1>1, <1>4 DEF GetBlock, Goto, SameLocals, TypeInv, TypeOK
<1>5. CASE PutExistsVolatile(t) \/ PutParent(t)
  BY <1>1, <1>5 DEF PutExistsVolatile, PutParent, Goto, locals, SameLocals, TypeInv, TypeOK
<1>6. CASE PutTxn(t)
  BY <1>1, <1>6 DEF PutTxn
<1>7. ASSUME NEW tag \in Tags, NEW b \in Blocks, PutTag(t, tag, b) PROVE SameLocals(u)
  BY <1>1, <1>7 DEF PutTag
<1>8. CASE PruneNothing(t) \/ PruneTip(t) \/ GetVolatile(t) \/ Fail(t)
  BY <1>1, <1>8 DEF PruneNothing, PruneTip, GetVolatile, Fail
<1>9. CASE PruneTxn(t)
  <2>1. CASE Goto(t, "prune_look") /\ (\E p : arg' = [arg EXCEPT ![t] = p])
             /\ UNCHANGED <<ext, num, infos, data>>
    BY <2>1 DEF Goto, SameLocals, TypeInv, TypeOK
  <2> QED BY <1>1, <1>9, <2>1 DEF PruneTxn
<1>10. CASE PruneLook(t) \/ FlushScan(t)
  BY <1>1, <1>10 DEF PruneLook, FlushScan, Goto, locals, SameLocals, TypeInv, TypeOK
<1>11. ASSUME NEW to \in FlushTargets, NEW min \in MinNumbers, FlushToPermanentStore(t, to, min)
       PROVE SameLocals(u)
  BY <1>1, <1>11 DEF FlushToPermanentStore, Goto, SameLocals, TypeInv, TypeOK
<1>12. CASE FlushGather(t)
  BY <1>1, <1>12 DEF FlushGather, Goto, locals, SameLocals, TypeInv, TypeOK
<1>13. CASE FlushRead(t)
  BY <1>1, <1>13 DEF FlushRead, Goto, SameLocals, TypeInv, TypeOK
<1>14. CASE FlushAppend(t) \/ FlushAppendIds(t) \/ FlushRemoveInfo(t) \/ FlushRemoveBlock(t)
  BY <1>14 DEF FlushAppend, FlushAppendIds, FlushRemoveInfo, FlushRemoveBlock, Goto, locals,
               SameLocals, TypeInv, TypeOK
<1>15. CASE FlushIndex(t)
  BY <1>15 DEF FlushIndex, Goto, SameLocals, TypeInv, TypeOK
<1>16. CASE FlushRemoveLength(t)
  BY <1>1, <1>16 DEF FlushRemoveLength, Goto, SameLocals, TypeInv, TypeOK
<1> QED
  BY <1>2, <1>3, <1>4, <1>5, <1>6, <1>7, <1>8, <1>9, <1>10, <1>11, <1>12, <1>13, <1>14, <1>15,
     <1>16 DEF StepOf

\* put_tag rewrites counters and neither adds nor removes an entry.
LEMMA RetagDomain ==
    ASSUME NEW i, NEW tag, NEW b PROVE DOMAIN Retag(i, tag, b) = DOMAIN i
BY DEF Retag

\* A thread that is not a writer leaves every tree alone but the tags and counters.
LEMMA ReaderStep ==
    ASSUME TypeInv, WritersWrite, NEW t \in Threads, StepOf(t), ~Writer(t)
    PROVE  DOMAIN info' = DOMAIN info /\ UNCHANGED <<permIndex, blocks, lengthIndex, tips>>
<1>1. \A l : pc[t] = l => l \in {"idle", "get_volatile"}
  BY DEF WritersWrite
<1>2. ~Call(t, "put") /\ ~Call(t, "prune") /\ ~Call(t, "flush")
  BY DEF Writer, Call
<1>3. ASSUME NEW tag \in Tags, NEW b \in Blocks, PutTag(t, tag, b)
      PROVE  DOMAIN info' = DOMAIN info /\ UNCHANGED <<permIndex, blocks, lengthIndex, tips>>
  BY <1>3, RetagDomain DEF PutTag, volatile, permanent
<1>4. ASSUME NEW b \in Blocks, GetBlock(t, b)
      PROVE  DOMAIN info' = DOMAIN info /\ UNCHANGED <<permIndex, blocks, lengthIndex, tips>>
  BY <1>4 DEF GetBlock, volatile, permanent
<1>5. CASE GetVolatile(t) \/ Fail(t)
  BY <1>5 DEF GetVolatile, Fail, volatile, permanent
<1>6. \A b : ~PutBlock(t, b) /\ ~PruneBranch(t, b)
  BY <1>2 DEF PutBlock, PruneBranch
<1>7. \A to, min : ~FlushToPermanentStore(t, to, min)
  BY <1>2 DEF FlushToPermanentStore
<1>8. ~PutExistsVolatile(t) /\ ~PutParent(t) /\ ~PutTxn(t)
  BY <1>1 DEF PutExistsVolatile, PutParent, PutTxn
<1>9. ~PruneNothing(t) /\ ~PruneTxn(t) /\ ~PruneLook(t) /\ ~PruneTip(t)
  BY <1>1 DEF PruneNothing, PruneTxn, PruneLook, PruneTip
<1>10. ~FlushScan(t) /\ ~FlushGather(t) /\ ~FlushRead(t) /\ ~FlushAppend(t) /\ ~FlushAppendIds(t)
  BY <1>1 DEF FlushScan, FlushGather, FlushRead, FlushAppend, FlushAppendIds
<1>11. ~FlushIndex(t) /\ ~FlushRemoveInfo(t) /\ ~FlushRemoveBlock(t) /\ ~FlushRemoveLength(t)
  BY <1>1 DEF FlushIndex, FlushRemoveInfo, FlushRemoveBlock, FlushRemoveLength
<1> QED
  BY <1>3, <1>4, <1>5, <1>6, <1>7, <1>8, <1>9, <1>10, <1>11 DEF StepOf

\* The facts of a thread hold as long as its locals and the keys of the trees do.
LEMMA FactsFrame ==
    ASSUME NEW u \in Threads, Facts(u), SameLocals(u),
           DOMAIN info' = DOMAIN info, permIndex' = permIndex
    PROVE  Facts(u)'
<1>1. PutFacts(u)'
  BY DEF Facts, PutFacts, SameLocals, InPermanent, InVolatile, Stored
<1>2. PruneFacts(u)'
  BY DEF Facts, PruneFacts, SameLocals, InPermanent, VolatileChildren
<1>3. FlushFacts(u)'
  BY DEF Facts, FlushFacts, IsBranch, SameLocals, InPermanent, InVolatile
<1> QED BY <1>1, <1>2, <1>3 DEF Facts

\* A thread that leaves the writing methods has no facts to keep.
LEMMA FactsIdle ==
    ASSUME NEW u \in Threads, pc'[u] \in {"idle", "get_volatile"}
    PROVE  Facts(u)'
BY DEF Facts, PutFacts, PruneFacts, FlushFacts, FlushGathers, FlushHolds, FlushRemoves

\* What a thread relies on is not disturbed by the steps of the others.
LEMMA FactsOther ==
    ASSUME OneWriter, TypeInv, WritersWrite, NEW t \in Threads, StepOf(t),
           NEW u \in Threads, u # t, Facts(u)
    PROVE  Facts(u)'
<1>1. SameLocals(u)
  BY OtherLocals
<1>2. CASE pc[u] \in {"idle", "get_volatile"}
  <2>1. pc'[u] \in {"idle", "get_volatile"}
    BY <1>1, <1>2 DEF SameLocals
  <2> QED BY <2>1, FactsIdle
<1>3. CASE pc[u] \notin {"idle", "get_volatile"}
  <2>1. ~Writer(t)
    BY <1>3 DEF WritersWrite, OneWriter
  <2> QED BY <1>1, <2>1, ReaderStep, FactsFrame
<1> QED BY <1>2, <1>3

\* Only writers enter the writing methods.
LEMMA WritersNext ==
    ASSUME TypeInv, WritersWrite, NEW t \in Threads, StepOf(t)
    PROVE  WritersWrite'
<1>1. \A u \in Threads : u # t => pc'[u] = pc[u]
  BY OtherLocals DEF SameLocals
<1>2. pc'[t] \notin {"idle", "get_volatile"} => Writer(t)
  <2>1. CASE Writer(t)
    BY <2>1
  <2>2. ASSUME ~Writer(t) PROVE pc'[t] \in {"idle", "get_volatile"}
    <3>1. ASSUME NEW r, Return(t, r) PROVE pc'[t] = "idle"
      BY <3>1, ReturnLocals
    <3>2. ASSUME NEW b \in Blocks, GetBlock(t, b) PROVE pc'[t] \in {"idle", "get_volatile"}
      BY <3>1, <3>2, GotoLocals DEF GetBlock
    <3>3. ASSUME NEW tag \in Tags, NEW b \in Blocks, PutTag(t, tag, b) PROVE pc'[t] = "idle"
      BY <3>1, <3>3 DEF PutTag
    <3>4. CASE GetVolatile(t) \/ Fail(t)
      BY <3>1, <3>4 DEF GetVolatile, Fail
    <3>5. pc[t] \in {"idle", "get_volatile"}
      BY <2>2 DEF WritersWrite
    <3>6. \A b : ~PutBlock(t, b) /\ ~PruneBranch(t, b)
      BY <2>2 DEF PutBlock, PruneBranch, Call, Writer
    <3>7. \A to, min : ~FlushToPermanentStore(t, to, min)
      BY <2>2 DEF FlushToPermanentStore, Call, Writer
    <3>8. ~PutExistsVolatile(t) /\ ~PutParent(t) /\ ~PutTxn(t)
      BY <3>5 DEF PutExistsVolatile, PutParent, PutTxn
    <3>9. ~PruneNothing(t) /\ ~PruneTxn(t) /\ ~PruneLook(t) /\ ~PruneTip(t)
      BY <3>5 DEF PruneNothing, PruneTxn, PruneLook, PruneTip
    <3>10. ~FlushScan(t) /\ ~FlushGather(t) /\ ~FlushRead(t) /\ ~FlushAppend(t) /\ ~FlushAppendIds(t)
      BY <3>5 DEF FlushScan, FlushGather, FlushRead, FlushAppend, FlushAppendIds
    <3>11. ~FlushIndex(t) /\ ~FlushRemoveInfo(t) /\ ~FlushRemoveBlock(t) /\ ~FlushRemoveLength(t)
      BY <3>5 DEF FlushIndex, FlushRemoveInfo, FlushRemoveBlock, FlushRemoveLength
    <3> QED
      BY <3>2, <3>3, <3>4, <3>6, <3>7, <3>8, <3>9, <3>10, <3>11 DEF StepOf
  <2> QED BY <2>1, <2>2
<1> QED BY <1>1, <1>2 DEF WritersWrite

\* The shared facts mention the trees and the index only.
LEMMA SharedFrame ==
    ASSUME Shared, UNCHANGED <<volatile, permIndex>>
    PROVE  Shared'
<1>1. /\ info' = info /\ tags' = tags /\ tips' = tips /\ blocks' = blocks
      /\ lengthIndex' = lengthIndex /\ permIndex' = permIndex
  BY DEF volatile
<1>2. PermanentClosed' /\ ParentsStored' /\ TagsResolve'
  BY <1>1 DEF Shared, PermanentClosed, ParentsStored, TagsResolve, Stored, InVolatile, InPermanent
<1>3. RefCountsExact'
  BY <1>1 DEF Shared, RefCountsExact, VolatileChildren, TagsOf
<1>4. TipsAreLeaves'
  BY <1>1 DEF Shared, TipsAreLeaves, VolatileChildren, Stored, InVolatile, InPermanent
<1>5. BytesMatchInfo' /\ LengthIndexSound'
  BY <1>1 DEF Shared, BytesMatchInfo, LengthIndexSound, Stored, InVolatile, InPermanent
<1> QED BY <1>2, <1>3, <1>4, <1>5 DEF Shared

\* Counters that are not written stay exact while the same children and tags count.
LEMMA CountsFrame ==
    ASSUME RefCountsExact, tags' = tags,
           DOMAIN info' \subseteq DOMAIN info, DOMAIN permIndex \subseteq DOMAIN permIndex',
           \A x \in DOMAIN info' \ DOMAIN permIndex' :
               info'[x] = info[x] /\ VolatileChildren(x)' = VolatileChildren(x)
    PROVE  RefCountsExact'
<1>1. \A x : TagsOf(x)' = TagsOf(x)
  BY DEF TagsOf
<1> QED BY <1>1 DEF RefCountsExact

\* The steps of put_block before its transaction find out what it relies on.
LEMMA PutLooks ==
    ASSUME StoreInv, NEW t \in Threads,
           \/ \E b \in Blocks : PutBlock(t, b)
           \/ PutExistsVolatile(t) \/ PutParent(t)
    PROVE  Facts(t)' /\ Shared'
<1>1. Shared'
  BY SharedFrame DEF StoreInv, PutBlock, PutExistsVolatile, PutParent, permanent
<1> SUFFICES Facts(t)'
  BY <1>1
<1>2. ASSUME NEW r, Return(t, r) PROVE Facts(t)'
  BY <1>2, ReturnLocals, FactsIdle DEF StoreInv
<1>3. ASSUME PutFacts(t)',
             pc'[t] \in {"put_exists_volatile", "put_parent", "put_txn"}
      PROVE  Facts(t)'
  BY <1>3 DEF Facts, PruneFacts, FlushFacts, FlushGathers, FlushHolds, FlushRemoves
<1>4. ASSUME NEW b \in Blocks, PutBlock(t, b) PROVE Facts(t)'
  <2>1. CASE ~InPermanent(b) /\ Goto(t, "put_exists_volatile") /\ arg' = [arg EXCEPT ![t] = b]
    <3>1. pc'[t] = "put_exists_volatile" /\ arg'[t] = b /\ permIndex' = permIndex
      BY <1>4, <2>1, GotoLocals DEF StoreInv, TypeInv, TypeOK, PutBlock, permanent
    <3> QED BY <1>3, <2>1, <3>1 DEF PutFacts, InPermanent
  <2> QED BY <1>2, <1>4, <2>1 DEF PutBlock
<1>5. CASE PutExistsVolatile(t)
  <2>1. CASE ~InVolatile(arg[t]) /\ Goto(t, "put_parent") /\ UNCHANGED locals
    <3>1. pc'[t] = "put_parent" /\ arg' = arg /\ UNCHANGED <<permIndex, info>>
      BY <1>5, <2>1, GotoLocals DEF StoreInv, PutExistsVolatile, permanent, volatile, locals
    <3>2. ~InPermanent(arg[t])
      BY <1>5 DEF PutExistsVolatile, StoreInv, Facts, PutFacts
    <3> QED BY <1>3, <2>1, <3>1, <3>2 DEF PutFacts, InPermanent, InVolatile, Stored
  <2> QED BY <1>2, <1>5, <2>1 DEF PutExistsVolatile
<1>6. CASE PutParent(t)
  <2>1. /\ pc'[t] = "put_txn" /\ arg' = arg /\ UNCHANGED <<permIndex, info>>
        /\ ext'[t] = InPermanent(Parent[arg[t]])
    BY <1>6, GotoLocals DEF StoreInv, TypeInv, TypeOK, PutParent, permanent, volatile
  <2>2. ~Stored(arg[t])
    BY <1>6 DEF PutParent, StoreInv, Facts, PutFacts
  <2> QED BY <1>3, <2>1, <2>2 DEF PutFacts, InPermanent, InVolatile, Stored
<1> QED BY <1>4, <1>5, <1>6

\* prune_branch goes on to its last step only if no block stands on the
\* permanent block it would make a tip.
LEMMA PruneLooks ==
    ASSUME StoreInv, NEW t \in Threads,
           \/ \E b \in Blocks : PruneBranch(t, b)
           \/ PruneNothing(t) \/ PruneLook(t)
    PROVE  Facts(t)' /\ Shared'
<1>1. Shared'
  BY SharedFrame DEF StoreInv, PruneBranch, PruneNothing, PruneLook, permanent
<1> SUFFICES Facts(t)'
  BY <1>1
<1>2. ASSUME NEW r, Return(t, r) PROVE Facts(t)'
  BY <1>2, ReturnLocals, FactsIdle DEF StoreInv
<1>3. ASSUME PruneFacts(t)', pc'[t] \in {"prune_txn", "prune_look", "prune_tip"}
      PROVE  Facts(t)'
  BY <1>3 DEF Facts, PutFacts, FlushFacts, FlushGathers, FlushHolds, FlushRemoves
<1>4. ASSUME NEW b \in Blocks, PruneBranch(t, b) PROVE Facts(t)'
  <2>1. CASE Goto(t, "prune_txn")
    <3>1. pc'[t] = "prune_txn"
      BY <2>1, GotoLocals DEF StoreInv
    <3> QED BY <1>3, <3>1 DEF PruneFacts
  <2> QED BY <1>2, <1>4, <2>1 DEF PruneBranch
<1>5. CASE PruneNothing(t)
  BY <1>2, <1>5 DEF PruneNothing
<1>6. CASE PruneLook(t)
  <2> DEFINE n == permIndex[arg[t]] + 1
  <2>1. CASE IndexedAt(n) = {} /\ Goto(t, "prune_tip") /\ UNCHANGED locals
    <3>1. pc'[t] = "prune_tip" /\ arg' = arg /\ UNCHANGED <<permIndex, info>>
      BY <1>6, <2>1, GotoLocals DEF StoreInv, PruneLook, permanent, volatile, locals
    <3>2. InPermanent(arg[t]) /\ arg[t] \in Blocks
      BY <1>6 DEF PruneLook, StoreInv, Facts, PruneFacts, TypeInv, LocalsOK
    <3>3. VolatileChildren(arg[t]) \subseteq DOMAIN permIndex
      <4> SUFFICES ASSUME NEW c \in DOMAIN info, Parent[c] = arg[t], c \notin DOMAIN permIndex
                   PROVE  FALSE
        BY DEF VolatileChildren
      <4>1. c \in Blocks
        BY DEF StoreInv, TypeInv, TypeOK, IsTree
      <4>2. ChainLength[c] = ChainLength[arg[t]] + 1
        BY <3>2, <4>1, LengthAssumption, RootAssumption
      <4>3. permIndex[arg[t]] = ChainLength[arg[t]]
        BY <3>2 DEF InPermanent, StoreInv, Shared, PermanentClosed
      <4>4. <<ChainLength[c], c>> \in lengthIndex
        BY DEF StoreInv, Shared, LengthIndexSound
      <4> QED BY <2>1, <4>1, <4>2, <4>3, <4>4 DEF IndexedAt
    <3> QED BY <1>3, <3>1, <3>2, <3>3 DEF PruneFacts, InPermanent, VolatileChildren
  <2> QED BY <1>2, <1>6, <2>1 DEF PruneLook
<1> QED BY <1>4, <1>5, <1>6

\* The walk of a flush down the volatile ancestors keeps what it holds a branch.
LEMMA BranchGrows ==
    ASSUME NEW s \in Seq(Blocks), s # << >>, IsBranch(s),
           NEW p \in Blocks, p = Parent[s[Len(s)]]
    PROVE  IsBranch(Append(s, p))
<1> DEFINE r == Append(s, p)
<1>1. /\ Len(s) \in Nat /\ Len(s) >= 1 /\ Len(r) = Len(s) + 1 /\ r[Len(r)] = p
      /\ \A j \in 1..Len(s) : r[j] = s[j] /\ s[j] \in Blocks
  OBVIOUS
<1>2. ChainLength[s[Len(s)]] = ChainLength[p] + 1
  BY <1>1, LengthAssumption, RootAssumption
<1>3. ChainLength[p] \in Nat /\ \A j \in 1..Len(s) : ChainLength[s[j]] \in Nat
  BY <1>1, LengthAssumption
<1> HIDE DEF r
<1>4. \A j \in 1..Len(r) - 1 : Parent[r[j]] = r[j + 1]
  <2> SUFFICES ASSUME NEW j \in 1..Len(r) - 1 PROVE Parent[r[j]] = r[j + 1]
    OBVIOUS
  <2>1. CASE j = Len(s)
    BY <1>1, <2>1
  <2>2. CASE j # Len(s)
    <3>1. j \in 1..Len(s) - 1 /\ j \in 1..Len(s) /\ j + 1 \in 1..Len(s)
      BY <1>1, <2>2
    <3> QED BY <1>1, <3>1 DEF IsBranch
  <2> QED BY <2>1, <2>2
<1>5. \A j \in 1..Len(r) : ChainLength[r[j]] + j = ChainLength[r[1]] + 1
  <2> SUFFICES ASSUME NEW j \in 1..Len(r) PROVE ChainLength[r[j]] + j = ChainLength[r[1]] + 1
    OBVIOUS
  <2>1. 1 \in 1..Len(s) /\ Len(s) \in 1..Len(s) /\ r[1] = s[1]
    BY <1>1
  <2>2. CASE j = Len(r)
    <3>1. ChainLength[s[Len(s)]] + Len(s) = ChainLength[s[1]] + 1
      BY <2>1 DEF IsBranch
    <3> QED BY <1>1, <1>2, <1>3, <2>1, <2>2, <3>1
  <2>3. CASE j # Len(r)
    <3>1. j \in 1..Len(s)
      BY <1>1, <2>3
    <3> QED BY <1>1, <2>1, <3>1 DEF IsBranch
  <2> QED BY <2>2, <2>3
<1> QED BY <1>4, <1>5 DEF IsBranch, r

\* A flush gathers a volatile branch that no volatile block continues downwards,
\* and holds it unchanged while it reads and appends.
LEMMA FlushLooks ==
    ASSUME StoreInv, NEW t \in Threads,
           \/ \E to \in FlushTargets, min \in MinNumbers : FlushToPermanentStore(t, to, min)
           \/ FlushScan(t) \/ FlushGather(t) \/ FlushRead(t)
           \/ FlushAppend(t) \/ FlushAppendIds(t)
    PROVE  Facts(t)' /\ Shared'
<1>0. UNCHANGED <<volatile, permIndex>>
  BY DEF FlushToPermanentStore, FlushScan, FlushGather, FlushRead, FlushAppend, FlushAppendIds,
         permanent
<1>1. Shared'
  BY <1>0, SharedFrame DEF StoreInv
<1> SUFFICES Facts(t)'
  BY <1>1
<1>2. ASSUME NEW r, Return(t, r) PROVE Facts(t)'
  BY <1>2, ReturnLocals, FactsIdle DEF StoreInv
<1>3. ASSUME FlushFacts(t)', pc'[t] \in FlushGathers \cup FlushHolds
      PROVE  Facts(t)'
  BY <1>3 DEF Facts, PutFacts, PruneFacts, FlushGathers, FlushHolds, FlushRemoves
<1>4. ASSUME NEW s, infos'[t] = s, pc'[t] \in FlushGathers, IsBranch(s),
             \A j \in 1..Len(s) : InVolatile(s[j])
      PROVE  Facts(t)'
  BY <1>0, <1>3, <1>4 DEF FlushFacts, FlushGathers, FlushHolds, FlushRemoves, InVolatile, volatile,
                          IsBranch
<1>5. ASSUME NEW s, infos'[t] = s, pc'[t] \in FlushHolds, IsBranch(s),
             \A j \in 1..Len(s) : InVolatile(s[j]), ~InVolatile(Parent[s[Len(s)]]),
             pc'[t] = "flush_index" => num'[t] = 1 /\ Len(s) \in Nat
      PROVE  Facts(t)'
  <2>1. pc'[t] = "flush_index" => ~\E j \in 1..Len(s) : j > Len(s) + 1 - num'[t]
    BY <1>5
  <2> QED BY <1>0, <1>3, <1>5, <2>1 DEF FlushFacts, FlushGathers, FlushHolds, FlushRemoves,
                                        InVolatile, volatile, IsBranch
<1>6. ASSUME pc[t] \in FlushGathers \cup FlushHolds
      PROVE  /\ infos[t] \in Seq(Blocks) /\ infos[t] # << >>
             /\ IsBranch(infos[t]) /\ \A j \in 1..Len(infos[t]) : InVolatile(infos[t][j])
  BY <1>6 DEF StoreInv, Facts, FlushFacts, TypeInv, TypeOK, LocalsOK, FlushLabels, FlushLoopLabels,
              FlushGathers, FlushHolds
<1>7. ASSUME pc[t] \in FlushHolds PROVE ~InVolatile(Parent[infos[t][Len(infos[t])]])
  BY <1>7 DEF StoreInv, Facts, FlushFacts
<1>8. ASSUME NEW to \in FlushTargets, NEW min \in MinNumbers, FlushToPermanentStore(t, to, min)
      PROVE  Facts(t)'
  <2>1. CASE /\ InVolatile(to)
             /\ Goto(t, "flush_scan")
             /\ infos' = [infos EXCEPT ![t] = <<to>>]
    <3>1. pc'[t] = "flush_scan" /\ infos'[t] = <<to>>
      BY <2>1, GotoLocals DEF StoreInv, TypeInv, TypeOK
    <3>2. to \in Blocks /\ ChainLength[to] \in Nat
      BY TargetAssumption, LengthAssumption
    <3>3. IsBranch(<<to>>)
      BY <3>2 DEF IsBranch
    <3>4. \A j \in 1..Len(<<to>>) : InVolatile(<<to>>[j])
      BY <2>1
    <3> QED BY <1>4, <3>1, <3>3, <3>4 DEF FlushGathers
  <2> QED BY <1>2, <1>8, <2>1 DEF FlushToPermanentStore
<1>9. CASE FlushScan(t)
  <2>1. CASE Goto(t, "flush_gather") /\ UNCHANGED locals
    <3>1. pc'[t] = "flush_gather" /\ infos'[t] = infos[t] /\ pc[t] = "flush_scan"
      BY <1>9, <2>1, GotoLocals DEF StoreInv, FlushScan, locals
    <3> QED BY <1>4, <1>6, <3>1 DEF FlushGathers
  <2> QED BY <1>2, <1>9, <2>1 DEF FlushScan
<1>10. CASE FlushGather(t)
  <2> DEFINE p == Parent[infos[t][Len(infos[t])]]
  <2>0. pc[t] = "flush_gather"
    BY <1>10 DEF FlushGather
  <2>1. CASE InVolatile(p) /\ infos' = [infos EXCEPT ![t] = Append(@, p)] /\ UNCHANGED pc
    <3>1. p \in Blocks
      BY <2>1 DEF InVolatile, StoreInv, TypeInv, TypeOK, IsTree
    <3>2. IsBranch(Append(infos[t], p))
      BY <1>6, <2>0, <3>1, BranchGrows DEF FlushGathers
    <3>3. infos'[t] = Append(infos[t], p) /\ pc'[t] = "flush_gather"
      BY <2>0, <2>1 DEF StoreInv, TypeInv, TypeOK
    <3>4. \A j \in 1..Len(Append(infos[t], p)) : InVolatile(Append(infos[t], p)[j])
      <4>1. infos[t] \in Seq(Blocks) /\ \A j \in 1..Len(infos[t]) : InVolatile(infos[t][j])
        BY <1>6, <2>0 DEF FlushGathers
      <4> HIDE DEF p
      <4> QED BY <2>1, <3>1, <4>1
    <3> QED BY <1>4, <3>2, <3>3, <3>4 DEF FlushGathers
  <2>2. CASE ~InVolatile(p) /\ Goto(t, "flush_read") /\ UNCHANGED locals
    <3>1. pc'[t] = "flush_read" /\ infos'[t] = infos[t]
      BY <2>2, GotoLocals DEF StoreInv, locals
    <3> QED BY <1>5, <1>6, <2>0, <2>2, <3>1 DEF FlushGathers, FlushHolds
  <2> QED BY <1>2, <1>10, <2>1, <2>2 DEF FlushGather
<1>11. CASE FlushRead(t)
  <2>1. CASE Goto(t, "flush_append") /\ UNCHANGED infos
    <3>1. pc'[t] = "flush_append" /\ infos'[t] = infos[t] /\ pc[t] = "flush_read"
      BY <1>11, <2>1, GotoLocals DEF StoreInv, FlushRead
    <3> QED BY <1>5, <1>6, <1>7, <3>1 DEF FlushHolds
  <2> QED BY <1>2, <1>11, <2>1 DEF FlushRead
<1>12. CASE FlushAppend(t)
  <2>1. pc'[t] = "flush_append_ids" /\ infos'[t] = infos[t] /\ pc[t] = "flush_append"
    BY <1>12, GotoLocals DEF StoreInv, FlushAppend, locals
  <2> QED BY <1>5, <1>6, <1>7, <2>1 DEF FlushHolds
<1>13. CASE FlushAppendIds(t)
  <2>1. /\ pc'[t] = "flush_index" /\ infos'[t] = infos[t] /\ pc[t] = "flush_append_ids"
        /\ num'[t] = 1
    BY <1>13, GotoLocals DEF StoreInv, FlushAppendIds, TypeInv, TypeOK
  <2>2. Len(infos[t]) \in Nat
    BY <1>6, <2>1 DEF FlushHolds
  <2> QED BY <1>5, <1>6, <1>7, <2>1, <2>2 DEF FlushHolds
<1> QED BY <1>8, <1>9, <1>10, <1>11, <1>12, <1>13

\* A round of the index loop makes one more held block permanent, above its parent.
LEMMA FlushIndexes ==
    ASSUME StoreInv, NEW t \in Threads, FlushIndex(t)
    PROVE  Facts(t)' /\ Shared'
<1> DEFINE s == infos[t]
           i == num[t]
           b == s[Len(s) + 1 - i]
<1>1. /\ s \in Seq(Blocks) /\ Len(s) \in Nat /\ i \in 1..Len(s) /\ pc[t] = "flush_index"
      /\ \A j \in 1..Len(s) : s[j] \in Blocks /\ ChainLength[s[j]] \in Nat
  <2>1. s \in Seq(Blocks) /\ i \in 1..Len(s) /\ pc[t] = "flush_index"
    BY DEF FlushIndex, StoreInv, TypeInv, TypeOK, LocalsOK, FlushLoopLabels
  <2>2. Len(s) \in Nat /\ \A j \in 1..Len(s) : s[j] \in Blocks
    BY <2>1
  <2> QED BY <2>1, <2>2, LengthAssumption
<1>2. /\ IsBranch(s) /\ \A j \in 1..Len(s) : InVolatile(s[j])
      /\ ~InVolatile(Parent[s[Len(s)]])
      /\ \A j \in 1..Len(s) : j > Len(s) + 1 - i => InPermanent(s[j])
  BY <1>1 DEF StoreInv, Facts, FlushFacts, FlushHolds
<1>3. Len(s) + 1 - i \in 1..Len(s) /\ Len(s) \in 1..Len(s) /\ b \in Blocks
  BY <1>1
<1>4. Start(t) + i - 1 = ChainLength[b]
  <2>1. ChainLength[b] + (Len(s) + 1 - i) = ChainLength[s[1]] + 1
    BY <1>2, <1>3 DEF IsBranch
  <2>2. ChainLength[s[Len(s)]] + Len(s) = ChainLength[s[1]] + 1
    BY <1>2, <1>3 DEF IsBranch
  <2>3. 1 \in 1..Len(s) /\ Start(t) = ChainLength[s[Len(s)]]
    BY <1>1 DEF Start
  <2>4. ChainLength[b] \in Nat /\ ChainLength[s[Len(s)]] \in Nat /\ ChainLength[s[1]] \in Nat
    BY <1>1, <1>3, <2>3
  <2>5. Len(s) \in Int /\ i \in Int
    BY <1>1
  <2> HIDE DEF b, s, i
  <2> QED BY <2>1, <2>2, <2>3, <2>4, <2>5
<1>5. /\ permIndex' = Insert(permIndex, b, ChainLength[b])
      /\ UNCHANGED <<blocks, info, lengthIndex, tips, tags, infos>>
  <2>1. Oldest(t)[i] = b
    BY <1>1 DEF Oldest
  <2> QED BY <1>4, <2>1 DEF FlushIndex, volatile
<1>6. DOMAIN permIndex' = DOMAIN permIndex \cup {b}
  BY <1>5 DEF Insert
<1>7. Parent[b] = Root \/ InPermanent(Parent[b])
  <2>1. CASE i = 1
    <3>1. b = s[Len(s)]
      BY <1>1, <2>1
    <3>2. Stored(b)
      BY <1>2, <1>3 DEF Stored
    <3> QED BY <1>2, <1>3, <3>1, <3>2 DEF StoreInv, Shared, ParentsStored, Stored
  <2>2. CASE i # 1
    <3>1. Len(s) + 1 - i \in 1..Len(s) - 1 /\ Len(s) + 2 - i \in 1..Len(s)
          /\ Len(s) + 2 - i > Len(s) + 1 - i /\ Len(s) + 1 - i + 1 = Len(s) + 2 - i
      BY <1>1, <2>2
    <3>2. Parent[b] = s[Len(s) + 2 - i]
      BY <1>2, <3>1 DEF IsBranch
    <3> QED BY <1>2, <3>1, <3>2
  <2> QED BY <2>1, <2>2
<1>8. Shared'
  <2>1. PermanentClosed'
    <3> SUFFICES ASSUME NEW x \in DOMAIN permIndex'
                 PROVE  /\ Parent[x] = Root \/ Parent[x] \in DOMAIN permIndex'
                        /\ permIndex'[x] = ChainLength[x]
      BY DEF PermanentClosed, InPermanent
    <3>1. CASE x = b
      BY <1>5, <1>6, <1>7, <3>1 DEF Insert, InPermanent
    <3>2. CASE x # b
      BY <1>5, <1>6, <3>2 DEF Insert, StoreInv, Shared, PermanentClosed, InPermanent
    <3> QED BY <3>1, <3>2
  <2>2. \A x : Stored(x)' <=> Stored(x)
    BY <1>2, <1>3, <1>5, <1>6 DEF Stored, InVolatile, InPermanent
  <2>3. ParentsStored' /\ TagsResolve'
    BY <1>5, <2>2 DEF StoreInv, Shared, ParentsStored, TagsResolve
  <2>4. RefCountsExact' /\ BytesMatchInfo'
    <3>1. \A x : VolatileChildren(x)' = VolatileChildren(x)
      BY <1>5 DEF VolatileChildren
    <3>2. RefCountsExact'
      BY <1>5, <1>6, <3>1, CountsFrame DEF StoreInv, Shared
    <3> QED BY <1>5, <1>6, <3>2 DEF StoreInv, Shared, BytesMatchInfo
  <2>5. TipsAreLeaves' /\ LengthIndexSound'
    BY <1>5, <1>6, <2>2 DEF StoreInv, Shared, TipsAreLeaves, LengthIndexSound, VolatileChildren
  <2> QED BY <2>1, <2>3, <2>4, <2>5 DEF Shared
<1>9. CASE i = Len(s)
  <2>1. pc'[t] = "flush_remove_info"
    BY <1>9, GotoLocals DEF FlushIndex, StoreInv
  <2>2. \A j \in 1..Len(s) : s[j] \in DOMAIN permIndex'
    BY <1>1, <1>2, <1>6, <1>9 DEF InPermanent
  <2>3. FlushFacts(t)'
    BY <1>2, <1>5, <2>1, <2>2 DEF FlushFacts, FlushGathers, FlushHolds, FlushRemoves, InVolatile,
                                  InPermanent, IsBranch
  <2> QED BY <1>8, <2>1, <2>3 DEF Facts, PutFacts, PruneFacts
<1>10. CASE i # Len(s)
  <2>1. pc'[t] = "flush_index" /\ num'[t] = i + 1
    BY <1>1, <1>10 DEF FlushIndex, StoreInv, TypeInv, TypeOK
  <2>2. \A j \in 1..Len(s) : j > Len(s) + 1 - (i + 1) => s[j] \in DOMAIN permIndex'
    BY <1>1, <1>2, <1>6 DEF InPermanent
  <2>3. FlushFacts(t)'
    BY <1>2, <1>5, <2>1, <2>2 DEF FlushFacts, FlushGathers, FlushHolds, FlushRemoves, InVolatile,
                                  InPermanent, IsBranch
  <2> QED BY <1>8, <2>1, <2>3 DEF Facts, PutFacts, PruneFacts
<1> QED BY <1>9, <1>10

\* The removal rounds of a flush take away only what is permanent, infos before
\* bytes, and no child of a block whose counters still matter.
LEMMA FlushRemovesSafely ==
    ASSUME StoreInv, NEW t \in Threads,
           FlushRemoveInfo(t) \/ FlushRemoveBlock(t) \/ FlushRemoveLength(t)
    PROVE  Facts(t)' /\ Shared'
<1> DEFINE s == infos[t]
           b == s[num[t]]
<1>1. /\ s \in Seq(Blocks) /\ num[t] \in 1..Len(s) /\ b \in Blocks /\ pc[t] \in FlushRemoves
      /\ IsBranch(s) /\ ~InVolatile(Parent[s[Len(s)]])
      /\ \A j \in 1..Len(s) : InPermanent(s[j])
  <2>1. /\ s \in Seq(Blocks) /\ num[t] \in 1..Len(s)
        /\ pc[t] \in {"flush_remove_info", "flush_remove_block", "flush_remove_length"}
    BY DEF FlushRemoveInfo, FlushRemoveBlock, FlushRemoveLength, StoreInv, TypeInv, TypeOK, LocalsOK,
           FlushLoopLabels
  <2>2. b \in Blocks
    BY <2>1
  <2> QED BY <2>1, <2>2 DEF StoreInv, Facts, FlushFacts, FlushRemoves
<1>2. InPermanent(b) /\ (Parent[b] = Root \/ InPermanent(Parent[b]))
  BY <1>1 DEF StoreInv, Shared, PermanentClosed, InPermanent
<1>3. permIndex' = permIndex
  BY DEF FlushRemoveInfo, FlushRemoveBlock, FlushRemoveLength, permanent
<1>4. ASSUME infos'[t] = s, pc'[t] \in FlushRemoves, DOMAIN info' \subseteq DOMAIN info,
             pc'[t] = "flush_remove_block" => s[num'[t]] \notin DOMAIN info'
      PROVE  Facts(t)'
  BY <1>1, <1>3, <1>4 DEF Facts, PutFacts, PruneFacts, FlushFacts, FlushGathers, FlushHolds,
                          FlushRemoves, InVolatile, InPermanent, IsBranch
<1>5. CASE FlushRemoveInfo(t)
  <2>1. /\ info' = TreeRemove(info, {b}) /\ UNCHANGED <<blocks, lengthIndex, tips, tags, infos, num>>
        /\ pc'[t] = "flush_remove_block"
    BY <1>5, GotoLocals DEF FlushRemoveInfo, locals, StoreInv
  <2>2. DOMAIN info' = DOMAIN info \ {b} /\ \A x \in DOMAIN info' : info'[x] = info[x]
    BY <2>1 DEF TreeRemove
  <2>3. \A x : Stored(x)' <=> Stored(x)
    BY <1>2, <1>3, <2>2 DEF Stored, InVolatile, InPermanent
  <2>4. \A x \in DOMAIN info \ DOMAIN permIndex : VolatileChildren(x)' = VolatileChildren(x)
    <3>1. \A x \in DOMAIN info \ DOMAIN permIndex : x # Parent[b]
      BY <1>2, RootAssumption DEF InPermanent, StoreInv, TypeInv, TypeOK, IsTree
    <3> QED BY <2>2, <3>1 DEF VolatileChildren
  <2>5. \A x : VolatileChildren(x)' \subseteq VolatileChildren(x)
    BY <2>2 DEF VolatileChildren
  <2>6. PermanentClosed' /\ ParentsStored' /\ TagsResolve'
    BY <1>3, <2>1, <2>3 DEF StoreInv, Shared, PermanentClosed, ParentsStored, TagsResolve, InPermanent
  <2>7. RefCountsExact'
    BY <1>3, <2>1, <2>2, <2>4, CountsFrame DEF StoreInv, Shared
  <2>8. TipsAreLeaves'
    BY <1>3, <2>1, <2>2, <2>3, <2>4, <2>5 DEF StoreInv, Shared, TipsAreLeaves
  <2>9. BytesMatchInfo' /\ LengthIndexSound'
    BY <1>2, <1>3, <2>1, <2>2, <2>3 DEF StoreInv, Shared, BytesMatchInfo, LengthIndexSound, InPermanent
  <2> QED BY <1>4, <2>1, <2>2, <2>6, <2>7, <2>8, <2>9 DEF Shared, FlushRemoves
<1>6. CASE FlushRemoveBlock(t)
  <2>1. /\ blocks' = blocks \ {b} /\ UNCHANGED <<info, lengthIndex, tips, tags, infos, num>>
        /\ pc'[t] = "flush_remove_length"
    BY <1>6, GotoLocals DEF FlushRemoveBlock, locals, StoreInv
  <2>2. b \notin DOMAIN info
    BY <1>6 DEF FlushRemoveBlock, StoreInv, Facts, FlushFacts, InVolatile
  <2>3. BytesMatchInfo'
    BY <1>2, <1>3, <2>1, <2>2 DEF StoreInv, Shared, BytesMatchInfo
  <2>4. Shared'
    <3>1. RefCountsExact'
      <4>1. \A x : VolatileChildren(x)' = VolatileChildren(x)
        BY <2>1 DEF VolatileChildren
      <4> QED BY <1>3, <2>1, <4>1, CountsFrame DEF StoreInv, Shared
    <3> QED BY <1>3, <2>1, <2>3, <3>1 DEF StoreInv, Shared, PermanentClosed, ParentsStored, TagsResolve,
               TipsAreLeaves, LengthIndexSound, VolatileChildren, Stored, InVolatile, InPermanent
  <2> QED BY <1>4, <2>1, <2>4 DEF FlushRemoves
<1>7. CASE FlushRemoveLength(t)
  <2>1. /\ lengthIndex' = lengthIndex \ {<<Start(t) + num[t] - 1, b>>}
        /\ UNCHANGED <<blocks, info, tips, tags>>
    BY <1>7 DEF FlushRemoveLength
  <2>2. LengthIndexSound'
    BY <1>2, <1>3, <2>1 DEF StoreInv, Shared, LengthIndexSound, Stored, InVolatile, InPermanent
  <2>3. Shared'
    <3>1. RefCountsExact'
      <4>1. \A x : VolatileChildren(x)' = VolatileChildren(x)
        BY <2>1 DEF VolatileChildren
      <4> QED BY <1>3, <2>1, <4>1, CountsFrame DEF StoreInv, Shared
    <3> QED BY <1>3, <2>1, <2>2, <3>1 DEF StoreInv, Shared, PermanentClosed, ParentsStored, TagsResolve,
               TipsAreLeaves, BytesMatchInfo, VolatileChildren, Stored, InVolatile, InPermanent
  <2>4. CASE Return(t, "Ok")
    BY <2>3, <2>4, ReturnLocals, FactsIdle DEF StoreInv
  <2>5. CASE Goto(t, "flush_remove_info") /\ UNCHANGED infos
    BY <1>4, <2>1, <2>3, <2>5, GotoLocals DEF StoreInv, FlushRemoves
  <2> QED BY <1>7, <2>4, <2>5 DEF FlushRemoveLength
<1> QED BY <1>5, <1>6, <1>7

\* Reading, and stopping between two steps, change nothing that is shared.
LEMMA ReadsAndStops ==
    ASSUME StoreInv, NEW t \in Threads,
           \/ \E b \in Blocks : GetBlock(t, b)
           \/ GetVolatile(t) \/ Fail(t)
    PROVE  Facts(t)' /\ Shared'
<1>1. Shared'
  BY SharedFrame DEF StoreInv, GetBlock, GetVolatile, Fail, permanent
<1>2. ASSUME NEW r, Return(t, r) PROVE pc'[t] = "idle"
  BY <1>2, ReturnLocals DEF StoreInv
<1>3. pc'[t] \in {"idle", "get_volatile"}
  BY <1>2, GotoLocals DEF StoreInv, GetBlock, GetVolatile, Fail
<1> QED BY <1>1, <1>3, FactsIdle

\* The last step of prune_branch adds a tip on which no volatile block stands.
LEMMA PruneTipSafe ==
    ASSUME StoreInv, NEW t \in Threads, PruneTip(t)
    PROVE  Facts(t)' /\ Shared'
<1>1. /\ tips' = tips \cup {arg[t]} /\ UNCHANGED <<blocks, info, lengthIndex, tags, permIndex>>
      /\ Return(t, "Ok") /\ pc[t] = "prune_tip"
  BY DEF PruneTip, permanent
<1>2. InPermanent(arg[t]) /\ VolatileChildren(arg[t]) \subseteq DOMAIN permIndex
  BY <1>1 DEF StoreInv, Facts, PruneFacts
<1>3. \A x : VolatileChildren(x)' = VolatileChildren(x) /\ (Stored(x)' <=> Stored(x))
  BY <1>1 DEF VolatileChildren, Stored, InVolatile, InPermanent
<1>4. TipsAreLeaves'
  BY <1>1, <1>2, <1>3 DEF StoreInv, Shared, TipsAreLeaves, Stored, InPermanent
<1>5. RefCountsExact'
  BY <1>1, <1>3, CountsFrame DEF StoreInv, Shared
<1>6. PermanentClosed' /\ ParentsStored' /\ TagsResolve' /\ BytesMatchInfo' /\ LengthIndexSound'
  BY <1>1, <1>3 DEF StoreInv, Shared, PermanentClosed, ParentsStored, TagsResolve, BytesMatchInfo,
                    LengthIndexSound, InPermanent
<1> QED BY <1>1, <1>4, <1>5, <1>6, ReturnLocals, FactsIdle DEF Shared, StoreInv

-----------------------------------------------------------------------------
(* Counting references.                                                    *)

\* The children and the tags of a block are no more than a counter holds.
LEMMA ReferencesFit ==
    ASSUME CountersFit, TypeInv, NEW x
    PROVE  /\ VolatileChildren(x) \subseteq Blocks /\ TagsOf(x) \subseteq Tags
           /\ IsFiniteSet(VolatileChildren(x)) /\ IsFiniteSet(TagsOf(x))
           /\ Cardinality(VolatileChildren(x)) \in 0..MaxRef
           /\ Cardinality(TagsOf(x)) \in 0..MaxRef
<1>1. VolatileChildren(x) \in SUBSET Blocks /\ TagsOf(x) \in SUBSET Tags
  BY DEF VolatileChildren, TagsOf, TypeInv, TypeOK, IsTree
<1>2. /\ IsFiniteSet(VolatileChildren(x)) /\ IsFiniteSet(TagsOf(x))
      /\ Cardinality(VolatileChildren(x)) <= Cardinality(Blocks)
      /\ Cardinality(TagsOf(x)) <= Cardinality(Tags)
  BY <1>1, FS_Subset DEF CountersFit
<1>3. /\ Cardinality(VolatileChildren(x)) \in Nat /\ Cardinality(TagsOf(x)) \in Nat
      /\ Cardinality(Blocks) \in Nat /\ Cardinality(Tags) \in Nat
  BY <1>2, FS_CardinalityType DEF CountersFit
<1> QED BY <1>1, <1>2, <1>3, BoundAssumption DEF CountersFit

\* One more reference: the counter goes up by one and does not wrap.
LEMMA CountUp ==
    ASSUME NEW S, NEW T, IsFiniteSet(T), S \subseteq T, Cardinality(T) <= MaxRef,
           NEW x \in T, x \notin S
    PROVE  Inc(Cardinality(S)) = Cardinality(S \cup {x})
<1>1. IsFiniteSet(S) /\ Cardinality(S \cup {x}) = Cardinality(S) + 1 /\ Cardinality(S) \in Nat
  BY FS_Subset, FS_AddElement, FS_CardinalityType
<1>2. S \cup {x} \in SUBSET T
  OBVIOUS
<1>3. Cardinality(S \cup {x}) <= Cardinality(T) /\ Cardinality(T) \in Nat
  BY <1>2, FS_Subset, FS_CardinalityType
<1> QED BY <1>1, <1>3, BoundAssumption DEF Inc

\* One reference less: the counter goes down by one and does not wrap.
LEMMA CountDown ==
    ASSUME NEW S, IsFiniteSet(S), NEW x \in S
    PROVE  Dec(Cardinality(S)) = Cardinality(S \ {x})
<1>1. Cardinality(S \ {x}) = Cardinality(S) - 1 /\ Cardinality(S) \in Nat
  BY FS_RemoveElement, FS_CardinalityType
<1>2. Cardinality(S) # 0
  BY FS_EmptySet
<1> QED BY <1>1, <1>2 DEF Dec

\* The counters of a block, read from the exact ones.
LEMMA ExactFields ==
    ASSUME TypeInv, RefCountsExact, NEW x \in DOMAIN info \ DOMAIN permIndex
    PROVE  /\ info[x].parentRefs = Cardinality(VolatileChildren(x))
           /\ info[x].tagRefs = Cardinality(TagsOf(x))
BY DEF RefCountsExact

-----------------------------------------------------------------------------
(* The transactions.                                                       *)

\* What put_block_impl writes into the info tree.
LEMMA PutInfo ==
    ASSUME TypeInv, NEW b \in Blocks, NEW p, NEW linked \in BOOLEAN,
           linked => p \in DOMAIN info, b \notin DOMAIN info,
           info' = Insert(IF linked THEN WithParentRef(p) ELSE info, b, FreshInfo)
    PROVE  /\ DOMAIN info' = DOMAIN info \cup {b}
           /\ info'[b] = FreshInfo
           /\ \A x \in DOMAIN info :
                 info'[x] = IF linked /\ x = p
                            THEN [parentRefs |-> Inc(info[p].parentRefs), tagRefs |-> info[p].tagRefs]
                            ELSE info[x]
<1>1. ASSUME linked
      PROVE  /\ DOMAIN WithParentRef(p) = DOMAIN info
             /\ \A x \in DOMAIN info :
                   WithParentRef(p)[x] =
                       IF x = p
                       THEN [parentRefs |-> Inc(info[p].parentRefs), tagRefs |-> info[p].tagRefs]
                       ELSE info[x]
  BY <1>1 DEF WithParentRef, TypeInv, TypeOK, IsTree, Info
<1>2. CASE linked
  BY <1>1, <1>2 DEF Insert
<1>3. CASE ~linked
  BY <1>3 DEF Insert
<1> QED BY <1>2, <1>3

\* The transaction of put_block links a new block under a stored parent.
LEMMA PutTxnSafe ==
    ASSUME CountersFit, StoreInv, NEW t \in Threads, PutTxn(t)
    PROVE  Facts(t)' /\ Shared'
<1> DEFINE b == arg[t]
           p == Parent[b]
           linked == ~ext[t] /\ p # Root
<1>1. /\ b \in Blocks /\ ~Stored(b) /\ ext[t] = InPermanent(p) /\ permIndex' = permIndex
      /\ ext[t] \in BOOLEAN /\ p # b /\ p \in Blocks \cup {Root}
  <2>1. b \in Blocks
    BY DEF PutTxn, StoreInv, TypeInv, LocalsOK
  <2>2. ~Stored(b) /\ ext[t] = InPermanent(p) /\ permIndex' = permIndex /\ ext[t] \in BOOLEAN
    BY DEF PutTxn, StoreInv, Facts, PutFacts, TypeInv, TypeOK, permanent
  <2>3. p # b
    BY <2>1, LengthAssumption, RootAssumption
  <2> QED BY <2>1, <2>2, <2>3, ParentAssumption
<1>2. Facts(t)'
  BY ReturnLocals, FactsIdle DEF StoreInv, PutTxn
<1>3. CASE UNCHANGED volatile
  BY <1>1, <1>2, <1>3, SharedFrame DEF StoreInv
<1>4. CASE /\ linked => InVolatile(p)
           /\ info' = Insert(IF linked THEN WithParentRef(p) ELSE info, b, FreshInfo)
           /\ tips' = (tips \ {p}) \cup {b}
           /\ lengthIndex' = lengthIndex \cup {<<ChainLength[b], b>>}
           /\ blocks' = blocks \cup {b}
           /\ UNCHANGED tags
  <2>1. /\ DOMAIN info' = DOMAIN info \cup {b}
        /\ info'[b] = FreshInfo
        /\ \A x \in DOMAIN info :
              info'[x] = IF linked /\ x = p
                         THEN [parentRefs |-> Inc(info[p].parentRefs), tagRefs |-> info[p].tagRefs]
                         ELSE info[x]
    <3>1. b \notin DOMAIN info /\ linked \in BOOLEAN /\ (linked => p \in DOMAIN info)
      BY <1>1, <1>4 DEF Stored, InVolatile
    <3> HIDE DEF b, p, linked
    <3> QED BY <1>1, <1>4, <3>1, PutInfo DEF StoreInv
  <2>2. /\ b \notin DOMAIN info /\ b \notin DOMAIN permIndex
        /\ p = Root \/ Stored(p)
        /\ linked <=> p # Root /\ p \notin DOMAIN permIndex
    BY <1>1, <1>4 DEF Stored, InVolatile, InPermanent
  <2>3. VolatileChildren(b) = {} /\ TagsOf(b) = {}
    <3>1. ASSUME NEW c \in DOMAIN info, Parent[c] = b PROVE FALSE
      <4>1. c \in Blocks /\ Stored(c)
        BY DEF StoreInv, TypeInv, TypeOK, IsTree, Stored, InVolatile
      <4> QED BY <1>1, <3>1, <4>1, RootAssumption DEF StoreInv, Shared, ParentsStored
    <3>2. ASSUME NEW g \in DOMAIN tags, tags[g] = b PROVE FALSE
      BY <1>1, <3>2 DEF StoreInv, Shared, TagsResolve
    <3> QED BY <3>1, <3>2 DEF VolatileChildren, TagsOf
  <2>4. \A x : VolatileChildren(x)' = IF x = p THEN VolatileChildren(x) \cup {b}
                                      ELSE VolatileChildren(x)
    BY <2>1 DEF VolatileChildren
  <2>5. \A x : TagsOf(x)' = TagsOf(x)
    BY <1>4 DEF TagsOf
  <2>6. \A x : Stored(x)' <=> Stored(x) \/ x = b
    BY <1>1, <2>1 DEF Stored, InVolatile, InPermanent
  <2> HIDE DEF b, p, linked
  <2>7. RefCountsExact'
    <3> SUFFICES ASSUME NEW x \in DOMAIN info' \ DOMAIN permIndex'
                 PROVE  info'[x] = [parentRefs |-> Cardinality(VolatileChildren(x)'),
                                    tagRefs |-> Cardinality(TagsOf(x)')]
      BY DEF RefCountsExact
    <3>1. CASE x = b
      <4>1. VolatileChildren(x)' = {} /\ TagsOf(x)' = {}
        BY <1>1, <2>3, <2>4, <2>5, <3>1
      <4> QED BY <2>1, <3>1, <4>1, FS_EmptySet DEF FreshInfo
    <3>2. CASE x # b /\ x # p
      <4>1. x \in DOMAIN info \ DOMAIN permIndex /\ info'[x] = info[x]
        BY <1>1, <2>1, <3>2
      <4> QED BY <2>4, <2>5, <3>2, <4>1 DEF StoreInv, Shared, RefCountsExact
    <3>3. CASE x = p
      <4>1. x \in DOMAIN info \ DOMAIN permIndex /\ linked
        <5>1. x \in DOMAIN info \ DOMAIN permIndex
          BY <1>1, <2>1, <3>3
        <5>2. x # Root
          BY <5>1, RootAssumption DEF StoreInv, TypeInv, TypeOK, IsTree
        <5> QED BY <2>2, <3>3, <5>1, <5>2
      <4>2. info'[x] = [parentRefs |-> Inc(Cardinality(VolatileChildren(x))),
                        tagRefs |-> Cardinality(TagsOf(x))]
        BY <2>1, <3>3, <4>1, ExactFields DEF StoreInv, Shared
      <4>3. Inc(Cardinality(VolatileChildren(x))) = Cardinality(VolatileChildren(x) \cup {b})
        <5>1. VolatileChildren(x) \subseteq Blocks /\ b \notin VolatileChildren(x)
          BY <2>2, ReferencesFit DEF StoreInv, VolatileChildren
        <5> QED BY <1>1, <5>1, CountUp DEF CountersFit
      <4> QED BY <2>4, <2>5, <3>3, <4>2, <4>3
    <3> QED BY <3>1, <3>2, <3>3
  <2>8. TipsAreLeaves'
    <3>1. ASSUME NEW x \in DOMAIN info' \ DOMAIN permIndex'
          PROVE  x \in tips' <=> VolatileChildren(x)' = {}
      <4>1. CASE x = b
        BY <1>1, <1>4, <2>3, <2>4, <4>1
      <4>2. CASE x = p
        BY <1>1, <1>4, <2>4, <4>2
      <4>3. CASE x # b /\ x # p
        BY <1>1, <1>4, <2>1, <2>4, <3>1, <4>3 DEF StoreInv, Shared, TipsAreLeaves
      <4> QED BY <4>1, <4>2, <4>3
    <3>2. ASSUME NEW x \in tips'
          PROVE  Stored(x)' /\ VolatileChildren(x)' \subseteq DOMAIN permIndex'
      <4>1. CASE x = b
        BY <1>1, <2>3, <2>4, <2>6, <4>1
      <4>2. CASE x # b
        BY <1>1, <1>4, <2>4, <2>6, <3>2, <4>2 DEF StoreInv, Shared, TipsAreLeaves
      <4> QED BY <4>1, <4>2
    <3> QED BY <3>1, <3>2 DEF TipsAreLeaves
  <2>9. PermanentClosed'
    BY <1>1 DEF StoreInv, Shared, PermanentClosed, InPermanent
  <2>10. ParentsStored' /\ TagsResolve'
    BY <1>4, <2>2, <2>6 DEF StoreInv, Shared, ParentsStored, TagsResolve, p
  <2>11. BytesMatchInfo'
    BY <1>1, <1>4, <2>1 DEF StoreInv, Shared, BytesMatchInfo
  <2>12. LengthIndexSound'
    BY <1>1, <1>4, <2>1, <2>6 DEF StoreInv, Shared, LengthIndexSound
  <2> QED BY <1>2, <2>7, <2>8, <2>9, <2>10, <2>11, <2>12 DEF Shared
<1> QED BY <1>3, <1>4 DEF PutTxn

\* What put_tag writes into the info tree: the counter of the block it names
\* goes up, then the counter of the block the tag leaves goes down.
LEMMA RetagInfo ==
    ASSUME TypeInv, NEW tag, NEW b, tag \in DOMAIN tags => tags[tag] \in DOMAIN info,
           info' = Retag(info, tag, b)
    PROVE  LET up(x) == IF x = b THEN Inc(info[x].tagRefs) ELSE info[x].tagRefs IN
           /\ DOMAIN info' = DOMAIN info
           /\ \A x \in DOMAIN info :
                 info'[x] = [parentRefs |-> info[x].parentRefs,
                             tagRefs |-> IF tag \in DOMAIN tags /\ x = tags[tag] THEN Dec(up(x))
                                         ELSE up(x)]
<1> DEFINE added == IF b \in DOMAIN info THEN [info EXCEPT ![b].tagRefs = Inc(@)] ELSE info
           up(x) == IF x = b THEN Inc(info[x].tagRefs) ELSE info[x].tagRefs
<1>1. \A x \in DOMAIN info : info[x] = [parentRefs |-> info[x].parentRefs, tagRefs |-> info[x].tagRefs]
  BY DEF TypeInv, TypeOK, IsTree, Info
<1>2. /\ DOMAIN added = DOMAIN info
      /\ \A x \in DOMAIN info : added[x] = [parentRefs |-> info[x].parentRefs, tagRefs |-> up(x)]
  BY <1>1
<1>3. info' = IF tag \in DOMAIN tags THEN [added EXCEPT ![tags[tag]].tagRefs = Dec(@)] ELSE added
  BY DEF Retag
<1> HIDE DEF added, up
<1>4. CASE tag \notin DOMAIN tags
  BY <1>2, <1>3, <1>4 DEF up
<1>5. CASE tag \in DOMAIN tags
  <2>1. /\ DOMAIN info' = DOMAIN info
        /\ \A x \in DOMAIN info :
              info'[x] = IF x = tags[tag]
                         THEN [parentRefs |-> info[x].parentRefs, tagRefs |-> Dec(up(x))]
                         ELSE [parentRefs |-> info[x].parentRefs, tagRefs |-> up(x)]
    BY <1>2, <1>3, <1>5
  <2> QED BY <1>5, <2>1 DEF up
<1> QED BY <1>4, <1>5

\* put_tag moves a tag between stored blocks and counts it where it points.
LEMMA PutTagSafe ==
    ASSUME CountersFit, StoreInv, NEW t \in Threads, NEW tag \in Tags, NEW b \in Blocks,
           PutTag(t, tag, b)
    PROVE  Facts(t)' /\ Shared'
<1>1. permIndex' = permIndex
  BY DEF PutTag, permanent
<1>2. Facts(t)'
  BY ReturnLocals, FactsIdle DEF StoreInv, PutTag
<1>3. CASE UNCHANGED volatile
  BY <1>1, <1>2, <1>3, SharedFrame DEF StoreInv
<1>4. CASE /\ Stored(b)
           /\ tag \in DOMAIN tags => InVolatile(tags[tag])
           /\ info' = Retag(info, tag, b)
           /\ tags' = Insert(tags, tag, b)
           /\ UNCHANGED <<blocks, lengthIndex, tips>>
  <2> DEFINE up(x) == IF x = b THEN Inc(info[x].tagRefs) ELSE info[x].tagRefs
             old(x) == tag \in DOMAIN tags /\ x = tags[tag]
  <2>1. /\ DOMAIN info' = DOMAIN info
        /\ \A x \in DOMAIN info :
              info'[x] = [parentRefs |-> info[x].parentRefs,
                          tagRefs |-> IF old(x) THEN Dec(up(x)) ELSE up(x)]
    BY <1>4, RetagInfo DEF StoreInv, InVolatile
  <2>2. DOMAIN tags' = DOMAIN tags \cup {tag} /\ tags'[tag] = b
        /\ \A g \in DOMAIN tags : g # tag => tags'[g] = tags[g]
    BY <1>4 DEF Insert
  <2>3. \A x : /\ VolatileChildren(x)' = VolatileChildren(x)
               /\ Stored(x)' <=> Stored(x)
    BY <1>1, <2>1 DEF VolatileChildren, Stored, InVolatile, InPermanent
  <2>4. \A x : TagsOf(x)' = IF x = b THEN TagsOf(x) \cup {tag} ELSE TagsOf(x) \ {tag}
    BY <2>2 DEF TagsOf
  <2>5. \A x : old(x) <=> tag \in TagsOf(x)
    BY DEF TagsOf
  <2> HIDE DEF old
  <2>6. RefCountsExact'
    <3> SUFFICES ASSUME NEW x \in DOMAIN info' \ DOMAIN permIndex'
                 PROVE  info'[x] = [parentRefs |-> Cardinality(VolatileChildren(x)'),
                                    tagRefs |-> Cardinality(TagsOf(x)')]
      BY DEF RefCountsExact
    <3>1. x \in DOMAIN info \ DOMAIN permIndex
      BY <1>1, <2>1
    <3>2. /\ info[x].parentRefs = Cardinality(VolatileChildren(x))
          /\ info[x].tagRefs = Cardinality(TagsOf(x))
      BY <3>1, ExactFields DEF StoreInv, Shared
    <3>3. /\ TagsOf(x) \subseteq Tags /\ IsFiniteSet(TagsOf(x))
          /\ Cardinality(TagsOf(x)) \in 0..MaxRef
      BY ReferencesFit DEF StoreInv
    <3>4. (IF old(x) THEN Dec(up(x)) ELSE up(x)) = Cardinality(TagsOf(x)')
      <4>1. CASE x = b /\ tag \in TagsOf(x)
        <5>1. Dec(Inc(info[x].tagRefs)) = info[x].tagRefs
          BY <3>2, <3>3, BoundAssumption DEF Inc, Dec
        <5>2. TagsOf(x)' = TagsOf(x)
          BY <2>4, <4>1
        <5> QED BY <2>5, <3>2, <4>1, <5>1, <5>2
      <4>2. CASE x = b /\ tag \notin TagsOf(x)
        BY <2>4, <2>5, <3>2, <3>3, <4>2, CountUp DEF CountersFit
      <4>3. CASE x # b /\ tag \in TagsOf(x)
        BY <2>4, <2>5, <3>2, <3>3, <4>3, CountDown
      <4>4. CASE x # b /\ tag \notin TagsOf(x)
        <5>1. TagsOf(x)' = TagsOf(x)
          BY <2>4, <4>4
        <5> QED BY <2>5, <3>2, <4>4, <5>1
      <4> QED BY <4>1, <4>2, <4>3, <4>4
    <3> HIDE DEF up
    <3> QED BY <2>1, <2>3, <3>1, <3>2, <3>4
  <2>7. TagsResolve'
    BY <1>4, <2>2, <2>3 DEF StoreInv, Shared, TagsResolve
  <2>8. PermanentClosed' /\ ParentsStored'
    BY <1>1, <2>3 DEF StoreInv, Shared, PermanentClosed, ParentsStored, InPermanent
  <2>9. TipsAreLeaves' /\ BytesMatchInfo' /\ LengthIndexSound'
    BY <1>1, <1>4, <2>1, <2>3 DEF StoreInv, Shared, TipsAreLeaves, BytesMatchInfo, LengthIndexSound
  <2> QED BY <1>2, <2>6, <2>7, <2>8, <2>9 DEF Shared
<1> QED BY <1>3, <1>4 DEF PutTag

-----------------------------------------------------------------------------
(* The loop of prune_branch, by the leastness of the set it removes.       *)

\* A set the loop does not lead out of holds all it removes.
LEMMA RemovedLeast ==
    ASSUME NEW tip, NEW S \in SUBSET Blocks, ClosedUnderRemoval(S, tip)
    PROVE  Removed(tip) \subseteq S
BY DEF Removed

\* The loop does not lead out of what it removes.
LEMMA RemovedClosed ==
    ASSUME NEW tip \in Blocks
    PROVE  ClosedUnderRemoval(Removed(tip), tip)
<1>1. Unreferenced(tip, tip) => tip \in Removed(tip)
  BY DEF Removed, ClosedUnderRemoval
<1>2. ASSUME NEW c \in Removed(tip), Parent[c] # Root, Unreferenced(Parent[c], tip)
      PROVE  Parent[c] \in Removed(tip)
  <2>1. Parent[c] \in Blocks
    BY <1>2, ParentAssumption DEF Removed
  <2> QED BY <1>2, <2>1 DEF Removed, ClosedUnderRemoval
<1> QED BY <1>1, <1>2 DEF ClosedUnderRemoval

\* Everything removed was volatile only and without references of its own.
LEMMA RemovedUnreferenced ==
    ASSUME NEW tip \in Blocks
    PROVE  Removed(tip) \subseteq Blocks /\ \A b \in Removed(tip) : Unreferenced(b, tip)
<1> DEFINE S == {b \in Blocks : Unreferenced(b, tip)}
<1>1. ClosedUnderRemoval(S, tip)
  BY ParentAssumption DEF ClosedUnderRemoval
<1>2. Removed(tip) \subseteq S
  BY <1>1, RemovedLeast
<1> QED BY <1>2

\* A block below the tip is removed after one of its children.
LEMMA RemovedBelow ==
    ASSUME NEW tip \in Blocks, NEW b \in Removed(tip), b # tip
    PROVE  /\ \E c \in Removed(tip) : Parent[c] = b
           /\ ChainLength[b] < ChainLength[tip]
<1> DEFINE gone == Removed(tip)
           S == {x \in gone : \/ x = tip
                              \/ /\ \E c \in gone : Parent[c] = x
                                 /\ ChainLength[x] < ChainLength[tip]}
<1>1. gone \subseteq Blocks /\ ClosedUnderRemoval(gone, tip)
  BY RemovedUnreferenced, RemovedClosed
<1>2. ClosedUnderRemoval(S, tip)
  <2> HIDE DEF gone
  <2>1. Unreferenced(tip, tip) => tip \in S
    BY <1>1 DEF ClosedUnderRemoval
  <2>2. ASSUME NEW c \in S, Parent[c] # Root, Unreferenced(Parent[c], tip)
        PROVE  Parent[c] \in S
    <3>1. Parent[c] \in gone
      BY <1>1, <2>2 DEF ClosedUnderRemoval
    <3>2. /\ ChainLength[c] = ChainLength[Parent[c]] + 1
          /\ ChainLength[c] \in Nat /\ ChainLength[Parent[c]] \in Nat /\ ChainLength[tip] \in Nat
      BY <1>1, <2>2, <3>1, LengthAssumption
    <3> QED BY <3>1, <3>2
  <2> QED BY <2>1, <2>2 DEF ClosedUnderRemoval
<1>3. Removed(tip) \subseteq S
  BY <1>1, <1>2, RemovedLeast
<1> QED BY <1>3

\* The loop removes a path: one block of each length.
LEMMA RemovedPath ==
    ASSUME NEW tip \in Blocks, NEW x \in Removed(tip), NEW y \in Removed(tip),
           ChainLength[x] = ChainLength[y]
    PROVE  x = y
<1> DEFINE gone == Removed(tip)
           S == {b \in gone : \A u, v \in gone :
                                 /\ ChainLength[u] = ChainLength[v]
                                 /\ ChainLength[u] >= ChainLength[b]
                                 => u = v}
<1>1. /\ gone \subseteq Blocks /\ ClosedUnderRemoval(gone, tip)
      /\ \A b \in gone : ChainLength[b] \in Nat
  BY RemovedUnreferenced, RemovedClosed, LengthAssumption
<1>2. \A b \in gone : b # tip => /\ \E c \in gone : Parent[c] = b
                                 /\ ChainLength[b] < ChainLength[tip]
  BY RemovedBelow
<1>3. ChainLength[tip] \in Nat
  BY LengthAssumption
<1> HIDE DEF gone
<1>4. ClosedUnderRemoval(S, tip)
  <2>1. ASSUME Unreferenced(tip, tip) PROVE tip \in S
    <3>1. tip \in gone
      BY <1>1, <2>1 DEF ClosedUnderRemoval
    <3>2. \A u \in gone : ChainLength[u] >= ChainLength[tip] => u = tip
      BY <1>1, <1>2, <1>3
    <3> QED BY <3>1, <3>2
  <2>2. ASSUME NEW c \in S, Parent[c] # Root, Unreferenced(Parent[c], tip)
        PROVE  Parent[c] \in S
    <3>1. Parent[c] \in gone /\ c \in gone
      BY <1>1, <2>2 DEF ClosedUnderRemoval
    <3>2. ChainLength[c] = ChainLength[Parent[c]] + 1
      BY <1>1, <2>2, <3>1, LengthAssumption
    <3>3. ASSUME NEW u \in gone, ChainLength[u] = ChainLength[Parent[c]] PROVE u = Parent[c]
      <4>1. ChainLength[u] < ChainLength[c] /\ ChainLength[c] <= ChainLength[tip]
        BY <1>1, <1>2, <1>3, <3>1, <3>2, <3>3
      <4>2. u # tip
        BY <1>1, <1>3, <3>1, <4>1
      <4>3. PICK d \in gone : Parent[d] = u
        BY <1>2, <4>2
      <4>4. ChainLength[d] = ChainLength[u] + 1
        BY <1>1, <3>3, <4>3, LengthAssumption, RootAssumption
      <4>5. d = c
        BY <1>1, <2>2, <3>1, <3>2, <3>3, <4>4
      <4> QED BY <4>3, <4>5
    <3>4. ASSUME NEW u \in gone, NEW v \in gone, ChainLength[u] = ChainLength[v],
                 ChainLength[u] >= ChainLength[Parent[c]]
          PROVE  u = v
      <4>1. CASE ChainLength[u] = ChainLength[Parent[c]]
        BY <3>3, <3>4, <4>1
      <4>2. CASE ChainLength[u] # ChainLength[Parent[c]]
        <5>1. ChainLength[u] >= ChainLength[c]
          BY <1>1, <3>1, <3>2, <3>4, <4>2
        <5> QED BY <2>2, <3>4, <5>1
      <4> QED BY <4>1, <4>2
    <3> QED BY <3>1, <3>4
  <2> QED BY <2>1, <2>2 DEF ClosedUnderRemoval
<1>5. S \in SUBSET Blocks
  BY <1>1
<1>6. gone \subseteq S
  BY <1>4, <1>5, RemovedLeast DEF gone
<1> QED BY <1>1, <1>6 DEF gone

\* The exact counters tell the loop the truth: nothing that stays refers to what
\* it removes, neither a tag nor a child, volatile or permanent.
LEMMA RemovedAlone ==
    ASSUME CountersFit, StoreInv, NEW tip \in Blocks, NEW q \in Removed(tip)
    PROVE  /\ q \in DOMAIN info /\ q \notin DOMAIN permIndex
           /\ TagsOf(q) = {}
           /\ VolatileChildren(q) \subseteq Removed(tip)
           /\ \A c \in DOMAIN permIndex : Parent[c] # q
<1>1. q \in Blocks /\ Unreferenced(q, tip)
  BY RemovedUnreferenced
<1>2. q \in DOMAIN info /\ q \notin DOMAIN permIndex
  BY <1>1 DEF Unreferenced, InVolatile, InPermanent
<1>3. /\ info[q].parentRefs = Cardinality(VolatileChildren(q))
      /\ info[q].tagRefs = Cardinality(TagsOf(q))
  BY <1>2, ExactFields DEF StoreInv, Shared
<1>4. /\ IsFiniteSet(VolatileChildren(q)) /\ IsFiniteSet(TagsOf(q))
      /\ Cardinality(VolatileChildren(q)) \in Nat /\ Cardinality(TagsOf(q)) \in Nat
  BY ReferencesFit, BoundAssumption DEF StoreInv
<1>5. /\ Cardinality(TagsOf(q)) = 0
      /\ Cardinality(VolatileChildren(q)) = IF q = tip THEN 0 ELSE 1
  BY <1>1, <1>3, <1>4 DEF Unreferenced, RefCount
<1>6. VolatileChildren(q) \subseteq Removed(tip)
  <2>1. CASE q = tip
    <3>1. VolatileChildren(q) = {}
      BY <1>4, <1>5, <2>1, FS_EmptySet
    <3> QED BY <3>1
  <2>2. CASE q # tip
    <3>1. PICK c \in Removed(tip) : Parent[c] = q
      BY <2>2, RemovedBelow
    <3>2. c \in VolatileChildren(q)
      <4>1. Unreferenced(c, tip)
        BY RemovedUnreferenced
      <4> QED BY <3>1, <4>1 DEF Unreferenced, InVolatile, VolatileChildren
    <3>3. PICK d : VolatileChildren(q) = {d}
      BY <1>4, <1>5, <2>2, FS_Singleton
    <3> QED BY <3>2, <3>3
  <2> QED BY <2>1, <2>2
<1>7. \A c \in DOMAIN permIndex : Parent[c] # q
  BY <1>1, <1>2, RootAssumption DEF StoreInv, Shared, PermanentClosed, InPermanent
<1> QED BY <1>2, <1>4, <1>5, <1>6, <1>7, FS_EmptySet

\* The block the loop stops at loses exactly one child.
LEMMA BereftChild ==
    ASSUME CountersFit, StoreInv, NEW tip \in Blocks, NEW p \in Bereft(Removed(tip)), p # Root
    PROVE  \E c \in VolatileChildren(p) : VolatileChildren(p) \ Removed(tip) = VolatileChildren(p) \ {c}
<1>1. PICK c \in Removed(tip) : Parent[c] = p
  BY DEF Bereft
<1>2. c \in VolatileChildren(p)
  BY <1>1, RemovedAlone DEF VolatileChildren
<1>3. ASSUME NEW d \in Removed(tip), Parent[d] = p PROVE d = c
  <2>1. c \in Blocks /\ d \in Blocks
    BY RemovedUnreferenced
  <2>2. ChainLength[c] = ChainLength[d]
    BY <1>1, <1>3, <2>1, LengthAssumption
  <2> QED BY <2>2, RemovedPath
<1>4. VolatileChildren(p) \ Removed(tip) = VolatileChildren(p) \ {c}
  BY <1>1, <1>3 DEF VolatileChildren
<1> QED BY <1>2, <1>4

\* The transaction of prune_branch removes a path of blocks nothing else refers
\* to, and the counter of the block below the path stays exact.
LEMMA PruneTxnSafe ==
    ASSUME CountersFit, StoreInv, NEW t \in Threads, PruneTxn(t)
    PROVE  Facts(t)' /\ Shared'
<1> DEFINE tip == arg[t]
           gone == Removed(tip)
           shrunk == {p \in Bereft(gone) : InVolatile(p) /\ ~InPermanent(p)}
           left(p) == Dec(info[p].parentRefs)
<1>1. /\ blocks' = blocks \ gone
      /\ lengthIndex' = lengthIndex \ LengthKeys(gone)
      /\ info' = [b \in DOMAIN info \ gone |->
                     IF b \in shrunk THEN [info[b] EXCEPT !.parentRefs = left(b)] ELSE info[b]]
      /\ tips' = (tips \ gone) \cup {p \in shrunk : left(p) = 0}
      /\ UNCHANGED <<tags, permIndex>>
  BY DEF PruneTxn, permanent
<1>2. tip \in Blocks
  BY DEF PruneTxn, StoreInv, TypeInv, LocalsOK
<1>3. \A q \in gone : /\ q \in DOMAIN info /\ q \notin DOMAIN permIndex
                      /\ TagsOf(q) = {}
                      /\ VolatileChildren(q) \subseteq gone
                      /\ \A c \in DOMAIN permIndex : Parent[c] # q
  BY <1>2, RemovedAlone
<1>4. \A p \in shrunk : \E c \in VolatileChildren(p) :
                            VolatileChildren(p) \ gone = VolatileChildren(p) \ {c}
  <2>1. \A p \in shrunk : p \in Bereft(gone) /\ p # Root
    BY RootAssumption DEF InVolatile, StoreInv, TypeInv, TypeOK, IsTree
  <2> QED BY <1>2, <2>1, BereftChild
<1>5. \A x \in DOMAIN info \ DOMAIN permIndex :
          x \notin gone /\ x \notin shrunk => VolatileChildren(x) \cap gone = {}
  BY DEF VolatileChildren, Bereft, InVolatile, InPermanent
<1>6. gone \subseteq Blocks /\ shrunk \subseteq DOMAIN info \ DOMAIN permIndex /\ shrunk \cap gone = {}
  BY <1>2, RemovedUnreferenced DEF Bereft, InVolatile, InPermanent
<1>7. Facts(t)'
  <2>1. CASE Return(t, "Ok")
    BY <2>1, ReturnLocals, FactsIdle DEF StoreInv
  <2>2. CASE \E p \in Bereft(gone) : /\ InPermanent(p)
                                     /\ Goto(t, "prune_look")
                                     /\ arg' = [arg EXCEPT ![t] = p]
    <3>1. pc'[t] = "prune_look" /\ arg'[t] \in DOMAIN permIndex'
      BY <1>1, <2>2, GotoLocals DEF StoreInv, TypeInv, TypeOK, InPermanent
    <3> QED BY <3>1 DEF Facts, PutFacts, PruneFacts, FlushFacts, FlushGathers, FlushHolds, FlushRemoves,
                        InPermanent
  <2> QED BY <2>1, <2>2 DEF PruneTxn
<1> HIDE DEF tip, gone, shrunk
<1>8. DOMAIN info' = DOMAIN info \ gone
  BY <1>1
<1>9. \A x : VolatileChildren(x)' = VolatileChildren(x) \ gone
  BY <1>8 DEF VolatileChildren
<1>10. \A x : Stored(x)' <=> Stored(x) /\ x \notin gone
  BY <1>1, <1>3, <1>8 DEF Stored, InVolatile, InPermanent
<1>11. \A x : TagsOf(x)' = TagsOf(x)
  BY <1>1 DEF TagsOf
<1>12. \A p \in shrunk : left(p) = Cardinality(VolatileChildren(p)')
  <2> SUFFICES ASSUME NEW p \in shrunk PROVE left(p) = Cardinality(VolatileChildren(p)')
    OBVIOUS
  <2>1. info[p].parentRefs = Cardinality(VolatileChildren(p)) /\ IsFiniteSet(VolatileChildren(p))
    BY <1>6, ExactFields, ReferencesFit DEF StoreInv, Shared
  <2>2. PICK c \in VolatileChildren(p) : VolatileChildren(p) \ gone = VolatileChildren(p) \ {c}
    BY <1>4
  <2> QED BY <1>9, <2>1, <2>2, CountDown
<1>13. RefCountsExact'
  <2> SUFFICES ASSUME NEW x \in DOMAIN info' \ DOMAIN permIndex'
               PROVE  info'[x] = [parentRefs |-> Cardinality(VolatileChildren(x)'),
                                  tagRefs |-> Cardinality(TagsOf(x)')]
    BY DEF RefCountsExact
  <2>1. x \in DOMAIN info \ DOMAIN permIndex /\ x \notin gone
    BY <1>1, <1>8
  <2>2. info[x] = [parentRefs |-> Cardinality(VolatileChildren(x)),
                   tagRefs |-> Cardinality(TagsOf(x))]
    BY <2>1 DEF StoreInv, Shared, RefCountsExact
  <2>3. CASE x \in shrunk
    <3>1. info'[x] = [info[x] EXCEPT !.parentRefs = left(x)]
      BY <1>1, <2>1, <2>3
    <3>2. left(x) = Cardinality(VolatileChildren(x)')
      BY <1>12, <2>3
    <3> HIDE DEF left
    <3> QED BY <1>11, <2>2, <3>1, <3>2
  <2>4. CASE x \notin shrunk
    <3>1. info'[x] = info[x]
      BY <1>1, <2>1, <2>4
    <3>2. VolatileChildren(x)' = VolatileChildren(x)
      BY <1>5, <1>9, <2>1, <2>4
    <3> QED BY <1>11, <2>2, <3>1, <3>2
  <2> QED BY <2>3, <2>4
<1>14. TipsAreLeaves'
  <2> HIDE DEF left
  <2>1. ASSUME NEW x \in DOMAIN info' \ DOMAIN permIndex'
        PROVE  x \in tips' <=> VolatileChildren(x)' = {}
    <3>1. x \in DOMAIN info \ DOMAIN permIndex /\ x \notin gone
      BY <1>1, <1>8
    <3>2. x \in tips <=> VolatileChildren(x) = {}
      BY <3>1 DEF StoreInv, Shared, TipsAreLeaves
    <3>3. CASE x \in shrunk
      <4>1. x \notin tips
        BY <1>4, <3>2, <3>3
      <4>2. IsFiniteSet(VolatileChildren(x)')
        <5>1. VolatileChildren(x)' \in SUBSET VolatileChildren(x) /\ IsFiniteSet(VolatileChildren(x))
          BY <1>9, ReferencesFit DEF StoreInv
        <5> QED BY <5>1, FS_Subset
      <4>3. left(x) = 0 <=> VolatileChildren(x)' = {}
        BY <1>12, <3>3, <4>2, FS_EmptySet
      <4> QED BY <1>1, <3>3, <4>1, <4>3
    <3>4. CASE x \notin shrunk
      BY <1>1, <1>5, <1>9, <3>1, <3>2, <3>4
    <3> QED BY <3>3, <3>4
  <2>2. ASSUME NEW x \in tips'
        PROVE  Stored(x)' /\ VolatileChildren(x)' \subseteq DOMAIN permIndex'
    <3>1. CASE x \in tips
      <4>1. x \notin gone
        BY <1>1, <1>6, <2>2
      <4> QED BY <1>1, <1>9, <1>10, <3>1, <4>1 DEF StoreInv, Shared, TipsAreLeaves
    <3>2. CASE x \notin tips
      <4>1. x \in shrunk /\ x \in DOMAIN info' \ DOMAIN permIndex'
        BY <1>1, <1>6, <1>8, <2>2, <3>2
      <4>2. VolatileChildren(x)' = {}
        BY <2>1, <2>2, <4>1
      <4> QED BY <4>1, <4>2 DEF Stored, InVolatile
    <3> QED BY <3>1, <3>2
  <2> QED BY <2>1, <2>2 DEF TipsAreLeaves
<1>15. ParentsStored'
  <2> SUFFICES ASSUME NEW b \in Blocks, Stored(b), b \notin gone, Parent[b] # Root
               PROVE  Stored(Parent[b]) /\ Parent[b] \notin gone
    BY <1>10 DEF ParentsStored
  <2>1. Stored(Parent[b])
    BY DEF StoreInv, Shared, ParentsStored
  <2>2. Parent[b] \notin gone
    BY <1>3 DEF Stored, InVolatile, InPermanent, VolatileChildren
  <2> QED BY <2>1, <2>2
<1>16. TagsResolve'
  <2> SUFFICES ASSUME NEW g \in DOMAIN tags PROVE tags[g] \notin gone
    BY <1>1, <1>10 DEF StoreInv, Shared, TagsResolve
  <2> QED BY <1>3 DEF TagsOf
<1>17. PermanentClosed'
  BY <1>1 DEF StoreInv, Shared, PermanentClosed, InPermanent
<1>18. BytesMatchInfo'
  BY <1>1, <1>8 DEF StoreInv, Shared, BytesMatchInfo
<1>19. LengthIndexSound'
  <2>1. ASSUME NEW b \in DOMAIN info' \ DOMAIN permIndex' PROVE <<ChainLength[b], b>> \in lengthIndex'
    BY <1>1, <1>8, <2>1 DEF StoreInv, Shared, LengthIndexSound, LengthKeys
  <2>2. ASSUME NEW e \in lengthIndex' PROVE e[1] = ChainLength[e[2]] /\ Stored(e[2])'
    <3>1. e \in lengthIndex /\ e \notin LengthKeys(gone)
      BY <1>1
    <3>2. e[1] = ChainLength[e[2]] /\ Stored(e[2])
      BY <3>1 DEF StoreInv, Shared, LengthIndexSound
    <3>3. e = <<e[1], e[2]>>
      BY <3>1 DEF StoreInv, TypeInv, TypeOK
    <3>4. e[2] \notin gone
      BY <3>1, <3>2, <3>3 DEF LengthKeys
    <3> QED BY <1>10, <3>2, <3>4
  <2> QED BY <2>1, <2>2 DEF LengthIndexSound
<1> QED BY <1>7, <1>13, <1>14, <1>15, <1>16, <1>17, <1>18, <1>19 DEF Shared

-----------------------------------------------------------------------------
(* The theorems.                                                           *)

\* The empty store satisfies the invariant (BlockStore::new).
LEMMA StoreInit == Init => StoreInv
<1> SUFFICES ASSUME Init PROVE StoreInv
  OBVIOUS
<1>1. TypeInv
  BY TypeInit
<1>2. WritersWrite /\ \A t \in Threads : Facts(t)
  BY DEF Init, WritersWrite, Facts, PutFacts, PruneFacts, FlushFacts, FlushGathers, FlushHolds,
         FlushRemoves
<1>3. Shared
  BY DEF Init, Shared, PermanentClosed, ParentsStored, TagsResolve, RefCountsExact, TipsAreLeaves,
         BytesMatchInfo, LengthIndexSound, Stored, InVolatile, InPermanent
<1> QED BY <1>1, <1>2, <1>3 DEF StoreInv

\* Every step of every thread preserves the invariant.
LEMMA StoreStep ==
    ASSUME OneWriter, CountersFit, StoreInv, NEW t \in Threads, StepOf(t)
    PROVE  StoreInv'
<1>1. TypeInv' /\ WritersWrite'
  <2>1. Next
    BY DEF StepOf, Next
  <2> QED BY <2>1, TypeNext, WritersNext DEF StoreInv
<1>2. \A u \in Threads : u # t => Facts(u)'
  BY FactsOther DEF StoreInv
<1>3. Facts(t)' /\ Shared'
  BY PutLooks, PruneLooks, FlushLooks, FlushIndexes, FlushRemovesSafely, ReadsAndStops, PruneTipSafe,
     PutTxnSafe, PutTagSafe, PruneTxnSafe DEF StepOf
<1> QED BY <1>1, <1>2, <1>3 DEF StoreInv

\* Every step of every thread keeps the invariant.
LEMMA StoreNext ==
    ASSUME OneWriter, CountersFit, StoreInv, [Next]_vars
    PROVE  StoreInv'
<1>1. CASE Next
  <2>1. PICK t \in Threads : StepOf(t)
    BY <1>1 DEF Next, StepOf
  <2> QED BY <2>1, StoreStep
<1>2. CASE UNCHANGED vars
  <2>1. TypeInv'
    BY <1>2, TypeNext DEF StoreInv
  <2>2. UNCHANGED <<volatile, permIndex, pc, arg, ext, num, infos>>
    BY <1>2 DEF vars, permanent, locals
  <2>3. Shared'
    BY <2>2, SharedFrame DEF StoreInv
  <2>4. \A t \in Threads : Facts(t)'
    BY <2>2, FactsFrame DEF StoreInv, SameLocals, volatile
  <2> QED BY <2>1, <2>2, <2>3, <2>4 DEF StoreInv, WritersWrite
<1> QED BY <1>1, <1>2

\* With one writer, whatever is put, tagged, pruned, flushed or stopped: the
\* parent of every stored block and the block of every tag are stored.
THEOREM ReferencesSafe ==
    ASSUME OneWriter, CountersFit PROVE Spec => []ReferencesResolve
<1>1. StoreInv /\ [Next]_vars => StoreInv'
  BY StoreNext
<1>2. StoreInv => ReferencesResolve
  BY DEF StoreInv, Shared, ReferencesResolve
<1> QED BY <1>1, <1>2, StoreInit, PTL DEF Spec

\* With one writer, the counters prune_branch consults are exactly the volatile
\* children and the tags of every block that is not permanent.
THEOREM CountersExact ==
    ASSUME OneWriter, CountersFit PROVE Spec => []RefCountsExact
<1>1. StoreInv /\ [Next]_vars => StoreInv'
  BY StoreNext
<1>2. StoreInv => RefCountsExact
  BY DEF StoreInv, Shared
<1> QED BY <1>1, <1>2, StoreInit, PTL DEF Spec

\* With one writer, the tips are exactly the leaves of the volatile store, and
\* apart from them only permanent blocks without volatile descendants.
THEOREM TipsExact ==
    ASSUME OneWriter, CountersFit PROVE Spec => []TipsAreLeaves
<1>1. StoreInv /\ [Next]_vars => StoreInv'
  BY StoreNext
<1>2. StoreInv => TipsAreLeaves
  BY DEF StoreInv, Shared
<1> QED BY <1>1, <1>2, StoreInit, PTL DEF Spec

\* With one writer, a flush stopped between any two of its steps leaves infos,
\* bytes and the chain length index telling the same.
THEOREM FlushStopsSafely ==
    ASSUME OneWriter, CountersFit PROVE Spec => []FlushedPartsAgree
<1>1. StoreInv /\ [Next]_vars => StoreInv'
  BY StoreNext
<1>2. StoreInv => FlushedPartsAgree
  BY DEF StoreInv, Shared, FlushedPartsAgree
<1> QED BY <1>1, <1>2, StoreInit, PTL DEF Spec

\* Every step but the transaction of prune_branch keeps every stored block.
LEMMA OthersForgetNothing ==
    ASSUME StoreInv, NEW t \in Threads, StepOf(t), ~PruneTxn(t), NEW b, Stored(b)
    PROVE  Stored(b)'
<1>1. CASE UNCHANGED <<info, permIndex>>
  BY <1>1 DEF Stored, InVolatile, InPermanent
<1>2. CASE PutTxn(t)
  <2>1. arg[t] \in Blocks /\ permIndex' = permIndex
    BY <1>2 DEF PutTxn, permanent, StoreInv, TypeInv, LocalsOK
  <2>2. DOMAIN info \subseteq DOMAIN info'
    BY <1>2 DEF PutTxn, Insert, WithParentRef, volatile
  <2> QED BY <2>1, <2>2 DEF Stored, InVolatile, InPermanent
<1>3. ASSUME NEW tag \in Tags, NEW x \in Blocks, PutTag(t, tag, x) PROVE Stored(b)'
  BY <1>3, RetagDomain DEF PutTag, volatile, permanent, Stored, InVolatile, InPermanent
<1>4. CASE FlushIndex(t)
  BY <1>4 DEF FlushIndex, volatile, Insert, Stored, InVolatile, InPermanent
<1>5. CASE FlushRemoveInfo(t)
  <2>1. InPermanent(infos[t][num[t]])
    BY <1>5 DEF FlushRemoveInfo, StoreInv, Facts, FlushFacts, FlushRemoves, TypeInv, LocalsOK,
                FlushLoopLabels
  <2> QED BY <1>5, <2>1 DEF FlushRemoveInfo, permanent, TreeRemove, Stored, InVolatile, InPermanent
<1>6. CASE PutExistsVolatile(t) \/ PutParent(t) \/ PruneNothing(t) \/ PruneLook(t) \/ PruneTip(t)
  BY <1>1, <1>6 DEF PutExistsVolatile, PutParent, PruneNothing, PruneLook, PruneTip, volatile, permanent
<1>7. CASE FlushScan(t) \/ FlushGather(t) \/ FlushRead(t) \/ FlushAppend(t) \/ FlushAppendIds(t)
  BY <1>1, <1>7 DEF FlushScan, FlushGather, FlushRead, FlushAppend, FlushAppendIds, volatile, permanent
<1>8. CASE FlushRemoveBlock(t) \/ FlushRemoveLength(t) \/ GetVolatile(t) \/ Fail(t)
  BY <1>1, <1>8 DEF FlushRemoveBlock, FlushRemoveLength, GetVolatile, Fail, volatile, permanent
<1>9. ASSUME NEW x \in Blocks, PutBlock(t, x) \/ PruneBranch(t, x) \/ GetBlock(t, x) PROVE Stored(b)'
  BY <1>1, <1>9 DEF PutBlock, PruneBranch, GetBlock, volatile, permanent
<1>10. ASSUME NEW to \in FlushTargets, NEW min \in MinNumbers, FlushToPermanentStore(t, to, min)
       PROVE Stored(b)'
  BY <1>1, <1>10 DEF FlushToPermanentStore, volatile, permanent
<1> QED
  BY <1>2, <1>3, <1>4, <1>5, <1>6, <1>7, <1>8, <1>9, <1>10 DEF StepOf

\* With one writer, a block that was stored is forgotten only by the transaction
\* of prune_branch, and only if it is not permanent, not tagged and not the
\* parent of a block that stays.
THEOREM PruneForgetsAlone ==
    ASSUME OneWriter, CountersFit PROVE Spec => OnlyPruneForgets
<1> DEFINE Forgets(b) ==
              Stored(b) /\ ~Stored(b)' =>
                  /\ \E t \in Threads : pc[t] = "prune_txn" /\ pc'[t] # "prune_txn"
                  /\ ~InPermanent(b)
                  /\ TagsOf(b) = {}
                  /\ \A c \in DOMAIN info' : Parent[c] # b
<1>1. StoreInv /\ [Next]_vars => StoreInv'
  BY StoreNext
<1>2. ASSUME StoreInv, [Next]_vars PROVE [\A b \in Blocks : Forgets(b)]_vars
  <2>1. CASE UNCHANGED vars
    BY <2>1
  <2>2. ASSUME NEW t \in Threads, StepOf(t), NEW b \in Blocks, Stored(b), ~Stored(b)'
        PROVE  Forgets(b)
    <3>1. PruneTxn(t)
      BY <2>2, OthersForgetNothing, <1>2
    <3>2. arg[t] \in Blocks /\ pc[t] = "prune_txn"
      BY <1>2, <3>1 DEF PruneTxn, StoreInv, TypeInv, LocalsOK
    <3>3. pc'[t] # "prune_txn"
      <4>1. \A r : Return(t, r) => pc'[t] = "idle"
        BY <1>2, ReturnLocals DEF StoreInv
      <4>2. Goto(t, "prune_look") => pc'[t] = "prune_look"
        BY <1>2, GotoLocals DEF StoreInv
      <4> QED BY <3>1, <4>1, <4>2 DEF PruneTxn
    <3>4. DOMAIN info' = DOMAIN info \ Removed(arg[t]) /\ permIndex' = permIndex
      BY <3>1 DEF PruneTxn, permanent
    <3>5. b \in Removed(arg[t])
      BY <2>2, <3>4 DEF Stored, InVolatile, InPermanent
    <3>6. /\ b \notin DOMAIN permIndex /\ TagsOf(b) = {}
          /\ VolatileChildren(b) \subseteq Removed(arg[t])
      BY <1>2, <3>2, <3>5, RemovedAlone
    <3> QED BY <3>2, <3>3, <3>4, <3>6 DEF InPermanent, VolatileChildren
  <2>3. CASE Next
    <3>1. PICK t \in Threads : StepOf(t)
      BY <2>3 DEF Next, StepOf
    <3> QED BY <2>2, <3>1
  <2> QED BY <1>2, <2>1, <2>3
<1>3. [][\A b \in Blocks : Forgets(b)]_vars <=> OnlyPruneForgets
  BY DEF OnlyPruneForgets
<1> QED BY <1>1, <1>2, <1>3, StoreInit, PTL DEF Spec

-----------------------------------------------------------------------------
(* The permanent piles.  A flush that is stopped between its appends leaves *)
(* the piles out of step with the index, and a node that flushes two       *)
(* branches mixes them; so the alignment of the piles is promised only to  *)
(* a writer that is never stopped and settles on one branch.               *)

NeverStopped == \A t \in Threads : "stop" \notin May[t]

\* S is the branch the node settles on: closed under parents, one block of each
\* length, and every flush is up to one of its blocks.
SettledBranch(S) ==
    /\ S \subseteq Blocks /\ FlushTargets \subseteq S
    /\ \A b \in S : Parent[b] = Root \/ Parent[b] \in S
    /\ \A x, y \in S : ChainLength[x] = ChainLength[y] => x = y

\* The blocks that are in both stores at once, while a flush moves them.
Both == DOMAIN info \cap DOMAIN permIndex

\* What a flush has moved at each of its steps.
MoveFacts(t, S) ==
    LET s == infos[t]
        n == Len(s)
    IN
    /\ pc[t] \in FlushGathers \cup FlushHolds \cup FlushRemoves => \A j \in 1..n : s[j] \in S
    /\ pc[t] = "flush_append" => data[t] = Oldest(t) /\ Start(t) = Len(pile)
    /\ pc[t] = "flush_append_ids" =>
          /\ Start(t) = Len(pileIds) /\ Len(pile) = Start(t) + n
          /\ \A i \in 1..Start(t) : pile[i] \in DOMAIN permIndex
    /\ pc[t] = "flush_index" =>
          /\ Len(pile) = Start(t) + n
          /\ \A i \in 1..(Start(t) + num[t] - 1) : pile[i] \in DOMAIN permIndex
          /\ \A b \in Both : \E j \in 1..n : j > n + 1 - num[t] /\ b = s[j]
    /\ pc[t] = "flush_remove_info" => \A b \in Both : \E j \in num[t]..n : b = s[j]
    /\ pc[t] \in {"flush_remove_block", "flush_remove_length"} =>
          \A b \in Both : \E j \in (num[t] + 1)..n : b = s[j]

\* While no flush is between two of its steps the stores are disjoint and the
\* piles hold exactly the indexed blocks.
AtRest ==
    /\ (\A t \in Threads : pc[t] # "flush_append_ids") => Len(pileIds) = Len(pile)
    /\ (\A t \in Threads : pc[t] \notin {"flush_append_ids", "flush_index"}) =>
          \A i \in 1..Len(pile) : pile[i] \in DOMAIN permIndex
    /\ (\A t \in Threads : pc[t] \notin {"flush_index"} \cup FlushRemoves) => Both = {}

\* A pile holds the blocks of the branch by their length.
OnBranch(s, S) == \A i \in 1..Len(s) : s[i] \in S /\ ChainLength[s[i]] = i - 1

Piled(S) ==
    /\ OnBranch(pile, S) /\ OnBranch(pileIds, S)
    /\ \A b \in DOMAIN permIndex :
          b \in S /\ ChainLength[b] < Len(pile) /\ ChainLength[b] < Len(pileIds)

AlignedInv(S) ==
    /\ StoreInv
    /\ \A t \in Threads : MoveFacts(t, S)
    /\ AtRest
    /\ Piled(S)

\* Piles that hold the branch by length are aligned with the index.
LEMMA PiledAligned ==
    ASSUME NEW S, SettledBranch(S), AlignedInv(S)
    PROVE  PermanentAligned
<1>1. /\ pile \in Seq(Blocks) /\ pileIds \in Seq(Blocks)
      /\ \A b \in Blocks : ChainLength[b] \in Nat
  BY LengthAssumption DEF AlignedInv, StoreInv, TypeInv, TypeOK
<1>2. ASSUME NEW b \in DOMAIN permIndex
      PROVE  /\ permIndex[b] = ChainLength[b] /\ permIndex[b] < Len(pileIds)
             /\ pile[permIndex[b] + 1] = b /\ pileIds[permIndex[b] + 1] = b
  <2>1. /\ permIndex[b] = ChainLength[b] /\ b \in S /\ b \in Blocks /\ ChainLength[b] \in Nat
        /\ ChainLength[b] < Len(pile) /\ ChainLength[b] < Len(pileIds)
    BY <1>1 DEF AlignedInv, StoreInv, Shared, PermanentClosed, Piled, SettledBranch
  <2>2. ChainLength[b] + 1 \in 1..Len(pile) /\ ChainLength[b] + 1 \in 1..Len(pileIds)
        /\ ChainLength[b] + 1 - 1 = ChainLength[b]
    BY <1>1, <2>1
  <2>3. /\ pile[ChainLength[b] + 1] \in S
        /\ ChainLength[pile[ChainLength[b] + 1]] = ChainLength[b]
        /\ pileIds[ChainLength[b] + 1] \in S
        /\ ChainLength[pileIds[ChainLength[b] + 1]] = ChainLength[b]
    BY <2>1, <2>2 DEF AlignedInv, Piled, OnBranch
  <2> QED BY <2>1, <2>3 DEF SettledBranch
<1>3. ASSUME NEW i \in DOMAIN pile
      PROVE  Parent[pile[i]] = IF i = 1 THEN Root ELSE pile[i - 1]
  <2>1. i \in 1..Len(pile) /\ pile[i] \in S /\ pile[i] \in Blocks /\ ChainLength[pile[i]] = i - 1
    BY <1>1 DEF AlignedInv, Piled, OnBranch, SettledBranch
  <2>2. CASE i = 1
    <3>1. Parent[pile[i]] # Root => /\ ChainLength[pile[i]] = ChainLength[Parent[pile[i]]] + 1
                                   /\ ChainLength[Parent[pile[i]]] \in Nat
      BY <1>1, <2>1, LengthAssumption, ParentAssumption
    <3> QED BY <2>1, <2>2, <3>1
  <2>3. CASE i # 1
    <3>1. i - 1 \in 1..Len(pile)
      BY <2>1, <2>3
    <3>2. pile[i - 1] \in S /\ ChainLength[pile[i - 1]] = i - 1 - 1
      BY <3>1 DEF AlignedInv, Piled, OnBranch
    <3>3. Parent[pile[i]] # Root
      BY <2>1, <2>3, LengthAssumption
    <3>4. Parent[pile[i]] \in S /\ ChainLength[Parent[pile[i]]] = i - 1 - 1
      BY <1>1, <2>1, <3>3, LengthAssumption, ParentAssumption DEF SettledBranch
    <3> QED BY <2>3, <3>2, <3>4 DEF SettledBranch
  <2> QED BY <2>2, <2>3
<1> QED BY <1>2, <1>3 DEF PermanentAligned

\* A step of a reader leaves the piles and what a flush has read alone.
LEMMA ReaderPiles ==
    ASSUME TypeInv, WritersWrite, NEW t \in Threads, StepOf(t), ~Writer(t)
    PROVE  /\ UNCHANGED <<pile, pileIds>>
           /\ \A u \in Threads : u # t => data'[u] = data[u]
           /\ pc'[t] \in {"idle", "get_volatile"} /\ pc[t] \in {"idle", "get_volatile"}
<1>1. pc[t] \in {"idle", "get_volatile"}
  BY DEF WritersWrite
<1>2. \A b : ~PutBlock(t, b) /\ ~PruneBranch(t, b)
  BY DEF PutBlock, PruneBranch, Call, Writer
<1>3. \A to, min : ~FlushToPermanentStore(t, to, min)
  BY DEF FlushToPermanentStore, Call, Writer
<1>4. ~PutExistsVolatile(t) /\ ~PutParent(t) /\ ~PutTxn(t)
  BY <1>1 DEF PutExistsVolatile, PutParent, PutTxn
<1>5. ~PruneNothing(t) /\ ~PruneTxn(t) /\ ~PruneLook(t) /\ ~PruneTip(t)
  BY <1>1 DEF PruneNothing, PruneTxn, PruneLook, PruneTip
<1>6. ~FlushScan(t) /\ ~FlushGather(t) /\ ~FlushRead(t) /\ ~FlushAppend(t) /\ ~FlushAppendIds(t)
  BY <1>1 DEF FlushScan, FlushGather, FlushRead, FlushAppend, FlushAppendIds
<1>7. ~FlushIndex(t) /\ ~FlushRemoveInfo(t) /\ ~FlushRemoveBlock(t) /\ ~FlushRemoveLength(t)
  BY <1>1 DEF FlushIndex, FlushRemoveInfo, FlushRemoveBlock, FlushRemoveLength
<1>8. ASSUME NEW r, Return(t, r) PROVE \A u \in Threads : u # t => data'[u] = data[u]
  BY <1>8 DEF Return, TypeInv, TypeOK
<1>9. ASSUME NEW b \in Blocks, GetBlock(t, b)
      PROVE  UNCHANGED <<pile, pileIds>> /\ \A u \in Threads : u # t => data'[u] = data[u]
  BY <1>8, <1>9 DEF GetBlock, permanent
<1>10. ASSUME NEW tag \in Tags, NEW b \in Blocks, PutTag(t, tag, b)
       PROVE  UNCHANGED <<pile, pileIds>> /\ \A u \in Threads : u # t => data'[u] = data[u]
  BY <1>8, <1>10 DEF PutTag, permanent
<1>11. CASE GetVolatile(t) \/ Fail(t)
  <2>1. UNCHANGED <<pile, pileIds>> /\ \A u \in Threads : u # t => data'[u] = data[u]
    BY <1>8, <1>11 DEF GetVolatile, Fail, permanent
  <2> QED BY <1>1, <1>11, <2>1, ReturnLocals DEF GetVolatile, Fail
<1>12. WritersWrite'
  BY WritersNext
<1> QED BY <1>1, <1>2, <1>3, <1>4, <1>5, <1>6, <1>7, <1>9, <1>10, <1>11, <1>12 DEF StepOf, WritersWrite

\* Readers beside the writer keep the alignment.
LEMMA AlignedReader ==
    ASSUME NEW S, AlignedInv(S), NEW t \in Threads, StepOf(t), ~Writer(t)
    PROVE  (\A u \in Threads : MoveFacts(u, S)') /\ AtRest' /\ Piled(S)'
<1>1. /\ DOMAIN info' = DOMAIN info /\ UNCHANGED <<permIndex, pile, pileIds>>
      /\ \A u \in Threads : u # t => data'[u] = data[u] /\ SameLocals(u)
      /\ pc'[t] \in {"idle", "get_volatile"} /\ pc[t] \in {"idle", "get_volatile"}
  BY ReaderStep, ReaderPiles, OtherLocals DEF AlignedInv, StoreInv
<1>2. Both' = Both
  BY <1>1 DEF Both
<1>3. Piled(S)'
  BY <1>1 DEF AlignedInv, Piled, OnBranch
<1>4. AtRest'
  <2>1. \A u \in Threads : pc'[u] = pc[u] \/ u = t
    BY <1>1 DEF SameLocals
  <2> QED BY <1>1, <1>2, <2>1 DEF AlignedInv, AtRest, FlushRemoves
<1>5. ASSUME NEW u \in Threads, u # t PROVE MoveFacts(u, S)'
  <2>1. /\ pc'[u] = pc[u] /\ infos'[u] = infos[u] /\ num'[u] = num[u] /\ data'[u] = data[u]
    BY <1>1, <1>5 DEF SameLocals
  <2>2. Oldest(u)' = Oldest(u) /\ Start(u)' = Start(u)
    BY <2>1 DEF Oldest, Start
  <2> QED BY <1>1, <1>2, <2>1, <2>2 DEF AlignedInv, MoveFacts
<1>6. MoveFacts(t, S)'
  BY <1>1 DEF MoveFacts, FlushGathers, FlushHolds, FlushRemoves
<1> QED BY <1>3, <1>4, <1>5, <1>6

\* When the writer moves, every other thread is outside the writing methods.
LEMMA OthersOutside ==
    ASSUME OneWriter, StoreInv, NEW t \in Threads, StepOf(t), Writer(t)
    PROVE  \A u \in Threads : u # t => /\ pc[u] \in {"idle", "get_volatile"}
                                      /\ pc'[u] \in {"idle", "get_volatile"}
<1>1. \A u \in Threads : u # t => pc[u] \in {"idle", "get_volatile"}
  BY DEF OneWriter, StoreInv, WritersWrite
<1>2. \A u \in Threads : u # t => pc'[u] = pc[u]
  BY OtherLocals DEF StoreInv, SameLocals
<1> QED BY <1>1, <1>2

\* What is at rest depends on the writer alone.
LEMMA RestOfWriter ==
    ASSUME NEW t \in Threads, \A u \in Threads : u # t => pc[u] \in {"idle", "get_volatile"}
    PROVE  AtRest <=> /\ pc[t] # "flush_append_ids" => Len(pileIds) = Len(pile)
                      /\ pc[t] \notin {"flush_append_ids", "flush_index"} =>
                             \A i \in 1..Len(pile) : pile[i] \in DOMAIN permIndex
                      /\ pc[t] \notin {"flush_index"} \cup FlushRemoves => Both = {}
<1>1. /\ (\A u \in Threads : pc[u] # "flush_append_ids") <=> pc[t] # "flush_append_ids"
      /\ (\A u \in Threads : pc[u] \notin {"flush_append_ids", "flush_index"})
            <=> pc[t] \notin {"flush_append_ids", "flush_index"}
      /\ (\A u \in Threads : pc[u] \notin {"flush_index"} \cup FlushRemoves)
            <=> pc[t] \notin {"flush_index"} \cup FlushRemoves
  BY DEF FlushRemoves
<1> QED BY <1>1 DEF AtRest

\* Steps outside a flush move nothing between the stores.
LEMMA AlignedOutside ==
    ASSUME NEW S, AlignedInv(S), StoreInv', NEW t \in Threads, NeverStopped,
           \/ \E b \in Blocks : PutBlock(t, b) \/ PruneBranch(t, b) \/ GetBlock(t, b)
           \/ PutExistsVolatile(t) \/ PutParent(t) \/ PutTxn(t)
           \/ \E tag \in Tags, b \in Blocks : PutTag(t, tag, b)
           \/ PruneNothing(t) \/ PruneTxn(t) \/ PruneLook(t) \/ PruneTip(t)
           \/ GetVolatile(t)
    PROVE  /\ UNCHANGED <<pile, pileIds, permIndex>> /\ Both' \subseteq Both
           /\ pc[t] \notin FlushLabels /\ pc'[t] \notin FlushLabels
<1> USE DEF FlushLabels, FlushLoopLabels
<1>1. UNCHANGED <<pile, pileIds, permIndex>>
  BY DEF PutBlock, PruneBranch, GetBlock, PutExistsVolatile, PutParent, PutTxn, PutTag, PruneNothing,
         PruneTxn, PruneLook, PruneTip, GetVolatile, permanent
<1>2. pc[t] \notin FlushLabels
  BY DEF PutBlock, PruneBranch, GetBlock, PutExistsVolatile, PutParent, PutTxn, PutTag, PruneNothing,
         PruneTxn, PruneLook, PruneTip, GetVolatile, Call
<1>3. pc'[t] \notin FlushLabels
  <2>1. \A r : Return(t, r) => pc'[t] = "idle"
    BY ReturnLocals DEF AlignedInv, StoreInv
  <2>2. \A l : Goto(t, l) => pc'[t] = l
    BY GotoLocals DEF AlignedInv, StoreInv
  <2>3. CASE \E b \in Blocks : PutBlock(t, b) \/ PruneBranch(t, b) \/ GetBlock(t, b)
    BY <2>1, <2>2, <2>3 DEF PutBlock, PruneBranch, GetBlock
  <2>4. CASE PutExistsVolatile(t) \/ PutParent(t) \/ PutTxn(t) \/ GetVolatile(t)
    BY <2>1, <2>2, <2>4 DEF PutExistsVolatile, PutParent, PutTxn, GetVolatile
  <2>5. CASE PruneNothing(t) \/ PruneTxn(t) \/ PruneLook(t) \/ PruneTip(t)
    BY <2>1, <2>2, <2>5 DEF PruneNothing, PruneTxn, PruneLook, PruneTip
  <2>6. CASE \E tag \in Tags, b \in Blocks : PutTag(t, tag, b)
    BY <2>1, <2>6 DEF PutTag
  <2> QED BY <2>3, <2>4, <2>5, <2>6
<1>4. Both' \subseteq Both
  <2>1. CASE UNCHANGED volatile
    BY <1>1, <2>1 DEF volatile, Both
  <2>2. CASE PutTxn(t)
    <3>1. ~Stored(arg[t])
      BY <2>2 DEF PutTxn, AlignedInv, StoreInv, Facts, PutFacts
    <3>2. DOMAIN info' \subseteq DOMAIN info \cup {arg[t]}
      BY <2>2 DEF PutTxn, Insert, WithParentRef, volatile
    <3> QED BY <1>1, <3>1, <3>2 DEF Both, Stored, InPermanent
  <2>3. CASE PruneTxn(t)
    BY <1>1, <2>3 DEF PruneTxn, Both
  <2>4. CASE \E tag \in Tags, b \in Blocks : PutTag(t, tag, b)
    BY <1>1, <2>4, RetagDomain DEF PutTag, volatile, Both
  <2>5. CASE PruneTip(t)
    BY <1>1, <2>5 DEF PruneTip, Both
  <2> QED BY <2>1, <2>2, <2>3, <2>4, <2>5 DEF PutBlock, PruneBranch, GetBlock, PutExistsVolatile,
             PutParent, PruneNothing, PruneLook, GetVolatile
<1> QED BY <1>1, <1>2, <1>3, <1>4

\* The oldest block a flush has gathered is the next one of the permanent chain.
LEMMA StartsAtTheEnd ==
    ASSUME NEW S, SettledBranch(S), AlignedInv(S), NEW t \in Threads,
           \A u \in Threads : u # t => pc[u] \in {"idle", "get_volatile"},
           pc[t] = "flush_read"
    PROVE  Start(t) = Len(pile)
<1> DEFINE s == infos[t]
           o == s[Len(s)]
           n == Len(pile)
<1>1. s \in Seq(Blocks) /\ s # << >> /\ pile \in Seq(Blocks)
  BY DEF AlignedInv, StoreInv, TypeInv, TypeOK, LocalsOK, FlushLabels, FlushLoopLabels
<1>2. Len(s) \in 1..Len(s) /\ o \in Blocks /\ n \in Nat
  BY <1>1
<1>3. o \in S /\ o \in DOMAIN info /\ Parent[o] \notin DOMAIN info
  <2>1. MoveFacts(t, S) /\ FlushFacts(t)
    BY DEF AlignedInv, StoreInv, Facts
  <2> QED BY <1>2, <2>1 DEF MoveFacts, FlushFacts, FlushHolds, InVolatile
<1>4. Both = {} /\ \A i \in 1..n : pile[i] \in DOMAIN permIndex
  BY RestOfWriter DEF AlignedInv, FlushRemoves
<1>5. o \notin DOMAIN permIndex
  BY <1>3, <1>4 DEF Both
<1>6. ChainLength[o] \in Nat /\ \A i \in 1..n : pile[i] \in S /\ ChainLength[pile[i]] = i - 1
  BY <1>2, LengthAssumption DEF AlignedInv, Piled, OnBranch
<1>7. ~(ChainLength[o] < n)
  <2> SUFFICES ASSUME ChainLength[o] < n PROVE FALSE
    OBVIOUS
  <2>1. ChainLength[o] + 1 \in 1..n
    BY <1>2, <1>6
  <2>2. pile[ChainLength[o] + 1] \in S /\ ChainLength[pile[ChainLength[o] + 1]] = ChainLength[o]
    BY <1>6, <2>1
  <2>3. pile[ChainLength[o] + 1] = o
    BY <1>3, <2>2 DEF SettledBranch
  <2> QED BY <1>4, <1>5, <2>1, <2>3
<1>8. ChainLength[o] <= n
  <2>1. CASE Parent[o] = Root
    <3>1. ChainLength[o] = 0
      BY <1>2, <2>1, LengthAssumption
    <3> QED BY <1>2, <3>1
  <2>2. CASE Parent[o] # Root
    <3>1. Parent[o] \in DOMAIN permIndex
      BY <1>2, <1>3, <2>2 DEF AlignedInv, StoreInv, Shared, ParentsStored, Stored, InVolatile, InPermanent
    <3>2. ChainLength[Parent[o]] < n /\ ChainLength[Parent[o]] \in Nat
      <4>1. Parent[o] \in Blocks
        BY <1>2, <2>2, ParentAssumption
      <4> QED BY <3>1, <4>1, LengthAssumption DEF AlignedInv, Piled
    <3>3. ChainLength[o] = ChainLength[Parent[o]] + 1
      BY <1>2, <2>2, LengthAssumption
    <3> QED BY <1>2, <3>2, <3>3
  <2> QED BY <2>1, <2>2
<1> HIDE DEF o, n
<1>9. ChainLength[o] = n
  BY <1>2, <1>6, <1>7, <1>8
<1> QED BY <1>9 DEF Start, o, n

\* The blocks of a flush, oldest first, continue the chain from its start.
LEMMA OldestLengths ==
    ASSUME NEW S, AlignedInv(S), NEW t \in Threads,
           pc[t] \in FlushHolds
    PROVE  /\ infos[t] \in Seq(Blocks) /\ Len(infos[t]) \in Nat \ {0}
           /\ Start(t) \in Nat
           /\ Oldest(t) \in Seq(Blocks) /\ Len(Oldest(t)) = Len(infos[t])
           /\ \A i \in 1..Len(infos[t]) :
                 /\ Oldest(t)[i] = infos[t][Len(infos[t]) + 1 - i]
                 /\ Oldest(t)[i] \in S /\ Oldest(t)[i] \in Blocks /\ Oldest(t)[i] \in DOMAIN info
                 /\ ChainLength[Oldest(t)[i]] = Start(t) + i - 1
<1> DEFINE s == infos[t]
           n == Len(s)
<1>1. s \in Seq(Blocks) /\ s # << >>
  BY DEF AlignedInv, StoreInv, TypeInv, TypeOK, LocalsOK, FlushLabels, FlushLoopLabels, FlushHolds
<1>2. n \in Nat /\ n >= 1 /\ \A j \in 1..n : s[j] \in Blocks
  BY <1>1
<1>3. /\ \A j \in 1..n : s[j] \in S /\ s[j] \in DOMAIN info
      /\ \A j \in 1..n : ChainLength[s[j]] + j = ChainLength[s[1]] + 1
  <2>1. MoveFacts(t, S) /\ FlushFacts(t)
    BY DEF AlignedInv, StoreInv, Facts
  <2> QED BY <2>1 DEF MoveFacts, FlushFacts, InVolatile, IsBranch
<1>4. \A j \in 1..n : ChainLength[s[j]] \in Nat
  BY <1>2, LengthAssumption
<1>5. Oldest(t) \in Seq(Blocks) /\ Len(Oldest(t)) = n
      /\ \A i \in 1..n : Oldest(t)[i] = s[n + 1 - i]
  <2>1. \A i \in 1..n : n + 1 - i \in 1..n
    BY <1>2
  <2>2. \A i \in 1..n : s[n + 1 - i] \in Blocks
    BY <1>2, <2>1
  <2> HIDE DEF n
  <2>3. Oldest(t) = [i \in 1..n |-> s[n + 1 - i]]
    BY DEF Oldest, n
  <2> QED BY <1>2, <2>2, <2>3
<1> HIDE DEF s, n
<1>6. Start(t) = ChainLength[s[n]] /\ n \in 1..n /\ 1 \in 1..n
  BY <1>2 DEF Start, s, n
<1>7. ASSUME NEW i \in 1..n
      PROVE  /\ s[n + 1 - i] \in S /\ s[n + 1 - i] \in Blocks /\ s[n + 1 - i] \in DOMAIN info
             /\ ChainLength[s[n + 1 - i]] = Start(t) + i - 1
  <2>1. n + 1 - i \in 1..n
    BY <1>2
  <2>2. ChainLength[s[n + 1 - i]] + (n + 1 - i) = ChainLength[s[n]] + n
    BY <1>3, <1>6, <2>1
  <2>3. ChainLength[s[n + 1 - i]] \in Nat /\ ChainLength[s[n]] \in Nat
    BY <1>4, <1>6, <2>1
  <2> QED BY <1>2, <1>3, <1>6, <2>1, <2>2, <2>3
<1> QED BY <1>1, <1>2, <1>4, <1>5, <1>6, <1>7 DEF s, n

\* Appending the next blocks of the branch keeps a pile on the branch.
LEMMA PileGrows ==
    ASSUME NEW S, NEW p \in Seq(Blocks), OnBranch(p, S), NEW q \in Seq(Blocks),
           \A i \in 1..Len(q) : q[i] \in S /\ ChainLength[q[i]] = Len(p) + i - 1
    PROVE  /\ OnBranch(p \o q, S) /\ Len(p \o q) = Len(p) + Len(q)
           /\ \A i \in 1..Len(p) : (p \o q)[i] = p[i]
<1> DEFINE r == p \o q
<1>1. /\ Len(p) \in Nat /\ Len(q) \in Nat /\ Len(r) = Len(p) + Len(q)
      /\ \A i \in 1..Len(p) : r[i] = p[i]
      /\ \A i \in 1..Len(r) : i > Len(p) => r[i] = q[i - Len(p)]
  OBVIOUS
<1> HIDE DEF r
<1>2. ASSUME NEW i \in 1..Len(r) PROVE r[i] \in S /\ ChainLength[r[i]] = i - 1
  <2>1. CASE i <= Len(p)
    <3>1. i \in 1..Len(p)
      BY <1>1, <2>1
    <3> QED BY <1>1, <3>1 DEF OnBranch
  <2>2. CASE i > Len(p)
    <3>1. i - Len(p) \in 1..Len(q) /\ Len(p) + (i - Len(p)) - 1 = i - 1
      BY <1>1, <2>2
    <3> QED BY <1>1, <2>2, <3>1
  <2> QED BY <1>1, <2>1, <2>2
<1> QED BY <1>1, <1>2 DEF OnBranch, r

\* The steps of a flush before its appends.
LEMMA AlignedGather ==
    ASSUME NEW S, SettledBranch(S), AlignedInv(S), StoreInv', NEW t \in Threads,
           \A u \in Threads : u # t => pc[u] \in {"idle", "get_volatile"},
           \A u \in Threads : u # t => pc'[u] \in {"idle", "get_volatile"},
           \/ \E to \in FlushTargets, min \in MinNumbers : FlushToPermanentStore(t, to, min)
           \/ FlushScan(t) \/ FlushGather(t) \/ FlushRead(t)
    PROVE  MoveFacts(t, S)' /\ AtRest' /\ Piled(S)'
<1>1. UNCHANGED <<pile, pileIds, permIndex, info>>
  BY DEF FlushToPermanentStore, FlushScan, FlushGather, FlushRead, volatile, permanent
<1>2. Piled(S)' /\ Both' = Both
  BY <1>1 DEF AlignedInv, Piled, OnBranch, Both
<1>3. pc[t] \in {"idle", "flush_scan", "flush_gather", "flush_read"}
  BY DEF FlushToPermanentStore, FlushScan, FlushGather, FlushRead, Call
<1>4. \A r : Return(t, r) => pc'[t] = "idle"
  BY ReturnLocals DEF AlignedInv, StoreInv
<1>5. \A l : Goto(t, l) => pc'[t] = l
  BY GotoLocals DEF AlignedInv, StoreInv
<1>6. pc'[t] \in {"idle", "flush_scan", "flush_gather", "flush_read", "flush_append"}
  BY <1>3, <1>4, <1>5 DEF FlushToPermanentStore, FlushScan, FlushGather, FlushRead
<1>7. AtRest'
  <2>1. /\ Len(pileIds) = Len(pile) /\ Both = {}
        /\ \A i \in 1..Len(pile) : pile[i] \in DOMAIN permIndex
    BY <1>3, RestOfWriter DEF AlignedInv, FlushRemoves
  <2> QED BY <1>1, <1>2, <2>1 DEF AtRest
<1>8. MoveFacts(t, S)
  BY DEF AlignedInv
<1>9. ASSUME pc'[t] \in {"flush_scan", "flush_gather", "flush_read"},
             \A j \in 1..Len(infos'[t]) : infos'[t][j] \in S
      PROVE  MoveFacts(t, S)'
  BY <1>9 DEF MoveFacts, FlushRemoves
<1>10. ASSUME pc'[t] = "idle" PROVE MoveFacts(t, S)'
  BY <1>10 DEF MoveFacts, FlushGathers, FlushHolds, FlushRemoves
<1>11. MoveFacts(t, S)'
  <2>1. ASSUME NEW to \in FlushTargets, NEW min \in MinNumbers, FlushToPermanentStore(t, to, min)
        PROVE  MoveFacts(t, S)'
    <3>1. CASE Goto(t, "flush_scan") /\ infos' = [infos EXCEPT ![t] = <<to>>]
      <4>1. infos'[t] = <<to>> /\ to \in S
        BY <3>1 DEF AlignedInv, StoreInv, TypeInv, TypeOK, SettledBranch
      <4> QED BY <1>5, <1>9, <3>1, <4>1
    <3> QED BY <1>4, <1>10, <2>1, <3>1 DEF FlushToPermanentStore
  <2>2. CASE FlushScan(t)
    <3>1. CASE Goto(t, "flush_gather") /\ UNCHANGED locals
      BY <1>5, <1>8, <1>9, <2>2, <3>1 DEF FlushScan, MoveFacts, FlushGathers, locals
    <3> QED BY <1>4, <1>10, <2>2, <3>1 DEF FlushScan
  <2>3. CASE FlushGather(t)
    <3> DEFINE s == infos[t]
               p == Parent[s[Len(s)]]
    <3>1. /\ s \in Seq(Blocks) /\ s # << >> /\ pc[t] = "flush_gather"
          /\ \A j \in 1..Len(s) : s[j] \in S
      BY <1>8, <2>3 DEF FlushGather, AlignedInv, StoreInv, TypeInv, TypeOK, LocalsOK, FlushLabels,
                        FlushLoopLabels, MoveFacts, FlushGathers
    <3>2. CASE InVolatile(p) /\ infos' = [infos EXCEPT ![t] = Append(@, p)] /\ UNCHANGED pc
      <4>1. p \in Blocks
        BY <3>2 DEF InVolatile, AlignedInv, StoreInv, TypeInv, TypeOK, IsTree
      <4>2. Len(s) \in 1..Len(s)
        BY <3>1
      <4>3. p \in S
        BY <3>1, <4>1, <4>2, RootAssumption DEF SettledBranch
      <4>4. infos'[t] = Append(s, p)
        BY <3>2 DEF AlignedInv, StoreInv, TypeInv, TypeOK
      <4> HIDE DEF p, s
      <4>5. \A j \in 1..Len(Append(s, p)) : Append(s, p)[j] \in S
        BY <3>1, <4>1, <4>3
      <4> QED BY <1>9, <3>1, <3>2, <4>4, <4>5
    <3>3. CASE Goto(t, "flush_read") /\ UNCHANGED locals
      BY <1>5, <1>9, <3>1, <3>3 DEF locals
    <3> QED BY <1>4, <1>10, <2>3, <3>2, <3>3 DEF FlushGather
  <2>4. CASE FlushRead(t)
    <3>0. pc[t] = "flush_read" /\ pc[t] \in FlushHolds
      BY <2>4 DEF FlushRead, FlushHolds
    <3>1. CASE /\ \A i \in DOMAIN infos[t] : Found(infos[t][i]) # {}
               /\ data' = [data EXCEPT ![t] =
                              [i \in DOMAIN infos[t] |-> CHOOSE b \in Found(Oldest(t)[i]) : TRUE]]
               /\ Goto(t, "flush_append")
               /\ UNCHANGED <<arg, ext, num, infos>>
      <4> DEFINE n == Len(infos[t])
                 read == [i \in DOMAIN infos[t] |-> CHOOSE b \in Found(Oldest(t)[i]) : TRUE]
      <4>1. /\ infos[t] \in Seq(Blocks) /\ n \in Nat
            /\ \A i \in 1..n : Oldest(t)[i] = infos[t][n + 1 - i] /\ Oldest(t)[i] \in DOMAIN info
        BY <3>0, OldestLengths
      <4>2. Both = {}
        BY <3>0, RestOfWriter DEF AlignedInv, FlushRemoves
      <4>3. ASSUME NEW i \in 1..n PROVE (CHOOSE b \in Found(Oldest(t)[i]) : TRUE) = Oldest(t)[i]
        <5>1. ~InPermanent(Oldest(t)[i])
          BY <4>1, <4>2 DEF Both, InPermanent
        <5>2. n + 1 - i \in 1..n /\ DOMAIN infos[t] = 1..n
          BY <4>1
        <5>3. Found(Oldest(t)[i]) # {}
          BY <3>1, <4>1, <5>2
        <5>4. Found(Oldest(t)[i]) = {Oldest(t)[i]}
          BY <5>1, <5>3 DEF Found
        <5> QED BY <5>4
      <4>4. read = Oldest(t)
        <5>1. DOMAIN infos[t] = 1..n
          BY <4>1
        <5>2. Oldest(t) = [i \in 1..n |-> Oldest(t)[i]]
          BY DEF Oldest
        <5> QED BY <4>3, <5>1, <5>2
      <4>5. data'[t] = Oldest(t)
        BY <3>1, <4>4 DEF AlignedInv, StoreInv, TypeInv, TypeOK
      <4>6. Start(t) = Len(pile)
        BY <3>0, StartsAtTheEnd
      <4>7. Oldest(t)' = Oldest(t) /\ Start(t)' = Start(t) /\ infos' = infos /\ pc'[t] = "flush_append"
        BY <1>5, <3>1 DEF Oldest, Start
      <4>8. \A j \in 1..n : infos[t][j] \in S
        BY <1>8, <3>0 DEF MoveFacts
      <4> QED BY <1>1, <4>5, <4>6, <4>7, <4>8 DEF MoveFacts, FlushRemoves
    <3> QED BY <1>4, <1>10, <2>4, <3>1 DEF FlushRead
  <2> QED BY <2>1, <2>2, <2>3, <2>4
<1> QED BY <1>2, <1>7, <1>11

\* The two appends put the same blocks at the end of both piles.
LEMMA AlignedAppend ==
    ASSUME NEW S, SettledBranch(S), AlignedInv(S), NEW t \in Threads,
           \A u \in Threads : u # t => pc[u] \in {"idle", "get_volatile"},
           \A u \in Threads : u # t => pc'[u] \in {"idle", "get_volatile"},
           FlushAppend(t) \/ FlushAppendIds(t)
    PROVE  MoveFacts(t, S)' /\ AtRest' /\ Piled(S)'
<1> DEFINE n == Len(infos[t])
<1>1. pc[t] \in {"flush_append", "flush_append_ids"} /\ pc[t] \in FlushHolds
  BY DEF FlushAppend, FlushAppendIds, FlushHolds
<1>2. /\ n \in Nat \ {0} /\ Start(t) \in Nat /\ Oldest(t) \in Seq(Blocks) /\ Len(Oldest(t)) = n
      /\ \A i \in 1..n : /\ Oldest(t)[i] \in S /\ Oldest(t)[i] \in Blocks
                         /\ ChainLength[Oldest(t)[i]] = Start(t) + i - 1
  BY <1>1, OldestLengths
<1>3. /\ pile \in Seq(Blocks) /\ pileIds \in Seq(Blocks) /\ Len(pile) \in Nat /\ Len(pileIds) \in Nat
      /\ OnBranch(pile, S) /\ OnBranch(pileIds, S)
  BY DEF AlignedInv, StoreInv, TypeInv, TypeOK, Piled
<1>4. MoveFacts(t, S) /\ \A j \in 1..n : infos[t][j] \in S
  BY <1>1 DEF AlignedInv, MoveFacts
<1>5. Both = {}
  BY <1>1, RestOfWriter DEF AlignedInv, FlushRemoves
<1>6. UNCHANGED <<info, permIndex, infos>>
  BY DEF FlushAppend, FlushAppendIds, volatile, locals
<1>7. Both' = {} /\ Start(t)' = Start(t) /\ Len(infos'[t]) = n
  BY <1>5, <1>6 DEF Both, Start
<1>8. \A b \in DOMAIN permIndex :
          b \in S /\ ChainLength[b] < Len(pile) /\ ChainLength[b] < Len(pileIds)
          /\ ChainLength[b] \in Nat
  BY LengthAssumption DEF AlignedInv, Piled, StoreInv, TypeInv, TypeOK, IsTree
<1> HIDE DEF n
<1>9. CASE FlushAppend(t)
  <2>1. /\ pc[t] = "flush_append" /\ pc'[t] = "flush_append_ids"
        /\ pile' = pile \o data[t] /\ pileIds' = pileIds
    BY <1>9, GotoLocals DEF FlushAppend, AlignedInv, StoreInv
  <2>2. data[t] = Oldest(t) /\ Start(t) = Len(pile)
    BY <1>4, <2>1 DEF MoveFacts
  <2>3. Len(pileIds) = Len(pile) /\ \A i \in 1..Len(pile) : pile[i] \in DOMAIN permIndex
    BY <2>1, RestOfWriter DEF AlignedInv, FlushRemoves
  <2>4. \A i \in 1..Len(Oldest(t)) : Oldest(t)[i] \in S /\ ChainLength[Oldest(t)[i]] = Len(pile) + i - 1
    BY <1>2, <2>2
  <2>5. /\ OnBranch(pile', S) /\ Len(pile') = Len(pile) + n
        /\ \A i \in 1..Len(pile) : pile'[i] = pile[i]
    <3> DEFINE q == Oldest(t)
    <3>1. /\ q \in Seq(Blocks) /\ Len(q) = n
          /\ \A i \in 1..Len(q) : q[i] \in S /\ ChainLength[q[i]] = Len(pile) + i - 1
      BY <1>2, <2>4
    <3> HIDE DEF q
    <3>2. /\ OnBranch(pile \o q, S) /\ Len(pile \o q) = Len(pile) + n
          /\ \A i \in 1..Len(pile) : (pile \o q)[i] = pile[i]
      BY <1>3, <3>1, PileGrows
    <3>3. pile' = pile \o q
      BY <2>1, <2>2 DEF q
    <3> QED BY <3>2, <3>3
  <2>6. Piled(S)'
    <3>1. \A b \in DOMAIN permIndex : ChainLength[b] < Len(pile')
      BY <1>2, <1>3, <1>8, <2>5
    <3>2. OnBranch(pile, S)' /\ OnBranch(pileIds, S)'
      BY <1>3, <2>1, <2>5 DEF OnBranch
    <3> QED BY <1>6, <1>8, <2>1, <3>1, <3>2 DEF Piled
  <2>7. MoveFacts(t, S)'
    <3>1. Start(t)' = Len(pileIds') /\ Len(pile') = Start(t)' + n
      BY <1>7, <2>1, <2>2, <2>3, <2>5
    <3>2. \A i \in 1..Start(t)' : pile'[i] \in DOMAIN permIndex'
      BY <1>6, <1>7, <2>2, <2>3, <2>5
    <3>3. \A j \in 1..Len(infos'[t]) : infos'[t][j] \in S
      BY <1>4, <1>6, <1>7
    <3> QED BY <1>7, <2>1, <3>1, <3>2, <3>3 DEF MoveFacts, FlushRemoves
  <2>8. AtRest'
    BY <1>7, <2>1 DEF AtRest
  <2> QED BY <2>6, <2>7, <2>8
<1>10. CASE FlushAppendIds(t)
  <2>1. /\ pc[t] = "flush_append_ids" /\ pc'[t] = "flush_index" /\ num'[t] = 1
        /\ pileIds' = pileIds \o Oldest(t) /\ pile' = pile
    BY <1>10, GotoLocals DEF FlushAppendIds, AlignedInv, StoreInv, TypeInv, TypeOK
  <2>2. /\ Start(t) = Len(pileIds) /\ Len(pile) = Start(t) + n
        /\ \A i \in 1..Start(t) : pile[i] \in DOMAIN permIndex
    BY <1>4, <2>1 DEF MoveFacts, n
  <2>4. \A i \in 1..Len(Oldest(t)) : Oldest(t)[i] \in S /\ ChainLength[Oldest(t)[i]] = Len(pileIds) + i - 1
    BY <1>2, <2>2
  <2>5. OnBranch(pileIds', S) /\ Len(pileIds') = Len(pileIds) + n
    BY <1>2, <1>3, <2>1, <2>2, <2>4, PileGrows
  <2>6. Piled(S)'
    <3>1. \A b \in DOMAIN permIndex : ChainLength[b] < Len(pileIds')
      BY <1>2, <1>3, <1>8, <2>5
    <3>2. OnBranch(pile, S)' /\ OnBranch(pileIds, S)'
      BY <1>3, <2>1, <2>5 DEF OnBranch
    <3> QED BY <1>6, <1>8, <2>1, <3>1, <3>2 DEF Piled
  <2>7. MoveFacts(t, S)'
    <3>1. Len(pile') = Start(t)' + n
      BY <1>7, <2>1, <2>2
    <3>2. \A i \in 1..(Start(t)' + num'[t] - 1) : pile'[i] \in DOMAIN permIndex'
      <4>1. Start(t)' + num'[t] - 1 = Start(t)
        BY <1>2, <1>7, <2>1
      <4> QED BY <1>6, <2>1, <2>2, <4>1
    <3>3. \A j \in 1..Len(infos'[t]) : infos'[t][j] \in S
      BY <1>4, <1>6, <1>7
    <3> QED BY <1>7, <2>1, <3>1, <3>2, <3>3 DEF MoveFacts, FlushRemoves
  <2>8. AtRest'
    <3>1. Len(pileIds') = Len(pile')
      BY <2>1, <2>2, <2>5
    <3> QED BY <1>7, <2>1, <3>1 DEF AtRest
  <2> QED BY <2>6, <2>7, <2>8
<1> QED BY <1>9, <1>10

\* Each round of the index loop indexes the next block of the piles.
LEMMA AlignedIndex ==
    ASSUME NEW S, SettledBranch(S), AlignedInv(S), NEW t \in Threads,
           \A u \in Threads : u # t => pc[u] \in {"idle", "get_volatile"},
           \A u \in Threads : u # t => pc'[u] \in {"idle", "get_volatile"},
           FlushIndex(t)
    PROVE  MoveFacts(t, S)' /\ AtRest' /\ Piled(S)'
<1> DEFINE n == Len(infos[t])
           s == infos[t]
           i == num[t]
           b == Oldest(t)[i]
<1>1. pc[t] = "flush_index" /\ pc[t] \in FlushHolds
  BY DEF FlushIndex, FlushHolds
<1>2. i \in 1..n
  BY <1>1 DEF AlignedInv, StoreInv, TypeInv, LocalsOK, FlushLabels, FlushLoopLabels
<1>3. /\ n \in Nat \ {0} /\ Start(t) \in Nat
      /\ b = s[n + 1 - i] /\ b \in S /\ b \in Blocks /\ ChainLength[b] = Start(t) + i - 1
  BY <1>1, <1>2, OldestLengths
<1>4. pile \in Seq(Blocks) /\ OnBranch(pile, S) /\ OnBranch(pileIds, S) /\ Len(pileIds) = Len(pile)
  BY <1>1, RestOfWriter DEF AlignedInv, StoreInv, TypeInv, TypeOK, Piled
<1>5. /\ MoveFacts(t, S) /\ \A j \in 1..n : s[j] \in S
      /\ Len(pile) = Start(t) + n
      /\ \A k \in 1..(Start(t) + i - 1) : pile[k] \in DOMAIN permIndex
      /\ \A x \in Both : \E j \in 1..n : j > n + 1 - i /\ x = s[j]
  BY <1>1 DEF AlignedInv, MoveFacts
<1>6. /\ UNCHANGED <<info, pile, pileIds, infos>>
      /\ DOMAIN permIndex' = DOMAIN permIndex \cup {b}
      /\ num'[t] = IF i = n THEN 1 ELSE i + 1
      /\ pc'[t] = IF i = n THEN "flush_remove_info" ELSE "flush_index"
  BY <1>1, GotoLocals DEF FlushIndex, Insert, volatile, AlignedInv, StoreInv, TypeInv, TypeOK
<1>7. Both' \subseteq Both \cup {b}
  BY <1>6 DEF Both
<1>8. Start(t)' = Start(t)
  BY <1>6 DEF Start
<1>9. \A c \in DOMAIN permIndex : c \in S /\ ChainLength[c] < Len(pile) /\ ChainLength[c] < Len(pileIds)
  BY DEF AlignedInv, Piled
<1> HIDE DEF n, s, i, b
<1>10. pile[Start(t) + i] = b
  <2>1. Start(t) + i \in 1..Len(pile)
    BY <1>2, <1>3, <1>5
  <2>2. \A k \in 1..Len(pile) : pile[k] \in S /\ ChainLength[pile[k]] = k - 1
    BY <1>4 DEF OnBranch
  <2>3. pile[Start(t) + i] \in S /\ ChainLength[pile[Start(t) + i]] = Start(t) + i - 1
    BY <1>2, <1>3, <2>1, <2>2
  <2> QED BY <1>3, <2>3 DEF SettledBranch
<1>11. \A k \in 1..(Start(t) + i) : pile[k] \in DOMAIN permIndex'
  <2>1. \A k \in 1..(Start(t) + i) : k \in 1..(Start(t) + i - 1) \/ k = Start(t) + i
    BY <1>2, <1>3
  <2> QED BY <1>5, <1>6, <1>10, <2>1
<1>12. Piled(S)'
  <2>1. ChainLength[b] < Len(pile) /\ ChainLength[b] < Len(pileIds)
    BY <1>2, <1>3, <1>4, <1>5
  <2>2. OnBranch(pile, S)' /\ OnBranch(pileIds, S)'
    BY <1>4, <1>6 DEF OnBranch
  <2> QED BY <1>3, <1>6, <1>9, <2>1, <2>2 DEF Piled
<1>13. \A x \in Both' : \E j \in 1..n : j > n - i /\ x = s[j]
  <2>1. n + 1 - i \in 1..n /\ n + 1 - i > n - i
    BY <1>2, <1>3
  <2>2. \A j \in 1..n : j > n + 1 - i => j > n - i
    BY <1>2, <1>3
  <2> QED BY <1>3, <1>5, <1>7, <2>1, <2>2
<1>14. \A j \in 1..Len(infos'[t]) : infos'[t][j] \in S
  BY <1>5, <1>6 DEF s, n
<1>15. CASE i = n
  <2>1. \A x \in Both' : \E j \in 1..n : x = s[j]
    BY <1>13
  <2>2. pc'[t] = "flush_remove_info" /\ num'[t] = 1
    BY <1>6, <1>15
  <2>3. MoveFacts(t, S)'
    BY <1>6, <1>14, <2>1, <2>2 DEF MoveFacts, s, n
  <2>4. \A k \in 1..Len(pile') : pile'[k] \in DOMAIN permIndex'
    BY <1>5, <1>6, <1>11, <1>15
  <2>5. AtRest'
    BY <1>4, <1>6, <2>2, <2>4 DEF AtRest, FlushRemoves
  <2> QED BY <1>12, <2>3, <2>5
<1>16. CASE i # n
  <2>1. pc'[t] = "flush_index" /\ num'[t] = i + 1
    BY <1>6, <1>16
  <2>2. n + 1 - num'[t] = n - i /\ Start(t)' + num'[t] - 1 = Start(t) + i
    BY <1>2, <1>3, <1>8, <2>1
  <2>3. \A x \in Both' : \E j \in 1..n : j > n + 1 - num'[t] /\ x = s[j]
    BY <1>13, <2>2
  <2>4. \A k \in 1..(Start(t)' + num'[t] - 1) : pile'[k] \in DOMAIN permIndex'
    BY <1>6, <1>11, <2>2
  <2>5. Len(pile') = Start(t)' + n /\ Len(infos'[t]) = n /\ infos'[t] = s
    BY <1>5, <1>6, <1>8 DEF n, s
  <2>6. MoveFacts(t, S)'
    BY <1>14, <2>1, <2>3, <2>4, <2>5 DEF MoveFacts, FlushRemoves
  <2>7. AtRest'
    BY <1>4, <1>6, <2>1 DEF AtRest, FlushRemoves
  <2> QED BY <1>12, <2>6, <2>7
<1> QED BY <1>15, <1>16

\* The removals end with the stores disjoint.
LEMMA AlignedRemove ==
    ASSUME NEW S, AlignedInv(S), NEW t \in Threads,
           \A u \in Threads : u # t => pc[u] \in {"idle", "get_volatile"},
           \A u \in Threads : u # t => pc'[u] \in {"idle", "get_volatile"},
           FlushRemoveInfo(t) \/ FlushRemoveBlock(t) \/ FlushRemoveLength(t)
    PROVE  MoveFacts(t, S)' /\ AtRest' /\ Piled(S)'
<1> DEFINE n == Len(infos[t])
           s == infos[t]
           i == num[t]
<1>1. pc[t] \in FlushRemoves
  BY DEF FlushRemoveInfo, FlushRemoveBlock, FlushRemoveLength, FlushRemoves
<1>2. i \in 1..n /\ n \in Nat
  BY <1>1 DEF FlushRemoves, AlignedInv, StoreInv, TypeInv, TypeOK, LocalsOK, FlushLabels,
              FlushLoopLabels
<1>3. UNCHANGED <<pile, pileIds, permIndex>>
  BY DEF FlushRemoveInfo, FlushRemoveBlock, FlushRemoveLength, permanent
<1>4. Piled(S)'
  BY <1>3 DEF AlignedInv, Piled, OnBranch
<1>5. MoveFacts(t, S) /\ \A j \in 1..n : s[j] \in S
  BY <1>1 DEF AlignedInv, MoveFacts
<1>6. Len(pileIds) = Len(pile) /\ \A k \in 1..Len(pile) : pile[k] \in DOMAIN permIndex
  BY <1>1, RestOfWriter DEF AlignedInv, FlushRemoves
<1>7. ASSUME pc'[t] \in FlushRemoves \/ Both' = {} PROVE AtRest'
  BY <1>3, <1>6, <1>7 DEF AtRest
<1>8. CASE FlushRemoveInfo(t)
  <2>1. /\ pc[t] = "flush_remove_info" /\ pc'[t] = "flush_remove_block"
        /\ UNCHANGED <<infos, num>> /\ DOMAIN info' = DOMAIN info \ {s[i]}
    BY <1>8, GotoLocals DEF FlushRemoveInfo, TreeRemove, locals, AlignedInv, StoreInv
  <2>2. Both' = Both \ {s[i]}
    BY <1>3, <2>1 DEF Both
  <2>3. \A x \in Both : \E j \in i..n : x = s[j]
    BY <1>5, <2>1 DEF MoveFacts
  <2>4. \A j \in i..n : j = i \/ j \in (i + 1)..n
    BY <1>2
  <2>5. \A x \in Both' : \E j \in (i + 1)..n : x = s[j]
    BY <2>2, <2>3, <2>4
  <2>6. MoveFacts(t, S)'
    BY <1>5, <2>1, <2>5 DEF MoveFacts
  <2> QED BY <1>4, <1>7, <2>1, <2>6 DEF FlushRemoves
<1>9. CASE FlushRemoveBlock(t)
  <2>1. /\ pc[t] = "flush_remove_block" /\ pc'[t] = "flush_remove_length"
        /\ UNCHANGED <<infos, num, info>>
    BY <1>9, GotoLocals DEF FlushRemoveBlock, locals, AlignedInv, StoreInv
  <2>2. Both' = Both
    BY <1>3, <2>1 DEF Both
  <2>3. MoveFacts(t, S)'
    BY <1>5, <2>1, <2>2 DEF MoveFacts
  <2> QED BY <1>4, <1>7, <2>1, <2>3 DEF FlushRemoves
<1>10. CASE FlushRemoveLength(t)
  <2>1. pc[t] = "flush_remove_length" /\ UNCHANGED info
    BY <1>10 DEF FlushRemoveLength
  <2>2. Both' = Both /\ \A x \in Both : \E j \in (i + 1)..n : x = s[j]
    BY <1>3, <1>5, <2>1 DEF Both, MoveFacts
  <2>3. CASE i = n /\ Return(t, "Ok")
    <3>1. pc'[t] = "idle"
      BY <2>3, ReturnLocals DEF AlignedInv, StoreInv
    <3>2. Both' = {}
      BY <1>2, <2>2, <2>3
    <3>3. MoveFacts(t, S)'
      BY <3>1 DEF MoveFacts, FlushGathers, FlushHolds, FlushRemoves
    <3> QED BY <1>4, <1>7, <3>2, <3>3
  <2>4. CASE num' = [num EXCEPT ![t] = i + 1] /\ Goto(t, "flush_remove_info") /\ UNCHANGED infos
    <3>1. pc'[t] = "flush_remove_info" /\ num'[t] = i + 1 /\ infos' = infos
      BY <2>4, GotoLocals DEF AlignedInv, StoreInv, TypeInv, TypeOK
    <3>2. MoveFacts(t, S)'
      BY <1>5, <2>2, <3>1 DEF MoveFacts
    <3> QED BY <1>4, <1>7, <3>1, <3>2 DEF FlushRemoves
  <2> QED BY <1>10, <2>3, <2>4 DEF FlushRemoveLength
<1> QED BY <1>8, <1>9, <1>10

\* Every step keeps the piles aligned.
LEMMA AlignedStep ==
    ASSUME OneWriter, CountersFit, NeverStopped, NEW S, SettledBranch(S), AlignedInv(S),
           NEW t \in Threads, StepOf(t)
    PROVE  AlignedInv(S)'
<1>1. StoreInv'
  <2>1. StoreInv /\ Next
    BY DEF AlignedInv, Next, StepOf
  <2> QED BY <2>1, StoreNext
<1>2. CASE ~Writer(t)
  BY <1>1, <1>2, AlignedReader DEF AlignedInv
<1>3. CASE Writer(t)
  <2>1. \A u \in Threads : u # t => /\ pc[u] \in {"idle", "get_volatile"}
                                   /\ pc'[u] \in {"idle", "get_volatile"}
    BY <1>3, OthersOutside DEF AlignedInv
  <2>2. \A u \in Threads : u # t => MoveFacts(u, S)'
    BY <2>1 DEF MoveFacts, FlushGathers, FlushHolds, FlushRemoves
  <2> SUFFICES MoveFacts(t, S)' /\ AtRest' /\ Piled(S)'
    BY <1>1, <2>2 DEF AlignedInv
  <2>3. ASSUME UNCHANGED <<pile, pileIds, permIndex>>, Both' \subseteq Both,
               pc[t] \notin FlushLabels, pc'[t] \notin FlushLabels
        PROVE  MoveFacts(t, S)' /\ AtRest' /\ Piled(S)'
    <3>1. MoveFacts(t, S)'
      BY <2>3 DEF MoveFacts, FlushGathers, FlushHolds, FlushRemoves, FlushLabels, FlushLoopLabels
    <3>2. Piled(S)'
      BY <2>3 DEF AlignedInv, Piled, OnBranch
    <3>3. /\ Len(pileIds) = Len(pile) /\ Both = {}
          /\ \A i \in 1..Len(pile) : pile[i] \in DOMAIN permIndex
      BY <2>1, <2>3, RestOfWriter DEF AlignedInv, FlushRemoves, FlushLabels, FlushLoopLabels
    <3>4. AtRest'
      BY <2>3, <3>3 DEF AtRest
    <3> QED BY <3>1, <3>2, <3>4
  <2>4. CASE \/ \E b \in Blocks : PutBlock(t, b) \/ PruneBranch(t, b) \/ GetBlock(t, b)
             \/ PutExistsVolatile(t) \/ PutParent(t) \/ PutTxn(t)
             \/ \E tag \in Tags, b \in Blocks : PutTag(t, tag, b)
             \/ PruneNothing(t) \/ PruneTxn(t) \/ PruneLook(t) \/ PruneTip(t)
             \/ GetVolatile(t)
    BY <1>1, <2>3, <2>4, AlignedOutside
  <2>5. CASE \/ \E to \in FlushTargets, min \in MinNumbers : FlushToPermanentStore(t, to, min)
             \/ FlushScan(t) \/ FlushGather(t) \/ FlushRead(t)
    BY <1>1, <2>1, <2>5, AlignedGather
  <2>6. CASE FlushAppend(t) \/ FlushAppendIds(t)
    BY <2>1, <2>6, AlignedAppend
  <2>7. CASE FlushIndex(t)
    BY <2>1, <2>7, AlignedIndex
  <2>8. CASE FlushRemoveInfo(t) \/ FlushRemoveBlock(t) \/ FlushRemoveLength(t)
    BY <2>1, <2>8, AlignedRemove
  <2>9. ~Fail(t)
    BY DEF Fail, NeverStopped
  <2> QED BY <2>4, <2>5, <2>6, <2>7, <2>8, <2>9 DEF StepOf
<1> QED BY <1>2, <1>3

\* At the start nothing is in the piles.
LEMMA AlignedInit ==
    ASSUME NEW S, Init
    PROVE  AlignedInv(S)
<1>1. StoreInv
  BY StoreInit
<1>2. \A t \in Threads : MoveFacts(t, S)
  BY DEF Init, MoveFacts, FlushGathers, FlushHolds, FlushRemoves
<1>3. AtRest /\ Piled(S)
  BY DEF Init, AtRest, Piled, OnBranch, Both
<1> QED BY <1>1, <1>2, <1>3 DEF AlignedInv

\* AlignedInv is inductive.
LEMMA AlignedNext ==
    ASSUME OneWriter, CountersFit, NeverStopped, NEW S, SettledBranch(S), AlignedInv(S),
           [Next]_vars
    PROVE  AlignedInv(S)'
<1>1. CASE UNCHANGED vars
  <2>1. StoreInv'
    BY <1>1, StoreNext DEF AlignedInv
  <2>2. \A t \in Threads : MoveFacts(t, S)'
    BY <1>1 DEF AlignedInv, MoveFacts, Oldest, Start, Both, vars, volatile, permanent, locals
  <2>3. AtRest' /\ Piled(S)'
    BY <1>1 DEF AlignedInv, AtRest, Piled, OnBranch, Both, vars, volatile, permanent, locals
  <2> QED BY <2>1, <2>2, <2>3 DEF AlignedInv
<1>2. CASE Next
  <2>1. PICK t \in Threads : StepOf(t)
    BY <1>2 DEF Next, StepOf
  <2> QED BY <2>1, AlignedStep
<1> QED BY <1>1, <1>2

\* While a single writer, never stopped, moves one branch into the permanent store, a
\* permanent block is found in both piles at its chain length, and the piles hold one
\* chain: at no step of flush_to_permanent_store does reading by id or by length return
\* another block.
THEOREM PilesAligned ==
    ASSUME OneWriter, CountersFit, NeverStopped, NEW S, SettledBranch(S)
    PROVE  Spec => []PermanentAligned
<1>1. Init => AlignedInv(S)
  BY AlignedInit
<1>2. AlignedInv(S) /\ [Next]_vars => AlignedInv(S)'
  BY AlignedNext
<1>3. AlignedInv(S) => PermanentAligned
  BY PiledAligned
<1> QED BY <1>1, <1>2, <1>3, PTL DEF Spec

-----------------------------------------------------------------------------
(* The tree of blocks.                                                     *)

\* One round of the climb to a common ancestor.
ClimbRound(q, i, env) == IF q[1] = q[2] THEN q ELSE <<InfoParent(q[1]), InfoParent(q[2])>>

U == INSTANCE FoldTheorems WITH Op <- ClimbRound

\* Lengths are numbers, and a parent is one shorter.
LEMMA TreeLengths ==
    /\ \A b \in Blocks : ChainLength[b] \in Nat
    /\ \A b \in Blocks : Parent[b] = Root => ChainLength[b] = 0
    /\ \A b \in Blocks : Parent[b] # Root =>
          Parent[b] \in Blocks /\ ChainLength[b] = ChainLength[Parent[b]] + 1
BY LengthAssumption, ParentAssumption

\* Whatever holds of b and with every block of its parent holds of its ancestors.
LEMMA AncestryLeast ==
    ASSUME NEW b \in Blocks, NEW S \in SUBSET Blocks, b \in S, Closed(S)
    PROVE  Ancestry[b] \subseteq S
BY DEF Ancestry

\* The ancestors of b have b and are closed under parents.
LEMMA AncestryClosed ==
    ASSUME NEW b \in Blocks
    PROVE  b \in Ancestry[b] /\ Ancestry[b] \subseteq Blocks /\ Closed(Ancestry[b])
<1>1. b \in Ancestry[b] /\ Ancestry[b] \subseteq Blocks
  BY DEF Ancestry
<1>2. ASSUME NEW x \in Ancestry[b], Parent[x] # Root PROVE Parent[x] \in Ancestry[b]
  <2>1. x \in Blocks /\ Parent[x] \in Blocks
    BY <1>1, <1>2, TreeLengths
  <2>2. ASSUME NEW S \in SUBSET Blocks, b \in S, Closed(S) PROVE Parent[x] \in S
    <3>1. x \in S
      BY <2>2, AncestryLeast
    <3> QED BY <1>2, <2>2, <3>1 DEF Closed
  <2> QED BY <2>1, <2>2 DEF Ancestry
<1> QED BY <1>1, <1>2 DEF Closed

\* The ancestors of an ancestor are ancestors.
LEMMA AncestryTransitive ==
    ASSUME NEW b \in Blocks, NEW x \in Ancestry[b]
    PROVE  x \in Blocks /\ Ancestry[x] \subseteq Ancestry[b]
<1>1. x \in Blocks /\ Ancestry[b] \in SUBSET Blocks /\ Closed(Ancestry[b])
  BY AncestryClosed
<1> QED BY <1>1, AncestryLeast

\* Apart from the block itself they are those of its parent.
LEMMA AncestryUnfold ==
    ASSUME NEW b \in Blocks, NEW x \in Ancestry[b], x # b
    PROVE  Parent[b] # Root /\ Parent[b] \in Blocks /\ x \in Ancestry[Parent[b]]
<1>1. CASE Parent[b] = Root
  <2>1. Closed({b}) /\ {b} \in SUBSET Blocks
    BY <1>1 DEF Closed
  <2>2. Ancestry[b] \subseteq {b}
    BY <2>1, AncestryLeast
  <2> QED BY <2>2
<1>2. CASE Parent[b] # Root
  <2>1. Parent[b] \in Blocks
    BY <1>2, TreeLengths
  <2>2. PICK S : S = {b} \cup Ancestry[Parent[b]]
    OBVIOUS
  <2>3. /\ Parent[b] \in Ancestry[Parent[b]] /\ Ancestry[Parent[b]] \subseteq Blocks
        /\ Closed(Ancestry[Parent[b]])
    BY <2>1, AncestryClosed
  <2>4. S \in SUBSET Blocks /\ b \in S /\ Closed(S)
    BY <2>2, <2>3 DEF Closed
  <2>5. Ancestry[b] \subseteq S
    BY <2>4, AncestryLeast
  <2> QED BY <1>2, <2>1, <2>2, <2>5
<1> QED BY <1>1, <1>2

\* Ancestors are no longer than the block.
LEMMA AncestryShorter ==
    ASSUME NEW b \in Blocks, NEW x \in Ancestry[b]
    PROVE  /\ x \in Blocks /\ ChainLength[x] \in Nat /\ ChainLength[b] \in Nat
           /\ ChainLength[x] <= ChainLength[b]
           /\ x # b => ChainLength[x] < ChainLength[b]
<1> DEFINE S(c) == {y \in Blocks : ChainLength[y] <= ChainLength[c]}
<1>1. ASSUME NEW c \in Blocks PROVE Ancestry[c] \subseteq S(c)
  <2>1. S(c) \in SUBSET Blocks /\ c \in S(c)
    BY TreeLengths
  <2>2. ASSUME NEW y \in S(c), Parent[y] # Root PROVE Parent[y] \in S(c)
    <3>1. /\ Parent[y] \in Blocks /\ ChainLength[y] = ChainLength[Parent[y]] + 1
          /\ ChainLength[y] <= ChainLength[c] /\ ChainLength[Parent[y]] \in Nat
          /\ ChainLength[c] \in Nat
      BY <2>2, TreeLengths
    <3>2. ChainLength[Parent[y]] <= ChainLength[c]
      BY <3>1
    <3> QED BY <3>1, <3>2
  <2>3. Closed(S(c))
    BY <2>2 DEF Closed
  <2> HIDE DEF S
  <2> QED BY <2>1, <2>3, AncestryLeast
<1>2. x \in Blocks /\ ChainLength[x] <= ChainLength[b]
  BY <1>1
<1>3. ASSUME x # b PROVE ChainLength[x] < ChainLength[b]
  <2>1. Parent[b] # Root /\ Parent[b] \in Blocks /\ x \in Ancestry[Parent[b]]
    BY <1>3, AncestryUnfold
  <2>2. ChainLength[x] <= ChainLength[Parent[b]]
    BY <1>1, <2>1
  <2> QED BY <1>2, <2>1, <2>2, TreeLengths
<1> QED BY <1>2, <1>3, TreeLengths

\* A block has one ancestor of every length up to its own.
LEMMA AncestryPath ==
    ASSUME NEW b \in Blocks, NEW k \in Nat, k <= ChainLength[b]
    PROVE  /\ \E x \in Ancestry[b] : ChainLength[x] = k
           /\ \A x, y \in Ancestry[b] : ChainLength[x] = k /\ ChainLength[y] = k => x = y
<1> DEFINE Good(c) ==
             /\ \E x \in Ancestry[c] : ChainLength[x] = k
             /\ \A x, y \in Ancestry[c] : ChainLength[x] = k /\ ChainLength[y] = k => x = y
           S == {n \in Nat : \A c \in Blocks : ChainLength[c] = k + n => Good(c)}
<1>1. ASSUME NEW c \in Blocks, ChainLength[c] = k PROVE Good(c)
  <2>1. c \in Ancestry[c]
    BY AncestryClosed
  <2>2. ASSUME NEW x \in Ancestry[c], ChainLength[x] = k PROVE x = c
    <3>1. /\ ChainLength[x] \in Nat /\ ChainLength[c] \in Nat
          /\ x # c => ChainLength[x] < ChainLength[c]
      BY AncestryShorter
    <3> QED BY <1>1, <2>2, <3>1
  <2> QED BY <1>1, <2>1, <2>2
<1>2. 0 \in S
  BY <1>1
<1>3. ASSUME NEW n \in Nat, n \in S PROVE n + 1 \in S
  <2> SUFFICES ASSUME NEW c \in Blocks, ChainLength[c] = k + (n + 1) PROVE Good(c)
    OBVIOUS
  <2>1. Parent[c] # Root /\ Parent[c] \in Blocks /\ ChainLength[Parent[c]] = k + n
    BY TreeLengths
  <2>2. Good(Parent[c])
    BY <1>3, <2>1
  <2>3. Parent[c] \in Ancestry[c] /\ c \in Blocks
    BY <2>1, AncestryClosed DEF Closed
  <2>4. Ancestry[Parent[c]] \subseteq Ancestry[c]
    BY <2>3, AncestryTransitive
  <2>5. ASSUME NEW x \in Ancestry[c], ChainLength[x] = k PROVE x \in Ancestry[Parent[c]]
    <3>1. x # c
      BY <2>5
    <3> QED BY <3>1, AncestryUnfold
  <2> QED BY <2>2, <2>4, <2>5
<1> HIDE DEF S
<1>4. Nat \subseteq S
  BY <1>2, <1>3, U!NaturalInduction
<1>5. ChainLength[b] \in Nat
  BY TreeLengths
<1>6. PICK n \in Nat : ChainLength[b] = k + n
  <2>1. ChainLength[b] - k \in Nat /\ ChainLength[b] = k + (ChainLength[b] - k)
    BY <1>5
  <2> QED BY <2>1
<1>7. n \in S
  BY <1>4
<1>8. Good(b)
  <2> HIDE DEF Good
  <2> QED BY <1>6, <1>7 DEF S
<1> QED BY <1>8

\* Of two ancestors of a block the shorter is an ancestor of the other.
LEMMA AncestryLinear ==
    ASSUME NEW b \in Blocks, NEW x \in Ancestry[b], NEW y \in Ancestry[b],
           ChainLength[x] <= ChainLength[y]
    PROVE  x \in Ancestry[y]
<1>1. x \in Blocks /\ y \in Blocks /\ ChainLength[x] \in Nat /\ ChainLength[x] <= ChainLength[b]
  BY AncestryShorter
<1>2. PICK z \in Ancestry[y] : ChainLength[z] = ChainLength[x]
  BY <1>1, AncestryPath
<1>3. z \in Ancestry[b]
  BY AncestryTransitive
<1>4. z = x
  BY <1>1, <1>2, <1>3, AncestryPath
<1> QED BY <1>2, <1>4

-----------------------------------------------------------------------------
(* The store between two calls.                                            *)

\* The piles hold exactly the indexed blocks, by their length; the two stores are
\* disjoint and closed under parents; the chain length index has every volatile block.
QuietStore ==
    /\ Len(pile) \in Nat /\ Len(pileIds) = Len(pile)
    /\ \A i \in 1..Len(pile) :
          /\ pile[i] \in Blocks /\ InPermanent(pile[i]) /\ pileIds[i] = pile[i]
          /\ ChainLength[pile[i]] = i - 1
    /\ \A b \in DOMAIN permIndex :
          /\ b \in Blocks /\ permIndex[b] = ChainLength[b] /\ ChainLength[b] < Len(pile)
          /\ pile[ChainLength[b] + 1] = b
          /\ Parent[b] = Root \/ InPermanent(Parent[b])
    /\ \A b \in Blocks : ~(InPermanent(b) /\ InVolatile(b))
    /\ \A b \in Blocks : InVolatile(b) => <<ChainLength[b], b>> \in lengthIndex /\ b \in blocks
    /\ \A b \in Blocks : \A n : <<n, b>> \in lengthIndex => n = ChainLength[b] /\ Stored(b)
    /\ ParentsStored
    /\ IsFiniteSet(Blocks)

\* When no thread is inside a method, nothing is between two steps of a flush.
LEMMA QuietRests ==
    ASSUME NEW S, SettledBranch(S), AlignedInv(S), CountersFit, Quiet
    PROVE  QuietStore
<1>1. PermanentAligned
  BY PiledAligned
<1>2. pile \in Seq(Blocks) /\ pileIds \in Seq(Blocks) /\ IsTree(permIndex, Blocks, Nat)
  BY DEF AlignedInv, StoreInv, TypeInv, TypeOK
<1>3. /\ Len(pileIds) = Len(pile) /\ Both = {}
      /\ \A i \in 1..Len(pile) : pile[i] \in DOMAIN permIndex
  BY DEF AlignedInv, AtRest, Quiet, FlushRemoves
<1>4. OnBranch(pile, S) /\ OnBranch(pileIds, S)
  BY DEF AlignedInv, Piled
<1>5. ASSUME NEW i \in 1..Len(pile)
      PROVE  /\ pile[i] \in Blocks /\ InPermanent(pile[i]) /\ pileIds[i] = pile[i]
             /\ ChainLength[pile[i]] = i - 1
  <2>1. pile[i] \in DOMAIN permIndex /\ pile[i] \in Blocks
    BY <1>2, <1>3
  <2>2. pile[i] \in S /\ ChainLength[pile[i]] = i - 1
    BY <1>4 DEF OnBranch
  <2>3. pileIds[i] \in S /\ ChainLength[pileIds[i]] = i - 1
    BY <1>3, <1>4 DEF OnBranch
  <2> QED BY <2>1, <2>2, <2>3 DEF InPermanent, SettledBranch
<1>6. PermanentClosed /\ ParentsStored /\ LengthIndexSound /\ BytesMatchInfo
  BY DEF AlignedInv, StoreInv, Shared
<1>7. ASSUME NEW b \in DOMAIN permIndex
      PROVE  /\ b \in Blocks /\ permIndex[b] = ChainLength[b] /\ ChainLength[b] < Len(pile)
             /\ pile[ChainLength[b] + 1] = b
             /\ Parent[b] = Root \/ InPermanent(Parent[b])
  BY <1>1, <1>2, <1>3, <1>6 DEF PermanentAligned, PermanentClosed, IsTree
<1>8. \A b \in Blocks : ~(InPermanent(b) /\ InVolatile(b))
  BY <1>3 DEF Both, InPermanent, InVolatile
<1>9. \A b \in Blocks : InVolatile(b) => <<ChainLength[b], b>> \in lengthIndex /\ b \in blocks
  BY <1>6, <1>8 DEF LengthIndexSound, BytesMatchInfo, InPermanent, InVolatile
<1>10. \A b \in Blocks : \A n : <<n, b>> \in lengthIndex => n = ChainLength[b] /\ Stored(b)
  BY <1>6 DEF LengthIndexSound
<1>11. IsFiniteSet(Blocks) /\ Len(pile) \in Nat
  BY <1>2 DEF CountersFit
<1> QED BY <1>3, <1>5, <1>6, <1>7, <1>8, <1>9, <1>10, <1>11 DEF QuietStore

\* The ancestors of a stored block are stored, those of a permanent one permanent.
LEMMA AncestorsStored ==
    ASSUME QuietStore, NEW b \in Blocks, NEW x \in Ancestry[b]
    PROVE  /\ Stored(b) => Stored(x)
           /\ InPermanent(b) => InPermanent(x)
<1>1. ASSUME Stored(b) PROVE Stored(x)
  <2>1. PICK T : T = {y \in Blocks : Stored(y)}
    OBVIOUS
  <2>2. Closed(T)
    BY <2>1, TreeLengths DEF Closed, QuietStore, ParentsStored
  <2>3. T \in SUBSET Blocks /\ b \in T
    BY <1>1, <2>1
  <2> QED BY <2>1, <2>2, <2>3, AncestryLeast
<1>2. ASSUME InPermanent(b) PROVE InPermanent(x)
  <2>1. PICK T : T = {y \in Blocks : InPermanent(y)}
    OBVIOUS
  <2>2. Closed(T)
    BY <2>1, TreeLengths DEF Closed, QuietStore, InPermanent
  <2>3. T \in SUBSET Blocks /\ b \in T
    BY <1>2, <2>1
  <2> QED BY <2>1, <2>2, <2>3, AncestryLeast
<1> QED BY <1>1, <1>2

\* A permanent block is where the piles have its length.
LEMMA PermanentPlace ==
    ASSUME QuietStore, NEW b \in Blocks, InPermanent(b)
    PROVE  /\ ChainLength[b] \in Nat /\ ChainLength[b] < Len(pile)
           /\ pile[ChainLength[b] + 1] = b /\ pileIds[ChainLength[b] + 1] = b
           /\ permIndex[b] = ChainLength[b] /\ ~InVolatile(b)
<1>1. b \in DOMAIN permIndex
  BY DEF InPermanent
<1>2. /\ permIndex[b] = ChainLength[b] /\ ChainLength[b] < Len(pile)
      /\ pile[ChainLength[b] + 1] = b /\ ~InVolatile(b) /\ Len(pile) \in Nat
  BY <1>1 DEF QuietStore
<1>3. ChainLength[b] \in Nat
  BY TreeLengths
<1>4. ChainLength[b] + 1 \in 1..Len(pile)
  BY <1>2, <1>3
<1>5. pileIds[ChainLength[b] + 1] = pile[ChainLength[b] + 1]
  BY <1>4 DEF QuietStore
<1> QED BY <1>2, <1>3, <1>5

\* A settled volatile block is above the whole permanent chain.
LEMMA SettledAbove ==
    ASSUME QuietStore, NEW x \in Blocks, Settled(x), ~InPermanent(x)
    PROVE  /\ \A p \in DOMAIN permIndex : p \in Ancestry[x]
           /\ Len(pile) <= ChainLength[x] /\ InVolatile(x)
<1>1. ASSUME NEW p \in DOMAIN permIndex PROVE p \in Ancestry[x]
  <2>1. p \in Blocks /\ InPermanent(p)
    BY DEF QuietStore, InPermanent
  <2>2. p \in Ancestry[x] \/ x \in Ancestry[p]
    BY DEF Settled
  <2>3. ~(x \in Ancestry[p])
    BY <2>1, AncestorsStored
  <2> QED BY <2>2, <2>3
<1>2. Len(pile) \in Nat /\ ChainLength[x] \in Nat
  BY TreeLengths DEF QuietStore
<1>3. CASE Len(pile) = 0
  BY <1>1, <1>2, <1>3 DEF Settled, Stored
<1>4. CASE Len(pile) # 0
  <2>1. Len(pile) \in 1..Len(pile)
    BY <1>2, <1>4
  <2>2. PICK p : p = pile[Len(pile)] /\ p \in DOMAIN permIndex /\ ChainLength[p] = Len(pile) - 1
    BY <2>1 DEF QuietStore, InPermanent
  <2>3. p \in Ancestry[x] /\ p # x
    BY <1>1, <2>2 DEF InPermanent
  <2>4. ChainLength[p] < ChainLength[x]
    BY <2>3, AncestryShorter
  <2> QED BY <1>1, <1>2, <2>2, <2>4 DEF Settled, Stored
<1> QED BY <1>3, <1>4

\* The branch of a settled block is in the piles up to their end, and volatile above.
LEMMA SettledPath ==
    ASSUME QuietStore, NEW x \in Blocks, Settled(x), NEW y \in Ancestry[x]
    PROVE  /\ y \in Blocks /\ ChainLength[y] \in Nat
           /\ ChainLength[y] < Len(pile) =>
                 /\ InPermanent(y) /\ pile[ChainLength[y] + 1] = y /\ pileIds[ChainLength[y] + 1] = y
                 /\ permIndex[y] = ChainLength[y] /\ ~InVolatile(y)
           /\ ChainLength[y] >= Len(pile) => InVolatile(y) /\ ~InPermanent(y)
<1>1. y \in Blocks /\ ChainLength[y] \in Nat /\ Len(pile) \in Nat
  BY AncestryShorter DEF QuietStore
<1>2. Stored(y)
  BY AncestorsStored DEF Settled
<1>3. ASSUME ChainLength[y] < Len(pile) PROVE InPermanent(y)
  <2>1. CASE InPermanent(x)
    BY <2>1, AncestorsStored
  <2>2. CASE ~InPermanent(x)
    <3>1. ChainLength[y] + 1 \in 1..Len(pile) /\ (ChainLength[y] + 1) - 1 = ChainLength[y]
      BY <1>1, <1>3
    <3>2. PICK p : p = pile[ChainLength[y] + 1] /\ p \in Blocks /\ InPermanent(p)
                   /\ ChainLength[p] = ChainLength[y]
      BY <3>1 DEF QuietStore
    <3>3. p \in Ancestry[x]
      BY <2>2, <3>2, SettledAbove DEF InPermanent
    <3>4. ChainLength[y] <= ChainLength[x]
      BY AncestryShorter
    <3>5. p = y
      BY <1>1, <3>2, <3>3, <3>4, AncestryPath
    <3> QED BY <3>2, <3>5
  <2> QED BY <2>1, <2>2
<1>4. ASSUME InPermanent(y) PROVE ChainLength[y] < Len(pile)
  BY <1>1, <1>4, PermanentPlace
<1>5. ASSUME ChainLength[y] < Len(pile)
      PROVE  /\ InPermanent(y) /\ pile[ChainLength[y] + 1] = y /\ pileIds[ChainLength[y] + 1] = y
             /\ permIndex[y] = ChainLength[y] /\ ~InVolatile(y)
  BY <1>1, <1>3, <1>5, PermanentPlace
<1>6. ASSUME ChainLength[y] >= Len(pile) PROVE InVolatile(y) /\ ~InPermanent(y)
  <2>1. ~InPermanent(y)
    BY <1>1, <1>4, <1>6
  <2> QED BY <1>2, <2>1 DEF Stored
<1> QED BY <1>1, <1>5, <1>6

\* Above the piles the index lists the volatile blocks of a length.
LEMMA IndexedAbove ==
    ASSUME QuietStore, NEW n \in Nat, n >= Len(pile)
    PROVE  /\ \A b : b \in IndexedAt(n) <=> b \in Blocks /\ InVolatile(b) /\ ChainLength[b] = n
           /\ IndexedAt(n) \subseteq blocks
<1>1. Len(pile) \in Nat
  BY DEF QuietStore
<1>2. ASSUME NEW b \in Blocks, <<n, b>> \in lengthIndex PROVE InVolatile(b) /\ ChainLength[b] = n
  <2>1. n = ChainLength[b] /\ Stored(b)
    BY <1>2 DEF QuietStore
  <2>2. ~InPermanent(b)
    BY <1>1, <2>1, PermanentPlace
  <2> QED BY <2>1, <2>2 DEF Stored
<1>3. \A b \in Blocks : InVolatile(b) => <<ChainLength[b], b>> \in lengthIndex /\ b \in blocks
  BY DEF QuietStore
<1> QED BY <1>2, <1>3 DEF IndexedAt

\* A block that is alone at its length is the ancestor there of every settled branch.
LEMMA SoleAncestor ==
    ASSUME QuietStore, NEW x \in Blocks, Settled(x), NEW n \in Nat,
           n >= Len(pile), n <= ChainLength[x]
    PROVE  \E z \in Ancestry[x] : /\ ChainLength[z] = n /\ z \in IndexedAt(n)
                                  /\ Sole(n) => IndexedAt(n) = {z}
<1>1. PICK z \in Ancestry[x] : ChainLength[z] = n
  BY AncestryPath
<1>2. z \in Blocks /\ InVolatile(z)
  BY <1>1, SettledPath
<1>3. z \in IndexedAt(n)
  BY <1>1, <1>2, IndexedAbove
<1>4. ASSUME Sole(n) PROVE IndexedAt(n) = {z}
  <2>1. IsFiniteSet(IndexedAt(n))
    <3>1. IndexedAt(n) \subseteq Blocks
      BY DEF IndexedAt
    <3>2. IsFiniteSet(Blocks)
      BY DEF QuietStore
    <3> QED BY <3>1, <3>2, FS_Subset
  <2>2. PICK w : IndexedAt(n) = {w}
    <3>1. Cardinality(IndexedAt(n)) = 1
      BY <1>4 DEF Sole
    <3> QED BY <2>1, <3>1, FS_Singleton
  <2> QED BY <1>3, <2>2
<1> QED BY <1>1, <1>3, <1>4

-----------------------------------------------------------------------------
(* The queries.                                                            *)

\* What get_block_info tells of a stored block is what the tree has.
LEMMA InfoIsTrue ==
    ASSUME QuietStore, NEW b \in Blocks
    PROVE  /\ InfoLength(b) = ChainLength[b] /\ InfoParent(b) = Parent[b]
           /\ ChainLength[b] \in Nat
<1>1. ChainLength[b] \in Nat
  BY TreeLengths
<1>2. CASE ~InPermanent(b)
  BY <1>1, <1>2 DEF InfoLength, InfoParent
<1>3. CASE InPermanent(b)
  <2>1. /\ permIndex[b] = ChainLength[b] /\ ChainLength[b] < Len(pile)
        /\ Len(pile) \in Nat
    BY <1>3, PermanentPlace DEF QuietStore
  <2>2. InfoLength(b) = ChainLength[b]
    BY <1>3, <2>1 DEF InfoLength
  <2>3. CASE ChainLength[b] = 0
    <3>1. Parent[b] = Root
      <4>1. Parent[b] # Root => ChainLength[b] = ChainLength[Parent[b]] + 1
                                /\ ChainLength[Parent[b]] \in Nat
        BY TreeLengths
      <4> QED BY <2>3, <4>1
    <3>2. InfoParent(b) = Root
      BY <1>3, <2>1, <2>3 DEF InfoParent
    <3> QED BY <1>1, <2>2, <3>1, <3>2
  <2>4. CASE ChainLength[b] # 0
    <3>1. Parent[b] # Root
      BY <2>4, TreeLengths
    <3>2. Parent[b] \in Blocks /\ ChainLength[b] = ChainLength[Parent[b]] + 1
          /\ ChainLength[Parent[b]] \in Nat
      BY <3>1, TreeLengths
    <3>3. InPermanent(Parent[b])
      BY <1>3, <3>1 DEF QuietStore, InPermanent
    <3>4. pileIds[ChainLength[Parent[b]] + 1] = Parent[b]
      BY <3>2, <3>3, PermanentPlace
    <3>5. InfoParent(b) = pileIds[ChainLength[b]]
      BY <1>3, <2>1, <2>4 DEF InfoParent
    <3>6. InfoParent(b) = Parent[b]
      BY <3>2, <3>4, <3>5
    <3> QED BY <1>1, <2>2, <3>6
  <2> QED BY <2>3, <2>4
<1> QED BY <1>2, <1>3

\* The loop through the volatile store meets every volatile ancestor.
LEMMA WalkIsTrue ==
    ASSUME QuietStore, NEW y \in Blocks, Settled(y)
    PROVE  /\ VolatileWalk(y) \subseteq Ancestry[y]
           /\ \A x \in Ancestry[y] : ChainLength[x] >= Len(pile) => x \in VolatileWalk(y)
<1>1. VolatileWalk(y) \subseteq Ancestry[y]
  BY DEF VolatileWalk
<1>2. ASSUME NEW x \in Ancestry[y], ChainLength[x] >= Len(pile) PROVE x \in VolatileWalk(y)
  <2>1. ASSUME NEW z \in Ancestry[y], ChainLength[x] <= ChainLength[z] PROVE InVolatile(z)
    <3>1. ChainLength[x] \in Nat /\ ChainLength[z] \in Nat /\ Len(pile) \in Nat
      BY AncestryShorter DEF QuietStore
    <3>2. ChainLength[z] >= Len(pile)
      BY <1>2, <2>1, <3>1
    <3> QED BY <3>2, SettledPath
  <2> QED BY <2>1 DEF VolatileWalk
<1> QED BY <1>1, <1>2

\* is_ancestor.
LEMMA IsAncestorIsTrue ==
    ASSUME QuietStore, NEW x \in Blocks, NEW y \in Blocks, Settled(x), Settled(y)
    PROVE  IsAncestor(x, y) = TrueDistance(x, y)
<1>1. /\ InfoLength(x) = ChainLength[x] /\ InfoLength(y) = ChainLength[y]
      /\ InfoParent(y) = Parent[y] /\ ChainLength[x] \in Nat /\ ChainLength[y] \in Nat
      /\ Len(pile) \in Nat
  BY InfoIsTrue DEF QuietStore
<1>2. Stored(x) /\ Stored(y) /\ x # Root
  BY RootAssumption DEF Settled
<1> DEFINE n == ChainLength[x]
           dist == ChainLength[y] - n
<1>3. CASE x = y
  <2>1. x \in Ancestry[y]
    BY <1>3, AncestryClosed
  <2>2. IsAncestor(x, y) = Ok(0)
    BY <1>2, <1>3 DEF IsAncestor
  <2>3. TrueDistance(x, y) = Ok(0)
    BY <1>1, <1>3, <2>1 DEF TrueDistance
  <2> QED BY <2>2, <2>3
<1>4. CASE x # y /\ InPermanent(x)
  <2>1. IsAncestor(x, y) = IF dist > 0 THEN Ok(dist) ELSE None
    BY <1>1, <1>2, <1>4 DEF IsAncestor
  <2>2. x \in Ancestry[y] <=> dist > 0
    <3>1. ASSUME x \in Ancestry[y] PROVE dist > 0
      BY <1>1, <1>4, <3>1, AncestryShorter
    <3>2. ASSUME dist > 0 PROVE x \in Ancestry[y]
      <4>1. x \in Ancestry[y] \/ y \in Ancestry[x]
        BY <1>4 DEF Settled, InPermanent
      <4>2. y \in Ancestry[x] => ChainLength[y] <= ChainLength[x]
        BY AncestryShorter
      <4> QED BY <1>1, <3>2, <4>1, <4>2
    <3> QED BY <3>1, <3>2
  <2> QED BY <2>1, <2>2 DEF TrueDistance
<1>5. CASE x # y /\ ~InPermanent(x)
  <2>1. InVolatile(x) /\ n >= Len(pile)
    BY <1>1, <1>5, SettledAbove
  <2>2. CASE dist <= 0
    <3>1. IsAncestor(x, y) = None
      BY <1>1, <1>2, <1>5, <2>1, <2>2 DEF IsAncestor
    <3>2. x \notin Ancestry[y]
      BY <1>1, <1>5, <2>2, AncestryShorter
    <3> QED BY <3>1, <3>2 DEF TrueDistance
  <2>3. CASE dist > 0
    <3>1. IsAncestor(x, y) =
            IF Parent[y] = x THEN Ok(1)
            ELSE IF Sole(n) \/ x \in VolatileWalk(y) THEN Ok(dist) ELSE None
      BY <1>1, <1>2, <1>5, <2>1, <2>3 DEF IsAncestor
    <3>2. CASE Parent[y] = x
      <4>1. x \in Ancestry[y]
        BY <1>2, <3>2, AncestryClosed DEF Closed
      <4>2. dist = 1
        BY <1>1, <1>2, <3>2, TreeLengths
      <4> QED BY <3>1, <3>2, <4>1, <4>2 DEF TrueDistance
    <3>3. CASE Parent[y] # x
      <4>1. PICK z \in Ancestry[y] : /\ ChainLength[z] = n /\ z \in IndexedAt(n)
                                     /\ Sole(n) => IndexedAt(n) = {z}
        <5>1. n <= ChainLength[y]
          BY <1>1, <2>3
        <5> QED BY <1>1, <2>1, <5>1, SoleAncestor
      <4>2. x \in IndexedAt(n)
        BY <1>1, <2>1, IndexedAbove
      <4>3. Sole(n) => x \in Ancestry[y]
        BY <4>1, <4>2
      <4>4. x \in VolatileWalk(y) <=> x \in Ancestry[y]
        BY <2>1, WalkIsTrue
      <4> QED BY <3>1, <3>3, <4>3, <4>4 DEF TrueDistance
    <3> QED BY <3>2, <3>3
  <2> QED BY <1>1, <2>2, <2>3
<1> QED BY <1>3, <1>4, <1>5

\* get_nth_ancestor: the one ancestor of the length.
LEMMA NthAncestorIsTrue ==
    ASSUME QuietStore, NEW x \in Blocks, Settled(x), NEW k \in 0..ChainLength[x]
    PROVE  \E z \in Ancestry[x] : /\ ChainLength[z] = ChainLength[x] - k
                                  /\ GetNthAncestor(x, k) = Ok(z)
<1>1. /\ InfoLength(x) = ChainLength[x] /\ ChainLength[x] \in Nat
      /\ Len(pile) \in Nat /\ Len(pileIds) = Len(pile) /\ Stored(x)
  BY InfoIsTrue DEF QuietStore, Settled
<1>2. PICK target \in Nat : target = ChainLength[x] - k
  BY <1>1
<1>3. PICK z \in Ancestry[x] : ChainLength[z] = target
  <2>1. target <= ChainLength[x]
    BY <1>1, <1>2
  <2> QED BY <2>1, AncestryPath
<1>4. CASE target < Len(pile)
  <2>1. GetNthAncestor(x, k) = Ok(pileIds[target + 1])
    BY <1>1, <1>2, <1>4 DEF GetNthAncestor
  <2>2. pileIds[target + 1] = z
    BY <1>3, <1>4, SettledPath
  <2> QED BY <1>2, <1>3, <2>1, <2>2
<1>5. CASE target >= Len(pile) /\ Sole(target)
  <2>1. GetNthAncestor(x, k) = Ok(CHOOSE w \in IndexedAt(target) : TRUE)
    BY <1>1, <1>2, <1>5 DEF GetNthAncestor
  <2>2. PICK w \in Ancestry[x] : ChainLength[w] = target /\ IndexedAt(target) = {w}
    <3>1. target <= ChainLength[x]
      BY <1>1, <1>2
    <3> QED BY <1>5, <3>1, SoleAncestor
  <2>3. GetNthAncestor(x, k) = Ok(w)
    BY <2>1, <2>2
  <2> QED BY <1>2, <2>2, <2>3
<1>6. CASE target >= Len(pile) /\ ~Sole(target)
  <2>1. z \in VolatileWalk(x)
    BY <1>3, <1>6, WalkIsTrue
  <2>2. PICK found : found = {v \in VolatileWalk(x) : ChainLength[v] = target}
    OBVIOUS
  <2>3. PICK w : w = CHOOSE v \in found : TRUE
    OBVIOUS
  <2>4. found # {} /\ w \in VolatileWalk(x) /\ ChainLength[w] = target
    BY <1>3, <2>1, <2>2, <2>3
  <2>5. w \in Ancestry[x]
    BY <2>4, WalkIsTrue
  <2>6. GetNthAncestor(x, k) = Ok(w)
    BY <1>1, <1>2, <1>6, <2>2, <2>3, <2>4 DEF GetNthAncestor
  <2> QED BY <1>2, <2>4, <2>5, <2>6
<1> QED BY <1>1, <1>4, <1>5, <1>6

\* get_blocks_by_chain_length.
LEMMA ByChainLengthIsTrue ==
    ASSUME QuietStore, NEW x \in Blocks, Settled(x)
    PROVE  LET q == GetBlocksByChainLength(ChainLength[x]) IN q[1] = "Ok" /\ x \in q[2]
<1>1. x \in Ancestry[x] /\ ChainLength[x] \in Nat /\ Len(pile) \in Nat
  BY AncestryClosed, TreeLengths DEF QuietStore
<1>2. CASE ChainLength[x] < Len(pile)
  <2>1. PermanentAt(ChainLength[x]) = {x}
    BY <1>1, <1>2, SettledPath DEF PermanentAt
  <2>2. GetBlocksByChainLength(ChainLength[x]) = Ok({x})
    BY <2>1 DEF GetBlocksByChainLength
  <2> QED BY <2>2 DEF Ok
<1>3. CASE ChainLength[x] >= Len(pile)
  <2>1. PermanentAt(ChainLength[x]) = {}
    BY <1>1, <1>3 DEF PermanentAt
  <2>2. IndexedAt(ChainLength[x]) \subseteq blocks
    BY <1>1, <1>3, IndexedAbove
  <2>3. x \in IndexedAt(ChainLength[x])
    <3>1. InVolatile(x)
      BY <1>1, <1>3, SettledPath
    <3> QED BY <1>1, <1>3, <3>1, IndexedAbove
  <2>4. GetBlocksByChainLength(ChainLength[x]) = Ok(IndexedAt(ChainLength[x]))
    BY <2>1, <2>2 DEF GetBlocksByChainLength
  <2> QED BY <2>3, <2>4 DEF Ok
<1> QED BY <1>1, <1>2, <1>3

\* The pairs a climb from b1 and b2 of length n goes through, by the rounds left.
IsClimb(g, b1, b2, n) ==
    g = [k \in 0..n |-> IF k = n THEN <<b1, b2>>
                        ELSE IF g[k + 1][1] = g[k + 1][2] THEN g[k + 1]
                             ELSE <<InfoParent(g[k + 1][1]), InfoParent(g[k + 1][2])>>]

\* There is one.
LEMMA ClimbExists ==
    ASSUME NEW b1, NEW b2, NEW n \in Nat
    PROVE  \E g : IsClimb(g, b1, b2, n)
<1>1. PICK seq : seq = [i \in 1..n |-> i]
  OBVIOUS
<1>2. Len(seq) = n /\ Len(seq) \in Nat
  BY <1>1
<1>3. PICK f : U!IsLoopOn(f, <<b1, b2>>, seq, 0, 1..n)
  BY <1>2, U!LoopExists
<1>4. PICK g : g = [k \in 0..n |-> f[n - k]]
  OBVIOUS
<1>5. f[0] = <<b1, b2>> /\ \A i \in 1..n : f[i] = ClimbRound(f[i - 1], seq[i], 0)
  BY <1>2, <1>3 DEF U!IsLoopOn
<1>6. ASSUME NEW k \in 0..n
      PROVE  g[k] = IF k = n THEN <<b1, b2>>
                    ELSE IF g[k + 1][1] = g[k + 1][2] THEN g[k + 1]
                         ELSE <<InfoParent(g[k + 1][1]), InfoParent(g[k + 1][2])>>
  <2>1. CASE k = n
    BY <1>4, <1>5, <2>1
  <2>2. CASE k # n
    <3>1. n - k \in 1..n /\ k + 1 \in 0..n /\ (n - k) - 1 = n - (k + 1)
      BY <2>2
    <3>2. g[k] = f[n - k] /\ g[k + 1] = f[n - (k + 1)]
      BY <1>4, <3>1
    <3>3. f[n - k] = ClimbRound(f[n - (k + 1)], seq[n - k], 0)
      BY <1>5, <3>1
    <3> QED BY <2>2, <3>2, <3>3 DEF ClimbRound
  <2> QED BY <2>1, <2>2
<1>7. DOMAIN g = 0..n /\ g = [k \in 0..n |-> g[k]]
  BY <1>4
<1>8. IsClimb(g, b1, b2, n)
  BY <1>6, <1>7 DEF IsClimb
<1> QED BY <1>8

\* So the climb is the one by which Meet is defined.
LEMMA MeetClimbs ==
    ASSUME NEW b1, NEW b2, NEW n \in Nat, InfoLength(b1) = n
    PROVE  \E g : IsClimb(g, b1, b2, n) /\ Meet(b1, b2) = g[0]
<1>1. PICK g : g = CHOOSE h : IsClimb(h, b1, b2, n)
  OBVIOUS
<1>2. IsClimb(g, b1, b2, n)
  BY <1>1, ClimbExists
<1>3. Meet(b1, b2) = g[0]
  BY <1>1 DEF Meet, IsClimb
<1> QED BY <1>2, <1>3

\* A pair q of ancestors of x and y of one length, above which the two have nothing
\* in common.
Climbed(q, x, y, k) ==
    /\ q = <<q[1], q[2]>> /\ q[1] \in Ancestry[x] /\ q[2] \in Ancestry[y]
    /\ ChainLength[q[1]] = ChainLength[q[2]]
    /\ q[1] # q[2] => ChainLength[q[1]] = k
    /\ \A z \in Ancestry[x] \cap Ancestry[y] : ChainLength[z] <= ChainLength[q[1]]

\* A round of the climb.
LEMMA ClimbStep ==
    ASSUME QuietStore, NEW x \in Blocks, NEW y \in Blocks, NEW k \in Nat, NEW q,
           Climbed(q, x, y, k + 1), q[1] # q[2]
    PROVE  Climbed(<<InfoParent(q[1]), InfoParent(q[2])>>, x, y, k)
<1>1. PICK a, b : a = q[1] /\ b = q[2]
  OBVIOUS
<1>2. /\ a \in Ancestry[x] /\ b \in Ancestry[y] /\ a # b
      /\ ChainLength[a] = k + 1 /\ ChainLength[b] = k + 1
  BY <1>1 DEF Climbed
<1>3. a \in Blocks /\ b \in Blocks
  BY <1>2, AncestryShorter
<1>4. Parent[a] # Root /\ Parent[b] # Root
  BY <1>2, <1>3, TreeLengths
<1>5. /\ Parent[a] \in Ancestry[x] /\ Parent[b] \in Ancestry[y]
      /\ ChainLength[Parent[a]] = k /\ ChainLength[Parent[b]] = k
  <2>1. Parent[a] \in Ancestry[x] /\ Parent[b] \in Ancestry[y]
    BY <1>2, <1>4, AncestryClosed DEF Closed
  <2>2. /\ Parent[a] \in Blocks /\ ChainLength[a] = ChainLength[Parent[a]] + 1
        /\ Parent[b] \in Blocks /\ ChainLength[b] = ChainLength[Parent[b]] + 1
    BY <1>3, <1>4, TreeLengths
  <2>3. ChainLength[Parent[a]] \in Nat /\ ChainLength[Parent[b]] \in Nat
    BY <2>2, TreeLengths
  <2> QED BY <1>2, <2>1, <2>2, <2>3
<1>6. InfoParent(a) = Parent[a] /\ InfoParent(b) = Parent[b]
  BY <1>3, InfoIsTrue
<1>7. ASSUME NEW z \in Ancestry[x] \cap Ancestry[y] PROVE ChainLength[z] <= k
  <2>1. ChainLength[z] <= k + 1
    BY <1>1, <1>2 DEF Climbed
  <2>2. ChainLength[z] \in Nat
    BY AncestryShorter
  <2>3. ChainLength[z] # k + 1
    <3> SUFFICES ASSUME ChainLength[z] = k + 1 PROVE FALSE
      OBVIOUS
    <3>1. k + 1 <= ChainLength[x] /\ k + 1 <= ChainLength[y] /\ k + 1 \in Nat
      BY <1>2, AncestryShorter
    <3>2. z = a
      BY <1>2, <3>1, AncestryPath
    <3>3. z = b
      BY <1>2, <3>1, AncestryPath
    <3> QED BY <1>2, <3>2, <3>3
  <2> QED BY <2>1, <2>2, <2>3
<1> QED BY <1>1, <1>5, <1>6, <1>7 DEF Climbed

\* The climb ends at the highest common block or at two genesis blocks.
LEMMA MeetIsTrue ==
    ASSUME QuietStore, NEW x \in Blocks, NEW y \in Blocks, NEW b1 \in Blocks, NEW b2,
           NEW n \in Nat, ChainLength[b1] = n, Climbed(<<b1, b2>>, x, y, n)
    PROVE  Climbed(Meet(b1, b2), x, y, 0)
<1>1. InfoLength(b1) = n
  BY InfoIsTrue
<1>2. PICK g : IsClimb(g, b1, b2, n) /\ Meet(b1, b2) = g[0]
  BY <1>1, MeetClimbs
<1> DEFINE T == {j \in Nat : j <= n => Climbed(g[n - j], x, y, n - j)}
<1>3. 0 \in T
  <2>1. g[n] = <<b1, b2>>
    BY <1>2 DEF IsClimb
  <2> QED BY <2>1
<1>4. ASSUME NEW j \in Nat, j \in T PROVE j + 1 \in T
  <2> SUFFICES ASSUME j + 1 <= n PROVE Climbed(g[n - (j + 1)], x, y, n - (j + 1))
    OBVIOUS
  <2>1. PICK k \in Nat : k = n - (j + 1)
    OBVIOUS
  <2>2. k + 1 = n - j /\ k \in 0..n /\ k # n
    BY <2>1
  <2>3. Climbed(g[k + 1], x, y, k + 1)
    BY <1>4, <2>2
  <2>4. g[k] = IF g[k + 1][1] = g[k + 1][2] THEN g[k + 1]
               ELSE <<InfoParent(g[k + 1][1]), InfoParent(g[k + 1][2])>>
    BY <1>2, <2>2 DEF IsClimb
  <2>5. CASE g[k + 1][1] = g[k + 1][2]
    <3>1. Climbed(g[k + 1], x, y, k)
      BY <2>3, <2>5 DEF Climbed
    <3> QED BY <2>1, <2>4, <2>5, <3>1
  <2>6. CASE g[k + 1][1] # g[k + 1][2]
    <3>1. PICK q : q = g[k + 1]
      OBVIOUS
    <3>2. Climbed(<<InfoParent(q[1]), InfoParent(q[2])>>, x, y, k)
      BY <2>3, <2>6, <3>1, ClimbStep
    <3> QED BY <2>1, <2>4, <2>6, <3>1, <3>2
  <2> QED BY <2>5, <2>6
<1> HIDE DEF T
<1>5. Nat \subseteq T
  BY <1>3, <1>4, U!NaturalInduction
<1>6. n \in T
  BY <1>5
<1>7. n <= n /\ n - n = 0
  OBVIOUS
<1>8. Climbed(g[0], x, y, 0)
  BY <1>6, <1>7 DEF T
<1> QED BY <1>2, <1>8

\* What find_lowest_common_ancestor promises of x and y.
IsLowest(q, x, y) ==
    IF Ancestry[x] \cap Ancestry[y] = {} THEN q = None
    ELSE /\ q[1] = "Ok"
         /\ q[2] \in Ancestry[x] \cap Ancestry[y]
         /\ \A z \in Ancestry[x] \cap Ancestry[y] : ChainLength[z] <= ChainLength[q[2]]

\* Of two blocks of one branch it is the lower.
LEMMA LowestOfBranch ==
    ASSUME NEW x \in Blocks, NEW y \in Blocks, x \in Ancestry[y]
    PROVE  IsLowest(Ok(x), x, y) /\ IsLowest(Ok(x), y, x)
<1>1. x \in Ancestry[x] \cap Ancestry[y]
  BY AncestryClosed
<1>2. \A z \in Ancestry[x] : ChainLength[z] <= ChainLength[x]
  BY AncestryShorter
<1>3. Ok(x)[1] = "Ok" /\ Ok(x)[2] = x
  BY DEF Ok
<1> QED BY <1>1, <1>2, <1>3 DEF IsLowest

\* The search in the volatile store, from the lower of the two blocks.
LEMMA LowestByClimb ==
    ASSUME QuietStore, NEW low \in Blocks, NEW high \in Blocks, Settled(high),
           ChainLength[low] <= ChainLength[high]
    PROVE  LET nth == GetNthAncestor(high, ChainLength[high] - ChainLength[low])
               top == Meet(low, nth[2])
           IN  /\ nth[1] = "Ok"
               /\ IsLowest(IF top[1] = top[2] THEN Ok(top[1]) ELSE None, low, high)
<1>1. PICK n \in Nat : n = ChainLength[low]
  BY TreeLengths
<1>2. ChainLength[high] \in Nat /\ ChainLength[high] - n \in 0..ChainLength[high]
      /\ ChainLength[high] - (ChainLength[high] - n) = n
  BY <1>1, TreeLengths
<1>3. PICK z \in Ancestry[high] : ChainLength[z] = n
                                  /\ GetNthAncestor(high, ChainLength[high] - n) = Ok(z)
  BY <1>2, NthAncestorIsTrue
<1>4. PICK top : top = Meet(low, z)
  OBVIOUS
<1>5. Climbed(<<low, z>>, low, high, n)
  <2>1. low \in Ancestry[low]
    BY AncestryClosed
  <2>2. \A w \in Ancestry[low] : ChainLength[w] <= ChainLength[low]
    BY AncestryShorter
  <2> QED BY <1>1, <1>3, <2>1, <2>2 DEF Climbed
<1>6. Climbed(top, low, high, 0)
  BY <1>1, <1>4, <1>5, MeetIsTrue
<1>7. CASE top[1] = top[2]
  <2>1. top[1] \in Ancestry[low] \cap Ancestry[high]
        /\ \A w \in Ancestry[low] \cap Ancestry[high] : ChainLength[w] <= ChainLength[top[1]]
    BY <1>6, <1>7 DEF Climbed
  <2>2. Ok(top[1])[1] = "Ok" /\ Ok(top[1])[2] = top[1]
    BY DEF Ok
  <2>3. IsLowest(Ok(top[1]), low, high)
    BY <2>1, <2>2 DEF IsLowest
  <2> QED BY <1>1, <1>3, <1>4, <1>7, <2>3 DEF Ok
<1>8. CASE top[1] # top[2]
  <2>1. /\ top[1] \in Ancestry[low] /\ top[2] \in Ancestry[high]
        /\ ChainLength[top[1]] = 0 /\ ChainLength[top[2]] = 0
        /\ \A w \in Ancestry[low] \cap Ancestry[high] : ChainLength[w] <= 0
    BY <1>6, <1>8 DEF Climbed
  <2>2. ASSUME NEW w \in Ancestry[low] \cap Ancestry[high] PROVE FALSE
    <3>1. ChainLength[w] \in Nat /\ ChainLength[w] <= 0
      BY <2>1, AncestryShorter
    <3>2. ChainLength[w] = 0 /\ 0 \in Nat /\ 0 <= ChainLength[low] /\ 0 <= ChainLength[high]
      BY <3>1, TreeLengths
    <3>3. w = top[1]
      BY <2>1, <3>2, AncestryPath
    <3>4. w = top[2]
      BY <2>1, <3>2, AncestryPath
    <3> QED BY <1>8, <3>3, <3>4
  <2>3. IsLowest(None, low, high)
    BY <2>2 DEF IsLowest
  <2> QED BY <1>1, <1>3, <1>4, <1>8, <2>3 DEF Ok
<1> QED BY <1>7, <1>8

\* find_lowest_common_ancestor.
LEMMA LowestCommonAncestorIsTrue ==
    ASSUME QuietStore, NEW x \in Blocks, NEW y \in Blocks, Settled(x), Settled(y)
    PROVE  IsLowest(FindLowestCommonAncestor(x, y), x, y)
<1>1. Stored(x) /\ Stored(y) /\ ChainLength[x] \in Nat /\ ChainLength[y] \in Nat
  BY TreeLengths DEF Settled
<1>2. CASE InPermanent(x) /\ InPermanent(y)
  <2>1. permIndex[x] = ChainLength[x] /\ permIndex[y] = ChainLength[y]
    BY <1>2, PermanentPlace
  <2>2. FindLowestCommonAncestor(x, y) = Ok(IF ChainLength[x] < ChainLength[y] THEN x ELSE y)
    BY <1>2, <2>1 DEF FindLowestCommonAncestor
  <2>3. x \in Ancestry[y] \/ y \in Ancestry[x]
    BY <1>2 DEF Settled, InPermanent
  <2>4. CASE ChainLength[x] < ChainLength[y]
    <3>1. x \in Ancestry[y]
      BY <1>1, <2>3, <2>4, AncestryShorter
    <3> QED BY <2>2, <2>4, <3>1, LowestOfBranch
  <2>5. CASE ~(ChainLength[x] < ChainLength[y])
    <3>1. x \in Ancestry[y] => x = y
      BY <1>1, <2>5, AncestryShorter
    <3>2. y \in Ancestry[x]
      BY <2>3, <3>1
    <3> QED BY <2>2, <2>5, <3>2, LowestOfBranch
  <2> QED BY <2>4, <2>5
<1>3. CASE InPermanent(x) /\ ~InPermanent(y)
  <2>1. x \in Ancestry[y]
    BY <1>3, SettledAbove DEF InPermanent
  <2>2. FindLowestCommonAncestor(x, y) = Ok(x)
    BY <1>1, <1>3 DEF FindLowestCommonAncestor
  <2> QED BY <2>1, <2>2, LowestOfBranch
<1>4. CASE ~InPermanent(x) /\ InPermanent(y)
  <2>1. y \in Ancestry[x]
    BY <1>4, SettledAbove DEF InPermanent
  <2>2. FindLowestCommonAncestor(x, y) = Ok(y)
    BY <1>1, <1>4 DEF FindLowestCommonAncestor
  <2> QED BY <2>1, <2>2, LowestOfBranch
<1>5. CASE ~InPermanent(x) /\ ~InPermanent(y)
  <2>1. PICK low \in Blocks : low = IF ChainLength[x] > ChainLength[y] THEN y ELSE x
    OBVIOUS
  <2>2. PICK high \in Blocks : high = IF low = x THEN y ELSE x
    OBVIOUS
  <2>3. PICK nth : nth = GetNthAncestor(high, ChainLength[high] - ChainLength[low])
    OBVIOUS
  <2>4. PICK top : top = Meet(low, nth[2])
    OBVIOUS
  <2>5. /\ (low = x /\ high = y) \/ (low = y /\ high = x)
        /\ ChainLength[low] <= ChainLength[high] /\ Settled(high)
    BY <1>1, <2>1, <2>2
  <2>6. nth[1] = "Ok" /\ IsLowest(IF top[1] = top[2] THEN Ok(top[1]) ELSE None, low, high)
    BY <2>3, <2>4, <2>5, LowestByClimb
  <2>7. FindLowestCommonAncestor(x, y) = IF top[1] = top[2] THEN Ok(top[1]) ELSE None
    BY <1>1, <1>5, <2>1, <2>2, <2>3, <2>4, <2>6 DEF FindLowestCommonAncestor
  <2>8. IsLowest(FindLowestCommonAncestor(x, y), low, high)
    BY <2>6, <2>7
  <2> QED BY <2>5, <2>8 DEF IsLowest
<1> QED BY <1>2, <1>3, <1>4, <1>5

\* At distance 0 the iterator is past its stop and runs over the rest of the piles.
LEMMA IterateFromBeyond ==
    ASSUME QuietStore, NEW x \in Blocks, Settled(x)
    PROVE  Iterate(x, 0) = Ok({pile[i] : i \in (ChainLength[x] + 2)..Len(pile)})
<1>1. Stored(x) /\ ChainLength[x] \in Nat /\ Len(pile) \in Nat
  BY TreeLengths DEF Settled, QuietStore
<1>2. PICK n \in Nat : n = ChainLength[x]
  BY <1>1
<1>3. PICK m \in Nat : m = Len(pile)
  BY <1>1
<1>4. (IF InVolatile(x) THEN ChainLength[x] ELSE permIndex[x]) = n
  <2>1. ~InVolatile(x) => InPermanent(x)
    BY <1>1 DEF Stored
  <2> QED BY <1>2, <2>1, PermanentPlace
<1>5. PICK above : above = {pile[i] : i \in (n + 2)..m}
  OBVIOUS
<1>6. {pile[i + 1] : i \in {j \in (n + 1)..(m - 1) : j < m}} = above
  <2>1. \A i \in {j \in (n + 1)..(m - 1) : j < m} : i + 1 \in (n + 2)..m
    OBVIOUS
  <2>2. \A i \in (n + 2)..m : i - 1 \in {j \in (n + 1)..(m - 1) : j < m} /\ (i - 1) + 1 = i
    OBVIOUS
  <2> QED BY <1>5, <2>1, <2>2
<1>7. PICK rest : rest = GatherBlocksIds(x, IF n + 1 < m THEN m ELSE n + 1)
  OBVIOUS
<1>8. ~(n + 1 <= n) /\ n + 1 - 0 = n + 1 /\ ~(n + 1 < 0)
  OBVIOUS
<1>9. Iterate(x, 0) = IF n + 1 >= m THEN rest
                      ELSE IF rest[1] = "Err" THEN rest ELSE Ok(above \cup rest[2])
  BY <1>1, <1>3, <1>4, <1>6, <1>7, <1>8 DEF Iterate
<1>10. x \in Ancestry[x]
  BY AncestryClosed
<1>11. rest = Ok({})
  <2>1. CASE ~InVolatile(x)
    BY <1>7, <2>1 DEF GatherBlocksIds
  <2>2. CASE InVolatile(x)
    <3>1. m <= n
      BY <1>1, <1>2, <1>3, <1>10, <2>2, SettledPath
    <3>2. PICK s \in Nat : s = n + 1 /\ rest = GatherBlocksIds(x, s)
      BY <1>7, <3>1
    <3>3. {y \in Ancestry[x] : ChainLength[y] >= s} = {}
      BY <1>1, <1>2, <3>2, AncestryShorter
    <3> QED BY <2>2, <3>2, <3>3 DEF GatherBlocksIds
  <2> QED BY <2>1, <2>2
<1>12. n + 1 >= m => above = {}
  BY <1>5
<1>13. Ok({})[1] = "Ok" /\ Ok({})[2] = {} /\ above \cup {} = above
  BY DEF Ok
<1>14. Iterate(x, 0) = Ok(above)
  BY <1>9, <1>11, <1>12, <1>13
<1> QED BY <1>2, <1>3, <1>5, <1>14

\* At a distance the iterator yields the branch, the last block under the condition.
LEMMA IterateIsTrue ==
    ASSUME QuietStore, NEW x \in Blocks, Settled(x), NEW k \in 1..(ChainLength[x] + 1)
    PROVE  Iterate(x, k) = Ok(IF EndsInPile(x, k) THEN Stretch(x, k) \ {x} ELSE Stretch(x, k))
<1>1. Stored(x) /\ ChainLength[x] \in Nat /\ Len(pile) \in Nat /\ k \in Nat
  BY TreeLengths DEF Settled, QuietStore
<1>2. PICK from \in Nat : from = ChainLength[x] + 1 - k
  BY <1>1
<1>3. from <= ChainLength[x] /\ ~(ChainLength[x] + 1 < k)
  BY <1>1, <1>2
<1>4. (IF InVolatile(x) THEN ChainLength[x] ELSE permIndex[x]) = ChainLength[x]
  <2>1. ~InVolatile(x) => InPermanent(x)
    BY <1>1 DEF Stored
  <2> QED BY <2>1, PermanentPlace
<1>5. PICK want : want = {y \in Ancestry[x] : ChainLength[y] >= from}
  OBVIOUS
<1>6. want = Stretch(x, k)
  <2>1. \A y \in Ancestry[x] : ChainLength[y] \in Nat
    BY AncestryShorter
  <2>2. \A y \in Ancestry[x] : ChainLength[y] >= from <=> ChainLength[y] > ChainLength[x] - k
    BY <1>1, <1>2, <2>1
  <2> QED BY <1>5, <2>2 DEF Stretch
<1>7. PICK piled : piled = {pile[i + 1] : i \in {j \in from..(ChainLength[x] - 1) : j < Len(pile)}}
  OBVIOUS
<1>8. \A y : y \in piled <=> y \in want /\ y # x /\ ChainLength[y] < Len(pile)
  <2>1. ASSUME NEW y \in piled PROVE y \in want /\ y # x /\ ChainLength[y] < Len(pile)
    <3>1. PICK i \in from..(ChainLength[x] - 1) : i < Len(pile) /\ y = pile[i + 1]
      BY <1>7
    <3>2. i \in Nat /\ i <= ChainLength[x] /\ i >= from /\ i < ChainLength[x]
      BY <1>1, <3>1
    <3>3. PICK z \in Ancestry[x] : ChainLength[z] = i
      BY <3>2, AncestryPath
    <3>4. pile[ChainLength[z] + 1] = z
      BY <3>1, <3>3, SettledPath
    <3>5. y = z
      BY <3>1, <3>3, <3>4
    <3> QED BY <1>1, <1>5, <3>1, <3>2, <3>3, <3>5
  <2>2. ASSUME NEW y \in want, y # x, ChainLength[y] < Len(pile) PROVE y \in piled
    <3>1. /\ ChainLength[y] \in Nat /\ ChainLength[y] >= from /\ ChainLength[y] < ChainLength[x]
          /\ y \in Ancestry[x]
      BY <1>5, <2>2, AncestryShorter
    <3>2. pile[ChainLength[y] + 1] = y
      BY <2>2, <3>1, SettledPath
    <3>3. ChainLength[y] \in from..(ChainLength[x] - 1)
      BY <1>1, <3>1
    <3> QED BY <1>7, <2>2, <3>2, <3>3
  <2> QED BY <2>1, <2>2
<1>9. x \in Ancestry[x]
  BY AncestryClosed
<1>10. PICK stop \in Nat : stop = IF from < Len(pile) THEN Len(pile) ELSE from
  BY <1>1
<1>11. PICK rest : rest = GatherBlocksIds(x, stop)
  OBVIOUS
<1>12. Iterate(x, k) =
         IF from >= Len(pile) THEN rest
         ELSE IF ChainLength[x] <= Len(pile) THEN Ok(piled)
         ELSE IF rest[1] = "Err" THEN rest
         ELSE Ok(piled \cup rest[2])
  BY <1>1, <1>2, <1>3, <1>4, <1>7, <1>10, <1>11 DEF Iterate
<1>13. ASSUME ChainLength[x] >= Len(pile)
       PROVE  rest = Ok({y \in Ancestry[x] : ChainLength[y] >= stop})
  <2>1. InVolatile(x)
    BY <1>9, <1>13, SettledPath
  <2>2. \A y \in Ancestry[x] : ChainLength[y] >= stop => InVolatile(y)
    <3>1. \A y \in Ancestry[x] : ChainLength[y] >= Len(pile) => InVolatile(y)
      BY SettledPath
    <3>2. \A y \in Ancestry[x] : ChainLength[y] \in Nat
      BY AncestryShorter
    <3>3. stop >= Len(pile)
      BY <1>1, <1>10
    <3> QED BY <1>1, <3>1, <3>2, <3>3
  <2> QED BY <1>11, <2>1, <2>2 DEF GatherBlocksIds
<1>14. \A s : Ok(s)[1] = "Ok" /\ Ok(s)[2] = s
  BY DEF Ok
<1>15. \A y \in Ancestry[x] : ChainLength[y] \in Nat /\ ChainLength[y] <= ChainLength[x]
         /\ (y # x => ChainLength[y] < ChainLength[x])
  BY AncestryShorter
<1>19. EndsInPile(x, k) <=> from < Len(pile) /\ ChainLength[x] <= Len(pile)
  BY <1>2 DEF EndsInPile
<1>16. CASE from >= Len(pile)
  <2>1. stop = from /\ ChainLength[x] >= Len(pile)
    BY <1>1, <1>3, <1>10, <1>16
  <2>2. rest = Ok(want)
    BY <1>5, <1>13, <2>1
  <2>3. Iterate(x, k) = Ok(want)
    BY <1>12, <1>16, <2>2
  <2>4. ~EndsInPile(x, k)
    BY <1>1, <1>16, <1>19
  <2> QED BY <1>6, <2>3, <2>4
<1>17. CASE from < Len(pile) /\ ChainLength[x] <= Len(pile)
  <2>1. Iterate(x, k) = Ok(piled)
    BY <1>1, <1>12, <1>17
  <2>2. ASSUME NEW y \in want, y # x PROVE y \in piled
    <3>1. ChainLength[y] < Len(pile)
      BY <1>1, <1>5, <1>15, <1>17, <2>2
    <3> QED BY <1>8, <2>2, <3>1
  <2>3. piled \subseteq want \ {x}
    BY <1>8
  <2>4. piled = want \ {x}
    BY <2>2, <2>3
  <2> QED BY <1>6, <1>17, <1>19, <2>1, <2>4
<1>18. CASE from < Len(pile) /\ ChainLength[x] > Len(pile)
  <2>1. PICK above : above = {y \in Ancestry[x] : ChainLength[y] >= Len(pile)}
    OBVIOUS
  <2>2. rest = Ok(above)
    <3>1. stop = Len(pile) /\ ChainLength[x] >= Len(pile)
      BY <1>1, <1>10, <1>18
    <3> QED BY <1>13, <2>1, <3>1
  <2>3. Iterate(x, k) = Ok(piled \cup above)
    <3>1. rest[1] = "Ok" /\ rest[2] = above
      BY <1>14, <2>2
    <3>2. ~(from >= Len(pile)) /\ ~(ChainLength[x] <= Len(pile))
      BY <1>1, <1>18
    <3> QED BY <1>12, <3>1, <3>2
  <2>4. ASSUME NEW y \in want PROVE y \in piled \cup above
    <3>1. y \in Ancestry[x] /\ ChainLength[y] \in Nat
      BY <1>5, <1>15
    <3>2. ChainLength[y] < Len(pile) \/ ChainLength[y] >= Len(pile)
      BY <1>1, <3>1
    <3>3. ChainLength[y] < Len(pile) => y # x
      BY <1>1, <1>18
    <3> QED BY <1>8, <2>1, <2>4, <3>1, <3>2, <3>3
  <2>5. above \subseteq want
    BY <1>1, <1>5, <1>15, <1>18, <2>1
  <2>6. piled \subseteq want
    BY <1>8
  <2>7. piled \cup above = want
    BY <2>4, <2>5, <2>6
  <2>8. ~EndsInPile(x, k)
    BY <1>1, <1>18, <1>19
  <2> QED BY <1>6, <2>3, <2>7, <2>8
<1> QED BY <1>1, <1>16, <1>17, <1>18

\* Every query answers from the tree in a quiet store.
LEMMA QuietQueries ==
    ASSUME Quiet => QuietStore
    PROVE  QueriesCorrect
<1>1. IsAncestorCorrect
  BY IsAncestorIsTrue DEF IsAncestorCorrect
<1>2. NthAncestorCorrect
  <2> SUFFICES ASSUME QuietStore, NEW x \in Blocks, Settled(x), NEW k \in 0..ChainLength[x]
               PROVE  LET q == GetNthAncestor(x, k)
                      IN  q[1] = "Ok" /\ TrueDistance(q[2], x) = Ok(k)
    BY DEF NthAncestorCorrect
  <2>1. PICK z \in Ancestry[x] : /\ ChainLength[z] = ChainLength[x] - k
                                 /\ GetNthAncestor(x, k) = Ok(z)
    BY NthAncestorIsTrue
  <2>2. ChainLength[x] \in Nat /\ ChainLength[x] - (ChainLength[x] - k) = k
    BY TreeLengths
  <2>3. TrueDistance(z, x) = Ok(k)
    BY <2>1, <2>2 DEF TrueDistance
  <2>4. Ok(z)[1] = "Ok" /\ Ok(z)[2] = z
    BY DEF Ok
  <2> QED BY <2>1, <2>3, <2>4
<1>3. LowestCommonAncestorCorrect
  BY LowestCommonAncestorIsTrue DEF LowestCommonAncestorCorrect, IsLowest
<1>4. ByChainLengthComplete
  BY ByChainLengthIsTrue DEF ByChainLengthComplete
<1>5. IterateExact
  BY IterateFromBeyond, IterateIsTrue DEF IterateExact
<1> QED BY <1>1, <1>2, <1>3, <1>4, <1>5 DEF QueriesCorrect

\* Between two calls of a single writer, never stopped, that settles on one branch, the
\* answers of is_ancestor, get_nth_ancestor, find_lowest_common_ancestor,
\* get_blocks_by_chain_length and the iterator are those of the tree of blocks, through
\* whichever of the piles, the chain length index and the volatile walk they are found;
\* the iterator leaves the last block out exactly when it ends in the piles.
THEOREM QueriesAnswerFromTheTree ==
    ASSUME OneWriter, CountersFit, NeverStopped, NEW S, SettledBranch(S)
    PROVE  Spec => []QueriesCorrect
<1>1. Init => AlignedInv(S)
  BY AlignedInit
<1>2. AlignedInv(S) /\ [Next]_vars => AlignedInv(S)'
  BY AlignedNext
<1>3. AlignedInv(S) => QueriesCorrect
  BY QuietRests, QuietQueries
<1> QED BY <1>1, <1>2, <1>3, PTL DEF Spec
=============================================================================
