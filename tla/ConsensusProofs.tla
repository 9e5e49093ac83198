-------------------------- MODULE ConsensusProofs --------------------------
(***************************************************************************)
(* Proofs about the chain: nodes on the same block have the same ledger,   *)
(* only the leader of a slot can make the block of it, the evolving key of *)
(* a pool signs for its period and the later ones and for no earlier one,  *)
(* and the block a leader makes is taken by every node it was made for.    *)
(***************************************************************************)
EXTENDS Consensus, FiniteSetTheorems, TLAPS

-----------------------------------------------------------------------------
(* A block decides the ledger behind it. *)

\* The ledgers the block of a header leads to: the header names its contents.
After(l, h) == apply_block(l, [header |-> h, contents |-> h.content_hash])

\* What a block makes of a ledger is decided by its header, which has the hash
\* of the contents.
LEMMA BlockIsHeader ==
    ASSUME NEW l, NEW block, NEW next \in apply_block(l, block)
    PROVE  next \in After(l, block.header)
BY DEF apply_block, After, ContentsMatch

\* A header makes at most one ledger of a ledger.
LEMMA AfterIsOne ==
    ASSUME NEW l, NEW h, NEW x \in After(l, h), NEW y \in After(l, h)
    PROVE  x = y
BY DEF After, apply_block, begin_block

\* H has the ledger behind each of its blocks, with all the blocks before it.
IsHistory(H) ==
    /\ Block0 \in DOMAIN H /\ H[Block0] = Block0Ledger
    /\ \A h \in DOMAIN H \ {Block0} : h.parent \in DOMAIN H /\ H[h] \in After(H[h.parent], h)

Follows(H) ==
    \A n \in Nodes \ restarted : tip[n] \in DOMAIN H /\ ledger[n] = H[tip[n]]

HistoryInv ==
    /\ DOMAIN tip = Nodes /\ DOMAIN ledger = Nodes
    /\ \E H : IsHistory(H) /\ Follows(H)

\* Nothing verifies as the first block.
LEMMA NotBlock0 ==
    ASSUME NEW data, NEW h, VerifyHeader(data, h)
    PROVE  h # Block0
<1>1. h.version \in {"bft", "praos"}
  BY DEF VerifyHeader, verify_version
<1>2. Block0.version = "unsigned"
  BY DEF Block0, HeaderCommon
<1> QED BY <1>1, <1>2

\* All nodes start from the same ledger.
LEMMA InitHistory == Init => HistoryInv
<1> SUFFICES ASSUME Init PROVE HistoryInv
  OBVIOUS
<1>1. PICK H : H = [h \in {Block0} |-> Block0Ledger]
  OBVIOUS
<1>2. IsHistory(H)
  BY <1>1 DEF IsHistory
<1>3. DOMAIN tip = Nodes /\ DOMAIN ledger = Nodes
      /\ \A n \in Nodes : tip[n] = Block0 /\ ledger[n] = Block0Ledger
  BY DEF Init
<1>4. Follows(H)
  BY <1>1, <1>3 DEF Follows
<1> QED BY <1>2, <1>3, <1>4 DEF HistoryInv

\* A block that is new goes to the end of the history.
LEMMA HistoryGrows ==
    ASSUME NEW H, IsHistory(H), NEW h, h \notin DOMAIN H, h.parent \in DOMAIN H,
           NEW l \in After(H[h.parent], h), NEW G,
           G = [x \in DOMAIN H \cup {h} |-> IF x = h THEN l ELSE H[x]]
    PROVE  IsHistory(G)
<1>1. DOMAIN G = DOMAIN H \cup {h} /\ G[h] = l /\ \A x \in DOMAIN H : G[x] = H[x]
  OBVIOUS
<1>2. Block0 \in DOMAIN G /\ G[Block0] = Block0Ledger
  BY <1>1 DEF IsHistory
<1>3. ASSUME NEW x \in DOMAIN G \ {Block0}
      PROVE  x.parent \in DOMAIN G /\ G[x] \in After(G[x.parent], x)
  <2>1. CASE x = h
    BY <1>1, <2>1
  <2>2. CASE x # h
    BY <1>1, <2>2 DEF IsHistory
  <2> QED BY <2>1, <2>2
<1> QED BY <1>2, <1>3 DEF IsHistory

\* G has all that H has.
Extends(G, H) == \A h \in DOMAIN H : h \in DOMAIN G /\ G[h] = H[h]

\* A node that takes a block gets the ledger every other node gets from it.
LEMMA ReceiveHistory ==
    ASSUME DOMAIN tip = Nodes, DOMAIN ledger = Nodes, NEW H, IsHistory(H), Follows(H),
           NEW n \in Nodes, NEW block, Receive(n, block)
    PROVE  /\ DOMAIN tip' = Nodes /\ DOMAIN ledger' = Nodes
           /\ \E G : IsHistory(G) /\ Follows(G)' /\ Extends(G, H)
<1>1. IsHistory(H) /\ Follows(H) /\ Extends(H, H)
  BY DEF Extends
<1>2. PICK h : h = block.header
  OBVIOUS
<1>3. h.parent = tip[n] /\ h # Block0
  BY <1>2, NotBlock0 DEF Receive
<1>4. PICK l \in apply_block(ledger[n], block) : ledger' = [ledger EXCEPT ![n] = l]
  BY DEF Receive
<1>5. tip' = [tip EXCEPT ![n] = h] /\ restarted' = restarted
  BY <1>2 DEF Receive
<1>6. DOMAIN tip' = Nodes /\ DOMAIN ledger' = Nodes /\ tip'[n] = h /\ ledger'[n] = l
      /\ \A m \in Nodes \ {n} : tip'[m] = tip[m] /\ ledger'[m] = ledger[m]
  BY <1>4, <1>5
<1>7. CASE n \in restarted
  <2>1. Follows(H)'
    BY <1>1, <1>5, <1>6, <1>7 DEF Follows
  <2> QED BY <1>1, <1>6, <2>1
<1>8. CASE n \notin restarted
  <2>1. h.parent \in DOMAIN H /\ ledger[n] = H[h.parent]
    BY <1>1, <1>3, <1>8 DEF Follows
  <2>2. l \in After(H[h.parent], h)
    BY <1>2, <1>4, <2>1, BlockIsHeader
  <2>3. CASE h \in DOMAIN H
    <3>1. H[h] \in After(H[h.parent], h)
      BY <1>1, <1>3, <2>3 DEF IsHistory
    <3>2. H[h] = l
      BY <2>2, <3>1, AfterIsOne
    <3>3. Follows(H)'
      BY <1>1, <1>5, <1>6, <2>3, <3>2 DEF Follows
    <3> QED BY <1>1, <1>6, <3>3
  <2>4. CASE h \notin DOMAIN H
    <3>1. PICK G : G = [x \in DOMAIN H \cup {h} |-> IF x = h THEN l ELSE H[x]]
      OBVIOUS
    <3>2. IsHistory(G)
      BY <1>1, <2>1, <2>2, <2>4, <3>1, HistoryGrows
    <3>3. DOMAIN G = DOMAIN H \cup {h} /\ G[h] = l /\ \A x \in DOMAIN H : G[x] = H[x]
      BY <2>4, <3>1
    <3>4. Follows(G)'
      BY <1>1, <1>5, <1>6, <3>3 DEF Follows
    <3>5. Extends(G, H)
      BY <3>3 DEF Extends
    <3> QED BY <1>6, <3>2, <3>4, <3>5
  <2> QED BY <2>3, <2>4
<1> QED BY <1>7, <1>8

\* A history grows with the chain: one step for each action.
LEMMA HistoryExtends ==
    ASSUME DOMAIN tip = Nodes, DOMAIN ledger = Nodes, NEW H, IsHistory(H), Follows(H), [Next]_vars
    PROVE  /\ DOMAIN tip' = Nodes /\ DOMAIN ledger' = Nodes
           /\ \E G : IsHistory(G) /\ Follows(G)' /\ Extends(G, H)
<1>0. Extends(H, H)
  BY DEF Extends
<1>same. ASSUME ledger' = ledger, tip' = tip, restarted' = restarted
         PROVE  DOMAIN tip' = Nodes /\ DOMAIN ledger' = Nodes /\ Follows(H)'
  BY <1>same DEF Follows
<1>1. CASE Tick
  BY <1>0, <1>1, <1>same DEF Tick
<1>2. CASE \E l \in Pools : Evolve(l)
  BY <1>0, <1>2, <1>same DEF Evolve
<1>3. CASE \E n \in Nodes, l \in Leaders, contents \in Changes : Forge(n, l, contents)
  BY <1>0, <1>3, <1>same DEF Forge
<1>4. CASE \E n \in Nodes : \E block \in sent \cup Doctored(n) : Receive(n, block)
  BY <1>4, ReceiveHistory
<1>5. CASE \E n \in Nodes : Restart(n)
  <2>0. PICK n \in Nodes : Restart(n)
    BY <1>5
  <2>1. PICK l : ledger' = [ledger EXCEPT ![n] = l]
    BY <2>0 DEF Restart
  <2>2. restarted' = restarted \cup {n} /\ tip' = tip
    BY <2>0 DEF Restart
  <2>3. DOMAIN ledger' = Nodes /\ \A m \in Nodes \ {n} : ledger'[m] = ledger[m]
    BY <2>1
  <2>4. Follows(H)'
    BY <2>2, <2>3 DEF Follows
  <2> QED BY <1>0, <2>2, <2>3, <2>4
<1>6. CASE UNCHANGED vars
  BY <1>0, <1>6, <1>same DEF vars
<1> QED BY <1>1, <1>2, <1>3, <1>4, <1>5, <1>6 DEF Next

\* HistoryInv is inductive.
LEMMA HistoryStep == HistoryInv /\ [Next]_vars => HistoryInv'
<1> SUFFICES ASSUME HistoryInv, [Next]_vars PROVE HistoryInv'
  OBVIOUS
<1>1. PICK H : IsHistory(H) /\ Follows(H)
  BY DEF HistoryInv
<1>2. /\ DOMAIN tip' = Nodes /\ DOMAIN ledger' = Nodes
      /\ \E G : IsHistory(G) /\ Follows(G)' /\ Extends(G, H)
  BY <1>1, HistoryExtends DEF HistoryInv
<1> QED BY <1>2 DEF HistoryInv

\* Nodes that stand on the same block and were not rebuilt have the same
\* ledger, and so agree on the leaders, the nonce and the stake of the slots to
\* come, for any blocks, doctored or not, and in whatever order they have
\* received them (Ledger::apply_block).
THEOREM OneLedgerPerBlock == Spec => []SameTipSameLedger
<1>1. HistoryInv => SameTipSameLedger
  BY DEF HistoryInv, Follows, SameTipSameLedger
<1>2. Spec => []HistoryInv
  BY InitHistory, HistoryStep, PTL DEF Spec
<1> QED BY <1>1, <1>2, PTL

-----------------------------------------------------------------------------
(* What the ledgers of the nodes say of the leaders. *)

LedgerFields == {"chain_length", "date", "era", "consensus", "leaders", "nonce", "pools",
                 "stake", "updates"}

IsParam(param) ==
    /\ param.kind \in {"add_leader", "remove_leader", "consensus"}
    /\ param.kind = "add_leader" => param.id \in Leaders

Params == {param \in UNION {ToSet(c) : c \in Changes} : IsParam(param)}

IsLed(l) ==
    /\ DOMAIN l = LedgerFields
    /\ l.leaders \in Seq(Leaders) /\ l.updates \in Seq(Params)
    /\ \A p \in DOMAIN l.pools : p \in Pools /\ l.pools[p] = PoolKeys(p)

KeepLeader(kept, l, id) == IF l = id THEN kept ELSE Append(kept, l)

K == INSTANCE FoldTheorems WITH Op <- KeepLeader

\* Removing a leader leaves a list of leaders.
LEMMA RetainedType ==
    ASSUME NEW leaders \in Seq(Leaders), NEW id
    PROVE  Retained(leaders, id) \in Seq(Leaders)
<1>1. Retained(leaders, id) = K!Fold(<<>>, leaders, id)
  BY DEF Retained, K!Fold, K!Greatest, KeepLeader, FoldLeft, MapThenFoldSet, Max
<1>2. PICK g : K!IsLoop(g, <<>>, leaders, id) /\ K!Fold(<<>>, leaders, id) = g[Len(leaders)]
  BY K!FoldIsLoop
<1>3. Len(leaders) \in Nat /\ \A i \in 1 .. Len(leaders) : leaders[i] \in Leaders
  OBVIOUS
<1> DEFINE S == {i \in Nat : i <= Len(leaders) => g[i] \in Seq(Leaders)}
<1>4. 0 \in S
  <2>1. g[0] = <<>> /\ <<>> \in Seq(Leaders)
    BY <1>2 DEF K!IsLoop
  <2> QED BY <2>1
<1>5. ASSUME NEW i \in Nat, 0 <= i, i < Len(leaders), i \in S PROVE i + 1 \in S
  <2>1. i + 1 \in 1 .. Len(leaders) /\ i + 1 - 1 = i
    BY <1>3, <1>5
  <2>2. g[i + 1] = KeepLeader(g[i], leaders[i + 1], id)
    BY <1>2, <2>1 DEF K!IsLoop
  <2>3. g[i] \in Seq(Leaders) /\ leaders[i + 1] \in Leaders
    BY <1>3, <1>5, <2>1
  <2>4. g[i + 1] \in Seq(Leaders)
    BY <2>2, <2>3 DEF KeepLeader
  <2> QED BY <2>4
<1>6. \A i \in 0 .. Len(leaders) : i \in S
  <2> HIDE DEF S
  <2> QED BY <1>3, <1>4, <1>5, K!IntervalInduction
<1>7. g[Len(leaders)] \in Seq(Leaders)
  <2>1. Len(leaders) \in 0 .. Len(leaders) /\ Len(leaders) <= Len(leaders)
    BY <1>3
  <2> QED BY <1>6, <2>1
<1> QED BY <1>1, <1>2, <1>7

\* A parameter changes the consensus or the leaders, and nothing else.
HasLeaders(s) == {"consensus", "leaders"} \subseteq DOMAIN s /\ s.leaders \in Seq(Leaders)

SameElse(r, s) == DOMAIN r = DOMAIN s /\ \A x \in DOMAIN s \ {"consensus", "leaders"} : r[x] = s[x]

\* A config parameter leaves a list of leaders, and what is not a parameter,
\* alone.
LEMMA ParamKeeps ==
    ASSUME NEW s, HasLeaders(s), NEW param, IsParam(param)
    PROVE  HasLeaders(apply_param(s, param)) /\ SameElse(apply_param(s, param), s)
<1>1. CASE param.kind = "add_leader"
  <2>1. PICK new : new = Append(s.leaders, param.id)
    OBVIOUS
  <2>2. new \in Seq(Leaders)
    BY <1>1, <2>1 DEF HasLeaders, IsParam
  <2>3. apply_param(s, param) = [s EXCEPT !.leaders = new]
    BY <1>1, <2>1 DEF apply_param
  <2> QED BY <2>2, <2>3 DEF HasLeaders, SameElse
<1>2. CASE param.kind = "remove_leader"
  <2>1. PICK new : new = Retained(s.leaders, param.id)
    OBVIOUS
  <2>2. new \in Seq(Leaders)
    BY <2>1, RetainedType DEF HasLeaders
  <2>3. apply_param(s, param) = [s EXCEPT !.leaders = new]
    BY <1>2, <2>1 DEF apply_param
  <2> QED BY <2>2, <2>3 DEF HasLeaders, SameElse
<1>3. CASE param.kind = "consensus"
  <2>1. apply_param(s, param) = [s EXCEPT !.consensus = param.value]
    BY <1>3 DEF apply_param
  <2> QED BY <2>1 DEF HasLeaders, SameElse
<1> QED BY <1>1, <1>2, <1>3 DEF IsParam

NextParam(s, param, env) == apply_param(s, param)

A == INSTANCE FoldTheorems WITH Op <- NextParam

\* So does any number of them.
LEMMA ParamsKeep ==
    ASSUME NEW s, HasLeaders(s), NEW T, NEW seq \in Seq(T), \A i \in DOMAIN seq : IsParam(seq[i])
    PROVE  LET r == FoldLeft(apply_param, s, seq) IN HasLeaders(r) /\ SameElse(r, s)
<1>1. FoldLeft(apply_param, s, seq) = A!Fold(s, seq, 0)
  BY DEF A!Fold, A!Greatest, NextParam, FoldLeft, MapThenFoldSet, Max
<1>2. PICK g : A!IsLoop(g, s, seq, 0) /\ A!Fold(s, seq, 0) = g[Len(seq)]
  BY A!FoldIsLoop
<1>3. Len(seq) \in Nat /\ \A i \in 1 .. Len(seq) : IsParam(seq[i])
  OBVIOUS
<1> DEFINE S == {i \in Nat : i <= Len(seq) => HasLeaders(g[i]) /\ SameElse(g[i], s)}
<1>4. 0 \in S
  BY <1>2 DEF A!IsLoop, SameElse
<1>5. ASSUME NEW i \in Nat, 0 <= i, i < Len(seq), i \in S PROVE i + 1 \in S
  <2>1. i + 1 \in 1 .. Len(seq) /\ i + 1 - 1 = i
    BY <1>3, <1>5
  <2>2. g[i + 1] = apply_param(g[i], seq[i + 1])
    BY <1>2, <2>1 DEF A!IsLoop, NextParam
  <2>3. HasLeaders(g[i]) /\ SameElse(g[i], s) /\ IsParam(seq[i + 1])
    BY <1>3, <1>5, <2>1
  <2>4. HasLeaders(g[i + 1]) /\ SameElse(g[i + 1], g[i])
    BY <2>2, <2>3, ParamKeeps
  <2>5. SameElse(g[i + 1], s)
    BY <2>3, <2>4 DEF SameElse
  <2> QED BY <2>4, <2>5
<1>6. \A i \in 0 .. Len(seq) : i \in S
  <2> HIDE DEF S
  <2> QED BY <1>3, <1>4, <1>5, A!IntervalInduction
<1>7. HasLeaders(g[Len(seq)]) /\ SameElse(g[Len(seq)], s)
  <2>1. Len(seq) \in 0 .. Len(seq) /\ Len(seq) <= Len(seq)
    BY <1>3
  <2> QED BY <1>6, <2>1
<1> QED BY <1>1, <1>2, <1>7

\* A block's changes wait for the next epoch, and delegations count at once.
NextFragment(l, fragment, env) == apply_fragment(l, fragment)

C == INSTANCE FoldTheorems WITH Op <- NextFragment

\* A fragment leaves a ledger with known leaders and pools.
LEMMA FragmentLed ==
    ASSUME NEW l, IsLed(l), NEW c \in Changes, NEW i \in DOMAIN c
    PROVE  IsLed(apply_fragment(l, c[i]))
<1>1. CASE c[i].kind = "delegate"
  <2>1. PICK stake : apply_fragment(l, c[i]) = [l EXCEPT !.stake = stake]
    BY <1>1 DEF apply_fragment
  <2> QED BY <2>1 DEF IsLed, LedgerFields
<1>2. CASE c[i].kind # "delegate"
  <2>1. c[i] \in Params
    <3>1. IsParam(c[i])
      BY <1>2, ChainIsRead DEF IsParam
    <3>2. c[i] \in UNION {ToSet(x) : x \in Changes}
      BY DEF ToSet
    <3> QED BY <3>1, <3>2 DEF Params
  <2>2. PICK new : new = Append(l.updates, c[i])
    OBVIOUS
  <2>3. new \in Seq(Params)
    BY <2>1, <2>2 DEF IsLed
  <2>4. apply_fragment(l, c[i]) = [l EXCEPT !.updates = new]
    BY <1>2, <2>2 DEF apply_fragment
  <2> QED BY <2>3, <2>4 DEF IsLed, LedgerFields
<1> QED BY <1>1, <1>2

\* So do the contents of a block.
LEMMA ContentsLed ==
    ASSUME NEW l, IsLed(l), NEW c \in Changes
    PROVE  IsLed(apply_contents(l, c))
<1>1. apply_contents(l, c) = C!Fold(l, c, 0)
  BY DEF apply_contents, C!Fold, C!Greatest, NextFragment, FoldLeft, MapThenFoldSet, Max
<1>2. PICK T : c \in Seq(T)
  BY ChainIsRead
<1>3. PICK g : C!IsLoop(g, l, c, 0) /\ C!Fold(l, c, 0) = g[Len(c)]
  BY <1>2, C!FoldIsLoop
<1>4. Len(c) \in Nat /\ DOMAIN c = 1 .. Len(c)
  BY <1>2
<1> DEFINE S == {i \in Nat : i <= Len(c) => IsLed(g[i])}
<1>5. 0 \in S
  BY <1>3 DEF C!IsLoop
<1>6. ASSUME NEW i \in Nat, 0 <= i, i < Len(c), i \in S PROVE i + 1 \in S
  <2>1. i + 1 \in 1 .. Len(c) /\ i + 1 - 1 = i
    BY <1>4, <1>6
  <2>2. g[i + 1] = apply_fragment(g[i], c[i + 1])
    BY <1>3, <2>1 DEF C!IsLoop, NextFragment
  <2>3. IsLed(g[i])
    BY <1>4, <1>6
  <2>4. IsLed(g[i + 1])
    BY <1>4, <2>1, <2>2, <2>3, FragmentLed
  <2> QED BY <2>4
<1>7. \A i \in 0 .. Len(c) : i \in S
  <2> HIDE DEF S
  <2> QED BY <1>4, <1>5, <1>6, C!IntervalInduction
<1>8. IsLed(g[Len(c)])
  <2>1. Len(c) \in 0 .. Len(c) /\ Len(c) <= Len(c)
    BY <1>4
  <2> QED BY <1>7, <2>1
<1> QED BY <1>1, <1>3, <1>8

\* So does the start of a block, where proposals are accepted and stake is
\* counted.
LEMMA BeginLed ==
    ASSUME NEW l, IsLed(l), NEW chain_length, NEW date, NEW r \in begin_block(l, chain_length, date)
    PROVE  IsLed(r)
<1>1. CASE r = [l EXCEPT !.chain_length = chain_length]
  BY <1>1 DEF IsLed, LedgerFields
<1>2. CASE r = [FoldLeft(apply_param, l, l.updates) EXCEPT
                    !.updates = <<>>, !.chain_length = chain_length]
  <2>1. PICK s : s = FoldLeft(apply_param, l, l.updates)
    OBVIOUS
  <2>2. l.updates \in Seq(Params) /\ \A i \in DOMAIN l.updates : IsParam(l.updates[i])
    <3>1. l.updates \in Seq(Params) /\ \A param \in Params : IsParam(param)
      BY DEF IsLed, Params
    <3>2. PICK seq : seq = l.updates
      OBVIOUS
    <3>3. \A i \in DOMAIN seq : seq[i] \in Params
      BY <3>1, <3>2
    <3> QED BY <3>1, <3>2, <3>3
  <2>3. HasLeaders(l)
    BY DEF IsLed, LedgerFields, HasLeaders
  <2>4. HasLeaders(s) /\ SameElse(s, l)
    BY <2>1, <2>2, <2>3, ParamsKeep
  <2>5. DOMAIN s = LedgerFields /\ s.leaders \in Seq(Leaders) /\ s.pools = l.pools
    BY <2>4 DEF HasLeaders, SameElse, IsLed, LedgerFields
  <2>6. r = [s EXCEPT !.updates = <<>>, !.chain_length = chain_length]
    BY <1>2, <2>1
  <2>7. DOMAIN r = LedgerFields /\ r.leaders = s.leaders /\ r.pools = s.pools /\ r.updates = <<>>
    BY <2>5, <2>6 DEF LedgerFields
  <2>8. <<>> \in Seq(Params)
    OBVIOUS
  <2> QED BY <2>5, <2>7, <2>8 DEF IsLed
<1> QED BY <1>1, <1>2 DEF begin_block

\* So does a block.
LEMMA BlockLed ==
    ASSUME NEW l, IsLed(l), NEW block, block.contents \in Changes, NEW r \in apply_block(l, block)
    PROVE  IsLed(r)
<1>1. PICK begun \in begin_block(l, block.header.height, block_date(block.header)) :
            r = finish(apply_contents(begun, block.contents), block.header)
  BY DEF apply_block
<1>2. PICK s : s = apply_contents(begun, block.contents)
  OBVIOUS
<1>3. IsLed(s)
  BY <1>1, <1>2, BeginLed, ContentsLed
<1>4. \/ \E date : r = [s EXCEPT !.date = date]
      \/ \E date, nonce : r = [s EXCEPT !.date = date, !.nonce = nonce]
  BY <1>1, <1>2 DEF finish
<1> QED BY <1>3, <1>4 DEF IsLed, LedgerFields

\* So does a restart from entries, which loses pools and reverses the leaders.
LEMMA RebuiltLed == ASSUME NEW l, IsLed(l) PROVE IsLed(RebuildLedger(l))
<1>1. PICK leaders, given : leaders = l.leaders /\ given = to_config_params(l)
  OBVIOUS
<1>2. leaders \in Seq(Leaders)
  BY <1>1 DEF IsLed
<1>3. PICK n \in Nat : n = Len(leaders) /\ DOMAIN leaders = 1 .. n
  BY <1>2
<1>4. PICK adds : adds = [i \in DOMAIN leaders |-> [kind |-> "add_leader", id |-> leaders[i]]]
  OBVIOUS
<1>5. PICK first : first = [kind |-> "consensus", value |-> l.consensus]
  OBVIOUS
<1>6. given = <<first>> \o adds
  BY <1>1, <1>4, <1>5 DEF to_config_params
<1>7. PICK T : T = {first} \cup {adds[i] : i \in 1 .. n}
  OBVIOUS
<1>8. adds \in Seq(T) /\ Len(adds) = n
  BY <1>3, <1>4, <1>7
<1>9. IsParam(first)
  BY <1>5 DEF IsParam
<1>10. \A i \in 1 .. n : IsParam(adds[i])
  BY <1>2, <1>3, <1>4 DEF IsParam
<1>11. \A x \in T : IsParam(x)
  BY <1>7, <1>9, <1>10
<1>12. given \in Seq(T)
  <2>1. <<first>> \in Seq(T)
    BY <1>7
  <2> QED BY <1>6, <1>8, <2>1
<1>13. PICK seq : seq = Reverse(given)
  OBVIOUS
<1>14. seq \in Seq(T)
  <2>1. PICK m \in Nat : m = Len(given)
    BY <1>12
  <2>2. \A i \in 1 .. m : given[(m - i) + 1] \in T
    BY <1>12, <2>1
  <2>3. seq = [i \in 1 .. m |-> given[(m - i) + 1]]
    BY <1>13, <2>1 DEF Reverse
  <2> QED BY <2>2, <2>3
<1>15. \A i \in DOMAIN seq : IsParam(seq[i])
  BY <1>11, <1>14
<1>16. HasLeaders(NewSettings)
  <2>1. <<>> \in Seq(Leaders)
    OBVIOUS
  <2> QED BY <2>1 DEF HasLeaders, NewSettings
<1>17. PICK s : s = FoldLeft(apply_param, NewSettings, seq)
  OBVIOUS
<1>18. HasLeaders(s)
  BY <1>14, <1>15, <1>16, <1>17, ParamsKeep
<1>19. PICK r : r = RebuildLedger(l)
  OBVIOUS
<1>20. r = [l EXCEPT !.consensus = s.consensus, !.leaders = s.leaders,
                     !.nonce = s.nonce, !.pools = [p \in {} |-> None]]
  BY <1>1, <1>13, <1>17, <1>19 DEF RebuildLedger
<1>21. /\ DOMAIN r = LedgerFields /\ r.leaders = s.leaders /\ r.updates = l.updates
       /\ DOMAIN r.pools = {}
  BY <1>20 DEF IsLed, LedgerFields
<1> QED BY <1>18, <1>19, <1>21 DEF IsLed, HasLeaders

-----------------------------------------------------------------------------
(* What a header's signature is worth. *)

HeaderFields == {"version", "epoch", "slot_id", "height", "content_hash", "parent",
                 "leader", "vrf", "sig"}

IsHeader(h) == h = [x \in HeaderFields |-> h[x]]

\* What the signature of a header says was signed.
SignedPart(h) == IF h.version = "bft" THEN h.sig.msg ELSE h.sig.sigma[2]

\* A header as a leader has signed it.
Genuine(h) ==
    /\ IsHeader(h) /\ h.version \in {"bft", "praos"}
    /\ h.leader \in Leaders /\ h.slot_id \in Nat
    /\ SignedPart(h) = as_auth_slice(h)

\* A verified header is of a known version, and what is signed of it is all but
\* the signature.
LEMMA VerifiedIsSigned ==
    ASSUME NEW data, NEW h, VerifyHeader(data, h)
    PROVE  h.version \in {"bft", "praos"} /\ SignedPart(h) = as_auth_slice(h)
<1>1. CASE data.consensus = "bft"
  <2>1. h.version = "bft"
    BY <1>1 DEF VerifyHeader, verify_version
  <2>2. h.sig = ed25519_sign(get_leader_at(data, block_date(h)), as_auth_slice(h))
    BY <1>1 DEF VerifyHeader, verify_bft
  <2> QED BY <2>1, <2>2 DEF SignedPart, ed25519_sign
<1>2. CASE data.consensus # "bft"
  <2>1. h.version = "praos"
    BY <1>2 DEF VerifyHeader, verify_version
  <2>2. h.sig.sigma[2] = as_auth_slice(h)
    BY <1>2 DEF VerifyHeader, verify_praos, verify
  <2> QED BY <2>1, <2>2 DEF SignedPart
<1> QED BY <1>1, <1>2

\* No part of a header can be exchanged under its signature.
LEMMA SignatureFixesHeader ==
    ASSUME NEW h, NEW g, IsHeader(h), IsHeader(g), h.sig = g.sig, h.version = g.version,
           SignedPart(h) = as_auth_slice(h), SignedPart(g) = as_auth_slice(g)
    PROVE  h = g
<1>1. as_auth_slice(h) = as_auth_slice(g)
  BY DEF SignedPart
<1>2. PICK a, b : a = as_auth_slice(h) /\ b = as_auth_slice(g)
  OBVIOUS
<1>3. DOMAIN h = HeaderFields /\ DOMAIN g = HeaderFields
  BY DEF IsHeader
<1>4. ASSUME NEW x \in HeaderFields PROVE h[x] = g[x]
  <2>1. CASE x = "sig"
    BY <2>1
  <2>2. CASE x # "sig"
    <3>1. a[x] = h[x] /\ b[x] = g[x]
      BY <1>2, <1>3, <2>2 DEF as_auth_slice
    <3> QED BY <1>1, <1>2, <3>1
  <2> QED BY <2>1, <2>2
<1> QED BY <1>4 DEF IsHeader

\* The clock gives slots that are numbers.
LEMMA DateType ==
    ASSUME NEW time \in Int, NEW date \in DateAt(time)
    PROVE  date.slot_id \in Nat
<1>1. PICK s \in slot_at(Frame, time) : date \in from_slot_to_era(Era, s)
  BY DEF DateAt
<1>2. /\ Frame.timeline \in Nat /\ Frame.slot_offset \in Nat /\ Frame.slot_duration \in Nat \ {0}
      /\ Era.slot_start \in Nat /\ Era.slots_per_epoch \in Nat \ {0}
  BY ChainIsRead, ConsensusConstants
<1>3. s \in Int
  BY <1>1, <1>2 DEF slot_at
<1>4. date.slot_id = (s - Era.slot_start) % Era.slots_per_epoch
  BY <1>1 DEF from_slot_to_era
<1> QED BY <1>2, <1>3, <1>4

\* The unsigned part of a header has its fields.
LEMMA CommonIsHeader ==
    ASSUME NEW version, NEW contents, NEW parent, NEW height, NEW date,
           NEW c, c = HeaderCommon(version, contents, parent, height, date)
    PROVE  IsHeader(c) /\ c.version = version /\ c.slot_id = date.slot_id
BY DEF HeaderCommon, IsHeader, HeaderFields

\* A BFT leader signs all fields but the signature.
LEMMA SignBft ==
    ASSUME NEW c, IsHeader(c), NEW l, NEW h, h = sign_bft(c, l)
    PROVE  /\ IsHeader(h) /\ h.version = c.version /\ h.slot_id = c.slot_id /\ h.leader = l
           /\ h.sig = ed25519_sign(l, as_auth_slice(h))
<1>1. PICK auth : auth = [c EXCEPT !.leader = l]
  OBVIOUS
<1>2. PICK sig : sig = ed25519_sign(l, as_auth_slice(auth))
  OBVIOUS
<1>3. h = [auth EXCEPT !.sig = sig]
  BY <1>1, <1>2 DEF sign_bft
<1>4. DOMAIN c = HeaderFields /\ DOMAIN auth = HeaderFields /\ DOMAIN h = HeaderFields
  BY <1>1, <1>3 DEF IsHeader
<1>5. as_auth_slice(h) = as_auth_slice(auth)
  BY <1>3, <1>4 DEF as_auth_slice
<1>6. h.sig = sig /\ h.leader = l /\ h.version = c.version /\ h.slot_id = c.slot_id
  BY <1>1, <1>3, <1>4 DEF HeaderFields
<1>7. IsHeader(h)
  BY <1>3, <1>4 DEF IsHeader
<1> QED BY <1>2, <1>5, <1>6, <1>7

\* A pool signs all fields but the signature, with its KES key.
LEMMA SignPraos ==
    ASSUME NEW c, IsHeader(c), NEW l, NEW proof, NEW key, NEW h, h = sign_praos(c, l, proof, key)
    PROVE  /\ IsHeader(h) /\ h.version = c.version /\ h.slot_id = c.slot_id /\ h.leader = l
           /\ h.sig = sign(key, as_auth_slice(h))
<1>1. PICK auth : auth = [c EXCEPT !.leader = l, !.vrf = proof]
  OBVIOUS
<1>2. PICK sig : sig = sign(key, as_auth_slice(auth))
  OBVIOUS
<1>3. h = [auth EXCEPT !.sig = sig]
  BY <1>1, <1>2 DEF sign_praos
<1>4. DOMAIN c = HeaderFields /\ DOMAIN auth = HeaderFields /\ DOMAIN h = HeaderFields
  BY <1>1, <1>3 DEF IsHeader
<1>5. as_auth_slice(h) = as_auth_slice(auth)
  BY <1>3, <1>4 DEF as_auth_slice
<1>6. h.sig = sig /\ h.leader = l /\ h.version = c.version /\ h.slot_id = c.slot_id
  BY <1>1, <1>3, <1>4 DEF HeaderFields
<1>7. IsHeader(h)
  BY <1>3, <1>4 DEF IsHeader
<1> QED BY <1>2, <1>5, <1>6, <1>7

\* A header that a leader forges for its slot is signed by the leader it names.
LEMMA ForgedIsGenuine ==
    ASSUME NEW epoch, NEW led, NEW leadership \in LeadershipNew(epoch, led), NEW l \in Leaders,
           NEW date, date.slot_id \in Nat, NEW contents, NEW parent, NEW height,
           NEW h \in ForgeHeader(leadership, l, date,
                        HeaderCommon(leadership.consensus, contents, parent, height, date))
    PROVE  Genuine(h)
<1>1. PICK c : c = HeaderCommon(leadership.consensus, contents, parent, height, date)
  OBVIOUS
<1>2. IsHeader(c) /\ c.version = leadership.consensus /\ c.slot_id = date.slot_id
  BY <1>1, CommonIsHeader
<1>3. leadership.consensus \in {"bft", "praos"}
  BY DEF LeadershipNew
<1>4. CASE leadership.consensus = "bft"
  <2>1. h = sign_bft(c, l)
    BY <1>1, <1>4 DEF ForgeHeader
  <2>2. /\ IsHeader(h) /\ h.version = c.version /\ h.slot_id = c.slot_id /\ h.leader = l
        /\ h.sig = ed25519_sign(l, as_auth_slice(h))
    BY <1>2, <2>1, SignBft
  <2>3. SignedPart(h) = as_auth_slice(h)
    BY <1>2, <1>4, <2>2 DEF SignedPart, ed25519_sign
  <2> QED BY <1>2, <1>4, <2>2, <2>3 DEF Genuine
<1>5. CASE leadership.consensus = "praos"
  <2>1. PICK proof : h = sign_praos(c, l, proof, kes[l])
    BY <1>1, <1>5 DEF ForgeHeader
  <2>2. /\ IsHeader(h) /\ h.version = c.version /\ h.slot_id = c.slot_id /\ h.leader = l
        /\ h.sig = sign(kes[l], as_auth_slice(h))
    BY <1>2, <2>1, SignPraos
  <2>3. SignedPart(h) = as_auth_slice(h)
    BY <1>2, <1>5, <2>2 DEF SignedPart, sign
  <2> QED BY <1>2, <1>5, <2>2, <2>3 DEF Genuine
<1> QED BY <1>3, <1>4, <1>5

-----------------------------------------------------------------------------
(* A doctored block that is accepted has the header of a block sent. *)

IsBlock(b) ==
    /\ DOMAIN b = {"header", "contents", "rebuilt"}
    /\ Genuine(b.header) /\ b.contents \in Changes

\* The header of g with a signature of the outsider.
Resigned(h, g) ==
    \/ /\ g.version = "praos"
       /\ h = [g EXCEPT !.sig = sign(keygen(KesDepth, MasterSeed[Outsider]).secret, as_auth_slice(g))]
    \/ /\ g.version = "bft"
       /\ \/ h = [g EXCEPT !.sig = ed25519_sign(Outsider, as_auth_slice(g))]
          \/ h = sign_bft(g, Outsider)

\* The header h with the signature of the header g.
Patched(h, g) == IsHeader(h) /\ h.sig = g.sig /\ h.version = g.version

\* A doctored field leaves the others and the signature as they were.
LEMMA SetField ==
    ASSUME NEW g, IsHeader(g), NEW x \in HeaderFields \ {"sig", "version"}, NEW v, NEW h,
           h = [g EXCEPT ![x] = v]
    PROVE  Patched(h, g)
<1>1. DOMAIN g = HeaderFields
  BY DEF IsHeader
<1>2. DOMAIN h = HeaderFields /\ h.sig = g.sig /\ h.version = g.version
  BY <1>1 DEF HeaderFields
<1>3. h = [y \in HeaderFields |-> h[y]]
  BY <1>1
<1> QED BY <1>2, <1>3 DEF Patched, IsHeader

\* A replaced signature leaves all fields as they were.
LEMMA SetSignature ==
    ASSUME NEW g, IsHeader(g), NEW v, NEW h, h = [g EXCEPT !.sig = v]
    PROVE  IsHeader(h) /\ h.sig = v /\ \A x \in HeaderFields \ {"sig"} : h[x] = g[x]
<1>1. DOMAIN g = HeaderFields /\ DOMAIN h = HeaderFields
  BY DEF IsHeader
<1> QED BY <1>1 DEF IsHeader, HeaderFields

\* What the outsider can make of the blocks sent.
LEMMA DoctoredKinds ==
    ASSUME \A b \in sent : IsBlock(b), NEW n \in Nodes, NEW block \in Doctored(n)
    PROVE  /\ block.contents \in Changes
           /\ \E b \in sent : \/ Patched(block.header, b.header)
                              \/ Resigned(block.header, b.header)
<1> DEFINE Swapped(g) ==
             {[g EXCEPT !.sig = x.header.sig] : x \in {y \in sent : y.header.version = g.version}}
           Led(g) == {[g EXCEPT !.leader = l] : l \in Leaders}
           Shifted(g) ==
             {[g EXCEPT !.slot_id = @ + 1], [g EXCEPT !.epoch = @ + 1, !.slot_id = 0],
              [g EXCEPT !.parent = tip[n]], [g EXCEPT !.height = @ + 1]}
           Moved(g) == Led(g) \cup Shifted(g)
           Signed(g) ==
             IF g.version = "praos"
             THEN {[g EXCEPT !.sig = sign(keygen(KesDepth, MasterSeed[Outsider]).secret,
                                          as_auth_slice(g))]}
             ELSE {[g EXCEPT !.sig = ed25519_sign(Outsider, as_auth_slice(g))],
                   sign_bft(g, Outsider)}
<1>1. PICK b \in sent :
        \/ \E h \in Swapped(b.header) : block = [b EXCEPT !.header = h]
        \/ \E h \in Moved(b.header) : block = [b EXCEPT !.header = h]
        \/ \E h : Resigned(h, b.header) /\ block = [b EXCEPT !.header = h]
        \/ \E c \in Changes : block = [b EXCEPT !.contents = c]
  <2>1. \A x \in sent : x.header.version \in {"bft", "praos"}
    BY DEF IsBlock, Genuine
  <2>2. Doctored(n) = UNION {{[x EXCEPT !.header = h] :
                                    h \in Swapped(x.header) \cup Led(x.header)
                                            \cup Shifted(x.header) \cup Signed(x.header)}
                             \cup {[x EXCEPT !.contents = c] : c \in Changes} : x \in sent}
    BY DEF Doctored
  <2>3. ASSUME NEW x \in sent, NEW h \in Signed(x.header) PROVE Resigned(h, x.header)
    BY <2>1 DEF Resigned
  <2> HIDE DEF Swapped, Led, Shifted, Signed
  <2> QED BY <2>2, <2>3
<1>2. IsBlock(b)
  OBVIOUS
<1>3. PICK g : g = b.header
  OBVIOUS
<1>4. IsHeader(g) /\ DOMAIN g = HeaderFields
  BY <1>2, <1>3 DEF IsBlock, Genuine, IsHeader
<1>5. ASSUME NEW h, block = [b EXCEPT !.header = h] PROVE block.header = h /\ block.contents \in Changes
  BY <1>2, <1>5 DEF IsBlock
<1>6. CASE \E h \in Swapped(b.header) : block = [b EXCEPT !.header = h]
  <2>1. PICK h, x : /\ x \in sent /\ x.header.version = g.version
                    /\ h = [g EXCEPT !.sig = x.header.sig] /\ block = [b EXCEPT !.header = h]
    BY <1>3, <1>6
  <2>2. IsHeader(h) /\ h.sig = x.header.sig /\ h.version = g.version
    <3>1. PICK v : v = x.header.sig
      OBVIOUS
    <3>2. "version" \in HeaderFields \ {"sig"}
      BY DEF HeaderFields
    <3>3. h = [g EXCEPT !.sig = v]
      BY <2>1, <3>1
    <3> QED BY <1>4, <3>1, <3>2, <3>3, SetSignature
  <2>3. Patched(h, x.header)
    BY <2>1, <2>2 DEF Patched
  <2> QED BY <1>5, <2>1, <2>3
<1>7. CASE \E h \in Moved(b.header) : block = [b EXCEPT !.header = h]
  <2>1. PICK h : h \in Moved(g) /\ block = [b EXCEPT !.header = h]
    <3> HIDE DEF Moved
    <3> QED BY <1>3, <1>7
  <2>2. CASE \E x \in HeaderFields \ {"sig", "version"} : \E v : h = [g EXCEPT ![x] = v]
    <3>1. Patched(h, g)
      BY <1>4, <2>2, SetField
    <3> QED BY <1>3, <1>5, <2>1, <3>1
  <2>3. CASE \E l \in Leaders : h = [g EXCEPT !.leader = l]
    BY <2>2, <2>3 DEF HeaderFields
  <2>4. CASE h = [g EXCEPT !.slot_id = @ + 1]
    <3>1. h = [g EXCEPT !["slot_id"] = g.slot_id + 1]
      BY <2>4
    <3> QED BY <2>2, <3>1 DEF HeaderFields
  <2>5. CASE h = [g EXCEPT !.epoch = @ + 1, !.slot_id = 0]
    <3>1. PICK k : k = [g EXCEPT !["epoch"] = g.epoch + 1]
      OBVIOUS
    <3>2. Patched(k, g)
      BY <1>4, <3>1, SetField DEF HeaderFields
    <3>3. h = [k EXCEPT !["slot_id"] = 0]
      BY <1>4, <2>5, <3>1 DEF HeaderFields
    <3>4. Patched(h, k)
      <4>1. IsHeader(k) /\ "slot_id" \in HeaderFields \ {"sig", "version"}
        BY <3>2 DEF Patched, HeaderFields
      <4> QED BY <3>3, <4>1, SetField
    <3>5. Patched(h, g)
      BY <3>2, <3>4 DEF Patched
    <3> QED BY <1>3, <1>5, <2>1, <3>5
  <2>6. CASE h = [g EXCEPT !.parent = tip[n]]
    BY <2>2, <2>6 DEF HeaderFields
  <2>7. CASE h = [g EXCEPT !.height = @ + 1]
    <3>1. h = [g EXCEPT !["height"] = g.height + 1]
      BY <2>7
    <3> QED BY <2>2, <3>1 DEF HeaderFields
  <2> QED BY <2>1, <2>3, <2>4, <2>5, <2>6, <2>7
<1>8. CASE \E h : Resigned(h, b.header) /\ block = [b EXCEPT !.header = h]
  BY <1>5, <1>8
<1>9. CASE \E c \in Changes : block = [b EXCEPT !.contents = c]
  <2>1. block.header = g /\ block.contents \in Changes
    BY <1>2, <1>3, <1>9 DEF IsBlock
  <2>2. Patched(g, g)
    BY <1>4 DEF Patched
  <2> QED BY <1>3, <2>1, <2>2
<1> QED BY <1>1, <1>6, <1>7, <1>8, <1>9

\* The signature of a KES key says nothing of another message than its own.
LEMMA KesIgnoresMessage ==
    ASSUME NEW pk, NEW key, NEW m, verify(pk, m, sign(key, m))
    PROVE  verify(pk, None, sign(key, None))
BY DEF verify, sign

\* A header signed anew by someone else than its leader does not verify.
LEMMA ResignedIsRefused ==
    ASSUME NEW led, IsLed(led), NEW g, Genuine(g), NEW h, Resigned(h, g), NEW epoch,
           NEW leadership \in LeadershipNew(epoch, led), VerifyHeader(leadership, h)
    PROVE  FALSE
<1>1. IsHeader(g) /\ DOMAIN g = HeaderFields /\ g.leader \in Leaders /\ g.slot_id \in Nat
  BY DEF Genuine, IsHeader
<1>2. Outsider \notin Leaders
  BY ConsensusConstants
<1>3. CASE g.version = "praos"
  <2>1. PICK key : key = keygen(KesDepth, MasterSeed[Outsider]).secret
    OBVIOUS
  <2>2. h = [g EXCEPT !.sig = sign(key, as_auth_slice(g))]
    BY <1>3, <2>1 DEF Resigned
  <2>3. h.sig = sign(key, as_auth_slice(g)) /\ h.version = "praos" /\ h.leader = g.leader
    BY <1>1, <1>3, <2>2 DEF HeaderFields
  <2>4. as_auth_slice(h) = as_auth_slice(g)
    BY <1>1, <2>2 DEF as_auth_slice
  <2>5. leadership.consensus = "praos"
    BY <2>3 DEF VerifyHeader, verify_version
  <2>6. leadership.pools = led.pools
    BY <2>5 DEF LeadershipNew
  <2>7. verify_praos(leadership, h)
    BY <2>5 DEF VerifyHeader
  <2>8. h.leader \in DOMAIN led.pools /\ verify(led.pools[h.leader].kes, as_auth_slice(h), h.sig)
    BY <2>6, <2>7 DEF verify_praos
  <2>9. h.leader \in Pools /\ verify(PoolKeys(h.leader).kes, as_auth_slice(g), sign(key, as_auth_slice(g)))
    BY <2>3, <2>4, <2>8 DEF IsLed
  <2>10. verify(PoolKeys(h.leader).kes, None, sign(key, None))
    BY <2>9, KesIgnoresMessage
  <2> QED BY <2>1, <2>9, <2>10, OutsiderHasOtherKeys
<1>4. CASE g.version = "bft"
  <2>1. PICK leader : leader = get_leader_at(leadership, block_date(h))
    OBVIOUS
  <2>2. h.version = "bft" /\ h.slot_id = g.slot_id /\ h.sig.ed25519 = Outsider
    <3>1. CASE h = [g EXCEPT !.sig = ed25519_sign(Outsider, as_auth_slice(g))]
      BY <1>1, <1>4, <3>1, SetSignature DEF HeaderFields, ed25519_sign
    <3>2. CASE h = sign_bft(g, Outsider)
      <4>1. /\ h.version = g.version /\ h.slot_id = g.slot_id
            /\ h.sig = ed25519_sign(Outsider, as_auth_slice(h))
        BY <1>1, <3>2, SignBft
      <4> QED BY <1>4, <4>1 DEF ed25519_sign
    <3> QED BY <1>4, <3>1, <3>2 DEF Resigned
  <2>3. leadership.consensus = "bft"
    BY <2>2 DEF VerifyHeader, verify_version
  <2>4. h.sig = ed25519_sign(leader, as_auth_slice(h))
    BY <2>1, <2>3 DEF VerifyHeader, verify_bft
  <2>5. leader = Outsider
    BY <2>2, <2>4 DEF ed25519_sign
  <2>6. PICK leaders \in Seq(Leaders) : leaders = led.leaders
    BY DEF IsLed
  <2>7. leadership.leaders = leaders /\ Len(leaders) # 0
    BY <2>3, <2>6 DEF LeadershipNew
  <2>8. PICK i : i = (g.slot_id % Len(leaders)) + 1
    OBVIOUS
  <2>9. i \in 1 .. Len(leaders)
    <3>1. PICK k \in Nat \ {0} : k = Len(leaders)
      BY <2>6, <2>7
    <3>2. PICK s \in Nat : s = g.slot_id
      BY <1>1
    <3>3. s % k \in 0 .. k - 1
      OBVIOUS
    <3> QED BY <2>8, <3>1, <3>2, <3>3
  <2>10. leader = leaders[i]
    BY <2>1, <2>2, <2>7, <2>8 DEF get_leader_at, block_date
  <2>11. leader \in Leaders
    BY <2>6, <2>9, <2>10
  <2> QED BY <1>2, <2>5, <2>11
<1> QED BY <1>3, <1>4 DEF Genuine

\* Whatever was done to it, an accepted block has the header of a block sent.
LEMMA AcceptedWasSent ==
    ASSUME \A b \in sent : IsBlock(b), NEW n \in Nodes, NEW led, IsLed(led),
           NEW block \in sent \cup Doctored(n), NEW epoch,
           NEW leadership \in LeadershipNew(epoch, led), VerifyHeader(leadership, block.header)
    PROVE  block.contents \in Changes /\ \E b \in sent : b.header = block.header
<1>1. CASE block \in sent
  BY <1>1 DEF IsBlock
<1>2. CASE block \in Doctored(n)
  <2>1. block.contents \in Changes
    BY <1>2, DoctoredKinds
  <2>2. PICK b \in sent : Patched(block.header, b.header) \/ Resigned(block.header, b.header)
    BY <1>2, DoctoredKinds
  <2>3. PICK g, h : g = b.header /\ h = block.header
    OBVIOUS
  <2>4. Genuine(g)
    BY <2>2, <2>3 DEF IsBlock
  <2>5. ~Resigned(h, g)
    BY <2>3, <2>4, ResignedIsRefused
  <2>6. Patched(h, g)
    BY <2>2, <2>3, <2>5
  <2>7. SignedPart(h) = as_auth_slice(h)
    BY <2>3, VerifiedIsSigned
  <2>8. h = g
    BY <2>4, <2>6, <2>7, SignatureFixesHeader DEF Patched, Genuine
  <2> QED BY <2>1, <2>3, <2>8
<1> QED BY <1>1, <1>2

-----------------------------------------------------------------------------
(* Only leaders extend the chain. *)

ChainInv ==
    /\ now \in Int
    /\ DOMAIN tip = Nodes /\ DOMAIN ledger = Nodes
    /\ \A n \in Nodes : IsLed(ledger[n])
    /\ \A b \in sent : IsBlock(b)
    /\ \A n \in Nodes : tip[n] = Block0 \/ \E b \in sent : b.header = tip[n]

\* The first ledger has known leaders and pools.
LEMMA Block0IsLed == IsLed(Block0Ledger)
<1>1. Block0Leaders \in Seq(Leaders) /\ <<>> \in Seq(Params)
  BY ChainIsRead
<1>2. PICK l : l = Block0Ledger
  OBVIOUS
<1>3. /\ DOMAIN l = LedgerFields /\ l.leaders = Block0Leaders /\ l.updates = <<>>
      /\ DOMAIN l.pools = Pools /\ \A p \in Pools : l.pools[p] = PoolKeys(p)
  BY <1>2 DEF Block0Ledger, LedgerFields
<1> QED BY <1>1, <1>2, <1>3 DEF IsLed

\* The invariant holds before any block is sent.
LEMMA InitChain == Init => ChainInv
<1> SUFFICES ASSUME Init PROVE ChainInv
  OBVIOUS
<1>1. now \in Int
  BY ChainIsRead DEF Init
<1>2. DOMAIN tip = Nodes /\ DOMAIN ledger = Nodes
      /\ \A n \in Nodes : tip[n] = Block0 /\ ledger[n] = Block0Ledger
  BY DEF Init
<1>3. sent = {}
  BY DEF Init
<1> QED BY <1>1, <1>2, <1>3, Block0IsLed DEF ChainInv

\* A forged block keeps the invariant.
LEMMA ForgeChain ==
    ASSUME ChainInv, NEW n \in Nodes, NEW l \in Leaders, NEW contents \in Changes,
           Forge(n, l, contents)
    PROVE  ChainInv'
<1>1. PICK date, leadership, h :
        /\ date \in DateAt(now) /\ leadership \in LeadershipNew(date.epoch, ledger[n])
        /\ h \in ForgeHeader(leadership, l, date,
                        HeaderCommon(leadership.consensus, contents, tip[n],
                                     ledger[n].chain_length + 1, date))
        /\ sent' = sent \cup {[header |-> h, contents |-> contents, rebuilt |-> n \in restarted]}
  BY DEF Forge
<1>2. date.slot_id \in Nat
  BY <1>1, DateType DEF ChainInv
<1>3. Genuine(h)
  BY <1>1, <1>2, ForgedIsGenuine
<1>4. PICK b : b = [header |-> h, contents |-> contents, rebuilt |-> n \in restarted]
  OBVIOUS
<1>5. IsBlock(b)
  BY <1>3, <1>4 DEF IsBlock
<1>6. sent' = sent \cup {b}
  BY <1>1, <1>4
<1>7. now' = now /\ tip' = tip /\ ledger' = ledger
  BY DEF Forge
<1>8. \A x \in sent' : IsBlock(x)
  BY <1>5, <1>6 DEF ChainInv
<1>9. \A m \in Nodes : tip'[m] = Block0 \/ \E x \in sent' : x.header = tip'[m]
  BY <1>6, <1>7 DEF ChainInv
<1> QED BY <1>7, <1>8, <1>9 DEF ChainInv, IsBlock, Genuine

\* A received block, genuine or doctored, keeps the invariant.
LEMMA ReceiveChain ==
    ASSUME ChainInv, NEW n \in Nodes, NEW block \in sent \cup Doctored(n), Receive(n, block)
    PROVE  ChainInv'
<1>1. IsLed(ledger[n]) /\ \A b \in sent : IsBlock(b)
  BY DEF ChainInv
<1>2. PICK leadership \in LeadershipNew(block.header.epoch, ledger[n]) :
            VerifyHeader(leadership, block.header)
  BY DEF Receive
<1>3. PICK l \in apply_block(ledger[n], block) : ledger' = [ledger EXCEPT ![n] = l]
  BY DEF Receive
<1>4. tip' = [tip EXCEPT ![n] = block.header] /\ now' = now /\ sent' = sent
  BY DEF Receive
<1>5. block.contents \in Changes /\ \E b \in sent : b.header = block.header
  BY <1>1, <1>2, AcceptedWasSent
<1>6. IsLed(l)
  BY <1>1, <1>3, <1>5, BlockLed
<1>7. DOMAIN tip' = Nodes /\ DOMAIN ledger' = Nodes /\ tip'[n] = block.header /\ ledger'[n] = l
      /\ \A m \in Nodes \ {n} : tip'[m] = tip[m] /\ ledger'[m] = ledger[m]
  BY <1>3, <1>4 DEF ChainInv
<1>8. \A m \in Nodes : IsLed(ledger'[m])
  BY <1>6, <1>7 DEF ChainInv
<1>9. \A m \in Nodes : tip'[m] = Block0 \/ \E b \in sent' : b.header = tip'[m]
  BY <1>4, <1>5, <1>7 DEF ChainInv
<1>10. \A b \in sent' : IsBlock(b)
  BY <1>1, <1>4
<1> QED BY <1>4, <1>7, <1>8, <1>9, <1>10 DEF ChainInv, IsLed, IsBlock, Genuine

\* ChainInv is inductive: one step for each action.
LEMMA ChainStep == ChainInv /\ [Next]_vars => ChainInv'
<1> SUFFICES ASSUME ChainInv, [Next]_vars PROVE ChainInv'
  OBVIOUS
<1>1. CASE Tick
  <2>1. now' \in Int
    BY <1>1, ConsensusConstants DEF Tick, ChainInv
  <2> QED BY <1>1, <2>1 DEF Tick, ChainInv
<1>2. CASE \E l \in Pools : Evolve(l)
  BY <1>2 DEF Evolve, ChainInv
<1>3. CASE \E n \in Nodes, l \in Leaders, contents \in Changes : Forge(n, l, contents)
  BY <1>3, ForgeChain
<1>4. CASE \E n \in Nodes : \E block \in sent \cup Doctored(n) : Receive(n, block)
  BY <1>4, ReceiveChain
<1>5. ASSUME NEW n \in Nodes, Restart(n) PROVE ChainInv'
  <2>1. ledger' = [ledger EXCEPT ![n] = RebuildLedger(ledger[n])]
    BY <1>5 DEF Restart
  <2>2. now' = now /\ tip' = tip /\ sent' = sent
    BY <1>5 DEF Restart
  <2>3. IsLed(RebuildLedger(ledger[n]))
    BY RebuiltLed DEF ChainInv
  <2>4. DOMAIN ledger' = Nodes /\ \A m \in Nodes : IsLed(ledger'[m])
    BY <2>1, <2>3 DEF ChainInv
  <2> QED BY <2>2, <2>4 DEF ChainInv
<1>6. CASE UNCHANGED vars
  BY <1>6 DEF vars, ChainInv
<1> QED BY <1>1, <1>2, <1>3, <1>4, <1>5, <1>6 DEF Next

\* Every block a node stands on was made and signed by the leader of its slot:
\* however the blocks on their way are altered, combined or signed anew by one
\* who is no leader, a header that Leadership::verify accepts is one a leader
\* has sent, for any number of nodes, leaders and pools, any settings and any
\* changes of them, on restarted nodes too.
THEOREM LeadersMakeTheChain == Spec => []OnlyLeadersExtend
<1>1. ChainInv => OnlyLeadersExtend
  BY DEF ChainInv, OnlyLeadersExtend
<1>2. Spec => []ChainInv
  BY InitChain, ChainStep, PTL DEF Spec
<1> QED BY <1>1, <1>2, PTL

-----------------------------------------------------------------------------
(* Periods and their bits. *)

NextPower(p, i, env) == Append(p, 2 * p[i])

W == INSTANCE FoldTheorems WITH Op <- NextPower

IsDoubling(p, i) ==
    /\ p \in Seq(Nat) /\ Len(p) = i + 1 /\ p[1] = 1
    /\ \A j \in 1 .. i + 1 : p[j] > 0
    /\ \A j \in 1 .. i : p[j + 1] = 2 * p[j]

\* The width is a number.
LEMMA WordIsWide == WordSize \in Nat /\ WordSize > 0
BY DEF WordSize

\* A round appends the double of the last power.
LEMMA DoublingGrows ==
    ASSUME NEW i \in Nat, NEW p, IsDoubling(p, i)
    PROVE  IsDoubling(Append(p, 2 * p[i + 1]), i + 1)
<1>1. i + 1 \in 1 .. i + 1 /\ 1 \in 1 .. i + 1 /\ (i + 1) + 1 = i + 2
  OBVIOUS
<1>2. PICK x \in Nat : x = 2 * p[i + 1] /\ x > 0
  <2>1. p[i + 1] \in Nat /\ p[i + 1] > 0
    BY <1>1 DEF IsDoubling
  <2> QED BY <2>1
<1>3. PICK q : q = Append(p, x)
  OBVIOUS
<1>4. /\ q \in Seq(Nat) /\ Len(q) = i + 2 /\ q[i + 2] = x
      /\ \A j \in 1 .. i + 1 : q[j] = p[j]
  BY <1>2, <1>3 DEF IsDoubling
<1>5. ASSUME NEW j \in 1 .. i + 2 PROVE q[j] > 0
  <2>1. CASE j = i + 2
    BY <1>2, <1>4, <2>1
  <2>2. CASE j # i + 2
    <3>1. j \in 1 .. i + 1
      BY <2>2
    <3> QED BY <1>4, <3>1 DEF IsDoubling
  <2> QED BY <2>1, <2>2
<1>6. ASSUME NEW j \in 1 .. i + 1 PROVE q[j + 1] = 2 * q[j]
  <2>1. CASE j = i + 1
    <3>1. j + 1 = i + 2
      BY <2>1
    <3> QED BY <1>2, <1>4, <2>1, <3>1
  <2>2. CASE j # i + 1
    <3>1. j \in 1 .. i /\ j + 1 \in 1 .. i + 1
      BY <2>2
    <3> QED BY <1>4, <3>1 DEF IsDoubling
  <2> QED BY <2>1, <2>2
<1>7. q[1] = 1
  BY <1>1, <1>4 DEF IsDoubling
<1>8. IsDoubling(q, i + 1)
  BY <1>1, <1>4, <1>5, <1>6, <1>7 DEF IsDoubling
<1> QED BY <1>2, <1>3, <1>8

\* The powers of two double.
LEMMA PowersDouble == IsDoubling(Powers, WordSize)
<1>1. PICK seq : seq = [i \in 1 .. WordSize |-> i]
  OBVIOUS
<1>2. PICK n \in Nat : n = WordSize /\ seq \in Seq(Int) /\ Len(seq) = n
                       /\ \A i \in 1 .. n : seq[i] = i
  BY <1>1, WordIsWide
<1>3. Powers = W!Fold(<<1>>, seq, 0)
  BY <1>1 DEF Powers, W!Fold, W!Greatest, NextPower, FoldLeft, MapThenFoldSet, Max
<1>4. PICK g : W!IsLoop(g, <<1>>, seq, 0) /\ W!Fold(<<1>>, seq, 0) = g[Len(seq)]
  BY <1>2, W!FoldIsLoop
<1> DEFINE S == {i \in Nat : i <= n => IsDoubling(g[i], i)}
<1>5. 0 \in S
  <2>1. g[0] = <<1>>
    BY <1>4 DEF W!IsLoop
  <2>2. <<1>> \in Seq(Nat) /\ Len(<<1>>) = 0 + 1 /\ <<1>>[1] = 1
    OBVIOUS
  <2>3. \A j \in 1 .. 0 + 1 : j = 1
    OBVIOUS
  <2>4. IsDoubling(g[0], 0)
    BY <2>1, <2>2, <2>3 DEF IsDoubling
  <2> QED BY <2>4
<1>6. ASSUME NEW i \in Nat, 0 <= i, i < n, i \in S PROVE i + 1 \in S
  <2>1. i + 1 \in 1 .. n /\ i + 1 - 1 = i
    BY <1>6
  <2>2. seq[i + 1] = i + 1
    BY <1>2, <2>1
  <2>3. IsDoubling(g[i], i)
    BY <1>6
  <2>4. g[i + 1] = NextPower(g[i], seq[i + 1], 0)
    BY <1>2, <1>4, <2>1 DEF W!IsLoop
  <2>5. g[i + 1] = Append(g[i], 2 * g[i][i + 1])
    BY <2>2, <2>4 DEF NextPower
  <2>6. IsDoubling(g[i + 1], i + 1)
    BY <2>3, <2>5, DoublingGrows
  <2> QED BY <2>6
<1>7. \A i \in 0 .. n : i \in S
  <2> HIDE DEF S
  <2> QED BY <1>5, <1>6, K!IntervalInduction
<1>8. IsDoubling(g[n], n)
  BY <1>7
<1> QED BY <1>2, <1>3, <1>4, <1>8

\* As numbers.
LEMMA TwoTo ==
    /\ two_to(0) = 1
    /\ \A i \in 0 .. WordSize : two_to(i) \in Nat /\ two_to(i) > 0
    /\ \A i \in 0 .. WordSize - 1 : two_to(i + 1) = 2 * two_to(i)
<1>1. /\ Powers \in Seq(Nat) /\ Len(Powers) = WordSize + 1 /\ Powers[1] = 1
      /\ \A j \in 1 .. WordSize + 1 : Powers[j] > 0
      /\ \A j \in 1 .. WordSize : Powers[j + 1] = 2 * Powers[j]
  BY PowersDouble DEF IsDoubling
<1>2. ASSUME NEW i \in 0 .. WordSize PROVE two_to(i) \in Nat /\ two_to(i) > 0
  <2>1. i + 1 \in 1 .. WordSize + 1
    BY WordIsWide
  <2>2. Powers[i + 1] \in Nat /\ Powers[i + 1] > 0
    BY <1>1, <2>1
  <2> QED BY <2>2 DEF two_to
<1>3. ASSUME NEW i \in 0 .. WordSize - 1 PROVE two_to(i + 1) = 2 * two_to(i)
  <2>1. i + 1 \in 1 .. WordSize
    BY WordIsWide
  <2> QED BY <1>1, <2>1 DEF two_to
<1> QED BY <1>1, <1>2, <1>3 DEF two_to

\* Division by a number.
LEMMA Quotient ==
    ASSUME NEW t \in Nat, NEW p \in Nat, p > 0
    PROVE  /\ t \div p \in Nat /\ t % p \in Nat /\ t % p < p
           /\ t = p * (t \div p) + (t % p)
OBVIOUS

\* It is the number that fits.
LEMMA QuotientUnique ==
    ASSUME NEW t \in Nat, NEW p \in Nat, p > 0, NEW q \in Nat, NEW r \in Nat, r < p,
           t = p * q + r
    PROVE  t \div p = q /\ t % p = r
OBVIOUS

\* What is left of a period above its i lowest bits.
Above(t, i) == t \div two_to(i)

\* It is halved from bit to bit.
LEMMA AboveHalves ==
    ASSUME NEW t \in Nat
    PROVE  /\ Above(t, 0) = t
           /\ \A i \in 0 .. WordSize : Above(t, i) \in Nat /\ BitOf(t, i) = Above(t, i) % 2
                                       /\ BitOf(t, i) \in {0, 1}
           /\ \A i \in 0 .. WordSize - 1 : Above(t, i) = 2 * Above(t, i + 1) + BitOf(t, i)
<1>1. Above(t, 0) = t
  BY TwoTo DEF Above
<1>2. ASSUME NEW i \in 0 .. WordSize
      PROVE  Above(t, i) \in Nat /\ BitOf(t, i) = Above(t, i) % 2 /\ BitOf(t, i) \in {0, 1}
  <2>1. Above(t, i) \in Nat
    BY TwoTo, Quotient DEF Above
  <2> QED BY <2>1 DEF BitOf, Above
<1>3. ASSUME NEW i \in 0 .. WordSize - 1 PROVE Above(t, i) = 2 * Above(t, i + 1) + BitOf(t, i)
  <2>1. i \in 0 .. WordSize /\ i + 1 \in 0 .. WordSize
    BY WordIsWide
  <2>2. PICK p \in Nat : p = two_to(i) /\ p > 0 /\ two_to(i + 1) = 2 * p
    BY <2>1, TwoTo
  <2>3. PICK q \in Nat : q = Above(t, i) /\ BitOf(t, i) = q % 2
    BY <1>2, <2>1
  <2>4. PICK r \in Nat : r < p /\ t = p * q + r
    <3>1. t % p \in Nat /\ t % p < p /\ t = p * (t \div p) + (t % p)
      BY <2>2, Quotient
    <3>2. q = t \div p
      BY <2>2, <2>3 DEF Above
    <3> QED BY <3>1, <3>2
  <2>5. PICK h \in Nat, c \in {0, 1} : q = 2 * h + c /\ c = q % 2
    OBVIOUS
  <2>6. PICK s \in Nat : s = p * c + r
    BY <2>5
  <2>7. s < 2 * p
    <3>1. CASE c = 0
      BY <2>4, <2>6, <3>1
    <3>2. CASE c = 1
      BY <2>4, <2>6, <3>2
    <3> QED BY <3>1, <3>2
  <2>8. t = (2 * p) * h + s
    <3>1. p * q = p * (2 * h) + p * c
      BY <2>5
    <3>2. p * (2 * h) = (2 * p) * h
      OBVIOUS
    <3> QED BY <2>4, <2>6, <3>1, <3>2
  <2>9. t \div (2 * p) = h
    <3>1. PICK d \in Nat : d = 2 * p /\ d > 0
      BY <2>2
    <3>2. t = d * h + s /\ s < d
      BY <2>7, <2>8, <3>1
    <3>3. t \div d = h
      BY <3>1, <3>2, QuotientUnique
    <3> QED BY <3>1, <3>3
  <2> QED BY <2>2, <2>3, <2>5, <2>9 DEF Above
<1> QED BY <1>1, <1>2, <1>3

\* A period of a tree of depth d has its bits below d.
LEMMA BitsBelow ==
    ASSUME NEW t \in Nat, NEW d \in 0 .. WordSize
    PROVE  /\ t < two_to(d) <=> Above(t, d) = 0
           /\ t < two_to(d) => \A i \in d .. WordSize : Above(t, i) = 0 /\ BitOf(t, i) = 0
<1>1. two_to(d) \in Nat /\ two_to(d) > 0
  BY TwoTo
<1>2. t < two_to(d) <=> Above(t, d) = 0
  <2>1. PICK p \in Nat : p = two_to(d) /\ p > 0
    BY <1>1
  <2>2. ASSUME t < p PROVE t \div p = 0
    <3>1. t = p * 0 + t
      OBVIOUS
    <3> QED BY <2>1, <2>2, <3>1, QuotientUnique
  <2>3. ASSUME t \div p = 0 PROVE t < p
    <3>1. t = p * 0 + (t % p) /\ t % p < p /\ t % p \in Nat
      BY <2>1, <2>3, Quotient
    <3> QED BY <2>1, <3>1
  <2> QED BY <2>1, <2>2, <2>3 DEF Above
<1>3. ASSUME t < two_to(d)
      PROVE  \A i \in d .. WordSize : Above(t, i) = 0 /\ BitOf(t, i) = 0
  <2> DEFINE S == {i \in Nat : Above(t, i) = 0}
  <2>1. d \in Nat /\ WordSize \in Nat
    BY WordIsWide
  <2>2. d \in S
    BY <1>2, <1>3, <2>1
  <2>3. ASSUME NEW i \in Nat, d <= i, i < WordSize, i \in S PROVE i + 1 \in S
    <3>1. i \in 0 .. WordSize - 1 /\ i + 1 \in 0 .. WordSize /\ i \in 0 .. WordSize
      BY <2>1, <2>3
    <3>2. /\ Above(t, i) = 2 * Above(t, i + 1) + BitOf(t, i) /\ BitOf(t, i) \in {0, 1}
          /\ Above(t, i + 1) \in Nat /\ Above(t, i) = 0
      BY <2>3, <3>1, AboveHalves
    <3>3. Above(t, i + 1) = 0
      BY <3>2
    <3> QED BY <3>3
  <2> HIDE DEF S
  <2>4. \A i \in d .. WordSize : i \in S
    BY <2>1, <2>2, <2>3, K!IntervalInduction
  <2>5. ASSUME NEW i \in d .. WordSize PROVE Above(t, i) = 0 /\ BitOf(t, i) = 0
    <3>1. i \in 0 .. WordSize
      BY <2>1
    <3>2. Above(t, i) = 0 /\ BitOf(t, i) = Above(t, i) % 2
      BY <2>4, <3>1, AboveHalves DEF S
    <3> QED BY <3>2
  <2> QED BY <2>5
<1> QED BY <1>2, <1>3

\* b is the lowest bit of t that is not set.
LowestZero(t, b) == BitOf(t, b) = 0 /\ \A i \in 0 .. b - 1 : BitOf(t, i) = 1

\* The carry of t + 1 goes up to the lowest bit that is not set.
LEMMA CarryRises ==
    ASSUME NEW t \in Nat, NEW b \in 0 .. WordSize, \A i \in 0 .. b - 1 : BitOf(t, i) = 1
    PROVE  /\ \A i \in 0 .. b : Above(t + 1, i) = Above(t, i) + 1
           /\ \A i \in 0 .. b - 1 : BitOf(t + 1, i) = 0
<1>0. t + 1 \in Nat /\ b \in Nat /\ WordSize \in Nat
  BY WordIsWide
<1> DEFINE S == {i \in Nat : Above(t + 1, i) = Above(t, i) + 1}
<1>1. 0 \in S
  BY <1>0, AboveHalves
<1>2. ASSUME NEW i \in Nat, i < b, i \in S PROVE i + 1 \in S /\ BitOf(t + 1, i) = 0
  <2>1. i \in 0 .. WordSize - 1 /\ i + 1 \in 0 .. WordSize /\ i \in 0 .. WordSize /\ i \in 0 .. b - 1
    BY <1>0, <1>2
  <2>2. /\ Above(t, i) = 2 * Above(t, i + 1) + BitOf(t, i) /\ BitOf(t, i) = 1
        /\ Above(t, i + 1) \in Nat
    BY <2>1, AboveHalves
  <2>3. /\ Above(t + 1, i) = 2 * Above(t + 1, i + 1) + BitOf(t + 1, i)
        /\ BitOf(t + 1, i) \in {0, 1} /\ Above(t + 1, i + 1) \in Nat
    BY <1>0, <2>1, AboveHalves
  <2>4. Above(t + 1, i) = Above(t, i) + 1
    BY <1>2
  <2>5. Above(t + 1, i + 1) = Above(t, i + 1) + 1 /\ BitOf(t + 1, i) = 0
    BY <2>2, <2>3, <2>4
  <2> QED BY <2>5
<1> HIDE DEF S
<1>3. \A i \in 0 .. b : i \in S
  BY <1>0, <1>1, <1>2, K!IntervalInduction
<1>4. \A i \in 0 .. b : Above(t + 1, i) = Above(t, i) + 1
  BY <1>3 DEF S
<1>5. ASSUME NEW i \in 0 .. b - 1 PROVE BitOf(t + 1, i) = 0
  <2>1. i \in Nat /\ i < b /\ i \in 0 .. b
    BY <1>0
  <2> QED BY <1>2, <1>3, <2>1
<1> QED BY <1>4, <1>5

\* There the bit is set, the ones below are cleared and the ones above stay.
LEMMA Carry ==
    ASSUME NEW t \in Nat, NEW b \in 0 .. WordSize - 1, LowestZero(t, b)
    PROVE  /\ \A i \in 0 .. b - 1 : BitOf(t + 1, i) = 0
           /\ BitOf(t + 1, b) = 1
           /\ \A i \in b + 1 .. WordSize : Above(t + 1, i) = Above(t, i)
                                           /\ BitOf(t + 1, i) = BitOf(t, i)
<1>0. t + 1 \in Nat /\ b \in Nat /\ WordSize \in Nat /\ b \in 0 .. WordSize
  BY WordIsWide
<1>1. /\ Above(t + 1, b) = Above(t, b) + 1 /\ \A i \in 0 .. b - 1 : BitOf(t + 1, i) = 0
  <2>1. b \in 0 .. b
    BY <1>0
  <2> QED BY <1>0, <2>1, CarryRises DEF LowestZero
<1>2. /\ Above(t, b) = 2 * Above(t, b + 1) + BitOf(t, b) /\ BitOf(t, b) = 0
      /\ Above(t + 1, b) = 2 * Above(t + 1, b + 1) + BitOf(t + 1, b) /\ BitOf(t + 1, b) \in {0, 1}
  BY <1>0, AboveHalves DEF LowestZero
<1>3. Above(t, b + 1) \in Nat /\ Above(t + 1, b + 1) \in Nat
  <2>1. b + 1 \in 0 .. WordSize
    BY <1>0
  <2> QED BY <1>0, <2>1, AboveHalves
<1>4. Above(t + 1, b + 1) = Above(t, b + 1) /\ BitOf(t + 1, b) = 1
  BY <1>1, <1>2, <1>3
<1> DEFINE S == {i \in Nat : Above(t + 1, i) = Above(t, i)}
<1>5. b + 1 \in S
  BY <1>0, <1>4
<1>6. ASSUME NEW i \in Nat, b + 1 <= i, i < WordSize, i \in S PROVE i + 1 \in S
  <2>1. i \in 0 .. WordSize - 1 /\ i + 1 \in 0 .. WordSize /\ i \in 0 .. WordSize
    BY <1>0, <1>6
  <2>2. /\ Above(t, i) = 2 * Above(t, i + 1) + BitOf(t, i) /\ BitOf(t, i) \in {0, 1}
        /\ Above(t, i + 1) \in Nat
    BY <2>1, AboveHalves
  <2>3. /\ Above(t + 1, i) = 2 * Above(t + 1, i + 1) + BitOf(t + 1, i)
        /\ BitOf(t + 1, i) \in {0, 1} /\ Above(t + 1, i + 1) \in Nat
    BY <1>0, <2>1, AboveHalves
  <2>4. Above(t + 1, i) = Above(t, i)
    BY <1>6
  <2>5. Above(t + 1, i + 1) = Above(t, i + 1)
    BY <2>2, <2>3, <2>4
  <2> QED BY <2>5
<1> HIDE DEF S
<1>7. \A i \in b + 1 .. WordSize : i \in S
  <2>1. b + 1 \in Nat
    BY <1>0
  <2> QED BY <1>0, <1>5, <1>6, <2>1, K!IntervalInduction
<1>8. ASSUME NEW i \in b + 1 .. WordSize
      PROVE  Above(t + 1, i) = Above(t, i) /\ BitOf(t + 1, i) = BitOf(t, i)
  <2>1. i \in 0 .. WordSize
    BY <1>0
  <2>2. Above(t + 1, i) = Above(t, i)
    BY <1>7 DEF S
  <2> QED BY <1>0, <2>1, <2>2, AboveHalves
<1> QED BY <1>1, <1>4, <1>8

\* A period that is not the last of a tree has a lowest bit that is not set, and
\* the next period is in the tree; the last period has all of its bits set.
LEMMA LastPeriod ==
    ASSUME NEW d \in 0 .. WordSize, NEW t \in 0 .. two_to(d) - 1
    PROVE  /\ t + 1 < two_to(d) => \E b \in 0 .. d - 1 : LowestZero(t, b)
           /\ \A b \in 0 .. d - 1 : LowestZero(t, b) => t + 1 < two_to(d)
           /\ t + 1 = two_to(d) => \A i \in 0 .. d - 1 : BitOf(t, i) = 1
<1>0. /\ d \in Nat /\ WordSize \in Nat /\ two_to(d) \in Nat /\ t \in Nat /\ t + 1 \in Nat
      /\ t < two_to(d)
  BY WordIsWide, TwoTo
<1>1. ASSUME NEW b \in 0 .. d - 1, LowestZero(t, b) PROVE t + 1 < two_to(d)
  <2>1. b \in 0 .. WordSize - 1 /\ d \in b + 1 .. WordSize
    BY <1>0
  <2>2. Above(t + 1, d) = Above(t, d)
    BY <1>0, <1>1, <2>1, Carry
  <2> QED BY <1>0, <2>2, BitsBelow
<1>2. ASSUME NEW j \in 0 .. d - 1, BitOf(t, j) = 0 PROVE \E b \in 0 .. d - 1 : LowestZero(t, b)
  <2> DEFINE Z == {i \in Nat : i < d /\ BitOf(t, i) = 0}
  <2>1. Z \subseteq Nat /\ j \in Z
    BY <1>0, <1>2
  <2>2. PICK b \in Z : \A i \in Z : b <= i
    <3> HIDE DEF Z
    <3> QED BY <2>1, K!LeastNatural
  <2>3. b \in 0 .. d - 1 /\ BitOf(t, b) = 0
    BY <1>0, <2>2
  <2>4. ASSUME NEW i \in 0 .. b - 1 PROVE BitOf(t, i) = 1
    <3>1. i \in Nat /\ i < b /\ i < d /\ i \in 0 .. WordSize
      BY <1>0, <2>3
    <3>2. i \notin Z
      BY <2>2, <2>3, <3>1
    <3>3. BitOf(t, i) # 0
      BY <3>1, <3>2
    <3> QED BY <1>0, <3>1, <3>3, AboveHalves
  <2> QED BY <2>3, <2>4 DEF LowestZero
<1>3. ASSUME \A i \in 0 .. d - 1 : BitOf(t, i) = 1 PROVE ~(t + 1 < two_to(d))
  <2>1. d \in 0 .. d
    BY <1>0
  <2>2. Above(t + 1, d) = Above(t, d) + 1
    BY <1>0, <1>3, <2>1, CarryRises
  <2>3. Above(t, d) = 0
    BY <1>0, BitsBelow
  <2>4. Above(t + 1, d) # 0
    BY <2>2, <2>3
  <2> QED BY <1>0, <2>4, BitsBelow
<1>4. \A i \in 0 .. d - 1 : BitOf(t, i) \in {0, 1}
  <2>1. \A i \in 0 .. d - 1 : i \in 0 .. WordSize
    BY <1>0
  <2> QED BY <1>0, <2>1, AboveHalves
<1>5. t + 1 < two_to(d) => \E b \in 0 .. d - 1 : LowestZero(t, b)
  BY <1>2, <1>3, <1>4
<1>6. t + 1 = two_to(d) => \A i \in 0 .. d - 1 : BitOf(t, i) = 1
  <2> SUFFICES ASSUME t + 1 = two_to(d), NEW i \in 0 .. d - 1, BitOf(t, i) = 0 PROVE FALSE
    BY <1>4
  <2>1. PICK b \in 0 .. d - 1 : LowestZero(t, b)
    BY <1>2
  <2>2. t + 1 < two_to(d)
    BY <1>1, <2>1
  <2> QED BY <1>0, <2>2
<1> QED BY <1>1, <1>5, <1>6

\* The levels from k up at which a period goes left, and their number.
Lefts(t, k, d) == {i \in k .. d - 1 : BitOf(t, i) = 0}
LeftCount(t, k, d) == Cardinality(Lefts(t, k, d))

\* They are counted from the top.
LEMMA CountLefts ==
    ASSUME NEW d \in 0 .. WordSize, NEW t \in Nat, NEW k \in 0 .. d
    PROVE  /\ LeftCount(t, k, d) \in Nat /\ LeftCount(t, k, d) <= d - k
           /\ k < d => LeftCount(t, k, d)
                        = LeftCount(t, k + 1, d) + (IF BitOf(t, k) = 0 THEN 1 ELSE 0)
<1>0. d \in Nat /\ k \in Nat /\ WordSize \in Nat
  BY WordIsWide
<1>1. ASSUME NEW j \in Nat
      PROVE  IsFiniteSet(Lefts(t, j, d)) /\ LeftCount(t, j, d) \in Nat
  <2>1. IsFiniteSet(j .. d - 1)
    BY <1>0, FS_Interval
  <2>2. Lefts(t, j, d) \subseteq j .. d - 1
    BY DEF Lefts
  <2> QED BY <2>1, <2>2, FS_Subset, FS_CardinalityType DEF LeftCount
<1>2. LeftCount(t, k, d) <= d - k
  <2>1. IsFiniteSet(k .. d - 1)
    BY <1>0, FS_Interval
  <2>2. Lefts(t, k, d) \subseteq k .. d - 1
    BY DEF Lefts
  <2>3. Cardinality(k .. d - 1) = d - k
    <3>1. PICK e \in Int : e = d - 1
      BY <1>0
    <3>2. Cardinality(k .. e) = IF k > e THEN 0 ELSE e - k + 1
      BY <1>0, FS_Interval
    <3>3. d - k >= 0 /\ (k > e => d - k = 0) /\ e - k + 1 = d - k
      BY <1>0, <3>1
    <3> QED BY <3>1, <3>2, <3>3
  <2>4. Cardinality(Lefts(t, k, d)) <= Cardinality(k .. d - 1)
    BY <2>1, <2>2, FS_Subset
  <2> QED BY <2>3, <2>4 DEF LeftCount
<1>3. ASSUME k < d
      PROVE  LeftCount(t, k, d) = LeftCount(t, k + 1, d) + (IF BitOf(t, k) = 0 THEN 1 ELSE 0)
  <2>1. k \notin Lefts(t, k + 1, d)
    BY <1>0 DEF Lefts
  <2>2. \A i : i \in k .. d - 1 <=> i = k \/ i \in k + 1 .. d - 1
    BY <1>0, <1>3
  <2>3. CASE BitOf(t, k) = 0
    <3>1. Lefts(t, k, d) = Lefts(t, k + 1, d) \cup {k}
      BY <2>2, <2>3 DEF Lefts
    <3>2. IsFiniteSet(Lefts(t, k + 1, d))
      BY <1>0, <1>1
    <3>3. Cardinality(Lefts(t, k + 1, d) \cup {k}) = Cardinality(Lefts(t, k + 1, d)) + 1
      BY <2>1, <3>2, FS_AddElement
    <3> QED BY <2>3, <3>1, <3>3 DEF LeftCount
  <2>4. CASE BitOf(t, k) # 0
    <3>1. Lefts(t, k, d) = Lefts(t, k + 1, d)
      BY <2>2, <2>4 DEF Lefts
    <3>2. LeftCount(t, k + 1, d) \in Nat
      BY <1>0, <1>1
    <3> QED BY <2>4, <3>1, <3>2 DEF LeftCount
  <2> QED BY <2>3, <2>4
<1> QED BY <1>0, <1>1, <1>2, <1>3

\* More levels have no fewer of them.
LEMMA CountGrows ==
    ASSUME NEW d \in 0 .. WordSize, NEW t \in Nat, NEW k \in 0 .. d, NEW j \in k .. d
    PROVE  LeftCount(t, j, d) <= LeftCount(t, k, d)
<1>0. d \in Nat /\ k \in Nat /\ j \in Nat
  BY WordIsWide
<1>1. IsFiniteSet(Lefts(t, k, d))
  <2>1. IsFiniteSet(k .. d - 1)
    BY <1>0, FS_Interval
  <2>2. Lefts(t, k, d) \subseteq k .. d - 1
    BY DEF Lefts
  <2> QED BY <2>1, <2>2, FS_Subset
<1>2. Lefts(t, j, d) \subseteq Lefts(t, k, d)
  BY <1>0 DEF Lefts
<1> QED BY <1>1, <1>2, FS_Subset DEF LeftCount

\* Every number up to the count is the rank of one of them.
LEMMA RankOfLeft ==
    ASSUME NEW d \in 0 .. WordSize, NEW t \in Nat
    PROVE  \A j \in 1 .. LeftCount(t, 0, d) :
              \E i \in 0 .. d - 1 : BitOf(t, i) = 0 /\ LeftCount(t, i, d) = j
<1>0. d \in Nat /\ WordSize \in Nat
  BY WordIsWide
<1> DEFINE Good(k) == \A j \in 1 .. LeftCount(t, k, d) :
                        \E i \in k .. d - 1 : BitOf(t, i) = 0 /\ LeftCount(t, i, d) = j
           S == {n \in Nat : n <= d => Good(d - n)}
<1>1. 0 \in S
  <2>1. d \in 0 .. d /\ d - d = 0 /\ d - 0 = d
    BY <1>0
  <2>2. LeftCount(t, d, d) \in Nat /\ LeftCount(t, d, d) <= d - d
    BY <2>1, CountLefts
  <2>3. Good(d)
    BY <2>1, <2>2
  <2> QED BY <2>1, <2>3
<1>2. ASSUME NEW n \in Nat, n \in S PROVE n + 1 \in S
  <2> SUFFICES ASSUME n + 1 <= d PROVE Good(d - (n + 1))
    OBVIOUS
  <2>1. PICK k \in Nat : k = d - (n + 1)
    BY <1>0
  <2>2. k + 1 = d - n /\ k \in 0 .. d /\ k < d /\ k \in k .. d - 1 /\ k + 1 \in 0 .. d
    BY <1>0, <2>1
  <2>3. Good(k + 1)
    BY <1>0, <1>2, <2>1, <2>2
  <2>4. /\ LeftCount(t, k, d) = LeftCount(t, k + 1, d) + (IF BitOf(t, k) = 0 THEN 1 ELSE 0)
        /\ LeftCount(t, k, d) \in Nat /\ LeftCount(t, k + 1, d) \in Nat
    BY <2>2, CountLefts
  <2>5. ASSUME NEW j \in 1 .. LeftCount(t, k, d)
        PROVE  \E i \in k .. d - 1 : BitOf(t, i) = 0 /\ LeftCount(t, i, d) = j
    <3>1. CASE j \in 1 .. LeftCount(t, k + 1, d)
      <4>1. PICK i \in k + 1 .. d - 1 : BitOf(t, i) = 0 /\ LeftCount(t, i, d) = j
        BY <2>3, <3>1
      <4>2. i \in k .. d - 1
        BY <1>0, <2>2
      <4> QED BY <4>1, <4>2
    <3>2. CASE j \notin 1 .. LeftCount(t, k + 1, d)
      <4>1. BitOf(t, k) = 0 /\ j = LeftCount(t, k, d)
        BY <2>4, <3>2
      <4> QED BY <2>2, <4>1
    <3> QED BY <3>1, <3>2
  <2>6. Good(k)
    BY <2>5
  <2> QED BY <2>1, <2>6
<1> HIDE DEF S
<1>3. Nat \subseteq S
  BY <1>1, <1>2, K!NaturalInduction
<1>4. d \in S /\ d <= d /\ d - d = 0
  BY <1>0, <1>3
<1>5. Good(0)
  <2>1. Good(d - d)
    BY <1>4 DEF S
  <2> HIDE DEF Good
  <2> QED BY <1>4, <2>1
<1> QED BY <1>5

\* Where the bits agree so do the counts.
LEMMA SameLefts ==
    ASSUME NEW d, NEW t, NEW u, NEW k, \A i \in k .. d - 1 : BitOf(t, i) = BitOf(u, i)
    PROVE  LeftCount(t, k, d) = LeftCount(u, k, d)
<1>1. Lefts(t, k, d) = Lefts(u, k, d)
  BY DEF Lefts
<1> QED BY <1>1 DEF LeftCount

\* The number of right seeds is the number of levels at which the period goes left.
LEMMA SeedsLeft ==
    ASSUME NEW d \in 0 .. WordSize, NEW t \in 0 .. total(d) - 1
    PROVE  rs_from_period(d, t) = LeftCount(t, 0, d)
<1>0. d \in Nat /\ WordSize \in Nat /\ two_to(d) \in Nat /\ two_to(d) > 0
  BY WordIsWide, TwoTo
<1>1. t \in Nat /\ t < two_to(d)
  BY <1>0 DEF total
<1> DEFINE ones(u) == {i \in 0 .. WordSize : BitOf(u, i) = 1}
<1>2. ASSUME NEW u \in Nat, u < two_to(d)
      PROVE  ones(u) = {i \in 0 .. d - 1 : BitOf(u, i) = 1}
  <2>1. \A i \in d .. WordSize : BitOf(u, i) = 0
    BY <1>2, BitsBelow
  <2>2. \A i \in 0 .. WordSize : i \in 0 .. d - 1 \/ i \in d .. WordSize
    BY <1>0
  <2>3. \A i \in 0 .. d - 1 : i \in 0 .. WordSize
    BY <1>0
  <2> QED BY <2>1, <2>2, <2>3
<1>3. IsFiniteSet(0 .. d - 1) /\ Cardinality(0 .. d - 1) = d
  <2>1. PICK e \in Int : e = d - 1
    BY <1>0
  <2>2. IsFiniteSet(0 .. e) /\ Cardinality(0 .. e) = IF 0 > e THEN 0 ELSE e - 0 + 1
    BY FS_Interval
  <2>3. (0 > e => d = 0) /\ e - 0 + 1 = d
    BY <1>0, <2>1
  <2> QED BY <2>1, <2>2, <2>3
<1>4. count_ones(total(d) - 1) = d
  <2>1. PICK u \in Nat : u = two_to(d) - 1
    BY <1>0
  <2>2. u \in 0 .. two_to(d) - 1 /\ u < two_to(d) /\ u + 1 = two_to(d)
    BY <1>0, <2>1
  <2>3. \A i \in 0 .. d - 1 : BitOf(u, i) = 1
    BY <2>2, LastPeriod
  <2>4. ones(u) = 0 .. d - 1
    BY <1>2, <2>2, <2>3
  <2> QED BY <1>3, <2>1, <2>4 DEF count_ones, total
<1>5. PICK B : B = {i \in 0 .. d - 1 : BitOf(t, i) = 1}
  OBVIOUS
<1>6. count_ones(t) = Cardinality(B)
  BY <1>1, <1>2, <1>5 DEF count_ones
<1>7. Lefts(t, 0, d) = (0 .. d - 1) \ B
  <2>1. \A i \in 0 .. d - 1 : i \in 0 .. WordSize
    BY <1>0
  <2>2. \A i \in 0 .. d - 1 : BitOf(t, i) \in {0, 1}
    BY <1>1, <2>1, AboveHalves
  <2> QED BY <1>5, <2>2 DEF Lefts
<1>8. Cardinality((0 .. d - 1) \ B) = Cardinality(0 .. d - 1) - Cardinality((0 .. d - 1) \cap B)
  <2>1. IsFiniteSet(B)
    BY <1>3, <1>5, FS_Subset
  <2> QED BY <1>3, <2>1, FS_Difference
<1>9. (0 .. d - 1) \cap B = B
  BY <1>5
<1> QED BY <1>3, <1>4, <1>6, <1>7, <1>8, <1>9 DEF rs_from_period, LeftCount

\* The rest of a period in the tree above a level is in its upper half when the bit
\* is set.
LEMMA UpperHalf ==
    ASSUME NEW t \in Nat, NEW k \in 0 .. WordSize - 1
    PROVE  t % two_to(k + 1) >= two_to(k) <=> BitOf(t, k) = 1
<1>1. k \in 0 .. WordSize /\ k + 1 \in 0 .. WordSize
  BY WordIsWide
<1>2. PICK p \in Nat : p = two_to(k) /\ p > 0 /\ two_to(k + 1) = 2 * p
  BY <1>1, TwoTo
<1>3. /\ Above(t, k + 1) \in Nat /\ BitOf(t, k) \in {0, 1}
      /\ Above(t, k) = 2 * Above(t, k + 1) + BitOf(t, k)
  BY <1>1, AboveHalves
<1>h. PICK h \in Nat : h = Above(t, k + 1)
  BY <1>3
<1>c. PICK c \in {0, 1} : c = BitOf(t, k)
  BY <1>3
<1>a. Above(t, k) = 2 * h + c
  BY <1>3, <1>h, <1>c
<1>4. PICK r \in Nat : r < p /\ t = p * (2 * h + c) + r
  <2>1. t % p \in Nat /\ t % p < p /\ t = p * (t \div p) + (t % p)
    BY <1>2, Quotient
  <2>2. t \div p = 2 * h + c
    BY <1>2, <1>a DEF Above
  <2> QED BY <2>1, <2>2
<1>5. PICK s \in Nat : s = p * c + r
  OBVIOUS
<1>6. s < 2 * p /\ (s >= p <=> c = 1)
  <2>1. CASE c = 0
    BY <1>2, <1>4, <1>5, <2>1
  <2>2. CASE c = 1
    BY <1>2, <1>4, <1>5, <2>2
  <2> QED BY <2>1, <2>2
<1>7. t = (2 * p) * h + s
  <2>1. p * (2 * h + c) = p * (2 * h) + p * c
    OBVIOUS
  <2>2. p * (2 * h) = (2 * p) * h
    OBVIOUS
  <2> QED BY <1>4, <1>5, <2>1, <2>2
<1>8. t % (2 * p) = s
  <2>1. PICK d \in Nat : d = 2 * p /\ d > 0
    BY <1>2
  <2>2. t = d * h + s /\ s < d
    BY <1>6, <1>7, <2>1
  <2>3. t % d = s
    BY <2>1, <2>2, QuotientUnique
  <2> QED BY <2>1, <2>3
<1> QED BY <1>2, <1>c, <1>6, <1>8

-----------------------------------------------------------------------------
(* The order of periods. *)

\* Two periods of a tree whose bits agree from a level up have the same rest there.
LEMMA SameAbove ==
    ASSUME NEW d \in 0 .. WordSize, NEW t \in 0 .. two_to(d) - 1, NEW u \in 0 .. two_to(d) - 1,
           NEW k \in 0 .. d, \A i \in k .. d - 1 : BitOf(t, i) = BitOf(u, i)
    PROVE  Above(t, k) = Above(u, k)
<1>0. d \in Nat /\ k \in Nat /\ WordSize \in Nat /\ t \in Nat /\ u \in Nat /\ d - k \in Nat
      /\ two_to(d) \in Nat /\ t < two_to(d) /\ u < two_to(d)
  BY WordIsWide, TwoTo
<1> DEFINE S == {n \in Nat : n <= d - k => Above(t, d - n) = Above(u, d - n)}
<1>1. 0 \in S
  <2>1. d \in d .. WordSize /\ d - 0 = d
    BY <1>0
  <2>2. Above(t, d) = 0 /\ Above(u, d) = 0
    BY <1>0, <2>1, BitsBelow
  <2> QED BY <2>1, <2>2
<1>2. ASSUME NEW n \in Nat, n \in S PROVE n + 1 \in S
  <2> SUFFICES ASSUME n + 1 <= d - k PROVE Above(t, d - (n + 1)) = Above(u, d - (n + 1))
    OBVIOUS
  <2>1. PICK i \in Nat : i = d - (n + 1)
    BY <1>0
  <2>2. i + 1 = d - n /\ i \in k .. d - 1 /\ i \in 0 .. WordSize - 1 /\ n <= d - k
    BY <1>0, <2>1
  <2>3. Above(t, i + 1) = Above(u, i + 1) /\ BitOf(t, i) = BitOf(u, i)
    BY <1>2, <2>2
  <2>4. /\ Above(t, i) = 2 * Above(t, i + 1) + BitOf(t, i)
        /\ Above(u, i) = 2 * Above(u, i + 1) + BitOf(u, i)
    BY <1>0, <2>2, AboveHalves
  <2> QED BY <2>1, <2>3, <2>4
<1> HIDE DEF S
<1>3. Nat \subseteq S
  BY <1>1, <1>2, K!NaturalInduction
<1>4. d - k \in S
  BY <1>0, <1>3
<1>5. d - (d - k) = k
  BY <1>0
<1> QED BY <1>0, <1>4, <1>5 DEF S

\* A rest that is smaller is so down to the lowest bit.
LEMMA SmallerAbove ==
    ASSUME NEW t \in Nat, NEW u \in Nat, NEW k \in 0 .. WordSize, Above(t, k) < Above(u, k)
    PROVE  t < u
<1>0. k \in Nat /\ WordSize \in Nat /\ k <= WordSize
  BY WordIsWide
<1> DEFINE S == {n \in Nat : n <= k => Above(t, k - n) < Above(u, k - n)}
<1>1. 0 \in S
  <2>1. k - 0 = k
    BY <1>0
  <2> QED BY <2>1
<1>2. ASSUME NEW n \in Nat, n \in S PROVE n + 1 \in S
  <2> SUFFICES ASSUME n + 1 <= k PROVE Above(t, k - (n + 1)) < Above(u, k - (n + 1))
    OBVIOUS
  <2>1. PICK i \in Nat : i = k - (n + 1)
    BY <1>0
  <2>2. i + 1 = k - n /\ i \in 0 .. WordSize - 1 /\ n <= k /\ i \in 0 .. WordSize
        /\ i + 1 \in 0 .. WordSize
    BY <1>0, <2>1
  <2>3. Above(t, i + 1) < Above(u, i + 1)
    BY <1>2, <2>2
  <2>4. /\ Above(t, i) = 2 * Above(t, i + 1) + BitOf(t, i) /\ BitOf(t, i) \in {0, 1}
        /\ Above(t, i + 1) \in Nat
    BY <2>2, AboveHalves
  <2>5. /\ Above(u, i) = 2 * Above(u, i + 1) + BitOf(u, i) /\ BitOf(u, i) \in {0, 1}
        /\ Above(u, i + 1) \in Nat
    BY <2>2, AboveHalves
  <2>6. Above(t, i) < Above(u, i)
    BY <2>3, <2>4, <2>5
  <2> QED BY <2>1, <2>6
<1> HIDE DEF S
<1>3. k \in S
  BY <1>0, <1>1, <1>2, K!NaturalInduction
<1>4. k - k = 0 /\ k <= k
  BY <1>0
<1> QED BY <1>3, <1>4, AboveHalves DEF S

\* u leaves the path of t to the right at the level k.
Branches(t, u, k, d) ==
    /\ BitOf(t, k) = 0 /\ BitOf(u, k) = 1
    /\ \A i \in k + 1 .. d - 1 : BitOf(t, i) = BitOf(u, i)

\* A branch to the right is a later period.
LEMMA BranchIsLater ==
    ASSUME NEW d \in 0 .. WordSize, NEW t \in 0 .. two_to(d) - 1, NEW u \in 0 .. two_to(d) - 1,
           NEW k \in 0 .. d - 1, Branches(t, u, k, d)
    PROVE  t < u
<1>0. t \in Nat /\ u \in Nat /\ k \in 0 .. WordSize /\ k \in 0 .. WordSize - 1 /\ k + 1 \in 0 .. d
      /\ k + 1 \in 0 .. WordSize
  BY WordIsWide
<1>1. Above(t, k + 1) = Above(u, k + 1)
  BY <1>0, SameAbove DEF Branches
<1>2. /\ Above(t, k) = 2 * Above(t, k + 1) + 0 /\ Above(u, k) = 2 * Above(u, k + 1) + 1
      /\ Above(t, k + 1) \in Nat
  BY <1>0, AboveHalves DEF Branches
<1>3. Above(t, k) < Above(u, k)
  BY <1>1, <1>2
<1> QED BY <1>0, <1>3, SmallerAbove

\* The later periods of a tree are the ones that branch to the right.
LEMMA LaterBranches ==
    ASSUME NEW d \in 0 .. WordSize, NEW t \in 0 .. two_to(d) - 1, NEW u \in 0 .. two_to(d) - 1
    PROVE  /\ t < u <=> \E k \in 0 .. d - 1 : Branches(t, u, k, d)
           /\ t = u <=> \A i \in 0 .. d - 1 : BitOf(t, i) = BitOf(u, i)
<1>0. d \in Nat /\ t \in Nat /\ u \in Nat /\ 0 \in 0 .. d
  BY WordIsWide
<1>1. ASSUME \A i \in 0 .. d - 1 : BitOf(t, i) = BitOf(u, i) PROVE t = u
  <2>1. Above(t, 0) = Above(u, 0)
    BY <1>0, <1>1, SameAbove
  <2> QED BY <1>0, <2>1, AboveHalves
<1>2. ASSUME t < u PROVE \E k \in 0 .. d - 1 : Branches(t, u, k, d)
  <2> DEFINE D == {i \in Nat : i < d /\ BitOf(t, i) # BitOf(u, i)}
  <2>1. t # u
    BY <1>0, <1>2
  <2>2. D # {}
    <3>1. PICK i \in 0 .. d - 1 : BitOf(t, i) # BitOf(u, i)
      BY <1>1, <2>1
    <3>2. i \in D
      BY <1>0, <3>1
    <3> QED BY <3>2
  <2>3. PICK k \in D : \A i \in D : i <= k
    <3>1. D \subseteq Nat /\ \A i \in D : i <= d
      BY <1>0
    <3> HIDE DEF D
    <3> QED BY <1>0, <2>2, <3>1, K!GreatestNatural
  <2>4. k \in 0 .. d - 1 /\ BitOf(t, k) # BitOf(u, k) /\ k \in 0 .. WordSize
    BY <1>0, WordIsWide
  <2>5. ASSUME NEW i \in k + 1 .. d - 1 PROVE BitOf(t, i) = BitOf(u, i)
    <3>1. i \in Nat /\ i < d /\ ~(i <= k)
      BY <1>0, <2>4
    <3> QED BY <2>3, <3>1
  <2>6. BitOf(t, k) \in {0, 1} /\ BitOf(u, k) \in {0, 1}
    BY <1>0, <2>4, AboveHalves
  <2>7. CASE BitOf(t, k) = 0
    <3>1. Branches(t, u, k, d)
      BY <2>4, <2>5, <2>6, <2>7 DEF Branches
    <3> QED BY <2>4, <3>1
  <2>8. CASE BitOf(t, k) = 1
    <3>1. Branches(u, t, k, d)
      BY <2>4, <2>5, <2>6, <2>8 DEF Branches
    <3>2. u < t
      BY <2>4, <3>1, BranchIsLater
    <3> QED BY <1>0, <1>2, <3>2
  <2> QED BY <2>6, <2>7, <2>8
<1> QED BY <1>1, <1>2, BranchIsLater

-----------------------------------------------------------------------------
(* Seeds and paths. *)

Ones(n) == [i \in 1 .. n |-> 1]

\* Sequences with the same elements are the same.
LEMMA SameSequence ==
    ASSUME NEW S, NEW s \in Seq(S), NEW T, NEW r \in Seq(T), Len(s) = Len(r),
           \A i \in 1 .. Len(s) : s[i] = r[i]
    PROVE  s = r
OBVIOUS

\* The seed of a child.
LEMMA ChildSeed ==
    ASSUME NEW s \in Seeds, NEW x \in 0 .. 2
    PROVE  /\ Append(s, x) \in Seeds /\ Len(Append(s, x)) = Len(s) + 1
           /\ Append(s, x)[Len(s) + 1] = x /\ \A i \in 1 .. Len(s) : Append(s, x)[i] = s[i]
BY DEF Seeds

\* A path as a list of turns behind a seed.
LEMMA Behind ==
    ASSUME NEW s \in Seeds, NEW n \in Nat, NEW f \in [1 .. n -> 0 .. 2]
    PROVE  /\ s \o f \in Seeds /\ Len(s \o f) = Len(s) + n
           /\ \A i \in 1 .. Len(s) : (s \o f)[i] = s[i]
           /\ \A i \in 1 .. n : (s \o f)[Len(s) + i] = f[i]
<1>1. f \in Seq(0 .. 2) /\ Len(f) = n
  OBVIOUS
<1> QED BY <1>1 DEF Seeds

\* One more turn to the left.
LEMMA OnesGrow ==
    ASSUME NEW s \in Seeds, NEW n \in Nat
    PROVE  /\ s \o Ones(0) = s /\ s \o Ones(n) \in Seeds
           /\ Append(s \o Ones(n), 1) = s \o Ones(n + 1)
<1>0. Len(s) \in Nat
  BY DEF Seeds
<1>1. ASSUME NEW k \in Nat PROVE Ones(k) \in [1 .. k -> 0 .. 2]
  BY DEF Ones
<1>2. s \o Ones(n) \in Seeds /\ s \o Ones(n + 1) \in Seeds /\ s \o Ones(0) \in Seeds
  BY <1>1, Behind
<1>3. s \o Ones(0) = s
  <2>1. Len(s \o Ones(0)) = Len(s) + 0 /\ \A i \in 1 .. Len(s) : (s \o Ones(0))[i] = s[i]
    BY <1>1, Behind
  <2>2. Len(s \o Ones(0)) = Len(s)
    BY <1>0, <2>1
  <2> QED BY <1>2, <2>1, <2>2, SameSequence DEF Seeds
<1>4. PICK p : p = s \o Ones(n)
  OBVIOUS
<1>5. PICK q : q = s \o Ones(n + 1)
  OBVIOUS
<1>6. /\ p \in Seeds /\ Len(p) = Len(s) + n
      /\ \A i \in 1 .. Len(s) : p[i] = s[i]
      /\ \A i \in 1 .. n : p[Len(s) + i] = 1
  <2>1. \A i \in 1 .. n : Ones(n)[i] = 1
    BY DEF Ones
  <2> QED BY <1>1, <1>4, <2>1, Behind
<1>7. /\ q \in Seeds /\ Len(q) = Len(s) + (n + 1)
      /\ \A i \in 1 .. Len(s) : q[i] = s[i]
      /\ \A i \in 1 .. n + 1 : q[Len(s) + i] = 1
  <2>1. \A i \in 1 .. n + 1 : Ones(n + 1)[i] = 1
    BY DEF Ones
  <2>2. n + 1 \in Nat
    OBVIOUS
  <2> QED BY <1>1, <1>5, <2>1, <2>2, Behind
<1>8. /\ Append(p, 1) \in Seeds /\ Len(Append(p, 1)) = Len(p) + 1
      /\ Append(p, 1)[Len(p) + 1] = 1 /\ \A i \in 1 .. Len(p) : Append(p, 1)[i] = p[i]
  BY <1>6, ChildSeed
<1>9. ASSUME NEW i \in 1 .. Len(q) PROVE Append(p, 1)[i] = q[i]
  <2>1. CASE i \in 1 .. Len(s)
    <3>1. i \in 1 .. Len(p)
      BY <1>0, <1>6, <2>1
    <3> QED BY <1>6, <1>7, <1>8, <2>1, <3>1
  <2>2. CASE i \notin 1 .. Len(s)
    <3>1. PICK j \in 1 .. n + 1 : i = Len(s) + j
      <4>1. i - Len(s) \in 1 .. n + 1 /\ i = Len(s) + (i - Len(s))
        BY <1>0, <1>7, <2>2
      <4> QED BY <4>1
    <3>2. CASE j = n + 1
      <4>1. i = Len(p) + 1
        BY <1>0, <1>6, <3>1, <3>2
      <4> QED BY <1>7, <1>8, <3>1, <4>1
    <3>3. CASE j # n + 1
      <4>1. j \in 1 .. n /\ i \in 1 .. Len(p)
        BY <1>0, <1>6, <3>1, <3>3
      <4> QED BY <1>6, <1>7, <1>8, <3>1, <4>1
    <3> QED BY <3>2, <3>3
  <2> QED BY <2>1, <2>2
<1>10. Len(Append(p, 1)) = Len(q)
  BY <1>0, <1>6, <1>7, <1>8
<1>11. Append(p, 1) = q
  BY <1>7, <1>8, <1>9, <1>10, SameSequence DEF Seeds
<1> QED BY <1>2, <1>3, <1>4, <1>5, <1>11

-----------------------------------------------------------------------------
(* Public keys are the roots of trees. *)

NextTree(g, x, env) == [s \in Seeds |-> hash(g[Append(s, 1)], g[Append(s, 2)])]

Y == INSTANCE FoldTheorems WITH Op <- NextTree

\* g[d][s] is the public key of the tree of depth d below the seed s.
IsTree(g) ==
    /\ g = [i \in 0 .. WordSize |-> g[i]]
    /\ g[0] = [s \in Seeds |-> keygen_1(s).public]
    /\ \A i \in 1 .. WordSize :
        g[i] = [s \in Seeds |-> hash(g[i - 1][Append(s, 1)], g[i - 1][Append(s, 2)])]

\* There are such trees.
LEMMA TreesExist == \E g : IsTree(g)
<1>1. PICK seq : seq = [i \in 1 .. WordSize |-> i]
  OBVIOUS
<1>2. PICK n \in Nat : n = WordSize /\ Len(seq) = n
  BY <1>1, WordIsWide
<1>3. PICK base : base = [s \in Seeds |-> keygen_1(s).public]
  OBVIOUS
<1>4. PICK g : Y!IsLoopOn(g, base, seq, 0, 1 .. n)
  BY <1>2, Y!LoopExists
<1>5. /\ DOMAIN g = 0 .. n /\ g[0] = base
      /\ \A i \in 1 .. n : g[i] = NextTree(g[i - 1], seq[i], 0)
  BY <1>2, <1>4 DEF Y!IsLoopOn
<1>6. PICK h : h = [i \in 0 .. n |-> g[i]]
  OBVIOUS
<1>7. /\ h = [i \in 0 .. n |-> h[i]] /\ h[0] = base
      /\ \A i \in 1 .. n : h[i] = NextTree(h[i - 1], seq[i], 0)
  BY <1>5, <1>6
<1>8. IsTree(h)
  BY <1>2, <1>3, <1>7 DEF IsTree, NextTree
<1> QED BY <1>8

JoinRight(pk, right, env) == hash(pk, right)

J == INSTANCE FoldTheorems WITH Op <- JoinRight

\* The right trees beside the leftmost path of a tree, from the leaf up.
RightsOf(f, depth, master) ==
    [level \in 1 .. depth |-> f[level - 1][generate_leftmost_rs(depth, master).rs[depth - level + 1]]]

Root(f, depth, master) ==
    IF depth = 0
    THEN keygen_1(master).public
    ELSE FoldLeft(hash, generate_leftmost_rs(depth, master).keypair.public,
                  RightsOf(f, depth, master))

\* The leftmost path.
LEMMA Spine ==
    ASSUME NEW depth \in Nat, NEW master \in Seeds
    PROVE  /\ DOMAIN generate_leftmost_rs(depth, master).rs = 1 .. depth
           /\ \A i \in 1 .. depth :
                generate_leftmost_rs(depth, master).rs[i] = Append(master \o Ones(i - 1), 2)
           /\ depth > 0 => generate_leftmost_rs(depth, master).keypair
                            = keygen_1(master \o Ones(depth))
<1>1. /\ DOMAIN generate_leftmost_rs(depth, master).rs = 1 .. depth
      /\ \A i \in 1 .. depth :
           generate_leftmost_rs(depth, master).rs[i] = Append(master \o Ones(i - 1), 2)
  BY DEF generate_leftmost_rs, split_seed, Ones
<1>2. ASSUME depth > 0
      PROVE  generate_leftmost_rs(depth, master).keypair = keygen_1(master \o Ones(depth))
  <2>1. PICK n \in Nat : n = depth - 1 /\ n + 1 = depth
    BY <1>2
  <2>2. Append(master \o Ones(n), 1) = master \o Ones(depth)
    <3>1. Append(master \o Ones(n), 1) = master \o Ones(n + 1)
      BY OnesGrow
    <3> QED BY <2>1, <3>1
  <2>3. generate_leftmost_rs(depth, master).keypair = keygen_1(Append(master \o Ones(depth - 1), 1))
    BY DEF generate_leftmost_rs, split_seed, Ones
  <2> QED BY <2>1, <2>2, <2>3
<1> QED BY <1>1, <1>2

\* In a tree: the right trees, and the trees to their left, are joined.
LEMMA JoinTree ==
    ASSUME NEW g, IsTree(g), NEW depth \in 1 .. WordSize, NEW master \in Seeds, NEW l \in 1 .. depth
    PROVE  /\ generate_leftmost_rs(depth, master).rs[depth - l + 1]
                = Append(master \o Ones(depth - l), 2)
           /\ g[l][master \o Ones(depth - l)]
                = hash(g[l - 1][master \o Ones(depth - l + 1)],
                       g[l - 1][Append(master \o Ones(depth - l), 2)])
<1>0. depth \in Nat /\ l \in Nat /\ l \in 1 .. WordSize
  BY WordIsWide
<1>1. PICK n \in Nat : n = depth - l
  BY <1>0
<1>2. n + 1 \in 1 .. depth /\ depth - l + 1 = n + 1 /\ (n + 1) - 1 = n
  BY <1>0, <1>1
<1>3. generate_leftmost_rs(depth, master).rs[n + 1] = Append(master \o Ones(n), 2)
  BY <1>0, <1>2, Spine
<1>4. PICK s \in Seeds : s = master \o Ones(n) /\ Append(s, 1) = master \o Ones(n + 1)
  BY OnesGrow
<1>5. g[l][s] = hash(g[l - 1][Append(s, 1)], g[l - 1][Append(s, 2)])
  BY <1>0, <1>4 DEF IsTree
<1> QED BY <1>1, <1>2, <1>3, <1>4, <1>5

\* The root of a tree is what pkeygen computes from the smaller trees.
LEMMA RootOfTree ==
    ASSUME NEW g, IsTree(g), NEW f, NEW depth \in 0 .. WordSize, NEW master \in Seeds,
           \A i \in 0 .. depth - 1 : f[i] = g[i]
    PROVE  Root(f, depth, master) = g[depth][master]
<1>0. depth \in Nat /\ WordSize \in Nat
  BY WordIsWide
<1>1. CASE depth = 0
  BY <1>1 DEF Root, IsTree
<1>2. CASE depth # 0
  <2>0. depth \in 1 .. WordSize /\ depth > 0
    BY <1>0, <1>2
  <2>1. PICK seq : seq = RightsOf(f, depth, master)
    OBVIOUS
  <2>2. PICK base : base = g[0][master \o Ones(depth)]
    OBVIOUS
  <2>3. generate_leftmost_rs(depth, master).keypair.public = base
    <3>1. generate_leftmost_rs(depth, master).keypair = keygen_1(master \o Ones(depth))
      BY <1>0, <2>0, Spine
    <3>2. master \o Ones(depth) \in Seeds
      BY <1>0, OnesGrow
    <3> QED BY <2>2, <3>1, <3>2 DEF IsTree
  <2>4. /\ Len(seq) = depth /\ \E T : seq \in Seq(T)
        /\ \A l \in 1 .. depth : seq[l] = g[l - 1][Append(master \o Ones(depth - l), 2)]
    <3>1. ASSUME NEW l \in 1 .. depth
          PROVE  seq[l] = g[l - 1][Append(master \o Ones(depth - l), 2)]
      <4>1. l - 1 \in 0 .. depth - 1
        BY <1>0
      <4>2. f[l - 1] = g[l - 1]
        BY <4>1
      <4>3. generate_leftmost_rs(depth, master).rs[depth - l + 1]
                = Append(master \o Ones(depth - l), 2)
        BY <2>0, JoinTree
      <4> QED BY <2>1, <4>2, <4>3 DEF RightsOf
    <3>2. seq = [l \in 1 .. depth |-> seq[l]]
      BY <2>1 DEF RightsOf
    <3>3. seq \in Seq({seq[l] : l \in 1 .. depth}) /\ Len(seq) = depth
      BY <1>0, <3>2
    <3> QED BY <3>1, <3>3
  <2>5. Root(f, depth, master) = J!Fold(base, seq, 0)
    <3>1. Root(f, depth, master) = FoldLeft(hash, base, seq)
      BY <1>2, <2>1, <2>3 DEF Root
    <3>2. FoldLeft(hash, base, seq) = J!Fold(base, seq, 0)
      BY DEF J!Fold, J!Greatest, JoinRight, FoldLeft, MapThenFoldSet, Max
    <3> QED BY <3>1, <3>2
  <2>6. PICK h : J!IsLoop(h, base, seq, 0) /\ J!Fold(base, seq, 0) = h[Len(seq)]
    BY <2>4, J!FoldIsLoop
  <2> DEFINE S == {l \in Nat : h[l] = g[l][master \o Ones(depth - l)]}
  <2>7. 0 \in S
    <3>1. h[0] = base /\ depth - 0 = depth
      BY <1>0, <2>6 DEF J!IsLoop
    <3> QED BY <2>2, <3>1
  <2>8. ASSUME NEW l \in Nat, 0 <= l, l < depth, l \in S PROVE l + 1 \in S
    <3>1. l + 1 \in 1 .. depth /\ (l + 1) - 1 = l /\ depth - (l + 1) + 1 = depth - l
      BY <1>0, <2>8
    <3>2. h[l + 1] = hash(h[l], seq[l + 1])
      BY <2>4, <2>6, <3>1 DEF J!IsLoop, JoinRight
    <3>3. h[l] = g[l][master \o Ones(depth - l)]
      BY <2>8
    <3>4. seq[l + 1] = g[l][Append(master \o Ones(depth - (l + 1)), 2)]
      BY <2>4, <3>1
    <3>5. g[l + 1][master \o Ones(depth - (l + 1))]
            = hash(g[l][master \o Ones(depth - l)], g[l][Append(master \o Ones(depth - (l + 1)), 2)])
      <4>1. g[l + 1][master \o Ones(depth - (l + 1))]
              = hash(g[(l + 1) - 1][master \o Ones(depth - (l + 1) + 1)],
                     g[(l + 1) - 1][Append(master \o Ones(depth - (l + 1)), 2)])
        BY <2>0, <3>1, JoinTree
      <4> QED BY <3>1, <4>1
    <3>6. h[l + 1] = g[l + 1][master \o Ones(depth - (l + 1))]
      BY <3>2, <3>3, <3>4, <3>5
    <3> QED BY <3>6
  <2> HIDE DEF S
  <2>9. \A l \in 0 .. depth : l \in S
    BY <1>0, <2>7, <2>8, K!IntervalInduction
  <2>10. depth \in S /\ depth - depth = 0
    BY <1>0, <2>9
  <2>11. h[depth] = g[depth][master \o Ones(0)]
    BY <2>10 DEF S
  <2>12. master \o Ones(0) = master
    BY <1>0, OnesGrow
  <2> QED BY <2>4, <2>5, <2>6, <2>11, <2>12
<1> QED BY <1>1, <1>2

\* The equation that defines pkeygen.
Roots(f) == [depth \in 0 .. WordSize |-> [master \in Seeds |-> Root(f, depth, master)]]

\* A tree solves it.
LEMMA TreeSolves == ASSUME NEW g, IsTree(g) PROVE g = Roots(g)
<1>1. ASSUME NEW depth \in 0 .. WordSize PROVE g[depth] = [master \in Seeds |-> Root(g, depth, master)]
  <2>1. \A master \in Seeds : Root(g, depth, master) = g[depth][master]
    BY RootOfTree
  <2>2. g[depth] = [master \in Seeds |-> g[depth][master]]
    <3>1. CASE depth = 0
      BY <3>1 DEF IsTree
    <3>2. CASE depth # 0
      <4>1. depth \in 1 .. WordSize
        BY <3>2, WordIsWide
      <4> QED BY <4>1 DEF IsTree
    <3> QED BY <3>1, <3>2
  <2> QED BY <2>1, <2>2
<1>2. g = [depth \in 0 .. WordSize |-> g[depth]]
  BY DEF IsTree
<1> QED BY <1>1, <1>2 DEF Roots

\* pkeygen is a tree.
LEMMA PublicKeys == IsTree(pkeygen)
<1>0. WordSize \in Nat
  BY WordIsWide
<1>1. PICK g : IsTree(g)
  BY TreesExist
<1>2. pkeygen = CHOOSE f : f = Roots(f)
  BY DEF pkeygen, Roots, Root, RightsOf
<1>3. g = Roots(g)
  BY <1>1, TreeSolves
<1>4. pkeygen = Roots(pkeygen)
  BY <1>2, <1>3
<1>5. PICK f : f = pkeygen
  OBVIOUS
<1>6. f = Roots(f)
  BY <1>4, <1>5
<1>7. f = [d \in 0 .. WordSize |-> f[d]]
      /\ \A d \in 0 .. WordSize : f[d] = [master \in Seeds |-> Root(f, d, master)]
  BY <1>6 DEF Roots
<1> DEFINE S == {n \in Nat : \A i \in 0 .. n : i <= WordSize => f[i] = g[i]}
<1>8. ASSUME NEW d \in 0 .. WordSize, \A i \in 0 .. d - 1 : f[i] = g[i] PROVE f[d] = g[d]
  <2>1. \A master \in Seeds : Root(f, d, master) = g[d][master]
    BY <1>1, <1>8, RootOfTree
  <2>2. \A master \in Seeds : Root(g, d, master) = g[d][master]
    BY <1>1, RootOfTree
  <2>3. g[d] = [master \in Seeds |-> Root(g, d, master)]
    BY <1>3 DEF Roots
  <2> QED BY <1>7, <2>1, <2>2, <2>3
<1>9. 0 \in S
  <2>1. f[0] = g[0]
    <3>1. 0 \in 0 .. WordSize /\ \A i \in 0 .. 0 - 1 : f[i] = g[i]
      BY <1>0
    <3> QED BY <1>8, <3>1
  <2>2. \A i \in 0 .. 0 : i = 0
    OBVIOUS
  <2> QED BY <2>1, <2>2
<1>10. ASSUME NEW n \in Nat, n \in S PROVE n + 1 \in S
  <2>1. ASSUME NEW i \in 0 .. n + 1, i <= WordSize PROVE f[i] = g[i]
    <3>1. CASE i # n + 1
      <4>1. i \in 0 .. n
        BY <3>1
      <4> QED BY <1>10, <2>1, <4>1
    <3>2. CASE i = n + 1
      <4>1. i \in 0 .. WordSize
        BY <1>0, <2>1
      <4>2. \A j \in 0 .. i - 1 : j \in 0 .. n /\ j <= WordSize
        BY <1>0, <2>1, <3>2
      <4>3. \A j \in 0 .. i - 1 : f[j] = g[j]
        BY <1>10, <4>2
      <4> QED BY <1>8, <4>1, <4>3
    <3> QED BY <3>1, <3>2
  <2> QED BY <2>1
<1> HIDE DEF S
<1>11. WordSize \in S
  BY <1>0, <1>9, <1>10, K!NaturalInduction
<1>12. \A i \in 0 .. WordSize : f[i] = g[i]
  BY <1>0, <1>11 DEF S
<1>13. g = [d \in 0 .. WordSize |-> g[d]]
  BY <1>1 DEF IsTree
<1>14. f = g
  BY <1>7, <1>12, <1>13
<1> QED BY <1>1, <1>5, <1>14

\* What that says of a node.
LEMMA NodeKeys ==
    ASSUME NEW s \in Seeds
    PROVE  /\ pkeygen[0][s] = <<"leaf", s>>
           /\ \A i \in 0 .. WordSize - 1 :
                pkeygen[i + 1][s] = hash(pkeygen[i][Append(s, 1)], pkeygen[i][Append(s, 2)])
<1>1. PICK g : g = pkeygen
  OBVIOUS
<1>2. IsTree(g)
  BY <1>1, PublicKeys
<1>3. g[0][s] = <<"leaf", s>>
  BY <1>2 DEF IsTree, keygen_1
<1>4. ASSUME NEW i \in 0 .. WordSize - 1
      PROVE  g[i + 1][s] = hash(g[i][Append(s, 1)], g[i][Append(s, 2)])
  <2>1. i + 1 \in 1 .. WordSize /\ (i + 1) - 1 = i
    BY WordIsWide
  <2>2. g[i + 1] = [r \in Seeds |-> hash(g[(i + 1) - 1][Append(r, 1)], g[(i + 1) - 1][Append(r, 2)])]
    BY <1>2, <2>1 DEF IsTree
  <2> QED BY <2>1, <2>2
<1> QED BY <1>1, <1>3, <1>4

-----------------------------------------------------------------------------
(* New keys. *)

\* The pair of public keys on the leftmost path below which the trees have depth l - 1.
LeftPair(depth, master, l) ==
    <<pkeygen[l - 1][master \o Ones(depth - l + 1)],
      pkeygen[l - 1][Append(master \o Ones(depth - l), 2)]>>

PushRound(acc, right, env) == PushPair(acc, right)

Pu == INSTANCE FoldTheorems WITH Op <- PushRound

Pushed(acc, depth, master, l) ==
    /\ acc.left = pkeygen[l][master \o Ones(depth - l)]
    /\ acc.pks \in Seq({LeftPair(depth, master, j) : j \in 1 .. depth}) /\ Len(acc.pks) = l
    /\ \A j \in 1 .. l : acc.pks[j] = LeftPair(depth, master, j)

\* A level is pushed.
LEMMA PushLevel ==
    ASSUME NEW depth \in 1 .. WordSize, NEW master \in Seeds, NEW l \in 1 .. depth, NEW acc,
           Pushed(acc, depth, master, l - 1)
    PROVE  Pushed(PushPair(acc, pkeygen[l - 1][Append(master \o Ones(depth - l), 2)]),
                  depth, master, l)
<1>0. depth \in Nat /\ l \in Nat /\ l - 1 \in Nat /\ depth - (l - 1) = depth - l + 1
  BY WordIsWide
<1>1. PICK right : right = pkeygen[l - 1][Append(master \o Ones(depth - l), 2)]
  OBVIOUS
<1>2. acc.left = pkeygen[l - 1][master \o Ones(depth - l + 1)]
  <2>1. acc.left = pkeygen[l - 1][master \o Ones(depth - (l - 1))]
    BY DEF Pushed
  <2> QED BY <1>0, <2>1
<1>3. pkeygen[l][master \o Ones(depth - l)] = hash(acc.left, right)
  BY <1>1, <1>2, PublicKeys, JoinTree
<1>4. PICK P : P = {LeftPair(depth, master, j) : j \in 1 .. depth}
  OBVIOUS
<1>5. PICK x \in P : x = <<acc.left, right>> /\ x = LeftPair(depth, master, l)
  <2>1. LeftPair(depth, master, l) = <<acc.left, right>>
    BY <1>1, <1>2 DEF LeftPair
  <2>2. LeftPair(depth, master, l) \in P
    BY <1>4
  <2> QED BY <2>1, <2>2
<1>6. /\ acc.pks \in Seq(P) /\ Len(acc.pks) = l - 1
      /\ \A j \in 1 .. l - 1 : acc.pks[j] = LeftPair(depth, master, j)
  BY <1>4 DEF Pushed
<1>7. PICK q : q = Append(acc.pks, x)
  OBVIOUS
<1>8. /\ q \in Seq(P) /\ Len(q) = l /\ q[l] = x
      /\ \A j \in 1 .. l - 1 : q[j] = acc.pks[j]
  BY <1>0, <1>6, <1>7
<1>9. ASSUME NEW j \in 1 .. l PROVE q[j] = LeftPair(depth, master, j)
  <2>1. CASE j = l
    BY <1>5, <1>8, <2>1
  <2>2. CASE j # l
    <3>1. j \in 1 .. l - 1
      BY <1>0, <2>2
    <3> QED BY <1>6, <1>8, <3>1
  <2> QED BY <2>1, <2>2
<1>10. PushPair(acc, right) = [left |-> hash(acc.left, right), pks |-> q]
  BY <1>5, <1>7 DEF PushPair
<1>11. PICK new : new = PushPair(acc, right)
  OBVIOUS
<1>12. new.left = pkeygen[l][master \o Ones(depth - l)] /\ new.pks = q
  BY <1>3, <1>10, <1>11
<1>13. Pushed(new, depth, master, l)
  BY <1>4, <1>8, <1>9, <1>12 DEF Pushed
<1> QED BY <1>1, <1>11, <1>13

Leaf(depth, master) ==
    IF depth = 0 THEN keygen_1(master) ELSE generate_leftmost_rs(depth, master).keypair

Grown(depth, master) ==
    FoldLeft(PushPair, [left |-> Leaf(depth, master).public, pks |-> <<>>],
             RightsOf(pkeygen, depth, master))

\* The leaf of a new key is the leftmost.
LEMMA FirstLeaf ==
    ASSUME NEW depth \in 0 .. WordSize, NEW master \in Seeds
    PROVE  Leaf(depth, master) = keygen_1(master \o Ones(depth))
<1>0. depth \in Nat
  BY WordIsWide
<1>1. master \o Ones(0) = master
  BY <1>0, OnesGrow
<1>2. CASE depth = 0
  BY <1>1, <1>2 DEF Leaf
<1>3. CASE depth # 0
  BY <1>0, <1>3, Spine DEF Leaf
<1> QED BY <1>2, <1>3

\* All levels are pushed.
LEMMA PushAll ==
    ASSUME NEW depth \in 0 .. WordSize, NEW master \in Seeds
    PROVE  Pushed(Grown(depth, master), depth, master, depth)
<1>0. depth \in Nat
  BY WordIsWide
<1>1. PICK seq : seq = RightsOf(pkeygen, depth, master)
  OBVIOUS
<1>2. /\ Len(seq) = depth /\ \E T : seq \in Seq(T)
      /\ \A l \in 1 .. depth : seq[l] = pkeygen[l - 1][Append(master \o Ones(depth - l), 2)]
  <2>1. ASSUME NEW l \in 1 .. depth
        PROVE  seq[l] = pkeygen[l - 1][Append(master \o Ones(depth - l), 2)]
    <3>1. depth \in 1 .. WordSize
      BY <1>0
    <3>2. generate_leftmost_rs(depth, master).rs[depth - l + 1]
            = Append(master \o Ones(depth - l), 2)
      BY <3>1, PublicKeys, JoinTree
    <3> QED BY <1>1, <3>2 DEF RightsOf
  <2>2. seq = [l \in 1 .. depth |-> seq[l]]
    BY <1>1 DEF RightsOf
  <2>3. seq \in Seq({seq[l] : l \in 1 .. depth}) /\ Len(seq) = depth
    BY <1>0, <2>2
  <2> QED BY <2>1, <2>3
<1>3. PICK base : base = [left |-> Leaf(depth, master).public, pks |-> <<>>]
  OBVIOUS
<1>4. Grown(depth, master) = Pu!Fold(base, seq, 0)
  BY <1>1, <1>3 DEF Grown, Pu!Fold, Pu!Greatest, PushRound, FoldLeft, MapThenFoldSet, Max
<1>5. PICK h : Pu!IsLoop(h, base, seq, 0) /\ Pu!Fold(base, seq, 0) = h[Len(seq)]
  BY <1>0, <1>2, Pu!FoldIsLoop
<1> DEFINE S == {l \in Nat : Pushed(h[l], depth, master, l)}
<1>6. 0 \in S
  <2>1. h[0] = base /\ depth - 0 = depth
    BY <1>0, <1>5 DEF Pu!IsLoop
  <2>2. master \o Ones(depth) \in Seeds
    BY <1>0, OnesGrow
  <2>3. base.left = pkeygen[0][master \o Ones(depth)]
    <3>1. pkeygen[0][master \o Ones(depth)] = <<"leaf", master \o Ones(depth)>>
      BY <2>2, NodeKeys
    <3>2. Leaf(depth, master).public = <<"leaf", master \o Ones(depth)>>
      BY FirstLeaf DEF keygen_1
    <3> QED BY <1>3, <3>1, <3>2
  <2>4. \A T : <<>> \in Seq(T)
    OBVIOUS
  <2>5. base.pks = <<>> /\ Len(<<>>) = 0 /\ 1 .. 0 = {}
    BY <1>3
  <2>6. Pushed(h[0], depth, master, 0)
    BY <2>1, <2>3, <2>4, <2>5 DEF Pushed
  <2> QED BY <2>6
<1>7. ASSUME NEW l \in Nat, 0 <= l, l < depth, l \in S PROVE l + 1 \in S
  <2>1. PICK k \in 1 .. depth : k = l + 1 /\ k - 1 = l
    BY <1>0, <1>7
  <2>2. Pushed(h[l], depth, master, k - 1) /\ depth \in 1 .. WordSize
    BY <1>0, <1>7, <2>1
  <2>3. h[k] = PushPair(h[l], seq[k])
    BY <1>2, <1>5, <2>1 DEF Pu!IsLoop, PushRound
  <2>4. Pushed(h[k], depth, master, k)
    BY <1>2, <2>2, <2>3, PushLevel
  <2> QED BY <2>1, <2>4
<1> HIDE DEF S
<1>8. \A l \in 0 .. depth : l \in S
  BY <1>0, <1>6, <1>7, K!IntervalInduction
<1>9. Pushed(h[depth], depth, master, depth)
  BY <1>0, <1>8 DEF S
<1> QED BY <1>2, <1>4, <1>5, <1>9

\* The pairs and the seeds of a new key: those beside the leftmost path.
NewParts(depth, master, pks, rs) ==
    /\ keygen(depth, master).secret
        = [depth |-> depth, t |-> 0, sk |-> keygen_1(master \o Ones(depth)),
           pks |-> pks, rs |-> rs]
    /\ pks = [i \in 1 .. depth |-> pks[i]]
    /\ rs = [i \in 1 .. depth |-> rs[i]] /\ Len(rs) = depth
    /\ \A i \in 1 .. depth :
        /\ pks[i] = <<pkeygen[depth - i][master \o Ones(i)],
                      pkeygen[depth - i][Append(master \o Ones(i - 1), 2)]>>
        /\ rs[i] = Append(master \o Ones(i - 1), 2)

\* What keygen makes.
LEMMA NewKey ==
    ASSUME NEW depth \in 0 .. WordSize, NEW master \in Seeds
    PROVE  /\ keygen(depth, master).public = pkeygen[depth][master]
           /\ \E pks, rs : NewParts(depth, master, pks, rs)
<1>0. depth \in Nat
  BY WordIsWide
<1>1. PICK tree : tree = Grown(depth, master)
  OBVIOUS
<1>2. PICK rs : rs = generate_leftmost_rs(depth, master).rs
  OBVIOUS
<1>3. PICK pks : pks = Reverse(tree.pks)
  OBVIOUS
<1>4. /\ keygen(depth, master).public = tree.left
      /\ keygen(depth, master).secret
            = [depth |-> depth, t |-> 0, sk |-> Leaf(depth, master), pks |-> pks, rs |-> rs]
  BY <1>1, <1>2, <1>3 DEF keygen, Grown, Leaf, RightsOf
<1>5. Leaf(depth, master) = keygen_1(master \o Ones(depth))
  BY FirstLeaf
<1>6. /\ tree.left = pkeygen[depth][master \o Ones(depth - depth)]
      /\ Len(tree.pks) = depth
      /\ \A j \in 1 .. depth : tree.pks[j] = LeftPair(depth, master, j)
  BY <1>1, PushAll DEF Pushed
<1>7. tree.left = pkeygen[depth][master]
  <2>1. master \o Ones(0) = master
    BY <1>0, OnesGrow
  <2>2. depth - depth = 0
    BY <1>0
  <2> QED BY <1>6, <2>1, <2>2
<1>8. rs = [i \in 1 .. depth |-> rs[i]] /\ Len(rs) = depth
  <2>1. rs = [i \in 1 .. depth |-> rs[i]]
    BY <1>2 DEF generate_leftmost_rs
  <2> QED BY <1>0, <2>1
<1>9. \A i \in 1 .. depth : rs[i] = Append(master \o Ones(i - 1), 2)
  BY <1>0, <1>2, Spine
<1>10. pks = [i \in 1 .. depth |-> tree.pks[depth - i + 1]]
  BY <1>3, <1>6 DEF Reverse
<1>11. ASSUME NEW i \in 1 .. depth
       PROVE  pks[i] = <<pkeygen[depth - i][master \o Ones(i)],
                         pkeygen[depth - i][Append(master \o Ones(i - 1), 2)]>>
  <2>1. PICK j \in 1 .. depth : j = depth - i + 1
    BY <1>0
  <2>2. j - 1 = depth - i /\ depth - j + 1 = i /\ depth - j = i - 1
    BY <1>0, <2>1
  <2>3. pks[i] = LeftPair(depth, master, j)
    BY <1>6, <1>10, <2>1
  <2> QED BY <2>2, <2>3 DEF LeftPair
<1>12. pks = [i \in 1 .. depth |-> pks[i]]
  BY <1>10
<1>13. NewParts(depth, master, pks, rs)
  BY <1>4, <1>5, <1>8, <1>9, <1>11, <1>12 DEF NewParts
<1> QED BY <1>4, <1>7, <1>13

-----------------------------------------------------------------------------
(* The path to the leaf of a period. *)

\* The seed on the way to the leaf of t below which the tree has depth k.
Path(M, d, t, k) == M \o [i \in 1 .. d - k |-> 1 + BitOf(t, d - i)]

\* Its elements.
LEMMA PathType ==
    ASSUME NEW M \in Seeds, NEW d \in 0 .. WordSize, NEW t \in Nat, NEW k \in 0 .. d
    PROVE  /\ Path(M, d, t, k) \in Seeds /\ Len(Path(M, d, t, k)) = Len(M) + (d - k)
           /\ \A i \in 1 .. Len(M) : Path(M, d, t, k)[i] = M[i]
           /\ \A i \in 1 .. d - k : Path(M, d, t, k)[Len(M) + i] = 1 + BitOf(t, d - i)
<1>0. d \in Nat /\ k \in Nat /\ d - k \in Nat /\ WordSize \in Nat /\ d <= WordSize
  BY WordIsWide
<1>1. PICK f : f = [i \in 1 .. d - k |-> 1 + BitOf(t, d - i)]
  OBVIOUS
<1>2. ASSUME NEW i \in 1 .. d - k PROVE 1 + BitOf(t, d - i) \in 0 .. 2
  <2>1. d - i \in 0 .. WordSize
    BY <1>0
  <2>2. BitOf(t, d - i) \in {0, 1}
    BY <2>1, AboveHalves
  <2> QED BY <2>2
<1>3. f \in [1 .. d - k -> 0 .. 2] /\ \A i \in 1 .. d - k : f[i] = 1 + BitOf(t, d - i)
  BY <1>1, <1>2
<1>4. Path(M, d, t, k) = M \o f
  BY <1>1 DEF Path
<1>5. PICK n \in Nat : n = d - k
  BY <1>0
<1>6. f \in [1 .. n -> 0 .. 2]
  BY <1>3, <1>5
<1>7. /\ M \o f \in Seeds /\ Len(M \o f) = Len(M) + n
      /\ \A i \in 1 .. Len(M) : (M \o f)[i] = M[i]
      /\ \A i \in 1 .. n : (M \o f)[Len(M) + i] = f[i]
  BY <1>6, Behind
<1> QED BY <1>3, <1>4, <1>5, <1>7

\* Seeds with the same turns.
LEMMA SamePath ==
    ASSUME NEW M \in Seeds, NEW d \in 0 .. WordSize, NEW t \in Nat, NEW u \in Nat, NEW k \in 0 .. d,
           \A i \in k .. d - 1 : BitOf(t, i) = BitOf(u, i)
    PROVE  Path(M, d, t, k) = Path(M, d, u, k)
<1>1. ASSUME NEW i \in 1 .. d - k PROVE BitOf(t, d - i) = BitOf(u, d - i)
  <2>1. d - i \in k .. d - 1
    BY WordIsWide
  <2> QED BY <2>1
<1> QED BY <1>1 DEF Path

\* At the root.
LEMMA PathTop ==
    ASSUME NEW M \in Seeds, NEW d \in 0 .. WordSize, NEW t \in Nat
    PROVE  Path(M, d, t, d) = M
<1>0. d \in Nat /\ d - d = 0 /\ d \in 0 .. d /\ Len(M) \in Nat
  BY WordIsWide DEF Seeds
<1>1. /\ Path(M, d, t, d) \in Seeds /\ Len(Path(M, d, t, d)) = Len(M) + (d - d)
      /\ \A i \in 1 .. Len(M) : Path(M, d, t, d)[i] = M[i]
  BY <1>0, PathType
<1>2. Len(Path(M, d, t, d)) = Len(M)
  BY <1>0, <1>1
<1> QED BY <1>1, <1>2, SameSequence DEF Seeds

\* One level down.
LEMMA PathStep ==
    ASSUME NEW M \in Seeds, NEW d \in 0 .. WordSize, NEW t \in Nat, NEW k \in 0 .. d - 1
    PROVE  Path(M, d, t, k) = Append(Path(M, d, t, k + 1), 1 + BitOf(t, k))
<1>0. d \in Nat /\ k \in Nat /\ k \in 0 .. d /\ k + 1 \in 0 .. d /\ k \in 0 .. WordSize
  BY WordIsWide
<1>l. Len(M) \in Nat
  BY DEF Seeds
<1>1. PICK x \in 0 .. 2 : x = 1 + BitOf(t, k)
  <2>1. BitOf(t, k) \in {0, 1}
    BY <1>0, AboveHalves
  <2> QED BY <2>1
<1>2. PICK p : p = Path(M, d, t, k)
  OBVIOUS
<1>3. PICK q : q = Path(M, d, t, k + 1)
  OBVIOUS
<1>4. /\ p \in Seeds /\ Len(p) = Len(M) + (d - k)
      /\ \A i \in 1 .. Len(M) : p[i] = M[i]
      /\ \A i \in 1 .. d - k : p[Len(M) + i] = 1 + BitOf(t, d - i)
  BY <1>0, <1>2, PathType
<1>5. /\ q \in Seeds /\ Len(q) = Len(M) + (d - (k + 1))
      /\ \A i \in 1 .. Len(M) : q[i] = M[i]
      /\ \A i \in 1 .. d - (k + 1) : q[Len(M) + i] = 1 + BitOf(t, d - i)
  BY <1>0, <1>3, PathType
<1>6. /\ Append(q, x) \in Seeds /\ Len(Append(q, x)) = Len(q) + 1
      /\ Append(q, x)[Len(q) + 1] = x /\ \A i \in 1 .. Len(q) : Append(q, x)[i] = q[i]
  BY <1>5, ChildSeed
<1>7. ASSUME NEW i \in 1 .. Len(p) PROVE p[i] = Append(q, x)[i]
  <2>1. CASE i \in 1 .. Len(M)
    <3>1. i \in 1 .. Len(q)
      BY <1>0, <1>l, <1>5, <2>1
    <3> QED BY <1>4, <1>5, <1>6, <2>1, <3>1
  <2>2. CASE i \notin 1 .. Len(M)
    <3>1. PICK j \in 1 .. d - k : i = Len(M) + j
      <4>1. i - Len(M) \in 1 .. d - k /\ i = Len(M) + (i - Len(M))
        BY <1>0, <1>l, <1>4, <2>2
      <4> QED BY <4>1
    <3>2. CASE j = d - k
      <4>1. i = Len(q) + 1 /\ d - j = k
        BY <1>0, <1>l, <1>5, <3>1, <3>2
      <4>2. p[i] = 1 + BitOf(t, d - j)
        BY <1>4, <3>1
      <4> QED BY <1>1, <1>6, <4>1, <4>2
    <3>3. CASE j # d - k
      <4>1. j \in 1 .. d - (k + 1) /\ i \in 1 .. Len(q)
        BY <1>0, <1>l, <1>5, <3>1, <3>3
      <4> QED BY <1>4, <1>5, <1>6, <3>1, <4>1
    <3> QED BY <3>2, <3>3
  <2> QED BY <2>1, <2>2
<1>8. Len(p) = Len(Append(q, x))
  BY <1>0, <1>l, <1>4, <1>5, <1>6
<1>9. p = Append(q, x)
  BY <1>4, <1>6, <1>7, <1>8, SameSequence DEF Seeds
<1> QED BY <1>1, <1>2, <1>3, <1>9

\* The bits of t below b are clear.
ClearBelow(t, b) == \A i \in 0 .. b - 1 : BitOf(t, i) = 0

\* Below a level from which all bits are clear the path keeps left.
LEMMA PathKeepsLeft ==
    ASSUME NEW M \in Seeds, NEW d \in 0 .. WordSize, NEW t \in Nat, NEW b \in 0 .. d,
           ClearBelow(t, b)
    PROVE  \A n \in 0 .. b : Path(M, d, t, b - n) = Path(M, d, t, b) \o Ones(n)
<1>0. d \in Nat /\ b \in Nat
  BY WordIsWide
<1>1. Path(M, d, t, b) \in Seeds
  BY PathType
<1> DEFINE S == {n \in Nat : Path(M, d, t, b - n) = Path(M, d, t, b) \o Ones(n)}
<1>2. 0 \in S
  <2>1. Path(M, d, t, b) \o Ones(0) = Path(M, d, t, b)
    BY <1>0, <1>1, OnesGrow
  <2>2. b - 0 = b
    BY <1>0
  <2> QED BY <2>1, <2>2
<1>3. ASSUME NEW n \in Nat, 0 <= n, n < b, n \in S PROVE n + 1 \in S
  <2>1. PICK k \in Nat : k = b - (n + 1)
    BY <1>0, <1>3
  <2>2. k \in 0 .. d - 1 /\ k + 1 = b - n /\ k \in 0 .. b - 1
    BY <1>0, <1>3, <2>1
  <2>3. Path(M, d, t, k) = Append(Path(M, d, t, k + 1), 1 + BitOf(t, k))
    BY <2>2, PathStep
  <2>4. 1 + BitOf(t, k) = 1
    BY <2>2 DEF ClearBelow
  <2>5. Path(M, d, t, k + 1) = Path(M, d, t, b) \o Ones(n)
    BY <1>3, <2>2
  <2>6. Append(Path(M, d, t, b) \o Ones(n), 1) = Path(M, d, t, b) \o Ones(n + 1)
    BY <1>1, OnesGrow
  <2>7. Path(M, d, t, b - (n + 1)) = Path(M, d, t, b) \o Ones(n + 1)
    BY <2>1, <2>3, <2>4, <2>5, <2>6
  <2> QED BY <2>7
<1> HIDE DEF S
<1>4. \A n \in 0 .. b : n \in S
  BY <1>0, <1>2, <1>3, K!IntervalInduction
<1> QED BY <1>4 DEF S

\* And each of these levels counts.
LEMMA CountClear ==
    ASSUME NEW d \in 0 .. WordSize, NEW t \in Nat, NEW b \in 0 .. d, ClearBelow(t, b)
    PROVE  \A n \in 0 .. b : LeftCount(t, b - n, d) = LeftCount(t, b, d) + n
<1>0. d \in Nat /\ b \in Nat /\ LeftCount(t, b, d) \in Nat
  BY WordIsWide, CountLefts
<1> DEFINE S == {n \in Nat : LeftCount(t, b - n, d) = LeftCount(t, b, d) + n}
<1>2. 0 \in S
  <2>2. b - 0 = b
    BY <1>0
  <2> QED BY <1>0, <2>2
<1>3. ASSUME NEW n \in Nat, 0 <= n, n < b, n \in S PROVE n + 1 \in S
  <2>1. PICK k \in Nat : k = b - (n + 1)
    BY <1>0, <1>3
  <2>2. k \in 0 .. d /\ k < d /\ k + 1 = b - n /\ k \in 0 .. b - 1
    BY <1>0, <1>3, <2>1
  <2>3. LeftCount(t, k, d) = LeftCount(t, k + 1, d) + (IF BitOf(t, k) = 0 THEN 1 ELSE 0)
    BY <2>2, CountLefts
  <2>4. BitOf(t, k) = 0
    BY <2>2 DEF ClearBelow
  <2>5. LeftCount(t, k + 1, d) = LeftCount(t, b, d) + n
    BY <1>3, <2>2
  <2>6. LeftCount(t, k, d) = LeftCount(t, b, d) + (n + 1)
    BY <1>0, <2>3, <2>4, <2>5
  <2> QED BY <2>1, <2>6
<1> HIDE DEF S
<1>4. \A n \in 0 .. b : n \in S
  BY <1>0, <1>2, <1>3, K!IntervalInduction
<1> QED BY <1>4 DEF S

-----------------------------------------------------------------------------
(* What a key of period t holds. *)

\* The public keys of the two subtrees of depth k below the path of t.
PairAt(M, d, t, k) ==
    <<pkeygen[k][Append(Path(M, d, t, k + 1), 1)], pkeygen[k][Append(Path(M, d, t, k + 1), 2)]>>

\* The pairs along the path, the topmost first.
PairsOK(pks, M, d, t) ==
    /\ pks = [i \in 1 .. d |-> pks[i]]
    /\ \A k \in 0 .. d - 1 : pks[d - k] = PairAt(M, d, t, k)

\* The seed of every subtree right of the path, the topmost first and without gaps;
\* behind them there is nothing.
SeedsOK(rs, M, d, t) ==
    /\ rs = [i \in 1 .. d |-> rs[i]]
    /\ \A k \in 0 .. d - 1 :
        BitOf(t, k) = 0 => rs[LeftCount(t, k, d)] = Append(Path(M, d, t, k + 1), 2)
    /\ \A j \in LeftCount(t, 0, d) + 1 .. d : rs[j] = ZeroSeed

\* The key of period t in the tree of depth d that grows from the master seed M.
KeyOK(key, M, d) ==
    /\ {"depth", "t", "sk", "pks", "rs"} \subseteq DOMAIN key /\ key.depth = d
    /\ key.t \in 0 .. two_to(d) - 1
    /\ key.sk = keygen_1(Path(M, d, key.t, 0))
    /\ PairsOK(key.pks, M, d, key.t)
    /\ SeedsOK(key.rs, M, d, key.t)

\* The parts of a key of depth b are those of the key of period t below its level b.
PartsBelow(pks, rs, M, d, t, b) ==
    /\ keygen_1(Path(M, d, t, b) \o Ones(b)) = keygen_1(Path(M, d, t, 0))
    /\ \A k \in 0 .. b - 1 : pks[b - k] = PairAt(M, d, t, k)
                             /\ rs[b - k] = Append(Path(M, d, t, k + 1), 2)

\* What a new key has, put below the path of a period whose bits there are clear.
LEMMA ChildParts ==
    ASSUME NEW M \in Seeds, NEW d \in 0 .. WordSize, NEW t \in Nat, NEW b \in 0 .. d,
           ClearBelow(t, b), NEW pks, NEW rs, NewParts(b, Path(M, d, t, b), pks, rs)
    PROVE  PartsBelow(pks, rs, M, d, t, b)
<1>0. d \in Nat /\ b \in Nat /\ b - b = 0 /\ b \in 0 .. b
  BY WordIsWide
<1>1. PICK N : N = Path(M, d, t, b)
  OBVIOUS
<1>2. N \in Seeds /\ \A n \in 0 .. b : Path(M, d, t, b - n) = N \o Ones(n)
  BY <1>1, PathType, PathKeepsLeft
<1>3. Path(M, d, t, 0) = N \o Ones(b)
  <2>1. Path(M, d, t, b - b) = N \o Ones(b)
    BY <1>0, <1>2
  <2> QED BY <1>0, <2>1
<1>4. ASSUME NEW k \in 0 .. b - 1
      PROVE  pks[b - k] = PairAt(M, d, t, k) /\ rs[b - k] = Append(Path(M, d, t, k + 1), 2)
  <2>1. PICK n \in Nat : n = b - k - 1
    BY <1>0
  <2>2. n \in 0 .. b /\ b - n = k + 1 /\ b - k = n + 1 /\ n + 1 \in 1 .. b /\ b - (n + 1) = k
        /\ (n + 1) - 1 = n
    BY <1>0, <2>1
  <2>3. Path(M, d, t, k + 1) = N \o Ones(n)
    BY <1>2, <2>2
  <2>4. Append(N \o Ones(n), 1) = N \o Ones(n + 1)
    BY <1>2, OnesGrow
  <2>5. /\ pks[n + 1] = <<pkeygen[b - (n + 1)][N \o Ones(n + 1)],
                          pkeygen[b - (n + 1)][Append(N \o Ones((n + 1) - 1), 2)]>>
        /\ rs[n + 1] = Append(N \o Ones((n + 1) - 1), 2)
    BY <1>1, <2>2 DEF NewParts
  <2>6. /\ pks[n + 1] = <<pkeygen[k][N \o Ones(n + 1)], pkeygen[k][Append(N \o Ones(n), 2)]>>
        /\ rs[n + 1] = Append(N \o Ones(n), 2)
    BY <2>2, <2>5
  <2>7. pks[n + 1] = PairAt(M, d, t, k) /\ rs[n + 1] = Append(Path(M, d, t, k + 1), 2)
    BY <2>3, <2>4, <2>6 DEF PairAt
  <2> QED BY <2>2, <2>7
<1> QED BY <1>1, <1>3, <1>4 DEF PartsBelow

\* The bits of 0.
LEMMA ZeroIsClear == ASSUME NEW d \in 0 .. WordSize PROVE ClearBelow(0, d)
<1>1. 0 < two_to(0) /\ 0 \in 0 .. WordSize /\ WordSize \in Nat
  BY TwoTo, WordIsWide
<1>2. \A i \in 0 .. WordSize : BitOf(0, i) = 0
  BY <1>1, BitsBelow
<1>3. \A i \in 0 .. d - 1 : i \in 0 .. WordSize
  BY <1>1
<1> QED BY <1>2, <1>3 DEF ClearBelow

\* keygen makes the key of period 0.
LEMMA NewKeyOK ==
    ASSUME NEW M \in Seeds, NEW d \in 0 .. WordSize
    PROVE  KeyOK(keygen(d, M).secret, M, d) /\ keygen(d, M).secret.t = 0
<1>0. d \in Nat /\ d \in 0 .. d /\ two_to(d) \in Nat /\ two_to(d) > 0
  BY WordIsWide, TwoTo
<1>1. PICK key : key = keygen(d, M).secret
  OBVIOUS
<1>2. PICK pks, rs : NewParts(d, M, pks, rs)
  BY NewKey
<1>3. key = [depth |-> d, t |-> 0, sk |-> keygen_1(M \o Ones(d)), pks |-> pks, rs |-> rs]
      /\ pks = [i \in 1 .. d |-> pks[i]] /\ rs = [i \in 1 .. d |-> rs[i]]
  BY <1>1, <1>2 DEF NewParts
<1>4. Path(M, d, 0, d) = M
  BY PathTop
<1>5. ClearBelow(0, d)
  BY ZeroIsClear
<1>6. /\ keygen_1(M \o Ones(d)) = keygen_1(Path(M, d, 0, 0))
      /\ \A k \in 0 .. d - 1 : pks[d - k] = PairAt(M, d, 0, k)
                               /\ rs[d - k] = Append(Path(M, d, 0, k + 1), 2)
  <2>1. NewParts(d, Path(M, d, 0, d), pks, rs)
    BY <1>2, <1>4
  <2>2. PartsBelow(pks, rs, M, d, 0, d)
    BY <1>0, <1>5, <2>1, ChildParts
  <2> QED BY <1>4, <2>2 DEF PartsBelow
<1>7. \A n \in 0 .. d : LeftCount(0, d - n, d) = n
  <2>1. \A n \in 0 .. d : LeftCount(0, d - n, d) = LeftCount(0, d, d) + n
    BY <1>0, <1>5, CountClear
  <2>2. LeftCount(0, d, d) \in Nat /\ LeftCount(0, d, d) <= d - d
    BY <1>0, CountLefts
  <2>3. LeftCount(0, d, d) = 0
    BY <1>0, <2>2
  <2> QED BY <1>0, <2>1, <2>3
<1>8. SeedsOK(rs, M, d, 0)
  <2>1. ASSUME NEW k \in 0 .. d - 1 PROVE rs[LeftCount(0, k, d)] = Append(Path(M, d, 0, k + 1), 2)
    <3>1. PICK n \in 0 .. d : n = d - k /\ d - n = k
      BY <1>0
    <3>2. LeftCount(0, k, d) = n
      BY <1>7, <3>1
    <3> QED BY <1>6, <3>1, <3>2
  <2>2. LeftCount(0, 0, d) + 1 .. d = {}
    <3>1. LeftCount(0, d - d, d) = d /\ d - d = 0
      BY <1>0, <1>7
    <3>2. LeftCount(0, 0, d) = d
      BY <3>1
    <3> QED BY <1>0, <3>2
  <2> QED BY <1>3, <2>1, <2>2 DEF SeedsOK
<1>9. PairsOK(pks, M, d, 0)
  BY <1>3, <1>6 DEF PairsOK
<1>10. KeyOK(key, M, d) /\ key.t = 0
  BY <1>0, <1>3, <1>6, <1>8, <1>9 DEF KeyOK
<1> QED BY <1>1, <1>10

-----------------------------------------------------------------------------
(* Evolution. *)

\* The number of seeds left.
LEMMA SeedsInKey ==
    ASSUME NEW M, NEW d \in 0 .. WordSize, NEW key, KeyOK(key, M, d)
    PROVE  /\ rs_len(key) = LeftCount(key.t, 0, d) /\ rs_len(key) \in Nat /\ rs_len(key) <= d
           /\ key.t \in Nat /\ key.depth = d
           /\ rs_len(key) # 0 <=> key.t + 1 < two_to(d)
<1>0. key.t \in 0 .. two_to(d) - 1 /\ key.depth = d /\ two_to(d) \in Nat /\ d \in Nat /\ 0 \in 0 .. d
  BY TwoTo, WordIsWide DEF KeyOK
<1>1. PICK t \in 0 .. two_to(d) - 1 : t = key.t
  BY <1>0
<1>2. t \in Nat
  BY <1>0
<1>3. rs_len(key) = LeftCount(t, 0, d)
  <2>1. rs_from_period(d, t) = LeftCount(t, 0, d)
    BY SeedsLeft DEF total
  <2> QED BY <1>0, <1>1, <2>1 DEF rs_len
<1>4. LeftCount(t, 0, d) \in Nat /\ LeftCount(t, 0, d) <= d - 0
  BY <1>0, <1>2, CountLefts
<1>5. ASSUME LeftCount(t, 0, d) # 0 PROVE t + 1 < two_to(d)
  <2>1. 1 \in 1 .. LeftCount(t, 0, d)
    BY <1>4, <1>5
  <2>2. PICK i \in 0 .. d - 1 : BitOf(t, i) = 0
    BY <1>2, <2>1, RankOfLeft
  <2>3. BitOf(t, i) # 1
    BY <2>2
  <2>4. t + 1 # two_to(d)
    BY <2>2, <2>3, LastPeriod
  <2> QED BY <1>0, <2>4
<1>6. ASSUME t + 1 < two_to(d) PROVE LeftCount(t, 0, d) # 0
  <2>1. PICK b \in 0 .. d - 1 : LowestZero(t, b)
    BY <1>6, LastPeriod
  <2>2. b \in 0 .. d /\ b < d /\ b \in 0 .. d - 1 /\ BitOf(t, b) = 0 /\ b + 1 \in 0 .. d
    BY <1>0, <2>1 DEF LowestZero
  <2>3. /\ LeftCount(t, b, d) = LeftCount(t, b + 1, d) + 1 /\ LeftCount(t, b + 1, d) \in Nat
    BY <1>2, <2>2, CountLefts
  <2>4. LeftCount(t, b, d) <= LeftCount(t, 0, d)
    BY <1>0, <1>2, <2>2, CountGrows
  <2> QED BY <1>4, <2>3, <2>4
<1> QED BY <1>0, <1>1, <1>2, <1>3, <1>4, <1>5, <1>6

\* The bits flipped are those up to the lowest one that is not set.
LEMMA FlippedBits ==
    ASSUME NEW t \in Nat, NEW b \in 0 .. WordSize - 1, LowestZero(t, b)
    PROVE  Cardinality(Flipped(t)) = b + 1
<1>0. b \in Nat /\ WordSize \in Nat
  BY WordIsWide
<1>1. /\ \A i \in 0 .. b - 1 : BitOf(t, i) = 1 /\ BitOf(t + 1, i) = 0
      /\ BitOf(t, b) = 0 /\ BitOf(t + 1, b) = 1
      /\ \A i \in b + 1 .. WordSize : BitOf(t + 1, i) = BitOf(t, i)
  BY Carry DEF LowestZero
<1>2. ASSUME NEW i \in 0 .. WordSize
      PROVE  BitOf(t, i) # BitOf(t + 1, i) <=> i \in 0 .. b
  <2>1. CASE i \in 0 .. b - 1
    BY <1>0, <1>1, <2>1
  <2>2. CASE i = b
    BY <1>0, <1>1, <2>2
  <2>3. CASE i \notin 0 .. b - 1 /\ i # b
    <3>1. i \in b + 1 .. WordSize /\ i \notin 0 .. b
      BY <1>0, <2>3
    <3> QED BY <1>1, <3>1
  <2> QED BY <2>1, <2>2, <2>3
<1>3. \A i \in 0 .. b : i \in 0 .. WordSize
  BY <1>0
<1>4. Flipped(t) = 0 .. b
  BY <1>2, <1>3 DEF Flipped
<1>5. Cardinality(0 .. b) = b + 1
  <2>1. Cardinality(0 .. b) = IF 0 > b THEN 0 ELSE b - 0 + 1
    BY <1>0, FS_Interval
  <2> QED BY <1>0, <2>1
<1> QED BY <1>4, <1>5

\* b is the level at which the key of the next period branches off.
BranchLevel(key, M, d, b) ==
    /\ LowestZero(key.t, b) /\ key.t + 1 < two_to(d)
    /\ Cardinality(Flipped(key.t)) = b + 1
    /\ rs_len(key) = LeftCount(key.t, b, d)
    /\ Path(M, d, key.t + 1, b) = Append(Path(M, d, key.t, b + 1), 2)
    /\ key.rs[rs_len(key)] = Path(M, d, key.t + 1, b)

\* A key with a seed has such a level, and the last seed is the one of its branch.
LEMMA Branching ==
    ASSUME NEW M \in Seeds, NEW d \in 0 .. WordSize, NEW key, KeyOK(key, M, d), rs_len(key) # 0
    PROVE  \E b \in 0 .. d - 1 : BranchLevel(key, M, d, b)
<1>0. d \in Nat /\ WordSize \in Nat /\ d <= WordSize
  BY WordIsWide
<1>1. key.t \in 0 .. two_to(d) - 1 /\ SeedsOK(key.rs, M, d, key.t)
  BY DEF KeyOK
<1>2. /\ rs_len(key) = LeftCount(key.t, 0, d) /\ key.t \in Nat /\ key.t + 1 < two_to(d)
  BY SeedsInKey
<1>3. PICK t \in Nat : t = key.t
  BY <1>2
<1>4. PICK b \in 0 .. d - 1 : LowestZero(t, b)
  BY <1>1, <1>2, <1>3, LastPeriod
<1>5. b \in 0 .. WordSize - 1 /\ b + 1 \in 0 .. d /\ b \in Nat /\ t + 1 \in Nat /\ b \in 0 .. WordSize
  BY <1>0
<1>6. Cardinality(Flipped(t)) = b + 1
  BY <1>4, <1>5, FlippedBits
<1>7. LeftCount(t, 0, d) = LeftCount(t, b, d)
  <2>1. ASSUME NEW i \in 0 .. d - 1, BitOf(t, i) = 0 PROVE i \in b .. d - 1
    <3>1. i \notin 0 .. b - 1
      BY <1>4, <2>1 DEF LowestZero
    <3> QED BY <1>0, <1>5, <3>1
  <2>2. \A i \in b .. d - 1 : i \in 0 .. d - 1
    BY <1>0, <1>5
  <2>3. Lefts(t, 0, d) = Lefts(t, b, d)
    BY <2>1, <2>2 DEF Lefts
  <2> QED BY <2>3 DEF LeftCount
<1>8. Path(M, d, t + 1, b) = Append(Path(M, d, t, b + 1), 2)
  <2>1. BitOf(t + 1, b) = 1 /\ \A i \in b + 1 .. WordSize : BitOf(t + 1, i) = BitOf(t, i)
    BY <1>4, <1>5, Carry
  <2>2. Path(M, d, t + 1, b) = Append(Path(M, d, t + 1, b + 1), 1 + BitOf(t + 1, b))
    BY <1>5, PathStep
  <2>3. 1 + BitOf(t + 1, b) = 2
    BY <2>1
  <2>4. Path(M, d, t + 1, b + 1) = Path(M, d, t, b + 1)
    <3>1. \A i \in b + 1 .. d - 1 : i \in b + 1 .. WordSize
      BY <1>0
    <3>2. \A i \in b + 1 .. d - 1 : BitOf(t + 1, i) = BitOf(t, i)
      BY <2>1, <3>1
    <3> QED BY <1>5, <3>2, SamePath
  <2> QED BY <2>2, <2>3, <2>4
<1>9. key.rs[LeftCount(t, b, d)] = Append(Path(M, d, t, b + 1), 2)
  BY <1>1, <1>3, <1>4 DEF SeedsOK, LowestZero
<1>10. BranchLevel(key, M, d, b)
  BY <1>2, <1>3, <1>4, <1>6, <1>7, <1>8, <1>9 DEF BranchLevel
<1> QED BY <1>10

\* Where the next period branches off, its bits below are clear and its bits above
\* are the old ones.
LEMMA BranchBits ==
    ASSUME NEW M \in Seeds, NEW d \in 0 .. WordSize, NEW t \in Nat, NEW b \in 0 .. d - 1,
           LowestZero(t, b)
    PROVE  /\ ClearBelow(t + 1, b) /\ BitOf(t + 1, b) = 1
           /\ \A k \in b + 1 .. d : /\ Path(M, d, t + 1, k) = Path(M, d, t, k)
                                    /\ LeftCount(t + 1, k, d) = LeftCount(t, k, d)
           /\ \A k \in b + 1 .. d - 1 : BitOf(t + 1, k) = BitOf(t, k)
           /\ LeftCount(t, b, d) = LeftCount(t, b + 1, d) + 1
           /\ LeftCount(t + 1, b, d) = LeftCount(t, b + 1, d)
           /\ LeftCount(t, b + 1, d) \in Nat
           /\ \A n \in 0 .. b : LeftCount(t + 1, b - n, d) = LeftCount(t, b + 1, d) + n
<1>0. d \in Nat /\ WordSize \in Nat /\ d <= WordSize /\ b \in 0 .. WordSize - 1 /\ t + 1 \in Nat
      /\ b \in 0 .. d /\ b < d /\ b + 1 \in 0 .. d /\ b \in Nat /\ b + 1 \in b + 1 .. d
  BY WordIsWide
<1>1. /\ ClearBelow(t + 1, b) /\ BitOf(t + 1, b) = 1 /\ BitOf(t, b) = 0
      /\ \A i \in b + 1 .. WordSize : BitOf(t + 1, i) = BitOf(t, i)
  BY <1>0, Carry DEF ClearBelow, LowestZero
<1>2. \A i \in b + 1 .. d - 1 : BitOf(t + 1, i) = BitOf(t, i)
  <2>1. \A i \in b + 1 .. d - 1 : i \in b + 1 .. WordSize
    BY <1>0
  <2> QED BY <1>1, <2>1
<1>3. ASSUME NEW k \in b + 1 .. d
      PROVE  Path(M, d, t + 1, k) = Path(M, d, t, k) /\ LeftCount(t + 1, k, d) = LeftCount(t, k, d)
  <2>1. k \in 0 .. d /\ \A i \in k .. d - 1 : i \in b + 1 .. d - 1
    BY <1>0
  <2>2. \A i \in k .. d - 1 : BitOf(t + 1, i) = BitOf(t, i)
    BY <1>2, <2>1
  <2> QED BY <1>0, <2>1, <2>2, SamePath, SameLefts
<1>4. LeftCount(t, b, d) = LeftCount(t, b + 1, d) + 1 /\ LeftCount(t, b + 1, d) \in Nat
  BY <1>0, <1>1, CountLefts
<1>5. LeftCount(t + 1, b, d) = LeftCount(t, b + 1, d)
  <2>1. LeftCount(t + 1, b, d) = LeftCount(t + 1, b + 1, d) + (IF BitOf(t + 1, b) = 0 THEN 1 ELSE 0)
    BY <1>0, CountLefts
  <2>2. LeftCount(t + 1, b + 1, d) = LeftCount(t, b + 1, d)
    BY <1>0, <1>3
  <2> QED BY <1>1, <1>4, <2>1, <2>2
<1>6. \A n \in 0 .. b : LeftCount(t + 1, b - n, d) = LeftCount(t, b + 1, d) + n
  <2>1. \A n \in 0 .. b : LeftCount(t + 1, b - n, d) = LeftCount(t + 1, b, d) + n
    BY <1>0, <1>1, CountClear
  <2> QED BY <1>5, <2>1
<1> QED BY <1>1, <1>2, <1>3, <1>4, <1>5, <1>6

\* The pairs of the child's key behind those above the branch.
LEMMA PairsEvolve ==
    ASSUME NEW M \in Seeds, NEW d \in 0 .. WordSize, NEW t \in Nat, NEW b \in 0 .. d - 1,
           LowestZero(t, b), NEW pks, PairsOK(pks, M, d, t),
           NEW cpks, NEW crs, PartsBelow(cpks, crs, M, d, t + 1, b)
    PROVE  PairsOK(pks_extend(pks, d - b, cpks), M, d, t + 1)
<1>0. d \in Nat /\ b \in Nat /\ b < d
  BY WordIsWide
<1>1. DOMAIN pks = 1 .. d
  BY DEF PairsOK
<1>2. PICK new : new = pks_extend(pks, d - b, cpks)
                 /\ new = [i \in 1 .. d |-> IF i > d - b THEN cpks[i - (d - b)] ELSE pks[i]]
  BY <1>1 DEF pks_extend
<1>3. ASSUME NEW k \in 0 .. d - 1 PROVE new[d - k] = PairAt(M, d, t + 1, k)
  <2>1. PICK i \in 1 .. d : i = d - k
    BY <1>0
  <2>2. CASE k \in 0 .. b - 1
    <3>1. i > d - b /\ i - (d - b) = b - k
      BY <1>0, <2>1, <2>2
    <3>2. new[i] = cpks[b - k]
      BY <1>2, <3>1
    <3>3. cpks[b - k] = PairAt(M, d, t + 1, k)
      BY <2>2 DEF PartsBelow
    <3> QED BY <2>1, <3>2, <3>3
  <2>3. CASE k \notin 0 .. b - 1
    <3>1. ~(i > d - b) /\ k + 1 \in b + 1 .. d
      BY <1>0, <2>1, <2>3
    <3>2. new[i] = PairAt(M, d, t, k)
      BY <1>2, <2>1, <3>1 DEF PairsOK
    <3>3. Path(M, d, t + 1, k + 1) = Path(M, d, t, k + 1)
      BY <3>1, BranchBits
    <3>4. PairAt(M, d, t + 1, k) = PairAt(M, d, t, k)
      BY <3>3 DEF PairAt
    <3> QED BY <2>1, <3>2, <3>4
  <2> QED BY <2>2, <2>3
<1> QED BY <1>2, <1>3 DEF PairsOK

\* What rs_pop leaves.
IsPopped(popped, rs, n) == popped = [rs EXCEPT ![n] = ZeroSeed]

\* The child's seeds in the place of the one it was made from.
LEMMA SeedsEvolve ==
    ASSUME NEW M \in Seeds, NEW d \in 0 .. WordSize, NEW t \in Nat, NEW b \in 0 .. d - 1,
           LowestZero(t, b), NEW rs, SeedsOK(rs, M, d, t),
           LeftCount(t, 0, d) = LeftCount(t, b, d),
           NEW cpks, NEW crs, PartsBelow(cpks, crs, M, d, t + 1, b), Len(crs) = b,
           NEW popped, IsPopped(popped, rs, LeftCount(t, b, d))
    PROVE  SeedsOK(rs_extend(popped, LeftCount(t, b, d) - 1, crs), M, d, t + 1)
<1>0. d \in Nat /\ b \in Nat /\ b < d /\ b \in 0 .. b /\ 0 \in 0 .. d /\ b \in 0 .. d
  BY WordIsWide
<1>1. PICK m \in Nat : m = LeftCount(t, b + 1, d)
  BY BranchBits
<1>2. LeftCount(t, b, d) = m + 1 /\ LeftCount(t, b, d) - 1 = m
  BY <1>1, BranchBits
<1>3. m + b <= d
  <2>1. LeftCount(t + 1, b - b, d) = m + b /\ b - b = 0 /\ t + 1 \in Nat
    BY <1>0, <1>1, BranchBits
  <2>2. LeftCount(t + 1, 0, d) <= d - 0
    BY <1>0, <2>1, CountLefts
  <2> QED BY <1>0, <2>1, <2>2
<1>4. m + 1 <= d
  <2>1. LeftCount(t, b, d) <= d - b
    BY <1>0, CountLefts
  <2> QED BY <1>0, <1>2, <2>1
<1>5. popped = [rs EXCEPT ![m + 1] = ZeroSeed]
  BY <1>2 DEF IsPopped
<1>6. /\ DOMAIN popped = 1 .. d /\ popped[m + 1] = ZeroSeed
      /\ \A i \in 1 .. d : i # m + 1 => popped[i] = rs[i]
  <2>1. DOMAIN rs = 1 .. d /\ m + 1 \in 1 .. d
    BY <1>0, <1>4 DEF SeedsOK
  <2> QED BY <1>5, <2>1
<1>7. PICK new : new = rs_extend(popped, LeftCount(t, b, d) - 1, crs)
                 /\ new = [i \in 1 .. d |-> IF i \in m + 1 .. m + b THEN crs[i - m] ELSE popped[i]]
  <2>1. rs_extend(popped, m, crs)
            = [i \in 1 .. d |-> IF i \in m + 1 .. m + b THEN crs[i - m] ELSE popped[i]]
    BY <1>6 DEF rs_extend
  <2> QED BY <1>2, <2>1
<1>8. LeftCount(t + 1, 0, d) = m + b
  <2>1. LeftCount(t + 1, b - b, d) = m + b /\ b - b = 0
    BY <1>0, <1>1, BranchBits
  <2> QED BY <2>1
<1>9. ASSUME NEW k \in 0 .. d - 1, BitOf(t + 1, k) = 0
      PROVE  new[LeftCount(t + 1, k, d)] = Append(Path(M, d, t + 1, k + 1), 2)
  <2>1. k # b
    BY <1>9, BranchBits
  <2>2. CASE k \in 0 .. b - 1
    <3>1. PICK n \in 0 .. b : n = b - k /\ b - n = k /\ n > 0
      BY <1>0, <2>2
    <3>2. LeftCount(t + 1, k, d) = m + n
      <4>1. LeftCount(t + 1, b - n, d) = m + n
        BY <1>1, BranchBits
      <4> QED BY <3>1, <4>1
    <3>3. m + n \in 1 .. d /\ m + n \in m + 1 .. m + b /\ (m + n) - m = n
      BY <1>0, <1>3, <3>1
    <3>4. new[m + n] = crs[n]
      BY <1>7, <3>3
    <3>5. crs[b - k] = Append(Path(M, d, t + 1, k + 1), 2)
      BY <2>2 DEF PartsBelow
    <3> QED BY <3>1, <3>2, <3>4, <3>5
  <2>3. CASE k \notin 0 .. b - 1
    <3>1. k \in b + 1 .. d - 1 /\ k \in b + 1 .. d /\ k + 1 \in b + 1 .. d /\ k \in 0 .. d
          /\ b + 1 \in 0 .. d /\ k < d /\ k + 1 \in 0 .. d
      BY <1>0, <2>1, <2>3
    <3>2. /\ BitOf(t, k) = 0 /\ LeftCount(t + 1, k, d) = LeftCount(t, k, d)
          /\ Path(M, d, t + 1, k + 1) = Path(M, d, t, k + 1)
      BY <1>9, <3>1, BranchBits
    <3>3. rs[LeftCount(t, k, d)] = Append(Path(M, d, t, k + 1), 2)
      BY <3>2 DEF SeedsOK
    <3>4. LeftCount(t, k, d) <= m
      BY <1>1, <3>1, CountGrows
    <3>5. /\ LeftCount(t, k, d) = LeftCount(t, k + 1, d) + (IF BitOf(t, k) = 0 THEN 1 ELSE 0)
          /\ LeftCount(t, k + 1, d) \in Nat
      BY <3>1, CountLefts
    <3>6. PICK c \in 1 .. m : c = LeftCount(t, k, d)
      BY <3>2, <3>4, <3>5
    <3>7. c \in 1 .. d /\ c # m + 1 /\ c \notin m + 1 .. m + b
      BY <1>0, <1>4
    <3>8. new[c] = rs[c]
      BY <1>6, <1>7, <3>7
    <3> QED BY <3>2, <3>3, <3>6, <3>8
  <2> QED BY <2>2, <2>3
<1>10. ASSUME NEW j \in (m + b) + 1 .. d PROVE new[j] = ZeroSeed
  <2>1. j \in 1 .. d /\ j \notin m + 1 .. m + b
    BY <1>0, <1>10
  <2>2. new[j] = popped[j]
    BY <1>7, <2>1
  <2>3. CASE j = m + 1
    BY <1>6, <2>2, <2>3
  <2>4. CASE j # m + 1
    <3>1. j \in (m + 1) + 1 .. d
      BY <1>0, <1>10, <2>1, <2>4
    <3>2. \A i \in LeftCount(t, 0, d) + 1 .. d : rs[i] = ZeroSeed
      BY DEF SeedsOK
    <3>3. rs[j] = ZeroSeed
      BY <1>2, <3>1, <3>2
    <3> QED BY <1>6, <2>1, <2>2, <2>4, <3>3
  <2> QED BY <2>3, <2>4
<1>11. new = [i \in 1 .. d |-> new[i]]
  BY <1>7
<1> QED BY <1>7, <1>8, <1>9, <1>10, <1>11 DEF SeedsOK

\* The update of a key is the key of the next period.
LEMMA KeyEvolves ==
    ASSUME NEW M \in Seeds, NEW d \in 0 .. WordSize, NEW key, KeyOK(key, M, d),
           NEW new \in update(key)
    PROVE  KeyOK(new, M, d) /\ new.t = key.t + 1
<1>0. d \in Nat /\ WordSize \in Nat /\ d <= WordSize /\ two_to(d) \in Nat
  BY WordIsWide, TwoTo
<1>1. rs_len(key) # 0
  BY DEF update
<1>2. PICK t \in Nat : t = key.t
  BY SeedsInKey
<1>3. PICK b \in 0 .. d - 1 : BranchLevel(key, M, d, b)
  BY <1>1, Branching
<1>4. /\ LowestZero(t, b) /\ t + 1 < two_to(d) /\ Cardinality(Flipped(t)) = b + 1
      /\ rs_len(key) = LeftCount(t, b, d)
      /\ key.rs[rs_len(key)] = Path(M, d, t + 1, b)
  BY <1>2, <1>3 DEF BranchLevel
<1>5. b \in Nat /\ (b + 1) - 1 = b /\ b \in 0 .. WordSize /\ b \in 0 .. d /\ t + 1 \in Nat
  BY <1>0
<1>6. PICK N \in Seeds : N = Path(M, d, t + 1, b)
  BY <1>5, PathType
<1>7. PICK cpks, crs : NewParts(b, N, cpks, crs)
  BY <1>5, NewKey
<1>8. PICK child : child = keygen(b, N).secret
  OBVIOUS
<1>9. /\ child = [depth |-> b, t |-> 0, sk |-> keygen_1(N \o Ones(b)), pks |-> cpks, rs |-> crs]
      /\ Len(crs) = b
  BY <1>7, <1>8 DEF NewParts
<1>10. PartsBelow(cpks, crs, M, d, t + 1, b)
  <2>1. ClearBelow(t + 1, b)
    BY <1>4, BranchBits
  <2>2. NewParts(b, Path(M, d, t + 1, b), cpks, crs)
    BY <1>6, <1>7
  <2> QED BY <1>5, <2>1, <2>2, ChildParts
<1>11. PICK npks : npks = pks_extend(key.pks, d - b, cpks)
  OBVIOUS
<1>12. PICK nrs : nrs = rs_extend(rs_pop(key), rs_len(key) - 1, crs)
  OBVIOUS
<1>13. PairsOK(npks, M, d, t + 1)
  <2>1. PairsOK(key.pks, M, d, t)
    BY <1>2 DEF KeyOK
  <2> QED BY <1>4, <1>10, <1>11, <2>1, PairsEvolve
<1>14. SeedsOK(nrs, M, d, t + 1)
  <2>1. SeedsOK(key.rs, M, d, t)
    BY <1>2 DEF KeyOK
  <2>2. IsPopped(rs_pop(key), key.rs, LeftCount(t, b, d))
    BY <1>4 DEF IsPopped, rs_pop
  <2>3. LeftCount(t, 0, d) = LeftCount(t, b, d)
    BY <1>2, <1>4, SeedsInKey
  <2>4. SeedsOK(rs_extend(rs_pop(key), LeftCount(t, b, d) - 1, crs), M, d, t + 1)
    BY <1>4, <1>9, <1>10, <2>1, <2>2, <2>3, SeedsEvolve
  <2> QED BY <1>4, <1>12, <2>4
<1>15. new = [key EXCEPT !.t = t + 1, !.sk = child.sk, !.rs = nrs, !.pks = npks]
  <2>1. Child(key).secret = child
    BY <1>2, <1>4, <1>5, <1>6, <1>8 DEF Child
  <2>2. child.rs = crs /\ child.pks = cpks /\ key.depth - child.depth = d - b
    BY <1>9 DEF KeyOK
  <2>3. new = [key EXCEPT !.t = @ + 1, !.sk = child.sk,
                          !.rs = rs_extend(rs_pop(key), rs_len(key) - 1, child.rs),
                          !.pks = pks_extend(@, key.depth - child.depth, child.pks)]
    BY <1>1, <2>1 DEF update
  <2> QED BY <1>2, <1>11, <1>12, <2>2, <2>3
<1>16. {"depth", "t", "sk", "pks", "rs"} \subseteq DOMAIN key /\ key.depth = d
  BY DEF KeyOK
<1>17. /\ DOMAIN new = DOMAIN key /\ new.depth = d
       /\ new.t = t + 1 /\ new.sk = child.sk /\ new.pks = npks /\ new.rs = nrs
  BY <1>15, <1>16
<1>18. child.sk = keygen_1(Path(M, d, t + 1, 0))
  BY <1>6, <1>9, <1>10 DEF PartsBelow
<1>19. t + 1 \in 0 .. two_to(d) - 1
  BY <1>0, <1>4, <1>5
<1> QED BY <1>2, <1>13, <1>14, <1>16, <1>17, <1>18, <1>19 DEF KeyOK

-----------------------------------------------------------------------------
(* Public keys and signatures. *)

ClimbUp(got, i, env) ==
    IF BitOf(env[1], i - 1) = 1 THEN hash(env[2][i], got) ELSE hash(got, env[2][i])

Cl == INSTANCE FoldTheorems WITH Op <- ClimbUp

\* The other keys of the pairs on the path of t, from the leaf up.
AreSiblings(siblings, M, d, t) ==
    /\ siblings = [i \in 1 .. d |-> siblings[i]]
    /\ \A k \in 0 .. d - 1 :
        siblings[k + 1] = IF BitOf(t, k) = 1 THEN PairAt(M, d, t, k)[1] ELSE PairAt(M, d, t, k)[2]

\* They lead from the leaf of t to the root of the tree.
LEMMA ClimbRoot ==
    ASSUME NEW M \in Seeds, NEW d \in 0 .. WordSize, NEW t \in Nat,
           NEW siblings, AreSiblings(siblings, M, d, t)
    PROVE  Climb(t, <<"leaf", Path(M, d, t, 0)>>, siblings) = pkeygen[d][M]
<1>0. d \in Nat /\ WordSize \in Nat /\ d <= WordSize /\ 0 \in 0 .. d
  BY WordIsWide
<1>1. PICK leaf : leaf = <<"leaf", Path(M, d, t, 0)>>
  OBVIOUS
<1>2. PICK seq : seq = [i \in DOMAIN siblings |-> i]
  OBVIOUS
<1>3. seq = [i \in 1 .. d |-> i]
  BY <1>2 DEF AreSiblings
<1>4. seq \in Seq(Int) /\ Len(seq) = d /\ \A i \in 1 .. d : seq[i] = i
  BY <1>0, <1>3
<1>5. Climb(t, leaf, siblings) = Cl!Fold(leaf, seq, <<t, siblings>>)
  BY <1>2 DEF Climb, Cl!Fold, Cl!Greatest, ClimbUp, FoldLeft, MapThenFoldSet, Max
<1>6. PICK h : Cl!IsLoop(h, leaf, seq, <<t, siblings>>)
               /\ Cl!Fold(leaf, seq, <<t, siblings>>) = h[Len(seq)]
  BY <1>0, <1>4, Cl!FoldIsLoop
<1> DEFINE S == {i \in Nat : h[i] = pkeygen[i][Path(M, d, t, i)]}
<1>7. 0 \in S
  <2>1. h[0] = leaf
    BY <1>6 DEF Cl!IsLoop
  <2>2. Path(M, d, t, 0) \in Seeds
    BY <1>0, PathType
  <2>3. pkeygen[0][Path(M, d, t, 0)] = leaf
    BY <1>1, <2>2, NodeKeys
  <2> QED BY <2>1, <2>3
<1>8. ASSUME NEW k \in Nat, 0 <= k, k < d, k \in S PROVE k + 1 \in S
  <2>1. k + 1 \in 1 .. d /\ (k + 1) - 1 = k /\ k \in 0 .. d - 1 /\ k + 1 \in 0 .. d
        /\ k \in 0 .. WordSize - 1 /\ k \in 0 .. WordSize
    BY <1>0, <1>8
  <2>2. h[k + 1] = ClimbUp(h[k], k + 1, <<t, siblings>>)
    BY <1>4, <1>6, <2>1 DEF Cl!IsLoop
  <2>3. h[k + 1] = IF BitOf(t, k) = 1 THEN hash(siblings[k + 1], h[k]) ELSE hash(h[k], siblings[k + 1])
    BY <2>1, <2>2 DEF ClimbUp
  <2>4. PICK p \in Seeds : p = Path(M, d, t, k + 1)
    BY <2>1, PathType
  <2>5. pkeygen[k + 1][p] = hash(pkeygen[k][Append(p, 1)], pkeygen[k][Append(p, 2)])
    BY <2>1, NodeKeys
  <2>6. h[k] = pkeygen[k][Append(p, 1 + BitOf(t, k))]
    <3>1. h[k] = pkeygen[k][Path(M, d, t, k)]
      BY <1>8
    <3>2. Path(M, d, t, k) = Append(p, 1 + BitOf(t, k))
      BY <2>1, <2>4, PathStep
    <3> QED BY <3>1, <3>2
  <2>7. siblings[k + 1] = IF BitOf(t, k) = 1 THEN pkeygen[k][Append(p, 1)] ELSE pkeygen[k][Append(p, 2)]
    BY <2>1, <2>4 DEF AreSiblings, PairAt
  <2>8. BitOf(t, k) \in {0, 1}
    BY <2>1, AboveHalves
  <2>9. CASE BitOf(t, k) = 1
    <3>1. 1 + BitOf(t, k) = 2
      BY <2>9
    <3> QED BY <2>3, <2>4, <2>5, <2>6, <2>7, <2>9, <3>1
  <2>10. CASE BitOf(t, k) = 0
    <3>1. 1 + BitOf(t, k) = 1
      BY <2>10
    <3> QED BY <2>3, <2>4, <2>5, <2>6, <2>7, <2>10, <3>1
  <2> QED BY <2>8, <2>9, <2>10
<1> HIDE DEF S
<1>9. \A i \in 0 .. d : i \in S
  BY <1>0, <1>7, <1>8, K!IntervalInduction
<1>10. h[d] = pkeygen[d][Path(M, d, t, d)]
  BY <1>0, <1>9 DEF S
<1>11. Path(M, d, t, d) = M
  BY PathTop
<1> QED BY <1>1, <1>4, <1>5, <1>6, <1>10, <1>11

\* An evolved key still belongs to the public key it was made with.
LEMMA SamePublicKey ==
    ASSUME NEW M \in Seeds, NEW d \in 0 .. WordSize, NEW key, KeyOK(key, M, d)
    PROVE  compute_public(key) = keygen(d, M).public
<1>0. d \in Nat
  BY WordIsWide
<1>1. PICK t \in Nat : t = key.t
  BY SeedsInKey
<1>2. PICK siblings : siblings = [i \in DOMAIN key.pks |->
            LET pair == key.pks[key.depth - i + 1]
            IN  IF BitOf(key.t, i - 1) = 1 THEN pair[1] ELSE pair[2]]
  OBVIOUS
<1>3. /\ DOMAIN key.pks = 1 .. d /\ key.depth = d
      /\ \A k \in 0 .. d - 1 : key.pks[d - k] = PairAt(M, d, t, k)
  BY <1>1 DEF KeyOK, PairsOK
<1>4. siblings = [i \in 1 .. d |-> IF BitOf(t, i - 1) = 1 THEN key.pks[d - i + 1][1]
                                   ELSE key.pks[d - i + 1][2]]
  BY <1>1, <1>2, <1>3
<1>5. ASSUME NEW k \in 0 .. d - 1
      PROVE  siblings[k + 1] = IF BitOf(t, k) = 1 THEN PairAt(M, d, t, k)[1] ELSE PairAt(M, d, t, k)[2]
  <2>1. k + 1 \in 1 .. d /\ (k + 1) - 1 = k /\ d - (k + 1) + 1 = d - k
    BY <1>0
  <2>2. siblings[k + 1] = IF BitOf(t, (k + 1) - 1) = 1 THEN key.pks[d - (k + 1) + 1][1]
                          ELSE key.pks[d - (k + 1) + 1][2]
    BY <1>4, <2>1
  <2>3. siblings[k + 1] = IF BitOf(t, k) = 1 THEN key.pks[d - k][1] ELSE key.pks[d - k][2]
    BY <2>1, <2>2
  <2> QED BY <1>3, <2>3
<1>6. AreSiblings(siblings, M, d, t)
  BY <1>4, <1>5 DEF AreSiblings
<1>7. key.sk.public = <<"leaf", Path(M, d, t, 0)>>
  BY <1>1 DEF KeyOK, keygen_1
<1>8. compute_public(key) = Climb(t, <<"leaf", Path(M, d, t, 0)>>, siblings)
  BY <1>1, <1>2, <1>7 DEF compute_public
<1> QED BY <1>6, <1>8, ClimbRoot, NewKey

\* A signature made with a key verifies for that public key.
LEMMA SignedVerifies ==
    ASSUME NEW M \in Seeds, NEW d \in 0 .. WordSize, NEW key, KeyOK(key, M, d), NEW m
    PROVE  verify(keygen(d, M).public, m, sign(key, m))
<1>0. d \in Nat /\ WordSize \in Nat /\ d <= WordSize
  BY WordIsWide
<1>1. PICK t \in Nat : t = key.t
  BY SeedsInKey
<1>2. PICK sibs : sibs = Siblings(key)
  OBVIOUS
<1>3. /\ DOMAIN key.pks = 1 .. d /\ key.depth = d
      /\ \A k \in 0 .. d - 1 : key.pks[d - k] = PairAt(M, d, t, k)
  BY <1>1 DEF KeyOK, PairsOK
<1>4. sibs = [i \in 1 .. d |-> IF t % total(d - i + 1) >= half(d - i + 1) THEN key.pks[i][1]
                               ELSE key.pks[i][2]]
  BY <1>1, <1>2, <1>3 DEF Siblings
<1>5. PICK siblings : siblings = Reverse(sibs)
  OBVIOUS
<1>6. siblings = [i \in 1 .. d |-> sibs[d - i + 1]]
  <2>1. Len(sibs) = d
    BY <1>0, <1>4
  <2> QED BY <1>5, <2>1 DEF Reverse
<1>7. ASSUME NEW k \in 0 .. d - 1
      PROVE  siblings[k + 1] = IF BitOf(t, k) = 1 THEN PairAt(M, d, t, k)[1] ELSE PairAt(M, d, t, k)[2]
  <2>1. PICK i \in 1 .. d : i = d - k
    BY <1>0
  <2>2. k + 1 \in 1 .. d /\ d - (k + 1) + 1 = i /\ d - i + 1 = k + 1 /\ (k + 1) - 1 = k
        /\ k \in 0 .. WordSize - 1
    BY <1>0, <2>1
  <2>3. siblings[k + 1] = sibs[i]
    BY <1>6, <2>2
  <2>4. sibs[i] = IF t % two_to(k + 1) >= two_to(k) THEN key.pks[i][1] ELSE key.pks[i][2]
    <3>1. total(d - i + 1) = two_to(k + 1) /\ half(d - i + 1) = two_to(k)
      BY <2>2 DEF total, half
    <3> QED BY <1>4, <3>1
  <2>5. t % two_to(k + 1) >= two_to(k) <=> BitOf(t, k) = 1
    BY <2>2, UpperHalf
  <2>6. key.pks[i] = PairAt(M, d, t, k)
    BY <1>3, <2>1
  <2> QED BY <2>3, <2>4, <2>5, <2>6
<1>8. AreSiblings(siblings, M, d, t)
  BY <1>6, <1>7 DEF AreSiblings
<1>9. key.sk.public = <<"leaf", Path(M, d, t, 0)>> /\ key.sk.secret = Path(M, d, t, 0)
  BY <1>1 DEF KeyOK, keygen_1
<1>10. Climb(t, <<"leaf", Path(M, d, t, 0)>>, siblings) = keygen(d, M).public
  BY <1>8, ClimbRoot, NewKey
<1>11. PICK sig : sig = sign(key, m)
  OBVIOUS
<1>12. /\ sig.t = t /\ sig.sigma = <<Path(M, d, t, 0), m>>
       /\ sig.pk = <<"leaf", Path(M, d, t, 0)>> /\ sig.pks = sibs
  BY <1>1, <1>2, <1>9, <1>11 DEF sign
<1>13. verify(keygen(d, M).public, m, sig)
  BY <1>5, <1>10, <1>12 DEF verify
<1> QED BY <1>11, <1>13

-----------------------------------------------------------------------------
(* What can be made from a key. *)

\* A prefix has the same elements.
LEMMA PrefixElements ==
    ASSUME NEW s \in Seeds, NEW r \in Seeds
    PROVE  IsPrefix(s, r) <=> Len(s) <= Len(r) /\ \A i \in 1 .. Len(s) : s[i] = r[i]
<1>0. s \in Seq(0 .. 2) /\ r \in Seq(0 .. 2) /\ Len(s) \in Nat /\ Len(r) \in Nat
  BY DEF Seeds
<1>1. ASSUME Len(s) <= Len(r)
      PROVE  SubSeq(s, 1, Len(s)) = SubSeq(r, 1, Len(s)) <=> \A i \in 1 .. Len(s) : s[i] = r[i]
  <2>1. /\ SubSeq(s, 1, Len(s)) \in Seq(0 .. 2) /\ Len(SubSeq(s, 1, Len(s))) = Len(s)
        /\ \A i \in 1 .. Len(s) : SubSeq(s, 1, Len(s))[i] = s[i]
    BY <1>0
  <2>2. /\ SubSeq(r, 1, Len(s)) \in Seq(0 .. 2) /\ Len(SubSeq(r, 1, Len(s))) = Len(s)
        /\ \A i \in 1 .. Len(s) : SubSeq(r, 1, Len(s))[i] = r[i]
    BY <1>0, <1>1
  <2>3. ASSUME \A i \in 1 .. Len(s) : s[i] = r[i] PROVE SubSeq(s, 1, Len(s)) = SubSeq(r, 1, Len(s))
    BY <2>1, <2>2, <2>3, SameSequence
  <2> QED BY <2>1, <2>2, <2>3
<1> QED BY <1>1 DEF IsPrefix

\* The leaves of two periods are one when the periods are.
LEMMA SameLeaf ==
    ASSUME NEW M \in Seeds, NEW d \in 0 .. WordSize,
           NEW t \in 0 .. two_to(d) - 1, NEW u \in 0 .. two_to(d) - 1
    PROVE  Path(M, d, t, 0) = Path(M, d, u, 0) <=> t = u
<1>0. d \in Nat /\ t \in Nat /\ u \in Nat /\ 0 \in 0 .. d /\ d - 0 = d
  BY WordIsWide
<1>1. ASSUME Path(M, d, t, 0) = Path(M, d, u, 0), NEW k \in 0 .. d - 1
      PROVE  BitOf(t, k) = BitOf(u, k)
  <2>1. PICK i \in 1 .. d : i = d - k /\ d - i = k
    BY <1>0
  <2>2. Path(M, d, t, 0)[Len(M) + i] = 1 + BitOf(t, d - i)
    BY <1>0, PathType
  <2>3. Path(M, d, u, 0)[Len(M) + i] = 1 + BitOf(u, d - i)
    BY <1>0, PathType
  <2>4. k \in 0 .. WordSize
    BY <1>0, WordIsWide
  <2>5. BitOf(t, k) \in {0, 1} /\ BitOf(u, k) \in {0, 1}
    BY <1>0, <2>4, AboveHalves
  <2>6. 1 + BitOf(t, k) = 1 + BitOf(u, k)
    BY <1>1, <2>1, <2>2, <2>3
  <2> QED BY <2>5, <2>6
<1> QED BY <1>1, LaterBranches

\* The seed beside the path of t at the level k is on the way to the leaves of the
\* periods that branch off there.
LEMMA BesideThePath ==
    ASSUME NEW M \in Seeds, NEW d \in 0 .. WordSize, NEW t \in Nat, NEW u \in Nat,
           NEW k \in 0 .. d - 1, BitOf(t, k) = 0
    PROVE  IsPrefix(Append(Path(M, d, t, k + 1), 2), Path(M, d, u, 0)) <=> Branches(t, u, k, d)
<1>l. Len(M) \in Nat
  BY DEF Seeds
<1>z. d \in Nat /\ k + 1 \in 0 .. d /\ 0 \in 0 .. d
  BY WordIsWide
<1>0. d \in Nat /\ k \in Nat /\ k < d /\ WordSize \in Nat /\ d <= WordSize /\ Len(M) \in Nat
  BY <1>l, WordIsWide
<1>1. PICK q : q = Path(M, d, t, k + 1)
  OBVIOUS
<1>2. PICK r : r = Path(M, d, u, 0)
  OBVIOUS
<1>3. /\ q \in Seeds /\ Len(q) = Len(M) + (d - (k + 1))
      /\ \A i \in 1 .. Len(M) : q[i] = M[i]
      /\ \A i \in 1 .. d - (k + 1) : q[Len(M) + i] = 1 + BitOf(t, d - i)
  <2>1. PICK e \in 0 .. d : e = k + 1
    BY <1>z
  <2>2. /\ Path(M, d, t, e) \in Seeds /\ Len(Path(M, d, t, e)) = Len(M) + (d - e)
        /\ \A i \in 1 .. Len(M) : Path(M, d, t, e)[i] = M[i]
        /\ \A i \in 1 .. d - e : Path(M, d, t, e)[Len(M) + i] = 1 + BitOf(t, d - i)
    BY PathType
  <2> QED BY <1>1, <2>1, <2>2
<1>4. /\ r \in Seeds /\ Len(r) = Len(M) + d
      /\ \A i \in 1 .. Len(M) : r[i] = M[i]
      /\ \A i \in 1 .. d : r[Len(M) + i] = 1 + BitOf(u, d - i)
  <2>1. PICK e \in 0 .. d : e = 0
    BY <1>z
  <2>2. /\ Path(M, d, u, e) \in Seeds /\ Len(Path(M, d, u, e)) = Len(M) + (d - e)
        /\ \A i \in 1 .. Len(M) : Path(M, d, u, e)[i] = M[i]
        /\ \A i \in 1 .. d - e : Path(M, d, u, e)[Len(M) + i] = 1 + BitOf(u, d - i)
    BY PathType
  <2>3. d - e = d
    BY <1>0, <2>1
  <2> QED BY <1>2, <2>1, <2>2, <2>3
<1>5. PICK s : s = Append(q, 2)
  OBVIOUS
<1>6. /\ s \in Seeds /\ Len(s) = Len(q) + 1
      /\ s[Len(q) + 1] = 2 /\ \A i \in 1 .. Len(q) : s[i] = q[i]
  BY <1>3, <1>5, ChildSeed
<1>7. Len(q) + 1 = Len(M) + (d - k) /\ Len(s) <= Len(r) /\ Len(q) \in Nat
  BY <1>0, <1>3, <1>4, <1>6
<1>8. IsPrefix(s, r) <=> \A i \in 1 .. Len(s) : s[i] = r[i]
  BY <1>4, <1>6, <1>7, PrefixElements
<1>b. ASSUME NEW i \in 0 .. d - 1 PROVE BitOf(t, i) \in {0, 1} /\ BitOf(u, i) \in {0, 1}
  <2>1. i \in 0 .. WordSize
    BY <1>0
  <2> QED BY <2>1, AboveHalves
<1>9. ASSUME \A i \in 1 .. Len(s) : s[i] = r[i] PROVE Branches(t, u, k, d)
  <2>1. BitOf(u, k) = 1
    <3>1. d - k \in 1 .. d /\ d - (d - k) = k /\ Len(q) + 1 \in 1 .. Len(s)
      BY <1>0, <1>6, <1>7
    <3>2. r[Len(M) + (d - k)] = 1 + BitOf(u, d - (d - k))
      BY <1>4, <3>1
    <3>3. r[Len(q) + 1] = 2
      BY <1>6, <1>9, <3>1
    <3>4. 1 + BitOf(u, k) = 2
      BY <1>7, <3>1, <3>2, <3>3
    <3> QED BY <1>b, <3>4
  <2>2. ASSUME NEW j \in k + 1 .. d - 1 PROVE BitOf(t, j) = BitOf(u, j)
    <3>1. PICK i \in 1 .. d - (k + 1) : i = d - j /\ d - i = j
      BY <1>0
    <3>2. i \in 1 .. d /\ Len(M) + i \in 1 .. Len(q) /\ Len(M) + i \in 1 .. Len(s) /\ j \in 0 .. d - 1
      BY <1>0, <1>3, <1>6, <3>1
    <3>3. q[Len(M) + i] = 1 + BitOf(t, d - i) /\ r[Len(M) + i] = 1 + BitOf(u, d - i)
      BY <1>3, <1>4, <3>2
    <3>4. q[Len(M) + i] = r[Len(M) + i]
      BY <1>6, <1>9, <3>2
    <3>5. 1 + BitOf(t, j) = 1 + BitOf(u, j)
      BY <3>1, <3>3, <3>4
    <3> QED BY <1>b, <3>2, <3>5
  <2> QED BY <2>1, <2>2 DEF Branches
<1>10. ASSUME Branches(t, u, k, d), NEW i \in 1 .. Len(s) PROVE s[i] = r[i]
  <2>1. CASE i \in 1 .. Len(M)
    <3>1. i \in 1 .. Len(q)
      BY <1>0, <1>3, <2>1
    <3> QED BY <1>3, <1>4, <1>6, <2>1, <3>1
  <2>2. CASE i = Len(q) + 1
    <3>1. d - k \in 1 .. d /\ d - (d - k) = k /\ i = Len(M) + (d - k)
      BY <1>0, <1>7, <2>2
    <3>2. r[Len(M) + (d - k)] = 1 + BitOf(u, d - (d - k))
      BY <1>4, <3>1
    <3>3. BitOf(u, k) = 1
      BY <1>10 DEF Branches
    <3> QED BY <1>6, <2>2, <3>1, <3>2, <3>3
  <2>3. CASE i \notin 1 .. Len(M) /\ i # Len(q) + 1
    <3>1. PICK j \in 1 .. d - (k + 1) : i = Len(M) + j
      <4>1. i - Len(M) \in 1 .. d - (k + 1) /\ i = Len(M) + (i - Len(M))
        <5>1. PICK a \in Nat : a = Len(M)
          BY <1>0
        <5>2. i \in 1 .. a + (d - k) /\ i \notin 1 .. a /\ i # a + (d - k)
          BY <1>6, <1>7, <2>3, <5>1
        <5>3. i - a \in 1 .. d - (k + 1) /\ i = a + (i - a)
          BY <1>0, <5>2
        <5> QED BY <5>1, <5>3
      <4> QED BY <4>1
    <3>2. j \in 1 .. d /\ i \in 1 .. Len(q) /\ d - j \in k + 1 .. d - 1
      BY <1>0, <1>3, <3>1
    <3>3. q[Len(M) + j] = 1 + BitOf(t, d - j) /\ r[Len(M) + j] = 1 + BitOf(u, d - j)
      BY <1>3, <1>4, <3>1, <3>2
    <3>4. BitOf(t, d - j) = BitOf(u, d - j)
      BY <1>10, <3>2 DEF Branches
    <3>5. s[i] = q[i]
      BY <1>6, <3>2
    <3> QED BY <3>1, <3>3, <3>4, <3>5
  <2> QED BY <2>1, <2>2, <2>3
<1>11. IsPrefix(s, r) <=> Branches(t, u, k, d)
  BY <1>8, <1>9, <1>10
<1> QED BY <1>1, <1>2, <1>5, <1>11

\* A key has what the leaves of its period and of the later ones are made from, and
\* of no other.
LEMMA WhatKeysMake ==
    ASSUME NEW M \in Seeds, NEW d \in 0 .. WordSize, NEW key, KeyOK(key, M, d),
           NEW u \in 0 .. two_to(d) - 1
    PROVE  Derivable(key, LeafOf(d, M, u)) <=> u >= key.t
<1>0. d \in Nat /\ two_to(d) \in Nat /\ u \in Nat /\ d - 0 = d /\ 0 \in 0 .. d
  BY WordIsWide, TwoTo
<1>1. PICK t \in 0 .. two_to(d) - 1 : t = key.t
  BY DEF KeyOK
<1>2. t \in Nat
  BY <1>0
<1>3. PICK leaf : leaf = LeafOf(d, M, u)
  OBVIOUS
<1>4. leaf = Path(M, d, u, 0)
  BY <1>0, <1>3 DEF LeafOf, Path
<1>5. key.sk.secret = Path(M, d, t, 0)
  BY <1>1 DEF KeyOK, keygen_1
<1>6. SeedsOK(key.rs, M, d, t)
  BY <1>1 DEF KeyOK
<1>7. key.sk.secret = leaf <=> t = u
  BY <1>4, <1>5, SameLeaf
<1>8. ASSUME NEW i \in DOMAIN key.rs, key.rs[i] # ZeroSeed, IsPrefix(key.rs[i], leaf)
      PROVE  t < u
  <2>1. LeftCount(t, 0, d) \in Nat
    BY <1>0, <1>2, CountLefts
  <2>2. i \in 1 .. d /\ i \notin LeftCount(t, 0, d) + 1 .. d
    BY <1>6, <1>8 DEF SeedsOK
  <2>3. i \in 1 .. LeftCount(t, 0, d)
    BY <1>0, <2>1, <2>2
  <2>4. PICK k \in 0 .. d - 1 : BitOf(t, k) = 0 /\ LeftCount(t, k, d) = i
    BY <1>2, <2>3, RankOfLeft
  <2>5. key.rs[i] = Append(Path(M, d, t, k + 1), 2)
    BY <1>6, <2>4 DEF SeedsOK
  <2>6. IsPrefix(Append(Path(M, d, t, k + 1), 2), Path(M, d, u, 0))
    BY <1>4, <1>8, <2>5
  <2>7. Branches(t, u, k, d)
    BY <1>0, <1>2, <2>4, <2>6, BesideThePath
  <2> QED BY <2>7, LaterBranches
<1>9. ASSUME t < u
      PROVE  \E i \in DOMAIN key.rs : key.rs[i] # ZeroSeed /\ IsPrefix(key.rs[i], leaf)
  <2>1. PICK k \in 0 .. d - 1 : Branches(t, u, k, d)
    BY <1>9, LaterBranches
  <2>2. BitOf(t, k) = 0
    BY <2>1 DEF Branches
  <2>3. k \in 0 .. d /\ k < d /\ k + 1 \in 0 .. d /\ k \in Nat
    BY <1>0
  <2>4. PICK i \in 1 .. d : i = LeftCount(t, k, d)
    <3>1. LeftCount(t, k, d) \in Nat /\ LeftCount(t, k, d) <= d - k
      BY <1>2, <2>3, CountLefts
    <3>2. LeftCount(t, k, d) = LeftCount(t, k + 1, d) + (IF BitOf(t, k) = 0 THEN 1 ELSE 0)
      BY <1>2, <2>3, CountLefts
    <3>3. LeftCount(t, k + 1, d) \in Nat
      BY <1>2, <2>3, CountLefts
    <3>4. LeftCount(t, k, d) \in 1 .. d
      BY <1>0, <2>2, <2>3, <3>1, <3>2, <3>3
    <3> QED BY <3>4
  <2>5. key.rs[i] = Append(Path(M, d, t, k + 1), 2)
    BY <1>6, <2>2, <2>4 DEF SeedsOK
  <2>6. IsPrefix(key.rs[i], leaf)
    BY <1>0, <1>2, <1>4, <2>1, <2>2, <2>5, BesideThePath
  <2>7. key.rs[i] # ZeroSeed
    <3>1. PICK p \in Seeds : p = Path(M, d, t, k + 1)
      BY <1>2, <2>3, PathType
    <3>2. Append(p, 2) # <<0>>
      <4>1. Append(p, 2)[Len(p) + 1] = 2 /\ Len(Append(p, 2)) = Len(p) + 1
        BY ChildSeed
      <4>2. Len(<<0>>) = 1 /\ <<0>>[1] = 0
        OBVIOUS
      <4>3. CASE Append(p, 2) = <<0>>
        <5>1. Len(p) + 1 = 1
          BY <4>1, <4>2, <4>3
        <5>2. <<0>>[1] = 2
          BY <4>1, <4>3, <5>1
        <5> QED BY <4>2, <5>2
      <4> QED BY <4>3
    <3> QED BY <2>5, <3>1, <3>2 DEF ZeroSeed
  <2>8. i \in DOMAIN key.rs
    BY <1>6, <2>4 DEF SeedsOK
  <2> QED BY <2>6, <2>7, <2>8
<1>10. Derivable(key, leaf) <=> t = u \/ t < u
  BY <1>7, <1>8, <1>9 DEF Derivable
<1>11. (t = u \/ t < u) <=> u >= t
  BY <1>0, <1>2
<1> QED BY <1>1, <1>3, <1>10, <1>11

\* update compares the child's public key with the right key of the pair it replaces.
LEMMA AssertionHolds ==
    ASSUME NEW M \in Seeds, NEW d \in 0 .. WordSize, NEW key, KeyOK(key, M, d)
    PROVE  UpdateAssertion(key)
<1>0. d \in Nat /\ WordSize \in Nat /\ d <= WordSize
  BY WordIsWide
<1>1. rs_len(key) \in Nat /\ key.depth = d
  BY SeedsInKey
<1>2. CASE rs_len(key) = 0
  <2>1. ~(rs_len(key) > 0)
    BY <1>2
  <2> QED BY <2>1 DEF UpdateAssertion
<1>3. CASE rs_len(key) # 0
  <2>1. PICK b \in 0 .. d - 1 : BranchLevel(key, M, d, b)
    BY <1>3, Branching
  <2>2. PICK t \in Nat : t = key.t
    BY SeedsInKey
  <2>3. /\ Cardinality(Flipped(t)) = b + 1
        /\ Path(M, d, t + 1, b) = Append(Path(M, d, t, b + 1), 2)
        /\ key.rs[rs_len(key)] = Path(M, d, t + 1, b)
    BY <2>1, <2>2 DEF BranchLevel
  <2>4. (b + 1) - 1 = b /\ d - (b + 1) + 1 = d - b /\ b \in 0 .. WordSize /\ b \in 0 .. d /\ t + 1 \in Nat
    BY <1>0
  <2>5. PICK N \in Seeds : N = Path(M, d, t + 1, b)
    BY <2>4, PathType
  <2>6. Child(key) = keygen(b, N)
    BY <2>2, <2>3, <2>4, <2>5 DEF Child
  <2>7. Child(key).public = pkeygen[b][N]
    BY <2>4, <2>6, NewKey
  <2>8. key.pks[d - b] = PairAt(M, d, t, b)
    BY <2>2 DEF KeyOK, PairsOK
  <2>9. key.pks[d - b][2] = pkeygen[b][N]
    <3>1. PICK q : q = Append(Path(M, d, t, b + 1), 2)
      OBVIOUS
    <3>2. PairAt(M, d, t, b)[2] = pkeygen[b][q]
      BY <3>1 DEF PairAt
    <3> QED BY <2>3, <2>5, <2>8, <3>1, <3>2
  <2>10. key.depth - Cardinality(Flipped(key.t)) + 1 = d - b
    BY <1>1, <2>2, <2>3, <2>4
  <2> QED BY <2>7, <2>9, <2>10 DEF UpdateAssertion
<1> QED BY <1>2, <1>3

\* The bytes of a key are read back, and a key can be updated when update does.
LEMMA KeysAreRead ==
    ASSUME NEW M \in Seeds, NEW d \in 0 .. WordSize, NEW key, KeyOK(key, M, d)
    PROVE  /\ from_bytes_accepts(key)
           /\ is_updatable(key) <=> update(key) # {}
<1>0. d \in Nat /\ two_to(d) \in Nat
  BY WordIsWide, TwoTo
<1>1. /\ rs_len(key) = LeftCount(key.t, 0, d) /\ rs_len(key) \in Nat /\ key.t \in Nat
      /\ key.depth = d /\ (rs_len(key) # 0 <=> key.t + 1 < two_to(d))
  BY SeedsInKey
<1>2. key.t \in 0 .. two_to(d) - 1 /\ SeedsOK(key.rs, M, d, key.t)
  BY DEF KeyOK
<1>3. key.t < two_to(d)
  BY <1>0, <1>2
<1>4. Len(key.rs) = d /\ \A j \in LeftCount(key.t, 0, d) + 1 .. d : key.rs[j] = ZeroSeed
  BY <1>0, <1>2 DEF SeedsOK
<1>5. from_bytes_accepts(key)
  BY <1>1, <1>3, <1>4 DEF from_bytes_accepts, total
<1>6. is_updatable(key) <=> rs_len(key) # 0
  BY <1>1 DEF is_updatable, total
<1>7. update(key) # {} <=> rs_len(key) # 0
  BY DEF update
<1> QED BY <1>5, <1>6, <1>7

-----------------------------------------------------------------------------
(* The keys of the pools. *)

\* The inductive invariant: each pool has the key of some period of its own tree.
KeysInv ==
    /\ DOMAIN kes = Pools
    /\ \A l \in Pools : KeyOK(kes[l], MasterSeed[l], KesDepth)

\* They start at the first period.
LEMMA InitKeys == Init => KeysInv
<1> SUFFICES ASSUME Init PROVE KeysInv
  OBVIOUS
<1>1. kes = [l \in Pools |-> keygen(KesDepth, MasterSeed[l]).secret]
  BY DEF Init
<1>2. ASSUME NEW l \in Pools PROVE KeyOK(kes[l], MasterSeed[l], KesDepth)
  <2>1. KesDepth \in 0 .. WordSize /\ MasterSeed[l] \in Seeds
    BY ConsensusConstants
  <2>2. KeyOK(keygen(KesDepth, MasterSeed[l]).secret, MasterSeed[l], KesDepth)
    BY <2>1, NewKeyOK
  <2> QED BY <1>1, <2>2
<1> QED BY <1>1, <1>2 DEF KeysInv

\* Only Evolve changes one.
LEMMA KeysStep == KeysInv /\ [Next]_vars => KeysInv'
<1> SUFFICES ASSUME KeysInv, [Next]_vars PROVE KeysInv'
  OBVIOUS
<1>1. ASSUME UNCHANGED kes PROVE KeysInv'
  BY <1>1 DEF KeysInv
<1>2. ASSUME NEW l \in Pools, Evolve(l) PROVE KeysInv'
  <2>1. PICK key \in update(kes[l]) : kes' = [kes EXCEPT ![l] = key]
    BY <1>2 DEF Evolve
  <2>2. KesDepth \in 0 .. WordSize /\ MasterSeed[l] \in Seeds
    BY ConsensusConstants
  <2>3. KeyOK(kes[l], MasterSeed[l], KesDepth) /\ DOMAIN kes = Pools
    BY DEF KeysInv
  <2>4. KeyOK(key, MasterSeed[l], KesDepth)
    BY <2>1, <2>2, <2>3, KeyEvolves
  <2>5. DOMAIN kes' = Pools /\ \A m \in Pools : kes'[m] = IF m = l THEN key ELSE kes[m]
    BY <2>1, <2>3
  <2>6. ASSUME NEW m \in Pools PROVE KeyOK(kes'[m], MasterSeed[m], KesDepth)
    <3>1. CASE m = l
      BY <2>4, <2>5, <3>1
    <3>2. CASE m # l
      <4>1. kes'[m] = kes[m]
        BY <2>5, <3>2
      <4> QED BY <4>1 DEF KeysInv
    <3> QED BY <3>1, <3>2
  <2> QED BY <2>5, <2>6 DEF KeysInv
<1>3. CASE \E l \in Pools : Evolve(l)
  BY <1>2, <1>3
<1>4. CASE ~(\E l \in Pools : Evolve(l))
  BY <1>1, <1>4 DEF Next, vars, Tick, Forge, Receive, Restart
<1> QED BY <1>3, <1>4

\* An evolved key signs for its period and all later ones, holds nothing an earlier
\* one could be made from, belongs to the public key of its pool, survives being
\* written out and read, and its update meets its assertion (update in sum.rs), for
\* every depth of the tree up to the bits of a period.
THEOREM KeysKeepTheFuture == Spec => []KeyCoversTheFuture
<1>1. KeysInv => KeyCoversTheFuture
  <2> SUFFICES ASSUME KeysInv, NEW l \in Pools
               PROVE  /\ \A t \in 0 .. total(KesDepth) - 1 :
                            Derivable(kes[l], LeafOf(KesDepth, MasterSeed[l], t)) <=> t >= kes[l].t
                      /\ compute_public(kes[l]) = PoolKeys(l).kes
                      /\ UpdateAssertion(kes[l]) /\ from_bytes_accepts(kes[l])
                      /\ is_updatable(kes[l]) <=> update(kes[l]) # {}
    BY DEF KeyCoversTheFuture
  <2>1. KesDepth \in 0 .. WordSize /\ MasterSeed[l] \in Seeds
    BY ConsensusConstants
  <2>2. KeyOK(kes[l], MasterSeed[l], KesDepth)
    BY DEF KeysInv
  <2>3. \A t \in 0 .. total(KesDepth) - 1 :
            Derivable(kes[l], LeafOf(KesDepth, MasterSeed[l], t)) <=> t >= kes[l].t
    BY <2>1, <2>2, WhatKeysMake DEF total
  <2>4. compute_public(kes[l]) = PoolKeys(l).kes
    BY <2>1, <2>2, SamePublicKey DEF PoolKeys
  <2> QED BY <2>1, <2>2, <2>3, <2>4, AssertionHolds, KeysAreRead
<1>2. Spec => []KeysInv
  BY InitKeys, KeysStep, PTL DEF Spec
<1> QED BY <1>1, <1>2, PTL

-----------------------------------------------------------------------------
(* The clock and its dates. *)

\* A time is as far into its slot as the offset says, and the next slot is the
\* one a slot's duration later.
LEMMA TimeOfSlot ==
    ASSUME NEW time \in Int, NEW at \in slot_at_precise(Frame, time)
    PROVE  /\ at.slot \in Nat /\ slot_at(Frame, time) = {at.slot}
           /\ at.offset \in 0 .. Frame.slot_duration - 1
           /\ slot_to_systemtime(Frame, at.slot) = {time - at.offset}
           /\ slot_at(Frame, time + Frame.slot_duration) = {at.slot + 1}
<1>1. PICK T \in Nat, O \in Nat, D \in Nat :
        T = Frame.timeline /\ O = Frame.slot_offset /\ D = Frame.slot_duration /\ D > 0
  BY ConsensusConstants, ChainIsRead
<1>2. time >= T
  BY <1>1 DEF slot_at_precise, slot_at
<1>3. PICK x \in Nat : x = time - T
  BY <1>2
<1>D. D > 0
  BY <1>1
<1>4. PICK q \in Nat, r \in Nat : q = x \div D /\ r < D /\ x = D * q + r
  <2>1. x \div D \in Nat /\ x % D \in Nat /\ x % D < D /\ x = D * (x \div D) + (x % D)
    BY <1>D, Quotient
  <2> QED BY <2>1
<1>5. slot_at(Frame, time) = {O + q}
  BY <1>1, <1>2, <1>3, <1>4 DEF slot_at
<1>6. at = [slot |-> O + q, offset |-> (time - T) - ((O + q) - O) * D]
  BY <1>1, <1>5 DEF slot_at_precise
<1>7. q * D = D * q
  OBVIOUS
<1>8. (O + q) - O = q /\ O + q \in Nat /\ ~(O + q < O)
  OBVIOUS
<1>9. at.slot = O + q /\ at.offset = (time - T) - q * D
  BY <1>6, <1>8
<1>10. at.offset = r
  <2>1. D * q \in Nat
    BY <1>1
  <2> QED BY <1>3, <1>4, <1>7, <1>9, <2>1
<1>11. slot_to_systemtime(Frame, at.slot) = {time - at.offset}
  <2>1. slot_to_systemtime(Frame, at.slot) = {T + q * D}
    BY <1>1, <1>8, <1>9 DEF slot_to_systemtime
  <2>2. T + q * D = time - r
    <3>1. D * q \in Nat
      BY <1>1
    <3> QED BY <1>3, <1>4, <1>7, <3>1
  <2> QED BY <1>10, <2>1, <2>2
<1>12. slot_at(Frame, time + Frame.slot_duration) = {at.slot + 1}
  <2>1. ~(time + D < T) /\ (time + D) - T = x + D
    BY <1>1, <1>2, <1>3
  <2>2. (x + D) \div D = q + 1
    <3>1. x + D \in Nat /\ q + 1 \in Nat
      BY <1>1
    <3>2. D * (q + 1) = D * q + D
      OBVIOUS
    <3>3. x + D = D * (q + 1) + r
      <4>1. D * q \in Nat
        BY <1>1
      <4> QED BY <1>4, <3>2, <4>1
    <3>4. r < D
      BY <1>4
    <3> QED BY <1>D, <3>1, <3>3, <3>4, QuotientUnique
  <2>3. slot_at(Frame, time + D) = {O + (q + 1)}
    BY <1>1, <2>1, <2>2 DEF slot_at
  <2>4. O + (q + 1) = at.slot + 1
    BY <1>9
  <2> QED BY <1>1, <2>3, <2>4
<1>13. at.offset \in 0 .. Frame.slot_duration - 1
  <2>1. r \in 0 .. D - 1
    BY <1>D, <1>4
  <2> QED BY <1>1, <1>10, <2>1
<1> QED BY <1>5, <1>8, <1>9, <1>11, <1>12, <1>13

\* The date of a slot leads back to it, and the next slot has the next date.
LEMMA DateOfSlot ==
    ASSUME NEW s \in Nat, NEW date \in from_slot_to_era(Era, s)
    PROVE  /\ from_era_to_slot(Era, date) = {s}
           /\ from_slot_to_era(Era, s + 1) = {NextDate(Era, date)}
<1>1. PICK S \in Nat, E \in Nat : S = Era.slot_start /\ E = Era.slots_per_epoch /\ E > 0
  BY ConsensusConstants, ChainIsRead
<1>2. Era.epoch_start = 0
  BY ChainIsRead
<1>3. s >= S
  BY <1>1 DEF from_slot_to_era
<1>4. PICK o \in Nat : o = s - S
  BY <1>3
<1>E. E > 0
  BY <1>1
<1>5. PICK p \in Nat, c \in Nat : p = o \div E /\ c = o % E /\ c < E /\ o = E * p + c
  <2>1. o \div E \in Nat /\ o % E \in Nat /\ o % E < E /\ o = E * (o \div E) + (o % E)
    BY <1>E, Quotient
  <2> QED BY <2>1
<1>c. c < E /\ o = E * p + c
  BY <1>5
<1>6. p * E = E * p /\ E * p \in Nat
  OBVIOUS
<1>7. date = [epoch |-> 0 + p, slot_id |-> c]
  BY <1>1, <1>2, <1>3, <1>4, <1>5 DEF from_slot_to_era
<1>8. date.epoch = p /\ date.slot_id = c /\ date = [epoch |-> p, slot_id |-> c]
  BY <1>7
<1>9. from_era_to_slot(Era, date) = {s}
  <2>1. ~(p < 0 \/ c >= E)
    BY <1>c
  <2>2. from_era_to_slot(Era, date) = {S + p * E + c}
    BY <1>1, <1>2, <1>8, <2>1 DEF from_era_to_slot
  <2>3. S + p * E + c = s
    BY <1>3, <1>4, <1>5, <1>6
  <2> QED BY <2>2, <2>3
<1>10. ~(s + 1 < S) /\ (s + 1) - S = o + 1 /\ o + 1 \in Nat
  BY <1>3, <1>4
<1>11. from_slot_to_era(Era, s + 1)
        = {[epoch |-> 0 + (o + 1) \div E, slot_id |-> (o + 1) % E]}
  BY <1>1, <1>2, <1>10 DEF from_slot_to_era
<1>12. CASE c + 1 = E
  <2>1. E * (p + 1) = E * p + E /\ p + 1 \in Nat /\ 0 \in Nat /\ 0 < E
    BY <1>E
  <2>2. o + 1 = E * (p + 1) + 0
    BY <1>c, <1>6, <1>12, <2>1
  <2>3. (o + 1) \div E = p + 1 /\ (o + 1) % E = 0
    BY <1>E, <1>10, <2>1, <2>2, QuotientUnique
  <2>4. NextDate(Era, date) = [epoch |-> p + 1, slot_id |-> 0]
    BY <1>1, <1>8, <1>12 DEF NextDate
  <2> QED BY <1>9, <1>11, <2>3, <2>4
<1>13. CASE c + 1 # E
  <2>1. c + 1 \in Nat /\ c + 1 < E
    BY <1>c, <1>13
  <2>2. o + 1 = E * p + (c + 1)
    BY <1>c, <1>6
  <2>3. (o + 1) \div E = p /\ (o + 1) % E = c + 1
    BY <1>E, <1>10, <2>1, <2>2, QuotientUnique
  <2>4. NextDate(Era, date) = [epoch |-> p, slot_id |-> c + 1]
    BY <1>1, <1>8, <1>13 DEF NextDate
  <2> QED BY <1>9, <1>11, <2>3, <2>4
<1> QED BY <1>12, <1>13

\* So the dates follow the clock at any time.
LEMMA ClockIsFollowed == now \in Int => DatesFollowTheClock
<1> SUFFICES ASSUME now \in Int, NEW time \in now .. now + ClockStep - 1,
                    NEW at \in slot_at_precise(Frame, time)
             PROVE  /\ at.offset \in 0 .. Frame.slot_duration - 1
                    /\ slot_to_systemtime(Frame, at.slot) = {time - at.offset}
                    /\ \A date \in DateAt(time) :
                        /\ from_era_to_slot(Era, date) = {at.slot}
                        /\ DateAt(time + Frame.slot_duration) = {NextDate(Era, date)}
  BY DEF DatesFollowTheClock
<1>1. time \in Int
  BY ConsensusConstants
<1>2. PICK s \in Nat : s = at.slot
  BY <1>1, TimeOfSlot
<1>3. /\ slot_at(Frame, time) = {s} /\ at.offset \in 0 .. Frame.slot_duration - 1
      /\ slot_to_systemtime(Frame, s) = {time - at.offset}
      /\ slot_at(Frame, time + Frame.slot_duration) = {s + 1}
  BY <1>1, <1>2, TimeOfSlot
<1>4. DateAt(time) = from_slot_to_era(Era, s)
  BY <1>3 DEF DateAt
<1>5. DateAt(time + Frame.slot_duration) = from_slot_to_era(Era, s + 1)
  BY <1>3 DEF DateAt
<1>6. ASSUME NEW date \in DateAt(time)
      PROVE  /\ from_era_to_slot(Era, date) = {s}
             /\ DateAt(time + Frame.slot_duration) = {NextDate(Era, date)}
  BY <1>4, <1>5, DateOfSlot
<1> QED BY <1>2, <1>3, <1>6

-----------------------------------------------------------------------------
(* A block fits the ledger it was made for. *)

\* The leadership that the ledger l gives accepts the header, and l takes the block.
Fits(l, b) ==
    /\ \E leadership \in LeadershipNew(b.header.epoch, l) : VerifyHeader(leadership, b.header)
    /\ apply_block(l, b) # {}

\* The fields of a header that is signed.
HasFields(h, version, contents, parent, height, date) ==
    /\ h.version = version /\ h.epoch = date.epoch /\ h.slot_id = date.slot_id
    /\ h.height = height /\ h.content_hash = contents /\ h.parent = parent

\* What HeaderBftBuilder makes.
LEMMA BuiltBft ==
    ASSUME NEW version, NEW contents, NEW parent, NEW height, NEW date, NEW common,
           common = HeaderCommon(version, contents, parent, height, date), NEW l,
           NEW h, h = sign_bft(common, l)
    PROVE  /\ HasFields(h, version, contents, parent, height, date)
           /\ h.leader = l /\ h.sig = ed25519_sign(l, as_auth_slice(h))
<1>1. common = [version |-> version, epoch |-> date.epoch, slot_id |-> date.slot_id,
                height |-> height, content_hash |-> contents, parent |-> parent,
                leader |-> None, vrf |-> None, sig |-> None]
  BY DEF HeaderCommon
<1>2. PICK auth : auth = [common EXCEPT !.leader = l]
  OBVIOUS
<1>3. auth = [version |-> version, epoch |-> date.epoch, slot_id |-> date.slot_id,
              height |-> height, content_hash |-> contents, parent |-> parent,
              leader |-> l, vrf |-> None, sig |-> None]
  BY <1>1, <1>2
<1>4. PICK sig : sig = ed25519_sign(l, as_auth_slice(auth))
  OBVIOUS
<1>5. h = [auth EXCEPT !.sig = sig]
  BY <1>2, <1>4 DEF sign_bft
<1>6. h = [version |-> version, epoch |-> date.epoch, slot_id |-> date.slot_id,
           height |-> height, content_hash |-> contents, parent |-> parent,
           leader |-> l, vrf |-> None, sig |-> sig]
  BY <1>3, <1>5
<1>7. as_auth_slice(h) = as_auth_slice(auth)
  BY <1>3, <1>6 DEF as_auth_slice
<1>8. HasFields(h, version, contents, parent, height, date) /\ h.leader = l /\ h.sig = sig
  BY <1>6 DEF HasFields
<1> QED BY <1>4, <1>7, <1>8

\* What HeaderGenesisPraosBuilder makes.
LEMMA BuiltPraos ==
    ASSUME NEW version, NEW contents, NEW parent, NEW height, NEW date, NEW common,
           common = HeaderCommon(version, contents, parent, height, date), NEW l,
           NEW proof, NEW key, NEW h, h = sign_praos(common, l, proof, key)
    PROVE  /\ HasFields(h, version, contents, parent, height, date)
           /\ h.leader = l /\ h.vrf = proof /\ h.sig = sign(key, as_auth_slice(h))
<1>1. common = [version |-> version, epoch |-> date.epoch, slot_id |-> date.slot_id,
                height |-> height, content_hash |-> contents, parent |-> parent,
                leader |-> None, vrf |-> None, sig |-> None]
  BY DEF HeaderCommon
<1>2. PICK led : led = [common EXCEPT !.leader = l]
  OBVIOUS
<1>3. led = [version |-> version, epoch |-> date.epoch, slot_id |-> date.slot_id,
             height |-> height, content_hash |-> contents, parent |-> parent,
             leader |-> l, vrf |-> None, sig |-> None]
  BY <1>1, <1>2
<1>4. PICK auth : auth = [common EXCEPT !.leader = l, !.vrf = proof]
  OBVIOUS
<1>5. auth = [led EXCEPT !.vrf = proof]
  BY <1>2, <1>4
<1>6. auth = [version |-> version, epoch |-> date.epoch, slot_id |-> date.slot_id,
              height |-> height, content_hash |-> contents, parent |-> parent,
              leader |-> l, vrf |-> proof, sig |-> None]
  BY <1>3, <1>5
<1>7. PICK sig : sig = sign(key, as_auth_slice(auth))
  OBVIOUS
<1>8. h = [auth EXCEPT !.sig = sig]
  BY <1>4, <1>7 DEF sign_praos
<1>9. h = [version |-> version, epoch |-> date.epoch, slot_id |-> date.slot_id,
           height |-> height, content_hash |-> contents, parent |-> parent,
           leader |-> l, vrf |-> proof, sig |-> sig]
  BY <1>6, <1>8
<1>10. as_auth_slice(h) = as_auth_slice(auth)
  BY <1>6, <1>9 DEF as_auth_slice
<1>11. HasFields(h, version, contents, parent, height, date) /\ h.leader = l
       /\ h.vrf = proof /\ h.sig = sig
  BY <1>9 DEF HasFields
<1> QED BY <1>7, <1>10, <1>11

\* The header of a leader verifies with the leadership of the ledger, for a key
\* of any period.
LEMMA ForgedVerifies ==
    ASSUME KeysInv, NEW led, IsLed(led), NEW l, NEW date, NEW contents, NEW parent, NEW height,
           NEW leadership \in LeadershipNew(date.epoch, led),
           NEW h \in ForgeHeader(leadership, l, date,
                        HeaderCommon(leadership.consensus, contents, parent, height, date))
    PROVE  /\ HasFields(h, leadership.consensus, contents, parent, height, date)
           /\ VerifyHeader(leadership, h)
<1>1. PICK common :
        common = HeaderCommon(leadership.consensus, contents, parent, height, date)
  OBVIOUS
<1>2. CASE led.consensus = "bft"
  <2>1. leadership.consensus = "bft"
    BY <1>2 DEF LeadershipNew
  <2>2. get_leader_at(leadership, date) = l /\ h = sign_bft(common, l)
    BY <1>1, <2>1 DEF ForgeHeader
  <2>3. /\ HasFields(h, leadership.consensus, contents, parent, height, date)
        /\ h.leader = l /\ h.sig = ed25519_sign(l, as_auth_slice(h))
    BY <1>1, <2>2, BuiltBft
  <2>4. get_leader_at(leadership, block_date(h)) = l
    <3>1. block_date(h).slot_id = date.slot_id
      BY <2>3 DEF HasFields, block_date
    <3> QED BY <2>2, <3>1 DEF get_leader_at
  <2>5. verify_bft(leadership, h)
    BY <2>3, <2>4 DEF verify_bft
  <2>6. verify_version(leadership, h.version)
    BY <2>1, <2>3 DEF verify_version, HasFields
  <2> QED BY <2>1, <2>3, <2>5, <2>6 DEF VerifyHeader
<1>3. CASE led.consensus # "bft"
  <2>1. leadership = [epoch |-> date.epoch, era |-> led.era, consensus |-> "praos",
                      nonce |-> led.nonce, pools |-> led.pools, stake |-> led.stake]
    BY <1>3 DEF LeadershipNew
  <2>2. leadership.consensus = "praos" /\ leadership.epoch = date.epoch /\ leadership.pools = led.pools
    BY <2>1
  <2>3. PICK proof : proof = praos_leader(leadership, l, PoolKeys(l).vrf, date)
    OBVIOUS
  <2>4. proof # None /\ h = sign_praos(common, l, proof, kes[l])
    BY <1>1, <2>2, <2>3 DEF ForgeHeader
  <2>5. /\ l \in DOMAIN leadership.pools
        /\ above_stake_threshold(leadership, l, PoolKeys(l).vrf, date.slot_id)
        /\ proof = vrf_evaluate(PoolKeys(l).vrf, VrfInput(leadership, date.slot_id))
    BY <2>3, <2>4 DEF praos_leader
  <2>6. l \in Pools /\ leadership.pools[l] = PoolKeys(l)
    BY <2>2, <2>5 DEF IsLed
  <2>7. /\ HasFields(h, leadership.consensus, contents, parent, height, date)
        /\ h.leader = l /\ h.vrf = proof /\ h.sig = sign(kes[l], as_auth_slice(h))
    <3>1. PICK key : key = kes[l]
      OBVIOUS
    <3>2. h = sign_praos(common, l, proof, key)
      BY <2>4, <3>1
    <3>3. /\ HasFields(h, leadership.consensus, contents, parent, height, date)
          /\ h.leader = l /\ h.vrf = proof /\ h.sig = sign(key, as_auth_slice(h))
      BY <1>1, <3>2, BuiltPraos
    <3> QED BY <3>1, <3>3
  <2>8. verify(PoolKeys(l).kes, as_auth_slice(h), h.sig)
    <3>1. KesDepth \in 0 .. WordSize /\ MasterSeed[l] \in Seeds
      BY <2>6, ConsensusConstants
    <3>2. KeyOK(kes[l], MasterSeed[l], KesDepth)
      BY <2>6 DEF KeysInv
    <3>3. verify(keygen(KesDepth, MasterSeed[l]).public, as_auth_slice(h),
                 sign(kes[l], as_auth_slice(h)))
      BY <3>1, <3>2, SignedVerifies
    <3>4. PoolKeys(l).kes = keygen(KesDepth, MasterSeed[l]).public
      BY DEF PoolKeys
    <3> QED BY <2>7, <3>3, <3>4
  <2>9. h.epoch = leadership.epoch /\ h.slot_id = date.slot_id
    BY <2>2, <2>7 DEF HasFields
  <2>10. verify_praos(leadership, h)
    BY <2>5, <2>6, <2>7, <2>8, <2>9 DEF verify_praos
  <2>11. verify_version(leadership, h.version)
    BY <2>2, <2>7 DEF verify_version, HasFields
  <2> QED BY <2>2, <2>7, <2>10, <2>11 DEF VerifyHeader
<1> QED BY <1>2, <1>3

\* The block of a leader fits the ledger of its node.
LEMMA ForgedFits ==
    ASSUME KeysInv, NEW n, IsLed(ledger[n]), NEW l, NEW contents, contents \in Seq(ToSet(contents)),
           Forge(n, l, contents)
    PROVE  \E b : /\ sent' = sent \cup {b} /\ b.header.parent = tip[n]
                  /\ b.rebuilt = (n \in restarted) /\ Fits(ledger[n], b)
<1>1. PICK date, leadership, h :
        /\ leadership \in LeadershipNew(date.epoch, ledger[n])
        /\ Precedes(ledger[n].date, date)
        /\ h \in ForgeHeader(leadership, l, date,
                        HeaderCommon(leadership.consensus, contents, tip[n],
                                     ledger[n].chain_length + 1, date))
        /\ sent' = sent \cup {[header |-> h, contents |-> contents, rebuilt |-> n \in restarted]}
  BY DEF Forge
<1>2. /\ HasFields(h, leadership.consensus, contents, tip[n], ledger[n].chain_length + 1, date)
      /\ VerifyHeader(leadership, h)
  BY <1>1, ForgedVerifies
<1>3. PICK b : b = [header |-> h, contents |-> contents, rebuilt |-> n \in restarted]
  OBVIOUS
<1>4. b.header = h /\ b.contents = contents /\ b.rebuilt = (n \in restarted)
  BY <1>3
<1>5. /\ h.epoch = date.epoch /\ h.slot_id = date.slot_id /\ h.parent = tip[n]
      /\ h.height = ledger[n].chain_length + 1 /\ h.content_hash = contents
  BY <1>2 DEF HasFields
<1>6. \E x \in LeadershipNew(b.header.epoch, ledger[n]) : VerifyHeader(x, b.header)
  BY <1>1, <1>2, <1>4, <1>5
<1>7. ~(Len(contents) > BlockContentMaxSize)
  <2>1. Len(contents) \in Nat /\ BlockContentMaxSize \in Nat /\ Len(contents) <= BlockContentMaxSize
    BY ConsensusConstants DEF Forge
  <2> QED BY <2>1
<1>8. begin_block(ledger[n], h.height, block_date(h)) # {}
  <2>1. Precedes(ledger[n].date, block_date(h))
    BY <1>1, <1>5 DEF Precedes, block_date
  <2> QED BY <1>5, <2>1 DEF begin_block
<1>9. apply_block(ledger[n], b) # {}
  BY <1>4, <1>5, <1>7, <1>8 DEF apply_block, ContentsMatch
<1> QED BY <1>1, <1>3, <1>4, <1>5, <1>6, <1>9 DEF Fits

-----------------------------------------------------------------------------
(* And so every node on the block it was made for takes it. *)

\* Each block made for a ledger that was not rebuilt fits the one of its parent.
BlocksFit(H) ==
    \A b \in sent : ~b.rebuilt =>
        b.header.parent \in DOMAIN H /\ Fits(H[b.header.parent], b)

\* The inductive invariant: some history of the chain has a ledger that every block
\* fits, and that the nodes on its parent have.
HeardInv ==
    /\ ChainInv /\ KeysInv
    /\ \E H : IsHistory(H) /\ Follows(H) /\ BlocksFit(H)

\* No block is made yet.
LEMMA InitHeard == Init => HeardInv
<1> SUFFICES ASSUME Init PROVE HeardInv
  OBVIOUS
<1>1. PICK H : IsHistory(H) /\ Follows(H)
  BY InitHistory DEF HistoryInv
<1>2. BlocksFit(H)
  BY DEF Init, BlocksFit
<1> QED BY <1>1, <1>2, InitChain, InitKeys DEF HeardInv

\* A block that is made fits the ledger of its parent, and a history keeps the
\* ledgers it has.
LEMMA HeardStep == HeardInv /\ [Next]_vars => HeardInv'
<1> SUFFICES ASSUME HeardInv, [Next]_vars PROVE HeardInv'
  OBVIOUS
<1>1. ChainInv /\ KeysInv /\ DOMAIN tip = Nodes /\ DOMAIN ledger = Nodes
  BY DEF HeardInv, ChainInv
<1>2. ChainInv' /\ KeysInv'
  BY <1>1, ChainStep, KeysStep
<1>3. PICK H : IsHistory(H) /\ Follows(H) /\ BlocksFit(H)
  BY DEF HeardInv
<1>4. PICK G : IsHistory(G) /\ Follows(G)' /\ Extends(G, H)
  BY <1>1, <1>3, HistoryExtends
<1>5. ASSUME NEW b \in sent', ~b.rebuilt
      PROVE  b.header.parent \in DOMAIN G /\ Fits(G[b.header.parent], b)
  <2>1. CASE b \in sent
    <3>1. b.header.parent \in DOMAIN H /\ Fits(H[b.header.parent], b)
      BY <1>3, <1>5, <2>1 DEF BlocksFit
    <3>2. b.header.parent \in DOMAIN G /\ G[b.header.parent] = H[b.header.parent]
      BY <1>4, <3>1 DEF Extends
    <3> QED BY <3>1, <3>2
  <2>2. CASE b \notin sent
    <3>1. PICK n \in Nodes, l \in Leaders, contents \in Changes : Forge(n, l, contents)
      BY <2>2 DEF Next, vars, Tick, Evolve, Receive, Restart
    <3>2. IsLed(ledger[n]) /\ contents \in Seq(ToSet(contents))
      BY <1>1, ChainIsRead DEF ChainInv
    <3>3. PICK x : /\ sent' = sent \cup {x} /\ x.header.parent = tip[n]
                   /\ x.rebuilt = (n \in restarted) /\ Fits(ledger[n], x)
      BY <1>1, <3>1, <3>2, ForgedFits
    <3>4. b = x
      BY <2>2, <3>3
    <3>5. n \notin restarted
      BY <1>5, <3>3, <3>4
    <3>6. tip[n] \in DOMAIN H /\ ledger[n] = H[tip[n]]
      BY <1>3, <3>5 DEF Follows
    <3>7. tip[n] \in DOMAIN G /\ ledger[n] = G[tip[n]]
      BY <1>4, <3>6 DEF Extends
    <3> QED BY <3>3, <3>4, <3>7
  <2> QED BY <2>1, <2>2
<1>6. BlocksFit(G)'
  BY <1>5 DEF BlocksFit
<1> QED BY <1>2, <1>4, <1>6 DEF HeardInv

\* A leader that follows the clock is heard: every time is in the slot, and the slot
\* at the date, that the clock goes on to, and a block made for the ledger behind it
\* is taken by every node on the same block, whenever it arrives and however the key
\* that signed it has evolved since (Leadership::verify, Ledger::apply_block).
THEOREM LeadersHeard == Spec => []LeadersAreHeard
<1>1. HeardInv => LeadersAreHeard
  <2> SUFFICES ASSUME HeardInv PROVE LeadersAreHeard
    OBVIOUS
  <2>1. DatesFollowTheClock
    BY ClockIsFollowed DEF HeardInv, ChainInv
  <2>2. PICK H : Follows(H) /\ BlocksFit(H)
    BY DEF HeardInv
  <2>3. ASSUME NEW n \in Nodes \ restarted, NEW b \in sent, ~b.rebuilt, b.header.parent = tip[n]
        PROVE  Fits(ledger[n], b)
    BY <2>2, <2>3 DEF Follows, BlocksFit
  <2>4. LeadersBlocksAreTaken
    BY <2>3 DEF LeadersBlocksAreTaken, Fits
  <2> QED BY <2>1, <2>4 DEF LeadersAreHeard
<1>2. Spec => []HeardInv
  BY InitHeard, HeardStep, PTL DEF Spec
<1> QED BY <1>1, <1>2, PTL
=============================================================================
