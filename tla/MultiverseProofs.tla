-------------------------- MODULE MultiverseProofs --------------------------
(***************************************************************************)
(* Theorems about the multiverse, for any tree of blocks, any finite       *)
(* number of handles and any depths gc is called with: the states users    *)
(* rely on stay in memory or can be computed again, gc leaves recent       *)
(* states alone, and few of the others.                                    *)
(***************************************************************************)
EXTENDS Multiverse, FiniteSetTheorems, TLAPS

\* The loop of gc, over the chain lengths.
GcTurn(acc, l, env) == gc_at(acc, l, env)

Gc == INSTANCE FoldTheorems WITH Op <- GcTurn

-----------------------------------------------------------------------------
(* Ancestors. *)

\* Whatever holds of b and with every block of its parent holds of the ancestors.
LEMMA AncestryLeast ==
    ASSUME NEW b \in Blocks, NEW S \in SUBSET Blocks, b \in S, Closed(S)
    PROVE  Ancestry[b] \subseteq S
BY DEF Ancestry

\* A block is an ancestor of itself.
LEMMA AncestryHasBlock ==
    ASSUME NEW b \in Blocks
    PROVE  b \in Ancestry[b] /\ Ancestry[b] \subseteq Blocks
BY DEF Ancestry

\* Every chain ends at block0.
LEMMA AncestryHasGenesis ==
    ASSUME NEW b \in Blocks
    PROVE  Genesis \in Ancestry[b]
<1> SUFFICES ASSUME NEW S \in SUBSET Blocks, b \in S, Closed(S) PROVE Genesis \in S
  BY MultiverseConstants DEF Ancestry
<1> DEFINE lengths == {n \in Nat : \E c \in S : ChainLength[c] = n}
<1>1. \A c \in S : ChainLength[c] \in Nat
  BY HeadersVerified
<1>2. lengths # {} /\ lengths \subseteq Nat
  BY <1>1
<1>3. PICK n \in lengths : \A m \in lengths : n <= m
  BY <1>2, Gc!LeastNatural
<1>4. PICK c \in S : ChainLength[c] = n
  BY <1>3
<1>5. SUFFICES ASSUME c # Genesis PROVE FALSE
  BY <1>4
<1>6. Parent[c] \in S
  BY <1>4, <1>5 DEF Closed
<1>7. n = ChainLength[Parent[c]] + 1 /\ ChainLength[Parent[c]] \in Nat
  BY <1>1, <1>4, <1>5, <1>6, HeadersVerified
<1>8. ChainLength[Parent[c]] \in lengths
  BY <1>6, <1>7
<1>9. n <= ChainLength[Parent[c]]
  BY <1>3, <1>8
<1> QED BY <1>7, <1>9

\* Other ancestors have shorter chains.
LEMMA AncestorsShorter ==
    ASSUME NEW b \in Blocks, NEW a \in Ancestry[b]
    PROVE  a = b \/ ChainLength[a] < ChainLength[b]
<1> DEFINE S == {c \in Blocks : c = b \/ ChainLength[c] < ChainLength[b]}
<1>1. S \in SUBSET Blocks /\ b \in S
  OBVIOUS
<1>2. Closed(S)
  <2> SUFFICES ASSUME NEW c \in S, c # Genesis PROVE Parent[c] \in S
    BY DEF Closed
  <2>1. c \in Blocks /\ Parent[c] \in Blocks /\ ChainLength[c] = ChainLength[Parent[c]] + 1
    BY HeadersVerified
  <2>2. ChainLength[c] \in Nat /\ ChainLength[Parent[c]] \in Nat /\ ChainLength[b] \in Nat
    BY <2>1, HeadersVerified
  <2>3. ChainLength[Parent[c]] < ChainLength[b]
    BY <2>1, <2>2
  <2> QED BY <2>1, <2>3
<1> HIDE DEF S
<1>3. a \in S
  BY <1>1, <1>2, AncestryLeast
<1> QED BY <1>3 DEF S

-----------------------------------------------------------------------------
(* The two maps. *)

IndexOK(by_hash, by_length) ==
    /\ DOMAIN by_hash \subseteq Blocks
    /\ \A l \in DOMAIN by_length :
        /\ l \in Nat /\ by_length[l] # {}
        /\ \A b \in by_length[l] : b \in DOMAIN by_hash /\ ChainLength[b] = l
    /\ \A b \in DOMAIN by_hash :
        ChainLength[b] \in DOMAIN by_length /\ b \in by_length[ChainLength[b]]

\* The lengths have a bound.
Bounded(by_length) == \E n \in Nat : \A l \in DOMAIN by_length : l <= n

\* The inductive invariant.
MultiverseInv ==
    /\ panicked = FALSE
    /\ Genesis \in store /\ store \subseteq Blocks
    /\ refs \in [Handles -> Blocks \cup {NoRef}]
    /\ IndexOK(states_by_hash, states_by_chain_length)
    /\ Bounded(states_by_chain_length)
    /\ Genesis \in DOMAIN states_by_hash /\ states_by_hash[Genesis] = "retained"
    /\ \A h \in Handles : refs[h] # NoRef => refs[h] \in DOMAIN states_by_hash

\* A Ref counts, so the state it names is not collected.
LEMMA PinnedIsCounted ==
    ASSUME NEW h \in Handles, NEW b, refs[h] = b
    PROVE  strong_count(b) > 0 /\ ~collect(b)
<1> DEFINE S == {g \in Handles : refs[g] = b}
<1>1. IsFiniteSet(S) /\ S # {}
  BY MultiverseConstants, FS_Subset
<1> HIDE DEF S
<1>2. Cardinality(S) \in Nat
  BY <1>1, FS_CardinalityType
<1>3. Cardinality(S) # 0
  BY <1>1, FS_EmptySet
<1> QED BY <1>2, <1>3 DEF strong_count, collect, S

\* The inductive invariant is as strong as the property.
LEMMA InvHolds == MultiverseInv => StatesHeld
<1> SUFFICES ASSUME MultiverseInv PROVE StatesHeld
  OBVIOUS
<1>1. IndexOK(states_by_hash, states_by_chain_length) /\ panicked = FALSE
  BY DEF MultiverseInv
<1>2. ASSUME NEW l \in DOMAIN states_by_chain_length
      PROVE  /\ states_by_chain_length[l] # {}
             /\ \A b \in states_by_chain_length[l] : ChainLength[b] = l
  BY <1>1 DEF IndexOK
<1>3. ASSUME NEW b, b \in UNION Range(states_by_chain_length)
      PROVE  b \in DOMAIN states_by_hash
  <2>1. PICK l \in DOMAIN states_by_chain_length : b \in states_by_chain_length[l]
    BY <1>3 DEF Range
  <2> QED BY <1>1, <2>1 DEF IndexOK
<1>4. ASSUME NEW b \in DOMAIN states_by_hash
      PROVE  b \in UNION Range(states_by_chain_length)
  <2>1. /\ ChainLength[b] \in DOMAIN states_by_chain_length
        /\ b \in states_by_chain_length[ChainLength[b]]
    BY <1>1 DEF IndexOK
  <2>2. states_by_chain_length[ChainLength[b]] \in Range(states_by_chain_length)
    BY <2>1 DEF Range
  <2> QED BY <2>1, <2>2
<1>5. UNION Range(states_by_chain_length) = DOMAIN states_by_hash
  BY <1>3, <1>4
<1>6. IndexExact
  BY <1>1, <1>2, <1>5 DEF IndexExact
<1>7. PinnedIsFound
  BY PinnedIsCounted DEF MultiverseInv, PinnedIsFound, Gettable
<1>8. Gettable(Genesis)
  BY DEF MultiverseInv, Gettable
<1>9. Reconstructable
  BY <1>8, AncestryHasGenesis DEF MultiverseInv, Reconstructable
<1> QED BY <1>6, <1>7, <1>9 DEF StatesHeld

-----------------------------------------------------------------------------
(* The users' steps. *)

\* It holds of the multiverse with block0 alone.
LEMMA InvInit == Init => MultiverseInv
<1> SUFFICES ASSUME Init PROVE MultiverseInv
  OBVIOUS
<1>1. IndexOK(states_by_hash, states_by_chain_length)
  BY MultiverseConstants, HeadersVerified DEF Init, IndexOK
<1>2. Bounded(states_by_chain_length)
  BY DEF Init, Bounded
<1> QED BY <1>1, <1>2, MultiverseConstants DEF Init, MultiverseInv

\* A Ref to a state in the map, or none, keeps the handles good.
LEMMA PinHolds ==
    ASSUME MultiverseInv, NEW h \in Handles, NEW b \in Blocks \cup {NoRef}, Pin(h, b),
           DOMAIN states_by_hash \subseteq DOMAIN states_by_hash',
           b # NoRef => b \in DOMAIN states_by_hash'
    PROVE  /\ refs' \in [Handles -> Blocks \cup {NoRef}]
           /\ \A g \in Handles : refs'[g] # NoRef => refs'[g] \in DOMAIN states_by_hash'
<1>1. refs' = [refs EXCEPT ![h] = b] /\ refs \in [Handles -> Blocks \cup {NoRef}]
  BY DEF Pin, MultiverseInv
<1>2. ASSUME NEW g \in Handles, refs'[g] # NoRef PROVE refs'[g] \in DOMAIN states_by_hash'
  <2>1. CASE g = h
    BY <1>1, <1>2, <2>1
  <2>2. CASE g # h
    BY <1>1, <1>2, <2>2 DEF MultiverseInv
  <2> QED BY <2>1, <2>2
<1> QED BY <1>1, <1>2

\* States entered in both maps: add enters one, get_from_storage several.
Entered(by_hash, by_length, new) ==
    /\ by_hash = [c \in DOMAIN states_by_hash \cup new |->
                    IF c \in new THEN "retained" ELSE states_by_hash[c]]
    /\ DOMAIN by_length = DOMAIN states_by_chain_length \cup {ChainLength[c] : c \in new}
    /\ \A l \in DOMAIN by_length : \A c :
        c \in by_length[l] <=> \/ l \in DOMAIN states_by_chain_length /\ c \in states_by_chain_length[l]
                               \/ c \in new /\ ChainLength[c] = l

\* States that are entered leave the two indexes in agreement.
LEMMA EnteredHolds ==
    ASSUME MultiverseInv, NEW by_hash, NEW by_length, NEW new \in SUBSET Blocks, NEW b \in Blocks,
           \A c \in new : ChainLength[c] <= ChainLength[b],
           Entered(by_hash, by_length, new)
    PROVE  /\ IndexOK(by_hash, by_length) /\ Bounded(by_length)
           /\ Genesis \in DOMAIN by_hash /\ by_hash[Genesis] = "retained"
           /\ DOMAIN states_by_hash \subseteq DOMAIN by_hash /\ new \subseteq DOMAIN by_hash
           /\ \A c \in DOMAIN states_by_hash : by_hash[c] \in {states_by_hash[c], "retained"}
<1>1. /\ DOMAIN by_hash = DOMAIN states_by_hash \cup new
      /\ \A c \in DOMAIN by_hash :
            by_hash[c] = IF c \in new THEN "retained" ELSE states_by_hash[c]
  BY DEF Entered
<1>2. IndexOK(states_by_hash, states_by_chain_length)
  BY DEF MultiverseInv
<1>3. ASSUME NEW l \in DOMAIN by_length
      PROVE  /\ l \in Nat /\ by_length[l] # {}
             /\ \A c \in by_length[l] : c \in DOMAIN by_hash /\ ChainLength[c] = l
  <2>1. \A c \in by_length[l] : c \in DOMAIN by_hash /\ ChainLength[c] = l
    BY <1>1, <1>2 DEF Entered, IndexOK
  <2>2. CASE l \in DOMAIN states_by_chain_length
    <3>1. PICK c \in states_by_chain_length[l] : TRUE
      BY <1>2, <2>2 DEF IndexOK
    <3>2. c \in by_length[l]
      BY <2>2, <3>1 DEF Entered
    <3> QED BY <1>2, <2>1, <2>2, <3>2 DEF IndexOK
  <2>3. CASE l \notin DOMAIN states_by_chain_length
    <3>1. PICK c \in new : ChainLength[c] = l
      BY <2>3 DEF Entered
    <3>2. c \in by_length[l]
      BY <3>1 DEF Entered
    <3>3. l \in Nat
      BY <3>1, HeadersVerified
    <3> QED BY <2>1, <3>2, <3>3
  <2> QED BY <2>2, <2>3
<1>4. ASSUME NEW c \in DOMAIN by_hash
      PROVE  ChainLength[c] \in DOMAIN by_length /\ c \in by_length[ChainLength[c]]
  <2>1. CASE c \in new
    BY <2>1 DEF Entered
  <2>2. CASE c \in DOMAIN states_by_hash
    BY <1>2, <2>2 DEF Entered, IndexOK
  <2> QED BY <1>1, <2>1, <2>2
<1>5. DOMAIN by_hash \subseteq Blocks
  BY <1>1, <1>2 DEF IndexOK
<1>6. IndexOK(by_hash, by_length)
  BY <1>3, <1>4, <1>5 DEF IndexOK
<1>7. Bounded(by_length)
  <2>1. PICK n \in Nat : \A l \in DOMAIN states_by_chain_length : l <= n
    BY DEF MultiverseInv, Bounded
  <2>2. PICK k \in Nat : k = ChainLength[b]
    BY HeadersVerified
  <2>3. ASSUME NEW l \in DOMAIN by_length PROVE l <= n + k
    <3>1. l \in Nat
      BY <1>3
    <3>2. l <= n \/ l <= k
      BY <2>1, <2>2 DEF Entered
    <3> QED BY <3>1, <3>2
  <2>4. n + k \in Nat
    OBVIOUS
  <2> QED BY <2>3, <2>4 DEF Bounded
<1>8. Genesis \in DOMAIN by_hash /\ by_hash[Genesis] = "retained"
  BY <1>1 DEF MultiverseInv
<1> QED BY <1>1, <1>6, <1>7, <1>8

\* add keeps the invariant and every state.
LEMMA AddHolds ==
    ASSUME MultiverseInv, NEW h \in Handles, NEW b \in Blocks, add(h, b)
    PROVE  MultiverseInv' /\ \A c \in DOMAIN states_by_hash : Keeps(c)
<1>1. ChainLength[b] \in Nat
  BY HeadersVerified
<1>2. \A c \in {b} : ChainLength[c] <= ChainLength[b]
  BY <1>1
<1>3. Entered(states_by_hash', states_by_chain_length', {b})
  BY DEF add, InsertHash, InsertLength, Entered
<1>4. /\ IndexOK(states_by_hash, states_by_chain_length)' /\ Bounded(states_by_chain_length)'
      /\ Genesis \in DOMAIN states_by_hash' /\ states_by_hash'[Genesis] = "retained"
      /\ DOMAIN states_by_hash \subseteq DOMAIN states_by_hash'
      /\ b \in DOMAIN states_by_hash'
      /\ \A c \in DOMAIN states_by_hash : states_by_hash'[c] \in {states_by_hash[c], "retained"}
  <2>1. {b} \in SUBSET Blocks
    OBVIOUS
  <2> QED BY <1>2, <1>3, <2>1, EnteredHolds DEF IndexOK, Bounded
<1>5. /\ refs' \in [Handles -> Blocks \cup {NoRef}]
      /\ \A g \in Handles : refs'[g] # NoRef => refs'[g] \in DOMAIN states_by_hash'
  BY <1>4, PinHolds DEF add
<1> QED BY <1>4, <1>5 DEF add, MultiverseInv, Keeps

\* get_ref keeps the invariant and every state.
LEMMA GetRefHolds ==
    ASSUME MultiverseInv, NEW h \in Handles, NEW b \in Blocks, get_ref(h, b)
    PROVE  MultiverseInv' /\ \A c \in DOMAIN states_by_hash : Keeps(c)
<1>1. states_by_hash' = states_by_hash /\ b \in DOMAIN states_by_hash /\ Pin(h, b)
  BY DEF get_ref, Gettable
<1>2. /\ refs' \in [Handles -> Blocks \cup {NoRef}]
      /\ \A g \in Handles : refs'[g] # NoRef => refs'[g] \in DOMAIN states_by_hash'
  BY <1>1, PinHolds
<1> QED BY <1>1, <1>2 DEF get_ref, MultiverseInv, IndexOK, Bounded, Keeps

\* Dropping a Ref keeps the invariant and every state.
LEMMA DropHolds ==
    ASSUME MultiverseInv, NEW h \in Handles, drop(h)
    PROVE  MultiverseInv' /\ \A c \in DOMAIN states_by_hash : Keeps(c)
<1>1. states_by_hash' = states_by_hash /\ Pin(h, NoRef)
  BY DEF drop
<1>2. /\ refs' \in [Handles -> Blocks \cup {NoRef}]
      /\ \A g \in Handles : refs'[g] # NoRef => refs'[g] \in DOMAIN states_by_hash'
  BY <1>1, PinHolds
<1> QED BY <1>1, <1>2 DEF drop, MultiverseInv, IndexOK, Bounded, Keeps

\* A search that starts at a state out of memory passes at least that one.
LEMMA SearchPassesBlock ==
    ASSUME NEW b \in Blocks, ~Gettable(b)
    PROVE  b \in Missing(b)
<1>1. b \in Ancestry[b]
  BY AncestryHasBlock
<1>2. ASSUME NEW a \in Ancestry[b], Gettable(a) PROVE ChainLength[a] < ChainLength[b]
  <2>1. a # b
    BY <1>2
  <2> QED BY <2>1, AncestorsShorter
<1> QED BY <1>1, <1>2 DEF Missing

\* get_from_storage keeps the invariant and every state.
LEMMA GetFromStorageHolds ==
    ASSUME MultiverseInv, NEW h \in Handles, NEW b \in Blocks, get_from_storage(h, b)
    PROVE  MultiverseInv' /\ \A c \in DOMAIN states_by_hash : Keeps(c)
<1>1. PICK new \in SUBSET Blocks : new = Missing(b)
  BY AncestryHasBlock DEF Missing
<1>2. b \in new
  BY <1>1, SearchPassesBlock DEF get_from_storage
<1>3. ASSUME NEW c \in new PROVE ChainLength[c] <= ChainLength[b]
  <2>1. c \in Ancestry[b]
    BY <1>1 DEF Missing
  <2>2. c \in Blocks /\ ChainLength[c] \in Nat /\ ChainLength[b] \in Nat
    BY <1>3, HeadersVerified
  <2>3. c = b \/ ChainLength[c] < ChainLength[b]
    BY <2>1, AncestorsShorter
  <2> QED BY <2>2, <2>3
<1>4. Entered(states_by_hash', states_by_chain_length', new)
  BY <1>1 DEF get_from_storage, Entered
<1>5. /\ IndexOK(states_by_hash, states_by_chain_length)' /\ Bounded(states_by_chain_length)'
      /\ Genesis \in DOMAIN states_by_hash' /\ states_by_hash'[Genesis] = "retained"
      /\ DOMAIN states_by_hash \subseteq DOMAIN states_by_hash'
      /\ b \in DOMAIN states_by_hash'
      /\ \A c \in DOMAIN states_by_hash : states_by_hash'[c] \in {states_by_hash[c], "retained"}
  BY <1>2, <1>3, <1>4, EnteredHolds DEF IndexOK, Bounded
<1>6. /\ refs' \in [Handles -> Blocks \cup {NoRef}]
      /\ \A g \in Handles : refs'[g] # NoRef => refs'[g] \in DOMAIN states_by_hash'
  BY <1>5, PinHolds DEF get_from_storage
<1> QED BY <1>5, <1>6 DEF get_from_storage, MultiverseInv, Keeps

-----------------------------------------------------------------------------
(* gc. *)

\* There is a longest chain.
LEMMA LongestExists ==
    ASSUME MultiverseInv
    PROVE  LongestChain \in Nat
<1> DEFINE D == DOMAIN states_by_chain_length
           P(l) == l \in D /\ \A k \in D : k <= l
<1>1. PICK n \in Nat : \A l \in D : l <= n
  BY DEF MultiverseInv, Bounded
<1>2. \A l \in D : l \in Nat
  BY DEF MultiverseInv, IndexOK
<1>3. D # {}
  BY DEF MultiverseInv, IndexOK
<1>4. PICK l \in D : \A k \in D : k <= l
  <2> HIDE DEF D
  <2> QED BY <1>1, <1>2, <1>3, Gc!GreatestNatural
<1>5. P(l)
  BY <1>4
<1>6. LongestChain = CHOOSE m : P(m)
  BY DEF LongestChain
<1>7. P(LongestChain)
  <2> HIDE DEF P
  <2> QED BY <1>5, <1>6
<1> QED BY <1>2, <1>7

\* The maps once the loop has passed the lengths below i.
GcGood(acc, i) ==
    /\ DOMAIN acc = {"to_keep", "by_hash", "by_length", "panicked"}
    /\ acc.panicked = FALSE
    /\ i = 0 => acc.to_keep = 0
    /\ IndexOK(acc.by_hash, acc.by_length)
    /\ DOMAIN acc.by_length \subseteq DOMAIN states_by_chain_length
    /\ DOMAIN acc.by_hash \subseteq DOMAIN states_by_hash
    /\ Genesis \in DOMAIN acc.by_hash /\ acc.by_hash[Genesis] = "retained"
    /\ \A b \in DOMAIN states_by_hash : b \notin DOMAIN acc.by_hash => collect(b)
    /\ \A b \in DOMAIN states_by_hash :
        ChainLength[b] >= i => b \in DOMAIN acc.by_hash /\ acc.by_hash[b] = states_by_hash[b]

\* A round of gc keeps what holds of the rounds before.
LEMMA GcTurnHolds ==
    ASSUME MultiverseInv, NEW l \in Nat, NEW acc, GcGood(acc, l), NEW longest \in Nat
    PROVE  GcGood(GcTurn(acc, l, longest), l + 1)
<1>1. l + 1 # 0 /\ \A k \in Nat : k >= l + 1 => k >= l /\ k # l
  OBVIOUS
<1>2. \A b \in DOMAIN states_by_hash : ChainLength[b] \in Nat
  BY HeadersVerified DEF MultiverseInv, IndexOK
<1>3. CASE l \notin DOMAIN acc.by_length
  <2>1. GcTurn(acc, l, longest) = acc
    BY <1>3 DEF GcTurn, gc_at
  <2> QED BY <1>1, <1>2, <2>1 DEF GcGood
<1>4. CASE l \in DOMAIN acc.by_length /\ l >= acc.to_keep
  <2>1. GcTurn(acc, l, longest) = [acc EXCEPT !.to_keep = l + (longest - l) \div 2]
    BY <1>4 DEF GcTurn, gc_at
  <2>2. PICK r : r = GcTurn(acc, l, longest)
    OBVIOUS
  <2>3. /\ DOMAIN r = {"to_keep", "by_hash", "by_length", "panicked"}
        /\ r.panicked = acc.panicked /\ r.by_hash = acc.by_hash /\ r.by_length = acc.by_length
    BY <2>1, <2>2 DEF GcGood
  <2>4. GcGood(r, l + 1)
    BY <1>1, <1>2, <2>3 DEF GcGood
  <2> QED BY <2>2, <2>4
<1>5. CASE l \in DOMAIN acc.by_length /\ ~(l >= acc.to_keep)
  <2> DEFINE hashes == acc.by_length[l]
             gone   == {b \in hashes : collect(b)}
  <2>1. PICK r : r = GcTurn(acc, l, longest)
    OBVIOUS
  <2>2. r = [to_keep |-> acc.to_keep,
             panicked |-> acc.panicked \/ ~(hashes \subseteq DOMAIN acc.by_hash),
             by_hash |-> [b \in DOMAIN acc.by_hash \ gone |->
                            IF b \in hashes THEN "collectable" ELSE acc.by_hash[b]],
             by_length |-> [k \in IF gone = hashes THEN DOMAIN acc.by_length \ {l}
                                  ELSE DOMAIN acc.by_length |->
                                IF k = l THEN hashes \ gone ELSE acc.by_length[k]]]
    BY <1>5, <2>1 DEF GcTurn, gc_at
  <2>3. DOMAIN r = {"to_keep", "by_hash", "by_length", "panicked"}
    BY <2>2
  <2>4. IndexOK(acc.by_hash, acc.by_length)
    BY DEF GcGood
  <2>5. \A b \in hashes : b \in DOMAIN acc.by_hash /\ ChainLength[b] = l /\ b \in Blocks
    BY <1>5, <2>4 DEF IndexOK
  <2>6. r.panicked = FALSE
    BY <2>2, <2>5 DEF GcGood
  <2>7. /\ DOMAIN r.by_hash = DOMAIN acc.by_hash \ gone
        /\ \A b \in DOMAIN r.by_hash :
            r.by_hash[b] = IF b \in hashes THEN "collectable" ELSE acc.by_hash[b]
    BY <2>2
  <2>8. /\ DOMAIN r.by_length = IF gone = hashes THEN DOMAIN acc.by_length \ {l}
                                ELSE DOMAIN acc.by_length
        /\ \A k \in DOMAIN r.by_length :
            r.by_length[k] = IF k = l THEN hashes \ gone ELSE acc.by_length[k]
    BY <2>2
  <2>9. gone \subseteq hashes
    OBVIOUS
  <2>10. \A b \in gone : collect(b)
    OBVIOUS
  <2> HIDE DEF hashes, gone
  <2>11. ASSUME NEW k \in DOMAIN r.by_length
         PROVE  /\ k \in Nat /\ r.by_length[k] # {} /\ k \in DOMAIN acc.by_length
                /\ \A b \in r.by_length[k] : b \in DOMAIN r.by_hash /\ ChainLength[b] = k
    <3>1. k \in DOMAIN acc.by_length /\ k \in Nat
      BY <2>4, <2>8 DEF IndexOK
    <3>2. CASE k = l
      <4>1. r.by_length[k] = hashes \ gone /\ gone # hashes
        BY <2>8, <3>2
      <4> QED BY <2>5, <2>7, <2>9, <3>1, <3>2, <4>1
    <3>3. CASE k # l
      <4>1. r.by_length[k] = acc.by_length[k]
        BY <2>8, <3>3
      <4>2. \A b \in acc.by_length[k] : b \in DOMAIN acc.by_hash /\ ChainLength[b] = k
        BY <2>4, <3>1 DEF IndexOK
      <4>3. \A b \in acc.by_length[k] : b \notin gone
        BY <2>5, <2>9, <3>3, <4>2
      <4>4. acc.by_length[k] # {}
        BY <2>4, <3>1 DEF IndexOK
      <4> QED BY <2>7, <3>1, <4>1, <4>2, <4>3, <4>4
    <3> QED BY <3>2, <3>3
  <2>12. ASSUME NEW b \in DOMAIN r.by_hash
         PROVE  /\ ChainLength[b] \in DOMAIN r.by_length
                /\ b \in r.by_length[ChainLength[b]]
    <3>1. b \in DOMAIN acc.by_hash /\ b \notin gone
      BY <2>7
    <3>2. ChainLength[b] \in DOMAIN acc.by_length /\ b \in acc.by_length[ChainLength[b]]
      BY <2>4, <3>1 DEF IndexOK
    <3>3. ChainLength[b] = l => b \in hashes
      BY <3>2 DEF hashes
    <3> QED BY <2>8, <3>1, <3>2, <3>3
  <2>13. IndexOK(r.by_hash, r.by_length)
    BY <2>4, <2>7, <2>11, <2>12 DEF IndexOK
  <2>14. Genesis \notin hashes
    <3>1. l # 0
      BY <1>5 DEF GcGood
    <3> QED BY <2>5, <3>1, HeadersVerified
  <2>15. Genesis \in DOMAIN r.by_hash /\ r.by_hash[Genesis] = "retained"
    BY <2>7, <2>9, <2>14 DEF GcGood
  <2>16. ASSUME NEW b \in DOMAIN states_by_hash, b \notin DOMAIN r.by_hash PROVE collect(b)
    BY <2>7, <2>10, <2>16 DEF GcGood
  <2>17. ASSUME NEW b \in DOMAIN states_by_hash, ChainLength[b] >= l + 1
         PROVE  b \in DOMAIN r.by_hash /\ r.by_hash[b] = states_by_hash[b]
    <3>1. ChainLength[b] >= l /\ ChainLength[b] # l
      BY <1>1, <1>2, <2>17
    <3>2. b \in DOMAIN acc.by_hash /\ acc.by_hash[b] = states_by_hash[b]
      BY <3>1 DEF GcGood
    <3>3. b \notin hashes
      BY <2>5, <3>1
    <3> QED BY <2>7, <2>9, <3>2, <3>3
  <2>18. /\ DOMAIN r.by_length \subseteq DOMAIN states_by_chain_length
         /\ DOMAIN r.by_hash \subseteq DOMAIN states_by_hash
    BY <2>7, <2>11 DEF GcGood
  <2>19. GcGood(r, l + 1)
    BY <1>1, <2>3, <2>6, <2>13, <2>15, <2>16, <2>17, <2>18 DEF GcGood
  <2> QED BY <2>1, <2>19
<1> QED BY <1>3, <1>4, <1>5

\* The whole loop: what is gone was not pinned, and what is at the cut or above stays.
LEMMA GcLoopHolds ==
    ASSUME MultiverseInv, NEW longest \in Nat, NEW n \in Nat, NEW seq,
           seq = [i \in 1..n |-> i - 1], NEW base, GcGood(base, 0)
    PROVE  GcGood(Gc!Fold(base, seq, longest), n)
<1>1. seq \in Seq(Int) /\ Len(seq) = n
  OBVIOUS
<1>2. PICK f : /\ Gc!IsLoop(f, base, seq, longest)
               /\ Gc!Fold(base, seq, longest) = f[Len(seq)]
  BY <1>1, Gc!FoldIsLoop
<1> DEFINE S == {i \in Nat : GcGood(f[i], i)}
<1>3. 0 \in S
  BY <1>2 DEF Gc!IsLoop
<1>4. ASSUME NEW i \in Nat, 0 <= i, i < n, i \in S PROVE i + 1 \in S
  <2>1. i + 1 \in 1..n /\ (i + 1) - 1 = i /\ seq[i + 1] = i
    BY <1>4
  <2>2. f[i + 1] = GcTurn(f[i], i, longest)
    BY <1>1, <1>2, <2>1 DEF Gc!IsLoop
  <2>3. GcGood(f[i], i)
    BY <1>4
  <2>4. GcGood(f[i + 1], i + 1)
    BY <2>2, <2>3, GcTurnHolds
  <2> QED BY <2>4
<1> HIDE DEF S
<1>5. \A i \in 0..n : i \in S
  BY <1>3, <1>4, Gc!IntervalInduction
<1>6. n \in S
  BY <1>5
<1> QED BY <1>1, <1>2, <1>6 DEF S

\* gc keeps the invariant, and the states above its cut.
LEMMA GcHolds ==
    ASSUME MultiverseInv, NEW d \in Depths, gc(d)
    PROVE  /\ MultiverseInv'
           /\ \A b \in DOMAIN states_by_hash : ChainLength[b] >= LongestChain - d => Keeps(b)
<1> DEFINE base == [to_keep |-> FirstToKeep, by_hash |-> states_by_hash,
                    by_length |-> states_by_chain_length, panicked |-> FALSE]
           seq == [i \in 1 .. gc_threshold_length(LongestChain, d) |-> i - 1]
<1>1. PICK r : r = Gc!Fold(base, seq, LongestChain)
  OBVIOUS
<1>2. /\ states_by_hash' = r.by_hash /\ states_by_chain_length' = r.by_length
      /\ panicked' = r.panicked /\ UNCHANGED <<store, refs>>
  BY <1>1 DEF gc, GcResult, Gc!Fold, Gc!Greatest, GcTurn, FoldLeft, MapThenFoldSet, Max
<1>3. PICK longest \in Nat : longest = LongestChain
  BY LongestExists
<1>4. d \in Nat
  BY MultiverseConstants
<1>5. PICK n \in Nat : 1..n = 1..(longest - d) /\ (n = longest - d \/ (n = 0 /\ longest - d < 0))
  <2>1. CASE longest - d >= 0
    <3>1. PICK k \in Nat : k = longest - d
      BY <1>4, <2>1
    <3> QED BY <3>1
  <2>2. CASE longest - d < 0
    <3>1. 1..0 = 1..(longest - d)
      BY <1>4, <2>2
    <3> QED BY <2>2, <3>1
  <2> QED BY <1>4, <2>1, <2>2
<1>6. seq = [i \in 1..n |-> i - 1]
  BY <1>3, <1>5 DEF gc_threshold_length
<1>7. GcGood(base, 0)
  <2>1. /\ IndexOK(states_by_hash, states_by_chain_length)
        /\ Genesis \in DOMAIN states_by_hash /\ states_by_hash[Genesis] = "retained"
    BY DEF MultiverseInv
  <2> QED BY <2>1 DEF GcGood, FirstToKeep
<1> HIDE DEF base, seq
<1>8. GcGood(r, n)
  BY <1>1, <1>3, <1>6, <1>7, GcLoopHolds
<1>9. Bounded(states_by_chain_length)'
  BY <1>2, <1>8 DEF MultiverseInv, Bounded, GcGood
<1>10. ASSUME NEW h \in Handles, refs'[h] # NoRef PROVE refs'[h] \in DOMAIN states_by_hash'
  <2>1. refs[h] # NoRef /\ refs[h] \in DOMAIN states_by_hash /\ refs' = refs
    BY <1>2, <1>10 DEF MultiverseInv
  <2>2. ~collect(refs[h])
    BY PinnedIsCounted
  <2> QED BY <1>2, <1>8, <2>1, <2>2 DEF GcGood
<1>11. /\ IndexOK(states_by_hash, states_by_chain_length)' /\ panicked' = FALSE
       /\ Genesis \in DOMAIN states_by_hash' /\ states_by_hash'[Genesis] = "retained"
  BY <1>2, <1>8 DEF GcGood, IndexOK
<1>12. MultiverseInv'
  BY <1>2, <1>9, <1>10, <1>11 DEF MultiverseInv
<1>13. ASSUME NEW b \in DOMAIN states_by_hash, ChainLength[b] >= LongestChain - d PROVE Keeps(b)
  <2>1. ChainLength[b] \in Nat
    BY HeadersVerified DEF MultiverseInv, IndexOK
  <2>2. ChainLength[b] >= n
    BY <1>3, <1>5, <1>13, <2>1
  <2> QED BY <1>2, <1>8, <2>2 DEF GcGood, Keeps
<1> QED BY <1>12, <1>13

-----------------------------------------------------------------------------
(* The theorems. *)

\* Nothing changes when nothing happens.
LEMMA StutterHolds ==
    ASSUME MultiverseInv, UNCHANGED vars
    PROVE  MultiverseInv' /\ \A b \in DOMAIN states_by_hash : Keeps(b)
BY DEF vars, MultiverseInv, IndexOK, Bounded, Keeps

\* Every step keeps the invariant.
LEMMA InvNext == MultiverseInv /\ [Next]_vars => MultiverseInv'
BY AddHolds, GetRefHolds, GetFromStorageHolds, DropHolds, GcHolds, StutterHolds DEF Next

\* Over any sequence of calls of add, get_ref, get_from_storage, drops and gc, on
\* any tree of blocks: the two indexes of the multiverse agree and gc meets no
\* dangling entry, a Ref keeps its state, and every stored block can be
\* brought back from an ancestor in memory.
THEOREM StatesStay == Spec => []StatesHeld
<1>1. Spec => []MultiverseInv
  BY InvInit, InvNext, PTL DEF Spec
<1> QED BY <1>1, InvHolds, PTL

\* Only gc gives states up, and a call with depth d leaves every state that is
\* at most d below the longest chain as it is, whatever branch it is on.
THEOREM RecentStay == Spec => RecentIsKept
<1> DEFINE Kept ==
        /\ (\A b \in DOMAIN states_by_hash : Keeps(b)) \/ \E d \in Depths : gc(d)
        /\ \A d \in Depths : gc(d) =>
             \A b \in DOMAIN states_by_hash : ChainLength[b] >= LongestChain - d => Keeps(b)
<1>1. Spec => []MultiverseInv
  BY InvInit, InvNext, PTL DEF Spec
<1>2. MultiverseInv /\ [Next]_vars => [Kept]_vars
  <2> SUFFICES ASSUME MultiverseInv, Next PROVE Kept
    OBVIOUS
  <2>1. (\A b \in DOMAIN states_by_hash : Keeps(b)) \/ \E d \in Depths : gc(d)
    BY AddHolds, GetRefHolds, GetFromStorageHolds, DropHolds DEF Next
  <2>2. \A d \in Depths : gc(d) =>
            \A b \in DOMAIN states_by_hash : ChainLength[b] >= LongestChain - d => Keeps(b)
    BY GcHolds
  <2> QED BY <2>1, <2>2
<1>3. RecentIsKept <=> [][Kept]_vars
  BY DEF RecentIsKept
<1> HIDE DEF Kept
<1> QED BY <1>1, <1>2, <1>3, PTL DEF Spec

-----------------------------------------------------------------------------
(* Powers of two. *)

Double(acc, i, env) == acc + acc

Pow == INSTANCE FoldTheorems WITH Op <- Double

\* The doublings are the rounds of a loop.
LEMMA PowerIsLoop ==
    ASSUME NEW k PROVE PowerOfTwo(k) = Pow!Fold(1, [i \in 1 .. k |-> i], 0)
BY DEF PowerOfTwo, Pow!Fold, Pow!Greatest, Double, FoldLeft, MapThenFoldSet, Max

IsDoubling(f, k) == DOMAIN f = 0 .. k /\ f[0] = 1 /\ \A i \in 1 .. k : f[i] = f[i - 1] + f[i - 1]

\* A power of two is the last of so many doublings.
LEMMA PowerIsDoubling ==
    ASSUME NEW k \in Nat PROVE \E f : IsDoubling(f, k) /\ PowerOfTwo(k) = f[k]
<1>1. PICK seq : seq = [i \in 1 .. k |-> i]
  OBVIOUS
<1>2. seq \in Seq(Int) /\ Len(seq) = k
  BY <1>1
<1>3. PICK f : Pow!IsLoop(f, 1, seq, 0) /\ Pow!Fold(1, seq, 0) = f[Len(seq)]
  BY <1>2, Pow!FoldIsLoop
<1> QED BY <1>1, <1>2, <1>3, PowerIsLoop DEF Pow!IsLoop, Double, IsDoubling

\* Doublings agree as far as both go.
LEMMA DoublingsAgree ==
    ASSUME NEW k \in Nat, NEW m \in Nat, k <= m, NEW f, NEW g, IsDoubling(f, k), IsDoubling(g, m)
    PROVE  \A i \in 0 .. k : f[i] = g[i] /\ f[i] \in Nat
<1> DEFINE S == {i \in Nat : i <= k => f[i] = g[i] /\ f[i] \in Nat}
<1>1. 0 \in S
  BY DEF IsDoubling
<1>2. ASSUME NEW i \in Nat, 0 <= i, i < k, i \in S PROVE i + 1 \in S
  <2>1. i + 1 \in 1 .. k /\ i + 1 \in 1 .. m /\ i + 1 - 1 = i
    BY <1>2
  <2>2. f[i + 1] = f[i] + f[i] /\ g[i + 1] = g[i] + g[i]
    BY <2>1 DEF IsDoubling
  <2> QED BY <1>2, <2>2
<1>3. \A i \in 0 .. k : i \in S
  <2> HIDE DEF S
  <2> QED BY <1>1, <1>2, Gc!IntervalInduction
<1> QED BY <1>3

\* The powers of two.
LEMMA Powers ==
    /\ PowerOfTwo(0) = 1
    /\ \A k \in Nat : PowerOfTwo(k) \in Nat /\ PowerOfTwo(k + 1) = PowerOfTwo(k) + PowerOfTwo(k)
<1>1. PICK e : IsDoubling(e, 0) /\ PowerOfTwo(0) = e[0]
  BY PowerIsDoubling
<1>2. ASSUME NEW k \in Nat
      PROVE  PowerOfTwo(k) \in Nat /\ PowerOfTwo(k + 1) = PowerOfTwo(k) + PowerOfTwo(k)
  <2>1. PICK f : IsDoubling(f, k) /\ PowerOfTwo(k) = f[k]
    BY PowerIsDoubling
  <2>2. PICK g : IsDoubling(g, k + 1) /\ PowerOfTwo(k + 1) = g[k + 1]
    BY PowerIsDoubling
  <2>3. f[k] = g[k] /\ f[k] \in Nat
    BY <2>1, <2>2, DoublingsAgree
  <2>4. k + 1 \in 1 .. (k + 1) /\ k + 1 - 1 = k
    OBVIOUS
  <2>5. g[k + 1] = g[k] + g[k]
    BY <2>2, <2>4 DEF IsDoubling
  <2> QED BY <2>1, <2>2, <2>3, <2>5
<1> QED BY <1>1, <1>2 DEF IsDoubling

\* They grow.
LEMMA PowersGrow ==
    ASSUME NEW n \in Nat, NEW k \in Nat, n <= k PROVE PowerOfTwo(n) <= PowerOfTwo(k)
<1> DEFINE S == {i \in Nat : PowerOfTwo(n) <= PowerOfTwo(i)}
<1>1. n \in S
  BY Powers
<1>2. ASSUME NEW i \in Nat, n <= i, i < k, i \in S PROVE i + 1 \in S
  <2>1. /\ PowerOfTwo(i + 1) = PowerOfTwo(i) + PowerOfTwo(i)
        /\ PowerOfTwo(i) \in Nat /\ PowerOfTwo(n) \in Nat
    BY Powers
  <2> QED BY <1>2, <2>1
<1>3. \A i \in n .. k : i \in S
  <2> HIDE DEF S
  <2> QED BY <1>1, <1>2, Gc!IntervalInduction
<1> QED BY <1>3

\* Products grow with a factor.
LEMMA ProductGrows ==
    ASSUME NEW p \in Nat, NEW a \in Int, NEW b \in Int, a <= b PROVE p * a <= p * b
<1>1. PICK c \in Nat : b = a + c
  <2>1. b - a \in Nat /\ b = a + (b - a)
    OBVIOUS
  <2> QED BY <2>1
<1>2. p * b = p * a + p * c /\ p * c \in Nat /\ p * a \in Int
  BY <1>1
<1> QED BY <1>2

-----------------------------------------------------------------------------
(* The gaps between the lengths that gc keeps. *)

\* After the rounds below i gc has kept k lengths.  The way from the next one to
\* the longest chain is at most a 2^k-th of it, so is the way from the last one
\* with k - 1, and every one but the last has somewhere to go.
GapsOK(k, to_keep, i, longest, d) ==
    /\ k \in Nat /\ to_keep \in Int
    /\ PowerOfTwo(k) * (longest - 1 - to_keep) <= longest - 1
    /\ k > 0 => \E p \in Nat : /\ p < i /\ p < longest - d
                               /\ PowerOfTwo(k - 1) * (longest - 1 - p) <= longest - 1
    /\ k > 1 => PowerOfTwo(k - 2) <= longest - 1

\* A length that is kept halves the way.
LEMMA GapHalves ==
    ASSUME NEW longest \in Nat, NEW d \in Nat, NEW k, NEW to_keep, NEW l \in Nat,
           GapsOK(k, to_keep, l, longest, d), l >= to_keep, l < longest - d
    PROVE  GapsOK(k + 1, l + (longest - l) \div 2, l + 1, longest, d)
<1>0. k \in Nat /\ to_keep \in Int /\ PowerOfTwo(k) * (longest - 1 - to_keep) <= longest - 1
  BY DEF GapsOK
<1>1. PICK P \in Nat : P = PowerOfTwo(k) /\ PowerOfTwo(k + 1) = P + P
  BY <1>0, Powers
<1>2. PICK h \in Int : h = longest - 1 - l
  OBVIOUS
<1>3. P * h <= longest - 1
  <2>1. h <= longest - 1 - to_keep /\ longest - 1 - to_keep \in Int
    BY <1>0, <1>2
  <2>2. P * h <= P * (longest - 1 - to_keep)
    BY <2>1, ProductGrows
  <2>3. P * h \in Int /\ P * (longest - 1 - to_keep) \in Int
    BY <2>1
  <2> QED BY <1>0, <1>1, <2>2, <2>3
<1>4. PICK next \in Int : next = l + (longest - l) \div 2
  OBVIOUS
<1>5. PICK g \in Int : g = longest - 1 - next
  OBVIOUS
<1>6. g + g <= h
  BY <1>2, <1>4, <1>5
<1>7. (P + P) * g <= longest - 1
  <2>1. P * (g + g) <= P * h
    BY <1>6, ProductGrows
  <2>2. (P + P) * g = P * (g + g) /\ P * (g + g) \in Int /\ P * h \in Int
    OBVIOUS
  <2> QED BY <1>3, <2>1, <2>2
<1>8. \E p \in Nat : /\ p < l + 1 /\ p < longest - d
                     /\ PowerOfTwo(k + 1 - 1) * (longest - 1 - p) <= longest - 1
  <2>1. k + 1 - 1 = k /\ l < l + 1
    BY <1>0
  <2> QED BY <1>1, <1>2, <1>3, <2>1
<1>9. k + 1 > 1 => PowerOfTwo(k + 1 - 2) <= longest - 1
  <2> SUFFICES ASSUME k + 1 > 1 PROVE PowerOfTwo(k - 1) <= longest - 1
    BY <1>0
  <2>1. PICK p \in Nat : /\ p < l /\ p < longest - d
                         /\ PowerOfTwo(k - 1) * (longest - 1 - p) <= longest - 1
    BY <1>0 DEF GapsOK
  <2>2. PICK Q \in Nat : Q = PowerOfTwo(k - 1)
    BY <1>0, Powers
  <2>3. PICK w \in Int : w = longest - 1 - p
    OBVIOUS
  <2>4. 1 <= w
    BY <2>1, <2>3
  <2>5. Q * 1 <= Q * w
    BY <2>4, ProductGrows
  <2>6. Q * 1 = Q /\ Q * w \in Int /\ Q * w <= longest - 1
    BY <2>1, <2>2, <2>3
  <2> QED BY <2>2, <2>5, <2>6
<1>10. k + 1 \in Nat /\ PowerOfTwo(k + 1) * (longest - 1 - next) <= longest - 1
  BY <1>0, <1>1, <1>5, <1>7
<1> QED BY <1>4, <1>8, <1>9, <1>10 DEF GapsOK

\* What the rounds below i have left apart from pinned states is in K.
SparseTo(acc, i, K, longest, d) ==
    /\ IsFiniteSet(K) /\ \A l \in K : l \in Nat /\ l < i
    /\ \A l \in DOMAIN acc.by_length : l < i => l \in K \/ Pinned(l)
    /\ GapsOK(Cardinality(K), acc.to_keep, i, longest, d)

\* The gaps do not depend on the round.
LEMMA GapsLater ==
    ASSUME NEW k, NEW to_keep, NEW i \in Nat, NEW longest, NEW d, GapsOK(k, to_keep, i, longest, d)
    PROVE  GapsOK(k, to_keep, i + 1, longest, d)
<1>1. \A p \in Nat : p < i => p < i + 1
  OBVIOUS
<1> QED BY <1>1 DEF GapsOK

\* A round of gc keeps a length, or leaves pinned states only.
LEMMA GcTurnSparse ==
    ASSUME MultiverseInv, NEW longest \in Nat, NEW d \in Nat, NEW l \in Nat, l < longest - d,
           NEW acc, GcGood(acc, l), NEW K, SparseTo(acc, l, K, longest, d)
    PROVE  \E J : SparseTo(GcTurn(acc, l, longest), l + 1, J, longest, d)
<1>1. PICK r : r = GcTurn(acc, l, longest)
  OBVIOUS
<1>2. /\ IsFiniteSet(K) /\ \A k \in K : k \in Nat /\ k < l
      /\ \A k \in DOMAIN acc.by_length : k < l => k \in K \/ Pinned(k)
      /\ GapsOK(Cardinality(K), acc.to_keep, l, longest, d)
  BY DEF SparseTo
<1>3. \A k \in DOMAIN acc.by_length : k \in Nat
  BY DEF GcGood, IndexOK
<1>4. \A k \in Nat : k < l + 1 => k < l \/ k = l
  OBVIOUS
<1>5. \A k \in K : k \in Nat /\ k < l + 1
  BY <1>2
<1>6. CASE r.to_keep = acc.to_keep /\ \A k \in DOMAIN r.by_length :
                k \in DOMAIN acc.by_length /\ (k = l => Pinned(l))
  <2>1. GapsOK(Cardinality(K), r.to_keep, l + 1, longest, d)
    BY <1>2, <1>6, GapsLater
  <2>2. \A k \in DOMAIN r.by_length : k < l + 1 => k \in K \/ Pinned(k)
    BY <1>2, <1>3, <1>4, <1>6
  <2>3. SparseTo(r, l + 1, K, longest, d)
    BY <1>2, <1>5, <2>1, <2>2 DEF SparseTo
  <2> QED BY <1>1, <2>3
<1>7. CASE l \notin DOMAIN acc.by_length
  <2>1. r = acc
    BY <1>1, <1>7 DEF GcTurn, gc_at
  <2> QED BY <1>6, <1>7, <2>1
<1>8. CASE l \in DOMAIN acc.by_length /\ l >= acc.to_keep
  <2>1. r = [acc EXCEPT !.to_keep = l + (longest - l) \div 2]
    BY <1>1, <1>8 DEF GcTurn, gc_at
  <2>2. r.to_keep = l + (longest - l) \div 2 /\ r.by_length = acc.by_length
    BY <2>1 DEF GcGood
  <2>3. PICK J : J = K \cup {l}
    OBVIOUS
  <2>4. l \notin K
    BY <1>2
  <2>5. IsFiniteSet(J) /\ Cardinality(J) = Cardinality(K) + 1
    BY <1>2, <2>3, <2>4, FS_AddElement
  <2>6. GapsOK(Cardinality(K) + 1, l + (longest - l) \div 2, l + 1, longest, d)
    BY <1>2, <1>8, GapHalves
  <2>7. \A k \in DOMAIN r.by_length : k < l + 1 => k \in J \/ Pinned(k)
    BY <1>2, <1>3, <1>4, <2>2, <2>3
  <2>8. \A k \in J : k \in Nat /\ k < l + 1
    BY <1>5, <2>3
  <2>9. SparseTo(r, l + 1, J, longest, d)
    BY <2>2, <2>5, <2>6, <2>7, <2>8 DEF SparseTo
  <2> QED BY <1>1, <2>9
<1>9. CASE l \in DOMAIN acc.by_length /\ ~(l >= acc.to_keep)
  <2> DEFINE hashes == acc.by_length[l]
             gone   == {b \in hashes : collect(b)}
  <2>1. /\ r.to_keep = acc.to_keep
        /\ DOMAIN r.by_length = IF gone = hashes THEN DOMAIN acc.by_length \ {l}
                                ELSE DOMAIN acc.by_length
    BY <1>1, <1>9 DEF GcTurn, gc_at
  <2>2. ASSUME gone # hashes PROVE Pinned(l)
    <3>1. PICK b \in hashes : ~collect(b)
      BY <2>2
    <3>2. b \in DOMAIN acc.by_hash /\ ChainLength[b] = l /\ b \in Blocks /\ b # NoRef
      BY <1>9, MultiverseConstants DEF GcGood, IndexOK
    <3>3. {h \in Handles : refs[h] = b} # {}
      BY <3>1, FS_EmptySet DEF collect, strong_count
    <3>4. PICK h \in Handles : refs[h] = b
      BY <3>3
    <3> QED BY <3>2, <3>4 DEF Pinned
  <2> HIDE DEF hashes, gone
  <2>3. \A k \in DOMAIN r.by_length : k \in DOMAIN acc.by_length /\ (k = l => Pinned(l))
    BY <2>1, <2>2
  <2> QED BY <1>6, <2>1, <2>3
<1> QED BY <1>7, <1>8, <1>9

\* The whole loop.
LEMMA GcLoopSparse ==
    ASSUME MultiverseInv, NEW longest \in Nat, NEW d \in Nat, NEW n \in Nat,
           \A i \in 0 .. n - 1 : i < longest - d,
           NEW seq, seq = [i \in 1..n |-> i - 1], NEW base, GcGood(base, 0)
    PROVE  \E K : SparseTo(Gc!Fold(base, seq, longest), n, K, longest, d)
<1>1. seq \in Seq(Int) /\ Len(seq) = n
  OBVIOUS
<1>2. PICK f : /\ Gc!IsLoop(f, base, seq, longest)
               /\ Gc!Fold(base, seq, longest) = f[Len(seq)]
  BY <1>1, Gc!FoldIsLoop
<1> DEFINE S == {i \in Nat : GcGood(f[i], i) /\ \E K : SparseTo(f[i], i, K, longest, d)}
<1>3. 0 \in S
  <2>1. f[0] = base /\ base.to_keep = 0
    BY <1>2 DEF Gc!IsLoop, GcGood
  <2>2. GapsOK(0, 0, 0, longest, d)
    BY Powers DEF GapsOK
  <2>3. \A l \in DOMAIN base.by_length : l \in Nat
    BY DEF GcGood, IndexOK
  <2>4. \A l \in DOMAIN base.by_length : ~(l < 0)
    BY <2>3
  <2>5. SparseTo(f[0], 0, {}, longest, d)
    BY <2>1, <2>2, <2>4, FS_EmptySet DEF SparseTo
  <2> QED BY <2>1, <2>5
<1>4. ASSUME NEW i \in Nat, 0 <= i, i < n, i \in S PROVE i + 1 \in S
  <2>1. i + 1 \in 1..n /\ (i + 1) - 1 = i /\ seq[i + 1] = i /\ i < longest - d
    BY <1>4
  <2>2. f[i + 1] = GcTurn(f[i], i, longest)
    BY <1>1, <1>2, <2>1 DEF Gc!IsLoop
  <2>3. PICK K : GcGood(f[i], i) /\ SparseTo(f[i], i, K, longest, d)
    BY <1>4
  <2>4. GcGood(f[i + 1], i + 1)
    BY <2>2, <2>3, GcTurnHolds
  <2>5. \E J : SparseTo(f[i + 1], i + 1, J, longest, d)
    BY <2>1, <2>2, <2>3, GcTurnSparse
  <2> QED BY <2>4, <2>5
<1> HIDE DEF S
<1>5. \A i \in 0..n : i \in S
  BY <1>3, <1>4, Gc!IntervalInduction
<1>6. n \in S
  BY <1>5
<1> QED BY <1>1, <1>2, <1>6 DEF S

\* So many lengths need so long a chain.
LEMMA GapsBound ==
    ASSUME NEW longest \in Nat, NEW d \in Nat, NEW k, NEW to_keep, NEW i,
           GapsOK(k, to_keep, i, longest, d), NEW n \in Nat, n <= k
    PROVE  /\ n > 0 => PowerOfTwo(n - 1) * d < longest
           /\ n > 1 => PowerOfTwo(n - 2) < longest
<1>0. k \in Nat
  BY DEF GapsOK
<1>1. ASSUME n > 0 PROVE PowerOfTwo(n - 1) * d < longest
  <2>1. PICK p \in Nat : p < longest - d /\ PowerOfTwo(k - 1) * (longest - 1 - p) <= longest - 1
    BY <1>0, <1>1 DEF GapsOK
  <2>2. PICK P, Q : P = PowerOfTwo(n - 1) /\ Q = PowerOfTwo(k - 1)
    OBVIOUS
  <2>3. n - 1 \in Nat /\ k - 1 \in Nat /\ n - 1 <= k - 1
    BY <1>0, <1>1
  <2>4. P \in Nat /\ Q \in Nat /\ P <= Q
    BY <2>2, <2>3, Powers, PowersGrow
  <2>5. PICK w \in Int : w = longest - 1 - p
    OBVIOUS
  <2>6. d <= w
    BY <2>1, <2>5
  <2>7. Q * d <= Q * w /\ d * P <= d * Q
    BY <2>4, <2>6, ProductGrows
  <2>8. Q * w <= longest - 1
    BY <2>1, <2>2, <2>5
  <2>9. d * P = P * d /\ d * Q = Q * d /\ P * d \in Int /\ Q * d \in Int /\ Q * w \in Int
    BY <2>4
  <2> QED BY <2>2, <2>7, <2>8, <2>9
<1>2. ASSUME n > 1 PROVE PowerOfTwo(n - 2) < longest
  <2>1. PowerOfTwo(k - 2) <= longest - 1
    BY <1>0, <1>2 DEF GapsOK
  <2>2. n - 2 \in Nat /\ k - 2 \in Nat /\ n - 2 <= k - 2
    BY <1>0, <1>2
  <2>3. PowerOfTwo(n - 2) \in Nat /\ PowerOfTwo(k - 2) \in Nat /\ PowerOfTwo(n - 2) <= PowerOfTwo(k - 2)
    BY <2>2, Powers, PowersGrow
  <2> QED BY <2>1, <2>3
<1> QED BY <1>1, <1>2

\* gc would leave few lengths in any state.
LEMMA GcSparse == MultiverseInv => SparseBelowCut
<1> SUFFICES ASSUME MultiverseInv, NEW d \in Depths
             PROVE  LET left == {l \in DOMAIN GcResult(d).by_length :
                                    l < LongestChain - d /\ ~Pinned(l)}
                        n    == Cardinality(left)
                    IN  /\ n > 0 => PowerOfTwo(n - 1) * d < LongestChain
                        /\ n > 1 => PowerOfTwo(n - 2) < LongestChain
  BY DEF SparseBelowCut
<1> DEFINE base == [to_keep |-> FirstToKeep, by_hash |-> states_by_hash,
                    by_length |-> states_by_chain_length, panicked |-> FALSE]
           seq == [i \in 1 .. gc_threshold_length(LongestChain, d) |-> i - 1]
           left == {l \in DOMAIN GcResult(d).by_length : l < LongestChain - d /\ ~Pinned(l)}
<1>1. GcResult(d) = Gc!Fold(base, seq, LongestChain)
  BY DEF GcResult, Gc!Fold, Gc!Greatest, GcTurn, FoldLeft, MapThenFoldSet, Max
<1>2. PICK longest \in Nat : longest = LongestChain
  BY LongestExists
<1>3. d \in Nat
  BY MultiverseConstants
<1>4. PICK n \in Nat : /\ 1..n = 1..(longest - d) /\ (n = longest - d \/ (n = 0 /\ longest - d < 0))
                       /\ \A i \in 0 .. n - 1 : i < longest - d
  <2>1. CASE longest - d >= 0
    <3>1. PICK k \in Nat : k = longest - d
      BY <1>3, <2>1
    <3> QED BY <3>1
  <2>2. CASE longest - d < 0
    <3>1. 1..0 = 1..(longest - d) /\ 0 .. 0 - 1 = {}
      BY <1>3, <2>2
    <3> QED BY <2>2, <3>1
  <2> QED BY <1>3, <2>1, <2>2
<1>5. seq = [i \in 1..n |-> i - 1]
  BY <1>2, <1>4 DEF gc_threshold_length
<1>6. GcGood(base, 0)
  <2>1. /\ IndexOK(states_by_hash, states_by_chain_length)
        /\ Genesis \in DOMAIN states_by_hash /\ states_by_hash[Genesis] = "retained"
    BY DEF MultiverseInv
  <2> QED BY <2>1 DEF GcGood, FirstToKeep
<1>7. PICK r : r = GcResult(d)
  OBVIOUS
<1>8. PICK K : SparseTo(r, n, K, longest, d) /\ GcGood(r, n)
  <2> HIDE DEF base, seq
  <2>1. r = Gc!Fold(base, seq, longest)
    BY <1>1, <1>2, <1>7
  <2>2. GcGood(r, n)
    BY <1>5, <1>6, <2>1, GcLoopHolds
  <2>3. \E K : SparseTo(r, n, K, longest, d)
    BY <1>3, <1>4, <1>5, <1>6, <2>1, GcLoopSparse
  <2> QED BY <2>2, <2>3
<1>9. left \subseteq K
  <2> SUFFICES ASSUME NEW l \in DOMAIN r.by_length, l < longest - d, ~Pinned(l) PROVE l \in K
    BY <1>2, <1>7
  <2>1. l \in Nat
    BY <1>8 DEF GcGood, IndexOK
  <2>2. l < n
    BY <1>3, <1>4, <2>1
  <2> QED BY <1>8, <2>2 DEF SparseTo
<1> HIDE DEF left, base, seq
<1>10. IsFiniteSet(K) /\ GapsOK(Cardinality(K), r.to_keep, n, longest, d)
  BY <1>8 DEF SparseTo
<1>11. Cardinality(left) \in Nat /\ Cardinality(left) <= Cardinality(K)
  BY <1>9, <1>10, FS_Subset, FS_CardinalityType
<1>12. /\ Cardinality(left) > 0 => PowerOfTwo(Cardinality(left) - 1) * d < longest
       /\ Cardinality(left) > 1 => PowerOfTwo(Cardinality(left) - 2) < longest
  BY <1>3, <1>10, <1>11, GapsBound
<1> QED BY <1>2, <1>12 DEF left

\* Whenever gc runs, in a state that any sequence of calls has led to, it leaves
\* a number of chain lengths below its cut that is logarithmic in the longest
\* chain, apart from those a Ref pins: the gaps between them at least halve the
\* way to the longest chain (multiverse.rs, gc).
THEOREM FewStayBelow == Spec => []SparseBelowCut
<1>1. Spec => []MultiverseInv
  BY InvInit, InvNext, PTL DEF Spec
<1> QED BY <1>1, GcSparse, PTL
=============================================================================
