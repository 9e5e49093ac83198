------------------------------ MODULE SumKes ------------------------------
(***************************************************************************)
(* The key evolving signatures of stake pools: the binary sum composition  *)
(* of chain-crypto (algorithms/sumed25519/sum.rs and common.rs).           *)
(*                                                                         *)
(* Hashes and ed25519 are symbolic.  A seed is the path from the master    *)
(* seed, so split_seed appends a 1 or a 2; the public key of a leaf is     *)
(* <<"leaf", seed>>, of an inner node <<"node", left, right>>.  A secret   *)
(* key keeps what its bytes keep: the period, the leaf key, the pairs of   *)
(* public keys from the root to the leaf, and the array of right seeds,    *)
(* whose unused slots are zero.                                            *)
(***************************************************************************)
EXTENDS Integers, FiniteSets, Sequences, SequencesExt

Seeds == Seq(0 .. 2)
ZeroSeed == <<0>>

\* The bits of a period, and the powers of two they stand for: a u32 in the code, of
\* which trees of depth 12 use 12.
WordSize == 16
Powers == FoldLeft(LAMBDA p, i : Append(p, 2 * p[i]), <<1>>, [i \in 1 .. WordSize |-> i])
two_to(n) == Powers[n + 1]

\* Depth::total and Depth::half.
total(depth) == two_to(depth)
half(depth) == two_to(depth - 1)

BitOf(t, i) == (t \div two_to(i)) % 2
count_ones(t) == Cardinality({i \in 0 .. WordSize : BitOf(t, i) = 1})

split_seed(r) == [left |-> Append(r, 1), right |-> Append(r, 2)]
keygen_1(seed) == [secret |-> seed, public |-> <<"leaf", seed>>]
hash(pk1, pk2) == <<"node", pk1, pk2>>

\* How many right seeds the key of period t still holds.
rs_from_period(depth, t) == count_ones(total(depth) - 1) - count_ones(t)

-----------------------------------------------------------------------------
(* Making keys. *)

\* The right seeds beside the leftmost path, the topmost first, and its leaf.
generate_leftmost_rs(depth, master) ==
    LET Ones(n) == [i \in 1 .. n |-> 1]
    IN  [rs |-> [i \in 1 .. depth |-> split_seed(master \o Ones(i - 1)).right],
         keypair |-> keygen_1(split_seed(master \o Ones(depth - 1)).left)]

\* The public key of a tree: the leftmost leaf joined with the right trees, from
\* the leaf to the root.
pkeygen[depth \in 0 .. WordSize] == [master \in Seeds |->
    IF depth = 0
    THEN keygen_1(master).public
    ELSE LET spine == generate_leftmost_rs(depth, master)
             rights == [level \in 1 .. depth |-> pkeygen[level - 1][spine.rs[depth - level + 1]]]
         IN  FoldLeft(hash, spine.keypair.public, rights)]

\* A level of the tree: the pair of public keys is pushed, and joined.
PushPair(acc, right) ==
    [left |-> hash(acc.left, right), pks |-> Append(acc.pks, <<acc.left, right>>)]

\* The secret key of period 0 and the public key: the pairs of public keys are
\* pushed from the leaf to the root and then reversed.
keygen(depth, master) ==
    LET spine == generate_leftmost_rs(depth, master)
        rights == [level \in 1 .. depth |-> pkeygen[level - 1][spine.rs[depth - level + 1]]]
        leaf == IF depth = 0 THEN keygen_1(master) ELSE spine.keypair
        tree == FoldLeft(PushPair, [left |-> leaf.public, pks |-> <<>>], rights)
    IN  [secret |-> [depth |-> depth, t |-> 0, sk |-> leaf,
                     pks |-> Reverse(tree.pks), rs |-> spine.rs],
         public |-> tree.left]

\* Joins a public key with its siblings, from the leaf up, by the bits of t.
Climb(t, leaf, siblings) ==
    FoldLeft(LAMBDA got, i :
                IF BitOf(t, i - 1) = 1
                THEN hash(siblings[i], got)
                ELSE hash(got, siblings[i]),
             leaf, [i \in DOMAIN siblings |-> i])

compute_public(key) ==
    Climb(key.t, key.sk.public,
          [i \in DOMAIN key.pks |->
            LET pair == key.pks[key.depth - i + 1]
            IN  IF BitOf(key.t, i - 1) = 1 THEN pair[1] ELSE pair[2]])

-----------------------------------------------------------------------------
(* Signatures. *)

\* Mutant: the siblings are taken with the bits of t in the wrong order.
SiblingsReversed(key) ==
    [i \in DOMAIN key.pks |->
        IF BitOf(key.t, i - 1) = 1 THEN key.pks[i][1] ELSE key.pks[i][2]]

\* The sibling at each level: t >= half of what is left means the right half.
Siblings(key) ==
    [i \in DOMAIN key.pks |->
        LET below == key.t % total(key.depth - i + 1)
        IN  IF below >= half(key.depth - i + 1)
            THEN key.pks[i][1]
            ELSE key.pks[i][2]]

sign(key, m) ==
    [t |-> key.t, sigma |-> <<key.sk.secret, m>>, pk |-> key.sk.public,
     pks |-> Siblings(key)]

verify(pk, m, sig) ==
    /\ sig.pk = <<"leaf", sig.sigma[1]>> /\ sig.sigma[2] = m
    /\ Climb(sig.t, sig.pk, Reverse(sig.pks)) = pk

-----------------------------------------------------------------------------
(* Evolution. *)

rs_len(key) == rs_from_period(key.depth, key.t)

is_updatable(key) == key.t + 1 < total(key.depth)

\* Mutant: the popped seed stays in the buffer.
PopKeeping(key) == key.rs

\* The seeds with the last one in use cleared.
rs_pop(key) == [key.rs EXCEPT ![rs_len(key)] = ZeroSeed]

\* The child's seeds copied behind the first `offset` ones.
rs_extend(rs, offset, child_rs) ==
    [i \in DOMAIN rs |->
        IF i \in offset + 1 .. offset + Len(child_rs)
        THEN child_rs[i - offset]
        ELSE rs[i]]

\* The child's pairs copied behind the first `offset` ones.
pks_extend(pks, offset, child_pks) ==
    [i \in DOMAIN pks |-> IF i > offset THEN child_pks[i - offset] ELSE pks[i]]

\* The bits that the next period flips, and the key made from the last seed for
\* the subtree below the highest of them.
Flipped(t) == {i \in 0 .. WordSize : BitOf(t, i) # BitOf(t + 1, i)}
Child(key) == keygen(Cardinality(Flipped(key.t)) - 1, key.rs[rs_len(key)])

\* The key of the next period; {} at the last one (KeyCannotBeUpdatedMore).
\* The code asserts that the child's public key is the one stored for it.
update(key) ==
    IF rs_len(key) = 0
    THEN {}
    ELSE LET child == Child(key).secret
         IN  {[key EXCEPT
                !.t = @ + 1,
                !.sk = child.sk,
                !.rs = rs_extend(rs_pop(key), rs_len(key) - 1, child.rs),
                !.pks = pks_extend(@, key.depth - child.depth, child.pks)]}

\* assert_eq! in update: the right public key stored at the branching level.
UpdateAssertion(key) ==
    LET diff == Cardinality(Flipped(key.t))
    IN  (rs_len(key) > 0 /\ diff > 1) => key.pks[key.depth - diff + 1][2] = Child(key).public

\* SecretKey::from_bytes: a period of the tree, and zeroes behind its seeds.
from_bytes_accepts(key) ==
    /\ key.t < total(key.depth)
    /\ \A i \in rs_len(key) + 1 .. Len(key.rs) : key.rs[i] = ZeroSeed

=============================================================================
