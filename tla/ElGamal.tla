------------------------------- MODULE ElGamal -------------------------------
(* The group that votes are encrypted in, the encryption, and the proofs.    *)
EXTENDS Integers, Sequences, SequencesExt

------------------------------------------------------------------------------
(***************************************************************************)
(* Scalars and group elements (chain-crypto/src/ec/ristretto255.rs).  The  *)
(* group has a small prime order and the element k * G is written k, so    *)
(* equality of elements is exact and a discrete logarithm can be read off. *)
(* Only the operations below touch the representation.                     *)
(***************************************************************************)

CONSTANT Order      \* the order of the group: about 2^252 in the code

ASSUME OrderIsPrime ==
    /\ Order \in Nat \ {0, 1}
    /\ \A d \in 2 .. 200 : d < Order => Order % d # 0

\* The same sequence, with its elements computed once.
Listed(s) == SubSeq(s, 1, Len(s))

from_u64(v) == v % Order

ScalarOf(b) == IF b THEN 1 ELSE 0

ScalarAdd(x, y) == (x + y) % Order

ScalarSub(x, y) == (x - y) % Order

ScalarMul(x, y) == (x * y) % Order

negate(x) == (-x) % Order

sum(xs) == FoldLeft(ScalarAdd, 0, xs)

RECURSIVE BinaryPower(_, _, _)
BinaryPower(result, n, aux) ==
    IF n = 0 THEN result
    ELSE BinaryPower(IF n % 2 = 1 THEN ScalarMul(result, aux) ELSE result,
                     n \div 2, ScalarMul(aux, aux))

power(x, n) == BinaryPower(1, n, x)

\* The first n powers of x, starting with 1.
RECURSIVE exp_iter(_, _)
exp_iter(x, n) ==
    IF n = 0 THEN <<>>
    ELSE IF n = 1 THEN <<1>>
    ELSE LET before == exp_iter(x, n - 1)
         IN  Append(before, ScalarMul(Last(before), x))

zero == 0

generator == 1

Scale(e, s) == (e * s) % Order

PointAdd(d, e) == (d + e) % Order

PointSub(d, e) == (d - e) % Order

RECURSIVE DoubleAndAdd(_, _, _)
DoubleAndAdd(q, n, a) ==
    IF n = 0 THEN q
    ELSE DoubleAndAdd(IF n % 2 = 1 THEN PointAdd(q, a) ELSE q, n \div 2, PointAdd(a, a))

ScaleU64(e, n) == DoubleAndAdd(zero, n, e)

PointSum(es) == FoldLeft(PointAdd, zero, es)

multiscalar(scalars, points) ==
    PointSum([i \in DOMAIN points |-> Scale(points[i], scalars[i])])

\* Blake2b, reduced to a scalar.
hash_to_scalar(input) ==
    FoldLeft(LAMBDA h, x : (((h + 17) % Order) ^ 2 + x) % Order, Len(input), input)

from_hash(input) == Scale(generator, hash_to_scalar(Append(input, 1)))

\* The k-th scalar drawn from a random generator with this seed.
random(rng, k) == hash_to_scalar(<<rng, k, 5>>)

------------------------------------------------------------------------------
(***************************************************************************)
(* Lifted and hybrid ElGamal encryption, Pedersen commitments and the      *)
(* proof that two discrete logarithms are equal                            *)
(* (chain-vote/src/cryptography: elgamal.rs, commitment.rs,                *)
(* zkps/dl_equality, zkps/correct_share_generation).                       *)
(***************************************************************************)

to_public(sk) == Scale(generator, sk)

encrypt_point_with_r(pk, message, r) ==
    [e1 |-> Scale(generator, r), e2 |-> PointAdd(message, Scale(pk, r))]

encrypt_with_r(pk, message, r) ==
    encrypt_point_with_r(pk, Scale(generator, message), r)

decrypt_point(sk, c) == PointAdd(Scale(c.e1, negate(sk)), c.e2)

CiphertextZero == [e1 |-> zero, e2 |-> zero]

CiphertextAdd(c, d) == [e1 |-> PointAdd(c.e1, d.e1), e2 |-> PointAdd(c.e2, d.e2)]

CiphertextScale(c, w) == [e1 |-> ScaleU64(c.e1, w), e2 |-> ScaleU64(c.e2, w)]

CiphertextBytes(c) == <<c.e1, c.e2>>

-----------------------------------------------------------------------------
(* Hybrid encryption of a scalar with a key stream. *)

\* Combining with the stream twice gives the message back.
process(key, m) == (hash_to_scalar(<<key>>) - m) % Order

hybrid_encrypt(pk, message, r) ==
    [e1 |-> Scale(generator, r), e2 |-> process(Scale(pk, r), message)]

recover_symmetric_key(sk, c) == Scale(c.e1, sk)

hybrid_decrypt(sk, c) == process(recover_symmetric_key(sk, c), c.e2)

-----------------------------------------------------------------------------
(* Commitments under the key h. *)

commit_with_random(h, m, r) == PointAdd(Scale(generator, m), Scale(h, r))

commit_bool(h, m, r) ==
    IF m THEN PointAdd(generator, Scale(h, r)) ELSE Scale(h, r)

-----------------------------------------------------------------------------
(* Discrete logarithm equality: p1 = b1 * dlog and p2 = b2 * dlog. *)

DleqChallenge(b1, b2, p1, p2, a1, a2) == hash_to_scalar(<<b1, b2, p1, p2, a1, a2>>)

DleqGenerate(b1, b2, p1, p2, dlog, w) ==
    LET challenge == DleqChallenge(b1, b2, p1, p2, Scale(b1, w), Scale(b2, w))
    IN  [challenge |-> challenge, response |-> ScalarAdd(ScalarMul(dlog, challenge), w)]

DleqVerify(proof, b1, b2, p1, p2) ==
    LET a1 == PointSub(Scale(b1, proof.response), Scale(p1, proof.challenge))
        a2 == PointSub(Scale(b2, proof.response), Scale(p2, proof.challenge))
    IN  DleqChallenge(b1, b2, p1, p2, a1, a2) = proof.challenge

\* A decryption share is e1 * sk for the sk behind the public key.
ShareProof(c, pk, share, sk, w) == DleqGenerate(generator, c.e1, pk, share, sk, w)

ShareVerify(proof, c, share, pk) == DleqVerify(proof, generator, c.e1, pk, share)

-----------------------------------------------------------------------------
(***************************************************************************)
(* An encrypted vote and the proof that it is the encryption of a unit     *)
(* vector (chain-vote/src/encrypted_vote.rs, math/polynomial.rs,           *)
(* cryptography/zkps/unit_vector).  Options are counted from 0 as in the   *)
(* code; sequences hold them from 1.                                       *)
(***************************************************************************)

-----------------------------------------------------------------------------
(* Vectors padded to a power of two, and binary digits. *)

next_power_of_two(n) == CHOOSE p \in {2 ^ k : k \in 0 .. n} : p >= n /\ p < 2 * n

PtpNew(vec, extended) ==
    vec \o [i \in 1 .. next_power_of_two(Len(vec)) - Len(vec) |-> extended]

bits(ptp) == CHOOSE k \in 0 .. Len(ptp) : 2 ^ k = Len(ptp)

\* The digits of n, the highest first.
binrep(n, digits) == [j \in 1 .. digits |-> (n \div 2 ^ (digits - j)) % 2 = 1]

UnitVector(size, ith) == [j \in 1 .. size |-> j - 1 = ith]

-----------------------------------------------------------------------------
(* Polynomials: coefficients from the lowest degree. *)

PolyLinear(degree, x0, x1) ==
    [d \in 1 .. degree + 1 |-> IF d = 1 THEN x0 ELSE IF d = 2 THEN x1 ELSE 0]

PolyMul(p, q) ==
    Listed([d \in 1 .. Len(p) + Len(q) - 1 |->
        sum([i \in DOMAIN p |-> IF d + 1 - i \in DOMAIN q
                                THEN ScalarMul(p[i], q[d + 1 - i]) ELSE 0])])

PolyRandom(rng, k, degree) == Listed([d \in 1 .. degree + 1 |-> random(rng, k + d)])

evaluate(p, at) ==
    LET powers == exp_iter(at, Len(p))
    IN  sum([d \in DOMAIN p |-> ScalarMul(p[d], powers[d])])

-----------------------------------------------------------------------------
(* The prover's messages for one digit of the index. *)

gen_and_commit(h, index, rng, k) ==
    LET alpha == random(rng, k + 1)
        beta == random(rng, k + 2)
        gamma == random(rng, k + 3)
        delta == random(rng, k + 4)
    IN  [rand |-> [alpha |-> alpha, beta |-> beta, gamma |-> gamma, delta |-> delta],
         ann |-> [i |-> commit_bool(h, index, alpha),
                  b |-> commit_with_random(h, beta, gamma),
                  a |-> commit_with_random(h, IF index THEN beta ELSE 0, delta)]]

gen_response(rand, challenge, index) ==
    LET z == ScalarAdd(ScalarMul(ScalarOf(index), challenge), rand.beta)
    IN  [z |-> z,
         w |-> ScalarAdd(ScalarMul(rand.alpha, challenge), rand.gamma),
         v |-> ScalarAdd(ScalarMul(rand.alpha, ScalarSub(challenge, z)), rand.delta)]

generate_polys(len, idx, nbits, rands) ==
    LET factor(k, bit) ==
            IF bit THEN PolyLinear(nbits, rands[k].beta, ScalarOf(idx[k]))
            ELSE PolyLinear(nbits, negate(rands[k].beta), ScalarOf(~idx[k]))
        product(j) == FoldLeft(LAMBDA acc, k : PolyMul(acc, factor(k, j[k])),
                               factor(1, j[1]), [k \in 1 .. nbits - 1 |-> k + 1])
    IN  Listed([i \in 1 .. len |-> product(binrep(i - 1, nbits))])

Context(h, pk, ciphers) == <<h, pk>> \o FlattenSeq([c \in DOMAIN ciphers |->
                                            CiphertextBytes(ciphers[c])])

FirstInput(cc, ibas) == cc \o FlattenSeq([b \in DOMAIN ibas |->
                                            <<ibas[b].i, ibas[b].b, ibas[b].a>>])

first_challenge(cc, ibas) == hash_to_scalar(FirstInput(cc, ibas))

second_challenge(cc, ibas, ds) ==
    hash_to_scalar(FirstInput(cc, ibas)
                   \o FlattenSeq([d \in DOMAIN ds |-> CiphertextBytes(ds[d])]))

-----------------------------------------------------------------------------
(* Proof and verification. *)

generate(h, pk, size, ith, randomness, ciphertexts, rng) ==
    LET ciphers == PtpNew(ciphertexts, CiphertextZero)
        randoms == PtpNew(randomness, 0)
        n == bits(ciphers)
        idx == binrep(ith, n)
        first == Listed([k \in 1 .. n |-> gen_and_commit(h, idx[k], rng, 10 * k)])
        ibas == [k \in 1 .. n |-> first[k].ann]
        rands == [k \in 1 .. n |-> first[k].rand]
        cc == Context(h, pk, ciphers)
        cy == first_challenge(cc, ibas)
        cys == exp_iter(cy, Len(ciphers))
        pjs == generate_polys(Len(ciphers), idx, n, rands)
        rs == Listed([i \in 1 .. n |-> random(rng, 100 + i)])
        ds == Listed([i \in 1 .. n |-> encrypt_with_r(pk,
                    sum([j \in DOMAIN pjs |-> ScalarMul(cys[j], pjs[j][i])]), rs[i])])
        cx == second_challenge(cc, ibas, ds)
        cxs == exp_iter(cx, n)
        cxn == power(cx, n)
        p1 == sum([j \in DOMAIN randoms |->
                    ScalarMul(ScalarMul(randoms[j], cxn), cys[j])])
        p2 == sum([i \in 1 .. n |-> ScalarMul(rs[i], cxs[i])])
    IN  [ibas |-> ibas, ds |-> ds,
         zwvs |-> [k \in 1 .. n |-> gen_response(rands[k], cx, idx[k])],
         r |-> ScalarAdd(p1, p2)]

powers_z_encs(zwvs, x, index, n) ==
    LET idx == binrep(index, n)
    IN  FoldLeft(LAMBDA acc, j : ScalarMul(acc, IF idx[j] THEN zwvs[j].z
                                                ELSE ScalarSub(x, zwvs[j].z)),
                 1, [j \in 1 .. n |-> j])

\* A commitment opens to a digit: both equations of a digit in one, with a
\* challenge drawn by the verifier.
DigitVerifies(h, zwv, iba, cx, batch) ==
    multiscalar(<<zwv.z, ScalarAdd(zwv.w, ScalarMul(batch, zwv.v)),
                  ScalarSub(ScalarMul(batch, ScalarSub(zwv.z, cx)), cx),
                  negate(1), negate(batch)>>,
                <<generator, h, iba.i, iba.b, iba.a>>) = zero

verify_statements(proof, pk, h, ciphers, cx, cy, batch) ==
    LET n == bits(ciphers)
        len == Len(ciphers)
        cxs == exp_iter(cx, n)
        cys == exp_iter(cy, len)
        cxn == power(cx, n)
        scaled == Listed([j \in 1 .. len |-> ScalarMul(cys[j], cxn)])
        end == encrypt_with_r(pk, 0, proof.r)
        zs == [j \in 1 .. len |->
                Scale(generator, negate(powers_z_encs(proof.zwvs, cx, j - 1, n)))]
    IN  /\ \A k \in 1 .. n : DigitVerifies(h, proof.zwvs[k], proof.ibas[k], cx, batch)
        /\ multiscalar(
                scaled \o scaled \o cys \o cxs \o cxs \o <<negate(1), negate(1)>>,
                [j \in 1 .. len |-> ciphers[j].e2] \o [j \in 1 .. len |-> ciphers[j].e1]
                \o zs \o [i \in 1 .. n |-> proof.ds[i].e1]
                \o [i \in 1 .. n |-> proof.ds[i].e2] \o <<end.e1, end.e2>>) = zero

verify(proof, h, pk, ciphertexts, batch) ==
    LET ciphers == PtpNew(ciphertexts, CiphertextZero)
        cc == Context(h, pk, ciphers)
        cy == first_challenge(cc, proof.ibas)
        cx == second_challenge(cc, proof.ibas, proof.ds)
    IN  /\ Len(proof.ibas) = bits(ciphers)
        /\ Len(proof.zwvs) = bits(ciphers)
        /\ verify_statements(proof, pk, h, ciphers, cx, cy, batch)
=============================================================================
