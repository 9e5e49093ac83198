---------------------------- MODULE PrivateVote ----------------------------
(***************************************************************************)
(* A private vote from the keys of its committee to the decrypted result:  *)
(* the members deal their keys, voters encrypt and prove their votes, the  *)
(* ledger adds up the ballots without opening them, the members decrypt    *)
(* their parts and anyone hands in the result                              *)
(* (chain-vote/src: committee.rs, encrypted_vote.rs, tally.rs,             *)
(* math/babystep.rs; chain-impl-mockchain/src/vote: manager.rs, tally.rs). *)
(*                                                                         *)
(* VotePlan has a ballot as the choice it stands for and a tally as sums   *)
(* of weights.  Here both are what the ledger really holds, for one        *)
(* private plan with one proposal, and the module implements VotePlan as   *)
(* long as results are handed in with one share for each key.              *)
(***************************************************************************)
EXTENDS ElGamal, FiniteSets, FiniteSetsExt, Functions

CONSTANTS
    Accounts, Plans, PlanOf, Committees, CastChoices, Tokens, TotalTokens,
    Criteria, InitialPots, MaxPot, MaxLog, Dates,     \* those of VotePlan
    Plan,           \* the private plan
    MemberCount,    \* members of the committee
    Threshold,      \* degree of the polynomials a member deals with
    Seeds,          \* seeds of the random generators of voters and verifiers
    Balance         \* how many times the baby steps exceed the square root

ASSUME PrivateConstants ==
    /\ PlanOf[Plan].private /\ PlanOf[Plan].keys = MemberCount
    /\ Threshold \in 1 .. MemberCount

Members == 1 .. MemberCount

Options == PlanOf[Plan].proposals[1].options

VARIABLES
    date, block,    \* as in VotePlan
    dealt,          \* member -> MemberState
    manager,        \* the plan's keys and its ProposalManager; NoManager before
    posted,         \* member -> its TallyDecryptShare
    opened          \* the plan as one who has all secret keys reads it

ballotsVars == <<date, block, dealt, manager, posted, opened>>

-----------------------------------------------------------------------------
(* The committee. *)

CeremonyCrs == from_hash(<<7>>)

\* Communication keys of the members.
comm(i) == random(i, 900)

\* Mutant: the dealer's own place is not left out.
ReceiverUnskipped(my, s) == s

\* No share is made for the dealer: its place is left out.
ReceiverOf(my, s) == IF s < my THEN s ELSE s + 1

MemberStateNew(my) ==
    LET pcomm == PolyRandom(my, 300, Threshold)
        pshek == PolyRandom(my, 400, Threshold)
        apubs == [d \in DOMAIN pshek |-> Scale(generator, pshek[d])]
        dealtTo(i) ==
            [ecomm |-> hybrid_encrypt(to_public(comm(i)), evaluate(pcomm, from_u64(i)),
                                      random(my, 500 + i)),
             eshek |-> hybrid_encrypt(to_public(comm(i)), evaluate(pshek, from_u64(i)),
                                      random(my, 600 + i))]
    IN  [sk |-> pshek[1], apubs |-> apubs,
         es |-> [d \in DOMAIN pcomm |-> PointAdd(apubs[d], Scale(CeremonyCrs, pcomm[d]))],
         encrypted |-> [s \in 1 .. MemberCount - 1 |-> dealtTo(ReceiverOf(my, s))]]

public_key(i) == dealt[i].apubs[1]

PublicKeys == [i \in Members |-> public_key(i)]

from_participants(pks) == PointSum(pks)

-----------------------------------------------------------------------------
(* Ballots. *)

Fingerprint(pk, crs) == <<crs, pk>>

\* One random scalar serves all entries of a vote.
encrypt_and_prove_vote(pk, crs, size, choice, rng) ==
    LET r == random(rng, 700)
        vote == UnitVector(size, choice)
        ciphertexts == Listed([j \in 1 .. size |-> encrypt_with_r(pk, ScalarOf(vote[j]), r)])
    IN  [vote |-> ciphertexts,
         proof |-> generate(crs, pk, size, choice, [j \in 1 .. size |-> r],
                            ciphertexts, rng)]

\* Ballot::try_from_vote_and_proof, after the length of the vote.
validate_private_vote(m, cast, batch) ==
    /\ Len(cast.vote) = Options
    /\ verify(cast.proof, m.crs, m.pk, cast.vote, batch)

BallotOf(m, cast) == [vote |-> cast.vote, fingerprint |-> Fingerprint(m.pk, m.crs)]

\* What a voter's wallet sends: a vote for this plan, one made for the keys of
\* another plan, one with the proof of another vote, one damaged on its way
\* and one for a proposal with fewer options.
Casts(m, choice, rng) ==
    LET orders == << <<m.pk, m.crs, Options, choice, rng>>,
                     <<m.pk, m.crs, Options, choice, rng + 50>>,
                     <<from_hash(<<1>>), from_hash(<<2>>), Options, choice, rng>>,
                     <<m.pk, m.crs, 2, choice % 2, rng>> >>
        made == Listed([k \in 1 .. 4 |-> LET o == orders[k] IN
                            encrypt_and_prove_vote(o[1], o[2], o[3], o[4], o[5])])
    IN  { made[1], made[3], made[4],
          [made[1] EXCEPT !.proof = made[2].proof],
          [made[1] EXCEPT !.vote[1].e2 = PointAdd(@, generator)] }

-----------------------------------------------------------------------------
(* Encrypted tallies. *)

EncryptedTallyNew(m) ==
    [r |-> [o \in 1 .. Options |-> CiphertextZero], fingerprint |-> Fingerprint(m.pk, m.crs)]

\* The asserts of add: a panic when a ballot is not of this election.
Fits(t, ballot) == Len(ballot.vote) = Len(t.r) /\ ballot.fingerprint = t.fingerprint


TallyAdd(t, ballot, weight) ==
    [t EXCEPT !.r = Listed([o \in DOMAIN @ |->
        CiphertextAdd(@[o], CiphertextScale(ballot.vote[o], weight))])]

Merge(s, t) == [s EXCEPT !.r = [o \in DOMAIN @ |-> CiphertextAdd(@[o], t.r[o])]]

\* What one thread adds up; the threads share the ballots in any way.
FoldBallots(m, voters) ==
    FoldLeft(LAMBDA t, a : TallyAdd(t, m.votes[a], Tokens[a]),
             EncryptedTallyNew(m), SetToSeq(voters))

private_tally(m, voters) ==
    LET counted == DOMAIN m.votes \cap DOMAIN Tokens
    IN  Merge(FoldBallots(m, counted \cap voters), FoldBallots(m, counted \ voters))

-----------------------------------------------------------------------------
(* Decryption. *)

\* EncryptedTally::partial_decrypt, one proven share for each option.
partial_decrypt(t, i) ==
    [o \in DOMAIN t.r |->
        LET share == Scale(t.r[o].e1, dealt[i].sk)
        IN  [r1 |-> share,
             pi |-> ShareProof(t.r[o], to_public(dealt[i].sk), share, dealt[i].sk,
                               random(i, 800 + o))]]

ShareIsValid(share, t, pk) ==
    /\ Len(share) = Len(t.r)
    /\ \A o \in DOMAIN share : ShareVerify(share[o].pi, t.r[o], share[o].r1, pk)

\* Keys and shares are paired as far as both go.
validate_partial_decryptions(t, pks, shares) ==
    \A k \in DOMAIN pks \cap DOMAIN shares : ShareIsValid(shares[k], t, pks[k])

decrypt(t, shares) ==
    Listed([o \in DOMAIN t.r |-> PointSub(t.r[o].e2,
        PointSum([k \in DOMAIN shares |-> shares[k][o].r1]))])

sqrt_ceil(n) == CHOOSE s \in 0 .. n : s * s >= n /\ \A q \in 0 .. n : q * q >= n => s <= q

\* Mutant: the last baby steps are missing from the table.
BabyStepsShort(size) == [i \in 0 .. size - 2 |-> Scale(generator, i)]

BabySteps(size) == [i \in 0 .. size |-> Scale(generator, i)]

BabyTable(max) ==
    LET size == sqrt_ceil(max) * Balance
    IN  [size |-> size, table |-> BabySteps(size),
         giant_step |-> Scale(generator, negate(from_u64(size)))]

Exceeded == -1

\* The steps of the loop on one point, a giant step each.
RECURSIVE GiantSteps(_, _, _, _)
GiantSteps(point, a, max, table) ==
    IF point \in Range(table.table)
    THEN a * table.size + CHOOSE x \in DOMAIN table.table : table.table[x] = point
    ELSE IF a * table.size > max THEN Exceeded
    ELSE GiantSteps(PointAdd(point, table.giant_step), a + 1, max, table)

baby_step_giant_step(points, max, table) ==
    Listed([o \in DOMAIN points |-> GiantSteps(points[o], 0, max, table)])

decrypt_tally(t, shares, max, table) ==
    baby_step_giant_step(decrypt(t, shares), max, table)

TallyOptimizationTable == BabyTable(TotalTokens)

\* Tally::verify, by the ledger.
TallyVerify(counts, t, pks, shares) ==
    /\ validate_partial_decryptions(t, pks, shares)
    /\ \A o \in DOMAIN counts : ScaleU64(generator, counts[o]) = decrypt(t, shares)[o]

-----------------------------------------------------------------------------
(* The ledger. *)

Later(d, e) == \/ d[1] > e[1]
               \/ d[1] = e[1] /\ d[2] > e[2]

InBlock == Later(block, date)

NoManager == [registered |-> FALSE]

Registered == manager.registered

TallyIs(state) == Registered /\ manager.tally.state = state

-----------------------------------------------------------------------------
(* What the ballots and sums open to with the secret keys of all members. *)

JointSecret == sum([i \in Members |-> dealt[i].sk])

\* The choice that a ballot opens to; Options for one that is no unit vector.
Opened(ballot, sk) ==
    LET plain == Listed([o \in DOMAIN ballot.vote |-> decrypt_point(sk, ballot.vote[o])])
        choices == {c \in 0 .. Options - 1 :
                        plain = [o \in 1 .. Options |-> IF o = c + 1 THEN 1 ELSE 0]}
    IN  IF choices = {} THEN Options ELSE CHOOSE c \in choices : TRUE

AbstractTally(sk) ==
    IF TallyIs("encrypted")
    THEN [state |-> "encrypted",
          result |-> [c \in 0 .. Options - 1 |-> decrypt_point(sk, manager.tally.sums.r[c + 1])]]
    ELSE manager.tally

AbstractManager(sk) ==
    [votes |-> [a \in DOMAIN manager.votes |-> Opened(manager.votes[a], sk)],
     tally |-> AbstractTally(sk)]

AbstractPlans ==
    IF Registered
    THEN LET sk == JointSecret IN
         [id \in {Plan} |-> [committee |-> Committees \cup PlanOf[Plan].inputs,
                             managers |-> <<AbstractManager(sk)>>]]
    ELSE <<>>

Reopen == opened' = AbstractPlans'

-----------------------------------------------------------------------------
(* The steps. *)

BallotsInit ==
    /\ date = <<0, 0>> /\ block = <<0, 0>>
    /\ dealt = <<>>
    /\ manager = NoManager
    /\ posted = <<>>
    /\ opened = <<>>

Deal(i) ==
    /\ i \notin DOMAIN dealt
    /\ dealt' = [j \in DOMAIN dealt \cup {i} |->
                    IF j = i THEN MemberStateNew(i) ELSE dealt[j]]
    /\ UNCHANGED <<date, block, manager, posted, opened>>

begin_block(d) ==
    /\ ~InBlock
    /\ Later(d, date)
    /\ block' = d
    /\ UNCHANGED <<date, dealt, manager, posted, opened>>

\* The last block of the instance stays open: the chain goes on.
finish ==
    /\ InBlock
    /\ \E d \in Dates : Later(d, block)
    /\ date' = block
    /\ UNCHANGED <<block, dealt, manager, posted, opened>>

\* ProposalManagers::new for a plan that the committee's accounts pay for.
apply_vote_plan ==
    /\ manager = NoManager
    /\ InBlock
    /\ DOMAIN dealt = Members
    /\ ~Later(block, PlanOf[Plan].start)
    /\ manager' = [registered |-> TRUE, pks |-> PublicKeys,
                   pk |-> from_participants(PublicKeys), crs |-> from_hash(PublicKeys),
                   votes |-> <<>>, tally |-> [state |-> "none"]]
    /\ UNCHANGED <<date, block, dealt, posted>>
    /\ Reopen

can_vote == ~Later(PlanOf[Plan].start, date) /\ Later(PlanOf[Plan].end, date)

committee_time == ~Later(PlanOf[Plan].end, date) /\ Later(PlanOf[Plan].committee_end, date)

apply_vote_cast(a, choice, rng) ==
    /\ InBlock /\ Registered
    /\ can_vote
    /\ a \notin DOMAIN manager.votes
    /\ \E cast \in Casts(manager, choice, rng), batch \in {random(s, 1) : s \in Seeds} :
        /\ validate_private_vote(manager, cast, batch)
        /\ manager' = [manager EXCEPT !.votes = [v \in DOMAIN @ \cup {a} |->
                IF v = a THEN BallotOf(manager, cast) ELSE @[v]]]
    /\ UNCHANGED <<date, block, dealt, posted>>
    /\ Reopen

start_private_tally(voters) ==
    /\ InBlock /\ Registered
    /\ committee_time
    /\ \A a \in DOMAIN manager.votes : Fits(EncryptedTallyNew(manager), manager.votes[a])
    /\ manager' = [manager EXCEPT !.tally =
            [state |-> "encrypted", sums |-> private_tally(manager, voters)]]
    /\ UNCHANGED <<date, block, dealt, posted>>
    /\ Reopen

\* A member computes its share from the ledger and sends it to the others.
PostShare(i) ==
    /\ TallyIs("encrypted")
    /\ i \notin DOMAIN posted
    /\ posted' = [j \in DOMAIN posted \cup {i} |->
                    IF j = i THEN partial_decrypt(manager.tally.sums, i) ELSE posted[j]]
    /\ UNCHANGED <<date, block, dealt, manager, opened>>

\* Shares as they were gathered: some missing, in any order, one more than once.
Gathered ==
    {[k \in DOMAIN order |-> posted[order[k]]] :
        order \in UNION {[1 .. n -> DOMAIN posted] : n \in 0 .. MemberCount + 1}}

\* A share that is nobody's: the points of the first n options are the generator.
Stray(n) ==
    [o \in 1 .. Options |-> [r1 |-> IF o <= n THEN generator ELSE zero, pi |-> <<>>]]

\* The certificate has any number of shares, which nothing compares with the
\* number of keys.
Certificates ==
    Gathered \cup {Append(shares, Stray(n)) : n \in 0 .. Options,
                   shares \in {s \in Gathered : Len(s) = MemberCount}}

\* Someone decrypts with the shares and hands in the result; with the counts of
\* two options exchanged it is a wrong one, and a certificate without shares is
\* written without counts.
CountsFrom(shares) ==
    LET found == decrypt_tally(manager.tally.sums, shares, TotalTokens,
                               TallyOptimizationTable)
    IN  {counts \in {found, Reverse(found)} : Exceeded \notin Range(found)}
            \cup (IF shares = <<>> THEN {<<>>} ELSE {})

\* TallyResult::new and add_vote: an option without a count has none.
ResultOf(counts) ==
    [c \in 0 .. Options - 1 |-> IF c + 1 \in DOMAIN counts THEN counts[c + 1] ELSE 0]

finalize_private_tally(shares) ==
    /\ InBlock
    /\ TallyIs("encrypted")
    /\ validate_partial_decryptions(manager.tally.sums, manager.pks, shares)
    /\ \E counts \in CountsFrom(shares) :
        /\ TallyVerify(counts, manager.tally.sums, manager.pks, shares)
        /\ manager' = [manager EXCEPT !.tally =
                [state |-> "decrypted", result |-> ResultOf(counts)]]
    /\ UNCHANGED <<date, block, dealt, posted>>
    /\ Reopen

finalize == \E shares \in Certificates : finalize_private_tally(shares)

BallotsNext ==
    \/ \E i \in Members : Deal(i)
    \/ \E d \in Dates : begin_block(d)
    \/ finish
    \/ apply_vote_plan
    \/ \E a \in Accounts, choice \in 0 .. Options - 1, rng \in Seeds :
        apply_vote_cast(a, choice, rng)
    \/ \E voters \in SUBSET Accounts : start_private_tally(voters)
    \/ \E i \in Members : PostShare(i)
    \/ finalize

BallotsSpec == BallotsInit /\ [][BallotsNext]_ballotsVars

\* Someone has all shares, in the order of the keys, and hands in a result.
HandIn == DOMAIN posted = Members /\ finalize_private_tally([i \in Members |-> posted[i]])

\* The chain goes on and the members of the committee do their part; nothing
\* is assumed of voters.
BallotsFairness ==
    /\ WF_ballotsVars(\E d \in Dates : begin_block(d))
    /\ WF_ballotsVars(finish)
    /\ \A i \in Members : WF_ballotsVars(PostShare(i))
    /\ WF_ballotsVars(HandIn)

FairBallots == BallotsSpec /\ BallotsFairness

-----------------------------------------------------------------------------
(* Properties. *)

Ideal == INSTANCE VotePlan WITH plans <- opened, pots <- InitialPots, logs <- <<>>

\* A result is handed in with fewer or more shares than there are keys.
Unmatched ==
    \E shares \in Certificates : Len(shares) # MemberCount /\ finalize_private_tally(shares)


\* What a member deals to another opens with the other's communication key to
\* points on the polynomials the dealer has committed to.
DealtSharesOpen ==
    \A my \in DOMAIN dealt : \A i \in Members \ {my} :
        LET part == dealt[my].encrypted[IF i < my THEN i ELSE i - 1]
            powers == exp_iter(from_u64(i), Threshold + 1)
        IN  PointAdd(Scale(generator, hybrid_decrypt(comm(i), part.eshek)),
                     Scale(CeremonyCrs, hybrid_decrypt(comm(i), part.ecomm)))
            = PointSum([d \in 1 .. Threshold + 1 |-> Scale(dealt[my].es[d], powers[d])])

\* Once the votes are added up the result is decrypted: every share ever made
\* stays good when the tally is started again, and the discrete logarithms of
\* all counts up to the total stake are found.
CommitteeFinishes == TallyIs("encrypted") ~> TallyIs("decrypted")
=============================================================================
