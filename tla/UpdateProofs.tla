---------------------------- MODULE UpdateProofs ----------------------------
(***************************************************************************)
(* Theorems about update proposals, for any number of nodes, leaders,      *)
(* proposals and dates: nodes that apply the same blocks agree, none of    *)
(* them panics, and settings change by majority.                           *)
(***************************************************************************)
EXTENDS UpdateState, FiniteSetTheorems, TLAPS

\* What a node may have pending.
PendingOK(props) ==
    /\ IsFiniteSet(DOMAIN props) /\ DOMAIN props \subseteq Proposals
    /\ \A p \in DOMAIN props :
        /\ props[p] = [date |-> props[p].date, votes |-> props[p].votes]
        /\ props[p].date \in Nat \X Nat
        /\ \A s : try_apply(s, ChangesOf[p]) # {}

\* The loop of process_proposals, over an order of the proposals.
Decide(acc, p, env) == decide(acc, env[1], p, env[2])

Votes == INSTANCE FoldTheorems WITH Op <- Decide

-----------------------------------------------------------------------------
(* The sort leaves one order. *)

\* Two dates are equal or one is later.
LEMMA DatesAreOrdered ==
    ASSUME NEW d \in Nat \X Nat, NEW e \in Nat \X Nat
    PROVE  IsLater(d, e) \/ IsLater(e, d) \/ d = e
<1>1. d[1] \in Nat /\ d[2] \in Nat /\ e[1] \in Nat /\ e[2] \in Nat
  OBVIOUS
<1>2. d[1] = e[1] /\ d[2] = e[2] => d = e
  OBVIOUS
<1> QED BY <1>1, <1>2 DEF IsLater

\* Of two pending proposals one is judged first: no two have the same date and
\* identifier.
LEMMA BeforeIsTotal ==
    ASSUME NEW props, PendingOK(props), NEW p \in DOMAIN props, NEW q \in DOMAIN props, p # q
    PROVE  Before(props, p, q) \/ Before(props, q, p)
<1>1. p \in Nat /\ q \in Nat
  BY UpdateConstants DEF PendingOK
<1>2. props[p].date \in Nat \X Nat /\ props[q].date \in Nat \X Nat
  BY DEF PendingOK
<1>3. IsLater(props[p].date, props[q].date) \/ IsLater(props[q].date, props[p].date)
      \/ props[p].date = props[q].date
  BY <1>2, DatesAreOrdered
<1> QED BY <1>1, <1>3 DEF Before

\* An order of a finite set lists all of it.
LEMMA OrderIsComplete ==
    ASSUME NEW S, IsFiniteSet(S), NEW order \in SetToSeqs(S), NEW x \in S
    PROVE  \E i \in 1 .. Cardinality(S) : order[i] = x
<1> DEFINE D == 1 .. Cardinality(S)
<1>1. Cardinality(S) \in Nat
  BY FS_CardinalityType
<1>2. order \in [D -> S] /\ \A i, j \in D : i # j => order[i] # order[j]
  BY DEF SetToSeqs
<1>3. order \in Injection(D, S)
  BY <1>2 DEF Injection, IsInjective
<1>4. Cardinality(D) = Cardinality(S) /\ IsFiniteSet(D)
  BY <1>1, FS_Interval
<1> HIDE DEF D
<1>5. order \in Surjection(D, S)
  BY <1>3, <1>4, FS_Injection
<1>6. \E i \in D : order[i] = x
  BY <1>5 DEF Surjection
<1> QED BY <1>6 DEF D

\* So there is one order in which they are judged, whatever the hash map does.
LEMMA OneOrder ==
    ASSUME NEW props, PendingOK(props), NEW o \in SortedProposals(props),
           NEW r \in SortedProposals(props)
    PROVE  o = r
<1> DEFINE S == DOMAIN props
           n == Cardinality(S)
           D == 1 .. n
           differ == {i \in D : o[i] # r[i]}
<1>1. n \in Nat /\ IsFiniteSet(S)
  BY FS_CardinalityType DEF PendingOK
<1>2. /\ o \in SetToSeqs(S) /\ o \in [D -> S] /\ \A i, j \in D : i # j => o[i] # o[j]
      /\ r \in SetToSeqs(S) /\ r \in [D -> S] /\ \A i, j \in D : i # j => r[i] # r[j]
  BY DEF SortedProposals, SetToSeqs
<1>3. \A i, j \in D : i < j => ~Before(props, o[j], o[i]) /\ ~Before(props, r[j], r[i])
  BY <1>2 DEF SortedProposals
<1>4. D \subseteq Nat
  OBVIOUS
<1>5. differ = {}
  <2> SUFFICES ASSUME differ # {} PROVE FALSE
    OBVIOUS
  <2>1. PICK i \in differ : \A k \in differ : i <= k
    BY <1>4, Votes!LeastNatural
  <2>2. i \in D /\ o[i] # r[i] /\ o[i] \in S /\ r[i] \in S
    BY <1>2
  <2>3. PICK k \in D : r[k] = o[i]
    BY <1>1, <1>2, <2>2, OrderIsComplete
  <2>4. PICK l \in D : o[l] = r[i]
    BY <1>1, <1>2, <2>2, OrderIsComplete
  <2>5. i < k
    <3>1. k # i
      BY <2>2, <2>3
    <3>2. ~(k < i)
      <4> SUFFICES ASSUME k < i PROVE FALSE
        OBVIOUS
      <4>1. k \notin differ
        <5>1. k \in Nat /\ i \in Nat
          BY <1>4, <2>2
        <5> QED BY <2>1, <5>1
      <4>2. o[k] = o[i]
        BY <2>3, <4>1
      <4> QED BY <1>2, <2>2, <3>1, <4>2
    <3> QED BY <1>4, <2>2, <3>1, <3>2
  <2>6. i < l
    <3>1. l # i
      BY <2>2, <2>4
    <3>2. ~(l < i)
      <4> SUFFICES ASSUME l < i PROVE FALSE
        OBVIOUS
      <4>1. l \notin differ
        <5>1. l \in Nat /\ i \in Nat
          BY <1>4, <2>2
        <5> QED BY <2>1, <5>1
      <4>2. r[l] = r[i]
        BY <2>4, <4>1
      <4> QED BY <1>2, <2>2, <3>1, <4>2
    <3> QED BY <1>4, <2>2, <3>1, <3>2
  <2>7. ~Before(props, o[i], r[i]) /\ ~Before(props, r[i], o[i])
    BY <1>3, <2>2, <2>3, <2>4, <2>5, <2>6
  <2> QED BY <2>2, <2>7, BeforeIsTotal
<1>6. \A i \in D : o[i] = r[i]
  BY <1>5
<1>7. o \in [D -> S] /\ r \in [D -> S]
  BY <1>2
<1> HIDE DEF D, S
<1> QED BY <1>6, <1>7

-----------------------------------------------------------------------------
(* The loop of process_proposals. *)

\* Whether changes are refused does not depend on the settings.
LEMMA RefusedAnywhere ==
    ASSUME NEW changes, NEW s, NEW t, try_apply(s, changes) # {}
    PROVE  try_apply(t, changes) # {}
<1>1. ~\E i \in DOMAIN changes : ReadOnly(changes[i]) \/ ~ValidCoeff(changes[i])
  BY DEF try_apply
<1> QED BY <1>1 DEF try_apply

\* What the loop keeps true of its accumulator.
AccOK(acc) ==
    /\ acc = [settings |-> acc.settings, expired |-> acc.expired, failed |-> acc.failed]
    /\ acc.failed = FALSE

\* Judging a proposal keeps what the loop relies on.
LEMMA DecideKeeps ==
    ASSUME NEW acc, AccOK(acc), NEW props, PendingOK(props), NEW p \in DOMAIN props, NEW epoch
    PROVE  AccOK(decide(acc, props, p, epoch))
<1>1. try_apply(acc.settings, ChangesOf[p]) # {} /\ acc.failed = FALSE
  BY DEF PendingOK, AccOK
<1>2. CASE Majority(acc.settings, props[p].votes)
  <2> DEFINE s == CHOOSE s \in try_apply(acc.settings, ChangesOf[p]) : TRUE
  <2>1. decide(acc, props, p, epoch)
          = [acc EXCEPT !.settings = s, !.expired = acc.expired \cup {p}]
    BY <1>1, <1>2 DEF decide
  <2> HIDE DEF s
  <2> QED BY <2>1 DEF AccOK
<1>3. CASE ~Majority(acc.settings, props[p].votes)
  <2>1. \/ decide(acc, props, p, epoch) = acc
        \/ decide(acc, props, p, epoch) = [acc EXCEPT !.expired = acc.expired \cup {p}]
    BY <1>1, <1>3 DEF decide
  <2> QED BY <2>1 DEF AccOK
<1> QED BY <1>2, <1>3

\* The changes of a pending proposal can be applied to any settings, so the
\* expect of process_proposals never fails.
LEMMA NoneFails ==
    ASSUME NEW s, NEW props, PendingOK(props), NEW order \in SortedProposals(props),
           NEW prev, NEW new
    PROVE  LET result == process_proposals(s, props, order, prev, new)
           IN  result.failed = FALSE /\ PendingOK(result.pending)
<1> DEFINE start == [settings |-> s, expired |-> {}, failed |-> FALSE]
           env == <<props, Epoch(new)>>
           loop == Votes!Fold(start, order, env)
           result == process_proposals(s, props, order, prev, new)
           n == Cardinality(DOMAIN props)
<1>1. n \in Nat /\ order \in [1 .. n -> DOMAIN props]
  BY FS_CardinalityType DEF PendingOK, SortedProposals, SetToSeqs
<1>2. order \in Seq(DOMAIN props) /\ Len(order) = n
  BY <1>1
<1>3. result = IF Epoch(prev) < Epoch(new)
               THEN [settings |-> loop.settings, failed |-> loop.failed,
                     pending |-> [p \in DOMAIN props \ loop.expired |-> props[p]]]
               ELSE [settings |-> s, failed |-> FALSE, pending |-> props]
  BY DEF process_proposals, Votes!Fold, Votes!Greatest, Decide, FoldLeft, MapThenFoldSet, Max
<1>4. PICK f : Votes!IsLoop(f, start, order, env) /\ loop = f[Len(order)]
  BY <1>2, Votes!FoldIsLoop
<1> DEFINE I == {i \in Nat : AccOK(f[i])}
<1>5. 0 \in I
  BY <1>4 DEF Votes!IsLoop, AccOK
<1>6. env[1] = props /\ env[2] = Epoch(new)
  OBVIOUS
<1> HIDE DEF env, start, result
<1>7. ASSUME NEW i \in Nat, 0 <= i, i < Len(order), i \in I PROVE i + 1 \in I
  <2>1. i + 1 \in 1 .. Len(order) /\ (i + 1) - 1 = i /\ i + 1 \in Nat
    BY <1>1, <1>2, <1>7
  <2>2. f[i + 1] = decide(f[i], props, order[i + 1], Epoch(new))
    BY <1>4, <1>6, <2>1 DEF Votes!IsLoop, Decide
  <2>3. order[i + 1] \in DOMAIN props
    BY <1>1, <1>2, <2>1
  <2>4. AccOK(f[i])
    BY <1>7
  <2> QED BY <2>1, <2>2, <2>3, <2>4, DecideKeeps
<1> HIDE DEF I, loop
<1>8. \A i \in 0 .. Len(order) : i \in I
  BY <1>1, <1>2, <1>5, <1>7, Votes!IntervalInduction
<1>9. Len(order) \in I
  BY <1>1, <1>2, <1>8
<1>10. loop.failed = FALSE
  BY <1>4, <1>9 DEF I, AccOK
<1>11. result.failed = FALSE
  BY <1>3, <1>10
<1>12. PendingOK(result.pending)
  <2>1. PICK gone : result.pending = props
                    \/ result.pending = [p \in DOMAIN props \ gone |-> props[p]]
    BY <1>3
  <2> DEFINE left == [p \in DOMAIN props \ gone |-> props[p]]
  <2>2. DOMAIN left = DOMAIN props \ gone /\ \A p \in DOMAIN left : left[p] = props[p]
    OBVIOUS
  <2>3. IsFiniteSet(DOMAIN left)
    BY <2>2, FS_Subset DEF PendingOK
  <2> HIDE DEF left
  <2>4. PendingOK(left)
    BY <2>2, <2>3 DEF PendingOK
  <2> QED BY <2>1, <2>4 DEF left
<1> QED BY <1>11, <1>12 DEF result

-----------------------------------------------------------------------------
(* The theorems. *)

\* The inductive invariant.
UpdateInv ==
    /\ panicked = {} /\ blockDate \in Nat \X Nat
    /\ \A n \in Nodes : PendingOK(pending[n])
    /\ Agreement

\* The invariant holds at the start.
LEMMA UpdateStarts == UpdateInit => UpdateInv
<1> SUFFICES ASSUME UpdateInit PROVE UpdateInv
  OBVIOUS
<1>1. PendingOK(<<>>)
  BY FS_EmptySet DEF PendingOK
<1>2. \A n \in Nodes : pending[n] = <<>>
  BY DEF UpdateInit
<1>3. PICK s : settings = [n \in Nodes |-> s]
  BY DEF UpdateInit
<1>4. Agreement
  BY <1>2, <1>3 DEF Agreement
<1>5. panicked = {} /\ blockDate \in Nat \X Nat
  BY DEF UpdateInit, GenesisDate
<1> QED BY <1>1, <1>2, <1>4, <1>5 DEF UpdateInv

\* A new block leaves the nodes equal.
LEMMA BlocksAgree ==
    ASSUME UpdateInv, NEW d \in BlockDates, BeginBlock(d)
    PROVE  UpdateInv'
<1>1. PICK order \in [Nodes -> UNION {SortedProposals(pending[n]) : n \in Nodes}] :
        LET result == [n \in Nodes |->
                process_proposals(settings[n], pending[n], order[n], blockDate, d)]
        IN  /\ \A n \in Nodes : order[n] \in SortedProposals(pending[n])
            /\ settings' = [n \in Nodes |-> result[n].settings]
            /\ pending' = [n \in Nodes |-> result[n].pending]
            /\ panicked' = {n \in Nodes : result[n].failed}
  BY DEF BeginBlock
<1> DEFINE R(n) == process_proposals(settings[n], pending[n], order[n], blockDate, d)
<1>2. /\ \A n \in Nodes : order[n] \in SortedProposals(pending[n])
      /\ \A n \in Nodes : settings'[n] = R(n).settings /\ pending'[n] = R(n).pending
      /\ panicked' = {n \in Nodes : R(n).failed}
  BY <1>1
<1>3. \A n \in Nodes : R(n).failed = FALSE /\ PendingOK(R(n).pending)
  BY <1>2, NoneFails DEF UpdateInv
<1>4. ASSUME NEW n \in Nodes, NEW m \in Nodes PROVE R(n) = R(m)
  <2>1. settings[n] = settings[m] /\ pending[n] = pending[m] /\ PendingOK(pending[n])
    BY DEF UpdateInv, Agreement
  <2>2. order[n] = order[m]
    BY <1>2, <2>1, OneOrder
  <2> QED BY <2>1, <2>2
<1> HIDE DEF R
<1>5. Agreement'
  BY <1>2, <1>4 DEF Agreement
<1>6. panicked' = {} /\ \A n \in Nodes : PendingOK(pending'[n])
  BY <1>2, <1>3
<1>7. blockDate' \in Nat \X Nat
  BY UpdateConstants DEF BeginBlock
<1> QED BY <1>5, <1>6, <1>7 DEF UpdateInv

\* A new proposal is entered with its date.
LEMMA ProposalKeepsOK ==
    ASSUME NEW s, NEW props, PendingOK(props), NEW p \in Proposals, NEW d \in Nat \X Nat,
           NEW u \in apply_proposal(s, props, p, d)
    PROVE  PendingOK(u)
<1>1. /\ try_apply(s, ChangesOf[p]) # {}
      /\ u = [q \in DOMAIN props \cup {p} |->
                IF q = p THEN [date |-> d, votes |-> {}] ELSE props[q]]
  BY DEF apply_proposal
<1>2. \A t : try_apply(t, ChangesOf[p]) # {}
  BY <1>1, RefusedAnywhere
<1>3. /\ DOMAIN u = DOMAIN props \cup {p} /\ u[p] = [date |-> d, votes |-> {}]
      /\ \A q \in DOMAIN props : q # p => u[q] = props[q]
  BY <1>1
<1>4. IsFiniteSet(DOMAIN u)
  BY <1>3, FS_AddElement DEF PendingOK
<1>5. ASSUME NEW q \in DOMAIN u
      PROVE  /\ u[q] = [date |-> u[q].date, votes |-> u[q].votes]
             /\ u[q].date \in Nat \X Nat
             /\ \A t : try_apply(t, ChangesOf[q]) # {}
  <2>1. CASE q = p
    BY <1>2, <1>3, <2>1
  <2>2. CASE q # p
    <3>1. q \in DOMAIN props /\ u[q] = props[q]
      BY <1>3, <2>2
    <3> QED BY <3>1 DEF PendingOK
  <2> QED BY <2>1, <2>2
<1>6. DOMAIN u \subseteq Proposals
  BY <1>3 DEF PendingOK
<1> QED BY <1>4, <1>5, <1>6 DEF PendingOK

\* A vote changes no date.
LEMMA VoteKeepsOK ==
    ASSUME NEW s, NEW props, PendingOK(props), NEW p, NEW voter,
           NEW u \in apply_update_vote(s, props, p, voter)
    PROVE  PendingOK(u)
<1> DEFINE votes == props[p].votes \cup {voter}
<1>1. p \in DOMAIN props /\ u = [props EXCEPT ![p].votes = votes]
  BY DEF apply_update_vote
<1>2. u = [props EXCEPT ![p] = [props[p] EXCEPT !.votes = votes]]
  BY <1>1
<1> HIDE DEF votes
<1>3. [props[p] EXCEPT !.votes = votes] = [date |-> props[p].date, votes |-> votes]
  BY <1>1 DEF PendingOK
<1>4. /\ DOMAIN u = DOMAIN props /\ u[p] = [date |-> props[p].date, votes |-> votes]
      /\ \A q \in DOMAIN props : q # p => u[q] = props[q]
  BY <1>1, <1>2, <1>3
<1>5. ASSUME NEW q \in DOMAIN u
      PROVE  u[q] = [date |-> u[q].date, votes |-> u[q].votes] /\ u[q].date = props[q].date
  <2>1. CASE q = p
    BY <1>4, <2>1
  <2>2. CASE q # p
    BY <1>4, <2>2 DEF PendingOK
  <2> QED BY <2>1, <2>2
<1> QED BY <1>4, <1>5 DEF PendingOK

\* Every step keeps the invariant.
LEMMA UpdateStep == UpdateInv /\ [UpdateNext]_updateVars => UpdateInv'
<1> SUFFICES ASSUME UpdateInv, [UpdateNext]_updateVars PROVE UpdateInv'
  OBVIOUS
<1>1. ASSUME NEW d \in BlockDates, BeginBlock(d) PROVE UpdateInv'
  BY <1>1, BlocksAgree
<1>2. ASSUME NEW p \in Proposals, UpdateProposal(p) PROVE UpdateInv'
  <2> DEFINE A(n) == apply_proposal(settings[n], pending[n], p, blockDate)
             U(n) == CHOOSE u \in A(n) : TRUE
  <2>1. /\ \A n \in Nodes : A(n) # {} /\ pending'[n] = U(n)
        /\ UNCHANGED <<blockDate, settings, panicked>>
    BY <1>2 DEF UpdateProposal
  <2>2. ASSUME NEW n \in Nodes PROVE PendingOK(pending'[n])
    <3>1. pending'[n] \in A(n)
      <4> HIDE DEF A
      <4> QED BY <2>1
    <3> QED BY <3>1, ProposalKeepsOK DEF UpdateInv
  <2>3. ASSUME NEW n \in Nodes, NEW m \in Nodes PROVE U(n) = U(m)
    BY DEF UpdateInv, Agreement
  <2> HIDE DEF U
  <2>4. Agreement'
    BY <2>1, <2>3 DEF UpdateInv, Agreement
  <2> QED BY <2>1, <2>2, <2>4 DEF UpdateInv
<1>3. ASSUME NEW p \in Proposals, NEW voter \in Leaders, UpdateVote(p, voter)
      PROVE  UpdateInv'
  <2> DEFINE A(n) == apply_update_vote(settings[n], pending[n], p, voter)
             U(n) == CHOOSE u \in A(n) : TRUE
  <2>1. /\ \A n \in Nodes : A(n) # {} /\ pending'[n] = U(n)
        /\ UNCHANGED <<blockDate, settings, panicked>>
    BY <1>3 DEF UpdateVote
  <2>2. ASSUME NEW n \in Nodes PROVE PendingOK(pending'[n])
    <3>1. pending'[n] \in A(n)
      <4> HIDE DEF A
      <4> QED BY <2>1
    <3> QED BY <3>1, VoteKeepsOK DEF UpdateInv
  <2>3. ASSUME NEW n \in Nodes, NEW m \in Nodes PROVE U(n) = U(m)
    BY DEF UpdateInv, Agreement
  <2> HIDE DEF U
  <2>4. Agreement'
    BY <2>1, <2>3 DEF UpdateInv, Agreement
  <2> QED BY <2>1, <2>2, <2>4 DEF UpdateInv
<1>4. CASE UNCHANGED updateVars
  BY <1>4 DEF UpdateInv, Agreement, updateVars
<1> QED BY <1>1, <1>2, <1>3, <1>4 DEF UpdateNext

\* Nodes that apply the same blocks have the same settings and the same pending
\* proposals after each of them: the order in which a node walks its hash map is
\* lost in the sort of process_proposals, because the sort is by a total order.
THEOREM NodesAgree == UpdateSpec => []Agreement
<1>1. UpdateInv => Agreement
  BY DEF UpdateInv
<1> QED BY <1>1, UpdateStarts, UpdateStep, PTL DEF UpdateSpec

\* process_proposals never runs into its expect: what apply_proposal has let in
\* is not refused later, whatever settings other proposals have made since.
THEOREM NoNodePanics == UpdateSpec => []NeverPanics
<1>1. UpdateInv => NeverPanics
  BY DEF UpdateInv, NeverPanics
<1> QED BY <1>1, UpdateStarts, UpdateStep, PTL DEF UpdateSpec

-----------------------------------------------------------------------------
(* Settings, and who decides on them. *)

\* The expirations that can ever be in force.
Expirations ==
    {InitialExpiration} \cup ExpirationsOf(Proposals)
        \cup {c.value : c \in {c \in Range(Block0Changes) : c.kind = "expiration"}}

\* No expiration moves the end of a proposal past the last epoch, where the sum
\* wraps around and the proposal would expire at once.
EpochsFit ==
    \A d \in BlockDates \cup {GenesisDate}, x \in Expirations : Epoch(d) + x < EpochMod

\* What the decisions rely on in the settings.
SettingsOK(s) ==
    /\ DOMAIN s = {"leaders", "committees", "expiration", "values"}
    /\ s.leaders \in Seq(Leaders) /\ s.expiration \in Expirations /\ s.expiration \in Nat

Keep(kept, x, id) == IF x = id THEN kept ELSE Append(kept, x)

K == INSTANCE FoldTheorems WITH Op <- Keep

\* Removing a leader leaves a list of leaders.
LEMMA RetainedType ==
    ASSUME NEW ids \in Seq(Leaders), NEW id
    PROVE  Retained(ids, id) \in Seq(Leaders)
<1>1. Retained(ids, id) = K!Fold(<<>>, ids, id)
  BY DEF Retained, K!Fold, K!Greatest, Keep, FoldLeft, MapThenFoldSet, Max
<1>2. PICK g : K!IsLoop(g, <<>>, ids, id) /\ K!Fold(<<>>, ids, id) = g[Len(ids)]
  BY K!FoldIsLoop
<1>3. Len(ids) \in Nat /\ \A i \in 1 .. Len(ids) : ids[i] \in Leaders
  OBVIOUS
<1> DEFINE I == {i \in Nat : i <= Len(ids) => g[i] \in Seq(Leaders)}
<1>4. 0 \in I
  <2>1. g[0] = <<>> /\ <<>> \in Seq(Leaders)
    BY <1>2 DEF K!IsLoop
  <2> QED BY <2>1
<1>5. ASSUME NEW i \in Nat, 0 <= i, i < Len(ids), i \in I PROVE i + 1 \in I
  <2>1. i + 1 \in 1 .. Len(ids) /\ i + 1 - 1 = i
    BY <1>3, <1>5
  <2>2. g[i + 1] = Keep(g[i], ids[i + 1], id) /\ g[i] \in Seq(Leaders) /\ ids[i + 1] \in Leaders
    BY <1>2, <1>3, <1>5, <2>1 DEF K!IsLoop
  <2>3. g[i + 1] \in Seq(Leaders)
    BY <2>2 DEF Keep
  <2> QED BY <2>3
<1>6. \A i \in 0 .. Len(ids) : i \in I
  <2> HIDE DEF I
  <2> QED BY <1>3, <1>4, <1>5, K!IntervalInduction
<1>7. g[Len(ids)] \in Seq(Leaders)
  <2>1. Len(ids) \in 0 .. Len(ids) /\ Len(ids) <= Len(ids)
    BY <1>3
  <2> QED BY <1>6, <2>1
<1> QED BY <1>1, <1>2, <1>7

\* A parameter changes the expiration only to its value.
LEMMA ParamKeeps ==
    ASSUME NEW s, SettingsOK(s), NEW param,
           param.kind = "add_leader" => param.id \in Leaders,
           param.kind = "expiration" => param.value \in Expirations \cap Nat
    PROVE  /\ SettingsOK(apply_param(s, param))
           /\ apply_param(s, param).expiration \in
                {s.expiration} \cup {v \in {param.value} : param.kind = "expiration"}
<1> DEFINE t == apply_param(s, param)
<1>1. CASE param.kind = "add_leader"
  <2>1. PICK l, c : l = Append(s.leaders, param.id) /\ c = Append(s.committees, param.id)
    OBVIOUS
  <2>2. t = [s EXCEPT !.leaders = l, !.committees = c]
    BY <1>1, <2>1 DEF apply_param
  <2>3. l \in Seq(Leaders)
    BY <1>1, <2>1 DEF SettingsOK
  <2> QED BY <2>2, <2>3 DEF SettingsOK
<1>2. CASE param.kind = "remove_leader"
  <2>1. PICK l : l = Retained(s.leaders, param.id)
    OBVIOUS
  <2>2. t = [s EXCEPT !.leaders = l]
    BY <1>2, <2>1 DEF apply_param
  <2>3. l \in Seq(Leaders)
    BY <2>1, RetainedType DEF SettingsOK
  <2> QED BY <2>2, <2>3 DEF SettingsOK
<1>3. CASE param.kind = "expiration"
  <2>1. t = [s EXCEPT !.expiration = param.value]
    BY <1>3 DEF apply_param
  <2> QED BY <1>3, <2>1 DEF SettingsOK
<1>4. CASE param.kind \in {"add_committee", "remove_committee"}
  <2>1. PICK c : t = [s EXCEPT !.committees = c]
    BY <1>4 DEF apply_param
  <2> QED BY <2>1 DEF SettingsOK
<1>5. CASE param.kind \notin {"add_leader", "remove_leader", "expiration", "add_committee",
                              "remove_committee"}
  <2>1. PICK v : t = [s EXCEPT !.values = v]
    BY <1>5 DEF apply_param
  <2> QED BY <2>1 DEF SettingsOK
<1> QED BY <1>1, <1>2, <1>3, <1>4, <1>5

\* The expirations a list of config params asks for.
AskedBy(changes) == {c.value : c \in {c \in Range(changes) : c.kind = "expiration"}}

NextParam(s, param, env) == apply_param(s, param)

A == INSTANCE FoldTheorems WITH Op <- NextParam

\* So does a list of them.
LEMMA ParamsKeep ==
    ASSUME NEW s, SettingsOK(s), NEW changes, IsConfig(changes), AskedBy(changes) \subseteq Expirations
    PROVE  LET r == FoldLeft(apply_param, s, changes)
           IN  SettingsOK(r) /\ r.expiration \in {s.expiration} \cup AskedBy(changes)
<1>1. FoldLeft(apply_param, s, changes) = A!Fold(s, changes, 0)
  BY DEF A!Fold, A!Greatest, NextParam, FoldLeft, MapThenFoldSet, Max
<1>2. PICK T : changes \in Seq(T)
  BY DEF IsConfig
<1>3. PICK g : A!IsLoop(g, s, changes, 0) /\ A!Fold(s, changes, 0) = g[Len(changes)]
  BY <1>2, A!FoldIsLoop
<1>4. Len(changes) \in Nat /\ DOMAIN changes = 1 .. Len(changes)
  BY <1>2
<1> DEFINE Good(t) == SettingsOK(t) /\ t.expiration \in {s.expiration} \cup AskedBy(changes)
           I == {i \in Nat : i <= Len(changes) => Good(g[i])}
<1>5. 0 \in I
  BY <1>3 DEF A!IsLoop
<1>6. ASSUME NEW i \in Nat, 0 <= i, i < Len(changes), i \in I PROVE i + 1 \in I
  <2>1. i + 1 \in 1 .. Len(changes) /\ i + 1 - 1 = i /\ i + 1 \in DOMAIN changes
    BY <1>4, <1>6
  <2>2. g[i + 1] = apply_param(g[i], changes[i + 1])
    BY <1>3, <2>1 DEF A!IsLoop, NextParam
  <2>3. Good(g[i])
    BY <1>4, <1>6
  <2>4. PICK param : param = changes[i + 1]
    OBVIOUS
  <2>5. param \in Range(changes)
    BY <2>1, <2>4 DEF Range
  <2>6. param.kind = "expiration" => param.value \in AskedBy(changes)
    BY <2>5 DEF AskedBy
  <2>7. /\ param.kind = "add_leader" => param.id \in Leaders
        /\ param.kind = "expiration" => param.value \in Expirations \cap Nat
    BY <2>1, <2>4, <2>6 DEF IsConfig
  <2>8. /\ SettingsOK(apply_param(g[i], param))
        /\ apply_param(g[i], param).expiration \in
             {g[i].expiration} \cup {v \in {param.value} : param.kind = "expiration"}
    BY <2>3, <2>7, ParamKeeps
  <2>9. Good(g[i + 1])
    BY <2>2, <2>3, <2>4, <2>6, <2>8
  <2> QED BY <2>9
<1>7. \A i \in 0 .. Len(changes) : i \in I
  <2> HIDE DEF I
  <2> QED BY <1>4, <1>5, <1>6, A!IntervalInduction
<1>8. Good(g[Len(changes)])
  <2>1. Len(changes) \in 0 .. Len(changes) /\ Len(changes) <= Len(changes)
    BY <1>4
  <2> QED BY <1>7, <2>1
<1> QED BY <1>1, <1>3, <1>8

\* The changes of a proposal ask for expirations that can be in force.
LEMMA ProposalsAsk ==
    ASSUME NEW p \in Proposals
    PROVE  /\ AskedBy(ChangesOf[p]) \subseteq Expirations
           /\ \A S : p \in S => AskedBy(ChangesOf[p]) \subseteq ExpirationsOf(S)
<1>1. ASSUME NEW S, p \in S PROVE AskedBy(ChangesOf[p]) \subseteq ExpirationsOf(S)
  BY <1>1 DEF AskedBy, ExpirationsOf
<1> QED BY <1>1 DEF Expirations

\* The proposals of more proposals ask for more.
LEMMA AskedGrows ==
    ASSUME NEW S, NEW T, S \subseteq T PROVE ExpirationsOf(S) \subseteq ExpirationsOf(T)
BY DEF ExpirationsOf

\* What a proposal's votes and date are.
VotesOK(props) ==
    \A p \in DOMAIN props :
        IsFiniteSet(props[p].votes) /\ props[p].date \in BlockDates \cup {GenesisDate}

\* p may go: it has votes, or is past an expiration in force in the same block.
MayGo(p, s, props, gone, epoch) ==
    \/ props[p].votes # {}
    \/ \E x \in {s.expiration} \cup ExpirationsOf(gone) : epoch > Epoch(props[p].date) + x

\* What the loop has decided so far, from the settings s.
DecidedOK(acc, s, props, epoch) ==
    /\ AccOK(acc) /\ SettingsOK(acc.settings)
    /\ acc.expired \subseteq DOMAIN props
    /\ acc.settings # s =>
        \E p \in DOMAIN props : 2 * Cardinality(props[p].votes) > Len(s.leaders)
    /\ acc.settings.expiration \in {s.expiration} \cup ExpirationsOf(acc.expired)
    /\ \A p \in acc.expired : MayGo(p, s, props, acc.expired, epoch)

\* A majority has more than half of the leaders, and somebody in it.
LEMMA MajorityIsHalf ==
    ASSUME NEW s, SettingsOK(s), NEW votes, IsFiniteSet(votes), Majority(s, votes)
    PROVE  2 * Cardinality(votes) > Len(s.leaders) /\ votes # {}
<1>1. Len(s.leaders) \in Nat /\ Cardinality(votes) \in Nat
  BY FS_CardinalityType DEF SettingsOK
<1>2. Cardinality(votes) > Len(s.leaders) \div 2
  BY DEF Majority
<1>3. 2 * Cardinality(votes) > Len(s.leaders) /\ Cardinality(votes) > 0
  <2>1. \A n, c \in Nat : c > n \div 2 => 2 * c > n /\ c > 0
    OBVIOUS
  <2> QED BY <1>1, <1>2, <2>1
<1>4. Cardinality({}) = 0
  BY FS_EmptySet
<1> QED BY <1>3, <1>4

\* A proposal expires by the expiration in force when it is judged.
LEMMA ExpiredIsPast ==
    ASSUME EpochsFit, NEW s, SettingsOK(s), NEW proposal,
           proposal.date \in BlockDates \cup {GenesisDate}, NEW epoch \in Nat,
           Expired(s, proposal, epoch)
    PROVE  epoch > Epoch(proposal.date) + s.expiration
<1>1. Epoch(proposal.date) + s.expiration < EpochMod
  BY DEF EpochsFit, SettingsOK
<1>2. Epoch(proposal.date) \in Nat /\ s.expiration \in Nat /\ EpochMod \in Nat \ {0}
  BY UpdateConstants DEF Epoch, GenesisDate, SettingsOK
<1>3. PICK e \in Nat : e = Epoch(proposal.date) + s.expiration
  BY <1>2
<1>4. e % EpochMod = e
  BY <1>1, <1>2, <1>3
<1> QED BY <1>3, <1>4 DEF Expired

\* One proposal that is judged.
LEMMA DecideIsOK ==
    ASSUME EpochsFit, NEW s, SettingsOK(s), NEW props, PendingOK(props), VotesOK(props),
           NEW epoch \in Nat, NEW acc, DecidedOK(acc, s, props, epoch), NEW p \in DOMAIN props
    PROVE  DecidedOK(decide(acc, props, p, epoch), s, props, epoch)
<1> DEFINE more == acc.expired \cup {p}
           now == decide(acc, props, p, epoch)
<1>1. /\ p \in Proposals /\ IsFiniteSet(props[p].votes)
      /\ props[p].date \in BlockDates \cup {GenesisDate}
      /\ try_apply(acc.settings, ChangesOf[p]) # {} /\ acc.failed = FALSE
      /\ SettingsOK(acc.settings) /\ AccOK(now)
  <2>1. AccOK(acc) /\ SettingsOK(acc.settings)
    BY DEF DecidedOK
  <2>2. AccOK(now)
    BY <2>1, DecideKeeps
  <2>3. acc.failed = FALSE
    BY <2>1 DEF AccOK
  <2> QED BY <2>1, <2>2, <2>3 DEF PendingOK, VotesOK
<1>2. /\ ExpirationsOf(acc.expired) \subseteq ExpirationsOf(more)
      /\ \A q \in acc.expired : MayGo(q, s, props, more, epoch)
      /\ more \subseteq DOMAIN props
  <2>1. ExpirationsOf(acc.expired) \subseteq ExpirationsOf(more)
    BY AskedGrows
  <2> HIDE DEF more
  <2>2. \A q \in acc.expired : MayGo(q, s, props, more, epoch)
    BY <2>1 DEF DecidedOK, MayGo
  <2> QED BY <2>1, <2>2 DEF DecidedOK, more
<1>3. CASE Majority(acc.settings, props[p].votes)
  <2>1. try_apply(acc.settings, ChangesOf[p])
          = {FoldLeft(apply_param, acc.settings, ChangesOf[p])}
    BY <1>1 DEF try_apply
  <2>2. PICK t : t = FoldLeft(apply_param, acc.settings, ChangesOf[p])
    OBVIOUS
  <2>3. now = [acc EXCEPT !.settings = t, !.expired = more]
    <3>1. (CHOOSE x \in try_apply(acc.settings, ChangesOf[p]) : TRUE) = t
      BY <2>1, <2>2
    <3> QED BY <1>1, <1>3, <3>1 DEF decide
  <2>4. SettingsOK(t) /\ t.expiration \in {acc.settings.expiration} \cup AskedBy(ChangesOf[p])
    BY <1>1, <2>2, ConfigsAreRead, ProposalsAsk, ParamsKeep
  <2>5. AskedBy(ChangesOf[p]) \subseteq ExpirationsOf(more)
    BY <1>1, ProposalsAsk
  <2>6. 2 * Cardinality(props[p].votes) > Len(acc.settings.leaders) /\ props[p].votes # {}
    BY <1>1, <1>3, MajorityIsHalf
  <2>7. \E q \in DOMAIN props : 2 * Cardinality(props[q].votes) > Len(s.leaders)
    <3>1. CASE acc.settings = s
      BY <2>6, <3>1
    <3>2. CASE acc.settings # s
      BY <3>2 DEF DecidedOK
    <3> QED BY <3>1, <3>2
  <2> HIDE DEF more, now
  <2>8. now.settings = t /\ now.expired = more
    BY <2>3 DEF DecidedOK, AccOK
  <2>9. t.expiration \in {s.expiration} \cup ExpirationsOf(more)
    BY <1>2, <2>4, <2>5 DEF DecidedOK
  <2>10. \A q \in more : MayGo(q, s, props, more, epoch)
    BY <1>2, <2>6 DEF more, MayGo
  <2>11. DecidedOK(now, s, props, epoch)
    BY <1>1, <1>2, <2>4, <2>7, <2>8, <2>9, <2>10 DEF DecidedOK
  <2> QED BY <2>11 DEF now
<1>4. CASE ~Majority(acc.settings, props[p].votes) /\ Expired(acc.settings, props[p], epoch)
  <2>1. now = [acc EXCEPT !.expired = more]
    BY <1>1, <1>4 DEF decide
  <2>2. epoch > Epoch(props[p].date) + acc.settings.expiration
    BY <1>1, <1>4, ExpiredIsPast
  <2> HIDE DEF more, now
  <2>3. now.settings = acc.settings /\ now.expired = more
    BY <2>1 DEF DecidedOK, AccOK
  <2>4. acc.settings.expiration \in {s.expiration} \cup ExpirationsOf(more)
    BY <1>2 DEF DecidedOK
  <2>5. \A q \in more : MayGo(q, s, props, more, epoch)
    <3>1. MayGo(p, s, props, more, epoch)
      BY <2>2, <2>4 DEF MayGo
    <3> QED BY <1>2, <3>1 DEF more
  <2>6. DecidedOK(now, s, props, epoch)
    BY <1>1, <1>2, <2>3, <2>4, <2>5 DEF DecidedOK
  <2> QED BY <2>6 DEF now
<1>5. CASE ~Majority(acc.settings, props[p].votes) /\ ~Expired(acc.settings, props[p], epoch)
  <2>1. now = acc
    BY <1>1, <1>5 DEF decide
  <2> QED BY <2>1
<1> QED BY <1>3, <1>4, <1>5

\* What the first block of an epoch does to settings and proposals.
Judged(result, s, props, prev, new) ==
    LET gone == DOMAIN props \ DOMAIN result.pending IN
    /\ SettingsOK(result.settings) /\ VotesOK(result.pending)
    /\ result.settings # s =>
        /\ Epoch(prev) < Epoch(new)
        /\ \E p \in DOMAIN props : 2 * Cardinality(props[p].votes) > Len(s.leaders)
    /\ \A p \in gone : MayGo(p, s, props, gone, Epoch(new))

\* The whole loop.
LEMMA LoopIsOK ==
    ASSUME EpochsFit, NEW s, SettingsOK(s), NEW props, PendingOK(props), VotesOK(props),
           NEW order \in SortedProposals(props), NEW prev, NEW new \in Nat \X Nat
    PROVE  Judged(process_proposals(s, props, order, prev, new), s, props, prev, new)
<1> DEFINE start == [settings |-> s, expired |-> {}, failed |-> FALSE]
           env == <<props, Epoch(new)>>
           loop == Votes!Fold(start, order, env)
           result == process_proposals(s, props, order, prev, new)
           n == Cardinality(DOMAIN props)
<1>1. n \in Nat /\ order \in [1 .. n -> DOMAIN props]
  BY FS_CardinalityType DEF PendingOK, SortedProposals, SetToSeqs
<1>2. order \in Seq(DOMAIN props) /\ Len(order) = n /\ Epoch(new) \in Nat
  BY <1>1 DEF Epoch
<1>3. result = IF Epoch(prev) < Epoch(new)
               THEN [settings |-> loop.settings, failed |-> loop.failed,
                     pending |-> [p \in DOMAIN props \ loop.expired |-> props[p]]]
               ELSE [settings |-> s, failed |-> FALSE, pending |-> props]
  BY DEF process_proposals, Votes!Fold, Votes!Greatest, Decide, FoldLeft, MapThenFoldSet, Max
<1>4. PICK f : Votes!IsLoop(f, start, order, env) /\ loop = f[Len(order)]
  BY <1>2, Votes!FoldIsLoop
<1> DEFINE I == {i \in Nat : DecidedOK(f[i], s, props, Epoch(new))}
<1>5. 0 \in I
  BY <1>4 DEF Votes!IsLoop, DecidedOK, AccOK
<1>6. env[1] = props /\ env[2] = Epoch(new)
  OBVIOUS
<1> HIDE DEF env, start, result
<1>7. ASSUME NEW i \in Nat, 0 <= i, i < Len(order), i \in I PROVE i + 1 \in I
  <2>1. i + 1 \in 1 .. Len(order) /\ (i + 1) - 1 = i /\ i + 1 \in Nat
    BY <1>1, <1>2, <1>7
  <2>2. f[i + 1] = decide(f[i], props, order[i + 1], Epoch(new))
    BY <1>4, <1>6, <2>1 DEF Votes!IsLoop, Decide
  <2>3. order[i + 1] \in DOMAIN props
    BY <1>1, <1>2, <2>1
  <2>4. DecidedOK(f[i], s, props, Epoch(new))
    BY <1>7
  <2> QED BY <1>2, <2>1, <2>2, <2>3, <2>4, DecideIsOK
<1> HIDE DEF I, loop
<1>8. \A i \in 0 .. Len(order) : i \in I
  BY <1>1, <1>2, <1>5, <1>7, Votes!IntervalInduction
<1>9. Len(order) \in I
  BY <1>1, <1>2, <1>8
<1>10. DecidedOK(loop, s, props, Epoch(new))
  BY <1>4, <1>9 DEF I
<1>11. CASE Epoch(prev) < Epoch(new)
  <2>1. /\ result.settings = loop.settings
        /\ result.pending = [p \in DOMAIN props \ loop.expired |-> props[p]]
    BY <1>3, <1>11
  <2>2. PICK left : left = [p \in DOMAIN props \ loop.expired |-> props[p]]
    OBVIOUS
  <2>3. /\ DOMAIN left = DOMAIN props \ loop.expired
        /\ \A p \in DOMAIN left : left[p] = props[p]
    BY <2>2
  <2>4. DOMAIN props \ DOMAIN left = loop.expired
    BY <1>10, <2>3 DEF DecidedOK
  <2>5. VotesOK(left)
    BY <2>3 DEF VotesOK
  <2> QED BY <1>10, <1>11, <2>1, <2>2, <2>4, <2>5 DEF Judged, DecidedOK, result
<1>12. CASE ~(Epoch(prev) < Epoch(new))
  <2>1. result.settings = s /\ result.pending = props
    BY <1>3, <1>12
  <2> QED BY <2>1 DEF Judged, result
<1> QED BY <1>11, <1>12

-----------------------------------------------------------------------------
(* Decisions. *)

\* The inductive invariant, with what the decisions read.
DecidedInv ==
    /\ UpdateInv /\ blockDate \in BlockDates \cup {GenesisDate}
    /\ \A n \in Nodes : SettingsOK(settings[n]) /\ VotesOK(pending[n])

\* The settings of block0 are settings.
LEMMA DecidedStarts == UpdateInit => DecidedInv
<1> SUFFICES ASSUME UpdateInit PROVE DecidedInv
  OBVIOUS
<1>1. PICK s \in try_apply(DefaultSettings, Block0Changes) : settings = [n \in Nodes |-> s]
  BY DEF UpdateInit
<1>2. s = FoldLeft(apply_param, DefaultSettings, Block0Changes)
  BY <1>1 DEF try_apply
<1>3. AskedBy(Block0Changes) \subseteq Expirations
  BY DEF AskedBy, Expirations
<1>4. SettingsOK(DefaultSettings)
  <2>1. <<>> \in Seq(Leaders) /\ InitialExpiration \in Nat /\ InitialExpiration \in Expirations
    BY UpdateConstants DEF Expirations
  <2> QED BY <2>1 DEF SettingsOK, DefaultSettings
<1>5. SettingsOK(s)
  BY <1>2, <1>3, <1>4, ConfigsAreRead, ParamsKeep
<1>6. \A n \in Nodes : pending[n] = <<>>
  BY DEF UpdateInit
<1>7. VotesOK(<<>>)
  BY DEF VotesOK
<1>8. \A n \in Nodes : SettingsOK(settings[n])
  BY <1>1, <1>5
<1>9. blockDate \in BlockDates \cup {GenesisDate}
  BY DEF UpdateInit
<1> QED BY <1>6, <1>7, <1>8, <1>9, UpdateStarts DEF DecidedInv

\* What DecidedByMajority says of one node.
DecidedAt(n) ==
    /\ settings'[n] # settings[n] =>
        /\ Epoch(blockDate) < Epoch(blockDate')
        /\ \E p \in DOMAIN pending[n] :
            2 * Cardinality(pending[n][p].votes) > Len(settings[n].leaders)
    /\ LET gone == DOMAIN pending[n] \ DOMAIN pending'[n] IN
       \A p \in gone :
        \/ pending[n][p].votes # {}
        \/ \E x \in {settings[n].expiration} \cup ExpirationsOf(gone) :
            Epoch(blockDate') > Epoch(pending[n][p].date) + x

\* A new block decides by majority.
LEMMA BlocksDecide ==
    ASSUME EpochsFit, DecidedInv, NEW d \in BlockDates, BeginBlock(d)
    PROVE  DecidedInv' /\ \A n \in Nodes : DecidedAt(n)
<1>1. PICK order :
        /\ \A n \in Nodes : order[n] \in SortedProposals(pending[n])
        /\ \A n \in Nodes :
            LET r == process_proposals(settings[n], pending[n], order[n], blockDate, d)
            IN  settings'[n] = r.settings /\ pending'[n] = r.pending
  BY DEF BeginBlock
<1>2. blockDate' = d /\ d \in Nat \X Nat
  BY UpdateConstants DEF BeginBlock
<1>3. ASSUME NEW n \in Nodes
      PROVE  SettingsOK(settings'[n]) /\ VotesOK(pending'[n]) /\ DecidedAt(n)
  <2>1. PICK r : r = process_proposals(settings[n], pending[n], order[n], blockDate, d)
    OBVIOUS
  <2>2. settings'[n] = r.settings /\ pending'[n] = r.pending
    BY <1>1, <2>1
  <2>3. PendingOK(pending[n]) /\ SettingsOK(settings[n]) /\ VotesOK(pending[n])
    BY DEF DecidedInv, UpdateInv
  <2>4. Judged(r, settings[n], pending[n], blockDate, d)
    BY <1>1, <1>2, <2>1, <2>3, LoopIsOK
  <2> QED BY <1>2, <2>2, <2>4 DEF Judged, MayGo, DecidedAt
<1>4. UpdateInv'
  BY BlocksAgree DEF DecidedInv
<1> QED BY <1>2, <1>3, <1>4 DEF DecidedInv

\* A proposal is entered with the date of a block and without votes.
LEMMA ProposalHasVotes ==
    ASSUME NEW s, NEW props, VotesOK(props), NEW p, NEW d \in BlockDates \cup {GenesisDate},
           NEW u \in apply_proposal(s, props, p, d)
    PROVE  VotesOK(u) /\ DOMAIN props \subseteq DOMAIN u
<1>1. u = [q \in DOMAIN props \cup {p} |->
            IF q = p THEN [date |-> d, votes |-> {}] ELSE props[q]]
  BY DEF apply_proposal
<1>2. /\ DOMAIN u = DOMAIN props \cup {p} /\ u[p].date = d /\ u[p].votes = {}
      /\ \A q \in DOMAIN props : q # p => u[q] = props[q]
  BY <1>1
<1>3. IsFiniteSet({})
  BY FS_EmptySet
<1> QED BY <1>2, <1>3 DEF VotesOK

\* A vote adds one voter.
LEMMA VoteHasVotes ==
    ASSUME NEW s, NEW props, VotesOK(props), PendingOK(props), NEW p, NEW voter,
           NEW u \in apply_update_vote(s, props, p, voter)
    PROVE  VotesOK(u) /\ DOMAIN props = DOMAIN u
<1> DEFINE votes == props[p].votes \cup {voter}
<1>1. p \in DOMAIN props /\ u = [props EXCEPT ![p].votes = votes]
  BY DEF apply_update_vote
<1>2. u = [props EXCEPT ![p] = [props[p] EXCEPT !.votes = votes]]
  BY <1>1
<1>3. IsFiniteSet(votes)
  BY <1>1, FS_AddElement DEF VotesOK
<1> HIDE DEF votes
<1>4. [props[p] EXCEPT !.votes = votes] = [date |-> props[p].date, votes |-> votes]
  BY <1>1 DEF PendingOK
<1>5. /\ DOMAIN u = DOMAIN props /\ u[p] = [date |-> props[p].date, votes |-> votes]
      /\ \A q \in DOMAIN props : q # p => u[q] = props[q]
  BY <1>1, <1>2, <1>4
<1>6. ASSUME NEW q \in DOMAIN u
      PROVE  IsFiniteSet(u[q].votes) /\ u[q].date \in BlockDates \cup {GenesisDate}
  <2>1. CASE q = p
    BY <1>1, <1>3, <1>5, <2>1 DEF VotesOK
  <2>2. CASE q # p
    BY <1>5, <2>2 DEF VotesOK
  <2> QED BY <2>1, <2>2
<1> QED BY <1>5, <1>6 DEF VotesOK

\* Fragments decide nothing.
LEMMA NothingDecided ==
    ASSUME DecidedInv, UpdateInv', UNCHANGED <<blockDate, settings>>,
           \A n \in Nodes : VotesOK(pending'[n]) /\ DOMAIN pending[n] \subseteq DOMAIN pending'[n]
    PROVE  DecidedInv' /\ \A n \in Nodes : DecidedAt(n)
BY DEF DecidedInv, DecidedAt

\* Every step keeps the invariant and decides by majority.
LEMMA DecidedStep ==
    ASSUME EpochsFit, DecidedInv, [UpdateNext]_updateVars
    PROVE  DecidedInv' /\ \A n \in Nodes : DecidedAt(n)
<1>1. UpdateInv'
  BY UpdateStep DEF DecidedInv
<1>2. ASSUME NEW d \in BlockDates, BeginBlock(d) PROVE DecidedInv' /\ \A n \in Nodes : DecidedAt(n)
  BY <1>2, BlocksDecide
<1>3. ASSUME NEW p \in Proposals, UpdateProposal(p)
      PROVE  DecidedInv' /\ \A n \in Nodes : DecidedAt(n)
  <2>1. UNCHANGED <<blockDate, settings>>
    BY <1>3 DEF UpdateProposal
  <2>2. ASSUME NEW n \in Nodes
        PROVE  VotesOK(pending'[n]) /\ DOMAIN pending[n] \subseteq DOMAIN pending'[n]
    <3>1. pending'[n] \in apply_proposal(settings[n], pending[n], p, blockDate)
      BY <1>3 DEF UpdateProposal
    <3> QED BY <3>1, ProposalHasVotes DEF DecidedInv
  <2> QED BY <1>1, <2>1, <2>2, NothingDecided
<1>4. ASSUME NEW p \in Proposals, NEW voter \in Leaders, UpdateVote(p, voter)
      PROVE  DecidedInv' /\ \A n \in Nodes : DecidedAt(n)
  <2>1. UNCHANGED <<blockDate, settings>>
    BY <1>4 DEF UpdateVote
  <2>2. ASSUME NEW n \in Nodes
        PROVE  VotesOK(pending'[n]) /\ DOMAIN pending[n] \subseteq DOMAIN pending'[n]
    <3>1. pending'[n] \in apply_update_vote(settings[n], pending[n], p, voter)
      BY <1>4 DEF UpdateVote
    <3> QED BY <3>1, VoteHasVotes DEF DecidedInv, UpdateInv
  <2> QED BY <1>1, <2>1, <2>2, NothingDecided
<1>5. CASE UNCHANGED updateVars
  <2>1. \A n \in Nodes : VotesOK(pending'[n]) /\ DOMAIN pending[n] \subseteq DOMAIN pending'[n]
    BY <1>5 DEF updateVars, DecidedInv
  <2> QED BY <1>1, <1>5, <2>1, NothingDecided DEF updateVars
<1> QED BY <1>2, <1>3, <1>4, <1>5 DEF UpdateNext

\* If no epoch is so late that the sum of process_proposals wraps, settings change
\* only in the first block of an epoch and only if some pending proposal has the
\* votes of more than half of the leaders, and a proposal without votes stays
\* until it has expired, whatever else is decided in the same block.
THEOREM MajorityDecides == ASSUME EpochsFit PROVE UpdateSpec => DecidedByMajority
<1>1. ASSUME DecidedInv, [UpdateNext]_updateVars PROVE DecidedInv' /\ [\A n \in Nodes : DecidedAt(n)]_updateVars
  BY <1>1, DecidedStep
<1>2. [][\A n \in Nodes : DecidedAt(n)]_updateVars <=> DecidedByMajority
  BY DEF DecidedByMajority, DecidedAt
<1> QED BY <1>1, <1>2, DecidedStarts, PTL DEF UpdateSpec
=============================================================================
