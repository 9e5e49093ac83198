--------------------------- MODULE VotePlanProofs ---------------------------
(***************************************************************************)
(* Theorems about vote plans, for every set of plans, accounts, choices    *)
(* and dates: a tally counts the votes its plan holds, votes are kept, and *)
(* the pots change only as approved proposals ask for.                     *)
(***************************************************************************)
EXTENDS VotePlan, TLAPS

Manager(id, i) == plans[id].managers[i]

\* Dates are pairs of numbers and the block being applied is not in the past.
DatesInv ==
    /\ date \in Nat \X Nat
    /\ block \in Nat \X Nat
    /\ ~Later(date, block)

\* A manager is a record of votes and a tally, and a tally that was taken
\* holds a result.
IsManager(m) ==
    /\ m = [votes |-> m.votes, tally |-> m.tally]
    /\ m.tally.state # "none" =>
        m.tally = [state |-> m.tally.state, result |-> m.tally.result]

IsPlan(p) ==
    /\ p = [committee |-> p.committee, managers |-> p.managers]
    /\ p.managers = [i \in DOMAIN p.managers |-> p.managers[i]]

ShapeInv ==
    /\ DOMAIN plans \subseteq Plans
    /\ plans = [id \in DOMAIN plans |-> plans[id]]
    /\ \A id \in DOMAIN plans :
        /\ IsPlan(plans[id])
        /\ \A i \in DOMAIN plans[id].managers : IsManager(Manager(id, i))

\* A tally is taken only after the end of the vote, as the last finished block
\* has it, and holds the weights of the votes that are recorded now.
CountedInv ==
    \A id \in DOMAIN plans : \A i \in DOMAIN plans[id].managers :
        Manager(id, i).tally.state # "none" =>
            /\ vote_finished(id, date)
            /\ Manager(id, i).tally.result =
                Weights(Manager(id, i).votes, Proposal(id, i).options)

TallyInv == DatesInv /\ ShapeInv /\ CountedInv

\* Dates are totally ordered by Later; once a plan's vote has finished it has
\* finished at every later date.
LEMMA FinishedStays ==
    ASSUME NEW id \in Plans, NEW d \in Nat \X Nat, NEW e \in Nat \X Nat,
           vote_finished(id, d), ~Later(d, e)
    PROVE  vote_finished(id, e)
  BY DateConstants DEF vote_finished, Later

\* The initial state satisfies the invariant: there are no plans.
LEMMA TallyInvInit == Init => TallyInv
  <1> SUFFICES ASSUME Init PROVE TallyInv
    OBVIOUS
  <1>1. DatesInv
    BY DEF Init, Block0Date, DatesInv, Later
  <1>2. DOMAIN plans = {}
    BY DEF Init
  <1>3. plans = [id \in DOMAIN plans |-> plans[id]]
    BY DEF Init
  <1> QED BY <1>1, <1>2, <1>3 DEF TallyInv, ShapeInv, CountedInv

\* Dates only grow: the date of the last finished block never goes back.
LEMMA DatesStep ==
    ASSUME DatesInv, [Next]_vars
    PROVE  DatesInv' /\ ~Later(date, date')
  <1>1. CASE \E d \in Dates : begin_block(d)
    BY <1>1, DateConstants DEF DatesInv, begin_block, Later
  <1>2. CASE finish
    BY <1>2 DEF DatesInv, finish, InBlock, Later
  <1>3. CASE UNCHANGED <<date, block>>
    BY <1>3 DEF DatesInv, Later
  <1>4. Next => \/ \E d \in Dates : begin_block(d)
                \/ finish
                \/ UNCHANGED <<date, block>>
    BY DEF Next, apply_protocol_changes, apply_vote_plan, apply_vote_cast,
           apply_vote_tally, apply_encrypted_vote_tally
  <1> QED BY <1>1, <1>2, <1>3, <1>4 DEF vars

\* A step that leaves the plans alone preserves the invariant: a tally stays
\* after the end of its vote as dates grow.
LEMMA PlansUnchanged ==
    ASSUME TallyInv, [Next]_vars, UNCHANGED plans
    PROVE  ShapeInv' /\ CountedInv'
  <1>1. ShapeInv'
    BY DEF TallyInv, ShapeInv, Manager
  <1>2. CountedInv'
    <2> SUFFICES ASSUME NEW id \in DOMAIN plans,
                        NEW i \in DOMAIN plans[id].managers,
                        Manager(id, i).tally.state # "none"
                 PROVE  vote_finished(id, date')
      BY DEF TallyInv, CountedInv, Manager
    <2>1. vote_finished(id, date) /\ id \in Plans
      BY DEF TallyInv, CountedInv, ShapeInv
    <2>2. date \in Nat \X Nat /\ date' \in Nat \X Nat /\ ~Later(date, date')
      BY DatesStep DEF TallyInv, DatesInv
    <2> QED BY <2>1, <2>2, FinishedStays
  <1> QED BY <1>1, <1>2

\* A new plan has no tally.
LEMMA PlanStep ==
    ASSUME TallyInv, NEW id \in Plans, NEW signer, apply_vote_plan(id, signer)
    PROVE  ShapeInv' /\ CountedInv'
  <1> DEFINE new == [committee |-> CommitteeOf(id),
                     managers |-> [i \in DOMAIN PlanOf[id].proposals |-> NewManager]]
  <1>1. /\ id \notin DOMAIN plans /\ date' = date
        /\ plans' = [p \in DOMAIN plans \cup {id} |-> IF p # id THEN plans[p] ELSE new]
    BY DEF apply_vote_plan, add_vote_plan, PlanManagerNew, ManagersNew
  <1>2. /\ DOMAIN plans' = DOMAIN plans \cup {id}
        /\ plans'[id] = new
        /\ \A p \in DOMAIN plans : plans'[p] = plans[p]
        /\ plans' = [p \in DOMAIN plans' |-> plans'[p]]
    BY <1>1
  <1>3. /\ IsPlan(new)
        /\ \A i \in DOMAIN new.managers : new.managers[i] = NewManager
    BY DEF IsPlan
  <1>4. IsManager(NewManager) /\ NewManager.tally.state = "none"
    BY DEF IsManager, NewManager, NoTally
  <1> HIDE DEF new
  <1>5. ShapeInv'
    BY <1>2, <1>3, <1>4 DEF TallyInv, ShapeInv, Manager
  <1>6. CountedInv'
    BY <1>1, <1>2, <1>3, <1>4 DEF TallyInv, CountedInv, Manager
  <1> QED BY <1>5, <1>6

\* A step that gives one plan other managers preserves the invariant when
\* every tally among them is taken after the vote and counts their votes.
LEMMA ManagersStep ==
    ASSUME TallyInv, NEW id \in DOMAIN plans, NEW ms, date' = date,
           plans' = [plans EXCEPT ![id].managers = ms],
           ms = [i \in DOMAIN ms |-> ms[i]],
           \A i \in DOMAIN ms :
            /\ IsManager(ms[i])
            /\ ms[i].tally.state # "none" =>
                /\ vote_finished(id, date)
                /\ ms[i].tally.result = Weights(ms[i].votes, Proposal(id, i).options)
    PROVE  ShapeInv' /\ CountedInv'
  <1>1. /\ DOMAIN plans' = DOMAIN plans
        /\ \A p \in DOMAIN plans : p # id => plans'[p] = plans[p]
        /\ plans' = [p \in DOMAIN plans' |-> plans'[p]]
    OBVIOUS
  <1>2. plans'[id] = [plans[id] EXCEPT !.managers = ms]
    OBVIOUS
  <1>3. plans'[id] = [committee |-> plans[id].committee, managers |-> ms]
    <2>1. plans[id] = [committee |-> plans[id].committee, managers |-> plans[id].managers]
      BY DEF TallyInv, ShapeInv, IsPlan
    <2> QED BY <1>2, <2>1
  <1>4. plans'[id].managers = ms /\ IsPlan(plans'[id])
    BY <1>3 DEF IsPlan
  <1>5. ShapeInv'
    BY <1>1, <1>4 DEF TallyInv, ShapeInv, Manager
  <1>6. CountedInv'
    BY <1>1, <1>4 DEF TallyInv, CountedInv, Manager
  <1> QED BY <1>5, <1>6

\* What a vote makes of the manager of its proposal.
Cast(id, a, i, c) ==
    [votes |-> [v \in DOMAIN Manager(id, i).votes \cup {a} |->
                    IF v = a THEN c ELSE Manager(id, i).votes[v]],
     tally |-> Manager(id, i).tally]

\* Setting the votes of a manager leaves its tally alone.
LEMMA SetVotes ==
    ASSUME NEW m, m = [votes |-> m.votes, tally |-> m.tally], NEW new
    PROVE  [m EXCEPT !.votes = new] = [votes |-> new, tally |-> m.tally]
  OBVIOUS

\* What a vote changes: the votes of one manager, who has no tally because the
\* vote has not finished.
LEMMA CastChanges ==
    ASSUME TallyInv, NEW id \in Plans, NEW a, NEW i, NEW c,
           apply_vote_cast(id, a, i, c)
    PROVE  /\ id \in DOMAIN plans /\ i \in DOMAIN plans[id].managers
           /\ date' = date /\ ~vote_finished(id, date)
           /\ a \notin DOMAIN Manager(id, i).votes
           /\ plans' = [plans EXCEPT ![id].managers = ManagersVote(id, a, i, c)]
           /\ DOMAIN ManagersVote(id, a, i, c) = DOMAIN plans[id].managers
           /\ ManagersVote(id, a, i, c) =
                [j \in DOMAIN plans[id].managers |->
                    IF j = i THEN Cast(id, a, i, c) ELSE Manager(id, j)]
  <1> DEFINE new == [v \in DOMAIN Manager(id, i).votes \cup {a} |->
                        IF v = a THEN c ELSE Manager(id, i).votes[v]]
  <1>1. /\ id \in DOMAIN plans /\ i \in DOMAIN plans[id].managers
        /\ date' = date /\ ~vote_finished(id, date)
        /\ a \notin DOMAIN Manager(id, i).votes
        /\ plans' = [plans EXCEPT ![id].managers = ManagersVote(id, a, i, c)]
    BY DEF apply_vote_cast, apply_vote, PlanVote, can_vote, validate_vote, NotVoted,
           validate_public_vote, validate_private_vote, ManagersOf, Manager, SetManagers
  <1>2. Manager(id, i) = [votes |-> Manager(id, i).votes, tally |-> Manager(id, i).tally]
    BY <1>1 DEF TallyInv, ShapeInv, IsManager
  <1>3. [Manager(id, i) EXCEPT !.votes = new] = [votes |-> new, tally |-> Manager(id, i).tally]
    BY <1>2, SetVotes
  <1>4. ProposalVote(Manager(id, i), a, c) = Cast(id, a, i, c)
    BY <1>3 DEF ProposalVote, Cast
  <1>5. plans[id].managers = [j \in DOMAIN plans[id].managers |-> Manager(id, j)]
    BY <1>1 DEF TallyInv, ShapeInv, IsPlan, Manager
  <1>6. ManagersVote(id, a, i, c) =
          [plans[id].managers EXCEPT ![i] = ProposalVote(Manager(id, i), a, c)]
    BY <1>1 DEF ManagersVote, ManagersOf, Manager
  <1>7. ManagersVote(id, a, i, c) =
          [j \in DOMAIN plans[id].managers |->
              IF j = i THEN Cast(id, a, i, c) ELSE Manager(id, j)]
    BY <1>4, <1>5, <1>6
  <1> QED BY <1>1, <1>7

\* A vote preserves the invariant.
LEMMA CastStep ==
    ASSUME TallyInv, NEW id \in Plans, NEW a, NEW i, NEW c,
           apply_vote_cast(id, a, i, c)
    PROVE  ShapeInv' /\ CountedInv'
  <1> DEFINE ms == ManagersVote(id, a, i, c)
  <1>1. /\ id \in DOMAIN plans /\ i \in DOMAIN plans[id].managers
        /\ date' = date /\ ~vote_finished(id, date)
        /\ plans' = [plans EXCEPT ![id].managers = ms]
        /\ DOMAIN ms = DOMAIN plans[id].managers
        /\ ms = [j \in DOMAIN plans[id].managers |->
                  IF j = i THEN Cast(id, a, i, c) ELSE Manager(id, j)]
    BY CastChanges
  <1> HIDE DEF ms
  <1>2. \A j \in DOMAIN plans[id].managers :
            IsManager(Manager(id, j)) /\ Manager(id, j).tally.state = "none"
    BY <1>1 DEF TallyInv, ShapeInv, CountedInv
  <1>3. IsManager(Cast(id, a, i, c)) /\ Cast(id, a, i, c).tally.state = "none"
    BY <1>1, <1>2 DEF IsManager, Cast
  <1>4. \A j \in DOMAIN ms : IsManager(ms[j]) /\ ms[j].tally.state = "none"
    BY <1>1, <1>2, <1>3
  <1>5. ms = [j \in DOMAIN ms |-> ms[j]]
    BY <1>1
  <1> QED BY <1>1, <1>4, <1>5, ManagersStep

\* What a tally, public or encrypted, makes of a manager.
Tallied(id, i, state) ==
    [votes |-> Manager(id, i).votes,
     tally |-> [state |-> state,
                result |-> Weights(Manager(id, i).votes, Proposal(id, i).options)]]

\* Setting the tally of a manager leaves its votes alone.
LEMMA SetTally ==
    ASSUME NEW m, m = [votes |-> m.votes, tally |-> m.tally], NEW t
    PROVE  [m EXCEPT !.tally = t] = [votes |-> m.votes, tally |-> t]
  OBVIOUS

\* Both kinds of tally take the place of the managers' tallies, in committee
\* time and so after the vote.
LEMMA TallyStep ==
    ASSUME TallyInv, NEW id \in Plans, NEW signer, NEW state,
           id \in DOMAIN plans, date' = date,
           \/ state = "public" /\ public_tally(id, signer)
           \/ state = "encrypted" /\ start_private_tally(id, signer)
    PROVE  /\ plans' = [plans EXCEPT ![id].managers =
                [i \in DOMAIN plans[id].managers |-> Tallied(id, i, state)]]
           /\ ShapeInv' /\ CountedInv'
  <1> DEFINE ms == [i \in DOMAIN plans[id].managers |-> Tallied(id, i, state)]
             t(i) == [state |-> state,
                      result |-> Weights(Manager(id, i).votes, Proposal(id, i).options)]
             es == [i \in DOMAIN plans[id].managers |->
                        [plans[id].managers[i] EXCEPT !.tally = t(i)]]
  <1>1. vote_finished(id, date)
    BY DEF public_tally, start_private_tally, committee_time, vote_finished
  <1>2. plans' = [plans EXCEPT ![id].managers = es]
    <2>1. CASE state = "public" /\ public_tally(id, signer)
      BY <2>1 DEF public_tally, SetManagers, ManagersTally, ProposalTally, new_public,
                  ManagersOf, OptionsOf, Manager
    <2>2. CASE state = "encrypted" /\ start_private_tally(id, signer)
      BY <2>2 DEF start_private_tally, SetManagers, ManagersPrivateTally, private_tally,
                  new_private, ManagersOf, OptionsOf, Manager
    <2> QED BY <2>1, <2>2
  <1>3. ASSUME NEW i \in DOMAIN plans[id].managers
        PROVE  [plans[id].managers[i] EXCEPT !.tally = t(i)] = Tallied(id, i, state)
    <2>1. Manager(id, i) = [votes |-> Manager(id, i).votes, tally |-> Manager(id, i).tally]
      BY <1>1 DEF TallyInv, ShapeInv, IsManager
    <2>2. [Manager(id, i) EXCEPT !.tally = t(i)]
            = [votes |-> Manager(id, i).votes, tally |-> t(i)]
      BY <2>1, SetTally
    <2> QED BY <2>2 DEF Tallied, Manager
  <1>4. plans' = [plans EXCEPT ![id].managers = ms]
    <2>1. es = ms
      BY <1>3
    <2> QED BY <1>2, <2>1
  <1>5. \A i \in DOMAIN ms :
            /\ IsManager(ms[i])
            /\ ms[i].tally.result = Weights(ms[i].votes, Proposal(id, i).options)
    BY DEF IsManager, Tallied
  <1>6. ms = [i \in DOMAIN ms |-> ms[i]]
    OBVIOUS
  <1> HIDE DEF ms
  <1>7. ShapeInv' /\ CountedInv'
    BY <1>1, <1>4, <1>5, <1>6, ManagersStep
  <1> QED BY <1>4, <1>7 DEF ms

\* What the end of a private tally makes of a manager.
Decrypted(id, i) ==
    [votes |-> Manager(id, i).votes,
     tally |-> [state |-> "decrypted", result |-> Manager(id, i).tally.result]]

\* The end of a private tally renames the state of the tallies of the first n
\* managers, which were taken when the encrypted sums were fixed, and drops
\* the other managers.
LEMMA DecryptStep ==
    ASSUME TallyInv, NEW id \in DOMAIN plans, NEW n, date' = date,
           finalize_private_tally(id, n)
    PROVE  /\ plans' = [plans EXCEPT ![id].managers = [i \in 1 .. n |-> Decrypted(id, i)]]
           /\ 1 .. n \subseteq DOMAIN plans[id].managers
           /\ ShapeInv' /\ CountedInv'
  <1> DEFINE ms == [i \in 1 .. n |-> Decrypted(id, i)]
             es == [i \in 1 .. n |-> ProposalFinalize(Manager(id, i))]
  <1>1. /\ 1 .. n \subseteq DOMAIN plans[id].managers
        /\ \A i \in 1 .. n : Manager(id, i).tally.state = "encrypted"
        /\ plans' = [plans EXCEPT ![id].managers = es]
    BY DEF finalize_private_tally, private_encrypted, SetManagers, ManagersFinalize,
           ManagersOf, Manager
  <1>2. ASSUME NEW i \in 1 .. n
        PROVE  ProposalFinalize(Manager(id, i)) = Decrypted(id, i)
    <2> DEFINE m == Manager(id, i)
    <2>1. IsManager(m) /\ m.tally.state = "encrypted"
      BY <1>1 DEF TallyInv, ShapeInv, Manager
    <2>2. /\ m = [votes |-> m.votes, tally |-> m.tally]
          /\ m.tally = [state |-> m.tally.state, result |-> m.tally.result]
      BY <2>1 DEF IsManager
    <2> HIDE DEF m
    <2>3. ProposalFinalize(m) = [m EXCEPT !.tally = [m.tally EXCEPT !.state = "decrypted"]]
      BY <2>2 DEF ProposalFinalize, private_set_result
    <2>4. [m.tally EXCEPT !.state = "decrypted"]
            = [state |-> "decrypted", result |-> m.tally.result]
      BY <2>2
    <2>5. ProposalFinalize(m)
            = [votes |-> m.votes,
               tally |-> [state |-> "decrypted", result |-> m.tally.result]]
      BY <2>2, <2>3, <2>4, SetTally
    <2> QED BY <2>5 DEF m, Decrypted
  <1>3. plans' = [plans EXCEPT ![id].managers = ms]
    <2>1. es = ms
      BY <1>2
    <2> QED BY <1>1, <2>1
  <1>4. \A i \in DOMAIN ms :
            /\ IsManager(ms[i])
            /\ vote_finished(id, date)
            /\ ms[i].tally.result = Weights(ms[i].votes, Proposal(id, i).options)
    <2> SUFFICES ASSUME NEW i \in 1 .. n
                 PROVE  /\ IsManager(Decrypted(id, i))
                        /\ vote_finished(id, date)
                        /\ Decrypted(id, i).tally.result =
                            Weights(Decrypted(id, i).votes, Proposal(id, i).options)
      OBVIOUS
    <2>1. IsManager(Decrypted(id, i))
      BY DEF IsManager, Decrypted
    <2>2. /\ vote_finished(id, date)
          /\ Manager(id, i).tally.result =
                Weights(Manager(id, i).votes, Proposal(id, i).options)
      BY <1>1 DEF TallyInv, CountedInv
    <2> QED BY <2>1, <2>2 DEF Decrypted
  <1>5. ms = [i \in DOMAIN ms |-> ms[i]]
    OBVIOUS
  <1> HIDE DEF ms
  <1>6. ShapeInv' /\ CountedInv'
    BY <1>1, <1>3, <1>4, <1>5, ManagersStep
  <1> QED BY <1>1, <1>3, <1>6 DEF ms

\* A VoteTally fragment is a public tally or the end of a private one.
LEMMA TallyCases ==
    ASSUME NEW id, NEW proof, apply_vote_tally(id, proof)
    PROVE  /\ id \in DOMAIN plans /\ date' = date
           /\ public_tally(id, proof.signer) \/ finalize_private_tally(id, proof.decrypted)
  BY DEF apply_vote_tally, apply_committee_result

\* An EncryptedVoteTally fragment starts a private tally.
LEMMA EncryptedCase ==
    ASSUME NEW id, NEW signer, apply_encrypted_vote_tally(id, signer)
    PROVE  id \in DOMAIN plans /\ date' = date /\ start_private_tally(id, signer)
  BY DEF apply_encrypted_vote_tally, apply_encrypted_tally

\* Every step preserves the invariant.
LEMMA TallyInvStep == TallyInv /\ [Next]_vars => TallyInv'
  <1> SUFFICES ASSUME TallyInv, [Next]_vars PROVE TallyInv'
    OBVIOUS
  <1>1. DatesInv'
    BY DatesStep DEF TallyInv
  <1>2. ShapeInv' /\ CountedInv'
    <2>1. CASE UNCHANGED plans
      BY <2>1, PlansUnchanged
    <2>2. CASE \E id \in Plans, signer \in Accounts \cup Committees :
                 apply_vote_plan(id, signer)
      BY <2>2, PlanStep
    <2>3. CASE \E id \in Plans, a \in Accounts, c \in CastChoices :
                 \E i \in DOMAIN PlanOf[id].proposals : apply_vote_cast(id, a, i, c)
      BY <2>3, CastStep
    <2>4. ASSUME NEW id \in Plans, NEW proof, apply_vote_tally(id, proof)
          PROVE  ShapeInv' /\ CountedInv'
      BY <2>4, TallyCases, TallyStep, DecryptStep
    <2>5. CASE \E id \in Plans : \E proof \in TallyProofs(id) : apply_vote_tally(id, proof)
      BY <2>5, <2>4
    <2>6. CASE \E id \in Plans, signer \in Accounts \cup Committees :
                 apply_encrypted_vote_tally(id, signer)
      BY <2>6, EncryptedCase, TallyStep
    <2>7. CASE \/ \E d \in Dates : begin_block(d)
               \/ finish
               \/ apply_protocol_changes
      BY <2>7, <2>1 DEF begin_block, finish, apply_protocol_changes
    <2> QED BY <2>1, <2>2, <2>3, <2>5, <2>6, <2>7 DEF Next, vars
  <1> QED BY <1>1, <1>2 DEF TallyInv

\* A tally, public or private, counts every vote that its proposal holds: no
\* vote is recorded once the votes were counted (VoteCast is judged by the
\* same date as VoteTally), and the end of a private tally publishes what was
\* counted when the encrypted sums were fixed.
THEOREM TallySound == Spec => []TallyCountsAllVotes
  <1>1. TallyInv => TallyCountsAllVotes
    <2> SUFFICES ASSUME TallyInv, NEW id \in DOMAIN plans,
                        NEW i \in DOMAIN plans[id].managers,
                        Manager(id, i).tally.state # "none",
                        NEW c \in 0 .. Proposal(id, i).options - 1
                 PROVE  Manager(id, i).tally.result[c] =
                          WeightOf({a \in DOMAIN Manager(id, i).votes :
                                      Manager(id, i).votes[a] = c})
      BY DEF TallyCountsAllVotes, Ballots, Manager
    <2>1. Manager(id, i).tally.result =
            Weights(Manager(id, i).votes, Proposal(id, i).options)
      BY DEF TallyInv, CountedInv
    <2> QED BY <2>1 DEF Weights
  <1> QED BY <1>1, TallyInvInit, TallyInvStep, PTL DEF Spec

\* The managers and votes that a step keeps of the plan with this id.
PlanKept(id) ==
    /\ ~PlanOf[id].private => DOMAIN plans'[id].managers = DOMAIN plans[id].managers
    /\ \A i \in DOMAIN plans[id].managers \cap DOMAIN plans'[id].managers :
        \A a \in DOMAIN plans[id].managers[i].votes :
            /\ a \in DOMAIN plans'[id].managers[i].votes
            /\ plans'[id].managers[i].votes[a] = plans[id].managers[i].votes[a]

\* A step that gives one plan other managers that have the votes of the old
\* ones keeps the votes of every plan.
LEMMA ManagersKept ==
    ASSUME TallyInv, NEW id \in DOMAIN plans, NEW ms,
           plans' = [plans EXCEPT ![id].managers = ms],
           ~PlanOf[id].private => DOMAIN ms = DOMAIN plans[id].managers,
           \A i \in DOMAIN ms \cap DOMAIN plans[id].managers :
              \A a \in DOMAIN Manager(id, i).votes :
                a \in DOMAIN ms[i].votes /\ ms[i].votes[a] = Manager(id, i).votes[a]
    PROVE  \A p \in DOMAIN plans : PlanKept(p)
  <1>1. plans[id] = [committee |-> plans[id].committee, managers |-> plans[id].managers]
    BY DEF TallyInv, ShapeInv, IsPlan
  <1>2. plans'[id] = [plans[id] EXCEPT !.managers = ms]
    OBVIOUS
  <1>3. plans'[id].managers = ms
    BY <1>1, <1>2
  <1>4. \A p \in DOMAIN plans : p # id => plans'[p] = plans[p]
    OBVIOUS
  <1>5. PlanKept(id)
    BY <1>3 DEF PlanKept, Manager
  <1>6. \A p \in DOMAIN plans : p # id => PlanKept(p)
    BY <1>4 DEF PlanKept
  <1> QED BY <1>5, <1>6

\* A vote adds an account that had not voted to the votes of one manager.
LEMMA CastKept ==
    ASSUME TallyInv, NEW id \in Plans, NEW a, NEW i, NEW c,
           apply_vote_cast(id, a, i, c)
    PROVE  \A p \in DOMAIN plans : PlanKept(p)
  <1> DEFINE ms == ManagersVote(id, a, i, c)
  <1>1. /\ id \in DOMAIN plans /\ a \notin DOMAIN Manager(id, i).votes
        /\ plans' = [plans EXCEPT ![id].managers = ms]
        /\ DOMAIN ms = DOMAIN plans[id].managers
        /\ ms = [j \in DOMAIN plans[id].managers |->
                  IF j = i THEN Cast(id, a, i, c) ELSE Manager(id, j)]
    BY CastChanges
  <1> HIDE DEF ms
  <1>2. \A v \in DOMAIN Manager(id, i).votes :
            /\ v \in DOMAIN Cast(id, a, i, c).votes
            /\ Cast(id, a, i, c).votes[v] = Manager(id, i).votes[v]
    BY <1>1 DEF Cast
  <1>3. \A j \in DOMAIN ms : ms[j] = IF j = i THEN Cast(id, a, i, c) ELSE Manager(id, j)
    BY <1>1
  <1> QED BY <1>1, <1>2, <1>3, ManagersKept

\* A recorded vote is never changed or dropped, in any plan, by any fragment:
\* a second vote of the account is refused, tallies leave the votes alone, and
\* only the end of a private tally drops managers.
THEOREM VotesAreKept == Spec => VotesKept
  <1>1. TallyInv /\ [Next]_vars => [\A id \in DOMAIN plans : PlanKept(id)]_vars
    <2> SUFFICES ASSUME TallyInv, Next PROVE \A p \in DOMAIN plans : PlanKept(p)
      OBVIOUS
    <2>1. CASE UNCHANGED plans
      BY <2>1 DEF PlanKept
    <2>2. CASE \E id \in Plans, signer \in Accounts \cup Committees :
                 apply_vote_plan(id, signer)
      <3>1. \A p \in DOMAIN plans : plans'[p] = plans[p]
        BY <2>2 DEF apply_vote_plan, add_vote_plan
      <3> QED BY <3>1 DEF PlanKept
    <2>3. CASE \E id \in Plans, a \in Accounts, c \in CastChoices :
                 \E i \in DOMAIN PlanOf[id].proposals : apply_vote_cast(id, a, i, c)
      BY <2>3, CastKept
    <2>4. ASSUME NEW id \in Plans, NEW signer, NEW state, id \in DOMAIN plans, date' = date,
                 \/ state = "public" /\ public_tally(id, signer)
                 \/ state = "encrypted" /\ start_private_tally(id, signer)
          PROVE  \A p \in DOMAIN plans : PlanKept(p)
      <3> DEFINE ms == [i \in DOMAIN plans[id].managers |-> Tallied(id, i, state)]
      <3>1. id \in DOMAIN plans
        BY <2>4
      <3>2. plans' = [plans EXCEPT ![id].managers = ms]
        BY <2>4, TallyStep
      <3>3. /\ DOMAIN ms = DOMAIN plans[id].managers
            /\ \A i \in DOMAIN ms : ms[i].votes = Manager(id, i).votes
        BY DEF Tallied
      <3> HIDE DEF ms
      <3> QED BY <3>1, <3>2, <3>3, ManagersKept
    <2>5. ASSUME NEW id \in DOMAIN plans, NEW n, date' = date, finalize_private_tally(id, n)
          PROVE  \A p \in DOMAIN plans : PlanKept(p)
      <3> DEFINE ms == [i \in 1 .. n |-> Decrypted(id, i)]
      <3>1. id \in DOMAIN plans /\ PlanOf[id].private
        BY <2>5 DEF finalize_private_tally
      <3>2. plans' = [plans EXCEPT ![id].managers = ms]
        BY <2>5, DecryptStep
      <3>3. \A i \in DOMAIN ms : ms[i].votes = Manager(id, i).votes
        BY DEF Decrypted
      <3> HIDE DEF ms
      <3> QED BY <3>1, <3>2, <3>3, ManagersKept
    <2>6. CASE \E id \in Plans : \E proof \in TallyProofs(id) : apply_vote_tally(id, proof)
      BY <2>4, <2>5, <2>6, TallyCases
    <2>7. CASE \E id \in Plans, signer \in Accounts \cup Committees :
                 apply_encrypted_vote_tally(id, signer)
      BY <2>4, <2>7, EncryptedCase
    <2>8. CASE \/ \E d \in Dates : begin_block(d)
               \/ finish
               \/ apply_protocol_changes
      BY <2>8, <2>1 DEF begin_block, finish, apply_protocol_changes
    <2> QED BY <2>1, <2>2, <2>3, <2>6, <2>7, <2>8 DEF Next
  <1>2. [\A id \in DOMAIN plans : PlanKept(id)]_vars
          => [\A id \in DOMAIN plans :
                /\ ~PlanOf[id].private
                    => DOMAIN plans'[id].managers = DOMAIN plans[id].managers
                /\ \A i \in DOMAIN plans[id].managers \cap DOMAIN plans'[id].managers :
                    \A a \in DOMAIN plans[id].managers[i].votes :
                        /\ a \in DOMAIN plans'[id].managers[i].votes
                        /\ plans'[id].managers[i].votes[a]
                            = plans[id].managers[i].votes[a]]_vars
    BY DEF PlanKept
  <1> QED BY <1>1, <1>2, TallyInvInit, TallyInvStep, PTL DEF Spec, VotesKept

-----------------------------------------------------------------------------
(* What approved proposals do to the pots. *)

\* The actions of all the proposals.
ActionsOf(id) == {Proposal(id, i).action : i \in DOMAIN PlanOf[id].proposals}
AllActions == UNION {ActionsOf(id) : id \in Plans}

IsPots(p) ==
    /\ DOMAIN p = {"treasury", "rewards"}
    /\ p.treasury \in Nat /\ p.rewards \in Nat

\* The pots hold numbers, and the registered actions are actions of proposals.
PotsInv == IsPots(pots) /\ logs \in Seq(AllActions)

\* Whoever counts the votes of a plan was let in when it was registered.
CommitteeInv == \A id \in DOMAIN plans : plans[id].committee = CommitteeOf(id)

SpendInv == TallyInv /\ PotsInv /\ CommitteeInv

\* Actions carry numbers.
LEMMA ActionsHaveValues ==
    ASSUME NEW action \in AllActions PROVE action.value \in Nat
<1>1. PICK id \in Plans : action \in ActionsOf(id)
  BY DEF AllActions
<1>2. PICK i \in DOMAIN PlanOf[id].proposals : action = Proposal(id, i).action
  BY <1>1 DEF ActionsOf
<1> QED BY <1>2, PlansAreRead DEF Proposal

\* What is drawn from the treasury is at most what it has.
LEMMA DrawnFits ==
    ASSUME NEW p, IsPots(p), NEW v \in Nat
    PROVE  draw_treasury(p, v) \in Nat /\ draw_treasury(p, v) <= p.treasury
<1>1. PICK t \in Nat : t = p.treasury
  BY DEF IsPots
<1>2. draw_treasury(p, v) = CHOOSE x \in {v, t} : \A y \in {v, t} : x <= y
  BY <1>1 DEF draw_treasury, Min
<1>3. CASE v <= t
  BY <1>1, <1>2, <1>3
<1>4. CASE ~(v <= t)
  BY <1>1, <1>2, <1>4
<1> QED BY <1>3, <1>4

\* A transfer moves value from the treasury to the rewards.
LEMMA TransferMoves ==
    ASSUME NEW p, IsPots(p), NEW v \in Nat
    PROVE  LET q == TransferToRewards(p, v)
           IN  /\ IsPots(q) /\ q.treasury <= p.treasury
               /\ q.treasury + q.rewards = p.treasury + p.rewards
<1>1. PICK d : d = draw_treasury(p, v)
  OBVIOUS
<1>2. d \in Nat /\ d <= p.treasury
  BY <1>1, DrawnFits
<1>3. TransferToRewards(p, v) = [[p EXCEPT !.treasury = @ - d] EXCEPT !.rewards = @ + d]
  BY <1>1 DEF TransferToRewards, rewards_add
<1> QED BY <1>2, <1>3 DEF IsPots

\* The pots and registered actions of a tally in progress.
IsFunds(s) == DOMAIN s = {"pots", "logs"} /\ IsPots(s.pots) /\ s.logs \in Seq(AllActions)

\* What some actions may have made of them: value moved from the treasury to
\* the rewards, and nothing else unless an action was registered.
Moved(s, r) ==
    /\ IsFunds(r)
    /\ r.pots.treasury <= s.pots.treasury
    /\ r.pots.treasury + r.pots.rewards = s.pots.treasury + s.pots.rewards
    /\ r.logs = s.logs \/ Len(r.logs) > Len(s.logs)

\* One action does that, and only a transfer draws on the treasury.
LEMMA ActionMoves ==
    ASSUME NEW s, IsFunds(s), NEW action \in AllActions
    PROVE  LET r == execute_action(s, action)
           IN  Moved(s, r) /\ (action.kind # "transfer" => r.pots = s.pots)
<1>1. CASE action.kind = "transfer"
  <2>1. PICK q : q = TransferToRewards(s.pots, action.value)
    OBVIOUS
  <2>2. execute_action(s, action) = [s EXCEPT !.pots = q]
    BY <1>1, <2>1 DEF execute_action
  <2>3. /\ IsPots(q) /\ q.treasury <= s.pots.treasury
        /\ q.treasury + q.rewards = s.pots.treasury + s.pots.rewards
    BY <2>1, TransferMoves, ActionsHaveValues DEF IsFunds
  <2> QED BY <1>1, <2>2, <2>3 DEF Moved, IsFunds
<1>2. CASE action.kind = "reward_add"
  <2>1. PICK l : l = Append(s.logs, action)
    OBVIOUS
  <2>2. execute_action(s, action) = [s EXCEPT !.logs = l]
    BY <1>2, <2>1 DEF execute_action
  <2>3. l \in Seq(AllActions) /\ Len(l) > Len(s.logs)
    BY <2>1 DEF IsFunds
  <2> QED BY <2>2, <2>3 DEF Moved, IsFunds, IsPots
<1>3. CASE action.kind \notin {"transfer", "reward_add"}
  <2>1. execute_action(s, action) = s
    BY <1>3 DEF execute_action
  <2> QED BY <2>1 DEF Moved, IsFunds, IsPots
<1> QED BY <1>1, <1>2, <1>3

NextAction(s, action, env) == execute_action(s, action)

E == INSTANCE FoldTheorems WITH Op <- NextAction

\* So does the loop over the actions of a tally.
LEMMA ActionsMove ==
    ASSUME NEW s, IsFunds(s), NEW actions \in Seq(AllActions)
    PROVE  LET r == FoldLeft(execute_action, s, actions)
           IN  /\ Moved(s, r)
               /\ r.pots # s.pots => \E i \in DOMAIN actions : actions[i].kind = "transfer"
<1>1. FoldLeft(execute_action, s, actions) = E!Fold(s, actions, 0)
  BY DEF E!Fold, E!Greatest, NextAction, FoldLeft, MapThenFoldSet, Max
<1>2. PICK g : E!IsLoop(g, s, actions, 0) /\ E!Fold(s, actions, 0) = g[Len(actions)]
  BY E!FoldIsLoop
<1>3. Len(actions) \in Nat /\ DOMAIN actions = 1 .. Len(actions)
  OBVIOUS
<1> DEFINE Drawn == \E i \in DOMAIN actions : actions[i].kind = "transfer"
           Good(r) == Moved(s, r) /\ (r.pots # s.pots => Drawn)
           I == {i \in Nat : i <= Len(actions) => Good(g[i])}
<1>4. 0 \in I
  BY <1>2 DEF E!IsLoop, Moved, IsFunds, IsPots
<1>5. ASSUME NEW i \in Nat, 0 <= i, i < Len(actions), i \in I PROVE i + 1 \in I
  <2>1. i + 1 \in 1 .. Len(actions) /\ i + 1 - 1 = i /\ i + 1 \in DOMAIN actions
    BY <1>3, <1>5
  <2>2. PICK action \in AllActions : action = actions[i + 1]
    BY <1>3, <2>1
  <2>3. PICK t, r : t = g[i] /\ r = g[i + 1]
    OBVIOUS
  <2>4. r = execute_action(t, action)
    BY <1>2, <2>1, <2>2, <2>3 DEF E!IsLoop, NextAction
  <2>5. Moved(s, t) /\ (t.pots # s.pots => Drawn)
    BY <1>3, <1>5, <2>3
  <2>6. Moved(t, r) /\ (action.kind # "transfer" => r.pots = t.pots)
    BY <2>4, <2>5, ActionMoves DEF Moved
  <2>7. action.kind = "transfer" => Drawn
    BY <2>1, <2>2
  <2>8. Moved(s, r)
    BY <2>5, <2>6 DEF Moved, IsFunds, IsPots
  <2>9. r.pots # s.pots => Drawn
    BY <2>5, <2>6, <2>7
  <2> QED BY <2>3, <2>8, <2>9
<1>6. \A i \in 0 .. Len(actions) : i \in I
  <2> HIDE DEF I
  <2> QED BY <1>3, <1>4, <1>5, E!IntervalInduction
<1>7. Good(g[Len(actions)])
  <2>1. Len(actions) \in 0 .. Len(actions) /\ Len(actions) <= Len(actions)
    BY <1>3
  <2> QED BY <1>6, <2>1
<1> QED BY <1>1, <1>2, <1>7

\* The approved actions among the results of a tally.
IsApproved(id, results, i) == i \in DOMAIN results /\ Approved(id, i, results[i])
ApprovedOf(id, results) ==
    {Proposal(id, i).action :
        i \in {i \in DOMAIN PlanOf[id].proposals : IsApproved(id, results, i)}}

Approve(actions, i, env) ==
    IF i \in DOMAIN env[2] /\ Approved(env[1], i, env[2][i])
    THEN Append(actions, Proposal(env[1], i).action) ELSE actions

P == INSTANCE FoldTheorems WITH Op <- Approve

\* A tally executes actions of proposals it found approved, and no others.
LEMMA OnlyApproved ==
    ASSUME NEW id \in Plans, NEW results
    PROVE  ApprovedActions(id, results) \in Seq(ApprovedOf(id, results))
<1> DEFINE proposals == PlanOf[id].proposals
           order == [i \in DOMAIN proposals |-> i]
           env == <<id, results>>
           T == ApprovedOf(id, results)
<1>1. ApprovedActions(id, results) = P!Fold(<<>>, order, env)
  BY DEF ApprovedActions, P!Fold, P!Greatest, Approve, FoldLeft, MapThenFoldSet, Max
<1>2. PICK n \in Nat : DOMAIN proposals = 1 .. n
  BY PlansAreRead
<1>3. order \in Seq(1 .. n) /\ Len(order) = n /\ \A i \in 1 .. n : order[i] = i
  BY <1>2
<1> HIDE DEF order, env
<1>4. PICK g : P!IsLoop(g, <<>>, order, env) /\ P!Fold(<<>>, order, env) = g[n]
  BY <1>3, P!FoldIsLoop
<1> DEFINE I == {i \in Nat : i <= n => g[i] \in Seq(T)}
<1>5. 0 \in I
  <2>1. g[0] = <<>> /\ <<>> \in Seq(T)
    BY <1>4 DEF P!IsLoop
  <2> QED BY <2>1
<1>6. ASSUME NEW i \in Nat, 0 <= i, i < n, i \in I PROVE i + 1 \in I
  <2>1. i + 1 \in 1 .. n /\ i + 1 - 1 = i /\ i + 1 \in DOMAIN proposals
    BY <1>2, <1>6
  <2>2. g[i + 1] = Approve(g[i], i + 1, env) /\ g[i] \in Seq(T)
    BY <1>3, <1>4, <1>6, <2>1 DEF P!IsLoop
  <2>3. g[i + 1] = IF IsApproved(id, results, i + 1)
                   THEN Append(g[i], Proposal(id, i + 1).action) ELSE g[i]
    BY <2>2 DEF Approve, env, IsApproved
  <2>4. IsApproved(id, results, i + 1) => Proposal(id, i + 1).action \in T
    BY <2>1 DEF ApprovedOf
  <2> HIDE DEF T
  <2>5. CASE IsApproved(id, results, i + 1)
    <3>1. PICK q \in Seq(T), a \in T : q = g[i] /\ a = Proposal(id, i + 1).action
      BY <2>2, <2>4, <2>5
    <3>2. g[i + 1] = Append(q, a)
      BY <2>3, <2>5, <3>1
    <3>3. Append(q, a) \in Seq(T)
      OBVIOUS
    <3> QED BY <3>2, <3>3
  <2>6. CASE ~IsApproved(id, results, i + 1)
    BY <2>2, <2>3, <2>6
  <2> QED BY <2>5, <2>6
<1>7. \A i \in 0 .. n : i \in I
  <2> HIDE DEF I
  <2> QED BY <1>5, <1>6, P!IntervalInduction
<1>8. g[n] \in Seq(T)
  <2>1. n \in 0 .. n /\ n <= n
    OBVIOUS
  <2> QED BY <1>7, <2>1
<1> QED BY <1>1, <1>4, <1>8

\* What a set of accounts weighs is a number.
LEMMA WeightIsNatural == ASSUME NEW voters PROVE WeightOf(voters) \in Nat
<1>1. PICK S : S = voters \cap DOMAIN Tokens
  OBVIOUS
<1>2. WeightOf(voters) = E!Sum(Tokens, S)
  BY <1>1 DEF WeightOf, MapThenSumSet, MapThenFoldSet, E!Sum, E!Pick
<1>3. E!IsFiniteSet(S) /\ E!Nats(Tokens, S)
  <2>1. IsFiniteSet(DOMAIN Tokens)
    BY VoteConstants
  <2>2. E!IsFiniteSet(DOMAIN Tokens)
    BY <2>1 DEF IsFiniteSet, E!IsFiniteSet
  <2>3. E!IsFiniteSet(S)
    BY <1>1, <2>2, E!FS_Subset
  <2>4. E!Nats(Tokens, S)
    BY <1>1, VoteConstants DEF E!Nats
  <2> QED BY <2>3, <2>4
<1>4. E!Sum(Tokens, S) \in Nat
  BY <1>3, E!SumIsNat
<1> QED BY <1>2, <1>4

\* The approval ratio of the criteria is at least one half, as it is by default.
HalfApproves == 2 * Criteria.approval.num >= Criteria.approval.den

\* A part of at least one half, exceeded, is a strict majority.
LEMMA HalfIsMajority ==
    ASSUME NEW for \in Nat, NEW against \in Nat, NEW num \in Nat, NEW den \in Nat,
           2 * num >= den, for * den > num * (for + against)
    PROVE  for > against
<1> SUFFICES ASSUME for <= against PROVE FALSE
  OBVIOUS
<1>1. num * (for + against) >= num * (2 * for)
  <2>1. \A a, b, c \in Nat : a <= b => c * b >= c * a
    OBVIOUS
  <2>2. 2 * for \in Nat /\ for + against \in Nat /\ 2 * for <= for + against
    OBVIOUS
  <2> QED BY <2>1, <2>2
<1>2. for * (2 * num) >= for * den
  <2>1. \A a, b, c \in Nat : a <= b => c * b >= c * a
    OBVIOUS
  <2> QED BY <2>1
<1>3. num * (2 * for) = for * (2 * num)
  OBVIOUS
<1>4. PICK x \in Nat, y \in Nat, z \in Nat :
        x = num * (for + against) /\ y = num * (2 * for) /\ z = for * den
  <2>1. \A a, b \in Nat : a * b \in Nat
    OBVIOUS
  <2> QED BY <2>1
<1> QED BY <1>1, <1>2, <1>3, <1>4

\* An approved result has more weight in favour than against.
LEMMA ApprovedIsFavoured ==
    ASSUME HalfApproves, NEW id, NEW i, NEW votes, NEW options,
           Approved(id, i, Weights(votes, options))
    PROVE  Weights(votes, options)[Criteria.favorable]
             > Weights(votes, options)[Criteria.rejection]
<1> DEFINE result == Weights(votes, options)
           f == Criteria.favorable
           r == Criteria.rejection
<1>1. /\ f \in DOMAIN result /\ r \in DOMAIN result
      /\ Above(result[f], result[f] + result[r], Criteria.approval)
  BY DEF Approved, check_governance_criteria
<1>2. result[f] \in Nat /\ result[r] \in Nat
  BY <1>1, WeightIsNatural DEF Weights
<1>3. result[f] * Criteria.approval.den > Criteria.approval.num * (result[f] + result[r])
  BY <1>1 DEF Above
<1> HIDE DEF result, f, r
<1>4. result[f] > result[r]
  BY <1>2, <1>3, HalfIsMajority, VoteConstants DEF HalfApproves
<1> QED BY <1>4 DEF result, f, r

\* Initially the pots are those of block0 and there is no plan.
LEMMA SpendStarts == Init => SpendInv
<1> SUFFICES ASSUME Init PROVE SpendInv
  OBVIOUS
<1>1. TallyInv
  BY TallyInvInit
<1>2. PotsInv
  BY VoteConstants DEF Init, PotsInv, IsPots
<1>3. CommitteeInv
  BY DEF Init, CommitteeInv
<1> QED BY <1>1, <1>2, <1>3 DEF SpendInv

\* Other managers leave the committee of a plan alone.
LEMMA CommitteeStays ==
    ASSUME SpendInv, NEW id \in DOMAIN plans, NEW ms,
           plans' = [plans EXCEPT ![id].managers = ms]
    PROVE  CommitteeInv'
<1>1. plans[id] = [committee |-> plans[id].committee, managers |-> plans[id].managers]
  BY DEF SpendInv, TallyInv, ShapeInv, IsPlan
<1>2. plans'[id].committee = plans[id].committee
  BY <1>1
<1>3. DOMAIN plans' = DOMAIN plans /\ \A p \in DOMAIN plans : p # id => plans'[p] = plans[p]
  OBVIOUS
<1> QED BY <1>2, <1>3 DEF SpendInv, CommitteeInv, CommitteeOf, is_governance, Proposal

\* No step changes the committee of a plan.
LEMMA CommitteeStep ==
    ASSUME SpendInv, [Next]_vars PROVE CommitteeInv'
<1>1. CASE UNCHANGED plans
  BY <1>1 DEF SpendInv, CommitteeInv, CommitteeOf, is_governance, Proposal
<1>2. ASSUME NEW id \in Plans, NEW signer, apply_vote_plan(id, signer) PROVE CommitteeInv'
  <2>1. plans' = [p \in DOMAIN plans \cup {id} |->
                    IF p # id THEN plans[p] ELSE PlanManagerNew(id, CommitteeOf(id))]
    BY <1>2 DEF apply_vote_plan, add_vote_plan
  <2>2. PlanManagerNew(id, CommitteeOf(id)).committee = CommitteeOf(id)
    BY DEF PlanManagerNew
  <2> QED BY <2>1, <2>2 DEF SpendInv, CommitteeInv, CommitteeOf, is_governance, Proposal
<1>3. ASSUME NEW id \in Plans, NEW a, NEW i, NEW c, apply_vote_cast(id, a, i, c)
      PROVE  CommitteeInv'
  BY <1>3, CommitteeStays DEF apply_vote_cast, apply_vote, PlanVote, SetManagers
<1>4. ASSUME NEW id \in Plans, NEW proof, apply_vote_tally(id, proof) PROVE CommitteeInv'
  <2>1. id \in DOMAIN plans
    BY <1>4, TallyCases
  <2>2. \E ms : plans' = [plans EXCEPT ![id].managers = ms]
    BY <1>4, TallyCases DEF public_tally, finalize_private_tally, SetManagers
  <2> QED BY <2>1, <2>2, CommitteeStays
<1>5. ASSUME NEW id \in Plans, NEW signer, apply_encrypted_vote_tally(id, signer)
      PROVE  CommitteeInv'
  <2>1. id \in DOMAIN plans
    BY <1>5, EncryptedCase
  <2>2. \E ms : plans' = [plans EXCEPT ![id].managers = ms]
    BY <1>5, EncryptedCase DEF start_private_tally, SetManagers
  <2> QED BY <2>1, <2>2, CommitteeStays
<1>6. CASE \/ \E d \in Dates : begin_block(d)
           \/ finish
           \/ apply_protocol_changes
  BY <1>6, <1>1 DEF begin_block, finish, apply_protocol_changes
<1> QED BY <1>1, <1>2, <1>3, <1>4, <1>5, <1>6 DEF Next, vars

\* The results a tally leaves in a plan.
ResultsAfter(id) == [i \in DOMAIN plans'[id].managers |-> plans'[id].managers[i].tally.result]

\* What a tally does to the pots and the registered actions.
LEMMA TallyMoves ==
    ASSUME SpendInv, NEW id \in Plans, NEW proof, apply_vote_tally(id, proof)
    PROVE  /\ PotsInv'
           /\ pots'.treasury + pots'.rewards = pots.treasury + pots.rewards
           /\ logs' = logs \/ Len(logs') > Len(logs)
           /\ pots' # pots =>
                \E i \in DOMAIN plans'[id].managers :
                    /\ i \in DOMAIN PlanOf[id].proposals
                    /\ Proposal(id, i).action.kind = "transfer"
                    /\ Approved(id, i, plans'[id].managers[i].tally.result)
<1> DEFINE start == [pots |-> pots, logs |-> logs]
           actions == ApprovedActions(id, ResultsAfter(id))
           T == ApprovedOf(id, ResultsAfter(id))
<1>1. PICK s : s = FoldLeft(execute_action, start, actions)
  OBVIOUS
<1>2. pots' = s.pots /\ logs' = s.logs
  BY <1>1 DEF apply_vote_tally, Execute, ResultsAfter
<1>3. actions \in Seq(T)
  BY OnlyApproved
<1>4. T \subseteq AllActions
  BY DEF ApprovedOf, AllActions, ActionsOf
<1>5. IsFunds(start)
  BY DEF SpendInv, PotsInv, IsFunds
<1> HIDE DEF T, actions
<1>6. actions \in Seq(AllActions)
  BY <1>3, <1>4
<1>7. /\ Moved(start, s)
      /\ s.pots # start.pots => \E i \in DOMAIN actions : actions[i].kind = "transfer"
  BY <1>1, <1>5, <1>6, ActionsMove
<1>8. ASSUME pots' # pots
      PROVE  \E i \in DOMAIN plans'[id].managers :
                    /\ i \in DOMAIN PlanOf[id].proposals
                    /\ Proposal(id, i).action.kind = "transfer"
                    /\ Approved(id, i, plans'[id].managers[i].tally.result)
  <2>1. PICK k \in DOMAIN actions : actions[k].kind = "transfer"
    BY <1>2, <1>7, <1>8
  <2>2. PICK a \in T : a.kind = "transfer"
    BY <1>3, <2>1
  <2>3. PICK i \in DOMAIN PlanOf[id].proposals :
            IsApproved(id, ResultsAfter(id), i) /\ a = Proposal(id, i).action
    BY <2>2 DEF T, ApprovedOf
  <2> QED BY <2>2, <2>3 DEF IsApproved, ResultsAfter
<1>9. PotsInv'
  BY <1>2, <1>7 DEF Moved, IsFunds, PotsInv, IsPots
<1> QED BY <1>2, <1>7, <1>8, <1>9 DEF Moved

AddReward(p, a, env) == rewards_add(p, a.value)
AddValue(v, a, env) == v + a.value

R == INSTANCE FoldTheorems WITH Op <- AddReward
V == INSTANCE FoldTheorems WITH Op <- AddValue

\* Executing the registered actions adds their values to the rewards.
LEMMA RewardsAddUp ==
    ASSUME NEW p, IsPots(p), NEW l \in Seq(AllActions)
    PROVE  LET q == FoldLeft(LAMBDA x, a : rewards_add(x, a.value), p, l)
           IN  /\ IsPots(q) /\ q.treasury = p.treasury
               /\ q.rewards = p.rewards + SumOfLogs(l) /\ SumOfLogs(l) \in Nat
<1>1. FoldLeft(LAMBDA x, a : rewards_add(x, a.value), p, l) = R!Fold(p, l, 0)
  BY DEF R!Fold, R!Greatest, AddReward, FoldLeft, MapThenFoldSet, Max
<1>2. SumOfLogs(l) = V!Fold(0, l, 0)
  BY DEF SumOfLogs, V!Fold, V!Greatest, AddValue, FoldLeft, MapThenFoldSet, Max
<1>3. PICK g : R!IsLoop(g, p, l, 0) /\ R!Fold(p, l, 0) = g[Len(l)]
  BY R!FoldIsLoop
<1>4. PICK h : V!IsLoop(h, 0, l, 0) /\ V!Fold(0, l, 0) = h[Len(l)]
  BY V!FoldIsLoop
<1>5. Len(l) \in Nat /\ DOMAIN l = 1 .. Len(l)
  OBVIOUS
<1> DEFINE Good(q, v) == IsPots(q) /\ q.treasury = p.treasury /\ q.rewards = p.rewards + v /\ v \in Nat
           I == {i \in Nat : i <= Len(l) => Good(g[i], h[i])}
<1>6. 0 \in I
  BY <1>3, <1>4 DEF R!IsLoop, V!IsLoop, IsPots
<1>7. ASSUME NEW i \in Nat, 0 <= i, i < Len(l), i \in I PROVE i + 1 \in I
  <2>1. i + 1 \in 1 .. Len(l) /\ i + 1 - 1 = i
    BY <1>5, <1>7
  <2>2. PICK a \in AllActions : a = l[i + 1]
    BY <2>1
  <2>3. a.value \in Nat
    BY ActionsHaveValues
  <2>4. PICK q, v : q = g[i] /\ v = h[i] /\ Good(q, v)
    BY <1>5, <1>7
  <2>5. g[i + 1] = [q EXCEPT !.rewards = @ + a.value]
    <3>1. g[i + 1] = AddReward(g[i + 1 - 1], l[i + 1], 0)
      BY <1>3, <2>1 DEF R!IsLoop
    <3>2. g[i + 1] = AddReward(q, a, 0)
      BY <2>1, <2>2, <2>4, <3>1
    <3> QED BY <3>2 DEF AddReward, rewards_add
  <2>6. h[i + 1] = v + a.value
    BY <1>4, <2>1, <2>2, <2>4 DEF V!IsLoop, AddValue
  <2>7. Good(g[i + 1], h[i + 1])
    BY <2>3, <2>4, <2>5, <2>6 DEF IsPots
  <2> QED BY <2>7
<1>8. \A i \in 0 .. Len(l) : i \in I
  <2> HIDE DEF I
  <2> QED BY <1>5, <1>6, <1>7, R!IntervalInduction
<1>9. Good(g[Len(l)], h[Len(l)])
  <2>1. Len(l) \in 0 .. Len(l) /\ Len(l) <= Len(l)
    BY <1>5
  <2> QED BY <1>8, <2>1
<1> QED BY <1>1, <1>2, <1>3, <1>4, <1>9

\* No registered actions are worth nothing.
LEMMA NothingRegistered == SumOfLogs(<<>>) = 0
<1>1. SumOfLogs(<<>>) = V!Fold(0, <<>>, 0)
  BY DEF SumOfLogs, V!Fold, V!Greatest, AddValue, FoldLeft, MapThenFoldSet, Max
<1>2. <<>> \in Seq(AllActions) /\ Len(<<>>) = 0
  OBVIOUS
<1>3. PICK h : V!IsLoop(h, 0, <<>>, 0) /\ V!Fold(0, <<>>, 0) = h[Len(<<>>)]
  BY <1>2, V!FoldIsLoop
<1> QED BY <1>1, <1>2, <1>3 DEF V!IsLoop

\* The steps that touch neither the pots nor the registered actions.
LEMMA PotsUntouched ==
    ASSUME [Next]_vars,
           ~\E id \in Plans : \E proof \in TallyProofs(id) : apply_vote_tally(id, proof),
           ~apply_protocol_changes
    PROVE  UNCHANGED <<pots, logs>>
BY DEF Next, vars, begin_block, finish, apply_vote_plan, apply_vote_cast,
       apply_encrypted_vote_tally

\* What executing the registered actions does.
LEMMA ChangesApplied ==
    ASSUME SpendInv, apply_protocol_changes
    PROVE  /\ PotsInv' /\ pots'.treasury = pots.treasury
           /\ pots'.treasury + pots'.rewards + SumOfLogs(logs')
                = pots.treasury + pots.rewards + SumOfLogs(logs)
<1>1. PICK q : q = FoldLeft(LAMBDA x, a : rewards_add(x, a.value), pots, logs)
  OBVIOUS
<1>2. pots' = q /\ logs' = <<>>
  BY <1>1 DEF apply_protocol_changes
<1>3. /\ IsPots(q) /\ q.treasury = pots.treasury
      /\ q.rewards = pots.rewards + SumOfLogs(logs) /\ SumOfLogs(logs) \in Nat
  BY <1>1, RewardsAddUp DEF SpendInv, PotsInv
<1>4. <<>> \in Seq(AllActions)
  OBVIOUS
<1>5. PotsInv'
  BY <1>2, <1>3, <1>4 DEF PotsInv, IsPots
<1>6. SumOfLogs(logs') = 0
  BY <1>2, NothingRegistered
<1>7. pots.treasury \in Nat /\ pots.rewards \in Nat
  BY DEF SpendInv, PotsInv, IsPots
<1> QED BY <1>2, <1>3, <1>5, <1>6, <1>7

\* Every step preserves the invariant.
LEMMA SpendStep == SpendInv /\ [Next]_vars => SpendInv'
<1> SUFFICES ASSUME SpendInv, [Next]_vars PROVE SpendInv'
  OBVIOUS
<1>1. TallyInv'
  BY TallyInvStep DEF SpendInv
<1>2. CommitteeInv'
  BY CommitteeStep
<1>3. PotsInv'
  <2>1. CASE \E id \in Plans : \E proof \in TallyProofs(id) : apply_vote_tally(id, proof)
    BY <2>1, TallyMoves
  <2>2. CASE apply_protocol_changes
    BY <2>2, ChangesApplied
  <2>3. CASE UNCHANGED <<pots, logs>>
    BY <2>3 DEF SpendInv, PotsInv, IsPots
  <2> QED BY <2>1, <2>2, <2>3, PotsUntouched
<1> QED BY <1>1, <1>2, <1>3 DEF SpendInv

\* Value leaves the treasury only in the tally of a plan that the ledger's own
\* committee counts, for a transfer that a strict majority of the tokens that
\* took sides favoured, whatever else the plan proposes.
THEOREM TreasuryIsGuarded == ASSUME HalfApproves PROVE Spec => SpendingIsApproved
<1> DEFINE Spends(id, i) ==
        /\ plans[id].committee = Committees
        /\ Proposal(id, i).action.kind = "transfer"
        /\ plans'[id].managers[i].tally.state \in {"public", "decrypted"}
        /\ plans'[id].managers[i].tally.result[Criteria.favorable]
             > plans'[id].managers[i].tally.result[Criteria.rejection]
<1>1. ASSUME SpendInv, [Next]_vars, pots'.treasury < pots.treasury
      PROVE  \E id \in DOMAIN plans : \E i \in DOMAIN plans'[id].managers : Spends(id, i)
  <2>1. pots.treasury \in Nat /\ pots' # pots
    BY <1>1 DEF SpendInv, PotsInv, IsPots
  <2>2. ~apply_protocol_changes
    BY <1>1, <2>1, ChangesApplied
  <2>3. PICK id \in Plans : \E proof \in TallyProofs(id) : apply_vote_tally(id, proof)
    BY <1>1, <2>1, <2>2, PotsUntouched
  <2>4. PICK proof : apply_vote_tally(id, proof)
    BY <2>3
  <2>5. PICK i \in DOMAIN plans'[id].managers :
            /\ i \in DOMAIN PlanOf[id].proposals
            /\ Proposal(id, i).action.kind = "transfer"
            /\ Approved(id, i, plans'[id].managers[i].tally.result)
    BY <1>1, <2>1, <2>4, TallyMoves
  <2>6. id \in DOMAIN plans /\ date' = date
    BY <2>4, TallyCases
  <2>7. plans[id].committee = Committees
    BY <1>1, <2>5, <2>6 DEF SpendInv, CommitteeInv, CommitteeOf, is_governance
  <2>8. /\ plans'[id].managers[i].tally.state \in {"public", "decrypted"}
        /\ CountedInv' /\ id \in DOMAIN plans'
    <3>1. CASE public_tally(id, proof.signer)
      <4>1. /\ plans' = [plans EXCEPT ![id].managers =
                 [j \in DOMAIN plans[id].managers |-> Tallied(id, j, "public")]]
            /\ CountedInv'
        BY <1>1, <2>6, <3>1, TallyStep DEF SpendInv
      <4>2. IsPlan(plans[id])
        BY <1>1, <2>6 DEF SpendInv, TallyInv, ShapeInv
      <4>3. plans'[id].managers = [j \in DOMAIN plans[id].managers |-> Tallied(id, j, "public")]
        BY <2>6, <4>1, <4>2 DEF IsPlan
      <4>4. plans'[id].managers[i].tally.state = "public"
        BY <2>5, <4>3 DEF Tallied
      <4> QED BY <2>6, <4>1, <4>4
    <3>2. CASE finalize_private_tally(id, proof.decrypted)
      <4>1. /\ plans' = [plans EXCEPT ![id].managers =
                 [j \in 1 .. proof.decrypted |-> Decrypted(id, j)]]
            /\ CountedInv'
        BY <1>1, <2>6, <3>2, DecryptStep DEF SpendInv
      <4>2. IsPlan(plans[id])
        BY <1>1, <2>6 DEF SpendInv, TallyInv, ShapeInv
      <4>3. plans'[id].managers = [j \in 1 .. proof.decrypted |-> Decrypted(id, j)]
        BY <2>6, <4>1, <4>2 DEF IsPlan
      <4>4. plans'[id].managers[i].tally.state = "decrypted"
        BY <2>5, <4>3 DEF Decrypted
      <4> QED BY <2>6, <4>1, <4>4
    <3> QED BY <2>4, <3>1, <3>2, TallyCases
  <2>9. plans'[id].managers[i].tally.result
          = Weights(plans'[id].managers[i].votes, Proposal(id, i).options)
    BY <2>5, <2>8 DEF CountedInv, Manager, Proposal, Weights
  <2>10. plans'[id].managers[i].tally.result[Criteria.favorable]
           > plans'[id].managers[i].tally.result[Criteria.rejection]
    BY <2>5, <2>9, ApprovedIsFavoured
  <2> QED BY <2>5, <2>6, <2>7, <2>8, <2>10
<1>2. SpendInv /\ [Next]_vars =>
        [pots'.treasury < pots.treasury =>
            \E id \in DOMAIN plans : \E i \in DOMAIN plans'[id].managers :
                /\ plans[id].committee = Committees
                /\ Proposal(id, i).action.kind = "transfer"
                /\ plans'[id].managers[i].tally.state \in {"public", "decrypted"}
                /\ plans'[id].managers[i].tally.result[Criteria.favorable]
                    > plans'[id].managers[i].tally.result[Criteria.rejection]]_vars
  BY <1>1
<1> QED BY <1>2, SpendStarts, SpendStep, PTL DEF Spec, SpendingIsApproved

\* The pots and the registered actions together are worth the same after every
\* step but a tally that registers an action: a transfer moves value, and the
\* registered actions are paid once.
THEOREM RewardsArePaidOnce == Spec => RegisteredPaidOnce
<1>1. ASSUME SpendInv, [Next]_vars,
             pots'.treasury + pots'.rewards + SumOfLogs(logs')
               # pots.treasury + pots.rewards + SumOfLogs(logs)
      PROVE  Len(logs') > Len(logs)
  <2>1. CASE \E id \in Plans : \E proof \in TallyProofs(id) : apply_vote_tally(id, proof)
    <3>1. /\ pots'.treasury + pots'.rewards = pots.treasury + pots.rewards
          /\ logs' = logs \/ Len(logs') > Len(logs)
      BY <1>1, <2>1, TallyMoves
    <3> QED BY <1>1, <3>1
  <2>2. ~apply_protocol_changes
    BY <1>1, ChangesApplied
  <2>3. CASE UNCHANGED <<pots, logs>>
    BY <1>1, <2>3
  <2> QED BY <1>1, <2>1, <2>2, <2>3, PotsUntouched
<1>2. SpendInv /\ [Next]_vars =>
        [pots'.treasury + pots'.rewards + SumOfLogs(logs')
            # pots.treasury + pots.rewards + SumOfLogs(logs)
            => Len(logs') > Len(logs)]_vars
  BY <1>1
<1> QED BY <1>2, SpendStarts, SpendStep, PTL DEF Spec, RegisteredPaidOnce
=============================================================================
