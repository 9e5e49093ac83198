------------------------------ MODULE VotePlan ------------------------------
(***************************************************************************)
(* Vote plans: their registration, the votes, public tallies, private      *)
(* tallies in two steps, and what an approved proposal does to the pots    *)
(* (vote/ledger.rs, vote/manager.rs, vote/tally.rs,                        *)
(* certificate/vote_plan.rs, ledger/governance, ledger/ledger.rs).         *)
(*                                                                         *)
(* A ballot is the choice it stands for: an encrypted ballot is accepted   *)
(* only with a proof that it is for one of the options, encrypted tallies  *)
(* add up as the choices would, and only the right result verifies.  The   *)
(* transaction that carries a fragment is the matter of Ledger.            *)
(***************************************************************************)
EXTENDS Integers, FiniteSets, Sequences, FiniteSetsExt, SequencesExt

CONSTANTS
    Accounts,       \* accounts of the ledger: voters and plan creators
    Plans,          \* vote plan ids
    PlanOf,         \* id -> [start, end, committee_end, private, keys, proposals,
                    \* inputs: the accounts its transaction spends from]
    Committees,     \* the committee ids of the ledger parameters
    CastChoices,    \* choices a public vote may carry, valid or not
    Tokens,         \* the voting tokens of the accounts that hold any
    TotalTokens,    \* token_totals
    Criteria,       \* [favorable, rejection, options, participation, approval]
    InitialPots,    \* [treasury, rewards]
    MaxPot,       \* the largest Value, 2^64 - 1 in the code
    MaxLog,         \* bound on the registered parameter actions
    Dates           \* block dates <<epoch, slot>>

ASSUME VoteConstants ==
    /\ MaxPot \in Nat /\ MaxLog \in Nat /\ TotalTokens \in Nat
    /\ DOMAIN Tokens \subseteq Accounts /\ IsFiniteSet(DOMAIN Tokens)
    /\ \A a \in DOMAIN Tokens : Tokens[a] \in Nat
    /\ InitialPots.treasury \in Nat /\ InitialPots.rewards \in Nat
    /\ DOMAIN InitialPots = {"treasury", "rewards"}
    /\ Criteria.approval.num \in Nat /\ Criteria.approval.den \in Nat \ {0}

\* A plan has a list of proposals, and their actions carry values.
ASSUME PlansAreRead ==
    \A id \in Plans :
        LET proposals == PlanOf[id].proposals IN
        /\ proposals \in Seq(ToSet(proposals))
        /\ \A i \in DOMAIN proposals : proposals[i].action.value \in Nat

\* Dates are pairs of epoch and slot.
ASSUME DateConstants ==
    /\ Dates \subseteq Nat \X Nat
    /\ \A id \in Plans : PlanOf[id].end \in Nat \X Nat

VARIABLES
    date,       \* Ledger::date: the date of the last finished block
    block,      \* the date of the block being applied; date when there is none
    plans,      \* VotePlanLedger: id -> [committee, managers]
    pots,       \* [treasury, rewards]
    logs        \* the parameter actions registered and not yet executed

vars == <<date, block, plans, pots, logs>>

Block0Date == <<0, 0>>

Later(d, e) == \/ d[1] > e[1]
               \/ d[1] = e[1] /\ d[2] > e[2]

-----------------------------------------------------------------------------
(* Plans and their windows. *)

Proposal(id, i) == PlanOf[id].proposals[i]

is_governance(id) ==
    \E i \in DOMAIN PlanOf[id].proposals : Proposal(id, i).action.kind # "off_chain"

check_governance(id) ==
    \A i \in DOMAIN PlanOf[id].proposals :
        Proposal(id, i).action.kind # "off_chain"
            => Proposal(id, i).options = Criteria.options

vote_started(id, d) == ~Later(PlanOf[id].start, d)

\* Mutant: the end of the vote is part of the vote.
FinishedAfterEnd(id, d) == Later(d, PlanOf[id].end)

vote_finished(id, d) == ~Later(PlanOf[id].end, d)

can_vote(id, d) == vote_started(id, d) /\ ~vote_finished(id, d)

committee_time(id, d) ==
    /\ ~Later(PlanOf[id].end, d)
    /\ Later(PlanOf[id].committee_end, d)

-----------------------------------------------------------------------------
(* Tallies. *)

NoTally == [state |-> "none"]
new_public(result) == [state |-> "public", result |-> result]
new_private(sums) == [state |-> "encrypted", result |-> sums]

\* A tally that is missing, public or already decrypted is refused.
private_encrypted(tally) == tally.state = "encrypted"
private_set_result(tally) == [tally EXCEPT !.state = "decrypted"]

\* What a set of accounts weighs: accounts without tokens are passed over.
WeightOf(voters) == MapThenSumSet(LAMBDA a : Tokens[a], voters \cap DOMAIN Tokens)

\* Choice c counts for the tokens of the accounts that chose it.
Weights(votes, options) ==
    [c \in 0 .. options - 1 |-> WeightOf({a \in DOMAIN votes : votes[a] = c})]

\* TallyResult::add_vote refuses a choice that is not one of the options.
AllCountable(votes, options) ==
    \A a \in DOMAIN votes \cap DOMAIN Tokens : votes[a] \in 0 .. options - 1

Participation(result) == MapThenSumSet(LAMBDA c : result[c], DOMAIN result)

Above(num, den, ratio) == num * ratio.den > ratio.num * den

\* Mutant: a tie is an approval.
CriteriaWithTie(result, total) ==
    LET for == result[Criteria.favorable]
        cast == for + result[Criteria.rejection]
    IN  cast > 0 /\ Above(Participation(result), total, Criteria.participation)
        /\ for * Criteria.approval.den >= Criteria.approval.num * cast

check_governance_criteria(result, total) ==
    LET for == result[Criteria.favorable]
        cast == for + result[Criteria.rejection]
    IN  /\ total # 0
        /\ Participation(result) # 0
        /\ {Criteria.favorable, Criteria.rejection} \subseteq DOMAIN result
        /\ cast # 0
        /\ Above(Participation(result), total, Criteria.participation)
        /\ Above(for, cast, Criteria.approval)

\* ProposalManager::check: off-chain proposals have nothing to execute.
Approved(id, i, result) ==
    /\ Proposal(id, i).action.kind # "off_chain"
    /\ check_governance_criteria(result, TotalTokens)

-----------------------------------------------------------------------------
(* ProposalManager: the votes and the tally of one proposal. *)

NewManager == [votes |-> <<>>, tally |-> NoTally]

\* Mutant: a later vote replaces the earlier one.
VoteAgain(votes, a) == TRUE

\* check_already_voted, and Hamt::insert refuses a key it has.
NotVoted(votes, a) == a \notin DOMAIN votes

\* Any choice is a public vote; the proof of a private one shows an option.
validate_public_vote(m, a) == NotVoted(m.votes, a)
validate_private_vote(m, a, options, c) ==
    NotVoted(m.votes, a) /\ c \in 0 .. options - 1

ProposalVote(m, a, c) ==
    [m EXCEPT !.votes = [v \in DOMAIN @ \cup {a} |-> IF v = a THEN c ELSE @[v]]]
ProposalTally(m, options) == [m EXCEPT !.tally = new_public(Weights(m.votes, options))]
private_tally(m, options) == [m EXCEPT !.tally = new_private(Weights(m.votes, options))]
ProposalFinalize(m) == [m EXCEPT !.tally = private_set_result(@)]

-----------------------------------------------------------------------------
(* ProposalManagers and VotePlanManager: the proposals of one plan. *)

ManagersOf(id) == plans[id].managers
OptionsOf(id, i) == Proposal(id, i).options

validate_vote(id, a, i, c) ==
    /\ i \in DOMAIN ManagersOf(id)
    /\ IF PlanOf[id].private
       THEN validate_private_vote(ManagersOf(id)[i], a, OptionsOf(id, i), c)
       ELSE validate_public_vote(ManagersOf(id)[i], a)

ManagersNew(id) == [i \in DOMAIN PlanOf[id].proposals |-> NewManager]
ManagersVote(id, a, i, c) == [ManagersOf(id) EXCEPT ![i] = ProposalVote(@, a, c)]
ManagersTally(id) ==
    [i \in DOMAIN ManagersOf(id) |-> ProposalTally(ManagersOf(id)[i], OptionsOf(id, i))]
ManagersPrivateTally(id) ==
    [i \in DOMAIN ManagersOf(id) |-> private_tally(ManagersOf(id)[i], OptionsOf(id, i))]

\* The zip of the managers with n decrypted proposals drops the other managers.
ManagersFinalize(id, n) == [i \in 1 .. n |-> ProposalFinalize(ManagersOf(id)[i])]

PlanManagerNew(id, committee) == [committee |-> committee, managers |-> ManagersNew(id)]

valid_committee(id, signer) == signer \in plans[id].committee

SetManagers(id, managers) == plans' = [plans EXCEPT ![id].managers = managers]

PlanVote(id, a, i, c) ==
    /\ can_vote(id, date)
    /\ validate_vote(id, a, i, c)
    /\ SetManagers(id, ManagersVote(id, a, i, c))

public_tally(id, signer) ==
    /\ committee_time(id, date)
    /\ valid_committee(id, signer)
    /\ ~PlanOf[id].private
    /\ \A i \in DOMAIN ManagersOf(id) :
        AllCountable(ManagersOf(id)[i].votes, OptionsOf(id, i))
    /\ SetManagers(id, ManagersTally(id))

start_private_tally(id, signer) ==
    /\ committee_time(id, date)
    /\ valid_committee(id, signer)
    /\ PlanOf[id].private
    /\ SetManagers(id, ManagersPrivateTally(id))

\* Neither the date nor the signer is looked at.
finalize_private_tally(id, n) ==
    /\ PlanOf[id].private
    /\ 1 .. n \subseteq DOMAIN ManagersOf(id)
    /\ \A i \in 1 .. n : private_encrypted(ManagersOf(id)[i].tally)
    /\ SetManagers(id, ManagersFinalize(id, n))

-----------------------------------------------------------------------------
(* VotePlanLedger: the plans by id. *)

add_vote_plan(id, committee) ==
    /\ ~Later(block, PlanOf[id].end)
    /\ ~Later(block, PlanOf[id].start)
    /\ PlanOf[id].private => PlanOf[id].keys # 0
    /\ id \notin DOMAIN plans
    /\ plans' = [p \in DOMAIN plans \cup {id} |->
            IF p # id THEN plans[p] ELSE PlanManagerNew(id, committee)]

apply_vote(id, a, i, c) == id \in DOMAIN plans /\ PlanVote(id, a, i, c)

\* The proof decides between the two tallies, each of which checks the plan.
apply_committee_result(id, proof) ==
    /\ id \in DOMAIN plans
    /\ \/ proof.type = "public" /\ public_tally(id, proof.signer)
       \/ proof.type = "private" /\ finalize_private_tally(id, proof.decrypted)

apply_encrypted_tally(id, signer) ==
    id \in DOMAIN plans /\ start_private_tally(id, signer)

-----------------------------------------------------------------------------
(* The actions of approved proposals. *)

draw_treasury(p, v) == Min({v, p.treasury})

rewards_add(p, v) == [p EXCEPT !.rewards = @ + v]

TransferToRewards(p, v) ==
    LET drawn == draw_treasury(p, v)
    IN  rewards_add([p EXCEPT !.treasury = @ - drawn], drawn)

\* The actions of the approved proposals of a tally, in order.
ApprovedActions(id, results) ==
    FoldLeft(LAMBDA actions, i : IF i \in DOMAIN results /\ Approved(id, i, results[i])
                                 THEN Append(actions, Proposal(id, i).action) ELSE actions,
             <<>>, [i \in DOMAIN PlanOf[id].proposals |-> i])

\* An action on the pots and the registered actions.
execute_action(s, action) ==
    CASE action.kind = "transfer" -> [s EXCEPT !.pots = TransferToRewards(@, action.value)]
      [] action.kind = "reward_add" -> [s EXCEPT !.logs = Append(@, action)]
      [] OTHER -> s

Execute(actions) ==
    LET s == FoldLeft(execute_action, [pots |-> pots, logs |-> logs], actions)
    IN  /\ pots' = s.pots /\ logs' = s.logs
        /\ s.pots.rewards <= MaxPot

-----------------------------------------------------------------------------
(* Blocks. *)

Init ==
    /\ date = Block0Date /\ block = Block0Date
    /\ plans = <<>>
    /\ pots = InitialPots
    /\ logs = <<>>

InBlock == Later(block, date)

begin_block(d) ==
    /\ ~InBlock
    /\ Later(d, date)
    /\ block' = d
    /\ UNCHANGED <<date, plans, pots, logs>>

finish ==
    /\ InBlock
    /\ date' = block
    /\ UNCHANGED <<block, plans, pots, logs>>

\* Mutant: the registered actions are executed and kept.
ProtocolChangesKept ==
    /\ ~InBlock /\ logs # <<>>
    /\ pots' = [pots EXCEPT !.rewards = FoldLeft(LAMBDA v, a : v + a.value, @, logs)]
    /\ pots'.rewards <= MaxPot
    /\ UNCHANGED <<date, block, plans, logs>>

\* Between blocks the caller executes the registered parameter actions.
apply_protocol_changes ==
    /\ ~InBlock /\ logs # <<>>
    /\ pots' = FoldLeft(LAMBDA p, a : rewards_add(p, a.value), pots, logs)
    /\ pots'.rewards <= MaxPot
    /\ logs' = <<>>
    /\ UNCHANGED <<date, block, plans>>

-----------------------------------------------------------------------------
(* Fragments. *)

\* Accounts that pay for a plan without governance actions join its committee.
CommitteeOf(id) ==
    Committees \cup (IF is_governance(id) THEN {} ELSE PlanOf[id].inputs)

\* VotePlan fragments, in block0 too, where a transaction has no inputs.
apply_vote_plan(id, signer) ==
    /\ InBlock \/ date = Block0Date
    /\ ~InBlock => PlanOf[id].inputs = {}
    /\ check_governance(id)
    /\ signer \in CommitteeOf(id)
    /\ add_vote_plan(id, CommitteeOf(id))
    /\ UNCHANGED <<date, block, pots, logs>>

\* VoteCast fragments are judged by the date of the last finished block.
apply_vote_cast(id, a, i, c) ==
    /\ InBlock
    /\ apply_vote(id, a, i, c)
    /\ UNCHANGED <<date, block, pots, logs>>

\* VoteTally fragments, with the results of the first n proposals when the
\* plan is private.
TallyProofs(id) ==
    [type : {"public"}, signer : Accounts \cup Committees]
        \cup [type : {"private"}, decrypted : 0 .. Len(PlanOf[id].proposals)]

apply_vote_tally(id, proof) ==
    /\ InBlock
    /\ apply_committee_result(id, proof)
    /\ Execute(ApprovedActions(id,
            [i \in DOMAIN plans'[id].managers |-> plans'[id].managers[i].tally.result]))
    /\ Len(logs') <= MaxLog
    /\ UNCHANGED <<date, block>>

\* EncryptedVoteTally fragments: the encrypted sums are fixed.
apply_encrypted_vote_tally(id, signer) ==
    /\ InBlock
    /\ apply_encrypted_tally(id, signer)
    /\ UNCHANGED <<date, block, pots, logs>>

Next ==
    \/ \E d \in Dates : begin_block(d)
    \/ finish
    \/ apply_protocol_changes
    \/ \E id \in Plans, signer \in Accounts \cup Committees :
        apply_vote_plan(id, signer)
    \/ \E id \in Plans, a \in Accounts, c \in CastChoices :
        \E i \in DOMAIN PlanOf[id].proposals : apply_vote_cast(id, a, i, c)
    \/ \E id \in Plans : \E proof \in TallyProofs(id) : apply_vote_tally(id, proof)
    \/ \E id \in Plans, signer \in Accounts \cup Committees :
        apply_encrypted_vote_tally(id, signer)

Spec == Init /\ [][Next]_vars

-----------------------------------------------------------------------------
(* Properties. *)

Ballots(id, i) == plans[id].managers[i].votes

\* The docs of ProposalManager::vote and VotePlanManager::vote: while a plan
\* takes votes, an account that has voted may vote again, and its earlier vote
\* is replaced.  The code refuses the second vote, with AlreadyVoted.
SecondVoteReplaces ==
    \A id \in DOMAIN plans : can_vote(id, date) =>
        \A i \in DOMAIN ManagersOf(id) : \A a \in DOMAIN Ballots(id, i) :
            \A c \in 0 .. OptionsOf(id, i) - 1 : validate_vote(id, a, i, c)

\* A recorded vote is never changed or dropped: not by another vote, a tally
\* or a second tally.  Only the end of a private tally may drop proposals.
\* This is what the comment in ProposalManager::vote says (no new ballot of an
\* account that has voted) against the docs of SecondVoteReplaces.
VotesKept ==
    [][\A id \in DOMAIN plans :
        /\ ~PlanOf[id].private => DOMAIN plans'[id].managers = DOMAIN plans[id].managers
        /\ \A i \in DOMAIN plans[id].managers \cap DOMAIN plans'[id].managers :
            \A a \in DOMAIN plans[id].managers[i].votes :
                /\ a \in DOMAIN plans'[id].managers[i].votes
                /\ plans'[id].managers[i].votes[a] = plans[id].managers[i].votes[a]]_vars

\* A tally, public or private, counts every vote of its proposal: none was
\* recorded after the votes were counted, and the stake of each vote stands at
\* the choice it was given for.
TallyCountsAllVotes ==
    \A id \in DOMAIN plans : \A i \in DOMAIN plans[id].managers :
        plans[id].managers[i].tally.state # "none" =>
            \A c \in 0 .. Proposal(id, i).options - 1 :
                plans[id].managers[i].tally.result[c] =
                    WeightOf({a \in DOMAIN Ballots(id, i) : Ballots(id, i)[a] = c})

\* Value leaves the treasury only for a plan of the ledger's own committee
\* whose transfer was favoured, at the last tally, by a strict majority of the
\* tokens that took sides.
SpendingIsApproved ==
    [][pots'.treasury < pots.treasury =>
        \E id \in DOMAIN plans : \E i \in DOMAIN plans'[id].managers :
            /\ plans[id].committee = Committees
            /\ Proposal(id, i).action.kind = "transfer"
            /\ plans'[id].managers[i].tally.state \in {"public", "decrypted"}
            /\ plans'[id].managers[i].tally.result[Criteria.favorable]
                > plans'[id].managers[i].tally.result[Criteria.rejection]]_vars

SumOfLogs(l) == FoldLeft(LAMBDA v, a : v + a.value, 0, l)

\* The pots and the registered actions together change only when a tally
\* registers an action: apply_protocol_changes pays each of them exactly once,
\* and a transfer neither creates nor destroys value.
RegisteredPaidOnce ==
    [][pots'.treasury + pots'.rewards + SumOfLogs(logs')
        # pots.treasury + pots.rewards + SumOfLogs(logs)
        => Len(logs') > Len(logs)]_vars
=============================================================================
