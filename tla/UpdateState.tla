---------------------------- MODULE UpdateState ----------------------------
(***************************************************************************)
(* Changing the settings of the chain: update proposals, the votes of the  *)
(* BFT leaders, and what the first block of an epoch does with them        *)
(* (update.rs, setting.rs, the calls of ledger/ledger.rs).                 *)
(*                                                                         *)
(* Every node applies the same blocks.  A node keeps its proposals in a    *)
(* hash map and walks them in its own order before sorting them, so each   *)
(* node here has a copy of the state and picks an order of its own.        *)
(* Fragments change the state in place: a block that is dropped half-way   *)
(* leads back to a state already reached.                                  *)
(***************************************************************************)
EXTENDS Integers, FiniteSets, Sequences, SequencesExt

CONSTANTS
    Nodes,          \* nodes that apply the same blocks
    Leaders,        \* BFT leader ids; a leader's key is its committee id too
    Proposals,      \* fragment ids of update proposals, ordered numbers
    ChangesOf,      \* the config params each proposal carries
    ProposerOf,     \* the leader id that signed each proposal
    Block0Changes,  \* the config params of the initial fragment
    Names,          \* settings whose only role is to hold a value
    InitialValue,   \* the value Settings::new gives each of them
    InitialExpiration, \* Settings::new: 100 epochs in the code
    EpochMod,       \* an epoch wraps here, 2^32 in the code
    BlockDates           \* block dates <<epoch, slot>>

ASSUME UpdateConstants ==
    /\ Proposals \subseteq Nat /\ EpochMod \in Nat \ {0}
    /\ InitialExpiration \in Nat /\ BlockDates \subseteq Nat \X Nat

\* A list of config params: a leader is named by its id, an expiration is a u32.
IsConfig(changes) ==
    /\ changes \in Seq(ToSet(changes))
    /\ \A i \in DOMAIN changes :
        /\ changes[i].kind = "add_leader" => changes[i].id \in Leaders
        /\ changes[i].kind = "expiration" => changes[i].value \in Nat

ASSUME ConfigsAreRead == IsConfig(Block0Changes) /\ \A p \in Proposals : IsConfig(ChangesOf[p])

VARIABLES
    blockDate,  \* the date of the last block begun
    settings,   \* the settings of each node's ledger
    pending,    \* the UpdateState of each node: proposal id -> its state
    panicked    \* the nodes that have panicked

updateVars == <<blockDate, settings, pending, panicked>>

Epoch(d) == d[1]

IsLater(d, e) == \/ d[1] > e[1]
                 \/ d[1] = e[1] /\ d[2] > e[2]

-----------------------------------------------------------------------------
(* Settings. *)

DefaultSettings ==
    [leaders |-> <<>>, committees |-> <<>>, expiration |-> InitialExpiration,
     values |-> [n \in Names |-> InitialValue]]

ReadOnly(param) == param.kind = "read_only"

\* ActiveSlotsCoeff::try_from: in (0, 1], here in thousandths.
ValidCoeff(param) ==
    param.kind = "active_slots_coeff" => param.value \in 1 .. 1000

\* The ids of a list without one of them.
Retained(ids, id) ==
    FoldLeft(LAMBDA kept, x : IF x = id THEN kept ELSE Append(kept, x), <<>>, ids)

apply_param(s, param) ==
    CASE param.kind = "add_leader" ->
            [s EXCEPT !.leaders = Append(@, param.id),
                      !.committees = Append(@, param.id)]
      [] param.kind = "remove_leader" ->
            [s EXCEPT !.leaders = Retained(@, param.id)]
      [] param.kind = "add_committee" ->
            [s EXCEPT !.committees = Append(@, param.id)]
      [] param.kind = "remove_committee" ->
            [s EXCEPT !.committees = Retained(@, param.id)]
      [] param.kind = "expiration" -> [s EXCEPT !.expiration = param.value]
      [] param.kind = "active_slots_coeff" ->
            [s EXCEPT !.values["active_slots_coeff"] = param.value]
      [] OTHER -> [s EXCEPT !.values[param.name] = param.value]

\* The settings with the changes applied: {} when one of them is refused.
try_apply(s, changes) ==
    IF \E i \in DOMAIN changes : ReadOnly(changes[i]) \/ ~ValidCoeff(changes[i])
    THEN {}
    ELSE {FoldLeft(apply_param, s, changes)}

IsLeader(s, l) == l \in Range(s.leaders)

-----------------------------------------------------------------------------
(* The update state. *)

\* Mutant: the changes are not validated when the proposal is made.
ApplyUnchecked(s, props, p, cur_date) ==
    IF ~IsLeader(s, ProposerOf[p]) \/ p \in DOMAIN props
    THEN {}
    ELSE {[q \in DOMAIN props \cup {p} |->
            IF q = p THEN [date |-> cur_date, votes |-> {}] ELSE props[q]]}

apply_proposal(s, props, p, cur_date) ==
    IF \/ try_apply(s, ChangesOf[p]) = {}
       \/ ~IsLeader(s, ProposerOf[p])
       \/ p \in DOMAIN props
    THEN {}
    ELSE {[q \in DOMAIN props \cup {p} |->
            IF q = p THEN [date |-> cur_date, votes |-> {}] ELSE props[q]]}

apply_update_vote(s, props, p, voter) ==
    IF ~IsLeader(s, voter) \/ p \notin DOMAIN props \/ voter \in props[p].votes
    THEN {}
    ELSE {[props EXCEPT ![p].votes = @ \cup {voter}]}

\* Mutant: the proposals of one block are left in the order of the map.
BeforeByDate(props, p, q) == IsLater(props[q].date, props[p].date)

\* sort_by: older proposals first, those of one block by their id.
Before(props, p, q) ==
    \/ IsLater(props[q].date, props[p].date)
    \/ props[p].date = props[q].date /\ p < q

\* The orders the sort can leave the proposals of a hash map in.
SortedProposals(props) ==
    {order \in SetToSeqs(DOMAIN props) :
        \A i, j \in DOMAIN order : i < j => ~Before(props, order[j], order[i])}

\* Mutant: half of the leaders is enough.
HalfOfLeaders(s, votes) == Cardinality(votes) >= Len(s.leaders) \div 2

Majority(s, votes) == Cardinality(votes) > Len(s.leaders) \div 2

Expired(s, proposal, epoch) ==
    (Epoch(proposal.date) + s.expiration) % EpochMod < epoch

\* One turn of the loop: the settings as the earlier proposals left them,
\* the proposals to remove, and whether the expect() has failed.
decide(acc, props, p, epoch) ==
    IF acc.failed THEN acc
    ELSE IF Majority(acc.settings, props[p].votes)
    THEN IF try_apply(acc.settings, ChangesOf[p]) = {}
         THEN [acc EXCEPT !.failed = TRUE]
         ELSE [acc EXCEPT !.settings = CHOOSE s \in try_apply(@, ChangesOf[p]) : TRUE,
                          !.expired = @ \cup {p}]
    ELSE IF Expired(acc.settings, props[p], epoch)
    THEN [acc EXCEPT !.expired = @ \cup {p}]
    ELSE acc

\* The outcome of process_proposals for one order of the proposals.
process_proposals(s, props, order, prev, new) ==
    LET loop == FoldLeft(LAMBDA acc, p : decide(acc, props, p, Epoch(new)),
                         [settings |-> s, expired |-> {}, failed |-> FALSE], order)
    IN  IF Epoch(prev) < Epoch(new)
        THEN [settings |-> loop.settings, failed |-> loop.failed,
              pending |-> [p \in DOMAIN props \ loop.expired |-> props[p]]]
        ELSE [settings |-> s, failed |-> FALSE, pending |-> props]

-----------------------------------------------------------------------------
(* Blocks and fragments. *)

GenesisDate == <<0, 0>>

UpdateInit ==
    /\ blockDate = GenesisDate
    /\ \E s \in try_apply(DefaultSettings, Block0Changes) :
        settings = [n \in Nodes |-> s]
    /\ pending = [n \in Nodes |-> <<>>]
    /\ panicked = {}

\* begin_block with a later date; the assert of process_proposals holds then.
BeginBlock(d) ==
    /\ panicked = {}
    /\ IsLater(d, blockDate)
    /\ \E order \in [Nodes -> UNION {SortedProposals(pending[n]) : n \in Nodes}] :
        LET result == [n \in Nodes |->
                process_proposals(settings[n], pending[n], order[n], blockDate, d)]
        IN  /\ \A n \in Nodes : order[n] \in SortedProposals(pending[n])
            /\ settings' = [n \in Nodes |-> result[n].settings]
            /\ pending' = [n \in Nodes |-> result[n].pending]
            /\ panicked' = {n \in Nodes : result[n].failed}
    /\ blockDate' = d

\* Ledger::apply_fragment on every node; block0 may carry neither proposals nor
\* votes.
AfterBlock0 == panicked = {} /\ blockDate # GenesisDate

UpdateProposal(p) ==
    /\ AfterBlock0
    /\ \A n \in Nodes : apply_proposal(settings[n], pending[n], p, blockDate) # {}
    /\ pending' = [n \in Nodes |->
            CHOOSE u \in apply_proposal(settings[n], pending[n], p, blockDate) : TRUE]
    /\ UNCHANGED <<blockDate, settings, panicked>>

UpdateVote(p, voter) ==
    /\ AfterBlock0
    /\ \A n \in Nodes : apply_update_vote(settings[n], pending[n], p, voter) # {}
    /\ pending' = [n \in Nodes |->
            CHOOSE u \in apply_update_vote(settings[n], pending[n], p, voter) : TRUE]
    /\ UNCHANGED <<blockDate, settings, panicked>>

UpdateNext ==
    \/ \E d \in BlockDates : BeginBlock(d)
    \/ \E p \in Proposals : UpdateProposal(p)
    \/ \E p \in Proposals, voter \in Leaders : UpdateVote(p, voter)

UpdateSpec == UpdateInit /\ [][UpdateNext]_updateVars

-----------------------------------------------------------------------------
(* Properties. *)

\* Nodes that apply the same blocks end with the same settings and the same
\* pending proposals, whatever order their hash maps are walked in: the sort
\* of process_proposals leaves one order only.
Agreement ==
    \A n, m \in Nodes : settings[n] = settings[m] /\ pending[n] = pending[m]

\* The expect("proposal should be valid") of process_proposals never fails: a
\* proposal that was valid under the settings of its block is valid under the
\* settings any other accepted proposals have made since.
NeverPanics == panicked = {}

\* The expirations that some proposals ask for.
ExpirationsOf(props) ==
    {param.value : param \in {c \in UNION {Range(ChangesOf[p]) : p \in props} :
                                c.kind = "expiration"}}

\* doc/update.md and the comment in process_proposals: settings change only if a
\* majority of the BFT leaders has voted for a pending proposal.  The code counts
\* the votes of leaders that have been removed since they voted too.
MajorityOfLeaders ==
    [][\A n \in Nodes : settings'[n] # settings[n] =>
        \E p \in DOMAIN pending[n] :
            LET leaders == Range(settings[n].leaders)
            IN  2 * Cardinality(pending[n][p].votes \cap leaders) > Cardinality(leaders)
      ]_updateVars

\* Settings change only in the first block of an epoch, and only if some pending
\* proposal has more votes than half of the leader list: votes by whoever was a
\* leader when it voted, which MajorityOfLeaders shows is not the majority the
\* docs speak of.  A proposal nobody has voted for stays until it expires, by the
\* expiration in force or by one that process_proposals has put in force in the
\* same block: the decisions on other proposals do not sweep it away.
DecidedByMajority ==
    [][\A n \in Nodes :
        /\ settings'[n] # settings[n] =>
            /\ Epoch(blockDate) < Epoch(blockDate')
            /\ \E p \in DOMAIN pending[n] :
                2 * Cardinality(pending[n][p].votes) > Len(settings[n].leaders)
        /\ LET gone == DOMAIN pending[n] \ DOMAIN pending'[n] IN
           \A p \in gone :
            \/ pending[n][p].votes # {}
            \/ \E x \in {settings[n].expiration} \cup ExpirationsOf(gone) :
                Epoch(blockDate') > Epoch(pending[n][p].date) + x]_updateVars
=============================================================================
