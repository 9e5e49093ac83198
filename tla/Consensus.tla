----------------------------- MODULE Consensus -----------------------------
(***************************************************************************)
(* The life of a chain: the clock gives slots and dates, leaders make and  *)
(* sign the block of their slot on top of a ledger, nodes receive blocks   *)
(* in any order, doctored ones too, verify the header with the leadership  *)
(* their ledger gives, and apply the block.  A block may carry changes of  *)
(* the settings, which the first block of the next epoch puts into force,  *)
(* and delegations.  A pool evolves its KES key at any time, and a node    *)
(* may be restarted from the entries of its ledger.                        *)
(*                                                                         *)
(* The loop that calls this code is the node's and not in the repository;  *)
(* it is taken from testing/ledger.rs and testing/builders.  A proposal    *)
(* stands for itself and the votes that accept it: UpdateState has those;  *)
(* the rewards of an epoch are paid before its first block: Incentives.    *)
(***************************************************************************)
EXTENDS Leadership

CONSTANTS
    Nodes,
    Leaders,        \* people who have a BFT id
    Pools,          \* those of them who have registered a pool
    Outsider,       \* one who has keys and no role in the chain
    MasterSeed,     \* the KES master seed of each of them and of the outsider
    Block0Leaders,  \* the BFT leaders of block0, in order
    Block0Stake,    \* the stake delegated to each pool
    Changes,        \* the contents a block may have
    KesDepth,       \* 12 in the code
    BlockContentMaxSize,
    Era,            \* the era and the time frame of the chain
    Frame,
    ClockStep,      \* the clock is read every so many seconds
    MaxTime, MaxBlocks

ASSUME ConsensusConstants ==
    /\ Era.slots_per_epoch \in Nat \ {0} /\ Frame.slot_duration \in Nat \ {0}
    /\ Outsider \notin Leaders /\ Pools \subseteq Leaders
    /\ KesDepth \in 0 .. WordSize /\ \A l \in Pools : MasterSeed[l] \in Seeds
    /\ BlockContentMaxSize \in Nat
    /\ ClockStep \in Nat \ {0} /\ MaxTime \in Nat /\ MaxBlocks \in Nat

\* What the readers of block0, of the era and of contents let through; Ledger::new
\* starts the era at epoch 0.
ASSUME ChainIsRead ==
    /\ Era.slot_start \in Nat /\ Era.epoch_start = 0
    /\ Frame.timeline \in Nat /\ Frame.slot_offset \in Nat
    /\ Block0Leaders \in Seq(Leaders)
    /\ \A c \in Changes :
        /\ c \in Seq(ToSet(c))
        /\ \A i \in DOMAIN c :
            /\ c[i].kind \in {"add_leader", "remove_leader", "consensus", "delegate"}
            /\ c[i].kind = "add_leader" => c[i].id \in Leaders

VARIABLES
    now,        \* the clock, in seconds
    ledger,     \* the ledger of each node
    tip,        \* the header of the last block of each node
    kes,        \* the KES secret key of each pool
    sent,       \* the blocks made by leaders, and whether for a rebuilt ledger
    restarted   \* the node whose ledger was rebuilt, at most one

vars == <<now, ledger, tip, kes, sent, restarted>>

-----------------------------------------------------------------------------
(* The parts of the ledger that the leadership depends on. *)

\* GenesisPraosLeader and the keys of a pool's registration.
PoolKeys(l) == [kes |-> keygen(KesDepth, MasterSeed[l]).public,
                vrf |-> <<"vrf_key", l>>]

\* A signature of the outsider's KES key is none of a pool's.
ASSUME OutsiderHasOtherKeys ==
    \A l \in Pools :
        ~verify(PoolKeys(l).kes, None, sign(keygen(KesDepth, MasterSeed[Outsider]).secret, None))

\* The leaders without one of them.
Retained(leaders, id) ==
    FoldLeft(LAMBDA kept, l : IF l = id THEN kept ELSE Append(kept, l), <<>>, leaders)

\* Settings::new, and the arms of try_apply that decide who leads.
NewSettings == [consensus |-> "bft", leaders |-> <<>>, nonce |-> ZeroNonce]

apply_param(s, param) ==
    CASE param.kind = "add_leader" -> [s EXCEPT !.leaders = Append(@, param.id)]
      [] param.kind = "remove_leader" -> [s EXCEPT !.leaders = Retained(@, param.id)]
      [] param.kind = "consensus" -> [s EXCEPT !.consensus = param.value]

\* Settings::to_config_params: the nonce is not among them.
to_config_params(s) ==
    <<[kind |-> "consensus", value |-> s.consensus]>>
        \o [i \in DOMAIN s.leaders |-> [kind |-> "add_leader", id |-> s.leaders[i]]]

\* Ledger::begin_block: {} when the height or the date does not fit.
begin_block(l, chain_length, date) ==
    IF chain_length # l.chain_length + 1 \/ ~Precedes(l.date, date)
    THEN {}
    ELSE {IF date.epoch > l.date.epoch
          THEN [FoldLeft(apply_param, l, l.updates) EXCEPT
                    !.updates = <<>>, !.chain_length = chain_length]
          ELSE [l EXCEPT !.chain_length = chain_length]}

\* The fragments of a block: accepted proposals, and delegations that leave
\* the pools with another stake.
apply_fragment(l, fragment) ==
    IF fragment.kind = "delegate"
    THEN [l EXCEPT !.stake = fragment.stake]
    ELSE [l EXCEPT !.updates = Append(@, fragment)]

apply_contents(l, contents) == FoldLeft(apply_fragment, l, contents)

\* ApplyBlockLedger::finish.
finish(l, h) ==
    IF h.version = "praos"
    THEN [l EXCEPT !.date = block_date(h),
                   !.nonce = hash_with(@, witness_to_nonce(h.vrf))]
    ELSE [l EXCEPT !.date = block_date(h)]

\* Mutant: the contents are not compared with the header.
ContentsUnchecked(block) == TRUE

ContentsMatch(block) == block.header.content_hash = block.contents

apply_block(l, block) ==
    IF Len(block.contents) > BlockContentMaxSize \/ ~ContentsMatch(block)
    THEN {}
    ELSE {finish(apply_contents(begun, block.contents), block.header) :
            begun \in begin_block(l, block.header.height, block_date(block.header))}

\* What from_iter makes of the entries of a ledger: the params are popped from
\* the end, and the stake pools are dropped.
RebuildLedger(l) ==
    LET s == FoldLeft(apply_param, NewSettings, Reverse(to_config_params(l)))
    IN  [l EXCEPT !.consensus = s.consensus, !.leaders = s.leaders,
                  !.nonce = s.nonce, !.pools = [p \in {} |-> None]]

-----------------------------------------------------------------------------
(* Making blocks. *)

\* LeadershipConsensus::is_leader and the builders: the header, if l leads.
ForgeHeader(leadership, l, date, common) ==
    IF leadership.consensus = "bft"
    THEN IF get_leader_at(leadership, date) = l THEN {sign_bft(common, l)} ELSE {}
    ELSE LET proof == praos_leader(leadership, l, PoolKeys(l).vrf, date)
         IN  IF proof = None THEN {} ELSE {sign_praos(common, l, proof, kes[l])}

\* The date of the clock in the era of the ledger.
DateAt(time) ==
    UNION {from_slot_to_era(Era, s) : s \in slot_at(Frame, time)}

\* One who leads the present slot for the ledger of a node makes its block; the
\* leaders make one block for a slot, fill it up to the size the settings allow,
\* and each change is proposed once.
Forge(n, l, contents) ==
    /\ Cardinality(sent) < MaxBlocks /\ Len(contents) <= BlockContentMaxSize
    /\ contents = <<>> \/ \A b \in sent : b.contents # contents
    /\ \E date \in DateAt(now) : \E leadership \in LeadershipNew(date.epoch, ledger[n]) :
        /\ Precedes(ledger[n].date, date)
        /\ \A b \in sent : block_date(b.header) # date
        /\ \E h \in ForgeHeader(leadership, l, date,
                        HeaderCommon(leadership.consensus, contents, tip[n],
                                     ledger[n].chain_length + 1, date)) :
            sent' = sent \cup {[header |-> h, contents |-> contents,
                                rebuilt |-> n \in restarted]}
    /\ UNCHANGED <<now, ledger, tip, kes, restarted>>

\* SecretKey::evolve, bounded to one period for a block.
Evolve(l) ==
    /\ kes[l].t < Cardinality(sent)
    /\ \E key \in update(kes[l]) : kes' = [kes EXCEPT ![l] = key]
    /\ UNCHANGED <<now, ledger, tip, sent, restarted>>

-----------------------------------------------------------------------------
(* Receiving blocks. *)

\* What can be made of the blocks sent so far without a key of their leader:
\* one part replaced by one of another block or of the outsider's making.  The
\* size of a signature is that of the version (HeaderSlice::from_slice).
Doctored(n) ==
    LET Resigned(h) ==
            IF h.version = "praos"
            THEN {[h EXCEPT !.sig = sign(keygen(KesDepth, MasterSeed[Outsider]).secret,
                                         as_auth_slice(h))]}
            ELSE {[h EXCEPT !.sig = ed25519_sign(Outsider, as_auth_slice(h))],
                  sign_bft(h, Outsider)}
        Of(h) ==
            {[h EXCEPT !.sig = b.header.sig] : b \in {x \in sent : x.header.version = h.version}}
            \cup {[h EXCEPT !.leader = l] : l \in Leaders}
            \cup {[h EXCEPT !.slot_id = @ + 1], [h EXCEPT !.epoch = @ + 1, !.slot_id = 0],
                  [h EXCEPT !.parent = tip[n]], [h EXCEPT !.height = @ + 1]}
            \cup Resigned(h)
    IN  UNION {{[b EXCEPT !.header = h] : h \in Of(b.header)}
                \cup {[b EXCEPT !.contents = c] : c \in Changes} : b \in sent}

\* A node takes a block on top of its tip: the header is verified with the
\* leadership of its ledger, then the block is applied.
Receive(n, block) ==
    /\ block.header.parent = tip[n]
    /\ \E leadership \in LeadershipNew(block.header.epoch, ledger[n]) :
        VerifyHeader(leadership, block.header)
    /\ \E l \in apply_block(ledger[n], block) : ledger' = [ledger EXCEPT ![n] = l]
    /\ tip' = [tip EXCEPT ![n] = block.header]
    /\ UNCHANGED <<now, kes, sent, restarted>>

Restart(n) ==
    /\ restarted = {}
    /\ ledger' = [ledger EXCEPT ![n] = RebuildLedger(@)]
    /\ restarted' = restarted \cup {n}
    /\ UNCHANGED <<now, tip, kes, sent>>

Tick ==
    /\ now + ClockStep <= MaxTime
    /\ now' = now + ClockStep
    /\ UNCHANGED <<ledger, tip, kes, sent, restarted>>

-----------------------------------------------------------------------------

Block0 ==
    [HeaderCommon("unsigned", <<>>, None, 0, [epoch |-> 0, slot_id |-> 0])
        EXCEPT !.sig = None]

Block0Ledger ==
    [chain_length |-> 0, date |-> [epoch |-> 0, slot_id |-> 0], era |-> Era,
     consensus |-> "bft", leaders |-> Block0Leaders, nonce |-> ZeroNonce,
     pools |-> [l \in Pools |-> PoolKeys(l)], stake |-> Block0Stake,
     updates |-> <<>>]

Init ==
    /\ now = Frame.timeline - 1
    /\ ledger = [n \in Nodes |-> Block0Ledger]
    /\ tip = [n \in Nodes |-> Block0]
    /\ kes = [l \in Pools |-> keygen(KesDepth, MasterSeed[l]).secret]
    /\ sent = {}
    /\ restarted = {}

Next ==
    \/ Tick
    \/ \E l \in Pools : Evolve(l)
    \/ \E n \in Nodes, l \in Leaders, contents \in Changes : Forge(n, l, contents)
    \/ \E n \in Nodes : \E block \in sent \cup Doctored(n) : Receive(n, block)
    \/ \E n \in Nodes : Restart(n)

Spec == Init /\ [][Next]_vars

-----------------------------------------------------------------------------
(* Properties. *)

\* A block made for the ledger behind it is accepted, whenever it arrives and
\* however the key that signed it has evolved since, by every node that stands
\* on the same block (Leadership::verify, apply_block).
LeadersBlocksAreTaken ==
    \A n \in Nodes \ restarted, b \in {x \in sent : ~x.rebuilt} :
        b.header.parent = tip[n] =>
            /\ \E leadership \in LeadershipNew(b.header.epoch, ledger[n]) :
                VerifyHeader(leadership, b.header)
            /\ apply_block(ledger[n], b) # {}

\* A node only ever stands on a block that the leader of its slot has made: no
\* part of a header can be exchanged, and no one else can sign for the leader
\* (as_auth_slice, bft and genesis verify).
OnlyLeadersExtend ==
    \A n \in Nodes : tip[n] = Block0 \/ \E b \in sent : b.header = tip[n]

\* Nodes on the same block have the same ledger, and so the same leaders, nonce
\* and stake for the slots to come (apply_block, begin_block, finish).
SameTipSameLedger ==
    \A n, m \in Nodes \ restarted : tip[n] = tip[m] => ledger[n] = ledger[m]

\* A node rebuilt from the entries of its ledger has the ledger it would have
\* without, as the test of ledger/iter.rs asserts of the two.
RebuiltAsTested ==
    \A n \in restarted, m \in Nodes \ restarted :
        tip[n] = tip[m] => ledger[n] = ledger[m]

\* The seeds of the leaves that a key can still make, in the order of periods.
LeafOf(depth, master, t) ==
    master \o [i \in 1 .. depth |-> 1 + BitOf(t, depth - i)]

Derivable(key, seed) ==
    \/ key.sk.secret = seed
    \/ \E i \in DOMAIN key.rs : key.rs[i] # ZeroSeed /\ IsPrefix(key.rs[i], seed)

\* An evolved key signs for its period and all later ones, holds nothing an
\* earlier one could be made from, belongs to the same public key, survives
\* being written out and read, and its update meets its assertion (sum.rs).
KeyCoversTheFuture ==
    \A l \in Pools :
        /\ \A t \in 0 .. total(KesDepth) - 1 :
            Derivable(kes[l], LeafOf(KesDepth, MasterSeed[l], t)) <=> t >= kes[l].t
        /\ compute_public(kes[l]) = PoolKeys(l).kes
        /\ UpdateAssertion(kes[l]) /\ from_bytes_accepts(kes[l])
        /\ is_updatable(kes[l]) <=> update(kes[l]) # {}

\* Between two readings the clock is inside the slot whose date it gives, the date leads back to the
\* slot, and one slot later is the next date (timeframe.rs, era.rs, date.rs).
DatesFollowTheClock ==
    \A time \in now .. now + ClockStep - 1 : \A at \in slot_at_precise(Frame, time) :
        /\ at.offset \in 0 .. Frame.slot_duration - 1
        /\ slot_to_systemtime(Frame, at.slot) = {time - at.offset}
        /\ \A date \in DateAt(time) :
            /\ from_era_to_slot(Era, date) = {at.slot}
            /\ DateAt(time + Frame.slot_duration) = {NextDate(Era, date)}

\* A leader that follows the clock is heard: every time is in the slot, and the
\* slot at the date, that the clock goes on to, and the blocks it makes for its
\* slots are taken.
LeadersAreHeard == DatesFollowTheClock /\ LeadersBlocksAreTaken
=============================================================================
