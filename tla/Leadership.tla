----------------------------- MODULE Leadership ------------------------------
(* Time, the leaders of its slots, and the headers they make.                *)
EXTENDS SumKes, FiniteSetsExt

------------------------------------------------------------------------------
(***************************************************************************)
(* From the clock to block dates (chain-time: timeline.rs, timeframe.rs,   *)
(* era.rs; date.rs of the mockchain).  Times are whole seconds.  A time    *)
(* before the start of a frame or era has no slot: the answer is a set     *)
(* with at most one element.                                               *)
(***************************************************************************)

\* Timeline::differential, in TimeFrame::slot_at.
slot_at(frame, at) ==
    IF at < frame.timeline
    THEN {}
    ELSE {frame.slot_offset + (at - frame.timeline) \div frame.slot_duration}

\* The slot, and the seconds already gone of it.
slot_at_precise(frame, at) ==
    {[slot |-> s,
      offset |-> (at - frame.timeline) - (s - frame.slot_offset) * frame.slot_duration] :
        s \in slot_at(frame, at)}

slot_to_systemtime(frame, slot) ==
    IF slot < frame.slot_offset
    THEN {}
    ELSE {frame.timeline + (slot - frame.slot_offset) * frame.slot_duration}

from_slot_to_era(era, slot) ==
    IF slot < era.slot_start
    THEN {}
    ELSE LET offset == slot - era.slot_start
         IN  {[epoch |-> era.epoch_start + offset \div era.slots_per_epoch,
               slot_id |-> offset % era.slots_per_epoch]}

\* The code asserts both bounds; it does not subtract epoch_start, which the
\* eras of the ledger have at 0.
from_era_to_slot(era, pos) ==
    IF pos.epoch < era.epoch_start \/ pos.slot_id >= era.slots_per_epoch
    THEN {}
    ELSE {era.slot_start + pos.epoch * era.slots_per_epoch + pos.slot_id}

\* BlockDate::next and the order of block dates.
NextDate(era, date) ==
    IF date.slot_id + 1 = era.slots_per_epoch
    THEN [epoch |-> date.epoch + 1, slot_id |-> 0]
    ELSE [date EXCEPT !.slot_id = @ + 1]

Precedes(d, e) ==
    \/ d.epoch < e.epoch
    \/ d.epoch = e.epoch /\ d.slot_id < e.slot_id

------------------------------------------------------------------------------
(***************************************************************************)
(* Who may make the block of a slot, the header that proves it, and its    *)
(* verification (leadership/, header/, chaineval.rs).                      *)
(*                                                                         *)
(* A header is a record with the fields of header/cstruct.rs; its id, the  *)
(* hash of all its bytes, is the header itself.  ed25519 signatures and    *)
(* VRF proofs pair the key with what it signs, and stand for what only the *)
(* owner of the key can make.  The draw of a VRF and phi are      *)
(* numbers on a common scale, given as constants.                          *)
(***************************************************************************)

CONSTANTS
    Draw(_, _, _),  \* the threshold value a key draws for a nonce and a slot
    Phi(_, _),      \* phi of the share of a stake in the total
    None            \* the absence of a field or an answer

ZeroNonce == <<>>

\* PraosNonce::hash_with.
hash_with(nonce, other) == <<nonce, other>>

-----------------------------------------------------------------------------
(* Headers. *)

\* HeaderBuilder: the version fixes which fields the finished header has.
HeaderCommon(version, content_hash, parent, height, date) ==
    [version |-> version, epoch |-> date.epoch, slot_id |-> date.slot_id,
     height |-> height, content_hash |-> content_hash, parent |-> parent,
     leader |-> None, vrf |-> None, sig |-> None]

block_date(h) == [epoch |-> h.epoch, slot_id |-> h.slot_id]

\* Mutant: the date is left out of what is signed.
AuthWithoutDate(h) == [h EXCEPT !.sig = None, !.epoch = 0, !.slot_id = 0]

\* as_auth_slice: everything in front of the signature.
as_auth_slice(h) == [h EXCEPT !.sig = None]

ed25519_sign(signer, m) == [ed25519 |-> signer, msg |-> m]

\* HeaderBftBuilder::sign_using and HeaderGenesisPraosBuilder::sign_using.
sign_bft(h, signer) ==
    LET auth == [h EXCEPT !.leader = signer]
    IN  [auth EXCEPT !.sig = ed25519_sign(signer, as_auth_slice(auth))]

sign_praos(h, pool, proof, kes_key) ==
    LET auth == [h EXCEPT !.leader = pool, !.vrf = proof]
    IN  [auth EXCEPT !.sig = sign(kes_key, as_auth_slice(auth))]

\* get_consensus_eval_context: the nonce and the pool a Praos header gives.
witness_to_nonce(proof) == <<"nonce", proof>>

-----------------------------------------------------------------------------
(* The leadership of an epoch, from a ledger. *)

LedgerTotalStake(pools, stake) == FoldSet(LAMBDA p, sum : sum + stake[p], 0, pools)

\* Leadership::new: {} is the panic of a BFT ledger that has no leader.
LeadershipNew(epoch, ledger) ==
    IF ledger.consensus = "bft"
    THEN IF Len(ledger.leaders) = 0
         THEN {}
         ELSE {[epoch |-> epoch, era |-> ledger.era, consensus |-> "bft",
                leaders |-> ledger.leaders]}
    ELSE {[epoch |-> epoch, era |-> ledger.era, consensus |-> "praos",
           nonce |-> ledger.nonce, pools |-> ledger.pools, stake |-> ledger.stake]}

\* The round robin starts anew with every epoch.
get_leader_at(data, date) == data.leaders[(date.slot_id % Len(data.leaders)) + 1]

\* VrfEvaluator: the input is the nonce of the epoch and the slot.
VrfInput(data, slot_id) == <<data.nonce, slot_id>>
vrf_evaluate(key, input) == <<"vrf", key, input>>

above_stake_threshold(data, pool, key, slot_id) ==
    Draw(key, data.nonce, slot_id)
        < Phi(data.stake[pool], LedgerTotalStake(DOMAIN data.pools, data.stake))

\* genesis::LeadershipData::leader: a proof when the pool wins the slot.
praos_leader(data, pool, vrf_key, date) ==
    IF /\ date.epoch = data.epoch
       /\ pool \in DOMAIN data.pools
       /\ LedgerTotalStake(DOMAIN data.pools, data.stake) # 0
       /\ above_stake_threshold(data, pool, vrf_key, date.slot_id)
    THEN vrf_evaluate(vrf_key, VrfInput(data, date.slot_id))
    ELSE None

-----------------------------------------------------------------------------
(* Verification. *)

verify_version(data, version) ==
    \/ data.consensus = "bft" /\ version = "bft"
    \/ data.consensus = "praos" /\ version = "praos"

verify_bft(data, h) ==
    LET leader == get_leader_at(data, block_date(h))
    IN  /\ h.leader = leader
        /\ h.sig = ed25519_sign(leader, as_auth_slice(h))

verify_praos(data, h) ==
    /\ h.epoch = data.epoch
    /\ h.leader \in DOMAIN data.pools
    /\ LET keys == data.pools[h.leader]
       IN  /\ h.vrf = vrf_evaluate(keys.vrf, VrfInput(data, h.slot_id))
           /\ above_stake_threshold(data, h.leader, keys.vrf, h.slot_id)
           /\ verify(keys.kes, as_auth_slice(h), h.sig)

\* Leadership::verify: the version first, then the leader.
VerifyHeader(data, h) ==
    /\ verify_version(data, h.version)
    /\ IF data.consensus = "bft" THEN verify_bft(data, h) ELSE verify_praos(data, h)
==============================================================================
