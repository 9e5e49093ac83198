---------------------------- MODULE RecoveryFormats ----------------------------
(* How a ledger is saved: its entries one after the other, each with a code, *)
(* and an end code (ledger/recovery.rs).                                     *)
EXTENDS FragmentFormats

Lanes == 8  \* SpendingCounterIncreasing::LANES

------------------------------------------------------------------------------
(* What the entries are made of                                              *)

\* A digest has its length in front, which is checked only after the octets
\* are read.
pack_digestof(d) == U64(Len(d)) \o d
unpack_digestof == Allocated(Frame(U64Width, Exact(ReadHash)))

pack_pool_id(id) == pack_digestof(id)
unpack_pool_id == unpack_digestof

pack_discrimination(d) == U8(IF d = "Production" THEN 0 ELSE 1)
unpack_discrimination ==
    Match([c \in {0, 1} |-> Yield(IF c = 0 THEN "Production" ELSE "Test")])

\* Keys and hashes have a known size and no length in front.
pack_account_identifier(id) == id
unpack_account_identifier == ReadAccountIdentifier
pack_multisig_identifier(id) == id
unpack_multisig_identifier == ReadHash
pack_header_id(id) == id
unpack_header_id == ReadHash
pack_update_proposal_id(id) == id
unpack_update_proposal_id == ReadHash

\* Each counter has its lane in its highest three bits.
LaneOf(counter) == counter \div (256 ^ U32Width \div Lanes)
LanesInOrder(counters) == \A i \in DOMAIN counters : LaneOf(counters[i]) = i - 1
pack_spending_strategy(counters) == Fold(counters, U32)
unpack_spending_strategy == Checked(Times(Lanes, GetU32), "LanesInOrder")

pack_delegation_ratio(d) ==
    U8(d[2]) \o U64(Len(d[3])) \o Fold(d[3], LAMBDA p : U8(p[1]) \o pack_pool_id(p[2]))
unpack_delegation_ratio ==
    Checked(Variant("Ratio", <<GetU8, Allocated(ListOf(U64Width,
                                                       Row(<<GetU8, unpack_pool_id>>)))>>),
            "DelegationRatio")

pack_delegation_type(d) ==
    CASE d[1] = "NonDelegated" -> U8(0)
      [] d[1] = "Full" -> U8(1) \o pack_pool_id(d[2])
      [] d[1] = "Ratio" -> U8(2) \o pack_delegation_ratio(d)
unpack_delegation_type ==
    Match([c \in 0 .. 2 |->
              CASE c = 0 -> Variant("NonDelegated", <<>>)
                [] c = 1 -> Variant("Full", <<unpack_pool_id>>)
                [] c = 2 -> unpack_delegation_ratio])

pack_last_rewards(r) == U32(r.epoch) \o U64(r.reward)
unpack_last_rewards == Struct(<< <<"epoch", GetU32>>, <<"reward", GetU64>> >>)

\* The tokens of the account are not written.
pack_account_state(a) ==
    pack_spending_strategy(a.spending) \o pack_delegation_type(a.delegation)
        \o U64(a.value) \o pack_last_rewards(a.last_rewards)
unpack_account_state ==
    Struct(<< <<"spending", unpack_spending_strategy>>,
              <<"delegation", unpack_delegation_type>>, <<"value", GetU64>>,
              <<"last_rewards", unpack_last_rewards>>, <<"tokens", Yield(<<>>)>> >>)

pack_pool_registration(p) ==
    LET bytes == SerializePoolRegistration(p) IN U64(Len(bytes)) \o bytes
unpack_pool_registration == Allocated(Frame(U64Width, ReadPoolRegistration))

pack_pool_last_rewards(r) == U32(r.epoch) \o U64(r.value_taxed) \o U64(r.value_for_stakers)
unpack_pool_last_rewards ==
    Struct(<< <<"epoch", GetU32>>, <<"value_taxed", GetU64>>,
              <<"value_for_stakers", GetU64>> >>)

pack_pool_state(s) == pack_pool_last_rewards(s.last_rewards) \o pack_pool_registration(s.registration)
unpack_pool_state ==
    Struct(<< <<"last_rewards", unpack_pool_last_rewards>>,
              <<"registration", unpack_pool_registration>> >>)

pack_config_param(p) == SerializeParam(p)
unpack_config_param == ReadParam

pack_block_date(d) == U32(d.epoch) \o U32(d.slot_id)
unpack_block_date == Struct(<< <<"epoch", GetU32>>, <<"slot_id", GetU32>> >>)

pack_time_era(e) == U32(e.epoch_start) \o U64(e.slot_start) \o U32(e.slots_per_epoch)
unpack_time_era ==
    Struct(<< <<"epoch_start", GetU32>>, <<"slot_start", GetU64>>,
              <<"slots_per_epoch", GetU32>> >>)

pack_ledger_static_parameters(p) ==
    pack_header_id(p.block0_initial_hash) \o U64(p.block0_start_time)
        \o pack_discrimination(p.discrimination) \o U32(p.kes_update_speed)
unpack_ledger_static_parameters ==
    Struct(<< <<"block0_initial_hash", unpack_header_id>>, <<"block0_start_time", GetU64>>,
              <<"discrimination", unpack_discrimination>>,
              <<"kes_update_speed", GetU32>> >>)

pack_globals(g) ==
    pack_block_date(g.date) \o U32(g.chain_length)
        \o pack_ledger_static_parameters(g.static_params) \o pack_time_era(g.era)
unpack_globals ==
    Struct(<< <<"date", unpack_block_date>>, <<"chain_length", GetU32>>,
              <<"static_params", unpack_ledger_static_parameters>>,
              <<"era", unpack_time_era>> >>)

PotCode == [Fees |-> 0, Treasury |-> 1, Rewards |-> 2]
pack_pot_entry(e) == U8(PotCode[e[1]]) \o U64(e[2])
unpack_pot_entry ==
    Match([c \in 0 .. 2 |->
              Variant(CHOOSE n \in DOMAIN PotCode : PotCode[n] = c, <<GetU64>>)])

\* A declaration may hold declarations; Again stands for the reader itself.
RECURSIVE pack_declaration(_)
pack_declaration(d) ==
    U8(d.threshold) \o U64(Len(d.owners))
        \o FlattenSeq([i \in DOMAIN d.owners |->
               LET e == d.owners[i]
               IN  IF e[1] = "Sub" THEN U8(0) \o pack_declaration(e[2])
                                   ELSE U8(1) \o e[2]])
Again == [t |-> "again"]
unpack_decl_element ==
    Match([c \in {0, 1} |-> IF c = 0 THEN Variant("Sub", <<Again>>)
                                     ELSE Variant("Owner", <<ReadHash>>)])
unpack_declaration ==
    Struct(<< <<"threshold", GetU8>>,
              <<"owners", Allocated(ListOf(U64Width, unpack_decl_element))>> >>)

\* The voters come in the order the trie of votes is walked in; a second vote
\* of a voter is refused when the trie is filled again.
InTrieOrder(votes) == SortSeq(votes, LAMBDA v, w : v[1] < w[1])
DistinctVoters(s) == IsInjective(s.votes)
pack_update_proposal(p) == SerializeUpdateProposal(p)
unpack_update_proposal == ReadUpdateProposal
pack_update_proposal_state(s) ==
    pack_update_proposal(s.proposal) \o pack_block_date(s.proposal_date)
        \o U64(Len(s.votes)) \o FlattenSeq(InTrieOrder(s.votes))
unpack_update_proposal_state ==
    Checked(Struct(<< <<"proposal", unpack_update_proposal>>,
                      <<"proposal_date", unpack_block_date>>,
                      <<"votes", ListOf(U64Width, ReadBftLeaderId)>> >>),
            "DistinctVoters")

pack_old_addr(bytes) == U64(Len(bytes)) \o bytes
pack_address(a) == LET bytes == SerializeAddress(a) IN U64(Len(bytes)) \o bytes
pack_output(address, value) == address \o U64(value)
unpack_address == Allocated(Frame(U64Width, AddressFromBytes))
unpack_old_addr == Allocated(Frame(U64Width, GetSliceEnd))
pack_utxo_entry(e, address) ==
    e.fragment_id \o U8(e.output_index) \o pack_output(address, e.value)
unpack_utxo_entry_owned(address) ==
    Struct(<< <<"fragment_id", ReadHash>>, <<"output_index", GetU8>>,
              <<"address", address>>, <<"value", GetU64>> >>)

\* The action of a proposal is not written, and its reader is todo!().
pack_vote_proposal(p) == pack_digestof(p.external_id) \o U8(p.options)
pack_vote_proposals(ps) == U64(Len(ps)) \o Fold(ps, pack_vote_proposal)
unpack_vote_action == Unimplemented("unpack_vote_action")
unpack_proposal ==
    Struct(<< <<"external_id", unpack_digestof>>, <<"options", ReadOptions>>,
              <<"action", unpack_vote_action>> >>)
unpack_proposals == ListOf(U64Width, unpack_proposal)

pack_committee_public_keys(ks) == U8(Len(ks)) \o FlattenSeq(ks)
unpack_committee_public_keys == ListOf(1, ReadPoint)

pack_payload_type(t) == SerializePayloadType(t)
unpack_payload_type == ReadPayloadType

pack_voting_token(t) == SerializeTokenIdentifier(t)
unpack_voting_token == ReadTokenIdentifier

pack_vote_plan(v) ==
    pack_block_date(v.vote_start) \o pack_block_date(v.vote_end)
        \o pack_block_date(v.committee_end) \o pack_payload_type(v.payload_type)
        \o pack_vote_proposals(v.proposals)
        \o pack_committee_public_keys(v.committee_public_keys)
        \o pack_voting_token(v.voting_token)
unpack_vote_plan ==
    Struct(<< <<"vote_start", unpack_block_date>>, <<"vote_end", unpack_block_date>>,
              <<"committee_end", unpack_block_date>>, <<"payload_type", unpack_payload_type>>,
              <<"proposals", unpack_proposals>>,
              <<"committee_public_keys", unpack_committee_public_keys>>,
              <<"voting_token", unpack_voting_token>> >>)

------------------------------------------------------------------------------
(* Entries: a name and the data of it                                        *)

EntrySerializeCode ==
    [Globals |-> 0, Pot |-> 1, Utxo |-> 2, OldUtxo |-> 3, Account |-> 4,
     ConfigParam |-> 5, UpdateProposal |-> 6, MultisigAccount |-> 7,
     MultisigDeclaration |-> 8, StakePool |-> 9, LeaderParticipation |-> 10,
     VotePlan |-> 11, SerializationEnd |-> 99]

from_u8(code) == CHOOSE n \in DOMAIN EntrySerializeCode : EntrySerializeCode[n] = code

pack_entry(e) ==
    U8(EntrySerializeCode[e[1]])
        \o CASE e[1] = "Globals" -> pack_globals(e[2])
             [] e[1] = "Pot" -> pack_pot_entry(e[2])
             [] e[1] = "Utxo" -> pack_utxo_entry(e[2], pack_address(e[2].address))
             [] e[1] = "OldUtxo" -> pack_utxo_entry(e[2], pack_old_addr(e[2].address))
             [] e[1] = "Account" -> pack_account_identifier(e[2]) \o pack_account_state(e[3])
             [] e[1] = "MultisigAccount" ->
                    pack_multisig_identifier(e[2]) \o pack_account_state(e[3])
             [] e[1] = "ConfigParam" -> pack_config_param(e[2])
             [] e[1] = "UpdateProposal" ->
                    pack_update_proposal_id(e[2]) \o pack_update_proposal_state(e[3])
             [] e[1] = "MultisigDeclaration" ->
                    pack_multisig_identifier(e[2]) \o pack_declaration(e[3])
             [] e[1] = "StakePool" -> pack_pool_id(e[2]) \o pack_pool_state(e[3])
             [] e[1] = "LeaderParticipation" -> pack_pool_id(e[2]) \o U32(e[3])
             [] e[1] = "VotePlan" -> pack_vote_plan(e[2])

EntryFormat(name) ==
    CASE name = "Globals" -> <<unpack_globals>>
      [] name = "Pot" -> <<unpack_pot_entry>>
      [] name = "Utxo" -> <<unpack_utxo_entry_owned(unpack_address)>>
      [] name = "OldUtxo" -> <<unpack_utxo_entry_owned(unpack_old_addr)>>
      [] name = "Account" -> <<unpack_account_identifier, unpack_account_state>>
      [] name = "MultisigAccount" -> <<unpack_multisig_identifier, unpack_account_state>>
      [] name = "ConfigParam" -> <<unpack_config_param>>
      [] name = "UpdateProposal" -> <<unpack_update_proposal_id, unpack_update_proposal_state>>
      [] name = "MultisigDeclaration" -> <<unpack_multisig_identifier, unpack_declaration>>
      [] name = "StakePool" -> <<unpack_pool_id, unpack_pool_state>>
      [] name = "LeaderParticipation" -> <<unpack_pool_id, GetU32>>
      [] name = "VotePlan" -> <<unpack_vote_plan>>
      [] name = "SerializationEnd" -> <<>>

unpack_entry_owned ==
    Match([c \in {EntrySerializeCode[n] : n \in DOMAIN EntrySerializeCode} |->
              Variant(from_u8(c), EntryFormat(from_u8(c)))])

SerializeLedger(entries) ==
    Fold(entries, pack_entry) \o U8(EntrySerializeCode["SerializationEnd"])

==============================================================================
