--------------------------------- MODULE MCWire ---------------------------------
(* One message or more of every format, small enough that every octet of it  *)
(* is damaged in turn.                                                       *)
EXTENDS Wire

Id(n) == [i \in 1 .. IdSize |-> n]
Sig(n) == [i \in 1 .. SigSize |-> n]
Pt(n) == <<n>>
Day(e, s) == [epoch |-> e, slot_id |-> s]
Ratio(n, d) == [numerator |-> n, denominator |-> d]
Address(kind_, keys) == [discrimination |-> "Production", kind |-> <<kind_>> \o keys]

MCPoints == {1, 2, 3, 7, 8, 9, 130, 131}
MCChange == Address("Group", <<Id(5), Id(6)>>)
MCUntil == Day(1, 2)
MCAlterations == {1, 128, 255}

------------------------------------------------------------------------------
Tax(limit) == [fixed |-> 5, ratio |-> Ratio(1, 2), max_limit |-> limit]
Fees(certificate_fees, vote_fees) ==
    [constant |-> 1, coefficient |-> 2, certificate |-> 3,
     per_certificate_fees |-> certificate_fees, per_vote_certificate_fees |-> vote_fees]
Rewards == [constant |-> 4, ratio |-> Ratio(3, 2), epoch_start |-> 1, epoch_rate |-> 2]

Params ==
    << <<"Discrimination", "Test">>, <<"Block0Date", 300>>, <<"ConsensusVersion", "Bft">>,
       <<"SlotsPerEpoch", 258>>, <<"SlotDuration", 10>>, <<"EpochStabilityDepth", 1>>,
       <<"ConsensusGenesisPraosActiveSlotsCoeff", 100>>, <<"BlockContentMaxSize", 512>>,
       <<"AddBftLeader", Id(1)>>, <<"RemoveBftLeader", Id(2)>>,
       <<"LinearFee", Fees(<< <<7>>, <<>>, <<>> >>, << <<>>, <<8>> >>)>>,
       <<"ProposalExpiration", 3>>, <<"KesUpdateSpeed", 12>>, <<"TreasuryAdd", 9>>,
       <<"TreasuryParams", Tax(<<6>>)>>, <<"RewardPot", 65536>>,
       <<"RewardParams", <<"Linear", Rewards>> >>, <<"RewardParams", <<"Halving", Rewards>> >>,
       <<"PerCertificateFees", << <<1>>, <<>>, <<2>> >> >>, <<"FeesInTreasury", TRUE>>,
       <<"RewardLimitNone", "None">>, <<"RewardLimitByAbsoluteStake", Ratio(1, 3)>>,
       <<"PoolRewardParticipationCapping", <<1, 2>> >>, <<"AddCommitteeId", Id(3)>>,
       <<"RemoveCommitteeId", Id(4)>>, <<"PerVoteCertificateFees", << <<>>, <<3>> >> >>,
       <<"TransactionMaxExpiryEpochs", 1>>,
       <<"EvmConfiguration", "Berlin">>, <<"EvmConfiguration", "London">>,
       <<"EvmEnvironment", [gas_price |-> 1, block_gas_limit |-> 300]>> >>

Pool ==
    [serial |-> 259, start_validity |-> 1, permissions |-> 1,
     keys |-> [vrf_public_key |-> Pt(2), kes_public_key |-> Id(3)],
     owners |-> <<Id(1), Id(2)>>, operators |-> <<Id(4)>>, rewards |-> Tax(<<>>),
     reward_account |-> << "Single", Id(9) >>]

Ciphertext == <<Pt(1), Pt(2)>>
Proof == << <<<<Pt(1), Pt(2), Pt(3)>>>>, <<Ciphertext>>, <<<<Pt(7), Pt(8), Pt(9)>>>>, Pt(2) >>
Share == <<Pt(1), Pt(8), Pt(9)>>
Token == [policy_hash |-> Id(1), token_name |-> <<116, 107>>]
Proposal(action) == [external_id |-> Id(7), options |-> 3, action |-> action]
Plan(type, proposals, keys) ==
    [vote_start |-> Day(1, 0), vote_end |-> Day(2, 0), committee_end |-> Day(3, 0),
     payload_type |-> type, proposals |-> proposals, committee_public_keys |-> keys,
     voting_token |-> Token]
AllActions ==
    << <<"OffChain">>, <<"Treasury", <<"NoOp">> >>, <<"Treasury", <<"TransferToRewards", 5>> >>,
       <<"Parameters", <<"NoOp">> >>, <<"Parameters", <<"RewardAdd", 4>> >> >>

UtxoInput == from_utxo(Id(8), 0, 40)
AccountInput == from_account(Id(9), 10)
Payment(v) == [address |-> Address("Single", <<Id(3)>>), value |-> v]

Tx(payload, inputs, outputs, witnesses, auth) ==
    [payload |-> payload, valid_until |-> MCUntil, inputs |-> inputs, outputs |-> outputs,
     witnesses |-> witnesses, payload_auth |-> auth]
Certified(type, payload, auth) == <<type, Tx(payload, <<>>, <<>>, <<>>, auth)>>
Paid(inputs, outputs, witnesses) == <<"NoExtra", Tx(<<>>, inputs, outputs, witnesses, <<>>)>>

OwnersSigned == <<"Owners", << <<0, Sig(1)>>, <<1, Sig(2)>> >> >>
Transactions ==
    << Paid(<<UtxoInput, AccountInput>>,
            <<Payment(30), [Payment(1) EXCEPT !.address = Address("Account", <<Id(4)>>)]>>,
            << <<"Utxo", Sig(1)>>, <<"Account", 515, Sig(2)>> >>),
       Paid(<<UtxoInput>>,
            <<[Payment(3) EXCEPT !.address = Address("Script", <<Id(2)>>)],
              [Payment(3) EXCEPT !.address = [Address("Multisig", <<Id(2)>>)
                                              EXCEPT !.discrimination = "Test"]]>>,
            << <<"OldUtxo", Id(1), Id(2), Sig(3)>> >>),
       Paid(<<AccountInput>>, <<>>,
            << <<"Multisig", 2, << <<pack(<<1>>), Id(1), Sig(1)>>,
                                   <<pack(<<2, 3>>), Id(2), Sig(2)>> >> >> >>),
       Certified("OwnerStakeDelegation", [delegation |-> <<"NonDelegated">>], <<>>),
       Certified("StakeDelegation",
                 [account_id |-> Id(1), delegation |-> <<"Full", Id(2)>>],
                 <<"Single", Sig(1)>>),
       Certified("StakeDelegation",
                 [account_id |-> Id(1),
                  delegation |-> <<"Ratio", 3, << <<1, Id(2)>>, <<2, Id(3)>> >> >>],
                 <<"Single", Sig(1)>>),
       Certified("PoolRegistration", Pool, OwnersSigned),
       Certified("PoolRetirement", [pool_id |-> Id(1), retirement_time |-> 3],
                 <<"Operator", Sig(4)>>),
       Certified("PoolUpdate",
                 [pool_id |-> Id(1), last_pool_reg_hash |-> Id(2),
                  new_pool_reg |-> [Pool EXCEPT !.reward_account = <<>>]], OwnersSigned),
       Certified("VotePlan", Plan("Public", [i \in DOMAIN AllActions |-> Proposal(AllActions[i])], <<>>),
                 <<Id(1), Sig(1)>>),
       Certified("VotePlan", Plan("Private", <<Proposal(<<"OffChain">>)>>, <<Pt(1), Pt(8)>>),
                 <<Id(1), Sig(1)>>),
       Certified("VoteCast", [vote_plan |-> Id(1), proposal_index |-> 0,
                              payload |-> <<"Public", 2>>], <<>>),
       Certified("VoteCast", [vote_plan |-> Id(1), proposal_index |-> 1,
                              payload |-> <<"Private", <<Ciphertext, Ciphertext>>, Proof>>], <<>>),
       Certified("VoteTally", [id |-> Id(1), payload |-> <<"Public">>],
                 <<"Public", Id(2), Sig(1)>>),
       Certified("VoteTally",
                 [id |-> Id(1),
                  payload |-> <<"Private", << << <<<<Share, Share>>>>, <<4, 5>> >>,
                                              << <<>>, <<>> >> >> >>],
                 <<"Private", Id(2), Sig(1)>>),
       Certified("EncryptedVoteTally", [id |-> Id(1)], <<Id(2), Sig(1)>>),
       Certified("UpdateProposal",
                 [changes |-> <<Params[5], Params[23]>>, proposer_id |-> Id(1)], Sig(2)),
       Certified("UpdateVote", [proposal_id |-> Id(1), voter_id |-> Id(2)], Sig(2)),
       Certified("MintToken", [name |-> <<97>>, policy |-> <<>>, to |-> Id(1), value |-> 6], <<>>),
       Certified("Evm", <<"Create", [caller |-> Id(1), value |-> 5, code |-> <<96, 1>>,
                                     gas_limit |-> 70, access_list |-> <<>>]>>, <<>>),
       Certified("Evm", <<"Create2", [caller |-> Id(1), value |-> 0, code |-> <<96>>, salt |-> Id(4),
                                      gas_limit |-> 7,
                                      access_list |-> << <<Id(2), <<Id(3), Id(0)>> >> >>]>>, <<>>),
       Certified("Evm", <<"Call", [caller |-> Id(1), address |-> Id(2), value |-> 5, code |-> <<>>,
                                   gas_limit |-> 7,
                                   access_list |-> << <<Id(2), <<>> >>, <<Id(3), <<Id(9)>> >> >>]>>,
                 <<>>) >>

MCOldKeys == {<<Id(1), Id(2)>>, <<Id(4), Id(0)>>}
OldAddresses ==
    << new_simple(Id(1) \o Id(2), <<>>), new_simple(Id(4) \o Id(0), <<300>>),
       ExtendedAddrNew(Id(1) \o Id(2), [derivation_path |-> << <<7, 8>> >>, network_magic |-> <<5>>]) >>
Declarations ==
    << <<"OldUtxoDeclaration", << <<4, to_address(OldAddresses[1])>>, <<5, to_address(OldAddresses[2])>> >> >>,
       <<"Initial", <<Params[1], Params[23], Params[21]>> >> >>

------------------------------------------------------------------------------
Account(delegation, tokens) ==
    [spending |-> [i \in 1 .. Lanes |-> (i - 1) * (256 ^ U32Width \div Lanes)],
     delegation |-> delegation, value |-> 70000, last_rewards |-> [epoch |-> 1, reward |-> 2],
     tokens |-> tokens]
PoolState == [last_rewards |-> [epoch |-> 1, value_taxed |-> 2, value_for_stakers |-> 3],
              registration |-> [Pool EXCEPT !.reward_account = << "Multi", Id(2) >>]]
Globals ==
    [date |-> Day(1, 2), chain_length |-> 9,
     static_params |-> [block0_initial_hash |-> Id(1), block0_start_time |-> 5,
                        discrimination |-> "Test", kes_update_speed |-> 12],
     era |-> [epoch_start |-> 0, slot_start |-> 0, slots_per_epoch |-> 4]]
Utxo(address) == [fragment_id |-> Id(1), output_index |-> 2, address |-> address, value |-> 8]

Ledgers ==
    << << <<"Globals", Globals>> >>,
       << <<"Pot", <<"Fees", 1>> >>, <<"Pot", <<"Treasury", 2>> >>, <<"Pot", <<"Rewards", 3>> >> >>,
       << <<"Utxo", Utxo(MCChange)>>, <<"OldUtxo", Utxo(to_address(OldAddresses[1]))>> >>,
       << <<"Account", Id(1), Account(<<"Full", Id(2)>>, << <<Token, 5>> >>)>> >>,
       << <<"MultisigAccount", Id(1), Account(<<"NonDelegated">>, <<>>)>> >>,
       << <<"Account", Id(3), Account(<<"Ratio", 2, << <<1, Id(2)>>, <<1, Id(3)>> >> >>, <<>>)>> >>,
       << <<"ConfigParam", Params[11]>>, <<"ConfigParam", Params[23]>> >>,
       << <<"UpdateProposal", Id(1), [proposal |-> [changes |-> <<Params[20]>>, proposer_id |-> Id(2)],
                                      proposal_date |-> Day(0, 1), votes |-> <<Id(3), Id(4)>>]>> >>,
       << <<"MultisigDeclaration", Id(1),
            [threshold |-> 1, owners |-> << <<"Owner", Id(2)>>,
                <<"Sub", [threshold |-> 1, owners |-> << <<"Owner", Id(3)>> >>]>> >>]>> >>,
       << <<"StakePool", Id(1), PoolState>>, <<"LeaderParticipation", Id(1), 4>> >>,
       << <<"VotePlan", Plan("Private", <<>>, <<Pt(1)>>)>> >>,
       << <<"VotePlan", Plan("Public", <<Proposal(<<"OffChain">>)>>, <<>>)>> >> >>

Common == [content_size |-> 5, date |-> Day(1, 2), height |-> 7,
           content_hash |-> Id(8), parent_hash |-> Id(9)]
Headers ==
    << [version |-> "Genesis", common |-> Common, proof |-> <<>>],
       [version |-> "Ed25519Signed", common |-> Common, proof |-> <<Id(1), Sig(2)>>],
       [version |-> "KesVrfproof", common |-> Common, proof |-> <<Id(1), Sig(2), Sig(3)>>] >>

Blocks ==
    << BlockOf(<<>>),
       BlockOf(<< <<"Initial", <<Params[5]>> >>,
                  <<"NoExtra", BuildTransaction("NoExtra", Transactions[1][2])>> >>) >>

\* Abor: one element of each type, and arrays of one and of two levels.
MCAborSchema ==
    Exact(Row(<<AborOf("U8"), AborOf("U16"), AborOf("U32"), AborOf("U64"), AborOf("U128"),
                AborOf("Bytes"), AborArray(AborOf("U8")), AborArray(AborArray(AborOf("U8")))>>))
AborMessage(inner, outer) ==
    << <<"U8", 5>>, <<"U16", 258>>, <<"U32", 66051>>, <<"U64", 7>>, <<"U128", 8>>,
       <<"Bytes", <<1, 2>> >>, <<"Array", inner>>, <<"Array", outer>> >>
AborMessages ==
    << AborMessage(<< <<"U8", 1>>, <<"U8", 2>> >>, << <<"Array", <<>> >> >>),
       AborMessage(<<>>, << <<"Array", << <<"U8", 3>> >> >> >>) >>

MCSecrets == <<3, 4, 6>>
MCSession == <<201>>
AsymLocks == << [receiver |-> PublicOf(3), data |-> <<10, 20>>], [receiver |-> PublicOf(3), data |-> <<>>] >>
MultiLocks ==
    << [receivers |-> <<PublicOf(3)>>, data |-> <<10, 20>>],
       [receivers |-> <<PublicOf(4), PublicOf(9), PublicOf(3)>>, data |-> <<30>>] >>

MCPrefix == <<99, 97>>
Texts ==
    << <<"BlockDate", Day(10, 3)>>, <<"BlockDate", Day(0, 0)>>, <<"Milli", 12045>>, <<"Milli", 7>>,
       <<"Digest", Id(171)>>, <<"Hash", Id(205)>>, <<"Bech32Hash", Id(6)>>, <<"PublicKey", Id(9)>>, <<"Signature", Sig(240)>>, <<"Token", Token>>,
       <<"Token", [Token EXCEPT !.token_name = <<>>]>>, <<"Discrimination", "Production">>,
       <<"Discrimination", "Test">>, <<"Bech32Digest", Id(171)>>, <<"Bech32PublicKey", Id(9)>>,
       <<"Bech32Signature", Sig(240)>>, <<"Readable", MCChange>>,
       <<"AnyReadable", Address("Script", <<Id(7)>>)>> >>

Of(k, values) == [i \in DOMAIN values |-> <<k, values[i]>>]
MCMessages ==
    Of("Fragment", Transactions) \o Of("Fragment", Declarations)
        \o Of("Fragment", [i \in DOMAIN Params |-> <<"Initial", <<Params[i]>> >>])
        \o Of("Ledger", Ledgers) \o Of("Header", Headers) \o Of("Block", Blocks)
        \o Of("OldAddress", OldAddresses) \o Of("Address", <<MCChange, Address("Account", <<Id(1)>>)>>)
        \o Of("Abor", AborMessages) \o Of("AsymLock", AsymLocks) \o Of("MultiLock", MultiLocks)
        \o Texts

------------------------------------------------------------------------------
MCCertificates ==
    << [type |-> "NoExtra", payload |-> <<>>, payload_auth |-> <<>>],
       [type |-> "StakeDelegation",
        payload |-> [account_id |-> Id(1), delegation |-> <<"Full", Id(2)>>],
        payload_auth |-> <<"Single", Sig(1)>>],
       [type |-> "VoteCast", payload |-> [vote_plan |-> Id(1), proposal_index |-> 0,
                                          payload |-> <<"Public", 1>>],
        payload_auth |-> <<>>] >>
\* The last index an output can have, next to the code of an account.
MCFunds == << <<"UtxoInput", Id(8), 254, 40>>, <<"AccountInput", Id(9), 10>>,
              <<"UtxoInput", Id(8), 0, 256 ^ U64Width - 5>> >>
MCPayments == <<Payment(7), Payment(5)>>
MCWitnesses == << <<"Utxo", Sig(1)>>, <<"Account", 1, Sig(2)>> >>
MCFee == Fees(<< <<>>, <<1>>, <<>> >>, << <<>>, <<>> >>)

==============================================================================
