-------------------------- MODULE CertificateFormats --------------------------
(* The certificates a transaction may carry, the signatures that authorise   *)
(* them, and what they are made of.  A certificate is the name of its type   *)
(* and its value.                                                            *)
EXTENDS ConfigFormats

CONSTANTS MaxPermissions,    \* ALL_USED_BITMASK
          MaxTokenName       \* TOKEN_NAME_MAX_SIZE

------------------------------------------------------------------------------
(* Stake delegation                                                          *)

\* Mutant: the number of pools of a ratio is not written.
SerializeUncounted(d) ==
    CASE d[1] = "NonDelegated" -> U8(0)
      [] d[1] = "Full" -> U8(1) \o d[2]
      [] d[1] = "Ratio" -> U8(d[2]) \o Fold(d[3], LAMBDA p : U8(p[1]) \o p[2])

\* NonDelegated and Full are written with the part counts 0 and 1; the parts
\* of a ratio are at least 2.
SerializeDelegation(d) ==
    CASE d[1] = "NonDelegated" -> U8(0)
      [] d[1] = "Full" -> U8(1) \o d[2]
      [] d[1] = "Ratio" -> U8(d[2]) \o Iter8(d[3], LAMBDA p : U8(p[1]) \o p[2])

\* DelegationRatio::new
DelegationRatio(d) ==
    LET pools == d[3]
    IN  /\ \A i \in DOMAIN pools : pools[i][1] # 0
        /\ d[2] > 1
        /\ Len(pools) \in 2 .. 8
        /\ FoldSeq(LAMBDA p, sum : sum + p[1], 0, pools) = d[2]

ReadDelegation ==
    Tagged(1, [c \in {0, 1} |-> IF c = 0 THEN Variant("NonDelegated", <<>>)
                                        ELSE Variant("Full", <<ReadHash>>)],
           Checked(Variant("Ratio", <<GetU8, ListOf(1, Row(<<GetU8, ReadHash>>))>>),
                   "DelegationRatio"))

SerializeOwnerStakeDelegation(c) == SerializeDelegation(c.delegation)
ReadOwnerStakeDelegation == Struct(<< <<"delegation", ReadDelegation>> >>)

SerializeStakeDelegation(c) == c.account_id \o SerializeDelegation(c.delegation)
ReadStakeDelegation ==
    Struct(<< <<"account_id", ReadHash>>, <<"delegation", ReadDelegation>> >>)

\* The signature of an account; only single accounts are implemented.
SerializeAccountBinding(a) == U8(1) \o a[2]
ReadAccountBinding ==
    Match([c \in {1, 2} |-> IF c = 1 THEN Variant("Single", <<ReadSignature>>)
                                     ELSE Unimplemented("ReadAccountBinding")])

------------------------------------------------------------------------------
(* Stake pools                                                               *)

SerializeRewardAccount(o) ==
    CASE o = <<>> -> U8(0)
      [] o # <<>> -> U8(IF o[1] = "Single" THEN 1 ELSE 2) \o o[2]

ReadRewardAccount ==
    Match([c \in 0 .. 2 |->
              CASE c = 0 -> Row(<<>>)
                [] c = 1 -> Variant("Single", <<ReadPublicKey>>)
                [] c = 2 -> Variant("Multi", <<ReadHash>>)])

SerializePoolRegistration(p) ==
    U128(p.serial) \o U64(p.start_validity) \o U64(p.permissions)
        \o p.keys.vrf_public_key \o p.keys.kes_public_key
        \o Iter8(p.owners, PutBytes) \o Iter8(p.operators, PutBytes)
        \o SerializeTax(p.rewards) \o SerializeRewardAccount(p.reward_account)

ReadPraosLeader ==
    Struct(<< <<"vrf_public_key", ReadVrfPublicKey>>, <<"kes_public_key", ReadPublicKey>> >>)

PermissionsFromU64 == Only(GetU64, 0 .. MaxPermissions)

ReadPoolRegistration ==
    Struct(<< <<"serial", GetU128>>, <<"start_validity", GetU64>>,
              <<"permissions", PermissionsFromU64>>, <<"keys", ReadPraosLeader>>,
              <<"owners", ListOf(1, ReadPublicKey)>>,
              <<"operators", ListOf(1, ReadPublicKey)>>,
              <<"rewards", ReadTax>>, <<"reward_account", ReadRewardAccount>> >>)

SerializePoolUpdate(u) ==
    u.pool_id \o u.last_pool_reg_hash \o SerializePoolRegistration(u.new_pool_reg)
ReadPoolUpdate ==
    Struct(<< <<"pool_id", ReadHash>>, <<"last_pool_reg_hash", ReadHash>>,
              <<"new_pool_reg", ReadPoolRegistration>> >>)

SerializePoolRetirement(r) == r.pool_id \o U64(r.retirement_time)
ReadPoolRetirement == Struct(<< <<"pool_id", ReadHash>>, <<"retirement_time", GetU64>> >>)

\* The operator's signature starts with 0, which no number of owners is.
SerializePoolSignature(s) ==
    IF s[1] = "Operator" THEN U8(0) \o s[2]
                         ELSE Iter8(s[2], LAMBDA o : U8(o[1]) \o o[2])

SomeOwners(s) == s[2] # <<>>
ReadPoolOwnersSigned ==
    Checked(Variant("Owners", <<ListOf(1, Row(<<GetU8, ReadSignature>>))>>), "SomeOwners")
ReadPoolSignature ==
    Tagged(1, [c \in {0} |-> Variant("Operator", <<ReadSignature>>)], ReadPoolOwnersSigned)

------------------------------------------------------------------------------
(* Tokens                                                                    *)

SerializeTokenName(n) == U8(Len(n)) \o n
NameFits(n) == Len(n) <= MaxTokenName
ReadTokenName == Checked(ListOf(1, GetU8), "NameFits")

SerializePolicy(p) == U8(0)
ReadPolicy == Match([c \in {0} |-> Row(<<>>)])

SerializeTokenIdentifier(t) == t.policy_hash \o U8(Len(t.token_name)) \o t.token_name
ReadTokenIdentifier ==
    Struct(<< <<"policy_hash", ReadHash>>, <<"token_name", ReadTokenName>> >>)

SerializeMintToken(m) ==
    SerializeTokenName(m.name) \o SerializePolicy(m.policy) \o m.to \o ValueBytes(m.value)
ReadMintToken ==
    Struct(<< <<"name", ReadTokenName>>, <<"policy", ReadPolicy>>,
              <<"to", ReadAccountIdentifier>>, <<"value", ReadValue>> >>)

------------------------------------------------------------------------------
(* Votes                                                                     *)

SerializeTreasuryAction(a) == IF a[1] = "NoOp" THEN U8(0) ELSE U8(1) \o U64(a[2])
ReadTreasuryAction ==
    Match([c \in {0, 1} |-> IF c = 0 THEN Variant("NoOp", <<>>)
                                     ELSE Variant("TransferToRewards", <<ReadValue>>)])

SerializeParametersAction(a) == IF a[1] = "NoOp" THEN U8(0) ELSE U8(1) \o U64(a[2])
ReadParametersAction ==
    Match([c \in {0, 1} |-> IF c = 0 THEN Variant("NoOp", <<>>)
                                     ELSE Variant("RewardAdd", <<ReadValue>>)])

SerializeVoteAction(a) ==
    CASE a[1] = "OffChain" -> U8(0)
      [] a[1] = "Treasury" -> U8(1) \o SerializeTreasuryAction(a[2])
      [] a[1] = "Parameters" -> U8(2) \o SerializeParametersAction(a[2])
ReadVoteAction ==
    Match([c \in 0 .. 2 |->
              CASE c = 0 -> Variant("OffChain", <<>>)
                [] c = 1 -> Variant("Treasury", <<ReadTreasuryAction>>)
                [] c = 2 -> Variant("Parameters", <<ReadParametersAction>>)])

SerializeProposal(p) == p.external_id \o U8(p.options) \o SerializeVoteAction(p.action)

\* Options::new_length
ReadOptions == Only(GetU8, 1 .. 16)
ReadProposal ==
    Struct(<< <<"external_id", ReadHash>>, <<"options", ReadOptions>>,
              <<"action", ReadVoteAction>> >>)

SerializePayloadType(t) == U8(IF t = "Public" THEN 1 ELSE 2)
\* Mutant: other octets are taken to be impossible.
PayloadTypeUnreachable ==
    Tagged(1, [c \in {1, 2} |-> Yield(IF c = 1 THEN "Public" ELSE "Private")],
           Unimplemented("ReadPayloadType"))
ReadPayloadType == Match([c \in {1, 2} |-> Yield(IF c = 1 THEN "Public" ELSE "Private")])

SerializeVotePlan(v) ==
    SerializeDate(v.vote_start) \o SerializeDate(v.vote_end)
        \o SerializeDate(v.committee_end) \o SerializePayloadType(v.payload_type)
        \o Iter8(v.proposals, SerializeProposal)
        \o Iter8(v.committee_public_keys, PutBytes)
        \o SerializeTokenIdentifier(v.voting_token)

ReadVotePlan ==
    Struct(<< <<"vote_start", ReadDate>>, <<"vote_end", ReadDate>>,
              <<"committee_end", ReadDate>>, <<"payload_type", ReadPayloadType>>,
              <<"proposals", ListOf(1, ReadProposal)>>,
              <<"committee_public_keys", ListOf(1, ReadPoint)>>,
              <<"voting_token", ReadTokenIdentifier>> >>)

\* The proofs of a vote plan and of an encrypted tally: committee and signature.
SerializeVotePlanProof(p) == p[1] \o p[2]
ReadVotePlanProof == Row(<<ReadCommitteeId, ReadSignature>>)
SerializeEncryptedTallyProof(p) == p[1] \o p[2]
ReadEncryptedTallyProof == Row(<<ReadCommitteeId, ReadSignature>>)

SerializeCiphertext(c) == FlattenSeq(c)
ReadCiphertext == Times(2, ReadPoint)

SerializeEncryptedVote(e) == Iter8(e, SerializeCiphertext)
ReadEncryptedVote == ListOf(1, ReadCiphertext)

\* Announcements, ciphertexts and responses, one of each per bit, and R.
SerializeVoteProof(p) ==
    U8(Len(p[1])) \o Fold(p[1], FlattenSeq) \o Fold(p[2], SerializeCiphertext)
        \o Fold(p[3], FlattenSeq) \o p[4]
ReadVoteProof ==
    Counted(<<1>>, << << <<1>>, Times(3, ReadPoint)>>, << <<1>>, ReadCiphertext>>,
                      << <<1>>, Times(3, ReadScalar)>>, << <<>>, ReadScalar>> >>)

SerializePayload(p) ==
    SerializePayloadType(p[1])
        \o IF p[1] = "Public" THEN U8(p[2])
                              ELSE SerializeEncryptedVote(p[2]) \o SerializeVoteProof(p[3])
ReadPayload ==
    Match([c \in {1, 2} |->
              IF c = 1 THEN Variant("Public", <<GetU8>>)
                       ELSE Variant("Private", <<ReadEncryptedVote, ReadVoteProof>>)])

SerializeVoteCast(c) == c.vote_plan \o U8(c.proposal_index) \o SerializePayload(c.payload)
ReadVoteCast ==
    Struct(<< <<"vote_plan", ReadHash>>, <<"proposal_index", GetU8>>,
              <<"payload", ReadPayload>> >>)

\* The shares, members times options, and the result of a proposal; the
\* result is not written when nobody gave a share.
SerializeShare(s) == FlattenSeq(FlattenSeq(s))
SerializeDecrypted(d) ==
    IF d[1] = <<>>
    THEN U8(0) \o U8(0)
    ELSE U8(Len(d[1])) \o U8(Len(d[2])) \o Fold(d[1], SerializeShare) \o Fold(d[2], U64)

SerializeVoteTally(t) ==
    t.id \o SerializePayloadType(t.payload[1])
         \o IF t.payload[1] = "Public" THEN <<>> ELSE Iter8(t.payload[2], SerializeDecrypted)

ReadShareElement == Row(<<ReadPoint, ReadScalar, ReadScalar>>)
ReadDecrypted ==
    Counted(<<1, 1>>, << << <<1, 2>>, ReadShareElement>>, << <<2>>, GetU64>> >>)
ReadVoteTally ==
    Struct(<< <<"id", ReadHash>>,
              <<"payload", Match([c \in {1, 2} |->
                  IF c = 1 THEN Variant("Public", <<>>)
                           ELSE Variant("Private", <<ListOf(1, ReadDecrypted)>>)])>> >>)

SerializeTallyProof(p) == U8(IF p[1] = "Public" THEN 0 ELSE 1) \o p[2] \o p[3]
ReadTallyProof ==
    Match([c \in {0, 1} |-> Variant(IF c = 0 THEN "Public" ELSE "Private",
                                    <<ReadCommitteeId, ReadSignature>>)])

SerializeEncryptedVoteTally(t) == t.id
ReadEncryptedVoteTally == Struct(<< <<"id", ReadHash>> >>)

------------------------------------------------------------------------------
(* Updates                                                                   *)

SerializeUpdateProposal(p) == SerializeParams(p.changes) \o p.proposer_id
ReadUpdateProposal ==
    Struct(<< <<"changes", ReadParams>>, <<"proposer_id", ReadBftLeaderId>> >>)

SerializeUpdateVote(v) == v.proposal_id \o v.voter_id
ReadUpdateVote ==
    Struct(<< <<"proposal_id", ReadHash>>, <<"voter_id", ReadBftLeaderId>> >>)

\* Both are authorised by the signature of a BFT leader.
SerializeBftSignature(s) == s
ReadBftSignature == ReadSignature

------------------------------------------------------------------------------
(* All of them                                                               *)

\* CertificatePayload::from and the payload_data of every Payload
SerializeCertificate(c) ==
    CASE c[1] = "NoExtra" -> <<>>
      [] c[1] = "StakeDelegation" -> SerializeStakeDelegation(c[2])
      [] c[1] = "OwnerStakeDelegation" -> SerializeOwnerStakeDelegation(c[2])
      [] c[1] = "PoolRegistration" -> SerializePoolRegistration(c[2])
      [] c[1] = "PoolRetirement" -> SerializePoolRetirement(c[2])
      [] c[1] = "PoolUpdate" -> SerializePoolUpdate(c[2])
      [] c[1] = "VotePlan" -> SerializeVotePlan(c[2])
      [] c[1] = "VoteCast" -> SerializeVoteCast(c[2])
      [] c[1] = "VoteTally" -> SerializeVoteTally(c[2])
      [] c[1] = "EncryptedVoteTally" -> SerializeEncryptedVoteTally(c[2])
      [] c[1] = "UpdateProposal" -> SerializeUpdateProposal(c[2])
      [] c[1] = "UpdateVote" -> SerializeUpdateVote(c[2])
      [] c[1] = "MintToken" -> SerializeMintToken(c[2])
      [] c[1] = "Evm" -> SerializeEvm(c[2])

ReadCertificate(type) ==
    CASE type = "NoExtra" -> Row(<<>>)
      [] type = "StakeDelegation" -> ReadStakeDelegation
      [] type = "OwnerStakeDelegation" -> ReadOwnerStakeDelegation
      [] type = "PoolRegistration" -> ReadPoolRegistration
      [] type = "PoolRetirement" -> ReadPoolRetirement
      [] type = "PoolUpdate" -> ReadPoolUpdate
      [] type = "VotePlan" -> ReadVotePlan
      [] type = "VoteCast" -> ReadVoteCast
      [] type = "VoteTally" -> ReadVoteTally
      [] type = "EncryptedVoteTally" -> ReadEncryptedVoteTally
      [] type = "UpdateProposal" -> ReadUpdateProposal
      [] type = "UpdateVote" -> ReadUpdateVote
      [] type = "MintToken" -> ReadMintToken
      [] type = "Evm" -> ReadEvm

\* HAS_AUTH, and what authorises a certificate (payload_auth_data)
PoolTypes == {"PoolRegistration", "PoolRetirement", "PoolUpdate"}
UpdateTypes == {"UpdateProposal", "UpdateVote"}
need_auth(type) ==
    type \in PoolTypes \cup UpdateTypes
        \cup {"StakeDelegation", "VotePlan", "VoteTally", "EncryptedVoteTally"}

SerializeAuth(type, a) ==
    CASE ~need_auth(type) -> <<>>
      [] type \in PoolTypes -> SerializePoolSignature(a)
      [] type \in UpdateTypes -> SerializeBftSignature(a)
      [] type = "StakeDelegation" -> SerializeAccountBinding(a)
      [] type = "VotePlan" -> SerializeVotePlanProof(a)
      [] type = "VoteTally" -> SerializeTallyProof(a)
      [] type = "EncryptedVoteTally" -> SerializeEncryptedTallyProof(a)

ReadAuth(type) ==
    CASE ~need_auth(type) -> Row(<<>>)
      [] type \in PoolTypes -> ReadPoolSignature
      [] type \in UpdateTypes -> ReadBftSignature
      [] type = "StakeDelegation" -> ReadAccountBinding
      [] type = "VotePlan" -> ReadVotePlanProof
      [] type = "VoteTally" -> ReadTallyProof
      [] type = "EncryptedVoteTally" -> ReadEncryptedTallyProof

==============================================================================
