---------------------------- MODULE ConfigFormats ----------------------------
(* EVM transactions and config parameters, with what they are made of.       *)
EXTENDS ByteFormats

------------------------------------------------------------------------------
(* EVM transactions of a build with the feature "evm".  An address (H160)    *)
(* and a hash (H256) have the size of an id, a U256 that of a u128.          *)

serialize_address(a) == a
serialize_u256(n) == U128(n)
serialize_h256(h) == h
serialize_bytecode(code) == U64(Len(code)) \o code
serialize_gas_limit(n) == U64(n)
serialize_access_list(list) ==
    U64(Len(list)) \o Fold(list, LAMBDA e : serialize_address(e[1]) \o U64(Len(e[2]))
                                               \o Fold(e[2], serialize_h256))

\* A call names the address it calls, a create2 a salt.
SerializeEvm(t) ==
    U8(CASE t[1] = "Create" -> 0 [] t[1] = "Create2" -> 1 [] t[1] = "Call" -> 2)
        \o serialize_address(t[2].caller)
        \o (IF t[1] = "Call" THEN serialize_address(t[2].address) ELSE <<>>)
        \o serialize_u256(t[2].value) \o serialize_bytecode(t[2].code)
        \o (IF t[1] = "Create2" THEN serialize_h256(t[2].salt) ELSE <<>>)
        \o serialize_gas_limit(t[2].gas_limit) \o serialize_access_list(t[2].access_list)

read_address == GetSlice(IdSize)
read_h256 == GetSlice(IdSize)
read_u256 == GetU128
read_bytecode == Frame(U64Width, GetSliceEnd)
ReadAccessList == [t |-> "access_list"]

EvmFields(name) ==
    << <<"caller", read_address>> >>
      \o (IF name = "Call" THEN << <<"address", read_address>> >> ELSE <<>>)
      \o << <<"value", read_u256>>, <<"code", read_bytecode>> >>
      \o (IF name = "Create2" THEN << <<"salt", read_h256>> >> ELSE <<>>)
      \o << <<"gas_limit", GetU64>>, <<"access_list", ReadAccessList>> >>
ReadEvm ==
    Match([c \in 0 .. 2 |->
              LET name == <<"Create", "Create2", "Call">>[c + 1]
              IN  Variant(name, <<Struct(EvmFields(name))>>)])

------------------------------------------------------------------------------
(* The access list: past the end of the octets its reader goes on with       *)
(* defaults, as often as the counts say; keys that are zero are left out.    *)

ZeroId == [i \in 1 .. IdSize |-> 0]
Defaulted(r, default, b) == IF r.st = "ok" THEN r ELSE Ok(default, b)

\* Counts that no memory holds stop the program.
MemoryLimit == 256

RECURSIVE ReadKeys(_, _)
ReadKeys(n, b) ==
    IF n = 0 \/ b = <<>> THEN Ok(<<>>, b)
    ELSE LET key == Defaulted(get_slice(IdSize, b), ZeroId, b)
         IN  AndThen(ReadKeys(n - 1, key.rest), LAMBDA keys, left :
                 Ok((IF key.v = ZeroId THEN <<>> ELSE <<key.v>>) \o keys, left))

RECURSIVE ReadAccess(_, _)
ReadAccess(n, b) ==
    IF n = 0 THEN Ok(<<>>, b)
    ELSE LET address == Defaulted(get_slice(IdSize, b), ZeroId, b)
             count == Defaulted(get_uint(U64Width, address.rest), 0, address.rest)
         IN  AndThen(ReadKeys(count.v, count.rest), LAMBDA keys, rest :
             AndThen(ReadAccess(n - 1, rest), LAMBDA more, left :
                 Ok(<< <<address.v, keys>> >> \o more, left)))

read_access_list(b) ==
    AndThen(get_uint(U64Width, b), LAMBDA n, rest :
        IF n >= MemoryLimit THEN Panic("read_access_list") ELSE ReadAccess(n, rest))

------------------------------------------------------------------------------
(* Keys, addresses, values and config parameters: how they are written and   *)
(* how they are read (chain-addr and the key, value, rewards, fee and config *)
(* modules of chain-impl-mockchain).  Ed25519 and KES keys are any octets of *)
(* their size; a group element, a scalar and a VRF key are octets that the   *)
(* curve accepts.                                                            *)

CONSTANTS CurvePoints  \* the octets that encode a group element or a scalar

ASSUME CurvePointsAssumption == CurvePoints \subseteq Octet

------------------------------------------------------------------------------
(* Keys, hashes, values, dates                                               *)

ReadHash == GetSlice(IdSize)
ReadPublicKey == GetSlice(IdSize)
ReadSignature == GetSlice(SigSize)
ReadBftLeaderId == ReadPublicKey
ReadCommitteeId == GetSlice(IdSize)
ReadAccountIdentifier == ReadPublicKey
ReadPoint == Only(GetSlice(1), {<<o>> : o \in CurvePoints})
ReadScalar == Only(GetSlice(1), {<<o>> : o \in CurvePoints})
ReadVrfPublicKey == ReadPoint

ValueBytes(v) == U64(v)
ReadValue == GetU64

SerializeDate(d) == U32(d.epoch) \o U32(d.slot_id)
ReadDate == Struct(<< <<"epoch", GetU32>>, <<"slot_id", GetU32>> >>)

------------------------------------------------------------------------------
(* Addresses: one octet of kind and discrimination, and one or two keys      *)

Kinds == [Single |-> 3, Group |-> 4, Account |-> 5, Multisig |-> 6, Script |-> 7]
KeysOf(kind) == IF kind = "Group" THEN 2 ELSE 1
KindOf(first_byte) == CHOOSE k \in DOMAIN Kinds : Kinds[k] = first_byte % 128
DiscriminationOf(first_byte) == IF first_byte < 128 THEN "Production" ELSE "Test"

SerializeAddress(a) ==
    U8(Kinds[a.kind[1]] + IF a.discrimination = "Test" THEN 128 ELSE 0)
        \o FlattenSeq(Tail(a.kind))

\* The formats of the first octets of the given kinds.
AddressFormats(kinds) ==
    [o \in {k + d : k \in {Kinds[n] : n \in kinds}, d \in {0, 128}} |->
        Struct(<< <<"discrimination", Yield(DiscriminationOf(o))>>,
                  <<"kind", Variant(KindOf(o), [i \in 1 .. KeysOf(KindOf(o)) |->
                                                   ReadPublicKey])>> >>)]

ReadAddress == Match(AddressFormats(DOMAIN Kinds))

\* The stream reader knows no scripts, and reaches unreachable!() for every
\* octet it does not know.
DeserializeAddress ==
    Tagged(1, AddressFormats(DOMAIN Kinds \ {"Script"}),
           Row(<<GetU8, Unimplemented("DeserializeAddress")>>))

\* from_bytes wants a known kind and the length of that kind.
AddressFromBytes == Exact(ReadAddress)

------------------------------------------------------------------------------
(* The payloads of config parameters                                         *)

SerializeTax(t) ==
    U64(t.fixed) \o U64(t.ratio.numerator) \o U64(t.ratio.denominator)
        \o U64(NoneIsZero(t.max_limit))

RatioAtMostOne(t) ==
    t.ratio.denominator # 0 /\ t.ratio.numerator <= t.ratio.denominator

ReadTax ==
    Checked(Struct(<< <<"fixed", GetU64>>,
                      <<"ratio", Struct(<< <<"numerator", GetU64>>,
                                           <<"denominator", GetU64>> >>)>>,
                      <<"max_limit", ZeroIsNone(GetU64)>> >>),
            "RatioAtMostOne")

RatioPayload(r) == U64(r.numerator) \o U64(r.denominator)
RatioFormat ==
    Struct(<< <<"numerator", GetU64>>, <<"denominator", NonZero(GetU64)>> >>)

RewardPayload(p) ==
    U8(IF p[1] = "Linear" THEN 1 ELSE 2) \o U64(p[2].constant)
        \o RatioPayload(p[2].ratio) \o U32(p[2].epoch_start) \o U32(p[2].epoch_rate)

RewardFields ==
    Struct(<< <<"constant", GetU64>>, <<"ratio", RatioFormat>>,
              <<"epoch_start", GetU32>>, <<"epoch_rate", NonZero(GetU32)>> >>)
RewardFormat ==
    Match([c \in {1, 2} |->
              Variant(IF c = 1 THEN "Linear" ELSE "Halving", <<RewardFields>>)])

DiscriminationPayload(d) == U8(IF d = "Production" THEN 1 ELSE 2)
DiscriminationFormat ==
    Match([c \in {1, 2} |-> Yield(IF c = 1 THEN "Production" ELSE "Test")])

ConsensusPayload(c) == U16(IF c = "Bft" THEN 1 ELSE 2)
ConsensusFormat ==
    Tagged(2, [c \in {1, 2} |-> Yield(IF c = 1 THEN "Bft" ELSE "GenesisPraos")], Refuse)

BoolPayload(b) == U8(IF b THEN 1 ELSE 0)
BoolFormat == Match([c \in {0, 1} |-> Yield(c = 1)])

CappingPayload(c) == U32(c[1]) \o U32(c[2])
CappingFormat == Row(<<NonZero(GetU32), NonZero(GetU32)>>)

\* The fees per certificate are not in the payload of a linear fee.
LinearFeePayload(f) == U64(f.constant) \o U64(f.coefficient) \o U64(f.certificate)
LinearFeeFormat ==
    Struct(<< <<"constant", GetU64>>, <<"coefficient", GetU64>>,
              <<"certificate", GetU64>>,
              <<"per_certificate_fees", Yield(<< <<>>, <<>>, <<>> >>)>>,
              <<"per_vote_certificate_fees", Yield(<< <<>>, <<>> >>)>> >>)

\* Registration, delegation and owner's delegation; vote plan and vote cast.
CertificateFeePayload(fs) == Fold(fs, LAMBDA o : U64(NoneIsZero(o)))
CertificateFeeFormat == Times(3, ZeroIsNone(GetU64))
VoteFeePayload(fs) == Fold(fs, LAMBDA o : U64(NoneIsZero(o)))
VoteFeeFormat == Times(2, ZeroIsNone(GetU64))

\* The forks of the EVM: four are written, two of them are read.
EvmConfig == <<"Frontier", "Istanbul", "Berlin", "London">>
EvmConfigPayload(c) == U8((CHOOSE i \in DOMAIN EvmConfig : EvmConfig[i] = c) - 1)
EvmConfigFormat == Match([c \in {1, 2} |-> Yield(EvmConfig[c + 1])])

EvmEnvPayload(e) == serialize_u256(e.gas_price) \o serialize_u256(e.block_gas_limit)
EvmEnvFormat == Struct(<< <<"gas_price", read_u256>>, <<"block_gas_limit", read_u256>> >>)

------------------------------------------------------------------------------
(* Config parameters: a name and its data                                    *)

Tag ==
    [Discrimination |-> 1, Block0Date |-> 2, ConsensusVersion |-> 3,
     SlotsPerEpoch |-> 4, SlotDuration |-> 5, EpochStabilityDepth |-> 6,
     ConsensusGenesisPraosActiveSlotsCoeff |-> 8, BlockContentMaxSize |-> 9,
     AddBftLeader |-> 11, RemoveBftLeader |-> 12, LinearFee |-> 14,
     ProposalExpiration |-> 15, KesUpdateSpeed |-> 16, TreasuryAdd |-> 17,
     TreasuryParams |-> 18, RewardPot |-> 19, RewardParams |-> 20,
     PerCertificateFees |-> 21, FeesInTreasury |-> 22, RewardLimitNone |-> 23,
     RewardLimitByAbsoluteStake |-> 24, PoolRewardParticipationCapping |-> 25,
     AddCommitteeId |-> 26, RemoveCommitteeId |-> 27,
     PerVoteCertificateFees |-> 28, TransactionMaxExpiryEpochs |-> 29,
     EvmConfiguration |-> 30, EvmEnvironment |-> 31]

from_u16(code) == CHOOSE n \in DOMAIN Tag : Tag[n] = code

U64Params == {"Block0Date", "ConsensusGenesisPraosActiveSlotsCoeff", "TreasuryAdd",
              "RewardPot"}
U32Params == {"SlotsPerEpoch", "EpochStabilityDepth", "BlockContentMaxSize",
              "ProposalExpiration", "KesUpdateSpeed"}
U8Params == {"SlotDuration", "TransactionMaxExpiryEpochs"}

\* A date and a value are a u64, the coefficient of the active slots is in
\* thousandths, a committee is its public key.
Block0DatePayload(date) == U64(date)
ValuePayload(value) == U64(value)
MilliPayload(milli) == U64(milli)
CommitteeIdPayload(id) == id
CommitteeIdFormat == Exact(ReadPublicKey)
BftLeaderPayload(id) == id
BftLeaderFormat == Exact(ReadBftLeaderId)
TaxPayload(tax) == SerializeTax(tax)
TaxFormat == Exact(ReadTax)

to_payload(name, data) ==
    CASE name = "Block0Date" -> Block0DatePayload(data)
      [] name \in {"TreasuryAdd", "RewardPot"} -> ValuePayload(data)
      [] name = "ConsensusGenesisPraosActiveSlotsCoeff" -> MilliPayload(data)
      [] name \in U32Params -> U32(data)
      [] name \in U8Params -> U8(data)
      [] name \in {"AddBftLeader", "RemoveBftLeader"} -> BftLeaderPayload(data)
      [] name \in {"AddCommitteeId", "RemoveCommitteeId"} -> CommitteeIdPayload(data)
      [] name = "Discrimination" -> DiscriminationPayload(data)
      [] name = "ConsensusVersion" -> ConsensusPayload(data)
      [] name = "LinearFee" -> LinearFeePayload(data)
      [] name = "TreasuryParams" -> TaxPayload(data)
      [] name = "RewardParams" -> RewardPayload(data)
      [] name = "PerCertificateFees" -> CertificateFeePayload(data)
      [] name = "PerVoteCertificateFees" -> VoteFeePayload(data)
      [] name = "FeesInTreasury" -> BoolPayload(data)
      [] name = "RewardLimitByAbsoluteStake" -> RatioPayload(data)
      [] name = "PoolRewardParticipationCapping" -> CappingPayload(data)
      [] name = "RewardLimitNone" -> <<>>
      [] name = "EvmConfiguration" -> EvmConfigPayload(data)
      [] name = "EvmEnvironment" -> EvmEnvPayload(data)

\* Every payload is read to its end but those of the capping and the fork.
from_payload(name) ==
    CASE name \in U64Params -> Exact(GetU64)
      [] name \in U32Params -> Exact(GetU32)
      [] name \in U8Params -> Exact(GetU8)
      [] name \in {"AddBftLeader", "RemoveBftLeader"} -> BftLeaderFormat
      [] name \in {"AddCommitteeId", "RemoveCommitteeId"} -> CommitteeIdFormat
      [] name = "Discrimination" -> Exact(DiscriminationFormat)
      [] name = "ConsensusVersion" -> Exact(ConsensusFormat)
      [] name = "LinearFee" -> Exact(LinearFeeFormat)
      [] name = "TreasuryParams" -> TaxFormat
      [] name = "RewardParams" -> Exact(RewardFormat)
      [] name = "PerCertificateFees" -> Exact(CertificateFeeFormat)
      [] name = "PerVoteCertificateFees" -> Exact(VoteFeeFormat)
      [] name = "FeesInTreasury" -> Exact(BoolFormat)
      [] name = "RewardLimitByAbsoluteStake" -> Exact(RatioFormat)
      [] name = "PoolRewardParticipationCapping" -> CappingFormat
      [] name = "RewardLimitNone" -> Exact(Yield("None"))
      [] name = "EvmConfiguration" -> EvmConfigFormat
      [] name = "EvmEnvironment" -> Exact(EvmEnvFormat)

TagLen(tag, len) == tag * 512 + len
get_len(taglen) == taglen % 512
get_tag(taglen) == taglen \div 512

TagOf(p) == Tag[p[1]]

SerializeParam(p) ==
    LET bytes == to_payload(p[1], p[2])
    IN  U16(TagLen(TagOf(p), Len(bytes))) \o bytes

ReadParam ==
    TagLenOf([code \in {Tag[n] : n \in DOMAIN Tag} |->
                 Variant(from_u16(code), <<from_payload(from_u16(code))>>)])

SerializeParams(ps) == Iter16(ps, SerializeParam)
ReadParams == ListOf(2, ReadParam)
==============================================================================
