---------------------------- MODULE FragmentFormats ----------------------------
(* Transactions, fragments, headers and blocks, and the builders that make   *)
(* transactions: InputOutputBuilder chooses inputs and outputs under a fee,  *)
(* TxBuilder lays the parts of the transaction out in one array of octets.   *)
EXTENDS CertificateFormats, LegacyAddress, FiniteSets

------------------------------------------------------------------------------
(* Inputs, outputs, witnesses                                                *)

\* The first octet is the index of an output, or 0xff for an account.
InputBytes(i) == U8(i.index_or_account) \o ValueBytes(i.value) \o i.input_ptr
ReadInput ==
    Struct(<< <<"index_or_account", GetU8>>, <<"value", ReadValue>>,
              <<"input_ptr", ReadHash>> >>)

\* What an input spends: an output of a transaction, or value of an account.
AccountIndex == 255
from_utxo(transaction_id, output_index, value) ==
    [index_or_account |-> output_index, value |-> value, input_ptr |-> transaction_id]
from_account(id, value) ==
    [index_or_account |-> AccountIndex, value |-> value, input_ptr |-> id]
from_enum(e) ==
    IF e[1] = "AccountInput" THEN from_account(e[2], e[3]) ELSE from_utxo(e[2], e[3], e[4])
get_type(i) == IF i.index_or_account = AccountIndex THEN "Account" ELSE "Utxo"
to_enum(i) ==
    IF get_type(i) = "Account" THEN <<"AccountInput", i.input_ptr, i.value>>
    ELSE <<"UtxoInput", i.input_ptr, i.index_or_account, i.value>>

OutputBytes(o) == SerializeAddress(o.address) \o ValueBytes(o.value)
ReadOutput == Struct(<< <<"address", ReadAddress>>, <<"value", ReadValue>> >>)

\* TreeIndex::pack and unpack: four bits of depth and three bits per level.
pack(ti) == Len(ti) * 4096 + ti[1] * 512 + IF Len(ti) = 2 THEN ti[2] * 64 ELSE 0
PackedIndexes ==
    {pack(ti) : ti \in {<<a>> : a \in 0 .. 7} \cup ((0 .. 7) \X (0 .. 7))}
ReadTreeIndex == Only(GetU16, PackedIndexes)

\* Ord for TreeIndex, on packed indexes
UnpackedPath(n) ==
    IF n \div 4096 = 1 THEN << (n \div 512) % 8, -1 >>
                       ELSE << (n \div 512) % 8, (n \div 64) % 8 >>
IndexBefore(m, n) ==
    LET p == UnpackedPath(m)
        q == UnpackedPath(n)
    IN  p[1] < q[1] \/ (p[1] = q[1] /\ p[2] < q[2])

SerializeMultisig(w) ==
    U8(Len(w)) \o Fold(w, LAMBDA e : U16(e[1]) \o e[2] \o e[3])

\* A count that is not zero, the first entry, and so many further entries as
\* the count says, with increasing indexes.
IndexesInOrder(w) ==
    /\ Len(w) > 1
    /\ \A i \in 1 .. Len(w) - 1 : IndexBefore(w[i][1], w[i + 1][1])
ReadMultisig ==
    Checked(ListAndOne(1, Row(<<ReadTreeIndex, ReadPublicKey, ReadSignature>>)),
            "IndexesInOrder")

SerializeWitness(w) ==
    CASE w[1] = "OldUtxo" -> U8(0) \o w[2] \o w[3] \o w[4]
      [] w[1] = "Utxo" -> U8(1) \o w[2]
      [] w[1] = "Account" -> U8(2) \o U32(w[2]) \o w[3]
      [] w[1] = "Multisig" -> U8(3) \o U32(w[2]) \o SerializeMultisig(w[3])
ReadWitness ==
    Match([c \in 0 .. 3 |->
              CASE c = 0 -> Variant("OldUtxo", <<ReadPublicKey, ReadHash, ReadSignature>>)
                [] c = 1 -> Variant("Utxo", <<ReadSignature>>)
                [] c = 2 -> Variant("Account", <<GetU32, ReadSignature>>)
                [] c = 3 -> Variant("Multisig", <<GetU32, ReadMultisig>>)])

------------------------------------------------------------------------------
(* Transactions: TxBuilder writes them, get_spine reads them                 *)

set_payload(data, certificate) == data \o SerializeCertificate(certificate)
set_expiry_date(data, date) == data \o SerializeDate(date)
set_ios(data, inputs, outputs) ==
    data \o U8(Len(inputs)) \o U8(Len(outputs)) \o Fold(inputs, InputBytes)
         \o Fold(outputs, OutputBytes)
set_witnesses(data, witnesses) == data \o Fold(witnesses, SerializeWitness)
set_payload_auth(data, type, auth) == data \o SerializeAuth(type, auth)

BuildTransaction(type, tx) ==
    LET with_payload == set_payload(<<>>, <<type, tx.payload>>)
        with_date == set_expiry_date(with_payload, tx.valid_until)
        with_ios == set_ios(with_date, tx.inputs, tx.outputs)
        with_witnesses == set_witnesses(with_ios, tx.witnesses)
    IN  set_payload_auth(with_witnesses, type, tx.payload_auth)

get_spine(type) ==
    Exact(Struct(<< <<"payload", ReadCertificate(type)>>, <<"valid_until", ReadDate>>,
                    <<"ios", Counted(<<1, 1>>, << << <<1>>, ReadInput>>,
                                                  << <<2>>, ReadOutput>>,
                                                  << <<1>>, ReadWitness>> >>)>>,
                    <<"payload_auth", ReadAuth(type)>> >>))

\* The accessors of TransactionSlice
SliceOf(spine) ==
    [payload |-> spine.payload, valid_until |-> spine.valid_until,
     inputs |-> spine.ios[1], outputs |-> spine.ios[2], witnesses |-> spine.ios[3],
     payload_auth |-> spine.payload_auth]

------------------------------------------------------------------------------
(* Fees and balances                                                         *)

MaxValue == 256 ^ U64Width - 1
saturating_add(a, b) == IF a + b > MaxValue THEN MaxValue ELSE a + b

\* An Option<Value> is a sequence of at most one.
FeesPerCertificate(fee, type) ==
    CASE type = "PoolRegistration" -> fee.per_certificate_fees[1]
      [] type = "StakeDelegation" -> fee.per_certificate_fees[2]
      [] type = "OwnerStakeDelegation" -> fee.per_certificate_fees[3]
      [] OTHER -> <<>>
FeesPerVoteCertificate(fee, type) ==
    CASE type = "VotePlan" -> fee.per_vote_certificate_fees[1]
      [] type = "VoteCast" -> fee.per_vote_certificate_fees[2]
      [] OTHER -> <<>>

fees_for_certificate(fee, type) ==
    LET f1 == FeesPerCertificate(fee, type)
        f2 == FeesPerVoteCertificate(fee, type)
    IN  CASE f1 # <<>> -> f1[1] [] f1 = <<>> /\ f2 # <<>> -> f2[1] [] OTHER -> fee.certificate

fees_for_inputs_outputs(fee, inputs, outputs) ==
    LET n == fee.coefficient * (inputs + outputs)
    IN  IF n > MaxValue THEN MaxValue ELSE n

calculate(fee, type, inputs, outputs) ==
    saturating_add(saturating_add(fee.constant,
                                  fees_for_inputs_outputs(fee, inputs, outputs)),
                   IF type \in {"NoExtra", "Evm"} THEN 0 ELSE fees_for_certificate(fee, type))

calculate_tx(fee, type, tx) == calculate(fee, type, Len(tx.inputs), Len(tx.outputs))

\* A value, or an error when a sum or a difference leaves the range of u64.
Sum(values) == FoldSeq(LAMBDA v, sum : sum + v, 0, values)
ValuesOf(s) == [i \in DOMAIN s |-> s[i].value]

\* Balance::Zero is the balance 0; a negative balance is a negative number.
balance(ios, fee) ==
    LET inputs == Sum(ValuesOf(ios.inputs))
        z == Sum(ValuesOf(ios.outputs)) + fee
    IN  IF inputs > MaxValue \/ z > MaxValue THEN <<"MathErr">>
                                             ELSE <<"Balance", inputs - z>>

\* Mutant: the fee of the certificate is left out.
EstimateWithoutPayload(ios, type, fee) ==
    calculate(fee, "NoExtra", Len(ios.inputs), Len(ios.outputs))
estimate_fee(ios, type, fee) == calculate(fee, type, Len(ios.inputs), Len(ios.outputs))
get_balance(ios, type, fee) == balance(ios, estimate_fee(ios, type, fee))

MaxInputs == 255
add_input(ios, input) ==
    IF Len(ios.inputs) = MaxInputs THEN ios
                                   ELSE [ios EXCEPT !.inputs = Append(@, input)]
add_output(ios, output) ==
    IF Len(ios.outputs) = MaxInputs THEN ios
                                    ELSE [ios EXCEPT !.outputs = Append(@, output)]
remove_input(ios, i) ==
    IF i \in DOMAIN ios.inputs THEN [ios EXCEPT !.inputs = RemoveAt(@, i)] ELSE ios
remove_output(ios, i) ==
    IF i \in DOMAIN ios.outputs THEN [ios EXCEPT !.outputs = RemoveAt(@, i)] ELSE ios

\* InputOutputBuilder::seal: the inputs pay for the outputs and the fee.
seal(ios, type, fee) ==
    IF get_balance(ios, type, fee) = <<"Balance", 0>> THEN <<"Sealed", 0, ios>>
                                                       ELSE <<"Error">>

\* With an address for the change, an output is added when the change pays
\* for it; what is left unassigned is returned with the inputs and outputs.
WithChange(ios, address) == add_output(ios, [address |-> address, value |-> 0])

seal_with_output_policy(ios, type, fee, policy) ==
    LET b == get_balance(ios, type, fee)
        more == WithChange(ios, policy[2])
        change == get_balance(more, type, fee)
    IN  CASE b[1] = "MathErr" -> <<"Error">>
          [] b[1] = "Balance" /\ b[2] < 0 -> <<"Error">>
          [] b[1] = "Balance" /\ b[2] = 0 -> <<"Sealed", 0, ios>>
          [] b[1] = "Balance" /\ b[2] > 0 /\ policy[1] = "Forget" -> <<"Sealed", b[2], ios>>
          [] b[1] = "Balance" /\ b[2] > 0 /\ policy[1] = "One" ->
                IF Len(ios.outputs) = MaxInputs THEN <<"Error">>
                ELSE IF change[1] = "Balance" /\ change[2] > 0
                THEN <<"Sealed", 0, [more EXCEPT !.outputs[Len(more.outputs)].value = change[2]]>>
                ELSE <<"Sealed", b[2], ios>>

------------------------------------------------------------------------------
(* The unspent outputs of the legacy chain                                   *)

ReadOldAddress == [t |-> "old_address"]

SerializeUtxoDeclaration(d) ==
    Iter8(d, LAMBDA e : ValueBytes(e[1]) \o U16(Len(e[2])) \o e[2])
FewEntries(d) == Len(d) < 255
ReadUtxoDeclaration ==
    Checked(ListOf(1, Row(<<ReadValue, Frame(2, ReadOldAddress)>>)), "FewEntries")

------------------------------------------------------------------------------
(* Fragments: a padding octet, a tag and a body.  A transaction is kept as   *)
(* the octets it was built of or read from.                                  *)

FragmentTag ==
    [Initial |-> 0, OldUtxoDeclaration |-> 1, NoExtra |-> 2,
     OwnerStakeDelegation |-> 3, StakeDelegation |-> 4, PoolRegistration |-> 5,
     PoolRetirement |-> 6, PoolUpdate |-> 7, UpdateProposal |-> 8, UpdateVote |-> 9,
     VotePlan |-> 10, VoteCast |-> 11, VoteTally |-> 12, EncryptedVoteTally |-> 13,
     MintToken |-> 14, Evm |-> 15]

FragmentNamed(code) == CHOOSE n \in DOMAIN FragmentTag : FragmentTag[n] = code

to_raw(f) ==
    U8(0) \o U8(FragmentTag[f[1]])
          \o CASE f[1] = "Initial" -> SerializeParams(f[2])
               [] f[1] = "OldUtxoDeclaration" -> SerializeUtxoDeclaration(f[2])
               [] OTHER -> f[2]

\* A transaction is read to the end of the buffer, a declaration or a list of
\* parameters only as far as it goes.
FragmentBody(name) ==
    CASE name = "Initial" -> ReadParams
      [] name = "OldUtxoDeclaration" -> ReadUtxoDeclaration
      [] OTHER -> Raw(get_spine(name))

ReadFragment ==
    Match([padding \in {0} |->
        Match([code \in {FragmentTag[n] : n \in DOMAIN FragmentTag} |->
                  Variant(FragmentNamed(code), <<FragmentBody(FragmentNamed(code))>>)])])

SerializeFragmentRaw(raw) == U32(Len(raw)) \o raw
ReadFragmentRaw == Frame(U32Width, GetSliceEnd)

------------------------------------------------------------------------------
(* Headers and blocks                                                        *)

BlockVersion == [Genesis |-> 0, Ed25519Signed |-> 1, KesVrfproof |-> 2]
VersionNamed(code) == CHOOSE n \in DOMAIN BlockVersion : BlockVersion[n] = code

CommonBytes(h) ==
    U32(h.content_size) \o SerializeDate(h.date) \o U32(h.height)
        \o h.content_hash \o h.parent_hash

HeaderBytes(h) == U16(BlockVersion[h.version]) \o CommonBytes(h.common) \o FlattenSeq(h.proof)

ReadCommon ==
    Struct(<< <<"content_size", GetU32>>, <<"date", ReadDate>>, <<"height", GetU32>>,
              <<"content_hash", ReadHash>>, <<"parent_hash", ReadHash>> >>)

\* Leader and signature; pool, VRF proof and KES signature.
ReadProof(version) ==
    CASE version = "Genesis" -> Row(<<>>)
      [] version = "Ed25519Signed" -> Row(<<ReadHash, ReadSignature>>)
      [] version = "KesVrfproof" -> Row(<<ReadHash, ReadSignature, ReadSignature>>)

\* HeaderSlice::from_slice: the size of the version, no octet more or less.
ReadHeader ==
    Exact(Tagged(2, [code \in {BlockVersion[n] : n \in DOMAIN BlockVersion} |->
                        Struct(<< <<"version", Yield(VersionNamed(code))>>,
                                  <<"common", ReadCommon>>,
                                  <<"proof", ReadProof(VersionNamed(code))>> >>)],
                 Refuse))

SerializeHeaderRaw(raw) == U16(Len(raw)) \o raw
ReadHeaderRaw == Frame(2, ReadHeader)

ContentsBytes(fragments) == Fold(fragments, LAMBDA f : SerializeFragmentRaw(to_raw(f)))
ContentsHash(fragments) == HashBytes(ContentsBytes(fragments))
ContentsSize(fragments) == Len(ContentsBytes(fragments))

SerializeBlock(b) == SerializeHeaderRaw(HeaderBytes(b.header)) \o ContentsBytes(b.contents)

==============================================================================
