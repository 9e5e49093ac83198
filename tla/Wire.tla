---------------------------------- MODULE Wire ----------------------------------
(* Nodes that write, send, receive, relay and keep what the format modules   *)
(* describe.  A client assembles a transaction with InputOutputBuilder and   *)
(* TxBuilder, or writes one of the given messages; the octets may be damaged *)
(* once on their way; the receiver reads them, and sends on what it has read *)
(* or puts it in a block.                                                    *)
EXTENDS RecoveryFormats, ClientFormats

------------------------------------------------------------------------------
(* The decoder runs the descriptions of the format modules on octets, as     *)
(* chain-ser's ReadBuf and Codec run the read functions: a value and the     *)
(* octets left over, an error, or a panic.                                   *)


\* The validations of the readers, by the names the descriptions give them.
Accepts(predicate, v) ==
    CASE predicate = "RatioAtMostOne" -> RatioAtMostOne(v)
      [] predicate = "DelegationRatio" -> DelegationRatio(v)
      [] predicate = "SomeOwners" -> SomeOwners(v)
      [] predicate = "NameFits" -> NameFits(v)
      [] predicate = "IndexesInOrder" -> IndexesInOrder(v)
      [] predicate = "FewEntries" -> FewEntries(v)
      [] predicate = "LanesInOrder" -> LanesInOrder(v)
      [] predicate = "DistinctVoters" -> DistinctVoters(v)

RECURSIVE Read(_, _), ReadSeq(_, _), ReadMany(_, _, _), ReadParts(_, _, _)

\* One description after the other; n times the same; the parts of a Counted.
ReadSeq(fs, b) ==
    IF fs = <<>> THEN Ok(<<>>, b)
    ELSE AndThen(Read(Head(fs), b), LAMBDA v, rest :
         AndThen(ReadSeq(Tail(fs), rest), LAMBDA vs, left : Ok(<<v>> \o vs, left)))

ReadMany(n, f, b) ==
    IF n = 0 THEN Ok(<<>>, b)
    ELSE AndThen(Read(f, b), LAMBDA v, rest :
         AndThen(ReadMany(n - 1, f, rest), LAMBDA vs, left : Ok(<<v>> \o vs, left)))

ReadParts(parts, counts, b) ==
    IF parts = <<>> THEN Ok(<<>>, b)
    ELSE LET mult == parts[1][1]
             f == parts[1][2]
             part == CASE Len(mult) = 0 -> Read(f, b)
                       [] Len(mult) = 1 -> ReadMany(counts[mult[1]], f, b)
                       [] Len(mult) = 2 -> ReadMany(counts[mult[1]],
                                                    Times(counts[mult[2]], f), b)
         IN  AndThen(part, LAMBDA v, rest :
             AndThen(ReadParts(Tail(parts), counts, rest), LAMBDA vs, left :
                 Ok(<<v>> \o vs, left)))

ReadStruct(fs, b) ==
    AndThen(ReadSeq([i \in DOMAIN fs |-> fs[i][2]], b), LAMBDA vs, rest :
        Ok([n \in {fs[i][1] : i \in DOMAIN fs} |->
                vs[CHOOSE i \in DOMAIN fs : fs[i][1] = n]], rest))

ReadTagged(f, b) ==
    AndThen(get_uint(f.w, b), LAMBDA code, rest :
        IF code \in DOMAIN f.of THEN Read(f.of[code], rest) ELSE Read(f.other, b))

ReadFrame(f, b) ==
    AndThen(get_uint(f.w, b), LAMBDA n, rest :
    AndThen(get_slice(n, rest), LAMBDA slice, left :
    AndThen(Read(f.f, slice), LAMBDA v, unread : Ok(v, left))))

ReadTagLen(f, b) ==
    AndThen(get_uint(2, b), LAMBDA taglen, rest :
    AndThen(get_slice(get_len(taglen), rest), LAMBDA slice, left :
        IF get_tag(taglen) \in DOMAIN f.of
        THEN AndThen(Read(f.of[get_tag(taglen)], slice), LAMBDA v, unread : Ok(v, left))
        ELSE Err))

Read(f, b) ==
    CASE f.t = "uint" -> get_uint(f.w, b)
      [] f.t = "bytes" -> get_slice(f.n, b)
      [] f.t = "all" -> Ok(b, <<>>)
      [] f.t = "yield" -> Ok(f.v, b)
      [] f.t = "refuse" -> Err
      [] f.t = "panic" -> Panic(f.at)
      [] f.t = "row" -> ReadSeq(f.fs, b)
      [] f.t = "struct" -> ReadStruct(f.fs, b)
      [] f.t = "tagged" -> ReadTagged(f, b)
      [] f.t = "list" -> AndThen(get_uint(f.w, b), LAMBDA n, rest :
                             ReadMany(n + f.more, f.f, rest))
      [] f.t = "counted" -> AndThen(ReadSeq([i \in DOMAIN f.ws |-> Uint(f.ws[i])], b),
                                    LAMBDA counts, rest : ReadParts(f.parts, counts, rest))
      [] f.t = "frame" -> ReadFrame(f, b)
      [] f.t = "exact" -> AndThen(Read(f.f, b), LAMBDA v, rest :
                              IF rest = <<>> THEN Ok(v, rest) ELSE Err)
      [] f.t = "raw" -> AndThen(Read(f.f, b), LAMBDA v, rest :
                            Ok(Taken(b, Len(b) - Len(rest)), rest))
      [] f.t = "allocated" -> AndThen(get_uint(U64Width, b), LAMBDA n, rest :
                                  IF n >= AllocationLimit THEN Panic("Allocated") ELSE Read(f.f, b))
      [] f.t = "taglen" -> ReadTagLen(f, b)
      [] f.t = "only" -> AndThen(Read(f.f, b), LAMBDA v, rest :
                             IF v \in f.set THEN Ok(v, rest) ELSE Err)
      [] f.t = "checked" -> AndThen(Read(f.f, b), LAMBDA v, rest :
                                IF Accepts(f.predicate, v) THEN Ok(v, rest) ELSE Err)
      [] f.t = "nonzero" -> AndThen(Read(f.f, b), LAMBDA v, rest :
                                IF v # 0 THEN Ok(v, rest) ELSE Err)
      [] f.t = "zero_is_none" -> AndThen(Read(f.f, b), LAMBDA v, rest :
                                     Ok(IF v = 0 THEN <<>> ELSE <<v>>, rest))
      [] f.t = "access_list" -> read_access_list(b)
      [] f.t = "old_address" -> OldAddressTryFrom(b)
      [] f.t = "abor" -> IF f.type = "Bytes" THEN decode_bytes(b) ELSE decode_uint(f.type, b)
      [] f.t = "abor_array" -> AndThen(decode_array(b), LAMBDA n, rest :
                               AndThen(ReadMany(n, f.f, rest), LAMBDA vs, left :
                                   Ok(<<"Array", vs>>, left)))
      [] f.t = "again" -> Read(unpack_declaration, b)

\* Transaction::as_slice
as_slice(type, data) == SliceOf(Read(get_spine(type), data).v)

------------------------------------------------------------------------------
(* The readers that loop                                                     *)

\* The fragments of a block, until the size its header names is used up.
RECURSIVE ReadContents(_, _)
ReadContents(size, b) ==
    IF size = 0 THEN Ok(<<>>, b)
    ELSE AndThen(Read(ReadFragmentRaw, b), LAMBDA raw, rest :
         IF Len(raw) + U32Width > size THEN Err
         ELSE AndThen(Read(ReadFragment, raw), LAMBDA v, unread :
              AndThen(ReadContents(size - Len(raw) - U32Width, rest), LAMBDA vs, left :
                  Ok(<<v>> \o vs, left))))

\* Block::deserialize and Block::read; the hash is computed from the fragments
\* as they would be written, not from the octets they were read from.
ReadBlock(b) ==
    AndThen(Read(ReadHeaderRaw, b), LAMBDA header, rest :
    AndThen(ReadContents(header.common.content_size, rest), LAMBDA contents, left :
        IF ContentsHash(contents) = header.common.content_hash
        THEN Ok([header |-> header, contents |-> contents], left)
        ELSE Err))

\* AddressReadable: only the original checksum, and octets that are an address;
\* from_string also asks for a prefix.
from_str_anyprefix(text) ==
    AndThen(bech32_decode(text), LAMBDA decoded, none :
        IF decoded.variant # "Bech32" THEN Err
        ELSE AndThen(from_base32(decoded.data), LAMBDA b, empty : Read(AddressFromBytes, b)))
from_string(expected_prefix, text) ==
    AndThen(bech32_decode(text), LAMBDA decoded, none :
        IF decoded.hrp # expected_prefix THEN Err ELSE from_str_anyprefix(text))

\* unpack_entries: up to the end code, whatever follows it.
RECURSIVE unpack_entries(_)
unpack_entries(b) ==
    AndThen(Read(unpack_entry_owned, b), LAMBDA e, rest :
        IF e[1] = "SerializationEnd" THEN Ok(<<>>, rest)
        ELSE AndThen(unpack_entries(rest), LAMBDA es, left : Ok(<<e>> \o es, left)))

------------------------------------------------------------------------------
(* The nodes.                                                                *)

CONSTANTS Messages,       \* a sequence of <<kind, value>>
          Certificates,   \* a sequence of [type, payload, payload_auth] to build
          Funds, Payments, \* the inputs and the outputs a client may add, in sequence
          Witnesses,      \* a witness for every index of an input
          FeeRule,        \* the LinearFee in force
          ChangeAddress, ValidUntil,
          AborSchema,     \* what the reader of an abor message asks for
          Prefix,         \* in front of addresses in text
          OldKeys,        \* the <<key, chain code>> that the old addresses belong to
          Alterations,    \* what is added to an octet to damage it
          MaxIos, MaxDamage, MaxHops

VARIABLES
    draft,   \* what the client has assembled: [cert, ios]
    kind, sent, parts,  \* what was written: its kind, its value, and the parts
                        \* of it when it is a transaction
    unassigned,  \* the balance the builder reported, <<>> if it built nothing
    octets, damage, hops,
    phase,   \* "draft", "line" or "read"
    got      \* the result of reading

vars == <<draft, kind, sent, parts, unassigned, octets, damage, hops, phase, got>>

NoResult == [st |-> "none"]
NoIos == [inputs |-> <<>>, outputs |-> <<>>]

Init ==
    /\ draft \in {[cert |-> c, ios |-> NoIos] : c \in DOMAIN Certificates}
    /\ kind = "" /\ sent = <<>> /\ parts = <<>> /\ unassigned = <<>> /\ octets = <<>>
    /\ damage = 0 /\ hops = 0 /\ phase = "draft" /\ got = NoResult

------------------------------------------------------------------------------
(* Writing and reading by kind                                               *)

TextKinds == {"BlockDate", "Milli", "Digest", "Hash", "PublicKey", "Signature", "Token",
              "Discrimination", "Bech32Digest", "Bech32Hash", "Bech32PublicKey",
              "Bech32Signature",
              "Readable", "AnyReadable"}
ToText(k, v) ==
    CASE k = "BlockDate" -> BlockDateDisplay(v)
      [] k = "Milli" -> MilliDisplay(v)
      [] k = "Digest" -> DigestDisplay(v)
      [] k = "Hash" -> HashDisplay(v)
      [] k = "PublicKey" -> PublicKeyDisplay(v)
      [] k = "Signature" -> SignatureDisplay(v)
      [] k = "Token" -> TokenDisplay(v)
      [] k = "Discrimination" -> DiscriminationDisplay(v)
      [] k = "Bech32Digest" -> DigestToBech32(v)
      [] k = "Bech32Hash" -> HashToBech32(v)
      [] k = "Bech32PublicKey" -> PublicKeyToBech32(v)
      [] k = "Bech32Signature" -> SignatureToBech32(v)
      [] k \in {"Readable", "AnyReadable"} -> from_address(Prefix, v)
FromText(k, text) ==
    CASE k = "BlockDate" -> BlockDateFromStr(text)
      [] k = "Milli" -> MilliFromStr(text)
      [] k = "Digest" -> DigestFromStr(text)
      [] k = "Hash" -> HashFromStr(text)
      [] k = "PublicKey" -> PublicKeyFromStr(text)
      [] k = "Signature" -> SignatureFromStr(text)
      [] k = "Token" -> TokenFromStr(text)
      [] k = "Discrimination" -> DiscriminationFromStr(text)
      [] k = "Bech32Digest" -> DigestFromBech32(text)
      [] k = "Bech32Hash" -> HashFromBech32(text)
      [] k = "Bech32PublicKey" -> PublicKeyFromBech32(text)
      [] k = "Bech32Signature" -> SignatureFromBech32(text)
      [] k = "Readable" -> from_string(Prefix, text)
      [] k = "AnyReadable" -> from_str_anyprefix(text)

Encode(k, v) ==
    CASE k = "Fragment" -> to_raw(v)
      [] k = "Header" -> HeaderBytes(v)
      [] k = "Block" -> SerializeBlock(v)
      [] k = "Ledger" -> SerializeLedger(v)
      [] k = "Address" -> SerializeAddress(v)
      [] k = "OldAddress" -> AddressText(v)
      [] k = "Abor" -> AborEncode(v)
      [] k = "AsymLock" -> asym_encrypt(v.receiver, v.data)
      [] k = "MultiLock" -> multi_encrypt(v.receivers, v.data)
      [] k \in TextKinds -> ToText(k, v)

Decode(k, b) ==
    CASE k = "Fragment" -> Read(ReadFragment, b)
      [] k = "Header" -> Read(ReadHeader, b)
      [] k = "Block" -> ReadBlock(b)
      [] k = "Ledger" -> unpack_entries(b)
      [] k = "Address" -> Read(DeserializeAddress, b)
      [] k = "OldAddress" -> AddressFromStr(b)
      [] k = "Abor" -> Read(AborSchema, b)
      [] k = "AsymLock" -> AsymRead(b)
      [] k = "MultiLock" -> MultiRead(b)
      [] k \in TextKinds -> FromText(k, b)

IsTransaction(f) == f[1] \notin {"Initial", "OldUtxoDeclaration"}

Write(k, v, p, balance_left) ==
    /\ kind' = k
    /\ sent' = v
    /\ parts' = p
    /\ unassigned' = balance_left
    /\ octets' = Encode(k, v)
    /\ phase' = "line"
    /\ got' = NoResult

------------------------------------------------------------------------------
(* The client                                                                *)

EditDraft(ios) ==
    /\ phase = "draft"
    /\ ios # draft.ios
    /\ draft' = [draft EXCEPT !.ios = ios]
    /\ UNCHANGED <<kind, sent, parts, unassigned, octets, damage, hops, phase, got>>

AddInput ==
    /\ Len(draft.ios.inputs) < MaxIos
    /\ \E i \in DOMAIN Funds : EditDraft(add_input(draft.ios, from_enum(Funds[i])))
AddOutput ==
    /\ Len(draft.ios.outputs) < MaxIos
    /\ \E o \in DOMAIN Payments : EditDraft(add_output(draft.ios, Payments[o]))
RemoveInput == \E i \in DOMAIN draft.ios.inputs : EditDraft(remove_input(draft.ios, i))
RemoveOutput == \E o \in DOMAIN draft.ios.outputs : EditDraft(remove_output(draft.ios, o))

\* The witnesses are one per input.
SealTransaction(sealed) ==
    LET c == Certificates[draft.cert]
        tx == [payload |-> c.payload, valid_until |-> ValidUntil,
               inputs |-> sealed[3].inputs, outputs |-> sealed[3].outputs,
               witnesses |-> [i \in DOMAIN sealed[3].inputs |-> Witnesses[i]],
               payload_auth |-> c.payload_auth]
    IN  /\ phase = "draft"
        /\ sealed[1] = "Sealed"
        /\ Write("Fragment", <<c.type, BuildTransaction(c.type, tx)>>, tx, <<sealed[2]>>)
        /\ UNCHANGED <<draft, damage, hops>>

Seal == SealTransaction(seal(draft.ios, Certificates[draft.cert].type, FeeRule))
SealWithChange ==
    \E policy \in {<<"Forget">>, <<"One", ChangeAddress>>} :
        SealTransaction(seal_with_output_policy(draft.ios, Certificates[draft.cert].type,
                                                FeeRule, policy))

\* A message is written; a transaction is laid out from its parts first.
Send ==
    /\ phase = "draft" /\ draft.ios = NoIos /\ draft.cert = 1
    /\ \E m \in DOMAIN Messages :
           LET k == Messages[m][1]
               v == Messages[m][2]
           IN  IF k = "Fragment" /\ IsTransaction(v)
               THEN Write(k, <<v[1], BuildTransaction(v[1], v[2])>>, v[2], <<>>)
               ELSE Write(k, v, <<>>, <<>>)
    /\ UNCHANGED <<draft, damage, hops>>

------------------------------------------------------------------------------
(* The way                                                                   *)

Damage(b) ==
    /\ phase = "line" /\ damage < MaxDamage /\ hops = 0
    /\ octets' = b
    /\ damage' = damage + 1
    /\ UNCHANGED <<draft, kind, sent, parts, unassigned, hops, phase, got>>

\* An octet is altered or the rest is cut off, and an octet is added behind.
Alter ==
    damage = 0 /\ \E i \in DOMAIN octets, a \in Alterations :
        Damage([octets EXCEPT ![i] = (@ + a) % 256])
CutShort == damage = 0 /\ \E n \in 0 .. Len(octets) - 1 : Damage(Taken(octets, n))
Extend == Damage(Append(octets, 0))

\* Someone types a text with one letter or with all letters in upper case.
ChangeCase ==
    /\ kind \in TextKinds /\ damage = 0
    /\ \E typed \in {Uppered(octets)}
                  \cup {[octets EXCEPT ![i] = Uppered(octets)[i]] : i \in DOMAIN octets} :
           typed # octets /\ Damage(typed)

------------------------------------------------------------------------------
(* The receiver                                                              *)

Receive ==
    /\ phase = "line"
    /\ got' = Decode(kind, octets)
    /\ phase' = "read"
    /\ UNCHANGED <<draft, kind, sent, parts, unassigned, octets, damage, hops>>

PartsOf(k, v) == IF k = "Fragment" /\ IsTransaction(v) THEN as_slice(v[1], v[2]) ELSE <<>>

\* What has been read is written again and travels undamaged.
Relay ==
    /\ phase = "read" /\ got.st = "ok" /\ hops < MaxHops
    /\ hops' = hops + 1
    /\ damage' = 0
    /\ Write(kind, got.v, PartsOf(kind, got.v), IF damage = 0 THEN unassigned ELSE <<>>)
    /\ UNCHANGED draft

\* A fragment is put in a block of its own; ContentsBuilder and the header
\* builder compute size and hash from to_raw.
BlockOf(contents) ==
    [header |-> [version |-> "Ed25519Signed",
                 common |-> [content_size |-> ContentsSize(contents), date |-> ValidUntil,
                             height |-> 1, content_hash |-> ContentsHash(contents),
                             parent_hash |-> [i \in 1 .. IdSize |-> 0]],
                 proof |-> <<[i \in 1 .. IdSize |-> 1], [i \in 1 .. SigSize |-> 2]>>],
     contents |-> contents]

PutInBlock ==
    /\ phase = "read" /\ got.st = "ok" /\ kind = "Fragment" /\ hops < MaxHops
    /\ hops' = hops + 1
    /\ damage' = 0
    /\ Write("Block", BlockOf(<<got.v>>), <<>>, <<>>)
    /\ UNCHANGED draft

Next ==
    \/ AddInput \/ AddOutput \/ RemoveInput \/ RemoveOutput
    \/ Seal \/ SealWithChange \/ Send
    \/ Alter \/ CutShort \/ Extend \/ ChangeCase
    \/ Receive \/ Relay \/ PutInBlock

Spec == Init /\ [][Next]_vars

------------------------------------------------------------------------------
(* Properties                                                                *)

\* What writing loses: the fees per certificate of a linear fee, the tokens of
\* an account, the order the votes of a proposal came in and the keys of an
\* access list that are zero.
WrittenParam(p) ==
    IF p[1] # "LinearFee" THEN p
    ELSE <<p[1], [p[2] EXCEPT !.per_certificate_fees = << <<>>, <<>>, <<>> >>,
                              !.per_vote_certificate_fees = << <<>>, <<>> >>]>>
WrittenEntry(e) ==
    CASE e[1] \in {"Account", "MultisigAccount"} -> <<e[1], e[2], [e[3] EXCEPT !.tokens = <<>>]>>
      [] e[1] = "ConfigParam" -> <<e[1], WrittenParam(e[2])>>
      [] e[1] = "UpdateProposal" -> <<e[1], e[2], [e[3] EXCEPT !.votes = InTrieOrder(@)]>>
      [] OTHER -> e
Written(k, v) ==
    CASE k = "Ledger" -> [i \in DOMAIN v |-> WrittenEntry(v[i])]
      [] k = "Fragment" -> IF v[1] = "Initial"
                           THEN <<v[1], [i \in DOMAIN v[2] |-> WrittenParam(v[2][i])]>> ELSE v
      [] OTHER -> v

AccessOf(entry) == <<entry[1], SelectSeq(entry[2], LAMBDA key : key # ZeroId)>>
WrittenParts(type, p) ==
    IF type # "Evm" THEN p
    ELSE [p EXCEPT !.payload[2].access_list = [i \in DOMAIN @ |-> AccessOf(@[i])]]

\* What is written and cannot be read: the witness of a multisig account, whose
\* reader asks for one signature more than its count says, a vote plan with
\* proposals in a saved ledger, two of the forks of the EVM, and in abor an
\* array whose inner arrays have elements, which it counts as its own.
HasMultisig(p) == p # <<>> /\ \E i \in DOMAIN p.witnesses : p.witnesses[i][1] = "Multisig"
HasProposals(k, v) ==
    k = "Ledger" /\ \E i \in DOMAIN v : v[i][1] = "VotePlan" /\ v[i][2].proposals # <<>>
UnknownFork(k, v) ==
    k = "Fragment" /\ v[1] = "Initial" /\ \E i \in DOMAIN v[2] :
        v[2][i] \in {<<"EvmConfiguration", "Frontier">>, <<"EvmConfiguration", "London">>}

HasElementsWithin(k, v) ==
    k = "Abor" /\ \E i \in DOMAIN v : v[i][1] = "Array" /\ \E j \in DOMAIN v[i][2] :
        v[i][2][j][1] = "Array" /\ v[i][2][j][2] # <<>>

\* An old address is that of the key it was made from.
KnownOwner(ea) ==
    \E key \in OldKeys : oldaddress_from_xpub(to_address(ea), key[1], key[2])

\* A transaction spends what its builder added: no output is taken for an
\* account.
SpendsFunds(tx) == \A i \in DOMAIN tx.inputs : to_enum(tx.inputs[i]) \in Range(Funds)

\* What arrives as it was written is read back as the value that was written,
\* to its last octet, and the accessors of a transaction return the parts it
\* was laid out from; this also holds for what a node read from damaged octets
\* and writes again, and for the block it puts it in.
ReadsBack ==
    (phase = "read" /\ damage = 0) =>
        CASE HasMultisig(parts) /\ sent[2] = BuildTransaction(sent[1], parts) -> got.st = "err"
          [] HasProposals(kind, sent) -> got.st = "panic"
          [] UnknownFork(kind, sent) \/ HasElementsWithin(kind, sent) -> got.st = "err"
          [] OTHER -> /\ got = Ok(Written(kind, sent), <<>>)
                      /\ parts # <<>> => WrittenParts(sent[1], parts) = PartsOf(kind, got.v)
                      /\ unassigned # <<>> => SpendsFunds(PartsOf(kind, got.v))
                      /\ kind = "OldAddress" => KnownOwner(got.v)

\* The readers that accept more than what is written: signatures of a multisig
\* account beyond their count, octets behind the capping of rewards or the fork
\* of the EVM, keys that are zero in an access list, votes in any order, zeros
\* and a plus in front of numbers and digits beyond thousandths, a dot before
\* the empty name of a token, the places of other recipients in a lock, and the
\* sizes of arrays in arrays.
ReadLoosely(k, v) ==
    \/ HasMultisig(PartsOf(k, v))
    \/ k = "Fragment" /\ v[1] = "Initial" /\ \E i \in DOMAIN v[2] :
           v[2][i][1] \in {"PoolRewardParticipationCapping", "EvmConfiguration"}
    \/ k = "Fragment" /\ v[1] = "Evm" /\ PartsOf(k, v).payload[2].access_list # <<>>
    \/ k \in {"BlockDate", "Milli", "MultiLock"}
    \/ k = "Token" /\ v.token_name = <<>>
    \/ HasElementsWithin(k, v)
    \/ k = "Ledger" /\ \E i \in DOMAIN v : v[i][1] = "UpdateProposal"
                                          /\ v[i][3].votes # InTrieOrder(v[i][3].votes)

\* What is left of a text when the differences that its reader ignores are
\* taken out: the case of hexadecimal and of bech32, and, of the objects that
\* either variant of bech32 may carry, the checksum.
HexKinds == {"Digest", "Hash", "PublicKey", "Signature", "Token"}
ObjectKinds == {"Bech32Digest", "Bech32Hash", "Bech32PublicKey", "Bech32Signature"}
Normalised(k, b) ==
    CASE k \in HexKinds \cup {"Readable", "AnyReadable"} -> Lowered(b)
      [] k \in ObjectKinds -> Lowered(Taken(b, Len(b) - ChecksumSize))
      [] OTHER -> b


\* The octets a reader is known to stop the node at: in a stake delegation the
\* code of the signature of a multisig account (unimplemented!), in an EVM
\* transaction the count of an access list, in an old address the head of an
\* array that has not two elements (assert_eq!), in an address read from a
\* stream a kind it does not know (unreachable!), in a saved ledger a length
\* with its highest bit set and the action of a proposal (todo!), and in abor
\* an unknown tag at the very end and a u32 cut short of its last octets.
Carries(k, b, name) ==
    \/ k = "Fragment" /\ b[2] = FragmentTag[name]
    \/ k = "Block" /\ FragmentTag[name] \in Range(b)
NotAPair(octet) == octet \div 32 = CborArray /\ <<octet>> # CborHead(CborArray, 2)
StopsAt(reader, k, b) ==
    CASE reader = "ReadAccountBinding" -> Carries(k, b, "StakeDelegation") /\ 2 \in Range(b)
      [] reader = "read_access_list" -> Carries(k, b, "Evm")
      [] reader = "raw_with_crc32" ->
            \/ k = "OldAddress" /\ NotAPair(base_decode(b).v[1])
            \/ Carries(k, b, "OldUtxoDeclaration") /\ \E octet \in Range(b) : NotAPair(octet)
      [] reader = "DeserializeAddress" ->
            k = "Address" /\ b[1] % 128 \notin {Kinds[n] : n \in DOMAIN Kinds \ {"Script"}}
      [] reader = "Allocated" -> k = "Ledger" /\ \E octet \in Range(b) : octet >= 128
      [] reader = "unpack_vote_action" ->
            k = "Ledger" /\ EntrySerializeCode["VotePlan"] \in Range(b)
      [] reader = "expect_tag" -> k = "Abor" /\ Last(b) \notin Range(AborTag)
      [] reader = "decode_uint" -> k = "Abor" /\ b[Len(b) - AskedFor["U32"]] = AborTag["U32"]
      [] OTHER -> FALSE

\* Whatever arrives, reading it returns a value or an error: a reader stops the
\* node only at the octets that are known to stop it, and only a saved vote
\* plan with proposals holds such octets when nothing was damaged.
ReadersReturn ==
    (phase = "read" /\ got.st = "panic") =>
        /\ StopsAt(got.at, kind, octets)
        /\ damage = 0 => HasProposals(kind, sent)

\* The balance the builder reports is what the inputs of the transaction leave
\* after its outputs and the fee that the ledger computes from the octets.
SealedIsBalanced ==
    (phase = "read" /\ damage = 0 /\ unassigned # <<>>) =>
        LET tx == as_slice(got.v[1], got.v[2])
        IN  Sum(ValuesOf(tx.inputs))
              = Sum(ValuesOf(tx.outputs)) + calculate_tx(FeeRule, got.v[1], tx) + unassigned[1]

==============================================================================
