---------------------------- MODULE LegacyAddress ----------------------------
(* Addresses of the legacy chain (cardano-legacy-address): a CBOR structure  *)
(* under a CRC, shown in base 58.  An address is kept as the octets it was   *)
(* read from.  The calls of the crate cbor_event are modelled as they are    *)
(* used here.                                                                *)
EXTENDS ByteFormats, Bitwise

\* A stand-in for the hash functions: its result has the size of an id.
HashBytes(b) == [i \in 1 .. IdSize |-> FoldLeft(LAMBDA sum, o : (sum + o) % 256, 7, b)]

XorNibble == [a \in 0 .. 15, b \in 0 .. 15 |-> a ^^ b]
XorOctet(a, b) == 16 * XorNibble[a \div 16, b \div 16] + XorNibble[a % 16, b % 16]
XorOctets(s, t) == [i \in DOMAIN s |-> XorOctet(s[i], t[i])]

------------------------------------------------------------------------------
(* The CRC: a register of a u32, its first octet the highest                 *)

AllOnes == [i \in 1 .. U32Width |-> 255]
ShiftOctet(c) == SubSeq(<<0>> \o c, 1, U32Width)
ShiftBit(c) ==
    [i \in DOMAIN c |-> c[i] \div 2 + IF i > 1 /\ c[i - 1] % 2 = 1 THEN 128 ELSE 0]

\* The table holds what eight steps of the division by the polynomial make of
\* an octet; with a u32 of four octets it is the table of the source.
Polynomial == SubSeq(<<237, 184, 131, 32>>, 1, U32Width)
DivideOnce(c) ==
    IF c[U32Width] % 2 = 1 THEN XorOctets(ShiftBit(c), Polynomial) ELSE ShiftBit(c)
CRC_TABLE ==
    [n \in Octet |-> FoldLeft(LAMBDA c, step : DivideOnce(c), U32(n), [i \in 1 .. 8 |-> i])]

CrcUpdate(c, byte) == XorOctets(ShiftOctet(c), CRC_TABLE[XorOctet(c[U32Width], byte)])
CrcFinalize(c) == Number(XorOctets(c, AllOnes))
crc32(b) == CrcFinalize(FoldLeft(CrcUpdate, AllOnes, b))

------------------------------------------------------------------------------
(* CBOR                                                                      *)

CborUnsigned == 0
CborBytes == 2
CborArray == 4
CborMap == 5
CborTag == 6

\* The shortest head is written; longer ones are read too.  A number of more
\* than two octets is only known to be larger than any length or id here.
CborHead(major, n) ==
    CASE n < 24 -> <<32 * major + n>>
      [] n \in 24 .. 255 -> <<32 * major + 24, n>>
      [] n > 255 -> <<32 * major + 25>> \o U16(n)
write_unsigned_integer(n) == CborHead(CborUnsigned, n)
write_bytes(b) == CborHead(CborBytes, Len(b)) \o b

TooLarge == 2 ^ 30
Indefinite == -1
NumberOf(octets_) ==
    LET high == IF Len(octets_) > 2 THEN Len(octets_) - 2 ELSE 0
    IN  IF \A i \in 1 .. high : octets_[i] = 0
        THEN Number(SubSeq(octets_, high + 1, Len(octets_))) ELSE TooLarge
HeadOf(major, b) ==
    AndThen(get_uint(1, b), LAMBDA first, rest :
        LET info == first % 32
        IN  CASE first \div 32 # major -> Err
              [] first \div 32 = major /\ info < 24 -> Ok(info, rest)
              [] first \div 32 = major /\ info \in 24 .. 27 ->
                    AndThen(get_slice(2 ^ (info - 24), rest), LAMBDA octets_, left :
                        Ok(NumberOf(octets_), left))
              [] first \div 32 = major /\ info = 31 -> Ok(Indefinite, rest)
              [] OTHER -> Err)
Definite(r) == IF r.st = "ok" /\ r.v = Indefinite THEN Err ELSE r
unsigned_integer(b) == Definite(HeadOf(CborUnsigned, b))
cbor_tag(b) == Definite(HeadOf(CborTag, b))
cbor_bytes(b) == AndThen(Definite(HeadOf(CborBytes, b)), LAMBDA n, rest : get_slice(n, rest))

------------------------------------------------------------------------------
(* The parts of an address                                                   *)

SerializePubKeyTag == write_unsigned_integer(0)
DeserializePubKeyTag(b) ==
    AndThen(unsigned_integer(b), LAMBDA n, rest : IF n = 0 THEN Ok(0, rest) ELSE Err)

\* Attributes: at most one derivation path, at most one network magic.
DerivationTag == 1
NetworkMagicTag == 2
SerializeAttributes(a) ==
    CborHead(CborMap, Len(a.derivation_path) + Len(a.network_magic))
      \o Fold(a.derivation_path,
              LAMBDA dp : write_unsigned_integer(DerivationTag) \o write_bytes(write_bytes(dp)))
      \o Fold(a.network_magic,
              LAMBDA n : write_unsigned_integer(NetworkMagicTag)
                           \o write_bytes(write_unsigned_integer(n)))

\* An attribute is octets that hold CBOR; a later one replaces an earlier one.
ReadAttribute(key, inner, a) ==
    CASE key = DerivationTag ->
            AndThen(cbor_bytes(inner), LAMBDA dp, unread :
                Ok([a EXCEPT !.derivation_path = <<dp>>], unread))
      [] key = NetworkMagicTag ->
            AndThen(unsigned_integer(inner), LAMBDA n, unread :
                IF n < 256 ^ U32Width THEN Ok([a EXCEPT !.network_magic = <<n>>], unread)
                                      ELSE Err)
      [] OTHER -> Err

RECURSIVE ReadAttributes(_, _, _)
ReadAttributes(n, a, b) ==
    IF n = 0 THEN Ok(a, b)
    ELSE AndThen(unsigned_integer(b), LAMBDA key, rest :
         AndThen(cbor_bytes(rest), LAMBDA inner, left :
         AndThen(ReadAttribute(key, inner, a), LAMBDA more, unread :
             ReadAttributes(n - 1, more, left))))

NoAttributes == [derivation_path |-> <<>>, network_magic |-> <<>>]
DeserializeAttributes(b) ==
    AndThen(Definite(HeadOf(CborMap, b)), LAMBDA n, rest : ReadAttributes(n, NoAttributes, rest))

\* The payload behind its tag, and its CRC.  The assertion of raw_with_crc32
\* stops the program when the array does not have two elements.
encode_with_crc32(b) ==
    CborHead(CborArray, 2) \o CborHead(CborTag, 24) \o write_bytes(b)
      \o write_unsigned_integer(crc32(b))

raw_with_crc32(b) ==
    AndThen(HeadOf(CborArray, b), LAMBDA len, elements :
        IF len # 2 THEN Panic("raw_with_crc32")
        ELSE AndThen(cbor_tag(elements), LAMBDA t, rest :
             IF t # 24 THEN Err
             ELSE AndThen(cbor_bytes(rest), LAMBDA payload, left :
                  AndThen(unsigned_integer(left), LAMBDA crc, unread :
                      IF crc = crc32(payload) THEN Ok(payload, unread) ELSE Err))))

------------------------------------------------------------------------------
(* ExtendedAddr, an address taken apart, and Addr, its octets                *)

SerializeSpendingData(xpub) ==
    CborHead(CborArray, 2) \o write_unsigned_integer(0) \o write_bytes(xpub)
hash_spending_data(xpub, attributes) ==
    HashBytes(CborHead(CborArray, 3) \o SerializePubKeyTag \o SerializeSpendingData(xpub)
                \o SerializeAttributes(attributes))

ExtendedAddrNew(xpub, attributes) ==
    [addr |-> hash_spending_data(xpub, attributes), attributes |-> attributes]
new_simple(xpub, network_magic) ==
    ExtendedAddrNew(xpub, [derivation_path |-> <<>>, network_magic |-> network_magic])

SerializeExtendedAddr(ea) ==
    encode_with_crc32(CborHead(CborArray, 3) \o write_bytes(ea.addr)
                        \o SerializeAttributes(ea.attributes) \o SerializePubKeyTag)

ReadAddressPayload(payload) ==
    AndThen(HeadOf(CborArray, payload), LAMBDA len, rest :
        IF len # 3 THEN Err
        ELSE AndThen(cbor_bytes(rest), LAMBDA addr, left :
             IF Len(addr) # IdSize THEN Err
             ELSE AndThen(DeserializeAttributes(left), LAMBDA attributes, behind :
                  AndThen(DeserializePubKeyTag(behind), LAMBDA type, unread :
                      Ok([addr |-> addr, attributes |-> attributes], unread)))))
DeserializeExtendedAddr(b) ==
    AndThen(raw_with_crc32(b), LAMBDA payload, rest :
    AndThen(ReadAddressPayload(payload), LAMBDA ea, unread : Ok(ea, rest)))

to_address(ea) == SerializeExtendedAddr(ea)

\* Addr::try_from: the octets are validated from their start and all kept.
OldAddressTryFrom(b) == AndThen(DeserializeExtendedAddr(b), LAMBDA ea, unread : Ok(b, <<>>))

\* An address belongs to the key it can be made from again.
deconstruct(address) == DeserializeExtendedAddr(address).v
identical_with_xpub(address, xpub) ==
    address = to_address(ExtendedAddrNew(xpub, deconstruct(address).attributes))
identical_with_pubkey_raw(address, pk, chain_code) == identical_with_xpub(address, pk \o chain_code)
oldaddress_from_xpub(address, pk, some_bytes) == identical_with_pubkey_raw(address, pk, some_bytes)

------------------------------------------------------------------------------
(* Base 58                                                                   *)

Letters(first, last) == [i \in 1 .. last - first + 1 |-> first + i - 1]
ALPHABET ==
    Letters(49, 57) \o Letters(65, 72) \o Letters(74, 78) \o Letters(80, 90)
      \o Letters(97, 107) \o Letters(109, 122)
Base == Len(ALPHABET)

LeadingCount(s, e) == CHOOSE n \in 0 .. Len(s) :
    /\ \A i \in 1 .. n : s[i] = e
    /\ n < Len(s) => s[n + 1] # e
Repeated(n, e) == [i \in 1 .. n |-> e]

\* Digits of another base, the lowest first: every digit is multiplied by the
\* old base, the next one of the input is carried in, and what is carried out
\* becomes further digits.
RECURSIVE Pushed(_, _)
Pushed(carry, base) ==
    IF carry = 0 THEN <<>> ELSE <<carry % base>> \o Pushed(carry \div base, base)
NextDigits(digits, from, base, digit) ==
    LET Step(acc, d) == LET c == acc.carry + d * from
                        IN  [out |-> Append(acc.out, c % base), carry |-> c \div base]
        r == FoldLeft(Step, [out |-> <<>>, carry |-> digit], digits)
    IN  r.out \o Pushed(r.carry, base)
Rebased(input, from, base) ==
    FoldLeft(LAMBDA digits, d : NextDigits(digits, from, base, d), <<0>>, input)

base_encode(input) ==
    LET digits == Reverse(Rebased(input, 256, Base))
    IN  Repeated(LeadingCount(input, 0), ALPHABET[1])
          \o [i \in DOMAIN digits |-> ALPHABET[digits[i] + 1]]

\* The lowest octet comes first until the end; zeros are put behind it.
PadZeros(octets_, zcount) ==
    LET zeros == LeadingCount(Reverse(octets_), 0)
        unpad == IF zeros > 0 THEN zeros + 1 ELSE 0
    IN  IF zcount > zeros THEN octets_ \o Repeated(zcount - unpad, 0) ELSE octets_
base_decode(input) ==
    LET zcount == LeadingCount(input, ALPHABET[1])
        symbols == SubSeq(input, zcount + 1, Len(input))
        value(c) == CHOOSE i \in DOMAIN ALPHABET : ALPHABET[i] = c
    IN  IF \E i \in DOMAIN symbols : symbols[i] \notin Range(ALPHABET) THEN Err
        ELSE Ok(Reverse(PadZeros(Rebased([i \in DOMAIN symbols |-> value(symbols[i]) - 1],
                                         Base, 256), zcount)), <<>>)

\* Display and FromStr of Addr and ExtendedAddr
AddrDisplay(address) == base_encode(address)
AddressText(ea) == AddrDisplay(to_address(ea))
ExtendedAddrTryFrom(b) == DeserializeExtendedAddr(b)
AddressFromStr(text) ==
    AndThen(base_decode(text), LAMBDA octets_, none : ExtendedAddrTryFrom(octets_))

==============================================================================
