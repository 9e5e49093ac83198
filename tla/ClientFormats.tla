---------------------------- MODULE ClientFormats ----------------------------
(* What clients exchange beside the chain: values as text, and data locked   *)
(* to the holders of keys.                                                   *)
EXTENDS FragmentFormats

------------------------------------------------------------------------------
(* What is shown to people and read from them: dates, ratios, hashes, keys,  *)
(* signatures, tokens and addresses as text, a sequence of ASCII codes.      *)

Dot == 46
Plus == 43
Zero == 48

Lowered(text) == [i \in DOMAIN text |-> text[i] + IF text[i] \in 65 .. 90 THEN 32 ELSE 0]
Uppered(text) == [i \in DOMAIN text |-> text[i] - IF text[i] \in 97 .. 122 THEN 32 ELSE 0]

------------------------------------------------------------------------------
(* Numbers                                                                   *)

RECURSIVE Decimal(_)
Decimal(n) ==
    IF n < 10 THEN <<Zero + n>> ELSE Append(Decimal(n \div 10), Zero + (n % 10))

\* str::parse of an unsigned integer: zeros and a plus in front are accepted.
ParseUint(text, limit) ==
    LET digits == IF Len(text) > 1 /\ text[1] = Plus THEN Tail(text) ELSE text
        n == FoldLeft(LAMBDA v, c : v * 10 + c - Zero, 0, digits)
    IN  IF digits = <<>> \/ \E i \in DOMAIN digits : digits[i] \notin Zero .. Zero + 9
        THEN Err ELSE IF n < limit THEN Ok(n, <<>>) ELSE Err

\* What stands before and behind the first dot; <<>> without a dot.
AtDot(text) ==
    IF Dot \notin Range(text) THEN <<>>
    ELSE LET pos == CHOOSE i \in DOMAIN text : text[i] = Dot /\ \A j \in 1 .. i - 1 : text[j] # Dot
         IN  <<SubSeq(text, 1, pos - 1), SubSeq(text, pos + 1, Len(text))>>

BlockDateDisplay(d) == Decimal(d.epoch) \o <<Dot>> \o Decimal(d.slot_id)
BlockDateFromStr(text) ==
    LET split == AtDot(text)
    IN  IF split = <<>> THEN Err
        ELSE AndThen(ParseUint(split[1], 256 ^ U32Width), LAMBDA epoch, none :
             AndThen(ParseUint(split[2], 256 ^ U32Width), LAMBDA slot_id, empty :
                 Ok([epoch |-> epoch, slot_id |-> slot_id], <<>>)))

\* Thousandths: three digits behind the dot are read, those missing are zeros.
MILLI_MULTIPLIER == 1000
MilliDisplay(m) ==
    Decimal(m \div MILLI_MULTIPLIER) \o <<Dot>>
      \o Tail(Decimal(MILLI_MULTIPLIER + (m % MILLI_MULTIPLIER)))
MilliFromStr(text) ==
    LET split == IF AtDot(text) = <<>> THEN <<text, <<>>>> ELSE AtDot(text)
    IN  IF text = <<>> THEN Err
        ELSE ParseUint(split[1] \o SubSeq(split[2] \o <<Zero, Zero, Zero>>, 1, 3), 256 ^ U64Width)

------------------------------------------------------------------------------
(* Hexadecimal                                                               *)

HexDigits == Letters(48, 57) \o Letters(97, 102)
UpperDigits == Letters(48, 57) \o Letters(65, 70)
hex_encode(b) == Fold(b, LAMBDA o : <<HexDigits[o \div 16 + 1], HexDigits[(o % 16) + 1]>>)

DigitValue(c) == (CHOOSE i \in 1 .. 16 : c \in {HexDigits[i], UpperDigits[i]}) - 1
hex_decode(text) ==
    IF Len(text) % 2 = 1 \/ Range(text) \ (Range(HexDigits) \cup Range(UpperDigits)) # {}
    THEN Err
    ELSE Ok([i \in 1 .. Len(text) \div 2 |->
                 16 * DigitValue(text[2 * i - 1]) + DigitValue(text[2 * i])], <<>>)

Sized(n, b) == IF Len(b) = n THEN Ok(b, <<>>) ELSE Err

DigestFromSlice(b) == Sized(IdSize, b)
DigestDisplay(d) == hex_encode(d)
DigestFromStr(text) == AndThen(hex_decode(text), LAMBDA b, none : DigestFromSlice(b))

\* Blake2b256 and, around it, the Hash of a block or a fragment.
HashFromSlice(b) == Sized(IdSize, b)
Blake2bDisplay(h) == hex_encode(h)
Blake2bFromStr(text) == AndThen(hex_decode(text), LAMBDA b, none : HashFromSlice(b))
HashDisplay(h) == Blake2bDisplay(h)
HashFromStr(text) == Blake2bFromStr(text)

PublicKeyFromBinary(b) == Sized(IdSize, b)
PublicKeyDisplay(key) == hex_encode(key)
PublicKeyFromStr(text) == AndThen(hex_decode(text), LAMBDA b, none : PublicKeyFromBinary(b))

SignatureFromBinary(b) == Sized(SigSize, b)
SignatureDisplay(sig) == hex_encode(sig)
SignatureFromStr(text) == AndThen(hex_decode(text), LAMBDA b, none : SignatureFromBinary(b))

\* The hash of a policy and, unless it is empty, the name of the token.
TokenDisplay(t) ==
    hex_encode(t.policy_hash)
      \o IF t.token_name = <<>> THEN <<>> ELSE <<Dot>> \o hex_encode(t.token_name)
TokenFromStr(text) ==
    LET split == IF AtDot(text) = <<>> THEN <<text, <<>>>> ELSE AtDot(text)
    IN  AndThen(hex_decode(split[1]), LAMBDA policy, none :
        AndThen(hex_decode(split[2]), LAMBDA name, empty :
            IF Len(policy) = IdSize /\ Len(name) <= MaxTokenName
            THEN Ok([policy_hash |-> policy, token_name |-> name], <<>>) ELSE Err))

DiscriminationName ==
    [Production |-> <<112, 114, 111, 100, 117, 99, 116, 105, 111, 110>>,
     Test |-> <<116, 101, 115, 116>>]
DiscriminationDisplay(d) == DiscriminationName[d]
DiscriminationFromStr(text) ==
    IF text \in Range(DiscriminationName)
    THEN Ok(CHOOSE d \in DOMAIN DiscriminationName : DiscriminationName[d] = text, <<>>) ELSE Err

------------------------------------------------------------------------------
(* The crate bech32: a prefix, a one, symbols of five bits and a checksum,   *)
(* which here has two symbols; the variant decides the checksum              *)

Separator == 49
CHARSET ==
    <<113, 112, 122, 114, 121, 57, 120, 56, 103, 102, 50, 116, 118, 100, 119, 48,
      115, 51, 106, 110, 53, 52, 107, 104, 99, 101, 54, 109, 117, 97, 55, 108>>

BitsOf(w, n) == [i \in 1 .. w |-> (n \div 2 ^ (w - i)) % 2]
NumberOfBits(bits) == FoldLeft(LAMBDA n, bit : 2 * n + bit, 0, bits)
Grouped(w, bits) ==
    [i \in 1 .. Len(bits) \div w |-> NumberOfBits(SubSeq(bits, (i - 1) * w + 1, i * w))]
to_base32(b) == Grouped(5, Fold(b, LAMBDA o : BitsOf(8, o)) \o [i \in 1 .. (-8 * Len(b)) % 5 |-> 0])
from_base32(symbols) ==
    LET bits == Fold(symbols, LAMBDA s : BitsOf(5, s))
        padding == SubSeq(bits, Len(bits) - (Len(bits) % 8) + 1, Len(bits))
    IN  IF Len(padding) >= 5 \/ 1 \in Range(padding) THEN Err ELSE Ok(Grouped(8, bits), <<>>)

ChecksumSize == 2
VariantShift == [Bech32 |-> 0, Bech32m |-> 3]
Checksum(hrp, symbols, variant) ==
    LET c == VariantShift[variant]
               + FoldLeft(LAMBDA h, s : (h * 37 + s + 1) % 1021, 1, hrp \o <<0>> \o symbols)
    IN  <<c \div 32, c % 32>>

bech32_encode(hrp, symbols, variant) ==
    LET data == symbols \o Checksum(hrp, symbols, variant)
    IN  hrp \o <<Separator>> \o [i \in DOMAIN data |-> CHARSET[data[i] + 1]]
\* A text is all in lower or all in upper case.
bech32_decode(raw) ==
    LET text == Lowered(raw)
        sep == CHOOSE i \in DOMAIN text : text[i] = Separator
                                          /\ \A j \in i + 1 .. Len(text) : text[j] # Separator
        hrp == SubSeq(text, 1, sep - 1)
        chars == SubSeq(text, sep + 1, Len(text))
        data == [i \in DOMAIN chars |-> (CHOOSE s \in 1 .. 32 : CHARSET[s] = chars[i]) - 1]
        symbols == SubSeq(data, 1, Len(data) - ChecksumSize)
        variants == {v \in DOMAIN VariantShift :
                         data = symbols \o Checksum(hrp, symbols, v)}
    IN  IF Separator \notin Range(text) \/ raw \notin {text, Uppered(raw)} THEN Err
        ELSE IF \/ hrp = <<>> \/ \E i \in DOMAIN hrp : hrp[i] \notin 33 .. 126
                \/ Len(chars) < ChecksumSize \/ Range(chars) \ Range(CHARSET) # {}
        THEN Err
        ELSE IF variants = {} THEN Err
        ELSE Ok([hrp |-> hrp, data |-> symbols, variant |-> CHOOSE v \in variants : TRUE], <<>>)

------------------------------------------------------------------------------
(* Objects of a fixed size under the prefix of their kind; either variant of *)
(* the checksum is read                                                      *)

BECH32_HRP == [Digest |-> <<98>>, Hash |-> <<98, 50>>, PublicKey |-> <<112>>, Signature |-> <<115>>]
BYTES_LEN == [Digest |-> IdSize, Hash |-> IdSize, PublicKey |-> IdSize, Signature |-> SigSize]

to_bech32_from_bytes(object, b) == bech32_encode(BECH32_HRP[object], to_base32(b), "Bech32")
try_from_bech32_to_bytes(object, text) ==
    AndThen(bech32_decode(text), LAMBDA decoded, none :
        IF decoded.hrp # BECH32_HRP[object] THEN Err
        ELSE AndThen(from_base32(decoded.data), LAMBDA b, empty : Sized(BYTES_LEN[object], b)))

DigestToBech32(d) == to_bech32_from_bytes("Digest", d)
DigestFromBech32(text) ==
    AndThen(try_from_bech32_to_bytes("Digest", text), LAMBDA b, none : DigestFromSlice(b))
HashToBech32(h) == to_bech32_from_bytes("Hash", h)
HashFromBech32(text) ==
    AndThen(try_from_bech32_to_bytes("Hash", text), LAMBDA b, none : HashFromSlice(b))
PublicKeyToBech32(key) == to_bech32_from_bytes("PublicKey", key)
PublicKeyFromBech32(text) ==
    AndThen(try_from_bech32_to_bytes("PublicKey", text), LAMBDA b, none : PublicKeyFromBinary(b))
SignatureToBech32(sig) == to_bech32_from_bytes("Signature", sig)
SignatureFromBech32(text) ==
    AndThen(try_from_bech32_to_bytes("Signature", text), LAMBDA b, none : SignatureFromBinary(b))

\* An address in text, whose prefix the caller chooses.
from_address(prefix, a) == bech32_encode(prefix, to_base32(SerializeAddress(a)), "Bech32")

------------------------------------------------------------------------------
(* Data encrypted to the holder of a key (asymlock.rs) or to several holders *)
(* (multilock.rs).  The group is the one of the residues of a small prime;   *)
(* the cipher is a stand-in that keeps two facts: it opens with the same key *)
(* only, and its tag covers every octet.                                     *)

CONSTANTS LockSecrets,      \* the scalars of those who may open a lock, in sequence
          EphemeralScalar,  \* what the random generator returns
          SessionKey

------------------------------------------------------------------------------
(* The group and the cipher                                                  *)

LockPrime == 11
LockGenerator == 2
PointTimes(s, point) ==
    LET power[n \in 0 .. s] == IF n = 0 THEN 1 ELSE power[n - 1] * point % LockPrime
    IN  power[s]
PublicOf(s) == PointTimes(s, LockGenerator)

PointLength == 2
PointBytes(point) == <<point, 0>>
PointFromBytes(b) ==
    IF b[2] = 0 /\ b[1] \in 1 .. LockPrime - 1 THEN Ok(b[1], <<>>) ELSE Err

TagSize == 2
AuthTag(key, encrypted) ==
    U16(FoldLeft(LAMBDA h, o : (h * 31 + o + 1) % 65521, 7, key \o encrypted))
Stream(key, data, sign) ==
    [i \in DOMAIN data |-> (data[i] + sign * (key[1] + i) + 512) % 256]
Encrypted(key, data) == Stream(key, data, 1)
Decrypted(key, encrypted, tag_) ==
    IF tag_ = AuthTag(key, encrypted) THEN Ok(Stream(key, encrypted, -1), <<>>) ELSE Err

------------------------------------------------------------------------------
(* asymlock: the ephemeral key, the data and its tag                         *)

SchemeOverhead == PointLength + TagSize

asym_encrypt(receiver, data) ==
    LET shared == PointBytes(PointTimes(EphemeralScalar, receiver))
        encrypted == Encrypted(shared, data)
    IN  PointBytes(PublicOf(EphemeralScalar)) \o encrypted \o AuthTag(shared, encrypted)

asym_decrypt(secret, b) ==
    IF Len(b) < SchemeOverhead THEN Err
    ELSE AndThen(PointFromBytes(Taken(b, PointLength)), LAMBDA point, none :
         Decrypted(PointBytes(PointTimes(secret, point)),
                   SubSeq(b, PointLength + 1, Len(b) - TagSize),
                   SubSeq(b, Len(b) - TagSize + 1, Len(b))))

------------------------------------------------------------------------------
(* multilock: a header with the number of participants, the ephemeral key,   *)
(* for each participant its key and the session key under the shared point,  *)
(* the tag and the data                                                      *)

Version == 1
PAD1 == 18
PAD2 == 52
HeaderLength == 4
SessionKeySize == 1
RecipientSize == PointLength + SessionKeySize

prefix_size(participants_) == HeaderLength + PointLength + participants_ * RecipientSize
scheme_overhead(participants_) == prefix_size(participants_) + TagSize

\* The session key hides under the first octets of the shared point.
Masked(session, point) == [i \in DOMAIN session |-> XorOctet(session[i], PointBytes(point)[i])]

multi_encrypt(receivers, data) ==
    LET encrypted == Encrypted(SessionKey, data)
    IN  <<Version, PAD1, PAD2>> \o U8(Len(receivers))
          \o PointBytes(PublicOf(EphemeralScalar))
          \o Fold(receivers, LAMBDA pk : PointBytes(pk)
                    \o Masked(SessionKey, PointTimes(EphemeralScalar, pk)))
          \o AuthTag(SessionKey, encrypted) \o encrypted

nb_participants(b) ==
    IF \/ Len(b) < HeaderLength
       \/ Taken(b, 3) # <<Version, PAD1, PAD2>>
       \/ b[4] = 0
       \/ Len(b) < scheme_overhead(b[4])
    THEN Err ELSE Ok(b[4], b)

\* The i-th recipient, counted from zero.
recipient_start(i) == prefix_size(i)
recipient_public_key_nth(b, i) ==
    SubSeq(b, recipient_start(i) + 1, recipient_start(i) + PointLength)
recipient_session_key_nth(b, i) ==
    SubSeq(b, recipient_start(i) + PointLength + 1, recipient_start(i + 1))

\* Every place is compared; the last one that matches is used.
multi_decrypt(secret, b) ==
    AndThen(nb_participants(b), LAMBDA n, all :
        LET own == {i \in 0 .. n - 1 :
                        recipient_public_key_nth(b, i) = PointBytes(PublicOf(secret))}
            found == CHOOSE i \in own : \A j \in own : j <= i
            payload == Untaken(b, prefix_size(n))
        IN  IF own = {} THEN Err
            ELSE AndThen(PointFromBytes(SubSeq(b, HeaderLength + 1, HeaderLength + PointLength)),
                 LAMBDA point, none :
                     Decrypted(Masked(recipient_session_key_nth(b, found),
                                      PointTimes(secret, point)),
                               Untaken(payload, TagSize), Taken(payload, TagSize))))

participants(b) ==
    AndThen(nb_participants(b), LAMBDA n, all :
        LET points == [i \in 1 .. n |-> PointFromBytes(recipient_public_key_nth(b, i - 1))]
        IN  IF \E i \in 1 .. n : points[i].st # "ok" THEN Err
            ELSE Ok([i \in 1 .. n |-> points[i].v], <<>>))

------------------------------------------------------------------------------
(* Those who open what is sent: the first holder, or each of the holders who *)
(* are participants, who must find the same                                  *)

AsymRead(b) ==
    AndThen(asym_decrypt(LockSecrets[1], b), LAMBDA data, none :
        Ok([receiver |-> PublicOf(LockSecrets[1]), data |-> data], <<>>))

MultiRead(b) ==
    AndThen(participants(b), LAMBDA points, none :
        LET holders == {i \in DOMAIN LockSecrets : PublicOf(LockSecrets[i]) \in Range(points)}
            found == {multi_decrypt(LockSecrets[i], b) : i \in holders}
        IN  IF \E r \in found : found = {r} /\ r.st = "ok"
            THEN Ok([receivers |-> points, data |-> (CHOOSE r \in found : TRUE).v], <<>>)
            ELSE Err)
==============================================================================
