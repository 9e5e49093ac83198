----------------------------- MODULE ByteFormats -----------------------------
(* The octets, writers and readers of chain-ser and typed-bytes.             *)
EXTENDS Integers, Sequences, SequencesExt

------------------------------------------------------------------------------
(* What every encoding of the repository is made of.                         *)
(*                                                                           *)
(* Writers are operators that return a sequence of octets: the calls of      *)
(* typed_bytes::ByteBuilder, of chain-ser's WriteBuf and of its Codec, which *)
(* all append big-endian integers and raw octets.                            *)
(*                                                                           *)
(* Readers are descriptions of what a read function asks its ReadBuf (or its *)
(* Codec) for, in order; the module Wire runs a description on a sequence    *)
(* of octets.  A struct reads as a record, an enum as a tuple that starts    *)
(* with the name of the variant, an Option as a sequence of at most one.     *)
(*                                                                           *)
(* u8 and u16 have their own width.  The wider integers, the 32-octet hashes *)
(* and keys and the signatures are scaled down to the sizes below.           *)

CONSTANTS U32Width, U64Width, U128Width, \* octets of an integer
          IdSize,                        \* octets of a hash, an Ed25519 key or an id
          SigSize                        \* octets of an Ed25519 signature

ASSUME SizesAssumption ==
    {U32Width, U64Width, U128Width, IdSize, SigSize} \subseteq (Nat \ {0})

Octet == 0 .. 255

------------------------------------------------------------------------------
(* Writers                                                                   *)

\* An integer of w octets; `as u8` and its like drop the higher ones.
BigEndian(w, n) == [i \in 1 .. w |-> (n \div 256 ^ (w - i)) % 256]

U8(n) == BigEndian(1, n)
U16(n) == BigEndian(2, n)
U32(n) == BigEndian(U32Width, n)
U64(n) == BigEndian(U64Width, n)
U128(n) == BigEndian(U128Width, n)

Fold(s, Put(_)) == FlattenSeq([i \in DOMAIN s |-> Put(s[i])])
Iter8(s, Put(_)) == U8(Len(s)) \o Fold(s, Put)
Iter16(s, Put(_)) == U16(Len(s)) \o Fold(s, Put)
PutBytes(b) == b

------------------------------------------------------------------------------
(* Readers                                                                   *)

Uint(w) == [t |-> "uint", w |-> w]
GetU8 == Uint(1)
GetU16 == Uint(2)
GetU32 == Uint(U32Width)
GetU64 == Uint(U64Width)
GetU128 == Uint(U128Width)
GetSlice(n) == [t |-> "bytes", n |-> n]
GetSliceEnd == [t |-> "all"]

\* Reads nothing and returns v; refuses; stops the program, at the reader named.
Yield(v) == [t |-> "yield", v |-> v]
Refuse == [t |-> "refuse"]
Unimplemented(reader) == [t |-> "panic", at |-> reader]

\* One description after the other; with the name of a variant in front; as
\* the fields of a struct, fs = <<name, description>>, ...
Row(fs) == [t |-> "row", fs |-> fs]
Variant(name, fs) == Row(<<Yield(name)>> \o fs)
Struct(fs) == [t |-> "struct", fs |-> fs]

\* A code and what follows it; other is tried from before the code.
Tagged(w, of, other) == [t |-> "tagged", w |-> w, of |-> of, other |-> other]
Match(of) == Tagged(1, of, Refuse)

\* A count and so many elements; counts, and lists as long as one of them.
\* <<i, j>> is a list of as many as count i of lists of as many as count j.
\* ListAndOne reads one element more than its count says.
ListOf(w, f) == [t |-> "list", w |-> w, f |-> f, more |-> 0]
ListAndOne(w, f) == [t |-> "list", w |-> w, f |-> f, more |-> 1]
Counted(ws, parts) == [t |-> "counted", ws |-> ws, parts |-> parts]
Times(n, f) == Row([i \in 1 .. n |-> f])

\* A length and a slice of it, which f reads; Exact refuses what f leaves.
Frame(w, f) == [t |-> "frame", w |-> w, f |-> f]
Exact(f) == [t |-> "exact", f |-> f]

\* What f reads, as octets.
Raw(f) == [t |-> "raw", f |-> f]

\* The count or the length f starts with is allocated before it is read: more
\* than half of the range of u64 stops the program.
Allocated(f) == [t |-> "allocated", f |-> f]
AllocationLimit == 256 ^ U64Width \div 2

\* A u16 of a tag and the length of a slice, which the format of the tag reads.
TagLenOf(of) == [t |-> "taglen", of |-> of]

\* Values outside of a set are refused; so are values a predicate of Wire
\* does not accept.
Only(f, set) == [t |-> "only", f |-> f, set |-> set]
Checked(f, predicate) == [t |-> "checked", f |-> f, predicate |-> predicate]

\* NonZero integers, and Option<NonZero> where zero stands for None.
NonZero(f) == [t |-> "nonzero", f |-> f]
ZeroIsNone(f) == [t |-> "zero_is_none", f |-> f]
NoneIsZero(o) == IF o = <<>> THEN 0 ELSE o[1]

------------------------------------------------------------------------------
(* What reading returns: a value and the octets left over, an error, or a    *)
(* panic of the reader named                                                 *)

Ok(v, rest) == [st |-> "ok", v |-> v, rest |-> rest]
Err == [st |-> "err"]
Panic(reader) == [st |-> "panic", at |-> reader]

\* The `?` of Rust: go on with the value, or return what went wrong.
AndThen(r, Go(_, _)) == IF r.st = "ok" THEN Go(r.v, r.rest) ELSE r

Number(b) == FoldLeft(LAMBDA n, o : n * 256 + o, 0, b)
Taken(b, n) == SubSeq(b, 1, n)
Untaken(b, n) == SubSeq(b, n + 1, Len(b))

get_uint(w, b) == IF Len(b) < w THEN Err ELSE Ok(Number(Taken(b, w)), Untaken(b, w))
get_slice(n, b) == IF Len(b) < n THEN Err ELSE Ok(Taken(b, n), Untaken(b, n))

------------------------------------------------------------------------------
(* The tagged encoding of chain-ser's abor.rs: an Encoder that fills in the  *)
(* size of an array when the array ends, and a Decoder that is told the type *)
(* of every element.  Integers are in little endian.                         *)

AborTag == [U8 |-> 1, U16 |-> 2, U32 |-> 3, U64 |-> 4, U128 |-> 5, Bytes |-> 6, Array |-> 7]

\* The octets of an integer, those of the wider ones scaled down, and the
\* octets its reader asks for: two for a u32, which has more.
AborWidth == [U8 |-> 1, U16 |-> 2, U32 |-> 3, U64 |-> 3, U128 |-> 3]
AskedFor == [AborWidth EXCEPT !.U32 = 2]

LittleEndian(w, n) == Reverse(BigEndian(w, n))

------------------------------------------------------------------------------
(* Encoder: the octets, the open arrays as <<element, place of the size>>,   *)
(* and the number of elements so far                                         *)

EncoderNew == [data |-> <<>>, hole |-> <<>>, current_element |-> 0]

push_slice(e, s) == [e EXCEPT !.data = @ \o s]
push_tag(e, type) == push_slice(e, <<AborTag[type]>>)
incr(e) == [e EXCEPT !.current_element = @ + 1]

encode_uint(e, type, n) ==
    incr(push_slice(push_tag(e, type), LittleEndian(AborWidth[type], n)))
encode_bytes(e, bs) == incr(push_slice(push_tag(e, "Bytes"), U8(Len(bs)) \o bs))

Poison == 254
struct_start(e) ==
    LET d == push_tag(e, "Array")
        c == d.current_element + 1
    IN  [data |-> Append(d.data, Poison), hole |-> Append(d.hole, <<c, Len(d.data) + 1>>),
         current_element |-> c]

\* The elements since the start, those of inner arrays included.
struct_end(e) ==
    LET top == Last(e.hole)
    IN  [e EXCEPT !.hole = Front(@), !.data[top[2]] = e.current_element - top[1]]

\* A caller writes <<type, value>>, an array as the sequence of its elements.
RECURSIVE EncodeElement(_, _)
EncodeElement(e, x) ==
    CASE x[1] = "Bytes" -> encode_bytes(e, x[2])
      [] x[1] = "Array" -> struct_end(FoldLeft(LAMBDA d, y : EncodeElement(d, y),
                                               struct_start(e), x[2]))
      [] OTHER -> encode_uint(e, x[1], x[2])
AborEncode(elements) ==
    FoldLeft(LAMBDA e, x : EncodeElement(e, x), EncoderNew, elements).data

------------------------------------------------------------------------------
(* Decoder                                                                   *)

AborOf(type) == [t |-> "abor", type |-> type]
AborArray(f) == [t |-> "abor_array", f |-> f]

\* The error for an unknown tag shows the octet behind it: none there, and
\* the program stops.
expect_tag(type, b) ==
    AndThen(get_uint(1, b), LAMBDA tag_, rest :
        CASE tag_ \notin Range(AborTag) -> IF rest = <<>> THEN Panic("expect_tag") ELSE Err
          [] tag_ = AborTag[type] -> Ok(tag_, rest)
          [] OTHER -> Err)

decode_uint(type, b) ==
    AndThen(expect_tag(type, b), LAMBDA tag_, rest :
        IF Len(rest) < AskedFor[type] THEN Err
        ELSE IF Len(rest) < AborWidth[type] THEN Panic("decode_uint")
        ELSE Ok(<<type, Number(Reverse(Taken(rest, AborWidth[type])))>>,
                Untaken(rest, AborWidth[type])))
decode_bytes(b) ==
    AndThen(expect_tag("Bytes", b), LAMBDA tag_, rest :
    AndThen(get_uint(1, rest), LAMBDA len, left :
    AndThen(get_slice(len, left), LAMBDA bs, unread : Ok(<<"Bytes", bs>>, unread))))
decode_array(b) == AndThen(expect_tag("Array", b), LAMBDA tag_, rest : get_uint(1, rest))
==============================================================================
