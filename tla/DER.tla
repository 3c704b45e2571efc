-------------------------------- MODULE DER --------------------------------
(***************************************************************************)
(* The DER encoder and decoder of package asn1, a fork of Go's that can    *)
(* also read lax encodings.                                                *)
(*                                                                         *)
(* A Go type is described by a record with its kind; a structure's fields  *)
(* are [type, tag], tag the parts of the asn1 tag.  A structure's value is *)
(* the sequence of its fields' values, a string's the bytes of its UTF-8,  *)
(* and Nil is the nil slice, pointer or interface.  Offsets count from 0.  *)
(* In a time, month, day, hour and minute are one byte, the seconds        *)
(* another, and the zone a third.                                          *)
(***************************************************************************)
EXTENDS Integers, Sequences, SequencesExt, FiniteSets

CONSTANT Nil

\* Results are [ok |-> TRUE, ...] or Err; Then is the early return on an error.
Err == [ok |-> FALSE]
Then(r, next(_)) == IF r.ok THEN next(r) ELSE Err
Ok(val, off) == [ok |-> TRUE, val |-> val, off |-> off]
Val(val) == [ok |-> TRUE, val |-> val]
Out(bytes) == [ok |-> TRUE, bytes |-> bytes]
Sub(b, from, to) == SubSeq(b, from + 1, to)
AllBytes(b, S) == ToSet(b) \subseteq S
Least(S) == CHOOSE n \in S : \A k \in S : n <= k

ClassUniversal == 0
ClassApplication == 1
ClassContextSpecific == 2
ClassPrivate == 3

TagBoolean == 1
TagInteger == 2
TagBitString == 3
TagOctetString == 4
TagOID == 6
TagEnum == 10
TagUTF8String == 12
TagSequence == 16
TagSet == 17
TagNumericString == 18
TagPrintableString == 19
TagT61String == 20
TagIA5String == 22
TagUTCTime == 23
TagGeneralizedTime == 24
TagGeneralString == 27
TagBMPString == 30
OtherStrings == {TagIA5String, TagGeneralString, TagT61String, TagUTF8String, TagNumericString, TagBMPString}

-----------------------------------------------------------------------------
(* Field parameters: parts [k, n] of a tag string.                          *)

NoParams == [optional |-> FALSE, explicit |-> FALSE, application |-> FALSE, private |-> FALSE, default |-> <<>>,
             tag |-> <<>>, stringType |-> 0, timeType |-> 0, set |-> FALSE, omitEmpty |-> FALSE, lax |-> FALSE]
TagOrZero(p) == IF p.tag = <<>> THEN <<0>> ELSE p.tag
AddPart(p, part) ==
  CASE part.k = "optional"    -> [p EXCEPT !.optional = TRUE]
    [] part.k = "explicit"    -> [p EXCEPT !.explicit = TRUE, !.tag = TagOrZero(p)]
    [] part.k = "application" -> [p EXCEPT !.application = TRUE, !.tag = TagOrZero(p)]
    [] part.k = "private"     -> [p EXCEPT !.private = TRUE, !.tag = TagOrZero(p)]
    [] part.k = "generalized" -> [p EXCEPT !.timeType = TagGeneralizedTime]
    [] part.k = "utc"         -> [p EXCEPT !.timeType = TagUTCTime]
    [] part.k = "ia5"         -> [p EXCEPT !.stringType = TagIA5String]
    [] part.k = "printable"   -> [p EXCEPT !.stringType = TagPrintableString]
    [] part.k = "numeric"     -> [p EXCEPT !.stringType = TagNumericString]
    [] part.k = "utf8"        -> [p EXCEPT !.stringType = TagUTF8String]
    [] part.k = "default"     -> [p EXCEPT !.default = <<part.n>>]
    [] part.k = "tag"         -> [p EXCEPT !.tag = <<part.n>>]
    [] part.k = "set"         -> [p EXCEPT !.set = TRUE]
    [] part.k = "omitempty"   -> [p EXCEPT !.omitEmpty = TRUE]
    [] part.k = "lax"         -> [p EXCEPT !.lax = TRUE]
    [] OTHER                  -> p
ParseFieldParameters(tag) == FoldLeft(AddPart, NoParams, tag)

IntKinds == {"int32", "int64", "enum"}
SliceKinds == {"octets", "oid", "slice"}

\* getUniversalType; a slice type may have a name that ends in SET.
UniversalTag(t) ==
  CASE t.kind = "oid" -> TagOID
    [] t.kind = "bits" -> TagBitString
    [] t.kind = "time" -> TagUTCTime
    [] t.kind = "enum" -> TagEnum
    [] t.kind \in {"int32", "int64", "big"} -> TagInteger
    [] t.kind \in {"bool", "flag"} -> TagBoolean
    [] t.kind = "struct" -> TagSequence
    [] t.kind = "octets" -> TagOctetString
    [] t.kind = "slice" -> IF t.set THEN TagSet ELSE TagSequence
    [] t.kind = "string" -> TagPrintableString
    [] OTHER -> -1
IsCompound(t) == t.kind \in {"struct", "slice"}

RECURSIVE Zero(_)
Zero(t) ==
  CASE t.kind \in {"bool", "flag"} -> FALSE
    [] t.kind \in IntKinds -> 0
    [] t.kind \in SliceKinds \cup {"big", "any"} -> Nil
    [] t.kind = "string" -> <<>>
    [] t.kind = "bits" -> [bytes |-> Nil, len |-> 0]
    [] t.kind = "time" -> [year |-> 1, clock |-> 0, sec |-> 48, zone |-> 0]
    [] t.kind = "raw" -> [class |-> 0, tag |-> 0, compound |-> FALSE, bytes |-> Nil, full |-> Nil]
    [] t.kind = "struct" -> (IF t.raw THEN <<Nil>> ELSE <<>>) \o [i \in 1 .. Len(t.fields) |-> Zero(t.fields[i].type)]

\* setDefaultValue.
SetDefaultValue(t, p, off) ==
  IF ~p.optional THEN Err
  ELSE Ok(IF p.default # <<>> /\ t.kind \in IntKinds THEN p.default[1] ELSE Zero(t), off)

-----------------------------------------------------------------------------
(* Primitive values.                                                        *)

ParseBool(b) == IF b \in {<<0>>, <<255>>} THEN Val(b = <<255>>) ELSE Err

\* A slip: 0xff before a set bit is let through.
CheckIntegerZeros(b, lax) ==
  /\ b # <<>>
  /\ Len(b) = 1 \/ lax \/ ~(b[1] = 0 /\ b[2] < 128)

CheckInteger(b, lax) ==
  /\ b # <<>>
  /\ Len(b) = 1 \/ lax \/ ~((b[1] = 0 /\ b[2] < 128) \/ (b[1] = 255 /\ b[2] >= 128))

Signed(b) == FoldLeft(LAMBDA n, d : n * 256 + d, IF b[1] >= 128 THEN b[1] - 256 ELSE b[1], Tail(b))

ParseInt64(b, lax) == IF ~CheckInteger(b, lax) \/ Len(b) > 8 THEN Err ELSE Val(Signed(b))
ParseInt32(b, lax) ==
  Then(ParseInt64(b, lax), LAMBDA r : IF r.val \notin -2147483647 - 1 .. 2147483647 THEN Err ELSE r)
ParseBigInt(b, lax) == IF CheckInteger(b, lax) THEN Val(Signed(b)) ELSE Err

ParseBitString(b) ==
  IF b = <<>> THEN Err
  ELSE IF b[1] > 7 \/ (Len(b) = 1 /\ b[1] > 0) THEN Err
  ELSE IF b[Len(b)] % 2 ^ b[1] # 0 THEN Err
  ELSE Val([bytes |-> Tail(b), len |-> (Len(b) - 1) * 8 - b[1]])

\* At most five bytes, and a value below 2^31.
Base128Upto(b, off, last) ==
  LET high == FoldLeft(LAMBDA n, d : n * 128 + (d % 128), 0, Sub(b, off, last - 1))
  IN  IF last > off + 5 THEN Err ELSE IF high >= 2 ^ 24 THEN Err ELSE Ok(high * 128 + b[last], last)
ParseBase128Int(b, off) ==
  LET ends == {i \in off + 1 .. Len(b) : b[i] < 128}
  IN  IF ends = {} THEN Err ELSE Base128Upto(b, off, Least(ends))

RECURSIVE Base128Ints(_, _)
Base128Ints(b, off) ==
  IF off = Len(b) THEN Val(<<>>)
  ELSE Then(ParseBase128Int(b, off), LAMBDA v :
         Then(Base128Ints(b, v.off), LAMBDA more : Val(<<v.val>> \o more.val)))

ParseObjectIdentifier(b, lax) ==
  IF b = <<>> THEN IF lax THEN Val(<<>>) ELSE Err
  ELSE Then(Base128Ints(b, 0), LAMBDA r :
         LET first == r.val[1]
         IN  Val((IF first < 80 THEN <<first \div 40, first % 40>> ELSE <<2, first - 80>>) \o Tail(r.val)))

\* time.Parse, of one clock byte, a digit for the seconds, and a zone: 'Z', '+'
\* for +0100, or '-' for +0000, which is not written back as it was.
ClockBytes == 97 .. 100
Digit(b) == b \in 48 .. 57
Zone(b) == IF b = 43 THEN 1 ELSE 0
TimeText(b) == /\ Len(b) \in {2, 3} /\ b[1] \in ClockBytes /\ b[Len(b)] \in {90, 43}
               /\ Len(b) = 3 => Digit(b[2])
TimeOf(year, b) == [year |-> year, clock |-> b[1], sec |-> IF Len(b) = 3 THEN b[2] ELSE 48, zone |-> Zone(b[Len(b)])]

ParseUTCTime(b) ==
  LET yy   == (b[1] - 48) * 10 + b[2] - 48
      year == IF yy >= 69 THEN 1900 + yy ELSE 2000 + yy
  IN  IF Len(b) < 2 THEN Err
      ELSE IF ~Digit(b[1]) \/ ~Digit(b[2]) \/ ~TimeText(Sub(b, 2, Len(b))) THEN Err
      ELSE Val(TimeOf(IF year >= 2050 THEN year - 100 ELSE year, Sub(b, 2, Len(b))))
ParseGeneralizedTime(b) ==
  IF Len(b) # 7 THEN Err
  ELSE IF (\E i \in 1 .. 4 : ~Digit(b[i])) \/ ~TimeText(Sub(b, 4, 7)) THEN Err
  ELSE Val(TimeOf(FoldLeft(LAMBDA n, d : n * 10 + d - 48, 0, Sub(b, 0, 4)), Sub(b, 4, 7)))

Letters == 97 .. 122 \cup 65 .. 90
IsNumeric == 48 .. 57 \cup {32}
IsPrintable(asterisk, ampersand) ==
  Letters \cup 48 .. 57 \cup 39 .. 41 \cup 43 .. 47 \cup {32, 58, 61, 63}
  \cup (IF asterisk THEN {42} ELSE {}) \cup (IF ampersand THEN {38} ELSE {})

\* utf8.Valid: what the next byte may be, and how many are still to come.
ValidUTF8(b) ==
  LET start == [lo |-> 0, hi |-> 127, need |-> 0]
      cont(lo, hi, need) == [lo |-> lo, hi |-> hi, need |-> need]
      step(s, c) ==
        IF s.need > 0
        THEN IF c \notin s.lo .. s.hi THEN cont(1, 0, 9) ELSE cont(128, 191, s.need - 1)
        ELSE CASE c < 128 -> start
               [] c \in 194 .. 223 -> cont(128, 191, 1)
               [] c \in 224 .. 239 -> cont(IF c = 224 THEN 160 ELSE 128, IF c = 237 THEN 159 ELSE 191, 2)
               [] c \in 240 .. 244 -> cont(IF c = 240 THEN 144 ELSE 128, IF c = 244 THEN 143 ELSE 191, 3)
               [] OTHER -> cont(1, 0, 9)
  IN  FoldLeft(step, start, b).need = 0
UTF8(r) ==
  IF r < 128 THEN <<r>>
  ELSE IF r < 2048 THEN <<192 + r \div 64, 128 + (r % 64)>>
  ELSE IF r < 65536 THEN <<224 + r \div 4096, 128 + ((r \div 64) % 64), 128 + (r % 64)>>
  ELSE <<240 + r \div 262144, 128 + ((r \div 4096) % 64), 128 + ((r \div 64) % 64), 128 + (r % 64)>>
Runes(rs) == FoldLeft(LAMBDA s, r : s \o UTF8(r), <<>>, rs)

CouldBeISO8859_1(b) == AllBytes(b, 32 .. 126 \cup 160 .. 255)
CouldBeT61(b) == ToSet(b) \cap ({0, 35, 36, 92, 94, 96, 123, 125, 126, 165, 166, 172, 173, 174, 175, 185, 186, 192, 201}
                                \cup 208 .. 220 \cup {222, 223, 229, 255}) = {}

ParsePrintableString(b, lax) ==
  IF AllBytes(b, IsPrintable(TRUE, TRUE)) THEN Val(b)
  ELSE IF ~lax THEN Err
  ELSE IF CouldBeISO8859_1(b) THEN Val(Runes(b))
  ELSE IF CouldBeT61(b) THEN Val(b)
  ELSE Err

\* utf16.Decode: a surrogate without its mate is U+FFFD.
RECURSIVE DecodeUTF16(_)
DecodeUTF16(s) ==
  IF s = <<>> THEN <<>>
  ELSE IF s[1] \in 55296 .. 56319 /\ Len(s) >= 2 /\ s[2] \in 56320 .. 57343
  THEN <<(s[1] - 55296) * 1024 + (s[2] - 56320) + 65536>> \o DecodeUTF16(SubSeq(s, 3, Len(s)))
  ELSE <<IF s[1] \in 55296 .. 57343 THEN 65533 ELSE s[1]>> \o DecodeUTF16(Tail(s))
ParseBMPString(b) ==
  LET n == Len(b)
      m == IF n >= 2 /\ Sub(b, n - 2, n) = <<0, 0>> THEN n - 2 ELSE n
  IN  IF n % 2 # 0 THEN Err
      ELSE Val(Runes(DecodeUTF16([i \in 1 .. m \div 2 |-> b[2 * i - 1] * 256 + b[2 * i]])))

ParseString(tag, b, lax) ==
  CASE tag = TagPrintableString -> ParsePrintableString(b, lax)
    [] tag = TagNumericString -> IF AllBytes(b, IsNumeric) THEN Val(b) ELSE Err
    [] tag = TagIA5String -> IF AllBytes(b, 0 .. 127) THEN Val(b) ELSE Err
    [] tag \in {TagT61String, TagGeneralString} -> Val(b)
    [] tag = TagUTF8String -> IF ValidUTF8(b) THEN Val(b) ELSE Err
    [] tag = TagBMPString -> ParseBMPString(b)
    [] OTHER -> Err

-----------------------------------------------------------------------------
(* Tags and lengths.                                                        *)

\* The tag's number, and where the length starts.
ParseTagNumber(b, off) ==
  IF b[off + 1] % 32 # 31 THEN Ok(b[off + 1] % 32, off + 1)
  ELSE Then(ParseBase128Int(b, off + 1), LAMBDA tag : IF tag.val < 31 THEN Err ELSE tag)

\* The length, and where the contents start.
ParseLength(b, at) ==
  LET len    == b[at + 1]
      n      == len - 128
      length == FoldLeft(LAMBDA v, d : v * 256 + d, 0, Sub(b, at + 1, at + 1 + n))
  IN  IF at >= Len(b) THEN Err
      ELSE IF len < 128 THEN Ok(len, at + 1)
      ELSE IF n = 0 \/ at + 1 + n > Len(b) THEN Err
      ELSE IF b[at + 2] = 0 \/ n > 4 \/ (n = 4 /\ b[at + 2] >= 128) \/ length < 128 THEN Err
      ELSE Ok(length, at + 1 + n)

ParseTagAndLength(b, off) ==
  IF off >= Len(b) THEN Err
  ELSE Then(ParseTagNumber(b, off), LAMBDA tag :
         Then(ParseLength(b, tag.off), LAMBDA len :
           [ok |-> TRUE, class |-> b[off + 1] \div 64, compound |-> (b[off + 1] \div 32) % 2 = 1, tag |-> tag.val,
            length |-> len.val, off |-> len.off]))

InvalidLength(off, length, n) == off + length > n

Base128(n) ==
  LET l == Least({k \in 1 .. 5 : k = 5 \/ n < 128 ^ k})
  IN  [i \in 1 .. l |-> ((n \div 128 ^ (l - i)) % 128) + (IF i < l THEN 128 ELSE 0)]
LengthLength(n) == Least({k \in 1 .. 4 : k = 4 \/ n < 256 ^ k})
AppendLength(n) == LET l == LengthLength(n) IN [i \in 1 .. l |-> (n \div 256 ^ (l - i)) % 256]
TagAndLength(class, compound, tag, length) ==
  LET id == class * 64 + (IF compound THEN 32 ELSE 0)
  IN  (IF tag >= 31 THEN <<id + 31>> \o Base128(tag) ELSE <<id + tag>>)
      \o (IF length >= 128 THEN <<128 + LengthLength(length)>> \o AppendLength(length) ELSE <<length>>)

-----------------------------------------------------------------------------
(* Parsing.                                                                 *)

AnyKinds == [tag \in {TagPrintableString, TagNumericString, TagIA5String, TagT61String, TagUTF8String, TagBMPString} |->
               "string"]
\* A value for interface{}: <<kind, value>>, or Nil for a type not known here.
AnyContent(tag, inner, p) ==
  LET as(kind, r) == IF r.ok THEN Val(<<kind, r.val>>) ELSE Err
  IN  CASE tag \in DOMAIN AnyKinds -> as("string", ParseString(tag, inner, p.lax))
        [] tag = TagInteger -> as("int64", ParseInt64(inner, p.lax))
        [] tag = TagBitString -> as("bits", ParseBitString(inner))
        [] tag = TagOID -> as("oid", ParseObjectIdentifier(inner, p.lax))
        [] tag = TagUTCTime -> as("time", ParseUTCTime(inner))
        [] tag = TagGeneralizedTime -> as("time", ParseGeneralizedTime(inner))
        [] tag = TagOctetString -> as("octets", Val(inner))
        [] OTHER -> Val(Nil)
ParseAny(b, off, p) ==
  Then(ParseTagAndLength(b, off), LAMBDA h :
    IF InvalidLength(h.off, h.length, Len(b)) THEN Err
    ELSE IF h.compound \/ h.class # ClassUniversal THEN Ok(Nil, h.off + h.length)
    ELSE Then(AnyContent(h.tag, Sub(b, h.off, h.off + h.length), p), LAMBDA r : Ok(r.val, h.off + h.length)))

RECURSIVE SameTags(_, _, _)
\* The first pass of parseSequenceOf.
SameTags(b, off, elem) ==
  LET canonical(tag) == IF tag \in OtherStrings THEN TagPrintableString
                        ELSE IF tag = TagGeneralizedTime THEN TagUTCTime ELSE tag
  IN  off < Len(b) =>
        \E h \in {ParseTagAndLength(b, off)} :
          /\ h.ok
          /\ \/ elem.kind = "raw"
             \/ h.class = ClassUniversal /\ h.compound = IsCompound(elem) /\ canonical(h.tag) = UniversalTag(elem)
          /\ ~InvalidLength(h.off, h.length, Len(b))
          /\ SameTags(b, h.off + h.length, elem)

RECURSIVE ParseField(_, _, _, _), ParseElements(_, _, _, _), ParseContent(_, _, _, _, _)

ParseElements(b, off, elem, lax) ==
  IF off = Len(b) THEN Val(<<>>)
  ELSE Then(ParseField(elem, b, off, [NoParams EXCEPT !.lax = lax]), LAMBDA r :
         Then(ParseElements(b, r.off, elem, lax), LAMBDA more : Val(<<r.val>> \o more.val)))

\* A structure may be followed by more than its fields.
ParseStruct(t, full, inner, lax) ==
  LET step(acc, f) ==
        IF ~acc.ok THEN Err
        ELSE Then(ParseField(f.type, inner, acc.off, [ParseFieldParameters(f.tag) EXCEPT !.lax = lax]),
                  LAMBDA r : Ok(Append(acc.val, r.val), r.off))
  IN  Then(FoldLeft(step, Ok(IF t.raw THEN <<full>> ELSE <<>>, 0), t.fields), LAMBDA all : Val(all.val))

ParseContent(t, tag, full, inner, lax) ==
  CASE t.kind = "oid" -> ParseObjectIdentifier(inner, lax)
    [] t.kind = "bits" -> ParseBitString(inner)
    [] t.kind = "time" -> IF tag = TagUTCTime THEN ParseUTCTime(inner) ELSE ParseGeneralizedTime(inner)
    [] t.kind \in {"enum", "int32"} -> ParseInt32(inner, lax)
    [] t.kind = "int64" -> ParseInt64(inner, lax)
    [] t.kind = "big" -> ParseBigInt(inner, lax)
    [] t.kind = "flag" -> Val(TRUE)
    [] t.kind = "bool" -> ParseBool(inner)
    [] t.kind = "octets" -> Val(inner)
    [] t.kind = "string" -> ParseString(tag, inner, lax)
    [] t.kind = "struct" -> ParseStruct(t, full, inner, lax)
    [] t.kind = "slice" -> IF t.elem.kind = "any" \/ ~SameTags(inner, 0, t.elem) THEN Err
                           ELSE ParseElements(inner, 0, t.elem, lax)

\* parseField, once an explicit tag is unwrapped: h is the tag and length.
ParseTagged(t, b, off, p, h) ==
  LET univ == IF t.kind = "string" /\ h.class = ClassUniversal /\ h.tag \in OtherStrings THEN h.tag
              ELSE IF t.kind = "string" /\ h.class # ClassUniversal /\ p.stringType # 0 THEN p.stringType
              ELSE IF t.kind = "time" /\ h.tag = TagGeneralizedTime /\ h.class = ClassUniversal THEN TagGeneralizedTime
              ELSE UniversalTag(t)
      tag    == IF p.set THEN TagSet ELSE univ
      own    == ~p.explicit /\ p.tag # <<>>
      class  == IF ~own THEN ClassUniversal ELSE IF p.private THEN ClassPrivate
                ELSE IF p.application THEN ClassApplication ELSE ClassContextSpecific
      any    == t.kind = "raw"
      fits   == /\ (any /\ ~own) \/ (h.class = class /\ h.tag = IF own THEN p.tag[1] ELSE tag)
                /\ any \/ h.compound = IsCompound(t)
      end    == h.off + h.length
  IN  IF ~fits THEN SetDefaultValue(t, p, off)
      ELSE IF InvalidLength(h.off, h.length, Len(b)) THEN Err
      ELSE IF any THEN Ok([class |-> h.class, tag |-> h.tag, compound |-> h.compound, bytes |-> Sub(b, h.off, end),
                           full |-> Sub(b, off, end)], end)
      ELSE Then(ParseContent(t, tag, Sub(b, off, end), Sub(b, h.off, end), p.lax), LAMBDA r : Ok(r.val, end))

\* parseField, when h was read: an explicit tag has the tag of the type inside.
ParseHeaded(t, b, off, p, h) ==
  LET wrapper == /\ h.class = (IF p.application THEN ClassApplication ELSE ClassContextSpecific)
                 /\ h.tag = p.tag[1] /\ (h.length = 0 \/ h.compound)
      unwrap  == p.explicit /\ t.kind # "raw"
  IN  IF p.explicit /\ h.off = Len(b) THEN Err
      ELSE IF p.explicit /\ ~wrapper THEN SetDefaultValue(t, p, off)
      ELSE IF unwrap /\ h.length = 0 THEN IF t.kind = "flag" THEN Ok(TRUE, h.off) ELSE Err
      ELSE Then(IF unwrap THEN ParseTagAndLength(b, h.off) ELSE h, LAMBDA i : ParseTagged(t, b, off, p, i))

ParseField(t, b, off, p) ==
  IF off = Len(b) THEN SetDefaultValue(t, p, off)
  ELSE IF t.kind = "any" THEN ParseAny(b, off, p)
  ELSE Then(ParseTagAndLength(b, off), LAMBDA h : ParseHeaded(t, b, off, p, h))

\* UnmarshalWithParams.
Unmarshal(b, t, params) ==
  Then(ParseField(t, b, 0, ParseFieldParameters(params)), LAMBDA r :
    [ok |-> TRUE, val |-> r.val, rest |-> Sub(b, r.off, Len(b))])

-----------------------------------------------------------------------------
(* Marshalling.                                                             *)

TwosComplement(i, n) == [k \in 1 .. n |-> (i \div 256 ^ (n - k)) % 256]
Int64Encoder(i) ==
  LET n == Least({k \in 1 .. 3 : i \in -(128 * 256 ^ (k - 1)) .. 128 * 256 ^ (k - 1) - 1})
  IN  TwosComplement(i, n)
\* big.Int.Bytes has no leading zeros.
Magnitude(n) == LET l == Least({k \in 0 .. 3 : n < 256 ^ k}) IN TwosComplement(n, l)
MakeBigInt(n) ==
  LET inv == [k \in 1 .. Len(Magnitude(-n - 1)) |-> 255 - Magnitude(-n - 1)[k]]
      pad(byte, b, need) == IF need THEN <<byte>> \o b ELSE b
  IN  IF n < 0 THEN pad(255, inv, inv = <<>> \/ (inv # <<>> /\ inv[1] < 128))
      ELSE IF n = 0 THEN <<0>>
      ELSE pad(0, Magnitude(n), Magnitude(n)[1] >= 128)

MakeObjectIdentifier(oid) ==
  IF Len(oid) < 2 THEN Err
  ELSE IF oid[1] > 2 \/ (oid[1] < 2 /\ oid[2] >= 40) THEN Err
  ELSE Out(FoldLeft(LAMBDA b, n : b \o Base128(n), Base128(oid[1] * 40 + oid[2]), SubSeq(oid, 3, Len(oid))))

OutsideUTCRange(t) == t.year < 1950 \/ t.year >= 2050
Generalized(t, p) == p.timeType = TagGeneralizedTime \/ OutsideUTCRange(t)
MakeTime(t, p) ==
  LET digits(n, k) == [i \in 1 .. k |-> 48 + ((n \div 10 ^ (k - i)) % 10)]
      common == <<t.clock, t.sec, IF t.zone = 0 THEN 90 ELSE 43>>
  IN  IF ~Generalized(t, p) THEN Out(digits(t.year % 100, 2) \o common)
      ELSE IF t.year \notin 0 .. 9999 THEN Err ELSE Out(digits(t.year, 4) \o common)

MakeString(s, stringType) ==
  CASE stringType = TagIA5String -> IF AllBytes(s, 0 .. 127) THEN Out(s) ELSE Err
    [] stringType = TagPrintableString -> IF AllBytes(s, IsPrintable(TRUE, FALSE)) THEN Out(s) ELSE Err
    [] stringType = TagNumericString -> IF AllBytes(s, IsNumeric) THEN Out(s) ELSE Err
    [] OTHER -> Out(s)

Concat(outs) ==
  IF \E i \in DOMAIN outs : ~outs[i].ok THEN Err
  ELSE Out(FoldLeft(LAMBDA b, o : b \o o.bytes, <<>>, outs))
StripTagAndLength(b) ==
  LET h == ParseTagAndLength(b, 0) IN IF h.ok THEN Sub(b, h.off, Len(b)) ELSE b

RECURSIVE MakeField(_, _, _), MakeBody(_, _, _)
MakeBody(t, v, p) ==
  LET skip == IF t.raw THEN 1 ELSE 0
  IN
  CASE t.kind = "flag" -> Out(<<>>)
    [] t.kind = "time" -> MakeTime(v, p)
    [] t.kind = "bits" -> Out(<<(8 - (v.len % 8)) % 8>> \o v.bytes)
    [] t.kind = "oid" -> MakeObjectIdentifier(IF v = Nil THEN <<>> ELSE v)
    [] t.kind = "big" -> IF v = Nil THEN Err ELSE Out(MakeBigInt(v))
    [] t.kind = "bool" -> Out(IF v THEN <<255>> ELSE <<0>>)
    [] t.kind \in IntKinds -> Out(Int64Encoder(v))
    [] t.kind = "octets" -> Out(IF v = Nil THEN <<>> ELSE v)
    [] t.kind = "string" -> MakeString(v, p.stringType)
    [] t.kind = "slice" -> IF v = Nil THEN Out(<<>>) ELSE Concat([i \in DOMAIN v |-> MakeField(t.elem, v[i], NoParams)])
    [] t.kind = "struct" ->
         IF t.raw /\ v[1] # Nil /\ v[1] # <<>> THEN Out(StripTagAndLength(v[1]))
         ELSE Concat([i \in DOMAIN t.fields |->
                MakeField(t.fields[i].type, v[i + skip], ParseFieldParameters(t.fields[i].tag))])

\* The tag of a string without a string type, or Err for one that is not UTF-8.
StringTag(s) ==
  IF AllBytes(s, IsPrintable(FALSE, FALSE)) THEN Val(TagPrintableString)
  ELSE IF ValidUTF8(s) THEN Val(TagUTF8String) ELSE Err

\* A kind as the type of an interface{}'s value.
AnyType(kind) == [kind |-> kind]

\* The tag of the value, were it not for p.tag.
MakeTag(t, v, p) ==
  CASE t.kind = "string" -> IF p.stringType = 0 THEN StringTag(v) ELSE Val(p.stringType)
    [] t.kind = "time" -> Val(IF Generalized(v, p) THEN TagGeneralizedTime ELSE TagUTCTime)
    [] OTHER -> Val(IF p.set THEN TagSet ELSE UniversalTag(t))

\* The body with its tag, p.tag in place of it or around it.
WithTag(class, comp, tag, p, body) ==
  LET plain == TagAndLength(ClassUniversal, comp, tag, Len(body)) \o body
  IN  IF p.tag = <<>> THEN Out(plain)
      ELSE IF p.explicit THEN Out(TagAndLength(class, TRUE, p.tag[1], Len(plain)) \o plain)
      ELSE Out(TagAndLength(class, comp, p.tag[1], Len(body)) \o body)

MakeField(t, v, p) ==
  LET class == IF p.application THEN ClassApplication ELSE IF p.private THEN ClassPrivate ELSE ClassContextSpecific
  IN  IF t.kind = "any" THEN IF v = Nil THEN Err ELSE MakeField(AnyType(v[1]), v[2], p)
      ELSE IF t.kind \in SliceKinds /\ p.omitEmpty /\ (v = Nil \/ v = <<>>) THEN Out(<<>>)
      ELSE IF p.optional /\ p.default # <<>> /\ t.kind \in IntKinds /\ <<v>> = p.default THEN Out(<<>>)
      ELSE IF p.optional /\ p.default = <<>> /\ v = Zero(t) THEN Out(<<>>)
      ELSE IF t.kind = "raw"
      THEN IF v.full # Nil /\ v.full # <<>> THEN Out(v.full)
           ELSE Out(TagAndLength(v.class, v.compound, v.tag, Len(v.bytes)) \o v.bytes)
      ELSE IF p.timeType # 0 /\ t.kind # "time" THEN Err
      ELSE IF p.stringType # 0 /\ t.kind # "string" THEN Err
      ELSE IF p.set /\ UniversalTag(t) # TagSequence THEN Err
      ELSE Then(MakeTag(t, v, p), LAMBDA tag :
             Then(MakeBody(t, v, p), LAMBDA body : WithTag(class, IsCompound(t), tag.val, p, body.bytes)))

\* MarshalWithParams.
Marshal(v, t, params) == MakeField(t, v, ParseFieldParameters(params))

-----------------------------------------------------------------------------
(* Types and inputs: byte strings that grow over the alphabet of a group  *)
(* of types, and values that are written and read.                         *)

K(kind) == [kind |-> kind]
SliceOf(elem) == [kind |-> "slice", elem |-> elem, set |-> FALSE]
SetOf(elem) == [kind |-> "slice", elem |-> elem, set |-> TRUE]
F(type, parts) == [type |-> type, tag |-> [i \in DOMAIN parts |-> IF parts[i][1] \in {"tag", "default"}
                                            THEN [k |-> parts[i][1], n |-> parts[i][2]] ELSE [k |-> parts[i][1], n |-> 0]]]
StructOf(raw, fields) == [kind |-> "struct", raw |-> raw, fields |-> fields]

\* The shape of a TBSCertificate, an extension, and one with each kind of tag.
Tbs == StructOf(FALSE, <<F(K("int64"), <<<<"optional">>, <<"explicit">>, <<"default", 0>>, <<"tag", 0>>>>), F(K("big"), <<>>)>>)
Extension == StructOf(TRUE, <<F(K("bool"), <<<<"optional">>>>), F(K("octets"), <<>>)>>)
Tagged == StructOf(FALSE, <<F(K("octets"), <<<<"optional">>, <<"tag", 0>>>>), F(SliceOf(K("int64")), <<<<"optional">>, <<"set">>>>),
                            F(K("flag"), <<<<"optional">>, <<"application">>>>)>>)

Groups ==
  [ints    |-> [types |-> {K("int64"), K("int32"), K("enum"), K("big"), K("bool"), K("any")},
                bytes |-> {0, 1, 2, 10, 127, 128, 255}, start |-> <<>>, max |-> 4],
   strings |-> [types |-> {K("bits"), K("octets"), K("oid"), K("string"), K("raw"), K("flag"), K("any")},
                bytes |-> {1, 2, 3, 4, 6, 12, 19, 30, 65, 128, 233}, start |-> <<>>, max |-> 4],
   lengths |-> [types |-> {K("octets"), K("raw"), K("any")}, bytes |-> {0, 1, 2, 127, 128, 129, 130, 132}, start |-> <<4>>, max |-> 6],
   slices  |-> [types |-> {SliceOf(K("int64")), SetOf(K("bool")), SliceOf(K("string")), SliceOf(K("raw")), Extension},
                bytes |-> {0, 1, 2, 3, 4, 12, 19, 255}, start |-> <<48>>, max |-> 6],
   structs |-> [types |-> {Tbs, Tagged}, bytes |-> {0, 1, 2, 3, 17, 49, 96, 128, 160}, start |-> <<48>>, max |-> 6]]

\* The kinds with a single encoding.
Exact == {K("int64"), K("int32"), K("enum"), K("big"), K("bool"), K("bits"), K("octets"), K("raw"),
          SliceOf(K("int64")), SetOf(K("bool")), SliceOf(K("raw"))}
\* Even of those, a tag number may be written with leading zeros (0x80).
PaddedTag(b) == \E i \in 1 .. Len(b) - 1 : b[i] % 32 = 31 /\ b[i + 1] = 128

LaxTag == <<[k |-> "lax", n |-> 0]>>

ReadRewritten(t, b) ==
  \A r \in {Unmarshal(b, t, <<>>)} : r.ok =>
    /\ Unmarshal(b, t, LaxTag) = r
    /\ \A m \in {Marshal(r.val, t, <<>>)} :
         /\ t \in Exact /\ ~PaddedTag(b) => m.ok /\ m.bytes \o r.rest = b
         /\ m.ok => \A u \in {Unmarshal(m.bytes \o r.rest, t, <<>>)} :
              /\ u.ok /\ u.rest = r.rest
              /\ IF t.kind = "struct" /\ t.raw THEN Tail(u.val) = Tail(r.val)
                 ELSE IF t.kind = "raw" THEN u.val.full = r.val.full ELSE u.val = r.val

\* Values, with the parameters they are written and read with.
P(parts) == F(K("bool"), parts).tag
Ints == {0, 1, 127, 128, 255, 256, 32767, 32768, -1, -127, -128, -129, -255, -256, -257, -32768, -32769}
Case(t, v, p) == [t |-> t, v |-> v, p |-> p]
Cases ==
  {Case(K(k), v, p) : k \in {"int64", "big", "enum"}, v \in Ints, p \in {<<>>, P(<<<<"tag", 3>>>>), P(<<<<"explicit">>, <<"tag", 40>>>>)}}
  \cup {Case(K("int64"), v, P(<<<<"optional">>, <<"default", 1>>>>)) : v \in {0, 1, 2}}
  \cup {Case(K("octets"), [i \in 1 .. n |-> 7], p) : n \in {0, 1, 127, 128, 255, 256}, p \in {<<>>, P(<<<<"private">>, <<"tag", 200>>>>)}}
  \cup {Case(K("oid"), o, <<>>) : o \in {<<0, 0>>, <<1, 39>>, <<2, 5, 29, 15>>, <<2, 999, 3>>, <<1, 3, 6, 1, 4, 1, 11129, 2, 4, 2>>, <<0, 40>>, <<3, 1>>, <<1>>}}
  \cup {Case(K("time"), [year |-> y, clock |-> 98, sec |-> s, zone |-> z], p) :
          y \in {0, 1949, 1950, 1968, 1969, 1999, 2000, 2049, 2050, 9999, 10000}, s \in {48, 53}, z \in {0, 1},
          p \in {<<>>, P(<<<<"generalized">>>>), P(<<<<"utc">>>>)}}
  \cup {Case(K("string"), s, p) : s \in {<<>>, <<65, 32>>, <<42>>, <<38>>, <<64>>, <<195, 169>>, <<233>>, <<49>>},
          p \in {<<>>, P(<<<<"ia5">>>>), P(<<<<"printable">>>>), P(<<<<"numeric">>>>), P(<<<<"ia5">>, <<"tag", 2>>>>)}}
  \cup {Case(K("bits"), [bytes |-> <<128, 64>>, len |-> n], <<>>) : n \in {10, 12, 16}}
  \cup {Case(SliceOf(K("int64")), s, p) : s \in {<<>>, <<1>>, <<1, -1>>}, p \in {<<>>, P(<<<<"set">>>>)}}
  \cup {Case(Tbs, <<v, n>>, <<>>) : v \in 0 .. 2, n \in {-1, 0, 128}}
  \cup {Case(SliceOf(K("int64")), v, P(<<<<"optional">>, <<"omitempty">>>>)) : v \in {Nil, <<1>>}}
  \cup {Case(Tagged, <<a, b, c>>, <<>>) : a \in {Nil, <<>>, <<1>>}, b \in {<<1>>, <<2, 3>>}, c \in BOOLEAN}

WrittenReads(c, tail) ==
  \A m \in {Marshal(c.v, c.t, c.p)} : m.ok =>
    \A u \in {Unmarshal(m.bytes \o tail, c.t, c.p)} : u.ok /\ u.val = c.v /\ u.rest = tail
=============================================================================
