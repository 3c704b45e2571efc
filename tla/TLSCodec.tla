------------------------------ MODULE TLSCodec ------------------------------
(***************************************************************************)
(* tls: Marshal and Unmarshal, which walk a Go type by reflection.  A type *)
(* is a descriptor: [kind |-> "uint", size], [kind |-> "uint24"],          *)
(* [kind |-> "enum"], [kind |-> "array", len], [kind |-> "bytes"],         *)
(* [kind |-> "slice", elem] or [kind |-> "struct", fields], a field being  *)
(* [name, type, tag] with pointer |-> TRUE for a *T.  The value of a       *)
(* struct is the sequence of its fields' values; that of a pointer is <<>> *)
(* or <<v>>.  A byte has Base values, 256 in the code: the sizes of the    *)
(* integers are in bytes, so that a small Base keeps every boundary.       *)
(***************************************************************************)
EXTENDS Integers, Sequences, SequencesExt, FiniteSets

CONSTANT Base
ASSUME BaseAssumption == Base \in Nat \ {0, 1}

Word == 8         \* bytes of a uint64

BigEndian(s) == FoldLeft(LAMBDA n, d : n * Base + d, 0, s)
Digits(n, size) == [i \in 1 .. size |-> (n \div Base ^ (size - i)) % Base]

ByteCount(x) == CHOOSE k \in 1 .. Word : x < Base ^ k /\ (k = 1 \/ x >= Base ^ (k - 1))

-----------------------------------------------------------------------------
(* Field tags: a sequence of clauses [key, n], and name for a selector.     *)

NilInfo == [nil |-> TRUE, count |-> 0, countSet |-> FALSE, minlen |-> 0, maxlen |-> 0,
            selector |-> "", val |-> 0]

\* maxval and size start anew, the others add to what is there.
AddClause(info, c) ==
  LET this == [info EXCEPT !.nil = FALSE]
  IN  CASE c.key = "maxval"   -> [NilInfo EXCEPT !.nil = FALSE, !.count = ByteCount(c.n), !.countSet = TRUE]
        [] c.key = "size"     -> [NilInfo EXCEPT !.nil = FALSE, !.count = c.n, !.countSet = TRUE]
        [] c.key = "maxlen"   -> [this EXCEPT !.count = ByteCount(c.n), !.countSet = TRUE, !.maxlen = c.n]
        [] c.key = "minlen"   -> [this EXCEPT !.minlen = c.n]
        [] c.key = "selector" -> [this EXCEPT !.selector = c.name]
        [] c.key = "val"      -> [this EXCEPT !.val = c.n]

\* Results are [ok |-> TRUE, ...] or Err; Then is the early return on an error.
Err == [ok |-> FALSE]
Then(r, next(_)) == IF r.ok THEN next(r) ELSE Err

CheckedInfo(info, named) ==
  LET bad == /\ ~info.nil /\ info.selector = ""
             /\ \/ info.count < 1 \/ info.count > Word
                \/ info.minlen > info.maxlen
                \/ info.val > 0
  IN  IF bad THEN Err ELSE [ok |-> TRUE, info |-> [info EXCEPT !.nil = info.nil /\ ~named]]

FieldTagToFieldInfo(tag, named) == CheckedInfo(FoldLeft(AddClause, NilInfo, tag), named)

\* check.  1 << 64 is zero for a uint64, so that nothing fits in eight bytes.
FitsSize(val, count) == val < Base ^ count % Base ^ Word
Check(info, val) ==
  /\ FitsSize(val, info.count)
  /\ info.maxlen # 0 => info.minlen <= val /\ val <= info.maxlen

-----------------------------------------------------------------------------
(* Unmarshal.                                                               *)

Ok(val, off) == [ok |-> TRUE, val |-> val, off |-> off]

ReadVarUint(data, off, info) ==
  LET val == BigEndian(SubSeq(data, off + 1, off + info.count))
  IN  IF info.nil \/ ~info.countSet \/ Len(data) - off < info.count \/ ~Check(info, val) THEN Err
      ELSE Ok(val, off + info.count)

\* Any type of kind uint64 may be a selector.
IsEnum(t) == t.kind = "enum" \/ (t.kind = "uint" /\ t.size = Word)

RECURSIVE ParseField(_, _, _, _)

\* The field of a struct that is to be parsed next, given what came before:
\* values, enums by name, and the selectors met with whether they were served.
ParseWithInfo(data, acc, f, info) ==
  LET choice == info.selector # ""
      known  == info.selector \in DOMAIN acc.enums
      chosen == acc.enums[info.selector] = info.val
      served == info.selector \in acc.seen
      with(val, off) == [acc EXCEPT !.val = Append(@, val), !.off = off]
  IN  IF choice /\ (~known \/ ~f.pointer) THEN Err
      ELSE IF choice /\ ~chosen THEN [with(<<>>, acc.off) EXCEPT !.met = @ \cup {info.selector}]
      ELSE IF choice /\ served THEN Err
      ELSE Then(ParseField(f.type, data, acc.off, info), LAMBDA r :
        CASE choice -> [with(<<r.val>>, r.off) EXCEPT !.met = @ \cup {info.selector},
                                                      !.seen = @ \cup {info.selector}]
          [] ~choice /\ IsEnum(f.type) ->
               [with(r.val, r.off) EXCEPT !.enums = [x \in DOMAIN @ \cup {f.name} |-> IF x = f.name THEN r.val ELSE @[x]]]
          [] OTHER -> with(r.val, r.off))

ParseStructField(data, acc, f) ==
  Then(FieldTagToFieldInfo(f.tag, TRUE), LAMBDA t : ParseWithInfo(data, acc, f, t.info))

NoFields(off) == [ok |-> TRUE, val |-> <<>>, off |-> off, enums |-> [x \in {} |-> 0], met |-> {}, seen |-> {}]

ParseFields(fields, data, off) ==
  FoldLeft(LAMBDA acc, f : IF acc.ok THEN ParseStructField(data, acc, f) ELSE acc, NoFields(off), fields)

\* A slip: a selector whose value has no field is let through.
ParseStructAnySelector(fields, data, off) ==
  Then(ParseFields(fields, data, off), LAMBDA r : Ok(r.val, r.off))

ParseStruct(fields, data, off) ==
  Then(ParseFields(fields, data, off), LAMBDA r : IF r.met # r.seen THEN Err ELSE Ok(r.val, r.off))

RECURSIVE ParseElements(_, _, _)
ParseElements(elem, inner, vals) ==
  IF vals.off >= Len(inner) THEN vals
  ELSE Then(ParseField(elem, inner, vals.off, NilInfo),
            LAMBDA r : ParseElements(elem, inner, Ok(Append(vals.val, r.val), r.off)))

\* The bytes that the length before them announces, and where they end.
ReadPrefixed(data, off, info) ==
  Then(ReadVarUint(data, off, info), LAMBDA n :
    IF n.val > Len(data) - n.off THEN Err ELSE Ok(SubSeq(data, n.off + 1, n.off + n.val), n.off + n.val))

ParseField(t, data, off, info) ==
  LET left == Len(data) - off
  IN  CASE t.kind = "uint" ->
             IF left < t.size THEN Err ELSE Ok(BigEndian(SubSeq(data, off + 1, off + t.size)), off + t.size)
        [] t.kind = "uint24" ->      \* from the start of data, not from off
             IF left < 3 THEN Err ELSE Ok(BigEndian(SubSeq(data, 1, 3)), off + 3)
        [] t.kind = "enum" -> ReadVarUint(data, off, info)
        [] t.kind = "struct" -> ParseStruct(t.fields, data, off)
        [] t.kind = "array" ->
             IF left < t.len THEN Err ELSE Ok(SubSeq(data, off + 1, off + t.len), off + t.len)
        [] t.kind = "bytes" -> ReadPrefixed(data, off, info)
        [] t.kind = "slice" ->
             Then(ReadPrefixed(data, off, info), LAMBDA inner :
               Then(ParseElements(t.elem, inner.val, Ok(<<>>, 0)), LAMBDA elems : Ok(elems.val, inner.off)))

\* UnmarshalWithParams: the value and the bytes that are left.
Unmarshal(data, t, params) ==
  Then(FieldTagToFieldInfo(params, FALSE), LAMBDA i :
    Then(ParseField(t, data, 0, i.info), LAMBDA r :
      [ok |-> TRUE, val |-> r.val, rest |-> SubSeq(data, r.off + 1, Len(data))]))

-----------------------------------------------------------------------------
(* Marshal.                                                                 *)

Out(bytes) == [ok |-> TRUE, bytes |-> bytes]

RECURSIVE MarshalField(_, _, _)

MarshalWithInfo(v, acc, i, f, info) ==
  LET choice == info.selector # ""
      known  == info.selector \in DOMAIN acc.enums
      chosen == acc.enums[info.selector] = info.val
      served == info.selector \in acc.seen
      with(r) == [acc EXCEPT !.bytes = @ \o r.bytes]
  IN  IF choice /\ (~known \/ ~f.pointer) THEN Err
      ELSE IF choice /\ ~chosen
      THEN IF v[i] # <<>> THEN Err ELSE [acc EXCEPT !.met = @ \cup {info.selector}]
      ELSE IF choice /\ (served \/ v[i] = <<>>) THEN Err
      ELSE Then(MarshalField(f.type, IF choice THEN v[i][1] ELSE v[i], info), LAMBDA r :
        CASE choice -> [with(r) EXCEPT !.met = @ \cup {info.selector}, !.seen = @ \cup {info.selector}]
          [] ~choice /\ IsEnum(f.type) ->
               [with(r) EXCEPT !.enums = [x \in DOMAIN @ \cup {f.name} |-> IF x = f.name THEN v[i] ELSE @[x]]]
          [] OTHER -> with(r))

MarshalStructField(v, acc, i, f) ==
  Then(FieldTagToFieldInfo(f.tag, TRUE), LAMBDA t : MarshalWithInfo(v, acc, i, f, t.info))

NoBytes == [ok |-> TRUE, bytes |-> <<>>, enums |-> [x \in {} |-> 0], met |-> {}, seen |-> {}]

MarshalStruct(fields, v) ==
  Then(FoldLeft(LAMBDA acc, i : IF acc.ok THEN MarshalStructField(v, acc, i, fields[i]) ELSE acc,
                NoBytes, [i \in 1 .. Len(fields) |-> i]),
       LAMBDA r : IF r.met # r.seen THEN Err ELSE Out(r.bytes))

MarshalElements(elem, v) ==
  FoldLeft(LAMBDA acc, x : IF ~acc.ok THEN Err
                           ELSE Then(MarshalField(elem, x, NilInfo), LAMBDA r : Out(acc.bytes \o r.bytes)),
           Out(<<>>), v)

MarshalField(t, v, info) ==
  CASE t.kind = "uint" -> Out(Digits(v, t.size))
    [] t.kind = "uint24" -> IF v >= Base ^ 3 THEN Err ELSE Out(Digits(v, 3))
    [] t.kind = "enum" -> IF info.nil \/ ~Check(info, v) THEN Err ELSE Out(Digits(v, info.count))
    [] t.kind = "struct" -> MarshalStruct(t.fields, v)
    [] t.kind = "array" -> Out(v)
    [] t.kind = "bytes" ->
         IF info.nil \/ ~Check(info, Len(v)) THEN Err ELSE Out(Digits(Len(v), info.count) \o v)
    [] t.kind = "slice" ->
         IF info.nil THEN Err
         ELSE Then(MarshalElements(t.elem, v), LAMBDA elems :
           IF ~Check(info, Len(elems.bytes)) THEN Err ELSE Out(Digits(Len(elems.bytes), info.count) \o elems.bytes))

Marshal(v, t, params) ==
  Then(FieldTagToFieldInfo(params, FALSE), LAMBDA i : MarshalField(t, v, i.info))
=============================================================================
