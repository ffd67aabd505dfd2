------------------------------- MODULE Nanopb -------------------------------
(***************************************************************************)
(* nanopb 0.4.8: messages, described by tables of fields, to bytes         *)
(* (pb_encode.c) and back (pb_decode.c), with the iterator over a table    *)
(* (pb_common.c).  The bytes come from nanopb, or from any program that    *)
(* writes fields in any order, in any of their forms, with some unknown;   *)
(* they may be cut off.                                                    *)
(*                                                                         *)
(* A byte carries `Group` bits of a varint, 7 in the code, and a word has  *)
(* Width bits, 32 there.  Fields are static; callbacks, extensions,        *)
(* strings (bytes that end with NUL) and default values are left out;      *)
(* streams are in memory and large enough.                                 *)
(*                                                                         *)
(* A definition whose comment calls it a fault stands before the one it is *)
(* a faulty variant of; nothing uses it but the mutants of the runs.       *)
(***************************************************************************)
EXTENDS Integers, Sequences, FiniteSets, SequencesExt

CONSTANTS
    Group, Width,
    MsgTypes,       \* pb_msgdesc_t: from names of messages to their fields, by tag
    Main,           \* the message that is decoded
    Messages,       \* messages that nanopb encodes
    Pieces,         \* a sequence of fields that other programs write
    MaxPieces,      \* bound: pieces on the wire
    MaxPiecesCut    \* bound: pieces on a wire that is cut off

LTypes == {"bool", "varint", "uvarint", "svarint", "fixed", "bytes", "submsg"}
HTypes == {"required", "optional", "singular", "repeated", "fixed_count", "oneof"}

NanopbAssumption ==
    /\ Group \in Nat \ {0} /\ Width \in Nat /\ Group < Width /\ Width % (Group + 1) = 0
    /\ 2 * Width % Group = 1 /\ Width % Group > 1
    /\ MaxPieces \in Nat /\ MaxPiecesCut \in Nat /\ Main \in DOMAIN MsgTypes
    /\ \A type \in DOMAIN MsgTypes : \A i \in DOMAIN MsgTypes[type] :
           LET f == MsgTypes[type][i]
           IN  /\ f.ltype \in LTypes /\ f.htype \in HTypes
               /\ f.ltype = "submsg" =>
                      f.sub \in DOMAIN MsgTypes /\ f.htype \notin {"singular", "fixed_count"}
               /\ \A j \in 1 .. i - 1 : MsgTypes[type][j].tag < f.tag

VARIABLES
    place,      \* "write", "sent", "decode", "done" or "failed"
    wire,       \* the bytes
    mode,       \* how the message ends: with the bytes, by a length before it, by a zero
    pieces,     \* how many pieces were written
    last,       \* how many bytes the last of them has
    meant,      \* what the bytes mean
    pos,        \* the next byte to read
    levels      \* the calls of pb_decode_inner, the innermost last

vars == <<place, wire, mode, pieces, last, meant, pos, levels>>

---------------------------------------------------------------------------
(* Messages and their fields.                                              *)

Fields(type) == ToSet(MsgTypes[type])
HasTag(type, tag) == \E f \in Fields(type) : f.tag = tag
FieldOf(type, tag) == CHOOSE f \in Fields(type) : f.tag = tag
Subs(type) == SelectSeq(MsgTypes[type], LAMBDA f : f.ltype = "submsg")
RequiredCount(type) == Cardinality({f \in Fields(type) : f.htype = "required"})

Packable(f) == f.ltype \notin {"bytes", "submsg"}
IsArray(f) == f.htype \in {"repeated", "fixed_count"}

(* A message before anything was decoded, pb_message_set_to_defaults: the  *)
(* elements of an array of fixed count are not given values.               *)
RECURSIVE Defaults(_)
Zero(f) == CASE f.ltype = "bool" -> FALSE
             [] f.ltype = "bytes" -> <<>>
             [] f.ltype = "submsg" -> Defaults(f.sub)
             [] OTHER -> 0
Default(f) == IF IsArray(f) THEN <<>>
              ELSE IF f.htype = "optional" THEN [has |-> FALSE, val |-> Zero(f)]
              ELSE Zero(f)
Defaults(type) == [which |-> 0,
                   of |-> [tag \in {f.tag : f \in Fields(type)} |-> Default(FieldOf(type, tag))]]

(* The message with v, of an array all elements, for field f. *)
With(msg, f, v) ==
    [which |-> IF f.htype = "oneof" THEN f.tag ELSE msg.which,
     of |-> [msg.of EXCEPT ![f.tag] =
                 IF f.htype = "optional" THEN [has |-> TRUE, val |-> v] ELSE v]]

(* What is there of submessage f for a decoder to start from.              *)
Start(msg, f) ==
    IF IsArray(f) \/ (f.htype = "oneof" /\ msg.which # f.tag) THEN Defaults(f.sub)
    ELSE IF f.htype = "optional" THEN msg.of[f.tag].val
    ELSE msg.of[f.tag]

---------------------------------------------------------------------------
(* Writing.                                                                *)

Cont == 2 ^ Group               \* the bit that says that a varint goes on
FullGroups == Width \div Group  \* groups of the low word that it alone fills
Rest == Width % Group           \* bits of the low word in the group after them

(* pb_encode_varint_32: the low word group by group, then a group of both  *)
(* words, then the high word.                                              *)
RECURSIVE HighGroups(_, _), LowGroups(_, _, _)
HighGroups(byte, high) ==
    IF high = 0 THEN <<byte>> ELSE <<byte + Cont>> \o HighGroups(high % Cont, high \div Cont)
LowGroups(i, low, high) ==
    IF i < FullGroups /\ (low \div Cont # 0 \/ high # 0)
    THEN <<(low % Cont) + Cont>> \o LowGroups(i + 1, low \div Cont, high)
    ELSE IF high = 0 THEN <<low % Cont>>
    ELSE HighGroups((low % Cont) + (high % 2 ^ (Group - Rest)) * 2 ^ Rest,
                    high \div 2 ^ (Group - Rest))

EncodeVarint(v) == LowGroups(0, v % 2 ^ Width, v \div 2 ^ Width)

EncodeSvarint(v) == EncodeVarint(IF v < 0 THEN - 2 * v - 1 ELSE 2 * v)

FixedLen(bits) == bits \div (Group + 1)
EncodeFixed(bits, v) == [i \in 1 .. FixedLen(bits) |-> (v \div (2 * Cont) ^ (i - 1)) % (2 * Cont)]

EncodeTag(wire_type, tag) == EncodeVarint(tag * 8 + wire_type)

WireType(f) == CASE f.ltype \in {"bytes", "submsg"} -> 2
                 [] f.ltype = "fixed" -> IF f.bits = Width THEN 5 ELSE 1
                 [] OTHER -> 0

EncodeString(bytes) == EncodeVarint(Len(bytes)) \o bytes

RECURSIVE Encode(_, _)
EncodeValue(f, v) ==
    CASE f.ltype = "bool" -> EncodeVarint(IF v THEN 1 ELSE 0)
      [] f.ltype = "uvarint" -> EncodeVarint(v)
      [] f.ltype = "varint" -> EncodeVarint(v % 2 ^ (2 * Width))
      [] f.ltype = "svarint" -> EncodeSvarint(v)
      [] f.ltype = "fixed" -> EncodeFixed(f.bits, v)
      [] f.ltype = "bytes" -> EncodeString(v)
      [] f.ltype = "submsg" -> EncodeString(Encode(f.sub, v))
EncodeBasic(f, v) == EncodeTag(WireType(f), f.tag) \o EncodeValue(f, v)

(* Arrays of what can be packed are.                                       *)
EncodePacked(f, vs) ==
    EncodeTag(2, f.tag) \o EncodeString(FlattenSeq([i \in DOMAIN vs |-> EncodeValue(f, vs[i])]))
EncodeArray(f, vs) ==
    IF vs = <<>> THEN <<>>
    ELSE IF Packable(f) THEN EncodePacked(f, vs)
    ELSE FlattenSeq([i \in DOMAIN vs |-> EncodeBasic(f, vs[i])])

EncodeField(f, msg) ==
    LET v == msg.of[f.tag]
    IN  CASE IsArray(f) -> EncodeArray(f, v)
          [] f.htype = "oneof" -> IF msg.which = f.tag THEN EncodeBasic(f, v) ELSE <<>>
          [] f.htype = "optional" -> IF v.has THEN EncodeBasic(f, v.val) ELSE <<>>
          [] f.htype = "singular" -> IF v = Zero(f) THEN <<>> ELSE EncodeBasic(f, v)
          [] f.htype = "required" -> EncodeBasic(f, v)

Encode(type, msg) ==
    FlattenSeq([i \in DOMAIN MsgTypes[type] |-> EncodeField(MsgTypes[type][i], msg)])

---------------------------------------------------------------------------
(* Reading: what is at p, and where it ends, in the bytes up to `limit`.   *)

Nothing(p) == [ok |-> FALSE, next |-> p, val |-> 0]
Got(next, val) == [ok |-> TRUE, next |-> next, val |-> val]

(* The bytes of a varint, without an end if they are cut off.              *)
RawVarint(p, limit) ==
    LET ends == {q \in p .. limit : wire[q] < Cont}
    IN  IF ends = {} THEN <<>> ELSE SubSeq(wire, p, CHOOSE q \in ends : \A r \in ends : q <= r)

ValueOf(groups) == FoldRight(LAMBDA byte, v : v * Cont + (byte % Cont), groups, 0)

(* pb_decode_varint *)
TwoWords(raw, p) ==
    IF raw = <<>> \/ \E i \in DOMAIN raw : Group * (i - 1) >= 2 * Width - 1 /\ raw[i] > 1
    THEN Nothing(p)
    ELSE Got(p + Len(raw), ValueOf(raw))
Varint(p, limit) == TwoWords(RawVarint(p, limit), p)

(* pb_decode_varint32: beyond its word a varint may go on with zeros, or   *)
(* with the sign of a number that was extended to two words.               *)
OneWord(raw, p) ==
    LET low == [i \in DOMAIN raw |-> IF i <= FullGroups + 1 THEN raw[i] ELSE 0]
        value == ValueOf(low) % 2 ^ Width
        negative == value >= 2 ^ (Width - 1)
        sign(i) == IF Group * (i - 1) < 2 * Width - 1 THEN 2 * Cont - 1 ELSE 1
        Beyond(i) == /\ Group * (i - 1) < 2 * Width
                     /\ raw[i] % Cont = 0 \/ (negative /\ raw[i] = sign(i))
        LowBits(byte) == \/ byte \div 2 ^ Rest = 0
                         \/ byte \div 2 ^ (Rest - 1) = 2 ^ (Group - Rest + 1) - 1
    IN  IF /\ raw # <<>>
           /\ \A i \in DOMAIN raw : i > FullGroups + 1 => Beyond(i)
           /\ Len(raw) > FullGroups => LowBits(raw[FullGroups + 1] % Cont)
        THEN Got(p + Len(raw), value)
        ELSE Nothing(p)
Varint32(p, limit) == OneWord(RawVarint(p, limit), p)

Signed(v, bits) == IF v >= 2 ^ (bits - 1) THEN v - 2 ^ bits ELSE v
InRange(v, bits) == v \in - 2 ^ (bits - 1) .. 2 ^ (bits - 1) - 1

(* pb_dec_varint, of a varint v that was read; what is out of its range is *)
(* refused.                                                                *)
Number(f, v) ==
    LET bits == IF f.bits = 2 * Width THEN 2 * Width ELSE Width
        signed == Signed(v.val % 2 ^ bits, bits)
        zigzag == IF v.val % 2 = 1 THEN - (v.val \div 2) - 1 ELSE v.val \div 2
        val == CASE f.ltype = "uvarint" -> v.val
                 [] f.ltype = "varint" -> signed
                 [] f.ltype = "svarint" -> zigzag
    IN  [v EXCEPT !.ok = @ /\ (IF f.ltype = "uvarint" THEN val < 2 ^ f.bits
                               ELSE InRange(val, f.bits)),
                  !.val = val]

(* pb_decode_fixed32 and pb_decode_fixed64, of the bytes up to e. *)
Fixed(p, e, limit) ==
    IF e > limit THEN Nothing(p)
    ELSE Got(e + 1, FoldRight(LAMBDA byte, n : n * 2 * Cont + byte, SubSeq(wire, p, e), 0))

(* decode_basic_field, of what can be packed. *)
IsTrue(word) == [word EXCEPT !.val = @ # 0]
Scalar(f, p, limit) ==
    CASE f.ltype = "bool" -> IsTrue(Varint32(p, limit))
      [] f.ltype = "fixed" -> Fixed(p, p + FixedLen(f.bits) - 1, limit)
      [] OTHER -> Number(f, Varint(p, limit))

(* pb_make_string_substream: the bytes that a length is given for. *)
Sized(size, limit) ==
    IF size.ok /\ size.next + size.val - 1 <= limit
    THEN Got(size.next, size.next + size.val - 1) ELSE Nothing(size.next)
Substream(p, limit) == Sized(Varint32(p, limit), limit)

(* pb_dec_bytes *)
Bytes(f, s) ==
    [s EXCEPT !.ok = @ /\ s.val - s.next + 1 <= f.max, !.next = s.val + 1,
              !.val = SubSeq(wire, s.next, s.val)]

(* The elements of a packed array with room for `room` of them. *)
RECURSIVE Packed(_, _, _, _)
PackedFrom(f, room, v, limit) ==
    LET Before(rest) == [rest EXCEPT !.val = <<v.val>> \o @]
    IN  IF room = 0 \/ ~ v.ok THEN [v EXCEPT !.ok = FALSE, !.val = <<>>]
        ELSE Before(Packed(f, room - 1, v.next, limit))
Packed(f, room, p, limit) ==
    IF p > limit THEN Got(p, <<>>) ELSE PackedFrom(f, room, Scalar(f, p, limit), limit)

(* pb_skip_field *)
Skipped(wire_type, p, limit) ==
    LET Varints(raw) == IF raw = <<>> THEN Nothing(p) ELSE Got(p + Len(raw), 0)
        Behind(s) == [s EXCEPT !.next = s.val + 1]
        After(n) == IF p + n - 1 > limit THEN Nothing(p) ELSE Got(p + n, 0)
    IN  CASE wire_type = 0 -> Varints(RawVarint(p, limit))
          [] wire_type = 1 -> After(FixedLen(2 * Width))
          [] wire_type = 2 -> Behind(Substream(p, limit))
          [] wire_type = 5 -> After(FixedLen(Width))
          [] OTHER -> Nothing(p)

---------------------------------------------------------------------------
(* The iterator over the fields of a message.                              *)

FirstField == [index |-> 0, required |-> 0, sub |-> 0]

(* Fault: the count of required fields is not set back with the index.     *)
AdvanceKeepsRequired(type, it) ==
    LET f == MsgTypes[type][it.index + 1]
    IN  IF it.index + 1 >= Len(MsgTypes[type]) THEN [FirstField EXCEPT !.required = it.required]
        ELSE [index |-> it.index + 1,
              required |-> it.required + IF f.htype = "required" THEN 1 ELSE 0,
              sub |-> it.sub + IF f.ltype = "submsg" THEN 1 ELSE 0]

(* advance_iterator *)
Advance(type, it) ==
    LET f == MsgTypes[type][it.index + 1]
    IN  IF it.index + 1 >= Len(MsgTypes[type]) THEN FirstField
        ELSE [index |-> it.index + 1,
              required |-> it.required + IF f.htype = "required" THEN 1 ELSE 0,
              sub |-> it.sub + IF f.ltype = "submsg" THEN 1 ELSE 0]

(* pb_field_iter_find: the search goes on from where the iterator is, or   *)
(* from the first field if the tag is a lower one, and once around.        *)
Find(type, it, tag) ==
    LET fields == MsgTypes[type]
        TagAt(i) == fields[i.index + 1].tag
        from == IF tag < TagAt(it) THEN [it EXCEPT !.index = Len(fields)] ELSE it
        after[n \in 0 .. Len(fields)] ==
            IF n = 0 THEN from ELSE Advance(type, after[n - 1])
        ends == {n \in 1 .. Len(fields) :
                    TagAt(after[n]) = tag \/ after[n].index = it.index}
    IN  IF TagAt(it) = tag \/ tag > fields[Len(fields)].tag THEN it
        ELSE after[CHOOSE n \in ends : \A k \in ends : n <= k]
---------------------------------------------------------------------------
(* What a message means, whatever its bytes: pieces are added up, one      *)
(* after the other.  A piece has a tag, a form and a value:                *)
(*   "one"     a value, of a submessage the pieces of it;                  *)
(*   "packed"  elements of an array;                                       *)
(*   "padded"  a number in more bytes than it needs;                       *)
(*   "short"   a negative number in one word, as some programs write it;   *)
(*   "number", "string" or "group"  what a field of this tag, known or     *)
(*             not, is not.                                                *)

Padded(bytes) == Front(bytes) \o <<Last(bytes) + Cont, Cont, 0>>

RECURSIVE PieceBytes(_, _)
PieceBytes(type, e) ==
    LET f == FieldOf(type, e.tag)
        Inner(i) == PieceBytes(f.sub, e.val[i])
    IN  CASE e.form = "number" -> EncodeTag(0, e.tag) \o EncodeVarint(e.val)
          [] e.form = "string" -> EncodeTag(2, e.tag) \o EncodeString(e.val)
          [] e.form = "group" -> EncodeTag(3, e.tag)
          [] e.form = "packed" -> EncodePacked(f, e.val)
          [] e.form = "padded" -> EncodeTag(0, e.tag) \o Padded(EncodeValue(f, e.val))
          [] e.form = "short" -> EncodeTag(0, e.tag) \o EncodeVarint(e.val % 2 ^ Width)
          [] e.form = "one" /\ f.ltype # "submsg" -> EncodeBasic(f, e.val)
          [] e.form = "one" /\ f.ltype = "submsg" ->
                EncodeTag(2, e.tag) \o
                EncodeString(FlattenSeq([i \in DOMAIN e.val |-> Inner(i)]))

Fits(f, v) == CASE f.ltype = "uvarint" -> v < 2 ^ f.bits
                [] f.ltype \in {"varint", "svarint"} -> InRange(v, f.bits)
                [] f.ltype = "bytes" -> Len(v) <= f.max
                [] OTHER -> TRUE

Blank(msg) == [msg |-> msg, refused |-> FALSE, given |-> {}]

Required(type) == {f.tag : f \in {g \in Fields(type) : g.htype = "required"}}

(* A message has all that is required of it, arrays of fixed count whole.  *)
Accepted(type, m) ==
    /\ ~ m.refused /\ Required(type) \subseteq m.given
    /\ \A f \in Fields(type) : f.htype = "fixed_count" => Len(m.msg.of[f.tag]) \in {0, f.max}

RECURSIVE Meant(_, _, _)
Meant(type, m, e) ==
    LET f == FieldOf(type, e.tag)
        inner == FoldLeft(LAMBDA n, x : Meant(f.sub, n, x), Blank(Start(m.msg, f)), e.val)
        old == IF f.htype = "fixed_count" /\ f.tag \notin m.given THEN <<>> ELSE m.msg.of[f.tag]
        value == IF f.ltype = "submsg" THEN inner.msg ELSE e.val
        vs == IF e.form = "packed" THEN e.val ELSE <<value>>
        Sound == CASE e.form \in {"number", "string", "group"} -> FALSE
                   [] e.form = "packed" -> IsArray(f) /\ \A i \in DOMAIN vs : Fits(f, vs[i])
                   [] f.ltype = "submsg" -> Accepted(f.sub, inner)
                   [] OTHER -> Fits(f, e.val)
    IN  IF m.refused THEN m
        ELSE IF ~ HasTag(type, e.tag) THEN [m EXCEPT !.refused = e.form = "group"]
        ELSE IF ~ Sound \/ (IsArray(f) /\ Len(old) + Len(vs) > f.max)
             THEN [m EXCEPT !.refused = TRUE]
        ELSE [m EXCEPT !.msg = With(m.msg, f, IF IsArray(f) THEN old \o vs ELSE value),
                       !.given = @ \cup {f.tag}]

---------------------------------------------------------------------------
(* The bytes are written.                                                  *)

NoArray == [index |-> -1, n |-> 0]

Level(type, msg, limit) == [type |-> type, msg |-> msg, limit |-> limit, it |-> FirstField,
                            seen |-> {}, fixed |-> NoArray]

Init == /\ place = "write" /\ wire = <<>> /\ mode = "plain" /\ pieces = 0 /\ last = 0
        /\ meant = Blank(Defaults(Main)) /\ pos = 1 /\ levels = <<>>

(* pb_encode, from an empty stream. *)
EncodeMessage(msg) ==
    /\ place = "write" /\ wire = <<>>
    /\ wire' = Encode(Main, msg)
    /\ meant' = [Blank(msg) EXCEPT !.given = {f.tag : f \in Fields(Main)}]
    /\ UNCHANGED <<place, mode, pieces, last, pos, levels>>

WritePiece(e) ==
    /\ place = "write" /\ pieces < MaxPieces
    /\ wire' = wire \o PieceBytes(Main, e)
    /\ pieces' = pieces + 1 /\ last' = Len(PieceBytes(Main, e))
    /\ meant' = Meant(Main, meant, e)
    /\ UNCHANGED <<place, mode, pos, levels>>

(* All but `cut` bytes of it come through; behind a message that says      *)
(* itself where it ends is the beginning of another.                       *)
Send(how, cut) ==
    /\ place = "write" /\ place' = "sent" /\ mode' = how
    /\ cut > 0 => how = "plain" /\ pieces <= MaxPiecesCut
    /\ LET behind == <<2 * Cont - 1>>
       IN  wire' = CASE how = "plain" -> SubSeq(wire, 1, Len(wire) - cut)
                     [] how = "delimited" -> EncodeString(wire) \o behind
                     [] how = "nullterminated" -> wire \o <<0>> \o behind
    /\ meant' = [meant EXCEPT !.refused = @ \/ cut > 0]
    /\ UNCHANGED <<pieces, last, pos, levels>>

---------------------------------------------------------------------------
(* pb_decode_ex and pb_decode_inner.                                       *)

DecodeBegins ==
    /\ place = "sent" /\ place' = "decode"
    /\ LET s == IF mode = "delimited" THEN Substream(1, Len(wire)) ELSE Got(1, Len(wire))
       IN  pos' = s.next /\ levels' = <<Level(Main, Defaults(Main), s.val)>>
    /\ UNCHANGED <<wire, mode, pieces, last, meant>>

Top == Last(levels)

(* An array of fixed count has no count in the message: the one that is    *)
(* read is counted here.                                                   *)
Whole(level) ==
    level.fixed # NoArray => level.fixed.n = MsgTypes[level.type][level.fixed.index + 1].max

Complete(level) == Whole(level) /\ level.seen = 0 .. RequiredCount(level.type) - 1

(* decode_static_field: the value of field f at p, of an array, which has  *)
(* n elements so far, those that come, of a submessage where it ends.      *)
Value(f, n, wire_type, p, limit) ==
    LET PackedIn(s) == IF s.ok THEN Packed(f, f.max - n, s.next, s.val) ELSE s
        Element(one) ==
            IF IsArray(f) /\ f.ltype # "submsg" THEN [one EXCEPT !.val = <<@>>] ELSE one
    IN  IF IsArray(f) /\ Packable(f) /\ wire_type = 2 THEN PackedIn(Substream(p, limit))
        ELSE IF wire_type # WireType(f) \/ (IsArray(f) /\ n >= f.max) THEN Nothing(p)
        ELSE Element(CASE f.ltype = "submsg" -> Substream(p, limit)
                       [] f.ltype = "bytes" -> Bytes(f, Substream(p, limit))
                       [] OTHER -> Scalar(f, p, limit))

(* The field that the iterator found for a key, unless it is another's.    *)
FieldItem(key, it, f) ==
    LET another == f.htype = "fixed_count" /\ Top.fixed.index # it.index
        fixed == IF another THEN [index |-> it.index, n |-> 0] ELSE Top.fixed
        n == CASE f.htype = "fixed_count" -> fixed.n
               [] f.htype = "repeated" -> Len(Top.msg.of[f.tag])
               [] OTHER -> 0
        As(got) == [end |-> FALSE, ok |-> got.ok, known |-> f.tag = key.val \div 8,
                    next |-> got.next, val |-> got.val,
                    field |-> f, it |-> it, fixed |-> fixed, n |-> n]
    IN  As(IF f.tag # key.val \div 8 THEN Skipped(key.val % 8, key.next, Top.limit)
           ELSE IF another /\ ~ Whole(Top) THEN Nothing(pos)
           ELSE Value(f, n, key.val % 8, key.next, Top.limit))

(* What is next in the innermost message: its end, or a field.             *)
ItemOf(key) ==
    LET zero == key.ok /\ key.val \div 8 = 0
        At(it) == FieldItem(key, it, MsgTypes[Top.type][it.index + 1])
    IN  IF pos > Top.limit THEN [end |-> TRUE, next |-> pos]
        ELSE IF zero /\ mode = "nullterminated" /\ Len(levels) = 1
             THEN [end |-> TRUE, next |-> key.next]
        ELSE IF zero \/ ~ key.ok THEN [end |-> FALSE, ok |-> FALSE]
        ELSE At(Find(Top.type, Top.it, key.val \div 8))
Item == ItemOf(Varint32(pos, Top.limit))

SkipField(item) ==
    /\ ~ item.end /\ item.ok /\ ~ item.known
    /\ pos' = item.next /\ levels' = [levels EXCEPT ![Len(levels)].it = item.it]
    /\ UNCHANGED <<place, wire, mode, pieces, last, meant>>

(* The level when the field is found. *)
Found(item) ==
    [Top EXCEPT !.it = item.it, !.fixed = item.fixed,
                !.seen = @ \cup IF item.field.htype = "required" THEN {item.it.required} ELSE {}]

ReadField(item) ==
    LET f == item.field
        old == Top.msg.of[f.tag]
        n == item.n + Len(item.val)
        val == IF ~ IsArray(f) THEN item.val
               ELSE SubSeq(old, 1, item.n) \o item.val \o SubSeq(old, n + 1, Len(old))
        read == [Found(item) EXCEPT !.msg = With(@, f, val),
                                    !.fixed.n = IF f.htype = "fixed_count" THEN n ELSE @]
    IN  /\ ~ item.end /\ item.ok /\ item.known /\ f.ltype # "submsg"
        /\ pos' = item.next /\ levels' = Append(Front(levels), read)
        /\ UNCHANGED <<place, wire, mode, pieces, last, meant>>

(* pb_dec_submessage *)
EnterSubmessage(item) ==
    LET f == item.field
        sub == Subs(Top.type)[item.it.sub + 1].sub
    IN  /\ ~ item.end /\ item.ok /\ item.known /\ f.ltype = "submsg"
        /\ pos' = item.next
        /\ levels' = Front(levels) \o <<Found(item), Level(sub, Start(Top.msg, f), item.val)>>
        /\ UNCHANGED <<place, wire, mode, pieces, last, meant>>

LeaveSubmessage(item) ==
    LET outer == levels[Len(levels) - 1]
        f == MsgTypes[outer.type][outer.it.index + 1]
        val == IF IsArray(f) THEN Append(outer.msg.of[f.tag], Top.msg) ELSE Top.msg
    IN  /\ Len(levels) > 1 /\ item.end /\ Complete(Top)
        /\ levels' = Append(SubSeq(levels, 1, Len(levels) - 2),
                            [outer EXCEPT !.msg = With(@, f, val)])
        /\ UNCHANGED <<place, wire, mode, pieces, last, meant, pos>>

DecodeEnds(item) ==
    /\ Len(levels) = 1 /\ item.end /\ Complete(Top)
    /\ place' = "done" /\ pos' = item.next
    /\ UNCHANGED <<wire, mode, pieces, last, meant, levels>>

DecodeFails(item) ==
    /\ IF item.end THEN ~ Complete(Top) ELSE ~ item.ok
    /\ place' = "failed"
    /\ UNCHANGED <<wire, mode, pieces, last, meant, pos, levels>>

DecodeNext ==
    /\ place = "decode"
    /\ \E item \in {Item} :
           \/ SkipField(item) \/ ReadField(item) \/ EnterSubmessage(item)
           \/ LeaveSubmessage(item) \/ DecodeEnds(item) \/ DecodeFails(item)

Next ==
    \/ \E msg \in Messages : EncodeMessage(msg)
    \/ \E i \in DOMAIN Pieces : WritePiece(Pieces[i])
    \/ \E how \in {"plain", "delimited", "nullterminated"} :
           \E cut \in 0 .. last - 1 \cup {0} : Send(how, cut)
    \/ DecodeBegins
    \/ DecodeNext

Spec == Init /\ [][Next]_vars

---------------------------------------------------------------------------
(* A message is decoded exactly if its bytes are whole and have all that   *)
(* is required of it, in any order and any form; the result is what they   *)
(* mean; and the bytes behind it are left where they are                   *)
(* (pb_decode.c:981-1161).                                                 *)
DecodesAsMeant ==
    /\ place = "failed" => ~ Accepted(Main, meant)
    /\ place = "done" => /\ Accepted(Main, meant)
                         /\ Head(levels).msg = meant.msg
                         /\ pos = Len(wire) + IF mode = "plain" THEN 1 ELSE 0
=============================================================================
