--------------------------------- MODULE Codec ---------------------------------
(***************************************************************************)
(* What the compiled protobuf code (generated/rpc.pb.cc) does with the     *)
(* tables of module Messages: the same loops and conditions for every      *)
(* message.  A message is a function from its fields to values; a field    *)
(* that is itself a message is a sequence of at most one (its pointer may  *)
(* be null); "unknown" is the UnknownFieldSet.  Bytes are a sequence of    *)
(* items: a tag, the value that follows it and the bytes that value takes. *)
(*                                                                         *)
(* Strings are names of strings.  An integer below zero stands for itself  *)
(* in an int32 field and for 2^64 plus itself in a uint64 field, which are *)
(* the same ten bytes.                                                     *)
(***************************************************************************)
EXTENDS Messages, Integers, FiniteSets, SequencesExt

CONSTANT Message    \* the message types: Protocol

Length(s) == CASE s = "" -> 0 [] s = "short" -> 5 [] s = "long" -> 200 [] s = "raw" -> 3
Utf8(s)   == s # "raw"

IsMessage(type) == type \in DOMAIN Message
Fields(m)       == {i.field : i \in ToSet(Message[m].impl.impl)}
Kind(m, f)      == (CHOOSE i \in ToSet(Message[m].impl.impl) : i.field = f).kind

\* The members a part of the code reaches: by name, and by where they are in memory.
At(impl, f) == CHOOSE k \in DOMAIN impl : impl[k].field = f

Stretch(impl, span) ==
    IF span = <<>> THEN {} ELSE {impl[k].field : k \in At(impl, span[1])..At(impl, span[2])}

Touched(m, part) == part.each \cup Stretch(Message[m].impl.impl, part.span)

Zero(kind) ==
    CASE kind.rep \/ IsMessage(kind.type) -> <<>>
      [] kind = Str  -> ""
      [] kind = Bool -> FALSE
      [] OTHER       -> 0

\* The sum of numbers and the sequences of a sequence one after another, by halves: the
\* evaluation stays shallow.
Total(s) ==
    LET from[i, j \in 1..Len(s)] == IF i = j THEN s[i] ELSE from[i, (i + j) \div 2] + from[(i + j) \div 2 + 1, j]
    IN  IF s = <<>> THEN 0 ELSE from[1, Len(s)]

Concat(s) ==
    LET from[i, j \in 1..Len(s)] == IF i = j THEN s[i] ELSE from[i, (i + j) \div 2] \o from[(i + j) \div 2 + 1, j]
    IN  IF s = <<>> THEN <<>> ELSE from[1, Len(s)]

Default(m) == [f \in Fields(m) \cup {"unknown"} |-> IF f = "unknown" THEN <<>> ELSE Zero(Kind(m, f))]

-----------------------------------------------------------------------------
(* WireFormatLite, of the protobuf library *)

VarintSize(n) ==
    CASE n < 0 -> 10 [] n \in 0..127 -> 1 [] n \in 128..16383 -> 2 [] OTHER -> 3

LengthDelimited(n) == VarintSize(n) + n
WireType(kind)     == IF kind.type = "str" \/ IsMessage(kind.type) THEN 2 ELSE 0
Item(num, wt, val, bytes) == [tag |-> 8 * num + wt, val |-> val, bytes |-> bytes]
BytesOf(items)     == Total([k \in 1..Len(items) |-> VarintSize(items[k].tag) + items[k].bytes])

-----------------------------------------------------------------------------
(* The code of a message *)

RECURSIVE Serialize(_, _), ByteSizeLong(_, _), ParseInto(_, _, _), MergeFrom(_, _, _)

\* The values of a field as they are written: none of the default, each of a repeated field.
Present(kind, x) ==
    IF kind.rep \/ IsMessage(kind.type) THEN x ELSE IF x = Zero(kind) THEN <<>> ELSE <<x>>

SizeOf(type, x) ==
    CASE IsMessage(type) -> LengthDelimited(ByteSizeLong(type, x))
      [] type = "str"    -> LengthDelimited(Length(x))
      [] type = "bool"   -> 1
      [] OTHER           -> VarintSize(x)

SizeOfAll(z, xs)  == Total([k \in DOMAIN xs |-> z.bytes + SizeOf(z.kind.type, xs[k])])
SizeOfField(z, v) == SizeOfAll(z, Present(z.kind, v[z.field]))

ByteSizeLong(m, v) ==
    BytesOf(v["unknown"]) + Total([k \in DOMAIN Message[m].wire.size |-> SizeOfField(Message[m].wire.size[k], v)])

\* A message in a message is preceded by the size that ByteSizeLong has cached.
WriteMessage(w, x, items) == Item(w.num, 2, items, VarintSize(ByteSizeLong(w.kind.type, x)) + BytesOf(items))

Write(w, x) ==
    IF IsMessage(w.kind.type) THEN WriteMessage(w, x, Serialize(w.kind.type, x))
    ELSE Item(w.num, WireType(w.kind), x, SizeOf(w.kind.type, x))

WriteAll(w, xs)  == [k \in DOMAIN xs |-> Write(w, xs[k])]
WriteField(w, v) == WriteAll(w, Present(w.kind, v[w.field]))

Serialize(m, v) ==
    Concat([k \in DOMAIN Message[m].wire.write |-> WriteField(Message[m].wire.write[k], v)]) \o v["unknown"]

Failure      == [ok |-> FALSE, msg |-> <<>>]
Success(v)   == [ok |-> TRUE, msg |-> v]
Set(v, p, x) == Success([v EXCEPT ![p.field] = x])

\* A message is parsed into a new one, or into the one that is there.
Into(v, p) == IF p.kind.rep \/ v[p.field] = <<>> THEN Default(p.kind.type) ELSE Last(v[p.field])

SetMessage(v, p, inner) ==
    IF ~inner.ok THEN Failure
    ELSE Set(v, p, IF p.kind.rep THEN Append(v[p.field], inner.msg) ELSE <<inner.msg>>)

ParseField(v, p, x) ==
    CASE IsMessage(p.kind.type)            -> SetMessage(v, p, ParseInto(p.kind.type, Into(v, p), x))
      [] p.kind.type = "str" /\ ~Utf8(x)   -> Failure
      [] p.kind = Rep("str")               -> Set(v, p, Append(v[p.field], x))
      [] OTHER                             -> Set(v, p, x)

\* One round of the loop: the field the tag stands for, if it also has the type expected.
ParseItem(parse, v, item) ==
    IF item.tag \div 8 \in DOMAIN parse /\ item.tag % 256 = parse[item.tag \div 8].tag
    THEN ParseField(v, parse[item.tag \div 8], item.val)
    ELSE Set(v, [field |-> "unknown"], Append(v["unknown"], item))

\* The loop over the items, until one fails: the first half of them, and then the second.
ParseRest(m, r, items) == IF r.ok THEN ParseInto(m, r.msg, items) ELSE r

ParseInto(m, v, items) ==
    CASE Len(items) = 0 -> Success(v)
      [] Len(items) = 1 -> ParseItem(Message[m].wire.parse, v, items[1])
      [] OTHER -> ParseRest(m, ParseInto(m, v, SubSeq(items, 1, Len(items) \div 2)),
                            SubSeq(items, Len(items) \div 2 + 1, Len(items)))

MergeField(kind, to, from) ==
    IF from = Zero(kind) THEN to
    ELSE IF kind.rep THEN to \o from
    ELSE IF IsMessage(kind.type) THEN <<MergeFrom(kind.type, IF to = <<>> THEN Default(kind.type) ELSE to[1], from[1])>>
    ELSE from

MergeFrom(m, to, from) ==
    [f \in DOMAIN to |->
        IF f = "unknown" THEN to[f] \o from[f]
        ELSE IF f \in Message[m].move.merge THEN MergeField(Kind(m, f), to[f], from[f])
        ELSE to[f]]

Clear(m, v) ==
    [f \in DOMAIN v |-> IF f = "unknown" THEN <<>>
                        ELSE IF f \in Touched(m, Message[m].impl.clear) THEN Zero(Kind(m, f)) ELSE v[f]]

CopyFrom(m, to, from) == MergeFrom(m, Clear(m, to), from)

\* The copy constructor.
Copy(m, from) ==
    [f \in DOMAIN from |-> IF f = "unknown" \/ f \in Touched(m, Message[m].impl.copy) THEN from[f] ELSE Zero(Kind(m, f))]

\* One side of InternalSwap, which is also what a move leaves in its target.
Swapped(m, v, other) ==
    [f \in DOMAIN v |-> IF f = "unknown" \/ f \in Touched(m, Message[m].move.swap) THEN other[f] ELSE v[f]]

ParseFromString(m, items) == ParseInto(m, Default(m), items)
=============================================================================
