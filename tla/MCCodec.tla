-------------------------------- MODULE MCCodec --------------------------------
(* Messages for Codec to handle, and what the code of a message owes its callers. *)
EXTENDS Codec

VARIABLE sample     \* the message type and the message being handled; <<>> before

\* Values that are not the default; the ones a varint or a length makes longer among them.
Values(type) ==
    CASE type = "str"    -> {"short", "long", "raw"}
      [] type = "bool"   -> {TRUE}
      [] type = "int32"  -> {7, 300, -1}
      [] type = "uint32" -> {7, 300}
      [] type = "uint64" -> {300, -1}
      [] type = "enum"   -> {3}

\* Every field set.
RECURSIVE Full(_)
FullValue(type) ==
    CASE IsMessage(type) -> Full(type)
      [] type = "str"    -> "long"
      [] type = "bool"   -> TRUE
      [] OTHER           -> Max(Values(type))

FullField(kind) == IF IsMessage(kind.type) \/ kind.rep THEN <<FullValue(kind.type)>> ELSE FullValue(kind.type)

Full(m) ==
    [f \in DOMAIN Default(m) |-> IF f = "unknown" THEN <<Item(40, 0, 7, 1)>> ELSE FullField(Kind(m, f))]

FieldValues(kind) ==
    IF IsMessage(kind.type)
    THEN {<<Default(kind.type)>>} \cup (IF kind.rep THEN {<<Full(kind.type), Default(kind.type)>>} ELSE {<<Full(kind.type)>>})
    ELSE IF kind.rep THEN {<<x, Zero(One(kind.type))>> : x \in Values(kind.type)}
    ELSE Values(kind.type)

Samples(m) ==
    {Default(m), Full(m)}
    \cup UNION {{[Default(m) EXCEPT ![f] = x] : x \in FieldValues(Kind(m, f))} : f \in Fields(m)}

CodecInit == sample = <<>>

CodecNext ==
    /\ sample = <<>>
    /\ \E m \in DOMAIN Message : \E v \in Samples(m) : sample' = <<m, v>>

\* Nothing in the message, or in a message in it, is a string that is not UTF-8.
RECURSIVE Clean(_, _)
Clean(m, v) ==
    \A f \in Fields(m) :
        \A x \in ToSet(Present(Kind(m, f), v[f])) :
            IF IsMessage(Kind(m, f).type) THEN Clean(Kind(m, f).type, x)
            ELSE Kind(m, f).type = "str" => Utf8(x)

Arrives(m, v, out) ==
    /\ BytesOf(out) = ByteSizeLong(m, v)
    /\ ParseFromString(m, out) = IF Clean(m, v) THEN Success(v) ELSE Failure

\* A message that is sent arrives: ByteSizeLong announces exactly the bytes that
\* _InternalSerialize writes, and _InternalParse makes the same message of them;
\* only one with a string that is not UTF-8 is written and then refused.
WhatIsSentArrives == sample # <<>> => Arrives(sample[1], sample[2], Serialize(sample[1], sample[2]))

Copied(m, v, old) ==
    /\ Copy(m, v) = v
    /\ Clear(m, v) = Default(m)
    /\ \A other \in old : CopyFrom(m, other, v) = v /\ Swapped(m, other, v) = v

\* The copy constructor, CopyFrom and InternalSwap carry every field over, and Clear
\* leaves none behind, whatever the message they write over held.
CopiesAreWhole == sample # <<>> => Copied(sample[1], sample[2], {Default(sample[1]), Full(sample[1])})

Merged(m, pairs) ==
    \A p \in pairs :
        ParseFromString(m, Concat([k \in {1, 2} |-> Serialize(m, p[k])])).msg = MergeFrom(m, p[1], p[2])

\* Parsing two messages one after the other is parsing the one that MergeFrom makes
\* of them: MergeImpl and _InternalParse agree on every field.
MergeIsConcatenation ==
    sample # <<>> /\ Clean(sample[1], sample[2]) =>
        Merged(sample[1], UNION {{<<sample[2], w>>, <<w, sample[2]>>} : w \in {Default(sample[1]), Full(sample[1])}})
=============================================================================
