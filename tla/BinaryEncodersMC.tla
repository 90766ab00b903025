-------------------------- MODULE BinaryEncodersMC --------------------------
(***************************************************************************)
(* BinaryEncoders for TLC: the bytes that a document should be.            *)
(***************************************************************************)
EXTENDS BinaryEncoders

Flattened == {"flatten", "nested"}

\* The scalars that are refused end the encoding; one that is written is
\* enough, two where they are written differently.
Writes ==
    [f \in AllFormats |->
        CASE f = "msgpack" -> {"text", "wide", "a"}
          [] f = "cbor" -> {"text", "nan", "a"}
          [] f = "postcard" -> {"null", "signed", "a"}
          [] f = "bencode" -> {"text", "null", "widest", "a", "b"}
          [] f = "bson" -> {"text", "null", "wide", "a", "nul"}
          [] f = "ubjson" -> {"text", "nan", "a"}
          [] f = "smile" -> {"text", "wide", "some", "a"}
          [] f = "tree" -> {"text", "a", "b"}
          [] f \in Flattened -> {"text", "some", "a"}]

-----------------------------------------------------------------------------
(* The reference: a container is its opening, its entries and its closing, *)
(* and its entries are known when it is written.                           *)

B(b, w, n) == [b |-> b, w |-> w, n |-> n]

One(b) == <<B(b, 1, 0)>>

\* The widths a counted format has, with the largest count each can hold.
Widths ==
    [f \in {"msgpack", "cbor"} |->
        IF f = "msgpack" THEN {<<1, FixMax>>, <<3, U16Max>>, <<5, U32Max>>}
        ELSE {<<1, FixMax>>, <<2, U8Max>>, <<3, U16Max>>, <<5, U32Max>>, <<9, MaxCalls>>}]

\* The shortest header that holds the count.
Shortest(f, count) ==
    CHOOSE w \in {x[1] : x \in {y \in Widths[f] : count <= y[2]}} :
        \A x \in Widths[f] : count <= x[2] => w <= x[1]

\* Digits of a varint, all but the last marked.
RECURSIVE Digits(_)
Digits(n) ==
    IF n < 2 ^ Payload THEN <<B("last", 1, n)>>
    ELSE <<B("more", 1, n % 2 ^ Payload)>> \o Digits(n \div 2 ^ Payload)

CountHeader(f, kind, count) ==
    IF f = "postcard" THEN Digits(count)
    ELSE LET w == Shortest(f, count)
         IN  IF w = 1 THEN <<B(kind, 1, count)>>
             ELSE <<B(kind, w, 0)>> \o [i \in 1 .. w - 1 |-> B("count", i, count)]

\* Entries [call, key, bytes]; an array's have no key.
Keyed(entry) == IF entry.key = "" THEN entry.bytes ELSE One(entry.key) \o entry.bytes

Counted(entry) == (IF entry.key = "" THEN One("separator") ELSE One(entry.key)) \o entry.bytes

Type(call) ==
    CASE call = "begin_array" -> "array" [] call = "begin_object" -> "object" [] OTHER -> call

Element(entry, i) ==
    One(Type(entry.call)) \o (IF entry.key = "" THEN <<B("index", 1, i - 1)>> ELSE One(entry.key))
        \o entry.bytes

InOrder(f, entries) ==
    IF f # "bencode" THEN entries
    ELSE SelectSeq(entries, LAMBDA x : x.key # "b") \o SelectSeq(entries, LAMBDA x : x.key = "b")

ContainerBytes(f, kind, entries) ==
    LET list == InOrder(f, entries)
        flat == FlattenSeq([i \in 1 .. Len(list) |->
                    CASE f = "bson" -> Element(list[i], i)
                      [] f \in Flattened -> Counted(list[i])
                      [] OTHER -> Keyed(list[i])])
    IN  CASE f \in {"msgpack", "cbor", "postcard"} -> CountHeader(f, kind, Len(list)) \o flat
          [] f \in {"bencode", "tree"} -> One(kind) \o flat \o One("end")
          [] f = "bson" -> <<B("length", 1, Len(flat) + 2)>> \o flat \o One("end")
          [] f \in Frameless \cup Flattened ->
              One(kind) \o flat \o One(IF kind = "array" THEN "end" ELSE "end_object")

ScalarBytes(f, call) ==
    CASE f = "postcard" /\ call = "null" -> Digits(0)
      [] f = "bson" /\ call = "null" -> <<>>
      [] OTHER -> One(call)

RECURSIVE ValueAt(_, _, _), EntriesAt(_, _, _)

\* The bytes of the value that the calls from p on are, and where they end.
ValueAt(f, s, p) ==
    IF s[p].call \notin Begins THEN [to |-> p + 1, bytes |-> ScalarBytes(f, s[p].call)]
    ELSE LET r == EntriesAt(f, s, p + 1)
         IN  [to |-> r.to, bytes |-> ContainerBytes(f, KindOf(s[p].call), r.list)]

EntriesAt(f, s, p) ==
    IF s[p].call \in Ends THEN [to |-> p + 1, list |-> <<>>]
    ELSE LET v == ValueAt(f, s, p + 1)
             r == EntriesAt(f, s, v.to)
             entry == [call |-> s[p + 1].call, key |-> s[p].key, bytes |-> v.bytes]
         IN  [to |-> r.to, list |-> <<entry>> \o r.list]

-----------------------------------------------------------------------------
(* Properties.                                                             *)

(* What encode returns is the document that was said: every header has the *)
(* count or the length of what follows it and is the shortest there is,    *)
(* every name has the type of its value, dictionaries are sorted.          *)
EncodedIsDocument ==
    stage = "done" =>
        LET values == SelectSeq(said, LAMBDA x : x.call # "some")
            value == ValueAt(format, values, 1)
        IN  /\ value.to = Len(values) + 1
            /\ CASE Flattening -> value.bytes = One("object") \o enc.buf \o One("end_object")
                 [] format = "smile" -> enc.buf = One("header") \o value.bytes
                 [] OTHER -> enc.buf = value.bytes

\* Containers that the calls from the i-th to the j-th leave open.
LeftOpen(s, i, j) ==
    Cardinality({k \in i .. j : s[k].call \in Begins})
        - Cardinality({k \in i .. j : s[k].call \in Ends})

\* The call that opened the innermost container.
Opening(s) ==
    CHOOSE i \in 1 .. Len(s) :
        LeftOpen(s, i, Len(s)) = 1 /\ \A j \in i + 1 .. Len(s) : LeftOpen(s, j, Len(s)) <= 0

KeysOfInnermost(s) ==
    {s[j].key : j \in {k \in Opening(s) + 1 .. Len(s) :
        s[k].call = "object_key" /\ LeftOpen(s, Opening(s), k) = 1}}

\* The document that an end would complete, with its entries.
Closed(s, end) == EntriesAt(format, Append(s, end), Opening(s) + 1).list

(* What the formats have no bytes for.                                     *)
Inexpressible(s, event) ==
    \/ event.call \in (CASE format = "msgpack" -> {"wide", "widest"}
                         [] format \in {"cbor", "ubjson"} -> {"nan"}
                         [] format = "smile" -> {"wide", "widest", "nan"}
                         [] format \in {"tree"} \cup Flattened -> {}
                         [] format = "postcard" -> Scalars \ {"text", "null"}
                         [] format = "bencode" -> {"null", "nan", "widest"}
                         [] format = "bson" -> {"wide", "widest", "nan"})
    \/ format = "bson" /\ (event.key = "nul" \/ (s = <<>> /\ event.call \in Scalars))
    \/ Flattening /\ AtRoot(st) /\ event.call \notin {"begin_object", "some"}
    \/ format = "tree" /\ event.call = "object_key" /\ event.key \in KeysOfInnermost(s)
    \/ /\ event.call \in Ends
       /\ LET list == Closed(s, event)
          IN  \/ format = "msgpack" /\ Len(list) > U32Max
              \/ format = "bson" /\ Len(ContainerBytes(format, KindOf(event.call), list)) > DocumentMax
              \/ /\ format = "bencode" /\ event.call = "end_object"
                 /\ \E i, j \in 1 .. Len(list) : i < j /\ list[i].key = list[j].key

(* An encoder that is called in order refuses exactly what its format      *)
(* cannot express: its own checks never stop a document that it could      *)
(* write, and nothing it cannot write gets through.                        *)
RefusesTheInexpressible ==
    [][\A event \in Calls : Call(event) /\ Allowed(event) =>
            (stage' = "codec" <=> Inexpressible(said, event))]_vars
=============================================================================
