--------------------------- MODULE HeaderEncoders ---------------------------
(***************************************************************************)
(* The codecs that write a container as a header, or only a marker, and    *)
(* its entries: MessagePack, CBOR, Postcard, UBJSON and Smile; and the     *)
(* collector of the text formats, which writes nothing yet.                *)
(***************************************************************************)
EXTENDS WireBytes, Varint

-----------------------------------------------------------------------------
(* formats/msgpack.rs, MsgPackEncoder: begin_array and begin_object write  *)
(* an empty container, which the end replaces by one with the entries that *)
(* were counted.                                                           *)

MsgPackHeader(kind, count) ==
    Sized(kind, count, IF count <= FixMax THEN 1 ELSE IF count <= U16Max THEN 3 ELSE 5)

MsgPackBegin(e, kind) == Done(OpenCounted(e, kind, Byte(kind, 1, 0)))

\* Mutant: the separators are not what is counted.
MsgPackSeparatorUncounted(e) == Done(e)

MsgPackSeparator(e) == Done(CountEntry(e))

\* key and map_key.
MsgPackKey(e, key) == Done(Push(CountEntry(e), <<Plain(key)>>))

\* Mutant: a count is cut to its 32 bits.
MsgPackEndUnlimited(e) ==
    IF e.frames = <<>> THEN Refused(e)
    ELSE LET frame == Last(e.frames)
         IN  Done(Patch(PopFrame(e), frame.start, MsgPackHeader(frame.kind, frame.count)))

\* patch_container, whatever the kind the caller closes.
MsgPackEnd(e) ==
    LET frame == Last(e.frames)
        popped == PopFrame(e)
    IN  CASE e.frames = <<>> -> Refused(e)
          [] e.frames # <<>> /\ frame.count > U32Max -> Refused(popped)
          [] OTHER -> Done(Patch(popped, frame.start, MsgPackHeader(frame.kind, frame.count)))

\* Integers beyond 64 bits have no representation; every float has one.
MsgPackScalar(e, call) ==
    IF call \in {"wide", "widest"} THEN Refused(e) ELSE Done(Push(e, <<Plain(call)>>))

MsgPackFinish(e) == Done(e)

-----------------------------------------------------------------------------
(* formats/cbor.rs, CborEncoder.  As MessagePack with more widths; no      *)
(* CheckedEncoder stands in front of it, and finish asks for nothing.      *)

CborHeader(kind, count) ==
    Sized(kind, count, CASE count <= FixMax -> 1
                         [] FixMax < count /\ count <= U8Max -> 2
                         [] U8Max < count /\ count <= U16Max -> 3
                         [] U16Max < count /\ count <= U32Max -> 5
                         [] OTHER -> 9)

CborBegin(e, kind) == Done(OpenCounted(e, kind, Byte(kind, 1, 0)))

CborSeparator(e) == IF e.frames = <<>> THEN Refused(e) ELSE Done(CountEntry(e))

CborKey(e, key) ==
    IF e.frames = <<>> THEN Refused(e) ELSE Done(Push(CountEntry(e), <<Plain(key)>>))

CborEnd(e) ==
    LET frame == Last(e.frames)
    IN  IF e.frames = <<>> THEN Refused(e)
        ELSE Done(Patch(PopFrame(e), frame.start, CborHeader(frame.kind, frame.count)))

\* Wide integers are bignums.
CborScalar(e, call) == IF call = "nan" THEN Refused(e) ELSE Done(Push(e, <<Plain(call)>>))

CborFinish(e) == Done(e)

-----------------------------------------------------------------------------
(* formats/postcard.rs, PostcardEncoder.  A container is its count, as a   *)
(* varint, and its entries; of what kind it is the wire does not say.      *)

VarintBytes(value) ==
    LET digits == WriteVarint(value)
    IN  [i \in 1 .. Len(digits) |->
            Byte(IF digits[i].more THEN "more" ELSE "last", 1, digits[i].n)]

\* The frame of the code has no kind; it is here for CodecInStep to speak of.
PostcardBegin(e, kind) == Done(OpenCounted(e, kind, Byte("last", 1, 0)))

PostcardSeparator(e) == Done(CountEntry(e))

\* key and map_key.
PostcardKey(e, key) == Done(Push(CountEntry(e), <<Plain(key)>>))

PostcardEnd(e) ==
    IF e.frames = <<>> THEN Refused(e)
    ELSE Done(Patch(PopFrame(e), Last(e.frames).start, VarintBytes(Last(e.frames).count)))

\* null is the byte of an empty container.  Signed integers and floats are
\* refused, as they could not be told from unsigned ones.
PostcardScalar(e, call) ==
    CASE call = "null" -> Done(Push(e, VarintBytes(0)))
      [] call = "text" -> Done(Push(e, <<Plain("text")>>))
      [] OTHER -> Refused(e)

PostcardFinish(e) == Done(e)

-----------------------------------------------------------------------------
(* formats/ubjson.rs, UbjsonEncoder: markers, and no memory of what is     *)
(* open.                                                                   *)

UbjsonBegin(e, kind) == Done(Push(e, <<Plain(kind)>>))

UbjsonSeparator(e) == Done(e)

UbjsonKey(e, key) == Done(Push(e, <<Plain(key)>>))

UbjsonEnd(e, kind) == Done(Push(e, <<Plain(IF kind = "array" THEN "end" ELSE "end_object")>>))

\* Wide integers are written in decimal.
UbjsonScalar(e, call) == IF call = "nan" THEN Refused(e) ELSE Done(Push(e, <<Plain(call)>>))

UbjsonFinish(e) == Done(e)

-----------------------------------------------------------------------------
(* formats/smile.rs, SmileEncoder: a header, then a token for a value and  *)
(* a token of another kind for a name, neither ever referred to again; no  *)
(* memory of what is open.                                                 *)

NewSmile == [NewEncoder EXCEPT !.buf = <<Plain("header")>>]

SmileBegin(e, kind) == Done(Push(e, <<Plain(kind)>>))

SmileSeparator(e) == Done(e)

SmileKey(e, key) == Done(Push(e, <<Plain(key)>>))

SmileEnd(e, kind) == Done(Push(e, <<Plain(IF kind = "array" THEN "end" ELSE "end_object")>>))

\* Integers of more than 64 bits, and of 64 without a sign, have no token.
SmileScalar(e, call) ==
    IF call \in {"nan", "wide", "widest"} THEN Refused(e) ELSE Done(Push(e, <<Plain(call)>>))

SmileFinish(e) == Done(e)

-----------------------------------------------------------------------------
(* formats/tree.rs, CollectEncoder: what TOML, YAML, EDN, INI and NDJSON   *)
(* collect before they write.  The buffer is the root value, and a value   *)
(* is its items between an opening and an end.                             *)

\* A builder; the code's Builder::Root is below the first.
CollectBuilder(kind) == [kind |-> kind, items |-> <<>>, keys |-> {}, pending |-> ""]

CollectBegin(e, kind) == Done([e EXCEPT !.frames = Append(@, CollectBuilder(kind))])

CollectSeparator(e) == Done(e)

CollectInnermost(e, kind) == e.frames # <<>> /\ Last(e.frames).kind = kind

\* Mutant: the key goes on waiting.
CollectAttachKeepsKey(e, value) ==
    LET n == Len(e.frames)
        top == e.frames[n]
    IN  CASE e.frames = <<>> -> IF e.buf = <<>> THEN Done([e EXCEPT !.buf = value]) ELSE Refused(e)
          [] CollectInnermost(e, "array") -> Done([e EXCEPT !.frames[n].items = @ \o value])
          [] OTHER -> Done([e EXCEPT !.frames[n].items = @ \o <<Plain(top.pending)>> \o value])

\* attach: to the innermost builder, under its key if it is an object.
CollectAttach(e, value) ==
    LET n == Len(e.frames)
        top == e.frames[n]
    IN  CASE e.frames = <<>> -> IF e.buf = <<>> THEN Done([e EXCEPT !.buf = value]) ELSE Refused(e)
          [] CollectInnermost(e, "array") -> Done([e EXCEPT !.frames[n].items = @ \o value])
          [] OTHER ->
                IF top.pending \in {""} \cup top.keys THEN Refused([e EXCEPT !.frames[n].pending = ""])
                ELSE Done([e EXCEPT !.frames[n] =
                            [top EXCEPT !.items = @ \o <<Plain(top.pending)>> \o value,
                                        !.keys = @ \cup {top.pending},
                                        !.pending = ""]])

CollectKey(e, key) ==
    LET n == Len(e.frames)
    IN  IF ~CollectInnermost(e, "object") THEN Refused(e)
        ELSE IF e.frames[n].pending # "" \/ key \in e.frames[n].keys THEN Refused(e)
        ELSE Done([e EXCEPT !.frames[n].pending = key])

\* The builder is gone also when it is not the one that should end.
CollectEnd(e, kind) ==
    IF e.frames = <<>> THEN Refused(e)
    ELSE IF ~CollectInnermost(e, kind) \/ Last(e.frames).pending # "" THEN Refused(PopFrame(e))
    ELSE CollectAttach(PopFrame(e), <<Plain(kind)>> \o Last(e.frames).items \o <<Plain("end")>>)

CollectScalar(e, call) == CollectAttach(e, <<Plain(call)>>)

\* take_root.
CollectFinish(e) == IF e.frames = <<>> /\ e.buf # <<>> THEN Done(e) ELSE Refused(e)
=============================================================================
