--------------------------- MODULE BinaryEncoders ---------------------------
(***************************************************************************)
(* Format::encode: a value walks itself and calls the encoder, and finish  *)
(* hands the buffer over.  MessagePack, Postcard, bencode, BSON and the    *)
(* collector of the text formats ("tree") are called through               *)
(* ser::CheckedEncoder, which asks EventState before it forwards a call;   *)
(* CBOR, UBJSON and Smile are called as they are.  The first error ends    *)
(* the encoding and the buffer with it.  A flattened field is encoded the  *)
(* same way, into the adapter of private.rs ("flatten"; "nested" inside    *)
(* another flattened field).                                               *)
(***************************************************************************)
EXTENDS EventState

CONSTANTS
    Formats,    (* the formats considered                                  *)
    AnyOrder,   (* those whose callers make their calls in any order; the  *)
                (* others are called in order where nothing checks it      *)
    Offered,    (* per format the scalars and keys a caller may write      *)
    MaxCalls,   (* bound: calls before finish                              *)
    FlattenCalls, (* the same for a flattened value                        *)
    FixMax, U8Max, U16Max, U32Max, Payload, Width, DocumentMax

AllFormats == {"msgpack", "cbor", "postcard", "bencode", "bson", "ubjson",
               "smile", "tree", "flatten", "nested"}

ASSUME BinaryEncodersAssumption ==
    /\ Formats \subseteq AllFormats
    /\ AnyOrder \subseteq Formats
    /\ MaxCalls \in Nat
    /\ FlattenCalls \in Nat
    /\ Width \in Nat

VARIABLES
    format,
    st,         (* the EventState; behind an unchecked encoder, where the  *)
                (* calls are in the document                               *)
    enc,        (* the encoder                                             *)
    said,       (* the calls that returned Ok                              *)
    stage       (* open; done: finish returned Ok; or who refused          *)

vars == <<format, st, enc, said, stage>>

Headers == INSTANCE HeaderEncoders
Bencode == INSTANCE BencodeEncoder
Bson == INSTANCE BsonEncoder
Flatten == INSTANCE FlattenEncoder

Checked == format \in {"msgpack", "postcard", "bencode", "bson", "tree"}

\* Those that keep no memory of the open containers.
Frameless == {"ubjson", "smile"}

Flattening == format \in {"flatten", "nested"}

Begins == {"begin_array", "begin_object"}

Ends == {"end_array", "end_object"}

\* The marker in front of the payload of an Option.
Markers == {"some"}

Scalars == {"text", "null", "signed", "wide", "widest", "nan"}

Keys == {"a", "b", "nul"}

KindOf(call) == IF call \in {"begin_array", "end_array"} THEN "array" ELSE "object"

\* A call and the key it carries, if it is one.
Calls == [call : Begins \cup Ends \cup {"separator"} \cup ((Scalars \cup Markers) \cap Offered[format]), key : {""}]
            \cup [call : {"object_key"}, key : Keys \cap Offered[format]]

-----------------------------------------------------------------------------
\* What CheckedEncoder asks before it forwards; format encoders emit
\* separators, so an array element waits for one.  Of a Some it asks nothing.
Allowed(event) ==
    CASE event.call = "separator" -> SeparatorOk(st)
      [] event.call = "object_key" -> KeyOk(st)
      [] event.call \in Ends -> EndOk(KindOf(event.call), st)
      [] event.call \in Markers -> Checked \/ ValueOk(TRUE, st)
      [] OTHER -> ValueOk(TRUE, st)

\* The EventState behind the call.
Tracked(event) ==
    CASE event.call = "separator" -> Separator(st)
      [] event.call = "object_key" -> Key(st)
      [] event.call \in Ends -> End(st)
      [] event.call \in Begins -> Begin(KindOf(event.call), st)
      [] event.call = "some" -> st
      [] OTHER -> Value(st)

\* The call on the format's own encoder.
EmitMsgPack(event) ==
    CASE event.call = "separator" -> Headers!MsgPackSeparator(enc)
      [] event.call = "object_key" -> Headers!MsgPackKey(enc, event.key)
      [] event.call \in Ends -> Headers!MsgPackEnd(enc)
      [] event.call \in Begins -> Headers!MsgPackBegin(enc, KindOf(event.call))
      [] OTHER -> Headers!MsgPackScalar(enc, event.call)

EmitCbor(event) ==
    CASE event.call = "separator" -> Headers!CborSeparator(enc)
      [] event.call = "object_key" -> Headers!CborKey(enc, event.key)
      [] event.call \in Ends -> Headers!CborEnd(enc)
      [] event.call \in Begins -> Headers!CborBegin(enc, KindOf(event.call))
      [] OTHER -> Headers!CborScalar(enc, event.call)

EmitPostcard(event) ==
    CASE event.call = "separator" -> Headers!PostcardSeparator(enc)
      [] event.call = "object_key" -> Headers!PostcardKey(enc, event.key)
      [] event.call \in Ends -> Headers!PostcardEnd(enc)
      [] event.call \in Begins -> Headers!PostcardBegin(enc, KindOf(event.call))
      [] OTHER -> Headers!PostcardScalar(enc, event.call)

EmitBencode(event) ==
    CASE event.call = "separator" -> Bencode!Separator(enc)
      [] event.call = "object_key" -> Bencode!Key(enc, event.key)
      [] event.call = "end_array" -> Bencode!EndList(enc)
      [] event.call = "end_object" -> Bencode!EndDict(enc)
      [] event.call \in Begins -> Bencode!Begin(enc, KindOf(event.call))
      [] OTHER -> Bencode!Scalar(enc, event.call)

EmitBson(event) ==
    CASE event.call = "separator" -> Bson!Separator(enc)
      [] event.call = "object_key" -> Bson!Key(enc, event.key)
      [] event.call \in Ends -> Bson!End(enc, KindOf(event.call))
      [] event.call \in Begins -> Bson!Begin(enc, KindOf(event.call))
      [] OTHER -> Bson!Scalar(enc, event.call)

EmitUbjson(event) ==
    CASE event.call = "separator" -> Headers!UbjsonSeparator(enc)
      [] event.call = "object_key" -> Headers!UbjsonKey(enc, event.key)
      [] event.call \in Ends -> Headers!UbjsonEnd(enc, KindOf(event.call))
      [] event.call \in Begins -> Headers!UbjsonBegin(enc, KindOf(event.call))
      [] OTHER -> Headers!UbjsonScalar(enc, event.call)

EmitSmile(event) ==
    CASE event.call = "separator" -> Headers!SmileSeparator(enc)
      [] event.call = "object_key" -> Headers!SmileKey(enc, event.key)
      [] event.call \in Ends -> Headers!SmileEnd(enc, KindOf(event.call))
      [] event.call \in Begins -> Headers!SmileBegin(enc, KindOf(event.call))
      [] OTHER -> Headers!SmileScalar(enc, event.call)

EmitTree(event) ==
    CASE event.call = "separator" -> Headers!CollectSeparator(enc)
      [] event.call = "object_key" -> Headers!CollectKey(enc, event.key)
      [] event.call \in Ends -> Headers!CollectEnd(enc, KindOf(event.call))
      [] event.call \in Begins -> Headers!CollectBegin(enc, KindOf(event.call))
      [] OTHER -> Headers!CollectScalar(enc, event.call)

EmitFlatten(event) ==
    CASE event.call = "separator" -> Flatten!PutSeparator(enc)
      [] event.call = "object_key" -> Flatten!PutKey(enc, event.key)
      [] event.call \in Ends -> Flatten!EndContainer(enc, KindOf(event.call))
      [] event.call \in Begins -> Flatten!BeginContainer(enc, KindOf(event.call))
      [] event.call = "some" -> Flatten!Some(enc)
      [] OTHER -> Flatten!Scalar(enc, event.call)

EmitCodec(event) ==
    CASE format = "msgpack" -> EmitMsgPack(event)
      [] format = "cbor" -> EmitCbor(event)
      [] format = "postcard" -> EmitPostcard(event)
      [] format = "bencode" -> EmitBencode(event)
      [] format = "bson" -> EmitBson(event)
      [] format = "ubjson" -> EmitUbjson(event)
      [] format = "smile" -> EmitSmile(event)
      [] format = "tree" -> EmitTree(event)

\* The codecs write nothing for a Some.
Emit(event) ==
    CASE Flattening -> EmitFlatten(event)
      [] ~Flattening /\ event.call \in Markers -> Headers!Done(enc)
      [] OTHER -> EmitCodec(event)

CodecFinish ==
    CASE format = "bencode" -> Bencode!Finish(enc)
      [] format = "bson" -> Bson!Finish(enc)
      [] format = "tree" -> Headers!CollectFinish(enc)
      [] format = "smile" -> Headers!SmileFinish(enc)
      [] Flattening -> Flatten!Finish(enc)
      [] OTHER -> Headers!MsgPackFinish(enc)

-----------------------------------------------------------------------------
Init ==
    /\ format \in Formats
    /\ st = NewState
    /\ enc = CASE format = "bson" -> Bson!NewBson
               [] format = "smile" -> Headers!NewSmile
               [] Flattening -> Flatten!NewFlatten(format = "nested")
               [] OTHER -> Headers!NewEncoder
    /\ said = <<>>
    /\ stage = "open"

MayCall == stage = "open" /\ Len(said) < IF Flattening THEN FlattenCalls ELSE MaxCalls

\* CheckedEncoder refuses, and the encoder does not hear of the call.
Refuse(event) ==
    /\ MayCall /\ Checked /\ ~Allowed(event)
    /\ stage' = "protocol"
    /\ UNCHANGED <<format, st, enc, said>>

\* The call reaches the encoder.
Call(event) ==
    /\ MayCall
    /\ Checked \/ format \notin AnyOrder => Allowed(event)
    /\ LET r == Emit(event)
       IN  /\ enc' = r.e
           /\ stage' = IF r.ok THEN "open" ELSE "codec"
           /\ said' = IF r.ok THEN Append(said, event) ELSE said
           /\ st' = IF Allowed(event) THEN Tracked(event) ELSE st
    /\ UNCHANGED format

Complete == FinishOk(st)

Finish ==
    /\ stage = "open"
    /\ Checked \/ format \in AnyOrder \/ Complete
    /\ stage' = IF Checked /\ ~Complete THEN "protocol"
                ELSE IF CodecFinish.ok THEN "done" ELSE "codec"
    /\ UNCHANGED <<format, st, enc, said>>

Next == Finish \/ \E event \in Calls : Refuse(event) \/ Call(event)

Spec == Init /\ [][Next]_vars

-----------------------------------------------------------------------------
\* The empty container that begin_* wrote.
Placeholder(frame) ==
    [b |-> IF format = "postcard" THEN "last" ELSE frame.kind, w |-> 1, n |-> 0]

(* The header that an open container has to fill in is still where its     *)
(* frame says, whatever the containers in front of it and inside it moved  *)
(* when they closed (patch_prefix of formats/bin.rs).                      *)
HeadersInPlace ==
    format \in {"msgpack", "cbor", "postcard"} =>
        LET frames == enc.frames
        IN  \A i \in 1 .. Len(frames) :
                /\ frames[i].start \in 1 .. Len(enc.buf)
                /\ enc.buf[frames[i].start] = Placeholder(frames[i])
                /\ i > 1 => frames[i - 1].start < frames[i].start

(* A BSON document has its length to fill in, and a name without a value   *)
(* its type: the bytes are there, and blank, until that happens (end_doc,  *)
(* element_start of formats/bson.rs).                                      *)
BlanksInPlace ==
    format = "bson" =>
        /\ \A i \in 1 .. Len(enc.frames) : enc.buf[enc.frames[i].start] = Bson!NoLength
        /\ enc.pending # 0 => enc.buf[enc.pending] = Bson!Blank

(* The value of a bencode key stands behind the opening of its dictionary: *)
(* everything before it was cut off and kept (finish_dict_entry).          *)
EntriesCutOff ==
    format = "bencode" =>
        \A i \in 1 .. Len(enc.frames) :
            LET pending == enc.frames[i].pending
            IN  pending # Bencode!NoKey => enc.buf[pending.start - 1] = Bencode!Plain("object")

(* What an encoder wrote ahead of its time is where it will look for it.   *)
PlacesInBuffer == HeadersInPlace /\ BlanksInPlace /\ EntriesCutOff

(* The encoder and the checker in front of it, which count the open        *)
(* containers each for itself, have the same ones open, and the encoders   *)
(* that wait for the value of a key wait when the checker does (bencode    *)
(* goes on until the next key, to see where the value ends).               *)
CodecInStep ==
    stage = "open" /\ format \notin Frameless /\ ~Flattening =>
        LET owed == ~AtRoot(st) /\ Top(st).due
        IN  /\ Len(enc.frames) = Len(st.frames)
            /\ \A i \in 1 .. Len(st.frames) : enc.frames[i].kind = st.frames[i].kind
            /\ format = "bson" => (enc.pending # 0 <=> owed)
            /\ format = "tree" /\ InObject(st) => (Last(enc.frames).pending # "" <=> owed)
            /\ format = "bencode" /\ InObject(st) =>
                    (owed => Last(enc.frames).pending # Bencode!NoKey)

(* A flattened value never leaves the object it is written into, and when  *)
(* finish returns Ok that object is as it was found: the same containers   *)
(* are open and no key waits, so the struct goes on with its own members   *)
(* (FlattenEncoder::finish).                                               *)
OuterIsKept ==
    Flattening =>
        /\ enc.outer.frames # <<>> /\ Head(enc.outer.frames).kind = "object"
        /\ stage = "done" => /\ enc.outer = Flatten!Outer
                             /\ format = "nested" => enc.adapters[2] = Flatten!Opened

(* What a value does out of order does not get past the adapter and the    *)
(* checker behind it, who between them take the place of the checker that  *)
(* the value would have had for itself; no value follows the first.        *)
MembersInOrder ==
    [][\A event \in Calls :
            Flattening /\ Call(event) /\ event.call # "some" /\ ~Allowed(event) => stage' = "codec"]_vars
=============================================================================
