------------------------------ MODULE Decoder -------------------------------
(***************************************************************************)
(* Decoding a value of some type: the NsonDeserialize implementations      *)
(* (de.rs, and the code the derive macro emits, nextjson-derive/src/de.rs) *)
(* as clients of the pull interface FormatDecoder, over the readers of     *)
(* JSON and the binary ones.  The recursion of nextdecode_into is the      *)
(* stack tasks, the task being worked on first; an action is one loop head *)
(* or one call.                                                            *)
(*                                                                         *)
(* A call that fails returns through ? to the innermost untagged enum that *)
(* has a variant left to try, which restores its mark; without one the     *)
(* decoding ends.                                                          *)
(***************************************************************************)
EXTENDS Pull

CONSTANTS
    Chunk,      (* what one read of a stream delivers at most              *)
    SharedLimit, (* strings that Smile keeps to be referred to: 1024       *)
    Shape,      (* a type's name -> its definition                         *)
    Inputs      (* what is decoded: [source, text, root]                   *)

\* Those that read tokens made before: of buffered JSON, or of a Value that
\* the parser of a text format has built.
Replays == {"tree", "value"}

JsonSources == {"bytes", "stream"} \cup Replays

\* Those that keep a frame per container.
FramedSources == {"msgpack", "cbor", "bencode", "bson", "ubjson", "postcard"}

WireSources == FramedSources \cup {"smile"}

\* A fixed set of type definitions: of names the type inside, fields the
\* known fields of a struct, parts the types in a tuple, variants those of
\* an untagged enum.
ASSUME DecoderAssumption ==
    /\ Chunk \in Nat \ {0}
    /\ SharedLimit \in Nat \ {0}
    /\ \A i \in Inputs :
          /\ i.source \in JsonSources \cup WireSources
          /\ i.root \in DOMAIN Shape

VARIABLES
    source,     (* the reader                                              *)
    text,       (* the input document                                      *)
    root,       (* the type asked for                                      *)
    c,          (* the reader's cursor and the decoder's depth             *)
    tasks,      (* what is left to do, innermost first                     *)
    built,      (* the tokens of the value decoded so far                  *)
    verdict     (* running, ok, err                                        *)

vars == <<source, text, root, c, tasks, built, verdict>>

Bytes == INSTANCE BytesReader
Stream == INSTANCE StreamReader
Tree == INSTANCE TreeReader
MsgPack == INSTANCE MsgPackReader
Cbor == INSTANCE CborReader
Bencode == INSTANCE BencodeReader
Bson == INSTANCE BsonReader
Ubjson == INSTANCE UbjsonReader
Postcard == INSTANCE PostcardReader
Smile == INSTANCE SmileReader

\* A token tree holds no separators (read_token_tree).
Flat(s) == SelectSeq(s, LAMBDA x : x \in Tokens)

Input == IF source \in Replays THEN Flat(text) ELSE text

\* The containers around the token at i.
Around(s, i) ==
    Cardinality({j \in 1 .. i - 1 : s[j] \in Openers})
        - Cardinality({j \in 1 .. i - 1 : s[j] \in Closers})

\* Mutant: a node at the limit is refused.
TooDeepByOne(s) == \E i \in 1 .. Len(s) : s[i] \notin Closers /\ Around(s, i) >= MaxDepth

\* value_to_tokens gives up at a node beyond the limit.
TooDeep(s) == \E i \in 1 .. Len(s) : s[i] \notin Closers /\ Around(s, i) > MaxDepth

-----------------------------------------------------------------------------
(* The decoder: dispatch to the reader.                                    *)

NextToken(k) == CASE source = "bytes"    -> Bytes!Next(Input, k)
                  [] source = "stream"   -> Stream!Next(Input, k)
                  [] source \in Replays  -> Tree!Next(Input, k)
                  [] source = "msgpack"  -> MsgPack!Next(Input, k)
                  [] source = "cbor"     -> Cbor!Next(Input, k)
                  [] source = "bencode"  -> Bencode!Next(Input, k)
                  [] source = "bson"     -> Bson!Next(Input, k)
                  [] source = "ubjson"   -> Ubjson!Next(Input, k)
                  [] source = "postcard" -> Postcard!NotSelfDescribing(k)
                  [] source = "smile"    -> Smile!Next(Input, k)

PeekToken(k) == CASE source = "bytes"    -> Bytes!Peek(Input, k)
                  [] source = "stream"   -> Stream!Peek(Input, k)
                  [] source \in Replays  -> Tree!Peek(Input, k)
                  [] source = "msgpack"  -> MsgPack!Peek(Input, k)
                  [] source = "cbor"     -> Cbor!Peek(Input, k)
                  [] source = "bencode"  -> Bencode!Peek(Input, k)
                  [] source = "bson"     -> Bson!Peek(Input, k)
                  [] source = "ubjson"   -> Ubjson!Peek(Input, k)
                  [] source = "postcard" -> Postcard!NotSelfDescribing(k)
                  [] source = "smile"    -> Smile!Peek(Input, k)

Typed(k, kinds) == CASE source = "bytes"    -> Bytes!Typed(Input, k, kinds)
                     [] source = "stream"   -> Stream!Typed(Input, k, kinds)
                     [] source \in Replays  -> Tree!Typed(Input, k, kinds)
                     [] source = "msgpack"  -> MsgPack!Typed(Input, k, kinds)
                     [] source = "cbor"     -> Cbor!Typed(Input, k, kinds)
                     [] source = "bencode"  -> Bencode!Typed(Input, k, kinds)
                     [] source = "bson"     -> Bson!Typed(Input, k, kinds)
                     [] source = "ubjson"   -> Ubjson!Typed(Input, k, kinds)
                     [] source = "postcard" -> Postcard!Typed(Input, k, kinds)
                     [] source = "smile"    -> Smile!Typed(Input, k, kinds)

OptionTag == CASE source = "bytes"    -> Bytes!OptionTag(Input, c)
               [] source = "stream"   -> Stream!OptionTag(Input, c)
               [] source \in Replays  -> Tree!OptionTag(Input, c)
               [] source = "msgpack"  -> MsgPack!OptionTag(Input, c)
               [] source = "cbor"     -> Cbor!OptionTag(Input, c)
               [] source = "bencode"  -> Bencode!OptionTag(Input, c)
               [] source = "bson"     -> Bson!OptionTag(Input, c)
               [] source = "ubjson"   -> Ubjson!OptionTag(Input, c)
               [] source = "postcard" -> Postcard!NotSelfDescribing(c)
               [] source = "smile"    -> Smile!OptionTag(Input, c)

ObjectKey == CASE source = "bytes"    -> Bytes!ObjectKey(Input, c)
               [] source = "stream"   -> Stream!ObjectKey(Input, c)
               [] source \in Replays  -> Tree!ObjectKey(Input, c)
               [] source = "msgpack"  -> MsgPack!ObjectKey(Input, c)
               [] source = "cbor"     -> Cbor!ObjectKey(Input, c)
               [] source = "bencode"  -> Bencode!ObjectKey(Input, c)
               [] source = "bson"     -> Bson!ObjectKey(Input, c)
               [] source = "ubjson"   -> Ubjson!ObjectKey(Input, c)
               [] source = "postcard" -> Postcard!ObjectKey(Input, c)
               [] source = "smile"    -> Smile!ObjectKey(Input, c)

EntrySep(closer) == CASE source = "bytes"    -> Bytes!EntrySep(Input, c, closer)
                      [] source = "stream"   -> Stream!EntrySep(Input, c, closer)
                      [] source \in Replays  -> Tree!EntrySep(Input, c, closer)
                      [] source = "msgpack"  -> MsgPack!EntrySep(Input, c, closer)
                      [] source = "cbor"     -> Cbor!EntrySep(Input, c, closer)
                      [] source = "bencode"  -> Bencode!EntrySep(Input, c, closer)
                      [] source = "bson"     -> Bson!EntrySep(Input, c, closer)
                      [] source = "ubjson"   -> Ubjson!EntrySep(Input, c, closer)
                      [] source = "postcard" -> Postcard!EntrySep(Input, c, closer)
                      [] source = "smile"    -> Smile!EntrySep(Input, c, closer)

HasMore == CASE source = "bytes"    -> Bytes!HasMore(Input, c)
             [] source = "stream"   -> Stream!HasMore(Input, c)
             [] source \in Replays  -> Tree!HasMore(Input, c)
             [] source = "msgpack"  -> MsgPack!HasMore(Input, c)
             [] source = "cbor"     -> Cbor!HasMore(Input, c)
             [] source = "bencode"  -> Bencode!HasMore(Input, c)
             [] source = "bson"     -> Bson!HasMore(Input, c)
             [] source = "ubjson"   -> Ubjson!HasMore(Input, c)
             [] source = "postcard" -> Postcard!HasMore(Input, c)
             [] source = "smile"    -> Smile!HasMore(Input, c)

AtEnd == CASE source = "bytes"    -> Bytes!End(Input, c)
           [] source = "stream"   -> Stream!End(Input, c)
           [] source \in Replays  -> Tree!End(Input, c)
           [] source = "msgpack"  -> MsgPack!End(Input, c)
           [] source = "cbor"     -> Cbor!End(Input, c)
           [] source = "bencode"  -> Bencode!End(Input, c)
           [] source = "bson"     -> Bson!End(Input, c)
           [] source = "ubjson"   -> Ubjson!End(Input, c)
           [] source = "postcard" -> Postcard!End(Input, c)
           [] source = "smile"    -> Smile!End(Input, c)

Begin(k, opener) == CASE source = "msgpack" -> MsgPack!Begin(Input, k, opener)
                      [] source = "cbor"    -> Cbor!Begin(Input, k, opener)
                      [] source = "bencode" -> Bencode!Begin(Input, k, opener)
                      [] source = "bson"    -> Bson!Begin(Input, k, opener)
                      [] source = "ubjson"  -> Ubjson!Begin(Input, k, opener)
                      [] source = "postcard" -> Postcard!Begin(Input, k, opener)
                      [] source = "smile"   -> Smile!Begin(Input, k, opener)
                      [] OTHER              -> BeginWith(NextToken, k, opener)

EndContainer(opener) == CASE source = "msgpack" -> MsgPack!EndContainer(Input, c, opener)
                          [] source = "cbor"    -> Cbor!EndContainer(Input, c, opener)
                          [] source = "bencode" -> Bencode!EndContainer(Input, c, opener)
                          [] source = "bson"    -> Bson!EndContainer(Input, c, opener)
                          [] source = "ubjson"  -> Ubjson!EndContainer(Input, c, opener)
                          [] source = "postcard" -> Postcard!EndContainer(Input, c, opener)
                          [] source = "smile"   -> Smile!EndContainer(Input, c, opener)
                          [] OTHER -> Bytes!EndWith(NextToken, c, CloserOf[opener])

\* skip_value looks at the source byte when nothing is staged (bytes only)
\* or has read the marker (UBJSON, Smile).
SkipDispatch ==
    CASE source = "bytes" /\ c.look = NoToken ->
            LET d == Bytes!SkipBlanks(Input, c) IN {Ok(d, At(Input, d.pos))}
      [] source = "ubjson" -> Ubjson!ValueMarker(Input, c)
      [] source = "smile"  -> Smile!NextByte(Input, c)
      [] OTHER -> PeekToken(c)

SkipBegin(k, opener) ==
    CASE source = "ubjson" -> Ubjson!BeginMarked(Input, k, opener)
      [] source = "smile"  -> Smile!BeginMarked(k, opener)
      [] OTHER -> Begin(k, opener)

SkipScalar(k, got) ==
    CASE source = "ubjson" -> Ubjson!SkipPayload(Input, k, got)
      [] source = "smile"  -> Smile!SkipPayload(Input, k, got)
      [] OTHER -> NextToken(k)

SaveMark(k) == IF source = "smile" THEN Smile!MarkNames(k) ELSE Save(k)

RestoreMark(k, mark) == IF source = "smile" THEN Smile!RestoreNames(k, mark) ELSE Restore(k, mark)

-----------------------------------------------------------------------------
(* The call stack.                                                         *)

\* from: how much of built was there when the enum's mark was taken.
Task(do, type) ==
    [do |-> do, type |-> type, seen |-> {}, left |-> <<>>,
     mark |-> Save(Cursor(0)), from |-> 0]

Top == Head(tasks)

Kind(type) == Shape[type].kind

IsMap(type) == Kind(type) \in {"map", "struct"}

\* What a member or an element is decoded as: an unknown field is skipped.
ElementType(type) == IF Kind(type) = "array" THEN Shape[type].of ELSE type

MemberType(type, key) ==
    CASE Kind(type) = "map"    -> Shape[type].of
      [] Kind(type) = "struct" -> IF key \in DOMAIN Shape[type].fields
                                  THEN Shape[type].fields[key] ELSE "skip"
      [] OTHER                 -> type

\* An untagged enum whose variant returned Ok is done too.
Settled(ts) ==
    LET Open == {i \in 1 .. Len(ts) : ts[i].do # "try"}
    IN  IF Open = {} THEN <<>>
        ELSE SubSeq(ts, CHOOSE i \in Open : \A j \in Open : i <= j, Len(ts))

Retries == {i \in 1 .. Len(tasks) : tasks[i].do = "try" /\ tasks[i].left # <<>>}

\* Mutant: the variant that failed is tried again.
AttemptAgain(t) == <<Task("decode", Head(t.left)), t>>

\* The next variant runs on top of what is left of its enum.
Attempt(t) == <<Task("decode", Head(t.left)), [t EXCEPT !.left = Tail(@)]>>

\* Mutant: what the variant had decoded stays in the value.
FailKeepsValue(k) ==
    IF Retries = {}
    THEN /\ verdict' = "err"
         /\ c' = k
         /\ UNCHANGED <<tasks, built>>
    ELSE LET i == CHOOSE i \in Retries : \A j \in Retries : i <= j
         IN  /\ c' = RestoreMark(k, tasks[i].mark)
             /\ tasks' = Attempt(tasks[i]) \o SubSeq(tasks, i + 1, Len(tasks))
             /\ UNCHANGED <<built, verdict>>

Fail(k) ==
    IF Retries = {}
    THEN /\ verdict' = "err"
         /\ c' = k
         /\ UNCHANGED <<tasks, built>>
    ELSE LET i == CHOOSE i \in Retries : \A j \in Retries : i <= j
         IN  /\ c' = RestoreMark(k, tasks[i].mark)
             /\ tasks' = Attempt(tasks[i]) \o SubSeq(tasks, i + 1, Len(tasks))
             /\ built' = SubSeq(built, 1, tasks[i].from)
             /\ UNCHANGED verdict

\* The call returned o; on Ok the task at the top becomes todo, and the
\* value goes on with what was read, unless it is skipped.
Return(o, todo, read) ==
    IF o.ok
    THEN /\ c' = o.c
         /\ tasks' = Settled(todo \o Tail(tasks))
         /\ built' = IF Kind(Top.type) = "skip" THEN built ELSE built \o read
         /\ UNCHANGED verdict
    ELSE Fail(o.c)

Working(do) == verdict = "running" /\ tasks # <<>> /\ Top.do = do

-----------------------------------------------------------------------------
(* The nextdecode_into of each kind of type.                               *)

Elements == [Top EXCEPT !.do = "elements"]
Members == [Top EXCEPT !.do = "members"]

ScalarKinds == [unit |-> {"null"}, number |-> Numbers, string |-> Strings]

DecodeScalar ==
    /\ Working("decode") /\ Kind(Top.type) \in DOMAIN ScalarKinds
    /\ \E o \in Typed(c, ScalarKinds[Kind(Top.type)]) : Return(o, <<>>, <<o.got>>)

DecodeOption ==
    /\ Working("decode") /\ Kind(Top.type) = "option"
    /\ \E o \in OptionTag :
          IF o.ok /\ ~o.got THEN Return(o, <<Task("decode", Shape[Top.type].of)>>, <<>>)
          ELSE Return(o, <<>>, <<"null">>)

\* Into the container, on from its bracket.
Enter(begun, opener, todo) == \E o \in begun : Return(o, todo, <<opener>>)

DecodeArray ==
    /\ Working("decode") /\ Kind(Top.type) = "array"
    /\ Enter(Begin(c, "["), "[", <<Elements>>)

DecodeMap ==
    /\ Working("decode") /\ IsMap(Top.type)
    /\ Enter(Begin(c, "{"), "{", <<Members>>)

\* A tuple asks for its first element without asking whether there is one.
DecodeTuple ==
    /\ Working("decode") /\ Kind(Top.type) = "tuple"
    /\ Enter(Begin(c, "["), "[", <<Task("decode", Head(Shape[Top.type].parts)),
                      [Top EXCEPT !.do = "part", !.left = Tail(Shape[Top.type].parts)]>>)

KindOf(token) == IF token \in Numbers THEN Numbers ELSE Strings

\* Value looks at the token first and refuses what starts no value.
DecodeValue ==
    /\ Working("decode") /\ Kind(Top.type) = "value"
    /\ \E p \in PeekToken(c) :
          CASE ~p.ok            -> Fail(p.c)
            [] p.got = "{"      -> Enter(Begin(p.c, "{"), "{", <<Members>>)
            [] p.got = "["      -> Enter(Begin(p.c, "["), "[", <<Elements>>)
            [] p.got \in Closers -> Fail(p.c)
            [] p.got = "null"   -> \E o \in NextToken(p.c) : Return(o, <<>>, <<p.got>>)
            [] OTHER            -> \E o \in Typed(p.c, KindOf(p.got)) : Return(o, <<>>, <<o.got>>)

\* skip_value takes any other token for a value.
DecodeSkip ==
    /\ Working("decode") /\ Kind(Top.type) = "skip"
    /\ \E p \in SkipDispatch :
          CASE ~p.ok       -> Fail(p.c)
            [] p.got = "{" -> Enter(SkipBegin(p.c, "{"), "{", <<Members>>)
            [] p.got = "[" -> Enter(SkipBegin(p.c, "["), "[", <<Elements>>)
            [] OTHER       -> \E o \in SkipScalar(p.c, p.got) : Return(o, <<>>, <<>>)

\* save(), then restore() before the first variant as before every other.
DecodeUntagged ==
    /\ Working("decode") /\ Kind(Top.type) = "untagged"
    /\ c' = RestoreMark(c, SaveMark(c))
    /\ tasks' = Attempt([Task("try", Top.type) EXCEPT
                              !.left = Shape[Top.type].variants, !.mark = SaveMark(c),
                              !.from = Len(built)])
                    \o Tail(tasks)
    /\ UNCHANGED <<built, verdict>>

-----------------------------------------------------------------------------
(* The loops over elements and members.                                    *)

ArrayMore ==
    /\ Working("elements")
    /\ \E o \in HasMore :
          Return(o, IF o.ok /\ o.got
                    THEN <<Task("decode", ElementType(Top.type)), [Top EXCEPT !.do = "element"]>>
                    ELSE <<[Top EXCEPT !.do = "close_array"]>>, <<>>)

ArraySep ==
    /\ Working("element")
    /\ \E o \in EntrySep("]") :
          Return(o, IF o.ok /\ o.got THEN <<Elements>>
                    ELSE <<[Top EXCEPT !.do = "close_array"]>>, <<>>)

\* Too few elements are an error, and so are too many.
TupleSep ==
    /\ Working("part")
    /\ \E o \in EntrySep("]") :
          IF o.ok /\ o.got # (Top.left # <<>>) THEN Fail(o.c)
          ELSE Return(o, IF Top.left = <<>> THEN <<[Top EXCEPT !.do = "close_array"]>>
                         ELSE <<Task("decode", Head(Top.left)), [Top EXCEPT !.left = Tail(@)]>>,
                      <<>>)

\* A struct refuses a field it has seen.
ObjectMore ==
    /\ Working("members")
    /\ \E o \in ObjectKey :
          IF o.ok /\ Kind(Top.type) = "struct" /\ o.got \in Top.seen THEN Fail(o.c)
          ELSE IF o.got = NoToken THEN Return(o, <<[Top EXCEPT !.do = "close_object"]>>, <<>>)
          ELSE Return(o, <<Task("decode", MemberType(Top.type, o.got)),
                           [Top EXCEPT !.do = "member",
                                !.seen = IF Kind(Top.type) = "struct"
                                         THEN @ \cup ({o.got} \cap DOMAIN Shape[Top.type].fields)
                                         ELSE @]>>, <<o.got>>)

ObjectSep ==
    /\ Working("member")
    /\ \E o \in EntrySep("}") :
          Return(o, IF o.ok /\ o.got THEN <<Members>>
                    ELSE <<[Top EXCEPT !.do = "close_object"]>>, <<>>)

CloseArray ==
    /\ Working("close_array")
    /\ \E o \in EndContainer("[") : Return(o, <<>>, <<"]">>)

\* After the brace a struct asks for the fields it has no value for.
CloseObject ==
    /\ Working("close_object")
    /\ \E o \in EndContainer("{") :
          IF o.ok /\ Kind(Top.type) = "struct" /\ ~(Shape[Top.type].required \subseteq Top.seen)
          THEN Fail(o.c)
          ELSE Return(o, <<>>, <<"}">>)

\* nextdecode, from_reader, Format::decode: nothing may follow the value.
Finish ==
    /\ verdict = "running" /\ tasks = <<>>
    /\ \E o \in AtEnd : c' = o.c /\ verdict' = IF o.ok THEN "ok" ELSE "err"
    /\ UNCHANGED <<tasks, built>>

-----------------------------------------------------------------------------
Init ==
    /\ \E i \in Inputs : source = i.source /\ text = i.text /\ root = i.root
    /\ c = Cursor(IF source = "stream" THEN 0 ELSE Len(Input))
    /\ tasks = <<Task("decode", root)>>
    /\ built = <<>>
    /\ verdict = IF source = "value" /\ TooDeep(Input) THEN "err" ELSE "running"

Step == \/ DecodeScalar \/ DecodeOption \/ DecodeArray \/ DecodeMap \/ DecodeTuple
        \/ DecodeValue \/ DecodeSkip \/ DecodeUntagged
        \/ ArrayMore \/ ArraySep \/ TupleSep \/ ObjectMore \/ ObjectSep
        \/ CloseArray \/ CloseObject \/ Finish

Next == Step /\ UNCHANGED <<source, text, root>>

Spec == Init /\ [][Next]_vars

FairSpec == Spec /\ WF_vars(Next)

-----------------------------------------------------------------------------
(* Properties.                                                             *)

Inside == {"elements", "element", "part", "close_array", "members", "member", "close_object"}

TypeOK ==
    /\ [source |-> source, text |-> text, root |-> root] \in Inputs
    /\ c.pos \in 1 .. Len(Input) + 1
    /\ c.avail \in 0 .. Len(Input)
    /\ c.look \in Tokens \cup {NoToken}
    /\ c.depth \in 0 .. MaxDepth
    /\ c.pending.kind \in Openers \cup {"null", "number", "string", "binary", NoToken}
    /\ built \in Seq(Tokens)
    /\ \A i \in 1 .. Len(tasks) :
          /\ tasks[i].do \in Inside \cup {"decode", "try"}
          /\ tasks[i].type \in DOMAIN Shape
          /\ tasks[i].mark \in Marks
    /\ verdict \in {"running", "ok", "err"}

\* The containers that the i-th task and those below it are in.
OpenFrom(ts, i) == Cardinality({j \in i .. Len(ts) : ts[j].do \in Inside})

(* The depth that max_depth bounds is the number of containers that are    *)
(* really open, also after an untagged enum gave up a variant in the       *)
(* middle of nested containers, or at a bracket it had charged for and not *)
(* got (enter_container, save, restore).                                   *)
DepthIsOpen == verdict = "running" => c.depth = OpenFrom(tasks, 1)

Membered == {"members", "member", "close_object"}

(* The frames of a binary reader are the containers its caller is in,      *)
(* innermost last, also after an untagged enum gave up a variant: no count *)
(* is ever taken off the frame of another container (save, restore).       *)
FramesAreContainers ==
    verdict = "running" /\ source \in FramedSources =>
        /\ Len(c.frames) = OpenFrom(tasks, 1)
        /\ \A i \in 1 .. Len(tasks) :
              tasks[i].do \in Inside =>
                  (tasks[i].do \in Membered <=> c.frames[OpenFrom(tasks, i)].kind = "{")

(* Decoding ends: every loop consumes input and every enum runs out of     *)
(* variants, whatever the input and the reader.                            *)
Terminates == <>(verdict # "running")
=============================================================================
