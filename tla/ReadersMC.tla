----------------------------- MODULE ReadersMC ------------------------------
(***************************************************************************)
(* Decoder over all its readers, for TLC: what is decoded, what an input   *)
(* stands for in the punctuation of JSON, and what should come of a        *)
(* decoding.                                                               *)
(***************************************************************************)
EXTENDS Decoder, Wire

-----------------------------------------------------------------------------
(* Types, what the JSON grammar (RFC 8259) says of a text and a type, and  *)
(* the texts the readers of JSON are asked about.                          *)

Types ==
    [value   |-> [kind |-> "value"],
     skip    |-> [kind |-> "skip"],
     unit    |-> [kind |-> "unit"],
     number  |-> [kind |-> "number"],
     string  |-> [kind |-> "string"],
     maybe   |-> [kind |-> "option", of |-> "number"],
     list    |-> [kind |-> "array", of |-> "maybe"],
     map     |-> [kind |-> "map", of |-> "value"],
     point   |-> [kind |-> "struct", fields |-> [a |-> "number"], required |-> {"a"}],
     pair    |-> [kind |-> "struct", fields |-> [a |-> "number", b |-> "list"],
                  required |-> {"a"}],
     couple  |-> [kind |-> "tuple", parts |-> <<"number", "list">>],
     numbers |-> [kind |-> "array", of |-> "number"],
     counts  |-> [kind |-> "map", of |-> "number"],
     couplet |-> [kind |-> "tuple", parts |-> <<"number", "numbers">>],
     mixed   |-> [kind |-> "array", of |-> "mixture"],
     mixture |-> [kind |-> "untagged", variants |-> <<"unit", "couplet", "counts", "numbers", "string">>],
     choice  |-> [kind |-> "untagged", variants |-> <<"couple", "pair", "list", "unit">>],
     either  |-> [kind |-> "untagged", variants |-> <<"unit", "nested", "couple", "list", "pair">>],
     nested  |-> [kind |-> "array", of |-> "inner"],
     inner   |-> [kind |-> "untagged", variants |-> <<"list", "number">>],
     records |-> [kind |-> "array", of |-> "record"],
     record  |-> [kind |-> "untagged", variants |-> <<"counts", "strings", "map">>],
     strings |-> [kind |-> "array", of |-> "string"],
     optional |-> [kind |-> "option", of |-> "inner"]]

-----------------------------------------------------------------------------
(* The reference: RFC 8259 over symbols, typed.                            *)

Body(s) == SubSeq(s, 2, Len(s) - 1)

RECURSIVE IsA(_, _), AreElements(_, _), AreParts(_, _), AreMembers(_, _, _)

IsA(type, s) ==
    LET kind == Kind(type)
        Bracketed(open, close) == Len(s) >= 2 /\ s[1] = open /\ s[Len(s)] = close
        IsArray == Bracketed("[", "]") /\ (Body(s) = <<>> \/ AreElements(ElementType(type), Body(s)))
        IsObject == Bracketed("{", "}") /\ AreMembers(type, Body(s), {})
        IsAtom(kinds) == Len(s) = 1 /\ s[1] \in kinds
    IN  CASE kind \in DOMAIN ScalarKinds -> IsAtom(ScalarKinds[kind])
          [] kind \in {"value", "skip"} ->
                IsAtom(Strings \cup Numbers \cup {"null"}) \/ IsArray \/ IsObject
          [] kind = "option" -> IsAtom({"null"}) \/ IsA(Shape[type].of, s)
          [] kind = "array"  -> IsArray
          [] kind = "tuple"  -> Bracketed("[", "]") /\ AreParts(Shape[type].parts, Body(s))
          [] kind \in {"map", "struct"} -> IsObject
          [] kind = "untagged" -> \E i \in DOMAIN Shape[type].variants :
                                     IsA(Shape[type].variants[i], s)

AreElements(type, s) ==
    \/ IsA(type, s)
    \/ \E i \in 2 .. Len(s) - 1 :
          /\ s[i] = "," /\ IsA(type, SubSeq(s, 1, i - 1))
          /\ AreElements(type, SubSeq(s, i + 1, Len(s)))

AreParts(types, s) ==
    \/ Len(types) = 1 /\ IsA(types[1], s)
    \/ /\ Len(types) > 1
       /\ \E i \in 2 .. Len(s) - 1 :
             /\ s[i] = "," /\ IsA(types[1], SubSeq(s, 1, i - 1))
             /\ AreParts(Tail(types), SubSeq(s, i + 1, Len(s)))

\* A struct has its required fields, and no known field twice.
AreMembers(type, s, seen) ==
    LET struct == Kind(type) = "struct"
        Fresh(key) == ~(struct /\ key \in DOMAIN Shape[type].fields /\ key \in seen)
    IN  \/ /\ s = <<>> /\ seen = {}
           /\ struct => Shape[type].required = {}
        \/ /\ Len(s) >= 3 /\ s[1] \in Strings /\ s[2] = ":" /\ Fresh(s[1])
           /\ \/ /\ IsA(MemberType(type, s[1]), SubSeq(s, 3, Len(s)))
                 /\ struct => Shape[type].required \subseteq seen \cup {s[1]}
              \/ \E i \in 4 .. Len(s) - 1 :
                    /\ s[i] = "," /\ IsA(MemberType(type, s[1]), SubSeq(s, 3, i - 1))
                    /\ i < Len(s)
                    /\ AreMembers(type, SubSeq(s, i + 1, Len(s)), seen \cup {s[1]})

\* The deepest bracket.
Nesting(s) ==
    LET Count(i, kinds) == Cardinality({j \in 1 .. i : s[j] \in kinds})
        depths == {Count(i, {"[", "{"}) - Count(i, {"]", "}"}) : i \in 1 .. Len(s)}
    IN  CHOOSE n \in depths \cup {0} : \A m \in depths : m <= n

\* s, without whitespace, is one document of the type within max_depth.
Conforms(type, s) == IsA(type, s) /\ Nesting(s) <= MaxDepth

-----------------------------------------------------------------------------
(* The inputs: documents and their edits.                                  *)

JsonDocuments ==
    {<<"1">>, <<"null">>, <<"a">>, <<"[", "]">>,
     <<"[", "1", ",", "null", "]">>,
     <<"[", "[", "1", "]", ",", "1", "]">>,
     <<"{", "a", ":", "1", "}">>,
     <<"{", "a", ":", "1", ",", "b", ":", "[", "]", "}">>,
     <<"{", "b", ":", "{", "b", ":", "a", "}", ",", "a", ":", "1", "}">>}

\* Two runs of digits side by side would be one.
OneRun(s) == \A i \in 1 .. Len(s) - 1 : ~(s[i] \in Numbers /\ s[i + 1] \in Numbers)

JsonTexts == {s \in Edited(JsonDocuments, Symbols) : OneRun(s)}

IsSpaced(s) == \E i \in 1 .. Len(s) : s[i] = Blank

Spaced == {s \in JsonTexts : IsSpaced(s)}

\* No whitespace, and no closer behind a comma.
Compact == {s \in JsonTexts : /\ ~IsSpaced(s)
                              /\ \A i \in 1 .. Len(s) - 1 : s[i] = "," => s[i + 1] \notin {"]", "}"}}

\* Whitespace between symbols says nothing.
Dense(s) == SelectSeq(s, LAMBDA x : x # Blank)

\* Nor a closer where a value belongs.
Closed(s) == /\ s # <<>> => s[1] \notin {"]", "}"}
             /\ \A i \in 1 .. Len(s) - 1 : s[i] = ":" => s[i + 1] \notin {"]", "}"}

CompactClosed == {s \in Compact : Closed(s)}

\* What read_token_tree buffers: the tokens of one value.
Buffered == {s \in JsonTexts : IsA("value", Dense(s))}

-----------------------------------------------------------------------------
(* What is decoded: documents in memory, arriving in any pieces, buffered  *)
(* as tokens, and Values.                                                  *)

InMemory == [source : {"bytes"}, text : JsonTexts,
             root : {"value", "maybe", "list", "map", "either", "nested", "couple", "optional"}]

\* A struct that skips unknown fields: no closer where a skipped value belongs.
WellClosed(s) ==
    \A i \in 1 .. Len(s) - 1 : /\ s[i] \in {":", ","} => s[i + 1] \notin {"]", "}"}
                               /\ s[i] = "[" => s[i + 1] # "}"

Skipping == [source : {"bytes"}, text : {s \in JsonTexts : WellClosed(Dense(s))}, root : {"point"}]

Streamed == [source : {"stream"}, text : CompactClosed,
             root : {"value", "list", "map", "either", "pair"}]

Replayed == [source : {"tree"}, text : Buffered,
             root : {"value", "list", "map", "either", "pair", "optional", "nested"}]

\* A Value has no key twice in an object.
OneEach(s) == \A i, j \in 1 .. Len(s) - 1 : s[i + 1] = ":" /\ s[j + 1] = ":" /\ s[i] = s[j] => i = j

Nested == {<<"[", "[", "[", "]", "]", "]">>,
           <<"[", "{", "a", ":", "[", "1", "]", "}", "]">>}

Replayable == {s \in Buffered \cup Nested : ~IsSpaced(s) /\ OneEach(s)}

FromValues == [source : {"value"}, text : Replayable,
               root : {"value", "list", "map", "either", "pair", "point"}]

JsonInputs == InMemory \cup Skipping \cup Streamed \cup Replayed \cup FromValues

StreamedBlanks == [source : {"stream"}, text : Spaced, root : {"value"}]

StreamedCommas == [source : {"stream"}, text : JsonTexts, root : {"value"}]

-----------------------------------------------------------------------------
(* Properties.                                                             *)

(* What is accepted is JSON ("malformed ... syntax ... are errors",        *)
(* README.md).                                                             *)
AcceptedIsJson == verdict = "ok" => Conforms(root, Dense(text))

(* What is JSON of the right type is accepted, however it arrives.         *)
JsonIsAccepted == verdict = "err" => ~Conforms(root, Dense(text))

-----------------------------------------------------------------------------
(* Decoder over MessagePack, CBOR and bencode, for TLC: what is decoded,   *)
(* and what a wire stands for.                                             *)

(* The inputs: documents, and everything one edit of a cell away.          *)

CountedDocuments ==
    {<<"1">>, <<"null">>, <<"[0">>,
     <<"[2", "1", "null">>,
     <<"[2", "[1", "1", "1">>,
     <<"[2", "1", "[1", "null">>,
     <<"{1", "a", "1">>,
     <<"{2", "a", "1", "b", "[1", "1">>,
     <<"{2", "b", "{1", "b", "a", "a", "1">>}

DelimitedDocuments ==
    {<<"[*", "end">>,
     <<"[*", "1", "1", "end">>,
     <<"[*", "[*", "1", "end", "1", "end">>,
     <<"[*", "1", "[*", "1", "end", "end">>,
     <<"{*", "a", "1", "b", "[*", "1", "end", "end">>,
     <<"{*", "b", "{*", "b", "a", "end", "a", "1", "end">>}

MixedDocuments == {<<"[*", "[1", "1", "1", "end">>, <<"{2", "b", "[*", "1", "end", "a", "1">>}

Untagged == Cells \ {"tag"}

MsgPackTexts == Edited(CountedDocuments, Untagged \ (DOMAIN Delimited \cup {"end"}))

CborTexts == Edited(CountedDocuments \cup DelimitedDocuments \cup MixedDocuments, Untagged)

BencodeTexts == Edited(DelimitedDocuments, Untagged \ (DOMAIN Counted \cup {"null"}))

TaggedTexts == Edited(CountedDocuments, {"tag"})

MsgPackInputs == [source : {"msgpack"}, text : MsgPackTexts,
                  root : {"value", "list", "map", "either", "nested", "couple", "point"}]

CborInputs == [source : {"cbor"}, text : CborTexts, root : {"value", "either", "nested", "point"}]
                  \cup [source : {"cbor"}, text : TaggedTexts, root : {"value"}]

BencodeInputs == [source : {"bencode"}, text : BencodeTexts,
                  root : {"value", "list", "map", "choice", "couple"}]

CellInputs == MsgPackInputs \cup CborInputs \cup BencodeInputs

UntaggedElements == [source : {"bencode"}, text : BencodeTexts, root : {"nested"}]

-----------------------------------------------------------------------------
(* The reference: the text a wire stands for, in the punctuation of JSON.  *)

RECURSIVE Items(_, _), Entries(_, _, _)

\* The item at p as [to, text], if there is one.
Items(w, p) ==
    LET cell == At(w, p)
        Opened(frame) == {[e EXCEPT !.text = <<frame.kind>> \o @] : e \in Entries(w, p + 1, frame)}
    IN  CASE cell \in Scalars -> {[to |-> p + 1, text |-> <<cell>>]}
          [] cell \in DOMAIN Counted -> Opened(Counted[cell])
          [] cell \in DOMAIN Delimited -> Opened(Delimited[cell])
          [] OTHER -> {}

\* What is left of a container, from p to behind its end.
Entries(w, p, frame) ==
    LET over == IF frame.open THEN At(w, p) = "end" ELSE frame.left = 0
        rest == IF frame.open THEN frame ELSE [frame EXCEPT !.left = @ - 1]
        entries == IF frame.kind = "[" THEN Items(w, p)
                   ELSE {[e EXCEPT !.text = <<At(w, p), ":">> \o @] :
                            e \in IF At(w, p) \in Strings THEN Items(w, p + 1) ELSE {}}
    IN  IF over THEN {[to |-> IF frame.open THEN p + 1 ELSE p, text |-> <<CloserOf[frame.kind]>>]}
        ELSE UNION {{[to |-> r.to, text |-> e.text \o Listed(r.text)] :
                        r \in Entries(w, e.to, rest)} : e \in entries}

\* The one item that is all of the wire.
Readings(w) == {e.text : e \in {i \in Items(w, 1) : i.to = Len(w) + 1}}

-----------------------------------------------------------------------------
(* Decoder over BSON, UBJSON and Postcard, for TLC: what is decoded, and   *)
(* what an input stands for, in the punctuation of JSON.                   *)

BsonCells == INSTANCE BsonReader

-----------------------------------------------------------------------------
(* BSON documents; with a length that is wrong, a terminator lost or       *)
(* doubled, or the end cut off.                                            *)

Doc(elements) == <<BsonCells!Spans[Len(elements) + 2]>> \o elements \o <<"end">>

Element(name) ==
    {<<"number", name, "1">>, <<"string", name, "a">>, <<"null", name>>, <<"binary", name>>}
        \cup {<<"[", name>> \o Doc(e) : e \in {<<>>, <<"number", "0", "1", "null", "1">>}}
        \cup {<<"{", name>> \o Doc(e) : e \in {<<>>, <<"string", "b", "a">>,
                                               <<"[", "b">> \o Doc(<<"null", "a">>)}}

BsonDocuments ==
    {Doc(<<>>)} \cup {Doc(x) : x \in UNION {Element(name) : name \in {"0", "a", "b"}}}
        \cup {Doc(x \o y) : x \in Element("0") \cup Element("a"), y \in Element("b")}

Spoiled(s) ==
    LET Places(kinds) == {i \in 1 .. Len(s) : s[i] \in kinds}
        spans == Places({BsonCells!Spans[n] : n \in DOMAIN BsonCells!Spans})
    IN  {[s EXCEPT ![i] = BsonCells!Spans[n]] : i \in spans, n \in {1, 3, 4, Len(s) + 1}}
            \cup {SubSeq(s, 1, i) \o SubSeq(s, i, Len(s)) : i \in Places({"end"})}
            \cup {SubSeq(s, 1, i - 1) \o SubSeq(s, i + 1, Len(s)) : i \in Places({"end"})}
            \cup {SubSeq(s, 1, i) : i \in 0 .. Len(s)}

BsonTexts == UNION {Spoiled(s) : s \in BsonDocuments}

BsonInputs == [source : {"bson"}, text : BsonTexts,
               root : {"value", "list", "couple", "nested", "pair", "point"}]

-----------------------------------------------------------------------------
(* UBJSON documents and their edits.                                       *)

PlainDocuments ==
    {<<"Z">>, <<"S", "U", "1", "a">>,
     <<"[", "U", "1", "Z", "]">>,
     <<"[", "[", "U", "1", "]", "U", "1", "]">>,
     <<"{", "U", "1", "a", "U", "1", "}">>,
     <<"{", "U", "1", "a", "U", "1", "U", "1", "b", "[", "]", "}">>,
     <<"{", "U", "1", "b", "{", "U", "1", "b", "Z", "}", "U", "1", "a", "U", "1", "}">>,
     <<"[", "#", "U", "2", "U", "1", "Z">>,
     <<"{", "#", "U", "1", "U", "1", "a", "U", "1">>,
     <<"[", "[", "#", "U", "1", "U", "1", "]">>}

\* Byte strings, strings of one type, and a byte string in a member.
TypedDocuments ==
    {<<"[", "$", "U", "#", "U", "2", "1", "Z">>,
     <<"[", "$", "S", "#", "U", "1", "U", "1", "a">>,
     <<"{", "U", "1", "b", "[", "$", "U", "#", "U", "1", "]", "U", "1", "a", "U", "1", "}">>}

Markers == {"0", "1", "2", "a", "Z", "[", "]", "{", "}", "#", "U", "S"}

\* An array of one type of scalar.
TypedArrays(s) ==
    \A i \in 1 .. Len(s) : s[i] = "$" =>
        /\ At(s, i + 1) \in {"U", "S"}
        /\ ~\E j \in 1 .. i - 1 : s[j] = "{" /\ \A k \in j + 1 .. i - 1 : s[k] \notin {"[", "}"}

PlainTexts == {s \in Edited(PlainDocuments, Markers) : \A i \in DOMAIN s : s[i] # "$"}

TypedTexts == {s \in Edited(TypedDocuments, Markers) : TypedArrays(s)}

PaddedTexts == UNION {[1 .. n -> {"N", "U", "1"}] : n \in 2 .. 4}

UbjsonInputs ==
    [source : {"ubjson"}, text : PlainTexts, root : {"value", "list", "pair", "nested", "point"}]
        \cup [source : {"ubjson"}, text : TypedTexts, root : {"numbers", "point"}]
        \cup [source : {"ubjson"}, text : PaddedTexts, root : {"number"}]

\* Byte strings whose bytes look like markers, read without a type.
TypedValues == [source : {"ubjson"}, text : TypedTexts, root : {"value"}]

-----------------------------------------------------------------------------
(* Postcard: any few bytes.                                                *)

PostcardTexts == UNION {[1 .. n -> {"0", "1", "2", "a"}] : n \in 0 .. 4}

PostcardInputs ==
    [source : {"postcard"}, text : PostcardTexts,
     root : {"unit", "number", "string", "numbers", "counts", "couplet", "mixed", "point",
             "value", "list"}]

OctetInputs == BsonInputs \cup UbjsonInputs \cup PostcardInputs

-----------------------------------------------------------------------------
(* The reference.                                                          *)

Atom(to, token) == {[to |-> to, text |-> <<token>>]}

Opened(opener, rest) == {[r EXCEPT !.text = <<opener>> \o @] : r \in rest}

Closing(to, opener) == Atom(to, CloserOf[opener])

\* A value and, from behind it, the rest of its container.
Chain(values, Rest(_)) ==
    UNION {{[r EXCEPT !.text = v.text \o Listed(@)] : r \in Rest(v.to)} : v \in values}

Member(key, values) == {[v EXCEPT !.text = <<key, ":">> \o @] : v \in values}

RECURSIVE Document(_, _, _), Fields(_, _, _)

Document(w, p, kind) ==
    {d \in Opened(kind, Fields(w, p + 1, kind)) : d.to - p \in BsonCells!SpanOf(At(w, p)) \ {1}}

Fields(w, p, kind) ==
    LET type == At(w, p)
        value == CASE type = "null" -> Atom(p + 2, "null")
                   [] type = "number" /\ At(w, p + 2) \in Numbers -> Atom(p + 3, w[p + 2])
                   [] type = "string" /\ At(w, p + 2) \in Strings -> Atom(p + 3, w[p + 2])
                   [] type \in Openers -> Document(w, p + 2, type)
                   [] OTHER -> {}
        Rest(q) == Fields(w, q, kind)
    IN  IF type = "end" THEN Closing(p + 1, kind)
        ELSE Chain(IF kind = "[" THEN value ELSE Member(At(w, p + 1), value), Rest)

\* A document whose first name is 0 is an array.
BsonItems(w) == Document(w, 1, IF At(w, 3) = "0" /\ At(w, 2) # "end" THEN "[" ELSE "{")

\* The string whose length is at p.
Text(w, p) ==
    IF At(w, p) = "eof" \/ p + CountOf(At(w, p)) > Len(w) THEN {}
    ELSE Atom(p + 1 + CountOf(w[p]), IF CountOf(w[p]) = 1 /\ w[p + 1] = "a" THEN "a" ELSE "b")

RECURSIVE Marked(_, _, _), Parameters(_, _, _), Content(_, _, _)

\* The value at p, of a type that is given or read.
Marked(w, p, given) ==
    LET q == IF given = NoToken THEN p + 1 ELSE p
        type == IF given = NoToken THEN At(w, p) ELSE given
    IN  CASE type = "N" -> Marked(w, q, NoToken)
          [] type = "Z" -> Atom(q, "null")
          [] type = "U" /\ At(w, q) # "eof" -> Atom(q + 1, "1")
          [] type = "S" /\ At(w, q) = "U" -> Text(w, q + 1)
          [] type \in Openers ->
                Opened(type, Parameters(w, q, [NoFrame EXCEPT !.kind = type, !.open = TRUE]))
          [] OTHER -> {}

Parameters(w, p, frame) ==
    CASE At(w, p) = "$" -> Parameters(w, p + 2, [frame EXCEPT !.type = At(w, p + 1)])
      [] At(w, p) = "#" ->
            IF At(w, p + 1) # "U" \/ At(w, p + 2) = "eof" THEN {}
            ELSE Parameters(w, p + 3, [frame EXCEPT !.left = CountOf(w[p + 2]), !.open = FALSE])
      [] At(w, p) = "eof" -> {}
      [] OTHER -> Content(w, p, frame)

Content(w, p, frame) ==
    LET over == IF frame.open THEN At(w, p) = CloserOf[frame.kind] ELSE frame.left = 0
        Rest(q) == Content(w, q, IF frame.open THEN frame ELSE [frame EXCEPT !.left = @ - 1])
        members == IF At(w, p) # "U" THEN {}
                   ELSE UNION {Member(key.text[1], Marked(w, key.to, NoToken)) : key \in Text(w, p + 1)}
    IN  IF over THEN Closing(IF frame.open THEN p + 1 ELSE p, frame.kind)
        ELSE Chain(IF frame.kind = "[" THEN Marked(w, p, frame.type) ELSE members, Rest)

RECURSIVE Postcards(_, _, _, _), PostcardParts(_, _, _, _), PostcardMembers(_, _, _, _, _)

\* The bytes at p taken as a value of the type, in so many containers; of
\* an untagged enum the first variant they can be taken as.
Postcards(type, w, p, depth) ==
    LET kind == Kind(type)
        Within(opener, rest) == IF depth = MaxDepth \/ At(w, p) = "eof" THEN {} ELSE Opened(opener, rest)
        n == CountOf(w[p])
        As(i) == Postcards(Shape[type].variants[i], w, p, depth)
        possible == {i \in DOMAIN Shape[type].variants : As(i) # {}}
    IN  CASE kind = "unit" -> IF At(w, p) = "0" THEN Atom(p + 1, "null") ELSE {}
          [] kind = "number" -> IF At(w, p) # "eof" THEN Atom(p + 1, "1") ELSE {}
          [] kind = "string" -> Text(w, p)
          [] kind = "array" ->
                Within("[", IF n = 99 THEN {}
                            ELSE PostcardParts([i \in 1 .. n |-> Shape[type].of], w, p + 1, depth + 1))
          [] kind = "tuple" ->
                Within("[", IF n # Len(Shape[type].parts) THEN {}
                            ELSE PostcardParts(Shape[type].parts, w, p + 1, depth + 1))
          [] kind \in {"map", "struct"} -> Within("{", PostcardMembers(type, w, p + 1, n, depth + 1))
          [] kind = "untagged" ->
                IF possible = {} THEN {} ELSE As(CHOOSE i \in possible : \A j \in possible : i <= j)
          [] OTHER -> {}

PostcardParts(types, w, p, depth) ==
    LET Rest(q) == PostcardParts(Tail(types), w, q, depth)
    IN  IF types = <<>> THEN Closing(p, "[")
        ELSE Chain(Postcards(Head(types), w, p, depth), Rest)

PostcardMembers(type, w, p, n, depth) ==
    LET Rest(q) == PostcardMembers(type, w, q, n - 1, depth)
    IN  IF n = 0 THEN Closing(p, "{")
        ELSE Chain(UNION {Member(key.text[1], Postcards(MemberType(type, key.text[1]), w, key.to, depth)) :
                             key \in Text(w, p)}, Rest)

\* Of what the items at the start of w say, what is all of w; no-ops may
\* follow a UBJSON value.
Wholes(w, items, padding) ==
    {i.text : i \in {j \in items : \A k \in j.to .. Len(w) : w[k] \in padding}}

OctetReadings(s, type, w) ==
    CASE s = "bson"     -> Wholes(w, BsonItems(w), {})
      [] s = "ubjson"   -> Wholes(w, Marked(w, 1, NoToken), {"N"})
      [] s = "postcard" -> Wholes(w, Postcards(type, w, 1, 0), {})

-----------------------------------------------------------------------------
(* Decoder over Smile, for TLC: what is decoded, and what an input stands  *)
(* for, in the punctuation of JSON.                                        *)

(* The inputs: documents with and without references, and everything one   *)
(* edit of a byte away.                                                    *)

SmileDocuments ==
    {<<"null">>, <<"s1", "a">>,
     <<"[", "1", "null", "]">>,
     <<"[", "[", "1", "]", "1", "]", "end">>,
     <<"{", "k", "a", "1", "k", "b", "[", "1", "]", "}">>,
     <<"{", "k", "b", "{", "k", "b", "null", "}", "k", "a", "1", "}">>,
     <<"[", "s1", "a", "empty", "k", "a", "b", "r1", "]">>,
     <<"[", "s1", "a", "s1", "b", "s1", "b", "r1", "r2", "]">>,
     <<"[", "{", "k", "a", "s1", "a", "}", "{", "s1", "1", "}", "]">>,
     <<"[", "{", "k", "a", "null", "}", "{", "k", "b", "1", "s2", "1", "}", "]">>,
     <<"[", "{", "empty", "1", "1", "a", "b", "null", "}", "[", "r1", "]", "]">>,
     <<"[", "s1", "a", "r1", "[", "1", "r1", "]", "]">>}

SmileBytes == {"a", "s1", "s2", "k", "r1", "r2", "1", "null", "[", "]", "{", "}", "end"}

SmileTexts == Edited(SmileDocuments, SmileBytes)

\* skip_value keeps no string and does not look at its bytes: what is
\* skipped has none.  Nor does a variant of record read a string and fail:
\* restore would not forget it.
Skippable ==
    Edited({<<"{", "k", "a", "1", "k", "b", "[", "1", "{", "k", "a", "null", "}", "]", "}">>,
            <<"{", "k", "b", "{", "k", "b", "null", "}", "k", "a", "1", "}">>,
            <<"{", "k", "b", "null", "1", "b", "b", "1", "k", "a", "1", "}">>},
           SmileBytes \ {"s1", "s2", "k", "r1", "r2"})

SmileInputs ==
    [source : {"smile"}, text : SmileTexts,
     root : {"value", "strings", "records", "nested", "pair"}]
        \cup [source : {"smile"}, text : Skippable, root : {"point"}]

-----------------------------------------------------------------------------
(* The reference: a reader of the whole input, [to, text, names, values],  *)
(* that says what each byte stands for.                                    *)

Start == [to |-> 1, text |-> <<>>, names |-> <<>>, values |-> <<>>]

Past(r, token) == [r EXCEPT !.to = @ + 1, !.text = Append(@, token)]

Comma(r) == [r EXCEPT !.text = Append(@, ",")]

\* The bytes behind the one at r, as one string.
Letters(w, r, n) ==
    IF \E i \in r.to + 1 .. r.to + n : At(w, i) \in {"eof", "k", "1", "end"} \cup Openers \cup Closers
    THEN {}
    ELSE {[r EXCEPT !.to = @ + n + 1,
                    !.text = Append(@, IF n = 1 /\ w[r.to + 1] = "a" THEN "a" ELSE "b")]}

SaidLast(r) == r.text[Len(r.text)]

\* The table that forgets what it holds when it is full.
Remembered(table, string) ==
    IF Len(table) = SharedLimit THEN <<string>> ELSE Append(table, string)

StringAt(w, r) ==
    LET kept(n) == {[s EXCEPT !.values = Remembered(@, SaidLast(s))] : s \in Letters(w, r, n)}
        again(i) == IF i <= Len(r.values) THEN {Past(r, r.values[i])} ELSE {}
    IN  CASE At(w, r.to) = "s1" -> kept(1)
          [] At(w, r.to) \in {"s2", "k"} -> kept(2)
          [] At(w, r.to) = "empty" -> {Past(r, "b")}
          [] At(w, r.to) = "r1" -> again(1)
          [] At(w, r.to) = "r2" -> again(2)
          [] OTHER -> {}

NameAt(w, r) ==
    LET kept(n) == {[s EXCEPT !.names = Append(@, SaidLast(s))] : s \in Letters(w, r, n)}
        again(i) == IF i <= Len(r.names) THEN {Past(r, r.names[i])} ELSE {}
    IN  CASE At(w, r.to) = "k" -> kept(1)
          [] At(w, r.to) = "1" -> kept(2)
          [] At(w, r.to) = "empty" -> {Past(r, "b")}
          [] At(w, r.to) = "s1" -> again(1)
          [] At(w, r.to) = "s2" -> again(2)
          [] OTHER -> {}

RECURSIVE ValueFrom(_, _), EntriesFrom(_, _, _)

ValueFrom(w, r) ==
    LET byte == At(w, r.to)
    IN  CASE byte \in {"1", "null"} -> {Past(r, byte)}
          [] byte \in Openers -> EntriesFrom(w, Past(r, byte), byte)
          [] OTHER -> StringAt(w, r)

\* The rest of a container.
EntriesFrom(w, r, opener) ==
    LET first == SaidLast(r) = opener
        entry == IF first THEN r ELSE Comma(r)
        Colon(n) == [n EXCEPT !.text = Append(@, ":")]
        entries == IF opener = "[" THEN ValueFrom(w, entry)
                   ELSE UNION {ValueFrom(w, Colon(n)) : n \in NameAt(w, entry)}
    IN  IF At(w, r.to) = CloserOf[opener] THEN {Past(r, CloserOf[opener])}
        ELSE UNION {EntriesFrom(w, e, opener) : e \in entries}

SmileReadings(w) ==
    {r.text : r \in {v \in ValueFrom(w, Start) : SubSeq(w, v.to, Len(w)) \in {<<>>, <<"end">>}}}

-----------------------------------------------------------------------------
AllInputs == JsonInputs \cup CellInputs \cup OctetInputs \cup SmileInputs

\* What the input stands for, as JSON; there may be nothing.
Meanings == CASE source \in JsonSources -> {Dense(text)}
              [] source \in {"msgpack", "cbor", "bencode"} -> Readings(text)
              [] source = "smile" -> SmileReadings(text)
              [] OTHER -> OctetReadings(source, root, text)

(* A decoder decides its format: it returns a value for exactly the inputs *)
(* that are one document of the type asked for, within max_depth: every    *)
(* count and length is met, every terminator is where it belongs, no byte  *)
(* is left.  For a stream that is to say: however the reads cut the input  *)
(* (tests/coverage_stream.rs).                                             *)
AcceptsExactly == verdict # "running" => (verdict = "ok" <=> \E t \in Meanings : Conforms(root, t))

(* The value is the document: every scalar, key and bracket once and in    *)
(* order, nothing of a variant that was given up, nothing lost with a      *)
(* lookahead (a struct that skips unknown fields aside).                   *)
ValueIsDocument == verdict = "ok" /\ root # "point" => \E t \in Meanings : built = Flat(t)

(* A document of the type asked for is not refused.                        *)
DocumentsAreAccepted == verdict = "err" => ~\E t \in Meanings : Conforms(root, t)
=============================================================================
