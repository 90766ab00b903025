# NextJson in TLA+

Models of the core of NextJson (a Rust serialization library: JSON first, some
twenty other formats behind the same traits), model-checked with TLC and partly
proved with TLAPS. Paths below are relative to `src/nextjson/src` unless they
start elsewhere.

## 1. The system

NextJson has no threads. What is hard in it is *protocol*: encoders, sinks and
decoders are state machines that callers (derived code, hand-written
implementations, relays between formats) drive one call at a time, any call may
fail half-way, and the input may arrive, and the output leave, in pieces.

| Component | State | Operations | Talks to |
|---|---|---|---|
| Event protocol, `event_state.rs` | frame stack, root flag, `ready`/`pending_value` per frame | value, separator, begin, key, end, finish | called by both sinks and by CheckedEncoder |
| JSON encoder, `ser.rs` | frames, depth, output buffer | begin/end, key, separator, writes, finish | the caller's Write |
| JSON sink, `cross_format/json.rs` | an EventState *and* an Encoder | the eight calls of EventSink, finish | both of the above |
| CBOR sink, `cross_format/cbor.rs` | an EventState, a buffer | the same | the caller's Write |
| JSON over bytes, `de.rs` (BytesReader) | position, lookahead | tokens, typed reads, separators, end | Decoder |
| JSON over tokens, `de.rs` (TreeReader) | position in a token list, lookahead | the same | Decoder |
| Decoder, `de.rs` | depth, a reader | begin/end, save/restore, skip | NsonDeserialize implementations |
| JSON over Read, `stream.rs` | buffer, position, lookahead, depth | the same, and fill | the caller's Read |
| Derived decoding, `src/nextjson-derive/src/de.rs` | slots per field, mark per untagged enum | nextdecode_into | the pull interface FormatDecoder |
| Number, `number.rs` | one of five variants | parse, convert, display | lexers and typed reads |
| CheckedEncoder, `ser.rs` | an EventState in front of an encoder | the encoder trait, finish | event protocol, any encoder |
| Binary encoders, `formats/*.rs` | a buffer; frames with the place of a header, a blank or an entry to fill in or cut off | the encoder trait, finish | `formats/bin.rs`; called by CheckedEncoder (CBOR and UBJSON directly) |
| Collected encoding, `formats/tree.rs` | a stack of builders, a root | the encoder trait, take_root | TOML, YAML, EDN, INI, NDJSON |
| Binary decoders, `formats/*.rs` | position, lookahead, frames with remaining counts, a pending header, depth | the decoder trait | NsonDeserialize implementations |
| FlattenEncoder, `private.rs` | depth over an inner encoder | the encoder trait | any encoder |
| Relays, `cross_format/mod.rs`, `cross_format/cbor.rs` | recursion, the depth of CborReader | json_into, cbor_into | a decoder and a sink |
| Derived encoding and decoding of declared types, `src/nextjson-derive/src` | one slot per field | NsonSerialize, NsonDeserialize of a struct or enum with its attributes | encoders, decoders, Schema |
| Schema, validation, compatibility, JSON Schema | walk depth, reports | schema_of, validate, check, from_schema | Value, declared types |
| Map, `map.rs` | a vector of entries, an index of their positions from 16 on | insert, get, remove, retain, clear | Value |
| Value, scans, errors, writers | data | | |

What makes each correct:

- *Event protocol and sinks*: an event is accepted exactly when the document
  written so far allows it; what was accepted is what reaches the writer, once
  and in order; finish succeeds on complete documents only. The hazards are
  errors in the middle: an event advances two checkers one after the other, and
  a close pops before it can refuse.
- *Decoding*: a value comes out exactly for the inputs that are one document of
  the type asked for, however the input arrives and however often an untagged
  enum tries and gives up; the depth limit counts what is open; decoding ends.
- *Lexing and numbers*: code that does the same thing twice (two string lexers,
  a fast and a slow integer path) does the same thing; nothing wraps or rounds.
- *Formats*: headers, lengths and types that are written before they are known
  end up where they belong and say what follows them; the checker and the
  encoder behind it agree on what is open; decoders consume exactly one value.
- *Map*: an index that is there matches the entries, also behind removals, and
  nobody can tell whether it is there.
- *Relays*: a document goes through whole or not at all, and only the input or
  the writer can be at fault: the relay never breaks the sink's order.
- *Declared types*: what a type writes it reads back, whatever its attributes.
- *Validation, compatibility, JSON Schema*: three promises about declared types
  made from the schema alone. Each must agree with what encoder and decoder do.

## 2. Modules

```
EventState -- Encoder --+-- JsonSink --> implements EventSink    JsonSinkMC, JsonSink_proofs
                        +-- CborSink --> implements EventSink    CborSinkMC, CborSink_proofs
                        +-- Encoder_proofs (lemmas of both sinks, and of the proofs
                            about Relay and BinaryEncoders)

EventState, Pull, BytesReader -- Relay -- RelayMC                Relay_proofs

EventState -------------------------------------+
WireBytes, Varint -- HeaderEncoders ------------+
WireBytes -- BencodeEncoder, BsonEncoder -------+-- BinaryEncoders -- BinaryEncodersMC
EventState, WireBytes -- FlattenEncoder --------+   BinaryEncoders_proofs

Pull -- BytesReader, StreamReader, TreeReader --------------+
     -- Wire -- MsgPackReader, CborReader, BencodeReader ---+-- Decoder -- ReadersMC
             -- BsonReader, UbjsonReader, PostcardReader ---+
     -- SmileReader ----------------------------------------+   Decoder_proofs

DeclaredTypes -- Validate --+-- ReleasesMC
              -- Compat ----+

OrderedMap --> implements AssociationList (abstract)
JsonLexer, Varint, OrderedMap -- AtomsMC                         Atoms_proofs
```

**EventState, Encoder** are pure state machines written as operators: for each
method a guard (`ValueOk`: would it return Ok) and an effect (`Value`). A frame
is `[kind, due]`; `due` is `ready` for an array and `pending_value` for an
object, one flag in the code's two variants. The encoder's frames also carry
`first`. An `Encoder` operator takes the const parameter VALIDATE as its first
argument.

The last part of Encoder is the buffer in front of a writer. Tokens stand for bytes.
`Flush` has every outcome `write_all` may have: everything taken, or an error
after any prefix, with the buffer kept.

**JsonSink, CborSink**: one action `Event(event)` per call of the trait, and
`Finish`. A handler is a composition with `Try`, the `?` operator, in the order
of the source, so that an error leaves behind exactly what ran before it. The
caller is careful (drops the sink at the first error, as every relay does),
careless (goes on after a refused event) or, of JsonSink, persistent (goes on after
any error, also of the writer, so that what was kept is flushed again); the
constant `Callers` says which kinds a run considers, `MaxCalls` how long each goes
on.
**EventSink** is what the trait promises, with three variables' worth of state
and no buffers. What makes a sequence of tokens a document (`IsJsonDocument`,
`IsCborItem`) is said by places: which containers are open in front of a token
(`OpenAt`, `TokensIn` in Encoder) and whether the token may stand there. That can
be proved about. The grammars of the RFCs, which are recursive, are in JsonSinkMC
and CborSinkMC, each with an assumption TLC evaluates: the two accept the same of all
sequences of up to six tokens (and of the longer ones made of members).

**Relay** is `json_into` and `cbor_into`. The recursion of `relay_json_value`
and of `CborReader::item` is a stack of loops and a phase; a step reads one
thing and sends at most one event. JSON is read by BytesReader, CBOR by the code
of CborReader itself: the count of a header is read only after the sink was told
of the container, so that a header whose count cannot be read (`[?`, `{?`) leaves
the container open in the sink. The sink is the EventState that EventSink promises, with a
writer that may fail at any event; its frames are a variable of their own, and
that they follow the loops is what is to be shown.

**Pull** holds what the readers of every format share: the cursor (position,
lookahead, what has been read from the source, depth, frames, pending header,
tables of shared strings), marks, and the depth limit. A call returns a set of
outcomes because a read from a stream may deliver any number of symbols.
Its second part is what is JSON. A *symbol* is a punctuation byte, a whitespace
byte or a whole atom, since the readers' protocol never looks inside an atom;
**JsonLexer** looks inside. **Wire** adds what is binary: a *cell* is a whole
scalar, a container header with its count, an unbounded container, or its
terminator. Its second part goes one level lower, for formats in which the same byte
is a length, a type, a character or a terminator depending on who reads it: BSON
with the lengths of its documents, UBJSON with its markers, counts and types,
Postcard, where the type asked for is all there is. **SmileReader** has tables of
names and values that the document fills, and references into them.

**BytesReader, StreamReader, TreeReader, MsgPackReader, CborReader,
BencodeReader, BsonReader, UbjsonReader, PostcardReader, SmileReader** define
the same operations (`Next`, `Peek`, `Typed`, `OptionTag`, `ObjectKey`,
`EntrySep`, `HasMore`, `EndContainer`, `End`), each from its own file;
**Decoder** instantiates all of them and dispatches as the monomorphised code
does. The source `value` is a Value replayed as tokens (`value_to_tokens`, with
its own depth limit) behind TreeDecoder. The recursion of `nextdecode_into` is
an explicit stack of tasks; one action is one call of a reader and what the
caller does with the answer. An error unwinds to the innermost untagged enum
that has a variant left. **ReadersMC** has the types the runs decode, and the
reference grammars of JSON and of the binary formats. The last part of Pull
makes all edits of a document.

**WireBytes** is the buffer of the binary encoders, `patch_prefix`, and the
frames of the codecs that count. A byte is a record: what it is, the width of
the header it begins or its place in one, and a count. **HeaderEncoders**
has the codecs that write a header in front of what it counts, or no header at
all (MessagePack, CBOR, Postcard, UBJSON, Smile), and the collector of the text
formats, each from its own file with its name in front of its operators;
**BencodeEncoder** and **BsonEncoder** are the others; **BinaryEncoders** puts
CheckedEncoder in front of those that have it and has one action for a call that is
refused by the checker, one for a call that reaches the encoder, and `Finish`. The limits of the wire
(15, 255, 2^16 - 1, 2^32 - 1 entries, 2^31 - 1 bytes of a document) are
constants. **FlattenEncoder** is one more codec there: one or two adapters in
front of the EventState of a struct that stands between two members.

**JsonLexer** works on byte classes; `hi`, `lo` and `bmp` are four hex digits.
Its second part, `number.rs`, works on digits at a width `Word` (16 stands for 2^64, 256 for
2^128). **Varint** has `Payload` bits in a digit and `Width` in a value (7 and
64), and the VInts of Smile, whose last digit is one bit shorter. A reader's loop is
the first digit without another behind it and the sum up to there, and `Power` counts
out what `<<` shifts by. **OrderedMap**
is `map.rs` with positions from 1; the key comparison is equality, and `retain`
keeps the keys of any set. **AssociationList** is the same map without an index,
searched from one end.

**DeclaredTypes** has types as the macro sees them: scalars, lists, maps,
tuples, Options, structs with the attributes of their fields, and enums in the
four representations, and says what trees the generated code writes and what
value it makes of a tree. Its last part is the TypeSchema of a type and the JSON
Schema made of it; **Validate** and **Compat** are the other two users of a
schema. ReleasesMC has a state of two declarations, the one
shipped and the one in the source tree, and one action per edit of the latter.

## 3. Runs

| Run | Question | Bounds and why they are enough |
|---|---|---|
| json_sink | Does JsonSink accept exactly the legal orders, do its checkers agree, is what was accepted what was written, is a byte ever repeated or, by a caller that flushes again after an error, lost, is a finished document one? | 8 calls: three nested containers with content, an error at any call and any number of refused calls between, flushes at 3 tokens, the writer failing at any prefix; 5 calls and a finish of the persistent caller, so that two flushes in a row may fail, each anywhere, before one succeeds |
| cbor_sink | Does CborSink accept exactly the legal orders, and is the output of a careful caller an item? | 8 calls of a careful caller. That no byte is repeated, careless callers included, is proved (`WireIntegrity`, section 5). A string is two writes: behind a head whose flush failed there is no body, and whoever goes on after that has a torn string, which neither the run nor the proof speaks of |
| relays | Does a relay return Ok on exactly the documents, having told the sink exactly those, and never an event out of order? | eleven CBOR items and six JSON documents with every construct (indefinite texts, tags, counted and unbounded containers in each other, empty ones) and everything one edit away; depth limit 2, reached and passed; the writer failing at any event |
| readers | Are exactly the documents of the type accepted, from all the readers, and is the value the document? Do counts, lengths, frames, terminators, pending headers and shared tables survive backtracking? Does decoding end? | for each format documents that have every construct, nested and empty, and everything one deletion, insertion or replacement of a symbol away (of BSON: a wrong length, a lost or doubled terminator, any end cut off); values, options, lists, maps, structs with and without unknown members, tuples, untagged enums, nested ones; every cut of a stream into reads; depth limit 2; tables of two strings, filled and emptied |
| json_stream_whitespace | Does whitespace matter to a stream? (it does) | |
| json_stream_comma | Can a stream end in a trailing comma? (it can) | |
| bencode_untagged | Is a bencode list of untagged enums read whole? (it is not) | |
| ubjson_typed | Is a typed UBJSON array read as what it is? (not always) | |
| binary_encoders | Is a finished encoding byte for byte the document that was said, and is what the format cannot express refused, and nothing else? Does a flattened field leave the struct around it as it was? | 12 calls: three nested containers with content, or one with five entries. The counts 0, 1, 2, 3 and 4 need headers of different widths, so that containers whose header grows close inside others and behind each other, and counts beyond the widest are reached; documents of 12 bytes are too long for BSON. 8 calls for the flattening adapters, one and two deep |
| atoms | Do numbers end where they should, do the string lexers agree, does every path to an integer give the same one, has a value one varint and one VInt, and is Map a list? | numbers of 6 bytes; strings of 4 bytes of any class, and of 7 that spell escapes, enough for a pair and what may be wrong with it; all literals of up to 4 digits at widths 4 and 8 bits, so that every edge is crossed in digits and in value; varints of 4 digits of 3 bits for values of 7, so that one bit is left for the last full digit and one digit is too many; four keys and an index from two entries on, so that it comes, goes and stays |
| releases | Is what a release writes read back, does the verdict of the compatibility check hold, does the validator follow the decoder and enforce limits and policies, does the JSON Schema accept what is written? | nine declarations, one of every kind, and any two edits of fourteen kinds, shipped between them or not; integers of five widths at the ends of their ranges, both of the widest included (i128 cuts u128 in the schema, scaled: 15 stands for 2^127 - 1, above all of u16); lists of one; a hard cap of 3 levels, reached |
| compat_recycled | Is a release that gives a field's old name to another one compatible, as the check says? (it is not) | |

Inputs that a run leaves out, because what happens there is known (section 4):

- readers: for the stream only, whitespace, a closer behind a comma or a colon,
  and Option of an untagged enum; a closer where the value of an unknown member
  belongs; Option of an untagged enum in the binary readers and, in bencode and
  BSON, lists and members of them; a CBOR tag before a typed number; tuples of
  one element; typed containers of UBJSON where any type may come; in Smile,
  references behind a skipped string or behind a variant that read one and
  failed.
- binary_encoders: the checked encoders are called in every order. CBOR, UBJSON
  and Smile are encoded without a checker; there the run calls them as derived
  code does, in order only. Each format is offered a scalar it writes, one it
  refuses and keys, two of them where their order or repetition matters.
- releases: no wire name is given to another field and `flatten` is not switched
  on or off; the properties name, in operators of their own (`InSight`,
  `Followed`, `Enforced`, `Described`), the declarations they do not speak of.

**Fairness.** readers and relays have a liveness property (`Terminates`) and
assume weak fairness of the whole next-state relation: a decode or a relay is
one synchronous call that does not stop half-way by itself. A reader that blocks
for ever is outside the model. The sinks, encoders and the map have no liveness:
whether a next call comes is the caller's affair. Deadlock is not checked where
a run may end: a finished sink, encoding or decoding has no successor.

## 4. What was found

Each of these has a run that shows it:

- `skip_ws` of StreamDecoder never reads, so leading whitespace, and whitespace
  at a cut, are errors (json_stream_whitespace); the look behind a comma does not
  read either, so `[1,]` is accepted when a read ends at the comma
  (json_stream_comma).
- `BencodeDecoder::restore` drops the token `array_has_more` staged: the list
  `li1ei1ee` of untagged enums decodes into one element, without an error
  (bencode_untagged).
- `UbjsonDecoder::peek_token` looks for markers among bytes that have none,
  those of a typed container (ubjson_typed). The same look makes the depth
  drift, which no run shows since the inputs of `readers` keep such types away:
  `next_token` (`formats/ubjson.rs:834`) does honour the type, so that of a
  container whose elements are declared to be containers, as in `[ $[ #U1 Z ]`,
  what was peeked at as null is entered when it is taken; and an object declared
  `$Z` whose no-op is passed over before a `[` the other way round. TLC finds
  both when these documents are added, and they are why the theorems about the
  decoder have a condition for UBJSON.
- `diff_struct` does not report a new field whose name or identifier *any* old
  field has, even one that is matched with another (compat_recycled).

And these were met on the way, without a run of their own.

*Sinks and encoders.*

- `finish` of CborSink after an error the caller ignored returns Ok over a
  truncated item: `EventState::end` pops before it refuses, and a refused NaN
  has already consumed its slot (`FinishedIsItem` therefore speaks of careful
  callers; JsonSink's second checker protects it, and `FinishedIsDocument` holds
  for careless ones too).
- CBOR and UBJSON encode unbalanced calls into a broken document and return Ok,
  where their comments say they reject them (`formats/cbor.rs:50`,
  `formats/ubjson.rs:58`).
- Postcard writes `null` as it writes an empty container. That is the format,
  not a fault, but the reference says so too.
- `UbjsonEncoder::write_length` writes lengths from 2^31 on in the marker of
  signed numbers.
- `write_some` and `write_none` are documented to be overridden by the binary
  codecs; no binary codec of the crate does.
- Neither sink remembers that its writer failed. Whoever goes on after an I/O
  error delivers a part of the buffer twice, for it is kept whole, and finish
  returns Ok all the same; JsonSink loses nothing that way (`NothingIsLost`), and
  CborSink the body of a string whose head could not be flushed. `WireIsPrefix`
  and `OutputIsAccepted` are of callers that stop.

*Readers.*

- `skip_value` takes a closing bracket for a value, from memory and from
  streams: `{"a":1,"b":]}` decodes into a struct that ignores `b`.
- `StreamDecoder::restore` drops the token `option_tag` staged, and so do the
  binary readers; BSON's `restore` drops the type of the element.
- `CborDecoder::number` goes back one byte from wherever it got to: behind a
  tag, `d8 01` decodes as 1.
- A tuple asks for its first element without asking whether there is one: in
  the formats that count, `90 01` decodes as `(1,)`.
- BSON: an empty root array is refused, and a root object whose first key is "0"
  reads as an array. UBJSON: a no-op before a closer, or where a Value or an
  Option is peeked at, is refused; a counted object may end early at `}`; a type
  without a count is accepted, and `{$t` reads markers all the same.
- Smile: `skip_value` neither enters skipped strings into the table of shared
  values nor checks their UTF-8; `restore` takes names out of their table but
  not values; only `0xEC` of the long references is read and its index has 32
  taken off; 32-bit integers are cut; the 1024 names of the comment are not a
  limit; bytes that are written cannot be read back.
- `-0` is `I64(0)`, which the comment of Number excludes.

*Declared types.*

- Compatibility: u128 against i128 is reported compatible (ranges saturate), the
  one pair of widths `BackwardIsSound` does not speak of (`CutOff`); a
  wider integer range is reported forward compatible; `deny_unknown_fields` and
  fields added for a reader that denies are Notes or nothing; toggling `flatten`
  is no issue at all; an optional field that goes from beside a flattened typed
  map lets its old entry fall into the map; OptionalAdded is a Note and breaks
  forward.
- Validation: an enum of unit variants is written `{"A":null}` and wanted as a
  string; adjacent unit variants, transparent structs, aliases under
  `deny_unknown_fields`, and the fields of an internal variant under it are
  reported although the decoder takes them; internal and flattened content
  counts one level too deep; a policy or depth inside an untagged variant
  surfaces as a wrong shape; policies of tuple fields, of untagged variants and
  of transparent fields are never enforced; a missing field is not reported.
- Flattening: a flattened `Option` that is None can neither be written nor read,
  `default` on a flattened struct does nothing, a flattened map takes the keys
  of a flattened sibling. Adjacent variants ignore `skip_serializing_if`.
- JSON Schema: enums with data lack their wrapper, the tag is a keyword at top
  level, a flattened field is a required property, a transparent struct an
  object.

## 5. Proofs

`JsonSink_proofs` proves of `Spec` of JsonSink, for every flush threshold, any
number of calls, every kind of caller and a writer that may fail:

- `TypeCorrect` (`TypeOK`). Inductive because every helper of EventState and
  Encoder maps states to states (`Encoder_proofs`), and frames below the top
  are never due: a container that was pushed consumed its parent's slot
  (`OnlyTopDue`, part of TypeOK because `end` relies on it).
- `CheckersInLockstep` (`Lockstep`). `InStep` relates the two frame stacks: same
  kinds, same expectations. It is not preserved half-way through an event, so
  the lemmas go through `NearStep`, the relation between the two `?`s, once for
  each way a handler can start; `EndInStep` needs `OnlyTopDue`.
- `WireIntegrity` (`WireIsPrefix`). `WireIsPrefix` alone is not inductive: it
  says nothing of the buffer. `WireInv` adds that, until an error, wire and
  buffer together are everything emitted. (`NothingIsLost`, of the callers that go
  on after an error of the writer, is checked by TLC: it counts with a fold.)
- `NothingHalfWritten` (`OutputIsAccepted`). The tokens are compared by their
  places among those that are no commas, so that one more token is one more
  element of a finite set and no recursion is needed (`PlaceProperties`,
  `AppendSays`). `HandlerSays` is the fact about the code: a handler that returns
  Ok puts out its event, behind a comma or not, and one that does not puts out at
  most a comma. `SaidInv` adds that a sink whose writer failed takes no more
  calls; a persistent caller is outside it, and of `OutputIsAccepted`.
- `FinishedWellFormed` (`FinishedIsDocument`), for every kind of caller: what
  `finish` returned Ok over is a JSON document (with a persistent caller: what was
  put out, of which the writer may have parts twice). The document is not a state: it
  has to be read out of the tokens, and the Encoder knows no more of them than its
  frames. `GrammarInv` is what the frames know. Every token may stand where it
  stands (`Follows`), the containers that the tokens leave open are one by one the
  frames, in order and in kind (`Stacked`), and the last token tells which of its three
  expectations the innermost frame has (`LastTells`: nothing in it yet, a value
  owed behind a comma or a key, or something behind a value). The latter is why
  frames below the top are never `first`. A lemma of Encoder_proofs says for each
  way to append a token which containers are open behind it (`AppendOpens`,
  `AppendNests`, `WithoutLast`, ...): a closer pairs with the innermost opener, which by
  `Stacked` is the frame the Encoder pops.
- `SinkIsEventSink` (`ImplementsEventSink`). Every step of JsonSink is a step of
  EventSink or a stutter, under TypeOK, Lockstep and `RootKept` (containers are
  open under a root that was started). The two halves are lemmas about one event
  from states in step: `OkIsInGrammar`, that it returns Ok exactly if it is in
  order, and `OkMoves`, that it then moves stack, key and root as the contract
  says. `EntryFits` is the heart of the first: the separator that is taken
  before a value in an array is what makes the value's own check succeed.

`CborSink_proofs` proves of CborSink, for any subset of the events offered as well:

- `TypeCorrect` (`Typed`) and `WireIntegrity` (`WireIsPrefix`). As for JsonSink,
  but a string or a key is two writes, and the first may reach the writer alone:
  `AllPushes` is about both, and needs that a prefix stays one when the longer
  sequence grows.
- `SinkIsEventSink` (`ImplementsEventSink`). There is no second checker, but no
  separator either: that an array ends and takes a value at any time needs that
  it is never owed one (`OnlyKeysOwe`, part of `Typed`).
- `FinishedWellFormed` (`FinishedIsItem`), of a careful caller: what `finish`
  returned Ok over is one CBOR item. There is no comma or colon that tells what
  is due, only a count: of the items directly in a map, every second is a value.
  The invariant ties the EventState to that count (a map owes a value exactly when
  an odd number of items began in it), and `ItemAdvances` is the
  lemma that an item put into a container changes the count of that container and
  of no other. A string is a head and a body, two tokens, between which the
  invariant does not hold (`HeadThenBody`).

`Relay_proofs` proves of Relay, for every input, either format, every depth
limit and a writer that may fail anywhere:

- `SinkIsNeverRefused` (`SinkNeverRefuses`). The invariant is `Follows`: the
  sink has the same containers open as the relay has loops, and of its frames
  exactly the top one of an object is owed a value, exactly when the relay is
  about to send one. It is needed because the relay never looks at the sink's
  frames: that the two stacks agree is not in any guard. There is a lemma per
  kind of event (`ScalarFollows`, `BeginFollows`, `KeyFollows`, `EndFollows`),
  one for each end of a relay, and then one per format and phase, since JSON and
  CBOR share no code between reader and sink.

- `DepthIsTracked` (`DepthIsOpen`): the depth that BytesReader, or CborReader's
  `enter` and `leave`, count is the number of the relay's loops and of the
  containers open in the sink, step by step under `Follows`.

`Decoder_proofs` proves of Decoder, for every document, every declared type, any
depth limit, and any way a stream may be cut into reads:

- `ReadersCountDepth` (`DepthIsOpen`) and `ReadersKeepFrames`
  (`FramesAreContainers`), for all sources but UBJSON. Neither is inductive: a
  variant of an untagged enum that fails throws the stack of tasks away and
  restores a mark, so the invariant must say of every mark on the stack what it
  says of the cursor. `Accounted` is that: `Fits` asks of the cursor that
  depth and frames are the containers open on the stack, and `Stack` of each
  attempt's mark that it has the depth and the number of frames of the containers
  open from that attempt down (`OpenFrom`), and of each loop that its frame is of
  its kind.
- The argument is by contract. Each reader has a lemma that its calls keep the
  depth and the frames where they were (`MsgPackKeeps`, ...), and each that has
  frames one that beginning and ending a container moves both by one
  (`MsgPackNests`, ...). Lemmas about Decoder's dispatch turn these into one
  contract per call (`NextKeeps`, `BeginOpens`, ...); then there is one lemma for
  each group of tasks, and one for the unwinding (`FailFits`). Only the latter
  know of the stack, and only the first of formats.
- `ScalarTypesCount`: both properties hold of UBJSON too as long as no container
  declares its elements to be containers and no object declares them null.
  Section 4 has the documents that show the condition to be needed.

`BinaryEncoders_proofs` proves of BinaryEncoders, for any number of calls, and
so any depth and length of a document, whatever the limits of the formats are:

- `PlacesAreKept` (`PlacesInBuffer`), in every order of calls. What an encoder
  remembers is a position in a buffer that grows in the middle: the header that
  is written when a container ends moves all that is behind it
  (`PatchPrefixProperties`), and what must not move is in front of it. So the
  invariant orders the open containers by position: `Ahead` for the three formats
  that count, `Marked` for BSON, where the type of an element waits behind every
  length. `Filed` is the one of bencode: the values of the open dictionaries stand
  behind their openings in order, and every dictionary with another open inside
  it has a key for it. Without the checker it would fail at the first value
  that has no key, so the proof of this format needs `Agree`, below.
- `CodecsStayInStep` (`CodecInStep`). `MovesStack` says what a call does to a
  stack of containers; there is one lemma per format that its encoder moves so
  when it returns Ok (`MsgPackEmits`, `BsonEmits`, ...), one that the checker does
  (`CheckerMoves`), and `MovesInStep`, that two stacks that move alike stay in
  step. `Agree` adds who waits for a value. CBOR has no checker, so the theorem
  supposes that its caller keeps the order (section 3 says where the runs do not).
- `StructGoesOn` (`OuterIsKept`). `Bond` relates the adapters, one or two, and the
  EventState of the struct: before the value's first call and after its last the
  EventState is where it was found; in between (`Running`) it has as many
  containers open as the adapter counts, the outermost of them the struct's
  object, and both wait for a member's value at the same time, and an adapter
  further out counts the same. Each method of the adapter has a lemma that
  says whether it stops, swallows or forwards a call (`BeginAnswers`,
  `EndAnswers`, ...), and `ThroughAnswers` puts two of them in a row.
- `MembersStayInOrder` (`MembersInOrder`), an action property. A flattened value
  has no checker: its adapter counts depth and forwards, and the struct's checker
  sees what is left. `Bond` says how many containers are open, not whose slot is
  taken, so `OrderInv` compares the EventState that the value would have had to
  itself with what is there instead (`Keeps`): before the value's object it is new
  and the adapter idle, inside it (`Running`) it is the struct's checker, frame by
  frame and expectation by expectation, because the frame of the value's root object
  coincides with that of the struct's object, and behind it its root is done and the
  adapter ended. `EveryMethod` says per call which of adapter and checker answers it;
  a call that is forwarded is asked of a checker that equals the value's own, and one
  that is swallowed or stopped is so exactly as the value's own would have it
  (`ForwardOrStop`).

`Atoms_proofs` proves of Map, for every threshold and any sets of keys and
values:

- `MapStaysIndexed` (`MapTypeOK`, `IndexMatches`). The two together are
  inductive; neither is alone, since the search of `Position` relies on the
  index and the index on the entries being different. `Shape` says the invariant
  of any three values, and there is a lemma per operation: `InsertKeeps` by
  whether the key is there and the index exists, begins or stays away,
  `RemoveKeeps` by whether the index goes or its positions move,
  `RetainKeeps` by way of the increasing selection it makes.
- `MapIsList` (`ImplementsList`): every behaviour of Map is one of
  AssociationList, step by step under that invariant.

and of the lexers, for inputs of every length (the runs have seven bytes at most;
`BytesTyped` is all that is needed of a state: bytes, of a string if the first is a
quote):

- `LexersNeverDiffer` (`LexersAgree`). Both string lexers are recursive functions
  of a position that look only further on, so `SameFromTheEnd` makes two of them one
  once each step follows from the later ones. `StreamReads` shows that the function of
  unescape, which steps byte by byte behind an escape, also satisfies the equation of
  lex_string, which steps from run to run: `PlainSplits` takes a run apart at any
  byte, and `Stopped` is what both make of the byte that ended it.
  `StringIsUnescaped` adds the shortcut of lex_string_str: a string borrowed
  whole, or unescaped from its first special byte on, is unescaped from its
  first byte on.
- `StringsReadAsSpelled` (`StringsAreJson`). `SpellingIsRead` is the step: where the
  grammar spells a character in front of some closing quote the lexer reads it and
  goes on behind the spelling, and where it spells none the lexer does not end
  at that quote. It covers the ways a surrogate pair may be broken, and cut off by the
  quote. `ReadingIsRead` sums it up over the positions: between two quotes there is
  one reading, the lexer's, or none.
- `NumbersReadWhole` (`NumbersAreJson`). The grammar asks for some division into
  integer, fraction and exponent; `NumberAt` says it by the positions of their ends,
  and `IntegerEnds`, `FractionEnds` and `ExponentEnds` say of each part which ends it
  may have and that the lexer, which never goes back, leaves it at the
  last or refuses. `NumberEnds` puts them together: a shorter part in front
  leaves no room for a longer one behind, except where the lexer refuses, and
  there the next byte is a digit, a point or an `e`.

and of Number, for literals of every length and every even width (the runs have
four digits, and widths of four and eight bits):

- `IntegersReadExactly` (`IntegersAreExact`). `MagnitudeIs`: a sum that is checked at
  each digit is the number or None, because a digit more never brings a number
  back below a limit. With that `ParseIs` puts the three parsers and the sum
  during the scan into one closed form, `NumberOf` a sign and a magnitude, and what is
  left is arithmetic of the four ranges (`Widths`, `NumberOfIsExact`,
  `NumberOfIsConstructed`). `DecimalSpells` is the way back, by induction over
  the number that is displayed. `LiteralTyped` excludes leading zeros, which no
  lexer lets through; minus zero is the exception it is in the code.
- `TypedReadsFitExactly` (`TypedReadsAreExact`): the range asked for is always one
  of the width it is read through.

and of varints, for digits of any number of bits and any value whose longest varint
has one bit left for its last digit (the run has digits of 3 bits and values of 7;
the code's 7 and 64 are an instance that TLC cannot reach):

- `VarintsCarryEveryValue` (`VarintsAreExact`). `LowValuesFit` and `LowDigits`: k digits
  amount to less than the k-th power of the base, and dividing finds each of them again.
  So what is read has room in the width, since the digit that has one bit left is
  asked for no more, and is written as it was, since its last digit is not an idle
  zero (`ReadIsWritten`); and what is written passes both questions at every digit
  (`WrittenEnds`). For VInts `DigitsAmount` adds up the digits of a value, the highest
  first, `VIntIsWritten` follows the two forms of write_vint up to the edge between
  them, where a value has as many digits as the longer form, and `ReadVIntFits` has
  the converse: what was read from i digits needs no more than i.

Assumptions: `FlushThreshold` and `Threshold` are positive naturals
(`WriteBufferAssumption`, `ThresholdAssumption`), `Word`, which stands for 2^64, is
even and at least 2 (`JsonNumberAssumption`), a value has some whole digits and
one bit, as 64 bits are nine digits of 7 and one (`VarintAssumption`), and what the sinks assume of
their own switches; nothing is assumed of `MaxCalls` but that it is a natural
number, and of the formats of BinaryEncoders but that they are those there are
(`BinaryEncodersAssumption`).

A recursive definition cannot be unfolded by an induction theorem of the library,
but the minimum principle of well-founded sets can be cited: `NatMinimum` of
BinaryEncoders_proofs and of Atoms_proofs turns it into induction. `FlattenInSeq`
uses it for the one recursive operator that bencode's entries go through;
`RecursionFromTheEnd` shows with it that a function whose values depend on those at
later positions exists, and `SameFromTheEnd` that it is the only one, which is
what unfolds the recursive functions of the string lexers and of their grammar.
`RecursionFromTheStart` and `FromTheStart` are the same for the sums over digits, and
`Counted` and `CountedOnce` for powers and what the digits of varints amount to.

Only model-checked: that the local form of the two sinks' documents and items is the
RFCs' grammar (on all short sequences), that a relay tells the document, what a decode accepts and makes of it, `TypeOK` of Decoder (positions behind the
recursive headers of UBJSON are numbers only by induction over the input),
encoding and releases, `NothingIsLost`, and `Terminates`. The reference
grammars, and the declared types, are recursive, which the prover cannot use, and
liveness is beyond it.

## 6. Not modelled

Pretty printing, floating point (TLC has none; `F64` is left out of Number),
wording and positions of errors, bytes fields of the decoders, collections other
than Vec, tuples and maps, RAII of DecodeSlot (the type system's matter), reader
errors. FastEncoder, which the entry points use, is Encoder without its checks:
of callers in order there is nothing more to say, and of others nothing is
promised. Of the derive macro: parsing, rename rules, tuple structs, `with`,
`from`, `into`, `remote`. Of validation: sensitive paths and the size check.

Pickle and the text formats (TOML, YAML, JSON5, Hjson, RON, S-expressions, EDN,
CSV, INI, urlform, NDJSON, envy) parse a whole document by recursive descent, or
by a stack machine, into a Value and hand it to TreeDecoder, or write a
collected Value: the collector, `value_to_tokens` and TreeDecoder are modelled,
their grammars are not. The word-at-a-time scans of `scan.rs` are pure functions
that unit tests compare with bytewise loops. PROJECT.json lists every component
with its status.

## 7. Plan

1. *Text formats* that keep state between calls: CSV and NDJSON readers, urlform.
2. *FastEncoder* against the validating encoder for legal callers, and pretty
   printing as part of the encoder.
3. *Proofs*: that bencode's dictionaries are sorted, from `SortedPermutes`; and
   `TypeOK` of Decoder, by the minimum principle over the input of UBJSON.
