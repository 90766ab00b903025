------------------------------ MODULE JsonSink ------------------------------
(***************************************************************************)
(* cross_format::JsonSink: an EventSink that checks every event with an    *)
(* EventState and then drives the validating JSON Encoder, which checks it *)
(* again.  The two checkers advance one after the other, each call ends at *)
(* the first ?, and what ran before the ? is not undone.                   *)
(*                                                                         *)
(* A handler is a chain of fallible steps on an outcome                    *)
(* o = [ok, structure, encoder, emit, spill]: emit are the tokens put into *)
(* the encoder's buffer, spill says that the last step ended in            *)
(* maybe_flush.  Try(o, Step) is the ? operator.                           *)
(***************************************************************************)
EXTENDS Encoder, FiniteSets

CONSTANTS
    Callers,        (* the callers there are: a careful one drops the sink *)
                    (* at the first error, a careless one goes on after an *)
                    (* event was refused, a persistent one after any error *)
    MaxCalls        (* bound: calls that each of them makes to one sink    *)

ASSUME JsonSinkAssumption ==
    /\ Callers \subseteq {"careful", "careless", "persistent"}
    /\ MaxCalls \in [Callers -> Nat]

VARIABLES
    structure,      (* JsonSink.structure: the EventState                  *)
    encoder,        (* JsonSink.encoder: its frames and root_written       *)
    out,            (* the encoder's buf, and what the writer received     *)
    call,           (* the last call and what it returned                  *)
    status,         (* open, stopped (by the caller), done, rejected       *)
    emitted,        (* history: every token ever put into the buffer       *)
    accepted,       (* history: the tokens of the events that returned Ok  *)
    calls,          (* number of calls made                                *)
    caller          (* who calls                                           *)

vars == <<structure, encoder, out, call, status, emitted, accepted, calls, caller>>

Events == {"word", "text", "nonfinite", "begin_array", "end_array",
           "begin_object", "object_key", "end_object"}

-----------------------------------------------------------------------------
(* The steps.                                                              *)

Start == [ok |-> TRUE, structure |-> structure, encoder |-> encoder,
          emit |-> <<>>, spill |-> FALSE]

Fail(o) == [o EXCEPT !.ok = FALSE]

Try(o, Step(_)) == IF o.ok THEN Step(o) ELSE o

StructSeparator(o) ==
    IF SeparatorOk(o.structure)
    THEN [o EXCEPT !.structure = Separator(@)]
    ELSE Fail(o)

StructValue(o) ==
    IF ValueOk(TRUE, o.structure)
    THEN [o EXCEPT !.structure = Value(@)]
    ELSE Fail(o)

StructBegin(kind, o) ==
    IF ValueOk(TRUE, o.structure)
    THEN [o EXCEPT !.structure = Begin(kind, @)]
    ELSE Fail(o)

StructKey(o) ==
    IF KeyOk(o.structure) THEN [o EXCEPT !.structure = Key(@)] ELSE Fail(o)

\* end() has popped the frame whether or not it returns Ok.
StructEnd(kind, o) ==
    [o EXCEPT !.structure = End(@), !.ok = EndOk(kind, o.structure)]

EncoderSeparator(o) ==
    IF EncSeparatorOk(TRUE, o.encoder)
    THEN [o EXCEPT !.encoder = EncEntry(TRUE, @),
                   !.emit = @ \o EntrySeparator(o.encoder)]
    ELSE Fail(o)

EncoderValue(o) ==
    IF EncValueOk(TRUE, o.encoder)
    THEN [o EXCEPT !.encoder = EncValue(TRUE, @), !.emit = Append(@, "value"),
                   !.spill = TRUE]
    ELSE Fail(o)

EncoderBegin(kind, o) ==
    IF EncValueOk(TRUE, o.encoder)
    THEN [o EXCEPT !.encoder = EncBegin(TRUE, kind, @),
                   !.emit = Append(@, Opener(kind)), !.spill = TRUE]
    ELSE Fail(o)

EncoderKey(o) ==
    IF EncKeyOk(TRUE, o.encoder)
    THEN [o EXCEPT !.encoder = EncEntry(TRUE, @),
                   !.emit = @ \o EntrySeparator(o.encoder) \o <<"key">>]
    ELSE Fail(o)

EncoderEnd(kind, o) ==
    IF EncEndOk(TRUE, kind, o.encoder)
    THEN [o EXCEPT !.encoder = EncEnd(@), !.emit = Append(@, Closer(kind)),
                   !.spill = TRUE]
    ELSE Fail(o)

-----------------------------------------------------------------------------
(* The handlers.                                                           *)

\* The first half of prepare_value and prepare_container: inside an array
\* both checkers take a separator first.
PrepareEntry(o) ==
    IF InArray(o.structure) THEN Try(StructSeparator(o), EncoderSeparator) ELSE o

Scalar(o) == Try(Try(PrepareEntry(o), StructValue), EncoderValue)

\* write_f64 refuses a non-finite number before the encoder's start_value.
NonFinite(o) == Fail(Try(PrepareEntry(o), StructValue))

\* Mutant: the encoder opens the container before the structure is asked.
BeginEncoderFirst(kind, o) ==
    LET Enc(x) == EncoderBegin(kind, x)
        Str(x) == StructBegin(kind, x)
    IN  Try(Try(PrepareEntry(o), Enc), Str)

BeginContainer(kind, o) ==
    LET Str(x) == StructBegin(kind, x)
        Enc(x) == EncoderBegin(kind, x)
    IN  Try(Try(PrepareEntry(o), Str), Enc)

ObjectKey(o) == Try(StructKey(o), EncoderKey)

EndContainer(kind, o) ==
    LET Enc(x) == EncoderEnd(kind, x) IN Try(StructEnd(kind, o), Enc)

Handle(event, o) ==
    CASE event \in {"word", "text"} -> Scalar(o)
      [] event = "nonfinite"        -> NonFinite(o)
      [] event = "begin_array"      -> BeginContainer("array", o)
      [] event = "begin_object"     -> BeginContainer("object", o)
      [] event = "end_array"        -> EndContainer("array", o)
      [] event = "end_object"       -> EndContainer("object", o)
      [] event = "object_key"       -> ObjectKey(o)

\* The event as the token the document shows for it.
EventToken(event) ==
    CASE event \in {"word", "text"} -> "value"
      [] event = "object_key"       -> "key"
      [] event = "begin_array"      -> "["
      [] event = "end_array"        -> "]"
      [] event = "begin_object"     -> "{"
      [] event = "end_object"       -> "}"

-----------------------------------------------------------------------------
Init ==
    /\ structure = NewState
    /\ encoder = NewEncoder
    /\ out = NewOut
    /\ call = [event |-> "none", answer |-> "ok"]
    /\ status = "open"
    /\ emitted = <<>>
    /\ accepted = <<>>
    /\ calls = 0
    /\ caller \in Callers

CanCall == status = "open" /\ calls < MaxCalls[caller]

\* Ok, an event refused, or an error of the writer.
Answers == {"ok", "refused", "io"}

Answer(valid, written) == IF ~written THEN "io" ELSE IF valid THEN "ok" ELSE "refused"

\* The call returns: its result, and what a caller makes of an error.
Return(event, answer) ==
    /\ call' = [event |-> event, answer |-> answer]
    /\ status' = IF \/ answer = "ok"
                    \/ answer = "refused" /\ caller = "careless"
                    \/ caller = "persistent"
                 THEN "open" ELSE "stopped"
    /\ calls' = calls + 1
    /\ UNCHANGED caller

\* One EventSink call.
Event(event) ==
    /\ CanCall
    /\ LET o == Handle(event, Start)
           filled == Put(out, o.emit)
       IN  /\ structure' = o.structure
           /\ encoder' = o.encoder
           /\ emitted' = emitted \o o.emit
           /\ \E w \in IF o.spill THEN MaybeFlush(filled) ELSE {Settled(filled)} :
                 /\ out' = w.out
                 /\ Return(event, Answer(o.ok, w.ok))
                 /\ accepted' = IF o.ok /\ w.ok THEN Append(accepted, EventToken(event))
                                ELSE accepted

\* finish(self): both checkers must agree that one root value is complete,
\* then the buffer is written out.  The sink is consumed either way.
Finish ==
    /\ status = "open"
    /\ LET complete == FinishOk(structure) /\ EncFinishOk(TRUE, encoder)
       IN  \E w \in IF complete THEN Flush(out) ELSE {[out |-> out, ok |-> FALSE]} :
              /\ out' = w.out
              /\ call' = [event |-> "finish", answer |-> IF complete THEN Answer(TRUE, w.ok) ELSE "refused"]
              /\ status' = IF w.ok THEN "done" ELSE "rejected"
    /\ UNCHANGED <<structure, encoder, emitted, accepted, calls, caller>>

Next == (\E event \in Events : Event(event)) \/ Finish

Spec == Init /\ [][Next]_vars

-----------------------------------------------------------------------------
(* Properties.                                                             *)

(* Types, and the shape of the two frame stacks: a container that was      *)
(* pushed consumed the slot of the container around it (start_value and    *)
(* EventState::value run before every push).                               *)
TypeOK ==
    /\ structure \in States /\ OnlyTopDue(structure.frames)
    /\ encoder \in Encoders /\ OnlyTopDue(encoder.frames)
    /\ out \in [buf : Seq(JsonTokens), wire : Seq(JsonTokens)]
    /\ call \in [event : Events \cup {"none", "finish"}, answer : Answers]
    /\ status \in {"open", "stopped", "done", "rejected"}
    /\ emitted \in Seq(JsonTokens)
    /\ accepted \in Seq(JsonTokens)
    /\ calls \in 0 .. MaxCalls[caller]
    /\ caller \in Callers

\* The two checkers describe the same open containers, owe the same value
\* and agree on the root; no array is half way through an element.
InStep(s, e) ==
    /\ Len(s.frames) = Len(e.frames)
    /\ s.root = e.root
    /\ \A i \in 1 .. Len(s.frames) :
          /\ s.frames[i].kind = e.frames[i].kind
          /\ s.frames[i].due <=> e.frames[i].due
          /\ s.frames[i].due => i = Len(s.frames) /\ s.frames[i].kind = "object"

(* After any number of calls that all returned Ok the two checkers agree,  *)
(* so an event one of them accepts is accepted by the other                *)
(* (prepare_value and prepare_container advance them one after the other). *)
Lockstep ==
    caller = "careful" /\ status \in {"open", "done"} => InStep(structure, encoder)

\* The place of the i-th token among those that are not commas.
Place(tokens, i) == Cardinality({j \in 1 .. i : tokens[j] # ","})

\* Commas aside, the tokens are exactly those of said, in order.
CommasAside(tokens, said) ==
    /\ Len(said) = Place(tokens, Len(tokens))
    /\ \A i \in 1 .. Len(tokens) :
          tokens[i] # "," => tokens[i] = said[Place(tokens, i)]

(* What left the sink is what the accepted events say: until the writer    *)
(* fails, buffer and wire together, commas aside, are exactly the tokens   *)
(* of the calls that returned Ok, whatever a careless caller does; an      *)
(* event that is refused leaves nothing half-written behind.               *)
OutputIsAccepted ==
    caller # "persistent" /\ call.answer # "io" => CommasAside(out.wire \o out.buf, accepted)

(* The writer never receives a byte twice or out of order: with a caller   *)
(* that drops the sink once the writer failed, what the writer took is a   *)
(* prefix of everything emitted, and all of it once finish returned Ok     *)
(* (maybe_flush, finish).                                                  *)
WireIsPrefix ==
    caller # "persistent" =>
        /\ IsPrefix(out.wire, emitted)
        /\ status = "done" => out.wire = emitted

\* How many tokens of s stand in t, one behind the other: Len(s) if t is s
\* with other tokens in between.
Found(s, t) ==
    LET Match(n, token) == IF n < Len(s) /\ s[n + 1] = token THEN n + 1 ELSE n
    IN  FoldLeft(Match, 0, t)

(* A caller that goes on behind an error of the writer may deliver a part  *)
(* of the buffer twice, for it is kept whole, but loses nothing: wire and  *)
(* buffer hold everything emitted, in order, whenever and after however    *)
(* much the writer fails; and what is still to write is the end of it.     *)
NothingIsLost ==
    /\ IsSuffix(out.buf, emitted)
    /\ Found(emitted, out.wire \o out.buf) = Len(emitted)

\* The last token of a value.
ValueEnds == {"value", "]", "}"}

\* The i-th token stands where RFC 8259 lets it stand: a value is the root,
\* or behind a key, or an element of an array; keys and commas are those of
\* the container around them; a container closes behind an entry or empty.
Follows(s, i) ==
    CASE s[i] \in {"value", "[", "{"} ->
            \/ i = 1
            \/ s[i - 1] = "key"
            \/ StandsIn(s, i, "[") /\ s[i - 1] \in {"[", ","}
      [] s[i] = "key" -> StandsIn(s, i, "{") /\ s[i - 1] \in {"{", ","}
      [] s[i] = ","   -> (StandsIn(s, i, "[") \/ StandsIn(s, i, "{")) /\ s[i - 1] \in ValueEnds
      [] s[i] = "]"   -> StandsIn(s, i, "[") /\ s[i - 1] \in {"["} \cup ValueEnds
      [] s[i] = "}"   -> StandsIn(s, i, "{") /\ s[i - 1] \in {"{"} \cup ValueEnds

\* One JSON value: every token in its place, every container closed.
IsJsonDocument(s) ==
    /\ s # <<>>
    /\ OpenAt(s, Len(s)) = 0
    /\ \A i \in 1 .. Len(s) : Follows(s, i)

(* finish returns Ok only when the writer holds one well-formed JSON       *)
(* document - also for a caller that ignored errors on the way and went    *)
(* on, because the encoder behind the EventState refuses, without effect,  *)
(* what the EventState let through after an error.  Of a caller that       *)
(* ignored an error of the writer it is what was emitted.                  *)
FinishedIsDocument ==
    status = "done" => IsJsonDocument(IF caller = "persistent" THEN emitted ELSE out.wire)

(* To a careful caller JsonSink implements the EventSink contract.  A sink *)
(* whose caller stopped, or that was consumed, holds nothing the contract  *)
(* speaks of; of the other callers it does not speak.                      *)
Live == status = "open" /\ caller = "careful"

Sink == INSTANCE EventSink WITH
    stack  <- IF Live THEN [i \in 1 .. Len(structure.frames) |-> structure.frames[i].kind]
              ELSE <<>>,
    keyed  <- Live /\ InObject(structure) /\ Top(structure).due,
    root   <- caller = "careful" /\ status \in {"open", "done"} /\ structure.root,
    call   <- IF caller = "careful" THEN call ELSE [event |-> "none", answer |-> "ok"],
    status <- CASE caller # "careful" -> "open"
                [] caller = "careful" -> IF status = "rejected" THEN "stopped" ELSE status

ImplementsEventSink == Sink!Spec
=============================================================================
