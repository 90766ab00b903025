------------------------------- MODULE Relay -------------------------------
(***************************************************************************)
(* cross_format: a document goes from a reader into an EventSink, event by *)
(* event and without a value in between.  relay_json_value (mod.rs) asks   *)
(* the JSON Decoder over a slice, CborReader (cbor.rs) reads the cells of  *)
(* CBOR itself.  The recursion of both is the stack loops.  The first      *)
(* error ends the relay; where it left the reader no caller can see.       *)
(*                                                                         *)
(* The sink is what EventSink promises: an EventState whose arrays take    *)
(* values without separators, and a writer that may fail at any event.     *)
(* A CBOR cell is a scalar, a container header with its count ("[2") or    *)
(* without one ("[*") or with one that cannot be read ("[?": reserved, or  *)
(* cut off by the end of the input), an indefinite text ("text*"), a break *)
(* ("end"), a bignum tag ("tag"), a byte string ("bin"), or what JSON      *)
(* cannot hold ("other": another tag or simple value, a number that is not *)
(* finite).                                                                *)
(***************************************************************************)
EXTENDS EventState, Pull

CONSTANTS
    SinkFails,  (* whether the sink's writer may fail                      *)
    Inputs      (* what is relayed: [source, text]                         *)

ASSUME RelayAssumption ==
    /\ SinkFails \in BOOLEAN
    /\ \A i \in Inputs : i.source \in {"json", "cbor"} /\ i.text \in Seq(STRING)

VARIABLES
    source,     (* json or cbor                                            *)
    text,       (* the input                                               *)
    c,          (* the reader's position, lookahead and depth              *)
    loops,      (* the open containers, innermost last: [kind, left, open],*)
                (* left and open as in the header of a CBOR container      *)
    phase,      (* item: a value is next; more: the head of the innermost  *)
                (* loop; after: behind an item; close: the loop is over    *)
    sink,       (* the EventState of the sink                              *)
    heard,      (* the events the sink accepted                            *)
    stage       (* running; ok; err: the reader refused; refused: the sink *)
                (* did; io: its writer failed                              *)

vars == <<source, text, c, loops, phase, sink, heard, stage>>

Json == INSTANCE BytesReader

-----------------------------------------------------------------------------
(* Events, and what the sink makes of them.                                *)

\* says: what a scalar or a key is made of.
Event(event, kind, says) == [event |-> event, kind |-> kind, says |-> says]

ScalarEvent(says) == Event("scalar", "none", says)

BeginEvent(kind) == Event("begin", kind, <<>>)

EndEvent(kind) == Event("end", kind, <<>>)

\* Mutant: a key is relayed as a string.
KeyAsString(says) == ScalarEvent(says)

KeyEvent(says) == Event("object_key", "none", says)

Accepts(e) ==
    CASE e.event \in {"scalar", "begin"} -> ValueOk(FALSE, sink)
      [] e.event = "object_key" -> KeyOk(sink)
      [] e.event = "end" -> EndOk(e.kind, sink)

Heard(e) ==
    CASE e.event = "scalar" -> Value(sink)
      [] e.event = "begin" -> Begin(e.kind, sink)
      [] e.event = "object_key" -> Key(sink)
      [] e.event = "end" -> End(sink)

Stop(how) == stage' = how /\ UNCHANGED <<c, loops, phase, sink, heard>>

\* The sink is told; if it returns Ok the relay has got there.
Tell(e, k, todo, next, then) ==
    IF ~Accepts(e) THEN Stop("refused")
    ELSE \/ /\ c' = k /\ loops' = todo /\ phase' = next
            /\ sink' = Heard(e)
            /\ heard' = Append(heard, e)
            /\ stage' = then
         \/ SinkFails /\ Stop("io")

\* And goes on.
Send(e, k, todo, next) == Tell(e, k, todo, next, "running")

\* Nothing to tell.
Continue(k, todo, next) ==
    /\ c' = k /\ loops' = todo /\ phase' = next
    /\ UNCHANGED <<sink, heard, stage>>

Working(where, at) == stage = "running" /\ source = where /\ phase = at

InLoop == loops # <<>>

Innermost == Last(loops)

Nested(kind, left, open) == Append(loops, [kind |-> kind, left |-> left, open |-> open])

KindOf(opener) == IF opener = "[" THEN "array" ELSE "object"

-----------------------------------------------------------------------------
(* relay_json_value.                                                       *)

Opening == IF Innermost.kind = "array" THEN "[" ELSE "{"

Begun(k, opener) == LET Read(x) == Json!Next(text, x) IN BeginWith(Read, k, opener)

Ended == LET Read(x) == Json!Next(text, x) IN EndWith(Read, c, CloserOf[Opening])

\* Peek, then the call for that kind of token; a closer is no value.
JsonItem ==
    /\ Working("json", "item")
    /\ \E p \in Json!Peek(text, c) :
          CASE ~p.ok \/ p.got \in Closers -> Stop("err")
            [] p.ok /\ p.got \in Openers ->
                  \E o \in Begun(p.c, p.got) :
                      IF o.ok THEN Send(BeginEvent(KindOf(p.got)), o.c,
                                        Nested(KindOf(p.got), 0, TRUE), "more")
                      ELSE Stop("err")
            [] OTHER ->
                  \E o \in Json!Next(text, p.c) : Send(ScalarEvent(<<p.got>>), o.c, loops, "after")

\* Mutant: the loop over elements does not end with them.
JsonElementOnward ==
    /\ Working("json", "more") /\ InLoop /\ Innermost.kind = "array"
    /\ \E o \in Json!HasMore(text, c) :
          IF o.ok THEN Continue(o.c, loops, IF o.got THEN "item" ELSE "more") ELSE Stop("err")

JsonElement ==
    /\ Working("json", "more") /\ InLoop /\ Innermost.kind = "array"
    /\ \E o \in Json!HasMore(text, c) :
          IF o.ok THEN Continue(o.c, loops, IF o.got THEN "item" ELSE "close") ELSE Stop("err")

JsonMember ==
    /\ Working("json", "more") /\ InLoop /\ Innermost.kind = "object"
    /\ \E o \in Json!ObjectKey(text, c) :
          IF ~o.ok THEN Stop("err")
          ELSE IF o.got = NoToken THEN Continue(o.c, loops, "close")
          ELSE Send(KeyEvent(<<o.got>>), o.c, loops, "item")

JsonSeparator ==
    /\ Working("json", "after") /\ InLoop
    /\ \E o \in Json!EntrySep(text, c, CloserOf[Opening]) :
          IF o.ok THEN Continue(o.c, loops, IF o.got THEN "more" ELSE "close") ELSE Stop("err")

\* end_array, end_object: the reader's, then the sink's.
JsonClose ==
    /\ Working("json", "close") /\ InLoop
    /\ \E o \in Ended :
          IF o.ok THEN Send(EndEvent(Innermost.kind), o.c, Front(loops), "after") ELSE Stop("err")

\* json_into: nothing follows the value.
JsonFinish ==
    /\ Working("json", "after") /\ ~InLoop
    /\ \E o \in Json!End(text, c) : Stop(IF o.ok THEN "ok" ELSE "err")

-----------------------------------------------------------------------------
(* CborReader.                                                             *)

Cell == At(text, c.pos)

Beyond(n) == [c EXCEPT !.pos = @ + n]

Counts == [cell \in {"[0", "{0", "[1", "{1", "[2", "{2"} |->
            CASE cell \in {"[0", "{0"} -> 0 [] cell \in {"[1", "{1"} -> 1 [] OTHER -> 2]

Arrays == {"[0", "[1", "[2", "[*", "[?"}

Unreadable == {"[?", "{?"}

Headers == DOMAIN Counts \cup {"[*", "{*"} \cup Unreadable

CborScalars == Strings \cup Numbers \cup {"null"}

\* Mutant: the chunks of an indefinite text are looked for everywhere.
PiecesAnywhere == {i \in 1 .. Len(text) : text[i] \in Strings}

\* The chunks behind "text*": definite texts, as many as there are.
Chunks ==
    {i \in c.pos + 1 .. Len(text) : \A j \in c.pos + 1 .. i : text[j] \in Strings}

\* text: the cells a text takes with its terminator, 0 if it is none.
TextLength ==
    IF Cell \in Strings THEN 1
    ELSE IF Cell = "text*" /\ At(text, c.pos + 1 + Cardinality(Chunks)) = "end"
    THEN Cardinality(Chunks) + 2
    ELSE 0

Says == IF Cell \in Strings THEN <<Cell>> ELSE [i \in 1 .. Cardinality(Chunks) |-> text[c.pos + i]]

CborScalar ==
    /\ Working("cbor", "item")
    /\ \/ Cell \in CborScalars /\ Send(ScalarEvent(<<Cell>>), Beyond(1), loops, "more")
       \/ Cell = "text*" /\ TextLength # 0 /\ Send(ScalarEvent(Says), Beyond(TextLength), loops, "more")
       \/ /\ Cell = "tag" /\ At(text, c.pos + 1) = "bin"
          /\ Send(ScalarEvent(<<"big">>), Beyond(2), loops, "more")

\* enter, then the sink's begin, and only then the argument of the header.
CborBegin ==
    /\ Working("cbor", "item") /\ Cell \in Headers
    /\ IF ~MayEnter(c.depth) THEN Stop("err")
       ELSE LET kind == IF Cell \in Arrays THEN "array" ELSE "object"
                counted == Cell \in DOMAIN Counts
            IN  Tell(BeginEvent(kind), [Beyond(1) EXCEPT !.depth = @ + 1],
                     Nested(kind, IF counted THEN Counts[Cell] ELSE 0, ~counted), "more",
                     IF Cell \in Unreadable THEN "err" ELSE "running")

CborRefuse ==
    /\ Working("cbor", "item")
    /\ \/ Cell \in {"eof", "end", "bin", "other"}
       \/ Cell = "text*" /\ TextLength = 0
       \/ Cell = "tag" /\ At(text, c.pos + 1) # "bin"
    /\ Stop("err")

Over == IF Innermost.open THEN Cell = "end" ELSE Innermost.left = 0

\* One round less of a counted loop.
Round == IF Innermost.open THEN loops ELSE [loops EXCEPT ![Len(loops)].left = @ - 1]

CborElement ==
    /\ Working("cbor", "more") /\ InLoop /\ ~Over /\ Innermost.kind = "array"
    /\ Continue(c, Round, "item")

CborMember ==
    /\ Working("cbor", "more") /\ InLoop /\ ~Over /\ Innermost.kind = "object"
    /\ IF TextLength = 0 THEN Stop("err")
       ELSE Send(KeyEvent(Says), Beyond(TextLength), Round, "item")

\* Mutant: the depth is given back at a break only.
LeftOpen == IF Innermost.open THEN [Beyond(1) EXCEPT !.depth = GiveBack(@)] ELSE c

\* Mutant: the break is left for the container around.
LeftBreak == [c EXCEPT !.depth = GiveBack(@)]

\* leave, behind the break if there is one.
Left == [Beyond(IF Innermost.open THEN 1 ELSE 0) EXCEPT !.depth = GiveBack(@)]

CborEnd ==
    /\ Working("cbor", "more") /\ InLoop /\ Over
    /\ Send(EndEvent(Innermost.kind), Left, Front(loops), "more")

\* cbor_into_with_max_depth: nothing follows the item.
CborFinish ==
    /\ Working("cbor", "more") /\ ~InLoop
    /\ Stop(IF c.pos = Len(text) + 1 THEN "ok" ELSE "err")

-----------------------------------------------------------------------------
Init ==
    /\ \E i \in Inputs : source = i.source /\ text = i.text
    /\ c = Cursor(Len(text))
    /\ loops = <<>>
    /\ phase = "item"
    /\ sink = NewState
    /\ heard = <<>>
    /\ stage = "running"

RelayJson == JsonItem \/ JsonElement \/ JsonMember \/ JsonSeparator \/ JsonClose \/ JsonFinish

RelayCbor == CborScalar \/ CborBegin \/ CborRefuse \/ CborElement \/ CborMember \/ CborEnd \/ CborFinish

Next == (RelayJson \/ RelayCbor) /\ UNCHANGED <<source, text>>

Spec == Init /\ [][Next]_vars

FairSpec == Spec /\ WF_vars(Next)

-----------------------------------------------------------------------------
(* Properties.                                                             *)

\* The loops there are.
Loops == [kind : Kinds, left : Nat, open : BOOLEAN]

(* Whatever the input, the relay never tells the sink an event out of      *)
(* order, and when it returns Ok the sink has one complete value, so that  *)
(* finish (json_to_cbor, cbor_to_json) has nothing to refuse: an error is  *)
(* always the input's or the writer's.                                     *)
SinkNeverRefuses == stage # "refused" /\ (stage = "ok" => FinishOk(sink))

(* The depth that max_depth bounds is the number of containers open, in    *)
(* the reader and in the sink (enter and leave of CborReader stand in      *)
(* other places than the begin and end of the sink).                       *)
DepthIsOpen == c.depth = Len(loops) /\ Len(sink.frames) = Len(loops)

(* A relay ends, and a failed writer ends it at once.                      *)
Terminates == <>(stage # "running")
=============================================================================
