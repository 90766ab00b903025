------------------------------ MODULE CborSink ------------------------------
(***************************************************************************)
(* cross_format::CborSink: an EventSink that writes indefinite-length CBOR *)
(* and has one checker, an EventState without separators.  Every handler   *)
(* asks the EventState first and pushes bytes after; a string, a key and a *)
(* float are pushed in two writes (head, then payload), each of which may  *)
(* flush and fail.                                                         *)
(***************************************************************************)
EXTENDS Encoder

CONSTANTS
    Offered,        (* the events callers send                             *)
    Callers,        (* the callers there are: a careful one drops the sink *)
                    (* at the first error, a careless one goes on after an *)
                    (* event was refused                                   *)
    MaxCalls        (* bound: calls made to one sink                       *)

Events == {"word", "text", "nonfinite", "begin_array", "end_array",
           "begin_object", "object_key", "end_object"}

ASSUME CborSinkAssumption ==
    /\ Offered \subseteq Events
    /\ Callers \subseteq {"careful", "careless"}
    /\ MaxCalls \in Nat

VARIABLES
    structure,      (* CborSink.structure: the EventState                  *)
    out,            (* CborSink.buffer, and what the writer received       *)
    call,           (* the last call and whether it returned Ok            *)
    status,         (* open, stopped (by the caller), done, rejected       *)
    emitted,        (* history: the tokens of the events that were checked *)
    calls,          (* number of calls made                                *)
    caller          (* who calls                                           *)

vars == <<structure, out, call, status, emitted, calls, caller>>

\* 0x9f and 0xbf open, 0xff closes either; a key is a text string.
CborTokens == {"word", "head", "body", "9f", "bf", "ff"}

\* The writes of a handler, in order.
Writes(event) ==
    CASE event = "word"                       -> <<"word">>
      [] event \in {"text", "object_key"}     -> <<"head", "body">>
      [] event = "nonfinite"                  -> <<>>
      [] event = "begin_array"                -> <<"9f">>
      [] event = "begin_object"               -> <<"bf">>
      [] event \in {"end_array", "end_object"} -> <<"ff">>

Kind(event) == IF event \in {"begin_array", "end_array"} THEN "array" ELSE "object"

\* The call on the EventState: whether it returned Ok, and what it left.
Checked(event) ==
    LET Outcome(ok, st) == [ok |-> ok, next |-> IF ok THEN st ELSE structure]
    IN CASE event \in {"word", "text", "nonfinite"} ->
               Outcome(ValueOk(FALSE, structure), Value(structure))
         [] event \in {"begin_array", "begin_object"} ->
               Outcome(ValueOk(FALSE, structure), Begin(Kind(event), structure))
         [] event = "object_key" ->
               Outcome(KeyOk(structure), Key(structure))
         [] event \in {"end_array", "end_object"} ->
               [ok |-> EndOk(Kind(event), structure), next |-> End(structure)]

\* push / extend: append, then maybe_flush.
Push(o, token) == MaybeFlush(Put(o, <<token>>))

\* Every way the writes can end, stopping at the first that fails.
PushAll(o, tokens) ==
    CASE tokens = <<>>    -> {Settled(o)}
      [] Len(tokens) = 1  -> Push(o, tokens[1])
      [] OTHER            -> UNION {IF w.ok THEN Push(w.out, tokens[2]) ELSE {w} :
                                       w \in Push(o, tokens[1])}

-----------------------------------------------------------------------------
Init ==
    /\ structure = NewState
    /\ out = NewOut
    /\ call = [event |-> "none", answer |-> "ok"]
    /\ status = "open"
    /\ emitted = <<>>
    /\ calls = 0
    /\ caller \in Callers

Answers == {"ok", "refused", "io"}

Answer(valid, written) == IF ~written THEN "io" ELSE IF valid THEN "ok" ELSE "refused"

Return(event, answer) ==
    /\ call' = [event |-> event, answer |-> answer]
    /\ status' = IF answer = "ok" \/ (answer = "refused" /\ caller = "careless")
                 THEN "open" ELSE "stopped"
    /\ calls' = calls + 1
    /\ UNCHANGED caller

\* One EventSink call.
Event(event) ==
    /\ status = "open" /\ calls < MaxCalls
    /\ LET checked == Checked(event)
           tokens == IF checked.ok THEN Writes(event) ELSE <<>>
       IN  /\ structure' = checked.next
           /\ emitted' = emitted \o tokens
           /\ \E w \in PushAll(out, tokens) :
                 /\ out' = w.out
                 /\ Return(event, Answer(checked.ok /\ event # "nonfinite", w.ok))

\* finish(self): the EventState alone decides whether the value is complete.
Finish ==
    /\ status = "open"
    /\ \E w \in IF FinishOk(structure) THEN Flush(out) ELSE {[out |-> out, ok |-> FALSE]} :
          /\ out' = w.out
          /\ call' = [event |-> "finish",
                      answer |-> IF FinishOk(structure) THEN Answer(TRUE, w.ok) ELSE "refused"]
          /\ status' = IF w.ok THEN "done" ELSE "rejected"
    /\ UNCHANGED <<structure, emitted, calls, caller>>

Next == (\E event \in Offered : Event(event)) \/ Finish

Spec == Init /\ [][Next]_vars

-----------------------------------------------------------------------------
(* Properties.                                                             *)

(* The writer never receives a byte twice or out of order as long as the   *)
(* caller drops the sink once the writer failed: what the writer took is a *)
(* prefix of what the accepted events wrote, and all of it once finish     *)
(* returned Ok.                                                            *)
WireIsPrefix ==
    /\ IsPrefix(out.wire, emitted)
    /\ status = "done" => out.wire = emitted

\* A string is a head and a body; anything but a body or a break begins an item.
Begins == {"word", "head", "9f", "bf"}

\* How many items the container begun at h holds in front of the i-th token.
ItemsBegun(s, h, i) ==
    Cardinality({j \in h + 1 .. i - 1 : s[j] \in Begins /\ OpenAt(s, j - 1) = OpenAt(s, h)})

\* The i-th token stands where RFC 8949 lets it stand: a body behind its
\* head; an item is the root, or in an array, or in a map behind a key, or
\* the key itself; a break closes an array, or a map behind a value.
Follows(s, i) ==
    \/ s[i] = "body" /\ i > 1 /\ s[i - 1] = "head"
    \/ /\ i > 1 => s[i - 1] # "head"
       /\ \/ /\ s[i] \in Begins
             /\ \/ i = 1
                \/ StandsIn(s, i, "9f")
                \/ \E h \in Holders(s, i) :
                      s[h] = "bf" /\ (s[i] = "head" \/ ItemsBegun(s, h, i) % 2 = 1)
          \/ /\ s[i] = "ff"
             /\ \E h \in Holders(s, i) : s[h] = "bf" => ItemsBegun(s, h, i) % 2 = 0

\* One CBOR item: every token in its place, every container closed.
IsCborItem(s) ==
    /\ s # <<>>
    /\ OpenAt(s, Len(s)) = 0 /\ s[Len(s)] # "head"
    /\ \A i \in 1 .. Len(s) : Follows(s, i)

(* finish returns Ok only when the writer holds one well-formed CBOR item  *)
(* ("Validate completion", cross_format/cbor.rs).  Not so for a caller     *)
(* that ignored an error: end pops its frame, and number takes its slot,   *)
(* before they refuse.                                                     *)
FinishedIsItem == status = "done" /\ caller = "careful" => IsCborItem(out.wire)

(* To a careful caller CborSink implements the EventSink contract.         *)
Live == status = "open" /\ caller = "careful"

Sink == INSTANCE EventSink WITH
    stack  <- IF Live THEN [i \in 1 .. Len(structure.frames) |-> structure.frames[i].kind]
              ELSE <<>>,
    keyed  <- Live /\ InObject(structure) /\ Top(structure).due,
    root   <- caller = "careful" /\ status \in {"open", "done"} /\ structure.root,
    call   <- IF caller = "careful" THEN call ELSE [event |-> "none", answer |-> "ok"],
    status <- CASE caller = "careless" -> "open"
                [] caller = "careful"  -> IF status = "rejected" THEN "stopped" ELSE status

ImplementsEventSink == Sink!Spec
=============================================================================
