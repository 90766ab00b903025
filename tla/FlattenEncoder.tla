--------------------------- MODULE FlattenEncoder ---------------------------
(***************************************************************************)
(* private.rs, FlattenEncoder: what a flattened field is encoded into.  It *)
(* swallows the outermost begin_object and end_object of the value, and    *)
(* the rest reaches the encoder of the struct around it, which stands in   *)
(* an object between two members.  That encoder is a CheckedEncoder, or    *)
(* the FlattenEncoder of a flattened field one further out.                *)
(*                                                                         *)
(* An adapter is [depth, started, finished, pending], pending being its    *)
(* root_pending_value; an encoder is [adapters, the inner one first,       *)
(* outer, the EventState behind them, buf, frames].                        *)
(***************************************************************************)
EXTENDS EventState, WireBytes

Adapter(depth, started) ==
    [depth |-> depth, started |-> started, finished |-> FALSE, pending |-> FALSE]

NewAdapter == Adapter(0, FALSE)

\* One that is in the root object of the value it flattens.
Opened == Adapter(1, TRUE)

Outer == [frames |-> <<[kind |-> "object", due |-> FALSE]>>, root |-> TRUE]

NewFlatten(nested) ==
    [buf |-> <<>>, frames |-> <<>>, outer |-> Outer,
     adapters |-> IF nested THEN <<NewAdapter, Opened>> ELSE <<NewAdapter>>]

-----------------------------------------------------------------------------
(* A call at one adapter: ok, whether it goes on inward, and the adapter.  *)

Swallow(a) == [ok |-> TRUE, forward |-> FALSE, a |-> a]

Forward(a) == [ok |-> TRUE, forward |-> TRUE, a |-> a]

Stop(a) == [ok |-> FALSE, forward |-> FALSE, a |-> a]

\* start_value.
StartValue(a) ==
    IF ~a.started \/ a.finished \/ (a.depth = 1 /\ ~a.pending) THEN Stop(a)
    ELSE Forward([a EXCEPT !.pending = IF a.depth = 1 THEN FALSE ELSE @])

Deeper(r) == [r EXCEPT !.a.depth = IF r.ok THEN @ + 1 ELSE @]

\* Mutant: a root that has ended may begin again.
BeginAgain(a, kind) ==
    IF kind = "object" /\ a.depth = 0 THEN Swallow(Opened) ELSE Deeper(StartValue(a))

BeginAt(a, kind) ==
    IF kind = "object" /\ ~a.started THEN Swallow(Opened) ELSE Deeper(StartValue(a))

KeyAt(a) ==
    IF ~a.started \/ a.finished \/ a.depth = 0 \/ (a.depth = 1 /\ a.pending) THEN Stop(a)
    ELSE Forward([a EXCEPT !.pending = a.depth = 1])

\* Mutant: the end of the flattened object goes on inward.
EndForwarded(a, kind) ==
    IF a.depth <= 1 /\ (kind = "array" \/ a.depth = 0 \/ a.pending) THEN Stop(a)
    ELSE Forward([a EXCEPT !.depth = @ - 1, !.finished = a.depth = 1])

\* An array is never the root; the object that is ends without a sound.
EndAt(a, kind) ==
    IF a.depth <= 1 /\ (kind = "array" \/ a.depth = 0 \/ a.pending) THEN Stop(a)
    ELSE IF a.depth = 1 THEN Swallow([a EXCEPT !.depth = 0, !.finished = TRUE])
    ELSE Forward([a EXCEPT !.depth = @ - 1])

SeparatorAt(a) == IF a.depth <= 1 THEN Stop(a) ELSE Forward(a)

\* write_some: of the root value itself it says nothing.
SomeAt(a) ==
    IF a.finished \/ (a.started /\ a.depth = 1 /\ ~a.pending) THEN Stop(a)
    ELSE IF a.started THEN Forward(a) ELSE Swallow(a)

-----------------------------------------------------------------------------
\* The call passes the adapters inward, one or two, if they forward it.
Through(At(_), adapters) ==
    LET first == At(adapters[1])
        second == At(adapters[2])
    IN  IF Len(adapters) = 1 \/ ~first.forward
        THEN [ok |-> first.ok, forward |-> first.forward,
              adapters |-> [adapters EXCEPT ![1] = first.a]]
        ELSE [ok |-> second.ok, forward |-> second.forward,
              adapters |-> <<first.a, second.a>>]

\* What arrives is checked and recorded.
Pass(e, At(_), allowed, outer, byte) ==
    LET r == Through(At, e.adapters)
    IN  IF ~r.ok \/ (r.forward /\ ~allowed) THEN Refused(e)
        ELSE IF ~r.forward THEN Done([e EXCEPT !.adapters = r.adapters])
        ELSE Done(Push([e EXCEPT !.adapters = r.adapters, !.outer = outer], byte))

EndByte(kind) == Plain(IF kind = "array" THEN "end" ELSE "end_object")

BeginContainer(e, kind) ==
    Pass(e, LAMBDA a : BeginAt(a, kind), ValueOk(TRUE, e.outer), Begin(kind, e.outer), <<Plain(kind)>>)

PutSeparator(e) ==
    Pass(e, SeparatorAt, SeparatorOk(e.outer), Separator(e.outer), <<Plain("separator")>>)

PutKey(e, key) == Pass(e, KeyAt, KeyOk(e.outer), Key(e.outer), <<Plain(key)>>)

EndContainer(e, kind) ==
    Pass(e, LAMBDA a : EndAt(a, kind), EndOk(kind, e.outer), End(e.outer), <<EndByte(kind)>>)

Scalar(e, call) == Pass(e, StartValue, ValueOk(TRUE, e.outer), Value(e.outer), <<Plain(call)>>)

\* The codecs have no bytes for a Some.
Some(e) == Pass(e, SomeAt, TRUE, e.outer, <<>>)

\* finish of the inner adapter.
Finish(e) ==
    LET a == e.adapters[1]
    IN  IF a.started /\ a.finished /\ a.depth = 0 /\ ~a.pending THEN Done(e) ELSE Refused(e)
=============================================================================
