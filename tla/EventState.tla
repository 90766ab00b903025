----------------------------- MODULE EventState -----------------------------
(***************************************************************************)
(* The event-protocol state machine of nextjson/src/event_state.rs, shared *)
(* by ser::CheckedEncoder, cross_format::JsonSink and                      *)
(* cross_format::CborSink.                                                 *)
(*                                                                         *)
(* A protocol state st is [frames |-> stack of open containers, root |->   *)
(* whether the root value was started].  A method that returns Result is   *)
(* two operators: XOk(st), the condition under which it returns Ok, and    *)
(* X(st), the state it leaves.  A method that fails leaves st alone, with  *)
(* one exception: End pops the frame before it looks at it.                *)
(*                                                                         *)
(* Frame::Array { ready } and Frame::Object { pending_value } both say     *)
(* that a value is owed to the container (after a separator, or after a    *)
(* key); the field is called due for both.                                 *)
(***************************************************************************)
EXTENDS Naturals, Sequences, SequencesExt

Kinds == {"array", "object"}

Frame == [kind : Kinds, due : BOOLEAN]

States == [frames : Seq(Frame), root : BOOLEAN]

NewState == [frames |-> <<>>, root |-> FALSE]

AtRoot(st) == st.frames = <<>>

Top(st) == Last(st.frames)

InArray(st) == ~AtRoot(st) /\ Top(st).kind = "array"

InObject(st) == ~AtRoot(st) /\ Top(st).kind = "object"

SetDue(st, b) == [st EXCEPT !.frames[Len(st.frames)].due = b]

-----------------------------------------------------------------------------
(* value(): sep is the separators field, TRUE for JSON-like destinations   *)
(* whose array elements wait for a separator.                              *)

\* Mutant: the root may be written any number of times.
ValueOkManyRoots(sep, st) ==
    \/ AtRoot(st)
    \/ ~AtRoot(st) /\ (Top(st).due \/ (InArray(st) /\ ~sep))

ValueOk(sep, st) ==
    \/ AtRoot(st) /\ ~st.root
    \/ ~AtRoot(st) /\ Top(st).due
    \/ InArray(st) /\ ~sep

Value(st) == IF AtRoot(st) THEN [st EXCEPT !.root = TRUE] ELSE SetDue(st, FALSE)

SeparatorOk(st) == InArray(st) /\ ~Top(st).due

Separator(st) == SetDue(st, TRUE)

\* Mutant: the push forgets to consume the slot of the enclosing container.
BeginKeepsDue(kind, st) ==
    [st EXCEPT !.frames = Append(@, [kind |-> kind, due |-> FALSE]), !.root = TRUE]

\* begin() is value() followed by a push of a frame that owes nothing.
Begin(kind, st) ==
    [Value(st) EXCEPT !.frames = Append(@, [kind |-> kind, due |-> FALSE])]

\* Mutant: a second key may follow a key.
KeyOkTwice(st) == InObject(st)

KeyOk(st) == InObject(st) /\ ~Top(st).due

Key(st) == SetDue(st, TRUE)

\* Mutant: an object may close on a key that has no value.
EndOkWhileDue(kind, st) == ~AtRoot(st) /\ Top(st).kind = kind

EndOk(kind, st) == ~AtRoot(st) /\ Top(st).kind = kind /\ ~Top(st).due

\* end() pops first: the frame is gone even when EndOk is FALSE.
End(st) == IF AtRoot(st) THEN st ELSE [st EXCEPT !.frames = Front(@)]

FinishOk(st) == st.root /\ AtRoot(st)

-----------------------------------------------------------------------------
\* The representation invariant of the frame stacks: only the innermost
\* container can be owed a value.
OnlyTopDue(frames) == \A i \in 1 .. Len(frames) - 1 : ~frames[i].due
=============================================================================
