-------------------------- MODULE CborSink_proofs ---------------------------
(***************************************************************************)
(* CborSink for every threshold, every caller, any number of calls and any *)
(* choice of the events offered: what the writer receives, that CborSink   *)
(* implements EventSink, and that what it finishes is well-formed.         *)
(***************************************************************************)
EXTENDS CborSink, Encoder_proofs

\* A stack in which a value is owed to the innermost container only, and
\* only if that is an object: without separators no array is ever owed one.
OnlyKeysOwe(frames) ==
    /\ OnlyTopDue(frames)
    /\ \A i \in 1 .. Len(frames) : frames[i].due => frames[i].kind = "object"

Sound(s) == s \in States /\ OnlyKeysOwe(s.frames)

Typed ==
    /\ Sound(structure)
    /\ out \in Outs(CborTokens)
    /\ emitted \in Seq(CborTokens)
    /\ caller \in {"careful", "careless"}

-----------------------------------------------------------------------------
(* The call on the EventState.                                             *)

(* Every method leaves a sound stack, end even when it refuses.            *)
LEMMA MethodsAreSound ==
    ASSUME NEW s, Sound(s)
    PROVE  /\ Sound(Value(s))
           /\ Sound(End(s))
           /\ KeyOk(s) => Sound(Key(s))
           /\ \A kind \in Kinds : Sound(Begin(kind, s))
<1>. DEFINE n == Len(s.frames)
            v == Value(s)
<1>1. /\ s \in States /\ s \in Machine(Frame) /\ Slotted(Frame) /\ OnlyTopDue(s.frames)
      /\ \A i \in 1 .. n : s.frames[i].due => s.frames[i].kind = "object"
      /\ n \in Nat /\ States = Machine(Frame)
  BY FrameIsSlotted, LenProperties DEF Sound, OnlyKeysOwe, States
<1>2. /\ v \in States /\ OnlyTopDue(v.frames) /\ Len(v.frames) = n
      /\ \A i \in 1 .. n : /\ v.frames[i].kind = s.frames[i].kind
                           /\ i # n => v.frames[i] = s.frames[i]
                           /\ i = n => ~v.frames[i].due
  BY <1>1, ValueProperties, OnlyTopDueKept DEF DueIs
<1>. HIDE DEF v
<1>3. \A i \in 1 .. n : v.frames[i].due => v.frames[i].kind = "object"
  BY <1>1, <1>2
<1>4. Sound(v)
  BY <1>2, <1>3 DEF Sound, OnlyKeysOwe
<1>5. Sound(End(s))
  <2>1. CASE AtRoot(s)
    BY <2>1 DEF End
  <2>2. CASE ~AtRoot(s)
    <3>1. /\ End(s) \in States /\ OnlyTopDue(End(s).frames)
          /\ Len(End(s).frames) = n - 1
          /\ \A i \in 1 .. n - 1 : End(s).frames[i] = s.frames[i]
      BY <1>1, <2>2, EndProperties, OnlyTopDueKept
    <3>. QED
      BY <1>1, <3>1 DEF Sound, OnlyKeysOwe
  <2>. QED
    BY <2>1, <2>2
<1>6. ASSUME KeyOk(s)
      PROVE  Sound(Key(s))
  <2>. DEFINE t == SetDue(s, TRUE)
  <2>1. ~AtRoot(s) /\ Top(s).kind = "object"
    BY <1>6 DEF KeyOk, InObject
  <2>2. s.frames[n].kind = "object"
    BY <1>1, <2>1, TopIsLast
  <2>3. /\ t \in States /\ OnlyTopDue(t.frames) /\ Len(t.frames) = n
        /\ \A i \in 1 .. n : /\ t.frames[i].kind = s.frames[i].kind
                             /\ i # n => t.frames[i] = s.frames[i]
    <3>1. t \in States /\ DueIs(TRUE, s.frames, t.frames)
      BY <1>1, <2>1, SetDueProperties
    <3>2. OnlyTopDue(t.frames)
      BY <1>1, <2>1, OnlyTopDueKept
    <3>. QED
      BY <3>1, <3>2 DEF DueIs
  <2>. HIDE DEF t
  <2>4. \A i \in 1 .. n : t.frames[i].due => t.frames[i].kind = "object"
    BY <1>1, <2>2, <2>3
  <2>. QED
    BY <2>3, <2>4 DEF Sound, OnlyKeysOwe, Key, t
<1>7. ASSUME NEW kind \in Kinds
      PROVE  Sound(Begin(kind, s))
  <2>. DEFINE g == [kind |-> kind, due |-> FALSE]
              t == Begin(kind, s)
  <2>1. g \in Frame /\ g.due = FALSE
    BY DEF Frame
  <2>2. t = [v EXCEPT !.frames = Append(@, g)]
    BY DEF Begin, v
  <2>3. OnlyTopDue(t.frames)
    BY <1>1, <2>1, OnlyTopDueKept DEF Begin
  <2>. HIDE DEF g, t
  <2>4. t \in States /\ Pushed(g, v, t)
    BY <1>1, <1>2, <2>1, <2>2, PushProperties
  <2>5. /\ Len(t.frames) = n + 1 /\ t.frames[n + 1] = g
        /\ \A i \in 1 .. n : t.frames[i] = v.frames[i]
    BY <1>2, <2>4 DEF Pushed
  <2>6. \A i \in 1 .. n + 1 : t.frames[i].due => t.frames[i].kind = "object"
    BY <1>1, <1>3, <2>1, <2>5
  <2>. QED
    BY <2>3, <2>4, <2>5, <2>6 DEF Sound, OnlyKeysOwe, t
<1>. QED
  BY <1>4, <1>5, <1>6, <1>7 DEF v

(* The top of a sound stack that is owed a value is an object.             *)
LEMMA TopOwed ==
    ASSUME NEW s, Sound(s), ~AtRoot(s)
    PROVE  /\ Top(s).kind \in Kinds
           /\ Top(s).due => Top(s).kind = "object"
<1>1. s \in Machine(Frame)
  BY FrameIsSlotted DEF Sound
<1>2. /\ Len(s.frames) \in 1 .. Len(s.frames)
      /\ Top(s) = s.frames[Len(s.frames)] /\ Top(s) \in Frame
  BY <1>1, TopIsLast
<1>. QED
  BY <1>2 DEF Sound, OnlyKeysOwe, Frame

(* The check succeeds exactly on the events in order - and on a number     *)
(* that is not finite, where one is -, and moves the grammar.              *)
LEMMA CheckedMoves ==
    ASSUME Sound(structure), ~AtRoot(structure) => structure.root = TRUE, NEW event \in Events
    PROVE  LET valid == Checked(event).ok /\ event # "nonfinite"
           IN  /\ valid <=> InGrammar(event, structure)
               /\ valid => Moves(event, structure, Checked(event).next)
<1>. DEFINE s == structure
<1>1. s \in States /\ OnlyTopDue(s.frames) /\ s \in Machine(Frame)
  BY FrameIsSlotted DEF Sound, OnlyKeysOwe
<1>2. ValueOk(FALSE, s) <=> (AtRoot(s) /\ ~s.root) \/ InArray(s) \/ Owed(s)
  BY TopOwed DEF ValueOk, InArray, InObject, Owed, Kinds
<1>3. KeyOk(s) <=> InObject(s) /\ ~Owed(s)
  BY DEF KeyOk, Owed, InObject
<1>4. /\ EndOk("array", s) <=> InArray(s)
      /\ EndOk("object", s) <=> InObject(s) /\ ~Owed(s)
  BY TopOwed DEF EndOk, Owed, InObject, InArray
<1>5. CASE event \in {"word", "text"}
  BY <1>1, <1>2, <1>5, ValueShown DEF Checked, InGrammar, Moves
<1>6. CASE event = "nonfinite"
  BY <1>6 DEF InGrammar
<1>7. CASE event = "begin_array"
  BY <1>1, <1>2, <1>7, BeginShown DEF Checked, InGrammar, Moves, Kind, Kinds
<1>8. CASE event = "begin_object"
  BY <1>1, <1>2, <1>8, BeginShown DEF Checked, InGrammar, Moves, Kind, Kinds
<1>9. CASE event = "object_key"
  BY <1>1, <1>3, <1>9, KeyShown DEF Checked, InGrammar, Moves
<1>10. ASSUME ~AtRoot(s)
       PROVE  Shown(End(s)) = Front(Shown(s)) /\ ~Owed(End(s)) /\ End(s).root = TRUE
  BY <1>1, <1>10, ShownEnded, EndProperties
<1>11. CASE event = "end_array"
  <2>1. Checked(event) = [ok |-> EndOk("array", s), next |-> End(s)]
    BY <1>11 DEF Checked, Kind
  <2>2. InGrammar(event, s) <=> EndOk("array", s)
    BY <1>4, <1>11 DEF InGrammar
  <2>3. EndOk("array", s) => ~AtRoot(s)
    BY DEF EndOk
  <2>4. ~AtRoot(s) => Moves(event, s, End(s))
    BY <1>10, <1>11 DEF Moves
  <2>. QED
    BY <1>11, <2>1, <2>2, <2>3, <2>4
<1>12. CASE event = "end_object"
  <2>1. Checked(event) = [ok |-> EndOk("object", s), next |-> End(s)]
    BY <1>12 DEF Checked, Kind
  <2>2. InGrammar(event, s) <=> EndOk("object", s)
    BY <1>4, <1>12 DEF InGrammar
  <2>3. EndOk("object", s) => ~AtRoot(s)
    BY DEF EndOk
  <2>4. ~AtRoot(s) => Moves(event, s, End(s))
    BY <1>10, <1>12 DEF Moves
  <2>. QED
    BY <1>12, <2>1, <2>2, <2>3, <2>4
<1>. QED
  BY <1>5, <1>6, <1>7, <1>8, <1>9, <1>11, <1>12 DEF Events

(* Whatever the check answers, the stack it leaves is sound.               *)
LEMMA CheckedIsSound ==
    ASSUME Sound(structure), NEW event \in Events
    PROVE  Sound(Checked(event).next) /\ Checked(event).ok \in BOOLEAN
<1>1. /\ Sound(Value(structure)) /\ Sound(End(structure))
      /\ KeyOk(structure) => Sound(Key(structure))
      /\ \A kind \in Kinds : Sound(Begin(kind, structure))
  BY MethodsAreSound
<1>2. ValueOk(FALSE, structure) \in BOOLEAN /\ KeyOk(structure) \in BOOLEAN
  BY DEF ValueOk, KeyOk
<1>3. \A kind \in Kinds : EndOk(kind, structure) \in BOOLEAN
  BY DEF EndOk
<1>4. Kind(event) \in Kinds
  BY DEF Kind, Kinds
<1>5. CASE event \in {"word", "text", "nonfinite"}
  BY <1>1, <1>2, <1>5 DEF Checked
<1>6. CASE event \in {"begin_array", "begin_object"}
  BY <1>1, <1>2, <1>4, <1>6 DEF Checked
<1>7. CASE event = "object_key"
  BY <1>1, <1>2, <1>7 DEF Checked
<1>8. CASE event \in {"end_array", "end_object"}
  BY <1>1, <1>3, <1>4, <1>8 DEF Checked
<1>. QED
  BY <1>5, <1>6, <1>7, <1>8 DEF Events

-----------------------------------------------------------------------------
(* The writes.                                                             *)

(* One write and its maybe_flush.                                          *)
LEMMA OnePush ==
    ASSUME NEW o \in Outs(CborTokens), NEW token \in CborTokens, NEW w \in Push(o, token)
    PROVE  /\ w.out \in Outs(CborTokens) /\ w.ok \in BOOLEAN
           /\ IsPrefix(w.out.wire, Sent(o) \o <<token>>)
           /\ w.ok => Sent(w.out) = Sent(o) \o <<token>>
           /\ ~w.ok => WriterFails
<1>. DEFINE filled == Put(o, <<token>>)
<1>1. <<token>> \in Seq(CborTokens)
  BY ShortSeq
<1>2. filled \in Outs(CborTokens) /\ Sent(filled) = Sent(o) \o <<token>>
  BY <1>1, PutProperties
<1>3. w \in MaybeFlush(filled)
  BY DEF Push
<1>. HIDE DEF filled
<1>. QED
  BY <1>2, <1>3, MaybeFlushProperties, FailureIsTheWriters

(* The two writes of a string or a key.                                    *)
LEMMA HeadAndBody == Append(<<"head">>, "body") = <<"head", "body">>
<1>. DEFINE p == Append(<<"head">>, "body")
            q == <<"head", "body">>
<1>1. p \in Seq(CborTokens) /\ Len(p) = 2 /\ p[1] = "head" /\ p[2] = "body"
  <2>1. <<"head">> \in Seq(CborTokens) /\ "body" \in CborTokens
    BY ShortSeq DEF CborTokens
  <2>. QED
    BY <2>1, AppendProperties
<1>2. q \in Seq(CborTokens) /\ Len(q) = 2 /\ q[1] = "head" /\ q[2] = "body"
  BY DEF CborTokens
<1>. HIDE DEF p, q
<1>3. \A i \in 1 .. Len(p) : p[i] = q[i]
  BY <1>1, <1>2
<1>. QED
  BY <1>1, <1>2, <1>3, SeqEqual DEF p, q

(* The writes of a handler stop at the first that fails; what the writer   *)
(* took is a prefix of what was to be written.                             *)
LEMMA AllPushes ==
    ASSUME NEW o \in Outs(CborTokens), NEW event \in Events,
           NEW tokens \in {<<>>, Writes(event)}, NEW w \in PushAll(o, tokens)
    PROVE  /\ tokens \in Seq(CborTokens)
           /\ w.out \in Outs(CborTokens) /\ w.ok \in BOOLEAN
           /\ IsPrefix(w.out.wire, Sent(o) \o tokens)
           /\ w.ok => Sent(w.out) = Sent(o) \o tokens
           /\ ~w.ok => WriterFails
<1>1. o.wire \in Seq(CborTokens) /\ o.buf \in Seq(CborTokens) /\ Sent(o) \in Seq(CborTokens)
  BY ConcatProperties DEF Outs, Sent
<1>2. \/ tokens = <<>>
      \/ \E a \in CborTokens : tokens = <<a>>
      \/ tokens = <<"head", "body">>
  BY DEF Writes, Events, CborTokens
<1>3. CASE tokens = <<>>
  <2>1. w = Settled(o)
    BY <1>3 DEF PushAll
  <2>2. w.out = o /\ w.ok = TRUE
    BY <2>1 DEF Settled
  <2>3. Sent(o) \o <<>> = Sent(o)
    BY <1>1, ConcatEmptySeq
  <2>4. IsPrefix(o.wire, o.wire \o o.buf)
    BY <1>1, PrefixOfConcat
  <2>5. tokens \in Seq(CborTokens)
    BY <1>3, EmptySeq
  <2>. QED
    BY <1>3, <2>2, <2>3, <2>4, <2>5 DEF Sent
<1>4. ASSUME NEW a \in CborTokens, tokens = <<a>>
      PROVE  /\ tokens \in Seq(CborTokens)
             /\ w.out \in Outs(CborTokens) /\ w.ok \in BOOLEAN
             /\ IsPrefix(w.out.wire, Sent(o) \o tokens)
             /\ w.ok => Sent(w.out) = Sent(o) \o tokens
             /\ ~w.ok => WriterFails
  <2>1. w \in Push(o, a)
    BY <1>4 DEF PushAll
  <2>2. tokens \in Seq(CborTokens)
    BY <1>4, ShortSeq
  <2>. QED
    BY <1>4, <2>1, <2>2, OnePush
<1>5. CASE tokens = <<"head", "body">>
  <2>1. <<"head">> \in Seq(CborTokens) /\ <<"body">> \in Seq(CborTokens)
    BY ShortSeq DEF CborTokens
  <2>2. <<"head">> \o <<"body">> = tokens /\ tokens \in Seq(CborTokens)
    <3>1. <<"head">> \o <<"body">> = Append(<<"head">>, "body")
      BY <2>1, AppendIsConcat DEF CborTokens
    <3>. QED
      BY <1>5, <2>1, <3>1, HeadAndBody, ConcatProperties
  <2>a. \A s, t, u \in Seq(CborTokens) : (s \o t) \o u = s \o (t \o u)
    BY Associative
  <2>3. (Sent(o) \o <<"head">>) \o <<"body">> = Sent(o) \o tokens
    <3>1. (Sent(o) \o <<"head">>) \o <<"body">> = Sent(o) \o (<<"head">> \o <<"body">>)
      BY <1>1, <2>1, <2>a, Zenon
    <3>. QED
      BY <2>2, <3>1, Zenon
  <2>4. Len(tokens) = 2 /\ tokens # <<>> /\ tokens[1] = "head" /\ tokens[2] = "body"
    BY <1>5
  <2>5. PICK first \in Push(o, "head") : w \in IF first.ok THEN Push(first.out, "body") ELSE {first}
    BY <2>4 DEF PushAll
  <2>6. /\ first.out \in Outs(CborTokens) /\ first.ok \in BOOLEAN
        /\ IsPrefix(first.out.wire, Sent(o) \o <<"head">>)
        /\ first.ok => Sent(first.out) = Sent(o) \o <<"head">>
        /\ ~first.ok => WriterFails
    BY OnePush DEF CborTokens
  <2>7. CASE first.ok
    <3>1. w \in Push(first.out, "body")
      BY <2>5, <2>7
    <3>2. /\ w.out \in Outs(CborTokens) /\ w.ok \in BOOLEAN
          /\ IsPrefix(w.out.wire, Sent(first.out) \o <<"body">>)
          /\ w.ok => Sent(w.out) = Sent(first.out) \o <<"body">>
          /\ ~w.ok => WriterFails
      BY <2>6, <3>1, OnePush DEF CborTokens
    <3>. QED
      BY <2>2, <2>3, <2>6, <2>7, <3>2
  <2>8. CASE ~first.ok
    <3>1. w = first
      BY <2>5, <2>8
    <3>2. first.out.wire \in Seq(CborTokens) /\ Sent(o) \o <<"head">> \in Seq(CborTokens)
      BY <1>1, <2>1, <2>6, ConcatProperties DEF Outs
    <3>3. IsPrefix(first.out.wire, (Sent(o) \o <<"head">>) \o <<"body">>)
      BY <2>1, <2>6, <3>2, PrefixExtends
    <3>. QED
      BY <2>2, <2>3, <2>6, <2>8, <3>1, <3>3
  <2>. QED
    BY <2>7, <2>8
<1>. QED
  BY <1>2, <1>3, <1>4, <1>5

-----------------------------------------------------------------------------
(* What the writer receives.                                               *)

\* WireIsPrefix with what makes it inductive: while the sink is open, wire
\* and buffer together are exactly what was emitted.
WireInv ==
    /\ IsPrefix(out.wire, emitted)
    /\ status = "open" => Sent(out) = emitted
    /\ status = "done" => out.wire = emitted

(* An event in terms of its check and its writes.                          *)
LEMMA EventIsPushes ==
    ASSUME Typed, NEW event \in Events, Event(event)
    PROVE  \E w : LET checked == Checked(event)
                     tokens == IF checked.ok THEN Writes(event) ELSE <<>>
                 IN  /\ status = "open"
                     /\ structure' = checked.next
                     /\ emitted' = emitted \o tokens
                     /\ out' = w.out
                     /\ Return(event, Answer(checked.ok /\ event # "nonfinite", w.ok))
                     /\ tokens \in Seq(CborTokens)
                     /\ w.out \in Outs(CborTokens) /\ w.ok \in BOOLEAN
                     /\ IsPrefix(w.out.wire, Sent(out) \o tokens)
                     /\ w.ok => Sent(w.out) = Sent(out) \o tokens
                     /\ ~w.ok => WriterFails /\ checked.ok /\ event # "nonfinite"
<1>. DEFINE checked == Checked(event)
            tokens == IF checked.ok THEN Writes(event) ELSE <<>>
<1>1. PICK w \in PushAll(out, tokens) :
          /\ out' = w.out
          /\ Return(event, Answer(checked.ok /\ event # "nonfinite", w.ok))
  BY DEF Event
<1>2. status = "open" /\ structure' = checked.next /\ emitted' = emitted \o tokens
  BY DEF Event
<1>3. /\ tokens \in Seq(CborTokens)
      /\ w.out \in Outs(CborTokens) /\ w.ok \in BOOLEAN
      /\ IsPrefix(w.out.wire, Sent(out) \o tokens)
      /\ w.ok => Sent(w.out) = Sent(out) \o tokens
      /\ ~w.ok => WriterFails
  <2>. HIDE DEF checked
  <2>1. tokens \in {<<>>, Writes(event)}
    OBVIOUS
  <2>. QED
    BY <1>1, <2>1, AllPushes DEF Typed
<1>4. ~w.ok => checked.ok /\ event # "nonfinite"
  <2>1. ~checked.ok \/ event = "nonfinite" => tokens = <<>>
    BY DEF Writes
  <2>2. tokens = <<>> => PushAll(out, tokens) = {Settled(out)}
    BY DEF PushAll
  <2>3. Settled(out).ok = TRUE
    BY DEF Settled
  <2>. QED
    BY <1>1, <2>1, <2>2, <2>3
<1>. QED
  BY <1>1, <1>2, <1>3, <1>4

(* Finish writes what is left, or nothing.                                 *)
LEMMA FinishIsFlush ==
    ASSUME Typed, Finish
    PROVE  \E w : LET complete == FinishOk(structure)
                 IN  /\ status = "open" /\ UNCHANGED <<structure, emitted, calls, caller>>
                     /\ out' = w.out /\ w.out \in Outs(CborTokens) /\ w.ok \in BOOLEAN
                     /\ call' = [event |-> "finish",
                                 answer |-> IF complete THEN Answer(TRUE, w.ok) ELSE "refused"]
                     /\ status' = IF w.ok THEN "done" ELSE "rejected"
                     /\ complete \/ w.out = out
                     /\ complete => IsPrefix(w.out.wire, Sent(out))
                     /\ w.ok => complete /\ w.out.wire = Sent(out)
                     /\ complete /\ ~w.ok => WriterFails
<1>. DEFINE complete == FinishOk(structure)
<1>1. PICK w \in IF complete THEN Flush(out) ELSE {[out |-> out, ok |-> FALSE]} :
         /\ out' = w.out
         /\ call' = [event |-> "finish",
                     answer |-> IF complete THEN Answer(TRUE, w.ok) ELSE "refused"]
         /\ status' = IF w.ok THEN "done" ELSE "rejected"
  BY DEF Finish
<1>2. status = "open" /\ UNCHANGED <<structure, emitted, calls, caller>>
  BY DEF Finish
<1>. HIDE DEF complete
<1>3. out \in Outs(CborTokens)
  BY DEF Typed
<1>4. CASE complete
  <2>1. w \in Flush(out)
    BY <1>1, <1>4
  <2>2. /\ w.out \in Outs(CborTokens) /\ w.ok \in BOOLEAN
        /\ IsPrefix(w.out.wire, Sent(out))
        /\ w.ok => w.out.wire = Sent(out)
    BY <1>3, <2>1, FlushProperties
  <2>3. ~w.ok => WriterFails
    BY <2>1, FailureIsTheWriters
  <2>. QED
    BY <1>1, <1>2, <1>4, <2>2, <2>3 DEF complete
<1>5. CASE ~complete
  <2>1. w.out = out /\ w.ok = FALSE
    BY <1>1, <1>5
  <2>. QED
    BY <1>1, <1>2, <1>3, <1>5, <2>1 DEF complete
<1>. QED
  BY <1>4, <1>5

(* Whatever the caller does and wherever the writer fails, the EventState  *)
(* of CborSink stays a state of EventState in which only the innermost     *)
(* object is owed a value (cross_format/cbor.rs, event_state.rs).          *)
THEOREM TypeCorrect == Spec => []Typed
<1>1. Init => Typed
  <2>1. <<>> \in Seq(CborTokens) /\ <<>> \in Seq(Frame) /\ Len(<<>>) = 0
    BY EmptySeq
  <2>. QED
    BY <2>1, CborSinkAssumption
       DEF Init, Typed, Sound, OnlyKeysOwe, OnlyTopDue, States, NewState, NewOut, Outs
<1>2. Typed /\ [Next]_vars => Typed'
  <2>. SUFFICES ASSUME Typed, [Next]_vars PROVE Typed'
    OBVIOUS
  <2>1. ASSUME NEW event \in Offered, Event(event)
        PROVE  Typed'
    <3>1. event \in Events
      BY CborSinkAssumption
    <3>. DEFINE checked == Checked(event)
                tokens == IF checked.ok THEN Writes(event) ELSE <<>>
    <3>2. PICK w : /\ structure' = checked.next
                   /\ emitted' = emitted \o tokens
                   /\ out' = w.out
                   /\ Return(event, Answer(checked.ok /\ event # "nonfinite", w.ok))
                   /\ tokens \in Seq(CborTokens)
                   /\ w.out \in Outs(CborTokens)
      BY <2>1, <3>1, EventIsPushes
    <3>3. Sound(checked.next)
      BY <3>1, CheckedIsSound DEF Typed
    <3>. HIDE DEF checked, tokens
    <3>4. emitted \o tokens \in Seq(CborTokens)
      BY <3>2, ConcatProperties DEF Typed
    <3>5. caller' = caller
      BY <3>2 DEF Return
    <3>. QED
      BY <3>2, <3>3, <3>4, <3>5 DEF Typed, Sound
  <2>2. CASE Finish
    BY <2>2, FinishIsFlush DEF Typed, Sound
  <2>3. CASE UNCHANGED vars
    BY <2>3 DEF vars, Typed, Sound
  <2>. QED
    BY <2>1, <2>2, <2>3 DEF Next
<1>. QED
  BY <1>1, <1>2, PTL DEF Spec

(* With a caller that drops the sink once the writer failed, the writer    *)
(* received a prefix of what was emitted, although a string or a key is    *)
(* two writes and the first alone may reach it, and all of it once finish  *)
(* returned Ok (CborSink::push, extend, maybe_flush, finish).              *)
THEOREM WireIntegrity == Spec => []WireIsPrefix
<1>1. Init => WireInv
  <2>1. <<>> \in Seq(CborTokens) /\ <<>> \o <<>> = <<>>
    BY EmptySeq
  <2>2. IsPrefix(<<>>, <<>> \o <<>>)
    BY <2>1, PrefixOfConcat
  <2>. QED
    BY <2>1, <2>2 DEF Init, WireInv, NewOut, Sent
<1>2. Typed /\ WireInv /\ [Next]_vars => WireInv'
  <2>. SUFFICES ASSUME Typed, WireInv, [Next]_vars
                PROVE  WireInv'
    OBVIOUS
  <2>1. ASSUME NEW event \in Offered, Event(event)
        PROVE  WireInv'
    <3>1. event \in Events
      BY CborSinkAssumption
    <3>. DEFINE checked == Checked(event)
                tokens == IF checked.ok THEN Writes(event) ELSE <<>>
    <3>2. PICK w : /\ status = "open"
                   /\ emitted' = emitted \o tokens
                   /\ out' = w.out
                   /\ Return(event, Answer(checked.ok /\ event # "nonfinite", w.ok))
                   /\ IsPrefix(w.out.wire, Sent(out) \o tokens)
                   /\ w.ok => Sent(w.out) = Sent(out) \o tokens
      BY <2>1, <3>1, EventIsPushes
    <3>. HIDE DEF checked, tokens
    <3>3. Sent(out) \o tokens = emitted'
      BY <3>2 DEF WireInv
    <3>4. status' # "done" /\ (status' = "open" => w.ok)
      BY <3>2 DEF Return, Answer
    <3>. QED
      BY <3>2, <3>3, <3>4 DEF WireInv, Sent
  <2>2. CASE Finish
    <3>1. PICK w : LET complete == FinishOk(structure)
                   IN  /\ status = "open" /\ emitted' = emitted /\ out' = w.out
                       /\ status' = IF w.ok THEN "done" ELSE "rejected"
                       /\ complete \/ w.out = out
                       /\ complete => IsPrefix(w.out.wire, Sent(out))
                       /\ w.ok => w.out.wire = Sent(out)
      BY <2>2, FinishIsFlush
    <3>. QED
      BY <3>1 DEF WireInv
  <2>3. CASE UNCHANGED vars
    BY <2>3 DEF vars, WireInv, Sent
  <2>. QED
    BY <2>1, <2>2, <2>3 DEF Next
<1>3. WireInv => WireIsPrefix
  BY DEF WireInv, WireIsPrefix
<1>. QED
  BY <1>1, <1>2, <1>3, TypeCorrect, PTL DEF Spec

-----------------------------------------------------------------------------
(* The contract.                                                           *)

(* While EventSink speaks of the sink, the events it calls legal are those *)
(* the structure has a place for.                                          *)
LEMMA LegalIsInGrammar ==
    ASSUME Typed, Live, NEW event \in Events
    PROVE  Sink!Legal(event) <=> InGrammar(event, structure)
<1>. DEFINE stack == IF Live THEN [i \in 1 .. Len(structure.frames) |-> structure.frames[i].kind]
                     ELSE <<>>
<1>1. structure \in States /\ stack = Shown(structure)
  BY DEF Typed, Sound, Shown
<1>2. /\ stack = <<>> <=> AtRoot(structure)
      /\ ~AtRoot(structure) => Last(stack) = Top(structure).kind
  BY <1>1, ShownProperties
<1>. HIDE DEF stack
<1>3. /\ Sink!In("array") <=> InArray(structure)
      /\ Sink!In("object") <=> InObject(structure)
  BY <1>2 DEF Sink!In, Sink!Last, Last, InArray, InObject, stack
<1>4. caller = "careful" /\ status = "open"
  BY DEF Live
<1>5. Sink!ValueExpected <=> \/ AtRoot(structure) /\ ~structure.root
                            \/ InArray(structure)
                            \/ Owed(structure)
  BY <1>2, <1>3, <1>4 DEF Sink!ValueExpected, Owed, stack, Live
<1>6. InArray(structure) => ~Owed(structure)
  BY DEF InArray, Owed, InObject
<1>. QED
  BY <1>3, <1>4, <1>5, <1>6 DEF Sink!Legal, Sink!Kind, InGrammar, Events, Owed, Live

\* What the refinement needs: in a live sink, containers are open under a
\* root that was started.
RootKept == Live /\ ~AtRoot(structure) => structure.root = TRUE

(* An event of a careful caller is a step of the contract.                 *)
LEMMA EventIsStep ==
    ASSUME Typed, RootKept, caller = "careful", NEW event \in Events, Event(event)
    PROVE  /\ Sink!Accept(event) \/ Sink!Refuse(event) \/ Sink!Break(event)
           /\ RootKept'
<1>. DEFINE checked == Checked(event)
            valid == checked.ok /\ event # "nonfinite"
<1>1. PICK w : /\ status = "open"
               /\ structure' = checked.next
               /\ Return(event, Answer(valid, w.ok))
               /\ w.ok \in BOOLEAN
               /\ ~w.ok => WriterFails /\ valid
  BY EventIsPushes
<1>2. Live /\ ~AtRoot(structure) => structure.root = TRUE
  BY <1>1 DEF Live, RootKept
<1>3. Live /\ caller' = "careful"
  BY <1>1 DEF Live, Return
<1>4. /\ valid <=> Sink!Legal(event)
      /\ valid => Moves(event, structure, checked.next)
  BY <1>2, <1>3, CheckedMoves, LegalIsInGrammar DEF Typed
<1>. HIDE DEF checked, valid
<1>5. CASE valid /\ w.ok
  <2>1. /\ call' = [event |-> event, answer |-> "ok"]
        /\ status' = "open"
    BY <1>1, <1>5 DEF Return, Answer
  <2>2. Live'
    BY <1>3, <2>1 DEF Live
  <2>3. Moves(event, structure, structure')
    BY <1>1, <1>4, <1>5
  <2>4. Sink!Accept(event)
    BY <1>1, <1>3, <1>4, <1>5, <2>1, <2>2, <2>3
       DEF Sink!Accept, Sink!Kind, Sink!Front, Front, Moves, Shown, Owed, Events
  <2>5. RootKept'
    BY <2>3 DEF Moves, RootKept
  <2>. QED
    BY <2>4, <2>5
<1>6. CASE ~(valid /\ w.ok)
  <2>1. /\ call' = [event |-> event, answer |-> IF valid THEN "io" ELSE "refused"]
        /\ status' = "stopped"
    BY <1>1, <1>6 DEF Return, Answer
  <2>2. ~Live'
    BY <2>1 DEF Live
  <2>3. Sink!Stop
    BY <1>3, <2>1, <2>2 DEF Sink!Stop
  <2>4. Sink!Refuse(event) \/ Sink!Break(event)
    BY <1>1, <1>3, <1>4, <1>6, <2>1, <2>3 DEF Sink!Refuse, Sink!Break
  <2>5. RootKept'
    BY <2>2 DEF RootKept
  <2>. QED
    BY <2>4, <2>5
<1>. QED
  BY <1>5, <1>6

(* So is its finish.                                                       *)
LEMMA FinishIsStep ==
    ASSUME Typed, caller = "careful", Finish
    PROVE  (Sink!Finish \/ Sink!FinishFails) /\ RootKept'
<1>. DEFINE complete == FinishOk(structure)
<1>1. PICK w : /\ status = "open" /\ structure' = structure /\ caller' = "careful"
               /\ call' = [event |-> "finish",
                           answer |-> IF complete THEN Answer(TRUE, w.ok) ELSE "refused"]
               /\ status' = IF w.ok THEN "done" ELSE "rejected"
               /\ w.ok => complete
               /\ complete /\ ~w.ok => WriterFails
  BY FinishIsFlush
<1>2. Live /\ structure \in States
  BY <1>1 DEF Live, Typed, Sound
<1>3. complete <=> structure.root /\ AtRoot(structure)
  BY DEF FinishOk
<1>4. Sink!Complete <=> complete
  <2>1. Shown(structure) = <<>> <=> AtRoot(structure)
    BY <1>2, ShownProperties
  <2>. QED
    BY <1>1, <1>2, <1>3, <2>1 DEF Sink!Complete, Shown
<1>. HIDE DEF complete
<1>5. ~Live' /\ RootKept'
  BY <1>1 DEF Live, RootKept
<1>6. CASE w.ok
  <2>1. status' = "done" /\ call' = [event |-> "finish", answer |-> "ok"]
    BY <1>1, <1>6 DEF Answer
  <2>2. AtRoot(structure) /\ Shown(structure) = <<>> /\ ~InObject(structure)
    BY <1>1, <1>2, <1>3, <1>6, ShownProperties DEF InObject
  <2>3. Sink!Finish
    BY <1>1, <1>2, <1>4, <1>5, <1>6, <2>1, <2>2 DEF Sink!Finish, Shown
  <2>. QED
    BY <1>5, <2>3
<1>7. CASE ~w.ok
  <2>1. /\ status' = "rejected"
        /\ call' = [event |-> "finish", answer |-> IF complete THEN "io" ELSE "refused"]
    BY <1>1, <1>7 DEF Answer
  <2>2. Sink!Stop
    BY <1>1, <1>5, <2>1 DEF Sink!Stop
  <2>3. Sink!FinishFails
    BY <1>1, <1>4, <1>7, <2>1, <2>2 DEF Sink!FinishFails
  <2>. QED
    BY <1>5, <2>3
<1>. QED
  BY <1>6, <1>7

(* To a careful caller CborSink is the EventSink of the trait: it refuses  *)
(* exactly the events that are out of order, and finish succeeds exactly   *)
(* on one complete value (cross_format/cbor.rs, cross_format/mod.rs).      *)
THEOREM SinkIsEventSink == Spec => ImplementsEventSink
<1>1. Init => Sink!Init /\ RootKept
  <2>. SUFFICES ASSUME Init PROVE Sink!Init /\ RootKept
    OBVIOUS
  <2>1. AtRoot(structure) /\ Shown(structure) = <<>> /\ structure.root = FALSE
    <3>1. structure = NewState /\ structure \in States
      BY EmptySeq DEF Init, NewState, States
    <3>. QED
      BY <3>1, ShownProperties DEF AtRoot, NewState
  <2>2. caller \in {"careful", "careless"}
    BY CborSinkAssumption DEF Init
  <2>. QED
    BY <2>1, <2>2 DEF Init, Sink!Init, RootKept, Live, Shown, InObject
<1>2. Typed /\ RootKept /\ [Next]_vars => [Sink!Next]_(Sink!vars) /\ RootKept'
  <2>. SUFFICES ASSUME Typed, RootKept, [Next]_vars
                PROVE  [Sink!Next]_(Sink!vars) /\ RootKept'
    OBVIOUS
  <2>1. caller \in {"careful", "careless"} /\ caller' = caller
    BY DEF Typed, Next, Event, Return, Finish, vars
  <2>2. CASE caller = "careless"
    BY <2>1, <2>2 DEF Sink!vars, Live, RootKept
  <2>3. CASE caller = "careful"
    <3>1. ASSUME NEW event \in Offered, Event(event)
          PROVE  Sink!Next /\ RootKept'
      <4>1. event \in Events /\ event \in Sink!Events
        BY CborSinkAssumption DEF Events, Sink!Events
      <4>. QED
        BY <2>3, <3>1, <4>1, EventIsStep DEF Sink!Next
    <3>2. CASE Finish
      BY <2>3, <3>2, FinishIsStep DEF Sink!Next
    <3>3. CASE UNCHANGED vars
      BY <3>3 DEF vars, Sink!vars, Live, RootKept
    <3>. QED
      BY <3>1, <3>2, <3>3 DEF Next
  <2>. QED
    BY <2>1, <2>2, <2>3
<1>. QED
  BY <1>1, <1>2, TypeCorrect, PTL DEF Spec, ImplementsEventSink, Sink!Spec

-----------------------------------------------------------------------------
(* The grammar of the output.                                              *)

\* The token that opens a container.
OpenerOf(kind) == IF kind = "array" THEN "9f" ELSE "bf"

(* An item more: what was begun in a container before it stays, and it     *)
(* adds itself to the innermost.                                           *)
LEMMA ItemsNext ==
    ASSUME NEW s \in Seq(CborTokens), NEW t \in CborTokens
    PROVE  LET r == Append(s, t)
               n == Len(s)
           IN  /\ \A i \in 1 .. n + 1 : \A h \in 1 .. i - 1 :
                     ItemsBegun(r, h, i) = ItemsBegun(s, h, i)
               /\ \A h \in 1 .. n :
                     /\ ItemsBegun(s, h, n + 1) \in Nat
                     /\ ItemsBegun(r, h, n + 2) = ItemsBegun(s, h, n + 1)
                           + (IF t \in Begins /\ OpenAt(s, n) = OpenAt(s, h) THEN 1 ELSE 0)
               /\ ItemsBegun(r, n + 1, n + 2) = 0
<1>. DEFINE r == Append(s, t)
            n == Len(s)
            P(h, j) == s[j] \in Begins /\ OpenAt(s, j - 1) = OpenAt(s, h)
            Q(h, j) == r[j] \in Begins /\ OpenAt(r, j - 1) = OpenAt(r, h)
<1>1. /\ n \in Nat /\ Len(r) = n + 1 /\ r[n + 1] = t /\ \A i \in 1 .. n : r[i] = s[i]
      /\ \A i \in 0 .. n : OpenAt(r, i) = OpenAt(s, i) /\ OpenAt(s, i) \in Int
  BY AppendNests
<1>2. /\ \A h, i : ItemsBegun(s, h, i) = Cardinality({j \in h + 1 .. i - 1 : P(h, j)})
      /\ \A h, i : ItemsBegun(r, h, i) = Cardinality({j \in h + 1 .. i - 1 : Q(h, j)})
  BY DEF ItemsBegun
<1>. HIDE DEF r, n
<1>3. ASSUME NEW h \in 1 .. n, NEW j \in h + 1 .. n
      PROVE  Q(h, j) <=> P(h, j)
  <2>1. h \in 0 .. n /\ j \in 1 .. n /\ j - 1 \in 0 .. n
    BY <1>1
  <2>. QED
    BY <1>1, <2>1, Zenon
<1>4. ASSUME NEW h \in 1 .. n
      PROVE  Q(h, n + 1) <=> t \in Begins /\ OpenAt(s, n) = OpenAt(s, h)
  <2>1. h \in 0 .. n /\ n \in 0 .. n /\ (n + 1) - 1 = n
    BY <1>1
  <2>. QED
    BY <1>1, <2>1, Zenon
<1>. HIDE DEF P, Q
<1>5. ASSUME NEW i \in 1 .. n + 1, NEW h \in 1 .. i - 1
      PROVE  ItemsBegun(r, h, i) = ItemsBegun(s, h, i)
  <2>1. h \in 1 .. n /\ \A j \in h + 1 .. i - 1 : j \in h + 1 .. n
    BY <1>1
  <2>2. \A j \in h + 1 .. i - 1 : Q(h, j) <=> P(h, j)
    BY <1>3, <2>1, Zenon
  <2>3. {j \in h + 1 .. i - 1 : Q(h, j)} = {j \in h + 1 .. i - 1 : P(h, j)}
    BY <2>2
  <2>. QED
    BY <1>2, <2>3, Zenon
<1>6. ASSUME NEW h \in 1 .. n
      PROVE  /\ ItemsBegun(s, h, n + 1) \in Nat
             /\ ItemsBegun(r, h, n + 2) = ItemsBegun(s, h, n + 1)
                   + (IF t \in Begins /\ OpenAt(s, n) = OpenAt(s, h) THEN 1 ELSE 0)
  <2>. DEFINE S == {j \in h + 1 .. n : P(h, j)}
              R == {j \in h + 1 .. n + 1 : Q(h, j)}
              more == t \in Begins /\ OpenAt(s, n) = OpenAt(s, h)
  <2>1. /\ \A j : j \in h + 1 .. n + 1 <=> j \in h + 1 .. n \/ j = n + 1
        /\ n + 1 \notin h + 1 .. n
        /\ (n + 1) - 1 = n /\ (n + 2) - 1 = n + 1
    BY <1>1
  <2>2. ItemsBegun(s, h, n + 1) = Cardinality(S) /\ ItemsBegun(r, h, n + 2) = Cardinality(R)
    BY <1>2, <2>1, Zenon
  <2>3. IsFiniteSet(h + 1 .. n)
    BY <1>1, FS_Interval
  <2>4. IsFiniteSet(S)
    BY <2>3, FS_Subset
  <2>5. \A j \in h + 1 .. n : Q(h, j) <=> P(h, j)
    BY <1>3, Zenon
  <2>6. Q(h, n + 1) <=> more
    BY <1>4, Zenon
  <2>7. n + 1 \notin S
    BY <2>1, Zenon
  <2>. HIDE DEF more
  <2>8. more => R = S \cup {n + 1}
    BY <2>1, <2>5, <2>6, Zenon
  <2>9. ~more => R = S
    BY <2>1, <2>5, <2>6, Zenon
  <2>. HIDE DEF S, R
  <2>10. Cardinality(S) \in Nat
    BY <2>4, FS_CardinalityType, Zenon
  <2>11. more => Cardinality(R) = Cardinality(S) + 1
    BY <2>4, <2>7, <2>8, FS_AddElement
  <2>12. Cardinality(R) = Cardinality(S) + (IF more THEN 1 ELSE 0)
    <3>1. CASE more
      BY <2>11, <3>1
    <3>2. CASE ~more
      BY <2>9, <2>10, <3>2
    <3>. QED
      BY <3>1, <3>2
  <2>. QED
    BY <2>2, <2>10, <2>12, Zenon DEF more
<1>7. ItemsBegun(r, n + 1, n + 2) = 0
  <2>1. (n + 1) + 1 .. (n + 2) - 1 = {}
    BY <1>1
  <2>2. {j \in (n + 1) + 1 .. (n + 2) - 1 : Q(n + 1, j)} = {}
    BY <2>1
  <2>3. Cardinality({}) = 0
    BY FS_EmptySet
  <2>. QED
    BY <1>2, <2>2, <2>3, Zenon
<1>. QED
  BY <1>5, <1>6, <1>7, Zenon DEF r, n

(* The places of the tokens that were written stay places, and what gives  *)
(* the next one a place.                                                   *)
LEMMA FollowsNext ==
    ASSUME NEW s \in Seq(CborTokens), NEW t \in CborTokens
    PROVE  LET r == Append(s, t)
               n == Len(s)
               holders == Holders(r, n + 1)
           IN  /\ \A i \in 1 .. n : Follows(s, i) => Follows(r, i)
               /\ t = "body" /\ n # 0 /\ s[n] = "head" => Follows(r, n + 1)
               /\ t \in Begins /\ n = 0 => Follows(r, n + 1)
               /\ n # 0 /\ s[n] # "head" =>
                     /\ \A h \in holders :
                           /\ t \in Begins
                           /\ \/ r[h] = "9f"
                              \/ r[h] = "bf" /\ (t = "head" \/ ItemsBegun(s, h, n + 1) % 2 = 1)
                           => Follows(r, n + 1)
                     /\ \A h \in holders :
                           t = "ff" /\ (r[h] = "bf" => ItemsBegun(s, h, n + 1) % 2 = 0)
                           => Follows(r, n + 1)
<1>. DEFINE r == Append(s, t)
            n == Len(s)
<1>1. /\ n \in Nat /\ Len(r) = n + 1 /\ r[n + 1] = t /\ \A i \in 1 .. n : r[i] = s[i]
      /\ \A i \in 1 .. n : Holders(r, i) = Holders(s, i)
      /\ \A i \in 1 .. n + 1 : \A h \in 1 .. i - 1 : ItemsBegun(r, h, i) = ItemsBegun(s, h, i)
  BY AppendNests, ItemsNext
<1>. HIDE DEF r, n
<1>2. \A q, i : Holders(q, i) \subseteq 1 .. i - 1
  BY DEF Holders
<1>3. ASSUME NEW i \in 1 .. n, Follows(s, i)
      PROVE  Follows(r, i)
  <2>1. i \in 1 .. n + 1 /\ 1 .. i - 1 \subseteq 1 .. n
    BY <1>1
  <2>2. /\ r[i] = s[i] /\ Holders(r, i) = Holders(s, i)
        /\ \A h \in Holders(s, i) : r[h] = s[h] /\ ItemsBegun(r, h, i) = ItemsBegun(s, h, i)
    BY <1>1, <1>2, <2>1, Zenon
  <2>3. CASE i = 1
    <3>1. \A h : h \notin Holders(s, i)
      BY <1>2, <2>3
    <3>2. s[i] \in Begins
      BY <1>3, <2>3, <3>1 DEF Follows
    <3>. QED
      BY <2>2, <2>3, <3>2 DEF Follows
  <2>4. CASE i # 1
    <3>1. i - 1 \in 1 .. n
      BY <1>1, <2>4
    <3>2. r[i - 1] = s[i - 1]
      BY <1>1, <3>1
    <3>3. StandsIn(r, i, "9f") <=> StandsIn(s, i, "9f")
      BY <2>2, Zenon DEF StandsIn
    <3>. QED
      BY <1>3, <2>2, <2>4, <3>2, <3>3, Zenon DEF Follows
  <2>. QED
    BY <2>3, <2>4
<1>4. CASE n = 0
  BY <1>1, <1>3, <1>4 DEF Follows, r, n
<1>5. CASE n # 0
  <2>1. (n + 1) - 1 = n /\ n + 1 > 1 /\ n + 1 # 1 /\ n \in 1 .. n /\ n + 1 \in 1 .. n + 1
    BY <1>1, <1>5
  <2>2. r[(n + 1) - 1] = s[n]
    BY <1>1, <2>1
  <2>3. \A h \in Holders(r, n + 1) : ItemsBegun(r, h, n + 1) = ItemsBegun(s, h, n + 1)
    BY <1>1, <1>2, <2>1, Zenon
  <2>4. t = "body" /\ s[n] = "head" => Follows(r, n + 1)
    BY <1>1, <2>1, <2>2 DEF Follows
  <2>5. ASSUME s[n] # "head", NEW h \in Holders(r, n + 1), t \in Begins,
               \/ r[h] = "9f"
               \/ r[h] = "bf" /\ (t = "head" \/ ItemsBegun(s, h, n + 1) % 2 = 1)
        PROVE  Follows(r, n + 1)
    <3>1. /\ n + 1 > 1 => r[(n + 1) - 1] # "head"
          /\ r[n + 1] \in Begins
      BY <1>1, <2>2, <2>5
    <3>2. CASE r[h] = "9f"
      <4>1. StandsIn(r, n + 1, "9f")
        BY <3>2 DEF StandsIn
      <4>. QED
        BY <3>1, <4>1, Zenon DEF Follows
    <3>3. CASE r[h] = "bf" /\ (t = "head" \/ ItemsBegun(s, h, n + 1) % 2 = 1)
      <4>1. r[n + 1] = "head" \/ ItemsBegun(r, h, n + 1) % 2 = 1
        BY <1>1, <2>3, <3>3
      <4>. QED
        BY <3>1, <3>3, <4>1, Zenon DEF Follows
    <3>. QED
      BY <2>5, <3>2, <3>3
  <2>6. ASSUME s[n] # "head", NEW h \in Holders(r, n + 1), t = "ff",
               r[h] = "bf" => ItemsBegun(s, h, n + 1) % 2 = 0
        PROVE  Follows(r, n + 1)
    <3>1. /\ n + 1 > 1 => r[(n + 1) - 1] # "head"
          /\ r[n + 1] = "ff"
      BY <1>1, <2>2, <2>6
    <3>2. r[h] = "bf" => ItemsBegun(r, h, n + 1) % 2 = 0
      BY <2>3, <2>6
    <3>. QED
      BY <3>1, <3>2, Zenon DEF Follows
  <2>. QED
    BY <1>3, <1>5, <2>4, <2>5, <2>6 DEF r, n
<1>. QED
  BY <1>4, <1>5

\* A token more, after which a map that was owed a value is behind one, and
\* the other way round, if the token begins an item.
Advanced(t, old, new) ==
    /\ Len(new) = Len(old)
    /\ \A i \in 1 .. Len(old) :
          /\ new[i].kind = old[i].kind
          /\ i # Len(old) => new[i].due = old[i].due
          /\ i = Len(old) /\ new[i].kind = "object" =>
                (new[i].due <=> IF t \in Begins THEN ~old[i].due ELSE old[i].due)

\* The containers the machine has open are those whose openers in s are at
\* at, and the maps among them that are owed a value are those that hold an
\* odd number of items.
Stacked(s, st, at) ==
    /\ at \in Seq(Nat) /\ Len(at) = Len(st.frames)
    /\ OpenedAt(s, at)
    /\ \A i \in 1 .. Len(at) :
          /\ s[at[i]] = OpenerOf(st.frames[i].kind)
          /\ st.frames[i].kind = "object" =>
                (st.frames[i].due <=> ItemsBegun(s, at[i], Len(s) + 1) % 2 = 1)

\* The machine st has written s: every token of s in its place, and no head
\* without its body.
Written(s, st) ==
    /\ \A i \in 1 .. Len(s) : Follows(s, i)
    /\ \E at : Stacked(s, st, at)
    /\ st.root <=> s # <<>>
    /\ s # <<>> => s[Len(s)] # "head"

(* An item more makes an even number odd, and an odd one even.             *)
LEMMA Parity ==
    /\ \A x \in Nat : (x + 1) % 2 = 1 <=> ~(x % 2 = 1)
    /\ \A x \in Nat : x % 2 = 1 \/ x % 2 = 0
    /\ 0 % 2 = 0
OBVIOUS

(* The items of the open containers behind a token more.                   *)
LEMMA ItemsOfOpen ==
    ASSUME NEW s \in Seq(CborTokens), NEW t \in CborTokens,
           NEW at \in Seq(Nat), OpenedAt(s, at), NEW i \in 1 .. Len(at)
    PROVE  LET before == ItemsBegun(s, at[i], Len(s) + 1)
               odd == ItemsBegun(Append(s, t), at[i], Len(s) + 2) % 2 = 1
           IN  /\ i # Len(at) \/ t \notin Begins => (odd <=> before % 2 = 1)
               /\ i = Len(at) /\ t \in Begins => (odd <=> ~(before % 2 = 1))
<1>. DEFINE r == Append(s, t)
            n == Len(s)
            d == Len(at)
            h == at[i]
            before == ItemsBegun(s, h, n + 1)
            after == ItemsBegun(r, h, n + 2)
            more == t \in Begins /\ OpenAt(s, n) = OpenAt(s, h)
<1>1. h \in 1 .. n /\ OpenAt(s, h) = i /\ OpenAt(s, n) = d
  BY DEF OpenedAt
<1>2. before \in Nat /\ after = before + (IF more THEN 1 ELSE 0)
  BY <1>1, ItemsNext
<1>3. more <=> t \in Begins /\ i = d
  BY <1>1
<1>. HIDE DEF before, after, more, d
<1>4. more => after = before + 1
  BY <1>2
<1>5. ~more => after = before
  BY <1>2
<1>6. more => (after % 2 = 1 <=> ~(before % 2 = 1))
  BY <1>2, <1>4, Parity, Zenon
<1>7. ~more => (after % 2 = 1 <=> before % 2 = 1)
  BY <1>5, Zenon
<1>. QED
  BY <1>3, <1>6, <1>7, Zenon DEF before, after, d, h, r, n

(* The containers of the machine behind a token more.                      *)
LEMMA StackedNext ==
    ASSUME NEW s \in Seq(CborTokens), NEW t \in CborTokens,
           NEW st, NEW at, Stacked(s, st, at), NEW v, Advanced(t, st.frames, v.frames), NEW f
    PROVE  LET n == Len(st.frames)
               r == Append(s, t)
               same(m) == \A i \in 1 .. m : f.frames[i] = v.frames[i]
           IN  /\ n \in Nat
               /\ t \notin BeginTokens \cup EndTokens => \E b : Stacked(r, v, b)
               /\ /\ t \in BeginTokens /\ Len(f.frames) = n + 1 /\ same(n)
                  /\ t = OpenerOf(f.frames[n + 1].kind) /\ f.frames[n + 1].due = FALSE
                  => \E b : Stacked(r, f, b)
               /\ /\ t \in EndTokens /\ n # 0 /\ Len(f.frames) = n - 1 /\ same(n - 1)
                  => \E b : Stacked(r, f, b)
<1>. DEFINE n == Len(st.frames)
            l == Len(s)
            r == Append(s, t)
            Now(i, frame) == /\ r[at[i]] = OpenerOf(frame.kind)
                             /\ frame.kind = "object" =>
                                   (frame.due <=> ItemsBegun(r, at[i], l + 2) % 2 = 1)
<1>1. at \in Seq(Nat) /\ Len(at) = n /\ OpenedAt(s, at) /\ n \in Nat
      /\ \A i \in 1 .. n :
            /\ at[i] \in 1 .. l
            /\ s[at[i]] = OpenerOf(st.frames[i].kind)
            /\ st.frames[i].kind = "object" =>
                  (st.frames[i].due <=> ItemsBegun(s, at[i], l + 1) % 2 = 1)
  BY LenProperties DEF Stacked, OpenedAt
<1>2. /\ l \in Nat /\ Len(r) = l + 1 /\ r[l + 1] = t /\ \A i \in 1 .. l : r[i] = s[i]
      /\ (l + 1) + 1 = l + 2 /\ Len(r) + 1 = l + 2
  BY AppendNests
<1>. HIDE DEF r, l, n
<1>3. ASSUME NEW i \in 1 .. n
      PROVE  Now(i, v.frames[i])
  <2>1. /\ v.frames[i].kind = st.frames[i].kind
        /\ i # n => v.frames[i].due = st.frames[i].due
        /\ i = n /\ v.frames[i].kind = "object" =>
              (v.frames[i].due <=> IF t \in Begins THEN ~st.frames[i].due ELSE st.frames[i].due)
    BY DEF Advanced, n
  <2>2. LET odd == ItemsBegun(r, at[i], l + 2) % 2 = 1
            was == ItemsBegun(s, at[i], l + 1) % 2 = 1
        IN  /\ i # n \/ t \notin Begins => (odd <=> was)
            /\ i = n /\ t \in Begins => (odd <=> ~was)
    BY <1>1, ItemsOfOpen DEF r, l
  <2>3. r[at[i]] = OpenerOf(v.frames[i].kind)
    BY <1>1, <1>2, <2>1
  <2>4. ASSUME v.frames[i].kind = "object"
        PROVE  v.frames[i].due <=> ItemsBegun(r, at[i], l + 2) % 2 = 1
    BY <1>1, <2>1, <2>2, <2>4, Zenon
  <2>. QED
    BY <2>3, <2>4
<1>4. ASSUME t \notin BeginTokens \cup EndTokens
      PROVE  \E b : Stacked(r, v, b)
  <2>1. OpenedAt(r, at)
    BY <1>1, <1>4, AppendOpens DEF r
  <2>2. Len(v.frames) = n
    BY DEF Advanced, n
  <2>3. Stacked(r, v, at)
    BY <1>1, <1>2, <1>3, <2>1, <2>2, Zenon DEF Stacked
  <2>. QED
    BY <2>3
<1>5. ASSUME t \in BeginTokens, Len(f.frames) = n + 1,
             \A i \in 1 .. n : f.frames[i] = v.frames[i],
             t = OpenerOf(f.frames[n + 1].kind), f.frames[n + 1].due = FALSE
      PROVE  \E b : Stacked(r, f, b)
  <2>. DEFINE b == Append(at, l + 1)
  <2>1. b \in Seq(Nat) /\ OpenedAt(r, b)
    BY <1>1, <1>5, AppendOpens DEF r, l
  <2>2. Len(b) = n + 1 /\ b[n + 1] = l + 1 /\ \A i \in 1 .. n : b[i] = at[i]
    BY <1>1, <1>2, AppendProperties
  <2>. HIDE DEF b
  <2>3. ItemsBegun(r, l + 1, l + 2) = 0
    BY ItemsNext DEF r, l
  <2>4. ~(ItemsBegun(r, l + 1, l + 2) % 2 = 1)
    BY <2>3
  <2>5. ASSUME NEW i \in 1 .. n + 1
        PROVE  /\ r[b[i]] = OpenerOf(f.frames[i].kind)
               /\ f.frames[i].kind = "object" =>
                     (f.frames[i].due <=> ItemsBegun(r, b[i], l + 2) % 2 = 1)
    <3>1. CASE i = n + 1
      BY <1>2, <1>5, <2>2, <2>4, <3>1
    <3>2. CASE i # n + 1
      <4>1. i \in 1 .. n
        BY <1>1, <3>2
      <4>2. b[i] = at[i] /\ f.frames[i] = v.frames[i]
        BY <1>5, <2>2, <4>1
      <4>. QED
        BY <1>3, <4>1, <4>2, Zenon
    <3>. QED
      BY <3>1, <3>2
  <2>6. Stacked(r, f, b)
    BY <1>2, <1>5, <2>1, <2>2, <2>5 DEF Stacked
  <2>. QED
    BY <2>6
<1>6. ASSUME t \in EndTokens, n # 0, Len(f.frames) = n - 1,
             \A i \in 1 .. n - 1 : f.frames[i] = v.frames[i]
      PROVE  \E b : Stacked(r, f, b)
  <2>. DEFINE b == SubSeq(at, 1, Len(at) - 1)
  <2>1. OpenedAt(r, b)
    BY <1>1, <1>6, AppendOpens DEF r
  <2>2. b \in Seq(Nat) /\ Len(b) = n - 1 /\ \A i \in 1 .. n - 1 : b[i] = at[i]
    BY <1>1, <1>6, WithoutLast
  <2>. HIDE DEF b
  <2>3. \A i \in 1 .. n - 1 : i \in 1 .. n
    BY <1>1
  <2>4. ASSUME NEW i \in 1 .. n - 1
        PROVE  /\ r[b[i]] = OpenerOf(f.frames[i].kind)
               /\ f.frames[i].kind = "object" =>
                     (f.frames[i].due <=> ItemsBegun(r, b[i], l + 2) % 2 = 1)
    <3>1. b[i] = at[i] /\ f.frames[i] = v.frames[i] /\ i \in 1 .. n
      BY <1>6, <2>2, <2>3
    <3>. QED
      BY <1>3, <3>1, Zenon
  <2>5. Stacked(r, f, b)
    BY <1>2, <1>6, <2>1, <2>2, <2>4, Zenon DEF Stacked
  <2>. QED
    BY <2>5
<1>. QED
  BY <1>1, <1>4, <1>5, <1>6 DEF n, r

(* One token more whose place is right leaves every token in its place.    *)
LEMMA EveryFollows ==
    ASSUME NEW s \in Seq(CborTokens), NEW t \in CborTokens,
           \A i \in 1 .. Len(s) : Follows(s, i), Follows(Append(s, t), Len(s) + 1)
    PROVE  LET r == Append(s, t)
           IN  /\ r \in Seq(CborTokens) /\ r # <<>> /\ r[Len(r)] = t
               /\ \A i \in 1 .. Len(r) : Follows(r, i)
<1>. DEFINE r == Append(s, t)
            n == Len(s)
<1>1. r \in Seq(CborTokens) /\ r # <<>> /\ Len(r) = n + 1 /\ r[n + 1] = t /\ n \in Nat
  BY AppendProperties, LenProperties
<1>2. \A i \in 1 .. n : Follows(r, i)
  BY FollowsNext
<1>. HIDE DEF r, n
<1>3. \A i \in 1 .. n + 1 : i \in 1 .. n \/ i = n + 1
  BY <1>1
<1>4. Follows(r, n + 1)
  BY DEF r, n
<1>5. \A i \in 1 .. n + 1 : Follows(r, i)
  BY <1>2, <1>3, <1>4, Zenon
<1>. QED
  BY <1>1, <1>5, Zenon DEF r

(* A value and a key are an item more in the innermost container.          *)
LEMMA ItemAdvances ==
    ASSUME NEW st, Sound(st), NEW t \in Begins
    PROVE  /\ ValueOk(FALSE, st) => Advanced(t, st.frames, Value(st).frames)
           /\ KeyOk(st) => Advanced(t, st.frames, Key(st).frames)
<1>. DEFINE n == Len(st.frames)
<1>1. st \in Machine(Frame) /\ Slotted(Frame) /\ n \in Nat
  BY FrameIsSlotted, LenProperties DEF Sound, States
<1>2. /\ Len(Value(st).frames) = n
      /\ \A i \in 1 .. n : /\ Value(st).frames[i].kind = st.frames[i].kind
                           /\ i # n => Value(st).frames[i] = st.frames[i]
                           /\ i = n => ~Value(st).frames[i].due
  BY <1>1, ValueProperties DEF DueIs
<1>3. ASSUME ~AtRoot(st)
      PROVE  /\ Top(st) = st.frames[n] /\ st.frames[n].kind \in Kinds
             /\ Len(Key(st).frames) = n
             /\ \A i \in 1 .. n : /\ Key(st).frames[i].kind = st.frames[i].kind
                                  /\ i # n => Key(st).frames[i] = st.frames[i]
                                  /\ i = n => Key(st).frames[i].due
  <2>1. Top(st) = st.frames[n] /\ Top(st).kind \in Kinds
    BY <1>1, <1>3, TopIsLast, TopOwed
  <2>2. DueIs(TRUE, st.frames, Key(st).frames)
    BY <1>1, <1>3, SetDueProperties DEF Key
  <2>. QED
    BY <2>1, <2>2 DEF DueIs
<1>4. ASSUME ValueOk(FALSE, st)
      PROVE  Advanced(t, st.frames, Value(st).frames)
  <2>1. n # 0 => ~AtRoot(st)
    BY EmptySeq DEF AtRoot
  <2>2. ~AtRoot(st) /\ Value(st).frames[n].kind = "object" /\ n \in 1 .. n => st.frames[n].due
    BY <1>2, <1>3, <1>4 DEF ValueOk, InArray
  <2>. QED
    BY <1>1, <1>2, <2>1, <2>2 DEF Advanced
<1>5. ASSUME KeyOk(st)
      PROVE  Advanced(t, st.frames, Key(st).frames)
  <2>1. ~AtRoot(st) /\ ~st.frames[n].due
    BY <1>3, <1>5 DEF KeyOk, InObject
  <2>. QED
    BY <1>3, <2>1 DEF Advanced
<1>. QED
  BY <1>4, <1>5

(* An item stands where a value or a key is expected.                      *)
LEMMA ItemFollows ==
    ASSUME NEW st, Sound(st), NEW s \in Seq(CborTokens), Written(s, st),
           NEW t \in Begins, ValueOk(FALSE, st) \/ (KeyOk(st) /\ t = "head")
    PROVE  Follows(Append(s, t), Len(s) + 1)
<1>1. t \in CborTokens /\ (s = <<>> <=> Len(s) = 0)
  BY EmptySeq DEF Begins, CborTokens
<1>2. CASE s = <<>>
  BY <1>1, <1>2, FollowsNext
<1>3. CASE s # <<>>
  <2>1. ~AtRoot(st)
    BY <1>3 DEF Written, ValueOk, InArray, KeyOk, InObject
  <2>. DEFINE n == Len(st.frames)
  <2>2. PICK at : Stacked(s, st, at)
    BY DEF Written
  <2>3. /\ n \in Nat \ {0} /\ Top(st) = st.frames[n] /\ st.frames[n].kind \in Kinds
    BY <2>1, FrameIsSlotted, TopIsLast, TopOwed DEF Sound
  <2>4. /\ at \in Seq(Nat) /\ Len(at) = n /\ OpenedAt(s, at) /\ n \in 1 .. n
        /\ s[at[n]] = OpenerOf(st.frames[n].kind)
        /\ st.frames[n].kind = "object" =>
              (st.frames[n].due <=> ItemsBegun(s, at[n], Len(s) + 1) % 2 = 1)
    BY <2>2, <2>3 DEF Stacked
  <2>. HIDE DEF n
  <2>5. /\ at[n] \in Holders(Append(s, t), Len(s) + 1)
        /\ Append(s, t)[at[n]] = s[at[n]]
    BY <1>1, <2>3, <2>4, StandsInInnermost
  <2>6. s[Len(s)] # "head"
    BY <1>3 DEF Written
  <2>7. \/ s[at[n]] = "9f"
        \/ s[at[n]] = "bf" /\ (t = "head" \/ ItemsBegun(s, at[n], Len(s) + 1) % 2 = 1)
    BY <2>1, <2>3, <2>4 DEF ValueOk, InArray, KeyOk, InObject, OpenerOf, Kinds
  <2>. QED
    BY <1>1, <1>3, <2>5, <2>6, <2>7, FollowsNext
<1>. QED
  BY <1>2, <1>3

(* A break stands where the checker lets a container end.                  *)
LEMMA BreakFollows ==
    ASSUME NEW st, Sound(st), NEW s \in Seq(CborTokens), Written(s, st),
           NEW kind \in Kinds, EndOk(kind, st)
    PROVE  Follows(Append(s, "ff"), Len(s) + 1)
<1>. DEFINE n == Len(st.frames)
<1>1. PICK at : Stacked(s, st, at)
  BY DEF Written
<1>2. ~AtRoot(st)
  BY DEF EndOk
<1>3. /\ n \in Nat \ {0} /\ Top(st) = st.frames[n] /\ st.frames[n].kind \in Kinds
  BY <1>2, FrameIsSlotted, TopIsLast, TopOwed DEF Sound
<1>4. /\ at \in Seq(Nat) /\ Len(at) = n /\ OpenedAt(s, at) /\ n \in 1 .. n
      /\ at[n] \in 1 .. Len(s)
      /\ s[at[n]] = OpenerOf(st.frames[n].kind)
      /\ st.frames[n].kind = "object" =>
            (st.frames[n].due <=> ItemsBegun(s, at[n], Len(s) + 1) % 2 = 1)
  BY <1>1, <1>3 DEF Stacked, OpenedAt
<1>. HIDE DEF n
<1>5. "ff" \in CborTokens
  BY DEF CborTokens
<1>6. /\ at[n] \in Holders(Append(s, "ff"), Len(s) + 1)
      /\ Append(s, "ff")[at[n]] = s[at[n]]
  BY <1>3, <1>4, <1>5, StandsInInnermost
<1>7. Len(s) # 0 /\ s[Len(s)] # "head"
  <2>1. Len(s) # 0
    BY <1>4
  <2>2. s # <<>>
    BY <2>1, EmptySeq
  <2>. QED
    BY <2>1, <2>2 DEF Written
<1>8. s[at[n]] = "bf" => ItemsBegun(s, at[n], Len(s) + 1) % 2 = 0
  <2>1. ~st.frames[n].due
    BY <1>3 DEF EndOk
  <2>2. s[at[n]] = "bf" => st.frames[n].kind = "object"
    BY <1>3, <1>4 DEF OpenerOf, Kinds
  <2>3. at[n] \in 1 .. Len(s) => ItemsBegun(s, at[n], Len(s) + 1) \in Nat
    BY <1>5, ItemsNext
  <2>. QED
    BY <1>4, <2>1, <2>2, <2>3, Parity, Zenon
<1>. QED
  BY <1>5, <1>6, <1>7, <1>8, FollowsNext

\* Machine st has a place for the item t, as a value or as a key, and is v
\* behind it.
Takes(t, st, v) ==
    \/ ValueOk(FALSE, st) /\ v = Value(st)
    \/ KeyOk(st) /\ t = "head" /\ v = Key(st)

(* An item is in its place, and the machine has counted it.                *)
LEMMA ItemPlaced ==
    ASSUME NEW st, Sound(st), NEW s \in Seq(CborTokens), Written(s, st),
           NEW t \in Begins, NEW v, Takes(t, st, v)
    PROVE  LET r == Append(s, t)
           IN  /\ r \in Seq(CborTokens) /\ r # <<>> /\ r[Len(r)] = t
               /\ \A i \in 1 .. Len(r) : Follows(r, i)
               /\ Advanced(t, st.frames, v.frames)
               /\ v \in Machine(Frame) /\ v.root = TRUE
<1>. DEFINE r == Append(s, t)
<1>1. t \in CborTokens /\ t \notin EndTokens
  BY DEF Begins, CborTokens, EndTokens
<1>2. Follows(r, Len(s) + 1)
  BY ItemFollows DEF Takes
<1>3. \A i \in 1 .. Len(s) : Follows(s, i)
  BY DEF Written
<1>4. /\ r \in Seq(CborTokens) /\ r # <<>> /\ r[Len(r)] = t
      /\ \A i \in 1 .. Len(r) : Follows(r, i)
  BY <1>1, <1>2, <1>3, EveryFollows
<1>5. PICK at : Stacked(s, st, at)
  BY DEF Written
<1>6. Advanced(t, st.frames, v.frames)
  BY ItemAdvances DEF Takes
<1>7. v \in Machine(Frame) /\ v.root = TRUE
  <2>1. st \in Machine(Frame) /\ Slotted(Frame)
    BY FrameIsSlotted DEF Sound
  <2>2. ~AtRoot(st) => st.root = TRUE
    <3>. SUFFICES ASSUME ~AtRoot(st) PROVE st.root = TRUE
      OBVIOUS
    <3>1. Len(st.frames) \in Nat \ {0}
      BY <2>1, TopIsLast
    <3>2. Len(s) # 0
      BY <1>5, <3>1 DEF Stacked, OpenedAt
    <3>3. s # <<>>
      BY <3>2, EmptySeq
    <3>. QED
      BY <2>1, <3>3 DEF Written, Machine
  <2>3. Value(st) \in Machine(Frame) /\ Value(st).root = TRUE
    BY <2>1, <2>2, ValueProperties
  <2>4. ~AtRoot(st) => Key(st) \in Machine(Frame) /\ Key(st).root = TRUE
    BY <2>1, <2>2, SetDueProperties DEF Key
  <2>. QED
    BY <2>3, <2>4 DEF Takes, KeyOk, InObject
<1>. HIDE DEF r
<1>. QED
  BY <1>4, <1>6, <1>7, Zenon DEF r

(* An item that is whole, or a head.                                       *)
LEMMA ItemWritten ==
    ASSUME NEW st, Sound(st), NEW s \in Seq(CborTokens), Written(s, st),
           NEW t \in Begins \ BeginTokens, NEW v, Takes(t, st, v)
    PROVE  LET r == Append(s, t)
           IN  /\ r \in Seq(CborTokens) /\ r # <<>> /\ r[Len(r)] = t
               /\ \A i \in 1 .. Len(r) : Follows(r, i)
               /\ v.root = TRUE /\ \E at : Stacked(r, v, at)
<1>. DEFINE r == Append(s, t)
<1>1. t \in CborTokens /\ t \notin EndTokens
  BY DEF Begins, CborTokens, EndTokens
<1>2. /\ r \in Seq(CborTokens) /\ r # <<>> /\ r[Len(r)] = t
      /\ \A i \in 1 .. Len(r) : Follows(r, i)
      /\ Advanced(t, st.frames, v.frames) /\ v.root = TRUE
  BY ItemPlaced
<1>3. PICK at : Stacked(s, st, at)
  BY DEF Written
<1>. HIDE DEF r
<1>4. \E b : Stacked(r, v, b)
  BY <1>1, <1>2, <1>3, StackedNext DEF r
<1>. QED
  BY <1>2, <1>4, Zenon DEF r

(* The opener of a container, which is pushed.                             *)
LEMMA OpenerWritten ==
    ASSUME NEW st, Sound(st), NEW s \in Seq(CborTokens), Written(s, st),
           NEW kind \in Kinds, ValueOk(FALSE, st),
           NEW g, g.kind = kind, g.due = FALSE, NEW f, Pushed(g, Value(st), f)
    PROVE  LET r == Append(s, OpenerOf(kind))
           IN  /\ r \in Seq(CborTokens) /\ r # <<>> /\ r[Len(r)] = OpenerOf(kind)
               /\ \A i \in 1 .. Len(r) : Follows(r, i)
               /\ f.root = TRUE /\ \E at : Stacked(r, f, at)
<1>. DEFINE t == OpenerOf(kind)
            r == Append(s, t)
            v == Value(st)
            n == Len(st.frames)
<1>1. t \in CborTokens /\ t \in Begins /\ t \in BeginTokens
  BY DEF OpenerOf, Begins, CborTokens, BeginTokens
<1>2. Takes(t, st, v)
  BY DEF Takes
<1>3. Pushed(g, v, f)
  OBVIOUS
<1>. HIDE DEF t, v
<1>4. /\ r \in Seq(CborTokens) /\ r # <<>> /\ r[Len(r)] = t
      /\ \A i \in 1 .. Len(r) : Follows(r, i)
      /\ Advanced(t, st.frames, v.frames) /\ v \in Machine(Frame) /\ v.root = TRUE
  BY <1>1, <1>2, ItemPlaced
<1>5. /\ f.root = TRUE /\ Len(f.frames) = n + 1 /\ f.frames[n + 1] = g
      /\ \A i \in 1 .. n : f.frames[i] = v.frames[i]
  BY <1>3, <1>4 DEF Pushed, Advanced
<1>6. PICK at : Stacked(s, st, at)
  BY DEF Written
<1>. HIDE DEF r, n
<1>7. t = OpenerOf(f.frames[n + 1].kind) /\ f.frames[n + 1].due = FALSE
  BY <1>5 DEF t
<1>8. \E b : Stacked(r, f, b)
  BY <1>1, <1>4, <1>5, <1>6, <1>7, StackedNext DEF r, n
<1>. QED
  BY <1>4, <1>5, <1>8, Zenon DEF r, t

(* A string and a key are two tokens appended.                             *)
LEMMA HeadThenBody ==
    ASSUME NEW s \in Seq(CborTokens)
    PROVE  s \o <<"head", "body">> = Append(Append(s, "head"), "body")
<1>1. <<"head">> \in Seq(CborTokens) /\ "head" \in CborTokens /\ "body" \in CborTokens
  BY ShortSeq DEF CborTokens
<1>2. /\ s \o <<"head">> = Append(s, "head")
      /\ s \o Append(<<"head">>, "body") = Append(s \o <<"head">>, "body")
  BY <1>1, AppendBehind
<1>. QED
  BY <1>2, HeadAndBody

(* Every event the checker accepted leaves what it wrote in its place.     *)
LEMMA CallWritten ==
    ASSUME NEW s \in Seq(CborTokens), Sound(structure), Written(s, structure),
           NEW event \in Events, event # "nonfinite", Checked(event).ok
    PROVE  Written(s \o Writes(event), Checked(event).next)
<1>. DEFINE st == structure
            next == Checked(event).next
<1>1. \A u \in Seq(CborTokens), t \in CborTokens : u \o <<t>> = Append(u, t)
  <2>1. <<>> \in Seq(CborTokens)
    BY EmptySeq
  <2>. QED
    BY <2>1, AppendBehind
<1>2. Kind(event) \in Kinds
  BY DEF Kind, Kinds
<1>3. CASE event = "word"
  <2>1. Takes("word", st, next) /\ Writes(event) = <<"word">>
    BY <1>3 DEF Checked, Writes, Takes
  <2>2. "word" \in Begins /\ "word" \notin BeginTokens /\ "word" \in CborTokens /\ "word" # "head"
    BY DEF Begins, BeginTokens, CborTokens
  <2>3. s \o Writes(event) = Append(s, "word")
    BY <1>1, <2>1, <2>2
  <2>. HIDE DEF next
  <2>. DEFINE r == Append(s, "word")
  <2>4. /\ r # <<>> /\ r[Len(r)] = "word"
        /\ \A i \in 1 .. Len(r) : Follows(r, i)
        /\ next.root = TRUE /\ \E at : Stacked(r, next, at)
    BY <2>1, <2>2, ItemWritten
  <2>. QED
    BY <2>2, <2>3, <2>4 DEF Written, next
<1>4. CASE event \in {"text", "object_key"}
  <2>1. Takes("head", st, next) /\ Writes(event) = <<"head", "body">>
    BY <1>4 DEF Checked, Writes, Takes
  <2>2. /\ "head" \in Begins /\ "head" \notin BeginTokens /\ "head" \in CborTokens
        /\ "body" \in CborTokens /\ "body" \notin BeginTokens \cup EndTokens /\ "body" \notin Begins
    BY DEF Begins, BeginTokens, EndTokens, CborTokens
  <2>. DEFINE h == Append(s, "head")
              r == Append(h, "body")
  <2>3. s \o Writes(event) = r
    BY <2>1, <2>2, HeadThenBody
  <2>. HIDE DEF next
  <2>4. /\ h \in Seq(CborTokens) /\ h # <<>> /\ h[Len(h)] = "head"
        /\ \A i \in 1 .. Len(h) : Follows(h, i)
        /\ next.root = TRUE /\ \E at : Stacked(h, next, at)
    BY <2>1, <2>2, ItemWritten
  <2>. HIDE DEF h
  <2>5. Len(h) # 0
    BY <2>4, EmptySeq
  <2>6. Follows(r, Len(h) + 1)
    BY <2>2, <2>4, <2>5, FollowsNext
  <2>7. /\ r # <<>> /\ r[Len(r)] = "body" /\ \A i \in 1 .. Len(r) : Follows(r, i)
    BY <2>2, <2>4, <2>6, EveryFollows
  <2>8. PICK at : Stacked(h, next, at)
    BY <2>4
  <2>9. Advanced("body", next.frames, next.frames)
    BY <2>2 DEF Advanced
  <2>10. \E b : Stacked(r, next, b)
    BY <2>2, <2>4, <2>8, <2>9, StackedNext
  <2>. QED
    BY <2>3, <2>4, <2>7, <2>10 DEF Written, next
<1>5. CASE event \in {"begin_array", "begin_object"}
  <2>. DEFINE kind == Kind(event)
              g == [kind |-> kind, due |-> FALSE]
  <2>1. /\ ValueOk(FALSE, st) /\ next = [Value(st) EXCEPT !.frames = Append(@, g)]
        /\ Writes(event) = <<OpenerOf(kind)>>
    BY <1>5 DEF Checked, Writes, Begin, Kind, OpenerOf
  <2>2. OpenerOf(kind) \in CborTokens /\ OpenerOf(kind) # "head"
    BY DEF OpenerOf, CborTokens
  <2>3. s \o Writes(event) = Append(s, OpenerOf(kind))
    BY <1>1, <2>1, <2>2
  <2>4. g \in Frame /\ Value(st) \in Machine(Frame)
    BY <1>2, FrameIsSlotted, ValueProperties DEF Sound, Frame
  <2>. HIDE DEF next, g, kind
  <2>5. Pushed(g, Value(st), next)
    BY <2>1, <2>4, PushProperties
  <2>. DEFINE r == Append(s, OpenerOf(kind))
  <2>6. /\ r # <<>> /\ r[Len(r)] = OpenerOf(kind)
        /\ \A i \in 1 .. Len(r) : Follows(r, i)
        /\ next.root = TRUE /\ \E at : Stacked(r, next, at)
    <3>1. g.kind = kind /\ g.due = FALSE /\ kind \in Kinds
      BY <1>2 DEF g, kind
    <3>. QED
      BY <2>1, <2>5, <3>1, OpenerWritten
  <2>. QED
    BY <2>2, <2>3, <2>6 DEF Written, next
<1>6. CASE event \in {"end_array", "end_object"}
  <2>. DEFINE kind == Kind(event)
              n == Len(st.frames)
              r == Append(s, "ff")
  <2>1. EndOk(kind, st) /\ next = End(st) /\ Writes(event) = <<"ff">>
    BY <1>6 DEF Checked, Writes
  <2>2. "ff" \in CborTokens /\ "ff" \in EndTokens /\ "ff" \notin Begins
    BY DEF CborTokens, EndTokens, Begins
  <2>3. s \o Writes(event) = r
    BY <1>1, <2>1, <2>2
  <2>4. ~AtRoot(st) /\ st \in Machine(Frame)
    BY <2>1, FrameIsSlotted DEF EndOk, Sound
  <2>5. /\ n \in Nat \ {0} /\ Len(End(st).frames) = n - 1 /\ End(st).root = st.root
        /\ \A i \in 1 .. n - 1 : End(st).frames[i] = st.frames[i]
    BY <2>4, TopIsLast, EndProperties
  <2>6. PICK at : Stacked(s, st, at)
    BY DEF Written
  <2>7. Advanced("ff", st.frames, st.frames)
    BY <2>2 DEF Advanced
  <2>8. \E b : Stacked(r, End(st), b)
    BY <2>2, <2>5, <2>6, <2>7, StackedNext
  <2>9. Follows(r, Len(s) + 1)
    BY <1>2, <2>1, BreakFollows
  <2>10. \A i \in 1 .. Len(s) : Follows(s, i)
    BY DEF Written
  <2>11. /\ r # <<>> /\ r[Len(r)] = "ff" /\ \A i \in 1 .. Len(r) : Follows(r, i)
    BY <2>2, <2>9, <2>10, EveryFollows
  <2>12. st.root
    <3>1. Len(s) # 0
      BY <2>5, <2>6 DEF Stacked, OpenedAt
    <3>2. s # <<>>
      BY <3>1, EmptySeq
    <3>. QED
      BY <3>2 DEF Written
  <2>. QED
    BY <2>1, <2>3, <2>5, <2>8, <2>11, <2>12 DEF Written
<1>. QED
  BY <1>3, <1>4, <1>5, <1>6 DEF Events

\* As long as a careful caller may go on, and once finish returned Ok, the
\* EventState has written what was emitted.
GrammarInv ==
    caller = "careful" /\ status \in {"open", "done"} =>
        /\ Written(emitted, structure)
        /\ status = "done" => FinishOk(structure)

(* finish leaves one well-formed item with the writer of a caller that     *)
(* dropped the sink at the first error: a map closes behind a value only,  *)
(* every break closes what it is meant to, and no string lacks its bytes   *)
(* (EventState checks before CborSink writes).                             *)
THEOREM FinishedWellFormed == Spec => []FinishedIsItem
<1>1. Init => GrammarInv
  <2>. SUFFICES ASSUME Init PROVE GrammarInv
    OBVIOUS
  <2>1. emitted = <<>> /\ structure.frames = <<>> /\ structure.root = FALSE /\ status = "open"
    BY DEF Init, NewState
  <2>2. Len(<<>>) = 0 /\ <<>> \in Seq(Nat)
    BY EmptySeq
  <2>3. OpenedAt(<<>>, <<>>)
    BY <2>2, OpenAtStart DEF OpenedAt
  <2>4. Stacked(emitted, structure, <<>>)
    BY <2>1, <2>2, <2>3 DEF Stacked
  <2>. QED
    BY <2>1, <2>2, <2>4 DEF GrammarInv, Written
<1>2. Typed /\ GrammarInv /\ [Next]_vars => GrammarInv'
  <2>. SUFFICES ASSUME Typed, GrammarInv, [Next]_vars
                PROVE  GrammarInv'
    OBVIOUS
  <2>1. ASSUME NEW event \in Offered, Event(event)
        PROVE  GrammarInv'
    <3>1. event \in Events
      BY CborSinkAssumption
    <3>. DEFINE checked == Checked(event)
                tokens == IF checked.ok THEN Writes(event) ELSE <<>>
                valid == checked.ok /\ event # "nonfinite"
    <3>2. PICK w : /\ status = "open"
                   /\ structure' = checked.next
                   /\ emitted' = emitted \o tokens
                   /\ Return(event, Answer(valid, w.ok))
      BY <2>1, <3>1, EventIsPushes
    <3>. HIDE DEF valid
    <3>3. /\ caller' = caller /\ status' # "done"
          /\ caller = "careful" /\ status' = "open" => valid
      BY <3>2 DEF Return, Answer
    <3>4. ASSUME caller = "careful", valid
          PROVE  Written(emitted', structure')
      <4>1. Written(emitted, structure)
        BY <3>2, <3>4 DEF GrammarInv
      <4>2. Written(emitted \o Writes(event), checked.next)
        BY <3>1, <3>4, <4>1, CallWritten DEF Typed, valid
      <4>3. tokens = Writes(event)
        BY <3>4 DEF valid
      <4>. QED
        BY <3>2, <4>2, <4>3
    <3>. QED
      BY <3>3, <3>4 DEF GrammarInv
  <2>2. CASE Finish
    <3>1. PICK w : LET complete == FinishOk(structure)
                   IN  /\ status = "open" /\ UNCHANGED <<structure, emitted, calls, caller>>
                       /\ status' = IF w.ok THEN "done" ELSE "rejected"
                       /\ w.ok => complete
      BY <2>2, FinishIsFlush
    <3>. QED
      BY <3>1 DEF GrammarInv
  <2>3. CASE UNCHANGED vars
    BY <2>3 DEF vars, GrammarInv
  <2>. QED
    BY <2>1, <2>2, <2>3 DEF Next
<1>3. GrammarInv /\ WireIsPrefix => FinishedIsItem
  <2>. SUFFICES ASSUME GrammarInv, WireIsPrefix, status = "done", caller = "careful"
                PROVE  IsCborItem(out.wire)
    BY DEF FinishedIsItem
  <2>1. Written(emitted, structure) /\ FinishOk(structure) /\ out.wire = emitted
    BY DEF GrammarInv, WireIsPrefix
  <2>2. PICK at : Stacked(emitted, structure, at)
    BY <2>1 DEF Written
  <2>3. Len(structure.frames) = 0
    BY <2>1, EmptySeq DEF FinishOk, AtRoot
  <2>4. OpenAt(emitted, Len(emitted)) = 0
    BY <2>2, <2>3 DEF Stacked, OpenedAt
  <2>5. emitted # <<>> /\ emitted[Len(emitted)] # "head"
    BY <2>1 DEF Written, FinishOk
  <2>. QED
    BY <2>1, <2>4, <2>5 DEF IsCborItem, Written
<1>. QED
  BY <1>1, <1>2, <1>3, TypeCorrect, WireIntegrity, PTL DEF Spec
=============================================================================
