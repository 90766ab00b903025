-------------------------- MODULE JsonSink_proofs ---------------------------
(***************************************************************************)
(* JsonSink for every threshold, every caller and any number of calls: its *)
(* types, the agreement of its two checkers, the integrity of what it      *)
(* writes, that it says what was accepted, the contract, and that what it  *)
(* finishes is well-formed.                                                *)
(***************************************************************************)
EXTENDS JsonSink, Encoder_proofs, FiniteSetTheorems

-----------------------------------------------------------------------------
(* The encoder's frames are frames with one more field.                    *)

LEMMA EncodeFrameIsSlotted == Slotted(EncodeFrame) /\ Encoders = Machine(EncodeFrame)
BY DEF Slotted, EncodeFrame, Encoders, Machine

(* An entry of the encoder sets what SetDue sets, the first flag aside.    *)
LEMMA EncEntryProperties ==
    ASSUME NEW e \in Encoders, ~AtRoot(e)
    PROVE  /\ EncEntry(TRUE, e) \in Encoders
           /\ EncEntry(TRUE, e).root = e.root
           /\ DueIs(TRUE, e.frames, EncEntry(TRUE, e).frames)
<1>. DEFINE n == Len(e.frames)
            f == [e.frames[n] EXCEPT !.first = FALSE, !.due = TRUE]
            new == [e.frames EXCEPT ![n] = f]
<1>1. e.frames \in Seq(EncodeFrame) /\ n \in 1 .. n
  BY EncodeFrameIsSlotted, TopIsLast DEF Machine
<1>2. e.frames[n] \in EncodeFrame
  BY <1>1, ElementOfSeq
<1>3. f \in EncodeFrame /\ f.kind = e.frames[n].kind /\ f.due = TRUE
  BY <1>2 DEF EncodeFrame
<1>4. EncEntry(TRUE, e) = [e EXCEPT !.frames = new]
  BY <1>1, <1>2 DEF EncEntry, Encoders, EncodeFrame
<1>5. /\ new \in Seq(EncodeFrame) /\ Len(new) = n
      /\ \A i \in 1 .. n : new[i] = IF i = n THEN f ELSE e.frames[i]
  BY <1>1, <1>3, ExceptSeq
<1>6. /\ EncEntry(TRUE, e) \in Encoders
      /\ EncEntry(TRUE, e).frames = new
      /\ EncEntry(TRUE, e).root = e.root
  BY <1>4, <1>5 DEF Encoders
<1>. HIDE DEF f, new
<1>7. ASSUME NEW i \in 1 .. Len(e.frames)
      PROVE  /\ new[i].kind = e.frames[i].kind
             /\ i # Len(e.frames) => new[i] = e.frames[i]
             /\ i = Len(e.frames) => (new[i].due <=> TRUE)
  BY <1>3, <1>5
<1>8. DueIs(TRUE, e.frames, new)
  BY <1>5, <1>7 DEF DueIs
<1>. QED
  BY <1>6, <1>8

(* A field that is set on the top keeps the frames below free of debts.    *)
LEMMA OnlyTopDueWhenSet ==
    ASSUME NEW F, NEW old \in Seq(F), NEW new, NEW b \in BOOLEAN,
           OnlyTopDue(old), DueIs(b, old, new)
    PROVE  OnlyTopDue(new)
BY LenProperties DEF OnlyTopDue, DueIs

(* What the operators keep of a machine, in one place.                     *)
LEMMA StructureKept ==
    ASSUME NEW s \in States, OnlyTopDue(s.frames)
    PROVE  /\ Value(s) \in States /\ OnlyTopDue(Value(s).frames)
           /\ End(s) \in States /\ OnlyTopDue(End(s).frames)
           /\ ~AtRoot(s) => /\ SetDue(s, TRUE) \in States
                            /\ OnlyTopDue(SetDue(s, TRUE).frames)
           /\ \A kind \in Kinds : /\ Begin(kind, s) \in States
                                  /\ OnlyTopDue(Begin(kind, s).frames)
<1>1. Slotted(Frame) /\ s \in Machine(Frame) /\ States = Machine(Frame)
  BY FrameIsSlotted
<1>2. Value(s) \in Machine(Frame) /\ End(s) \in Machine(Frame)
  BY <1>1, ValueProperties, EndProperties
<1>3. ~AtRoot(s) => SetDue(s, TRUE) \in Machine(Frame)
  BY <1>1, SetDueProperties
<1>4. /\ OnlyTopDue(Value(s).frames)
      /\ OnlyTopDue(End(s).frames)
      /\ ~AtRoot(s) => \A b \in BOOLEAN : OnlyTopDue(SetDue(s, b).frames)
      /\ \A f \in Frame : OnlyTopDue([Value(s) EXCEPT !.frames = Append(@, f)].frames)
  BY <1>1, OnlyTopDueKept
<1>5. ASSUME NEW kind \in Kinds
      PROVE  Begin(kind, s) \in Machine(Frame) /\ OnlyTopDue(Begin(kind, s).frames)
  <2>. DEFINE f == [kind |-> kind, due |-> FALSE]
  <2>1. f \in Frame
    BY DEF Frame
  <2>2. Begin(kind, s) = [Value(s) EXCEPT !.frames = Append(@, f)]
    BY DEF Begin
  <2>. HIDE DEF f
  <2>3. Begin(kind, s) \in Machine(Frame)
    BY <1>1, <2>1, <2>2, BeginProperties
  <2>. QED
    BY <1>4, <2>1, <2>2, <2>3
<1>. QED
  BY <1>1, <1>2, <1>3, <1>4, <1>5

LEMMA EncoderKept ==
    ASSUME NEW e \in Encoders, OnlyTopDue(e.frames)
    PROVE  /\ Value(e) \in Encoders /\ OnlyTopDue(Value(e).frames)
           /\ EncEnd(e) \in Encoders /\ OnlyTopDue(EncEnd(e).frames)
           /\ ~AtRoot(e) => /\ EncEntry(TRUE, e) \in Encoders
                            /\ OnlyTopDue(EncEntry(TRUE, e).frames)
           /\ \A kind \in Kinds : /\ EncBegin(TRUE, kind, e) \in Encoders
                                  /\ OnlyTopDue(EncBegin(TRUE, kind, e).frames)
<1>1. /\ Slotted(EncodeFrame) /\ e \in Machine(EncodeFrame)
      /\ Encoders = Machine(EncodeFrame) /\ e.frames \in Seq(EncodeFrame)
  BY EncodeFrameIsSlotted DEF Machine
<1>2. Value(e) \in Machine(EncodeFrame) /\ End(e) \in Machine(EncodeFrame)
  BY <1>1, ValueProperties, EndProperties
<1>3. /\ OnlyTopDue(Value(e).frames)
      /\ OnlyTopDue(End(e).frames)
      /\ \A f \in EncodeFrame :
            OnlyTopDue([Value(e) EXCEPT !.frames = Append(@, f)].frames)
  BY <1>1, OnlyTopDueKept
<1>4. ASSUME ~AtRoot(e)
      PROVE  EncEntry(TRUE, e) \in Encoders /\ OnlyTopDue(EncEntry(TRUE, e).frames)
  <2>1. EncEntry(TRUE, e) \in Encoders /\ DueIs(TRUE, e.frames, EncEntry(TRUE, e).frames)
    BY <1>4, EncEntryProperties
  <2>. QED
    BY <1>1, <2>1, OnlyTopDueWhenSet
<1>5. ASSUME NEW kind \in Kinds
      PROVE  /\ EncBegin(TRUE, kind, e) \in Encoders
             /\ OnlyTopDue(EncBegin(TRUE, kind, e).frames)
  <2>. DEFINE f == [kind |-> kind, due |-> FALSE, first |-> TRUE]
  <2>1. f \in EncodeFrame
    BY DEF EncodeFrame
  <2>2. EncBegin(TRUE, kind, e) = [Value(e) EXCEPT !.frames = Append(@, f)]
    BY DEF EncBegin, EncValue
  <2>. HIDE DEF f
  <2>3. EncBegin(TRUE, kind, e) \in Machine(EncodeFrame)
    BY <1>1, <2>1, <2>2, BeginProperties
  <2>. QED
    BY <1>1, <1>3, <2>1, <2>2, <2>3
<1>. QED
  BY <1>1, <1>2, <1>3, <1>4, <1>5 DEF EncEnd

-----------------------------------------------------------------------------
(* Types.                                                                  *)

Outcomes == [ok : BOOLEAN, structure : States, encoder : Encoders,
             emit : Seq(JsonTokens), spill : BOOLEAN]

Typed(o) == /\ o \in Outcomes
            /\ OnlyTopDue(o.structure.frames)
            /\ OnlyTopDue(o.encoder.frames)

(* Every step of a handler keeps an outcome well typed, whether it         *)
(* succeeds or not.                                                        *)
LEMMA StructStepsTyped ==
    ASSUME NEW o, Typed(o)
    PROVE  /\ Typed(Fail(o))
           /\ Typed(StructSeparator(o))
           /\ Typed(StructValue(o))
           /\ Typed(StructKey(o))
           /\ \A kind \in Kinds : Typed(StructBegin(kind, o)) /\ Typed(StructEnd(kind, o))
<1>. DEFINE s == o.structure
<1>1. s \in States /\ OnlyTopDue(s.frames)
  BY DEF Typed, Outcomes
<1>2. Typed(Fail(o))
  BY DEF Fail, Typed, Outcomes
<1>3. /\ Value(s) \in States /\ OnlyTopDue(Value(s).frames)
      /\ End(s) \in States /\ OnlyTopDue(End(s).frames)
      /\ ~AtRoot(s) => SetDue(s, TRUE) \in States /\ OnlyTopDue(SetDue(s, TRUE).frames)
      /\ \A kind \in Kinds : Begin(kind, s) \in States /\ OnlyTopDue(Begin(kind, s).frames)
  BY <1>1, StructureKept
<1>4. ASSUME NEW t \in States, OnlyTopDue(t.frames), NEW ok \in BOOLEAN
      PROVE  /\ Typed([o EXCEPT !.structure = t])
             /\ Typed([o EXCEPT !.structure = t, !.ok = ok])
  BY <1>4 DEF Typed, Outcomes
<1>5. Typed(StructSeparator(o))
  BY <1>2, <1>3, <1>4 DEF StructSeparator, SeparatorOk, Separator, InArray
<1>6. Typed(StructValue(o))
  BY <1>2, <1>3, <1>4 DEF StructValue
<1>7. Typed(StructKey(o))
  BY <1>2, <1>3, <1>4 DEF StructKey, KeyOk, Key, InObject
<1>8. ASSUME NEW kind \in Kinds
      PROVE  Typed(StructBegin(kind, o)) /\ Typed(StructEnd(kind, o))
  <2>1. Typed(StructBegin(kind, o))
    BY <1>2, <1>3, <1>4 DEF StructBegin
  <2>2. EndOk(kind, s) \in BOOLEAN
    BY DEF EndOk
  <2>3. Typed(StructEnd(kind, o))
    BY <1>3, <1>4, <2>2 DEF StructEnd
  <2>. QED
    BY <2>1, <2>3
<1>. QED
  BY <1>2, <1>5, <1>6, <1>7, <1>8

LEMMA EncoderStepsTyped ==
    ASSUME NEW o, Typed(o)
    PROVE  /\ Typed(EncoderSeparator(o))
           /\ Typed(EncoderValue(o))
           /\ Typed(EncoderKey(o))
           /\ \A kind \in Kinds : Typed(EncoderBegin(kind, o)) /\ Typed(EncoderEnd(kind, o))
<1>. DEFINE e == o.encoder
<1>1. e \in Encoders /\ OnlyTopDue(e.frames) /\ o.emit \in Seq(JsonTokens)
  BY DEF Typed, Outcomes
<1>2. Typed(Fail(o))
  BY StructStepsTyped
<1>3. /\ Value(e) \in Encoders /\ OnlyTopDue(Value(e).frames)
      /\ EncEnd(e) \in Encoders /\ OnlyTopDue(EncEnd(e).frames)
      /\ ~AtRoot(e) => EncEntry(TRUE, e) \in Encoders /\ OnlyTopDue(EncEntry(TRUE, e).frames)
      /\ \A kind \in Kinds : /\ EncBegin(TRUE, kind, e) \in Encoders
                             /\ OnlyTopDue(EncBegin(TRUE, kind, e).frames)
  BY <1>1, EncoderKept
<1>4. ASSUME NEW t \in Encoders, OnlyTopDue(t.frames), NEW emit \in Seq(JsonTokens)
      PROVE  /\ Typed([o EXCEPT !.encoder = t, !.emit = emit])
             /\ Typed([o EXCEPT !.encoder = t, !.emit = emit, !.spill = TRUE])
  BY <1>4 DEF Typed, Outcomes
<1>5. /\ \A x \in JsonTokens : Append(o.emit, x) \in Seq(JsonTokens)
      /\ o.emit \o EntrySeparator(e) \in Seq(JsonTokens)
      /\ o.emit \o EntrySeparator(e) \o <<"key">> \in Seq(JsonTokens)
  <2>3. "," \in JsonTokens /\ "key" \in JsonTokens
    BY DEF JsonTokens
  <2>4. /\ <<",">> \in Seq(JsonTokens)
        /\ <<"key">> \in Seq(JsonTokens)
        /\ <<>> \in Seq(JsonTokens)
    BY <2>3, ShortSeq
  <2>1. EntrySeparator(e) \in Seq(JsonTokens) /\ <<"key">> \in Seq(JsonTokens)
    BY <2>4, Zenon DEF EntrySeparator
  <2>2. o.emit \o EntrySeparator(e) \in Seq(JsonTokens)
    BY <1>1, <2>1, ConcatProperties
  <2>. QED
    BY <1>1, <2>1, <2>2, ConcatProperties, AppendProperties
<1>6. Typed(EncoderSeparator(o))
  BY <1>2, <1>3, <1>4, <1>5 DEF EncoderSeparator, EncSeparatorOk, InArray
<1>7. Typed(EncoderValue(o))
  BY <1>2, <1>3, <1>4, <1>5 DEF EncoderValue, EncValue, JsonTokens
<1>8. Typed(EncoderKey(o))
  BY <1>2, <1>3, <1>4, <1>5 DEF EncoderKey, EncKeyOk, InObject
<1>9. ASSUME NEW kind \in Kinds
      PROVE  Typed(EncoderBegin(kind, o)) /\ Typed(EncoderEnd(kind, o))
  BY <1>2, <1>3, <1>4, <1>5 DEF EncoderBegin, EncoderEnd, JsonTokens, Opener, Closer
<1>. QED
  BY <1>6, <1>7, <1>8, <1>9

(* So does every handler.                                                  *)
LEMMA HandlerTyped ==
    ASSUME NEW o, Typed(o), NEW event \in Events
    PROVE  Typed(Handle(event, o))
<1>1. Typed(PrepareEntry(o))
  BY StructStepsTyped, EncoderStepsTyped DEF PrepareEntry, Try
<1>2. Typed(Try(PrepareEntry(o), StructValue))
  BY <1>1, StructStepsTyped DEF Try
<1>3. Typed(Scalar(o)) /\ Typed(NonFinite(o))
  BY <1>2, StructStepsTyped, EncoderStepsTyped DEF Scalar, NonFinite, Try
<1>4. ASSUME NEW kind \in Kinds
      PROVE  Typed(BeginContainer(kind, o)) /\ Typed(EndContainer(kind, o))
  BY <1>1, StructStepsTyped, EncoderStepsTyped DEF BeginContainer, EndContainer, Try
<1>5. Typed(ObjectKey(o))
  BY StructStepsTyped, EncoderStepsTyped DEF ObjectKey, Try
<1>. QED
  BY <1>3, <1>4, <1>5 DEF Handle, Events, Kinds

(* The type invariant of JsonSink, with the shape of both frame stacks.    *)
THEOREM TypeCorrect == Spec => []TypeOK
<1>1. Init => TypeOK
  <2>1. <<>> \in Seq(Frame) /\ <<>> \in Seq(EncodeFrame) /\ <<>> \in Seq(JsonTokens)
        /\ OnlyTopDue(<<>>)
    BY EmptySeq DEF OnlyTopDue
  <2>. QED
    BY <2>1, JsonSinkAssumption
       DEF Init, TypeOK, NewState, NewEncoder, NewOut, States, Encoders, Answers
<1>2. TypeOK /\ [Next]_vars => TypeOK'
  <2>. SUFFICES ASSUME TypeOK, [Next]_vars
                PROVE  TypeOK'
    OBVIOUS
  <2>o. out \in Outs(JsonTokens)
    BY DEF TypeOK, Outs
  <2>1. ASSUME NEW event \in Events, Event(event)
        PROVE  TypeOK'
    <3>. DEFINE o == Handle(event, Start)
                filled == Put(out, o.emit)
    <3>1. Typed(Start)
      BY EmptySeq DEF TypeOK, Typed, Start, Outcomes
    <3>2. Typed(o)
      BY <3>1, HandlerTyped
    <3>. HIDE DEF o
    <3>3. o.emit \in Seq(JsonTokens) /\ o.ok \in BOOLEAN
      BY <3>2 DEF Typed, Outcomes
    <3>4. filled \in Outs(JsonTokens)
      BY <2>o, <3>3, PutProperties
    <3>. HIDE DEF filled
    <3>5. PICK w \in IF o.spill THEN MaybeFlush(filled) ELSE {Settled(filled)} :
              /\ out' = w.out
              /\ Return(event, Answer(o.ok, w.ok))
              /\ accepted' = IF o.ok /\ w.ok THEN Append(accepted, EventToken(event))
                             ELSE accepted
      BY <2>1 DEF Event, o, filled
    <3>6. w.out \in Outs(JsonTokens) /\ w.ok \in BOOLEAN
      <4>1. CASE o.spill
        BY <3>4, <3>5, <4>1, MaybeFlushProperties
      <4>2. CASE ~o.spill
        <5>1. w = [out |-> filled, ok |-> TRUE]
          BY <3>5, <4>2 DEF Settled
        <5>. QED
          BY <3>4, <5>1
      <4>. QED
        BY <4>1, <4>2
    <3>7. /\ structure' \in States /\ OnlyTopDue(structure'.frames)
          /\ encoder' \in Encoders /\ OnlyTopDue(encoder'.frames)
      BY <2>1, <3>2 DEF Event, Typed, Outcomes, o
    <3>8. emitted' \in Seq(JsonTokens)
      BY <2>1, <3>3, ConcatProperties DEF Event, TypeOK, o
    <3>9. out' \in [buf : Seq(JsonTokens), wire : Seq(JsonTokens)]
      BY <3>5, <3>6 DEF Outs
    <3>10. Answer(o.ok, w.ok) \in Answers
      BY DEF Answer, Answers
    <3>11. calls' \in 0 .. MaxCalls[caller']
      BY <2>1, <3>5, JsonSinkAssumption DEF Event, CanCall, Return, TypeOK
    <3>12. call' \in [event : Events \cup {"none", "finish"}, answer : Answers]
      BY <3>5, <3>10 DEF Return
    <3>13. status' \in {"open", "stopped", "done", "rejected"}
      BY <3>5 DEF Return
    <3>14. accepted' \in Seq(JsonTokens)
      <4>1. o.ok => event # "nonfinite"
        BY DEF o, Handle, NonFinite, Fail
      <4>2. event # "nonfinite" => EventToken(event) \in JsonTokens
        BY DEF Events, EventToken, JsonTokens
      <4>. QED
        BY <3>5, <4>1, <4>2, AppendProperties DEF TypeOK
    <3>15. caller' \in Callers
      BY <3>5 DEF Return, TypeOK
    <3>. QED
      BY <3>7, <3>8, <3>9, <3>11, <3>12, <3>13, <3>14, <3>15 DEF TypeOK
  <2>2. CASE Finish
    <3>1. PICK w \in IF FinishOk(structure) /\ EncFinishOk(TRUE, encoder)
                     THEN Flush(out) ELSE {[out |-> out, ok |-> FALSE]} :
             /\ out' = w.out
             /\ call' = [event |-> "finish",
                         answer |-> IF FinishOk(structure) /\ EncFinishOk(TRUE, encoder)
                                    THEN Answer(TRUE, w.ok) ELSE "refused"]
             /\ status' = IF w.ok THEN "done" ELSE "rejected"
      BY <2>2 DEF Finish
    <3>2. w.out \in Outs(JsonTokens) /\ w.ok \in BOOLEAN
      <4>1. CASE FinishOk(structure) /\ EncFinishOk(TRUE, encoder)
        <5>1. w \in Flush(out)
          BY <3>1, <4>1
        <5>. QED
          BY <2>o, <5>1, FlushProperties
      <4>2. CASE ~(FinishOk(structure) /\ EncFinishOk(TRUE, encoder))
        <5>1. w = [out |-> out, ok |-> FALSE]
          BY <3>1, <4>2
        <5>. QED
          BY <2>o, <5>1
      <4>. QED
        BY <4>1, <4>2
    <3>3. Answer(TRUE, w.ok) \in Answers /\ "refused" \in Answers
      BY DEF Answer, Answers
    <3>. QED
      BY <2>2, <3>1, <3>2, <3>3 DEF Finish, TypeOK, Outs
  <2>3. CASE UNCHANGED vars
    BY <2>3 DEF vars, TypeOK
  <2>. QED
    BY <2>1, <2>2, <2>3 DEF Next
<1>. QED
  BY <1>1, <1>2, PTL DEF Spec

-----------------------------------------------------------------------------
(* The two checkers in lockstep.                                           *)

\* InStep, in the middle of an array element too.
NearStep(s, e) ==
    /\ Len(s.frames) = Len(e.frames)
    /\ s.root = e.root
    /\ \A i \in 1 .. Len(s.frames) :
          /\ s.frames[i].kind = e.frames[i].kind
          /\ s.frames[i].due <=> e.frames[i].due
          /\ s.frames[i].due => i = Len(s.frames)

LEMMA InStepIsNear ==
    ASSUME NEW s, NEW e, InStep(s, e)
    PROVE  NearStep(s, e)
BY DEF InStep, NearStep

(* Both checkers are at their root, or neither is.                         *)
LEMMA SameRoot ==
    ASSUME NEW s \in States, NEW e \in Encoders, Len(s.frames) = Len(e.frames)
    PROVE  AtRoot(s) <=> AtRoot(e)
<1>1. s.frames \in Seq(Frame) /\ e.frames \in Seq(EncodeFrame)
  BY DEF States, Encoders
<1>. QED
  BY <1>1, EmptySeq DEF AtRoot

(* A value puts both back in step, wherever they were.                     *)
LEMMA ValueInStep ==
    ASSUME NEW s \in States, NEW e \in Encoders, NearStep(s, e)
    PROVE  /\ InStep(Value(s), Value(e))
           /\ Len(Value(s).frames) = Len(s.frames)
           /\ \A i \in 1 .. Len(s.frames) : ~Value(s).frames[i].due
<1>1. /\ Value(s).root = IF AtRoot(s) THEN TRUE ELSE s.root
      /\ DueIs(FALSE, s.frames, Value(s).frames)
  BY FrameIsSlotted, ValueProperties
<1>2. /\ Value(e).root = IF AtRoot(e) THEN TRUE ELSE e.root
      /\ DueIs(FALSE, e.frames, Value(e).frames)
  BY EncodeFrameIsSlotted, ValueProperties
<1>3. AtRoot(s) <=> AtRoot(e)
  BY SameRoot DEF NearStep
<1>4. Value(s).root = Value(e).root
  BY <1>1, <1>2, <1>3 DEF NearStep
<1>5. ASSUME NEW i \in 1 .. Len(s.frames)
      PROVE  /\ Value(s).frames[i].kind = Value(e).frames[i].kind
             /\ ~Value(s).frames[i].due
             /\ ~Value(e).frames[i].due
  BY <1>1, <1>2 DEF NearStep, DueIs
<1>6. Len(Value(s).frames) = Len(s.frames) /\ Len(Value(e).frames) = Len(s.frames)
  BY <1>1, <1>2 DEF DueIs, NearStep
<1>. QED
  BY <1>4, <1>5, <1>6 DEF InStep

(* BeginTokens a container on both sides keeps them in step.                   *)
LEMMA BeginInStep ==
    ASSUME NEW s \in States, NEW e \in Encoders, NearStep(s, e), NEW kind \in Kinds
    PROVE  InStep(Begin(kind, s), EncBegin(TRUE, kind, e))
<1>. DEFINE f == [kind |-> kind, due |-> FALSE]
            g == [kind |-> kind, due |-> FALSE, first |-> TRUE]
            sb == Begin(kind, s)
            eb == EncBegin(TRUE, kind, e)
            n == Len(s.frames)
<1>1. InStep(Value(s), Value(e)) /\ Len(Value(s).frames) = n
      /\ \A i \in 1 .. n : ~Value(s).frames[i].due
  BY ValueInStep
<1>2. f \in Frame /\ g \in EncodeFrame /\ Len(e.frames) = n /\ n \in Nat
  BY LenProperties DEF Frame, EncodeFrame, NearStep, States
<1>3. sb = [Value(s) EXCEPT !.frames = Append(@, f)]
  BY DEF Begin
<1>4. eb = [Value(e) EXCEPT !.frames = Append(@, g)]
  BY DEF EncBegin, EncValue
<1>5. /\ sb.root = Value(s).root
      /\ Len(sb.frames) = n + 1
      /\ sb.frames[n + 1] = f
      /\ \A i \in 1 .. n : sb.frames[i] = Value(s).frames[i]
  <2>1. Slotted(Frame) /\ s \in Machine(Frame)
    BY FrameIsSlotted
  <2>2. Pushed(f, Value(s), sb)
    <3>. HIDE DEF f, sb
    <3>. QED
      BY <1>2, <1>3, <2>1, BeginProperties
  <2>. QED
    BY <1>1, <2>2 DEF Pushed
<1>6. /\ eb.root = Value(e).root
      /\ Len(eb.frames) = n + 1
      /\ eb.frames[n + 1] = g
      /\ \A i \in 1 .. n : eb.frames[i] = Value(e).frames[i]
  <2>1. Slotted(EncodeFrame) /\ e \in Machine(EncodeFrame)
    BY EncodeFrameIsSlotted
  <2>2. Pushed(g, Value(e), eb)
    <3>. HIDE DEF g, eb
    <3>. QED
      BY <1>2, <1>4, <2>1, BeginProperties
  <2>3. Len(Value(e).frames) = n
    BY <1>1 DEF InStep
  <2>. QED
    BY <2>2, <2>3 DEF Pushed
<1>. HIDE DEF sb, eb, n
<1>7. ASSUME NEW i \in 1 .. n + 1
      PROVE  /\ sb.frames[i].kind = eb.frames[i].kind
             /\ ~sb.frames[i].due /\ ~eb.frames[i].due
  <2>1. CASE i = n + 1
    BY <1>5, <1>6, <2>1
  <2>2. CASE i # n + 1
    <3>1. i \in 1 .. n
      BY <1>2, <2>2
    <3>. QED
      BY <1>1, <1>5, <1>6, <3>1 DEF InStep
  <2>. QED
    BY <2>1, <2>2
<1>8. InStep(sb, eb)
  BY <1>1, <1>5, <1>6, <1>7 DEF InStep
<1>. QED
  BY <1>8 DEF sb, eb

(* A separator, or a key, puts the same debt on the top of both.           *)
LEMMA EntryNearStep ==
    ASSUME NEW s \in States, NEW e \in Encoders, NearStep(s, e), ~AtRoot(s)
    PROVE  /\ NearStep(SetDue(s, TRUE), EncEntry(TRUE, e))
           /\ InStep(s, e) /\ InObject(s) => InStep(SetDue(s, TRUE), EncEntry(TRUE, e))
<1>. DEFINE t == SetDue(s, TRUE)
            d == EncEntry(TRUE, e)
            n == Len(s.frames)
<1>1. t.root = s.root /\ DueIs(TRUE, s.frames, t.frames)
  <2>1. Slotted(Frame) /\ s \in Machine(Frame)
    BY FrameIsSlotted
  <2>. QED
    BY <2>1, SetDueProperties
<1>2. d.root = e.root /\ DueIs(TRUE, e.frames, d.frames)
  <2>1. ~AtRoot(e)
    BY SameRoot DEF NearStep
  <2>. QED
    BY <2>1, EncEntryProperties
<1>. HIDE DEF t, d
<1>3. Len(e.frames) = n /\ Len(t.frames) = n /\ Len(d.frames) = n /\ t.root = d.root
  BY <1>1, <1>2 DEF NearStep, DueIs
<1>4. ASSUME NEW i \in 1 .. n
      PROVE  /\ t.frames[i].kind = s.frames[i].kind
             /\ t.frames[i].kind = d.frames[i].kind
             /\ t.frames[i].due <=> d.frames[i].due
             /\ t.frames[i].due => i = n
  <2>1. /\ s.frames[i].kind = e.frames[i].kind
        /\ s.frames[i].due <=> e.frames[i].due
        /\ s.frames[i].due => i = n
    BY DEF NearStep
  <2>2. CASE i = n
    BY <1>1, <1>2, <1>3, <2>1, <2>2 DEF DueIs
  <2>3. CASE i # n
    BY <1>1, <1>2, <1>3, <2>1, <2>3 DEF DueIs
  <2>. QED
    BY <2>2, <2>3
<1>5. NearStep(t, d)
  BY <1>3, <1>4 DEF NearStep
<1>6. ASSUME InObject(s)
      PROVE  InStep(t, d)
  <2>1. s.frames[n].kind = "object"
    <3>1. s \in Machine(Frame)
      BY FrameIsSlotted
    <3>2. Top(s) = s.frames[n]
      BY <3>1, TopIsLast
    <3>. QED
      BY <1>6, <3>2 DEF InObject
  <2>2. \A i \in 1 .. n : t.frames[i].due => i = n /\ t.frames[i].kind = "object"
    BY <1>4, <2>1
  <2>. QED
    BY <1>3, <1>4, <2>2 DEF InStep
<1>. QED
  BY <1>5, <1>6 DEF t, d

(* EndTokens a container that owes nothing, on both sides.                   *)
LEMMA EndInStep ==
    ASSUME NEW s \in States, NEW e \in Encoders, InStep(s, e), ~AtRoot(s)
    PROVE  InStep(End(s), EncEnd(e))
<1>. DEFINE n == Len(s.frames)
            t == End(s)
            d == End(e)
<1>1. /\ t.root = s.root /\ Len(t.frames) = n - 1
      /\ \A i \in 1 .. n - 1 : t.frames[i] = s.frames[i]
  <2>1. s \in Machine(Frame)
    BY FrameIsSlotted
  <2>. QED
    BY <2>1, EndProperties
<1>2. /\ d.root = e.root /\ Len(d.frames) = n - 1
      /\ \A i \in 1 .. n - 1 : d.frames[i] = e.frames[i]
  <2>1. ~AtRoot(e) /\ Len(e.frames) = n
    BY SameRoot DEF InStep
  <2>2. e \in Machine(EncodeFrame)
    BY EncodeFrameIsSlotted
  <2>. QED
    BY <2>1, <2>2, EndProperties
<1>. HIDE DEF t, d
<1>3. n \in Nat
  BY LenProperties DEF States
<1>4. ASSUME NEW i \in 1 .. n - 1
      PROVE  /\ t.frames[i].kind = d.frames[i].kind
             /\ t.frames[i].due <=> d.frames[i].due
             /\ ~t.frames[i].due
  <2>1. i \in 1 .. n /\ i # n
    BY <1>3
  <2>2. /\ s.frames[i].kind = e.frames[i].kind
        /\ s.frames[i].due <=> e.frames[i].due
        /\ ~s.frames[i].due
    BY <2>1 DEF InStep
  <2>. QED
    BY <1>1, <1>2, <2>2
<1>5. InStep(t, d)
  BY <1>1, <1>2, <1>4 DEF InStep
<1>. QED
  BY <1>5 DEF t, d, EncEnd

(* A handler that returns Ok leaves the checkers in step.  (One that fails *)
(* need not: the separators of a refused value stay, and end() has         *)
(* popped.)                                                                *)
LEMMA HandlerInStep ==
    ASSUME NEW o, Typed(o), o.ok, InStep(o.structure, o.encoder),
           NEW event \in Events, Handle(event, o).ok
    PROVE  InStep(Handle(event, o).structure, Handle(event, o).encoder)
<1>. DEFINE s == o.structure
            e == o.encoder
            p == PrepareEntry(o)
<1>1. s \in States /\ e \in Encoders /\ NearStep(s, e)
  BY InStepIsNear DEF Typed, Outcomes
<1>2. p.ok => NearStep(p.structure, p.encoder)
  <2>1. CASE InArray(s) /\ SeparatorOk(s) /\ EncSeparatorOk(TRUE, e)
    <3>1. p = [o EXCEPT !.structure = Separator(s), !.encoder = EncEntry(TRUE, e),
                        !.emit = @ \o EntrySeparator(e)]
      BY <2>1 DEF PrepareEntry, Try, StructSeparator, EncoderSeparator, Typed, Outcomes
    <3>2. p.structure = Separator(s) /\ p.encoder = EncEntry(TRUE, e)
      BY <3>1 DEF Typed, Outcomes
    <3>3. NearStep(Separator(s), EncEntry(TRUE, e))
      BY <1>1, <2>1, EntryNearStep DEF Separator, InArray
    <3>. QED
      BY <3>2, <3>3
  <2>2. CASE InArray(s) /\ ~(SeparatorOk(s) /\ EncSeparatorOk(TRUE, e))
    BY <2>2 DEF PrepareEntry, Try, StructSeparator, EncoderSeparator, Fail, Typed, Outcomes
  <2>3. CASE ~InArray(s)
    BY <1>1, <2>3 DEF PrepareEntry
  <2>. QED
    BY <2>1, <2>2, <2>3
<1>3. Typed(p)
  BY StructStepsTyped, EncoderStepsTyped DEF PrepareEntry, Try
<1>. HIDE DEF p
<1>4. ASSUME Scalar(o).ok
      PROVE  InStep(Scalar(o).structure, Scalar(o).encoder)
  <2>1. p.ok /\ ValueOk(TRUE, p.structure) /\ EncValueOk(TRUE, p.encoder)
    BY <1>3, <1>4 DEF Scalar, Try, StructValue, EncoderValue, Fail, Typed, Outcomes, p
  <2>2. Scalar(o).structure = Value(p.structure) /\ Scalar(o).encoder = Value(p.encoder)
    BY <1>3, <2>1
       DEF Scalar, Try, StructValue, EncoderValue, EncValue, Typed, Outcomes, p
  <2>3. InStep(Value(p.structure), Value(p.encoder))
    BY <1>2, <1>3, <2>1, ValueInStep DEF Typed, Outcomes
  <2>. QED
    BY <2>2, <2>3
<1>5. ASSUME NEW kind \in Kinds, BeginContainer(kind, o).ok
      PROVE  InStep(BeginContainer(kind, o).structure, BeginContainer(kind, o).encoder)
  <2>1. p.ok /\ ValueOk(TRUE, p.structure) /\ EncValueOk(TRUE, p.encoder)
    BY <1>3, <1>5
       DEF BeginContainer, Try, StructBegin, EncoderBegin, Fail, Typed, Outcomes, p
  <2>2. /\ BeginContainer(kind, o).structure = Begin(kind, p.structure)
        /\ BeginContainer(kind, o).encoder = EncBegin(TRUE, kind, p.encoder)
    BY <1>3, <2>1
       DEF BeginContainer, Try, StructBegin, EncoderBegin, Typed, Outcomes, p
  <2>3. InStep(Begin(kind, p.structure), EncBegin(TRUE, kind, p.encoder))
    BY <1>2, <1>3, <2>1, BeginInStep DEF Typed, Outcomes
  <2>. QED
    BY <2>2, <2>3
<1>6. ASSUME ObjectKey(o).ok
      PROVE  InStep(ObjectKey(o).structure, ObjectKey(o).encoder)
  <2>1. KeyOk(s) /\ EncKeyOk(TRUE, e)
    BY <1>6 DEF ObjectKey, Try, StructKey, EncoderKey, Fail, Typed, Outcomes
  <2>2. ObjectKey(o).structure = Key(s) /\ ObjectKey(o).encoder = EncEntry(TRUE, e)
    BY <2>1 DEF ObjectKey, Try, StructKey, EncoderKey, Typed, Outcomes
  <2>3. InStep(Key(s), EncEntry(TRUE, e))
    BY <1>1, <2>1, EntryNearStep DEF Key, KeyOk, InObject
  <2>. QED
    BY <2>2, <2>3
<1>7. ASSUME NEW kind \in Kinds, EndContainer(kind, o).ok
      PROVE  InStep(EndContainer(kind, o).structure, EndContainer(kind, o).encoder)
  <2>1. EndOk(kind, s)
    BY <1>7 DEF EndContainer, Try, StructEnd, EncoderEnd, Fail, Typed, Outcomes
  <2>2. EncEndOk(TRUE, kind, e)
    BY <1>7, <2>1 DEF EndContainer, Try, StructEnd, EncoderEnd, Fail, Typed, Outcomes
  <2>3. /\ EndContainer(kind, o).structure = End(s)
        /\ EndContainer(kind, o).encoder = EncEnd(e)
    BY <2>1, <2>2 DEF EndContainer, Try, StructEnd, EncoderEnd, Typed, Outcomes
  <2>4. InStep(End(s), EncEnd(e))
    BY <1>1, <2>1, EndInStep DEF EndOk
  <2>. QED
    BY <2>3, <2>4
<1>8. ~NonFinite(o).ok
  <2>1. Typed(Try(p, StructValue))
    BY <1>3, StructStepsTyped DEF Try
  <2>. QED
    BY <2>1 DEF NonFinite, Fail, Typed, Outcomes, p
<1>. QED
  BY <1>4, <1>5, <1>6, <1>7, <1>8 DEF Handle, Events, Kinds

(* As long as every call returned Ok, the EventState and the encoder hold  *)
(* the same open containers and owe the same value (JsonSink advances the  *)
(* two one after the other in every handler).                              *)
THEOREM CheckersInLockstep == Spec => []Lockstep
<1>1. Init => Lockstep
  BY EmptySeq DEF Init, Lockstep, InStep, NewState, NewEncoder
<1>2. TypeOK /\ Lockstep /\ [Next]_vars => Lockstep'
  <2>. SUFFICES ASSUME TypeOK, Lockstep, [Next]_vars
                PROVE  Lockstep'
    OBVIOUS
  <2>1. ASSUME NEW event \in Events, Event(event)
        PROVE  Lockstep'
    <3>. DEFINE o == Handle(event, Start)
    <3>1. Typed(Start) /\ Start.ok
      BY EmptySeq DEF TypeOK, Typed, Start, Outcomes
    <3>2. status = "open" /\ structure' = o.structure /\ encoder' = o.encoder
      BY <2>1 DEF Event, CanCall
    <3>3. ASSUME caller = "careful", status' \in {"open", "done"}
          PROVE  o.ok
      BY <2>1, <3>3 DEF Event, Return, Answer
    <3>4. caller = "careful" => InStep(Start.structure, Start.encoder)
      BY <3>2 DEF Lockstep, Start
    <3>5. caller = "careful" /\ o.ok => InStep(o.structure, o.encoder)
      BY <3>1, <3>4, HandlerInStep
    <3>6. caller' = caller
      BY <2>1 DEF Event, Return
    <3>. QED
      BY <3>2, <3>3, <3>5, <3>6 DEF Lockstep
  <2>2. CASE Finish
    BY <2>2 DEF Finish, Lockstep
  <2>3. CASE UNCHANGED vars
    BY <2>3 DEF vars, Lockstep
  <2>. QED
    BY <2>1, <2>2, <2>3 DEF Next
<1>. QED
  BY <1>1, <1>2, TypeCorrect, PTL DEF Spec

-----------------------------------------------------------------------------
(* What the writer receives.                                               *)

\* WireIsPrefix with what makes it inductive: while the sink is open, wire
\* and buffer together are exactly what was emitted.
WireInv ==
    caller # "persistent" =>
        /\ IsPrefix(out.wire, emitted)
        /\ status = "open" => Sent(out) = emitted
        /\ status = "done" => out.wire = emitted

(* With a caller that drops the sink once the writer failed, the writer    *)
(* received a prefix of what was emitted, each token once and in order,    *)
(* and all of it once finish returned Ok (Encoder::maybe_flush, finish).   *)
THEOREM WireIntegrity == Spec => []WireIsPrefix
<1>1. Init => WireInv
  <2>1. <<>> \in Seq(JsonTokens) /\ <<>> \o <<>> = <<>>
    BY EmptySeq
  <2>2. IsPrefix(<<>>, <<>> \o <<>>)
    BY <2>1, PrefixOfConcat
  <2>. QED
    BY <2>1, <2>2 DEF Init, WireInv, NewOut, Sent
<1>2. TypeOK /\ WireInv /\ [Next]_vars => WireInv'
  <2>. SUFFICES ASSUME TypeOK, WireInv, [Next]_vars
                PROVE  WireInv'
    OBVIOUS
  <2>o. out \in Outs(JsonTokens)
    BY DEF TypeOK, Outs
  <2>1. ASSUME NEW event \in Events, Event(event)
        PROVE  WireInv'
    <3>. DEFINE o == Handle(event, Start)
                filled == Put(out, o.emit)
    <3>1. Typed(Start)
      BY EmptySeq DEF TypeOK, Typed, Start, Outcomes
    <3>2. o.emit \in Seq(JsonTokens)
      BY <3>1, HandlerTyped DEF Typed, Outcomes
    <3>. HIDE DEF o
    <3>3. filled \in Outs(JsonTokens) /\ Sent(filled) = Sent(out) \o o.emit
      BY <2>o, <3>2, PutProperties
    <3>. HIDE DEF filled
    <3>4. PICK w \in IF o.spill THEN MaybeFlush(filled) ELSE {Settled(filled)} :
              out' = w.out /\ Return(event, Answer(o.ok, w.ok))
      BY <2>1 DEF Event, o, filled
    <3>5. status = "open" /\ emitted' = emitted \o o.emit
      BY <2>1 DEF Event, CanCall, o
    <3>6. IsPrefix(w.out.wire, Sent(filled)) /\ (w.ok => Sent(w.out) = Sent(filled))
      <4>1. CASE o.spill
        BY <3>3, <3>4, <4>1, MaybeFlushProperties
      <4>2. CASE ~o.spill
        <5>1. w.out = filled
          BY <3>4, <4>2 DEF Settled
        <5>2. IsPrefix(filled.wire, filled.wire \o filled.buf)
          BY <3>3, PrefixOfConcat DEF Outs
        <5>. QED
          BY <5>1, <5>2 DEF Sent
      <4>. QED
        BY <4>1, <4>2
    <3>7. caller # "persistent" => Sent(filled) = emitted'
      BY <3>3, <3>5 DEF WireInv
    <3>8. caller # "persistent" /\ status' = "open" => w.ok
      BY <3>4 DEF Return, Answer
    <3>9. status' # "done" /\ caller' = caller
      BY <3>4 DEF Return, Answer
    <3>. QED
      BY <3>4, <3>6, <3>7, <3>8, <3>9 DEF WireInv, Sent
  <2>2. CASE Finish
    <3>1. PICK w \in IF FinishOk(structure) /\ EncFinishOk(TRUE, encoder)
                     THEN Flush(out) ELSE {[out |-> out, ok |-> FALSE]} :
             out' = w.out /\ status' = IF w.ok THEN "done" ELSE "rejected"
      BY <2>2 DEF Finish
    <3>2. status = "open" /\ emitted' = emitted /\ caller' = caller
      BY <2>2 DEF Finish
    <3>3. CASE w \in Flush(out)
      <4>1. IsPrefix(w.out.wire, Sent(out)) /\ (w.ok => w.out.wire = Sent(out))
        BY <2>o, <3>3, FlushProperties
      <4>. QED
        BY <3>1, <3>2, <4>1 DEF WireInv
    <3>4. CASE w = [out |-> out, ok |-> FALSE]
      BY <3>1, <3>2, <3>4 DEF WireInv
    <3>. QED
      BY <3>1, <3>3, <3>4
  <2>3. CASE UNCHANGED vars
    BY <2>3 DEF vars, WireInv, Sent
  <2>. QED
    BY <2>1, <2>2, <2>3 DEF Next
<1>3. WireInv => WireIsPrefix
  BY DEF WireInv, WireIsPrefix
<1>. QED
  BY <1>1, <1>2, <1>3, TypeCorrect, PTL DEF Spec

-----------------------------------------------------------------------------
(* What the output says.                                                   *)

(* A place is a number, the next token's is one further unless it is a     *)
(* comma, and no place depends on the tokens behind it.                    *)
LEMMA PlaceProperties ==
    ASSUME NEW s, NEW i \in Nat
    PROVE  /\ Place(s, i) \in 0 .. i
           /\ Place(s, i + 1) = IF s[i + 1] = "," THEN Place(s, i) ELSE Place(s, i) + 1
           /\ \A t : (\A j \in 1 .. i : t[j] = s[j]) => Place(t, i) = Place(s, i)
<1>. DEFINE S == {j \in 1 .. i : s[j] # ","}
            T == {j \in 1 .. i + 1 : s[j] # ","}
<1>1. IsFiniteSet(1 .. i) /\ Cardinality(1 .. i) = i
  BY FS_Interval
<1>2. IsFiniteSet(S) /\ Cardinality(S) <= i
  BY <1>1, FS_Subset
<1>3. /\ \A j : j \in 1 .. i + 1 <=> j \in 1 .. i \/ j = i + 1
      /\ i + 1 \notin 1 .. i
  OBVIOUS
<1>4. /\ Place(s, i) = Cardinality(S) /\ Place(s, i + 1) = Cardinality(T)
  BY DEF Place
<1>5. s[i + 1] = "," => T = S
  BY <1>3, Zenon
<1>6. s[i + 1] # "," => T = S \cup {i + 1} /\ i + 1 \notin S
  BY <1>3, Zenon
<1>7. ASSUME NEW t, \A j \in 1 .. i : t[j] = s[j]
      PROVE  Place(t, i) = Place(s, i)
  <2>1. {j \in 1 .. i : t[j] # ","} = S
    BY <1>7, Zenon
  <2>. QED
    BY <2>1 DEF Place
<1>. HIDE DEF S, T
<1>8. Cardinality(S) \in Nat
  BY <1>2, FS_CardinalityType, Zenon
<1>9. s[i + 1] # "," => Cardinality(T) = Cardinality(S) + 1
  BY <1>2, <1>6, FS_AddElement
<1>10. Place(s, i) \in 0 .. i
  BY <1>2, <1>4, <1>8
<1>11. Place(s, i + 1) = IF s[i + 1] = "," THEN Place(s, i) ELSE Place(s, i) + 1
  BY <1>4, <1>5, <1>9, Zenon
<1>. QED
  BY <1>7, <1>10, <1>11, Zenon

(* The place of a token that is no comma is none of those before it and no *)
(* further than the last.                                                  *)
LEMMA PlaceMonotone ==
    ASSUME NEW s, NEW n \in Nat, NEW i \in 1 .. n
    PROVE  s[i] # "," => Place(s, i) \in 1 .. Place(s, n)
<1>. DEFINE S == {j \in 1 .. i : s[j] # ","}
            T == {j \in 1 .. n : s[j] # ","}
<1>0. /\ n \in Nat /\ i \in 1 .. i
      /\ \A j \in 1 .. i : j \in 1 .. n
  <2>1. i \in Int /\ 1 <= i /\ i <= n
    OBVIOUS
  <2>. QED
    BY <2>1
<1>1. IsFiniteSet(1 .. n)
  <2>1. 1 \in Int /\ n \in Int
    OBVIOUS
  <2>. QED
    BY <2>1, FS_Interval, Zenon
<1>2. S \subseteq T /\ (s[i] # "," => i \in S) /\ T \subseteq 1 .. n
  BY <1>0, Zenon
<1>3. Place(s, i) = Cardinality(S) /\ Place(s, n) = Cardinality(T)
  BY DEF Place
<1>. HIDE DEF S, T
<1>4. IsFiniteSet(T)
  BY <1>1, <1>2, FS_Subset
<1>5. IsFiniteSet(S) /\ Cardinality(S) <= Cardinality(T)
  BY <1>2, <1>4, FS_Subset
<1>6. i \in S => Cardinality(S) # 0
  BY <1>5, FS_EmptySet
<1>7. Cardinality(S) \in Nat /\ Cardinality(T) \in Nat
  BY <1>4, <1>5, FS_CardinalityType, Zenon
<1>8. i \in S => Cardinality(S) \in 1 .. Cardinality(T)
  BY <1>5, <1>6, <1>7
<1>. QED
  BY <1>2, <1>3, <1>8, Zenon

(* A comma more says nothing; any other token more says that token.        *)
LEMMA AppendSays ==
    ASSUME NEW s \in Seq(JsonTokens), NEW a \in Seq(JsonTokens), CommasAside(s, a),
           NEW t \in JsonTokens
    PROVE  /\ t = "," => CommasAside(Append(s, t), a)
           /\ t # "," => CommasAside(Append(s, t), Append(a, t))
<1>. DEFINE n == Len(s)
            r == Append(s, t)
<1>1. n \in Nat /\ Len(r) = n + 1 /\ r[n + 1] = t /\ \A i \in 1 .. n : r[i] = s[i]
  BY AppendProperties, LenProperties
<1>. HIDE DEF r, n
<1>2. \A i \in 0 .. n : Place(r, i) = Place(s, i) /\ Place(s, i) \in Nat
  <2>. SUFFICES ASSUME NEW i \in 0 .. n
                PROVE  Place(r, i) = Place(s, i) /\ Place(s, i) \in Nat
    OBVIOUS
  <2>1. i \in Nat /\ \A j \in 1 .. i : r[j] = s[j]
    BY <1>1
  <2>2. Place(r, i) = Place(s, i) /\ Place(s, i) \in 0 .. i
    BY <2>1, PlaceProperties, Zenon
  <2>. QED
    BY <2>1, <2>2
<1>3. Place(r, n + 1) = IF t = "," THEN Place(s, n) ELSE Place(s, n) + 1
  <2>1. Place(r, n + 1) = IF r[n + 1] = "," THEN Place(r, n) ELSE Place(r, n) + 1
    BY <1>1, PlaceProperties, Zenon
  <2>2. Place(r, n) = Place(s, n)
    BY <1>1, <1>2
  <2>. QED
    BY <1>1, <2>1, <2>2, Zenon
<1>4. Len(a) = Place(s, n) /\ Len(a) \in Nat
  BY LenProperties DEF CommasAside, n
<1>5. ASSUME NEW i \in 1 .. n, s[i] # ","
      PROVE  Place(s, i) \in 1 .. Len(a) /\ s[i] = a[Place(s, i)]
  <2>1. s[i] = a[Place(s, i)]
    BY <1>5 DEF CommasAside, n
  <2>2. Place(s, i) \in 1 .. Place(s, n)
    BY <1>1, <1>5, PlaceMonotone
  <2>. QED
    BY <1>4, <2>1, <2>2
<1>6. CASE t = ","
  <2>1. Len(a) = Place(r, n + 1)
    BY <1>3, <1>4, <1>6
  <2>2. ASSUME NEW i \in 1 .. n + 1, r[i] # ","
        PROVE  r[i] = a[Place(r, i)]
    <3>1. i # n + 1
      BY <1>1, <1>6, <2>2, Zenon
    <3>2. i \in 1 .. n /\ i \in 0 .. n
      BY <1>1, <3>1
    <3>3. r[i] = s[i] /\ Place(r, i) = Place(s, i)
      BY <1>1, <1>2, <3>2, Zenon
    <3>. QED
      BY <1>5, <2>2, <3>2, <3>3, Zenon
  <2>. QED
    BY <1>1, <1>6, <2>1, <2>2 DEF CommasAside, r
<1>7. CASE t # ","
  <2>. DEFINE b == Append(a, t)
  <2>1. Len(b) = Len(a) + 1 /\ b[Len(a) + 1] = t /\ \A i \in 1 .. Len(a) : b[i] = a[i]
    BY AppendProperties
  <2>. HIDE DEF b
  <2>2. Len(b) = Place(r, n + 1)
    BY <1>3, <1>4, <1>7, <2>1
  <2>3. ASSUME NEW i \in 1 .. n + 1, r[i] # ","
        PROVE  r[i] = b[Place(r, i)]
    <3>1. CASE i = n + 1
      BY <1>1, <1>3, <1>4, <1>7, <2>1, <3>1
    <3>2. CASE i # n + 1
      <4>1. i \in 1 .. n
        BY <1>1, <3>2
      <4>2. r[i] = s[i] /\ Place(r, i) = Place(s, i)
        BY <1>1, <1>2, <4>1
      <4>. QED
        BY <1>5, <2>1, <2>3, <4>1, <4>2
    <3>. QED
      BY <3>1, <3>2
  <2>. QED
    BY <1>1, <1>7, <2>2, <2>3 DEF CommasAside, r, b
<1>. QED
  BY <1>6, <1>7

Leads == {<<>>, <<",">>}

\* A handler has said nothing yet, or at most that an entry follows.
Silent(o) == o.emit \in Leads

\* The token, behind a comma or not.
Spoken(token) == {Append(lead, token) : lead \in Leads}

\* A handler that returns Ok says its event; one that does not says nothing.
Says(event, o) == IF o.ok THEN o.emit \in Spoken(EventToken(event)) ELSE Silent(o)

(* The comma of an entry is the first that a handler puts into the buffer. *)
LEMMA EntryIsSilent ==
    ASSUME NEW o, Typed(o), o.emit = <<>>
    PROVE  Silent(PrepareEntry(o))
<1>1. /\ StructSeparator(o).emit = <<>>
  BY DEF StructSeparator, Fail, Typed, Outcomes
<1>2. ASSUME NEW p, Typed(p), p.emit = <<>>
      PROVE  Silent(EncoderSeparator(p))
  <2>1. p.emit \o EntrySeparator(p.encoder) \in Leads /\ p.emit \in Leads
    BY <1>2 DEF EntrySeparator, Leads
  <2>2. EncoderSeparator(p).emit \in Leads
    BY <1>2, <2>1 DEF EncoderSeparator, Fail, Typed, Outcomes
  <2>. QED
    BY <2>2 DEF Silent
<1>3. Typed(StructSeparator(o))
  BY StructStepsTyped
<1>. QED
  BY <1>1, <1>2, <1>3 DEF PrepareEntry, Try, Silent, Leads

(* Every handler says its event, or nothing.                               *)
LEMMA HandlerSays ==
    ASSUME NEW o, Typed(o), o.ok, o.emit = <<>>, NEW event \in Events
    PROVE  Says(event, Handle(event, o))
<1>1. ASSUME NEW p, Typed(p), Silent(p)
      PROVE  /\ Silent(StructValue(p)) /\ Silent(StructKey(p)) /\ Silent(Fail(p))
             /\ \A kind : Silent(StructBegin(kind, p)) /\ Silent(StructEnd(kind, p))
  BY <1>1 DEF Silent, StructValue, StructKey, StructBegin, StructEnd, Fail, Typed, Outcomes
<1>2. ASSUME NEW p, Typed(p), Silent(p)
      PROVE  Fail(p).ok = FALSE /\ Silent(Fail(p))
  BY <1>1, <1>2 DEF Fail, Typed, Outcomes
<1>4. ASSUME NEW p, Typed(p), Silent(p), p.ok
      PROVE  LET q == EncoderValue(p)
             IN  IF q.ok THEN q.emit \in Spoken("value") ELSE Silent(q)
  <2>1. Append(p.emit, "value") \in Spoken("value")
    BY <1>4 DEF Silent, Spoken
  <2>2. \/ EncoderValue(p) = Fail(p)
        \/ EncoderValue(p).ok = TRUE /\ EncoderValue(p).emit = Append(p.emit, "value")
    BY <1>4 DEF EncoderValue, Typed, Outcomes
  <2>. QED
    BY <1>2, <1>4, <2>1, <2>2
<1>5. ASSUME NEW p, Typed(p), Silent(p), p.ok, NEW kind
      PROVE  LET q == EncoderBegin(kind, p)
             IN  IF q.ok THEN q.emit \in Spoken(Opener(kind)) ELSE Silent(q)
  <2>1. Append(p.emit, Opener(kind)) \in Spoken(Opener(kind))
    BY <1>5 DEF Silent, Spoken
  <2>2. \/ EncoderBegin(kind, p) = Fail(p)
        \/ EncoderBegin(kind, p).ok = TRUE /\ EncoderBegin(kind, p).emit = Append(p.emit, Opener(kind))
    BY <1>5 DEF EncoderBegin, Typed, Outcomes
  <2>. QED
    BY <1>2, <1>5, <2>1, <2>2
<1>6. ASSUME NEW p, Typed(p), Silent(p), p.ok, NEW kind
      PROVE  LET q == EncoderEnd(kind, p)
             IN  IF q.ok THEN q.emit \in Spoken(Closer(kind)) ELSE Silent(q)
  <2>1. Append(p.emit, Closer(kind)) \in Spoken(Closer(kind))
    BY <1>6 DEF Silent, Spoken
  <2>2. \/ EncoderEnd(kind, p) = Fail(p)
        \/ EncoderEnd(kind, p).ok = TRUE /\ EncoderEnd(kind, p).emit = Append(p.emit, Closer(kind))
    BY <1>6 DEF EncoderEnd, Typed, Outcomes
  <2>. QED
    BY <1>2, <1>6, <2>1, <2>2
<1>7. ASSUME NEW p, Typed(p), p.emit = <<>>, p.ok
      PROVE  LET q == EncoderKey(p)
             IN  IF q.ok THEN q.emit \in Spoken("key") ELSE Silent(q)
  <2>. DEFINE lead == EntrySeparator(p.encoder)
  <2>1. lead \in Leads
    BY DEF EntrySeparator, Leads
  <2>2. lead \in Seq(JsonTokens) /\ "key" \in JsonTokens
    <3>1. "," \in JsonTokens /\ "key" \in JsonTokens
      BY DEF JsonTokens
    <3>. QED
      BY <2>1, <3>1, ShortSeq DEF Leads
  <2>. HIDE DEF lead
  <2>3. <<>> \o lead = lead
    BY <2>2
  <2>4. lead \o <<"key">> = Append(lead, "key")
    BY <2>2
  <2>5. p.emit \o lead \o <<"key">> \in Spoken("key")
    BY <1>7, <2>1, <2>3, <2>4, Zenon DEF Spoken
  <2>6. \/ EncoderKey(p) = Fail(p)
        \/ EncoderKey(p).ok = TRUE /\ EncoderKey(p).emit = p.emit \o lead \o <<"key">>
    BY <1>7 DEF EncoderKey, Typed, Outcomes, lead
  <2>7. Silent(p)
    BY <1>7 DEF Silent, Leads
  <2>. QED
    BY <1>2, <1>7, <2>5, <2>6, <2>7
<1>8. Typed(PrepareEntry(o)) /\ Silent(PrepareEntry(o))
  BY EntryIsSilent, StructStepsTyped, EncoderStepsTyped DEF PrepareEntry, Try
<1>9. Typed(Try(PrepareEntry(o), StructValue)) /\ Silent(Try(PrepareEntry(o), StructValue))
  BY <1>1, <1>8, StructStepsTyped DEF Try
<1>10. CASE event \in {"word", "text"}
  <2>. DEFINE p == Try(PrepareEntry(o), StructValue)
  <2>1. Handle(event, o) = IF p.ok THEN EncoderValue(p) ELSE p
    BY <1>10 DEF Handle, Scalar, Try
  <2>2. Typed(p) /\ Silent(p)
    BY <1>9
  <2>3. EventToken(event) = "value"
    BY <1>10 DEF EventToken
  <2>. HIDE DEF p
  <2>. QED
    BY <1>4, <2>1, <2>2, <2>3 DEF Says
<1>11. CASE event = "nonfinite"
  <2>. DEFINE p == Try(PrepareEntry(o), StructValue)
  <2>1. Handle(event, o) = Fail(p)
    BY <1>11 DEF Handle, NonFinite
  <2>2. Typed(p) /\ Silent(p)
    BY <1>9
  <2>. HIDE DEF p
  <2>3. Silent(Fail(p)) /\ Fail(p).ok = FALSE
    BY <1>1, <2>2 DEF Fail, Typed, Outcomes
  <2>. QED
    BY <2>1, <2>3 DEF Says
<1>12. ASSUME NEW kind \in Kinds, event = (IF kind = "array" THEN "begin_array" ELSE "begin_object")
       PROVE  Says(event, Handle(event, o))
  <2>. DEFINE p == IF PrepareEntry(o).ok THEN StructBegin(kind, PrepareEntry(o)) ELSE PrepareEntry(o)
  <2>1. Handle(event, o) = IF p.ok THEN EncoderBegin(kind, p) ELSE p
    BY <1>12 DEF Handle, BeginContainer, Try, Kinds
  <2>2. Typed(p) /\ Silent(p)
    BY <1>1, <1>8, StructStepsTyped
  <2>3. EventToken(event) = Opener(kind)
    BY <1>12 DEF EventToken, Opener, Kinds
  <2>. HIDE DEF p
  <2>. QED
    BY <1>5, <2>1, <2>2, <2>3 DEF Says
<1>13. ASSUME NEW kind \in Kinds, event = (IF kind = "array" THEN "end_array" ELSE "end_object")
       PROVE  Says(event, Handle(event, o))
  <2>. DEFINE p == StructEnd(kind, o)
  <2>1. Handle(event, o) = IF p.ok THEN EncoderEnd(kind, p) ELSE p
    BY <1>13 DEF Handle, EndContainer, Try, Kinds
  <2>2. Typed(p) /\ Silent(p)
    BY <1>1, StructStepsTyped DEF Silent, Leads
  <2>3. EventToken(event) = Closer(kind)
    BY <1>13 DEF EventToken, Closer, Kinds
  <2>. HIDE DEF p
  <2>. QED
    BY <1>6, <2>1, <2>2, <2>3 DEF Says
<1>14. CASE event = "object_key"
  <2>. DEFINE p == StructKey(o)
  <2>1. Handle(event, o) = IF p.ok THEN EncoderKey(p) ELSE p
    BY <1>14 DEF Handle, ObjectKey, Try
  <2>2. Typed(p) /\ p.emit = <<>>
    BY StructStepsTyped DEF StructKey, Fail, Typed, Outcomes
  <2>3. EventToken(event) = "key"
    BY <1>14 DEF EventToken
  <2>. HIDE DEF p
  <2>. QED
    BY <1>7, <2>1, <2>2, <2>3 DEF Says, Silent, Leads
<1>15. /\ event = "begin_array" \/ event = "begin_object" => Says(event, Handle(event, o))
       /\ event = "end_array" \/ event = "end_object" => Says(event, Handle(event, o))
  BY <1>12, <1>13 DEF Kinds
<1>. QED
  BY <1>10, <1>11, <1>14, <1>15 DEF Events

(* What a handler says is what is accepted if it returns Ok.               *)
LEMMA SaysKeeps ==
    ASSUME NEW s \in Seq(JsonTokens), NEW a \in Seq(JsonTokens), CommasAside(s, a),
           NEW event \in Events, NEW o, Says(event, o), o.ok => event # "nonfinite"
    PROVE  CommasAside(s \o o.emit, IF o.ok THEN Append(a, EventToken(event)) ELSE a)
<1>. DEFINE t == EventToken(event)
            b == Append(a, t)
<1>1. "," \in JsonTokens
  BY DEF JsonTokens
<1>2. /\ <<>> \in Seq(JsonTokens) /\ <<",">> \in Seq(JsonTokens)
      /\ s \o <<>> = s /\ s \o <<",">> = Append(s, ",")
  <2>1. <<>> \in Seq(JsonTokens) /\ <<",">> \in Seq(JsonTokens)
    BY <1>1, ShortSeq, Zenon
  <2>2. s \o <<>> = s
    BY ConcatEmptySeq, Zenon
  <2>3. s \o <<",">> = Append(s, ",")
    BY <1>1, AppendBehind
  <2>. QED
    BY <2>1, <2>2, <2>3
<1>3. CommasAside(Append(s, ","), a)
  BY <1>1, AppendSays
<1>4. ASSUME NEW lead \in Leads
      PROVE  /\ lead \in Seq(JsonTokens)
             /\ s \o lead \in Seq(JsonTokens)
             /\ CommasAside(s \o lead, a)
  <2>1. lead \in Seq(JsonTokens) /\ CommasAside(s \o lead, a)
    BY <1>2, <1>3, <1>4, Zenon DEF Leads
  <2>. QED
    BY <2>1, ConcatProperties
<1>5. CASE ~o.ok
  BY <1>4, <1>5, Zenon DEF Says, Silent
<1>6. CASE o.ok
  <2>1. t \in JsonTokens /\ t # ","
    BY <1>6 DEF Events, EventToken, JsonTokens
  <2>. HIDE DEF t, b
  <2>2. PICK lead \in Leads : o.emit = Append(lead, t)
    BY <1>6 DEF Says, Spoken, t
  <2>3. s \o Append(lead, t) = Append(s \o lead, t)
    <3>1. lead \in Seq(JsonTokens)
      BY <1>4
    <3>2. \A u, c \in Seq(JsonTokens), x \in JsonTokens : u \o Append(c, x) = Append(u \o c, x)
      BY AppendBehind
    <3>. QED
      BY <2>1, <3>1, <3>2, Zenon
  <2>4. CommasAside(Append(s \o lead, t), b)
    BY <1>4, <2>1, <2>2, AppendSays DEF b
  <2>. QED
    BY <1>6, <2>2, <2>3, <2>4, Zenon DEF t, b
<1>. QED
  BY <1>5, <1>6

\* OutputIsAccepted, and that a sink whose writer failed is not open.
SaidInv ==
    caller # "persistent" =>
        /\ status = "open" => call.answer # "io"
        /\ call.answer # "io" => CommasAside(Sent(out), accepted)

(* Until the writer fails, what was written, commas aside, is exactly what *)
(* the calls that returned Ok said, whatever the caller does about a call  *)
(* that did not (prepare_value and prepare_container write nothing but a   *)
(* comma before both checkers have agreed).                                *)
THEOREM NothingHalfWritten == Spec => []OutputIsAccepted
<1>1. Init => SaidInv
  <2>1. <<>> \o <<>> = <<>> /\ Len(<<>>) = 0
    OBVIOUS
  <2>2. Place(<<>>, 0) = 0
    <3>1. Place(<<>>, 0) \in 0 .. 0
      BY PlaceProperties
    <3>. QED
      BY <3>1
  <2>3. CommasAside(<<>>, <<>>)
    BY <2>1, <2>2 DEF CommasAside
  <2>. QED
    BY <2>1, <2>3 DEF Init, SaidInv, NewOut, Sent
<1>2. TypeOK /\ SaidInv /\ [Next]_vars => SaidInv'
  <2>. SUFFICES ASSUME TypeOK, SaidInv, [Next]_vars, caller # "persistent"
                PROVE  SaidInv'
    <3>1. [Next]_vars => caller' = caller
      BY DEF Next, Event, Return, Finish, vars
    <3>. QED
      BY <3>1 DEF SaidInv
  <2>o. out \in Outs(JsonTokens) /\ Sent(out) \in Seq(JsonTokens)
    BY ConcatProperties DEF TypeOK, Outs, Sent
  <2>1. ASSUME NEW event \in Events, Event(event)
        PROVE  SaidInv'
    <3>. DEFINE o == Handle(event, Start)
                filled == Put(out, o.emit)
    <3>1. Typed(Start) /\ Start.ok /\ Start.emit = <<>>
      BY EmptySeq DEF TypeOK, Typed, Start, Outcomes
    <3>2. o.emit \in Seq(JsonTokens) /\ Says(event, o) /\ o.ok \in BOOLEAN
      BY <3>1, HandlerTyped, HandlerSays DEF Typed, Outcomes
    <3>3. o.ok => event # "nonfinite"
      BY DEF Handle, NonFinite, Fail
    <3>. HIDE DEF o
    <3>4. filled \in Outs(JsonTokens) /\ Sent(filled) = Sent(out) \o o.emit
      BY <2>o, <3>2, PutProperties
    <3>. HIDE DEF filled
    <3>5. PICK w \in IF o.spill THEN MaybeFlush(filled) ELSE {Settled(filled)} :
              /\ out' = w.out
              /\ Return(event, Answer(o.ok, w.ok))
              /\ accepted' = IF o.ok /\ w.ok THEN Append(accepted, EventToken(event))
                             ELSE accepted
      BY <2>1 DEF Event, o, filled
    <3>6. w.ok => Sent(w.out) = Sent(filled)
      <4>1. CASE o.spill
        BY <3>4, <3>5, <4>1, MaybeFlushProperties
      <4>2. CASE ~o.spill
        BY <3>5, <4>2 DEF Settled
      <4>. QED
        BY <4>1, <4>2
    <3>7. /\ call'.answer # "io" => w.ok
          /\ status' = "open" => call'.answer # "io"
      BY <3>5 DEF Return, Answer
    <3>8. CommasAside(Sent(out), accepted) /\ accepted \in Seq(JsonTokens)
      BY <2>1 DEF Event, CanCall, SaidInv, TypeOK
    <3>9. CommasAside(Sent(filled), IF o.ok THEN Append(accepted, EventToken(event)) ELSE accepted)
      BY <2>o, <3>2, <3>3, <3>4, <3>8, SaysKeeps
    <3>10. w.ok => CommasAside(Sent(w.out), accepted')
      BY <3>5, <3>6, <3>9
    <3>11. Sent(out)' = Sent(w.out)
      BY <3>5 DEF Sent
    <3>. QED
      BY <3>7, <3>10, <3>11 DEF SaidInv
  <2>2. CASE Finish
    <3>1. PICK w \in IF FinishOk(structure) /\ EncFinishOk(TRUE, encoder)
                     THEN Flush(out) ELSE {[out |-> out, ok |-> FALSE]} :
             /\ out' = w.out
             /\ call' = [event |-> "finish",
                         answer |-> IF FinishOk(structure) /\ EncFinishOk(TRUE, encoder)
                                    THEN Answer(TRUE, w.ok) ELSE "refused"]
             /\ status' = IF w.ok THEN "done" ELSE "rejected"
      BY <2>2 DEF Finish
    <3>2. status = "open" /\ accepted' = accepted /\ status' # "open"
      BY <2>2, <3>1 DEF Finish
    <3>3. call'.answer # "io" => Sent(w.out) = Sent(out)
      <4>1. CASE FinishOk(structure) /\ EncFinishOk(TRUE, encoder)
        <5>1. w \in Flush(out) /\ (call'.answer # "io" => w.ok)
          BY <3>1, <4>1 DEF Answer
        <5>. QED
          BY <2>o, <5>1, FlushProperties
      <4>2. CASE ~(FinishOk(structure) /\ EncFinishOk(TRUE, encoder))
        <5>1. w = [out |-> out, ok |-> FALSE]
          BY <3>1, <4>2
        <5>. QED
          BY <5>1
      <4>. QED
        BY <4>1, <4>2
    <3>4. Sent(out)' = Sent(w.out)
      BY <3>1 DEF Sent
    <3>. QED
      BY <3>2, <3>3, <3>4 DEF SaidInv
  <2>3. CASE UNCHANGED vars
    BY <2>3 DEF vars, SaidInv, Sent
  <2>. QED
    BY <2>1, <2>2, <2>3 DEF Next
<1>3. SaidInv => OutputIsAccepted
  BY DEF SaidInv, OutputIsAccepted, Sent
<1>. QED
  BY <1>1, <1>2, <1>3, TypeCorrect, PTL DEF Spec

-----------------------------------------------------------------------------
(* The contract.                                                           *)

(* In step, the two checkers have the same top.                            *)
LEMMA SameTop ==
    ASSUME NEW s \in States, NEW e \in Encoders, InStep(s, e), ~AtRoot(s)
    PROVE  /\ ~AtRoot(e) /\ Top(s) \in Frame /\ Top(e) \in EncodeFrame
           /\ Top(s).kind = Top(e).kind
           /\ Top(s).due <=> Top(e).due
           /\ Top(s).due => Top(s).kind = "object"
<1>. DEFINE n == Len(s.frames)
<1>1. s \in Machine(Frame) /\ e \in Machine(EncodeFrame)
  BY FrameIsSlotted, EncodeFrameIsSlotted
<1>2. ~AtRoot(e) /\ Len(e.frames) = n
  BY SameRoot DEF InStep
<1>3. n \in Nat \ {0} /\ Top(s) = s.frames[n] /\ Top(s) \in Frame
  BY <1>1, TopIsLast
<1>4. Top(e) = e.frames[n] /\ Top(e) \in EncodeFrame
  BY <1>1, <1>2, TopIsLast
<1>5. /\ s.frames[n].kind = e.frames[n].kind
      /\ s.frames[n].due <=> e.frames[n].due
      /\ s.frames[n].due => s.frames[n].kind = "object"
  BY <1>3 DEF InStep
<1>. QED
  BY <1>2, <1>3, <1>4, <1>5

(* What prepare_value and prepare_container leave for the value: it fits   *)
(* both checkers exactly if the grammar has a place for it.                *)
LEMMA EntryFits ==
    ASSUME NEW o, Typed(o), o.ok, InStep(o.structure, o.encoder)
    PROVE  LET s == o.structure
               p == PrepareEntry(o)
               fits == (AtRoot(s) /\ ~s.root) \/ InArray(s) \/ Owed(s)
           IN  /\ p.ok /\ p.spill = o.spill
               /\ ValueOk(TRUE, p.structure) <=> fits
               /\ EncValueOk(TRUE, p.encoder) <=> fits
               /\ p.structure.root = s.root
               /\ Len(p.structure.frames) = Len(s.frames)
               /\ \A i \in 1 .. Len(s.frames) : p.structure.frames[i].kind = s.frames[i].kind
<1>. DEFINE s == o.structure
            e == o.encoder
            p == PrepareEntry(o)
<1>1. /\ s \in States /\ e \in Encoders
      /\ s \in Machine(Frame) /\ Slotted(Frame)
      /\ e \in Machine(EncodeFrame) /\ Slotted(EncodeFrame)
  BY FrameIsSlotted, EncodeFrameIsSlotted DEF Typed, Outcomes
<1>2. CASE InArray(s)
  <2>1. ~AtRoot(s) /\ Top(s).kind = "array"
    BY <1>2 DEF InArray
  <2>2. ~AtRoot(e) /\ Top(e).kind = "array" /\ ~Top(s).due /\ ~Top(e).due
    BY <1>1, <2>1, SameTop
  <2>3. SeparatorOk(s) /\ EncSeparatorOk(TRUE, e)
    BY <1>2, <2>2 DEF SeparatorOk, EncSeparatorOk, InArray
  <2>4. p = [o EXCEPT !.structure = Separator(s), !.encoder = EncEntry(TRUE, e),
                      !.emit = @ \o EntrySeparator(e)]
    BY <1>2, <2>3 DEF PrepareEntry, Try, StructSeparator, EncoderSeparator, Typed, Outcomes
  <2>5. /\ p.structure = SetDue(s, TRUE) /\ p.encoder = EncEntry(TRUE, e)
        /\ p.ok /\ p.spill = o.spill
    BY <2>4 DEF Typed, Outcomes, Separator
  <2>6. /\ SetDue(s, TRUE) \in Machine(Frame) /\ SetDue(s, TRUE).root = s.root
        /\ DueIs(TRUE, s.frames, SetDue(s, TRUE).frames)
    BY <1>1, <2>1, SetDueProperties
  <2>7. ~AtRoot(SetDue(s, TRUE)) /\ Top(SetDue(s, TRUE)).due
    BY <1>1, <2>1, <2>6, TopWhenSet
  <2>8. /\ EncEntry(TRUE, e) \in Machine(EncodeFrame)
        /\ DueIs(TRUE, e.frames, EncEntry(TRUE, e).frames)
    BY <1>1, <2>2, EncEntryProperties, EncodeFrameIsSlotted
  <2>9. ~AtRoot(EncEntry(TRUE, e)) /\ Top(EncEntry(TRUE, e)).due
    BY <1>1, <2>2, <2>8, TopWhenSet
  <2>10. ValueOk(TRUE, SetDue(s, TRUE)) /\ EncValueOk(TRUE, EncEntry(TRUE, e))
    BY <2>7, <2>9 DEF ValueOk, EncValueOk
  <2>11. /\ Len(SetDue(s, TRUE).frames) = Len(s.frames)
         /\ \A i \in 1 .. Len(s.frames) : SetDue(s, TRUE).frames[i].kind = s.frames[i].kind
    BY <2>6 DEF DueIs
  <2>. QED
    BY <1>2, <2>5, <2>6, <2>10, <2>11
<1>3. CASE ~InArray(s)
  <2>1. p = o
    BY <1>3 DEF PrepareEntry
  <2>2. e.root = s.root /\ (AtRoot(e) <=> AtRoot(s))
    BY <1>1, SameRoot DEF InStep
  <2>3. ValueOk(TRUE, s) <=> (AtRoot(s) /\ ~s.root) \/ Owed(s)
    <3>1. CASE AtRoot(s)
      BY <3>1 DEF ValueOk, Owed, InObject, InArray
    <3>2. CASE ~AtRoot(s)
      BY <1>1, <3>2, SameTop DEF ValueOk, Owed, InObject, InArray
    <3>. QED
      BY <3>1, <3>2
  <2>4. EncValueOk(TRUE, e) <=> ValueOk(TRUE, s)
    <3>1. CASE AtRoot(s)
      BY <2>2, <3>1 DEF ValueOk, EncValueOk, InArray
    <3>2. CASE ~AtRoot(s)
      BY <1>1, <2>2, <3>2, SameTop DEF ValueOk, EncValueOk, InArray
    <3>. QED
      BY <3>1, <3>2
  <2>. QED
    BY <1>3, <2>1, <2>3, <2>4
<1>. QED
  BY <1>2, <1>3

(* A handler returns Ok exactly for the events in order, and only then     *)
(* does it end in maybe_flush.                                             *)
LEMMA OkIsInGrammar ==
    ASSUME NEW o, Typed(o), o.ok, ~o.spill, InStep(o.structure, o.encoder),
           NEW event \in Events
    PROVE  /\ Handle(event, o).ok <=> InGrammar(event, o.structure)
           /\ Handle(event, o).spill => Handle(event, o).ok
<1>. DEFINE s == o.structure
            e == o.encoder
            p == PrepareEntry(o)
            fits == (AtRoot(s) /\ ~s.root) \/ InArray(s) \/ Owed(s)
<1>1. s \in States /\ e \in Encoders
  BY DEF Typed, Outcomes
<1>2. /\ p.ok /\ ~p.spill /\ Typed(p)
      /\ ValueOk(TRUE, p.structure) <=> fits
      /\ EncValueOk(TRUE, p.encoder) <=> fits
  <2>1. Typed(p)
    BY StructStepsTyped, EncoderStepsTyped DEF PrepareEntry, Try
  <2>. QED
    BY <2>1, EntryFits
<1>. HIDE DEF p, fits
<1>3. /\ Scalar(o).ok <=> fits
      /\ Scalar(o).spill => Scalar(o).ok
  <2>1. CASE fits
    BY <1>2, <2>1 DEF Scalar, Try, StructValue, EncoderValue, Typed, Outcomes, p
  <2>2. CASE ~fits
    BY <1>2, <2>2 DEF Scalar, Try, StructValue, Fail, Typed, Outcomes, p
  <2>. QED
    BY <2>1, <2>2
<1>4. ~NonFinite(o).ok /\ ~NonFinite(o).spill
  <2>1. Typed(Try(p, StructValue)) /\ ~Try(p, StructValue).spill
    BY <1>2, StructStepsTyped DEF Try, StructValue, Fail, Typed, Outcomes
  <2>. QED
    BY <2>1 DEF NonFinite, Fail, Typed, Outcomes, p
<1>5. ASSUME NEW kind \in Kinds
      PROVE  /\ BeginContainer(kind, o).ok <=> fits
             /\ BeginContainer(kind, o).spill => BeginContainer(kind, o).ok
  <2>1. CASE fits
    BY <1>2, <2>1 DEF BeginContainer, Try, StructBegin, EncoderBegin, Typed, Outcomes, p
  <2>2. CASE ~fits
    BY <1>2, <2>2 DEF BeginContainer, Try, StructBegin, Fail, Typed, Outcomes, p
  <2>. QED
    BY <2>1, <2>2
<1>6. /\ KeyOk(s) <=> InObject(s) /\ ~Owed(s)
      /\ EncKeyOk(TRUE, e) <=> KeyOk(s)
  BY <1>1, SameTop, SameRoot DEF KeyOk, EncKeyOk, InObject, Owed, InStep
<1>7. /\ ObjectKey(o).ok <=> InObject(s) /\ ~Owed(s)
      /\ ~ObjectKey(o).spill
  <2>1. CASE KeyOk(s)
    BY <1>6, <2>1 DEF ObjectKey, Try, StructKey, EncoderKey, Typed, Outcomes
  <2>2. CASE ~KeyOk(s)
    BY <1>6, <2>2 DEF ObjectKey, Try, StructKey, Fail, Typed, Outcomes
  <2>. QED
    BY <1>6, <2>1, <2>2
<1>8. ASSUME NEW kind \in Kinds
      PROVE  /\ EndOk(kind, s) <=> ~AtRoot(s) /\ Top(s).kind = kind /\ ~Owed(s)
             /\ EncEndOk(TRUE, kind, e) <=> EndOk(kind, s)
  <2>1. CASE AtRoot(s)
    BY <1>1, <2>1, SameRoot DEF EndOk, EncEndOk, InStep
  <2>2. CASE ~AtRoot(s)
    BY <1>1, <2>2, SameTop DEF EndOk, EncEndOk, Owed, InObject
  <2>. QED
    BY <2>1, <2>2
<1>9. ASSUME NEW kind \in Kinds
      PROVE  /\ EndContainer(kind, o).ok <=> EndOk(kind, s)
             /\ EndContainer(kind, o).spill => EndContainer(kind, o).ok
  <2>1. CASE EndOk(kind, s)
    BY <1>8, <2>1 DEF EndContainer, Try, StructEnd, EncoderEnd, Typed, Outcomes
  <2>2. CASE ~EndOk(kind, s)
    BY <1>8, <2>2 DEF EndContainer, Try, StructEnd, EncoderEnd, Typed, Outcomes
  <2>. QED
    BY <2>1, <2>2
<1>10. /\ InArray(s) <=> ~AtRoot(s) /\ Top(s).kind = "array" /\ ~Owed(s)
       /\ InObject(s) <=> ~AtRoot(s) /\ Top(s).kind = "object"
  BY DEF InArray, InObject, Owed
<1>11. CASE event \in {"word", "text"}
  BY <1>3, <1>11 DEF Handle, InGrammar, fits
<1>12. CASE event = "nonfinite"
  BY <1>4, <1>12 DEF Handle, InGrammar
<1>13. CASE event = "begin_array"
  BY <1>5, <1>13 DEF Handle, InGrammar, fits, Kinds
<1>14. CASE event = "begin_object"
  BY <1>5, <1>14 DEF Handle, InGrammar, fits, Kinds
<1>15. CASE event = "end_array"
  BY <1>8, <1>9, <1>10, <1>15 DEF Handle, InGrammar, Kinds
<1>16. CASE event = "end_object"
  BY <1>8, <1>9, <1>10, <1>16 DEF Handle, InGrammar, Kinds
<1>17. CASE event = "object_key"
  BY <1>7, <1>17 DEF Handle, InGrammar
<1>. QED
  BY <1>11, <1>12, <1>13, <1>14, <1>15, <1>16, <1>17 DEF Events

LEMMA OkMoves ==
    ASSUME NEW o, Typed(o), o.ok, InStep(o.structure, o.encoder),
           ~AtRoot(o.structure) => o.structure.root = TRUE,
           NEW event \in Events, Handle(event, o).ok
    PROVE  Moves(event, o.structure, Handle(event, o).structure)
<1>. DEFINE s == o.structure
            p == PrepareEntry(o)
<1>1. /\ s \in States /\ OnlyTopDue(s.frames) /\ Slotted(Frame)
      /\ s \in Machine(Frame) /\ States = Machine(Frame)
  BY FrameIsSlotted DEF Typed, Outcomes
<1>2. Typed(p) /\ p.structure \in States
  BY StructStepsTyped, EncoderStepsTyped DEF PrepareEntry, Try, Typed, Outcomes
<1>3. /\ p.structure.root = s.root
      /\ Len(p.structure.frames) = Len(s.frames)
      /\ \A i \in 1 .. Len(s.frames) : p.structure.frames[i].kind = s.frames[i].kind
  BY EntryFits
<1>4. Shown(p.structure) = Shown(s) /\ (AtRoot(p.structure) <=> AtRoot(s))
  BY <1>1, <1>2, <1>3, ShownSame, ShownProperties
<1>. DEFINE v == Value(p.structure)
<1>5. ~AtRoot(p.structure) => p.structure.root = TRUE
  BY <1>3, <1>4
<1>6. Shown(v) = Shown(s) /\ ~Owed(v) /\ v.root = TRUE
  BY <1>2, <1>4, <1>5, ValueShown
<1>. HIDE DEF p, v
<1>8. ASSUME Scalar(o).ok
      PROVE  Scalar(o).structure = v
  BY <1>2, <1>8 DEF Scalar, Try, StructValue, EncoderValue, Fail, Typed, Outcomes, p, v
<1>9. ASSUME NEW kind \in Kinds, BeginContainer(kind, o).ok
      PROVE  LET t == BeginContainer(kind, o).structure
             IN  Shown(t) = Append(Shown(s), kind) /\ ~Owed(t) /\ t.root = TRUE
  <2>1. BeginContainer(kind, o).structure = Begin(kind, p.structure)
    BY <1>2, <1>9
       DEF BeginContainer, Try, StructBegin, EncoderBegin, Fail, Typed, Outcomes, p
  <2>. QED
    BY <1>2, <1>4, <1>5, <2>1, BeginShown
<1>10. ASSUME ObjectKey(o).ok
       PROVE  LET t == ObjectKey(o).structure
              IN  Shown(t) = Shown(s) /\ Owed(t) /\ t.root = TRUE
  <2>1. KeyOk(s)
    BY <1>10 DEF ObjectKey, Try, StructKey, Fail, Typed, Outcomes
  <2>2. ObjectKey(o).structure = Key(s)
    BY <1>10, <2>1 DEF ObjectKey, Try, StructKey, EncoderKey, Fail, Typed, Outcomes
  <2>. QED
    BY <1>1, <2>1, <2>2, KeyShown
<1>11. ASSUME NEW kind \in Kinds, EndContainer(kind, o).ok
       PROVE  LET t == EndContainer(kind, o).structure
              IN  Shown(t) = Front(Shown(s)) /\ ~Owed(t) /\ t.root = TRUE
  <2>1. EndOk(kind, s) /\ EndContainer(kind, o).structure = End(s)
    BY <1>11 DEF EndContainer, Try, StructEnd, EncoderEnd, Fail, Typed, Outcomes
  <2>2. ~AtRoot(s)
    BY <2>1 DEF EndOk
  <2>3. End(s).root = s.root
    BY <1>1, EndProperties
  <2>. QED
    BY <1>1, <2>1, <2>2, <2>3, ShownEnded
<1>12. event # "nonfinite"
  <2>1. Typed(Try(p, StructValue))
    BY <1>2, StructStepsTyped DEF Try
  <2>2. ~NonFinite(o).ok
    BY <2>1 DEF NonFinite, Fail, Typed, Outcomes, p
  <2>. QED
    BY <2>2 DEF Handle
<1>13. CASE event \in {"word", "text"}
  BY <1>6, <1>8, <1>13 DEF Handle, Moves
<1>14. CASE event = "begin_array"
  BY <1>9, <1>14 DEF Handle, Moves, Kinds
<1>15. CASE event = "begin_object"
  BY <1>9, <1>15 DEF Handle, Moves, Kinds
<1>16. CASE event = "end_array"
  BY <1>11, <1>16 DEF Handle, Moves, Kinds
<1>17. CASE event = "end_object"
  BY <1>11, <1>17 DEF Handle, Moves, Kinds
<1>18. CASE event = "object_key"
  BY <1>10, <1>18 DEF Handle, Moves
<1>. QED
  BY <1>12, <1>13, <1>14, <1>15, <1>16, <1>17, <1>18 DEF Events

(* While EventSink speaks of the sink, the events it calls legal are those *)
(* the structure has a place for.                                          *)
LEMMA LegalIsInGrammar ==
    ASSUME TypeOK, Live, NEW event \in Events
    PROVE  Sink!Legal(event) <=> InGrammar(event, structure)
<1>. DEFINE stack == IF Live THEN [i \in 1 .. Len(structure.frames) |-> structure.frames[i].kind]
                     ELSE <<>>
<1>1. structure \in States /\ stack = Shown(structure)
  BY DEF TypeOK, Shown
<1>2. /\ stack = <<>> <=> AtRoot(structure)
      /\ ~AtRoot(structure) => Last(stack) = Top(structure).kind
  BY <1>1, ShownProperties
<1>. HIDE DEF stack
<1>3. /\ Sink!In("array") <=> InArray(structure)
      /\ Sink!In("object") <=> InObject(structure)
  BY <1>2 DEF Sink!In, Sink!Last, Last, InArray, InObject, stack
<1>4. caller = "careful" /\ status = "open"
  BY DEF Live
<1>5. Sink!ValueExpected <=> \/ AtRoot(structure) /\ ~structure.root
                            \/ InArray(structure)
                            \/ Owed(structure)
  BY <1>2, <1>3, <1>4 DEF Sink!ValueExpected, Owed, stack, Live
<1>6. InArray(structure) => ~Owed(structure)
  BY DEF InArray, Owed, InObject
<1>. QED
  BY <1>3, <1>4, <1>5, <1>6 DEF Sink!Legal, Sink!Kind, InGrammar, Events, Owed, Live

\* What the refinement needs: in a live sink, containers are open under a
\* root that was started.
RootKept == Live /\ ~AtRoot(structure) => structure.root = TRUE

(* An event of a careful caller is a step of the contract.                 *)
LEMMA EventIsStep ==
    ASSUME TypeOK, Lockstep, RootKept, caller = "careful", NEW event \in Events, Event(event)
    PROVE  /\ Sink!Accept(event) \/ Sink!Refuse(event) \/ Sink!Break(event)
           /\ RootKept'
<1>. DEFINE o == Handle(event, Start)
            filled == Put(out, o.emit)
<1>1. Live /\ status = "open"
  BY DEF Event, CanCall, Live
<1>2. Typed(Start) /\ Start.ok /\ ~Start.spill /\ Start.structure = structure
  BY EmptySeq DEF TypeOK, Typed, Start, Outcomes
<1>3. InStep(Start.structure, Start.encoder)
  BY <1>1 DEF Lockstep, Start
<1>4. ~AtRoot(Start.structure) => Start.structure.root = TRUE
  BY <1>1, <1>2 DEF RootKept
<1>5. /\ Typed(o)
      /\ o.ok <=> Sink!Legal(event)
      /\ o.spill => o.ok
  BY <1>1, <1>2, <1>3, HandlerTyped, OkIsInGrammar, LegalIsInGrammar
<1>6. o.ok => Moves(event, structure, o.structure)
  BY <1>2, <1>3, <1>4, OkMoves
<1>. HIDE DEF o
<1>7. filled \in Outs(JsonTokens)
  <2>1. out \in Outs(JsonTokens) /\ o.emit \in Seq(JsonTokens)
    BY <1>5 DEF TypeOK, Outs, Typed, Outcomes
  <2>. QED
    BY <2>1, PutProperties
<1>. HIDE DEF filled
<1>8. structure' = o.structure
  BY DEF Event, o
<1>9. PICK w \in IF o.spill THEN MaybeFlush(filled) ELSE {Settled(filled)} :
          Return(event, Answer(o.ok, w.ok))
  BY DEF Event, o, filled
<1>10. ~w.ok => o.ok /\ WriterFails
  <2>1. CASE o.spill
    BY <1>5, <1>7, <1>9, <2>1, FailureIsTheWriters
  <2>2. CASE ~o.spill
    BY <1>9, <2>2 DEF Settled
  <2>. QED
    BY <2>1, <2>2
<1>11. caller' = "careful"
  BY <1>9 DEF Return
<1>12. structure \in States /\ structure' \in States
  BY <1>5, <1>8 DEF TypeOK, Typed, Outcomes
<1>13. CASE o.ok /\ w.ok
  <2>1. /\ call' = [event |-> event, answer |-> "ok"]
        /\ status' = "open"
    BY <1>9, <1>13 DEF Return, Answer
  <2>2. Live'
    BY <1>11, <2>1 DEF Live
  <2>3. Moves(event, structure, structure')
    BY <1>6, <1>8, <1>13
  <2>4. Sink!Accept(event)
    BY <1>1, <1>5, <1>11, <1>13, <2>1, <2>2, <2>3
       DEF Sink!Accept, Sink!Kind, Sink!Front, Front, Moves, Shown, Owed, Events
  <2>5. RootKept'
    BY <2>3 DEF Moves, RootKept
  <2>. QED
    BY <2>4, <2>5
<1>14. CASE ~(o.ok /\ w.ok)
  <2>1. /\ call' = [event |-> event, answer |-> IF o.ok THEN "io" ELSE "refused"]
        /\ status' = "stopped"
    BY <1>9, <1>10, <1>14 DEF Return, Answer
  <2>2. ~Live'
    BY <2>1 DEF Live
  <2>3. Sink!Stop
    BY <1>11, <2>1, <2>2 DEF Sink!Stop
  <2>4. Sink!Refuse(event) \/ Sink!Break(event)
    BY <1>1, <1>5, <1>10, <1>11, <1>14, <2>1, <2>3 DEF Sink!Refuse, Sink!Break
  <2>5. RootKept'
    BY <2>2 DEF RootKept
  <2>. QED
    BY <2>4, <2>5
<1>. QED
  BY <1>13, <1>14

(* So is its finish.                                                       *)
LEMMA FinishIsStep ==
    ASSUME TypeOK, Lockstep, caller = "careful", Finish
    PROVE  (Sink!Finish \/ Sink!FinishFails) /\ RootKept'
<1>. DEFINE complete == FinishOk(structure) /\ EncFinishOk(TRUE, encoder)
<1>1. Live /\ status = "open" /\ structure' = structure /\ caller' = "careful"
  BY DEF Finish, Live
<1>2. structure \in States /\ encoder \in Encoders /\ InStep(structure, encoder)
  BY <1>1 DEF TypeOK, Lockstep
<1>3. complete <=> structure.root /\ AtRoot(structure)
  BY <1>2, SameRoot DEF FinishOk, EncFinishOk, InStep
<1>4. Sink!Complete <=> complete
  <2>1. Shown(structure) = <<>> <=> AtRoot(structure)
    BY <1>2, ShownProperties
  <2>. QED
    BY <1>1, <1>3, <2>1 DEF Sink!Complete, Shown
<1>. HIDE DEF complete
<1>5. PICK w \in IF complete THEN Flush(out) ELSE {[out |-> out, ok |-> FALSE]} :
         /\ call' = [event |-> "finish",
                     answer |-> IF complete THEN Answer(TRUE, w.ok) ELSE "refused"]
         /\ status' = IF w.ok THEN "done" ELSE "rejected"
  BY DEF Finish, complete
<1>6. complete /\ ~w.ok => WriterFails
  <2>1. out \in Outs(JsonTokens)
    BY DEF TypeOK, Outs
  <2>. QED
    BY <1>5, <2>1, FailureIsTheWriters
<1>7. w.ok => complete
  BY <1>5
<1>8. ~Live' /\ RootKept'
  BY <1>5 DEF Live, RootKept
<1>9. CASE w.ok
  <2>1. status' = "done" /\ call' = [event |-> "finish", answer |-> "ok"]
    BY <1>5, <1>7, <1>9 DEF Answer
  <2>2. AtRoot(structure) /\ Shown(structure) = <<>> /\ ~InObject(structure)
    BY <1>2, <1>3, <1>7, <1>9, ShownProperties DEF InObject
  <2>3. Sink!Finish
    BY <1>1, <1>4, <1>7, <1>8, <1>9, <2>1, <2>2 DEF Sink!Finish, Shown
  <2>. QED
    BY <1>8, <2>3
<1>10. CASE ~w.ok
  <2>1. /\ status' = "rejected"
        /\ call' = [event |-> "finish", answer |-> IF complete THEN "io" ELSE "refused"]
    BY <1>5, <1>10 DEF Answer
  <2>2. Sink!Stop
    BY <1>1, <1>8, <2>1 DEF Sink!Stop
  <2>3. Sink!FinishFails
    BY <1>1, <1>4, <1>6, <1>10, <2>1, <2>2 DEF Sink!FinishFails
  <2>. QED
    BY <1>8, <2>3
<1>. QED
  BY <1>9, <1>10

(* To a careful caller JsonSink is the EventSink of the trait: it refuses  *)
(* exactly the events that are out of order, and finish succeeds exactly   *)
(* on one complete value (cross_format/json.rs, cross_format/mod.rs).      *)
THEOREM SinkIsEventSink == Spec => ImplementsEventSink
<1>1. Init => Sink!Init /\ RootKept
  <2>. SUFFICES ASSUME Init PROVE Sink!Init /\ RootKept
    OBVIOUS
  <2>1. AtRoot(structure) /\ Shown(structure) = <<>> /\ structure.root = FALSE
    <3>1. structure = NewState /\ structure \in States
      BY EmptySeq DEF Init, NewState, States
    <3>. QED
      BY <3>1, ShownProperties DEF AtRoot, NewState
  <2>2. caller \in {"careful", "careless", "persistent"}
    BY JsonSinkAssumption DEF Init
  <2>. QED
    BY <2>1, <2>2 DEF Init, Sink!Init, RootKept, Live, Shown, InObject
<1>2. TypeOK /\ Lockstep /\ RootKept /\ [Next]_vars => [Sink!Next]_(Sink!vars) /\ RootKept'
  <2>. SUFFICES ASSUME TypeOK, Lockstep, RootKept, [Next]_vars
                PROVE  [Sink!Next]_(Sink!vars) /\ RootKept'
    OBVIOUS
  <2>1. caller \in {"careful", "careless", "persistent"} /\ caller' = caller
    BY JsonSinkAssumption DEF TypeOK, Next, Event, Return, Finish, vars
  <2>2. CASE caller # "careful"
    BY <2>1, <2>2 DEF Sink!vars, Live, RootKept
  <2>3. CASE caller = "careful"
    <3>1. ASSUME NEW event \in Events, Event(event)
          PROVE  Sink!Next /\ RootKept'
      <4>1. event \in Sink!Events
        BY DEF Events, Sink!Events
      <4>. QED
        BY <2>3, <3>1, <4>1, EventIsStep DEF Sink!Next
    <3>2. CASE Finish
      BY <2>3, <3>2, FinishIsStep DEF Sink!Next
    <3>3. CASE UNCHANGED vars
      BY <3>3 DEF vars, Sink!vars, Live, RootKept
    <3>. QED
      BY <3>1, <3>2, <3>3 DEF Next
  <2>. QED
    BY <2>1, <2>2, <2>3
<1>. QED
  BY <1>1, <1>2, TypeCorrect, CheckersInLockstep, PTL DEF Spec, ImplementsEventSink, Sink!Spec

-----------------------------------------------------------------------------
(* The grammar of the output.                                              *)

(* A value consumes what the innermost container is owed and no more; an   *)
(* entry leaves the container behind its first.                            *)
LEMMA FirstOfTop ==
    ASSUME NEW e \in Encoders, ~AtRoot(e)
    PROVE  LET n == Len(e.frames)
           IN  /\ Value(e).frames[n].first = e.frames[n].first
               /\ EncEntry(TRUE, e).frames[n].first = FALSE
<1>. DEFINE n == Len(e.frames)
            v == [e.frames[n] EXCEPT !.due = FALSE]
            f == [e.frames[n] EXCEPT !.first = FALSE, !.due = TRUE]
<1>1. e.frames \in Seq(EncodeFrame) /\ n \in 1 .. n
  BY EncodeFrameIsSlotted, TopIsLast DEF Machine
<1>2. e.frames[n] \in EncodeFrame
  BY <1>1, ElementOfSeq
<1>3. /\ v \in EncodeFrame /\ v.first = e.frames[n].first
      /\ f \in EncodeFrame /\ f.first = FALSE
  BY <1>2 DEF EncodeFrame
<1>4. /\ Value(e).frames = [e.frames EXCEPT ![n] = v]
      /\ EncEntry(TRUE, e).frames = [e.frames EXCEPT ![n] = f]
  BY <1>1, <1>2 DEF Value, SetDue, EncEntry, Encoders, EncodeFrame
<1>5. [e.frames EXCEPT ![n] = v][n] = v /\ [e.frames EXCEPT ![n] = f][n] = f
  BY <1>1, <1>3, ExceptSeq
<1>. QED
  BY <1>3, <1>4, <1>5

\* The containers the encoder has open are those whose openers in s are at at.
Stacked(s, e, at) ==
    /\ at \in Seq(Nat) /\ Len(at) = Len(e.frames)
    /\ OpenedAt(s, at)
    /\ \A i \in 1 .. Len(at) : s[at[i]] = Opener(e.frames[i].kind)

\* What the last token of s tells of the encoder: whether the innermost
\* container is empty, owed a value, or behind one.
LastTells(s, e) ==
    /\ e.root <=> s # <<>>
    /\ AtRoot(e) /\ s # <<>> => s[Len(s)] \in ValueEnds
    /\ ~AtRoot(e) =>
          /\ s # <<>>
          /\ Top(e).first => ~Top(e).due /\ s[Len(s)] = Opener(Top(e).kind)
          /\ Top(e).due /\ Top(e).kind = "array" => s[Len(s)] \in {"[", ","}
          /\ Top(e).due /\ Top(e).kind = "object" => s[Len(s)] = "key"
          /\ ~Top(e).first /\ ~Top(e).due => s[Len(s)] \in ValueEnds

\* The encoder e has written s: every token of s in its place.
Written(s, e) ==
    /\ \A i \in 1 .. Len(s) : Follows(s, i)
    /\ LastTells(s, e)
    /\ \A i \in 1 .. Len(e.frames) - 1 : ~e.frames[i].first
    /\ \E at : Stacked(s, e, at)

(* The places of the tokens that were written stay places, and what the    *)
(* place of the next one depends on.                                       *)
LEMMA FollowsNext ==
    ASSUME NEW s \in Seq(JsonTokens), NEW t \in JsonTokens
    PROVE  LET r == Append(s, t)
               n == Len(s)
               In(opener) == StandsIn(r, n + 1, opener)
           IN  /\ \A i \in 1 .. n : Follows(s, i) => Follows(r, i)
               /\ t \in {"value", "[", "{"} =>
                     (Follows(r, n + 1) <=> \/ n = 0
                                            \/ s[n] = "key"
                                            \/ In("[") /\ s[n] \in {"[", ","})
               /\ t = "key" => (Follows(r, n + 1) <=> In("{") /\ s[n] \in {"{", ","})
               /\ t = "," => (Follows(r, n + 1) <=> (In("[") \/ In("{")) /\ s[n] \in ValueEnds)
               /\ t = "]" => (Follows(r, n + 1) <=> In("[") /\ s[n] \in {"["} \cup ValueEnds)
               /\ t = "}" => (Follows(r, n + 1) <=> In("{") /\ s[n] \in {"{"} \cup ValueEnds)
<1>. DEFINE r == Append(s, t)
            n == Len(s)
<1>1. /\ n \in Nat /\ Len(r) = n + 1 /\ r[n + 1] = t /\ \A i \in 1 .. n : r[i] = s[i]
      /\ \A i \in 1 .. n : Holders(r, i) = Holders(s, i)
  BY AppendNests
<1>. HIDE DEF r, n
<1>2. ASSUME NEW i \in 1 .. n, Follows(s, i)
      PROVE  Follows(r, i)
  <2>1. r[i] = s[i] /\ Holders(r, i) = Holders(s, i) /\ \A h \in Holders(s, i) : r[h] = s[h]
    <3>1. Holders(s, i) \subseteq 1 .. i - 1
      BY DEF Holders
    <3>2. 1 .. i - 1 \subseteq 1 .. n
      BY <1>1
    <3>. QED
      BY <1>1, <3>1, <3>2
  <2>2. \A opener : StandsIn(r, i, opener) <=> StandsIn(s, i, opener)
    BY <2>1 DEF StandsIn
  <2>3. CASE i = 1
    <3>1. \A h : h \notin Holders(s, i)
      BY <2>3 DEF Holders
    <3>2. \A opener : ~StandsIn(s, i, opener)
      BY <3>1 DEF StandsIn
    <3>3. s[i] \in JsonTokens
      BY ElementOfSeq DEF n
    <3>4. s[i] \in {"value", "[", "{"}
      BY <1>2, <3>2, <3>3 DEF Follows, JsonTokens
    <3>. QED
      BY <2>1, <2>3, <3>4 DEF Follows
  <2>4. CASE i # 1
    <3>1. i - 1 \in 1 .. n
      BY <1>1, <2>4
    <3>2. r[i - 1] = s[i - 1]
      BY <1>1, <3>1
    <3>. QED
      BY <1>2, <2>1, <2>2, <2>4, <3>2 DEF Follows
  <2>. QED
    BY <2>3, <2>4
<1>3. CASE n = 0
  <2>1. \A h : h \notin Holders(r, n + 1)
    BY <1>3 DEF Holders
  <2>2. \A opener : ~StandsIn(r, n + 1, opener)
    BY <2>1 DEF StandsIn
  <2>3. n + 1 = 1
    BY <1>3
  <2>. QED
    BY <1>1, <1>2, <1>3, <2>2, <2>3 DEF Follows, r, n
<1>4. CASE n # 0
  <2>1. (n + 1) - 1 = n /\ n + 1 # 1 /\ n \in 1 .. n
    BY <1>1, <1>4
  <2>2. r[(n + 1) - 1] = s[n]
    BY <1>1, <2>1
  <2>3. t \in {"value", "[", "{"} =>
           (Follows(r, n + 1) <=> \/ n = 0
                                  \/ s[n] = "key"
                                  \/ StandsIn(r, n + 1, "[") /\ s[n] \in {"[", ","})
    BY <1>1, <1>4, <2>1, <2>2 DEF Follows
  <2>4. /\ t = "key" => (Follows(r, n + 1) <=> StandsIn(r, n + 1, "{") /\ s[n] \in {"{", ","})
        /\ t = "," => (Follows(r, n + 1) <=> (StandsIn(r, n + 1, "[") \/ StandsIn(r, n + 1, "{")) /\ s[n] \in ValueEnds)
        /\ t = "]" => (Follows(r, n + 1) <=> StandsIn(r, n + 1, "[") /\ s[n] \in {"["} \cup ValueEnds)
        /\ t = "}" => (Follows(r, n + 1) <=> StandsIn(r, n + 1, "{") /\ s[n] \in {"{"} \cup ValueEnds)
    BY <1>1, <1>4, <2>2 DEF Follows
  <2>. QED
    BY <1>2, <2>3, <2>4 DEF r, n
<1>. QED
  BY <1>3, <1>4

(* A machine that has the same containers open, or one more, or one less,  *)
(* when the token written is none, an opener or a closer.                  *)
LEMMA StackedNext ==
    ASSUME NEW s \in Seq(JsonTokens), NEW t \in JsonTokens, NEW e, NEW at, Stacked(s, e, at),
           NEW f
    PROVE  LET same(m) == \A i \in 1 .. m : f.frames[i].kind = e.frames[i].kind
               n == Len(e.frames)
               r == Append(s, t)
           IN  /\ n \in Nat
               /\ /\ t \notin BeginTokens \cup EndTokens /\ Len(f.frames) = n /\ same(n)
                  => \E b : Stacked(r, f, b)
               /\ /\ t \in BeginTokens /\ Len(f.frames) = n + 1 /\ same(n)
                  /\ t = Opener(f.frames[n + 1].kind)
                  => \E b : Stacked(r, f, b)
               /\ /\ t \in EndTokens /\ n # 0 /\ Len(f.frames) = n - 1 /\ same(n - 1)
                  => \E b : Stacked(r, f, b)
<1>. DEFINE n == Len(e.frames)
            r == Append(s, t)
<1>1. at \in Seq(Nat) /\ Len(at) = n /\ OpenedAt(s, at) /\ n \in Nat
      /\ \A i \in 1 .. n : at[i] \in 1 .. Len(s) /\ s[at[i]] = Opener(e.frames[i].kind)
  BY LenProperties DEF Stacked, OpenedAt
<1>2. Len(s) \in Nat /\ r[Len(s) + 1] = t /\ \A i \in 1 .. Len(s) : r[i] = s[i]
  BY AppendNests
<1>. HIDE DEF n, r
<1>3. \A i \in 1 .. n : r[at[i]] = Opener(e.frames[i].kind)
  BY <1>1, <1>2
<1>4. ASSUME t \notin BeginTokens \cup EndTokens, Len(f.frames) = n,
             \A i \in 1 .. n : f.frames[i].kind = e.frames[i].kind
      PROVE  \E b : Stacked(r, f, b)
  <2>1. OpenedAt(r, at)
    BY <1>1, <1>4, AppendOpens DEF r
  <2>2. Stacked(r, f, at)
    BY <1>1, <1>3, <1>4, <2>1 DEF Stacked
  <2>. QED
    BY <2>2
<1>5. ASSUME t \in BeginTokens, Len(f.frames) = n + 1,
             \A i \in 1 .. n : f.frames[i].kind = e.frames[i].kind,
             t = Opener(f.frames[n + 1].kind)
      PROVE  \E b : Stacked(r, f, b)
  <2>. DEFINE b == Append(at, Len(s) + 1)
  <2>1. b \in Seq(Nat) /\ OpenedAt(r, b)
    BY <1>1, <1>5, AppendOpens DEF r
  <2>2. Len(b) = n + 1 /\ b[n + 1] = Len(s) + 1 /\ \A i \in 1 .. n : b[i] = at[i]
    BY <1>1, <1>2, AppendProperties
  <2>. HIDE DEF b
  <2>3. ASSUME NEW i \in 1 .. n + 1
        PROVE  r[b[i]] = Opener(f.frames[i].kind)
    <3>1. CASE i = n + 1
      BY <1>2, <1>5, <2>2, <3>1
    <3>2. CASE i # n + 1
      <4>1. i \in 1 .. n
        BY <1>1, <3>2
      <4>. QED
        BY <1>3, <1>5, <2>2, <4>1
    <3>. QED
      BY <3>1, <3>2
  <2>4. Stacked(r, f, b)
    BY <1>5, <2>1, <2>2, <2>3 DEF Stacked
  <2>. QED
    BY <2>4
<1>6. ASSUME t \in EndTokens, n # 0, Len(f.frames) = n - 1,
             \A i \in 1 .. n - 1 : f.frames[i].kind = e.frames[i].kind
      PROVE  \E b : Stacked(r, f, b)
  <2>. DEFINE b == SubSeq(at, 1, Len(at) - 1)
  <2>1. OpenedAt(r, b)
    BY <1>1, <1>6, AppendOpens DEF r
  <2>2. b \in Seq(Nat) /\ Len(b) = n - 1 /\ \A i \in 1 .. n - 1 : b[i] = at[i]
    BY <1>1, <1>6, WithoutLast
  <2>. HIDE DEF b
  <2>3. \A i \in 1 .. n - 1 : i \in 1 .. n
    BY <1>1
  <2>4. \A i \in 1 .. n - 1 : r[b[i]] = Opener(f.frames[i].kind)
    BY <1>3, <1>6, <2>2, <2>3
  <2>5. Stacked(r, f, b)
    BY <1>6, <2>1, <2>2, <2>4 DEF Stacked
  <2>. QED
    BY <2>5
<1>. QED
  BY <1>1, <1>4, <1>5, <1>6 DEF n, r

(* The next token stands in the encoder's innermost container.             *)
LEMMA StandsInTop ==
    ASSUME NEW s \in Seq(JsonTokens), NEW t \in JsonTokens,
           NEW e \in Encoders, ~AtRoot(e), NEW at, Stacked(s, e, at)
    PROVE  StandsIn(Append(s, t), Len(s) + 1, Opener(Top(e).kind))
<1>. DEFINE n == Len(e.frames)
<1>1. n \in Nat \ {0} /\ Top(e) = e.frames[n]
  BY EncodeFrameIsSlotted, TopIsLast
<1>2. at \in Seq(Nat) /\ Len(at) = n /\ OpenedAt(s, at) /\ s[at[n]] = Opener(e.frames[n].kind)
  BY <1>1 DEF Stacked
<1>. HIDE DEF n
<1>3. /\ at[n] \in Holders(Append(s, t), Len(s) + 1)
      /\ Append(s, t)[at[n]] = s[at[n]]
  BY <1>1, <1>2, StandsInInnermost
<1>. QED
  BY <1>1, <1>2, <1>3 DEF StandsIn

(* What an encoder whose tokens are in their places tells of the next one. *)
LEMMA WrittenTop ==
    ASSUME NEW e \in Encoders, NEW s \in Seq(JsonTokens), Written(s, e), ~AtRoot(e)
    PROVE  /\ Len(s) \in Nat \ {0} /\ e.root = TRUE
           /\ \A t \in JsonTokens : StandsIn(Append(s, t), Len(s) + 1, Opener(Top(e).kind))
           /\ Top(e).kind \in Kinds /\ Top(e).due \in BOOLEAN /\ Top(e).first \in BOOLEAN
           /\ Len(e.frames) \in Nat \ {0} /\ Top(e) = e.frames[Len(e.frames)]
<1>1. /\ Len(e.frames) \in Nat \ {0} /\ Top(e) = e.frames[Len(e.frames)]
      /\ Top(e) \in EncodeFrame
  BY EncodeFrameIsSlotted, TopIsLast
<1>2. s # <<>> /\ e.root = TRUE
  BY DEF Written, LastTells, Encoders
<1>3. \A t \in JsonTokens : StandsIn(Append(s, t), Len(s) + 1, Opener(Top(e).kind))
  BY StandsInTop DEF Written
<1>4. Len(s) \in Nat \ {0}
  BY <1>2, EmptySeq
<1>. QED
  BY <1>1, <1>2, <1>3, <1>4 DEF EncodeFrame

(* One token more whose place is right leaves every token in its place.    *)
LEMMA EveryFollows ==
    ASSUME NEW s \in Seq(JsonTokens), NEW t \in JsonTokens,
           \A i \in 1 .. Len(s) : Follows(s, i), Follows(Append(s, t), Len(s) + 1)
    PROVE  LET r == Append(s, t)
           IN  /\ r \in Seq(JsonTokens) /\ r # <<>> /\ Len(r) \in Nat \ {0}
               /\ r[Len(r)] = t
               /\ \A i \in 1 .. Len(r) : Follows(r, i)
<1>. DEFINE r == Append(s, t)
            n == Len(s)
<1>1. r \in Seq(JsonTokens) /\ r # <<>> /\ Len(r) = n + 1 /\ r[n + 1] = t /\ n \in Nat
  BY AppendProperties, LenProperties
<1>2. \A i \in 1 .. n : Follows(r, i)
  BY FollowsNext
<1>. HIDE DEF r, n
<1>3. \A i \in 1 .. n + 1 : i \in 1 .. n \/ i = n + 1
  BY <1>1
<1>4. Follows(r, n + 1)
  BY DEF r, n
<1>5. \A i \in 1 .. n + 1 : Follows(r, i)
  BY <1>2, <1>3, <1>4, Zenon
<1>6. Len(r) \in Nat \ {0}
  BY <1>1
<1>. QED
  BY <1>1, <1>5, <1>6, Zenon DEF r

(* A comma, unless the entry is the first, leaves every token in its place *)
(* and an entry to come.                                                   *)
LEMMA SeparatorWritten ==
    ASSUME NEW e \in Encoders, NEW s \in Seq(JsonTokens), Written(s, e),
           ~AtRoot(e), ~Top(e).due,
           NEW r, r = s \o EntrySeparator(e)
    PROVE  /\ r \in Seq(JsonTokens) /\ Len(r) \in Nat \ {0}
           /\ \A i \in 1 .. Len(r) : Follows(r, i)
           /\ r[Len(r)] \in {Opener(Top(e).kind), ","}
           /\ \E at : Stacked(r, e, at)
<1>1. /\ Len(s) \in Nat \ {0} /\ "," \in JsonTokens /\ Top(e).kind \in Kinds
      /\ StandsIn(Append(s, ","), Len(s) + 1, Opener(Top(e).kind))
      /\ Len(e.frames) \in Nat
  BY WrittenTop DEF JsonTokens
<1>2. CASE Top(e).first
  <2>1. r = s
    BY <1>2, ConcatEmptySeq DEF EntrySeparator
  <2>. QED
    BY <1>1, <1>2, <2>1 DEF Written, LastTells
<1>3. CASE ~Top(e).first
  <2>1. r = Append(s, ",")
    <3>1. r = s \o <<",">>
      BY <1>3 DEF EntrySeparator
    <3>. QED
      BY <1>1, <3>1, AppendBehind
  <2>3. Opener(Top(e).kind) \in {"[", "{"}
    BY DEF Opener
  <2>4. s[Len(s)] \in ValueEnds
    BY <1>3 DEF Written, LastTells
  <2>5. Follows(r, Len(s) + 1)
    <3>1. "," = "," => (Follows(r, Len(s) + 1) <=> (StandsIn(r, Len(s) + 1, "[") \/ StandsIn(r, Len(s) + 1, "{"))
                                                    /\ s[Len(s)] \in ValueEnds)
      BY <1>1, <2>1, FollowsNext
    <3>. QED
      BY <1>1, <2>1, <2>3, <2>4, <3>1
  <2>6. "," \in JsonTokens /\ \A i \in 1 .. Len(s) : Follows(s, i)
    BY <1>1 DEF Written
  <2>7. /\ r \in Seq(JsonTokens) /\ Len(r) \in Nat \ {0} /\ r[Len(r)] = ","
        /\ \A i \in 1 .. Len(r) : Follows(r, i)
    <3>1. LET q == Append(s, ",")
          IN  /\ q \in Seq(JsonTokens) /\ q # <<>> /\ Len(q) \in Nat \ {0}
              /\ q[Len(q)] = ","
              /\ \A i \in 1 .. Len(q) : Follows(q, i)
      BY <2>1, <2>5, <2>6, EveryFollows
    <3>. QED
      BY <2>1, <3>1, Zenon
  <2>8. \E at : Stacked(r, e, at)
    <3>1. PICK at : Stacked(s, e, at)
      BY DEF Written
    <3>2. "," \notin BeginTokens \cup EndTokens
      BY DEF BeginTokens, EndTokens
    <3>. QED
      BY <1>1, <2>1, <3>1, <3>2, StackedNext
  <2>. QED
    BY <2>7, <2>8, Zenon
<1>. QED
  BY <1>2, <1>3

(* Both entries: the comma of an element, and the comma and key of a       *)
(* member.                                                                 *)
LEMMA EntryFrames ==
    ASSUME NEW e \in Encoders, ~AtRoot(e), NEW s, Written(s, e)
    PROVE  LET f == EncEntry(TRUE, e)
               n == Len(e.frames)
           IN  /\ f \in Encoders /\ f.root = e.root /\ Len(f.frames) = n /\ ~AtRoot(f)
               /\ \A i \in 1 .. n : f.frames[i].kind = e.frames[i].kind
               /\ \A i \in 1 .. n - 1 : ~f.frames[i].first
               /\ Top(f).kind = Top(e).kind /\ Top(f).due = TRUE /\ Top(f).first = FALSE
<1>. DEFINE f == EncEntry(TRUE, e)
            n == Len(e.frames)
<1>1. /\ n \in Nat \ {0} /\ Top(e) = e.frames[n]
  BY EncodeFrameIsSlotted, TopIsLast
<1>2. f \in Encoders /\ f.root = e.root /\ DueIs(TRUE, e.frames, f.frames)
  BY EncEntryProperties
<1>3. f.frames[n].first = FALSE
  BY FirstOfTop
<1>. HIDE DEF f
<1>4. /\ Len(f.frames) = n
      /\ \A i \in 1 .. n : /\ f.frames[i].kind = e.frames[i].kind
                           /\ i # n => f.frames[i] = e.frames[i]
                           /\ i = n => f.frames[i].due
  BY <1>2 DEF DueIs
<1>. HIDE DEF n
<1>5. f.frames # <<>>
  BY <1>1, <1>4, EmptySeq
<1>6. ~AtRoot(f) /\ Top(f) = f.frames[n] /\ Top(f) \in EncodeFrame
  BY <1>2, <1>4, <1>5, EncodeFrameIsSlotted, TopIsLast DEF AtRoot
<1>7. \A i \in 1 .. n - 1 : i \in 1 .. n /\ i # n /\ ~e.frames[i].first
  BY <1>1 DEF Written, n
<1>8. n \in 1 .. n
  BY <1>1
<1>9. Top(f).due = TRUE
  BY <1>4, <1>6, <1>8 DEF EncodeFrame
<1>. QED
  BY <1>1, <1>2, <1>3, <1>4, <1>6, <1>7, <1>8, <1>9, Zenon DEF n, f

LEMMA ElementWritten ==
    ASSUME NEW e \in Encoders, NEW s \in Seq(JsonTokens), Written(s, e), EncSeparatorOk(TRUE, e)
    PROVE  Written(s \o EntrySeparator(e), EncEntry(TRUE, e))
<1>. DEFINE r == s \o EntrySeparator(e)
            f == EncEntry(TRUE, e)
<1>1. ~AtRoot(e) /\ ~Top(e).due /\ Top(e).kind = "array"
  BY DEF EncSeparatorOk, InArray, SeparatorOk
<1>2. /\ r \in Seq(JsonTokens) /\ Len(r) \in Nat \ {0}
      /\ \A i \in 1 .. Len(r) : Follows(r, i)
      /\ r[Len(r)] \in {"[", ","}
      /\ \E at : Stacked(r, e, at)
  BY <1>1, SeparatorWritten DEF Opener
<1>3. /\ f \in Encoders /\ f.root = e.root /\ Len(f.frames) = Len(e.frames) /\ ~AtRoot(f)
      /\ \A i \in 1 .. Len(e.frames) : f.frames[i].kind = e.frames[i].kind
      /\ \A i \in 1 .. Len(e.frames) - 1 : ~f.frames[i].first
      /\ Top(f).kind = "array" /\ Top(f).due = TRUE /\ Top(f).first = FALSE
  BY <1>1, EntryFrames
<1>4. e.root = TRUE
  BY <1>1, WrittenTop
<1>. HIDE DEF r, f
<1>5. \E at : Stacked(r, f, at)
  <2>1. PICK at : Stacked(r, e, at)
    BY <1>2
  <2>2. Stacked(r, f, at)
    BY <1>3, <2>1 DEF Stacked
  <2>. QED
    BY <2>2
<1>6. r # <<>>
  BY <1>2, EmptySeq
<1>7. LastTells(r, f)
  BY <1>2, <1>3, <1>4, <1>6 DEF LastTells
<1>8. Written(r, f)
  BY <1>2, <1>3, <1>5, <1>7 DEF Written
<1>. QED
  BY <1>8 DEF r, f

LEMMA KeyWritten ==
    ASSUME NEW e \in Encoders, NEW s \in Seq(JsonTokens), Written(s, e), EncKeyOk(TRUE, e)
    PROVE  Written(Append(s \o EntrySeparator(e), "key"), EncEntry(TRUE, e))
<1>. DEFINE p == s \o EntrySeparator(e)
            r == Append(p, "key")
            f == EncEntry(TRUE, e)
            n == Len(p)
<1>1. ~AtRoot(e) /\ ~Top(e).due /\ Top(e).kind = "object"
  BY DEF EncKeyOk, InObject, KeyOk
<1>2. /\ p \in Seq(JsonTokens) /\ n \in Nat \ {0} /\ "key" \in JsonTokens
      /\ \A i \in 1 .. n : Follows(p, i)
      /\ p[n] \in {"{", ","}
      /\ \E at : Stacked(p, e, at)
  BY <1>1, SeparatorWritten DEF Opener, JsonTokens
<1>3. /\ f \in Encoders /\ f.root = e.root /\ Len(f.frames) = Len(e.frames) /\ ~AtRoot(f)
      /\ \A i \in 1 .. Len(e.frames) : f.frames[i].kind = e.frames[i].kind
      /\ \A i \in 1 .. Len(e.frames) - 1 : ~f.frames[i].first
      /\ Top(f).kind = "object" /\ Top(f).due = TRUE /\ Top(f).first = FALSE
  BY <1>1, EntryFrames
<1>4. e.root = TRUE
  BY <1>1, WrittenTop
<1>. HIDE DEF p, f
<1>5. PICK at : Stacked(p, e, at)
  BY <1>2
<1>6. "key" \notin BeginTokens \cup EndTokens
  BY DEF BeginTokens, EndTokens
<1>7. \E b : Stacked(r, f, b)
  BY <1>2, <1>3, <1>5, <1>6, StackedNext
<1>8. StandsIn(r, n + 1, "{")
  BY <1>1, <1>2, <1>5, StandsInTop DEF Opener
<1>9. Follows(r, n + 1)
  BY <1>2, <1>8, FollowsNext
<1>. HIDE DEF n
<1>10. /\ r # <<>> /\ r[Len(r)] = "key"
       /\ \A i \in 1 .. Len(r) : Follows(r, i)
  BY <1>2, <1>9, EveryFollows, Zenon DEF n
<1>. HIDE DEF r
<1>14. LastTells(r, f)
  BY <1>3, <1>4, <1>10 DEF LastTells
<1>15. Written(r, f)
  BY <1>3, <1>7, <1>10, <1>14 DEF Written
<1>. QED
  BY <1>15 DEF r, p, f

(* The first token of a value has its place where the encoder takes one.   *)
LEMMA ValueFollows ==
    ASSUME NEW e \in Encoders, NEW s \in Seq(JsonTokens), Written(s, e), EncValueOk(TRUE, e),
           NEW t \in {"value", "[", "{"}
    PROVE  LET r == Append(s, t)
           IN  /\ r # <<>> /\ r[Len(r)] = t
               /\ \A i \in 1 .. Len(r) : Follows(r, i)
<1>0. t \in JsonTokens /\ Len(s) \in Nat
  BY LenProperties DEF JsonTokens
<1>1. \/ Len(s) = 0
      \/ s[Len(s)] = "key"
      \/ StandsIn(Append(s, t), Len(s) + 1, "[") /\ s[Len(s)] \in {"[", ","}
      => Follows(Append(s, t), Len(s) + 1)
  BY <1>0, FollowsNext
<1>2. Follows(Append(s, t), Len(s) + 1)
  <2>1. CASE AtRoot(e)
    <3>1. s = <<>>
      BY <2>1 DEF EncValueOk, ValueOk, Written, LastTells
    <3>2. Len(s) = 0
      BY <3>1, EmptySeq
    <3>. QED
      BY <1>1, <3>2
  <2>2. CASE ~AtRoot(e)
    <3>1. Top(e).due
      BY <2>2 DEF EncValueOk, ValueOk
    <3>2. /\ StandsIn(Append(s, t), Len(s) + 1, Opener(Top(e).kind))
          /\ Top(e).kind \in {"array", "object"}
      BY <1>0, <2>2, WrittenTop DEF Kinds
    <3>3. /\ Top(e).kind = "array" => s[Len(s)] \in {"[", ","}
          /\ Top(e).kind = "object" => s[Len(s)] = "key"
      BY <2>2, <3>1 DEF Written, LastTells
    <3>. QED
      BY <1>1, <3>2, <3>3 DEF Opener
  <2>. QED
    BY <2>1, <2>2
<1>. QED
  BY <1>0, <1>2, EveryFollows, Zenon DEF Written

(* What a value leaves of the frames.                                      *)
LEMMA ValueFrames ==
    ASSUME NEW e \in Encoders, NEW s, Written(s, e), EncValueOk(TRUE, e)
    PROVE  LET f == Value(e)
               n == Len(e.frames)
           IN  /\ f \in Encoders /\ f.root = TRUE /\ Len(f.frames) = n /\ n \in Nat
               /\ \A i \in 1 .. n : f.frames[i].kind = e.frames[i].kind
               /\ \A i \in 1 .. n : ~f.frames[i].first
               /\ ~AtRoot(f) => ~Top(f).due /\ ~Top(f).first
<1>. DEFINE f == Value(e)
            n == Len(e.frames)
<1>1. /\ f \in Encoders /\ n \in Nat
      /\ f.root = IF AtRoot(e) THEN TRUE ELSE e.root
      /\ DueIs(FALSE, e.frames, f.frames)
  BY EncodeFrameIsSlotted, ValueProperties, LenProperties DEF Encoders
<1>2. ~AtRoot(e) => f.frames[n].first = e.frames[n].first
  BY FirstOfTop
<1>. HIDE DEF f
<1>3. /\ Len(f.frames) = n
      /\ \A i \in 1 .. n : /\ f.frames[i].kind = e.frames[i].kind
                           /\ i # n => f.frames[i] = e.frames[i]
                           /\ i = n => ~f.frames[i].due
  BY <1>1 DEF DueIs
<1>4. CASE AtRoot(e)
  <2>1. n = 0
    BY <1>4, EmptySeq DEF AtRoot
  <2>2. AtRoot(f)
    BY <1>1, <1>3, <2>1, EmptySeq DEF AtRoot, Encoders
  <2>. QED
    BY <1>1, <1>3, <1>4, <2>1, <2>2 DEF f
<1>5. CASE ~AtRoot(e)
  <2>1. n \in Nat \ {0} /\ Top(e) = e.frames[n] /\ Top(e).due
    BY <1>5, EncodeFrameIsSlotted, TopIsLast DEF EncValueOk, ValueOk
  <2>2. e.root = TRUE /\ ~e.frames[n].first
    BY <1>5, <2>1 DEF Written, LastTells, Encoders
  <2>. HIDE DEF n
  <2>3. ASSUME NEW i \in 1 .. n
        PROVE  ~f.frames[i].first
    <3>1. CASE i = n
      BY <1>2, <1>5, <2>2, <3>1
    <3>2. CASE i # n
      <4>1. i \in 1 .. n - 1
        BY <2>1, <3>2
      <4>2. ~e.frames[i].first
        BY <4>1 DEF Written, n
      <4>. QED
        BY <1>3, <3>2, <4>2
    <3>. QED
      BY <3>1, <3>2
  <2>4. n \in 1 .. n
    BY <2>1
  <2>5. ~AtRoot(f) => Top(f) = f.frames[n]
    BY <1>1, <1>3, EncodeFrameIsSlotted, TopIsLast
  <2>6. ~AtRoot(f) => ~Top(f).due /\ ~Top(f).first
    BY <1>3, <2>3, <2>4, <2>5
  <2>7. f.root = TRUE
    BY <1>1, <1>5, <2>2
  <2>. QED
    BY <1>1, <1>3, <2>3, <2>6, <2>7 DEF f, n
<1>. QED
  BY <1>4, <1>5

(* A scalar.                                                               *)
LEMMA ScalarWritten ==
    ASSUME NEW e \in Encoders, NEW s \in Seq(JsonTokens), Written(s, e), EncValueOk(TRUE, e)
    PROVE  Written(Append(s, "value"), Value(e))
<1>. DEFINE r == Append(s, "value")
            f == Value(e)
            n == Len(e.frames)
<1>1. /\ f \in Encoders /\ f.root = TRUE /\ Len(f.frames) = n /\ n \in Nat
      /\ \A i \in 1 .. n : f.frames[i].kind = e.frames[i].kind
      /\ \A i \in 1 .. n : ~f.frames[i].first
      /\ ~AtRoot(f) => ~Top(f).due /\ ~Top(f).first
  BY ValueFrames
<1>2. "value" \in JsonTokens /\ "value" \in ValueEnds /\ "value" \notin BeginTokens \cup EndTokens
  BY DEF JsonTokens, ValueEnds, BeginTokens, EndTokens
<1>4. r # <<>> /\ r[Len(r)] = "value" /\ \A i \in 1 .. Len(r) : Follows(r, i)
  BY ValueFollows
<1>5. PICK at : Stacked(s, e, at)
  BY DEF Written
<1>6. \E b : Stacked(r, f, b)
  BY <1>1, <1>2, <1>5, StackedNext
<1>. HIDE DEF r, f
<1>8. LastTells(r, f)
  BY <1>1, <1>2, <1>4 DEF LastTells
<1>9. \A i \in 1 .. n - 1 : ~f.frames[i].first
  BY <1>1
<1>10. Written(r, f)
  BY <1>1, <1>4, <1>6, <1>8, <1>9 DEF Written
<1>. QED
  BY <1>10 DEF r, f

(* The opener of a container.                                              *)
LEMMA OpenerWritten ==
    ASSUME NEW e \in Encoders, NEW s \in Seq(JsonTokens), Written(s, e), EncValueOk(TRUE, e),
           NEW kind \in Kinds
    PROVE  Written(Append(s, Opener(kind)), EncBegin(TRUE, kind, e))
<1>. DEFINE t == Opener(kind)
            r == Append(s, t)
            v == Value(e)
            f == EncBegin(TRUE, kind, e)
            g == [kind |-> kind, due |-> FALSE, first |-> TRUE]
            n == Len(e.frames)
<1>1. /\ v \in Encoders /\ v.root = TRUE /\ Len(v.frames) = n /\ n \in Nat
      /\ \A i \in 1 .. n : v.frames[i].kind = e.frames[i].kind
      /\ \A i \in 1 .. n : ~v.frames[i].first
  BY ValueFrames
<1>2. f \in Encoders /\ Pushed(g, v, f)
  <2>1. g \in EncodeFrame
    BY DEF EncodeFrame
  <2>2. f = [v EXCEPT !.frames = Append(@, g)]
    BY DEF EncBegin, EncValue
  <2>. HIDE DEF v, f, g
  <2>. QED
    BY <1>1, <2>1, <2>2, EncodeFrameIsSlotted, PushProperties
<1>3. /\ t \in JsonTokens /\ t \in {"value", "[", "{"} /\ t \in BeginTokens
  BY DEF JsonTokens, BeginTokens, Opener
<1>4. r # <<>> /\ r[Len(r)] = t /\ \A i \in 1 .. Len(r) : Follows(r, i)
  BY <1>3, ValueFollows
<1>5. PICK at : Stacked(s, e, at)
  BY DEF Written
<1>. HIDE DEF v, f
<1>7. /\ f.root = TRUE /\ Len(f.frames) = n + 1 /\ f.frames[n + 1] = g
      /\ \A i \in 1 .. n : f.frames[i] = v.frames[i]
  BY <1>1, <1>2 DEF Pushed
<1>8. /\ \A i \in 1 .. n : f.frames[i].kind = e.frames[i].kind
      /\ \A i \in 1 .. n : ~f.frames[i].first
      /\ t = Opener(f.frames[n + 1].kind)
  <2>1. /\ \A i \in 1 .. n : f.frames[i].kind = e.frames[i].kind
        /\ \A i \in 1 .. n : ~f.frames[i].first
    BY <1>1, <1>7
  <2>2. g.kind = kind
    OBVIOUS
  <2>3. t = Opener(f.frames[n + 1].kind)
    BY <1>7, <2>2, Zenon
  <2>. QED
    BY <2>1, <2>3
<1>. HIDE DEF g, t
<1>9. \E b : Stacked(r, f, b)
  BY <1>3, <1>5, <1>7, <1>8, StackedNext
<1>10. ~AtRoot(f) /\ Top(f) = g
  <2>1. f.frames # <<>>
    BY <1>1, <1>7, EmptySeq
  <2>. QED
    BY <1>1, <1>2, <1>7, <2>1, EncodeFrameIsSlotted, TopIsLast DEF AtRoot
<1>. HIDE DEF r
<1>12. LastTells(r, f)
  BY <1>4, <1>7, <1>10 DEF LastTells, g, t
<1>13. \A i \in 1 .. Len(f.frames) - 1 : ~f.frames[i].first
  BY <1>1, <1>7, <1>8
<1>14. Written(r, f)
  BY <1>4, <1>9, <1>12, <1>13 DEF Written
<1>. QED
  BY <1>14 DEF r, f, t

(* And its closer.                                                         *)
LEMMA CloserWritten ==
    ASSUME NEW e \in Encoders, OnlyTopDue(e.frames), NEW s \in Seq(JsonTokens), Written(s, e),
           NEW kind \in Kinds, EncEndOk(TRUE, kind, e)
    PROVE  Written(Append(s, Closer(kind)), EncEnd(e))
<1>. DEFINE t == Closer(kind)
            r == Append(s, t)
            f == EncEnd(e)
            n == Len(e.frames)
<1>1. ~AtRoot(e) /\ Top(e).kind = kind /\ ~Top(e).due
  BY DEF EncEndOk, EndOk
<1>2. /\ Len(s) \in Nat \ {0} /\ e.root = TRUE /\ n \in Nat \ {0}
      /\ \A u \in JsonTokens : StandsIn(Append(s, u), Len(s) + 1, Opener(kind))
  BY <1>1, WrittenTop
<1>3. t \in JsonTokens /\ t \in EndTokens /\ t \notin BeginTokens /\ t \in ValueEnds
  BY DEF JsonTokens, EndTokens, Closer, BeginTokens, ValueEnds
<1>4. s[Len(s)] \in {Opener(kind)} \cup ValueEnds
  BY <1>1 DEF Written, LastTells
<1>5. Follows(r, Len(s) + 1)
  <2>1. StandsIn(r, Len(s) + 1, Opener(kind))
    BY <1>2, <1>3
  <2>2. CASE kind = "array"
    <3>1. t = "]" /\ Opener(kind) = "["
      BY <2>2 DEF Closer, Opener
    <3>. QED
      BY <1>3, <1>4, <2>1, <3>1, FollowsNext
  <2>3. CASE kind = "object"
    <3>1. t = "}" /\ Opener(kind) = "{"
      BY <2>3 DEF Closer, Opener
    <3>. QED
      BY <1>3, <1>4, <2>1, <3>1, FollowsNext
  <2>. QED
    BY <2>2, <2>3 DEF Kinds
<1>6. r # <<>> /\ r[Len(r)] = t /\ \A i \in 1 .. Len(r) : Follows(r, i)
  BY <1>3, <1>5, EveryFollows, Zenon DEF Written
<1>7. PICK at : Stacked(s, e, at)
  BY DEF Written
<1>9. /\ f \in Encoders /\ f.root = TRUE /\ Len(f.frames) = n - 1
      /\ \A i \in 1 .. n - 1 : f.frames[i] = e.frames[i]
  BY <1>1, <1>2, EncodeFrameIsSlotted, EndProperties DEF EncEnd
<1>. HIDE DEF f, t
<1>10. \E b : Stacked(r, f, b)
  BY <1>2, <1>3, <1>7, <1>9, StackedNext
<1>. HIDE DEF r
<1>11. ASSUME ~AtRoot(f)
       PROVE  ~Top(f).first /\ ~Top(f).due
  <2>1. Top(f) = f.frames[n - 1] /\ n - 1 \in Nat \ {0}
    BY <1>9, <1>11, EncodeFrameIsSlotted, TopIsLast
  <2>2. n - 1 \in 1 .. n - 1
    <3>1. \A m \in Nat \ {0} : m \in 1 .. m
      OBVIOUS
    <3>. QED
      BY <2>1, <3>1, Zenon
  <2>3. f.frames[n - 1] = e.frames[n - 1]
    BY <1>9, <2>2
  <2>4. ~e.frames[n - 1].first /\ ~e.frames[n - 1].due
    BY <2>2 DEF Written, OnlyTopDue
  <2>. QED
    BY <2>1, <2>3, <2>4
<1>13. LastTells(r, f)
  BY <1>3, <1>6, <1>9, <1>11 DEF LastTells
<1>14. \A i \in 1 .. Len(f.frames) - 1 : ~f.frames[i].first
  BY <1>2, <1>9 DEF Written
<1>16. Written(r, f)
  BY <1>6, <1>10, <1>13, <1>14 DEF Written
<1>. QED
  BY <1>16 DEF r, f, t

\* Behind s, the outcome's tokens are what its encoder has written.
Writes(s, o) == Written(s \o o.emit, o.encoder)

(* Every step of a handler writes its tokens in their places.              *)
LEMMA StructStepsWrite ==
    ASSUME NEW s, NEW o, Typed(o), Writes(s, o)
    PROVE  /\ Writes(s, Fail(o))
           /\ Writes(s, StructSeparator(o))
           /\ Writes(s, StructValue(o))
           /\ Writes(s, StructKey(o))
           /\ \A kind : Writes(s, StructBegin(kind, o)) /\ Writes(s, StructEnd(kind, o))
<1>1. ASSUME NEW p, p.emit = o.emit, p.encoder = o.encoder
      PROVE  Writes(s, p)
  BY <1>1 DEF Writes
<1>2. /\ Fail(o).emit = o.emit /\ Fail(o).encoder = o.encoder
  BY DEF Fail, Typed, Outcomes
<1>3. \A st, ok : LET p == [o EXCEPT !.structure = st]
                      q == [o EXCEPT !.structure = st, !.ok = ok]
                  IN  /\ p.emit = o.emit /\ p.encoder = o.encoder
                      /\ q.emit = o.emit /\ q.encoder = o.encoder
  BY DEF Typed, Outcomes
<1>4. Writes(s, Fail(o))
  BY <1>1, <1>2
<1>5. ASSUME NEW st, NEW ok
      PROVE  /\ Writes(s, [o EXCEPT !.structure = st])
             /\ Writes(s, [o EXCEPT !.structure = st, !.ok = ok])
  <2>. DEFINE p == [o EXCEPT !.structure = st]
              q == [o EXCEPT !.structure = st, !.ok = ok]
  <2>1. /\ p.emit = o.emit /\ p.encoder = o.encoder
        /\ q.emit = o.emit /\ q.encoder = o.encoder
    BY <1>3
  <2>. HIDE DEF p, q
  <2>2. Writes(s, p) /\ Writes(s, q)
    BY <1>1, <2>1
  <2>. QED
    BY <2>2 DEF p, q
<1>. QED
  BY <1>4, <1>5, Zenon DEF StructSeparator, StructValue, StructKey, StructBegin, StructEnd

LEMMA EncoderStepsWrite ==
    ASSUME NEW s \in Seq(JsonTokens), NEW o, Typed(o), Writes(s, o)
    PROVE  /\ Writes(s, EncoderSeparator(o))
           /\ Writes(s, EncoderValue(o))
           /\ Writes(s, EncoderKey(o))
           /\ \A kind \in Kinds : Writes(s, EncoderBegin(kind, o)) /\ Writes(s, EncoderEnd(kind, o))
<1>. DEFINE e == o.encoder
            c == o.emit
            r == s \o c
            lead == EntrySeparator(e)
<1>1. e \in Encoders /\ OnlyTopDue(e.frames) /\ c \in Seq(JsonTokens)
  BY DEF Typed, Outcomes
<1>2. r \in Seq(JsonTokens) /\ Written(r, e)
  BY <1>1, ConcatProperties DEF Writes
<1>3. Writes(s, Fail(o))
  BY StructStepsWrite
<1>4. \A t \in JsonTokens : s \o Append(c, t) = Append(r, t)
  <2>1. \A u, d \in Seq(JsonTokens), t \in JsonTokens : u \o Append(d, t) = Append(u \o d, t)
    BY AppendBehind
  <2>. QED
    BY <1>1, <2>1, Zenon
<1>5. /\ lead \in Seq(JsonTokens) /\ "key" \in JsonTokens
      /\ s \o (c \o lead) = r \o lead
      /\ s \o (c \o lead \o <<"key">>) = Append(r \o lead, "key")
  <2>1. "," \in JsonTokens /\ "key" \in JsonTokens
    BY DEF JsonTokens
  <2>2. <<",">> \in Seq(JsonTokens) /\ <<>> \in Seq(JsonTokens)
    BY <2>1, ShortSeq, Zenon
  <2>3. lead \in Seq(JsonTokens)
    BY <2>2, Zenon DEF EntrySeparator
  <2>. HIDE DEF lead, e, c
  <2>4. s \o (c \o lead) = (s \o c) \o lead
    <3>1. \A u, v, x \in Seq(JsonTokens) : (u \o v) \o x = u \o (v \o x)
      BY Associative, SMTT(30)
    <3>. QED
      BY <1>1, <2>3, <3>1, Zenon
  <2>5. c \o lead \in Seq(JsonTokens)
    BY <1>1, <2>3, ConcatProperties
  <2>6. \A u, d \in Seq(JsonTokens), t \in JsonTokens :
           u \o <<t>> = Append(u, t) /\ u \o Append(d, t) = Append(u \o d, t)
    BY AppendBehind
  <2>7. s \o (c \o lead \o <<"key">>) = Append(s \o (c \o lead), "key")
    <3>1. c \o lead \o <<"key">> = Append(c \o lead, "key")
      BY <2>1, <2>5, <2>6, Zenon
    <3>2. s \o Append(c \o lead, "key") = Append(s \o (c \o lead), "key")
      BY <2>1, <2>5, <2>6, Zenon
    <3>. QED
      BY <3>1, <3>2, Zenon
  <2>. QED
    BY <2>1, <2>3, <2>4, <2>7, Zenon DEF r, c
<1>. HIDE DEF lead, r
<1>6. ASSUME NEW f, NEW emit, Written(s \o emit, f)
      PROVE  /\ Writes(s, [o EXCEPT !.encoder = f, !.emit = emit])
             /\ Writes(s, [o EXCEPT !.encoder = f, !.emit = emit, !.spill = TRUE])
  <2>1. LET p == [o EXCEPT !.encoder = f, !.emit = emit]
            q == [o EXCEPT !.encoder = f, !.emit = emit, !.spill = TRUE]
        IN  /\ p.emit = emit /\ p.encoder = f
            /\ q.emit = emit /\ q.encoder = f
    BY DEF Typed, Outcomes
  <2>. QED
    BY <1>6, <2>1, Zenon DEF Writes
<1>7. Writes(s, EncoderSeparator(o))
  <2>1. CASE EncSeparatorOk(TRUE, e)
    <3>1. Written(s \o (c \o lead), EncEntry(TRUE, e))
      BY <1>1, <1>2, <1>5, <2>1, ElementWritten, Zenon DEF lead
    <3>. QED
      BY <1>6, <2>1, <3>1, Zenon DEF EncoderSeparator, lead
  <2>2. CASE ~EncSeparatorOk(TRUE, e)
    BY <1>3, <2>2, Zenon DEF EncoderSeparator
  <2>. QED
    BY <2>1, <2>2
<1>8. Writes(s, EncoderKey(o))
  <2>1. CASE EncKeyOk(TRUE, e)
    <3>1. Written(s \o (c \o lead \o <<"key">>), EncEntry(TRUE, e))
      BY <1>1, <1>2, <1>5, <2>1, KeyWritten, Zenon DEF lead
    <3>. QED
      BY <1>6, <2>1, <3>1, Zenon DEF EncoderKey, lead
  <2>2. CASE ~EncKeyOk(TRUE, e)
    BY <1>3, <2>2, Zenon DEF EncoderKey
  <2>. QED
    BY <2>1, <2>2
<1>9. Writes(s, EncoderValue(o))
  <2>1. CASE EncValueOk(TRUE, e)
    <3>1. "value" \in JsonTokens /\ EncValue(TRUE, e) = Value(e)
      BY DEF JsonTokens, EncValue
    <3>2. Written(s \o Append(c, "value"), EncValue(TRUE, e))
      BY <1>1, <1>2, <1>4, <2>1, <3>1, ScalarWritten, Zenon
    <3>. QED
      BY <1>6, <2>1, <3>2, Zenon DEF EncoderValue
  <2>2. CASE ~EncValueOk(TRUE, e)
    BY <1>3, <2>2, Zenon DEF EncoderValue
  <2>. QED
    BY <2>1, <2>2
<1>10. ASSUME NEW kind \in Kinds
       PROVE  Writes(s, EncoderBegin(kind, o)) /\ Writes(s, EncoderEnd(kind, o))
  <2>0. Opener(kind) \in JsonTokens /\ Closer(kind) \in JsonTokens
    BY DEF Opener, Closer, JsonTokens
  <2>1. ASSUME EncValueOk(TRUE, e)
        PROVE  Writes(s, EncoderBegin(kind, o))
    <3>1. Written(s \o Append(c, Opener(kind)), EncBegin(TRUE, kind, e))
      BY <1>1, <1>2, <1>4, <2>0, <2>1, OpenerWritten, Zenon
    <3>. QED
      BY <1>6, <2>1, <3>1, Zenon DEF EncoderBegin
  <2>2. ASSUME EncEndOk(TRUE, kind, e)
        PROVE  Writes(s, EncoderEnd(kind, o))
    <3>1. Written(s \o Append(c, Closer(kind)), EncEnd(e))
      BY <1>1, <1>2, <1>4, <2>0, <2>2, CloserWritten, Zenon
    <3>. QED
      BY <1>6, <2>2, <3>1, Zenon DEF EncoderEnd
  <2>. QED
    BY <1>3, <2>1, <2>2, Zenon DEF EncoderBegin, EncoderEnd
<1>. QED
  BY <1>7, <1>8, <1>9, <1>10

LEMMA HandlerWrites ==
    ASSUME NEW s \in Seq(JsonTokens), NEW o, Typed(o), Writes(s, o), NEW event \in Events
    PROVE  Writes(s, Handle(event, o))
<1>1. Typed(PrepareEntry(o)) /\ Writes(s, PrepareEntry(o))
  BY StructStepsTyped, EncoderStepsTyped, StructStepsWrite, EncoderStepsWrite
     DEF PrepareEntry, Try
<1>2. /\ Typed(Try(PrepareEntry(o), StructValue))
      /\ Writes(s, Try(PrepareEntry(o), StructValue))
  BY <1>1, StructStepsTyped, StructStepsWrite DEF Try
<1>3. Writes(s, Scalar(o)) /\ Writes(s, NonFinite(o))
  BY <1>2, StructStepsWrite, EncoderStepsWrite DEF Scalar, NonFinite, Try
<1>4. ASSUME NEW kind \in Kinds
      PROVE  Writes(s, BeginContainer(kind, o)) /\ Writes(s, EndContainer(kind, o))
  BY <1>1, StructStepsTyped, StructStepsWrite, EncoderStepsWrite
     DEF BeginContainer, EndContainer, Try
<1>5. Writes(s, ObjectKey(o))
  BY StructStepsTyped, StructStepsWrite, EncoderStepsWrite DEF ObjectKey, Try
<1>. QED
  BY <1>3, <1>4, <1>5 DEF Handle, Events, Kinds

\* The encoder has written what was put into the buffer, and is complete in
\* a sink that is done.
GrammarInv ==
    /\ Written(emitted, encoder)
    /\ status = "done" => AtRoot(encoder) /\ encoder.root

(* finish leaves one well-formed document with the writer (or puts one     *)
(* out, if the writer failed on the way and the caller went on), whatever  *)
(* the caller did with the errors (end_array and end_object of the encoder *)
(* check before they pop, finish asks both checkers).                      *)
THEOREM FinishedWellFormed == Spec => []FinishedIsDocument
<1>1. Init => GrammarInv
  <2>. SUFFICES ASSUME Init PROVE GrammarInv
    OBVIOUS
  <2>1. emitted = <<>> /\ encoder.frames = <<>> /\ encoder.root = FALSE /\ status = "open"
    BY DEF Init, NewEncoder
  <2>2. Len(<<>>) = 0 /\ <<>> \in Seq(Nat)
    BY EmptySeq
  <2>3. OpenedAt(<<>>, <<>>)
    BY <2>2, OpenAtStart DEF OpenedAt
  <2>4. Stacked(emitted, encoder, <<>>)
    BY <2>1, <2>2, <2>3 DEF Stacked
  <2>5. LastTells(emitted, encoder)
    BY <2>1 DEF LastTells, AtRoot
  <2>. QED
    BY <2>1, <2>2, <2>4, <2>5 DEF GrammarInv, Written
<1>2. TypeOK /\ GrammarInv /\ [Next]_vars => GrammarInv'
  <2>. SUFFICES ASSUME TypeOK, GrammarInv, [Next]_vars
                PROVE  GrammarInv'
    OBVIOUS
  <2>1. ASSUME NEW event \in Events, Event(event)
        PROVE  GrammarInv'
    <3>. DEFINE o == Handle(event, Start)
    <3>1. Typed(Start) /\ Start.emit = <<>> /\ Start.encoder = encoder
      BY EmptySeq DEF TypeOK, Typed, Start, Outcomes
    <3>2. emitted \o <<>> = emitted /\ emitted \in Seq(JsonTokens)
      BY ConcatEmptySeq DEF TypeOK
    <3>3. Writes(emitted, Start)
      BY <3>1, <3>2, Zenon DEF Writes, GrammarInv
    <3>4. Writes(emitted, o)
      BY <3>1, <3>2, <3>3, HandlerWrites
    <3>. HIDE DEF o
    <3>5. emitted' = emitted \o o.emit /\ encoder' = o.encoder
      BY <2>1 DEF Event, o
    <3>6. status' # "done"
      BY <2>1 DEF Event, Return
    <3>. QED
      BY <3>4, <3>5, <3>6 DEF Writes, GrammarInv
  <2>2. CASE Finish
    <3>1. status' = "done" => FinishOk(structure) /\ EncFinishOk(TRUE, encoder)
      <4>. DEFINE complete == FinishOk(structure) /\ EncFinishOk(TRUE, encoder)
      <4>1. PICK w \in IF complete THEN Flush(out) ELSE {[out |-> out, ok |-> FALSE]} :
               status' = IF w.ok THEN "done" ELSE "rejected"
        BY <2>2 DEF Finish
      <4>. HIDE DEF complete
      <4>2. status' = "done" => complete
        BY <4>1
      <4>. QED
        BY <4>2 DEF complete
    <3>2. emitted' = emitted /\ encoder' = encoder
      BY <2>2 DEF Finish
    <3>. QED
      BY <3>1, <3>2 DEF GrammarInv, EncFinishOk, FinishOk
  <2>3. CASE UNCHANGED vars
    BY <2>3 DEF vars, GrammarInv
  <2>. QED
    BY <2>1, <2>2, <2>3 DEF Next
<1>3. TypeOK /\ GrammarInv /\ WireIsPrefix => FinishedIsDocument
  <2>. SUFFICES ASSUME TypeOK, GrammarInv, WireIsPrefix, status = "done"
                PROVE  IsJsonDocument(emitted) /\ (caller # "persistent" => out.wire = emitted)
    BY DEF FinishedIsDocument
  <2>1. AtRoot(encoder) /\ encoder.root /\ emitted # <<>>
    BY DEF GrammarInv, Written, LastTells
  <2>2. PICK at : Stacked(emitted, encoder, at)
    BY DEF GrammarInv, Written
  <2>3. OpenAt(emitted, Len(emitted)) = 0
    <3>1. Len(encoder.frames) = 0
      BY <2>1, EmptySeq DEF AtRoot
    <3>. QED
      BY <2>2, <3>1 DEF Stacked, OpenedAt
  <2>. QED
    BY <2>1, <2>3 DEF IsJsonDocument, GrammarInv, Written, WireIsPrefix
<1>. QED
  BY <1>1, <1>2, <1>3, TypeCorrect, WireIntegrity, PTL DEF Spec
=============================================================================
