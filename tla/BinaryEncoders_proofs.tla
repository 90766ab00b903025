----------------------- MODULE BinaryEncoders_proofs ------------------------
(***************************************************************************)
(* For every order of calls, every number of them and all the limits of    *)
(* the formats: what an encoder writes ahead of its time stays where it    *)
(* will look for it, an encoder has the containers open that the checker   *)
(* in front of it has, and a flattened value leaves the struct it is in    *)
(* as it found it and gets nothing past it that is out of order.           *)
(***************************************************************************)
EXTENDS BinaryEncoders, Encoder_proofs, FiniteSetTheorems, WellFoundedInduction

-----------------------------------------------------------------------------
(* Sequences, by what they hold.                                           *)

Sequence(s) == s \in Seq({s[i] : i \in DOMAIN s})

(* A sequence over any set is one over its own elements.                   *)
LEMMA SequenceFacts ==
    ASSUME NEW S, NEW s \in Seq(S)
    PROVE  Sequence(s) /\ Len(s) \in Nat /\ DOMAIN s = 1 .. Len(s)
<1>1. Len(s) \in Nat /\ s \in [1 .. Len(s) -> S] /\ DOMAIN s = 1 .. Len(s)
  BY LenProperties
<1>2. s \in [1 .. Len(s) -> {s[i] : i \in DOMAIN s}]
  BY <1>1
<1>. QED
  BY <1>1, <1>2, SeqDef DEF Sequence

(* A function on 1 .. n is a sequence of n elements.                       *)
LEMMA FunctionSequence ==
    ASSUME NEW n \in Nat, NEW S, NEW s \in [1 .. n -> S]
    PROVE  Sequence(s) /\ Len(s) = n
<1>1. s \in Seq(S)
  BY SeqDef
<1>. QED
  BY <1>1, SequenceFacts, LenProperties

(* One sequence behind another.                                            *)
LEMMA ConcatSequence ==
    ASSUME NEW s, Sequence(s), NEW t, Sequence(t)
    PROVE  /\ Sequence(s \o t)
           /\ Len(s) \in Nat /\ Len(t) \in Nat
           /\ Len(s \o t) = Len(s) + Len(t)
           /\ \A i \in 1 .. Len(s) : (s \o t)[i] = s[i]
           /\ \A i \in 1 .. Len(t) : (s \o t)[Len(s) + i] = t[i]
<1>. DEFINE S == {s[i] : i \in DOMAIN s} \cup {t[i] : i \in DOMAIN t}
<1>1. s \in Seq(S) /\ t \in Seq(S)
  BY SeqMonotonic DEF Sequence
<1>. HIDE DEF S
<1>2. /\ s \o t \in Seq(S)
      /\ Len(s \o t) = Len(s) + Len(t)
      /\ \A i \in 1 .. Len(s) + Len(t) : (s \o t)[i] = IF i <= Len(s) THEN s[i] ELSE t[i - Len(s)]
  BY <1>1, ConcatProperties
<1>3. Len(s) \in Nat /\ Len(t) \in Nat
  BY <1>1, SequenceFacts
<1>4. /\ \A i \in 1 .. Len(s) : (s \o t)[i] = s[i]
      /\ \A i \in 1 .. Len(t) : (s \o t)[Len(s) + i] = t[i]
  BY <1>2, <1>3
<1>5. Sequence(s \o t)
  BY <1>2, SequenceFacts
<1>. QED
  BY <1>2, <1>3, <1>4, <1>5

(* A sequence of one element, and the empty one.                           *)
LEMMA SingleSequence ==
    ASSUME NEW x
    PROVE  /\ Sequence(<<x>>) /\ Len(<<x>>) = 1 /\ <<x>>[1] = x
           /\ Sequence(<<>>) /\ Len(<<>>) = 0
<1>1. <<x>> \in Seq({x}) /\ <<>> \in Seq({x})
  OBVIOUS
<1>. QED
  BY <1>1, SequenceFacts

(* The beginning of a sequence.                                            *)
LEMMA CutSequence ==
    ASSUME NEW S, NEW s \in Seq(S), NEW n \in Nat, n <= Len(s)
    PROVE  /\ SubSeq(s, 1, n) \in Seq(S)
           /\ Len(SubSeq(s, 1, n)) = n
           /\ \A i \in 1 .. n : SubSeq(s, 1, n)[i] = s[i]
<1>1. \A i \in 1 .. n : s[i] \in S
  BY LenProperties, ElementOfSeq
<1>2. /\ SubSeq(s, 1, n) \in Seq(S)
      /\ Len(SubSeq(s, 1, n)) = IF 1 <= n THEN n - 1 + 1 ELSE 0
      /\ \A i \in 1 .. n - 1 + 1 : SubSeq(s, 1, n)[i] = s[1 + i - 1]
  BY <1>1, SubSeqProperties
<1>. QED
  BY <1>2

-----------------------------------------------------------------------------
(* Stacks of frames.                                                       *)

(* The frame on top is taken off.                                          *)
LEMMA PopStack ==
    ASSUME NEW F, NEW fs \in Seq(F), fs # <<>>
    PROVE  /\ Len(fs) \in Nat \ {0}
           /\ Last(fs) = fs[Len(fs)] /\ Last(fs) \in F
           /\ Front(fs) \in Seq(F)
           /\ Len(Front(fs)) = Len(fs) - 1
           /\ \A i \in 1 .. Len(fs) - 1 : Front(fs)[i] = fs[i]
<1>1. Len(fs) \in Nat \ {0}
  BY EmptySeq, LenProperties
<1>2. Last(fs) = fs[Len(fs)] /\ Last(fs) \in F
  BY <1>1, ElementOfSeq DEF Last
<1>3. Len(fs) - 1 \in Nat /\ Len(fs) - 1 <= Len(fs)
  BY <1>1
<1>. QED
  BY <1>1, <1>2, <1>3, CutSequence DEF Front

(* The frame on top is changed.                                            *)
LEMMA ChangeStack ==
    ASSUME NEW F, NEW fs \in Seq(F), fs # <<>>, NEW f \in F
    PROVE  LET gs == [fs EXCEPT ![Len(fs)] = f]
           IN  /\ gs \in Seq(F)
               /\ Len(gs) = Len(fs)
               /\ gs[Len(fs)] = f
               /\ \A i \in 1 .. Len(fs) - 1 : gs[i] = fs[i]
<1>. DEFINE n == Len(fs)
            gs == [fs EXCEPT ![n] = f]
<1>1. n \in Nat \ {0} /\ DOMAIN fs = 1 .. n
  BY PopStack, LenProperties
<1>2. gs \in Seq(F) /\ Len(gs) = n
  BY <1>1, ExceptSeq
<1>3. n \in DOMAIN fs /\ \A i \in 1 .. n - 1 : i \in DOMAIN fs /\ i # n
  <2>1. \A m \in Nat \ {0} : m \in 1 .. m /\ \A i \in 1 .. m - 1 : i \in 1 .. m /\ i # m
    OBVIOUS
  <2>. QED
    BY <1>1, <2>1
<1>4. \A i \in DOMAIN fs : gs[i] = IF i = n THEN f ELSE fs[i]
  BY Zenon
<1>. QED
  BY <1>2, <1>3, <1>4

\* The stacks hold the same kinds, from the bottom up to the n-th frame.
SameKinds(n, fs, gs) == \A i \in 1 .. n : fs[i].kind = gs[i].kind

\* How a call moves a stack, as far as the kinds of its frames go.
MovesStack(event, fs, gs) ==
    IF event.call \in Begins THEN
        /\ Len(gs) = Len(fs) + 1
        /\ SameKinds(Len(fs), fs, gs)
        /\ gs[Len(fs) + 1].kind = KindOf(event.call)
    ELSE IF event.call \in Ends THEN
        /\ Len(fs) # 0
        /\ Len(gs) = Len(fs) - 1
        /\ SameKinds(Len(fs) - 1, fs, gs)
    ELSE /\ Len(gs) = Len(fs)
         /\ SameKinds(Len(fs), fs, gs)

InStep(fs, gs) == Len(fs) = Len(gs) /\ SameKinds(Len(gs), fs, gs)

(* Two stacks that are in step and move alike stay in step.                *)
LEMMA MovesInStep ==
    ASSUME NEW event, NEW fs, NEW gs, NEW fs2, NEW gs2, Len(gs) \in Nat,
           InStep(fs, gs), MovesStack(event, fs, fs2), MovesStack(event, gs, gs2)
    PROVE  InStep(fs2, gs2)
<1>1. CASE event.call \in Begins
  BY <1>1 DEF InStep, MovesStack, SameKinds
<1>2. CASE event.call \notin Begins /\ event.call \in Ends
  BY <1>2 DEF InStep, MovesStack, SameKinds
<1>3. CASE event.call \notin Begins /\ event.call \notin Ends
  BY <1>3 DEF InStep, MovesStack, SameKinds
<1>. QED
  BY <1>1, <1>2, <1>3

-----------------------------------------------------------------------------
(* The checker.                                                            *)

(* What a call is.                                                         *)
LEMMA CallFacts ==
    ASSUME NEW event \in Calls
    PROVE  /\ event.call \in Begins \cup Ends \cup {"separator", "object_key"} \cup Scalars \cup Markers
           /\ event.call = "object_key" => event.key \in Keys
           /\ event.call \in Begins \cup Ends => KindOf(event.call) \in Kinds
BY DEF Calls, Begins, Ends, Scalars, Markers, Keys, KindOf, Kinds

Awaits(s) == ~AtRoot(s) /\ Top(s).due

(* A call that is allowed moves the stack of the checker by its container; *)
(* a value is owed behind a separator and a key, and at no other time.     *)
LEMMA CheckerMoves ==
    ASSUME st \in States, OnlyTopDue(st.frames), NEW event \in Calls, Allowed(event)
    PROVE  /\ Tracked(event) \in States
           /\ OnlyTopDue(Tracked(event).frames)
           /\ MovesStack(event, st.frames, Tracked(event).frames)
           /\ event.call \in {"separator", "object_key"} => Awaits(Tracked(event))
           /\ event.call \in Begins \cup Ends \cup Scalars => ~Awaits(Tracked(event))
           /\ event.call \in Markers => Tracked(event) = st
<1>1. Slotted(Frame) /\ st \in Machine(Frame) /\ States = Machine(Frame)
  BY FrameIsSlotted
<1>2. Len(st.frames) \in Nat
  BY <1>1, LenProperties DEF Machine
<1>3. /\ event.call \in Begins \cup Ends \cup {"separator", "object_key"} \cup Scalars \cup Markers
      /\ event.call \in Begins \cup Ends => KindOf(event.call) \in Kinds
  BY CallFacts
<1>4. ASSUME NEW s \in Machine(Frame), ~AtRoot(s), NEW b \in BOOLEAN, DueIs(b, st.frames, s.frames)
      PROVE  Awaits(s) <=> b
  <2>1. Top(s) = s.frames[Len(s.frames)] /\ Len(s.frames) \in Nat \ {0}
    BY <1>4, TopIsLast
  <2>. QED
    BY <1>4, <2>1 DEF DueIs, Awaits
<1>5. ASSUME NEW s \in Machine(Frame), NEW b \in BOOLEAN, DueIs(b, st.frames, s.frames),
             event.call \notin Begins \cup Ends
      PROVE  MovesStack(event, st.frames, s.frames)
  BY <1>2, <1>5 DEF DueIs, MovesStack, SameKinds
<1>6. CASE event.call \in {"separator", "object_key"}
  <2>1. ~AtRoot(st) /\ Tracked(event) = SetDue(st, TRUE) /\ event.call \notin Begins \cup Ends
    BY <1>6 DEF Allowed, Tracked, SeparatorOk, KeyOk, InArray, InObject, Separator, Key, Begins, Ends, Markers
  <2>2. /\ SetDue(st, TRUE) \in Machine(Frame)
        /\ DueIs(TRUE, st.frames, SetDue(st, TRUE).frames)
        /\ OnlyTopDue(SetDue(st, TRUE).frames)
    BY <1>1, <2>1, SetDueProperties, OnlyTopDueKept
  <2>3. ~AtRoot(SetDue(st, TRUE))
    <3>1. Len(st.frames) # 0
      BY <1>1, <2>1, EmptySeq DEF Machine, AtRoot
    <3>. QED
      BY <2>2, <3>1 DEF DueIs, AtRoot
  <2>. QED
    BY <1>1, <1>4, <1>5, <1>6, <2>1, <2>2, <2>3 DEF Begins, Ends, Scalars, Markers
<1>7. CASE event.call \in Ends
  <2>. event.call \notin {"separator", "object_key", "some"} \cup Begins
    BY <1>7 DEF Ends, Begins
  <2>1. ~AtRoot(st) /\ Tracked(event) = End(st)
    BY <1>7 DEF Allowed, Tracked, EndOk, Markers
  <2>2. /\ End(st) \in Machine(Frame)
        /\ Len(End(st).frames) = Len(st.frames) - 1
        /\ \A i \in 1 .. Len(st.frames) - 1 : End(st).frames[i] = st.frames[i]
        /\ OnlyTopDue(End(st).frames)
    BY <1>1, <2>1, EndProperties, OnlyTopDueKept
  <2>3. Len(st.frames) # 0
    BY <1>1, <2>1, EmptySeq DEF Machine, AtRoot
  <2>4. MovesStack(event, st.frames, End(st).frames)
    BY <1>2, <1>7, <2>2, <2>3 DEF MovesStack, SameKinds, Begins, Ends
  <2>5. ~Awaits(End(st))
    <3>. SUFFICES ASSUME ~AtRoot(End(st)) PROVE ~Top(End(st)).due
      BY DEF Awaits
    <3>1. Top(End(st)) = End(st).frames[Len(End(st).frames)] /\ Len(End(st).frames) \in Nat \ {0}
      BY <2>2, TopIsLast
    <3>2. Len(End(st).frames) \in 1 .. Len(st.frames) - 1
      <4>1. \A m \in Nat \ {0}, n \in Nat : m = n - 1 => m \in 1 .. n - 1
        OBVIOUS
      <4>. QED
        BY <1>2, <2>2, <3>1, <4>1
    <3>. QED
      BY <2>2, <3>1, <3>2 DEF OnlyTopDue
  <2>. QED
    BY <1>1, <1>7, <2>1, <2>2, <2>4, <2>5 DEF Begins, Ends, Scalars, Markers
<1>8. CASE event.call \in Begins
  <2>. DEFINE f == [kind |-> KindOf(event.call), due |-> FALSE]
              new == [Value(st) EXCEPT !.frames = Append(@, f)]
  <2>1. f \in Frame /\ Tracked(event) = new /\ event.call \notin Ends
    BY <1>3, <1>8 DEF Tracked, Begin, Begins, Ends, Frame
  <2>. HIDE DEF f
  <2>2. /\ new \in Machine(Frame)
        /\ Pushed(f, Value(st), new)
        /\ Len(Value(st).frames) = Len(st.frames)
        /\ DueIs(FALSE, st.frames, Value(st).frames)
        /\ OnlyTopDue(new.frames)
    BY <1>1, <2>1, BeginProperties, ValueProperties, OnlyTopDueKept
  <2>. HIDE DEF new
  <2>3. f.kind = KindOf(event.call) /\ f.due = FALSE
    BY DEF f
  <2>4. MovesStack(event, st.frames, new.frames)
    BY <1>2, <1>8, <2>2, <2>3 DEF MovesStack, SameKinds, Pushed, DueIs
  <2>5. ~Awaits(new)
    <3>. SUFFICES ASSUME ~AtRoot(new) PROVE ~Top(new).due
      BY DEF Awaits
    <3>1. Top(new) = new.frames[Len(new.frames)]
      BY <2>2, TopIsLast
    <3>. QED
      BY <2>2, <2>3, <3>1 DEF Pushed
  <2>. QED
    BY <1>1, <1>8, <2>1, <2>2, <2>4, <2>5 DEF Begins, Ends, Scalars, Markers
<1>9. CASE event.call \in Scalars
  <2>1. Tracked(event) = Value(st) /\ event.call \notin Begins \cup Ends
    BY <1>9 DEF Tracked, Scalars, Begins, Ends
  <2>2. /\ Value(st) \in Machine(Frame)
        /\ DueIs(FALSE, st.frames, Value(st).frames)
        /\ OnlyTopDue(Value(st).frames)
    BY <1>1, ValueProperties, OnlyTopDueKept
  <2>3. ~Awaits(Value(st))
    BY <1>4, <2>2 DEF Awaits
  <2>. QED
    BY <1>1, <1>5, <1>9, <2>1, <2>2, <2>3 DEF Begins, Ends, Scalars, Markers
<1>10. CASE event.call \in Markers
  <2>1. Tracked(event) = st /\ event.call \notin Begins \cup Ends
    BY <1>10 DEF Tracked, Markers, Begins, Ends
  <2>. QED
    BY <1>1, <1>2, <1>10, <2>1 DEF MovesStack, SameKinds, Begins, Ends, Scalars, Markers
<1>. QED
  BY <1>3, <1>6, <1>7, <1>8, <1>9, <1>10

(* The two fields of an encoder, set one at a time.                        *)
LEMMA EncoderFields ==
    ASSUME NEW e, e = [buf |-> e.buf, frames |-> e.frames], NEW x
    PROVE  /\ [e EXCEPT !.buf = x] = [buf |-> x, frames |-> e.frames]
           /\ [e EXCEPT !.frames = x] = [buf |-> e.buf, frames |-> x]
<1>1. PICK b, f : e = [buf |-> b, frames |-> f]
  OBVIOUS
<1>2. e.buf = b /\ e.frames = f
  BY <1>1
<1>3. [[buf |-> b, frames |-> f] EXCEPT !.buf = x] = [buf |-> x, frames |-> f]
  OBVIOUS
<1>4. [[buf |-> b, frames |-> f] EXCEPT !.frames = x] = [buf |-> b, frames |-> x]
  OBVIOUS
<1>. QED
  BY <1>1, <1>2, <1>3, <1>4

-----------------------------------------------------------------------------
(* MessagePack, CBOR and Postcard: headers that are filled in at the end.  *)

CountedFrame == [kind : Kinds, start : Nat, count : Nat]

\* What begin_* writes where the header will be.
Hole(kind) == [b |-> IF format = "postcard" THEN "last" ELSE kind, w |-> 1, n |-> 0]

\* The open containers have their holes in the buffer, the outer ones first.
Ahead(e) ==
    /\ e = [buf |-> e.buf, frames |-> e.frames]
    /\ Sequence(e.buf)
    /\ e.frames \in Seq(CountedFrame)
    /\ \A i \in 1 .. Len(e.frames) :
          /\ e.frames[i].start \in 1 .. Len(e.buf)
          /\ e.buf[e.frames[i].start] = Hole(e.frames[i].kind)
    /\ \A i, j \in 1 .. Len(e.frames) : i < j => e.frames[i].start < e.frames[j].start

(* patch_prefix puts the header where the byte was: what is before it      *)
(* stays, and what is behind it moves up by the growth of the header.      *)
LEMMA PatchPrefixProperties ==
    ASSUME NEW buf, Sequence(buf), NEW start \in 1 .. Len(buf), NEW header, Sequence(header)
    PROVE  LET patched == Headers!PatchPrefix(buf, start, header)
               extra == Len(header) - 1
           IN  /\ Sequence(patched)
               /\ Len(patched) = Len(buf) + extra
               /\ \A i \in 1 .. start - 1 : patched[i] = buf[i]
               /\ \A i \in 1 .. Len(header) : patched[start + i - 1] = header[i]
               /\ \A i \in start + 1 .. Len(buf) : patched[i + extra] = buf[i]
<1>. DEFINE patched == Headers!PatchPrefix(buf, start, header)
            extra == Len(header) - 1
            At(i) == IF i < start THEN buf[i]
                     ELSE IF i <= start + extra THEN header[i - start + 1]
                     ELSE buf[i - extra]
            n == Len(buf) + extra
<1>1. Len(buf) \in Nat /\ Len(header) \in Nat
  BY SequenceFacts DEF Sequence
<1>2. n \in Nat /\ patched = [i \in 1 .. n |-> At(i)]
  BY <1>1 DEF Headers!PatchPrefix
<1>3. patched \in [1 .. n -> {At(i) : i \in 1 .. n}]
  BY <1>2, Zenon
<1>4. Sequence(patched) /\ Len(patched) = n
  BY <1>2, <1>3, FunctionSequence
<1>5. \A i \in 1 .. n : patched[i] = At(i)
  BY <1>2
<1>. HIDE DEF patched
<1>6. \A i \in 1 .. start - 1 : patched[i] = buf[i]
  BY <1>1, <1>5
<1>7. \A i \in 1 .. Len(header) : patched[start + i - 1] = header[i]
  BY <1>1, <1>5
<1>8. \A i \in start + 1 .. Len(buf) : patched[i + extra] = buf[i]
  BY <1>1, <1>5
<1>. QED
  BY <1>4, <1>6, <1>7, <1>8 DEF patched

(* Headers of any width are sequences.                                     *)
LEMMA SizedIsSequence ==
    ASSUME NEW kind, NEW count, NEW w \in {1, 2, 3, 5, 9}
    PROVE  Sequence(Headers!Sized(kind, count, w))
<1>1. CASE w = 1
  BY <1>1, SingleSequence DEF Headers!Sized
<1>2. CASE w # 1
  <2>. DEFINE tail == [i \in 1 .. w - 1 |-> Headers!Byte("count", i, count)]
              first == Headers!Byte(kind, w, 0)
  <2>1. w - 1 \in Nat /\ tail \in [1 .. w - 1 -> {tail[i] : i \in 1 .. w - 1}]
    OBVIOUS
  <2>2. Sequence(tail)
    BY <2>1, FunctionSequence
  <2>. HIDE DEF tail, first
  <2>3. Sequence(<<first>> \o tail)
    BY <2>2, SingleSequence, ConcatSequence
  <2>. QED
    BY <1>2, <2>3 DEF Headers!Sized, tail, first
<1>. QED
  BY <1>1, <1>2

(* A header of MessagePack is a sequence of bytes, and so is one of CBOR.  *)
LEMMA MsgPackHeaderIsSequence ==
    ASSUME NEW kind, NEW count
    PROVE  Sequence(Headers!MsgPackHeader(kind, count))
BY SizedIsSequence DEF Headers!MsgPackHeader

(* cbor.rs, the same.                                                      *)
LEMMA CborHeaderIsSequence ==
    ASSUME NEW kind, NEW count
    PROVE  Sequence(Headers!CborHeader(kind, count))
BY SizedIsSequence DEF Headers!CborHeader

(* The same operator, by way of the instance.                              *)
LEMMA SameCardinality == \A S : Headers!Cardinality(S) = Cardinality(S)
BY DEF Headers!Cardinality, Cardinality

(* Postcard's header is a varint: as many bytes as it has digits.          *)
LEMMA VarintBytesIsSequence ==
    ASSUME NEW value
    PROVE  Sequence(Headers!VarintBytes(value))
<1>. DEFINE K == {k \in 1 .. Width : Headers!Power(Headers!Base, k) <= value}
            n == 1 + Cardinality(K)
            digits == Headers!WriteVarint(value)
            bytes == Headers!VarintBytes(value)
<1>1. Cardinality(K) \in Nat
  <2>1. IsFiniteSet(1 .. Width)
    BY FS_Interval, BinaryEncodersAssumption
  <2>2. IsFiniteSet(K)
    BY <2>1, FS_Subset
  <2>. QED
    BY <2>2, FS_CardinalityType
<1>2. n \in Nat
  BY <1>1
<1>. HIDE DEF K
<1>3. digits = [i \in 1 .. n |-> Headers!Digit((value \div Headers!Power(Headers!Base, i - 1)) % Headers!Base, i < n)]
  BY SameCardinality DEF Headers!WriteVarint, K
<1>. HIDE DEF n
<1>4. Len(digits) = n
  <2>1. digits \in [1 .. n -> {digits[i] : i \in 1 .. n}]
    BY <1>3, Zenon
  <2>. QED
    BY <1>2, <2>1, FunctionSequence
<1>. HIDE DEF digits
<1>5. bytes = [i \in 1 .. n |-> Headers!Byte(IF digits[i].more THEN "more" ELSE "last", 1, digits[i].n)]
  BY <1>4 DEF Headers!VarintBytes, digits
<1>6. bytes \in [1 .. n -> {bytes[i] : i \in 1 .. n}]
  BY <1>5, Zenon
<1>. QED
  BY <1>2, <1>6, FunctionSequence

(* Bytes are written behind what is there.                                 *)
LEMMA PushAhead ==
    ASSUME NEW e, Ahead(e), NEW bytes, Sequence(bytes)
    PROVE  Ahead(Headers!Push(e, bytes)) /\ Headers!Push(e, bytes).frames = e.frames
<1>. DEFINE r == Headers!Push(e, bytes)
<1>1. r = [buf |-> e.buf \o bytes, frames |-> e.frames]
  <2>1. e = [buf |-> e.buf, frames |-> e.frames]
    BY DEF Ahead
  <2>. QED
    BY <2>1, EncoderFields DEF Headers!Push
<1>2. /\ Sequence(e.buf \o bytes)
      /\ Len(e.buf) \in Nat /\ Len(bytes) \in Nat
      /\ Len(e.buf \o bytes) = Len(e.buf) + Len(bytes)
      /\ \A i \in 1 .. Len(e.buf) : (e.buf \o bytes)[i] = e.buf[i]
  BY ConcatSequence DEF Ahead
<1>3. r.buf = e.buf \o bytes /\ r.frames = e.frames /\ r = [buf |-> r.buf, frames |-> r.frames]
  BY <1>1
<1>. HIDE DEF r
<1>4. 1 .. Len(e.buf) \subseteq 1 .. Len(r.buf) /\ \A i \in 1 .. Len(e.buf) : r.buf[i] = e.buf[i]
  BY <1>2, <1>3
<1>5. Ahead(r)
  BY <1>2, <1>3, <1>4 DEF Ahead
<1>. QED
  BY <1>3, <1>5 DEF r

(* An entry is counted: the frame on top has another count.                *)
LEMMA CountAhead ==
    ASSUME NEW e, Ahead(e)
    PROVE  LET r == Headers!CountEntry(e)
           IN  /\ Ahead(r)
               /\ Len(r.frames) = Len(e.frames)
               /\ SameKinds(Len(e.frames), e.frames, r.frames)
<1>. DEFINE r == Headers!CountEntry(e)
            n == Len(e.frames)
            f == [e.frames[n] EXCEPT !.count = @ + 1]
<1>1. CASE e.frames = <<>>
  BY <1>1 DEF Headers!CountEntry, SameKinds
<1>2. CASE e.frames # <<>>
  <2>1. n \in Nat \ {0} /\ e.frames[n] \in CountedFrame
    BY <1>2, PopStack DEF Ahead
  <2>2. f \in CountedFrame /\ f.kind = e.frames[n].kind /\ f.start = e.frames[n].start
    BY <2>1 DEF CountedFrame
  <2>3. r = [buf |-> e.buf, frames |-> [e.frames EXCEPT ![n] = f]]
    BY <1>2 DEF Headers!CountEntry, Ahead
  <2>. HIDE DEF f, r
  <2>4. /\ r.frames \in Seq(CountedFrame)
        /\ Len(r.frames) = n
        /\ r.frames[n] = f
        /\ \A i \in 1 .. n - 1 : r.frames[i] = e.frames[i]
    BY <1>2, <2>2, <2>3, ChangeStack DEF Ahead
  <2>5. \A i \in 1 .. n : r.frames[i].kind = e.frames[i].kind /\ r.frames[i].start = e.frames[i].start
    BY <2>1, <2>2, <2>4
  <2>6. r.buf = e.buf /\ r = [buf |-> r.buf, frames |-> r.frames]
    BY <2>3
  <2>7. Ahead(r)
    BY <2>4, <2>5, <2>6 DEF Ahead
  <2>. QED
    BY <2>4, <2>5, <2>7 DEF SameKinds, r
<1>. QED
  BY <1>1, <1>2

(* A container begins: its hole is behind all others.                      *)
LEMMA OpenAhead ==
    ASSUME NEW e, Ahead(e), NEW kind \in Kinds
    PROVE  LET r == Headers!OpenCounted(e, kind, Hole(kind))
           IN  /\ Ahead(r)
               /\ Len(r.frames) = Len(e.frames) + 1
               /\ SameKinds(Len(e.frames), e.frames, r.frames)
               /\ r.frames[Len(e.frames) + 1].kind = kind
<1>. DEFINE r == Headers!OpenCounted(e, kind, Hole(kind))
            n == Len(e.frames)
            m == Len(e.buf)
            f == [kind |-> kind, start |-> m + 1, count |-> 0]
            buf == e.buf \o <<Hole(kind)>>
<1>1. r = [buf |-> buf, frames |-> Append(e.frames, f)]
  <2>. DEFINE o == [buf |-> e.buf, frames |-> Append(e.frames, f)]
  <2>1. e = [buf |-> e.buf, frames |-> e.frames]
    BY DEF Ahead
  <2>2. [e EXCEPT !.frames = Append(@, f)] = o
    BY <2>1, EncoderFields
  <2>3. r = [o EXCEPT !.buf = o.buf \o <<Hole(kind)>>]
    BY <2>2 DEF Headers!OpenCounted, Headers!Push
  <2>. QED
    BY <2>3
<1>2. /\ Sequence(buf) /\ m \in Nat
      /\ Len(buf) = m + 1
      /\ \A i \in 1 .. m : buf[i] = e.buf[i]
      /\ buf[m + 1] = Hole(kind)
  BY ConcatSequence, SingleSequence DEF Ahead
<1>3. f \in CountedFrame /\ f.kind = kind /\ f.start = m + 1
  BY <1>2 DEF CountedFrame
<1>. HIDE DEF f, buf
<1>4. /\ r.frames \in Seq(CountedFrame) /\ n \in Nat
      /\ Len(r.frames) = n + 1
      /\ \A i \in 1 .. n : r.frames[i] = e.frames[i]
      /\ r.frames[n + 1] = f
  BY <1>1, <1>3, AppendProperties, LenProperties DEF Ahead
<1>5. r.buf = buf /\ r = [buf |-> r.buf, frames |-> r.frames]
  BY <1>1
<1>. HIDE DEF r
<1>6. \A i \in 1 .. n : /\ r.frames[i].start \in 1 .. m
                        /\ r.buf[r.frames[i].start] = Hole(r.frames[i].kind)
  BY <1>2, <1>4, <1>5 DEF Ahead
<1>7. \A i \in 1 .. n + 1 : /\ r.frames[i].start \in 1 .. m + 1
                            /\ r.buf[r.frames[i].start] = Hole(r.frames[i].kind)
  <2>. SUFFICES ASSUME NEW i \in 1 .. n + 1
                PROVE  /\ r.frames[i].start \in 1 .. m + 1
                       /\ r.buf[r.frames[i].start] = Hole(r.frames[i].kind)
    OBVIOUS
  <2>1. CASE i = n + 1
    <3>1. m + 1 \in 1 .. m + 1
      BY <1>2
    <3>. QED
      BY <1>2, <1>3, <1>4, <1>5, <2>1, <3>1
  <2>2. CASE i # n + 1
    <3>1. i \in 1 .. n
      BY <1>4, <2>2
    <3>. QED
      BY <1>2, <1>6, <3>1
  <2>. QED
    BY <2>1, <2>2
<1>8. \A i, j \in 1 .. n + 1 : i < j => r.frames[i].start < r.frames[j].start
  <2>. SUFFICES ASSUME NEW i \in 1 .. n + 1, NEW j \in 1 .. n + 1, i < j
                PROVE  r.frames[i].start < r.frames[j].start
    OBVIOUS
  <2>1. CASE j = n + 1
    <3>1. i \in 1 .. n
      BY <1>4, <2>1
    <3>2. r.frames[i].start \in 1 .. m
      BY <1>6, <3>1
    <3>3. r.frames[j].start = m + 1
      BY <1>3, <1>4, <2>1
    <3>. QED
      BY <1>2, <3>2, <3>3
  <2>2. CASE j # n + 1
    <3>1. i \in 1 .. n /\ j \in 1 .. n
      BY <1>4, <2>2
    <3>2. e.frames[i].start < e.frames[j].start
      BY <3>1 DEF Ahead
    <3>. QED
      BY <1>4, <3>1, <3>2
  <2>. QED
    BY <2>1, <2>2
<1>9. Ahead(r)
  BY <1>2, <1>4, <1>5, <1>7, <1>8 DEF Ahead
<1>. QED
  BY <1>3, <1>4, <1>9 DEF SameKinds, r

(* The frame on top is gone, and nothing else.                             *)
LEMMA PopAhead ==
    ASSUME NEW e, Ahead(e), e.frames # <<>>
    PROVE  LET r == Headers!PopFrame(e)
           IN  /\ Ahead(r)
               /\ Len(e.frames) \in Nat \ {0}
               /\ Len(r.frames) = Len(e.frames) - 1
               /\ \A i \in 1 .. Len(e.frames) - 1 : r.frames[i] = e.frames[i]
               /\ r.buf = e.buf
<1>. DEFINE r == Headers!PopFrame(e)
            n == Len(e.frames)
<1>1. r = [buf |-> e.buf, frames |-> Front(e.frames)]
  <2>1. e = [buf |-> e.buf, frames |-> e.frames]
    BY DEF Ahead
  <2>. QED
    BY <2>1, EncoderFields DEF Headers!PopFrame, Headers!Front, Front
<1>2. /\ n \in Nat \ {0}
      /\ Front(e.frames) \in Seq(CountedFrame)
      /\ Len(Front(e.frames)) = n - 1
      /\ \A i \in 1 .. n - 1 : Front(e.frames)[i] = e.frames[i]
  BY PopStack DEF Ahead
<1>3. r.frames = Front(e.frames) /\ r.buf = e.buf /\ r = [buf |-> r.buf, frames |-> r.frames]
  BY <1>1
<1>. HIDE DEF r
<1>4. 1 .. n - 1 \subseteq 1 .. n
  BY <1>2
<1>5. Ahead(r)
  BY <1>2, <1>3, <1>4 DEF Ahead
<1>. QED
  BY <1>2, <1>3, <1>5 DEF r

(* A container ends: its header takes the place of its hole, and the holes *)
(* of the containers around it, which are before it, stay.                 *)
LEMMA CloseAhead ==
    ASSUME NEW e, Ahead(e), e.frames # <<>>, NEW header, Sequence(header)
    PROVE  LET r == Headers!Patch(Headers!PopFrame(e), Last(e.frames).start, header)
           IN  /\ Ahead(r)
               /\ Len(e.frames) # 0
               /\ Len(r.frames) = Len(e.frames) - 1
               /\ SameKinds(Len(e.frames) - 1, e.frames, r.frames)
<1>. DEFINE p == Headers!PopFrame(e)
            n == Len(e.frames)
            at == Last(e.frames).start
            patched == Headers!PatchPrefix(e.buf, at, header)
            r == Headers!Patch(p, at, header)
<1>1. /\ Ahead(p) /\ n \in Nat \ {0}
      /\ Len(p.frames) = n - 1
      /\ \A i \in 1 .. n - 1 : p.frames[i] = e.frames[i]
      /\ p.buf = e.buf
  BY PopAhead
<1>2. Last(e.frames) = e.frames[n] /\ at \in 1 .. Len(e.buf)
  <2>1. n \in 1 .. n
    BY <1>1
  <2>. QED
    BY <2>1 DEF Ahead, Last
<1>. HIDE DEF p
<1>3. r = [buf |-> patched, frames |-> p.frames]
  <2>1. p = [buf |-> p.buf, frames |-> p.frames]
    BY <1>1 DEF Ahead
  <2>. QED
    BY <1>1, <2>1, EncoderFields DEF Headers!Patch
<1>4. /\ Sequence(patched)
      /\ Len(patched) = Len(e.buf) + (Len(header) - 1)
      /\ \A i \in 1 .. at - 1 : patched[i] = e.buf[i]
  <2>1. Sequence(e.buf)
    BY DEF Ahead
  <2>2. ASSUME NEW b, Sequence(b), NEW k \in 1 .. Len(b)
        PROVE  LET q == Headers!PatchPrefix(b, k, header)
               IN  /\ Sequence(q)
                   /\ Len(q) = Len(b) + (Len(header) - 1)
                   /\ \A i \in 1 .. k - 1 : q[i] = b[i]
    BY <2>2, PatchPrefixProperties
  <2>. HIDE DEF at
  <2>. QED
    BY <1>2, <2>1, <2>2
<1>5. Len(e.buf) \in Nat /\ Len(header) \in Nat
  BY SequenceFacts DEF Ahead, Sequence
<1>. HIDE DEF patched
<1>6. r.buf = patched /\ r.frames = p.frames /\ r = [buf |-> r.buf, frames |-> r.frames]
  BY <1>3
<1>. HIDE DEF r
<1>7. \A i \in 1 .. n - 1 : /\ r.frames[i].start \in 1 .. at - 1
                            /\ r.buf[r.frames[i].start] = Hole(r.frames[i].kind)
  <2>. SUFFICES ASSUME NEW i \in 1 .. n - 1
                PROVE  /\ r.frames[i].start \in 1 .. at - 1
                       /\ r.buf[r.frames[i].start] = Hole(r.frames[i].kind)
    OBVIOUS
  <2>1. i \in 1 .. n /\ n \in 1 .. n /\ i < n
    BY <1>1
  <2>2. e.frames[i].start \in 1 .. Len(e.buf) /\ e.frames[i].start < at
    BY <1>2, <2>1 DEF Ahead
  <2>3. e.frames[i].start \in 1 .. at - 1
    BY <1>2, <2>2
  <2>4. /\ r.frames[i] = e.frames[i]
        /\ r.buf[e.frames[i].start] = e.buf[e.frames[i].start]
    BY <1>1, <1>4, <1>6, <2>3
  <2>5. e.buf[e.frames[i].start] = Hole(e.frames[i].kind)
    BY <2>1 DEF Ahead
  <2>. QED
    BY <2>3, <2>4, <2>5
<1>8. 1 .. at - 1 \subseteq 1 .. Len(r.buf)
  BY <1>2, <1>4, <1>5, <1>6
<1>9. Ahead(r)
  BY <1>1, <1>4, <1>6, <1>7, <1>8 DEF Ahead
<1>. QED
  BY <1>1, <1>6, <1>9 DEF SameKinds, p, r

\* The outcome r of a call on an encoder with the frames fs.
GoesOn(event, fs, r) == r.ok => MovesStack(event, fs, r.e.frames)

(* A call that opens or closes nothing.                                    *)
LEMMA StaysInside ==
    ASSUME NEW event, event.call \notin Begins \cup Ends, NEW fs, NEW gs,
           Len(gs) = Len(fs), SameKinds(Len(fs), fs, gs)
    PROVE  MovesStack(event, fs, gs)
BY DEF MovesStack

(* begin_* and end_* of the encoders that count.                           *)
LEMMA CountedBegins ==
    ASSUME NEW e, Ahead(e), NEW event \in Calls, event.call \in Begins,
           NEW byte, byte = Hole(KindOf(event.call)), NEW r,
           r = Headers!Done(Headers!OpenCounted(e, KindOf(event.call), byte))
    PROVE  Ahead(r.e) /\ GoesOn(event, e.frames, r)
<1>1. KindOf(event.call) \in Kinds
  BY CallFacts
<1>2. r.e = Headers!OpenCounted(e, KindOf(event.call), Hole(KindOf(event.call)))
  BY DEF Headers!Done
<1>. QED
  BY <1>1, <1>2, OpenAhead DEF MovesStack, GoesOn

(* end_*: the header takes the place of the hole.                          *)
LEMMA CountedEnds ==
    ASSUME NEW e, Ahead(e), e.frames # <<>>, NEW event, event.call \in Ends,
           NEW header, Sequence(header), NEW r,
           r = Headers!Done(Headers!Patch(Headers!PopFrame(e), Last(e.frames).start, header))
    PROVE  Ahead(r.e) /\ GoesOn(event, e.frames, r)
<1>1. r.e = Headers!Patch(Headers!PopFrame(e), Last(e.frames).start, header)
  BY DEF Headers!Done
<1>2. event.call \notin Begins
  BY DEF Begins, Ends
<1>. QED
  BY <1>1, <1>2, CloseAhead DEF MovesStack, GoesOn

(* A key or a separator counts an entry, and a key is written.             *)
LEMMA CountedEntries ==
    ASSUME NEW e, Ahead(e), NEW event, event.call \in {"separator", "object_key"}, NEW byte, NEW r,
           \/ r = Headers!Done(Headers!CountEntry(e))
           \/ r = Headers!Done(Headers!Push(Headers!CountEntry(e), <<byte>>))
    PROVE  Ahead(r.e) /\ GoesOn(event, e.frames, r)
<1>. DEFINE o == Headers!CountEntry(e)
<1>1. Ahead(o) /\ Len(o.frames) = Len(e.frames) /\ SameKinds(Len(e.frames), e.frames, o.frames)
  BY CountAhead
<1>. HIDE DEF o
<1>2. Ahead(Headers!Push(o, <<byte>>)) /\ Headers!Push(o, <<byte>>).frames = o.frames
  BY <1>1, SingleSequence, PushAhead
<1>3. Ahead(r.e) /\ r.e.frames = o.frames
  BY <1>1, <1>2 DEF Headers!Done, o
<1>4. event.call \notin Begins \cup Ends
  BY DEF Begins, Ends
<1>. QED
  BY <1>1, <1>3, <1>4, StaysInside DEF GoesOn

(* Scalars are bytes behind what is there.                                 *)
LEMMA CountedScalars ==
    ASSUME NEW e, Ahead(e), NEW event, event.call \in Scalars \cup Markers, NEW bytes, Sequence(bytes),
           NEW r, r = Headers!Done(Headers!Push(e, bytes))
    PROVE  Ahead(r.e) /\ GoesOn(event, e.frames, r)
<1>1. Ahead(r.e) /\ r.e.frames = e.frames
  BY PushAhead DEF Headers!Done
<1>2. event.call \notin Begins \cup Ends
  BY DEF Begins, Ends, Scalars, Markers
<1>3. SameKinds(Len(e.frames), e.frames, e.frames)
  BY DEF SameKinds
<1>. QED
  BY <1>1, <1>2, <1>3, StaysInside DEF GoesOn

(* A refusal.                                                              *)
LEMMA Refuses ==
    ASSUME NEW e, NEW event, NEW fs, NEW r, r = Headers!Refused(e)
    PROVE  r.e = e /\ ~r.ok /\ GoesOn(event, fs, r)
BY DEF Headers!Refused, GoesOn

(* The calls of MsgPackEncoder.                                            *)
LEMMA MsgPackEmits ==
    ASSUME format = "msgpack", Ahead(enc), NEW event \in Calls
    PROVE  Ahead(EmitMsgPack(event).e) /\ GoesOn(event, enc.frames, EmitMsgPack(event))
<1>. DEFINE r == EmitMsgPack(event)
<1>1. CASE event.call \in {"separator", "object_key"}
  <2>1. \/ r = Headers!Done(Headers!CountEntry(enc))
        \/ r = Headers!Done(Headers!Push(Headers!CountEntry(enc), <<Headers!Plain(event.key)>>))
    BY <1>1 DEF EmitMsgPack, Headers!MsgPackSeparator, Headers!MsgPackKey, Begins, Ends
  <2>. HIDE DEF r
  <2>. QED
    BY <1>1, <2>1, CountedEntries DEF r
<1>2. CASE event.call \in Ends
  <2>1. r = Headers!MsgPackEnd(enc)
    BY <1>2 DEF EmitMsgPack, Ends, Begins
  <2>2. CASE enc.frames = <<>>
    BY <2>1, <2>2, Refuses DEF Headers!MsgPackEnd
  <2>3. CASE enc.frames # <<>> /\ Headers!Last(enc.frames).count > U32Max
    BY <2>1, <2>3, PopAhead, Refuses DEF Headers!MsgPackEnd
  <2>4. CASE enc.frames # <<>> /\ ~(Headers!Last(enc.frames).count > U32Max)
    <3>. DEFINE frame == Last(enc.frames)
                header == Headers!MsgPackHeader(frame.kind, frame.count)
    <3>1. r = Headers!Done(Headers!Patch(Headers!PopFrame(enc), frame.start, header))
      BY <2>1, <2>4 DEF Headers!MsgPackEnd, Headers!Last, Last
    <3>2. Sequence(header)
      BY MsgPackHeaderIsSequence
    <3>. HIDE DEF header
    <3>. QED
      BY <1>2, <2>4, <3>1, <3>2, CountedEnds
  <2>. QED
    BY <2>2, <2>3, <2>4
<1>3. CASE event.call \in Begins
  <2>1. r = Headers!Done(Headers!OpenCounted(enc, KindOf(event.call), Headers!Byte(KindOf(event.call), 1, 0)))
    BY <1>3 DEF EmitMsgPack, Headers!MsgPackBegin, Begins, Ends
  <2>2. Headers!Byte(KindOf(event.call), 1, 0) = Hole(KindOf(event.call))
    BY DEF Headers!Byte, Hole
  <2>. QED
    BY <1>3, <2>1, <2>2, CountedBegins
<1>4. CASE event.call \in Scalars \cup Markers
  <2>1. r = Headers!MsgPackScalar(enc, event.call)
    BY <1>4 DEF EmitMsgPack, Begins, Ends, Scalars, Markers
  <2>. QED
    BY <1>4, <2>1, SingleSequence, CountedScalars, Refuses DEF Headers!MsgPackScalar
<1>. QED
  BY <1>1, <1>2, <1>3, <1>4, CallFacts

(* The calls of CborEncoder.                                               *)
LEMMA CborEmits ==
    ASSUME format = "cbor", Ahead(enc), NEW event \in Calls
    PROVE  Ahead(EmitCbor(event).e) /\ GoesOn(event, enc.frames, EmitCbor(event))
<1>. DEFINE r == EmitCbor(event)
<1>1. CASE event.call \in {"separator", "object_key"}
  <2>1. \/ r = Headers!Refused(enc)
        \/ r = Headers!Done(Headers!CountEntry(enc))
        \/ r = Headers!Done(Headers!Push(Headers!CountEntry(enc), <<Headers!Plain(event.key)>>))
    BY <1>1 DEF EmitCbor, Headers!CborSeparator, Headers!CborKey, Begins, Ends
  <2>. HIDE DEF r
  <2>. QED
    BY <1>1, <2>1, CountedEntries, Refuses DEF r
<1>2. CASE event.call \in Ends
  <2>1. r = Headers!CborEnd(enc)
    BY <1>2 DEF EmitCbor, Ends, Begins
  <2>2. CASE enc.frames = <<>>
    BY <2>1, <2>2, Refuses DEF Headers!CborEnd
  <2>3. CASE enc.frames # <<>>
    <3>. DEFINE frame == Last(enc.frames)
                header == Headers!CborHeader(frame.kind, frame.count)
    <3>1. r = Headers!Done(Headers!Patch(Headers!PopFrame(enc), frame.start, header))
      BY <2>1, <2>3 DEF Headers!CborEnd, Headers!Last, Last
    <3>2. Sequence(header)
      BY CborHeaderIsSequence
    <3>. HIDE DEF header
    <3>. QED
      BY <1>2, <2>3, <3>1, <3>2, CountedEnds
  <2>. QED
    BY <2>2, <2>3
<1>3. CASE event.call \in Begins
  <2>1. r = Headers!Done(Headers!OpenCounted(enc, KindOf(event.call), Headers!Byte(KindOf(event.call), 1, 0)))
    BY <1>3 DEF EmitCbor, Headers!CborBegin, Begins, Ends
  <2>2. Headers!Byte(KindOf(event.call), 1, 0) = Hole(KindOf(event.call))
    BY DEF Headers!Byte, Hole
  <2>. QED
    BY <1>3, <2>1, <2>2, CountedBegins
<1>4. CASE event.call \in Scalars \cup Markers
  <2>1. r = Headers!CborScalar(enc, event.call)
    BY <1>4 DEF EmitCbor, Begins, Ends, Scalars, Markers
  <2>. QED
    BY <1>4, <2>1, SingleSequence, CountedScalars, Refuses DEF Headers!CborScalar
<1>. QED
  BY <1>1, <1>2, <1>3, <1>4, CallFacts

(* The calls of PostcardEncoder.                                           *)
LEMMA PostcardEmits ==
    ASSUME format = "postcard", Ahead(enc), NEW event \in Calls
    PROVE  Ahead(EmitPostcard(event).e) /\ GoesOn(event, enc.frames, EmitPostcard(event))
<1>. DEFINE r == EmitPostcard(event)
<1>1. CASE event.call \in {"separator", "object_key"}
  <2>1. \/ r = Headers!Done(Headers!CountEntry(enc))
        \/ r = Headers!Done(Headers!Push(Headers!CountEntry(enc), <<Headers!Plain(event.key)>>))
    BY <1>1 DEF EmitPostcard, Headers!PostcardSeparator, Headers!PostcardKey, Begins, Ends
  <2>. HIDE DEF r
  <2>. QED
    BY <1>1, <2>1, CountedEntries DEF r
<1>2. CASE event.call \in Ends
  <2>1. r = Headers!PostcardEnd(enc)
    BY <1>2 DEF EmitPostcard, Ends, Begins
  <2>2. CASE enc.frames = <<>>
    BY <2>1, <2>2, Refuses DEF Headers!PostcardEnd
  <2>3. CASE enc.frames # <<>>
    <3>. DEFINE frame == Last(enc.frames)
                header == Headers!VarintBytes(frame.count)
    <3>1. r = Headers!Done(Headers!Patch(Headers!PopFrame(enc), frame.start, header))
      BY <2>1, <2>3 DEF Headers!PostcardEnd, Headers!Last, Last
    <3>2. Sequence(header)
      BY VarintBytesIsSequence
    <3>. HIDE DEF header
    <3>. QED
      BY <1>2, <2>3, <3>1, <3>2, CountedEnds
  <2>. QED
    BY <2>2, <2>3
<1>3. CASE event.call \in Begins
  <2>1. r = Headers!Done(Headers!OpenCounted(enc, KindOf(event.call), Headers!Byte("last", 1, 0)))
    BY <1>3 DEF EmitPostcard, Headers!PostcardBegin, Begins, Ends
  <2>2. Headers!Byte("last", 1, 0) = Hole(KindOf(event.call))
    BY DEF Headers!Byte, Hole
  <2>. QED
    BY <1>3, <2>1, <2>2, CountedBegins
<1>4. CASE event.call \in Scalars \cup Markers
  <2>1. r = Headers!PostcardScalar(enc, event.call)
    BY <1>4 DEF EmitPostcard, Begins, Ends, Scalars, Markers
  <2>2. Sequence(Headers!VarintBytes(0))
    BY VarintBytesIsSequence
  <2>. QED
    BY <1>4, <2>1, <2>2, SingleSequence, CountedScalars, Refuses DEF Headers!PostcardScalar
<1>. QED
  BY <1>1, <1>2, <1>3, <1>4, CallFacts

-----------------------------------------------------------------------------
(* BSON: lengths that are filled in at the end, types with the value.      *)

(* The four fields of its encoder, set one at a time.                      *)
LEMMA BsonFields ==
    ASSUME NEW b, NEW f, NEW p, NEW q, NEW x, NEW e,
           e = [buf |-> b, frames |-> f, pending |-> p, root |-> q]
    PROVE  /\ [e EXCEPT !.buf = x] = [buf |-> x, frames |-> f, pending |-> p, root |-> q]
           /\ [e EXCEPT !.frames = x] = [buf |-> b, frames |-> x, pending |-> p, root |-> q]
           /\ [e EXCEPT !.pending = x] = [buf |-> b, frames |-> f, pending |-> x, root |-> q]
           /\ [e EXCEPT !.root = x] = [buf |-> b, frames |-> f, pending |-> p, root |-> x]
           /\ e.buf = b /\ e.frames = f /\ e.pending = p /\ e.root = q
<1>. DEFINE r == [buf |-> b, frames |-> f, pending |-> p, root |-> q]
<1>1. [r EXCEPT !.buf = x] = [buf |-> x, frames |-> f, pending |-> p, root |-> q]
  OBVIOUS
<1>2. [r EXCEPT !.frames = x] = [buf |-> b, frames |-> x, pending |-> p, root |-> q]
  OBVIOUS
<1>3. [r EXCEPT !.pending = x] = [buf |-> b, frames |-> f, pending |-> x, root |-> q]
  OBVIOUS
<1>4. [r EXCEPT !.root = x] = [buf |-> b, frames |-> f, pending |-> p, root |-> x]
  OBVIOUS
<1>5. r.buf = b /\ r.frames = f /\ r.pending = p /\ r.root = q
  OBVIOUS
<1>6. e = r
  OBVIOUS
<1>. HIDE DEF r
<1>. QED
  BY <1>1, <1>2, <1>3, <1>4, <1>5, <1>6

DocumentFrame == [kind : Kinds, start : Nat, next : Nat]

\* The open documents fs have their blank lengths in the buffer, the outer ones
\* first, and a name without a value has its blank type.
Marked(buf, fs, pending) ==
    /\ Sequence(buf)
    /\ fs \in Seq(DocumentFrame)
    /\ \A i \in 1 .. Len(fs) : fs[i].start \in 1 .. Len(buf) /\ buf[fs[i].start] = Bson!NoLength
    /\ \A i, j \in 1 .. Len(fs) : i < j => fs[i].start < fs[j].start
    /\ pending \in 0 .. Len(buf)
    /\ pending # 0 => buf[pending] = Bson!Blank /\ fs # <<>>

(* Bytes are written behind what is there.                                 *)
LEMMA PushMarked ==
    ASSUME NEW buf, NEW fs, NEW pending, Marked(buf, fs, pending), NEW bytes, Sequence(bytes)
    PROVE  Marked(buf \o bytes, fs, pending)
<1>1. /\ Sequence(buf \o bytes)
      /\ Len(buf) \in Nat /\ Len(bytes) \in Nat
      /\ Len(buf \o bytes) = Len(buf) + Len(bytes)
      /\ \A i \in 1 .. Len(buf) : (buf \o bytes)[i] = buf[i]
  BY ConcatSequence DEF Marked
<1>2. /\ 1 .. Len(buf) \subseteq 1 .. Len(buf \o bytes)
      /\ 0 .. Len(buf) \subseteq 0 .. Len(buf \o bytes)
      /\ \A i \in 0 .. Len(buf) : i # 0 => i \in 1 .. Len(buf)
  BY <1>1
<1>. QED
  BY <1>1, <1>2 DEF Marked

(* One byte is written over another.                                       *)
LEMMA SetSequence ==
    ASSUME NEW buf, Sequence(buf), NEW at \in 1 .. Len(buf), NEW byte
    PROVE  LET new == [buf EXCEPT ![at] = byte]
           IN  /\ Sequence(new) /\ Len(new) = Len(buf)
               /\ new[at] = byte
               /\ \A i \in 1 .. Len(buf) : i # at => new[i] = buf[i]
<1>. DEFINE S == {buf[i] : i \in DOMAIN buf} \cup {byte}
            n == Len(buf)
            new == [buf EXCEPT ![at] = byte]
<1>1. buf \in Seq(S) /\ byte \in S
  BY SeqMonotonic DEF Sequence
<1>. HIDE DEF S
<1>2. n \in Nat /\ DOMAIN buf = 1 .. n
  BY <1>1, LenProperties
<1>3. new \in Seq(S) /\ Len(new) = n
  BY <1>1, <1>2, ExceptSeq
<1>4. \A i \in DOMAIN buf : new[i] = IF i = at THEN byte ELSE buf[i]
  BY Zenon
<1>. QED
  BY <1>2, <1>3, <1>4, SequenceFacts

(* A blank type is filled in: no length is where it was.                   *)
LEMMA FillMarked ==
    ASSUME NEW buf, NEW fs, NEW pending, Marked(buf, fs, pending), pending # 0, NEW byte
    PROVE  Marked([buf EXCEPT ![pending] = byte], fs, 0)
<1>. DEFINE new == [buf EXCEPT ![pending] = byte]
<1>1. pending \in 1 .. Len(buf) /\ Len(buf) \in Nat
  BY SequenceFacts DEF Marked, Sequence
<1>2. /\ Sequence(new) /\ Len(new) = Len(buf)
      /\ \A i \in 1 .. Len(buf) : i # pending => new[i] = buf[i]
  BY <1>1, SetSequence, SMTT(30) DEF Marked
<1>3. Bson!Blank # Bson!NoLength
  <2>1. Bson!Blank.b # Bson!NoLength.b
    BY DEF Bson!Blank, Bson!NoLength, Bson!Plain, Bson!Byte
  <2>. QED
    BY <2>1
<1>4. \A i \in 1 .. Len(fs) : fs[i].start # pending
  BY <1>1, <1>3 DEF Marked
<1>. HIDE DEF new
<1>5. Marked(new, fs, 0)
  BY <1>1, <1>2, <1>4 DEF Marked
<1>. QED
  BY <1>5 DEF new

(* A document begins: its length is behind all others.                     *)
LEMMA OpenMarked ==
    ASSUME NEW buf, NEW fs, Marked(buf, fs, 0), NEW kind \in Kinds,
           NEW f, f = [kind |-> kind, start |-> Len(buf) + 1, next |-> 0]
    PROVE  /\ Marked(buf \o <<Bson!NoLength>>, Append(fs, f), 0)
           /\ Len(fs) \in Nat
           /\ Len(Append(fs, f)) = Len(fs) + 1
           /\ \A i \in 1 .. Len(fs) : Append(fs, f)[i] = fs[i]
           /\ Append(fs, f)[Len(fs) + 1] = f
<1>. DEFINE new == buf \o <<Bson!NoLength>>
            gs == Append(fs, f)
            n == Len(fs)
            m == Len(buf)
<1>1. /\ Sequence(new) /\ m \in Nat
      /\ Len(new) = m + 1
      /\ \A i \in 1 .. m : new[i] = buf[i]
      /\ new[m + 1] = Bson!NoLength
  BY ConcatSequence, SingleSequence DEF Marked
<1>2. f \in DocumentFrame /\ f.start = m + 1
  BY <1>1 DEF DocumentFrame
<1>3. /\ gs \in Seq(DocumentFrame) /\ n \in Nat
      /\ Len(gs) = n + 1
      /\ \A i \in 1 .. n : gs[i] = fs[i]
      /\ gs[n + 1] = f
  BY <1>2, AppendProperties, LenProperties DEF Marked
<1>. HIDE DEF new, gs
<1>4. \A i \in 1 .. n : gs[i].start \in 1 .. m /\ new[gs[i].start] = Bson!NoLength
  BY <1>1, <1>3 DEF Marked
<1>5. \A i \in 1 .. n + 1 : gs[i].start \in 1 .. m + 1 /\ new[gs[i].start] = Bson!NoLength
  BY <1>1, <1>2, <1>3, <1>4
<1>6. \A i, j \in 1 .. n + 1 : i < j => gs[i].start < gs[j].start
  <2>. SUFFICES ASSUME NEW i \in 1 .. n + 1, NEW j \in 1 .. n + 1, i < j
                PROVE  gs[i].start < gs[j].start
    OBVIOUS
  <2>1. CASE j = n + 1
    <3>1. i \in 1 .. n
      BY <1>3, <2>1
    <3>2. gs[i].start \in 1 .. m
      BY <1>4, <3>1
    <3>3. gs[j].start = m + 1
      BY <1>2, <1>3, <2>1
    <3>. QED
      BY <1>1, <3>2, <3>3
  <2>2. CASE j # n + 1
    <3>1. i \in 1 .. n /\ j \in 1 .. n
      BY <1>3, <2>2
    <3>2. fs[i].start < fs[j].start
      BY <3>1 DEF Marked
    <3>. QED
      BY <1>3, <3>1, <3>2
  <2>. QED
    BY <2>1, <2>2
<1>7. Marked(new, gs, 0)
  BY <1>1, <1>3, <1>5, <1>6 DEF Marked
<1>. QED
  BY <1>3, <1>7 DEF new, gs

(* A name is written behind a blank type.                                  *)
LEMMA NameMarked ==
    ASSUME NEW buf, NEW fs, NEW pending, Marked(buf, fs, pending), fs # <<>>, NEW name
    PROVE  Marked(buf \o <<Bson!Blank, name>>, fs, Len(buf) + 1)
<1>. DEFINE two == <<Bson!Blank, name>>
            new == buf \o two
            m == Len(buf)
<1>1. Sequence(two) /\ Len(two) = 2 /\ two[1] = Bson!Blank
  <2>1. two \in Seq({Bson!Blank, name})
    OBVIOUS
  <2>. QED
    BY <2>1, SequenceFacts
<1>. HIDE DEF two
<1>2. /\ m \in Nat /\ Len(new) = m + 2 /\ new[m + 1] = Bson!Blank
  <2>1. Sequence(buf) /\ 1 \in 1 .. Len(two)
    BY <1>1 DEF Marked
  <2>2. m \in Nat /\ Len(new) = m + Len(two) /\ new[m + 1] = two[1]
    <3>1. /\ m \in Nat /\ Len(new) = m + Len(two)
          /\ \A i \in 1 .. Len(two) : new[m + i] = two[i]
      <4>1. ASSUME NEW t, Sequence(t)
            PROVE  /\ m \in Nat /\ Len(buf \o t) = m + Len(t)
                   /\ \A i \in 1 .. Len(t) : (buf \o t)[m + i] = t[i]
        BY <2>1, <4>1, ConcatSequence
      <4>. QED
        BY <1>1, <4>1
    <3>. QED
      BY <2>1, <3>1
  <2>. QED
    BY <1>1, <2>2
<1>3. Marked(new, fs, pending)
  BY <1>1, PushMarked
<1>. HIDE DEF new
<1>. QED
  BY <1>2, <1>3 DEF Marked, new, two

(* The document on top ends: its length is filled in, and those of the     *)
(* documents around it, which are before it, stay blank.                   *)
LEMMA CloseMarked ==
    ASSUME NEW buf, NEW fs, Marked(buf, fs, 0), fs # <<>>, NEW bytes, Sequence(bytes), NEW byte
    PROVE  Marked([buf \o bytes EXCEPT ![Last(fs).start] = byte], Front(fs), 0)
<1>. DEFINE old == buf \o bytes
            at == Last(fs).start
            new == [old EXCEPT ![at] = byte]
            n == Len(fs)
            gs == Front(fs)
<1>1. Marked(old, fs, 0)
  BY PushMarked
<1>. HIDE DEF old
<1>2. /\ n \in Nat \ {0} /\ Last(fs) = fs[n]
      /\ gs \in Seq(DocumentFrame) /\ Len(gs) = n - 1
      /\ \A i \in 1 .. n - 1 : gs[i] = fs[i]
  BY PopStack DEF Marked
<1>3. n \in 1 .. n /\ \A i \in 1 .. n - 1 : i \in 1 .. n /\ i < n
  BY <1>2
<1>4. at \in 1 .. Len(old)
  BY <1>1, <1>2, <1>3 DEF Marked
<1>5. \A i \in 1 .. n - 1 : fs[i].start # at
  <2>. SUFFICES ASSUME NEW i \in 1 .. n - 1 PROVE fs[i].start # at
    OBVIOUS
  <2>1. fs[i].start < at /\ fs[i].start \in 1 .. Len(old)
    BY <1>1, <1>2, <1>3 DEF Marked
  <2>. QED
    BY <2>1, <1>4
<1>6. /\ Sequence(new) /\ Len(new) = Len(old)
      /\ \A i \in 1 .. Len(old) : i # at => new[i] = old[i]
  <2>1. Sequence(old)
    BY <1>1 DEF Marked
  <2>. HIDE DEF at
  <2>. QED
    BY <1>4, <2>1, SetSequence, SMTT(30)
<1>. HIDE DEF new, gs, at
<1>7. Marked(new, gs, 0)
  BY <1>1, <1>2, <1>3, <1>5, <1>6 DEF Marked
<1>. QED
  BY <1>7 DEF new, gs, at, old

(* An element of an array is counted.                                      *)
LEMMA CountMarked ==
    ASSUME NEW buf, NEW fs, NEW pending, Marked(buf, fs, pending), fs # <<>>
    PROVE  LET gs == [fs EXCEPT ![Len(fs)].next = @ + 1]
           IN  /\ Marked(buf, gs, pending)
               /\ Len(gs) = Len(fs) /\ SameKinds(Len(fs), fs, gs)
               /\ gs # <<>>
<1>. DEFINE n == Len(fs)
            f == [fs[n] EXCEPT !.next = @ + 1]
            gs == [fs EXCEPT ![n].next = @ + 1]
<1>1. n \in Nat \ {0} /\ fs[n] \in DocumentFrame
  BY PopStack DEF Marked
<1>2. f \in DocumentFrame /\ f.kind = fs[n].kind /\ f.start = fs[n].start
  BY <1>1 DEF DocumentFrame
<1>3. gs = [fs EXCEPT ![n] = f]
  OBVIOUS
<1>. HIDE DEF f, gs
<1>4. /\ gs \in Seq(DocumentFrame)
      /\ Len(gs) = n
      /\ gs[n] = f
      /\ \A i \in 1 .. n - 1 : gs[i] = fs[i]
  BY <1>2, <1>3, ChangeStack DEF Marked
<1>5. \A i \in 1 .. n : gs[i].kind = fs[i].kind /\ gs[i].start = fs[i].start
  BY <1>1, <1>2, <1>4
<1>6. gs # <<>>
  BY <1>1, <1>4, EmptySeq
<1>7. Marked(buf, gs, pending)
  BY <1>4, <1>5, <1>6 DEF Marked
<1>. QED
  BY <1>4, <1>5, <1>6, <1>7 DEF SameKinds, gs

Blanks(e) ==
    /\ e = [buf |-> e.buf, frames |-> e.frames, pending |-> e.pending, root |-> e.root]
    /\ Marked(e.buf, e.frames, e.pending)

(* element_start fills the blank type in.                                  *)
LEMMA ElementStarts ==
    ASSUME NEW e, Blanks(e), NEW type, NEW r, r = Bson!ElementStart(e, type)
    PROVE  /\ ~r.ok => r = Bson!Refused(e)
           /\ r.ok => Blanks(r.e) /\ r.e.frames = e.frames /\ r.e.pending = 0 /\ r = Bson!Done(r.e)
<1>. DEFINE buf == [e.buf EXCEPT ![e.pending] = Bson!Plain(type)]
            o == [Bson!Set(e, e.pending, Bson!Plain(type)) EXCEPT !.pending = 0]
<1>1. CASE e.pending = 0
  BY <1>1 DEF Bson!ElementStart, Bson!Refused
<1>2. CASE e.pending # 0
  <2>1. o = [buf |-> buf, frames |-> e.frames, pending |-> 0, root |-> e.root]
    <3>. HIDE DEF buf
    <3>1. Bson!Set(e, e.pending, Bson!Plain(type))
            = [buf |-> buf, frames |-> e.frames, pending |-> e.pending, root |-> e.root]
      <4>1. Bson!Set(e, e.pending, Bson!Plain(type)) = [e EXCEPT !.buf = buf]
        BY DEF Bson!Set, buf
      <4>. QED
        BY <4>1, BsonFields DEF Blanks
    <3>. QED
      BY <3>1, BsonFields
  <2>2. Marked(buf, e.frames, 0)
    BY <1>2, FillMarked DEF Blanks
  <2>3. r = Bson!Done(o) /\ r.ok /\ r.e = o
    BY <1>2 DEF Bson!ElementStart, Bson!Done
  <2>. HIDE DEF buf, o
  <2>4. /\ o.buf = buf /\ o.frames = e.frames /\ o.pending = 0
        /\ o = [buf |-> o.buf, frames |-> o.frames, pending |-> o.pending, root |-> o.root]
    BY <2>1
  <2>. QED
    BY <2>2, <2>3, <2>4 DEF Blanks
<1>. QED
  BY <1>1, <1>2

\* What begin_doc does behind element_start.
InDocument(e, kind) ==
    Bson!Push([e EXCEPT !.frames = Append(@, Bson!Frame(e, kind))], <<Bson!NoLength>>)

(* A document begins in an encoder that waits for no value.                *)
LEMMA DocumentBegins ==
    ASSUME NEW e, Blanks(e), e.pending = 0, NEW kind \in Kinds, NEW r, r = InDocument(e, kind)
    PROVE  /\ Blanks(r) /\ r.pending = 0
           /\ Len(r.frames) = Len(e.frames) + 1
           /\ SameKinds(Len(e.frames), e.frames, r.frames)
           /\ r.frames[Len(e.frames) + 1].kind = kind
<1>. DEFINE f == [kind |-> kind, start |-> Len(e.buf) + 1, next |-> 0]
            buf == e.buf \o <<Bson!NoLength>>
            fs == Append(e.frames, f)
            o == [e EXCEPT !.frames = fs]
<1>1. o = [buf |-> e.buf, frames |-> fs, pending |-> 0, root |-> e.root]
  <2>. HIDE DEF fs
  <2>. QED
    BY BsonFields DEF Blanks
<1>2. r = [buf |-> buf, frames |-> fs, pending |-> 0, root |-> e.root]
  <2>1. r = [o EXCEPT !.buf = o.buf \o <<Bson!NoLength>>]
    BY DEF Bson!Push, Bson!Frame, InDocument
  <2>. HIDE DEF fs, o
  <2>2. o.buf = e.buf
    BY <1>1
  <2>. QED
    BY <1>1, <2>1, <2>2, BsonFields
<1>3. /\ Marked(buf, fs, 0)
      /\ Len(fs) = Len(e.frames) + 1
      /\ \A i \in 1 .. Len(e.frames) : fs[i] = e.frames[i]
      /\ fs[Len(e.frames) + 1] = f
  <2>1. Marked(e.buf, e.frames, 0)
    BY DEF Blanks
  <2>. QED
    BY <2>1, OpenMarked
<1>4. f.kind = kind
  OBVIOUS
<1>. HIDE DEF f, buf, fs, o
<1>5. /\ r.buf = buf /\ r.frames = fs /\ r.pending = 0
      /\ r = [buf |-> r.buf, frames |-> r.frames, pending |-> r.pending, root |-> r.root]
  BY <1>2
<1>. QED
  BY <1>3, <1>4, <1>5 DEF Blanks, SameKinds

(* A name is written by a call that opens and closes nothing.              *)
LEMMA NameWaits ==
    ASSUME NEW e, Blanks(e), e.frames # <<>>, NEW name, NEW r, r = Bson!Named(e, name)
    PROVE  Blanks(r) /\ r.pending # 0 /\ r.frames = e.frames
<1>. DEFINE buf == e.buf \o <<Bson!Blank, name>>
            m == Len(e.buf)
            o == [e EXCEPT !.pending = m + 1]
<1>1. o = [buf |-> e.buf, frames |-> e.frames, pending |-> m + 1, root |-> e.root]
  BY BsonFields DEF Blanks
<1>2. r = [buf |-> buf, frames |-> e.frames, pending |-> m + 1, root |-> e.root]
  <2>1. r = [o EXCEPT !.buf = o.buf \o <<Bson!Blank, name>>]
    BY DEF Bson!Push, Bson!Named
  <2>. HIDE DEF o
  <2>2. o.buf = e.buf
    BY <1>1
  <2>. QED
    BY <1>1, <2>1, <2>2, BsonFields
<1>3. Marked(buf, e.frames, m + 1) /\ m \in Nat
  <2>1. Marked(e.buf, e.frames, e.pending)
    BY DEF Blanks
  <2>2. m \in Nat
    BY <2>1, SequenceFacts DEF Marked, Sequence
  <2>. QED
    BY <2>1, <2>2, NameMarked
<1>. HIDE DEF buf, o
<1>4. /\ r.buf = buf /\ r.frames = e.frames /\ r.pending = m + 1
      /\ r = [buf |-> r.buf, frames |-> r.frames, pending |-> r.pending, root |-> r.root]
  BY <1>2
<1>. QED
  BY <1>3, <1>4 DEF Blanks

\* What the calls of BsonEncoder leave; owing says that a name waits.
BsonGoesOn(event, fs, r) ==
    /\ Blanks(r.e)
    /\ GoesOn(event, fs, r)
    /\ r.ok => (r.e.pending # 0 <=> event.call \in {"separator", "object_key"})

(* A separator names the element by its index, a key by itself.            *)
LEMMA BsonNames ==
    ASSUME NEW e, Blanks(e), NEW event \in Calls, event.call \in {"separator", "object_key"}, NEW r,
           r = IF event.call = "separator" THEN Bson!Separator(e) ELSE Bson!Key(e, event.key)
    PROVE  BsonGoesOn(event, e.frames, r)
<1>. event.call \notin Begins \cup Ends
  BY DEF Begins, Ends
<1>1. CASE r = Bson!Refused(e)
  BY <1>1 DEF Bson!Refused, BsonGoesOn, GoesOn
<1>2. ASSUME NEW o, Blanks(o), o.frames # <<>>, NEW name, r = Bson!Done(Bson!Named(o, name)),
             Len(o.frames) = Len(e.frames), SameKinds(Len(e.frames), e.frames, o.frames)
      PROVE  BsonGoesOn(event, e.frames, r)
  <2>1. r.ok /\ r.e = Bson!Named(o, name)
    BY <1>2 DEF Bson!Done
  <2>2. Blanks(r.e) /\ r.e.pending # 0 /\ r.e.frames = o.frames
    BY <1>2, <2>1, NameWaits
  <2>. QED
    BY <1>2, <2>2, StaysInside DEF BsonGoesOn, GoesOn
<1>3. CASE event.call = "separator" /\ r # Bson!Refused(e)
  <2>. DEFINE n == Len(e.frames)
              fs == [e.frames EXCEPT ![n].next = @ + 1]
              o == [e EXCEPT !.frames[n].next = @ + 1]
              name == Bson!Byte("index", 1, e.frames[n].next)
  <2>1. e.frames # <<>> /\ e.pending = 0 /\ r = Bson!Done(Bson!Named(o, name))
    BY <1>3 DEF Bson!Separator, Bson!Innermost
  <2>2. o = [buf |-> e.buf, frames |-> fs, pending |-> e.pending, root |-> e.root]
    <3>1. o = [e EXCEPT !.frames = fs]
      OBVIOUS
    <3>. HIDE DEF fs
    <3>. QED
      BY <3>1, BsonFields DEF Blanks
  <2>3. Marked(e.buf, fs, e.pending) /\ Len(fs) = n /\ SameKinds(n, e.frames, fs) /\ fs # <<>>
    <3>1. Marked(e.buf, e.frames, e.pending)
      BY DEF Blanks
    <3>. QED
      BY <2>1, <3>1, CountMarked
  <2>. HIDE DEF fs, o, name
  <2>4. Blanks(o) /\ o.frames = fs
    BY <2>2, <2>3 DEF Blanks
  <2>. QED
    BY <1>2, <2>1, <2>3, <2>4
<1>4. CASE event.call = "object_key" /\ r # Bson!Refused(e)
  <2>1. e.frames # <<>> /\ r = Bson!Done(Bson!Named(e, Bson!Plain(event.key)))
    BY <1>4 DEF Bson!Key, Bson!Innermost
  <2>2. SameKinds(Len(e.frames), e.frames, e.frames)
    BY DEF SameKinds
  <2>. QED
    BY <1>2, <2>1, <2>2
<1>. QED
  BY <1>1, <1>3, <1>4

(* A document begins.                                                      *)
LEMMA BsonBegins ==
    ASSUME NEW e, Blanks(e), NEW event \in Calls, event.call \in Begins, NEW r,
           r = Bson!Begin(e, KindOf(event.call))
    PROVE  BsonGoesOn(event, e.frames, r)
<1>. DEFINE kind == KindOf(event.call)
            start == Bson!ElementStart(e, kind)
            first == [e EXCEPT !.root = TRUE]
            Opened(o) == Bson!Done(InDocument(o, kind))
<1>1. kind \in Kinds /\ event.call \notin {"separator", "object_key"}
  BY CallFacts DEF Begins
<1>. HIDE DEF kind
<1>2. CASE r = Bson!Refused(e)
  BY <1>2 DEF Bson!Refused, BsonGoesOn, GoesOn
<1>3. ASSUME NEW o, Blanks(o), o.pending = 0, o.frames = e.frames, r = Opened(o)
      PROVE  BsonGoesOn(event, e.frames, r)
  <2>. DEFINE p == InDocument(o, kind)
  <2>1. /\ Blanks(p) /\ p.pending = 0
        /\ Len(p.frames) = Len(o.frames) + 1
        /\ SameKinds(Len(o.frames), o.frames, p.frames)
        /\ p.frames[Len(o.frames) + 1].kind = kind
    BY <1>1, <1>3, DocumentBegins
  <2>2. r.ok /\ r.e = p
    BY <1>3 DEF Bson!Done
  <2>. HIDE DEF p
  <2>. QED
    BY <1>1, <1>3, <2>1, <2>2 DEF BsonGoesOn, GoesOn, MovesStack, kind
<1>4. CASE e.frames # <<>> /\ r # Bson!Refused(e)
  <2>1. start.ok /\ r = Opened(start.e)
    <3>1. ~start.ok => start = Bson!Refused(e)
      BY ElementStarts
    <3>2. r = IF ~start.ok THEN start ELSE Opened(start.e)
      BY <1>4 DEF Bson!Begin, InDocument, kind
    <3>. QED
      BY <1>4, <3>1, <3>2
  <2>2. Blanks(start.e) /\ start.e.frames = e.frames /\ start.e.pending = 0
    BY <2>1, ElementStarts
  <2>. QED
    BY <1>3, <2>1, <2>2
<1>5. CASE e.frames = <<>> /\ r # Bson!Refused(e)
  <2>1. r = Opened(first)
    BY <1>5 DEF Bson!Begin, Bson!Refused, Bson!Done, InDocument, kind
  <2>2. first = [buf |-> e.buf, frames |-> e.frames, pending |-> e.pending, root |-> TRUE]
    <3>1. ASSUME NEW x
          PROVE  [e EXCEPT !.root = x]
                    = [buf |-> e.buf, frames |-> e.frames, pending |-> e.pending, root |-> x]
      BY BsonFields DEF Blanks
    <3>. QED
      BY <3>1, Zenon
  <2>. HIDE DEF first
  <2>3. Blanks(first) /\ first.pending = 0 /\ first.frames = e.frames
    BY <1>5, <2>2 DEF Blanks, Marked
  <2>. QED
    BY <1>3, <2>1, <2>3
<1>. QED
  BY <1>2, <1>4, <1>5

(* A document ends.                                                        *)
LEMMA BsonEnds ==
    ASSUME NEW e, Blanks(e), NEW event, event.call \in Ends, NEW r,
           r = Bson!End(e, KindOf(event.call))
    PROVE  BsonGoesOn(event, e.frames, r)
<1>. DEFINE fs == Front(e.frames)
            at == Last(e.frames).start
            end == <<Bson!Plain("end")>>
            byte == Bson!Byte("length", 1, Bson!Length(e))
            buf == [e.buf \o end EXCEPT ![at] = byte]
<1>1. CASE r = Bson!Refused(e)
  BY <1>1 DEF Bson!Refused, BsonGoesOn, GoesOn
<1>2. CASE r # Bson!Refused(e)
  <2>. DEFINE popped == Bson!PopFrame(e)
              pushed == Bson!Push(popped, end)
  <2>1. /\ e.pending = 0 /\ e.frames # <<>>
        /\ r = Bson!Done(Bson!Set(pushed, at, byte))
    BY <1>2 DEF Bson!End, Bson!Innermost, Bson!Last, Last
  <2>2. popped = [buf |-> e.buf, frames |-> fs, pending |-> e.pending, root |-> e.root]
    <3>1. popped = [e EXCEPT !.frames = fs]
      BY DEF Bson!PopFrame, Bson!Front, Front
    <3>. HIDE DEF fs
    <3>. QED
      BY <3>1, BsonFields DEF Blanks
  <2>3. pushed = [buf |-> e.buf \o end, frames |-> fs, pending |-> e.pending, root |-> e.root]
    <3>1. pushed = [popped EXCEPT !.buf = popped.buf \o end]
      BY DEF Bson!Push
    <3>. HIDE DEF fs, popped, end
    <3>2. popped.buf = e.buf
      BY <2>2
    <3>. QED
      BY <2>2, <3>1, <3>2, BsonFields
  <2>4. Bson!Set(pushed, at, byte) = [buf |-> buf, frames |-> fs, pending |-> 0, root |-> e.root]
    <3>. HIDE DEF fs, end, at, byte, pushed
    <3>1. Bson!Set(pushed, at, byte) = [pushed EXCEPT !.buf = [pushed.buf EXCEPT ![at] = byte]]
      BY DEF Bson!Set
    <3>2. pushed.buf = e.buf \o end
      BY <2>3
    <3>. QED
      BY <2>1, <2>3, <3>1, <3>2, BsonFields
  <2>5. Marked(buf, fs, 0)
    <3>1. Marked(e.buf, e.frames, 0)
      BY <2>1 DEF Blanks
    <3>2. Sequence(end)
      BY SingleSequence
    <3>. HIDE DEF end, byte
    <3>. QED
      BY <2>1, <3>1, <3>2, CloseMarked
  <2>6. Len(e.frames) # 0 /\ Len(fs) = Len(e.frames) - 1 /\ SameKinds(Len(e.frames) - 1, e.frames, fs)
    <3>1. e.frames \in Seq(DocumentFrame)
      BY DEF Blanks, Marked
    <3>2. ASSUME NEW gs \in Seq(DocumentFrame), gs # <<>>
          PROVE  /\ Len(gs) # 0 /\ Len(Front(gs)) = Len(gs) - 1
                 /\ SameKinds(Len(gs) - 1, gs, Front(gs))
      BY <3>2, PopStack DEF SameKinds
    <3>. QED
      BY <2>1, <3>1, <3>2
  <2>. HIDE DEF fs, buf, pushed, at, byte
  <2>7. /\ r.e.buf = buf /\ r.e.frames = fs /\ r.e.pending = 0
        /\ r.e = [buf |-> r.e.buf, frames |-> r.e.frames, pending |-> r.e.pending, root |-> r.e.root]
    BY <2>1, <2>4 DEF Bson!Done
  <2>8. event.call \notin Begins \cup {"separator", "object_key"}
    BY DEF Begins, Ends
  <2>. QED
    BY <2>5, <2>6, <2>7, <2>8 DEF BsonGoesOn, GoesOn, MovesStack, Blanks
<1>. QED
  BY <1>1, <1>2

(* A scalar fills the blank type in, and writes its value behind the name. *)
LEMMA BsonScalars ==
    ASSUME NEW e, Blanks(e), NEW event, event.call \in Scalars, NEW r,
           r = Bson!Scalar(e, event.call)
    PROVE  BsonGoesOn(event, e.frames, r)
<1>. DEFINE start == Bson!ElementStart(e, event.call)
            o == start.e
            byte == Bson!Plain(event.call)
<1>1. event.call \notin Begins \cup Ends \cup {"separator", "object_key"}
  BY DEF Begins, Ends, Scalars
<1>2. ASSUME NEW p, Blanks(p), p.frames = e.frames, p.pending = 0, r.e = p
      PROVE  BsonGoesOn(event, e.frames, r)
  <2>1. SameKinds(Len(e.frames), e.frames, p.frames)
    BY <1>2 DEF SameKinds
  <2>. QED
    BY <1>1, <1>2, <2>1, StaysInside DEF BsonGoesOn, GoesOn
<1>3. CASE r = Bson!Refused(e)
  BY <1>3 DEF Bson!Refused, BsonGoesOn, GoesOn
<1>4. CASE r # Bson!Refused(e)
  <2>1. /\ ~start.ok => start = Bson!Refused(e)
        /\ start.ok => Blanks(o) /\ o.frames = e.frames /\ o.pending = 0 /\ start = Bson!Done(o)
    BY ElementStarts
  <2>2. start.ok /\ (r = start \/ r = Bson!Done(Bson!Push(o, <<byte>>)))
    BY <1>4, <2>1 DEF Bson!Scalar
  <2>. HIDE DEF start
  <2>3. CASE r = start
    BY <1>2, <2>1, <2>2, <2>3
  <2>4. CASE r = Bson!Done(Bson!Push(o, <<byte>>))
    <3>. DEFINE p == Bson!Push(o, <<byte>>)
                buf == o.buf \o <<byte>>
    <3>1. p = [buf |-> buf, frames |-> o.frames, pending |-> o.pending, root |-> o.root]
      <4>1. p = [o EXCEPT !.buf = buf]
        BY DEF Bson!Push
      <4>. HIDE DEF buf
      <4>. QED
        BY <2>1, <2>2, <4>1, BsonFields DEF Blanks
    <3>2. Marked(buf, o.frames, o.pending)
      BY <2>1, <2>2, SingleSequence, PushMarked DEF Blanks
    <3>. HIDE DEF p, buf
    <3>3. Blanks(p) /\ p.frames = o.frames /\ p.pending = o.pending
      BY <3>1, <3>2 DEF Blanks
    <3>4. r.e = p
      BY <2>4 DEF Bson!Done, p
    <3>. QED
      BY <1>2, <2>1, <2>2, <3>3, <3>4
  <2>. QED
    BY <2>2, <2>3, <2>4
<1>. QED
  BY <1>3, <1>4

(* The calls of BsonEncoder.                                               *)
LEMMA BsonEmits ==
    ASSUME Blanks(enc), NEW event \in Calls, event.call \notin Markers
    PROVE  BsonGoesOn(event, enc.frames, EmitBson(event))
<1>. DEFINE r == EmitBson(event)
<1>1. CASE event.call \in {"separator", "object_key"}
  <2>1. r = IF event.call = "separator" THEN Bson!Separator(enc) ELSE Bson!Key(enc, event.key)
    BY <1>1 DEF EmitBson, Begins, Ends
  <2>. HIDE DEF r
  <2>. QED
    BY <1>1, <2>1, BsonNames DEF r
<1>2. CASE event.call \in Begins
  BY <1>2, BsonBegins DEF EmitBson, Begins, Ends
<1>3. CASE event.call \in Ends
  BY <1>3, BsonEnds DEF EmitBson, Begins, Ends
<1>4. CASE event.call \in Scalars
  BY <1>4, BsonScalars DEF EmitBson, Begins, Ends, Scalars
<1>. QED
  BY <1>1, <1>2, <1>3, <1>4, CallFacts

-----------------------------------------------------------------------------
(* The collector of the text formats.                                      *)

IsBuilder(f) ==
    /\ f = [kind |-> f.kind, items |-> f.items, keys |-> f.keys, pending |-> f.pending]
    /\ f.kind \in Kinds

\* The open containers are builders.
Built(e) ==
    /\ e = [buf |-> e.buf, frames |-> e.frames]
    /\ Sequence(e.frames)
    /\ \A i \in 1 .. Len(e.frames) : IsBuilder(e.frames[i])

(* The fields of an encoder that was put together.                         *)
LEMMA TwoFields ==
    ASSUME NEW b, NEW f, NEW r, r = [buf |-> b, frames |-> f]
    PROVE  r.buf = b /\ r.frames = f /\ r = [buf |-> r.buf, frames |-> r.frames]
OBVIOUS

(* What is set in a builder is what it has.                                *)
LEMMA BuilderFields ==
    ASSUME NEW f, IsBuilder(f), NEW x
    PROVE  /\ IsBuilder([f EXCEPT !.items = x]) /\ [f EXCEPT !.items = x].kind = f.kind
           /\ IsBuilder([f EXCEPT !.keys = x]) /\ [f EXCEPT !.keys = x].kind = f.kind
           /\ IsBuilder([f EXCEPT !.pending = x]) /\ [f EXCEPT !.pending = x].kind = f.kind
           /\ [f EXCEPT !.pending = x].pending = x
<1>1. PICK k, i, s, p : f = [kind |-> k, items |-> i, keys |-> s, pending |-> p] /\ k \in Kinds
  BY DEF IsBuilder
<1>2. f.kind = k
  BY <1>1
<1>3. [f EXCEPT !.items = x] = [kind |-> k, items |-> x, keys |-> s, pending |-> p]
  BY <1>1
<1>4. [f EXCEPT !.keys = x] = [kind |-> k, items |-> i, keys |-> x, pending |-> p]
  BY <1>1
<1>5. [f EXCEPT !.pending = x] = [kind |-> k, items |-> i, keys |-> s, pending |-> x]
  BY <1>1
<1>6. ASSUME NEW a, NEW b, NEW c, NEW g, g = [kind |-> k, items |-> a, keys |-> b, pending |-> c]
      PROVE  IsBuilder(g) /\ g.kind = k /\ g.pending = c
  BY <1>1, <1>6 DEF IsBuilder
<1>7. IsBuilder([f EXCEPT !.items = x]) /\ [f EXCEPT !.items = x].kind = f.kind
  BY <1>2, <1>3, <1>6
<1>8. IsBuilder([f EXCEPT !.keys = x]) /\ [f EXCEPT !.keys = x].kind = f.kind
  BY <1>2, <1>4, <1>6
<1>9. /\ IsBuilder([f EXCEPT !.pending = x]) /\ [f EXCEPT !.pending = x].kind = f.kind
      /\ [f EXCEPT !.pending = x].pending = x
  BY <1>2, <1>5, <1>6
<1>. QED
  BY <1>7, <1>8, <1>9

(* The builder on top is changed, its kind is not.                         *)
LEMMA ChangeBuilder ==
    ASSUME NEW e, Built(e), e.frames # <<>>, NEW f, IsBuilder(f), f.kind = Last(e.frames).kind
    PROVE  LET r == [e EXCEPT !.frames = [e.frames EXCEPT ![Len(e.frames)] = f]]
           IN  /\ Built(r) /\ r.frames # <<>> /\ Last(r.frames) = f
               /\ Len(r.frames) = Len(e.frames)
               /\ SameKinds(Len(e.frames), e.frames, r.frames)
<1>. DEFINE n == Len(e.frames)
            fs == [e.frames EXCEPT ![n] = f]
            r == [e EXCEPT !.frames = fs]
<1>1. r = [buf |-> e.buf, frames |-> fs]
  <2>. HIDE DEF fs
  <2>. QED
    BY EncoderFields DEF Built, fs
<1>2. n \in Nat \ {0} /\ Last(e.frames) = e.frames[n]
  BY PopStack DEF Built, Sequence
<1>3. n \in 1 .. n
  BY <1>2
<1>4. /\ Sequence(fs) /\ Len(fs) = n /\ fs[n] = f
      /\ \A i \in 1 .. n : i # n => fs[i] = e.frames[i]
  <2>1. Sequence(e.frames)
    BY DEF Built
  <2>2. ASSUME NEW gs, Sequence(gs), NEW k \in 1 .. Len(gs)
        PROVE  LET hs == [gs EXCEPT ![k] = f]
               IN  /\ Sequence(hs) /\ Len(hs) = Len(gs) /\ hs[k] = f
                   /\ \A i \in 1 .. Len(gs) : i # k => hs[i] = gs[i]
    BY <2>2, SetSequence
  <2>. QED
    BY <1>3, <2>1, <2>2
<1>. HIDE DEF fs, r
<1>5. r.frames = fs /\ r = [buf |-> r.buf, frames |-> r.frames]
  BY <1>1, TwoFields
<1>6. \A i \in 1 .. n : IsBuilder(fs[i]) /\ fs[i].kind = e.frames[i].kind
  BY <1>2, <1>4 DEF Built
<1>7. fs # <<>> /\ Last(fs) = f
  BY <1>2, <1>4, EmptySeq DEF Last
<1>8. Built(r)
  BY <1>4, <1>5, <1>6 DEF Built
<1>. QED
  BY <1>4, <1>5, <1>6, <1>7, <1>8 DEF SameKinds, r, fs

\* A key waits on top.
KeyWaits(fs) == fs # <<>> /\ Last(fs).kind = "object" /\ Last(fs).pending # ""

(* A call that returns Ok.                                                 *)
LEMMA Returns ==
    ASSUME NEW e, NEW r, r = Headers!Done(e)
    PROVE  r.ok /\ r.e = e
BY DEF Headers!Done

(* attach: the innermost object waits no longer.                           *)
LEMMA Attaches ==
    ASSUME NEW e, Built(e), NEW value, NEW r, r = Headers!CollectAttach(e, value), r.ok
    PROVE  /\ Built(r.e) /\ ~KeyWaits(r.e.frames)
           /\ Len(r.e.frames) = Len(e.frames)
           /\ SameKinds(Len(e.frames), e.frames, r.e.frames)
<1>. DEFINE n == Len(e.frames)
            top == e.frames[n]
<1>1. CASE e.frames = <<>>
  <2>1. r.e = [e EXCEPT !.buf = value]
    BY <1>1 DEF Headers!CollectAttach, Headers!CollectInnermost, Headers!Done, Headers!Refused
  <2>2. r.e = [buf |-> value, frames |-> e.frames]
    BY <2>1, EncoderFields DEF Built
  <2>3. r.e.frames = e.frames /\ r.e = [buf |-> r.e.buf, frames |-> r.e.frames]
    BY <2>2
  <2>. QED
    BY <1>1, <2>3 DEF Built, KeyWaits, SameKinds
<1>2. CASE e.frames # <<>>
  <2>1. n \in Nat \ {0} /\ Last(e.frames) = top /\ n \in 1 .. n
    <3>1. Sequence(e.frames)
      BY DEF Built
    <3>2. n \in Nat \ {0} /\ Last(e.frames) = top
      BY <1>2, <3>1, PopStack, Zenon DEF Sequence
    <3>. QED
      BY <3>2
  <2>2. IsBuilder(top)
    BY <2>1 DEF Built
  <2>3. Headers!Last(e.frames) = top
    BY DEF Headers!Last
  <2>4. ASSUME NEW f, IsBuilder(f), f.kind = top.kind, f.kind = "object" => f.pending = "",
               r = Headers!Done([e EXCEPT !.frames = [e.frames EXCEPT ![n] = f]])
        PROVE  /\ Built(r.e) /\ ~KeyWaits(r.e.frames)
               /\ Len(r.e.frames) = n
               /\ SameKinds(n, e.frames, r.e.frames)
    <3>1. r.e = [e EXCEPT !.frames = [e.frames EXCEPT ![n] = f]]
      BY <2>4, Returns
    <3>2. /\ Built(r.e) /\ r.e.frames # <<>> /\ Last(r.e.frames) = f
          /\ Len(r.e.frames) = n
          /\ SameKinds(n, e.frames, r.e.frames)
      <4>1. LET q == [e EXCEPT !.frames = [e.frames EXCEPT ![n] = f]]
            IN  /\ Built(q) /\ q.frames # <<>> /\ Last(q.frames) = f
                /\ Len(q.frames) = n
                /\ SameKinds(n, e.frames, q.frames)
        BY <1>2, <2>1, <2>4, ChangeBuilder, Zenon
      <4>. QED
        BY <3>1, <4>1, Zenon
    <3>. QED
      BY <2>4, <3>2 DEF KeyWaits
  <2>5. CASE top.kind = "array"
    <3>. DEFINE f == [top EXCEPT !.items = @ \o value]
    <3>1. r = Headers!Done([e EXCEPT !.frames = [e.frames EXCEPT ![n] = f]])
      BY <1>2, <2>3, <2>5 DEF Headers!CollectAttach, Headers!CollectInnermost
    <3>2. IsBuilder(f) /\ f.kind = top.kind
      BY <2>2, BuilderFields
    <3>. HIDE DEF f
    <3>. QED
      BY <2>4, <2>5, <3>1, <3>2
  <2>6. CASE top.kind # "array"
    <3>. DEFINE f == [top EXCEPT !.items = @ \o <<Headers!Plain(top.pending)>> \o value,
                                 !.keys = @ \cup {top.pending},
                                 !.pending = ""]
    <3>1. r = Headers!Done([e EXCEPT !.frames = [e.frames EXCEPT ![n] = f]])
      <4>1. r # Headers!Refused([e EXCEPT !.frames[n].pending = ""])
        BY Refuses
      <4>2. r = IF top.pending \in {""} \cup top.keys
                THEN Headers!Refused([e EXCEPT !.frames[n].pending = ""])
                ELSE Headers!Done([e EXCEPT !.frames = [e.frames EXCEPT ![n] = f]])
        <5>1. ~Headers!CollectInnermost(e, "array")
          BY <2>3, <2>6 DEF Headers!CollectInnermost
        <5>. QED
          BY <1>2, <5>1, Zenon DEF Headers!CollectAttach
      <4>. QED
        BY <4>1, <4>2, Zenon
    <3>2. IsBuilder(f) /\ f.kind = top.kind /\ f.pending = ""
      <4>. DEFINE g == [top EXCEPT !.items = @ \o <<Headers!Plain(top.pending)>> \o value]
                  h == [g EXCEPT !.keys = top.keys \cup {top.pending}]
      <4>1. IsBuilder(g) /\ g.kind = top.kind
        BY <2>2, BuilderFields
      <4>2. f = [h EXCEPT !.pending = ""]
        OBVIOUS
      <4>. HIDE DEF f, g
      <4>3. IsBuilder(h) /\ h.kind = top.kind
        BY <4>1, BuilderFields, Zenon
      <4>. HIDE DEF h
      <4>. QED
        BY <4>2, <4>3, BuilderFields, Zenon
    <3>. HIDE DEF f
    <3>. QED
      BY <2>4, <3>1, <3>2
  <2>. QED
    BY <2>5, <2>6
<1>. QED
  BY <1>1, <1>2

\* What the calls of CollectEncoder leave.
TreeGoesOn(event, e, r) ==
    r.ok => /\ Built(r.e)
            /\ MovesStack(event, e.frames, r.e.frames)
            /\ event.call # "separator" => (KeyWaits(r.e.frames) <=> event.call = "object_key")

(* The calls of CollectEncoder.                                            *)
LEMMA TreeEmits ==
    ASSUME Built(enc), NEW event \in Calls, event.call \notin Markers
    PROVE  TreeGoesOn(event, enc, EmitTree(event))
<1>. DEFINE r == EmitTree(event)
            n == Len(enc.frames)
            fs == enc.frames
<1>. SUFFICES ASSUME r.ok
              PROVE  /\ Built(r.e)
                     /\ MovesStack(event, fs, r.e.frames)
                     /\ event.call # "separator" => (KeyWaits(r.e.frames) <=> event.call = "object_key")
  BY DEF TreeGoesOn
<1>1. enc = [buf |-> enc.buf, frames |-> fs] /\ n \in Nat
  BY SequenceFacts DEF Built, Sequence
<1>2. CASE event.call = "separator"
  <2>1. r.e = enc /\ event.call \notin Begins \cup Ends
    BY <1>2 DEF EmitTree, Headers!CollectSeparator, Headers!Done, Begins, Ends
  <2>2. SameKinds(n, fs, fs)
    BY DEF SameKinds
  <2>. QED
    BY <1>2, <2>1, <2>2, StaysInside
<1>3. CASE event.call = "object_key"
  <2>. DEFINE f == [fs[n] EXCEPT !.pending = event.key]
              e == [enc EXCEPT !.frames = [fs EXCEPT ![n] = f]]
  <2>1. event.call \notin Begins \cup Ends /\ event.key # ""
    BY <1>3, CallFacts DEF Begins, Ends, Keys
  <2>2. r = Headers!CollectKey(enc, event.key)
    BY <1>3, <2>1 DEF EmitTree
  <2>3. fs # <<>> /\ Headers!Last(fs).kind = "object" /\ r = Headers!Done(e)
    <3>1. r # Headers!Refused(enc)
      BY Refuses
    <3>. QED
      BY <2>2, <3>1 DEF Headers!CollectKey, Headers!CollectInnermost
  <2>4. r.e = e /\ Headers!Last(fs) = fs[n] /\ Last(fs) = fs[n]
    BY <2>3 DEF Headers!Done, Headers!Last, Last
  <2>5. IsBuilder(fs[n])
    <3>1. n \in 1 .. n
      BY <2>3, PopStack DEF Built, Sequence
    <3>. QED
      BY <3>1 DEF Built
  <2>6. IsBuilder(f) /\ f.kind = fs[n].kind /\ f.pending = event.key
    BY <2>5, BuilderFields
  <2>. HIDE DEF f, r
  <2>7. /\ Built(r.e) /\ r.e.frames # <<>> /\ Last(r.e.frames) = f
        /\ Len(r.e.frames) = n
        /\ SameKinds(n, fs, r.e.frames)
    <3>1. fs # <<>> /\ f.kind = Last(fs).kind
      BY <2>3, <2>4, <2>6
    <3>2. LET q == [enc EXCEPT !.frames = [fs EXCEPT ![n] = f]]
          IN  /\ Built(q) /\ q.frames # <<>> /\ Last(q.frames) = f
              /\ Len(q.frames) = n
              /\ SameKinds(n, fs, q.frames)
      BY <2>6, <3>1, ChangeBuilder, Zenon
    <3>. QED
      BY <2>4, <3>2, Zenon
  <2>8. KeyWaits(r.e.frames)
    BY <2>1, <2>3, <2>4, <2>6, <2>7 DEF KeyWaits
  <2>. QED
    BY <1>3, <2>1, <2>7, <2>8, StaysInside DEF r
<1>4. CASE event.call \in Begins
  <2>. DEFINE kind == KindOf(event.call)
              f == Headers!CollectBuilder(kind)
              gs == Append(fs, f)
  <2>1. kind \in Kinds /\ event.call # "object_key"
    BY <1>4, CallFacts DEF Begins
  <2>2. r.e = [enc EXCEPT !.frames = gs]
    BY <1>4 DEF EmitTree, Headers!CollectBegin, Headers!Done, Begins, Ends
  <2>. HIDE DEF kind
  <2>3. IsBuilder(f) /\ f.kind = kind /\ f.pending = ""
    BY <2>1 DEF IsBuilder, Headers!CollectBuilder
  <2>4. /\ Sequence(gs) /\ Len(gs) = n + 1
        /\ \A i \in 1 .. n : gs[i] = fs[i]
        /\ gs[n + 1] = f
    <3>. DEFINE S == {fs[i] : i \in DOMAIN fs} \cup {f}
    <3>1. fs \in Seq(S) /\ f \in S
      BY SeqMonotonic DEF Built, Sequence
    <3>. HIDE DEF S, f
    <3>2. /\ gs \in Seq(S)
          /\ Len(gs) = n + 1
          /\ \A i \in 1 .. n : gs[i] = fs[i]
          /\ gs[n + 1] = f
      BY <3>1, AppendProperties
    <3>. QED
      BY <3>2, SequenceFacts
  <2>. HIDE DEF gs, f
  <2>5. r.e = [buf |-> enc.buf, frames |-> gs]
    BY <1>1, <2>2, EncoderFields
  <2>. HIDE DEF r
  <2>6. r.e.frames = gs /\ r.e = [buf |-> r.e.buf, frames |-> r.e.frames]
    BY <2>5
  <2>7. Built(r.e)
    <3>1. \A i \in 1 .. n + 1 : IsBuilder(gs[i])
      <4>1. \A i \in 1 .. n : IsBuilder(gs[i])
        BY <2>4 DEF Built
      <4>2. \A i \in 1 .. n + 1 : i = n + 1 \/ i \in 1 .. n
        BY <1>1
      <4>. QED
        BY <2>3, <2>4, <4>1, <4>2
    <3>. QED
      BY <2>4, <2>6, <3>1 DEF Built
  <2>8. MovesStack(event, fs, gs)
    BY <1>1, <1>4, <2>3, <2>4 DEF MovesStack, SameKinds, kind
  <2>9. ~KeyWaits(gs)
    BY <1>1, <2>3, <2>4 DEF KeyWaits, Last
  <2>. QED
    BY <2>1, <2>6, <2>7, <2>8, <2>9 DEF r
<1>5. CASE event.call \in Ends
  <2>. DEFINE popped == Headers!PopFrame(enc)
              value == <<Headers!Plain(KindOf(event.call))>> \o Headers!Last(fs).items
                            \o <<Headers!Plain("end")>>
              gs == Front(fs)
  <2>1. event.call \notin Begins \cup {"object_key"}
    BY <1>5 DEF Begins, Ends
  <2>2. r = Headers!CollectEnd(enc, KindOf(event.call))
    BY <1>5, <2>1 DEF EmitTree, Ends
  <2>3. fs # <<>> /\ r = Headers!CollectAttach(popped, value)
    <3>1. r # Headers!Refused(enc) /\ r # Headers!Refused(popped)
      BY Refuses
    <3>. QED
      BY <2>2, <3>1 DEF Headers!CollectEnd
  <2>. HIDE DEF value
  <2>4. /\ n \in Nat \ {0} /\ Sequence(gs) /\ Len(gs) = n - 1
        /\ \A i \in 1 .. n - 1 : gs[i] = fs[i]
    <3>1. fs \in Seq({fs[i] : i \in DOMAIN fs})
      BY DEF Built, Sequence
    <3>. QED
      BY <2>3, <3>1, PopStack, SequenceFacts
  <2>5. popped = [buf |-> enc.buf, frames |-> gs]
    <3>1. popped = [enc EXCEPT !.frames = gs]
      BY DEF Headers!PopFrame, Headers!Front, Front
    <3>. HIDE DEF popped, gs
    <3>. QED
      BY <1>1, <3>1, EncoderFields
  <2>. HIDE DEF popped, gs, r
  <2>6. popped.frames = gs /\ popped = [buf |-> popped.buf, frames |-> popped.frames]
    BY <2>5
  <2>7. \A i \in 1 .. n - 1 : i \in 1 .. n
    BY <2>4
  <2>8. Built(popped)
    BY <2>4, <2>6, <2>7 DEF Built
  <2>9. /\ Built(r.e) /\ ~KeyWaits(r.e.frames)
        /\ Len(r.e.frames) = n - 1
        /\ SameKinds(n - 1, gs, r.e.frames)
    BY <2>3, <2>4, <2>6, <2>8, Attaches DEF r
  <2>10. MovesStack(event, fs, r.e.frames)
    BY <1>5, <2>1, <2>4, <2>9 DEF MovesStack, SameKinds
  <2>. QED
    BY <2>1, <2>9, <2>10 DEF r
<1>6. CASE event.call \in Scalars
  <2>1. event.call \notin Begins \cup Ends \cup {"separator", "object_key"}
    BY <1>6 DEF Begins, Ends, Scalars
  <2>2. r = Headers!CollectAttach(enc, <<Headers!Plain(event.call)>>)
    BY <2>1 DEF EmitTree, Headers!CollectScalar
  <2>. HIDE DEF r
  <2>3. /\ Built(r.e) /\ ~KeyWaits(r.e.frames)
        /\ Len(r.e.frames) = n
        /\ SameKinds(n, fs, r.e.frames)
    BY <2>2, Attaches DEF r
  <2>. QED
    BY <2>1, <2>3, StaysInside DEF r
<1>. QED
  BY <1>2, <1>3, <1>4, <1>5, <1>6, CallFacts

-----------------------------------------------------------------------------
(* Bencode: values that are cut off and sorted.                            *)

(* A set of natural numbers has a least one: what induction comes down to. *)
LEMMA NatMinimum ==
    ASSUME NEW T \in SUBSET Nat, T # {}
    PROVE  \E m \in T : \A k \in T : m <= k
<1>. DEFINE R == OpToRel(<, Nat)
<1>1. IsWellFoundedOn(R, Nat)
  BY NatLessThanWellFounded
<1>2. \A i, j \in Nat : i < j => <<i, j>> \in R
  BY DEF OpToRel
<1>. HIDE DEF R
<1>3. PICK m \in T : \A k \in T : ~ (<<k, m>> \in R)
  BY <1>1, WFMin, Zenon
<1>4. \A k \in T : m <= k
  <2>. SUFFICES ASSUME NEW k \in T PROVE m <= k
    OBVIOUS
  <2>1. m \in Nat /\ k \in Nat /\ ~(k < m)
    BY <1>2, <1>3
  <2>. QED
    BY <2>1
<1>. QED
  BY <1>4

(* FlattenSeq concatenates sequences to a sequence.                        *)
LEMMA FlattenInSeq ==
    ASSUME NEW S, NEW q \in Seq(Seq(S))
    PROVE  Bencode!FlattenSeq(q) \in Seq(S)
<1>. DEFINE n == Len(q)
            Step(f, i) == IF i = 1 THEN q[i] ELSE f[i - 1] \o q[i]
            Is(f, m) == f = [i \in 1 .. m |-> Step(f, i)]
            flat == CHOOSE f : Is(f, n)
<1>1. n \in Nat /\ \A i \in 1 .. n : q[i] \in Seq(S)
  BY ElementOfSeq, LenProperties
<1>2. CASE n = 0
  <2>1. q = <<>>
    BY <1>2, EmptySeq
  <2>. QED
    BY <1>2, <2>1 DEF Bencode!FlattenSeq
<1>3. CASE n # 0
  <2>1. Bencode!FlattenSeq(q) = flat[n]
    BY <1>3, Zenon DEF Bencode!FlattenSeq
  <2>. DEFINE Has(m) == \E f : Is(f, m)
  <2>2. Has(n)
    <3>1. Has(0)
      <4>1. Is([i \in 1 .. 0 |-> q[1]], 0)
        OBVIOUS
      <4>. QED
        BY <4>1
    <3>2. ASSUME NEW m \in 1 .. n, Has(m - 1)
          PROVE  Has(m)
      <4>1. PICK g : Is(g, m - 1)
        BY <3>2
      <4>. DEFINE h == [i \in 1 .. m |-> Step(g, i)]
      <4>2. \A i \in 1 .. m - 1 : g[i] = Step(g, i)
        BY <4>1, Zenon
      <4>. HIDE DEF Step
      <4>3. \A i \in 1 .. m - 1 : i \in 1 .. m
        BY <1>1
      <4>4. \A i \in 1 .. m - 1 : h[i] = g[i]
        BY <4>2, <4>3
      <4>5. \A i \in 1 .. m : i # 1 => i - 1 \in 1 .. m - 1
        BY <1>1
      <4>. HIDE DEF h
      <4>6. \A i \in 1 .. m : Step(h, i) = Step(g, i)
        BY <4>4, <4>5, Zenon DEF Step
      <4>7. h = [i \in 1 .. m |-> Step(h, i)]
        BY <4>6, Zenon DEF h
      <4>. QED
        BY <4>7, Zenon DEF Step
    <3>. HIDE DEF Has
    <3>. DEFINE T == {m \in 0 .. n : ~ Has(m)}
    <3>. SUFFICES ASSUME T # {} PROVE FALSE
      BY <1>1
    <3>3. PICK m \in T : \A k \in T : m <= k
      <4>1. T \in SUBSET Nat
        BY <1>1
      <4>. HIDE DEF T
      <4>. QED
        BY <4>1, NatMinimum
    <3>4. m \in 1 .. n /\ ~ Has(m)
      BY <1>1, <3>1, <3>3
    <3>5. m - 1 \in 0 .. n /\ m - 1 \notin T
      BY <1>1, <3>3, <3>4
    <3>. QED
      BY <3>2, <3>4, <3>5
  <2>3. Is(flat, n)
    BY <2>2, Zenon
  <2>. HIDE DEF flat
  <2>4. \A i \in 1 .. n : flat[i] = Step(flat, i)
    BY <2>3
  <2>5. flat[n] \in Seq(S)
    <3>. DEFINE T == {m \in 1 .. n : flat[m] \notin Seq(S)}
    <3>. SUFFICES ASSUME T # {} PROVE FALSE
      BY <1>1, <1>3
    <3>1. PICK m \in T : \A k \in T : m <= k
      <4>1. T \in SUBSET Nat
        BY <1>1
      <4>. HIDE DEF T
      <4>. QED
        BY <4>1, NatMinimum
    <3>2. m \in 1 .. n /\ flat[m] \notin Seq(S) /\ flat[m] = Step(flat, m) /\ q[m] \in Seq(S)
      BY <1>1, <2>4, <3>1
    <3>3. m # 1
      BY <3>2
    <3>4. m - 1 \in 1 .. n /\ m - 1 \notin T
      BY <1>1, <3>1, <3>2, <3>3
    <3>5. flat[m - 1] \in Seq(S)
      BY <3>4
    <3>6. flat[m - 1] \o q[m] \in Seq(S)
      BY <3>2, <3>5, ConcatProperties
    <3>. QED
      BY <3>2, <3>3, <3>6
  <2>. QED
    BY <2>1, <2>5
<1>. QED
  BY <1>2, <1>3

(* The same operator, by way of the instance.                              *)
LEMMA PlaceCounts == \A S : Bencode!Cardinality(S) = Cardinality(S)
BY DEF Bencode!Cardinality, Cardinality

\* The place of a key among all.
Rank(key) == IF key = "nul" THEN 0 ELSE IF key = "a" THEN 1 ELSE 2

(* The order of the keys is one of numbers.                                *)
LEMMA BeforeIsLess ==
    ASSUME NEW x, NEW y, x.key \in Keys, y.key \in Keys
    PROVE  Bencode!Before(x, y) <=> Rank(x.key) < Rank(y.key)
<1>1. \A k, l \in Keys : <<k, l>> \in {<<"nul", "a">>, <<"nul", "b">>, <<"a", "b">>} <=> Rank(k) < Rank(l)
  BY DEF Keys, Rank
<1>. QED
  BY <1>1 DEF Bencode!Before

(* What is sorted is what was there: every place is taken by one entry.    *)
LEMMA SortedPermutes ==
    ASSUME NEW list, Len(list) \in Nat, \A i \in 1 .. Len(list) : list[i].key \in Keys
    PROVE  \A n \in 1 .. Len(list) : \E i \in 1 .. Len(list) : Bencode!Sorted(list)[n] = list[i]
<1>. DEFINE N == Len(list)
            I == 1 .. N
            rank == [i \in I |-> Rank(list[i].key)]
            Down(i) == {j \in I : rank[j] < rank[i] \/ (j <= i /\ ~(rank[i] < rank[j]))}
            place == [i \in I |-> Cardinality(Down(i))]
<1>1. \A i \in I : rank[i] \in 0 .. 2 /\ rank[i] = Rank(list[i].key)
  BY DEF Rank
<1>2. \A i \in I : Bencode!Place(list, i) = Cardinality(Down(i))
  <2>1. \A i, j \in I : Bencode!Before(list[j], list[i]) <=> rank[j] < rank[i]
    BY BeforeIsLess
  <2>. SUFFICES ASSUME NEW i \in I PROVE Bencode!Place(list, i) = Cardinality(Down(i))
    OBVIOUS
  <2>. HIDE DEF rank
  <2>2. {j \in I : Bencode!Before(list[j], list[i]) \/ (j <= i /\ ~Bencode!Before(list[i], list[j]))} = Down(i)
    BY <2>1
  <2>. HIDE DEF Down
  <2>. QED
    BY <2>2, PlaceCounts DEF Bencode!Place
<1>. HIDE DEF rank
<1>3. IsFiniteSet(I) /\ Cardinality(I) = N
  BY FS_Interval
<1>4. \A i \in I : Down(i) \subseteq I /\ i \in Down(i)
  BY <1>1
<1>5. \A i, k \in I : i # k /\ i \in Down(k) => Down(i) \subseteq Down(k) /\ k \notin Down(i)
  BY <1>1
<1>6. \A i, k \in I : i \in Down(k) \/ k \in Down(i)
  BY <1>1
<1>. HIDE DEF Down
<1>7. \A i \in I : IsFiniteSet(Down(i)) /\ Cardinality(Down(i)) \in I
  <2>. SUFFICES ASSUME NEW i \in I PROVE IsFiniteSet(Down(i)) /\ Cardinality(Down(i)) \in I
    OBVIOUS
  <2>1. IsFiniteSet(Down(i)) /\ Cardinality(Down(i)) <= N
    BY <1>3, <1>4, FS_Subset
  <2>2. Cardinality(Down(i)) \in Nat /\ Cardinality(Down(i)) # 0
    BY <1>4, <2>1, FS_CardinalityType, FS_EmptySet
  <2>. QED
    BY <2>1, <2>2
<1>8. ASSUME NEW i \in I, NEW k \in I, i # k, i \in Down(k)
      PROVE  Cardinality(Down(i)) # Cardinality(Down(k))
  <2>1. Down(i) \subseteq Down(k) /\ Down(i) # Down(k)
    BY <1>4, <1>5, <1>8
  <2>. QED
    BY <1>7, <2>1, FS_Subset
<1>9. place \in Injection(I, I)
  <2>1. place \in [I -> I]
    BY <1>7
  <2>2. \A i, k \in I : place[i] = place[k] => i = k
    BY <1>6, <1>8
  <2>. QED
    BY <2>1, <2>2 DEF Injection, IsInjective
<1>10. place \in Surjection(I, I)
  BY <1>3, <1>9, FS_Injection
<1>11. \A n \in I : \E i \in I : Bencode!Place(list, i) = n
  BY <1>2, <1>10 DEF Surjection
<1>. HIDE DEF place
<1>. SUFFICES ASSUME NEW n \in I PROVE \E i \in I : Bencode!Sorted(list)[n] = list[i]
  OBVIOUS
<1>12. Bencode!Sorted(list)[n] = list[CHOOSE i \in I : Bencode!Place(list, i) = n]
  BY Zenon DEF Bencode!Sorted
<1>13. (CHOOSE i \in I : Bencode!Place(list, i) = n) \in I
  BY <1>11, Zenon
<1>. QED
  BY <1>12, <1>13, Zenon

Opening == Bencode!Plain("object")

\* The entries that were cut off.
IsList(list) ==
    /\ Sequence(list)
    /\ \A i \in 1 .. Len(list) : list[i].key \in Keys /\ Sequence(list[i].bytes)

IsFiling(f) ==
    /\ f = [kind |-> f.kind, entries |-> f.entries, pending |-> f.pending]
    /\ f.kind \in Kinds
    /\ IsList(f.entries)
    /\ f.pending # Bencode!NoKey => f.kind = "object" /\ f.pending.key \in Keys

\* Where the value of the key of f begins, or of its next key.
Mark(f, end) == IF f.pending = Bencode!NoKey THEN end + 1 ELSE f.pending.start

\* The values of the open dictionaries stand behind their openings, the outer
\* ones first; one that is open inside another is the value of a key.
Filed(buf, fs) ==
    /\ Sequence(buf) /\ Sequence(fs)
    /\ \A i \in 1 .. Len(fs) : IsFiling(fs[i])
    /\ \A i \in 1 .. Len(fs) : fs[i].kind = "object" =>
           /\ Mark(fs[i], Len(buf)) \in 2 .. Len(buf) + 1
           /\ buf[Mark(fs[i], Len(buf)) - 1] = Opening
    /\ \A i, j \in 1 .. Len(fs) :
           i < j /\ fs[i].kind = "object" /\ fs[j].kind = "object" =>
               Mark(fs[i], Len(buf)) < Mark(fs[j], Len(buf))
    /\ \A i \in 1 .. Len(fs) - 1 : fs[i].kind = "object" => fs[i].pending # Bencode!NoKey

\* No dictionary is between two entries.
AllNamed(fs) == \A i \in 1 .. Len(fs) : fs[i].kind = "object" => fs[i].pending # Bencode!NoKey

\* What EntriesCutOff says.
CutOff(buf, fs) ==
    \A i \in 1 .. Len(fs) : fs[i].pending # Bencode!NoKey => buf[fs[i].pending.start - 1] = Opening

(* The one follows from the other.                                         *)
LEMMA FiledCutOff ==
    ASSUME NEW buf, NEW fs, Filed(buf, fs)
    PROVE  CutOff(buf, fs)
BY DEF Filed, CutOff, IsFiling, Mark

(* A value is written behind what is there.                                *)
LEMMA PushFiled ==
    ASSUME NEW buf, NEW fs, Filed(buf, fs), AllNamed(fs), NEW bytes, Sequence(bytes)
    PROVE  Filed(buf \o bytes, fs)
<1>1. /\ Sequence(buf \o bytes)
      /\ Len(buf) \in Nat /\ Len(bytes) \in Nat
      /\ Len(buf \o bytes) = Len(buf) + Len(bytes)
      /\ \A i \in 1 .. Len(buf) : (buf \o bytes)[i] = buf[i]
  BY ConcatSequence DEF Filed
<1>2. \A i \in 1 .. Len(fs) : fs[i].kind = "object" =>
          Mark(fs[i], Len(buf \o bytes)) = Mark(fs[i], Len(buf))
  BY DEF AllNamed, Mark
<1>3. \A m \in 2 .. Len(buf) + 1 : m \in 2 .. Len(buf \o bytes) + 1 /\ m - 1 \in 1 .. Len(buf)
  BY <1>1
<1>. QED
  BY <1>1, <1>2, <1>3 DEF Filed

\* gs is fs with f on top.
IsOneMore(fs, f, gs) ==
    /\ Sequence(gs) /\ Len(fs) \in Nat /\ Len(gs) = Len(fs) + 1
    /\ \A i \in 1 .. Len(fs) : gs[i] = fs[i]
    /\ gs[Len(fs) + 1] = f

(* Append puts one more on top.                                            *)
LEMMA AppendOne ==
    ASSUME NEW fs, Sequence(fs), NEW f
    PROVE  IsOneMore(fs, f, Append(fs, f))
<1>. DEFINE S == {fs[i] : i \in DOMAIN fs} \cup {f}
            gs == Append(fs, f)
<1>1. fs \in Seq(S) /\ f \in S
  BY SeqMonotonic DEF Sequence
<1>. HIDE DEF S
<1>2. /\ gs \in Seq(S) /\ Len(gs) = Len(fs) + 1 /\ Len(fs) \in Nat
      /\ \A i \in 1 .. Len(fs) : gs[i] = fs[i]
      /\ gs[Len(fs) + 1] = f
  BY <1>1, AppendProperties, LenProperties
<1>. HIDE DEF gs
<1>3. Sequence(gs)
  BY <1>2, SequenceFacts
<1>. QED
  BY <1>2, <1>3 DEF IsOneMore, gs

(* A container is opened.                                                  *)
LEMMA OpenFiled ==
    ASSUME NEW buf, NEW fs, Filed(buf, fs), AllNamed(fs), NEW kind \in Kinds,
           NEW f, IsFiling(f), f.kind = kind, f.pending = Bencode!NoKey,
           NEW gs, IsOneMore(fs, f, gs)
    PROVE  Filed(buf \o <<Bencode!Plain(kind)>>, gs)
<1>. DEFINE n == Len(fs)
            b == buf \o <<Bencode!Plain(kind)>>
<1>1. Filed(b, fs)
  BY SingleSequence, PushFiled
<1>2. /\ Len(buf) \in Nat /\ Len(b) = Len(buf) + 1 /\ b[Len(b)] = Bencode!Plain(kind)
  <2>1. Len(<<Bencode!Plain(kind)>>) = 1 /\ <<Bencode!Plain(kind)>>[1] = Bencode!Plain(kind)
        /\ Sequence(<<Bencode!Plain(kind)>>)
    BY SingleSequence
  <2>2. 1 \in 1 .. 1
    OBVIOUS
  <2>. QED
    BY <2>1, <2>2, ConcatSequence DEF Filed
<1>. HIDE DEF b
<1>3. /\ Sequence(gs) /\ n \in Nat /\ Len(gs) = n + 1
      /\ \A i \in 1 .. n : gs[i] = fs[i]
      /\ gs[n + 1] = f
  BY DEF IsOneMore
<1>4. Mark(f, Len(b)) = Len(b) + 1
  BY DEF Mark
<1>5. \A i \in 1 .. Len(gs) : i \in 1 .. n \/ i = n + 1
  BY <1>3
<1>6. \A i \in 1 .. n : fs[i].kind = "object" => Mark(fs[i], Len(b)) < Len(b) + 1
  <2>. SUFFICES ASSUME NEW i \in 1 .. n, fs[i].kind = "object"
                PROVE  Mark(fs[i], Len(b)) < Len(b) + 1
    OBVIOUS
  <2>1. Mark(fs[i], Len(buf)) \in 2 .. Len(buf) + 1
    BY DEF Filed
  <2>2. Mark(fs[i], Len(b)) = Mark(fs[i], Len(buf))
    BY DEF AllNamed, Mark
  <2>. QED
    BY <1>2, <2>1, <2>2
<1>7. kind = "object" => b[Len(b)] = Opening
  BY <1>2 DEF Opening
<1>8. \A i \in 1 .. n : i \in 1 .. Len(gs)
  BY <1>3
<1>9. \A i \in 1 .. Len(gs) : gs[i].kind = "object" =>
          /\ Mark(gs[i], Len(b)) \in 2 .. Len(b) + 1
          /\ b[Mark(gs[i], Len(b)) - 1] = Opening
  <2>. SUFFICES ASSUME NEW i \in 1 .. Len(gs), gs[i].kind = "object"
                PROVE  /\ Mark(gs[i], Len(b)) \in 2 .. Len(b) + 1
                       /\ b[Mark(gs[i], Len(b)) - 1] = Opening
    OBVIOUS
  <2>1. CASE i \in 1 .. n
    BY <1>1, <1>3, <2>1 DEF Filed
  <2>2. CASE i = n + 1
    <3>1. Mark(gs[i], Len(b)) = Len(b) + 1 /\ kind = "object"
      BY <1>3, <1>4, <2>2
    <3>2. Len(b) + 1 \in 2 .. Len(b) + 1 /\ Len(b) + 1 - 1 = Len(b)
      BY <1>2
    <3>. QED
      BY <1>7, <3>1, <3>2
  <2>. QED
    BY <1>5, <2>1, <2>2
<1>10. \A i, j \in 1 .. Len(gs) : i < j /\ gs[i].kind = "object" /\ gs[j].kind = "object" =>
           Mark(gs[i], Len(b)) < Mark(gs[j], Len(b))
  <2>. SUFFICES ASSUME NEW i \in 1 .. Len(gs), NEW j \in 1 .. Len(gs), i < j,
                       gs[i].kind = "object", gs[j].kind = "object"
                PROVE  Mark(gs[i], Len(b)) < Mark(gs[j], Len(b))
    OBVIOUS
  <2>1. i \in 1 .. n /\ gs[i] = fs[i]
    BY <1>3
  <2>2. CASE j \in 1 .. n
    <3>1. gs[j] = fs[j]
      BY <1>3, <2>2
    <3>. QED
      BY <1>1, <2>1, <2>2, <3>1 DEF Filed
  <2>3. CASE j = n + 1
    BY <1>3, <1>4, <1>6, <2>1, <2>3
  <2>. QED
    BY <1>5, <2>2, <2>3
<1>11. \A i \in 1 .. Len(gs) : IsFiling(gs[i])
  BY <1>1, <1>3, <1>4, <1>5 DEF Filed
<1>12. \A i \in 1 .. Len(gs) - 1 : gs[i].kind = "object" => gs[i].pending # Bencode!NoKey
  <2>1. Len(gs) - 1 = n
    BY <1>3
  <2>. QED
    BY <1>3, <2>1 DEF AllNamed
<1>13. Filed(b, gs)
  BY <1>1, <1>3, <1>9, <1>10, <1>11, <1>12 DEF Filed
<1>. QED
  BY <1>13 DEF b

(* A container is closed.                                                  *)
LEMMA PopFiled ==
    ASSUME NEW buf, NEW fs, Filed(buf, fs), fs # <<>>
    PROVE  /\ Filed(buf, Front(fs)) /\ AllNamed(Front(fs))
           /\ Len(fs) \in Nat \ {0} /\ Len(Front(fs)) = Len(fs) - 1
           /\ \A i \in 1 .. Len(fs) - 1 : Front(fs)[i] = fs[i]
           /\ Last(fs) = fs[Len(fs)]
<1>. DEFINE gs == Front(fs)
            n == Len(fs)
<1>1. /\ n \in Nat \ {0} /\ Last(fs) = fs[n]
      /\ Sequence(gs) /\ Len(gs) = n - 1
      /\ \A i \in 1 .. n - 1 : gs[i] = fs[i]
  <2>. DEFINE S == {fs[i] : i \in DOMAIN fs}
  <2>1. fs \in Seq(S)
    BY DEF Filed, Sequence
  <2>. HIDE DEF S
  <2>2. /\ n \in Nat \ {0} /\ Last(fs) = fs[n]
        /\ gs \in Seq(S) /\ Len(gs) = n - 1
        /\ \A i \in 1 .. n - 1 : gs[i] = fs[i]
    BY <2>1, PopStack
  <2>. HIDE DEF gs
  <2>3. Sequence(gs)
    BY <2>2, SequenceFacts
  <2>. QED
    BY <2>2, <2>3
<1>. HIDE DEF gs
<1>2. \A i \in 1 .. n - 1 : i \in 1 .. n /\ (i < n - 1 => i \in 1 .. n - 1)
  BY <1>1
<1>3. \A i \in 1 .. n - 1 - 1 : i \in 1 .. n - 1
  BY <1>1
<1>. QED
  BY <1>1, <1>2, <1>3 DEF Filed, AllNamed, gs

\* gs is fs with f in the place of the one on top.
IsTopSet(fs, f, gs) ==
    /\ Sequence(gs) /\ Len(gs) = Len(fs) /\ gs[Len(fs)] = f
    /\ \A i \in 1 .. Len(fs) : i # Len(fs) => gs[i] = fs[i]

(* The frame on top is set.                                                *)
LEMMA SetTop ==
    ASSUME NEW fs, Sequence(fs), fs # <<>>, NEW f
    PROVE  IsTopSet(fs, f, [fs EXCEPT ![Len(fs)] = f])
<1>1. Len(fs) \in Nat \ {0}
  BY PopStack DEF Sequence
<1>2. Len(fs) \in 1 .. Len(fs)
  BY <1>1
<1>. QED
  BY <1>2, SetSequence DEF IsTopSet

(* The dictionary on top is changed, and the buffer behind its mark, which *)
(* stays where it is.                                                      *)
LEMMA RemarkFiled ==
    ASSUME NEW buf, NEW fs, Filed(buf, fs), fs # <<>>, Last(fs).kind = "object",
           NEW b, Sequence(b), NEW f, IsFiling(f), f.kind = "object",
           Mark(f, Len(b)) = Mark(Last(fs), Len(buf)),
           Mark(f, Len(b)) <= Len(b) + 1, Len(b) <= Len(buf),
           \A i \in 1 .. Mark(f, Len(b)) - 1 : b[i] = buf[i],
           NEW gs, IsTopSet(fs, f, gs)
    PROVE  /\ Filed(b, gs)
           /\ Len(fs) \in Nat \ {0} /\ Len(gs) = Len(fs) /\ gs # <<>> /\ Last(gs) = f
           /\ \A i \in 1 .. Len(fs) - 1 : gs[i] = fs[i]
<1>. DEFINE n == Len(fs)
            m == Mark(f, Len(b))
<1>1. n \in Nat \ {0} /\ Last(fs) = fs[n]
  BY PopStack DEF Filed, Sequence
<1>2. n \in 1 .. n
  BY <1>1
<1>3. /\ Sequence(gs) /\ Len(gs) = n /\ gs[n] = f
      /\ \A i \in 1 .. n : i # n => gs[i] = fs[i]
  BY DEF IsTopSet
<1>4. gs # <<>> /\ Last(gs) = f
  BY <1>1, <1>3, EmptySeq DEF Last
<1>5. Len(b) \in Nat /\ Len(buf) \in Nat
  BY SequenceFacts DEF Filed, Sequence
<1>6. m \in 2 .. Len(b) + 1 /\ buf[m - 1] = Opening
  <2>1. m \in 2 .. Len(buf) + 1 /\ buf[m - 1] = Opening
    BY <1>1, <1>2 DEF Filed
  <2>. QED
    BY <1>5, <2>1
<1>. HIDE DEF m
<1>7. \A i \in 1 .. n - 1 : i \in 1 .. n /\ i < n /\ i # n
  BY <1>1
<1>8. \A i \in 1 .. n - 1 : fs[i].kind = "object" =>
          /\ Mark(gs[i], Len(b)) = Mark(fs[i], Len(buf))
          /\ Mark(gs[i], Len(b)) \in 2 .. m - 1
          /\ buf[Mark(gs[i], Len(b)) - 1] = Opening
  <2>. SUFFICES ASSUME NEW i \in 1 .. n - 1, fs[i].kind = "object"
                PROVE  /\ Mark(gs[i], Len(b)) = Mark(fs[i], Len(buf))
                       /\ Mark(gs[i], Len(b)) \in 2 .. m - 1
                       /\ buf[Mark(gs[i], Len(b)) - 1] = Opening
    OBVIOUS
  <2>1. gs[i] = fs[i] /\ fs[i].pending # Bencode!NoKey
    BY <1>3, <1>7 DEF Filed
  <2>2. Mark(gs[i], Len(b)) = Mark(fs[i], Len(buf))
    BY <2>1 DEF Mark
  <2>3. /\ Mark(fs[i], Len(buf)) \in 2 .. Len(buf) + 1
        /\ buf[Mark(fs[i], Len(buf)) - 1] = Opening
        /\ Mark(fs[i], Len(buf)) < m
    BY <1>1, <1>2, <1>7 DEF Filed, m
  <2>. QED
    BY <1>6, <2>2, <2>3
<1>9. \A k \in 2 .. m : k \in 2 .. Len(b) + 1 /\ b[k - 1] = buf[k - 1]
  BY <1>5, <1>6 DEF m
<1>10. \A k \in 2 .. m - 1 : k \in 2 .. m /\ k < m
  BY <1>6
<1>11. \A i \in 1 .. n : i \in 1 .. n - 1 \/ i = n
  BY <1>1
<1>12. \A i \in 1 .. n : gs[i].kind = "object" =>
          /\ Mark(gs[i], Len(b)) \in 2 .. Len(b) + 1
          /\ b[Mark(gs[i], Len(b)) - 1] = Opening
  <2>. SUFFICES ASSUME NEW i \in 1 .. n, gs[i].kind = "object"
                PROVE  /\ Mark(gs[i], Len(b)) \in 2 .. m
                       /\ buf[Mark(gs[i], Len(b)) - 1] = Opening
    BY <1>9
  <2>1. CASE i = n
    <3>1. Mark(gs[i], Len(b)) = m
      BY <1>3, <2>1 DEF m
    <3>2. m \in 2 .. m
      BY <1>6
    <3>. QED
      BY <1>6, <3>1, <3>2
  <2>2. CASE i \in 1 .. n - 1
    BY <1>3, <1>7, <1>8, <1>10, <2>2
  <2>. QED
    BY <1>11, <2>1, <2>2
<1>13. \A i, j \in 1 .. n : i < j /\ gs[i].kind = "object" /\ gs[j].kind = "object" =>
           Mark(gs[i], Len(b)) < Mark(gs[j], Len(b))
  <2>. SUFFICES ASSUME NEW i \in 1 .. n, NEW j \in 1 .. n, i < j,
                       gs[i].kind = "object", gs[j].kind = "object"
                PROVE  Mark(gs[i], Len(b)) < Mark(gs[j], Len(b))
    OBVIOUS
  <2>1. i \in 1 .. n - 1 /\ gs[i] = fs[i]
    <3>1. i \in 1 .. n - 1
      BY <1>1
    <3>. QED
      BY <1>3, <1>7, <3>1
  <2>2. CASE j = n
    BY <1>3, <1>8, <1>10, <2>1, <2>2 DEF m
  <2>3. CASE j \in 1 .. n - 1
    <3>1. gs[j] = fs[j]
      BY <1>3, <1>7, <2>3
    <3>. QED
      BY <1>8, <2>1, <2>3, <3>1 DEF Filed
  <2>. QED
    BY <1>11, <2>2, <2>3
<1>14. \A i \in 1 .. n : IsFiling(gs[i])
  BY <1>3 DEF Filed
<1>15. \A i \in 1 .. n - 1 : gs[i].kind = "object" => gs[i].pending # Bencode!NoKey
  BY <1>3, <1>7 DEF Filed
<1>16. Filed(b, gs)
  BY <1>3, <1>12, <1>13, <1>14, <1>15 DEF Filed
<1>. QED
  BY <1>1, <1>3, <1>4, <1>7, <1>16

(* What is set in a container is what it has.                              *)
LEMMA FilingFields ==
    ASSUME NEW f, IsFiling(f)
    PROVE  /\ \A p : p = Bencode!NoKey \/ (f.kind = "object" /\ p.key \in Keys) =>
                  /\ IsFiling([f EXCEPT !.pending = p])
                  /\ [f EXCEPT !.pending = p].kind = f.kind
                  /\ [f EXCEPT !.pending = p].pending = p
                  /\ [f EXCEPT !.pending = p].entries = f.entries
           /\ \A list : IsList(list) =>
                  /\ IsFiling([f EXCEPT !.entries = list])
                  /\ [f EXCEPT !.entries = list].kind = f.kind
                  /\ [f EXCEPT !.entries = list].pending = f.pending
<1>1. PICK k, l, q : f = [kind |-> k, entries |-> l, pending |-> q]
  BY DEF IsFiling
<1>2. /\ f.kind = k /\ f.entries = l /\ f.pending = q
      /\ k \in Kinds /\ IsList(l)
      /\ q # Bencode!NoKey => k = "object" /\ q.key \in Keys
  <2>1. f.kind = k /\ f.entries = l /\ f.pending = q
    BY <1>1
  <2>. QED
    BY <2>1, Zenon DEF IsFiling
<1>3. \A x : [f EXCEPT !.pending = x] = [kind |-> k, entries |-> l, pending |-> x]
  BY <1>1
<1>4. \A x : [f EXCEPT !.entries = x] = [kind |-> k, entries |-> x, pending |-> q]
  BY <1>1
<1>5. ASSUME NEW x, NEW p, IsList(x), p = Bencode!NoKey \/ (k = "object" /\ p.key \in Keys),
             NEW g, g = [kind |-> k, entries |-> x, pending |-> p]
      PROVE  IsFiling(g) /\ g.kind = k /\ g.pending = p /\ g.entries = x
  <2>1. g.kind = k /\ g.pending = p /\ g.entries = x
    BY <1>5
  <2>2. g = [kind |-> g.kind, entries |-> g.entries, pending |-> g.pending]
    BY <1>5, <2>1, Zenon
  <2>. QED
    BY <1>2, <1>5, <2>1, <2>2, Zenon DEF IsFiling
<1>6. ASSUME NEW p, p = Bencode!NoKey \/ (f.kind = "object" /\ p.key \in Keys)
      PROVE  /\ IsFiling([f EXCEPT !.pending = p])
             /\ [f EXCEPT !.pending = p].kind = f.kind
             /\ [f EXCEPT !.pending = p].pending = p
             /\ [f EXCEPT !.pending = p].entries = f.entries
  <2>. DEFINE g == [f EXCEPT !.pending = p]
  <2>1. g = [kind |-> k, entries |-> l, pending |-> p]
    BY <1>3
  <2>. HIDE DEF g
  <2>2. g.kind = k /\ g.pending = p /\ g.entries = l
    BY <2>1
  <2>3. p = Bencode!NoKey \/ (k = "object" /\ p.key \in Keys)
    BY <1>2, <1>6
  <2>4. IsFiling(g)
    BY <1>2, <1>5, <2>1, <2>3, Zenon
  <2>. QED
    BY <1>2, <2>2, <2>4, Zenon DEF g
<1>7. ASSUME NEW list, IsList(list)
      PROVE  /\ IsFiling([f EXCEPT !.entries = list])
             /\ [f EXCEPT !.entries = list].kind = f.kind
             /\ [f EXCEPT !.entries = list].pending = f.pending
  <2>. DEFINE g == [f EXCEPT !.entries = list]
  <2>1. g = [kind |-> k, entries |-> list, pending |-> q]
    BY <1>4
  <2>. HIDE DEF g
  <2>2. q = Bencode!NoKey \/ (k = "object" /\ q.key \in Keys)
    BY <1>2
  <2>3. g.kind = k /\ g.pending = q /\ g.entries = list
    BY <2>1
  <2>4. IsFiling(g)
    BY <1>5, <1>7, <2>1, <2>2, Zenon
  <2>. QED
    BY <1>2, <2>3, <2>4, Zenon DEF g
<1>. QED
  BY <1>6, <1>7

\* The encoder has its dictionaries filed.
Files(e) == e = [buf |-> e.buf, frames |-> e.frames] /\ Filed(e.buf, e.frames)

(* What a call returns.                                                    *)
LEMMA FilesReturns ==
    ASSUME NEW e
    PROVE  /\ Bencode!Done(e).ok /\ Bencode!Done(e).e = e
           /\ ~Bencode!Refused(e).ok /\ Bencode!Refused(e).e = e
BY DEF Bencode!Done, Bencode!Refused

(* One more entry.                                                         *)
LEMMA AppendList ==
    ASSUME NEW list, IsList(list), NEW entry, entry.key \in Keys, Sequence(entry.bytes)
    PROVE  IsList(Append(list, entry))
<1>. DEFINE gs == Append(list, entry)
<1>1. IsOneMore(list, entry, gs)
  BY AppendOne DEF IsList
<1>. HIDE DEF gs
<1>2. \A i \in 1 .. Len(gs) : i \in 1 .. Len(list) \/ i = Len(list) + 1
  BY <1>1 DEF IsOneMore
<1>. QED
  BY <1>1, <1>2 DEF IsList, IsOneMore, gs

(* The end of a sequence.                                                  *)
LEMMA TailSequence ==
    ASSUME NEW s, Sequence(s), NEW m \in 1 .. Len(s)
    PROVE  Sequence(SubSeq(s, m, Len(s)))
<1>. DEFINE S == {s[i] : i \in DOMAIN s}
<1>1. s \in Seq(S)
  BY DEF Sequence
<1>. HIDE DEF S
<1>2. \A i \in m .. Len(s) : s[i] \in S
  <2>1. Len(s) \in Nat
    BY <1>1, LenProperties
  <2>2. \A i \in m .. Len(s) : i \in 1 .. Len(s)
    BY <2>1
  <2>. QED
    BY <1>1, <2>2, ElementOfSeq
<1>3. SubSeq(s, m, Len(s)) \in Seq(S)
  <2>1. Len(s) \in Nat
    BY <1>1, LenProperties
  <2>. QED
    BY <1>1, <1>2, <2>1, SubSeqProperties
<1>. QED
  BY <1>3, SequenceFacts

(* finish_dict_entry: what is behind the mark of the innermost dictionary  *)
(* is cut off the buffer, and no key waits.                                *)
LEMMA FinishFiles ==
    ASSUME NEW e, Files(e)
    PROVE  LET r == Bencode!FinishEntry(e)
           IN  /\ CutOff(r.e.buf, r.e.frames)
               /\ r.ok => /\ Files(r.e)
                          /\ e.frames # <<>> /\ r.e.frames # <<>>
                          /\ Len(e.frames) \in Nat \ {0}
                          /\ Len(r.e.frames) = Len(e.frames)
                          /\ \A i \in 1 .. Len(e.frames) - 1 : r.e.frames[i] = e.frames[i]
                          /\ Last(e.frames).kind = "object"
                          /\ Last(r.e.frames).kind = "object"
                          /\ Last(r.e.frames).pending = Bencode!NoKey
<1>. DEFINE r == Bencode!FinishEntry(e)
            fs == e.frames
            n == Len(fs)
            pending == fs[n].pending
            f == [fs[n] EXCEPT !.pending = Bencode!NoKey]
            cleared == [e EXCEPT !.frames = [fs EXCEPT ![n] = f]]
            entry == [key |-> pending.key, bytes |-> SubSeq(e.buf, pending.start, Len(e.buf))]
            g == [f EXCEPT !.entries = Append(f.entries, entry)]
            b == SubSeq(e.buf, 1, pending.start - 1)
<1>1. CutOff(e.buf, e.frames) /\ e = [buf |-> e.buf, frames |-> fs] /\ Sequence(e.buf) /\ Sequence(fs)
  BY FiledCutOff DEF Files, Filed
<1>2. CASE ~Bencode!InDict(e)
  <2>1. r = Bencode!Refused(e)
    BY <1>2, Zenon DEF Bencode!FinishEntry
  <2>. QED
    BY <1>1, <2>1, FilesReturns, Zenon
<1>3. CASE Bencode!InDict(e)
  <2>1. fs # <<>> /\ Last(fs).kind = "object" /\ Last(fs) = fs[n]
    BY <1>3 DEF Bencode!InDict, Bencode!Last, Last
  <2>2. n \in Nat \ {0} /\ n \in 1 .. n
    <3>1. n \in Nat \ {0}
      BY <1>1, <2>1, PopStack DEF Sequence
    <3>. QED
      BY <3>1
  <2>3. IsFiling(fs[n])
    BY <2>2 DEF Files, Filed
  <2>4. CASE pending = Bencode!NoKey
    <3>1. r = Bencode!Done(e)
      BY <1>3, <2>4, Zenon DEF Bencode!FinishEntry
    <3>2. r.e = e /\ r.ok
      BY <3>1, FilesReturns, Zenon
    <3>. HIDE DEF r
    <3>. QED
      BY <1>1, <2>1, <2>2, <2>4, <3>2 DEF r
  <2>5. CASE pending # Bencode!NoKey
    <3>1. IsFiling(f) /\ f.kind = "object" /\ f.pending = Bencode!NoKey /\ f.entries = fs[n].entries
      BY <2>1, <2>3, FilingFields
    <3>2. pending.key \in Keys /\ IsList(f.entries)
      BY <2>3, <2>5, <3>1 DEF IsFiling
    <3>3. pending.start \in 2 .. Len(e.buf) + 1 /\ Mark(fs[n], Len(e.buf)) = pending.start
      BY <2>1, <2>2, <2>5 DEF Files, Filed, Mark
    <3>4. Len(e.buf) \in Nat
      BY <1>1, SequenceFacts DEF Sequence
    <3>5. IsTopSet(fs, f, [fs EXCEPT ![n] = f])
      BY <1>1, <2>1, SetTop
    <3>6. cleared = [buf |-> e.buf, frames |-> [fs EXCEPT ![n] = f]]
      BY <1>1, EncoderFields, Zenon
    <3>7. CASE Len(e.buf) < pending.start
      <4>1. r = Bencode!Refused(cleared)
        BY <1>3, <2>5, <3>7, Zenon DEF Bencode!FinishEntry
      <4>2. r.e = cleared /\ ~r.ok
        BY <4>1, FilesReturns, Zenon
      <4>. DEFINE gs == [fs EXCEPT ![n] = f]
      <4>3. cleared.buf = e.buf /\ cleared.frames = gs
        BY <3>6
      <4>4. IsTopSet(fs, f, gs)
        BY <3>5
      <4>. HIDE DEF r, cleared, f, gs
      <4>5. CutOff(e.buf, gs)
        BY <1>1, <3>1, <4>4 DEF CutOff, IsTopSet
      <4>. QED
        BY <4>2, <4>3, <4>5 DEF r
    <3>8. CASE ~(Len(e.buf) < pending.start)
      <4>. DEFINE cut == [cleared EXCEPT !.buf = SubSeq(cleared.buf, 1, pending.start - 1)]
                  gs == [fs EXCEPT ![n] = f]
                  hs == [gs EXCEPT ![n] = g]
                  new == [cut EXCEPT !.frames = [cut.frames EXCEPT ![n] = [cut.frames[n] EXCEPT !.entries = Append(cut.frames[n].entries, entry)]]]
      <4>1. r = Bencode!Done(new)
        BY <1>3, <2>5, <3>8, Zenon DEF Bencode!FinishEntry
      <4>2. r.e = new /\ r.ok
        BY <4>1, FilesReturns, Zenon
      <4>3. cleared.buf = e.buf /\ cleared.frames = gs /\ gs[n] = f
        BY <3>5, <3>6 DEF IsTopSet
      <4>4. cut = [buf |-> b, frames |-> gs] 
        <5>1. cleared = [buf |-> cleared.buf, frames |-> cleared.frames]
          BY <3>6, <4>3, Zenon
        <5>. HIDE DEF cleared, gs, b
        <5>2. cut = [cleared EXCEPT !.buf = b]
          BY <4>3, Zenon DEF b
        <5>. HIDE DEF cut
        <5>. QED
          BY <4>3, <5>1, <5>2, EncoderFields, Zenon
      <4>5. cut.buf = b /\ cut.frames = gs /\ cut = [buf |-> cut.buf, frames |-> cut.frames]
        <5>. HIDE DEF cut, gs, b
        <5>. QED
          BY <4>4, TwoFields, Zenon
      <4>6. new = [buf |-> b, frames |-> hs]
        <5>. HIDE DEF cut, gs, b, g
        <5>1. new = [cut EXCEPT !.frames = hs]
          BY <4>3, <4>5, Zenon DEF g
        <5>. QED
          BY <4>5, <5>1, EncoderFields, Zenon
      <4>. HIDE DEF r, cleared, new, cut
      <4>7. r.e.buf = b /\ r.e.frames = hs /\ r.e = [buf |-> r.e.buf, frames |-> r.e.frames]
        <5>. HIDE DEF b, hs
        <5>1. r.e = [buf |-> b, frames |-> hs]
          BY <4>2, <4>6
        <5>. QED
          BY <5>1
      <4>8. IsTopSet(fs, g, hs)
        <5>1. Len(gs) = n /\ Sequence(gs) /\ gs # <<>>
          BY <2>2, <3>5, EmptySeq DEF IsTopSet
        <5>. HIDE DEF f, gs
        <5>2. IsTopSet(gs, g, hs)
          <6>. HIDE DEF g
          <6>1. IsTopSet(gs, g, [gs EXCEPT ![Len(gs)] = g])
            BY <5>1, SetTop
          <6>. QED
            BY <5>1, <6>1, Zenon
        <5>. HIDE DEF hs, g
        <5>. QED
          BY <3>5, <5>1, <5>2 DEF IsTopSet, gs
      <4>9. Sequence(SubSeq(e.buf, pending.start, Len(e.buf)))
        <5>1. pending.start \in 1 .. Len(e.buf)
          BY <3>3, <3>4, <3>8
        <5>. QED
          BY <1>1, <5>1, TailSequence
      <4>10. IsFiling(g) /\ g.kind = "object" /\ g.pending = Bencode!NoKey
        <5>1. entry.key = pending.key /\ entry.bytes = SubSeq(e.buf, pending.start, Len(e.buf))
          OBVIOUS
        <5>. HIDE DEF entry
        <5>2. IsList(Append(f.entries, entry))
          BY <3>2, <4>9, <5>1, AppendList
        <5>. HIDE DEF f
        <5>. QED
          BY <3>1, <5>2, FilingFields
      <4>11. /\ Sequence(b) /\ Len(b) = pending.start - 1
             /\ \A i \in 1 .. pending.start - 1 : b[i] = e.buf[i]
        <5>. DEFINE S == {e.buf[i] : i \in DOMAIN e.buf}
        <5>1. e.buf \in Seq(S)
          BY <1>1 DEF Sequence
        <5>. HIDE DEF S
        <5>2. pending.start - 1 \in Nat /\ pending.start - 1 <= Len(e.buf)
          BY <3>3, <3>4
        <5>3. /\ b \in Seq(S) /\ Len(b) = pending.start - 1
              /\ \A i \in 1 .. pending.start - 1 : b[i] = e.buf[i]
          BY <5>1, <5>2, CutSequence
        <5>. HIDE DEF b
        <5>. QED
          BY <5>3, SequenceFacts
      <4>. HIDE DEF b, g, hs
      <4>12. Mark(g, Len(b)) = pending.start /\ pending.start = Len(b) + 1 /\ Len(b) <= Len(e.buf)
        <5>1. \A m \in 2 .. Len(e.buf) + 1 : \A k : k = m - 1 => m = k + 1 /\ k <= Len(e.buf)
          BY <3>4
        <5>2. Mark(g, Len(b)) = Len(b) + 1
          BY <4>10 DEF Mark
        <5>. QED
          BY <3>3, <4>11, <5>1, <5>2
      <4>13. /\ Filed(b, hs)
             /\ Len(hs) = n /\ hs # <<>> /\ Last(hs) = g
             /\ \A i \in 1 .. n - 1 : hs[i] = fs[i]
        <5>1. Mark(g, Len(b)) = Mark(Last(fs), Len(e.buf)) /\ Mark(g, Len(b)) <= Len(b) + 1
          BY <2>1, <3>3, <4>11, <4>12
        <5>2. \A i \in 1 .. Mark(g, Len(b)) - 1 : b[i] = e.buf[i]
          BY <4>11, <4>12
        <5>3. Filed(e.buf, fs)
          BY DEF Files
        <5>4. Last(fs).kind = "object" /\ IsFiling(g) /\ g.kind = "object"
          BY <2>1, <4>8, <4>10, <4>11
        <5>. QED
          BY <2>1, <4>8, <4>10, <4>11, <4>12, <5>1, <5>2, <5>3, RemarkFiled
      <4>14. Files(r.e) /\ CutOff(r.e.buf, r.e.frames)
        BY <4>7, <4>13, FiledCutOff DEF Files
      <4>. QED
        BY <2>1, <2>2, <4>2, <4>7, <4>10, <4>13, <4>14 DEF r
    <3>. QED
      BY <3>7, <3>8
  <2>. QED
    BY <2>4, <2>5
<1>. QED
  BY <1>2, <1>3

(* What is sorted are the entries.                                         *)
LEMMA SortedIsList ==
    ASSUME NEW list, IsList(list)
    PROVE  IsList(Bencode!Sorted(list))
<1>. DEFINE n == Len(list)
            new == Bencode!Sorted(list)
            At(k) == list[CHOOSE i \in 1 .. n : Bencode!Place(list, i) = k]
<1>1. n \in Nat
  BY SequenceFacts DEF IsList, Sequence
<1>2. \A k \in 1 .. n : \E i \in 1 .. n : new[k] = list[i]
  BY <1>1, SortedPermutes DEF IsList
<1>3. new = [k \in 1 .. n |-> At(k)]
  BY Zenon DEF Bencode!Sorted
<1>. HIDE DEF At
<1>4. new \in [1 .. n -> {At(k) : k \in 1 .. n}]
  BY <1>3, Zenon
<1>5. Sequence(new) /\ Len(new) = n
  BY <1>1, <1>4, FunctionSequence
<1>. HIDE DEF new
<1>6. \A k \in 1 .. Len(new) : new[k].key \in Keys /\ Sequence(new[k].bytes)
  BY <1>2, <1>5 DEF IsList
<1>. QED
  BY <1>5, <1>6 DEF IsList, new

(* They are written as bytes.                                              *)
LEMMA EntriesAreBytes ==
    ASSUME NEW list, IsList(list)
    PROVE  Sequence(Bencode!Entries(list))
<1>. DEFINE n == Len(list)
            Bytes(i) == Bencode!EntryBytes(list[i])
            S == UNION {{Bytes(i)[k] : k \in DOMAIN Bytes(i)} : i \in 1 .. n}
            q == [i \in 1 .. n |-> Bytes(i)]
<1>1. n \in Nat
  BY SequenceFacts DEF IsList, Sequence
<1>2. \A i \in 1 .. n : Sequence(Bytes(i))
  <2>. SUFFICES ASSUME NEW i \in 1 .. n PROVE Sequence(Bytes(i))
    OBVIOUS
  <2>1. Sequence(list[i].bytes)
    BY DEF IsList
  <2>. QED
    BY <2>1, SingleSequence, ConcatSequence DEF Bencode!EntryBytes
<1>3. Bencode!Entries(list) = Bencode!FlattenSeq(q)
  BY Zenon DEF Bencode!Entries
<1>. HIDE DEF Bytes
<1>4. \A i \in 1 .. n : Bytes(i) \in Seq(S)
  <2>. SUFFICES ASSUME NEW i \in 1 .. n PROVE Bytes(i) \in Seq(S)
    OBVIOUS
  <2>. DEFINE R == {Bytes(i)[k] : k \in DOMAIN Bytes(i)}
  <2>1. Bytes(i) \in Seq(R)
    BY <1>2, Zenon DEF Sequence
  <2>2. R \subseteq S
    OBVIOUS
  <2>. HIDE DEF R, S
  <2>. QED
    BY <2>1, <2>2, SeqMonotonic
<1>. HIDE DEF S
<1>5. q \in Seq(Seq(S))
  <2>1. q \in [1 .. n -> Seq(S)]
    BY <1>4
  <2>. QED
    BY <1>1, <2>1, SeqDef
<1>. HIDE DEF q
<1>6. Bencode!FlattenSeq(q) \in Seq(S)
  BY <1>5, FlattenInSeq
<1>. QED
  BY <1>3, <1>6, SequenceFacts

(* The innermost container is closed, and what it holds is written.        *)
LEMMA CloseFiles ==
    ASSUME NEW e, Files(e), e.frames # <<>>, NEW bytes, Sequence(bytes)
    PROVE  LET p == Bencode!PopFrame(e)
               r == Bencode!Push(p, bytes)
           IN  /\ CutOff(p.buf, p.frames)
               /\ Files(r)
               /\ Len(e.frames) \in Nat \ {0} /\ Len(r.frames) = Len(e.frames) - 1
               /\ \A i \in 1 .. Len(e.frames) - 1 : r.frames[i] = e.frames[i]
<1>. DEFINE p == Bencode!PopFrame(e)
            r == Bencode!Push(p, bytes)
            gs == Front(e.frames)
<1>1. e = [buf |-> e.buf, frames |-> e.frames] /\ Filed(e.buf, e.frames)
  BY DEF Files
<1>2. /\ Filed(e.buf, gs) /\ AllNamed(gs)
      /\ Len(e.frames) \in Nat \ {0} /\ Len(gs) = Len(e.frames) - 1
      /\ \A i \in 1 .. Len(e.frames) - 1 : gs[i] = e.frames[i]
  BY <1>1, PopFiled
<1>3. p = [buf |-> e.buf, frames |-> gs]
  <2>1. p = [e EXCEPT !.frames = gs]
    BY DEF Bencode!PopFrame, Bencode!Front, Front
  <2>. HIDE DEF gs, p
  <2>. QED
    BY <1>1, <2>1, EncoderFields, Zenon
<1>. HIDE DEF gs, p
<1>4. p.buf = e.buf /\ p.frames = gs /\ p = [buf |-> p.buf, frames |-> p.frames]
  BY <1>3
<1>5. r = [buf |-> e.buf \o bytes, frames |-> gs]
  <2>1. r = [p EXCEPT !.buf = p.buf \o bytes]
    BY Zenon DEF Bencode!Push
  <2>. HIDE DEF r
  <2>. QED
    BY <1>4, <2>1, EncoderFields, Zenon
<1>. HIDE DEF r
<1>6. r.buf = e.buf \o bytes /\ r.frames = gs /\ r = [buf |-> r.buf, frames |-> r.frames]
  BY <1>5
<1>7. Filed(e.buf \o bytes, gs)
  BY <1>2, PushFiled
<1>8. CutOff(p.buf, p.frames)
  BY <1>2, <1>4, FiledCutOff
<1>. QED
  BY <1>2, <1>6, <1>7, <1>8 DEF Files, p, r

\* What the calls of BencodeEncoder leave.
BencodeGoesOn(event, e, r) ==
    /\ CutOff(r.e.buf, r.e.frames)
    /\ r.ok => /\ Files(r.e)
               /\ MovesStack(event, e.frames, r.e.frames)
               /\ event.call = "object_key" => Last(r.e.frames).pending # Bencode!NoKey

(* A refusal leaves the encoder as it was.                                 *)
LEMMA BencodeRefuses ==
    ASSUME NEW e, Files(e), NEW event
    PROVE  BencodeGoesOn(event, e, Bencode!Refused(e))
<1>. DEFINE r == Bencode!Refused(e)
<1>1. r.e = e /\ ~r.ok
  BY FilesReturns, Zenon
<1>2. CutOff(e.buf, e.frames)
  BY FiledCutOff DEF Files
<1>. HIDE DEF r
<1>3. BencodeGoesOn(event, e, r)
  BY <1>1, <1>2 DEF BencodeGoesOn
<1>. QED
  BY <1>3 DEF r

(* A key: the entry in front of it is finished.                            *)
LEMMA BencodeKeys ==
    ASSUME NEW e, Files(e), NEW event \in Calls, event.call = "object_key"
    PROVE  BencodeGoesOn(event, e, Bencode!Key(e, event.key))
<1>. DEFINE q == Bencode!FinishEntry(e)
            r == Bencode!Key(e, event.key)
            fs == q.e.frames
            n == Len(fs)
            start == Len(q.e.buf) + 1
            pending == [key |-> event.key, start |-> start]
            f == [fs[n] EXCEPT !.pending = pending]
            gs == [fs EXCEPT ![n] = f]
<1>1. /\ CutOff(q.e.buf, fs)
      /\ q.ok => /\ Files(q.e)
                 /\ fs # <<>>
                 /\ Len(e.frames) \in Nat \ {0}
                 /\ n = Len(e.frames)
                 /\ \A i \in 1 .. n - 1 : fs[i] = e.frames[i]
                 /\ Last(e.frames).kind = "object"
                 /\ Last(fs).kind = "object"
                 /\ Last(fs).pending = Bencode!NoKey
  BY FinishFiles
<1>2. event.key \in Keys /\ event.call \notin Begins \cup Ends
  BY CallFacts DEF Begins, Ends
<1>3. CASE ~q.ok
  <2>1. r = q
    BY <1>3, Zenon DEF Bencode!Key
  <2>. HIDE DEF r, q
  <2>2. BencodeGoesOn(event, e, q)
    BY <1>1, <1>3, Zenon DEF BencodeGoesOn
  <2>. QED
    BY <2>1, <2>2 DEF r
<1>4. CASE q.ok
  <2>1. r = Bencode!Done([q.e EXCEPT !.frames = gs])
    <3>1. n = Len(e.frames)
      BY <1>1, <1>4
    <3>2. r = Bencode!Done([q.e EXCEPT !.frames =
                [q.e.frames EXCEPT ![Len(e.frames)] = [q.e.frames[Len(e.frames)] EXCEPT !.pending = pending]]])
      BY <1>4, Zenon DEF Bencode!Key
    <3>. HIDE DEF q, r, pending
    <3>. QED
      BY <3>1, <3>2, Zenon
  <2>2. r.ok /\ r.e = [q.e EXCEPT !.frames = gs]
    BY <2>1, FilesReturns, Zenon
  <2>. HIDE DEF r, q
  <2>3. /\ q.e = [buf |-> q.e.buf, frames |-> fs] /\ Filed(q.e.buf, fs) /\ Sequence(fs) /\ Sequence(q.e.buf)
        /\ fs # <<>> /\ n \in Nat \ {0} /\ n = Len(e.frames)
        /\ Last(fs).kind = "object" /\ Last(fs).pending = Bencode!NoKey /\ Last(fs) = fs[n]
    <3>1. Files(q.e) /\ fs # <<>> /\ Last(fs).kind = "object" /\ Last(fs).pending = Bencode!NoKey
          /\ n \in Nat \ {0} /\ n = Len(e.frames)
      BY <1>1, <1>4
    <3>2. Last(fs) = fs[n]
      BY DEF Last
    <3>. QED
      BY <3>1, <3>2 DEF Files, Filed
  <2>4. r.e.buf = q.e.buf /\ r.e.frames = gs /\ r.e = [buf |-> r.e.buf, frames |-> r.e.frames]
    <3>. HIDE DEF gs
    <3>1. r.e = [buf |-> q.e.buf, frames |-> gs]
      BY <2>2, <2>3, EncoderFields, Zenon
    <3>. QED
      BY <3>1
  <2>5. n \in 1 .. n /\ Len(q.e.buf) \in Nat
    <3>1. \A k \in Nat \ {0} : k \in 1 .. k
      OBVIOUS
    <3>2. Len(q.e.buf) \in Nat
      BY <2>3, SequenceFacts DEF Sequence
    <3>. QED
      BY <2>3, <3>1, <3>2
  <2>6. IsFiling(fs[n])
    BY <2>3, <2>5 DEF Filed
  <2>7. pending.key = event.key /\ pending.start = start /\ pending # Bencode!NoKey
    <3>1. pending.key = event.key /\ pending.start = start
      OBVIOUS
    <3>2. Bencode!NoKey.key = "" /\ "" \notin Keys
      BY DEF Bencode!NoKey, Keys
    <3>. QED
      BY <1>2, <3>1, <3>2
  <2>. HIDE DEF pending
  <2>8. IsFiling(f) /\ f.kind = "object" /\ f.pending = pending
    <3>1. fs[n].kind = "object" /\ pending.key \in Keys
      BY <1>2, <2>3, <2>7
    <3>. QED
      BY <2>6, <3>1, FilingFields
  <2>. HIDE DEF f
  <2>9. IsTopSet(fs, f, gs)
    BY <2>3, SetTop
  <2>. HIDE DEF gs
  <2>10. Mark(f, Len(q.e.buf)) = start /\ Mark(Last(fs), Len(q.e.buf)) = start
    BY <2>3, <2>7, <2>8 DEF Mark
  <2>11. /\ Filed(q.e.buf, gs) /\ Len(gs) = n /\ Last(gs) = f
         /\ \A i \in 1 .. n - 1 : gs[i] = fs[i]
    <3>1. /\ Mark(f, Len(q.e.buf)) = Mark(Last(fs), Len(q.e.buf))
          /\ Mark(f, Len(q.e.buf)) <= Len(q.e.buf) + 1
          /\ Len(q.e.buf) <= Len(q.e.buf)
      BY <2>5, <2>10
    <3>2. \A i \in 1 .. Mark(f, Len(q.e.buf)) - 1 : q.e.buf[i] = q.e.buf[i]
      OBVIOUS
    <3>. HIDE DEF start, fs
    <3>. QED
      BY <2>3, <2>8, <2>9, <3>1, <3>2, RemarkFiled
  <2>12. SameKinds(Len(e.frames), e.frames, gs)
    <3>1. \A i \in 1 .. n : i \in 1 .. n - 1 \/ i = n
      BY <2>3
    <3>2. \A i \in 1 .. n - 1 : gs[i] = e.frames[i]
      BY <1>1, <1>4, <2>11
    <3>3. e.frames[n].kind = "object"
      BY <1>1, <1>4, <2>3 DEF Last
    <3>4. gs[n].kind = "object"
      BY <2>8, <2>9 DEF IsTopSet
    <3>. QED
      BY <2>3, <3>1, <3>2, <3>3, <3>4 DEF SameKinds
  <2>13. MovesStack(event, e.frames, r.e.frames)
    BY <1>2, <2>3, <2>4, <2>11, <2>12, StaysInside
  <2>14. Files(r.e) /\ CutOff(r.e.buf, r.e.frames)
    BY <2>4, <2>11, FiledCutOff DEF Files
  <2>15. Last(r.e.frames).pending # Bencode!NoKey
    BY <2>4, <2>7, <2>8, <2>11
  <2>16. BencodeGoesOn(event, e, r)
    BY <2>13, <2>14, <2>15 DEF BencodeGoesOn
  <2>. QED
    BY <2>16 DEF r
<1>. QED
  BY <1>3, <1>4

(* A container is opened.                                                  *)
LEMMA BencodeBegins ==
    ASSUME NEW e, Files(e), AllNamed(e.frames), NEW event \in Calls, event.call \in Begins
    PROVE  BencodeGoesOn(event, e, Bencode!Begin(e, KindOf(event.call)))
<1>. DEFINE kind == KindOf(event.call)
            r == Bencode!Begin(e, kind)
            f == IF kind = "array" THEN Bencode!ListFrame ELSE Bencode!DictFrame
            gs == Append(e.frames, f)
            b == e.buf \o <<Bencode!Plain(kind)>>
            p == Bencode!Push(e, <<Bencode!Plain(kind)>>)
<1>1. kind \in Kinds /\ event.call # "object_key"
  BY CallFacts DEF Begins
<1>2. IsFiling(f) /\ f.kind = kind /\ f.pending = Bencode!NoKey
  <2>1. IsList(<<>>)
    <3>1. Sequence(<<>>) /\ Len(<<>>) = 0
      BY SingleSequence
    <3>2. 1 .. 0 = {}
      OBVIOUS
    <3>. QED
      BY <3>1, <3>2 DEF IsList
  <2>2. f = [kind |-> kind, entries |-> <<>>, pending |-> Bencode!NoKey]
    BY <1>1 DEF Bencode!ListFrame, Bencode!DictFrame, Kinds
  <2>. HIDE DEF f, kind
  <2>3. f.kind = kind /\ f.entries = <<>> /\ f.pending = Bencode!NoKey
    BY <2>2
  <2>. QED
    BY <1>1, <2>1, <2>2, <2>3 DEF IsFiling
<1>3. e = [buf |-> e.buf, frames |-> e.frames] /\ Filed(e.buf, e.frames) /\ Sequence(e.frames)
  BY DEF Files, Filed
<1>4. r = Bencode!Done([p EXCEPT !.frames = Append(p.frames, f)])
  BY Zenon DEF Bencode!Begin
<1>. HIDE DEF f, kind
<1>5. p = [buf |-> b, frames |-> e.frames]
  <2>1. p = [e EXCEPT !.buf = b]
    BY Zenon DEF Bencode!Push
  <2>. HIDE DEF b, p
  <2>. QED
    BY <1>3, <2>1, EncoderFields, Zenon
<1>. HIDE DEF p, r
<1>6. p.buf = b /\ p.frames = e.frames /\ p = [buf |-> p.buf, frames |-> p.frames]
  BY <1>5
<1>7. [p EXCEPT !.frames = gs] = [buf |-> b, frames |-> gs]
  <2>. HIDE DEF gs, b
  <2>. QED
    BY <1>6, EncoderFields, Zenon
<1>8. r.e = [buf |-> b, frames |-> gs]
  <2>1. r = Bencode!Done([buf |-> b, frames |-> gs])
    BY <1>4, <1>6, <1>7, Zenon
  <2>. QED
    BY <2>1, FilesReturns, Zenon
<1>9. IsOneMore(e.frames, f, gs)
  BY <1>3, AppendOne
<1>. HIDE DEF gs
<1>10. Filed(b, gs)
  BY <1>1, <1>2, <1>3, <1>9, OpenFiled
<1>. HIDE DEF b
<1>11. r.e.buf = b /\ r.e.frames = gs /\ r.e = [buf |-> r.e.buf, frames |-> r.e.frames]
  BY <1>8
<1>12. MovesStack(event, e.frames, r.e.frames)
  BY <1>2, <1>9, <1>11 DEF MovesStack, SameKinds, IsOneMore, kind
<1>13. Files(r.e) /\ CutOff(r.e.buf, r.e.frames)
  BY <1>10, <1>11, FiledCutOff DEF Files
<1>14. BencodeGoesOn(event, e, r)
  BY <1>1, <1>12, <1>13 DEF BencodeGoesOn
<1>. QED
  BY <1>14 DEF r, kind

(* A call that leaves the encoder as it was, and is accepted.              *)
LEMMA BencodeSeparators ==
    ASSUME NEW e, Files(e), NEW event, event.call = "separator"
    PROVE  BencodeGoesOn(event, e, Bencode!Separator(e))
<1>. DEFINE r == Bencode!Separator(e)
<1>1. r.e = e
  BY FilesReturns, Zenon DEF Bencode!Separator
<1>2. CutOff(e.buf, e.frames)
  BY FiledCutOff DEF Files
<1>3. event.call \notin Begins \cup Ends /\ event.call # "object_key"
  BY DEF Begins, Ends
<1>. HIDE DEF r
<1>4. MovesStack(event, e.frames, e.frames)
  BY <1>3, StaysInside DEF SameKinds
<1>5. BencodeGoesOn(event, e, r)
  BY <1>1, <1>2, <1>3, <1>4 DEF BencodeGoesOn
<1>. QED
  BY <1>5 DEF r

(* A scalar is written behind what is there.                               *)
LEMMA BencodeScalars ==
    ASSUME NEW e, Files(e), AllNamed(e.frames), NEW event, event.call \in Scalars
    PROVE  BencodeGoesOn(event, e, Bencode!Scalar(e, event.call))
<1>. DEFINE r == Bencode!Scalar(e, event.call)
            b == e.buf \o <<Bencode!Plain(event.call)>>
<1>1. CASE event.call \in {"null", "nan", "widest"}
  <2>1. r = Bencode!Refused(e)
    BY <1>1, Zenon DEF Bencode!Scalar
  <2>. QED
    BY <2>1, BencodeRefuses
<1>2. CASE event.call \notin {"null", "nan", "widest"}
  <2>1. e = [buf |-> e.buf, frames |-> e.frames] /\ Filed(e.buf, e.frames)
    BY DEF Files
  <2>2. r = Bencode!Done([e EXCEPT !.buf = b])
    BY <1>2, Zenon DEF Bencode!Scalar, Bencode!Push
  <2>. HIDE DEF r
  <2>3. Filed(b, e.frames)
    BY <2>1, SingleSequence, PushFiled
  <2>. HIDE DEF b
  <2>4. r.e = [buf |-> b, frames |-> e.frames]
    <3>1. [e EXCEPT !.buf = b] = [buf |-> b, frames |-> e.frames]
      BY <2>1, EncoderFields, Zenon
    <3>. QED
      BY <2>2, <3>1, FilesReturns, Zenon
  <2>5. r.e.buf = b /\ r.e.frames = e.frames /\ r.e = [buf |-> r.e.buf, frames |-> r.e.frames]
    BY <2>4
  <2>6. event.call \notin Begins \cup Ends /\ event.call # "object_key"
    BY DEF Begins, Ends, Scalars
  <2>7. MovesStack(event, e.frames, r.e.frames)
    BY <2>5, <2>6, StaysInside DEF SameKinds
  <2>8. Files(r.e) /\ CutOff(r.e.buf, r.e.frames)
    BY <2>3, <2>5, FiledCutOff DEF Files
  <2>9. BencodeGoesOn(event, e, r)
    BY <2>6, <2>7, <2>8 DEF BencodeGoesOn
  <2>. QED
    BY <2>9 DEF r
<1>. QED
  BY <1>1, <1>2

(* The end of a list.                                                      *)
LEMMA BencodeEndsList ==
    ASSUME NEW e, Files(e), NEW event, event.call = "end_array"
    PROVE  BencodeGoesOn(event, e, Bencode!EndList(e))
<1>. DEFINE r == Bencode!EndList(e)
            open == e.frames # <<>> /\ Last(e.frames).kind = "array"
            end == <<Bencode!Plain("end")>>
            q == Bencode!Push(Bencode!PopFrame(e), end)
<1>1. CASE ~open
  <2>1. r = Bencode!Refused(e)
    BY <1>1, Zenon DEF Bencode!EndList, Bencode!Last, Last
  <2>. QED
    BY <2>1, BencodeRefuses
<1>2. CASE open
  <2>1. r = Bencode!Done(q)
    BY <1>2, Zenon DEF Bencode!EndList, Bencode!Last, Last
  <2>2. /\ Files(q)
        /\ Len(e.frames) \in Nat \ {0} /\ Len(q.frames) = Len(e.frames) - 1
        /\ \A i \in 1 .. Len(e.frames) - 1 : q.frames[i] = e.frames[i]
    BY <1>2, SingleSequence, CloseFiles
  <2>. HIDE DEF r, q
  <2>3. r.e = q
    BY <2>1, FilesReturns, Zenon
  <2>4. event.call \in Ends /\ event.call \notin Begins /\ event.call # "object_key"
    BY DEF Begins, Ends
  <2>5. MovesStack(event, e.frames, q.frames)
    BY <2>2, <2>4 DEF MovesStack, SameKinds
  <2>6. CutOff(q.buf, q.frames)
    BY <2>2, FiledCutOff DEF Files
  <2>7. BencodeGoesOn(event, e, r)
    BY <2>2, <2>3, <2>4, <2>5, <2>6 DEF BencodeGoesOn
  <2>. QED
    BY <2>7 DEF r
<1>. QED
  BY <1>1, <1>2

(* The end of a dictionary: its last entry is finished, and all of them    *)
(* are written.                                                            *)
LEMMA BencodeEndsDict ==
    ASSUME NEW e, Files(e), NEW event, event.call = "end_object"
    PROVE  BencodeGoesOn(event, e, Bencode!EndDict(e))
<1>. DEFINE q == Bencode!FinishEntry(e)
            r == Bencode!EndDict(e)
            list == Bencode!Sorted(Last(q.e.frames).entries)
            bytes == Bencode!Entries(list) \o <<Bencode!Plain("end")>>
            p == Bencode!PopFrame(q.e)
            z == Bencode!Push(p, bytes)
<1>1. /\ CutOff(q.e.buf, q.e.frames)
      /\ q.ok => /\ Files(q.e)
                 /\ e.frames # <<>> /\ q.e.frames # <<>>
                 /\ Len(e.frames) \in Nat \ {0}
                 /\ Len(q.e.frames) = Len(e.frames)
                 /\ \A i \in 1 .. Len(e.frames) - 1 : q.e.frames[i] = e.frames[i]
  BY FinishFiles
<1>2. CASE ~q.ok
  <2>1. r = q
    BY <1>2, Zenon DEF Bencode!EndDict
  <2>. HIDE DEF r, q
  <2>2. BencodeGoesOn(event, e, q)
    BY <1>1, <1>2, Zenon DEF BencodeGoesOn
  <2>. QED
    BY <2>1, <2>2 DEF r
<1>3. CASE q.ok
  <2>. HIDE DEF q
  <2>1. Sequence(bytes)
    <3>1. IsFiling(Last(q.e.frames))
      <4>1. Len(q.e.frames) \in 1 .. Len(q.e.frames)
        BY <1>1, <1>3
      <4>. QED
        BY <1>1, <1>3, <4>1 DEF Files, Filed, Last
    <3>2. IsList(list)
      BY <3>1, SortedIsList DEF IsFiling
    <3>. HIDE DEF list
    <3>3. Sequence(Bencode!Entries(list))
      BY <3>2, EntriesAreBytes
    <3>. QED
      BY <3>3, SingleSequence, ConcatSequence
  <2>. HIDE DEF bytes
  <2>2. /\ CutOff(p.buf, p.frames)
        /\ Files(z)
        /\ Len(q.e.frames) \in Nat \ {0} /\ Len(z.frames) = Len(q.e.frames) - 1
        /\ \A i \in 1 .. Len(q.e.frames) - 1 : z.frames[i] = q.e.frames[i]
    BY <1>1, <1>3, <2>1, CloseFiles
  <2>3. r = IF Bencode!HasDuplicate(list) THEN Bencode!Refused(p) ELSE Bencode!Done(z)
    BY <1>3, Zenon DEF Bencode!EndDict, Bencode!Last, Last, list, bytes, q
  <2>. HIDE DEF r, p, z, list
  <2>4. CASE Bencode!HasDuplicate(list)
    <3>1. r.e = p /\ ~r.ok
      BY <2>3, <2>4, FilesReturns, Zenon
    <3>2. BencodeGoesOn(event, e, r)
      BY <2>2, <3>1, Zenon DEF BencodeGoesOn
    <3>. QED
      BY <3>2 DEF r
  <2>5. CASE ~Bencode!HasDuplicate(list)
    <3>1. r.e = z
      BY <2>3, <2>5, FilesReturns, Zenon
    <3>2. event.call \in Ends /\ event.call \notin Begins /\ event.call # "object_key"
      BY DEF Begins, Ends
    <3>3. MovesStack(event, e.frames, z.frames)
      BY <1>1, <1>3, <2>2, <3>2 DEF MovesStack, SameKinds
    <3>4. CutOff(z.buf, z.frames)
      BY <2>2, FiledCutOff DEF Files
    <3>5. BencodeGoesOn(event, e, r)
      BY <2>2, <3>1, <3>2, <3>3, <3>4 DEF BencodeGoesOn
    <3>. QED
      BY <3>5 DEF r
  <2>. QED
    BY <2>4, <2>5
<1>. QED
  BY <1>2, <1>3

(* What a call of BencodeEncoder does: a value is only written where the   *)
(* innermost dictionary has a key for it.                                  *)
LEMMA BencodeEmits ==
    ASSUME Files(enc), NEW event \in Calls, event.call \notin Markers,
           event.call \in Begins \cup Scalars => AllNamed(enc.frames)
    PROVE  BencodeGoesOn(event, enc, EmitBencode(event))
<1>1. CASE event.call = "separator"
  BY <1>1, BencodeSeparators DEF EmitBencode, Begins, Ends
<1>2. CASE event.call = "object_key"
  BY <1>2, BencodeKeys DEF EmitBencode, Begins, Ends
<1>3. CASE event.call \in Begins
  BY <1>3, BencodeBegins DEF EmitBencode, Begins, Ends
<1>4. CASE event.call \in Ends
  BY <1>4, BencodeEndsList, BencodeEndsDict DEF EmitBencode, Begins, Ends
<1>5. CASE event.call \in Scalars
  BY <1>5, BencodeScalars DEF EmitBencode, Begins, Ends, Scalars
<1>. QED
  BY <1>1, <1>2, <1>3, <1>4, <1>5, CallFacts

-----------------------------------------------------------------------------
(* A flattened value and the struct around it.                             *)

(* The checker behind the adapters is the one the other formats have in    *)
(* front of them.                                                          *)
LEMMA SameChecker ==
    ASSUME NEW s, NEW kind
    PROVE  /\ Flatten!ValueOk(TRUE, s) <=> ValueOk(TRUE, s)
           /\ Flatten!KeyOk(s) <=> KeyOk(s)
           /\ Flatten!SeparatorOk(s) <=> SeparatorOk(s)
           /\ Flatten!EndOk(kind, s) <=> EndOk(kind, s)
           /\ Flatten!Value(s) = Value(s)
           /\ Flatten!Key(s) = SetDue(s, TRUE)
           /\ Flatten!Separator(s) = SetDue(s, TRUE)
           /\ Flatten!Begin(kind, s) = Begin(kind, s)
           /\ Flatten!End(s) = End(s)
<1>1. Flatten!AtRoot(s) = AtRoot(s) /\ Flatten!Top(s) = Top(s)
  BY DEF Flatten!AtRoot, AtRoot, Flatten!Top, Top, Flatten!Last, Last
<1>2. /\ Flatten!InArray(s) = InArray(s) /\ Flatten!InObject(s) = InObject(s)
      /\ \A b : Flatten!SetDue(s, b) = SetDue(s, b)
  BY <1>1 DEF Flatten!InArray, InArray, Flatten!InObject, InObject, Flatten!SetDue, SetDue
<1>3. Flatten!Value(s) = Value(s)
  BY <1>1, <1>2 DEF Flatten!Value, Value
<1>4. Flatten!End(s) = End(s)
  BY <1>1 DEF Flatten!End, End, Flatten!Front, Front
<1>5. /\ Flatten!ValueOk(TRUE, s) <=> ValueOk(TRUE, s)
      /\ Flatten!KeyOk(s) <=> KeyOk(s)
      /\ Flatten!SeparatorOk(s) <=> SeparatorOk(s)
      /\ Flatten!EndOk(kind, s) <=> EndOk(kind, s)
  BY <1>1, <1>2 DEF Flatten!ValueOk, ValueOk, Flatten!KeyOk, KeyOk, Flatten!SeparatorOk, SeparatorOk,
                    Flatten!EndOk, EndOk
<1>. QED
  BY <1>2, <1>3, <1>4, <1>5 DEF Flatten!Key, Flatten!Separator, Flatten!Begin, Begin

Adapters == [depth : Nat, started : BOOLEAN, finished : BOOLEAN, pending : BOOLEAN]

Ended == [depth |-> 0, started |-> TRUE, finished |-> TRUE, pending |-> FALSE]

\* The adapter is in the value; outer has the struct's object open, and what
\* the value opened in it.
Running(a, outer) ==
    /\ a \in Adapters /\ a.started /\ ~a.finished
    /\ outer \in States /\ outer.root = TRUE
    /\ OnlyTopDue(outer.frames)
    /\ Len(outer.frames) = a.depth /\ a.depth # 0
    /\ outer.frames[1].kind = "object"
    /\ a.pending <=> (a.depth = 1 /\ outer.frames[1].due)

\* What the inner adapter a, the one further out b and the checker have to do
\* with each other.
Bond(a, b, outer) ==
    \/ /\ a \in {Flatten!NewAdapter, Ended}
       /\ outer = Flatten!Outer /\ b = Flatten!Opened
    \/ Running(a, outer) /\ b = a

(* What is set in an adapter is what it has.                               *)
LEMMA AdapterDepth ==
    ASSUME NEW a \in Adapters, NEW d \in Nat, NEW c, c = [a EXCEPT !.depth = d]
    PROVE  /\ c \in Adapters /\ c.depth = d
           /\ c.started = a.started /\ c.finished = a.finished /\ c.pending = a.pending
BY DEF Adapters

(* The same of the key that waits.                                         *)
LEMMA AdapterPending ==
    ASSUME NEW a \in Adapters, NEW p \in BOOLEAN, NEW c, c = [a EXCEPT !.pending = p]
    PROVE  /\ c \in Adapters /\ c.depth = a.depth
           /\ c.started = a.started /\ c.finished = a.finished /\ c.pending = p
BY DEF Adapters

(* The adapter of a value that has just begun.                             *)
LEMMA OpenedRuns == Running(Flatten!Opened, Flatten!Outer)
<1>. DEFINE f == [kind |-> "object", due |-> FALSE]
            o == Flatten!Outer
            a == Flatten!Opened
<1>1. o = [frames |-> <<f>>, root |-> TRUE]
  BY DEF Flatten!Outer
<1>2. f \in Frame /\ f.kind = "object" /\ f.due = FALSE
  BY DEF Frame, Kinds
<1>. HIDE DEF f
<1>3. <<f>> \in Seq(Frame) /\ Len(<<f>>) = 1 /\ <<f>>[1] = f
  BY <1>2
<1>4. o \in States /\ o.root = TRUE /\ Len(o.frames) = 1 /\ o.frames[1] = f
  BY <1>1, <1>3 DEF States
<1>5. OnlyTopDue(o.frames)
  BY <1>4 DEF OnlyTopDue
<1>6. a = [depth |-> 1, started |-> TRUE, finished |-> FALSE, pending |-> FALSE]
  BY DEF Flatten!Opened, Flatten!Adapter
<1>7. a \in Adapters /\ a.started /\ ~a.finished /\ a.depth = 1 /\ ~a.pending
  BY <1>6 DEF Adapters
<1>. HIDE DEF a, o
<1>. QED
  BY <1>2, <1>4, <1>5, <1>7 DEF Running, a, o

(* The value is at its end only where it began: the checker has the        *)
(* struct's object open as it was found.                                   *)
LEMMA RunsOut ==
    ASSUME NEW a, NEW outer, Running(a, outer), a.depth = 1, ~a.pending
    PROVE  a = Flatten!Opened /\ outer = Flatten!Outer
<1>1. a = [depth |-> 1, started |-> TRUE, finished |-> FALSE, pending |-> FALSE]
  BY DEF Running, Adapters
<1>2. outer.frames \in Seq(Frame) /\ Len(outer.frames) = 1
      /\ outer.frames[1].kind = "object" /\ ~outer.frames[1].due
  BY DEF Running, States
<1>3. outer.frames[1] = [kind |-> "object", due |-> FALSE]
  <2>1. outer.frames[1] \in Frame
    BY <1>2
  <2>. QED
    BY <1>2, <2>1 DEF Frame
<1>4. outer.frames = <<outer.frames[1]>>
  BY <1>2
<1>5. outer = [frames |-> outer.frames, root |-> TRUE]
  BY DEF Running, States
<1>. QED
  BY <1>1, <1>3, <1>4, <1>5 DEF Flatten!Opened, Flatten!Adapter, Flatten!Outer

\* The answer r1 of the inner adapter: a call that stays there leaves the bond
\* with the same checker, one that is forwarded with what it makes of the checker.
Answers(r1, a, b, outer, outer2) ==
    /\ r1.forward => r1.ok /\ b = a
    /\ r1.ok /\ ~r1.forward => Bond(r1.a, b, outer)
    /\ r1.forward => Bond(r1.a, r1.a, outer2)

(* An adapter that stops a call.                                           *)
LEMMA Stops ==
    ASSUME NEW x, NEW a, NEW b, NEW outer, NEW outer2
    PROVE  Answers(Flatten!Stop(x), a, b, outer, outer2)
BY DEF Answers, Flatten!Stop

(* One that answers for itself.                                            *)
LEMMA Swallows ==
    ASSUME NEW x, NEW a, NEW b, NEW outer, NEW outer2, Bond(x, b, outer)
    PROVE  Answers(Flatten!Swallow(x), a, b, outer, outer2)
BY DEF Answers, Flatten!Swallow

(* One that forwards it.                                                   *)
LEMMA Forwards ==
    ASSUME NEW x, NEW a, NEW b, NEW outer, NEW outer2, b = a,
           Running(x, outer2)
    PROVE  Answers(Flatten!Forward(x), a, b, outer, outer2)
BY DEF Answers, Flatten!Forward, Bond

(* What an adapter that is not in its value is.                            *)
LEMMA IdleOrRunning ==
    ASSUME NEW a, NEW b, NEW outer, Bond(a, b, outer)
    PROVE  \/ /\ a = Flatten!NewAdapter /\ ~a.started /\ ~a.finished /\ a.depth = 0 /\ ~a.pending
              /\ outer = Flatten!Outer /\ b = Flatten!Opened
           \/ /\ a = Ended /\ a.started /\ a.finished /\ a.depth = 0 /\ ~a.pending
              /\ outer = Flatten!Outer /\ b = Flatten!Opened
           \/ /\ Running(a, outer) /\ b = a
              /\ a \in Adapters /\ a.started /\ ~a.finished /\ a.depth \in Nat \ {0}
<1>1. CASE a = Flatten!NewAdapter /\ outer = Flatten!Outer /\ b = Flatten!Opened
  BY <1>1 DEF Flatten!NewAdapter, Flatten!Adapter
<1>2. CASE a = Ended /\ outer = Flatten!Outer /\ b = Flatten!Opened
  BY <1>2 DEF Ended
<1>3. CASE Running(a, outer) /\ b = a
  BY <1>3 DEF Running, Adapters
<1>. QED
  BY <1>1, <1>2, <1>3 DEF Bond

(* What a running adapter has behind it, when a call sets whether the      *)
(* innermost container waits for a value.                                  *)
LEMMA RunsOn ==
    ASSUME NEW a, NEW outer, Running(a, outer), NEW p \in BOOLEAN
    PROVE  /\ ~AtRoot(outer)
           /\ a.depth = 1 => Running([a EXCEPT !.pending = p], SetDue(outer, p))
           /\ a.depth # 1 => Running(a, SetDue(outer, p))
<1>. DEFINE n == Len(outer.frames)
            o == SetDue(outer, p)
            c == [a EXCEPT !.pending = p]
<1>1. /\ outer \in Machine(Frame) /\ Slotted(Frame) /\ States = Machine(Frame)
      /\ n \in Nat \ {0} /\ n = a.depth
  BY FrameIsSlotted DEF Running, Adapters
<1>2. ~AtRoot(outer)
  <2>1. outer.frames \in Seq(Frame) /\ n # 0
    BY <1>1 DEF Machine
  <2>. QED
    BY <2>1, EmptySeq DEF AtRoot
<1>3. o \in Machine(Frame) /\ o.root = outer.root /\ DueIs(p, outer.frames, o.frames)
  BY <1>1, <1>2, SetDueProperties
<1>4. OnlyTopDue(o.frames)
  BY <1>1, <1>2, OnlyTopDueKept DEF Running
<1>. HIDE DEF o
<1>5. 1 \in 1 .. n
  BY <1>1
<1>6. /\ Len(o.frames) = n /\ o.frames[1].kind = "object"
      /\ n = 1 => (o.frames[1].due <=> p)
  BY <1>3, <1>5 DEF DueIs, Running
<1>7. CASE n = 1
  <2>1. c \in Adapters /\ c.depth = 1 /\ c.started /\ ~c.finished /\ (c.pending <=> p)
    <3>1. /\ c \in Adapters /\ c.depth = a.depth
          /\ c.started = a.started /\ c.finished = a.finished /\ c.pending = p
      BY <1>1, AdapterPending DEF Running
    <3>. HIDE DEF c
    <3>. QED
      BY <1>1, <1>7, <3>1 DEF Running
  <2>. HIDE DEF c
  <2>2. Running(c, o)
    BY <1>1, <1>3, <1>4, <1>6, <1>7, <2>1 DEF Running
  <2>. QED
    BY <1>1, <1>2, <1>7, <2>2 DEF o, c
<1>8. CASE n # 1
  <2>1. Running(a, o)
    BY <1>1, <1>3, <1>4, <1>6, <1>8 DEF Running
  <2>. QED
    BY <1>1, <1>2, <1>8, <2>1 DEF o
<1>. QED
  BY <1>7, <1>8

(* A container is opened in the value.                                     *)
LEMMA RunsDeeper ==
    ASSUME NEW a, NEW outer, Running(a, outer), NEW kind \in Kinds,
           NEW c \in Adapters, c.depth = a.depth, c.started, ~c.finished, ~c.pending,
           NEW d, d = [c EXCEPT !.depth = c.depth + 1]
    PROVE  Running(d, Begin(kind, outer))
<1>. DEFINE f == [kind |-> kind, due |-> FALSE]
            n == Len(outer.frames)
            v == Value(outer)
            o == Begin(kind, outer)
<1>1. /\ outer \in Machine(Frame) /\ Slotted(Frame) /\ States = Machine(Frame)
      /\ n \in Nat \ {0} /\ n = a.depth /\ a \in Adapters
  BY FrameIsSlotted DEF Running, Adapters
<1>2. f \in Frame /\ o = [v EXCEPT !.frames = Append(@, f)]
  BY DEF Frame, Begin
<1>. HIDE DEF f
<1>3. o \in Machine(Frame) /\ Pushed(f, v, o) /\ Len(v.frames) = n /\ OnlyTopDue(o.frames)
  BY <1>1, <1>2, BeginProperties, OnlyTopDueKept DEF Running
<1>4. v.root = TRUE /\ v.frames[1].kind = "object"
  <2>1. v.root = (IF AtRoot(outer) THEN TRUE ELSE outer.root) /\ DueIs(FALSE, outer.frames, v.frames)
    BY <1>1, ValueProperties
  <2>2. 1 \in 1 .. n
    BY <1>1
  <2>. QED
    BY <2>1, <2>2 DEF Running, DueIs
<1>. HIDE DEF v, o
<1>5. o.root = TRUE /\ Len(o.frames) = n + 1 /\ o.frames[1].kind = "object"
  <2>1. 1 \in 1 .. n
    BY <1>1
  <2>. QED
    BY <1>3, <1>4, <2>1 DEF Pushed
<1>6. c \in Adapters /\ c.depth = n /\ c.started /\ ~c.finished /\ ~c.pending
  BY <1>1
<1>7. d \in Adapters /\ d.depth = n + 1 /\ d.started /\ ~d.finished /\ ~d.pending
  <2>1. n + 1 \in Nat
    BY <1>1
  <2>. QED
    BY <1>6, <2>1, AdapterDepth
<1>8. n + 1 # 0 /\ n + 1 # 1
  BY <1>1
<1>9. Running(d, o)
  BY <1>1, <1>3, <1>5, <1>7, <1>8 DEF Running
<1>. QED
  BY <1>9 DEF o

(* One is closed.                                                          *)
LEMMA RunsShallower ==
    ASSUME NEW a, NEW outer, Running(a, outer), a.depth # 1,
           NEW d, d = [a EXCEPT !.depth = a.depth - 1]
    PROVE  Running(d, End(outer))
<1>. DEFINE n == Len(outer.frames)
            o == End(outer)
<1>1. /\ outer \in Machine(Frame) /\ Slotted(Frame) /\ States = Machine(Frame)
      /\ n \in Nat \ {0, 1} /\ n = a.depth /\ a \in Adapters
  BY FrameIsSlotted DEF Running, Adapters
<1>2. ~AtRoot(outer)
  <2>1. outer.frames \in Seq(Frame) /\ n # 0
    BY <1>1 DEF Machine
  <2>. QED
    BY <2>1, EmptySeq DEF AtRoot
<1>3. /\ o \in Machine(Frame) /\ o.root = outer.root
      /\ Len(o.frames) = n - 1
      /\ \A i \in 1 .. n - 1 : o.frames[i] = outer.frames[i]
      /\ OnlyTopDue(o.frames)
  BY <1>1, <1>2, EndProperties, OnlyTopDueKept DEF Running
<1>. HIDE DEF o
<1>4. 1 \in 1 .. n - 1 /\ n - 1 \in Nat \ {0} /\ n - 1 \in Nat
  BY <1>1
<1>5. o.frames[1].kind = "object" /\ ~o.frames[1].due
  BY <1>3, <1>4 DEF Running, OnlyTopDue
<1>6. d \in Adapters /\ d.depth = n - 1 /\ d.started /\ ~d.finished /\ ~d.pending
  <2>1. a.started /\ ~a.finished /\ ~a.pending /\ d = [a EXCEPT !.depth = n - 1]
    BY <1>1 DEF Running
  <2>. QED
    BY <1>1, <1>4, <2>1, AdapterDepth
<1>7. Running(d, o)
  BY <1>1, <1>3, <1>4, <1>5, <1>6 DEF Running
<1>. QED
  BY <1>7 DEF o

(* start_value.                                                            *)
LEMMA StartAnswers ==
    ASSUME NEW a, NEW b, NEW outer, Bond(a, b, outer)
    PROVE  /\ Answers(Flatten!StartValue(a), a, b, outer, Value(outer))
           /\ \/ Flatten!StartValue(a) = Flatten!Stop(a)
              \/ /\ Running(a, outer) /\ b = a
                 /\ \E c \in Adapters :
                       /\ Flatten!StartValue(a) = Flatten!Forward(c)
                       /\ c.depth = a.depth /\ c.started /\ ~c.finished /\ ~c.pending
<1>. DEFINE r == Flatten!StartValue(a)
<1>1. CASE ~a.started \/ a.finished
  <2>1. r = Flatten!Stop(a)
    BY <1>1 DEF Flatten!StartValue
  <2>. QED
    BY <2>1, Stops
<1>2. CASE a.started /\ ~a.finished
  <2>1. /\ Running(a, outer) /\ b = a
        /\ a \in Adapters /\ a.depth \in Nat \ {0}
    BY <1>2, IdleOrRunning
  <2>2. /\ ~AtRoot(outer)
        /\ a.depth = 1 => Running([a EXCEPT !.pending = FALSE], SetDue(outer, FALSE))
        /\ a.depth # 1 => Running(a, SetDue(outer, FALSE))
    BY <2>1, RunsOn
  <2>3. Value(outer) = SetDue(outer, FALSE)
    BY <2>2 DEF Value
  <2>4. CASE a.depth = 1 /\ ~a.pending
    <3>1. r = Flatten!Stop(a)
      BY <2>4 DEF Flatten!StartValue
    <3>. QED
      BY <3>1, Stops
  <2>5. CASE a.depth = 1 /\ a.pending
    <3>. DEFINE c == [a EXCEPT !.pending = FALSE]
    <3>1. r = Flatten!Forward(c)
      BY <1>2, <2>5 DEF Flatten!StartValue
    <3>2. /\ c \in Adapters /\ c.depth = a.depth
          /\ c.started = a.started /\ c.finished = a.finished /\ c.pending = FALSE
      BY <2>1, AdapterPending
    <3>3. Running(c, Value(outer))
      BY <2>2, <2>3, <2>5
    <3>. HIDE DEF c, r
    <3>4. Answers(r, a, b, outer, Value(outer))
      BY <2>1, <3>1, <3>3, Forwards
    <3>. QED
      BY <1>2, <2>1, <3>1, <3>2, <3>4 DEF r
  <2>6. CASE a.depth # 1
    <3>1. r = Flatten!Forward(a)
      <4>1. [a EXCEPT !.pending = a.pending] = a
        BY <2>1 DEF Adapters
      <4>. QED
        BY <1>2, <2>6, <4>1 DEF Flatten!StartValue
    <3>2. Running(a, Value(outer)) /\ ~a.pending
      BY <2>1, <2>2, <2>3, <2>6 DEF Running
    <3>. HIDE DEF r
    <3>3. Answers(r, a, b, outer, Value(outer))
      BY <2>1, <3>1, <3>2, Forwards
    <3>. QED
      BY <1>2, <2>1, <3>1, <3>2, <3>3 DEF r
  <2>. QED
    BY <2>4, <2>5, <2>6
<1>. QED
  BY <1>1, <1>2

(* Keys, separators and Some.                                              *)
LEMMA KeyAnswers ==
    ASSUME NEW a, NEW b, NEW outer, Bond(a, b, outer)
    PROVE  Answers(Flatten!KeyAt(a), a, b, outer, SetDue(outer, TRUE))
<1>. DEFINE r == Flatten!KeyAt(a)
<1>1. CASE ~a.started \/ a.finished
  <2>1. r = Flatten!Stop(a)
    BY <1>1 DEF Flatten!KeyAt
  <2>. QED
    BY <2>1, Stops
<1>2. CASE a.started /\ ~a.finished
  <2>1. /\ Running(a, outer) /\ b = a
        /\ a \in Adapters /\ a.depth \in Nat \ {0}
    BY <1>2, IdleOrRunning
  <2>2. /\ a.depth = 1 => Running([a EXCEPT !.pending = TRUE], SetDue(outer, TRUE))
        /\ a.depth # 1 => Running(a, SetDue(outer, TRUE))
    BY <2>1, RunsOn
  <2>3. CASE a.depth = 1 /\ a.pending
    <3>1. r = Flatten!Stop(a)
      BY <2>3 DEF Flatten!KeyAt
    <3>. QED
      BY <3>1, Stops
  <2>4. CASE a.depth = 1 /\ ~a.pending
    <3>. DEFINE c == [a EXCEPT !.pending = TRUE]
    <3>1. r = Flatten!Forward(c)
      <4>1. (a.depth = 1) = TRUE
        BY <2>4
      <4>2. ~(~a.started \/ a.finished \/ a.depth = 0 \/ (a.depth = 1 /\ a.pending))
        BY <1>2, <2>1, <2>4
      <4>3. r = Flatten!Forward([a EXCEPT !.pending = (a.depth = 1)])
        BY <4>2, Zenon DEF Flatten!KeyAt
      <4>. QED
        BY <4>1, <4>3, Zenon
    <3>2. Running(c, SetDue(outer, TRUE))
      BY <2>2, <2>4
    <3>. HIDE DEF c, r
    <3>3. Answers(r, a, b, outer, SetDue(outer, TRUE))
      BY <2>1, <3>1, <3>2, Forwards
    <3>. QED
      BY <3>3 DEF r
  <2>5. CASE a.depth # 1
    <3>1. r = Flatten!Forward(a)
      <4>1. (a.depth = 1) = FALSE /\ a.pending = FALSE
        BY <2>1, <2>5 DEF Running, Adapters
      <4>2. [a EXCEPT !.pending = FALSE] = a
        BY <2>1, <4>1 DEF Adapters
      <4>. QED
        BY <1>2, <2>1, <2>5, <4>1, <4>2 DEF Flatten!KeyAt
    <3>2. Running(a, SetDue(outer, TRUE))
      BY <2>2, <2>5
    <3>. HIDE DEF r
    <3>3. Answers(r, a, b, outer, SetDue(outer, TRUE))
      BY <2>1, <3>1, <3>2, Forwards
    <3>. QED
      BY <3>3 DEF r
  <2>. QED
    BY <2>3, <2>4, <2>5
<1>. QED
  BY <1>1, <1>2

(* An element of an array in the value.                                    *)
LEMMA SeparatorAnswers ==
    ASSUME NEW a, NEW b, NEW outer, Bond(a, b, outer)
    PROVE  Answers(Flatten!SeparatorAt(a), a, b, outer, SetDue(outer, TRUE))
<1>1. CASE a.depth <= 1
  BY <1>1, Stops DEF Flatten!SeparatorAt
<1>2. CASE ~(a.depth <= 1)
  <2>1. Running(a, outer) /\ b = a /\ a.depth \in Nat \ {0}
    BY <1>2, IdleOrRunning
  <2>2. Running(a, SetDue(outer, TRUE))
    <3>1. a.depth # 1
      BY <1>2, <2>1
    <3>. QED
      BY <2>1, <3>1, RunsOn
  <2>3. Flatten!SeparatorAt(a) = Flatten!Forward(a)
    BY <1>2 DEF Flatten!SeparatorAt
  <2>. QED
    BY <2>1, <2>2, <2>3, Forwards
<1>. QED
  BY <1>1, <1>2

(* A Some says nothing of where the value is.                              *)
LEMMA SomeAnswers ==
    ASSUME NEW a, NEW b, NEW outer, Bond(a, b, outer)
    PROVE  Answers(Flatten!SomeAt(a), a, b, outer, outer)
<1>. DEFINE r == Flatten!SomeAt(a)
<1>1. CASE r = Flatten!Stop(a)
  BY <1>1, Stops
<1>2. CASE r = Flatten!Swallow(a)
  BY <1>2, Swallows
<1>3. CASE r = Flatten!Forward(a) /\ a.started /\ ~a.finished
  <2>1. Running(a, outer) /\ b = a
    BY <1>3, IdleOrRunning
  <2>. QED
    BY <1>3, <2>1, Forwards
<1>. QED
  BY <1>1, <1>2, <1>3 DEF Flatten!SomeAt

(* A container that is opened makes the adapter one deeper.                *)
LEMMA Deepens ==
    ASSUME NEW c
    PROVE  Flatten!Deeper(Flatten!Forward(c)) = Flatten!Forward([c EXCEPT !.depth = c.depth + 1])
<1>. DEFINE r == [ok |-> TRUE, forward |-> TRUE, a |-> c]
<1>1. r.ok = TRUE /\ r.a = c
  OBVIOUS
<1>2. Flatten!Deeper(r) = [r EXCEPT !.a = [r.a EXCEPT !.depth = IF r.ok THEN r.a.depth + 1 ELSE r.a.depth]]
  BY Zenon DEF Flatten!Deeper
<1>3. Flatten!Deeper(r) = [r EXCEPT !.a = [c EXCEPT !.depth = c.depth + 1]]
  BY <1>1, <1>2
<1>4. \A d : [r EXCEPT !.a = d] = [ok |-> TRUE, forward |-> TRUE, a |-> d]
  <2>1. SUFFICES ASSUME NEW d PROVE [r EXCEPT !.a = d] = [ok |-> TRUE, forward |-> TRUE, a |-> d]
    OBVIOUS
  <2>2. r \in [ok : BOOLEAN, forward : BOOLEAN, a : {c, d}] /\ r.ok /\ r.forward
    OBVIOUS
  <2>. HIDE DEF r
  <2>. DEFINE q == [r EXCEPT !.a = d]
  <2>3. q \in [ok : BOOLEAN, forward : BOOLEAN, a : {c, d}] /\ q.ok /\ q.forward /\ q.a = d
    BY <2>2
  <2>. HIDE DEF q
  <2>4. q = [ok |-> TRUE, forward |-> TRUE, a |-> d]
    BY <2>3
  <2>. QED
    BY <2>4 DEF q
<1>5. Flatten!Deeper(r) = [ok |-> TRUE, forward |-> TRUE, a |-> [c EXCEPT !.depth = c.depth + 1]]
  BY <1>3, <1>4, Zenon
<1>. QED
  BY <1>5, Zenon DEF Flatten!Forward

(* The adapter of a value that ends with nothing in it.                    *)
LEMMA OpenedEnds == [Flatten!Opened EXCEPT !.depth = 0, !.finished = TRUE] = Ended
<1>. DEFINE a == [depth |-> 1, started |-> TRUE, finished |-> FALSE, pending |-> FALSE]
            c == [a EXCEPT !.depth = 0, !.finished = TRUE]
<1>1. a \in Adapters /\ a.started /\ ~a.pending
  BY DEF Adapters
<1>2. a = Flatten!Opened
  BY DEF Flatten!Opened, Flatten!Adapter
<1>. HIDE DEF a
<1>3. c \in Adapters /\ c.depth = 0 /\ c.started /\ c.finished /\ ~c.pending
  BY <1>1 DEF Adapters
<1>. HIDE DEF c
<1>4. c = Ended
  BY <1>3 DEF Adapters, Ended
<1>. QED
  BY <1>2, <1>4, Zenon DEF c

(* begin_array and begin_object: the first is the value itself.            *)
LEMMA BeginAnswers ==
    ASSUME NEW a, NEW b, NEW outer, Bond(a, b, outer), NEW kind \in Kinds
    PROVE  Answers(Flatten!BeginAt(a, kind), a, b, outer, Begin(kind, outer))
<1>. DEFINE r == Flatten!BeginAt(a, kind)
<1>1. CASE kind = "object" /\ ~a.started
  <2>1. outer = Flatten!Outer /\ b = Flatten!Opened
    BY <1>1, IdleOrRunning
  <2>2. Bond(Flatten!Opened, b, outer)
    BY <2>1, OpenedRuns DEF Bond
  <2>3. r = Flatten!Swallow(Flatten!Opened)
    BY <1>1 DEF Flatten!BeginAt
  <2>. QED
    BY <2>2, <2>3, Swallows
<1>2. CASE ~(kind = "object" /\ ~a.started)
  <2>. DEFINE start == Flatten!StartValue(a)
  <2>1. r = Flatten!Deeper(start)
    BY <1>2 DEF Flatten!BeginAt
  <2>2. CASE start = Flatten!Stop(a)
    <3>1. ~r.ok /\ ~r.forward
      BY <2>1, <2>2 DEF Flatten!Deeper, Flatten!Stop
    <3>. QED
      BY <3>1 DEF Answers
  <2>3. CASE start # Flatten!Stop(a)
    <3>1. Running(a, outer) /\ b = a
      BY <2>3, StartAnswers
    <3>2. PICK c \in Adapters :
             /\ start = Flatten!Forward(c)
             /\ c.depth = a.depth /\ c.started /\ ~c.finished /\ ~c.pending
      BY <2>3, StartAnswers
    <3>. DEFINE d == [c EXCEPT !.depth = c.depth + 1]
    <3>3. r = Flatten!Forward(d)
      BY <2>1, <3>2, Deepens
    <3>4. Running(d, Begin(kind, outer))
      BY <3>1, <3>2, RunsDeeper
    <3>. HIDE DEF d, r
    <3>5. Answers(r, a, b, outer, Begin(kind, outer))
      BY <3>1, <3>3, <3>4, Forwards
    <3>. QED
      BY <3>5 DEF r
  <2>. QED
    BY <2>2, <2>3
<1>. QED
  BY <1>1, <1>2

(* end_array and end_object: the last is the value's, and leaves the       *)
(* struct's object as it was found.                                        *)
LEMMA EndAnswers ==
    ASSUME NEW a, NEW b, NEW outer, Bond(a, b, outer), NEW kind \in Kinds
    PROVE  Answers(Flatten!EndAt(a, kind), a, b, outer, End(outer))
<1>. DEFINE r == Flatten!EndAt(a, kind)
<1>1. CASE r = Flatten!Stop(a)
  BY <1>1, Stops
<1>2. CASE r # Flatten!Stop(a)
  <2>1. ~(a.depth <= 1 /\ (kind = "array" \/ a.depth = 0 \/ a.pending))
    BY <1>2 DEF Flatten!EndAt
  <2>2. Running(a, outer) /\ b = a /\ a.depth \in Nat \ {0}
    BY <2>1, IdleOrRunning
  <2>3. CASE a.depth = 1
    <3>1. a = Flatten!Opened /\ outer = Flatten!Outer
      BY <2>1, <2>2, <2>3, RunsOut
    <3>. DEFINE c == [a EXCEPT !.depth = 0, !.finished = TRUE]
    <3>2. c = Ended
      BY <3>1, OpenedEnds
    <3>3. r = Flatten!Swallow(c)
      BY <2>1, <2>3 DEF Flatten!EndAt
    <3>4. Bond(Ended, b, outer)
      BY <2>2, <3>1 DEF Bond
    <3>. HIDE DEF c, r
    <3>5. Answers(r, a, b, outer, End(outer))
      BY <3>2, <3>3, <3>4, Swallows
    <3>. QED
      BY <3>5 DEF r
  <2>4. CASE a.depth # 1
    <3>. DEFINE d == [a EXCEPT !.depth = a.depth - 1]
    <3>1. r = Flatten!Forward(d)
      BY <2>1, <2>2, <2>4 DEF Flatten!EndAt
    <3>2. Running(d, End(outer))
      BY <2>2, <2>4, RunsShallower
    <3>. HIDE DEF d, r
    <3>3. Answers(r, a, b, outer, End(outer))
      BY <2>2, <3>1, <3>2, Forwards
    <3>. QED
      BY <3>3 DEF r
  <2>. QED
    BY <2>3, <2>4
<1>. QED
  BY <1>1, <1>2

(* The inner adapter is set.                                               *)
LEMMA FirstOf ==
    ASSUME NEW a, NEW b, NEW c
    PROVE  /\ [<<a, b>> EXCEPT ![1] = c] = <<c, b>>
           /\ [<<a>> EXCEPT ![1] = c] = <<c>>
OBVIOUS

\* The inner adapter and the one further out are bound to the checker.
Bound(e) ==
    /\ e = [buf |-> e.buf, frames |-> e.frames, outer |-> e.outer, adapters |-> e.adapters]
    /\ \E a, b : /\ Bond(a, b, e.outer)
                 /\ e.adapters = (IF format = "nested" THEN <<a, b>> ELSE <<a>>)

(* The fields of a flattened value's encoder, set one at a time.           *)
LEMMA FlattenFields ==
    ASSUME NEW e, NEW x,
           e = [buf |-> e.buf, frames |-> e.frames, outer |-> e.outer, adapters |-> e.adapters]
    PROVE  /\ [e EXCEPT !.buf = x] =
                [buf |-> x, frames |-> e.frames, outer |-> e.outer, adapters |-> e.adapters]
           /\ [e EXCEPT !.outer = x] =
                [buf |-> e.buf, frames |-> e.frames, outer |-> x, adapters |-> e.adapters]
           /\ [e EXCEPT !.adapters = x] =
                [buf |-> e.buf, frames |-> e.frames, outer |-> e.outer, adapters |-> x]
<1>1. PICK b, f, o, a : e = [buf |-> b, frames |-> f, outer |-> o, adapters |-> a]
  OBVIOUS
<1>2. e.buf = b /\ e.frames = f /\ e.outer = o /\ e.adapters = a
  BY <1>1
<1>3. [[buf |-> b, frames |-> f, outer |-> o, adapters |-> a] EXCEPT !.buf = x] =
      [buf |-> x, frames |-> f, outer |-> o, adapters |-> a]
  OBVIOUS
<1>4. [[buf |-> b, frames |-> f, outer |-> o, adapters |-> a] EXCEPT !.outer = x] =
      [buf |-> b, frames |-> f, outer |-> x, adapters |-> a]
  OBVIOUS
<1>5. [[buf |-> b, frames |-> f, outer |-> o, adapters |-> a] EXCEPT !.adapters = x] =
      [buf |-> b, frames |-> f, outer |-> o, adapters |-> x]
  OBVIOUS
<1>. QED
  BY <1>1, <1>2, <1>3, <1>4, <1>5, Zenon

\* Through and Pass, from the answers r1 and r2 of the two adapters.
ThroughOf(adapters, r1, r2) ==
    IF Len(adapters) = 1 \/ ~r1.forward
    THEN [ok |-> r1.ok, forward |-> r1.forward, adapters |-> [adapters EXCEPT ![1] = r1.a]]
    ELSE [ok |-> r2.ok, forward |-> r2.forward, adapters |-> <<r1.a, r2.a>>]

PassOf(e, r1, r2, allowed, outer, byte) ==
    LET r == ThroughOf(e.adapters, r1, r2)
    IN  IF ~r.ok \/ (r.forward /\ ~allowed) THEN Flatten!Refused(e)
        ELSE IF ~r.forward THEN Flatten!Done([e EXCEPT !.adapters = r.adapters])
        ELSE Flatten!Done(Flatten!Push([e EXCEPT !.adapters = r.adapters, !.outer = outer], byte))

(* What the adapters answer, together.                                     *)
LEMMA ThroughAnswers ==
    ASSUME NEW a, NEW b, NEW adapters, NEW r1, NEW r2, NEW outer, NEW outer2,
           adapters = (IF format = "nested" THEN <<a, b>> ELSE <<a>>),
           Answers(r1, a, b, outer, outer2),
           format = "nested" /\ r1.forward => r2 = r1
    PROVE  LET r == ThroughOf(adapters, r1, r2)
           IN  /\ r.ok /\ ~r.forward => \E c : /\ Bond(c, b, outer)
                                               /\ r.adapters = (IF format = "nested" THEN <<c, b>> ELSE <<c>>)
               /\ r.forward => \E c : /\ Bond(c, c, outer2)
                                      /\ r.adapters = (IF format = "nested" THEN <<c, c>> ELSE <<c>>)
<1>. DEFINE r == ThroughOf(adapters, r1, r2)
<1>1. CASE ~r1.forward
  <2>1. r = [ok |-> r1.ok, forward |-> r1.forward, adapters |-> [adapters EXCEPT ![1] = r1.a]]
    BY <1>1 DEF ThroughOf
  <2>. HIDE DEF r
  <2>2. r.ok = r1.ok /\ r.forward = r1.forward /\ r.adapters = [adapters EXCEPT ![1] = r1.a]
    BY <2>1
  <2>3. [adapters EXCEPT ![1] = r1.a] = (IF format = "nested" THEN <<r1.a, b>> ELSE <<r1.a>>)
    <3>1. CASE format = "nested"
      <4>1. adapters = <<a, b>>
        BY <3>1
      <4>2. [adapters EXCEPT ![1] = r1.a] = <<r1.a, b>>
        BY <4>1, FirstOf
      <4>. QED
        BY <3>1, <4>2, Zenon
    <3>2. CASE format # "nested"
      <4>1. adapters = <<a>>
        BY <3>2
      <4>2. [adapters EXCEPT ![1] = r1.a] = <<r1.a>>
        BY <4>1, FirstOf
      <4>. QED
        BY <3>2, <4>2, Zenon
    <3>. QED
      BY <3>1, <3>2
  <2>4. r1.ok => Bond(r1.a, b, outer)
    BY <1>1 DEF Answers
  <2>5. ~r.forward /\ (r.ok => r1.ok)
    BY <1>1, <2>2, Zenon
  <2>. QED
    BY <2>2, <2>3, <2>4, <2>5, Zenon DEF r
<1>2. CASE r1.forward
  <2>1. Bond(r1.a, r1.a, outer2)
    BY <1>2 DEF Answers
  <2>2. CASE format = "nested"
    <3>1. r2 = r1 /\ adapters = <<a, b>> /\ Len(adapters) = 2
      BY <1>2, <2>2
    <3>2. r = [ok |-> r1.ok, forward |-> r1.forward, adapters |-> <<r1.a, r1.a>>]
      <4>1. Len(adapters) # 1 /\ ~(Len(adapters) = 1 \/ ~r1.forward)
        BY <1>2, <3>1
      <4>. QED
        BY <3>1, <4>1, Zenon DEF ThroughOf
    <3>. HIDE DEF r
    <3>3. r.forward = r1.forward /\ r.adapters = <<r1.a, r1.a>>
      BY <3>2
    <3>4. r.forward
      BY <1>2, <3>3, Zenon
    <3>. QED
      BY <2>1, <2>2, <3>3, <3>4, Zenon DEF r
  <2>3. CASE format # "nested"
    <3>1. adapters = <<a>> /\ Len(adapters) = 1
      BY <2>3
    <3>2. r = [ok |-> r1.ok, forward |-> r1.forward, adapters |-> [adapters EXCEPT ![1] = r1.a]]
      BY <3>1 DEF ThroughOf
    <3>3. [adapters EXCEPT ![1] = r1.a] = <<r1.a>>
      BY <3>1, FirstOf
    <3>. HIDE DEF r
    <3>4. r.forward = r1.forward /\ r.adapters = <<r1.a>>
      BY <3>2, <3>3
    <3>5. r.forward
      BY <1>2, <3>4, Zenon
    <3>. QED
      BY <2>1, <2>3, <3>4, <3>5, Zenon DEF r
  <2>. QED
    BY <2>2, <2>3
<1>. QED
  BY <1>1, <1>2

(* A call on a flattened value leaves the adapters bound.                  *)
LEMMA PassBinds ==
    ASSUME NEW a, NEW b, NEW e, Bound(e), NEW r1, NEW r2, NEW outer2, NEW allowed, NEW byte,
           e.adapters = (IF format = "nested" THEN <<a, b>> ELSE <<a>>),
           Answers(r1, a, b, e.outer, outer2),
           format = "nested" /\ r1.forward => r2 = r1
    PROVE  Bound(PassOf(e, r1, r2, allowed, outer2, byte).e)
<1>. DEFINE r == ThroughOf(e.adapters, r1, r2)
            p == PassOf(e, r1, r2, allowed, outer2, byte)
<1>1. /\ r.ok /\ ~r.forward => \E c : /\ Bond(c, b, e.outer)
                                      /\ r.adapters = (IF format = "nested" THEN <<c, b>> ELSE <<c>>)
      /\ r.forward => \E c : /\ Bond(c, c, outer2)
                             /\ r.adapters = (IF format = "nested" THEN <<c, c>> ELSE <<c>>)
  BY ThroughAnswers
<1>2. p = IF ~r.ok \/ (r.forward /\ ~allowed) THEN Flatten!Refused(e)
          ELSE IF ~r.forward THEN Flatten!Done([e EXCEPT !.adapters = r.adapters])
          ELSE Flatten!Done(Flatten!Push([e EXCEPT !.adapters = r.adapters, !.outer = outer2], byte))
  BY Zenon DEF PassOf
<1>. HIDE DEF r, p
<1>3. \A x : Flatten!Refused(x).e = x /\ Flatten!Done(x).e = x
  BY DEF Flatten!Refused, Flatten!Done
<1>4. e = [buf |-> e.buf, frames |-> e.frames, outer |-> e.outer, adapters |-> e.adapters]
  BY DEF Bound
<1>5. CASE ~r.ok \/ (r.forward /\ ~allowed)
  <2>1. p.e = e
    BY <1>2, <1>3, <1>5, Zenon
  <2>. QED
    BY <2>1 DEF p
<1>6. CASE r.ok /\ ~r.forward
  <2>. DEFINE q == [e EXCEPT !.adapters = r.adapters]
  <2>1. p.e = q
    BY <1>2, <1>3, <1>6, Zenon
  <2>2. q = [buf |-> e.buf, frames |-> e.frames, outer |-> e.outer, adapters |-> r.adapters]
    BY <1>4, FlattenFields
  <2>. HIDE DEF q
  <2>3. /\ q = [buf |-> q.buf, frames |-> q.frames, outer |-> q.outer, adapters |-> q.adapters]
        /\ q.outer = e.outer /\ q.adapters = r.adapters
    BY <2>2
  <2>4. Bound(q)
    BY <1>1, <1>6, <2>3, Zenon DEF Bound
  <2>. QED
    BY <2>1, <2>4 DEF p
<1>7. CASE r.ok /\ r.forward /\ allowed
  <2>. DEFINE q == [e EXCEPT !.adapters = r.adapters]
              o == [q EXCEPT !.outer = outer2]
              z == [o EXCEPT !.buf = o.buf \o byte]
  <2>1. p.e = z
    BY <1>2, <1>3, <1>7, Zenon DEF Flatten!Push
  <2>2. q = [buf |-> e.buf, frames |-> e.frames, outer |-> e.outer, adapters |-> r.adapters]
    BY <1>4, FlattenFields
  <2>. HIDE DEF q
  <2>3. o = [buf |-> e.buf, frames |-> e.frames, outer |-> outer2, adapters |-> r.adapters]
    <3>1. /\ q = [buf |-> q.buf, frames |-> q.frames, outer |-> q.outer, adapters |-> q.adapters]
          /\ q.buf = e.buf /\ q.frames = e.frames /\ q.adapters = r.adapters
      BY <2>2
    <3>2. o = [buf |-> q.buf, frames |-> q.frames, outer |-> outer2, adapters |-> q.adapters]
      BY <3>1, FlattenFields, Zenon
    <3>. QED
      BY <3>1, <3>2, Zenon
  <2>. HIDE DEF o
  <2>4. z = [buf |-> o.buf \o byte, frames |-> e.frames, outer |-> outer2, adapters |-> r.adapters]
    <3>1. /\ o = [buf |-> o.buf, frames |-> o.frames, outer |-> o.outer, adapters |-> o.adapters]
          /\ o.outer = outer2 /\ o.frames = e.frames /\ o.adapters = r.adapters
      BY <2>3
    <3>. QED
      BY <3>1, FlattenFields, Zenon
  <2>. HIDE DEF z
  <2>5. /\ z = [buf |-> z.buf, frames |-> z.frames, outer |-> z.outer, adapters |-> z.adapters]
        /\ z.outer = outer2 /\ z.adapters = r.adapters
    BY <2>4
  <2>6. Bound(z)
    BY <1>1, <1>7, <2>5, Zenon DEF Bound
  <2>. QED
    BY <2>1, <2>6 DEF p
<1>. QED
  BY <1>5, <1>6, <1>7

(* The two adapters, by their places.                                      *)
LEMMA AdaptersOf ==
    ASSUME NEW a, NEW b, NEW adapters,
           adapters = (IF format = "nested" THEN <<a, b>> ELSE <<a>>)
    PROVE  /\ adapters[1] = a
           /\ format = "nested" => adapters[2] = b
<1>1. CASE format = "nested"
  BY <1>1
<1>2. CASE format # "nested"
  BY <1>2
<1>. QED
  BY <1>1, <1>2

(* A flattened value and the order it owes.                                *)

\* The adapter a and the checker behind it have kept the value where the
\* checker s, which it would have had for itself, has it: before its first call,
\* behind its last, or in the same containers.
Keeps(a, s, outer) ==
    \/ a = Flatten!NewAdapter /\ s = NewState
    \/ a = Ended /\ s = [frames |-> <<>>, root |-> TRUE]
    \/ Running(a, outer) /\ s = outer

\* A call that the inner adapter answers with r1, of which the value's own checker
\* asks ok before it goes on to s2: what gets through is what that one lets through.
Sides(r1, ok, s2, outer, allowed, outer2) ==
    /\ r1.ok /\ ~r1.forward => ok /\ Keeps(r1.a, s2, outer)
    /\ r1.forward /\ allowed => ok /\ Keeps(r1.a, s2, outer2)

(* An adapter that has not begun is none that has, and none that ended.    *)
LEMMA IdleIsNotOpened ==
    /\ Flatten!NewAdapter # Flatten!Opened /\ Ended # Flatten!Opened
    /\ Flatten!NewAdapter # Ended
    /\ \A outer : ~Running(Flatten!NewAdapter, outer) /\ ~Running(Ended, outer)
<1>1. /\ ~Flatten!NewAdapter.started /\ Flatten!Opened.started
      /\ ~Flatten!Opened.finished /\ Ended.finished /\ Ended.started
  BY DEF Flatten!NewAdapter, Flatten!Opened, Flatten!Adapter, Ended
<1>. QED
  BY <1>1 DEF Running

(* While the value is in its object, it is where the struct's checker says. *)
LEMMA RunningKeeps ==
    ASSUME NEW a, NEW s, NEW outer, Keeps(a, s, outer), Running(a, outer)
    PROVE  s = outer
BY IdleIsNotOpened DEF Keeps

(* What is forwarded, the checker of the struct asks, and moves by.        *)
LEMMA ForwardSides ==
    ASSUME NEW r1, NEW a, NEW b, NEW s, NEW outer, NEW outer2, NEW allowed,
           Bond(a, b, outer), Keeps(a, s, outer), Answers(r1, a, b, outer, outer2), r1.forward
    PROVE  s = outer /\ Keeps(r1.a, outer2, outer2)
<1>1. b = a /\ Bond(r1.a, r1.a, outer2)
  BY DEF Answers
<1>2. Running(a, outer) /\ Running(r1.a, outer2)
  BY <1>1, IdleIsNotOpened DEF Bond
<1>. QED
  BY <1>2, RunningKeeps DEF Keeps

(* A method that never answers for itself.                                 *)
LEMMA NeverSwallows ==
    ASSUME NEW r1, NEW a, NEW b, NEW s, NEW outer, NEW outer2,
           Bond(a, b, outer), Keeps(a, s, outer), Answers(r1, a, b, outer, outer2),
           r1.ok => r1.forward,
           NEW ok, NEW allowed, NEW s2, s = outer => (allowed => ok) /\ s2 = outer2
    PROVE  Sides(r1, ok, s2, outer, allowed, outer2)
<1>1. r1.forward => s = outer /\ Keeps(r1.a, outer2, outer2)
  BY ForwardSides
<1>. QED
  BY <1>1 DEF Sides

(* Keys, separators and the values that are not containers are forwarded or *)
(* stopped.                                                                *)
LEMMA ForwardOrStop ==
    ASSUME NEW a
    PROVE  /\ Flatten!StartValue(a).ok => Flatten!StartValue(a).forward
           /\ Flatten!KeyAt(a).ok => Flatten!KeyAt(a).forward
           /\ Flatten!SeparatorAt(a).ok => Flatten!SeparatorAt(a).forward
BY DEF Flatten!StartValue, Flatten!KeyAt, Flatten!SeparatorAt, Flatten!Stop, Flatten!Forward

(* The fields of a checker, set one at a time.                             *)
LEMMA CheckerFields ==
    ASSUME NEW F, NEW s \in [frames : F, root : BOOLEAN], NEW x \in F, NEW r \in BOOLEAN
    PROVE  /\ s.root = TRUE => [s EXCEPT !.frames = x] = [frames |-> x, root |-> TRUE]
           /\ [s EXCEPT !.root = r] = [frames |-> s.frames, root |-> r]
<1>. DEFINE u == [s EXCEPT !.frames = x]
            v == [s EXCEPT !.root = r]
<1>1. /\ u \in [frames : F, root : BOOLEAN] /\ u.frames = x /\ u.root = s.root
      /\ v \in [frames : F, root : BOOLEAN] /\ v.frames = s.frames /\ v.root = r
  OBVIOUS
<1>. HIDE DEF u, v
<1>2. (s.root = TRUE => u = [frames |-> x, root |-> TRUE]) /\ v = [frames |-> s.frames, root |-> r]
  BY <1>1
<1>. QED
  BY <1>2, Zenon DEF u, v

(* The object a value begins with would be the first frame of its checker, *)
(* and looks to it as the struct's does to the struct's.                   *)
LEMMA RootObject ==
    /\ ValueOk(TRUE, NewState) /\ Begin("object", NewState) = Flatten!Outer
    /\ EndOk("object", Flatten!Outer) /\ End(Flatten!Outer) = [frames |-> <<>>, root |-> TRUE]
<1>. DEFINE f == [kind |-> "object", due |-> FALSE]
            none == <<>>
            one == <<f>>
            s == NewState
            v == [s EXCEPT !.root = TRUE]
            o == Flatten!Outer
<1>1. /\ f.kind = "object" /\ ~f.due /\ Append(none, f) = one
      /\ Len(one) = 1 /\ one[1] = f /\ one # <<>> /\ Front(one) = none
  BY DEF Front
<1>2. s = [frames |-> none, root |-> FALSE] /\ o = [frames |-> one, root |-> TRUE]
  BY DEF NewState, Flatten!Outer
<1>. HIDE DEF s, o, f, one
<1>3. /\ s \in [frames : {none, one}, root : BOOLEAN] /\ s.frames = none /\ s.root = FALSE
      /\ o \in [frames : {none, one}, root : BOOLEAN] /\ o.frames = one /\ o.root = TRUE
  BY <1>2
<1>4. AtRoot(s) /\ ValueOk(TRUE, s) /\ Value(s) = v
  BY <1>3 DEF AtRoot, ValueOk, Value
<1>. HIDE DEF none
<1>5. v = [frames |-> none, root |-> TRUE]
  BY <1>3, CheckerFields, Zenon
<1>. HIDE DEF v
<1>6. Begin("object", s) = o
  <2>1. v.frames = none
    BY <1>5
  <2>2. Begin("object", s) = [v EXCEPT !.frames = Append(v.frames, f)]
    BY <1>4, Zenon DEF Begin, f
  <2>3. [v EXCEPT !.frames = one] = [frames |-> one, root |-> TRUE]
    <3>1. v \in [frames : {none, one}, root : BOOLEAN] /\ v.root = TRUE /\ one \in {none, one}
      BY <1>5
    <3>. QED
      BY <3>1, CheckerFields, Zenon
  <2>. QED
    BY <1>1, <1>2, <2>1, <2>2, <2>3, Zenon
<1>7. ~AtRoot(o) /\ Top(o) = f
  BY <1>1, <1>3 DEF AtRoot, Top, Last
<1>8. EndOk("object", o)
  BY <1>1, <1>7 DEF EndOk
<1>9. End(o) = [o EXCEPT !.frames = none]
  BY <1>1, <1>3, <1>7, Zenon DEF End
<1>10. [o EXCEPT !.frames = none] = [frames |-> none, root |-> TRUE]
  <2>1. none \in {none, one}
    OBVIOUS
  <2>. QED
    BY <1>3, <2>1, CheckerFields, Zenon
<1>. QED
  BY <1>4, <1>6, <1>8, <1>9, <1>10, Zenon DEF s, o, none

(* begin_array and begin_object.                                           *)
LEMMA BeginSides ==
    ASSUME NEW a, NEW b, NEW s, NEW outer, Bond(a, b, outer), Keeps(a, s, outer), NEW kind \in Kinds
    PROVE  Sides(Flatten!BeginAt(a, kind), ValueOk(TRUE, s), Begin(kind, s),
                 outer, ValueOk(TRUE, outer), Begin(kind, outer))
<1>. DEFINE r == Flatten!BeginAt(a, kind)
<1>1. Answers(r, a, b, outer, Begin(kind, outer))
  BY BeginAnswers
<1>2. CASE kind = "object" /\ ~a.started
  <2>1. r = Flatten!Swallow(Flatten!Opened)
    BY <1>2 DEF Flatten!BeginAt
  <2>2. a = Flatten!NewAdapter /\ outer = Flatten!Outer
    BY <1>2, IdleOrRunning
  <2>3. s = NewState
    BY <2>2, IdleIsNotOpened DEF Keeps
  <2>4. ValueOk(TRUE, s) /\ Begin(kind, s) = Flatten!Outer
    BY <1>2, <2>3, RootObject
  <2>5. Keeps(Flatten!Opened, Begin(kind, s), outer)
    BY <2>2, <2>4, OpenedRuns DEF Keeps
  <2>6. ~r.forward /\ r.a = Flatten!Opened
    BY <2>1 DEF Flatten!Swallow
  <2>. HIDE DEF r
  <2>7. Sides(r, ValueOk(TRUE, s), Begin(kind, s), outer, ValueOk(TRUE, outer), Begin(kind, outer))
    BY <2>4, <2>5, <2>6 DEF Sides
  <2>. QED
    BY <2>7 DEF r
<1>3. CASE ~(kind = "object" /\ ~a.started)
  <2>. DEFINE start == Flatten!StartValue(a)
  <2>1. r = Flatten!Deeper(start)
    BY <1>3 DEF Flatten!BeginAt
  <2>2. r.ok => r.forward
    <3>1. CASE start = Flatten!Stop(a)
      BY <2>1, <3>1 DEF Flatten!Deeper, Flatten!Stop
    <3>2. CASE start # Flatten!Stop(a)
      <4>1. PICK c \in Adapters : start = Flatten!Forward(c)
        BY <3>2, StartAnswers
      <4>2. r = Flatten!Forward([c EXCEPT !.depth = c.depth + 1])
        BY <2>1, <4>1, Deepens
      <4>. QED
        BY <4>2 DEF Flatten!Forward
    <3>. QED
      BY <3>1, <3>2
  <2>. HIDE DEF r
  <2>3. s = outer => (ValueOk(TRUE, outer) => ValueOk(TRUE, s)) /\ Begin(kind, s) = Begin(kind, outer)
    OBVIOUS
  <2>4. Sides(r, ValueOk(TRUE, s), Begin(kind, s), outer, ValueOk(TRUE, outer), Begin(kind, outer))
    BY <1>1, <2>2, <2>3, NeverSwallows, Zenon
  <2>. QED
    BY <2>4 DEF r
<1>. QED
  BY <1>2, <1>3

(* end_array and end_object.                                               *)
LEMMA EndSides ==
    ASSUME NEW a, NEW b, NEW s, NEW outer, Bond(a, b, outer), Keeps(a, s, outer), NEW kind \in Kinds
    PROVE  Sides(Flatten!EndAt(a, kind), EndOk(kind, s), End(s), outer, EndOk(kind, outer), End(outer))
<1>. DEFINE r == Flatten!EndAt(a, kind)
<1>1. Answers(r, a, b, outer, End(outer))
  BY EndAnswers
<1>2. CASE r.ok => r.forward
  <2>. HIDE DEF r
  <2>1. s = outer => (EndOk(kind, outer) => EndOk(kind, s)) /\ End(s) = End(outer)
    OBVIOUS
  <2>2. Sides(r, EndOk(kind, s), End(s), outer, EndOk(kind, outer), End(outer))
    BY <1>1, <1>2, <2>1, NeverSwallows, Zenon
  <2>. QED
    BY <2>2 DEF r
<1>3. CASE r.ok /\ ~r.forward
  <2>1. ~(a.depth <= 1 /\ (kind = "array" \/ a.depth = 0 \/ a.pending))
    BY <1>3 DEF Flatten!EndAt, Flatten!Stop
  <2>2. Running(a, outer)
    BY <2>1, IdleOrRunning
  <2>3. a.depth = 1
    BY <1>3, <2>1 DEF Flatten!EndAt, Flatten!Forward
  <2>4. a = Flatten!Opened /\ outer = Flatten!Outer /\ s = outer
    BY <2>1, <2>2, <2>3, RunsOut, RunningKeeps
  <2>5. kind = "object"
    BY <2>1, <2>3 DEF Kinds
  <2>6. EndOk(kind, s) /\ End(s) = [frames |-> <<>>, root |-> TRUE]
    BY <2>4, <2>5, RootObject
  <2>. DEFINE c == [a EXCEPT !.depth = 0, !.finished = TRUE]
  <2>7. c = Ended
    BY <2>4, OpenedEnds
  <2>8. r = Flatten!Swallow(c)
    BY <2>1, <2>3 DEF Flatten!EndAt
  <2>. HIDE DEF c
  <2>9. ~r.forward /\ r.a = Ended
    BY <2>7, <2>8 DEF Flatten!Swallow
  <2>. HIDE DEF r
  <2>10. Sides(r, EndOk(kind, s), End(s), outer, EndOk(kind, outer), End(outer))
    BY <2>6, <2>9 DEF Sides, Keeps
  <2>. QED
    BY <2>10 DEF r
<1>. QED
  BY <1>2, <1>3

\* The call is one method of the adapters, which answers as above, in front of
\* one of the checker's.
Answered(event, a, b) ==
    \E r1, r2, outer2, allowed, byte :
        /\ EmitFlatten(event) = PassOf(enc, r1, r2, allowed, outer2, byte)
        /\ Answers(r1, a, b, enc.outer, outer2)
        /\ format = "nested" /\ a = b => r2 = r1
        /\ event.call # "some" /\ Keeps(a, st, enc.outer) =>
              Sides(r1, Allowed(event), Tracked(event), enc.outer, allowed, outer2)
        /\ event.call = "some" => r1.a = a /\ outer2 = enc.outer

(* So is every call on a flattened value.                                  *)
LEMMA EveryMethod ==
    ASSUME NEW event \in Calls, NEW a, NEW b, Bond(a, b, enc.outer),
           enc.adapters = (IF format = "nested" THEN <<a, b>> ELSE <<a>>)
    PROVE  Answered(event, a, b)
<1>. DEFINE i == enc.adapters[1]
            j == enc.adapters[2]
<1>2. i = a /\ (format = "nested" => j = b)
  BY AdaptersOf
<1>. HIDE DEF i, j
<1>3. ASSUME NEW r1, NEW r2, NEW outer2, NEW allowed, NEW byte,
             EmitFlatten(event) = PassOf(enc, r1, r2, allowed, outer2, byte),
             Answers(r1, a, b, enc.outer, outer2), format = "nested" /\ a = b => r2 = r1,
             event.call # "some" /\ Keeps(a, st, enc.outer) =>
                Sides(r1, Allowed(event), Tracked(event), enc.outer, allowed, outer2),
             event.call = "some" => r1.a = a /\ outer2 = enc.outer
      PROVE  Answered(event, a, b)
  BY <1>3, Zenon DEF Answered
<1>4. CASE event.call = "separator"
  <2>1. event.call \notin {"object_key", "some"} \cup Begins \cup Ends
    BY <1>4 DEF Begins, Ends
  <2>2. EmitFlatten(event) =
            PassOf(enc, Flatten!SeparatorAt(i), Flatten!SeparatorAt(j), Flatten!SeparatorOk(enc.outer),
                   Flatten!Separator(enc.outer), <<Flatten!Plain("separator")>>)
    BY <1>4, <2>1, Zenon DEF EmitFlatten, Flatten!PutSeparator, Flatten!Pass, Flatten!Through, PassOf, ThroughOf, i, j
  <2>3. Answers(Flatten!SeparatorAt(i), a, b, enc.outer, Flatten!Separator(enc.outer))
    BY <1>2, SameChecker, SeparatorAnswers
  <2>4. Allowed(event) = SeparatorOk(st) /\ Tracked(event) = SetDue(st, TRUE)
    BY <1>4, <2>1 DEF Allowed, Tracked, Separator, Markers
  <2>5. /\ Flatten!SeparatorOk(enc.outer) <=> SeparatorOk(enc.outer)
        /\ Flatten!Separator(enc.outer) = SetDue(enc.outer, TRUE)
    BY SameChecker
  <2>6. ASSUME Keeps(a, st, enc.outer)
        PROVE  Sides(Flatten!SeparatorAt(i), Allowed(event), Tracked(event), enc.outer,
                     Flatten!SeparatorOk(enc.outer), Flatten!Separator(enc.outer))
    <3>1. st = enc.outer => /\ Flatten!SeparatorOk(enc.outer) => Allowed(event)
                            /\ Tracked(event) = Flatten!Separator(enc.outer)
      BY <2>4, <2>5
    <3>2. Flatten!SeparatorAt(i).ok => Flatten!SeparatorAt(i).forward
      BY ForwardOrStop
    <3>. QED
      BY <2>3, <2>6, <3>1, <3>2, NeverSwallows
  <2>. QED
    BY <1>2, <1>3, <2>1, <2>2, <2>3, <2>6
<1>5. CASE event.call = "object_key"
  <2>1. event.call \notin {"separator", "some"} \cup Begins \cup Ends
    BY <1>5 DEF Begins, Ends
  <2>2. EmitFlatten(event) =
            PassOf(enc, Flatten!KeyAt(i), Flatten!KeyAt(j), Flatten!KeyOk(enc.outer),
                   Flatten!Key(enc.outer), <<Flatten!Plain(event.key)>>)
    BY <1>5, <2>1, Zenon DEF EmitFlatten, Flatten!PutKey, Flatten!Pass, Flatten!Through, PassOf, ThroughOf, i, j
  <2>3. Answers(Flatten!KeyAt(i), a, b, enc.outer, Flatten!Key(enc.outer))
    BY <1>2, SameChecker, KeyAnswers
  <2>4. Allowed(event) = KeyOk(st) /\ Tracked(event) = SetDue(st, TRUE)
    BY <1>5, <2>1 DEF Allowed, Tracked, Key, Markers
  <2>5. /\ Flatten!KeyOk(enc.outer) <=> KeyOk(enc.outer)
        /\ Flatten!Key(enc.outer) = SetDue(enc.outer, TRUE)
    BY SameChecker
  <2>6. ASSUME Keeps(a, st, enc.outer)
        PROVE  Sides(Flatten!KeyAt(i), Allowed(event), Tracked(event), enc.outer,
                     Flatten!KeyOk(enc.outer), Flatten!Key(enc.outer))
    <3>1. st = enc.outer => /\ Flatten!KeyOk(enc.outer) => Allowed(event)
                            /\ Tracked(event) = Flatten!Key(enc.outer)
      BY <2>4, <2>5
    <3>2. Flatten!KeyAt(i).ok => Flatten!KeyAt(i).forward
      BY ForwardOrStop
    <3>. QED
      BY <2>3, <2>6, <3>1, <3>2, NeverSwallows
  <2>. QED
    BY <1>2, <1>3, <2>1, <2>2, <2>3, <2>6
<1>6. CASE event.call \in Ends
  <2>. DEFINE kind == KindOf(event.call)
  <2>1. kind \in Kinds /\ event.call \notin {"separator", "object_key", "some"} \cup Begins
    BY <1>6, CallFacts DEF Ends, Begins
  <2>2. Allowed(event) = EndOk(kind, st) /\ Tracked(event) = End(st)
    BY <1>6, <2>1 DEF Allowed, Tracked, Markers, Ends
  <2>. HIDE DEF kind
  <2>3. EmitFlatten(event) =
            PassOf(enc, Flatten!EndAt(i, kind), Flatten!EndAt(j, kind), Flatten!EndOk(kind, enc.outer),
                   Flatten!End(enc.outer), <<Flatten!EndByte(kind)>>)
    BY <1>6, <2>1, Zenon
       DEF EmitFlatten, Flatten!EndContainer, Flatten!Pass, Flatten!Through, PassOf, ThroughOf, i, j, kind
  <2>4. Answers(Flatten!EndAt(i, kind), a, b, enc.outer, Flatten!End(enc.outer))
    BY <1>2, <2>1, SameChecker, EndAnswers
  <2>5. ASSUME Keeps(a, st, enc.outer)
        PROVE  Sides(Flatten!EndAt(i, kind), Allowed(event), Tracked(event), enc.outer,
                     Flatten!EndOk(kind, enc.outer), Flatten!End(enc.outer))
    <3>1. Sides(Flatten!EndAt(a, kind), EndOk(kind, st), End(st), enc.outer,
                EndOk(kind, enc.outer), End(enc.outer))
      BY <2>1, <2>5, EndSides
    <3>2. (Flatten!EndOk(kind, enc.outer) <=> EndOk(kind, enc.outer)) /\ Flatten!End(enc.outer) = End(enc.outer)
      BY SameChecker
    <3>. QED
      BY <1>2, <2>2, <3>1, <3>2 DEF Sides
  <2>. QED
    BY <1>2, <1>3, <2>1, <2>3, <2>4, <2>5
<1>7. CASE event.call \in Begins
  <2>. DEFINE kind == KindOf(event.call)
  <2>1. kind \in Kinds /\ event.call \notin {"separator", "object_key", "some"} \cup Ends
    BY <1>7, CallFacts DEF Ends, Begins
  <2>2. Allowed(event) = ValueOk(TRUE, st) /\ Tracked(event) = Begin(kind, st)
    BY <1>7, <2>1 DEF Allowed, Tracked, Markers
  <2>. HIDE DEF kind
  <2>3. EmitFlatten(event) =
            PassOf(enc, Flatten!BeginAt(i, kind), Flatten!BeginAt(j, kind), Flatten!ValueOk(TRUE, enc.outer),
                   Flatten!Begin(kind, enc.outer), <<Flatten!Plain(kind)>>)
    BY <1>7, <2>1, Zenon
       DEF EmitFlatten, Flatten!BeginContainer, Flatten!Pass, Flatten!Through, PassOf, ThroughOf, i, j, kind
  <2>4. Answers(Flatten!BeginAt(i, kind), a, b, enc.outer, Flatten!Begin(kind, enc.outer))
    BY <1>2, <2>1, SameChecker, BeginAnswers
  <2>5. ASSUME Keeps(a, st, enc.outer)
        PROVE  Sides(Flatten!BeginAt(i, kind), Allowed(event), Tracked(event), enc.outer,
                     Flatten!ValueOk(TRUE, enc.outer), Flatten!Begin(kind, enc.outer))
    <3>1. Sides(Flatten!BeginAt(a, kind), ValueOk(TRUE, st), Begin(kind, st), enc.outer,
                ValueOk(TRUE, enc.outer), Begin(kind, enc.outer))
      BY <2>1, <2>5, BeginSides
    <3>2. /\ Flatten!ValueOk(TRUE, enc.outer) <=> ValueOk(TRUE, enc.outer)
          /\ Flatten!Begin(kind, enc.outer) = Begin(kind, enc.outer)
      BY SameChecker
    <3>. QED
      BY <1>2, <2>2, <3>1, <3>2 DEF Sides
  <2>. QED
    BY <1>2, <1>3, <2>1, <2>3, <2>4, <2>5
<1>8. CASE event.call = "some"
  <2>1. event.call \notin Begins \cup Ends
    BY <1>8 DEF Begins, Ends
  <2>2. EmitFlatten(event) =
            PassOf(enc, Flatten!SomeAt(i), Flatten!SomeAt(j), TRUE, enc.outer, <<>>)
    BY <1>8, <2>1, Zenon DEF EmitFlatten, Flatten!Some, Flatten!Pass, Flatten!Through, PassOf, ThroughOf, i, j
  <2>3. Answers(Flatten!SomeAt(i), a, b, enc.outer, enc.outer)
    BY <1>2, SomeAnswers
  <2>4. Flatten!SomeAt(i).a = a
    BY <1>2 DEF Flatten!SomeAt, Flatten!Stop, Flatten!Forward, Flatten!Swallow
  <2>. QED
    BY <1>2, <1>3, <1>8, <2>2, <2>3, <2>4
<1>9. CASE event.call \in Scalars
  <2>1. event.call \notin {"separator", "object_key", "some"} \cup Begins \cup Ends
    BY <1>9 DEF Scalars, Begins, Ends
  <2>2. EmitFlatten(event) =
            PassOf(enc, Flatten!StartValue(i), Flatten!StartValue(j), Flatten!ValueOk(TRUE, enc.outer),
                   Flatten!Value(enc.outer), <<Flatten!Plain(event.call)>>)
    BY <2>1, Zenon DEF EmitFlatten, Flatten!Scalar, Flatten!Pass, Flatten!Through, PassOf, ThroughOf, i, j
  <2>3. Answers(Flatten!StartValue(i), a, b, enc.outer, Flatten!Value(enc.outer))
    <3>1. Flatten!Value(enc.outer) = Value(enc.outer)
      BY SameChecker
    <3>2. Answers(Flatten!StartValue(a), a, b, enc.outer, Value(enc.outer))
      BY StartAnswers
    <3>. QED
      BY <1>2, <3>1, <3>2
  <2>4. Allowed(event) = ValueOk(TRUE, st) /\ Tracked(event) = Value(st)
    BY <2>1 DEF Allowed, Tracked, Markers
  <2>5. (Flatten!ValueOk(TRUE, enc.outer) <=> ValueOk(TRUE, enc.outer)) /\ Flatten!Value(enc.outer) = Value(enc.outer)
    BY SameChecker
  <2>6. ASSUME Keeps(a, st, enc.outer)
        PROVE  Sides(Flatten!StartValue(i), Allowed(event), Tracked(event), enc.outer,
                     Flatten!ValueOk(TRUE, enc.outer), Flatten!Value(enc.outer))
    <3>1. st = enc.outer => /\ Flatten!ValueOk(TRUE, enc.outer) => Allowed(event)
                            /\ Tracked(event) = Flatten!Value(enc.outer)
      BY <2>4, <2>5
    <3>2. Flatten!StartValue(i).ok => Flatten!StartValue(i).forward
      BY ForwardOrStop
    <3>. QED
      BY <1>2, <2>3, <2>6, <3>1, <3>2, NeverSwallows
  <2>. QED
    BY <1>2, <1>3, <2>1, <2>2, <2>3, <2>6
<1>. QED
  BY <1>4, <1>5, <1>6, <1>7, <1>8, <1>9, CallFacts DEF Markers

(* Every call on a flattened value leaves its adapters bound to the checker. *)
LEMMA FlattenEmits ==
    ASSUME NEW event \in Calls, Bound(enc)
    PROVE  Bound(EmitFlatten(event).e)
<1>1. PICK a, b : Bond(a, b, enc.outer) /\ enc.adapters = (IF format = "nested" THEN <<a, b>> ELSE <<a>>)
  BY DEF Bound
<1>. Answered(event, a, b)
  BY <1>1, EveryMethod
<1>2. PICK r1, r2, outer2, allowed, byte :
         /\ EmitFlatten(event) = PassOf(enc, r1, r2, allowed, outer2, byte)
         /\ Answers(r1, a, b, enc.outer, outer2)
         /\ format = "nested" /\ a = b => r2 = r1
  BY Zenon DEF Answered
<1>3. format = "nested" /\ r1.forward => r2 = r1
  BY <1>2 DEF Answers
<1>. QED
  BY <1>1, <1>2, <1>3, PassBinds

-----------------------------------------------------------------------------
(* The struct around a flattened value.                                    *)

(* Adapters that are bound to the checker never have it outside the        *)
(* struct's object.                                                        *)
LEMMA BoundStaysIn ==
    ASSUME Bound(enc)
    PROVE  enc.outer.frames # <<>> /\ Head(enc.outer.frames).kind = "object"
<1>1. PICK a, b : Bond(a, b, enc.outer)
  BY DEF Bound
<1>2. CASE enc.outer = Flatten!Outer
  BY <1>2 DEF Flatten!Outer
<1>3. CASE Running(a, enc.outer)
  <2>1. /\ enc.outer.frames \in Seq(Frame) /\ Len(enc.outer.frames) # 0
        /\ enc.outer.frames[1].kind = "object"
    BY <1>3 DEF Running, States
  <2>2. enc.outer.frames # <<>>
    BY <2>1
  <2>3. Head(enc.outer.frames) = enc.outer.frames[1]
    BY <2>1, <2>2
  <2>. QED
    BY <2>1, <2>2, <2>3
<1>. QED
  BY <1>1, <1>2, <1>3 DEF Bond

FlattenInv ==
    Flattening => /\ Bound(enc)
                  /\ stage = "done" => /\ enc.outer = Flatten!Outer
                                       /\ format = "nested" => enc.adapters[2] = Flatten!Opened

(* Before the first call the adapters are idle.                            *)
LEMMA InitFlatten ==
    ASSUME Init
    PROVE  FlattenInv
<1>. SUFFICES ASSUME Flattening PROVE Bound(enc) /\ stage # "done"
  BY DEF FlattenInv
<1>1. enc = Flatten!NewFlatten(format = "nested") /\ stage = "open"
  BY DEF Init, Flattening
<1>2. /\ enc = [buf |-> enc.buf, frames |-> enc.frames, outer |-> enc.outer, adapters |-> enc.adapters]
      /\ enc.outer = Flatten!Outer
      /\ enc.adapters = (IF format = "nested" THEN <<Flatten!NewAdapter, Flatten!Opened>>
                         ELSE <<Flatten!NewAdapter>>)
  BY <1>1 DEF Flatten!NewFlatten
<1>3. Bond(Flatten!NewAdapter, Flatten!Opened, enc.outer)
  BY <1>2, Zenon DEF Bond
<1>. QED
  BY <1>1, <1>2, <1>3, Zenon DEF Bound

(* Every call leaves them bound, and finish returns Ok when the outer one is*)
(* where it began.                                                         *)
LEMMA NextFlatten ==
    ASSUME FlattenInv, [Next]_vars
    PROVE  FlattenInv'
<1>1. CASE UNCHANGED vars
  BY <1>1 DEF FlattenInv, Bound, Flattening, vars
<1>2. CASE Finish
  <2>1. UNCHANGED <<format, enc>>
    BY <1>2 DEF Finish
  <2>. SUFFICES ASSUME Flattening, stage' = "done"
                PROVE  /\ enc.outer = Flatten!Outer
                       /\ format = "nested" => enc.adapters[2] = Flatten!Opened
    BY <2>1 DEF FlattenInv, Bound, Flattening
  <2>2. Flatten!Finish(enc).ok
    BY <1>2 DEF Finish, CodecFinish, Flattening
  <2>3. PICK a, b : Bond(a, b, enc.outer) /\ enc.adapters = (IF format = "nested" THEN <<a, b>> ELSE <<a>>)
    BY DEF FlattenInv, Bound
  <2>4. enc.adapters[1] = a /\ (format = "nested" => enc.adapters[2] = b)
    BY <2>3, AdaptersOf
  <2>5. a.finished /\ a.started
    BY <2>2, <2>4, Zenon DEF Flatten!Finish, Flatten!Done, Flatten!Refused
  <2>6. enc.outer = Flatten!Outer /\ b = Flatten!Opened
    BY <2>3, <2>5, IdleOrRunning
  <2>. QED
    BY <2>4, <2>6
<1>3. ASSUME NEW event \in Calls, Refuse(event)
      PROVE  FlattenInv'
  BY <1>3 DEF Refuse, FlattenInv, Bound, Flattening
<1>4. ASSUME NEW event \in Calls, Call(event)
      PROVE  FlattenInv'
  <2>1. format' = format /\ enc' = Emit(event).e /\ stage' # "done"
    BY <1>4 DEF Call
  <2>. SUFFICES ASSUME Flattening PROVE Bound(enc')
    BY <2>1 DEF FlattenInv, Bound, Flattening
  <2>2. Emit(event) = EmitFlatten(event)
    BY Zenon DEF Emit
  <2>3. Bound(EmitFlatten(event).e)
    BY FlattenEmits DEF FlattenInv
  <2>. QED
    BY <2>1, <2>2, <2>3
<1>. QED
  BY <1>1, <1>2, <1>3, <1>4 DEF Next

(* A flattened value, nested in another or not, never leaves the object of *)
(* the struct it is written into, and when finish returns Ok that object   *)
(* is as it was found, whatever calls the value makes and however many.    *)
THEOREM StructGoesOn == Spec => []OuterIsKept
<1>1. Init => FlattenInv
  BY InitFlatten
<1>2. FlattenInv /\ [Next]_vars => FlattenInv'
  BY NextFlatten
<1>3. FlattenInv => OuterIsKept
  BY BoundStaysIn DEF FlattenInv, OuterIsKept
<1>. QED
  BY <1>1, <1>2, <1>3, PTL DEF Spec

(* What a call that returned Ok leaves of the inner adapter and of the     *)
(* checker.                                                                *)
LEMMA PassLeaves ==
    ASSUME NEW a, NEW b, NEW e, Bound(e), NEW r1, NEW r2, NEW outer2, NEW allowed, NEW byte,
           e.adapters = (IF format = "nested" THEN <<a, b>> ELSE <<a>>),
           format = "nested" /\ r1.forward => r2 = r1,
           PassOf(e, r1, r2, allowed, outer2, byte).ok
    PROVE  LET p == PassOf(e, r1, r2, allowed, outer2, byte)
           IN  /\ p.e.adapters[1] = r1.a
               /\ \/ r1.ok /\ ~r1.forward /\ p.e.outer = e.outer
                  \/ r1.forward /\ allowed /\ p.e.outer = outer2
<1>. DEFINE r == ThroughOf(e.adapters, r1, r2)
            p == PassOf(e, r1, r2, allowed, outer2, byte)
<1>1. /\ r.ok <=> r1.ok
      /\ r.forward <=> r1.forward
      /\ r.adapters[1] = r1.a
  <2>1. CASE format = "nested"
    <3>1. e.adapters = <<a, b>> /\ Len(e.adapters) # 1
      BY <2>1
    <3>2. CASE r1.forward
      <4>1. r = [ok |-> r1.ok, forward |-> r1.forward, adapters |-> <<r1.a, r1.a>>]
        BY <2>1, <3>1, <3>2, Zenon DEF ThroughOf
      <4>. HIDE DEF r
      <4>2. r.ok = r1.ok /\ r.forward = r1.forward /\ r.adapters = <<r1.a, r1.a>>
        BY <4>1
      <4>3. r.adapters[1] = r1.a
        BY <4>2
      <4>. QED
        BY <4>2, <4>3, Zenon DEF r
    <3>3. CASE ~r1.forward
      <4>1. r = [ok |-> r1.ok, forward |-> r1.forward, adapters |-> [e.adapters EXCEPT ![1] = r1.a]]
        BY <3>1, <3>3, Zenon DEF ThroughOf
      <4>2. [e.adapters EXCEPT ![1] = r1.a] = <<r1.a, b>>
        BY <3>1, FirstOf
      <4>. HIDE DEF r
      <4>3. r.ok = r1.ok /\ r.forward = r1.forward /\ r.adapters = <<r1.a, b>>
        BY <4>1, <4>2
      <4>4. r.adapters[1] = r1.a
        BY <4>3
      <4>. QED
        BY <4>3, <4>4, Zenon DEF r
    <3>. QED
      BY <3>2, <3>3
  <2>2. CASE format # "nested"
    <3>1. e.adapters = <<a>> /\ Len(e.adapters) = 1
      BY <2>2
    <3>2. r = [ok |-> r1.ok, forward |-> r1.forward, adapters |-> [e.adapters EXCEPT ![1] = r1.a]]
      BY <3>1 DEF ThroughOf
    <3>3. [e.adapters EXCEPT ![1] = r1.a] = <<r1.a>>
      BY <3>1, FirstOf
    <3>. HIDE DEF r
    <3>4. r.ok = r1.ok /\ r.forward = r1.forward /\ r.adapters = <<r1.a>>
      BY <3>2, <3>3
    <3>5. r.adapters[1] = r1.a
      BY <3>4
    <3>. QED
      BY <3>4, <3>5, Zenon DEF r
  <2>. QED
    BY <2>1, <2>2
<1>2. p = IF ~r.ok \/ (r.forward /\ ~allowed) THEN Flatten!Refused(e)
          ELSE IF ~r.forward THEN Flatten!Done([e EXCEPT !.adapters = r.adapters])
          ELSE Flatten!Done(Flatten!Push([e EXCEPT !.adapters = r.adapters, !.outer = outer2], byte))
  BY Zenon DEF PassOf
<1>. HIDE DEF r, p
<1>3. \A x : ~Flatten!Refused(x).ok /\ Flatten!Done(x).e = x
  BY DEF Flatten!Refused, Flatten!Done
<1>4. e = [buf |-> e.buf, frames |-> e.frames, outer |-> e.outer, adapters |-> e.adapters]
  BY DEF Bound
<1>5. p.ok
  BY DEF p
<1>6. r.ok /\ (r.forward => allowed)
  BY <1>2, <1>3, <1>5, Zenon
<1>. DEFINE q == [e EXCEPT !.adapters = r.adapters]
<1>7. q = [buf |-> e.buf, frames |-> e.frames, outer |-> e.outer, adapters |-> r.adapters]
  BY <1>4, FlattenFields
<1>8. CASE ~r.forward
  <2>1. p.e = q
    BY <1>2, <1>3, <1>6, <1>8, Zenon
  <2>. HIDE DEF q
  <2>2. p.e.outer = e.outer /\ p.e.adapters = r.adapters
    BY <1>7, <2>1
  <2>. QED
    BY <1>1, <1>6, <1>8, <2>2, Zenon DEF p
<1>9. CASE r.forward
  <2>. DEFINE o == [q EXCEPT !.outer = outer2]
              z == [o EXCEPT !.buf = o.buf \o byte]
  <2>1. p.e = z
    BY <1>2, <1>3, <1>6, <1>9, Zenon DEF Flatten!Push
  <2>. HIDE DEF q
  <2>2. /\ q = [buf |-> q.buf, frames |-> q.frames, outer |-> q.outer, adapters |-> q.adapters]
        /\ q.adapters = r.adapters
    BY <1>7
  <2>3. o = [buf |-> q.buf, frames |-> q.frames, outer |-> outer2, adapters |-> q.adapters]
    BY <2>2, FlattenFields, Zenon
  <2>. HIDE DEF o
  <2>4. /\ o = [buf |-> o.buf, frames |-> o.frames, outer |-> o.outer, adapters |-> o.adapters]
        /\ o.outer = outer2 /\ o.adapters = r.adapters
    BY <2>2, <2>3
  <2>5. z = [buf |-> o.buf \o byte, frames |-> o.frames, outer |-> o.outer, adapters |-> o.adapters]
    BY <2>4, FlattenFields, Zenon
  <2>. HIDE DEF z
  <2>6. z.outer = outer2 /\ z.adapters = r.adapters
    BY <2>4, <2>5
  <2>. QED
    BY <1>1, <1>6, <1>9, <2>1, <2>6, Zenon DEF p
<1>. QED
  BY <1>8, <1>9

\* While a flattened value is written its inner adapter and the checker of the
\* struct keep its order.
OrderInv == Flattening /\ stage = "open" => Keeps(enc.adapters[1], st, enc.outer)

(* A call that returns Ok was in order, a Some aside, and leaves the order *)
(* kept.                                                                   *)
LEMMA OrderKept ==
    ASSUME FlattenInv, OrderInv, Flattening, stage = "open",
           NEW event \in Calls, EmitFlatten(event).ok
    PROVE  LET s == IF Allowed(event) THEN Tracked(event) ELSE st
           IN  /\ event.call # "some" => Allowed(event)
               /\ Keeps(EmitFlatten(event).e.adapters[1], s, EmitFlatten(event).e.outer)
<1>. DEFINE p == EmitFlatten(event)
<1>1. PICK a, b : Bond(a, b, enc.outer) /\ enc.adapters = (IF format = "nested" THEN <<a, b>> ELSE <<a>>)
  BY DEF FlattenInv, Bound
<1>2. Bound(enc) /\ enc.adapters[1] = a
  BY <1>1, AdaptersOf DEF FlattenInv
<1>. Answered(event, a, b)
  BY <1>1, EveryMethod
<1>3. PICK r1, r2, outer2, allowed, byte :
         /\ p = PassOf(enc, r1, r2, allowed, outer2, byte)
         /\ Answers(r1, a, b, enc.outer, outer2)
         /\ format = "nested" /\ a = b => r2 = r1
         /\ event.call # "some" /\ Keeps(a, st, enc.outer) =>
               Sides(r1, Allowed(event), Tracked(event), enc.outer, allowed, outer2)
         /\ event.call = "some" => r1.a = a /\ outer2 = enc.outer
  BY Zenon DEF Answered
<1>4. Keeps(a, st, enc.outer)
  BY <1>2 DEF OrderInv
<1>5. format = "nested" /\ r1.forward => r2 = r1
  BY <1>3 DEF Answers
<1>. HIDE DEF p
<1>6. p.ok
  BY DEF p
<1>7. /\ p.e.adapters[1] = r1.a
      /\ \/ r1.ok /\ ~r1.forward /\ p.e.outer = enc.outer
         \/ r1.forward /\ allowed /\ p.e.outer = outer2
  <2>1. PassOf(enc, r1, r2, allowed, outer2, byte).ok
    BY <1>3, <1>6
  <2>. QED
    BY <1>1, <1>2, <1>3, <1>5, <2>1, PassLeaves
<1>8. CASE event.call # "some"
  <2>1. Sides(r1, Allowed(event), Tracked(event), enc.outer, allowed, outer2)
    BY <1>3, <1>4, <1>8
  <2>2. Allowed(event) /\ Keeps(r1.a, Tracked(event), p.e.outer)
    BY <1>7, <2>1, Zenon DEF Sides
  <2>. QED
    BY <1>7, <2>2, Zenon DEF p
<1>9. CASE event.call = "some"
  <2>1. Tracked(event) = st
    BY <1>9 DEF Tracked, Begins, Ends
  <2>2. p.e.adapters[1] = a /\ p.e.outer = enc.outer
    BY <1>3, <1>7, <1>9
  <2>. QED
    BY <1>4, <1>9, <2>1, <2>2, Zenon DEF p
<1>. QED
  BY <1>8, <1>9

(* Every step keeps the order.                                             *)
LEMMA NextOrder ==
    ASSUME FlattenInv, OrderInv, [Next]_vars
    PROVE  OrderInv'
<1>1. CASE UNCHANGED vars
  BY <1>1 DEF OrderInv, Flattening, vars
<1>2. CASE Finish
  <2>1. stage' # "open"
    BY <1>2 DEF Finish
  <2>. QED
    BY <2>1 DEF OrderInv
<1>3. ASSUME NEW event \in Calls, Refuse(event)
      PROVE  OrderInv'
  BY <1>3 DEF Refuse, OrderInv
<1>4. ASSUME NEW event \in Calls, Call(event)
      PROVE  OrderInv'
  <2>. SUFFICES ASSUME Flattening', stage' = "open"
                PROVE  Keeps(enc.adapters[1], st, enc.outer)'
    BY DEF OrderInv
  <2>1. /\ stage = "open" /\ Flattening
        /\ enc' = Emit(event).e /\ Emit(event).ok
        /\ st' = IF Allowed(event) THEN Tracked(event) ELSE st
    BY <1>4 DEF Call, MayCall, Flattening
  <2>2. Emit(event) = EmitFlatten(event)
    BY <2>1, Zenon DEF Emit
  <2>3. Keeps(EmitFlatten(event).e.adapters[1], st', EmitFlatten(event).e.outer)
    BY <2>1, <2>2, OrderKept
  <2>. QED
    BY <2>1, <2>2, <2>3 DEF Keeps
<1>. QED
  BY <1>1, <1>2, <1>3, <1>4 DEF Next

(* Whatever a flattened value calls, and how often: what is out of order,  *)
(* a second value, a member outside an object, a key without a value, never*)
(* gets past the adapter and the checker of the struct, which between them *)
(* ask what FlattenEncoder has no checker of its own for.                  *)
THEOREM MembersStayInOrder == Spec => MembersInOrder
<1>1. Init => FlattenInv /\ OrderInv
  <2>. SUFFICES ASSUME Init PROVE OrderInv
    BY InitFlatten
  <2>. SUFFICES ASSUME Flattening PROVE Keeps(enc.adapters[1], st, enc.outer)
    BY DEF OrderInv
  <2>1. enc = Flatten!NewFlatten(format = "nested") /\ st = NewState
    BY DEF Init, Flattening
  <2>2. enc.adapters = (IF format = "nested" THEN <<Flatten!NewAdapter, Flatten!Opened>>
                        ELSE <<Flatten!NewAdapter>>)
    BY <2>1 DEF Flatten!NewFlatten
  <2>3. enc.adapters[1] = Flatten!NewAdapter
    BY <2>2, AdaptersOf
  <2>. QED
    BY <2>1, <2>3 DEF Keeps
<1>2. FlattenInv /\ OrderInv /\ [Next]_vars => (FlattenInv /\ OrderInv)'
  BY NextFlatten, NextOrder
<1>. DEFINE Kept == \A event \in Calls :
                       Flattening /\ Call(event) /\ event.call # "some" /\ ~Allowed(event)
                          => stage' = "codec"
<1>3. FlattenInv /\ OrderInv => Kept
  <2>. SUFFICES ASSUME FlattenInv, OrderInv, NEW event \in Calls, Flattening, Call(event),
                       event.call # "some", stage' # "codec"
                PROVE  Allowed(event)
    OBVIOUS
  <2>1. stage = "open" /\ Emit(event).ok
    BY DEF Call, MayCall
  <2>2. Emit(event) = EmitFlatten(event)
    BY Zenon DEF Emit
  <2>. QED
    BY <2>1, <2>2, OrderKept
<1>. QED
  <2>1. FlattenInv /\ OrderInv /\ [Next]_vars => [Kept]_vars
    BY <1>3
  <2>. QED
    BY <1>1, <1>2, <2>1, PTL DEF Spec, MembersInOrder

-----------------------------------------------------------------------------
(* The encoder and the checker together.                                   *)

Codecs == {"msgpack", "cbor", "postcard", "bencode", "bson", "tree"}

\* Nothing reaches the encoder that the checker would refuse.
Ordered == Checked \/ format \notin AnyOrder

\* What the encoders keep of the places they will come back to.
Shaped ==
    /\ format \in {"msgpack", "cbor", "postcard"} => Ahead(enc)
    /\ format = "bson" => Blanks(enc)
    /\ format = "bencode" => CutOff(enc.buf, enc.frames)
    /\ stage = "open" => /\ format = "bencode" => Files(enc)
                         /\ format = "tree" => Built(enc)

\* What the encoder e and the checker s have in common.
Agree(e, s) ==
    /\ InStep(e.frames, s.frames)
    /\ format = "bson" => (e.pending # 0 <=> Awaits(s))
    /\ format = "tree" /\ InObject(s) => (KeyWaits(e.frames) <=> Awaits(s))
    /\ format = "bencode" /\ InObject(s) /\ Awaits(s) => Last(e.frames).pending # Bencode!NoKey

CodecInv ==
    /\ st \in States /\ OnlyTopDue(st.frames)
    /\ format \in Formats
    /\ format \in Codecs => Shaped
    /\ format \in Codecs /\ Ordered /\ stage = "open" => Agree(enc, st)

(* Before the first call nothing is open.                                  *)
LEMMA InitCodec ==
    ASSUME Init
    PROVE  CodecInv
<1>1. st = [frames |-> <<>>, root |-> FALSE] /\ st.frames = <<>> /\ format \in Formats
  BY DEF Init, NewState
<1>2. st \in States /\ OnlyTopDue(st.frames)
  BY <1>1 DEF States, OnlyTopDue
<1>3. AtRoot(st) /\ ~Awaits(st) /\ ~InObject(st)
  BY <1>1 DEF AtRoot, Awaits, InObject
<1>4. 1 .. Len(<<>>) = {} /\ Sequence(<<>>)
  <2>1. Sequence(<<>>) /\ Len(<<>>) = 0
    BY SingleSequence
  <2>2. 1 .. 0 = {}
    OBVIOUS
  <2>. QED
    BY <2>1, <2>2
<1>. SUFFICES ASSUME format \in Codecs PROVE Shaped /\ Agree(enc, st)
  BY <1>1, <1>2 DEF CodecInv
<1>5. CASE format = "bson"
  <2>1. enc = Bson!NewBson
    BY <1>5 DEF Init, Flattening
  <2>2. enc = [buf |-> <<>>, frames |-> <<>>, pending |-> 0, root |-> FALSE]
    BY <2>1 DEF Bson!NewBson
  <2>3. enc.buf = <<>> /\ enc.frames = <<>> /\ enc.pending = 0
    BY <2>2
  <2>4. Blanks(enc)
    BY <1>4, <2>2, <2>3 DEF Blanks, Marked
  <2>5. InStep(enc.frames, st.frames)
    BY <1>1, <1>4, <2>3 DEF InStep, SameKinds
  <2>. QED
    BY <1>3, <1>5, <2>3, <2>4, <2>5 DEF Shaped, Agree
<1>6. CASE format # "bson"
  <2>1. enc = Headers!NewEncoder
    BY <1>6 DEF Init, Codecs, Flattening
  <2>2. enc = [buf |-> <<>>, frames |-> <<>>]
    BY <2>1 DEF Headers!NewEncoder
  <2>3. enc.buf = <<>> /\ enc.frames = <<>>
    BY <2>2
  <2>4. InStep(enc.frames, st.frames)
    BY <1>1, <1>4, <2>3 DEF InStep, SameKinds
  <2>5. Ahead(enc)
    BY <1>4, <2>2, <2>3 DEF Ahead
  <2>6. Built(enc)
    BY <1>4, <2>2, <2>3 DEF Built
  <2>7. 1 .. 0 - 1 = {} /\ Len(<<>>) = 0
    OBVIOUS
  <2>8. Filed(<<>>, <<>>)
    BY <1>4, <2>7 DEF Filed
  <2>9. Files(enc) /\ CutOff(enc.buf, enc.frames)
    BY <2>2, <2>3, <2>8, FiledCutOff DEF Files
  <2>. QED
    BY <1>3, <1>6, <2>4, <2>5, <2>6, <2>9 DEF Shaped, Agree
<1>. QED
  BY <1>5, <1>6

(* What the checker asks before a call, and whose element it is.           *)
LEMMA AskedBefore ==
    ASSUME st \in States, OnlyTopDue(st.frames), NEW event \in Calls, Allowed(event)
    PROVE  /\ event.call \in Begins \cup Scalars /\ InObject(st) => Awaits(st)
           /\ event.call = "separator" => ~InObject(Tracked(event))
<1>1. ASSUME event.call \in Begins \cup Scalars, InObject(st)
      PROVE  Awaits(st)
  <2>1. event.call \notin {"separator", "object_key"} \cup Ends \cup Markers
    BY <1>1 DEF Begins, Scalars, Ends, Markers
  <2>2. ValueOk(TRUE, st)
    BY <2>1 DEF Allowed
  <2>. QED
    BY <1>1, <2>2 DEF ValueOk, InObject, Awaits
<1>2. ASSUME event.call = "separator"
      PROVE  ~InObject(Tracked(event))
  <2>1. ~AtRoot(st) /\ Top(st).kind = "array" /\ Tracked(event) = SetDue(st, TRUE)
    BY <1>2 DEF Allowed, SeparatorOk, InArray, Tracked, Separator, Begins, Ends, Markers
  <2>2. Slotted(Frame) /\ st \in Machine(Frame)
    BY FrameIsSlotted
  <2>3. SetDue(st, TRUE) \in Machine(Frame) /\ DueIs(TRUE, st.frames, SetDue(st, TRUE).frames)
    BY <2>1, <2>2, SetDueProperties
  <2>4. Len(st.frames) \in Nat \ {0} /\ Top(st) = st.frames[Len(st.frames)]
    BY <2>1, <2>2, TopIsLast
  <2>5. SUFFICES ASSUME InObject(SetDue(st, TRUE)) PROVE FALSE
    BY <2>1
  <2>6. Top(SetDue(st, TRUE)) = SetDue(st, TRUE).frames[Len(SetDue(st, TRUE).frames)]
    BY <2>3, <2>5, TopIsLast DEF InObject
  <2>7. Len(st.frames) \in 1 .. Len(st.frames)
    BY <2>4
  <2>. QED
    BY <2>1, <2>3, <2>4, <2>5, <2>6, <2>7 DEF DueIs, InObject
<1>. QED
  BY <1>1, <1>2

(* Where a value may be written, every open dictionary has a key for it.   *)
LEMMA ValuesAreNamed ==
    ASSUME st \in States, OnlyTopDue(st.frames), format = "bencode", Files(enc), Agree(enc, st),
           NEW event \in Calls, Allowed(event), event.call \in Begins \cup Scalars
    PROVE  AllNamed(enc.frames)
<1>. DEFINE n == Len(enc.frames)
<1>. SUFFICES ASSUME NEW i \in 1 .. n, enc.frames[i].kind = "object"
              PROVE  enc.frames[i].pending # Bencode!NoKey
  BY DEF AllNamed
<1>1. Sequence(enc.frames) /\ n \in Nat
  BY SequenceFacts DEF Files, Filed, Sequence
<1>2. CASE i # n
  <2>1. i \in 1 .. n - 1
    BY <1>1, <1>2
  <2>. QED
    BY <2>1 DEF Files, Filed
<1>3. CASE i = n
  <2>1. n = Len(st.frames) /\ st.frames[n].kind = "object"
    BY <1>3 DEF Agree, InStep, SameKinds
  <2>2. ~AtRoot(st)
    <3>1. n # 0
      BY <1>1, <1>3
    <3>. QED
      BY <2>1, <3>1 DEF AtRoot
  <2>3. InObject(st)
    BY <2>1, <2>2 DEF InObject, Top, Last
  <2>4. Awaits(st)
    BY <2>3, AskedBefore
  <2>5. Last(enc.frames) = enc.frames[n]
    BY DEF Last
  <2>. QED
    BY <1>3, <2>3, <2>4, <2>5 DEF Agree
<1>. QED
  BY <1>2, <1>3

(* What a call leaves, when the checker lets through what it should: the   *)
(* encoder goes on from its shape, and stays in step.                      *)
LEMMA CallsKeepShape ==
    ASSUME st \in States, OnlyTopDue(st.frames), format \in Codecs, Shaped, stage = "open",
           NEW event \in Calls, event.call \notin Markers,
           format = "bencode" => Allowed(event) /\ Agree(enc, st),
           NEW r, r = EmitCodec(event)
    PROVE  /\ format \in {"msgpack", "cbor", "postcard"} => Ahead(r.e)
           /\ format = "bson" => Blanks(r.e)
           /\ format = "bencode" => CutOff(r.e.buf, r.e.frames)
           /\ r.ok => /\ format = "bencode" => Files(r.e)
                      /\ format = "tree" => Built(r.e)
           /\ r.ok /\ Allowed(event) /\ Agree(enc, st) => Agree(r.e, Tracked(event))
<1>. DEFINE s == Tracked(event)
<1>1. ASSUME r.ok, Allowed(event), Agree(enc, st), MovesStack(event, enc.frames, r.e.frames)
      PROVE  InStep(r.e.frames, s.frames)
  <2>1. MovesStack(event, st.frames, s.frames)
    BY <1>1, CheckerMoves
  <2>2. Len(st.frames) \in Nat
    BY LenProperties DEF States
  <2>. HIDE DEF s
  <2>. QED
    BY <1>1, <2>1, <2>2, MovesInStep DEF Agree
<1>2. ASSUME Allowed(event)
      PROVE  Awaits(s) <=> event.call \in {"separator", "object_key"}
  <2>1. /\ event.call \in {"separator", "object_key"} => Awaits(s)
        /\ event.call \in Begins \cup Ends \cup Scalars => ~Awaits(s)
    BY <1>2, CheckerMoves
  <2>. QED
    BY <2>1, CallFacts
<1>3. Allowed(event) /\ event.call = "separator" => ~InObject(s)
  BY AskedBefore
<1>. HIDE DEF s
<1>4. CASE format = "msgpack"
  <2>1. r = EmitMsgPack(event)
    BY <1>4 DEF EmitCodec
  <2>2. Ahead(r.e) /\ GoesOn(event, enc.frames, r)
    BY <1>4, <2>1, MsgPackEmits DEF Shaped
  <2>. QED
    BY <1>1, <1>4, <2>2 DEF GoesOn, Agree, s
<1>5. CASE format = "cbor"
  <2>1. r = EmitCbor(event)
    BY <1>5 DEF EmitCodec
  <2>2. Ahead(r.e) /\ GoesOn(event, enc.frames, r)
    BY <1>5, <2>1, CborEmits DEF Shaped
  <2>. QED
    BY <1>1, <1>5, <2>2 DEF GoesOn, Agree, s
<1>6. CASE format = "postcard"
  <2>1. r = EmitPostcard(event)
    BY <1>6 DEF EmitCodec
  <2>2. Ahead(r.e) /\ GoesOn(event, enc.frames, r)
    BY <1>6, <2>1, PostcardEmits DEF Shaped
  <2>. QED
    BY <1>1, <1>6, <2>2 DEF GoesOn, Agree, s
<1>7. CASE format = "bson"
  <2>1. r = EmitBson(event)
    BY <1>7 DEF EmitCodec
  <2>2. BsonGoesOn(event, enc.frames, r)
    BY <1>7, <2>1, BsonEmits DEF Shaped
  <2>. QED
    BY <1>1, <1>2, <1>7, <2>2 DEF BsonGoesOn, GoesOn, Agree, s
<1>8. CASE format = "tree"
  <2>1. r = EmitTree(event)
    BY <1>8 DEF EmitCodec
  <2>2. TreeGoesOn(event, enc, r)
    BY <1>8, <2>1, TreeEmits DEF Shaped
  <2>. QED
    BY <1>1, <1>2, <1>3, <1>8, <2>2 DEF TreeGoesOn, Agree, s
<1>9. CASE format = "bencode"
  <2>1. r = EmitBencode(event)
    BY <1>9 DEF EmitCodec
  <2>2. event.call \in Begins \cup Scalars => AllNamed(enc.frames)
    BY <1>9, ValuesAreNamed DEF Shaped
  <2>3. BencodeGoesOn(event, enc, r)
    BY <1>9, <2>1, <2>2, BencodeEmits DEF Shaped
  <2>. QED
    BY <1>1, <1>2, <1>3, <1>9, <2>3 DEF BencodeGoesOn, Agree, s
<1>. QED
  BY <1>4, <1>5, <1>6, <1>7, <1>8, <1>9 DEF Codecs

(* The invariant holds across every step.                                  *)
LEMMA NextCodec ==
    ASSUME CodecInv, [Next]_vars
    PROVE  CodecInv'
<1>1. CASE UNCHANGED vars
  BY <1>1 DEF vars, CodecInv, Shaped, Ordered, Checked, Agree, Ahead, Hole
<1>2. ASSUME UNCHANGED <<format, st, enc>>, stage = "open"
      PROVE  CodecInv'
  BY <1>2 DEF CodecInv, Shaped, Ordered, Checked, Agree, Ahead, Hole
<1>3. CASE Finish
  BY <1>2, <1>3 DEF Finish
<1>4. ASSUME NEW event \in Calls, Refuse(event)
      PROVE  CodecInv'
  BY <1>2, <1>4 DEF Refuse, MayCall
<1>5. ASSUME NEW event \in Calls, Call(event)
      PROVE  CodecInv'
  <2>. DEFINE r == Emit(event)
  <2>1. /\ format' = format /\ stage = "open" /\ enc' = r.e
        /\ stage' = IF r.ok THEN "open" ELSE "codec"
        /\ st' = IF Allowed(event) THEN Tracked(event) ELSE st
        /\ Ordered => Allowed(event)
    BY <1>5 DEF Call, MayCall, Ordered
  <2>2. st \in States /\ OnlyTopDue(st.frames) /\ format \in Formats
    BY DEF CodecInv
  <2>3. st' \in States /\ OnlyTopDue(st'.frames)
    <3>1. Allowed(event) => Tracked(event) \in States /\ OnlyTopDue(Tracked(event).frames)
      BY <2>2, CheckerMoves
    <3>. QED
      BY <2>1, <2>2, <3>1
  <2>. SUFFICES ASSUME format \in Codecs
                PROVE  Shaped' /\ (Ordered' /\ stage' = "open" => Agree(enc, st)')
    BY <2>1, <2>2, <2>3 DEF CodecInv
  <2>4. ~Flattening /\ (format = "bencode" => Ordered)
    BY DEF Flattening, Codecs, Ordered, Checked
  <2>5. Shaped /\ (Ordered => Agree(enc, st))
    BY <2>1 DEF CodecInv
  <2>6. CASE event.call \in Markers
    <3>1. r = Headers!Done(enc)
      BY <2>4, <2>6 DEF Emit
    <3>2. r.ok /\ r.e = enc
      BY <3>1, Returns
    <3>3. Allowed(event) => Tracked(event) = st
      BY <2>2, <2>6, CheckerMoves
    <3>4. enc' = enc /\ st' = st /\ stage' = stage
      BY <2>1, <3>2, <3>3
    <3>. QED
      BY <2>1, <2>5, <3>4 DEF Shaped, Ordered, Checked, Agree, Ahead, Hole
  <2>7. CASE event.call \notin Markers
    <3>1. r = EmitCodec(event)
      BY <2>4, <2>7 DEF Emit
    <3>. HIDE DEF r
    <3>2. /\ format \in {"msgpack", "cbor", "postcard"} => Ahead(r.e)
          /\ format = "bson" => Blanks(r.e)
          /\ format = "bencode" => CutOff(r.e.buf, r.e.frames)
          /\ r.ok => /\ format = "bencode" => Files(r.e)
                     /\ format = "tree" => Built(r.e)
          /\ r.ok /\ Allowed(event) /\ Agree(enc, st) => Agree(r.e, Tracked(event))
      BY <2>1, <2>2, <2>4, <2>5, <2>7, <3>1, CallsKeepShape
    <3>3. Shaped'
      BY <2>1, <3>2 DEF Shaped, Ahead, Hole
    <3>4. ASSUME Ordered, r.ok
          PROVE  Agree(enc, st)'
      <4>1. Agree(r.e, Tracked(event)) /\ st' = Tracked(event)
        BY <2>1, <2>5, <3>2, <3>4
      <4>. QED
        BY <2>1, <4>1 DEF Agree
    <3>5. (Ordered' => Ordered) /\ (stage' = "open" => r.ok)
      BY <2>1 DEF Ordered, Checked
    <3>. QED
      BY <3>3, <3>4, <3>5
  <2>. QED
    BY <2>6, <2>7
<1>. QED
  BY <1>1, <1>3, <1>4, <1>5 DEF Next

(* Whatever calls are made, in what order and however many, of whatever    *)
(* depth and length the containers are: the header an open container has   *)
(* to fill in is where its frame says, a BSON length, and a type that is   *)
(* still to come, are blank where they are looked for, and the value of a  *)
(* bencode key stands behind the opening of its dictionary (patch_prefix   *)
(* of bin.rs, end_doc and element_start of bson.rs, finish_dict_entry of   *)
(* bencode.rs).                                                            *)
THEOREM PlacesAreKept == Spec => []PlacesInBuffer
<1>1. Init => CodecInv
  BY InitCodec
<1>2. CodecInv /\ [Next]_vars => CodecInv'
  BY NextCodec
<1>3. CodecInv => PlacesInBuffer
  <2>. SUFFICES ASSUME CodecInv PROVE PlacesInBuffer
    OBVIOUS
  <2>1. format \in Codecs => Shaped
    BY DEF CodecInv
  <2>2. HeadersInPlace
    <3>. SUFFICES ASSUME format \in {"msgpack", "cbor", "postcard"}, NEW i \in 1 .. Len(enc.frames)
                  PROVE  /\ enc.frames[i].start \in 1 .. Len(enc.buf)
                         /\ enc.buf[enc.frames[i].start] = Placeholder(enc.frames[i])
                         /\ i > 1 => enc.frames[i - 1].start < enc.frames[i].start
      BY DEF HeadersInPlace
    <3>1. Ahead(enc)
      BY <2>1 DEF Codecs, Shaped
    <3>2. Len(enc.frames) \in Nat
      BY <3>1, LenProperties DEF Ahead
    <3>3. i > 1 => i - 1 \in 1 .. Len(enc.frames) /\ i - 1 < i
      BY <3>2
    <3>. QED
      BY <3>1, <3>3 DEF Ahead, Hole, Placeholder
  <2>3. BlanksInPlace
    BY <2>1 DEF BlanksInPlace, Codecs, Shaped, Blanks, Marked
  <2>4. EntriesCutOff
    BY <2>1 DEF EntriesCutOff, Codecs, Shaped, CutOff, Opening
  <2>. QED
    BY <2>2, <2>3, <2>4 DEF PlacesInBuffer
<1>. QED
  BY <1>1, <1>2, <1>3, PTL DEF Spec

(* An encoder and the checker in front of it have the same containers      *)
(* open, and wait for the value of a key at the same time.  Of the         *)
(* encoders that nothing checks, CBOR's has to be called in order for it.  *)
THEOREM CodecsStayInStep ==
    ASSUME "cbor" \notin AnyOrder
    PROVE  Spec => []CodecInStep
<1>1. Init => CodecInv
  BY InitCodec
<1>2. CodecInv /\ [Next]_vars => CodecInv'
  BY NextCodec
<1>3. CodecInv => CodecInStep
  <2>. SUFFICES ASSUME CodecInv, stage = "open", format \notin Frameless, ~Flattening
                PROVE  /\ Len(enc.frames) = Len(st.frames)
                       /\ \A i \in 1 .. Len(st.frames) : enc.frames[i].kind = st.frames[i].kind
                       /\ format = "bson" => (enc.pending # 0 <=> Awaits(st))
                       /\ format = "tree" /\ InObject(st) =>
                              (Last(enc.frames).pending # "" <=> Awaits(st))
                       /\ format = "bencode" /\ InObject(st) =>
                              (Awaits(st) => Last(enc.frames).pending # Bencode!NoKey)
    BY DEF CodecInStep, Awaits
  <2>1. format \in Codecs
    BY BinaryEncodersAssumption DEF CodecInv, AllFormats, Codecs, Frameless, Flattening
  <2>2. Ordered
    BY <2>1 DEF Codecs, Ordered, Checked
  <2>3. Agree(enc, st)
    BY <2>1, <2>2 DEF CodecInv
  <2>4. InObject(st) => (KeyWaits(enc.frames) <=> Last(enc.frames).pending # "")
    <3>. SUFFICES ASSUME InObject(st) PROVE enc.frames # <<>> /\ Last(enc.frames).kind = "object"
      BY DEF KeyWaits
    <3>1. Len(st.frames) \in Nat \ {0} /\ Top(st) = st.frames[Len(st.frames)]
      BY FrameIsSlotted, TopIsLast DEF CodecInv, InObject
    <3>2. Len(enc.frames) = Len(st.frames) /\ Len(st.frames) \in 1 .. Len(st.frames)
      BY <2>3, <3>1 DEF Agree, InStep
    <3>3. enc.frames[Len(st.frames)].kind = "object"
      BY <2>3, <3>1, <3>2 DEF Agree, InStep, SameKinds, InObject
    <3>. QED
      BY <3>1, <3>2, <3>3 DEF Last
  <2>. QED
    BY <2>3, <2>4 DEF Agree, InStep, SameKinds
<1>. QED
  BY <1>1, <1>2, <1>3, PTL DEF Spec

=============================================================================
