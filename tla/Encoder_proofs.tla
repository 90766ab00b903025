--------------------------- MODULE Encoder_proofs ---------------------------
(***************************************************************************)
(* Lemmas about EventState and Encoder that the sinks share: what the      *)
(* operators do to a stack of frames, what the writes do to the buffer,    *)
(* what the contract sees of a checker, and how the tokens written nest.   *)
(* Those about frames are stated for any kind of frame that has a kind and *)
(* a due field, because JsonSink applies the operators to the encoder's    *)
(* frames as well.                                                         *)
(***************************************************************************)
EXTENDS Encoder, SequenceTheorems, FiniteSetTheorems, TLAPS

\* The frames F have a kind and a due field that can be set.
Slotted(F) ==
    \A f \in F : /\ f.kind \in Kinds /\ f.due \in BOOLEAN
                 /\ \A b \in BOOLEAN : LET g == [f EXCEPT !.due = b]
                                       IN  g \in F /\ g.kind = f.kind /\ g.due = b

Machine(F) == [frames : Seq(F), root : BOOLEAN]

\* Frames new differ from frames old in the due field of the top, which is b.
DueIs(b, old, new) ==
    /\ Len(new) = Len(old)
    /\ \A i \in 1 .. Len(old) :
          /\ new[i].kind = old[i].kind
          /\ i # Len(old) => new[i] = old[i]
          /\ i = Len(old) => (new[i].due <=> b)

\* Machine new is machine old with frame f pushed on it.
Pushed(f, old, new) ==
    /\ new.root = old.root
    /\ Len(new.frames) = Len(old.frames) + 1
    /\ \A i \in 1 .. Len(old.frames) : new.frames[i] = old.frames[i]
    /\ new.frames[Len(old.frames) + 1] = f

(* The frames of EventState are slotted.                                   *)
LEMMA FrameIsSlotted == Slotted(Frame) /\ States = Machine(Frame)
BY DEF Slotted, Frame, States, Machine

(* The innermost frame of a non-empty stack is the last one.               *)
LEMMA TopIsLast ==
    ASSUME NEW F, NEW st \in Machine(F), ~AtRoot(st)
    PROVE  /\ Len(st.frames) \in Nat \ {0}
           /\ Top(st) = st.frames[Len(st.frames)]
           /\ Top(st) \in F
<1>1. st.frames \in Seq(F) /\ st.frames # <<>>
  BY DEF Machine, AtRoot
<1>2. Len(st.frames) \in Nat \ {0}
  BY <1>1, EmptySeq
<1>. QED
  BY <1>1, <1>2, ElementOfSeq DEF Top, Last

(* SetDue writes the due field of the innermost frame and nothing else.    *)
LEMMA SetDueProperties ==
    ASSUME NEW F, Slotted(F), NEW st \in Machine(F), ~AtRoot(st), NEW b \in BOOLEAN
    PROVE  /\ SetDue(st, b) \in Machine(F)
           /\ SetDue(st, b).root = st.root
           /\ DueIs(b, st.frames, SetDue(st, b).frames)
<1>. DEFINE n == Len(st.frames)
            g == [st.frames[n] EXCEPT !.due = b]
<1>1. st.frames \in Seq(F) /\ n \in 1 .. n
  BY TopIsLast DEF Machine
<1>2. /\ st.frames[n] \in F /\ g \in F
      /\ g.kind = st.frames[n].kind /\ g.due = b
  BY <1>1, ElementOfSeq DEF Slotted
<1>. DEFINE new == [st.frames EXCEPT ![n] = g]
<1>3. /\ new \in Seq(F) /\ Len(new) = n
      /\ \A i \in 1 .. n : new[i] = IF i = n THEN g ELSE st.frames[i]
  BY <1>1, <1>2, ExceptSeq
<1>4. SetDue(st, b) = [st EXCEPT !.frames = new]
  BY DEF SetDue
<1>5. SetDue(st, b).frames = new /\ SetDue(st, b).root = st.root
  BY <1>4 DEF Machine
<1>6. SetDue(st, b) \in Machine(F)
  BY <1>3, <1>4 DEF Machine
<1>. HIDE DEF n, g, new
<1>7. ASSUME NEW i \in 1 .. Len(st.frames)
      PROVE  /\ new[i].kind = st.frames[i].kind
             /\ i # Len(st.frames) => new[i] = st.frames[i]
             /\ i = Len(st.frames) => (new[i].due <=> b)
  BY <1>2, <1>3 DEF n
<1>8. Len(new) = Len(st.frames)
  BY <1>3 DEF n
<1>9. DueIs(b, st.frames, new)
  BY <1>7, <1>8 DEF DueIs
<1>. QED
  BY <1>5, <1>6, <1>9

(* A value leaves the stack as it is, with nothing owed to its top.        *)
LEMMA ValueProperties ==
    ASSUME NEW F, Slotted(F), NEW st \in Machine(F)
    PROVE  /\ Value(st) \in Machine(F)
           /\ Value(st).root = IF AtRoot(st) THEN TRUE ELSE st.root
           /\ DueIs(FALSE, st.frames, Value(st).frames)
<1>1. CASE AtRoot(st)
  <2>1. st.frames = <<>> /\ Value(st) = [st EXCEPT !.root = TRUE]
    BY <1>1 DEF Value, AtRoot
  <2>2. Len(st.frames) = 0
    BY <2>1, EmptySeq
  <2>3. Value(st).frames = st.frames /\ Value(st).root = TRUE
    BY <2>1 DEF Machine
  <2>4. Value(st) \in Machine(F)
    BY <2>1 DEF Machine
  <2>5. 1 .. Len(st.frames) = {}
    BY <2>2
  <2>6. Value(st).root = IF AtRoot(st) THEN TRUE ELSE st.root
    BY <1>1, <2>3
  <2>7. DueIs(FALSE, st.frames, Value(st).frames)
    BY <2>3, <2>5 DEF DueIs
  <2>. QED
    BY <2>4, <2>6, <2>7
<1>2. CASE ~AtRoot(st)
  <2>1. Value(st) = SetDue(st, FALSE)
    BY <1>2 DEF Value
  <2>2. /\ SetDue(st, FALSE) \in Machine(F)
        /\ SetDue(st, FALSE).root = st.root
        /\ DueIs(FALSE, st.frames, SetDue(st, FALSE).frames)
    BY <1>2, SetDueProperties
  <2>3. st.root \in BOOLEAN
    BY DEF Machine
  <2>. QED
    BY <1>2, <2>1, <2>2, <2>3
<1>. QED
  BY <1>1, <1>2

(* Pushing a frame on a machine keeps the frames below.                    *)
LEMMA PushProperties ==
    ASSUME NEW F, NEW st \in Machine(F), NEW f \in F,
           NEW new, new = [st EXCEPT !.frames = Append(@, f)]
    PROVE  new \in Machine(F) /\ Pushed(f, st, new)
<1>1. st.frames \in Seq(F) /\ new.frames = Append(st.frames, f) /\ new.root = st.root
  BY DEF Machine
<1>2. Append(st.frames, f) \in Seq(F)
  BY <1>1, AppendProperties
<1>3. new \in Machine(F)
  BY <1>1, <1>2 DEF Machine
<1>. QED
  BY <1>1, <1>3, AppendProperties DEF Pushed

(* EndTokens a container drops its frame and keeps the frames below.         *)
LEMMA EndProperties ==
    ASSUME NEW F, NEW st \in Machine(F)
    PROVE  /\ End(st) \in Machine(F)
           /\ End(st).root = st.root
           /\ ~AtRoot(st) =>
                /\ Len(End(st).frames) = Len(st.frames) - 1
                /\ \A i \in 1 .. Len(st.frames) - 1 : End(st).frames[i] = st.frames[i]
<1>1. CASE AtRoot(st)
  BY <1>1 DEF End
<1>2. CASE ~AtRoot(st)
  <2>. DEFINE n == Len(st.frames)
  <2>1. n \in Nat \ {0} /\ st.frames \in Seq(F)
    BY <1>2, TopIsLast DEF Machine
  <2>2. End(st) = [st EXCEPT !.frames = SubSeq(st.frames, 1, n - 1)]
    BY <1>2 DEF End, Front
  <2>3. \A i \in 1 .. n - 1 : st.frames[i] \in F
    BY <2>1, ElementOfSeq
  <2>4. /\ SubSeq(st.frames, 1, n - 1) \in Seq(F)
        /\ Len(SubSeq(st.frames, 1, n - 1)) = n - 1
        /\ \A i \in 1 .. n - 1 : SubSeq(st.frames, 1, n - 1)[i] = st.frames[i]
    BY <2>1, <2>3, SubSeqProperties
  <2>. QED
    BY <1>2, <2>1, <2>2, <2>4 DEF Machine
<1>. QED
  BY <1>1, <1>2

(* BeginTokens a container: the value consumes its slot, then a frame that     *)
(* owes nothing goes on top.                                               *)
LEMMA BeginProperties ==
    ASSUME NEW F, Slotted(F), NEW st \in Machine(F), NEW f \in F,
           NEW new, new = [Value(st) EXCEPT !.frames = Append(@, f)]
    PROVE  /\ new \in Machine(F)
           /\ Pushed(f, Value(st), new)
           /\ Len(Value(st).frames) = Len(st.frames)
<1>1. Value(st) \in Machine(F) /\ Len(Value(st).frames) = Len(st.frames)
  BY ValueProperties DEF DueIs
<1>2. new \in Machine(F) /\ Pushed(f, Value(st), new)
  BY <1>1, PushProperties
<1>. QED
  BY <1>1, <1>2

(* Every operator keeps "only the innermost container is owed a value".    *)
LEMMA OnlyTopDueKept ==
    ASSUME NEW F, Slotted(F), NEW st \in Machine(F), OnlyTopDue(st.frames)
    PROVE  /\ OnlyTopDue(Value(st).frames)
           /\ OnlyTopDue(End(st).frames)
           /\ ~AtRoot(st) => \A b \in BOOLEAN : OnlyTopDue(SetDue(st, b).frames)
           /\ \A f \in F : OnlyTopDue([Value(st) EXCEPT !.frames = Append(@, f)].frames)
<1>. DEFINE n == Len(st.frames)
<1>1. n \in Nat
  BY LenProperties DEF Machine
<1>. DEFINE v == Value(st)
<1>v. /\ Len(v.frames) = n
      /\ \A i \in 1 .. n : /\ i # n => v.frames[i] = st.frames[i]
                           /\ i = n => ~v.frames[i].due
  BY ValueProperties DEF DueIs
<1>. HIDE DEF v
<1>w. \A i \in 1 .. n : ~v.frames[i].due
  BY <1>1, <1>v DEF OnlyTopDue
<1>2. OnlyTopDue(Value(st).frames)
  BY <1>1, <1>v, <1>w DEF OnlyTopDue, v
<1>3. OnlyTopDue(End(st).frames)
  <2>1. CASE AtRoot(st)
    BY <2>1 DEF End
  <2>2. CASE ~AtRoot(st)
    BY <1>1, <2>2, EndProperties DEF OnlyTopDue
  <2>. QED
    BY <2>1, <2>2
<1>4. ASSUME ~AtRoot(st), NEW b \in BOOLEAN
      PROVE  OnlyTopDue(SetDue(st, b).frames)
  BY <1>1, <1>4, SetDueProperties DEF OnlyTopDue, DueIs
<1>5. ASSUME NEW f \in F
      PROVE  OnlyTopDue([Value(st) EXCEPT !.frames = Append(@, f)].frames)
  <2>. DEFINE new == [Value(st) EXCEPT !.frames = Append(@, f)]
  <2>1. Value(st) \in Machine(F) /\ Len(Value(st).frames) = n
    BY ValueProperties DEF DueIs
  <2>2. Pushed(f, Value(st), new)
    BY <2>1, PushProperties
  <2>3. /\ Len(new.frames) = n + 1
        /\ \A i \in 1 .. n : new.frames[i] = Value(st).frames[i]
    BY <2>1, <2>2 DEF Pushed
  <2>. QED
    BY <1>1, <2>3, <1>w DEF OnlyTopDue, v
<1>. QED
  BY <1>2, <1>3, <1>4, <1>5

-----------------------------------------------------------------------------
(* What the writes of Encoder do to what was put into the buffer, for      *)
(* every set T of tokens and every threshold: nothing is written twice,    *)
(* and nothing is lost while the writer works.                             *)

Outs(T) == [buf : Seq(T), wire : Seq(T)]

\* What the writer took, followed by what waits in the buffer.
Sent(o) == o.wire \o o.buf

(* A sequence is a prefix of itself followed by anything.                  *)
LEMMA PrefixOfConcat ==
    ASSUME NEW T, NEW s \in Seq(T), NEW t \in Seq(T)
    PROVE  IsPrefix(s, s \o t)
<1>. DEFINE n == Len(s)
<1>1. /\ n \in Nat
      /\ s \o t \in Seq(T)
      /\ Len(s \o t) = n + Len(t)
      /\ \A i \in 1 .. n + Len(t) : (s \o t)[i] = IF i <= n THEN s[i] ELSE t[i - n]
  BY ConcatProperties, LenProperties
<1>2. n <= Len(s \o t)
  BY <1>1, LenProperties
<1>3. \A i \in 1 .. n : (s \o t)[i] = s[i] /\ s[i] \in T
  BY <1>1, LenProperties, ElementOfSeq
<1>4. /\ SubSeq(s \o t, 1, n) \in Seq(T) /\ Len(SubSeq(s \o t, 1, n)) = n
      /\ \A i \in 1 .. n : SubSeq(s \o t, 1, n)[i] = (s \o t)[i]
  BY <1>1, <1>3, SubSeqProperties
<1>5. /\ SubSeq(s, 1, n) \in Seq(T) /\ Len(SubSeq(s, 1, n)) = n
      /\ \A i \in 1 .. n : SubSeq(s, 1, n)[i] = s[i]
  BY <1>1, <1>3, SubSeqProperties
<1>6. SubSeq(s, 1, n) = SubSeq(s \o t, 1, n)
  BY <1>3, <1>4, <1>5, SeqEqual
<1>. QED
  BY <1>2, <1>6 DEF IsPrefix

(* What is a prefix stays one when the longer sequence grows.              *)
LEMMA PrefixExtends ==
    ASSUME NEW T, NEW r \in Seq(T), NEW s \in Seq(T), NEW t \in Seq(T), IsPrefix(r, s)
    PROVE  IsPrefix(r, s \o t)
<1>. DEFINE n == Len(r)
<1>1. n \in Nat /\ n <= Len(s) /\ SubSeq(r, 1, n) = SubSeq(s, 1, n)
  BY LenProperties DEF IsPrefix
<1>2. /\ s \o t \in Seq(T) /\ Len(s) \in Nat /\ Len(t) \in Nat
      /\ Len(s \o t) = Len(s) + Len(t)
      /\ \A i \in 1 .. Len(s) + Len(t) :
            (s \o t)[i] = IF i <= Len(s) THEN s[i] ELSE t[i - Len(s)]
  BY ConcatProperties, LenProperties
<1>3. \A i \in 1 .. n : (s \o t)[i] = s[i] /\ s[i] \in T
  BY <1>1, <1>2, ElementOfSeq
<1>4. /\ SubSeq(s \o t, 1, n) \in Seq(T) /\ Len(SubSeq(s \o t, 1, n)) = n
      /\ \A i \in 1 .. n : SubSeq(s \o t, 1, n)[i] = (s \o t)[i]
  BY <1>1, <1>3, SubSeqProperties
<1>5. /\ SubSeq(s, 1, n) \in Seq(T) /\ Len(SubSeq(s, 1, n)) = n
      /\ \A i \in 1 .. n : SubSeq(s, 1, n)[i] = s[i]
  BY <1>1, <1>3, SubSeqProperties
<1>6. SubSeq(s, 1, n) = SubSeq(s \o t, 1, n)
  BY <1>3, <1>4, <1>5, SeqEqual
<1>7. n <= Len(s \o t)
  BY <1>1, <1>2
<1>. QED
  BY <1>1, <1>6, <1>7 DEF IsPrefix

(* Concatenation is associative, as a fact to instantiate.                 *)
LEMMA Associative ==
    ASSUME NEW T
    PROVE  \A s, t, u \in Seq(T) : (s \o t) \o u = s \o (t \o u)
BY ConcatAssociative

(* One token is a sequence of tokens, and so is none.                      *)
LEMMA ShortSeq ==
    ASSUME NEW T
    PROVE  <<>> \in Seq(T) /\ \A t \in T : <<t>> \in Seq(T)
<1>1. ASSUME NEW t \in T
      PROVE  <<t>> \in Seq(T)
  <2>1. <<>> \in Seq(T)
    BY EmptySeq
  <2>2. Append(<<>>, t) \in Seq(T)
    BY <2>1, AppendProperties
  <2>3. Append(<<>>, t) = <<t>>
    OBVIOUS
  <2>. QED
    BY <2>2, <2>3
<1>. QED
  BY <1>1, EmptySeq

(* Putting tokens into the buffer appends them to what was sent.           *)
LEMMA PutProperties ==
    ASSUME NEW T, NEW o \in Outs(T), NEW tokens \in Seq(T)
    PROVE  /\ Put(o, tokens) \in Outs(T)
           /\ Put(o, tokens).wire = o.wire
           /\ Sent(Put(o, tokens)) = Sent(o) \o tokens
<1>1. o.buf \in Seq(T) /\ o.wire \in Seq(T)
  BY DEF Outs
<1>2. Put(o, tokens).buf = o.buf \o tokens /\ Put(o, tokens).wire = o.wire
  BY DEF Put, Outs
<1>3. o.buf \o tokens \in Seq(T)
  BY <1>1, ConcatProperties
<1>a. \A s, t, u \in Seq(T) : (s \o t) \o u = s \o (t \o u)
  BY Associative
<1>4. o.wire \o (o.buf \o tokens) = (o.wire \o o.buf) \o tokens
  BY <1>1, <1>a
<1>5. Put(o, tokens) \in Outs(T)
  BY <1>1, <1>3 DEF Put, Outs
<1>. QED
  BY <1>2, <1>4, <1>5 DEF Sent

(* A flush that succeeds leaves everything with the writer, in order; one  *)
(* that fails leaves the writer with a prefix of it.                       *)
LEMMA FlushProperties ==
    ASSUME NEW T, NEW o \in Outs(T), NEW w \in Flush(o)
    PROVE  /\ w.out \in Outs(T) /\ w.ok \in BOOLEAN
           /\ IsPrefix(w.out.wire, Sent(o))
           /\ w.ok => w.out.wire = Sent(o) /\ Sent(w.out) = Sent(o)
<1>1. o.buf \in Seq(T) /\ o.wire \in Seq(T)
  BY DEF Outs
<1>2. Sent(o) \in Seq(T)
  BY <1>1, ConcatProperties DEF Sent
<1>3. CASE w = Settled([buf |-> <<>>, wire |-> o.wire \o o.buf])
  <2>1. w.ok = TRUE /\ w.out = [buf |-> <<>>, wire |-> Sent(o)]
    BY <1>3 DEF Settled, Sent
  <2>2. <<>> \in Seq(T)
    BY EmptySeq
  <2>3. w.out \in Outs(T)
    BY <1>2, <2>1, <2>2 DEF Outs
  <2>4. Sent(o) \o <<>> = Sent(o)
    BY <1>2, ConcatEmptySeq
  <2>5. w.out.wire = Sent(o) /\ Sent(w.out) = Sent(o)
    <3>1. w.out.wire = Sent(o) /\ w.out.buf = <<>>
      BY <2>1
    <3>. QED
      BY <2>4, <3>1, Zenon DEF Sent
  <2>6. IsPrefix(Sent(o), Sent(o) \o <<>>)
    BY <1>2, <2>2, PrefixOfConcat
  <2>7. IsPrefix(w.out.wire, Sent(o))
    BY <2>4, <2>5, <2>6
  <2>. QED
    BY <2>1, <2>3, <2>5, <2>7
<1>4. ASSUME NEW n \in 0 .. Len(o.buf),
             w = [out |-> [o EXCEPT !.wire = @ \o SubSeq(o.buf, 1, n)], ok |-> FALSE]
      PROVE  w.out \in Outs(T) /\ w.ok = FALSE /\ IsPrefix(w.out.wire, Sent(o))
  <2>. DEFINE p == SubSeq(o.buf, 1, n)
              q == SubSeq(o.buf, n + 1, Len(o.buf))
  <2>1. \A i \in 1 .. Len(o.buf) : o.buf[i] \in T
    BY <1>1, ElementOfSeq
  <2>2. p \in Seq(T) /\ q \in Seq(T)
    <3>1. Len(o.buf) \in Nat
      BY <1>1, LenProperties
    <3>2. \A i \in 1 .. n : o.buf[i] \in T
      BY <2>1, <3>1
    <3>3. \A i \in n + 1 .. Len(o.buf) : o.buf[i] \in T
      BY <2>1, <3>1
    <3>. QED
      BY <3>1, <3>2, <3>3, SubSeqProperties
  <2>3. p \o q = o.buf
    <3>1. Len(o.buf) \in Nat /\ 1 \in 1 .. Len(o.buf) + 1 /\ n \in 1 - 1 .. Len(o.buf)
          /\ Len(o.buf) \in n .. Len(o.buf)
      BY <1>1, LenProperties
    <3>2. p \o q = SubSeq(o.buf, 1, Len(o.buf))
      BY <1>1, <3>1, ConcatAdjacentSubSeq
    <3>3. SubSeq(o.buf, 1, Len(o.buf)) = o.buf
      BY <1>1, SubSeqFull
    <3>. QED
      BY <3>2, <3>3
  <2>4. w.out = [o EXCEPT !.wire = o.wire \o p] /\ w.ok = FALSE
    BY <1>4
  <2>5. o.wire \o p \in Seq(T)
    BY <1>1, <2>2, ConcatProperties
  <2>. HIDE DEF p, q
  <2>6. w.out \in Outs(T) /\ w.out.wire = o.wire \o p
    BY <2>4, <2>5 DEF Outs
  <2>7. IsPrefix(o.wire \o p, (o.wire \o p) \o q)
    BY <2>2, <2>5, PrefixOfConcat
  <2>a. \A s, t, u \in Seq(T) : (s \o t) \o u = s \o (t \o u)
    BY Associative
  <2>8. (o.wire \o p) \o q = o.wire \o (p \o q)
    BY <1>1, <2>2, <2>a
  <2>. QED
    BY <2>3, <2>4, <2>6, <2>7, <2>8 DEF Sent
<1>. QED
  BY <1>3, <1>4 DEF Flush

(* maybe_flush that succeeds changes nothing of what was sent; one that    *)
(* fails leaves the writer with a prefix of it.                            *)
LEMMA MaybeFlushProperties ==
    ASSUME NEW T, NEW o \in Outs(T), NEW w \in MaybeFlush(o)
    PROVE  /\ w.out \in Outs(T) /\ w.ok \in BOOLEAN
           /\ IsPrefix(w.out.wire, Sent(o))
           /\ w.ok => Sent(w.out) = Sent(o)
<1>1. CASE Len(o.buf) >= FlushThreshold
  <2>1. w \in Flush(o)
    BY <1>1 DEF MaybeFlush
  <2>. QED
    BY <2>1, FlushProperties
<1>2. CASE ~(Len(o.buf) >= FlushThreshold)
  <2>1. w.out = o /\ w.ok = TRUE
    BY <1>2 DEF MaybeFlush, Settled
  <2>2. IsPrefix(o.wire, o.wire \o o.buf)
    BY PrefixOfConcat DEF Outs
  <2>. QED
    BY <2>1, <2>2 DEF Sent
<1>. QED
  BY <1>1, <1>2

(* An error of the writer needs a writer that fails.                       *)
LEMMA FailureIsTheWriters ==
    ASSUME NEW o, NEW w \in Flush(o) \cup MaybeFlush(o), ~w.ok
    PROVE  WriterFails
<1>1. ASSUME ~WriterFails, w \in Flush(o)
      PROVE  FALSE
  <2>1. w = Settled([buf |-> <<>>, wire |-> o.wire \o o.buf])
    BY <1>1 DEF Flush
  <2>. QED
    BY <2>1 DEF Settled
<1>2. w \in Flush(o) \/ w = Settled(o)
  BY DEF MaybeFlush
<1>3. w # Settled(o)
  BY DEF Settled
<1>. QED
  BY <1>1, <1>2, <1>3

-----------------------------------------------------------------------------
(* What the contract EventSink sees of a checker.                          *)

\* The frames of a checker as EventSink sees them.
Shown(s) == [i \in 1 .. Len(s.frames) |-> s.frames[i].kind]

Owed(s) == InObject(s) /\ Top(s).due

\* The events that are in order in a state of the checker.
InGrammar(event, s) ==
    \/ /\ event \in {"word", "text", "begin_array", "begin_object"}
       /\ (AtRoot(s) /\ ~s.root) \/ InArray(s) \/ Owed(s)
    \/ event = "object_key" /\ InObject(s) /\ ~Owed(s)
    \/ event = "end_array" /\ InArray(s)
    \/ event = "end_object" /\ InObject(s) /\ ~Owed(s)

(* A handler that returns Ok moves what EventSink sees as the contract     *)
(* says.                                                                   *)
Moves(event, s, t) ==
    /\ Shown(t) = CASE event \in {"begin_array", "begin_object"} ->
                          Append(Shown(s), IF event = "begin_array" THEN "array" ELSE "object")
                    [] event \in {"end_array", "end_object"} -> Front(Shown(s))
                    [] OTHER -> Shown(s)
    /\ Owed(t) <=> event = "object_key"
    /\ t.root = TRUE

(* A field that was set on the top is what the top has.                    *)
LEMMA TopWhenSet ==
    ASSUME NEW F, Slotted(F), NEW old \in Machine(F), ~AtRoot(old), NEW new \in Machine(F),
           NEW b \in BOOLEAN, DueIs(b, old.frames, new.frames)
    PROVE  /\ ~AtRoot(new)
           /\ Top(new).kind = Top(old).kind
           /\ Top(new).due <=> b
<1>. DEFINE n == Len(old.frames)
<1>1. n \in Nat \ {0} /\ Top(old) = old.frames[n] /\ Len(new.frames) = n
  BY TopIsLast DEF DueIs
<1>2. ~AtRoot(new)
  BY <1>1, EmptySeq DEF AtRoot
<1>3. Top(new) = new.frames[n]
  BY <1>1, <1>2, TopIsLast
<1>4. new.frames[n].kind = old.frames[n].kind /\ (new.frames[n].due <=> b)
  BY <1>1 DEF DueIs
<1>. QED
  BY <1>1, <1>2, <1>3, <1>4

(* What EventSink sees of a checker.                                       *)
LEMMA ShownProperties ==
    ASSUME NEW s \in States
    PROVE  /\ Shown(s) \in Seq(Kinds) /\ Len(Shown(s)) = Len(s.frames)
           /\ Shown(s) = <<>> <=> AtRoot(s)
           /\ ~AtRoot(s) => Last(Shown(s)) = Top(s).kind
<1>. DEFINE n == Len(s.frames)
<1>1. s \in Machine(Frame) /\ s.frames \in Seq(Frame) /\ n \in Nat
  BY FrameIsSlotted, LenProperties DEF Machine
<1>2. \A i \in 1 .. n : s.frames[i] \in Frame
  BY <1>1, ElementOfSeq
<1>3. /\ Shown(s) \in Seq(Kinds) /\ Len(Shown(s)) = n
      /\ \A i \in 1 .. n : Shown(s)[i] = s.frames[i].kind
  BY <1>1, <1>2 DEF Shown, Frame
<1>4. Shown(s) = <<>> <=> AtRoot(s)
  BY <1>1, <1>3, EmptySeq DEF AtRoot
<1>5. ASSUME ~AtRoot(s)
      PROVE  Last(Shown(s)) = Top(s).kind
  <2>1. n \in 1 .. n /\ Top(s) = s.frames[n]
    BY <1>1, <1>5, TopIsLast
  <2>. QED
    BY <1>3, <2>1 DEF Last
<1>. QED
  BY <1>3, <1>4, <1>5

(* The same kinds are the same stack.                                      *)
LEMMA ShownSame ==
    ASSUME NEW s \in States, NEW t \in States, Len(t.frames) = Len(s.frames),
           \A i \in 1 .. Len(s.frames) : t.frames[i].kind = s.frames[i].kind
    PROVE  Shown(t) = Shown(s)
BY DEF Shown

(* A frame that was pushed is an element that was appended.                *)
LEMMA ShownPushed ==
    ASSUME NEW s \in States, NEW t \in States, NEW f \in Frame, Pushed(f, s, t)
    PROVE  Shown(t) = Append(Shown(s), f.kind) /\ ~AtRoot(t) /\ Top(t) = f
<1>. DEFINE n == Len(s.frames)
            a == Append(Shown(s), f.kind)
<1>1. /\ n \in Nat /\ Len(t.frames) = n + 1 /\ t.frames[n + 1] = f
      /\ \A i \in 1 .. n : t.frames[i] = s.frames[i]
  BY LenProperties DEF States, Pushed
<1>2. f.kind \in Kinds /\ Shown(s) \in Seq(Kinds) /\ Len(Shown(s)) = n
  BY ShownProperties DEF Frame
<1>3. /\ a \in Seq(Kinds) /\ Len(a) = n + 1 /\ a[n + 1] = f.kind
      /\ \A i \in 1 .. n : a[i] = Shown(s)[i]
  BY <1>2, AppendProperties
<1>4. Shown(t) \in Seq(Kinds) /\ Len(Shown(t)) = n + 1
  BY <1>1, ShownProperties
<1>5. ASSUME NEW i \in 1 .. n + 1
      PROVE  Shown(t)[i] = a[i]
  BY <1>1, <1>3 DEF Shown
<1>. HIDE DEF a
<1>6. Shown(t) = a
  BY <1>3, <1>4, <1>5, SeqEqual
<1>7. ~AtRoot(t)
  BY <1>1, EmptySeq DEF AtRoot
<1>8. Top(t) = f
  <2>1. t \in Machine(Frame)
    BY FrameIsSlotted
  <2>. QED
    BY <1>1, <1>7, <2>1, TopIsLast
<1>. QED
  BY <1>6, <1>7, <1>8 DEF a

(* A frame that was dropped is the front of the stack, and nothing is owed *)
(* to the one below it.                                                    *)
LEMMA ShownEnded ==
    ASSUME NEW s \in States, OnlyTopDue(s.frames), ~AtRoot(s)
    PROVE  Shown(End(s)) = Front(Shown(s)) /\ ~Owed(End(s))
<1>. DEFINE n == Len(s.frames)
            t == End(s)
            h == Front(Shown(s))
<1>1. s \in Machine(Frame) /\ n \in Nat \ {0}
  BY FrameIsSlotted, TopIsLast
<1>2. /\ t \in States /\ Len(t.frames) = n - 1
      /\ \A i \in 1 .. n - 1 : t.frames[i] = s.frames[i]
  BY <1>1, EndProperties, FrameIsSlotted
<1>3. Shown(s) \in Seq(Kinds) /\ Len(Shown(s)) = n
  BY ShownProperties
<1>4. \A i \in 1 .. n - 1 : Shown(s)[i] \in Kinds
  BY <1>1, <1>3, ElementOfSeq
<1>5. /\ h \in Seq(Kinds) /\ Len(h) = n - 1
      /\ \A i \in 1 .. n - 1 : h[i] = Shown(s)[i]
  BY <1>1, <1>3, <1>4, SubSeqProperties DEF Front
<1>. HIDE DEF t, h
<1>6. Shown(t) \in Seq(Kinds) /\ Len(Shown(t)) = n - 1
  BY <1>2, ShownProperties
<1>7. ASSUME NEW i \in 1 .. n - 1
      PROVE  Shown(t)[i] = h[i]
  <2>1. i \in 1 .. Len(s.frames) /\ i \in 1 .. Len(t.frames)
    BY <1>1, <1>2
  <2>2. Shown(s)[i] = s.frames[i].kind /\ Shown(t)[i] = t.frames[i].kind
    BY <2>1 DEF Shown
  <2>. QED
    BY <1>2, <1>5, <2>2
<1>8. Shown(t) = h
  BY <1>1, <1>5, <1>6, <1>7, SeqEqual
<1>9. ASSUME ~AtRoot(t)
      PROVE  ~Top(t).due
  <2>1. t \in Machine(Frame)
    BY <1>2, FrameIsSlotted
  <2>2. n - 1 \in 1 .. n - 1 /\ Top(t) = t.frames[n - 1]
    BY <1>1, <1>2, <1>9, <2>1, TopIsLast
  <2>. QED
    BY <1>2, <2>2 DEF OnlyTopDue
<1>. QED
  BY <1>8, <1>9 DEF t, h, Owed, InObject

(* A scalar moves nothing that is shown, and whatever was owed is paid.    *)
LEMMA ValueShown ==
    ASSUME NEW s \in States, ~AtRoot(s) => s.root = TRUE
    PROVE  /\ Value(s) \in States /\ Value(s).root = TRUE
           /\ Shown(Value(s)) = Shown(s) /\ ~Owed(Value(s))
<1>. DEFINE v == Value(s)
<1>1. /\ s \in Machine(Frame) /\ Slotted(Frame)
      /\ v \in States /\ v.root = TRUE /\ DueIs(FALSE, s.frames, v.frames)
  BY ValueProperties, FrameIsSlotted
<1>. HIDE DEF v
<1>2. Shown(v) = Shown(s)
  BY <1>1, ShownSame DEF DueIs
<1>3. ~Owed(v)
  <2>1. CASE AtRoot(s)
    <3>1. AtRoot(v)
      BY <1>1, <1>2, <2>1, ShownProperties
    <3>. QED
      BY <3>1 DEF Owed, InObject
  <2>2. CASE ~AtRoot(s)
    <3>1. v \in Machine(Frame)
      BY <1>1, FrameIsSlotted
    <3>2. ~Top(v).due
      BY <1>1, <2>2, <3>1, TopWhenSet
    <3>. QED
      BY <3>2 DEF Owed
  <2>. QED
    BY <2>1, <2>2
<1>. QED
  BY <1>1, <1>2, <1>3 DEF v

(* BeginTokens a container shows one more, and nothing is owed to it.          *)
LEMMA BeginShown ==
    ASSUME NEW s \in States, ~AtRoot(s) => s.root = TRUE, NEW kind \in Kinds
    PROVE  /\ Begin(kind, s) \in States /\ Begin(kind, s).root = TRUE
           /\ Shown(Begin(kind, s)) = Append(Shown(s), kind) /\ ~Owed(Begin(kind, s))
<1>. DEFINE g == [kind |-> kind, due |-> FALSE]
            v == Value(s)
            t == Begin(kind, s)
<1>1. /\ v \in States /\ v.root = TRUE /\ Shown(v) = Shown(s)
  BY ValueShown
<1>2. t = [v EXCEPT !.frames = Append(@, g)]
  BY DEF Begin
<1>3. g \in Frame /\ g.kind = kind /\ g.due = FALSE
  BY DEF Frame
<1>. HIDE DEF g, t, v
<1>4. t \in States /\ Pushed(g, v, t)
  BY <1>1, <1>2, <1>3, PushProperties, FrameIsSlotted
<1>5. Shown(t) = Append(Shown(v), kind) /\ Top(t) = g
  BY <1>1, <1>3, <1>4, ShownPushed
<1>6. t.root = TRUE
  BY <1>1, <1>4 DEF Pushed
<1>. QED
  BY <1>1, <1>3, <1>4, <1>5, <1>6 DEF Owed, t

(* After a key its value is owed, and nothing else has moved.              *)
LEMMA KeyShown ==
    ASSUME NEW s \in States, ~AtRoot(s) => s.root = TRUE, KeyOk(s)
    PROVE  /\ Key(s) \in States /\ Key(s).root = TRUE
           /\ Shown(Key(s)) = Shown(s) /\ Owed(Key(s))
<1>. DEFINE t == SetDue(s, TRUE)
<1>1. ~AtRoot(s) /\ Top(s).kind = "object"
  BY DEF KeyOk, InObject
<1>2. s \in Machine(Frame) /\ Slotted(Frame)
  BY FrameIsSlotted
<1>3. t \in States /\ t.root = TRUE /\ DueIs(TRUE, s.frames, t.frames)
  BY <1>1, <1>2, SetDueProperties, FrameIsSlotted
<1>. HIDE DEF t
<1>4. ~AtRoot(t) /\ Top(t).kind = "object" /\ Top(t).due
  BY <1>1, <1>2, <1>3, TopWhenSet, FrameIsSlotted
<1>5. Shown(t) = Shown(s)
  BY <1>3, ShownSame DEF DueIs
<1>. QED
  BY <1>3, <1>4, <1>5 DEF Owed, InObject, Key, t

(* A token appended behind a sequence, and behind two.                     *)
LEMMA AppendBehind ==
    ASSUME NEW T
    PROVE  \A s, c \in Seq(T), t \in T : /\ s \o <<t>> = Append(s, t)
                                         /\ s \o Append(c, t) = Append(s \o c, t)
<1>. SUFFICES ASSUME NEW s \in Seq(T), NEW c \in Seq(T), NEW t \in T
              PROVE  /\ s \o <<t>> = Append(s, t)
                     /\ s \o Append(c, t) = Append(s \o c, t)
  OBVIOUS
<1>1. s \o <<t>> = Append(s, t)
  OBVIOUS
<1>2. s \o Append(c, t) = Append(s \o c, t)
  OBVIOUS
<1>. QED
  BY <1>1, <1>2

-----------------------------------------------------------------------------
(* How tokens nest.                                                        *)

(* A count of tokens is a number, the next token adds itself to it, and it *)
(* does not depend on the tokens behind.                                   *)
LEMMA CountOfTokens ==
    ASSUME NEW s, NEW set, NEW i \in Nat
    PROVE  /\ TokensIn(s, i, set) \in Nat
           /\ TokensIn(s, i + 1, set) = TokensIn(s, i, set) + (IF s[i + 1] \in set THEN 1 ELSE 0)
           /\ \A t : (\A j \in 1 .. i : t[j] = s[j]) => TokensIn(t, i, set) = TokensIn(s, i, set)
<1>. DEFINE S == {j \in 1 .. i : s[j] \in set}
            T == {j \in 1 .. i + 1 : s[j] \in set}
<1>1. IsFiniteSet(1 .. i)
  BY FS_Interval
<1>2. IsFiniteSet(S)
  BY <1>1, FS_Subset
<1>3. /\ \A j : j \in 1 .. i + 1 <=> j \in 1 .. i \/ j = i + 1
      /\ i + 1 \notin 1 .. i
  OBVIOUS
<1>4. TokensIn(s, i, set) = Cardinality(S) /\ TokensIn(s, i + 1, set) = Cardinality(T)
  BY DEF TokensIn
<1>5. s[i + 1] \notin set => T = S
  BY <1>3, Zenon
<1>6. s[i + 1] \in set => T = S \cup {i + 1} /\ i + 1 \notin S
  BY <1>3, Zenon
<1>7. ASSUME NEW t, \A j \in 1 .. i : t[j] = s[j]
      PROVE  TokensIn(t, i, set) = TokensIn(s, i, set)
  <2>1. {j \in 1 .. i : t[j] \in set} = S
    BY <1>7, Zenon
  <2>. QED
    BY <2>1 DEF TokensIn
<1>. HIDE DEF S, T
<1>8. Cardinality(S) \in Nat
  BY <1>2, FS_CardinalityType, Zenon
<1>9. s[i + 1] \in set => Cardinality(T) = Cardinality(S) + 1
  BY <1>2, <1>6, FS_AddElement
<1>10. Cardinality(T) = Cardinality(S) + (IF s[i + 1] \in set THEN 1 ELSE 0)
  <2>1. CASE s[i + 1] \in set
    BY <1>9, <2>1
  <2>2. CASE s[i + 1] \notin set
    <3>1. T = S
      BY <1>5, <2>2
    <3>. QED
      BY <1>8, <2>2, <3>1
  <2>. QED
    BY <2>1, <2>2
<1>. QED
  BY <1>4, <1>7, <1>8, <1>10, Zenon

\* What a token adds to the number of open containers.
Nests(t) == IF t \in BeginTokens THEN 1 ELSE IF t \in EndTokens THEN 0 - 1 ELSE 0

(* The same for the number of open containers.                             *)
LEMMA OpenAtProperties ==
    ASSUME NEW s, NEW i \in Nat
    PROVE  /\ OpenAt(s, i) \in Int
           /\ OpenAt(s, i + 1) = OpenAt(s, i) + Nests(s[i + 1])
           /\ \A t : (\A j \in 1 .. i : t[j] = s[j]) => OpenAt(t, i) = OpenAt(s, i)
<1>1. /\ TokensIn(s, i, BeginTokens) \in Nat /\ TokensIn(s, i, EndTokens) \in Nat
      /\ TokensIn(s, i + 1, BeginTokens)
           = TokensIn(s, i, BeginTokens) + (IF s[i + 1] \in BeginTokens THEN 1 ELSE 0)
      /\ TokensIn(s, i + 1, EndTokens)
           = TokensIn(s, i, EndTokens) + (IF s[i + 1] \in EndTokens THEN 1 ELSE 0)
  BY CountOfTokens
<1>2. ASSUME NEW t, \A j \in 1 .. i : t[j] = s[j]
      PROVE  OpenAt(t, i) = OpenAt(s, i)
  <2>1. ASSUME NEW set
        PROVE  TokensIn(t, i, set) = TokensIn(s, i, set)
    <3>1. \A u : (\A j \in 1 .. i : u[j] = s[j]) => TokensIn(u, i, set) = TokensIn(s, i, set)
      BY CountOfTokens, Zenon
    <3>. QED
      BY <1>2, <3>1, Zenon
  <2>. QED
    BY <2>1 DEF OpenAt
<1>3. ~(s[i + 1] \in BeginTokens /\ s[i + 1] \in EndTokens)
  BY DEF BeginTokens, EndTokens
<1>4. OpenAt(s, i) \in Int
  BY <1>1 DEF OpenAt
<1>5. OpenAt(s, i + 1) = OpenAt(s, i) + Nests(s[i + 1])
  BY <1>1, <1>3 DEF OpenAt, Nests
<1>. QED
  BY <1>2, <1>4, <1>5, Zenon

(* Nothing is open in front of the first token.                            *)
LEMMA OpenAtStart == \A s : OpenAt(s, 0) = 0
<1>. SUFFICES ASSUME NEW s PROVE OpenAt(s, 0) = 0
  OBVIOUS
<1>1. \A set : {j \in 1 .. 0 : s[j] \in set} = {}
  OBVIOUS
<1>2. \A set : TokensIn(s, 0, set) = 0
  BY <1>1, FS_EmptySet DEF TokensIn
<1>. QED
  BY <1>2 DEF OpenAt

\* Places at are those of the tokens of s that began the containers still
\* open, outermost first.
OpenedAt(s, at) ==
    /\ OpenAt(s, Len(s)) = Len(at)
    /\ \A i \in 1 .. Len(at) :
          /\ at[i] \in 1 .. Len(s)
          /\ s[at[i]] \in BeginTokens
          /\ OpenAt(s, at[i]) = i
          /\ \A k \in at[i] .. Len(s) : OpenAt(s, k) >= i

(* A token more changes nothing in front of it: what was open stays open   *)
(* there, and a token that stood in a container stands in it.              *)
LEMMA AppendNests ==
    ASSUME NEW T, NEW s \in Seq(T), NEW t \in T
    PROVE  LET r == Append(s, t)
               n == Len(s)
           IN  /\ n \in Nat /\ Len(r) = n + 1 /\ r[n + 1] = t /\ \A i \in 1 .. n : r[i] = s[i]
               /\ \A i \in 0 .. n : OpenAt(r, i) = OpenAt(s, i) /\ OpenAt(s, i) \in Int
               /\ OpenAt(r, n + 1) = OpenAt(s, n) + Nests(t)
               /\ \A i \in 1 .. n : Holders(r, i) = Holders(s, i)
<1>. DEFINE r == Append(s, t)
            n == Len(s)
<1>1. n \in Nat /\ Len(r) = n + 1 /\ r[n + 1] = t /\ \A i \in 1 .. n : r[i] = s[i]
  BY AppendProperties, LenProperties
<1>. HIDE DEF r, n
<1>2. ASSUME NEW i \in 0 .. n
      PROVE  OpenAt(r, i) = OpenAt(s, i) /\ OpenAt(s, i) \in Int
  <2>1. i \in Nat /\ \A j \in 1 .. i : r[j] = s[j]
    BY <1>1
  <2>. QED
    BY <2>1, OpenAtProperties, Zenon
<1>3. OpenAt(r, n + 1) = OpenAt(s, n) + Nests(t)
  <2>1. OpenAt(r, n + 1) = OpenAt(r, n) + Nests(r[n + 1])
    BY <1>1, OpenAtProperties, Zenon
  <2>2. OpenAt(r, n) = OpenAt(s, n)
    BY <1>1, <1>2
  <2>. QED
    BY <1>1, <2>1, <2>2, Zenon
<1>4. ASSUME NEW i \in 1 .. n
      PROVE  Holders(r, i) = Holders(s, i)
  <2>1. ASSUME NEW h \in 1 .. i - 1
        PROVE  /\ r[h] = s[h] /\ OpenAt(r, h) = OpenAt(s, h)
               /\ OpenAt(r, i - 1) = OpenAt(s, i - 1)
               /\ \A k \in h .. i - 1 : OpenAt(r, k) = OpenAt(s, k)
    <3>1. h \in 1 .. n /\ h \in 0 .. n /\ i - 1 \in 0 .. n /\ \A k \in h .. i - 1 : k \in 0 .. n
      BY <1>1
    <3>. QED
      BY <1>1, <1>2, <3>1, Zenon
  <2>. DEFINE P(h) == /\ r[h] \in BeginTokens
                      /\ OpenAt(r, i - 1) = OpenAt(r, h)
                      /\ \A k \in h .. i - 1 : OpenAt(r, k) >= OpenAt(r, h)
              Q(h) == /\ s[h] \in BeginTokens
                      /\ OpenAt(s, i - 1) = OpenAt(s, h)
                      /\ \A k \in h .. i - 1 : OpenAt(s, k) >= OpenAt(s, h)
  <2>2. \A h \in 1 .. i - 1 : P(h) <=> Q(h)
    BY <2>1, Zenon
  <2>3. Holders(r, i) = {h \in 1 .. i - 1 : P(h)} /\ Holders(s, i) = {h \in 1 .. i - 1 : Q(h)}
    BY DEF Holders
  <2>. HIDE DEF P, Q
  <2>. QED
    BY <2>2, <2>3
<1>. QED
  BY <1>1, <1>2, <1>3, <1>4, Zenon DEF r, n

(* The next token stands in the innermost open container.                  *)
LEMMA StandsInInnermost ==
    ASSUME NEW T, NEW s \in Seq(T), NEW t \in T, NEW at \in Seq(Nat),
           OpenedAt(s, at), Len(at) # 0
    PROVE  /\ Len(at) \in 1 .. Len(at) /\ at[Len(at)] \in 1 .. Len(s)
           /\ at[Len(at)] \in Holders(Append(s, t), Len(s) + 1)
           /\ Append(s, t)[at[Len(at)]] = s[at[Len(at)]]
<1>. DEFINE r == Append(s, t)
            n == Len(s)
            d == Len(at)
            h == at[d]
<1>1. /\ n \in Nat /\ Len(r) = n + 1 /\ r[n + 1] = t /\ \A i \in 1 .. n : r[i] = s[i]
      /\ \A i \in 0 .. n : OpenAt(r, i) = OpenAt(s, i) /\ OpenAt(s, i) \in Int
  BY AppendNests
<1>2. d \in Nat /\ d \in 1 .. d
  BY LenProperties
<1>3. /\ h \in 1 .. n /\ s[h] \in BeginTokens /\ OpenAt(s, h) = d /\ OpenAt(s, n) = d
      /\ \A k \in h .. n : OpenAt(s, k) >= d
  BY <1>2 DEF OpenedAt
<1>. HIDE DEF r, n, d, h
<1>4. h \in 0 .. n /\ n \in 0 .. n /\ (\A k \in h .. n : k \in 0 .. n) /\ (n + 1) - 1 = n
  BY <1>1, <1>3
<1>5. /\ r[h] = s[h] /\ OpenAt(r, h) = d /\ OpenAt(r, n) = d
      /\ \A k \in h .. n : OpenAt(r, k) >= d
  BY <1>1, <1>3, <1>4, Zenon
<1>6. h \in Holders(r, n + 1)
  BY <1>3, <1>4, <1>5 DEF Holders
<1>. QED
  BY <1>2, <1>3, <1>5, <1>6, Zenon DEF r, n, d, h

(* A sequence without its last element.                                    *)
LEMMA WithoutLast ==
    ASSUME NEW T, NEW s \in Seq(T), Len(s) # 0
    PROVE  LET b == SubSeq(s, 1, Len(s) - 1)
           IN  b \in Seq(T) /\ Len(b) = Len(s) - 1 /\ \A i \in 1 .. Len(s) - 1 : b[i] = s[i]
<1>. DEFINE m == Len(s) - 1
            b == SubSeq(s, 1, m)
<1>1. m \in Nat /\ \A i \in 1 .. m : s[i] \in T
  BY LenProperties, ElementOfSeq
<1>. HIDE DEF m
<1>2. /\ b \in Seq(T)
      /\ Len(b) = IF 1 <= m THEN m - 1 + 1 ELSE 0
      /\ \A i \in 1 .. m - 1 + 1 : b[i] = s[1 + i - 1]
  BY <1>1, SubSeqProperties
<1>. HIDE DEF b
<1>3. (IF 1 <= m THEN m - 1 + 1 ELSE 0) = m /\ m - 1 + 1 = m /\ \A i \in 1 .. m : 1 + i - 1 = i
  BY <1>1
<1>. QED
  BY <1>2, <1>3, Zenon DEF b, m

(* What is open behind one token more.                                     *)
LEMMA AppendOpens ==
    ASSUME NEW T, NEW s \in Seq(T), NEW t \in T, NEW at \in Seq(Nat), OpenedAt(s, at)
    PROVE  /\ t \notin BeginTokens \cup EndTokens => OpenedAt(Append(s, t), at)
           /\ t \in BeginTokens => /\ Append(at, Len(s) + 1) \in Seq(Nat)
                               /\ OpenedAt(Append(s, t), Append(at, Len(s) + 1))
           /\ t \in EndTokens /\ Len(at) # 0 => OpenedAt(Append(s, t), SubSeq(at, 1, Len(at) - 1))
<1>. DEFINE r == Append(s, t)
            n == Len(s)
            d == Len(at)
<1>1. /\ n \in Nat /\ Len(r) = n + 1 /\ r[n + 1] = t /\ \A i \in 1 .. n : r[i] = s[i]
      /\ \A i \in 0 .. n : OpenAt(r, i) = OpenAt(s, i) /\ OpenAt(s, i) \in Int
      /\ OpenAt(r, n + 1) = OpenAt(s, n) + Nests(t)
  BY AppendNests
<1>2. d \in Nat
  BY LenProperties
<1>. HIDE DEF r, n
<1>3. /\ OpenAt(s, n) = d
      /\ \A i \in 1 .. d : /\ at[i] \in 1 .. n /\ s[at[i]] \in BeginTokens /\ OpenAt(s, at[i]) = i
                           /\ \A k \in at[i] .. n : OpenAt(s, k) >= i
  BY DEF OpenedAt, n
<1>4. ASSUME NEW m \in 0 .. d, NEW b, Len(b) = m, \A i \in 1 .. m : b[i] = at[i],
             OpenAt(r, n + 1) = m
      PROVE  OpenedAt(r, b)
  <2>. SUFFICES ASSUME NEW i \in 1 .. m
                PROVE  /\ b[i] \in 1 .. n + 1 /\ r[b[i]] \in BeginTokens /\ OpenAt(r, b[i]) = i
                       /\ \A k \in b[i] .. n + 1 : OpenAt(r, k) >= i
    BY <1>1, <1>4 DEF OpenedAt
  <2>1. i \in 1 .. d /\ b[i] = at[i] /\ i <= m
    BY <1>2, <1>4
  <2>. DEFINE h == at[i]
  <2>2. /\ h \in 1 .. n /\ s[h] \in BeginTokens /\ OpenAt(s, h) = i
        /\ \A k \in h .. n : OpenAt(s, k) >= i
    BY <1>3, <2>1
  <2>. HIDE DEF h
  <2>3. h \in 1 .. n + 1 /\ h \in 0 .. n /\ \A k \in h .. n + 1 : k = n + 1 \/ (k \in h .. n /\ k \in 0 .. n)
    BY <1>1, <2>2
  <2>4. r[h] \in BeginTokens /\ OpenAt(r, h) = i
    BY <1>1, <2>2, <2>3, Zenon
  <2>5. \A k \in h .. n : k \in 0 .. n => OpenAt(r, k) >= i
    BY <1>1, <2>2, Zenon
  <2>6. OpenAt(r, n + 1) >= i
    BY <1>4, <2>1
  <2>7. \A k \in h .. n + 1 : OpenAt(r, k) >= i
    BY <2>3, <2>5, <2>6, Zenon
  <2>. QED
    BY <2>1, <2>3, <2>4, <2>7, Zenon DEF h
<1>5. CASE t \notin BeginTokens \cup EndTokens
  <2>1. OpenAt(r, n + 1) = d
    BY <1>1, <1>2, <1>3, <1>5 DEF Nests
  <2>2. OpenedAt(r, at)
    BY <1>2, <1>4, <2>1
  <2>. QED
    BY <1>5, <2>2 DEF r
<1>6. CASE t \in BeginTokens
  <2>. DEFINE b == Append(at, n + 1)
  <2>1. OpenAt(r, n + 1) = d + 1 /\ t \notin EndTokens
    BY <1>1, <1>2, <1>3, <1>6 DEF Nests, BeginTokens, EndTokens
  <2>2. /\ b \in Seq(Nat) /\ Len(b) = d + 1 /\ b[d + 1] = n + 1
        /\ \A i \in 1 .. d : b[i] = at[i]
    BY <1>1, AppendProperties
  <2>. HIDE DEF b
  <2>3. ASSUME NEW i \in 1 .. d + 1
        PROVE  /\ b[i] \in 1 .. n + 1 /\ r[b[i]] \in BeginTokens /\ OpenAt(r, b[i]) = i
               /\ \A k \in b[i] .. n + 1 : OpenAt(r, k) >= i
    <3>1. CASE i = d + 1
      <4>1. b[i] = n + 1 /\ n + 1 \in 1 .. n + 1 /\ (\A k \in n + 1 .. n + 1 : k = n + 1)
        BY <1>1, <2>2, <3>1
      <4>2. OpenAt(r, n + 1) = i /\ i >= i
        BY <2>1, <3>1, <1>2
      <4>. QED
        BY <1>1, <1>6, <4>1, <4>2, Zenon
    <3>2. CASE i # d + 1
      <4>1. i \in 1 .. d /\ b[i] = at[i] /\ i <= d + 1
        BY <1>2, <2>2, <3>2
      <4>. DEFINE h == at[i]
      <4>2. /\ h \in 1 .. n /\ s[h] \in BeginTokens /\ OpenAt(s, h) = i
            /\ \A k \in h .. n : OpenAt(s, k) >= i
        BY <1>3, <4>1
      <4>. HIDE DEF h
      <4>3. h \in 1 .. n + 1 /\ h \in 0 .. n /\ \A k \in h .. n + 1 : k = n + 1 \/ (k \in h .. n /\ k \in 0 .. n)
        BY <1>1, <4>2
      <4>4. r[h] \in BeginTokens /\ OpenAt(r, h) = i
        BY <1>1, <4>2, <4>3, Zenon
      <4>5. \A k \in h .. n : k \in 0 .. n => OpenAt(r, k) >= i
        BY <1>1, <4>2, Zenon
      <4>6. OpenAt(r, n + 1) >= i
        BY <1>2, <2>1, <4>1
      <4>7. \A k \in h .. n + 1 : OpenAt(r, k) >= i
        BY <4>3, <4>5, <4>6, Zenon
      <4>. QED
        BY <4>1, <4>3, <4>4, <4>7, Zenon DEF h
    <3>. QED
      BY <3>1, <3>2
  <2>4. OpenedAt(r, b)
    BY <1>1, <2>1, <2>2, <2>3 DEF OpenedAt
  <2>. QED
    BY <1>6, <2>1, <2>2, <2>4 DEF r, b, n
<1>7. CASE t \in EndTokens /\ d # 0
  <2>. DEFINE b == SubSeq(at, 1, d - 1)
  <2>0. t \notin BeginTokens
    BY <1>7 DEF BeginTokens, EndTokens
  <2>1. OpenAt(r, n + 1) = d - 1
    BY <1>1, <1>2, <1>3, <1>7, <2>0 DEF Nests
  <2>2. Len(b) = d - 1 /\ \A i \in 1 .. d - 1 : b[i] = at[i]
    BY <1>7, WithoutLast
  <2>. HIDE DEF b
  <2>3. OpenedAt(r, b)
    BY <1>2, <1>4, <1>7, <2>1, <2>2
  <2>. QED
    BY <1>7, <2>0, <2>3 DEF r, b
<1>. QED
  BY <1>2, <1>5, <1>6, <1>7 DEF r, n
=============================================================================
