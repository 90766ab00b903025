--------------------------- MODULE Decoder_proofs ---------------------------
(***************************************************************************)
(* For every input, type, reader and limit: the depth a decoder counts and *)
(* the frames it keeps are those of the containers it is in, also behind   *)
(* whatever number of variants that untagged enums gave up.                *)
(***************************************************************************)
EXTENDS Decoder, Wire, TLAPS, SequenceTheorems, FiniteSetTheorems, WellFoundedInduction

-----------------------------------------------------------------------------
(* Sequences, by what they hold.                                           *)

Sequence(s) == s \in Seq({s[i] : i \in DOMAIN s})

(* A sequence over any set is one over its own elements.                   *)
LEMMA SequenceFacts ==
    ASSUME NEW S, NEW s \in Seq(S)
    PROVE  Sequence(s) /\ Len(s) \in Nat /\ DOMAIN s = 1 .. Len(s)
<1>1. Len(s) \in Nat /\ s \in [1 .. Len(s) -> S] /\ DOMAIN s = 1 .. Len(s)
  BY LenProperties
<1>2. s \in [1 .. Len(s) -> {s[i] : i \in DOMAIN s}]
  BY <1>1
<1>. QED
  BY <1>1, <1>2, SeqDef DEF Sequence

(* Its length is a number, and its domain goes up to it.                   *)
LEMMA SequenceLength ==
    ASSUME NEW s, Sequence(s)
    PROVE  Len(s) \in Nat /\ DOMAIN s = 1 .. Len(s)
BY SequenceFacts DEF Sequence

(* An element is put before a sequence: the others are one further.        *)
LEMMA PushedSequence ==
    ASSUME NEW s, Sequence(s), NEW t
    PROVE  /\ Sequence(<<t>> \o s)
           /\ Len(<<t>> \o s) = Len(s) + 1
           /\ (<<t>> \o s)[1] = t
           /\ \A i \in 1 .. Len(s) : (<<t>> \o s)[i + 1] = s[i]
<1>. DEFINE S == {s[i] : i \in DOMAIN s} \cup {t}
<1>1. s \in Seq(S)
  BY SeqMonotonic DEF Sequence
<1>2. <<t>> \in Seq(S) /\ Len(<<t>>) = 1 /\ <<t>>[1] = t
  OBVIOUS
<1>. HIDE DEF S
<1>3. /\ <<t>> \o s \in Seq(S)
      /\ Len(<<t>> \o s) = 1 + Len(s)
      /\ \A i \in 1 .. 1 + Len(s) : (<<t>> \o s)[i] = IF i <= 1 THEN <<t>>[i] ELSE s[i - 1]
  BY <1>1, <1>2, ConcatProperties
<1>4. Len(s) \in Nat
  BY SequenceLength
<1>5. Sequence(<<t>> \o s)
  BY <1>3, SequenceFacts
<1>. QED
  BY <1>2, <1>3, <1>4, <1>5

(* An element is put behind a sequence: the others stay.                   *)
LEMMA AppendedSequence ==
    ASSUME NEW s, Sequence(s), NEW t
    PROVE  /\ Sequence(Append(s, t))
           /\ Len(Append(s, t)) = Len(s) + 1
           /\ Append(s, t)[Len(s) + 1] = t
           /\ \A i \in 1 .. Len(s) : Append(s, t)[i] = s[i]
<1>. DEFINE S == {s[i] : i \in DOMAIN s} \cup {t}
<1>1. s \in Seq(S) /\ t \in S
  BY SeqMonotonic DEF Sequence
<1>. HIDE DEF S
<1>2. /\ Append(s, t) \in Seq(S)
      /\ Len(Append(s, t)) = Len(s) + 1
      /\ \A i \in 1 .. Len(s) : Append(s, t)[i] = s[i]
      /\ Append(s, t)[Len(s) + 1] = t
  BY <1>1, AppendProperties
<1>3. Sequence(Append(s, t))
  BY <1>2, SequenceFacts
<1>. QED
  BY <1>2, <1>3

(* A part of a sequence, from its m-th to its n-th element.                *)
LEMMA PartOfSequence ==
    ASSUME NEW s, Sequence(s), NEW m \in Nat \ {0}, NEW n \in 0 .. Len(s), m <= n + 1
    PROVE  /\ Sequence(SubSeq(s, m, n))
           /\ Len(SubSeq(s, m, n)) = n + 1 - m
           /\ \A i \in 1 .. n + 1 - m : SubSeq(s, m, n)[i] = s[m + i - 1]
<1>. DEFINE S == {s[i] : i \in DOMAIN s}
<1>1. m \in Int /\ n \in Int /\ Len(s) \in Nat /\ DOMAIN s = 1 .. Len(s)
  BY SequenceLength
<1>2. \A i \in m .. n : s[i] \in S
  BY <1>1
<1>. HIDE DEF S
<1>3. /\ SubSeq(s, m, n) \in Seq(S)
      /\ Len(SubSeq(s, m, n)) = IF m <= n THEN n - m + 1 ELSE 0
      /\ \A i \in 1 .. n - m + 1 : SubSeq(s, m, n)[i] = s[m + i - 1]
  BY <1>1, <1>2, SubSeqProperties
<1>4. Sequence(SubSeq(s, m, n))
  BY <1>3, SequenceFacts
<1>5. n - m + 1 = n + 1 - m /\ (m <= n \/ n + 1 - m = 0)
  BY <1>1
<1>. QED
  BY <1>1, <1>3, <1>4, <1>5

(* An element is changed: the length stays.                                *)
LEMMA ChangedSequence ==
    ASSUME NEW s, Sequence(s), NEW i, NEW e
    PROVE  Sequence([s EXCEPT ![i] = e]) /\ Len([s EXCEPT ![i] = e]) = Len(s)
<1>. DEFINE S == {s[j] : j \in DOMAIN s} \cup {e}
<1>1. Len(s) \in Nat /\ DOMAIN s = 1 .. Len(s) /\ s \in Seq(S)
  BY SequenceLength, SeqMonotonic DEF Sequence
<1>2. [s EXCEPT ![i] = e] \in [1 .. Len(s) -> S]
  BY <1>1, LenProperties
<1>. HIDE DEF S
<1>3. [s EXCEPT ![i] = e] \in Seq(S)
  BY <1>1, <1>2, SeqDef
<1>4. Sequence([s EXCEPT ![i] = e]) /\ Len([s EXCEPT ![i] = e]) \in Nat
  BY <1>3, SequenceFacts
<1>5. 1 .. Len([s EXCEPT ![i] = e]) = 1 .. Len(s)
  BY <1>1, <1>4, SequenceLength
<1>6. \A a, b \in Nat : 1 .. a = 1 .. b => a = b
  <2>. SUFFICES ASSUME NEW a \in Nat, NEW b \in Nat, 1 .. a = 1 .. b, a < b PROVE FALSE
    OBVIOUS
  <2>1. b \in 1 .. b /\ b \notin 1 .. a
    OBVIOUS
  <2>. QED
    BY <2>1
<1>. QED
  BY <1>1, <1>4, <1>5, <1>6

(* A set of positions has a first one, which CHOOSE finds.                 *)
LEMMA FirstOne ==
    ASSUME NEW P, P \subseteq Nat, P # {}
    PROVE  LET i == CHOOSE i \in P : \A j \in P : i <= j
           IN  i \in P /\ \A j \in P : i <= j
<1>1. PICK x \in P : \A y \in P : ~ (<<y, x>> \in OpToRel(<, Nat))
  BY WFMin, NatLessThanWellFounded, Zenon
<1>2. ASSUME NEW y \in P PROVE x <= y
  <2>1. x \in Nat /\ y \in Nat
    BY <1>1
  <2>2. ~ (y < x)
    BY <1>1, <2>1, Zenon DEF OpToRel
  <2>. QED
    BY <2>1, <2>2
<1>. QED
  BY <1>2

-----------------------------------------------------------------------------
(* How many containers a stack of tasks is in.                             *)

(* The tail of a stack counts the containers it counted as a part of the   *)
(* stack.                                                                  *)
LEMMA CountShifts ==
    ASSUME NEW ts, NEW us, NEW n \in Nat, Len(us) \in Nat, Len(ts) = Len(us) + n,
           \A j \in 1 .. Len(us) : us[j].do = ts[j + n].do,
           NEW i \in Nat \ {0}
    PROVE  OpenFrom(us, i) = OpenFrom(ts, i + n)
<1>. DEFINE A == {j \in i .. Len(us) : us[j].do \in Inside}
            B == {j \in i + n .. Len(ts) : ts[j].do \in Inside}
            f == [j \in A |-> j + n]
<1>1. IsFiniteSet(A)
  <2>1. A \in SUBSET (i .. Len(us)) /\ i \in Int /\ Len(us) \in Int
    OBVIOUS
  <2>. QED
    BY <2>1, FS_Interval, FS_Subset
<1>2. f \in Bijection(A, B)
  <2>1. f \in [A -> B]
    <3>1. ASSUME NEW j \in A PROVE j + n \in B
      <4>1. j \in 1 .. Len(us) /\ j + n \in i + n .. Len(ts)
        OBVIOUS
      <4>2. us[j].do = ts[j + n].do /\ us[j].do \in Inside
        BY <4>1
      <4>. QED
        BY <4>1, <4>2
    <3>. HIDE DEF A, B
    <3>. QED
      BY <3>1
  <2>2. \A j, l \in A : f[j] = f[l] => j = l
    OBVIOUS
  <2>3. \A l \in B : \E j \in A : f[j] = l
    <3>1. SUFFICES ASSUME NEW l \in B PROVE l - n \in A /\ f[l - n] = l
      OBVIOUS
    <3>2. l - n \in 1 .. Len(us) /\ us[l - n].do = ts[(l - n) + n].do /\ (l - n) + n = l
      OBVIOUS
    <3>. QED
      BY <3>2
  <2>. QED
    BY <2>1, <2>2, <2>3, Zenon DEF Bijection, Injection, Surjection, IsInjective
<1>3. Cardinality(B) = Cardinality(A)
  BY <1>1, <1>2, FS_Bijection DEF ExistsBijection
<1>. QED
  BY <1>3 DEF OpenFrom

(* From one task to the next the count goes down by one or stays.          *)
LEMMA CountBounds ==
    ASSUME NEW ts, Len(ts) \in Nat, NEW i \in Nat \ {0}
    PROVE  /\ OpenFrom(ts, i) \in Nat
           /\ \A j \in Nat : i <= j => OpenFrom(ts, j) <= OpenFrom(ts, i)
           /\ i > Len(ts) => OpenFrom(ts, i) = 0
           /\ i <= Len(ts) => OpenFrom(ts, i) = OpenFrom(ts, i + 1)
                                                + IF ts[i].do \in Inside THEN 1 ELSE 0
<1>. DEFINE Rest(j) == {l \in j .. Len(ts) : ts[l].do \in Inside}
<1>1. ASSUME NEW j \in Nat PROVE IsFiniteSet(Rest(j))
  <2>1. Rest(j) \in SUBSET (j .. Len(ts)) /\ j \in Int /\ Len(ts) \in Int
    OBVIOUS
  <2>. QED
    BY <2>1, FS_Interval, FS_Subset
<1>2. ASSUME NEW j \in Nat, i <= j PROVE Cardinality(Rest(j)) <= Cardinality(Rest(i))
  <2>1. Rest(j) \in SUBSET Rest(i)
    BY <1>2
  <2>. QED
    BY <1>1, <2>1, FS_Subset
<1>3. i > Len(ts) => Rest(i) = {}
  OBVIOUS
<1>4. /\ i <= Len(ts) /\ ts[i].do \in Inside => Rest(i) = Rest(i + 1) \cup {i}
      /\ i <= Len(ts) /\ ts[i].do \notin Inside => Rest(i) = Rest(i + 1)
  OBVIOUS
<1>5. i \notin Rest(i + 1)
  OBVIOUS
<1>6. Cardinality(Rest(i)) \in Nat
  BY <1>1, FS_CardinalityType
<1>. HIDE DEF Rest
<1>7. i <= Len(ts) => Cardinality(Rest(i)) = Cardinality(Rest(i + 1)) + IF ts[i].do \in Inside THEN 1 ELSE 0
  <2>1. IsFiniteSet(Rest(i + 1)) /\ Cardinality(Rest(i + 1)) \in Nat
    BY <1>1, FS_CardinalityType
  <2>2. Cardinality(Rest(i + 1) \cup {i}) = Cardinality(Rest(i + 1)) + 1
    BY <2>1, <1>5, FS_AddElement
  <2>3. CASE ts[i].do \in Inside
    BY <1>4, <2>2, <2>3
  <2>4. CASE ts[i].do \notin Inside
    BY <1>4, <2>1, <2>4
  <2>. QED
    BY <2>3, <2>4
<1>8. \A j : OpenFrom(ts, j) = Cardinality(Rest(j))
  BY DEF OpenFrom, Rest
<1>. QED
  BY <1>2, <1>3, <1>6, <1>7, <1>8, FS_EmptySet

-----------------------------------------------------------------------------
(* Stacks of tasks over the frames of a cursor.                            *)

TaskFields == DOMAIN Task("decode", NoToken)

\* JSON and Smile keep no frames.
FramesAt(n) == IF source \in FramedSources THEN n ELSE 0

\* A task that n containers are open for, its own among them.
Placed(fr, t, n) ==
    /\ DOMAIN t = TaskFields
    /\ t.do = "try" => /\ t.mark.depth = n
                       /\ source # "smile" => t.mark.frame_len = FramesAt(n)
    /\ source \in FramedSources /\ t.do \in Inside =>
           (t.do \in Membered <=> fr[n].kind = "{")

Stack(fr, ts) ==
    /\ Sequence(ts)
    /\ \A i \in 1 .. Len(ts) : Placed(fr, ts[i], OpenFrom(ts, i))

One(t) == IF t.do \in Inside THEN 1 ELSE 0

(* A task that is rightly placed goes on top of a stack.                   *)
LEMMA StackPushes ==
    ASSUME NEW fr, NEW ts, Stack(fr, ts), NEW t, Placed(fr, t, OpenFrom(ts, 1) + One(t))
    PROVE  /\ Stack(fr, <<t>> \o ts)
           /\ OpenFrom(<<t>> \o ts, 1) = OpenFrom(ts, 1) + One(t)
<1>. DEFINE us == <<t>> \o ts
<1>1. /\ Sequence(us) /\ Len(us) = Len(ts) + 1 /\ Len(ts) \in Nat /\ us[1] = t
      /\ \A i \in 1 .. Len(ts) : us[i + 1] = ts[i]
  BY PushedSequence, SequenceLength DEF Stack
<1>. HIDE DEF us
<1>2. \A i \in Nat \ {0} : OpenFrom(ts, i) = OpenFrom(us, i + 1)
  BY <1>1, CountShifts
<1>3. OpenFrom(us, 1) = OpenFrom(ts, 1) + One(t)
  <2>1. Len(us) \in Nat /\ 1 <= Len(us) /\ 1 + 1 = 2 /\ OpenFrom(us, 1 + 1) = OpenFrom(ts, 1)
    BY <1>1, <1>2
  <2>2. OpenFrom(us, 1) = OpenFrom(us, 1 + 1) + One(us[1])
    BY <2>1, CountBounds DEF One
  <2>. QED
    BY <1>1, <2>1, <2>2
<1>4. ASSUME NEW i \in 1 .. Len(us) PROVE Placed(fr, us[i], OpenFrom(us, i))
  <2>1. CASE i = 1
    BY <1>1, <1>3, <2>1
  <2>2. CASE i # 1
    <3>1. i - 1 \in 1 .. Len(ts) /\ (i - 1) + 1 = i
      BY <1>1, <2>2
    <3>2. PICK l \in 1 .. Len(ts) : l + 1 = i
      BY <3>1
    <3>3. us[l + 1] = ts[l] /\ OpenFrom(us, l + 1) = OpenFrom(ts, l)
      BY <1>1, <1>2, <3>2
    <3>4. us[i] = ts[l] /\ OpenFrom(us, i) = OpenFrom(ts, l)
      BY <3>2, <3>3, Zenon
    <3>. QED
      BY <3>2, <3>4 DEF Stack
  <2>. QED
    BY <2>1, <2>2
<1>. QED
  BY <1>1, <1>3, <1>4 DEF Stack, us

(* What is left of a stack when its top n - 1 tasks are dropped.           *)
LEMMA StackDrops ==
    ASSUME NEW fr, NEW ts, Stack(fr, ts), NEW n \in 1 .. Len(ts) + 1
    PROVE  LET us == SubSeq(ts, n, Len(ts))
           IN  /\ Stack(fr, us)
               /\ OpenFrom(us, 1) = OpenFrom(ts, n)
<1>. DEFINE us == SubSeq(ts, n, Len(ts))
<1>1. Len(ts) \in Nat /\ Sequence(ts)
  BY SequenceLength DEF Stack
<1>2. Sequence(us) /\ Len(us) = Len(ts) + 1 - n /\ \A i \in 1 .. Len(us) : us[i] = ts[n + i - 1]
  BY <1>1, PartOfSequence
<1>. HIDE DEF us
<1>3. PICK m \in Nat : n = m + 1
  <2>1. n - 1 \in Nat /\ n = (n - 1) + 1
    BY <1>1
  <2>. QED
    BY <2>1
<1>4. Len(us) \in Nat /\ Len(ts) = Len(us) + m /\ \A i \in 1 .. Len(us) : us[i] = ts[i + m]
  <2>1. \A i \in 1 .. Len(us) : n + i - 1 = i + m
    BY <1>1, <1>2, <1>3
  <2>. QED
    BY <1>1, <1>2, <1>3, <2>1
<1>5. ASSUME NEW i \in Nat \ {0} PROVE OpenFrom(us, i) = OpenFrom(ts, i + m)
  BY <1>4, CountShifts
<1>6. ASSUME NEW i \in 1 .. Len(us) PROVE Placed(fr, us[i], OpenFrom(us, i))
  <2>1. i + m \in 1 .. Len(ts) /\ i \in Nat \ {0}
    BY <1>4
  <2>2. us[i] = ts[i + m] /\ OpenFrom(us, i) = OpenFrom(ts, i + m)
    BY <1>4, <1>5, <2>1
  <2>3. Placed(fr, ts[i + m], OpenFrom(ts, i + m))
    BY <2>1 DEF Stack
  <2>. QED
    BY <2>2, <2>3
<1>7. OpenFrom(us, 1) = OpenFrom(ts, n)
  <2>1. 1 + m = n /\ 1 \in Nat \ {0}
    BY <1>3
  <2>2. OpenFrom(us, 1) = OpenFrom(ts, 1 + m)
    BY <1>5, <2>1
  <2>. QED
    BY <2>1, <2>2, Zenon
<1>. QED
  BY <1>2, <1>6, <1>7 DEF Stack, us

(* The counts of a stack are numbers that go down from the top.            *)
LEMMA StackCounts ==
    ASSUME NEW fr, NEW ts, Stack(fr, ts)
    PROVE  /\ OpenFrom(ts, 1) \in Nat
           /\ \A i \in 1 .. Len(ts) :
                 /\ OpenFrom(ts, i) \in Nat
                 /\ OpenFrom(ts, i) <= OpenFrom(ts, 1)
                 /\ OpenFrom(ts, i) = OpenFrom(ts, i + 1) + One(ts[i])
                 /\ i # 1 => OpenFrom(ts, i) <= OpenFrom(ts, 2)
<1>1. Len(ts) \in Nat
  BY SequenceLength DEF Stack
<1>. QED
  BY <1>1, CountBounds DEF One

(* A stack fits other frames that are of the same kinds.                   *)
LEMMA StackOfSameFrames ==
    ASSUME NEW fr, NEW ts, Stack(fr, ts), NEW gr,
           source \in FramedSources => \A j \in 1 .. OpenFrom(ts, 1) : gr[j].kind = fr[j].kind
    PROVE  Stack(gr, ts)
<1>1. SUFFICES ASSUME NEW i \in 1 .. Len(ts) PROVE Placed(gr, ts[i], OpenFrom(ts, i))
  BY DEF Stack
<1>2. Placed(fr, ts[i], OpenFrom(ts, i))
  BY DEF Stack
<1>3. ASSUME source \in FramedSources, ts[i].do \in Inside
      PROVE  gr[OpenFrom(ts, i)].kind = fr[OpenFrom(ts, i)].kind
  <2>1. OpenFrom(ts, i) \in 1 .. OpenFrom(ts, 1)
    <3>1. i + 1 \in Nat \ {0} /\ Len(ts) \in Nat
      BY SequenceLength DEF Stack
    <3>2. OpenFrom(ts, i + 1) \in Nat
      BY <3>1, CountBounds
    <3>. QED
      BY <1>3, <3>2, StackCounts DEF One
  <2>. QED
    BY <1>3, <2>1
<1>. QED
  BY <1>2, <1>3 DEF Placed

(* Dropping the enums that are done drops no container.                    *)
LEMMA StackSettles ==
    ASSUME NEW fr, NEW ts, Stack(fr, ts)
    PROVE  /\ Stack(fr, Settled(ts))
           /\ OpenFrom(Settled(ts), 1) = OpenFrom(ts, 1)
<1>. DEFINE Open == {i \in 1 .. Len(ts) : ts[i].do # "try"}
            first == CHOOSE i \in Open : \A j \in Open : i <= j
<1>0. Len(ts) \in Nat
  BY SequenceLength DEF Stack
<1>1. CASE Open = {}
  <2>1. Settled(ts) = <<>>
    BY <1>1 DEF Settled
  <2>2. Stack(fr, <<>>) /\ OpenFrom(<<>>, 1) = 0
    <3>1. Sequence(<<>>) /\ Len(<<>>) = 0
      BY SequenceFacts, EmptySeq
    <3>2. OpenFrom(<<>>, 1) = 0
      BY <3>1, CountBounds
    <3>. QED
      BY <3>1, <3>2 DEF Stack
  <2>3. {j \in 1 .. Len(ts) : ts[j].do \in Inside} = {}
    BY <1>1 DEF Inside
  <2>. QED
    BY <2>1, <2>2, <2>3, FS_EmptySet DEF OpenFrom
<1>2. CASE Open # {}
  <2>1. first \in Open /\ \A j \in Open : first <= j
    <3>1. Open \subseteq Nat
      OBVIOUS
    <3>. HIDE DEF Open
    <3>. QED
      BY <1>2, <3>1, FirstOne
  <2>2. Settled(ts) = SubSeq(ts, first, Len(ts))
    BY <1>2 DEF Settled
  <2>. HIDE DEF first
  <2>3. first \in 1 .. Len(ts) + 1
    BY <1>0, <2>1
  <2>4. {j \in first .. Len(ts) : ts[j].do \in Inside} = {j \in 1 .. Len(ts) : ts[j].do \in Inside}
    <3>1. \A j \in 1 .. Len(ts) : ts[j].do \in Inside => first <= j
      BY <2>1 DEF Inside
    <3>. QED
      BY <1>0, <2>3, <3>1
  <2>5. OpenFrom(ts, first) = OpenFrom(ts, 1)
    BY <2>4 DEF OpenFrom
  <2>. QED
    BY <2>2, <2>3, <2>5, StackDrops
<1>. QED
  BY <1>1, <1>2

-----------------------------------------------------------------------------
(* Cursors, by what a call may do to them.                                 *)

Fields == DOMAIN Cursor(0)

FrameFields == DOMAIN NoFrame

Sound(k) ==
    /\ DOMAIN k = Fields
    /\ Sequence(k.frames)
    /\ \A i \in 1 .. Len(k.frames) : DOMAIN k.frames[i] = FrameFields
    /\ DOMAIN k.pending = FrameFields

\* The first n frames of k are still there.
Holds(k, d, n) ==
    /\ Sound(d)
    /\ n <= Len(d.frames)
    /\ \A i \in 1 .. n : d.frames[i].kind = k.frames[i].kind

\* A call that is not about a container.
Kept(k, d) ==
    /\ Holds(k, d, Len(k.frames))
    /\ Len(d.frames) = Len(k.frames)
    /\ d.depth = k.depth

\* A container of a reader that keeps frames was entered.
Pushed(k, opener, d) ==
    /\ Holds(k, d, Len(k.frames))
    /\ Len(d.frames) = Len(k.frames) + 1
    /\ d.frames[Len(k.frames) + 1].kind = opener
    /\ d.depth = k.depth + 1

\* It was left.
Popped(k, d) ==
    /\ Len(k.frames) # 0
    /\ Holds(k, d, GiveBack(Len(k.frames)))
    /\ Len(d.frames) = GiveBack(Len(k.frames))
    /\ d.depth = GiveBack(k.depth)

(* The fields of cursors and frames; a cursor starts sound, at depth zero, *)
(* with no frames.                                                         *)
LEMMA CursorFields ==
    /\ Fields = {"pos", "look", "avail", "depth", "frames", "pending", "names", "values"}
    /\ FrameFields = {"kind", "left", "open", "type"}
    /\ \A n : /\ Sound(Cursor(n))
              /\ Cursor(n).depth = 0
              /\ Len(Cursor(n).frames) = 0
<1>1. Sequence(<<>>) /\ Len(<<>>) = 0
  BY SequenceFacts, EmptySeq
<1>. QED
  BY <1>1 DEF Fields, FrameFields, Cursor, NoFrame, Sound

(* A cursor that nothing happened to is kept.                              *)
LEMMA KeptItself ==
    ASSUME NEW k, Sound(k)
    PROVE  Kept(k, k) /\ Len(k.frames) \in Nat
<1>1. Len(k.frames) \in Nat
  BY SequenceLength DEF Sound
<1>. QED
  BY <1>1 DEF Kept, Holds

(* A change of another field, and of the count in a frame.                 *)
LEMMA KeptByChanges ==
    ASSUME NEW k, NEW e, Kept(k, e)
    PROVE  /\ \A n : Kept(k, [e EXCEPT !.pos = n])
           /\ \A n : Kept(k, [e EXCEPT !.look = n])
           /\ \A n : Kept(k, [e EXCEPT !.avail = n])
           /\ \A n : Kept(k, [e EXCEPT !.names = n])
           /\ \A n : Kept(k, [e EXCEPT !.values = n])
           /\ \A f : DOMAIN f = FrameFields => Kept(k, [e EXCEPT !.pending = f])
           /\ \A n : Kept(k, [e EXCEPT !.frames[Len(e.frames)].left = n])
<1>1. /\ \A n : Kept(k, [e EXCEPT !.pos = n])
      /\ \A n : Kept(k, [e EXCEPT !.look = n])
      /\ \A n : Kept(k, [e EXCEPT !.avail = n])
      /\ \A n : Kept(k, [e EXCEPT !.names = n])
      /\ \A n : Kept(k, [e EXCEPT !.values = n])
      /\ \A f : DOMAIN f = FrameFields => Kept(k, [e EXCEPT !.pending = f])
  BY CursorFields DEF Kept, Holds, Sound
<1>2. ASSUME NEW n PROVE Kept(k, [e EXCEPT !.frames[Len(e.frames)].left = n])
  <2>. DEFINE top == [e.frames[Len(e.frames)] EXCEPT !.left = n]
              fs == [e.frames EXCEPT ![Len(e.frames)] = top]
              d == [e EXCEPT !.frames = fs]
  <2>1. Sequence(fs) /\ Len(fs) = Len(e.frames) /\ Len(e.frames) \in Nat /\ DOMAIN e.frames = 1 .. Len(e.frames)
    BY ChangedSequence, SequenceLength DEF Kept, Holds, Sound
  <2>2. \A i \in 1 .. Len(e.frames) : DOMAIN fs[i] = FrameFields /\ fs[i].kind = e.frames[i].kind
    BY <2>1, CursorFields DEF Kept, Holds, Sound
  <2>3. d = [e EXCEPT !.frames[Len(e.frames)].left = n]
    OBVIOUS
  <2>. HIDE DEF fs
  <2>4. DOMAIN d = Fields /\ d.frames = fs /\ d.depth = e.depth /\ d.pending = e.pending
    BY CursorFields DEF Kept, Holds, Sound
  <2>. HIDE DEF d
  <2>5. Kept(k, d)
    BY <2>1, <2>2, <2>4 DEF Kept, Holds, Sound
  <2>. QED
    BY <2>3, <2>5
<1>. QED
  BY <1>1, <1>2

(* A frame goes on top of those of a cursor that is one level deeper.      *)
LEMMA PushedFrame ==
    ASSUME NEW k, Sound(k), NEW e, Kept([k EXCEPT !.depth = @ + 1], e),
           NEW f, DOMAIN f = FrameFields
    PROVE  Pushed(k, f.kind, Push(e, f))
<1>. DEFINE d == Push(e, f)
            fs == Append(e.frames, f)
<1>1. DOMAIN e = Fields /\ Sequence(e.frames) /\ Len(e.frames) = Len(k.frames) /\ Len(k.frames) \in Nat
  BY CursorFields, SequenceLength DEF Kept, Holds, Sound
<1>2. /\ Sequence(fs) /\ Len(fs) = Len(k.frames) + 1 /\ fs[Len(k.frames) + 1] = f
      /\ \A i \in 1 .. Len(k.frames) : fs[i] = e.frames[i]
  BY <1>1, AppendedSequence
<1>. HIDE DEF fs
<1>3. DOMAIN d = Fields /\ d.frames = fs /\ d.depth = e.depth /\ d.pending = NoFrame
  BY <1>1, CursorFields DEF Push, fs
<1>. HIDE DEF d
<1>4. e.depth = k.depth + 1
  BY CursorFields DEF Kept, Sound
<1>5. \A i \in 1 .. Len(k.frames) :
          DOMAIN e.frames[i] = FrameFields /\ e.frames[i].kind = k.frames[i].kind
  BY <1>1, CursorFields DEF Kept, Holds, Sound
<1>6. Sound(d)
  BY <1>1, <1>2, <1>3, <1>5 DEF Sound, FrameFields
<1>7. Pushed(k, f.kind, d)
  BY <1>1, <1>2, <1>3, <1>4, <1>5, <1>6 DEF Pushed, Holds
<1>. QED
  BY <1>7 DEF d

(* The innermost frame is dropped.                                         *)
LEMMA PoppedFrame ==
    ASSUME NEW k, Sound(k), k.frames # <<>>
    PROVE  /\ Len(k.frames) # 0
           /\ Sound(Pop(k))
           /\ Len(Pop(k).frames) = GiveBack(Len(k.frames))
           /\ \A i \in 1 .. GiveBack(Len(k.frames)) : Pop(k).frames[i].kind = k.frames[i].kind
           /\ Pop(k).depth = k.depth
<1>. DEFINE d == Pop(k)
            n == Len(k.frames) - 1
            fs == SubSeq(k.frames, 1, n)
<1>1. Len(k.frames) \in Nat /\ Len(k.frames) # 0
  BY SequenceLength, EmptySeq DEF Sound, Sequence
<1>2. n \in 0 .. Len(k.frames) /\ n = GiveBack(Len(k.frames))
  BY <1>1 DEF GiveBack
<1>. HIDE DEF n
<1>3. /\ Sequence(fs) /\ Len(fs) = n + 1 - 1
      /\ \A i \in 1 .. n + 1 - 1 : fs[i] = k.frames[1 + i - 1]
  BY <1>2, PartOfSequence DEF Sound
<1>4. Sequence(fs) /\ Len(fs) = n /\ \A i \in 1 .. n : fs[i] = k.frames[i]
  BY <1>1, <1>2, <1>3
<1>. HIDE DEF fs
<1>5. DOMAIN d = Fields /\ d.frames = fs /\ d.depth = k.depth /\ d.pending = k.pending
  BY CursorFields DEF Pop, fs, n, Sound
<1>. HIDE DEF d
<1>. QED
  BY <1>1, <1>2, <1>4, <1>5 DEF Sound, d

\* What entering and leaving a container come to.
Entered(k, opener, o) ==
    IF o.ok THEN Pushed(k, opener, o.c) ELSE Holds(k, o.c, Len(k.frames))

Left(k, o) == IF o.ok THEN Popped(k, o.c) ELSE Holds(k, o.c, GiveBack(Len(k.frames)))

(* The depth is charged before the bracket is read.                        *)
LEMMA Deeper ==
    ASSUME NEW k, Sound(k)
    PROVE  LET e == [k EXCEPT !.depth = @ + 1]
           IN  /\ Sound(e)
               /\ Kept(e, e)
               /\ \A d : Kept(e, d) => Holds(k, d, Len(k.frames))
               /\ Holds(k, k, Len(k.frames))
<1>. DEFINE e == [k EXCEPT !.depth = @ + 1]
<1>1. DOMAIN e = Fields /\ e.frames = k.frames /\ e.pending = k.pending
  BY CursorFields DEF Sound
<1>. HIDE DEF e
<1>2. Sound(e)
  BY <1>1 DEF Sound
<1>3. Kept(e, e) /\ Kept(k, k)
  BY <1>2, KeptItself
<1>4. \A d : Kept(e, d) => Holds(k, d, Len(k.frames))
  BY <1>1 DEF Kept, Holds
<1>. QED
  BY <1>2, <1>3, <1>4 DEF e, Kept

(* It is given back behind the closer.                                     *)
LEMMA Shallower ==
    ASSUME NEW k, Sound(k), k.frames # <<>>, NEW e, Kept(Pop(k), e)
    PROVE  /\ Popped(k, Leave(e))
           /\ Holds(k, e, GiveBack(Len(k.frames)))
<1>1. /\ Len(k.frames) # 0
      /\ Len(Pop(k).frames) = GiveBack(Len(k.frames))
      /\ \A i \in 1 .. GiveBack(Len(k.frames)) : Pop(k).frames[i].kind = k.frames[i].kind
      /\ Pop(k).depth = k.depth
  BY PoppedFrame
<1>2. DOMAIN Leave(e) = Fields /\ Leave(e).frames = e.frames /\ Leave(e).pending = e.pending
      /\ Leave(e).depth = GiveBack(e.depth)
  BY CursorFields DEF Leave, Kept, Holds, Sound
<1>3. Holds(k, e, GiveBack(Len(k.frames)))
  BY <1>1 DEF Kept, Holds
<1>4. Popped(k, Leave(e))
  BY <1>1, <1>2, <1>3 DEF Popped, Kept, Holds, Sound
<1>. QED
  BY <1>3, <1>4

(* Without a frame there is none to lose.                                  *)
LEMMA EmptyHolds ==
    ASSUME NEW k, Sound(k), k.frames = <<>>
    PROVE  Holds(k, k, GiveBack(Len(k.frames)))
<1>1. Len(k.frames) = 0
  BY EmptySeq
<1>. QED
  BY <1>1 DEF Holds, GiveBack

\* All the frames are still there, and no more.
SameFrames(k, d) == Holds(k, d, Len(k.frames)) /\ Len(d.frames) = Len(k.frames)

\* A container of a reader that keeps no frames was entered, or left.
Charged(k, o) ==
    IF o.ok THEN Kept([k EXCEPT !.depth = @ + 1], o.c) ELSE SameFrames(k, o.c)

Repaid(k, o) ==
    IF o.ok THEN Kept([k EXCEPT !.depth = GiveBack(@)], o.c) ELSE SameFrames(k, o.c)

(* A bracket that is read behind the charge, or no charge at all, is a     *)
(* charged call.                                                           *)
LEMMA ChargedAnyway ==
    ASSUME NEW k, Sound(k), NEW o,
           Kept([k EXCEPT !.depth = @ + 1], o.c) \/ (~o.ok /\ o.c = k)
    PROVE  Charged(k, o)
<1>. DEFINE e == [k EXCEPT !.depth = @ + 1]
<1>1. e.frames = k.frames /\ Len(k.frames) \in Nat
  BY CursorFields, SequenceLength DEF Sound
<1>2. Kept(e, o.c) => Holds(k, o.c, Len(k.frames)) /\ Len(o.c.frames) = Len(k.frames)
  <2>. HIDE DEF e
  <2>. QED
    BY <1>1, Deeper DEF Kept, Holds
<1>. QED
  BY <1>1, <1>2, Deeper DEF Charged, SameFrames

(* Giving the depth back is all that leave does.                           *)
LEMMA RepaidByLeave ==
    ASSUME NEW k, Sound(k), NEW d, Kept(k, d)
    PROVE  Kept([k EXCEPT !.depth = GiveBack(@)], Leave(d))
<1>. DEFINE e == [k EXCEPT !.depth = GiveBack(@)]
            b == Leave(d)
<1>1. e.frames = k.frames /\ e.depth = GiveBack(k.depth)
  BY CursorFields DEF Sound
<1>2. DOMAIN b = Fields /\ b.frames = d.frames /\ b.pending = d.pending /\ b.depth = GiveBack(d.depth)
  BY CursorFields DEF Leave, Kept, Holds, Sound
<1>. HIDE DEF e, b
<1>3. Kept(e, b)
  BY <1>1, <1>2 DEF Kept, Holds, Sound
<1>. QED
  BY <1>3 DEF e, b

(* The header that was read becomes a frame, if it is of the right kind.   *)
LEMMA PendingEnters ==
    ASSUME NEW k, Sound(k), NEW d, Kept([k EXCEPT !.depth = @ + 1], d), NEW opener,
           NEW o \in EnterPending(d, opener)
    PROVE  Entered(k, opener, o)
<1>. DEFINE e == [k EXCEPT !.depth = @ + 1]
<1>1. CASE d.pending.kind = opener
  <2>1. o.ok /\ o.c = Push(d, d.pending)
    BY <1>1 DEF EnterPending, Ok
  <2>2. DOMAIN d.pending = FrameFields
    BY DEF Kept, Holds, Sound
  <2>. QED
    BY <1>1, <2>1, <2>2, PushedFrame DEF Entered
<1>2. CASE d.pending.kind # opener
  <2>1. ~o.ok /\ o.c = [d EXCEPT !.pending = NoFrame]
    BY <1>2 DEF EnterPending, Err
  <2>2. Kept(e, o.c)
    BY <2>1, KeptByChanges DEF FrameFields
  <2>. QED
    BY <2>1, <2>2, Deeper DEF Entered
<1>. QED
  BY <1>1, <1>2

-----------------------------------------------------------------------------
(* The readers, one after the other.                                       *)

(* MessagePack: calls that are not about a container.                      *)
LEMMA MsgPackKeeps ==
    ASSUME NEW input, NEW k, Sound(k)
    PROVE  /\ \A o \in MsgPack!Next(input, k) : Kept(k, o.c)
           /\ \A o \in MsgPack!Peek(input, k) : Kept(k, o.c)
           /\ \A o \in MsgPack!OptionTag(input, k) : Kept(k, o.c)
           /\ \A kinds : \A o \in MsgPack!Typed(input, k, kinds) : Kept(k, o.c)
           /\ \A o \in MsgPack!ObjectKey(input, k) : Kept(k, o.c)
           /\ \A o \in MsgPack!HasMore(input, k) : Kept(k, o.c)
           /\ \A closer : \A o \in MsgPack!EntrySep(input, k, closer) : Kept(k, o.c)
<1>1. ASSUME NEW e, Kept(k, e)
      PROVE  /\ Kept(k, MsgPack!Taken(e)) /\ Kept(k, MsgPack!CountDown(e))
             /\ \A n : Kept(k, [e EXCEPT !.look = n])
             /\ \A f : DOMAIN f = FrameFields => Kept(k, [e EXCEPT !.pending = f])
             /\ \A g : Kept(k, MsgPack!Ok(e, g).c) /\ MsgPack!Ok(e, g).ok
             /\ Kept(k, MsgPack!Err(e).c) /\ ~ MsgPack!Err(e).ok
  BY <1>1, KeptByChanges DEF MsgPack!Taken, MsgPack!CountDown, MsgPack!Ok, MsgPack!Err
<1>2. Kept(k, k)
  BY KeptItself
<1>3. \A cell \in DOMAIN MsgPack!Counted : DOMAIN MsgPack!Counted[cell] = FrameFields
  BY CursorFields DEF MsgPack!Counted, MsgPack!NoFrame
<1>4. \A o \in MsgPack!ReadToken(input, k) : Kept(k, o.c)
  BY <1>1, <1>2, <1>3 DEF MsgPack!ReadToken
<1>5. \A o \in MsgPack!Next(input, k) : Kept(k, o.c)
  BY <1>1, <1>2, <1>4 DEF MsgPack!Next, MsgPack!NextWith
<1>6. \A o \in MsgPack!Peek(input, k) : Kept(k, o.c)
  BY <1>1, <1>2, <1>4 DEF MsgPack!Peek, MsgPack!PeekWith, MsgPack!Then
<1>7. \A o \in MsgPack!OptionTag(input, k) : Kept(k, o.c)
  BY <1>1, <1>6 DEF MsgPack!OptionTag, MsgPack!TagWith, MsgPack!Peek
<1>8. \A kinds : \A o \in MsgPack!Typed(input, k, kinds) : Kept(k, o.c)
  BY <1>1, <1>5 DEF MsgPack!Typed, MsgPack!Expect
<1>9. \A o \in MsgPack!ObjectKey(input, k) : Kept(k, o.c)
  BY <1>1, <1>2 DEF MsgPack!ObjectKey
<1>10. \A o \in MsgPack!HasMore(input, k) : Kept(k, o.c)
  BY <1>1, <1>2 DEF MsgPack!HasMore
<1>11. \A closer : \A o \in MsgPack!EntrySep(input, k, closer) : Kept(k, o.c)
  BY <1>1, <1>2 DEF MsgPack!EntrySep, MsgPack!HasMore
<1>. QED
  BY <1>5, <1>6, <1>7, <1>8, <1>9, <1>10, <1>11

(* MessagePack: a container is entered with one frame more and left with   *)
(* one less.                                                               *)
LEMMA MsgPackNests ==
    ASSUME NEW input, NEW k, Sound(k), NEW opener
    PROVE  /\ \A o \in MsgPack!Begin(input, k, opener) : Entered(k, opener, o)
           /\ \A o \in MsgPack!EndContainer(input, k, opener) : Left(k, o)
<1>. DEFINE e == [k EXCEPT !.depth = @ + 1]
            Read == MsgPack!Next(input, e)
<1>1. /\ Sound(e)
      /\ \A d : Kept(e, d) => Holds(k, d, Len(k.frames))
      /\ Holds(k, k, Len(k.frames))
  BY Deeper
<1>2. \A o \in Read : Kept(e, o.c)
  BY <1>1, MsgPackKeeps
<1>. HIDE DEF Read
<1>3. ASSUME NEW d, Kept(e, d), NEW o \in MsgPack!EnterPending(d, opener)
      PROVE  Entered(k, opener, o)
  BY <1>3, PendingEnters DEF MsgPack!EnterPending, MsgPack!Push, MsgPack!Ok, MsgPack!Err,
     MsgPack!NoFrame, MsgPack!NoToken, EnterPending, Push, Ok, Err, NoFrame, NoToken
<1>4. ASSUME NEW o \in MsgPack!Begin(input, k, opener) PROVE Entered(k, opener, o)
  <2>1. CASE ~ MsgPack!MayEnter(k.depth)
    BY <1>1, <1>4, <2>1 DEF MsgPack!Begin, MsgPack!BeginWith, MsgPack!Then, MsgPack!Err, Entered
  <2>2. CASE MsgPack!MayEnter(k.depth)
    <3>. DEFINE Bracket == MsgPack!Expect(Read, {opener})
    <3>1. \A r \in Bracket : Kept(e, r.c)
      BY <1>2 DEF MsgPack!Expect, MsgPack!Err
    <3>2. o \in UNION {IF r.ok THEN MsgPack!EnterPending(r.c, opener) ELSE {r} : r \in Bracket}
      BY <1>4, <2>2 DEF MsgPack!Begin, MsgPack!BeginWith, MsgPack!Then, Read
    <3>. HIDE DEF Bracket, e
    <3>3. PICK r \in Bracket : o \in IF r.ok THEN MsgPack!EnterPending(r.c, opener) ELSE {r}
      BY <3>2
    <3>. QED
      BY <1>1, <1>3, <3>1, <3>3 DEF Entered
  <2>. QED
    BY <2>1, <2>2
<1>5. ASSUME NEW o \in MsgPack!EndContainer(input, k, opener) PROVE Left(k, o)
  <2>1. CASE k.frames = <<>>
    BY <1>5, <2>1, EmptyHolds DEF MsgPack!EndContainer, MsgPack!InFrame, MsgPack!Err, Left
  <2>2. CASE k.frames # <<>>
    <3>1. Kept(Pop(k), Pop(k))
      BY <2>2, PoppedFrame, KeptItself
    <3>2. MsgPack!Pop(k) = Pop(k) /\ MsgPack!Leave(Pop(k)) = Leave(Pop(k))
      BY DEF MsgPack!Pop, Pop, MsgPack!Leave, Leave, MsgPack!GiveBack, GiveBack
    <3>3. \/ ~o.ok /\ o.c = Pop(k)
          \/ o.ok /\ o.c = Leave(Pop(k))
      BY <1>5, <2>2, <3>2 DEF MsgPack!EndContainer, MsgPack!InFrame, MsgPack!Err, MsgPack!Ok
    <3>. QED
      BY <2>2, <3>1, <3>3, Shallower DEF Left
  <2>. QED
    BY <2>1, <2>2
<1>. QED
  BY <1>4, <1>5

(* CBOR: calls that are not about a container.                             *)
LEMMA CborKeeps ==
    ASSUME NEW input, NEW k, Sound(k)
    PROVE  /\ \A o \in Cbor!Next(input, k) : Kept(k, o.c)
           /\ \A o \in Cbor!Peek(input, k) : Kept(k, o.c)
           /\ \A o \in Cbor!OptionTag(input, k) : Kept(k, o.c)
           /\ \A kinds : \A o \in Cbor!Typed(input, k, kinds) : Kept(k, o.c)
           /\ \A o \in Cbor!ObjectKey(input, k) : Kept(k, o.c)
           /\ \A o \in Cbor!HasMore(input, k) : Kept(k, o.c)
           /\ \A closer : \A o \in Cbor!EntrySep(input, k, closer) : Kept(k, o.c)
<1>1. ASSUME NEW e, Kept(k, e)
      PROVE  /\ Kept(k, Cbor!Taken(e)) /\ Kept(k, Cbor!CountDown(e))
             /\ \A n : Kept(k, [e EXCEPT !.look = n])
             /\ \A f : DOMAIN f = FrameFields => Kept(k, [e EXCEPT !.pending = f])
             /\ \A g : Kept(k, Cbor!Ok(e, g).c) /\ Cbor!Ok(e, g).ok
             /\ Kept(k, Cbor!Err(e).c) /\ ~ Cbor!Err(e).ok
  BY <1>1, KeptByChanges DEF Cbor!Taken, Cbor!CountDown, Cbor!Ok, Cbor!Err
<1>2. Kept(k, k)
  BY KeptItself
<1>3. \A cell \in DOMAIN Cbor!Headers : DOMAIN Cbor!Headers[cell] = FrameFields
  BY CursorFields DEF Cbor!Headers, Cbor!Counted, Cbor!Delimited, Cbor!NoFrame
<1>4. \A e : Kept(k, e) => \A o \in Cbor!ReadToken(input, e) : Kept(k, o.c)
  BY <1>1, <1>3 DEF Cbor!ReadToken
<1>5. \A e : Kept(k, e) => \A o \in Cbor!Next(input, e) : Kept(k, o.c)
  BY <1>1, <1>4 DEF Cbor!Next, Cbor!NextWith
<1>6. \A o \in Cbor!Peek(input, k) : Kept(k, o.c)
  <2>1. \A o \in Cbor!ReadToken(input, k) : Kept(k, o.c)
    BY <1>2, <1>4
  <2>. QED
    BY <1>1, <1>2, <2>1 DEF Cbor!Peek, Cbor!PeekWith, Cbor!Then
<1>7. \A o \in Cbor!OptionTag(input, k) : Kept(k, o.c)
  BY <1>1, <1>6 DEF Cbor!OptionTag, Cbor!TagWith, Cbor!Peek
<1>8. \A kinds : \A o \in Cbor!Typed(input, k, kinds) : Kept(k, o.c)
  BY <1>1, <1>2, <1>5 DEF Cbor!Typed, Cbor!Expect
<1>9. ASSUME NEW e, Kept(k, e), NEW o \in Cbor!GoesOn(input, e) PROVE Kept(k, o.c)
  <2>1. \A r \in Cbor!AtBreak(input, e) : Kept(k, r.c)
    BY <1>1, <1>9 DEF Cbor!AtBreak
  <2>2. o \in {Cbor!Err(e), Cbor!Ok(e, Cbor!TopFrame(e).left > 0)}
           \cup UNION {IF r.ok THEN {Cbor!Ok(e, ~r.got)} ELSE {r} : r \in Cbor!AtBreak(input, e)}
    BY <1>9 DEF Cbor!GoesOn, Cbor!Then
  <2>. QED
    BY <1>1, <1>9, <2>1, <2>2
<1>10. ASSUME NEW o \in Cbor!ObjectKey(input, k) PROVE Kept(k, o.c)
  <2>. DEFINE d == IF Cbor!TopFrame(k).open THEN k ELSE Cbor!CountDown(k)
  <2>1. \A r \in Cbor!GoesOn(input, k) : Kept(k, r.c)
    BY <1>2, <1>9
  <2>2. Kept(k, d)
    BY <1>1, <1>2
  <2>. HIDE DEF d
  <2>3. o \in UNION {IF r.ok THEN IF ~r.got THEN {Cbor!Ok(k, Cbor!NoToken)}
                                  ELSE IF Cbor!At(input, k.pos) \in Cbor!Strings
                                  THEN {Cbor!Ok(Cbor!Taken(d), Cbor!At(input, k.pos))}
                                  ELSE {Cbor!Err(d)}
                     ELSE {r} : r \in Cbor!GoesOn(input, k)}
    BY <1>10 DEF Cbor!ObjectKey, Cbor!Then, d
  <2>. QED
    BY <1>1, <1>2, <2>1, <2>2, <2>3
<1>11. \A o \in Cbor!HasMore(input, k) : Kept(k, o.c)
  BY <1>2, <1>9 DEF Cbor!HasMore
<1>12. \A closer : \A o \in Cbor!EntrySep(input, k, closer) : Kept(k, o.c)
  BY <1>1, <1>2, <1>9 DEF Cbor!EntrySep
<1>. QED
  BY <1>2, <1>5, <1>6, <1>7, <1>8, <1>10, <1>11, <1>12

(* CBOR: containers.                                                       *)
LEMMA CborNests ==
    ASSUME NEW input, NEW k, Sound(k), NEW opener
    PROVE  /\ \A o \in Cbor!Begin(input, k, opener) : Entered(k, opener, o)
           /\ \A o \in Cbor!EndContainer(input, k, opener) : Left(k, o)
<1>. DEFINE e == [k EXCEPT !.depth = @ + 1]
            Read == Cbor!Next(input, e)
<1>1. /\ Sound(e)
      /\ \A d : Kept(e, d) => Holds(k, d, Len(k.frames))
      /\ Holds(k, k, Len(k.frames))
  BY Deeper
<1>2. \A o \in Read : Kept(e, o.c)
  BY <1>1, CborKeeps
<1>. HIDE DEF Read
<1>3. ASSUME NEW d, Kept(e, d), NEW o \in Cbor!EnterPending(d, opener)
      PROVE  Entered(k, opener, o)
  BY <1>3, PendingEnters DEF Cbor!EnterPending, Cbor!Push, Cbor!Ok, Cbor!Err,
     Cbor!NoFrame, Cbor!NoToken, EnterPending, Push, Ok, Err, NoFrame, NoToken
<1>4. ASSUME NEW o \in Cbor!Begin(input, k, opener) PROVE Entered(k, opener, o)
  <2>1. CASE ~ Cbor!MayEnter(k.depth)
    BY <1>1, <1>4, <2>1 DEF Cbor!Begin, Cbor!BeginWith, Cbor!Then, Cbor!Err, Entered
  <2>2. CASE Cbor!MayEnter(k.depth)
    <3>. DEFINE Bracket == Cbor!Expect(Read, {opener})
    <3>1. \A r \in Bracket : Kept(e, r.c)
      BY <1>2 DEF Cbor!Expect, Cbor!Err
    <3>2. o \in UNION {IF r.ok THEN Cbor!EnterPending(r.c, opener) ELSE {r} : r \in Bracket}
      BY <1>4, <2>2 DEF Cbor!Begin, Cbor!BeginWith, Cbor!Then, Read
    <3>. HIDE DEF Bracket, e
    <3>3. PICK r \in Bracket : o \in IF r.ok THEN Cbor!EnterPending(r.c, opener) ELSE {r}
      BY <3>2
    <3>. QED
      BY <1>1, <1>3, <3>1, <3>3 DEF Entered
  <2>. QED
    BY <2>1, <2>2
<1>5. ASSUME NEW o \in Cbor!EndContainer(input, k, opener) PROVE Left(k, o)
  <2>1. CASE k.frames = <<>>
    BY <1>5, <2>1, EmptyHolds DEF Cbor!EndContainer, Cbor!InFrame, Cbor!Err, Left
  <2>2. CASE k.frames # <<>>
    <3>. DEFINE d == Pop(k)
    <3>1. Kept(d, d) /\ Kept(d, Cbor!Taken(d))
      BY <2>2, PoppedFrame, KeptItself, KeptByChanges DEF Cbor!Taken
    <3>2. Cbor!Pop(k) = d /\ \A x : Cbor!Leave(x) = Leave(x)
      BY DEF Cbor!Pop, Pop, Cbor!Leave, Leave, Cbor!GiveBack, GiveBack
    <3>. HIDE DEF d
    <3>3. \/ ~o.ok /\ o.c = d
          \/ o.ok /\ o.c \in {Leave(d), Leave(Cbor!Taken(d))}
      BY <1>5, <2>2, <3>2 DEF Cbor!EndContainer, Cbor!InFrame, Cbor!Err, Cbor!Ok
    <3>. QED
      BY <2>2, <3>1, <3>3, Shallower DEF Left, d
  <2>. QED
    BY <2>1, <2>2
<1>. QED
  BY <1>4, <1>5
(* Bencode: calls that are not about a container.                          *)
LEMMA BencodeKeeps ==
    ASSUME NEW input, NEW k, Sound(k)
    PROVE  /\ \A o \in Bencode!Next(input, k) : Kept(k, o.c)
           /\ \A o \in Bencode!Peek(input, k) : Kept(k, o.c)
           /\ \A o \in Bencode!OptionTag(input, k) : Kept(k, o.c)
           /\ \A kinds : \A o \in Bencode!Typed(input, k, kinds) : Kept(k, o.c)
           /\ \A o \in Bencode!ObjectKey(input, k) : Kept(k, o.c)
           /\ \A o \in Bencode!HasMore(input, k) : Kept(k, o.c)
           /\ \A closer : \A o \in Bencode!EntrySep(input, k, closer) : Kept(k, o.c)
<1>1. ASSUME NEW e, Kept(k, e)
      PROVE  /\ Kept(k, Bencode!Taken(e)) /\ Kept(k, Bencode!CountDown(e))
             /\ \A n : Kept(k, [e EXCEPT !.look = n])
             /\ \A f : DOMAIN f = FrameFields => Kept(k, [e EXCEPT !.pending = f])
             /\ \A g : Kept(k, Bencode!Ok(e, g).c) /\ Bencode!Ok(e, g).ok
             /\ Kept(k, Bencode!Err(e).c) /\ ~ Bencode!Err(e).ok
  BY <1>1, KeptByChanges DEF Bencode!Taken, Bencode!CountDown, Bencode!Ok, Bencode!Err
<1>2. Kept(k, k)
  BY KeptItself
<1>3. \A e : Kept(k, e) => \A o \in Bencode!ReadToken(input, e) : Kept(k, o.c)
  BY <1>1 DEF Bencode!ReadToken
<1>4. \A e : Kept(k, e) => \A o \in Bencode!Next(input, e) : Kept(k, o.c)
  BY <1>1, <1>3 DEF Bencode!Next, Bencode!NextWith
<1>5. \A o \in Bencode!Peek(input, k) : Kept(k, o.c)
  <2>1. \A o \in Bencode!ReadToken(input, k) : Kept(k, o.c)
    BY <1>2, <1>3
  <2>. QED
    BY <1>1, <1>2, <2>1 DEF Bencode!Peek, Bencode!PeekWith, Bencode!Then
<1>6. \A o \in Bencode!OptionTag(input, k) : Kept(k, o.c)
  BY <1>1, <1>5 DEF Bencode!OptionTag, Bencode!TagWith, Bencode!Peek
<1>7. \A kinds : \A o \in Bencode!Typed(input, k, kinds) : Kept(k, o.c)
  BY <1>1, <1>2, <1>4 DEF Bencode!Typed, Bencode!Expect
<1>8. ASSUME NEW o \in Bencode!ObjectKey(input, k) PROVE Kept(k, o.c)
  <2>1. ASSUME NEW p \in Bencode!Peek(input, k), NEW r \in Bencode!Expect(Bencode!Next(input, p.c), Bencode!Strings)
        PROVE  Kept(k, r.c)
    BY <1>1, <1>4, <1>5, <2>1 DEF Bencode!Expect
  <2>2. o \in {Bencode!Err(k)}
           \cup UNION {IF p.ok
                       THEN IF p.got = "}" THEN {Bencode!Ok(p.c, Bencode!NoToken)}
                            ELSE Bencode!Expect(Bencode!Next(input, p.c), Bencode!Strings)
                       ELSE {p} : p \in Bencode!Peek(input, k)}
    BY <1>8 DEF Bencode!ObjectKey, Bencode!Then
  <2>3. CASE o = Bencode!Err(k)
    BY <1>1, <1>2, <2>3
  <2>4. CASE o # Bencode!Err(k)
    <3>1. PICK p \in Bencode!Peek(input, k) :
             o \in IF p.ok
                   THEN IF p.got = "}" THEN {Bencode!Ok(p.c, Bencode!NoToken)}
                        ELSE Bencode!Expect(Bencode!Next(input, p.c), Bencode!Strings)
                   ELSE {p}
      BY <2>2, <2>4
    <3>. QED
      BY <1>1, <1>5, <2>1, <3>1
  <2>. QED
    BY <2>3, <2>4
<1>9. \A closer : \A o \in Bencode!EntrySep(input, k, closer) : Kept(k, o.c)
  BY <1>1, <1>5 DEF Bencode!EntrySep, Bencode!Then
<1>10. \A o \in Bencode!HasMore(input, k) : Kept(k, o.c)
  BY <1>9 DEF Bencode!HasMore
<1>. QED
  BY <1>2, <1>4, <1>5, <1>6, <1>7, <1>8, <1>9, <1>10

(* Bencode: containers.                                                    *)
LEMMA BencodeNests ==
    ASSUME NEW input, NEW k, Sound(k), NEW opener
    PROVE  /\ \A o \in Bencode!Begin(input, k, opener) : Entered(k, opener, o)
           /\ \A o \in Bencode!EndContainer(input, k, opener) : Left(k, o)
<1>. DEFINE e == [k EXCEPT !.depth = @ + 1]
            Read == Bencode!Next(input, e)
            f == [NoFrame EXCEPT !.kind = opener, !.open = TRUE]
<1>1. /\ Sound(e)
      /\ Kept(e, e)
      /\ \A d : Kept(e, d) => Holds(k, d, Len(k.frames))
      /\ Holds(k, k, Len(k.frames))
  BY Deeper
<1>2. \A o \in Read : Kept(e, o.c)
  BY <1>1, BencodeKeeps
<1>3. DOMAIN f = FrameFields /\ f.kind = opener
  BY CursorFields DEF NoFrame
<1>. HIDE DEF Read, f
<1>4. ASSUME NEW o \in Bencode!Begin(input, k, opener) PROVE Entered(k, opener, o)
  <2>1. CASE ~ Bencode!MayEnter(k.depth)
    BY <1>1, <1>4, <2>1 DEF Bencode!Begin, Bencode!BeginWith, Bencode!Then, Bencode!Err, Entered
  <2>2. CASE Bencode!MayEnter(k.depth)
    <3>. DEFINE Bracket == Bencode!Expect(Read, {opener})
    <3>1. \A r \in Bracket : Kept(e, r.c)
      BY <1>2 DEF Bencode!Expect, Bencode!Err
    <3>2. \A d : Bencode!Push(d, f) = Push(d, f)
      BY DEF Bencode!Push, Push, Bencode!NoFrame, NoFrame, Bencode!NoToken, NoToken
    <3>3. o \in UNION {IF r.ok THEN {Bencode!Ok(Bencode!Push(r.c, f), opener)} ELSE {r} : r \in Bracket}
      BY <1>4, <2>2 DEF Bencode!Begin, Bencode!BeginWith, Bencode!Then, Read, f,
         Bencode!NoFrame, NoFrame, Bencode!NoToken, NoToken
    <3>. HIDE DEF Bracket, e
    <3>4. PICK r \in Bracket : o \in IF r.ok THEN {Bencode!Ok(Bencode!Push(r.c, f), opener)} ELSE {r}
      BY <3>3
    <3>5. CASE r.ok
      <4>1. o.ok /\ o.c = Push(r.c, f)
        BY <3>2, <3>4, <3>5 DEF Bencode!Ok
      <4>. QED
        BY <1>3, <3>1, <4>1, PushedFrame DEF Entered, e
    <3>6. CASE ~r.ok
      BY <1>1, <3>1, <3>4, <3>6 DEF Entered
    <3>. QED
      BY <3>5, <3>6
  <2>. QED
    BY <2>1, <2>2
<1>5. ASSUME NEW o \in Bencode!EndContainer(input, k, opener) PROVE Left(k, o)
  <2>1. CASE k.frames = <<>>
    <3>1. o = Bencode!Err(k)
      BY <1>5, <2>1 DEF Bencode!EndContainer, Bencode!InFrame, Bencode!Then
    <3>. QED
      BY <2>1, <3>1, EmptyHolds DEF Bencode!Err, Left
  <2>2. CASE k.frames # <<>>
    <3>. DEFINE d == Pop(k)
                closer == IF opener = "[" THEN "]" ELSE "}"
                Closing == Bencode!Expect(Bencode!Next(input, d), {closer})
    <3>1. Sound(d) /\ Kept(d, d)
      BY <2>2, PoppedFrame, KeptItself
    <3>2. Bencode!Pop(k) = d /\ \A x : Bencode!Leave(x) = Leave(x)
      BY DEF Bencode!Pop, Pop, Bencode!Leave, Leave, Bencode!GiveBack, GiveBack
    <3>. HIDE DEF d
    <3>3. \A r \in Closing : Kept(d, r.c)
      <4>. DEFINE Outcomes == Bencode!Next(input, d)
      <4>1. \A r \in Outcomes : Kept(d, r.c)
        BY <3>1, BencodeKeeps
      <4>. HIDE DEF Outcomes, closer
      <4>2. \A r \in Bencode!Expect(Outcomes, {closer}) : Kept(d, r.c)
        BY <4>1 DEF Bencode!Expect, Bencode!Err
      <4>. QED
        BY <4>2 DEF Outcomes
    <3>4. o \in {Bencode!Err(d)}
             \cup UNION {IF r.ok THEN {Bencode!Ok(Leave(r.c), Bencode!NoToken)} ELSE {r} : r \in Closing}
      BY <1>5, <2>2, <3>2 DEF Bencode!EndContainer, Bencode!InFrame, Bencode!Then
    <3>. HIDE DEF Closing
    <3>5. \/ ~o.ok /\ Kept(d, o.c)
          \/ o.ok /\ \E x : Kept(d, x) /\ o.c = Leave(x)
      BY <3>1, <3>3, <3>4 DEF Bencode!Err, Bencode!Ok
    <3>. QED
      BY <2>2, <3>5, Shallower DEF Left, d
  <2>. QED
    BY <2>1, <2>2
<1>. QED
  BY <1>4, <1>5

(* Postcard: calls that are not about a container.                         *)
LEMMA PostcardKeeps ==
    ASSUME NEW input, NEW k, Sound(k)
    PROVE  /\ \A o \in Postcard!NotSelfDescribing(k) : Kept(k, o.c)
           /\ \A kinds : \A o \in Postcard!Typed(input, k, kinds) : kinds \in {{"null"}, Numbers, Strings} => Kept(k, o.c)
           /\ \A o \in Postcard!ObjectKey(input, k) : Kept(k, o.c)
           /\ \A o \in Postcard!HasMore(input, k) : Kept(k, o.c)
           /\ \A closer : \A o \in Postcard!EntrySep(input, k, closer) : Kept(k, o.c)
<1>1. ASSUME NEW e, Kept(k, e)
      PROVE  /\ Kept(k, Postcard!Taken(e)) /\ Kept(k, Postcard!CountDown(e))
             /\ \A n : Kept(k, [e EXCEPT !.look = n])
             /\ \A f : DOMAIN f = FrameFields => Kept(k, [e EXCEPT !.pending = f])
             /\ \A g : Kept(k, Postcard!Ok(e, g).c) /\ Postcard!Ok(e, g).ok
             /\ Kept(k, Postcard!Err(e).c) /\ ~ Postcard!Err(e).ok
  BY <1>1, KeptByChanges DEF Postcard!Taken, Postcard!CountDown, Postcard!Ok, Postcard!Err
<1>2. Kept(k, k)
  BY KeptItself
<1>3. \A e : Kept(k, e) => \A o \in Postcard!ReadCount(input, e) : Kept(k, o.c)
  BY <1>1 DEF Postcard!ReadCount
<1>4. \A e, n : Kept(k, e) => \A o \in Postcard!TakeString(input, e, n) : Kept(k, o.c)
  BY <1>1, KeptByChanges DEF Postcard!TakeString
<1>5. ASSUME NEW e, Kept(k, e), NEW o \in Postcard!ReadStr(input, e) PROVE Kept(k, o.c)
  <2>1. \A r \in Postcard!ReadCount(input, e) : Kept(k, r.c)
    BY <1>3, <1>5
  <2>2. o \in UNION {IF r.ok THEN Postcard!TakeString(input, r.c, r.got) ELSE {r} :
                        r \in Postcard!ReadCount(input, e)}
    BY <1>5 DEF Postcard!ReadStr, Postcard!Then
  <2>. QED
    BY <1>4, <2>1, <2>2
<1>6. \A o \in Postcard!NotSelfDescribing(k) : Kept(k, o.c)
  BY <1>1, <1>2 DEF Postcard!NotSelfDescribing
<1>7. ASSUME NEW kinds \in {{"null"}, Numbers, Strings}, NEW o \in Postcard!Typed(input, k, kinds)
      PROVE  Kept(k, o.c)
  BY <1>1, <1>2, <1>5, <1>7 DEF Postcard!Typed, Postcard!TakeNumber, Numbers, Strings,
     Postcard!Numbers, Postcard!Strings
<1>8. \A o \in Postcard!ObjectKey(input, k) : Kept(k, o.c)
  BY <1>1, <1>2, <1>5 DEF Postcard!ObjectKey
<1>9. \A e : Kept(k, e) => \A o \in Postcard!HasMore(input, e) : Kept(k, o.c)
  BY <1>1 DEF Postcard!HasMore
<1>10. \A closer : \A o \in Postcard!EntrySep(input, k, closer) : Kept(k, o.c)
  BY <1>1, <1>2, <1>9 DEF Postcard!EntrySep
<1>. QED
  BY <1>2, <1>6, <1>7, <1>8, <1>9, <1>10

(* Postcard: containers.                                                   *)
LEMMA PostcardNests ==
    ASSUME NEW input, NEW k, Sound(k), NEW opener
    PROVE  /\ \A o \in Postcard!Begin(input, k, opener) : Entered(k, opener, o)
           /\ \A o \in Postcard!EndContainer(input, k, opener) : Left(k, o)
<1>. DEFINE e == [k EXCEPT !.depth = @ + 1]
<1>1. /\ Sound(e)
      /\ Kept(e, e)
      /\ \A d : Kept(e, d) => Holds(k, d, Len(k.frames))
      /\ Holds(k, k, Len(k.frames))
  BY Deeper
<1>2. ASSUME NEW d, Kept(e, d) PROVE \A o \in Postcard!ReadCount(input, d) : Kept(e, o.c)
  <2>1. Kept(e, Postcard!Taken(d))
    BY <1>2, KeptByChanges DEF Postcard!Taken
  <2>. HIDE DEF e
  <2>. QED
    BY <1>2, <2>1 DEF Postcard!ReadCount, Postcard!Ok, Postcard!Err
<1>3. ASSUME NEW n
      PROVE  LET f == [NoFrame EXCEPT !.kind = opener, !.left = n]
             IN  DOMAIN f = FrameFields /\ f.kind = opener
  BY CursorFields DEF NoFrame
<1>4. ASSUME NEW o \in Postcard!Begin(input, k, opener) PROVE Entered(k, opener, o)
  <2>1. CASE ~ Postcard!MayEnter(k.depth)
    <3>. DEFINE Counts == {Postcard!Err(k)}
                Frame(n) == [Postcard!NoFrame EXCEPT !.kind = opener, !.left = n]
    <3>1. Counts = UNION {IF r.ok THEN Postcard!ReadCount(input, r.c) ELSE {r} : r \in {Postcard!Err(k)}}
      BY DEF Postcard!Err
    <3>2. o \in UNION {IF r.ok THEN {Postcard!Ok(Postcard!Push(r.c, Frame(r.got)), opener)} ELSE {r} :
                          r \in Counts}
      <4>. HIDE DEF Counts
      <4>. QED
        BY <1>4, <2>1, <3>1 DEF Postcard!Begin, Postcard!BeginWith, Postcard!Then
    <3>. HIDE DEF Frame
    <3>3. o = Postcard!Err(k)
      BY <3>2 DEF Postcard!Err
    <3>. QED
      BY <1>1, <3>3 DEF Postcard!Err, Entered
  <2>2. CASE Postcard!MayEnter(k.depth)
    <3>. DEFINE Count == Postcard!ReadCount(input, e)
                Frame(n) == [NoFrame EXCEPT !.kind = opener, !.left = n]
    <3>1. \A r \in Count : Kept(e, r.c)
      BY <1>1, <1>2
    <3>2. \A d, f : Postcard!Push(d, f) = Push(d, f)
      BY DEF Postcard!Push, Push, Postcard!NoFrame, NoFrame, Postcard!NoToken, NoToken
    <3>3. o \in UNION {IF r.ok THEN {Postcard!Ok(Postcard!Push(r.c, Frame(r.got)), opener)} ELSE {r} :
                          r \in Count}
      <4>. DEFINE Bracket == Postcard!Expect({Postcard!Ok(e, opener)}, {opener})
      <4>1. Bracket = {Postcard!Ok(e, opener)}
        BY DEF Postcard!Expect, Postcard!Ok
      <4>2. Count = UNION {IF r.ok THEN Postcard!ReadCount(input, r.c) ELSE {r} : r \in Bracket}
        <5>. DEFINE Got == Postcard!Ok(e, opener)
        <5>1. Got.ok /\ Got.c = e
          BY DEF Postcard!Ok
        <5>. HIDE DEF Got, Bracket, e
        <5>2. Bracket = {Got}
          BY <4>1 DEF Got
        <5>. QED
          BY <5>1, <5>2
      <4>. HIDE DEF Count
      <4>. QED
        BY <1>4, <2>2, <4>2 DEF Postcard!Begin, Postcard!BeginWith, Postcard!Then,
           Postcard!NoFrame, NoFrame, Postcard!NoToken, NoToken
    <3>. HIDE DEF Count, e, Frame
    <3>4. PICK r \in Count :
             o \in IF r.ok THEN {Postcard!Ok(Postcard!Push(r.c, Frame(r.got)), opener)} ELSE {r}
      BY <3>3
    <3>5. CASE r.ok
      <4>1. o.ok /\ o.c = Push(r.c, Frame(r.got))
        BY <3>2, <3>4, <3>5 DEF Postcard!Ok
      <4>2. DOMAIN Frame(r.got) = FrameFields /\ Frame(r.got).kind = opener
        BY <1>3 DEF Frame
      <4>. QED
        BY <3>1, <4>1, <4>2, PushedFrame DEF Entered, e
    <3>6. CASE ~r.ok
      BY <1>1, <3>1, <3>4, <3>6 DEF Entered
    <3>. QED
      BY <3>5, <3>6
  <2>. QED
    BY <2>1, <2>2
<1>5. ASSUME NEW o \in Postcard!EndContainer(input, k, opener) PROVE Left(k, o)
  <2>1. CASE k.frames = <<>>
    BY <1>5, <2>1, EmptyHolds DEF Postcard!EndContainer, Postcard!InFrame, Postcard!Err, Left
  <2>2. CASE k.frames # <<>>
    <3>1. Kept(Pop(k), Pop(k))
      BY <2>2, PoppedFrame, KeptItself
    <3>2. Postcard!Pop(k) = Pop(k) /\ Postcard!Leave(Pop(k)) = Leave(Pop(k))
      BY DEF Postcard!Pop, Pop, Postcard!Leave, Leave, Postcard!GiveBack, GiveBack
    <3>3. \/ ~o.ok /\ o.c = Pop(k)
          \/ o.ok /\ o.c = Leave(Pop(k))
      BY <1>5, <2>2, <3>2 DEF Postcard!EndContainer, Postcard!InFrame, Postcard!Err, Postcard!Ok
    <3>. QED
      BY <2>2, <3>1, <3>3, Shallower DEF Left
  <2>. QED
    BY <2>1, <2>2
<1>. QED
  BY <1>4, <1>5

(* BSON: calls that are not about a container.                             *)
LEMMA BsonKeeps ==
    ASSUME NEW input, NEW k, Sound(k)
    PROVE  /\ \A o \in Bson!Next(input, k) : Kept(k, o.c)
           /\ \A o \in Bson!Peek(input, k) : Kept(k, o.c)
           /\ \A o \in Bson!OptionTag(input, k) : Kept(k, o.c)
           /\ \A kinds : \A o \in Bson!Typed(input, k, kinds) : Kept(k, o.c)
           /\ \A o \in Bson!ObjectKey(input, k) : Kept(k, o.c)
           /\ \A o \in Bson!HasMore(input, k) : Kept(k, o.c)
           /\ \A closer : \A o \in Bson!EntrySep(input, k, closer) : Kept(k, o.c)
<1>1. ASSUME NEW e, Kept(k, e)
      PROVE  /\ Kept(k, Bson!Taken(e)) /\ Kept(k, Bson!CountDown(e))
             /\ \A n : Kept(k, [e EXCEPT !.look = n])
             /\ \A f : DOMAIN f = FrameFields => Kept(k, [e EXCEPT !.pending = f])
             /\ \A g : Kept(k, Bson!Ok(e, g).c) /\ Bson!Ok(e, g).ok
             /\ Kept(k, Bson!Err(e).c) /\ ~ Bson!Err(e).ok
  BY <1>1, KeptByChanges DEF Bson!Taken, Bson!CountDown, Bson!Ok, Bson!Err
<1>2. Kept(k, k)
  BY KeptItself
<1>3. \A e, got : Kept(k, e) => Kept(k, [e EXCEPT !.pending = [NoFrame EXCEPT !.kind = got]])
  <2>1. \A got : DOMAIN [NoFrame EXCEPT !.kind = got] = FrameFields
    BY CursorFields DEF NoFrame
  <2>. QED
    BY <1>1, <2>1
<1>4. \A e : Kept(k, e) => \A o \in Bson!ReadDocHeader(input, e) : Kept(k, o.c)
  BY <1>1 DEF Bson!ReadDocHeader
<1>5. ASSUME NEW o \in Bson!Classify(input, k) PROVE Kept(k, o.c)
  <2>1. \A r \in Bson!ReadDocHeader(input, k) : Kept(k, r.c)
    BY <1>2, <1>4
  <2>2. PICK r \in Bson!ReadDocHeader(input, k) :
           o \in {Bson!Ok(k, "{"), Bson!Ok(k, "["), Bson!Err(k), r}
    BY <1>5 DEF Bson!Classify, Bson!Then
  <2>. QED
    BY <1>1, <1>2, <2>1, <2>2
<1>6. \A e : Kept(k, e) => \A o \in Bson!ReadElement(input, e) : Kept(k, o.c)
  BY <1>1, KeptByChanges DEF Bson!ReadElement
<1>7. \A o \in Bson!NextType(input, k) : Kept(k, o.c)
  BY <1>1, <1>2, <1>6, CursorFields DEF Bson!NextType, Bson!NoFrame
<1>8. ASSUME NEW o \in Bson!ReadToken(input, k) PROVE Kept(k, o.c)
  <2>1. CASE o \in Bson!Classify(input, k)
    BY <1>5, <2>1
  <2>2. CASE o \notin Bson!Classify(input, k)
    <3>1. PICK r \in Bson!NextType(input, k) :
             o \in {Bson!Ok(Bson!Taken(r.c), input[r.c.pos]), Bson!Err(r.c), r}
      BY <1>8, <2>2 DEF Bson!ReadToken, Bson!Then
    <3>. QED
      BY <1>1, <1>7, <3>1
  <2>. QED
    BY <2>1, <2>2
<1>9. \A o \in Bson!Next(input, k) : Kept(k, o.c)
  BY <1>1, <1>2, <1>8 DEF Bson!Next, Bson!NextWith
<1>10. \A o \in Bson!Peek(input, k) : Kept(k, o.c)
  BY <1>1, <1>2, <1>8 DEF Bson!Peek, Bson!PeekWith, Bson!Then
<1>11. \A o \in Bson!OptionTag(input, k) : Kept(k, o.c)
  BY <1>1, <1>10 DEF Bson!OptionTag, Bson!TagWith, Bson!Peek
<1>12. \A kinds : \A o \in Bson!Typed(input, k, kinds) : Kept(k, o.c)
  BY <1>1, <1>9 DEF Bson!Typed, Bson!Expect
<1>13. ASSUME NEW o \in Bson!ObjectKey(input, k) PROVE Kept(k, o.c)
  <2>. DEFINE Named(r) == Bson!Ok([r.c EXCEPT !.pending = [Bson!NoFrame EXCEPT !.kind = r.got]],
                                  input[r.c.pos - 1])
  <2>1. \A r \in Bson!ReadElement(input, k) : Kept(k, r.c)
    BY <1>2, <1>6
  <2>2. \A r \in Bson!ReadElement(input, k) : Kept(k, Named(r).c)
    BY <1>1, <1>3, <2>1 DEF Bson!NoFrame, NoFrame, Bson!NoToken, NoToken
  <2>3. \/ o \in {Bson!Err(k), Bson!Ok(k, Bson!NoToken)}
        \/ \E r \in Bson!ReadElement(input, k) : o \in {Named(r), r}
    BY <1>13 DEF Bson!ObjectKey, Bson!Then
  <2>. HIDE DEF Named
  <2>. QED
    BY <1>1, <1>2, <2>1, <2>2, <2>3
<1>14. \A o \in Bson!HasMore(input, k) : Kept(k, o.c)
  BY <1>1, <1>2 DEF Bson!HasMore
<1>15. \A closer : \A o \in Bson!EntrySep(input, k, closer) : Kept(k, o.c)
  BY <1>14 DEF Bson!EntrySep
<1>. QED
  BY <1>9, <1>10, <1>11, <1>12, <1>13, <1>14, <1>15

(* BSON: containers.                                                       *)
LEMMA BsonNests ==
    ASSUME NEW input, NEW k, Sound(k), NEW opener
    PROVE  /\ \A o \in Bson!Begin(input, k, opener) : Entered(k, opener, o)
           /\ \A o \in Bson!EndContainer(input, k, opener) : Left(k, o)
<1>. DEFINE e == [k EXCEPT !.depth = @ + 1]
            Read == Bson!Next(input, e)
            Frame(n) == [NoFrame EXCEPT !.kind = opener, !.left = n]
<1>1. /\ Sound(e)
      /\ Kept(e, e)
      /\ \A d : Kept(e, d) => Holds(k, d, Len(k.frames))
      /\ Holds(k, k, Len(k.frames))
  BY Deeper
<1>2. \A o \in Read : Kept(e, o.c)
  BY <1>1, BsonKeeps
<1>3. ASSUME NEW d, Kept(e, d) PROVE \A o \in Bson!ReadDocHeader(input, d) : Kept(e, o.c)
  <2>1. Kept(e, Bson!Taken(d))
    BY <1>3, KeptByChanges DEF Bson!Taken
  <2>. HIDE DEF e
  <2>. QED
    BY <1>3, <2>1 DEF Bson!ReadDocHeader, Bson!Ok, Bson!Err
<1>4. \A n : DOMAIN Frame(n) = FrameFields /\ Frame(n).kind = opener
  BY CursorFields DEF NoFrame
<1>. HIDE DEF Read, Frame
<1>5. ASSUME NEW o \in Bson!Begin(input, k, opener) PROVE Entered(k, opener, o)
  <2>1. CASE ~ Bson!MayEnter(k.depth)
    <3>. DEFINE Headed == {Bson!Err(k)}
    <3>1. Headed = UNION {IF r.ok THEN Bson!ReadDocHeader(input, r.c) ELSE {r} : r \in {Bson!Err(k)}}
      BY DEF Bson!Err
    <3>2. o \in UNION {IF r.ok THEN {Bson!Ok(Bson!Push(r.c, Frame(r.got)), opener)} ELSE {r} :
                          r \in Headed}
      <4>. HIDE DEF Headed
      <4>. QED
        BY <1>5, <2>1, <3>1 DEF Bson!Begin, Bson!BeginWith, Bson!Then, Frame,
           Bson!NoFrame, NoFrame, Bson!NoToken, NoToken
    <3>3. o = Bson!Err(k)
      BY <3>2 DEF Bson!Err
    <3>. QED
      BY <1>1, <3>3 DEF Bson!Err, Entered
  <2>2. CASE Bson!MayEnter(k.depth)
    <3>. DEFINE Bracket == Bson!Expect(Read, {opener})
                Headed == UNION {IF r.ok THEN Bson!ReadDocHeader(input, r.c) ELSE {r} : r \in Bracket}
    <3>1. \A r \in Bracket : Kept(e, r.c)
      BY <1>2 DEF Bson!Expect, Bson!Err
    <3>. HIDE DEF e
    <3>2. o \in UNION {IF r.ok THEN {Bson!Ok(Bson!Push(r.c, Frame(r.got)), opener)} ELSE {r} :
                          r \in Headed}
      <4>1. Headed = UNION {IF r.ok THEN Bson!ReadDocHeader(input, r.c) ELSE {r} : r \in Bracket}
        OBVIOUS
      <4>. HIDE DEF Headed
      <4>. QED
        BY <1>5, <2>2, <4>1 DEF Bson!Begin, Bson!BeginWith, Bson!Then, Frame, Read, e,
           Bson!NoFrame, NoFrame, Bson!NoToken, NoToken
    <3>. HIDE DEF Bracket
    <3>3. \A r \in Headed : Kept(e, r.c)
      <4>. SUFFICES ASSUME NEW r \in Headed PROVE Kept(e, r.c)
        OBVIOUS
      <4>1. PICK q \in Bracket : r \in IF q.ok THEN Bson!ReadDocHeader(input, q.c) ELSE {q}
        OBVIOUS
      <4>. QED
        BY <1>3, <3>1, <4>1
    <3>4. \A d, f : Bson!Push(d, f) = Push(d, f)
      BY DEF Bson!Push, Push, Bson!NoFrame, NoFrame, Bson!NoToken, NoToken
    <3>. HIDE DEF Headed
    <3>5. PICK r \in Headed :
             o \in IF r.ok THEN {Bson!Ok(Bson!Push(r.c, Frame(r.got)), opener)} ELSE {r}
      BY <3>2
    <3>6. CASE r.ok
      <4>1. o.ok /\ o.c = Push(r.c, Frame(r.got))
        BY <3>4, <3>5, <3>6 DEF Bson!Ok
      <4>. QED
        BY <1>4, <3>3, <4>1, PushedFrame DEF Entered, e
    <3>7. CASE ~r.ok
      BY <1>1, <3>3, <3>5, <3>7 DEF Entered
    <3>. QED
      BY <3>6, <3>7
  <2>. QED
    BY <2>1, <2>2
<1>6. ASSUME NEW o \in Bson!EndContainer(input, k, opener) PROVE Left(k, o)
  <2>1. CASE k.frames = <<>>
    BY <1>6, <2>1, EmptyHolds DEF Bson!EndContainer, Bson!InFrame, Bson!Err, Left
  <2>2. CASE k.frames # <<>>
    <3>. DEFINE d == Pop(k)
    <3>1. Kept(d, d) /\ Kept(d, Bson!Taken(d))
      BY <2>2, PoppedFrame, KeptItself, KeptByChanges DEF Bson!Taken
    <3>2. Bson!Pop(k) = d /\ \A x : Bson!Leave(x) = Leave(x)
      BY DEF Bson!Pop, Pop, Bson!Leave, Leave, Bson!GiveBack, GiveBack
    <3>. HIDE DEF d
    <3>3. \/ ~o.ok /\ o.c = d
          \/ o.ok /\ o.c = Leave(Bson!Taken(d))
      BY <1>6, <2>2, <3>2 DEF Bson!EndContainer, Bson!InFrame, Bson!Err, Bson!Ok
    <3>. QED
      BY <2>2, <3>1, <3>3, Shallower DEF Left, d
  <2>. QED
    BY <2>1, <2>2
<1>. QED
  BY <1>5, <1>6

\* No UBJSON container declares its elements to be containers, and no
\* object declares its values to be null.
PlainTypes(k) ==
    \A i \in 1 .. Len(k.frames) :
        /\ k.frames[i].type \notin Openers
        /\ k.frames[i].kind # "[" => k.frames[i].type # "Z"

(* UBJSON: calls that are not about a container; a peek leaves the cursor  *)
(* alone.                                                                  *)
LEMMA UbjsonKeeps ==
    ASSUME NEW input, NEW k, Sound(k)
    PROVE  /\ \A o \in Ubjson!Peek(input, k) : o.c = k
           /\ \A kinds : \A o \in Ubjson!Typed(input, k, kinds) : Kept(k, o.c)
           /\ \A o \in Ubjson!ObjectKey(input, k) : Kept(k, o.c)
           /\ \A o \in Ubjson!HasMore(input, k) : Kept(k, o.c)
           /\ \A closer : \A o \in Ubjson!EntrySep(input, k, closer) : Kept(k, o.c)
           /\ \A o \in Ubjson!NextByte(input, k) : Kept(k, o.c)
           /\ \A o \in Ubjson!ValueMarker(input, k) : Kept(k, o.c)
           /\ \A marker : \A o \in Ubjson!SkipPayload(input, k, marker) : Kept(k, o.c)
<1>1. ASSUME NEW e, Kept(k, e)
      PROVE  /\ Kept(k, Ubjson!Taken(e)) /\ Kept(k, Ubjson!CountDown(e))
             /\ \A n : Kept(k, [e EXCEPT !.look = n])
             /\ \A f : DOMAIN f = FrameFields => Kept(k, [e EXCEPT !.pending = f])
             /\ \A g : Kept(k, Ubjson!Ok(e, g).c) /\ Ubjson!Ok(e, g).ok
             /\ Kept(k, Ubjson!Err(e).c) /\ ~ Ubjson!Err(e).ok
  BY <1>1, KeptByChanges DEF Ubjson!Taken, Ubjson!CountDown, Ubjson!Ok, Ubjson!Err
<1>2. Kept(k, k)
  BY KeptItself
<1>3. \A e : Kept(k, e) => Kept(k, Ubjson!SkipNoOps(input, e))
  BY KeptByChanges DEF Ubjson!SkipNoOps
<1>4. \A e : Kept(k, e) => \A o \in Ubjson!NextByte(input, e) : Kept(k, o.c)
  BY <1>1 DEF Ubjson!NextByte
<1>5. \A o \in Ubjson!PeekByte(input, k) : o.c = k
  BY DEF Ubjson!PeekByte, Ubjson!Ok, Ubjson!Err
<1>6. \A o \in Ubjson!Peek(input, k) : o.c = k
  <2>. DEFINE byte(p) == IF p.got \notin {"Z", "[", "{"} /\ Ubjson!IsTyped(k)
                         THEN Ubjson!TopFrame(k).type ELSE p.got
  <2>. SUFFICES ASSUME NEW o \in Ubjson!Peek(input, k) PROVE o.c = k
    OBVIOUS
  <2>1. PICK p \in Ubjson!PeekByte(input, k) :
           o = IF p.ok THEN Ubjson!Ok(p.c, Ubjson!MarkerToken(byte(p))) ELSE p
    BY DEF Ubjson!Peek
  <2>2. \A e, g : Ubjson!Ok(e, g).c = e
    BY DEF Ubjson!Ok
  <2>. HIDE DEF byte
  <2>. QED
    BY <1>5, <2>1, <2>2
<1>7. \A o \in Ubjson!ValueMarker(input, k) : Kept(k, o.c)
  BY <1>1, <1>2, <1>3, <1>4 DEF Ubjson!ValueMarker
<1>8. \A e : Kept(k, e) => \A o \in Ubjson!ReadLength(input, e) : Kept(k, o.c)
  BY <1>1, KeptByChanges DEF Ubjson!ReadLength
<1>9. \A e, n : Kept(k, e) => \A o \in Ubjson!TakeString(input, e, n) : Kept(k, o.c)
  BY <1>1, KeptByChanges DEF Ubjson!TakeString
<1>10. \A e : Kept(k, e) => \A o \in Ubjson!TakeNumber(input, e) : Kept(k, o.c)
  BY <1>1 DEF Ubjson!TakeNumber
<1>11. ASSUME NEW e, Kept(k, e), NEW o \in Ubjson!ReadKey(input, e) PROVE Kept(k, o.c)
  <2>1. \A r \in Ubjson!ReadLength(input, e) : Kept(k, r.c)
    BY <1>8, <1>11
  <2>2. PICK r \in Ubjson!ReadLength(input, e) :
           o \in IF r.ok THEN Ubjson!TakeString(input, r.c, r.got) ELSE {r}
    BY <1>11 DEF Ubjson!ReadKey, Ubjson!Then
  <2>. QED
    BY <1>9, <2>1, <2>2
<1>12. ASSUME NEW kinds, NEW o \in Ubjson!Typed(input, k, kinds) PROVE Kept(k, o.c)
  <2>1. PICK r \in Ubjson!ValueMarker(input, k) :
           \/ o \in {Ubjson!Ok(r.c, "null"), Ubjson!Err(r.c), r}
           \/ o \in Ubjson!TakeNumber(input, r.c)
           \/ o \in Ubjson!ReadKey(input, r.c)
    BY <1>12 DEF Ubjson!Typed, Ubjson!Then
  <2>. QED
    BY <1>1, <1>7, <1>10, <1>11, <2>1
<1>13. ASSUME NEW marker, NEW o \in Ubjson!SkipPayload(input, k, marker) PROVE Kept(k, o.c)
  BY <1>1, <1>2, <1>10, <1>11, <1>13 DEF Ubjson!SkipPayload
<1>14. ASSUME NEW o \in Ubjson!ObjectKey(input, k) PROVE Kept(k, o.c)
  <2>1. \A p \in Ubjson!PeekByte(input, k) : Kept(k, p.c)
    BY <1>2, <1>5
  <2>. DEFINE counted == Ubjson!InFrame(k) /\ ~Ubjson!TopFrame(k).open
              Named(r) == Ubjson!Ok(IF counted THEN Ubjson!CountDown(r.c) ELSE r.c, r.got)
              Keys == UNION {IF r.ok THEN {Named(r)} ELSE {r} : r \in Ubjson!ReadKey(input, k)}
  <2>2. \A r \in Keys : Kept(k, r.c)
    <3>1. \A r \in Ubjson!ReadKey(input, k) : Kept(k, r.c)
      BY <1>2, <1>11
    <3>2. \A r \in Ubjson!ReadKey(input, k) : Kept(k, Named(r).c)
      BY <1>1, <3>1
    <3>. HIDE DEF Named
    <3>. QED
      BY <3>1, <3>2
  <2>3. o \in {Ubjson!Err(k), Ubjson!Ok(k, Ubjson!NoToken)} \cup Keys \cup Ubjson!PeekByte(input, k)
    <3>1. Keys = UNION {IF r.ok THEN {Named(r)} ELSE {r} : r \in Ubjson!ReadKey(input, k)}
      OBVIOUS
    <3>. HIDE DEF Keys
    <3>. QED
      BY <1>14, <3>1 DEF Ubjson!ObjectKey, Ubjson!Then
  <2>. HIDE DEF Keys
  <2>. QED
    BY <1>1, <1>2, <2>1, <2>2, <2>3
<1>15. ASSUME NEW e, Kept(k, e), NEW closer, NEW o \in Ubjson!GoesOn(input, e, closer)
       PROVE  Kept(k, o.c)
  <2>1. \A p \in Ubjson!PeekByte(input, e) : p.c = e
    BY DEF Ubjson!PeekByte, Ubjson!Ok, Ubjson!Err
  <2>. QED
    BY <1>1, <1>15, <2>1 DEF Ubjson!GoesOn
<1>16. \A o \in Ubjson!HasMore(input, k) : Kept(k, o.c)
  BY <1>1, <1>2, <1>15 DEF Ubjson!HasMore
<1>17. \A closer : \A o \in Ubjson!EntrySep(input, k, closer) : Kept(k, o.c)
  BY <1>1, <1>2, <1>15 DEF Ubjson!EntrySep
<1>. QED
  BY <1>2, <1>4, <1>6, <1>7, <1>12, <1>13, <1>14, <1>16, <1>17

(* What was peeked at as null is read without entering a container, where  *)
(* the types are plain.                                                    *)
LEMMA UbjsonNull ==
    ASSUME NEW input, NEW k, Sound(k), PlainTypes(k)
    PROVE  /\ \A p \in Ubjson!Peek(input, k) :
                 p.got = "null" => \A o \in Ubjson!Next(input, p.c) : Kept(k, o.c)
           /\ \A o \in Ubjson!OptionTag(input, k) : Kept(k, o.c)
<1>1. Kept(k, k)
  BY KeptItself
<1>0. /\ \A e, g : LET o == Ubjson!Ok(e, g) IN o.ok /\ o.c = e /\ o.got = g
      /\ \A e : LET o == Ubjson!Err(e) IN ~o.ok /\ o.c = e /\ o.got = "none"
  BY DEF Ubjson!Ok, Ubjson!Err, Ubjson!NoToken
<1>2. ASSUME NEW p \in Ubjson!Peek(input, k), p.got = "null", NEW m \in Ubjson!ValueMarker(input, k)
      PROVE  m.got \notin Ubjson!Openers
  <2>. DEFINE byte(q) == IF q.got \notin {"Z", "[", "{"} /\ Ubjson!IsTyped(k)
                         THEN Ubjson!TopFrame(k).type ELSE q.got
  <2>1. PICK q \in Ubjson!PeekByte(input, k) :
           p = IF q.ok THEN Ubjson!Ok(q.c, Ubjson!MarkerToken(byte(q))) ELSE q
    BY DEF Ubjson!Peek
  <2>. HIDE DEF byte
  <2>2. q.ok /\ q.got = input[k.pos] /\ Ubjson!At(input, k.pos) = input[k.pos]
    <3>1. \/ q = Ubjson!Err(k)
          \/ q = Ubjson!Ok(k, input[k.pos]) /\ Ubjson!At(input, k.pos) # "eof"
      BY DEF Ubjson!PeekByte
    <3>2. q # Ubjson!Err(k)
      BY <1>0, <1>2, <2>1
    <3>. QED
      BY <1>0, <3>1, <3>2 DEF Ubjson!At
  <2>3. \/ q.got = "Z"
        \/ Ubjson!IsTyped(k) /\ Ubjson!TopFrame(k).type = "Z"
    <3>1. Ubjson!MarkerToken(byte(q)) = "null"
      BY <1>0, <1>2, <2>1, <2>2
    <3>2. byte(q) = "Z"
      BY <3>1 DEF Ubjson!MarkerToken, Ubjson!Openers, Ubjson!Closers
    <3>. QED
      BY <3>2 DEF byte
  <2>4. ASSUME Ubjson!IsTyped(k)
        PROVE  /\ Ubjson!TopFrame(k).type \notin Openers
               /\ Ubjson!TopFrame(k).kind # "[" => Ubjson!TopFrame(k).type # "Z"
    <3>1. Len(k.frames) \in Nat /\ Len(k.frames) # 0
      BY <2>4, SequenceLength, EmptySeq DEF Ubjson!IsTyped, Ubjson!InFrame, Sound, Sequence
    <3>2. Len(k.frames) \in 1 .. Len(k.frames)
      BY <3>1
    <3>. QED
      BY <3>2 DEF PlainTypes, Ubjson!TopFrame
  <2>5. CASE Ubjson!IsTyped(k) /\ Ubjson!TopFrame(k).kind = "["
    <3>1. m.got = Ubjson!TopFrame(k).type
      BY <1>0, <2>5 DEF Ubjson!ValueMarker
    <3>. QED
      BY <2>4, <2>5, <3>1 DEF Ubjson!Openers, Openers
  <2>6. CASE ~(Ubjson!IsTyped(k) /\ Ubjson!TopFrame(k).kind = "[")
    <3>1. m \in Ubjson!NextByte(input, Ubjson!SkipNoOps(input, k))
      BY <2>6 DEF Ubjson!ValueMarker
    <3>2. q.got = "Z"
      BY <2>3, <2>4, <2>6
    <3>3. Ubjson!SkipNoOps(input, k) = k
      BY <2>2, <3>2 DEF Ubjson!SkipNoOps
    <3>4. m = Ubjson!Err(k) \/ m = Ubjson!Ok(Ubjson!Taken(k), input[k.pos])
      BY <3>1, <3>3 DEF Ubjson!NextByte
    <3>5. m.got \in {"none", "Z"}
      BY <1>0, <2>2, <3>2, <3>4
    <3>. QED
      BY <3>5 DEF Ubjson!Openers
  <2>. QED
    BY <2>5, <2>6
<1>3. ASSUME NEW p \in Ubjson!Peek(input, k), p.got = "null", NEW o \in Ubjson!Next(input, k)
      PROVE  Kept(k, o.c)
  <2>1. PICK m \in Ubjson!ValueMarker(input, k) :
           o \in IF m.ok
                 THEN IF m.got \in Ubjson!Openers THEN Ubjson!BeginMarked(input, m.c, m.got)
                      ELSE {Ubjson!Ok(m.c, Ubjson!MarkerToken(m.got))}
                 ELSE {m}
    BY <1>3 DEF Ubjson!Next, Ubjson!Then
  <2>2. o.c = m.c
    BY <1>2, <1>3, <2>1 DEF Ubjson!Ok
  <2>. QED
    BY <2>2, UbjsonKeeps
<1>4. ASSUME NEW o \in Ubjson!OptionTag(input, k) PROVE Kept(k, o.c)
  <2>1. PICK p \in Ubjson!Peek(input, k) :
           o \in IF p.ok
                 THEN IF p.got = "null"
                      THEN {IF n.ok THEN Ubjson!Ok(n.c, TRUE) ELSE n : n \in Ubjson!Next(input, k)}
                      ELSE {Ubjson!Ok(k, FALSE)}
                 ELSE {p}
    BY <1>4 DEF Ubjson!OptionTag, Ubjson!Then
  <2>2. p.c = k
    BY UbjsonKeeps
  <2>. QED
    BY <1>1, <1>3, <2>1, <2>2 DEF Ubjson!Ok
<1>. QED
  BY <1>3, <1>4, UbjsonKeeps

(* UBJSON: containers, with their header or by a bracket that was read.    *)
LEMMA UbjsonNests ==
    ASSUME NEW input, NEW k, Sound(k), NEW opener
    PROVE  /\ \A o \in Ubjson!Begin(input, k, opener) : Entered(k, opener, o)
           /\ \A o \in Ubjson!BeginMarked(input, k, opener) : Entered(k, opener, o)
           /\ \A o \in Ubjson!EndContainer(input, k, opener) : Left(k, o)
<1>. DEFINE e == [k EXCEPT !.depth = @ + 1]
            Read == Ubjson!NextByte(input, e)
<1>1. /\ Sound(e)
      /\ Kept(e, e)
      /\ \A d : Kept(e, d) => Holds(k, d, Len(k.frames))
      /\ Holds(k, k, Len(k.frames))
  BY Deeper
<1>0. /\ \A d, g : LET o == Ubjson!Ok(d, g) IN o.ok /\ o.c = d /\ o.got = g
      /\ \A d : LET o == Ubjson!Err(d) IN ~o.ok /\ o.c = d
  BY DEF Ubjson!Ok, Ubjson!Err
<1>2. \A o \in Read : Kept(e, o.c)
  BY <1>1, UbjsonKeeps
<1>. HIDE DEF Read
<1>3. ASSUME NEW d, Kept(e, d), NEW o \in Ubjson!EnterHeader(input, d, opener)
      PROVE  Entered(k, opener, o)
  <2>. DEFINE h == Ubjson!ParseHeader(input)[d.pos]
              b == [d EXCEPT !.pos = h.pos]
              f == [kind |-> opener, left |-> h.left, open |-> h.open, type |-> h.type]
  <2>1. Kept(e, b)
    BY <1>3, KeptByChanges
  <2>2. DOMAIN f = FrameFields /\ f.kind = opener
    BY CursorFields
  <2>3. o = Ubjson!Err(b) \/ o = Ubjson!Ok(Ubjson!Push(b, f), opener)
    BY <1>3 DEF Ubjson!EnterHeader
  <2>4. Ubjson!Push(b, f) = Push(b, f)
    BY DEF Ubjson!Push, Push, Ubjson!NoFrame, NoFrame, Ubjson!NoToken, NoToken
  <2>. HIDE DEF b, f
  <2>5. Pushed(k, opener, Push(b, f))
    BY <2>1, <2>2, PushedFrame
  <2>. QED
    BY <1>0, <1>1, <2>1, <2>3, <2>4, <2>5 DEF Entered
<1>4. ASSUME NEW Bracket, \A r \in Bracket : Kept(e, r.c),
             NEW r \in Bracket,
             NEW o \in IF r.ok THEN Ubjson!EnterHeader(input, r.c, opener) ELSE {r}
      PROVE  Entered(k, opener, o)
  BY <1>1, <1>3, <1>4 DEF Entered
<1>5. ASSUME NEW o \in Ubjson!Begin(input, k, opener) PROVE Entered(k, opener, o)
  <2>1. CASE ~ Ubjson!MayEnter(k.depth)
    <3>1. o = Ubjson!Err(k)
      BY <1>0, <1>5, <2>1 DEF Ubjson!Begin, Ubjson!BeginWith, Ubjson!Then
    <3>. QED
      BY <1>0, <1>1, <3>1 DEF Entered
  <2>2. CASE Ubjson!MayEnter(k.depth)
    <3>. DEFINE Bracket == Ubjson!Expect(Read, {opener})
    <3>1. \A r \in Bracket : Kept(e, r.c)
      BY <1>0, <1>2 DEF Ubjson!Expect
    <3>2. o \in UNION {IF r.ok THEN Ubjson!EnterHeader(input, r.c, opener) ELSE {r} : r \in Bracket}
      BY <1>5, <2>2 DEF Ubjson!Begin, Ubjson!BeginWith, Ubjson!Then, Read
    <3>. HIDE DEF Bracket, e
    <3>3. PICK r \in Bracket : o \in IF r.ok THEN Ubjson!EnterHeader(input, r.c, opener) ELSE {r}
      BY <3>2
    <3>. QED
      BY <1>4, <3>1, <3>3
  <2>. QED
    BY <2>1, <2>2
<1>6. ASSUME NEW o \in Ubjson!BeginMarked(input, k, opener) PROVE Entered(k, opener, o)
  <2>1. CASE ~ Ubjson!MayEnter(k.depth)
    <3>1. o = Ubjson!Err(k)
      BY <1>0, <1>6, <2>1 DEF Ubjson!BeginMarked, Ubjson!BeginWith, Ubjson!Then
    <3>. QED
      BY <1>0, <1>1, <3>1 DEF Entered
  <2>2. CASE Ubjson!MayEnter(k.depth)
    <3>. DEFINE Bracket == Ubjson!Expect({Ubjson!Ok(e, opener)}, {opener})
    <3>1. \A r \in Bracket : Kept(e, r.c)
      BY <1>0, <1>1 DEF Ubjson!Expect
    <3>2. o \in UNION {IF r.ok THEN Ubjson!EnterHeader(input, r.c, opener) ELSE {r} : r \in Bracket}
      BY <1>6, <2>2 DEF Ubjson!BeginMarked, Ubjson!BeginWith, Ubjson!Then
    <3>. HIDE DEF Bracket, e
    <3>3. PICK r \in Bracket : o \in IF r.ok THEN Ubjson!EnterHeader(input, r.c, opener) ELSE {r}
      BY <3>2
    <3>. QED
      BY <1>4, <3>1, <3>3
  <2>. QED
    BY <2>1, <2>2
<1>7. ASSUME NEW o \in Ubjson!EndContainer(input, k, opener) PROVE Left(k, o)
  <2>1. CASE k.frames = <<>>
    <3>1. o = Ubjson!Err(k)
      BY <1>7, <2>1 DEF Ubjson!EndContainer, Ubjson!InFrame, Ubjson!Then
    <3>. QED
      BY <1>0, <2>1, <3>1, EmptyHolds DEF Left
  <2>2. CASE k.frames # <<>>
    <3>. DEFINE d == Pop(k)
                closer == IF opener = "[" THEN "]" ELSE "}"
                Byte == Ubjson!NextByte(input, d)
                Closing == Ubjson!Expect(Byte, {closer})
    <3>1. Sound(d) /\ Kept(d, d)
      BY <2>2, PoppedFrame, KeptItself
    <3>2. Ubjson!Pop(k) = d /\ \A x : Ubjson!Leave(x) = Leave(x)
      BY DEF Ubjson!Pop, Pop, Ubjson!Leave, Leave, Ubjson!GiveBack, GiveBack
    <3>. HIDE DEF d
    <3>3. \A r \in Byte : Kept(d, r.c)
      BY <3>1, UbjsonKeeps
    <3>4. o \in {Ubjson!Err(d), Ubjson!Ok(Leave(d), Ubjson!NoToken)}
             \cup UNION {IF r.ok THEN {Ubjson!Ok(Leave(r.c), Ubjson!NoToken)} ELSE {r} : r \in Closing}
      BY <1>7, <2>2, <3>2 DEF Ubjson!EndContainer, Ubjson!InFrame, Ubjson!Then
    <3>. HIDE DEF Byte, closer
    <3>5. \A r \in Closing : Kept(d, r.c)
      BY <1>0, <3>3 DEF Ubjson!Expect
    <3>. HIDE DEF Closing
    <3>6. \/ ~o.ok /\ Kept(d, o.c)
          \/ o.ok /\ \E x : Kept(d, x) /\ o.c = Leave(x)
      BY <1>0, <3>1, <3>4, <3>5
    <3>. QED
      BY <2>2, <3>6, Shallower DEF Left, d
  <2>. QED
    BY <2>1, <2>2
<1>. QED
  BY <1>5, <1>6, <1>7

(* JSON in memory: no call touches depth or frames.                        *)
LEMMA BytesKeeps ==
    ASSUME NEW input, NEW k, Sound(k)
    PROVE  /\ Kept(k, Bytes!SkipBlanks(input, k))
           /\ \A o \in Bytes!Next(input, k) : Kept(k, o.c)
           /\ \A o \in Bytes!Peek(input, k) : Kept(k, o.c)
           /\ \A o \in Bytes!OptionTag(input, k) : Kept(k, o.c)
           /\ \A kinds : \A o \in Bytes!Typed(input, k, kinds) : Kept(k, o.c)
           /\ \A o \in Bytes!ObjectKey(input, k) : Kept(k, o.c)
           /\ \A o \in Bytes!HasMore(input, k) : Kept(k, o.c)
           /\ \A closer : \A o \in Bytes!EntrySep(input, k, closer) : Kept(k, o.c)
<1>1. ASSUME NEW e, Kept(k, e)
      PROVE  /\ \A n : Kept(k, [e EXCEPT !.pos = n])
             /\ \A n : Kept(k, [e EXCEPT !.look = n])
             /\ Kept(k, Bytes!SkipBlanks(input, e))
             /\ \A g : Kept(k, Bytes!Ok(e, g).c) /\ Kept(k, Bytes!Err(e).c)
  BY <1>1, KeptByChanges DEF Bytes!SkipBlanks, Bytes!Ok, Bytes!Err
<1>2. Kept(k, k)
  BY KeptItself
<1>3. \A o \in Bytes!Lex(input, k) : Kept(k, o.c)
  BY <1>1, <1>2 DEF Bytes!Lex
<1>4. \A o \in Bytes!Next(input, k) : Kept(k, o.c)
  BY <1>1, <1>2, <1>3 DEF Bytes!Next
<1>5. \A o \in Bytes!Peek(input, k) : Kept(k, o.c)
  BY <1>1, <1>2, <1>3 DEF Bytes!Peek, Bytes!Then
<1>6. \A o \in Bytes!OptionTag(input, k) : Kept(k, o.c)
  BY <1>1, <1>2 DEF Bytes!OptionTag
<1>7. \A kinds : \A o \in Bytes!Typed(input, k, kinds) : Kept(k, o.c)
  BY <1>1, <1>4 DEF Bytes!Typed, Bytes!Expect
<1>8. \A o \in Bytes!ObjectKey(input, k) : Kept(k, o.c)
  BY <1>1, <1>2 DEF Bytes!ObjectKey
<1>9. \A o \in Bytes!HasMore(input, k) : Kept(k, o.c)
  BY <1>1, <1>2 DEF Bytes!HasMore
<1>10. \A closer : \A o \in Bytes!EntrySep(input, k, closer) : Kept(k, o.c)
  BY <1>1, <1>2 DEF Bytes!EntrySep
<1>. QED
  BY <1>1, <1>2, <1>4, <1>5, <1>6, <1>7, <1>8, <1>9, <1>10

(* JSON from a stream: no call touches depth or frames, however much a     *)
(* read delivers.                                                          *)
LEMMA StreamKeeps ==
    ASSUME NEW input, NEW k, Sound(k)
    PROVE  /\ \A o \in Stream!Next(input, k) : Kept(k, o.c)
           /\ \A o \in Stream!Peek(input, k) : Kept(k, o.c)
           /\ \A o \in Stream!OptionTag(input, k) : Kept(k, o.c)
           /\ \A kinds : \A o \in Stream!Typed(input, k, kinds) : Kept(k, o.c)
           /\ \A o \in Stream!ObjectKey(input, k) : Kept(k, o.c)
           /\ \A o \in Stream!HasMore(input, k) : Kept(k, o.c)
           /\ \A closer : \A o \in Stream!EntrySep(input, k, closer) : Kept(k, o.c)
<1>1. ASSUME NEW e, Kept(k, e)
      PROVE  /\ \A n : Kept(k, [e EXCEPT !.pos = n])
             /\ \A n : Kept(k, [e EXCEPT !.look = n])
             /\ Kept(k, Stream!SkipBlanks(input, e))
             /\ \A upto : \A d \in Stream!Fill(input, e, upto) : Kept(k, d)
             /\ \A g : Kept(k, Stream!Ok(e, g).c) /\ Stream!Ok(e, g).ok
             /\ Kept(k, Stream!Err(e).c) /\ ~Stream!Err(e).ok
  <2>1. /\ \A n : Kept(k, [e EXCEPT !.pos = n])
        /\ \A n : Kept(k, [e EXCEPT !.look = n])
        /\ \A n : Kept(k, [e EXCEPT !.avail = n])
    BY <1>1, KeptByChanges
  <2>2. Kept(k, Stream!SkipBlanks(input, e))
    BY <2>1 DEF Stream!SkipBlanks
  <2>3. ASSUME NEW upto, NEW d \in Stream!Fill(input, e, upto) PROVE Kept(k, d)
    <3>1. d = e \/ \E n : d = [e EXCEPT !.avail = n]
      BY <2>3 DEF Stream!Fill
    <3>. QED
      BY <1>1, <2>1, <3>1
  <2>4. /\ \A g : Kept(k, Stream!Ok(e, g).c) /\ Stream!Ok(e, g).ok
        /\ Kept(k, Stream!Err(e).c) /\ ~Stream!Err(e).ok
    BY <1>1 DEF Stream!Ok, Stream!Err
  <2>. QED
    BY <2>1, <2>2, <2>3, <2>4
<1>2. Kept(k, k)
  BY KeptItself
<1>3. \A o \in Stream!Lex(input, k) : Kept(k, o.c)
  BY <1>1, <1>2 DEF Stream!Lex
<1>4. \A o \in Stream!Next(input, k) : Kept(k, o.c)
  BY <1>1, <1>2, <1>3 DEF Stream!Next
<1>5. \A o \in Stream!Peek(input, k) : Kept(k, o.c)
  BY <1>1, <1>2, <1>3 DEF Stream!Peek, Stream!Then
<1>6. \A o \in Stream!OptionTag(input, k) : Kept(k, o.c)
  BY <1>1, <1>5 DEF Stream!OptionTag
<1>7. \A kinds : \A o \in Stream!Typed(input, k, kinds) : Kept(k, o.c)
  BY <1>1, <1>4 DEF Stream!Typed, Stream!Expect
<1>8. ASSUME NEW e, Kept(k, e), NEW o \in Stream!Decide(input, e) PROVE Kept(k, o.c)
  BY <1>1, <1>8 DEF Stream!Decide
<1>9. ASSUME NEW o \in Stream!ObjectKey(input, k) PROVE Kept(k, o.c)
  <2>. DEFINE After(r) == Stream!Decide(input, [r.c EXCEPT !.pos = @ + 1])
              Colons(r) == UNION {IF q.ok
                                  THEN IF q.got = ":"
                                       THEN {Stream!Ok([q.c EXCEPT !.pos = @ + 1], Stream!NoToken)}
                                       ELSE {Stream!Err(q.c)}
                                  ELSE {q} : q \in After(r)}
              Keyed(r) == {[q EXCEPT !.got = IF q.ok THEN r.got ELSE Stream!NoToken] : q \in Colons(r)}
              Key(r) == CASE r.got = "}" -> {r}
                          [] r.got \in Stream!Strings -> Keyed(r)
                          [] OTHER -> {Stream!Err(r.c)}
              Keys == UNION {IF r.ok THEN Key(r) ELSE {r} : r \in Stream!Decide(input, k)}
  <2>1. \A r \in Stream!Decide(input, k) : Kept(k, r.c)
    BY <1>2, <1>8
  <2>2. ASSUME NEW r \in Stream!Decide(input, k), NEW q \in Colons(r)
        PROVE  Kept(k, q.c) /\ DOMAIN q = {"ok", "c", "got"}
    <3>1. Kept(k, [r.c EXCEPT !.pos = @ + 1])
      BY <1>1, <2>1
    <3>2. \A p \in After(r) : Kept(k, p.c) /\ DOMAIN p = {"ok", "c", "got"}
      <4>1. \A p \in After(r) : Kept(k, p.c)
        BY <1>8, <3>1
      <4>2. \A p \in After(r) : DOMAIN p = {"ok", "c", "got"}
        BY DEF Stream!Decide, Stream!Ok
      <4>. QED
        BY <4>1, <4>2
    <3>. HIDE DEF After
    <3>3. PICK p \in After(r) :
             q \in {Stream!Ok([p.c EXCEPT !.pos = @ + 1], Stream!NoToken), Stream!Err(p.c), p}
      OBVIOUS
    <3>4. Kept(k, q.c)
      BY <1>1, <3>2, <3>3
    <3>5. DOMAIN q = {"ok", "c", "got"}
      BY <3>2, <3>3 DEF Stream!Ok, Stream!Err
    <3>. QED
      BY <3>4, <3>5
  <2>. HIDE DEF Colons
  <2>3. ASSUME NEW r \in Stream!Decide(input, k), NEW q \in Keyed(r) PROVE Kept(k, q.c)
    BY <2>2
  <2>. HIDE DEF Keyed
  <2>4. ASSUME NEW q \in Keys PROVE Kept(k, q.c)
    <3>1. PICK r \in Stream!Decide(input, k) : q \in {r, Stream!Err(r.c)} \cup Keyed(r)
      BY <2>4
    <3>. QED
      BY <1>1, <2>1, <2>3, <3>1
  <2>5. o \in UNION {IF q.ok THEN {IF q.got = "}" THEN Stream!Ok(q.c, Stream!NoToken) ELSE q}
                     ELSE {q} : q \in Keys}
    <3>1. Keys = UNION {IF r.ok THEN Key(r) ELSE {r} : r \in Stream!Decide(input, k)}
      OBVIOUS
    <3>2. \A r : Key(r) = CASE r.got = "}" -> {r}
                            [] r.got \in Stream!Strings -> Keyed(r)
                            [] OTHER -> {Stream!Err(r.c)}
      OBVIOUS
    <3>. HIDE DEF Keys
    <3>. QED
      BY <1>9, <3>1 DEF Stream!ObjectKey, Stream!Then, Keyed, Colons
  <2>. HIDE DEF Keys
  <2>6. PICK q \in Keys : o \in {q, Stream!Ok(q.c, Stream!NoToken)}
    BY <2>5
  <2>. QED
    BY <1>1, <2>4, <2>6
<1>10. \A o \in Stream!HasMore(input, k) : Kept(k, o.c)
  BY <1>1, <1>2, <1>8 DEF Stream!HasMore
<1>11. ASSUME NEW closer, NEW o \in Stream!EntrySep(input, k, closer) PROVE Kept(k, o.c)
  <2>1. \A r \in Stream!Decide(input, k) : Kept(k, r.c)
    BY <1>2, <1>8
  <2>2. PICK r \in Stream!Decide(input, k) :
           LET after == Stream!SkipBlanks(input, [r.c EXCEPT !.pos = @ + 1])
           IN  o \in {Stream!Err(after), Stream!Ok(after, TRUE), Stream!Ok(r.c, FALSE), Stream!Err(r.c), r}
    BY <1>11 DEF Stream!EntrySep, Stream!Then
  <2>. QED
    BY <1>1, <2>1, <2>2
<1>. QED
  BY <1>2, <1>4, <1>5, <1>6, <1>7, <1>9, <1>10, <1>11

(* Buffered tokens: no call touches depth or frames.                       *)
LEMMA TreeKeeps ==
    ASSUME NEW input, NEW k, Sound(k)
    PROVE  /\ \A o \in Tree!Next(input, k) : Kept(k, o.c)
           /\ \A o \in Tree!Peek(input, k) : Kept(k, o.c)
           /\ \A o \in Tree!OptionTag(input, k) : Kept(k, o.c)
           /\ \A kinds : \A o \in Tree!Typed(input, k, kinds) : Kept(k, o.c)
           /\ \A o \in Tree!ObjectKey(input, k) : Kept(k, o.c)
           /\ \A o \in Tree!HasMore(input, k) : Kept(k, o.c)
           /\ \A closer : \A o \in Tree!EntrySep(input, k, closer) : Kept(k, o.c)
<1>1. ASSUME NEW e, Kept(k, e)
      PROVE  /\ \A n, m : Kept(k, [e EXCEPT !.look = n, !.pos = m])
             /\ \A n : Kept(k, [e EXCEPT !.pos = n])
             /\ \A n : Kept(k, [e EXCEPT !.look = n])
             /\ \A g : Kept(k, Tree!Ok(e, g).c) /\ Kept(k, Tree!Err(e).c)
  <2>1. \A n : Kept(k, [e EXCEPT !.look = n])
    BY <1>1, KeptByChanges
  <2>2. \A n, m : Kept(k, [[e EXCEPT !.look = n] EXCEPT !.pos = m])
    BY <2>1, KeptByChanges
  <2>. QED
    BY <1>1, <2>1, <2>2, KeptByChanges DEF Tree!Ok, Tree!Err
<1>2. Kept(k, k)
  BY KeptItself
<1>3. ASSUME NEW e, Kept(k, e), NEW o \in Tree!Next(input, e) PROVE Kept(k, o.c)
  BY <1>1, <1>3 DEF Tree!Next
<1>4. \A o \in Tree!Peek(input, k) : Kept(k, o.c)
  BY <1>1, <1>2 DEF Tree!Peek
<1>5. ASSUME NEW o \in Tree!OptionTag(input, k) PROVE Kept(k, o.c)
  <2>1. PICK p \in Tree!Peek(input, k) :
           \/ o \in {p, Tree!Ok(p.c, FALSE)}
           \/ o \in {Tree!Ok(n.c, TRUE) : n \in Tree!Next(input, p.c)}
    BY <1>5 DEF Tree!OptionTag, Tree!Then
  <2>. QED
    BY <1>1, <1>3, <1>4, <2>1
<1>6. \A e : Kept(k, e) => \A kinds : \A o \in Tree!Expect(Tree!Next(input, e), kinds) : Kept(k, o.c)
  BY <1>1, <1>3 DEF Tree!Expect
<1>7. \A kinds : \A o \in Tree!Typed(input, k, kinds) : Kept(k, o.c)
  BY <1>2, <1>6 DEF Tree!Typed
<1>8. ASSUME NEW o \in Tree!ObjectKey(input, k) PROVE Kept(k, o.c)
  <2>1. PICK p \in Tree!Peek(input, k) :
           \/ o \in {p, Tree!Ok(p.c, Tree!NoToken)}
           \/ o \in Tree!Expect(Tree!Next(input, p.c), Tree!Strings)
    BY <1>8 DEF Tree!ObjectKey, Tree!Then
  <2>. QED
    BY <1>1, <1>4, <1>6, <2>1
<1>9. \A closer : \A o \in Tree!EntrySep(input, k, closer) : Kept(k, o.c)
  BY <1>1, <1>4 DEF Tree!EntrySep, Tree!Then
<1>10. \A o \in Tree!HasMore(input, k) : Kept(k, o.c)
  BY <1>9 DEF Tree!HasMore
<1>. QED
  BY <1>2, <1>3, <1>4, <1>5, <1>7, <1>8, <1>9, <1>10

(* Smile peeks without staging and keeps no frames: a name or a string it  *)
(* keeps to refer to is another field.                                     *)
LEMMA SmileKeeps ==
    ASSUME NEW input, NEW k, Sound(k)
    PROVE  /\ \A o \in Smile!Peek(input, k) : o.c = k
           /\ \A kinds : \A o \in Smile!Typed(input, k, kinds) : Kept(k, o.c)
           /\ \A o \in Smile!ObjectKey(input, k) : Kept(k, o.c)
           /\ \A o \in Smile!HasMore(input, k) : Kept(k, o.c)
           /\ \A closer : \A o \in Smile!EntrySep(input, k, closer) : Kept(k, o.c)
           /\ \A o \in Smile!NextByte(input, k) : Kept(k, o.c)
           /\ \A byte : \A o \in Smile!SkipPayload(input, k, byte) : Kept(k, o.c)
           /\ \A o \in Smile!OptionTag(input, k) : Kept(k, o.c)
           /\ \A p \in Smile!Peek(input, k) :
                 p.got = "null" => \A o \in Smile!Next(input, p.c) : Kept(k, o.c)
<1>0. /\ \A e, g : LET o == Smile!Ok(e, g) IN o.ok /\ o.c = e /\ o.got = g
      /\ \A e : LET o == Smile!Err(e) IN ~o.ok /\ o.c = e /\ o.got = "none"
  BY DEF Smile!Ok, Smile!Err, Smile!NoToken
<1>1. ASSUME NEW e, Kept(k, e)
      PROVE  /\ Kept(k, Smile!Taken(e))
             /\ \A n : Kept(k, [e EXCEPT !.pos = n])
             /\ \A n : Kept(k, [e EXCEPT !.names = n])
             /\ \A n : Kept(k, [e EXCEPT !.values = n])
  BY <1>1, KeptByChanges DEF Smile!Taken
<1>2. Kept(k, k)
  BY KeptItself
<1>3. \A e : Kept(k, e) => \A o \in Smile!NextByte(input, e) : Kept(k, o.c)
  BY <1>0, <1>1 DEF Smile!NextByte
<1>4. \A o \in Smile!PeekByte(input, k) : o.c = k
  BY <1>0 DEF Smile!PeekByte
<1>5. \A o \in Smile!Peek(input, k) : o.c = k
  BY <1>0, <1>4 DEF Smile!Peek
<1>6. ASSUME NEW e, Kept(k, e), NEW n, NEW o \in Smile!TakeText(input, e, n) PROVE Kept(k, o.c)
  <2>1. \A r \in Smile!TakeString(input, e, n) : Kept(k, r.c)
    BY <1>0, <1>1, <1>6 DEF Smile!TakeString
  <2>2. o \in Smile!TakeString(input, e, n) \cup {Smile!Err(e)}
    BY <1>6 DEF Smile!TakeText
  <2>. QED
    BY <1>0, <1>6, <2>1, <2>2
<1>7. ASSUME NEW e, Kept(k, e), NEW table, NEW i, NEW o \in Smile!Resolve(e, table, i)
      PROVE  Kept(k, o.c)
  BY <1>0, <1>7 DEF Smile!Resolve
<1>8. ASSUME NEW e, Kept(k, e), NEW byte, NEW o \in Smile!ReadString(input, e, byte)
      PROVE  Kept(k, o.c)
  <2>. DEFINE n == Smile!StringLength[byte]
              Text == Smile!TakeText(input, e, n)
              Shared(r) == Smile!Ok(Smile!Share(r.c, r.got), r.got)
              Whole == UNION {IF r.ok THEN {Shared(r)} ELSE {r} : r \in Text}
  <2>1. \A r \in Text : Kept(k, r.c)
    BY <1>6, <1>8
  <2>. HIDE DEF Text
  <2>2. ASSUME NEW r \in Text PROVE Kept(k, Shared(r).c)
    <3>1. \A v : Kept(k, [r.c EXCEPT !.values = v])
      BY <1>1, <2>1
    <3>2. Kept(k, Smile!Share(r.c, r.got))
      BY <3>1 DEF Smile!Share
    <3>. QED
      BY <1>0, <3>2
  <2>3. Whole = UNION {IF r.ok THEN {Shared(r)} ELSE {r} : r \in Text}
    OBVIOUS
  <2>4. \A r \in Whole : Kept(k, r.c)
    <3>. HIDE DEF Shared
    <3>. QED
      BY <2>1, <2>2
  <2>. HIDE DEF Whole
  <2>5. \/ o \in {Smile!Ok(e, "b"), Smile!Err(e)} \cup Whole
        \/ \E i : o \in Smile!Resolve(e, e.values, i)
    BY <1>8, <2>3 DEF Smile!ReadString, Smile!Then, Text
  <2>. QED
    BY <1>0, <1>7, <1>8, <2>4, <2>5
<1>9. ASSUME NEW o \in Smile!ReadKey(input, k) PROVE Kept(k, o.c)
  <2>. DEFINE n(r) == Smile!NameLength[r.got]
              Text(r) == Smile!TakeText(input, r.c, n(r))
              Named(q) == Smile!Ok([q.c EXCEPT !.names = Append(@, q.got)], q.got)
              Whole(r) == UNION {IF q.ok THEN {Named(q)} ELSE {q} : q \in Text(r)}
  <2>1. PICK r \in Smile!NextByte(input, k) :
           \/ o \in {r, Smile!Ok(r.c, "b"), Smile!Err(r.c)} \cup Whole(r)
           \/ \E i : o \in Smile!Resolve(r.c, r.c.names, i)
    BY <1>9 DEF Smile!ReadKey, Smile!Then
  <2>2. Kept(k, r.c)
    BY <1>2, <1>3
  <2>3. \A q \in Text(r) : Kept(k, q.c)
    BY <1>6, <2>2
  <2>. HIDE DEF Text
  <2>4. ASSUME NEW q \in Text(r) PROVE Kept(k, Named(q).c)
    <3>1. \A v : Kept(k, [q.c EXCEPT !.names = v])
      BY <1>1, <2>3
    <3>2. Kept(k, [q.c EXCEPT !.names = Append(@, q.got)])
      BY <3>1
    <3>. QED
      BY <1>0, <3>2
  <2>5. \A q \in Whole(r) : Kept(k, q.c)
    <3>. HIDE DEF Named
    <3>. QED
      BY <2>3, <2>4
  <2>. HIDE DEF Whole
  <2>. QED
    BY <1>0, <1>7, <2>1, <2>2, <2>5
<1>10. ASSUME NEW kinds, NEW o \in Smile!Typed(input, k, kinds) PROVE Kept(k, o.c)
  <2>1. PICK r \in Smile!NextByte(input, k) :
           \/ o \in Smile!ReadString(input, r.c, r.got)
           \/ o \in {r, Smile!Ok(r.c, r.got), Smile!Err(r.c)}
    <3>1. \A e, g : Smile!Expect({Smile!Ok(e, g)}, kinds) \subseteq {Smile!Ok(e, g), Smile!Err(e)}
      BY <1>0 DEF Smile!Expect
    <3>2. PICK r \in Smile!NextByte(input, k) :
             o \in IF r.ok
                   THEN IF kinds = Smile!Strings THEN Smile!ReadString(input, r.c, r.got)
                        ELSE Smile!Expect({Smile!Ok(r.c, r.got)}, kinds)
                   ELSE {r}
      BY <1>10 DEF Smile!Typed, Smile!Then
    <3>. QED
      BY <3>1, <3>2
  <2>2. Kept(k, r.c)
    BY <1>2, <1>3
  <2>. QED
    BY <1>0, <1>8, <2>1, <2>2
<1>11. ASSUME NEW byte, NEW o \in Smile!SkipPayload(input, k, byte) PROVE Kept(k, o.c)
  BY <1>0, <1>1, <1>2, <1>8, <1>11 DEF Smile!SkipPayload
<1>12. ASSUME NEW o \in Smile!ObjectKey(input, k) PROVE Kept(k, o.c)
  <2>1. PICK r \in Smile!PeekByte(input, k) :
           o \in {r, Smile!Ok(k, Smile!NoToken)} \cup Smile!ReadKey(input, k)
    BY <1>12 DEF Smile!ObjectKey, Smile!Then
  <2>. QED
    BY <1>0, <1>2, <1>4, <1>9, <2>1
<1>13. \A closer : \A o \in Smile!EntrySep(input, k, closer) : Kept(k, o.c)
  BY <1>0, <1>2, <1>4 DEF Smile!EntrySep
<1>14. \A o \in Smile!HasMore(input, k) : Kept(k, o.c)
  BY <1>13 DEF Smile!HasMore
<1>15. ASSUME NEW p \in Smile!Peek(input, k), p.got = "null", NEW o \in Smile!Next(input, k)
       PROVE  Kept(k, o.c)
  <2>1. PICK q \in Smile!PeekByte(input, k) :
           p = IF q.ok THEN Smile!Ok(q.c, Smile!TokenFor(q.got)) ELSE q
    BY DEF Smile!Peek
  <2>2. q = Smile!Err(k) \/ q = Smile!Ok(k, input[k.pos])
    BY DEF Smile!PeekByte
  <2>3. Smile!TokenFor(input[k.pos]) = "null"
    BY <1>0, <1>15, <2>1, <2>2
  <2>4. input[k.pos] \notin Smile!Openers
    BY <2>3 DEF Smile!TokenFor, Smile!Openers
  <2>5. PICK r \in Smile!NextByte(input, k) :
           o \in IF r.ok
                 THEN IF r.got \in Smile!Openers THEN Smile!BeginMarked(r.c, r.got)
                      ELSE {Smile!Ok(r.c, Smile!TokenFor(r.got))}
                 ELSE {r}
    BY <1>15 DEF Smile!Next, Smile!Then
  <2>6. r = Smile!Err(k) \/ r = Smile!Ok(Smile!Taken(k), input[k.pos])
    BY DEF Smile!NextByte
  <2>7. o.c = r.c
    BY <1>0, <2>4, <2>5, <2>6
  <2>. QED
    BY <1>2, <1>3, <2>7
<1>16. ASSUME NEW o \in Smile!OptionTag(input, k) PROVE Kept(k, o.c)
  <2>1. PICK p \in Smile!Peek(input, k) :
           o \in IF p.ok
                 THEN IF p.got = "null"
                      THEN {IF n.ok THEN Smile!Ok(n.c, TRUE) ELSE n : n \in Smile!Next(input, k)}
                      ELSE {Smile!Ok(k, FALSE)}
                 ELSE {p}
    BY <1>16 DEF Smile!OptionTag, Smile!Then
  <2>2. CASE p.ok /\ p.got = "null"
    <3>1. \A n \in Smile!Next(input, k) : Kept(k, n.c)
      BY <1>15, <2>2
    <3>2. PICK n \in Smile!Next(input, k) : o = IF n.ok THEN Smile!Ok(n.c, TRUE) ELSE n
      BY <2>1, <2>2
    <3>3. o.c = n.c
      BY <3>2 DEF Smile!Ok
    <3>. QED
      BY <3>1, <3>3
  <2>3. CASE ~(p.ok /\ p.got = "null")
    <3>1. o = Smile!Ok(k, FALSE) \/ o = p
      BY <2>1, <2>3
    <3>2. o.c = k
      BY <1>5, <3>1 DEF Smile!Ok
    <3>. QED
      BY <1>2, <3>2
  <2>. QED
    BY <2>2, <2>3
<1>. QED
  BY <1>2, <1>3, <1>5, <1>10, <1>11, <1>12, <1>13, <1>14, <1>15, <1>16

(* Smile: containers cost a level and no frame.                            *)
LEMMA SmileNests ==
    ASSUME NEW input, NEW k, Sound(k), NEW opener
    PROVE  /\ \A o \in Smile!Begin(input, k, opener) : Charged(k, o)
           /\ \A o \in Smile!BeginMarked(k, opener) : Charged(k, o)
           /\ \A o \in Smile!EndContainer(input, k, opener) : Repaid(k, o)
<1>. DEFINE e == [k EXCEPT !.depth = @ + 1]
            closer == Smile!CloserOf[opener]
<1>0. /\ \A d, g : LET o == Smile!Ok(d, g) IN o.ok /\ o.c = d /\ o.got = g
      /\ \A d : LET o == Smile!Err(d) IN ~o.ok /\ o.c = d
  BY DEF Smile!Ok, Smile!Err
<1>1. Sound(e) /\ Kept(e, e) /\ Kept(k, k)
  BY Deeper, KeptItself
<1>2. ASSUME NEW Read, \A o \in Read : Kept(e, o.c),
             NEW o, o \in IF Smile!MayEnter(k.depth) THEN Smile!Expect(Read, {opener}) ELSE {Smile!Err(k)}
      PROVE  Charged(k, o)
  <2>. HIDE DEF e
  <2>1. Kept(e, o.c) \/ (~o.ok /\ o.c = k)
    BY <1>0, <1>2 DEF Smile!Expect
  <2>. QED
    BY <2>1, ChargedAnyway DEF e
<1>3. \A o \in Smile!Begin(input, k, opener) : Charged(k, o)
  <2>1. \A o \in Smile!NextByte(input, e) : Kept(e, o.c)
    BY <1>1, SmileKeeps
  <2>. QED
    BY <1>2, <2>1 DEF Smile!Begin, Smile!BeginWith
<1>4. ASSUME NEW o \in Smile!BeginMarked(k, opener) PROVE Charged(k, o)
  <2>1. \A r \in {Smile!Ok(e, opener)} : Kept(e, r.c)
    BY <1>0, <1>1
  <2>. QED
    BY <1>2, <1>4, <2>1, Zenon DEF Smile!BeginMarked, Smile!BeginWith
<1>5. ASSUME NEW o \in Smile!EndContainer(input, k, opener) PROVE Repaid(k, o)
  <2>. DEFINE Closing == Smile!Expect(Smile!NextByte(input, k), {closer})
  <2>1. \A r \in Closing : Kept(k, r.c)
    BY <1>0, SmileKeeps DEF Smile!Expect
  <2>2. \A d : Smile!Leave(d) = Leave(d)
    BY DEF Smile!Leave, Leave, Smile!GiveBack, GiveBack
  <2>3. o \in UNION {IF r.ok THEN {Smile!Ok(Leave(r.c), Smile!NoToken)} ELSE {r} : r \in Closing}
    BY <1>5, <2>2 DEF Smile!EndContainer, Smile!Then
  <2>. HIDE DEF Closing
  <2>4. PICK r \in Closing : o \in IF r.ok THEN {Smile!Ok(Leave(r.c), Smile!NoToken)} ELSE {r}
    BY <2>3
  <2>. QED
    BY <1>0, <2>1, <2>4, RepaidByLeave DEF Repaid, Kept, SameFrames
<1>. QED
  BY <1>3, <1>4, <1>5

-----------------------------------------------------------------------------
(* The dispatch: whatever the reader.                                      *)

Sourced == source \in JsonSources \cup WireSources

(* peek_token touches neither depth nor frames, whatever the reader.       *)
LEMMA PeekKeeps ==
    ASSUME Sourced, NEW k, Sound(k)
    PROVE  \A o \in PeekToken(k) : Kept(k, o.c)
<1>1. CASE source = "bytes"
  BY <1>1, BytesKeeps DEF PeekToken, Replays
<1>2. CASE source = "stream"
  BY <1>2, StreamKeeps DEF PeekToken, Replays
<1>3. CASE source \in Replays
  BY <1>3, TreeKeeps DEF PeekToken, Replays
<1>4. CASE source = "msgpack"
  BY <1>4, MsgPackKeeps DEF PeekToken, Replays
<1>5. CASE source = "cbor"
  BY <1>5, CborKeeps DEF PeekToken, Replays
<1>6. CASE source = "bencode"
  BY <1>6, BencodeKeeps DEF PeekToken, Replays
<1>7. CASE source = "bson"
  BY <1>7, BsonKeeps DEF PeekToken, Replays
<1>8. CASE source = "ubjson"
  BY <1>8, UbjsonKeeps, KeptItself DEF PeekToken, Replays
<1>9. CASE source = "postcard"
  BY <1>9, PostcardKeeps DEF PeekToken, Replays
<1>10. CASE source = "smile"
  BY <1>10, SmileKeeps, KeptItself DEF PeekToken, Replays
<1>. QED
  BY <1>1, <1>2, <1>3, <1>4, <1>5, <1>6, <1>7, <1>8, <1>9, <1>10
     DEF Sourced, JsonSources, WireSources, FramedSources

(* Nor do the typed reads.                                                 *)
LEMMA TypedKeeps ==
    ASSUME Sourced, NEW k, Sound(k), NEW kinds \in {{"null"}, Numbers, Strings}
    PROVE  \A o \in Typed(k, kinds) : Kept(k, o.c)
<1>1. CASE source = "bytes"
  BY <1>1, BytesKeeps DEF Typed, Replays
<1>2. CASE source = "stream"
  BY <1>2, StreamKeeps DEF Typed, Replays
<1>3. CASE source \in Replays
  BY <1>3, TreeKeeps DEF Typed, Replays
<1>4. CASE source = "msgpack"
  BY <1>4, MsgPackKeeps DEF Typed, Replays
<1>5. CASE source = "cbor"
  BY <1>5, CborKeeps DEF Typed, Replays
<1>6. CASE source = "bencode"
  BY <1>6, BencodeKeeps DEF Typed, Replays
<1>7. CASE source = "bson"
  BY <1>7, BsonKeeps DEF Typed, Replays
<1>8. CASE source = "ubjson"
  BY <1>8, UbjsonKeeps DEF Typed, Replays
<1>9. CASE source = "postcard"
  BY <1>9, PostcardKeeps DEF Typed, Replays
<1>10. CASE source = "smile"
  BY <1>10, SmileKeeps DEF Typed, Replays
<1>. QED
  BY <1>1, <1>2, <1>3, <1>4, <1>5, <1>6, <1>7, <1>8, <1>9, <1>10
     DEF Sourced, JsonSources, WireSources, FramedSources

(* Nor does next_token, but for the readers that enter a container with    *)
(* it.                                                                     *)
LEMMA NextKeeps ==
    ASSUME Sourced, source \notin {"ubjson", "smile"}, NEW k, Sound(k)
    PROVE  \A o \in NextToken(k) : Kept(k, o.c)
<1>1. CASE source = "bytes"
  BY <1>1, BytesKeeps DEF NextToken, Replays
<1>2. CASE source = "stream"
  BY <1>2, StreamKeeps DEF NextToken, Replays
<1>3. CASE source \in Replays
  BY <1>3, TreeKeeps DEF NextToken, Replays
<1>4. CASE source = "msgpack"
  BY <1>4, MsgPackKeeps DEF NextToken, Replays
<1>5. CASE source = "cbor"
  BY <1>5, CborKeeps DEF NextToken, Replays
<1>6. CASE source = "bencode"
  BY <1>6, BencodeKeeps DEF NextToken, Replays
<1>7. CASE source = "bson"
  BY <1>7, BsonKeeps DEF NextToken, Replays
<1>8. CASE source = "postcard"
  BY <1>8, PostcardKeeps DEF NextToken, Replays
<1>. QED
  BY <1>1, <1>2, <1>3, <1>4, <1>5, <1>6, <1>7, <1>8
     DEF Sourced, JsonSources, WireSources, FramedSources

(* Nor does next_token behind a peek that said null.                       *)
LEMMA NullKeeps ==
    ASSUME Sourced, NEW k, Sound(k), source = "ubjson" => PlainTypes(k),
           NEW p \in PeekToken(k), p.got = "null"
    PROVE  \A o \in NextToken(p.c) : Kept(p.c, o.c)
<1>1. Kept(k, p.c)
  BY PeekKeeps
<1>2. CASE source = "ubjson"
  BY <1>2, UbjsonKeeps, UbjsonNull DEF PeekToken, NextToken, Replays
<1>3. CASE source = "smile"
  BY <1>3, SmileKeeps DEF PeekToken, NextToken, Replays
<1>4. CASE source \notin {"ubjson", "smile"}
  BY <1>1, <1>4, NextKeeps DEF Kept, Holds
<1>. QED
  BY <1>2, <1>3, <1>4

(* option_tag touches neither depth nor frames.                            *)
LEMMA OptionKeeps ==
    ASSUME Sourced, Sound(c), source = "ubjson" => PlainTypes(c)
    PROVE  \A o \in OptionTag : Kept(c, o.c)
<1>1. CASE source = "bytes"
  BY <1>1, BytesKeeps DEF OptionTag, Replays
<1>2. CASE source = "stream"
  BY <1>2, StreamKeeps DEF OptionTag, Replays
<1>3. CASE source \in Replays
  BY <1>3, TreeKeeps DEF OptionTag, Replays
<1>4. CASE source = "msgpack"
  BY <1>4, MsgPackKeeps DEF OptionTag, Replays
<1>5. CASE source = "cbor"
  BY <1>5, CborKeeps DEF OptionTag, Replays
<1>6. CASE source = "bencode"
  BY <1>6, BencodeKeeps DEF OptionTag, Replays
<1>7. CASE source = "bson"
  BY <1>7, BsonKeeps DEF OptionTag, Replays
<1>8. CASE source = "ubjson"
  BY <1>8, UbjsonNull DEF OptionTag, Replays
<1>9. CASE source = "postcard"
  BY <1>9, PostcardKeeps DEF OptionTag, Replays
<1>10. CASE source = "smile"
  BY <1>10, SmileKeeps DEF OptionTag, Replays
<1>. QED
  BY <1>1, <1>2, <1>3, <1>4, <1>5, <1>6, <1>7, <1>8, <1>9, <1>10
     DEF Sourced, JsonSources, WireSources, FramedSources

(* object_key touches neither depth nor frames.                            *)
LEMMA KeyKeeps ==
    ASSUME Sourced, Sound(c)
    PROVE  \A o \in ObjectKey : Kept(c, o.c)
<1>1. CASE source = "bytes"
  BY <1>1, BytesKeeps DEF ObjectKey, Replays
<1>2. CASE source = "stream"
  BY <1>2, StreamKeeps DEF ObjectKey, Replays
<1>3. CASE source \in Replays
  BY <1>3, TreeKeeps DEF ObjectKey, Replays
<1>4. CASE source = "msgpack"
  BY <1>4, MsgPackKeeps DEF ObjectKey, Replays
<1>5. CASE source = "cbor"
  BY <1>5, CborKeeps DEF ObjectKey, Replays
<1>6. CASE source = "bencode"
  BY <1>6, BencodeKeeps DEF ObjectKey, Replays
<1>7. CASE source = "bson"
  BY <1>7, BsonKeeps DEF ObjectKey, Replays
<1>8. CASE source = "ubjson"
  BY <1>8, UbjsonKeeps DEF ObjectKey, Replays
<1>9. CASE source = "postcard"
  BY <1>9, PostcardKeeps DEF ObjectKey, Replays
<1>10. CASE source = "smile"
  BY <1>10, SmileKeeps DEF ObjectKey, Replays
<1>. QED
  BY <1>1, <1>2, <1>3, <1>4, <1>5, <1>6, <1>7, <1>8, <1>9, <1>10
     DEF Sourced, JsonSources, WireSources, FramedSources

(* object_entry_sep and array_entry_sep touch neither depth nor frames.    *)
LEMMA SepKeeps ==
    ASSUME Sourced, Sound(c), NEW closer
    PROVE  \A o \in EntrySep(closer) : Kept(c, o.c)
<1>1. CASE source = "bytes"
  BY <1>1, BytesKeeps DEF EntrySep, Replays
<1>2. CASE source = "stream"
  BY <1>2, StreamKeeps DEF EntrySep, Replays
<1>3. CASE source \in Replays
  BY <1>3, TreeKeeps DEF EntrySep, Replays
<1>4. CASE source = "msgpack"
  BY <1>4, MsgPackKeeps DEF EntrySep, Replays
<1>5. CASE source = "cbor"
  BY <1>5, CborKeeps DEF EntrySep, Replays
<1>6. CASE source = "bencode"
  BY <1>6, BencodeKeeps DEF EntrySep, Replays
<1>7. CASE source = "bson"
  BY <1>7, BsonKeeps DEF EntrySep, Replays
<1>8. CASE source = "ubjson"
  BY <1>8, UbjsonKeeps DEF EntrySep, Replays
<1>9. CASE source = "postcard"
  BY <1>9, PostcardKeeps DEF EntrySep, Replays
<1>10. CASE source = "smile"
  BY <1>10, SmileKeeps DEF EntrySep, Replays
<1>. QED
  BY <1>1, <1>2, <1>3, <1>4, <1>5, <1>6, <1>7, <1>8, <1>9, <1>10
     DEF Sourced, JsonSources, WireSources, FramedSources

(* array_has_more touches neither depth nor frames.                        *)
LEMMA MoreKeeps ==
    ASSUME Sourced, Sound(c)
    PROVE  \A o \in HasMore : Kept(c, o.c)
<1>1. CASE source = "bytes"
  BY <1>1, BytesKeeps DEF HasMore, Replays
<1>2. CASE source = "stream"
  BY <1>2, StreamKeeps DEF HasMore, Replays
<1>3. CASE source \in Replays
  BY <1>3, TreeKeeps DEF HasMore, Replays
<1>4. CASE source = "msgpack"
  BY <1>4, MsgPackKeeps DEF HasMore, Replays
<1>5. CASE source = "cbor"
  BY <1>5, CborKeeps DEF HasMore, Replays
<1>6. CASE source = "bencode"
  BY <1>6, BencodeKeeps DEF HasMore, Replays
<1>7. CASE source = "bson"
  BY <1>7, BsonKeeps DEF HasMore, Replays
<1>8. CASE source = "ubjson"
  BY <1>8, UbjsonKeeps DEF HasMore, Replays
<1>9. CASE source = "postcard"
  BY <1>9, PostcardKeeps DEF HasMore, Replays
<1>10. CASE source = "smile"
  BY <1>10, SmileKeeps DEF HasMore, Replays
<1>. QED
  BY <1>1, <1>2, <1>3, <1>4, <1>5, <1>6, <1>7, <1>8, <1>9, <1>10
     DEF Sourced, JsonSources, WireSources, FramedSources

(* Nor do the reads of skip_value.                                         *)
LEMMA SkipKeeps ==
    ASSUME Sourced, Sound(c)
    PROVE  /\ \A o \in SkipDispatch : Kept(c, o.c)
           /\ \A k, got : Sound(k) => \A o \in SkipScalar(k, got) : Kept(k, o.c)
<1>1. CASE source = "ubjson"
  BY <1>1, UbjsonKeeps DEF SkipDispatch, SkipScalar
<1>2. CASE source = "smile"
  BY <1>2, SmileKeeps DEF SkipDispatch, SkipScalar
<1>3. CASE source \notin {"ubjson", "smile"}
  <2>1. \A o \in PeekToken(c) : Kept(c, o.c)
    BY PeekKeeps
  <2>2. \A k, got : Sound(k) => \A o \in SkipScalar(k, got) : Kept(k, o.c)
    BY <1>3, NextKeeps DEF SkipScalar
  <2>3. ASSUME NEW o \in SkipDispatch PROVE Kept(c, o.c)
    <3>1. \/ o \in PeekToken(c)
          \/ \E g : o = Ok(Bytes!SkipBlanks(Input, c), g)
      BY <1>3, <2>3 DEF SkipDispatch
    <3>2. Kept(c, Bytes!SkipBlanks(Input, c))
      BY BytesKeeps
    <3>. QED
      BY <2>1, <3>1, <3>2 DEF Ok
  <2>. QED
    BY <2>2, <2>3
<1>. QED
  BY <1>1, <1>2, <1>3

\* A container was entered, or left.
Opened(k, opener, o) ==
    IF source \in FramedSources THEN Entered(k, opener, o) ELSE Charged(k, o)

Closed(k, o) == IF source \in FramedSources THEN Left(k, o) ELSE Repaid(k, o)

(* begin_object and begin_array, and the brackets of skip_value.           *)
LEMMA BeginOpens ==
    ASSUME Sourced, NEW k, Sound(k), NEW opener
    PROVE  /\ \A o \in Begin(k, opener) : Opened(k, opener, o)
           /\ \A o \in SkipBegin(k, opener) : Opened(k, opener, o)
<1>1. ASSUME NEW o \in Begin(k, opener) PROVE Opened(k, opener, o)
  <2>1. CASE source = "msgpack"
    BY <1>1, <2>1, MsgPackNests DEF Begin, Opened, FramedSources
  <2>2. CASE source = "cbor"
    BY <1>1, <2>2, CborNests DEF Begin, Opened, FramedSources
  <2>3. CASE source = "bencode"
    BY <1>1, <2>3, BencodeNests DEF Begin, Opened, FramedSources
  <2>4. CASE source = "bson"
    BY <1>1, <2>4, BsonNests DEF Begin, Opened, FramedSources
  <2>5. CASE source = "ubjson"
    BY <1>1, <2>5, UbjsonNests DEF Begin, Opened, FramedSources
  <2>6. CASE source = "postcard"
    BY <1>1, <2>6, PostcardNests DEF Begin, Opened, FramedSources
  <2>7. CASE source = "smile"
    BY <1>1, <2>7, SmileNests DEF Begin, Opened, FramedSources
  <2>8. CASE source \in JsonSources
    <3>. DEFINE e == [k EXCEPT !.depth = @ + 1]
    <3>1. Sound(e)
      BY Deeper
    <3>2. \A r \in NextToken(e) : Kept(e, r.c)
      BY <2>8, <3>1, NextKeeps DEF JsonSources, Replays
    <3>3. o \in IF MayEnter(k.depth) THEN Expect(NextToken(e), {opener}) ELSE {Err(k)}
      BY <1>1, <2>8 DEF Begin, BeginWith, JsonSources, Replays
    <3>. HIDE DEF e
    <3>4. Kept(e, o.c) \/ (~o.ok /\ o.c = k)
      BY <3>2, <3>3 DEF Expect, Err
    <3>. QED
      BY <2>8, <3>4, ChargedAnyway DEF e, Opened, JsonSources, Replays, FramedSources
  <2>. QED
    BY <2>1, <2>2, <2>3, <2>4, <2>5, <2>6, <2>7, <2>8 DEF Sourced, WireSources, FramedSources
<1>2. ASSUME NEW o \in SkipBegin(k, opener) PROVE Opened(k, opener, o)
  <2>1. CASE source = "ubjson"
    BY <1>2, <2>1, UbjsonNests DEF SkipBegin, Opened, FramedSources
  <2>2. CASE source = "smile"
    BY <1>2, <2>2, SmileNests DEF SkipBegin, Opened, FramedSources
  <2>3. CASE source \notin {"ubjson", "smile"}
    BY <1>1, <1>2, <2>3 DEF SkipBegin
  <2>. QED
    BY <2>1, <2>2, <2>3
<1>. QED
  BY <1>1, <1>2

(* end_object and end_array.                                               *)
LEMMA EndCloses ==
    ASSUME Sourced, Sound(c), NEW opener
    PROVE  \A o \in EndContainer(opener) : Closed(c, o)
<1>. SUFFICES ASSUME NEW o \in EndContainer(opener) PROVE Closed(c, o)
  OBVIOUS
<1>1. CASE source = "msgpack"
  BY <1>1, MsgPackNests DEF EndContainer, Closed, FramedSources
<1>2. CASE source = "cbor"
  BY <1>2, CborNests DEF EndContainer, Closed, FramedSources
<1>3. CASE source = "bencode"
  BY <1>3, BencodeNests DEF EndContainer, Closed, FramedSources
<1>4. CASE source = "bson"
  BY <1>4, BsonNests DEF EndContainer, Closed, FramedSources
<1>5. CASE source = "ubjson"
  BY <1>5, UbjsonNests DEF EndContainer, Closed, FramedSources
<1>6. CASE source = "postcard"
  BY <1>6, PostcardNests DEF EndContainer, Closed, FramedSources
<1>7. CASE source = "smile"
  BY <1>7, SmileNests DEF EndContainer, Closed, FramedSources
<1>8. CASE source \in JsonSources
  <2>. DEFINE closer == CloserOf[opener]
              Back(r) == [r EXCEPT !.c.depth = GiveBack(@)]
              Token == UNION {IF r.ok THEN {Back(r)} ELSE {r} : r \in NextToken(c)}
  <2>1. \A r \in NextToken(c) : Kept(c, r.c)
    BY <1>8, NextKeeps DEF JsonSources, Replays
  <2>2. Token = UNION {IF r.ok THEN {Back(r)} ELSE {r} : r \in NextToken(c)}
    OBVIOUS
  <2>3. \A r \in NextToken(c) : DOMAIN r = {"ok", "c", "got"}
    <3>1. CASE source = "bytes"
      BY <3>1 DEF NextToken, Replays, Bytes!Next, Bytes!Lex, Bytes!Ok, Bytes!Err
    <3>2. CASE source = "stream"
      BY <3>2 DEF NextToken, Replays, Stream!Next, Stream!Lex, Stream!Ok, Stream!Err
    <3>3. CASE source \in Replays
      BY <3>3 DEF NextToken, Replays, Tree!Next, Tree!Ok, Tree!Err
    <3>. QED
      BY <1>8, <3>1, <3>2, <3>3 DEF JsonSources
  <2>4. ASSUME NEW r \in NextToken(c)
        PROVE  Back(r).ok = r.ok /\ Back(r).c = Leave(r.c)
    BY <2>1, <2>3 DEF Leave
  <2>5. \A d : Bytes!GiveBack(d) = GiveBack(d)
    BY DEF Bytes!GiveBack, GiveBack
  <2>6. o \in {IF r.ok /\ r.got \notin {closer} THEN Bytes!Err(r.c) ELSE r : r \in Token}
    <3>. HIDE DEF Token, closer
    <3>. QED
      BY <1>8, <2>2, <2>5
         DEF EndContainer, Bytes!EndWith, Bytes!Then, Bytes!Expect, closer, JsonSources, Replays
  <2>. HIDE DEF Token, closer
  <2>7. PICK r \in Token : o = IF r.ok /\ r.got \notin {closer} THEN Bytes!Err(r.c) ELSE r
    BY <2>6
  <2>8. PICK q \in NextToken(c) : (r = q /\ ~q.ok) \/ (r = Back(q) /\ q.ok)
    BY <2>2
  <2>. HIDE DEF Back
  <2>9. \/ ~o.ok /\ o.c = q.c
        \/ o.c = Leave(q.c)
    BY <2>4, <2>7, <2>8 DEF Bytes!Err
  <2>10. Kept([c EXCEPT !.depth = GiveBack(@)], Leave(q.c))
    BY <2>1, RepaidByLeave
  <2>11. SameFrames(c, q.c) /\ SameFrames(c, Leave(q.c))
    <3>1. Kept(c, q.c) /\ DOMAIN c = Fields
      BY <2>1 DEF Sound
    <3>. QED
      BY <2>10, <3>1, CursorFields DEF Kept, Holds, SameFrames
  <2>12. Repaid(c, o)
    BY <2>9, <2>10, <2>11 DEF Repaid
  <2>. QED
    BY <1>8, <2>12 DEF Closed, JsonSources, Replays, FramedSources
<1>. QED
  BY <1>1, <1>2, <1>3, <1>4, <1>5, <1>6, <1>7, <1>8 DEF Sourced, WireSources, FramedSources

-----------------------------------------------------------------------------
(* The stack of tasks and the cursor fit each other.                       *)

Fits(k, ts) ==
    /\ Sound(k)
    /\ Stack(k.frames, ts)
    /\ k.depth = OpenFrom(ts, 1)
    /\ Len(k.frames) = FramesAt(OpenFrom(ts, 1))

\* What is left when a call fails, of the frames of b: those of the tasks
\* below the one at the top.
Survives(b, k) ==
    /\ Holds(b, k, FramesAt(OpenFrom(tasks, 2)))
    /\ source \notin FramedSources => Len(k.frames) = 0

(* The fields of a task.                                                   *)
LEMMA FieldsOfTask ==
    /\ TaskFields = {"do", "type", "seen", "left", "mark", "from"}
    /\ \A do, type : /\ DOMAIN Task(do, type) = TaskFields
                     /\ Task(do, type).do = do
BY DEF TaskFields, Task

(* A task that is in no container of its own goes on top.                  *)
LEMMA PlainOnTop ==
    ASSUME NEW k, NEW ts, Fits(k, ts), NEW t, DOMAIN t = TaskFields, t.do = "decode"
    PROVE  Fits(k, <<t>> \o ts)
<1>1. One(t) = 0 /\ t.do \notin Inside
  BY DEF One, Inside
<1>2. \A n : Placed(k.frames, t, n)
  BY <1>1 DEF Placed
<1>3. OpenFrom(ts, 1) \in Nat
  BY StackCounts DEF Fits
<1>4. Stack(k.frames, <<t>> \o ts) /\ OpenFrom(<<t>> \o ts, 1) = OpenFrom(ts, 1) + One(t)
  BY <1>2, StackPushes DEF Fits
<1>. QED
  BY <1>1, <1>3, <1>4 DEF Fits

(* The enum whose variants are tried goes on top, with a mark of here.     *)
LEMMA EnumOnTop ==
    ASSUME NEW k, NEW ts, Fits(k, ts), NEW t, DOMAIN t = TaskFields, t.do = "try",
           t.mark.depth = OpenFrom(ts, 1),
           source # "smile" => t.mark.frame_len = FramesAt(OpenFrom(ts, 1))
    PROVE  Fits(k, <<t>> \o ts)
<1>1. One(t) = 0 /\ t.do \notin Inside
  BY DEF One, Inside
<1>2. Placed(k.frames, t, OpenFrom(ts, 1))
  BY <1>1 DEF Placed
<1>3. OpenFrom(ts, 1) \in Nat
  BY StackCounts DEF Fits
<1>4. Stack(k.frames, <<t>> \o ts) /\ OpenFrom(<<t>> \o ts, 1) = OpenFrom(ts, 1) + One(t)
  BY <1>1, <1>2, <1>3, StackPushes DEF Fits
<1>. QED
  BY <1>1, <1>3, <1>4 DEF Fits

(* Two tasks go on top one after the other.                                *)
LEMMA TwoOnTop ==
    ASSUME NEW ts, Sequence(ts), NEW t, NEW u
    PROVE  <<t, u>> \o ts = <<t>> \o (<<u>> \o ts)
<1>. DEFINE S == {ts[i] : i \in DOMAIN ts} \cup {t, u}
<1>1. ts \in Seq(S)
  BY SeqMonotonic DEF Sequence
<1>2. t \in S /\ u \in S
  OBVIOUS
<1>. HIDE DEF S
<1>3. <<t>> \in Seq(S) /\ <<u>> \in Seq(S)
  BY <1>2
<1>4. <<t>> \o <<u>> = <<t, u>>
  <2>1. /\ <<t, u>> \in Seq(S) /\ Len(<<t, u>>) = 2
        /\ Len(<<t>>) = 1 /\ Len(<<u>>) = 1
        /\ <<t, u>>[1] = t /\ <<t, u>>[2] = u /\ <<t>>[1] = t /\ <<u>>[1] = u
    BY <1>2
  <2>2. /\ <<t>> \o <<u>> \in Seq(S) /\ Len(<<t>> \o <<u>>) = 2
        /\ \A i \in 1 .. 2 : (<<t>> \o <<u>>)[i] = IF i <= 1 THEN <<t>>[i] ELSE <<u>>[i - 1]
    BY <1>3, <2>1, ConcatProperties
  <2>3. \A i \in 1 .. 2 : (<<t>> \o <<u>>)[i] = <<t, u>>[i]
    BY <2>1, <2>2
  <2>. QED
    BY <2>1, <2>2, <2>3, SeqEqual
<1>5. (<<t>> \o <<u>>) \o ts = <<t>> \o (<<u>> \o ts)
  BY <1>1, <1>3, ConcatAssociative
<1>. QED
  BY <1>4, <1>5

(* No task goes on top.                                                    *)
LEMMA NothingOnTop ==
    ASSUME NEW ts, Sequence(ts)
    PROVE  <<>> \o ts = ts
BY ConcatEmptySeq DEF Sequence

(* The tasks below the one at the top.                                     *)
LEMMA BelowTop ==
    ASSUME NEW b, Fits(b, tasks), tasks # <<>>
    PROVE  /\ Stack(b.frames, Tail(tasks))
           /\ Sequence(Tail(tasks))
           /\ OpenFrom(Tail(tasks), 1) = OpenFrom(tasks, 2)
           /\ OpenFrom(tasks, 2) \in Nat
           /\ OpenFrom(tasks, 1) = OpenFrom(tasks, 2) + One(Top)
           /\ Placed(b.frames, Top, OpenFrom(tasks, 1))
<1>. DEFINE S == {tasks[i] : i \in DOMAIN tasks}
<1>1. tasks \in Seq(S) /\ Sequence(tasks) /\ Len(tasks) \in Nat
  BY SequenceLength DEF Fits, Stack, Sequence
<1>. HIDE DEF S
<1>2. Len(tasks) # 0
  BY <1>1, EmptySeq
<1>3. Tail(tasks) = SubSeq(tasks, 2, Len(tasks))
  BY <1>1, TailIsSubSeq
<1>4. Stack(b.frames, Tail(tasks)) /\ OpenFrom(Tail(tasks), 1) = OpenFrom(tasks, 2)
  <2>1. 2 \in 1 .. Len(tasks) + 1
    BY <1>1, <1>2
  <2>2. Stack(b.frames, tasks)
    BY DEF Fits
  <2>. QED
    BY <1>3, <2>1, <2>2, StackDrops
<1>5. Top = tasks[1]
  BY <1>1, <1>2, HeadTailProperties DEF Top
<1>6. 1 \in 1 .. Len(tasks) /\ 1 + 1 = 2
  BY <1>1, <1>2
<1>7. OpenFrom(tasks, 1) = OpenFrom(tasks, 1 + 1) + One(tasks[1])
  BY <1>6, StackCounts DEF Fits
<1>8. OpenFrom(Tail(tasks), 1) \in Nat
  BY <1>4, StackCounts
<1>. QED
  BY <1>4, <1>5, <1>6, <1>7, <1>8 DEF Fits, Stack

(* A mark is gone back to.                                                 *)
LEMMA Rewinds ==
    ASSUME NEW b, NEW ts, Stack(b.frames, ts),
           NEW k, Holds(b, k, FramesAt(OpenFrom(ts, 1))),
           source \notin FramedSources => Len(k.frames) = 0,
           NEW mark, mark.depth = OpenFrom(ts, 1),
           source # "smile" => mark.frame_len = FramesAt(OpenFrom(ts, 1))
    PROVE  Fits(RestoreMark(k, mark), ts)
<1>. DEFINE n == OpenFrom(ts, 1)
            r == RestoreMark(k, mark)
<1>1. n \in Nat /\ FramesAt(n) \in Nat
  BY StackCounts DEF FramesAt
<1>2. DOMAIN k = Fields /\ Sequence(k.frames) /\ FramesAt(n) \in 0 .. Len(k.frames)
  BY <1>1, SequenceLength DEF Holds, Sound
<1>. HIDE DEF n
<1>3. CASE source = "smile"
  <2>1. DOMAIN r = Fields /\ r.frames = k.frames /\ r.depth = mark.depth /\ r.pending = k.pending
    BY <1>2, <1>3, CursorFields DEF RestoreMark, Smile!RestoreNames
  <2>. HIDE DEF r
  <2>2. Sound(r) /\ r.depth = n /\ Len(r.frames) = FramesAt(n)
    BY <1>3, <2>1 DEF Holds, Sound, FramesAt, FramedSources, n
  <2>3. Stack(r.frames, ts)
    BY <1>3, StackOfSameFrames DEF FramedSources
  <2>. QED
    BY <2>2, <2>3 DEF Fits, r, n
<1>4. CASE source # "smile"
  <2>. DEFINE fs == SubSeq(k.frames, 1, FramesAt(n))
  <2>1. /\ Sequence(fs) /\ Len(fs) = FramesAt(n) + 1 - 1
        /\ \A i \in 1 .. FramesAt(n) + 1 - 1 : fs[i] = k.frames[1 + i - 1]
    BY <1>1, <1>2, PartOfSequence
  <2>2. Sequence(fs) /\ Len(fs) = FramesAt(n) /\ \A i \in 1 .. FramesAt(n) : fs[i] = k.frames[i]
    BY <1>1, <2>1
  <2>3. DOMAIN r = Fields /\ r.frames = fs /\ r.depth = n /\ r.pending = NoFrame
    BY <1>2, <1>4, CursorFields DEF RestoreMark, Restore, n
  <2>. HIDE DEF fs, r
  <2>4. Sound(r)
    BY <1>1, <1>2, <2>2, <2>3 DEF Holds, Sound, FrameFields
  <2>5. source \in FramedSources => \A j \in 1 .. n : r.frames[j].kind = b.frames[j].kind
    BY <1>1, <2>2, <2>3 DEF Holds, FramesAt, n
  <2>6. Stack(r.frames, ts)
    BY <2>5, StackOfSameFrames DEF n
  <2>. QED
    BY <2>2, <2>3, <2>4, <2>6 DEF Fits, r, n
<1>. QED
  BY <1>3, <1>4

(* A variant is tried on top of its enum.                                  *)
LEMMA AttemptOnTop ==
    ASSUME NEW k, NEW ts, Fits(k, ts), NEW t, DOMAIN t = TaskFields, t.do = "try",
           t.mark.depth = OpenFrom(ts, 1),
           source # "smile" => t.mark.frame_len = FramesAt(OpenFrom(ts, 1))
    PROVE  Fits(k, Attempt(t) \o ts)
<1>. DEFINE u == [t EXCEPT !.left = Tail(@)]
<1>1. DOMAIN u = TaskFields /\ u.do = "try" /\ u.mark = t.mark
  BY FieldsOfTask
<1>. HIDE DEF u
<1>2. Fits(k, <<u>> \o ts)
  BY <1>1, EnumOnTop
<1>3. Fits(k, <<Task("decode", Head(t.left))>> \o (<<u>> \o ts))
  BY <1>2, FieldsOfTask, PlainOnTop
<1>4. Attempt(t) \o ts = <<Task("decode", Head(t.left))>> \o (<<u>> \o ts)
  BY TwoOnTop DEF Attempt, u, Fits, Stack
<1>. QED
  BY <1>3, <1>4

(* A failing call ends in the innermost enum that has a variant left, with *)
(* the cursor as that enum found it.                                       *)
LEMMA FailFits ==
    ASSUME NEW b, Fits(b, tasks), tasks # <<>>, Top.do # "try",
           NEW k, Survives(b, k), Fail(k)
    PROVE  verdict' = "running" => Fits(c', tasks')
<1>1. CASE Retries = {}
  BY <1>1 DEF Fail
<1>2. CASE Retries # {}
  <2>. DEFINE i == CHOOSE i \in Retries : \A j \in Retries : i <= j
              ts == SubSeq(tasks, i + 1, Len(tasks))
  <2>1. Retries \subseteq Nat
    BY DEF Retries
  <2>2. i \in Retries
    BY <1>2, <2>1, FirstOne
  <2>3. c' = RestoreMark(k, tasks[i].mark) /\ tasks' = Attempt(tasks[i]) \o ts
    BY <1>2 DEF Fail
  <2>. HIDE DEF i
  <2>4. Len(tasks) \in Nat /\ Sequence(tasks) /\ Len(tasks) # 0 /\ Top = tasks[1]
    BY SequenceLength, HeadTailProperties, EmptySeq DEF Fits, Stack, Sequence, Top
  <2>5. i \in 2 .. Len(tasks) /\ tasks[i].do = "try"
    BY <2>2, <2>4 DEF Retries
  <2>6. i + 1 \in 1 .. Len(tasks) + 1 /\ i \in 1 .. Len(tasks) /\ i # 1
    BY <2>4, <2>5
  <2>7. Stack(b.frames, ts) /\ OpenFrom(ts, 1) = OpenFrom(tasks, i + 1)
    BY <2>6, StackDrops DEF Fits
  <2>8. /\ OpenFrom(tasks, i) \in Nat
        /\ OpenFrom(tasks, i) <= OpenFrom(tasks, 2)
        /\ OpenFrom(tasks, i) = OpenFrom(tasks, i + 1) + One(tasks[i])
    BY <2>6, StackCounts DEF Fits
  <2>9. OpenFrom(ts, 1) \in Nat
    BY <2>7, StackCounts
  <2>10. OpenFrom(ts, 1) = OpenFrom(tasks, i)
    BY <2>5, <2>7, <2>8, <2>9 DEF One, Inside
  <2>11. Placed(b.frames, tasks[i], OpenFrom(tasks, i))
    BY <2>6 DEF Fits, Stack
  <2>. HIDE DEF ts
  <2>12. /\ DOMAIN tasks[i] = TaskFields
         /\ tasks[i].mark.depth = OpenFrom(ts, 1)
         /\ source # "smile" => tasks[i].mark.frame_len = FramesAt(OpenFrom(ts, 1))
    BY <2>5, <2>10, <2>11 DEF Placed
  <2>13. Holds(b, k, FramesAt(OpenFrom(ts, 1)))
    <3>1. OpenFrom(tasks, 2) \in Nat
      BY BelowTop
    <3>2. Len(k.frames) \in Nat
      BY SequenceLength DEF Survives, Holds, Sound
    <3>. QED
      BY <2>8, <2>10, <3>1, <3>2 DEF Survives, Holds, FramesAt
  <2>14. Fits(RestoreMark(k, tasks[i].mark), ts)
    BY <2>7, <2>12, <2>13, Rewinds DEF Survives
  <2>. QED
    BY <2>3, <2>5, <2>12, <2>14, AttemptOnTop
<1>. QED
  BY <1>1, <1>2

(* A call that returns Ok leaves what its task became on top of the        *)
(* others.                                                                 *)
LEMMA ReturnFits ==
    ASSUME NEW b, Fits(b, tasks), tasks # <<>>, Top.do # "try",
           NEW o, NEW todo, NEW read, Return(o, todo, read),
           o.ok => Fits(o.c, todo \o Tail(tasks)),
           ~o.ok => Survives(b, o.c)
    PROVE  verdict' = "running" => Fits(c', tasks')
<1>1. CASE o.ok
  <2>1. c' = o.c /\ tasks' = Settled(todo \o Tail(tasks))
    BY <1>1 DEF Return
  <2>. QED
    BY <1>1, <2>1, StackSettles DEF Fits
<1>2. CASE ~o.ok
  BY <1>2, FailFits DEF Return
<1>. QED
  BY <1>1, <1>2

(* What the calls leave of the fit.                                        *)
LEMMA KeptFits ==
    ASSUME NEW b, NEW ts, Fits(b, ts), NEW k, Kept(b, k)
    PROVE  Fits(k, ts)
<1>1. Sound(k) /\ Len(k.frames) = Len(b.frames) /\ k.depth = b.depth
      /\ \A i \in 1 .. Len(b.frames) : k.frames[i].kind = b.frames[i].kind
  BY DEF Kept, Holds
<1>2. Stack(k.frames, ts)
  BY <1>1, StackOfSameFrames DEF Fits, FramesAt
<1>. QED
  BY <1>1, <1>2 DEF Fits

(* A failing call that leaves the frames alone leaves those of the tasks   *)
(* below.                                                                  *)
LEMMA SameSurvives ==
    ASSUME NEW b, Fits(b, tasks), tasks # <<>>, NEW k, SameFrames(b, k)
    PROVE  Survives(b, k)
<1>1. /\ OpenFrom(tasks, 2) \in Nat
      /\ OpenFrom(tasks, 1) = OpenFrom(tasks, 2) + One(Top)
  BY BelowTop
<1>2. FramesAt(OpenFrom(tasks, 2)) \in Nat /\ FramesAt(OpenFrom(tasks, 2)) <= FramesAt(OpenFrom(tasks, 1))
  BY <1>1 DEF One, FramesAt
<1>3. Len(b.frames) = FramesAt(OpenFrom(tasks, 1)) /\ Len(k.frames) = Len(b.frames)
  BY DEF Fits, SameFrames
<1>. QED
  BY <1>2, <1>3 DEF SameFrames, Holds, Survives, FramesAt, Fits

(* So does one that leaves the depth alone too.                            *)
LEMMA KeptSurvives ==
    ASSUME NEW b, Fits(b, tasks), tasks # <<>>, NEW k, Kept(b, k)
    PROVE  Survives(b, k)
BY SameSurvives DEF Kept, SameFrames

(* A task that is done was in no container of its own.                     *)
LEMMA DropsTop ==
    ASSUME NEW b, Fits(b, tasks), tasks # <<>>, Top.do = "decode"
    PROVE  Fits(b, Tail(tasks))
<1>1. /\ Stack(b.frames, Tail(tasks))
      /\ OpenFrom(Tail(tasks), 1) = OpenFrom(tasks, 2)
      /\ OpenFrom(tasks, 2) \in Nat
      /\ OpenFrom(tasks, 1) = OpenFrom(tasks, 2) + One(Top)
  BY BelowTop
<1>2. OpenFrom(tasks, 1) = OpenFrom(Tail(tasks), 1)
  BY <1>1 DEF One, Inside
<1>. QED
  BY <1>1, <1>2 DEF Fits

(* The loop over a container goes on.                                      *)
LEMMA SwapsTop ==
    ASSUME NEW b, Fits(b, tasks), tasks # <<>>, Top.do \in Inside,
           NEW t, DOMAIN t = TaskFields, t.do \in Inside,
           t.do \in Membered <=> Top.do \in Membered
    PROVE  Fits(b, <<t>> \o Tail(tasks))
<1>1. /\ Stack(b.frames, Tail(tasks))
      /\ OpenFrom(Tail(tasks), 1) = OpenFrom(tasks, 2)
      /\ OpenFrom(tasks, 1) = OpenFrom(tasks, 2) + One(Top)
      /\ Placed(b.frames, Top, OpenFrom(tasks, 1))
  BY BelowTop
<1>2. OpenFrom(tasks, 1) = OpenFrom(Tail(tasks), 1) + One(t)
  BY <1>1 DEF One
<1>3. Placed(b.frames, t, OpenFrom(tasks, 1))
  BY <1>1 DEF Placed, Inside
<1>4. /\ Stack(b.frames, <<t>> \o Tail(tasks))
      /\ OpenFrom(<<t>> \o Tail(tasks), 1) = OpenFrom(tasks, 1)
  BY <1>1, <1>2, <1>3, StackPushes
<1>. QED
  BY <1>4 DEF Fits

(* A container was entered: its loop is at the top now.                    *)
LEMMA EntersTop ==
    ASSUME NEW b, Fits(b, tasks), tasks # <<>>, Top.do = "decode",
           NEW opener, NEW o, Opened(b, opener, o),
           NEW t, DOMAIN t = TaskFields, t.do \in Inside,
           (t.do \in Membered /\ opener = "{") \/ (t.do \notin Membered /\ opener = "[")
    PROVE  /\ o.ok => Fits(o.c, <<t>> \o Tail(tasks))
           /\ ~o.ok => Survives(b, o.c)
<1>0. Sound(b) /\ b.depth = OpenFrom(tasks, 1) /\ Len(b.frames) = FramesAt(OpenFrom(tasks, 1))
  BY DEF Fits
<1>1. Fits(b, Tail(tasks))
  BY DropsTop
<1>2. /\ Stack(b.frames, Tail(tasks))
      /\ OpenFrom(tasks, 1) = OpenFrom(Tail(tasks), 1)
      /\ OpenFrom(tasks, 2) = OpenFrom(Tail(tasks), 1)
      /\ OpenFrom(Tail(tasks), 1) \in Nat
      /\ One(t) = 1
  <2>1. b.depth = OpenFrom(Tail(tasks), 1) /\ Stack(b.frames, Tail(tasks))
    BY <1>1 DEF Fits
  <2>2. OpenFrom(Tail(tasks), 1) = OpenFrom(tasks, 2) /\ OpenFrom(tasks, 2) \in Nat
    BY BelowTop
  <2>. QED
    BY <1>0, <2>1, <2>2 DEF One
<1>3. CASE source \in FramedSources
  <2>1. Entered(b, opener, o) /\ Len(b.frames) = OpenFrom(Tail(tasks), 1)
    BY <1>0, <1>2, <1>3 DEF Opened, FramesAt
  <2>2. CASE o.ok
    <3>1. Pushed(b, opener, o.c)
      BY <2>1, <2>2 DEF Entered
    <3>2. Stack(o.c.frames, Tail(tasks))
      <4>1. \A j \in 1 .. OpenFrom(Tail(tasks), 1) : o.c.frames[j].kind = b.frames[j].kind
        BY <2>1, <3>1 DEF Pushed, Holds
      <4>2. Stack(b.frames, Tail(tasks))
        BY <1>2
      <4>. QED
        BY <4>1, <4>2, StackOfSameFrames
    <3>3. Placed(o.c.frames, t, OpenFrom(Tail(tasks), 1) + One(t))
      BY <1>2, <2>1, <3>1 DEF Placed, Pushed, Inside
    <3>4. /\ Stack(o.c.frames, <<t>> \o Tail(tasks))
          /\ OpenFrom(<<t>> \o Tail(tasks), 1) = OpenFrom(Tail(tasks), 1) + 1
      BY <1>2, <3>2, <3>3, StackPushes
    <3>. QED
      BY <1>0, <1>2, <1>3, <2>1, <2>2, <3>1, <3>4 DEF Fits, Pushed, Holds, FramesAt
  <2>3. CASE ~o.ok
    <3>1. Holds(b, o.c, OpenFrom(Tail(tasks), 1))
      BY <2>1, <2>3 DEF Entered
    <3>. QED
      BY <1>2, <1>3, <2>3, <3>1 DEF Survives, FramesAt
  <2>. QED
    BY <2>2, <2>3
<1>4. CASE source \notin FramedSources
  <2>1. Charged(b, o) /\ Len(b.frames) = 0
    BY <1>0, <1>4 DEF Opened, FramesAt
  <2>2. CASE o.ok
    <3>1. Sound(o.c) /\ Len(o.c.frames) = 0 /\ o.c.depth = b.depth + 1
      BY <1>0, <2>1, <2>2, CursorFields DEF Charged, Kept, Holds, Sound
    <3>2. Stack(o.c.frames, Tail(tasks))
      BY <1>2, <1>4, StackOfSameFrames
    <3>3. Placed(o.c.frames, t, OpenFrom(Tail(tasks), 1) + One(t))
      BY <1>4 DEF Placed, Inside
    <3>4. /\ Stack(o.c.frames, <<t>> \o Tail(tasks))
          /\ OpenFrom(<<t>> \o Tail(tasks), 1) = OpenFrom(Tail(tasks), 1) + 1
      BY <1>2, <3>2, <3>3, StackPushes
    <3>. QED
      BY <1>0, <1>2, <1>4, <2>2, <3>1, <3>4 DEF Fits, FramesAt
  <2>3. CASE ~o.ok
    BY <2>1, <2>3, SameSurvives DEF Charged
  <2>. QED
    BY <2>2, <2>3
<1>. QED
  BY <1>3, <1>4

(* A container was left.                                                   *)
LEMMA LeavesTop ==
    ASSUME NEW b, Fits(b, tasks), tasks # <<>>, Top.do \in Inside,
           NEW o, Closed(b, o)
    PROVE  /\ o.ok => Fits(o.c, Tail(tasks))
           /\ Survives(b, o.c)
<1>0. Sound(b) /\ b.depth = OpenFrom(tasks, 1) /\ Len(b.frames) = FramesAt(OpenFrom(tasks, 1))
  BY DEF Fits
<1>1. /\ Stack(b.frames, Tail(tasks))
      /\ OpenFrom(Tail(tasks), 1) = OpenFrom(tasks, 2)
      /\ OpenFrom(tasks, 2) \in Nat
      /\ OpenFrom(tasks, 1) = OpenFrom(tasks, 2) + One(Top)
  BY BelowTop
<1>2. OpenFrom(tasks, 1) = OpenFrom(tasks, 2) + 1 /\ GiveBack(OpenFrom(tasks, 1)) = OpenFrom(tasks, 2)
  BY <1>1 DEF One, GiveBack
<1>3. CASE source \in FramedSources
  <2>1. Left(b, o) /\ GiveBack(Len(b.frames)) = OpenFrom(tasks, 2)
    BY <1>0, <1>2, <1>3 DEF Closed, FramesAt
  <2>2. Holds(b, o.c, OpenFrom(tasks, 2))
    BY <2>1 DEF Left, Popped
  <2>3. Survives(b, o.c)
    BY <1>3, <2>2 DEF Survives, FramesAt
  <2>4. CASE o.ok
    <3>1. Popped(b, o.c)
      BY <2>1, <2>4 DEF Left
    <3>2. Stack(o.c.frames, Tail(tasks))
      BY <1>1, <2>2, StackOfSameFrames DEF Holds
    <3>. QED
      BY <1>0, <1>1, <1>2, <1>3, <2>1, <2>2, <2>3, <3>1, <3>2 DEF Fits, Popped, Holds, FramesAt
  <2>. QED
    BY <2>3, <2>4
<1>4. CASE source \notin FramedSources
  <2>1. Repaid(b, o) /\ Len(b.frames) = 0
    BY <1>0, <1>4 DEF Closed, FramesAt
  <2>2. o.ok => o.c.depth = GiveBack(b.depth)
    BY <1>0, <2>1, CursorFields DEF Repaid, Kept, Sound
  <2>3. SameFrames(b, o.c)
    BY <1>0, <2>1, CursorFields DEF Repaid, Kept, Sound, SameFrames, Holds
  <2>4. Survives(b, o.c)
    BY <2>3, SameSurvives
  <2>5. Stack(o.c.frames, Tail(tasks))
    BY <1>1, <1>4, StackOfSameFrames
  <2>. QED
    BY <1>0, <1>1, <1>2, <1>4, <2>1, <2>2, <2>3, <2>4, <2>5 DEF Fits, SameFrames, Holds, FramesAt
<1>. QED
  BY <1>3, <1>4

-----------------------------------------------------------------------------
(* The steps.                                                              *)

\* Where the types of a UBJSON document are plain.
ScalarTypes == source = "ubjson" => PlainTypes(c)

FitsNext == verdict' = "running" => Fits(c', tasks')

(* The task at the top has the fields of a task.                           *)
LEMMA TopOfStack ==
    ASSUME NEW b, Fits(b, tasks), tasks # <<>>
    PROVE  /\ DOMAIN Top = TaskFields
           /\ \A do : LET t == [Top EXCEPT !.do = do]
                      IN  DOMAIN t = TaskFields /\ t.do = do
<1>1. DOMAIN Top = TaskFields
  BY BelowTop DEF Placed
<1>. QED
  BY <1>1, FieldsOfTask

(* A call that is about no container ends the task, or the type inside is  *)
(* decoded in its place.                                                   *)
LEMMA ScalarFits ==
    ASSUME NEW b, Fits(b, tasks), tasks # <<>>, Top.do = "decode",
           NEW o, Kept(b, o.c), NEW read,
           \/ Return(o, <<>>, read)
           \/ \E type : Return(o, <<Task("decode", type)>>, read)
    PROVE  FitsNext
<1>1. Fits(o.c, Tail(tasks))
  BY KeptFits, DropsTop
<1>2. Survives(b, o.c)
  BY KeptSurvives
<1>3. CASE Return(o, <<>>, read)
  <2>1. <<>> \o Tail(tasks) = Tail(tasks)
    BY <1>1, NothingOnTop DEF Fits, Stack
  <2>. QED
    BY <1>1, <1>2, <1>3, <2>1, ReturnFits DEF FitsNext
<1>4. ASSUME NEW type, Return(o, <<Task("decode", type)>>, read) PROVE FitsNext
  <2>1. Fits(o.c, <<Task("decode", type)>> \o Tail(tasks))
    BY <1>1, FieldsOfTask, PlainOnTop
  <2>. QED
    BY <1>2, <1>4, <2>1, ReturnFits DEF FitsNext
<1>. QED
  BY <1>3, <1>4

(* A call that enters a container.                                         *)
LEMMA EnterFits ==
    ASSUME NEW b, Fits(b, tasks), tasks # <<>>, Top.do = "decode",
           NEW opener, NEW o, Opened(b, opener, o), NEW read,
           NEW t, DOMAIN t = TaskFields, t.do \in Inside,
           (t.do \in Membered /\ opener = "{") \/ (t.do \notin Membered /\ opener = "["),
           \/ Return(o, <<t>>, read)
           \/ \E type : Return(o, <<Task("decode", type), t>>, read)
    PROVE  FitsNext
<1>1. /\ o.ok => Fits(o.c, <<t>> \o Tail(tasks))
      /\ ~o.ok => Survives(b, o.c)
  BY EntersTop
<1>2. CASE Return(o, <<t>>, read)
  BY <1>1, <1>2, ReturnFits DEF FitsNext
<1>3. ASSUME NEW type, Return(o, <<Task("decode", type), t>>, read) PROVE FitsNext
  <2>1. ASSUME o.ok PROVE Fits(o.c, <<Task("decode", type)>> \o (<<t>> \o Tail(tasks)))
    <3>1. DOMAIN Task("decode", type) = TaskFields /\ Task("decode", type).do = "decode"
      BY FieldsOfTask
    <3>2. Fits(o.c, <<t>> \o Tail(tasks))
      BY <1>1, <2>1
    <3>. QED
      BY <3>1, <3>2, PlainOnTop
  <2>2. <<Task("decode", type), t>> \o Tail(tasks) = <<Task("decode", type)>> \o (<<t>> \o Tail(tasks))
    BY BelowTop, TwoOnTop
  <2>. QED
    BY <1>1, <1>3, <2>1, <2>2, ReturnFits DEF FitsNext
<1>. QED
  BY <1>2, <1>3

(* A call of the loop over a container.                                    *)
LEMMA LoopFits ==
    ASSUME Fits(c, tasks), tasks # <<>>, Top.do \in Inside,
           NEW o, Kept(c, o.c), NEW read,
           NEW t, DOMAIN t = TaskFields, t.do \in Inside, t.do \in Membered <=> Top.do \in Membered,
           \/ Return(o, <<t>>, read)
           \/ \E type : Return(o, <<Task("decode", type), t>>, read)
    PROVE  FitsNext
<1>0. Top.do # "try"
  BY DEF Inside
<1>1. Fits(o.c, <<t>> \o Tail(tasks))
  BY KeptFits, SwapsTop
<1>2. Survives(c, o.c)
  BY KeptSurvives
<1>3. CASE Return(o, <<t>>, read)
  BY <1>0, <1>1, <1>2, <1>3, ReturnFits DEF FitsNext
<1>4. ASSUME NEW type, Return(o, <<Task("decode", type), t>>, read) PROVE FitsNext
  <2>1. Fits(o.c, <<Task("decode", type)>> \o (<<t>> \o Tail(tasks)))
    BY <1>1, FieldsOfTask, PlainOnTop
  <2>2. <<Task("decode", type), t>> \o Tail(tasks) = <<Task("decode", type)>> \o (<<t>> \o Tail(tasks))
    BY BelowTop, TwoOnTop
  <2>. QED
    BY <1>0, <1>2, <1>4, <2>1, <2>2, ReturnFits DEF FitsNext
<1>. QED
  BY <1>3, <1>4

(* A call of a loop fails.                                                 *)
LEMMA LoopFails ==
    ASSUME Fits(c, tasks), tasks # <<>>, Top.do # "try", NEW k, Kept(c, k), Fail(k)
    PROVE  FitsNext
BY KeptSurvives, FailFits DEF FitsNext

(* Scalars and options.                                                    *)
LEMMA ScalarsFit ==
    ASSUME Sourced, Fits(c, tasks), ScalarTypes, DecodeScalar \/ DecodeOption
    PROVE  FitsNext
<1>0. tasks # <<>> /\ Top.do = "decode" /\ Sound(c)
  BY DEF DecodeScalar, DecodeOption, Working, Fits
<1>1. CASE DecodeScalar
  <2>1. ScalarKinds[Kind(Top.type)] \in {{"null"}, Numbers, Strings}
    BY <1>1 DEF DecodeScalar, ScalarKinds
  <2>2. PICK o \in Typed(c, ScalarKinds[Kind(Top.type)]) : Return(o, <<>>, <<o.got>>)
    BY <1>1 DEF DecodeScalar
  <2>3. Kept(c, o.c)
    BY <1>0, <2>1, TypedKeeps
  <2>. QED
    BY <1>0, <2>2, <2>3, ScalarFits
<1>2. CASE DecodeOption
  <2>1. PICK o \in OptionTag :
           \/ Return(o, <<Task("decode", Shape[Top.type].of)>>, <<>>)
           \/ Return(o, <<>>, <<"null">>)
    BY <1>2 DEF DecodeOption
  <2>2. Kept(c, o.c)
    BY <1>0, OptionKeeps DEF ScalarTypes
  <2>. QED
    BY <1>0, <2>1, <2>2, ScalarFits
<1>. QED
  BY <1>1, <1>2

(* Arrays, maps, structs and tuples.                                       *)
LEMMA ContainersFit ==
    ASSUME Sourced, Fits(c, tasks), DecodeArray \/ DecodeMap \/ DecodeTuple
    PROVE  FitsNext
<1>0. tasks # <<>> /\ Top.do = "decode" /\ Sound(c)
  BY DEF DecodeArray, DecodeMap, DecodeTuple, Working, Fits
<1>1. CASE DecodeArray
  <2>1. PICK o \in Begin(c, "[") : Return(o, <<Elements>>, <<"[">>)
    BY <1>1 DEF DecodeArray, Enter
  <2>2. Opened(c, "[", o)
    BY <1>0, BeginOpens
  <2>3. DOMAIN Elements = TaskFields /\ Elements.do = "elements"
    BY <1>0, TopOfStack DEF Elements
  <2>4. Elements.do \in Inside /\ Elements.do \notin Membered
    BY <2>3 DEF Inside, Membered
  <2>. QED
    BY <1>0, <2>1, <2>2, <2>3, <2>4, EnterFits
<1>2. CASE DecodeMap
  <2>1. PICK o \in Begin(c, "{") : Return(o, <<Members>>, <<"{">>)
    BY <1>2 DEF DecodeMap, Enter
  <2>2. Opened(c, "{", o)
    BY <1>0, BeginOpens
  <2>3. DOMAIN Members = TaskFields /\ Members.do = "members"
    BY <1>0, TopOfStack DEF Members
  <2>. QED
    BY <1>0, <2>1, <2>2, <2>3, EnterFits DEF Inside, Membered
<1>3. CASE DecodeTuple
  <2>. DEFINE t == [Top EXCEPT !.do = "part", !.left = Tail(Shape[Top.type].parts)]
              type == Head(Shape[Top.type].parts)
  <2>1. PICK o \in Begin(c, "[") : Return(o, <<Task("decode", type), t>>, <<"[">>)
    BY <1>3 DEF DecodeTuple, Enter
  <2>2. Opened(c, "[", o)
    BY <1>0, BeginOpens
  <2>3. DOMAIN t = TaskFields /\ t.do = "part"
    BY <1>0, TopOfStack, FieldsOfTask
  <2>. HIDE DEF t, type
  <2>4. t.do \in Inside /\ t.do \notin Membered
    BY <2>3 DEF Inside, Membered
  <2>. QED
    BY <1>0, <2>1, <2>2, <2>3, <2>4, EnterFits
<1>. QED
  BY <1>1, <1>2, <1>3

(* Value and skip_value look first.                                        *)
LEMMA LooksFit ==
    ASSUME Sourced, Fits(c, tasks), ScalarTypes, DecodeValue \/ DecodeSkip
    PROVE  FitsNext
<1>0. tasks # <<>> /\ Top.do = "decode" /\ Sound(c)
  BY DEF DecodeValue, DecodeSkip, Working, Fits
<1>1. ASSUME NEW k, Kept(c, k), NEW opener \in Openers,
             NEW o, o \in Begin(k, opener) \cup SkipBegin(k, opener),
             Return(o, IF opener = "{" THEN <<Members>> ELSE <<Elements>>, <<opener>>)
      PROVE  FitsNext
  <2>1. Fits(k, tasks) /\ Sound(k)
    BY <1>1, KeptFits DEF Fits
  <2>2. Opened(k, opener, o)
    BY <1>1, <2>1, BeginOpens
  <2>3. /\ DOMAIN Elements = TaskFields /\ Elements.do = "elements"
        /\ DOMAIN Members = TaskFields /\ Members.do = "members"
    BY <1>0, TopOfStack DEF Elements, Members
  <2>. QED
    BY <1>0, <1>1, <2>1, <2>2, <2>3, EnterFits DEF Inside, Membered, Openers
<1>2. ASSUME NEW k, Kept(c, k), NEW o, Kept(k, o.c), NEW read, Return(o, <<>>, read)
      PROVE  FitsNext
  BY <1>0, <1>2, KeptFits, ScalarFits
<1>3. CASE DecodeValue
  <2>1. PICK p \in PeekToken(c) :
          \/ Fail(p.c)
          \/ Enter(Begin(p.c, "{"), "{", <<Members>>)
          \/ Enter(Begin(p.c, "["), "[", <<Elements>>)
          \/ p.got = "null" /\ \E o \in NextToken(p.c) : Return(o, <<>>, <<p.got>>)
          \/ \E o \in Typed(p.c, KindOf(p.got)) : Return(o, <<>>, <<o.got>>)
    BY <1>3, Zenon DEF DecodeValue
  <2>2. Kept(c, p.c) /\ Sound(p.c)
    BY <1>0, PeekKeeps DEF Kept, Holds
  <2>3. CASE Fail(p.c)
    BY <1>0, <2>2, <2>3, LoopFails
  <2>4. CASE Enter(Begin(p.c, "{"), "{", <<Members>>)
    BY <1>1, <2>2, <2>4 DEF Enter, Openers
  <2>5. CASE Enter(Begin(p.c, "["), "[", <<Elements>>)
    BY <1>1, <2>2, <2>5 DEF Enter, Openers
  <2>6. CASE p.got = "null" /\ \E o \in NextToken(p.c) : Return(o, <<>>, <<p.got>>)
    BY <1>0, <1>2, <2>2, <2>6, NullKeeps DEF ScalarTypes
  <2>7. CASE \E o \in Typed(p.c, KindOf(p.got)) : Return(o, <<>>, <<o.got>>)
    <3>1. KindOf(p.got) \in {{"null"}, Numbers, Strings}
      BY DEF KindOf
    <3>2. \A o \in Typed(p.c, KindOf(p.got)) : Kept(p.c, o.c)
      BY <2>2, <3>1, TypedKeeps
    <3>. QED
      BY <1>2, <2>2, <2>7, <3>2
  <2>. QED
    BY <2>1, <2>3, <2>4, <2>5, <2>6, <2>7
<1>4. CASE DecodeSkip
  <2>1. PICK p \in SkipDispatch :
          \/ Fail(p.c)
          \/ Enter(SkipBegin(p.c, "{"), "{", <<Members>>)
          \/ Enter(SkipBegin(p.c, "["), "[", <<Elements>>)
          \/ \E o \in SkipScalar(p.c, p.got) : Return(o, <<>>, <<>>)
    BY <1>4, Zenon DEF DecodeSkip
  <2>2. Kept(c, p.c) /\ Sound(p.c)
    BY <1>0, SkipKeeps DEF Kept, Holds
  <2>3. CASE Fail(p.c)
    BY <1>0, <2>2, <2>3, LoopFails
  <2>4. CASE Enter(SkipBegin(p.c, "{"), "{", <<Members>>)
    BY <1>1, <2>2, <2>4 DEF Enter, Openers
  <2>5. CASE Enter(SkipBegin(p.c, "["), "[", <<Elements>>)
    BY <1>1, <2>2, <2>5 DEF Enter, Openers
  <2>6. CASE \E o \in SkipScalar(p.c, p.got) : Return(o, <<>>, <<>>)
    BY <1>0, <1>2, <2>2, <2>6, SkipKeeps
  <2>. QED
    BY <2>1, <2>3, <2>4, <2>5, <2>6
<1>. QED
  BY <1>3, <1>4

(* save and restore, before the first variant.                             *)
LEMMA UntaggedFits ==
    ASSUME Sourced, Fits(c, tasks), DecodeUntagged
    PROVE  FitsNext
<1>. DEFINE t == [Task("try", Top.type) EXCEPT
                     !.left = Shape[Top.type].variants, !.mark = SaveMark(c), !.from = Len(built)]
            ts == Tail(tasks)
<1>1. /\ tasks # <<>> /\ Top.do = "decode"
      /\ c' = RestoreMark(c, SaveMark(c)) /\ tasks' = Attempt(t) \o ts
  BY DEF DecodeUntagged, Working
<1>2. DOMAIN t = TaskFields /\ t.do = "try" /\ t.mark = SaveMark(c)
  BY FieldsOfTask
<1>. HIDE DEF t, ts
<1>3. Fits(c, ts)
  BY <1>1, DropsTop DEF ts
<1>4. /\ SaveMark(c).depth = OpenFrom(ts, 1)
      /\ source # "smile" => SaveMark(c).frame_len = FramesAt(OpenFrom(ts, 1))
  BY <1>3 DEF Fits, SaveMark, Save, Smile!MarkNames
<1>5. Holds(c, c, FramesAt(OpenFrom(ts, 1))) /\ (source \notin FramedSources => Len(c.frames) = 0)
  <2>1. Kept(c, c)
    BY KeptItself DEF Fits
  <2>. QED
    BY <1>3, <2>1 DEF Fits, Kept, FramesAt
<1>6. Fits(c', ts)
  BY <1>1, <1>3, <1>4, <1>5, Rewinds DEF Fits
<1>. QED
  BY <1>1, <1>2, <1>4, <1>6, AttemptOnTop DEF FitsNext

(* The loops over elements and the parts of a tuple.                       *)
LEMMA ArrayLoopFits ==
    ASSUME Sourced, Fits(c, tasks), ArrayMore \/ ArraySep \/ TupleSep
    PROVE  FitsNext
<1>0. tasks # <<>> /\ Top.do \in {"elements", "element", "part"} /\ Sound(c)
  BY DEF ArrayMore, ArraySep, TupleSep, Working, Fits
<1>1. Top.do \in Inside /\ Top.do \notin Membered /\ Top.do # "try"
  BY <1>0 DEF Inside, Membered
<1>2. ASSUME NEW do \in {"elements", "element", "part", "close_array"},
             NEW o, Kept(c, o.c), NEW read,
             LET t == [Top EXCEPT !.do = do]
             IN  \/ Return(o, <<t>>, read)
                 \/ \E type : Return(o, <<Task("decode", type), t>>, read)
      PROVE  FitsNext
  <2>. DEFINE t == [Top EXCEPT !.do = do]
  <2>1. DOMAIN t = TaskFields /\ t.do = do
    BY <1>0, TopOfStack
  <2>. HIDE DEF t
  <2>2. t.do \in Inside /\ t.do \notin Membered
    BY <2>1 DEF Inside, Membered
  <2>. QED
    BY <1>0, <1>1, <1>2, <2>1, <2>2, LoopFits DEF t
<1>3. CASE ArrayMore
  <2>1. PICK o \in HasMore :
           \/ Return(o, <<Task("decode", ElementType(Top.type)), [Top EXCEPT !.do = "element"]>>, <<>>)
           \/ Return(o, <<[Top EXCEPT !.do = "close_array"]>>, <<>>)
    BY <1>3 DEF ArrayMore
  <2>2. Kept(c, o.c)
    BY <1>0, MoreKeeps
  <2>. QED
    BY <1>2, <2>1, <2>2
<1>4. CASE ArraySep
  <2>1. PICK o \in EntrySep("]") :
           \/ Return(o, <<[Top EXCEPT !.do = "elements"]>>, <<>>)
           \/ Return(o, <<[Top EXCEPT !.do = "close_array"]>>, <<>>)
    BY <1>4 DEF ArraySep, Elements
  <2>2. Kept(c, o.c)
    BY <1>0, SepKeeps
  <2>. QED
    BY <1>2, <2>1, <2>2
<1>5. CASE TupleSep
  <2>. DEFINE t == [Top EXCEPT !.left = Tail(@)]
  <2>1. PICK o \in EntrySep("]") :
           \/ Fail(o.c)
           \/ Return(o, <<[Top EXCEPT !.do = "close_array"]>>, <<>>)
           \/ Return(o, <<Task("decode", Head(Top.left)), t>>, <<>>)
    BY <1>5 DEF TupleSep
  <2>2. Kept(c, o.c)
    BY <1>0, SepKeeps
  <2>3. DOMAIN t = TaskFields /\ t.do = Top.do
    BY <1>0, TopOfStack, FieldsOfTask
  <2>. HIDE DEF t
  <2>4. CASE Fail(o.c)
    BY <1>0, <1>1, <2>2, <2>4, LoopFails
  <2>5. CASE Return(o, <<[Top EXCEPT !.do = "close_array"]>>, <<>>)
    BY <1>2, <2>2, <2>5
  <2>6. CASE Return(o, <<Task("decode", Head(Top.left)), t>>, <<>>)
    BY <1>0, <1>1, <2>2, <2>3, <2>6, LoopFits
  <2>. QED
    BY <2>1, <2>4, <2>5, <2>6
<1>. QED
  BY <1>3, <1>4, <1>5

(* The loop over members.                                                  *)
LEMMA ObjectLoopFits ==
    ASSUME Sourced, Fits(c, tasks), ObjectMore \/ ObjectSep
    PROVE  FitsNext
<1>0. tasks # <<>> /\ Top.do \in {"members", "member"} /\ Sound(c)
  BY DEF ObjectMore, ObjectSep, Working, Fits
<1>1. Top.do \in Inside /\ Top.do \in Membered /\ Top.do # "try"
  BY <1>0 DEF Inside, Membered
<1>2. ASSUME NEW do \in Membered, NEW o, Kept(c, o.c), NEW read,
             Return(o, <<[Top EXCEPT !.do = do]>>, read)
      PROVE  FitsNext
  <2>. DEFINE t == [Top EXCEPT !.do = do]
  <2>1. DOMAIN t = TaskFields /\ t.do = do
    BY <1>0, TopOfStack
  <2>. HIDE DEF t
  <2>2. t.do \in Inside /\ t.do \in Membered
    BY <2>1 DEF Inside, Membered
  <2>. QED
    BY <1>0, <1>1, <1>2, <2>1, <2>2, LoopFits DEF t
<1>3. CASE ObjectMore
  <2>. DEFINE t(o) == [Top EXCEPT !.do = "member",
                          !.seen = IF Kind(Top.type) = "struct"
                                   THEN @ \cup ({o.got} \cap DOMAIN Shape[Top.type].fields)
                                   ELSE @]
  <2>1. PICK o \in ObjectKey :
           \/ Fail(o.c)
           \/ Return(o, <<[Top EXCEPT !.do = "close_object"]>>, <<>>)
           \/ Return(o, <<Task("decode", MemberType(Top.type, o.got)), t(o)>>, <<o.got>>)
    BY <1>3 DEF ObjectMore
  <2>2. Kept(c, o.c)
    BY <1>0, KeyKeeps
  <2>3. DOMAIN t(o) = TaskFields /\ t(o).do = "member"
    BY <1>0, TopOfStack, FieldsOfTask
  <2>. HIDE DEF t
  <2>4. CASE Fail(o.c)
    BY <1>0, <1>1, <2>2, <2>4, LoopFails
  <2>5. CASE Return(o, <<[Top EXCEPT !.do = "close_object"]>>, <<>>)
    BY <1>2, <2>2, <2>5 DEF Membered
  <2>6. CASE Return(o, <<Task("decode", MemberType(Top.type, o.got)), t(o)>>, <<o.got>>)
    <3>1. t(o).do \in Inside /\ t(o).do \in Membered
      BY <2>3 DEF Inside, Membered
    <3>. QED
      BY <1>0, <1>1, <2>2, <2>3, <2>6, <3>1, LoopFits
  <2>. QED
    BY <2>1, <2>4, <2>5, <2>6
<1>4. CASE ObjectSep
  <2>1. PICK o \in EntrySep("}") :
           \/ Return(o, <<[Top EXCEPT !.do = "members"]>>, <<>>)
           \/ Return(o, <<[Top EXCEPT !.do = "close_object"]>>, <<>>)
    BY <1>4 DEF ObjectSep, Members
  <2>2. Kept(c, o.c)
    BY <1>0, SepKeeps
  <2>. QED
    BY <1>2, <2>1, <2>2 DEF Membered
<1>. QED
  BY <1>3, <1>4

(* The end of an array and of an object, where a struct may miss a field.  *)
LEMMA ClosersFit ==
    ASSUME Sourced, Fits(c, tasks), CloseArray \/ CloseObject
    PROVE  FitsNext
<1>0. tasks # <<>> /\ Top.do \in {"close_array", "close_object"} /\ Sound(c)
  BY DEF CloseArray, CloseObject, Working, Fits
<1>1. Top.do \in Inside /\ Top.do # "try"
  BY <1>0 DEF Inside
<1>2. \A opener : \A o \in EndContainer(opener) :
          /\ o.ok => Fits(o.c, Tail(tasks))
          /\ Survives(c, o.c)
  BY <1>0, <1>1, EndCloses, LeavesTop
<1>3. PICK opener, o, read :
         /\ o \in EndContainer(opener)
         /\ Fail(o.c) \/ Return(o, <<>>, read)
  <2>1. CASE CloseArray
    BY <2>1 DEF CloseArray
  <2>2. CASE CloseObject
    BY <2>2 DEF CloseObject
  <2>. QED
    BY <2>1, <2>2
<1>4. CASE Fail(o.c)
  BY <1>0, <1>1, <1>2, <1>3, <1>4, FailFits DEF FitsNext
<1>5. CASE Return(o, <<>>, read)
  <2>1. <<>> \o Tail(tasks) = Tail(tasks)
    BY <1>0, BelowTop, NothingOnTop
  <2>. QED
    BY <1>0, <1>1, <1>2, <1>3, <1>5, <2>1, ReturnFits DEF FitsNext
<1>. QED
  BY <1>3, <1>4, <1>5

-----------------------------------------------------------------------------
(* The invariant, and what it says of the depth and of the frames.         *)

Accounted == Sourced /\ (verdict = "running" => Fits(c, tasks))

(* The invariant holds before the first call.                              *)
LEMMA StartsAccounted == Init => Accounted
<1>. SUFFICES ASSUME Init PROVE Accounted
  OBVIOUS
<1>. DEFINE t == Task("decode", root)
<1>1. Sourced
  BY DecoderAssumption DEF Init, Sourced
<1>2. Sound(c) /\ c.depth = 0 /\ Len(c.frames) = 0
  BY CursorFields DEF Init
<1>3. Sequence(<<>>) /\ Len(<<>>) = 0
  BY SequenceFacts, EmptySeq
<1>4. OpenFrom(<<>>, 1) = 0
  BY <1>3, CountBounds
<1>5. Fits(c, <<>>)
  BY <1>2, <1>3, <1>4 DEF Fits, Stack, FramesAt
<1>6. <<t>> \o <<>> = <<t>>
  OBVIOUS
<1>7. Fits(c, <<t>> \o <<>>)
  BY <1>5, FieldsOfTask, PlainOnTop
<1>. QED
  BY <1>1, <1>6, <1>7 DEF Init, Accounted

(* Every step keeps it, where the types of UBJSON are plain.               *)
LEMMA StaysAccounted == Accounted /\ ScalarTypes /\ [Next]_vars => Accounted'
<1>. SUFFICES ASSUME Accounted, ScalarTypes, [Next]_vars PROVE Accounted'
  OBVIOUS
<1>1. source' = source /\ Sourced
  BY DEF Next, vars, Accounted
<1>2. ASSUME Next, verdict = "running" PROVE FitsNext
  <2>1. Fits(c, tasks)
    BY <1>2 DEF Accounted
  <2>2. CASE Finish
    BY <2>2 DEF Finish, FitsNext
  <2>3. CASE ~Finish
    BY <1>1, <1>2, <2>1, <2>3, ScalarsFit, ContainersFit, LooksFit, UntaggedFits, ArrayLoopFits,
       ObjectLoopFits, ClosersFit DEF Next, Step
  <2>. QED
    BY <2>2, <2>3
<1>3. Next => verdict = "running"
  BY DEF Next, Step, Working, Finish, DecodeScalar, DecodeOption, DecodeArray, DecodeMap, DecodeTuple,
     DecodeValue, DecodeSkip, DecodeUntagged, ArrayMore, ArraySep, TupleSep, ObjectMore, ObjectSep,
     CloseArray, CloseObject
<1>4. UNCHANGED vars => FitsNext
  BY DEF vars, FitsNext, Accounted
<1>5. FitsNext
  BY <1>2, <1>3, <1>4
<1>. QED
  BY <1>1, <1>5 DEF FitsNext, Accounted, Sourced, Fits, Stack, Placed, FramesAt

(* The depth is part of it.                                                *)
LEMMA AccountedDepth == Accounted => DepthIsOpen
BY DEF Accounted, DepthIsOpen, Fits

(* The frames are part of it.                                              *)
LEMMA AccountedFrames == Accounted => FramesAreContainers
<1>. SUFFICES ASSUME Accounted, verdict = "running", source \in FramedSources
              PROVE  /\ Len(c.frames) = OpenFrom(tasks, 1)
                     /\ \A i \in 1 .. Len(tasks) :
                           tasks[i].do \in Inside =>
                               (tasks[i].do \in Membered <=> c.frames[OpenFrom(tasks, i)].kind = "{")
  BY DEF FramesAreContainers
<1>1. Fits(c, tasks)
  BY DEF Accounted
<1>. QED
  BY <1>1 DEF Fits, Stack, Placed, FramesAt

(* While a value is decoded, the depth that max_depth bounds is the number *)
(* of containers that are open, whatever the input, the type, the limit    *)
(* and the chunks of a stream: for every reader but that of UBJSON         *)
(* (enter_container, leave_container, save, restore).                      *)
THEOREM ReadersCountDepth == Spec => [](source # "ubjson" => DepthIsOpen)
<1>. DEFINE I == source # "ubjson" => Accounted
<1>1. Init => I
  BY StartsAccounted
<1>2. I /\ [Next]_vars => I'
  <2>1. [Next]_vars => source' = source
    BY DEF Next, vars
  <2>2. source # "ubjson" => ScalarTypes
    BY DEF ScalarTypes
  <2>. QED
    BY <2>1, <2>2, StaysAccounted
<1>3. I => (source # "ubjson" => DepthIsOpen)
  BY AccountedDepth
<1>. QED
  BY <1>1, <1>2, <1>3, PTL DEF Spec

(* The frames of a reader that keeps them are the containers its caller is *)
(* in, of the same kinds, behind whatever number of variants that untagged *)
(* enums gave up, for every reader but that of UBJSON.                     *)
THEOREM ReadersKeepFrames == Spec => [](source # "ubjson" => FramesAreContainers)
<1>. DEFINE I == source # "ubjson" => Accounted
<1>1. Init => I
  BY StartsAccounted
<1>2. I /\ [Next]_vars => I'
  <2>1. [Next]_vars => source' = source
    BY DEF Next, vars
  <2>2. source # "ubjson" => ScalarTypes
    BY DEF ScalarTypes
  <2>. QED
    BY <2>1, <2>2, StaysAccounted
<1>3. I => (source # "ubjson" => FramesAreContainers)
  BY AccountedFrames
<1>. QED
  BY <1>1, <1>2, <1>3, PTL DEF Spec

(* Both hold of UBJSON too as long as no container it enters declares its  *)
(* elements to be containers, and no object its values to be null: with    *)
(* such a type the payload is taken for a marker (UbjsonReader, peek_token *)
(* and next_token), and a call about no container may enter one.           *)
THEOREM ScalarTypesCount == Spec /\ []ScalarTypes => [](DepthIsOpen /\ FramesAreContainers)
<1>1. Init => Accounted
  BY StartsAccounted
<1>2. Accounted /\ ScalarTypes /\ [Next]_vars => Accounted'
  BY StaysAccounted
<1>3. Accounted => DepthIsOpen /\ FramesAreContainers
  BY AccountedDepth, AccountedFrames
<1>. QED
  BY <1>1, <1>2, <1>3, PTL DEF Spec
=============================================================================
