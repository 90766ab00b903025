---------------------------- MODULE Relay_proofs ----------------------------
(***************************************************************************)
(* For every input, either format, any depth limit and any failure of the  *)
(* writer: a relay tells its sink nothing out of order, and ends with Ok   *)
(* only when the sink has one complete value.                              *)
(*                                                                         *)
(* The sink's stack of frames follows the relay's stack of loops: the same *)
(* containers are open, and a value is owed exactly where the relay is     *)
(* about to send one.  The depth of the reader follows it too.             *)
(***************************************************************************)
EXTENDS Relay, Encoder_proofs

Follows(ls, at, s) ==
    /\ ls \in Seq(Loops)
    /\ s \in States
    /\ Len(s.frames) = Len(ls)
    /\ \A i \in 1 .. Len(ls) :
          /\ s.frames[i].kind = ls[i].kind
          /\ s.frames[i].due <=> (i = Len(ls) /\ at = "item" /\ ls[i].kind = "object")
    /\ s.root <=> (at # "item" \/ ls # <<>>)

\* Stacks of loops that differ at most in how often they go on.
SameLoops(old, new) ==
    /\ new \in Seq(Loops)
    /\ Len(new) = Len(old)
    /\ \A i \in 1 .. Len(old) : new[i].kind = old[i].kind

(* A stack of loops is empty exactly when the sink is at its root.         *)
LEMMA RootIsRoot ==
    ASSUME NEW ls, NEW at, NEW s, Follows(ls, at, s)
    PROVE  /\ AtRoot(s) <=> ls = <<>>
           /\ Len(ls) \in Nat
           /\ s \in Machine(Frame) /\ Slotted(Frame)
           /\ ls # <<>> => /\ Len(ls) \in 1 .. Len(ls)
                           /\ Last(ls) = ls[Len(ls)]
                           /\ Top(s) = s.frames[Len(ls)]
                           /\ Top(s) \in Frame
<1>1. s \in Machine(Frame) /\ Slotted(Frame)
  BY FrameIsSlotted DEF Follows
<1>2. /\ ls \in Seq(Loops) /\ Len(ls) \in Nat
      /\ s.frames \in Seq(Frame)
      /\ Len(s.frames) = Len(ls)
  BY <1>1, LenProperties DEF Follows, Machine
<1>3. AtRoot(s) <=> ls = <<>>
  BY <1>2, EmptySeq DEF AtRoot
<1>4. ASSUME ls # <<>>
      PROVE  /\ Len(ls) \in 1 .. Len(ls)
             /\ Last(ls) = ls[Len(ls)]
             /\ Top(s) = s.frames[Len(ls)]
             /\ Top(s) \in Frame
  <2>1. ~AtRoot(s)
    BY <1>3, <1>4
  <2>2. Len(s.frames) \in Nat \ {0} /\ Top(s) = s.frames[Len(s.frames)] /\ Top(s) \in Frame
    BY <1>1, <2>1, TopIsLast
  <2>. QED
    BY <1>2, <2>2 DEF Last
<1>. QED
  BY <1>1, <1>2, <1>3, <1>4

(* A scalar is accepted where an item is due, and then nothing is owed.    *)
LEMMA ScalarFollows ==
    ASSUME NEW ls, NEW s, Follows(ls, "item", s), NEW next, next # "item"
    PROVE  ValueOk(FALSE, s) /\ Follows(ls, next, Value(s))
<1>1. /\ AtRoot(s) <=> ls = <<>>
      /\ Len(ls) \in Nat
      /\ s \in Machine(Frame) /\ Slotted(Frame)
      /\ ls # <<>> => /\ Len(ls) \in 1 .. Len(ls)
                      /\ Top(s) = s.frames[Len(ls)]
                      /\ Top(s) \in Frame
  BY RootIsRoot
<1>2. ValueOk(FALSE, s)
  <2>1. CASE AtRoot(s)
    BY <1>1, <2>1 DEF ValueOk, Follows
  <2>2. CASE ~AtRoot(s) /\ Top(s).kind = "array"
    BY <2>2 DEF ValueOk, InArray
  <2>3. CASE ~AtRoot(s) /\ Top(s).kind = "object"
    BY <1>1, <2>3 DEF ValueOk, Follows
  <2>. QED
    BY <1>1, <2>1, <2>2, <2>3 DEF Frame, Kinds
<1>3. /\ Value(s) \in Machine(Frame)
      /\ Value(s).root = IF AtRoot(s) THEN TRUE ELSE s.root
      /\ DueIs(FALSE, s.frames, Value(s).frames)
  BY <1>1, ValueProperties
<1>4. Value(s).root
  BY <1>1, <1>3 DEF Follows
<1>5. \A i \in 1 .. Len(ls) : /\ Value(s).frames[i].kind = ls[i].kind
                              /\ ~Value(s).frames[i].due
  BY <1>1, <1>3 DEF Follows, DueIs
<1>6. Value(s) \in States /\ Len(Value(s).frames) = Len(ls)
  BY <1>3, FrameIsSlotted DEF Follows, DueIs
<1>. QED
  BY <1>2, <1>4, <1>5, <1>6 DEF Follows

(* A container is begun where an item is due.                              *)
LEMMA BeginFollows ==
    ASSUME NEW ls, NEW s, Follows(ls, "item", s), NEW loop \in Loops
    PROVE  ValueOk(FALSE, s) /\ Follows(Append(ls, loop), "more", Begin(loop.kind, s))
<1>. DEFINE f == [kind |-> loop.kind, due |-> FALSE]
            new == Begin(loop.kind, s)
            n == Len(ls)
<1>0. ValueOk(FALSE, s) /\ Follows(ls, "more", Value(s))
  <2>1. "more" # "item"
    OBVIOUS
  <2>. QED
    BY <2>1, ScalarFollows
<1>1. /\ n \in Nat
      /\ s \in Machine(Frame) /\ Slotted(Frame)
  BY RootIsRoot
<1>2. f \in Frame
  BY DEF Frame, Loops
<1>3. new = [Value(s) EXCEPT !.frames = Append(@, f)]
  BY DEF Begin
<1>4. new \in Machine(Frame) /\ Pushed(f, Value(s), new)
  BY <1>1, <1>2, <1>3, BeginProperties
<1>5. /\ Append(ls, loop) \in Seq(Loops)
      /\ Len(Append(ls, loop)) = n + 1
      /\ \A i \in 1 .. n : Append(ls, loop)[i] = ls[i]
      /\ Append(ls, loop)[n + 1] = loop
      /\ Append(ls, loop) # <<>>
  BY AppendProperties DEF Follows
<1>6. new.root /\ Len(new.frames) = n + 1 /\ new \in States
  BY <1>0, <1>1, <1>4, FrameIsSlotted DEF Follows, Pushed
<1>7. ASSUME NEW i \in 1 .. n + 1
      PROVE  new.frames[i].kind = Append(ls, loop)[i].kind /\ ~new.frames[i].due
  <2>. HIDE DEF new
  <2>1. CASE i = n + 1
    BY <1>0, <1>1, <1>4, <1>5, <2>1 DEF Pushed, Follows
  <2>2. CASE i \in 1 .. n
    BY <1>0, <1>1, <1>4, <1>5, <2>2 DEF Pushed, Follows
  <2>. QED
    BY <1>1, <2>1, <2>2
<1>. QED
  BY <1>0, <1>1, <1>5, <1>6, <1>7 DEF Follows

(* A key is accepted at the head of the loop of an object, and its value   *)
(* is due then.                                                            *)
LEMMA KeyFollows ==
    ASSUME NEW ls, NEW s, NEW new, Follows(ls, "more", s),
           ls # <<>>, Last(ls).kind = "object", SameLoops(ls, new)
    PROVE  KeyOk(s) /\ Follows(new, "item", Key(s))
<1>. DEFINE n == Len(ls)
<1>1. /\ ~AtRoot(s)
      /\ n \in Nat /\ n \in 1 .. n
      /\ s \in Machine(Frame) /\ Slotted(Frame)
      /\ ls[n].kind = "object"
      /\ Top(s) = s.frames[n]
  BY RootIsRoot
<1>2. KeyOk(s)
  BY <1>1 DEF KeyOk, InObject, Follows
<1>3. /\ Key(s) \in Machine(Frame)
      /\ Key(s).root = s.root
      /\ DueIs(TRUE, s.frames, Key(s).frames)
  BY <1>1, SetDueProperties DEF Key
<1>4. new # <<>>
  BY <1>1, EmptySeq DEF SameLoops
<1>5. \A i \in 1 .. n : /\ Key(s).frames[i].kind = new[i].kind
                        /\ Key(s).frames[i].due <=> (i = n /\ new[i].kind = "object")
  BY <1>1, <1>3 DEF Follows, DueIs, SameLoops
<1>6. Key(s) \in States /\ Len(Key(s).frames) = Len(new) /\ Key(s).root /\ Len(new) = n
  BY <1>1, <1>3, FrameIsSlotted DEF Follows, DueIs, SameLoops
<1>. QED
  BY <1>2, <1>4, <1>5, <1>6 DEF Follows, SameLoops

(* The container that ends is the innermost one, and owes nothing.         *)
LEMMA EndFollows ==
    ASSUME NEW ls, NEW at, NEW s, Follows(ls, at, s), at # "item", ls # <<>>,
           NEW next, next # "item"
    PROVE  EndOk(Last(ls).kind, s) /\ Follows(Front(ls), next, End(s))
<1>. DEFINE n == Len(ls)
<1>1. /\ ~AtRoot(s)
      /\ n \in Nat /\ n \in 1 .. n
      /\ s \in Machine(Frame)
      /\ Last(ls) = ls[n]
      /\ Top(s) = s.frames[n]
  BY RootIsRoot
<1>2. EndOk(Last(ls).kind, s)
  BY <1>1 DEF EndOk, Follows
<1>3. /\ End(s) \in Machine(Frame)
      /\ End(s).root = s.root
      /\ Len(End(s).frames) = n - 1
      /\ \A i \in 1 .. n - 1 : End(s).frames[i] = s.frames[i]
  BY <1>1, EndProperties DEF Follows
<1>4. /\ Front(ls) \in Seq(Loops)
      /\ Len(Front(ls)) = n - 1
      /\ \A i \in 1 .. n - 1 : Front(ls)[i] = ls[i]
  <2>1. ls \in Seq(Loops) /\ n \in Nat \ {0}
    BY <1>1 DEF Follows
  <2>2. \A i \in 1 .. n - 1 : ls[i] \in Loops
    BY <2>1, ElementOfSeq
  <2>3. Front(ls) = SubSeq(ls, 1, n - 1)
    BY DEF Front
  <2>. HIDE DEF n
  <2>4. ASSUME NEW m \in Int, m = n - 1
        PROVE  /\ SubSeq(ls, 1, m) \in Seq(Loops)
               /\ Len(SubSeq(ls, 1, m)) = m
               /\ \A i \in 1 .. m : SubSeq(ls, 1, m)[i] = ls[i]
    <3>1. \A i \in 1 .. m : ls[i] \in Loops
      BY <2>2, <2>4
    <3>2. /\ SubSeq(ls, 1, m) \in Seq(Loops)
          /\ Len(SubSeq(ls, 1, m)) = IF 1 <= m THEN m - 1 + 1 ELSE 0
          /\ \A i \in 1 .. m - 1 + 1 : SubSeq(ls, 1, m)[i] = ls[1 + i - 1]
      BY <3>1, SubSeqProperties
    <3>. QED
      BY <2>1, <2>4, <3>2
  <2>. QED
    BY <2>1, <2>3, <2>4
<1>5. End(s) \in States /\ End(s).root
  BY <1>3, FrameIsSlotted DEF Follows
<1>6. ASSUME NEW i \in 1 .. n - 1
      PROVE  End(s).frames[i].kind = Front(ls)[i].kind /\ ~End(s).frames[i].due
  <2>1. i \in 1 .. Len(ls) /\ i # Len(ls)
    BY <1>1
  <2>2. s.frames[i].kind = ls[i].kind /\ ~s.frames[i].due
    BY <2>1 DEF Follows
  <2>. QED
    BY <1>3, <1>4, <2>2
<1>. QED
  BY <1>1, <1>2, <1>3, <1>4, <1>5, <1>6 DEF Follows

(* The sink is not told that an element is next: nothing is owed for it.   *)
LEMMA ElementFollows ==
    ASSUME NEW ls, NEW s, NEW new, Follows(ls, "more", s),
           ls # <<>>, Last(ls).kind = "array", SameLoops(ls, new)
    PROVE  Follows(new, "item", s)
<1>1. /\ Len(ls) \in Nat /\ Len(ls) \in 1 .. Len(ls)
      /\ ls[Len(ls)].kind = "array"
  BY RootIsRoot
<1>2. new # <<>>
  BY <1>1, EmptySeq DEF SameLoops
<1>. QED
  BY <1>1, <1>2 DEF Follows, SameLoops

(* Between items it does not matter where in its loop the relay is.        *)
LEMMA BetweenItems ==
    ASSUME NEW ls, NEW s, NEW at, NEW next, Follows(ls, at, s), at # "item", next # "item"
    PROVE  Follows(ls, next, s)
BY DEF Follows

-----------------------------------------------------------------------------
(* The inductive invariant.                                                *)

InOrder(at, ls, s, how) ==
    /\ how # "refused"
    /\ Follows(ls, at, s)
    /\ how = "ok" => FinishOk(s)

\* What a relay still has to show of an event: the sink accepts it, and
\* follows the relay to where it goes on.
Welcome(e, todo, next) == Accepts(e) /\ Follows(todo, next, Heard(e))

(* A step that stops the relay with an error of the reader or the writer.  *)
LEMMA StopInOrder ==
    ASSUME InOrder(phase, loops, sink, stage), NEW how \in {"err", "io"}, Stop(how)
    PROVE  InOrder(phase', loops', sink', stage')
BY DEF InOrder, Stop

(* A step that tells the sink an event it welcomes, and goes on or stops   *)
(* with an error there.                                                    *)
LEMMA TellInOrder ==
    ASSUME InOrder(phase, loops, sink, stage), NEW then \in {"running", "err"},
           NEW e, NEW k, NEW todo, NEW next, Welcome(e, todo, next), Tell(e, k, todo, next, then)
    PROVE  InOrder(phase', loops', sink', stage')
<1>1. CASE Stop("io")
  BY <1>1, StopInOrder
<1>2. CASE ~Stop("io")
  BY <1>2 DEF Tell, Welcome, InOrder
<1>. QED
  BY <1>1, <1>2

(* The same of one that only goes on.                                      *)
LEMMA SendInOrder ==
    ASSUME InOrder(phase, loops, sink, stage),
           NEW e, NEW k, NEW todo, NEW next, Welcome(e, todo, next), Send(e, k, todo, next)
    PROVE  InOrder(phase', loops', sink', stage')
BY TellInOrder DEF Send

(* Scalars, begins, keys and ends are welcome where the relay sends them.  *)
LEMMA EventsAreWelcome ==
    ASSUME Follows(loops, phase, sink)
    PROVE  /\ phase = "item" =>
                /\ \A says : \A next \in {"more", "after"} : Welcome(ScalarEvent(says), loops, next)
                /\ \A loop \in Loops : Welcome(BeginEvent(loop.kind), Append(loops, loop), "more")
           /\ phase = "more" /\ InLoop /\ Innermost.kind = "object" =>
                \A says, todo : SameLoops(loops, todo) => Welcome(KeyEvent(says), todo, "item")
           /\ phase # "item" /\ InLoop =>
                \A next \in {"more", "after"} : Welcome(EndEvent(Innermost.kind), Front(loops), next)
<1>1. ASSUME phase = "item", NEW says, NEW next \in {"more", "after"}
      PROVE  Welcome(ScalarEvent(says), loops, next)
  <2>1. ValueOk(FALSE, sink) /\ Follows(loops, next, Value(sink))
    BY <1>1, ScalarFollows
  <2>. QED
    BY <2>1 DEF Welcome, Accepts, Heard, ScalarEvent, Event
<1>2. ASSUME phase = "item", NEW loop \in Loops
      PROVE  Welcome(BeginEvent(loop.kind), Append(loops, loop), "more")
  <2>1. ValueOk(FALSE, sink) /\ Follows(Append(loops, loop), "more", Begin(loop.kind, sink))
    BY <1>2, BeginFollows
  <2>. QED
    BY <2>1 DEF Welcome, Accepts, Heard, BeginEvent, Event
<1>3. ASSUME phase = "more", InLoop, Innermost.kind = "object", NEW says, NEW todo,
             SameLoops(loops, todo)
      PROVE  Welcome(KeyEvent(says), todo, "item")
  <2>1. KeyOk(sink) /\ Follows(todo, "item", Key(sink))
    BY <1>3, KeyFollows DEF InLoop, Innermost
  <2>. QED
    BY <2>1 DEF Welcome, Accepts, Heard, KeyEvent, Event
<1>4. ASSUME phase # "item", InLoop, NEW next \in {"more", "after"}
      PROVE  Welcome(EndEvent(Innermost.kind), Front(loops), next)
  <2>1. EndOk(Innermost.kind, sink) /\ Follows(Front(loops), next, End(sink))
    BY <1>4, EndFollows DEF InLoop, Innermost
  <2>. QED
    BY <2>1 DEF Welcome, Accepts, Heard, EndEvent, Event
<1>. QED
  BY <1>1, <1>2, <1>3, <1>4

(* A loop with a round less is the same loop.                              *)
LEMMA RoundsAreLoops ==
    ASSUME Follows(loops, phase, sink), InLoop, ~Over
    PROVE  SameLoops(loops, Round)
<1>. DEFINE n == Len(loops)
            less == [loops[n] EXCEPT !.left = @ - 1]
<1>1. /\ loops \in Seq(Loops) /\ n \in 1 .. n /\ n \in Nat
      /\ Innermost = loops[n]
  BY RootIsRoot DEF Follows, InLoop, Innermost
<1>2. loops[n] \in Loops
  BY <1>1, ElementOfSeq
<1>3. CASE Innermost.open
  BY <1>1, <1>3 DEF Round, SameLoops
<1>4. CASE ~Innermost.open
  <2>1. loops[n].left # 0
    BY <1>1, <1>4 DEF Over
  <2>2. less \in Loops /\ less.kind = loops[n].kind
    BY <1>2, <2>1 DEF Loops
  <2>3. Round = [loops EXCEPT ![n] = less]
    BY <1>4 DEF Round
  <2>. HIDE DEF less
  <2>4. /\ [loops EXCEPT ![n] = less] \in Seq(Loops)
        /\ Len([loops EXCEPT ![n] = less]) = n
        /\ \A i \in 1 .. n : [loops EXCEPT ![n] = less][i] = IF i = n THEN less ELSE loops[i]
    BY <1>1, <2>2, ExceptSeq
  <2>. QED
    BY <2>2, <2>3, <2>4 DEF SameLoops
<1>. QED
  BY <1>3, <1>4

(* A step that only moves to another place of the loop.                    *)
LEMMA ContinueInOrder ==
    ASSUME InOrder(phase, loops, sink, stage),
           NEW k, NEW todo, NEW next, Follows(todo, next, sink), Continue(k, todo, next)
    PROVE  InOrder(phase', loops', sink', stage')
BY DEF Continue, InOrder

(* The relay may return Ok once it is out of every loop.                   *)
LEMMA FinishInOrder ==
    ASSUME InOrder(phase, loops, sink, stage), stage = "running", phase # "item", ~InLoop,
           NEW how \in {"ok", "err"}, Stop(how)
    PROVE  InOrder(phase', loops', sink', stage')
<1>1. Follows(loops, phase, sink)
  BY DEF InOrder
<1>2. AtRoot(sink)
  BY <1>1, RootIsRoot DEF InLoop
<1>3. sink.root
  BY <1>1 DEF Follows
<1>4. FinishOk(sink)
  BY <1>2, <1>3 DEF FinishOk
<1>. QED
  BY <1>4 DEF InOrder, Stop

-----------------------------------------------------------------------------
(* The steps of relay_json_value.                                          *)
LEMMA JsonInOrder ==
    ASSUME InOrder(phase, loops, sink, stage), RelayJson
    PROVE  InOrder(phase', loops', sink', stage')
<1>1. stage = "running" /\ Follows(loops, phase, sink)
  BY DEF RelayJson, JsonItem, JsonElement, JsonMember, JsonSeparator, JsonClose, JsonFinish,
         Working, InOrder
<1>. USE <1>1
<1>2. CASE JsonItem
  <2>. PICK p \in Json!Peek(text, c) :
          CASE ~p.ok \/ p.got \in Closers -> Stop("err")
            [] p.ok /\ p.got \in Openers ->
                  \E o \in Begun(p.c, p.got) :
                      IF o.ok THEN Send(BeginEvent(KindOf(p.got)), o.c,
                                        Nested(KindOf(p.got), 0, TRUE), "more")
                      ELSE Stop("err")
            [] OTHER ->
                  \E o \in Json!Next(text, p.c) : Send(ScalarEvent(<<p.got>>), o.c, loops, "after")
    BY <1>2 DEF JsonItem
  <2>1. phase = "item"
    BY <1>2 DEF JsonItem, Working
  <2>2. CASE Stop("err")
    BY <2>2, StopInOrder
  <2>3. ASSUME NEW o, Send(BeginEvent(KindOf(p.got)), o.c, Nested(KindOf(p.got), 0, TRUE), "more")
        PROVE  InOrder(phase', loops', sink', stage')
    <3>. DEFINE loop == [kind |-> KindOf(p.got), left |-> 0, open |-> TRUE]
    <3>1. loop \in Loops /\ loop.kind = KindOf(p.got)
      BY DEF Loops, Kinds, KindOf
    <3>2. Welcome(BeginEvent(loop.kind), Append(loops, loop), "more")
      BY <2>1, <3>1, EventsAreWelcome
    <3>3. Welcome(BeginEvent(KindOf(p.got)), Nested(KindOf(p.got), 0, TRUE), "more")
      BY <3>1, <3>2 DEF Nested
    <3>. QED
      BY <2>3, <3>3, SendInOrder
  <2>4. ASSUME NEW o, Send(ScalarEvent(<<p.got>>), o.c, loops, "after")
        PROVE  InOrder(phase', loops', sink', stage')
    <3>1. Welcome(ScalarEvent(<<p.got>>), loops, "after")
      BY <2>1, EventsAreWelcome
    <3>. QED
      BY <2>4, <3>1, SendInOrder
  <2>5. CASE ~p.ok \/ p.got \in Closers
    <3>1. Stop("err")
      BY <2>5 DEF Openers, Closers
    <3>. QED
      BY <2>2, <3>1
  <2>6. CASE ~(~p.ok \/ p.got \in Closers) /\ p.ok /\ p.got \in Openers
    BY <2>2, <2>3, <2>6
  <2>7. CASE ~(~p.ok \/ p.got \in Closers) /\ ~(p.ok /\ p.got \in Openers)
    BY <2>4, <2>7
  <2>. QED
    BY <2>5, <2>6, <2>7
<1>3. CASE JsonElement
  <2>. PICK o \in Json!HasMore(text, c) :
          IF o.ok THEN Continue(o.c, loops, IF o.got THEN "item" ELSE "close") ELSE Stop("err")
    BY <1>3 DEF JsonElement
  <2>1. phase = "more" /\ loops # <<>> /\ Last(loops).kind = "array"
    BY <1>3 DEF JsonElement, Working, InLoop, Innermost
  <2>2. CASE ~o.ok
    BY <2>2, StopInOrder
  <2>3. CASE o.ok /\ o.got
    <3>1. SameLoops(loops, loops)
      BY DEF SameLoops, Follows
    <3>2. Follows(loops, "item", sink)
      BY <2>1, <3>1, ElementFollows
    <3>. QED
      BY <2>3, <3>2, ContinueInOrder
  <2>4. CASE o.ok /\ ~o.got
    <3>1. "close" # "item" /\ "more" # "item"
      OBVIOUS
    <3>2. Follows(loops, "close", sink)
      BY <2>1, <3>1, BetweenItems
    <3>. QED
      BY <2>4, <3>2, ContinueInOrder
  <2>. QED
    BY <2>2, <2>3, <2>4
<1>4. CASE JsonMember
  <2>. PICK o \in Json!ObjectKey(text, c) :
          IF ~o.ok THEN Stop("err")
          ELSE IF o.got = NoToken THEN Continue(o.c, loops, "close")
          ELSE Send(KeyEvent(<<o.got>>), o.c, loops, "item")
    BY <1>4 DEF JsonMember
  <2>1. phase = "more" /\ InLoop /\ Innermost.kind = "object"
    BY <1>4 DEF JsonMember, Working
  <2>2. CASE ~o.ok
    BY <2>2, StopInOrder
  <2>3. CASE o.ok /\ o.got = NoToken
    <3>1. "close" # "item" /\ "more" # "item"
      OBVIOUS
    <3>2. Follows(loops, "close", sink)
      BY <2>1, <3>1, BetweenItems
    <3>. QED
      BY <2>3, <3>2, ContinueInOrder
  <2>4. CASE o.ok /\ o.got # NoToken
    <3>1. SameLoops(loops, loops)
      BY DEF SameLoops, Follows
    <3>2. Welcome(KeyEvent(<<o.got>>), loops, "item")
      BY <2>1, <3>1, EventsAreWelcome
    <3>. QED
      BY <2>4, <3>2, SendInOrder
  <2>. QED
    BY <2>2, <2>3, <2>4
<1>5. CASE JsonSeparator
  <2>. PICK o \in Json!EntrySep(text, c, CloserOf[Opening]) :
          IF o.ok THEN Continue(o.c, loops, IF o.got THEN "more" ELSE "close") ELSE Stop("err")
    BY <1>5 DEF JsonSeparator
  <2>1. phase # "item"
    BY <1>5 DEF JsonSeparator, Working
  <2>2. ASSUME NEW next \in {"more", "close"}, Continue(o.c, loops, next)
        PROVE  InOrder(phase', loops', sink', stage')
    <3>1. Follows(loops, next, sink)
      BY <2>1, BetweenItems
    <3>. QED
      BY <2>2, <3>1, ContinueInOrder
  <2>. QED
    BY <2>2, StopInOrder
<1>6. CASE JsonClose
  <2>. PICK o \in Ended :
          IF o.ok THEN Send(EndEvent(Innermost.kind), o.c, Front(loops), "after") ELSE Stop("err")
    BY <1>6 DEF JsonClose
  <2>1. Welcome(EndEvent(Innermost.kind), Front(loops), "after")
    BY <1>6, EventsAreWelcome DEF JsonClose, Working
  <2>2. CASE o.ok
    BY <2>1, <2>2, SendInOrder
  <2>3. CASE ~o.ok
    BY <2>3, StopInOrder
  <2>. QED
    BY <2>2, <2>3
<1>7. CASE JsonFinish
  <2>. PICK o \in Json!End(text, c) : Stop(IF o.ok THEN "ok" ELSE "err")
    BY <1>7 DEF JsonFinish
  <2>. QED
    BY <1>7, FinishInOrder DEF JsonFinish, Working
<1>. QED
  BY <1>2, <1>3, <1>4, <1>5, <1>6, <1>7 DEF RelayJson

(* The steps of CborReader.                                                *)
LEMMA CborInOrder ==
    ASSUME InOrder(phase, loops, sink, stage), RelayCbor
    PROVE  InOrder(phase', loops', sink', stage')
<1>1. stage = "running" /\ Follows(loops, phase, sink)
  BY DEF RelayCbor, CborScalar, CborBegin, CborRefuse, CborElement, CborMember, CborEnd, CborFinish,
         Working, InOrder
<1>. USE <1>1
<1>2. CASE CborScalar
  <2>1. PICK says, n : Send(ScalarEvent(says), Beyond(n), loops, "more")
    BY <1>2 DEF CborScalar
  <2>2. Welcome(ScalarEvent(says), loops, "more")
    BY <1>2, EventsAreWelcome DEF CborScalar, Working
  <2>. QED
    BY <2>1, <2>2, SendInOrder
<1>3. CASE CborBegin
  <2>. DEFINE kind == IF Cell \in Arrays THEN "array" ELSE "object"
              counted == Cell \in DOMAIN Counts
              left == IF counted THEN Counts[Cell] ELSE 0
              loop == [kind |-> kind, left |-> left, open |-> ~counted]
              k == [Beyond(1) EXCEPT !.depth = @ + 1]
  <2>1. CASE ~MayEnter(c.depth)
    BY <1>3, <2>1, StopInOrder DEF CborBegin
  <2>2. CASE MayEnter(c.depth)
    <3>1. \E then \in {"running", "err"} : Tell(BeginEvent(kind), k, Append(loops, loop), "more", then)
      BY <1>3, <2>2 DEF CborBegin, Nested
    <3>2. left \in Nat
      BY DEF Counts
    <3>3. kind \in Kinds /\ (~counted) \in BOOLEAN
      BY DEF Kinds
    <3>. HIDE DEF kind, counted, left
    <3>4. loop \in Loops /\ loop.kind = kind
      BY <3>2, <3>3 DEF Loops
    <3>. HIDE DEF loop, k
    <3>5. Welcome(BeginEvent(loop.kind), Append(loops, loop), "more")
      BY <1>3, <3>4, EventsAreWelcome DEF CborBegin, Working
    <3>6. Welcome(BeginEvent(kind), Append(loops, loop), "more")
      BY <3>4, <3>5
    <3>. QED
      BY <3>1, <3>6, TellInOrder
  <2>. QED
    BY <2>1, <2>2
<1>4. CASE CborRefuse
  BY <1>4, StopInOrder DEF CborRefuse
<1>5. CASE CborElement
  <2>1. /\ phase = "more" /\ InLoop /\ ~Over
        /\ Innermost.kind = "array"
        /\ Continue(c, Round, "item")
    BY <1>5 DEF CborElement, Working
  <2>2. SameLoops(loops, Round)
    BY <2>1, RoundsAreLoops
  <2>3. Follows(Round, "item", sink)
    BY <2>1, <2>2, ElementFollows DEF InLoop, Innermost
  <2>. QED
    BY <2>1, <2>3, ContinueInOrder
<1>6. CASE CborMember
  <2>1. /\ phase = "more" /\ InLoop /\ ~Over
        /\ Innermost.kind = "object"
    BY <1>6 DEF CborMember, Working
  <2>2. CASE TextLength = 0
    BY <1>6, <2>2, StopInOrder DEF CborMember
  <2>3. CASE TextLength # 0
    <3>1. Send(KeyEvent(Says), Beyond(TextLength), Round, "item")
      BY <1>6, <2>3 DEF CborMember
    <3>2. SameLoops(loops, Round)
      BY <2>1, RoundsAreLoops
    <3>3. Welcome(KeyEvent(Says), Round, "item")
      BY <2>1, <3>2, EventsAreWelcome
    <3>. QED
      BY <3>1, <3>3, SendInOrder
  <2>. QED
    BY <2>2, <2>3
<1>7. CASE CborEnd
  <2>1. Send(EndEvent(Innermost.kind), Left, Front(loops), "more")
    BY <1>7 DEF CborEnd
  <2>2. Welcome(EndEvent(Innermost.kind), Front(loops), "more")
    BY <1>7, EventsAreWelcome DEF CborEnd, Working
  <2>. QED
    BY <2>1, <2>2, SendInOrder
<1>8. CASE CborFinish
  BY <1>8, FinishInOrder DEF CborFinish, Working
<1>. QED
  BY <1>2, <1>3, <1>4, <1>5, <1>6, <1>7, <1>8 DEF RelayCbor

-----------------------------------------------------------------------------
(* The relay starts in order, and every step keeps it so.                  *)
LEMMA InitInOrder ==
    ASSUME Init
    PROVE  InOrder(phase, loops, sink, stage)
<1>1. loops = <<>> /\ Len(loops) = 0 /\ loops \in Seq(Loops)
  BY EmptySeq DEF Init
<1>2. sink = NewState /\ phase = "item" /\ stage = "running"
  BY DEF Init
<1>3. /\ sink.frames = <<>> /\ ~sink.root
      /\ Len(sink.frames) = 0
      /\ sink \in States
  BY <1>2, EmptySeq DEF NewState, States
<1>4. Follows(loops, phase, sink)
  BY <1>1, <1>2, <1>3 DEF Follows
<1>. QED
  BY <1>2, <1>4 DEF InOrder

LEMMA NextInOrder ==
    ASSUME InOrder(phase, loops, sink, stage), [Next]_vars
    PROVE  InOrder(phase', loops', sink', stage')
<1>1. CASE RelayJson
  BY <1>1, JsonInOrder
<1>2. CASE RelayCbor
  BY <1>2, CborInOrder
<1>3. CASE UNCHANGED vars
  BY <1>3 DEF vars
<1>. QED
  BY <1>1, <1>2, <1>3 DEF Next

(* json_to_cbor and cbor_to_json (mod.rs 87-111) call finish on the sink   *)
(* of a relay that returned Ok: no event before was refused and nothing is *)
(* missing, for every input, limit and writer.                             *)
THEOREM SinkIsNeverRefused == Spec => []SinkNeverRefuses
<1>. DEFINE Ordered == InOrder(phase, loops, sink, stage)
<1>1. Init => Ordered
  BY InitInOrder
<1>2. Ordered /\ [Next]_vars => Ordered'
  BY NextInOrder
<1>3. Ordered => SinkNeverRefuses
  BY DEF InOrder, SinkNeverRefuses
<1>. QED
  BY <1>1, <1>2, <1>3, PTL DEF Spec

-----------------------------------------------------------------------------
(* The depth of the reader.                                                *)

Fields == DOMAIN Cursor(0)

\* Two cursors of a reader at the same depth.
SameDepth(k, d) == DOMAIN d = DOMAIN k /\ d.depth = k.depth

(* A cursor is a record with a depth.                                      *)
LEMMA CursorFields ==
    /\ Fields = {"pos", "look", "avail", "depth", "frames", "pending", "names", "values"}
    /\ \A n : DOMAIN Cursor(n) = Fields /\ Cursor(n).depth = 0
BY DEF Fields, Cursor

(* Every call of the JSON reader that is not about a container leaves the  *)
(* depth alone, whatever comes of it.                                      *)
LEMMA ReaderKeepsDepth ==
    ASSUME NEW input, NEW k, DOMAIN k = Fields
    PROVE  /\ \A o \in Json!Next(input, k) : SameDepth(k, o.c)
           /\ \A o \in Json!Peek(input, k) : SameDepth(k, o.c)
           /\ \A o \in Json!HasMore(input, k) : SameDepth(k, o.c)
           /\ \A o \in Json!ObjectKey(input, k) : SameDepth(k, o.c)
           /\ \A closer : \A o \in Json!EntrySep(input, k, closer) : SameDepth(k, o.c)
<1>. DEFINE Kept(e) == SameDepth(k, e)
<1>1. ASSUME NEW e, Kept(e)
      PROVE  /\ \A n : Kept([e EXCEPT !.pos = n])
             /\ \A n : Kept([e EXCEPT !.look = n])
             /\ Kept(Json!SkipBlanks(input, e))
             /\ \A g : Kept(Json!Ok(e, g).c) /\ Kept(Json!Err(e).c)
  BY <1>1, CursorFields DEF SameDepth, Json!SkipBlanks, Json!Ok, Json!Err
<1>2. Kept(k)
  BY DEF SameDepth
<1>. HIDE DEF Kept
<1>3. \A o \in Json!Lex(input, k) : Kept(o.c)
  BY <1>1, <1>2 DEF Json!Lex
<1>4. \A o \in Json!Next(input, k) : Kept(o.c)
  BY <1>1, <1>2, <1>3 DEF Json!Next
<1>5. \A o \in Json!Peek(input, k) : Kept(o.c)
  BY <1>1, <1>2, <1>3 DEF Json!Peek, Json!Then
<1>6. \A o \in Json!HasMore(input, k) : Kept(o.c)
  BY <1>1, <1>2 DEF Json!HasMore
<1>7. \A o \in Json!ObjectKey(input, k) : Kept(o.c)
  BY <1>1, <1>2 DEF Json!ObjectKey
<1>8. \A closer : \A o \in Json!EntrySep(input, k, closer) : Kept(o.c)
  BY <1>1, <1>2 DEF Json!EntrySep
<1>. QED
  BY <1>4, <1>5, <1>6, <1>7, <1>8 DEF Kept

(* A bracket is charged for, below the limit, before it is read.           *)
LEMMA BegunIsDeeper ==
    ASSUME NEW k, NEW opener, DOMAIN k = Fields, NEW o \in Begun(k, opener), o.ok
    PROVE  DOMAIN o.c = Fields /\ o.c.depth = k.depth + 1
<1>. DEFINE e == [k EXCEPT !.depth = @ + 1]
<1>1. DOMAIN e = Fields /\ e.depth = k.depth + 1
  BY CursorFields
<1>. HIDE DEF e
<1>2. \A n \in Json!Next(text, e) : SameDepth(e, n.c)
  BY <1>1, ReaderKeepsDepth
<1>3. MayEnter(k.depth)
  BY DEF Begun, BeginWith, Err
<1>4. o \in Expect(Json!Next(text, e), {opener})
  BY <1>3 DEF Begun, BeginWith, e
<1>5. o \in Json!Next(text, e)
  BY <1>4 DEF Expect, Err
<1>. QED
  BY <1>1, <1>2, <1>5 DEF SameDepth

(* Its closer gives it back.                                               *)
LEMMA EndedIsShallower ==
    ASSUME DOMAIN c = Fields, NEW o \in Ended, o.ok
    PROVE  DOMAIN o.c = Fields /\ o.c.depth = GiveBack(c.depth)
<1>. DEFINE Read == Json!Next(text, c)
            Out(n) == [n EXCEPT !.c.depth = GiveBack(@)]
<1>1. \A n \in Read : SameDepth(c, n.c)
  BY ReaderKeepsDepth
<1>2. \A n \in Read : DOMAIN n = {"ok", "c", "got"}
  BY DEF Json!Next, Json!Lex, Json!Ok, Json!Err
<1>. HIDE DEF Read
<1>3. o \in UNION {IF n.ok THEN {Out(n)} ELSE {n} : n \in Read}
  BY DEF Ended, EndWith, Expect, Then, Err, Read
<1>4. PICK n \in Read : o \in IF n.ok THEN {Out(n)} ELSE {n}
  BY <1>3
<1>5. o = Out(n)
  BY <1>4
<1>. QED
  BY <1>1, <1>2, <1>5, CursorFields DEF SameDepth

-----------------------------------------------------------------------------
(* A step leaves the reader as deep as its loops, also one that stops.     *)

OnwardAt(k, todo) == DOMAIN k = Fields /\ k.depth = Len(todo)

StaysInStep == OnwardAt(c', loops')

(* An event that is sent, or none, leaves the relay in step if the cursor  *)
(* and the loops it goes on with are.                                      *)
LEMMA OnwardInStep ==
    ASSUME OnwardAt(c, loops), NEW k, NEW todo, NEW next, OnwardAt(k, todo),
           \/ Continue(k, todo, next)
           \/ \E e : Send(e, k, todo, next)
           \/ \E e, then : Tell(e, k, todo, next, then)
    PROVE  StaysInStep
BY DEF Send, Tell, Continue, Stop, StaysInStep

(* A step that stops leaves reader and loops where they are.               *)
LEMMA StopInStep ==
    ASSUME OnwardAt(c, loops), NEW how, Stop(how)
    PROVE  StaysInStep
BY DEF Stop, StaysInStep

(* A stack of loops is one longer within a new loop, and one shorter       *)
(* behind the innermost.                                                   *)
LEMMA NestingCounts ==
    ASSUME loops \in Seq(Loops)
    PROVE  /\ Len(loops) \in Nat
           /\ \A loop : Len(Append(loops, loop)) = Len(loops) + 1
           /\ InLoop => Len(loops) # 0 /\ Len(Front(loops)) = GiveBack(Len(loops))
<1>1. Len(loops) \in Nat /\ (Len(loops) = 0 <=> loops = <<>>)
  BY LenProperties, EmptySeq
<1>2. ASSUME NEW loop PROVE Len(Append(loops, loop)) = Len(loops) + 1
  <2>. DEFINE Wider == Loops \cup {loop}
  <2>1. loops \in Seq(Wider)
    BY SeqMonotonic
  <2>. QED
    BY <2>1, AppendProperties
<1>3. ASSUME InLoop PROVE Len(loops) # 0 /\ Len(Front(loops)) = GiveBack(Len(loops))
  <2>1. Len(loops) # 0 /\ Len(loops) - 1 \in Nat
    BY <1>1, <1>3 DEF InLoop
  <2>2. Len(Front(loops)) = Len(loops) - 1
    <3>. DEFINE m == Len(loops) - 1
    <3>1. m \in Nat
      BY <2>1
    <3>2. \A i \in 1 .. m : loops[i] \in Loops
      BY <1>1, ElementOfSeq
    <3>. HIDE DEF m
    <3>3. Len(SubSeq(loops, 1, m)) = IF 1 <= m THEN m - 1 + 1 ELSE 0
      BY <3>1, <3>2, SubSeqProperties
    <3>4. Len(SubSeq(loops, 1, m)) = m
      BY <3>1, <3>3
    <3>. QED
      BY <3>4 DEF Front, m
  <2>. QED
    BY <1>1, <2>1, <2>2 DEF GiveBack
<1>. QED
  BY <1>1, <1>2, <1>3

(* The steps of relay_json_value: next_token and the questions for more    *)
(* stay at the depth, a bracket and a closer go with their loop.           *)
LEMMA JsonStaysInStep ==
    ASSUME stage = "running", loops \in Seq(Loops), OnwardAt(c, loops), RelayJson
    PROVE  StaysInStep
<1>1. DOMAIN c = Fields /\ c.depth = Len(loops)
  BY DEF OnwardAt
<1>2. ASSUME NEW k, NEW todo, NEW next, OnwardAt(k, todo),
             Continue(k, todo, next) \/ \E e : Send(e, k, todo, next)
      PROVE  StaysInStep
  BY <1>2, OnwardInStep
<1>3. ASSUME NEW how, Stop(how) PROVE StaysInStep
  BY <1>3, StopInStep
<1>4. ASSUME NEW o, SameDepth(c, o.c) PROVE OnwardAt(o.c, loops)
  BY <1>1, <1>4 DEF SameDepth, OnwardAt
<1>5. CASE JsonItem
  <2>. PICK p \in Json!Peek(text, c) :
          CASE ~p.ok \/ p.got \in Closers -> Stop("err")
            [] p.ok /\ p.got \in Openers ->
                  \E o \in Begun(p.c, p.got) :
                      IF o.ok THEN Send(BeginEvent(KindOf(p.got)), o.c,
                                        Nested(KindOf(p.got), 0, TRUE), "more")
                      ELSE Stop("err")
            [] OTHER ->
                  \E o \in Json!Next(text, p.c) : Send(ScalarEvent(<<p.got>>), o.c, loops, "after")
    BY <1>5 DEF JsonItem
  <2>1. DOMAIN p.c = Fields /\ p.c.depth = Len(loops)
    BY <1>1, ReaderKeepsDepth DEF SameDepth
  <2>2. ASSUME NEW o \in Begun(p.c, p.got), o.ok,
               Send(BeginEvent(KindOf(p.got)), o.c, Nested(KindOf(p.got), 0, TRUE), "more")
        PROVE  StaysInStep
    <3>1. OnwardAt(o.c, Nested(KindOf(p.got), 0, TRUE))
      BY <2>1, <2>2, BegunIsDeeper, NestingCounts DEF OnwardAt, Nested
    <3>. QED
      BY <1>2, <2>2, <3>1
  <2>3. ASSUME NEW o \in Json!Next(text, p.c), Send(ScalarEvent(<<p.got>>), o.c, loops, "after")
        PROVE  StaysInStep
    <3>1. OnwardAt(o.c, loops)
      BY <2>1, ReaderKeepsDepth DEF SameDepth, OnwardAt
    <3>. QED
      BY <1>2, <2>3, <3>1
  <2>4. CASE ~p.ok \/ p.got \in Closers
    BY <1>3, <2>4 DEF Openers, Closers
  <2>5. CASE ~(~p.ok \/ p.got \in Closers) /\ p.ok /\ p.got \in Openers
    BY <1>3, <2>2, <2>5
  <2>6. CASE ~(~p.ok \/ p.got \in Closers) /\ ~(p.ok /\ p.got \in Openers)
    BY <2>3, <2>6
  <2>. QED
    BY <2>4, <2>5, <2>6
<1>6. CASE JsonElement
  BY <1>1, <1>2, <1>3, <1>4, <1>6, ReaderKeepsDepth DEF JsonElement
<1>7. CASE JsonMember
  BY <1>1, <1>2, <1>3, <1>4, <1>7, ReaderKeepsDepth DEF JsonMember
<1>8. CASE JsonSeparator
  BY <1>1, <1>2, <1>3, <1>4, <1>8, ReaderKeepsDepth DEF JsonSeparator
<1>9. CASE JsonClose
  <2>. PICK o \in Ended :
          IF o.ok THEN Send(EndEvent(Innermost.kind), o.c, Front(loops), "after") ELSE Stop("err")
    BY <1>9 DEF JsonClose
  <2>1. CASE o.ok
    <3>1. OnwardAt(o.c, Front(loops))
      BY <1>1, <1>9, <2>1, EndedIsShallower, NestingCounts DEF OnwardAt, JsonClose
    <3>. QED
      BY <1>2, <2>1, <3>1
  <2>. QED
    BY <1>3, <2>1
<1>10. CASE JsonFinish
  BY <1>3, <1>10 DEF JsonFinish
<1>. QED
  BY <1>5, <1>6, <1>7, <1>8, <1>9, <1>10 DEF RelayJson

(* The steps of CborReader: enter before a header's items, leave behind    *)
(* its last one or its break.                                              *)
LEMMA CborStaysInStep ==
    ASSUME stage = "running", Follows(loops, phase, sink), OnwardAt(c, loops), RelayCbor
    PROVE  StaysInStep
<1>1. DOMAIN c = Fields /\ c.depth = Len(loops) /\ loops \in Seq(Loops)
  BY DEF OnwardAt, Follows
<1>2. ASSUME NEW k, NEW todo, NEW next, OnwardAt(k, todo),
             \/ Continue(k, todo, next)
             \/ \E e : Send(e, k, todo, next)
             \/ \E e, then : Tell(e, k, todo, next, then)
      PROVE  StaysInStep
  BY <1>2, OnwardInStep
<1>3. ASSUME NEW how, Stop(how) PROVE StaysInStep
  BY <1>3, StopInStep
<1>4. ASSUME NEW n
      PROVE  DOMAIN Beyond(n) = Fields /\ Beyond(n).depth = Len(loops)
  BY <1>1, CursorFields DEF Beyond
<1>5. InLoop /\ ~Over => Len(Round) = Len(loops)
  BY RoundsAreLoops DEF SameLoops
<1>6. CASE CborScalar
  BY <1>2, <1>4, <1>6 DEF CborScalar, OnwardAt
<1>7. CASE CborBegin
  <2>1. CASE ~MayEnter(c.depth)
    BY <1>3, <1>7, <2>1 DEF CborBegin
  <2>2. CASE MayEnter(c.depth)
    <3>. DEFINE k == [Beyond(1) EXCEPT !.depth = @ + 1]
    <3>1. PICK e, kind, left, open, then : Tell(e, k, Nested(kind, left, open), "more", then)
      BY <1>7, <2>2 DEF CborBegin
    <3>2. OnwardAt(k, Nested(kind, left, open))
      BY <1>1, <1>4, CursorFields, NestingCounts DEF OnwardAt, Nested
    <3>. QED
      BY <1>2, <3>1, <3>2
  <2>. QED
    BY <2>1, <2>2
<1>8. CASE CborRefuse
  BY <1>3, <1>8 DEF CborRefuse
<1>9. CASE CborElement
  BY <1>1, <1>2, <1>5, <1>9 DEF CborElement, OnwardAt
<1>10. CASE CborMember
  <2>1. OnwardAt(Beyond(TextLength), Round)
    BY <1>4, <1>5, <1>10 DEF CborMember, OnwardAt
  <2>. QED
    BY <1>2, <1>3, <1>10, <2>1 DEF CborMember
<1>11. CASE CborEnd
  <2>1. OnwardAt(Left, Front(loops))
    BY <1>1, <1>4, <1>11, CursorFields, NestingCounts DEF CborEnd, Left, OnwardAt
  <2>. QED
    BY <1>2, <1>11, <2>1 DEF CborEnd
<1>12. CASE CborFinish
  BY <1>3, <1>12 DEF CborFinish
<1>. QED
  BY <1>6, <1>7, <1>8, <1>9, <1>10, <1>11, <1>12 DEF RelayCbor

-----------------------------------------------------------------------------
(* enter and leave of CborReader (cbor.rs), enter_container and            *)
(* leave_container of the JSON reader (de.rs) and the begin and end events *)
(* of the sink stand in different places of the code: the depth compared   *)
(* with max_depth is the number of containers open in the reader and in    *)
(* the sink, for every input, limit and writer, also where the relay was   *)
(* stopped.                                                                *)
THEOREM DepthIsTracked == Spec => []DepthIsOpen
<1>. DEFINE Ordered == InOrder(phase, loops, sink, stage)
            Inv == Ordered /\ DOMAIN c = Fields /\ DepthIsOpen
<1>1. Init => Inv
  <2>. SUFFICES ASSUME Init PROVE Inv
    OBVIOUS
  <2>1. Ordered
    BY InitInOrder
  <2>2. c = Cursor(Len(text)) /\ loops = <<>> /\ sink = NewState
    BY DEF Init
  <2>3. DOMAIN c = Fields /\ c.depth = 0
    BY <2>2, CursorFields
  <2>4. Len(loops) = 0 /\ Len(sink.frames) = 0
    BY <2>2 DEF NewState
  <2>. QED
    BY <2>1, <2>3, <2>4 DEF DepthIsOpen
<1>2. Inv /\ [Next]_vars => Inv'
  <2>. SUFFICES ASSUME Inv, [Next]_vars PROVE Inv'
    OBVIOUS
  <2>1. CASE Next
    <3>1. Ordered'
      BY <2>1, NextInOrder DEF Next
    <3>2. stage = "running" /\ Follows(loops, phase, sink)
      BY <2>1 DEF InOrder, Next, RelayJson, JsonItem, JsonElement, JsonMember, JsonSeparator,
                  JsonClose, JsonFinish, RelayCbor, CborScalar, CborBegin, CborRefuse,
                  CborElement, CborMember, CborEnd, CborFinish, Working
    <3>3. loops \in Seq(Loops) /\ OnwardAt(c, loops)
      BY <3>2 DEF Follows, OnwardAt, DepthIsOpen
    <3>4. StaysInStep
      BY <2>1, <3>2, <3>3, JsonStaysInStep, CborStaysInStep DEF Next
    <3>5. Follows(loops', phase', sink')
      BY <3>1 DEF InOrder
    <3>. QED
      BY <3>1, <3>4, <3>5 DEF StaysInStep, Follows, OnwardAt, DepthIsOpen
  <2>2. CASE UNCHANGED vars
    BY <2>2 DEF vars, DepthIsOpen
  <2>. QED
    BY <2>1, <2>2
<1>3. Inv => DepthIsOpen
  OBVIOUS
<1>. QED
  BY <1>1, <1>2, <1>3, PTL DEF Spec
=============================================================================
