---------------------------- MODULE MsgPackReader ---------------------------
(***************************************************************************)
(* formats/msgpack.rs, MsgPackDecoder.  Every container says how many      *)
(* entries it has; the frame of an open one counts down, for a map when a  *)
(* key is asked for and for an array at the separator call behind an       *)
(* element.  Nothing on the wire marks the end.                            *)
(***************************************************************************)
EXTENDS Wire

ReadToken(input, c) ==
    LET cell == At(input, c.pos)
    IN  CASE cell \in Scalars -> {Ok(Taken(c), cell)}
          [] cell \in DOMAIN Counted ->
                {Ok([Taken(c) EXCEPT !.pending = Counted[cell]], Counted[cell].kind)}
          [] OTHER -> {Err(c)}

Next(input, c) == LET Read(k) == ReadToken(input, k) IN NextWith(Read, c)

Peek(input, c) == LET Read(k) == ReadToken(input, k) IN PeekWith(Read, c)

OptionTag(input, c) == LET Read(k) == ReadToken(input, k) IN TagWith(Read, c)

\* unit, number, string: the byte dispatch reads the cell itself, the token
\* dispatch takes the lookahead.
Typed(input, c, kinds) == Expect(Next(input, c), kinds)

Begin(input, c, opener) ==
    LET Read(k) == Next(input, k)
        Enter(o) == EnterPending(o.c, opener)
    IN  Then(BeginWith(Read, c, opener), Enter)

\* The entry is counted before its key is read.
ObjectKey(input, c) ==
    LET k == CountDown(c)
        cell == At(input, c.pos)
    IN  CASE ~InFrame(c) -> {Err(c)}
          [] InFrame(c) /\ TopFrame(c).left = 0 -> {Ok(c, NoToken)}
          [] OTHER -> IF cell \in Strings THEN {Ok(Taken(k), cell)} ELSE {Err(k)}

HasLeft(c, kind) == InFrame(c) /\ TopFrame(c).kind = kind /\ TopFrame(c).left > 0

HasMore(input, c) == {Ok(c, HasLeft(c, "["))}

\* Mutant: the element is not counted.
EntrySepUncounted(input, c, closer) == {Ok(c, HasLeft(c, IF closer = "]" THEN "[" ELSE "{"))}

EntrySep(input, c, closer) ==
    IF closer = "}" THEN {Ok(c, HasLeft(c, "{"))}
    ELSE HasMore(input, IF HasLeft(c, "[") THEN CountDown(c) ELSE c)

\* The frame goes first; one with entries left is an error.
EndContainer(input, c, opener) ==
    CASE ~InFrame(c) -> {Err(c)}
      [] InFrame(c) /\ (TopFrame(c).kind # opener \/ TopFrame(c).left # 0) -> {Err(Pop(c))}
      [] OTHER -> {Ok(Leave(Pop(c)), NoToken)}

End(input, c) == EndOfInput(input, c)
=============================================================================
