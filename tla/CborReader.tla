----------------------------- MODULE CborReader -----------------------------
(***************************************************************************)
(* formats/cbor.rs, CborDecoder.  As MessagePack, and a container may be   *)
(* indefinite: the questions for more look at the wire for the break       *)
(* ("end"), which the end of the container consumes.                       *)
(***************************************************************************)
EXTENDS Wire

Headers == [cell \in DOMAIN Counted \cup DOMAIN Delimited |->
                IF cell \in DOMAIN Counted THEN Counted[cell] ELSE Delimited[cell]]

\* A tag other than 2 and 3 is refused, its number consumed.
ReadToken(input, c) ==
    LET cell == At(input, c.pos)
    IN  CASE cell \in Scalars -> {Ok(Taken(c), cell)}
          [] cell \in DOMAIN Headers ->
                {Ok([Taken(c) EXCEPT !.pending = Headers[cell]], Headers[cell].kind)}
          [] OTHER -> {Err(c)}

Next(input, c) == LET Read(k) == ReadToken(input, k) IN NextWith(Read, c)

Peek(input, c) == LET Read(k) == ReadToken(input, k) IN PeekWith(Read, c)

OptionTag(input, c) == LET Read(k) == ReadToken(input, k) IN TagWith(Read, c)

\* number() reads a tag and the byte of its number, and then goes back one
\* byte only: the number of the tag is read again, as the value.
Typed(input, c, kinds) ==
    LET numbered == kinds = Numbers /\ c.look = NoToken /\ At(input, c.pos) = "tag"
    IN  Expect(Next(input, IF numbered THEN Taken(c) ELSE c), kinds)

Begin(input, c, opener) ==
    LET Read(k) == Next(input, k)
        Enter(o) == EnterPending(o.c, opener)
    IN  Then(BeginWith(Read, c, opener), Enter)

\* at_break: a staged token is not the break.
AtBreak(input, c) ==
    IF c.look # NoToken THEN {Ok(c, FALSE)}
    ELSE IF At(input, c.pos) = "eof" THEN {Err(c)}
    ELSE {Ok(c, At(input, c.pos) = "end")}

\* Whether the innermost container goes on.
GoesOn(input, c) ==
    IF ~InFrame(c) THEN {Err(c)}
    ELSE IF ~TopFrame(c).open THEN {Ok(c, TopFrame(c).left > 0)}
    ELSE LET More(o) == {Ok(c, ~o.got)} IN Then(AtBreak(input, c), More)

ObjectKey(input, c) ==
    LET cell == At(input, c.pos)
        Key(o) == IF ~o.got THEN {Ok(c, NoToken)}
                  ELSE LET k == IF TopFrame(c).open THEN c ELSE CountDown(c)
                       IN  IF cell \in Strings THEN {Ok(Taken(k), cell)} ELSE {Err(k)}
    IN  Then(GoesOn(input, c), Key)

HasMore(input, c) == GoesOn(input, c)

EntrySep(input, c, closer) ==
    GoesOn(input, IF closer = "]" /\ InFrame(c) /\ ~TopFrame(c).open /\ TopFrame(c).left > 0
                  THEN CountDown(c) ELSE c)

\* Mutant: the break stays on the wire.
EndContainerKeepsBreak(input, c, opener) ==
    IF InFrame(c) /\ TopFrame(c).left = 0 THEN {Ok(Leave(Pop(c)), NoToken)} ELSE {Err(c)}

\* The break of an indefinite container is consumed with its frame; neither
\* the kind of the frame nor a staged token matters.
EndContainer(input, c, opener) ==
    IF ~InFrame(c) THEN {Err(c)}
    ELSE IF TopFrame(c).open
    THEN IF At(input, c.pos) = "end" THEN {Ok(Leave(Taken(Pop(c))), NoToken)} ELSE {Err(Pop(c))}
    ELSE IF TopFrame(c).left # 0 THEN {Err(Pop(c))}
    ELSE {Ok(Leave(Pop(c)), NoToken)}

End(input, c) == EndOfInput(input, c)
=============================================================================
