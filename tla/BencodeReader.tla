---------------------------- MODULE BencodeReader ---------------------------
(***************************************************************************)
(* formats/bencode.rs, BencodeDecoder.  Every container is delimited; the  *)
(* terminator is read as the closing bracket of the innermost frame, and   *)
(* the questions for more leave the next token staged.  There is no null.  *)
(***************************************************************************)
EXTENDS Wire

ReadToken(input, c) ==
    LET cell == At(input, c.pos)
    IN  CASE cell \in Strings \cup Numbers -> {Ok(Taken(c), cell)}
          [] cell \in DOMAIN Delimited -> {Ok(Taken(c), Delimited[cell].kind)}
          [] cell = "end" /\ InFrame(c) ->
                {Ok(Taken(c), IF TopFrame(c).kind = "[" THEN "]" ELSE "}")}
          [] OTHER -> {Err(c)}

Next(input, c) == LET Read(k) == ReadToken(input, k) IN NextWith(Read, c)

Peek(input, c) == LET Read(k) == ReadToken(input, k) IN PeekWith(Read, c)

OptionTag(input, c) == LET Read(k) == ReadToken(input, k) IN TagWith(Read, c)

\* unit() refuses without reading.
Typed(input, c, kinds) ==
    IF kinds = {"null"} THEN {Err(c)} ELSE Expect(Next(input, c), kinds)

Begin(input, c, opener) ==
    LET Read(k) == Next(input, k)
        Enter(o) == {Ok(Push(o.c, [NoFrame EXCEPT !.kind = opener, !.open = TRUE]), opener)}
    IN  Then(BeginWith(Read, c, opener), Enter)

ObjectKey(input, c) ==
    LET Key(o) == IF o.got = "}" THEN {Ok(o.c, NoToken)} ELSE Expect(Next(input, o.c), Strings)
    IN  IF InFrame(c) THEN Then(Peek(input, c), Key) ELSE {Err(c)}

\* object_entry_sep, array_entry_sep.
EntrySep(input, c, closer) ==
    LET More(o) == {Ok(o.c, o.got # closer)} IN Then(Peek(input, c), More)

HasMore(input, c) == EntrySep(input, c, "]")

\* Mutant: the terminator is read for the frame outside.
EndContainerUnstaged(input, c, opener) ==
    LET d == [c EXCEPT !.look = NoToken]
        Closer(o) == {Ok(Leave(o.c), NoToken)}
    IN  IF ~InFrame(c) THEN {Err(c)} ELSE Then(Next(input, Pop(d)), Closer)

\* The frame goes before its terminator is read: the terminator is known
\* for what it is only because a question for more has staged it.
EndContainer(input, c, opener) ==
    LET closer == IF opener = "[" THEN "]" ELSE "}"
        Closer(o) == {Ok(Leave(o.c), NoToken)}
    IN  IF ~InFrame(c) THEN {Err(c)}
        ELSE IF TopFrame(c).kind # opener THEN {Err(Pop(c))}
        ELSE Then(Expect(Next(input, Pop(c)), {closer}), Closer)

End(input, c) == EndOfInput(input, c)
=============================================================================
