---------------------------- MODULE BytesReader -----------------------------
(***************************************************************************)
(* de.rs, BytesReader: the JSON reader over an input that is all in        *)
(* memory.  Every call has one outcome.                                    *)
(***************************************************************************)
EXTENDS Pull

SkipBlanks(input, c) == [c EXCEPT !.pos = NextNonBlank(input, @, Len(input))]

Lex(input, c) ==
    LET d == SkipBlanks(input, c)
        s == At(input, d.pos)
    IN  IF s \in Tokens /\ ~Glued(input, d.pos)
        THEN {Ok([d EXCEPT !.pos = @ + 1], s)}
        ELSE {Err(d)}

Next(input, c) ==
    IF c.look # NoToken THEN {Ok([c EXCEPT !.look = NoToken], c.look)}
    ELSE Lex(input, c)

\* The token stays in the lookahead; the position is already behind it.
Peek(input, c) ==
    LET Stage(o) == {Ok([o.c EXCEPT !.look = o.got], o.got)}
    IN  IF c.look # NoToken THEN {Ok(c, c.look)} ELSE Then(Lex(input, c), Stage)

\* unit, bool, number, string: the byte dispatch and the token dispatch
\* accept the same tokens.
Typed(input, c, kinds) == Expect(Next(input, c), kinds)

\* Whether the value is None; without a lookahead nothing but null is consumed.
OptionTag(input, c) ==
    LET d == SkipBlanks(input, c)
    IN  CASE c.look = "null" -> {Ok([c EXCEPT !.look = NoToken], TRUE)}
          [] c.look \notin {"null", NoToken} -> {Ok(c, FALSE)}
          [] OTHER -> IF At(input, d.pos) # "null" THEN {Ok(d, FALSE)}
                      ELSE IF Glued(input, d.pos) THEN {Err(d)}
                      ELSE {Ok([d EXCEPT !.pos = @ + 1], TRUE)}

\* A key and its colon; NoToken at the closing brace, which stays.
ObjectKey(input, c) ==
    LET d == SkipBlanks(input, c)
        s == At(input, d.pos)
        colon == SkipBlanks(input, [d EXCEPT !.pos = @ + 1])
    IN  CASE s = "}" -> {Ok(d, NoToken)}
          [] s \in Strings /\ At(input, colon.pos) = ":" ->
                {Ok([colon EXCEPT !.pos = @ + 1], s)}
          [] s \in Strings /\ At(input, colon.pos) # ":" -> {Err(colon)}
          [] OTHER -> {Err(d)}

\* Mutant: the closer is accepted right after the comma.
EntrySepTrailing(input, c, closer) ==
    LET d == SkipBlanks(input, c)
        s == At(input, d.pos)
    IN  CASE s = ","    -> {Ok(SkipBlanks(input, [d EXCEPT !.pos = @ + 1]), TRUE)}
          [] s = closer -> {Ok(d, FALSE)}
          [] OTHER      -> {Err(d)}

\* object_entry_sep and array_entry_sep: a comma that is not followed by
\* the closer, or the closer, which stays.
EntrySep(input, c, closer) ==
    LET d == SkipBlanks(input, c)
        s == At(input, d.pos)
        after == SkipBlanks(input, [d EXCEPT !.pos = @ + 1])
    IN  CASE s = "," -> {IF At(input, after.pos) = closer THEN Err(after) ELSE Ok(after, TRUE)}
          [] s = closer -> {Ok(d, FALSE)}
          [] OTHER -> {Err(d)}

HasMore(input, c) ==
    LET d == SkipBlanks(input, c)
        s == At(input, d.pos)
    IN  IF s = "eof" THEN {Err(d)} ELSE {Ok(d, s # "]")}

End(input, c) ==
    LET d == SkipBlanks(input, c)
    IN  IF d.look = NoToken /\ d.pos = Len(input) + 1 THEN {Ok(d, NoToken)} ELSE {Err(d)}
=============================================================================
