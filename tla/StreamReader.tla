---------------------------- MODULE StreamReader ----------------------------
(***************************************************************************)
(* stream.rs, StreamDecoder: the JSON reader over a std::io::Read.  Only   *)
(* the first c.avail symbols of the input have arrived.  Fill is the only  *)
(* call that reads; skip_ws and the look behind a comma are not preceded   *)
(* by one and see no further than what has arrived.                        *)
(***************************************************************************)
EXTENDS Pull

CONSTANT Chunk      (* CHUNK, in symbols: what one read delivers at most *)

\* fill(upto): reads of 1 .. Chunk symbols until upto arrived or none is left.
Fill(input, c, upto) ==
    IF c.avail >= upto THEN {c}
    ELSE IF Len(input) < upto THEN {[c EXCEPT !.avail = Len(input)]}
    ELSE {[c EXCEPT !.avail = n] : n \in {m \in upto .. upto + Chunk - 1 : m <= Len(input)}}

\* Past what has arrived there is nothing to see.
Seen(input, c, p) == IF p <= c.avail THEN input[p] ELSE "eof"

SkipBlanks(input, c) == [c EXCEPT !.pos = NextNonBlank(input, @, c.avail)]

\* How far the lexer of the symbol at p reads: a number and a literal look
\* at the byte behind them, a string and a bracket do not.
Reach(input, p) == IF At(input, p) \in Numbers \cup {"null"} THEN p + 1 ELSE p

Lex(input, c) ==
    LET d == SkipBlanks(input, c)
        s == At(input, d.pos)
    IN  {IF s \in Tokens /\ ~Glued(input, d.pos)
         THEN Ok([e EXCEPT !.pos = @ + 1], s)
         ELSE Err(e) : e \in Fill(input, d, Reach(input, d.pos))}

Next(input, c) ==
    IF c.look # NoToken THEN {Ok([c EXCEPT !.look = NoToken], c.look)}
    ELSE Lex(input, c)

Peek(input, c) ==
    LET Stage(o) == {Ok([o.c EXCEPT !.look = o.got], o.got)}
    IN  IF c.look # NoToken THEN {Ok(c, c.look)} ELSE Then(Lex(input, c), Stage)

Typed(input, c, kinds) == Expect(Next(input, c), kinds)

\* The tag of anything but null stays staged in the lookahead.
OptionTag(input, c) ==
    {IF ~o.ok THEN o
     ELSE IF o.got = "null" THEN Ok([o.c EXCEPT !.look = NoToken], TRUE)
     ELSE Ok(o.c, FALSE) : o \in Peek(input, c)}

\* skip_ws, then fill for the one byte the decision needs.
Decide(input, c) ==
    LET d == SkipBlanks(input, c) IN {Ok(e, Seen(input, e, d.pos)) : e \in Fill(input, d, d.pos)}

ObjectKey(input, c) ==
    LET Colon(o) == IF o.got = ":" THEN {Ok([o.c EXCEPT !.pos = @ + 1], NoToken)} ELSE {Err(o.c)}
        Key(o) == CASE o.got = "}" -> {o}
                    [] o.got \in Strings ->
                        {[k EXCEPT !.got = IF k.ok THEN o.got ELSE NoToken] :
                            k \in Then(Decide(input, [o.c EXCEPT !.pos = @ + 1]), Colon)}
                    [] OTHER -> {Err(o.c)}
        Named(o) == {IF o.got = "}" THEN Ok(o.c, NoToken) ELSE o}
    IN  Then(Then(Decide(input, c), Key), Named)

\* Mutant: the byte that decides is taken before it has arrived.
EntrySepUnfilled(input, c, closer) ==
    LET d == SkipBlanks(input, c)
        s == Seen(input, d, d.pos)
    IN  CASE s = ","    -> {Ok([d EXCEPT !.pos = @ + 1], TRUE)}
          [] s = closer -> {Ok(d, FALSE)}
          [] OTHER      -> {Err(d)}

\* Behind the comma the code looks, but does not fill.
EntrySep(input, c, closer) ==
    LET Sep(o) ==
            LET after == SkipBlanks(input, [o.c EXCEPT !.pos = @ + 1])
            IN  CASE o.got = "," -> {IF Seen(input, after, after.pos) = closer
                                     THEN Err(after) ELSE Ok(after, TRUE)}
                  [] o.got = closer -> {Ok(o.c, FALSE)}
                  [] OTHER -> {Err(o.c)}
    IN  Then(Decide(input, c), Sep)

HasMore(input, c) ==
    {IF o.got = "eof" THEN Err(o.c) ELSE Ok(o.c, o.got # "]") : o \in Decide(input, c)}

End(input, c) ==
    {IF o.c.look = NoToken /\ o.got = "eof" THEN Ok(o.c, NoToken) ELSE Err(o.c) :
        o \in Decide(input, c)}
=============================================================================
