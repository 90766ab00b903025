----------------------------- MODULE TreeReader -----------------------------
(***************************************************************************)
(* de.rs, TreeReader: the reader over tokens that were buffered before     *)
(* (tagged and flattened content, map keys).  There are no separators, and *)
(* a peeked token is still at pos.                                         *)
(***************************************************************************)
EXTENDS Pull

Next(input, c) ==
    IF c.look # NoToken THEN {Ok([c EXCEPT !.look = NoToken, !.pos = @ + 1], c.look)}
    ELSE IF c.pos > Len(input) THEN {Err(c)}
    ELSE {Ok([c EXCEPT !.pos = @ + 1], input[c.pos])}

Peek(input, c) ==
    IF c.look # NoToken THEN {Ok(c, c.look)}
    ELSE IF c.pos > Len(input) THEN {Err(c)}
    ELSE {Ok([c EXCEPT !.look = input[c.pos]], input[c.pos])}

Typed(input, c, kinds) == Expect(Next(input, c), kinds)

OptionTag(input, c) ==
    LET Tag(o) == IF o.got = "null"
                  THEN {Ok(n.c, TRUE) : n \in Next(input, o.c)}
                  ELSE {Ok(o.c, FALSE)}
    IN  Then(Peek(input, c), Tag)

ObjectKey(input, c) ==
    LET Key(o) == IF o.got = "}" THEN {Ok(o.c, NoToken)}
                  ELSE Expect(Next(input, o.c), Strings)
    IN  Then(Peek(input, c), Key)

\* Mutant: the end of the container is consumed with the question.
EntrySepConsumes(input, c, closer) ==
    LET More(o) == {Ok(o.c, o.got # closer)} IN Then(Next(input, c), More)

\* object_entry_sep, array_entry_sep: there are entries until the closer.
EntrySep(input, c, closer) ==
    LET More(o) == {Ok(o.c, o.got # closer)} IN Then(Peek(input, c), More)

HasMore(input, c) == EntrySep(input, c, "]")

End(input, c) ==
    IF c.look = NoToken /\ c.pos = Len(input) + 1 THEN {Ok(c, NoToken)} ELSE {Err(c)}
=============================================================================
