--------------------------- MODULE PostcardReader ---------------------------
(***************************************************************************)
(* formats/postcard.rs, PostcardDecoder.  The wire says nothing of types:  *)
(* what the caller asks for is what the bytes are taken as, and what looks *)
(* ahead is refused.  A varint of more bytes than one is Varint's.         *)
(***************************************************************************)
EXTENDS Wire

\* next_token, peek_token, skip_value, and the default option_tag.
NotSelfDescribing(c) == {Err(c)}

ReadCount(input, c) ==
    IF At(input, c.pos) = "eof" THEN {Err(c)} ELSE {Ok(Taken(c), CountOf(input[c.pos]))}

ReadStr(input, c) ==
    LET Text(o) == TakeString(input, o.c, o.got) IN Then(ReadCount(input, c), Text)

Typed(input, c, kinds) ==
    CASE kinds = {"null"}  -> IF At(input, c.pos) = "0" THEN {Ok(Taken(c), "null")} ELSE {Err(c)}
      [] kinds = Numbers   -> TakeNumber(input, c)
      [] kinds = Strings   -> ReadStr(input, c)

\* Nothing on the wire tells a map from a sequence.
Begin(input, c, opener) ==
    LET Bracket(k) == {Ok(k, opener)}
        Count(o) == ReadCount(input, o.c)
        Enter(o) == {Ok(Push(o.c, [NoFrame EXCEPT !.kind = opener, !.left = o.got]), opener)}
    IN  Then(Then(BeginWith(Bracket, c, opener), Count), Enter)

\* Mutant: the entry is not counted.
ObjectKeyUncounted(input, c) ==
    IF InFrame(c) /\ TopFrame(c).left > 0 THEN ReadStr(input, c) ELSE {Ok(c, NoToken)}

\* object_key, map_key: the entry is counted before its key is read.
ObjectKey(input, c) ==
    CASE ~InFrame(c) -> {Err(c)}
      [] InFrame(c) /\ TopFrame(c).left = 0 -> {Ok(c, NoToken)}
      [] OTHER -> ReadStr(input, CountDown(c))

HasLeft(c, kind) == InFrame(c) /\ TopFrame(c).kind = kind /\ TopFrame(c).left > 0

HasMore(input, c) == {Ok(c, HasLeft(c, "["))}

EntrySep(input, c, closer) ==
    IF closer = "}" THEN {Ok(c, HasLeft(c, "{"))}
    ELSE HasMore(input, IF HasLeft(c, "[") THEN CountDown(c) ELSE c)

EndContainer(input, c, opener) ==
    CASE ~InFrame(c) -> {Err(c)}
      [] InFrame(c) /\ (TopFrame(c).kind # opener \/ TopFrame(c).left # 0) -> {Err(Pop(c))}
      [] OTHER -> {Ok(Leave(Pop(c)), NoToken)}

End(input, c) == EndOfInput(input, c)
=============================================================================
