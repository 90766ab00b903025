---------------------------- MODULE UbjsonReader ----------------------------
(***************************************************************************)
(* formats/ubjson.rs, UbjsonDecoder.  A value is a marker and a payload;   *)
(* of the integers "U" stands for them all, as a value and as a length.  A *)
(* container may carry a count ("#"), and then has no end marker, and a    *)
(* type ("$"), and then the elements of an array have no markers.  The     *)
(* lookahead is always the byte at pos: peeking changes nothing.           *)
(***************************************************************************)
EXTENDS Wire

NextByte(input, c) ==
    IF At(input, c.pos) = "eof" THEN {Err(c)} ELSE {Ok(Taken(c), input[c.pos])}

PeekByte(input, c) ==
    IF At(input, c.pos) = "eof" THEN {Err(c)} ELSE {Ok(c, input[c.pos])}

\* Behind the no-ops.
SkipNoOps(input, c) ==
    LET rest == {p \in c.pos .. Len(input) : input[p] # "N"} \cup {Len(input) + 1}
    IN  IF At(input, c.pos) # "N" THEN c
        ELSE [c EXCEPT !.pos = CHOOSE p \in rest : \A q \in rest : p <= q]

IsTyped(c) == InFrame(c) /\ TopFrame(c).type # NoToken

\* The marker of an element of a typed array is not on the wire.
ValueMarker(input, c) ==
    IF IsTyped(c) /\ TopFrame(c).kind = "[" THEN {Ok(c, TopFrame(c).type)}
    ELSE NextByte(input, SkipNoOps(input, c))

ReadLength(input, c) ==
    IF At(input, c.pos) = "U" /\ At(input, c.pos + 1) # "eof"
    THEN {Ok([c EXCEPT !.pos = @ + 2], CountOf(input[c.pos + 1]))} ELSE {Err(c)}

ReadKey(input, c) ==
    LET Text(o) == TakeString(input, o.c, o.got) IN Then(ReadLength(input, c), Text)

\* parse_container_header: what the parameters from p on come to, in any
\* order, the last of a kind counting; and where they end.
ParseHeader(input) ==
    LET Typed(r, type) == IF r.type = NoToken THEN [r EXCEPT !.type = type] ELSE r
        Sized(r, count) == IF r.open THEN [r EXCEPT !.left = count, !.open = FALSE] ELSE r
        Bare(ok, p) == [ok |-> ok, pos |-> p, type |-> NoToken, left |-> 0, open |-> TRUE]
        header[p \in 1 .. Len(input) + 1] ==
            CASE At(input, p) = "$" -> IF At(input, p + 1) = "eof" THEN Bare(FALSE, p + 1)
                                       ELSE Typed(header[p + 2], input[p + 1])
              [] At(input, p) = "#" -> IF At(input, p + 1) # "U" \/ At(input, p + 2) = "eof"
                                       THEN Bare(FALSE, p + 1)
                                       ELSE Sized(header[p + 3], CountOf(input[p + 2]))
              [] OTHER -> Bare(At(input, p) # "eof", p)
    IN  header

EnterHeader(input, c, opener) ==
    LET h == ParseHeader(input)[c.pos]
        d == [c EXCEPT !.pos = h.pos]
    IN  IF ~h.ok THEN {Err(d)}
        ELSE {Ok(Push(d, [kind |-> opener, left |-> h.left, open |-> h.open, type |-> h.type]),
                 opener)}

Begin(input, c, opener) ==
    LET Read(k) == NextByte(input, k)
        Enter(o) == EnterHeader(input, o.c, opener)
    IN  Then(BeginWith(Read, c, opener), Enter)

\* The container whose marker was read, by next_token or skip_value.
BeginMarked(input, c, opener) ==
    LET Bracket(k) == {Ok(k, opener)}
        Enter(o) == EnterHeader(input, o.c, opener)
    IN  Then(BeginWith(Bracket, c, opener), Enter)

\* marker_token: the shape of a token, whatever its payload.
MarkerToken(byte) ==
    CASE byte = "Z" -> "null"
      [] byte = "U" -> "1"
      [] byte \in Openers \cup Closers -> byte
      [] OTHER -> "b"

\* A byte that reads as one of these markers is taken for it, also where it
\* is the payload of a typed element.
Peek(input, c) ==
    {IF o.ok THEN Ok(o.c, MarkerToken(IF o.got \notin {"Z", "[", "{"} /\ IsTyped(c)
                                      THEN TopFrame(c).type ELSE o.got))
     ELSE o : o \in PeekByte(input, c)}

\* The payload of a scalar stays on the wire.
Next(input, c) ==
    LET Token(o) == IF o.got \in Openers THEN BeginMarked(input, o.c, o.got)
                    ELSE {Ok(o.c, MarkerToken(o.got))}
    IN  Then(ValueMarker(input, c), Token)

OptionTag(input, c) ==
    LET None(o) == IF o.got = "null" THEN {IF n.ok THEN Ok(n.c, TRUE) ELSE n : n \in Next(input, c)}
                   ELSE {Ok(c, FALSE)}
    IN  Then(Peek(input, c), None)

Typed(input, c, kinds) ==
    LET Payload(o) ==
            CASE kinds = {"null"} /\ o.got = "Z" -> {Ok(o.c, "null")}
              [] kinds = Numbers /\ o.got = "U" -> TakeNumber(input, o.c)
              [] kinds = Strings /\ o.got = "S" -> ReadKey(input, o.c)
              [] OTHER -> {Err(o.c)}
    IN  Then(ValueMarker(input, c), Payload)

\* skip_value: by the marker, and then the payload of that marker.
SkipPayload(input, c, marker) ==
    CASE marker \in {"Z", "N"} -> {Ok(c, NoToken)}
      [] marker = "U" -> TakeNumber(input, c)
      [] marker = "S" -> ReadKey(input, c)
      [] OTHER -> {Err(c)}

\* A closing brace ends a counted object too, entries left or not.
ObjectKey(input, c) ==
    LET counted == InFrame(c) /\ ~TopFrame(c).open
        Key(o) == {Ok(IF counted THEN CountDown(o.c) ELSE o.c, o.got)}
        First(o) == IF o.got = "}" THEN {Ok(c, NoToken)} ELSE Then(ReadKey(input, c), Key)
    IN  CASE ~InFrame(c) -> {Err(c)}
          [] counted /\ TopFrame(c).left = 0 -> {Ok(c, NoToken)}
          [] OTHER -> Then(PeekByte(input, c), First)

\* Whether the innermost container goes on.
GoesOn(input, c, closer) ==
    IF InFrame(c) /\ ~TopFrame(c).open THEN {Ok(c, TopFrame(c).left > 0)}
    ELSE {IF o.ok THEN Ok(c, o.got # closer) ELSE o : o \in PeekByte(input, c)}

HasMore(input, c) == IF InFrame(c) THEN GoesOn(input, c, "]") ELSE {Err(c)}

\* Mutant: the element of a counted array is not counted.
EntrySepUncounted(input, c, closer) == GoesOn(input, c, closer)

EntrySep(input, c, closer) ==
    GoesOn(input, IF closer = "]" /\ InFrame(c) /\ ~TopFrame(c).open /\ TopFrame(c).left > 0
                  THEN CountDown(c) ELSE c, closer)

\* A counted container has no end marker.
EndContainer(input, c, opener) ==
    LET closer == IF opener = "[" THEN "]" ELSE "}"
        Closer(o) == {Ok(Leave(o.c), NoToken)}
    IN  CASE ~InFrame(c) -> {Err(c)}
          [] InFrame(c) /\ TopFrame(c).kind # opener -> {Err(Pop(c))}
          [] InFrame(c) /\ TopFrame(c).kind = opener /\ ~TopFrame(c).open ->
                {Ok(Leave(Pop(c)), NoToken)}
          [] OTHER -> Then(Expect(NextByte(input, Pop(c)), {closer}), Closer)

End(input, c) == EndOfInput(input, SkipNoOps(input, c))
=============================================================================
