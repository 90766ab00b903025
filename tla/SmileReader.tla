---------------------------- MODULE SmileReader -----------------------------
(***************************************************************************)
(* formats/smile.rs, SmileDecoder.  A byte means one thing as a value and  *)
(* another as a key: "1" a small integer, or a name of two bytes; "s1" and *)
(* "s2" a string of so many bytes, or the first and second name again; "k" *)
(* a string of two bytes, or a name of one.  "r1" and "r2" are the first   *)
(* and second string value again, "end" is the end of the content.  Short  *)
(* strings and names are kept as they are read, to be referred to.  The    *)
(* lookahead is always the byte at pos: peeking changes nothing.           *)
(***************************************************************************)
EXTENDS Wire

CONSTANT SharedLimit    (* string values kept before they are forgotten: 1024 *)

NextByte(input, c) ==
    IF At(input, c.pos) = "eof" THEN {Err(c)} ELSE {Ok(Taken(c), input[c.pos])}

PeekByte(input, c) ==
    IF At(input, c.pos) = "eof" THEN {Err(c)} ELSE {Ok(c, input[c.pos])}

Ascii == {"a", "b", "s1", "s2", "r1", "r2", "null", "empty"}

\* read_string_body: the bytes, which must be UTF-8.
TakeText(input, c, n) ==
    IF \A i \in c.pos .. c.pos + n - 1 : At(input, i) \in Ascii THEN TakeString(input, c, n)
    ELSE {Err(c)}

\* What a reference says, by its place in a table.
Resolve(c, table, i) == IF i \in DOMAIN table THEN {Ok(c, table[i])} ELSE {Err(c)}

\* Mutant: a full table goes on.
ShareBeyond(c, string) == [c EXCEPT !.values = Append(@, string)]

Share(c, string) ==
    [c EXCEPT !.values = IF Len(@) >= SharedLimit THEN <<string>> ELSE Append(@, string)]

StringLength == [s1 |-> 1, s2 |-> 2, k |-> 2]

\* read_string, of the byte that was read.
ReadString(input, c, byte) ==
    LET Kept(o) == {Ok(Share(o.c, o.got), o.got)}
    IN  CASE byte = "empty" -> {Ok(c, "b")}
          [] byte = "r1" -> Resolve(c, c.values, 1)
          [] byte = "r2" -> Resolve(c, c.values, 2)
          [] byte \in DOMAIN StringLength -> Then(TakeText(input, c, StringLength[byte]), Kept)
          [] OTHER -> {Err(c)}

NameLength == [byte \in {"k", "1"} |-> IF byte = "k" THEN 1 ELSE 2]

\* read_key, not at a closing brace.
ReadKey(input, c) ==
    LET Kept(o) == {Ok([o.c EXCEPT !.names = Append(@, o.got)], o.got)}
        Name(o) == CASE o.got = "empty" -> {Ok(o.c, "b")}
                     [] o.got = "s1" -> Resolve(o.c, o.c.names, 1)
                     [] o.got = "s2" -> Resolve(o.c, o.c.names, 2)
                     [] o.got \in DOMAIN NameLength ->
                            Then(TakeText(input, o.c, NameLength[o.got]), Kept)
                     [] OTHER -> {Err(o.c)}
    IN  Then(NextByte(input, c), Name)

\* token_for: the shape of a token.
TokenFor(byte) ==
    IF byte \in Openers \cup Closers \cup Numbers \cup {"null"} THEN byte ELSE "b"

Peek(input, c) == {IF o.ok THEN Ok(o.c, TokenFor(o.got)) ELSE o : o \in PeekByte(input, c)}

\* The container whose byte was read, by next_token or skip_value.
BeginMarked(c, opener) ==
    LET Bracket(k) == {Ok(k, opener)} IN BeginWith(Bracket, c, opener)

\* The rest of a scalar stays on the wire.
Next(input, c) ==
    LET Token(o) == IF o.got \in Openers THEN BeginMarked(o.c, o.got) ELSE {Ok(o.c, TokenFor(o.got))}
    IN  Then(NextByte(input, c), Token)

Begin(input, c, opener) ==
    LET Read(k) == NextByte(input, k) IN BeginWith(Read, c, opener)

OptionTag(input, c) ==
    LET None(o) == IF o.got = "null" THEN {IF n.ok THEN Ok(n.c, TRUE) ELSE n : n \in Next(input, c)}
                   ELSE {Ok(c, FALSE)}
    IN  Then(Peek(input, c), None)

Typed(input, c, kinds) ==
    LET Scalar(o) == IF kinds = Strings THEN ReadString(input, o.c, o.got)
                     ELSE Expect({Ok(o.c, o.got)}, kinds)
    IN  Then(NextByte(input, c), Scalar)

\* skip_value takes the bytes of a string and does not keep it.
SkipPayload(input, c, byte) ==
    CASE byte \in DOMAIN StringLength ->
            LET end == c.pos + StringLength[byte]
            IN  IF end <= Len(input) + 1 THEN {Ok([c EXCEPT !.pos = end], NoToken)} ELSE {Err(c)}
      [] byte \in {"empty", "r1", "r2"} -> ReadString(input, c, byte)
      [] byte \in Numbers \cup {"null"} -> {Ok(c, NoToken)}
      [] OTHER -> {Err(c)}

ObjectKey(input, c) ==
    LET First(o) == IF o.got = "}" THEN {Ok(c, NoToken)} ELSE ReadKey(input, c)
    IN  Then(PeekByte(input, c), First)

\* Whether the innermost container goes on.
EntrySep(input, c, closer) ==
    {IF o.ok THEN Ok(c, o.got # closer) ELSE o : o \in PeekByte(input, c)}

HasMore(input, c) == EntrySep(input, c, "]")

EndContainer(input, c, opener) ==
    LET Closer(o) == {Ok(Leave(o.c), NoToken)}
    IN  Then(Expect(NextByte(input, c), {CloserOf[opener]}), Closer)

\* One end marker may follow.
End(input, c) == EndOfInput(input, IF At(input, c.pos) = "end" THEN Taken(c) ELSE c)

\* Mutant: the names of the abandoned attempt stay.
RestoreKeepsNames(c, mark) ==
    [c EXCEPT !.pos = mark.pos, !.depth = mark.depth]

\* The mark holds how many names there were, and nothing of the values.
MarkNames(c) == [pos |-> c.pos, depth |-> c.depth, frame_len |-> Len(c.names)]

RestoreNames(c, mark) ==
    [c EXCEPT !.pos = mark.pos, !.depth = mark.depth, !.names = SubSeq(@, 1, mark.frame_len)]
=============================================================================
