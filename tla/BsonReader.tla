----------------------------- MODULE BsonReader -----------------------------
(***************************************************************************)
(* formats/bson.rs, BsonDecoder.  A document is its length ("#5", five     *)
(* cells), elements, and a terminator ("end").  An element is three cells: *)
(* a type, a name, and the value, a document for the types "{" and "[" and *)
(* no cell at all for "null".  pending_type is the pending of the cursor;  *)
(* a frame's left is where its document ends.                              *)
(***************************************************************************)
EXTENDS Wire

Spans == <<"#1", "#2", "#3", "#4", "#5", "#6", "#7", "#8", "#9", "#10", "#11", "#12", "#13",
           "#14", "#15", "#16", "#17", "#18", "#19", "#20", "#21", "#22", "#23", "#24">>

SpanOf(cell) == {n \in 1 .. Len(Spans) : Spans[n] = cell}

PayloadOf == [number |-> Numbers, string |-> Strings]

\* Behind the length, with where the document ends.
ReadDocHeader(input, c) ==
    LET n == SpanOf(At(input, c.pos)) \ {1}
    IN  IF n = {} THEN {Err(c)} ELSE {Ok(Taken(c), c.pos + m) : m \in n}

\* A root document is an array when its first name is 0, and an empty one
\* is not.
Classify(input, c) ==
    LET Root(o) ==
            CASE At(input, o.c.pos) = "end" -> {Ok(c, "{")}
              [] At(input, o.c.pos + 1) = "eof" -> {Err(c)}
              [] OTHER -> {Ok(c, IF At(input, o.c.pos + 1) = "0" THEN "[" ELSE "{")}
    IN  Then(ReadDocHeader(input, c), Root)

\* A type byte and a name.
ReadElement(input, c) ==
    IF At(input, c.pos + 1) = "eof" THEN {Err(c)}
    ELSE {Ok([c EXCEPT !.pos = @ + 2], input[c.pos])}

NextType(input, c) ==
    CASE c.pending # NoFrame -> {Ok([c EXCEPT !.pending = NoFrame], c.pending.kind)}
      [] c.pending = NoFrame /\ InFrame(c) /\ TopFrame(c).kind = "[" -> ReadElement(input, c)
      [] OTHER -> {Err(c)}

ReadToken(input, c) ==
    LET Value(o) ==
            CASE o.got \in Openers \cup {"null"} -> {o}
              [] o.got \in DOMAIN PayloadOf ->
                    IF At(input, o.c.pos) \in PayloadOf[o.got]
                    THEN {Ok(Taken(o.c), input[o.c.pos])} ELSE {Err(o.c)}
              [] OTHER -> {Err(o.c)}
    IN  IF c.frames = <<>> /\ c.pending = NoFrame THEN Classify(input, c)
        ELSE Then(NextType(input, c), Value)

Next(input, c) == LET Read(k) == ReadToken(input, k) IN NextWith(Read, c)

Peek(input, c) == LET Read(k) == ReadToken(input, k) IN PeekWith(Read, c)

OptionTag(input, c) == LET Read(k) == ReadToken(input, k) IN TagWith(Read, c)

\* unit, number, string.
Typed(input, c, kinds) == Expect(Next(input, c), kinds)

Begin(input, c, opener) ==
    LET Read(k) == Next(input, k)
        Header(o) == ReadDocHeader(input, o.c)
        Enter(o) == {Ok(Push(o.c, [NoFrame EXCEPT !.kind = opener, !.left = o.got]), opener)}
    IN  Then(Then(BeginWith(Read, c, opener), Header), Enter)

\* The type of the entry is kept for the call that reads its value.
ObjectKey(input, c) ==
    LET Key(o) == {Ok([o.c EXCEPT !.pending = [NoFrame EXCEPT !.kind = o.got]],
                      input[o.c.pos - 1])}
    IN  CASE At(input, c.pos) = "eof" -> {Err(c)}
          [] At(input, c.pos) = "end" -> {Ok(c, NoToken)}
          [] OTHER -> Then(ReadElement(input, c), Key)

\* array_has_more and both separators: the terminator ends the document.
HasMore(input, c) ==
    IF At(input, c.pos) = "eof" THEN {Err(c)} ELSE {Ok(c, At(input, c.pos) # "end")}

EntrySep(input, c, closer) == HasMore(input, c)

\* Mutant: the declared length is not compared.
EndContainerAnywhere(input, c, opener) ==
    IF InFrame(c) /\ TopFrame(c).kind = opener /\ At(input, c.pos) = "end"
    THEN {Ok(Leave(Taken(Pop(c))), NoToken)} ELSE {Err(c)}

EndContainer(input, c, opener) ==
    CASE ~InFrame(c) -> {Err(c)}
      [] InFrame(c) /\ (TopFrame(c).kind # opener \/ At(input, c.pos) # "end"
                            \/ c.pos + 1 # TopFrame(c).left) -> {Err(Pop(c))}
      [] OTHER -> {Ok(Leave(Taken(Pop(c))), NoToken)}

End(input, c) == EndOfInput(input, c)
=============================================================================
