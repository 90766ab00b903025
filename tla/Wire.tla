-------------------------------- MODULE Wire --------------------------------
(***************************************************************************)
(* What the binary readers share (formats/bin.rs, Cursor): an input of     *)
(* cells.  A cell is a whole scalar with its header ("1", "a", "null"), a  *)
(* container header with its count ("[2" an array of two, "{1" a map of    *)
(* one entry), an indefinite or delimited container ("[*", "{*") or its    *)
(* terminator ("end"), a semantic tag ("tag", whose number is the next     *)
(* byte), or a type the codec does not read ("bin").  BSON, UBJSON and     *)
(* Postcard have cells of their own.                                       *)
(***************************************************************************)
EXTENDS Pull

Counted ==
    [cell \in {"[0", "[1", "[2", "{0", "{1", "{2"} |->
        [NoFrame EXCEPT !.kind = IF cell \in {"[0", "[1", "[2"} THEN "[" ELSE "{",
                        !.left = CASE cell \in {"[0", "{0"} -> 0
                                   [] cell \in {"[1", "{1"} -> 1
                                   [] cell \in {"[2", "{2"} -> 2]]

Delimited ==
    [cell \in {"[*", "{*"} |->
        [NoFrame EXCEPT !.kind = IF cell = "[*" THEN "[" ELSE "{", !.open = TRUE]]

Scalars == Strings \cup Numbers \cup {"null"}

Cells == DOMAIN Counted \cup DOMAIN Delimited \cup Scalars \cup {"end", "tag", "bin"}

\* Behind the cell at pos.
Taken(c) == [c EXCEPT !.pos = @ + 1]

InFrame(c) == c.frames # <<>>

TopFrame(c) == c.frames[Len(c.frames)]

Push(c, frame) == [c EXCEPT !.frames = Append(@, frame), !.pending = NoFrame]

Pop(c) == [c EXCEPT !.frames = SubSeq(@, 1, Len(@) - 1)]

\* One entry of the innermost container is taken.
CountDown(c) == [c EXCEPT !.frames[Len(c.frames)].left = @ - 1]

Leave(c) == [c EXCEPT !.depth = GiveBack(@)]

\* take_pending: the header that next_token read becomes a frame.
EnterPending(c, opener) ==
    IF c.pending.kind = opener THEN {Ok(Push(c, c.pending), opener)}
    ELSE {Err([c EXCEPT !.pending = NoFrame])}

\* The lookahead, or the token at pos.
NextWith(Read(_), c) ==
    IF c.look # NoToken THEN {Ok([c EXCEPT !.look = NoToken], c.look)} ELSE Read(c)

PeekWith(Read(_), c) ==
    LET Stage(o) == {Ok([o.c EXCEPT !.look = o.got], o.got)}
    IN  IF c.look # NoToken THEN {Ok(c, c.look)} ELSE Then(Read(c), Stage)

\* option_tag's default: null is consumed, anything else stays staged.
TagWith(Read(_), c) ==
    {IF ~o.ok THEN o
     ELSE IF o.got = "null" THEN Ok([o.c EXCEPT !.look = NoToken], TRUE)
     ELSE Ok(o.c, FALSE) : o \in PeekWith(Read, c)}

\* expect_end: nothing staged, nothing open, nothing left.
EndOfInput(input, c) ==
    IF c.look = NoToken /\ c.frames = <<>> /\ c.pos = Len(input) + 1
    THEN {Ok(c, NoToken)} ELSE {Err(c)}

-----------------------------------------------------------------------------
(* An input of bytes (formats/bin.rs, Cursor).  The bytes told apart are   *)
(* the markers, the letters of keys and strings, and the counts "0", "1"   *)
(* and "2"; every byte is also a number and a count.                       *)

\* Any other byte counts more than an input holds.
CountOf(byte) ==
    CASE byte = "0" -> 0 [] byte = "1" -> 1 [] byte = "2" -> 2 [] OTHER -> 99

\* Cursor::take, of the bytes of a string: one letter, or another string.
TakeString(input, c, n) ==
    IF c.pos + n <= Len(input) + 1
    THEN {Ok([c EXCEPT !.pos = @ + n], IF n = 1 /\ input[c.pos] = "a" THEN "a" ELSE "b")}
    ELSE {Err(c)}

\* Cursor::byte, taken as a number.
TakeNumber(input, c) == IF At(input, c.pos) = "eof" THEN {Err(c)} ELSE {Ok(Taken(c), "1")}
=============================================================================
