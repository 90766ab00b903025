-------------------------------- MODULE Pull --------------------------------
(***************************************************************************)
(* The pull interface FormatDecoder (de.rs): what the readers of every     *)
(* format share.  An input is a sequence of symbols, each what one lexer   *)
(* call consumes: a string ("a", "b"), a number ("1"), a bracket, a byte   *)
(* of punctuation or a container header.                                   *)
(*                                                                         *)
(* A cursor is [pos, look, avail, depth, frames, pending, names, values]:  *)
(* the position of the next symbol, the lookahead token or NoToken, how    *)
(* much of the input was read from the source (everything, unless the      *)
(* source is a stream), the nesting depth and, for the binary formats, the *)
(* frames of the open containers, the frame of a header that was read and  *)
(* not yet entered, and the names and strings that may be referred to.     *)
(* A call is the set of its outcomes [ok, c, got].                         *)
(***************************************************************************)
EXTENDS Naturals, Sequences, FiniteSets

CONSTANT MaxDepth       (* DecodeConfig::max_depth *)

ASSUME PullAssumption == MaxDepth \in Nat

Strings == {"a", "b"}

Numbers == {"1"}

Openers == {"{", "["}

Closers == {"}", "]"}

CloserOf == [opener \in Openers |-> IF opener = "{" THEN "}" ELSE "]"]

Tokens == Strings \cup Numbers \cup Openers \cup Closers \cup {"null"}

NoToken == "none"

\* The symbol at p; "eof" past the end.
At(input, p) == IF p <= Len(input) THEN input[p] ELSE "eof"

-----------------------------------------------------------------------------
Ok(c, got) == [ok |-> TRUE, c |-> c, got |-> got]

Err(c) == [ok |-> FALSE, c |-> c, got |-> NoToken]

\* The ? operator: go on from every outcome that is Ok.
Then(outcomes, Op(_)) == UNION {IF o.ok THEN Op(o) ELSE {o} : o \in outcomes}

\* A token of another kind is consumed before it is refused.
Expect(outcomes, kinds) ==
    {IF o.ok /\ o.got \notin kinds THEN Err(o.c) ELSE o : o \in outcomes}

\* A frame counts the entries left, or is open until its terminator; a type
\* is one that all the elements share.
NoFrame == [kind |-> NoToken, left |-> 0, open |-> FALSE, type |-> NoToken]

Cursor(avail) ==
    [pos |-> 1, look |-> NoToken, avail |-> avail, depth |-> 0,
     frames |-> <<>>, pending |-> NoFrame, names |-> <<>>, values |-> <<>>]

Marks == [pos : Nat, depth : Nat, frame_len : Nat]

Save(c) == [pos |-> c.pos, depth |-> c.depth, frame_len |-> Len(c.frames)]

\* Mutant: the depth is left as the abandoned attempt had it.
RestoreKeepsDepth(c, mark) ==
    [c EXCEPT !.pos = mark.pos, !.look = NoToken, !.pending = NoFrame,
              !.frames = SubSeq(@, 1, mark.frame_len)]

\* Mutant: the frames of the abandoned attempt stay.
RestoreKeepsFrames(c, mark) ==
    [c EXCEPT !.pos = mark.pos, !.look = NoToken, !.pending = NoFrame, !.depth = mark.depth]

Restore(c, mark) ==
    [c EXCEPT !.pos = mark.pos, !.look = NoToken, !.pending = NoFrame, !.depth = mark.depth,
              !.frames = SubSeq(@, 1, mark.frame_len)]

-----------------------------------------------------------------------------
(* Containers: the depth is charged before the bracket is read.            *)

\* Mutant: the limit is compared after the fact.
MayEnterOneMore(depth) == depth <= MaxDepth

MayEnter(depth) == depth < MaxDepth

BeginWith(Next(_), c, opener) ==
    IF MayEnter(c.depth) THEN Expect(Next([c EXCEPT !.depth = @ + 1]), {opener})
    ELSE {Err(c)}

GiveBack(depth) == IF depth = 0 THEN 0 ELSE depth - 1

-----------------------------------------------------------------------------
(* What the JSON readers of nextjson share: symbols that include the       *)
(* punctuation and single whitespace bytes ("_").  A string, a run of      *)
(* digits and the literal null are one symbol each; how their bytes are    *)
(* told apart is the subject of module JsonLexer.                          *)

Blank == "_"

Symbols == Tokens \cup {",", ":", Blank}

\* The first symbol from p on that is not blank, looking no further than limit.
NextNonBlank(input, p, limit) ==
    CHOOSE q \in p .. limit + 1 :
        /\ \A i \in p .. q - 1 : input[i] = Blank
        /\ q <= limit => input[q] # Blank

\* A literal may not run into another word.
Glued(input, p) == At(input, p) = "null" /\ At(input, p + 1) \in Numbers \cup {"null"}

\* The depth is given back after the bracket is read, whatever token was
\* there; a reader that fails to produce a token returns before that.
EndWith(Next(_), c, closer) ==
    LET Left(o) == {[o EXCEPT !.c.depth = GiveBack(@)]}
    IN  Expect(Then(Next(c), Left), {closer})

-----------------------------------------------------------------------------
(* Inputs for the readers: documents, and everything one edit of a symbol  *)
(* away from one; and the punctuation of JSON for what they stand for.     *)

Edits(s, cells) ==
    {SubSeq(s, 1, i - 1) \o SubSeq(s, i + 1, Len(s)) : i \in 1 .. Len(s)}
        \cup {[s EXCEPT ![i] = x] : i \in 1 .. Len(s), x \in cells}
        \cup {SubSeq(s, 1, i) \o <<x>> \o SubSeq(s, i + 1, Len(s)) : i \in 0 .. Len(s), x \in cells}

Edited(documents, cells) == documents \cup UNION {Edits(s, cells) : s \in documents}

\* More entries behind one, up to the closing bracket.
Listed(rest) == IF Len(rest) = 1 THEN rest ELSE <<",">> \o rest
=============================================================================
