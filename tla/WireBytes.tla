----------------------------- MODULE WireBytes ------------------------------
(***************************************************************************)
(* What the binary encoders share: a buffer of bytes, patch_prefix of      *)
(* formats/bin.rs, and the open containers of the codecs that write the    *)
(* number of entries in front of them.                                     *)
(*                                                                         *)
(* A byte is [b |-> what it is, w |-> the width of the header it begins,   *)
(* or its place in one, n |-> a count or a digit].  A whole scalar, key or *)
(* name is one byte: no encoder looks inside one again.                    *)
(***************************************************************************)
EXTENDS Integers, Sequences, SequencesExt

CONSTANTS
    FixMax,     (* the largest count that fits into the first byte        *)
    U8Max,      (* the largest counts of one, two and four bytes          *)
    U16Max,
    U32Max

Byte(b, w, n) == [b |-> b, w |-> w, n |-> n]

Plain(b) == Byte(b, 1, 0)

\* A count in a header of w bytes; the first has room for a small one only.
Sized(kind, count, w) ==
    IF w = 1 THEN <<Byte(kind, 1, count)>>
    ELSE <<Byte(kind, w, 0)>> \o [i \in 1 .. w - 1 |-> Byte("count", i, count)]

-----------------------------------------------------------------------------
\* Mutant: a wider header is written over the payload.
PatchPrefixOver(buf, start, header) ==
    [i \in 1 .. Len(buf) |->
        IF i \in start .. start + Len(header) - 1 THEN header[i - start + 1] ELSE buf[i]]

\* The header takes the place of the byte at start; what follows that byte
\* moves up by as much as the header is wider.
PatchPrefix(buf, start, header) ==
    LET extra == Len(header) - 1
    IN  [i \in 1 .. Len(buf) + extra |->
            IF i < start THEN buf[i]
            ELSE IF i <= start + extra THEN header[i - start + 1]
            ELSE buf[i - extra]]

-----------------------------------------------------------------------------
(* Outcomes and frames.                                                    *)

Done(e) == [ok |-> TRUE, e |-> e]

Refused(e) == [ok |-> FALSE, e |-> e]

NewEncoder == [buf |-> <<>>, frames |-> <<>>]

Push(e, bytes) == [e EXCEPT !.buf = @ \o bytes]

\* Mutant: the frame is made after the placeholder.
OpenCountedLate(e, kind, placeholder) ==
    Push([e EXCEPT !.frames = Append(@, [kind |-> kind, start |-> Len(e.buf) + 2, count |-> 0])],
         <<placeholder>>)

\* begin_*: the frame remembers where its one-byte placeholder is.
OpenCounted(e, kind, placeholder) ==
    Push([e EXCEPT !.frames = Append(@, [kind |-> kind, start |-> Len(e.buf) + 1, count |-> 0])],
         <<placeholder>>)

\* One more entry of the innermost container, if there is one.
CountEntry(e) ==
    IF e.frames = <<>> THEN e ELSE [e EXCEPT !.frames[Len(e.frames)].count = @ + 1]

PopFrame(e) == [e EXCEPT !.frames = Front(@)]

Patch(e, start, header) == [e EXCEPT !.buf = PatchPrefix(@, start, header)]
=============================================================================
