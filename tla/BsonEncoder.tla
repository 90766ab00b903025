---------------------------- MODULE BsonEncoder -----------------------------
(***************************************************************************)
(* formats/bson.rs, BsonEncoder.  An element is a type, a name and a value *)
(* and the name comes first: key and separator leave a blank type byte     *)
(* that the value fills in.  A document begins with its length, filled in  *)
(* at its end; its four bytes are one here.                                *)
(***************************************************************************)
EXTENDS WireBytes

CONSTANT DocumentMax    (* the largest length: 2^31 - 1 in the code        *)

NewBson == [buf |-> <<>>, frames |-> <<>>, pending |-> 0, root |-> FALSE]

Blank == Plain("blank")

NoLength == Byte("length", 1, 0)

Set(e, at, byte) == [e EXCEPT !.buf[at] = byte]

\* Mutant: the position of the blank is kept.
ElementStartKeeps(e, type) ==
    IF e.pending = 0 THEN Refused(e) ELSE Done(Set(e, e.pending, Plain(type)))

\* element_start: the type goes where the blank is; at the root and without
\* a name there is none.
ElementStart(e, type) ==
    IF e.pending = 0 THEN Refused(e)
    ELSE Done([Set(e, e.pending, Plain(type)) EXCEPT !.pending = 0])

Frame(e, kind) == [kind |-> kind, start |-> Len(e.buf) + 1, next |-> 0]

\* begin_doc.
Begin(e, kind) ==
    LET r == IF e.frames # <<>> THEN ElementStart(e, kind)
             ELSE IF e.root THEN Refused(e) ELSE Done([e EXCEPT !.root = TRUE])
    IN  IF ~r.ok THEN r
        ELSE Done(Push([r.e EXCEPT !.frames = Append(@, Frame(r.e, kind))], <<NoLength>>))

\* Mutant: the position of the name.
NamedBehind(e, name) == Push([e EXCEPT !.pending = Len(e.buf) + 2], <<Blank, name>>)

\* A blank type and the name behind it.
Named(e, name) == Push([e EXCEPT !.pending = Len(e.buf) + 1], <<Blank, name>>)

Innermost(e, kind) == e.frames # <<>> /\ Last(e.frames).kind = kind

Separator(e) ==
    LET n == Len(e.frames)
    IN  IF e.pending # 0 \/ ~Innermost(e, "array") THEN Refused(e)
        ELSE Done(Named([e EXCEPT !.frames[n].next = @ + 1],
                        Byte("index", 1, e.frames[n].next)))

\* A name ends at its NUL, so a key may not contain one.
Key(e, key) ==
    IF key = "nul" \/ ~Innermost(e, "object") \/ e.pending # 0 THEN Refused(e)
    ELSE Done(Named(e, Plain(key)))

\* Mutant: the length is of what was written before the terminator.
LengthUnterminated(e) == Len(e.buf) - Last(e.frames).start + 1

\* The length of the innermost document, with its own bytes and terminator.
Length(e) == Len(e.buf) - Last(e.frames).start + 2

\* end_doc.
End(e, kind) ==
    IF e.pending # 0 \/ ~Innermost(e, kind) \/ Length(e) > DocumentMax THEN Refused(e)
    ELSE Done(Set(Push(PopFrame(e), <<Plain("end")>>),
                  Last(e.frames).start, Byte("length", 1, Length(e))))

\* What has no representation is refused before the blank is filled.
Scalar(e, call) ==
    LET r == ElementStart(e, call)
    IN  IF call \in {"wide", "widest", "nan"} THEN Refused(e)
        ELSE IF ~r.ok \/ call = "null" THEN r
        ELSE Done(Push(r.e, <<Plain(call)>>))

\* validate_finished.
Finish(e) == IF e.root /\ e.frames = <<>> /\ e.pending = 0 THEN Done(e) ELSE Refused(e)
=============================================================================
