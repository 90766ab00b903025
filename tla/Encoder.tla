------------------------------ MODULE Encoder -------------------------------
(***************************************************************************)
(* The JSON encoder of ser.rs, Encoder<W, VALIDATE>, without its           *)
(* indentation: the frames it keeps, the checks the validating policy      *)
(* makes and the tokens it emits.                                          *)
(*                                                                         *)
(* An encoder state e is [frames, root] with frames of                     *)
(* [kind, due, first]: ready / pending_value are due, as in EventState.    *)
(* start_value repeats EventState::value with separators, key and          *)
(* separator repeat its key and separator, and end_array / end_object      *)
(* make the same checks as end but before the pop, so a refused call       *)
(* changes nothing.  The policy is the operator parameter v (VALIDATE).    *)
(***************************************************************************)
EXTENDS EventState, Integers

EncodeFrame == [kind : Kinds, due : BOOLEAN, first : BOOLEAN]

Encoders == [frames : Seq(EncodeFrame), root : BOOLEAN]

NewEncoder == [frames |-> <<>>, root |-> FALSE]

\* JSON wire tokens: scalars and keys (with their colon) are atomic.
Opener(kind) == IF kind = "array" THEN "[" ELSE "{"

Closer(kind) == IF kind = "array" THEN "]" ELSE "}"

JsonTokens == {"[", "]", "{", "}", ",", "key", "value"}

EncValueOk(v, e) == v => ValueOk(TRUE, e)

\* Mutant: start_value checks the slot but does not consume it.
EncValueKeepsDue(v, e) == IF AtRoot(e) THEN [e EXCEPT !.root = TRUE] ELSE e

EncValue(v, e) == IF v THEN Value(e) ELSE e

EncBegin(v, kind, e) ==
    [EncValue(v, e) EXCEPT
        !.frames = Append(@, [kind |-> kind, due |-> FALSE, first |-> TRUE])]

EncEndOk(v, kind, e) == v => EndOk(kind, e)

EncEnd(e) == End(e)

\* write_separator(first): the first entry of a container writes no comma.
EntrySeparator(e) == IF Top(e).first THEN <<>> ELSE <<",">>

EncKeyOk(v, e) == InObject(e) /\ (v => KeyOk(e))

EncSeparatorOk(v, e) == InArray(e) /\ (v => SeparatorOk(e))

\* Both clear first; the validating policy also records the value now due.
EncEntry(v, e) ==
    [e EXCEPT !.frames[Len(e.frames)].first = FALSE,
              !.frames[Len(e.frames)].due = IF v THEN TRUE ELSE @]

\* Mutant: finish leaves the completeness check to the caller.
EncFinishOkUnchecked(v, e) == TRUE

EncFinishOk(v, e) == v => FinishOk(e)

-----------------------------------------------------------------------------
(* The output buffer that Encoder (ser.rs) and CborSink                    *)
(* (cross_format/cbor.rs) keep in front of a Write: bytes are appended to  *)
(* buf and handed to write_all once FlushThreshold is reached.  out is     *)
(* [buf |-> bytes not handed over, wire |-> bytes the writer took].        *)
(*                                                                         *)
(* write_all is the caller's Write: it takes everything, or it fails after *)
(* taking any prefix (std::io::Write::write_all gives no more than that).  *)
(* On failure the code returns through ? before buf.clear(), so the bytes  *)
(* already taken stay in buf.  finish() ends with writer.flush(): its      *)
(* failure is the case where every byte was taken.                         *)

CONSTANTS
    FlushThreshold,  (* FLUSH_THRESHOLD, counted in tokens instead of bytes *)
    WriterFails      (* whether the writer may report an I/O error          *)

ASSUME WriteBufferAssumption ==
    /\ FlushThreshold \in Nat \ {0}
    /\ WriterFails \in BOOLEAN

NewOut == [buf |-> <<>>, wire |-> <<>>]

Put(out, tokens) == [out EXCEPT !.buf = @ \o tokens]

\* An attempt to write: the buffer it leaves and whether it returned Ok.
Settled(out) == [out |-> out, ok |-> TRUE]

\* Mutant: the buffer is not cleared once the writer has taken it.
FlushWithoutClear(out) ==
    {Settled([out EXCEPT !.wire = @ \o out.buf])}

\* Mutant: the buffer is taken before it is written, and not put back.
FlushTakesBuffer(out) ==
    LET Taken(n) == [buf |-> <<>>, wire |-> out.wire \o SubSeq(out.buf, 1, n)]
    IN  {Settled(Taken(Len(out.buf)))}
        \cup {[out |-> Taken(n), ok |-> FALSE] : n \in IF WriterFails THEN 0 .. Len(out.buf) ELSE {}}

\* writer.write_all(&buf)?; buf.clear().
Flush(out) ==
    {Settled([buf |-> <<>>, wire |-> out.wire \o out.buf])}
    \cup {[out |-> [out EXCEPT !.wire = @ \o SubSeq(out.buf, 1, n)], ok |-> FALSE] :
             n \in IF WriterFails THEN 0 .. Len(out.buf) ELSE {}}

MaybeFlush(out) ==
    IF Len(out.buf) >= FlushThreshold THEN Flush(out) ELSE {Settled(out)}

-----------------------------------------------------------------------------
(* How tokens nest, JSON's and those of module CborSink: what properties   *)
(* of finished output are stated with.                                     *)

BeginTokens == {"[", "{", "9f", "bf"}

EndTokens == {"]", "}", "ff"}

\* How many of the first i tokens of s are in set.
TokensIn(s, i, set) == Cardinality({j \in 1 .. i : s[j] \in set})

\* How many containers are open behind the i-th token.
OpenAt(s, i) == TokensIn(s, i, BeginTokens) - TokensIn(s, i, EndTokens)

\* The token that began the container in which the i-th token stands: it is
\* still open there, and everything begun in it was closed.
Holders(s, i) ==
    {h \in 1 .. i - 1 : /\ s[h] \in BeginTokens
                       /\ OpenAt(s, i - 1) = OpenAt(s, h)
                       /\ \A k \in h .. i - 1 : OpenAt(s, k) >= OpenAt(s, h)}

StandsIn(s, i, opener) == \E h \in Holders(s, i) : s[h] = opener
=============================================================================
