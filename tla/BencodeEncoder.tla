--------------------------- MODULE BencodeEncoder ---------------------------
(***************************************************************************)
(* formats/bencode.rs, BencodeEncoder.  Dictionaries must be sorted by     *)
(* key: the bytes of a value are cut off the buffer when the next key or   *)
(* the end comes, kept with their key, and written sorted at the end.      *)
(***************************************************************************)
EXTENDS WireBytes, FiniteSets

\* Keys in the order of their bytes.
Before(x, y) == <<x.key, y.key>> \in {<<"nul", "a">>, <<"nul", "b">>, <<"a", "b">>}

\* Where the i-th entry goes: behind those that are before it, and among equal
\* ones, which are refused, where it came.
Place(list, i) ==
    Cardinality({j \in 1 .. Len(list) :
        Before(list[j], list[i]) \/ (j <= i /\ ~Before(list[i], list[j]))})

Sorted(list) ==
    [n \in 1 .. Len(list) |-> list[CHOOSE i \in 1 .. Len(list) : Place(list, i) = n]]

NoKey == [key |-> "", start |-> 0]

ListFrame == [kind |-> "array", entries |-> <<>>, pending |-> NoKey]

DictFrame == [ListFrame EXCEPT !.kind = "object"]

Begin(e, kind) ==
    Done([Push(e, <<Plain(kind)>>) EXCEPT
            !.frames = Append(@, IF kind = "array" THEN ListFrame ELSE DictFrame)])

Separator(e) == Done(e)

\* Mutant: the bytes of the entry stay in the buffer.
FinishEntryKeeps(e) ==
    LET n == Len(e.frames)
        pending == e.frames[n].pending
        entry == [key |-> pending.key, bytes |-> SubSeq(e.buf, pending.start, Len(e.buf))]
    IN  IF e.frames = <<>> THEN Refused(e)
        ELSE IF pending = NoKey THEN Done(e)
        ELSE Done([e EXCEPT !.frames[n].pending = NoKey, !.frames[n].entries = Append(@, entry)])

InDict(e) == e.frames # <<>> /\ Last(e.frames).kind = "object"

\* finish_dict_entry: the value behind the pending key, if there is a key.
FinishEntry(e) ==
    LET n == Len(e.frames)
        pending == e.frames[n].pending
        cleared == [e EXCEPT !.frames[n].pending = NoKey]
        entry == [key |-> pending.key, bytes |-> SubSeq(e.buf, pending.start, Len(e.buf))]
    IN  CASE ~InDict(e) -> Refused(e)
          [] InDict(e) /\ pending = NoKey -> Done(e)
          [] InDict(e) /\ pending # NoKey /\ Len(e.buf) < pending.start -> Refused(cleared)
          [] OTHER -> Done([cleared EXCEPT !.buf = SubSeq(@, 1, pending.start - 1),
                                           !.frames[n].entries = Append(@, entry)])

Key(e, key) ==
    LET r == FinishEntry(e)
    IN  IF ~r.ok THEN r
        ELSE Done([r.e EXCEPT !.frames[Len(e.frames)].pending =
                        [key |-> key, start |-> Len(r.e.buf) + 1]])

EntryBytes(entry) == <<Plain(entry.key)>> \o entry.bytes

Entries(list) == FlattenSeq([i \in 1 .. Len(list) |-> EntryBytes(list[i])])

HasDuplicate(list) == \E i \in 1 .. Len(list) - 1 : list[i].key = list[i + 1].key

EndList(e) ==
    IF e.frames # <<>> /\ Last(e.frames).kind = "array"
    THEN Done(Push(PopFrame(e), <<Plain("end")>>)) ELSE Refused(e)

\* Mutant: the entries are written in the order they came.
EndDictUnsorted(e) ==
    LET r == FinishEntry(e)
        list == Last(r.e.frames).entries
    IN  IF ~r.ok THEN r
        ELSE IF HasDuplicate(list) THEN Refused(PopFrame(r.e))
        ELSE Done(Push(PopFrame(r.e), Entries(list) \o <<Plain("end")>>))

EndDict(e) ==
    LET r == FinishEntry(e)
        list == Sorted(Last(r.e.frames).entries)
    IN  IF ~r.ok THEN r
        ELSE IF HasDuplicate(list) THEN Refused(PopFrame(r.e))
        ELSE Done(Push(PopFrame(r.e), Entries(list) \o <<Plain("end")>>))

\* There is no null and no float, and integers have at most i128.
Scalar(e, call) ==
    IF call \in {"null", "nan", "widest"} THEN Refused(e) ELSE Done(Push(e, <<Plain(call)>>))

Finish(e) == IF e.frames = <<>> THEN Done(e) ELSE Refused(e)
=============================================================================
