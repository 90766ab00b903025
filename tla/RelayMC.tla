------------------------------- MODULE RelayMC -------------------------------
(***************************************************************************)
(* Relay for TLC: what is relayed, and the events a document stands for.   *)
(***************************************************************************)
EXTENDS Relay

CborDocuments ==
    {<<"1">>, <<"text*", "a", "b", "end">>, <<"tag", "bin">>,
     <<"[2", "null", "[1", "a">>,
     <<"[2", "[0", "1">>,
     <<"[*", "[*", "end", "1", "end">>,
     <<"{1", "text*", "a", "end", "[*", "1", "end">>,
     <<"{2", "a", "1", "b", "{0">>,
     <<"{*", "a", "[2", "1", "1", "b", "text*", "end", "end">>,
     <<"[*", "{*", "b", "tag", "bin", "end", "end">>,
     <<"[1", "[1", "[0">>}

Alphabet == Headers \cup CborScalars \cup {"text*", "tag", "bin", "end", "other"}

JsonDocuments ==
    {<<"1">>, <<"null">>,
     <<"[", "a", ",", "[", "]", "]">>,
     <<"{", "a", ":", "1", ",", "b", ":", "[", "null", "]", "}">>,
     <<"[", "{", "b", ":", "{", "}", "}", "]">>,
     <<"[", "{", "}", ",", "1", "]">>}

\* Two runs of digits side by side would be one.
OneRun(s) == \A i \in 1 .. Len(s) - 1 : ~(s[i] \in Numbers /\ s[i + 1] \in Numbers)

CborTexts == Edited(CborDocuments, Alphabet)

JsonTexts == {s \in Edited(JsonDocuments, Symbols) : OneRun(s)}

AllInputs == [source : {"cbor"}, text : CborTexts] \cup [source : {"json"}, text : JsonTexts]

-----------------------------------------------------------------------------
(* The reference: the item at p as [to, events], if there is one.  A       *)
(* container is its header, its entries and its end.                       *)

Result(to, events) == [to |-> to, events |-> events]

\* How often a counted container goes on; -1 is until the break.
Entries(cell) == IF cell \in DOMAIN Counts THEN Counts[cell] ELSE -1

\* The texts at p: of one cell, or of chunks up to a break.
Texts(p) ==
    IF At(text, p) \in Strings THEN {Result(p + 1, <<text[p]>>)}
    ELSE IF At(text, p) # "text*" THEN {}
    ELSE {Result(q + 1, SubSeq(text, p + 1, q - 1)) :
            q \in {q \in p + 1 .. Len(text) :
                    text[q] = "end" /\ \A j \in p + 1 .. q - 1 : text[j] \in Strings}}

RECURSIVE CborItems(_), CborEntries(_, _, _)

CborItems(p) ==
    LET cell == At(text, p)
        kind == IF cell \in Arrays THEN "array" ELSE "object"
    IN  CASE cell \in Numbers \cup {"null"} -> {Result(p + 1, <<ScalarEvent(<<cell>>)>>)}
          [] cell = "tag" -> IF At(text, p + 1) = "bin"
                             THEN {Result(p + 2, <<ScalarEvent(<<"big">>)>>)} ELSE {}
          [] cell \in Unreadable -> {}
          [] cell \in Headers \ Unreadable ->
                {Result(r.to, <<BeginEvent(kind)>> \o r.events) :
                    r \in CborEntries(p + 1, kind, Entries(cell))}
          [] OTHER -> {Result(t.to, <<ScalarEvent(t.events)>>) : t \in Texts(p)}

CborEntries(p, kind, n) ==
    LET values == IF kind = "array" THEN CborItems(p)
                  ELSE UNION {{Result(v.to, <<Event("object_key", "none", t.events)>> \o v.events) :
                                v \in CborItems(t.to)} : t \in Texts(p)}
    IN  IF n = 0 \/ (n = -1 /\ At(text, p) = "end")
        THEN {Result(IF n = 0 THEN p ELSE p + 1, <<EndEvent(kind)>>)}
        ELSE UNION {{Result(r.to, v.events \o r.events) :
                        r \in CborEntries(v.to, kind, IF n = -1 THEN n ELSE n - 1)} : v \in values}

-----------------------------------------------------------------------------
Dense == SelectSeq(text, LAMBDA x : x # Blank)

RECURSIVE JsonItems(_), JsonEntries(_, _)

JsonItems(p) ==
    LET symbol == At(Dense, p)
        Empty == IF At(Dense, p + 1) = CloserOf[symbol]
                 THEN {Result(p + 2, <<EndEvent(KindOf(symbol))>>)} ELSE {}
    IN  CASE symbol \in Strings \cup Numbers \cup {"null"} ->
                {Result(p + 1, <<ScalarEvent(<<symbol>>)>>)}
          [] symbol \in Openers ->
                {Result(r.to, <<BeginEvent(KindOf(symbol))>> \o r.events) :
                    r \in Empty \cup JsonEntries(p + 1, symbol)}
          [] OTHER -> {}

\* One entry and what follows it, up to behind the closing bracket.
JsonEntries(p, opener) ==
    LET values == IF opener = "[" THEN JsonItems(p)
                  ELSE IF At(Dense, p) \in Strings /\ At(Dense, p + 1) = ":"
                  THEN {Result(v.to, <<Event("object_key", "none", <<Dense[p]>>)>> \o v.events) :
                            v \in JsonItems(p + 2)}
                  ELSE {}
    IN  UNION {IF At(Dense, v.to) = ","
               THEN {Result(r.to, v.events \o r.events) : r \in JsonEntries(v.to + 1, opener)}
               ELSE IF At(Dense, v.to) = CloserOf[opener]
               THEN {Result(v.to + 1, Append(v.events, EndEvent(KindOf(opener))))}
               ELSE {} : v \in values}

-----------------------------------------------------------------------------
\* The deepest container.
Deepest(events) ==
    LET Open(i) == Cardinality({j \in 1 .. i : events[j].event = "begin"})
                        - Cardinality({j \in 1 .. i : events[j].event = "end"})
    IN  CHOOSE n \in {0} \cup {Open(i) : i \in 1 .. Len(events)} :
            \A i \in 1 .. Len(events) : Open(i) <= n

\* The documents the whole input is, within max_depth: one or none.
Documents ==
    {r.events : r \in {r \in IF source = "json" THEN JsonItems(1) ELSE CborItems(1) :
        /\ r.to = Len(IF source = "json" THEN Dense ELSE text) + 1
        /\ Deepest(r.events) <= MaxDepth}}

(* The relay returns Ok for exactly the inputs that are one document of    *)
(* JSON, or of the profile of CBOR that JSON can hold, and then the sink   *)
(* was told that document: nothing left out, no break, count or chunk      *)
(* taken for something else; and refuses nothing else but for the writer.  *)
RelaysTheDocument ==
    /\ stage = "ok" => heard \in Documents
    /\ stage = "err" => Documents = {}
=============================================================================
