----------------------------- MODULE JsonSinkMC -----------------------------
(***************************************************************************)
(* JsonSink for TLC, which checks as well that FinishedIsDocument means    *)
(* what the grammar of JSON says.                                          *)
(***************************************************************************)
EXTENDS JsonSink

\* A writer that fails may leave any part of the buffer, each time anew.
CallsOf == [who \in Callers |-> IF who = "persistent" THEN 5 ELSE 8]

(* RFC 8259 over the tokens of module Encoder, as a reference: a document  *)
(* is one value; commas stand between entries and nowhere else; a key      *)
(* stands before every member value.  For TLC only.                        *)

Inside(s) == SubSeq(s, 2, Len(s) - 1)

Before(s, i) == SubSeq(s, 1, i - 1)

After(s, i) == SubSeq(s, i + 1, Len(s))

RECURSIVE IsJsonValue(_), AreElements(_), AreMembers(_)

IsJsonValue(s) ==
    \/ s = <<"value">>
    \/ /\ Len(s) >= 2
       /\ \/ s[1] = "[" /\ s[Len(s)] = "]" /\ (Inside(s) = <<>> \/ AreElements(Inside(s)))
          \/ s[1] = "{" /\ s[Len(s)] = "}" /\ (Inside(s) = <<>> \/ AreMembers(Inside(s)))

AreElements(s) ==
    \/ IsJsonValue(s)
    \/ \E i \in 2 .. Len(s) - 1 :
          s[i] = "," /\ IsJsonValue(Before(s, i)) /\ AreElements(After(s, i))

AreMembers(s) ==
    /\ s # <<>> /\ s[1] = "key"
    /\ \/ IsJsonValue(Tail(s))
       \/ \E i \in 3 .. Len(s) - 1 :
             /\ s[i] = ","
             /\ IsJsonValue(SubSeq(s, 2, i - 1))
             /\ AreMembers(After(s, i))

\* Every sequence of up to n tokens.
Texts(n) == UNION {[1 .. k -> JsonTokens] : k \in 0 .. n}

\* What FinishedIsDocument calls a document is one of the grammar: of all
\* short sequences, and of the longer ones that an object can be.
ASSUME DocumentsAreOfGrammar ==
    /\ \A s \in Texts(6) : IsJsonDocument(s) <=> IsJsonValue(s)
    /\ \A s \in Texts(6) : LET object == <<"{", "key">> \o s \o <<"}">>
                          IN  IsJsonDocument(object) <=> IsJsonValue(object)
=============================================================================
