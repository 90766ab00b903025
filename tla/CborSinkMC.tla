----------------------------- MODULE CborSinkMC -----------------------------
(***************************************************************************)
(* CborSink for TLC, which checks as well that FinishedIsItem means what   *)
(* the grammar of CBOR says.                                               *)
(***************************************************************************)
EXTENDS CborSink

(* The indefinite-length items of RFC 8949 (section 3.2) over the tokens   *)
(* of module CborSink, as a reference: an array is any items, a map is     *)
(* pairs of a text string and an item, each closed by a break.  TLC only.  *)

LOCAL Middle(s) == SubSeq(s, 2, Len(s) - 1)

LOCAL From(s, i) == SubSeq(s, i, Len(s))

RECURSIVE IsItem(_), AreItems(_), ArePairs(_)

IsItem(s) ==
    \/ s = <<"word">>
    \/ s = <<"head", "body">>
    \/ /\ Len(s) >= 2 /\ s[Len(s)] = "ff"
       /\ \/ s[1] = "9f" /\ AreItems(Middle(s))
          \/ s[1] = "bf" /\ ArePairs(Middle(s))

AreItems(s) ==
    s = <<>> \/ \E i \in 1 .. Len(s) : IsItem(SubSeq(s, 1, i)) /\ AreItems(From(s, i + 1))

ArePairs(s) ==
    \/ s = <<>>
    \/ \E i \in 3 .. Len(s) :
          /\ SubSeq(s, 1, 2) = <<"head", "body">>
          /\ IsItem(SubSeq(s, 3, i))
          /\ ArePairs(From(s, i + 1))

\* Every sequence of up to n tokens.
Texts(n) == UNION {[1 .. k -> CborTokens] : k \in 0 .. n}

\* What FinishedIsItem calls an item is one of the grammar: of all short
\* sequences, and of the longer ones that a map can be.
ASSUME ItemsAreOfGrammar ==
    /\ \A s \in Texts(6) : IsCborItem(s) <=> IsItem(s)
    /\ \A s \in Texts(6) : LET map == <<"bf", "head", "body">> \o s \o <<"ff">>
                          IN  IsCborItem(map) <=> IsItem(map)
=============================================================================
