-------------------------- MODULE AssociationList ---------------------------
(***************************************************************************)
(* What value::Map promises (map.rs: "Insertion-ordered JSON object map"): *)
(* a list of entries in the order their keys first came, and answers that  *)
(* are those of a search through the list.                                 *)
(***************************************************************************)
EXTENDS Naturals, Sequences, FiniteSets

CONSTANTS Keys, Values

VARIABLES
    entries,    (* a sequence of [key, value]                              *)
    answer      (* what the last call returned: a sequence of at most one  *)

vars == <<entries, answer>>

Entry == [key : Keys, value : Values]

Positions(key) == {i \in 1 .. Len(entries) : entries[i].key = key}

Found(key) == \E i \in 1 .. Len(entries) : entries[i].key = key

\* The value under a key, if there is one.
IsAnswer(key, a) ==
    IF Found(key) THEN \E i \in Positions(key) : a = <<entries[i].value>> ELSE a = <<>>

\* The list without the entries at some positions, in the order they had.
IsSelection(list, kept) ==
    \E pos \in [1 .. Cardinality(kept) -> kept] :
        /\ \A i, j \in 1 .. Cardinality(kept) : i < j => pos[i] < pos[j]
        /\ list = [i \in 1 .. Cardinality(kept) |-> entries[pos[i]]]

Init == entries = <<>> /\ answer = <<>>

Get(key) == IsAnswer(key, answer') /\ UNCHANGED entries

Insert(key, value) ==
    /\ IsAnswer(key, answer')
    /\ IF Found(key)
       THEN \E i \in Positions(key) : entries' = [entries EXCEPT ![i].value = value]
       ELSE entries' = Append(entries, [key |-> key, value |-> value])

RemoveKey(key) ==
    /\ IsAnswer(key, answer')
    /\ IsSelection(entries', (1 .. Len(entries)) \ Positions(key))

Retain(kept) ==
    /\ IsSelection(entries', {i \in 1 .. Len(entries) : entries[i].key \in kept})
    /\ answer' = <<>>

Clear == entries' = <<>> /\ answer' = <<>>

Next ==
    \/ \E key \in Keys : Get(key) \/ RemoveKey(key) \/ \E value \in Values : Insert(key, value)
    \/ \E kept \in SUBSET Keys : Retain(kept)
    \/ Clear

Spec == Init /\ [][Next]_vars
=============================================================================
