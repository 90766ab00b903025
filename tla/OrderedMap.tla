----------------------------- MODULE OrderedMap -----------------------------
(***************************************************************************)
(* map.rs, Map: a vector of entries, and from INDEX_THRESHOLD entries on   *)
(* an index of their positions that every operation has to keep.           *)
(***************************************************************************)
EXTENDS Naturals, Sequences, FiniteSets

CONSTANTS
    Keys, Values,
    Threshold   (* INDEX_THRESHOLD: 16 in the code                         *)

ASSUME ThresholdAssumption == Threshold \in Nat \ {0}

VARIABLES
    entries,    (* a sequence of [key, value]                              *)
    index,      (* positions by key; NoIndex for None                      *)
    answer      (* what the last call returned: a sequence of at most one  *)

vars == <<entries, index, answer>>

Entry == [key : Keys, value : Values]

\* An index that exists is never empty: Threshold is positive.
NoIndex == <<>>

KeySet(list) == {list[i].key : i \in 1 .. Len(list)}

\* Where the entry of a key is; 0 if there is none.
Position(key) ==
    IF index # NoIndex THEN IF key \in DOMAIN index THEN index[key] ELSE 0
    ELSE IF key \in KeySet(entries)
         THEN CHOOSE i \in 1 .. Len(entries) : entries[i].key = key
         ELSE 0

ValueAt(p) == IF p = 0 THEN <<>> ELSE <<entries[p].value>>

\* The index of a list of enough entries.
BuildIndex(list) ==
    IF Len(list) < Threshold THEN NoIndex
    ELSE [key \in KeySet(list) |-> CHOOSE i \in 1 .. Len(list) : list[i].key = key]

-----------------------------------------------------------------------------
Init ==
    /\ entries = <<>>
    /\ index = NoIndex
    /\ answer = <<>>

\* get, contains_key.
Get(key) ==
    /\ answer' = ValueAt(Position(key))
    /\ UNCHANGED <<entries, index>>

\* Mutant: a new key is not put into an index that is there.
GrownStale(key) ==
    IF index # NoIndex THEN index
    ELSE IF Len(entries) + 1 = Threshold
    THEN BuildIndex(Append(entries, [key |-> key])) ELSE NoIndex

\* The index behind the push of a new key.
Grown(key) ==
    IF index # NoIndex
    THEN [k \in DOMAIN index \cup {key} |-> IF k = key THEN Len(entries) + 1 ELSE index[k]]
    ELSE IF Len(entries) + 1 = Threshold
    THEN BuildIndex(Append(entries, [key |-> key])) ELSE NoIndex

\* insert: the value of a key that is there is replaced where it is.
Insert(key, value) ==
    LET p == Position(key)
    IN  /\ answer' = ValueAt(p)
        /\ IF p # 0
           THEN entries' = [entries EXCEPT ![p].value = value] /\ UNCHANGED index
           ELSE /\ entries' = Append(entries, [key |-> key, value |-> value])
                /\ index' = Grown(key)

Without(p) == [i \in 1 .. Len(entries) - 1 |-> IF i < p THEN entries[i] ELSE entries[i + 1]]

\* Mutant: the positions behind the removed entry stay.
ShrunkUnshifted(key, p) ==
    IF Len(entries) - 1 < Threshold \/ index = NoIndex THEN NoIndex
    ELSE [k \in DOMAIN index \ {key} |-> index[k]]

\* The index behind the removal of a key: entries behind it moved down.
Shrunk(key, p) ==
    IF Len(entries) - 1 < Threshold \/ index = NoIndex THEN NoIndex
    ELSE [k \in DOMAIN index \ {key} |-> IF index[k] > p THEN index[k] - 1 ELSE index[k]]

RemoveKey(key) ==
    LET p == Position(key)
    IN  /\ answer' = ValueAt(p)
        /\ IF p = 0 THEN UNCHANGED <<entries, index>>
           ELSE entries' = Without(p) /\ index' = Shrunk(key, p)

\* The positions retain leaves, in increasing order.
Selections(kept) ==
    LET at == {i \in 1 .. Len(entries) : entries[i].key \in kept}
    IN  {pos \in [1 .. Cardinality(at) -> at] :
            \A i, j \in 1 .. Cardinality(at) : i < j => pos[i] < pos[j]}

\* retain: the index is built anew.
Retain(kept) ==
    /\ \E pos \in Selections(kept) : entries' = [i \in DOMAIN pos |-> entries[pos[i]]]
    /\ index' = BuildIndex(entries')
    /\ answer' = <<>>

Clear == entries' = <<>> /\ index' = NoIndex /\ answer' = <<>>

Next ==
    \/ \E key \in Keys : Get(key) \/ RemoveKey(key) \/ \E value \in Values : Insert(key, value)
    \/ \E kept \in SUBSET Keys : Retain(kept)
    \/ Clear

Spec == Init /\ [][Next]_vars

-----------------------------------------------------------------------------
MapTypeOK ==
    /\ entries \in Seq(Entry)
    /\ index = NoIndex \/ index \in [KeySet(entries) -> 1 .. Len(entries)]
    /\ answer \in {<<>>} \cup {<<v>> : v \in Values}

(* The entries have different keys, and there is an index exactly from     *)
(* Threshold entries on, with every key at the position of its entry -     *)
(* also behind removals that moved the entries (Map::remove, retain).      *)
IndexMatches ==
    /\ \A i, j \in 1 .. Len(entries) : entries[i].key = entries[j].key => i = j
    /\ index # NoIndex <=> Len(entries) >= Threshold
    /\ index # NoIndex =>
          /\ DOMAIN index = KeySet(entries)
          /\ \A i \in 1 .. Len(entries) : index[entries[i].key] = i

(* Whatever the index does, the map is a list in insertion order and       *)
(* answers as a search through it.                                         *)
List == INSTANCE AssociationList

ImplementsList == List!Spec
=============================================================================
