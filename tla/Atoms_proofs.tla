---------------------------- MODULE Atoms_proofs ----------------------------
(***************************************************************************)
(* The atoms underneath the protocols, for every input: the index of Map   *)
(* for every threshold, every set of keys and every number of calls, and   *)
(* that Map is the list it promises to be; the string lexers and the       *)
(* number lexer for strings and numbers of every length; integers for      *)
(* literals of every length, at any width; varints of both forms, for      *)
(* digits of any number of bits.                                           *)
(***************************************************************************)
EXTENDS AtomsMC, FiniteSetTheorems, SequenceTheorems, WellFoundedInduction, TLAPS

Inv == MapTypeOK /\ IndexMatches

\* A list without duplicate keys, and the index a list should have.
Distinct(list) == \A i, j \in 1 .. Len(list) : list[i].key = list[j].key => i = j

Indexes(idx, list) ==
    /\ idx # NoIndex <=> Len(list) >= Threshold
    /\ idx # NoIndex =>
          /\ idx \in [KeySet(list) -> 1 .. Len(list)]
          /\ \A i \in 1 .. Len(list) : idx[list[i].key] = i

Answers == {<<>>} \cup {<<v>> : v \in Values}

\* Inv of any three values, so that it can be said of the primed ones too.
Shape(list, idx, a) ==
    list \in Seq(Entry) /\ Distinct(list) /\ Indexes(idx, list) /\ a \in Answers

\* The invariant is the shape of the three variables.
LEMMA InvParts == Inv <=> Shape(entries, index, answer)
  <1>1. ASSUME entries \in Seq(Entry), index \in [KeySet(entries) -> 1 .. Len(entries)]
        PROVE  DOMAIN index = KeySet(entries)
    BY <1>1
  <1> QED  BY <1>1 DEF Inv, MapTypeOK, IndexMatches, Distinct, Indexes, Shape, Answers

\* The same of the next state: a lemma about a state cannot be primed.
LEMMA InvPartsNext == Inv' <=> Shape(entries', index', answer')
  <1>1. ASSUME entries' \in Seq(Entry), index' \in [KeySet(entries') -> 1 .. Len(entries')]
        PROVE  DOMAIN index' = KeySet(entries')
    BY <1>1
  <1> QED  BY <1>1 DEF Inv, MapTypeOK, IndexMatches, Distinct, Indexes, Shape, Answers

\* An index over at least one entry is not the empty one.
LEMMA NotEmpty ==
    ASSUME NEW K, NEW S, NEW f \in [K -> S], NEW k \in K PROVE f # NoIndex
  <1>1. k \in DOMAIN f  OBVIOUS
  <1>2. k \notin DOMAIN <<>>  BY <1>1, SMT
  <1> QED  BY <1>1, <1>2 DEF NoIndex

(* Where a key is, by the index or by search.                              *)
LEMMA PositionFinds ==
    ASSUME Inv, NEW key
    PROVE  \/ Position(key) = 0 /\ key \notin KeySet(entries)
           \/ /\ key \in KeySet(entries)
              /\ Position(key) \in 1 .. Len(entries)
              /\ entries[Position(key)].key = key
  <1> USE InvParts DEF Indexes, Position, KeySet, Shape
  <1>1. CASE index # NoIndex /\ key \in KeySet(entries)
    <2>1. PICK i \in 1 .. Len(entries) : entries[i].key = key  BY <1>1
    <2>2. index[key] = i  BY <1>1, <2>1
    <2> QED  BY <1>1, <2>1, <2>2
  <1>2. CASE index # NoIndex /\ key \notin KeySet(entries)
    BY <1>2
  <1>3. CASE index = NoIndex
    BY <1>3
  <1> QED  BY <1>1, <1>2, <1>3

(* BuildIndex, over a list without duplicates.                             *)
LEMMA BuildIndexes ==
    ASSUME NEW list, Len(list) \in Nat, Distinct(list)
    PROVE  Indexes(BuildIndex(list), list)
  <1> DEFINE f == [key \in KeySet(list) |-> CHOOSE i \in 1 .. Len(list) : list[i].key = key]
  <1>1. CASE Len(list) < Threshold
    BY <1>1, ThresholdAssumption DEF BuildIndex, Indexes
  <1>2. CASE Len(list) >= Threshold
    <2>1. BuildIndex(list) = f  BY <1>2, ThresholdAssumption DEF BuildIndex
    <2>2. \A i \in 1 .. Len(list) : list[i].key \in KeySet(list) /\ f[list[i].key] = i
      BY DEF KeySet, Distinct
    <2>3. f \in [KeySet(list) -> 1 .. Len(list)]
      BY DEF KeySet
    <2>4. 1 \in 1 .. Len(list)  BY <1>2, ThresholdAssumption
    <2>5. f # NoIndex
      <3> HIDE DEF f
      <3> QED  BY <2>2, <2>3, <2>4, NotEmpty
    <2> HIDE DEF f
    <2> QED  BY <1>2, <2>1, <2>2, <2>3, <2>5, ThresholdAssumption DEF Indexes
  <1> QED  BY <1>1, <1>2, ThresholdAssumption

\* Lists with the same keys at the same positions are alike for an index.
LEMMA SameKeys ==
    ASSUME NEW old, NEW new, Len(old) \in Nat, Len(new) = Len(old),
           \A i \in 1 .. Len(old) : new[i].key = old[i].key
    PROVE  /\ KeySet(new) = KeySet(old)
           /\ Distinct(old) => Distinct(new)
           /\ \A idx : Indexes(idx, old) => Indexes(idx, new)
  <1>1. KeySet(new) = KeySet(old)  BY DEF KeySet
  <1>2. Distinct(old) => Distinct(new)  BY DEF Distinct
  <1>3. ASSUME NEW idx, Indexes(idx, old) PROVE Indexes(idx, new)
    BY <1>1, <1>3 DEF Indexes
  <1> QED  BY <1>1, <1>2, <1>3

-----------------------------------------------------------------------------
(* The operations.                                                         *)

\* What Append does, whatever the sequence holds.
LEMMA Appended ==
    ASSUME NEW list \in Seq(Entry), NEW e
    PROVE  /\ Len(Append(list, e)) = Len(list) + 1
           /\ \A i \in 1 .. Len(list) : Append(list, e)[i] = list[i]
           /\ Append(list, e)[Len(list) + 1] = e
  <1>1. list \in Seq(Entry \cup {e})  OBVIOUS
  <1> QED  BY <1>1

\* Every answer about a key is a value of the list or nothing.
LEMMA AnswerTyped ==
    ASSUME Inv, NEW key PROVE ValueAt(Position(key)) \in Answers
  <1>0. entries \in Seq(Entry)  BY InvParts DEF Shape
  <1>1. CASE Position(key) = 0  BY <1>1 DEF ValueAt, Answers
  <1>2. CASE Position(key) \in 1 .. Len(entries)
    <2>1. entries[Position(key)] \in Entry  BY <1>0, <1>2
    <2>2. entries[Position(key)].value \in Values  BY <2>1 DEF Entry
    <2> QED  BY <1>2, <2>2 DEF ValueAt, Answers
  <1> QED  BY <1>1, <1>2, PositionFinds

\* A value replaced where it is moves no key.
LEMMA Replaced ==
    ASSUME NEW list \in Seq(Entry), NEW p \in 1 .. Len(list), NEW value \in Values,
           NEW new, new = [list EXCEPT ![p].value = value]
    PROVE  /\ new \in Seq(Entry) /\ Len(new) = Len(list)
           /\ \A i \in 1 .. Len(list) : new[i].key = list[i].key
  <1>1. list[p] \in Entry  OBVIOUS
  <1>2. DEFINE e == [list[p] EXCEPT !.value = value]
  <1>3. e \in Entry /\ e.key = list[p].key  BY <1>1 DEF Entry
  <1>4. new = [list EXCEPT ![p] = e]  OBVIOUS
  <1> HIDE DEF e
  <1> QED  BY <1>3, <1>4

\* insert, by whether the key is there and the index exists, begins or stays away.
LEMMA InsertKeeps ==
    ASSUME Inv, NEW key \in Keys, NEW value \in Values, Insert(key, value)
    PROVE  Inv'
  <1> DEFINE p == Position(key)
             n == Len(entries)
  <1>0. /\ entries \in Seq(Entry) /\ Distinct(entries) /\ Indexes(index, entries)
        /\ n \in Nat
    BY InvParts DEF Shape
  <1>1. answer' \in Answers  BY AnswerTyped DEF Insert
  <1>2. CASE p # 0
    <2>1. p \in 1 .. n /\ entries' = [entries EXCEPT ![p].value = value] /\ index' = index
      BY <1>2, PositionFinds DEF Insert
    <2>2. /\ entries' \in Seq(Entry) /\ Len(entries') = n
          /\ \A i \in 1 .. n : entries'[i].key = entries[i].key
      BY <1>0, <2>1, Replaced
    <2>3. Distinct(entries') /\ Indexes(index', entries')
      BY <1>0, <2>1, <2>2, SameKeys
    <2> QED  BY <1>1, <2>2, <2>3, InvPartsNext DEF Shape
  <1>3. CASE p = 0
    <2> DEFINE e == [key |-> key, value |-> value]
    <2>1. /\ entries' = Append(entries, e) /\ index' = Grown(key)
          /\ key \notin KeySet(entries) /\ e \in Entry
      BY <1>0, <1>3, PositionFinds DEF Insert, Entry
    <2>2. /\ entries' \in Seq(Entry) /\ Len(entries') = n + 1
          /\ \A i \in 1 .. n : entries'[i] = entries[i]
          /\ entries'[n + 1].key = key
      BY <1>0, <2>1
    <2>3. Distinct(entries')
      BY <1>0, <2>1, <2>2 DEF Distinct, KeySet
    <2>4. KeySet(entries') = KeySet(entries) \cup {key}
      BY <1>0, <2>2 DEF KeySet
    <2>5. CASE index # NoIndex
      <3> DEFINE g == [k \in DOMAIN index \cup {key} |-> IF k = key THEN n + 1 ELSE index[k]]
      <3>1. index' = g  BY <2>1, <2>5 DEF Grown
      <3>2. /\ n >= Threshold /\ index \in [KeySet(entries) -> 1 .. n]
            /\ \A i \in 1 .. n : index[entries[i].key] = i
        BY <1>0, <2>5 DEF Indexes
      <3>3. g \in [KeySet(entries') -> 1 .. Len(entries')]
        BY <1>0, <2>2, <2>4, <3>2
      <3>4. ASSUME NEW i \in 1 .. n PROVE g[entries'[i].key] = i
        <4>1. entries[i].key \in KeySet(entries)  BY DEF KeySet
        <4> QED  BY <2>1, <2>2, <3>2, <4>1
      <3>5. g[entries'[n + 1].key] = n + 1  BY <2>2
      <3>6. \A i \in 1 .. Len(entries') : g[entries'[i].key] = i
        <4> HIDE DEF g
        <4> QED  BY <1>0, <2>2, <3>4, <3>5
      <3>7. key \in KeySet(entries')  BY <2>4
      <3>8. g # NoIndex
        <4> HIDE DEF g
        <4> QED  BY <3>3, <3>7, NotEmpty
      <3>9. Indexes(g, entries')
        <4> HIDE DEF g
        <4> QED  BY <1>0, <2>2, <3>2, <3>3, <3>6, <3>8, ThresholdAssumption DEF Indexes
      <3> QED  BY <3>1, <3>9, <1>1, <2>2, <2>3, InvPartsNext DEF Shape
    <2>6. CASE index = NoIndex
      <3>1. n < Threshold  BY <1>0, <2>6, ThresholdAssumption DEF Indexes
      <3>2. CASE n + 1 = Threshold
        <4> DEFINE bare == Append(entries, [key |-> key])
        <4>1. /\ Len(bare) = n + 1
              /\ \A i \in 1 .. n : bare[i] = entries[i]
              /\ bare[n + 1] = [key |-> key]
          BY <1>0, Appended
        <4>2. \A i \in 1 .. n + 1 : bare[i].key = entries'[i].key
          <5> HIDE DEF bare
          <5> QED  BY <1>0, <4>1, <2>2
        <4>3. index' = BuildIndex(bare)  BY <2>1, <2>6, <3>2 DEF Grown
        <4>4. Distinct(bare)
          <5> HIDE DEF bare
          <5> QED  BY <1>0, <2>3, <2>2, <4>1, <4>2, SameKeys
        <4>5. Indexes(index', entries')
          <5> HIDE DEF bare
          <5>1. Indexes(index', bare)  BY <1>0, <4>1, <4>3, <4>4, BuildIndexes
          <5> QED  BY <5>1, <1>0, <2>2, <4>1, <4>2, SameKeys
        <4> QED  BY <4>5, <1>1, <2>2, <2>3, InvPartsNext DEF Shape
      <3>3. CASE n + 1 < Threshold
        <4>1. index' = NoIndex  BY <1>0, <2>1, <2>6, <3>3, ThresholdAssumption DEF Grown
        <4>2. Indexes(index', entries')
          BY <1>0, <4>1, <2>2, <3>3, ThresholdAssumption DEF Indexes
        <4> QED  BY <4>2, <1>1, <2>2, <2>3, InvPartsNext DEF Shape
      <3> QED  BY <1>0, <3>1, <3>2, <3>3, ThresholdAssumption
    <2> QED  BY <2>5, <2>6
  <1> QED  BY <1>2, <1>3

\* The list without its entry at p, by its entries.
LEMMA WithoutEntry ==
    ASSUME NEW p \in 1 .. Len(entries), entries \in Seq(Entry)
    PROVE  /\ Without(p) \in Seq(Entry) /\ Len(Without(p)) = Len(entries) - 1
           /\ \A i \in 1 .. Len(entries) - 1 :
                 Without(p)[i] = IF i < p THEN entries[i] ELSE entries[i + 1]
  <1>1. Len(entries) - 1 \in Nat  OBVIOUS
  <1>2. \A i \in 1 .. Len(entries) - 1 :
           (IF i < p THEN entries[i] ELSE entries[i + 1]) \in Entry
    OBVIOUS
  <1> QED  BY <1>1, <1>2 DEF Without

\* remove: the entries behind the removed one move down, and their positions with them.
LEMMA RemoveKeeps ==
    ASSUME Inv, NEW key \in Keys, RemoveKey(key)
    PROVE  Inv'
  <1> DEFINE p == Position(key)
             n == Len(entries)
  <1>0. /\ entries \in Seq(Entry) /\ Distinct(entries) /\ Indexes(index, entries)
        /\ n \in Nat
    BY InvParts DEF Shape
  <1>1. answer' \in Answers  BY AnswerTyped DEF RemoveKey
  <1>2. CASE p = 0
    BY <1>0, <1>1, <1>2, InvPartsNext DEF RemoveKey, Shape
  <1>3. CASE p # 0
    <2>1. /\ p \in 1 .. n /\ entries[p].key = key
          /\ entries' = Without(p) /\ index' = Shrunk(key, p)
      BY <1>3, PositionFinds DEF RemoveKey
    <2>2. /\ entries' \in Seq(Entry) /\ Len(entries') = n - 1
          /\ \A i \in 1 .. n - 1 : entries'[i] = IF i < p THEN entries[i] ELSE entries[i + 1]
      BY <1>0, <2>1, WithoutEntry
    <2>3. Distinct(entries')
      <3> SUFFICES ASSUME NEW i \in 1 .. n - 1, NEW j \in 1 .. n - 1,
                          entries'[i].key = entries'[j].key
                   PROVE  i = j
        BY <2>2 DEF Distinct
      <3> DEFINE a == IF i < p THEN i ELSE i + 1
                 b == IF j < p THEN j ELSE j + 1
      <3>1. a \in 1 .. n /\ b \in 1 .. n /\ entries'[i] = entries[a] /\ entries'[j] = entries[b]
        BY <1>0, <2>1, <2>2
      <3>2. a = b
        <4> HIDE DEF a, b
        <4> QED  BY <1>0, <3>1 DEF Distinct
      <3> QED  BY <1>0, <2>1, <3>2
    <2>4. CASE n - 1 < Threshold \/ index = NoIndex
      <3>1. index' = NoIndex /\ n - 1 < Threshold
        BY <1>0, <2>1, <2>4, ThresholdAssumption DEF Shrunk, Indexes
      <3>2. Indexes(index', entries')  BY <1>0, <2>2, <3>1, ThresholdAssumption DEF Indexes
      <3> QED  BY <3>2, <1>1, <2>2, <2>3, InvPartsNext DEF Shape
    <2>5. CASE n - 1 >= Threshold /\ index # NoIndex
      <3> DEFINE g == [k \in DOMAIN index \ {key} |->
                          IF index[k] > p THEN index[k] - 1 ELSE index[k]]
      <3>1. index' = g  BY <1>0, <2>1, <2>5, ThresholdAssumption DEF Shrunk
      <3>2. /\ index \in [KeySet(entries) -> 1 .. n]
            /\ \A i \in 1 .. n : index[entries[i].key] = i
        BY <1>0, <2>5 DEF Indexes
      <3>3. ASSUME NEW i \in 1 .. n, i # p
            PROVE  entries[i].key \in DOMAIN index \ {key}
        BY <1>0, <2>1, <3>2, <3>3 DEF KeySet, Distinct
      <3>4. ASSUME NEW i \in 1 .. n - 1
            PROVE  entries'[i].key \in DOMAIN index \ {key} /\ g[entries'[i].key] = i
        <4>1. CASE i < p
          <5>1. i \in 1 .. n /\ entries'[i] = entries[i]  BY <1>0, <2>1, <2>2, <4>1
          <5> QED  BY <1>0, <2>1, <3>2, <3>3, <4>1, <5>1
        <4>2. CASE ~ (i < p)
          <5>1. i + 1 \in 1 .. n /\ i + 1 # p /\ entries'[i] = entries[i + 1]
            BY <1>0, <2>1, <2>2, <4>2
          <5>2. entries[i + 1].key \in DOMAIN index \ {key}  BY <3>3, <5>1
          <5>3. index[entries[i + 1].key] = i + 1  BY <3>2, <5>1
          <5> QED  BY <1>0, <2>1, <4>2, <5>1, <5>2, <5>3
        <4> QED  BY <4>1, <4>2
      <3>5. KeySet(entries') = DOMAIN index \ {key}
        <4>1. KeySet(entries') \subseteq DOMAIN index \ {key}
          <5> HIDE DEF g
          <5> QED  BY <2>2, <3>4 DEF KeySet
        <4>2. ASSUME NEW k \in DOMAIN index \ {key} PROVE k \in KeySet(entries')
          <5>1. PICK i \in 1 .. n : entries[i].key = k /\ i # p
            BY <2>1, <3>2, <4>2 DEF KeySet
          <5>2. CASE i < p
            <6>1. i \in 1 .. n - 1 /\ entries'[i] = entries[i]
              BY <1>0, <2>1, <2>2, <5>1, <5>2
            <6> QED  BY <2>2, <5>1, <6>1 DEF KeySet
          <5>3. CASE i > p
            <6>1. i - 1 \in 1 .. n - 1 /\ entries'[i - 1] = entries[i]
              BY <1>0, <2>1, <2>2, <5>1, <5>3
            <6> QED  BY <2>2, <5>1, <6>1 DEF KeySet
          <5> QED  BY <1>0, <2>1, <5>1, <5>2, <5>3
        <4> QED  BY <4>1, <4>2
      <3>6. ASSUME NEW k \in DOMAIN index \ {key} PROVE g[k] \in 1 .. n - 1
        <4>1. PICK i \in 1 .. n : entries[i].key = k /\ i # p
          BY <2>1, <3>2, <3>6 DEF KeySet
        <4>2. index[k] = i  BY <3>2, <4>1
        <4> QED  BY <1>0, <2>1, <4>1, <4>2
      <3>7. g \in [KeySet(entries') -> 1 .. Len(entries')]
        BY <2>2, <3>5, <3>6
      <3>8. 1 \in 1 .. n - 1  BY <1>0, <2>5, ThresholdAssumption
      <3>9. entries'[1].key \in KeySet(entries')  BY <3>5, <3>4, <3>8
      <3>10. g # NoIndex
        <4> HIDE DEF g
        <4> QED  BY <3>7, <3>9, NotEmpty
      <3>11. Indexes(g, entries')
        <4> HIDE DEF g
        <4> QED  BY <1>0, <2>2, <2>5, <3>4, <3>7, <3>10, ThresholdAssumption DEF Indexes
      <3> QED  BY <3>1, <3>11, <1>1, <2>2, <2>3, InvPartsNext DEF Shape
    <2> QED  BY <1>0, <2>4, <2>5, ThresholdAssumption
  <1> QED  BY <1>2, <1>3

\* What retain leaves: entries of the list, in an increasing order.
LEMMA SelectionsAre ==
    ASSUME NEW kept, entries \in Seq(Entry), NEW pos \in Selections(kept)
    PROVE  \E m \in Nat :
              /\ pos \in [1 .. m -> 1 .. Len(entries)]
              /\ \A i, j \in 1 .. m : i < j => pos[i] < pos[j]
  <1> DEFINE at == {i \in 1 .. Len(entries) : entries[i].key \in kept}
  <1>1. IsFiniteSet(1 .. Len(entries))  BY FS_Interval
  <1>2. IsFiniteSet(at)  BY <1>1, FS_Subset
  <1>3. Cardinality(at) \in Nat  BY <1>2, FS_CardinalityType
  <1> WITNESS Cardinality(at) \in Nat
  <1> QED  BY DEF Selections

\* retain: a selection has no duplicates either, and the index is built over it.
LEMMA RetainKeeps ==
    ASSUME Inv, NEW kept, Retain(kept)
    PROVE  Inv'
  <1>0. entries \in Seq(Entry) /\ Distinct(entries)  BY InvParts DEF Shape
  <1>1. PICK pos \in Selections(kept) : entries' = [i \in DOMAIN pos |-> entries[pos[i]]]
    BY DEF Retain
  <1>2. PICK m \in Nat :
              /\ pos \in [1 .. m -> 1 .. Len(entries)]
              /\ \A i, j \in 1 .. m : i < j => pos[i] < pos[j]
    BY <1>0, SelectionsAre
  <1>3. entries' \in Seq(Entry) /\ Len(entries') = m
        /\ \A i \in 1 .. m : entries'[i] = entries[pos[i]]
    <2>1. entries' = [i \in 1 .. m |-> entries[pos[i]]]  BY <1>1, <1>2
    <2>2. \A i \in 1 .. m : entries[pos[i]] \in Entry  BY <1>0, <1>2
    <2> QED  BY <2>1, <2>2
  <1>4. Distinct(entries')
    <2>1. \A i, j \in 1 .. m : pos[i] = pos[j] => i = j  BY <1>2
    <2> QED  BY <1>0, <1>2, <1>3, <2>1 DEF Distinct
  <1>5. Indexes(index', entries')  BY <1>3, <1>4, BuildIndexes DEF Retain
  <1>6. answer' \in Answers  BY DEF Retain, Answers
  <1> QED  BY <1>3, <1>4, <1>5, <1>6, InvPartsNext DEF Shape

\* The empty map.
LEMMA EmptyShape == Shape(<<>>, NoIndex, <<>>)
  <1>1. Len(<<>>) = 0 /\ <<>> \in Seq(Entry)  OBVIOUS
  <1> QED  BY <1>1, ThresholdAssumption DEF Shape, Distinct, Indexes, Answers

-----------------------------------------------------------------------------
(* Every call of Map leaves entries with different keys, and an index that *)
(* is there exactly from the threshold on and holds every position.        *)
THEOREM MapStaysIndexed == Spec => [](MapTypeOK /\ IndexMatches)
  <1>1. Init => Inv
    BY EmptyShape, InvParts DEF Init
  <1>2. Inv /\ [Next]_vars => Inv'
    <2> SUFFICES ASSUME Inv, [Next]_vars PROVE Inv'  OBVIOUS
    <2>1. ASSUME NEW key \in Keys, Get(key) PROVE Inv'
      BY <2>1, InvParts, InvPartsNext, AnswerTyped DEF Get, Shape
    <2>2. ASSUME NEW key \in Keys, RemoveKey(key) PROVE Inv'
      BY <2>2, RemoveKeeps
    <2>3. ASSUME NEW key \in Keys, NEW value \in Values, Insert(key, value) PROVE Inv'
      BY <2>3, InsertKeeps
    <2>4. ASSUME NEW kept \in SUBSET Keys, Retain(kept) PROVE Inv'
      BY <2>4, RetainKeeps
    <2>5. CASE Clear
      BY <2>5, EmptyShape, InvPartsNext DEF Clear
    <2>6. CASE UNCHANGED vars
      BY <2>6, InvParts, InvPartsNext DEF vars
    <2> QED  BY <2>1, <2>2, <2>3, <2>4, <2>5, <2>6 DEF Next
  <1>3. Inv => MapTypeOK /\ IndexMatches  BY DEF Inv
  <1> QED  BY <1>1, <1>2, <1>3, PTL DEF Spec

-----------------------------------------------------------------------------
(* With that, each call answers and changes the entries as the search      *)
(* through a list would (AssociationList).                                 *)

\* The instance's Cardinality is that of FiniteSets.
LEMMA SameCardinality == ASSUME NEW S PROVE List!Cardinality(S) = Cardinality(S)
  BY Zenon DEF List!Cardinality, Cardinality

\* The answer under a key's position is the one a search gives.
LEMMA SearchAnswers ==
    ASSUME Inv, NEW key PROVE List!IsAnswer(key, ValueAt(Position(key)))
  <1>1. CASE Position(key) = 0 /\ key \notin KeySet(entries)
    BY <1>1 DEF List!IsAnswer, List!Found, KeySet, ValueAt
  <1>2. CASE /\ Position(key) \in 1 .. Len(entries)
             /\ entries[Position(key)].key = key
    <2>1. Position(key) \in List!Positions(key)  BY <1>2 DEF List!Positions
    <2>2. List!Found(key)  BY <1>2 DEF List!Found
    <2>3. Position(key) # 0
      <3>1. Len(entries) \in Nat  BY InvParts DEF Shape
      <3> QED  BY <1>2, <3>1
    <2> QED  BY <2>1, <2>2, <2>3 DEF List!IsAnswer, ValueAt
  <1> QED  BY <1>1, <1>2, PositionFinds

\* insert: the value is replaced where a search finds the key, or the entry is appended.
LEMMA InsertIsList ==
    ASSUME Inv, NEW key \in Keys, NEW value \in Values, Insert(key, value)
    PROVE  List!Insert(key, value)
  <1>0. Len(entries) \in Nat  BY InvParts DEF Shape
  <1>1. List!IsAnswer(key, answer')  BY SearchAnswers DEF Insert
  <1>2. CASE Position(key) = 0 /\ key \notin KeySet(entries)
    <2>1. ~ List!Found(key)  BY <1>2 DEF List!Found, KeySet
    <2> QED  BY <1>1, <1>2, <2>1 DEF List!Insert, Insert
  <1>3. CASE /\ Position(key) \in 1 .. Len(entries)
             /\ entries[Position(key)].key = key
    <2>1. Position(key) \in List!Positions(key)  BY <1>3 DEF List!Positions
    <2>2. List!Found(key)  BY <1>3 DEF List!Found
    <2>3. entries' = [entries EXCEPT ![Position(key)].value = value]
      BY <1>0, <1>3 DEF Insert
    <2> QED  BY <1>1, <2>1, <2>2, <2>3 DEF List!Insert
  <1> QED  BY <1>2, <1>3, PositionFinds

\* remove: the entries that stay, by position: those below p, and those above.
LEMMA RemoveIsList ==
    ASSUME Inv, NEW key \in Keys, RemoveKey(key)
    PROVE  List!RemoveKey(key)
  <1> DEFINE p == Position(key)
             n == Len(entries)
             kept == (1 .. n) \ List!Positions(key)
  <1>0. entries \in Seq(Entry) /\ n \in Nat /\ Distinct(entries)
    BY InvParts DEF Shape
  <1>1. List!IsAnswer(key, answer')  BY SearchAnswers DEF RemoveKey
  <1>2. IsFiniteSet(1 .. n) /\ Cardinality(1 .. n) = n
    <2> HIDE DEF n
    <2>1. 1 \in Int /\ n \in Int  BY <1>0
    <2>2. IsFiniteSet(1 .. n) /\ Cardinality(1 .. n) = IF 1 > n THEN 0 ELSE n - 1 + 1
      BY <2>1, FS_Interval, Zenon
    <2> QED  BY <1>0, <2>2
  <1>3. List!IsSelection(entries', kept)
    <2>1. CASE p = 0 /\ key \notin KeySet(entries)
      <3> DEFINE id == [i \in 1 .. n |-> i]
      <3>1. kept = 1 .. n  BY <2>1 DEF List!Positions, KeySet
      <3>2. entries' = entries  BY <2>1 DEF RemoveKey
      <3>3. entries = [i \in 1 .. n |-> entries[id[i]]]  BY <1>0
      <3>4. id \in [1 .. n -> 1 .. n] /\ \A i, j \in 1 .. n : i < j => id[i] < id[j]
        OBVIOUS
      <3> HIDE DEF id, kept
      <3>5. List!Cardinality(kept) = n  BY <1>2, <3>1, SameCardinality
      <3>6. /\ id \in [1 .. List!Cardinality(kept) -> kept]
            /\ \A i, j \in 1 .. List!Cardinality(kept) : i < j => id[i] < id[j]
            /\ entries' = [i \in 1 .. List!Cardinality(kept) |-> entries[id[i]]]
        BY <3>1, <3>2, <3>3, <3>4, <3>5
      <3> QED  BY <3>6, Zenon DEF List!IsSelection
    <2>2. CASE p \in 1 .. n /\ entries[p].key = key
      <3> DEFINE up == [i \in 1 .. n - 1 |-> IF i < p THEN i ELSE i + 1]
      <3>1. List!Positions(key) = {p}
        BY <1>0, <2>2 DEF List!Positions, Distinct
      <3>2. Cardinality(kept) = n - 1
        <4>1. kept = (1 .. n) \ {p}  BY <3>1
        <4> QED  BY <1>2, <2>2, <4>1, FS_RemoveElement
      <3>3. entries' = Without(p)  BY <1>0, <2>2 DEF RemoveKey
      <3>4. /\ up \in [1 .. n - 1 -> kept]
            /\ \A i, j \in 1 .. n - 1 : i < j => up[i] < up[j]
        BY <1>0, <2>2, <3>1
      <3>5. Without(p) = [i \in 1 .. n - 1 |-> entries[up[i]]]
        BY <1>0, <2>2 DEF Without
      <3> HIDE DEF up, kept
      <3> QED  BY <3>2, <3>3, <3>4, <3>5, SameCardinality DEF List!IsSelection
    <2> QED  BY <2>1, <2>2, PositionFinds
  <1> QED  BY <1>1, <1>3 DEF List!RemoveKey

\* retain: both sides select the same positions.
LEMMA RetainIsList ==
    ASSUME NEW kept, Retain(kept) PROVE List!Retain(kept)
  <1> DEFINE at == {i \in 1 .. Len(entries) : entries[i].key \in kept}
  <1>1. PICK pos \in Selections(kept) : entries' = [i \in DOMAIN pos |-> entries[pos[i]]]
    BY DEF Retain
  <1>2. /\ pos \in [1 .. Cardinality(at) -> at]
        /\ \A i, j \in 1 .. Cardinality(at) : i < j => pos[i] < pos[j]
    BY <1>1 DEF Selections
  <1>3. entries' = [i \in 1 .. Cardinality(at) |-> entries[pos[i]]]  BY <1>1, <1>2
  <1>4. List!IsSelection(entries', at)
    <2> HIDE DEF at
    <2> QED  BY <1>2, <1>3, SameCardinality DEF List!IsSelection
  <1> QED  BY <1>4 DEF List!Retain, Retain

(* Map keeps the order of insertion and answers as a search, whatever its  *)
(* index does: every behaviour of Map is one of the plain list.            *)
THEOREM MapIsList == Spec => ImplementsList
  <1>1. Init => List!Init
    BY DEF Init, List!Init
  <1>2. Inv /\ [Next]_vars => [List!Next]_(List!vars)
    <2> SUFFICES ASSUME Inv, [Next]_vars PROVE [List!Next]_(List!vars)  OBVIOUS
    <2>1. ASSUME NEW key \in Keys, Get(key) PROVE List!Get(key)
      BY <2>1, SearchAnswers DEF Get, List!Get
    <2>2. ASSUME NEW key \in Keys, RemoveKey(key) PROVE List!RemoveKey(key)
      BY <2>2, RemoveIsList
    <2>3. ASSUME NEW key \in Keys, NEW value \in Values, Insert(key, value)
          PROVE  List!Insert(key, value)
      BY <2>3, InsertIsList
    <2>4. ASSUME NEW kept \in SUBSET Keys, Retain(kept) PROVE List!Retain(kept)
      BY <2>4, RetainIsList
    <2>5. CASE Clear
      BY <2>5 DEF Clear, List!Clear, List!Next
    <2>6. CASE UNCHANGED vars
      BY <2>6 DEF vars, List!vars
    <2> QED  BY <2>1, <2>2, <2>3, <2>4, <2>5, <2>6 DEF Next, List!Next
  <1>3. Spec => []Inv
    BY MapStaysIndexed, PTL DEF Inv
  <1> QED  BY <1>1, <1>2, <1>3, PTL DEF Spec, ImplementsList, List!Spec

-----------------------------------------------------------------------------
(* Recursion over the positions of an input, from its end.                *)

(* A set of natural numbers has a least one: what induction comes down to. *)
LEMMA NatMinimum ==
    ASSUME NEW T \in SUBSET Nat, T # {}
    PROVE  \E m \in T : \A k \in T : m <= k
<1>. DEFINE R == OpToRel(<, Nat)
<1>1. IsWellFoundedOn(R, Nat)
  BY NatLessThanWellFounded
<1>2. \A i, j \in Nat : i < j => <<i, j>> \in R
  BY DEF OpToRel
<1>. HIDE DEF R
<1>3. PICK m \in T : \A k \in T : ~ (<<k, m>> \in R)
  BY <1>1, WFMin, Zenon
<1>4. \A k \in T : m <= k
  <2>. SUFFICES ASSUME NEW k \in T PROVE m <= k
    OBVIOUS
  <2>1. m \in Nat /\ k \in Nat /\ ~(k < m)
    BY <1>2, <1>3
  <2>. QED
    BY <2>1
<1>. QED
  BY <1>4

(* Of the positions of an interval that are in T, one is the last.         *)
LEMMA LastOf ==
    ASSUME NEW n \in Nat, NEW T \in SUBSET (1 .. n), T # {}
    PROVE  \E m \in T : \A k \in T : k <= m
<1>. DEFINE U == {n - k : k \in T}
<1>1. U \in SUBSET Nat /\ U # {}
  <2>1. \A k \in T : n - k \in Nat
    OBVIOUS
  <2>2. PICK t \in T : TRUE
    OBVIOUS
  <2>3. n - t \in U
    OBVIOUS
  <2>. QED
    BY <2>1, <2>3
<1>2. PICK u \in U : \A v \in U : u <= v
  BY <1>1, NatMinimum
<1>3. PICK m \in T : u = n - m
  OBVIOUS
<1>4. ASSUME NEW k \in T PROVE k <= m
  <2>1. n - k \in U /\ k \in 1 .. n /\ m \in 1 .. n
    OBVIOUS
  <2>2. n - m <= n - k
    BY <1>2, <1>3, <2>1
  <2>. QED
    BY <2>1, <2>2
<1>. QED
  BY <1>4

\* Two functions agree at the positions behind i.
SameBehind(n, f, g, i) == \A j \in i + 1 .. n : f[j] = g[j]

\* F computes a value of R for a position from the values behind it.
LooksOn(F, n, R) ==
    /\ \A f \in [1 .. n -> R], i \in 1 .. n : F[f][i] \in R
    /\ \A f, g \in [1 .. n -> R], i \in 1 .. n : SameBehind(n, f, g, i) => F[f][i] = F[g][i]

(* A function on positions, each value computed from the values at later   *)
(* positions, exists.                                                      *)
LEMMA RecursionFromTheEnd ==
    ASSUME NEW n \in Nat, NEW R, NEW r \in R, NEW F, LooksOn(F, n, R)
    PROVE  \E f \in [1 .. n -> R] : \A i \in 1 .. n : f[i] = F[f][i]
<1>. DEFINE D == 1 .. n
            Upto(f, k) == \A i \in D : i > k => f[i] = F[f][i]
            Has(k) == \E f \in [D -> R] : Upto(f, k)
            T == {k \in 0 .. n : Has(k)}
<1>1. Has(n)
  <2>1. [i \in D |-> r] \in [D -> R]
    OBVIOUS
  <2>2. Upto([i \in D |-> r], n)
    OBVIOUS
  <2>. QED
    BY <2>1, <2>2
<1>2. ASSUME NEW k \in 1 .. n, Has(k)
      PROVE  Has(k - 1)
  <2>1. PICK f \in [D -> R] : Upto(f, k)
    BY <1>2
  <2>. DEFINE h == [i \in D |-> IF i = k THEN F[f][k] ELSE f[i]]
  <2>a. F[f][k] \in R
    BY DEF LooksOn
  <2>2. h \in [D -> R] /\ h[k] = F[f][k] /\ \A i \in D : i # k => h[i] = f[i]
    BY <2>a
  <2>. HIDE DEF h
  <2>3. \A i \in D : i >= k => F[h][i] = F[f][i]
    <3>. SUFFICES ASSUME NEW i \in D, i >= k PROVE F[h][i] = F[f][i]
      OBVIOUS
    <3>1. \A j \in i + 1 .. n : j \in D /\ j # k
      OBVIOUS
    <3>2. SameBehind(n, h, f, i)
      BY <2>2, <3>1 DEF SameBehind
    <3>. QED
      BY <2>2, <3>2 DEF LooksOn
  <2>4. Upto(h, k - 1)
    <3>. SUFFICES ASSUME NEW i \in D, i > k - 1 PROVE h[i] = F[h][i]
      OBVIOUS
    <3>1. i >= k /\ F[h][i] = F[f][i]
      BY <2>3
    <3>2. CASE i = k
      BY <2>2, <3>1, <3>2
    <3>3. CASE i # k
      <4>1. i > k
        BY <3>1, <3>3
      <4>. QED
        BY <2>1, <2>2, <3>1, <3>3, <4>1
    <3>. QED
      BY <3>2, <3>3
  <2>. QED
    BY <2>2, <2>4
<1>3. Has(0)
  <2>. HIDE DEF Has
  <2>1. T \in SUBSET Nat /\ T # {}
    BY <1>1
  <2>2. PICK m \in T : \A k \in T : m <= k
    BY <2>1, NatMinimum
  <2>3. CASE m = 0
    BY <2>2, <2>3
  <2>4. CASE m # 0
    <3>1. m \in 1 .. n /\ Has(m)
      BY <2>2, <2>4
    <3>2. Has(m - 1) /\ m - 1 \in 0 .. n
      BY <1>2, <3>1
    <3>. QED
      BY <2>2, <3>1, <3>2
  <2>. QED
    BY <2>3, <2>4
<1>4. \A i \in D : i > 0
  OBVIOUS
<1>. QED
  BY <1>3, <1>4

(* Two of them are the same if each value follows from the later ones.     *)
LEMMA SameFromTheEnd ==
    ASSUME NEW n \in Nat, NEW f, NEW g,
           \A i \in 1 .. n : SameBehind(n, f, g, i) => f[i] = g[i]
    PROVE  \A i \in 1 .. n : f[i] = g[i]
<1>. DEFINE T == {i \in 1 .. n : f[i] # g[i]}
<1>. SUFFICES ASSUME T # {} PROVE FALSE
  OBVIOUS
<1>1. PICK m \in T : \A k \in T : k <= m
  <2>1. T \in SUBSET (1 .. n)
    OBVIOUS
  <2>. HIDE DEF T
  <2>. QED
    BY <2>1, LastOf
<1>2. m \in 1 .. n /\ f[m] # g[m]
  BY <1>1
<1>3. \A j \in m + 1 .. n : j \in 1 .. n /\ j \notin T
  BY <1>1, <1>2
<1>4. SameBehind(n, f, g, m)
  BY <1>3 DEF SameBehind
<1>. QED
  BY <1>2, <1>4

-----------------------------------------------------------------------------
(* Strings.                                                                *)

\* Bytes are of S, and "eof" is not one of them.
Input(s, S) == s \in Seq(S) /\ "eof" \notin S

Chars(S) == S \cup {"esc", "bmp", Pair}

Readout(S) == [ok : BOOLEAN, next : Nat, chars : Seq(Chars(S))]

(* Byte is s inside of s, and "eof" only behind it.                        *)
LEMMA ByteInside ==
    ASSUME NEW S, NEW s, Input(s, S), NEW p \in Nat \ {0}
    PROVE  /\ Len(s) \in Nat
           /\ p <= Len(s) => Byte(s, p) = s[p] /\ s[p] \in S /\ Byte(s, p) # "eof"
           /\ p > Len(s) => Byte(s, p) = "eof"
<1>1. Len(s) \in Nat /\ s \in Seq(S) /\ "eof" \notin S
  BY DEF Input
<1>2. p <= Len(s) => s[p] \in S
  BY <1>1
<1>. QED
  BY <1>1, <1>2 DEF Byte

(* A plain run ends at the first byte that is special, or behind the input. *)
LEMMA PlainEndStops ==
    ASSUME NEW S, NEW s, Input(s, S), NEW p \in 1 .. Len(s) + 1
    PROVE  /\ PlainEnd(s, p) \in p .. Len(s) + 1
           /\ \A i \in p .. PlainEnd(s, p) - 1 : s[i] \notin Specials
           /\ Byte(s, PlainEnd(s, p)) \in Specials \cup {"eof"}
<1>. DEFINE n == Len(s)
            Stop(q) == Byte(s, q) \in Specials \cup {"eof"}
            T == {q \in p .. n + 1 : Stop(q)}
            Is(q) == /\ \A i \in p .. q - 1 : s[i] \notin Specials
                     /\ Stop(q)
<1>1. n \in Nat
  BY DEF Input
<1>2. n + 1 \in T
  <2>1. n + 1 \in Nat \ {0} /\ n + 1 > n /\ n + 1 \in p .. n + 1
    BY <1>1
  <2>2. Byte(s, n + 1) = "eof"
    BY <2>1, ByteInside
  <2>. QED
    BY <2>1, <2>2
<1>3. PICK q \in T : \A k \in T : q <= k
  <2>1. T \in SUBSET Nat
    BY <1>1
  <2>. QED
    BY <1>2, <2>1, NatMinimum
<1>4. Is(q)
  <2>. SUFFICES ASSUME NEW i \in p .. q - 1 PROVE s[i] \notin Specials
    BY <1>3
  <2>1. i \in p .. n + 1 /\ i \notin T /\ i <= n /\ i \in Nat \ {0}
    BY <1>1, <1>3
  <2>2. Byte(s, i) = s[i]
    BY <2>1, ByteInside
  <2>. QED
    BY <2>1, <2>2
<1>. HIDE DEF Stop
<1>5. PlainEnd(s, p) = CHOOSE x \in p .. n + 1 : Is(x)
  BY Zenon DEF PlainEnd, Stop
<1>. HIDE DEF Is
<1>6. q \in p .. n + 1
  BY <1>3
<1>7. PlainEnd(s, p) \in p .. n + 1 /\ Is(PlainEnd(s, p))
  BY <1>4, <1>5, <1>6, Zenon
<1>. QED
  BY <1>7 DEF Is, Stop

(* So it is empty exactly in front of one.                                 *)
LEMMA PlainEndHere ==
    ASSUME NEW S, NEW s, Input(s, S), NEW p \in 1 .. Len(s) + 1
    PROVE  /\ Byte(s, p) \in Specials \cup {"eof"} => PlainEnd(s, p) = p
           /\ Byte(s, p) \notin Specials \cup {"eof"} => PlainEnd(s, p) > p
<1>. DEFINE q == PlainEnd(s, p)
<1>1. /\ q \in p .. Len(s) + 1
      /\ \A i \in p .. q - 1 : s[i] \notin Specials
      /\ Byte(s, q) \in Specials \cup {"eof"}
  BY PlainEndStops
<1>2. Len(s) \in Nat
  BY DEF Input
<1>. HIDE DEF q
<1>3. ASSUME Byte(s, p) \in Specials \cup {"eof"}, q # p
      PROVE  FALSE
  <2>1. p \in p .. q - 1 /\ p <= Len(s) /\ p \in Nat \ {0}
    BY <1>1, <1>2, <1>3
  <2>2. Byte(s, p) = s[p] /\ Byte(s, p) # "eof"
    BY <2>1, ByteInside
  <2>. QED
    BY <1>1, <1>3, <2>1, <2>2
<1>4. ASSUME Byte(s, p) \notin Specials \cup {"eof"}
      PROVE  q > p
  BY <1>1, <1>2, <1>4
<1>. QED
  BY <1>3, <1>4 DEF q

(* An escape that is read ends inside the input, two bytes on at least.    *)
LEMMA EscapeEnds ==
    ASSUME NEW S, NEW s, Input(s, S), NEW p \in 1 .. Len(s)
    PROVE  /\ Escape(s, p) \in Readout(S)
           /\ Escape(s, p).ok => Escape(s, p).next \in p + 2 .. Len(s) + 1
<1>. DEFINE n == Len(s)
            a == Escape(s, p)
<1>1. n \in Nat /\ p \in Nat \ {0}
  BY DEF Input
<1>2. \A q \in Nat \ {0} : Byte(s, q) # "eof" => q <= n
  BY <1>1, ByteInside
<1>3. \A c \in {"esc", "bmp", Pair} : <<c>> \in Seq(Chars(S))
  BY DEF Chars
<1>4. \A x \in Nat, c \in {"esc", "bmp", Pair} :
         /\ Accepted(x, <<c>>) \in Readout(S)
         /\ Accepted(x, <<c>>).next = x
  <2>. SUFFICES ASSUME NEW x \in Nat, NEW c \in {"esc", "bmp", Pair}
                PROVE  Accepted(x, <<c>>) \in Readout(S) /\ Accepted(x, <<c>>).next = x
    OBVIOUS
  <2>. DEFINE cs == <<c>>
  <2>1. cs \in Seq(Chars(S))
    BY <1>3
  <2>. HIDE DEF cs
  <2>2. Accepted(x, cs) \in Readout(S) /\ Accepted(x, cs).next = x
    BY <2>1 DEF Accepted, Readout
  <2>. QED
    BY <2>2 DEF cs
<1>5. Refused \in Readout(S) /\ ~Refused.ok
  <2>. DEFINE cs == <<>>
  <2>1. cs \in Seq(Chars(S))
    OBVIOUS
  <2>2. Refused = [ok |-> FALSE, next |-> 0, chars |-> cs]
    BY DEF Refused
  <2>. HIDE DEF cs
  <2>. QED
    BY <2>1, <2>2 DEF Readout
<1>6. CASE a = Refused
  BY <1>5, <1>6
<1>7. CASE Byte(s, p + 1) \in {"n", "q", "bs"} /\ a = Accepted(p + 2, <<"esc">>)
  <2>1. p + 1 <= n /\ p + 2 \in p + 2 .. n + 1 /\ p + 2 \in Nat
    BY <1>1, <1>2, <1>7
  <2>. QED
    BY <1>4, <1>7, <2>1
<1>8. CASE Byte(s, p + 1) = "u" /\ Byte(s, p + 2) = "bmp" /\ a = Accepted(p + 3, <<"bmp">>)
  <2>1. p + 2 <= n /\ p + 3 \in p + 2 .. n + 1 /\ p + 3 \in Nat
    BY <1>1, <1>2, <1>8
  <2>. QED
    BY <1>4, <1>8, <2>1
<1>9. CASE Byte(s, p + 1) = "u" /\ Byte(s, p + 5) = "lo" /\ a = Accepted(p + 6, <<Pair>>)
  <2>1. p + 5 <= n /\ p + 6 \in p + 2 .. n + 1 /\ p + 6 \in Nat
    BY <1>1, <1>2, <1>9
  <2>. QED
    BY <1>4, <1>9, <2>1
<1>10. \/ a = Refused
       \/ Byte(s, p + 1) \in {"n", "q", "bs"} /\ a = Accepted(p + 2, <<"esc">>)
       \/ Byte(s, p + 1) = "u" /\ a = UnicodeEscape(s, p + 2)
  BY DEF Escape
<1>11. \/ UnicodeEscape(s, p + 2) = Refused
       \/ Byte(s, p + 2) = "bmp" /\ UnicodeEscape(s, p + 2) = Accepted(p + 2 + 1, <<"bmp">>)
       \/ Byte(s, p + 2 + 3) = "lo" /\ UnicodeEscape(s, p + 2) = Accepted(p + 2 + 4, <<Pair>>)
  BY DEF UnicodeEscape
<1>12. p + 2 + 1 = p + 3 /\ p + 2 + 3 = p + 5 /\ p + 2 + 4 = p + 6
  BY <1>1
<1>. HIDE DEF a
<1>13. a = Escape(s, p)
  BY DEF a
<1>. QED
  BY <1>6, <1>7, <1>8, <1>9, <1>10, <1>11, <1>12, <1>13, Zenon

(* One step of a lexer: what stops the run at q yields, with what follows  *)
(* an escape in f, and what a run in front of it adds.                     *)
Stopped(s, f, q) ==
    IF Byte(s, q) = "q" THEN Accepted(q + 1, <<>>)
    ELSE IF Byte(s, q) = "bs" /\ Escape(s, q).ok /\ f[Escape(s, q).next].ok
    THEN Accepted(f[Escape(s, q).next].next, Escape(s, q).chars \o f[Escape(s, q).next].chars)
    ELSE Refused

Behind(run, a) == IF a.ok THEN Accepted(a.next, run \o a.chars) ELSE Refused

\* The bodies of the two loops.
BytesStep(s, f, i) ==
    LET More(a) == IF a.ok /\ f[a.next].ok
                   THEN Accepted(f[a.next].next, a.chars \o f[a.next].chars)
                   ELSE Refused
    IN  CASE Byte(s, i) = "q" -> Accepted(i + 1, <<>>)
          [] Byte(s, i) = "bs" -> More(Escape(s, i))
          [] Byte(s, i) \in {"eof", "ctl"} -> Refused
          [] OTHER -> IF Utf8(s, i, PlainEnd(s, i))
                      THEN More(Accepted(PlainEnd(s, i), Text(s, i, PlainEnd(s, i))))
                      ELSE Refused

StreamStep(s, f, i) ==
    LET q == PlainEnd(s, i)
        run == Text(s, i, q)
        After(escape) ==
            IF escape.ok /\ f[escape.next].ok
            THEN Accepted(f[escape.next].next, run \o escape.chars \o f[escape.next].chars)
            ELSE Refused
    IN  CASE ~Utf8(s, i, q) \/ Byte(s, q) \in {"ctl", "eof"} -> Refused
          [] Utf8(s, i, q) /\ Byte(s, q) = "q"  -> Accepted(q + 1, run)
          [] Utf8(s, i, q) /\ Byte(s, q) = "bs" -> After(Escape(s, q))

(* unescape and lex_string are such functions.                             *)
LEMMA BytesIsRecursive ==
    ASSUME NEW s, NEW p
    PROVE  BytesUnescape(s, p) = (CHOOSE f : f = [i \in 1 .. Len(s) + 1 |-> BytesStep(s, f, i)])[p]
BY Zenon DEF BytesUnescape, BytesStep

(* The same of lex_string.                                                 *)
LEMMA StreamIsRecursive ==
    ASSUME NEW s, NEW p
    PROVE  StreamString(s, p) = (CHOOSE f : f = [i \in 1 .. Len(s) + 1 |-> StreamStep(s, f, i)])[p + 1]
BY Zenon DEF StreamString, StreamStep

(* A readout is refused, or is a success.                                  *)
LEMMA Readouts ==
    ASSUME NEW S
    PROVE  /\ Refused \in Readout(S) /\ ~Refused.ok
           /\ \A next \in Nat, chars \in Seq(Chars(S)) :
                 /\ Accepted(next, chars) \in Readout(S)
                 /\ Accepted(next, chars).ok /\ Accepted(next, chars).next = next
                 /\ Accepted(next, chars).chars = chars
<1>. DEFINE none == <<>>
<1>1. none \in Seq(Chars(S))
  OBVIOUS
<1>2. Refused = [ok |-> FALSE, next |-> 0, chars |-> none]
  BY DEF Refused
<1>. HIDE DEF none
<1>3. Refused \in Readout(S) /\ ~Refused.ok
  BY <1>1, <1>2 DEF Readout
<1>. QED
  BY <1>3 DEF Readout, Accepted

(* The text between two positions is what was read there.                  *)
LEMMA TextIsRead ==
    ASSUME NEW S, NEW s, Input(s, S), NEW from \in 1 .. Len(s) + 1, NEW end \in from .. Len(s) + 1
    PROVE  Text(s, from, end) \in Seq(Chars(S))
<1>1. s \in Seq(S) /\ Len(s) \in Nat
  BY DEF Input
<1>2. \A i \in from .. end - 1 : s[i] \in Chars(S)
  BY <1>1 DEF Chars
<1>. QED
  BY <1>1, <1>2 DEF Text

\* Three texts in a row are one, in either order.
Associates(T) == \A x, y, z \in Seq(T) : (x \o y) \o z = x \o (y \o z)

(* All texts do so.                                                        *)
LEMMA Concats == ASSUME NEW T PROVE Associates(T)
BY ConcatAssociative DEF Associates

(* What a loop makes of a run and what stopped it is a readout.            *)
LEMMA StoppedReads ==
    ASSUME NEW S, NEW s, Input(s, S), NEW q \in 1 .. Len(s) + 1,
           NEW f \in [1 .. Len(s) + 1 -> Readout(S)]
    PROVE  Stopped(s, f, q) \in Readout(S)
<1>. DEFINE n == Len(s)
            e == Escape(s, q)
            a == f[e.next]
<1>1. n \in Nat /\ q \in Nat \ {0} /\ q + 1 \in Nat
  BY DEF Input
<1>2. Refused \in Readout(S) /\ Accepted(q + 1, <<>>) \in Readout(S)
  <2>. DEFINE none == <<>>
  <2>1. none \in Seq(Chars(S))
    OBVIOUS
  <2>. HIDE DEF none
  <2>2. Accepted(q + 1, none) \in Readout(S)
    BY <1>1, <2>1, Readouts
  <2>. QED
    BY <2>2, Readouts DEF none
<1>3. ASSUME Byte(s, q) = "bs", e.ok
      PROVE  Accepted(a.next, e.chars \o a.chars) \in Readout(S)
  <2>1. q <= n
    BY <1>1, <1>3, ByteInside
  <2>2. q \in 1 .. n
    BY <1>1, <2>1
  <2>3. e \in Readout(S) /\ e.next \in q + 2 .. n + 1
    BY <1>3, <2>2, EscapeEnds
  <2>4. e.next \in 1 .. n + 1
    BY <1>1, <2>3
  <2>. HIDE DEF e
  <2>5. a \in Readout(S)
    BY <2>4
  <2>. HIDE DEF a
  <2>6. a.next \in Nat /\ a.chars \in Seq(Chars(S)) /\ e.chars \in Seq(Chars(S))
    BY <2>3, <2>5 DEF Readout
  <2>7. e.chars \o a.chars \in Seq(Chars(S))
    BY <2>6
  <2>. QED
    BY <2>6, <2>7, Readouts
<1>. QED
  BY <1>2, <1>3 DEF Stopped

(* What is read at q depends only on what follows q.                       *)
LEMMA StoppedLooksOn ==
    ASSUME NEW S, NEW s, Input(s, S), NEW q \in 1 .. Len(s) + 1, NEW f, NEW g,
           \A j \in q + 1 .. Len(s) + 1 : f[j] = g[j]
    PROVE  Stopped(s, f, q) = Stopped(s, g, q)
<1>. DEFINE e == Escape(s, q)
<1>1. Len(s) \in Nat /\ q \in Nat \ {0}
  BY DEF Input
<1>2. ASSUME Byte(s, q) = "bs", e.ok
      PROVE  f[e.next] = g[e.next]
  <2>1. q <= Len(s)
    BY <1>1, <1>2, ByteInside
  <2>2. q \in 1 .. Len(s)
    BY <1>1, <2>1
  <2>3. e.next \in q + 2 .. Len(s) + 1
    BY <1>2, <2>2, EscapeEnds
  <2>. HIDE DEF e
  <2>4. e.next \in q + 1 .. Len(s) + 1
    BY <1>1, <2>3
  <2>. QED
    BY <2>4
<1>. QED
  BY <1>2 DEF Stopped

(* The loop over the bytes, by where it is; and the loop over runs.        *)
LEMMA BytesSteps ==
    ASSUME NEW S, NEW s, Input(s, S), NEW f, NEW i \in 1 .. Len(s) + 1
    PROVE  BytesStep(s, f, i) =
              IF Byte(s, i) \in Specials \cup {"eof"} THEN Stopped(s, f, i)
              ELSE IF Utf8(s, i, PlainEnd(s, i))
              THEN Behind(Text(s, i, PlainEnd(s, i)), f[PlainEnd(s, i)])
              ELSE Refused
<1>1. \A next, chars : /\ Accepted(next, chars).ok
                       /\ Accepted(next, chars).next = next
                       /\ Accepted(next, chars).chars = chars
  BY DEF Accepted
<1>. QED
  BY <1>1 DEF BytesStep, Stopped, Behind, Specials

(* The same step of the loop over runs, by what stopped the run.           *)
LEMMA StreamSteps ==
    ASSUME NEW S, NEW s, Input(s, S), NEW f \in [1 .. Len(s) + 1 -> Readout(S)],
           NEW i \in 1 .. Len(s) + 1
    PROVE  StreamStep(s, f, i) =
              IF Utf8(s, i, PlainEnd(s, i))
              THEN Behind(Text(s, i, PlainEnd(s, i)), Stopped(s, f, PlainEnd(s, i)))
              ELSE Refused
<1>0. Associates(Chars(S))
  BY Concats
<1>. DEFINE n == Len(s)
            q == PlainEnd(s, i)
            e == Escape(s, q)
            a == f[e.next]
            run == Text(s, i, q)
<1>1. /\ n \in Nat /\ i \in Nat \ {0}
      /\ q \in i .. n + 1
      /\ Byte(s, q) \in Specials \cup {"eof"}
  BY PlainEndStops DEF Input
<1>2. q \in 1 .. n + 1 /\ run \in Seq(Chars(S))
  <2>. HIDE DEF q
  <2>1. q \in 1 .. n + 1
    BY <1>1
  <2>2. Text(s, i, q) \in Seq(Chars(S))
    BY <1>1, TextIsRead
  <2>. QED
    BY <2>1, <2>2
<1>3. \A next, chars : /\ Accepted(next, chars).ok
                       /\ Accepted(next, chars).next = next
                       /\ Accepted(next, chars).chars = chars
  BY DEF Accepted
<1>4. CASE ~Utf8(s, i, q)
  BY <1>4 DEF StreamStep
<1>5. ~Refused.ok
  BY DEF Refused
<1>6. CASE Utf8(s, i, q) /\ Byte(s, q) \in {"ctl", "eof"}
  <2>1. StreamStep(s, f, i) = Refused
    BY <1>6 DEF StreamStep
  <2>2. Stopped(s, f, q) = Refused
    BY <1>6 DEF Stopped
  <2>. QED
    BY <1>5, <1>6, <2>1, <2>2 DEF Behind
<1>7. CASE Utf8(s, i, q) /\ Byte(s, q) = "q"
  <2>1. StreamStep(s, f, i) = Accepted(q + 1, run)
    BY <1>7 DEF StreamStep
  <2>2. Stopped(s, f, q) = Accepted(q + 1, <<>>)
    BY <1>7 DEF Stopped
  <2>3. run \o <<>> = run
    BY <1>2, ConcatEmptySeq, Zenon
  <2>. HIDE DEF run
  <2>4. Behind(run, Accepted(q + 1, <<>>)) = Accepted(q + 1, run)
    BY <1>3, <2>3, Zenon DEF Behind
  <2>5. run = Text(s, i, q)
    BY DEF run
  <2>. QED
    BY <1>7, <2>1, <2>2, <2>4, <2>5, Zenon
<1>8. CASE Utf8(s, i, q) /\ Byte(s, q) = "bs"
  <2>1. StreamStep(s, f, i) =
           IF e.ok /\ a.ok THEN Accepted(a.next, run \o e.chars \o a.chars) ELSE Refused
    BY <1>8 DEF StreamStep
  <2>2. Stopped(s, f, q) =
           IF e.ok /\ a.ok THEN Accepted(a.next, e.chars \o a.chars) ELSE Refused
    BY <1>8 DEF Stopped
  <2>3. ASSUME e.ok
        PROVE  run \o e.chars \o a.chars = run \o (e.chars \o a.chars)
    <3>1. q <= n
      BY <1>1, <1>8, ByteInside
    <3>2. q \in 1 .. n
      BY <1>1, <3>1
    <3>3. e \in Readout(S) /\ e.next \in q + 2 .. n + 1
      BY <2>3, <3>2, EscapeEnds
    <3>. HIDE DEF q
    <3>4. e.next \in 1 .. n + 1
      BY <1>1, <1>2, <3>3
    <3>. HIDE DEF e
    <3>5. a \in Readout(S)
      BY <3>4
    <3>. HIDE DEF a
    <3>6. a.chars \in Seq(Chars(S)) /\ e.chars \in Seq(Chars(S))
      BY <3>3, <3>5 DEF Readout
    <3>. HIDE DEF run
    <3>. QED
      BY <1>0, <1>2, <3>6, Zenon DEF Associates
  <2>. HIDE DEF e, a, run
  <2>4. Behind(run, Stopped(s, f, q)) =
           IF e.ok /\ a.ok THEN Accepted(a.next, run \o (e.chars \o a.chars)) ELSE Refused
    <3>1. CASE e.ok /\ a.ok
      BY <1>3, <2>2, <3>1 DEF Behind
    <3>2. CASE ~(e.ok /\ a.ok)
      BY <1>5, <2>2, <3>2 DEF Behind
    <3>. QED
      BY <3>1, <3>2
  <2>5. StreamStep(s, f, i) = Behind(run, Stopped(s, f, q))
    <3>1. CASE e.ok /\ a.ok
      <4>1. StreamStep(s, f, i) = Accepted(a.next, run \o e.chars \o a.chars)
        BY <2>1, <3>1
      <4>2. Behind(run, Stopped(s, f, q)) = Accepted(a.next, run \o (e.chars \o a.chars))
        BY <2>4, <3>1
      <4>. QED
        BY <2>3, <3>1, <4>1, <4>2, Zenon
    <3>2. CASE ~(e.ok /\ a.ok)
      BY <2>1, <2>4, <3>2
    <3>. QED
      BY <3>1, <3>2
  <2>. QED
    BY <1>8, <2>5 DEF run
<1>. QED
  BY <1>1, <1>4, <1>6, <1>7, <1>8 DEF Specials

(* A text of no character changes no readout.                              *)
LEMMA NothingBehind ==
    ASSUME NEW S, NEW s, NEW f, NEW q
    PROVE  Stopped(s, f, q) \in Readout(S) => Behind(<<>>, Stopped(s, f, q)) = Stopped(s, f, q)
<1>. DEFINE a == Stopped(s, f, q)
<1>1. a = Refused \/ \E next, chars : a = Accepted(next, chars)
  BY DEF Stopped
<1>2. ASSUME a \in Readout(S)
      PROVE  <<>> \o a.chars = a.chars
  <2>. HIDE DEF a
  <2>1. a.chars \in Seq(Chars(S))
    BY <1>2 DEF Readout
  <2>. QED
    BY <2>1, ConcatEmptySeq
<1>. HIDE DEF a
<1>3. ~Refused.ok
  BY DEF Refused
<1>4. \A next, chars : a = Accepted(next, chars) =>
         a.ok /\ a.next = next /\ a.chars = chars
  BY DEF Accepted
<1>5. a \in Readout(S) => Behind(<<>>, a) = a
  BY <1>1, <1>2, <1>3, <1>4 DEF Behind
<1>. QED
  BY <1>5 DEF a

\* f says what there is to read from every position of s.
Reads(s, S, f) ==
    /\ f \in [1 .. Len(s) + 1 -> Readout(S)]
    /\ \A i \in 1 .. Len(s) + 1 : f[i] = BytesStep(s, f, i)

(* Both loops are functions: each step reads only what is behind it.       *)
LEMMA BytesReads ==
    ASSUME NEW S, NEW s, Input(s, S)
    PROVE  \E f :
              /\ Reads(s, S, f)
              /\ \A p \in 1 .. Len(s) + 1 : BytesUnescape(s, p) = f[p]
<1>. DEFINE n == Len(s) + 1
            D == 1 .. n
            R == Readout(S)
            F == [f \in [D -> R] |-> [i \in D |-> BytesStep(s, f, i)]]
            Is(f) == f = [i \in D |-> BytesStep(s, f, i)]
<1>1. n \in Nat /\ n \in Nat \ {0}
  BY DEF Input
<1>2. Refused \in R /\ ~Refused.ok
  BY Readouts
<1>3. ASSUME NEW i \in D
      PROVE  /\ i + 1 \in Nat
             /\ PlainEnd(s, i) \in i .. n
             /\ Byte(s, i) \notin Specials \cup {"eof"} => PlainEnd(s, i) \in i + 1 .. n
             /\ Text(s, i, PlainEnd(s, i)) \in Seq(Chars(S))
  <2>. DEFINE q == PlainEnd(s, i)
  <2>1. q \in i .. n
    BY PlainEndStops
  <2>2. Text(s, i, q) \in Seq(Chars(S))
    BY <2>1, TextIsRead
  <2>3. Byte(s, i) \notin Specials \cup {"eof"} => q > i
    BY PlainEndHere
  <2>. HIDE DEF q
  <2>4. Byte(s, i) \notin Specials \cup {"eof"} => q \in i + 1 .. n
    BY <1>1, <2>1, <2>3
  <2>5. i + 1 \in Nat
    BY <1>1
  <2>. QED
    BY <2>1, <2>2, <2>4, <2>5 DEF q
<1>4. \A run \in Seq(Chars(S)), a \in R : Behind(run, a) \in R
  <2>. SUFFICES ASSUME NEW run \in Seq(Chars(S)), NEW a \in R PROVE Behind(run, a) \in R
    OBVIOUS
  <2>1. a.next \in Nat /\ a.chars \in Seq(Chars(S))
    BY DEF Readout
  <2>2. run \o a.chars \in Seq(Chars(S))
    BY <2>1
  <2>. QED
    BY <1>2, <2>1, <2>2, Readouts DEF Behind
<1>5. \A f \in [D -> R], i \in D : BytesStep(s, f, i) \in R
  <2>. SUFFICES ASSUME NEW f \in [D -> R], NEW i \in D PROVE BytesStep(s, f, i) \in R
    OBVIOUS
  <2>. DEFINE q == PlainEnd(s, i)
              run == Text(s, i, q)
              plain == Behind(run, f[q])
              stop == Stopped(s, f, i)
  <2>1. stop \in R
    BY StoppedReads
  <2>2. Byte(s, i) \notin Specials \cup {"eof"} => plain \in R
    <3>. SUFFICES ASSUME Byte(s, i) \notin Specials \cup {"eof"} PROVE plain \in R
      OBVIOUS
    <3>1. q \in D /\ run \in Seq(Chars(S))
      <4>1. q \in i + 1 .. n /\ run \in Seq(Chars(S))
        BY <1>3
      <4>. HIDE DEF q
      <4>. QED
        BY <1>1, <4>1
    <3>2. f[q] \in R
      BY <3>1
    <3>. QED
      BY <1>4, <3>1, <3>2
  <2>3. BytesStep(s, f, i) = IF Byte(s, i) \in Specials \cup {"eof"} THEN stop
                             ELSE IF Utf8(s, i, q) THEN plain ELSE Refused
    BY BytesSteps
  <2>. HIDE DEF plain, stop
  <2>. QED
    BY <1>2, <2>1, <2>2, <2>3
<1>6. \A f, g \in [D -> R], i \in D :
         (\A j \in i + 1 .. n : f[j] = g[j]) => BytesStep(s, f, i) = BytesStep(s, g, i)
  <2>. SUFFICES ASSUME NEW f \in [D -> R], NEW g \in [D -> R], NEW i \in D,
                       \A j \in i + 1 .. n : f[j] = g[j]
                PROVE  BytesStep(s, f, i) = BytesStep(s, g, i)
    OBVIOUS
  <2>1. Stopped(s, f, i) = Stopped(s, g, i)
    BY StoppedLooksOn
  <2>2. Byte(s, i) \notin Specials \cup {"eof"} => f[PlainEnd(s, i)] = g[PlainEnd(s, i)]
    BY <1>3
  <2>. QED
    BY <2>1, <2>2, BytesSteps
<1>7. \A f \in [D -> R] : F[f] = [i \in D |-> BytesStep(s, f, i)]
  BY Zenon
<1>8. \A f \in [D -> R], i \in D : F[f][i] = BytesStep(s, f, i)
  BY <1>7, Zenon
<1>. HIDE DEF F
<1>9. PICK f \in [D -> R] : \A i \in D : f[i] = F[f][i]
  <2>1. \A f \in [D -> R], i \in D : F[f][i] \in R
    BY <1>5, <1>8, Zenon
  <2>2. \A f, g \in [D -> R], i \in D : SameBehind(n, f, g, i) => F[f][i] = F[g][i]
    <3>. SUFFICES ASSUME NEW f \in [D -> R], NEW g \in [D -> R], NEW i \in D,
                         SameBehind(n, f, g, i)
                  PROVE  F[f][i] = F[g][i]
      BY Zenon
    <3>1. BytesStep(s, f, i) = BytesStep(s, g, i)
      BY <1>6 DEF SameBehind
    <3>. QED
      BY <1>8, <3>1, Zenon
  <2>3. LooksOn(F, n, R)
    BY <2>1, <2>2, Zenon DEF LooksOn
  <2>. HIDE DEF R, n
  <2>. QED
    BY <1>1, <1>2, <2>3, RecursionFromTheEnd
<1>10. Is(f)
  BY <1>8, <1>9
<1>. DEFINE h == CHOOSE g : Is(g)
<1>11. Is(h)
  BY <1>10, Zenon
<1>12. \A p : BytesUnescape(s, p) = h[p]
  BY BytesIsRecursive, Zenon
<1>. HIDE DEF h
<1>13. \A i \in D : h[i] = BytesStep(s, h, i) /\ f[i] = BytesStep(s, f, i)
  BY <1>10, <1>11
<1>14. ASSUME NEW i \in D, \A j \in i + 1 .. n : f[j] = h[j]
       PROVE  f[i] = h[i]
  <2>1. Stopped(s, f, i) = Stopped(s, h, i)
    BY <1>14, StoppedLooksOn
  <2>2. Byte(s, i) \notin Specials \cup {"eof"} => f[PlainEnd(s, i)] = h[PlainEnd(s, i)]
    BY <1>3, <1>14
  <2>3. BytesStep(s, f, i) = BytesStep(s, h, i)
    BY <2>1, <2>2, BytesSteps
  <2>. QED
    BY <1>13, <2>3
<1>15. \A i \in D : f[i] = h[i]
  <2>1. \A i \in D : SameBehind(n, f, h, i) => f[i] = h[i]
    BY <1>14 DEF SameBehind
  <2>. HIDE DEF n
  <2>. QED
    BY <1>1, <2>1, SameFromTheEnd
<1>16. Reads(s, S, f)
  BY <1>13 DEF Reads
<1>. QED
  BY <1>12, <1>15, <1>16

(* The loop over runs makes of a position what the loop over bytes makes.  *)
LEMMA StreamReads ==
    ASSUME NEW S, NEW s, Input(s, S), NEW f, Reads(s, S, f),
           NEW p \in 0 .. Len(s)
    PROVE  StreamString(s, p) = f[p + 1]
<1>. DEFINE n == Len(s) + 1
            D == 1 .. n
            Is(g) == g = [i \in D |-> StreamStep(s, g, i)]
            h == CHOOSE g : Is(g)
<1>1. n \in Nat
  BY DEF Input
<1>. f \in [D -> Readout(S)] /\ \A i \in D : f[i] = BytesStep(s, f, i)
  BY DEF Reads
<1>2. ASSUME NEW i \in D
      PROVE  /\ PlainEnd(s, i) \in i .. n /\ PlainEnd(s, i) \in D
             /\ Byte(s, PlainEnd(s, i)) \in Specials \cup {"eof"}
             /\ Byte(s, i) \in Specials \cup {"eof"} => PlainEnd(s, i) = i
  <2>. DEFINE q == PlainEnd(s, i)
  <2>1. q \in i .. n /\ Byte(s, q) \in Specials \cup {"eof"}
    BY PlainEndStops
  <2>2. Byte(s, i) \in Specials \cup {"eof"} => q = i
    BY PlainEndHere
  <2>. HIDE DEF q
  <2>3. q \in D
    BY <1>1, <2>1
  <2>. QED
    BY <2>1, <2>2, <2>3 DEF q
<1>3. ASSUME NEW i \in D
      PROVE  f[i] = StreamStep(s, f, i)
  <2>. DEFINE q == PlainEnd(s, i)
              run == Text(s, i, q)
  <2>1. StreamStep(s, f, i) = IF Utf8(s, i, q) THEN Behind(run, Stopped(s, f, q)) ELSE Refused
    BY StreamSteps
  <2>2. CASE Byte(s, i) \in Specials \cup {"eof"}
    <3>1. q = i /\ i \in Nat
      BY <1>1, <1>2, <2>2
    <3>2. Utf8(s, i, i) /\ Text(s, i, i) = <<>>
      <4>1. i - 1 < i
        BY <3>1
      <4>. QED
        BY <3>1, <4>1 DEF Utf8, Text
    <3>3. f[i] = Stopped(s, f, i) /\ f[i] \in Readout(S)
      BY <2>2, BytesSteps
    <3>4. Behind(<<>>, Stopped(s, f, i)) = Stopped(s, f, i)
      BY StoppedReads, NothingBehind
    <3>. QED
      BY <2>1, <3>1, <3>2, <3>3, <3>4
  <2>3. CASE Byte(s, i) \notin Specials \cup {"eof"}
    <3>1. f[i] = IF Utf8(s, i, q) THEN Behind(run, f[q]) ELSE Refused
      BY <2>3, BytesSteps
    <3>2. f[q] = Stopped(s, f, q)
      BY <1>2, BytesSteps
    <3>. QED
      BY <2>1, <3>1, <3>2
  <2>. QED
    BY <2>2, <2>3
<1>4. Is(f)
  BY <1>3
<1>5. Is(h)
  BY <1>4, Zenon
<1>6. StreamString(s, p) = h[p + 1]
  BY StreamIsRecursive, Zenon
<1>. HIDE DEF h
<1>7. \A i \in D : h[i] = StreamStep(s, h, i)
  BY <1>5
<1>8. ASSUME NEW i \in D, \A j \in i + 1 .. n : f[j] = h[j]
      PROVE  f[i] = h[i]
  <2>. DEFINE q == PlainEnd(s, i)
              e == Escape(s, q)
  <2>1. ASSUME Byte(s, q) = "bs", e.ok
        PROVE  f[e.next] = h[e.next]
    <3>1. q \in i .. n /\ q \in D
      BY <1>2
    <3>2. q <= Len(s)
      <4>. HIDE DEF q
      <4>1. q \in Nat \ {0}
        BY <1>1, <3>1
      <4>. QED
        BY <2>1, <4>1, ByteInside
    <3>3. q \in 1 .. Len(s)
      <4>. HIDE DEF q
      <4>. QED
        BY <1>1, <3>1, <3>2
    <3>4. e.next \in q + 2 .. Len(s) + 1
      BY <2>1, <3>3, EscapeEnds
    <3>5. e.next \in i + 1 .. n
      <4>. HIDE DEF e, q
      <4>. QED
        BY <1>1, <3>1, <3>4
    <3>. QED
      BY <1>8, <3>5
  <2>2. StreamStep(s, f, i) = StreamStep(s, h, i)
    BY <2>1 DEF StreamStep
  <2>. QED
    BY <1>3, <1>7, <2>2
<1>9. \A i \in D : f[i] = h[i]
  <2>1. \A i \in D : SameBehind(n, f, h, i) => f[i] = h[i]
    BY <1>8 DEF SameBehind
  <2>. HIDE DEF n
  <2>. QED
    BY <1>1, <2>1, SameFromTheEnd
<1>10. p + 1 \in D
  BY <1>1
<1>. QED
  BY <1>6, <1>9, <1>10

(* The first special byte is where the plain run stops.                    *)
LEMMA FirstSpecial ==
    ASSUME NEW S, NEW s, Input(s, S), NEW p \in 1 .. Len(s)
    PROVE  LET special == {i \in p + 1 .. Len(s) : s[i] \in Specials}
               q == PlainEnd(s, p + 1)
           IN  /\ special = {} => q = Len(s) + 1
               /\ special # {} => /\ q \in special
                                  /\ q = CHOOSE i \in special : \A j \in special : i <= j
<1>. DEFINE n == Len(s)
            special == {i \in p + 1 .. n : s[i] \in Specials}
            q == PlainEnd(s, p + 1)
<1>1. n \in Nat /\ p \in Nat /\ p + 1 \in 1 .. n + 1
  BY DEF Input
<1>2. /\ q \in p + 1 .. n + 1
      /\ \A i \in p + 1 .. q - 1 : s[i] \notin Specials
      /\ Byte(s, q) \in Specials \cup {"eof"}
  BY <1>1, PlainEndStops
<1>. HIDE DEF q
<1>3. q \in Nat \ {0} /\ n \in Nat
  BY <1>1, <1>2
<1>4. q <= n => q \in special
  <2>. SUFFICES ASSUME q <= n PROVE q \in special
    OBVIOUS
  <2>1. Byte(s, q) = s[q] /\ Byte(s, q) # "eof"
    BY <1>3, ByteInside
  <2>2. q \in p + 1 .. n
    BY <1>1, <1>2, <1>3
  <2>. QED
    BY <1>2, <2>1, <2>2
<1>5. \A i \in special : i >= q
  <2>. SUFFICES ASSUME NEW i \in special, i < q PROVE FALSE
    BY <1>1, <1>3
  <2>1. i \in p + 1 .. q - 1
    BY <1>1, <1>3
  <2>. QED
    BY <1>2, <2>1
<1>6. special = {} => q = n + 1
  BY <1>1, <1>2, <1>3, <1>4
<1>7. special # {} => q \in special
  <2>. SUFFICES ASSUME NEW i \in special PROVE q \in special
    OBVIOUS
  <2>1. q <= i /\ i <= n /\ i \in Nat
    BY <1>1, <1>5
  <2>2. q <= n
    BY <1>3, <2>1
  <2>. QED
    BY <1>4, <2>2
<1>8. special # {} => q = CHOOSE i \in special : \A j \in special : i <= j
  <2>. SUFFICES ASSUME special # {} PROVE q = CHOOSE i \in special : \A j \in special : i <= j
    OBVIOUS
  <2>. DEFINE Least(i) == \A j \in special : i <= j
  <2>1. q \in special /\ Least(q)
    BY <1>5, <1>7, <1>3
  <2>2. special \in SUBSET Nat
    BY <1>1
  <2>3. \A i, k \in special : Least(i) /\ Least(k) => i = k
    <3>. HIDE DEF special
    <3>. QED
      BY <2>2
  <2>. HIDE DEF Least, special
  <2>4. q = CHOOSE i \in special : Least(i)
    BY <2>1, <2>3, Zenon
  <2>. QED
    BY <2>4, Zenon DEF Least
<1>. HIDE DEF special, n
<1>. QED
  BY <1>6, <1>7, <1>8, Zenon DEF q, special, n

(* Reading a string whole, or borrowing it where it has no escape, is       *)
(* unescaping it from its first byte on.                                   *)
LEMMA StringIsUnescaped ==
    ASSUME NEW S, NEW s, Input(s, S), NEW p \in 1 .. Len(s)
    PROVE  /\ BytesString(s, p) = BytesUnescape(s, p + 1)
           /\ BytesString(s, p) = StreamString(s, p)
<1>. DEFINE n == Len(s)
            special == {i \in p + 1 .. n : s[i] \in Specials}
            q == PlainEnd(s, p + 1)
            run == Text(s, p + 1, q)
<1>1. PICK f : Reads(s, S, f) /\ \A i \in 1 .. n + 1 : BytesUnescape(s, i) = f[i]
  BY BytesReads
<1>. f \in [1 .. n + 1 -> Readout(S)] /\ \A i \in 1 .. n + 1 : f[i] = BytesStep(s, f, i)
  BY <1>1 DEF Reads
<1>2. n \in Nat /\ p \in 0 .. n /\ p + 1 \in 1 .. n + 1 /\ p \in Nat
  BY DEF Input
<1>3. StreamString(s, p) = f[p + 1]
  BY <1>1, <1>2, StreamReads
<1>4. BytesUnescape(s, p + 1) = f[p + 1]
  BY <1>1, <1>2
<1>5. /\ special = {} => q = n + 1
      /\ special # {} => /\ q \in special
                         /\ q = CHOOSE i \in special : \A j \in special : i <= j
  BY FirstSpecial, Zenon
<1>6. /\ q \in p + 1 .. n + 1 /\ Byte(s, q) \in Specials \cup {"eof"}
      /\ Byte(s, p + 1) \in Specials \cup {"eof"} => q = p + 1
      /\ Byte(s, p + 1) \notin Specials \cup {"eof"} => q > p + 1
  BY <1>2, PlainEndStops, PlainEndHere
<1>7. q \in 1 .. n + 1 /\ run \in Seq(Chars(S))
  <2>1. Text(s, p + 1, q) \in Seq(Chars(S))
    BY <1>2, <1>6, TextIsRead
  <2>. HIDE DEF q
  <2>2. q \in 1 .. n + 1
    BY <1>2, <1>6
  <2>. QED
    BY <2>1, <2>2
<1>8. f[q] = Stopped(s, f, q) /\ f[q] \in Readout(S)
  BY <1>1, <1>6, <1>7, BytesSteps
<1>9. f[p + 1] = IF Utf8(s, p + 1, q) THEN Behind(run, f[q]) ELSE Refused
  <2>1. CASE Byte(s, p + 1) \notin Specials \cup {"eof"}
    BY <1>1, <1>2, <2>1, BytesSteps
  <2>2. CASE Byte(s, p + 1) \in Specials \cup {"eof"}
    <3>1. q = p + 1
      BY <1>6, <2>2
    <3>2. Utf8(s, p + 1, p + 1) /\ Text(s, p + 1, p + 1) = <<>>
      BY <1>2 DEF Utf8, Text
    <3>3. Behind(<<>>, f[q]) = f[q]
      BY <1>8, NothingBehind
    <3>. QED
      BY <3>1, <3>2, <3>3
  <2>. QED
    BY <2>1, <2>2
<1>10. BytesString(s, p) =
          IF special = {} \/ ~Utf8(s, p + 1, q) THEN Refused
          ELSE CASE s[q] = "q"   -> Accepted(q + 1, run)
                 [] s[q] = "ctl" -> Refused
                 [] s[q] = "bs"  -> IF f[q].ok THEN Accepted(f[q].next, run \o f[q].chars)
                                    ELSE Refused
  <2>1. BytesUnescape(s, q) = f[q]
    BY <1>1, <1>7
  <2>2. CASE special = {}
    BY <2>2 DEF BytesString
  <2>3. CASE special # {}
    <3>. DEFINE first == CHOOSE i \in special : \A j \in special : i <= j
    <3>1. BytesString(s, p) =
            IF special = {} \/ ~Utf8(s, p + 1, first) THEN Refused
            ELSE CASE s[first] = "q"   -> Accepted(first + 1, Text(s, p + 1, first))
                   [] s[first] = "ctl" -> Refused
                   [] s[first] = "bs"  ->
                        IF BytesUnescape(s, first).ok
                        THEN Accepted(BytesUnescape(s, first).next,
                                      Text(s, p + 1, first) \o BytesUnescape(s, first).chars)
                        ELSE Refused
      BY Zenon DEF BytesString
    <3>2. first = q
      BY <1>5, <2>3
    <3>. HIDE DEF first
    <3>. QED
      BY <2>1, <3>1, <3>2
  <2>. QED
    BY <2>2, <2>3
<1>11. ~Refused.ok
  BY DEF Refused
<1>12. CASE special = {}
  <2>1. Byte(s, q) = "eof"
    BY <1>2, <1>5, <1>12 DEF Byte
  <2>2. f[q] = Refused
    BY <1>8, <2>1 DEF Stopped
  <2>3. BytesString(s, p) = Refused
    BY <1>10, <1>12
  <2>. QED
    BY <1>3, <1>4, <1>9, <1>11, <2>2, <2>3 DEF Behind
<1>13. CASE special # {}
  <2>1. s[q] \in Specials /\ Byte(s, q) = s[q]
    <3>1. q \in special
      BY <1>5, <1>13
    <3>. QED
      BY <3>1 DEF Byte
  <2>2. CASE ~Utf8(s, p + 1, q)
    BY <1>3, <1>4, <1>9, <1>10, <2>2
  <2>3. CASE Utf8(s, p + 1, q) /\ s[q] = "q"
    <3>1. f[q] = Accepted(q + 1, <<>>)
      BY <1>8, <2>1, <2>3 DEF Stopped
    <3>2. BytesString(s, p) = Accepted(q + 1, run)
      BY <1>10, <1>13, <2>3
    <3>3. run \o <<>> = run
      BY <1>7, ConcatEmptySeq, Zenon
    <3>4. f[q].ok /\ f[q].next = q + 1 /\ f[q].chars = <<>>
      BY <3>1 DEF Accepted
    <3>5. Behind(run, f[q]) = Accepted(q + 1, run)
      BY <3>3, <3>4, Zenon DEF Behind
    <3>. QED
      BY <1>3, <1>4, <1>9, <2>3, <3>2, <3>5
  <2>4. CASE Utf8(s, p + 1, q) /\ s[q] = "ctl"
    <3>1. f[q] = Refused
      BY <1>8, <2>1, <2>4 DEF Stopped
    <3>. QED
      BY <1>3, <1>4, <1>9, <1>10, <1>11, <1>13, <2>4, <3>1 DEF Behind
  <2>5. CASE Utf8(s, p + 1, q) /\ s[q] = "bs"
    <3>1. BytesString(s, p) = Behind(run, f[q])
      BY <1>10, <1>13, <2>5 DEF Behind
    <3>. QED
      BY <1>3, <1>4, <1>9, <2>5, <3>1
  <2>. QED
    BY <2>1, <2>2, <2>3, <2>4, <2>5 DEF Specials
<1>. QED
  BY <1>12, <1>13

(* Two texts in front of a readout are one.                                *)
LEMMA BehindTwo ==
    ASSUME NEW S, NEW u \in Seq(Chars(S)), NEW v \in Seq(Chars(S)), NEW a \in Readout(S)
    PROVE  Behind(u \o v, a) = Behind(u, Behind(v, a))
<1>1. a.chars \in Seq(Chars(S))
  BY DEF Readout
<1>2. Associates(Chars(S))
  BY Concats
<1>3. (u \o v) \o a.chars = u \o (v \o a.chars)
  BY <1>1, <1>2, Zenon DEF Associates
<1>4. CASE a.ok
  <2>. DEFINE w == v \o a.chars
              b == Behind(v, a)
  <2>1. b = Accepted(a.next, w)
    BY <1>4 DEF Behind
  <2>. HIDE DEF w, b
  <2>2. b.ok /\ b.next = a.next /\ b.chars = w
    BY <2>1 DEF Accepted
  <2>3. Behind(u, b) = Accepted(a.next, u \o w)
    BY <2>2, Zenon DEF Behind
  <2>4. Behind(u \o v, a) = Accepted(a.next, (u \o v) \o a.chars)
    BY <1>4 DEF Behind
  <2>. QED
    BY <1>3, <2>3, <2>4, Zenon DEF w, b
<1>5. CASE ~a.ok
  BY <1>5 DEF Behind, Refused
<1>. QED
  BY <1>4, <1>5

(* A text begins with its first byte.                                      *)
LEMMA TextBegins ==
    ASSUME NEW S, NEW s \in Seq(S), NEW p \in 1 .. Len(s), NEW q \in p + 1 .. Len(s) + 1
    PROVE  Text(s, p, q) = <<s[p]>> \o Text(s, p + 1, q)
<1>. DEFINE m == q - 1
            k == q - p
            t == SubSeq(s, p, m)
            u == SubSeq(s, p + 1, m)
            c == <<s[p]>>
<1>1. /\ Len(s) \in Nat /\ p \in Nat /\ m \in Int /\ k \in Nat /\ 1 <= k
      /\ p <= m /\ m <= Len(s) /\ m - p + 1 = k /\ m - (p + 1) + 1 = k - 1
      /\ k = 1 <=> m < p + 1
      /\ \A i \in p .. m : s[i] \in S
  OBVIOUS
<1>2. t \in Seq(S) /\ Len(t) = k /\ \A i \in 1 .. k : t[i] = s[p + i - 1]
  <2>. HIDE DEF m, k
  <2>. QED
    BY <1>1, SubSeqProperties
<1>3. u \in Seq(S) /\ Len(u) = k - 1 /\ \A i \in 1 .. k - 1 : u[i] = s[p + i]
  <2>1. p + 1 \in Int /\ \A i \in p + 1 .. m : s[i] \in S
    BY <1>1
  <2>2. /\ u \in Seq(S) /\ Len(u) = IF p + 1 <= m THEN m - (p + 1) + 1 ELSE 0
        /\ \A i \in 1 .. m - (p + 1) + 1 : u[i] = s[p + 1 + i - 1]
    <3>. HIDE DEF m
    <3>. QED
      BY <1>1, <2>1, SubSeqProperties
  <2>. HIDE DEF m, k
  <2>3. \A i \in 1 .. k - 1 : p + 1 + i - 1 = p + i
    BY <1>1
  <2>. QED
    BY <1>1, <2>2, <2>3
<1>4. c \in Seq(S) /\ Len(c) = 1 /\ c[1] = s[p]
  OBVIOUS
<1>. HIDE DEF t, u, c, m, k
<1>5. /\ c \o u \in Seq(S) /\ Len(c \o u) = Len(c) + Len(u)
      /\ \A i \in 1 .. Len(c) + Len(u) : (c \o u)[i] = IF i <= Len(c) THEN c[i] ELSE u[i - Len(c)]
  BY <1>3, <1>4, ConcatProperties, Zenon
<1>6. Len(c) + Len(u) = k
  BY <1>1, <1>3, <1>4
<1>7. ASSUME NEW i \in 1 .. k PROVE t[i] = (c \o u)[i]
  <2>1. (c \o u)[i] = IF i <= 1 THEN c[i] ELSE u[i - 1]
    BY <1>4, <1>5, <1>6
  <2>2. CASE i = 1
    <3>1. p + 1 - 1 = p
      BY <1>1
    <3>. QED
      BY <1>2, <1>4, <2>1, <2>2, <3>1
  <2>3. CASE i # 1
    <3>1. i - 1 \in 1 .. k - 1 /\ p + (i - 1) = p + i - 1 /\ ~(i <= 1)
      BY <1>1, <2>3
    <3>. QED
      BY <1>2, <1>3, <2>1, <3>1
  <2>. QED
    BY <2>2, <2>3
<1>8. t = c \o u
  BY <1>2, <1>5, <1>6, <1>7, SeqEqual
<1>. QED
  BY <1>8 DEF Text, t, u, c, m

(* In front of any text the rest is read for itself.                       *)
LEMMA PlainSplits ==
    ASSUME NEW S, NEW s, Input(s, S), NEW f, Reads(s, S, f),
           NEW p \in 1 .. Len(s) + 1
    PROVE  /\ PlainEnd(s, p) \in 1 .. Len(s) + 1
           /\ Text(s, p, PlainEnd(s, p)) \in Seq(Chars(S))
           /\ f[PlainEnd(s, p)] = Stopped(s, f, PlainEnd(s, p))
           /\ f[p] = IF Utf8(s, p, PlainEnd(s, p))
                     THEN Behind(Text(s, p, PlainEnd(s, p)), f[PlainEnd(s, p)]) ELSE Refused
<1>. DEFINE n == Len(s)
            q == PlainEnd(s, p)
            run == Text(s, p, q)
<1>1. n \in Nat /\ p \in Nat
  BY DEF Input
<1>. f \in [1 .. n + 1 -> Readout(S)] /\ \A i \in 1 .. n + 1 : f[i] = BytesStep(s, f, i)
  BY DEF Reads
<1>2. /\ q \in p .. n + 1 /\ Byte(s, q) \in Specials \cup {"eof"}
      /\ Byte(s, p) \in Specials \cup {"eof"} => q = p
  BY PlainEndStops, PlainEndHere
<1>3. q \in 1 .. n + 1 /\ run \in Seq(Chars(S))
  <2>1. Text(s, p, q) \in Seq(Chars(S))
    BY <1>2, TextIsRead
  <2>. HIDE DEF q
  <2>2. q \in 1 .. n + 1
    BY <1>1, <1>2
  <2>. QED
    BY <2>1, <2>2
<1>4. f[q] = Stopped(s, f, q) /\ f[q] \in Readout(S)
  BY <1>2, <1>3, BytesSteps
<1>5. CASE Byte(s, p) \notin Specials \cup {"eof"}
  BY <1>3, <1>4, <1>5, BytesSteps
<1>6. CASE Byte(s, p) \in Specials \cup {"eof"}
  <2>1. q = p
    BY <1>2, <1>6
  <2>2. Utf8(s, p, p) /\ Text(s, p, p) = <<>>
    BY <1>1 DEF Utf8, Text
  <2>3. Behind(<<>>, f[p]) = f[p]
    BY <1>4, <2>1, NothingBehind
  <2>. QED
    BY <1>3, <1>4, <2>1, <2>2, <2>3
<1>. QED
  BY <1>5, <1>6

(* A plain byte is read, and the rest for itself.                          *)
LEMMA OneByte ==
    ASSUME NEW S, NEW s, Input(s, S), NEW f, Reads(s, S, f),
           NEW p \in 1 .. Len(s), s[p] \notin Specials
    PROVE  f[p] = IF s[p] = "bad" THEN Refused ELSE Behind(<<s[p]>>, f[p + 1])
<1>. DEFINE n == Len(s)
            q == PlainEnd(s, p)
            c == <<s[p]>>
            run == Text(s, p + 1, q)
            a == f[q]
<1>1. n \in Nat /\ p \in Nat \ {0} /\ p \in 1 .. n + 1 /\ p + 1 \in 1 .. n + 1 /\ s \in Seq(S)
  BY DEF Input
<1>. f \in [1 .. n + 1 -> Readout(S)]
  BY DEF Reads
<1>2. /\ q \in p .. n + 1 /\ Byte(s, q) \in Specials \cup {"eof"}
      /\ \A i \in p .. q - 1 : s[i] \notin Specials
  BY <1>1, PlainEndStops
<1>3. q > p
  <2>1. Byte(s, p) = s[p] /\ Byte(s, p) # "eof"
    BY <1>1, ByteInside
  <2>. QED
    BY <1>1, <2>1, PlainEndHere
<1>4. PlainEnd(s, p + 1) = q
  <2>. DEFINE r == PlainEnd(s, p + 1)
  <2>1. /\ r \in p + 1 .. n + 1 /\ Byte(s, r) \in Specials \cup {"eof"}
        /\ \A i \in p + 1 .. r - 1 : s[i] \notin Specials
    BY <1>1, PlainEndStops
  <2>. HIDE DEF q, r
  <2>3. ~(q < r)
    <3>. SUFFICES ASSUME q < r PROVE FALSE
      OBVIOUS
    <3>1. q \in p + 1 .. r - 1 /\ q <= n /\ q \in p .. n + 1
      BY <1>1, <1>2, <1>3, <2>1
    <3>2. Byte(s, q) = s[q] /\ s[q] # "eof"
      BY <1>1, <3>1, ByteInside
    <3>. QED
      BY <1>2, <2>1, <3>1, <3>2
  <2>4. ~(r < q)
    <3>. SUFFICES ASSUME r < q PROVE FALSE
      OBVIOUS
    <3>1. r \in p .. q - 1 /\ r <= n /\ r \in Nat \ {0}
      BY <1>1, <1>2, <2>1
    <3>2. Byte(s, r) = s[r] /\ s[r] # "eof"
      BY <1>1, <3>1, ByteInside
    <3>. QED
      BY <1>2, <2>1, <3>1, <3>2
  <2>. QED
    BY <1>1, <1>2, <2>1, <2>3, <2>4 DEF r
<1>5. /\ q \in 1 .. n + 1 /\ Text(s, p, q) \in Seq(Chars(S))
      /\ f[p] = IF Utf8(s, p, q) THEN Behind(Text(s, p, q), a) ELSE Refused
  <2>1. /\ PlainEnd(s, p) \in 1 .. Len(s) + 1
        /\ Text(s, p, PlainEnd(s, p)) \in Seq(Chars(S))
        /\ f[PlainEnd(s, p)] = Stopped(s, f, PlainEnd(s, p))
        /\ f[p] = IF Utf8(s, p, PlainEnd(s, p))
                  THEN Behind(Text(s, p, PlainEnd(s, p)), f[PlainEnd(s, p)]) ELSE Refused
    <3>1. p \in 1 .. Len(s) + 1
      BY <1>1
    <3>. QED
      BY <3>1, PlainSplits
  <2>. QED
    BY <2>1
<1>6. /\ run \in Seq(Chars(S))
      /\ f[p + 1] = IF Utf8(s, p + 1, q) THEN Behind(run, a) ELSE Refused
  <2>1. p + 1 \in 1 .. Len(s) + 1
    BY <1>1
  <2>2. /\ PlainEnd(s, p + 1) \in 1 .. Len(s) + 1
        /\ Text(s, p + 1, PlainEnd(s, p + 1)) \in Seq(Chars(S))
        /\ f[PlainEnd(s, p + 1)] = Stopped(s, f, PlainEnd(s, p + 1))
        /\ f[p + 1] = IF Utf8(s, p + 1, PlainEnd(s, p + 1))
                      THEN Behind(Text(s, p + 1, PlainEnd(s, p + 1)), f[PlainEnd(s, p + 1)])
                      ELSE Refused
    BY <2>1, PlainSplits
  <2>. QED
    BY <1>4, <2>2
<1>7. c \in Seq(Chars(S))
  <2>1. s[p] \in S
    BY <1>1
  <2>2. s[p] \in Chars(S)
    BY <2>1 DEF Chars
  <2>. QED
    BY <2>2
<1>8. a \in Readout(S) /\ a.chars \in Seq(Chars(S))
  BY <1>5 DEF Readout
<1>. HIDE DEF q
<1>9. Utf8(s, p, q) <=> s[p] # "bad" /\ Utf8(s, p + 1, q)
  <2>1. p .. q - 1 = {p} \cup (p + 1 .. q - 1)
    BY <1>1, <1>2, <1>3
  <2>. QED
    BY <2>1 DEF Utf8
<1>10. Text(s, p, q) = c \o run
  <2>1. q \in p + 1 .. n + 1
    BY <1>1, <1>2, <1>3
  <2>. QED
    BY <1>1, <2>1, TextBegins
<1>. HIDE DEF run, c, a
<1>11. ~Refused.ok
  BY DEF Refused
<1>12. Behind(c \o run, a) = Behind(c, Behind(run, a))
  BY <1>6, <1>7, <1>8, BehindTwo
<1>13. Behind(c, Refused) = Refused
  BY <1>11 DEF Behind
<1>14. f[p] = IF s[p] = "bad" THEN Refused ELSE Behind(c, f[p + 1])
  <2>1. CASE Utf8(s, p + 1, q)
    BY <1>5, <1>6, <1>9, <1>10, <1>12, <2>1
  <2>2. CASE ~Utf8(s, p + 1, q)
    BY <1>5, <1>6, <1>9, <1>13, <2>2
  <2>. QED
    BY <2>1, <2>2
<1>. QED
  BY <1>14 DEF c

(* A part of a sequence, by its elements; and a part of a part.            *)
LEMMA PartOf ==
    ASSUME NEW S, NEW s \in Seq(S), NEW a \in 1 .. Len(s), NEW b \in a .. Len(s)
    PROVE  /\ SubSeq(s, a, b) \in Seq(S)
           /\ Len(SubSeq(s, a, b)) = b - a + 1
           /\ \A k \in 1 .. b - a + 1 : SubSeq(s, a, b)[k] = s[a + k - 1]
<1>1. a \in Int /\ b \in Int /\ a <= b /\ \A k \in a .. b : s[k] \in S
  OBVIOUS
<1>. QED
  BY <1>1, SubSeqProperties

(* A part of a part is a part.                                             *)
LEMMA PartOfPart ==
    ASSUME NEW S, NEW s \in Seq(S), NEW a \in 1 .. Len(s), NEW b \in a .. Len(s),
           NEW k \in 1 .. b - a + 1
    PROVE  SubSeq(SubSeq(s, a, b), k, b - a + 1) = SubSeq(s, a + k - 1, b)
<1>. DEFINE t == SubSeq(s, a, b)
            n == b - a + 1
            u == SubSeq(t, k, n)
            v == SubSeq(s, a + k - 1, b)
            c == a + k - 1
            l == n - k + 1
<1>1. n \in Nat /\ k \in 1 .. n /\ c \in 1 .. Len(s) /\ b \in c .. Len(s) /\ b - c + 1 = l /\ l \in Nat
  OBVIOUS
<1>2. t \in Seq(S) /\ Len(t) = n /\ \A i \in 1 .. n : t[i] = s[a + i - 1]
  BY PartOf
<1>. HIDE DEF t
<1>3. u \in Seq(S) /\ Len(u) = l /\ \A i \in 1 .. l : u[i] = t[k + i - 1]
  <2>1. k \in 1 .. Len(t) /\ n \in k .. Len(t)
    BY <1>1, <1>2
  <2>. HIDE DEF n
  <2>. QED
    BY <1>2, <2>1, PartOf
<1>4. v \in Seq(S) /\ Len(v) = l /\ \A i \in 1 .. l : v[i] = s[c + i - 1]
  <2>. HIDE DEF l
  <2>. QED
    BY <1>1, PartOf
<1>. HIDE DEF u, v
<1>5. \A i \in 1 .. l : u[i] = v[i]
  <2>. SUFFICES ASSUME NEW i \in 1 .. l PROVE u[i] = v[i]
    OBVIOUS
  <2>1. k + i - 1 \in 1 .. n /\ a + (k + i - 1) - 1 = c + i - 1
    OBVIOUS
  <2>. HIDE DEF l, n, c
  <2>. QED
    BY <1>2, <1>3, <1>4, <2>1
<1>. HIDE DEF l
<1>6. u = v
  BY <1>3, <1>4, <1>5, SeqEqual
<1>. QED
  BY <1>6 DEF u, v, t

-----------------------------------------------------------------------------
(* What strings say.                                                       *)

Letters == {"x", "n", "u"} \cup Quads

(* The first character of a spelling, by its bytes.                        *)
LEMMA SpelledBy ==
    ASSUME NEW w \in Seq(StringBytes), Len(w) >= 1
    PROVE  LET short == Len(w) >= 2 /\ w[1] = "bs" /\ w[2] \in {"n", "q", "bs"}
               quad == Len(w) >= 3 /\ w[1] = "bs" /\ w[2] = "u" /\ w[3] = "bmp"
               pair == Len(w) >= 6 /\ w[1] = "bs" /\ w[2] = "u" /\ w[3] = "hi"
                                   /\ w[4] = "bs" /\ w[5] = "u" /\ w[6] = "lo"
           IN  /\ w[1] \in Letters => Spelled(w) = [len |-> 1, char |-> w[1]]
               /\ short => Spelled(w) = [len |-> 2, char |-> "esc"]
               /\ quad => Spelled(w) = [len |-> 3, char |-> "bmp"]
               /\ pair => Spelled(w) = [len |-> 6, char |-> Pair]
               /\ ~(w[1] \in Letters \/ short \/ quad \/ pair) => Spelled(w).len = 0
<1>1. Begins(w, <<"bs", "u", "bmp">>) <=>
         Len(w) >= 3 /\ w[1] = "bs" /\ w[2] = "u" /\ w[3] = "bmp"
  BY DEF Begins
<1>2. Begins(w, <<"bs", "u", "hi", "bs", "u", "lo">>) <=>
         /\ Len(w) >= 6 /\ w[1] = "bs" /\ w[2] = "u" /\ w[3] = "hi"
         /\ w[4] = "bs" /\ w[5] = "u" /\ w[6] = "lo"
  BY DEF Begins
<1>. QED
  BY <1>1, <1>2 DEF Spelled, Letters, Quads

(* What is read ends behind a quote.                                       *)
LEMMA EndsAtQuote ==
    ASSUME NEW S, NEW s, Input(s, S), NEW f, Reads(s, S, f)
    PROVE  \A i \in 1 .. Len(s) + 1 :
              f[i].ok => f[i].next \in i + 1 .. Len(s) + 1 /\ s[f[i].next - 1] = "q"
<1>. DEFINE n == Len(s) + 1
            Good(i) == f[i].ok => f[i].next \in i + 1 .. n /\ s[f[i].next - 1] = "q"
            T == {i \in 1 .. n : ~Good(i)}
<1>1. n \in Nat /\ f \in [1 .. n -> Readout(S)] /\ \A i \in 1 .. n : f[i] = BytesStep(s, f, i)
  BY DEF Input, Reads
<1>. SUFFICES ASSUME T # {} PROVE FALSE
  OBVIOUS
<1>2. PICK i \in T : \A k \in T : k <= i
  <2>1. T \in SUBSET (1 .. n)
    OBVIOUS
  <2>. HIDE DEF T
  <2>. QED
    BY <1>1, <2>1, LastOf
<1>3. i \in 1 .. n /\ ~Good(i) /\ \A k \in i + 1 .. n : Good(k)
  BY <1>1, <1>2
<1>. HIDE DEF T
<1>4. ~Refused.ok
  BY DEF Refused
<1>5. \A k \in i + 1 .. n : \A run : f[i] = Behind(run, f[k]) => Good(i)
  <2>. SUFFICES ASSUME NEW k \in i + 1 .. n, NEW run, f[i] = Behind(run, f[k]), f[i].ok
                PROVE  f[i].next \in i + 1 .. n /\ s[f[i].next - 1] = "q"
    OBVIOUS
  <2>1. f[k].ok /\ f[i].next = f[k].next
    BY <1>4 DEF Behind, Accepted
  <2>2. f[k].next \in k + 1 .. n /\ s[f[k].next - 1] = "q"
    BY <1>3, <2>1
  <2>. QED
    BY <1>1, <1>3, <2>1, <2>2
<1>6. f[i] # Refused
  BY <1>3, <1>4
<1>7. CASE Byte(s, i) = "q"
  <2>1. i <= Len(s) /\ s[i] = "q"
    BY <1>7 DEF Byte
  <2>2. f[i] = Accepted(i + 1, <<>>)
    BY <1>1, <1>3, <1>7 DEF BytesStep
  <2>3. f[i].next = i + 1
    BY <2>2 DEF Accepted
  <2>4. i + 1 \in i + 1 .. n /\ i + 1 - 1 = i
    BY <1>1, <1>3, <2>1
  <2>. QED
    BY <1>3, <2>1, <2>3, <2>4
<1>8. CASE Byte(s, i) = "bs"
  <2>. DEFINE e == Escape(s, i)
  <2>1. f[i] = IF e.ok THEN Behind(e.chars, f[e.next]) ELSE Refused
    BY <1>1, <1>3, <1>8 DEF BytesStep, Behind
  <2>2. i <= Len(s)
    BY <1>8 DEF Byte
  <2>3. i \in 1 .. Len(s)
    BY <1>1, <1>3, <2>2
  <2>4. e.ok => e.next \in i + 2 .. n
    BY <2>3, EscapeEnds
  <2>. HIDE DEF e
  <2>5. e.ok /\ e.next \in i + 1 .. n
    BY <1>1, <1>3, <1>6, <2>1, <2>4
  <2>. QED
    BY <1>3, <1>5, <2>1, <2>5
<1>9. CASE Byte(s, i) \in {"ctl", "eof"}
  BY <1>1, <1>3, <1>6, <1>9 DEF BytesStep
<1>10. CASE Byte(s, i) \notin Specials \cup {"eof"}
  <2>. DEFINE q == PlainEnd(s, i)
  <2>1. q \in i .. n /\ q > i
    BY <1>3, <1>10, PlainEndStops, PlainEndHere
  <2>2. f[i] = IF Utf8(s, i, q) THEN Behind(Text(s, i, q), f[q]) ELSE Refused
    BY <1>1, <1>3, <1>10, BytesSteps
  <2>. HIDE DEF q
  <2>3. q \in i + 1 .. n
    BY <1>1, <1>3, <2>1
  <2>. QED
    BY <1>3, <1>5, <1>6, <2>2, <2>3
<1>. QED
  BY <1>7, <1>8, <1>9, <1>10 DEF Specials

(* A spelling that ends in front of a quote is read as its character and   *)
(* what follows; where there is none the string does not end at that       *)
(* quote.                                                                  *)
LEMMA SpellingIsRead ==
    ASSUME NEW s, Input(s, StringBytes), NEW f, Reads(s, StringBytes, f),
           NEW n \in 2 .. Len(s), s[n] = "q", NEW i \in 1 .. n - 1
    PROVE  LET spelled == Spelled(SubSeq(s, i, n - 1))
           IN  /\ spelled.len = 0 => ~(f[i].ok /\ f[i].next = n + 1)
               /\ spelled.len # 0 => /\ spelled.len \in 1 .. n - i
                                     /\ f[i] = Behind(<<spelled.char>>, f[i + spelled.len])
<1>. DEFINE w == SubSeq(s, i, n - 1)
            l == n - i
            e == Escape(s, i)
<1>1. /\ Len(s) \in Nat /\ s \in Seq(StringBytes) /\ i \in Nat /\ n \in Nat /\ l \in Nat
      /\ i \in 1 .. Len(s) /\ i \in 1 .. Len(s) + 1 /\ l >= 1 /\ i + l = n /\ n <= Len(s)
  BY DEF Input
<1>2. w \in Seq(StringBytes) /\ Len(w) = l /\ \A k \in 1 .. l : w[k] = s[i + k - 1]
  <2>1. n - 1 \in i .. Len(s) /\ n - 1 - i + 1 = l
    BY <1>1
  <2>2. /\ w \in Seq(StringBytes) /\ Len(w) = n - 1 - i + 1
        /\ \A k \in 1 .. n - 1 - i + 1 : w[k] = s[i + k - 1]
    <3>. HIDE DEF l
    <3>. QED
      BY <1>1, <2>1, PartOf
  <2>. QED
    BY <2>1, <2>2
<1>. HIDE DEF w, l
<1>3. \A k \in Nat : i + k <= Len(s) => Byte(s, i + k) = s[i + k] /\ s[i + k] \in StringBytes
  BY <1>1 DEF Byte
<1>4. \A k \in 0 .. l - 1 : w[k + 1] = s[i + k]
  <2>. SUFFICES ASSUME NEW k \in 0 .. l - 1 PROVE w[k + 1] = s[i + k]
    OBVIOUS
  <2>1. k + 1 \in 1 .. l /\ i + (k + 1) - 1 = i + k
    BY <1>1
  <2>. QED
    BY <1>2, <2>1
<1>5. /\ f \in [1 .. Len(s) + 1 -> Readout(StringBytes)]
      /\ \A k \in 1 .. Len(s) + 1 : f[k] = BytesStep(s, f, k)
  BY DEF Reads
<1>6. Byte(s, i) = s[i] /\ s[i] \in StringBytes /\ w[1] = s[i]
  <2>1. i + 1 - 1 = i /\ 1 \in 1 .. l
    BY <1>1
  <2>2. w[1] = s[i]
    BY <1>2, <2>1
  <2>. QED
    BY <1>1, <2>2 DEF Byte
<1>7. ~Refused.ok
  BY DEF Refused
<1>. DEFINE Goal == /\ Spelled(w).len = 0 => ~(f[i].ok /\ f[i].next = n + 1)
                    /\ Spelled(w).len # 0 => /\ Spelled(w).len \in 1 .. l
                                             /\ f[i] = Behind(<<Spelled(w).char>>, f[i + Spelled(w).len])
<1>. SUFFICES Goal
  BY DEF w, l
<1>8. CASE s[i] \in Letters
  <2>1. Spelled(w) = [len |-> 1, char |-> s[i]]
    BY <1>1, <1>2, <1>6, <1>8, SpelledBy
  <2>2. s[i] \notin Specials /\ s[i] # "bad"
    BY <1>8 DEF Letters, Quads, Specials
  <2>3. f[i] = Behind(<<s[i]>>, f[i + 1])
    BY <1>1, <2>2, OneByte
  <2>4. Spelled(w).len = 1 /\ Spelled(w).char = s[i]
    BY <2>1
  <2>. QED
    BY <1>1, <2>3, <2>4
<1>9. CASE s[i] = "bad" \/ s[i] = "ctl" \/ s[i] = "q"
  <2>1. Spelled(w).len = 0
    BY <1>1, <1>2, <1>6, <1>9, SpelledBy DEF Letters, Quads
  <2>2. CASE s[i] = "bad"
    <3>1. s[i] \notin Specials
      BY <2>2 DEF Specials
    <3>2. f[i] = IF s[i] = "bad" THEN Refused ELSE Behind(<<s[i]>>, f[i + 1])
      BY <1>1, <3>1, OneByte
    <3>. QED
      BY <1>7, <2>1, <2>2, <3>2
  <2>3. CASE s[i] = "ctl"
    <3>1. f[i] = Refused
      BY <1>1, <1>5, <1>6, <2>3 DEF BytesStep
    <3>. QED
      BY <1>7, <2>1, <3>1
  <2>4. CASE s[i] = "q"
    <3>1. f[i] = Accepted(i + 1, <<>>)
      BY <1>1, <1>5, <1>6, <2>4 DEF BytesStep
    <3>2. f[i].next = i + 1
      BY <3>1 DEF Accepted
    <3>3. i + 1 # n + 1
      BY <1>1
    <3>. QED
      BY <2>1, <3>2, <3>3
  <2>. QED
    BY <1>9, <2>2, <2>3, <2>4
<1>10. CASE s[i] = "bs"
  <2>1. f[i] = IF e.ok THEN Behind(e.chars, f[e.next]) ELSE Refused
    BY <1>1, <1>5, <1>6, <1>10 DEF BytesStep, Behind
  <2>2. \A next, c : e = Accepted(next, <<c>>) => e.ok /\ e.next = next /\ e.chars = <<c>>
    BY DEF Accepted
  <2>3. i + 1 <= Len(s) /\ Byte(s, i + 1) = s[i + 1] /\ s[i + 1] \in StringBytes
    BY <1>1, <1>3
  <2>4. \A k \in 1 .. 5 : k + 1 <= l <=> i + k < n
    BY <1>1
  <2>5. \A k \in 1 .. 5 : k + 1 <= l => w[k + 1] = s[i + k]
    <3>. SUFFICES ASSUME NEW k \in 1 .. 5, k + 1 <= l PROVE w[k + 1] = s[i + k]
      OBVIOUS
    <3>1. k \in 0 .. l - 1
      BY <1>1
    <3>. QED
      BY <1>4, <3>1
  <2>6. /\ l >= 2 => w[2] = s[i + 1]
        /\ l >= 3 => w[3] = s[i + 2]
        /\ l >= 4 => w[4] = s[i + 3]
        /\ l >= 5 => w[5] = s[i + 4]
        /\ l >= 6 => w[6] = s[i + 5]
    BY <1>1, <2>5
  <2>7. \A k \in 0 .. 5 : i + k <= Len(s) => Byte(s, i + k) = s[i + k]
    BY <1>3
  <2>. DEFINE B(k) == Byte(s, i + k)
              short == l >= 2 /\ B(1) \in {"n", "q", "bs"}
              quad == l >= 3 /\ B(1) = "u" /\ B(2) = "bmp"
              pair == l >= 6 /\ B(1) = "u" /\ B(2) = "hi" /\ B(3) = "bs" /\ B(4) = "u" /\ B(5) = "lo"
  <2>8. \A k \in 1 .. 5 : k + 1 <= l => w[k + 1] = B(k)
    <3>. SUFFICES ASSUME NEW k \in 1 .. 5, k + 1 <= l PROVE w[k + 1] = B(k)
      OBVIOUS
    <3>1. i + k <= Len(s)
      BY <1>1
    <3>. QED
      BY <2>5, <2>7, <3>1
  <2>9. /\ l >= 2 => w[2] = B(1)
        /\ l >= 3 => w[3] = B(2)
        /\ l >= 6 => w[4] = B(3) /\ w[5] = B(4) /\ w[6] = B(5)
    <3>. HIDE DEF B
    <3>. QED
      BY <1>1, <2>8
  <2>10. /\ short => Spelled(w) = [len |-> 2, char |-> "esc"]
         /\ quad => Spelled(w) = [len |-> 3, char |-> "bmp"]
         /\ pair => Spelled(w) = [len |-> 6, char |-> Pair]
         /\ ~(short \/ quad \/ pair) => Spelled(w).len = 0
    <3>. HIDE DEF B
    <3>1. w[1] = "bs" /\ w[1] \notin Letters
      BY <1>6, <1>10 DEF Letters, Quads
    <3>2. /\ short <=> Len(w) >= 2 /\ w[1] = "bs" /\ w[2] \in {"n", "q", "bs"}
          /\ quad <=> Len(w) >= 3 /\ w[1] = "bs" /\ w[2] = "u" /\ w[3] = "bmp"
          /\ pair <=> Len(w) >= 6 /\ w[1] = "bs" /\ w[2] = "u" /\ w[3] = "hi"
                      /\ w[4] = "bs" /\ w[5] = "u" /\ w[6] = "lo"
      BY <1>1, <1>2, <2>9, <3>1
    <3>. HIDE DEF short, quad, pair
    <3>. QED
      BY <1>1, <1>2, <3>1, <3>2, SpelledBy
  <2>11. /\ \/ e = Refused
            \/ B(1) \in {"n", "q", "bs"} /\ e = Accepted(i + 2, <<"esc">>)
            \/ B(1) = "u" /\ B(2) = "bmp" /\ e = Accepted(i + 3, <<"bmp">>)
            \/ B(1) = "u" /\ B(2) = "hi" /\ B(3) = "bs" /\ B(4) = "u" /\ B(5) = "lo"
               /\ e = Accepted(i + 6, <<Pair>>)
         /\ B(1) \in {"n", "q", "bs"} => e = Accepted(i + 2, <<"esc">>)
         /\ B(1) = "u" /\ B(2) = "bmp" => e = Accepted(i + 3, <<"bmp">>)
         /\ B(1) = "u" /\ B(2) = "hi" /\ B(3) = "bs" /\ B(4) = "u" /\ B(5) = "lo" =>
               e = Accepted(i + 6, <<Pair>>)
    <3>1. /\ i + 2 + 1 = i + 3 /\ i + 2 + 2 = i + 4 /\ i + 2 + 3 = i + 5 /\ i + 2 + 4 = i + 6
      BY <1>1
    <3>2. e = CASE B(1) = "u" -> UnicodeEscape(s, i + 2)
                [] B(1) \in {"n", "q", "bs"} -> Accepted(i + 2, <<"esc">>)
                [] OTHER -> Refused
      BY DEF Escape
    <3>3. UnicodeEscape(s, i + 2) =
             CASE B(2) = "bmp" -> Accepted(i + 3, <<"bmp">>)
               [] B(2) = "hi" /\ B(3) = "bs" /\ B(4) = "u" /\ B(5) = "lo" -> Accepted(i + 6, <<Pair>>)
               [] OTHER -> Refused
      BY <3>1 DEF UnicodeEscape
    <3>. HIDE DEF e, B
    <3>. QED
      BY <3>2, <3>3
  <2>12. CASE short
    <3>1. e.ok /\ e.next = i + 2 /\ e.chars = <<"esc">>
      BY <2>2, <2>11, <2>12
    <3>2. Spelled(w).len = 2 /\ Spelled(w).char = "esc" /\ l >= 2
      BY <2>10, <2>12
    <3>. HIDE DEF e
    <3>. QED
      BY <1>1, <2>1, <3>1, <3>2
  <2>13. CASE quad
    <3>1. e.ok /\ e.next = i + 3 /\ e.chars = <<"bmp">>
      BY <2>2, <2>11, <2>13
    <3>2. Spelled(w).len = 3 /\ Spelled(w).char = "bmp" /\ l >= 3
      BY <2>10, <2>13
    <3>. HIDE DEF e
    <3>. QED
      BY <1>1, <2>1, <3>1, <3>2
  <2>14. CASE pair
    <3>1. e.ok /\ e.next = i + 6 /\ e.chars = <<Pair>>
      BY <2>2, <2>11, <2>14
    <3>2. Spelled(w).len = 6 /\ Spelled(w).char = Pair /\ l >= 6
      BY <2>10, <2>14
    <3>. HIDE DEF e
    <3>. QED
      BY <1>1, <2>1, <3>1, <3>2
  <2>15. CASE ~(short \/ quad \/ pair)
    <3>1. Spelled(w).len = 0
      BY <2>10, <2>15
    <3>2. SUFFICES ~(f[i].ok /\ f[i].next = n + 1)
      BY <3>1
    <3>3. \A k \in 1 .. 5 : B(k) # "eof" /\ B(k) # "q" => i + k # n /\ i + k <= Len(s)
      <4>. SUFFICES ASSUME NEW k \in 1 .. 5, B(k) # "eof", B(k) # "q"
                    PROVE  i + k # n /\ i + k <= Len(s)
        OBVIOUS
      <4>1. i + k <= Len(s)
        BY DEF Byte
      <4>2. B(k) = s[i + k]
        BY <4>1 DEF Byte
      <4>. QED
        BY <4>1, <4>2
    <3>. HIDE DEF B
    <3>4. ~(B(1) = "u" /\ B(2) = "bmp")
      <4>. SUFFICES ASSUME B(1) = "u", B(2) = "bmp" PROVE FALSE
        OBVIOUS
      <4>1. i + 1 # n /\ i + 2 # n
        BY <3>3
      <4>. QED
        BY <1>1, <2>15, <4>1
    <3>5. ~(B(1) = "u" /\ B(2) = "hi" /\ B(3) = "bs" /\ B(4) = "u" /\ B(5) = "lo")
      <4>. SUFFICES ASSUME B(1) = "u", B(2) = "hi", B(3) = "bs", B(4) = "u", B(5) = "lo" PROVE FALSE
        OBVIOUS
      <4>1. i + 1 # n /\ i + 2 # n /\ i + 3 # n /\ i + 4 # n /\ i + 5 # n
        BY <3>3
      <4>. QED
        BY <1>1, <2>15, <4>1
    <3>6. CASE e = Refused
      <4>1. f[i] = Refused
        BY <1>7, <2>1, <3>6
      <4>. QED
        BY <1>7, <4>1
    <3>7. CASE B(1) \in {"n", "q", "bs"} /\ e = Accepted(i + 2, <<"esc">>)
      <4>1. i + 2 = n + 1
        BY <1>1, <2>15, <3>7
      <4>2. f[i] = Behind(<<"esc">>, f[n + 1])
        BY <2>1, <2>2, <3>7, <4>1
      <4>3. n + 1 \in 1 .. Len(s) + 1
        BY <1>1
      <4>4. f[n + 1].ok => f[n + 1].next \in n + 1 + 1 .. Len(s) + 1
        BY <4>3, EndsAtQuote
      <4>5. f[i].ok => f[n + 1].ok /\ f[i].next = f[n + 1].next
        BY <1>7, <4>2 DEF Behind, Accepted
      <4>. QED
        BY <1>1, <4>4, <4>5
    <3>. QED
      BY <2>11, <3>4, <3>5, <3>6, <3>7
  <2>. QED
    BY <2>12, <2>13, <2>14, <2>15
<1>. QED
  BY <1>6, <1>8, <1>9, <1>10 DEF StringBytes, Letters, Quads

ReadingsStep(s, f, i) ==
    LET Read(first) == IF first.len = 0 THEN {} ELSE {<<first.char>> \o r : r \in f[i + first.len]}
    IN  IF i > Len(s) THEN {<<>>} ELSE Read(Spelled(SubSeq(s, i, Len(s))))

(* The readings of a text are such a function, too.                        *)
LEMMA ReadingsIsRecursive ==
    ASSUME NEW s
    PROVE  Readings(s) = (CHOOSE f : f = [i \in 1 .. Len(s) + 1 |-> ReadingsStep(s, f, i)])[1]
BY Zenon DEF Readings, ReadingsStep

(* Between two quotes the one reading is what the lexer reads, if it stops *)
(* behind the second; otherwise there is none.                             *)
LEMMA ReadingIsRead ==
    ASSUME NEW s, Input(s, StringBytes), NEW f, Reads(s, StringBytes, f),
           NEW n \in 2 .. Len(s), s[n] = "q"
    PROVE  Readings(SubSeq(s, 2, n - 1)) =
              IF f[2].ok /\ f[2].next = n + 1 THEN {f[2].chars} ELSE {}
<1>. DEFINE w == SubSeq(s, 2, n - 1)
            m == n - 1
            D == 1 .. m
            Read(i) == IF f[i + 1].ok /\ f[i + 1].next = n + 1 THEN {f[i + 1].chars} ELSE {}
            g == [i \in D |-> Read(i)]
            Is(h) == h = [i \in D |-> ReadingsStep(w, h, i)]
            h == CHOOSE k : Is(k)
<1>1. /\ Len(s) \in Nat /\ s \in Seq(StringBytes) /\ n \in Nat /\ m \in Nat /\ 1 <= m /\ n = m + 1
      /\ n <= Len(s) /\ n \in 1 .. Len(s) + 1
  BY DEF Input
<1>2. w \in Seq(StringBytes) /\ Len(w) = m - 1
  <2>1. CASE m = 1
    <3>1. w = <<>>
      BY <2>1
    <3>. QED
      BY <2>1, <3>1
  <2>2. CASE m # 1
    <3>1. 2 \in 1 .. Len(s) /\ n - 1 \in 2 .. Len(s) /\ n - 1 - 2 + 1 = m - 1
      BY <1>1, <2>2
    <3>. QED
      BY <1>1, <3>1, PartOf
  <2>. QED
    BY <2>1, <2>2
<1>3. \A i \in 1 .. m - 1 : SubSeq(w, i, m - 1) = SubSeq(s, i + 1, n - 1)
  <2>. SUFFICES ASSUME NEW i \in 1 .. m - 1 PROVE SubSeq(w, i, m - 1) = SubSeq(s, i + 1, n - 1)
    OBVIOUS
  <2>1. /\ 2 \in 1 .. Len(s) /\ n - 1 \in 2 .. Len(s) /\ n - 1 - 2 + 1 = m - 1
        /\ i \in 1 .. n - 1 - 2 + 1 /\ 2 + i - 1 = i + 1
    BY <1>1
  <2>2. SubSeq(w, i, n - 1 - 2 + 1) = SubSeq(s, 2 + i - 1, n - 1)
    BY <1>1, <2>1, PartOfPart
  <2>. QED
    BY <2>1, <2>2
<1>. HIDE DEF w
<1>4. f \in [1 .. Len(s) + 1 -> Readout(StringBytes)]
      /\ \A k \in 1 .. Len(s) + 1 : f[k] = BytesStep(s, f, k)
  BY DEF Reads
<1>5. \A i \in 1 .. m - 1 :
         LET spelled == Spelled(SubSeq(w, i, m - 1))
         IN  /\ spelled.len = 0 => ~(f[i + 1].ok /\ f[i + 1].next = n + 1)
             /\ spelled.len # 0 => /\ spelled.len \in 1 .. m - i
                                   /\ f[i + 1] = Behind(<<spelled.char>>, f[i + 1 + spelled.len])
  <2>. SUFFICES ASSUME NEW i \in 1 .. m - 1
                PROVE  LET spelled == Spelled(SubSeq(s, i + 1, n - 1))
                       IN  /\ spelled.len = 0 => ~(f[i + 1].ok /\ f[i + 1].next = n + 1)
                           /\ spelled.len # 0 => /\ spelled.len \in 1 .. m - i
                                                 /\ f[i + 1] = Behind(<<spelled.char>>, f[i + 1 + spelled.len])
    BY <1>3
  <2>1. i + 1 \in 1 .. n - 1 /\ n - (i + 1) = m - i
    BY <1>1
  <2>. HIDE DEF m
  <2>2. LET spelled == Spelled(SubSeq(s, i + 1, n - 1))
        IN  /\ spelled.len = 0 => ~(f[i + 1].ok /\ f[i + 1].next = n + 1)
            /\ spelled.len # 0 => /\ spelled.len \in 1 .. n - (i + 1)
                                  /\ f[i + 1] = Behind(<<spelled.char>>, f[i + 1 + spelled.len])
    BY <2>1, SpellingIsRead
  <2>. QED
    BY <2>1, <2>2
<1>6. \A k : ReadingsStep(w, k, m) = {<<>>}
  BY <1>1, <1>2 DEF ReadingsStep
<1>7. \A k, i : i \in 1 .. m - 1 =>
         LET spelled == Spelled(SubSeq(w, i, m - 1))
         IN  ReadingsStep(w, k, i) =
                IF spelled.len = 0 THEN {} ELSE {<<spelled.char>> \o r : r \in k[i + spelled.len]}
  <2>. SUFFICES ASSUME NEW k, NEW i \in 1 .. m - 1
                PROVE  LET spelled == Spelled(SubSeq(w, i, m - 1))
                       IN  ReadingsStep(w, k, i) =
                              IF spelled.len = 0 THEN {}
                              ELSE {<<spelled.char>> \o r : r \in k[i + spelled.len]}
    OBVIOUS
  <2>1. ~(i > Len(w)) /\ Len(w) = m - 1
    BY <1>1, <1>2
  <2>. HIDE DEF m
  <2>. QED
    BY <2>1 DEF ReadingsStep
<1>8. ASSUME NEW i \in D
      PROVE  g[i] = ReadingsStep(w, g, i)
  <2>1. CASE i = m
    <3>1. f[n] = Accepted(n + 1, <<>>)
      BY <1>1, <1>4 DEF BytesStep, Byte
    <3>2. Read(m) = {<<>>}
      BY <1>1, <3>1 DEF Accepted
    <3>. QED
      BY <1>6, <2>1, <3>2
  <2>2. CASE i # m
    <3>. DEFINE spelled == Spelled(SubSeq(w, i, m - 1))
                a == f[i + 1 + spelled.len]
    <3>1. i \in 1 .. m - 1
      BY <1>1, <2>2
    <3>2. /\ spelled.len = 0 => Read(i) = {}
          /\ spelled.len # 0 => spelled.len \in 1 .. m - i /\ f[i + 1] = Behind(<<spelled.char>>, a)
      BY <1>5, <3>1
    <3>3. ReadingsStep(w, g, i) =
             IF spelled.len = 0 THEN {} ELSE {<<spelled.char>> \o r : r \in g[i + spelled.len]}
      <4>. HIDE DEF g
      <4>. QED
        BY <1>7, <3>1
    <3>4. g[i] = Read(i)
      OBVIOUS
    <3>. HIDE DEF spelled
    <3>5. CASE spelled.len = 0
      BY <3>2, <3>3, <3>4, <3>5
    <3>6. CASE spelled.len # 0
      <4>1. i + spelled.len \in D /\ i + spelled.len + 1 = i + 1 + spelled.len
        BY <1>1, <3>1, <3>2, <3>6
      <4>2. g[i + spelled.len] = IF a.ok /\ a.next = n + 1 THEN {a.chars} ELSE {}
        BY <4>1
      <4>. HIDE DEF a, g
      <4>3. /\ f[i + 1].ok <=> a.ok
            /\ a.ok => f[i + 1].next = a.next /\ f[i + 1].chars = <<spelled.char>> \o a.chars
        BY <3>2, <3>6 DEF Behind, Accepted, Refused
      <4>4. Read(i) = {<<spelled.char>> \o r : r \in g[i + spelled.len]}
        <5>1. CASE a.ok /\ a.next = n + 1
          BY <4>2, <4>3, <5>1
        <5>2. CASE ~(a.ok /\ a.next = n + 1)
          BY <4>2, <4>3, <5>2
        <5>. QED
          BY <5>1, <5>2
      <4>. QED
        BY <3>3, <3>4, <3>6, <4>4
    <3>. QED
      BY <3>5, <3>6
  <2>. QED
    BY <2>1, <2>2
<1>9. Is(h)
  <2>1. DOMAIN g = D /\ g = [i \in D |-> g[i]]
    OBVIOUS
  <2>. HIDE DEF g
  <2>2. Is(g)
    BY <1>8, <2>1
  <2>. QED
    BY <2>2, Zenon
<1>. HIDE DEF h
<1>10. \A i \in D : h[i] = ReadingsStep(w, h, i)
  BY <1>9
<1>11. ASSUME NEW i \in D, SameBehind(m, g, h, i)
       PROVE  g[i] = h[i]
  <2>. HIDE DEF g
  <2>1. CASE i = m
    <3>1. ReadingsStep(w, g, i) = {<<>>} /\ ReadingsStep(w, h, i) = {<<>>}
      BY <1>6, <2>1
    <3>. QED
      BY <1>8, <1>10, <3>1
  <2>2. CASE i # m
    <3>. DEFINE spelled == Spelled(SubSeq(w, i, m - 1))
    <3>1. i \in 1 .. m - 1
      BY <1>1, <2>2
    <3>2. /\ ReadingsStep(w, g, i) =
                IF spelled.len = 0 THEN {} ELSE {<<spelled.char>> \o r : r \in g[i + spelled.len]}
          /\ ReadingsStep(w, h, i) =
                IF spelled.len = 0 THEN {} ELSE {<<spelled.char>> \o r : r \in h[i + spelled.len]}
          /\ spelled.len # 0 => spelled.len \in 1 .. m - i
      BY <1>5, <1>7, <3>1
    <3>. HIDE DEF spelled
    <3>3. spelled.len # 0 => i + spelled.len \in i + 1 .. m
      BY <1>1, <3>1, <3>2
    <3>4. spelled.len # 0 => g[i + spelled.len] = h[i + spelled.len]
      BY <1>11, <3>3 DEF SameBehind
    <3>5. g[i] = ReadingsStep(w, g, i) /\ h[i] = ReadingsStep(w, h, i)
      BY <1>8, <1>10
    <3>6. ReadingsStep(w, g, i) = ReadingsStep(w, h, i)
      BY <3>2, <3>4
    <3>. QED
      BY <3>5, <3>6
  <2>. QED
    BY <2>1, <2>2
<1>12. g[1] = h[1]
  <2>1. m \in Nat /\ \A i \in 1 .. m : SameBehind(m, g, h, i) => g[i] = h[i]
    BY <1>1, <1>11
  <2>. HIDE DEF m, g
  <2>2. \A i \in 1 .. m : g[i] = h[i]
    BY <2>1, SameFromTheEnd
  <2>. QED
    BY <1>1, <2>2
<1>13. Readings(w) = h[1]
  <2>1. Len(w) + 1 = m
    BY <1>1, <1>2
  <2>. HIDE DEF m
  <2>. QED
    BY <2>1, ReadingsIsRecursive, Zenon DEF h
<1>14. g[1] = Read(1) /\ 1 + 1 = 2
  BY <1>1
<1>. QED
  BY <1>12, <1>13, <1>14 DEF w

-----------------------------------------------------------------------------
(* Numbers, by the positions between their parts.                          *)

DigitsAt(s, a, b) == a < b /\ \A k \in a .. b - 1 : s[k] \in Digits

IntAt(s, a, b) == DigitsAt(s, a, b) /\ (s[a] = "0" => b = a + 1)

FracAt(s, a, b) == a = b \/ (s[a] = "." /\ DigitsAt(s, a + 1, b))

ExpAt(s, a, b) ==
    a = b \/ (s[a] = "e" /\ \/ DigitsAt(s, a + 1, b)
                            \/ s[a + 1] \in {"+", "-"} /\ DigitsAt(s, a + 2, b))

\* s has an unsigned number from position a to position n.
NumberAt(s, a, n) ==
    \E i, j \in a .. n + 1 : i <= j /\ IntAt(s, a, i) /\ FracAt(s, i, j) /\ ExpAt(s, j, n + 1)

(* Any part of a sequence, empty or not.                                   *)
LEMMA AnyPart ==
    ASSUME NEW S, NEW s \in Seq(S), NEW a \in 1 .. Len(s) + 1, NEW b \in a .. Len(s) + 1
    PROVE  /\ SubSeq(s, a, b - 1) \in Seq(S)
           /\ Len(SubSeq(s, a, b - 1)) = b - a
           /\ \A k \in 1 .. b - a : SubSeq(s, a, b - 1)[k] = s[a + k - 1]
           /\ SubSeq(s, a, b - 1) = <<>> <=> a = b
<1>1. Len(s) \in Nat /\ a \in Nat /\ b \in Nat /\ a <= b
  OBVIOUS
<1>2. CASE a = b
  <2>1. SubSeq(s, a, b - 1) = <<>>
    BY <1>1, <1>2
  <2>2. 1 .. b - a = {}
    BY <1>1, <1>2
  <2>. QED
    BY <1>1, <1>2, <2>1, <2>2
<1>3. CASE a # b
  <2>. DEFINE c == b - 1
              n == b - a
              t == SubSeq(s, a, c)
  <2>1. a \in 1 .. Len(s) /\ c \in a .. Len(s) /\ c - a + 1 = n /\ n \in Nat /\ n # 0
    BY <1>1, <1>3
  <2>. HIDE DEF c
  <2>2. t \in Seq(S) /\ Len(t) = c - a + 1 /\ \A k \in 1 .. c - a + 1 : t[k] = s[a + k - 1]
    BY <2>1, PartOf
  <2>. HIDE DEF n, t
  <2>3. t \in Seq(S) /\ Len(t) = n /\ \A k \in 1 .. n : t[k] = s[a + k - 1]
    BY <2>1, <2>2
  <2>4. t # <<>>
    BY <2>1, <2>3
  <2>. QED
    BY <1>3, <2>3, <2>4, Zenon DEF n, t, c
<1>. QED
  BY <1>2, <1>3

(* Whether a part, or the end of one, is digits.                           *)
LEMMA PartIsDigits ==
    ASSUME NEW S, NEW s \in Seq(S), NEW a \in 1 .. Len(s) + 1, NEW b \in a .. Len(s) + 1
    PROVE  AllDigits(SubSeq(s, a, b - 1)) <=> DigitsAt(s, a, b)
<1>0. /\ SubSeq(s, a, b - 1) \in Seq(S)
      /\ Len(SubSeq(s, a, b - 1)) = b - a
      /\ \A k \in 1 .. b - a : SubSeq(s, a, b - 1)[k] = s[a + k - 1]
      /\ SubSeq(s, a, b - 1) = <<>> <=> a = b
  <2>1. SubSeq(s, a, b - 1) \in Seq(S) /\ Len(SubSeq(s, a, b - 1)) = b - a
    BY AnyPart
  <2>2. \A k \in 1 .. b - a : SubSeq(s, a, b - 1)[k] = s[a + k - 1]
    BY AnyPart
  <2>3. SubSeq(s, a, b - 1) = <<>> <=> a = b
    BY AnyPart
  <2>. QED
    BY <2>1, <2>2, <2>3, Zenon
<1>. DEFINE t == SubSeq(s, a, b - 1)
            n == b - a
<1>1. t \in Seq(S) /\ Len(t) = n /\ (\A k \in 1 .. n : t[k] = s[a + k - 1]) /\ (t = <<>> <=> a = b)
  BY <1>0, Zenon
<1>. HIDE DEF t
<1>2. (\A k \in 1 .. n : t[k] \in Digits) <=> (\A k \in a .. b - 1 : s[k] \in Digits)
  <2>1. ASSUME \A k \in 1 .. n : t[k] \in Digits, NEW k \in a .. b - 1
        PROVE  s[k] \in Digits
    <3>1. k - a + 1 \in 1 .. n /\ a + (k - a + 1) - 1 = k
      OBVIOUS
    <3>. QED
      BY <1>1, <2>1, <3>1
  <2>2. ASSUME \A k \in a .. b - 1 : s[k] \in Digits, NEW k \in 1 .. n
        PROVE  t[k] \in Digits
    <3>1. a + k - 1 \in a .. b - 1
      OBVIOUS
    <3>. QED
      BY <1>1, <2>2, <3>1
  <2>. QED
    BY <2>1, <2>2
<1>3. a < b <=> a # b
  OBVIOUS
<1>. QED
  BY <1>1, <1>2, <1>3 DEF AllDigits, DigitsAt, t

(* The end of a part is a part.                                            *)
LEMMA EndOfPart ==
    ASSUME NEW S, NEW s \in Seq(S), NEW a \in 1 .. Len(s) + 1, NEW b \in a .. Len(s) + 1,
           NEW k \in 1 .. b - a + 1
    PROVE  SubSeq(SubSeq(s, a, b - 1), k, b - a) = SubSeq(s, a + k - 1, b - 1)
<1>1. Len(s) \in Nat /\ a \in Nat /\ b \in Nat /\ a <= b /\ k \in Nat
  OBVIOUS
<1>2. CASE k = b - a + 1
  <2>1. k > b - a /\ a + k - 1 > b - 1
    BY <1>1, <1>2
  <2>2. k \in Int /\ b - a \in Int /\ a + k - 1 \in Int /\ b - 1 \in Int
    BY <1>1
  <2>3. SubSeq(SubSeq(s, a, b - 1), k, b - a) = <<>> /\ SubSeq(s, a + k - 1, b - 1) = <<>>
    BY <2>1, <2>2, SubSeqEmpty
  <2>. QED
    BY <2>3
<1>3. CASE k # b - a + 1
  <2>. DEFINE c == b - 1
  <2>1. a \in 1 .. Len(s) /\ c \in a .. Len(s) /\ c - a + 1 = b - a /\ k \in 1 .. c - a + 1
    BY <1>1, <1>3
  <2>. HIDE DEF c
  <2>2. SubSeq(SubSeq(s, a, c), k, c - a + 1) = SubSeq(s, a + k - 1, c)
    BY <2>1, PartOfPart
  <2>. QED
    BY <2>1, <2>2 DEF c
<1>. QED
  BY <1>2, <1>3

(* The parts of a number, by their positions.                              *)
LEMMA IntIsAt ==
    ASSUME NEW S, NEW t \in Seq(S), NEW b \in 1 .. Len(t) + 1
    PROVE  IsInt(SubSeq(t, 1, b - 1)) <=> IntAt(t, 1, b)
<1>. DEFINE u == SubSeq(t, 1, b - 1)
<1>1. Len(t) \in Nat /\ b \in Nat /\ 1 \in 1 .. Len(t) + 1 /\ b \in 1 .. Len(t) + 1
  OBVIOUS
<1>2. AllDigits(u) <=> DigitsAt(t, 1, b)
  BY <1>1, PartIsDigits
<1>3. Len(u) = b - 1 /\ \A k \in 1 .. b - 1 : u[k] = t[1 + k - 1]
  BY <1>1, AnyPart
<1>. HIDE DEF u
<1>4. DigitsAt(t, 1, b) => u[1] = t[1]
  <2>1. 1 < b => 1 \in 1 .. b - 1 /\ 1 + 1 - 1 = 1
    BY <1>1
  <2>. QED
    BY <1>3, <2>1 DEF DigitsAt
<1>5. Len(u) = 1 <=> b = 1 + 1
  BY <1>1, <1>3
<1>. QED
  BY <1>2, <1>4, <1>5 DEF IsInt, IntAt, u

(* The same of a fraction,                                                 *)
LEMMA FracIsAt ==
    ASSUME NEW S, NEW t \in Seq(S), NEW a \in 1 .. Len(t) + 1, NEW b \in a .. Len(t) + 1
    PROVE  LET frac == SubSeq(t, a, b - 1)
           IN  (frac # <<>> => frac[1] = "." /\ AllDigits(Tail(frac))) <=> FracAt(t, a, b)
<1>. DEFINE u == SubSeq(t, a, b - 1)
<1>1. Len(t) \in Nat /\ a \in Nat /\ b \in Nat /\ a <= b
  OBVIOUS
<1>2. /\ u \in Seq(S) /\ Len(u) = b - a /\ (\A k \in 1 .. b - a : u[k] = t[a + k - 1])
      /\ u = <<>> <=> a = b
  BY AnyPart
<1>3. CASE a = b
  BY <1>2, <1>3 DEF FracAt
<1>4. CASE a # b
  <2>1. /\ a + 1 \in 1 .. Len(t) + 1 /\ b \in a + 1 .. Len(t) + 1 /\ 2 \in 1 .. b - a + 1
        /\ 1 \in 1 .. b - a /\ a + 1 - 1 = a /\ a + 2 - 1 = a + 1
    BY <1>1, <1>4
  <2>2. u[1] = t[a] /\ u # <<>>
    BY <1>2, <1>4, <2>1
  <2>3. SubSeq(u, 2, b - a) = SubSeq(t, a + 2 - 1, b - 1)
    BY <2>1, EndOfPart
  <2>4. Tail(u) = SubSeq(t, a + 1, b - 1)
    <3>. HIDE DEF u
    <3>1. Tail(u) = SubSeq(u, 2, Len(u))
      BY <1>2, <2>2, TailIsSubSeq
    <3>. QED
      BY <1>2, <2>1, <2>3, <3>1
  <2>5. AllDigits(Tail(u)) <=> DigitsAt(t, a + 1, b)
    BY <2>1, <2>4, PartIsDigits
  <2>. QED
    BY <1>4, <2>2, <2>5 DEF FracAt
<1>. QED
  BY <1>3, <1>4

(* and of an exponent.                                                     *)
LEMMA ExpIsAt ==
    ASSUME NEW S, NEW t \in Seq(S), NEW a \in 1 .. Len(t) + 1
    PROVE  LET exp == SubSeq(t, a, Len(t))
           IN  (exp # <<>> => /\ exp[1] = "e"
                              /\ \/ AllDigits(Tail(exp))
                                 \/ /\ Len(exp) > 1 /\ exp[2] \in {"+", "-"}
                                    /\ AllDigits(SubSeq(exp, 3, Len(exp))))
               <=> ExpAt(t, a, Len(t) + 1)
<1>. DEFINE b == Len(t) + 1
            u == SubSeq(t, a, Len(t))
<1>1. Len(t) \in Nat /\ a \in Nat /\ b \in Nat /\ a <= b /\ b - 1 = Len(t) /\ b \in a .. Len(t) + 1
  OBVIOUS
<1>2. /\ u \in Seq(S) /\ Len(u) = b - a /\ (\A k \in 1 .. b - a : u[k] = t[a + k - 1])
      /\ u = <<>> <=> a = b
  <2>. DEFINE v == SubSeq(t, a, b - 1)
  <2>1. v = u
    BY <1>1
  <2>. HIDE DEF b
  <2>2. /\ v \in Seq(S) /\ Len(v) = b - a /\ (\A k \in 1 .. b - a : v[k] = t[a + k - 1])
        /\ v = <<>> <=> a = b
    <3>1. b \in a .. Len(t) + 1
      BY <1>1
    <3>. QED
      BY <3>1, AnyPart
  <2>. HIDE DEF u, v
  <2>. QED
    BY <2>1, <2>2
<1>3. \A k \in 1 .. b - a + 1 : SubSeq(u, k, b - a) = SubSeq(t, a + k - 1, b - 1)
  <2>1. u = SubSeq(t, a, b - 1)
    BY <1>1
  <2>. HIDE DEF b, u
  <2>. QED
    BY <1>1, <2>1, EndOfPart
<1>. HIDE DEF u, b
<1>4. CASE a = b
  BY <1>2, <1>4 DEF ExpAt, u, b
<1>5. CASE a # b
  <2>1. /\ a + 1 \in 1 .. Len(t) + 1 /\ b \in a + 1 .. Len(t) + 1 /\ 2 \in 1 .. b - a + 1
        /\ 1 \in 1 .. b - a /\ a + 1 - 1 = a /\ a + 2 - 1 = a + 1 /\ a + 3 - 1 = a + 2
    BY <1>1, <1>5
  <2>2. u[1] = t[a] /\ u # <<>>
    BY <1>2, <1>5, <2>1
  <2>3. Tail(u) = SubSeq(t, a + 1, b - 1)
    <3>1. Tail(u) = SubSeq(u, 2, Len(u))
      BY <1>2, <2>2, TailIsSubSeq
    <3>. QED
      BY <1>2, <1>3, <2>1, <3>1
  <2>4. AllDigits(Tail(u)) <=> DigitsAt(t, a + 1, b)
    BY <2>1, <2>3, PartIsDigits
  <2>5. CASE b = a + 1
    <3>1. ~(Len(u) > 1)
      BY <1>1, <1>2, <2>5
    <3>2. ~DigitsAt(t, a + 2, b)
      BY <1>1, <2>5 DEF DigitsAt
    <3>. QED
      BY <1>2, <2>2, <2>4, <1>5, <3>1, <3>2 DEF ExpAt, u, b
  <2>6. CASE b # a + 1
    <3>1. /\ a + 2 \in 1 .. Len(t) + 1 /\ b \in a + 2 .. Len(t) + 1 /\ 3 \in 1 .. b - a + 1
          /\ 2 \in 1 .. b - a
      BY <1>1, <2>1, <2>6
    <3>2. u[2] = t[a + 1] /\ Len(u) > 1
      BY <1>2, <2>1, <3>1
    <3>3. SubSeq(u, 3, Len(u)) = SubSeq(t, a + 2, b - 1)
      BY <1>2, <1>3, <2>1, <3>1
    <3>4. AllDigits(SubSeq(u, 3, Len(u))) <=> DigitsAt(t, a + 2, b)
      BY <3>1, <3>3, PartIsDigits
    <3>. QED
      BY <1>5, <2>2, <2>4, <3>2, <3>4 DEF ExpAt, u, b
  <2>. QED
    BY <2>5, <2>6
<1>. QED
  BY <1>4, <1>5

(* A whole sequence, by the positions of the parts.                        *)
LEMMA UnsignedIsAt ==
    ASSUME NEW S, NEW t \in Seq(S)
    PROVE  IsUnsigned(t) <=> NumberAt(t, 1, Len(t))
<1>. DEFINE l == Len(t)
            Parts(i, j) == i <= j /\ IntAt(t, 1, i) /\ FracAt(t, i, j) /\ ExpAt(t, j, l + 1)
            Is(i, j) == LET int  == SubSeq(t, 1, i)
                            frac == SubSeq(t, i + 1, j)
                            exp  == SubSeq(t, j + 1, l)
                        IN  /\ i <= j /\ IsInt(int)
                            /\ frac # <<>> => frac[1] = "." /\ AllDigits(Tail(frac))
                            /\ exp # <<>> => /\ exp[1] = "e"
                                             /\ \/ AllDigits(Tail(exp))
                                                \/ /\ Len(exp) > 1 /\ exp[2] \in {"+", "-"}
                                                   /\ AllDigits(SubSeq(exp, 3, Len(exp)))
<1>1. l \in Nat
  OBVIOUS
<1>2. ASSUME NEW i \in 0 .. l, NEW j \in 0 .. l
      PROVE  Is(i, j) <=> Parts(i + 1, j + 1)
  <2>1. i <= j <=> i + 1 <= j + 1
    OBVIOUS
  <2>2. IsInt(SubSeq(t, 1, i)) <=> IntAt(t, 1, i + 1)
    <3>1. i + 1 \in 1 .. l + 1 /\ i + 1 - 1 = i
      BY <1>1
    <3>2. IsInt(SubSeq(t, 1, i + 1 - 1)) <=> IntAt(t, 1, i + 1)
      BY <3>1, IntIsAt
    <3>. QED
      BY <3>1, <3>2
  <2>3. i <= j => LET frac == SubSeq(t, i + 1, j)
                  IN  (frac # <<>> => frac[1] = "." /\ AllDigits(Tail(frac)))
                      <=> FracAt(t, i + 1, j + 1)
    <3>. SUFFICES ASSUME i <= j
                  PROVE  LET frac == SubSeq(t, i + 1, j)
                         IN  (frac # <<>> => frac[1] = "." /\ AllDigits(Tail(frac)))
                             <=> FracAt(t, i + 1, j + 1)
      OBVIOUS
    <3>1. i + 1 \in 1 .. l + 1 /\ j + 1 \in i + 1 .. l + 1 /\ j + 1 - 1 = j
      BY <1>1
    <3>. DEFINE x == i + 1
                y == j + 1
    <3>2. LET frac == SubSeq(t, x, y - 1)
          IN  (frac # <<>> => frac[1] = "." /\ AllDigits(Tail(frac))) <=> FracAt(t, x, y)
      <4>1. x \in 1 .. Len(t) + 1 /\ y \in x .. Len(t) + 1
        BY <3>1
      <4>. HIDE DEF x, y
      <4>. QED
        BY <4>1, FracIsAt
    <3>. QED
      BY <3>1, <3>2
  <2>4. LET exp == SubSeq(t, j + 1, l)
        IN  (exp # <<>> => /\ exp[1] = "e"
                           /\ \/ AllDigits(Tail(exp))
                              \/ /\ Len(exp) > 1 /\ exp[2] \in {"+", "-"}
                                 /\ AllDigits(SubSeq(exp, 3, Len(exp))))
            <=> ExpAt(t, j + 1, l + 1)
    <3>1. j + 1 \in 1 .. l + 1
      BY <1>1
    <3>. QED
      BY <3>1, ExpIsAt
  <2>. QED
    BY <2>1, <2>2, <2>3, <2>4
<1>3. IsUnsigned(t) <=> \E i, j \in 0 .. l : Is(i, j)
  BY Zenon DEF IsUnsigned
<1>4. NumberAt(t, 1, l) <=> \E i, j \in 1 .. l + 1 : Parts(i, j)
  BY Zenon DEF NumberAt
<1>. HIDE DEF Is, Parts
<1>5. ASSUME NEW i \in 0 .. l, NEW j \in 0 .. l, Is(i, j)
      PROVE  \E x, y \in 1 .. l + 1 : Parts(x, y)
  <2>1. i + 1 \in 1 .. l + 1 /\ j + 1 \in 1 .. l + 1 /\ Parts(i + 1, j + 1)
    BY <1>1, <1>2, <1>5
  <2>. QED
    BY <2>1
<1>6. ASSUME NEW x \in 1 .. l + 1, NEW y \in 1 .. l + 1, Parts(x, y)
      PROVE  \E i, j \in 0 .. l : Is(i, j)
  <2>1. x - 1 \in 0 .. l /\ y - 1 \in 0 .. l /\ x - 1 + 1 = x /\ y - 1 + 1 = y
    BY <1>1
  <2>2. Is(x - 1, y - 1) <=> Parts(x - 1 + 1, y - 1 + 1)
    BY <1>2, <2>1
  <2>. QED
    BY <1>6, <2>1, <2>2
<1>. QED
  BY <1>3, <1>4, <1>5, <1>6

(* A number in a part is one in the whole.                                 *)
LEMMA NumberInPart ==
    ASSUME NEW S, NEW s \in Seq(S), NEW a \in 1 .. Len(s) + 1, NEW n \in a - 1 .. Len(s)
    PROVE  IsUnsigned(SubSeq(s, a, n)) <=> NumberAt(s, a, n)
<1>. DEFINE t == SubSeq(s, a, n)
            l == n - a + 1
            d == a - 1
<1>1. /\ Len(s) \in Nat /\ a \in Nat /\ n \in Nat /\ l \in Nat /\ d \in Nat
      /\ l + 1 + d = n + 1 /\ 1 + d = a
  OBVIOUS
<1>2. t \in Seq(S) /\ Len(t) = l /\ \A k \in 1 .. l : t[k] = s[k + d]
  <2>. DEFINE b == n + 1
  <2>1. b \in a .. Len(s) + 1 /\ b - 1 = n /\ b - a = l
    BY <1>1
  <2>. HIDE DEF b
  <2>2. /\ SubSeq(s, a, b - 1) \in Seq(S)
        /\ Len(SubSeq(s, a, b - 1)) = b - a
        /\ \A k \in 1 .. b - a : SubSeq(s, a, b - 1)[k] = s[a + k - 1]
    BY <2>1, AnyPart
  <2>3. \A k \in 1 .. l : a + k - 1 = k + d
    BY <1>1
  <2>. HIDE DEF t, l, d
  <2>4. t = SubSeq(s, a, n)
    BY DEF t
  <2>. QED
    BY <2>1, <2>2, <2>3, <2>4
<1>. HIDE DEF t, l, d
<1>3. \A x, y \in 1 .. l + 1 : DigitsAt(t, x, y) <=> DigitsAt(s, x + d, y + d)
  <2>. SUFFICES ASSUME NEW x \in 1 .. l + 1, NEW y \in 1 .. l + 1
                PROVE  DigitsAt(t, x, y) <=> DigitsAt(s, x + d, y + d)
    OBVIOUS
  <2>1. x < y <=> x + d < y + d
    BY <1>1
  <2>2. ASSUME DigitsAt(t, x, y), NEW k \in x + d .. (y + d) - 1 PROVE s[k] \in Digits
    <3>1. k - d \in x .. y - 1 /\ k - d \in 1 .. l /\ k - d + d = k
      BY <1>1
    <3>2. t[k - d] \in Digits /\ t[k - d] = s[k - d + d]
      BY <1>2, <2>2, <3>1 DEF DigitsAt
    <3>. QED
      BY <3>1, <3>2
  <2>3. ASSUME DigitsAt(s, x + d, y + d), NEW k \in x .. y - 1 PROVE t[k] \in Digits
    <3>1. k + d \in x + d .. (y + d) - 1 /\ k \in 1 .. l
      BY <1>1
    <3>2. s[k + d] \in Digits
      BY <2>3, <3>1, Zenon DEF DigitsAt
    <3>. QED
      BY <1>2, <3>1, <3>2
  <2>4. DigitsAt(t, x, y) => DigitsAt(s, x + d, y + d)
    <3>1. DigitsAt(t, x, y) => \A k \in x + d .. (y + d) - 1 : s[k] \in Digits
      BY <2>2
    <3>. QED
      BY <2>1, <3>1, Zenon DEF DigitsAt
  <2>5. DigitsAt(s, x + d, y + d) => DigitsAt(t, x, y)
    <3>1. DigitsAt(s, x + d, y + d) => \A k \in x .. y - 1 : t[k] \in Digits
      BY <2>3
    <3>. QED
      BY <2>1, <3>1, Zenon DEF DigitsAt
  <2>. QED
    BY <2>4, <2>5
<1>4. \A x, y \in 1 .. l + 1 : x < y => t[x] = s[x + d]
  BY <1>1, <1>2
<1>5. \A y \in 1 .. l + 1 : IntAt(t, 1, y) <=> IntAt(s, a, y + d)
  <2>. SUFFICES ASSUME NEW y \in 1 .. l + 1 PROVE IntAt(t, 1, y) <=> IntAt(s, a, y + d)
    OBVIOUS
  <2>1. DigitsAt(t, 1, y) <=> DigitsAt(s, a, y + d)
    BY <1>1, <1>3
  <2>2. DigitsAt(t, 1, y) => t[1] = s[a]
    BY <1>1, <1>4 DEF DigitsAt
  <2>3. y = 1 + 1 <=> y + d = a + 1
    BY <1>1
  <2>. QED
    BY <2>1, <2>2, <2>3 DEF IntAt
<1>6. \A x, y \in 1 .. l + 1 : x <= y => (FracAt(t, x, y) <=> FracAt(s, x + d, y + d))
  <2>. SUFFICES ASSUME NEW x \in 1 .. l + 1, NEW y \in 1 .. l + 1, x <= y
                PROVE  FracAt(t, x, y) <=> FracAt(s, x + d, y + d)
    OBVIOUS
  <2>1. x = y <=> x + d = y + d
    BY <1>1
  <2>2. CASE x = y
    BY <2>1, <2>2 DEF FracAt
  <2>3. CASE x # y
    <3>1. x < y /\ x + 1 \in 1 .. l + 1 /\ x + 1 + d = x + d + 1
      BY <1>1, <2>3
    <3>2. t[x] = s[x + d] /\ (DigitsAt(t, x + 1, y) <=> DigitsAt(s, x + d + 1, y + d))
      <4>1. DigitsAt(t, x + 1, y) <=> DigitsAt(s, x + 1 + d, y + d)
        BY <1>3, <3>1
      <4>. QED
        BY <1>4, <3>1, <4>1
    <3>. QED
      BY <2>1, <3>2 DEF FracAt
  <2>. QED
    BY <2>2, <2>3
<1>7. \A x \in 1 .. l + 1 : ExpAt(t, x, l + 1) <=> ExpAt(s, x + d, n + 1)
  <2>. SUFFICES ASSUME NEW x \in 1 .. l + 1 PROVE ExpAt(t, x, l + 1) <=> ExpAt(s, x + d, n + 1)
    OBVIOUS
  <2>1. x = l + 1 <=> x + d = n + 1
    BY <1>1
  <2>2. CASE x = l + 1
    BY <2>1, <2>2 DEF ExpAt
  <2>3. CASE x # l + 1
    <3>1. x < l + 1 /\ x + 1 \in 1 .. l + 1 /\ l + 1 \in 1 .. l + 1
          /\ x + 1 + d = x + d + 1 /\ x + 2 + d = x + d + 2
      BY <1>1, <2>3
    <3>2. t[x] = s[x + d] /\ (DigitsAt(t, x + 1, l + 1) <=> DigitsAt(s, x + d + 1, n + 1))
      <4>1. DigitsAt(t, x + 1, l + 1) <=> DigitsAt(s, x + 1 + d, l + 1 + d)
        BY <1>3, <3>1
      <4>. QED
        BY <1>1, <1>4, <3>1, <4>1
    <3>3. CASE x = l
      <4>1. ~DigitsAt(t, x + 2, l + 1) /\ ~DigitsAt(s, x + d + 2, n + 1)
        BY <1>1, <3>3 DEF DigitsAt
      <4>. QED
        BY <2>1, <3>2, <4>1 DEF ExpAt
    <3>4. CASE x # l
      <4>1. x + 2 \in 1 .. l + 1 /\ x + 1 < l + 1
        BY <1>1, <3>1, <3>4
      <4>2. DigitsAt(t, x + 2, l + 1) <=> DigitsAt(s, x + 2 + d, l + 1 + d)
        BY <1>3, <3>1, <4>1
      <4>3. t[x + 1] = s[x + 1 + d]
        BY <1>4, <3>1, <4>1
      <4>. QED
        BY <1>1, <2>1, <3>1, <3>2, <4>2, <4>3 DEF ExpAt
    <3>. QED
      BY <3>3, <3>4
  <2>. QED
    BY <2>2, <2>3
<1>. DEFINE InPart(i, j) == i <= j /\ IntAt(t, 1, i) /\ FracAt(t, i, j) /\ ExpAt(t, j, l + 1)
            InWhole(i, j) == i <= j /\ IntAt(s, a, i) /\ FracAt(s, i, j) /\ ExpAt(s, j, n + 1)
<1>8. \A i, j \in 1 .. l + 1 : InPart(i, j) <=> InWhole(i + d, j + d)
  <2>. SUFFICES ASSUME NEW i \in 1 .. l + 1, NEW j \in 1 .. l + 1
                PROVE  InPart(i, j) <=> InWhole(i + d, j + d)
    OBVIOUS
  <2>1. i <= j <=> i + d <= j + d
    BY <1>1
  <2>. QED
    BY <1>5, <1>6, <1>7, <2>1
<1>9. NumberAt(t, 1, l) <=> \E i, j \in 1 .. l + 1 : InPart(i, j)
  BY Zenon DEF NumberAt
<1>10. NumberAt(s, a, n) <=> \E i, j \in a .. n + 1 : InWhole(i, j)
  BY Zenon DEF NumberAt
<1>. HIDE DEF InPart, InWhole
<1>11. ASSUME NEW i \in 1 .. l + 1, NEW j \in 1 .. l + 1, InPart(i, j)
       PROVE  \E x, y \in a .. n + 1 : InWhole(x, y)
  <2>1. i + d \in a .. n + 1 /\ j + d \in a .. n + 1
    BY <1>1
  <2>. QED
    BY <1>8, <1>11, <2>1
<1>12. ASSUME NEW x \in a .. n + 1, NEW y \in a .. n + 1, InWhole(x, y)
       PROVE  \E i, j \in 1 .. l + 1 : InPart(i, j)
  <2>1. x - d \in 1 .. l + 1 /\ y - d \in 1 .. l + 1 /\ x - d + d = x /\ y - d + d = y
    BY <1>1
  <2>2. InPart(x - d, y - d) <=> InWhole(x - d + d, y - d + d)
    BY <1>8, <2>1
  <2>. QED
    BY <1>12, <2>1, <2>2
<1>13. IsUnsigned(t) <=> NumberAt(t, 1, l)
  BY <1>2, UnsignedIsAt
<1>. QED
  BY <1>9, <1>10, <1>11, <1>12, <1>13 DEF t

(* A run ends at the first byte that is not of its class.                  *)
LEMMA RunEndStops ==
    ASSUME NEW S, NEW s, Input(s, S), NEW p \in 1 .. Len(s) + 1, NEW class, "eof" \notin class
    PROVE  /\ RunEnd(s, p, class) \in p .. Len(s) + 1
           /\ \A i \in p .. RunEnd(s, p, class) - 1 : s[i] \in class
           /\ Byte(s, RunEnd(s, p, class)) \notin class
<1>. DEFINE n == Len(s)
            T == {q \in p .. n + 1 : Byte(s, q) \notin class}
            Is(q) == /\ \A i \in p .. q - 1 : s[i] \in class
                     /\ Byte(s, q) \notin class
<1>1. n \in Nat
  BY DEF Input
<1>2. n + 1 \in T
  <2>1. n + 1 \in Nat \ {0} /\ n + 1 > n /\ n + 1 \in p .. n + 1
    BY <1>1
  <2>2. Byte(s, n + 1) = "eof"
    BY <2>1, ByteInside
  <2>. QED
    BY <2>1, <2>2
<1>3. PICK q \in T : \A k \in T : q <= k
  <2>1. T \in SUBSET Nat
    BY <1>1
  <2>. HIDE DEF T
  <2>. QED
    BY <1>2, <2>1, NatMinimum
<1>4. Is(q)
  <2>. SUFFICES ASSUME NEW i \in p .. q - 1 PROVE s[i] \in class
    BY <1>3
  <2>1. i \in p .. n + 1 /\ i \notin T /\ i <= n /\ i \in Nat \ {0}
    BY <1>1, <1>3
  <2>2. Byte(s, i) = s[i]
    BY <2>1, ByteInside
  <2>. QED
    BY <2>1, <2>2
<1>5. RunEnd(s, p, class) = CHOOSE x \in p .. n + 1 : Is(x)
  BY Zenon DEF RunEnd
<1>6. q \in p .. n + 1
  BY <1>3
<1>. HIDE DEF Is
<1>7. RunEnd(s, p, class) \in p .. n + 1 /\ Is(RunEnd(s, p, class))
  BY <1>4, <1>5, <1>6, Zenon
<1>. QED
  BY <1>7 DEF Is

(* The digits from p on are those up to the end of their run.              *)
LEMMA DigitsRun ==
    ASSUME NEW S, NEW s, Input(s, S), NEW p \in 1 .. Len(s) + 1
    PROVE  /\ RunEnd(s, p, Digits) \in p .. Len(s) + 1
           /\ Byte(s, RunEnd(s, p, Digits)) \notin Digits
           /\ \A b \in p .. Len(s) + 1 :
                 /\ DigitsAt(s, p, b) <=> p < b /\ b <= RunEnd(s, p, Digits)
                 /\ b < RunEnd(s, p, Digits) => s[b] \in Digits
           /\ Byte(s, p) \in Digits <=> p < RunEnd(s, p, Digits)
<1>. DEFINE r == RunEnd(s, p, Digits)
            n == Len(s)
<1>1. n \in Nat /\ p \in Nat \ {0}
  BY DEF Input
<1>2. /\ r \in p .. n + 1
      /\ \A i \in p .. r - 1 : s[i] \in Digits
      /\ Byte(s, r) \notin Digits
  BY RunEndStops DEF Digits
<1>. HIDE DEF r
<1>3. \A i \in p .. n : Byte(s, i) = s[i]
  BY <1>1 DEF Byte
<1>4. ASSUME NEW b \in p .. n + 1
      PROVE  /\ DigitsAt(s, p, b) <=> p < b /\ b <= r
             /\ b < r => s[b] \in Digits
  <2>1. ASSUME DigitsAt(s, p, b), ~(b <= r)
        PROVE  FALSE
    <3>1. r \in p .. b - 1 /\ r \in p .. n
      BY <1>1, <1>2, <2>1
    <3>. QED
      BY <1>2, <1>3, <2>1, <3>1 DEF DigitsAt
  <2>2. ASSUME p < b, b <= r
        PROVE  DigitsAt(s, p, b)
    <3>1. \A i \in p .. b - 1 : i \in p .. r - 1
      BY <1>1, <1>2, <2>2
    <3>. QED
      BY <1>2, <2>2, <3>1 DEF DigitsAt
  <2>3. b < r => b \in p .. r - 1
    BY <1>1, <1>2
  <2>. QED
    BY <1>2, <2>1, <2>2, <2>3 DEF DigitsAt
<1>5. Byte(s, p) \in Digits <=> p < r
  <2>1. p < r => p \in p .. r - 1 /\ p \in p .. n
    BY <1>1, <1>2
  <2>2. p = r \/ p < r
    BY <1>1, <1>2
  <2>. QED
    BY <1>2, <1>3, <2>1, <2>2
<1>. QED
  BY <1>2, <1>4, <1>5 DEF r

(* The longest parts: any other ends inside them.                          *)
IntMax(s, a, b) ==
    /\ IntAt(s, a, b)
    /\ \A i \in a .. Len(s) + 1 : IntAt(s, a, i) => i = b \/ (i < b /\ s[i] \in Digits)

FracMax(s, a, b) ==
    /\ FracAt(s, a, b)
    /\ \A j \in a .. Len(s) + 1 : FracAt(s, a, j) => j = b \/ (j < b /\ s[j] \in Digits \cup {"."})

ExpMax(s, a, b) ==
    /\ ExpAt(s, a, b)
    /\ \A k \in a .. Len(s) + 1 : ExpAt(s, a, k) => k <= b

(* Where the lexer leaves each part.                                       *)
LEMMA IntegerEnds ==
    ASSUME NEW S, NEW s, Input(s, S), NEW a \in 1 .. Len(s) + 1, Byte(s, a) \in Digits
    PROVE  \E b \in a + 1 .. Len(s) + 1 :
              /\ IntMax(s, a, b)
              /\ IntegerEnd(s, a) = b \/ (IntegerEnd(s, a) = 0 /\ Byte(s, b) \in Digits)
<1>. DEFINE n == Len(s)
            r == RunEnd(s, a, Digits)
<1>1. n \in Nat /\ a \in Nat \ {0} /\ a <= n /\ Byte(s, a) = s[a] /\ s[a] \in Digits
  BY DEF Input, Byte, Digits
<1>2. /\ r \in a .. n + 1 /\ a < r
      /\ \A b \in a .. n + 1 : /\ DigitsAt(s, a, b) <=> a < b /\ b <= r
                               /\ b < r => s[b] \in Digits
  BY DigitsRun
<1>3. CASE s[a] = "0"
  <2>1. a + 1 \in a + 1 .. n + 1 /\ a + 1 \in a .. n + 1 /\ a + 1 <= r
    BY <1>1, <1>2
  <2>2. IntMax(s, a, a + 1)
    <3>1. DigitsAt(s, a, a + 1)
      BY <1>1, <1>2, <2>1
    <3>. QED
      BY <1>3, <3>1 DEF IntMax, IntAt
  <2>3. IntegerEnd(s, a) = IF Byte(s, a + 1) \in Digits THEN 0 ELSE a + 1
    BY <1>1, <1>3 DEF IntegerEnd
  <2>. QED
    BY <2>1, <2>2, <2>3
<1>4. CASE s[a] = "1"
  <2>. DEFINE q == RunEnd(s, a + 1, Digits)
  <2>1. a + 1 \in 1 .. n + 1
    BY <1>1
  <2>2. /\ q \in a + 1 .. n + 1 /\ Byte(s, q) \notin Digits
        /\ \A b \in a + 1 .. n + 1 : b < q => s[b] \in Digits
    BY <2>1, DigitsRun
  <2>3. q = r
    <3>1. Byte(s, r) \notin Digits
      BY DigitsRun
    <3>. HIDE DEF q, r
    <3>2. r \in a + 1 .. n + 1 /\ q \in a .. n + 1
      BY <1>1, <1>2, <2>2
    <3>3. \A i \in a .. n : Byte(s, i) = s[i]
      BY <1>1 DEF Byte
    <3>4. ~(r < q)
      <4>1. r < q => r \in a .. n
        BY <1>1, <1>2, <2>2, <3>2
      <4>. QED
        BY <2>2, <3>1, <3>2, <3>3, <4>1
    <3>5. ~(q < r)
      <4>1. q < r => q \in a .. n
        BY <1>1, <1>2, <2>2, <3>2
      <4>. QED
        BY <1>2, <2>2, <3>2, <3>3, <4>1
    <3>. QED
      BY <1>1, <3>2, <3>4, <3>5
  <2>4. IntegerEnd(s, a) = q
    BY <1>1, <1>4 DEF IntegerEnd
  <2>. HIDE DEF q, r
  <2>5. r \in a + 1 .. n + 1
    BY <2>2, <2>3
  <2>6. IntMax(s, a, r)
    <3>1. IntAt(s, a, r)
      BY <1>2, <1>4 DEF IntAt
    <3>2. ASSUME NEW i \in a .. n + 1, IntAt(s, a, i)
          PROVE  i = r \/ (i < r /\ s[i] \in Digits)
      <4>1. i <= r
        BY <1>2, <3>2 DEF IntAt
      <4>. QED
        BY <1>1, <1>2, <4>1
    <3>. QED
      BY <3>1, <3>2 DEF IntMax
  <2>. QED
    BY <2>3, <2>4, <2>5, <2>6
<1>. QED
  BY <1>1, <1>3, <1>4 DEF Digits

(* The same of the fraction,                                               *)
LEMMA FractionEnds ==
    ASSUME NEW S, NEW s, Input(s, S), NEW a \in 1 .. Len(s) + 1
    PROVE  \E b \in a .. Len(s) + 1 :
              /\ FracMax(s, a, b)
              /\ FractionEnd(s, a) = b \/ (FractionEnd(s, a) = 0 /\ b = a /\ Byte(s, b) = ".")
<1>. DEFINE n == Len(s)
            r == RunEnd(s, a + 1, Digits)
<1>1. n \in Nat /\ a \in Nat \ {0} /\ a \in a .. n + 1
  BY DEF Input
<1>2. CASE Byte(s, a) # "."
  <2>1. ASSUME NEW j \in a .. n + 1, FracAt(s, a, j)
        PROVE  j = a
    <3>. SUFFICES ASSUME j # a PROVE FALSE
      OBVIOUS
    <3>1. a <= n
      BY <1>1
    <3>2. Byte(s, a) = s[a]
      BY <3>1 DEF Byte
    <3>. QED
      BY <1>2, <2>1, <3>2 DEF FracAt
  <2>2. FracMax(s, a, a)
    BY <2>1 DEF FracMax, FracAt
  <2>3. FractionEnd(s, a) = a
    BY <1>2 DEF FractionEnd
  <2>. QED
    BY <1>1, <2>2, <2>3
<1>3. CASE Byte(s, a) = "."
  <2>1. a <= n /\ s[a] = "." /\ a + 1 \in 1 .. n + 1
    BY <1>1, <1>3 DEF Byte
  <2>2. /\ r \in a + 1 .. n + 1
        /\ \A b \in a + 1 .. n + 1 : /\ DigitsAt(s, a + 1, b) <=> a + 1 < b /\ b <= r
                                     /\ b < r => s[b] \in Digits
    BY <2>1, DigitsRun
  <2>3. FractionEnd(s, a) = IF r = a + 1 THEN 0 ELSE r
    BY <1>3 DEF FractionEnd, DigitsEnd
  <2>. HIDE DEF r
  <2>4. ASSUME NEW j \in a .. n + 1, FracAt(s, a, j)
        PROVE  j = a \/ (j \in a + 1 .. n + 1 /\ a + 1 < j /\ j <= r)
    <3>1. j # a => j \in a + 1 .. n + 1
      BY <1>1
    <3>. QED
      BY <2>2, <2>4, <3>1 DEF FracAt
  <2>5. CASE r = a + 1
    <3>1. FracMax(s, a, a)
      BY <1>1, <2>4, <2>5 DEF FracMax, FracAt
    <3>. QED
      BY <1>1, <1>3, <2>3, <2>5, <3>1
  <2>6. CASE r # a + 1
    <3>1. r \in a .. n + 1 /\ a < r /\ a + 1 < r /\ r <= r
      BY <1>1, <2>2, <2>6
    <3>2. FracAt(s, a, r)
      BY <2>1, <2>2, <3>1 DEF FracAt
    <3>3. ASSUME NEW j \in a .. n + 1, FracAt(s, a, j)
          PROVE  j = r \/ (j < r /\ s[j] \in Digits \cup {"."})
      <4>1. CASE j = a
        BY <2>1, <3>1, <4>1
      <4>2. CASE j # a
        <5>1. j \in a + 1 .. n + 1 /\ j <= r
          BY <2>4, <3>3, <4>2
        <5>2. j = r \/ j < r
          BY <1>1, <2>2, <5>1
        <5>. QED
          BY <2>2, <5>1, <5>2
      <4>. QED
        BY <4>1, <4>2
    <3>4. FracMax(s, a, r)
      BY <3>2, <3>3 DEF FracMax
    <3>. QED
      BY <2>3, <2>6, <3>1, <3>4
  <2>. QED
    BY <2>5, <2>6
<1>. QED
  BY <1>2, <1>3

(* and of the exponent.                                                    *)
LEMMA ExponentEnds ==
    ASSUME NEW S, NEW s, Input(s, S), NEW a \in 1 .. Len(s) + 1
    PROVE  \E b \in a .. Len(s) + 1 :
              /\ ExpMax(s, a, b)
              /\ ExponentEnd(s, a) = b \/ (ExponentEnd(s, a) = 0 /\ b = a /\ Byte(s, b) = "e")
<1>. DEFINE n == Len(s)
            p == IF Byte(s, a + 1) \in {"+", "-"} THEN a + 2 ELSE a + 1
            r == RunEnd(s, p, Digits)
<1>1. n \in Nat /\ a \in Nat \ {0} /\ a \in a .. n + 1
  BY DEF Input
<1>2. CASE Byte(s, a) # "e"
  <2>1. ASSUME NEW j \in a .. n + 1, ExpAt(s, a, j)
        PROVE  j = a
    <3>. SUFFICES ASSUME j # a PROVE FALSE
      OBVIOUS
    <3>1. a <= n
      BY <1>1
    <3>2. Byte(s, a) = s[a]
      BY <3>1 DEF Byte
    <3>. QED
      BY <1>2, <2>1, <3>2 DEF ExpAt
  <2>2. ExpMax(s, a, a)
    BY <1>1, <2>1 DEF ExpMax, ExpAt
  <2>3. ExponentEnd(s, a) = a
    BY <1>2 DEF ExponentEnd
  <2>. QED
    BY <1>1, <2>2, <2>3
<1>3. CASE Byte(s, a) = "e"
  <2>1. a <= n /\ s[a] = "e" /\ a + 1 \in 1 .. n + 1
    BY <1>1, <1>3 DEF Byte
  <2>2. p \in 1 .. n + 1 /\ a < p
    <3>1. Byte(s, a + 1) \in {"+", "-"} => a + 1 <= n
      BY DEF Byte
    <3>. QED
      BY <1>1, <2>1, <3>1
  <2>3. ExponentEnd(s, a) = IF r = p THEN 0 ELSE r
    BY <1>3 DEF ExponentEnd, DigitsEnd
  <2>4. /\ r \in p .. n + 1
        /\ \A b \in p .. n + 1 : DigitsAt(s, p, b) <=> p < b /\ b <= r
    <3>. HIDE DEF p
    <3>. QED
      BY <2>2, DigitsRun
  <2>5. ASSUME NEW k \in a .. n + 1
        PROVE  ExpAt(s, a, k) <=> k = a \/ (p < k /\ k <= r)
    <3>1. k > p => k \in p .. n + 1
      BY <2>2
    <3>2. DigitsAt(s, p, k) <=> p < k /\ k <= r
      <4>. HIDE DEF p, r
      <4>1. DigitsAt(s, p, k) => k > p
        BY <1>1, <2>2 DEF DigitsAt
      <4>. QED
        BY <1>1, <2>2, <2>4, <3>1, <4>1
    <3>3. CASE Byte(s, a + 1) \in {"+", "-"}
      <4>1. a + 1 <= n /\ s[a + 1] \in {"+", "-"}
        BY <3>3 DEF Byte
      <4>2. ~DigitsAt(s, a + 1, k)
        <5>. SUFFICES ASSUME DigitsAt(s, a + 1, k) PROVE FALSE
          OBVIOUS
        <5>1. a + 1 \in a + 1 .. k - 1
          BY <1>1 DEF DigitsAt
        <5>2. s[a + 1] \in Digits
          BY <5>1 DEF DigitsAt
        <5>. QED
          BY <4>1, <5>2 DEF Digits
      <4>3. p = a + 2
        BY <3>3
      <4>. HIDE DEF r, p
      <4>. QED
        BY <2>1, <3>2, <4>1, <4>2, <4>3 DEF ExpAt
    <3>4. CASE Byte(s, a + 1) \notin {"+", "-"}
      <4>1. p = a + 1
        BY <3>4
      <4>2. ~(s[a + 1] \in {"+", "-"} /\ DigitsAt(s, a + 2, k))
        <5>. SUFFICES ASSUME s[a + 1] \in {"+", "-"}, DigitsAt(s, a + 2, k) PROVE FALSE
          OBVIOUS
        <5>1. a + 1 <= n
          BY <1>1 DEF DigitsAt
        <5>2. Byte(s, a + 1) = s[a + 1]
          BY <5>1 DEF Byte
        <5>. QED
          BY <3>4, <5>2
      <4>. HIDE DEF r, p
      <4>. QED
        BY <2>1, <3>2, <4>1, <4>2 DEF ExpAt
    <3>. QED
      BY <3>3, <3>4
  <2>. HIDE DEF r, p
  <2>6. CASE r = p
    <3>1. ExpMax(s, a, a)
      <4>1. ExpAt(s, a, a)
        BY DEF ExpAt
      <4>2. ASSUME NEW k \in a .. n + 1, ExpAt(s, a, k) PROVE k <= a
        BY <1>1, <2>2, <2>5, <2>6, <4>2
      <4>. QED
        BY <4>1, <4>2 DEF ExpMax
    <3>. QED
      BY <1>1, <1>3, <2>3, <2>6, <3>1
  <2>7. CASE r # p
    <3>1. r \in a .. n + 1 /\ p < r /\ r <= r /\ a < r
      BY <1>1, <2>2, <2>4, <2>7
    <3>2. ExpMax(s, a, r)
      <4>1. ExpAt(s, a, r)
        BY <2>5, <3>1
      <4>2. ASSUME NEW k \in a .. n + 1, ExpAt(s, a, k) PROVE k <= r
        BY <1>1, <2>5, <3>1, <4>2
      <4>. QED
        BY <4>1, <4>2 DEF ExpMax
    <3>. QED
      BY <2>3, <2>7, <3>1, <3>2
  <2>. QED
    BY <2>6, <2>7
<1>. QED
  BY <1>2, <1>3

(* The end of the longest number at a, and where the lexer ends.           *)
LEMMA NumberEnds ==
    ASSUME NEW S, NEW s, Input(s, S), NEW a \in 1 .. Len(s) + 1
    PROVE  LET i == IntegerEnd(s, a)
               f == IF i = 0 THEN 0 ELSE FractionEnd(s, i)
               e == IF f = 0 THEN 0 ELSE ExponentEnd(s, f)
           IN  \/ e = 0 /\ \A n \in a - 1 .. Len(s) : ~NumberAt(s, a, n)
               \/ \E m \in a + 1 .. Len(s) + 1 :
                     /\ NumberAt(s, a, m - 1)
                     /\ \A n \in a - 1 .. Len(s) : NumberAt(s, a, n) => n <= m - 1
                     /\ e = m \/ (e = 0 /\ Byte(s, m) \in Digits \cup {".", "e"})
<1>. DEFINE l == Len(s)
            i == IntegerEnd(s, a)
            f == IF i = 0 THEN 0 ELSE FractionEnd(s, i)
            e == IF f = 0 THEN 0 ELSE ExponentEnd(s, f)
<1>1. l \in Nat /\ a \in Nat \ {0}
  BY DEF Input
<1>2. CASE Byte(s, a) \notin Digits
  <2>1. i = 0
    BY <1>2 DEF IntegerEnd, Digits
  <2>2. ASSUME NEW n \in a - 1 .. l, NumberAt(s, a, n)
        PROVE  FALSE
    <3>1. PICK x \in a .. n + 1 : IntAt(s, a, x)
      BY <2>2 DEF NumberAt
    <3>2. a < x
      BY <3>1 DEF IntAt, DigitsAt
    <3>3. a \in a .. x - 1 /\ a <= l
      BY <1>1, <3>2
    <3>4. s[a] \in Digits
      BY <3>1, <3>3 DEF IntAt, DigitsAt
    <3>. QED
      BY <1>2, <3>3, <3>4 DEF Byte
  <2>. QED
    BY <2>1, <2>2
<1>3. CASE Byte(s, a) \in Digits
  <2>1. PICK x \in a + 1 .. l + 1 : IntMax(s, a, x) /\ (i = x \/ (i = 0 /\ Byte(s, x) \in Digits))
    BY <1>3, IntegerEnds
  <2>2. x \in 1 .. l + 1 /\ x # 0 /\ x \in Nat
    BY <1>1
  <2>3. PICK y \in x .. l + 1 : FracMax(s, x, y) /\ (FractionEnd(s, x) = y \/
                                  (FractionEnd(s, x) = 0 /\ y = x /\ Byte(s, y) = "."))
    BY <2>2, FractionEnds
  <2>4. y \in 1 .. l + 1 /\ y # 0 /\ y \in Nat
    BY <2>2, <1>1
  <2>5. PICK z \in y .. l + 1 : ExpMax(s, y, z) /\ (ExponentEnd(s, y) = z \/
                                  (ExponentEnd(s, y) = 0 /\ z = y /\ Byte(s, z) = "e"))
    BY <2>4, ExponentEnds
  <2>6. z \in a + 1 .. l + 1 /\ x <= y /\ y <= z /\ x \in a .. z /\ y \in a .. z /\ z # 0
        /\ z - 1 + 1 = z
    BY <1>1, <2>1, <2>2, <2>3, <2>4, <2>5
  <2>7. NumberAt(s, a, z - 1)
    BY <2>1, <2>3, <2>5, <2>6 DEF NumberAt, IntMax, FracMax, ExpMax
  <2>8. ASSUME NEW n \in a - 1 .. l, NumberAt(s, a, n)
        PROVE  n <= z - 1
    <3>. DEFINE k == n + 1
    <3>1. PICK u \in a .. k, v \in a .. k : u <= v /\ IntAt(s, a, u) /\ FracAt(s, u, v) /\ ExpAt(s, v, k)
      BY <2>8 DEF NumberAt
    <3>2. k \in a .. l + 1 /\ u \in a .. l + 1 /\ v \in u .. l + 1 /\ k \in v .. l + 1
      BY <1>1, <3>1
    <3>. HIDE DEF k
    <3>3. CASE u # x
      <4>1. u < x /\ s[u] \in Digits
        BY <2>1, <3>1, <3>2, <3>3 DEF IntMax
      <4>2. v = u
        BY <3>1, <4>1 DEF FracAt, Digits
      <4>3. k = v
        BY <3>1, <4>1, <4>2 DEF ExpAt, Digits
      <4>. QED
        BY <1>1, <2>6, <3>2, <4>1, <4>2, <4>3 DEF k
    <3>4. CASE u = x /\ v # y
      <4>1. v \in x .. l + 1 /\ FracAt(s, x, v)
        BY <3>1, <3>2, <3>4
      <4>2. v < y /\ s[v] \in Digits \cup {"."}
        BY <2>3, <3>4, <4>1 DEF FracMax
      <4>3. k = v
        BY <3>1, <4>2 DEF ExpAt, Digits
      <4>. QED
        BY <1>1, <2>6, <3>2, <4>2, <4>3 DEF k
    <3>5. CASE u = x /\ v = y
      <4>1. k \in y .. l + 1 /\ ExpAt(s, y, k)
        BY <3>1, <3>2, <3>5
      <4>2. k <= z
        BY <2>5, <4>1 DEF ExpMax
      <4>. QED
        BY <1>1, <2>6, <4>2 DEF k
    <3>. QED
      BY <3>3, <3>4, <3>5
  <2>9. e = z \/ (e = 0 /\ Byte(s, z) \in Digits \cup {".", "e"})
    <3>1. CASE i = 0
      <4>1. e = 0 /\ Byte(s, x) \in Digits /\ x <= l
        BY <2>1, <2>2, <3>1 DEF Byte, Digits
      <4>2. Byte(s, x) = s[x] /\ s[x] \in Digits
        BY <4>1 DEF Byte
      <4>3. y = x
        BY <2>3, <4>2 DEF FracMax, FracAt, Digits
      <4>4. z = y
        BY <2>5, <4>2, <4>3 DEF ExpMax, ExpAt, Digits
      <4>. QED
        BY <4>1, <4>3, <4>4
    <3>2. CASE i # 0 /\ f = 0
      <4>1. e = 0 /\ y = x /\ Byte(s, y) = "."
        BY <2>1, <2>3, <2>4, <3>2
      <4>2. s[y] = "."
        BY <4>1 DEF Byte
      <4>3. z = y
        BY <2>5, <4>2 DEF ExpMax, ExpAt
      <4>. QED
        BY <4>1, <4>3
    <3>3. CASE i # 0 /\ f # 0
      <4>1. i = x /\ f = y
        BY <2>1, <2>3, <3>3
      <4>. QED
        BY <2>5, <3>3, <4>1
    <3>. QED
      BY <3>1, <3>2, <3>3
  <2>. HIDE DEF i, f, e
  <2>10. \E m \in a + 1 .. l + 1 :
            /\ NumberAt(s, a, m - 1)
            /\ \A n \in a - 1 .. l : NumberAt(s, a, n) => n <= m - 1
            /\ e = m \/ (e = 0 /\ Byte(s, m) \in Digits \cup {".", "e"})
    BY <2>6, <2>7, <2>8, <2>9
  <2>. QED
    BY <2>10 DEF i, f, e
<1>. QED
  BY <1>2, <1>3

(* The numbers that the input begins with, by their positions.             *)
LEMMA PrefixIsAt ==
    ASSUME NEW S, NEW s, Input(s, S), NEW n \in 1 .. Len(s)
    PROVE  IsNumber(SubSeq(s, 1, n)) <=> NumberAt(s, IF s[1] = "-" THEN 2 ELSE 1, n)
<1>. DEFINE p == SubSeq(s, 1, n)
<1>1. Len(s) \in Nat /\ s \in Seq(S) /\ 1 \in 1 .. Len(s) /\ n \in 1 .. Len(s) /\ n - 1 + 1 = n
  BY DEF Input
<1>2. p \in Seq(S) /\ Len(p) = n /\ \A k \in 1 .. n : p[k] = s[1 + k - 1]
  BY <1>1, PartOf
<1>3. p # <<>> /\ p[1] = s[1]
  <2>. HIDE DEF p
  <2>. QED
    BY <1>1, <1>2
<1>4. Tail(p) = SubSeq(s, 2, n)
  <2>1. Tail(p) = SubSeq(p, 2, n)
    <3>. HIDE DEF p
    <3>. QED
      BY <1>2, <1>3, TailIsSubSeq
  <2>. DEFINE b == n + 1
  <2>2. 1 \in 1 .. Len(s) + 1 /\ b \in 1 .. Len(s) + 1 /\ 2 \in 1 .. b - 1 + 1 /\ 1 + 2 - 1 = 2
        /\ b - 1 = n
    BY <1>1
  <2>. HIDE DEF b
  <2>3. SubSeq(SubSeq(s, 1, b - 1), 2, b - 1) = SubSeq(s, 1 + 2 - 1, b - 1)
    BY <1>1, <2>2, EndOfPart
  <2>. QED
    BY <2>1, <2>2, <2>3
<1>5. IsUnsigned(p) <=> NumberAt(s, 1, n)
  <2>1. 1 \in 1 .. Len(s) + 1 /\ n \in 1 - 1 .. Len(s)
    BY <1>1
  <2>. QED
    BY <1>1, <2>1, NumberInPart
<1>6. IsUnsigned(Tail(p)) <=> NumberAt(s, 2, n)
  <2>1. 2 \in 1 .. Len(s) + 1 /\ n \in 2 - 1 .. Len(s)
    BY <1>1
  <2>. QED
    BY <1>1, <1>4, <2>1, NumberInPart
<1>7. s[1] = "-" => ~NumberAt(s, 1, n)
  <2>. SUFFICES ASSUME s[1] = "-", NumberAt(s, 1, n) PROVE FALSE
    OBVIOUS
  <2>1. PICK i \in 1 .. n + 1 : IntAt(s, 1, i)
    BY DEF NumberAt
  <2>2. 1 \in 1 .. i - 1
    BY <2>1 DEF IntAt, DigitsAt
  <2>3. s[1] \in Digits
    BY <2>1, <2>2 DEF IntAt, DigitsAt
  <2>. QED
    BY <2>3 DEF Digits
<1>. HIDE DEF p
<1>8. IsNumber(p) <=> NumberAt(s, IF s[1] = "-" THEN 2 ELSE 1, n)
  BY <1>3, <1>5, <1>6, <1>7 DEF IsNumber
<1>. QED
  BY <1>8 DEF p

(* The number at the front of the input is the longest one there, or none  *)
(* can be where a digit, a point or an exponent follows.                   *)
LEMMA NumbersAreRead ==
    ASSUME NEW S, Input(bytes, S)
    PROVE  NumbersAreJson
<1>. SUFFICES ASSUME bytes # <<>>
              PROVE  LET o == LexNumber(bytes, 1)
                     IN  IF o.ok THEN NumberPrefixes # {} /\ o.next = Longest + 1
                         ELSE NumberPrefixes # {} => Byte(bytes, Longest + 1) \in Digits \cup {".", "e"}
  BY DEF NumbersAreJson
<1>. DEFINE l == Len(bytes)
            a == IF bytes[1] = "-" THEN 2 ELSE 1
            i == IntegerEnd(bytes, a)
            f == IF i = 0 THEN 0 ELSE FractionEnd(bytes, i)
            e == IF f = 0 THEN 0 ELSE ExponentEnd(bytes, f)
            o == LexNumber(bytes, 1)
<1>1. l \in Nat /\ l # 0 /\ bytes \in Seq(S)
  BY DEF Input
<1>2. a \in 1 .. l + 1 /\ a \in {1, 2}
  BY <1>1
<1>3. Byte(bytes, 1) = bytes[1]
  BY <1>1 DEF Byte
<1>4. o = IF e = 0 THEN Refused ELSE Accepted(e, <<>>)
  <2>1. (IF Byte(bytes, 1) = "-" THEN 1 + 1 ELSE 1) = a
    BY <1>3
  <2>. HIDE DEF a
  <2>. QED
    BY <2>1 DEF LexNumber
<1>. HIDE DEF a
<1>5. \A n \in 1 .. l : n \in NumberPrefixes <=> NumberAt(bytes, a, n)
  BY PrefixIsAt DEF NumberPrefixes, a
<1>6. NumberPrefixes \subseteq 1 .. l
  BY DEF NumberPrefixes
<1>7. \/ e = 0 /\ \A n \in a - 1 .. l : ~NumberAt(bytes, a, n)
      \/ \E m \in a + 1 .. l + 1 :
            /\ NumberAt(bytes, a, m - 1)
            /\ \A n \in a - 1 .. l : NumberAt(bytes, a, n) => n <= m - 1
            /\ e = m \/ (e = 0 /\ Byte(bytes, m) \in Digits \cup {".", "e"})
  BY <1>2, NumberEnds
<1>. HIDE DEF e, o
<1>8. \A n \in 1 .. l : n \in a - 1 .. l
  BY <1>1, <1>2
<1>9. (o.ok <=> e # 0) /\ (e # 0 => o.next = e)
  BY <1>4 DEF Refused, Accepted
<1>10. CASE e = 0 /\ \A n \in a - 1 .. l : ~NumberAt(bytes, a, n)
  <2>1. NumberPrefixes = {}
    BY <1>5, <1>6, <1>8, <1>10
  <2>. QED
    BY <1>9, <1>10, <2>1 DEF o
<1>11. CASE \E m \in a + 1 .. l + 1 :
            /\ NumberAt(bytes, a, m - 1)
            /\ \A n \in a - 1 .. l : NumberAt(bytes, a, n) => n <= m - 1
            /\ e = m \/ (e = 0 /\ Byte(bytes, m) \in Digits \cup {".", "e"})
  <2>1. PICK m \in a + 1 .. l + 1 :
            /\ NumberAt(bytes, a, m - 1)
            /\ \A n \in a - 1 .. l : NumberAt(bytes, a, n) => n <= m - 1
            /\ e = m \/ (e = 0 /\ Byte(bytes, m) \in Digits \cup {".", "e"})
    BY <1>11
  <2>. DEFINE Most(n) == \A k \in NumberPrefixes : k <= n
  <2>2. m \in Nat /\ m # 0 /\ m - 1 \in 1 .. l /\ m - 1 + 1 = m
    BY <1>1, <1>2
  <2>3. m - 1 \in NumberPrefixes
    BY <1>5, <2>1, <2>2
  <2>4. Most(m - 1)
    BY <1>5, <1>6, <1>8, <2>1
  <2>5. \A n \in NumberPrefixes : Most(n) => n = m - 1
    <3>. SUFFICES ASSUME NEW n \in NumberPrefixes, Most(n) PROVE n = m - 1
      OBVIOUS
    <3>1. m - 1 <= n /\ n <= m - 1 /\ n \in Nat
      BY <1>1, <1>6, <2>3, <2>4
    <3>. QED
      BY <2>2, <3>1
  <2>6. Longest = CHOOSE n \in NumberPrefixes : Most(n)
    BY Zenon DEF Longest
  <2>. HIDE DEF Most
  <2>7. Longest = m - 1
    BY <2>3, <2>4, <2>5, <2>6, Zenon
  <2>8. NumberPrefixes # {} /\ Longest + 1 = m
    BY <2>2, <2>3, <2>7
  <2>. QED
    BY <1>9, <2>1, <2>2, <2>8 DEF o
<1>. QED
  BY <1>7, <1>10, <1>11

(* The strings of the input.                                               *)
LEMMA StringsAreRead ==
    ASSUME Input(bytes, StringBytes), IsString
    PROVE  LexersAgree /\ StringsAreJson
<1>. DEFINE l == Len(bytes)
            o == BytesString(bytes, 1)
<1>1. l \in Nat /\ l >= 1 /\ 1 \in 1 .. l /\ 2 \in 1 .. l + 1 /\ 1 + 1 = 2
  BY DEF Input, IsString
<1>2. o = BytesUnescape(bytes, 1 + 1) /\ o = StreamString(bytes, 1)
  BY <1>1, StringIsUnescaped
<1>3. PICK f : Reads(bytes, StringBytes, f) /\ \A i \in 1 .. l + 1 : BytesUnescape(bytes, i) = f[i]
  BY BytesReads
<1>4. o = f[2]
  BY <1>1, <1>2, <1>3
<1>5. \A n \in 2 .. l : bytes[n] = "q" =>
         Readings(SubSeq(bytes, 2, n - 1)) = IF o.ok /\ o.next = n + 1 THEN {o.chars} ELSE {}
  <2>. HIDE DEF o
  <2>. SUFFICES ASSUME NEW n \in 2 .. l, bytes[n] = "q"
                PROVE  Readings(SubSeq(bytes, 2, n - 1)) =
                          IF o.ok /\ o.next = n + 1 THEN {o.chars} ELSE {}
    OBVIOUS
  <2>1. Readings(SubSeq(bytes, 2, n - 1)) =
           IF f[2].ok /\ f[2].next = n + 1 THEN {f[2].chars} ELSE {}
    BY <1>3, ReadingIsRead
  <2>. QED
    BY <1>4, <2>1
<1>6. o.ok => o.next \in 2 + 1 .. l + 1 /\ bytes[o.next - 1] = "q"
  BY <1>1, <1>3, <1>4, EndsAtQuote
<1>. HIDE DEF o
<1>7. ASSUME NEW n \in StringEnds
      PROVE  o.ok /\ o.next = n + 1
  BY <1>5 DEF StringEnds
<1>8. ASSUME o.ok
      PROVE  /\ o.next - 1 \in StringEnds
             /\ o.chars \in Readings(SubSeq(bytes, 2, o.next - 2))
  <2>. DEFINE n == o.next - 1
  <2>1. n \in 2 .. l /\ bytes[n] = "q" /\ n + 1 = o.next /\ n - 1 = o.next - 2
    BY <1>1, <1>6, <1>8
  <2>. HIDE DEF n
  <2>2. Readings(SubSeq(bytes, 2, n - 1)) = {o.chars}
    BY <1>5, <1>8, <2>1
  <2>3. n \in StringEnds
    BY <2>1, <2>2 DEF StringEnds
  <2>. QED
    BY <2>1, <2>2, <2>3 DEF n
<1>9. o.ok <=> StringEnds # {}
  BY <1>7, <1>8
<1>10. StringsAreJson
  BY <1>8, <1>9 DEF StringsAreJson, o
<1>. QED
  BY <1>2, <1>10 DEF LexersAgree, o

-----------------------------------------------------------------------------
(* The inputs: bytes of a number or of a string, however many.             *)

BytesTyped ==
    /\ bytes \in Seq(NumberBytes \cup StringBytes)
    /\ IsString => bytes \in Seq(StringBytes)

\* No byte is the mark of the end of the input.
LEMMA BytesAreInput ==
    ASSUME BytesTyped
    PROVE  /\ Input(bytes, NumberBytes \cup StringBytes)
           /\ IsString => Input(bytes, StringBytes)
<1>1. "eof" \notin NumberBytes \cup StringBytes /\ "eof" \notin StringBytes
  BY DEF NumberBytes, StringBytes
<1>. QED
  BY <1>1 DEF BytesTyped, Input

(* An input that starts as a string goes on as one.                        *)
LEMMA InputsStayTyped == AtomsSpec => []BytesTyped
<1>1. Start => BytesTyped
  <2>. SUFFICES ASSUME Start PROVE BytesTyped
    OBVIOUS
  <2>1. CASE bytes = <<>>
    BY <2>1 DEF BytesTyped, IsString
  <2>2. CASE bytes # <<>>
    <3>1. PICK b \in {"0", "1", "-", ".", "q"} : bytes = <<b>>
      BY <2>2 DEF Start
    <3>2. b \in NumberBytes \cup StringBytes /\ bytes[1] = b /\ "q" \in StringBytes
      BY <3>1 DEF NumberBytes, StringBytes
    <3>3. bytes \in Seq(NumberBytes \cup StringBytes)
      BY <3>1, <3>2
    <3>4. IsString => bytes \in Seq(StringBytes)
      BY <3>1, <3>2 DEF IsString
    <3>. QED
      BY <3>3, <3>4 DEF BytesTyped
  <2>. QED
    BY <2>1, <2>2
<1>2. BytesTyped /\ [Grows]_<<bytes, literal, varint, vars>> => BytesTyped'
  <2>. SUFFICES ASSUME BytesTyped, [Grows]_<<bytes, literal, varint, vars>> PROVE BytesTyped'
    OBVIOUS
  <2>1. CASE GrowNumber
    <3>1. PICK b \in NumberBytes : bytes' = Append(bytes, b)
      BY <2>1 DEF GrowNumber, Grow
    <3>2. bytes # <<>> /\ bytes[1] # "q" /\ bytes \in Seq(NumberBytes \cup StringBytes)
      BY <2>1 DEF GrowNumber, IsString, BytesTyped
    <3>3. Len(bytes) >= 1 /\ Append(bytes, b)[1] = bytes[1]
          /\ Append(bytes, b) \in Seq(NumberBytes \cup StringBytes)
      BY <3>2
    <3>. QED
      BY <3>1, <3>2, <3>3 DEF BytesTyped, IsString
  <2>2. ASSUME NEW S \in SUBSET StringBytes, NEW max, IsString, Grow(S, max)
        PROVE  BytesTyped'
    <3>1. PICK b \in StringBytes : bytes' = Append(bytes, b)
      BY <2>2 DEF Grow
    <3>2. bytes \in Seq(StringBytes) /\ bytes \in Seq(NumberBytes \cup StringBytes)
      BY <2>2 DEF BytesTyped
    <3>3. Append(bytes, b) \in Seq(StringBytes)
          /\ Append(bytes, b) \in Seq(NumberBytes \cup StringBytes)
      BY <3>2
    <3>. QED
      BY <3>1, <3>3 DEF BytesTyped
  <2>3. CASE GrowString
    BY <2>2, <2>3 DEF GrowString
  <2>4. CASE GrowEscapes
    <3>1. EscapeBytes \in SUBSET StringBytes
      BY DEF EscapeBytes, StringBytes
    <3>. QED
      BY <2>2, <2>4, <3>1 DEF GrowEscapes
  <2>5. CASE bytes' = bytes
    BY <2>5 DEF BytesTyped, IsString
  <2>6. CASE GrowLiteral \/ GrowVarint \/ UseMap \/ UNCHANGED <<bytes, literal, varint, vars>>
    BY <2>5, <2>6 DEF GrowLiteral, GrowVarint, UseMap
  <2>. QED
    BY <2>1, <2>3, <2>4, <2>6 DEF Grows
<1>. QED
  BY <1>1, <1>2, PTL DEF AtomsSpec

(* The string lexer of a byte slice, which borrows what has no escape and  *)
(* goes byte by byte through anything else, and the one of a stream, which *)
(* goes run by run, read every string of every length alike: the same      *)
(* characters up to the same byte, or both refuse it.                      *)
THEOREM LexersNeverDiffer == AtomsSpec => []LexersAgree
<1>1. BytesTyped => LexersAgree
  BY BytesAreInput, StringsAreRead DEF LexersAgree
<1>. QED
  BY <1>1, InputsStayTyped, PTL

(* A string of any length is accepted exactly if JSON has one there, and   *)
(* means what its bytes spell.                                             *)
THEOREM StringsReadAsSpelled == AtomsSpec => []StringsAreJson
<1>1. BytesTyped => StringsAreJson
  BY BytesAreInput, StringsAreRead DEF StringsAreJson
<1>. QED
  BY <1>1, InputsStayTyped, PTL

(* A number of any length is read to the end of the longest number the     *)
(* input begins with, and refused only where that is followed by what      *)
(* could have been more of it.                                             *)
THEOREM NumbersReadWhole == AtomsSpec => []NumbersAreJson
<1>1. BytesTyped => NumbersAreJson
  BY BytesAreInput, NumbersAreRead
<1>. QED
  BY <1>1, InputsStayTyped, PTL

-----------------------------------------------------------------------------
(* Recursion from the start of an input.                                   *)

(* What holds of a position once it holds of all before it holds of all.   *)
LEMMA FromTheStart ==
    ASSUME NEW n \in Nat, NEW T,
           \A i \in 0 .. n : (\A j \in 0 .. i - 1 : j \in T) => i \in T
    PROVE  \A i \in 0 .. n : i \in T
<1>. DEFINE U == {i \in 0 .. n : i \notin T}
<1>. SUFFICES ASSUME U # {} PROVE FALSE
  OBVIOUS
<1>1. PICK m \in U : \A k \in U : m <= k
  <2>1. U \in SUBSET Nat
    OBVIOUS
  <2>. HIDE DEF U
  <2>. QED
    BY <2>1, NatMinimum
<1>2. m \in 0 .. n /\ m \notin T
  BY <1>1
<1>3. \A j \in 0 .. m - 1 : j \in T
  BY <1>1, <1>2
<1>. QED
  BY <1>2, <1>3

\* Two functions agree at the positions before i.
SameBefore(f, g, i) == \A j \in 0 .. i - 1 : f[j] = g[j]

\* F computes a value of R for a position from the values before it.
LooksBack(F, n, R) ==
    /\ \A f \in [0 .. n -> R], i \in 0 .. n : F[f][i] \in R
    /\ \A f, g \in [0 .. n -> R], i \in 0 .. n : SameBefore(f, g, i) => F[f][i] = F[g][i]

(* A function on positions, each value computed from the values at earlier *)
(* positions, exists.                                                      *)
LEMMA RecursionFromTheStart ==
    ASSUME NEW n \in Nat, NEW R, NEW r \in R, NEW F, LooksBack(F, n, R)
    PROVE  \E f \in [0 .. n -> R] : \A i \in 0 .. n : f[i] = F[f][i]
<1>. DEFINE m == n + 1
            Turn(g) == [j \in 0 .. n |-> g[m - j]]
            G == [g \in [1 .. m -> R] |-> [i \in 1 .. m |-> F[Turn(g)][m - i]]]
<1>1. \A i \in 1 .. m : m - i \in 0 .. n
  OBVIOUS
<1>2. \A g \in [1 .. m -> R] : Turn(g) \in [0 .. n -> R]
  OBVIOUS
<1>3. \A g \in [1 .. m -> R], i \in 1 .. m : G[g][i] = F[Turn(g)][m - i]
  OBVIOUS
<1>4. \A g, h \in [1 .. m -> R], i \in 1 .. m :
         SameBehind(m, g, h, i) => SameBefore(Turn(g), Turn(h), m - i)
  <2>. SUFFICES ASSUME NEW g \in [1 .. m -> R], NEW h \in [1 .. m -> R], NEW i \in 1 .. m,
                       SameBehind(m, g, h, i), NEW j \in 0 .. m - i - 1
                PROVE  Turn(g)[j] = Turn(h)[j]
    BY DEF SameBefore
  <2>1. m - j \in i + 1 .. m /\ j \in 0 .. n
    OBVIOUS
  <2>. QED
    BY <2>1 DEF SameBehind
<1>. HIDE DEF G, Turn
<1>5. LooksOn(G, m, R)
  <2>1. \A g \in [1 .. m -> R], i \in 1 .. m : G[g][i] \in R
    BY <1>1, <1>2, <1>3 DEF LooksBack
  <2>2. \A g, h \in [1 .. m -> R], i \in 1 .. m : SameBehind(m, g, h, i) => G[g][i] = G[h][i]
    <3>. SUFFICES ASSUME NEW g \in [1 .. m -> R], NEW h \in [1 .. m -> R], NEW i \in 1 .. m,
                         SameBehind(m, g, h, i)
                  PROVE  G[g][i] = G[h][i]
      OBVIOUS
    <3>1. /\ m - i \in 0 .. n /\ Turn(g) \in [0 .. n -> R] /\ Turn(h) \in [0 .. n -> R]
          /\ SameBefore(Turn(g), Turn(h), m - i)
      BY <1>1, <1>2, <1>4
    <3>2. F[Turn(g)][m - i] = F[Turn(h)][m - i]
      BY <3>1 DEF LooksBack
    <3>. QED
      BY <1>3, <3>2
  <2>. QED
    BY <2>1, <2>2 DEF LooksOn
<1>6. m \in Nat
  OBVIOUS
<1>. HIDE DEF m
<1>7. PICK g \in [1 .. m -> R] : \A i \in 1 .. m : g[i] = G[g][i]
  BY <1>5, <1>6, RecursionFromTheEnd
<1>8. \A i \in 0 .. n : Turn(g)[i] = F[Turn(g)][i]
  <2>. SUFFICES ASSUME NEW i \in 0 .. n PROVE Turn(g)[i] = F[Turn(g)][i]
    OBVIOUS
  <2>1. m - i \in 1 .. m /\ m - (m - i) = i
    BY DEF m
  <2>2. Turn(g)[i] = g[m - i]
    BY DEF Turn
  <2>3. g[m - i] = F[Turn(g)][i]
    BY <1>3, <1>7, <2>1
  <2>. QED
    BY <2>2, <2>3
<1>. QED
  BY <1>2, <1>8

-----------------------------------------------------------------------------
(* Integers.                                                               *)

Digit10 == 0 .. 9

\* f is the number that the digits up to a position spell.
SpellsTo(s, f) ==
    /\ f \in [0 .. Len(s) -> Nat]
    /\ f[0] = 0
    /\ \A k \in 1 .. Len(s) : f[k] = f[k - 1] * 10 + s[k]

SpellsStep(s, f, k) == IF k = 0 THEN 0 ELSE f[k - 1] * 10 + s[k]

(* The digits' number is such a recursion.                                 *)
LEMMA SpellsIsRecursive ==
    ASSUME NEW s
    PROVE  Spells(s) = (CHOOSE f : f = [k \in 0 .. Len(s) |-> SpellsStep(s, f, k)])[Len(s)]
BY Zenon DEF Spells, SpellsStep

(* It is there, and it is read off at the last digit.                      *)
LEMMA SpellsIs ==
    ASSUME NEW s \in Seq(Digit10)
    PROVE  \E f : SpellsTo(s, f) /\ Spells(s) = f[Len(s)]
<1>. DEFINE n == Len(s)
            Is(f) == f = [k \in 0 .. n |-> SpellsStep(s, f, k)]
            F == [f \in [0 .. n -> Nat] |-> [k \in 0 .. n |-> SpellsStep(s, f, k)]]
            h == CHOOSE f : Is(f)
<1>1. n \in Nat /\ \A k \in 1 .. n : s[k] \in Nat
  BY DEF Digit10
<1>2. \A f \in [0 .. n -> Nat], k \in 0 .. n : F[f][k] = SpellsStep(s, f, k)
  OBVIOUS
<1>3. \A f \in [0 .. n -> Nat], k \in 0 .. n : SpellsStep(s, f, k) \in Nat
  <2>. SUFFICES ASSUME NEW f \in [0 .. n -> Nat], NEW k \in 0 .. n
                PROVE  SpellsStep(s, f, k) \in Nat
    OBVIOUS
  <2>1. CASE k = 0
    BY <2>1 DEF SpellsStep
  <2>2. CASE k # 0
    <3>1. k - 1 \in 0 .. n /\ k \in 1 .. n
      BY <1>1, <2>2
    <3>2. f[k - 1] \in Nat /\ s[k] \in Nat
      BY <1>1, <3>1
    <3>. QED
      BY <2>2, <3>2 DEF SpellsStep
  <2>. QED
    BY <2>1, <2>2
<1>4. \A f, g, k : k \in 0 .. n /\ SameBefore(f, g, k) => SpellsStep(s, f, k) = SpellsStep(s, g, k)
  <2>. SUFFICES ASSUME NEW f, NEW g, NEW k \in 0 .. n, SameBefore(f, g, k)
                PROVE  SpellsStep(s, f, k) = SpellsStep(s, g, k)
    OBVIOUS
  <2>1. k # 0 => f[k - 1] = g[k - 1]
    BY <1>1 DEF SameBefore
  <2>. QED
    BY <2>1 DEF SpellsStep
<1>. HIDE DEF F
<1>5. LooksBack(F, n, Nat)
  BY <1>2, <1>3, <1>4 DEF LooksBack
<1>6. PICK f \in [0 .. n -> Nat] : \A k \in 0 .. n : f[k] = F[f][k]
  <2>. DEFINE R == Nat
  <2>1. n \in Nat /\ 0 \in R /\ LooksBack(F, n, R)
    BY <1>1, <1>5
  <2>. HIDE DEF n, R
  <2>2. \E g \in [0 .. n -> R] : \A k \in 0 .. n : g[k] = F[g][k]
    BY <2>1, RecursionFromTheStart
  <2>. QED
    BY <2>2 DEF R
<1>7. Is(f)
  <2>1. f = [k \in 0 .. n |-> f[k]]
    OBVIOUS
  <2>2. \A k \in 0 .. n : f[k] = SpellsStep(s, f, k)
    BY <1>2, <1>6
  <2>. QED
    BY <2>1, <2>2
<1>8. Is(h)
  BY <1>7, Zenon
<1>. HIDE DEF h
<1>9. \A k \in 0 .. n : h[k] = f[k]
  <2>. DEFINE T == {k \in 0 .. n : h[k] = f[k]}
  <2>1. \A k \in 0 .. n : (\A j \in 0 .. k - 1 : j \in T) => k \in T
    <3>. SUFFICES ASSUME NEW k \in 0 .. n, \A j \in 0 .. k - 1 : j \in T
                  PROVE  h[k] = f[k]
      OBVIOUS
    <3>1. SameBefore(h, f, k)
      BY DEF SameBefore
    <3>2. h[k] = SpellsStep(s, h, k) /\ f[k] = SpellsStep(s, f, k)
      BY <1>2, <1>6, <1>8
    <3>. QED
      BY <1>4, <3>1, <3>2
  <2>. HIDE DEF T, n
  <2>2. \A k \in 0 .. n : k \in T
    BY <1>1, <2>1, FromTheStart
  <2>. QED
    BY <2>2 DEF T
<1>10. SpellsTo(s, f)
  <2>1. \A k \in 0 .. n : f[k] = SpellsStep(s, f, k)
    BY <1>2, <1>6
  <2>2. f[0] = 0 /\ \A k \in 1 .. n : f[k] = f[k - 1] * 10 + s[k]
    BY <1>1, <2>1 DEF SpellsStep
  <2>. QED
    BY <2>2 DEF SpellsTo
<1>11. Spells(s) = h[n]
  BY SpellsIsRecursive, Zenon DEF h
<1>. QED
  BY <1>1, <1>9, <1>10, <1>11

MagnitudeStep(s, limit, f, k) ==
    IF k = 0 THEN 0
    ELSE IF f[k - 1] = Overflow \/ f[k - 1] * 10 + s[k] >= limit
         THEN Overflow ELSE f[k - 1] * 10 + s[k]

(* The checked sum is such a recursion, too.                               *)
LEMMA MagnitudeIsRecursive ==
    ASSUME NEW s, NEW limit
    PROVE  Magnitude(s, limit) =
              (CHOOSE f : f = [k \in 0 .. Len(s) |-> MagnitudeStep(s, limit, f, k)])[Len(s)]
BY Zenon DEF Magnitude, MagnitudeStep

(* The checked sum is the number, or None once the number is beyond the    *)
(* limit: a digit more never brings it back.                               *)
LEMMA MagnitudeIs ==
    ASSUME NEW s \in Seq(Digit10), NEW limit \in Nat \ {0}
    PROVE  /\ Spells(s) \in Nat
           /\ Magnitude(s, limit) = IF Spells(s) < limit THEN Spells(s) ELSE Overflow
<1>. DEFINE n == Len(s)
            Is(f) == f = [k \in 0 .. n |-> MagnitudeStep(s, limit, f, k)]
            h == CHOOSE f : Is(f)
<1>1. n \in Nat /\ \A k \in 1 .. n : s[k] \in Nat
  BY DEF Digit10
<1>2. PICK f : SpellsTo(s, f) /\ Spells(s) = f[n]
  BY SpellsIs
<1>3. /\ f \in [0 .. n -> Nat] /\ f[0] = 0
      /\ \A k \in 1 .. n : f[k] = f[k - 1] * 10 + s[k]
  BY <1>2 DEF SpellsTo
<1>. DEFINE Read(k) == IF f[k] < limit THEN f[k] ELSE Overflow
            g == [k \in 0 .. n |-> Read(k)]
<1>4. Read(0) = 0 /\ \A x : MagnitudeStep(s, limit, x, 0) = 0
  BY <1>3 DEF MagnitudeStep
<1>5. \A x : \A k \in 1 .. n :
         x[k - 1] = Read(k - 1) => MagnitudeStep(s, limit, x, k) = Read(k)
  <2>. SUFFICES ASSUME NEW x, NEW k \in 1 .. n, x[k - 1] = Read(k - 1)
                PROVE  MagnitudeStep(s, limit, x, k) = Read(k)
    OBVIOUS
  <2>1. k # 0 /\ f[k - 1] \in Nat /\ s[k] \in Nat /\ f[k] = f[k - 1] * 10 + s[k]
    BY <1>1, <1>3
  <2>2. CASE f[k - 1] < limit
    <3>1. x[k - 1] = f[k - 1] /\ x[k - 1] # Overflow
      BY <2>1, <2>2 DEF Overflow
    <3>. QED
      BY <2>1, <3>1 DEF MagnitudeStep
  <2>3. CASE ~(f[k - 1] < limit)
    <3>1. x[k - 1] = Overflow /\ ~(f[k] < limit)
      BY <2>1, <2>3
    <3>. QED
      BY <2>1, <3>1 DEF MagnitudeStep
  <2>. QED
    BY <2>2, <2>3
<1>. HIDE DEF Read
<1>6. Is(g)
  <2>1. \A k \in 0 .. n : Read(k) = MagnitudeStep(s, limit, g, k)
    <3>. SUFFICES ASSUME NEW k \in 0 .. n PROVE Read(k) = MagnitudeStep(s, limit, g, k)
      OBVIOUS
    <3>1. CASE k = 0
      BY <1>4, <3>1
    <3>2. CASE k # 0
      <4>1. k \in 1 .. n /\ g[k - 1] = Read(k - 1)
        BY <1>1, <3>2
      <4>. HIDE DEF g
      <4>. QED
        BY <1>5, <4>1
    <3>. QED
      BY <3>1, <3>2
  <2>. QED
    BY <2>1
<1>7. Is(h)
  BY <1>6, Zenon
<1>. HIDE DEF h
<1>8. \A k \in 0 .. n : h[k] = Read(k)
  <2>. DEFINE T == {k \in 0 .. n : h[k] = Read(k)}
  <2>1. \A k \in 0 .. n : (\A j \in 0 .. k - 1 : j \in T) => k \in T
    <3>. SUFFICES ASSUME NEW k \in 0 .. n, \A j \in 0 .. k - 1 : j \in T
                  PROVE  h[k] = Read(k)
      OBVIOUS
    <3>1. h[k] = MagnitudeStep(s, limit, h, k)
      BY <1>7
    <3>2. CASE k = 0
      BY <1>4, <3>1, <3>2
    <3>3. CASE k # 0
      <4>1. k \in 1 .. n /\ k - 1 \in 0 .. k - 1
        BY <1>1, <3>3
      <4>2. h[k - 1] = Read(k - 1)
        BY <4>1
      <4>. QED
        BY <1>5, <3>1, <4>1, <4>2
    <3>. QED
      BY <3>2, <3>3
  <2>. HIDE DEF T, n
  <2>2. \A k \in 0 .. n : k \in T
    BY <1>1, <2>1, FromTheStart
  <2>. QED
    BY <2>2 DEF T
<1>9. Magnitude(s, limit) = h[n]
  BY MagnitudeIsRecursive, Zenon DEF h
<1>10. n \in 0 .. n
  BY <1>1
<1>. QED
  BY <1>2, <1>3, <1>8, <1>9, <1>10 DEF Read

(* A digit more makes ten times the number and the digit.                  *)
LEMMA OneDigitMore ==
    ASSUME NEW s \in Seq(Digit10), NEW d \in Digit10
    PROVE  /\ Append(s, d) \in Seq(Digit10)
           /\ Spells(Append(s, d)) = Spells(s) * 10 + d
           /\ Spells(<<d>>) = d
<1>. DEFINE n == Len(s)
            t == Append(s, d)
<1>1. n \in Nat /\ t \in Seq(Digit10) /\ Len(t) = n + 1 /\ t[n + 1] = d
      /\ \A k \in 1 .. n : t[k] = s[k]
  OBVIOUS
<1>2. PICK f : SpellsTo(s, f) /\ Spells(s) = f[n]
  BY SpellsIs
<1>3. PICK g : SpellsTo(t, g) /\ Spells(t) = g[n + 1]
  BY <1>1, SpellsIs
<1>. HIDE DEF t
<1>4. \A k \in 0 .. n : f[k] = g[k]
  <2>. DEFINE T == {k \in 0 .. n : f[k] = g[k]}
  <2>1. \A k \in 0 .. n : (\A j \in 0 .. k - 1 : j \in T) => k \in T
    <3>. SUFFICES ASSUME NEW k \in 0 .. n, \A j \in 0 .. k - 1 : j \in T
                  PROVE  f[k] = g[k]
      OBVIOUS
    <3>1. CASE k = 0
      BY <1>2, <1>3, <3>1 DEF SpellsTo
    <3>2. CASE k # 0
      <4>1. k \in 1 .. n /\ k \in 1 .. n + 1 /\ k - 1 \in 0 .. k - 1
        BY <1>1, <3>2
      <4>2. f[k - 1] = g[k - 1] /\ t[k] = s[k]
        BY <1>1, <4>1
      <4>3. f[k] = f[k - 1] * 10 + s[k] /\ g[k] = g[k - 1] * 10 + t[k]
        BY <1>1, <1>2, <1>3, <4>1 DEF SpellsTo
      <4>. QED
        BY <4>2, <4>3
    <3>. QED
      BY <3>1, <3>2
  <2>. HIDE DEF T, n
  <2>2. \A k \in 0 .. n : k \in T
    BY <1>1, <2>1, FromTheStart
  <2>. QED
    BY <2>2 DEF T
<1>5. g[n + 1] = g[n] * 10 + d
  <2>1. n + 1 \in 1 .. n + 1 /\ n + 1 - 1 = n
    BY <1>1
  <2>. QED
    BY <1>1, <1>3, <2>1 DEF SpellsTo
<1>6. Spells(t) = Spells(s) * 10 + d
  BY <1>1, <1>2, <1>3, <1>4, <1>5
<1>7. Spells(<<d>>) = d
  <2>. DEFINE u == <<d>>
  <2>1. u \in Seq(Digit10) /\ Len(u) = 1 /\ u[1] = d /\ d \in Nat
    BY DEF Digit10
  <2>. HIDE DEF u
  <2>2. PICK w : SpellsTo(u, w) /\ Spells(u) = w[1]
    BY <2>1, SpellsIs
  <2>3. w[0] = 0 /\ w[1] = w[1 - 1] * 10 + u[1]
    BY <2>1, <2>2 DEF SpellsTo
  <2>. QED
    BY <2>1, <2>2, <2>3 DEF u
<1>. QED
  BY <1>1, <1>6, <1>7 DEF t

DecimalStep(f, k) == IF k < 10 THEN <<k>> ELSE Append(f[k \div 10], k % 10)

Decimal(m) == (CHOOSE f : f = [k \in 0 .. m |-> DecimalStep(f, k)])[m]

(* What is displayed is such a recursion over the number itself.           *)
LEMMA ShowIsRecursive ==
    ASSUME NEW n
    PROVE  Show(n) = [minus  |-> n.value < 0,
                      digits |-> Decimal(IF n.value < 0 THEN -n.value ELSE n.value)]
BY Zenon DEF Show, Decimal, DecimalStep

(* The digits of a number spell it.                                        *)
LEMMA DecimalSpells ==
    ASSUME NEW m \in Nat
    PROVE  Decimal(m) \in Seq(Digit10) /\ Spells(Decimal(m)) = m
<1>. DEFINE R == Seq(Digit10)
            Is(f) == f = [k \in 0 .. m |-> DecimalStep(f, k)]
            F == [f \in [0 .. m -> R] |-> [k \in 0 .. m |-> DecimalStep(f, k)]]
            h == CHOOSE f : Is(f)
<1>1. \A k \in 0 .. m : k >= 10 => /\ k \div 10 \in 0 .. k - 1 /\ k \div 10 \in 0 .. m
                                   /\ k % 10 \in Digit10
                                   /\ (k \div 10) * 10 + (k % 10) = k
  BY DEF Digit10
<1>2. \A k \in 0 .. m : k < 10 => k \in Digit10 /\ <<k>> \in R
  <2>. SUFFICES ASSUME NEW k \in 0 .. m, k < 10 PROVE k \in Digit10 /\ <<k>> \in R
    OBVIOUS
  <2>1. k \in Digit10
    BY DEF Digit10
  <2>. QED
    BY <2>1
<1>3. \A f \in [0 .. m -> R], k \in 0 .. m : F[f][k] = DecimalStep(f, k)
  OBVIOUS
<1>4. \A f \in [0 .. m -> R], k \in 0 .. m : DecimalStep(f, k) \in R
  <2>. SUFFICES ASSUME NEW f \in [0 .. m -> R], NEW k \in 0 .. m PROVE DecimalStep(f, k) \in R
    OBVIOUS
  <2>1. CASE k < 10
    BY <1>2, <2>1 DEF DecimalStep
  <2>2. CASE ~(k < 10)
    <3>1. k \div 10 \in 0 .. m /\ k % 10 \in Digit10
      BY <1>1, <2>2
    <3>2. f[k \div 10] \in Seq(Digit10)
      BY <3>1
    <3>3. Append(f[k \div 10], k % 10) \in Seq(Digit10)
      BY <3>1, <3>2, OneDigitMore
    <3>. QED
      BY <2>2, <3>3 DEF DecimalStep
  <2>. QED
    BY <2>1, <2>2
<1>5. \A f, g, k : k \in 0 .. m /\ SameBefore(f, g, k) => DecimalStep(f, k) = DecimalStep(g, k)
  <2>. SUFFICES ASSUME NEW f, NEW g, NEW k \in 0 .. m, SameBefore(f, g, k)
                PROVE  DecimalStep(f, k) = DecimalStep(g, k)
    OBVIOUS
  <2>1. ~(k < 10) => f[k \div 10] = g[k \div 10]
    BY <1>1 DEF SameBefore
  <2>. QED
    BY <2>1 DEF DecimalStep
<1>6. <<>> \in R
  OBVIOUS
<1>. HIDE DEF F, R
<1>7. LooksBack(F, m, R)
  BY <1>3, <1>4, <1>5 DEF LooksBack
<1>8. PICK f \in [0 .. m -> R] : \A k \in 0 .. m : f[k] = F[f][k]
  BY <1>6, <1>7, RecursionFromTheStart
<1>9. Is(f)
  <2>1. f = [k \in 0 .. m |-> f[k]]
    OBVIOUS
  <2>2. \A k \in 0 .. m : f[k] = DecimalStep(f, k)
    BY <1>3, <1>8
  <2>. QED
    BY <2>1, <2>2
<1>10. Is(h)
  BY <1>9, Zenon
<1>. HIDE DEF h
<1>11. \A k \in 0 .. m : h[k] \in R /\ Spells(h[k]) = k
  <2>. DEFINE T == {k \in 0 .. m : h[k] \in R /\ Spells(h[k]) = k}
  <2>1. \A k \in 0 .. m : (\A j \in 0 .. k - 1 : j \in T) => k \in T
    <3>. SUFFICES ASSUME NEW k \in 0 .. m, \A j \in 0 .. k - 1 : j \in T
                  PROVE  h[k] \in R /\ Spells(h[k]) = k
      OBVIOUS
    <3>1. h[k] = DecimalStep(h, k)
      BY <1>10
    <3>2. CASE k < 10
      <4>1. h[k] = <<k>> /\ k \in Digit10 /\ <<k>> \in R
        BY <1>2, <3>1, <3>2 DEF DecimalStep
      <4>2. <<>> \in Seq(Digit10)
        OBVIOUS
      <4>3. Spells(<<k>>) = k
        BY <4>1, <4>2, OneDigitMore
      <4>. QED
        BY <4>1, <4>3
    <3>3. CASE ~(k < 10)
      <4>1. k \div 10 \in 0 .. k - 1 /\ k % 10 \in Digit10 /\ (k \div 10) * 10 + (k % 10) = k
        BY <1>1, <3>3
      <4>2. h[k \div 10] \in Seq(Digit10) /\ Spells(h[k \div 10]) = k \div 10
        BY <4>1 DEF R
      <4>3. h[k] = Append(h[k \div 10], k % 10)
        BY <3>1, <3>3 DEF DecimalStep
      <4>4. h[k] \in Seq(Digit10) /\ Spells(h[k]) = Spells(h[k \div 10]) * 10 + (k % 10)
        <5>. DEFINE t == h[k \div 10]
                    d == k % 10
        <5>1. t \in Seq(Digit10) /\ d \in Digit10 /\ h[k] = Append(t, d)
          BY <4>1, <4>2, <4>3
        <5>. HIDE DEF t, d
        <5>2. Append(t, d) \in Seq(Digit10) /\ Spells(Append(t, d)) = Spells(t) * 10 + d
          BY <5>1, OneDigitMore
        <5>. QED
          BY <5>1, <5>2, Zenon DEF t, d
      <4>. QED
        BY <4>1, <4>2, <4>4 DEF R
    <3>. QED
      BY <3>2, <3>3
  <2>. HIDE DEF T
  <2>2. \A k \in 0 .. m : k \in T
    BY <2>1, FromTheStart
  <2>. QED
    BY <2>2 DEF T
<1>12. Decimal(m) = h[m]
  BY Zenon DEF Decimal, h
<1>. QED
  BY <1>11, <1>12 DEF R

Big == Wide \div 2

(* The widths: each holds the halves of the next.                          *)
LEMMA Widths ==
    /\ Word \in Nat /\ Half \in Nat /\ Half >= 1 /\ Word = Half + Half
    /\ Wide \in Nat /\ Big \in Nat /\ Wide = Big + Big /\ Big >= Word
<1>1. Word \in Nat /\ Half \in Nat /\ Half >= 1 /\ Word = Half + Half
  BY JsonNumberAssumption DEF Half
<1>. DEFINE p == Half * Word
<1>2. Wide = Half * Word + Half * Word
  BY <1>1 DEF Wide
<1>3. p \in Nat /\ p >= Word
  BY <1>1
<1>. HIDE DEF p
<1>4. Wide = p + p
  BY <1>2 DEF p
<1>5. Big = p
  BY <1>3, <1>4 DEF Big
<1>. QED
  BY <1>1, <1>3, <1>4, <1>5

\* The Number of a sign and a magnitude, or none.
NumberOf(minus, m) ==
    IF minus
    THEN IF m <= Half THEN Number("I64", -m)
         ELSE IF m <= Big THEN Number("I128", -m) ELSE Invalid
    ELSE IF m < Word THEN Number("U64", m)
         ELSE IF m < Wide THEN Number("U128", m) ELSE Invalid

(* Both ways to an integer, the narrow one given up at each of its edges,  *)
(* lead to the Number of its sign and magnitude.                           *)
LEMMA ParseIs ==
    ASSUME NEW minus \in BOOLEAN, NEW s \in Seq(Digit10)
    PROVE  /\ Parse(minus, s) = NumberOf(minus, Spells(s))
           /\ LexInteger(minus, s) = NumberOf(minus, Spells(s))
<1>. DEFINE m == Spells(s)
<1>1. /\ Word \in Nat /\ Half \in Nat /\ Half >= 1 /\ Word = Half + Half
      /\ Wide \in Nat /\ Big \in Nat /\ Wide = Big + Big /\ Big >= Word
  BY Widths
<1>2. /\ m \in Nat
      /\ Magnitude(s, Word) = IF m < Word THEN m ELSE Overflow
      /\ Magnitude(s, Wide) = IF m < Wide THEN m ELSE Overflow
  <2>1. Word \in Nat \ {0} /\ Wide \in Nat \ {0}
    BY <1>1
  <2>. QED
    BY <2>1, MagnitudeIs
<1>. HIDE DEF m
<1>3. \A k \in Nat : k # Overflow
  BY DEF Overflow
<1>. DEFINE M == Magnitude(s, Word)
            W == Magnitude(s, Wide)
<1>4. CASE minus
  <2>1. /\ NumberOf(minus, m) = IF m <= Half THEN Number("I64", -m)
                               ELSE IF m <= Big THEN Number("I128", -m) ELSE Invalid
        /\ ParseWide(minus, s) = IF W = Overflow \/ W > Big THEN Invalid ELSE Number("I128", -W)
        /\ Parse(minus, s) = IF M = Overflow \/ M > Half THEN ParseWide(minus, s)
                             ELSE Number("I64", -M)
        /\ LexInteger(minus, s) = IF M = Overflow THEN Parse(minus, s)
                                  ELSE IF M <= Half THEN Number("I64", -M)
                                  ELSE Number("I128", -M)
    BY <1>4, Zenon DEF NumberOf, ParseWide, Parse, LexInteger, Big
  <2>. HIDE DEF M, W
  <2>2. ParseWide(minus, s) = IF m <= Big THEN Number("I128", -m) ELSE Invalid
    <3>1. CASE m < Wide
      <4>1. W = m /\ W # Overflow
        BY <1>2, <1>3, <3>1 DEF W
      <4>. QED
        BY <1>1, <1>2, <2>1, <4>1
    <3>2. CASE ~(m < Wide)
      <4>1. W = Overflow /\ ~(m <= Big)
        BY <1>1, <1>2, <3>2 DEF W
      <4>. QED
        BY <2>1, <4>1
    <3>. QED
      BY <3>1, <3>2
  <2>. SUFFICES Parse(minus, s) = NumberOf(minus, m) /\ LexInteger(minus, s) = NumberOf(minus, m)
    BY DEF m
  <2>3. CASE m < Word
    <3>1. M = m /\ M # Overflow /\ m <= Big
      BY <1>1, <1>2, <1>3, <2>3 DEF M
    <3>. QED
      BY <1>1, <1>2, <2>1, <2>2, <3>1
  <2>4. CASE ~(m < Word)
    <3>1. M = Overflow /\ ~(m <= Half)
      BY <1>1, <1>2, <2>4 DEF M
    <3>. QED
      BY <2>1, <2>2, <3>1
  <2>. QED
    BY <2>3, <2>4
<1>5. CASE ~minus
  <2>1. /\ NumberOf(minus, m) = IF m < Word THEN Number("U64", m)
                               ELSE IF m < Wide THEN Number("U128", m) ELSE Invalid
        /\ ParseWide(minus, s) = IF W = Overflow THEN Invalid ELSE Number("U128", W)
        /\ Parse(minus, s) = IF M = Overflow THEN ParseWide(minus, s) ELSE Number("U64", M)
        /\ LexInteger(minus, s) = IF M = Overflow THEN Parse(minus, s) ELSE Number("U64", M)
    BY <1>5, Zenon DEF NumberOf, ParseWide, Parse, LexInteger, Big
  <2>. HIDE DEF M, W
  <2>2. ParseWide(minus, s) = IF m < Wide THEN Number("U128", m) ELSE Invalid
    BY <1>2, <1>3, <2>1 DEF W
  <2>. SUFFICES Parse(minus, s) = NumberOf(minus, m) /\ LexInteger(minus, s) = NumberOf(minus, m)
    BY DEF m
  <2>3. CASE m < Word
    <3>1. M = m /\ M # Overflow
      BY <1>2, <1>3, <2>3 DEF M
    <3>. QED
      BY <2>1, <2>3, <3>1
  <2>4. CASE ~(m < Word)
    <3>1. M = Overflow
      BY <1>2, <2>4 DEF M
    <3>. QED
      BY <2>1, <2>2, <2>4, <3>1
  <2>. QED
    BY <2>3, <2>4
<1>. QED
  BY <1>4, <1>5

\* The literal: digits, and no zero in front of others.
LiteralTyped ==
    /\ literal \in [minus : BOOLEAN, digits : Seq(Digit10)]
    /\ literal # NoLiteral => literal.digits = <<0>> \/ Spells(literal.digits) >= 1

(* Digits behind a digit that is not zero keep the literal so.             *)
LEMMA LiteralsStayTyped == AtomsSpec => []LiteralTyped
<1>1. \A d \in Digit10 : <<d>> \in Seq(Digit10) /\ Spells(<<d>>) = d
  <2>. SUFFICES ASSUME NEW d \in Digit10 PROVE <<d>> \in Seq(Digit10) /\ Spells(<<d>>) = d
    OBVIOUS
  <2>1. <<>> \in Seq(Digit10) /\ <<d>> \in Seq(Digit10)
    OBVIOUS
  <2>2. Spells(<<d>>) = d
    BY <2>1, OneDigitMore
  <2>. QED
    BY <2>1, <2>2
<1>2. Start => LiteralTyped
  <2>. SUFFICES ASSUME Start PROVE LiteralTyped
    OBVIOUS
  <2>1. CASE literal = NoLiteral
    BY <2>1 DEF LiteralTyped, NoLiteral
  <2>2. CASE literal # NoLiteral
    <3>1. literal \in [minus : BOOLEAN, digits : {<<d>> : d \in 0 .. 9}]
      BY <2>2 DEF Start
    <3>2. PICK d \in Digit10 : literal.digits = <<d>>
      BY <3>1 DEF Digit10
    <3>3. literal = [minus |-> literal.minus, digits |-> <<d>>] /\ literal.minus \in BOOLEAN
      BY <3>1, <3>2
    <3>4. <<d>> \in Seq(Digit10) /\ (<<d>> = <<0>> \/ Spells(<<d>>) >= 1)
      <4>1. d = 0 \/ d >= 1
        BY DEF Digit10
      <4>. QED
        BY <1>1, <4>1
    <3>. QED
      BY <3>2, <3>3, <3>4 DEF LiteralTyped
  <2>. QED
    BY <2>1, <2>2
<1>3. LiteralTyped /\ [Grows]_<<bytes, literal, varint, vars>> => LiteralTyped'
  <2>. SUFFICES ASSUME LiteralTyped, [Grows]_<<bytes, literal, varint, vars>> PROVE LiteralTyped'
    OBVIOUS
  <2>1. CASE GrowLiteral
    <3>1. PICK d \in Digit10 : literal' = [literal EXCEPT !.digits = Append(@, d)]
      BY <2>1 DEF GrowLiteral, Digit10
    <3>. DEFINE s == literal.digits
    <3>2. /\ literal \in [minus : BOOLEAN, digits : Seq(Digit10)] /\ s \in Seq(Digit10)
          /\ Len(s) >= 1 /\ s # <<0>>
      BY <2>1 DEF GrowLiteral, LiteralTyped
    <3>3. Spells(s) >= 1 /\ Spells(s) \in Nat
      <4>1. Len(NoLiteral.digits) = 0
        BY DEF NoLiteral
      <4>2. literal # NoLiteral
        BY <3>2, <4>1
      <4>3. 1 \in Nat \ {0}
        OBVIOUS
      <4>. QED
        BY <3>2, <4>2, <4>3, MagnitudeIs DEF LiteralTyped
    <3>4. /\ Append(s, d) \in Seq(Digit10)
          /\ Spells(Append(s, d)) = Spells(s) * 10 + d
      BY <3>2, OneDigitMore
    <3>5. Spells(Append(s, d)) >= 1
      BY <3>3, <3>4 DEF Digit10
    <3>6. literal'.minus \in BOOLEAN /\ literal' = [minus |-> literal.minus, digits |-> Append(s, d)]
      BY <3>1, <3>2
    <3>. HIDE DEF s
    <3>7. literal' \in [minus : BOOLEAN, digits : Seq(Digit10)] /\ literal'.digits = Append(s, d)
      BY <3>4, <3>6
    <3>. QED
      BY <3>5, <3>7 DEF LiteralTyped
  <2>2. CASE literal' = literal
    BY <2>2 DEF LiteralTyped
  <2>3. CASE \/ GrowNumber \/ GrowString \/ GrowEscapes \/ GrowVarint \/ UseMap
             \/ UNCHANGED <<bytes, literal, varint, vars>>
    BY <2>2, <2>3 DEF GrowNumber, GrowString, GrowEscapes, Grow, GrowVarint, UseMap
  <2>. QED
    BY <2>1, <2>3 DEF Grows
<1>. QED
  BY <1>2, <1>3, PTL DEF AtomsSpec

\* What Parsed is of a literal.
Signed(minus, m) == IF minus THEN -m ELSE m

(* The variants, and that each holds its value.                            *)
LEMMA Variants ==
    ASSUME NEW minus \in BOOLEAN, NEW m \in Nat
    PROVE  LET n == NumberOf(minus, m)
               v == Signed(minus, m)
           IN  \/ minus /\ v = -m /\ m <= Half /\ n = Number("I64", v)
               \/ minus /\ v = -m /\ Half < m /\ m <= Big /\ n = Number("I128", v)
               \/ minus /\ v = -m /\ Big < m /\ n = Invalid
               \/ ~minus /\ v = m /\ m < Word /\ n = Number("U64", v)
               \/ ~minus /\ v = m /\ Word <= m /\ m < Wide /\ n = Number("U128", v)
               \/ ~minus /\ v = m /\ Wide <= m /\ n = Invalid
<1>1. Word \in Nat /\ Half \in Nat /\ Wide \in Nat /\ Big \in Nat
  BY Widths
<1>2. CASE minus
  <2>1. /\ Signed(minus, m) = -m
        /\ NumberOf(minus, m) = IF m <= Half THEN Number("I64", -m)
                               ELSE IF m <= Big THEN Number("I128", -m) ELSE Invalid
    BY <1>2, Zenon DEF NumberOf, Signed
  <2>2. \/ m <= Half /\ NumberOf(minus, m) = Number("I64", -m)
        \/ Half < m /\ m <= Big /\ NumberOf(minus, m) = Number("I128", -m)
        \/ Big < m /\ NumberOf(minus, m) = Invalid
    BY <1>1, <2>1
  <2>. QED
    BY <1>2, <2>1, <2>2, Zenon
<1>3. CASE ~minus
  <2>1. /\ Signed(minus, m) = m
        /\ NumberOf(minus, m) = IF m < Word THEN Number("U64", m)
                               ELSE IF m < Wide THEN Number("U128", m) ELSE Invalid
    BY <1>3, Zenon DEF NumberOf, Signed
  <2>2. \/ m < Word /\ NumberOf(minus, m) = Number("U64", m)
        \/ Word <= m /\ m < Wide /\ NumberOf(minus, m) = Number("U128", m)
        \/ Wide <= m /\ NumberOf(minus, m) = Invalid
    BY <1>1, <2>1
  <2>. QED
    BY <1>3, <2>1, <2>2, Zenon
<1>. QED
  BY <1>2, <1>3

\* A Number, and its value.
LEMMA NumberIs ==
    /\ \A k, v : Number(k, v).value = v /\ Number(k, v).kind = k
    /\ \A v : /\ Number("I64", v) # Invalid /\ Number("I128", v) # Invalid
              /\ Number("U64", v) # Invalid /\ Number("U128", v) # Invalid
BY DEF Number, Invalid

(* The range of every variant.                                             *)
LEMMA Ranges ==
    ASSUME NEW v \in Int
    PROVE  /\ v \in I64 <=> -Half <= v /\ v < Half
           /\ v \in U64 <=> 0 <= v /\ v < Word
           /\ v \in I128 <=> -Big <= v /\ v < Big
           /\ v \in U128 <=> 0 <= v /\ v < Wide
<1>1. /\ Half \in Nat /\ Word \in Nat /\ Big \in Nat /\ Wide \in Nat
  BY Widths
<1>2. I128 = -Big .. Big - 1
  BY Zenon DEF I128, Big
<1>3. /\ v \in -Half .. Half - 1 <=> -Half <= v /\ v < Half
      /\ v \in -Big .. Big - 1 <=> -Big <= v /\ v < Big
      /\ v \in 0 .. Word - 1 <=> 0 <= v /\ v < Word
      /\ v \in 0 .. Wide - 1 <=> 0 <= v /\ v < Wide
  BY <1>1
<1>. QED
  BY <1>2, <1>3 DEF I64, U64, U128

(* The Number of a sign and a magnitude has their value, and there is one  *)
(* exactly if the width that its sign may use holds it.                    *)
LEMMA NumberOfIsExact ==
    ASSUME NEW minus \in BOOLEAN, NEW m \in Nat
    PROVE  LET n == NumberOf(minus, m)
               v == Signed(minus, m)
           IN  /\ v \in Int
               /\ minus => v <= 0
               /\ ~minus => v >= 0
               /\ n # Invalid <=> v \in IF minus THEN I128 ELSE U128
               /\ n # Invalid => n.value = v
<1>. DEFINE n == NumberOf(minus, m)
            v == Signed(minus, m)
<1>0. /\ Word \in Nat /\ Half \in Nat /\ Half >= 1 /\ Word = Half + Half
      /\ Wide \in Nat /\ Big \in Nat /\ Wide = Big + Big /\ Big >= Word
  BY Widths
<1>1. \/ minus /\ v = -m /\ m <= Half /\ n = Number("I64", v)
      \/ minus /\ v = -m /\ Half < m /\ m <= Big /\ n = Number("I128", v)
      \/ minus /\ v = -m /\ Big < m /\ n = Invalid
      \/ ~minus /\ v = m /\ m < Word /\ n = Number("U64", v)
      \/ ~minus /\ v = m /\ Word <= m /\ m < Wide /\ n = Number("U128", v)
      \/ ~minus /\ v = m /\ Wide <= m /\ n = Invalid
  BY Variants
<1>. HIDE DEF n, v
<1>2. v \in Int /\ (minus => v <= 0) /\ (~minus => v >= 0)
  BY <1>1
<1>3. /\ v \in I128 <=> -Big <= v /\ v < Big
      /\ v \in U128 <=> 0 <= v /\ v < Wide
  BY <1>2, Ranges
<1>4. n # Invalid => n.value = v
  BY <1>1, NumberIs
<1>5. CASE minus
  <2>1. n # Invalid <=> m <= Big
    BY <1>0, <1>1, <1>5, NumberIs
  <2>2. v \in I128 <=> m <= Big
    BY <1>0, <1>1, <1>3, <1>5
  <2>. QED
    BY <1>2, <1>4, <1>5, <2>1, <2>2 DEF n, v
<1>6. CASE ~minus
  <2>1. n # Invalid <=> m < Wide
    BY <1>0, <1>1, <1>6, NumberIs
  <2>2. v \in U128 <=> m < Wide
    BY <1>0, <1>1, <1>3, <1>6
  <2>. QED
    BY <1>2, <1>4, <1>6, <2>1, <2>2 DEF n, v
<1>. QED
  BY <1>5, <1>6

(* And it is the Number that From makes of that value, except minus zero.  *)
LEMMA NumberOfIsConstructed ==
    ASSUME NEW minus \in BOOLEAN, NEW m \in Nat, ~(minus /\ m = 0),
           NumberOf(minus, m) # Invalid
    PROVE  LET n == NumberOf(minus, m)
               v == Signed(minus, m)
           IN  /\ v \in U128 => n = FromUnsigned(v)
               /\ v \in I128 => n = FromSigned(v)
<1>. DEFINE n == NumberOf(minus, m)
            v == Signed(minus, m)
<1>0. /\ Word \in Nat /\ Half \in Nat /\ Half >= 1 /\ Word = Half + Half
      /\ Wide \in Nat /\ Big \in Nat /\ Wide = Big + Big /\ Big >= Word
  BY Widths
<1>1. \/ minus /\ v = -m /\ m <= Half /\ n = Number("I64", v)
      \/ minus /\ v = -m /\ Half < m /\ m <= Big /\ n = Number("I128", v)
      \/ ~minus /\ v = m /\ m < Word /\ n = Number("U64", v)
      \/ ~minus /\ v = m /\ Word <= m /\ m < Wide /\ n = Number("U128", v)
  BY Variants
<1>. HIDE DEF n, v
<1>2. v \in Int
  BY <1>1
<1>3. /\ v \in U64 <=> 0 <= v /\ v < Word
      /\ v \in U128 <=> 0 <= v /\ v < Wide
      /\ v \in -Half .. -1 <=> -Half <= v /\ v < 0
  BY <1>0, <1>2, Ranges
<1>4. CASE minus
  <2>1. v < 0 /\ \/ -Half <= v /\ n = Number("I64", v)
                 \/ v < -Half /\ n = Number("I128", v)
    BY <1>0, <1>1, <1>4
  <2>2. v \notin U128
    BY <1>2, <1>3, <2>1
  <2>3. n = FromSigned(v)
    <3>1. ~(v \in U64) /\ ~(v >= Word)
      BY <1>0, <1>2, <1>3, <2>1
    <3>2. CASE -Half <= v
      <4>1. v \in -Half .. -1 /\ ~(v < -Half) /\ n = Number("I64", v)
        BY <1>0, <1>2, <1>3, <2>1, <3>2
      <4>. QED
        BY <3>1, <4>1 DEF FromSigned
    <3>3. CASE v < -Half
      <4>1. v \notin -Half .. -1 /\ n = Number("I128", v)
        BY <1>0, <1>2, <1>3, <2>1, <3>3
      <4>. QED
        BY <3>1, <3>3, <4>1 DEF FromSigned
    <3>. QED
      BY <1>0, <1>2, <3>2, <3>3
  <2>. QED
    BY <2>2, <2>3 DEF n, v
<1>5. CASE ~minus
  <2>1. ~(v < -Half) /\ v \notin -Half .. -1 /\ v >= 0
    BY <1>0, <1>1, <1>2, <1>3, <1>5
  <2>2. CASE v < Word
    <3>1. v \in U64 /\ ~(v >= Word) /\ n = Number("U64", v)
      BY <1>0, <1>1, <1>2, <1>3, <1>5, <2>1, <2>2
    <3>2. n = FromSigned(v) /\ n = FromUnsigned(v)
      BY <2>1, <3>1 DEF FromSigned, FromUnsigned
    <3>. QED
      BY <3>2 DEF n, v
  <2>3. CASE v >= Word
    <3>1. v \notin U64 /\ n = Number("U128", v)
      BY <1>0, <1>1, <1>2, <1>3, <1>5, <2>3
    <3>2. n = FromSigned(v) /\ n = FromUnsigned(v)
      BY <2>1, <2>3, <3>1 DEF FromSigned, FromUnsigned
    <3>. QED
      BY <3>2 DEF n, v
  <2>. QED
    BY <1>0, <1>2, <2>2, <2>3
<1>. QED
  BY <1>4, <1>5

(* What the literal of a state is read as, summed while it is scanned or   *)
(* parsed.                                                                 *)
LEMMA LiteralIsRead ==
    ASSUME LiteralTyped, literal # NoLiteral
    PROVE  /\ literal.minus \in BOOLEAN /\ Spells(literal.digits) \in Nat
           /\ Parsed = NumberOf(literal.minus, Spells(literal.digits))
           /\ LexInteger(literal.minus, literal.digits) = Parsed
           /\ Value(literal) = Signed(literal.minus, Spells(literal.digits))
           /\ ~NegativeZero => ~(literal.minus /\ Spells(literal.digits) = 0)
<1>1. literal \in [minus : BOOLEAN, digits : Seq(Digit10)]
  BY DEF LiteralTyped
<1>2. literal.minus \in BOOLEAN /\ literal.digits \in Seq(Digit10)
      /\ literal = [minus |-> literal.minus, digits |-> literal.digits]
  BY <1>1
<1>3. Spells(literal.digits) \in Nat
  <2>1. 1 \in Nat \ {0}
    OBVIOUS
  <2>. QED
    BY <1>2, <2>1, MagnitudeIs
<1>4. /\ Parsed = NumberOf(literal.minus, Spells(literal.digits))
      /\ LexInteger(literal.minus, literal.digits) = Parsed
  BY <1>2, ParseIs DEF Parsed
<1>5. Value(literal) = Signed(literal.minus, Spells(literal.digits))
  BY Zenon DEF Value, Signed
<1>6. ~NegativeZero => ~(literal.minus /\ Spells(literal.digits) = 0)
  <2>. SUFFICES ASSUME literal.minus, Spells(literal.digits) = 0
                PROVE  NegativeZero
    OBVIOUS
  <2>1. literal.digits = <<0>>
    BY <1>3 DEF LiteralTyped
  <2>2. literal.minus = TRUE
    BY <1>2
  <2>. QED
    BY <1>2, <2>1, <2>2 DEF NegativeZero
<1>. QED
  BY <1>2, <1>3, <1>4, <1>5, <1>6

(* What is displayed of a Number is read as the same Number.               *)
LEMMA ShownIsRead ==
    ASSUME NEW minus \in BOOLEAN, NEW m \in Nat, ~(minus /\ m = 0),
           NumberOf(minus, m) # Invalid
    PROVE  LET n == NumberOf(minus, m)
           IN  Parse(Show(n).minus, Show(n).digits) = n
<1>. DEFINE n == NumberOf(minus, m)
            v == Signed(minus, m)
<1>1. v \in Int /\ n.value = v /\ (v < 0 <=> minus) /\ (IF v < 0 THEN -v ELSE v) = m
  <2>1. n.value = v
    BY NumberOfIsExact
  <2>2. CASE minus
    <3>1. v = -m
      BY <2>2, Zenon DEF Signed
    <3>. HIDE DEF n, v
    <3>2. v \in Int /\ v < 0 /\ -v = m
      BY <2>2, <3>1
    <3>. QED
      BY <2>1, <2>2, <3>2
  <2>3. CASE ~minus
    <3>1. v = m
      BY <2>3, Zenon DEF Signed
    <3>. HIDE DEF n, v
    <3>2. v \in Int /\ ~(v < 0)
      BY <3>1
    <3>. QED
      BY <2>1, <2>3, <3>1, <3>2
  <2>. QED
    BY <2>2, <2>3
<1>. HIDE DEF v
<1>2. Show(n) = [minus |-> v < 0, digits |-> Decimal(m)]
  <2>1. Show(n) = [minus  |-> n.value < 0,
                   digits |-> Decimal(IF n.value < 0 THEN -n.value ELSE n.value)]
    BY ShowIsRecursive
  <2>. HIDE DEF n
  <2>. QED
    BY <1>1, <2>1, Zenon
<1>3. (v < 0) = minus
  <2>1. CASE minus = TRUE
    BY <1>1, <2>1
  <2>2. CASE minus = FALSE
    BY <1>1, <2>2
  <2>. QED
    BY <2>1, <2>2
<1>4. Decimal(m) \in Seq(Digit10) /\ Spells(Decimal(m)) = m
  BY DecimalSpells
<1>5. Parse(minus, Decimal(m)) = n
  BY <1>4, ParseIs
<1>6. Show(n).minus = minus /\ Show(n).digits = Decimal(m)
  <2>. DEFINE shown == [minus |-> v < 0, digits |-> Decimal(m)]
  <2>1. shown.minus = (v < 0) /\ shown.digits = Decimal(m)
    OBVIOUS
  <2>. HIDE DEF shown, n
  <2>2. Show(n) = shown
    BY <1>2 DEF shown
  <2>. QED
    BY <1>3, <2>1, <2>2, Zenon
<1>. QED
  BY <1>5, <1>6, Zenon

(* An integer literal of any length, at any width, is never rounded or     *)
(* wrapped: BytesReader's sum while scanning, Number::parse, From and      *)
(* Display agree on one Number, its value is the literal's, and there is   *)
(* none exactly outside i128 and u128.                                     *)
THEOREM IntegersReadExactly == AtomsSpec => []IntegersAreExact
<1>1. LiteralTyped => IntegersAreExact
  <2>. SUFFICES ASSUME LiteralTyped PROVE IntegersAreExact
    OBVIOUS
  <2>1. CASE literal = NoLiteral
    BY <2>1 DEF IntegersAreExact, FastPathAgrees, ParseIsExact, ParsedIsConstructed, RoundTrips, Parsed
  <2>2. CASE literal # NoLiteral
    <3>. DEFINE minus == literal.minus
                m == Spells(literal.digits)
                n == NumberOf(minus, m)
                v == Signed(minus, m)
    <3>1. /\ minus \in BOOLEAN /\ m \in Nat /\ Parsed = n
          /\ LexInteger(minus, literal.digits) = Parsed
          /\ Value(literal) = v
          /\ ~NegativeZero => ~(minus /\ m = 0)
      BY <2>2, LiteralIsRead
    <3>. HIDE DEF m
    <3>2. FastPathAgrees
      BY <3>1 DEF FastPathAgrees
    <3>3. ParseIsExact
      <4>1. /\ n # Invalid <=> v \in IF minus THEN I128 ELSE U128
            /\ n # Invalid => n.value = v
        BY <3>1, NumberOfIsExact
      <4>. HIDE DEF n, v
      <4>. QED
        BY <3>1, <4>1, Zenon DEF ParseIsExact
    <3>4. ParsedIsConstructed
      <4>. SUFFICES ASSUME Parsed # Invalid, ~NegativeZero
                    PROVE  /\ Parsed.value \in U128 => Parsed = FromUnsigned(Parsed.value)
                           /\ Parsed.value \in I128 => Parsed = FromSigned(Parsed.value)
        BY DEF ParsedIsConstructed
      <4>1. n # Invalid /\ ~(minus /\ m = 0)
        BY <3>1
      <4>2. n.value = v
        BY <3>1, <4>1, NumberOfIsExact
      <4>3. /\ v \in U128 => n = FromUnsigned(v)
            /\ v \in I128 => n = FromSigned(v)
        BY <3>1, <4>1, NumberOfIsConstructed
      <4>. HIDE DEF n, v
      <4>. QED
        BY <3>1, <4>2, <4>3, Zenon
    <3>5. RoundTrips
      <4>. SUFFICES ASSUME Parsed # Invalid, ~NegativeZero
                    PROVE  Parse(Show(Parsed).minus, Show(Parsed).digits) = Parsed
        BY DEF RoundTrips
      <4>1. n # Invalid /\ ~(minus /\ m = 0)
        BY <3>1
      <4>2. Parse(Show(n).minus, Show(n).digits) = n
        BY <3>1, <4>1, ShownIsRead
      <4>. HIDE DEF n
      <4>. QED
        BY <3>1, <4>2, Zenon
    <3>. QED
      BY <3>2, <3>3, <3>4, <3>5 DEF IntegersAreExact
  <2>. QED
    BY <2>1, <2>2
<1>. QED
  BY <1>1, LiteralsStayTyped, PTL

(* A typed read of any literal succeeds exactly when its value is of the   *)
(* type, in whichever variant the Number holds it.                         *)
THEOREM TypedReadsFitExactly == AtomsSpec => []TypedReadsAreExact
<1>1. LiteralTyped => TypedReadsAreExact
  <2>. SUFFICES ASSUME LiteralTyped, Parsed # Invalid PROVE TypedReadsAreExact
    BY DEF TypedReadsAreExact
  <2>. DEFINE v == Value(literal)
  <2>1. literal # NoLiteral
    BY DEF Parsed
  <2>2. v \in Int /\ Parsed.value = v
    BY <2>1, LiteralIsRead, NumberOfIsExact
  <2>. HIDE DEF v
  <2>3. \A wide, range : range \subseteq wide =>
           Narrow(range, As(wide, Parsed)) = IF v \in range THEN <<v>> ELSE <<>>
    <3>. SUFFICES ASSUME NEW wide, NEW range, range \subseteq wide
                  PROVE  Narrow(range, As(wide, Parsed)) = IF v \in range THEN <<v>> ELSE <<>>
      OBVIOUS
    <3>1. CASE v \in wide
      <4>1. As(wide, Parsed) = <<v>> /\ <<v>> # <<>> /\ <<v>>[1] = v
        BY <2>2, <3>1 DEF As
      <4>. QED
        BY <4>1 DEF Narrow
    <3>2. CASE v \notin wide
      <4>1. As(wide, Parsed) = <<>> /\ v \notin range
        BY <2>2, <3>2 DEF As
      <4>. QED
        BY <4>1 DEF Narrow
    <3>. QED
      BY <3>1, <3>2
  <2>4. /\ \A range \in {-1 .. 0, I64, I128} : range \subseteq I128
        /\ \A range \in {0 .. 1, U64, U128} : range \subseteq U128
    <3>1. /\ Word \in Nat /\ Half \in Nat /\ Half >= 1 /\ Word = Half + Half
          /\ Wide \in Nat /\ Big \in Nat /\ Wide = Big + Big /\ Big >= Word
      BY Widths
    <3>2. I128 = -Big .. Big - 1
      BY Zenon DEF I128, Big
    <3>3. -1 .. 0 \subseteq I128 /\ I64 \subseteq I128
      BY <3>1, <3>2 DEF I64
    <3>4. 0 .. 1 \subseteq U128 /\ U64 \subseteq U128
      BY <3>1 DEF U64, U128
    <3>. QED
      BY <3>3, <3>4
  <2>. QED
    BY <2>3, <2>4, Zenon DEF TypedReadsAreExact, ReadSigned, ReadUnsigned, v
<1>. QED
  BY <1>1, LiteralsStayTyped, PTL

-----------------------------------------------------------------------------
(* Varints.  A function counted up from its value at 0 is all there is to  *)
(* the powers and to the values of digits.                                 *)

\* g counts up from r, by the k-th step of G to its k-th value.
Counts(n, R, r, G, g) ==
    g \in [0 .. n -> R] /\ g[0] = r /\ \A k \in 1 .. n : g[k] = G[k][g[k - 1]]

(* There is such a function.                                               *)
LEMMA Counted ==
    ASSUME NEW n \in Nat, NEW R, NEW r \in R, NEW G,
           \A k \in 1 .. n, x \in R : G[k][x] \in R
    PROVE  \E g : Counts(n, R, r, G, g)
<1>. DEFINE Step(f, k) == IF k = 0 THEN r ELSE G[k][f[k - 1]]
            F == [f \in [0 .. n -> R] |-> [k \in 0 .. n |-> Step(f, k)]]
<1>1. \A f \in [0 .. n -> R], k \in 0 .. n : F[f][k] = Step(f, k)
  OBVIOUS
<1>2. \A f \in [0 .. n -> R], k \in 0 .. n : Step(f, k) \in R
  <2>. SUFFICES ASSUME NEW f \in [0 .. n -> R], NEW k \in 0 .. n PROVE Step(f, k) \in R
    OBVIOUS
  <2>1. k # 0 => k \in 1 .. n /\ k - 1 \in 0 .. n
    OBVIOUS
  <2>. QED
    BY <2>1
<1>3. \A f, g, k : k \in 0 .. n /\ SameBefore(f, g, k) => Step(f, k) = Step(g, k)
  <2>. SUFFICES ASSUME NEW f, NEW g, NEW k \in 0 .. n, SameBefore(f, g, k)
                PROVE  Step(f, k) = Step(g, k)
    OBVIOUS
  <2>1. k # 0 => f[k - 1] = g[k - 1]
    BY DEF SameBefore
  <2>. QED
    BY <2>1
<1>. HIDE DEF F
<1>4. LooksBack(F, n, R)
  <2>. HIDE DEF Step
  <2>. QED
    BY <1>1, <1>2, <1>3 DEF LooksBack
<1>5. PICK f \in [0 .. n -> R] : \A k \in 0 .. n : f[k] = F[f][k]
  BY <1>4, RecursionFromTheStart
<1>6. \A k \in 0 .. n : f[k] = Step(f, k)
  BY <1>1, <1>5
<1>7. f[0] = r /\ \A k \in 1 .. n : f[k] = G[k][f[k - 1]]
  BY <1>6
<1>. QED
  BY <1>7 DEF Counts

\* f and g are the same at 0 and wherever they were the same before.
InStep(n, f, g) ==
    f[0] = g[0] /\ \A k \in 1 .. n : f[k - 1] = g[k - 1] => f[k] = g[k]

Alike(n, f, g) == \A k \in 0 .. n : f[k] = g[k]

(* There is only one, whatever its values are said to be, and a longer one *)
(* goes the same way.                                                      *)
LEMMA CountedOnce ==
    ASSUME NEW n \in Nat, NEW f, NEW g, InStep(n, f, g)
    PROVE  Alike(n, f, g)
<1>. DEFINE T == {k \in 0 .. n : f[k] = g[k]}
<1>1. \A k \in 0 .. n : (\A j \in 0 .. k - 1 : j \in T) => k \in T
  <2>. SUFFICES ASSUME NEW k \in 0 .. n, \A j \in 0 .. k - 1 : j \in T PROVE f[k] = g[k]
    OBVIOUS
  <2>1. CASE k = 0
    BY <2>1 DEF InStep
  <2>2. CASE k # 0
    <3>1. k \in 1 .. n /\ f[k - 1] = g[k - 1]
      BY <2>2
    <3>. QED
      BY <3>1 DEF InStep
  <2>. QED
    BY <2>1, <2>2
<1>. HIDE DEF T
<1>2. \A k \in 0 .. n : k \in T
  BY <1>1, FromTheStart
<1>. QED
  BY <1>2 DEF T, Alike

\* The bodies of the recursive functions, that all count.
PowerStep(b, f, k) == IF k = 0 THEN 1 ELSE b * f[k - 1]

(* The powers are counted.                                                 *)
LEMMA PowerIsRecursive ==
    ASSUME NEW b, NEW n
    PROVE  Power(b, n) = (CHOOSE f : f = [k \in 0 .. n |-> PowerStep(b, f, k)])[n]
BY Zenon DEF Power, PowerStep

\* f holds the powers of b up to the n-th.
Powers(b, n, f) ==
    f \in [0 .. n -> Nat] /\ f[0] = 1 /\ \A k \in 1 .. n : f[k] = b * f[k - 1]

(* They are there, and the last one is read off.                           *)
LEMMA PowersAre ==
    ASSUME NEW b \in Nat, NEW n \in Nat
    PROVE  \E f : Powers(b, n, f) /\ Power(b, n) = f[n]
<1>. DEFINE Is(f) == f = [k \in 0 .. n |-> PowerStep(b, f, k)]
            G == [k \in 1 .. n |-> [x \in Nat |-> b * x]]
            h == CHOOSE f : Is(f)
<1>1. \A k \in 1 .. n, x \in Nat : G[k][x] = b * x
  OBVIOUS
<1>2. PICK f : Counts(n, Nat, 1, G, f)
  <2>1. \A k \in 1 .. n, x \in Nat : G[k][x] \in Nat
    BY <1>1
  <2>. HIDE DEF G
  <2>. QED
    BY <2>1, Counted
<1>. HIDE DEF G
<1>3. Powers(b, n, f)
  <2>1. \A k \in 1 .. n : f[k - 1] \in Nat
    BY <1>2 DEF Counts
  <2>. QED
    BY <1>1, <1>2, <2>1 DEF Counts, Powers
<1>4. Is(f)
  <2>1. f = [k \in 0 .. n |-> f[k]]
    BY <1>3 DEF Powers
  <2>2. \A k \in 0 .. n : f[k] = PowerStep(b, f, k)
    BY <1>3 DEF Powers, PowerStep
  <2>. QED
    BY <2>1, <2>2
<1>5. Is(h)
  BY <1>4, Zenon
<1>. HIDE DEF h
<1>6. h[n] = f[n]
  <2>1. h[0] = f[0] /\ \A k \in 1 .. n : h[k - 1] = f[k - 1] => h[k] = f[k]
    BY <1>3, <1>5 DEF Powers, PowerStep
  <2>2. Alike(n, h, f)
    BY <2>1, CountedOnce DEF InStep
  <2>. QED
    BY <2>2 DEF Alike
<1>7. Power(b, n) = h[n]
  BY PowerIsRecursive, Zenon DEF h
<1>. QED
  BY <1>3, <1>6, <1>7

(* What the powers are.                                                    *)
LEMMA PowerIs ==
    ASSUME NEW b \in Nat
    PROVE  /\ Power(b, 0) = 1
           /\ \A n \in Nat : Power(b, n) \in Nat /\ Power(b, n + 1) = b * Power(b, n)
<1>1. Power(b, 0) = 1
  BY PowersAre DEF Powers
<1>2. ASSUME NEW n \in Nat
      PROVE  Power(b, n) \in Nat /\ Power(b, n + 1) = b * Power(b, n)
  <2>1. PICK f : Powers(b, n, f) /\ Power(b, n) = f[n]
    BY PowersAre
  <2>2. PICK g : Powers(b, n + 1, g) /\ Power(b, n + 1) = g[n + 1]
    BY PowersAre
  <2>3. f[n] = g[n]
    <3>1. f[0] = g[0] /\ \A k \in 1 .. n : f[k - 1] = g[k - 1] => f[k] = g[k]
      BY <2>1, <2>2 DEF Powers
    <3>2. Alike(n, f, g)
      BY <3>1, CountedOnce DEF InStep
    <3>. QED
      BY <3>2 DEF Alike
  <2>4. g[n + 1] = b * g[n]
    BY <2>2 DEF Powers
  <2>. QED
    BY <2>1, <2>2, <2>3, <2>4 DEF Powers
<1>. QED
  BY <1>1, <1>2

(* A power of a sum is a product.                                          *)
LEMMA PowersMultiply ==
    ASSUME NEW b \in Nat, NEW m \in Nat, NEW n \in Nat
    PROVE  Power(b, m + n) = Power(b, m) * Power(b, n)
<1>. DEFINE f == [k \in 0 .. n |-> Power(b, m + k)]
            g == [k \in 0 .. n |-> Power(b, m) * Power(b, k)]
<1>1. Power(b, m) \in Nat
  BY PowerIs
<1>2. f[0] = g[0]
  <2>1. Power(b, m + 0) = Power(b, m) /\ Power(b, m) * 1 = Power(b, m)
    BY <1>1
  <2>. QED
    BY <2>1, PowerIs
<1>3. ASSUME NEW k \in 1 .. n, f[k - 1] = g[k - 1] PROVE f[k] = g[k]
  <2>1. k - 1 \in Nat /\ m + (k - 1) \in Nat /\ (k - 1) + 1 = k /\ (m + (k - 1)) + 1 = m + k
    OBVIOUS
  <2>2. Power(b, m + k) = b * Power(b, m + (k - 1)) /\ Power(b, k) = b * Power(b, k - 1)
    BY <2>1, PowerIs
  <2>3. Power(b, m + (k - 1)) = Power(b, m) * Power(b, k - 1)
    BY <1>3
  <2>4. Power(b, k - 1) \in Nat
    BY <2>1, PowerIs
  <2>5. \A x, y \in Nat : b * (x * y) = x * (b * y)
    OBVIOUS
  <2>. QED
    BY <1>1, <2>2, <2>3, <2>4, <2>5
<1>4. \A k \in 0 .. n : f[k] = g[k]
  <2>. HIDE DEF f, g
  <2>1. Alike(n, f, g)
    BY <1>2, <1>3, CountedOnce DEF InStep
  <2>. QED
    BY <2>1 DEF Alike
<1>. QED
  BY <1>4

(* A power of a product is a power of a power: shifting by whole digits.   *)
LEMMA PowersOfPowers ==
    ASSUME NEW b \in Nat, NEW m \in Nat, NEW n \in Nat
    PROVE  Power(b, m * n) = Power(Power(b, m), n)
<1>. DEFINE f == [k \in 0 .. n |-> Power(b, m * k)]
            g == [k \in 0 .. n |-> Power(Power(b, m), k)]
<1>1. Power(b, m) \in Nat
  BY PowerIs
<1>2. f[0] = g[0]
  <2>1. m * 0 = 0
    OBVIOUS
  <2>. QED
    BY <1>1, <2>1, PowerIs
<1>3. ASSUME NEW k \in 1 .. n, f[k - 1] = g[k - 1] PROVE f[k] = g[k]
  <2>1. k - 1 \in Nat /\ m * (k - 1) \in Nat /\ (k - 1) + 1 = k /\ m + (m * (k - 1)) = m * k
    OBVIOUS
  <2>2. Power(b, m * k) = Power(b, m) * Power(b, m * (k - 1))
    <3>. DEFINE v == m * (k - 1)
    <3>1. v \in Nat /\ m * k = m + v
      BY <2>1
    <3>. HIDE DEF v
    <3>2. Power(b, m + v) = Power(b, m) * Power(b, v)
      BY <3>1, PowersMultiply
    <3>. QED
      BY <3>1, <3>2 DEF v
  <2>3. Power(Power(b, m), k) = Power(b, m) * Power(Power(b, m), k - 1)
    BY <1>1, <2>1, PowerIs
  <2>4. Power(b, m * (k - 1)) = Power(Power(b, m), k - 1)
    BY <1>3
  <2>. QED
    BY <2>2, <2>3, <2>4
<1>4. \A k \in 0 .. n : f[k] = g[k]
  <2>. HIDE DEF f, g
  <2>1. Alike(n, f, g)
    BY <1>2, <1>3, CountedOnce DEF InStep
  <2>. QED
    BY <2>1 DEF Alike
<1>. QED
  BY <1>4

(* Powers grow with their exponents.                                       *)
LEMMA PowersGrow ==
    ASSUME NEW b \in Nat, b >= 2, NEW n \in Nat
    PROVE  /\ Power(b, n) >= 1
           /\ \A k \in 0 .. n - 1 : Power(b, k) < Power(b, n)
<1>. DEFINE T == {k \in 0 .. n : Power(b, k) >= 1 /\ \A j \in 0 .. k - 1 : Power(b, j) < Power(b, k)}
<1>1. \A k \in 0 .. n : (\A j \in 0 .. k - 1 : j \in T) => k \in T
  <2>. SUFFICES ASSUME NEW k \in 0 .. n, \A j \in 0 .. k - 1 : j \in T PROVE k \in T
    OBVIOUS
  <2>1. CASE k = 0
    BY <2>1, PowerIs
  <2>2. CASE k # 0
    <3>. DEFINE p == Power(b, k - 1)
    <3>1. k - 1 \in Nat /\ k - 1 \in 0 .. k - 1 /\ (k - 1) + 1 = k
      BY <2>2
    <3>2. /\ p \in Nat /\ p >= 1 /\ Power(b, k) = b * p
          /\ \A j \in 0 .. k - 2 : Power(b, j) < p
      BY <3>1, PowerIs
    <3>. HIDE DEF p
    <3>3. b * p > p
      BY <3>2
    <3>4. ASSUME NEW j \in 0 .. k - 1 PROVE Power(b, j) < Power(b, k)
      <4>1. Power(b, j) \in Nat
        BY PowerIs
      <4>2. j = k - 1 \/ j \in 0 .. k - 2
        OBVIOUS
      <4>. QED
        BY <3>2, <3>3, <4>1, <4>2 DEF p
    <3>. QED
      BY <3>2, <3>3, <3>4
  <2>. QED
    BY <2>1, <2>2
<1>. HIDE DEF T
<1>2. \A k \in 0 .. n : k \in T
  BY <1>1, FromTheStart
<1>. QED
  BY <1>2 DEF T

\* How many digits a value may have before its last bit: nine of 7 bits.
Tops == CHOOSE n \in 1 .. Width : Width = Payload * n + 1

(* What the last digit that is whole holds, and all digits.                *)
LEMMA DigitBase ==
    /\ Base \in Nat /\ Base >= 4 /\ FinalBase \in Nat /\ FinalBase >= 2
    /\ Base = 2 * FinalBase
    /\ \A k \in Nat : Power(Base, k) \in Nat
<1>1. Payload - 1 \in Nat /\ Payload - 2 \in Nat /\ (Payload - 1) + 1 = Payload /\ (Payload - 2) + 1 = Payload - 1
  BY VarintAssumption
<1>2. /\ Base = 2 * FinalBase /\ FinalBase = 2 * Power(2, Payload - 2)
      /\ Power(2, Payload - 2) \in Nat
  BY <1>1, PowerIs DEF Base, FinalBase
<1>3. Power(2, Payload - 2) >= 1
  BY <1>1, PowersGrow
<1>4. Base \in Nat /\ Base >= 4 /\ FinalBase \in Nat /\ FinalBase >= 2
  BY <1>2, <1>3
<1>. QED
  BY <1>2, <1>4, PowerIs

(* What a varint has room for: Tops whole digits, and one bit.             *)
LEMMA DigitRoom ==
    /\ Tops \in Nat /\ Tops >= 1 /\ Width = Payload * Tops + 1 /\ Tops < Width
    /\ MaxVIntDigits = Tops + 1
    /\ Power(2, Width) = 2 * Power(Base, Tops)
    /\ Power(2, Width - 2) = Power(Base, Tops - 1) * FinalBase
<1>1. Tops \in 1 .. Width /\ Width = Payload * Tops + 1
  BY VarintAssumption DEF Tops
<1>2. Tops \in Nat /\ Tops >= 1 /\ Tops < Width /\ Payload \in Nat
  BY <1>1, VarintAssumption
<1>. HIDE DEF Tops
<1>3. MaxVIntDigits = Tops + 1
  <2>1. Width - 1 = Payload * Tops
    BY <1>1, <1>2
  <2>2. (Payload * Tops) \div Payload = Tops
    BY <1>2, VarintAssumption
  <2>. QED
    BY <2>1, <2>2 DEF MaxVIntDigits
<1>. DEFINE w == Payload * Tops
<1>4. w \in Nat /\ Width = w + 1 /\ Power(2, w) = Power(Base, Tops)
  BY <1>1, <1>2, PowersOfPowers DEF Base
<1>5. Power(2, Width) = 2 * Power(Base, Tops)
  BY <1>4, PowerIs
<1>6. Power(2, Width - 2) = Power(Base, Tops - 1) * FinalBase
  <2>. DEFINE v == Payload * (Tops - 1)
  <2>1. Tops - 1 \in Nat /\ Payload - 1 \in Nat
    BY <1>2, VarintAssumption
  <2>2. v \in Nat /\ w = v + Payload
    BY <1>2, <2>1
  <2>3. Power(2, v) = Power(Base, Tops - 1)
    BY <1>2, <2>1, PowersOfPowers DEF Base
  <2>. HIDE DEF v, w
  <2>4. Width - 2 = v + (Payload - 1)
    BY <1>2, <1>4, <2>2
  <2>. QED
    BY <2>1, <2>2, <2>3, <2>4, PowersMultiply DEF FinalBase
<1>. QED
  BY <1>1, <1>2, <1>3, <1>5, <1>6

VarintStep(s, f, k) == IF k = 0 THEN 0 ELSE f[k - 1] + s[k].n * Power(Base, k - 1)

(* What the lowest digits amount to is counted, too.                       *)
LEMMA VarintUpToIsRecursive ==
    ASSUME NEW s, NEW n
    PROVE  VarintUpTo(s, n) = (CHOOSE f : f = [k \in 0 .. n |-> VarintStep(s, f, k)])[n]
BY Zenon DEF VarintUpTo, VarintStep

\* f holds the values of a varint up to the n-th digit.
LowValues(s, n, f) ==
    f \in [0 .. n -> Nat] /\ f[0] = 0 /\ \A k \in 1 .. n : f[k] = f[k - 1] + s[k].n * Power(Base, k - 1)

(* It is there, and it is read off at the last digit.                      *)
LEMMA LowValuesAre ==
    ASSUME NEW s, NEW n \in Nat, \A k \in 1 .. n : s[k].n \in Nat
    PROVE  \E f : LowValues(s, n, f) /\ VarintUpTo(s, n) = f[n]
<1>. DEFINE Is(f) == f = [k \in 0 .. n |-> VarintStep(s, f, k)]
            G == [k \in 1 .. n |-> [x \in Nat |-> x + s[k].n * Power(Base, k - 1)]]
            h == CHOOSE f : Is(f)
<1>1. \A k \in 1 .. n, x \in Nat : G[k][x] = x + s[k].n * Power(Base, k - 1)
  OBVIOUS
<1>2. PICK f : Counts(n, Nat, 0, G, f)
  <2>1. \A k \in 1 .. n, x \in Nat : G[k][x] \in Nat
    BY <1>1, DigitBase
  <2>. HIDE DEF G
  <2>. QED
    BY <2>1, Counted
<1>. HIDE DEF G
<1>3. LowValues(s, n, f)
  <2>1. \A k \in 1 .. n : f[k - 1] \in Nat
    BY <1>2 DEF Counts
  <2>. QED
    BY <1>1, <1>2, <2>1 DEF Counts, LowValues
<1>4. Is(f)
  <2>1. f = [k \in 0 .. n |-> f[k]]
    BY <1>3 DEF LowValues
  <2>2. \A k \in 0 .. n : f[k] = VarintStep(s, f, k)
    BY <1>3 DEF LowValues, VarintStep
  <2>. QED
    BY <2>1, <2>2
<1>5. Is(h)
  BY <1>4, Zenon
<1>. HIDE DEF h
<1>6. h[n] = f[n]
  <2>1. h[0] = f[0] /\ \A k \in 1 .. n : h[k - 1] = f[k - 1] => h[k] = f[k]
    BY <1>3, <1>5 DEF LowValues, VarintStep
  <2>2. Alike(n, h, f)
    BY <2>1, CountedOnce DEF InStep
  <2>. QED
    BY <2>2 DEF Alike
<1>7. VarintUpTo(s, n) = h[n]
  BY VarintUpToIsRecursive, Zenon DEF h
<1>. QED
  BY <1>3, <1>6, <1>7

(* What the digits up to each amount to.                                   *)
LEMMA VarintUpToIs ==
    ASSUME NEW s, NEW n \in Nat, \A k \in 1 .. n : s[k].n \in Nat
    PROVE  /\ VarintUpTo(s, 0) = 0
           /\ \A k \in 0 .. n : VarintUpTo(s, k) \in Nat
           /\ \A k \in 1 .. n : VarintUpTo(s, k) = VarintUpTo(s, k - 1) + s[k].n * Power(Base, k - 1)
<1>1. PICK f : LowValues(s, n, f)
  BY LowValuesAre
<1>2. ASSUME NEW k \in 0 .. n PROVE VarintUpTo(s, k) = f[k]
  <2>1. PICK g : LowValues(s, k, g) /\ VarintUpTo(s, k) = g[k]
    BY LowValuesAre
  <2>2. f[0] = g[0] /\ \A j \in 1 .. k : f[j - 1] = g[j - 1] => f[j] = g[j]
    BY <1>1, <2>1 DEF LowValues
  <2>3. k \in Nat /\ k \in 0 .. k
    OBVIOUS
  <2>4. Alike(k, f, g)
    BY <2>2, <2>3, CountedOnce DEF InStep
  <2>. QED
    BY <2>1, <2>3, <2>4 DEF Alike
<1>. QED
  BY <1>1, <1>2 DEF LowValues

VIntStep(s, f, k) == IF k = 0 THEN 0 ELSE f[k - 1] * Base + s[k].n

(* And what the highest digits amount to.                                  *)
LEMMA VIntUpToIsRecursive ==
    ASSUME NEW s, NEW n
    PROVE  VIntUpTo(s, n) = (CHOOSE f : f = [k \in 0 .. n |-> VIntStep(s, f, k)])[n]
BY Zenon DEF VIntUpTo, VIntStep

\* f holds the values of a VInt up to the n-th digit.
HighValues(s, n, f) ==
    f \in [0 .. n -> Nat] /\ f[0] = 0 /\ \A k \in 1 .. n : f[k] = f[k - 1] * Base + s[k].n

(* It is there, and it is read off at the last digit.                      *)
LEMMA HighValuesAre ==
    ASSUME NEW s, NEW n \in Nat, \A k \in 1 .. n : s[k].n \in Nat
    PROVE  \E f : HighValues(s, n, f) /\ VIntUpTo(s, n) = f[n]
<1>. DEFINE Is(f) == f = [k \in 0 .. n |-> VIntStep(s, f, k)]
            G == [k \in 1 .. n |-> [x \in Nat |-> x * Base + s[k].n]]
            h == CHOOSE f : Is(f)
<1>1. \A k \in 1 .. n, x \in Nat : G[k][x] = x * Base + s[k].n
  OBVIOUS
<1>2. PICK f : Counts(n, Nat, 0, G, f)
  <2>1. \A k \in 1 .. n, x \in Nat : G[k][x] \in Nat
    BY <1>1, DigitBase
  <2>. HIDE DEF G
  <2>. QED
    BY <2>1, Counted
<1>. HIDE DEF G
<1>3. HighValues(s, n, f)
  <2>1. \A k \in 1 .. n : f[k - 1] \in Nat
    BY <1>2 DEF Counts
  <2>. QED
    BY <1>1, <1>2, <2>1 DEF Counts, HighValues
<1>4. Is(f)
  <2>1. f = [k \in 0 .. n |-> f[k]]
    BY <1>3 DEF HighValues
  <2>2. \A k \in 0 .. n : f[k] = VIntStep(s, f, k)
    BY <1>3 DEF HighValues, VIntStep
  <2>. QED
    BY <2>1, <2>2
<1>5. Is(h)
  BY <1>4, Zenon
<1>. HIDE DEF h
<1>6. h[n] = f[n]
  <2>1. h[0] = f[0] /\ \A k \in 1 .. n : h[k - 1] = f[k - 1] => h[k] = f[k]
    BY <1>3, <1>5 DEF HighValues, VIntStep
  <2>2. Alike(n, h, f)
    BY <2>1, CountedOnce DEF InStep
  <2>. QED
    BY <2>2 DEF Alike
<1>7. VIntUpTo(s, n) = h[n]
  BY VIntUpToIsRecursive, Zenon DEF h
<1>. QED
  BY <1>3, <1>6, <1>7

(* What the digits up to each amount to, the highest first.                *)
LEMMA VIntUpToIs ==
    ASSUME NEW s, NEW n \in Nat, \A k \in 1 .. n : s[k].n \in Nat
    PROVE  /\ VIntUpTo(s, 0) = 0
           /\ \A k \in 0 .. n : VIntUpTo(s, k) \in Nat
           /\ \A k \in 1 .. n : VIntUpTo(s, k) = VIntUpTo(s, k - 1) * Base + s[k].n
<1>1. PICK f : HighValues(s, n, f)
  BY HighValuesAre
<1>2. ASSUME NEW k \in 0 .. n PROVE VIntUpTo(s, k) = f[k]
  <2>1. PICK g : HighValues(s, k, g) /\ VIntUpTo(s, k) = g[k]
    BY HighValuesAre
  <2>2. f[0] = g[0] /\ \A j \in 1 .. k : f[j - 1] = g[j - 1] => f[j] = g[j]
    BY <1>1, <2>1 DEF HighValues
  <2>3. k \in Nat /\ k \in 0 .. k
    OBVIOUS
  <2>4. Alike(k, f, g)
    BY <2>2, <2>3, CountedOnce DEF InStep
  <2>. QED
    BY <2>1, <2>3, <2>4 DEF Alike
<1>. QED
  BY <1>1, <1>2 DEF HighValues

(* What the places of digits weigh.                                        *)
LEMMA Places ==
    /\ Base \in Nat /\ Base >= 4 /\ Power(Base, 0) = 1
    /\ \A k \in Nat : Power(Base, k) \in Nat /\ Power(Base, k) >= 1
    /\ \A k \in Nat \ {0} : Power(Base, k) = Base * Power(Base, k - 1)
<1>1. Base \in Nat /\ Base >= 4
  BY DigitBase
<1>2. Power(Base, 0) = 1 /\ \A k \in Nat : Power(Base, k) \in Nat /\ Power(Base, k) >= 1
  BY <1>1, PowerIs, PowersGrow
<1>3. ASSUME NEW k \in Nat \ {0} PROVE Power(Base, k) = Base * Power(Base, k - 1)
  <2>. DEFINE j == k - 1
  <2>1. j \in Nat /\ k = j + 1
    OBVIOUS
  <2>. HIDE DEF j
  <2>2. Power(Base, j + 1) = Base * Power(Base, j)
    BY <1>1, <2>1, PowerIs
  <2>. QED
    BY <2>1, <2>2 DEF j
<1>. QED
  BY <1>1, <1>2, <1>3

(* Division by a base that only the quotient is a multiple of.             *)
LEMMA Quotient ==
    ASSUME NEW p \in Nat, p >= 1, NEW q \in Nat, NEW a \in 0 .. p - 1
    PROVE  (a + p * q) \div p = q /\ (a + p * q) % p = a
<1>. DEFINE x == a + p * q
<1>1. x \in Nat
  OBVIOUS
<1>2. x = p * (x \div p) + (x % p) /\ x % p \in 0 .. p - 1 /\ x \div p \in Int
  BY <1>1
<1>. DEFINE d == x \div p
            m == x % p
<1>3. d \in Int /\ m \in 0 .. p - 1 /\ p * d + m = a + p * q
  BY <1>2
<1>. HIDE DEF d, m, x
<1>4. p * (d - q) = a - m
  BY <1>3
<1>5. d - q \in Int /\ a - m < p /\ m - a < p
  BY <1>3
<1>6. d = q
  <2>1. CASE d - q >= 1
    <3>1. p * (d - q) >= p
      BY <1>5, <2>1
    <3>. QED
      BY <1>3, <1>4, <1>5, <3>1
  <2>2. CASE q - d >= 1
    <3>1. p * (q - d) >= p
      BY <1>3, <2>2
    <3>2. p * (q - d) = m - a
      BY <1>3
    <3>. QED
      BY <1>3, <1>5, <3>1, <3>2
  <2>. QED
    BY <1>3, <2>1, <2>2
<1>7. m = a
  BY <1>3, <1>6
<1>. QED
  BY <1>6, <1>7 DEF d, m, x

(* What a quotient and a remainder are.                                    *)
LEMMA Divided ==
    ASSUME NEW p \in Nat, p >= 1, NEW x \in Nat
    PROVE  /\ x = p * (x \div p) + (x % p)
           /\ x % p \in 0 .. p - 1 /\ x \div p \in Nat
<1>1. x = p * (x \div p) + (x % p) /\ x % p \in 0 .. p - 1 /\ x \div p \in Int
  OBVIOUS
<1>. DEFINE d == x \div p
            m == x % p
<1>2. d \in Int /\ m \in 0 .. p - 1 /\ x = p * d + m
  BY <1>1
<1>. HIDE DEF d, m
<1>3. d >= 0
  <2>. SUFFICES ASSUME d <= -1 PROVE FALSE
    BY <1>2
  <2>1. p * (-d) >= p
    BY <1>2
  <2>2. p * (-d) = m - x
    BY <1>2
  <2>. QED
    BY <1>2, <2>1, <2>2
<1>. QED
  BY <1>1, <1>2, <1>3 DEF d, m

(* A value is below a multiple exactly if its quotient is.                 *)
LEMMA QuotientBelow ==
    ASSUME NEW p \in Nat, p >= 1, NEW x \in Nat, NEW q \in Nat
    PROVE  x \div p < q <=> x < p * q
<1>. DEFINE d == x \div p
            m == x % p
<1>1. x = p * d + m /\ m \in 0 .. p - 1 /\ d \in Nat
  BY Divided
<1>. HIDE DEF d, m
<1>2. CASE d < q
  <2>1. p * (q - d) >= p
    BY <1>1, <1>2
  <2>2. p * (q - d) = p * q - p * d
    BY <1>1
  <2>. QED
    BY <1>1, <1>2, <2>1, <2>2 DEF d
<1>3. CASE d >= q
  <2>1. p * (d - q) >= 0
    BY <1>1, <1>3
  <2>2. p * (d - q) = p * d - p * q
    BY <1>1
  <2>. QED
    BY <1>1, <1>3, <2>1, <2>2 DEF d
<1>. QED
  BY <1>1, <1>2, <1>3

(* What k digits amount to has room in k digits.                           *)
LEMMA LowValuesFit ==
    ASSUME NEW s, NEW n \in Nat, \A k \in 1 .. n : s[k].n \in 0 .. Base - 1
    PROVE  \A k \in 0 .. n : VarintUpTo(s, k) \in 0 .. Power(Base, k) - 1
<1>1. /\ VarintUpTo(s, 0) = 0 /\ \A k \in 0 .. n : VarintUpTo(s, k) \in Nat
      /\ \A k \in 1 .. n : VarintUpTo(s, k) = VarintUpTo(s, k - 1) + s[k].n * Power(Base, k - 1)
  <2>1. \A k \in 1 .. n : s[k].n \in Nat
    BY DigitBase
  <2>. QED
    BY <2>1, VarintUpToIs
<1>. DEFINE T == {k \in 0 .. n : VarintUpTo(s, k) \in 0 .. Power(Base, k) - 1}
<1>2. \A k \in 0 .. n : (\A j \in 0 .. k - 1 : j \in T) => k \in T
  <2>. SUFFICES ASSUME NEW k \in 0 .. n, \A j \in 0 .. k - 1 : j \in T PROVE k \in T
    OBVIOUS
  <2>1. CASE k = 0
    BY <1>1, <2>1, PowerIs, DigitBase
  <2>2. CASE k # 0
    <3>. DEFINE v == VarintUpTo(s, k - 1)
                p == Power(Base, k - 1)
                d == s[k].n
    <3>1. k \in 1 .. n /\ k - 1 \in 0 .. k - 1 /\ k - 1 \in Nat /\ (k - 1) + 1 = k
      BY <2>2
    <3>2. v \in 0 .. p - 1 /\ p \in Nat /\ d \in 0 .. Base - 1 /\ Base \in Nat
      BY <3>1, DigitBase
    <3>3. VarintUpTo(s, k) = v + d * p /\ Power(Base, k) = Base * p
      BY <1>1, <3>1, Places
    <3>. HIDE DEF v, p, d
    <3>4. v + d * p \in 0 .. Base * p - 1
      <4>1. (Base - 1 - d) * p >= 0 /\ d * p >= 0
        BY <3>2
      <4>2. (Base - 1 - d) * p = Base * p - p - d * p
        BY <3>2
      <4>3. d * p \in Nat /\ Base * p \in Nat
        BY <3>2
      <4>. QED
        BY <3>2, <4>1, <4>2, <4>3
    <3>. QED
      BY <3>3, <3>4
  <2>. QED
    BY <2>1, <2>2
<1>. HIDE DEF T
<1>3. \A k \in 0 .. n : k \in T
  BY <1>2, FromTheStart
<1>. QED
  BY <1>3 DEF T

(* And each digit is found at its place again.                             *)
LEMMA LowDigits ==
    ASSUME NEW s, NEW n \in Nat, \A k \in 1 .. n : s[k].n \in 0 .. Base - 1, NEW i \in 1 .. n
    PROVE  (VarintUpTo(s, n) \div Power(Base, i - 1)) % Base = s[i].n
<1>. DEFINE p == Power(Base, i - 1)
            V(k) == VarintUpTo(s, k)
            T == {k \in 0 .. n - i : \E q \in Nat : V(i + k) = V(i - 1) + p * (s[i].n + Base * q)}
<1>1. /\ \A k \in 0 .. n : V(k) \in Nat
      /\ \A k \in 1 .. n : V(k) = V(k - 1) + s[k].n * Power(Base, k - 1)
      /\ Base \in Nat /\ Base >= 4
  <2>1. \A k \in 1 .. n : s[k].n \in Nat
    BY DigitBase
  <2>. QED
    BY <2>1, VarintUpToIs, DigitBase
<1>2. i - 1 \in Nat /\ i - 1 \in 0 .. n /\ (i - 1) + 1 = i /\ n - i \in Nat /\ i + 0 = i /\ i + (n - i) = n
  OBVIOUS
<1>3. p \in Nat /\ p >= 1 /\ V(i - 1) \in 0 .. p - 1 /\ Power(Base, i) = Base * p /\ s[i].n \in 0 .. Base - 1
  <2>1. p \in Nat /\ p >= 1 /\ Power(Base, i) = Base * p
    BY <1>2, Places
  <2>2. V(i - 1) \in 0 .. p - 1
    <3>1. \A k \in 0 .. n : VarintUpTo(s, k) \in 0 .. Power(Base, k) - 1
      BY LowValuesFit
    <3>. QED
      BY <1>2, <3>1
  <2>. QED
    BY <2>1, <2>2
<1>4. \A k \in 0 .. n - i : (\A j \in 0 .. k - 1 : j \in T) => k \in T
  <2>. SUFFICES ASSUME NEW k \in 0 .. n - i, \A j \in 0 .. k - 1 : j \in T PROVE k \in T
    OBVIOUS
  <2>1. CASE k = 0
    <3>1. V(i) = V(i - 1) + p * (s[i].n + Base * 0)
      BY <1>1, <1>3
    <3>. QED
      BY <1>2, <2>1, <3>1
  <2>2. CASE k # 0
    <3>1. k - 1 \in 0 .. k - 1 /\ k - 1 \in Nat /\ i + k \in 1 .. n /\ (i + k) - 1 = i + (k - 1)
      BY <2>2
    <3>2. PICK q \in Nat : V(i + (k - 1)) = V(i - 1) + p * (s[i].n + Base * q)
      BY <3>1
    <3>. DEFINE d == s[i + k].n
                w == Power(Base, k - 1)
    <3>3. V(i + k) = V(i + (k - 1)) + d * Power(Base, i + (k - 1))
      BY <1>1, <3>1
    <3>4. Power(Base, i + (k - 1)) = Base * p * w /\ w \in Nat /\ d \in Nat
      <4>1. Power(Base, i + (k - 1)) = Power(Base, i) * w
        <5>. DEFINE j == k - 1
        <5>1. j \in Nat /\ i \in Nat
          BY <3>1
        <5>. HIDE DEF j
        <5>2. Power(Base, i + j) = Power(Base, i) * Power(Base, j)
          BY <1>1, <5>1, PowersMultiply
        <5>. QED
          BY <5>2 DEF j
      <4>. QED
        BY <1>1, <1>3, <3>1, <4>1, PowerIs
    <3>. DEFINE r == q + w * d
    <3>5. r \in Nat /\ V(i + k) = V(i - 1) + p * (s[i].n + Base * r)
      <4>. DEFINE u == V(i - 1)
                  e == s[i].n
                  z == V(i + k)
                  y == V(i + (k - 1))
      <4>1. /\ z = y + d * (Base * p * w) /\ y = u + p * (e + Base * q)
            /\ u \in Nat /\ e \in Nat /\ d \in Nat /\ w \in Nat /\ p \in Nat /\ Base \in Nat
        BY <1>1, <1>3, <3>2, <3>3, <3>4
      <4>. HIDE DEF u, e, z, y, p, d, w
      <4>2. z = u + p * (e + Base * (q + w * d)) /\ q + w * d \in Nat
        BY <4>1
      <4>. QED
        BY <4>2 DEF u, e, z
    <3>. QED
      BY <3>5
  <2>. QED
    BY <2>1, <2>2
<1>. HIDE DEF T
<1>5. n - i \in T
  BY <1>2, <1>4, FromTheStart
<1>6. PICK q \in Nat : V(n) = V(i - 1) + p * (s[i].n + Base * q)
  BY <1>2, <1>5 DEF T
<1>. DEFINE x == s[i].n + Base * q
<1>7. x \in Nat /\ V(n) = V(i - 1) + p * x
  BY <1>1, <1>3, <1>6
<1>. HIDE DEF x, V, p
<1>8. V(n) \div p = x
  BY <1>3, <1>7, Quotient
<1>9. x % Base = s[i].n
  <2>. DEFINE e == s[i].n
  <2>1. e \in 0 .. Base - 1 /\ Base \in Nat /\ Base >= 1
    BY <1>1, <1>3
  <2>. HIDE DEF e
  <2>2. (e + Base * q) % Base = e
    BY <2>1, Quotient
  <2>. QED
    BY <2>2 DEF e, x
<1>. QED
  BY <1>8, <1>9 DEF V, p

(* What write_varint makes of a value of n digits.                         *)
LEMMA VarintOf ==
    ASSUME NEW value \in Nat, NEW n \in 1 .. Tops + 1, value < Power(Base, n),
           n = 1 \/ Power(Base, n - 1) <= value
    PROVE  WriteVarint(value) =
              [i \in 1 .. n |-> Digit((value \div Power(Base, i - 1)) % Base, i < n)]
<1>. DEFINE K == {k \in 1 .. Width : Power(Base, k) <= value}
<1>1. n \in Nat /\ n - 1 \in Nat /\ n - 1 < Width /\ Width \in Nat
  BY DigitRoom, VarintAssumption
<1>2. K = 1 .. n - 1
  <2>1. ASSUME NEW k \in 1 .. n - 1 PROVE k \in K
    <3>1. k \in Nat /\ k \in 1 .. Width /\ (k = n - 1 \/ k \in 0 .. (n - 1) - 1)
      BY <1>1
    <3>2. Power(Base, k) <= Power(Base, n - 1) /\ Power(Base, n - 1) <= value
      BY <1>1, <3>1, PowersGrow, DigitBase
    <3>. QED
      BY <1>1, <3>1, <3>2, DigitBase
  <2>2. ASSUME NEW k \in K PROVE k \in 1 .. n - 1
    <3>1. k \in Nat /\ k >= 1 /\ Power(Base, k) <= value /\ Power(Base, k) \in Nat
      BY DigitBase
    <3>2. CASE k >= n
      <4>1. k = n \/ n \in 0 .. k - 1
        BY <1>1, <3>1, <3>2
      <4>2. Power(Base, n) <= Power(Base, k) /\ Power(Base, n) \in Nat
        BY <1>1, <3>1, <4>1, PowersGrow, DigitBase
      <4>. QED
        BY <3>1, <4>2
    <3>. QED
      BY <1>1, <3>1, <3>2
  <2>. QED
    BY <2>1, <2>2
<1>. HIDE DEF K
<1>3. 1 + Cardinality(K) = n
  <2>. DEFINE m == n - 1
  <2>1. m \in Nat /\ n = m + 1 /\ K = 1 .. m
    BY <1>1, <1>2
  <2>. HIDE DEF m
  <2>2. Cardinality(1 .. m) = IF 1 > m THEN 0 ELSE m - 1 + 1
    BY <2>1, FS_Interval
  <2>. QED
    BY <2>1, <2>2
<1>. QED
  BY <1>3 DEF WriteVarint, K

(* Every value has such a number of digits.                                *)
LEMMA DigitsNeeded ==
    ASSUME NEW value \in Nat, NEW top \in Nat, top >= 1, value < Power(Base, top)
    PROVE  \E n \in 1 .. top : /\ value < Power(Base, n)
                               /\ n = 1 \/ Power(Base, n - 1) <= value
<1>. DEFINE T == {n \in 1 .. top : value < Power(Base, n)}
<1>1. T \in SUBSET Nat /\ top \in T
  OBVIOUS
<1>. HIDE DEF T
<1>2. PICK n \in T : \A k \in T : n <= k
  BY <1>1, NatMinimum
<1>3. n \in 1 .. top /\ value < Power(Base, n)
  BY <1>2 DEF T
<1>4. n = 1 \/ Power(Base, n - 1) <= value
  <2>1. n # 1 => n - 1 \in 1 .. top /\ n - 1 \notin T
    BY <1>2, <1>3
  <2>. QED
    BY <1>3, <2>1, DigitBase DEF T
<1>. QED
  BY <1>3, <1>4
-----------------------------------------------------------------------------
(* Varints are canonical.                                                  *)

VarintDigit == [n : 0 .. Base - 1, more : BOOLEAN]

(* A digit has two parts.                                                  *)
LEMMA DigitParts ==
    ASSUME NEW n, NEW more, NEW digit, digit = Digit(n, more)
    PROVE  digit.n = n /\ digit.more = more
BY DEF Digit

(* And they are of their kinds.                                            *)
LEMMA DigitIs ==
    ASSUME NEW digit \in VarintDigit
    PROVE  /\ digit.n \in 0 .. Base - 1 /\ digit.n \in Nat /\ digit.more \in BOOLEAN
           /\ digit = [n |-> digit.n, more |-> digit.more]
<1>1. /\ digit.n \in 0 .. Base - 1 /\ digit.more \in BOOLEAN
      /\ digit = [n |-> digit.n, more |-> digit.more]
  BY DEF VarintDigit
<1>. DEFINE d == digit.n
<1>2. d \in 0 .. Base - 1 /\ Base \in Nat
  BY <1>1, DigitBase
<1>. HIDE DEF d
<1>3. d \in Nat
  BY <1>2
<1>. QED
  BY <1>1, <1>3 DEF d

(* What is asked of a digit, by how many there are.                        *)
LEMMA DigitOkIs ==
    ASSUME NEW i \in Nat, i >= 1, NEW digit \in VarintDigit
    PROVE  DigitOk((i - 1) * Payload, digit) <=>
               /\ i <= Tops + 1 /\ (i = Tops + 1 => digit.n <= 1)
               /\ digit.more => i <= Tops
               /\ ~digit.more => i = 1 \/ digit.n # 0
<1>. DEFINE k == i - 1
            shift == k * Payload
            w == Payload * Tops
<1>1. /\ k \in Nat /\ i = k + 1 /\ Tops \in Nat /\ Payload \in Nat /\ Payload > 1
      /\ shift \in Nat /\ w \in Nat /\ Width = w + 1
  BY DigitRoom, VarintAssumption
<1>2. k > Tops => shift >= w + Payload
  <2>. SUFFICES ASSUME k > Tops PROVE shift >= w + Payload
    OBVIOUS
  <2>1. (k - (Tops + 1)) * Payload >= 0
    BY <1>1
  <2>2. (k - (Tops + 1)) * Payload = k * Payload - Payload * Tops - Payload
    BY <1>1
  <2>. QED
    BY <1>1, <2>1, <2>2
<1>3. k = Tops => shift = w
  BY <1>1
<1>4. k < Tops => shift + Payload <= w
  <2>. SUFFICES ASSUME k < Tops PROVE shift + Payload <= w
    OBVIOUS
  <2>1. (Tops - (k + 1)) * Payload >= 0
    BY <1>1
  <2>2. (Tops - (k + 1)) * Payload = Payload * Tops - k * Payload - Payload
    BY <1>1
  <2>. QED
    BY <1>1, <2>1, <2>2
<1>. DEFINE n == digit.n
            more == digit.more
<1>5. n \in Nat /\ more \in BOOLEAN
  BY DigitBase DEF VarintDigit
<1>6. (shift > 0) <=> (i > 1)
  <2>1. k > 0 => shift > 0
    BY <1>1
  <2>2. k = 0 => shift = 0
    BY <1>1
  <2>. QED
    BY <1>1, <2>1, <2>2
<1>7. DigitOk(shift, digit) <=>
          /\ ~(shift >= Width \/ (shift = Width - 1 /\ n > 1))
          /\ ~more => ~(shift > 0 /\ n = 0)
          /\ more => shift + Payload < Width + Payload - 1
  BY DEF DigitOk
<1>. HIDE DEF k, shift, w, n, more
<1>8. /\ (shift >= Width) <=> (i > Tops + 1)
      /\ (shift = Width - 1) <=> (i = Tops + 1)
      /\ (shift + Payload < Width + Payload - 1) <=> (i <= Tops)
  BY <1>1, <1>2, <1>3, <1>4
<1>9. DigitOk(shift, digit) <=>
          /\ ~(i > Tops + 1 \/ (i = Tops + 1 /\ n > 1))
          /\ ~more => ~(i > 1 /\ n = 0)
          /\ more => i <= Tops
  BY <1>6, <1>7, <1>8
<1>10. /\ ~(i > Tops + 1 \/ (i = Tops + 1 /\ n > 1)) <=> i <= Tops + 1 /\ (i = Tops + 1 => n <= 1)
       /\ ~(i > 1 /\ n = 0) <=> i = 1 \/ n # 0
  BY <1>1, <1>5
<1>. QED
  BY <1>9, <1>10, Zenon DEF shift, k, n, more

\* A varint ends at the i-th digit.
VarintEnds(s, i) ==
    \A j \in 1 .. i : DigitOk((j - 1) * Payload, s[j]) /\ (s[j].more <=> j < i)

(* read_varint stops where the varint ends.                                *)
LEMMA VarintIsRead ==
    ASSUME NEW s \in Seq(VarintDigit)
    PROVE  /\ ReadVarint(s).ok => \E i \in 1 .. Len(s) : VarintEnds(s, i)
           /\ \A i \in 1 .. Len(s) : VarintEnds(s, i) =>
                 ReadVarint(s) = [ok |-> TRUE, value |-> VarintUpTo(s, i), next |-> i + 1]
<1>. DEFINE last == CHOOSE i \in DOMAIN s : VarintEnds(s, i)
<1>1. DOMAIN s = 1 .. Len(s) /\ Len(s) \in Nat
  OBVIOUS
<1>2. ReadVarint(s) = IF \E i \in DOMAIN s : VarintEnds(s, i)
                     THEN [ok |-> TRUE, value |-> VarintUpTo(s, last), next |-> last + 1]
                     ELSE Overlong
  BY Zenon DEF ReadVarint, VarintEnds
<1>3. ReadVarint(s).ok => \E i \in 1 .. Len(s) : VarintEnds(s, i)
  BY <1>1, <1>2 DEF Overlong
<1>4. ASSUME NEW i \in 1 .. Len(s), VarintEnds(s, i)
      PROVE  ReadVarint(s) = [ok |-> TRUE, value |-> VarintUpTo(s, i), next |-> i + 1]
  <2>1. last \in 1 .. Len(s) /\ VarintEnds(s, last)
    BY <1>1, <1>4, Zenon
  <2>. HIDE DEF last
  <2>2. ~(last < i) /\ ~(i < last)
    <3>1. \A j \in 1 .. i : s[j].more <=> j < i
      BY <1>4 DEF VarintEnds
    <3>2. \A j \in 1 .. last : s[j].more <=> j < last
      BY <2>1 DEF VarintEnds
    <3>. QED
      BY <2>1, <3>1, <3>2
  <2>3. last = i
    BY <2>1, <2>2
  <2>. QED
    BY <1>1, <1>2, <1>4, <2>3
<1>. QED
  BY <1>3, <1>4

(* What is read has room in the width, and it is written as it was.        *)
LEMMA ReadIsWritten ==
    ASSUME NEW s \in Seq(VarintDigit), NEW i \in 1 .. Len(s), VarintEnds(s, i)
    PROVE  /\ VarintUpTo(s, i) \in 0 .. Power(2, Width) - 1
           /\ WriteVarint(VarintUpTo(s, i)) = SubSeq(s, 1, i)
<1>. DEFINE v == VarintUpTo(s, i)
<1>1. /\ i \in Nat /\ i >= 1 /\ Len(s) \in Nat
      /\ \A j \in 1 .. i : s[j] \in VarintDigit
      /\ \A j \in 1 .. i : s[j].n \in 0 .. Base - 1 /\ s[j].n \in Nat
  <2>1. i \in Nat /\ i >= 1 /\ Len(s) \in Nat /\ \A j \in 1 .. i : s[j] \in VarintDigit
    OBVIOUS
  <2>. QED
    BY <2>1, DigitIs
<1>2. ASSUME NEW j \in 1 .. i
      PROVE  /\ j <= Tops + 1 /\ (j = Tops + 1 => s[j].n <= 1)
             /\ (s[j].more <=> j < i) /\ (~s[j].more => j = 1 \/ s[j].n # 0)
  <2>1. DigitOk((j - 1) * Payload, s[j]) /\ (s[j].more <=> j < i)
    BY DEF VarintEnds
  <2>2. j \in Nat /\ j >= 1 /\ s[j] \in VarintDigit
    BY <1>1
  <2>. QED
    BY <2>1, <2>2, DigitOkIs
<1>3. /\ VarintUpTo(s, i - 1) \in 0 .. Power(Base, i - 1) - 1 /\ v \in 0 .. Power(Base, i) - 1
      /\ v = VarintUpTo(s, i - 1) + s[i].n * Power(Base, i - 1)
  <2>1. \A k \in 0 .. i : VarintUpTo(s, k) \in 0 .. Power(Base, k) - 1
    BY <1>1, LowValuesFit
  <2>2. \A k \in 1 .. i : VarintUpTo(s, k) = VarintUpTo(s, k - 1) + s[k].n * Power(Base, k - 1)
    BY <1>1, VarintUpToIs
  <2>. QED
    BY <1>1, <2>1, <2>2
<1>4. /\ i - 1 \in Nat /\ i \in 1 .. i /\ i <= Tops + 1 /\ Tops \in Nat /\ s[i].n \in Nat
      /\ (i = Tops + 1 => s[i].n <= 1) /\ (i = 1 \/ s[i].n >= 1)
  <2>1. Tops \in Nat
    BY DigitRoom
  <2>2. i - 1 \in Nat /\ i \in 1 .. i /\ s[i].n \in Nat
    BY <1>1
  <2>. QED
    BY <1>2, <2>1, <2>2
<1>5. v \in Nat /\ v < Power(Base, i)
  BY <1>1, <1>3, Places
<1>6. i = 1 \/ Power(Base, i - 1) <= v
  <2>. DEFINE u == VarintUpTo(s, i - 1)
              p == Power(Base, i - 1)
              d == s[i].n
  <2>1. u \in Nat /\ p \in Nat /\ d \in Nat /\ v = u + d * p /\ (i = 1 \/ d >= 1)
    BY <1>3, <1>4, Places
  <2>. HIDE DEF u, p, d, v
  <2>2. d >= 1 => d * p >= p
    BY <2>1
  <2>. QED
    BY <2>1, <2>2 DEF v, p
<1>7. v < Power(2, Width)
  <2>1. Power(2, Width) = 2 * Power(Base, Tops) /\ Power(Base, Tops) \in Nat /\ Power(Base, Tops) >= 1
    BY <1>4, DigitRoom, Places
  <2>2. CASE i = Tops + 1
    <3>. DEFINE u == VarintUpTo(s, i - 1)
                p == Power(Base, Tops)
                d == s[i].n
    <3>1. i - 1 = Tops
      BY <1>4, <2>2
    <3>2. u \in 0 .. p - 1 /\ d \in Nat /\ d <= 1 /\ v = u + d * p /\ p \in Nat
      BY <1>3, <1>4, <2>1, <2>2, <3>1
    <3>. HIDE DEF u, d, v, p
    <3>3. d * p <= p
      <4>1. d = 0 \/ d = 1
        BY <3>2
      <4>. QED
        BY <3>2, <4>1
    <3>4. d * p \in Nat
      BY <3>2
    <3>. QED
      BY <2>1, <3>2, <3>3, <3>4 DEF p
  <2>3. CASE i <= Tops
    <3>1. i = Tops \/ i \in 0 .. Tops - 1
      BY <1>4, <2>3
    <3>2. Power(Base, i) <= Power(Base, Tops) /\ Power(Base, i) \in Nat
      <4>1. \A k \in 0 .. Tops - 1 : Power(Base, k) < Power(Base, Tops)
        BY <1>4, PowersGrow, DigitBase
      <4>2. Power(Base, i) \in Nat
        BY <1>1, Places
      <4>3. Power(Base, i) <= Power(Base, Tops)
        BY <2>1, <3>1, <4>1, <4>2
      <4>. QED
        BY <4>2, <4>3
    <3>. QED
      BY <1>5, <2>1, <3>2
  <2>. QED
    BY <1>4, <2>2, <2>3
<1>8. v \in 0 .. Power(2, Width) - 1
  <2>1. Power(2, Width) \in Nat
    BY PowerIs, VarintAssumption
  <2>. QED
    BY <1>5, <1>7, <2>1
<1>9. WriteVarint(v) = SubSeq(s, 1, i)
  <2>1. WriteVarint(v) = [j \in 1 .. i |-> Digit((v \div Power(Base, j - 1)) % Base, j < i)]
    <3>1. i \in 1 .. Tops + 1
      BY <1>1, <1>4
    <3>. HIDE DEF v
    <3>. QED
      BY <1>5, <1>6, <3>1, VarintOf
  <2>2. ASSUME NEW j \in 1 .. i PROVE Digit((v \div Power(Base, j - 1)) % Base, j < i) = s[j]
    <3>1. (v \div Power(Base, j - 1)) % Base = s[j].n
      BY <1>1, LowDigits
    <3>2. s[j].more = (j < i)
      BY <1>1, <1>2 DEF VarintDigit
    <3>3. s[j] = [n |-> s[j].n, more |-> s[j].more]
      BY <1>1 DEF VarintDigit
    <3>. QED
      BY <3>1, <3>2, <3>3 DEF Digit
  <2>3. SubSeq(s, 1, i) = [j \in 1 .. i |-> s[j]]
    OBVIOUS
  <2>. HIDE DEF v
  <2>. QED
    BY <2>1, <2>2, <2>3
<1>. QED
  BY <1>8, <1>9

(* And what is written ends where it was written to, whatever follows it.  *)
LEMMA WrittenEnds ==
    ASSUME NEW value \in 0 .. Power(2, Width) - 1
    PROVE  LET w == WriteVarint(value)
           IN  /\ Len(w) \in Nat /\ Len(w) >= 1
               /\ \A s \in Seq(VarintDigit) :
                     Len(w) <= Len(s) /\ SubSeq(s, 1, Len(w)) = w => VarintEnds(s, Len(w))
<1>. DEFINE w == WriteVarint(value)
            D(i, n) == Digit((value \div Power(Base, i - 1)) % Base, i < n)
<1>1. /\ Tops \in Nat /\ Tops + 1 \in Nat /\ Tops + 1 >= 1 /\ (Tops + 1) - 1 = Tops
      /\ Power(Base, Tops + 1) = Base * Power(Base, Tops)
      /\ Power(Base, Tops) \in Nat /\ Power(2, Width) = 2 * Power(Base, Tops)
  <2>1. Tops \in Nat /\ Tops + 1 \in Nat /\ Tops + 1 >= 1 /\ (Tops + 1) - 1 = Tops
    BY DigitRoom
  <2>. QED
    BY <2>1, DigitRoom, PowerIs, DigitBase
<1>2. value \in Nat /\ value < 2 * Power(Base, Tops) /\ value < Power(Base, Tops + 1)
  <2>1. value \in Nat /\ value < 2 * Power(Base, Tops)
    BY <1>1
  <2>2. 2 * Power(Base, Tops) <= Base * Power(Base, Tops)
    BY <1>1, DigitBase
  <2>. QED
    BY <1>1, <2>1, <2>2, DigitBase
<1>3. PICK n \in 1 .. Tops + 1 : value < Power(Base, n) /\ (n = 1 \/ Power(Base, n - 1) <= value)
  BY <1>1, <1>2, DigitsNeeded
<1>4. w = [i \in 1 .. n |-> D(i, n)]
  BY <1>2, <1>3, VarintOf
<1>. HIDE DEF w, D
<1>5. Len(w) = n /\ n \in Nat /\ n >= 1
  <2>1. w \in [1 .. n -> {D(i, n) : i \in 1 .. n}] /\ n \in Nat
    BY <1>1, <1>4
  <2>. QED
    BY <2>1
<1>6. ASSUME NEW s \in Seq(VarintDigit), n <= Len(s), SubSeq(s, 1, n) = w
      PROVE  VarintEnds(s, n)
  <2>. SUFFICES ASSUME NEW j \in 1 .. n
                PROVE  DigitOk((j - 1) * Payload, s[j]) /\ (s[j].more <=> j < n)
    BY DEF VarintEnds
  <2>. DEFINE p == Power(Base, j - 1)
              d == (value \div p) % Base
  <2>1. s[j] = Digit(d, j < n) /\ s[j] \in VarintDigit
    <3>1. SubSeq(s, 1, n)[j] = s[j]
      BY <1>5, <1>6
    <3>. QED
      BY <1>4, <1>5, <1>6, <3>1 DEF D
  <2>2. s[j].n = d /\ (s[j].more <=> j < n)
    <3>. HIDE DEF d
    <3>1. s[j].n = d /\ s[j].more = (j < n)
      BY <2>1, DigitParts
    <3>. QED
      BY <3>1
  <2>3. j \in Nat /\ j >= 1 /\ j <= n /\ n <= Tops + 1 /\ j - 1 \in Nat /\ p \in Nat /\ p >= 1
    <3>1. j \in Nat /\ j >= 1 /\ j <= n /\ n <= Tops + 1 /\ j - 1 \in Nat
      BY <1>1, <1>5
    <3>. QED
      BY <3>1, Places
  <2>4. j = Tops + 1 => d <= 1
    <3>. SUFFICES ASSUME j = Tops + 1 PROVE d <= 1
      OBVIOUS
    <3>1. p = Power(Base, Tops) /\ value < p * 2
      BY <1>1, <1>2, <2>3
    <3>. HIDE DEF p
    <3>2. value \div p < 2 /\ value \div p \in Nat
      BY <1>2, <2>3, <3>1, QuotientBelow, Divided
    <3>. DEFINE q == value \div p
    <3>3. q \in Nat /\ q < 2 /\ Base \in Nat /\ Base >= 4
      BY <3>2, DigitBase
    <3>. HIDE DEF q
    <3>4. q % Base = q
      BY <3>3
    <3>. QED
      BY <3>3, <3>4 DEF q
  <2>5. j = n => j = 1 \/ d # 0
    <3>. SUFFICES ASSUME j = n, j # 1 PROVE d # 0
      OBVIOUS
    <3>1. p <= value /\ value < p * Base
      <4>1. n \in Nat \ {0}
        BY <1>5
      <4>2. Power(Base, n) = Base * p
        BY <4>1, Places
      <4>. QED
        BY <1>3, <2>3, <4>2, DigitBase
    <3>. HIDE DEF p
    <3>. DEFINE q == value \div p
    <3>2. q < Base /\ q \in Nat /\ ~(q < 1) /\ Base \in Nat /\ Base >= 4
      <4>1. q < Base <=> value < p * Base
        BY <1>2, <2>3, QuotientBelow, DigitBase
      <4>2. q < 1 <=> value < p * 1
        BY <1>2, <2>3, QuotientBelow
      <4>3. q \in Nat
        BY <1>2, <2>3, Divided
      <4>. QED
        BY <1>2, <2>3, <3>1, <4>1, <4>2, <4>3, DigitBase
    <3>. HIDE DEF q
    <3>3. q % Base = q
      BY <3>2
    <3>. QED
      BY <3>2, <3>3 DEF q
  <2>. HIDE DEF d
  <2>6. /\ j <= Tops + 1 /\ (j = Tops + 1 => s[j].n <= 1)
        /\ s[j].more => j <= Tops
        /\ ~s[j].more => j = 1 \/ s[j].n # 0
    BY <1>1, <1>5, <2>2, <2>3, <2>4, <2>5
  <2>. QED
    BY <2>1, <2>2, <2>3, <2>6, DigitOkIs
<1>. QED
  BY <1>5, <1>6 DEF w

(* What is read is written so, and what is written is read.                *)
LEMMA VarintsCanonical ==
    ASSUME varint \in Seq(VarintDigit) PROVE VarintsAreCanonical
<1>. SUFFICES ASSUME varint # <<>> PROVE VarintsAreCanonical
  BY DEF VarintsAreCanonical
<1>. DEFINE r == ReadVarint(varint)
            Starts(value) == /\ Len(Varints[value]) <= Len(varint)
                             /\ SubSeq(varint, 1, Len(Varints[value])) = Varints[value]
<1>1. /\ DOMAIN Varints = 0 .. Power(2, Width) - 1
      /\ \A value \in DOMAIN Varints : Varints[value] = WriteVarint(value)
  BY DEF Varints
<1>2. ASSUME NEW value \in DOMAIN Varints, Starts(value) PROVE r.ok
  <2>. DEFINE w == WriteVarint(value)
  <2>1. VarintEnds(varint, Len(w)) /\ Len(w) \in 1 .. Len(varint)
    BY <1>1, <1>2, WrittenEnds
  <2>. QED
    BY <2>1, VarintIsRead
<1>3. ASSUME r.ok
      PROVE  /\ r.value \in DOMAIN Varints /\ Starts(r.value)
             /\ r.next = Len(Varints[r.value]) + 1
  <2>1. PICK i \in 1 .. Len(varint) : VarintEnds(varint, i)
    BY <1>3, VarintIsRead
  <2>2. r.value = VarintUpTo(varint, i) /\ r.next = i + 1
    BY <2>1, VarintIsRead
  <2>3. /\ r.value \in DOMAIN Varints /\ Varints[r.value] = SubSeq(varint, 1, i)
    BY <1>1, <2>1, <2>2, ReadIsWritten
  <2>4. Len(SubSeq(varint, 1, i)) = i
    OBVIOUS
  <2>. QED
    BY <2>2, <2>3, <2>4
<1>. HIDE DEF r, Starts
<1>4. /\ r.ok <=> \E value \in DOMAIN Varints : Starts(value)
      /\ r.ok => /\ r.value \in DOMAIN Varints /\ Starts(r.value)
                 /\ r.next = Len(Varints[r.value]) + 1
  <2>1. r.ok \in BOOLEAN
    <3>1. r.ok = TRUE \/ r.ok = FALSE
      BY Zenon DEF r, ReadVarint, Overlong
    <3>. QED
      BY <3>1
  <2>. QED
    BY <1>2, <1>3, <2>1
<1>. QED
  BY <1>4 DEF VarintsAreCanonical, r, Starts
-----------------------------------------------------------------------------
(* VInts are exact.                                                        *)

\* A VInt ends at the i-th digit, and what that one says and may say.
VIntEnds(s, i) == i <= MaxVIntDigits /\ \A j \in 1 .. i : s[j].more <=> j < i

Final(s, i) == s[i].n % FinalBase

RoomAt(i) == IF i = MaxVIntDigits THEN 2 ELSE FinalBase

\* What a VInt that ends at the i-th digit says.
VIntAt(s, i) == [ok |-> TRUE, value |-> VIntUpTo(s, i - 1) * RoomAt(i) + Final(s, i), next |-> i + 1]

(* read_vint stops where the VInt ends.                                    *)
LEMMA VIntIsRead ==
    ASSUME NEW s \in Seq(VarintDigit)
    PROVE  /\ ReadVInt(s).ok => \E i \in 1 .. Len(s) : VIntEnds(s, i)
           /\ \A i \in 1 .. Len(s) : VIntEnds(s, i) =>
                 ReadVInt(s) = IF Final(s, i) >= RoomAt(i) THEN Overlong ELSE VIntAt(s, i)
<1>. DEFINE last == CHOOSE i \in DOMAIN s : VIntEnds(s, i)
<1>1. DOMAIN s = 1 .. Len(s) /\ Len(s) \in Nat
  OBVIOUS
<1>2. ReadVInt(s) = IF (\A i \in DOMAIN s : ~VIntEnds(s, i)) \/ Final(s, last) >= RoomAt(last)
                   THEN Overlong ELSE VIntAt(s, last)
  BY Zenon DEF ReadVInt, VIntEnds, VIntAt, Final, RoomAt
<1>3. ReadVInt(s).ok => \E i \in 1 .. Len(s) : VIntEnds(s, i)
  BY <1>1, <1>2 DEF Overlong
<1>4. ASSUME NEW i \in 1 .. Len(s), VIntEnds(s, i)
      PROVE  ReadVInt(s) = IF Final(s, i) >= RoomAt(i) THEN Overlong ELSE VIntAt(s, i)
  <2>1. last \in 1 .. Len(s) /\ VIntEnds(s, last)
    BY <1>1, <1>4, Zenon
  <2>. HIDE DEF last
  <2>2. ~(last < i) /\ ~(i < last)
    <3>1. \A j \in 1 .. i : s[j].more <=> j < i
      BY <1>4 DEF VIntEnds
    <3>2. \A j \in 1 .. last : s[j].more <=> j < last
      BY <2>1 DEF VIntEnds
    <3>. QED
      BY <2>1, <3>1, <3>2
  <2>3. last = i
    BY <2>1, <2>2
  <2>. QED
    BY <1>1, <1>2, <1>4, <2>3, Zenon
<1>. QED
  BY <1>3, <1>4

(* What k digits amount to has room in k digits, whichever comes first.    *)
LEMMA HighValuesFit ==
    ASSUME NEW s, NEW n \in Nat, \A k \in 1 .. n : s[k] \in VarintDigit
    PROVE  \A k \in 0 .. n : VIntUpTo(s, k) \in 0 .. Power(Base, k) - 1
<1>1. /\ VIntUpTo(s, 0) = 0 /\ \A k \in 0 .. n : VIntUpTo(s, k) \in Nat
      /\ \A k \in 1 .. n : VIntUpTo(s, k) = VIntUpTo(s, k - 1) * Base + s[k].n
  <2>1. \A k \in 1 .. n : s[k].n \in Nat
    BY DigitIs
  <2>. QED
    BY <2>1, VIntUpToIs
<1>. DEFINE T == {k \in 0 .. n : VIntUpTo(s, k) \in 0 .. Power(Base, k) - 1}
<1>2. \A k \in 0 .. n : (\A j \in 0 .. k - 1 : j \in T) => k \in T
  <2>. SUFFICES ASSUME NEW k \in 0 .. n, \A j \in 0 .. k - 1 : j \in T PROVE k \in T
    OBVIOUS
  <2>1. CASE k = 0
    BY <1>1, <2>1, Places
  <2>2. CASE k # 0
    <3>. DEFINE v == VIntUpTo(s, k - 1)
                p == Power(Base, k - 1)
                d == s[k].n
    <3>1. k \in 1 .. n /\ k - 1 \in 0 .. k - 1 /\ k \in Nat \ {0} /\ k - 1 \in Nat
      BY <2>2
    <3>2. v \in 0 .. p - 1 /\ p \in Nat /\ d \in 0 .. Base - 1 /\ Base \in Nat
      BY <3>1, DigitBase, DigitIs
    <3>3. VIntUpTo(s, k) = v * Base + d /\ Power(Base, k) = Base * p
      BY <1>1, <3>1, Places
    <3>. HIDE DEF v, p, d
    <3>4. v * Base + d \in 0 .. Base * p - 1
      <4>1. (p - 1 - v) * Base >= 0 /\ v * Base >= 0
        BY <3>2
      <4>2. (p - 1 - v) * Base = Base * p - Base - v * Base
        BY <3>2
      <4>3. v * Base \in Nat /\ Base * p \in Nat
        BY <3>2
      <4>. QED
        BY <3>2, <4>1, <4>2, <4>3
    <3>. QED
      BY <3>3, <3>4
  <2>. QED
    BY <2>1, <2>2
<1>. HIDE DEF T
<1>3. \A k \in 0 .. n : k \in T
  BY <1>2, FromTheStart
<1>. QED
  BY <1>3 DEF T

(* Division by a product, one factor after the other.                      *)
LEMMA QuotientTwice ==
    ASSUME NEW p \in Nat, p >= 1, NEW b \in Nat, b >= 1, NEW x \in Nat
    PROVE  x \div (b * p) = (x \div p) \div b
<1>. DEFINE q == x \div p
            m == x % p
            u == q \div b
            r == q % b
<1>1. x = p * q + m /\ m \in 0 .. p - 1 /\ q \in Nat
  BY Divided
<1>. HIDE DEF q, m
<1>2. q = b * u + r /\ r \in 0 .. b - 1 /\ u \in Nat
  BY <1>1, Divided
<1>. HIDE DEF u, r
<1>. DEFINE w == b * p
            a == p * r + m
<1>3. w \in Nat /\ w >= 1 /\ a \in Nat /\ x = a + w * u
  <2>1. w \in Nat /\ a \in Nat
    BY <1>1, <1>2
  <2>2. w >= 1
    OBVIOUS
  <2>3. p * (b * u + r) = b * p * u + p * r
    BY <1>1, <1>2
  <2>. QED
    BY <1>1, <1>2, <2>1, <2>2, <2>3
<1>4. a < w
  <2>1. p * (b - 1 - r) >= 0
    BY <1>2
  <2>2. p * (b - 1 - r) = b * p - p - p * r
    BY <1>2
  <2>. QED
    BY <1>1, <1>2, <2>1, <2>2
<1>5. a \in 0 .. w - 1
  BY <1>3, <1>4
<1>. HIDE DEF w, a
<1>6. x \div w = u
  BY <1>2, <1>3, <1>5, Quotient
<1>. QED
  BY <1>6 DEF w, u, q

(* The digits of a value amount to it.                                     *)
LEMMA DigitsAmount ==
    ASSUME NEW value \in Nat, NEW n \in Nat, value < Power(Base, n), NEW s,
           \A k \in 1 .. n : s[k].n = (value \div Power(Base, n - k)) % Base
    PROVE  VIntUpTo(s, n) = value
<1>1. \A k \in 0 .. n : n - k \in Nat /\ Power(Base, n - k) \in Nat /\ Power(Base, n - k) >= 1
  BY Places
<1>2. \A k \in 0 .. n : value \div Power(Base, n - k) \in Nat
  BY <1>1, Divided
<1>3. ASSUME NEW k \in 1 .. n
      PROVE  /\ s[k].n \in Nat
             /\ value \div Power(Base, n - k) = (value \div Power(Base, n - (k - 1))) * Base + s[k].n
  <2>. DEFINE p == Power(Base, n - k)
              q == value \div p
  <2>1. p \in Nat /\ p >= 1 /\ q \in Nat /\ Base \in Nat /\ Base >= 1
    BY <1>1, <1>2, DigitBase
  <2>2. Power(Base, n - (k - 1)) = Base * p
    <3>. DEFINE j == n - (k - 1)
    <3>1. j \in Nat \ {0} /\ j - 1 = n - k
      OBVIOUS
    <3>. HIDE DEF j
    <3>2. Power(Base, j) = Base * Power(Base, j - 1)
      BY <3>1, Places
    <3>. QED
      BY <3>1, <3>2 DEF j
  <2>. HIDE DEF p
  <2>3. value \div (Base * p) = q \div Base
    BY <2>1, QuotientTwice
  <2>. HIDE DEF q
  <2>4. q = Base * (q \div Base) + (q % Base) /\ q % Base \in 0 .. Base - 1 /\ q \div Base \in Nat
    BY <2>1, Divided
  <2>5. s[k].n = q % Base
    BY DEF q, p
  <2>6. s[k].n \in Nat /\ q = (q \div Base) * Base + s[k].n
    BY <2>1, <2>4, <2>5
  <2>. QED
    BY <2>2, <2>3, <2>6 DEF q, p
<1>4. /\ VIntUpTo(s, 0) = 0
      /\ \A k \in 1 .. n : VIntUpTo(s, k) = VIntUpTo(s, k - 1) * Base + s[k].n
  BY <1>3, VIntUpToIs
<1>. DEFINE f == [k \in 0 .. n |-> VIntUpTo(s, k)]
            g == [k \in 0 .. n |-> value \div Power(Base, n - k)]
<1>5. f[0] = g[0]
  <2>. DEFINE p == Power(Base, n)
  <2>1. p \in Nat /\ p >= 1 /\ value \in 0 .. p - 1
    BY Places
  <2>2. g[0] = value \div p
    <3>1. n - 0 = n
      OBVIOUS
    <3>. QED
      BY <3>1
  <2>. HIDE DEF p, g
  <2>3. value \div p < 1 /\ value \div p \in Nat
    <3>1. value < p * 1
      BY <2>1
    <3>. QED
      BY <2>1, <3>1, QuotientBelow, Divided
  <2>. QED
    BY <1>4, <2>2, <2>3
<1>6. ASSUME NEW k \in 1 .. n, f[k - 1] = g[k - 1] PROVE f[k] = g[k]
  <2>1. /\ k \in 0 .. n /\ k - 1 \in 0 .. n
        /\ VIntUpTo(s, k - 1) = value \div Power(Base, n - (k - 1))
    BY <1>6
  <2>2. VIntUpTo(s, k) = value \div Power(Base, n - k)
    BY <1>3, <1>4, <2>1
  <2>. QED
    BY <2>1, <2>2
<1>7. \A k \in 0 .. n : f[k] = g[k]
  <2>. HIDE DEF f, g
  <2>1. Alike(n, f, g)
    BY <1>5, <1>6, CountedOnce DEF InStep
  <2>. QED
    BY <2>1 DEF Alike
<1>8. VIntUpTo(s, n) = value \div 1
  <2>1. f[n] = g[n] /\ n - n = 0
    BY <1>7
  <2>. QED
    BY <2>1, Places
<1>. QED
  BY <1>8

(* A value has no more digits than it needs.                               *)
LEMMA DigitCountIs ==
    ASSUME NEW value \in Nat, NEW top \in 0 .. Width, value < Power(Base, top)
    PROVE  DigitCount(value) \in 0 .. top /\ value < Power(Base, DigitCount(value))
<1>. DEFINE T == {n \in 0 .. top : value < Power(Base, n)}
            K == {k \in 0 .. Width : Power(Base, k) <= value}
<1>1. T \in SUBSET Nat /\ top \in T /\ Width \in Nat
  BY VarintAssumption
<1>. HIDE DEF T
<1>2. PICK n \in T : \A k \in T : n <= k
  BY <1>1, NatMinimum
<1>3. n \in 0 .. top /\ n \in Nat /\ value < Power(Base, n)
  BY <1>2 DEF T
<1>4. K = 0 .. n - 1
  <2>1. ASSUME NEW k \in 0 .. n - 1 PROVE k \in K
    <3>1. k \in 0 .. Width /\ k \in 0 .. top /\ k \notin T
      BY <1>1, <1>2, <1>3
    <3>2. ~(value < Power(Base, k)) /\ Power(Base, k) \in Nat
      BY <3>1, Places DEF T
    <3>. QED
      BY <3>1, <3>2
  <2>2. ASSUME NEW k \in K PROVE k \in 0 .. n - 1
    <3>1. k \in Nat /\ Power(Base, k) <= value /\ Power(Base, k) \in Nat
      BY Places
    <3>2. CASE k >= n
      <4>1. k = n \/ n \in 0 .. k - 1
        BY <1>3, <3>1, <3>2
      <4>2. Power(Base, n) \in Nat /\ \A j \in 0 .. k - 1 : Power(Base, j) < Power(Base, k)
        BY <1>3, <3>1, PowersGrow, DigitBase
      <4>3. Power(Base, n) <= Power(Base, k)
        BY <3>1, <4>1, <4>2
      <4>. QED
        BY <1>3, <3>1, <4>2, <4>3
    <3>. QED
      BY <1>3, <3>1, <3>2
  <2>. QED
    BY <2>1, <2>2
<1>. HIDE DEF K
<1>5. Cardinality(K) = n
  <2>. DEFINE m == n - 1
  <2>1. m \in Int /\ n = m + 1 /\ K = 0 .. m /\ m >= -1
    BY <1>3, <1>4
  <2>. HIDE DEF m
  <2>2. Cardinality(0 .. m) = IF 0 > m THEN 0 ELSE m - 0 + 1
    BY <2>1, FS_Interval
  <2>. QED
    BY <2>1, <2>2
<1>6. DigitCount(value) = n
  BY <1>5 DEF DigitCount, K
<1>. QED
  BY <1>3, <1>6
\* A sequence and one element more.
LEMMA OneMore ==
    ASSUME NEW T, NEW d \in Seq(T), NEW e \in T
    PROVE  LET w == d \o <<e>>
           IN  /\ w \in Seq(T) /\ Len(w) = Len(d) + 1
               /\ \A i \in 1 .. Len(d) : w[i] = d[i]
               /\ w[Len(d) + 1] = e
<1>. DEFINE w == d \o <<e>>
<1>1. <<e>> \in Seq(T) /\ Len(<<e>>) = 1 /\ <<e>>[1] = e /\ Len(d) \in Nat
  OBVIOUS
<1>2. w \in Seq(T) /\ Len(w) = Len(d) + 1
  BY <1>1
<1>3. \A i \in 1 .. Len(d) : w[i] = d[i]
  BY <1>1
<1>4. w[Len(d) + 1] = e
  BY <1>1
<1>. QED
  BY <1>2, <1>3, <1>4

(* Digits before a last one read back as what they are of.                 *)
LEMMA WrittenVIntIsRead ==
    ASSUME NEW u \in Nat, NEW n \in 0 .. Tops, u < Power(Base, n),
           NEW f \in Nat, f < RoomAt(n + 1)
    PROVE  LET w == DigitsOf(u, n) \o <<Digit(f, FALSE)>>
           IN  /\ Len(w) = n + 1
               /\ ReadVInt(w) = [ok |-> TRUE, value |-> u * RoomAt(n + 1) + f, next |-> n + 2]
<1>. DEFINE d == DigitsOf(u, n)
            w == d \o <<Digit(f, FALSE)>>
            D(i) == Digit((u \div Power(Base, n - i)) % Base, TRUE)
<1>1. n \in Nat /\ n + 1 \in Nat /\ Tops \in Nat /\ MaxVIntDigits = Tops + 1
  <2>1. Tops \in Nat /\ MaxVIntDigits = Tops + 1
    BY DigitRoom
  <2>. QED
    BY <2>1
<1>2. /\ RoomAt(n + 1) \in Nat /\ RoomAt(n + 1) <= FinalBase
      /\ FinalBase \in Nat /\ FinalBase < Base /\ Base \in Nat
  BY <1>1, DigitBase DEF RoomAt
<1>3. f \in 0 .. Base - 1 /\ f < FinalBase
  BY <1>2
<1>4. Digit(f, FALSE) \in VarintDigit
  BY <1>3 DEF Digit, VarintDigit
<1>5. \A i \in 1 .. n : D(i) \in VarintDigit
  <2>. SUFFICES ASSUME NEW i \in 1 .. n PROVE D(i) \in VarintDigit
    OBVIOUS
  <2>. DEFINE p == Power(Base, n - i)
              q == u \div p
  <2>1. n - i \in Nat
    BY <1>1
  <2>2. p \in Nat /\ p >= 1
    BY <2>1, Places
  <2>. HIDE DEF p
  <2>3. q \in Nat
    BY <2>2, Divided
  <2>. HIDE DEF q
  <2>4. q % Base \in 0 .. Base - 1
    <3>1. Base \in Nat /\ Base >= 1
      BY DigitBase
    <3>. QED
      BY <2>3, <3>1, Divided
  <2>5. Digit(q % Base, TRUE) \in VarintDigit
    BY <2>4 DEF Digit, VarintDigit
  <2>. QED
    BY <2>5 DEF q, p
<1>6. d = [i \in 1 .. n |-> D(i)]
  BY DEF DigitsOf
<1>. HIDE DEF D
<1>7. d \in Seq(VarintDigit) /\ Len(d) = n /\ \A i \in 1 .. n : d[i] = D(i)
  <2>1. d \in [1 .. n -> VarintDigit]
    BY <1>5, <1>6
  <2>. HIDE DEF d
  <2>. QED
    BY <1>1, <1>6, <2>1
<1>. HIDE DEF d
<1>8. /\ w \in Seq(VarintDigit) /\ Len(w) = n + 1
      /\ \A i \in 1 .. n : w[i] = D(i)
      /\ w[n + 1] = Digit(f, FALSE)
  <2>. DEFINE e == Digit(f, FALSE)
  <2>1. e \in VarintDigit /\ w = d \o <<e>>
    BY <1>4 DEF d
  <2>. HIDE DEF e
  <2>2. /\ w \in Seq(VarintDigit) /\ Len(w) = Len(d) + 1
        /\ \A i \in 1 .. Len(d) : w[i] = d[i]
        /\ w[Len(d) + 1] = e
    <3>. DEFINE T == VarintDigit
                x == d \o <<e>>
    <3>1. d \in Seq(T) /\ e \in T /\ w = x
      BY <1>7, <2>1
    <3>. HIDE DEF T, w
    <3>2. /\ x \in Seq(T) /\ Len(x) = Len(d) + 1
          /\ \A i \in 1 .. Len(d) : x[i] = d[i]
          /\ x[Len(d) + 1] = e
      BY <3>1, OneMore
    <3>. QED
      BY <3>1, <3>2 DEF T
  <2>. QED
    BY <1>7, <2>2 DEF e
<1>. HIDE DEF w
<1>9. \A i \in 1 .. n : w[i].n = (u \div Power(Base, n - i)) % Base /\ w[i].more = TRUE
  <2>. SUFFICES ASSUME NEW i \in 1 .. n
                PROVE  w[i].n = (u \div Power(Base, n - i)) % Base /\ w[i].more = TRUE
    OBVIOUS
  <2>. DEFINE x == (u \div Power(Base, n - i)) % Base
  <2>1. w[i] = Digit(x, TRUE)
    BY <1>8 DEF D
  <2>. HIDE DEF x
  <2>2. w[i].n = x /\ w[i].more = TRUE
    BY <2>1, DigitParts
  <2>. QED
    BY <2>2 DEF x
<1>last. w[n + 1].n = f /\ w[n + 1].more = FALSE
  <2>. DEFINE x == w[n + 1]
  <2>1. x = Digit(f, FALSE)
    BY <1>8
  <2>. HIDE DEF x
  <2>2. x.n = f /\ x.more = FALSE
    BY <2>1, DigitParts
  <2>. QED
    BY <2>2 DEF x
<1>10. VIntEnds(w, n + 1)
  <2>1. ASSUME NEW j \in 1 .. n + 1 PROVE w[j].more <=> j < n + 1
    <3>1. \A i \in 1 .. n : w[i].more = TRUE
      BY <1>9
    <3>2. w[n + 1].more = FALSE
      BY <1>last
    <3>3. CASE j \in 1 .. n
      <4>1. w[j].more = TRUE /\ j < n + 1
        BY <1>1, <3>1, <3>3
      <4>. QED
        BY <4>1
    <3>4. CASE j = n + 1
      <4>1. w[j].more = FALSE /\ ~(j < n + 1)
        BY <1>1, <3>2, <3>4
      <4>. QED
        BY <4>1
    <3>. QED
      BY <1>1, <3>3, <3>4
  <2>2. n + 1 <= MaxVIntDigits
    BY <1>1
  <2>. QED
    BY <2>1, <2>2 DEF VIntEnds
<1>11. VIntUpTo(w, n) = u
  BY <1>1, <1>9, DigitsAmount
<1>12. Final(w, n + 1) = f
  <2>1. f \in Nat /\ FinalBase \in Nat /\ FinalBase >= 2 /\ f < FinalBase
    BY <1>3, DigitBase
  <2>2. f % FinalBase = f
    BY <2>1
  <2>. QED
    BY <1>last, <2>2 DEF Final
<1>13. (n + 1) - 1 = n /\ (n + 1) + 1 = n + 2 /\ n + 1 \in 1 .. Len(w)
  BY <1>1, <1>8
<1>14. ReadVInt(w) = VIntAt(w, n + 1)
  <2>1. ReadVInt(w) = IF Final(w, n + 1) >= RoomAt(n + 1) THEN Overlong ELSE VIntAt(w, n + 1)
    BY <1>8, <1>10, <1>13, VIntIsRead
  <2>2. ~(Final(w, n + 1) >= RoomAt(n + 1))
    BY <1>2, <1>12
  <2>. QED
    BY <2>1, <2>2
<1>15. VIntAt(w, n + 1) = [ok |-> TRUE, value |-> u * RoomAt(n + 1) + f, next |-> n + 2]
  BY <1>11, <1>12, <1>13 DEF VIntAt
<1>. QED
  BY <1>8, <1>14, <1>15 DEF w, d

(* Every value of the width is written so, in no more digits than it needs *)
(* behind the last.                                                        *)
LEMMA VIntIsWritten ==
    ASSUME NEW value \in 0 .. Power(2, Width) - 1
    PROVE  LET w == WriteVInt(value)
           IN  /\ Len(w) \in 1 .. Tops + 1
               /\ ReadVInt(w) = [ok |-> TRUE, value |-> value, next |-> Len(w) + 1]
               /\ \A i \in 1 .. Tops : value < Power(Base, i - 1) * FinalBase => Len(w) <= i
<1>. DEFINE w == WriteVInt(value)
            half == Power(2, Width - 2)
<1>1. /\ Tops \in Nat /\ Tops >= 1 /\ Tops < Width /\ Width \in Nat
      /\ MaxVIntDigits = Tops + 1
      /\ half = Power(Base, Tops - 1) * FinalBase
      /\ Power(2, Width) = 2 * Power(Base, Tops)
  BY DigitRoom, VarintAssumption
<1>2. /\ \A k \in 1 .. Tops : k - 1 \in Nat /\ Power(Base, k - 1) \in Nat /\ Power(Base, k - 1) >= 1
      /\ Power(Base, Tops) \in Nat
  BY <1>1, Places
<1>3. FinalBase \in Nat /\ FinalBase >= 2
  BY DigitBase
<1>4. half \in Nat /\ half >= 1 /\ value \in Nat /\ value < 2 * Power(Base, Tops)
  <2>1. Power(Base, Tops - 1) \in Nat /\ Power(Base, Tops - 1) >= 1
    BY <1>1, <1>2
  <2>. DEFINE p == Power(Base, Tops - 1)
  <2>. HIDE DEF p
  <2>2. p * FinalBase \in Nat /\ p * FinalBase >= 1
    BY <1>3, <2>1 DEF p
  <2>3. value \in Nat /\ value < 2 * Power(Base, Tops)
    BY <1>1, <1>2
  <2>. QED
    BY <1>1, <2>2, <2>3 DEF p
<1>5. \A i \in 1 .. Tops : Power(Base, i - 1) * FinalBase <= half
  <2>. SUFFICES ASSUME NEW i \in 1 .. Tops PROVE Power(Base, i - 1) * FinalBase <= half
    OBVIOUS
  <2>1. /\ Power(Base, i - 1) \in Nat /\ Power(Base, Tops - 1) \in Nat
        /\ i - 1 = Tops - 1 \/ i - 1 \in 0 .. (Tops - 1) - 1
        /\ Tops - 1 \in Nat
    BY <1>1, <1>2
  <2>2. Power(Base, i - 1) <= Power(Base, Tops - 1)
    <3>1. \A k \in 0 .. (Tops - 1) - 1 : Power(Base, k) < Power(Base, Tops - 1)
      BY <2>1, PowersGrow, DigitBase
    <3>. QED
      BY <2>1, <3>1
  <2>. DEFINE p == Power(Base, i - 1)
              q == Power(Base, Tops - 1)
  <2>3. p \in Nat /\ q \in Nat /\ p <= q
    BY <2>1, <2>2
  <2>. HIDE DEF p, q, half
  <2>4. p * FinalBase <= q * FinalBase
    <3>1. (q - p) * FinalBase >= 0
      BY <1>3, <2>3
    <3>2. (q - p) * FinalBase = q * FinalBase - p * FinalBase
      BY <1>3, <2>3
    <3>. QED
      BY <1>3, <2>3, <3>1, <3>2
  <2>. QED
    BY <1>1, <2>4 DEF p, q
<1>. HIDE DEF half
<1>6. (value \div half # 0) <=> ~(value < half)
  <2>1. value \div half \in Nat
    BY <1>4, Divided
  <2>2. value \div half < 1 <=> value < half * 1
    BY <1>4, QuotientBelow
  <2>. QED
    BY <1>4, <2>1, <2>2
<1>7. CASE ~(value < half)
  <2>. DEFINE u == value \div 2
              f == value % 2
  <2>1. u \in Nat /\ f \in Nat /\ f < 2 /\ value = u * 2 + f /\ u < Power(Base, Tops)
    BY <1>2, <1>4
  <2>2. w = DigitsOf(u, Tops) \o <<Digit(f, FALSE)>>
    <3>1. MaxVIntDigits - 1 = Tops
      BY <1>1
    <3>. QED
      BY <1>6, <1>7, <3>1 DEF WriteVInt, half
  <2>. HIDE DEF u, f, w
  <2>3. RoomAt(Tops + 1) = 2 /\ Tops \in 0 .. Tops /\ f < RoomAt(Tops + 1)
    BY <1>1, <2>1 DEF RoomAt
  <2>4. Len(w) = Tops + 1 /\ ReadVInt(w) = [ok |-> TRUE, value |-> u * 2 + f, next |-> Tops + 2]
    <3>1. /\ Len(w) = Tops + 1
          /\ ReadVInt(w) = [ok |-> TRUE, value |-> u * RoomAt(Tops + 1) + f, next |-> Tops + 2]
      BY <2>1, <2>2, <2>3, WrittenVIntIsRead
    <3>. QED
      BY <2>3, <3>1
  <2>5. \A i \in 1 .. Tops : ~(value < Power(Base, i - 1) * FinalBase)
    <3>. SUFFICES ASSUME NEW i \in 1 .. Tops, value < Power(Base, i - 1) * FinalBase PROVE FALSE
      OBVIOUS
    <3>. DEFINE x == Power(Base, i - 1) * FinalBase
    <3>1. Power(Base, i - 1) \in Nat
      BY <1>2
    <3>2. x \in Nat /\ x <= half /\ value < x
      BY <1>3, <1>5, <3>1
    <3>. HIDE DEF x
    <3>. QED
      BY <1>4, <1>7, <3>2
  <2>6. Len(w) \in 1 .. Tops + 1 /\ Len(w) + 1 = Tops + 2
    BY <1>1, <2>4
  <2>7. ReadVInt(w) = [ok |-> TRUE, value |-> value, next |-> Len(w) + 1]
    BY <2>1, <2>4, <2>6
  <2>. QED
    BY <2>5, <2>6, <2>7 DEF w
<1>8. CASE value < half
  <2>. DEFINE u == value \div FinalBase
              f == value % FinalBase
              n == DigitCount(u)
  <2>1. u \in Nat /\ f \in Nat /\ f < FinalBase /\ value = u * FinalBase + f
    <3>1. value = FinalBase * u + f /\ f \in 0 .. FinalBase - 1 /\ u \in Nat
      <4>1. FinalBase \in Nat /\ FinalBase >= 1
        BY <1>3
      <4>. QED
        BY <1>4, <4>1, Divided
    <3>. HIDE DEF u, f
    <3>. QED
      BY <1>3, <3>1
  <2>2. w = DigitsOf(u, n) \o <<Digit(f, FALSE)>>
    BY <1>6, <1>8 DEF WriteVInt, WriteVIntOneWay, half
  <2>3. \A i \in 1 .. Tops : value < Power(Base, i - 1) * FinalBase => u < Power(Base, i - 1)
    <3>. SUFFICES ASSUME NEW i \in 1 .. Tops, value < Power(Base, i - 1) * FinalBase
                  PROVE  u < Power(Base, i - 1)
      OBVIOUS
    <3>. DEFINE p == Power(Base, i - 1)
    <3>1. p \in Nat /\ value < FinalBase * p
      <4>1. p \in Nat
        BY <1>2
      <4>. QED
        BY <1>3, <4>1
    <3>. HIDE DEF p
    <3>2. u < p
      BY <1>3, <1>4, <3>1, QuotientBelow
    <3>. QED
      BY <3>2 DEF p
  <2>. HIDE DEF u, f, w, n
  <2>4. \A i \in 1 .. Tops : u < Power(Base, i - 1) => n \in 0 .. i - 1 /\ u < Power(Base, n)
    <3>. SUFFICES ASSUME NEW i \in 1 .. Tops, u < Power(Base, i - 1)
                  PROVE  n \in 0 .. i - 1 /\ u < Power(Base, n)
      OBVIOUS
    <3>. DEFINE top == i - 1
    <3>1. top \in 0 .. Width
      BY <1>1
    <3>2. u < Power(Base, top)
      OBVIOUS
    <3>. HIDE DEF top
    <3>3. n \in 0 .. top /\ u < Power(Base, n)
      BY <2>1, <3>1, <3>2, DigitCountIs DEF n
    <3>. QED
      BY <3>3 DEF top
  <2>5. n \in 0 .. Tops - 1 /\ u < Power(Base, n)
    <3>1. Tops \in 1 .. Tops /\ value < Power(Base, Tops - 1) * FinalBase
      BY <1>1, <1>8
    <3>. QED
      BY <2>3, <2>4, <3>1
  <2>6. RoomAt(n + 1) = FinalBase /\ n \in 0 .. Tops /\ n + 1 \in 1 .. Tops
    BY <1>1, <2>5 DEF RoomAt
  <2>7. Len(w) = n + 1 /\ ReadVInt(w) = [ok |-> TRUE, value |-> u * FinalBase + f, next |-> n + 2]
    BY <2>1, <2>2, <2>5, <2>6, WrittenVIntIsRead
  <2>8. \A i \in 1 .. Tops : value < Power(Base, i - 1) * FinalBase => Len(w) <= i
    <3>. SUFFICES ASSUME NEW i \in 1 .. Tops, value < Power(Base, i - 1) * FinalBase
                  PROVE  Len(w) <= i
      OBVIOUS
    <3>1. n \in 0 .. i - 1
      BY <2>3, <2>4
    <3>. QED
      BY <1>1, <2>7, <3>1
  <2>9. Len(w) \in 1 .. Tops + 1 /\ Len(w) + 1 = n + 2
    BY <1>1, <2>6, <2>7
  <2>. QED
    BY <2>1, <2>7, <2>8, <2>9 DEF w
<1>. QED
  BY <1>7, <1>8

(* Whatever is read is a value of the width, and not shorter than it is    *)
(* written.                                                                *)
LEMMA ReadVIntFits ==
    ASSUME NEW s \in Seq(VarintDigit), ReadVInt(s).ok
    PROVE  LET r == ReadVInt(s)
           IN  /\ r.value \in 0 .. Power(2, Width) - 1
               /\ Len(WriteVInt(r.value)) <= r.next - 1
<1>. DEFINE r == ReadVInt(s)
<1>1. PICK i \in 1 .. Len(s) : VIntEnds(s, i)
  BY VIntIsRead
<1>2. r = VIntAt(s, i) /\ ~(Final(s, i) >= RoomAt(i))
  <2>1. r = IF Final(s, i) >= RoomAt(i) THEN Overlong ELSE VIntAt(s, i)
    BY <1>1, VIntIsRead
  <2>2. r.ok /\ ~Overlong.ok
    BY DEF Overlong
  <2>. QED
    BY <2>1, <2>2
<1>. DEFINE u == VIntUpTo(s, i - 1)
            f == Final(s, i)
            room == RoomAt(i)
            p == Power(Base, i - 1)
<1>3. r.value = u * room + f /\ r.next = i + 1
  BY <1>2 DEF VIntAt
<1>4. /\ Tops \in Nat /\ Tops >= 1 /\ MaxVIntDigits = Tops + 1 /\ i \in 1 .. Tops + 1
      /\ i \in Nat /\ i - 1 \in Nat
      /\ room = IF i = Tops + 1 THEN 2 ELSE FinalBase
      /\ FinalBase \in Nat /\ FinalBase >= 2
  <2>1. Tops \in Nat /\ Tops >= 1 /\ MaxVIntDigits = Tops + 1
    BY DigitRoom
  <2>2. i \in Nat /\ i >= 1 /\ i <= MaxVIntDigits
    BY <1>1 DEF VIntEnds
  <2>. QED
    BY <2>1, <2>2, DigitBase DEF RoomAt
<1>5. u \in 0 .. p - 1 /\ p \in Nat /\ u \in Nat
  <2>1. \A k \in 1 .. i : s[k] \in VarintDigit
    OBVIOUS
  <2>2. \A k \in 0 .. i : VIntUpTo(s, k) \in 0 .. Power(Base, k) - 1
    BY <1>4, <2>1, HighValuesFit
  <2>3. p \in Nat
    BY <1>4, Places
  <2>. QED
    BY <1>4, <2>2, <2>3
<1>6. f \in Nat /\ f < room /\ room \in Nat
  <2>. DEFINE d == s[i].n
  <2>1. d \in Nat
    BY DigitIs
  <2>. HIDE DEF d
  <2>2. d % FinalBase \in Nat
    BY <1>4, <2>1
  <2>3. f \in Nat
    BY <2>2 DEF Final, d
  <2>4. room \in Nat
    BY <1>4
  <2>. HIDE DEF f, room
  <2>. QED
    BY <1>2, <2>3, <2>4 DEF f, room
<1>. DEFINE v == u * room + f
<1>. HIDE DEF f, room, u, p, r
<1>7. v \in Nat /\ v < p * room
  <2>1. u * room \in Nat /\ (p - 1 - u) * room >= 0
    BY <1>5, <1>6
  <2>2. (p - 1 - u) * room = p * room - room - u * room
    BY <1>5, <1>6
  <2>3. p * room \in Nat
    BY <1>5, <1>6
  <2>. QED
    BY <1>6, <2>1, <2>2, <2>3
<1>8. v < Power(2, Width) /\ (i <= Tops => v < Power(Base, i - 1) * FinalBase)
  <2>1. Power(2, Width) = 2 * Power(Base, Tops) /\ Power(Base, Tops) \in Nat
    BY <1>4, DigitRoom, Places
  <2>2. CASE i = Tops + 1
    <3>1. i - 1 = Tops /\ room = 2
      BY <1>4, <2>2
    <3>2. p = Power(Base, Tops)
      BY <3>1 DEF p
    <3>. QED
      BY <1>4, <1>7, <2>1, <2>2, <3>1, <3>2
  <2>3. CASE i <= Tops
    <3>1. room = FinalBase /\ Base = 2 * FinalBase /\ Base \in Nat
      BY <1>4, <2>3, DigitBase
    <3>2. Base * p <= Power(Base, Tops)
      <4>1. Power(Base, i) = Base * p /\ Power(Base, i) \in Nat
        <5>1. i \in Nat \ {0}
          BY <1>4
        <5>. QED
          BY <5>1, Places DEF p
      <4>2. i = Tops \/ i \in 0 .. Tops - 1
        BY <1>4, <2>3
      <4>3. \A k \in 0 .. Tops - 1 : Power(Base, k) < Power(Base, Tops)
        BY <1>4, PowersGrow, DigitBase
      <4>4. Power(Base, i) <= Power(Base, Tops)
        BY <2>1, <4>1, <4>2, <4>3
      <4>. QED
        BY <4>1, <4>4
    <3>3. p * room \in Nat /\ Base * p = 2 * (p * room)
      BY <1>4, <1>5, <3>1
    <3>. DEFINE x == p * room
    <3>4. x \in Nat /\ v < x /\ 2 * x <= Power(Base, Tops)
      BY <1>7, <3>2, <3>3
    <3>. HIDE DEF x, v
    <3>5. v < Power(2, Width)
      BY <1>7, <2>1, <3>4
    <3>. QED
      BY <3>1, <3>4, <3>5 DEF x, p
  <2>. QED
    BY <1>4, <2>2, <2>3
<1>9. v \in 0 .. Power(2, Width) - 1
  <2>1. Power(2, Width) \in Nat
    BY PowerIs, VarintAssumption
  <2>. HIDE DEF v
  <2>. QED
    BY <1>7, <1>8, <2>1
<1>10. Len(WriteVInt(v)) <= i
  <2>. HIDE DEF v
  <2>1. /\ Len(WriteVInt(v)) \in 1 .. Tops + 1
        /\ \A j \in 1 .. Tops : v < Power(Base, j - 1) * FinalBase => Len(WriteVInt(v)) <= j
    BY <1>9, VIntIsWritten
  <2>2. CASE i = Tops + 1
    BY <1>4, <2>1, <2>2
  <2>3. CASE i <= Tops
    <3>1. i \in 1 .. Tops
      BY <1>4, <2>3
    <3>. QED
      BY <1>8, <2>1, <2>3, <3>1
  <2>. QED
    BY <1>4, <2>2, <2>3
<1>11. r.value = v /\ r.next - 1 = i
  BY <1>3, <1>4
<1>. HIDE DEF v
<1>. QED
  BY <1>9, <1>10, <1>11 DEF r

(* What is read is a value of the width, and every value is read.          *)
LEMMA VIntsExact ==
    ASSUME varint \in Seq(VarintDigit) PROVE VIntsAreExact
<1>1. /\ DOMAIN VInts = 0 .. Power(2, Width) - 1
      /\ \A value \in DOMAIN VInts : VInts[value] = WriteVInt(value)
  BY DEF VInts
<1>. DEFINE r == ReadVInt(varint)
<1>2. ASSUME r.ok
      PROVE  /\ r.value \in DOMAIN VInts
             /\ Len(VInts[r.value]) <= r.next - 1
             /\ ReadVInt(VInts[r.value]) =
                    [ok |-> TRUE, value |-> r.value, next |-> Len(VInts[r.value]) + 1]
  <2>1. r.value \in 0 .. Power(2, Width) - 1 /\ Len(WriteVInt(r.value)) <= r.next - 1
    BY <1>2, ReadVIntFits
  <2>. HIDE DEF r
  <2>. DEFINE v == r.value
  <2>2. ReadVInt(WriteVInt(v)) = [ok |-> TRUE, value |-> v, next |-> Len(WriteVInt(v)) + 1]
    BY <2>1, VIntIsWritten
  <2>3. v \in DOMAIN VInts /\ VInts[v] = WriteVInt(v)
    BY <1>1, <2>1
  <2>. QED
    BY <2>1, <2>2, <2>3
<1>3. ASSUME NEW value \in DOMAIN VInts, varint = VInts[value]
      PROVE  r.ok /\ r.value = value
  <2>1. r = [ok |-> TRUE, value |-> value, next |-> Len(WriteVInt(value)) + 1]
    BY <1>1, <1>3, VIntIsWritten
  <2>. QED
    BY <2>1
<1>. HIDE DEF r
<1>. QED
  BY <1>2, <1>3 DEF VIntsAreExact, r

-----------------------------------------------------------------------------
\* A varint is made of digits.
VarintTyped == varint \in Seq(VarintDigit)

(* Varints are made of digits, one appended after the other.               *)
LEMMA VarintsStayTyped == AtomsSpec => []VarintTyped
<1>1. Start => VarintTyped
  BY DEF Start, VarintTyped
<1>2. VarintTyped /\ [Grows]_<<bytes, literal, varint, vars>> => VarintTyped'
  <2>. SUFFICES ASSUME varint \in Seq(VarintDigit), [Grows]_<<bytes, literal, varint, vars>>
                PROVE  varint' \in Seq(VarintDigit)
    BY DEF VarintTyped
  <2>1. CASE GrowVarint
    <3>1. PICK n \in 0 .. Base - 1, more \in BOOLEAN : varint' = Append(varint, Digit(n, more))
      BY <2>1 DEF GrowVarint
    <3>2. Digit(n, more) \in VarintDigit
      BY DEF Digit, VarintDigit
    <3>. QED
      BY <3>1, <3>2
  <2>2. CASE varint' = varint
    BY <2>2
  <2>3. CASE \/ GrowNumber \/ GrowString \/ GrowEscapes \/ GrowLiteral \/ UseMap
             \/ UNCHANGED <<bytes, literal, varint, vars>>
    BY <2>2, <2>3 DEF GrowNumber, GrowString, GrowEscapes, Grow, GrowLiteral, UseMap
  <2>. QED
    BY <2>1, <2>3 DEF Grows
<1>. QED
  BY <1>1, <1>2, PTL DEF AtomsSpec

(* A value of the width has one varint and that varint one value, and no   *)
(* sequence of digits is read as anything else; VInts carry the same       *)
(* values and are the shortest that do (formats/bin.rs, formats/smile.rs): *)
(* for digits of any number of bits and any value that leaves one bit for  *)
(* the last of its longest varint, 7 and 64 among them.                    *)
THEOREM VarintsCarryEveryValue == AtomsSpec => []VarintsAreExact
<1>1. VarintTyped => VarintsAreExact
  BY VarintsCanonical, VIntsExact DEF VarintsAreExact, VarintTyped
<1>. QED
  BY <1>1, VarintsStayTyped, PTL

=============================================================================
