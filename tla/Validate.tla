------------------------------ MODULE Validate ------------------------------
(***************************************************************************)
(* The validator: a walk of a decoded Value against a schema, which        *)
(* collects what is wrong.  Of a violation its kind is kept, of the config *)
(* the depth cap; paths, the list of sensitive paths and the check of the  *)
(* message's length, which is one comparison before the walk, are not.     *)
(***************************************************************************)
EXTENDS DeclaredTypes

CONSTANT HardDepthCap    (* HARD_DEPTH_CAP *)

ASSUME CapAssumption == HardDepthCap \in Nat

Least(a, b) == IF a <= b THEN a ELSE b

If(condition, kind) == IF condition THEN {kind} ELSE {}

\* Mutant: objects are not counted.
ItemsInArray(tree) == IF tree.t = "arr" THEN Len(tree.items) ELSE 0

ItemsIn(tree) == IF tree.t = "arr" THEN Len(tree.items)
                 ELSE IF tree.t = "obj" THEN Len(tree.entries) ELSE 0

\* Twice a number, so that halves are whole.
Twice(tree) == IF tree.float THEN tree.n ELSE 2 * tree.n

ApplyPolicy(policy, tree) ==
    LET Declared(limit) == policy[limit] # NoLimit
    IN  If(tree.t = "str" /\ Declared("maxLen") /\ Len(tree.s) > policy.maxLen, "len")
        \cup If(Declared("maxItems") /\ ItemsIn(tree) > policy.maxItems, "items")
        \cup If(tree.t = "num" /\ Declared("min") /\ Twice(tree) < 2 * policy.min, "min")
        \cup If(tree.t = "num" /\ Declared("max") /\ Twice(tree) > 2 * policy.max, "max")

\* Mutant: the upper bound is exclusive.
NumberFitsBelow(schema, tree) ==
    LET range == SchemaRange(schema)
    IN  IF ~tree.float /\ tree.n > I128Max THEN schema.width = "u128"
        ELSE /\ tree.float => tree.n % 2 = 0
             /\ 2 * range.lo <= Twice(tree) /\ Twice(tree) < 2 * range.hi

\* A float that is whole is as good as an integer.
NumberFits(schema, tree) ==
    LET range == SchemaRange(schema)
    IN  IF ~tree.float /\ tree.n > I128Max THEN schema.width = "u128"
        ELSE /\ tree.float => tree.n % 2 = 0
             /\ 2 * range.lo <= Twice(tree) /\ Twice(tree) <= 2 * range.hi

Scalar(schema, tree) ==
    CASE schema.k = "unit"  -> tree = Null
      [] schema.k = "str"   -> tree.t = "str"
      [] schema.k = "float" -> tree.t = "num"
      [] schema.k = "int"   -> tree.t = "num" /\ NumberFits(schema, tree)

\* Mutant: the depth that an enum declares is forgotten.
DeclaredDepthOfStruct(schema) == IF schema.k = "struct" THEN schema.depth ELSE NoLimit

DeclaredDepth(schema) == IF schema.k \in {"struct", "enum"} THEN schema.depth ELSE NoLimit

RECURSIVE Walk(_, _, _, _, _)

\* The walks of the parts of a container: pairs of a schema and a tree.
WalkParts(parts, depth, limit) ==
    UNION {Walk(parts[i][1], parts[i][2], depth + 1, limit, NoPolicy) : i \in DOMAIN parts}

RECURSIVE ValidateStruct(_, _, _, _)

ValidateStruct(schema, tree, depth, limit) ==
    IF tree.t # "obj" THEN {"shape"}
    ELSE LET fields == schema.fields
             Matching(key) == {i \in DOMAIN fields : fields[i].name = key /\ ~fields[i].flattened}
             First(S) == CHOOSE i \in S : \A j \in S : i <= j
             Known(entry) == Matching(entry[1]) # {}
             known == SelectSeq(tree.entries, Known)
             unknown == SelectSeq(tree.entries, LAMBDA entry : ~Known(entry))
             Flat == {i \in DOMAIN fields : fields[i].flattened}
             flat == fields[First(Flat)]
             OfKnown(entry) == Walk(fields[First(Matching(entry[1]))].ty, entry[2], depth + 1, limit,
                                    fields[First(Matching(entry[1]))].policy)
             OfUnknown ==
                 If(flat.policy.maxItems # NoLimit /\ Len(unknown) > flat.policy.maxItems, "items")
                 \cup CASE flat.ty.k = "map" ->
                              WalkParts([i \in DOMAIN unknown |-> <<flat.ty.of, unknown[i][2]>>],
                                        depth, limit)
                        [] flat.ty.k = "struct" ->
                              ValidateStruct(flat.ty, Obj(unknown), depth + 1, limit)
                        [] OTHER -> {}
         IN  UNION {OfKnown(known[i]) : i \in DOMAIN known}
             \cup IF unknown = <<>> THEN {}
                  ELSE IF Flat # {} THEN OfUnknown
                  ELSE If(schema.deny, "unknown")

ValidateTagged(schema, tree, depth, limit) ==
    IF tree.t # "obj" THEN {"shape"}
    ELSE LET At(key) == SelectSeq(tree.entries, LAMBDA entry : entry[1] = key)
             tag == At(schema.tag)
             content == At(schema.content)
             rest == SelectSeq(tree.entries, LAMBDA entry : entry[1] # schema.tag)
             Chosen == {i \in DOMAIN schema.variants :
                           schema.variants[i].name = tag[1][2].s}
             variant == schema.variants[Only(Chosen)]
             Inner(inner) == Walk(variant.ty, inner, depth + 1, limit, variant.policy)
             OfVariant ==
                 IF schema.content # Absent
                 THEN IF content = <<>> THEN {"missing"}
                      ELSE IF variant.ty.k = "unit" THEN If(content[1][2] # Null, "shape")
                      ELSE Inner(content[1][2])
                 ELSE IF variant.ty.k = "unit" THEN {} ELSE Inner(Obj(rest))
         IN  If(/\ schema.deny
                /\ \E i \in DOMAIN tree.entries :
                      tree.entries[i][1] \notin {schema.tag, schema.content}, "unknown")
             \cup IF tag = <<>> \/ (tag # <<>> /\ tag[1][2].t # "str") THEN {"missing"}
                  ELSE IF Chosen = {} THEN {"variant"}
                  ELSE OfVariant

\* An enum of unit variants only is taken for a string.
ValidateEnum(schema, tree, depth, limit) ==
    LET variants == schema.variants
        Clean(i) == Walk(variants[i].ty, tree, depth, limit, NoPolicy) = {}
        Of(key) == {i \in DOMAIN variants : variants[i].name = key}
        key == tree.entries[1][1]
        variant == variants[Only(Of(key))]
    IN  IF schema.untagged THEN If(\A i \in DOMAIN variants : ~Clean(i), "shape")
        ELSE IF schema.tag # Absent THEN ValidateTagged(schema, tree, depth, limit)
        ELSE IF \A i \in DOMAIN variants : variants[i].ty.k = "unit"
             THEN IF tree.t = "str" THEN If(Of(tree.s) = {}, "shape") ELSE {"shape"}
        ELSE IF tree.t # "obj" \/ (tree.t = "obj" /\ Len(tree.entries) # 1) THEN {"shape"}
        ELSE IF Of(key) = {} THEN {"variant"}
        ELSE Walk(variant.ty, tree.entries[1][2], depth + 1, limit, variant.policy)

\* limit is the depth that no part may pass; a container narrows it for its
\* own parts.
Walk(schema, tree, depth, limit, policy) ==
    LET declared == DeclaredDepth(schema)
        below == IF declared = NoLimit THEN limit ELSE Least(limit, depth + declared)
        Inside ==
            CASE schema.k = "opaque" -> {}
              [] schema.k \in {"unit", "str", "float", "int"} -> If(~Scalar(schema, tree), "shape")
              [] schema.k = "option" ->
                    IF tree = Null THEN {} ELSE Walk(schema.of, tree, depth, limit, policy)
              [] schema.k = "seq" ->
                    IF tree.t # "arr" THEN {"shape"}
                    ELSE WalkParts([i \in DOMAIN tree.items |-> <<schema.of, tree.items[i]>>], depth, below)
              [] schema.k = "map" ->
                    IF tree.t # "obj" THEN {"shape"}
                    ELSE WalkParts([i \in DOMAIN tree.entries |-> <<schema.of, tree.entries[i][2]>>],
                                   depth, below)
              [] schema.k = "tuple" ->
                    IF tree.t # "arr" THEN {"shape"}
                    ELSE If(Len(schema.items) # Len(tree.items), "shape")
                         \cup WalkParts([i \in 1 .. Least(Len(schema.items), Len(tree.items)) |->
                                            <<schema.items[i], tree.items[i]>>], depth, below)
              [] schema.k = "struct" -> ValidateStruct(schema, tree, depth, below)
              [] schema.k = "enum"   -> ValidateEnum(schema, tree, depth, below)
    IN  IF depth > limit THEN {"depth"} ELSE ApplyPolicy(policy, tree) \cup Inside

\* validate_with; cap is the caller's, or NoLimit.
ValidateWith(schema, value, cap) ==
    Walk(schema, value, 0, IF cap = NoLimit THEN HardDepthCap ELSE Least(cap, HardDepthCap), NoPolicy)
=============================================================================
