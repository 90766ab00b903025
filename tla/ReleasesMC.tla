----------------------------- MODULE ReleasesMC -----------------------------
(***************************************************************************)
(* A type and its releases, for TLC.  new is the declaration in the source *)
(* tree and old the one that was shipped last; a step edits one thing of   *)
(* new, or ships it.  In every state the documents of the two releases are *)
(* written, read, validated and compared.                                  *)
(***************************************************************************)
EXTENDS Validate, Compat

CONSTANTS
    Shipped,    (* the declarations to begin with                          *)
    Allowed,    (* the kinds of edits that are made                        *)
    Widths,     (* the integer types that are used                         *)
    MaxEdits    (* bound: edits in all releases                            *)

EditKinds ==
    {"retype", "rename", "alias", "default", "skip", "skipIf", "flatten", "policy", "remove",
     "add", "recycle", "deny", "depth", "transparent", "variant", "repr"}

ASSUME ReleasesAssumption ==
    /\ \A type \in Shipped : Compiles(type)
    /\ Allowed \subseteq EditKinds
    /\ Widths \subseteq DOMAIN IntegerRange
    /\ MaxEdits \in Nat

VARIABLES old, new, edits

vars == <<old, new, edits>>

-----------------------------------------------------------------------------
(* Edits.                                                                  *)

May(kind, types) == IF kind \in Allowed THEN types ELSE {}

Replaced(seq, i, x) == [seq EXCEPT ![i] = x]
Without(seq, i) == SubSeq(seq, 1, i - 1) \o SubSeq(seq, i + 1, Len(seq))

\* The keys that a field may put into its object.
RECURSIVE OwnKeys(_)
OwnKeys(f) ==
    IF ~f.flat THEN Keys(f)
    ELSE IF f.ty.kind = "map" THEN {"k"}
    ELSE UNION {OwnKeys(f.ty.fields[i]) : i \in DOMAIN f.ty.fields}

\* The keys of the fields of one object are different.
Distinct(fields) ==
    \A i, j \in DOMAIN fields : i # j => OwnKeys(fields[i]) \cap OwnKeys(fields[j]) = {}

Policies(type) ==
    CASE type.kind = "str" -> {[NoPolicy EXCEPT !.maxLen = 1]}
      [] type.kind \in {"seq", "map"} -> {[NoPolicy EXCEPT !.maxItems = 0]}
      [] type.kind \in {"int", "float"} ->
            {[NoPolicy EXCEPT !.min = 1], [NoPolicy EXCEPT !.max = 0]}
      [] OTHER -> {}

\* Some value of the type is written as null, as None is.
RECURSIVE WritesNull(_)
WritesNull(type) ==
    \/ type.kind \in {"unit", "any", "option"}
    \/ type.kind = "struct" /\ Len(type.fields) = 1 /\ WritesNull(type.fields[1].ty)
    \/ type.kind = "enum"

Outer(type) ==
    UNION {IF type.kind = "option" THEN {type.of}
           ELSE {wrapped \in {OptionOf(type)} : ~WritesNull(type)},
           IF type.kind = "int" THEN {IntOf(width) : width \in Widths} \cup {Float, Str} ELSE {},
           IF type.kind = "float" THEN {IntOf(width) : width \in Widths} ELSE {}}

RECURSIVE EditsOf(_)

Retyped(type) == May("retype", Outer(type)) \cup EditsOf(type)

FieldEdits(f) ==
    UNION {{[f EXCEPT !.ty = type] :
               type \in {t \in Retyped(f.ty) : f.flat => ~IsOption(t)}},
           May("rename",  {[f EXCEPT !.name = "w"]}),
           May("alias",   {[f EXCEPT !.name = "w", !.alias = {f.name}]}),
           May("default", {[f EXCEPT !.default = ~@]}),
           May("skip",    {[f EXCEPT !.skip = ~@]}),
           May("skipIf",  {g \in {[f EXCEPT !.skipIf = ~@]} : g.ty.kind = "option"}),
           May("flatten", {g \in {[f EXCEPT !.flat = ~@]} : g.ty.kind \in {"map", "struct"}}),
           May("policy",  {[f EXCEPT !.policy = policy] : policy \in Policies(f.ty)})}

NewFields(fields) ==
    UNION {May("add", {FieldOf("z", IntOf("u8")), FieldOf("z", OptionOf(Str)),
                       [FieldOf("z", IntOf("u8")) EXCEPT !.default = TRUE]}),
           May("recycle", {[FieldOf("x", IntOf("u8")) EXCEPT !.ident = "z"]})}

FieldsEdits(fields) ==
    {after \in UNION {
        UNION {{Replaced(fields, i, f) : f \in FieldEdits(fields[i])} : i \in DOMAIN fields},
        May("remove", {Without(fields, i) : i \in DOMAIN fields}),
        {Append(fields, f) : f \in NewFields(fields)}} : Distinct(after)}

VariantEdits(variant) ==
    UNION {May("rename", {[variant EXCEPT !.name = "W"]}),
           {[variant EXCEPT !.fields = fields] : fields \in
               {after \in FieldsEdits(variant.fields) :
                   /\ variant.shape \in {"newtype", "tuple"} => Len(after) = Len(variant.fields)
                   /\ variant.shape # "named" => \A i \in DOMAIN after : ~after[i].skip
                   /\ variant.shape # "unit" /\ ~HasFlatten(after)}}}

VariantsEdits(variants) ==
    {after \in UNION {
        UNION {{Replaced(variants, i, v) : v \in VariantEdits(variants[i])} : i \in DOMAIN variants},
        May("variant", {Without(variants, i) : i \in DOMAIN variants}
                       \cup {Append(variants, VariantOf("D", "newtype", <<FieldOf("0", Str)>>))})} :
        /\ after # <<>>
        /\ \A i, j \in DOMAIN after : i # j => after[i].name # after[j].name}

\* One edit, somewhere in a type.
EditsOf(type) ==
    CASE type.kind \in {"seq", "map", "option"} ->
            {[type EXCEPT !.of = inner] :
                inner \in {t \in Retyped(type.of) : type.kind = "option" => ~WritesNull(t)}}
      [] type.kind = "tuple" ->
            UNION {{[type EXCEPT !.items[i] = item] : item \in Retyped(type.items[i])} :
                      i \in DOMAIN type.items}
            \cup May("remove", {ProductOf(SubSeq(type.items, 1, i)) :
                                   i \in {Len(type.items) - 1} \ {0}})
      [] type.kind = "struct" ->
            UNION {{[type EXCEPT !.fields = fields] : fields \in FieldsEdits(type.fields)},
                   May("default", {[type EXCEPT !.default = ~@]}),
                   May("deny",    {[type EXCEPT !.deny = ~@]}),
                   May("transparent", {[type EXCEPT !.transparent = ~@]}),
                   May("depth",   {[type EXCEPT !.depth = depth] : depth \in 0 .. 1})}
      [] type.kind = "enum" ->
            UNION {{[type EXCEPT !.variants = variants] : variants \in VariantsEdits(type.variants)},
                   May("repr",  {[type EXCEPT !.repr = repr] :
                                   repr \in {"external", "internal", "adjacent", "untagged"}}),
                   May("deny",  {[type EXCEPT !.deny = ~@]}),
                   May("depth", {[type EXCEPT !.depth = depth] : depth \in 0 .. 1})}
      [] OTHER -> {}

Init ==
    /\ old \in Shipped
    /\ new = old
    /\ edits = 0

Edit ==
    /\ edits < MaxEdits
    /\ edits' = edits + 1
    /\ new' \in {type \in EditsOf(new) : Compiles(type)}
    /\ UNCHANGED old

Ship ==
    /\ new # old
    /\ old' = new
    /\ UNCHANGED <<new, edits>>

Next == Edit \/ Ship

Releases == Init /\ [][Next]_vars

-----------------------------------------------------------------------------
(* The declarations to begin with: one of every kind.                      *)

Inner == StructOf(<<FieldOf("y", IntOf("u8"))>>)

Variants(B) ==
    <<VariantOf("A", "unit", <<>>),
      VariantOf("B", "newtype", <<FieldOf("0", B)>>),
      VariantOf("C", "named", <<[FieldOf("x", OptionOf(Str)) EXCEPT !.skipIf = TRUE]>>)>>

PlainTypes == {StructOf(<<FieldOf("x", IntOf("u8")), FieldOf("y", OptionOf(Str))>>)}

BaseTypes ==
    {StructOf(<<FieldOf("x", IntOf("i8")), FieldOf("y", OptionOf(Str))>>),
     StructOf(<<FieldOf("x", ListOf(Inner)), FieldOf("y", Float)>>),
     StructOf(<<FieldOf("x", ProductOf(<<IntOf("u8"), Str>>)), FieldOf("y", MapOf(AnyValue))>>),
     StructOf(<<FieldOf("x", Str), [FieldOf("f", Inner) EXCEPT !.flat = TRUE]>>),
     StructOf(<<[FieldOf("x", MapOf(AnyValue)) EXCEPT !.flat = TRUE],
                FieldOf("y", OptionOf(IntOf("u8")))>>),
     EnumOf("external", Variants(IntOf("u8"))),
     EnumOf("internal", Variants(Inner)),
     EnumOf("adjacent", Tail(Variants(IntOf("u8")))),
     EnumOf("untagged", <<VariantOf("B", "newtype", <<FieldOf("0", IntOf("u8"))>>),
                          VariantOf("C", "named", <<FieldOf("x", Str)>>),
                          VariantOf("E", "tuple", <<FieldOf("0", Str), FieldOf("1", IntOf("i8"))>>)>>)}

-----------------------------------------------------------------------------
(* The values that are written: of integers the ends of the range, or, so  *)
(* that every width holds them, 0 and 1; at most one element in a list.    *)

RECURSIVE Tuples(_)
Tuples(sets) ==
    IF sets = <<>> THEN {<<>>}
    ELSE {<<x>> \o rest : x \in sets[1], rest \in Tuples(Tail(sets))}

RECURSIVE Values(_, _)

FieldValues(f, narrow) == IF f.skip THEN {DefaultOf(f.ty)} ELSE Values(f.ty, narrow)

FieldsValues(fields, narrow) == Tuples([i \in DOMAIN fields |-> FieldValues(fields[i], narrow)])

Ends(width, narrow) ==
    LET range == IntegerRange[width]
    IN  IF narrow THEN {0, 1}
        ELSE {n \in range : n - 1 \notin range \/ n + 1 \notin range}

Values(type, narrow) ==
    CASE type.kind = "unit"   -> {Simple(Null)}
      [] type.kind = "any"    -> {Simple(Null), Simple(Obj(<< <<"k", Whole(1)>> >>))}
      [] type.kind = "str"    -> {Simple(Text("A")), Simple(Text("no"))}
      [] type.kind = "int"    -> {Simple(Whole(n)) : n \in Ends(type.width, narrow)}
      [] type.kind = "float"  -> {Simple(Halves(1)), Simple(Halves(2))}
      [] type.kind = "option" -> {None} \cup {Some(v) : v \in Values(type.of, narrow)}
      [] type.kind = "seq"    -> {Parts(<<>>)} \cup {Parts(<<v>>) : v \in Values(type.of, narrow)}
      [] type.kind = "map"    ->
            {Parts(<<>>)} \cup {Parts(<< <<"k", v>> >>) : v \in Values(type.of, narrow)}
      [] type.kind = "tuple"  ->
            {Parts(vs) : vs \in Tuples([i \in DOMAIN type.items |-> Values(type.items[i], narrow)])}
      [] type.kind = "struct" -> {Parts(vs) : vs \in FieldsValues(type.fields, narrow)}
      [] type.kind = "enum"   ->
            UNION {{Case(i, vs) : vs \in
                       IF type.variants[i].shape = "newtype"
                       THEN {<<v>> : v \in Values(type.variants[i].fields[1].ty, narrow)}
                       ELSE FieldsValues(type.variants[i].fields, narrow)} :
                    i \in DOMAIN type.variants}

\* The documents of a release.
Documents(type, narrow) == UNION {Encode(type, value) : value \in Values(type, narrow)}

\* The types that a type is made of.
RECURSIVE Inside(_)
Inside(type) ==
    {type} \cup
    CASE type.kind \in {"seq", "map", "option"} -> Inside(type.of)
      [] type.kind = "tuple"  -> UNION {Inside(type.items[i]) : i \in DOMAIN type.items}
      [] type.kind = "struct" -> UNION {Inside(type.fields[i].ty) : i \in DOMAIN type.fields}
      [] type.kind = "enum"   ->
            UNION {UNION {Inside(type.variants[i].fields[j].ty) :
                             j \in DOMAIN type.variants[i].fields} : i \in DOMAIN type.variants}
      [] OTHER -> {}

Structs(type) == {t \in Inside(type) : t.kind = "struct"}
Enums(type) == {t \in Inside(type) : t.kind = "enum"}

-----------------------------------------------------------------------------
(* Properties.                                                             *)

\* What a derived type writes it reads back as the same value, whatever the
\* attributes, and an untagged enum at least as some value: an earlier
\* variant may read it too.
RoundTrips ==
    \A value \in Values(new, FALSE) : \A tree \in Encode(new, value) :
        /\ Decode(new, tree) # {}
        /\ (\A t \in Enums(new) : t.repr # "untagged") => Decode(new, tree) = {value}

\* What the check does not see, and is not held to: that deny_unknown_fields
\* makes unknown entries an error, and that a flattened struct must be there
\* whatever its default.
InSight(type) ==
    /\ \A t \in Structs(type) \cup Enums(type) : ~t.deny
    /\ \A t \in Structs(type) : \A i \in DOMAIN t.fields :
          LET f == t.fields[i] IN f.flat /\ f.ty.kind = "struct" => Required(f, t.default)

\* A u128 becomes an i128: the schema cuts the range of the first to that of
\* the second, and the check sees no difference.
CutOff ==
    IntOf("u128") \in Inside(old) /\ IntOf("i128") \in Inside(new)

\* backward_compatible: everything the last release wrote, the next one reads.
BackwardIsSound ==
    InSight(old) /\ InSight(new) /\ ~CutOff /\ Check(SchemaOf(old), SchemaOf(new)).backward =>
        \A tree \in Documents(old, FALSE) : Decode(new, tree) # {}

\* forward_compatible: everything the next release writes, the last one
\* reads, as long as integers stay in the range of both.
ForwardIsSound ==
    InSight(old) /\ InSight(new) /\ Check(SchemaOf(old), SchemaOf(new)).forward =>
        \A tree \in Documents(new, TRUE) : Decode(old, tree) # {}

\* Where the validator follows the decoder.  It does not take an enum of unit
\* variants only, an adjacent unit variant or a transparent struct as the
\* writer leaves it, knows no alias (the entry is unknown, or goes to the
\* flattened field), takes the fields of an internal variant for unknown, and
\* finds no variant of an untagged enum clean that breaks a limit.
NoLimits(fields) == \A i \in DOMAIN fields : fields[i].policy = NoPolicy

Limited(type) ==
    CASE type.kind = "struct" -> type.depth # NoLimit \/ ~NoLimits(type.fields)
      [] type.kind = "enum"   ->
            type.depth # NoLimit \/ \E i \in DOMAIN type.variants : ~NoLimits(type.variants[i].fields)
      [] OTHER -> FALSE

Followed(type) ==
    /\ \A t \in Enums(type) :
          LET Shapes == {t.variants[i].shape : i \in DOMAIN t.variants}
          IN  /\ t.repr = "external" => Shapes # {"unit"}
              /\ t.repr = "adjacent" => "unit" \notin Shapes
              /\ t.repr = "internal" => ~t.deny
              /\ t.repr = "untagged" => \A inside \in Inside(t) : ~Limited(inside)
    /\ \A t \in Structs(type) :
          /\ ~t.transparent
          /\ t.deny \/ HasFlatten(t.fields) => \A i \in DOMAIN t.fields : t.fields[i].alias = {}

Violations(type, tree) == ValidateWith(SchemaOf(type), AsValue(tree), NoLimit)

\* Validation is a gate behind the decoder and matches "the same
\* representations the decoder uses": of what the last release wrote, the
\* validator finds nothing wrong with the shape when the next one reads it.
AcceptedIsValid ==
    Followed(new) =>
        \A tree \in Documents(old, FALSE) :
            Decode(new, tree) # {} =>
                Violations(new, tree) \cap {"shape", "unknown", "variant", "missing"} = {}

\* The levels below a value that the validator counts.
Highest(S) == CHOOSE n \in S : \A m \in S : n >= m

RECURSIVE Height(_, _)

Below(heights) == IF heights = {} THEN 0 ELSE 1 + Highest(heights)

FieldHeights(fields, values, all) ==
    {Height(fields[i].ty, values[i]) : i \in
        {j \in DOMAIN fields :
            ~fields[j].skip /\ (all \/ ~(fields[j].skipIf /\ values[j] = None))}}

\* An adjacent variant is written with all its fields.
VariantHeight(repr, variant, values) ==
    CASE variant.shape = "unit"    -> 0
      [] variant.shape = "newtype" -> Height(variant.fields[1].ty, values[1])
      [] variant.shape = "tuple"   ->
            Below({Height(variant.fields[i].ty, values[i]) : i \in DOMAIN values})
      [] variant.shape = "named"   -> Below(FieldHeights(variant.fields, values, repr = "adjacent"))

Height(type, value) ==
    CASE type.kind \in {"unit", "str", "int", "float", "any"} -> 0
      [] type.kind = "option" -> IF value = None THEN 0 ELSE Height(type.of, value.of)
      [] type.kind = "seq"    -> Below({Height(type.of, value.of[i]) : i \in DOMAIN value.of})
      [] type.kind = "map"    -> Below({Height(type.of, value.of[i][2]) : i \in DOMAIN value.of})
      [] type.kind = "tuple"  -> Below({Height(type.items[i], value.of[i]) : i \in DOMAIN value.of})
      [] type.kind = "struct" -> Below(FieldHeights(type.fields, value.of, FALSE))
      [] type.kind = "enum"   -> 1 + VariantHeight(type.repr, type.variants[value.i], value.of)

\* Every struct and enum in a value, with its own value.
RECURSIVE Containers(_, _)

FieldContainers(fields, values) ==
    UNION {Containers(fields[i].ty, values[i]) : i \in {j \in DOMAIN fields : ~fields[j].skip}}

Containers(type, value) ==
    CASE type.kind = "option" -> IF value = None THEN {} ELSE Containers(type.of, value.of)
      [] type.kind = "seq"    -> UNION {Containers(type.of, value.of[i]) : i \in DOMAIN value.of}
      [] type.kind = "map"    -> UNION {Containers(type.of, value.of[i][2]) : i \in DOMAIN value.of}
      [] type.kind = "tuple"  -> UNION {Containers(type.items[i], value.of[i]) : i \in DOMAIN value.of}
      [] type.kind = "struct" -> {<<type, value>>} \cup FieldContainers(type.fields, value.of)
      [] type.kind = "enum"   ->
            {<<type, value>>} \cup FieldContainers(type.variants[value.i].fields, value.of)
      [] OTHER -> {}

\* max_depth is honoured, of the root and of everything inside, and so is the
\* cap: the validator reports a value that nests deeper and no other.  (The
\* content of an internal variant and of a flattened field is counted one
\* level too deep; an untagged enum reports another kind.)
DepthIsEnforced ==
    (/\ \A t \in Enums(new) : t.repr \in {"external", "adjacent"}
     /\ \A t \in Structs(new) : ~HasFlatten(t.fields)
     /\ Followed(new)) =>
        \A value \in Values(new, FALSE) : \A tree \in Encode(new, value) :
            LET Deep(c) == c[1].depth # NoLimit /\ Height(c[1], c[2]) > c[1].depth
            IN  "depth" \in Violations(new, tree) <=>
                    \/ Height(new, value) > HardDepthCap
                    \/ \E c \in Containers(new, value) : Deep(c)

\* What a policy says of a value.
RECURSIVE Keeps(_, _, _)
Keeps(policy, type, value) ==
    CASE type.kind = "option" -> value = None \/ Keeps(policy, type.of, value.of)
      [] type.kind = "str"    -> policy.maxLen = NoLimit \/ Len(value.of.s) <= policy.maxLen
      [] type.kind \in {"seq", "map"} -> policy.maxItems = NoLimit \/ Len(value.of) <= policy.maxItems
      [] type.kind \in {"int", "float"} ->
            /\ policy.min = NoLimit \/ Twice(value.of) >= 2 * policy.min
            /\ policy.max = NoLimit \/ Twice(value.of) <= 2 * policy.max
      [] OTHER -> TRUE

RECURSIVE Respects(_, _)

FieldRespects(f, value) == f.skip \/ (Keeps(f.policy, f.ty, value) /\ Respects(f.ty, value))

\* Every field of a value keeps the policy that is declared for it.
Respects(type, value) ==
    CASE type.kind = "option" -> value = None \/ Respects(type.of, value.of)
      [] type.kind = "seq"    -> \A i \in DOMAIN value.of : Respects(type.of, value.of[i])
      [] type.kind = "map"    -> \A i \in DOMAIN value.of : Respects(type.of, value.of[i][2])
      [] type.kind = "tuple"  -> \A i \in DOMAIN value.of : Respects(type.items[i], value.of[i])
      [] type.kind = "struct" -> \A i \in DOMAIN type.fields : FieldRespects(type.fields[i], value.of[i])
      [] type.kind = "enum"   ->
            LET fields == type.variants[value.i].fields
            IN  \A i \in DOMAIN fields : FieldRespects(fields[i], value.of[i])
      [] OTHER -> TRUE

\* Policies that the schema or the walk drops: of the fields of a tuple, of the
\* variants of an untagged enum, and of the field of a transparent struct.
Enforced(type) ==
    /\ \A t \in Structs(type) : ~t.transparent
    /\ \A t \in Enums(type) :
          /\ t.repr # "untagged"
          /\ \A i \in DOMAIN t.variants : t.variants[i].shape # "tuple"

\* A declared limit lets through the values that keep it and no other (below
\* the depth that is allowed nothing is looked at).
PoliciesAreEnforced ==
    Enforced(new) =>
        \A value \in Values(new, FALSE) : \A tree \in Encode(new, value) :
            LET found == Violations(new, tree)
                broken == found \cap {"len", "items", "min", "max"}
            IN  IF Respects(new, value) THEN broken = {} ELSE broken # {} \/ "depth" \in found

-----------------------------------------------------------------------------
(* What a validator of JSON Schema makes of the keywords.                  *)

RECURSIVE Fits(_, _)
Fits(js, tree) ==
    LET Has(key) == key \in DOMAIN js
        Of(key) == {i \in DOMAIN tree.entries : tree.entries[i][1] = key}
        IsType ==
            CASE js.type = "null"    -> tree = Null
              [] js.type = "string"  -> tree.t = "str"
              [] js.type = "number"  -> tree.t = "num"
              [] js.type = "integer" -> tree.t = "num" /\ (tree.float => tree.n % 2 = 0)
              [] js.type = "array"   -> tree.t = "arr"
              [] js.type = "object"  -> tree.t = "obj"
    IN  \/ Has("nullable") /\ tree = Null
        \/ /\ Has("type") => IsType
           /\ Has("enum") /\ tree.t = "str" => tree.s \in js.enum
           /\ Has("minimum") /\ tree.t = "num" => tree.n >= js.minimum
           /\ Has("items") /\ tree.t = "arr" =>
                 \A i \in DOMAIN tree.items : Fits(js.items, tree.items[i])
           /\ Has("prefix") /\ tree.t = "arr" =>
                 /\ Len(tree.items) = js.count
                 /\ \A i \in DOMAIN tree.items : Fits(js.prefix[i], tree.items[i])
           /\ Has("entries") /\ tree.t = "obj" =>
                 \A i \in DOMAIN tree.entries : Fits(js.entries, tree.entries[i][2])
           /\ Has("properties") /\ tree.t = "obj" =>
                 /\ \A key \in js.required : Of(key) # {}
                 /\ \A i \in DOMAIN tree.entries :
                       IF tree.entries[i][1] \in DOMAIN js.properties
                       THEN Fits(js.properties[tree.entries[i][1]], tree.entries[i][2])
                       ELSE js.additional
           /\ Has("oneOf") => \E i \in DOMAIN js.oneOf : Fits(js.oneOf[i], tree)

\* The types that the generator describes as they are written: no enum but an
\* untagged one, nothing flattened, nothing transparent.
Described(type) ==
    /\ \A t \in Enums(type) : t.repr = "untagged"
    /\ \A t \in Structs(type) : ~HasFlatten(t.fields) /\ ~t.transparent

\* The JSON Schema of a type accepts every document that the type writes.
SchemaAcceptsWritten ==
    Described(new) => \A tree \in Documents(new, FALSE) : Fits(Keywords(SchemaOf(new)), tree)
=============================================================================
