--------------------------- MODULE DeclaredTypes ----------------------------
(***************************************************************************)
(* Rust types as the derive macros see them, the values they have, and the *)
(* JSON trees those values are written as.  A type is a record: its kind   *)
(* and, for a struct or an enum, the attributes that change what is        *)
(* written, read or promised.  What only gives names (rename_all, generic  *)
(* parameters, bounds) has been applied already: a field has the name it   *)
(* has on the wire and the identifier it has in the source.                *)
(***************************************************************************)
EXTENDS Integers, Sequences, SequencesExt

-----------------------------------------------------------------------------
(* Trees: what a document says.  An object's entries may repeat a key.     *)

Null == [t |-> "null"]
Text(s) == [t |-> "str", s |-> s]
Whole(n) == [t |-> "num", float |-> FALSE, n |-> n]
Halves(n) == [t |-> "num", float |-> TRUE, n |-> n]
Arr(items) == [t |-> "arr", items |-> items]
Obj(entries) == [t |-> "obj", entries |-> entries]

\* What is left of entries that are inserted into a Map one by one: the last
\* value of every key, where the key first stood.
Deduped(entries) ==
    LET Firsts == SelectSeq([i \in DOMAIN entries |-> i],
                     LAMBDA i : \A j \in 1 .. i - 1 : entries[j][1] # entries[i][1])
        LastOf(key) == CHOOSE i \in DOMAIN entries :
                          /\ entries[i][1] = key
                          /\ \A j \in i + 1 .. Len(entries) : entries[j][1] # key
    IN  [i \in DOMAIN Firsts |-> LET key == entries[Firsts[i]][1]
                                 IN  <<key, entries[LastOf(key)][2]>>]

\* A tree read as a Value.
RECURSIVE AsValue(_)
AsValue(tree) ==
    CASE tree.t = "arr" -> Arr([i \in DOMAIN tree.items |-> AsValue(tree.items[i])])
      [] tree.t = "obj" -> Obj(Deduped([i \in DOMAIN tree.entries |->
                                  <<tree.entries[i][1], AsValue(tree.entries[i][2])>>]))
      [] OTHER -> tree

-----------------------------------------------------------------------------
(* Results: the empty set is an error.                                     *)

Only(S) == CHOOSE x \in S : TRUE

\* All the results of a sequence, or an error if one of them is.
Each(results) ==
    IF \E i \in DOMAIN results : results[i] = {} THEN {}
    ELSE {[i \in DOMAIN results |-> Only(results[i])]}

-----------------------------------------------------------------------------
(* Integers, scaled: every width keeps its place among the others.         *)

I128Max == 15

IntegerRange ==
    [i8 |-> -2 .. 1, u8 |-> 0 .. 3, i16 |-> -4 .. 3, u16 |-> 0 .. 7,
     i128 |-> -I128Max - 1 .. I128Max, u128 |-> 0 .. 2 * I128Max + 1]

-----------------------------------------------------------------------------
(* Types.                                                                  *)

Unit == [kind |-> "unit"]
Str == [kind |-> "str"]
Float == [kind |-> "float"]
AnyValue == [kind |-> "any"]
IntOf(width) == [kind |-> "int", width |-> width]
ListOf(type) == [kind |-> "seq", of |-> type]
MapOf(type) == [kind |-> "map", of |-> type]
OptionOf(type) == [kind |-> "option", of |-> type]
ProductOf(types) == [kind |-> "tuple", items |-> types]

NoLimit == -1

NoPolicy == [maxLen |-> NoLimit, maxItems |-> NoLimit, min |-> NoLimit, max |-> NoLimit]

FieldOf(name, type) ==
    [name |-> name, ident |-> name, ty |-> type, alias |-> {}, default |-> FALSE,
     skip |-> FALSE, flat |-> FALSE, skipIf |-> FALSE, policy |-> NoPolicy]

\* shape: "unit", "newtype", "tuple" or "named".
VariantOf(name, shape, fields) ==
    [name |-> name, ident |-> name, shape |-> shape, fields |-> fields]

StructOf(fields) ==
    [kind |-> "struct", fields |-> fields, deny |-> FALSE, default |-> FALSE,
     transparent |-> FALSE, depth |-> NoLimit]

\* repr: "external", "internal", "adjacent" or "untagged".
EnumOf(repr, variants) ==
    [kind |-> "enum", repr |-> repr, variants |-> variants, deny |-> FALSE,
     default |-> FALSE, depth |-> NoLimit]

Tag == "type"
ContentKey == "content"

IsOption(type) == type.kind = "option"

HasFlatten(fields) == \E i \in DOMAIN fields : fields[i].flat

FieldTypes(fields) == [i \in DOMAIN fields |-> fields[i].ty]

\* The attributes that do not go together, which the macros refuse.
RECURSIVE Compiles(_)
Compiles(type) ==
    CASE type.kind \in {"seq", "map", "option"} -> Compiles(type.of)
      [] type.kind = "tuple" -> \A i \in DOMAIN type.items : Compiles(type.items[i])
      [] type.kind = "struct" ->
            /\ \A i \in DOMAIN type.fields : Compiles(type.fields[i].ty)
            /\ HasFlatten(type.fields) => ~type.deny /\ ~type.transparent
            /\ \A i \in DOMAIN type.fields : ~(type.fields[i].flat /\ type.fields[i].skipIf)
            /\ type.transparent => Len(type.fields) = 1
      [] type.kind = "enum" ->
            /\ ~type.default
            /\ \A i \in DOMAIN type.variants : \A j \in DOMAIN type.variants[i].fields :
                  Compiles(type.variants[i].fields[j].ty)
      [] OTHER -> TRUE

-----------------------------------------------------------------------------
(* Values of a type.                                                       *)

None == [v |-> "none"]
Some(value) == [v |-> "some", of |-> value]
Simple(value) == [v |-> "simple", of |-> value]
Parts(values) == [v |-> "parts", of |-> values]
Case(i, values) == [v |-> "case", i |-> i, of |-> values]

\* Default::default().
RECURSIVE DefaultOf(_)
DefaultOf(type) ==
    CASE type.kind \in {"unit", "any"} -> Simple(Null)
      [] type.kind = "str"    -> Simple(Text(""))
      [] type.kind = "int"    -> Simple(Whole(0))
      [] type.kind = "float"  -> Simple(Halves(0))
      [] type.kind \in {"seq", "map"} -> Parts(<<>>)
      [] type.kind = "option" -> None
      [] type.kind = "tuple"  -> Parts([i \in DOMAIN type.items |-> DefaultOf(type.items[i])])
      [] type.kind = "struct" -> Parts([i \in DOMAIN type.fields |-> DefaultOf(type.fields[i].ty)])
      [] type.kind = "enum"   -> Case(1, [i \in DOMAIN type.variants[1].fields |->
                                            DefaultOf(type.variants[1].fields[i].ty)])

-----------------------------------------------------------------------------
(* What a derived NsonSerialize writes, as the tree of the document: the   *)
(* code the macro generates for structs and for the four representations   *)
(* of an enum, and the implementations for the types of the library.       *)

\* write_tagged_object: only an object can carry the tag among its keys.
Tagged(name, tree) ==
    IF tree.t = "obj" THEN {Obj(<< <<Tag, Text(name)>> >> \o tree.entries)} ELSE {}

\* The entries of a flattened value.  A Some around it does not show; any
\* other value that is no object is an error.
Flattened(trees) == {tree.entries : tree \in {u \in trees : u.t = "obj"}}

RECURSIVE Encode(_, _), FieldEntries(_, _, _), Content(_, _, _)

EncodeAll(types, values) == Each([i \in DOMAIN types |-> Encode(types[i], values[i])])

\* What one field adds to the object.
FieldEntries(f, value, inStruct) ==
    IF f.skip THEN {<<>>}
    ELSE IF inStruct /\ f.flat THEN Flattened(Encode(f.ty, value))
    ELSE IF f.skipIf /\ value = None THEN {<<>>}
    ELSE {<< <<f.name, tree>> >> : tree \in Encode(f.ty, value)}

Object(fields, values, inStruct) ==
    {Obj(FlattenSeq(parts)) :
        parts \in Each([i \in DOMAIN fields |-> FieldEntries(fields[i], values[i], inStruct)])}

Content(variant, values, honourSkipIf) ==
    LET fields == IF honourSkipIf THEN variant.fields
                  ELSE [i \in DOMAIN variant.fields |-> [variant.fields[i] EXCEPT !.skipIf = FALSE]]
    IN  CASE variant.shape = "unit"    -> {Null}
          [] variant.shape = "newtype" -> Encode(fields[1].ty, values[1])
          [] variant.shape = "tuple"   -> {Arr(items) : items \in EncodeAll(FieldTypes(fields), values)}
          [] variant.shape = "named"   -> Object(fields, values, FALSE)

ExternalBody(variant, values) ==
    {Obj(<< <<variant.name, tree>> >>) : tree \in Content(variant, values, TRUE)}

\* The content goes through to_value.
InternalBody(variant, values) ==
    IF variant.shape = "unit" THEN {Obj(<< <<Tag, Text(variant.name)>> >>)}
    ELSE UNION {Tagged(variant.name, AsValue(tree)) : tree \in Content(variant, values, TRUE)}

\* skip_serializing_if is not looked at.
AdjacentBody(variant, values) ==
    IF variant.shape = "unit" THEN {Obj(<< <<Tag, Text(variant.name)>> >>)}
    ELSE {Obj(<< <<Tag, Text(variant.name)>>, <<ContentKey, tree>> >>) :
             tree \in Content(variant, values, FALSE)}

UntaggedBody(variant, values) == Content(variant, values, TRUE)

EncodeStruct(type, values) ==
    IF type.transparent THEN Encode(type.fields[1].ty, values[1])
    ELSE Object(type.fields, values, TRUE)

EncodeEnum(type, value) ==
    LET variant == type.variants[value.i]
    IN  CASE type.repr = "external" -> ExternalBody(variant, value.of)
          [] type.repr = "internal" -> InternalBody(variant, value.of)
          [] type.repr = "adjacent" -> AdjacentBody(variant, value.of)
          [] type.repr = "untagged" -> UntaggedBody(variant, value.of)

EncodeOption(type, value) == IF value = None THEN {Null} ELSE Encode(type.of, value.of)

EncodeList(type, value) ==
    {Arr(items) : items \in Each([i \in DOMAIN value.of |-> Encode(type.of, value.of[i])])}

\* A map is its entries, in the order of its keys.
EncodeMap(type, value) ==
    {Obj(entries) : entries \in
       Each([i \in DOMAIN value.of |->
                {<<value.of[i][1], tree>> : tree \in Encode(type.of, value.of[i][2])}])}

Encode(type, value) ==
    CASE type.kind \in {"unit", "str", "float", "int", "any"} -> {value.of}
      [] type.kind = "option" -> EncodeOption(type, value)
      [] type.kind = "seq"    -> EncodeList(type, value)
      [] type.kind = "map"    -> EncodeMap(type, value)
      [] type.kind = "tuple"  -> {Arr(items) : items \in EncodeAll(type.items, value.of)}
      [] type.kind = "struct" -> EncodeStruct(type, value.of)
      [] type.kind = "enum"   -> EncodeEnum(type, value)

-----------------------------------------------------------------------------
(* What a derived NsonDeserialize makes of a tree: the code the macro      *)
(* generates, and the implementations for the types of the library.  The   *)
(* result is the set of the value, or the empty set for an error.          *)

Keys(f) == {f.name} \cup f.alias

\* Mutant: an absent Option is an error.
RequiredUnlessDefault(f, default) == ~(default \/ f.default \/ f.skip)

Required(f, default) == ~(default \/ f.default \/ f.skip \/ IsOption(f.ty))

RECURSIVE Decode(_, _)

DecodeAll(types, items) ==
    IF Len(types) # Len(items) THEN {}
    ELSE {Parts(values) : values \in Each([i \in DOMAIN types |-> Decode(types[i], items[i])])}

Missing(f, default) == IF Required(f, default) THEN {} ELSE {DefaultOf(f.ty)}

\* gen_match_nextdecode: each key to the first field that takes it.
DecodeByMatch(fields, deny, default, entries) ==
    LET Takes(i, key) ==
            /\ ~fields[i].skip /\ key \in Keys(fields[i])
            /\ \A j \in 1 .. i - 1 : fields[j].skip \/ key \notin Keys(fields[j])
        Given(i) == {j \in DOMAIN entries : Takes(i, entries[j][1])}
        Known(key) == \E i \in DOMAIN fields : Takes(i, key)
        ValueOf(i) ==
            IF fields[i].skip THEN {DefaultOf(fields[i].ty)}
            ELSE IF Given(i) = {} THEN Missing(fields[i], default)
            ELSE Decode(fields[i].ty, entries[Only(Given(i))][2])
    IN  IF \/ \E i \in DOMAIN fields, j, k \in DOMAIN entries :
                 j # k /\ {j, k} \subseteq Given(i)
           \/ deny /\ \E j \in DOMAIN entries : ~Known(entries[j][1])
        THEN {}
        ELSE Each([i \in DOMAIN fields |-> ValueOf(i)])

\* gen_map_nextdecode: the fields by name take their entries out of a Map,
\* then every flattened field reads a clone of all that is left.
DecodeByMap(fields, default, entries) ==
    LET map == Deduped([i \in DOMAIN entries |-> <<entries[i][1], AsValue(entries[i][2])>>])
        ByName(i) == ~fields[i].skip /\ ~fields[i].flat
        Present(key) == \E j \in DOMAIN map : map[j][1] = key
        Found(i) == IF Present(fields[i].name) THEN {fields[i].name}
                    ELSE {key \in fields[i].alias : Present(key)}
        Taken == UNION {Found(i) : i \in {k \in DOMAIN fields : ByName(k)}}
        Rest == SelectSeq(map, LAMBDA entry : entry[1] \notin Taken)
        At(key) == (CHOOSE j \in DOMAIN map : map[j][1] = key)
        ValueOf(i) ==
            IF fields[i].skip THEN {DefaultOf(fields[i].ty)}
            ELSE IF fields[i].flat THEN Decode(fields[i].ty, Obj(Rest))
            ELSE IF Found(i) = {} THEN Missing(fields[i], default)
            ELSE Decode(fields[i].ty, map[At(Only(Found(i)))][2])
    IN  Each([i \in DOMAIN fields |-> ValueOf(i)])

DecodeFields(type, fields, entries) ==
    IF HasFlatten(fields) THEN DecodeByMap(fields, type.default, entries)
    ELSE DecodeByMatch(fields, type.deny, type.default, entries)

DecodeStruct(type, tree) ==
    IF type.transparent
    THEN {Parts(<<value>>) : value \in Decode(type.fields[1].ty, tree)}
    ELSE IF tree.t # "obj" THEN {}
    ELSE {Parts(values) : values \in DecodeFields(type, type.fields, tree.entries)}

-----------------------------------------------------------------------------
(* Enums.                                                                  *)

\* The content of the i-th variant.
DecodeContent(type, i, tree) ==
    LET variant == type.variants[i]
        fields == variant.fields
        Values ==
            CASE variant.shape = "unit"    -> IF tree = Null THEN {<<>>} ELSE {}
              [] variant.shape = "newtype" -> {<<value>> : value \in Decode(fields[1].ty, tree)}
              [] variant.shape = "tuple"   ->
                    IF tree.t # "arr" THEN {}
                    ELSE {parts.of : parts \in DecodeAll(FieldTypes(fields), tree.items)}
              [] variant.shape = "named"   ->
                    IF tree.t # "obj" THEN {}
                    ELSE DecodeByMatch(fields, type.deny, FALSE, tree.entries)
    IN  {Case(i, values) : values \in Values}

Named(type, name) == {i \in DOMAIN type.variants : type.variants[i].name = name}

\* The arm of a variant name; there is no other variant.
Arm(type, name, tree) == UNION {DecodeContent(type, i, tree) : i \in Named(type, name)}

ExternalDecode(type, tree) ==
    IF tree.t # "obj" \/ Len(tree.entries) # 1 THEN {}
    ELSE Arm(type, tree.entries[1][1], tree.entries[1][2])

\* The entries of one key, when it comes at most once and as Ok says.
Lone(entries, key) == SelectSeq(entries, LAMBDA entry : entry[1] = key)

InternalDecode(type, tree) ==
    IF tree.t # "obj" THEN {}
    ELSE LET tags == Lone(tree.entries, Tag)
             rest == SelectSeq(tree.entries, LAMBDA entry : entry[1] # Tag)
         IN  IF Len(tags) # 1 \/ tags[1][2].t # "str" THEN {}
             ELSE UNION {IF type.variants[i].shape = "unit" THEN {Case(i, <<>>)}
                         ELSE DecodeContent(type, i, Obj(rest)) : i \in Named(type, tags[1][2].s)}

AdjacentDecode(type, tree) ==
    IF tree.t # "obj" THEN {}
    ELSE LET tags == Lone(tree.entries, Tag)
             contents == Lone(tree.entries, ContentKey)
         IN  IF \/ Len(tags) # 1 \/ tags[1][2].t # "str" \/ Len(contents) > 1
                \/ Len(tags) + Len(contents) # Len(tree.entries)
             THEN {}
             ELSE UNION {IF type.variants[i].shape = "unit"
                         THEN IF contents = <<>> THEN {Case(i, <<>>)} ELSE {}
                         ELSE IF contents = <<>> THEN {}
                         ELSE DecodeContent(type, i, contents[1][2]) :
                            i \in Named(type, tags[1][2].s)}

\* The first variant that reads.
UntaggedDecode(type, tree) ==
    LET Reads == {i \in DOMAIN type.variants : DecodeContent(type, i, tree) # {}}
    IN  UNION {DecodeContent(type, i, tree) : i \in {j \in Reads : \A k \in Reads : j <= k}}

DecodeEnum(type, tree) ==
    CASE type.repr = "external" -> ExternalDecode(type, tree)
      [] type.repr = "internal" -> InternalDecode(type, tree)
      [] type.repr = "adjacent" -> AdjacentDecode(type, tree)
      [] type.repr = "untagged" -> UntaggedDecode(type, tree)

-----------------------------------------------------------------------------

\* The entries of a map in the order of their keys, so that equal maps are
\* equal values; KeyOrder lists the keys there are.
KeyOrder == <<"k", "x", "y", "z">>

InKeyOrder(entries) ==
    FlattenSeq([i \in DOMAIN KeyOrder |->
        SelectSeq(entries, LAMBDA entry : entry[1] = KeyOrder[i])])

DecodeInt(type, tree) ==
    IF tree.t = "num" /\ ~tree.float /\ tree.n \in IntegerRange[type.width]
    THEN {Simple(tree)} ELSE {}

\* An integer is a float as well.
DecodeFloat(tree) ==
    IF tree.t # "num" THEN {}
    ELSE {Simple(IF tree.float THEN tree ELSE Halves(2 * tree.n))}

DecodeOption(type, tree) ==
    IF tree = Null THEN {None} ELSE {Some(value) : value \in Decode(type.of, tree)}

DecodeList(type, tree) ==
    IF tree.t # "arr" THEN {}
    ELSE {Parts(items) : items \in
             Each([i \in DOMAIN tree.items |-> Decode(type.of, tree.items[i])])}

DecodeMap(type, tree) ==
    IF tree.t # "obj" THEN {}
    ELSE {Parts(InKeyOrder(Deduped(entries))) : entries \in
             Each([i \in DOMAIN tree.entries |->
                      {<<tree.entries[i][1], value>> :
                         value \in Decode(type.of, tree.entries[i][2])}])}

Decode(type, tree) ==
    CASE type.kind = "unit"  -> IF tree = Null THEN {Simple(Null)} ELSE {}
      [] type.kind = "str"   -> IF tree.t = "str" THEN {Simple(tree)} ELSE {}
      [] type.kind = "any"   -> {Simple(AsValue(tree))}
      [] type.kind = "int"   -> DecodeInt(type, tree)
      [] type.kind = "float" -> DecodeFloat(tree)
      [] type.kind = "option" -> DecodeOption(type, tree)
      [] type.kind = "seq"   -> DecodeList(type, tree)
      [] type.kind = "map"   -> DecodeMap(type, tree)
      [] type.kind = "tuple" ->
            IF tree.t # "arr" THEN {} ELSE DecodeAll(type.items, tree.items)
      [] type.kind = "struct" -> DecodeStruct(type, tree)
      [] type.kind = "enum"   -> DecodeEnum(type, tree)

-----------------------------------------------------------------------------
(* The schema a derived type carries: the constant the macro builds from   *)
(* the declaration.  It is all that the validator, the compatibility check *)
(* and the JSON Schema generator know of a type.                           *)

Opaque == [k |-> "opaque"]

\* No tag, no content key.
Absent == ""

\* integer_range: the bounds are i128, so u128 is cut off.
SchemaRange(schema) ==
    LET range == IntegerRange[schema.width]
        lo == CHOOSE n \in range : \A m \in range : n <= m
        hi == CHOOSE n \in range : \A m \in range : n >= m
    IN  [lo |-> lo, hi |-> IF hi > I128Max THEN I128Max ELSE hi]

\* Mutant: an Option must be given.
SchemaRequiredUnlessDefault(f, default) == ~(default \/ f.default \/ f.skip)

\* required: a field that a document must give.
SchemaRequired(f, default) == ~(default \/ f.default \/ f.skip \/ IsOption(f.ty))

RECURSIVE SchemaOf(_)

\* A skipped field has no type on the wire.
FieldSchema(f, default) ==
    [name |-> f.name, orig |-> f.ident, required |-> SchemaRequired(f, default),
     flattened |-> f.flat, policy |-> f.policy,
     ty |-> IF f.skip THEN Opaque ELSE SchemaOf(f.ty)]

FieldSchemas(fields, default) == [i \in DOMAIN fields |-> FieldSchema(fields[i], default)]

StructSchema(fields, default, deny, depth, transparent) ==
    [k |-> "struct", transparent |-> transparent, depth |-> depth, deny |-> deny,
     fields |-> FieldSchemas(fields, default)]

\* A struct variant takes neither deny_unknown_fields nor max_depth.
VariantContent(variant) ==
    CASE variant.shape = "unit"    -> [k |-> "unit"]
      [] variant.shape = "newtype" -> SchemaOf(variant.fields[1].ty)
      [] variant.shape = "tuple"   ->
            [k |-> "tuple", items |-> [i \in DOMAIN variant.fields |-> SchemaOf(variant.fields[i].ty)]]
      [] variant.shape = "named"   -> StructSchema(variant.fields, FALSE, FALSE, NoLimit, FALSE)

VariantSchema(variant) ==
    [name |-> variant.name, orig |-> variant.ident, ty |-> VariantContent(variant),
     policy |-> IF variant.shape = "newtype" THEN variant.fields[1].policy ELSE NoPolicy]

EnumSchema(type) ==
    [k |-> "enum", depth |-> type.depth, deny |-> type.deny,
     tag |-> IF type.repr \in {"internal", "adjacent"} THEN Tag ELSE Absent,
     content |-> IF type.repr = "adjacent" THEN ContentKey ELSE Absent,
     untagged |-> type.repr = "untagged",
     variants |-> [i \in DOMAIN type.variants |-> VariantSchema(type.variants[i])]]

SchemaOf(type) ==
    CASE type.kind \in {"unit", "str", "float"} -> [k |-> type.kind]
      [] type.kind = "any"   -> Opaque
      [] type.kind = "int"   -> [k |-> "int", width |-> type.width]
      [] type.kind \in {"seq", "map", "option"} -> [k |-> type.kind, of |-> SchemaOf(type.of)]
      [] type.kind = "tuple" ->
            [k |-> "tuple", items |-> [i \in DOMAIN type.items |-> SchemaOf(type.items[i])]]
      [] type.kind = "struct" ->
            StructSchema(type.fields, type.default, type.deny, type.depth, type.transparent)
      [] type.kind = "enum"  -> EnumSchema(type)

-----------------------------------------------------------------------------
(* The JSON Schema generator: the keywords it writes for a schema, as a    *)
(* record of those that are there; titles are left out.                    *)

\* b replaces and adds keywords, as inserting them into a Map does.
With(a, b) == [key \in DOMAIN a \cup DOMAIN b |-> IF key \in DOMAIN b THEN b[key] ELSE a[key]]

IsUnsigned(schema) == 0 = SchemaRange(schema).lo

RECURSIVE Keywords(_)

StructKeywords(schema) ==
    LET fields == schema.fields
        Names == {fields[i].name : i \in DOMAIN fields}
        \* Inserted in order: the last field of a name stands.
        Of(name) == CHOOSE i \in DOMAIN fields :
                       /\ fields[i].name = name
                       /\ \A j \in i + 1 .. Len(fields) : fields[j].name # name
    IN  [type |-> "object",
         properties |-> [name \in Names |-> Keywords(fields[Of(name)].ty)],
         required |-> {fields[i].name : i \in {j \in DOMAIN fields : fields[j].required}},
         additional |-> ~schema.transparent]

\* The keywords of a tagged variant: the tag's property stands among them,
\* not under "properties", and gives way to a keyword of its name.
VariantKeywords(schema, variant) ==
    IF schema.tag = Absent THEN Keywords(variant.ty)
    ELSE With([key \in {schema.tag} |-> [enum |-> {variant.name}]], Keywords(variant.ty))

EnumKeywords(schema) ==
    LET variants == schema.variants
    IN  IF schema.untagged
        THEN [oneOf |-> [i \in DOMAIN variants |-> Keywords(variants[i].ty)]]
        ELSE IF schema.tag = Absent /\ \A i \in DOMAIN variants : variants[i].ty.k = "unit"
        THEN [type |-> "string", enum |-> {variants[i].name : i \in DOMAIN variants}]
        ELSE [oneOf |-> [i \in DOMAIN variants |-> VariantKeywords(schema, variants[i])]]

Keywords(schema) ==
    CASE schema.k = "opaque" -> <<>>
      [] schema.k = "unit"   -> [type |-> "null"]
      [] schema.k = "str"    -> [type |-> "string"]
      [] schema.k = "float"  -> [type |-> "number"]
      [] schema.k = "int"    -> IF IsUnsigned(schema) THEN [type |-> "integer", minimum |-> 0]
                                ELSE [type |-> "integer"]
      [] schema.k = "seq"    -> [type |-> "array", items |-> Keywords(schema.of)]
      [] schema.k = "map"    -> [type |-> "object", entries |-> Keywords(schema.of)]
      [] schema.k = "option" -> With(Keywords(schema.of), [nullable |-> TRUE])
      [] schema.k = "tuple"  ->
            [type |-> "array", prefix |-> [i \in DOMAIN schema.items |-> Keywords(schema.items[i])],
             count |-> Len(schema.items)]
      [] schema.k = "struct" -> StructKeywords(schema)
      [] schema.k = "enum"   -> EnumKeywords(schema)

=============================================================================
