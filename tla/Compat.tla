------------------------------- MODULE Compat -------------------------------
(***************************************************************************)
(* The compatibility check of two releases of a schema: what differs, as a *)
(* set of issues, and from them whether each direction is safe.  Forward:  *)
(* an old reader gets what the new release writes; backward: a new reader  *)
(* gets what the old one wrote.  Paths, messages and severities are left   *)
(* out: the verdict does not depend on them.                               *)
(***************************************************************************)
EXTENDS DeclaredTypes

\* Mutant: an added Option is taken for a note.
BreaksForwardCritical ==
    {"RequiredRemoved", "FieldRenamed", "TypeChanged", "IntToFloat", "VariantAdded",
     "VariantRenamed", "TagChanged", "ShapeChanged"}

\* direction(): the kinds that break an old reader, and a new one.
BreaksForward ==
    {"RequiredRemoved", "FieldRenamed", "TypeChanged", "IntToFloat", "VariantAdded",
     "VariantRenamed", "TagChanged", "ShapeChanged", "OptionalAdded"}

BreaksBackward ==
    {"RequiredAdded", "FieldRenamed", "TypeChanged", "RangeNarrowed", "FloatToInt",
     "VariantRemoved", "VariantRenamed", "TagChanged", "ShapeChanged", "OptionalRemoved"}

Issue(condition, kind) == IF condition THEN {kind} ELSE {}

RECURSIVE Diff(_, _)

\* The members of a sequence of fields or variants with a property.
Such(members, P(_)) == {i \in DOMAIN members : P(members[i])}

\* Fields and variants are matched by the name on the wire, and what finds no
\* match by the name in the source.
DiffField(of, newFields) ==
    LET SameName == Such(newFields, LAMBDA nf : nf.name = of.name)
        SameOrig == Such(newFields, LAMBDA nf : nf.orig = of.orig)
        nf == newFields[Only(SameName)]
    IN  IF SameName # {}
        THEN Diff(of.ty, nf.ty)
             \cup Issue(of.policy # nf.policy, "PolicyChanged")
             \cup Issue(~of.required /\ nf.required, "OptionalRemoved")
             \cup Issue(of.required /\ ~nf.required, "OptionalAdded")
        ELSE IF SameOrig # {} THEN {"FieldRenamed"}
        ELSE {IF of.required THEN "RequiredRemoved" ELSE "FieldRemoved"}

IsKnown(member, members) ==
    Such(members, LAMBDA m : m.name = member.name \/ m.orig = member.orig) # {}

\* Mutant: an added field is never required.
AddedOptional(nf, oldFields) == Issue(~IsKnown(nf, oldFields), "FieldAdded")

AddedField(nf, oldFields) ==
    IF IsKnown(nf, oldFields) THEN {}
    ELSE {IF nf.required THEN "RequiredAdded" ELSE "FieldAdded"}

DiffStruct(os, ns) ==
    Issue(os.transparent # ns.transparent, "ShapeChanged")
    \cup Issue(os.depth # ns.depth \/ os.deny # ns.deny, "PolicyChanged")
    \cup UNION {DiffField(os.fields[i], ns.fields) : i \in DOMAIN os.fields}
    \cup UNION {AddedField(ns.fields[i], os.fields) : i \in DOMAIN ns.fields}

DiffVariant(ov, newVariants) ==
    LET SameName == Such(newVariants, LAMBDA nv : nv.name = ov.name)
        SameOrig == Such(newVariants, LAMBDA nv : nv.orig = ov.orig)
        nv == newVariants[Only(SameName)]
    IN  IF SameName # {}
        THEN Diff(ov.ty, nv.ty) \cup Issue(ov.policy # nv.policy, "PolicyChanged")
        ELSE {IF SameOrig # {} THEN "VariantRenamed" ELSE "VariantRemoved"}

AddedVariant(nv, oldVariants) == Issue(~IsKnown(nv, oldVariants), "VariantAdded")

DiffEnum(oe, ne) ==
    Issue(<<oe.tag, oe.content, oe.untagged>> # <<ne.tag, ne.content, ne.untagged>>, "TagChanged")
    \cup Issue(oe.depth # ne.depth \/ oe.deny # ne.deny, "PolicyChanged")
    \cup UNION {DiffVariant(oe.variants[i], ne.variants) : i \in DOMAIN oe.variants}
    \cup UNION {AddedVariant(ne.variants[i], oe.variants) : i \in DOMAIN ne.variants}

\* A range that holds the old one is no issue.
DiffRange(ra, rb) == Issue(~(rb.lo <= ra.lo /\ rb.hi >= ra.hi), "RangeNarrowed")

DiffTuple(oi, ni) ==
    Issue(Len(oi) # Len(ni), "ShapeChanged")
    \cup UNION {Diff(oi[i], ni[i]) : i \in DOMAIN oi \cap DOMAIN ni}

Diff(old, new) ==
    LET Both(k) == old.k = k /\ new.k = k
    IN  CASE old = new -> {}
          [] old # new /\ \E k \in {"option", "seq", "map"} : Both(k) -> Diff(old.of, new.of)
          [] old.k = "option" /\ new.k # "option" -> {"OptionalRemoved"} \cup Diff(old.of, new)
          [] old.k # "option" /\ new.k = "option" -> {"OptionalAdded"} \cup Diff(old, new.of)
          [] old # new /\ Both("tuple")  -> DiffTuple(old.items, new.items)
          [] old # new /\ Both("struct") -> DiffStruct(old, new)
          [] old # new /\ Both("enum")   -> DiffEnum(old, new)
          [] old # new /\ Both("int")    -> DiffRange(SchemaRange(old), SchemaRange(new))
          [] old.k = "int" /\ new.k = "float" -> {"IntToFloat"}
          [] old.k = "float" /\ new.k = "int" -> {"FloatToInt"}
          [] OTHER -> {"TypeChanged"}

\* check
Check(old, new) ==
    LET issues == Diff(old, new)
    IN  [issues |-> issues,
         forward |-> issues \cap BreaksForward = {},
         backward |-> issues \cap BreaksBackward = {}]
=============================================================================
