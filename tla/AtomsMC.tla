------------------------------ MODULE AtomsMC -------------------------------
(***************************************************************************)
(* The data underneath the protocols, for TLC: the lexers, Number, varints *)
(* and Map.  Either bytes is every byte string that may begin a number or  *)
(* a string, or literal is every integer literal that the lexers let       *)
(* through (no leading zero), or varint is every sequence of varint        *)
(* digits, grown one at a time; or a map is used in every way.             *)
(***************************************************************************)
EXTENDS JsonLexer, Varint, OrderedMap

CONSTANTS
    MaxNumber,  (* bound: bytes of what may be a number                    *)
    MaxString,  (* bound: bytes of what may be a string                    *)
    MaxEscape,  (* bound: the same, of escapes only                        *)
    MaxDigits,  (* bound: digits of an integer literal                     *)
    MaxVarint   (* bound: digits of a varint                               *)

ASSUME AtomsAssumption == {MaxNumber, MaxString, MaxEscape, MaxDigits, MaxVarint} \subseteq Nat

\* Of 7 bits and 64, the last of ten digits has room for one.
ASSUME VarintAssumption ==
    /\ Payload \in Nat /\ Payload > 1 /\ Width \in Nat
    /\ \E n \in 1 .. Width : Width = Payload * n + 1

NumberBytes == {"0", "1", "-", "+", ".", "e", "x"}

StringBytes == {"q", "bs", "ctl", "bad", "u", "n", "x", "hi", "lo", "bmp"}

\* Enough for surrogate pairs, whole and broken.
EscapeBytes == {"q", "bs", "u", "hi", "lo"}

VARIABLES bytes, literal, varint

NoLiteral == [minus |-> FALSE, digits |-> <<>>]

Start ==
    /\ Init
    /\ bytes \in {<<>>} \cup {<<b>> : b \in {"0", "1", "-", ".", "q"}}
    /\ literal \in {NoLiteral} \cup [minus : BOOLEAN, digits : {<<d>> : d \in 0 .. 9}]
    /\ bytes # <<>> => literal = NoLiteral
    /\ varint = <<>>

Grow(alphabet, max) ==
    /\ Len(bytes) < max
    /\ \E b \in alphabet : bytes' = Append(bytes, b)
    /\ UNCHANGED <<literal, varint, vars>>

IsString == bytes # <<>> /\ bytes[1] = "q"

GrowNumber == bytes # <<>> /\ ~IsString /\ Grow(NumberBytes, MaxNumber)

GrowString == IsString /\ Grow(StringBytes, MaxString)

GrowEscapes ==
    /\ IsString /\ \A i \in 1 .. Len(bytes) : bytes[i] \in EscapeBytes
    /\ Grow(EscapeBytes, MaxEscape)

GrowLiteral ==
    /\ Len(literal.digits) \in 1 .. MaxDigits - 1 /\ literal.digits # <<0>>
    /\ \E d \in 0 .. 9 : literal' = [literal EXCEPT !.digits = Append(@, d)]
    /\ UNCHANGED <<bytes, varint, vars>>

GrowVarint ==
    /\ bytes = <<>> /\ literal = NoLiteral /\ entries = <<>> /\ Len(varint) < MaxVarint
    /\ \E n \in 0 .. Base - 1, more \in BOOLEAN : varint' = Append(varint, Digit(n, more))
    /\ UNCHANGED <<bytes, literal, vars>>

UseMap ==
    /\ bytes = <<>> /\ literal = NoLiteral /\ varint = <<>>
    /\ Next
    /\ UNCHANGED <<bytes, literal, varint>>

Grows == GrowNumber \/ GrowString \/ GrowEscapes \/ GrowLiteral \/ GrowVarint \/ UseMap

AtomsSpec == Start /\ [][Grows]_<<bytes, literal, varint, vars>>

-----------------------------------------------------------------------------
(* The grammars of RFC 8259, sections 6 and 7.                             *)

AllDigits(s) == s # <<>> /\ \A i \in 1 .. Len(s) : s[i] \in Digits

IsInt(s) == AllDigits(s) /\ (s[1] = "0" => Len(s) = 1)

IsUnsigned(s) ==
    \E i \in 0 .. Len(s), j \in 0 .. Len(s) :
        LET int  == SubSeq(s, 1, i)
            frac == SubSeq(s, i + 1, j)
            exp  == SubSeq(s, j + 1, Len(s))
        IN  /\ i <= j /\ IsInt(int)
            /\ frac # <<>> => frac[1] = "." /\ AllDigits(Tail(frac))
            /\ exp # <<>> => /\ exp[1] = "e"
                             /\ \/ AllDigits(Tail(exp))
                                \/ /\ Len(exp) > 1 /\ exp[2] \in {"+", "-"}
                                   /\ AllDigits(SubSeq(exp, 3, Len(exp)))

IsNumber(s) == IsUnsigned(s) \/ (s # <<>> /\ s[1] = "-" /\ IsUnsigned(Tail(s)))

NumberPrefixes == {n \in 1 .. Len(bytes) : IsNumber(SubSeq(bytes, 1, n))}

Longest == CHOOSE n \in NumberPrefixes : \A m \in NumberPrefixes : m <= n

Begins(s, t) == Len(t) <= Len(s) /\ \A i \in 1 .. Len(t) : s[i] = t[i]

\* The character a spelling begins with, by the length of the spelling.
Spelled(s) ==
    CASE s[1] \in {"x", "n", "u"} \cup Quads -> [len |-> 1, char |-> s[1]]
      [] Len(s) >= 2 /\ s[1] = "bs" /\ s[2] \in {"n", "q", "bs"} -> [len |-> 2, char |-> "esc"]
      [] Begins(s, <<"bs", "u", "bmp">>) -> [len |-> 3, char |-> "bmp"]
      [] Begins(s, <<"bs", "u", "hi", "bs", "u", "lo">>) -> [len |-> 6, char |-> Pair]
      [] OTHER -> [len |-> 0, char |-> "none"]

\* The readings of the inside of a string: one, or none.
Readings(s) ==
    LET From[i \in 1 .. Len(s) + 1] ==
            LET Read(first) == IF first.len = 0 THEN {}
                               ELSE {<<first.char>> \o r : r \in From[i + first.len]}
            IN  IF i > Len(s) THEN {<<>>} ELSE Read(Spelled(SubSeq(s, i, Len(s))))
    IN  From[1]

\* The strings the input may begin with.
StringEnds == {n \in 2 .. Len(bytes) : bytes[n] = "q" /\ Readings(SubSeq(bytes, 2, n - 1)) # {}}

-----------------------------------------------------------------------------
(* Properties.                                                             *)

(* A number is read to its last byte, and one is refused only where no     *)
(* JSON document could go on: a digit, a point or an exponent that fits    *)
(* nowhere follows, or there is no number at all (lex_number).             *)
NumbersAreJson ==
    LET o == LexNumber(bytes, 1)
    IN  bytes # <<>> =>
        IF o.ok THEN NumberPrefixes # {} /\ o.next = Longest + 1
        ELSE NumberPrefixes # {} => Byte(bytes, Longest + 1) \in Digits \cup {".", "e"}

(* The two string lexers agree on every input, on where the string ends    *)
(* and on what it says (lex.rs: "identical byte-level rules").             *)
LexersAgree ==
    IsString => BytesString(bytes, 1) = StreamString(bytes, 1)

(* A lexer accepts exactly the strings of JSON, up to their closing quote, *)
(* and returns the characters their bytes spell.                           *)
StringsAreJson ==
    IsString =>
        LET o == BytesString(bytes, 1)
        IN  /\ o.ok <=> StringEnds # {}
            /\ o.ok => /\ o.next - 1 \in StringEnds
                       /\ o.chars \in Readings(SubSeq(bytes, 2, o.next - 2))

\* The number that digits spell.
Spells(digits) ==
    LET Upto[k \in 0 .. Len(digits)] == IF k = 0 THEN 0 ELSE Upto[k - 1] * 10 + digits[k]
    IN  Upto[Len(digits)]

\* What the literal means.
Value(l) == IF l.minus THEN -Spells(l.digits) ELSE Spells(l.digits)

Parsed == IF literal = NoLiteral THEN Invalid ELSE Parse(literal.minus, literal.digits)

NegativeZero == literal = [minus |-> TRUE, digits |-> <<0>>]

(* The two ways to an integer, summing while scanning and parsing the      *)
(* slice, end in the same Number, also at the edges of both widths.        *)
FastPathAgrees == literal # NoLiteral => LexInteger(literal.minus, literal.digits) = Parsed

(* No literal is rounded or wrapped: what is accepted has the literal's    *)
(* value, and it is refused exactly outside i128 and u128.                 *)
ParseIsExact ==
    literal # NoLiteral =>
    LET v == Value(literal)
        fits == v \in IF literal.minus THEN I128 ELSE U128
    IN  IF fits THEN Parsed # Invalid /\ Parsed.value = v ELSE Parsed = Invalid

(* Parsing picks the variant that construction picks, so equal integers    *)
(* are equal Numbers; minus zero, which stays I64, aside.                  *)
ParsedIsConstructed ==
    Parsed # Invalid /\ ~NegativeZero =>
        /\ Parsed.value \in U128 => Parsed = FromUnsigned(Parsed.value)
        /\ Parsed.value \in I128 => Parsed = FromSigned(Parsed.value)

(* A number that is written and read again is the same Number.             *)
RoundTrips ==
    Parsed # Invalid /\ ~NegativeZero =>
        LET shown == Show(Parsed) IN Parse(shown.minus, shown.digits) = Parsed

(* An integer literal is the integer it spells, in one Number, whichever   *)
(* way it was read, built or written (parse_number_slice, lex_number,      *)
(* Number::parse, From and Display).                                       *)
IntegersAreExact == FastPathAgrees /\ ParseIsExact /\ ParsedIsConstructed /\ RoundTrips

(* A typed read succeeds exactly when the literal fits the type asked for, *)
(* whatever variant holds it and whatever width it passes through.         *)
TypedReadsAreExact ==
    Parsed # Invalid =>
        LET v == Value(literal)
            Exact(range) == IF v \in range THEN <<v>> ELSE <<>>
        IN  /\ \A range \in {-1 .. 0, I64, I128} : ReadSigned(range, Parsed) = Exact(range)
            /\ \A range \in {0 .. 1, U64, U128} : ReadUnsigned(range, Parsed) = Exact(range)

Varints == [value \in 0 .. Power(2, Width) - 1 |-> WriteVarint(value)]

(* A value has one varint and that varint one value: read_varint accepts   *)
(* exactly what write_varint makes of some value of the width, returns     *)
(* that value, and stops behind it.                                        *)
VarintsAreCanonical ==
    varint # <<>> =>
        LET r == ReadVarint(varint)
            Starts(value) ==
                LET w == Varints[value]
                IN  Len(w) <= Len(varint) /\ SubSeq(varint, 1, Len(w)) = w
        IN  /\ r.ok <=> \E value \in DOMAIN Varints : Starts(value)
            /\ r.ok => /\ r.value \in DOMAIN Varints /\ Starts(r.value)
                       /\ r.next = Len(Varints[r.value]) + 1

VInts == [value \in 0 .. Power(2, Width) - 1 |-> WriteVInt(value)]

(* Every value of the width has a VInt, that reads back as the value and   *)
(* is the shortest that does; what read_vint accepts otherwise (with idle  *)
(* zeros in front) is no less a value of the width, and where a VInt ends  *)
(* it stops.                                                               *)
VIntsAreExact ==
    varint # <<>> =>
        LET r == ReadVInt(varint)
        IN  /\ r.ok => /\ r.value \in DOMAIN VInts
                       /\ Len(VInts[r.value]) <= r.next - 1
                       /\ ReadVInt(VInts[r.value]) =
                              [ok |-> TRUE, value |-> r.value, next |-> Len(VInts[r.value]) + 1]
            /\ \A value \in DOMAIN VInts :
                  Len(varint) = Len(VInts[value]) /\ varint = VInts[value] => r.ok /\ r.value = value

(* Varints of both forms carry every value of their width, and nothing     *)
(* else, across the boundaries of their bytes (varint.rs, Smile's vint).   *)
VarintsAreExact == VarintsAreCanonical /\ VIntsAreExact
=============================================================================
