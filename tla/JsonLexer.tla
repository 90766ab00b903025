----------------------------- MODULE JsonLexer ------------------------------
(***************************************************************************)
(* The atoms of JSON, byte by byte: numbers and strings as the lexer of    *)
(* BytesReader (de.rs) and the one of StreamDecoder (stream.rs) read them. *)
(* Both "must apply identical byte-level rules" (lex.rs).                  *)
(*                                                                         *)
(* Bytes are names of byte classes: "0", "1" (any other digit), "-", "+",  *)
(* ".", "e"; "q" the quote, "bs" the backslash, "ctl" a control byte,      *)
(* "bad" a byte that is not UTF-8, "u", "n" (a letter that is a simple     *)
(* escape), "x" (one that is not); "hi", "lo" and "bmp" are four hex       *)
(* digits: a high surrogate, a low surrogate, any other code unit.         *)
(*                                                                         *)
(* A lexer returns [ok, next, chars]: next is the position behind the      *)
(* atom, chars the decoded characters of a string.                         *)
(***************************************************************************)
EXTENDS Integers, Sequences

Digits == {"0", "1"}

Quads == {"hi", "lo", "bmp"}

Specials == {"q", "bs", "ctl"}

Refused == [ok |-> FALSE, next |-> 0, chars |-> <<>>]

Accepted(next, chars) == [ok |-> TRUE, next |-> next, chars |-> chars]

Byte(s, p) == IF p <= Len(s) THEN s[p] ELSE "eof"

-----------------------------------------------------------------------------
(* Numbers: the scan is the same text in both lexers.                      *)

\* The first position from p on whose byte is not in class.
RunEnd(s, p, class) ==
    CHOOSE q \in p .. Len(s) + 1 :
        /\ \A i \in p .. q - 1 : s[i] \in class
        /\ Byte(s, q) \notin class

\* 0 stands for "refused" in the positions below.
IntegerEnd(s, p) ==
    CASE Byte(s, p) = "0" -> IF Byte(s, p + 1) \in Digits THEN 0 ELSE p + 1
      [] Byte(s, p) = "1" -> RunEnd(s, p + 1, Digits)
      [] OTHER            -> 0

DigitsEnd(s, p) == IF RunEnd(s, p, Digits) = p THEN 0 ELSE RunEnd(s, p, Digits)

FractionEnd(s, p) == IF Byte(s, p) = "." THEN DigitsEnd(s, p + 1) ELSE p

\* Mutant: an exponent may be a bare sign.
ExponentEndBare(s, p) ==
    IF Byte(s, p) = "e"
    THEN RunEnd(s, IF Byte(s, p + 1) \in {"+", "-"} THEN p + 2 ELSE p + 1, Digits)
    ELSE p

ExponentEnd(s, p) ==
    IF Byte(s, p) = "e"
    THEN DigitsEnd(s, IF Byte(s, p + 1) \in {"+", "-"} THEN p + 2 ELSE p + 1)
    ELSE p

LexNumber(s, p) ==
    LET integer  == IntegerEnd(s, IF Byte(s, p) = "-" THEN p + 1 ELSE p)
        fraction == IF integer = 0 THEN 0 ELSE FractionEnd(s, integer)
        end      == IF fraction = 0 THEN 0 ELSE ExponentEnd(s, fraction)
    IN  IF end = 0 THEN Refused ELSE Accepted(end, <<>>)

-----------------------------------------------------------------------------
(* Strings.  p is the position of the opening quote.                       *)

\* core::str::from_utf8 on a run of the input.
Utf8(s, from, end) == \A i \in from .. end - 1 : s[i] # "bad"

Text(s, from, end) == SubSeq(s, from, end - 1)

\* Where the plain run from p on stops.
PlainEnd(s, p) ==
    CHOOSE q \in p .. Len(s) + 1 :
        /\ \A i \in p .. q - 1 : s[i] \notin Specials
        /\ Byte(s, q) \in Specials \cup {"eof"}

\* A surrogate pair is one character.
Pair == "pair"

\* Mutant: any low surrogate position is taken on trust.
UnicodeEscapeUnpaired(s, p) ==
    CASE Byte(s, p) = "bmp" -> Accepted(p + 1, <<"bmp">>)
      [] Byte(s, p) = "hi" /\ Byte(s, p + 1) = "bs" /\ Byte(s, p + 2) = "u"
            /\ Byte(s, p + 3) \in Quads -> Accepted(p + 4, <<Pair>>)
      [] OTHER -> Refused

\* \uXXXX with its quad at p: a low surrogate alone, and a high one that no
\* \u and low one follow, are refused.
UnicodeEscape(s, p) ==
    CASE Byte(s, p) = "bmp" -> Accepted(p + 1, <<"bmp">>)
      [] Byte(s, p) = "hi" /\ Byte(s, p + 1) = "bs" /\ Byte(s, p + 2) = "u"
            /\ Byte(s, p + 3) = "lo" -> Accepted(p + 4, <<Pair>>)
      [] OTHER -> Refused

\* The escape whose backslash is at p.
Escape(s, p) ==
    CASE Byte(s, p + 1) = "u" -> UnicodeEscape(s, p + 2)
      [] Byte(s, p + 1) \in {"n", "q", "bs"} -> Accepted(p + 2, <<"esc">>)
      [] OTHER -> Refused

\* BytesReader::unescape from position p on, text decoded so far being done:
\* a loop over quote, escape, control byte and plain run.
BytesUnescape(s, p) ==
    LET From[i \in 1 .. Len(s) + 1] ==
            LET More(a) == IF a.ok /\ From[a.next].ok
                           THEN Accepted(From[a.next].next, a.chars \o From[a.next].chars)
                           ELSE Refused
            IN  CASE Byte(s, i) = "q" -> Accepted(i + 1, <<>>)
                  [] Byte(s, i) = "bs" -> More(Escape(s, i))
                  [] Byte(s, i) \in {"eof", "ctl"} -> Refused
                  [] OTHER -> IF Utf8(s, i, PlainEnd(s, i))
                              THEN More(Accepted(PlainEnd(s, i), Text(s, i, PlainEnd(s, i))))
                              ELSE Refused
    IN  From[p]

\* Mutant: a control byte behind an escape is not looked for.
BytesStringFirstRunOnly(s, p) ==
    LET special == {i \in p + 1 .. Len(s) : s[i] \in {"q", "bs"}}
        first == CHOOSE i \in special : \A j \in special : i <= j
        rest == BytesUnescape(s, first)
    IN  IF special = {} \/ ~Utf8(s, p + 1, first) THEN Refused
        ELSE IF s[first] = "q" THEN Accepted(first + 1, Text(s, p + 1, first))
        ELSE IF rest.ok THEN Accepted(rest.next, Text(s, p + 1, first) \o rest.chars)
        ELSE Refused

\* BytesReader::lex_string_str: find the first special byte; a string
\* without escapes is borrowed, any other goes through unescape.
BytesString(s, p) ==
    LET special == {i \in p + 1 .. Len(s) : s[i] \in Specials}
        first == CHOOSE i \in special : \A j \in special : i <= j
        rest == BytesUnescape(s, first)
    IN  IF special = {} \/ ~Utf8(s, p + 1, first) THEN Refused
        ELSE CASE s[first] = "q"   -> Accepted(first + 1, Text(s, p + 1, first))
               [] s[first] = "ctl" -> Refused
               [] s[first] = "bs"  -> IF rest.ok
                                      THEN Accepted(rest.next, Text(s, p + 1, first) \o rest.chars)
                                      ELSE Refused

\* StreamDecoder::lex_string: one loop of "plain run, then what stopped it".
StreamString(s, p) ==
    LET From[i \in 1 .. Len(s) + 1] ==
            LET q == PlainEnd(s, i)
                run == Text(s, i, q)
                Behind(escape) ==
                    IF escape.ok /\ From[escape.next].ok
                    THEN Accepted(From[escape.next].next,
                                  run \o escape.chars \o From[escape.next].chars)
                    ELSE Refused
            IN  CASE ~Utf8(s, i, q) \/ Byte(s, q) \in {"ctl", "eof"} -> Refused
                  [] Utf8(s, i, q) /\ Byte(s, q) = "q"  -> Accepted(q + 1, run)
                  [] Utf8(s, i, q) /\ Byte(s, q) = "bs" -> Behind(Escape(s, q))
    IN  From[p + 1]

-----------------------------------------------------------------------------
(* Integers in number.rs: Number is an enum over two widths, the variant   *)
(* of a value follows from its range, and three pieces of code choose it - *)
(* BytesReader while it scans, Number::parse (stream and fallback), and    *)
(* From for Rust integers.                                                 *)
(*                                                                         *)
(* Word is 2^64 scaled down, Word * Word stands for 2^128.  A text is      *)
(* [minus, digits]; a Number is [kind, value]; Invalid is an error.        *)

CONSTANT Word       (* 2^64, scaled down: an even number *)

ASSUME JsonNumberAssumption == Word \in Nat /\ Word > 1 /\ Word % 2 = 0

Half == Word \div 2

Wide == Word * Word

I64 == -Half .. Half - 1
U64 == 0 .. Word - 1
I128 == -(Wide \div 2) .. (Wide \div 2) - 1
U128 == 0 .. Wide - 1

Number(kind, value) == [kind |-> kind, value |-> value]

Invalid == [kind |-> "invalid", value |-> 0]

Overflow == -1

\* checked_mul(10) and checked_add over the digits: the first that does not
\* fit makes the rest None.
Magnitude(digits, limit) ==
    LET Step(acc, d) == IF acc = Overflow \/ acc * 10 + d >= limit
                        THEN Overflow ELSE acc * 10 + d
        Upto[k \in 0 .. Len(digits)] == IF k = 0 THEN 0 ELSE Step(Upto[k - 1], digits[k])
    IN  Upto[Len(digits)]

-----------------------------------------------------------------------------
\* Mutant: i128::MIN is taken for out of range.
ParseWideShort(minus, digits) ==
    LET m == Magnitude(digits, Wide)
    IN  IF m = Overflow \/ (minus /\ m >= Wide \div 2) THEN Invalid
        ELSE IF minus THEN Number("I128", -m)
        ELSE Number("U128", m)

\* parse_i128, parse_u128.
ParseWide(minus, digits) ==
    LET m == Magnitude(digits, Wide)
    IN  IF m = Overflow \/ (minus /\ m > Wide \div 2) THEN Invalid
        ELSE IF minus THEN Number("I128", -m)
        ELSE Number("U128", m)

\* Mutant: the magnitude of i64::MIN is left to the wide parser.
ParseStrict(minus, digits) ==
    LET m == Magnitude(digits, Word)
    IN  IF m = Overflow \/ (minus /\ m >= Half) THEN ParseWide(minus, digits)
        ELSE IF minus THEN Number("I64", -m)
        ELSE Number("U64", m)

\* Number::parse on an integer.
Parse(minus, digits) ==
    LET m == Magnitude(digits, Word)
    IN  IF m = Overflow \/ (minus /\ m > Half) THEN ParseWide(minus, digits)
        ELSE IF minus THEN Number("I64", -m)
        ELSE Number("U64", m)

\* BytesReader::lex_number_value: the magnitude is summed during the scan; a
\* negative one beyond i64 is already known to fit i128.
LexInteger(minus, digits) ==
    LET m == Magnitude(digits, Word)
    IN  IF m = Overflow THEN Parse(minus, digits)
        ELSE IF ~minus THEN Number("U64", m)
        ELSE IF m <= Half THEN Number("I64", -m)
        ELSE Number("I128", -m)

-----------------------------------------------------------------------------
\* From for i8 .. i128: every non-negative integer is a U64 if it fits.
FromSigned(v) ==
    CASE v < -Half         -> Number("I128", v)
      [] v \in -Half .. -1 -> Number("I64", v)
      [] v \in U64         -> Number("U64", v)
      [] v >= Word         -> Number("U128", v)

\* From for u8 .. u128.
FromUnsigned(v) == IF v \in U64 THEN Number("U64", v) ELSE Number("U128", v)

\* as_i128, as_u128, and try_from into a narrower type: one value or none.
As(range, n) == IF n.value \in range THEN <<n.value>> ELSE <<>>

Narrow(range, wide) == IF wide # <<>> /\ wide[1] \in range THEN wide ELSE <<>>

\* Mutant: signed reads pass through the unsigned width.
ReadSignedUnsigned(range, n) == Narrow(range, As(U128, n))

\* i8() .. i128() and u8() .. u128() of a decoder.
ReadSigned(range, n) == Narrow(range, As(I128, n))

ReadUnsigned(range, n) == Narrow(range, As(U128, n))

\* Mutant: the sign of a wide number is lost.
ShowMagnitude(n) ==
    LET m == IF n.value < 0 THEN -n.value ELSE n.value
        Decimal[k \in 0 .. m] == IF k < 10 THEN <<k>> ELSE Append(Decimal[k \div 10], k % 10)
    IN  [minus |-> n.kind = "I64", digits |-> Decimal[m]]

\* Display: minus and digits, most significant first.
Show(n) ==
    LET m == IF n.value < 0 THEN -n.value ELSE n.value
        Decimal[k \in 0 .. m] == IF k < 10 THEN <<k>> ELSE Append(Decimal[k \div 10], k % 10)
    IN  [minus |-> n.value < 0, digits |-> Decimal[m]]
=============================================================================
