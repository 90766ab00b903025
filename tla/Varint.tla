------------------------------- MODULE Varint -------------------------------
(***************************************************************************)
(* The variable-length integers of formats/bin.rs: digits of Payload bits, *)
(* the lowest first, and on each whether another follows.  In the code a   *)
(* digit has 7 bits and a value 64, so that the last of ten digits has     *)
(* room for one bit; a scaled Payload and Width keep that remainder.       *)
(***************************************************************************)
EXTENDS Naturals, Sequences, FiniteSets

CONSTANTS
    Payload,    (* bits of a digit: 7 in the code                          *)
    Width       (* bits of a value: 64 in the code                         *)

\* b to the n, counted out: the provers know nothing of ^.
Power(b, n) ==
    LET Times[k \in 0 .. n] == IF k = 0 THEN 1 ELSE b * Times[k - 1]
    IN  Times[n]

Base == Power(2, Payload)

Digit(n, more) == [n |-> n, more |-> more]

\* write_varint: as many digits as the value needs, one at least.
WriteVarint(value) ==
    LET n == 1 + Cardinality({k \in 1 .. Width : Power(Base, k) <= value})
    IN  [i \in 1 .. n |-> Digit((value \div Power(Base, i - 1)) % Base, i < n)]

Overlong == [ok |-> FALSE, value |-> 0, next |-> 0]

\* Mutant: a last digit of zero is a digit like any other.
DigitOkPadded(shift, digit) ==
    ~(shift >= Width \/ (shift = Width - 1 /\ digit.n > 1))

\* What read_varint asks of a digit shift bits up: that it does not carry
\* the value past its width, and that the last one is not an idle zero.
DigitOk(shift, digit) ==
    /\ ~(shift >= Width \/ (shift = Width - 1 /\ digit.n > 1))
    /\ ~digit.more => ~(shift > 0 /\ digit.n = 0)
    /\ digit.more => shift + Payload < Width + Payload - 1

\* The first i digits, each shifted to its place.
VarintUpTo(input, i) ==
    LET Value[k \in 0 .. i] ==
            IF k = 0 THEN 0 ELSE Value[k - 1] + input[k].n * Power(Base, k - 1)
    IN  Value[i]

\* read_varint, that reads to the first digit without another or gives up
\* at one that is not right.
ReadVarint(input) ==
    LET Ends(i) == \A j \in 1 .. i :
            DigitOk((j - 1) * Payload, input[j]) /\ (input[j].more <=> j < i)
        last == CHOOSE i \in DOMAIN input : Ends(i)
    IN  IF \E i \in DOMAIN input : Ends(i)
        THEN [ok |-> TRUE, value |-> VarintUpTo(input, last), next |-> last + 1]
        ELSE Overlong

-----------------------------------------------------------------------------
(* VInts (formats/smile.rs): the highest digit first and a mark on the     *)
(* last, which has a bit less.  The longest one, of ten digits, has one    *)
(* bit in its last, so that the digits before it hold all the others.      *)

MaxVIntDigits == (Width - 1) \div Payload + 1

FinalBase == Power(2, Payload - 1)

\* The digits of a value, as many as it has or as many as are wanted.
DigitsOf(value, n) == [i \in 1 .. n |-> Digit((value \div Power(Base, n - i)) % Base, TRUE)]

DigitCount(value) == Cardinality({k \in 0 .. Width : Power(Base, k) <= value})

\* Mutant: the last digit has always as many bits.
WriteVIntOneWay(value) ==
    DigitsOf(value \div FinalBase, DigitCount(value \div FinalBase))
        \o <<Digit(value % FinalBase, FALSE)>>

\* write_vint: the two bits at the top make the difference.
WriteVInt(value) ==
    IF value \div Power(2, Width - 2) # 0
    THEN DigitsOf(value \div 2, MaxVIntDigits - 1) \o <<Digit(value % 2, FALSE)>>
    ELSE WriteVIntOneWay(value)

\* The first i digits, each below the one before.
VIntUpTo(input, i) ==
    LET Value[k \in 0 .. i] == IF k = 0 THEN 0 ELSE Value[k - 1] * Base + input[k].n
    IN  Value[i]

\* read_vint, that reads to the first digit with the mark; a bit of that one
\* is not looked at, and the last there may be has room for one only.
ReadVInt(input) ==
    LET Ends(i) == i <= MaxVIntDigits /\ \A j \in 1 .. i : input[j].more <=> j < i
        last == CHOOSE i \in DOMAIN input : Ends(i)
        final == input[last].n % FinalBase
        room == IF last = MaxVIntDigits THEN 2 ELSE FinalBase
    IN  IF (\A i \in DOMAIN input : ~Ends(i)) \/ final >= room THEN Overlong
        ELSE [ok |-> TRUE, value |-> VIntUpTo(input, last - 1) * room + final, next |-> last + 1]
=============================================================================
