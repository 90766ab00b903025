\* Every string of up to six number bytes, behind an opening quote every
\* string of up to four bytes of any class and seven that spell escapes, and
\* every integer literal of up to four digits at widths of 4 and 8 bits, and
\* up to four digits of varints of 7 bits, three at a time; and a map of four
\* keys that indexes from two entries on.
SPECIFICATION AtomsSpec
CONSTANTS
    MaxNumber = 6
    MaxString = 5
    MaxEscape = 8
    Word = 16
    MaxDigits = 4
    Payload = 3
    Width = 7
    MaxVarint = 4
    Keys = {k1, k2, k3, k4}
    Values = {v1, v2}
    Threshold = 2
INVARIANTS
    NumbersAreJson
    LexersAgree
    StringsAreJson
    IntegersAreExact
    TypedReadsAreExact
    VarintsAreExact
    IndexMatches
PROPERTIES
    ImplementsList
\* The longest inputs end the exploration.
CHECK_DEADLOCK FALSE
