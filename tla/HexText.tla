------------------------------ MODULE HexText ---------------------------------
(***************************************************************************)
(* The conversions of HexUtils between text and hashes.  A text is a       *)
(* sequence of characters; a digit is its value, whatever its case.        *)
(***************************************************************************)
EXTENDS Integers, Sequences

CONSTANTS
    Radix,         \* 16
    HashBytes      \* 32

ASSUME TextAssumption == Radix \in Nat \ {0, 1} /\ HashBytes \in Nat \ {0}

X == -1            \* the characters x and X
Other == -2        \* any other that is not a digit
Digit == 0 .. Radix - 1
Char == Digit \cup {X, Other}

Byte == 0 .. Radix * Radix - 1

StripPrefix(text) ==
    IF Len(text) >= 2 /\ text[1] = 0 /\ text[2] = X THEN SubSeq(text, 3, Len(text)) ELSE text

\* Faulty variant: zeros are added on the right.
PadRight(text, n) == text \o [i \in 1 .. n - Len(text) |-> 0]

Pad(text, n) == [i \in 1 .. n - Len(text) |-> 0] \o text

\* Faulty variant: a digit that is none counts as its error value.
hexToHashUnchecked(text, bytes, before) ==
    LET chars == Pad(StripPrefix(text), 2 * bytes)
    IN  IF Len(chars) # 2 * bytes THEN [ok |-> FALSE, hash |-> before]
        ELSE [ok |-> TRUE,
              hash |-> [i \in 1 .. bytes |-> Radix * chars[2 * i - 1] + chars[2 * i]]]

\* hexToHash32, and hexToHash64 with twice the bytes.  It fails on a text of the wrong
\* length, which leaves the hash as it was, and on one with a character that is no
\* digit, which leaves it with the bytes before that character.
hexToHash(text, bytes, before) ==
    LET chars == Pad(StripPrefix(text), 2 * bytes)
        readable(i) == \A j \in 1 .. 2 * i : chars[j] \in Digit
    IN  IF Len(chars) # 2 * bytes THEN [ok |-> FALSE, hash |-> before]
        ELSE [ok |-> readable(bytes),
              hash |-> [i \in 1 .. bytes |->
                          IF readable(i) THEN Radix * chars[2 * i - 1] + chars[2 * i]
                                         ELSE before[i]]]

hexToHash32(text, before) == hexToHash(text, HashBytes, before)

\* hash32ToHex with the prefix.
hash32ToHex(hash) ==
    <<0, X>> \o [i \in 1 .. 2 * HashBytes |->
                   IF i % 2 = 1 THEN hash[(i + 1) \div 2] \div Radix ELSE hash[i \div 2] % Radix]

\* What is meant by a text of digits and by a hash: a number, first the high digits.
WellFormed(text) ==
    LET digits == StripPrefix(text)
    IN  Len(digits) <= 2 * HashBytes /\ \A i \in 1 .. Len(digits) : digits[i] \in Digit

Value(radix, digits, length) ==
    LET v[n \in 0 .. length] == IF n = 0 THEN 0 ELSE radix * v[n - 1] + digits[n]
    IN  v[length]

NumberOfText(text) == Value(Radix, StripPrefix(text), Len(StripPrefix(text)))
NumberOfHash(hash) == Value(Radix * Radix, hash, HashBytes)
==============================================================================
