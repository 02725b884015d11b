------------------------------- MODULE Registry -------------------------------
(***************************************************************************)
(* segments.json: write_segments_json(), extract_json_uint() and the part  *)
(* of SegmentManager::load() that reads it (segment_manager.cpp).          *)
(*                                                                         *)
(* The parser looks for a key, then for a colon, then for digits; nothing  *)
(* says where the file ends.  A text is a sequence of tokens: a quoted key *)
(* is one token, every other one is a character.  The radix and the limits *)
(* of the integer types are parameters: what matters is that the product   *)
(* of an accepted prefix and the radix may not fit.                        *)
(***************************************************************************)
EXTENDS Integers, Sequences, SequencesExt

CONSTANTS
    Digits,     \* the digits in order, as characters
    Keys,       \* the keys in the order in which they are written and read
    Limit,      \* key |-> the maximum of its type
    MaxUint     \* the maximum of unsigned long long

ASSUME WidthAssumption ==
    /\ MaxUint \in Nat
    /\ \A i \in DOMAIN Keys : Limit[Keys[i]] \in 0 .. MaxUint

\* The characters of the text that are neither keys nor digits.
Open  == "{"
Close == "}"
Colon == ":"
Comma == ","
Space == " "
Marks == {Open, Close, Colon, Comma, Space}

ASSUME DigitsAssumption ==
    /\ Digits \in Seq(STRING) /\ Len(Digits) > 1 /\ IsInjective(Digits)
    /\ ToSet(Digits) \cap Marks = {}

ASSUME KeysAssumption ==
    /\ Keys \in Seq(STRING) /\ Keys # <<>> /\ IsInjective(Keys)
    /\ ToSet(Keys) \cap (Marks \cup ToSet(Digits)) = {}
    /\ Last(Keys) = "segment_count"

Base == Len(Digits)
DigitValue(c) == (CHOOSE i \in DOMAIN Digits : Digits[i] = c) - 1

-----------------------------------------------------------------------------
(* write_segments_json()                                                   *)

\* The numeral that operator<< writes for n.
Numeral(n) ==
    LET numeral[i \in 0 .. n] ==
            IF i < Base THEN <<Digits[i + 1]>>
                        ELSE Append(numeral[i \div Base], Digits[(i % Base) + 1])
    IN  numeral[n]

\* Mutant of Order: the number of segments is written in front of the others.
OrderCountFirst == <<Last(Keys)>> \o Front(Keys)

\* The keys in the order in which they are written.
Order == Keys

RegistryWritten(r) ==
    LET line(i) == <<Order[i], Colon, Space>> \o Numeral(r[Order[i]])
                       \o (IF i < Len(Order) THEN <<Comma>> ELSE <<>>) \o <<Space>>
    IN  <<Open, Space>> \o FlattenSeq([i \in DOMAIN Order |-> line(i)]) \o <<Close>>

-----------------------------------------------------------------------------
(* extract_json_uint() and its callers                                     *)

\* The first position from p on that holds one of chars, or behind the end.
FirstOf(content, p, chars) ==
    CHOOSE q \in p .. Len(content) + 1 :
        /\ \A i \in p .. q - 1 : content[i] \notin chars
        /\ q <= Len(content) => content[q] \in chars

AfterSpaces(content, p) == FirstOf(content, p, ToSet(content) \ {Space})

AfterDigits(content, p) == FirstOf(content, p, ToSet(content) \ ToSet(Digits))

\* Behind the key and the next colon; behind the end if one is missing.
ValueStart(content, key) ==
    LET found == FirstOf(content, 1, {key})
        colon == FirstOf(content, found, {Colon})
    IN  IF colon > Len(content) THEN colon ELSE AfterSpaces(content, colon + 1)

\* Mutant of Fits: the digit is left out.
FitsWithoutDigit(v, digit) == v <= MaxUint \div Base

\* Not value > (max - digit) / 10.
Fits(v, digit) == v <= (MaxUint - digit) \div Base

\* One digit more.
WithDigit(r, digit) ==
    IF r.ok /\ Fits(r.value, digit)
    THEN [r EXCEPT !.value = (@ * Base + digit) % (MaxUint + 1)]
    ELSE [r EXCEPT !.ok = FALSE]

\* The loop over the digits.
Accumulated(digits) ==
    LET read[i \in 0 .. Len(digits)] ==
            IF i = 0 THEN [ok |-> TRUE, value |-> 0]
                     ELSE WithDigit(read[i - 1], DigitValue(digits[i]))
    IN  read[Len(digits)]

\* ok is FALSE when it throws: no key, no colon, no value, a sign, another
\* character, a number out of range, or trailing characters.
Extract(content, key) ==
    LET p == ValueStart(content, key)
        q == AfterDigits(content, p)
        end == AfterSpaces(content, q)
        read == Accumulated(SubSeq(content, p, q - 1))
    IN  [read EXCEPT !.ok = @ /\ p < q /\ (end <= Len(content) => content[end] \in {Comma, Close})]

\* With the version check and the range checks of load().
Plausible(key, v) == v <= Limit[key] /\ (key = "format_version" => v = 1)

LoadRegistry(content) ==
    LET read == [key \in ToSet(Keys) |-> Extract(content, key)]
    IN  [ok    |-> \A key \in ToSet(Keys) : read[key].ok /\ Plausible(key, read[key].value),
         value |-> [key \in ToSet(Keys) |-> read[key].value]]

=============================================================================
