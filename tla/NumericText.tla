---------------------------- MODULE NumericText ----------------------------
(***************************************************************************)
(* numeric between its text and its binary format (src/types.rs): groups   *)
(* of decimal digits aligned on the point, the weight of the first group   *)
(* that is not zero, and how many places to show.  A text is a sequence of *)
(* characters.                                                             *)
(***************************************************************************)
EXTENDS Integers, SequencesExt, FiniteSetsExt

CONSTANT GroupDigits   \* decimal digits of a group, four in the protocol

ASSUME NumericTextAssumption == GroupDigits \in Nat \ {0}

Specials == {<<"NaN">>, <<"Infinity">>, <<"-Infinity">>}

LOCAL DigitOf(c) == CHOOSE d \in 0..9 : ToString(d) = c
LOCAL Zeros(n) == [i \in 1..n |-> "0"]

\* chunk_to_digit, and back with leading zeros or without.
LOCAL NumberOf(chunk) == FoldLeft(LAMBDA n, c : 10 * n + DigitOf(c), 0, chunk)
LOCAL Padded(n) ==
    [i \in 1..GroupDigits |-> ToString((n \div 10 ^ (GroupDigits - i)) % 10)]
LOCAL Unpadded(n) ==
    LET first == Min({i \in 1..GroupDigits : Padded(n)[i] # "0"} \cup {GroupDigits}) IN
    SubSeq(Padded(n), first, GroupDigits)

\* How many digits a part lacks to be made of whole groups.
LOCAL Lacks(part) == (GroupDigits - (Len(part) % GroupDigits)) % GroupDigits

LOCAL Groups(part) ==
    [g \in 1..(Len(part) \div GroupDigits) |->
        NumberOf(SubSeq(part, (g - 1) * GroupDigits + 1, g * GroupDigits))]

Numeric(sign, digits, weight, dscale) ==
    [sign |-> sign, digits |-> digits, weight |-> weight, dscale |-> dscale]

\* The sign apart from the parts before and after the point.
LOCAL Split(text) ==
    LET rest == IF Head(text) \in {"-", "+"} THEN Tail(text) ELSE text
        point == SelectInSeq(rest, LAMBDA c : c = ".")
    IN [sign |-> IF Head(text) = "-" THEN "-" ELSE "+",
        int  |-> IF point = 0 THEN rest ELSE SubSeq(rest, 1, point - 1),
        frac |-> IF point = 0 THEN <<>> ELSE SubSeq(rest, point + 1, Len(rest))]

\* The weight of the first group written, zero or not.
NumericToBinary_Mutant(text) ==
    IF text \in Specials THEN Numeric(text[1], <<>>, 0, 0)
    ELSE LET parts == Split(text)
             int == Zeros(Lacks(parts.int)) \o parts.int
             groups == Groups(int) \o Groups(parts.frac \o Zeros(Lacks(parts.frac)))
             written == {g \in DOMAIN groups : groups[g] # 0}
         IN IF written = {} THEN Numeric(parts.sign, <<>>, 0, Len(parts.frac))
            ELSE Numeric(parts.sign, SubSeq(groups, Min(written), Max(written)),
                         Len(int) \div GroupDigits - 1, Len(parts.frac))

\* numeric_to_binary: zero groups on either side are left out.
NumericToBinary(text) ==
    IF text \in Specials THEN Numeric(text[1], <<>>, 0, 0)
    ELSE LET parts == Split(text)
             int == Zeros(Lacks(parts.int)) \o parts.int
             groups == Groups(int) \o Groups(parts.frac \o Zeros(Lacks(parts.frac)))
             written == {g \in DOMAIN groups : groups[g] # 0}
         IN IF written = {} THEN Numeric(parts.sign, <<>>, 0, Len(parts.frac))
            ELSE Numeric(parts.sign, SubSeq(groups, Min(written), Max(written)),
                         Len(int) \div GroupDigits - Min(written), Len(parts.frac))

\* Groups that are not there count as zeros only behind the last one.
BinaryNumericToText_Mutant(binary) ==
    IF <<binary.sign>> \in Specials THEN <<binary.sign>>
    ELSE LET group(i) == IF i + 1 \in DOMAIN binary.digits THEN binary.digits[i + 1] ELSE 0
             int == IF binary.weight < 0 THEN <<"0">>
                    ELSE Unpadded(group(0))
                         \o FlattenSeq([i \in 1..binary.weight |-> Padded(group(i))])
             frac == FlattenSeq([i \in 1..binary.dscale |->
                         Padded(group(IF binary.weight < 0 THEN i - 1 ELSE binary.weight + i))])
         IN (IF binary.sign = "-" THEN <<"-">> ELSE <<>>) \o int
            \o (IF binary.dscale = 0 THEN <<>> ELSE <<".">> \o SubSeq(frac, 1, binary.dscale))

\* binary_numeric_to_text: a group that is not there is a zero.
BinaryNumericToText(binary) ==
    IF <<binary.sign>> \in Specials THEN <<binary.sign>>
    ELSE LET group(i) == IF i + 1 \in DOMAIN binary.digits THEN binary.digits[i + 1] ELSE 0
             int == IF binary.weight < 0 THEN <<"0">>
                    ELSE Unpadded(group(0))
                         \o FlattenSeq([i \in 1..binary.weight |-> Padded(group(i))])
             frac == FlattenSeq([i \in 1..binary.dscale |-> Padded(group(binary.weight + i))])
         IN (IF binary.sign = "-" THEN <<"-">> ELSE <<>>) \o int
            \o (IF binary.dscale = 0 THEN <<>> ELSE <<".">> \o SubSeq(frac, 1, binary.dscale))

=============================================================================
