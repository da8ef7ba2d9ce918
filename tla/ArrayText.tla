----------------------------- MODULE ArrayText -----------------------------
(***************************************************************************)
(* Array literals of one dimension (src/types.rs): written with the quotes *)
(* and backslashes an element needs, and split again.  An element is an    *)
(* option, a sequence of at most one text; a text is a sequence of         *)
(* characters, among which the word null, in either case, is one.          *)
(***************************************************************************)
EXTENDS Naturals, SequencesExt

\* The characters that are told apart from the rest.
Quote     == "\""
Backslash == "\\"
Comma     == ","
Opening   == "{"
Closing   == "}"
Blank     == " "

IsNullWord(text) == text \in {<<"null">>, <<"NULL">>}

IsPlain(text) ==
    \A i \in DOMAIN text : text[i] \notin {Blank, Opening, Closing, Comma, Quote, Backslash}

InQuotes(text) ==
    <<Quote>>
    \o FlattenSeq([i \in DOMAIN text |->
           IF text[i] \in {Quote, Backslash} THEN <<Backslash, text[i]>> ELSE <<text[i]>>])
    \o <<Quote>>

\* An element that looks like no text at all is not quoted.
QuoteArrayElement_Mutant(text) == IF text # <<>> /\ IsPlain(text) THEN text ELSE InQuotes(text)

QuoteArrayElement(text) ==
    IF text # <<>> /\ ~IsNullWord(text) /\ IsPlain(text) THEN text ELSE InQuotes(text)

\* What array_to_text and binary_array_to_text make of their elements.
ArrayLiteral(elements) ==
    LET written == [i \in DOMAIN elements |->
            (IF i > 1 THEN <<Comma>> ELSE <<>>)
            \o (IF elements[i] = <<>> THEN <<"NULL">> ELSE QuoteArrayElement(elements[i][1]))]
    IN <<Opening>> \o FlattenSeq(written) \o <<Closing>>

Trim(text) ==
    LET kept == {i \in DOMAIN text : text[i] # Blank} IN
    IF kept = {} THEN <<>> ELSE SubSeq(text, Min(kept), Max(kept))

FinishArrayElement(state) ==
    IF state.wasQuoted THEN <<state.current>>
    ELSE IF IsNullWord(state.current) THEN <<>>
    ELSE <<Trim(state.current)>>

\* Between two elements.
Between(items) ==
    [items |-> items, current |-> <<>>, quoted |-> FALSE, wasQuoted |-> FALSE, escaped |-> FALSE]

\* One character.  A backslash takes the next one as it is, inside quotes.
ReadChar(state, c) ==
    IF state.escaped
        THEN [state EXCEPT !.current = Append(@, c), !.escaped = FALSE]
    ELSE IF c = Quote
        THEN [state EXCEPT !.quoted = ~@, !.wasQuoted = TRUE]
    ELSE IF c = Backslash /\ state.quoted
        THEN [state EXCEPT !.escaped = TRUE]
    ELSE IF c = Comma /\ ~state.quoted
        THEN Between(Append(state.items, FinishArrayElement(state)))
    ELSE [state EXCEPT !.current = Append(@, c)]

\* parse_array_literal, of a text in braces.
ParseArrayLiteral(text) ==
    LET inner == SubSeq(text, 2, Len(text) - 1)
        read[n \in 0..Len(inner)] ==
            IF n = 0 THEN Between(<<>>) ELSE ReadChar(read[n - 1], inner[n])
        end == read[Len(inner)]
    IN IF inner = <<>> THEN <<>> ELSE Append(end.items, FinishArrayElement(end))

=============================================================================
