------------------------------ MODULE PgLexis ------------------------------
(***************************************************************************)
(* External: where PostgreSQL's lexer ends literals, comments and words,   *)
(* with standard_conforming_strings on, its default.  Ends are described by*)
(* what the text between start and end is, not by how one would scan it.   *)
(***************************************************************************)
EXTENDS Naturals, Sequences, FiniteSetsExt, SequencesExt

Letters == {"a", "E", "p"}
Digits  == {"0", "1"}
InWord  == Letters \cup Digits \cup {"$"}

Apostrophe == "'"
Quote      == "\""
Backslash  == "\\"
Newline    == "\n"
Nothing    == "nothing"

At(t, i) == IF i \in DOMAIN t THEN t[i] ELSE Nothing

\* The least place from i on that passes a test; an open literal has no end
\* and takes the rest of the text.
Least(t, i, Test(_)) == Min({j \in i..Len(t) : Test(j)} \cup {Len(t) + 1})

\* Behind an odd number of backslashes, counted from i on.
Escaped(t, i, j) ==
    LET run == {k \in i..(j - 1) : \A m \in k..(j - 1) : t[m] = Backslash} IN
    Cardinality(run) % 2 = 1

\* A literal ends at the first of its quotes that makes their number odd and
\* has no other behind it; in an E string the escaped quotes do not count.
LiteralEnd(t, i, quote, escapes) ==
    LET quotes == {j \in i..Len(t) : t[j] = quote /\ ~(escapes /\ Escaped(t, i, j))} IN
    1 + Least(t, i, LAMBDA j :
            /\ j \in quotes
            /\ Cardinality({k \in quotes : k <= j}) % 2 = 1
            /\ At(t, j + 1) # quote)

EStringEnd(t, i) == LiteralEnd(t, i, Apostrophe, TRUE)
QuotedEnd(t, i, quote) == LiteralEnd(t, i, quote, FALSE)

\* A tag is a word without dollars.
DollarOpening(t, i) ==
    {j \in (i + 1)..Len(t) :
        /\ t[i] = "$" /\ t[j] = "$"
        /\ \A k \in (i + 1)..(j - 1) : t[k] \in Letters \cup (IF k = i + 1 THEN {} ELSE Digits)}

\* j is the last place of the first closing delimiter.
DollarEnd(t, i) ==
    LET body == Min(DollarOpening(t, i)) + 1 IN
    1 + Least(t, body, LAMBDA j :
            j - (body - i) + 1 >= body /\ SubSeq(t, j - (body - i) + 1, j) = SubSeq(t, i, body - 1))

\* Reading a comment a character at a time: its depth, and the character that
\* is not yet part of a mark.
Read(state, c) ==
    IF state.left = "/" /\ c = "*" THEN [depth |-> state.depth + 1, left |-> Nothing]
    ELSE IF state.left = "*" /\ c = "/" THEN [depth |-> state.depth - 1, left |-> Nothing]
    ELSE [state EXCEPT !.left = c]

CommentEnd(t, i) ==
    LET read[j \in (i - 1)..Len(t)] ==
            IF j < i THEN [depth |-> 0, left |-> Nothing] ELSE Read(read[j - 1], t[j])
    IN 1 + Least(t, i + 3, LAMBDA j : read[j].depth = 0)

WordEnd(t, i) == Least(t, i, LAMBDA j : t[j] \notin InWord)

OpensE(t, i) == t[i] = "E" /\ At(t, i + 1) = Apostrophe

ParamEnd(t, i) == Least(t, i + 1, LAMBDA j : t[j] \notin Digits)

Lexeme(t, kind, start, end) ==
    [kind |-> kind, start |-> start, end |-> IF end > Len(t) THEN Len(t) + 1 ELSE end]

\* The lexeme at i; that of an E string starts at its quote.
LexemeAt(t, i) ==
    CASE OpensE(t, i)          -> Lexeme(t, "EString", i + 1, EStringEnd(t, i + 2))
      [] t[i] = Apostrophe     -> Lexeme(t, "SingleQuoted", i, QuotedEnd(t, i + 1, Apostrophe))
      [] t[i] = Quote          -> Lexeme(t, "DoubleQuoted", i, QuotedEnd(t, i + 1, Quote))
      [] DollarOpening(t, i) # {} -> Lexeme(t, "DollarQuoted", i, DollarEnd(t, i))
      [] t[i] = "$" /\ DollarOpening(t, i) = {} -> Lexeme(t, "Parameter", i, ParamEnd(t, i))
      [] t[i] = "-" /\ At(t, i + 1) = "-" -> Lexeme(t, "LineComment", i, Least(t, i, LAMBDA j : t[j] = Newline))
      [] t[i] = "/" /\ At(t, i + 1) = "*" -> Lexeme(t, "BlockComment", i, CommentEnd(t, i))
      [] t[i] \in Letters /\ ~OpensE(t, i) -> Lexeme(t, "Word", i, WordEnd(t, i))
      [] OTHER                 -> Lexeme(t, "Other", i, i + 1)

Lexemes(t) ==
    LET from[i \in 1..(Len(t) + 1)] ==
            IF i > Len(t) THEN {}
            ELSE LET lexeme == LexemeAt(t, i) IN {lexeme} \cup from[lexeme.end]
    IN from[1]

Comments == {"LineComment", "BlockComment"}
Literals == {"EString", "SingleQuoted", "DoubleQuoted", "DollarQuoted"}

\* The parameters among the lexemes of t; number 0 is none.
Parameters(t, lexemes) ==
    {l \in lexemes : l.kind = "Parameter" /\ \E i \in (l.start + 1)..(l.end - 1) : t[i] # "0"}

=============================================================================
