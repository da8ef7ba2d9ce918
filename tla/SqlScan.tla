------------------------------ MODULE SqlScan ------------------------------
(***************************************************************************)
(* The lexer of src/sql.rs and what is built on it: rewriting placeholders,*)
(* splitting a string of statements, refusing what the Data API misreads.  *)
(* A text is a sequence of characters; the properties are about where      *)
(* literals and comments end, so every character that can open or close    *)
(* one is kept.  A letter stands for all letters.                          *)
(***************************************************************************)
EXTENDS Naturals, Sequences, FiniteSetsExt, SequencesExt

Letters == {"a", "E", "p"}
Digits  == {"0", "1"}

Apostrophe == "'"
Quote      == "\""
Backslash  == "\\"
Newline    == "\n"
Blank      == {" ", Newline}

IsIdentStart(c) == c \in Letters
IsIdentChar(c)  == c \in Letters \cup Digits \cup {"$"}

\* bytes.get(i), where nothing is a character of its own.
Char(t, i) == IF i \in DOMAIN t THEN t[i] ELSE "nothing"

IsPair(t, i, first, second) == Char(t, i) = first /\ Char(t, i + 1) = second

\* The first place from i on that passes a test, or the place after the end.
FirstFrom(t, i, Test(_)) == Min({j \in i..Len(t) : Test(j)} \cup {Len(t) + 1})

\* The place after it.
AfterFirst(t, i, Test(_)) == Min({j + 1 : j \in {k \in i..Len(t) : Test(k)}} \cup {Len(t) + 1})

-----------------------------------------------------------------------------
(* scan                                                                    *)

\* Where a quoted region ends whose body starts at i.  Backslashes escape in
\* every single-quoted string, E or not.
QuotedEnd(t, i, quote) ==
    LET after[j \in 1..(Len(t) + 1)] ==
            IF j > Len(t) THEN j
            ELSE IF quote = Apostrophe /\ t[j] = Backslash /\ j < Len(t) THEN after[j + 2]
            ELSE IF t[j] # quote THEN after[j + 1]
            ELSE IF Char(t, j + 1) = quote THEN after[j + 2]
            ELSE j + 1
    IN after[i]

\* dollar_delimiter_len: where the delimiter that starts at i has its second
\* dollar, or the place after the end.  A tag does not start with a digit.
DelimiterEnd(t, i) ==
    FirstFrom(t, i + 1, LAMBDA j :
        /\ t[j] = "$"
        /\ \A k \in (i + 1)..(j - 1) : t[k] \in Letters \cup (IF k > i + 1 THEN Digits ELSE {}))

\* The closing delimiter is the first that has the text of the opening one.
DollarQuotedEnd(t, i) ==
    LET opened == DelimiterEnd(t, i) IN
    AfterFirst(t, opened + 1, LAMBDA j :
        j - (opened - i) > opened /\ SubSeq(t, j - (opened - i), j) = SubSeq(t, i, opened))

\* Ending at the first */ however many comments are open.
BlockCommentEnd_Mutant(t, i) == AfterFirst(t, i + 3, LAMBDA j : IsPair(t, j - 1, "*", "/"))

BlockCommentEnd(t, i) ==
    LET after[p \in (1..(Len(t) + 1)) \X Nat] ==
            LET j == p[1]
                depth == p[2]
            IN IF depth = 0 \/ j > Len(t) THEN j
               ELSE IF IsPair(t, j, "/", "*") THEN after[<<j + 2, depth + 1>>]
               ELSE IF IsPair(t, j, "*", "/") THEN after[<<j + 2, depth - 1>>]
               ELSE after[<<j + 1, depth>>]
    IN after[<<i + 2, 1>>]

Span(segment, start, end) == [segment |-> segment, start |-> start, end |-> end]

\* The region that opens at i, or one character of code.
Region(t, i) ==
    CASE t[i] = Apostrophe -> Span("SingleQuoted", i, QuotedEnd(t, i + 1, Apostrophe))
      [] t[i] = Quote      -> Span("DoubleQuoted", i, QuotedEnd(t, i + 1, Quote))
      [] t[i] = "$" /\ DelimiterEnd(t, i) \in DOMAIN t -> Span("DollarQuoted", i, DollarQuotedEnd(t, i))
      [] IsPair(t, i, "-", "-") -> Span("LineComment", i, FirstFrom(t, i, LAMBDA j : t[j] = Newline))
      [] IsPair(t, i, "/", "*") -> Span("BlockComment", i, BlockCommentEnd(t, i))
      [] OTHER             -> Span("Code", i, i + 1)

\* flush_code: the code read since the last region, if there is any.
FlushCode(start, end) == IF end > start THEN <<Span("Code", start, end)>> ELSE <<>>

\* Where the next region opens, or the place after the end.
RegionFrom(t, i) == FirstFrom(t, i, LAMBDA j : Region(t, j).segment # "Code")

\* Forgetting the code after the last region.
Scan_Mutant(t) ==
    LET spans[i \in 1..(Len(t) + 1)] ==
            LET opens == RegionFrom(t, i) IN
            IF opens > Len(t) THEN <<>>
            ELSE FlushCode(i, opens) \o <<Region(t, opens)>> \o spans[Region(t, opens).end]
    IN spans[1]

\* scan: spans from start to before end, in order.
Scan(t) ==
    LET spans[i \in 1..(Len(t) + 1)] ==
            LET opens == RegionFrom(t, i) IN
            IF opens > Len(t) THEN FlushCode(i, opens)
            ELSE FlushCode(i, opens) \o <<Region(t, opens)>> \o spans[Region(t, opens).end]
    IN spans[1]

Places(span) == span.start..(span.end - 1)
Text(t, span) == SubSeq(t, span.start, span.end - 1)

CodeIn(spans) == UNION {Places(span) : span \in {s \in ToSet(spans) : s.segment = "Code"}}

-----------------------------------------------------------------------------
(* Placeholders                                                            *)

\* A dollar in code with digits after it, the number not zero.
PlaceholderEnd(t, i) == FirstFrom(t, i + 1, LAMBDA j : t[j] \notin Digits)

\* Taking $0 for a parameter.
Placeholders_Mutant(t) ==
    {i \in CodeIn(Scan(t)) : t[i] = "$" /\ Char(t, i + 1) \in Digits}

\* Where map_placeholders replaces something.
Placeholders(t) ==
    {i \in CodeIn(Scan(t)) :
        /\ t[i] = "$"
        /\ \E j \in (i + 1)..(PlaceholderEnd(t, i) - 1) : t[j] # "0"}

\* The name of a parameter: a number is written without leading zeros.
ParamName(t, i) ==
    LET first == FirstFrom(t, i + 1, LAMBDA j : t[j] # "0") IN
    <<"p">> \o SubSeq(t, first, PlaceholderEnd(t, i) - 1)

\* rewrite_placeholders: $n becomes :pn and everything else stays.
Rewritten(t) ==
    LET places == Placeholders(t)
        out[i \in 1..(Len(t) + 1)] ==
            IF i > Len(t) THEN <<>>
            ELSE IF i \in places THEN <<":">> \o ParamName(t, i) \o out[PlaceholderEnd(t, i)]
            ELSE <<t[i]>> \o out[i + 1]
    IN out[1]

-----------------------------------------------------------------------------
(* Statements                                                              *)

\* Nothing before i but blanks and comments.
BlankBefore(t, i) ==
    \A span \in ToSet(Scan(t)) :
        \/ span.segment \in {"LineComment", "BlockComment"}
        \/ \A j \in Places(span) : j < i => t[j] \in Blank

IsBlankStatement(t) == BlankBefore(t, Len(t) + 1)

\* Cutting at every semicolon.
Cuts_Mutant(t) == {i \in DOMAIN t : t[i] = ";"} \cup {Len(t) + 1}

\* Where split_statements cuts, the end included.
Cuts(t) == {i \in CodeIn(Scan(t)) : t[i] = ";"} \cup {Len(t) + 1}

\* split_statements: the pieces between the cuts, the blank ones left out.
Pieces(t) ==
    {p \in {Span("Code", start, end) : start \in {1} \cup {c + 1 : c \in Cuts(t)}, end \in Cuts(t)} :
        Places(p) \cap Cuts(t) = {} /\ ~IsBlankStatement(Text(t, p))}

-----------------------------------------------------------------------------
(* Words.  One letter stands for the keywords a function looks for, those  *)
(* of a schema change or those of a write.                                 *)

Keyword == <<"p">>

WordEnd(t, span, i) == Min({j \in i..(span.end - 1) : ~IsIdentChar(t[j])} \cup {span.end})

\* A word starts at a letter that continues no word of its span.
WordStarts(t, span) ==
    {i \in Places(span) :
        /\ IsIdentStart(t[i])
        /\ \A k \in span.start..(i - 1) :
            IsIdentStart(t[k]) => \E j \in k..i : ~IsIdentChar(t[j])}

WordAt(t, span, i) == SubSeq(t, i, WordEnd(t, span, i) - 1)

\* A statement that opens with a comment has no leading word.
ChangesSchema_Mutant(t) ==
    LET whole == Span("Code", 1, Len(t) + 1) IN
    \E i \in WordStarts(t, whole) :
        WordAt(t, whole, i) = Keyword /\ \A j \in 1..(i - 1) : t[j] \in Blank

\* changes_schema: the first of leading_words.
ChangesSchema(t) ==
    \E span \in ToSet(Scan(t)) : span.segment = "Code" /\
        \E i \in WordStarts(t, span) : WordAt(t, span, i) = Keyword /\ BlankBefore(t, i)

\* Looking at the leading word only.
ModifiesData_Mutant(t) == ChangesSchema(t)

ModifiesData(t) ==
    \E span \in ToSet(Scan(t)) : span.segment = "Code" /\
        \E i \in WordStarts(t, span) : WordAt(t, span, i) = Keyword

-----------------------------------------------------------------------------
(* What is refused                                                         *)

\* Looking at the first colon only.
ColonInDollarQuote_Mutant(t, span) ==
    LET colon == FirstFrom(t, span.start, LAMBDA j : t[j] = ":") IN
    span.segment = "DollarQuoted" /\ colon + 1 < span.end /\ IsIdentStart(t[colon + 1])

\* A name after a colon, inside a dollar-quoted string.
ColonInDollarQuote(t, span) ==
    /\ span.segment = "DollarQuoted"
    /\ \E i \in Places(span) :
        t[i] = ":" /\ i + 1 < span.end /\ IsIdentStart(t[i + 1])

\* A bracket with a single colon before the next bracket.
ArraySlice(t, span) ==
    LET isSlice[j \in 1..(Len(t) + 2)] ==
            IF j >= span.end \/ Char(t, j) \in {"[", "]"} THEN FALSE
            ELSE IF t[j] # ":" THEN isSlice[j + 1]
            ELSE IF Char(t, j + 1) = ":" THEN isSlice[j + 2]
            ELSE TRUE IN
    span.segment = "Code" /\ \E i \in Places(span) : t[i] = "[" /\ isSlice[i + 1]

\* find_hazard, of a text that is about to be sent.
HasHazard(t) ==
    \E span \in ToSet(Scan(t)) : ColonInDollarQuote(t, span) \/ ArraySlice(t, span)

=============================================================================
