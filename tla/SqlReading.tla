----------------------------- MODULE SqlReading -----------------------------
(***************************************************************************)
(* Texts a client may send, grown a piece at a time, and what the scanner  *)
(* of SqlScan owes each of them: to see what PostgreSQL will see.          *)
(***************************************************************************)
EXTENDS SqlScan

CONSTANTS Families,  \* sets of pieces a text is put together from
          MaxLength  \* the longest text

ASSUME ReadingAssumption ==
    MaxLength \in Nat /\ \A f \in Families : \A piece \in f : piece \in Seq(STRING)

Pg == INSTANCE PgLexis

VARIABLES family,     \* the pieces this text is made of
          text,       \* the text so far
          lexemes,    \* what PostgreSQL reads in it
          spans,      \* what the scanner reads in it
          pieces,     \* the statements it is split into
          rewritten   \* what is sent for it

vars == <<family, text, lexemes, spans, pieces, rewritten>>

Init ==
    /\ family \in Families
    /\ text = <<>> /\ spans = <<>> /\ rewritten = <<>>
    /\ lexemes = {} /\ pieces = {}

Grow ==
    \E piece \in family :
        /\ Len(text) + Len(piece) <= MaxLength
        /\ text' = text \o piece
        /\ lexemes' = Pg!Lexemes(text')
        /\ spans' = Scan(text')
        /\ pieces' = Pieces(text')
        /\ rewritten' = Rewritten(text')
        /\ UNCHANGED family

Next == Grow

Spec == Init /\ [][Next]_vars

-----------------------------------------------------------------------------
(* Texts on which the scanner means to agree with PostgreSQL               *)

\* Known to be read differently: a backslash in a string that is no E string,
\* and a dollar in the middle of a word.
IsPlain ==
    \A l \in lexemes :
        /\ l.kind = "SingleQuoted" => Backslash \notin ToSet(Text(text, l))
        /\ l.kind = "Word" => "$" \notin ToSet(Text(text, l))

\* The literals and comments among them, as the scanner would name them.
Named(read) ==
    {IF l.kind = "EString" THEN Span("SingleQuoted", l.start, l.end)
     ELSE Span(l.kind, l.start, l.end) :
        l \in {any \in read : any.kind \in Pg!Literals \cup Pg!Comments}}

\* The literals and comments among spans.
Apart(read) == {s \in ToSet(read) : s.segment # "Code"}

-----------------------------------------------------------------------------
(* Properties                                                              *)

\* The spans tile the text, none empty, none overlapping and nothing left out
\* (scan, "concatenating them reproduces it exactly"), and every literal and
\* every comment among them ends where PostgreSQL ends it: nested comments,
\* doubled quotes, quotes in comments and comment marks in quotes.
LexesLikePostgres ==
    /\ FlattenSeq([k \in DOMAIN spans |-> Text(text, spans[k])]) = text
    /\ \A k \in DOMAIN spans : spans[k].start < spans[k].end
    /\ \A k \in 1..(Len(spans) - 1) : {spans[k].segment, spans[k + 1].segment} # {"Code"}
    /\ IsPlain => Apart(spans) = Named(lexemes)

\* What is replaced is what PostgreSQL takes for a parameter, and no parameter
\* is left (map_placeholders).  find_hazard scans the result again: it finds
\* the literals and comments the client wrote.
ParametersAreRewritten ==
    /\ IsPlain => Placeholders(text) = {l.start : l \in Pg!Parameters(text, lexemes)}
    /\ Placeholders(rewritten) = {}
    /\ {Text(rewritten, s) : s \in Apart(Scan(rewritten))} = {Text(text, s) : s \in Apart(spans)}

\* A statement cut out of a string reads by itself as it did within: the same
\* literals and comments, no semicolon left in its code, and nothing but
\* blanks, comments and semicolons is in no statement (split_statements).
StatementsStandAlone ==
    IsPlain =>
        /\ \A p \in pieces :
            LET statement == Text(text, p) IN
            /\ {Text(text, s) : s \in {n \in Named(lexemes) : n.start \in Places(p)}}
                 = {Text(statement, s) : s \in Named(Pg!Lexemes(statement))}
            /\ Cuts(statement) = {Len(statement) + 1}
        /\ LET dropped == DOMAIN text \ UNION {Places(p) : p \in pieces} IN
           \A i \in dropped :
              \/ text[i] \in Blank \cup {";"}
              \/ \E l \in lexemes : l.kind \in Pg!Comments /\ i \in Places(l)

\* The words of a statement, without blanks and comments.
Words(statement) ==
    {l \in Pg!Lexemes(statement) :
        l.kind \notin Pg!Comments /\ ~(ToSet(Text(statement, l)) \subseteq Blank)}

IsKeyword(statement, l) == l.kind = "Word" /\ Text(statement, l) = Keyword

\* A schema change empties the caches however it is commented, and nothing
\* else does: its keyword counts where it opens a statement.  A statement with
\* a write anywhere in it is never probed, and the words of strings, names and
\* comments do not count (changes_schema, modifies_data).
KeywordsAreSeen ==
    IsPlain =>
        /\ \A p \in pieces :
            LET statement == Text(text, p) IN
            ChangesSchema(statement) <=>
                \E l \in Words(statement) :
                    /\ IsKeyword(statement, l)
                    /\ \A other \in Words(statement) : l.start <= other.start
        /\ ModifiesData(text) <=> \E l \in lexemes : IsKeyword(text, l)

\* A name after a colon in a dollar-quoted string is not sent: the Data API
\* would replace it inside the string, and nobody would notice (find_hazard).
NoStringIsCorrupted ==
    IsPlain =>
        \A l \in lexemes : l.kind = "DollarQuoted" =>
            \A i \in l.start..(l.end - 2) :
                text[i] = ":" /\ text[i + 1] \in Letters => HasHazard(rewritten)

\* A statement the client wrote without a colon is not refused for one: "the
\* :pN names the proxy itself introduced ... are expected" (find_hazard).
OwnPlaceholdersAreNoHazard ==
    ":" \notin ToSet(text) => ~HasHazard(rewritten)

=============================================================================
