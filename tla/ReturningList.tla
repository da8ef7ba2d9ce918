--------------------------- MODULE ReturningList ---------------------------
(***************************************************************************)
(* Reading the names of a RETURNING clause off a statement (src/sql.rs),   *)
(* and what they become next to the types the server gives                 *)
(* (src/probe.rs).  A statement is a sequence of tokens; how text becomes  *)
(* tokens is the scanner's business.                                       *)
(***************************************************************************)
EXTENDS Naturals, SequencesExt, FiniteSetsExt

\* The words that occur in upper case, folded.
Lower == [ID |-> "id", INSERT |-> "insert"]
Fold(text) == IF text \in DOMAIN Lower THEN Lower[text] ELSE text

\* Punctuation and numbers: everything else starts like an identifier.
Symbols == {"(", ")", "[", "]", ",", ".", "*", ";", "1", ":", "-- comment"}

Token(text) == [text |-> text, quoted |-> FALSE]
Is(token, text) == ~token.quoted /\ Fold(token.text) = text

IsNameToken(token) == token.quoted \/ token.text \notin Symbols

\* A quoted name keeps its case.
NormaliseName(token) == IF token.quoted THEN token.text ELSE Fold(token.text)

\* How many brackets are open before i.
Depth(tokens, i, opening, closing) ==
    Cardinality({j \in 1..(i - 1) : \E b \in opening : Is(tokens[j], b)})
    - Cardinality({j \in 1..(i - 1) : \E b \in closing : Is(tokens[j], b)})

\* returning_offset: the top-level keyword, or none.
ReturningOffset(tokens) ==
    LET at == {i \in DOMAIN tokens :
                 Is(tokens[i], "returning") /\ Depth(tokens, i, {"("}, {")"}) = 0}
    IN IF at = {} THEN <<>> ELSE <<Min(at)>>

SplitSelectList(list) ==
    LET cuts == {0, Len(list) + 1}
                \cup {i \in DOMAIN list :
                        Is(list[i], ",") /\ Depth(list, i, {"(", "["}, {")", "]"}) = 0}
        cut(k) == CHOOSE c \in cuts : Cardinality({d \in cuts : d < c}) = k
    IN [k \in 1..(Cardinality(cuts) - 1) |-> SubSeq(list, cut(k - 1) + 1, cut(k) - 1)]

\* a, a.b or a.b.c and nothing else.
IsColumnReference(item) ==
    /\ Len(item) % 2 = 1
    /\ \A i \in DOMAIN item : IF i % 2 = 1 THEN IsNameToken(item[i]) ELSE Is(item[i], ".")

Named(name) == [kind |-> "Named", name |-> name]
Unnamed == [kind |-> "Unnamed"]
Star == [kind |-> "Star"]

ClassifyReturningItem(item) ==
    IF item = <<>> THEN Unnamed
    ELSE IF Is(Last(item), "*") THEN Star
    ELSE IF /\ Len(item) >= 2
            /\ Is(item[Len(item) - 1], "as")
            /\ IsNameToken(Last(item))
         THEN Named(NormaliseName(Last(item)))
    ELSE IF IsColumnReference(item) THEN Named(NormaliseName(Last(item)))
    ELSE Unnamed

\* returning_items, an option.
ReturningItems(tokens) ==
    LET offset == ReturningOffset(tokens) IN
    IF offset = <<>> THEN <<>>
    ELSE LET list == SplitSelectList(SubSeq(tokens, offset[1] + 1, Len(tokens))) IN
         <<[k \in DOMAIN list |-> ClassifyReturningItem(list[k])]>>

\* dml_target_table: the name after the verb, with its schema; or none.  Only
\* comments in front are skipped.
DmlTargetTable(tokens) ==
    LET first == SelectInSeq(tokens, LAMBDA t : ~Is(t, "-- comment"))
        opens(words) == /\ first > 0 /\ first + Len(words) <= Len(tokens)
                        /\ \A i \in DOMAIN words : Is(tokens[first + i - 1], words[i])
        from == CASE \E two \in {<<"insert", "into">>, <<"merge", "into">>, <<"delete", "from">>} :
                       opens(two)     -> first + 2
                  [] opens(<<"update">>) -> first + 1
                  [] OTHER            -> Len(tokens) + 1
        names == {SubSeq(tokens, from, to) : to \in from..Len(tokens)}
        table == {name \in names : IsColumnReference(name)}
    IN IF table = {} THEN <<>>
       ELSE <<CHOOSE name \in table : \A other \in table : Len(other) <= Len(name)>>

-----------------------------------------------------------------------------
(* Names next to types: probe.rs.  columns are those of the target table,  *)
(* an option, which is none when they cannot be had.                       *)

ExpandReturning(items, columns) ==
    LET names(item) == CASE item.kind = "Named"   -> <<item.name>>
                         [] item.kind = "Unnamed" -> <<"?column?">>
                         [] item.kind = "Star"    -> columns[1]
    IN IF columns = <<>> /\ \E k \in DOMAIN items : items[k] = Star THEN <<>>
       ELSE FlattenSeq([k \in DOMAIN items |-> names(items[k])])

Positional(n) == [i \in 1..n |-> "column" \o ToString(i)]

\* Taking the names there are, and the rest by position.
ReturningNames_Mutant(tokens, columns, n) ==
    LET items == ReturningItems(tokens)
        names == IF items = <<>> THEN <<>> ELSE ExpandReturning(items[1], columns)
    IN [i \in 1..n |-> IF i \in DOMAIN names THEN names[i] ELSE Positional(n)[i]]

\* returning_fields: the names, if there are as many as there are types.
ReturningNames(tokens, columns, n) ==
    LET items == ReturningItems(tokens)
        names == IF items = <<>> THEN <<>> ELSE ExpandReturning(items[1], columns)
    IN IF Len(names) # n THEN Positional(n) ELSE names

=============================================================================
