----------------------------- MODULE DeliveryMC -----------------------------
(***************************************************************************)
(* Statements for Delivery: one column of each type with many values, two  *)
(* columns of types that are treated differently, a parameter of each      *)
(* type, RETURNING clauses, and database errors.                           *)
(***************************************************************************)
EXTENDS Delivery

MCUserTypes == {"mood", "positive"}
MCDomains == {"positive"}
MCUnreturnable == {"interval"}
MCTables == [t |-> <<"id", "n">>, u |-> <<"uid", "un">>]

Column(label, type, option) == [label |-> label, type |-> type, option |-> option]

\* What is not said of a statement.
Nothing == [kind |-> "read", columns |-> <<>>, tokens |-> <<>>, param |-> <<>>, utc |-> TRUE,
            error |-> <<>>]

-----------------------------------------------------------------------------
(* Values                                                                  *)

Strings(chars, n) == UNION {[1..k -> chars] : k \in 0..n}

Float(of) == [of |-> of, widened |-> FALSE]
NumericValue(negative, int, frac) ==
    [special |-> "", negative |-> negative, int |-> int, frac |-> frac]
IsZero(v) == \A i \in DOMAIN (v.int \o v.frac) : (v.int \o v.frac)[i] = "0"

\* None, one, two and three groups before the point, and as many behind it.
Numerics ==
    {v \in {NumericValue(negative, int, frac) :
              negative \in BOOLEAN,
              int \in {<<"0">>, <<"1">>, <<"1", "0">>, <<"1", "0", "0">>, <<"1", "0", "1">>,
                       <<"1", "0", "0", "0", "0">>, <<"1", "1", "0", "0", "0">>},
              frac \in {<<>>, <<"0">>, <<"1">>, <<"0", "1">>, <<"1", "0">>, <<"0", "0", "1">>,
                        <<"1", "0", "0">>, <<"0", "0", "0", "0", "1">>}} :
        ~(v.negative /\ IsZero(v))}
    \cup {[special |-> "NaN", negative |-> FALSE, int |-> <<>>, frac |-> <<>>]}

Texts == Strings({"a", " ", "\"", "\\", ",", "{", "}", "null"}, 2)

Values(name) ==
    LET layout == Pg!Layout(name) IN
    CASE layout = "bool"    -> BOOLEAN
      [] layout = "int"     -> {-1, 0, 7}
      [] layout = "float"   -> {Float("0.1"), Float("NaN"), Float("-Infinity")}
      [] layout = "numeric" -> Numerics
      [] layout = "uuid"    -> {<<"a1", "b2", "c3", "d4", "e5">>}
      [] layout = "bytea"   -> {<<>>, <<"de", "ad">>}
      [] layout = "date"    -> {-1, 0, 2, MaxDay, -MaxDay}
      [] layout = "time"    -> {0, 1, 10, 100, 101, 110, PerDay}
      [] layout = "stamp"   -> {-101, 0, 10, 205, MaxStamp, -MaxStamp}
      [] name = "interval"  -> {<<"1", " ", "day">>}
      [] name = "inet"      -> {<<"1", ".", "1">>}
      [] name = "mood"      -> {<<"ok">>}
      [] name = "text"      -> Texts
      [] OTHER              -> {<<"a">>, <<"a", " ", "\"">>}

\* One or two of each, for arrays and mixtures.
Few(name) ==
    LET layout == Pg!Layout(name) IN
    CASE layout = "numeric" -> {NumericValue(TRUE, <<"1", "0", "0">>, <<"0", "1">>)}
      [] layout = "time"    -> {110, PerDay}
      [] layout = "stamp"   -> {205, MaxStamp}
      [] name = "text"      -> {<<"a">>, <<"a", " ", "a">>}
      [] OTHER              -> Values(name)

Some(set) == {<<v>> : v \in set}
Options(set) == {<<>>} \cup Some(set)

ArrayValues(name) ==
    {<<>>} \cup {<<first, second>> :
        first \in Options(IF name = "text" THEN Texts ELSE Few(name)), second \in Options(Few(name))}
    \cup {<<first>> : first \in Some(Few(name))}

-----------------------------------------------------------------------------
(* Statements                                                              *)

Names == Advertised \cup DOMAIN Serials \cup MCUserTypes \cup {"interval", "inet"}

Tokens(words) == [i \in DOMAIN words |-> Token(words[i])]
Insert == Tokens(<<"INSERT", "into", "t", "default", "values">>)

\* A read, or a write that returns the same columns by name.
Returning(columns) ==
    FlattenSeq([i \in DOMAIN columns |->
        <<Token(IF i = 1 THEN "returning" ELSE ","), Token(columns[i].label)>>])

ReadsOrReturns(s, columns) ==
    \/ s = [Nothing EXCEPT !.columns = columns]
    \/ s = [Nothing EXCEPT !.kind = "write", !.columns = columns, !.tokens = Insert \o Returning(columns)]

OneColumn(s) ==
    \E name \in Names :
        \/ \E option \in Options(Values(name)) :
             ReadsOrReturns(s, <<Column("c", Scalar(name), option)>>)
        \/ /\ name \notin DOMAIN Serials
           /\ \E option \in Options(ArrayValues(name)) :
                ReadsOrReturns(s, <<Column("c", ArrayType(name), option)>>)

\* Types that differ in what becomes of them.
TwoColumns(s) ==
    \E first, second \in {Scalar("serial"), Scalar("interval"), ArrayType("interval"), Scalar("date"),
                          Scalar("timestamptz"), Scalar("text"), Scalar("mood"), Scalar("time")} :
        \E label \in {"a", "b", ""} :
            \E x \in Few(first.name), y \in Few(second.name) :
                LET value(type, v) == IF type.array THEN <<<<<<v>>>>>> ELSE <<v>> IN
                ReadsOrReturns(s, <<Column("a", first, value(first, x)),
                                    Column(label, second, value(second, y))>>)

OneParameter(s) ==
    \E name \in Names \ DOMAIN Serials, declares \in {"nothing", "unknown", "its type"}, utc \in BOOLEAN :
        LET param(type, option) ==
                [type |-> type, option |-> option,
                 declared |-> CASE declares = "nothing" \/ name \in MCUserTypes -> <<>>
                                [] declares = "unknown" -> <<UNKNOWN>>
                                [] OTHER -> <<type>>]
            given(p) == s = [Nothing EXCEPT !.kind = "write", !.param = <<p>>, !.utc = utc]
        IN \/ \E option \in Options(Values(name)) : given(param(Scalar(name), option))
           \/ \E option \in Options(ArrayValues(name)) : given(param(ArrayType(name), option))

\* What a RETURNING item stands for: its tokens and the columns it makes.
Item(words, labels) == [tokens |-> Tokens(words), labels |-> labels]
Quoted(text) == [text |-> text, quoted |-> TRUE]

Items ==
    {Item(<<"id">>, <<"id">>), Item(<<"ID">>, <<"id">>), Item(<<"t", ".", "id">>, <<"id">>),
     Item(<<"n", "as", "x">>, <<"x">>), Item(<<"n", "x">>, <<"x">>),
     [tokens |-> <<Quoted("ID")>>, labels |-> <<"ID">>],
     [tokens |-> <<Quoted("*")>>, labels |-> <<"*">>],
     Item(<<"f", "(", "id", ",", "n", ")">>, <<"f">>), Item(<<"n", "[", "1", "]">>, <<"n">>),
     Item(<<"id", "*", "1">>, <<"?column?">>), Item(<<"null">>, <<"?column?">>),
     Item(<<"(", "id", ")">>, <<"id">>),
     Item(<<"t", ".", "*">>, <<"id", "n">>),
     Item(<<"(", "n", ")", ".", "*">>, <<"re", "im">>)}

\* Heads of statements, with what * stands for behind them.
Heads ==
    {[tokens |-> Insert, star |-> <<"id", "n">>],
     [tokens |-> Tokens(<<"-- comment", "update", "t", "set", "n", "1">>), star |-> <<"id", "n">>],
     [tokens |-> Tokens(<<"INSERT", "-- comment", "into", "t", "(", "x", "returning", ")">>),
      star |-> <<"id", "n">>],
     [tokens |-> Tokens(<<"update", "t", "set", "n", "1", "from", "u">>),
      star |-> <<"id", "n", "uid", "un">>]}

ReturningClause(s) ==
    \E head \in Heads :
        LET items == Items \cup {Item(<<"*">>, head.star)}
                     \cup (IF Len(head.star) > 2 THEN {Item(<<"u", ".", "*">>, <<"uid", "un">>)} ELSE {})
        IN \E first \in items, rest \in {<<>>} \cup {<<i>> : i \in items}, end \in {<<>>, <<Token(";")>>} :
             LET labels == first.labels \o (IF rest = <<>> THEN <<>> ELSE rest[1].labels) IN
             s = [Nothing EXCEPT
                    !.kind = "write",
                    !.tokens = head.tokens \o <<Token("returning")>> \o first.tokens
                               \o (IF rest = <<>> THEN <<>> ELSE <<Token(",")>> \o rest[1].tokens) \o end,
                    !.columns = [i \in DOMAIN labels |-> Column(labels[i], Scalar("int4"), <<7>>)]]

Part(label, text) == [label |-> label, text |-> text]

\* A message of one or two parts, some fields, a detail with a semicolon; of a
\* statement that has a parameter, or would return a column.
DatabaseError(s) ==
    \E message \in {<<Part("", "ERROR: a")>>, <<Part("", "ERROR: a"), Part("", "b")>>},
       detail \in {<<>>, <<Part("Detail", "d")>>, <<Part("Detail", "d"), Part("", "more")>>},
       hint \in {<<>>, <<Part("Hint", "h")>>}, position \in {<<>>, <<Part("Position", "1")>>},
       kind \in {"read", "write"},
       columns \in {<<>>, <<Column("c", Scalar("interval"), <<>>)>>},
       param \in {<<>>, <<[type |-> Scalar("int4"), option |-> <<7>>, declared |-> <<>>]>>} :
        s = [Nothing EXCEPT !.kind = kind, !.columns = columns, !.param = param,
                            !.error = <<message \o detail \o hint \o position \o <<Part("SQLState", "42883")>>>>]

MCStatements(s) ==
    OneColumn(s) \/ TwoColumns(s) \/ OneParameter(s) \/ ReturningClause(s) \/ DatabaseError(s)

MCParameters(s) == OneParameter(s)

=============================================================================
