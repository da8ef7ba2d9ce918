------------------------------ MODULE Delivery ------------------------------
(***************************************************************************)
(* One statement of a client: described or not, bound with a parameter,    *)
(* run, run again with casts if the Data API will not return a type, and   *)
(* answered with rows or an error (src/handlers.rs, src/exec.rs).  The     *)
(* statement is given by what PostgreSQL would make of it: its columns and *)
(* their values, the type of its parameter, its error.  That a read is     *)
(* told from a write is the scanner's business, and transactions are       *)
(* Session's.                                                              *)
(***************************************************************************)
EXTENDS Conversion, DbError, ReturningList

CONSTANTS
    IsStatement(_),  \* the statements of this instance
    UserTypes,       \* types whose OIDs the proxy does not know
    Domains,         \* those that are another name for int4
    Unreturnable,    \* types the Data API refuses
    Tables           \* the columns of each table

ASSUME DeliveryAssumption ==
    /\ Domains \subseteq UserTypes
    /\ UserTypes \cap (Advertised \cup DOMAIN Serials) = {}
    /\ Unreturnable \cap (Advertised \cup DOMAIN Serials \cup UserTypes) = {}
    /\ \A table \in DOMAIN Tables : Tables[table] \in Seq(STRING)

Pg == INSTANCE PgValues

VARIABLES
    statement,  \* what the client sends
    step,       \* how far it has come
    told,       \* the columns Describe(statement) promised, if it was sent
    toldParam,  \* the type it gave the parameter
    format,     \* the format the client wants results in
    received,   \* the parameter as the server gets it, if there is one
    runs,       \* how often the statement has been run
    original,   \* the error the fallback is about, if it is under way
    upset,      \* whether the cluster failed during the fallback
    answer      \* what the client gets in the end, if it has

vars == <<statement, step, told, toldParam, format, received, runs, original, upset, answer>>

IsRead == statement.kind = "read"

TypeOK ==
    /\ step \in {"parsed", "bound", "fallback", "answered"}
    /\ format \in {"text", "binary"}
    /\ runs \in 0..2
    /\ upset \in BOOLEAN
    /\ (step = "fallback") = (original # <<>>)
    /\ (step = "answered") = (answer # <<>>)

IsType(type) == type = [array |-> type.array, name |-> type.name] /\ type.array \in BOOLEAN

\* A column: NULL is no value, a sequence has no arrays, and a time is within
\* its day.
IsColumn(column) ==
    /\ DOMAIN column = {"label", "type", "option"}
    /\ IsType(column.type)
    /\ column.option # <<>> => column.option = <<column.option[1]>>
    /\ column.type.array => column.type.name \notin DOMAIN Serials
    /\ column.type.name = "time" =>
        \A k \in DOMAIN column.option :
            IF column.type.array
            THEN /\ column.option[k] \in Seq(Seq(0..PerDay))
                 /\ \A i \in DOMAIN column.option[k] : Len(column.option[k][i]) <= 1
            ELSE column.option[k] \in 0..PerDay

\* An error: the message comes first and the SQLSTATE last.
IsError(parts) ==
    /\ parts \in Seq(ToSet(parts)) /\ Len(parts) > 1
    /\ \A i \in DOMAIN parts : parts[i].label \in Labels \cup {NoLabel}
    /\ parts[1].label = NoLabel
    /\ \A i \in DOMAIN parts : parts[i].label = "SQLState" <=> i = Len(parts)

\* What PostgreSQL may make of a statement.
IsWellFormed(s) ==
    /\ \A i \in DOMAIN s.columns : IsColumn(s.columns[i])
    /\ \A k \in DOMAIN s.error : IsError(s.error[k])

Init ==
    /\ IsStatement(statement)
    /\ IsWellFormed(statement)
    /\ step = "parsed"
    /\ told = <<>> /\ toldParam = UNKNOWN
    /\ format = "text"
    /\ received = <<>> /\ original = <<>> /\ answer = <<>>
    /\ runs = 0
    /\ upset = FALSE

Answered(what) == step' = "answered" /\ answer' = <<what>>
AnsweredError(error) == Answered([kind |-> "error", error |-> error])

-----------------------------------------------------------------------------
(* Describe(statement): the fields of the shape                            *)

\* build_fields.
FieldOf(column) ==
    LET type == MapType(Pg!MetadataType(column.type)) IN
    [name |-> column.label, type |-> type, size |-> TypeSize(type)]

BuildFields(columns) == [i \in DOMAIN columns |-> FieldOf(columns[i])]

\* star_columns.
StarColumns(tokens) ==
    LET table == DmlTargetTable(tokens) IN
    IF table = <<>> \/ NormaliseName(Last(table[1])) \notin DOMAIN Tables THEN <<>>
    ELSE <<Tables[NormaliseName(Last(table[1]))]>>

\* returning_fields.
ReturningFields ==
    LET names == ReturningNames(statement.tokens, StarColumns(statement.tokens),
                                Len(statement.columns))
        type(i) == TypeFromOid(Pg!PreparedType(statement.columns[i].type), UserTypes)
    IN [i \in DOMAIN statement.columns |->
            [name |-> names[i], type |-> type(i), size |-> TypeSize(type(i))]]

\* What a probe says of the parameter, in regtype's words.
Probed == [k \in DOMAIN statement.param |-> Pg!Regtype(statement.param[k].type)]

\* The types the client declared in Parse.
Declared == IF statement.param = <<>> THEN <<>> ELSE statement.param[1].declared
Inferred == Declared \in {<<>>, <<UNKNOWN>>}

\* do_describe_statement.
DescribeStatement ==
    /\ step = "parsed" /\ told = <<>>
    /\ told' = <<IF IsRead THEN BuildFields(statement.columns) ELSE ReturningFields>>
    /\ toldParam' = KnownType(Declared, Probed)
    /\ UNCHANGED <<statement, step, format, received, runs, original, upset, answer>>

-----------------------------------------------------------------------------
(* Bind                                                                    *)

\* What prepare_portal sends for the parameter: the name it is cast to and the
\* type its bytes are read as.  What the probe says is missing when it failed
\* or was not made, and there, for a type that was declared, when another
\* parameter needed it.
Prepared(option, isBinary, probed) ==
    LET param == statement.param[1]
        cast == MergeParamType(Declared, probed)
        given == IF isBinary THEN Pg!Binary(param.type, option[1]) ELSE Pg!Text(param.type, option[1])
    IN [cast  |-> cast,
        field |-> IF option = <<>> THEN [kind |-> "isNull"]
                  ELSE ToSqlParameter(given, isBinary, KnownType(Declared, cast))]

\* A client sends bytes only when it has been told, or has said, what they are.
Bind(wanted, isBinary, probed) ==
    /\ step = "parsed"
    /\ isBinary => told # <<>> \/ ~Inferred
    /\ probed \in {<<>>, Probed}
    /\ format' = wanted
    /\ IF statement.param = <<>>
       THEN step' = "bound" /\ UNCHANGED <<received, answer>>
       ELSE LET sent == Prepared(statement.param[1].option, isBinary, probed) IN
            IF sent.field.kind = "refused"
            THEN AnsweredError(ErrorInfo("22P02", <<>>)) /\ UNCHANGED received
            ELSE received' = <<sent>> /\ step' = "bound" /\ UNCHANGED answer
    /\ UNCHANGED <<statement, told, toldParam, runs, original, upset>>

-----------------------------------------------------------------------------
(* Execute                                                                 *)

\* encode_rows: one cell, an option.
Cell(field, column) == FieldToText(Pg!Field(Pg!MetadataType(column.type), column.option), field.type)

\* rows_response.
Rows(columns) ==
    LET fields == BuildFields(columns)
        texts == [i \in DOMAIN columns |-> Cell(fields[i], columns[i])]
        bytes == [i \in DOMAIN columns |->
                    IF texts[i] = <<>> THEN <<>> ELSE TextToBinary(texts[i][1], fields[i].type)]
    IN IF format = "binary" /\ \E i \in DOMAIN columns : bytes[i] = <<>> /\ texts[i] # <<>>
       THEN [kind |-> "error", error |-> ErrorInfo("XX000", <<>>)]
       ELSE [kind |-> "rows", fields |-> fields,
             cells |-> IF format = "binary" THEN bytes ELSE texts]

\* What keeps the Data API from returning the columns.
Obstacles(columns) ==
    {"UnsupportedResultException" : c \in {i \in DOMAIN columns : columns[i].type.name \in Unreturnable}}
    \cup {"InternalFailure" :
            c \in {i \in DOMAIN columns : Pg!IsInfinite(columns[i].type, columns[i].option)}}

\* A parameter that is not cast is a text to the server, and may not do.
NoSuchOperator == "ERROR: operator does not exist"
Mismatch == <<[label |-> NoLabel, text |-> NoSuchOperator],
              [label |-> "SQLState", text |-> "42883"]>>

DatabaseErrors ==
    {statement.error[k] : k \in DOMAIN statement.error}
    \cup (IF received # <<>> /\ received[1].cast = <<>> THEN {Mismatch} ELSE {})

\* The first call of execute_with_fallback.
Run ==
    /\ step = "bound"
    /\ runs' = runs + 1
    /\ \/ statement.error = <<>> /\ Obstacles(statement.columns) = {}
          /\ Answered(Rows(statement.columns))
          /\ UNCHANGED original
       \/ \E parts \in DatabaseErrors :
            AnsweredError(MapSdkError([exception |-> "DatabaseErrorException", parts |-> parts]))
            /\ UNCHANGED original
       \/ \E exception \in Obstacles(statement.columns) :
            /\ statement.error = <<>>
            /\ LET error == MapSdkError([exception |-> exception]) IN
               IF IsUnreturnableType(error) \/ IsInternalFailure(error)
               THEN step' = "fallback" /\ original' = <<error>> /\ UNCHANGED answer
               ELSE AnsweredError(error) /\ UNCHANGED original
    /\ UNCHANGED <<statement, told, toldParam, format, received, upset>>

-----------------------------------------------------------------------------
(* The fallback                                                            *)

Scope(error) == IF IsUnreturnableType(error) THEN "Unreturnable" ELSE "AlsoTemporal"

\* Columns are asked for by name.
NoName == ""

NamesAreUsable(columns) ==
    /\ \A i \in DOMAIN columns : columns[i].label # NoName
    /\ \A i, j \in DOMAIN columns : columns[i].label = columns[j].label => i = j

\* A column cast to text, or an array to an array of texts.
AsText(column) ==
    [column EXCEPT !.type = TextCast(@),
                   !.option = [k \in DOMAIN @ |->
                        IF column.type.array
                        THEN [i \in DOMAIN @[k] |-> [n \in DOMAIN @[k][i] |->
                                Pg!ScalarText(column.type.name, @[k][i][n])]]
                        ELSE Pg!Text(column.type, @[k])]]

CastColumns(columns, scope) ==
    [i \in DOMAIN columns |->
        IF NeedsTextCast(Pg!MetadataType(columns[i].type), scope) THEN AsText(columns[i])
        ELSE columns[i]]

\* Casting a write as well.
CanCast_Mutant(scope) ==
    LET columns == statement.columns IN
    /\ NamesAreUsable(columns)
    /\ CastColumns(columns, scope) # columns

\* cast_fallback_sql, where it comes to a statement.
CanCast(scope) ==
    LET columns == statement.columns IN
    /\ IsRead
    /\ NamesAreUsable(columns)
    /\ \E i \in DOMAIN columns : NeedsTextCast(Pg!MetadataType(columns[i].type), scope)

GiveUp == AnsweredError(original[1]) /\ original' = <<>>

\* No cast helps, or the cluster fails: the answer is the first error.
FallbackFails ==
    /\ step = "fallback"
    /\ GiveUp
    /\ \/ ~CanCast(Scope(original[1])) /\ UNCHANGED <<runs, upset>>
       \/ CanCast(Scope(original[1])) /\ upset' = TRUE /\ runs' \in {runs, runs + 1}
    /\ UNCHANGED <<statement, told, toldParam, format, received>>

\* The statement is run again, once.
Fallback ==
    LET columns == CastColumns(statement.columns, Scope(original[1])) IN
    /\ step = "fallback"
    /\ CanCast(Scope(original[1]))
    /\ runs' = runs + 1
    /\ IF Obstacles(columns) = {}
       THEN Answered(Rows(columns)) /\ original' = <<>>
       ELSE GiveUp
    /\ UNCHANGED <<statement, told, toldParam, format, received, upset>>

Next ==
    \/ DescribeStatement
    \/ \E wanted \in {"text", "binary"}, isBinary \in BOOLEAN, probed \in {<<>>, Probed} :
            Bind(wanted, isBinary, probed)
    \/ Run
    \/ FallbackFails
    \/ Fallback

Spec == Init /\ [][Next]_vars

-----------------------------------------------------------------------------
(* Properties                                                              *)

Has(kind) == answer # <<>> /\ answer[1].kind = kind

\* What a client that reads a field of this type, in the format it asked for,
\* should find there.
Expected(field, column) ==
    LET asText == field.type # Pg!BaseType(column.type)
        value == IF asText THEN AsText(column).option[1] ELSE column.option[1]
    IN IF format = "binary" THEN Pg!Binary(field.type, value) ELSE Pg!Text(field.type, value)

EndsTheDay(column) ==
    /\ column.type.name = "time"
    /\ \E k \in DOMAIN column.option :
          IF column.type.array THEN <<PerDay>> \in ToSet(column.option[k]) ELSE column.option[k] = PerDay

\* A value is read as the value it was, whatever the Data API made of it: in
\* its own type or, where the proxy has none, as text; in text or in binary,
\* with the size the type has.  Only the end of a day cannot be converted, in
\* binary (field_to_text, text_to_binary).
RowsArriveUnchanged ==
    /\ Has("rows") =>
        \A i \in DOMAIN statement.columns :
            LET field == answer[1].fields[i]
                column == statement.columns[i]
                cell == answer[1].cells[i]
            IN /\ field.type \in {Pg!BaseType(column.type), TextCast(column.type)}
               /\ field.size = IF field.type.array THEN -1 ELSE Pg!Width(field.type.name)
               /\ cell = IF column.option = <<>> THEN <<>> ELSE <<Expected(field, column)>>
    /\ Has("error") /\ answer[1].error = ErrorInfo("XX000", <<>>) =>
        format = "binary" /\ \E i \in DOMAIN statement.columns : EndsTheDay(statement.columns[i])

\* Whether the server comes by the value the client has.
Arrives ==
    LET param == statement.param[1]
        field == received[1].field
    IN IF param.option = <<>> THEN field.kind = "isNull"
       ELSE IF field.kind = "blob" THEN param.type = Scalar("bytea") /\ field.value = param.option[1]
       ELSE Pg!CastGives(field.value, received[1].cast[1], statement.utc, param.type, param.option[1])

IsCast == received # <<>> /\ received[1].cast # <<>>
IsGarbled == received[1].field = [kind |-> "string", value |-> Mojibake]

\* A parameter that is cast reaches the server as the value the client has,
\* text or bytes, declared or told.  Three do not: a char(n) whose type was
\* inferred, bytes of a timestamptz in a transaction whose time zone is not
\* UTC, and bytes of a type the proxy cannot read, which it takes for text
\* (prepare_portal, to_sql_parameter).
ParametersArriveUnchanged ==
    IsCast =>
        \/ Arrives
        \/ statement.param[1].type.name = "bpchar" /\ Inferred
        \/ statement.param[1].type.name = "timestamptz" /\ ~statement.utc
        \/ statement.param[1].type.name \notin Advertised /\ IsGarbled

\* The type of the cast is one PostgreSQL reads "exactly as it would when
\* parsing a literal" (rewrite_placeholders_with_casts).
CastsReadLikeLiterals ==
    IsCast /\ statement.utc /\ ~IsGarbled => Arrives

\* A client that reads a row as Describe promised reads it right.  The promise
\* is broken by the retry with casts of dates and timestamps, and by RETURNING
\* of a domain or an array of a user type, whose OIDs the proxy does not know.
MisreadOnlyAfterTemporalCast ==
    told # <<>> /\ Has("rows") =>
        \A i \in DOMAIN statement.columns :
            LET type == statement.columns[i].type
                field == answer[1].fields[i]
            IN \/ told[1][i].type = field.type /\ told[1][i].size = field.size
               \/ IsTemporal(type.name) /\ field.type = TextCast(type)
               \/ ~IsRead /\ type.name \in UserTypes /\ (type.array \/ type.name \in Domains)

\* A write is run once at most, and a read once more with casts
\* (execute_with_fallback).
MostRuns == IF IsRead THEN 2 ELSE 1
RunsAreFew == runs <= MostRuns

\* One obstacle does not keep a read from its rows, however its columns are
\* mixed, unless their names do not tell them apart or the cluster fails; and
\* the statement is run again only if it is a read, and once.
UnreturnableIsRecovered ==
    /\ RunsAreFew
    /\ Has("error") /\ runs > 0 /\ DatabaseErrors = {} /\ IsRead
       /\ Cardinality(Obstacles(statement.columns)) = 1 =>
        \/ upset
        \/ ~NamesAreUsable(statement.columns)
        \/ format = "binary" /\ \E i \in DOMAIN statement.columns : EndsTheDay(statement.columns[i])

\* An error that has the SQLSTATE of these parts; and their message and their
\* fields, if each is there once and in one part.
Keeps(error, parts) ==
    LET first == Min({i \in DOMAIN parts : parts[i].label # NoLabel})
        labelled == first..Len(parts)
    IN /\ error.code = Last(parts).text
       /\ /\ \A i \in labelled : parts[i].label # NoLabel
          /\ \A i, j \in labelled : parts[i].label = parts[j].label => i = j
          => /\ error.message = SubSeq(parts, 1, first - 1)
             /\ \A i \in labelled \ {Len(parts)} :
                    error.fields[parts[i].label] = <<parts[i].text>>

\* PostgreSQL's error reaches the client with its SQLSTATE and its message,
\* semicolons and all, and its fields.  A detail or a hint with semicolons is
\* taken for a part of the message; the SQLSTATE is right even then
\* (parse_db_error).
ErrorsKeepTheirFields ==
    statement.error # <<>> /\ Has("error") /\ runs > 0 =>
        \E parts \in DatabaseErrors : Keeps(answer[1].error, parts)

\* Items that are known to get a wrong name: * of anything but the target
\* table, and a constant, which is taken for a column.
IsMisnamed(item) ==
    \/ Len(item) > 1 /\ Is(Last(item), "*")
       /\ <<SubSeq(item, 1, Len(item) - 2)>> # DmlTargetTable(statement.tokens)
    \/ Len(item) = 1 /\ \E word \in {"null", "true", "false"} : Is(item[1], word)

\* A column of RETURNING has its own name in the description, or no name, and
\* never the name of another one, the items above apart (returning_fields).
NamesAreNotMispaired ==
    LET offset == ReturningOffset(statement.tokens)
        items == IF offset = <<>> THEN <<>>
                 ELSE SplitSelectList(SubSeq(statement.tokens, offset[1] + 1, Len(statement.tokens)))
    IN told # <<>> /\ ~IsRead /\ (\A k \in DOMAIN items : ~IsMisnamed(items[k])) =>
        \A i \in DOMAIN statement.columns :
            told[1][i].name \in {statement.columns[i].label, "?column?", "column" \o ToString(i)}

=============================================================================
