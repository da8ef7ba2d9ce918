----------------------------- MODULE TypeNames -----------------------------
(***************************************************************************)
(* The names a type goes by: in the Data API's metadata, as an OID of a    *)
(* prepared statement, as regtype writes it, in a CAST; and the type the   *)
(* proxy makes of each (src/types.rs, exec.rs, handlers.rs, probe.rs).     *)
(* Arrays are a name and a mark, however the mark is written.              *)
(***************************************************************************)
EXTENDS Naturals, Sequences, TLC

Scalar(name) == [array |-> FALSE, name |-> name]
ArrayType(name) == [array |-> TRUE, name |-> name]

TEXT == Scalar("text")
UNKNOWN == Scalar("unknown")

\* The types the proxy can render in text and in binary.
Advertised ==
    {"bool", "int2", "int4", "int8", "float4", "float8", "numeric", "text", "varchar", "bpchar",
     "name", "oid", "date", "time", "timestamp", "timestamptz", "uuid", "json", "jsonb", "bytea"}

\* What the metadata says of a column with a sequence.
Serials == [smallserial |-> "int2", serial |-> "int4", bigserial |-> "int8"]

ArrayOf(elem) == IF elem \in Advertised THEN ArrayType(elem) ELSE ArrayType("text")

\* The serial family left to the last line.
MapType_Mutant(type) ==
    IF type.array THEN ArrayOf(type.name)
    ELSE IF type.name \in Advertised THEN type ELSE TEXT

\* The type a column is given out as.
MapType(type) ==
    IF type.array THEN ArrayOf(type.name)
    ELSE IF type.name \in DOMAIN Serials THEN Scalar(Serials[type.name])
    ELSE IF type.name \in Advertised THEN type ELSE TEXT

IsTemporal(name) == name \in {"date", "timestamp", "timestamptz"}

\* The cast that makes a column returnable: text or text[].
TextCast(type) == [array |-> type.array, name |-> "text"]

NeedsTextCast(type, scope) ==
    \/ type.name # "text" /\ MapType(type) = TextCast(type)
    \/ scope = "AlsoTemporal" /\ IsTemporal(type.name)

\* element_of, where there is one.
IsArray(type) == type.array /\ type.name \in Advertised \cup {"char"}
ElementOf(type) == Scalar(type.name)

\* types_from_oids: what a prepared statement returns.  Only the types that
\* come with PostgreSQL have an OID the proxy knows.
TypeFromOid(type, userTypes) == IF type.name \in userTypes THEN TEXT ELSE MapType(type)

-----------------------------------------------------------------------------
(* Parameters                                                              *)

\* The long spellings, which regtype prefers.
SqlNames ==
    "smallint" :> "int2" @@ "integer" :> "int4" @@ "int" :> "int4" @@ "bigint" :> "int8"
    @@ "real" :> "float4" @@ "double precision" :> "float8" @@ "decimal" :> "numeric"
    @@ "boolean" :> "bool" @@ "character varying" :> "varchar" @@ "character" :> "bpchar"
    @@ "time without time zone" :> "time" @@ "timestamp without time zone" :> "timestamp"
    @@ "timestamp with time zone" :> "timestamptz"

\* The arrays that are known by their SQL names.
NamedArrays ==
    {"int4", "int8", "int2", "text", "bool", "numeric", "float8", "float4", "uuid"}

\* type_from_sql_name: user types, and most arrays, are unknown.
TypeFromSqlName(sqlName) ==
    LET name == IF sqlName.name \in DOMAIN SqlNames THEN SqlNames[sqlName.name] ELSE sqlName.name
    IN IF name \in (IF sqlName.array THEN NamedArrays ELSE Advertised)
       THEN [array |-> sqlName.array, name |-> name] ELSE UNKNOWN

\* The first of some options, each a sequence of at most one element.
FirstOf(options) ==
    LET given == SelectSeq(options, LAMBDA option : option # <<>>) IN
    IF given = <<>> THEN <<>> ELSE given[1]

\* cast_name_for: a declared type is named by its short name.
CastNameFor(type) == IF type = UNKNOWN THEN <<>> ELSE <<type>>

\* The probe first.
MergeParamType_Mutant(declared, probed) ==
    FirstOf(<<probed, IF declared = <<>> THEN <<>> ELSE CastNameFor(declared[1])>>)

\* merge_param_types, for one parameter: the name to cast it to, if any.
MergeParamType(declared, probed) ==
    FirstOf(<<IF declared = <<>> THEN <<>> ELSE CastNameFor(declared[1]), probed>>)

\* A type that is known: the client's own, or else that of a name.
KnownType(declared, sqlName) ==
    LET known(option) == SelectSeq(option, LAMBDA type : type # UNKNOWN)
        found == FirstOf(<<known(declared),
                           IF sqlName = <<>> THEN <<>> ELSE <<TypeFromSqlName(sqlName[1])>>>>)
    IN IF found = <<>> THEN UNKNOWN ELSE found[1]

=============================================================================
