----------------------------- MODULE Conversion -----------------------------
(***************************************************************************)
(* A value on its way through the proxy (src/types.rs, src/params.rs): a   *)
(* field of the Data API's reply becomes PostgreSQL's text, and bytes for  *)
(* a client that asked for them; a parameter's bytes become text, and a    *)
(* field.  An option is a sequence of at most one element.                 *)
(***************************************************************************)
EXTENDS TypeNames, NumericText, ArrayText, ClockText

CONSTANT MaxInt   \* the largest integer of the instance

ASSUME ConversionAssumption == MaxInt \in Nat

\* The byte that a jsonb starts with.
JsonbVersion == "version 1"

Bytes(layout, width, holds) == [layout |-> layout, width |-> width, holds |-> holds]

\* pg_type.typlen, or -1 if it varies.
TypeSize(type) ==
    IF type.array THEN -1
    ELSE CASE type.name = "bool" -> 1
           [] type.name = "int2" -> 2
           [] type.name \in {"int4", "float4", "date", "oid"} -> 4
           [] type.name \in {"int8", "float8", "time", "timestamp", "timestamptz"} -> 8
           [] type.name = "uuid" -> 16
           [] OTHER -> -1

-----------------------------------------------------------------------------
(* Fields to text                                                          *)

\* Leaving a float4 as wide as it came.
RenderFloat_Mutant(d, type) == IF d.widened THEN <<d.of, "000001">> ELSE <<d.of>>

\* A float4 came widened, and is narrowed again.
RenderFloat(d, type) ==
    IF d.widened /\ type.name # "float4" THEN <<d.of, "000001">> ELSE <<d.of>>

RenderString(s, type) == IF type = Scalar("timestamptz") THEN WithUtcOffset(s) ELSE s

RenderBytea(bytes) == <<"\\", "x">> \o bytes

Render(kind, value, type) ==
    CASE kind = "boolean" -> <<IF value THEN "t" ELSE "f">>
      [] kind = "long"    -> <<ToString(value)>>
      [] kind = "double"  -> RenderFloat(value, type)
      [] kind = "blob"    -> RenderBytea(value)
      [] OTHER            -> RenderString(value, type)

\* field_to_text: an option, and NULL is none.
FieldToText(field, type) ==
    IF field.kind = "isNull" THEN <<>>
    ELSE IF field.kind # "array" THEN <<Render(field.kind, field.value, type)>>
    ELSE LET elem == IF IsArray(type) THEN ElementOf(type) ELSE TEXT
             render(option) == [k \in DOMAIN option |-> Render(field.variant, option[k], elem)]
         IN <<ArrayLiteral([i \in DOMAIN field.values |-> render(field.values[i])])>>

-----------------------------------------------------------------------------
(* Text to bytes                                                           *)

IntOf(text) == CHOOSE n \in (-MaxInt)..MaxInt : text = <<ToString(n)>>

\* Reading a float4 narrows it.
FloatOf(text, type) == [of |-> text[1], widened |-> Len(text) > 1 /\ type.name # "float4"]

\* An option: a text that cannot be read is none.
ScalarToBinary(text, type) ==
    LET name == type.name IN
    CASE name = "bool"   -> <<Bytes("bool", 1, text = <<"t">>)>>
      [] name = "int2"   -> <<Bytes("int", 2, IntOf(text))>>
      [] name = "int4"   -> <<Bytes("int", 4, IntOf(text))>>
      [] name = "int8"   -> <<Bytes("int", 8, IntOf(text))>>
      [] name = "oid"    -> <<Bytes("int", 4, IntOf(text))>>
      [] name = "float4" -> <<Bytes("float", 4, FloatOf(text, type))>>
      [] name = "float8" -> <<Bytes("float", 8, FloatOf(text, type))>>
      [] name = "numeric" -> <<Bytes("numeric", -1, NumericToBinary(text))>>
      [] name = "uuid"   -> <<Bytes("uuid", 16, SelectSeq(text, LAMBDA c : c # "-"))>>
      [] name = "bytea"  -> <<Bytes("bytea", -1, SubSeq(text, 3, Len(text)))>>
      [] name = "date"   -> <<Bytes("date", 4, DateToBinary(text))>>
      [] name = "time"   -> IF IsTime(text) THEN <<Bytes("time", 8, TimeToMicros(text))>> ELSE <<>>
      [] name \in {"timestamp", "timestamptz"} -> <<Bytes("stamp", 8, TimestampToBinary(text))>>
      [] name = "jsonb"  -> <<Bytes("jsonb", -1, <<JsonbVersion>> \o text)>>
      [] OTHER           -> <<Bytes("text", -1, text)>>

\* array_to_binary, of elements that were told apart.
ArrayToBinary(elements, elem) ==
    LET items == [i \in DOMAIN elements |->
            IF elements[i] = <<>> THEN <<>> ELSE ScalarToBinary(elements[i][1], elem)]
    IN IF \E i \in DOMAIN elements : items[i] = <<>> /\ elements[i] # <<>> THEN <<>>
       ELSE <<Bytes("array", -1, [of |-> elem.name, items |-> items])>>

TextToBinary(text, type) ==
    IF IsArray(type) THEN ArrayToBinary(ParseArrayLiteral(text), ElementOf(type))
    ELSE ScalarToBinary(text, type)

-----------------------------------------------------------------------------
(* Parameters: bytes to text, and to a field                               *)

\* from_utf8_lossy, of bytes that are no text.
Mojibake == <<"\\ufffd">>

ScalarToText(bytes, type) ==
    LET name == type.name
        holds == bytes.holds
    IN
    CASE name = "bool" -> <<IF holds THEN "t" ELSE "f">>
      [] name \in {"int2", "int4", "int8", "oid"} -> <<ToString(holds)>>
      [] name \in {"float4", "float8"} -> RenderFloat(holds, type)
      [] name = "numeric" -> BinaryNumericToText(holds)
      [] name = "uuid"    -> Tail(FlattenSeq([i \in DOMAIN holds |-> <<"-", holds[i]>>]))
      [] name = "bytea"   -> RenderBytea(holds)
      [] name = "date"    -> BinaryToDate(holds)
      [] name = "time"    -> MicrosToTime(holds)
      [] name \in {"timestamp", "timestamptz"} -> BinaryToTimestamp(holds)
      [] name = "jsonb"   -> IF Head(holds) = JsonbVersion THEN Tail(holds) ELSE holds
      [] bytes.layout = "text" -> holds
      [] OTHER            -> Mojibake

BinaryToText(bytes, type) ==
    IF ~IsArray(type) THEN ScalarToText(bytes, type)
    ELSE LET item(option) == [k \in DOMAIN option |-> ScalarToText(option[k], ElementOf(type))]
         IN ArrayLiteral([i \in DOMAIN bytes.holds.items |-> item(bytes.holds.items[i])])

\* to_sql_parameter, of a value that is not NULL.  Bytes of an unknown type
\* are refused; a bytea travels as it is.
ToSqlParameter(given, isBinary, type) ==
    CASE type = Scalar("bytea") -> [kind |-> "blob", value |-> IF isBinary THEN given.holds
                                                               ELSE SubSeq(given, 3, Len(given))]
      [] isBinary /\ type = UNKNOWN -> [kind |-> "refused"]
      [] isBinary                   -> [kind |-> "string", value |-> BinaryToText(given, type)]
      [] OTHER                      -> [kind |-> "string", value |-> given]

=============================================================================
