------------------------------ MODULE PgValues ------------------------------
(***************************************************************************)
(* External: what a value looks like in PostgreSQL's text and binary       *)
(* formats, and what the Data API makes of it.  A value is                 *)
(*   a Boolean, an integer, the name of a float, a sequence of characters  *)
(*   or bytes; a numeric with its digits; a number of days or microseconds *)
(*   from the epoch, where the largest and the least stand for infinity;   *)
(*   or, of an array, a sequence of options of these.                      *)
(* A float that was widened from four bytes to eight shows more digits.    *)
(* An option is a sequence of at most one value; without one it is NULL.   *)
(***************************************************************************)
EXTENDS Integers, SequencesExt, FiniteSetsExt

CONSTANTS GroupDigits, SubsecondDigits, SecondsPerDay, MaxDay,
          UserTypes,   \* enums, domains and the like: their OIDs are their own
          Domains      \* those that are another name for int4

PerSecond == 10 ^ SubsecondDigits
PerDay    == SecondsPerDay * PerSecond
MaxStamp  == MaxDay * PerDay

\* How the type is laid out; whatever is not listed is its text.
Layout(name) ==
    CASE name \in {"int2", "int4", "int8", "oid", "smallserial", "serial", "bigserial"} \cup Domains -> "int"
      [] name \in {"float4", "float8"}          -> "float"
      [] name \in {"timestamp", "timestamptz"}  -> "stamp"
      [] name \in {"bool", "numeric", "uuid", "bytea", "date", "time", "jsonb", "interval", "inet"} -> name
      [] OTHER                                  -> "text"

\* pg_type.typlen, where less than nothing means that it varies.
Width(name) ==
    CASE name = "bool" -> 1
      [] name \in {"int2", "smallserial"} -> 2
      [] name \in {"int4", "serial", "oid", "float4", "date"} \cup Domains -> 4
      [] name \in {"int8", "bigserial", "float8", "time", "timestamp", "timestamptz"} -> 8
      [] name = "uuid" -> 16
      [] OTHER -> -1

\* The type behind a domain or a sequence.
BaseType(type) ==
    [type EXCEPT !.name = CASE @ \in Domains \cup {"serial"} -> "int4"
                            [] @ = "smallserial" -> "int2"
                            [] @ = "bigserial" -> "int8"
                            [] OTHER -> @]

\* What the result of a query is said to be, sequences and all.
MetadataType(type) == IF type.name \in Domains THEN BaseType(type) ELSE type

\* What a prepared statement says: the type itself, domain or not.
PreparedType(type) == IF type.name \in Domains THEN type ELSE BaseType(type)

-----------------------------------------------------------------------------
(* Text                                                                    *)

\* The hours, minutes and seconds of a second of the day, and of its end.
EndOfDay == "24:00:00"
SecondName(s) == IF s = SecondsPerDay THEN EndOfDay ELSE "second " \o ToString(s)

\* The digits of f, as few as will do.
Fraction(f) ==
    LET needed == Min({n \in 0..SubsecondDigits : f % (10 ^ (SubsecondDigits - n)) = 0}) IN
    [i \in 1..needed |-> ToString((f \div 10 ^ (SubsecondDigits - i)) % 10)]

TimeText(micros) ==
    LET fraction == Fraction(micros % PerSecond) IN
    <<SecondName(micros \div PerSecond)>> \o (IF fraction = <<>> THEN <<>> ELSE <<".">> \o fraction)

LOCAL DayText(day) == <<"day " \o ToString(day)>>

LOCAL StampText(micros, zone) ==
    IF micros = MaxStamp THEN <<"infinity">>
    ELSE IF micros = -MaxStamp THEN <<"-infinity">>
    ELSE DayText(micros \div PerDay) \o <<" ">> \o TimeText(micros % PerDay) \o zone

NumericTextOf(v) ==
    IF v.special # "" THEN <<v.special>>
    ELSE (IF v.negative THEN <<"-">> ELSE <<>>) \o v.int
         \o (IF v.frac = <<>> THEN <<>> ELSE <<".">> \o v.frac)

\* A scalar, in a session in UTC.
ScalarText(name, v) ==
    LET layout == Layout(name) IN
    CASE layout = "bool"    -> <<IF v THEN "t" ELSE "f">>
      [] layout = "int"     -> <<ToString(v)>>
      [] layout = "float"   -> IF v.widened THEN <<v.of, "000001">> ELSE <<v.of>>
      [] layout = "numeric" -> NumericTextOf(v)
      [] layout = "uuid"    -> Tail(FlattenSeq([i \in DOMAIN v |-> <<"-", v[i]>>]))
      [] layout = "bytea"   -> <<"\\", "x">> \o v
      [] layout = "date"    -> IF v = MaxDay THEN <<"infinity">>
                               ELSE IF v = -MaxDay THEN <<"-infinity">> ELSE DayText(v)
      [] layout = "time"    -> TimeText(v)
      [] layout = "stamp"   -> StampText(v, IF name = "timestamptz" THEN <<"+00">> ELSE <<>>)
      [] OTHER              -> v

\* array_out quotes an element that array_in would read as something else.
LOCAL ElementText(text) ==
    IF \/ text \in {<<>>, <<"null">>, <<"NULL">>}
       \/ ToSet(text) \cap {"{", "}", ",", "\"", "\\", " "} # {}
    THEN <<"\"">>
         \o FoldLeft(LAMBDA out, c : out \o (IF c \in {"\"", "\\"} THEN <<"\\">> ELSE <<>>) \o <<c>>,
                     <<>>, text)
         \o <<"\"">>
    ELSE text

ArrayText(name, v) ==
    LET element(i) == IF v[i] = <<>> THEN <<"NULL">> ELSE ElementText(ScalarText(name, v[i][1]))
        \* Every element but the first comes after a comma.
        row == IF v = <<>> THEN <<>> ELSE Tail(FlattenSeq([i \in DOMAIN v |-> <<",">> \o element(i)]))
    IN <<"{">> \o row \o <<"}">>

Text(type, v) == IF type.array THEN ArrayText(type.name, v) ELSE ScalarText(type.name, v)

-----------------------------------------------------------------------------
(* Binary: the layout of the bytes, which whoever reads them must know,    *)
(* their number where it tells layouts apart, and what they hold.          *)

Bytes(layout, width, holds) == [layout |-> layout, width |-> width, holds |-> holds]

\* The byte that a jsonb starts with.
JsonbVersion == "version 1"

\* A numeric's digits by their power of ten, and the groups they make.
LOCAL NumericBytes(v) ==
    LET int == Len(v.int)
        digit(power) == LET i == int - power IN
            IF i < 1 \/ i > int + Len(v.frac) THEN 0
            ELSE CHOOSE d \in 0..9 : ToString(d) = IF i <= int THEN v.int[i] ELSE v.frac[i - int]
        group(g) == MapThenSumSet(LAMBDA k : digit(g * GroupDigits + k) * 10 ^ k, 0..(GroupDigits - 1))
        groups == {g \in (-Len(v.frac))..int : group(g) # 0}
    IN IF v.special # "" THEN [sign |-> v.special, digits |-> <<>>, weight |-> 0, dscale |-> 0]
       ELSE [sign   |-> IF v.negative THEN "-" ELSE "+",
             digits |-> IF groups = {} THEN <<>>
                        ELSE [i \in 1..(Max(groups) - Min(groups) + 1) |-> group(Max(groups) - i + 1)],
             weight |-> IF groups = {} THEN 0 ELSE Max(groups),
             dscale |-> Len(v.frac)]

LOCAL ScalarBytes(name, v) ==
    Bytes(Layout(name), Width(name),
          CASE Layout(name) = "numeric" -> NumericBytes(v)
            [] Layout(name) = "jsonb"   -> <<JsonbVersion>> \o v
            [] OTHER                    -> v)

Binary(type, v) ==
    IF type.array
    THEN Bytes("array", -1, [of |-> type.name,
                            items |-> [i \in DOMAIN v |->
                                IF v[i] = <<>> THEN <<>> ELSE <<ScalarBytes(type.name, v[i][1])>>]])
    ELSE ScalarBytes(type.name, v)

-----------------------------------------------------------------------------
(* The Data API's reply: Java's idea of the value                          *)

\* A float4 becomes a double, and it shows where it is finite.
Widened(name, v) ==
    [v EXCEPT !.widened = @ \/ (name = "float4" /\ v.of \notin {"NaN", "Infinity", "-Infinity"})]

Variant(name) ==
    CASE Layout(name) = "bool"  -> "boolean"
      [] Layout(name) = "int"   -> "long"
      [] Layout(name) = "float" -> "double"
      [] OTHER                  -> "string"

Plain(name, v) ==
    CASE Variant(name) \in {"boolean", "long"} -> v
      [] Variant(name) = "double"  -> Widened(name, v)
      [] name = "timestamptz"      -> ScalarText("timestamp", v)
      [] OTHER                     -> ScalarText(name, v)

Field(type, option) ==
    IF option = <<>> THEN [kind |-> "isNull"]
    ELSE IF type.array
         THEN [kind |-> "array", variant |-> Variant(type.name),
               values |-> [i \in DOMAIN option[1] |->
                   IF option[1][i] = <<>> THEN <<>> ELSE <<Plain(type.name, option[1][i][1])>>]]
    ELSE IF type.name = "bytea" THEN [kind |-> "blob", value |-> option[1]]
    ELSE [kind |-> Variant(type.name), value |-> Plain(type.name, option[1])]

\* A date or a timestamp that Java has none for.
IsInfinite(type, option) ==
    LET infinite(v) == \/ type.name = "date" /\ v \in {MaxDay, -MaxDay}
                       \/ Layout(type.name) = "stamp" /\ v \in {MaxStamp, -MaxStamp}
    IN \E i \in DOMAIN option :
          IF type.array THEN \E k \in DOMAIN option[i] : \E j \in DOMAIN option[i][k] : infinite(option[i][k][j])
          ELSE infinite(option[i])

-----------------------------------------------------------------------------
(* Parameters                                                              *)

\* How regtype spells a type.
RegtypeNames ==
    "int2" :> "smallint" @@ "int4" :> "integer" @@ "int8" :> "bigint" @@ "bool" :> "boolean"
    @@ "float4" :> "real" @@ "float8" :> "double precision" @@ "varchar" :> "character varying"
    @@ "bpchar" :> "character" @@ "time" :> "time without time zone"
    @@ "timestamp" :> "timestamp without time zone" @@ "timestamptz" :> "timestamp with time zone"

Regtype(type) ==
    IF type.name \in DOMAIN RegtypeNames THEN [type EXCEPT !.name = RegtypeNames[@]] ELSE type

\* Whether CAST(text AS name) is v, of type.  A timestamptz without a zone is
\* in that of the session, and character without a length is one character.
CastGives(text, sqlName, utc, type, v) ==
    /\ sqlName \in {type, Regtype(type)}
    /\ \/ text = Text(type, v)
       \/ utc /\ type.name = "timestamptz" /\ text = Text([type EXCEPT !.name = "timestamp"], v)
    /\ sqlName.name = "character" =>
        \A chars \in (IF type.array THEN UNION {ToSet(v[i]) : i \in DOMAIN v} ELSE {v}) :
            Len(chars) <= 1

=============================================================================
