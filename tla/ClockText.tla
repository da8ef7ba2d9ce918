----------------------------- MODULE ClockText -----------------------------
(***************************************************************************)
(* Dates, times of day and timestamps between text and binary              *)
(* (src/types.rs), in UTC.  The name of a day and the name of a second of  *)
(* the day are one character each, since the calendar is chrono's; the     *)
(* fraction of a second is digits.  The largest date and the least, which  *)
(* are no dates, stand for infinity, and likewise for timestamps.          *)
(***************************************************************************)
EXTENDS Integers, SequencesExt, FiniteSetsExt

CONSTANTS SubsecondDigits,  \* six in the protocol
          SecondsPerDay,
          MaxDay            \* the binary date that means infinity

ASSUME ClockTextAssumption ==
    SubsecondDigits \in Nat /\ SecondsPerDay \in Nat \ {0} /\ MaxDay \in Nat \ {0}

PerSecond == 10 ^ SubsecondDigits

\* A power of ten is positive.
ASSUME PowerAssumption == PerSecond \in Nat \ {0}

PerDay    == SecondsPerDay * PerSecond
MaxStamp  == MaxDay * PerDay

Days == (-MaxDay)..MaxDay

\* The hours, minutes and seconds of midnight at the end of a day.
EndOfDay == "24:00:00"
SecondName(s) == IF s = SecondsPerDay THEN EndOfDay ELSE "second " \o ToString(s)
DayName(d) == "day " \o ToString(d)

\* No other second is called that.
ASSUME SecondNamesAssumption == \A s \in 0..(SecondsPerDay - 1) : SecondName(s) # EndOfDay

LOCAL DigitOf(c) == CHOOSE d \in 0..9 : ToString(d) = c
LOCAL FractionDigits(f) ==
    [i \in 1..SubsecondDigits |-> ToString((f \div 10 ^ (SubsecondDigits - i)) % 10)]

\* Trailing zeros are trimmed.
LOCAL TrimZeros(text) == SubSeq(text, 1, Max({i \in DOMAIN text : text[i] # "0"} \cup {0}))

\* A point and six digits, whatever they are.
MicrosToTime_Mutant(micros) ==
    TrimZeros(<<SecondName(micros \div PerSecond), ".">> \o FractionDigits(micros % PerSecond))

\* The time of day of binary_to_text.
MicrosToTime(micros) ==
    LET second == SecondName(micros \div PerSecond) IN
    IF micros % PerSecond = 0 THEN <<second>>
    ELSE TrimZeros(<<second, ".">> \o FractionDigits(micros % PerSecond))

\* time_to_micros, where there is such a time: chrono's day has no second 86400.
IsTime(text) == text[1] # EndOfDay
TimeToMicros(text) ==
    LET second == CHOOSE s \in 0..(SecondsPerDay - 1) : SecondName(s) = text[1]
        digit(i) == IF i + 2 \in DOMAIN text THEN DigitOf(text[i + 2]) ELSE 0
    IN second * PerSecond
       + MapThenSumSet(LAMBDA i : digit(i) * 10 ^ (SubsecondDigits - i), 1..SubsecondDigits)

LOCAL DayOf(name) == CHOOSE d \in Days : DayName(d) = name

DateToBinary(text) ==
    CASE text[1] = "infinity"  -> MaxDay
      [] text[1] = "-infinity" -> -MaxDay
      [] OTHER                 -> DayOf(text[1])

BinaryToDate(days) ==
    CASE days = MaxDay  -> <<"infinity">>
      [] days = -MaxDay -> <<"-infinity">>
      [] OTHER          -> <<DayName(days)>>

\* has_zone_suffix, of a text whose only sign is that of a zone.
LOCAL HasZoneSuffix(text) == Last(text) = "+00"

WithUtcOffset(text) ==
    IF text[1] \in {"infinity", "-infinity"} \/ HasZoneSuffix(text) THEN text
    ELSE Append(text, "+00")

\* timestamp_to_binary; the zone is stripped from a timestamptz only.
TimestampToBinary(text) ==
    LET base == IF HasZoneSuffix(text) THEN Front(text) ELSE text IN
    CASE base[1] = "infinity"  -> MaxStamp
      [] base[1] = "-infinity" -> -MaxStamp
      [] OTHER -> DayOf(base[1]) * PerDay + TimeToMicros(SubSeq(base, 3, Len(base)))

BinaryToTimestamp(micros) ==
    CASE micros = MaxStamp  -> <<"infinity">>
      [] micros = -MaxStamp -> <<"-infinity">>
      [] OTHER -> <<DayName(micros \div PerDay), " ">> \o MicrosToTime(micros % PerDay)

=============================================================================
