------------------------------ MODULE DateTime ------------------------------
(***************************************************************************)
(* class DateTime of src/DateTime/DateTime.cpp, with the TimeSpans it is   *)
(* added to and subtracted into.  An object owns a _DateTime (a timestamp  *)
(* in seconds, and the calendar fields of that timestamp), and its public  *)
(* members are references into the _DateTime of its construction.          *)
(* The calendar is the C library's: mktime, localtime and gmtime are       *)
(* modelled by the relation between them, over a calendar whose years,     *)
(* months and days are parameters, in a zone with a constant offset (in    *)
(* such a zone tm_isdst, which ParseTicksFromDateTime leaves               *)
(* uninitialised, has no effect).  Hour, minute and second are one number. *)
(***************************************************************************)
EXTENDS TimeSpan, FiniteSets

CONSTANTS
    Dates,                  \* the DateTime objects
    GivenStamps,            \* the timestamps DateTime(time_t) is called with
    GivenFields,            \* the fields DateTime(int...) is called with
    GivenSteps,             \* the arguments of AddYears and AddMonths
    GivenDelays,            \* those of AddSeconds, in milliseconds
    MonthsPerYear, SecondsPerDay, DaysPerWeek,
    FirstDay(_),            \* day number of the first day of the i-th month
    LongestMonth,           \* days
    Years, Months,          \* bound: the years and months fields go through
    ZoneOffset              \* local time minus UTC, in seconds

ASSUME CalendarAssumption ==
    /\ {MonthsPerYear, LongestMonth, SecondsPerDay, DaysPerWeek} \subseteq Nat \ {0}
    /\ 0 \in GivenSteps /\ GivenSteps \subseteq Int /\ GivenDelays \subseteq Int
    /\ ZoneOffset \in Int
    /\ Years \subseteq Int /\ 0 \in Years
    /\ Months \subseteq Int /\ 1 .. MonthsPerYear \subseteq Months
    /\ \A y \in Years, m \in Months : FirstDay(y * MonthsPerYear + m - 1) \in Int
    /\ GivenFields \subseteq [year : Years, month : Months, day : 1 .. LongestMonth,
                             clock : 0 .. SecondsPerDay - 1]

VARIABLE dates

timeVars == <<dates, spans>>

-----------------------------------------------------------------------------
\* The calendar of the C library.

\* Month m of year y, when m may lie outside 1 .. MonthsPerYear.
MonthIndex(y, m) == y * MonthsPerYear + m - 1

DaysIn(y, m) == FirstDay(MonthIndex(y, m) + 1) - FirstDay(MonthIndex(y, m))

\* Seconds from the epoch to the fields f, read as UTC: days and months that
\* do not exist are carried over, as mktime does.
Seconds(f) == (FirstDay(MonthIndex(f.year, f.month)) + f.day - 1) * SecondsPerDay
                 + f.clock

\* The fields of the times that exist in the calendar.
CivilTimes ==
    {f \in [year : Years, month : 1 .. MonthsPerYear, day : 1 .. LongestMonth,
            clock : 0 .. SecondsPerDay - 1] : f.day <= DaysIn(f.year, f.month)}

MkTime(f) == Seconds(f) - ZoneOffset

\* gmtime and localtime.
Stamps == {Seconds(f) : f \in CivilTimes}

GmTime == [stamp \in Stamps |-> CHOOSE f \in CivilTimes : Seconds(f) = stamp]

LocalTime(stamp) == GmTime[stamp + ZoneOffset]

Weekday(seconds) == (seconds \div SecondsPerDay) % DaysPerWeek

\* The timestamps whose local and UTC readings are inside the bound.
InRange(stamp) == {stamp, stamp + ZoneOffset} \subseteq Stamps

Kinds == {"Utc", "Local"}       \* Unspecified is treated as Local

-----------------------------------------------------------------------------
\* A conversion that forgets the kind of the object: a plausible slip.
ParsedAsUtc(date, stamp) ==
    [date EXCEPT !.stamp = stamp, !.fields = GmTime[stamp], !.weekday = Weekday(stamp)]

\* ParseDateTimeFromTicks.
Parsed(date, stamp) ==
    LET utc == date.kind = "Utc"
    IN  [date EXCEPT !.stamp = stamp,
                     !.fields = IF utc THEN GmTime[stamp] ELSE LocalTime(stamp),
                     !.weekday = Weekday(IF utc THEN stamp ELSE stamp + ZoneOffset)]

\* ParseTicksFromDateTime: the fields stay as they are, even when no such
\* day exists, and count as local time whatever the kind.
Counted(date, fields) ==
    LET stamp == MkTime(fields)
    IN  [date EXCEPT !.stamp = stamp, !.fields = fields,
                     !.weekday = Weekday(stamp + ZoneOffset)]

Blank(kind) ==
    [stamp |-> 0, fields |-> [year |-> 0, month |-> 1, day |-> 1, clock |-> 0],
     weekday |-> 0, kind |-> kind, bound |-> TRUE, read |-> TRUE]

Put(d, date) == dates' = [dates EXCEPT ![d] = date] /\ UNCHANGED spans

\* The value of d is known: it is not made from freed memory.
Known(d) == dates[d].read

FromStamp(stamp, kind) == Parsed(Blank(kind), stamp)

-----------------------------------------------------------------------------
ASSUME GivenStampsAssumption == 0 \in Stamps /\ \A t \in GivenStamps : InRange(t)

DateInit ==
    /\ SpanInit
    /\ dates \in [Dates -> {FromStamp(t, k) : t \in GivenStamps, k \in Kinds}]

\* DateTime(time_t, kind), Now and UtcNow.
NewFromStamp(d) == \E t \in GivenStamps, k \in Kinds : Put(d, FromStamp(t, k))

\* DateTime(year, ..., kind) and Today.
NewFromFields(d) ==
    \E f \in GivenFields, k \in Kinds :
        /\ InRange(MkTime(f))
        /\ Put(d, Counted(Blank(k), f))

\* The copy constructor reads the public references of `that`: once `that`
\* has been assigned to, they refer to freed memory and the copy is anything.
CopyDate(d, e) ==
    /\ d # e
    /\ Known(e)
    /\ Put(d, IF dates[e].bound THEN dates[e]
                                ELSE [Blank("Utc") EXCEPT !.read = FALSE])

\* An assignment that forgets the kind: a plausible slip.
AssignKeepsKind(d, e) ==
    /\ d # e
    /\ Known(e)
    /\ Put(d, [dates[e] EXCEPT !.bound = FALSE, !.kind = dates[d].kind])

\* operator= frees m_data and allocates another; the references stay.
AssignDate(d, e) ==
    /\ d # e
    /\ Known(e)
    /\ Put(d, [dates[e] EXCEPT !.bound = FALSE])

\* operator+ and operator- add the ticks, milliseconds, to the seconds.
Clamped(stamp) == IF stamp < 0 THEN 0 ELSE stamp

AddSpan(d, s) ==
    \E sum \in {dates[d].stamp + spans[s].ticks, dates[d].stamp - spans[s].ticks} :
        /\ Known(d)
        /\ InRange(Clamped(sum))
        /\ Put(d, Parsed(dates[d], Clamped(sum)))

\* operator-(DateTime): seconds, handed to TimeSpan(time_t) as milliseconds.
Difference(s, d, e) ==
    /\ Known(d) /\ Known(e)
    /\ Become(s, OfTicks(dates[d].stamp - dates[e].stamp))
    /\ UNCHANGED dates

AddYearsBy(d, n) ==
    LET f == [dates[d].fields EXCEPT !.year = @ + n]
    IN  /\ Known(d)
        /\ f.year \in Years /\ InRange(MkTime(f))
        /\ Put(d, Counted(dates[d], f))

AddMonthsBy(d, n) ==
    LET f == [dates[d].fields EXCEPT !.month = @ + n]
    IN  /\ Known(d)
        /\ f.month \in Months /\ InRange(MkTime(f))
        /\ Put(d, Counted(dates[d], f))

AddMonths(d) == \E n \in GivenSteps : AddYearsBy(d, n) \/ AddMonthsBy(d, n)

\* AddSeconds, to which AddDays ... AddMilliseconds come down: the sum, a
\* double, is cut to whole seconds (the rest becomes m_millisecond, which is
\* left out: it is only shown, and the next AddSeconds overwrites it).
AddSeconds(d) ==
    \E delay \in GivenDelays :
        LET stamp == Quot(dates[d].stamp * MsPerSecond + delay, MsPerSecond)
        IN  /\ Known(d)
            /\ InRange(stamp)
            /\ Put(d, Parsed(dates[d], stamp))

\* ToLocalTime and ToUniversalTime.
Convert(d, e) ==
    /\ Known(e)
    /\ \E k \in Kinds : Put(d, FromStamp(dates[e].stamp, k))

DateNext ==
    \E d \in Dates :
        \/ NewFromStamp(d)
        \/ NewFromFields(d)
        \/ AddMonths(d)
        \/ AddSeconds(d)
        \/ \E s \in Spans : AddSpan(d, s)
        \/ \E e \in Dates : CopyDate(d, e) \/ AssignDate(d, e) \/ Convert(d, e)
        \/ \E e \in Dates, s \in Spans : Difference(s, d, e)

TimeNext == DateNext \/ (SpanNext /\ UNCHANGED dates)

TimeSpec == DateInit /\ [][TimeNext]_timeVars

-----------------------------------------------------------------------------
DateType ==
    [stamp : Stamps,
     fields : [year : Years, month : Months, day : 1 .. LongestMonth,
               clock : 0 .. SecondsPerDay - 1],
     weekday : 0 .. DaysPerWeek - 1, kind : Kinds,
     bound : BOOLEAN, read : BOOLEAN]

\* Every date and span holds values of its type; in particular the clock of
\* a date stays within the day, however its fields were arrived at.
TimeTypeOK == SpanTypeOK /\ dates \in [Dates -> DateType]

LocalReading(date) ==
    /\ MkTime(date.fields) = date.stamp
    /\ date.weekday = Weekday(date.stamp + ZoneOffset)

UtcReading(date) ==
    /\ Seconds(date.fields) = date.stamp
    /\ date.weekday = Weekday(date.stamp)

\* The fields and the weekday of a date are a reading of its timestamp
\* (DateTime.cpp:219-268), after every chain of constructions, assignments
\* and additions: the local reading for a local date, and one of the two
\* readings for a UTC date, which AddYears and AddMonths count as local.
ReadsItsStamp ==
    \A d \in Dates :
        dates[d].read => \/ LocalReading(dates[d])
                         \/ dates[d].kind = "Utc" /\ UtcReading(dates[d])

\* Adding no months or no years leaves a local date as it is, and of a UTC date
\* leaves everything or moves the timestamp by the offset of the zone
\* (DateTime.cpp:543-571), whatever was done to the date before.  Of the fields of a
\* date that moves, ReadsItsStamp speaks.
AddingNothing ==
    [][\A d \in Dates :
          AddMonthsBy(d, 0) \/ AddYearsBy(d, 0) =>
              \/ dates'[d] = dates[d]
              \/ /\ dates[d].kind = "Utc"
                 /\ dates'[d].stamp = dates[d].stamp - ZoneOffset]_timeVars
=============================================================================
