--------------------------- MODULE UtilityProofs ----------------------------
(***************************************************************************)
(* Theorems about TimeSpan and DateTime, about Path and about              *)
(* ConsoleTable.                                                           *)
(*                                                                         *)
(* The five parts and the ticks of a span never drift apart by anything    *)
(* but the overflow of an int, for every length of the units and every     *)
(* width of an int.  The calendar fields of a date stay a reading of its   *)
(* timestamp, for every calendar, every zone offset and every set of       *)
(* inputs.                                                                 *)
(*                                                                         *)
(* CreatePath recurses for ever only at the top of a path, and what it     *)
(* returns is true, for every file system, every set of paths, every       *)
(* number of callers and every depth of the stack.  First come the         *)
(* conversions between names and text, then trees of places and what a     *)
(* call of the system does to one, then PathInv and a lemma per action.    *)
(* GetSubPaths, undisturbed, finds what it is meant to find, for every     *)
(* pattern too: first that the regular expression matches what the pattern *)
(* means, then WalkInv, what a walk has found and has still ahead.         *)
(*                                                                         *)
(* A table prints the rows it was given, for every set of columns and      *)
(* rows of every length.                                                   *)
(*                                                                         *)
(* Last, these hold of the programs of Utilities, each of which is one of  *)
(* these three.                                                            *)
(***************************************************************************)
EXTENDS Utilities, FiniteSetTheorems, SequenceTheorems, WellFoundedInduction, TLAPS
-----------------------------------------------------------------------------

M == 2 * IntHalf

Congruent(x, y) == \E k \in Int : x = y + k * M

LEMMA Units ==
    /\ IntHalf \in Nat \ {0}
    /\ M \in Nat \ {0}
    /\ MsPerSecond \in Nat \ {0}
    /\ MsPerMinute \in Nat \ {0}
    /\ MsPerHour \in Nat \ {0}
    /\ MsPerDay \in Nat \ {0}
    /\ MaxTicks \in Nat
<1>1. /\ MsPerSecond \in Nat /\ MsPerSecond > 0
      /\ SecondsPerMinute \in Nat /\ SecondsPerMinute > 0
      /\ MinutesPerHour \in Nat /\ MinutesPerHour > 0
      /\ HoursPerDay \in Nat /\ HoursPerDay > 0
      /\ IntHalf \in Nat /\ IntHalf > 0 /\ MaxTicks \in Nat
  BY UnitAssumption
<1>2. ASSUME NEW a \in Nat, NEW b \in Nat, a > 0, b > 0
      PROVE  a * b \in Nat /\ a * b > 0
  BY <1>2
<1>3. MsPerMinute \in Nat /\ MsPerMinute > 0
  BY <1>1, <1>2 DEF MsPerMinute
<1>4. MsPerHour \in Nat /\ MsPerHour > 0
  BY <1>1, <1>2, <1>3 DEF MsPerHour
<1>5. MsPerDay \in Nat /\ MsPerDay > 0
  BY <1>1, <1>2, <1>4 DEF MsPerDay
<1> QED
  BY <1>1, <1>3, <1>4, <1>5 DEF M

\* The defining equation of division.
LEMMA DivMod ==
    ASSUME NEW c \in Int, NEW m \in Nat, m > 0
    PROVE  /\ c \div m \in Int
           /\ c % m \in Int
           /\ c % m = c - (c \div m) * m
  OBVIOUS

LEMMA MultipleHasNoRemainder ==
    ASSUME NEW k \in Int, NEW m \in Nat, m > 0
    PROVE  (k * m) % m = 0
<1>1. (k * m) % m = k * m - ((k * m) \div m) * m /\ (k * m) \div m \in Int
  BY DivMod, k * m \in Int
<1>2. (k * m) \div m = k
  OBVIOUS
<1> QED
  BY <1>1, <1>2

\* C division and remainder put a number back together.
LEMMA QuotRem ==
    ASSUME NEW a \in Int, NEW b \in Nat \ {0}
    PROVE  /\ Quot(a, b) \in Int
           /\ Rem(a, b) \in Int
           /\ a = Quot(a, b) * b + Rem(a, b)
<1>1. ASSUME NEW c \in Nat
      PROVE  c \div b \in Int /\ c % b \in Int /\ c = (c \div b) * b + (c % b)
  <2>1. b > 0
    OBVIOUS
  <2>2. c \div b \in Int /\ c % b \in Int /\ c % b = c - (c \div b) * b
    BY <2>1, DivMod
  <2>3. ASSUME NEW q \in Int, NEW r \in Int, r = c - q * b
        PROVE  c = q * b + r
    BY <2>3
  <2> QED
    BY <2>2, <2>3
<1>2. CASE a >= 0
  BY <1>1, <1>2 DEF Quot, Rem
<1>3. CASE ~(a >= 0)
  <2>1. -a \in Nat
    BY <1>3
  <2>2. PICK q \in Int, r \in Int : q = (-a) \div b /\ r = (-a) % b /\ -a = q * b + r
    BY <1>1, <2>1
  <2>3. Quot(a, b) = -q /\ Rem(a, b) = -r
    BY <1>3, <2>2 DEF Quot, Rem
  <2>4. (-q) * b = -(q * b)
    OBVIOUS
  <2> QED
    BY <2>2, <2>3, <2>4
<1> QED
  BY <1>2, <1>3

\* The narrowing conversion changes a number by a multiple of 2^w.
LEMMA Narrowed ==
    ASSUME NEW x \in Int
    PROVE  AsInt(x) \in Int /\ Congruent(AsInt(x), x)
<1> DEFINE q == (x + IntHalf) \div M
<1>1. q \in Int /\ (x + IntHalf) % M = (x + IntHalf) - q * M
  <2>1. x + IntHalf \in Int /\ M \in Nat /\ M > 0
    BY Units
  <2> QED
    BY <2>1, DivMod
<1> HIDE DEF q
<1>2. AsInt(x) = x + (-q) * M
  BY <1>1, Units DEF AsInt, M
<1> QED
  BY <1>1, <1>2, Units DEF Congruent

LEMMA CongruenceIsRemainder ==
    ASSUME NEW x \in Int, NEW y \in Int
    PROVE  Congruent(x, y) <=> (x - y) % M = 0
<1> DEFINE c == x - y
<1>0. c \in Int /\ M \in Nat /\ M > 0
  BY Units
<1>1. ASSUME c % M = 0
      PROVE  Congruent(x, y)
  <2>1. c \div M \in Int /\ c % M = c - (c \div M) * M
    BY <1>0, DivMod
  <2>2. PICK k \in Int : c = k * M
    BY <1>0, <1>1, <2>1
  <2>3. x = y + k * M
    BY <1>0, <2>2
  <2> QED
    BY <2>3 DEF Congruent
<1>2. ASSUME Congruent(x, y)
      PROVE  c % M = 0
  <2>1. PICK k \in Int : x = y + k * M
    BY <1>2 DEF Congruent
  <2>2. c = k * M
    BY <1>0, <2>1
  <2> QED
    BY <1>0, <2>2, MultipleHasNoRemainder
<1> QED
  BY <1>1, <1>2

\* What FromTicks stores (DateTime.cpp:183-200).
LEMMA PartsOfTicks ==
    ASSUME NEW t \in Int
    PROVE  /\ PartsOf(t) \in PartsType
           /\ Total(PartsOf(t)) \in Int
           /\ Congruent(Total(PartsOf(t)), t)
<1> DEFINE q1 == Quot(t, MsPerDay)
           r1 == Rem(t, MsPerDay)
           q2 == Quot(r1, MsPerHour)
           r2 == Rem(r1, MsPerHour)
           q3 == Quot(r2, MsPerMinute)
           r3 == Rem(r2, MsPerMinute)
           q4 == Quot(r3, MsPerSecond)
           r4 == Rem(r3, MsPerSecond)
           p == PartsOf(t)
<1>1. q1 \in Int /\ r1 \in Int /\ t = q1 * MsPerDay + r1
  BY QuotRem, Units
<1>2. q2 \in Int /\ r2 \in Int /\ r1 = q2 * MsPerHour + r2
  BY <1>1, QuotRem, Units
<1>3. q3 \in Int /\ r3 \in Int /\ r2 = q3 * MsPerMinute + r3
  BY <1>2, QuotRem, Units
<1>4. q4 \in Int /\ r4 \in Int /\ r3 = q4 * MsPerSecond + r4
  BY <1>3, QuotRem, Units
<1>5. PICK k \in Int : AsInt(q1) = q1 + k * M
  BY <1>1, Narrowed DEF Congruent
<1>6. AsInt(q1) \in Int
  BY <1>1, Narrowed
<1>7. p = [days |-> AsInt(q1), hours |-> q2, minutes |-> q3,
           seconds |-> q4, milliseconds |-> r4]
  BY DEF PartsOf
<1>8. /\ p.days = AsInt(q1) /\ p.hours = q2 /\ p.minutes = q3
      /\ p.seconds = q4 /\ p.milliseconds = r4
  BY <1>7
<1>9. p \in PartsType
  BY <1>2, <1>3, <1>4, <1>6, <1>7 DEF PartsType
<1> HIDE DEF q1, r1, q2, r2, q3, r3, q4, r4, p
<1>10. Total(p) = (q1 + k * M) * MsPerDay + q2 * MsPerHour + q3 * MsPerMinute
                     + q4 * MsPerSecond + r4
  BY <1>5, <1>8 DEF Total
<1>11. (q1 + k * M) * MsPerDay = q1 * MsPerDay + (k * MsPerDay) * M
  BY <1>1, <1>5, Units
<1>12. /\ q1 * MsPerDay \in Int /\ q2 * MsPerHour \in Int
       /\ q3 * MsPerMinute \in Int /\ q4 * MsPerSecond \in Int
       /\ k * MsPerDay \in Int /\ (k * MsPerDay) * M \in Int
  BY <1>1, <1>2, <1>3, <1>4, <1>5, Units
<1>13. Total(p) = t + (k * MsPerDay) * M /\ Total(p) \in Int
  BY <1>1, <1>2, <1>3, <1>4, <1>10, <1>11, <1>12
<1>14. Congruent(Total(p), t)
  BY <1>12, <1>13 DEF Congruent
<1> QED
  BY <1>9, <1>13, <1>14 DEF p

\* Whatever FromDateTime stores is congruent to the parts it was given.
LEMMA TicksOfParts ==
    ASSUME NEW p \in PartsType, NEW t \in Products(p)
    PROVE  Total(p) \in Int /\ t \in Int /\ Congruent(Total(p), t)
<1>1. Total(p) \in Int
  BY Units DEF PartsType, Total
<1>2. CASE t = Total(p)
  <2>1. Total(p) = t + 0 * M
    BY <1>1, <1>2, Units
  <2> QED
    BY <1>1, <1>2, <2>1 DEF Congruent
<1>3. CASE t = AsInt(Total(p))
  <2>1. t \in Int
    BY <1>1, <1>3, Narrowed
  <2>2. PICK k \in Int : t = Total(p) + k * M
    BY <1>1, <1>3, Narrowed DEF Congruent
  <2>3. k * M \in Int /\ (-k) * M = -(k * M)
    BY Units
  <2>4. Total(p) = t + (-k) * M
    BY <1>1, <2>1, <2>2, <2>3
  <2> QED
    BY <1>1, <2>1, <2>4 DEF Congruent
<1> QED
  BY <1>2, <1>3 DEF Products

-----------------------------------------------------------------------------
\* The value of one span is sound when its parts denote its ticks.
Sound(span) ==
    /\ span \in [ticks : -MaxTicks .. MaxTicks, parts : PartsType]
    /\ (Total(span.parts) - span.ticks) % M = 0

LEMMA OfTicksIsSound ==
    ASSUME NEW t, Within(t)
    PROVE  Sound(OfTicks(t))
<1>1. t \in Int /\ t \in -MaxTicks .. MaxTicks
  BY Units DEF Within
<1>2. /\ PartsOf(t) \in PartsType
      /\ (Total(PartsOf(t)) - t) % M = 0
  BY <1>1, PartsOfTicks, CongruenceIsRemainder
<1> QED
  BY <1>1, <1>2 DEF Sound, OfTicks

LEMMA OfPartsIsSound ==
    ASSUME NEW p \in PartsType, NEW span \in OfParts(p), Within(span.ticks)
    PROVE  Sound(span)
<1>1. PICK t \in Products(p) : span = [ticks |-> t, parts |-> p]
  BY DEF OfParts
<1>2. t \in -MaxTicks .. MaxTicks
  BY <1>1 DEF Within
<1>3. (Total(p) - t) % M = 0
  BY TicksOfParts, CongruenceIsRemainder
<1> QED
  BY <1>1, <1>2, <1>3 DEF Sound

\* Every span is sound: the type invariant and PartsDenoteTicks together.
AllSound == spans \in [Spans -> {span \in [ticks : -MaxTicks .. MaxTicks,
                                           parts : PartsType] : Sound(span)}]

LEMMA AllSoundMeans == AllSound <=> SpanTypeOK /\ PartsDenoteTicks
  BY DEF AllSound, Sound, SpanTypeOK, PartsDenoteTicks, M

LEMMA BecomePreserves ==
    ASSUME AllSound, NEW s \in Spans, NEW span, Become(s, span), Sound(span)
    PROVE  AllSound'
  BY DEF AllSound, Become, Sound

LEMMA TicksStep ==
    ASSUME AllSound, NEW s \in Spans, NEW t, Become(s, OfTicks(t))
    PROVE  AllSound'
<1>1. Within(t)
  BY DEF Become, OfTicks
<1> QED
  BY <1>1, OfTicksIsSound, BecomePreserves

LEMMA PartsStep ==
    ASSUME AllSound, NEW s \in Spans, NEW p \in PartsType,
           NEW span \in OfParts(p), Become(s, span)
    PROVE  AllSound'
<1>1. Within(span.ticks)
  BY DEF Become
<1> QED
  BY <1>1, OfPartsIsSound, BecomePreserves

LEMMA SoundInitially == SpanInit => AllSound
<1>1. ASSUME NEW t \in GivenTicks
      PROVE  Sound(OfTicks(t))
  BY OfTicksIsSound, InputAssumption DEF Within
<1> QED
  BY <1>1 DEF SpanInit, AllSound, Sound

LEMMA SoundStep == AllSound /\ [SpanNext]_spans => AllSound'
<1> SUFFICES ASSUME AllSound, [SpanNext]_spans
             PROVE  AllSound'
  OBVIOUS
<1>1. CASE UNCHANGED spans
  BY <1>1 DEF AllSound, Sound
<1>2. ASSUME NEW s \in Spans, FromTicks(s)
      PROVE  AllSound'
  BY <1>2, TicksStep DEF FromTicks
<1>3. ASSUME NEW s \in Spans, FromParts(s)
      PROVE  AllSound'
  <2>1. GivenParts \subseteq PartsType
    BY InputAssumption DEF PartsType
  <2> QED
    BY <1>3, <2>1, PartsStep DEF FromParts
<1>4. ASSUME NEW s \in Spans, NEW r \in Spans, CopySpan(s, r)
      PROVE  AllSound'
  <2>1. spans[r].parts \in PartsType
    BY DEF AllSound
  <2> QED
    BY <1>4, <2>1, PartsStep DEF CopySpan
<1>5. ASSUME NEW s \in Spans, NEW r \in Spans, AssignSpan(s, r)
      PROVE  AllSound'
  BY <1>5, TicksStep DEF AssignSpan
<1>6. ASSUME NEW s \in Spans, NEW a \in Spans, Negate(s, a) \/ Duration(s, a)
      PROVE  AllSound'
  BY <1>6, TicksStep DEF Negate, Duration
<1>7. ASSUME NEW s \in Spans, NEW a \in Spans, NEW b \in Spans,
             Plus(s, a, b) \/ Minus(s, a, b)
      PROVE  AllSound'
  BY <1>7, TicksStep DEF Plus, Minus
<1> QED
  BY <1>1, <1>2, <1>3, <1>4, <1>5, <1>6, <1>7 DEF SpanNext

\* The parts of a TimeSpan and its ticks differ by a multiple of 2^w after
\* every chain of constructions, copies, assignments and sums
\* (DateTime.cpp:131-217, 728-832), for every length of the units.
THEOREM SpanParts == SpanSpec => [](SpanTypeOK /\ PartsDenoteTicks)
<1>1. SpanSpec => []AllSound
  BY SoundInitially, SoundStep, PTL DEF SpanSpec
<1> QED
  BY <1>1, AllSoundMeans, PTL
-----------------------------------------------------------------------------
FieldType == [year : Years, month : Months, day : 1 .. LongestMonth,
              clock : 0 .. SecondsPerDay - 1]

\* A date whose value is known reads its timestamp, one way or the other.
Reads(date) == \/ LocalReading(date)
               \/ date.kind = "Utc" /\ UtcReading(date)

Proper(date) ==
    /\ date \in DateType
    /\ date.read => Reads(date) /\ InRange(date.stamp)

LEMMA SecondsType ==
    ASSUME NEW f \in FieldType
    PROVE  Seconds(f) \in Int /\ MkTime(f) \in Int
<1>1. f.day \in Int /\ f.clock \in Int
  <2>1. f.day \in 1 .. LongestMonth /\ f.clock \in 0 .. SecondsPerDay - 1
    BY DEF FieldType
  <2>2. LongestMonth \in Int /\ SecondsPerDay - 1 \in Int
    BY CalendarAssumption
  <2> QED
    BY <2>1, <2>2
<1>2. FirstDay(MonthIndex(f.year, f.month)) \in Int
  BY CalendarAssumption DEF FieldType, MonthIndex
<1>3. SecondsPerDay \in Int /\ ZoneOffset \in Int
  BY CalendarAssumption
<1>4. (FirstDay(MonthIndex(f.year, f.month)) + f.day - 1) * SecondsPerDay \in Int
  BY <1>1, <1>2, <1>3
<1> QED
  BY <1>1, <1>3, <1>4 DEF Seconds, MkTime

LEMMA CivilTimesAreFields == CivilTimes \subseteq FieldType
  BY CalendarAssumption DEF CivilTimes, FieldType

LEMMA StampsAreInts == Stamps \subseteq Int
  BY SecondsType, CivilTimesAreFields DEF Stamps

LEMMA WeekdayType ==
    ASSUME NEW x \in Int
    PROVE  Weekday(x) \in 0 .. DaysPerWeek - 1
<1>1. /\ SecondsPerDay \in Nat /\ SecondsPerDay > 0
      /\ DaysPerWeek \in Nat /\ DaysPerWeek > 0
  BY CalendarAssumption
<1>2. x \div SecondsPerDay \in Int
  BY <1>1, DivMod
<1>3. ASSUME NEW c \in Int, NEW m \in Nat, m > 0
      PROVE  c % m \in 0 .. m - 1
  BY <1>3
<1> QED
  BY <1>1, <1>2, <1>3 DEF Weekday

\* gmtime inverts the count of seconds.
LEMMA GmTimeReads ==
    ASSUME NEW t \in Stamps
    PROVE  GmTime[t] \in FieldType /\ Seconds(GmTime[t]) = t
<1>1. \E f \in CivilTimes : Seconds(f) = t
  BY DEF Stamps
<1>2. GmTime[t] = CHOOSE f \in CivilTimes : Seconds(f) = t
  BY DEF GmTime
<1>3. GmTime[t] \in CivilTimes /\ Seconds(GmTime[t]) = t
  BY <1>1, <1>2
<1> QED
  BY <1>3, CivilTimesAreFields

\* Both ways of bringing a date up to date leave it proper.
LEMMA ParsedIsProper ==
    ASSUME NEW date \in DateType, NEW t, InRange(t)
    PROVE  Proper(Parsed(date, t))
<1> DEFINE new == Parsed(date, t)
<1>1. t \in Stamps /\ t + ZoneOffset \in Stamps
  BY DEF InRange
<1>2. t \in Int /\ t + ZoneOffset \in Int /\ ZoneOffset \in Int
  BY <1>1, StampsAreInts, CalendarAssumption
<1>3. CASE date.kind = "Utc"
  <2>1. new = [date EXCEPT !.stamp = t, !.fields = GmTime[t], !.weekday = Weekday(t)]
    BY <1>3 DEF Parsed
  <2>2. GmTime[t] \in FieldType /\ Weekday(t) \in 0 .. DaysPerWeek - 1
    BY <1>1, <1>2, GmTimeReads, WeekdayType
  <2>3. /\ new \in DateType /\ new.stamp = t /\ new.kind = "Utc"
        /\ new.fields = GmTime[t] /\ new.weekday = Weekday(t)
    BY <1>1, <1>3, <2>1, <2>2 DEF DateType, FieldType
  <2> QED
    BY <1>1, <2>3, GmTimeReads DEF Proper, Reads, UtcReading
<1>4. CASE date.kind # "Utc"
  <2>1. new = [date EXCEPT !.stamp = t, !.fields = GmTime[t + ZoneOffset],
                           !.weekday = Weekday(t + ZoneOffset)]
    BY <1>4 DEF Parsed, LocalTime
  <2>2. /\ GmTime[t + ZoneOffset] \in FieldType
        /\ Weekday(t + ZoneOffset) \in 0 .. DaysPerWeek - 1
    BY <1>1, <1>2, GmTimeReads, WeekdayType
  <2>3. /\ new \in DateType /\ new.stamp = t
        /\ new.fields = GmTime[t + ZoneOffset] /\ new.weekday = Weekday(t + ZoneOffset)
    BY <1>1, <2>1, <2>2 DEF DateType, FieldType
  <2>4. MkTime(new.fields) = t
    BY <1>1, <1>2, <2>3, GmTimeReads DEF MkTime
  <2> QED
    BY <2>3, <2>4 DEF Proper, Reads, LocalReading
<1> QED
  BY <1>3, <1>4

LEMMA CountedIsProper ==
    ASSUME NEW date \in DateType, NEW f \in FieldType, InRange(MkTime(f))
    PROVE  Proper(Counted(date, f))
<1> DEFINE new == Counted(date, f)
           t == MkTime(f)
<1>1. t \in Stamps /\ t + ZoneOffset \in Int
  BY StampsAreInts DEF InRange
<1>2. new = [date EXCEPT !.stamp = t, !.fields = f, !.weekday = Weekday(t + ZoneOffset)]
  BY DEF Counted
<1>3. Weekday(t + ZoneOffset) \in 0 .. DaysPerWeek - 1
  BY <1>1, WeekdayType
<1> HIDE DEF t
<1>4. /\ new \in DateType /\ new.stamp = t /\ new.fields = f
      /\ new.weekday = Weekday(t + ZoneOffset)
  BY <1>1, <1>2, <1>3 DEF DateType, FieldType
<1> QED
  BY <1>4 DEF Proper, Reads, LocalReading, t

LEMMA BlankType ==
    ASSUME NEW k \in Kinds
    PROVE  Blank(k) \in DateType
<1>1. 0 \in Stamps /\ 0 \in Years /\ 1 \in Months
  BY GivenStampsAssumption, CalendarAssumption
<1>2. 1 \in 1 .. LongestMonth /\ 0 \in 0 .. SecondsPerDay - 1
      /\ 0 \in 0 .. DaysPerWeek - 1
  BY CalendarAssumption
<1> QED
  BY <1>1, <1>2 DEF Blank, DateType

LEMMA FromStampIsProper ==
    ASSUME NEW k \in Kinds, NEW t, InRange(t)
    PROVE  Proper(FromStamp(t, k))
  BY BlankType, ParsedIsProper DEF FromStamp

-----------------------------------------------------------------------------
AllProper == dates \in [Dates -> {date \in DateType : Proper(date)}]

DateInv == AllSound /\ AllProper

LEMMA DateInvMeans == DateInv => TimeTypeOK /\ PartsDenoteTicks /\ ReadsItsStamp
  BY AllSoundMeans DEF DateInv, AllProper, Proper, Reads, TimeTypeOK, ReadsItsStamp

LEMMA PutPreserves ==
    ASSUME DateInv, NEW d \in Dates, NEW date, Put(d, date), Proper(date)
    PROVE  DateInv'
<1>1. AllSound'
  BY DEF DateInv, Put, AllSound, Sound
<1>2. AllProper'
  BY DEF DateInv, Put, AllProper, Proper
<1> QED
  BY <1>1, <1>2 DEF DateInv

LEMMA DateInvInit == DateInit => DateInv
<1> SUFFICES ASSUME DateInit
             PROVE  DateInv
  OBVIOUS
<1>1. AllSound
  BY SoundInitially DEF DateInit
<1>2. ASSUME NEW t \in GivenStamps, NEW k \in Kinds
      PROVE  Proper(FromStamp(t, k))
  BY GivenStampsAssumption, FromStampIsProper
<1>3. AllProper
  BY <1>2 DEF DateInit, AllProper, Proper
<1> QED
  BY <1>1, <1>3 DEF DateInv

LEMMA DateInvStep == DateInv /\ [TimeNext]_timeVars => DateInv'
<1> SUFFICES ASSUME DateInv, [TimeNext]_timeVars
             PROVE  DateInv'
  OBVIOUS
<1>0. \A d \in Dates : dates[d] \in DateType /\ Proper(dates[d])
  BY DEF DateInv, AllProper
<1>1. CASE UNCHANGED timeVars
  BY <1>1 DEF timeVars, DateInv, AllSound, Sound, AllProper, Proper
<1>2. CASE SpanNext /\ UNCHANGED dates
  <2>1. AllSound'
    BY <1>2, SoundStep DEF DateInv
  <2> QED
    BY <1>2, <2>1 DEF DateInv, AllProper, Proper
<1>3. ASSUME NEW d \in Dates, NewFromStamp(d)
      PROVE  DateInv'
  BY <1>3, PutPreserves, FromStampIsProper, GivenStampsAssumption DEF NewFromStamp
<1>4. ASSUME NEW d \in Dates, NewFromFields(d)
      PROVE  DateInv'
  <2>1. GivenFields \subseteq FieldType
    BY CalendarAssumption DEF FieldType
  <2> QED
    BY <1>4, <2>1, PutPreserves, CountedIsProper, BlankType DEF NewFromFields
<1>5. ASSUME NEW d \in Dates, NEW e \in Dates, CopyDate(d, e)
      PROVE  DateInv'
  <2>1. CASE dates[e].bound
    BY <1>0, <1>5, <2>1, PutPreserves DEF CopyDate
  <2>2. CASE ~dates[e].bound
    <3>1. Blank("Utc") \in DateType
      BY BlankType DEF Kinds
    <3>2. Proper([Blank("Utc") EXCEPT !.read = FALSE])
      BY <3>1 DEF Proper, DateType
    <3> QED
      BY <1>5, <2>2, <3>2, PutPreserves DEF CopyDate
  <2> QED
    BY <2>1, <2>2
<1>6. ASSUME NEW d \in Dates, NEW e \in Dates, AssignDate(d, e)
      PROVE  DateInv'
  <2>1. Proper([dates[e] EXCEPT !.bound = FALSE])
    BY <1>0 DEF Proper, Reads, LocalReading, UtcReading, DateType
  <2> QED
    BY <1>6, <2>1, PutPreserves DEF AssignDate
<1>7. ASSUME NEW d \in Dates, NEW s \in Spans, AddSpan(d, s)
      PROVE  DateInv'
  BY <1>0, <1>7, PutPreserves, ParsedIsProper DEF AddSpan
<1>8. ASSUME NEW d \in Dates, NEW e \in Dates, NEW s \in Spans, Difference(s, d, e)
      PROVE  DateInv'
  <2>1. AllSound'
    BY <1>8, TicksStep DEF Difference, DateInv
  <2> QED
    BY <1>8, <2>1 DEF Difference, DateInv, AllProper, Proper
<1>9. ASSUME NEW d \in Dates, AddMonths(d)
      PROVE  DateInv'
  <2>1. PICK n \in GivenSteps : AddYearsBy(d, n) \/ AddMonthsBy(d, n)
    BY <1>9 DEF AddMonths
  <2>2. dates[d].fields \in FieldType
    BY <1>0 DEF DateType, FieldType
  <2>3. CASE AddYearsBy(d, n)
    <3> DEFINE f == [dates[d].fields EXCEPT !.year = @ + n]
    <3>1. f \in FieldType /\ InRange(MkTime(f)) /\ Put(d, Counted(dates[d], f))
      BY <2>2, <2>3 DEF AddYearsBy, FieldType
    <3> HIDE DEF f
    <3> QED
      BY <1>0, <3>1, PutPreserves, CountedIsProper
  <2>4. CASE AddMonthsBy(d, n)
    <3> DEFINE f == [dates[d].fields EXCEPT !.month = @ + n]
    <3>1. f \in FieldType /\ InRange(MkTime(f)) /\ Put(d, Counted(dates[d], f))
      BY <2>2, <2>4 DEF AddMonthsBy, FieldType
    <3> HIDE DEF f
    <3> QED
      BY <1>0, <3>1, PutPreserves, CountedIsProper
  <2> QED
    BY <2>1, <2>3, <2>4
<1>10. ASSUME NEW d \in Dates, AddSeconds(d)
       PROVE  DateInv'
  BY <1>0, <1>10, PutPreserves, ParsedIsProper DEF AddSeconds
<1>11. ASSUME NEW d \in Dates, NEW e \in Dates, Convert(d, e)
       PROVE  DateInv'
  <2>1. PICK k \in Kinds : Put(d, FromStamp(dates[e].stamp, k))
    BY <1>11 DEF Convert
  <2>2. InRange(dates[e].stamp)
    BY <1>0, <1>11 DEF Convert, Known, Proper
  <2> QED
    BY <2>1, <2>2, PutPreserves, FromStampIsProper
<1> QED
  BY <1>1, <1>2, <1>3, <1>4, <1>5, <1>6, <1>7, <1>8, <1>9, <1>10, <1>11
     DEF TimeNext, DateNext

LEMMA DateInvAlways == TimeSpec => []DateInv
  BY DateInvInit, DateInvStep, PTL DEF TimeSpec

\* Dates and spans keep their types: no operation takes a clock out of the
\* day or a weekday out of the week (DateTime.cpp:219-268, 448-608).
THEOREM TypeCorrect == TimeSpec => []TimeTypeOK
  BY DateInvAlways, DateInvMeans, PTL

\* The parts and the ticks of every TimeSpan stay congruent modulo 2^w in the
\* whole program, DateTime's own differences included (DateTime.cpp:131-217,
\* 506-511, 728-832).
THEOREM SpansStaySound == TimeSpec => []PartsDenoteTicks
  BY DateInvAlways, DateInvMeans, PTL

\* The fields of a date read its timestamp after every chain of operations
\* (DateTime.cpp:219-268, 425-608), in every calendar and every zone.
THEOREM DatesReadTheirStamps == TimeSpec => []ReadsItsStamp
  BY DateInvAlways, DateInvMeans, PTL

\* Adding no months, or no years, never moves a local date, and moves a UTC
\* date by nothing or by the offset of the zone (DateTime.cpp:543-571).
THEOREM AddingNothingIsSafe == TimeSpec => AddingNothing
<1>1. ASSUME DateInv, NEW d \in Dates, AddMonthsBy(d, 0) \/ AddYearsBy(d, 0)
      PROVE  \/ dates'[d] = dates[d]
             \/ /\ dates[d].kind = "Utc"
                /\ dates'[d].stamp = dates[d].stamp - ZoneOffset
  <2> DEFINE date == dates[d]
  <2>1. dates \in [Dates -> DateType] /\ date \in DateType /\ Proper(date)
    BY <1>1 DEF DateInv, AllProper
  <2>2. date.fields \in FieldType
    BY <2>1 DEF DateType, FieldType
  <2>3. date.fields.year \in Int /\ date.fields.month \in Int
    BY <2>2, CalendarAssumption DEF FieldType
  <2>4. /\ [date.fields EXCEPT !.month = @ + 0] = date.fields
        /\ [date.fields EXCEPT !.year = @ + 0] = date.fields
    BY <2>2, <2>3 DEF FieldType
  <2>5. date.read /\ dates' = [dates EXCEPT ![d] = Counted(date, date.fields)]
    BY <1>1, <2>4 DEF AddMonthsBy, AddYearsBy, Put, Known
  <2>6. dates'[d] = Counted(date, date.fields)
    BY <2>1, <2>5
  <2>7. /\ Counted(date, date.fields).stamp = MkTime(date.fields)
        /\ date.stamp = MkTime(date.fields)
           /\ date.weekday = Weekday(date.stamp + ZoneOffset)
             => Counted(date, date.fields) = date
    BY <2>1 DEF Counted, DateType
  <2>8. CASE LocalReading(date)
    BY <2>6, <2>7, <2>8 DEF LocalReading
  <2>9. CASE date.kind = "Utc" /\ UtcReading(date)
    BY <2>6, <2>7, <2>9 DEF UtcReading, MkTime
  <2> QED
    BY <2>1, <2>5, <2>8, <2>9 DEF Proper, Reads
<1>2. TimeSpec => []DateInv
  BY DateInvAlways
<1>3. DateInv /\ [TimeNext]_timeVars =>
          [\A d \in Dates :
              AddMonthsBy(d, 0) \/ AddYearsBy(d, 0) =>
                  \/ dates'[d] = dates[d]
                  \/ /\ dates[d].kind = "Utc"
                     /\ dates'[d].stamp = dates[d].stamp - ZoneOffset]_timeVars
  BY <1>1
<1> QED
  BY <1>2, <1>3, PTL DEF TimeSpec, AddingNothing

\* The least of a set of numbers.
LEMMA LeastIs ==
  ASSUME NEW S \in SUBSET Nat, S # {}
  PROVE  \E x \in S : \A y \in S : x <= y
  <1> DEFINE R == {ss \in Nat \X Nat : ss[1] < ss[2]}
  <1>1. IsWellFoundedOn(R, Nat)
    BY NatLessThanWellFounded DEF OpToRel
  <1>2. \A x, y \in S : <<y, x>> \in R <=> y < x
    OBVIOUS
  <1> HIDE DEF R
  <1>3. PICK x \in S : \A y \in S : ~(<<y, x>> \in R)
    BY <1>1, WFMin
  <1>4. ASSUME NEW y \in S PROVE x <= y
    <2>1. x \in Nat /\ y \in Nat /\ ~(y < x)
      BY <1>2, <1>3
    <2> QED  BY <2>1
  <1> QED  BY <1>4

\* What holds of no element, and of a sequence with one more, holds of every sequence.
LEMMA SequencesAre ==
  ASSUME NEW S, NEW T, <<>> \in T,
         \A s \in Seq(S), e \in S : s \in T => Append(s, e) \in T
  PROVE  Seq(S) \subseteq T
  <1> SUFFICES ASSUME NEW t \in Seq(S), t \notin T PROVE FALSE
    OBVIOUS
  <1> DEFINE Missing == {n \in Nat : \E s \in Seq(S) : Len(s) = n /\ s \notin T}
  <1>1. Missing \in SUBSET Nat /\ Missing # {}
    OBVIOUS
  <1>2. PICK n \in Missing : \A y \in Missing : n <= y
    BY <1>1, LeastIs
  <1>3. PICK s \in Seq(S) : Len(s) = n /\ s \notin T
    BY <1>2
  <1>4. s # <<>>
    BY <1>3
  <1> DEFINE r == SubSeq(s, 1, Len(s) - 1)
  <1>5. r \in Seq(S) /\ Len(r) = n - 1 /\ s[Len(s)] \in S /\ s = Append(r, s[Len(s)])
    BY <1>3, <1>4
  <1>6. r \notin T
    BY <1>3, <1>5
  <1>7. n - 1 \in Nat /\ ~(n <= n - 1)
    BY <1>3, <1>4
  <1>8. n - 1 \in Missing
    BY <1>5, <1>6, <1>7
  <1> QED  BY <1>2, <1>7, <1>8

-----------------------------------------------------------------------------
\* The recursion in Names.
Kept(text, kept) ==
    kept = [i \in 0..Len(text) |->
              IF i = 0 THEN <<>>
              ELSE IF text[i] = divider THEN kept[i - 1] ELSE Append(kept[i - 1], text[i])]

LEMMA KeptOnce ==
  ASSUME NEW S, NEW text \in Seq(S), NEW f, NEW g, Kept(text, f), Kept(text, g)
  PROVE  f = g
  <1> DEFINE Apart == {i \in 0..Len(text) : f[i] # g[i]}
  <1>1. ASSUME Apart # {} PROVE FALSE
    <2>1. Apart \in SUBSET Nat
      OBVIOUS
    <2>2. PICK i \in Apart : \A y \in Apart : i <= y
      BY <1>1, <2>1, LeastIs
    <2>3. f[i] # g[i] /\ i \in 0..Len(text)
      BY <2>2
    <2>4. CASE i = 0
      BY <2>3, <2>4 DEF Kept
    <2>5. CASE i # 0
      <3>1. i - 1 \in 0..Len(text) /\ ~(i <= i - 1)
        BY <2>3, <2>5
      <3>2. f[i - 1] = g[i - 1]
        BY <2>2, <3>1
      <3>3. f[i] = IF text[i] = divider THEN f[i - 1] ELSE Append(f[i - 1], text[i])
        BY <2>3, <2>5 DEF Kept
      <3>4. g[i] = IF text[i] = divider THEN g[i - 1] ELSE Append(g[i - 1], text[i])
        BY <2>3, <2>5 DEF Kept
      <3> QED  BY <2>3, <3>2, <3>3, <3>4
    <2> QED  BY <2>4, <2>5
  <1>2. /\ f = [i \in 0..Len(text) |-> f[i]]
        /\ g = [i \in 0..Len(text) |-> g[i]]
    BY DEF Kept
  <1> QED  BY <1>1, <1>2

LEMMA KeptOfEmpty == Kept(<<>>, [i \in 0..0 |-> <<>>])
  BY DEF Kept

LEMMA KeptOfAppend ==
  ASSUME NEW S, NEW text \in Seq(S), NEW e \in S, NEW f, Kept(text, f)
  PROVE  LET next == IF e = divider THEN f[Len(text)] ELSE Append(f[Len(text)], e)
         IN  Kept(Append(text, e), [i \in 0..(Len(text) + 1) |-> IF i <= Len(text) THEN f[i] ELSE next])
  <1> DEFINE n == Len(text)
             next == IF e = divider THEN f[n] ELSE Append(f[n], e)
             g == [i \in 0..(n + 1) |-> IF i <= n THEN f[i] ELSE next]
             more == Append(text, e)
  <1>1. n \in Nat /\ Len(more) = n + 1 /\ more[n + 1] = e /\ \A i \in 1..n : more[i] = text[i]
    OBVIOUS
  <1>2. ASSUME NEW i \in 0..(n + 1)
        PROVE  g[i] = IF i = 0 THEN <<>>
                      ELSE IF more[i] = divider THEN g[i - 1] ELSE Append(g[i - 1], more[i])
    <2>1. CASE i = n + 1
      <3>1. i # 0 /\ ~(i <= n) /\ i - 1 = n /\ n \in 0..(n + 1) /\ n <= n
        BY <1>1, <2>1
      <3>2. g[i] = next /\ g[i - 1] = f[n]
        BY <3>1
      <3> QED  BY <1>1, <2>1, <3>1, <3>2
    <2>2. CASE i # n + 1
      <3>1. i \in 0..n /\ i <= n
        BY <1>1, <2>2
      <3>2. f[i] = IF i = 0 THEN <<>>
                   ELSE IF text[i] = divider THEN f[i - 1] ELSE Append(f[i - 1], text[i])
        BY <3>1 DEF Kept
      <3>3. g[i] = f[i]
        BY <3>1
      <3>4. CASE i = 0
        BY <3>2, <3>3, <3>4
      <3>5. CASE i # 0
        <4>1. i - 1 \in 0..(n + 1) /\ i - 1 <= n /\ i \in 1..n
          BY <1>1, <3>1, <3>5
        <4>2. g[i - 1] = f[i - 1] /\ more[i] = text[i]
          BY <1>1, <4>1
        <4> QED  BY <3>2, <3>3, <3>5, <4>2
      <3> QED  BY <3>4, <3>5
    <2> QED  BY <2>1, <2>2
  <1> HIDE DEF next, more
  <1>3. g = [i \in 0..(n + 1) |->
               IF i = 0 THEN <<>>
               ELSE IF more[i] = divider THEN g[i - 1] ELSE Append(g[i - 1], more[i])]
    <2>1. \A i \in 0..(n + 1) : g[i] = (IF i <= n THEN f[i] ELSE next)
      OBVIOUS
    <2> DEFINE h == [i \in 0..(n + 1) |->
                        IF i = 0 THEN <<>>
                        ELSE IF more[i] = divider THEN g[i - 1] ELSE Append(g[i - 1], more[i])]
    <2>2. \A i \in 0..(n + 1) : g[i] = h[i]
      BY <1>2
    <2>3. g = [i \in 0..(n + 1) |-> g[i]] /\ h = [i \in 0..(n + 1) |-> h[i]]
      OBVIOUS
    <2> HIDE DEF g, h
    <2>4. g = h
      BY <2>2, <2>3
    <2> QED  BY <2>4 DEF h
  <1> HIDE DEF g
  <1>4. Kept(more, g)
    BY <1>1, <1>3 DEF Kept
  <1> QED  BY <1>4 DEF more, g, next

LEMMA KeptExists ==
  ASSUME NEW S, NEW text \in Seq(S)
  PROVE  \E f : Kept(text, f)
  <1> DEFINE T == {t \in Seq(S) : \E f : Kept(t, f)}
  <1>1. <<>> \in T
    BY KeptOfEmpty
  <1>2. ASSUME NEW s \in Seq(S), NEW e \in S, s \in T PROVE Append(s, e) \in T
    <2>1. PICK f : Kept(s, f)
      BY <1>2
    <2>2. \E g : Kept(Append(s, e), g)
      BY <2>1, KeptOfAppend
    <2> QED  BY <2>2
  <1> HIDE DEF T
  <1>3. text \in T
    BY <1>1, <1>2, SequencesAre
  <1> QED  BY <1>3 DEF T

LEMMA NamesIs ==
  ASSUME NEW S, NEW text \in Seq(S), NEW f, Kept(text, f)
  PROVE  Names(text) = f[Len(text)]
  <1> DEFINE kept == CHOOSE g : Kept(text, g)
  <1>1. Names(text) = kept[Len(text)]
    BY Zenon DEF Names, Kept
  <1>2. Kept(text, kept)
    OBVIOUS
  <1> HIDE DEF kept
  <1>3. kept = f
    BY <1>2, KeptOnce
  <1> QED  BY <1>1, <1>3

\* ReplacePathDivider takes a text name by name.
LEMMA NamesOfEmpty == Names(<<>>) = <<>>
  <1>1. <<>> \in Seq({}) /\ Len(<<>>) = 0
    OBVIOUS
  <1> QED  BY <1>1, KeptOfEmpty, NamesIs

LEMMA NamesOfAppend ==
  ASSUME NEW S, NEW text \in Seq(S), NEW e \in S
  PROVE  Names(Append(text, e)) = IF e = divider THEN Names(text) ELSE Append(Names(text), e)
  <1>1. PICK f : Kept(text, f)
    BY KeptExists
  <1> DEFINE n == Len(text)
             next == IF e = divider THEN f[n] ELSE Append(f[n], e)
             g == [i \in 0..(n + 1) |-> IF i <= n THEN f[i] ELSE next]
  <1>2. Kept(Append(text, e), g)
    BY <1>1, KeptOfAppend
  <1>3. Append(text, e) \in Seq(S) /\ Len(Append(text, e)) = n + 1 /\ n \in Nat
    OBVIOUS
  <1>4. g[n + 1] = next
    BY <1>3
  <1> HIDE DEF g
  <1>5. Names(Append(text, e)) = g[n + 1]
    BY <1>2, <1>3, NamesIs
  <1>6. Names(text) = f[n]
    BY <1>1, NamesIs
  <1> QED  BY <1>4, <1>5, <1>6

LEMMA NamesType ==
  ASSUME NEW S, NEW text \in Seq(S)
  PROVE  Names(text) \in Seq(S \ {divider})
  <1> DEFINE N == S \ {divider}
             T == {t \in Seq(S) : Names(t) \in Seq(N)}
  <1> HIDE DEF N
  <1>1. <<>> \in T
    <2>1. <<>> \in Seq(S) /\ <<>> \in Seq(N)
      OBVIOUS
    <2>2. Names(<<>>) \in Seq(N)
      BY <2>1, NamesOfEmpty
    <2> QED  BY <2>1, <2>2
  <1>2. ASSUME NEW s \in Seq(S), NEW e \in S, s \in T PROVE Append(s, e) \in T
    <2>1. Names(Append(s, e)) = IF e = divider THEN Names(s) ELSE Append(Names(s), e)
      BY NamesOfAppend
    <2>2. Names(s) \in Seq(N) /\ Append(s, e) \in Seq(S)
      BY <1>2
    <2>3. e # divider => e \in N
      BY DEF N
    <2>4. Names(Append(s, e)) \in Seq(N)
      BY <2>1, <2>2, <2>3
    <2> QED  BY <2>2, <2>4
  <1> HIDE DEF T
  <1>3. text \in T
    BY <1>1, <1>2, SequencesAre
  <1> QED  BY <1>3 DEF T, N

\* Names of a text, without a word about dividers.
LEMMA NamesAreIn ==
  ASSUME NEW S, NEW text \in Seq(S)
  PROVE  Names(text) \in Seq(S)
  <1>1. S \ {divider} \subseteq S /\ Names(text) \in Seq(S \ {divider})
    BY NamesType
  <1> DEFINE N == S \ {divider}
  <1> HIDE DEF N
  <1>2. N \subseteq S /\ Names(text) \in Seq(N)
    BY <1>1 DEF N
  <1>3. /\ Len(Names(text)) \in Nat /\ Names(text) = [i \in 1..Len(Names(text)) |-> Names(text)[i]]
        /\ \A i \in 1..Len(Names(text)) : Names(text)[i] \in S
    BY <1>2
  <1> QED  BY <1>3

LEMMA NamesOfConcat ==
  ASSUME NEW S, NEW a \in Seq(S), NEW b \in Seq(S)
  PROVE  Names(a \o b) = Names(a) \o Names(b)
  <1> DEFINE T == {t \in Seq(S) : Names(a \o t) = Names(a) \o Names(t)}
  <1>1. <<>> \in T
    <2>1. Names(a) \in Seq(S)
      BY NamesAreIn
    <2>2. a \o <<>> = a /\ Names(a) \o <<>> = Names(a)
      BY <2>1
    <2>3. Names(a \o <<>>) = Names(a) \o Names(<<>>)
      BY <2>2, NamesOfEmpty
    <2> QED  BY <2>3
  <1>2. ASSUME NEW s \in Seq(S), NEW e \in S, s \in T PROVE Append(s, e) \in T
    <2>1. a \o Append(s, e) = Append(a \o s, e) /\ a \o s \in Seq(S)
      OBVIOUS
    <2>2. Names(a \o Append(s, e)) = IF e = divider THEN Names(a \o s) ELSE Append(Names(a \o s), e)
      BY <2>1, NamesOfAppend
    <2>3. Names(Append(s, e)) = IF e = divider THEN Names(s) ELSE Append(Names(s), e)
      BY NamesOfAppend
    <2>4. Names(a \o s) = Names(a) \o Names(s)
      BY <1>2
    <2>5. Names(a) \in Seq(S) /\ Names(s) \in Seq(S)
      BY NamesAreIn
    <2>6. Names(a) \o Append(Names(s), e) = Append(Names(a) \o Names(s), e)
      BY <2>5
    <2>7. Names(a \o Append(s, e)) = Names(a) \o Names(Append(s, e))
      BY <2>2, <2>3, <2>4, <2>6
    <2> QED  BY <2>7
  <1> HIDE DEF T
  <1>3. b \in T
    BY <1>1, <1>2, SequencesAre
  <1> QED  BY <1>3 DEF T

LEMMA SequenceWithin ==
  ASSUME NEW S, NEW T, S \subseteq T, NEW s \in Seq(S)
  PROVE  s \in Seq(T)
  <1>1. Len(s) \in Nat /\ s = [i \in 1..Len(s) |-> s[i]] /\ \A i \in 1..Len(s) : s[i] \in T
    OBVIOUS
  <1> QED  BY <1>1

-----------------------------------------------------------------------------
\* What Merge puts between the names, ReplacePathDivider takes out again.
LEMMA MergeIs ==
  ASSUME NEW S, NEW names \in Seq(S), names # <<>>, NEW n, n = 2 * Len(names) - 1
  PROVE  /\ Merge(names) \in Seq(S \cup {divider})
         /\ Len(Merge(names)) = n
         /\ \A i \in 1..n : Merge(names)[i] = IF i % 2 = 1 THEN names[(i + 1) \div 2] ELSE divider
  <1> DEFINE at(i) == IF i % 2 = 1 THEN names[(i + 1) \div 2] ELSE divider
  <1>1. Merge(names) = [i \in 1..n |-> at(i)]
    BY DEF Merge
  <1>2. n \in Nat
    OBVIOUS
  <1>3. \A i \in 1..n : at(i) \in S \cup {divider}
    <2> TAKE i \in 1..n
    <2>1. i % 2 = 1 => (i + 1) \div 2 \in 1..Len(names)
      BY <1>2
    <2> QED  BY <2>1
  <1> HIDE DEF at
  <1>4. Merge(names) \in Seq(S \cup {divider}) /\ Len(Merge(names)) = n
    BY <1>1, <1>2, <1>3
  <1>5. \A i \in 1..n : Merge(names)[i] = at(i)
    BY <1>1
  <1> QED  BY <1>4, <1>5 DEF at

LEMMA MergeType ==
  ASSUME NEW S, NEW names \in Seq(S)
  PROVE  Merge(names) \in Seq(S \cup {divider})
  <1>1. CASE names = <<>>
    BY <1>1 DEF Merge
  <1>2. CASE names # <<>>
    BY <1>2, MergeIs
  <1> QED  BY <1>1, <1>2

LEMMA MergeOfAppend ==
  ASSUME NEW S, NEW names \in Seq(S), NEW e \in S
  PROVE  /\ Merge(<<e>>) = <<e>>
         /\ names # <<>> => Merge(Append(names, e)) = Append(Append(Merge(names), divider), e)
  <1>1. Merge(<<e>>) = <<e>>
    <2> DEFINE s == Merge(<<e>>)
    <2>1. <<e>> \in Seq(S) /\ <<e>> # <<>> /\ Len(<<e>>) = 1
      OBVIOUS
    <2>2. 1 = 2 * Len(<<e>>) - 1 /\ 1 % 2 = 1 /\ (1 + 1) \div 2 = 1 /\ 1 \in 1..1 /\ <<e>>[1] = e
      OBVIOUS
    <2>3. s \in Seq(S \cup {divider}) /\ Len(s) = 1 /\ s[1] = e
      BY <2>1, <2>2, MergeIs, ZenonT(60)
    <2> HIDE DEF s
    <2> QED  BY <2>3 DEF s
  <1>2. ASSUME names # <<>> PROVE Merge(Append(names, e)) = Append(Append(Merge(names), divider), e)
    <2> DEFINE more == Append(names, e)
               n == 2 * Len(names) - 1
               a == Merge(more)
               b == Merge(names)
               T == S \cup {divider}
    <2>1. more \in Seq(S) /\ more # <<>> /\ Len(more) = Len(names) + 1 /\ Len(names) \in Nat
      BY <1>2
    <2>0. n + 2 = 2 * Len(more) - 1
      BY <2>1
    <2> HIDE DEF more
    <2>2. a \in Seq(T) /\ Len(a) = n + 2
      BY <2>0, <2>1, MergeIs
    <2>3. b \in Seq(T) /\ Len(b) = n /\ n \in Nat
      <3>1. n = 2 * Len(names) - 1 /\ n \in Nat
        BY <1>2
      <3> HIDE DEF n
      <3> QED  BY <1>2, <3>1, MergeIs
    <2>4. \A i \in 1..(n + 2) : a[i] = IF i % 2 = 1 THEN more[(i + 1) \div 2] ELSE divider
      BY <2>0, <2>1, MergeIs
    <2>5. \A i \in 1..n : b[i] = IF i % 2 = 1 THEN names[(i + 1) \div 2] ELSE divider
      BY <1>2, MergeIs
    <2>6. \A i \in 1..n : a[i] = b[i]
      <3> TAKE i \in 1..n
      <3>1. i \in 1..(n + 2)
        BY <2>3
      <3>2. i % 2 = 1 => (i + 1) \div 2 \in 1..Len(names)
        BY <2>1
      <3> QED  BY <2>4, <2>5, <3>1, <3>2 DEF more
    <2>7. a[n + 1] = divider /\ a[n + 2] = e
      <3>1. (n + 1) % 2 # 1 /\ (n + 2) % 2 = 1 /\ (n + 2 + 1) \div 2 = Len(names) + 1
        BY <2>1
      <3>2. n + 1 \in 1..(n + 2) /\ n + 2 \in 1..(n + 2)
        BY <2>3
      <3> QED  BY <2>1, <2>4, <3>1, <3>2 DEF more
    <2> HIDE DEF a, b, n
    <2>8. divider \in T /\ e \in T
      OBVIOUS
    <2> HIDE DEF T
    <2>9. a = Append(Append(b, divider), e)
      BY <2>2, <2>3, <2>6, <2>7, <2>8
    <2> QED  BY <2>9 DEF a, b, more
  <1> QED  BY <1>1, <1>2

LEMMA NamesOfMerge ==
  ASSUME NEW S, divider \notin S, NEW names \in Seq(S)
  PROVE  Names(Merge(names)) = names
  <1> DEFINE T == {t \in Seq(S) : Names(Merge(t)) = t}
             D == S \cup {divider}
  <1>1. Merge(<<>>) = <<>>
    BY DEF Merge
  <1>2. <<>> \in T
    BY <1>1, NamesOfEmpty
  <1>3. ASSUME NEW s \in Seq(S), NEW e \in S, s \in T PROVE Append(s, e) \in T
    <2>1. divider \in D /\ e \in D /\ e # divider
      OBVIOUS
    <2>2. Merge(s) \in Seq(D)
      BY MergeType
    <2> HIDE DEF D
    <2>3. CASE s = <<>>
      <3>1. Append(s, e) = <<e>> /\ <<>> \in Seq(D) /\ Append(<<>>, e) = <<e>>
        BY <2>3
      <3>2. Names(Append(<<>>, e)) = Append(Names(<<>>), e)
        BY <2>1, <3>1, NamesOfAppend
      <3>3. Merge(<<e>>) = <<e>>
        BY MergeOfAppend
      <3>4. Names(Merge(Append(s, e))) = Append(s, e)
        BY <3>1, <3>2, <3>3, NamesOfEmpty
      <3> QED  BY <3>4
    <2>4. CASE s # <<>>
      <3> DEFINE b == Merge(s)
                 c == Append(b, divider)
      <3>1. Merge(Append(s, e)) = Append(c, e)
        BY <2>4, MergeOfAppend
      <3>2. Names(b) = s
        BY <1>3
      <3>3. Names(c) = s
        BY <2>1, <2>2, <3>2, NamesOfAppend
      <3>4. c \in Seq(D)
        BY <2>1, <2>2
      <3> HIDE DEF b, c
      <3>5. Names(Append(c, e)) = Append(s, e)
        BY <2>1, <3>3, <3>4, NamesOfAppend
      <3>6. Names(Merge(Append(s, e))) = Append(s, e)
        BY <3>1, <3>5
      <3> QED  BY <3>6
    <2> QED  BY <2>3, <2>4
  <1> HIDE DEF T
  <1>4. names \in T
    BY <1>2, <1>3, SequencesAre
  <1> QED  BY <1>4 DEF T

\* A first name taken off the merged text is taken off the names.
LEMMA NamesOfTail ==
  ASSUME NEW S, divider \notin S, NEW names \in Seq(S), names # <<>>
  PROVE  /\ Tail(Merge(names)) \in Seq(S \cup {divider})
         /\ Names(Tail(Merge(names))) = Tail(names)
  <1> DEFINE D == S \cup {divider}
             b == Merge(names)
             h == names[1]
  <1>1. h \in S /\ h \in D /\ h # divider /\ Len(names) \in Nat /\ Len(names) >= 1
    OBVIOUS
  <1>2. b \in Seq(D) /\ Len(b) >= 1 /\ b[1] = h
    <2>1. 1 \in 1..(2 * Len(names) - 1) /\ 1 % 2 = 1 /\ (1 + 1) \div 2 = 1
      BY <1>1
    <2> DEFINE n == 2 * Len(names) - 1
    <2>2. n >= 1 /\ n = 2 * Len(names) - 1
      BY <1>1
    <2> HIDE DEF n
    <2>3. /\ b \in Seq(D) /\ Len(b) = n
          /\ \A i \in 1..n : b[i] = IF i % 2 = 1 THEN names[(i + 1) \div 2] ELSE divider
      BY <2>2, MergeIs
    <2> QED  BY <2>1, <2>2, <2>3 DEF n
  <1>3. Names(b) = names
    BY NamesOfMerge
  <1> HIDE DEF D, b
  <1>4. Tail(b) \in Seq(D) /\ b = <<h>> \o Tail(b)
    BY <1>2
  <1> HIDE DEF h
  <1>5. Names(<<h>>) = <<h>>
    <2>1. <<>> \in Seq(D) /\ Append(<<>>, h) = <<h>>
      OBVIOUS
    <2> QED  BY <1>1, <2>1, NamesOfAppend, NamesOfEmpty
  <1>6. <<h>> \in Seq(D)
    BY <1>1
  <1>7. names = <<h>> \o Names(Tail(b)) /\ Names(Tail(b)) \in Seq(D)
    BY <1>3, <1>4, <1>5, <1>6, NamesOfConcat, NamesAreIn
  <1> DEFINE r == Names(Tail(b))
  <1> HIDE DEF r
  <1>8. Tail(names) = r
    BY <1>6, <1>7 DEF r
  <1> QED  BY <1>4, <1>8 DEF r, D, b

-----------------------------------------------------------------------------
\* The names there are.
TokensOf(s) == {s[i] : i \in 1..Len(s)}
Places == UNION {tree.dirs \cup tree.files : tree \in GivenTrees}
Tokens == (UNION {TokensOf(s) : s \in GivenTexts \cup {Home} \cup Places}) \cup GivenNames
Name == Tokens \ {divider}
NamePath == Seq(Name)

LEMMA SequenceOf ==
  ASSUME NEW s, IsSequence(s), NEW T, \A i \in 1..Len(s) : s[i] \in T
  PROVE  s \in Seq(T)
  <1> DEFINE n == Len(s)
             f == [i \in 1..n |-> s[i]]
  <1>1. n \in Nat /\ s = f /\ \A i \in 1..n : s[i] \in T
    BY DEF IsSequence
  <1> HIDE DEF n
  <1>2. f \in Seq(T)
    BY <1>1
  <1> QED  BY <1>1, <1>2

LEMMA Given ==
  /\ StackLimit \in Nat /\ StackLimit >= 1
  /\ divider \notin Name
  /\ Home \in Seq(Tokens) /\ GivenTexts \subseteq Seq(Tokens)
  /\ GivenNames \subseteq Name
  /\ \A tree \in GivenTrees :
        /\ tree.dirs \cup tree.files \subseteq NamePath
        /\ tree.dirs \cap tree.files = {}
        /\ \A place \in tree.dirs \cup tree.files :
              Len(place) \in 1..StackLimit /\ (Len(place) = 1 \/ Front(place) \in tree.dirs)
  <1>1. ASSUME NEW s \in GivenTexts \cup {Home} PROVE s \in Seq(Tokens)
    <2>1. IsSequence(s) /\ \A i \in 1..Len(s) : s[i] \in Tokens
      BY PathAssumption DEF Tokens, TokensOf
    <2> QED  BY <2>1, SequenceOf
  <1>2. GivenNames \subseteq Name
    BY PathAssumption DEF Name, Tokens
  <1>3. ASSUME NEW tree \in GivenTrees, NEW place \in tree.dirs \cup tree.files
        PROVE  place \in NamePath
    <2>1. IsSequence(place) /\ \A i \in DOMAIN place : place[i] # divider
      BY PathAssumption
    <2>2. DOMAIN place = 1..Len(place)
      BY <2>1 DEF IsSequence
    <2>3. place \in Places
      BY DEF Places
    <2>4. \A i \in 1..Len(place) : place[i] \in TokensOf(place)
      BY DEF TokensOf
    <2>5. \A i \in 1..Len(place) : place[i] \in Tokens
      BY <2>3, <2>4 DEF Tokens
    <2>6. \A i \in 1..Len(place) : place[i] \in Name
      BY <2>1, <2>2, <2>5 DEF Name
    <2> QED  BY <2>1, <2>6, SequenceOf DEF NamePath
  <1>4. StackLimit \in Nat /\ StackLimit >= 1
    BY PathAssumption
  <1>5. divider \notin Name
    BY DEF Name
  <1>6. ASSUME NEW tree \in GivenTrees
        PROVE /\ tree.dirs \cap tree.files = {}
              /\ \A place \in tree.dirs \cup tree.files :
                   Len(place) \in 1..StackLimit /\ (Len(place) = 1 \/ Front(place) \in tree.dirs)
    BY PathAssumption
  <1> QED  BY <1>1, <1>2, <1>3, <1>4, <1>5, <1>6

\* A path, and where it leads.
LEMMA LocationIs ==
  ASSUME NEW names \in NamePath
  PROVE  Location(names) = IF names # <<>> /\ Head(names) = tilde
                           THEN Names(Home) \o Tail(names) ELSE names
  <1>1. divider \notin Name /\ names \in Seq(Name)
    BY Given DEF NamePath
  <1>2. CASE names # <<>> /\ Head(names) = tilde
    <2> DEFINE r == Tail(Merge(names))
               D == Name \cup {divider}
    <2>1. r \in Seq(D) /\ Names(r) = Tail(names)
      BY <1>1, <1>2, NamesOfTail
    <2>2. Name \subseteq Tokens
      BY DEF Name
    <2> DEFINE U == D \cup Tokens
    <2>3. D \subseteq U /\ Tokens \subseteq U
      OBVIOUS
    <2> HIDE DEF D, U
    <2>4. Home \in Seq(U) /\ r \in Seq(U)
      BY <2>1, <2>3, Given, SequenceWithin
    <2>5. Location(names) = Names(Home \o r)
      BY <1>2 DEF Location, Text
    <2> HIDE DEF r
    <2>6. Names(Home \o r) = Names(Home) \o Names(r)
      BY <2>4, NamesOfConcat
    <2> QED  BY <1>2, <2>1, <2>5, <2>6
  <1>3. CASE ~(names # <<>> /\ Head(names) = tilde)
    <2>1. Location(names) = Names(Merge(names))
      BY <1>3 DEF Location, Text
    <2> QED  BY <1>1, <1>3, <2>1, NamesOfMerge
  <1> QED  BY <1>2, <1>3

LEMMA HomeIs == Names(Home) \in NamePath
  BY Given, NamesType DEF Name, NamePath

LEMMA GivenIs ==
  ASSUME NEW text \in GivenTexts
  PROVE  /\ Names(text) \in NamePath
         /\ Len(Names(text)) <= StackLimit
         /\ Len(Location(Names(text))) <= StackLimit
  <1>1. text \in Seq(Tokens)
    BY Given
  <1>2. Names(text) \in NamePath
    BY <1>1, NamesType DEF Name, NamePath
  <1>3. Len(Names(text)) \in 0..StackLimit /\ Len(Location(Names(text))) \in 0..StackLimit
    BY PathAssumption
  <1> QED  BY <1>2, <1>3, Given

LEMMA LocationType ==
  ASSUME NEW names \in NamePath
  PROVE  Location(names) \in NamePath
  <1>1. names \in Seq(Name) /\ Names(Home) \in Seq(Name)
    BY HomeIs DEF NamePath
  <1>2. names # <<>> => Tail(names) \in Seq(Name)
    BY <1>1
  <1>3. names # <<>> => Names(Home) \o Tail(names) \in Seq(Name)
    BY <1>1, <1>2
  <1> QED  BY <1>1, <1>3, LocationIs DEF NamePath

LEMMA LocationOfEmpty == <<>> \in NamePath /\ Location(<<>>) = <<>>
  <1>1. <<>> \in NamePath
    BY DEF NamePath
  <1> QED  BY <1>1, LocationIs

LEMMA LocationOfAppend ==
  ASSUME NEW names \in NamePath, names # <<>>, NEW name \in Name
  PROVE  /\ Append(names, name) \in NamePath
         /\ Location(Append(names, name)) = Append(Location(names), name)
  <1> DEFINE more == Append(names, name)
             H == Names(Home)
  <1>1. names \in Seq(Name) /\ H \in Seq(Name)
    BY HomeIs DEF NamePath
  <1> HIDE DEF H
  <1>2. /\ more \in Seq(Name) /\ more # <<>> /\ Head(more) = Head(names)
        /\ Tail(more) = Append(Tail(names), name) /\ Tail(names) \in Seq(Name)
    BY <1>1
  <1> HIDE DEF more
  <1>3. H \o Append(Tail(names), name) = Append(H \o Tail(names), name)
    BY <1>1, <1>2, SMTT(60)
  <1>4. more \in NamePath
    BY <1>2 DEF NamePath
  <1>5. Location(more) = IF Head(names) = tilde THEN H \o Tail(more) ELSE more
    BY <1>2, <1>4, LocationIs DEF H
  <1>6. Location(names) = IF Head(names) = tilde THEN H \o Tail(names) ELSE names
    BY LocationIs DEF H
  <1> QED  BY <1>2, <1>3, <1>4, <1>5, <1>6 DEF more

\* Parent() and Join(), without their way through a text.
LEMMA ParentIs ==
  ASSUME NEW names \in NamePath
  PROVE  Parent(names) = IF names = <<>> THEN <<>> ELSE Front(names)
  <1>1. CASE names = <<>>
    BY <1>1 DEF Parent
  <1>2. CASE names # <<>>
    <2>1. Front(names) \in Seq(Name) /\ divider \notin Name
      BY <1>2, Given DEF Front, NamePath
    <2> QED  BY <1>2, <2>1, NamesOfMerge DEF Parent
  <1> QED  BY <1>1, <1>2

LEMMA JoinIs ==
  ASSUME NEW names \in NamePath, NEW name \in Name
  PROVE  Join(names, <<name>>) = Append(names, name)
  <1>1. name # divider /\ <<>> \in Seq(Name) /\ <<name>> = Append(<<>>, name) /\ names \in Seq(Name)
    BY Given DEF NamePath
  <1>2. Names(<<name>>) = <<name>>
    BY <1>1, NamesOfAppend, NamesOfEmpty
  <1>3. names \o <<name>> = Append(names, name)
    BY <1>1
  <1> QED  BY <1>2, <1>3 DEF Join

-----------------------------------------------------------------------------
\* A file system: a place is below directories only, all the way up.
TreeOK(d, f) ==
    /\ d \subseteq NamePath /\ f \subseteq NamePath
    /\ d \cap f = {}
    /\ \A place \in d \cup f :
          /\ Len(place) \in 1..StackLimit
          /\ Len(place) = 1 \/ Front(place) \in d

LEMMA PrefixIs ==
  ASSUME NEW s \in NamePath, NEW n \in 0..Len(s)
  PROVE  /\ SubSeq(s, 1, n) \in NamePath
         /\ Len(SubSeq(s, 1, n)) = n
         /\ \A i \in 1..n : SubSeq(s, 1, n)[i] = s[i]
  BY DEF NamePath

LEMMA FrontIs ==
  ASSUME NEW s \in NamePath, Len(s) >= 1
  PROVE  /\ Front(s) = SubSeq(s, 1, Len(s) - 1)
         /\ Front(s) \in NamePath
         /\ Len(Front(s)) = Len(s) - 1
         /\ \A i \in 1..(Len(s) - 1) : Front(s)[i] = s[i]
         /\ \A n \in 0..(Len(s) - 1) : SubSeq(Front(s), 1, n) = SubSeq(s, 1, n)
         /\ s = Append(Front(s), s[Len(s)])
         /\ s[Len(s)] \in Name
  <1>1. /\ Front(s) = SubSeq(s, 1, Len(s) - 1)
        /\ Front(s) \in Seq(Name)
        /\ Len(Front(s)) = Len(s) - 1
        /\ s \in Seq(Name) /\ s[Len(s)] \in Name
        /\ \A i \in 1..(Len(s) - 1) : Front(s)[i] = s[i]
    <2>1. Front(s) = SubSeq(s, 1, Len(s) - 1)
      BY DEF Front
    <2>2. s \in Seq(Name) /\ s[Len(s)] \in Name /\ Len(s) - 1 \in 0..Len(s)
      BY DEF NamePath
    <2> QED  BY <2>1, <2>2, PrefixIs DEF NamePath
  <1>2. \A n \in 0..(Len(s) - 1) : SubSeq(Front(s), 1, n) = SubSeq(s, 1, n)
    <2> TAKE n \in 0..(Len(s) - 1)
    <2> QED  BY <1>1
  <1>3. s = Append(Front(s), s[Len(s)])
    <2> DEFINE r == Front(s)
    <2> HIDE DEF r
    <2>1. Append(r, s[Len(s)]) \in Seq(Name) /\ Len(Append(r, s[Len(s)])) = Len(s)
      BY <1>1 DEF r
    <2>2. \A i \in 1..Len(s) : Append(r, s[Len(s)])[i] = s[i]
      BY <1>1 DEF r
    <2> QED  BY <1>1, <2>1, <2>2 DEF r
  <1> QED  BY <1>1, <1>2, <1>3 DEF NamePath

LEMMA SamePath ==
  ASSUME NEW s \in NamePath, NEW t \in NamePath, Len(s) = Len(t), \A i \in 1..Len(s) : s[i] = t[i]
  PROVE  s = t
  BY DEF NamePath

LEMMA AboveAreDirs ==
  ASSUME NEW d, NEW f, TreeOK(d, f), NEW place \in d \cup f, NEW n \in 1..(Len(place) - 1)
  PROVE  SubSeq(place, 1, n) \in d
  <1> SUFFICES ASSUME SubSeq(place, 1, n) \notin d PROVE FALSE
    OBVIOUS
  <1> DEFINE Far == {k \in Nat : k >= 1 /\ k <= Len(place) - 1 /\ SubSeq(place, 1, Len(place) - k) \notin d}
  <1>1. place \in NamePath /\ Len(place) \in Nat
    BY DEF TreeOK, NamePath
  <1>2. Len(place) - n \in Far /\ Far \in SUBSET Nat
    <2>1. Len(place) - (Len(place) - n) = n
      BY <1>1
    <2> QED  BY <1>1, <2>1
  <1>3. PICK k \in Far : \A y \in Far : k <= y
    BY <1>2, LeastIs
  <1> DEFINE above == SubSeq(place, 1, Len(place) - k + 1)
  <1>4. k \in Nat /\ k >= 1 /\ k <= Len(place) - 1 /\ SubSeq(place, 1, Len(place) - k) \notin d
    BY <1>3
  <1>5. above \in d \cup f /\ Len(above) = Len(place) - k + 1
    <2>1. CASE k = 1
      <3>1. above = place
        BY <1>1, <1>4, <2>1 DEF NamePath
      <3>2. Len(place) - k + 1 = Len(place)
        BY <1>1, <2>1
      <3> QED  BY <3>1, <3>2
    <2>2. CASE k # 1
      <3>1. k - 1 \in Nat /\ k - 1 >= 1 /\ k - 1 <= Len(place) - 1 /\ ~(k <= k - 1)
        BY <1>1, <1>4, <2>2
      <3>2. k - 1 \notin Far
        BY <1>3, <3>1
      <3>3. SubSeq(place, 1, Len(place) - (k - 1)) \in d
        BY <3>1, <3>2
      <3>4. Len(place) - (k - 1) = Len(place) - k + 1 /\ Len(place) - k + 1 \in 0..Len(place)
        BY <1>1, <1>4
      <3> QED  BY <1>1, <3>3, <3>4, PrefixIs
    <2> QED  BY <2>1, <2>2
  <1>6. Front(above) \in d
    <2>1. Len(above) # 1
      BY <1>1, <1>4, <1>5
    <2> QED  BY <1>5, <2>1 DEF TreeOK
  <1>7. Front(above) = SubSeq(place, 1, Len(place) - k)
    BY <1>1, <1>4, <1>5 DEF Front, NamePath
  <1> QED  BY <1>4, <1>6, <1>7

LEMMA MadeKeepsTree ==
  ASSUME NEW d, NEW f, TreeOK(d, f), NEW place \in NamePath, place \notin d \cup f,
         Len(place) \in 1..StackLimit, Len(place) = 1 \/ Front(place) \in d
  PROVE  TreeOK(d \cup {place}, f)
  BY DEF TreeOK

LEMMA RemovedKeepsTree ==
  ASSUME NEW d, NEW f, TreeOK(d, f), NEW place,
         ~ \E child \in d \cup f : child # <<>> /\ Front(child) = place
  PROVE  TreeOK(d \ {place}, f)
  <1>1. ASSUME NEW p \in (d \ {place}) \cup f
        PROVE Len(p) \in 1..StackLimit /\ (Len(p) = 1 \/ Front(p) \in d \ {place})
    <2>1. p \in d \cup f /\ Len(p) \in 1..StackLimit /\ (Len(p) = 1 \/ Front(p) \in d) /\ p \in NamePath
      BY DEF TreeOK
    <2>2. p # <<>>
      BY <2>1 DEF NamePath
    <2> QED  BY <2>1, <2>2
  <1> QED  BY <1>1 DEF TreeOK

\* What a rename does to a place: the name at the depth of the renamed one, if below it.
RenamedTo(from, name) == Append(Front(from), name)
MovedPlace(from, to, place) ==
    IF IsPrefix(from, place) THEN to \o SubSeq(place, Len(from) + 1, Len(place)) ELSE place
Below(from, place) == Len(from) <= Len(place) /\ \A i \in 1..Len(from) : from[i] = place[i]

LEMMA PrefixMeans ==
  ASSUME NEW from \in NamePath, NEW place \in NamePath
  PROVE  IsPrefix(from, place) <=> Below(from, place)
  <1> DEFINE L == Len(from)
  <1>0. L \in Nat /\ Len(place) \in Nat
    BY DEF NamePath
  <1>1. ASSUME L <= Len(place), \A i \in 1..L : from[i] = place[i]
        PROVE  SubSeq(from, 1, L) = SubSeq(place, 1, L)
    BY <1>0, <1>1 DEF NamePath
  <1>2. ASSUME L <= Len(place), SubSeq(from, 1, L) = SubSeq(place, 1, L), NEW i \in 1..L
        PROVE  from[i] = place[i]
    <2>1. SubSeq(from, 1, L)[i] = from[i] /\ SubSeq(place, 1, L)[i] = place[i]
      BY <1>0, <1>2 DEF NamePath
    <2> QED  BY <1>2, <2>1
  <1> QED  BY <1>1, <1>2 DEF IsPrefix, Below

LEMMA RenamedIs ==
  ASSUME NEW from \in NamePath, Len(from) >= 1, NEW name \in Name
  PROVE  /\ RenamedTo(from, name) \in NamePath
         /\ Len(RenamedTo(from, name)) = Len(from)
         /\ \A i \in 1..Len(from) :
               RenamedTo(from, name)[i] = IF i = Len(from) THEN name ELSE from[i]
  <1>1. /\ Front(from) \in Seq(Name) /\ Len(Front(from)) = Len(from) - 1 /\ from \in Seq(Name)
        /\ \A i \in 1..(Len(from) - 1) : Front(from)[i] = from[i]
    BY FrontIs DEF NamePath
  <1> DEFINE r == Front(from)
             to == Append(r, name)
  <1> HIDE DEF r
  <1>2. to \in Seq(Name) /\ Len(to) = Len(from)
    BY <1>1 DEF r
  <1>3. \A i \in 1..Len(from) : to[i] = IF i = Len(from) THEN name ELSE from[i]
    BY <1>1 DEF r
  <1>4. RenamedTo(from, name) = to
    BY DEF RenamedTo, r
  <1> HIDE DEF to
  <1> QED  BY <1>2, <1>3, <1>4 DEF NamePath

LEMMA ConcatIs ==
  ASSUME NEW S, NEW a \in Seq(S), NEW b \in Seq(S)
  PROVE  /\ a \o b \in Seq(S) /\ Len(a \o b) = Len(a) + Len(b)
         /\ \A i \in 1..Len(a) : (a \o b)[i] = a[i]
         /\ \A i \in 1..Len(b) : (a \o b)[Len(a) + i] = b[i]
  OBVIOUS

LEMMA MovedIs ==
  ASSUME NEW from \in NamePath, Len(from) >= 1, NEW name \in Name, NEW place \in NamePath
  PROVE  LET moved == MovedPlace(from, RenamedTo(from, name), place)
         IN  /\ moved \in NamePath /\ Len(moved) = Len(place)
             /\ \A i \in 1..Len(place) :
                   moved[i] = IF Below(from, place) /\ i = Len(from) THEN name ELSE place[i]
  <1> DEFINE rest == SubSeq(place, Len(from) + 1, Len(place))
             to == RenamedTo(from, name)
             L == Len(from)
  <1>0. L \in Nat /\ L >= 1 /\ Len(place) \in Nat
    BY DEF NamePath
  <1>1. /\ to \in Seq(Name) /\ Len(to) = L
        /\ \A i \in 1..L : to[i] = IF i = L THEN name ELSE from[i]
    BY RenamedIs DEF NamePath
  <1>2. IsPrefix(from, place) <=> Below(from, place)
    BY PrefixMeans
  <1>3. CASE Below(from, place)
    <2>1. L <= Len(place) /\ \A i \in 1..L : from[i] = place[i]
      BY <1>3 DEF Below
    <2>2. /\ rest \in Seq(Name) /\ Len(rest) = Len(place) - L
          /\ \A i \in 1..(Len(place) - L) : rest[i] = place[L + i]
      BY <1>0, <2>1 DEF NamePath
    <2> HIDE DEF rest, to
    <2>3. /\ to \o rest \in Seq(Name) /\ Len(to \o rest) = L + (Len(place) - L)
          /\ \A i \in 1..L : (to \o rest)[i] = to[i]
          /\ \A i \in 1..(Len(place) - L) : (to \o rest)[L + i] = rest[i]
      <3>1. /\ to \o rest \in Seq(Name) /\ Len(to \o rest) = Len(to) + Len(rest)
            /\ \A i \in 1..Len(to) : (to \o rest)[i] = to[i]
            /\ \A i \in 1..Len(rest) : (to \o rest)[Len(to) + i] = rest[i]
        <4> DEFINE b == rest
        <4>1. to \in Seq(Name) /\ b \in Seq(Name)
          BY <1>1, <2>2
        <4> HIDE DEF b
        <4>2. /\ to \o b \in Seq(Name) /\ Len(to \o b) = Len(to) + Len(b)
              /\ \A i \in 1..Len(to) : (to \o b)[i] = to[i]
              /\ \A i \in 1..Len(b) : (to \o b)[Len(to) + i] = b[i]
          BY <4>1, ConcatIs
        <4> QED  BY <4>2 DEF b
      <3>2. Len(to) = L /\ Len(rest) = Len(place) - L
        BY <1>1, <2>2
      <3> HIDE DEF L
      <3> QED  BY <3>1, <3>2
    <2>4. ASSUME NEW i \in 1..Len(place)
          PROVE  (to \o rest)[i] = IF i = L THEN name ELSE place[i]
      <3>1. CASE i <= L
        BY <1>0, <1>1, <2>1, <2>3, <3>1
      <3>2. CASE ~(i <= L)
        <4>1. \E j \in 1..(Len(place) - L) : i = L + j
          <5>1. i - L \in 1..(Len(place) - L) /\ L + (i - L) = i
            BY <1>0, <3>2
          <5> QED  BY <5>1
        <4>2. PICK j \in 1..(Len(place) - L) : i = L + j
          BY <4>1
        <4>3. (to \o rest)[L + j] = rest[j] /\ rest[j] = place[L + j]
          BY <2>2, <2>3
        <4>4. (to \o rest)[i] = place[i] /\ i # L
          BY <1>0, <3>2, <4>2, <4>3
        <4> QED  BY <4>4
      <3> QED  BY <3>1, <3>2
    <2>5. MovedPlace(from, to, place) = to \o rest /\ L + (Len(place) - L) = Len(place)
      BY <1>0, <1>2, <1>3 DEF MovedPlace, rest
    <2> QED  BY <1>3, <2>3, <2>4, <2>5 DEF NamePath, to
  <1>4. CASE ~Below(from, place)
    BY <1>2, <1>4 DEF MovedPlace
  <1> QED  BY <1>3, <1>4

LEMMA MovedKeepsTree ==
  ASSUME NEW d, NEW f, TreeOK(d, f), NEW from \in d \cup f, NEW name \in Name,
         RenamedTo(from, name) = from \/ RenamedTo(from, name) \notin d \cup f
  PROVE  TreeOK(Moved(d, from, RenamedTo(from, name)), Moved(f, from, RenamedTo(from, name)))
  <1> DEFINE to == RenamedTo(from, name)
             m(p) == MovedPlace(from, to, p)
             L == Len(from)
             in(p) == Below(from, p)
  <1>1. from \in NamePath /\ L \in Nat /\ L >= 1
    BY DEF TreeOK, NamePath
  <1>2. \A p \in d \cup f : p \in NamePath /\ Len(p) \in 1..StackLimit /\ Len(p) \in Nat
    BY DEF TreeOK, NamePath
  <1>3. ASSUME NEW p \in NamePath
        PROVE  /\ m(p) \in NamePath /\ Len(m(p)) = Len(p)
               /\ \A i \in 1..Len(p) : m(p)[i] = IF in(p) /\ i = L THEN name ELSE p[i]
    BY <1>1, MovedIs
  <1>4. Moved(d, from, to) = {m(p) : p \in d} /\ Moved(f, from, to) = {m(p) : p \in f}
    BY DEF Moved, MovedPlace
  <1>5. /\ to \in NamePath /\ Len(to) = L
        /\ \A i \in 1..L : to[i] = IF i = L THEN name ELSE from[i]
    BY <1>1, RenamedIs
  <1> HIDE DEF m, to
  <1> USE DEF Below
  <1>6. ASSUME NEW p \in d \cup f, NEW r \in d \cup f, m(p) = m(r), in(p), ~in(r)
        PROVE  FALSE
    <2>1. Len(p) = Len(r) /\ L <= Len(r) /\ p \in NamePath /\ r \in NamePath
      BY <1>2, <1>3, <1>6
    <2>2. \A i \in 1..Len(r) : r[i] = IF i = L THEN name ELSE p[i]
      BY <1>3, <1>6, <2>1
    <2>3. \A i \in 1..L : r[i] = to[i]
      BY <1>5, <1>6, <2>1, <2>2
    <2>4. to # from
      BY <1>5, <1>6, <2>1, <2>3
    <2>5. to \in d \cup f
      <3>1. CASE L = Len(r)
        BY <1>5, <2>1, <2>3, <3>1, SamePath
      <3>2. CASE L # Len(r)
        <4>1. L \in 1..(Len(r) - 1) /\ L \in 0..Len(r)
          BY <1>1, <1>2, <2>1, <3>2
        <4>2. SubSeq(r, 1, L) \in d
          BY <4>1, AboveAreDirs
        <4>3. SubSeq(r, 1, L) = to
          <5>1. /\ SubSeq(r, 1, L) \in NamePath /\ Len(SubSeq(r, 1, L)) = L
                /\ \A i \in 1..L : SubSeq(r, 1, L)[i] = r[i]
            BY <2>1, <4>1, PrefixIs
          <5> QED  BY <1>5, <2>3, <5>1, SamePath
        <4> QED  BY <4>2, <4>3
      <3> QED  BY <3>1, <3>2
    <2> QED  BY <2>4, <2>5 DEF to
  <1>7. ASSUME NEW p \in d \cup f, NEW r \in d \cup f, m(p) = m(r), in(p) <=> in(r)
        PROVE  p = r
    <2>1. Len(p) = Len(r) /\ p \in NamePath /\ r \in NamePath
      BY <1>2, <1>3, <1>7
    <2>2. \A i \in 1..Len(p) : /\ m(p)[i] = IF in(p) /\ i = L THEN name ELSE p[i]
                               /\ m(p)[i] = IF in(p) /\ i = L THEN name ELSE r[i]
      BY <1>3, <1>7, <2>1
    <2>3. ASSUME NEW i \in 1..Len(p) PROVE p[i] = r[i]
      <3>1. CASE in(p) /\ i = L
        BY <1>1, <1>7, <3>1
      <3>2. CASE ~(in(p) /\ i = L)
        BY <2>2, <3>2
      <3> QED  BY <3>1, <3>2
    <2> QED  BY <2>1, <2>3, SamePath
  <1>8. {m(p) : p \in d} \cap {m(p) : p \in f} = {}
    <2> SUFFICES ASSUME NEW p \in d, NEW r \in f, m(p) = m(r) PROVE FALSE
      OBVIOUS
    <2>1. p # r
      BY DEF TreeOK
    <2> HIDE DEF in
    <2> QED  BY <1>6, <1>7, <2>1
  <1>9. ASSUME NEW p \in d \cup f, Len(p) # 1
        PROVE  Front(m(p)) \in {m(q) : q \in d}
    <2> DEFINE q == Front(p)
    <2>1. q \in d /\ p \in NamePath /\ Len(p) \in Nat /\ Len(p) >= 2
      <3>1. Len(p) = 1 \/ Front(p) \in d
        BY DEF TreeOK
      <3>2. p \in NamePath /\ Len(p) \in Nat /\ Len(p) >= 1
        BY <1>2, Given
      <3>3. q \in d
        BY <1>9, <3>1
      <3>4. Len(p) >= 2
        <4>1. \A n \in Nat : n >= 1 /\ n # 1 => n >= 2
          OBVIOUS
        <4> QED  BY <1>9, <3>2, <4>1
      <3> QED  BY <3>2, <3>3, <3>4
    <2>2. q \in NamePath /\ Len(q) = Len(p) - 1 /\ \A i \in 1..(Len(p) - 1) : q[i] = p[i]
      BY <2>1, FrontIs
    <2>3. /\ Front(m(p)) \in NamePath /\ Len(Front(m(p))) = Len(p) - 1
          /\ \A i \in 1..(Len(p) - 1) : Front(m(p))[i] = m(p)[i]
      BY <1>3, <2>1, FrontIs
    <2> HIDE DEF q
    <2>4. m(q) \in NamePath /\ Len(m(q)) = Len(p) - 1
      BY <1>3, <2>2
    <2>5. ASSUME NEW i \in 1..(Len(p) - 1) PROVE m(q)[i] = m(p)[i]
      <3>1. i \in 1..Len(p) /\ i \in 1..Len(q)
        BY <2>1, <2>2
      <3>2. /\ m(p)[i] = IF in(p) /\ i = L THEN name ELSE p[i]
            /\ m(q)[i] = IF in(q) /\ i = L THEN name ELSE p[i]
        BY <1>3, <2>1, <2>2, <3>1
      <3>3. i = L => (in(p) <=> in(q))
        BY <1>1, <2>1, <2>2
      <3> QED  BY <3>2, <3>3
    <2>6. Front(m(p)) = m(q)
      BY <2>3, <2>4, <2>5, SamePath
    <2> QED  BY <2>1, <2>6
  <1> DEFINE D == {m(p) : p \in d}
             F == {m(p) : p \in f}
  <1>10. D \subseteq NamePath /\ F \subseteq NamePath
    BY <1>2, <1>3
  <1>11. ASSUME NEW place \in D \cup F
         PROVE Len(place) \in 1..StackLimit /\ (Len(place) = 1 \/ Front(place) \in D)
    <2>1. PICK p \in d \cup f : place = m(p)
      OBVIOUS
    <2>2. Len(place) = Len(p) /\ Len(p) \in 1..StackLimit
      BY <1>2, <1>3, <2>1
    <2> QED  BY <1>9, <2>1, <2>2
  <1>12. TreeOK(D, F)
    BY <1>8, <1>10, <1>11 DEF TreeOK
  <1> QED  BY <1>4, <1>12 DEF to

-----------------------------------------------------------------------------
\* The nested calls of CreatePath are on the path and those above it, one by one.
Above(names, i) == IF i <= Len(names) THEN SubSeq(names, 1, Len(names) - i + 1) ELSE <<>>

Entry == [name : Name, dir : BOOLEAN]
FrameType == [path : NamePath, at : {"parent", "self", "mkdir", "open", "find", "list"}, todo : SUBSET Entry]

Types ==
    /\ TreeOK(dirs, files)
    /\ path \in [Callers -> NamePath]
    /\ call \in [Callers -> {"none", "create", "walk"}]
    /\ stack \in [Callers -> Seq(FrameType)]
    /\ rescured \in [Callers -> BOOLEAN]
    /\ result \in [Callers -> BOOLEAN]
    /\ crashed \in {"no", "stack overflow", "empty"}
    /\ disturbed \in [Callers -> BOOLEAN]
    /\ rootless \in [Callers -> BOOLEAN]

Fits(c) == Len(stack[c]) <= StackLimit /\ (stack[c] = <<>> <=> call[c] = "none")

\* Nobody has come between what CreatePath saw of its innermost directory and now.
StillSo(c) ==
    /\ Top(c).at = "mkdir" => ~Exists(Top(c).path)
    /\ Top(c).at # "parent" /\ rescured[c] => Exists(Parent(Top(c).path))

Creating(c) == call[c] = "create" =>
    /\ Len(path[c]) <= StackLimit /\ Len(Location(path[c])) <= StackLimit
    /\ \A i \in 1..Len(stack[c]) : /\ stack[c][i].path = Above(path[c], i)
                                   /\ stack[c][i].at \in {"parent", "self", "mkdir"}
    /\ ~rescured[c] => Len(stack[c]) = 1 /\ Top(c).at # "parent"
    /\ ~rootless[c] => Exists(Root(path[c]))
    /\ ~rootless[c] /\ Len(path[c]) > 1 => Len(stack[c]) < Len(path[c])
    /\ ~disturbed[c] => StillSo(c)

\* The nested calls of WalkDirectory go down by a level each, and the tree is no deeper
\* than the stack.
WalkFrame(f, i) ==
    /\ f.at \in {"open", "find", "list"}
    /\ i > 1 \/ f.at = "list" => Len(Location(f.path)) >= i
    /\ f.todo # {} => Len(Location(f.path)) < StackLimit

Walking(c) == call[c] = "walk" => \A i \in 1..Len(stack[c]) : WalkFrame(stack[c][i], i)

Overflow == crashed = "stack overflow" =>
    \E c \in Callers : call[c] = "create" /\ (Len(path[c]) <= 1 \/ rootless[c])

PathInv == /\ Types /\ Overflow
        /\ \A c \in Callers : Fits(c) /\ Creating(c) /\ Walking(c)

LEMMA AboveIs ==
  ASSUME NEW names \in NamePath, NEW i \in Nat, i >= 1
  PROVE  /\ Above(names, i) \in NamePath
         /\ Above(names, 1) = names
         /\ Len(Above(names, i)) = IF i <= Len(names) THEN Len(names) - i + 1 ELSE 0
         /\ Parent(Above(names, i)) = Above(names, i + 1)
  <1>1. Len(names) \in Nat /\ names \in Seq(Name) /\ <<>> \in NamePath
    BY DEF NamePath
  <1>2. CASE i <= Len(names)
    <2> DEFINE n == Len(names) - i + 1
               s == SubSeq(names, 1, n)
    <2>1. n \in 1..Len(names) /\ n \in 0..Len(names)
      BY <1>1, <1>2
    <2>2. Above(names, i) = s
      BY <1>2 DEF Above
    <2>3. s \in NamePath /\ Len(s) = n
      BY <2>1, PrefixIs
    <2>4. s # <<>> /\ Parent(s) = Front(s)
      <3> HIDE DEF s
      <3>1. Len(s) >= 1
        BY <2>1, <2>3
      <3>2. s # <<>>
        BY <3>1
      <3> QED  BY <2>3, <3>2, ParentIs
    <2>5. Front(s) = SubSeq(names, 1, n - 1)
      <3>1. Front(s) = SubSeq(s, 1, n - 1)
        BY <2>3 DEF Front
      <3>2. SubSeq(s, 1, n - 1) = SubSeq(names, 1, n - 1)
        <4>1. n - 1 \in 0..n /\ n - 1 \in 0..Len(names)
          BY <2>1
        <4>2. SubSeq(s, 1, n - 1) \in NamePath /\ SubSeq(names, 1, n - 1) \in NamePath
          BY <2>3, <4>1, PrefixIs
        <4>3. Len(SubSeq(s, 1, n - 1)) = n - 1 /\ Len(SubSeq(names, 1, n - 1)) = n - 1
          BY <2>3, <4>1, PrefixIs
        <4>4. ASSUME NEW j \in 1..(n - 1)
              PROVE  SubSeq(s, 1, n - 1)[j] = SubSeq(names, 1, n - 1)[j]
          <5>1. SubSeq(s, 1, n - 1)[j] = s[j] /\ SubSeq(names, 1, n - 1)[j] = names[j]
            BY <2>3, <4>1, PrefixIs
          <5>2. j \in 1..n
            BY <2>1
          <5>3. s[j] = names[j]
            BY <2>1, <5>2, PrefixIs
          <5> QED  BY <5>1, <5>3
        <4> QED  BY <4>2, <4>3, <4>4, SamePath
      <3> QED  BY <3>1, <3>2
    <2>6. Above(names, i + 1) = SubSeq(names, 1, n - 1)
      <3>1. CASE i + 1 <= Len(names)
        <4>1. Len(names) - (i + 1) + 1 = n - 1
          BY <1>1
        <4> QED  BY <3>1, <4>1 DEF Above
      <3>2. CASE ~(i + 1 <= Len(names))
        <4>1. n - 1 = 0
          BY <1>1, <1>2, <3>2
        <4>2. SubSeq(names, 1, 0) = <<>>
          BY <1>1
        <4> QED  BY <3>2, <4>1, <4>2 DEF Above
      <3> QED  BY <3>1, <3>2
    <2>7. SubSeq(names, 1, Len(names)) = names
      BY <1>1
    <2>8. Above(names, 1) = names
      BY <1>1, <1>2, <2>7 DEF Above
    <2> QED  BY <1>2, <2>2, <2>3, <2>4, <2>5, <2>6, <2>8
  <1>3. CASE ~(i <= Len(names))
    <2>1. ~(i + 1 <= Len(names))
      BY <1>1, <1>3
    <2>2. Above(names, i) = <<>> /\ Above(names, i + 1) = <<>>
      BY <1>3, <2>1 DEF Above
    <2>3. Above(names, 1) = names
      <3>1. CASE names = <<>>
        BY <3>1 DEF Above
      <3>2. CASE names # <<>>
        <4>1. 1 <= Len(names) /\ SubSeq(names, 1, Len(names) - 1 + 1) = names
          BY <1>1, <3>2
        <4> QED  BY <4>1 DEF Above
      <3> QED  BY <3>1, <3>2
    <2>4. Parent(<<>>) = <<>>
      BY DEF Parent
    <2> QED  BY <1>1, <1>3, <2>2, <2>3, <2>4
  <1> QED  BY <1>2, <1>3

\* Where the directories above a path are.
LEMMA LocationAbove ==
  ASSUME NEW names \in NamePath, NEW n \in 1..Len(names)
  PROVE  \E m \in 0..Len(Location(names)) :
            /\ Location(SubSeq(names, 1, n)) = SubSeq(Location(names), 1, m)
            /\ Len(Location(SubSeq(names, 1, n))) = m
            /\ n < Len(names) => m < Len(Location(names))
  <1> DEFINE s == SubSeq(names, 1, n)
             H == Names(Home)
  <1>1. names \in Seq(Name) /\ Len(names) \in Nat /\ Len(names) >= 1 /\ n \in 0..Len(names)
    BY DEF NamePath
  <1>2. s \in NamePath /\ Len(s) = n /\ \A i \in 1..n : s[i] = names[i]
    BY <1>1, PrefixIs
  <1>3. names # <<>> /\ s # <<>> /\ Head(s) = Head(names)
    <2>1. Head(s) = s[1] /\ Head(names) = names[1] /\ 1 \in 1..n
      BY <1>1, <1>2 DEF NamePath
    <2> QED  BY <1>1, <1>2, <2>1
  <1> HIDE DEF s
  <1>4. CASE Head(names) # tilde
    <2>1. Location(names) = names /\ Location(s) = s
      BY <1>2, <1>3, <1>4, LocationIs
    <2> QED  BY <1>1, <1>2, <2>1 DEF s
  <1>5. CASE Head(names) = tilde
    <2> DEFINE a == H \o Tail(names)
               b == H \o Tail(s)
               m == Len(H) + n - 1
    <2>1. Location(names) = a /\ Location(s) = b
      BY <1>2, <1>3, <1>5, LocationIs
    <2>2. H \in Seq(Name) /\ Len(H) \in Nat
      BY HomeIs DEF NamePath
    <2>3. /\ Tail(names) \in Seq(Name) /\ Len(Tail(names)) = Len(names) - 1
          /\ \A i \in 1..(Len(names) - 1) : Tail(names)[i] = names[i + 1]
      BY <1>1, <1>3
    <2>4. /\ Tail(s) \in Seq(Name) /\ Len(Tail(s)) = n - 1
          /\ \A i \in 1..(n - 1) : Tail(s)[i] = s[i + 1]
      BY <1>2, <1>3 DEF NamePath
    <2> HIDE DEF H
    <2>5. /\ a \in NamePath /\ Len(a) = Len(H) + (Len(names) - 1)
          /\ \A i \in 1..Len(H) : a[i] = H[i]
          /\ \A i \in 1..(Len(names) - 1) : a[Len(H) + i] = names[i + 1]
      <3> DEFINE t == Tail(names)
      <3> HIDE DEF t
      <3>1. /\ H \o t \in Seq(Name) /\ Len(H \o t) = Len(H) + Len(t)
            /\ \A i \in 1..Len(H) : (H \o t)[i] = H[i]
            /\ \A i \in 1..Len(t) : (H \o t)[Len(H) + i] = t[i]
        BY <2>2, <2>3, ConcatIs DEF t
      <3> QED  BY <2>3, <3>1 DEF t, NamePath
    <2>6. /\ b \in NamePath /\ Len(b) = Len(H) + (n - 1)
          /\ \A i \in 1..Len(H) : b[i] = H[i]
          /\ \A i \in 1..(n - 1) : b[Len(H) + i] = s[i + 1]
      <3> DEFINE t == Tail(s)
      <3> HIDE DEF t
      <3>1. /\ H \o t \in Seq(Name) /\ Len(H \o t) = Len(H) + Len(t)
            /\ \A i \in 1..Len(H) : (H \o t)[i] = H[i]
            /\ \A i \in 1..Len(t) : (H \o t)[Len(H) + i] = t[i]
        BY <2>2, <2>4, ConcatIs DEF t
      <3> QED  BY <2>4, <3>1 DEF t, NamePath
    <2> HIDE DEF a, b
    <2>7. m \in 0..Len(a) /\ Len(b) = m /\ (n < Len(names) => m < Len(a))
      BY <1>1, <2>2, <2>5, <2>6
    <2>8. SubSeq(a, 1, m) \in NamePath /\ Len(SubSeq(a, 1, m)) = m
          /\ \A i \in 1..m : SubSeq(a, 1, m)[i] = a[i]
      BY <2>5, <2>7, PrefixIs
    <2>9. ASSUME NEW i \in 1..m PROVE b[i] = a[i]
      <3>1. CASE i <= Len(H)
        BY <2>2, <2>5, <2>6, <3>1
      <3>2. CASE ~(i <= Len(H))
        <4>1. \E j \in 1..(n - 1) : i = Len(H) + j
          <5>1. i - Len(H) \in 1..(n - 1) /\ i = Len(H) + (i - Len(H))
            BY <1>1, <2>2, <3>2
          <5> QED  BY <5>1
        <4>2. PICK j \in 1..(n - 1) : i = Len(H) + j
          BY <4>1
        <4>3. j \in 1..(Len(names) - 1) /\ j + 1 \in 1..n
          BY <1>1
        <4>4. b[Len(H) + j] = s[j + 1] /\ a[Len(H) + j] = names[j + 1] /\ s[j + 1] = names[j + 1]
          BY <1>2, <2>5, <2>6, <4>3
        <4> QED  BY <4>2, <4>4
      <3> QED  BY <3>1, <3>2
    <2>10. b = SubSeq(a, 1, m)
      BY <2>6, <2>7, <2>8, <2>9, SamePath
    <2> HIDE DEF m
    <2> QED  BY <2>1, <2>7, <2>10 DEF s
  <1> QED  BY <1>4, <1>5

-----------------------------------------------------------------------------
\* One caller makes a step: what becomes of the others, and of the ghosts.
Others(c) == \A s \in Callers \ {c} : /\ path'[s] = path[s] /\ call'[s] = call[s]
                                       /\ stack'[s] = stack[s] /\ rescured'[s] = rescured[s]

LEMMA Changes ==
  ASSUME NEW D, NEW S, NEW f \in [D -> S], NEW c \in D, NEW v \in S, NEW g,
         g = [f EXCEPT ![c] = v]
  PROVE  g \in [D -> S] /\ g[c] = v /\ \A s \in D \ {c} : g[s] = f[s]
  OBVIOUS

LEMMA WatchIs ==
  ASSUME NEW c \in Callers, Watch(c)
  PROVE  /\ disturbed' \in [Callers -> BOOLEAN] /\ rootless' \in [Callers -> BOOLEAN]
         /\ \A s \in Callers :
               /\ call'[s] # "none" /\ ~disturbed'[s] =>
                     ~disturbed[s] /\ (s = c \/ (dirs' = dirs /\ files' = files))
               /\ call'[s] = "create" /\ ~rootless'[s] => ~rootless[s] /\ Exists(Root(path[s]))'
               /\ call'[s] = "create" /\ rootless[s] => rootless'[s]
  BY DEF Watch

LEMMA OtherKeeps ==
  ASSUME PathInv, NEW c \in Callers, Watch(c), Others(c), NEW s \in Callers \ {c}
  PROVE  Fits(s)' /\ Creating(s)' /\ Walking(s)'
  <1>1. path'[s] = path[s] /\ call'[s] = call[s] /\ stack'[s] = stack[s] /\ rescured'[s] = rescured[s]
    BY DEF Others
  <1>2. Fits(s) /\ Creating(s) /\ Walking(s)
    BY DEF PathInv
  <1>3. Fits(s)'
    BY <1>1, <1>2 DEF Fits
  <1>4. Walking(s)'
    BY <1>1, <1>2 DEF Walking
  <1>5. ASSUME call'[s] = "create", ~disturbed'[s] PROVE StillSo(s)'
    <2>1. ~disturbed[s] /\ dirs' = dirs /\ files' = files
      BY <1>5, WatchIs
    <2>2. StillSo(s)
      BY <1>1, <1>2, <1>5, <2>1 DEF Creating
    <2>3. Top(s)' = Top(s)
      BY <1>1 DEF Top
    <2> QED  BY <1>1, <2>1, <2>2, <2>3 DEF StillSo, Exists
  <1>6. ASSUME call'[s] = "create", ~rootless'[s]
        PROVE  ~rootless[s] /\ Exists(Root(path[s]))'
    BY <1>6, WatchIs
  <1>7. Top(s)' = Top(s)
    BY <1>1 DEF Top
  <1>8. Creating(s)'
    <2> SUFFICES ASSUME call'[s] = "create"
        PROVE /\ Len(path'[s]) <= StackLimit /\ Len(Location(path'[s])) <= StackLimit
              /\ \A i \in 1..Len(stack'[s]) : /\ stack'[s][i].path = Above(path'[s], i)
                                              /\ stack'[s][i].at \in {"parent", "self", "mkdir"}
              /\ ~rescured'[s] => Len(stack'[s]) = 1 /\ Top(s)'.at # "parent"
              /\ ~rootless'[s] => Exists(Root(path[s]))'
              /\ ~rootless'[s] /\ Len(path'[s]) > 1 => Len(stack'[s]) < Len(path'[s])
              /\ ~disturbed'[s] => StillSo(s)'
      BY DEF Creating
    <2>1. call[s] = "create"
      BY <1>1
    <2> QED  BY <1>1, <1>2, <1>5, <1>6, <1>7, <2>1 DEF Creating
  <1> QED  BY <1>3, <1>4, <1>8

LEMMA InitPathInv == Init => PathInv
  <1> SUFFICES ASSUME Init PROVE PathInv
    OBVIOUS
  <1>1. TreeOK(dirs, files)
    <2>1. PICK tree \in GivenTrees : dirs = tree.dirs /\ files = tree.files
      BY DEF Init
    <2> QED  BY <2>1, Given DEF TreeOK
  <1>2. <<>> \in NamePath /\ <<>> \in Seq(FrameType)
    BY DEF NamePath
  <1>3. Types
    BY <1>1, <1>2 DEF Init, Types
  <1>4. Overflow
    BY DEF Init, Overflow
  <1>5. ASSUME NEW c \in Callers PROVE Fits(c) /\ Creating(c) /\ Walking(c)
    <2>1. call[c] = "none" /\ stack[c] = <<>> /\ Len(<<>>) = 0
      BY DEF Init
    <2> QED  BY <2>1, Given DEF Fits, Creating, Walking
  <1> QED  BY <1>3, <1>4, <1>5 DEF PathInv

\* What has to be shown of a step of c.
Own(c) == Types' /\ Overflow' /\ Others(c) /\ Fits(c)' /\ Creating(c)' /\ Walking(c)'

LEMMA OwnSuffices ==
  ASSUME PathInv, NEW c \in Callers, Watch(c), Own(c)
  PROVE  PathInv'
  <1>1. \A s \in Callers : Fits(s)' /\ Creating(s)' /\ Walking(s)'
    <2> TAKE s \in Callers
    <2>1. CASE s = c
      BY <2>1 DEF Own
    <2>2. CASE s # c
      BY <2>2, OtherKeeps DEF Own
    <2> QED  BY <2>1, <2>2
  <1> QED  BY <1>1 DEF PathInv, Own

\* The calls of Remove and Rename.
Quiet == path' = path /\ call' = call /\ stack' = stack /\ rescured' = rescured /\ result' = result

LEMMA QuietIs ==
  ASSUME PathInv, NEW c \in Callers, Watch(c), Idle(c), Quiet, TreeOK(dirs', files'),
         crashed' \in {"no", "empty"}
  PROVE  Own(c)
  <1>1. Types'
    BY WatchIs DEF PathInv, Types, Quiet
  <1>2. Overflow'
    BY DEF Overflow
  <1>3. Others(c)
    BY DEF Others, Quiet
  <1>4. call'[c] = "none" /\ Fits(c)
    BY DEF Idle, Quiet, PathInv
  <1>5. Fits(c)'
    BY <1>4 DEF Fits, Quiet
  <1>6. Creating(c)' /\ Walking(c)'
    BY <1>4 DEF Creating, Walking
  <1> QED  BY <1>1, <1>2, <1>3, <1>5, <1>6 DEF Own

LEMMA RemoveKeeps ==
  ASSUME PathInv, NEW c \in Callers, Watch(c), RemoveCall(c)
  PROVE  Own(c)
  <1>1. PICK text \in GivenTexts :
           LET place == Location(Names(text)) IN CanRemove(place) /\ dirs' = dirs \ {place}
    BY DEF RemoveCall
  <1> DEFINE place == Location(Names(text))
  <1>2. dirs' = dirs \ {place} /\ Children(place) = {}
    BY <1>1 DEF CanRemove
  <1>3. ~ \E child \in dirs \cup files : child # <<>> /\ Front(child) = place
    BY <1>2 DEF Children
  <1>4. TreeOK(dirs, files)
    BY DEF PathInv, Types
  <1> HIDE DEF place
  <1>5. TreeOK(dirs \ {place}, files)
    BY <1>3, <1>4, RemovedKeepsTree
  <1>6. files' = files /\ crashed' = "no" /\ Idle(c) /\ Quiet
    BY DEF RemoveCall, Idle, Quiet, argumentVars
  <1> QED  BY <1>2, <1>5, <1>6, QuietIs

LEMMA RenameKeeps ==
  ASSUME PathInv, NEW c \in Callers, Watch(c), RenameCall(c)
  PROVE  Own(c)
  <1>1. PICK text \in GivenTexts, name \in GivenNames :
           LET from == Location(Names(text))
               to == Append(Front(from), name)
           IN  /\ from # <<>> /\ CanRename(from, to)
               /\ dirs' = Moved(dirs, from, to) /\ files' = Moved(files, from, to)
    BY DEF RenameCall
  <1> DEFINE from == Location(Names(text))
             to == RenamedTo(from, name)
  <1>2. /\ from \in dirs \cup files /\ (to = from \/ to \notin dirs \cup files)
        /\ dirs' = Moved(dirs, from, to) /\ files' = Moved(files, from, to)
    BY <1>1 DEF CanRename, RenamedTo
  <1>3. TreeOK(dirs, files) /\ name \in Name
    BY Given DEF PathInv, Types
  <1> HIDE DEF from
  <1>4. TreeOK(Moved(dirs, from, to), Moved(files, from, to))
    BY <1>2, <1>3, MovedKeepsTree
  <1>5. crashed' = "no" /\ Idle(c) /\ Quiet
    BY DEF RenameCall, Idle, Quiet, argumentVars
  <1> QED  BY <1>2, <1>4, <1>5, QuietIs

LEMMA RenameNothingKeeps ==
  ASSUME PathInv, NEW c \in Callers, Watch(c), RenameNothing(c)
  PROVE  Own(c)
  <1>1. dirs' = dirs /\ files' = files /\ crashed' = "empty" /\ Idle(c) /\ Quiet
    BY DEF RenameNothing, Quiet, argumentVars, treeVars
  <1>2. TreeOK(dirs, files)
    BY DEF PathInv, Types
  <1> QED  BY <1>1, <1>2, QuietIs

-----------------------------------------------------------------------------
\* A call begins.
LEMMA BeginIs ==
  ASSUME PathInv, NEW c \in Callers, NEW operation \in {"create", "walk"}, NEW names \in NamePath,
         NEW at \in {"parent", "self", "open"}, Begin(c, operation, names, at)
  PROVE  /\ path' \in [Callers -> NamePath] /\ call' \in [Callers -> {"none", "create", "walk"}]
         /\ stack' \in [Callers -> Seq(FrameType)] /\ result' \in [Callers -> BOOLEAN]
         /\ path'[c] = names /\ call'[c] = operation
         /\ Len(stack'[c]) = 1 /\ stack'[c][1] = Frame(names, at)
         /\ \A s \in Callers \ {c} : path'[s] = path[s] /\ call'[s] = call[s] /\ stack'[s] = stack[s]
  <1> DEFINE st == <<Frame(names, at)>>
  <1>1. Frame(names, at) \in FrameType
    BY DEF Frame, FrameType
  <1>2. st \in Seq(FrameType) /\ Len(st) = 1 /\ st[1] = Frame(names, at)
    BY <1>1
  <1> HIDE DEF st
  <1>3. /\ call' = [call EXCEPT ![c] = operation] /\ path' = [path EXCEPT ![c] = names]
        /\ stack' = [stack EXCEPT ![c] = st] /\ result' = [result EXCEPT ![c] = FALSE]
    BY DEF Begin, st
  <1>4. /\ path \in [Callers -> NamePath] /\ call \in [Callers -> {"none", "create", "walk"}]
        /\ stack \in [Callers -> Seq(FrameType)] /\ result \in [Callers -> BOOLEAN]
    BY DEF PathInv, Types
  <1>5. call' \in [Callers -> {"none", "create", "walk"}]
        /\ call'[c] = operation /\ \A s \in Callers \ {c} : call'[s] = call[s]
    BY <1>3, <1>4
  <1>6. path' \in [Callers -> NamePath]
        /\ path'[c] = names /\ \A s \in Callers \ {c} : path'[s] = path[s]
    BY <1>3, <1>4
  <1>7. stack' \in [Callers -> Seq(FrameType)]
        /\ stack'[c] = st /\ \A s \in Callers \ {c} : stack'[s] = stack[s]
    BY <1>2, <1>3, <1>4
  <1>8. result' \in [Callers -> BOOLEAN]
    BY <1>3, <1>4
  <1> QED  BY <1>2, <1>5, <1>6, <1>7, <1>8

LEMMA CreateCallKeeps ==
  ASSUME PathInv, NEW c \in Callers, Watch(c), CreateCall(c)
  PROVE  Own(c)
  <1>1. PICK text \in GivenTexts, r \in BOOLEAN :
           /\ rescured' = [rescured EXCEPT ![c] = r]
           /\ Begin(c, "create", Names(text), IF r THEN "parent" ELSE "self")
    BY DEF CreateCall
  <1> DEFINE names == Names(text)
             at == IF r THEN "parent" ELSE "self"
  <1>2. names \in NamePath /\ Len(names) <= StackLimit /\ Len(Location(names)) <= StackLimit
    BY GivenIs
  <1>3. at \in {"parent", "self", "open"} /\ Begin(c, "create", names, at)
    BY <1>1
  <1> HIDE DEF names
  <1>4. /\ path' \in [Callers -> NamePath] /\ call' \in [Callers -> {"none", "create", "walk"}]
        /\ stack' \in [Callers -> Seq(FrameType)] /\ result' \in [Callers -> BOOLEAN]
        /\ path'[c] = names /\ call'[c] = "create"
        /\ Len(stack'[c]) = 1 /\ stack'[c][1] = Frame(names, at)
        /\ \A s \in Callers \ {c} : path'[s] = path[s] /\ call'[s] = call[s] /\ stack'[s] = stack[s]
    BY <1>2, <1>3, BeginIs
  <1>5. /\ rescured' \in [Callers -> BOOLEAN] /\ rescured'[c] = r
        /\ \A s \in Callers \ {c} : rescured'[s] = rescured[s]
    BY <1>1 DEF PathInv, Types
  <1>6. dirs' = dirs /\ files' = files /\ crashed' = "no"
    BY <1>3 DEF CreateCall, treeVars, Begin, Idle
  <1>7. Types'
    BY <1>4, <1>5, <1>6, WatchIs DEF PathInv, Types
  <1>8. Overflow' /\ Others(c)
    BY <1>4, <1>5, <1>6 DEF Overflow, Others
  <1>9. Fits(c)'
    <2>1. stack'[c] # <<>>
      <3>1. Len(<<>>) # 1 /\ Len(stack'[c]) = 1
        BY <1>4
      <3> QED  BY <3>1, Zenon
    <2>2. Len(stack'[c]) <= StackLimit /\ call'[c] # "none"
      BY <1>4, Given
    <2> QED  BY <2>1, <2>2 DEF Fits
  <1>10. Top(c)'.path = names /\ Top(c)'.at = at
    BY <1>4 DEF Top, Last, Frame
  <1>11. StillSo(c)'
    <2>1. rescured'[c] => Top(c)'.at = "parent"
      BY <1>5, <1>10
    <2>2. Top(c)'.at # "mkdir"
      BY <1>10
    <2> QED  BY <2>1, <2>2 DEF StillSo
  <1>12. Above(names, 1) = names
    BY <1>2, AboveIs
  <1>13. \A i \in 1..Len(stack'[c]) : /\ stack'[c][i].path = Above(path'[c], i)
                                     /\ stack'[c][i].at \in {"parent", "self", "mkdir"}
    BY <1>4, <1>12 DEF Frame
  <1>14. ~rescured'[c] => Len(stack'[c]) = 1 /\ Top(c)'.at # "parent"
    BY <1>4, <1>5, <1>10
  <1>15. ~rootless'[c] => Exists(Root(path[c]))'
    BY <1>4, WatchIs
  <1>16. Len(path'[c]) > 1 => Len(stack'[c]) < Len(path'[c])
    BY <1>4
  <1>17. Creating(c)'
    BY <1>2, <1>4, <1>11, <1>13, <1>14, <1>15, <1>16 DEF Creating
  <1>18. Walking(c)'
    BY <1>4 DEF Walking
  <1> QED  BY <1>7, <1>8, <1>9, <1>17, <1>18 DEF Own

LEMMA WalkCallKeeps ==
  ASSUME PathInv, NEW c \in Callers, Watch(c), WalkCall(c)
  PROVE  Own(c)
  <1>1. PICK text \in GivenTexts, r \in BOOLEAN :
           /\ rescured' = [rescured EXCEPT ![c] = r]
           /\ Begin(c, "walk", Names(text), "open")
    BY DEF WalkCall
  <1> DEFINE names == Names(text)
  <1>2. names \in NamePath
    BY GivenIs
  <1>3. Begin(c, "walk", names, "open")
    BY <1>1
  <1> HIDE DEF names
  <1>4. /\ path' \in [Callers -> NamePath] /\ call' \in [Callers -> {"none", "create", "walk"}]
        /\ stack' \in [Callers -> Seq(FrameType)] /\ result' \in [Callers -> BOOLEAN]
        /\ path'[c] = names /\ call'[c] = "walk"
        /\ Len(stack'[c]) = 1 /\ stack'[c][1] = Frame(names, "open")
        /\ \A s \in Callers \ {c} : path'[s] = path[s] /\ call'[s] = call[s] /\ stack'[s] = stack[s]
    BY <1>2, <1>3, BeginIs
  <1>5. /\ rescured' \in [Callers -> BOOLEAN]
        /\ \A s \in Callers \ {c} : rescured'[s] = rescured[s]
    BY <1>1 DEF PathInv, Types
  <1>6. dirs' = dirs /\ files' = files /\ crashed' = "no"
    BY <1>3 DEF WalkCall, treeVars, Begin, Idle
  <1>7. Types'
    BY <1>4, <1>5, <1>6, WatchIs DEF PathInv, Types
  <1>8. Overflow' /\ Others(c)
    BY <1>4, <1>5, <1>6 DEF Overflow, Others
  <1>9. Fits(c)'
    <2>1. stack'[c] # <<>>
      <3>1. Len(<<>>) # 1 /\ Len(stack'[c]) = 1
        BY <1>4
      <3> QED  BY <3>1, Zenon
    <2>2. Len(stack'[c]) <= StackLimit /\ call'[c] # "none"
      BY <1>4, Given
    <2> QED  BY <2>1, <2>2 DEF Fits
  <1>10. WalkFrame(stack'[c][1], 1)
    BY <1>4 DEF WalkFrame, Frame
  <1>11. Walking(c)'
    BY <1>4, <1>10 DEF Walking
  <1>12. Creating(c)'
    BY <1>4 DEF Creating
  <1> QED  BY <1>7, <1>8, <1>9, <1>11, <1>12 DEF Own

-----------------------------------------------------------------------------
\* A call in progress.
LEMMA TopIs ==
  ASSUME PathInv, NEW c \in Callers, call[c] # "none"
  PROVE  /\ Len(stack[c]) \in 1..StackLimit /\ Len(stack[c]) \in Nat /\ Len(stack[c]) >= 1
         /\ stack[c] \in Seq(FrameType)
         /\ Top(c) = stack[c][Len(stack[c])] /\ Top(c) \in FrameType
         /\ Top(c).path \in NamePath
  <1>1. stack[c] \in Seq(FrameType) /\ Fits(c)
    BY DEF PathInv, Types
  <1>2. Len(stack[c]) <= StackLimit /\ stack[c] # <<>>
    BY <1>1 DEF Fits
  <1>3. Len(stack[c]) \in Nat /\ Len(stack[c]) >= 1
    BY <1>1, <1>2
  <1>4. Top(c) = stack[c][Len(stack[c])]
    BY DEF Top, Last
  <1>5. Top(c) \in FrameType
    BY <1>1, <1>3, <1>4
  <1> QED  BY <1>1, <1>2, <1>3, <1>4, <1>5, Given DEF FrameType

\* The stack of c alone changes.
LEMMA StackMoves ==
  ASSUME PathInv, NEW c \in Callers, Watch(c), NEW st \in Seq(FrameType),
         stack' = [stack EXCEPT ![c] = st],
         path' = path, call' = call, rescured' = rescured, result' = result,
         TreeOK(dirs', files'), crashed' \in {"no", "stack overflow", "empty"}
  PROVE  Types' /\ Others(c) /\ stack'[c] = st
  <1>1. stack \in [Callers -> Seq(FrameType)]
    BY DEF PathInv, Types
  <1>2. /\ stack' \in [Callers -> Seq(FrameType)] /\ stack'[c] = st
        /\ \A s \in Callers \ {c} : stack'[s] = stack[s]
    BY <1>1
  <1> QED  BY <1>2, WatchIs DEF PathInv, Types, Others

LEMMA GotoIs ==
  ASSUME PathInv, NEW c \in Callers, call[c] # "none", NEW at \in {"self", "mkdir"}, Goto(c, at)
  PROVE  \E st \in Seq(FrameType) :
            /\ stack' = [stack EXCEPT ![c] = st]
            /\ Len(st) = Len(stack[c])
            /\ \A i \in 1..(Len(st) - 1) : st[i] = stack[c][i]
            /\ st[Len(st)].path = Top(c).path /\ st[Len(st)].at = at
  <1> DEFINE n == Len(stack[c])
             top == [stack[c][n] EXCEPT !.at = at]
             st == [stack[c] EXCEPT ![n] = top]
  <1>1. n \in Nat /\ n >= 1 /\ stack[c] \in Seq(FrameType) /\ Top(c) = stack[c][n] /\ Top(c) \in FrameType
    BY TopIs
  <1>2. top \in FrameType /\ top.path = Top(c).path /\ top.at = at
    BY <1>1 DEF FrameType
  <1>3. stack' = [stack EXCEPT ![c] = st]
    BY DEF Goto
  <1> HIDE DEF top
  <1>4. st \in Seq(FrameType) /\ Len(st) = n /\ st[n] = top /\ \A i \in 1..(n - 1) : st[i] = stack[c][i]
    BY <1>1, <1>2
  <1> HIDE DEF st
  <1> QED  BY <1>2, <1>3, <1>4

-----------------------------------------------------------------------------
\* A call of CreatePath ends, or goes on in the caller's frame.
LEMMA EndIs ==
  ASSUME PathInv, NEW c \in Callers, Watch(c), End(c), TreeOK(dirs', files'), crashed' = "no",
         result' \in [Callers -> BOOLEAN]
  PROVE  Own(c)
  <1>1. /\ path \in [Callers -> NamePath] /\ call \in [Callers -> {"none", "create", "walk"}]
        /\ stack \in [Callers -> Seq(FrameType)] /\ rescured \in [Callers -> BOOLEAN]
    BY DEF PathInv, Types
  <1>2. <<>> \in NamePath /\ <<>> \in Seq(FrameType)
    BY DEF NamePath
  <1>3. /\ call' = [call EXCEPT ![c] = "none"] /\ path' = [path EXCEPT ![c] = <<>>]
        /\ stack' = [stack EXCEPT ![c] = <<>>] /\ rescured' = [rescured EXCEPT ![c] = FALSE]
    BY DEF End
  <1>4. /\ path' \in [Callers -> NamePath] /\ call' \in [Callers -> {"none", "create", "walk"}]
        /\ rescured' \in [Callers -> BOOLEAN] /\ call'[c] = "none"
        /\ \A s \in Callers \ {c} : path'[s] = path[s] /\ call'[s] = call[s] /\ rescured'[s] = rescured[s]
    BY <1>1, <1>2, <1>3
  <1>5. /\ stack' \in [Callers -> Seq(FrameType)] /\ stack'[c] = <<>>
        /\ \A s \in Callers \ {c} : stack'[s] = stack[s]
    BY <1>1, <1>2, <1>3
  <1>6. Types'
    BY <1>4, <1>5, WatchIs DEF PathInv, Types
  <1>7. Overflow' /\ Others(c)
    BY <1>4, <1>5 DEF Overflow, Others
  <1>8. Fits(c)'
    <2>1. Len(<<>>) = 0
      OBVIOUS
    <2> QED  BY <1>4, <1>5, <2>1, Given DEF Fits
  <1>9. Creating(c)' /\ Walking(c)'
    BY <1>4 DEF Creating, Walking
  <1> QED  BY <1>6, <1>7, <1>8, <1>9 DEF Own

LEMMA ReturnIs ==
  ASSUME PathInv, NEW c \in Callers, Watch(c), Running(c, "create"), NEW rv \in BOOLEAN,
         ReturnFrom(c, rv), TreeOK(dirs', files'), crashed' = "no",
         rv => Location(Top(c).path) \in dirs' \cup files'
  PROVE  Own(c)
  <1> DEFINE n == Len(stack[c])
  <1>0. call[c] = "create" /\ call[c] # "none"
    BY DEF Running
  <1>1. /\ n \in 1..StackLimit /\ n \in Nat /\ n >= 1 /\ stack[c] \in Seq(FrameType)
        /\ Top(c) = stack[c][n] /\ Top(c) \in FrameType
    BY <1>0, TopIs
  <1>2. Creating(c) /\ path[c] \in NamePath
    BY DEF PathInv, Types
  <1>3. CASE rv /\ n > 1
    <2> DEFINE top == [stack[c][n - 1] EXCEPT !.at = "self"]
               st == [Front(stack[c]) EXCEPT ![n - 1] = top]
    <2>1. /\ stack' = [stack EXCEPT ![c] = st]
          /\ path' = path /\ call' = call /\ rescured' = rescured /\ result' = result
      <3>1. /\ stack' = [stack EXCEPT ![c] = [Front(stack[c]) EXCEPT ![n - 1].at = "self"]]
            /\ path' = path /\ call' = call /\ rescured' = rescured /\ result' = result
        BY <1>3 DEF ReturnFrom, argumentVars
      <3>2. Front(stack[c])[n - 1] = stack[c][n - 1]
        BY <1>1, <1>3 DEF Front
      <3> QED  BY <3>1, <3>2
    <2>2. stack[c][n - 1] \in FrameType
      BY <1>1, <1>3
    <2>3. top \in FrameType /\ top.path = stack[c][n - 1].path /\ top.at = "self"
      BY <2>2 DEF FrameType
    <2> HIDE DEF top
    <2>4. /\ Front(stack[c]) \in Seq(FrameType) /\ Len(Front(stack[c])) = n - 1
          /\ \A i \in 1..(n - 1) : Front(stack[c])[i] = stack[c][i]
      BY <1>1, <1>3 DEF Front
    <2>5. /\ st \in Seq(FrameType) /\ Len(st) = n - 1
          /\ st[n - 1] = top /\ \A i \in 1..(n - 2) : st[i] = stack[c][i]
      BY <1>1, <1>3, <2>3, <2>4
    <2> HIDE DEF st
    <2>6. Types' /\ Others(c) /\ stack'[c] = st
      BY <2>1, <2>5, StackMoves
    <2>7. Fits(c)'
      <3>1. st # <<>>
        <4>1. Len(<<>>) = 0 /\ Len(st) # 0
          BY <1>1, <1>3, <2>5
        <4> QED  BY <4>1
      <3>2. Len(st) <= StackLimit
        BY <1>1, <1>3, <2>5, Given
      <3> QED  BY <1>0, <2>1, <2>6, <3>1, <3>2 DEF Fits
    <2>8. Top(c)' = top
      BY <2>5, <2>6 DEF Top, Last
    <2>9. \A i \in 1..(n - 1) : st[i].path = Above(path[c], i) /\ st[i].at \in {"parent", "self", "mkdir"}
      <3> TAKE i \in 1..(n - 1)
      <3>1. i \in 1..n /\ n - 1 \in 1..n
        BY <1>1, <1>3
      <3>2. /\ stack[c][i].path = Above(path[c], i)
            /\ stack[c][i].at \in {"parent", "self", "mkdir"}
        BY <1>0, <1>2, <3>1 DEF Creating
      <3>3. CASE i = n - 1
        BY <2>3, <2>5, <3>2, <3>3
      <3>4. CASE i # n - 1
        <4>1. i \in 1..(n - 2)
          BY <1>1, <3>4
        <4> QED  BY <2>5, <3>2, <4>1
      <3> QED  BY <3>3, <3>4
    <2>10. rescured[c]
      BY <1>0, <1>2, <1>3 DEF Creating
    <2>11. StillSo(c)'
      <3>1. top.path = Above(path[c], n - 1)
        <4>1. n - 1 \in 1..n
          BY <1>1, <1>3
        <4> QED  BY <1>0, <1>2, <2>3, <4>1 DEF Creating
      <3>2. Parent(top.path) = Above(path[c], n)
        <4>1. n - 1 \in Nat /\ n - 1 >= 1 /\ (n - 1) + 1 = n
          BY <1>1, <1>3
        <4>2. Parent(Above(path[c], n - 1)) = Above(path[c], (n - 1) + 1)
          BY <1>2, <4>1, AboveIs
        <4> QED  BY <3>1, <4>1, <4>2
      <3>3. Top(c).path = Above(path[c], n)
        <4>1. n \in 1..n
          BY <1>1
        <4> QED  BY <1>0, <1>1, <1>2, <4>1 DEF Creating
      <3>4. Location(Parent(top.path)) \in dirs' \cup files'
        BY <1>3, <3>2, <3>3
      <3>5. top.at # "mkdir"
        BY <2>3
      <3> QED  BY <2>8, <3>4, <3>5 DEF StillSo, Exists
    <2>12. call'[c] = "create" /\ path'[c] = path[c] /\ rescured'[c] = rescured[c]
      BY <1>0, <2>1
    <2>13. ~rootless'[c] => ~rootless[c] /\ Exists(Root(path[c]))'
      BY <2>12, WatchIs
    <2>14. ~rootless[c] /\ Len(path[c]) > 1 => n - 1 < Len(path[c])
      <3>1. ~rootless[c] /\ Len(path[c]) > 1 => n < Len(path[c])
        BY <1>0, <1>2 DEF Creating
      <3>2. Len(path[c]) \in Nat
        BY <1>2 DEF NamePath
      <3> QED  BY <1>1, <3>1, <3>2
    <2>15. Len(path[c]) <= StackLimit /\ Len(Location(path[c])) <= StackLimit
      BY <1>0, <1>2 DEF Creating
    <2>16. Creating(c)'
      BY <2>5, <2>6, <2>9, <2>10, <2>11, <2>12, <2>13, <2>14, <2>15 DEF Creating
    <2>17. Walking(c)' /\ Overflow'
      BY <2>12 DEF Walking, Overflow
    <2> QED  BY <2>6, <2>7, <2>16, <2>17 DEF Own
  <1>4. CASE ~(rv /\ n > 1)
    <2>1. End(c) /\ result' = [result EXCEPT ![c] = rv]
      BY <1>4 DEF ReturnFrom
    <2>2. result' \in [Callers -> BOOLEAN]
      BY <2>1 DEF PathInv, Types
    <2> QED  BY <2>1, <2>2, EndIs
  <1> QED  BY <1>3, <1>4

LEMMA LengthIs == \A s \in NamePath : Len(s) \in Nat
  BY DEF NamePath

LEMMA FirstIs == \A s \in Seq(Name) : Len(s) > 1 => s # <<>> /\ SubSeq(s, 1, 1) = <<Head(s)>>
  <1> SUFFICES ASSUME NEW s \in Seq(Name), Len(s) > 1
               PROVE  s # <<>> /\ SubSeq(s, 1, 1) = <<Head(s)>>
    OBVIOUS
  <1>1. s # <<>> /\ Head(s) = s[1] /\ s[1] \in Name
    OBVIOUS
  <1>2. SubSeq(s, 1, 1) \in Seq(Name) /\ Len(SubSeq(s, 1, 1)) = 1 /\ SubSeq(s, 1, 1)[1] = s[1]
    OBVIOUS
  <1> DEFINE r == SubSeq(s, 1, 1)
             a == <<s[1]>>
  <1>3. a \in Seq(Name) /\ Len(a) = 1 /\ a[1] = s[1]
    BY <1>1
  <1> HIDE DEF r, a
  <1>4. \A i \in 1..Len(r) : r[i] = a[i]
    BY <1>2, <1>3 DEF r
  <1>5. r = a
    BY <1>2, <1>3, <1>4, SamePath DEF r, NamePath
  <1> QED  BY <1>1, <1>5 DEF r, a

LEMMA Numbers ==
  /\ \A k \in Nat : ~(k <= 1) => k > 1
  /\ \A k, l, m \in Nat : k < l /\ l <= m => k < m
  OBVIOUS

\* The innermost frame of CreatePath goes on.
LEMMA CreateGoes ==
  ASSUME PathInv, NEW c \in Callers, Watch(c), Running(c, "create"), NEW at \in {"self", "mkdir"},
         Goto(c, at), path' = path, call' = call, rescured' = rescured, result' = result,
         dirs' = dirs, files' = files, crashed' = "no",
         ~rescured[c] \/ Top(c).at = "self" \/ at = "self",
         ~rescured[c] => Top(c).at # "parent",
         at = "mkdir" => ~Exists(Top(c).path),
         ~disturbed[c] /\ rescured[c] => Exists(Parent(Top(c).path))
  PROVE  Own(c)
  <1> DEFINE n == Len(stack[c])
  <1>0. call[c] = "create" /\ call[c] # "none"
    BY DEF Running
  <1>1. /\ n \in 1..StackLimit /\ n \in Nat /\ n >= 1 /\ stack[c] \in Seq(FrameType)
        /\ Top(c) = stack[c][n] /\ Top(c) \in FrameType
    BY <1>0, TopIs
  <1>2. Creating(c) /\ TreeOK(dirs, files)
    BY DEF PathInv, Types
  <1>3. PICK st \in Seq(FrameType) :
            /\ stack' = [stack EXCEPT ![c] = st]
            /\ Len(st) = Len(stack[c])
            /\ \A i \in 1..(Len(st) - 1) : st[i] = stack[c][i]
            /\ st[Len(st)].path = Top(c).path /\ st[Len(st)].at = at
    BY <1>0, GotoIs
  <1>4. Types' /\ Others(c) /\ stack'[c] = st
    BY <1>2, <1>3, StackMoves
  <1>5. Top(c)'.path = Top(c).path /\ Top(c)'.at = at
    BY <1>3, <1>4 DEF Top, Last
  <1>6. Fits(c)'
    <2>1. st # <<>>
      <3>1. Len(<<>>) = 0 /\ Len(st) # 0
        BY <1>1, <1>3
      <3> QED  BY <3>1
    <2>2. Len(st) <= StackLimit
      BY <1>1, <1>3, Given
    <2> QED  BY <1>0, <1>4, <2>1, <2>2 DEF Fits
  <1>7. \A i \in 1..Len(st) : st[i].path = Above(path[c], i) /\ st[i].at \in {"parent", "self", "mkdir"}
    <2> TAKE i \in 1..Len(st)
    <2>1. /\ stack[c][i].path = Above(path[c], i)
          /\ stack[c][i].at \in {"parent", "self", "mkdir"}
      BY <1>0, <1>2, <1>3 DEF Creating
    <2>2. CASE i = n
      BY <1>1, <1>3, <2>1, <2>2
    <2>3. CASE i # n
      <3>1. i \in 1..(Len(st) - 1)
        BY <1>1, <1>3, <2>3
      <3> QED  BY <1>3, <2>1, <3>1
    <2> QED  BY <2>2, <2>3
  <1>8. ~disturbed'[c] => StillSo(c)'
    <2> SUFFICES ASSUME ~disturbed'[c] PROVE StillSo(c)'
      OBVIOUS
    <2>1. ~disturbed[c]
      BY <1>0, WatchIs
    <2> QED  BY <1>5, <2>1 DEF StillSo, Exists
  <1>9. ~rootless'[c] => ~rootless[c] /\ Exists(Root(path[c]))'
    BY <1>0, WatchIs
  <1>10. at # "parent" /\ call'[c] = "create" /\ path'[c] = path[c] /\ rescured'[c] = rescured[c]
    BY <1>0
  <1>11. Creating(c)'
    BY <1>0, <1>2, <1>3, <1>4, <1>5, <1>7, <1>8, <1>9, <1>10 DEF Creating
  <1>12. Walking(c)' /\ Overflow'
    BY <1>10 DEF Walking, Overflow
  <1> QED  BY <1>4, <1>6, <1>11, <1>12 DEF Own

\* The innermost frame of CreatePath(true), whose parent is missing, calls once more.
LEMMA CreatePushes ==
  ASSUME PathInv, NEW c \in Callers, Watch(c), Running(c, "create"), Top(c).at = "parent",
         ~Exists(Parent(Top(c).path)), Len(stack[c]) < StackLimit,
         stack' = [stack EXCEPT ![c] = Append(stack[c], Frame(Parent(Top(c).path), "parent"))],
         path' = path, call' = call, rescured' = rescured, result' = result,
         dirs' = dirs, files' = files, crashed' = "no"
  PROVE  Own(c)
  <1> DEFINE n == Len(stack[c])
             parent == Parent(Top(c).path)
             new == Frame(parent, "parent")
             st == Append(stack[c], new)
  <1>0. call[c] = "create" /\ call[c] # "none"
    BY DEF Running
  <1>1. /\ n \in 1..StackLimit /\ n \in Nat /\ n >= 1 /\ stack[c] \in Seq(FrameType)
        /\ Top(c) = stack[c][n] /\ Top(c) \in FrameType
    BY <1>0, TopIs
  <1>2. Creating(c) /\ TreeOK(dirs, files) /\ path[c] \in NamePath
    BY DEF PathInv, Types
  <1>3. Top(c).path = Above(path[c], n)
    BY <1>0, <1>1, <1>2 DEF Creating
  <1>4. parent = Above(path[c], n + 1) /\ parent \in NamePath
    <2>1. n + 1 \in Nat /\ n + 1 >= 1
      BY <1>1
    <2> QED  BY <1>1, <1>2, <1>3, <2>1, AboveIs
  <1>5. new \in FrameType /\ new.path = parent /\ new.at = "parent"
    BY <1>4 DEF Frame, FrameType
  <1>6. stack' = [stack EXCEPT ![c] = st]
    OBVIOUS
  <1>7. ~Exists(parent)
    OBVIOUS
  <1> HIDE DEF parent, new
  <1>8. /\ st \in Seq(FrameType) /\ Len(st) = n + 1 /\ st[n + 1] = new
        /\ \A i \in 1..n : st[i] = stack[c][i]
    BY <1>1, <1>5
  <1> HIDE DEF st
  <1>9. Types' /\ Others(c) /\ stack'[c] = st
    BY <1>2, <1>6, <1>8, StackMoves
  <1>10. Top(c)' = new
    BY <1>8, <1>9 DEF Top, Last
  <1>11. Fits(c)'
    <2>1. st # <<>>
      <3>1. Len(<<>>) = 0 /\ Len(st) # 0
        BY <1>1, <1>8
      <3> QED  BY <3>1
    <2>2. Len(st) <= StackLimit
      BY <1>1, <1>8, Given
    <2> QED  BY <1>0, <1>9, <2>1, <2>2 DEF Fits
  <1>12. \A i \in 1..Len(st) : st[i].path = Above(path[c], i) /\ st[i].at \in {"parent", "self", "mkdir"}
    <2> TAKE i \in 1..Len(st)
    <2>1. CASE i = n + 1
      BY <1>4, <1>5, <1>8, <2>1
    <2>2. CASE i # n + 1
      <3>1. i \in 1..n
        BY <1>1, <1>8, <2>2
      <3> QED  BY <1>0, <1>2, <1>8, <3>1 DEF Creating
    <2> QED  BY <2>1, <2>2
  <1>13. StillSo(c)'
    BY <1>5, <1>10 DEF StillSo
  <1>14. rescured[c]
    BY <1>0, <1>2 DEF Creating
  <1>15. call'[c] = "create" /\ path'[c] = path[c] /\ rescured'[c] = rescured[c]
    BY <1>0
  <1>16. ~rootless'[c] => ~rootless[c] /\ Exists(Root(path[c]))'
    BY <1>15, WatchIs
  <1>17. ~rootless[c] /\ Len(path[c]) > 1 => n + 1 < Len(path[c])
    <2> SUFFICES ASSUME ~rootless[c], Len(path[c]) > 1, ~(n + 1 < Len(path[c])) PROVE FALSE
      OBVIOUS
    <2>1. n < Len(path[c]) /\ Exists(Root(path[c]))
      BY <1>0, <1>2 DEF Creating
    <2>2. Len(path[c]) \in Nat /\ path[c] \in Seq(Name)
      BY <1>2 DEF NamePath
    <2>3. n + 1 = Len(path[c])
      <3>1. \A k, l \in Nat : k < l /\ ~(k + 1 < l) => k + 1 = l
        OBVIOUS
      <3> QED  BY <1>1, <2>1, <2>2, <3>1
    <2>4. Above(path[c], n + 1) = SubSeq(path[c], 1, 1)
      <3>1. \A l \in Nat : l <= l /\ l - l + 1 = 1
        OBVIOUS
      <3>2. Above(path[c], Len(path[c])) = SubSeq(path[c], 1, 1)
        BY <2>2, <3>1 DEF Above
      <3> QED  BY <2>3, <3>2
    <2>5. path[c] # <<>> /\ SubSeq(path[c], 1, 1) = <<Head(path[c])>>
      BY <2>2, FirstIs
    <2>6. parent = Root(path[c])
      BY <1>4, <2>4, <2>5 DEF Root
    <2> QED  BY <1>7, <2>1, <2>6
  <1>18. Creating(c)'
    BY <1>0, <1>2, <1>8, <1>9, <1>12, <1>13, <1>14, <1>15, <1>16, <1>17 DEF Creating
  <1>19. Walking(c)' /\ Overflow'
    BY <1>15 DEF Walking, Overflow
  <1> QED  BY <1>9, <1>11, <1>18, <1>19 DEF Own

\* The stack is full.
LEMMA CreateOverflows ==
  ASSUME PathInv, NEW c \in Callers, Watch(c), Running(c, "create"),
         ~(Len(stack[c]) < StackLimit), Top(c).at = "parent",
         stack' = stack, path' = path, call' = call, rescured' = rescured, result' = result,
         dirs' = dirs, files' = files, crashed' = "stack overflow"
  PROVE  Own(c)
  <1>0. call[c] = "create" /\ call[c] # "none" /\ call'[c] = "create"
    BY DEF Running
  <1>1. Len(stack[c]) \in Nat
    BY <1>0, TopIs
  <1>2. Creating(c) /\ Fits(c) /\ Walking(c) /\ path[c] \in NamePath /\ Len(path[c]) \in Nat
    <2>1. path[c] \in NamePath
      BY DEF PathInv, Types
    <2>2. Len(path[c]) \in Nat
      BY <2>1, LengthIs
    <2> QED  BY <2>1, <2>2 DEF PathInv
  <1>3. ~rootless'[c] => ~rootless[c] /\ Exists(Root(path[c]))'
    BY <1>0, WatchIs
  <1>4. Overflow'
    <2>1. Len(path[c]) <= 1 \/ rootless'[c]
      <3> SUFFICES ASSUME ~(Len(path[c]) <= 1), ~rootless'[c] PROVE FALSE
        OBVIOUS
      <3>1. Len(path[c]) > 1
        BY <1>2, Numbers
      <3>2. Len(stack[c]) < Len(path[c]) /\ Len(path[c]) <= StackLimit
        BY <1>0, <1>2, <1>3, <3>1 DEF Creating
      <3> QED  BY <1>1, <1>2, <3>2, Given, Numbers
    <2> QED  BY <1>0, <2>1 DEF Overflow
  <1>5. Types'
    BY WatchIs DEF PathInv, Types
  <1>6. Others(c)
    BY DEF Others
  <1>7. Top(c)' = Top(c)
    BY DEF Top
  <1>8. StillSo(c)'
    BY <1>7 DEF StillSo
  <1>9. Creating(c)'
    BY <1>0, <1>2, <1>3, <1>7, <1>8 DEF Creating
  <1>10. Fits(c)' /\ Walking(c)'
    BY <1>0, <1>2 DEF Fits, Walking
  <1> QED  BY <1>4, <1>5, <1>6, <1>9, <1>10 DEF Own

LEMMA CreateParentKeeps ==
  ASSUME PathInv, NEW c \in Callers, Watch(c), CreateParent(c)
  PROVE  Own(c)
  <1>1. /\ Running(c, "create") /\ Top(c).at = "parent" /\ crashed = "no"
        /\ path' = path /\ call' = call /\ rescured' = rescured /\ result' = result
        /\ dirs' = dirs /\ files' = files
    BY DEF CreateParent, Running, treeVars, argumentVars
  <1>2. CASE Exists(Parent(Top(c).path))
    <2>1. Goto(c, "self") /\ crashed' = "no"
      BY <1>1, <1>2 DEF CreateParent
    <2>2. rescured[c]
      BY <1>1 DEF PathInv, Creating, Running
    <2> QED  BY <1>1, <1>2, <2>1, <2>2, CreateGoes
  <1>3. CASE ~Exists(Parent(Top(c).path)) /\ Len(stack[c]) < StackLimit
    <2>1. /\ stack' = [stack EXCEPT ![c] = Append(stack[c], Frame(Parent(Top(c).path), "parent"))]
          /\ crashed' = "no"
      BY <1>1, <1>3 DEF CreateParent
    <2> QED  BY <1>1, <1>3, <2>1, CreatePushes
  <1>4. CASE ~Exists(Parent(Top(c).path)) /\ ~(Len(stack[c]) < StackLimit)
    <2>1. stack' = stack /\ crashed' = "stack overflow"
      BY <1>4 DEF CreateParent
    <2> QED  BY <1>1, <1>4, <2>1, CreateOverflows
  <1> QED  BY <1>2, <1>3, <1>4

LEMMA CreateSelfKeeps ==
  ASSUME PathInv, NEW c \in Callers, Watch(c), CreateSelf(c)
  PROVE  Own(c)
  <1>1. /\ Running(c, "create") /\ Top(c).at = "self" /\ crashed' = "no"
        /\ dirs' = dirs /\ files' = files /\ TreeOK(dirs, files)
    BY DEF CreateSelf, Running, treeVars, PathInv, Types
  <1>2. CASE Exists(Top(c).path)
    <2>1. ReturnFrom(c, TRUE) /\ Location(Top(c).path) \in dirs' \cup files'
      BY <1>1, <1>2 DEF CreateSelf, Exists
    <2> QED  BY <1>1, <2>1, ReturnIs
  <1>3. CASE ~Exists(Top(c).path)
    <2>1. Goto(c, "mkdir") /\ path' = path /\ call' = call /\ rescured' = rescured /\ result' = result
      BY <1>3 DEF CreateSelf, argumentVars
    <2>2. ~disturbed[c] /\ rescured[c] => Exists(Parent(Top(c).path))
      BY <1>1 DEF PathInv, Creating, Running, StillSo
    <2> QED  BY <1>1, <1>3, <2>1, <2>2, CreateGoes
  <1> QED  BY <1>2, <1>3

LEMMA CreateMkdirKeeps ==
  ASSUME PathInv, NEW c \in Callers, Watch(c), CreateMkdir(c)
  PROVE  Own(c)
  <1> DEFINE place == Location(Top(c).path)
             n == Len(stack[c])
  <1>1. /\ Running(c, "create") /\ crashed' = "no" /\ files' = files
        /\ call[c] = "create" /\ call[c] # "none"
    BY DEF CreateMkdir, Running
  <1>2. TreeOK(dirs, files) /\ Creating(c) /\ path[c] \in NamePath
    BY DEF PathInv, Types
  <1>3. CASE CanMake(place)
    <2>1. dirs' = dirs \cup {place} /\ ReturnFrom(c, TRUE)
      BY <1>3 DEF CreateMkdir
    <2>2. /\ n \in Nat /\ n >= 1 /\ Top(c).path = Above(path[c], n) /\ Top(c).path \in NamePath
      BY <1>1, <1>2, TopIs DEF Creating
    <2>3. place \in NamePath /\ Len(place) \in Nat
      BY <2>2, LocationType DEF NamePath
    <2>4. place # <<>> /\ place \notin dirs \cup files /\ (Len(place) = 1 \/ Front(place) \in dirs)
      BY <1>3 DEF CanMake, Reachable
    <2>5. Len(place) <= StackLimit
      <3>1. Top(c).path # <<>>
        BY <2>4, LocationOfEmpty
      <3>2. n <= Len(path[c]) /\ Top(c).path = SubSeq(path[c], 1, Len(path[c]) - n + 1)
        BY <2>2, <3>1 DEF Above
      <3>3. Len(path[c]) \in Nat
        BY <1>2 DEF NamePath
      <3>0. \A k, l \in Nat : k >= 1 /\ k <= l => l - k + 1 \in 1..l
        OBVIOUS
      <3>4. Len(path[c]) - n + 1 \in 1..Len(path[c])
        BY <2>2, <3>0, <3>2, <3>3
      <3>5. PICK m \in 0..Len(Location(path[c])) : Len(place) = m
        BY <1>2, <3>2, <3>4, LocationAbove
      <3>6. Len(Location(path[c])) <= StackLimit /\ Len(Location(path[c])) \in Nat
        BY <1>1, <1>2, LocationType DEF Creating, NamePath
      <3> QED  BY <3>5, <3>6, Given
    <2>6. Len(place) \in 1..StackLimit
      <3>1. Len(place) # 0
        BY <2>3, <2>4 DEF NamePath
      <3> QED  BY <2>3, <2>5, <3>1, Given
    <2>7. place \in dirs' \cup files'
      BY <2>1
    <2> HIDE DEF place
    <2>8. TreeOK(dirs \cup {place}, files)
      BY <1>2, <2>3, <2>4, <2>6, MadeKeepsTree
    <2> QED  BY <1>1, <2>1, <2>7, <2>8, ReturnIs DEF place
  <1>4. CASE ~CanMake(place)
    <2>1. dirs' = dirs /\ ReturnFrom(c, FALSE)
      BY <1>4 DEF CreateMkdir
    <2> QED  BY <1>1, <1>2, <2>1, ReturnIs
  <1> QED  BY <1>3, <1>4

-----------------------------------------------------------------------------
\* The calls of WalkDirectory.
LEMMA WalkMoves ==
  ASSUME PathInv, NEW c \in Callers, Watch(c), Running(c, "walk"), NEW st \in Seq(FrameType),
         stack' = [stack EXCEPT ![c] = st], Len(st) \in 1..StackLimit,
         \A i \in 1..Len(st) : WalkFrame(st[i], i),
         path' = path, call' = call, rescured' = rescured, result' = result,
         dirs' = dirs, files' = files, crashed' = "no"
  PROVE  Own(c)
  <1>1. TreeOK(dirs, files)
    BY DEF PathInv, Types
  <1>2. Types' /\ Others(c) /\ stack'[c] = st
    BY <1>1, StackMoves
  <1>3. call'[c] = "walk"
    BY DEF Running
  <1>4. Fits(c)'
    <2>1. Len(st) <= StackLimit /\ Len(st) # 0
      BY Given
    <2>2. st # <<>>
      <3>1. Len(<<>>) = 0
        OBVIOUS
      <3> QED  BY <2>1, <3>1
    <2> QED  BY <1>2, <1>3, <2>1, <2>2 DEF Fits
  <1>5. Walking(c)'
    BY <1>2 DEF Walking
  <1>6. Creating(c)' /\ Overflow'
    BY <1>3 DEF Creating, Overflow
  <1> QED  BY <1>2, <1>4, <1>5, <1>6 DEF Own

LEMMA FrontOfStack ==
  ASSUME NEW st \in Seq(FrameType), Len(st) > 1
  PROVE  /\ Front(st) \in Seq(FrameType) /\ Len(Front(st)) = Len(st) - 1
         /\ Len(Front(st)) >= 1
         /\ \A i \in 1..Len(Front(st)) : Front(st)[i] = st[i] /\ i \in 1..Len(st)
  BY DEF Front

LEMMA LeaveKeeps ==
  ASSUME PathInv, NEW c \in Callers, Watch(c), Running(c, "walk"), LeaveDirectory(c),
         dirs' = dirs, files' = files, result' = result, crashed' = "no"
  PROVE  Own(c)
  <1>0. call[c] = "walk" /\ call[c] # "none"
    BY DEF Running
  <1>1. /\ Len(stack[c]) \in 1..StackLimit /\ stack[c] \in Seq(FrameType)
        /\ Len(stack[c]) \in Nat /\ Len(stack[c]) >= 1
    BY <1>0, TopIs
  <1>2. CASE Len(stack[c]) = 1
    <2>1. End(c) /\ TreeOK(dirs, files) /\ result' \in [Callers -> BOOLEAN]
      BY <1>2 DEF LeaveDirectory, PathInv, Types
    <2> QED  BY <2>1, EndIs
  <1>3. CASE Len(stack[c]) # 1
    <2> DEFINE st == Front(stack[c])
    <2>1. Len(stack[c]) > 1
      <3>1. \A k \in Nat : k >= 1 /\ k # 1 => k > 1
        BY Numbers
      <3> QED  BY <1>1, <1>3, <3>1
    <2>2. /\ st \in Seq(FrameType) /\ Len(st) = Len(stack[c]) - 1 /\ Len(st) >= 1
          /\ \A i \in 1..Len(st) : st[i] = stack[c][i] /\ i \in 1..Len(stack[c])
      BY <1>1, <2>1, FrontOfStack
    <2>3. stack' = [stack EXCEPT ![c] = st] /\ path' = path /\ call' = call /\ rescured' = rescured
      BY <1>3 DEF LeaveDirectory, argumentVars
    <2> HIDE DEF st
    <2>4. \A i \in 1..Len(st) : WalkFrame(st[i], i)
      BY <1>0, <2>2 DEF PathInv, Walking
    <2>5. Len(st) \in 1..StackLimit
      <3>1. \A k, l, m \in Nat : k = l - 1 /\ k >= 1 /\ l \in 1..m => k \in 1..m
        BY Numbers
      <3> QED  BY <1>1, <2>2, <3>1, Given
    <2> QED  BY <2>2, <2>3, <2>4, <2>5, WalkMoves
  <1> QED  BY <1>2, <1>3

LEMMA WalkCloseKeeps ==
  ASSUME PathInv, NEW c \in Callers, Watch(c), WalkClose(c)
  PROVE  Own(c)
  <1>1. /\ Running(c, "walk") /\ LeaveDirectory(c)
        /\ dirs' = dirs /\ files' = files /\ result' = result /\ crashed' = "no"
    BY DEF WalkClose, Running, treeVars
  <1> QED  BY <1>1, LeaveKeeps

\* The innermost frame is replaced.
LEMMA TopReplaced ==
  ASSUME PathInv, NEW c \in Callers, Running(c, "walk"), NEW f \in FrameType,
         WalkFrame(f, Len(stack[c]))
  PROVE  LET st == [stack[c] EXCEPT ![Len(stack[c])] = f]
         IN  /\ st \in Seq(FrameType) /\ Len(st) = Len(stack[c])
             /\ \A i \in 1..Len(st) : WalkFrame(st[i], i)
  <1> DEFINE n == Len(stack[c])
             st == [stack[c] EXCEPT ![n] = f]
  <1>0. call[c] = "walk" /\ call[c] # "none"
    BY DEF Running
  <1>1. n \in 1..StackLimit /\ stack[c] \in Seq(FrameType) /\ n \in Nat /\ n >= 1
    BY <1>0, TopIs
  <1>2. /\ st \in Seq(FrameType) /\ Len(st) = n
        /\ \A i \in 1..n : st[i] = IF i = n THEN f ELSE stack[c][i]
    BY <1>1
  <1>3. \A i \in 1..n : WalkFrame(stack[c][i], i)
    BY <1>0 DEF PathInv, Walking
  <1> HIDE DEF st
  <1>4. \A i \in 1..n : WalkFrame(st[i], i)
    BY <1>2, <1>3
  <1> QED  BY <1>2, <1>4 DEF st

LEMMA Belongs == \A x, S : (x \in S) \in BOOLEAN
  OBVIOUS

LEMMA WalkExistsKeeps ==
  ASSUME PathInv, NEW c \in Callers, Watch(c), WalkExists(c)
  PROVE  Own(c)
  <1> DEFINE n == Len(stack[c])
             f == [stack[c][n] EXCEPT !.at = "find"]
             st == [stack[c] EXCEPT ![n] = f]
  <1>1. /\ Running(c, "walk") /\ call[c] = "walk" /\ call[c] # "none" /\ Top(c).at = "open"
        /\ dirs' = dirs /\ files' = files /\ result' = result /\ crashed' = "no"
    BY DEF WalkExists, Running, treeVars
  <1>2. CASE ~Exists(Top(c).path)
    <2>1. LeaveDirectory(c)
      BY <1>2 DEF WalkExists
    <2> QED  BY <1>1, <2>1, LeaveKeeps
  <1>3. CASE Exists(Top(c).path)
    <2>1. /\ n \in 1..StackLimit /\ n \in Nat /\ n >= 1 /\ stack[c] \in Seq(FrameType)
          /\ Top(c) = stack[c][n] /\ Top(c) \in FrameType
      BY <1>1, TopIs
    <2>2. /\ f \in FrameType /\ f.path = stack[c][n].path /\ f.at = "find"
          /\ f.todo = stack[c][n].todo
      BY <2>1 DEF FrameType
    <2>3. /\ stack' = [stack EXCEPT ![c] = st]
          /\ path' = path /\ call' = call /\ rescured' = rescured
      BY <1>3 DEF WalkExists, Goto, argumentVars
    <2>4. WalkFrame(f, n)
      <3>1. WalkFrame(stack[c][n], n)
        BY <1>1, <2>1 DEF PathInv, Walking
      <3> HIDE DEF f, n
      <3> QED  BY <2>2, <3>1 DEF WalkFrame
    <2> HIDE DEF f
    <2>5. st \in Seq(FrameType) /\ Len(st) = n /\ \A i \in 1..Len(st) : WalkFrame(st[i], i)
      BY <1>1, <2>2, <2>4, TopReplaced
    <2>6. Len(st) \in 1..StackLimit
      BY <2>1, <2>5
    <2> HIDE DEF st
    <2> QED  BY <1>1, <2>3, <2>5, <2>6, WalkMoves
  <1> QED  BY <1>2, <1>3

LEMMA WalkOpenKeeps ==
  ASSUME PathInv, NEW c \in Callers, Watch(c), WalkOpen(c)
  PROVE  Own(c)
  <1> DEFINE place == Location(Top(c).path)
             n == Len(stack[c])
             entries == {[name |-> Last(child), dir |-> child \in dirs] : child \in Children(place)}
             f == [stack[c][n] EXCEPT !.at = "list", !.todo = entries]
             st == [stack[c] EXCEPT ![n] = f]
  <1>1. /\ Running(c, "walk") /\ call[c] = "walk" /\ call[c] # "none"
        /\ dirs' = dirs /\ files' = files /\ result' = result /\ crashed' = "no"
    BY DEF WalkOpen, Running, treeVars
  <1>2. CASE place \notin dirs
    <2>1. LeaveDirectory(c)
      BY <1>2 DEF WalkOpen
    <2> QED  BY <1>1, <2>1, LeaveKeeps
  <1>3. CASE place \in dirs
    <2>1. /\ n \in 1..StackLimit /\ n \in Nat /\ n >= 1 /\ stack[c] \in Seq(FrameType)
          /\ Top(c) = stack[c][n] /\ Top(c) \in FrameType
      BY <1>1, TopIs
    <2>2. TreeOK(dirs, files)
      BY DEF PathInv, Types
    <2>3. /\ place \in NamePath /\ Len(place) \in 1..StackLimit
          /\ \A child \in dirs \cup files : child \in NamePath /\ Len(child) \in 1..StackLimit
      BY <1>3, <2>2 DEF TreeOK
    <2>4. \A child \in Children(place) :
             Last(child) \in Name /\ Len(place) < StackLimit
      <3> TAKE child \in Children(place)
      <3>1. child \in NamePath /\ Len(child) \in 1..StackLimit /\ Front(child) = place
        BY <2>3 DEF Children
      <3>2. Len(child) >= 1 /\ Len(child) <= StackLimit
        BY <3>1, Given
      <3>3. Len(place) = Len(child) - 1 /\ child[Len(child)] \in Name
        BY <3>1, <3>2, FrontIs
      <3>4. Len(child) \in Nat
        BY <3>1, LengthIs
      <3> QED  BY <3>2, <3>3, <3>4, Given DEF Last
    <2>5. entries \in SUBSET Entry
      <3>1. \A name \in Name, d \in BOOLEAN : [name |-> name, dir |-> d] \in Entry
        BY DEF Entry
      <3>3. \A child \in Children(place) : [name |-> Last(child), dir |-> child \in dirs] \in Entry
        BY <2>4, <3>1, Belongs
      <3> QED  BY <3>3, Zenon
    <2>6. entries # {} => Len(place) < StackLimit
      BY <2>4
    <2> HIDE DEF entries
    <2>7. f \in FrameType /\ f.path = Top(c).path /\ f.at = "list" /\ f.todo = entries
      BY <2>1, <2>5 DEF FrameType
    <2>8. /\ stack' = [stack EXCEPT ![c] = st]
          /\ path' = path /\ call' = call /\ rescured' = rescured
      BY <1>3 DEF WalkOpen, argumentVars, entries
    <2>9. WalkFrame(f, n)
      <3>1. Len(place) >= n
        <4>1. CASE n = 1
          BY <2>3, <4>1
        <4>2. CASE n # 1
          <5>1. n > 1
            <6>1. \A k \in Nat : k >= 1 /\ k # 1 => k > 1
              BY Numbers
            <6> QED  BY <2>1, <4>2, <6>1
          <5>2. WalkFrame(stack[c][n], n)
            BY <1>1, <2>1 DEF PathInv, Walking
          <5> QED  BY <2>1, <5>1, <5>2 DEF WalkFrame
        <4> QED  BY <4>1, <4>2
      <3> HIDE DEF f, n
      <3> QED  BY <2>6, <2>7, <3>1 DEF WalkFrame
    <2> HIDE DEF f
    <2>10. st \in Seq(FrameType) /\ Len(st) = n /\ \A i \in 1..Len(st) : WalkFrame(st[i], i)
      BY <1>1, <2>7, <2>9, TopReplaced
    <2>11. Len(st) \in 1..StackLimit
      BY <2>1, <2>10
    <2> HIDE DEF st
    <2> QED  BY <1>1, <2>8, <2>10, <2>11, WalkMoves
  <1> QED  BY <1>2, <1>3

LEMMA WalkEntryKeeps ==
  ASSUME PathInv, NEW c \in Callers, Watch(c), WalkEntry(c)
  PROVE  Own(c)
  <1> DEFINE n == Len(stack[c])
             place == Location(Top(c).path)
  <1>1. /\ Running(c, "walk") /\ call[c] = "walk" /\ call[c] # "none" /\ Top(c).at = "list"
        /\ dirs' = dirs /\ files' = files /\ result' = result /\ crashed' = "no"
        /\ path' = path /\ call' = call /\ rescured' = rescured
    BY DEF WalkEntry, Running, treeVars, argumentVars
  <1>2. /\ n \in 1..StackLimit /\ n \in Nat /\ n >= 1 /\ stack[c] \in Seq(FrameType)
        /\ Top(c) = stack[c][n] /\ Top(c) \in FrameType /\ Top(c).path \in NamePath
    BY <1>1, TopIs
  <1>3. PICK entry \in Top(c).todo :
           LET rest == [stack[c] EXCEPT ![n].todo = @ \ {entry}]
           IN  stack' = [stack EXCEPT ![c] = IF entry.dir /\ rescured[c]
                                            THEN Append(rest, Frame(Join(Top(c).path, <<entry.name>>), "open"))
                                            ELSE rest]
    BY DEF WalkEntry
  <1> DEFINE f == [Top(c) EXCEPT !.todo = @ \ {entry}]
             rest == [stack[c] EXCEPT ![n] = f]
             new == Frame(Join(Top(c).path, <<entry.name>>), "open")
  <1>4. [stack[c] EXCEPT ![n].todo = @ \ {entry}] = rest
    BY <1>2
  <1>5. entry.name \in Name /\ Top(c).todo # {}
    BY <1>2 DEF FrameType, Entry
  <1>6. WalkFrame(Top(c), n)
    BY <1>1, <1>2 DEF PathInv, Walking
  <1>7. f \in FrameType /\ WalkFrame(f, n)
    <2>1. f \in FrameType /\ f.path = Top(c).path /\ f.at = Top(c).at /\ f.todo \subseteq Top(c).todo
      BY <1>2 DEF FrameType
    <2> HIDE DEF f
    <2>2. f.todo # {} => Top(c).todo # {}
      BY <2>1
    <2> QED  BY <1>6, <2>1, <2>2 DEF WalkFrame
  <1> HIDE DEF f
  <1>8. rest \in Seq(FrameType) /\ Len(rest) = n /\ \A i \in 1..Len(rest) : WalkFrame(rest[i], i)
    BY <1>1, <1>7, TopReplaced
  <1>9. CASE ~(entry.dir /\ rescured[c])
    <2>1. stack' = [stack EXCEPT ![c] = rest]
      BY <1>3, <1>4, <1>9
    <2> HIDE DEF rest
    <2> QED  BY <1>1, <1>2, <1>8, <2>1, WalkMoves
  <1>10. CASE entry.dir /\ rescured[c]
    <2> DEFINE st == Append(rest, new)
    <2>1. stack' = [stack EXCEPT ![c] = st]
      BY <1>3, <1>4, <1>10
    <2>2. Len(place) >= n /\ Len(place) < StackLimit
      BY <1>1, <1>5, <1>6 DEF WalkFrame
    <2>3. place \in NamePath /\ Len(place) \in Nat
      BY <1>2, LocationType, LengthIs
    <2>4. Top(c).path # <<>>
      <3>1. Len(place) >= 1 /\ Len(<<>>) = 0
        BY <1>2, <2>2, <2>3
      <3>2. place # <<>>
        BY <3>1
      <3> QED  BY <3>2, LocationOfEmpty
    <2> DEFINE below == Append(Top(c).path, entry.name)
    <2>5. Join(Top(c).path, <<entry.name>>) = below
      BY <1>2, <1>5, JoinIs
    <2>6. below \in NamePath /\ Location(below) = Append(place, entry.name)
      BY <1>2, <1>5, <2>4, LocationOfAppend
    <2>7. Len(Location(below)) = Len(place) + 1
      <3>1. place \in Seq(Name)
        BY <2>3 DEF NamePath
      <3> HIDE DEF place
      <3> QED  BY <1>5, <2>6, <3>1
    <2> HIDE DEF below, place
    <2>8. new = Frame(below, "open")
      BY <2>5
    <2>9. new \in FrameType /\ new.path = below /\ new.at = "open" /\ new.todo = {}
      BY <2>6, <2>8 DEF Frame, FrameType
    <2>10. n + 1 <= StackLimit /\ Len(Location(below)) >= n + 1
      <3>1. \A k, l, m \in Nat : l >= k /\ l < m => k + 1 <= m /\ l + 1 >= k + 1
        BY Numbers
      <3> QED  BY <1>2, <2>2, <2>3, <2>7, <3>1, Given
    <2> HIDE DEF new, rest
    <2>11. WalkFrame(new, n + 1)
      BY <2>9, <2>10 DEF WalkFrame
    <2>12. /\ st \in Seq(FrameType) /\ Len(st) = n + 1 /\ st[n + 1] = new
           /\ \A i \in 1..n : st[i] = rest[i]
      BY <1>2, <1>8, <2>9
    <2> HIDE DEF st
    <2>13. \A i \in 1..Len(st) : WalkFrame(st[i], i)
      <3> TAKE i \in 1..Len(st)
      <3>1. CASE i = n + 1
        BY <2>11, <2>12, <3>1
      <3>2. CASE i # n + 1
        <4>1. i \in 1..n
          BY <1>2, <2>12, <3>2
        <4> QED  BY <1>8, <2>12, <4>1
      <3> QED  BY <3>1, <3>2
    <2>14. Len(st) \in 1..StackLimit
      BY <1>2, <2>10, <2>12, Given
    <2> QED  BY <1>1, <2>1, <2>12, <2>13, <2>14, WalkMoves
  <1> QED  BY <1>9, <1>10

-----------------------------------------------------------------------------
LEMMA StepIsOwn ==
  ASSUME PathInv, NEW c \in Callers, Step(c), Watch(c)
  PROVE  Own(c)
  <1>1. CASE RemoveCall(c)
    BY <1>1, RemoveKeeps
  <1>2. CASE RenameCall(c)
    BY <1>2, RenameKeeps
  <1>3. CASE RenameNothing(c)
    BY <1>3, RenameNothingKeeps
  <1>4. CASE CreateCall(c)
    BY <1>4, CreateCallKeeps
  <1>5. CASE CreateParent(c)
    BY <1>5, CreateParentKeeps
  <1>6. CASE CreateSelf(c)
    BY <1>6, CreateSelfKeeps
  <1>7. CASE CreateMkdir(c)
    BY <1>7, CreateMkdirKeeps
  <1>8. CASE WalkCall(c)
    BY <1>8, WalkCallKeeps
  <1>9. CASE WalkExists(c) \/ WalkOpen(c)
    BY <1>9, WalkExistsKeeps, WalkOpenKeeps
  <1>10. CASE WalkEntry(c)
    BY <1>10, WalkEntryKeeps
  <1>11. CASE WalkClose(c)
    BY <1>11, WalkCloseKeeps
  <1> QED  BY <1>1, <1>2, <1>3, <1>4, <1>5, <1>6, <1>7, <1>8, <1>9, <1>10, <1>11 DEF Step

LEMMA StepPathInv ==
  ASSUME PathInv, NEW c \in Callers, Step(c), Watch(c)
  PROVE  PathInv'
  BY StepIsOwn, OwnSuffices

LEMMA NextPathInv == PathInv /\ [Next]_vars => PathInv'
  <1> SUFFICES ASSUME PathInv, [Next]_vars PROVE PathInv'
    OBVIOUS
  <1>1. CASE Next
    BY <1>1, StepPathInv DEF Next
  <1>2. CASE UNCHANGED vars
    <2>1. UNCHANGED <<dirs, files, path, call, stack, rescured, result, crashed, disturbed, rootless>>
      BY <1>2 DEF vars
    <2>2. Types' /\ Overflow'
      BY <2>1 DEF PathInv, Types, Overflow
    <2>3. ASSUME NEW c \in Callers PROVE Fits(c)' /\ Creating(c)' /\ Walking(c)'
      <3>1. Fits(c) /\ Creating(c) /\ Walking(c)
        BY DEF PathInv
      <3> QED  BY <2>1, <3>1 DEF Fits, Creating, Walking, StillSo, Exists, Top
    <2> QED  BY <2>2, <2>3 DEF PathInv
  <1> QED  BY <1>1, <1>2

-----------------------------------------------------------------------------
LEMMA PathInvAlways == Spec => []PathInv
  BY InitPathInv, NextPathInv, PTL DEF Spec

LEMMA NowhereIs == PathInv => <<>> \notin dirs \cup files
  <1> SUFFICES ASSUME PathInv, <<>> \in dirs \cup files PROVE FALSE
    OBVIOUS
  <1>1. Len(<<>>) \in 1..StackLimit
    BY DEF PathInv, Types, TreeOK
  <1>2. Len(<<>>) = 0
    OBVIOUS
  <1> QED  BY <1>1, <1>2, Given

LEMMA FrameAt == \A s \in Seq(FrameType) : \A i \in DOMAIN s : s[i] \in FrameType
  OBVIOUS

LEMMA PathInvMeans == PathInv => OverflowsAtTheTop
  <1> SUFFICES ASSUME PathInv PROVE OverflowsAtTheTop
    OBVIOUS
  <1>1. Types /\ Overflow /\ \A c \in Callers : Fits(c)
    BY DEF PathInv
  <1>2. \A place \in dirs \cup files : place # <<>> /\ Reachable(place)
    BY <1>1, NowhereIs DEF Types, TreeOK, Reachable
  <1>3. ASSUME NEW c \in Callers, NEW i \in DOMAIN stack[c]
        PROVE  stack[c][i].at \in {"parent", "self", "mkdir", "open", "find", "list"}
    <2>1. stack[c] \in Seq(FrameType)
      BY <1>1 DEF Types
    <2>2. stack[c][i] \in FrameType
      BY <1>3, <2>1, FrameAt
    <2> QED  BY <2>2 DEF FrameType
  <1>4. TypeOK
    BY <1>1, <1>2, <1>3 DEF TypeOK, Types, Fits, TreeOK
  <1> QED  BY <1>1, <1>4 DEF OverflowsAtTheTop, Overflow

\* In every file system, with every number of callers and every room on the stack: the
\* state is well-typed, and CreatePath(true) recurses for ever only at the top of a path
\* (Path.cpp 291-310).
THEOREM OverflowsOnlyAtTheTop == Spec => []OverflowsAtTheTop
  BY PathInvAlways, PathInvMeans, PTL
-----------------------------------------------------------------------------
LEMMA FrontOfAppend ==
  ASSUME NEW s \in NamePath, s # <<>>, NEW e \in Name
  PROVE  Front(Append(s, e)) = s /\ Len(Append(s, e)) > 1
  BY DEF Front, NamePath

\* The location of a parent.
LEMMA LocationOfParent ==
  ASSUME NEW names \in NamePath, Location(Parent(names)) # <<>>
  PROVE  /\ Len(names) > 1
         /\ Location(Parent(names)) = Front(Location(names))
         /\ Len(Location(names)) > 1
  <1>1. Len(names) \in Nat
    BY LengthIs
  <1>2. Parent(names) # <<>>
    BY LocationOfEmpty
  <1>3. names # <<>> /\ Parent(names) = Front(names)
    BY <1>2, ParentIs
  <1>4. Len(names) >= 1
    BY <1>1, <1>3 DEF NamePath
  <1>5. /\ Front(names) \in NamePath /\ Len(Front(names)) = Len(names) - 1
        /\ names = Append(Front(names), names[Len(names)]) /\ names[Len(names)] \in Name
    BY <1>4, FrontIs
  <1> DEFINE above == Front(names)
             last == names[Len(names)]
             place == Location(above)
  <1>6. Location(names) = Append(place, last) /\ place \in NamePath
    BY <1>2, <1>3, <1>5, LocationOfAppend, LocationType
  <1>7. Len(names) > 1
    <2>1. Len(above) # 0
      BY <1>2, <1>3, <1>5 DEF NamePath
    <2> QED  BY <1>1, <1>4, <1>5, <2>1
  <1>8. last \in Name /\ place # <<>> /\ place = Location(Parent(names))
    BY <1>3, <1>5
  <1> HIDE DEF place, last
  <1>9. Front(Append(place, last)) = place /\ Len(Append(place, last)) > 1
    BY <1>6, <1>8, FrontOfAppend
  <1> QED  BY <1>6, <1>7, <1>8, <1>9

\* The path that CreatePath fails to make.
LEMMA FailsHonestly ==
  ASSUME PathInv, NEW c \in Callers, Running(c, "create"), Top(c).at = "mkdir", ~disturbed[c],
         ~CanMake(Location(Top(c).path))
  PROVE  FileInTheWay(Location(path[c])) \/ (~rescured[c] /\ ~Exists(Parent(path[c])))
  <1> DEFINE n == Len(stack[c])
             names == Top(c).path
             place == Location(names)
  <1>1. call[c] = "create" /\ call[c] # "none"
    BY DEF Running
  <1>2. /\ n \in Nat /\ n >= 1 /\ n \in 1..Len(stack[c])
        /\ Top(c) = stack[c][n] /\ names \in NamePath
    BY <1>1, TopIs
  <1>3. TreeOK(dirs, files) /\ Creating(c) /\ path[c] \in NamePath /\ rescured[c] \in BOOLEAN
    BY DEF PathInv, Types
  <1>4. /\ names = Above(path[c], n)
        /\ ~rescured[c] => n = 1
        /\ ~Exists(names)
        /\ rescured[c] => Exists(Parent(names))
    BY <1>1, <1>2, <1>3 DEF Creating, StillSo
  <1>5. CASE ~Exists(Parent(names))
    <2>1. ~rescured[c] /\ names = path[c]
      BY <1>2, <1>3, <1>4, <1>5, AboveIs
    <2> QED  BY <1>5, <2>1
  <1>6. CASE Exists(Parent(names))
    <2> DEFINE parent == Parent(names)
    <2>1. Location(parent) \in dirs \cup files /\ Location(parent) # <<>>
      BY <1>6, NowhereIs DEF Exists
    <2>2. Len(names) > 1 /\ Location(parent) = Front(place) /\ Len(place) > 1
      BY <1>2, <2>1, LocationOfParent
    <2>3. place # <<>> /\ Len(place) # 1
      <3>1. Len(<<>>) = 0
        OBVIOUS
      <3>2. Len(place) \in Nat
        BY <1>2, LocationType, LengthIs
      <3>3. Len(place) # 0 /\ Len(place) # 1
        <4>1. \A k \in Nat : k > 1 => k # 0 /\ k # 1
          OBVIOUS
        <4> QED  BY <2>2, <3>2, <4>1
      <3> QED  BY <3>1, <3>3
    <2>4. Front(place) \notin dirs
      BY <1>4, <2>3 DEF CanMake, IsDrive, Reachable, Exists
    <2>5. Location(parent) \in files
      BY <2>1, <2>2, <2>4
    <2>6. parent = Above(path[c], n + 1)
      <3>1. Parent(Above(path[c], n)) = Above(path[c], n + 1)
        BY <1>2, <1>3, AboveIs
      <3> QED  BY <1>4, <3>1
    <2>7. parent # <<>>
      BY <2>1, LocationOfEmpty
    <2> DEFINE k == Len(path[c]) - n
    <2>8. k \in 1..Len(path[c]) /\ k < Len(path[c]) /\ parent = SubSeq(path[c], 1, k)
      <3>1. n + 1 <= Len(path[c]) /\ parent = SubSeq(path[c], 1, Len(path[c]) - (n + 1) + 1)
        BY <2>6, <2>7 DEF Above
      <3>2. Len(path[c]) \in Nat
        BY <1>3, LengthIs
      <3>3. \A l, m \in Nat : m >= 1 /\ m + 1 <= l =>
                l - m \in 1..l /\ l - m < l /\ l - (m + 1) + 1 = l - m
        OBVIOUS
      <3> QED  BY <1>2, <3>1, <3>2, <3>3
    <2> HIDE DEF k
    <2>9. PICK m \in 0..Len(Location(path[c])) :
             /\ Location(parent) = SubSeq(Location(path[c]), 1, m)
             /\ Len(Location(parent)) = m
             /\ m < Len(Location(path[c]))
      BY <1>3, <2>8, LocationAbove
    <2>10. Len(Location(parent)) \in 1..StackLimit
      BY <1>3, <2>5 DEF TreeOK
    <2>11. Len(Location(path[c])) \in Nat
      BY <1>3, LocationType, LengthIs
    <2>12. m \in 1..(Len(Location(path[c])) - 1)
      <3>1. \A i, l \in Nat : i >= 1 /\ i < l => i \in 1..(l - 1)
        OBVIOUS
      <3>2. m >= 1 /\ m \in Nat
        BY <2>9, <2>10, <2>11, Given
      <3> QED  BY <2>9, <2>11, <3>1, <3>2
    <2>13. SubSeq(Location(path[c]), 1, m) \in files
      BY <2>5, <2>9
    <2> QED  BY <2>12, <2>13 DEF FileInTheWay
  <1> QED  BY <1>5, <1>6

\* The call of c returns rv.
LEMMA Returned ==
  ASSUME PathInv, NEW c \in Callers, NEW rv \in BOOLEAN, ReturnFrom(c, rv), Ends(c, "create")
  PROVE  /\ result'[c] = rv
         /\ rv => Top(c).path = path[c]
  <1>1. call[c] = "create" /\ call[c] # "none" /\ call'[c] = "none"
    BY DEF Ends
  <1>2. ~(rv /\ Len(stack[c]) > 1) /\ result' = [result EXCEPT ![c] = rv]
    BY <1>1 DEF ReturnFrom
  <1>3. result'[c] = rv
    BY <1>2 DEF PathInv, Types
  <1>4. ASSUME rv PROVE Top(c).path = path[c]
    <2>1. /\ Len(stack[c]) \in Nat /\ Len(stack[c]) >= 1 /\ Len(stack[c]) \in 1..Len(stack[c])
          /\ Top(c) = stack[c][Len(stack[c])]
      BY <1>1, TopIs
    <2>2. Len(stack[c]) = 1
      <3>1. \A k \in Nat : k >= 1 /\ ~(k > 1) => k = 1
        OBVIOUS
      <3> QED  BY <1>2, <1>4, <2>1, <3>1
    <2>3. Top(c).path = Above(path[c], 1) /\ path[c] \in NamePath
      BY <1>1, <2>1, <2>2 DEF PathInv, Types, Creating
    <2> QED  BY <2>3, AboveIs
  <1> QED  BY <1>3, <1>4

HonestEnd(c) ==
    IF result'[c] THEN Location(path[c]) \in dirs' \cup files'
    ELSE \/ disturbed[c]
         \/ FileInTheWay(Location(path[c]))
         \/ ~rescured[c] /\ ~Exists(Parent(path[c]))

LEMMA OwnEndIsHonest ==
  ASSUME PathInv, NEW c \in Callers, Step(c), Ends(c, "create")
  PROVE  HonestEnd(c)
  <1>1. call[c] = "create" /\ call'[c] = "none"
    BY DEF Ends
  <1>2. CreateSelf(c) \/ CreateMkdir(c)
    BY <1>1 DEF Step, RemoveCall, RenameCall, RenameNothing, CreateCall, CreateParent, WalkCall,
                WalkExists, WalkOpen, WalkEntry, WalkClose, Idle, Begin, Running
  <1>3. CASE CreateSelf(c)
    <2>1. Exists(Top(c).path) /\ ReturnFrom(c, TRUE)
      BY <1>1, <1>3 DEF CreateSelf
    <2>2. result'[c] = TRUE /\ Top(c).path = path[c]
      BY <2>1, Returned
    <2>3. dirs' = dirs /\ files' = files
      BY <1>3 DEF CreateSelf, treeVars
    <2> QED  BY <2>1, <2>2, <2>3 DEF HonestEnd, Exists
  <1>4. CASE CreateMkdir(c)
    <2> DEFINE place == Location(Top(c).path)
    <2>1. CASE CanMake(place)
      <3>1. dirs' = dirs \cup {place} /\ ReturnFrom(c, TRUE)
        BY <1>4, <2>1 DEF CreateMkdir
      <3>2. result'[c] = TRUE /\ Top(c).path = path[c]
        BY <3>1, Returned
      <3> QED  BY <3>1, <3>2 DEF HonestEnd
    <2>2. CASE ~CanMake(place)
      <3>1. ReturnFrom(c, FALSE) /\ Running(c, "create") /\ Top(c).at = "mkdir"
        BY <1>4, <2>2 DEF CreateMkdir
      <3>2. result'[c] = FALSE
        BY <3>1, Returned
      <3> QED  BY <2>2, <3>1, <3>2, FailsHonestly DEF HonestEnd
    <2> QED  BY <2>1, <2>2
  <1> QED  BY <1>2, <1>3, <1>4

\* In every file system and with every number of callers: what CreatePath returns is true
\* of the file system, or can be put down to what others did meanwhile (Path.cpp 291-310).
THEOREM CreatesHonestly == Spec => CreationIsHonest
  <1>1. ASSUME PathInv, [Next]_vars
        PROVE  [\A c \in Callers : Ends(c, "create") => HonestEnd(c)]_vars
    <2> SUFFICES ASSUME Next, NEW c \in Callers, Ends(c, "create") PROVE HonestEnd(c)
      BY <1>1
    <2>1. PICK s \in Callers : Step(s) /\ Watch(s)
      BY DEF Next
    <2>2. CASE s = c
      BY <1>1, <2>1, <2>2, OwnEndIsHonest
    <2>3. CASE s # c
      <3>1. call'[c] = call[c]
        BY <1>1, <2>1, <2>3, StepIsOwn DEF Own, Others
      <3> QED  BY <3>1 DEF Ends
    <2> QED  BY <2>2, <2>3
  <1>2. [\A c \in Callers : Ends(c, "create") => HonestEnd(c)]_vars
        => [\A c \in Callers : Ends(c, "create") =>
              IF result'[c] THEN Location(path[c]) \in dirs' \cup files'
              ELSE \/ disturbed[c]
                   \/ FileInTheWay(Location(path[c]))
                   \/ ~rescured[c] /\ ~Exists(Parent(path[c]))]_vars
    BY DEF HonestEnd
  <1> QED  BY <1>1, <1>2, PathInvAlways, PTL DEF Spec, CreationIsHonest

-----------------------------------------------------------------------------
\* What the pattern of GetSubPaths becomes, and what that matches.
\* What holds of a number, and of the one behind each for which it holds, holds up to n.
LEMMA NumbersAre ==
  ASSUME NEW n \in Nat, NEW T, 0 \in T, \A i \in 0..(n - 1) : i \in T => i + 1 \in T
  PROVE  0..n \subseteq T
  <1> DEFINE Missing == {i \in 0..n : i \notin T}
  <1>1. ASSUME Missing # {} PROVE FALSE
    <2>1. Missing \in SUBSET Nat
      OBVIOUS
    <2>2. PICK i \in Missing : \A y \in Missing : i <= y
      BY <1>1, <2>1, LeastIs
    <2>3. i \in 0..n /\ i \notin T /\ i # 0
      BY <2>2
    <2>4. i - 1 \in 0..(n - 1) /\ (i - 1) + 1 = i /\ i - 1 \in 0..n /\ ~(i <= i - 1)
      BY <2>3
    <2>5. i - 1 \in T
      BY <2>2, <2>4
    <2> QED  BY <2>3, <2>4, <2>5
  <1> QED  BY <1>1

\* A function on the numbers from lo to n exists that is defined at each of them by its
\* values at those behind.
LooksAhead(step, V, lo, n) ==
    /\ step \in [[lo..n -> V] \X (lo..n) -> V]
    /\ \A g, h \in [lo..n -> V], i \in lo..n :
          (\A j \in (i + 1)..n : g[j] = h[j]) => step[<<g, i>>] = step[<<h, i>>]

LEMMA Backwards ==
  ASSUME NEW V, NEW v \in V, NEW lo \in Int, NEW n \in Int, lo <= n,
         NEW step, LooksAhead(step, V, lo, n)
  PROVE  \E f \in [lo..n -> V] : \A i \in lo..n : f[i] = step[<<f, i>>]
  <1> DEFINE D == lo..n
             F == [D -> V]
             From(k, f) == \A i \in (n - k + 1)..n : f[i] = step[<<f, i>>]
             T == {k \in 0..(n - lo + 1) : \E f \in F : From(k, f)}
  <1>0. /\ step \in [F \X D -> V]
        /\ \A g, h \in F, i \in D :
              (\A j \in (i + 1)..n : g[j] = h[j]) => step[<<g, i>>] = step[<<h, i>>]
    BY DEF LooksAhead
  <1>1. 0 \in T
    <2>1. [i \in D |-> v] \in F
      OBVIOUS
    <2>2. From(0, [i \in D |-> v])
      OBVIOUS
    <2>3. 0 \in 0..(n - lo + 1)
      OBVIOUS
    <2> HIDE DEF From, F
    <2> QED  BY <2>1, <2>2, <2>3
  <1>2. ASSUME NEW k \in 0..(n - lo + 1 - 1), k \in T PROVE k + 1 \in T
    <2> DEFINE m == n - k
    <2>1. PICK f \in F : From(k, f)
      BY <1>2
    <2>2. m \in D /\ k + 1 \in 0..(n - lo + 1) /\ n - (k + 1) + 1 = m /\ n - k + 1 = m + 1
      BY <1>2
    <2>3. \A i \in m..n : i \in D /\ (i = m \/ i \in (m + 1)..n)
      BY <2>2
    <2> HIDE DEF m
    <2> DEFINE x == step[<<f, m>>]
               g == [f EXCEPT ![m] = x]
    <2>4. x \in V
      BY <1>0, <2>1, <2>2
    <2>5. g \in F /\ g[m] = x /\ \A i \in D : i # m => g[i] = f[i]
      BY <2>1, <2>2, <2>4
    <2> HIDE DEF g
    <2>6. ASSUME NEW i \in m..n PROVE step[<<f, i>>] = step[<<g, i>>]
      <3>1. \A j \in (i + 1)..n : j \in D /\ j # m
        BY <2>2, <2>3
      <3>2. \A j \in (i + 1)..n : f[j] = g[j]
        BY <2>5, <3>1
      <3>3. i \in D /\ f \in F /\ g \in F
        BY <2>1, <2>3, <2>5
      <3> HIDE DEF T
      <3> QED  BY <1>0, <3>2, <3>3
    <2>7. ASSUME NEW i \in m..n PROVE g[i] = step[<<g, i>>]
      <3>1. CASE i = m
        BY <2>5, <2>6, <3>1
      <3>2. CASE i # m
        <4>1. i \in (m + 1)..n /\ i \in D
          BY <2>3, <3>2
        <4>2. f[i] = step[<<f, i>>]
          BY <2>1, <2>2, <4>1
        <4> QED  BY <2>5, <2>6, <3>2, <4>1, <4>2
      <3> QED  BY <3>1, <3>2
    <2>8. From(k + 1, g)
      BY <2>2, <2>7
    <2> HIDE DEF From, F
    <2> QED  BY <2>2, <2>5, <2>8
  <1> HIDE DEF T
  <1>3. n - lo + 1 \in T
    <2>1. n - lo + 1 \in Nat /\ n - lo + 1 \in 0..(n - lo + 1)
      OBVIOUS
    <2>2. 0..(n - lo + 1) \subseteq T
      BY <1>1, <1>2, <2>1, NumbersAre
    <2> QED  BY <2>1, <2>2
  <1>4. PICK f \in F : From(n - lo + 1, f)
    BY <1>3 DEF T
  <1>5. n - (n - lo + 1) + 1 = lo
    OBVIOUS
  <1> QED  BY <1>4, <1>5

\* Sequences in a row.
Flattening(ss, f) ==
    /\ f = [i \in 1..Len(ss) |-> f[i]]
    /\ \A i \in 1..Len(ss) : f[i] = IF i = 1 THEN ss[i] ELSE f[i - 1] \o ss[i]

LEMMA FlatteningType ==
  ASSUME NEW S, NEW ss \in Seq(Seq(S)), NEW f, Flattening(ss, f), NEW i \in 1..Len(ss)
  PROVE  f[i] \in Seq(S)
  <1> DEFINE n == Len(ss)
             T == {k \in 0..n : k > 0 => f[k] \in Seq(S)}
  <1>1. n \in Nat /\ 0 \in T
    OBVIOUS
  <1>2. ASSUME NEW k \in 0..(n - 1), k \in T PROVE k + 1 \in T
    <2>1. k + 1 \in 1..n /\ k + 1 \in 0..n /\ (k + 1) - 1 = k /\ ss[k + 1] \in Seq(S)
      BY <1>1
    <2>2. f[k + 1] = IF k + 1 = 1 THEN ss[k + 1] ELSE f[k] \o ss[k + 1]
      BY <2>1 DEF Flattening
    <2>3. k + 1 = 1 \/ (k > 0 /\ f[k] \in Seq(S))
      BY <1>1, <1>2
    <2>4. f[k + 1] \in Seq(S)
      BY <2>1, <2>2, <2>3
    <2> QED  BY <2>1, <2>4
  <1> HIDE DEF T
  <1>3. 0..n \subseteq T
    BY <1>1, <1>2, NumbersAre
  <1>4. i \in T /\ i > 0
    BY <1>3
  <1> QED  BY <1>4 DEF T

LEMMA FlatteningOnce ==
  ASSUME NEW S, NEW ss \in Seq(Seq(S)), NEW f, NEW g, Flattening(ss, f), Flattening(ss, g)
  PROVE  \A i \in 1..Len(ss) : f[i] = g[i]
  <1> DEFINE n == Len(ss)
             T == {k \in 0..n : k > 0 => f[k] = g[k]}
  <1>1. n \in Nat /\ 0 \in T
    OBVIOUS
  <1>2. ASSUME NEW k \in 0..(n - 1), k \in T PROVE k + 1 \in T
    <2>1. k + 1 \in 1..n /\ k + 1 \in 0..n /\ (k + 1) - 1 = k
      BY <1>1
    <2>2. /\ f[k + 1] = IF k + 1 = 1 THEN ss[k + 1] ELSE f[k] \o ss[k + 1]
          /\ g[k + 1] = IF k + 1 = 1 THEN ss[k + 1] ELSE g[k] \o ss[k + 1]
      BY <2>1 DEF Flattening
    <2>3. k + 1 = 1 \/ f[k] = g[k]
      BY <1>1, <1>2
    <2> QED  BY <2>1, <2>2, <2>3
  <1> HIDE DEF T
  <1>3. 0..n \subseteq T
    BY <1>1, <1>2, NumbersAre
  <1>4. \A i \in 1..n : i \in T /\ i > 0
    BY <1>3
  <1> QED  BY <1>4 DEF T

LEMMA FlatteningOfAppend ==
  ASSUME NEW S, NEW ss \in Seq(Seq(S)), NEW s \in Seq(S), NEW f, Flattening(ss, f)
  PROVE  LET n == Len(ss)
             last == IF n = 0 THEN s ELSE f[n] \o s
         IN  Flattening(Append(ss, s), [i \in 1..(n + 1) |-> IF i = n + 1 THEN last ELSE f[i]])
  <1> DEFINE n == Len(ss)
             last == IF n = 0 THEN s ELSE f[n] \o s
             more == Append(ss, s)
             g == [i \in 1..(n + 1) |-> IF i = n + 1 THEN last ELSE f[i]]
  <1>1. n \in Nat /\ Len(more) = n + 1 /\ more[n + 1] = s /\ \A i \in 1..n : more[i] = ss[i]
    OBVIOUS
  <1>2. g = [i \in 1..(n + 1) |-> g[i]] /\ g[n + 1] = last /\ \A i \in 1..n : g[i] = f[i]
    BY <1>1
  <1> HIDE DEF g, more
  <1>3. ASSUME NEW i \in 1..(n + 1) PROVE g[i] = IF i = 1 THEN more[i] ELSE g[i - 1] \o more[i]
    <2>1. CASE i = n + 1
      <3>1. CASE n = 0
        BY <1>1, <1>2, <2>1, <3>1
      <3>2. CASE n # 0
        <4>1. n \in 1..n /\ i # 1 /\ i - 1 = n
          BY <1>1, <2>1, <3>2
        <4> QED  BY <1>1, <1>2, <2>1, <3>2, <4>1
      <3> QED  BY <3>1, <3>2
    <2>2. CASE i # n + 1
      <3>1. i \in 1..n /\ (i # 1 => i - 1 \in 1..n)
        BY <1>1, <2>2
      <3> QED  BY <1>1, <1>2, <3>1 DEF Flattening
    <2> QED  BY <2>1, <2>2
  <1>4. Flattening(more, g)
    BY <1>1, <1>2, <1>3 DEF Flattening
  <1> QED  BY <1>4 DEF g, more

LEMMA FlatteningExists ==
  ASSUME NEW S, NEW ss \in Seq(Seq(S))
  PROVE  \E f : Flattening(ss, f)
  <1> DEFINE T == {t \in Seq(Seq(S)) : \E f : Flattening(t, f)}
  <1>1. <<>> \in T
    <2> DEFINE f == [i \in 1..0 |-> <<>>]
    <2>1. Flattening(<<>>, f)
      <3>1. f = [i \in 1..0 |-> f[i]] /\ Len(<<>>) = 0 /\ ~(\E i \in 1..0 : TRUE)
        OBVIOUS
      <3> HIDE DEF f
      <3> QED  BY <3>1 DEF Flattening
    <2> QED  BY <2>1
  <1>2. ASSUME NEW s \in Seq(Seq(S)), NEW e \in Seq(S), s \in T PROVE Append(s, e) \in T
    <2>1. PICK f : Flattening(s, f)
      BY <1>2
    <2>2. \E g : Flattening(Append(s, e), g)
      BY <2>1, FlatteningOfAppend
    <2> QED  BY <2>2
  <1> HIDE DEF T
  <1>3. ss \in T
    BY <1>1, <1>2, SequencesAre
  <1> QED  BY <1>3 DEF T

LEMMA FlattenIs ==
  ASSUME NEW S, NEW ss \in Seq(Seq(S)), NEW f, Flattening(ss, f)
  PROVE  FlattenSeq(ss) = IF ss = <<>> THEN <<>> ELSE f[Len(ss)]
  <1>1. CASE ss = <<>>
    BY <1>1 DEF FlattenSeq
  <1>2. CASE ss # <<>>
    <2> DEFINE is(g) == g = [i \in 1..Len(ss) |-> IF i = 1 THEN ss[i] ELSE g[i - 1] \o ss[i]]
               flatten == CHOOSE g : is(g)
    <2>1. Len(ss) # 0 /\ Len(ss) \in 1..Len(ss)
      BY <1>2
    <2>2. FlattenSeq(ss) = flatten[Len(ss)]
      BY <2>1, Zenon DEF FlattenSeq
    <2>3. is(f)
      <3> DEFINE h == [i \in 1..Len(ss) |-> f[i]]
                 k == [i \in 1..Len(ss) |-> IF i = 1 THEN ss[i] ELSE f[i - 1] \o ss[i]]
      <3>1. \A i \in 1..Len(ss) : f[i] = IF i = 1 THEN ss[i] ELSE f[i - 1] \o ss[i]
        BY DEF Flattening
      <3>2. h = k
        BY <3>1
      <3>3. is(h)
        <4>1. \A i \in 1..Len(ss) : i # 1 => h[i - 1] = f[i - 1]
          OBVIOUS
        <4>2. \A i \in 1..Len(ss) : (IF i = 1 THEN ss[i] ELSE f[i - 1] \o ss[i]) = (IF i = 1 THEN ss[i] ELSE h[i - 1] \o ss[i])
          BY <4>1
        <4> HIDE DEF h
        <4>3. k = [i \in 1..Len(ss) |-> IF i = 1 THEN ss[i] ELSE h[i - 1] \o ss[i]]
          BY <4>2
        <4> QED  BY <3>2, <4>3
      <3>4. f = h
        BY DEF Flattening
      <3> HIDE DEF h, is
      <3> QED  BY <3>3, <3>4
    <2>4. is(flatten)
      <3> HIDE DEF is
      <3> QED  BY <2>3
    <2> HIDE DEF flatten
    <2>5. Flattening(ss, flatten)
      <3> DEFINE w(i) == IF i = 1 THEN ss[i] ELSE flatten[i - 1] \o ss[i]
      <3>1. flatten = [i \in 1..Len(ss) |-> w(i)]
        BY <2>4
      <3> HIDE DEF w
      <3>2. flatten = [i \in 1..Len(ss) |-> flatten[i]] /\ \A i \in 1..Len(ss) : flatten[i] = w(i)
        BY <3>1
      <3> QED  BY <3>2 DEF Flattening, w
    <2>6. flatten[Len(ss)] = f[Len(ss)]
      BY <2>1, <2>5, FlatteningOnce
    <2> QED  BY <1>2, <2>2, <2>6
  <1> QED  BY <1>1, <1>2

LEMMA FlattenOfAppend ==
  ASSUME NEW S, NEW ss \in Seq(Seq(S)), NEW s \in Seq(S)
  PROVE  /\ FlattenSeq(ss) \in Seq(S)
         /\ FlattenSeq(Append(ss, s)) = FlattenSeq(ss) \o s
  <1> DEFINE n == Len(ss)
  <1>1. PICK f : Flattening(ss, f)
    BY FlatteningExists
  <1> DEFINE last == IF n = 0 THEN s ELSE f[n] \o s
             g == [i \in 1..(n + 1) |-> IF i = n + 1 THEN last ELSE f[i]]
             more == Append(ss, s)
  <1>2. n \in Nat /\ more \in Seq(Seq(S)) /\ more # <<>> /\ Len(more) = n + 1 /\ n + 1 \in 1..(n + 1)
    <2>1. n \in Nat /\ more \in Seq(Seq(S)) /\ Len(more) = n + 1
      OBVIOUS
    <2>2. n + 1 # 0 /\ n + 1 \in 1..(n + 1)
      BY <2>1
    <2>3. more # <<>>
      BY <2>1, <2>2
    <2> QED  BY <2>1, <2>2, <2>3
  <1>3. Flattening(more, g)
    BY <1>1, FlatteningOfAppend
  <1>4. g[n + 1] = last
    BY <1>2
  <1> HIDE DEF g, last, more
  <1>5. FlattenSeq(more) = last
    BY <1>2, <1>3, <1>4, FlattenIs
  <1>6. FlattenSeq(ss) = IF ss = <<>> THEN <<>> ELSE f[n]
    BY <1>1, FlattenIs
  <1>7. CASE ss = <<>>
    <2>1. n = 0 /\ <<>> \o s = s
      BY <1>7
    <2>2. <<>> \in Seq(S)
      OBVIOUS
    <2> QED  BY <1>5, <1>6, <1>7, <2>1, <2>2 DEF last, more
  <1>8. CASE ss # <<>>
    <2>1. n # 0 /\ n \in 1..Len(ss)
      BY <1>8
    <2>2. f[n] \in Seq(S)
      BY <1>1, <2>1, FlatteningType
    <2> QED  BY <1>5, <1>6, <1>8, <2>1, <2>2 DEF last, more
  <1> QED  BY <1>7, <1>8
\* One text after another, and one more element.
Cat(a, b) == a \o b
With(s, e) == Append(s, e)
One(e) == <<e>>

LEMMA CatType ==
  ASSUME NEW S, NEW a \in Seq(S), NEW b \in Seq(S)
  PROVE  Cat(a, b) \in Seq(S)
  BY DEF Cat

LEMMA CatLen ==
  ASSUME NEW S, NEW a \in Seq(S), NEW b \in Seq(S)
  PROVE  Len(a) \in Nat /\ Len(b) \in Nat /\ Len(Cat(a, b)) = Len(a) + Len(b)
  <1>1. Len(a) \in Nat /\ Len(b) \in Nat
    OBVIOUS
  <1> QED  BY <1>1, ConcatIs DEF Cat

LEMMA CatLeft ==
  ASSUME NEW S, NEW a \in Seq(S), NEW b \in Seq(S), NEW i \in 1..Len(a)
  PROVE  Cat(a, b)[i] = a[i]
  BY ConcatIs DEF Cat

LEMMA CatRight ==
  ASSUME NEW S, NEW a \in Seq(S), NEW b \in Seq(S), NEW i \in 1..Len(b)
  PROVE  Cat(a, b)[Len(a) + i] = b[i]
  BY ConcatIs DEF Cat

LEMMA CatAssociates ==
  ASSUME NEW S, NEW a \in Seq(S), NEW b \in Seq(S), NEW c \in Seq(S)
  PROVE  Cat(Cat(a, b), c) = Cat(a, Cat(b, c))
  BY DEF Cat

LEMMA CatOfNothing ==
  ASSUME NEW S, NEW a \in Seq(S)
  PROVE  Cat(a, <<>>) = a /\ Cat(<<>>, a) = a
  BY DEF Cat

LEMMA NothingIs ==
  ASSUME NEW S
  PROVE  <<>> \in Seq(S) /\ Len(<<>>) = 0
  OBVIOUS

LEMMA WithIs ==
  ASSUME NEW S, NEW s \in Seq(S), NEW e \in S
  PROVE  /\ With(s, e) \in Seq(S) /\ With(s, e) # <<>> /\ One(e) \in Seq(S) /\ One(e) # <<>>
         /\ With(s, e) = Cat(s, One(e)) /\ One(e) = With(<<>>, e)
         /\ Len(s) \in Nat /\ Len(With(s, e)) = Len(s) + 1 /\ With(s, e)[Len(s) + 1] = e
         /\ \A i \in 1..Len(s) : With(s, e)[i] = s[i] /\ s[i] \in S
  <1>1. Len(With(s, e)) = Len(s) + 1 /\ Len(s) \in Nat
    BY DEF With
  <1>2. With(s, e) # <<>>
    BY <1>1
  <1>3. One(e) # <<>>
    BY DEF One
  <1>4. \A i \in 1..Len(s) : With(s, e)[i] = s[i] /\ s[i] \in S
    BY DEF With
  <1> QED  BY <1>1, <1>2, <1>3, <1>4 DEF With, One, Cat

LEMMA OneIs ==
  ASSUME NEW S, NEW e \in S
  PROVE  One(e) \in Seq(S) /\ One(e) # <<>>
  <1>1. <<>> \in Seq(S)
    BY NothingIs
  <1> QED  BY <1>1, WithIs

LEMMA CatOfWith ==
  ASSUME NEW S, NEW a \in Seq(S), NEW b \in Seq(S), NEW e \in S
  PROVE  Cat(a, With(b, e)) = With(Cat(a, b), e)
  BY DEF Cat, With

LEMMA CatOfOne ==
  ASSUME NEW S, NEW a \in S, NEW b \in Seq(S)
  PROVE  Cat(One(a), b) \in Seq(S) /\ Cat(One(a), b) # <<>>
  <1>1. One(a) \in Seq(S) /\ Len(One(a)) = 1
    BY DEF One
  <1>2. Len(Cat(One(a), b)) = 1 + Len(b) /\ Len(b) \in Nat
    BY <1>1, CatLen
  <1>3. Cat(One(a), b) \in Seq(S)
    BY <1>1, CatType
  <1>4. Cat(One(a), b) # <<>>
    BY <1>2
  <1> QED  BY <1>3, <1>4

\* What holds of no element, and of a sequence with one more, holds of every sequence.
LEMMA SequencesWith ==
  ASSUME NEW S, NEW T, <<>> \in T,
         \A s \in Seq(S), e \in S : s \in T => With(s, e) \in T
  PROVE  Seq(S) \subseteq T
  BY SequencesAre DEF With

LEMMA FlattenOfNothing ==
  FlattenSeq(<<>>) = <<>>
  <1>1. <<>> \in Seq(Seq({}))
    OBVIOUS
  <1>2. PICK f : Flattening(<<>>, f)
    BY <1>1, FlatteningExists
  <1> QED  BY <1>1, <1>2, FlattenIs

LEMMA FlattenOfWith ==
  ASSUME NEW S, NEW ss \in Seq(Seq(S)), NEW s \in Seq(S)
  PROVE  /\ FlattenSeq(ss) \in Seq(S)
         /\ FlattenSeq(With(ss, s)) = Cat(FlattenSeq(ss), s)
  BY FlattenOfAppend DEF Cat, With

LEMMA ListIs ==
  ASSUME NEW S, NEW n \in Nat, NEW f, f = [i \in 1..n |-> f[i]], \A i \in 1..n : f[i] \in S
  PROVE  f \in Seq(S) /\ Len(f) = n
  <1>1. f \in [1..n -> S]
    BY Zenon
  <1> QED  BY <1>1

LEMMA WithAt ==
  ASSUME NEW S, NEW s \in Seq(S), NEW e \in S
  PROVE  With(s, e) = [i \in 1..(Len(s) + 1) |-> IF i = Len(s) + 1 THEN e ELSE s[i]]
  <1> DEFINE w == With(s, e)
             n == Len(s)
  <1>1. n \in Nat /\ w \in Seq(S) /\ Len(w) = n + 1 /\ w[n + 1] = e /\ \A i \in 1..n : w[i] = s[i]
    BY WithIs
  <1> HIDE DEF w, n
  <1>2. w = [i \in 1..(n + 1) |-> w[i]]
    BY <1>1
  <1>3. \A i \in 1..(n + 1) : w[i] = IF i = n + 1 THEN e ELSE s[i]
    BY <1>1
  <1>4. w = [i \in 1..(n + 1) |-> IF i = n + 1 THEN e ELSE s[i]]
    BY <1>2, <1>3
  <1> QED  BY <1>4 DEF w, n

LEMMA FlattenOfGrown ==
  ASSUME NEW S, NEW n \in Nat, NEW g,
         g = [i \in 1..(n + 1) |-> g[i]], \A i \in 1..(n + 1) : g[i] \in Seq(S)
  PROVE  /\ FlattenSeq(g) = Cat(FlattenSeq([i \in 1..n |-> g[i]]), g[n + 1])
         /\ FlattenSeq(g) \in Seq(S)
         /\ FlattenSeq([i \in 1..n |-> g[i]]) \in Seq(S)
  <1> DEFINE U == Seq(S)
             f == [i \in 1..n |-> g[i]]
             last == g[n + 1]
  <1>1. \A i \in 1..n : i \in 1..(n + 1)
    OBVIOUS
  <1>2. last \in U /\ \A i \in 1..n : g[i] \in U
    BY <1>1
  <1> HIDE DEF U
  <1>3. f \in Seq(U) /\ Len(f) = n
    <2>1. f = [i \in 1..n |-> f[i]] /\ \A i \in 1..n : f[i] \in U
      BY <1>2
    <2> HIDE DEF f
    <2> QED  BY <2>1, ListIs
  <1>4. g = With(f, last)
    <2>1. With(f, last) = [i \in 1..(n + 1) |-> IF i = n + 1 THEN last ELSE f[i]]
      <3> HIDE DEF f, last
      <3> QED  BY <1>2, <1>3, WithAt
    <2>2. \A i \in 1..(n + 1) : g[i] = IF i = n + 1 THEN last ELSE f[i]
      OBVIOUS
    <2> HIDE DEF f, last
    <2> QED  BY <2>1, <2>2
  <1> HIDE DEF f, last
  <1>5. FlattenSeq(With(f, last)) = Cat(FlattenSeq(f), last) /\ FlattenSeq(f) \in Seq(S)
    BY <1>2, <1>3, FlattenOfWith DEF U
  <1>6. Cat(FlattenSeq(f), last) \in Seq(S)
    BY <1>2, <1>5, CatType DEF U
  <1> QED  BY <1>4, <1>5, <1>6 DEF f, last

\* The pieces with a text in between, and a text with another in the place of each c.
Led(i, to, p) == (IF i = 1 THEN <<>> ELSE to) \o p
Instead(x, c, to) == IF x = c THEN to ELSE <<x>>
Joined(ps, to) == FlattenSeq([i \in 1..Len(ps) |-> Led(i, to, ps[i])])
Replaced(src, c, to) == FlattenSeq([k \in 1..Len(src) |-> Instead(src[k], c, to)])

LEMMA LedIs ==
  ASSUME NEW S, NEW to \in Seq(S), NEW p \in Seq(S), NEW i
  PROVE  Led(i, to, p) \in Seq(S) /\ Led(i, to, p) = IF i = 1 THEN p ELSE Cat(to, p)
  <1>1. Cat(<<>>, p) = p /\ Cat(to, p) \in Seq(S)
    BY CatOfNothing, CatType
  <1>2. Led(i, to, p) = Cat(IF i = 1 THEN <<>> ELSE to, p)
    BY Zenon DEF Led, Cat
  <1> QED  BY <1>1, <1>2

LEMMA InsteadIs ==
  ASSUME NEW S, NEW to \in Seq(S), NEW x \in S, NEW c
  PROVE  Instead(x, c, to) \in Seq(S) /\ Instead(x, c, to) = IF x = c THEN to ELSE One(x)
  <1>1. Instead(x, c, to) = IF x = c THEN to ELSE One(x)
    BY Zenon DEF Instead, One
  <1>2. <<>> \in Seq(S) /\ One(x) \in Seq(S)
    BY NothingIs, WithIs
  <1> QED  BY <1>1, <1>2

LEMMA JoinedOfNothing ==
  ASSUME NEW to
  PROVE  Joined(<<>>, to) = <<>>
  <1>1. [i \in 1..Len(<<>>) |-> Led(i, to, <<>>[i])] = <<>>
    OBVIOUS
  <1> QED  BY <1>1, FlattenOfNothing DEF Joined

LEMMA ReplacedOfNothing ==
  ASSUME NEW c, NEW to
  PROVE  Replaced(<<>>, c, to) = <<>>
  <1>1. [k \in 1..Len(<<>>) |-> Instead(<<>>[k], c, to)] = <<>>
    OBVIOUS
  <1> QED  BY <1>1, FlattenOfNothing DEF Replaced

LEMMA JoinedOfWith ==
  ASSUME NEW S, NEW ps \in Seq(Seq(S)), NEW p \in Seq(S), NEW to \in Seq(S)
  PROVE  /\ Joined(ps, to) \in Seq(S)
         /\ Joined(With(ps, p), to) = IF ps = <<>> THEN p ELSE Cat(Joined(ps, to), Cat(to, p))
  <1> DEFINE n == Len(ps)
             more == With(ps, p)
             f == [i \in 1..n |-> Led(i, to, ps[i])]
             g == [i \in 1..(n + 1) |-> Led(i, to, more[i])]
  <1>1. n \in Nat /\ Len(more) = n + 1 /\ more[n + 1] = p /\ \A i \in 1..n : more[i] = ps[i] /\ ps[i] \in Seq(S)
    BY WithIs
  <1> HIDE DEF n, more
  <1>2. \A i \in 1..(n + 1) : more[i] \in Seq(S)
    <2> TAKE i \in 1..(n + 1)
    <2>1. i = n + 1 \/ i \in 1..n
      BY <1>1
    <2> QED  BY <1>1, <2>1
  <1>3. \A i \in 1..(n + 1) : g[i] \in Seq(S)
    <2>1. \A i \in 1..(n + 1) : Led(i, to, more[i]) \in Seq(S)
      BY <1>2, LedIs
    <2> QED  BY <2>1
  <1>4. g = [i \in 1..(n + 1) |-> g[i]] /\ g[n + 1] = Led(n + 1, to, p)
    <2>1. n + 1 \in 1..(n + 1)
      BY <1>1
    <2> QED  BY <1>1, <2>1
  <1>5. [i \in 1..n |-> g[i]] = f
    <2>1. \A i \in 1..n : i \in 1..(n + 1)
      BY <1>1
    <2>2. \A i \in 1..n : g[i] = Led(i, to, ps[i])
      BY <1>1, <2>1
    <2> HIDE DEF g
    <2> QED  BY <2>2
  <1>6. Joined(more, to) = FlattenSeq(g) /\ Joined(ps, to) = FlattenSeq(f)
    BY <1>1 DEF Joined, n
  <1> HIDE DEF g, f
  <1>7. FlattenSeq(g) = Cat(FlattenSeq(f), Led(n + 1, to, p)) /\ FlattenSeq(f) \in Seq(S)
    BY <1>1, <1>3, <1>4, <1>5, FlattenOfGrown
  <1>8. ps = <<>> <=> n + 1 = 1
    BY <1>1 DEF n
  <1>9. CASE ps = <<>>
    <2>1. Led(n + 1, to, p) = p
      BY <1>8, <1>9, LedIs
    <2>2. FlattenSeq(f) = <<>>
      BY <1>6, <1>9, JoinedOfNothing
    <2>3. Cat(<<>>, p) = p
      BY CatOfNothing
    <2> QED  BY <1>6, <1>7, <1>9, <2>1, <2>2, <2>3 DEF more
  <1>10. CASE ps # <<>>
    <2>1. Led(n + 1, to, p) = Cat(to, p)
      BY <1>8, <1>10, LedIs
    <2> QED  BY <1>6, <1>7, <1>10, <2>1 DEF more
  <1> QED  BY <1>9, <1>10

LEMMA JoinedOfOne ==
  ASSUME NEW S, NEW p \in Seq(S), NEW to \in Seq(S)
  PROVE  Joined(One(p), to) = p
  <1>1. <<>> \in Seq(Seq(S))
    BY NothingIs
  <1>2. One(p) = With(<<>>, p)
    BY <1>1, WithIs
  <1> QED  BY <1>1, <1>2, JoinedOfWith

LEMMA JoinedOfCons ==
  ASSUME NEW S, NEW p \in Seq(S), NEW ps \in Seq(Seq(S)), NEW to \in Seq(S)
  PROVE  Joined(Cat(One(p), ps), to) = IF ps = <<>> THEN p ELSE Cat(p, Cat(to, Joined(ps, to)))
  <1> DEFINE U == Seq(S)
             T == {t \in Seq(U) :
                     Joined(Cat(One(p), t), to) = IF t = <<>> THEN p ELSE Cat(p, Cat(to, Joined(t, to)))}
  <1>0. <<>> \in Seq(U) /\ One(p) \in Seq(U)
    BY NothingIs, WithIs
  <1>1. <<>> \in T
    <2>1. Cat(One(p), <<>>) = One(p)
      BY <1>0, CatOfNothing
    <2>2. Joined(One(p), to) = p
      BY JoinedOfOne
    <2> QED  BY <1>0, <2>1, <2>2
  <1>2. ASSUME NEW t \in Seq(U), NEW e \in U, t \in T PROVE With(t, e) \in T
    <2> DEFINE J == Joined(t, to)
               x == Cat(to, e)
               C == Cat(One(p), t)
    <2>1. /\ C \in Seq(U) /\ C # <<>>
          /\ Cat(One(p), With(t, e)) = With(C, e)
          /\ With(t, e) \in Seq(U) /\ With(t, e) # <<>>
      BY <1>0, CatOfOne, CatOfWith, WithIs
    <2>2. Joined(With(C, e), to) = Cat(Joined(C, to), x)
      BY <2>1, JoinedOfWith
    <2>3. CASE t = <<>>
      <3>1. Joined(With(t, e), to) = e
        BY <2>3, <1>0, JoinedOfWith
      <3>2. Joined(C, to) = p
        BY <1>2, <2>3
      <3> QED  BY <2>1, <2>2, <3>1, <3>2
    <2>4. CASE t # <<>>
      <3>1. Joined(With(t, e), to) = Cat(J, x) /\ J \in Seq(S)
        BY <2>4, JoinedOfWith
      <3>2. Joined(C, to) = Cat(p, Cat(to, J))
        BY <1>2, <2>4
      <3>3. x \in Seq(S) /\ Cat(to, J) \in Seq(S) /\ Cat(J, x) \in Seq(S)
        BY <3>1, CatType
      <3> HIDE DEF x, J
      <3>4. Cat(Cat(p, Cat(to, J)), x) = Cat(p, Cat(Cat(to, J), x))
        BY <3>1, <3>3, CatAssociates
      <3>5. Cat(Cat(to, J), x) = Cat(to, Cat(J, x))
        BY <3>1, <3>3, CatAssociates
      <3>6. Joined(With(C, e), to) = Cat(p, Cat(to, Joined(With(t, e), to)))
        BY <2>2, <3>1, <3>2, <3>4, <3>5
      <3> QED  BY <2>1, <3>6
    <2> QED  BY <2>3, <2>4
  <1> HIDE DEF T
  <1>3. ps \in T
    BY <1>1, <1>2, SequencesWith
  <1> QED  BY <1>3 DEF T

LEMMA ReplacedOfWith ==
  ASSUME NEW S, NEW src \in Seq(S), NEW e \in S, NEW c, NEW to \in Seq(S)
  PROVE  /\ Replaced(src, c, to) \in Seq(S)
         /\ Replaced(With(src, e), c, to) = Cat(Replaced(src, c, to), IF e = c THEN to ELSE One(e))
  <1> DEFINE n == Len(src)
             more == With(src, e)
             f == [k \in 1..n |-> Instead(src[k], c, to)]
             g == [k \in 1..(n + 1) |-> Instead(more[k], c, to)]
  <1>1. n \in Nat /\ Len(more) = n + 1 /\ more[n + 1] = e /\ \A i \in 1..n : more[i] = src[i] /\ src[i] \in S
    BY WithIs
  <1> HIDE DEF n, more
  <1>2. \A i \in 1..(n + 1) : more[i] \in S
    <2> TAKE i \in 1..(n + 1)
    <2>1. i = n + 1 \/ i \in 1..n
      BY <1>1
    <2> QED  BY <1>1, <2>1
  <1>3. \A i \in 1..(n + 1) : g[i] \in Seq(S)
    <2>1. \A i \in 1..(n + 1) : Instead(more[i], c, to) \in Seq(S)
      BY <1>2, InsteadIs
    <2> QED  BY <2>1
  <1>4. g = [i \in 1..(n + 1) |-> g[i]] /\ g[n + 1] = Instead(e, c, to)
    <2>1. n + 1 \in 1..(n + 1)
      BY <1>1
    <2> QED  BY <1>1, <2>1
  <1>5. [i \in 1..n |-> g[i]] = f
    <2>1. \A i \in 1..n : i \in 1..(n + 1)
      BY <1>1
    <2>2. \A i \in 1..n : g[i] = Instead(src[i], c, to)
      BY <1>1, <2>1
    <2> HIDE DEF g
    <2> QED  BY <2>2
  <1>6. Replaced(more, c, to) = FlattenSeq(g) /\ Replaced(src, c, to) = FlattenSeq(f)
    BY <1>1 DEF Replaced, n
  <1> HIDE DEF g, f
  <1>7. FlattenSeq(g) = Cat(FlattenSeq(f), Instead(e, c, to)) /\ FlattenSeq(f) \in Seq(S)
    BY <1>1, <1>3, <1>4, <1>5, FlattenOfGrown
  <1>8. Instead(e, c, to) = IF e = c THEN to ELSE One(e)
    BY InsteadIs
  <1> QED  BY <1>6, <1>7, <1>8 DEF more

LEMMA ReplacedType ==
  ASSUME NEW S, NEW src \in Seq(S), NEW c, NEW to \in Seq(S)
  PROVE  Replaced(src, c, to) \in Seq(S)
  <1>1. CASE src = <<>>
    BY <1>1, ReplacedOfNothing, NothingIs
  <1>2. CASE src # <<>>
    <2>1. src[1] \in S
      BY <1>2
    <2> QED  BY <2>1, ReplacedOfWith
  <1> QED  BY <1>1, <1>2

LEMMA ReplacedOfOne ==
  ASSUME NEW S, NEW c \in S, NEW to \in Seq(S)
  PROVE  Replaced(One(c), c, to) = to
  <1> DEFINE R(t) == Replaced(t, c, to)
  <1>1. <<>> \in Seq(S) /\ One(c) = With(<<>>, c)
    BY NothingIs, WithIs
  <1> HIDE DEF R
  <1>2. \A z \in Seq(S) : R(With(z, c)) = Cat(R(z), to)
    BY ReplacedOfWith DEF R
  <1>3. R(<<>>) = <<>> /\ Cat(<<>>, to) = to
    BY ReplacedOfNothing, CatOfNothing DEF R
  <1>4. R(With(<<>>, c)) = Cat(R(<<>>), to)
    BY <1>1, <1>2, Zenon
  <1> QED  BY <1>1, <1>3, <1>4 DEF R

LEMMA ReplacedOfCat ==
  ASSUME NEW S, NEW a \in Seq(S), NEW b \in Seq(S), NEW c, NEW to \in Seq(S)
  PROVE  Replaced(Cat(a, b), c, to) = Cat(Replaced(a, c, to), Replaced(b, c, to))
  <1> DEFINE R(t) == Replaced(t, c, to)
             T == {t \in Seq(S) : R(Cat(a, t)) = Cat(R(a), R(t))}
  <1>0. \A t \in Seq(S) : R(t) \in Seq(S)
    BY ReplacedType
  <1>1. <<>> \in T
    <2>1. Cat(a, <<>>) = a /\ Cat(R(a), <<>>) = R(a)
      BY <1>0, CatOfNothing
    <2> QED  BY <2>1, ReplacedOfNothing, NothingIs
  <1>2. ASSUME NEW t \in Seq(S), NEW e \in S, t \in T PROVE With(t, e) \in T
    <2> DEFINE x == IF e = c THEN to ELSE One(e)
    <2>1. Cat(a, t) \in Seq(S) /\ Cat(a, With(t, e)) = With(Cat(a, t), e) /\ With(t, e) \in Seq(S) /\ One(e) \in Seq(S)
      BY CatType, CatOfWith, WithIs
    <2>2. R(With(t, e)) = Cat(R(t), x)
      BY <2>1, ReplacedOfWith
    <2>3. R(With(Cat(a, t), e)) = Cat(R(Cat(a, t)), x)
      BY <2>1, ReplacedOfWith
    <2>4. R(Cat(a, t)) = Cat(R(a), R(t))
      BY <1>2
    <2>5. x \in Seq(S)
      BY <2>1
    <2>6. Cat(Cat(R(a), R(t)), x) = Cat(R(a), Cat(R(t), x))
      <3> HIDE DEF x, R
      <3> QED  BY <1>0, <2>5, CatAssociates
    <2> QED  BY <2>1, <2>2, <2>3, <2>4, <2>6
  <1> HIDE DEF T
  <1>3. b \in T
    BY <1>1, <1>2, SequencesWith
  <1> QED  BY <1>3 DEF T

LEMMA ReplacedOfPiece ==
  ASSUME NEW S, NEW p \in Seq(S), NEW c, NEW to \in Seq(S), \A k \in 1..Len(p) : p[k] # c
  PROVE  Replaced(p, c, to) = p
  <1> DEFINE R(t) == Replaced(t, c, to)
             U == S \ {c}
             T == {t \in Seq(S) : R(t) = t}
  <1>1. <<>> \in T
    BY ReplacedOfNothing, NothingIs
  <1>2. ASSUME NEW t \in Seq(U), NEW e \in U, t \in T PROVE With(t, e) \in T
    <2>1. t \in Seq(S) /\ e \in S /\ e # c /\ R(t) = t
      BY <1>2
    <2>2. R(With(t, e)) = Cat(t, One(e))
      BY <2>1, ReplacedOfWith
    <2>3. With(t, e) = Cat(t, One(e)) /\ With(t, e) \in Seq(S)
      BY <2>1, WithIs
    <2> QED  BY <2>2, <2>3
  <1>3. p \in Seq(U)
    <2>1. Len(p) \in Nat /\ p = [k \in 1..Len(p) |-> p[k]] /\ \A k \in 1..Len(p) : p[k] \in U
      OBVIOUS
    <2> QED  BY <2>1
  <1>4. p \in T
    <2> HIDE DEF T, U
    <2> QED  BY <1>1, <1>2, <1>3, SequencesWith
  <1> QED  BY <1>4

\* What has pieces without c is replaced piece by piece.
LEMMA ReplacedOfJoined ==
  ASSUME NEW S, NEW c \in S, NEW ps \in Seq(Seq(S)), NEW to \in Seq(S),
         \A i \in 1..Len(ps) : \A k \in 1..Len(ps[i]) : ps[i][k] # c
  PROVE  Replaced(Joined(ps, One(c)), c, to) = Joined(ps, to)
  <1> DEFINE V == Seq(S)
             U == {p \in V : \A k \in 1..Len(p) : p[k] # c}
             R(t) == Replaced(t, c, to)
             T == {t \in Seq(V) : R(Joined(t, One(c))) = Joined(t, to)}
  <1>0. One(c) \in Seq(S) /\ One(c) = With(<<>>, c) /\ <<>> \in Seq(S) /\ <<>> \in Seq(V)
    BY NothingIs, WithIs
  <1>1. <<>> \in T
    BY <1>0, JoinedOfNothing, ReplacedOfNothing
  <1>2. ASSUME NEW t \in Seq(U), NEW e \in U, t \in T PROVE With(t, e) \in T
    <2>1. t \in Seq(V) /\ e \in Seq(S) /\ R(e) = e
      <3>1. U \subseteq V /\ e \in Seq(S) /\ \A k \in 1..Len(e) : e[k] # c
        OBVIOUS
      <3>2. R(e) = e
        BY <3>1, ReplacedOfPiece
      <3> HIDE DEF U, V
      <3> QED  BY <3>1, <3>2, SequenceWithin
    <2> DEFINE J == Joined(t, One(c))
    <2>2. With(t, e) \in Seq(V) /\ J \in Seq(S) /\ R(J) = Joined(t, to)
      BY <1>0, <1>2, <2>1, WithIs, JoinedOfWith
    <2>3. CASE t = <<>>
      <3>1. Joined(With(t, e), One(c)) = e /\ Joined(With(t, e), to) = e
        BY <1>0, <2>1, <2>3, JoinedOfWith
      <3> QED  BY <2>1, <2>2, <3>1
    <2>4. CASE t # <<>>
      <3> DEFINE x == Cat(One(c), e)
      <3>1. Joined(With(t, e), One(c)) = Cat(J, x) /\ Joined(With(t, e), to) = Cat(Joined(t, to), Cat(to, e))
        BY <1>0, <2>1, <2>4, JoinedOfWith
      <3>2. R(One(c)) = to
        BY ReplacedOfOne
      <3>3. x \in Seq(S) /\ R(x) = Cat(to, e)
        BY <1>0, <2>1, <3>2, CatType, ReplacedOfCat
      <3> HIDE DEF x, J
      <3>4. R(Cat(J, x)) = Cat(R(J), R(x))
        BY <2>2, <3>3, ReplacedOfCat
      <3> QED  BY <2>2, <3>1, <3>3, <3>4
    <2> QED  BY <2>3, <2>4
  <1>3. ps \in Seq(U)
    <2>1. Len(ps) \in Nat /\ ps = [k \in 1..Len(ps) |-> ps[k]] /\ \A k \in 1..Len(ps) : ps[k] \in V
      OBVIOUS
    <2>2. \A k \in 1..Len(ps) : ps[k] \in U
      BY <2>1
    <2> HIDE DEF U
    <2> QED  BY <2>1, <2>2, SMTT(60)
  <1>4. ps \in T
    <2> HIDE DEF T, U, V
    <2> QED  BY <1>1, <1>2, <1>3, SequencesWith
  <1> QED  BY <1>4
LEMMA SubSeqOfOne ==
  ASSUME NEW S, NEW s \in Seq(S), NEW i \in 1..Len(s)
  PROVE  SubSeq(s, i, i) = One(s[i])
  <1>1. i \in Int /\ s[i] \in S
    OBVIOUS
  <1>2. Len(SubSeq(s, i, i)) = 1 /\ SubSeq(s, i, i)[1] = s[i] /\ SubSeq(s, i, i) \in Seq(S)
    BY <1>1
  <1>3. \A t \in Seq(S) : Len(t) = 1 => t = <<t[1]>>
    OBVIOUS
  <1> QED  BY <1>2, <1>3, Zenon DEF One

LEMMA FindIs ==
  ASSUME NEW S, NEW src \in Seq(S), NEW c \in S, NEW from \in 0..Len(src)
  PROVE  LET e == Find(src, One(c), from)
         IN \/ e = npos /\ \A k \in (from + 1)..Len(src) : src[k] # c
            \/ /\ e \in from..(Len(src) - 1) /\ src[e + 1] = c
               /\ \A k \in (from + 1)..e : src[k] # c
  <1> DEFINE n == Len(src)
             hits == {pos \in from..(n - 1) : src[pos + 1] = c}
             e == Find(src, One(c), from)
  <1>1. n \in Nat /\ from \in Nat
    OBVIOUS
  <1>2. Len(One(c)) = 1
    BY DEF One
  <1>3. ASSUME NEW pos \in from..(n - 1)
        PROVE  SubSeq(src, pos + 1, pos + Len(One(c))) = One(c) <=> src[pos + 1] = c
    <2>1. pos + 1 \in 1..n /\ pos \in Int
      BY <1>1
    <2>2. SubSeq(src, pos + 1, pos + 1) = One(src[pos + 1])
      BY <2>1, SubSeqOfOne
    <2>3. SubSeq(src, pos + 1, pos + Len(One(c))) = One(src[pos + 1])
      BY <1>2, <2>2, Zenon
    <2>4. One(src[pos + 1]) = One(c) <=> src[pos + 1] = c
      BY DEF One
    <2> QED  BY <2>3, <2>4, Zenon
  <1>4. {pos \in from..(n - Len(One(c))) : SubSeq(src, pos + 1, pos + Len(One(c))) = One(c)} = hits
    <2>1. from..(n - Len(One(c))) = from..(n - 1)
      BY <1>2
    <2> DEFINE sub(pos) == SubSeq(src, pos + 1, pos + Len(One(c)))
    <2>2. \A pos \in from..(n - 1) : sub(pos) = One(c) <=> src[pos + 1] = c
      BY <1>3, Zenon
    <2> HIDE DEF sub
    <2>3. {pos \in from..(n - 1) : sub(pos) = One(c)} = hits
      BY <2>2
    <2>4. {pos \in from..(n - Len(One(c))) : sub(pos) = One(c)} = {pos \in from..(n - 1) : sub(pos) = One(c)}
      BY <2>1, Zenon
    <2> QED  BY <2>3, <2>4, Zenon DEF sub
  <1>5. e = IF hits = {} THEN npos ELSE CHOOSE pos \in hits : \A hit \in hits : pos <= hit
    <2> DEFINE first(h) == IF h = {} THEN npos ELSE CHOOSE pos \in h : \A hit \in h : pos <= hit
               found == {pos \in from..(n - Len(One(c))) : SubSeq(src, pos + 1, pos + Len(One(c))) = One(c)}
    <2>1. e = first(found)
      BY Zenon DEF Find
    <2>2. found = hits
      BY <1>4, Zenon
    <2> HIDE DEF first, found, hits
    <2>3. e = first(hits)
      BY <2>1, <2>2, Zenon
    <2> QED  BY <2>3, Zenon DEF first
  <1> HIDE DEF e
  <1>6. CASE hits = {}
    <2>1. ASSUME NEW k \in (from + 1)..n PROVE src[k] # c
      <3>1. k - 1 \in from..(n - 1) /\ (k - 1) + 1 = k
        BY <1>1
      <3>2. k - 1 \notin hits
        BY <1>6
      <3> QED  BY <3>1, <3>2
    <2> QED  BY <1>5, <1>6, <2>1 DEF e
  <1>7. CASE hits # {}
    <2>1. hits \in SUBSET Nat
      BY <1>1
    <2>2. \E pos \in hits : \A hit \in hits : pos <= hit
      BY <1>7, <2>1, LeastIs
    <2>3. e \in hits /\ \A hit \in hits : e <= hit
      <3> HIDE DEF hits
      <3> QED  BY <1>5, <1>7, <2>2
    <2>4. ASSUME NEW k \in (from + 1)..e PROVE src[k] # c
      <3>1. e \in from..(n - 1)
        BY <2>3
      <3>2. k - 1 \in from..(n - 1) /\ (k - 1) + 1 = k /\ ~(e <= k - 1)
        BY <1>1, <3>1
      <3> QED  BY <2>3, <3>2
    <2> QED  BY <2>3, <2>4 DEF e
  <1> QED  BY <1>6, <1>7

LEMMA FindLastIs ==
  ASSUME NEW S, NEW src \in Seq(S), NEW c \in S
  PROVE  /\ FindLastOf(src, One(c)) = npos <=> \A k \in 1..Len(src) : src[k] # c
         /\ FindLastOf(src, One(c)) = Len(src) - Len(One(c)) <=>
               IF Len(src) = 0 THEN TRUE ELSE src[Len(src)] = c
  <1> DEFINE n == Len(src)
             hits == {pos \in 0..(n - 1) : src[pos + 1] = c}
             e == FindLastOf(src, One(c))
             left == {m \in 0..(n - 1) : n - 1 - m \in hits}
  <1>1. n \in Nat /\ Len(One(c)) = 1
    BY DEF One
  <1>2. \A pos : (\E i \in DOMAIN One(c) : One(c)[i] = src[pos + 1]) <=> src[pos + 1] = c
    BY DEF One
  <1>3. {pos \in 0..(n - 1) : \E i \in DOMAIN One(c) : One(c)[i] = src[pos + 1]} = hits
    BY <1>2
  <1>4. e = IF hits = {} THEN npos ELSE CHOOSE pos \in hits : \A hit \in hits : pos >= hit
    <2> DEFINE final(h) == IF h = {} THEN npos ELSE CHOOSE pos \in h : \A hit \in h : pos >= hit
               found == {pos \in 0..(n - 1) : \E i \in DOMAIN One(c) : One(c)[i] = src[pos + 1]}
    <2>1. e = final(found)
      BY Zenon DEF FindLastOf
    <2>2. found = hits
      BY <1>3, Zenon
    <2> HIDE DEF final, found, hits
    <2>3. e = final(hits)
      BY <2>1, <2>2, Zenon
    <2> QED  BY <2>3, Zenon DEF final
  <1> HIDE DEF e
  <1>5. hits = {} <=> \A k \in 1..n : src[k] # c
    <2>1. ASSUME hits = {}, NEW k \in 1..n PROVE src[k] # c
      <3>1. k - 1 \in 0..(n - 1) /\ (k - 1) + 1 = k
        BY <1>1
      <3>2. k - 1 \notin hits
        BY <2>1
      <3> QED  BY <3>1, <3>2
    <2>2. ASSUME \A k \in 1..n : src[k] # c, NEW pos \in hits PROVE FALSE
      <3>1. pos + 1 \in 1..n /\ src[pos + 1] = c
        BY <1>1
      <3> QED  BY <2>2, <3>1
    <2> QED  BY <2>1, <2>2
  <1>6. CASE hits = {}
    <2>1. e = -1
      BY <1>4, <1>6 DEF npos
    <2>2. n # 0 => src[n] # c
      <3>1. n # 0 => n \in 1..n
        BY <1>1
      <3> QED  BY <1>5, <1>6, <3>1
    <2>3. n - Len(One(c)) = -1 <=> n = 0
      BY <1>1
    <2> HIDE DEF hits, n
    <2> QED  BY <1>5, <1>6, <2>1, <2>2, <2>3 DEF e, n, npos
  <1>7. CASE hits # {}
    <2>1. left \in SUBSET Nat /\ left # {}
      <3>1. PICK pos \in hits : TRUE
        BY <1>7
      <3>2. n - 1 - pos \in 0..(n - 1) /\ n - 1 - (n - 1 - pos) = pos
        BY <1>1
      <3>3. n - 1 - pos \in left
        BY <3>1, <3>2
      <3>4. 0..(n - 1) \subseteq Nat
        BY <1>1
      <3>5. left \subseteq 0..(n - 1)
        OBVIOUS
      <3> HIDE DEF left
      <3> QED  BY <3>3, <3>4, <3>5
    <2>2. PICK m \in left : \A y \in left : m <= y
      BY <2>1, LeastIs
    <2>3. n - 1 - m \in hits /\ m \in 0..(n - 1)
      BY <2>2
    <2>4. ASSUME NEW hit \in hits PROVE n - 1 - m >= hit
      <3>1. hit \in 0..(n - 1) /\ n - 1 - hit \in 0..(n - 1) /\ n - 1 - (n - 1 - hit) = hit
        BY <1>1
      <3>2. n - 1 - hit \in left
        BY <3>1
      <3>3. m <= n - 1 - hit
        BY <2>2, <3>2
      <3> QED  BY <1>1, <2>3, <3>1, <3>3
    <2>5. e \in hits /\ \A hit \in hits : e >= hit
      <3>1. \E pos \in hits : \A hit \in hits : pos >= hit
        BY <2>3, <2>4
      <3> HIDE DEF hits
      <3> QED  BY <1>4, <1>7, <3>1
    <2>6. e \in 0..(n - 1) /\ src[e + 1] = c
      BY <2>5
    <2>7. e # npos /\ n # 0
      BY <1>1, <2>6 DEF npos
    <2>8. e = n - 1 <=> src[n] = c
      <3>1. n - 1 \in 0..(n - 1) /\ (n - 1) + 1 = n
        BY <1>1, <2>7
      <3>2. ASSUME src[n] = c PROVE e = n - 1
        <4>1. n - 1 \in hits
          BY <3>1, <3>2
        <4>2. e >= n - 1
          BY <2>5, <4>1
        <4> QED  BY <1>1, <2>6, <4>2
      <3>3. ASSUME e = n - 1 PROVE src[n] = c
        BY <2>6, <3>1, <3>3
      <3> QED  BY <3>2, <3>3
    <2> HIDE DEF hits, n
    <2> QED  BY <1>1, <1>5, <1>7, <2>7, <2>8 DEF e, n
  <1> QED  BY <1>6, <1>7

LEMMA ConsIs ==
  ASSUME NEW S, NEW x \in S, NEW d \in Seq(S)
  PROVE  /\ Cat(One(x), d) \in Seq(S) /\ Len(d) \in Nat /\ Len(Cat(One(x), d)) = Len(d) + 1
         /\ Cat(One(x), d)[1] = x
         /\ \A k \in 2..(Len(d) + 1) : Cat(One(x), d)[k] = d[k - 1]
  BY DEF Cat, One

LEMMA CatSecond ==
  ASSUME NEW S, NEW a \in Seq(S), NEW b \in Seq(S), NEW i \in (Len(a) + 1)..(Len(a) + Len(b))
  PROVE  Cat(a, b)[i] = b[i - Len(a)]
  BY DEF Cat

LEMMA SameText ==
  ASSUME NEW S, NEW a \in Seq(S), NEW b \in Seq(S), Len(a) = Len(b), \A k \in 1..Len(a) : a[k] = b[k]
  PROVE  a = b
  OBVIOUS

LEMMA PartsAre ==
  ASSUME NEW S, NEW a \in Seq(S), NEW x \in S, NEW d \in Seq(S), NEW w \in Seq(S),
         Len(w) = Len(a) + (1 + Len(d)),
         \A k \in 1..Len(a) : w[k] = a[k],
         w[Len(a) + 1] = x,
         \A k \in 1..Len(d) : w[Len(a) + (1 + k)] = d[k]
  PROVE  w = Cat(a, Cat(One(x), d))
  <1> DEFINE z == Cat(One(x), d)
             y == Cat(a, z)
  <1>1. z \in Seq(S) /\ Len(d) \in Nat /\ Len(z) = Len(d) + 1 /\ z[1] = x /\ \A k \in 2..(Len(d) + 1) : z[k] = d[k - 1]
    BY ConsIs
  <1> HIDE DEF z
  <1>2. y \in Seq(S) 
    BY <1>1, CatType
  <1>3. Len(y) = Len(a) + Len(z) /\ Len(a) \in Nat
    BY <1>1, CatLen
  <1>4. \A k \in 1..Len(a) : y[k] = a[k]
    BY <1>1, CatLeft
  <1>5. \A k \in (Len(a) + 1)..(Len(a) + Len(z)) : y[k] = z[k - Len(a)]
    BY <1>1, CatSecond
  <1> HIDE DEF y
  <1>6. Len(w) = Len(y)
    BY <1>1, <1>3
  <1>7. ASSUME NEW k \in 1..Len(w) PROVE w[k] = y[k]
    <2>1. CASE k \in 1..Len(a)
      BY <1>4, <2>1
    <2>2. CASE k = Len(a) + 1
      <3>1. k \in (Len(a) + 1)..(Len(a) + Len(z)) /\ k - Len(a) = 1
        BY <1>1, <1>3, <2>2
      <3>2. y[k] = x
        BY <1>1, <1>5, <3>1
      <3> QED  BY <2>2, <3>2
    <2>3. CASE k > Len(a) + 1
      <3> DEFINE m == k - (Len(a) + 1)
      <3>1. /\ m \in 1..Len(d) /\ k = Len(a) + (1 + m) /\ k - Len(a) = m + 1
            /\ k - Len(a) \in 2..(Len(d) + 1) /\ k - Len(a) - 1 = m
            /\ k \in (Len(a) + 1)..(Len(a) + Len(z))
        BY <1>1, <1>3, <2>3
      <3> HIDE DEF m
      <3>2. y[k] = d[m]
        BY <1>1, <1>5, <3>1
      <3>3. w[k] = d[m]
        BY <3>1
      <3> QED  BY <3>2, <3>3
    <2> QED  BY <1>3, <2>1, <2>2, <2>3
  <1>8. w = y
    BY <1>2, <1>6, <1>7, SameText
  <1> QED  BY <1>8 DEF y, z

\* What is left of a text is a piece, a separator, and the rest.
LEMMA CutIs ==
  ASSUME NEW S, NEW src \in Seq(S), NEW i \in 0..Len(src)
  PROVE  /\ SubSeq(src, i + 1, Len(src)) \in Seq(S)
         /\ \A k \in 1..Len(SubSeq(src, i + 1, Len(src))) :
               SubSeq(src, i + 1, Len(src))[k] = src[i + k] /\ i + k \in (i + 1)..Len(src)
         /\ \A e \in i..(Len(src) - 1) :
               /\ SubSeq(src, i + 1, e) \in Seq(S)
               /\ \A k \in 1..Len(SubSeq(src, i + 1, e)) :
                     SubSeq(src, i + 1, e)[k] = src[i + k] /\ i + k \in (i + 1)..e
               /\ SubSeq(src, i + 1, Len(src)) =
                     Cat(SubSeq(src, i + 1, e), Cat(One(src[e + 1]), SubSeq(src, e + 2, Len(src))))
  <1> DEFINE n == Len(src)
             c(a, b) == SubSeq(src, a, b)
  <1>1. n \in Nat /\ i \in 0..n
    OBVIOUS
  <1>2. \A a \in 1..(n + 1), b \in 0..n :
            /\ c(a, b) \in Seq(S)
            /\ Len(c(a, b)) = IF a <= b THEN b - a + 1 ELSE 0
            /\ \A k \in 1..Len(c(a, b)) : c(a, b)[k] = src[a + k - 1]
    OBVIOUS
  <1>3. i + 1 \in 1..(n + 1) /\ n \in 0..n
    BY <1>1
  <1>4. \A k \in 1..Len(c(i + 1, n)) : c(i + 1, n)[k] = src[i + k] /\ i + k \in (i + 1)..n
    <2> TAKE k \in 1..Len(c(i + 1, n))
    <2>1. Len(c(i + 1, n)) = n - i
      BY <1>1, <1>2, <1>3
    <2>2. i + 1 + k - 1 = i + k /\ i + k \in (i + 1)..n
      BY <1>1, <2>1
    <2> HIDE DEF c, n
    <2> QED  BY <1>2, <1>3, <2>2
  <1>5. ASSUME NEW e \in i..(n - 1)
        PROVE  /\ c(i + 1, e) \in Seq(S)
               /\ \A k \in 1..Len(c(i + 1, e)) : c(i + 1, e)[k] = src[i + k] /\ i + k \in (i + 1)..e
               /\ c(i + 1, n) = Cat(c(i + 1, e), Cat(One(src[e + 1]), c(e + 2, n)))
    <2>1. e \in 0..n /\ e + 2 \in 1..(n + 1) /\ e + 1 \in 1..n /\ e \in Int
      BY <1>1
    <2>2. c(i + 1, e) \in Seq(S) /\ Len(c(i + 1, e)) = e - i
      BY <1>1, <1>2, <1>3, <2>1
    <2>3. \A k \in 1..Len(c(i + 1, e)) : c(i + 1, e)[k] = src[i + k] /\ i + k \in (i + 1)..e
      <3> TAKE k \in 1..Len(c(i + 1, e))
      <3>1. i + 1 + k - 1 = i + k /\ i + k \in (i + 1)..e
        BY <1>1, <2>2
      <3> HIDE DEF c, n
      <3> QED  BY <1>2, <1>3, <2>1, <3>1
    <2> DEFINE a == c(i + 1, e)
               x == src[e + 1]
               d == c(e + 2, n)
               w == c(i + 1, n)
    <2>4. a \in Seq(S) /\ x \in S /\ d \in Seq(S) /\ w \in Seq(S)
      BY <1>2, <1>3, <2>1, <2>2
    <2>5. Len(a) = e - i /\ Len(d) = n - e - 1 /\ Len(w) = n - i
      BY <1>1, <1>2, <1>3, <2>1
    <2>6. \A k \in 1..Len(d) : d[k] = src[e + 2 + k - 1]
      BY <1>2, <1>3, <2>1
    <2>8. \A k \in 1..Len(w) : w[k] = src[i + k]
      BY <1>4
    <2>7. x = src[e + 1]
      OBVIOUS
    <2> HIDE DEF a, x, c, d, w, n
    <2>9. ASSUME NEW k \in 1..Len(a) PROVE w[k] = a[k]
      <3>1. k \in 1..Len(w)
        BY <1>1, <2>1, <2>5
      <3> QED  BY <2>3, <2>8, <3>1 DEF a
    <2>10. w[Len(a) + 1] = x
      <3>1. Len(a) + 1 \in 1..Len(w) /\ i + (Len(a) + 1) = e + 1
        BY <1>1, <2>1, <2>5
      <3> QED  BY <2>7, <2>8, <3>1
    <2>11. ASSUME NEW k \in 1..Len(d) PROVE w[Len(a) + (1 + k)] = d[k]
      <3>1. Len(a) + (1 + k) \in 1..Len(w) /\ i + (Len(a) + (1 + k)) = e + 2 + k - 1
        BY <1>1, <2>1, <2>5
      <3> QED  BY <2>6, <2>8, <3>1
    <2>12. w = Cat(a, Cat(One(x), d))
      <3>1. Len(w) = Len(a) + (1 + Len(d))
        BY <1>1, <2>1, <2>5
      <3> QED  BY <2>4, <2>5, <2>9, <2>10, <2>11, <3>1, PartsAre, ZenonT(60)
    <2> QED  BY <2>2, <2>3, <2>12 DEF a, x, d, w
  <1>6. c(i + 1, n) \in Seq(S)
    BY <1>2, <1>3
  <1> QED  BY <1>4, <1>5, <1>6
\* What holds of a number if it holds of all behind it holds of all.
LEMMA Downwards ==
  ASSUME NEW lo \in Int, NEW n \in Int, lo <= n, NEW T,
         \A i \in lo..n : (i + 1)..n \subseteq T => i \in T
  PROVE  lo..n \subseteq T
  <1> DEFINE m == n - lo + 1
             D == {k \in 0..m : (n - k + 1)..n \subseteq T}
  <1>1. m \in Nat /\ 0 \in D
    OBVIOUS
  <1>2. ASSUME NEW k \in 0..(m - 1), k \in D PROVE k + 1 \in D
    <2>1. n - k \in lo..n /\ k + 1 \in 0..m /\ n - (k + 1) + 1 = n - k /\ n - k + 1 = (n - k) + 1
      OBVIOUS
    <2>2. n - k \in T
      BY <1>2, <2>1
    <2>3. \A i \in (n - k)..n : i = n - k \/ i \in (n - k + 1)..n
      OBVIOUS
    <2> QED  BY <1>2, <2>1, <2>2, <2>3
  <1> HIDE DEF D
  <1>3. 0..m \subseteq D
    <2> HIDE DEF m
    <2> QED  BY <1>1, <1>2, NumbersAre
  <1>4. m \in 0..m /\ n - m + 1 = lo
    OBVIOUS
  <1> QED  BY <1>3, <1>4 DEF D

\* One round of the loop of SplitString.
Part(src, c, g, i) ==
    LET end == Find(src, One(c), i)
    IN IF end # npos THEN Cat(One(SubSeq(src, i + 1, end)), g[end + 1])
       ELSE IF i < Len(src) THEN One(SubSeq(src, i + 1, Len(src))) ELSE <<>>

LEMMA PartType ==
  ASSUME NEW S, NEW src \in Seq(S), NEW c \in S, NEW i \in 0..Len(src), NEW g,
         \A j \in (i + 1)..Len(src) : g[j] \in Seq(Seq(S))
  PROVE  Part(src, c, g, i) \in Seq(Seq(S))
  <1> DEFINE V == Seq(S)
             n == Len(src)
             end == Find(src, One(c), i)
  <1>1. CASE end # npos
    <2>1. end \in i..(n - 1)
      BY <1>1, FindIs
    <2>2. SubSeq(src, i + 1, end) \in V /\ end + 1 \in (i + 1)..n
      BY <2>1, CutIs
    <2>3. g[end + 1] \in Seq(V)
      BY <2>2
    <2> DEFINE p == SubSeq(src, i + 1, end)
               r == g[end + 1]
    <2>4. Part(src, c, g, i) = Cat(One(p), r)
      BY <1>1 DEF Part
    <2> HIDE DEF p, r, V
    <2>5. Cat(One(p), r) \in Seq(V)
      BY <2>2, <2>3, CatOfOne DEF p, r
    <2> QED  BY <2>4, <2>5 DEF V
  <1>2. CASE end = npos
    <2> DEFINE p == SubSeq(src, i + 1, n)
    <2>1. p \in V
      BY CutIs
    <2>2. Part(src, c, g, i) = IF i < n THEN One(p) ELSE <<>>
      BY <1>2 DEF Part
    <2> HIDE DEF p, V
    <2>3. One(p) \in Seq(V) /\ <<>> \in Seq(V)
      BY <2>1, NothingIs, WithIs
    <2> QED  BY <2>2, <2>3 DEF V
  <1> QED  BY <1>1, <1>2

LEMMA PiecesAre ==
  ASSUME NEW S, NEW src \in Seq(S), NEW c \in S
  PROVE  \E f : /\ \A i \in 0..Len(src) : f[i] = Part(src, c, f, i) /\ f[i] \in Seq(Seq(S))
                /\ Pieces(src, One(c)) = f[0]
  <1> DEFINE V == Seq(Seq(S))
             n == Len(src)
             F == [0..n -> V]
             step == [x \in F \X (0..n) |-> Part(src, c, x[1], x[2])]
             is(h) == h = [i \in 0..n |-> Part(src, c, h, i)]
             from == CHOOSE h : is(h)
  <1>1. n \in Nat /\ 0 \in 0..n /\ 0 <= n
    OBVIOUS
  <1>2. ASSUME NEW g \in F, NEW i \in 0..n PROVE Part(src, c, g, i) \in V
    <2>1. \A j \in (i + 1)..n : j \in 0..n
      OBVIOUS
    <2>2. \A j \in (i + 1)..n : g[j] \in V
      BY <2>1
    <2> HIDE DEF F
    <2> QED  BY <2>2, PartType
  <1>3. step \in [F \X (0..n) -> V] /\ \A g \in F, i \in 0..n : step[<<g, i>>] = Part(src, c, g, i)
    <2> HIDE DEF F, V, n
    <2> QED  BY <1>2
  <1> HIDE DEF step
  <1>4. ASSUME NEW g \in F, NEW h \in F, NEW i \in 0..n, \A j \in (i + 1)..n : g[j] = h[j]
        PROVE  step[<<g, i>>] = step[<<h, i>>]
    <2>1. CASE Find(src, One(c), i) # npos
      <3>1. Find(src, One(c), i) \in i..(n - 1)
        BY <2>1, FindIs
      <3>2. Find(src, One(c), i) + 1 \in (i + 1)..n
        BY <3>1
      <3>3. g[Find(src, One(c), i) + 1] = h[Find(src, One(c), i) + 1]
        BY <1>4, <3>2
      <3>4. Part(src, c, g, i) = Part(src, c, h, i)
        BY <2>1, <3>3, Zenon DEF Part
      <3> HIDE DEF F
      <3> QED  BY <1>3, <3>4
    <2>2. CASE Find(src, One(c), i) = npos
      <3>1. Part(src, c, g, i) = Part(src, c, h, i)
        BY <2>2, Zenon DEF Part
      <3> HIDE DEF F
      <3> QED  BY <1>3, <3>1
    <2> QED  BY <2>1, <2>2
  <1>5. \E f \in F : \A i \in 0..n : f[i] = step[<<f, i>>]
    <2>1. <<>> \in V
      BY NothingIs
    <2>2. \A g, h \in F, i \in 0..n :
            (\A j \in (i + 1)..n : g[j] = h[j]) => step[<<g, i>>] = step[<<h, i>>]
      <3> HIDE DEF F, n
      <3> QED  BY <1>4
    <2>3. 0 \in Int /\ n \in Int /\ 0 <= n
      BY <1>1
    <2>4. step \in [F \X (0..n) -> V]
      BY <1>3
    <2>5. LooksAhead(step, V, 0, n)
      BY <2>2, <2>4 DEF LooksAhead
    <2> HIDE DEF V, n
    <2> QED  BY <2>1, <2>3, <2>5, Backwards, SMTT(60)
  <1>6. PICK f \in F : \A i \in 0..n : f[i] = step[<<f, i>>]
    BY <1>5
  <1>7. is(f)
    <2>1. \A i \in 0..n : f[i] = Part(src, c, f, i)
      <3> HIDE DEF F
      <3> QED  BY <1>3, <1>6
    <2>2. f = [i \in 0..n |-> f[i]]
      OBVIOUS
    <2> QED  BY <2>1, <2>2
  <1>8. is(from)
    <2> HIDE DEF is
    <2> QED  BY <1>7
  <1>9. Pieces(src, One(c)) = from[0]
    BY Zenon DEF Pieces, Part, Cat, One
  <1> HIDE DEF from
  <1>10. \A i \in 0..n : from[i] = Part(src, c, from, i)
    <2> DEFINE P(i) == Part(src, c, from, i)
    <2>1. from = [i \in 0..n |-> P(i)]
      BY <1>8
    <2> HIDE DEF P
    <2>2. \A i \in 0..n : from[i] = P(i)
      BY <2>1
    <2> QED  BY <2>2 DEF P
  <1>11. \A i \in 0..n : from[i] \in V
    <2> DEFINE T == {i \in 0..n : from[i] \in V}
    <2>1. ASSUME NEW i \in 0..n, (i + 1)..n \subseteq T PROVE i \in T
      <3>1. \A j \in (i + 1)..n : from[j] \in V
        BY <2>1
      <3>2. Part(src, c, from, i) \in V
        BY <3>1, PartType
      <3> QED  BY <1>10, <3>2
    <2>2. 0..n \subseteq T
      <3> HIDE DEF T
      <3>1. 0 \in Int /\ n \in Int
        BY <1>1
      <3> HIDE DEF n
      <3> QED  BY <1>1, <2>1, <3>1, Downwards
    <2> QED  BY <2>2
  <1> QED  BY <1>9, <1>10, <1>11

\* SplitString of a text at a character.
LEMMA SplitIs ==
  ASSUME NEW S, NEW src \in Seq(S), NEW c \in S
  PROVE  LET ps == SplitString(src, One(c))
         IN /\ ps \in Seq(Seq(S))
            /\ Joined(ps, One(c)) = src
            /\ \A i \in 1..Len(ps) : \A k \in 1..Len(ps[i]) : ps[i][k] # c
  <1> DEFINE V == Seq(S)
             n == Len(src)
             Free(p) == \A k \in 1..Len(p) : p[k] # c
             ends == FindLastOf(src, One(c)) = n - Len(One(c))
             final == IF ends THEN One(<<>>) ELSE <<>>
  <1>1. n \in Nat /\ <<>> \in V /\ One(<<>>) \in Seq(V) /\ <<>> \in Seq(V) /\ One(<<>>) # <<>> /\ One(c) \in V
    <2>1. n \in Nat
      OBVIOUS
    <2>2. <<>> \in V /\ <<>> \in Seq(V)
      BY NothingIs
    <2>3. One(<<>>) \in Seq(V) /\ One(<<>>) # <<>>
      <3> HIDE DEF V
      <3> QED  BY <2>2, WithIs
    <2>4. One(c) \in V
      BY WithIs
    <2> QED  BY <2>1, <2>2, <2>3, <2>4
  <1>2. final \in Seq(V)
    BY <1>1
  <1>3. n > 0 => (ends <=> src[n] = c)
    BY <1>1, FindLastIs
  <1>4. n = 0 => ends
    BY <1>1, FindLastIs
  <1>5. PICK f : /\ \A i \in 0..n : f[i] = Part(src, c, f, i) /\ f[i] \in Seq(V)
                 /\ Pieces(src, One(c)) = f[0]
    BY PiecesAre
  <1> HIDE DEF ends
  <1> DEFINE Free2(ps) == \A i \in 1..Len(ps) : Free(ps[i])
             X(i) == Cat(f[i], final)
             Good(i) == /\ Free2(X(i)) /\ X(i) \in Seq(V)
                        /\ i < n \/ ends => X(i) # <<>> /\ Joined(X(i), One(c)) = SubSeq(src, i + 1, n)
                        /\ ~(i < n \/ ends) => X(i) = <<>>
             T == {i \in 0..n : Good(i)}
  <1>6. SplitString(src, One(c)) = X(0)
    BY <1>5, Zenon DEF SplitString, Cat, One, ends
  <1>7. \A p \in V : Free(p) => Free2(One(p))
    BY DEF One
  <1>8. Free2(<<>>) /\ Free2(One(<<>>))
    <2>1. Free(<<>>)
      OBVIOUS
    <2> HIDE DEF Free
    <2>2. Free2(One(<<>>))
      BY <1>1, <1>7, <2>1
    <2>3. Free2(<<>>)
      OBVIOUS
    <2> QED  BY <2>2, <2>3
  <1> HIDE DEF Free
  <1>9. Free2(final)
    BY <1>8
  <1>10. ASSUME NEW p \in V, NEW r \in Seq(V), Free(p), Free2(r) PROVE Free2(Cat(One(p), r))
    <2> HIDE DEF V
    <2>1. /\ Len(r) \in Nat /\ Len(Cat(One(p), r)) = Len(r) + 1 /\ Cat(One(p), r)[1] = p
          /\ \A k \in 2..(Len(r) + 1) : Cat(One(p), r)[k] = r[k - 1]
      BY ConsIs
    <2>2. ASSUME NEW k \in 1..(Len(r) + 1) PROVE Free(Cat(One(p), r)[k])
      <3>1. CASE k = 1
        BY <1>10, <2>1, <3>1
      <3>2. CASE k # 1
        <4>1. k \in 2..(Len(r) + 1) /\ k - 1 \in 1..Len(r)
          BY <2>1, <3>2
        <4> QED  BY <1>10, <2>1, <4>1
      <3> QED  BY <3>1, <3>2
    <2> QED  BY <2>1, <2>2
  <1> HIDE DEF Free2
  <1>11. ASSUME NEW i \in 0..n, (i + 1)..n \subseteq T PROVE i \in T
    <2> DEFINE end == Find(src, One(c), i)
    <2>0. f[i] = Part(src, c, f, i) /\ f[i] \in Seq(V) /\ i \in Int
      BY <1>5
    <2>1. CASE end # npos
      <3>1. end \in i..(n - 1) /\ src[end + 1] = c /\ \A k \in (i + 1)..end : src[k] # c
        BY <2>1, FindIs
      <3> DEFINE p == SubSeq(src, i + 1, end)
                 rest == SubSeq(src, end + 2, n)
      <3>2. /\ p \in V /\ \A k \in 1..Len(p) : p[k] = src[i + k] /\ i + k \in (i + 1)..end
            /\ SubSeq(src, i + 1, n) = Cat(p, Cat(One(c), rest))
        BY <3>1, CutIs
      <3>3. Free(p)
        <4> HIDE DEF p
        <4> QED  BY <3>1, <3>2 DEF Free
      <3>4. end + 1 \in (i + 1)..n /\ end + 1 \in 0..n /\ i < n /\ end + 1 + 1 = end + 2 /\ (end + 1 < n \/ end + 1 = n)
        BY <1>1, <2>0, <3>1, SMTT(60)
      <3>5. Good(end + 1)
        BY <1>11, <3>4
      <3>6. f[i] = Cat(One(p), f[end + 1]) /\ f[end + 1] \in Seq(V)
        BY <1>5, <2>0, <2>1, <3>4 DEF Part
      <3>7. X(end + 1) # <<>> /\ Joined(X(end + 1), One(c)) = rest
        <4>1. end + 1 = n => ends
          BY <1>1, <1>3, <3>1, <3>4
        <4> QED  BY <3>4, <3>5, <4>1
      <3> HIDE DEF p, rest, end
      <3>8. X(i) = Cat(One(p), X(end + 1))
        <4>1. One(p) \in Seq(V)
          <5> HIDE DEF V
          <5> QED  BY <3>2, OneIs
        <4> HIDE DEF V, final
        <4>2. Cat(Cat(One(p), f[end + 1]), final) = Cat(One(p), Cat(f[end + 1], final))
          BY <1>2, <3>6, <4>1, CatAssociates
        <4> QED  BY <3>6, <4>2
      <3> DEFINE x == X(end + 1)
      <3>9. x \in Seq(V) /\ Free2(x)
        BY <3>5
      <3>10. x # <<>> /\ Joined(x, One(c)) = rest
        BY <3>7
      <3> HIDE DEF x
      <3>11. Joined(Cat(One(p), x), One(c)) = Cat(p, Cat(One(c), rest))
        BY <1>1, <3>2, <3>9, <3>10, JoinedOfCons
      <3>12. Cat(One(p), x) # <<>> /\ Cat(One(p), x) \in Seq(V)
        <4> HIDE DEF V
        <4> QED  BY <3>2, <3>9, CatOfOne
      <3>13. Free2(Cat(One(p), x))
        BY <1>10, <3>2, <3>3, <3>9
      <3>14. X(i) = Cat(One(p), x)
        BY <3>8 DEF x
      <3> HIDE DEF X
      <3> QED  BY <3>2, <3>4, <3>11, <3>12, <3>13, <3>14
    <2>2. CASE end = npos
      <3>1. \A k \in (i + 1)..n : src[k] # c
        BY <2>2, FindIs DEF npos
      <3> DEFINE p == SubSeq(src, i + 1, n)
      <3>2. p \in V /\ \A k \in 1..Len(p) : p[k] = src[i + k] /\ i + k \in (i + 1)..n
        BY CutIs
      <3>3. Free(p)
        <4> HIDE DEF p
        <4> QED  BY <3>1, <3>2 DEF Free
      <3>4. f[i] = IF i < n THEN One(p) ELSE <<>>
        BY <2>0, <2>2 DEF Part
      <3>5. CASE i < n
        <4>1. n \in (i + 1)..n /\ n > 0
          BY <1>1, <2>0, <3>5
        <4>2. ~ends
          BY <1>3, <3>1, <4>1
        <4>3. One(p) \in Seq(V) /\ One(p) # <<>>
          <5> HIDE DEF V, p
          <5> QED  BY <3>2, OneIs
        <4>4. X(i) = One(p)
          <5> HIDE DEF V, p
          <5>1. Cat(One(p), <<>>) = One(p)
            BY <4>3, CatOfNothing
          <5> QED  BY <3>4, <3>5, <4>2, <5>1
        <4>5. Joined(One(p), One(c)) = p
          <5> HIDE DEF p
          <5> QED  BY <1>1, <3>2, JoinedOfOne
        <4>6. Free2(One(p))
          BY <1>7, <3>2, <3>3
        <4> HIDE DEF X
        <4> QED  BY <3>5, <4>2, <4>3, <4>4, <4>5, <4>6
      <3>6. CASE ~(i < n)
        <4>1. i = n
          BY <1>1, <2>0, <3>6
        <4>2. X(i) = final
          <5> HIDE DEF V
          <5>1. Cat(<<>>, final) = final
            BY <1>2, CatOfNothing
          <5> QED  BY <3>4, <3>6, <5>1
        <4>3. SubSeq(src, n + 1, n) = <<>>
          BY <1>1
        <4>4. ends => Joined(final, One(c)) = <<>> /\ final # <<>>
          <5>1. Joined(One(<<>>), One(c)) = <<>>
            BY <1>1, JoinedOfOne
          <5> QED  BY <1>1, <5>1
        <4> HIDE DEF X
        <4>5. ~ends => final = <<>>
          OBVIOUS
        <4> HIDE DEF final
        <4> QED  BY <1>2, <1>9, <3>6, <4>1, <4>2, <4>3, <4>4, <4>5
      <3> QED  BY <3>5, <3>6
    <2> QED  BY <2>1, <2>2
  <1>12. 0 \in T
    <2> HIDE DEF T
    <2>1. 0 \in Int /\ n \in Int /\ 0 <= n /\ 0 \in 0..n
      BY <1>1
    <2>2. 0..n \subseteq T
      <3> HIDE DEF n
      <3> QED  BY <1>11, <2>1, Downwards
    <2> QED  BY <2>1, <2>2
  <1>13. 0 < n \/ ends
    BY <1>1, <1>4
  <1>14. SubSeq(src, 1, n) = src
    OBVIOUS
  <1>15. X(0) \in Seq(V) /\ Free2(X(0)) /\ Joined(X(0), One(c)) = src
    <2> HIDE DEF X
    <2> QED  BY <1>12, <1>13, <1>14
  <1> HIDE DEF X
  <1> QED  BY <1>6, <1>15 DEF Free2, Free

\* ReplaceString is the replacing of each.
LEMMA ReplaceIs ==
  ASSUME NEW S, NEW src \in Seq(S), NEW c \in S, NEW to \in Seq(S)
  PROVE  ReplaceString(src, One(c), to) = Replaced(src, c, to) /\ Replaced(src, c, to) \in Seq(S)
  <1> DEFINE ps == SplitString(src, One(c))
  <1>1. ps \in Seq(Seq(S)) /\ Joined(ps, One(c)) = src
        /\ \A i \in 1..Len(ps) : \A k \in 1..Len(ps[i]) : ps[i][k] # c
    BY SplitIs
  <1>2. ReplaceString(src, One(c), to) = FlattenSeq([i \in DOMAIN ps |-> Led(i, to, ps[i])])
    BY Zenon DEF ReplaceString, Led
  <1> HIDE DEF ps
  <1>3. DOMAIN ps = 1..Len(ps)
    BY <1>1
  <1>4. ReplaceString(src, One(c), to) = Joined(ps, to)
    BY <1>2, <1>3, Zenon DEF Joined
  <1>5. Replaced(Joined(ps, One(c)), c, to) = Joined(ps, to)
    BY <1>1, ReplacedOfJoined
  <1> QED  BY <1>1, <1>4, <1>5, ReplacedType
\* What each character of a pattern becomes, and from where on.
Placed(p, w, pos) ==
    /\ pos \in [1..(Len(p) + 1) -> Nat]
    /\ pos[1] = 1 /\ pos[Len(p) + 1] = Len(w) + 1
    /\ \A k \in 1..Len(p) :
          LET at == pos[k]
          IN CASE p[k] = "." -> w[at] = "\\" /\ w[at + 1] = "." /\ pos[k + 1] = at + 2
               [] p[k] = "*" -> /\ w[at] = "(" /\ w[at + 1] = "." /\ w[at + 2] = "*" /\ w[at + 3] = ")"
                                /\ pos[k + 1] = at + 4
               [] OTHER -> w[at] = p[k] /\ pos[k + 1] = at + 1

Token(c) == IF c = "." THEN <<"\\", ".">> ELSE IF c = "*" THEN <<"(", ".", "*", ")">> ELSE One(c)

LEMMA TokenIs ==
  ASSUME NEW S, {".", "*", "\\", "(", ")"} \subseteq S, NEW c \in S
  PROVE  /\ Token(c) \in Seq(S)
         /\ c = "." => Len(Token(c)) = 2 /\ Token(c)[1] = "\\" /\ Token(c)[2] = "."
         /\ c = "*" => /\ Len(Token(c)) = 4
                       /\ Token(c)[1] = "(" /\ Token(c)[2] = "." /\ Token(c)[3] = "*" /\ Token(c)[4] = ")"
         /\ c \notin {".", "*"} => Len(Token(c)) = 1 /\ Token(c)[1] = c
  <1>1. CASE c = "."
    BY <1>1 DEF Token
  <1>2. CASE c = "*"
    BY <1>2 DEF Token
  <1>3. CASE c \notin {".", "*"}
    BY <1>3 DEF Token, One
  <1> QED  BY <1>1, <1>2, <1>3

LEMMA RegexOfWith ==
  ASSUME NEW S, {".", "*", "\\", "(", ")"} \subseteq S, NEW p \in Seq(S), NEW c \in S
  PROVE  /\ PatternToRegex(p) \in Seq(S)
         /\ PatternToRegex(With(p, c)) = Cat(PatternToRegex(p), Token(c))
  <1> DEFINE dot == <<"\\", ".">>
             star == <<"(", ".", "*", ")">>
             R(t) == Replaced(t, ".", dot)
             Q(t) == Replaced(t, "*", star)
  <1>1. dot \in Seq(S) /\ star \in Seq(S) /\ "." \in S /\ "*" \in S
    OBVIOUS
  <1>2. /\ \A k \in 1..Len(dot) : dot[k] # "*"
        /\ <<".">> = One(".") /\ <<"*">> = One("*")
    BY DEF One
  <1>3. Token(c) = IF c = "." THEN dot ELSE IF c = "*" THEN star ELSE One(c)
    BY Zenon DEF Token
  <1>4. \A t : PatternToRegex(t) = ReplaceString(ReplaceString(t, One("."), dot), One("*"), star)
    BY <1>2, Zenon DEF PatternToRegex
  <1> HIDE DEF dot, star
  <1>5. ASSUME NEW t \in Seq(S) PROVE PatternToRegex(t) = Q(R(t)) /\ R(t) \in Seq(S) /\ Q(R(t)) \in Seq(S)
    <2>1. ReplaceString(t, One("."), dot) = R(t) /\ R(t) \in Seq(S)
      BY <1>1, ReplaceIs
    <2> DEFINE r == R(t)
    <2>2. r \in Seq(S)
      BY <2>1
    <2> HIDE DEF r
    <2>3. ReplaceString(r, One("*"), star) = Q(r) /\ Q(r) \in Seq(S)
      BY <1>1, <2>2, ReplaceIs
    <2> QED  BY <1>4, <2>1, <2>3 DEF r
  <1>6. With(p, c) \in Seq(S) /\ One(c) \in Seq(S)
    BY WithIs
  <1> DEFINE x == IF c = "." THEN dot ELSE One(c)
  <1>7. R(With(p, c)) = Cat(R(p), x)
    BY <1>1, ReplacedOfWith
  <1>8. x \in Seq(S)
    BY <1>1, <1>6
  <1> DEFINE r == R(p)
  <1>9. r \in Seq(S)
    BY <1>5
  <1>10. Q(x) = Token(c)
    <2>1. CASE c = "."
      <3>1. Q(dot) = dot
        BY <1>1, <1>2, ReplacedOfPiece
      <3> QED  BY <1>3, <2>1, <3>1
    <2>2. CASE c = "*"
      <3>1. Q(One("*")) = star
        BY <1>1, ReplacedOfOne
      <3>2. x = One("*") /\ Token(c) = star
        BY <1>3, <2>2
      <3> QED  BY <3>1, <3>2
    <2>3. CASE c # "." /\ c # "*"
      <3>1. x = One(c) /\ Token(c) = One(c)
        BY <1>3, <2>3
      <3>2. \A k \in 1..Len(One(c)) : One(c)[k] # "*"
        BY <2>3 DEF One
      <3>3. Q(One(c)) = One(c)
        BY <1>1, <1>6, <3>2, ReplacedOfPiece
      <3> QED  BY <3>1, <3>3
    <2> QED  BY <2>1, <2>2, <2>3
  <1> HIDE DEF x, r
  <1>11. Q(Cat(r, x)) = Cat(Q(r), Q(x))
    BY <1>1, <1>8, <1>9, ReplacedOfCat
  <1> QED  BY <1>5, <1>6, <1>7, <1>10, <1>11 DEF r

LEMMA RegexOfNothing ==
  PatternToRegex(<<>>) = <<>>
  <1> DEFINE S == {".", "*", "\\", "(", ")"}
             dot == <<"\\", ".">>
             star == <<"(", ".", "*", ")">>
             nothing == <<>>
  <1>1. dot \in Seq(S) /\ star \in Seq(S) /\ "." \in S /\ "*" \in S
    OBVIOUS
  <1>2. nothing \in Seq(S) /\ <<".">> = One(".") /\ <<"*">> = One("*")
    BY NothingIs DEF One
  <1>3. Replaced(nothing, ".", dot) = nothing /\ Replaced(nothing, "*", star) = nothing
    BY ReplacedOfNothing
  <1>4. PatternToRegex(nothing) = ReplaceString(ReplaceString(nothing, One("."), dot), One("*"), star)
    BY <1>2, Zenon DEF PatternToRegex
  <1> HIDE DEF S, dot, star, nothing
  <1>5. ReplaceString(nothing, One("."), dot) = nothing
    BY <1>1, <1>2, <1>3, ReplaceIs
  <1>6. ReplaceString(nothing, One("*"), star) = nothing
    BY <1>1, <1>2, <1>3, ReplaceIs
  <1> QED  BY <1>4, <1>5, <1>6 DEF nothing

LEMMA RegexIs ==
  ASSUME NEW S, {".", "*", "\\", "(", ")"} \subseteq S, NEW p \in Seq(S)
  PROVE  /\ PatternToRegex(p) \in Seq(S)
         /\ \E pos : Placed(p, PatternToRegex(p), pos)
  <1> DEFINE W(t) == PatternToRegex(t)
             T == {t \in Seq(S) : W(t) \in Seq(S) /\ \E pos : Placed(t, W(t), pos)}
  <1>1. <<>> \in T
    <2> DEFINE pos == [k \in 1..1 |-> 1]
    <2>1. pos \in [1..(Len(<<>>) + 1) -> Nat] /\ pos[1] = 1 /\ pos[Len(<<>>) + 1] = Len(<<>>) + 1
          /\ ~(\E k \in 1..Len(<<>>) : TRUE)
      OBVIOUS
    <2> HIDE DEF pos
    <2>2. Placed(<<>>, <<>>, pos)
      BY <2>1 DEF Placed
    <2> QED  BY <2>2, RegexOfNothing, NothingIs
  <1>2. ASSUME NEW t \in Seq(S), NEW c \in S, t \in T PROVE With(t, c) \in T
    <2> DEFINE w == W(t)
               k1 == Token(c)
               v == Cat(w, k1)
               n == Len(t)
               u == With(t, c)
    <2>1. PICK pos : Placed(t, w, pos)
      BY <1>2
    <2>2. w \in Seq(S) /\ W(u) = v
      BY RegexOfWith
    <2>3. /\ u \in Seq(S) /\ n \in Nat /\ Len(u) = n + 1 /\ u[n + 1] = c
          /\ \A k \in 1..n : u[k] = t[k]
      BY WithIs
    <2>4. k1 \in Seq(S)
      BY TokenIs
    <2> HIDE DEF w, k1, u
    <2>5. v \in Seq(S)
      BY <2>2, <2>4, CatType
    <2>6. Len(w) \in Nat /\ Len(k1) \in Nat /\ Len(v) = Len(w) + Len(k1)
      BY <2>2, <2>4, CatLen
    <2>7. \A i \in 1..Len(w) : v[i] = w[i]
      BY <2>2, <2>4, CatLeft
    <2>8. \A i \in (Len(w) + 1)..(Len(w) + Len(k1)) : v[i] = k1[i - Len(w)]
      BY <2>2, <2>4, CatSecond
    <2> HIDE DEF v, n
    <2> DEFINE m == Len(w) + 1 + Len(k1)
               more == [k \in 1..(n + 2) |-> IF k = n + 2 THEN m ELSE pos[k]]
               Stands(q, x, f, k) == LET at == f[k]
                                   IN CASE q[k] = "." -> x[at] = "\\" /\ x[at + 1] = "." /\ f[k + 1] = at + 2
                                        [] q[k] = "*" -> /\ x[at] = "(" /\ x[at + 1] = "." /\ x[at + 2] = "*" /\ x[at + 3] = ")"
                                                         /\ f[k + 1] = at + 4
                                        [] OTHER -> x[at] = q[k] /\ f[k + 1] = at + 1
    <2>9. /\ pos \in [1..(n + 1) -> Nat] /\ pos[1] = 1 /\ pos[n + 1] = Len(w) + 1
          /\ \A k \in 1..n : Stands(t, w, pos, k)
      BY <2>1 DEF Placed, n
    <2>10. more \in [1..(n + 2) -> Nat] /\ more[n + 2] = m /\ \A k \in 1..(n + 1) : more[k] = pos[k]
      BY <2>3, <2>6, <2>9, SMTT(60)
    <2> HIDE DEF more
    <2>11. ASSUME NEW k \in 1..n
           PROVE  /\ pos[k] \in Nat /\ pos[k + 1] \in Nat /\ pos[k] >= 1
                  /\ pos[k + 1] > pos[k] /\ pos[k + 1] <= Len(w) + 1
      <3> DEFINE A == {i \in 0..n : pos[i + 1] >= 1}
                 B == {i \in 1..(n + 1) : pos[i] <= Len(w) + 1}
      <3>0. \A i \in 1..n : i \in 1..(n + 1) /\ i + 1 \in 1..(n + 1) /\ pos[i] \in Nat /\ pos[i + 1] \in Nat /\ pos[i + 1] > pos[i]
        <4> TAKE i \in 1..n
        <4>1. i \in 1..(n + 1) /\ i + 1 \in 1..(n + 1)
          BY <2>3
        <4>2. pos[i] \in Nat /\ pos[i + 1] \in Nat
          BY <2>9, <4>1
        <4>3. pos[i + 1] = pos[i] + 2 \/ pos[i + 1] = pos[i] + 4 \/ pos[i + 1] = pos[i] + 1
          BY <2>9
        <4> QED  BY <4>1, <4>2, <4>3
      <3>1. 0 \in A
        BY <2>3, <2>9
      <3>2. ASSUME NEW i \in 0..(n - 1), i \in A PROVE i + 1 \in A
        <4>1. i + 1 \in 1..n /\ i + 1 \in 0..n
          BY <2>3
        <4>2. pos[i + 1] \in Nat /\ pos[(i + 1) + 1] \in Nat /\ pos[(i + 1) + 1] > pos[i + 1]
          BY <3>0, <4>1
        <4> QED  BY <3>2, <4>1, <4>2
      <3>3. 0..n \subseteq A
        <4> HIDE DEF A
        <4> QED  BY <2>3, <3>1, <3>2, NumbersAre
      <3>4. ASSUME NEW i \in 1..(n + 1), (i + 1)..(n + 1) \subseteq B PROVE i \in B
        <4>1. CASE i = n + 1
          BY <2>6, <2>9, <4>1
        <4>2. CASE i # n + 1
          <5>1. i \in 1..n /\ i + 1 \in (i + 1)..(n + 1)
            BY <2>3, <4>2
          <5>2. pos[i + 1] <= Len(w) + 1
            BY <3>4, <5>1
          <5>3. pos[i] \in Nat /\ pos[i + 1] \in Nat /\ pos[i + 1] > pos[i]
            BY <3>0, <5>1
          <5> QED  BY <2>6, <5>2, <5>3
        <4> QED  BY <4>1, <4>2
      <3>5. 1..(n + 1) \subseteq B
        <4>1. 1 \in Int /\ n + 1 \in Int /\ 1 <= n + 1
          BY <2>3
        <4> HIDE DEF B
        <4> QED  BY <3>4, <4>1, Downwards
      <3>6. k - 1 \in A /\ (k - 1) + 1 = k /\ k + 1 \in B
        BY <2>3, <3>3, <3>5
      <3> QED  BY <3>0, <3>6
    <2>12. ASSUME NEW k \in 1..n PROVE Stands(u, v, more, k)
      <3>1. more[k] = pos[k] /\ more[k + 1] = pos[k + 1] /\ u[k] = t[k]
        BY <2>3, <2>10
      <3>2. ASSUME NEW i \in Nat, pos[k] + i < pos[k + 1] PROVE v[pos[k] + i] = w[pos[k] + i]
        <4>1. pos[k] + i \in 1..Len(w)
          BY <2>6, <2>9, <2>11, <3>2, SMTT(60)
        <4> QED  BY <2>7, <4>1
      <3>3. Stands(t, w, pos, k)
        BY <2>9
      <3>4. pos[k] \in Nat /\ pos[k] + 0 = pos[k]
        BY <2>11
      <3>5. CASE t[k] = "."
        <4>1. w[pos[k]] = "\\" /\ w[pos[k] + 1] = "." /\ pos[k + 1] = pos[k] + 2
          BY <3>3, <3>5
        <4>2. v[pos[k] + 0] = w[pos[k] + 0] /\ v[pos[k] + 1] = w[pos[k] + 1]
          BY <3>2, <3>4, <4>1
        <4> QED  BY <3>1, <3>4, <3>5, <4>1, <4>2
      <3>6. CASE t[k] = "*"
        <4>1. /\ w[pos[k]] = "(" /\ w[pos[k] + 1] = "." /\ w[pos[k] + 2] = "*" /\ w[pos[k] + 3] = ")"
              /\ pos[k + 1] = pos[k] + 4
          BY <3>3, <3>6
        <4>2. v[pos[k] + 0] = w[pos[k] + 0] /\ v[pos[k] + 1] = w[pos[k] + 1]
          BY <3>2, <3>4, <4>1, SMTT(60)
        <4>5. pos[k + 1] = pos[k] + 4
          BY <4>1
        <4>6. pos[k] \in Nat /\ pos[k] >= 1 /\ pos[k + 1] <= Len(w) + 1
          BY <2>11
        <4>3. v[pos[k] + 2] = w[pos[k] + 2]
          <5>1. pos[k] + 2 \in 1..Len(w)
            BY <2>6, <4>5, <4>6, SMTT(60)
          <5> QED  BY <2>7, <5>1
        <4>4. v[pos[k] + 3] = w[pos[k] + 3]
          <5>1. pos[k] + 3 \in 1..Len(w)
            BY <2>6, <4>5, <4>6, SMTT(60)
          <5> QED  BY <2>7, <5>1
        <4> QED  BY <3>1, <3>4, <3>6, <4>1, <4>2, <4>3, <4>4
      <3>7. CASE t[k] # "." /\ t[k] # "*"
        <4>1. w[pos[k]] = t[k] /\ pos[k + 1] = pos[k] + 1
          BY <3>3, <3>7
        <4>2. v[pos[k] + 0] = w[pos[k] + 0]
          BY <3>2, <3>4, <4>1
        <4> QED  BY <3>1, <3>4, <3>7, <4>1, <4>2
      <3> QED  BY <3>5, <3>6, <3>7
    <2>13. Stands(u, v, more, n + 1)
      <3> DEFINE l == Len(w) + 1
      <3>1. more[n + 1] = l /\ more[n + 1 + 1] = m /\ u[n + 1] = c /\ l \in Nat
        <4>1. n + 1 \in 1..(n + 1) /\ n + 1 + 1 = n + 2
          BY <2>3
        <4> QED  BY <2>3, <2>6, <2>9, <2>10, <4>1
      <3>2. ASSUME NEW i \in Nat, i < Len(k1) PROVE v[l + i] = k1[i + 1]
        <4>1. l + i \in (Len(w) + 1)..(Len(w) + Len(k1)) /\ l + i - Len(w) = i + 1
          BY <2>6, <3>2
        <4> QED  BY <2>8, <4>1
      <3>3. m = l + Len(k1) /\ l + 0 = l /\ 0 + 1 = 1 /\ 1 + 1 = 2 /\ 2 + 1 = 3 /\ 3 + 1 = 4
        BY <2>6
      <3> HIDE DEF l, m
      <3>4. CASE c = "."
        <4>1. Len(k1) = 2 /\ k1[1] = "\\" /\ k1[2] = "."
          BY <3>4, TokenIs DEF k1
        <4>2. v[l + 0] = k1[0 + 1] /\ v[l + 1] = k1[1 + 1]
          BY <3>2, <4>1
        <4> QED  BY <3>1, <3>3, <3>4, <4>1, <4>2
      <3>5. CASE c = "*"
        <4>1. Len(k1) = 4 /\ k1[1] = "(" /\ k1[2] = "." /\ k1[3] = "*" /\ k1[4] = ")"
          BY <3>5, TokenIs DEF k1
        <4>2. v[l + 0] = k1[0 + 1] /\ v[l + 1] = k1[1 + 1] /\ v[l + 2] = k1[2 + 1] /\ v[l + 3] = k1[3 + 1]
          BY <3>2, <4>1
        <4> QED  BY <3>1, <3>3, <3>5, <4>1, <4>2
      <3>6. CASE c # "." /\ c # "*"
        <4>1. Len(k1) = 1 /\ k1[1] = c
          BY <3>6, TokenIs DEF k1
        <4>2. v[l + 0] = k1[0 + 1]
          BY <3>2, <4>1
        <4> QED  BY <3>1, <3>3, <3>6, <4>1, <4>2
      <3> QED  BY <3>4, <3>5, <3>6
    <2>14. \A k \in 1..Len(u) : Stands(u, v, more, k)
      <3>1. \A k \in 1..Len(u) : k \in 1..n \/ k = n + 1
        BY <2>3
      <3> HIDE DEF Stands
      <3> QED  BY <2>12, <2>13, <3>1
    <2>15. more \in [1..(Len(u) + 1) -> Nat] /\ more[1] = 1 /\ more[Len(u) + 1] = Len(v) + 1
      <3>1. Len(u) + 1 = n + 2 /\ 1 \in 1..(n + 1) /\ m = Len(v) + 1
        BY <2>3, <2>6
      <3> HIDE DEF m
      <3> QED  BY <2>9, <2>10, <3>1
    <2>16. Placed(u, v, more)
      BY <2>14, <2>15, Zenon DEF Placed
    <2> QED  BY <2>2, <2>3, <2>5, <2>16 DEF u, w
  <1> HIDE DEF T
  <1>3. p \in T
    BY <1>1, <1>2, SequencesWith
  <1> QED  BY <1>3 DEF T
\* One step of std::regex_match, from place i of the expression.
FitsAt(regex, input, i, j) ==
    regex[i] = "." \/ input[j] = regex[IF regex[i] = "\\" THEN i + 1 ELSE i]
EndsAt(regex, input, g, i) ==
    IF i > Len(regex) THEN {Len(input) + 1}
    ELSE IF regex[i] \in {"(", ")"} THEN g[i + 1]
    ELSE LET last == IF regex[i] = "\\" THEN i + 1 ELSE i
         IN IF last < Len(regex) /\ regex[last + 1] = "*"
            THEN {j \in 1..(Len(input) + 1) :
                     \E k \in g[last + 2] : j <= k /\ \A m \in j..(k - 1) : FitsAt(regex, input, i, m)}
            ELSE {j \in 1..Len(input) : FitsAt(regex, input, i, j) /\ j + 1 \in g[last + 1]}

LEMMA EndsAre ==
  ASSUME NEW S, NEW regex \in Seq(S), NEW input \in Seq(S)
  PROVE  \E ends : /\ \A i \in 1..(Len(regex) + 2) : ends[i] = EndsAt(regex, input, ends, i)
                   /\ IsPatternMatched(input, regex) <=> 1 \in ends[1]
  <1> DEFINE V == SUBSET Nat
             n == Len(regex) + 2
             F == [1..n -> V]
             step == [x \in F \X (1..n) |-> EndsAt(regex, input, x[1], x[2])]
             is(h) == h = [i \in 1..n |-> EndsAt(regex, input, h, i)]
             ends == CHOOSE h : is(h)
  <1>1. n \in Nat /\ Len(regex) \in Nat /\ Len(regex) = n - 2 /\ 1 <= n /\ Len(input) \in Nat
    OBVIOUS
  <1> HIDE DEF n
  <1>2. ASSUME NEW g \in F, NEW i \in 1..n PROVE EndsAt(regex, input, g, i) \in V
    <2>1. CASE i > Len(regex)
      <3>1. EndsAt(regex, input, g, i) = {Len(input) + 1}
        BY <2>1 DEF EndsAt
      <3> QED  BY <1>1, <3>1
    <2>2. CASE ~(i > Len(regex)) /\ regex[i] \in {"(", ")"}
      <3>1. EndsAt(regex, input, g, i) = g[i + 1] /\ i + 1 \in 1..n
        BY <1>1, <2>2 DEF EndsAt
      <3> QED  BY <3>1
    <2>3. CASE ~(i > Len(regex)) /\ ~(regex[i] \in {"(", ")"})
      <3>1. EndsAt(regex, input, g, i) \subseteq 1..(Len(input) + 1)
        BY <1>1, <2>3 DEF EndsAt
      <3>2. 1..(Len(input) + 1) \subseteq Nat
        BY <1>1
      <3> QED  BY <3>1, <3>2
    <2> QED  BY <2>1, <2>2, <2>3
  <1>3. step \in [F \X (1..n) -> V] /\ \A g \in F, i \in 1..n : step[<<g, i>>] = EndsAt(regex, input, g, i)
    <2> HIDE DEF F, V
    <2> QED  BY <1>2
  <1> HIDE DEF step
  <1>4. ASSUME NEW g \in F, NEW h \in F, NEW i \in 1..n, \A j \in (i + 1)..n : g[j] = h[j]
        PROVE  step[<<g, i>>] = step[<<h, i>>]
    <2> DEFINE last == IF regex[i] = "\\" THEN i + 1 ELSE i
               left == last < Len(regex) /\ regex[last + 1] = "*"
    <2>1. CASE i > Len(regex)
      <3>1. EndsAt(regex, input, g, i) = EndsAt(regex, input, h, i)
        BY <2>1, Zenon DEF EndsAt
      <3> HIDE DEF F
      <3> QED  BY <1>3, <3>1
    <2>2. CASE ~(i > Len(regex))
      <3>1. i + 1 \in (i + 1)..n /\ last + 1 \in (i + 1)..n /\ (left => last + 2 \in (i + 1)..n)
        BY <1>1, <2>2
      <3>2. g[i + 1] = h[i + 1] /\ g[last + 1] = h[last + 1] /\ (left => g[last + 2] = h[last + 2])
        BY <1>4, <3>1
      <3>3. EndsAt(regex, input, g, i) = EndsAt(regex, input, h, i)
        <4>1. CASE regex[i] \in {"(", ")"}
          BY <2>2, <3>2, <4>1, Zenon DEF EndsAt
        <4>2. CASE regex[i] \notin {"(", ")"} /\ left
          <5>1. g[last + 2] = h[last + 2]
            BY <3>2, <4>2
          <5> QED  BY <2>2, <4>2, <5>1, Zenon DEF EndsAt
        <4>3. CASE regex[i] \notin {"(", ")"} /\ ~left
          BY <2>2, <3>2, <4>3, Zenon DEF EndsAt
        <4> QED  BY <4>1, <4>2, <4>3
      <3> HIDE DEF F
      <3> QED  BY <1>3, <3>3
    <2> QED  BY <2>1, <2>2
  <1>5. \E f \in F : \A i \in 1..n : f[i] = step[<<f, i>>]
    <2>1. {} \in V /\ 1 \in Int /\ n \in Int /\ 1 <= n
      BY <1>1
    <2>2. \A g, h \in F, i \in 1..n :
            (\A j \in (i + 1)..n : g[j] = h[j]) => step[<<g, i>>] = step[<<h, i>>]
      <3> HIDE DEF F
      <3> QED  BY <1>4
    <2>3. step \in [F \X (1..n) -> V]
      BY <1>3
    <2>4. LooksAhead(step, V, 1, n)
      BY <2>2, <2>3 DEF LooksAhead
    <2> HIDE DEF V
    <2>5. \E f \in [1..n -> V] : \A i \in 1..n : f[i] = step[<<f, i>>]
      BY <2>1, <2>4, Backwards
    <2> QED  BY <2>5
  <1>6. PICK f \in F : \A i \in 1..n : f[i] = step[<<f, i>>]
    BY <1>5
  <1>7. is(f)
    <2>1. \A i \in 1..n : f[i] = EndsAt(regex, input, f, i)
      <3> HIDE DEF F
      <3> QED  BY <1>3, <1>6
    <2>2. f = [i \in 1..n |-> f[i]]
      OBVIOUS
    <2> QED  BY <2>1, <2>2
  <1>8. is(ends)
    <2> HIDE DEF is
    <2> QED  BY <1>7
  <1>9. IsPatternMatched(input, regex) <=> 1 \in ends[1]
    BY Zenon DEF IsPatternMatched, EndsAt, FitsAt, n
  <1> HIDE DEF ends
  <1>10. \A i \in 1..n : ends[i] = EndsAt(regex, input, ends, i)
    <2> DEFINE P(i) == EndsAt(regex, input, ends, i)
    <2>1. ends = [i \in 1..n |-> P(i)]
      BY <1>8
    <2> HIDE DEF P
    <2>2. \A i \in 1..n : ends[i] = P(i)
      BY <2>1
    <2> QED  BY <2>2 DEF P
  <1> QED  BY <1>9, <1>10 DEF n

\* How a name divides up among the characters of a pattern.
Rule(p, name, at, i) ==
    IF p[i] = "*" THEN at[i] <= at[i + 1] ELSE at[i + 1] = at[i] + 1 /\ name[at[i]] = p[i]

LEMMA DividesUp ==
  ASSUME NEW S, NEW p \in Seq(S), NEW name \in Seq(S), NEW E,
         E[Len(p) + 1] = {Len(name) + 1},
         \A i \in 1..Len(p) :
            E[i] = IF p[i] = "*" THEN {j \in 1..(Len(name) + 1) : \E k \in E[i + 1] : j <= k}
                   ELSE {j \in 1..Len(name) : name[j] = p[i] /\ j + 1 \in E[i + 1]}
  PROVE  1 \in E[1] <=> Wildcard(p, name)
  <1> DEFINE n == Len(p)
             N == Len(name)
             F == [1..(n + 1) -> 1..(N + 1)]
  <1>1. n \in Nat /\ N \in Nat
    OBVIOUS
  <1>2. ASSUME NEW i \in 1..n, NEW j
        PROVE  j \in E[i] <=> IF p[i] = "*" THEN j \in 1..(N + 1) /\ \E k \in E[i + 1] : j <= k
                              ELSE j \in 1..N /\ name[j] = p[i] /\ j + 1 \in E[i + 1]
    BY <1>2
  <1>3. Wildcard(p, name) <=> \E at \in F : /\ at[1] = 1 /\ at[n + 1] = N + 1
                                            /\ \A i \in 1..n : Rule(p, name, at, i)
    BY Zenon DEF Wildcard, Rule
  <1>4. E[n + 1] = {N + 1}
    OBVIOUS
  <1> HIDE DEF n, N, F
  <1>5. ASSUME NEW at \in F, at[1] = 1, at[n + 1] = N + 1, \A i \in 1..n : Rule(p, name, at, i)
        PROVE  1 \in E[1]
    <2> DEFINE T == {k \in 1..(n + 1) : at[k] \in E[k]}
    <2>1. ASSUME NEW i \in 1..(n + 1), (i + 1)..(n + 1) \subseteq T PROVE i \in T
      <3>1. CASE i = n + 1
        BY <1>4, <1>5, <3>1
      <3>2. CASE i # n + 1
        <4>1. i \in 1..n /\ i + 1 \in (i + 1)..(n + 1) /\ i + 1 \in 1..(n + 1)
          BY <1>1, <3>2
        <4>2. at[i + 1] \in E[i + 1]
          BY <2>1, <4>1
        <4>3. at[i] \in 1..(N + 1) /\ at[i + 1] \in 1..(N + 1)
          BY <4>1 DEF F
        <4>4. CASE p[i] = "*"
          <5>1. at[i] <= at[i + 1]
            BY <1>5, <4>1, <4>4 DEF Rule
          <5>2. at[i] \in E[i]
            BY <1>2, <4>1, <4>2, <4>3, <4>4, <5>1
          <5> QED  BY <5>2
        <4>5. CASE p[i] # "*"
          <5>1. at[i + 1] = at[i] + 1 /\ name[at[i]] = p[i]
            BY <1>5, <4>1, <4>5 DEF Rule
          <5>2. at[i] \in 1..N
            BY <1>1, <4>3, <5>1
          <5>3. at[i] + 1 \in E[i + 1]
            BY <4>2, <5>1
          <5>4. at[i] \in E[i]
            BY <1>2, <4>1, <4>5, <5>1, <5>2, <5>3
          <5> QED  BY <5>4
        <4> QED  BY <4>4, <4>5
      <3> QED  BY <3>1, <3>2
    <2>2. 1..(n + 1) \subseteq T
      <3>1. 1 \in Int /\ n + 1 \in Int /\ 1 <= n + 1
        BY <1>1
      <3> HIDE DEF T
      <3> QED  BY <2>1, <3>1, Downwards
    <2>3. 1 \in 1..(n + 1)
      BY <1>1
    <2> QED  BY <1>5, <2>2, <2>3
  <1>6. ASSUME 1 \in E[1]
        PROVE  \E at \in F : at[1] = 1 /\ at[n + 1] = N + 1 /\ \A i \in 1..n : Rule(p, name, at, i)
    <2> DEFINE Upto(at, k) == /\ at[1] = 1 /\ at[k + 1] \in E[k + 1]
                              /\ \A i \in 1..k : Rule(p, name, at, i)
               T == {k \in 0..n : \E at \in F : Upto(at, k)}
    <2>0. ASSUME NEW k \in 1..(n + 1), NEW j \in E[k] PROVE j \in 1..(N + 1)
      <3>1. CASE k = n + 1
        <4>1. j = N + 1
          BY <1>4, <3>1
        <4> QED  BY <1>1, <4>1
      <3>2. CASE k # n + 1
        <4>1. k \in 1..n
          BY <1>1, <3>2
        <4>2. j \in 1..(N + 1) \/ j \in 1..N
          BY <1>2, <4>1
        <4> QED  BY <1>1, <4>2
      <3> QED  BY <3>1, <3>2
    <2>1. 0 \in T
      <3> DEFINE at == [k \in 1..(n + 1) |-> 1]
      <3>1. at \in F
        BY <1>1 DEF F
      <3>2. at[1] = 1 /\ 0 + 1 = 1 /\ ~(\E i \in 1..0 : TRUE) /\ 0 \in 0..n
        BY <1>1
      <3>3. Upto(at, 0)
        <4> HIDE DEF at
        <4> QED  BY <1>6, <3>2
      <3> HIDE DEF Upto, at
      <3> QED  BY <3>1, <3>2, <3>3
    <2>2. ASSUME NEW k \in 0..(n - 1), k \in T PROVE k + 1 \in T
      <3>1. PICK at \in F : Upto(at, k)
        BY <2>2
      <3> DEFINE m == k + 1
      <3>2. m \in 1..n /\ m \in 0..n /\ m \in 1..(n + 1) /\ m + 1 \in 1..(n + 1) /\ m + 1 # 1 /\ m # m + 1
        BY <1>1
      <3>3. at[m] \in E[m]
        BY <3>1
      <3>4. \E j \in E[m + 1] : IF p[m] = "*" THEN at[m] <= j ELSE j = at[m] + 1 /\ name[at[m]] = p[m]
        <4> HIDE DEF m
        <4>1. CASE p[m] = "*"
          BY <1>2, <3>2, <3>3, <4>1
        <4>2. CASE p[m] # "*"
          <5>1. name[at[m]] = p[m] /\ at[m] + 1 \in E[m + 1]
            BY <1>2, <3>2, <3>3, <4>2
          <5> QED  BY <4>2, <5>1
        <4> QED  BY <4>1, <4>2
      <3>5. PICK j \in E[m + 1] : IF p[m] = "*" THEN at[m] <= j ELSE j = at[m] + 1 /\ name[at[m]] = p[m]
        BY <3>4
      <3>6. \A i \in 1..m : i = m \/ i \in 1..k
        BY <1>1
      <3>7. \A i \in 1..k : i \in 1..n /\ i + 1 \in 1..(n + 1) /\ i \in 1..(n + 1) /\ i # m + 1 /\ i + 1 # m + 1
        BY <1>1
      <3> HIDE DEF m
      <3> DEFINE next == [at EXCEPT ![m + 1] = j]
      <3>8. j \in 1..(N + 1)
        BY <2>0, <3>2
      <3>9. next \in F /\ next[m + 1] = j /\ \A i \in 1..(n + 1) : i # m + 1 => next[i] = at[i]
        BY <3>2, <3>8 DEF F
      <3> HIDE DEF next
      <3>10. ASSUME NEW i \in 1..m PROVE Rule(p, name, next, i)
        <4>1. CASE i = m
          <5>1. next[m] = at[m] /\ next[m + 1] = j
            BY <3>2, <3>9
          <5> QED  BY <3>5, <4>1, <5>1 DEF Rule
        <4>2. CASE i \in 1..k
          <5>1. next[i] = at[i] /\ next[i + 1] = at[i + 1]
            BY <3>7, <3>9, <4>2
          <5>2. Rule(p, name, at, i)
            BY <3>1, <4>2
          <5> QED  BY <5>1, <5>2 DEF Rule
        <4> QED  BY <3>6, <4>1, <4>2
      <3>11. next[1] = 1
        <4>1. 1 \in 1..(n + 1)
          BY <1>1
        <4> QED  BY <3>1, <3>2, <3>9, <4>1
      <3>12. Upto(next, m)
        BY <3>5, <3>9, <3>10, <3>11
      <3> HIDE DEF Upto
      <3>13. m \in T
        BY <3>2, <3>9, <3>12
      <3> QED  BY <3>13 DEF m
    <2>3. n \in T
      <3> HIDE DEF T
      <3>1. 0..n \subseteq T
        BY <1>1, <2>1, <2>2, NumbersAre
      <3> QED  BY <1>1, <3>1
    <2>4. PICK at \in F : Upto(at, n)
      BY <2>3
    <2>5. at[n + 1] = N + 1
      BY <1>4, <2>4
    <2> QED  BY <2>4, <2>5
  <1> QED  BY <1>3, <1>5, <1>6

\* std::regex_match of what PatternToRegex returns matches what the pattern means.
LEMMA PatternMatchesWhatIsMeant ==
  ASSUME NEW S, {".", "*", "\\", "(", ")"} \subseteq S, NEW p \in Seq(S), NEW name \in Seq(S),
         \A i \in 1..Len(p) : p[i] \notin {"\\", "(", ")"}
  PROVE  IsPatternMatched(name, PatternToRegex(p)) <=> Wildcard(p, name)
  <1> DEFINE w == PatternToRegex(p)
             n == Len(p)
             N == Len(name)
  <1>1. w \in Seq(S) /\ \E pos : Placed(p, w, pos)
    BY RegexIs
  <1>2. n \in Nat /\ N \in Nat
    OBVIOUS
  <1> HIDE DEF w
  <1>3. Len(w) \in Nat
    BY <1>1
  <1>4. PICK pos : Placed(p, w, pos)
    BY <1>1
  <1>5. PICK ends : /\ \A i \in 1..(Len(w) + 2) : ends[i] = EndsAt(w, name, ends, i)
                    /\ IsPatternMatched(name, w) <=> 1 \in ends[1]
    BY <1>1, EndsAre
  <1> HIDE DEF n, N
  <1>6. pos \in [1..(n + 1) -> Nat] /\ pos[1] = 1 /\ pos[n + 1] = Len(w) + 1
    BY <1>4 DEF Placed, n
  <1>7. ASSUME NEW k \in 1..n
        PROVE  /\ p[k] = "." => w[pos[k]] = "\\" /\ w[pos[k] + 1] = "." /\ pos[k + 1] = pos[k] + 2
               /\ p[k] = "*" => /\ w[pos[k]] = "(" /\ w[pos[k] + 1] = "."
                                /\ w[pos[k] + 2] = "*" /\ w[pos[k] + 3] = ")"
                                /\ pos[k + 1] = pos[k] + 4
               /\ p[k] \notin {".", "*"} => w[pos[k]] = p[k] /\ pos[k + 1] = pos[k] + 1
    BY <1>4 DEF Placed, n
  <1>8. ASSUME NEW k \in 1..n
        PROVE  /\ k \in 1..(n + 1) /\ k + 1 \in 1..(n + 1)
               /\ pos[k] \in Nat /\ pos[k + 1] \in Nat /\ pos[k] < pos[k + 1]
    <2>1. k \in 1..(n + 1) /\ k + 1 \in 1..(n + 1)
      BY <1>2
    <2>2. pos[k] \in Nat /\ pos[k + 1] \in Nat
      BY <1>6, <2>1
    <2>3. pos[k + 1] = pos[k] + 2 \/ pos[k + 1] = pos[k] + 4 \/ pos[k + 1] = pos[k] + 1
      BY <1>7
    <2> QED  BY <2>1, <2>2, <2>3
  <1>9. ASSUME NEW k \in 1..(n + 1) PROVE pos[k] \in 1..(Len(w) + 1)
    <2> DEFINE A == {i \in 0..n : pos[i + 1] >= 1}
               B == {i \in 1..(n + 1) : pos[i] <= Len(w) + 1}
    <2>1. 0 \in A
      BY <1>2, <1>6
    <2>2. ASSUME NEW i \in 0..(n - 1), i \in A PROVE i + 1 \in A
      <3>1. i + 1 \in 1..n /\ i + 1 \in 0..n
        BY <1>2
      <3>2. pos[i + 1] \in Nat /\ pos[(i + 1) + 1] \in Nat /\ pos[i + 1] < pos[(i + 1) + 1]
        BY <1>8, <3>1
      <3> QED  BY <2>2, <3>1, <3>2
    <2>3. 0..n \subseteq A
      <3> HIDE DEF A
      <3> QED  BY <1>2, <2>1, <2>2, NumbersAre
    <2>4. ASSUME NEW i \in 1..(n + 1), (i + 1)..(n + 1) \subseteq B PROVE i \in B
      <3>1. CASE i = n + 1
        BY <1>3, <1>6, <3>1
      <3>2. CASE i # n + 1
        <4>1. i \in 1..n /\ i + 1 \in (i + 1)..(n + 1)
          BY <1>2, <3>2
        <4>2. pos[i + 1] <= Len(w) + 1
          BY <2>4, <4>1
        <4>3. pos[i] \in Nat /\ pos[i + 1] \in Nat /\ pos[i] < pos[i + 1]
          BY <1>8, <4>1
        <4> QED  BY <1>3, <4>2, <4>3
      <3> QED  BY <3>1, <3>2
    <2>5. 1..(n + 1) \subseteq B
      <3>1. 1 \in Int /\ n + 1 \in Int /\ 1 <= n + 1
        BY <1>2
      <3> HIDE DEF B
      <3> QED  BY <2>4, <3>1, Downwards
    <2>6. k - 1 \in A /\ (k - 1) + 1 = k /\ k \in B
      BY <1>2, <2>3, <2>5, SMTT(60)
    <2>7. pos[k] \in Nat
      BY <1>6
    <2> QED  BY <1>3, <2>6, <2>7
  <1>10. ASSUME NEW k \in 1..(n + 1), pos[k] <= Len(w) PROVE w[pos[k]] # "*"
    <2>1. k \in 1..n
      BY <1>2, <1>3, <1>6, <1>10
    <2> QED  BY <1>7, <2>1
  <1> DEFINE E == [k \in 1..(n + 1) |-> ends[pos[k]]]
  <1>11. E[n + 1] = {N + 1}
    <2>1. n + 1 \in 1..(n + 1) /\ Len(w) + 1 \in 1..(Len(w) + 2) /\ Len(w) + 1 > Len(w)
      BY <1>2, <1>3
    <2>2. ends[Len(w) + 1] = {N + 1}
      BY <1>5, <2>1 DEF EndsAt, N
    <2> QED  BY <1>6, <2>1, <2>2
  <1>12. ASSUME NEW k \in 1..n
         PROVE  E[k] = IF p[k] = "*" THEN {j \in 1..(N + 1) : \E i \in E[k + 1] : j <= i}
                       ELSE {j \in 1..N : name[j] = p[k] /\ j + 1 \in E[k + 1]}
    <2> DEFINE a == pos[k]
               b == pos[k + 1]
               X == E[k + 1]
    <2>1. E[k] = ends[a] /\ X = ends[b]
      BY <1>8
    <2>2. /\ a \in 1..(Len(w) + 1) /\ b \in 1..(Len(w) + 1) /\ a < b
          /\ b <= Len(w) => w[b] # "*"
      BY <1>8, <1>9, <1>10
    <2>3. /\ p[k] = "." => w[a] = "\\" /\ w[a + 1] = "." /\ b = a + 2
          /\ p[k] = "*" => w[a] = "(" /\ w[a + 1] = "." /\ w[a + 2] = "*" /\ w[a + 3] = ")" /\ b = a + 4
          /\ p[k] \notin {".", "*"} => w[a] = p[k] /\ b = a + 1
      BY <1>7
    <2>4. p[k] \notin {"\\", "(", ")"}
      BY DEF n
    <2> HIDE DEF a, b, E, X
    <2>5. \A i \in 1..Len(w) : i \in 1..(Len(w) + 2) /\ ~(i > Len(w)) /\ ends[i] = EndsAt(w, name, ends, i)
      <3> TAKE i \in 1..Len(w)
      <3>1. i \in 1..(Len(w) + 2) /\ ~(i > Len(w))
        BY <1>3
      <3> QED  BY <1>5, <3>1
    <2>6. CASE p[k] = "."
      <3>1. a \in 1..Len(w) /\ a + 1 + 1 = b /\ (a + 1 < Len(w) => b <= Len(w))
        BY <1>3, <2>2, <2>3, <2>6
      <3>2. ~(a + 1 < Len(w) /\ w[a + 1 + 1] = "*")
        BY <2>2, <3>1
      <3>3. w[a] = "\\" /\ w[a + 1] = "." /\ ~(w[a] \in {"(", ")"}) /\ w[a] # "."
        BY <2>3, <2>6
      <3>4. EndsAt(w, name, ends, a) = {j \in 1..N : FitsAt(w, name, a, j) /\ j + 1 \in ends[a + 1 + 1]}
        <4>1. ~(a > Len(w))
          BY <2>5, <3>1
        <4> QED  BY <3>2, <3>3, <4>1, Zenon DEF EndsAt, N
      <3>5. \A j : FitsAt(w, name, a, j) <=> name[j] = "."
        BY <3>3 DEF FitsAt
      <3>6. ends[a] = {j \in 1..N : name[j] = "." /\ j + 1 \in X}
        BY <2>1, <2>5, <3>1, <3>4, <3>5
      <3> QED  BY <2>1, <2>6, <3>6 DEF X
    <2>7. CASE p[k] = "*"
      <3>1. /\ a \in 1..Len(w) /\ a + 1 \in 1..Len(w) /\ a + 3 \in 1..Len(w)
            /\ a + 1 < Len(w) /\ a + 1 + 1 = a + 2 /\ a + 1 + 2 = a + 3 /\ a + 3 + 1 = b
        BY <1>3, <2>2, <2>3, <2>7
      <3>2. w[a] = "(" /\ w[a + 1] = "." /\ w[a + 2] = "*" /\ w[a + 3] = ")"
        BY <2>3, <2>7
      <3>3. EndsAt(w, name, ends, a) = ends[a + 1] /\ EndsAt(w, name, ends, a + 3) = ends[b]
        BY <2>5, <3>1, <3>2 DEF EndsAt
      <3>4. ends[a] = ends[a + 1] /\ ends[a + 3] = X
        BY <2>1, <2>5, <3>1, <3>3
      <3>5. EndsAt(w, name, ends, a + 1) =
              {j \in 1..(N + 1) : \E i \in ends[a + 1 + 2] : j <= i /\ \A m \in j..(i - 1) : FitsAt(w, name, a + 1, m)}
        <4>1. ~(a + 1 > Len(w)) /\ w[a + 1] # "\\" /\ ~(w[a + 1] \in {"(", ")"}) /\ w[a + 1 + 1] = "*" /\ a + 1 < Len(w)
          BY <2>5, <3>1, <3>2
        <4> QED  BY <4>1, Zenon DEF EndsAt, N
      <3>6. \A m : FitsAt(w, name, a + 1, m)
        BY <3>2 DEF FitsAt
      <3>7. ends[a + 1] = {j \in 1..(N + 1) : \E i \in X : j <= i}
        <4>1. ends[a + 1] = EndsAt(w, name, ends, a + 1) /\ ends[a + 1 + 2] = X
          BY <2>5, <3>1, <3>4
        <4> QED  BY <3>5, <3>6, <4>1, Zenon
      <3> QED  BY <2>1, <2>7, <3>4, <3>7 DEF X
    <2>8. CASE p[k] # "." /\ p[k] # "*"
      <3>1. w[a] = p[k] /\ b = a + 1
        BY <2>3, <2>8
      <3>2. a \in 1..Len(w) /\ (a < Len(w) => b <= Len(w))
        BY <1>3, <2>2, <3>1
      <3>3. ~(a < Len(w) /\ w[a + 1] = "*")
        BY <2>2, <3>1, <3>2
      <3>4. w[a] # "\\" /\ ~(w[a] \in {"(", ")"}) /\ w[a] # "." /\ ~(a > Len(w))
        BY <2>4, <2>5, <2>8, <3>1, <3>2
      <3>5. EndsAt(w, name, ends, a) = {j \in 1..N : FitsAt(w, name, a, j) /\ j + 1 \in ends[a + 1]}
        BY <3>3, <3>4, Zenon DEF EndsAt, N
      <3>6. \A j : FitsAt(w, name, a, j) <=> name[j] = p[k]
        BY <3>1, <3>4 DEF FitsAt
      <3>7. ends[a] = {j \in 1..N : name[j] = p[k] /\ j + 1 \in X}
        BY <2>1, <2>5, <3>1, <3>2, <3>5, <3>6
      <3> QED  BY <2>1, <2>8, <3>7 DEF X
    <2> QED  BY <2>6, <2>7, <2>8 DEF X
  <1>13. E[1] = ends[1]
    <2>1. 1 \in 1..(n + 1)
      BY <1>2
    <2> QED  BY <1>6, <2>1
  <1> HIDE DEF E
  <1>14. 1 \in E[1] <=> Wildcard(p, name)
    BY <1>11, <1>12, DividesUp DEF n, N
  <1> QED  BY <1>5, <1>13, <1>14 DEF w

-----------------------------------------------------------------------------
\* Places above one another.
LEMMA BelowItself ==
  ASSUME NEW a \in NamePath
  PROVE  Below(a, a) /\ Len(a) \in Nat
  BY DEF Below, NamePath

LEMMA BelowBelow ==
  ASSUME NEW a \in NamePath, NEW b \in NamePath, NEW e \in NamePath, Below(a, b), Below(b, e)
  PROVE  Below(a, e)
  <1>1. Len(a) \in Nat /\ Len(b) \in Nat /\ Len(e) \in Nat
    BY LengthIs
  <1>2. Len(a) <= Len(b) /\ Len(b) <= Len(e)
    BY DEF Below
  <1>3. ASSUME NEW i \in 1..Len(a) PROVE a[i] = e[i]
    <2>1. i \in 1..Len(b)
      BY <1>1, <1>2
    <2> QED  BY <2>1 DEF Below
  <1> QED  BY <1>1, <1>2, <1>3 DEF Below

LEMMA BelowAsLong ==
  ASSUME NEW a \in NamePath, NEW b \in NamePath, Below(a, b)
  PROVE  Len(b) <= Len(a) => a = b
  <1>1. Len(a) \in Nat /\ Len(b) \in Nat
    BY LengthIs
  <1>2. Len(a) <= Len(b) /\ \A i \in 1..Len(a) : a[i] = b[i]
    BY DEF Below
  <1> QED  BY <1>1, <1>2, SamePath

LEMMA BelowTheSame ==
  ASSUME NEW a \in NamePath, NEW b \in NamePath, NEW e \in NamePath,
         Below(a, e), Below(b, e), Len(a) <= Len(b)
  PROVE  Below(a, b)
  <1>1. Len(a) \in Nat /\ Len(b) \in Nat
    BY LengthIs
  <1>2. /\ \A i \in 1..Len(a) : a[i] = e[i]
        /\ \A i \in 1..Len(b) : b[i] = e[i]
    BY DEF Below
  <1>3. ASSUME NEW i \in 1..Len(a) PROVE a[i] = b[i]
    <2>1. i \in 1..Len(b)
      BY <1>1
    <2> QED  BY <1>2, <2>1
  <1> QED  BY <1>3 DEF Below

\* A place and what is in it.
LEMMA InIt ==
  ASSUME NEW a \in NamePath, NEW n \in Name
  PROVE  LET e == Append(a, n)
         IN /\ e \in NamePath /\ Len(a) \in Nat /\ Len(e) = Len(a) + 1 /\ e # <<>>
            /\ Last(e) = n /\ Front(e) = a /\ Below(a, e)
  <1> DEFINE e == Append(a, n)
  <1>1. e \in NamePath /\ Len(a) \in Nat /\ Len(e) = Len(a) + 1 /\ e[Len(a) + 1] = n
        /\ \A i \in 1..Len(a) : e[i] = a[i]
    BY DEF NamePath
  <1> HIDE DEF e
  <1>2. e # <<>>
    <2>1. Len(<<>>) = 0
      OBVIOUS
    <2>2. Len(e) # 0
      BY <1>1
    <2> QED  BY <2>1, <2>2
  <1>3. Last(e) = n
    BY <1>1 DEF Last
  <1>4. Len(e) >= 1 /\ Len(e) - 1 = Len(a)
    BY <1>1
  <1>5. /\ Front(e) \in NamePath /\ Len(Front(e)) = Len(a)
        /\ \A i \in 1..Len(a) : Front(e)[i] = e[i]
    <2>1. /\ Front(e) \in NamePath /\ Len(Front(e)) = Len(e) - 1
          /\ \A i \in 1..(Len(e) - 1) : Front(e)[i] = e[i]
      BY <1>1, <1>4, FrontIs
    <2> QED  BY <1>4, <2>1
  <1>6. Front(e) = a
    <2>1. \A i \in 1..Len(a) : Front(e)[i] = a[i]
      BY <1>1, <1>5
    <2> QED  BY <1>5, <2>1, SamePath
  <1>7. Below(a, e)
    BY <1>1 DEF Below
  <1> QED  BY <1>1, <1>2, <1>3, <1>6, <1>7 DEF e

\* What is above something in a place is that or above the place.
LEMMA AboveWhatIsIn ==
  ASSUME NEW a \in NamePath, NEW n \in Name, NEW b \in NamePath, Below(b, Append(a, n))
  PROVE  b = Append(a, n) \/ Below(b, a)
  <1> DEFINE e == Append(a, n)
  <1>1. e \in NamePath /\ Len(a) \in Nat /\ Len(e) = Len(a) + 1 /\ Below(a, e) /\ Below(b, e)
    BY InIt
  <1> HIDE DEF e
  <1>2. Len(b) \in Nat
    BY LengthIs
  <1>3. CASE Len(b) <= Len(a)
    BY <1>1, <1>3, BelowTheSame
  <1>4. CASE ~(Len(b) <= Len(a))
    <2>1. Len(e) <= Len(b)
      BY <1>1, <1>2, <1>4
    <2> QED  BY <1>1, <2>1, BelowAsLong DEF e
  <1> QED  BY <1>3, <1>4

LEMMA StrictlyBelow ==
  ASSUME NEW a \in NamePath, NEW b \in NamePath
  PROVE  IsStrictPrefix(a, b) <=> Below(a, b) /\ b # a
  BY PrefixMeans DEF IsStrictPrefix

\* Everything below a place is in it, or below a directory in it.
LEMMA BelowIsIn ==
  ASSUME NEW d, NEW f, TreeOK(d, f), NEW a \in NamePath, NEW b \in d \cup f, Below(a, b), b # a
  PROVE  /\ a # <<>> => a \in d
         /\ Len(a) < Len(b)
         /\ \E n \in Name : /\ Append(a, n) \in d \cup f /\ Below(Append(a, n), b)
                            /\ Append(a, n) = b \/ Append(a, n) \in d
  <1>1. b \in NamePath /\ Len(b) \in Nat /\ Len(a) \in Nat
    BY LengthIs DEF TreeOK
  <1>2. Len(a) < Len(b)
    <2>1. ~(Len(b) <= Len(a))
      BY <1>1, BelowAsLong
    <2> QED  BY <1>1, <2>1
  <1>3. ASSUME a # <<>> PROVE a \in d
    <2>1. Len(a) \in 1..(Len(b) - 1) /\ Len(a) \in 0..Len(b)
      <3>1. Len(a) # 0
        BY <1>3 DEF NamePath
      <3> QED  BY <1>1, <1>2, <3>1
    <2>2. SubSeq(b, 1, Len(a)) \in d
      BY <2>1, AboveAreDirs
    <2> DEFINE s == SubSeq(b, 1, Len(a))
    <2>3. s \in NamePath /\ Len(s) = Len(a) /\ \A i \in 1..Len(a) : s[i] = b[i]
      BY <1>1, <2>1, PrefixIs
    <2> HIDE DEF s
    <2>4. \A i \in 1..Len(s) : s[i] = a[i]
      BY <2>3 DEF Below
    <2>5. s = a
      BY <2>3, <2>4, SamePath
    <2> QED  BY <2>2, <2>5 DEF s
  <1> DEFINE k == Len(a) + 1
             s == SubSeq(b, 1, k)
             n == b[k]
             e == Append(a, n)
  <1>4. k \in 0..Len(b) /\ k \in 1..Len(b) /\ k \in Nat
    BY <1>1, <1>2
  <1>5. n \in Name
    BY <1>1, <1>4 DEF NamePath
  <1>6. s \in NamePath /\ Len(s) = k /\ \A i \in 1..k : s[i] = b[i]
    BY <1>1, <1>4, PrefixIs
  <1> HIDE DEF s
  <1>7. e \in NamePath /\ Len(e) = k /\ e[k] = n /\ \A i \in 1..Len(a) : e[i] = a[i]
    BY <1>1, <1>5 DEF NamePath
  <1>8. \A i \in 1..k : i = k \/ i \in 1..Len(a)
    BY <1>1
  <1> HIDE DEF e, k
  <1>9. \A i \in 1..Len(e) : e[i] = b[i]
    BY <1>7, <1>8 DEF Below
  <1>10. e = s
    <2>1. \A i \in 1..Len(e) : e[i] = s[i]
      BY <1>6, <1>7, <1>9
    <2> QED  BY <1>6, <1>7, <2>1, SamePath
  <1>11. Below(e, b)
    BY <1>4, <1>7, <1>9 DEF Below
  <1>12. e = b \/ e \in d
    <2>1. CASE k = Len(b)
      <3>1. e = b
        BY <1>1, <1>7, <1>9, <2>1, SamePath
      <3> QED  BY <3>1
    <2>2. CASE k # Len(b)
      <3>1. k \in 1..(Len(b) - 1)
        BY <1>1, <1>4, <2>2
      <3>2. SubSeq(b, 1, k) \in d
        BY <3>1, AboveAreDirs
      <3> QED  BY <1>10, <3>2 DEF s
    <2> QED  BY <2>1, <2>2
  <1> QED  BY <1>2, <1>3, <1>5, <1>11, <1>12 DEF e

-----------------------------------------------------------------------------
\* Where a call of WalkDirectory is, and an entry of its listing.
At(f) == Location(f.path)
Child(f, e) == Append(At(f), e.name)

\* What a walk below "at" comes to.
Inside(r, at, b) == at # <<>> /\ Below(at, b) /\ b # at /\ (r \/ Len(b) = Len(at) + 1)

\* What a call of WalkDirectory has still to come to, and all of them.
Ahead(r, f, b) ==
    IF f.at = "list" THEN \E e \in f.todo : Below(Child(f, e), b) /\ (r \/ Len(b) = Len(At(f)) + 1)
    ELSE Inside(r, At(f), b)
Left(r, st, tree) == {b \in tree : \E i \in 1..Len(st) : Ahead(r, st[i], b)}

\* A call is below where the walk started, and its listing is of the tree.
FrameOK(d, f, start, r, g) ==
    /\ Below(start, At(g)) /\ (r \/ At(g) = start) /\ (At(g) # <<>> => start # <<>>)
    /\ \A e \in g.todo : Child(g, e) \in d \cup f /\ (e.dir <=> Child(g, e) \in d)

\* A call goes on with what is not above the calls inside it.
Beside(g, h) == /\ g.at = "list" /\ Len(At(g)) < Len(At(h))
               /\ \A e \in g.todo : ~Below(Child(g, e), At(h))

LEMMA AtIs ==
  ASSUME NEW g \in FrameType
  PROVE  At(g) \in NamePath /\ Len(At(g)) \in Nat
  <1>1. g.path \in NamePath
    BY DEF FrameType
  <1>2. At(g) \in NamePath
    BY <1>1, LocationType DEF At
  <1> QED  BY <1>2, LengthIs

LEMMA ChildIs ==
  ASSUME NEW g \in FrameType, NEW e \in Entry
  PROVE  /\ Child(g, e) \in NamePath /\ Len(At(g)) \in Nat /\ Len(Child(g, e)) = Len(At(g)) + 1
         /\ Child(g, e) # <<>> /\ Last(Child(g, e)) = e.name /\ Front(Child(g, e)) = At(g)
         /\ Below(At(g), Child(g, e))
         /\ \A b \in NamePath : Below(b, Child(g, e)) => b = Child(g, e) \/ Below(b, At(g))
  <1>1. At(g) \in NamePath /\ e.name \in Name
    BY AtIs DEF Entry
  <1> QED  BY <1>1, InIt, AboveWhatIsIn DEF Child

LEMMA EntriesAre ==
  ASSUME NEW g \in FrameType, NEW e \in g.todo
  PROVE  e \in Entry
  BY DEF FrameType

LEMMA EntryHandled ==
  ASSUME NEW d, NEW f, TreeOK(d, f), NEW start, NEW r, NEW g \in FrameType, NEW h \in FrameType,
         FrameOK(d, f, start, r, g), g.at = "list", NEW e \in g.todo,
         h.path = g.path, h.at = g.at, h.todo = g.todo \ {e}
  PROVE  LET k == Child(g, e)
         IN /\ ~Ahead(r, h, k)
            /\ \A b \in d \cup f : Ahead(r, g, b) <=> \/ Ahead(r, h, b)
                                                      \/ b = k
                                                      \/ e.dir /\ r /\ Inside(r, k, b)
  <1> DEFINE k == Child(g, e)
             a == At(g)
  <1>1. At(h) = a /\ \A x : Child(h, x) = Child(g, x)
    BY DEF At, Child
  <1>2. \A x \in g.todo : x \in Entry
    BY EntriesAre
  <1>3. \A x \in g.todo : Child(g, x) \in NamePath /\ Len(Child(g, x)) = Len(a) + 1
    BY <1>2, ChildIs
  <1>4. /\ k \in NamePath /\ Len(k) = Len(a) + 1 /\ k # <<>> /\ Len(a) \in Nat
        /\ \A x \in g.todo : Child(g, x) \in d \cup f /\ (x.dir <=> Child(g, x) \in d)
    BY <1>2, ChildIs DEF FrameOK
  <1>5. /\ \A b : Ahead(r, h, b) <=> \E x \in g.todo \ {e} : Below(Child(g, x), b) /\ (r \/ Len(b) = Len(a) + 1)
        /\ \A b : Ahead(r, g, b) <=> \E x \in g.todo : Below(Child(g, x), b) /\ (r \/ Len(b) = Len(a) + 1)
    BY <1>1 DEF Ahead
  <1>6. ASSUME NEW x \in g.todo, x # e PROVE ~Below(Child(g, x), k)
    <2> SUFFICES ASSUME Below(Child(g, x), k) PROVE FALSE
      OBVIOUS
    <2>1. Len(k) <= Len(Child(g, x))
      BY <1>3, <1>4
    <2>2. Child(g, x) = k
      BY <1>3, <1>4, <2>1, BelowAsLong
    <2>3. x.name = e.name
      BY <1>2, <2>2, ChildIs
    <2>4. x.dir <=> e.dir
      BY <1>4, <2>2
    <2>5. x = e
      BY <1>2, <2>3, <2>4 DEF Entry
    <2> QED  BY <1>6, <2>5
  <1>7. ~Ahead(r, h, k)
    BY <1>5, <1>6
  <1>8. ASSUME NEW b \in d \cup f, Below(k, b), r \/ Len(b) = Len(a) + 1, b # k
        PROVE  e.dir /\ r /\ Inside(r, k, b)
    <2>1. b \in NamePath
      BY DEF TreeOK
    <2>2. k \in d /\ Len(k) < Len(b)
      BY <1>4, <1>8, BelowIsIn
    <2>3. r
      BY <1>4, <1>8, <2>2
    <2> QED  BY <1>4, <1>8, <2>2, <2>3 DEF Inside
  <1>9. ASSUME NEW b, e.dir /\ r /\ Inside(r, k, b) PROVE Ahead(r, g, b)
    BY <1>5, <1>9 DEF Inside
  <1>10. Ahead(r, g, k)
    <2>1. Below(k, k)
      BY <1>4, BelowItself
    <2> QED  BY <1>4, <1>5, <2>1
  <1>11. ASSUME NEW b, Ahead(r, h, b) PROVE Ahead(r, g, b)
    BY <1>5, <1>11
  <1>12. ASSUME NEW b \in d \cup f, Ahead(r, g, b)
         PROVE  Ahead(r, h, b) \/ b = k \/ (e.dir /\ r /\ Inside(r, k, b))
    <2>1. PICK x \in g.todo : Below(Child(g, x), b) /\ (r \/ Len(b) = Len(a) + 1)
      BY <1>5, <1>12
    <2>2. CASE x = e
      BY <1>8, <2>1, <2>2
    <2>3. CASE x # e
      BY <1>5, <2>1, <2>3
    <2> QED  BY <2>2, <2>3
  <1> HIDE DEF k
  <1> QED  BY <1>7, <1>9, <1>10, <1>11, <1>12 DEF k

LEMMA BesideChild ==
  ASSUME NEW r, NEW g \in FrameType, NEW h \in FrameType, Beside(g, h), NEW e \in Entry
  PROVE  /\ Len(At(g)) < Len(Child(h, e)) /\ g.at = "list" /\ ~Ahead(r, g, Child(h, e))
         /\ \A x \in g.todo : ~Below(Child(g, x), Child(h, e))
  <1> DEFINE k == Child(h, e)
  <1>1. /\ k \in NamePath /\ Len(At(h)) \in Nat /\ Len(k) = Len(At(h)) + 1 /\ Len(At(g)) \in Nat
        /\ \A b \in NamePath : Below(b, k) => b = k \/ Below(b, At(h))
    BY ChildIs, AtIs
  <1>2. g.at = "list" /\ Len(At(g)) < Len(At(h)) /\ \A x \in g.todo : ~Below(Child(g, x), At(h))
    BY DEF Beside
  <1>3. ASSUME NEW x \in g.todo PROVE ~Below(Child(g, x), k)
    <2>1. x \in Entry
      BY EntriesAre
    <2>2. Child(g, x) \in NamePath /\ Len(Child(g, x)) = Len(At(g)) + 1
      BY <2>1, ChildIs
    <2>3. Child(g, x) # k
      BY <1>1, <1>2, <2>2
    <2> QED  BY <1>1, <1>2, <2>2, <2>3
  <1> HIDE DEF k
  <1>4. ~Ahead(r, g, k)
    BY <1>2, <1>3 DEF Ahead
  <1> QED  BY <1>1, <1>2, <1>3, <1>4 DEF k

\* A directory that is opened: its listing has what is below it.
LEMMA Opened ==
  ASSUME NEW d, NEW f, TreeOK(d, f), NEW start \in NamePath, NEW r \in BOOLEAN,
         NEW g \in FrameType, NEW h \in FrameType,
         FrameOK(d, f, start, r, g), g.at = "find", At(g) \in d,
         h.path = g.path, h.at = "list",
         h.todo = {[name |-> Last(child), dir |-> child \in d] :
                      child \in {child \in d \cup f : child # <<>> /\ Front(child) = At(g)}}
  PROVE  /\ FrameOK(d, f, start, r, h) /\ At(h) = At(g)
         /\ \A b \in d \cup f : Ahead(r, g, b) <=> Ahead(r, h, b)
  <1> DEFINE a == At(g)
             Kids == {child \in d \cup f : child # <<>> /\ Front(child) = a}
             entry(child) == [name |-> Last(child), dir |-> child \in d]
  <1>1. At(h) = a /\ a \in NamePath /\ a # <<>> /\ Len(a) \in Nat
    <2>1. Len(<<>>) = 0 /\ Len(a) \in 1..StackLimit
      BY DEF TreeOK
    <2>2. a # <<>>
      BY <2>1, Given
    <2> QED  BY <2>2, AtIs DEF At
  <1>2. ASSUME NEW child \in Kids
        PROVE  /\ Child(h, entry(child)) = child /\ Below(a, child) /\ Len(child) = Len(a) + 1
               /\ child \in NamePath
    <2>1. child \in NamePath /\ Len(child) >= 1 /\ Front(child) = a
      <3>1. child \in d \cup f
        OBVIOUS
      <3>2. child \in NamePath /\ Len(child) \in 1..StackLimit
        BY <3>1 DEF TreeOK
      <3> QED  BY <3>2, Given
    <2>2. child = Append(a, Last(child)) /\ Last(child) \in Name
      BY <2>1, FrontIs DEF Last
    <2>3. Child(h, entry(child)) = Append(a, Last(child))
      BY <1>1 DEF Child
    <2> QED  BY <1>1, <2>1, <2>2, <2>3, InIt
  <1>3. h.todo = {entry(child) : child \in Kids}
    OBVIOUS
  <1>4. ASSUME NEW e \in h.todo PROVE Child(h, e) \in d \cup f /\ (e.dir <=> Child(h, e) \in d)
    <2>1. PICK child \in Kids : e = entry(child)
      BY <1>3
    <2>2. Child(h, e) = child
      BY <1>2, <2>1
    <2> QED  BY <2>1, <2>2
  <1>5. FrameOK(d, f, start, r, h)
    BY <1>1, <1>4 DEF FrameOK
  <1>6. ASSUME NEW b \in d \cup f, Ahead(r, g, b) PROVE Ahead(r, h, b)
    <2>1. Below(a, b) /\ b # a /\ (r \/ Len(b) = Len(a) + 1)
      BY <1>6 DEF Ahead, Inside
    <2>2. PICK n \in Name : Append(a, n) \in d \cup f /\ Below(Append(a, n), b)
      BY <1>1, <2>1, BelowIsIn
    <2> DEFINE child == Append(a, n)
    <2>3. child # <<>> /\ Front(child) = a
      BY <1>1, InIt
    <2>4. child \in Kids
      BY <2>2, <2>3
    <2>5. entry(child) \in h.todo /\ Child(h, entry(child)) = child
      BY <1>2, <1>3, <2>4
    <2>6. h.at = "list"
      OBVIOUS
    <2> HIDE DEF child, entry
    <2> QED  BY <1>1, <2>1, <2>2, <2>5, <2>6 DEF Ahead, child
  <1>7. ASSUME NEW b \in d \cup f, Ahead(r, h, b) PROVE Ahead(r, g, b)
    <2>1. PICK e \in h.todo : Below(Child(h, e), b) /\ (r \/ Len(b) = Len(a) + 1)
      BY <1>1, <1>7 DEF Ahead
    <2>2. PICK child \in Kids : e = entry(child)
      BY <1>3
    <2>3. Below(child, b) /\ Below(a, child) /\ Len(child) = Len(a) + 1 /\ child \in NamePath
      BY <1>2, <2>1, <2>2
    <2>4. b \in NamePath
      BY DEF TreeOK
    <2>5. Below(a, b)
      BY <1>1, <2>3, <2>4, BelowBelow
    <2>6. b # a
      BY <1>1, <2>3 DEF Below
    <2> QED  BY <1>1, <2>1, <2>5, <2>6 DEF Ahead, Inside
  <1> QED  BY <1>1, <1>5, <1>6, <1>7

\* A directory that is left has nothing more.
LEMMA NothingAhead ==
  ASSUME NEW d, NEW f, TreeOK(d, f), NEW r, NEW g \in FrameType,
         (g.at # "list" /\ At(g) \notin d) \/ (g.at = "list" /\ g.todo = {})
  PROVE  \A b \in d \cup f : ~Ahead(r, g, b)
  <1> SUFFICES ASSUME NEW b \in d \cup f, Ahead(r, g, b) PROVE FALSE
    OBVIOUS
  <1>1. CASE g.at = "list" /\ g.todo = {}
    BY <1>1 DEF Ahead
  <1>2. CASE g.at # "list" /\ At(g) \notin d
    <2>1. At(g) # <<>> /\ Below(At(g), b) /\ b # At(g)
      BY <1>2 DEF Ahead, Inside
    <2>2. At(g) \in NamePath
      BY AtIs
    <2> QED  BY <1>2, <2>1, <2>2, BelowIsIn
  <1> QED  BY <1>1, <1>2

-----------------------------------------------------------------------------
\* What a walk has found, and what it should.
Wanted(d, p, b) == IF b \in d THEN \A i \in DOMAIN p : p[i] # "." ELSE Wildcard(p, Last(b))
Sought(d, f, start, r, p) == {b \in d \cup f : Inside(r, start, b) /\ Wanted(d, p, b)}
FoundAt(found) == {Location(found[i]) : i \in 1..Len(found)}

WalkOK(d, f, start, r, p, found, st) ==
    /\ \A i \in 1..Len(st) : FrameOK(d, f, start, r, st[i])
    /\ \A i, j \in 1..Len(st) : i < j => Beside(st[i], st[j])
    /\ FoundAt(found) = Sought(d, f, start, r, p) \ Left(r, st, d \cup f)
    /\ IsFiniteSet(FoundAt(found)) /\ Cardinality(FoundAt(found)) = Len(found)

LEMMA WalkBegins ==
  ASSUME NEW d, NEW f, NEW start \in NamePath, NEW r \in BOOLEAN, NEW p, NEW st \in Seq(FrameType),
         Len(st) = 1, st[1].at = "open", st[1].todo = {}, At(st[1]) = start
  PROVE  WalkOK(d, f, start, r, p, <<>>, st)
  <1> DEFINE g == st[1]
             L == Left(r, st, d \cup f)
  <1>1. 1..Len(st) = {1}
    OBVIOUS
  <1>2. FrameOK(d, f, start, r, g)
    BY BelowItself DEF FrameOK
  <1>3. FoundAt(<<>>) = {}
    BY DEF FoundAt
  <1>4. IsFiniteSet(FoundAt(<<>>)) /\ Cardinality(FoundAt(<<>>)) = 0 /\ Len(<<>>) = 0
    BY <1>3, FS_EmptySet
  <1>5. \A b \in d \cup f : Inside(r, start, b) => b \in L
    BY <1>1 DEF Left, Ahead
  <1> HIDE DEF L
  <1>6. Sought(d, f, start, r, p) \ L = {}
    BY <1>5 DEF Sought
  <1>7. \A i \in 1..Len(st) : FrameOK(d, f, start, r, st[i])
    BY <1>1, <1>2
  <1>8. \A i, j \in 1..Len(st) : i < j => Beside(st[i], st[j])
    OBVIOUS
  <1> QED  BY <1>3, <1>4, <1>6, <1>7, <1>8 DEF WalkOK, L

\* A directory that is there is asked for its listing next.
LEMMA WalkGoesIn ==
  ASSUME NEW d, NEW f, NEW start, NEW r, NEW p, NEW found,
         NEW st \in Seq(FrameType), NEW n \in Nat, n >= 1, Len(st) = n,
         WalkOK(d, f, start, r, p, found, st),
         NEW h \in FrameType, NEW next \in Seq(FrameType), Len(next) = n,
         \A i \in 1..n : next[i] = IF i = n THEN h ELSE st[i],
         st[n].at = "open", h.path = st[n].path, h.at = "find", h.todo = st[n].todo
  PROVE  WalkOK(d, f, start, r, p, found, next)
  <1>1. n \in 1..n /\ At(h) = At(st[n]) /\ \A e : Child(h, e) = Child(st[n], e)
    BY DEF At, Child
  <1>2. /\ \A i \in 1..n : FrameOK(d, f, start, r, st[i])
        /\ \A i, j \in 1..n : i < j => Beside(st[i], st[j])
        /\ FoundAt(found) = Sought(d, f, start, r, p) \ Left(r, st, d \cup f)
        /\ IsFiniteSet(FoundAt(found)) /\ Cardinality(FoundAt(found)) = Len(found)
    BY DEF WalkOK
  <1>3. FrameOK(d, f, start, r, h)
    BY <1>1, <1>2 DEF FrameOK
  <1>4. \A i \in 1..n : FrameOK(d, f, start, r, next[i])
    BY <1>2, <1>3
  <1>5. ASSUME NEW i \in 1..n, NEW j \in 1..n, i < j PROVE Beside(next[i], next[j])
    <2>1. next[i] = st[i] /\ Beside(st[i], st[j]) /\ At(next[j]) = At(st[j])
      BY <1>1, <1>2, <1>5
    <2> QED  BY <2>1 DEF Beside
  <1>6. \A b : Ahead(r, h, b) <=> Ahead(r, st[n], b)
    BY <1>1 DEF Ahead
  <1>7. \A b \in d \cup f, i \in 1..n : Ahead(r, next[i], b) <=> Ahead(r, st[i], b)
    BY <1>6
  <1>8. Left(r, next, d \cup f) = Left(r, st, d \cup f)
    BY <1>7 DEF Left
  <1> QED  BY <1>2, <1>4, <1>5, <1>8 DEF WalkOK

LEMMA WalkOpens ==
  ASSUME NEW d, NEW f, TreeOK(d, f), NEW start \in NamePath, NEW r \in BOOLEAN, NEW p, NEW found,
         NEW st \in Seq(FrameType), NEW n \in Nat, n >= 1, Len(st) = n,
         WalkOK(d, f, start, r, p, found, st),
         NEW h \in FrameType, NEW next \in Seq(FrameType), Len(next) = n,
         \A i \in 1..n : next[i] = IF i = n THEN h ELSE st[i],
         st[n].at = "find", At(st[n]) \in d, h.path = st[n].path, h.at = "list",
         h.todo = {[name |-> Last(child), dir |-> child \in d] :
                      child \in {child \in d \cup f : child # <<>> /\ Front(child) = At(st[n])}}
  PROVE  WalkOK(d, f, start, r, p, found, next)
  <1>1. n \in 1..n /\ st[n] \in FrameType /\ FrameOK(d, f, start, r, st[n])
    BY DEF WalkOK
  <1>2. /\ FrameOK(d, f, start, r, h) /\ At(h) = At(st[n])
        /\ \A b \in d \cup f : Ahead(r, st[n], b) <=> Ahead(r, h, b)
    BY <1>1, Opened
  <1>3. /\ \A i \in 1..n : FrameOK(d, f, start, r, st[i])
        /\ \A i, j \in 1..n : i < j => Beside(st[i], st[j])
        /\ FoundAt(found) = Sought(d, f, start, r, p) \ Left(r, st, d \cup f)
        /\ IsFiniteSet(FoundAt(found)) /\ Cardinality(FoundAt(found)) = Len(found)
    BY DEF WalkOK
  <1>4. \A i \in 1..n : FrameOK(d, f, start, r, next[i])
    BY <1>2, <1>3
  <1>5. ASSUME NEW i \in 1..n, NEW j \in 1..n, i < j PROVE Beside(next[i], next[j])
    <2>1. next[i] = st[i] /\ Beside(st[i], st[j]) /\ At(next[j]) = At(st[j])
      BY <1>2, <1>3, <1>5
    <2> QED  BY <2>1 DEF Beside
  <1>6. \A b \in d \cup f, i \in 1..n : Ahead(r, next[i], b) <=> Ahead(r, st[i], b)
    BY <1>2
  <1>7. Left(r, next, d \cup f) = Left(r, st, d \cup f)
    BY <1>6 DEF Left
  <1> QED  BY <1>3, <1>4, <1>5, <1>7 DEF WalkOK

LEMMA WalkLeaves ==
  ASSUME NEW d, NEW f, TreeOK(d, f), NEW start, NEW r \in BOOLEAN, NEW p, NEW found,
         NEW st \in Seq(FrameType), NEW n \in Nat, n >= 1, Len(st) = n,
         WalkOK(d, f, start, r, p, found, st),
         (st[n].at # "list" /\ At(st[n]) \notin d) \/ (st[n].at = "list" /\ st[n].todo = {})
  PROVE  \A next \in Seq(FrameType) :
            Len(next) = n - 1 /\ (\A i \in 1..(n - 1) : next[i] = st[i])
               => WalkOK(d, f, start, r, p, found, next)
  <1>1. n \in 1..n /\ st[n] \in FrameType
    OBVIOUS
  <1>2. \A b \in d \cup f : ~Ahead(r, st[n], b)
    BY <1>1, NothingAhead
  <1>3. /\ \A i \in 1..n : FrameOK(d, f, start, r, st[i])
        /\ \A i, j \in 1..n : i < j => Beside(st[i], st[j])
        /\ FoundAt(found) = Sought(d, f, start, r, p) \ Left(r, st, d \cup f)
        /\ IsFiniteSet(FoundAt(found)) /\ Cardinality(FoundAt(found)) = Len(found)
    BY DEF WalkOK
  <1>4. ASSUME NEW next \in Seq(FrameType), Len(next) = n - 1, \A i \in 1..(n - 1) : next[i] = st[i]
        PROVE  WalkOK(d, f, start, r, p, found, next)
    <2>1. \A i \in 1..n : i = n \/ i \in 1..(n - 1)
      OBVIOUS
    <2>2. \A i \in 1..(n - 1) : i \in 1..n
      OBVIOUS
    <2>3. \A b \in d \cup f : (\E i \in 1..n : Ahead(r, st[i], b)) <=> \E i \in 1..(n - 1) : Ahead(r, next[i], b)
      BY <1>2, <1>4, <2>1, <2>2
    <2>4. Left(r, next, d \cup f) = Left(r, st, d \cup f)
      BY <1>4, <2>3 DEF Left
    <2>5. \A i \in 1..(n - 1) : FrameOK(d, f, start, r, next[i])
      BY <1>3, <1>4, <2>2
    <2>6. \A i, j \in 1..(n - 1) : i < j => Beside(next[i], next[j])
      BY <1>3, <1>4, <2>2
    <2> QED  BY <1>3, <1>4, <2>4, <2>5, <2>6 DEF WalkOK
  <1> QED  BY <1>4

\* With the outermost directory, the walk is over.
LEMMA WalkIsOver ==
  ASSUME NEW d, NEW f, TreeOK(d, f), NEW start, NEW r, NEW p, NEW found,
         NEW st \in Seq(FrameType), Len(st) = 1, WalkOK(d, f, start, r, p, found, st),
         (st[1].at # "list" /\ At(st[1]) \notin d) \/ (st[1].at = "list" /\ st[1].todo = {})
  PROVE  FoundAt(found) = Sought(d, f, start, r, p) /\ Cardinality(FoundAt(found)) = Len(found)
  <1>1. 1 \in 1..Len(st) /\ st[1] \in FrameType /\ \A i \in 1..Len(st) : i = 1
    OBVIOUS
  <1>2. \A b \in d \cup f : ~Ahead(r, st[1], b)
    BY <1>1, NothingAhead
  <1>3. Left(r, st, d \cup f) = {}
    BY <1>1, <1>2 DEF Left
  <1> QED  BY <1>3 DEF WalkOK

\* One more place is found.
LEMMA OneMoreFound ==
  ASSUME NEW found \in Seq(NamePath), NEW names \in NamePath,
         IsFiniteSet(FoundAt(found)), Cardinality(FoundAt(found)) = Len(found),
         Location(names) \notin FoundAt(found)
  PROVE  LET more == Append(found, names)
         IN /\ FoundAt(more) = FoundAt(found) \cup {Location(names)}
            /\ IsFiniteSet(FoundAt(more)) /\ Cardinality(FoundAt(more)) = Len(more)
  <1> DEFINE more == Append(found, names)
             n == Len(found)
  <1>1. n \in Nat /\ Len(more) = n + 1 /\ more[n + 1] = names /\ \A i \in 1..n : more[i] = found[i]
    BY SMTT(60)
  <1> HIDE DEF more
  <1>2. FoundAt(more) = FoundAt(found) \cup {Location(names)}
    <2>1. \A i \in 1..(n + 1) : i = n + 1 \/ i \in 1..n
      BY <1>1
    <2>2. n + 1 \in 1..(n + 1) /\ \A i \in 1..n : i \in 1..(n + 1)
      BY <1>1, SMTT(60)
    <2>3. FoundAt(more) = {Location(more[i]) : i \in 1..(n + 1)}
      BY <1>1, ZenonT(60) DEF FoundAt
    <2>4. FoundAt(found) = {Location(found[i]) : i \in 1..n}
      BY DEF FoundAt
    <2> HIDE DEF n
    <2> QED  BY <1>1, <2>1, <2>2, <2>3, <2>4
  <1>3. IsFiniteSet(FoundAt(more)) /\ Cardinality(FoundAt(more)) = n + 1
    BY <1>2, FS_AddElement
  <1> QED  BY <1>1, <1>2, <1>3 DEF more

\* An entry of the innermost call's listing is handled: e of st[n], which h stands for then,
\* is reported by its names if it should be, and entered by g if it is a directory.
EntryStep(d, r, p, found, st, n, e, h, g, next, names, more) ==
    /\ st[n].at = "list" /\ At(st[n]) # <<>> /\ e \in st[n].todo
    /\ h.path = st[n].path /\ h.at = "list" /\ h.todo = st[n].todo \ {e}
    /\ g.at = "open" /\ g.todo = {} /\ At(g) = Child(st[n], e)
    /\ \A i \in 1..n : next[i] = IF i = n THEN h ELSE st[i]
    /\ IF e.dir /\ r THEN Len(next) = n + 1 /\ next[n + 1] = g ELSE Len(next) = n
    /\ Location(names) = Child(st[n], e)
    /\ more = IF Wanted(d, p, Child(st[n], e)) THEN Append(found, names) ELSE found

\* Then it is ahead no more, and what is below it still is.
LEMMA WalkHandles ==
  ASSUME NEW d, NEW f, TreeOK(d, f), NEW start \in NamePath, NEW r \in BOOLEAN, NEW p,
         NEW found \in Seq(NamePath), NEW st \in Seq(FrameType), NEW n \in Nat, n >= 1, Len(st) = n,
         WalkOK(d, f, start, r, p, found, st),
         NEW e, NEW h \in FrameType, NEW g \in FrameType, NEW next \in Seq(FrameType),
         NEW names \in NamePath, NEW more,
         EntryStep(d, r, p, found, st, n, e, h, g, next, names, more)
  PROVE  WalkOK(d, f, start, r, p, more, next)
  <1> USE DEF EntryStep
  <1> DEFINE t == st[n]
             k == Child(t, e)
             tree == d \cup f
             m == Len(next)
  <1>1. n \in 1..n /\ t \in FrameType /\ FrameOK(d, f, start, r, t) /\ e \in Entry
    <2>1. n \in 1..n /\ t \in FrameType
      OBVIOUS
    <2>2. FrameOK(d, f, start, r, t)
      BY <2>1 DEF WalkOK
    <2>3. e \in t.todo
      OBVIOUS
    <2> HIDE DEF t
    <2>4. e \in Entry
      BY <2>1, <2>3, EntriesAre
    <2> QED  BY <2>1, <2>2, <2>4
  <1>2. /\ k \in NamePath /\ Len(At(t)) \in Nat /\ Len(k) = Len(At(t)) + 1 /\ k # <<>>
        /\ Below(At(t), k) /\ At(t) \in NamePath
    BY <1>1, ChildIs, AtIs
  <1>3. k \in tree /\ (e.dir <=> k \in d)
    BY <1>1 DEF FrameOK
  <1>4. /\ ~Ahead(r, h, k)
        /\ \A b \in tree : Ahead(r, t, b) <=> Ahead(r, h, b) \/ b = k \/ (e.dir /\ r /\ Inside(r, k, b))
    <2>1. h.path = t.path /\ h.at = t.at /\ t.at = "list" /\ h.todo = t.todo \ {e} /\ e \in t.todo
      OBVIOUS
    <2> HIDE DEF t
    <2>2. /\ ~Ahead(r, h, Child(t, e))
          /\ \A b \in d \cup f : Ahead(r, t, b) <=> \/ Ahead(r, h, b)
                                                    \/ b = Child(t, e)
                                                    \/ e.dir /\ r /\ Inside(r, Child(t, e), b)
      BY <1>1, <2>1, EntryHandled
    <2> QED  BY <2>2
  <1>5. /\ \A i \in 1..n : FrameOK(d, f, start, r, st[i])
        /\ \A i, j \in 1..n : i < j => Beside(st[i], st[j])
        /\ FoundAt(found) = Sought(d, f, start, r, p) \ Left(r, st, tree)
        /\ IsFiniteSet(FoundAt(found)) /\ Cardinality(FoundAt(found)) = Len(found)
    BY DEF WalkOK
  <1>6. /\ Below(start, At(t)) /\ (r \/ At(t) = start) /\ start # <<>>
        /\ Below(start, k) /\ Inside(r, start, k)
    <2>1. Below(start, At(t)) /\ (r \/ At(t) = start) /\ start # <<>>
      BY <1>1 DEF FrameOK
    <2>2. Below(start, k)
      BY <1>2, <2>1, BelowBelow
    <2>3. k # start
      <3>1. Len(start) <= Len(At(t)) /\ Len(start) \in Nat
        BY <2>1, LengthIs DEF Below
      <3> QED  BY <1>2, <3>1
    <2>4. r \/ Len(k) = Len(start) + 1
      BY <1>2, <2>1
    <2> QED  BY <2>1, <2>2, <2>3, <2>4 DEF Inside
  <1>7. ASSUME NEW i \in 1..n, i # n
        PROVE  /\ st[i] \in FrameType /\ Beside(st[i], t) /\ Len(At(st[i])) < Len(k)
               /\ st[i].at = "list" /\ ~Ahead(r, st[i], k)
               /\ \A x \in st[i].todo : ~Below(Child(st[i], x), k)
    <2>1. i < n /\ st[i] \in FrameType
      BY <1>7
    <2>2. Beside(st[i], t)
      BY <1>1, <1>5, <2>1
    <2> QED  BY <1>1, <2>1, <2>2, BesideChild
  <1>8. At(h) = At(t) /\ \A x : Child(h, x) = Child(t, x)
    BY DEF At, Child
  <1>9. \A i \in 1..m : i \in 1..n \/ (e.dir /\ r /\ i = n + 1 /\ next[i] = g)
    OBVIOUS
  <1>10. (\A i \in 1..n : i \in 1..m) /\ (e.dir /\ r => n + 1 \in 1..m /\ next[n + 1] = g)
    OBVIOUS
  <1>11. \A b : Ahead(r, g, b) <=> Inside(r, k, b)
    BY DEF Ahead
  <1>12. \A i \in 1..n : next[i] = IF i = n THEN h ELSE st[i]
    OBVIOUS
  <1>13. h.at = "list" /\ h.todo \subseteq t.todo /\ e \notin h.todo /\ g.todo = {} /\ At(g) = k
    OBVIOUS
  <1> HIDE DEF k, t, m, tree
  <1>14. ASSUME NEW i \in 1..m PROVE ~Ahead(r, next[i], k)
    <2>1. CASE i \in 1..n /\ i # n
      BY <1>7, <1>12, <2>1
    <2>2. CASE i = n
      BY <1>1, <1>4, <1>12, <2>2
    <2>3. CASE e.dir /\ r /\ i = n + 1 /\ next[i] = g
      <3>1. ~Inside(r, k, k)
        BY DEF Inside
      <3> QED  BY <1>11, <2>3, <3>1
    <2> QED  BY <1>9, <2>1, <2>2, <2>3
  <1>15. ASSUME NEW b \in tree, b # k
         PROVE  (\E i \in 1..n : Ahead(r, st[i], b)) <=> (\E i \in 1..m : Ahead(r, next[i], b))
    <2>1. ASSUME NEW i \in 1..n, Ahead(r, st[i], b) PROVE \E j \in 1..m : Ahead(r, next[j], b)
      <3>1. CASE i # n
        BY <1>10, <1>12, <2>1, <3>1
      <3>2. CASE i = n
        <4>1. Ahead(r, h, b) \/ (e.dir /\ r /\ Inside(r, k, b))
          BY <1>4, <1>15, <2>1, <3>2 DEF t
        <4>2. CASE Ahead(r, h, b)
          BY <1>1, <1>10, <1>12, <4>2
        <4>3. CASE e.dir /\ r /\ Inside(r, k, b)
          BY <1>10, <1>11, <4>3
        <4> QED  BY <4>1, <4>2, <4>3
      <3> QED  BY <3>1, <3>2
    <2>2. ASSUME NEW i \in 1..m, Ahead(r, next[i], b) PROVE \E j \in 1..n : Ahead(r, st[j], b)
      <3>1. CASE i \in 1..n /\ i # n
        BY <1>12, <2>2, <3>1
      <3>2. CASE i = n
        BY <1>1, <1>4, <1>12, <2>2, <3>2 DEF t
      <3>3. CASE e.dir /\ r /\ i = n + 1 /\ next[i] = g
        BY <1>1, <1>4, <1>11, <2>2, <3>3 DEF t
      <3> QED  BY <1>9, <3>1, <3>2, <3>3
    <2> QED  BY <2>1, <2>2
  <1> DEFINE L == Left(r, st, tree)
             R == Left(r, next, tree)
             W == Sought(d, f, start, r, p)
  <1>16. k \in L /\ L = R \cup {k} /\ k \notin R
    <2>1. \A b : /\ b \in L <=> b \in tree /\ \E i \in 1..n : Ahead(r, st[i], b)
                 /\ b \in R <=> b \in tree /\ \E i \in 1..m : Ahead(r, next[i], b)
      BY DEF Left, m
    <2>2. k \in L
      BY <1>1, <1>3, <1>4, <2>1 DEF t
    <2>3. k \notin R
      BY <1>14, <2>1
    <2>4. \A b : b # k => (b \in L <=> b \in R)
      BY <1>15, <2>1
    <2> HIDE DEF L, R
    <2> QED  BY <2>2, <2>3, <2>4
  <1>17. \A i \in 1..m : FrameOK(d, f, start, r, next[i])
    <2>1. FrameOK(d, f, start, r, h)
      BY <1>1, <1>8, <1>13 DEF FrameOK
    <2>2. e.dir /\ r => FrameOK(d, f, start, r, g)
      BY <1>6, <1>13 DEF FrameOK
    <2> QED  BY <1>5, <1>9, <1>12, <2>1, <2>2
  <1>18. ASSUME NEW i \in 1..m, NEW j \in 1..m, i < j PROVE Beside(next[i], next[j])
    <2>1. i \in 1..n
      BY <1>9, <1>18
    <2>2. CASE j \in 1..n /\ j # n
      <3>1. i # n
        BY <1>18, <2>2
      <3> QED  BY <1>5, <1>12, <1>18, <2>1, <2>2, <3>1
    <2>3. CASE j = n
      <3>1. i # n
        BY <1>18, <2>3
      <3>2. Beside(st[i], t) /\ next[i] = st[i] /\ next[j] = h
        BY <1>1, <1>7, <1>12, <2>1, <2>3, <3>1
      <3> QED  BY <1>8, <3>2 DEF Beside
    <2>4. CASE e.dir /\ r /\ j = n + 1 /\ next[j] = g
      <3>1. CASE i # n
        <4>1. next[i] = st[i]
          BY <1>12, <2>1, <3>1
        <4> QED  BY <1>7, <1>13, <2>1, <2>4, <3>1, <4>1, ZenonT(60) DEF Beside
      <3>2. CASE i = n
        <4>1. next[i] = h
          BY <1>12, <2>1, <3>2
        <4>2. ASSUME NEW x \in h.todo PROVE ~Below(Child(h, x), k)
          <5> SUFFICES ASSUME Below(Child(h, x), k) PROVE FALSE
            OBVIOUS
          <5>1. Len(k) = Len(At(t)) + 1
            BY <1>2
          <5>2. h.at # "open" /\ Ahead(r, h, k)
            BY <1>8, <1>13, <5>1 DEF Ahead
          <5> QED  BY <1>4, <5>2
        <4>3. Len(At(h)) < Len(k)
          BY <1>2, <1>8
        <4> QED  BY <1>13, <2>4, <4>1, <4>2, <4>3 DEF Beside
      <3> QED  BY <3>1, <3>2
    <2> QED  BY <1>9, <2>2, <2>3, <2>4
  <1>19. k \notin FoundAt(found) /\ FoundAt(found) = W \ L
    BY <1>5, <1>16
  <1>20. k \in W <=> Wanted(d, p, k)
    BY <1>3, <1>6 DEF Sought, tree
  <1> HIDE DEF L, R, W
  <1>21. W \ R = IF Wanted(d, p, k) THEN FoundAt(found) \cup {k} ELSE FoundAt(found)
    BY <1>16, <1>19, <1>20
  <1>22. /\ FoundAt(more) = W \ R
         /\ IsFiniteSet(FoundAt(more)) /\ Cardinality(FoundAt(more)) = Len(more)
    <2>0. Location(names) = k /\ more = IF Wanted(d, p, k) THEN Append(found, names) ELSE found
      BY DEF k, t
    <2>1. CASE Wanted(d, p, k)
      <3>1. /\ FoundAt(Append(found, names)) = FoundAt(found) \cup {k}
            /\ IsFiniteSet(FoundAt(Append(found, names)))
            /\ Cardinality(FoundAt(Append(found, names))) = Len(Append(found, names))
        BY <1>5, <1>19, <2>0, OneMoreFound
      <3> QED  BY <1>21, <2>0, <2>1, <3>1
    <2>2. CASE ~Wanted(d, p, k)
      BY <1>5, <1>21, <2>0, <2>2
    <2> QED  BY <2>1, <2>2
  <1> QED  BY <1>17, <1>18, <1>22 DEF WalkOK, R, W, m, tree

-----------------------------------------------------------------------------
\* The characters of names and patterns.
Chars == {".", "*", "\\", "(", ")"} \cup UNION {TokensOf(s) : s \in Name \cup GivenPatterns}

LEMMA NamesAreTexts ==
  /\ {".", "*", "\\", "(", ")"} \subseteq Chars
  /\ \A name \in Name : name \in Seq(Chars)
  /\ \A p \in GivenPatterns : /\ p \in Seq(Chars) /\ DOMAIN p = 1..Len(p)
                              /\ \A i \in 1..Len(p) : p[i] \notin {"\\", "(", ")"}
  <1>1. ASSUME NEW s \in Name \cup GivenPatterns, IsSequence(s) PROVE s \in Seq(Chars)
    <2>1. \A i \in 1..Len(s) : s[i] \in TokensOf(s)
      BY DEF TokensOf
    <2>2. \A i \in 1..Len(s) : s[i] \in Chars
      BY <2>1 DEF Chars
    <2> QED  BY <1>1, <2>2, SequenceOf
  <1>2. ASSUME NEW name \in Name PROVE IsSequence(name)
    <2>1. name \in Tokens /\ name # divider
      BY DEF Name
    <2>2. CASE name \in GivenNames
      BY <2>2, PathAssumption
    <2>3. CASE name \notin GivenNames
      <3>1. PICK s \in GivenTexts \cup {Home} \cup Places : name \in TokensOf(s)
        BY <2>1, <2>3 DEF Tokens
      <3>2. PICK i \in 1..Len(s) : name = s[i]
        BY <3>1 DEF TokensOf
      <3>3. CASE s \in GivenTexts \cup {Home}
        <4>1. IsSequence(s) /\ \A j \in DOMAIN s : s[j] = divider \/ IsSequence(s[j])
          BY <3>3, PathAssumption
        <4>2. DOMAIN s = 1..Len(s)
          BY <4>1 DEF IsSequence
        <4>3. s[i] = divider \/ IsSequence(s[i])
          BY <4>1, <4>2
        <4> QED  BY <2>1, <3>2, <4>3
      <3>4. CASE s \in Places
        <4>1. PICK tree \in GivenTrees : s \in tree.dirs \cup tree.files
          BY <3>4 DEF Places
        <4>2. IsSequence(s) /\ \A j \in DOMAIN s : IsSequence(s[j])
          BY <4>1, PathAssumption
        <4>3. DOMAIN s = 1..Len(s)
          BY <4>2 DEF IsSequence
        <4>4. IsSequence(s[i])
          BY <4>2, <4>3
        <4> QED  BY <3>2, <4>4
      <3> QED  BY <3>3, <3>4
    <2> QED  BY <2>2, <2>3
  <1>3. ASSUME NEW p \in GivenPatterns
        PROVE  /\ IsSequence(p) /\ DOMAIN p = 1..Len(p)
               /\ \A i \in 1..Len(p) : p[i] \notin {"\\", "(", ")"}
    <2>1. IsSequence(p) /\ \A i \in DOMAIN p : p[i] \notin {"\\", "(", ")"}
      BY PathAssumption
    <2>2. DOMAIN p = 1..Len(p)
      BY <2>1 DEF IsSequence
    <2> QED  BY <2>1, <2>2
  <1>4. {".", "*", "\\", "(", ")"} \subseteq Chars
    BY DEF Chars
  <1> QED  BY <1>1, <1>2, <1>3, <1>4

\* What is reported is what the pattern means.
LEMMA ReportedIs ==
  ASSUME NEW p \in GivenPatterns, NEW e \in Entry, NEW d, NEW k, Last(k) = e.name, e.dir <=> k \in d
  PROVE  (IF e.dir THEN GetDir(p) ELSE IsPatternMatched(e.name, PatternToRegex(p))) <=> Wanted(d, p, k)
  <1>1. /\ {".", "*", "\\", "(", ")"} \subseteq Chars
        /\ e.name \in Seq(Chars) /\ p \in Seq(Chars) /\ DOMAIN p = 1..Len(p)
        /\ \A i \in 1..Len(p) : p[i] \notin {"\\", "(", ")"}
    BY NamesAreTexts DEF Entry
  <1>2. GetDir(p) <=> \A i \in 1..Len(p) : p[i] # "."
    <2>1. "." \in Chars
      BY <1>1
    <2>2. FindLastOf(p, One(".")) = npos <=> \A i \in 1..Len(p) : p[i] # "."
      BY <1>1, <2>1, FindLastIs
    <2> QED  BY <2>2, Zenon DEF GetDir, One
  <1>3. IsPatternMatched(e.name, PatternToRegex(p)) <=> Wildcard(p, e.name)
    BY <1>1, PatternMatchesWhatIsMeant
  <1>4. CASE e.dir
    BY <1>1, <1>2, <1>4 DEF Wanted
  <1>5. CASE ~e.dir
    BY <1>3, <1>5 DEF Wanted
  <1> QED  BY <1>4, <1>5

-----------------------------------------------------------------------------
\* What a walk that nobody disturbs has found so far.
Finding(c) == call[c] = "walk" /\ ~disturbed[c] =>
    WalkOK(dirs, files, Location(path[c]), rescured[c], pattern[c], paths[c], stack[c])

Seeking(c) == /\ call[c] = "walk" => pattern[c] \in GivenPatterns
              /\ call[c] # "walk" => paths[c] = <<>>
              /\ Finding(c)

WalkInv == /\ paths \in [Callers -> Seq(NamePath)]
           /\ pattern \in [Callers -> GivenPatterns \cup {<<>>}]
           /\ \A c \in Callers : Seeking(c)

\* What has to be shown of a step of c.
OwnWalk(c) == /\ paths' \in [Callers -> Seq(NamePath)]
              /\ pattern' \in [Callers -> GivenPatterns \cup {<<>>}]
              /\ \A s \in Callers \ {c} : paths'[s] = paths[s] /\ pattern'[s] = pattern[s]
              /\ Seeking(c)'

LEMMA OwnWalkSuffices ==
  ASSUME PathInv, WalkInv, NEW c \in Callers, Watch(c), Others(c), OwnWalk(c)
  PROVE  WalkInv'
  <1>1. ASSUME NEW s \in Callers, s # c PROVE Seeking(s)'
    <2>1. /\ path'[s] = path[s] /\ call'[s] = call[s] /\ stack'[s] = stack[s] /\ rescured'[s] = rescured[s]
          /\ paths'[s] = paths[s] /\ pattern'[s] = pattern[s]
      BY <1>1 DEF Others, OwnWalk
    <2>2. Seeking(s)
      BY DEF WalkInv
    <2>3. ASSUME call'[s] = "walk", ~disturbed'[s]
          PROVE WalkOK(dirs', files', Location(path'[s]), rescured'[s], pattern'[s], paths'[s], stack'[s])
      <3>1. ~disturbed[s] /\ dirs' = dirs /\ files' = files
        BY <1>1, <2>3, WatchIs
      <3>2. WalkOK(dirs, files, Location(path[s]), rescured[s], pattern[s], paths[s], stack[s])
        BY <2>1, <2>2, <2>3, <3>1 DEF Seeking, Finding
      <3> QED  BY <2>1, <3>1, <3>2
    <2>4. Finding(s)'
      BY <2>3 DEF Finding
    <2> QED  BY <2>1, <2>2, <2>4 DEF Seeking
  <1>2. Seeking(c)'
    BY DEF OwnWalk
  <1> QED  BY <1>1, <1>2 DEF WalkInv, OwnWalk

LEMMA WalkInvInit == Init => WalkInv
  <1> SUFFICES ASSUME Init PROVE WalkInv
    OBVIOUS
  <1>1. <<>> \in Seq(NamePath)
    OBVIOUS
  <1>2. paths \in [Callers -> Seq(NamePath)] /\ pattern \in [Callers -> GivenPatterns \cup {<<>>}]
    BY <1>1 DEF Init
  <1>3. ASSUME NEW c \in Callers PROVE Seeking(c)
    <2>1. call[c] = "none" /\ paths[c] = <<>>
      BY DEF Init
    <2> QED  BY <2>1 DEF Seeking, Finding
  <1> QED  BY <1>2, <1>3 DEF WalkInv

\* A call ends.
LEMMA EndsWalk ==
  ASSUME PathInv, WalkInv, NEW c \in Callers, End(c)
  PROVE  OwnWalk(c) /\ call'[c] = "none"
  <1>1. /\ paths \in [Callers -> Seq(NamePath)] /\ pattern \in [Callers -> GivenPatterns \cup {<<>>}]
        /\ call \in [Callers -> {"none", "create", "walk"}]
    BY DEF WalkInv, PathInv, Types
  <1>0. <<>> \in Seq(NamePath)
    OBVIOUS
  <1>2. /\ call' = [call EXCEPT ![c] = "none"] /\ pattern' = [pattern EXCEPT ![c] = <<>>]
        /\ paths' = [paths EXCEPT ![c] = <<>>]
    BY DEF End
  <1>3. call'[c] = "none"
    BY <1>1, <1>2
  <1>4. paths' \in [Callers -> Seq(NamePath)] /\ paths'[c] = <<>> /\ \A s \in Callers \ {c} : paths'[s] = paths[s]
    BY <1>0, <1>1, <1>2
  <1>5. pattern' \in [Callers -> GivenPatterns \cup {<<>>}] /\ \A s \in Callers \ {c} : pattern'[s] = pattern[s]
    BY <1>1, <1>2
  <1>6. Seeking(c)'
    BY <1>3, <1>4 DEF Seeking, Finding
  <1> QED  BY <1>3, <1>4, <1>5, <1>6 DEF OwnWalk

\* A call that is not a walk.
LEMMA NoWalk ==
  ASSUME PathInv, WalkInv, NEW c \in Callers, paths' = paths, pattern' = pattern,
         call[c] # "walk", call'[c] # "walk"
  PROVE  OwnWalk(c)
  <1>1. paths[c] = <<>>
    BY DEF WalkInv, Seeking
  <1> QED  BY <1>1 DEF OwnWalk, WalkInv, Seeking, Finding

LEMMA OtherCallsWalkNot ==
  ASSUME PathInv, WalkInv, NEW c \in Callers, Watch(c),
         \/ RemoveCall(c) \/ RenameCall(c) \/ RenameNothing(c)
         \/ CreateCall(c) \/ CreateParent(c) \/ CreateSelf(c) \/ CreateMkdir(c)
  PROVE  OwnWalk(c)
  <1>1. CASE RemoveCall(c) \/ RenameCall(c) \/ RenameNothing(c)
    <2>1. call[c] = "none" /\ call' = call /\ paths' = paths /\ pattern' = pattern
      BY <1>1 DEF RemoveCall, RenameCall, RenameNothing, Idle, argumentVars
    <2> QED  BY <2>1, NoWalk
  <1>2. CASE CreateCall(c)
    <2>1. call[c] = "none" /\ call' = [call EXCEPT ![c] = "create"] /\ paths' = paths /\ pattern' = pattern
      BY <1>2 DEF CreateCall, Begin, Idle
    <2>2. call'[c] = "create"
      BY <2>1 DEF PathInv, Types
    <2> QED  BY <2>1, <2>2, NoWalk
  <1>3. CASE CreateParent(c)
    <2>1. call[c] = "create" /\ call' = call /\ paths' = paths /\ pattern' = pattern
      BY <1>3 DEF CreateParent, Running, argumentVars
    <2> QED  BY <2>1, NoWalk
  <1>4. CASE CreateSelf(c) \/ CreateMkdir(c)
    <2>1. /\ call[c] = "create"
          /\ End(c) \/ (call' = call /\ paths' = paths /\ pattern' = pattern)
      BY <1>4 DEF CreateSelf, CreateMkdir, ReturnFrom, Running, argumentVars
    <2>2. CASE End(c)
      BY <2>2, EndsWalk
    <2>3. CASE call' = call /\ paths' = paths /\ pattern' = pattern
      BY <2>1, <2>3, NoWalk
    <2> QED  BY <2>1, <2>2, <2>3
  <1> QED  BY <1>1, <1>2, <1>3, <1>4

LEMMA WalkCallFinds ==
  ASSUME PathInv, PathInv', WalkInv, NEW c \in Callers, Watch(c), WalkCall(c)
  PROVE  OwnWalk(c)
  <1>1. PICK text \in GivenTexts, p \in GivenPatterns \ {<<>>}, r \in BOOLEAN :
           /\ pattern' = [pattern EXCEPT ![c] = p]
           /\ rescured' = [rescured EXCEPT ![c] = r]
           /\ Begin(c, "walk", Names(text), "open")
    BY DEF WalkCall
  <1> DEFINE names == Names(text)
  <1>2. names \in NamePath /\ Begin(c, "walk", names, "open")
    BY <1>1, GivenIs
  <1> HIDE DEF names
  <1>3. /\ path'[c] = names /\ call'[c] = "walk"
        /\ Len(stack'[c]) = 1 /\ stack'[c][1] = Frame(names, "open")
    BY <1>2, BeginIs
  <1>4. paths' = paths /\ call[c] = "none"
    BY <1>2 DEF WalkCall, Begin, Idle
  <1>5. paths \in [Callers -> Seq(NamePath)] /\ pattern \in [Callers -> GivenPatterns \cup {<<>>}] /\ paths[c] = <<>>
    BY <1>4 DEF WalkInv, Seeking
  <1>6. /\ pattern' \in [Callers -> GivenPatterns \cup {<<>>}] /\ pattern'[c] = p
        /\ \A s \in Callers \ {c} : pattern'[s] = pattern[s]
    BY <1>1, <1>5
  <1>7. stack'[c] \in Seq(FrameType) /\ rescured'[c] \in BOOLEAN
    BY DEF PathInv, Types
  <1>8. Location(names) \in NamePath
    BY <1>2, LocationType
  <1>9. stack'[c][1].at = "open" /\ stack'[c][1].todo = {} /\ At(stack'[c][1]) = Location(names)
    BY <1>3 DEF Frame, At
  <1>10. WalkOK(dirs', files', Location(names), rescured'[c], pattern'[c], <<>>, stack'[c])
    BY <1>3, <1>7, <1>8, <1>9, WalkBegins
  <1>11. Finding(c)'
    BY <1>3, <1>4, <1>5, <1>10 DEF Finding
  <1>12. Seeking(c)'
    BY <1>3, <1>6, <1>11 DEF Seeking
  <1> QED  BY <1>4, <1>5, <1>6, <1>12 DEF OwnWalk

\* The stack of a walk changes, and perhaps what it has found.
LEMMA WalkGoesOn ==
  ASSUME PathInv, WalkInv, NEW c \in Callers, Watch(c), Running(c, "walk"),
         call' = call, path' = path, rescured' = rescured, pattern' = pattern,
         dirs' = dirs, files' = files,
         NEW st, stack' = [stack EXCEPT ![c] = st],
         NEW found \in Seq(NamePath), paths' = [paths EXCEPT ![c] = found],
         WalkOK(dirs, files, Location(path[c]), rescured[c], pattern[c], paths[c], stack[c]) =>
            WalkOK(dirs, files, Location(path[c]), rescured[c], pattern[c], found, st)
  PROVE  OwnWalk(c)
  <1>1. /\ paths \in [Callers -> Seq(NamePath)] /\ pattern \in [Callers -> GivenPatterns \cup {<<>>}]
        /\ Seeking(c)
    BY DEF WalkInv
  <1>2. call[c] = "walk" /\ call'[c] = "walk"
    BY DEF Running
  <1>3. /\ paths' \in [Callers -> Seq(NamePath)] /\ paths'[c] = found
        /\ \A s \in Callers \ {c} : paths'[s] = paths[s]
    BY <1>1
  <1>4. stack'[c] = st
    BY DEF PathInv, Types
  <1>5. ASSUME ~disturbed'[c]
        PROVE WalkOK(dirs', files', Location(path'[c]), rescured'[c], pattern'[c], paths'[c], stack'[c])
    <2>1. ~disturbed[c]
      BY <1>2, <1>5, WatchIs
    <2>2. WalkOK(dirs, files, Location(path[c]), rescured[c], pattern[c], paths[c], stack[c])
      BY <1>1, <1>2, <2>1 DEF Seeking, Finding
    <2>3. WalkOK(dirs, files, Location(path[c]), rescured[c], pattern[c], found, st)
      BY <2>2
    <2> QED  BY <1>3, <1>4, <2>3
  <1>6. Finding(c)'
    BY <1>5 DEF Finding
  <1>7. Seeking(c)'
    BY <1>1, <1>2, <1>6 DEF Seeking
  <1> QED  BY <1>1, <1>3, <1>7 DEF OwnWalk

-----------------------------------------------------------------------------
\* WalkDirectory is left.
LEMMA LeavingWalk ==
  ASSUME PathInv, WalkInv, NEW c \in Callers, Watch(c), Running(c, "walk"), LeaveDirectory(c),
         dirs' = dirs, files' = files,
         (Top(c).at # "list" /\ At(Top(c)) \notin dirs) \/ (Top(c).at = "list" /\ Top(c).todo = {})
  PROVE  OwnWalk(c)
  <1>1. /\ Len(stack[c]) \in Nat /\ Len(stack[c]) >= 1 /\ stack[c] \in Seq(FrameType)
        /\ Top(c) = stack[c][Len(stack[c])]
    BY TopIs DEF Running
  <1>2. CASE Len(stack[c]) = 1
    BY <1>2, EndsWalk DEF LeaveDirectory
  <1>3. CASE Len(stack[c]) # 1
    <2> DEFINE n == Len(stack[c])
               st == Front(stack[c])
    <2>1. n > 1
      <3>1. \A k \in Nat : k >= 1 /\ k # 1 => k > 1
        BY Numbers
      <3> QED  BY <1>1, <1>3, <3>1
    <2>2. /\ st \in Seq(FrameType) /\ Len(st) = n - 1
          /\ \A i \in 1..Len(st) : st[i] = stack[c][i]
      BY <1>1, <2>1, FrontOfStack
    <2>3. /\ stack' = [stack EXCEPT ![c] = st] /\ path' = path /\ call' = call
          /\ rescured' = rescured /\ pattern' = pattern /\ paths' = paths
      BY <1>3 DEF LeaveDirectory, argumentVars
    <2>4. paths[c] \in Seq(NamePath) /\ paths' = [paths EXCEPT ![c] = paths[c]]
      BY <2>3 DEF WalkInv
    <2>5. TreeOK(dirs, files) /\ rescured[c] \in BOOLEAN
      BY DEF PathInv, Types
    <2> HIDE DEF st
    <2>6. \A i \in 1..(n - 1) : st[i] = stack[c][i]
      BY <2>2
    <2>7. ASSUME WalkOK(dirs, files, Location(path[c]), rescured[c], pattern[c], paths[c], stack[c])
          PROVE  WalkOK(dirs, files, Location(path[c]), rescured[c], pattern[c], paths[c], st)
      BY <1>1, <2>2, <2>5, <2>6, <2>7, WalkLeaves, SMTT(60)
    <2> HIDE DEF n
    <2> QED  BY <2>3, <2>4, <2>7, WalkGoesOn
  <1> QED  BY <1>2, <1>3

LEMMA GoingIn ==
  ASSUME PathInv, WalkInv, NEW c \in Callers, Watch(c), WalkExists(c)
  PROVE  OwnWalk(c)
  <1> DEFINE n == Len(stack[c])
             f == [stack[c][n] EXCEPT !.at = "find"]
             st == [stack[c] EXCEPT ![n] = f]
  <1>1. /\ Running(c, "walk") /\ call[c] = "walk" /\ call[c] # "none" /\ Top(c).at = "open"
        /\ dirs' = dirs /\ files' = files
    BY DEF WalkExists, Running, treeVars
  <1>2. CASE ~Exists(Top(c).path)
    <2>1. LeaveDirectory(c) /\ At(Top(c)) \notin dirs
      BY <1>2 DEF WalkExists, Exists, At
    <2> HIDE DEF n, f, st
    <2> QED  BY <1>1, <2>1, LeavingWalk
  <1>3. CASE Exists(Top(c).path)
    <2>1. /\ n \in Nat /\ n >= 1 /\ stack[c] \in Seq(FrameType)
          /\ Top(c) = stack[c][n] /\ Top(c) \in FrameType
      BY <1>1, TopIs
    <2>2. /\ f \in FrameType /\ f.path = stack[c][n].path /\ f.at = "find"
          /\ f.todo = stack[c][n].todo /\ stack[c][n].at = "open"
      BY <1>1, <2>1 DEF FrameType
    <2>3. /\ stack' = [stack EXCEPT ![c] = st]
          /\ path' = path /\ call' = call /\ rescured' = rescured /\ pattern' = pattern /\ paths' = paths
      BY <1>3 DEF WalkExists, Goto, argumentVars
    <2> HIDE DEF f
    <2>4. st \in Seq(FrameType) /\ Len(st) = n /\ \A i \in 1..n : st[i] = IF i = n THEN f ELSE stack[c][i]
      BY <2>1, <2>2
    <2> HIDE DEF st
    <2>5. paths[c] \in Seq(NamePath) /\ paths' = [paths EXCEPT ![c] = paths[c]]
      BY <2>3 DEF WalkInv
    <2>6. ASSUME WalkOK(dirs, files, Location(path[c]), rescured[c], pattern[c], paths[c], stack[c])
          PROVE  WalkOK(dirs, files, Location(path[c]), rescured[c], pattern[c], paths[c], st)
      BY <2>1, <2>2, <2>4, <2>6, WalkGoesIn
    <2> HIDE DEF n
    <2> QED  BY <1>1, <2>3, <2>5, <2>6, WalkGoesOn
  <1> QED  BY <1>2, <1>3

LEMMA OpeningWalk ==
  ASSUME PathInv, WalkInv, NEW c \in Callers, Watch(c), WalkOpen(c)
  PROVE  OwnWalk(c)
  <1> DEFINE place == Location(Top(c).path)
             n == Len(stack[c])
             entries == {[name |-> Last(child), dir |-> child \in dirs] : child \in Children(place)}
             f == [stack[c][n] EXCEPT !.at = "list", !.todo = entries]
             st == [stack[c] EXCEPT ![n] = f]
  <1>1. /\ Running(c, "walk") /\ call[c] = "walk" /\ call[c] # "none" /\ Top(c).at = "find"
        /\ dirs' = dirs /\ files' = files /\ At(Top(c)) = place
    BY DEF WalkOpen, Running, treeVars, At
  <1>2. CASE place \notin dirs
    <2>1. LeaveDirectory(c) /\ At(Top(c)) \notin dirs
      BY <1>1, <1>2 DEF WalkOpen
    <2>2. (Top(c).at # "list" /\ At(Top(c)) \notin dirs) \/ (Top(c).at = "list" /\ Top(c).todo = {})
      BY <1>1, <2>1
    <2>3. Running(c, "walk") /\ dirs' = dirs /\ files' = files
      BY <1>1
    <2> HIDE DEF place, n, entries, f, st
    <2> QED  BY <2>1, <2>2, <2>3, LeavingWalk
  <1>3. CASE place \in dirs
    <2>1. /\ n \in Nat /\ n >= 1 /\ stack[c] \in Seq(FrameType)
          /\ Top(c) = stack[c][n] /\ Top(c) \in FrameType
      BY <1>1, TopIs
    <2>2. TreeOK(dirs, files) /\ rescured[c] \in BOOLEAN /\ path[c] \in NamePath
      BY DEF PathInv, Types
    <2>3. Location(path[c]) \in NamePath
      BY <2>2, LocationType
    <2>4. \A child \in Children(place) : Last(child) \in Name
      <3> TAKE child \in Children(place)
      <3>1. child \in NamePath /\ Len(child) \in 1..StackLimit
        BY <2>2 DEF Children, TreeOK
      <3>2. Len(child) >= 1
        BY <3>1, Given
      <3> QED  BY <3>1, <3>2, FrontIs DEF Last
    <2>5. entries \in SUBSET Entry
      <3>1. \A name \in Name, d \in BOOLEAN : [name |-> name, dir |-> d] \in Entry
        BY DEF Entry
      <3>2. \A child \in Children(place) : [name |-> Last(child), dir |-> child \in dirs] \in Entry
        BY <2>4, <3>1, Belongs
      <3> QED  BY <3>2, Zenon
    <2>6. entries = {[name |-> Last(child), dir |-> child \in dirs] :
                       child \in {child \in dirs \cup files : child # <<>> /\ Front(child) = At(Top(c))}}
      BY <1>1, Zenon DEF Children
    <2>7. /\ stack' = [stack EXCEPT ![c] = st]
          /\ path' = path /\ call' = call /\ rescured' = rescured /\ pattern' = pattern /\ paths' = paths
      BY <1>3 DEF WalkOpen, argumentVars
    <2> HIDE DEF entries
    <2>8. f \in FrameType /\ f.path = Top(c).path /\ f.at = "list" /\ f.todo = entries
      BY <2>1, <2>5 DEF FrameType
    <2> HIDE DEF f
    <2>9. st \in Seq(FrameType) /\ Len(st) = n /\ \A i \in 1..n : st[i] = IF i = n THEN f ELSE stack[c][i]
      BY <2>1, <2>8
    <2> HIDE DEF st
    <2>10. paths[c] \in Seq(NamePath) /\ paths' = [paths EXCEPT ![c] = paths[c]]
      BY <2>7 DEF WalkInv
    <2>11. /\ stack[c][n].at = "find" /\ At(stack[c][n]) \in dirs /\ f.path = stack[c][n].path
           /\ f.todo = {[name |-> Last(child), dir |-> child \in dirs] :
                 child \in {child \in dirs \cup files : child # <<>> /\ Front(child) = At(stack[c][n])}}
      BY <1>1, <1>3, <2>1, <2>6, <2>8
    <2>12. ASSUME WalkOK(dirs, files, Location(path[c]), rescured[c], pattern[c], paths[c], stack[c])
           PROVE  WalkOK(dirs, files, Location(path[c]), rescured[c], pattern[c], paths[c], st)
      BY <2>1, <2>2, <2>3, <2>8, <2>9, <2>11, <2>12, WalkOpens
    <2> HIDE DEF n, place
    <2> QED  BY <1>1, <2>7, <2>10, <2>12, WalkGoesOn
  <1> QED  BY <1>2, <1>3

LEMMA ClosingWalk ==
  ASSUME PathInv, WalkInv, NEW c \in Callers, Watch(c), WalkClose(c)
  PROVE  OwnWalk(c)
  <1>1. /\ Running(c, "walk") /\ LeaveDirectory(c) /\ Top(c).at = "list" /\ Top(c).todo = {}
        /\ dirs' = dirs /\ files' = files
    BY DEF WalkClose, treeVars
  <1> QED  BY <1>1, LeavingWalk

LEMMA EnteringWalk ==
  ASSUME PathInv, WalkInv, NEW c \in Callers, Watch(c), WalkEntry(c)
  PROVE  OwnWalk(c)
  <1> DEFINE n == Len(stack[c])
             t == Top(c)
             start == Location(path[c])
             p == pattern[c]
             r == rescured[c]
  <1>1. /\ Running(c, "walk") /\ call[c] = "walk" /\ call[c] # "none" /\ t.at = "list"
        /\ dirs' = dirs /\ files' = files
        /\ path' = path /\ call' = call /\ rescured' = rescured /\ pattern' = pattern
    BY DEF WalkEntry, Running, treeVars, argumentVars
  <1>2. /\ n \in 1..n /\ n \in Nat /\ n >= 1 /\ stack[c] \in Seq(FrameType)
        /\ t = stack[c][n] /\ t \in FrameType /\ t.path \in NamePath
    BY <1>1, TopIs
  <1>3. PICK entry \in t.todo :
           LET currentPath == Join(t.path, <<entry.name>>)
               reported == IF entry.dir THEN GetDir(p)
                           ELSE IsPatternMatched(entry.name, PatternToRegex(p))
               rest == [stack[c] EXCEPT ![n].todo = @ \ {entry}]
           IN  /\ paths' = IF reported THEN [paths EXCEPT ![c] = Append(@, currentPath)] ELSE paths
               /\ stack' = [stack EXCEPT ![c] = IF entry.dir /\ r
                                                THEN Append(rest, Frame(currentPath, "open"))
                                                ELSE rest]
    BY DEF WalkEntry
  <1> DEFINE f == [t EXCEPT !.todo = @ \ {entry}]
             rest == [stack[c] EXCEPT ![n] = f]
             names == Append(t.path, entry.name)
             new == Frame(names, "open")
             reported == IF entry.dir THEN GetDir(p) ELSE IsPatternMatched(entry.name, PatternToRegex(p))
             found == IF reported THEN Append(paths[c], names) ELSE paths[c]
             st == IF entry.dir /\ r THEN Append(rest, new) ELSE rest
  <1>4. [stack[c] EXCEPT ![n].todo = @ \ {entry}] = rest
    BY <1>2
  <1>5. entry \in Entry /\ entry.name \in Name
    BY <1>2 DEF FrameType, Entry
  <1>6. WalkFrame(t, n)
    BY <1>1, <1>2 DEF PathInv, Walking
  <1>7. At(t) \in NamePath /\ Len(At(t)) \in Nat /\ At(t) = Location(t.path)
    BY <1>2, AtIs DEF At
  <1>8. At(t) # <<>> /\ t.path # <<>>
    <2>1. Len(At(t)) >= n /\ Len(<<>>) = 0
      BY <1>1, <1>6, <1>7 DEF WalkFrame
    <2>2. At(t) # <<>>
      BY <1>2, <1>7, <2>1
    <2> QED  BY <1>7, <2>2, LocationOfEmpty
  <1>9. Join(t.path, <<entry.name>>) = names
    BY <1>2, <1>5, JoinIs
  <1>10. names \in NamePath /\ Location(names) = Append(At(t), entry.name)
    BY <1>2, <1>5, <1>7, <1>8, LocationOfAppend
  <1>11. Location(names) = Child(t, entry)
    BY <1>10 DEF Child
  <1> HIDE DEF names
  <1>12. stack' = [stack EXCEPT ![c] = st]
    BY <1>3, <1>4, <1>9
  <1>13. /\ paths \in [Callers -> Seq(NamePath)] /\ paths[c] \in Seq(NamePath)
         /\ p \in GivenPatterns
    BY <1>1 DEF WalkInv, Seeking
  <1>14. paths' = [paths EXCEPT ![c] = found]
    <2>1. paths' = IF reported THEN [paths EXCEPT ![c] = Append(@, names)] ELSE paths
      BY <1>3, <1>9
    <2> HIDE DEF reported
    <2>2. CASE reported
      BY <2>1, <2>2
    <2>3. CASE ~reported
      BY <1>13, <2>1, <2>3
    <2> QED  BY <2>2, <2>3
  <1>15. found \in Seq(NamePath)
    <2> HIDE DEF reported
    <2>1. Append(paths[c], names) \in Seq(NamePath)
      BY <1>10, <1>13
    <2> QED  BY <1>13, <2>1
  <1>16. f \in FrameType /\ f.path = t.path /\ f.at = "list" /\ f.todo = t.todo \ {entry}
    BY <1>1, <1>2 DEF FrameType
  <1> HIDE DEF f
  <1>17. rest \in Seq(FrameType) /\ Len(rest) = n /\ \A i \in 1..n : rest[i] = IF i = n THEN f ELSE stack[c][i]
    BY <1>2, <1>16
  <1>18. new \in FrameType /\ new.at = "open" /\ new.todo = {} /\ At(new) = Child(t, entry)
    <2>1. new \in FrameType /\ new.path = names /\ new.at = "open" /\ new.todo = {}
      BY <1>10 DEF Frame, FrameType
    <2> HIDE DEF new
    <2> QED  BY <1>11, <2>1 DEF At
  <1> HIDE DEF rest, new
  <1>19. /\ st \in Seq(FrameType) /\ \A i \in 1..n : st[i] = IF i = n THEN f ELSE stack[c][i]
         /\ IF entry.dir /\ r THEN Len(st) = n + 1 /\ st[n + 1] = new ELSE Len(st) = n
    <2>1. CASE entry.dir /\ r
      <3>1. st = Append(rest, new)
        BY <2>1
      <3>2. /\ Append(rest, new) \in Seq(FrameType) /\ Len(Append(rest, new)) = n + 1
            /\ Append(rest, new)[n + 1] = new /\ \A i \in 1..n : Append(rest, new)[i] = rest[i]
        BY <1>2, <1>17, <1>18
      <3> HIDE DEF st, n
      <3> QED  BY <1>17, <2>1, <3>1, <3>2
    <2>2. CASE ~(entry.dir /\ r)
      <3>1. st = rest
        BY <2>2
      <3> HIDE DEF st, n
      <3> QED  BY <1>17, <2>2, <3>1
    <2> QED  BY <2>1, <2>2
  <1>20. TreeOK(dirs, files) /\ r \in BOOLEAN /\ start \in NamePath
    BY LocationType DEF PathInv, Types
  <1> HIDE DEF st
  <1>21. ASSUME WalkOK(dirs, files, start, r, p, paths[c], stack[c])
         PROVE  WalkOK(dirs, files, start, r, p, found, st)
    <2>1. entry.dir <=> Child(t, entry) \in dirs
      <3>1. FrameOK(dirs, files, start, r, t)
        BY <1>2, <1>21 DEF WalkOK
      <3> QED  BY <3>1 DEF FrameOK
    <2>2. Last(Child(t, entry)) = entry.name
      BY <1>2, <1>5, ChildIs
    <2>3. reported <=> Wanted(dirs, p, Child(t, entry))
      BY <1>5, <1>13, <2>1, <2>2, ReportedIs
    <2> HIDE DEF reported
    <2>4. found = IF Wanted(dirs, p, Child(t, entry)) THEN Append(paths[c], names) ELSE paths[c]
      BY <2>3
    <2> HIDE DEF found
    <2>5. EntryStep(dirs, r, p, paths[c], stack[c], n, entry, f, new, st, names, found)
      BY <1>1, <1>2, <1>8, <1>11, <1>16, <1>18, <1>19, <2>4 DEF EntryStep
    <2>6. stack[c] \in Seq(FrameType) /\ n \in Nat /\ n >= 1 /\ Len(stack[c]) = n
      BY <1>2
    <2> HIDE DEF n, start, p, r, t
    <2> QED  BY <1>10, <1>13, <1>16, <1>18, <1>19, <1>20, <1>21, <2>5, <2>6, WalkHandles
  <1> HIDE DEF found
  <1> QED  BY <1>1, <1>12, <1>14, <1>15, <1>21, WalkGoesOn

-----------------------------------------------------------------------------
LEMMA StepIsOwnWalk ==
  ASSUME PathInv, PathInv', WalkInv, NEW c \in Callers, Step(c), Watch(c)
  PROVE  OwnWalk(c)
  <1>1. CASE RemoveCall(c) \/ RenameCall(c) \/ RenameNothing(c)
    BY <1>1, OtherCallsWalkNot
  <1>2. CASE CreateCall(c) \/ CreateParent(c) \/ CreateSelf(c) \/ CreateMkdir(c)
    BY <1>2, OtherCallsWalkNot
  <1>3. CASE WalkCall(c)
    BY <1>3, WalkCallFinds
  <1>4. CASE WalkExists(c) \/ WalkOpen(c)
    BY <1>4, GoingIn, OpeningWalk
  <1>5. CASE WalkEntry(c)
    BY <1>5, EnteringWalk
  <1>6. CASE WalkClose(c)
    BY <1>6, ClosingWalk
  <1> QED  BY <1>1, <1>2, <1>3, <1>4, <1>5, <1>6 DEF Step

LEMMA NextWalkInv == PathInv /\ PathInv' /\ WalkInv /\ [Next]_vars => WalkInv'
  <1> SUFFICES ASSUME PathInv, PathInv', WalkInv, [Next]_vars PROVE WalkInv'
    OBVIOUS
  <1>1. CASE Next
    <2>1. PICK c \in Callers : Step(c) /\ Watch(c)
      BY <1>1 DEF Next
    <2>2. Others(c)
      BY <2>1, StepIsOwn DEF Own
    <2> QED  BY <2>1, <2>2, StepIsOwnWalk, OwnWalkSuffices
  <1>2. CASE UNCHANGED vars
    <2>1. UNCHANGED <<dirs, files, path, call, stack, rescured, pattern, paths, disturbed>>
      BY <1>2 DEF vars
    <2>2. ASSUME NEW c \in Callers PROVE Seeking(c)'
      <3>1. Seeking(c)
        BY DEF WalkInv
      <3> QED  BY <2>1, <3>1 DEF Seeking, Finding
    <2>3. paths' = paths /\ pattern' = pattern
      BY <2>1
    <2> QED  BY <2>2, <2>3 DEF WalkInv
  <1> QED  BY <1>1, <1>2

LEMMA WalkInvAlways == Spec => []WalkInv
  <1>1. PathInv /\ WalkInv /\ [Next]_vars => (PathInv /\ WalkInv)'
    BY NextPathInv, NextWalkInv
  <1> QED  BY <1>1, InitPathInv, WalkInvInit, PTL DEF Spec

\* What GetSubPaths should find is what the walk seeks.
LEMMA MeantIs ==
  ASSUME PathInv, NEW c \in Callers
  PROVE  Meant(c) = Sought(dirs, files, Location(path[c]), rescured[c], pattern[c])
  <1> DEFINE place == Location(path[c])
  <1>1. place \in NamePath
    BY LocationType DEF PathInv, Types
  <1>2. \A b \in dirs \cup files : b \in NamePath
    BY DEF PathInv, Types, TreeOK
  <1>3. \A b \in dirs \cup files : IsStrictPrefix(place, b) <=> Below(place, b) /\ b # place
    BY <1>1, <1>2, StrictlyBelow
  <1>4. Meant(c) = {b \in dirs \cup files :
                      /\ place # <<>> /\ IsStrictPrefix(place, b)
                      /\ rescured[c] \/ Len(b) = Len(place) + 1
                      /\ Wanted(dirs, pattern[c], b)}
    BY Zenon DEF Meant, Wanted
  <1>5. Sought(dirs, files, place, rescured[c], pattern[c])
          = {b \in dirs \cup files :
                /\ place # <<>> /\ Below(place, b) /\ b # place
                /\ rescured[c] \/ Len(b) = Len(place) + 1
                /\ Wanted(dirs, pattern[c], b)}
    BY DEF Sought, Inside
  <1> HIDE DEF place
  <1>6. Meant(c) = Sought(dirs, files, place, rescured[c], pattern[c])
    BY <1>3, <1>4, <1>5
  <1> QED  BY <1>6 DEF place

FoundEnd(c) == /\ {Location(paths[c][i]) : i \in DOMAIN paths[c]} = Meant(c)
               /\ Len(paths[c]) = Cardinality(Meant(c))

LEMMA OwnEndFindsAll ==
  ASSUME PathInv, WalkInv, NEW c \in Callers, Step(c), Ends(c, "walk"), ~disturbed[c]
  PROVE  FoundEnd(c)
  <1>1. call[c] = "walk" /\ call'[c] = "none" /\ call[c] # "none"
    BY DEF Ends
  <1>2. WalkExists(c) \/ WalkOpen(c) \/ WalkEntry(c) \/ WalkClose(c)
    BY <1>1 DEF Step, RemoveCall, RenameCall, RenameNothing, CreateCall, CreateParent, CreateSelf,
                CreateMkdir, WalkCall, Idle, Begin, Running
  <1>3. /\ LeaveDirectory(c)
        /\ (Top(c).at # "list" /\ At(Top(c)) \notin dirs) \/ (Top(c).at = "list" /\ Top(c).todo = {})
    <2>1. CASE WalkOpen(c)
      <3>1. CASE Location(Top(c).path) \in dirs
        <4>1. call' = call
          BY <2>1, <3>1 DEF WalkOpen
        <4> QED  BY <1>1, <4>1
      <3>2. CASE Location(Top(c).path) \notin dirs
        <4>1. LeaveDirectory(c) /\ Top(c).at = "find"
          BY <2>1, <3>2 DEF WalkOpen
        <4> QED  BY <3>2, <4>1 DEF At
      <3> QED  BY <3>1, <3>2
    <2>2. CASE WalkEntry(c)
      <3>1. call' = call
        BY <2>2 DEF WalkEntry
      <3> QED  BY <1>1, <3>1
    <2>3. CASE WalkClose(c)
      BY <2>3 DEF WalkClose
    <2>4. CASE WalkExists(c)
      <3>1. CASE Exists(Top(c).path)
        <4>1. call' = call
          BY <2>4, <3>1 DEF WalkExists
        <4> QED  BY <1>1, <4>1
      <3>2. CASE ~Exists(Top(c).path)
        BY <2>4, <3>2 DEF WalkExists, Exists, At
      <3> QED  BY <3>1, <3>2
    <2> QED  BY <1>2, <2>1, <2>2, <2>3, <2>4
  <1>4. Len(stack[c]) = 1
    <2> SUFFICES ASSUME Len(stack[c]) # 1 PROVE FALSE
      OBVIOUS
    <2>1. call' = call
      BY <1>3 DEF LeaveDirectory
    <2> QED  BY <1>1, <2>1
  <1>5. stack[c] \in Seq(FrameType) /\ Top(c) = stack[c][1]
    BY <1>1, <1>4, TopIs
  <1>6. /\ TreeOK(dirs, files) /\ rescured[c] \in BOOLEAN
        /\ paths[c] \in Seq(NamePath)
        /\ WalkOK(dirs, files, Location(path[c]), rescured[c], pattern[c], paths[c], stack[c])
    BY <1>1 DEF PathInv, Types, WalkInv, Seeking, Finding
  <1>7. /\ FoundAt(paths[c]) = Sought(dirs, files, Location(path[c]), rescured[c], pattern[c])
        /\ Cardinality(FoundAt(paths[c])) = Len(paths[c])
    <2>1. /\ Len(stack[c]) = 1
          /\ \/ stack[c][1].at # "list" /\ At(stack[c][1]) \notin dirs
             \/ stack[c][1].at = "list" /\ stack[c][1].todo = {}
      BY <1>3, <1>4, <1>5
    <2> QED  BY <1>5, <1>6, <2>1, WalkIsOver
  <1>8. FoundAt(paths[c]) = Meant(c)
    BY <1>7, MeantIs
  <1>9. {Location(paths[c][i]) : i \in DOMAIN paths[c]} = FoundAt(paths[c])
    <2>1. DOMAIN paths[c] = 1..Len(paths[c])
      BY <1>6
    <2> QED  BY <2>1 DEF FoundAt
  <1> QED  BY <1>7, <1>8, <1>9 DEF FoundEnd

\* In every file system, for every pattern and with every number of callers: a walk that
\* nobody disturbs finds each of the paths it is meant to find once, and nothing else
\* (PatternToRegex 35-113, WalkDirectory 143-184).
THEOREM WalksFindAll == Spec => WalkFindsAll
  <1>1. ASSUME PathInv, WalkInv, [Next]_vars
        PROVE  [\A c \in Callers : Ends(c, "walk") /\ ~disturbed[c] => FoundEnd(c)]_vars
    <2> SUFFICES ASSUME Next, NEW c \in Callers, Ends(c, "walk"), ~disturbed[c] PROVE FoundEnd(c)
      BY <1>1
    <2>1. PICK s \in Callers : Step(s) /\ Watch(s)
      BY DEF Next
    <2>2. CASE s = c
      BY <1>1, <2>1, <2>2, OwnEndFindsAll
    <2>3. CASE s # c
      <3>1. call'[c] = call[c]
        BY <1>1, <2>1, <2>3, StepIsOwn DEF Own, Others
      <3> QED  BY <3>1 DEF Ends
    <2> QED  BY <2>2, <2>3
  <1>2. [\A c \in Callers : Ends(c, "walk") /\ ~disturbed[c] => FoundEnd(c)]_vars
        => [\A c \in Callers : Ends(c, "walk") /\ ~disturbed[c] =>
              /\ {Location(paths[c][i]) : i \in DOMAIN paths[c]} = Meant(c)
              /\ Len(paths[c]) = Cardinality(Meant(c))]_vars
    BY DEF FoundEnd
  <1> QED  BY <1>1, <1>2, PathInvAlways, WalkInvAlways, PTL DEF Spec, WalkFindsAll

-----------------------------------------------------------------------------
\* The table as the values of a row are handled one by one.
Start == [datas |-> m_datas, widths |-> m_column_widths]
Following(row, i, table) == Handled(table, m_column_names[i], row[i])
Filling(row, n, t) ==
    t = [i \in 0..n |-> IF i = 0 THEN Start ELSE Following(row, i, t[i - 1])]

LEMMA FillingAt ==
  ASSUME NEW row, NEW n \in Nat, NEW t, Filling(row, n, t), NEW i \in 0..n
  PROVE  t[i] = IF i = 0 THEN Start ELSE Following(row, i, t[i - 1])
  BY DEF Filling

LEMMA FillingOnce ==
  ASSUME NEW row, NEW n \in Nat, NEW f, NEW g, Filling(row, n, f), Filling(row, n, g)
  PROVE  f = g
  <1> DEFINE Apart == {i \in 0..n : f[i] # g[i]}
  <1>1. ASSUME Apart # {} PROVE FALSE
    <2>1. Apart \in SUBSET Nat
      OBVIOUS
    <2>2. PICK i \in Apart : \A y \in Apart : i <= y
      BY <1>1, <2>1, LeastIs
    <2>3. f[i] # g[i] /\ i \in 0..n
      BY <2>2
    <2>4. CASE i = 0
      BY <2>3, <2>4, FillingAt
    <2>5. CASE i # 0
      <3>1. i - 1 \in 0..n /\ ~(i <= i - 1)
        BY <2>3, <2>5
      <3>2. f[i - 1] = g[i - 1]
        BY <2>2, <3>1
      <3> QED  BY <2>3, <2>5, <3>2, FillingAt
    <2> QED  BY <2>4, <2>5
  <1>2. /\ f = [i \in 0..n |-> f[i]]
        /\ g = [i \in 0..n |-> g[i]]
    BY DEF Filling
  <1> QED  BY <1>1, <1>2

LEMMA FillingOn ==
  ASSUME NEW row, NEW n \in Nat, NEW t, Filling(row, n, t)
  PROVE  LET u == [i \in 0..(n + 1) |-> IF i <= n THEN t[i] ELSE Following(row, i, t[n])]
         IN  Filling(row, n + 1, u) /\ u[n + 1] = Following(row, n + 1, t[n])
  <1> DEFINE u == [i \in 0..(n + 1) |-> IF i <= n THEN t[i] ELSE Following(row, i, t[n])]
             v == [i \in 0..(n + 1) |-> IF i = 0 THEN Start ELSE Following(row, i, u[i - 1])]
  <1>1. ASSUME NEW i \in 0..(n + 1) PROVE u[i] = v[i]
    <2>1. CASE i = n + 1
      <3>1. i # 0 /\ ~(i <= n) /\ i - 1 = n /\ n \in 0..(n + 1) /\ n <= n
        BY <2>1
      <3>2. u[i] = Following(row, i, t[n]) /\ u[n] = t[n]
        BY <3>1
      <3> QED  BY <3>1, <3>2
    <2>2. CASE i # n + 1
      <3>1. i \in 0..n /\ i <= n
        BY <2>2
      <3>2. u[i] = t[i]
        BY <3>1
      <3>3. CASE i = 0
        BY <3>1, <3>2, <3>3, FillingAt
      <3>4. CASE i # 0
        <4>1. i - 1 \in 0..(n + 1) /\ i - 1 <= n
          BY <3>1, <3>4
        <4>2. u[i - 1] = t[i - 1]
          BY <4>1
        <4>3. t[i] = Following(row, i, t[i - 1])
          BY <3>1, <3>4, FillingAt
        <4> QED  BY <3>2, <3>4, <4>2, <4>3
      <3> QED  BY <3>3, <3>4
    <2> QED  BY <2>1, <2>2
  <1>2. u = [i \in 0..(n + 1) |-> u[i]] /\ v = [i \in 0..(n + 1) |-> v[i]]
    OBVIOUS
  <1>3. n + 1 \in 0..(n + 1) /\ ~(n + 1 <= n)
    OBVIOUS
  <1>4. u[n + 1] = Following(row, n + 1, t[n])
    BY <1>3
  <1>5. u = v
    <2> HIDE DEF u, v
    <2> QED  BY <1>1, <1>2
  <1>6. Filling(row, n + 1, u)
    BY <1>5 DEF Filling
  <1> QED  BY <1>4, <1>6

\* What a row of n values makes of the table, if a value keeps what is claimed.
LEMMA FillingKeeps ==
  ASSUME NEW row, NEW T \in Nat, NEW Good, <<0, Start>> \in Good,
         \A n \in 0..(T - 1) : \A table : <<n, table>> \in Good => <<n + 1, Following(row, n + 1, table)>> \in Good
  PROVE  \E t : Filling(row, T, t) /\ <<T, t[T]>> \in Good
  <1> DEFINE Missing == {n \in 0..T : ~ \E t : Filling(row, n, t) /\ <<n, t[n]>> \in Good}
  <1>1. ASSUME Missing # {} PROVE FALSE
    <2>1. Missing \in SUBSET Nat
      OBVIOUS
    <2>2. PICK n \in Missing : \A y \in Missing : n <= y
      BY <1>1, <2>1, LeastIs
    <2>3. n \in 0..T /\ ~ \E t : Filling(row, n, t) /\ <<n, t[n]>> \in Good
      BY <2>2
    <2>4. CASE n = 0
      <3> DEFINE t == [i \in 0..0 |-> Start]
      <3>1. t = [i \in 0..0 |-> IF i = 0 THEN Start ELSE Following(row, i, t[i - 1])] /\ t[0] = Start
        OBVIOUS
      <3> HIDE DEF t
      <3>2. Filling(row, 0, t)
        BY <3>1 DEF Filling
      <3> QED  BY <2>3, <2>4, <3>1, <3>2
    <2>5. CASE n # 0
      <3>1. n - 1 \in 0..(T - 1) /\ n - 1 \in 0..T /\ n - 1 \in Nat /\ ~(n <= n - 1) /\ (n - 1) + 1 = n
        BY <2>3, <2>5
      <3>2. PICK t : Filling(row, n - 1, t) /\ <<n - 1, t[n - 1]>> \in Good
        BY <2>2, <3>1
      <3>3. PICK u : Filling(row, n, u) /\ u[n] = Following(row, n, t[n - 1])
        <4>1. \E u : Filling(row, (n - 1) + 1, u) /\ u[(n - 1) + 1] = Following(row, (n - 1) + 1, t[n - 1])
          BY <3>1, <3>2, FillingOn
        <4> QED  BY <3>1, <4>1
      <3>4. <<n, u[n]>> \in Good
        BY <3>1, <3>2, <3>3
      <3> QED  BY <2>3, <3>3, <3>4
    <2> QED  BY <2>4, <2>5
  <1>2. T \in 0..T
    OBVIOUS
  <1> QED  BY <1>1, <1>2

LEMMA UnpackedIs ==
  ASSUME NEW row, Taken(Len(row)) \in Nat, NEW t, Filling(row, Taken(Len(row)), t)
  PROVE  Unpacked(row) = t[Taken(Len(row))]
  <1> DEFINE T == Taken(Len(row))
             u == CHOOSE g : Filling(row, T, g)
  <1>1. Unpacked(row) = u[T]
    BY Zenon DEF Unpacked, Filling, Start, Following
  <1>2. Filling(row, T, u)
    OBVIOUS
  <1> HIDE DEF u
  <1>3. u = t
    BY <1>2, FillingOnce
  <1> QED  BY <1>1, <1>3

-----------------------------------------------------------------------------
Cell == [row : Nat, at : Nat, length : Nat]

TableTypes ==
    /\ m_column_names \in Seq(ColumnNames)
    /\ m_column_widths \in [Columns -> Nat]
    /\ m_datas \in [ColumnNames -> Seq(Cell)]
    /\ broken \in BOOLEAN /\ late \in BOOLEAN
    /\ rows \in Seq(Seq(Cell))

Distinct == \A i, j \in 1..Len(m_column_names) : m_column_names[i] = m_column_names[j] => i = j

\* The cell of a column in a whole row is at the number of that row.
InPlace ==
    \A i \in 1..Len(m_column_names) :
       LET column == m_datas[m_column_names[i]]
       IN  /\ Len(column) <= Len(rows)
           /\ \A n \in 1..Len(rows) : Whole(n) => n <= Len(column) /\ column[n] = rows[n][i]
           /\ \A k \in 1..Len(column) : column[k].length <= m_column_widths[m_column_names[i]]

TableInv ==
    /\ TableTypes
    /\ rows = <<>> => \A c \in ColumnNames : m_datas[c] = <<>>
    /\ Len(m_column_names) <= MaxColumns /\ Len(rows) <= MaxRows
    /\ \A c \in ColumnNames : Len(m_datas[c]) <= MaxColumns * Len(rows)
    /\ ~broken /\ rows # <<>> => \E c \in Columns : m_datas[c] # <<>>
    /\ ~broken /\ ~late => Distinct /\ InPlace

\* What n values of a row have made of the columns.
Columnwise(row, n, table) ==
    \A i \in 1..Len(m_column_names) :
       table.datas[m_column_names[i]] = IF i <= n THEN Append(m_datas[m_column_names[i]], row[i])
                                        ELSE m_datas[m_column_names[i]]

WideEnough(row, n, table) ==
    /\ \A c \in Columns : m_column_widths[c] <= table.widths[c]
    /\ \A i \in 1..n : row[i].length <= table.widths[m_column_names[i]]

Grown(n, table) ==
    /\ \A c \in ColumnNames : Len(table.datas[c]) <= Len(m_datas[c]) + n
    /\ n >= 1 => table.datas[m_column_names[1]] # <<>>

TableType == [datas : [ColumnNames -> Seq(Cell)], widths : [Columns -> Nat]]

LEMMA HandledIs ==
  ASSUME NEW table \in TableType, NEW c \in ColumnNames, c \in Columns, NEW cell \in Cell
  PROVE  LET next == Handled(table, c, cell)
         IN  /\ next \in TableType
             /\ next.datas[c] = Append(table.datas[c], cell)
             /\ \A d \in ColumnNames \ {c} : next.datas[d] = table.datas[d]
             /\ cell.length <= next.widths[c]
             /\ \A d \in Columns : table.widths[d] <= next.widths[d]
  <1> DEFINE datas == [table.datas EXCEPT ![c] = Append(@, cell)]
             widths == [table.widths EXCEPT ![c] = Widened(@, cell)]
             next == [datas |-> datas, widths |-> widths]
  <1>1. table.datas \in [ColumnNames -> Seq(Cell)] /\ table.widths \in [Columns -> Nat]
    BY DEF TableType
  <1>2. cell.length \in Nat
    BY DEF Cell
  <1>3. Append(table.datas[c], cell) \in Seq(Cell)
    BY <1>1
  <1>4. /\ datas \in [ColumnNames -> Seq(Cell)] /\ datas[c] = Append(table.datas[c], cell)
        /\ \A d \in ColumnNames \ {c} : datas[d] = table.datas[d]
    BY <1>1, <1>3
  <1>5. table.widths[c] \in Nat
    BY <1>1
  <1>6. /\ Widened(table.widths[c], cell) \in Nat
        /\ table.widths[c] <= Widened(table.widths[c], cell)
        /\ cell.length <= Widened(table.widths[c], cell)
    BY <1>2, <1>5 DEF Widened, Wider
  <1> DEFINE w == Widened(table.widths[c], cell)
  <1> HIDE DEF w
  <1>7. /\ [table.widths EXCEPT ![c] = w] \in [Columns -> Nat]
        /\ [table.widths EXCEPT ![c] = w][c] = w
        /\ \A d \in Columns \ {c} : [table.widths EXCEPT ![c] = w][d] = table.widths[d]
    BY <1>1, <1>6 DEF w
  <1>8. widths = [table.widths EXCEPT ![c] = w]
    BY DEF w
  <1> HIDE DEF datas, widths
  <1>9. \A d \in Columns : table.widths[d] \in Nat
    BY <1>1
  <1>10. \A d \in Columns : table.widths[d] <= widths[d]
    <2> TAKE d \in Columns
    <2>1. CASE d = c
      BY <1>6, <1>7, <1>8, <2>1 DEF w
    <2>2. CASE d # c
      <3>1. widths[d] = table.widths[d] /\ table.widths[d] \in Nat
        BY <1>7, <1>8, <1>9, <2>2
      <3> QED  BY <3>1
    <2> QED  BY <2>1, <2>2
  <1>11. cell.length <= widths[c]
    BY <1>6, <1>7, <1>8 DEF w
  <1>12. next = Handled(table, c, cell)
    BY DEF Handled, datas, widths
  <1>13. next \in TableType
    BY <1>4, <1>7, <1>8 DEF TableType
  <1>14. next.datas = datas /\ next.widths = widths
    OBVIOUS
  <1> HIDE DEF next
  <1> QED  BY <1>4, <1>10, <1>11, <1>12, <1>13, <1>14

LEMMA NotEmpty == \A s \in Seq(Cell), cell \in Cell : Append(s, cell) # <<>>
  <1> SUFFICES ASSUME NEW s \in Seq(Cell), NEW cell \in Cell, Append(s, cell) = <<>>
               PROVE  FALSE
    OBVIOUS
  <1>1. Len(Append(s, cell)) = Len(s) + 1 /\ Len(s) \in Nat /\ Len(<<>>) = 0
    OBVIOUS
  <1> QED  BY <1>1

LEMMA ColumnIs ==
  ASSUME TableTypes, NEW i \in 1..Len(m_column_names)
  PROVE  m_column_names[i] \in ColumnNames /\ m_column_names[i] \in Columns
  <1>1. m_column_names \in Seq(ColumnNames)
    BY DEF TableTypes
  <1> QED  BY <1>1 DEF Columns, ToSet

\* One more value.
LEMMA OneMore ==
  ASSUME TableTypes, NEW row \in Seq(Cell), NEW n \in Nat, n + 1 <= Len(m_column_names), n + 1 <= Len(row),
         NEW table \in TableType, Grown(n, table), WideEnough(row, n, table),
         Distinct => Columnwise(row, n, table)
  PROVE  LET next == Following(row, n + 1, table)
         IN  /\ next \in TableType /\ Grown(n + 1, next) /\ WideEnough(row, n + 1, next)
             /\ Distinct => Columnwise(row, n + 1, next)
  <1> DEFINE next == Following(row, n + 1, table)
             c == m_column_names[n + 1]
             cell == row[n + 1]
  <1>0. Len(m_column_names) \in Nat /\ Len(row) \in Nat
    BY DEF TableTypes
  <1>1. n + 1 \in 1..Len(m_column_names) /\ 1 \in 1..Len(m_column_names) /\ n + 1 \in 1..Len(row)
    BY <1>0
  <1>2. c \in ColumnNames /\ c \in Columns /\ cell \in Cell
    BY <1>1, ColumnIs
  <1>3. /\ next \in TableType
        /\ next.datas[c] = Append(table.datas[c], cell)
        /\ \A d \in ColumnNames \ {c} : next.datas[d] = table.datas[d]
        /\ cell.length <= next.widths[c]
        /\ \A d \in Columns : table.widths[d] <= next.widths[d]
    <2> HIDE DEF c, cell
    <2>1. next = Handled(table, c, cell)
      BY DEF Following, c, cell
    <2> HIDE DEF next
    <2> QED  BY <1>2, <2>1, HandledIs
  <1> HIDE DEF next
  <1>4. /\ \A d \in ColumnNames : table.datas[d] \in Seq(Cell) /\ next.datas[d] \in Seq(Cell)
        /\ \A d \in Columns : table.widths[d] \in Nat /\ next.widths[d] \in Nat
    BY <1>3 DEF TableType
  <1>5. /\ \A d \in ColumnNames : m_datas[d] \in Seq(Cell) /\ Len(m_datas[d]) \in Nat
        /\ \A d \in Columns : m_column_widths[d] \in Nat
    BY DEF TableTypes
  <1>6. Grown(n + 1, next)
    <2>1. ASSUME NEW d \in ColumnNames PROVE Len(next.datas[d]) <= Len(m_datas[d]) + (n + 1)
      <3>1. Len(table.datas[d]) <= Len(m_datas[d]) + n /\ Len(table.datas[d]) \in Nat
        BY <1>4 DEF Grown
      <3>2. Len(next.datas[d]) \in {Len(table.datas[d]), Len(table.datas[d]) + 1}
        <4>1. CASE d = c
          <5>1. table.datas[c] \in Seq(Cell)
            BY <1>2, <1>4
          <5>2. Len(Append(table.datas[c], cell)) = Len(table.datas[c]) + 1
            BY <1>2, <5>1
          <5> QED  BY <1>3, <4>1, <5>2
        <4>2. CASE d # c
          BY <1>3, <4>2
        <4> QED  BY <4>1, <4>2
      <3>3. \A k, l, m \in Nat : k <= l + n /\ m \in {k, k + 1} => m <= l + (n + 1)
        OBVIOUS
      <3>4. Len(next.datas[d]) \in Nat
        BY <1>4
      <3> QED  BY <1>5, <3>1, <3>2, <3>3, <3>4
    <2>2. next.datas[m_column_names[1]] # <<>>
      <3>1. CASE m_column_names[1] = c
        <4>1. Append(table.datas[c], cell) # <<>>
          BY <1>2, <1>4, NotEmpty
        <4> QED  BY <1>3, <3>1, <4>1
      <3>2. CASE m_column_names[1] # c
        <4>1. n >= 1
          <5>1. CASE n = 0
            BY <3>2, <5>1
          <5>2. CASE n # 0
            BY <5>2
          <5> QED  BY <5>1, <5>2
        <4>2. m_column_names[1] \in ColumnNames
          BY <1>1, ColumnIs
        <4> QED  BY <1>3, <3>2, <4>1, <4>2 DEF Grown
      <3> QED  BY <3>1, <3>2
    <2> QED  BY <2>1, <2>2 DEF Grown
  <1>7. WideEnough(row, n + 1, next)
    <2>0. \A k, l, m \in Nat : k <= l /\ l <= m => k <= m
      OBVIOUS
    <2>1. \A d \in Columns : m_column_widths[d] <= next.widths[d]
      BY <1>3, <1>4, <1>5, <2>0 DEF WideEnough
    <2>2. ASSUME NEW i \in 1..(n + 1) PROVE row[i].length <= next.widths[m_column_names[i]]
      <3>1. CASE i = n + 1
        BY <1>3, <3>1
      <3>2. CASE i # n + 1
        <4>1. i \in 1..n /\ i \in 1..Len(m_column_names) /\ i \in 1..Len(row)
          BY <1>0, <3>2
        <4>2. m_column_names[i] \in Columns /\ row[i] \in Cell
          BY <4>1, ColumnIs
        <4>3. row[i].length \in Nat
          BY <4>2 DEF Cell
        <4>4. row[i].length <= table.widths[m_column_names[i]]
          BY <4>1 DEF WideEnough
        <4> QED  BY <1>3, <1>4, <2>0, <4>2, <4>3, <4>4
      <3> QED  BY <3>1, <3>2
    <2> QED  BY <2>1, <2>2 DEF WideEnough
  <1>8. ASSUME Distinct PROVE Columnwise(row, n + 1, next)
    <2> SUFFICES ASSUME NEW i \in 1..Len(m_column_names)
                 PROVE  next.datas[m_column_names[i]] =
                           IF i <= n + 1 THEN Append(m_datas[m_column_names[i]], row[i])
                           ELSE m_datas[m_column_names[i]]
      BY DEF Columnwise
    <2>1. table.datas[m_column_names[i]] =
             IF i <= n THEN Append(m_datas[m_column_names[i]], row[i]) ELSE m_datas[m_column_names[i]]
      BY <1>8 DEF Columnwise
    <2>2. CASE i = n + 1
      <3>1. ~(i <= n) /\ i <= n + 1
        BY <2>2
      <3> QED  BY <1>3, <2>1, <2>2, <3>1
    <2>3. CASE i # n + 1
      <3>1. i <= n <=> i <= n + 1
        BY <1>0, <2>3
      <3>2. m_column_names[i] # c
        BY <1>1, <1>8, <2>3 DEF Distinct
      <3>3. m_column_names[i] \in ColumnNames
        BY ColumnIs
      <3>4. next.datas[m_column_names[i]] = table.datas[m_column_names[i]]
        BY <1>3, <3>2, <3>3
      <3> QED  BY <2>1, <3>1, <3>4
    <2> QED  BY <2>2, <2>3
  <1> QED  BY <1>3, <1>6, <1>7, <1>8 DEF next

\* What a row makes of the columns.
LEMMA RowIs ==
  ASSUME TableTypes, NEW row \in Seq(Cell), m_column_names # <<>>, Len(row) >= 1
  PROVE  LET n == Taken(Len(row))
             table == Unpacked(row)
         IN  /\ n \in Nat /\ n >= 1 /\ n <= Len(row) /\ n <= Len(m_column_names)
             /\ n = Len(row) \/ n = Len(m_column_names)
             /\ table \in TableType /\ Grown(n, table) /\ WideEnough(row, n, table)
             /\ Distinct => Columnwise(row, n, table)
  <1> DEFINE n == Taken(Len(row))
             Good == {p \in Nat \X TableType :
                        /\ Grown(p[1], p[2]) /\ WideEnough(row, p[1], p[2])
                        /\ Distinct => Columnwise(row, p[1], p[2])}
  <1>1. Len(row) \in Nat /\ Len(m_column_names) \in Nat /\ Len(m_column_names) # 0
    <2>1. m_column_names \in Seq(ColumnNames)
      BY DEF TableTypes
    <2> QED  BY <2>1
  <1>2. /\ n \in Nat /\ n >= 1 /\ n <= Len(row) /\ n <= Len(m_column_names)
        /\ n = Len(row) \/ n = Len(m_column_names)
    BY <1>1 DEF Taken
  <1> HIDE DEF n
  <1>3. <<0, Start>> \in Good
    <2>1. Start \in TableType
      BY DEF Start, TableTypes, TableType
    <2>2. Grown(0, Start)
      <3>1. \A c \in ColumnNames : Len(m_datas[c]) \in Nat
        BY DEF TableTypes
      <3> QED  BY <3>1 DEF Grown, Start
    <2>3. WideEnough(row, 0, Start)
      <3>1. \A c \in Columns : m_column_widths[c] \in Nat
        BY DEF TableTypes
      <3> QED  BY <3>1 DEF WideEnough, Start
    <2>4. Columnwise(row, 0, Start)
      BY DEF Columnwise, Start
    <2> QED  BY <2>1, <2>2, <2>3, <2>4
  <1>4. ASSUME NEW m \in 0..(n - 1), NEW table, <<m, table>> \in Good
        PROVE  <<m + 1, Following(row, m + 1, table)>> \in Good
    <2>1. m \in Nat /\ table \in TableType /\ Grown(m, table) /\ WideEnough(row, m, table)
      BY <1>4
    <2>2. Distinct => Columnwise(row, m, table)
      BY <1>4
    <2>3. m + 1 <= Len(m_column_names) /\ m + 1 <= Len(row) /\ m + 1 \in Nat
      BY <1>1, <1>2, <2>1
    <2> DEFINE next == Following(row, m + 1, table)
    <2>4. /\ next \in TableType /\ Grown(m + 1, next) /\ WideEnough(row, m + 1, next)
          /\ Distinct => Columnwise(row, m + 1, next)
      BY <2>1, <2>2, <2>3, OneMore
    <2> HIDE DEF next
    <2>5. <<m + 1, next>> \in Good
      BY <2>3, <2>4
    <2> QED  BY <2>5 DEF next
  <1> HIDE DEF Good
  <1>5. PICK t : Filling(row, n, t) /\ <<n, t[n]>> \in Good
    BY <1>2, <1>3, <1>4, FillingKeeps
  <1>6. Unpacked(row) = t[n]
    BY <1>2, <1>5, UnpackedIs DEF n
  <1>7. <<n, Unpacked(row)>> \in Good
    BY <1>5, <1>6
  <1>8. /\ Unpacked(row) \in TableType /\ Grown(n, Unpacked(row)) /\ WideEnough(row, n, Unpacked(row))
        /\ Distinct => Columnwise(row, n, Unpacked(row))
    BY <1>7 DEF Good
  <1> QED  BY <1>2, <1>8 DEF n

LEMMA TableBounds ==
  /\ MaxColumns \in Nat /\ MaxRows \in Nat /\ MaxCells \in Nat /\ NoMinimum \in Nat
  /\ \A l \in Lengths : l \in Nat
  /\ MaxColumns * MaxRows < NoMinimum
  BY TableAssumption

LEMMA RowsAre ==
  ASSUME TableTypes, NEW row \in Rows
  PROVE  row \in Seq(Cell) /\ Len(row) >= 1
  <1>1. PICK lengths \in BoundedSeq(Lengths, MaxCells) \ {<<>>} :
           row = [i \in DOMAIN lengths |-> [row |-> Len(rows) + 1, at |-> i, length |-> lengths[i]]]
    BY DEF Rows
  <1>2. PICK m \in 0..MaxCells : lengths \in [1..m -> Lengths]
    BY <1>1 DEF BoundedSeq, SeqOf
  <1>3. m \in Nat /\ Len(rows) + 1 \in Nat
    BY TableBounds DEF TableTypes
  <1>4. m # 0
    BY <1>1, <1>2
  <1>5. \A i \in 1..m : [row |-> Len(rows) + 1, at |-> i, length |-> lengths[i]] \in Cell
    <2>1. \A a, b, c \in Nat : [row |-> a, at |-> b, length |-> c] \in Cell
      BY DEF Cell
    <2>2. \A i \in 1..m : i \in Nat /\ lengths[i] \in Nat
      BY <1>2, TableBounds
    <2> QED  BY <1>3, <2>1, <2>2
  <1>6. row = [i \in 1..m |-> [row |-> Len(rows) + 1, at |-> i, length |-> lengths[i]]]
    BY <1>1, <1>2
  <1>7. row \in Seq(Cell) /\ Len(row) = m
    BY <1>3, <1>5, <1>6
  <1> QED  BY <1>3, <1>4, <1>7

-----------------------------------------------------------------------------
LEMMA TableInitially == TableInit => TableInv
  <1> SUFFICES ASSUME TableInit PROVE TableInv
    OBVIOUS
  <1>1. m_column_names = <<>> /\ rows = <<>> /\ broken = FALSE /\ late = FALSE /\ Columns = {}
    BY DEF TableInit, Columns, ToSet
  <1>2. m_datas = [c \in ColumnNames |-> <<>>] /\ m_column_widths = [c \in {} |-> 0]
    BY DEF TableInit
  <1>3. TableTypes
    <2>1. <<>> \in Seq(ColumnNames) /\ <<>> \in Seq(Seq(Cell)) /\ <<>> \in Seq(Cell)
      OBVIOUS
    <2>2. m_datas \in [ColumnNames -> Seq(Cell)]
      BY <1>2, <2>1
    <2>3. m_column_widths \in [Columns -> Nat]
      BY <1>1, <1>2
    <2> QED  BY <1>1, <2>1, <2>2, <2>3 DEF TableTypes
  <1>4. Len(m_column_names) = 0 /\ Len(rows) = 0
    BY <1>1
  <1>5. Distinct /\ InPlace
    BY <1>4 DEF Distinct, InPlace
  <1>6. \A c \in ColumnNames : Len(m_datas[c]) <= MaxColumns * Len(rows)
    <2>1. \A c \in ColumnNames : Len(m_datas[c]) = 0
      BY <1>2
    <2>2. MaxColumns * 0 = 0
      BY TableBounds
    <2> QED  BY <1>4, <2>1, <2>2
  <1>7. Len(m_column_names) <= MaxColumns /\ Len(rows) <= MaxRows
    BY <1>4, TableBounds
  <1> QED  BY <1>1, <1>2, <1>3, <1>5, <1>6, <1>7 DEF TableInv

LEMMA AppendIs ==
  ASSUME NEW S, NEW s \in Seq(S), NEW e \in S
  PROVE  /\ Append(s, e) \in Seq(S) /\ Len(s) \in Nat /\ Len(Append(s, e)) = Len(s) + 1
         /\ Append(s, e)[Len(s) + 1] = e
         /\ \A i \in 1..Len(s) : Append(s, e)[i] = s[i] /\ i \in 1..(Len(s) + 1)
         /\ \A i \in 1..(Len(s) + 1) : i = Len(s) + 1 \/ i \in 1..Len(s)
         /\ Append(s, e) # <<>>
  <1>1. Len(<<>>) = 0 /\ Len(Append(s, e)) = Len(s) + 1 /\ Len(s) \in Nat
    OBVIOUS
  <1>2. Append(s, e) # <<>>
    BY <1>1
  <1> QED  BY <1>2

LEMMA ColumnKeeps ==
  ASSUME TableInv, NEW name \in ColumnNames, add_column(name)
  PROVE  TableInv'
  <1>1. /\ ~broken /\ Len(m_column_names) < MaxColumns
        /\ m_column_names' = Append(m_column_names, name)
        /\ m_column_widths' = [c \in Columns \cup {name} |->
                                 IF c = name THEN NameLength[name] ELSE m_column_widths[c]]
        /\ late' = (late \/ rows # <<>> \/ name \in Columns)
        /\ m_datas' = m_datas /\ broken' = broken /\ rows' = rows
    BY DEF add_column
  <1>2. TableTypes
    BY DEF TableInv
  <1>3. m_column_names \in Seq(ColumnNames)
    BY <1>2 DEF TableTypes
  <1> DEFINE n == Len(m_column_names)
  <1>4. /\ n \in Nat /\ m_column_names' \in Seq(ColumnNames) /\ Len(m_column_names') = n + 1
        /\ m_column_names'[n + 1] = name
        /\ \A i \in 1..n : m_column_names'[i] = m_column_names[i] /\ i \in 1..(n + 1)
        /\ \A i \in 1..(n + 1) : i = n + 1 \/ i \in 1..n
    BY <1>1, <1>3, AppendIs
  <1>5. Columns' = Columns \cup {name}
    <2>1. Columns = {m_column_names[i] : i \in 1..n}
      BY <1>3 DEF Columns, ToSet
    <2>2. Columns' = {m_column_names'[i] : i \in 1..(n + 1)}
      BY <1>4 DEF Columns, ToSet
    <2>3. n + 1 \in 1..(n + 1)
      BY <1>4
    <2> HIDE DEF n
    <2> QED  BY <1>4, <2>1, <2>2, <2>3
  <1>6. m_column_widths' \in [Columns' -> Nat]
    <2>1. \A c \in Columns : m_column_widths[c] \in Nat
      BY <1>2 DEF TableTypes
    <2>2. NameLength[name] \in Nat
      BY TableAssumption
    <2> QED  BY <1>1, <1>5, <2>1, <2>2
  <1>7. late' \in BOOLEAN
    BY <1>1, <1>2 DEF TableTypes
  <1>8. TableTypes'
    BY <1>1, <1>2, <1>4, <1>6, <1>7 DEF TableTypes
  <1>9. Len(m_column_names') <= MaxColumns
    BY <1>1, <1>4, TableBounds
  <1>10. ASSUME ~late' PROVE Distinct' /\ InPlace'
    <2>1. ~late /\ rows = <<>> /\ name \notin Columns
      BY <1>1, <1>10
    <2>2. Distinct /\ \A c \in ColumnNames : m_datas[c] = <<>>
      BY <1>1, <2>1 DEF TableInv
    <2>3. \A i \in 1..n : m_column_names[i] \in Columns
      BY <1>2, ColumnIs
    <2>4. Distinct'
      <3> SUFFICES ASSUME NEW i \in 1..(n + 1), NEW j \in 1..(n + 1),
                          m_column_names'[i] = m_column_names'[j]
                   PROVE  i = j
        BY <1>4 DEF Distinct
      <3> HIDE DEF n
      <3>1. CASE i \in 1..n /\ j \in 1..n
        BY <1>4, <2>2, <3>1 DEF Distinct, n
      <3>2. CASE i = n + 1 /\ j = n + 1
        BY <3>2
      <3>3. CASE i = n + 1 /\ j \in 1..n
        BY <1>4, <2>1, <2>3, <3>3
      <3>4. CASE i \in 1..n /\ j = n + 1
        BY <1>4, <2>1, <2>3, <3>4
      <3> QED  BY <1>4, <3>1, <3>2, <3>3, <3>4
    <2>5. InPlace'
      <3>1. Len(rows') = 0
        BY <1>1, <2>1
      <3>2. \A i \in 1..Len(m_column_names') : Len(m_datas'[m_column_names'[i]]) = 0
        <4>1. \A c \in ColumnNames : Len(m_datas'[c]) = 0
          BY <1>1, <2>2
        <4>2. \A i \in 1..Len(m_column_names') : m_column_names'[i] \in ColumnNames
          BY <1>4
        <4> QED  BY <4>1, <4>2
      <3> QED  BY <3>1, <3>2 DEF InPlace
    <2> QED  BY <2>4, <2>5
  <1>11. ~broken' /\ rows' # <<>> => \E c \in Columns' : m_datas'[c] # <<>>
    BY <1>1, <1>5 DEF TableInv
  <1> QED  BY <1>1, <1>8, <1>9, <1>10, <1>11 DEF TableInv

LEMMA ProductsAre ==
  /\ \A k, m, r \in Nat : k <= m * r => k <= m * (r + 1)
  /\ \A k, l, m, n, r \in Nat : l <= k + n /\ n <= m /\ k <= m * r => l <= m * (r + 1)
  /\ \A k, m, r, q, w \in Nat : k <= m * r /\ r <= q /\ m * q < w => k < w
  <1>1. \A m, r \in Nat : m * r \in Nat /\ m * (r + 1) = m * r + m
    OBVIOUS
  <1>2. \A m, r, d \in Nat : m * (r + d) = m * r + m * d /\ m * d \in Nat
    OBVIOUS
  <1>3. \A m, r, q \in Nat : r <= q => m * r <= m * q
    <2> SUFFICES ASSUME NEW m \in Nat, NEW r \in Nat, NEW q \in Nat, r <= q PROVE m * r <= m * q
      OBVIOUS
    <2>1. q - r \in Nat /\ q = r + (q - r)
      OBVIOUS
    <2>2. m * q = m * r + m * (q - r) /\ m * (q - r) \in Nat
      BY <1>2, <2>1
    <2> QED  BY <1>1, <2>2
  <1>4. ASSUME NEW k \in Nat, NEW l \in Nat, NEW m \in Nat, NEW n \in Nat, NEW r \in Nat,
               l <= k + n, n <= m, k <= m * r
        PROVE  l <= m * (r + 1)
    BY <1>1, <1>4
  <1>5. ASSUME NEW k \in Nat, NEW m \in Nat, NEW r \in Nat, k <= m * r PROVE k <= m * (r + 1)
    BY <1>1, <1>5
  <1>6. ASSUME NEW k \in Nat, NEW m \in Nat, NEW r \in Nat, NEW q \in Nat, NEW w \in Nat,
               k <= m * r, r <= q, m * q < w
        PROVE  k < w
    <2>1. m * r \in Nat /\ m * q \in Nat /\ m * r <= m * q
      BY <1>1, <1>3, <1>6
    <2> QED  BY <1>6, <2>1
  <1> QED  BY <1>4, <1>5, <1>6

LEMMA CellLength == \A s \in Seq(Cell) : \A k \in 1..Len(s) : s[k].length \in Nat
  <1> SUFFICES ASSUME NEW s \in Seq(Cell), NEW k \in 1..Len(s) PROVE s[k].length \in Nat
    OBVIOUS
  <1>1. s[k] \in Cell
    OBVIOUS
  <1> QED  BY <1>1 DEF Cell

\* A row goes to the columns it has values for.
LEMMA PlacesKeep ==
  ASSUME TableTypes, Distinct, InPlace, NEW row \in Seq(Cell), NEW n \in Nat, NEW table \in TableType,
         n <= Len(row), n <= Len(m_column_names), n = Len(row) \/ n = Len(m_column_names),
         Columnwise(row, n, table), WideEnough(row, n, table),
         m_column_names' = m_column_names, m_datas' = table.datas, m_column_widths' = table.widths,
         rows' = Append(rows, row)
  PROVE  InPlace'
  <1> DEFINE R == Len(rows)
  <1>1. /\ R \in Nat /\ Len(rows') = R + 1 /\ rows'[R + 1] = row
        /\ \A k \in 1..R : rows'[k] = rows[k] /\ k \in 1..(R + 1)
        /\ \A k \in 1..(R + 1) : k = R + 1 \/ k \in 1..R
    BY AppendIs DEF TableTypes
  <1>2. \A k \in 1..R : Whole(k)' => Whole(k)
    <2> SUFFICES ASSUME NEW k \in 1..R, Whole(k)', NEW i \in 1..k
                 PROVE  Len(rows[i]) >= Len(m_column_names)
      BY DEF Whole
    <2>1. i \in 1..R
      BY <1>1
    <2>2. Len(rows'[i]) >= Len(m_column_names')
      BY DEF Whole
    <2> QED  BY <1>1, <2>1, <2>2
  <1>3. ASSUME NEW k \in Nat, k = R + 1, Whole(k)'
        PROVE  Len(row) >= Len(m_column_names) /\ (R >= 1 => R \in 1..R /\ Whole(R))
    <2>1. \A l \in 1..k : Len(rows'[l]) >= Len(m_column_names)
      BY <1>3 DEF Whole
    <2>2. k \in 1..k /\ \A l \in 1..R : l \in 1..k
      BY <1>1, <1>3
    <2>3. \A l \in 1..R : Len(rows[l]) >= Len(m_column_names)
      BY <1>1, <2>1, <2>2
    <2>4. Len(row) >= Len(m_column_names)
      BY <1>1, <1>3, <2>1, <2>2
    <2>5. Whole(R)
      BY <2>3 DEF Whole
    <2> QED  BY <1>1, <2>4, <2>5
  <1> SUFFICES ASSUME NEW i \in 1..Len(m_column_names)
               PROVE  LET column == m_datas'[m_column_names[i]]
                      IN  /\ Len(column) <= R + 1
                          /\ \A k \in 1..(R + 1) : Whole(k)' => k <= Len(column) /\ column[k] = rows'[k][i]
                          /\ \A k \in 1..Len(column) :
                                column[k].length <= m_column_widths'[m_column_names[i]]
    BY <1>1 DEF InPlace
  <1> DEFINE c == m_column_names[i]
             old == m_datas[c]
             column == table.datas[c]
  <1>4. c \in ColumnNames /\ c \in Columns
    BY ColumnIs
  <1>5. /\ old \in Seq(Cell) /\ Len(old) \in Nat /\ Len(old) <= R
        /\ \A k \in 1..R : Whole(k) => k <= Len(old) /\ old[k] = rows[k][i]
        /\ \A k \in 1..Len(old) : old[k].length <= m_column_widths[c]
    <2>1. old \in Seq(Cell)
      BY <1>4 DEF TableTypes
    <2>2. Len(old) \in Nat
      BY <2>1
    <2> QED  BY <2>1, <2>2 DEF InPlace
  <1>6. /\ m_column_widths[c] \in Nat /\ table.widths[c] \in Nat /\ m_column_widths[c] <= table.widths[c]
    BY <1>4 DEF TableTypes, TableType, WideEnough
  <1>7. column = IF i <= n THEN Append(old, row[i]) ELSE old
    BY DEF Columnwise
  <1>8. Len(row) \in Nat /\ Len(m_column_names) \in Nat /\ i \in Nat
    BY DEF TableTypes
  <1> HIDE DEF c, old, column, R
  <1>9. \A k \in 1..Len(old) : old[k].length <= table.widths[c]
    <2>1. \A k \in 1..Len(old) : old[k].length \in Nat
      BY <1>5, CellLength
    <2>2. \A k, l, m \in Nat : k <= l /\ l <= m => k <= m
      OBVIOUS
    <2> QED  BY <1>5, <1>6, <2>1, <2>2
  <1>10. CASE i <= n
    <2>1. row[i] \in Cell /\ i \in 1..n
      BY <1>8, <1>10
    <2>2. /\ column = Append(old, row[i]) /\ Len(column) = Len(old) + 1 /\ column[Len(old) + 1] = row[i]
          /\ \A k \in 1..Len(old) : column[k] = old[k]
          /\ \A k \in 1..(Len(old) + 1) : k = Len(old) + 1 \/ k \in 1..Len(old)
      BY <1>5, <1>7, <1>10, <2>1, AppendIs
    <2>3. row[i].length <= table.widths[c]
      BY <2>1 DEF WideEnough, c
    <2>4. \A k \in 1..Len(column) : column[k].length <= table.widths[c]
      BY <1>9, <2>2, <2>3
    <2>5. Len(column) <= R + 1
      BY <1>1, <1>5, <2>2
    <2>6. ASSUME NEW k \in 1..(R + 1), Whole(k)' PROVE k <= Len(column) /\ column[k] = rows'[k][i]
      <3>1. CASE k \in 1..R
        <4>1. k <= Len(old) /\ old[k] = rows[k][i] /\ k \in 1..Len(old)
          BY <1>2, <1>5, <2>6, <3>1
        <4> QED  BY <1>1, <1>5, <2>2, <3>1, <4>1
      <3>2. CASE k = R + 1
        <4>0. k \in Nat
          BY <1>1, <3>2
        <4>1. R >= 1 => R \in 1..R /\ Whole(R)
          BY <1>3, <2>6, <3>2, <4>0
        <4>2. R >= 1 => R <= Len(old)
          BY <1>5, <4>1
        <4>3. Len(old) = R
          BY <1>1, <1>5, <4>2
        <4> QED  BY <1>1, <2>2, <3>2, <4>3
      <3> QED  BY <1>1, <3>1, <3>2
    <2> QED  BY <2>4, <2>5, <2>6 DEF c, column
  <1>11. CASE ~(i <= n)
    <2>1. column = old /\ n = Len(row) /\ ~(Len(row) >= Len(m_column_names))
      BY <1>7, <1>8, <1>11
    <2>2. Len(column) <= R + 1
      BY <1>1, <1>5, <2>1
    <2>3. ASSUME NEW k \in 1..(R + 1), Whole(k)' PROVE k <= Len(column) /\ column[k] = rows'[k][i]
      <3>1. k # R + 1
        <4>1. k \in Nat
          BY <1>1
        <4> QED  BY <1>3, <2>1, <2>3, <4>1
      <3>2. k \in 1..R
        BY <1>1, <3>1
      <3> QED  BY <1>1, <1>2, <1>5, <2>1, <2>3, <3>2
    <2> QED  BY <1>9, <2>1, <2>2, <2>3 DEF c, column
  <1> QED  BY <1>10, <1>11

LEMMA RowKeeps ==
  ASSUME TableInv, NEW row \in Rows, add_row(row)
  PROVE  TableInv'
  <1>1. /\ ~broken /\ Len(rows) < MaxRows /\ rows' = Append(rows, row)
        /\ m_column_names' = m_column_names /\ late' = late
    BY DEF add_row
  <1>2. TableTypes
    BY DEF TableInv
  <1>3. row \in Seq(Cell) /\ Len(row) >= 1
    BY <1>2, RowsAre
  <1>4. /\ rows' \in Seq(Seq(Cell)) /\ Len(rows) \in Nat /\ Len(rows') = Len(rows) + 1 /\ rows' # <<>>
    BY <1>1, <1>2, <1>3, AppendIs DEF TableTypes
  <1>5. Columns' = Columns /\ Len(m_column_names') <= MaxColumns /\ Len(rows') <= MaxRows
    BY <1>1, <1>4, TableBounds DEF TableInv, Columns
  <1>6. \A c \in ColumnNames : Len(m_datas[c]) \in Nat /\ Len(m_datas[c]) <= MaxColumns * Len(rows)
    BY <1>2 DEF TableInv, TableTypes
  <1>7. CASE m_column_names = <<>>
    <2>1. broken' = TRUE /\ m_datas' = m_datas /\ m_column_widths' = m_column_widths
      BY <1>7 DEF add_row
    <2>2. TableTypes'
      BY <1>1, <1>2, <1>4, <1>5, <2>1 DEF TableTypes
    <2>3. \A c \in ColumnNames : Len(m_datas'[c]) <= MaxColumns * Len(rows')
      BY <1>4, <1>6, <2>1, TableBounds, ProductsAre
    <2> QED  BY <1>4, <1>5, <2>1, <2>2, <2>3 DEF TableInv
  <1>8. CASE m_column_names # <<>>
    <2> DEFINE n == Taken(Len(row))
               table == Unpacked(row)
    <2>1. /\ n \in Nat /\ n >= 1 /\ n <= Len(row) /\ n <= Len(m_column_names)
          /\ n = Len(row) \/ n = Len(m_column_names)
          /\ table \in TableType /\ Grown(n, table) /\ WideEnough(row, n, table)
          /\ Distinct => Columnwise(row, n, table)
      BY <1>2, <1>3, <1>8, RowIs
    <2>2. m_datas' = table.datas /\ m_column_widths' = table.widths /\ broken' = broken
      BY <1>8 DEF add_row
    <2> HIDE DEF n, table
    <2>3. m_datas' \in [ColumnNames -> Seq(Cell)] /\ m_column_widths' \in [Columns' -> Nat]
      BY <1>5, <2>1, <2>2 DEF TableType
    <2>4. TableTypes'
      BY <1>1, <1>2, <1>4, <2>2, <2>3 DEF TableTypes
    <2>5. \A c \in ColumnNames : Len(m_datas'[c]) <= MaxColumns * Len(rows')
      <3> TAKE c \in ColumnNames
      <3>1. Len(m_datas'[c]) <= Len(m_datas[c]) + n
        BY <2>1, <2>2 DEF Grown
      <3>2. Len(m_datas'[c]) \in Nat
        BY <2>3
      <3>3. n <= MaxColumns
        <4>1. Len(m_column_names) \in Nat /\ Len(m_column_names) <= MaxColumns
          BY <1>2 DEF TableInv, TableTypes
        <4> QED  BY <2>1, <4>1, TableBounds
      <3> QED  BY <1>4, <1>6, <2>1, <3>1, <3>2, <3>3, TableBounds, ProductsAre
    <2>6. \E c \in Columns' : m_datas'[c] # <<>>
      <3>1. 1 \in 1..Len(m_column_names)
        <4>1. Len(m_column_names) \in Nat
          BY <1>2 DEF TableTypes
        <4> QED  BY <2>1, <4>1
      <3>2. m_column_names[1] \in Columns
        BY <1>2, <3>1, ColumnIs
      <3>3. m_datas'[m_column_names[1]] # <<>>
        BY <2>1, <2>2 DEF Grown
      <3> QED  BY <1>5, <3>2, <3>3
    <2>7. ASSUME ~late' PROVE Distinct' /\ InPlace'
      <3>1. Distinct /\ InPlace
        BY <1>1, <2>7 DEF TableInv
      <3>2. InPlace'
        BY <1>1, <1>2, <1>3, <2>1, <2>2, <3>1, PlacesKeep
      <3>3. Distinct'
        BY <1>1, <3>1 DEF Distinct
      <3> QED  BY <3>2, <3>3
    <2> QED  BY <1>4, <1>5, <2>4, <2>5, <2>6, <2>7 DEF TableInv
  <1> QED  BY <1>7, <1>8

LEMMA TableStep == TableInv /\ [TableNext]_tableVars => TableInv'
  <1> SUFFICES ASSUME TableInv, [TableNext]_tableVars PROVE TableInv'
    OBVIOUS
  <1>1. CASE TableNext
    BY <1>1, ColumnKeeps, RowKeeps DEF TableNext
  <1>2. CASE UNCHANGED tableVars
    BY <1>2 DEF tableVars, TableInv, TableTypes, Distinct, InPlace, Whole, Columns
  <1> QED  BY <1>1, <1>2

LEMMA LeastIsMin ==
  ASSUME NEW S \in SUBSET Nat, S # {}
  PROVE  Min(S) \in S /\ \A y \in S : Min(S) <= y
  <1>1. \E x \in S : \A y \in S : x <= y
    BY LeastIs
  <1> QED  BY <1>1 DEF Min

LEMMA TableInvMeans == TableInv => RowsStayTogether
  <1> SUFFICES ASSUME TableInv, ~broken
               PROVE  /\ rows = <<>> <=> min_rows_count = NoMinimum
                      /\ ~late /\ rows # <<>> =>
                            /\ min_rows_count <= Len(rows)
                            /\ \A n \in DOMAIN rows : Whole(n) =>
                                  /\ n <= min_rows_count
                                  /\ \A i \in DOMAIN m_column_names :
                                        /\ Printed(n, m_column_names[i]) = rows[n][i]
                                        /\ ~Cut(rows[n][i], m_column_names[i])
    BY DEF RowsStayTogether
  <1> DEFINE counts == {Len(m_datas[c]) : c \in {d \in Columns : m_datas[d] # <<>>}}
  <1>1. TableTypes /\ Len(rows) \in Nat /\ Len(rows) <= MaxRows
    BY DEF TableInv, TableTypes
  <1>2. Columns = {m_column_names[i] : i \in 1..Len(m_column_names)} /\ Columns \subseteq ColumnNames
    BY <1>1 DEF TableTypes, Columns, ToSet
  <1>3. \A c \in Columns : Len(m_datas[c]) \in Nat /\ Len(m_datas[c]) <= MaxColumns * Len(rows)
    BY <1>1, <1>2 DEF TableInv, TableTypes
  <1>4. min_rows_count = IF counts = {} THEN NoMinimum ELSE Min(counts)
    BY DEF min_rows_count
  <1>5. CASE rows = <<>>
    <2>1. counts = {}
      BY <1>2, <1>5 DEF TableInv
    <2> QED  BY <1>4, <1>5, <2>1
  <1>6. CASE rows # <<>>
    <2>1. counts # {} /\ counts \in SUBSET Nat
      BY <1>3, <1>6 DEF TableInv
    <2>2. \A k \in counts : k < NoMinimum
      <3> TAKE k \in counts
      <3>1. k \in Nat /\ k <= MaxColumns * Len(rows)
        BY <1>3
      <3> HIDE DEF counts
      <3> QED  BY <1>1, <3>1, TableBounds, ProductsAre
    <2>3. min_rows_count \in counts /\ \A k \in counts : min_rows_count <= k
      <3> HIDE DEF counts
      <3> QED  BY <1>4, <2>1, LeastIsMin
    <2>4. min_rows_count # NoMinimum
      <3>1. \A k, l \in Nat : k < l => k # l
        OBVIOUS
      <3> HIDE DEF counts
      <3> QED  BY <2>1, <2>2, <2>3, <3>1, TableBounds
    <2>5. ASSUME ~late PROVE min_rows_count <= Len(rows)
      <3>1. \A k \in counts : k <= Len(rows)
        BY <1>2, <2>5 DEF TableInv, InPlace
      <3> HIDE DEF counts
      <3> QED  BY <2>3, <3>1
    <2>6. ASSUME ~late, NEW n \in DOMAIN rows, Whole(n)
          PROVE  /\ n <= min_rows_count
                 /\ \A i \in DOMAIN m_column_names :
                       /\ Printed(n, m_column_names[i]) = rows[n][i]
                       /\ ~Cut(rows[n][i], m_column_names[i])
      <3>1. n \in 1..Len(rows) /\ n \in Nat /\ n >= 1
        BY <1>1 DEF TableTypes
      <3>2. ASSUME NEW i \in 1..Len(m_column_names)
            PROVE  /\ n <= Len(m_datas[m_column_names[i]])
                   /\ m_datas[m_column_names[i]][n] = rows[n][i]
                   /\ rows[n][i].length <= m_column_widths[m_column_names[i]]
        <4> DEFINE column == m_datas[m_column_names[i]]
        <4>0. m_column_names[i] \in Columns
          BY <1>2
        <4>1. n <= Len(column) /\ column[n] = rows[n][i] /\ Len(column) \in Nat
          BY <1>3, <2>6, <3>1, <4>0 DEF TableInv, InPlace
        <4>2. n \in 1..Len(column)
          <5> HIDE DEF column
          <5> QED  BY <3>1, <4>1
        <4>3. column[n].length <= m_column_widths[m_column_names[i]]
          BY <2>6, <4>2 DEF TableInv, InPlace
        <4> QED  BY <4>1, <4>3
      <3>3. \A k \in counts : n <= k
        BY <1>2, <3>2
      <3>4. n <= min_rows_count
        <4> HIDE DEF counts
        <4> QED  BY <2>3, <3>3
      <3>5. ASSUME NEW i \in DOMAIN m_column_names
            PROVE  /\ Printed(n, m_column_names[i]) = rows[n][i]
                   /\ ~Cut(rows[n][i], m_column_names[i])
        <4>1. i \in 1..Len(m_column_names)
          BY <1>1 DEF TableTypes
        <4>2. m_column_names[i] \in ColumnNames /\ m_column_names[i] \in Columns
          BY <1>1, <4>1, ColumnIs
        <4>3. m_datas[m_column_names[i]] \in Seq(Cell) /\ m_column_widths[m_column_names[i]] \in Nat
          BY <1>1, <4>2 DEF TableTypes
        <4>4. n \in 1..Len(m_datas[m_column_names[i]])
          BY <3>1, <3>2, <4>1, <4>3
        <4>5. rows[n][i].length \in Nat
          <5>1. m_datas[m_column_names[i]][n].length \in Nat
            BY <4>3, <4>4, CellLength
          <5> QED  BY <3>2, <4>1, <5>1
        <4>6. \A k, l \in Nat : k <= l => ~(k > l + 1)
          OBVIOUS
        <4> QED  BY <3>2, <4>1, <4>3, <4>5, <4>6 DEF Printed, Cut
      <3> QED  BY <3>4, <3>5
    <2> QED  BY <1>6, <2>4, <2>5, <2>6
  <1> QED  BY <1>5, <1>6

\* With any columns, any rows of any number of values: what print shows of the rows in
\* front of the first with too few values is what was added, where it was added, uncut
\* (ConsoleTable.hpp 99-133, 151-194).
THEOREM TablesPrintTheirRows == TableSpec => []RowsStayTogether
  <1>1. TableSpec => []TableInv
    BY TableInitially, TableStep, PTL DEF TableSpec
  <1> QED  BY <1>1, TableInvMeans, PTL
-----------------------------------------------------------------------------
\* The three programs of Utilities do not meet: each behaviour is one of each of them
\* (DateTime.cpp 98-729, Path.cpp 203-374, ConsoleTable.hpp 99-194).
THEOREM UtilitiesAreApart == UtilitySpec => TimeSpec /\ Spec /\ TableSpec
  <1>1. UtilityInit => DateInit /\ Init /\ TableInit
    BY DEF UtilityInit
  <1>2. [UtilityNext]_utilityVars => [TimeNext]_timeVars /\ [Next]_vars /\ [TableNext]_tableVars
    BY DEF UtilityNext, utilityVars, timeVars, vars, tableVars
  <1> QED  BY <1>1, <1>2, PTL DEF UtilitySpec, TimeSpec, Spec, TableSpec

\* So what is proved of each holds under the specification that is model-checked
\* (DateTime.cpp 98-729, Path.cpp 203-374, ConsoleTable.hpp 99-194).
THEOREM UtilitiesHold ==
    UtilitySpec => /\ [](PartsDenoteTicks /\ ReadsItsStamp /\ OverflowsAtTheTop /\ RowsStayTogether)
                   /\ AddingNothing /\ CreationIsHonest /\ WalkFindsAll
  BY UtilitiesAreApart, SpansStaySound, DatesReadTheirStamps, AddingNothingIsSafe,
     OverflowsOnlyAtTheTop, CreatesHonestly, WalksFindAll, TablesPrintTheirRows, PTL
=============================================================================
