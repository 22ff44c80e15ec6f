------------------------------ MODULE TimeSpan ------------------------------
(***************************************************************************)
(* class TimeSpan of src/DateTime/DateTime.cpp: a count of milliseconds    *)
(* (m_ticks, a 64-bit time_t) kept together with its days, hours, minutes, *)
(* seconds and milliseconds, five ints.  The two halves are filled along   *)
(* two routes: from the ticks by division, or from the parts by a product  *)
(* that is computed in int.  The lengths of the units and the width of an  *)
(* int are parameters, so that an instance in which the product overflows  *)
(* is small.                                                               *)
(***************************************************************************)
EXTENDS Integers

CONSTANTS
    Spans,              \* the TimeSpan objects of the program
    GivenTicks,         \* the ticks TimeSpan(time_t) is called with
    GivenParts,         \* the parts the other constructors are called with
    MsPerSecond, SecondsPerMinute, MinutesPerHour, HoursPerDay,
    IntHalf,            \* an int is -IntHalf .. IntHalf - 1
    MaxTicks            \* bound: no operation leads beyond this many ticks

MsPerMinute == SecondsPerMinute * MsPerSecond
MsPerHour == MinutesPerHour * MsPerMinute
MsPerDay == HoursPerDay * MsPerHour

ASSUME UnitAssumption ==
    /\ {MsPerSecond, SecondsPerMinute, MinutesPerHour, HoursPerDay,
        IntHalf, MaxTicks} \subseteq Nat \ {0}
    /\ MsPerDay < IntHalf       \* g_MillisecondsPerDay is an int

ASSUME InputAssumption ==
    /\ GivenTicks \subseteq -MaxTicks .. MaxTicks
    /\ GivenParts \subseteq [days : Int, hours : Int, minutes : Int,
                             seconds : Int, milliseconds : Int]

VARIABLE spans

-----------------------------------------------------------------------------
\* Division and remainder of C, which round towards zero.
Quot(a, b) == IF a >= 0 THEN a \div b ELSE -((-a) \div b)
Rem(a, b) == IF a >= 0 THEN a % b ELSE -((-a) % b)

\* The int that is congruent to x: what a narrowing conversion stores.
AsInt(x) == ((x + IntHalf) % (2 * IntHalf)) - IntHalf

\* Parts whose hours still hold the days: a plausible slip.
PartsWholeHours(ticks) ==
    [days |-> AsInt(Quot(ticks, MsPerDay)), hours |-> Quot(ticks, MsPerHour),
     minutes |-> Quot(Rem(ticks, MsPerHour), MsPerMinute),
     seconds |-> Quot(Rem(ticks, MsPerMinute), MsPerSecond),
     milliseconds |-> Rem(ticks, MsPerSecond)]

\* The parts FromTicks computes.
PartsOf(ticks) ==
    LET day == Rem(ticks, MsPerDay)
        hour == Rem(day, MsPerHour)
        minute == Rem(hour, MsPerMinute)
    IN  [days |-> AsInt(Quot(ticks, MsPerDay)),
         hours |-> Quot(day, MsPerHour),
         minutes |-> Quot(hour, MsPerMinute),
         seconds |-> Quot(minute, MsPerSecond),
         milliseconds |-> Rem(minute, MsPerSecond)]

\* The sum of products that FromDateTime stores in m_ticks.
Total(p) ==
    p.days * MsPerDay + p.hours * MsPerHour + p.minutes * MsPerMinute
        + p.seconds * MsPerSecond + p.milliseconds

\* All its operands are ints: a sum that does not fit is undefined, and the
\* build stores it truncated to an int or, having widened early, whole.
Products(p) == {Total(p), AsInt(Total(p))}

OfTicks(ticks) == [ticks |-> ticks, parts |-> PartsOf(ticks)]

OfParts(p) == {[ticks |-> t, parts |-> p] : t \in Products(p)}

Within(ticks) == ticks \in -MaxTicks .. MaxTicks

Become(s, span) == Within(span.ticks) /\ spans' = [spans EXCEPT ![s] = span]

-----------------------------------------------------------------------------
SpanInit == spans \in [Spans -> {OfTicks(t) : t \in GivenTicks}]

FromTicks(s) == \E t \in GivenTicks : Become(s, OfTicks(t))

FromParts(s) == \E p \in GivenParts : \E span \in OfParts(p) : Become(s, span)

\* The copy constructor hands the parts of `that` to the constructor that
\* multiplies them out again; r = s is `s = TimeSpan(s)`.
CopySpan(s, r) == \E span \in OfParts(spans[r].parts) : Become(s, span)

\* operator= goes by the ticks.
AssignSpan(s, r) == s # r /\ Become(s, OfTicks(spans[r].ticks))

\* operator+ into a new object, or Add when s = a; likewise for minus.
Plus(s, a, b) == Become(s, OfTicks(spans[a].ticks + spans[b].ticks))
Minus(s, a, b) == Become(s, OfTicks(spans[a].ticks - spans[b].ticks))

Negate(s, a) == Become(s, OfTicks(-spans[a].ticks))

Duration(s, a) ==
    Become(s, OfTicks(IF spans[a].ticks < 0 THEN -spans[a].ticks
                                            ELSE spans[a].ticks))

SpanNext ==
    \E s \in Spans :
        \/ FromTicks(s)
        \/ FromParts(s)
        \/ \E r \in Spans : CopySpan(s, r) \/ AssignSpan(s, r)
        \/ \E a \in Spans : Negate(s, a) \/ Duration(s, a)
        \/ \E a, b \in Spans : Plus(s, a, b) \/ Minus(s, a, b)

SpanSpec == SpanInit /\ [][SpanNext]_spans

-----------------------------------------------------------------------------
PartsType == [days : Int, hours : Int, minutes : Int,
              seconds : Int, milliseconds : Int]

SpanTypeOK == spans \in [Spans -> [ticks : -MaxTicks .. MaxTicks,
                                   parts : PartsType]]

\* The parts and the ticks of a span (DateTime.cpp:131-217) always denote the
\* same time up to a multiple of the range of an int: whatever chain of
\* copies, assignments and sums produced it, the two routes never drift apart
\* by anything else than the overflow of the int product.
PartsDenoteTicks ==
    \A s \in Spans : (Total(spans[s].parts) - spans[s].ticks) % (2 * IntHalf) = 0
=============================================================================
