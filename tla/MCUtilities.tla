----------------------------- MODULE MCUtilities -----------------------------
\* The programs over the utilities with small inputs.
EXTENDS Utilities, TLC

CONSTANTS d1, d2, s1, c1, c2

\* A calendar of two months, of one day and, in leap years, two; two seconds a day, in
\* a zone one second ahead of UTC; and units of time so short that an int overflows
\* just after one day.
DateObjects == {d1, d2}
SpanObjects == {s1}
Ticks == {-3, 6}
SpanParts == {[days |-> 0, hours |-> 2, minutes |-> 0, seconds |-> -1, milliseconds |-> 1]}
StampInputs == {0, 5}
FieldInputs == {[year |-> 0, month |-> 1, day |-> 2, clock |-> 1],
                [year |-> 1, month |-> 1, day |-> 1, clock |-> 0]}
Steps == {-1, 0, 1}
Delays == {-1, 2}
MonthStart(i) == IF i > 3 THEN i + 1 ELSE i
YearRange == 0 .. 1
MonthRange == 1 .. 3

\* Two callers, the drive "c:" and the home directory "c:/d".
C == <<"c", ":">>
D == <<"d">>
E == <<"e">>
F == <<"f", ".", "x">>

TwoCallers == {c1, c2}
OneDrive == {C}
HomeText == <<C, divider, D>>
PathTexts == {<<C, divider, D, divider, E>>, <<D, divider, divider, E>>, <<tilde>>, <<C>>, <<>>}
NewNames == {E}
Patterns == {<<"*">>, <<"*", ".", "*">>}
Trees == {[dirs |-> {<<C>>}, files |-> {}],
          [dirs |-> {<<C>>, <<C, D>>}, files |-> {<<C, D, F>>}],
          [dirs |-> {<<C>>}, files |-> {<<C, D>>}]}

\* Two names of columns, of one character and of two.
TwoNames == [A |-> 1, B |-> 2]

Symmetry == Permutations(DateObjects) \cup Permutations(TwoCallers)
=============================================================================
