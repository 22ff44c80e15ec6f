------------------------------- MODULE Pattern -------------------------------
(***************************************************************************)
(* How GetSubPaths turns its pattern into a regular expression             *)
(* (Path/Path.cpp): SplitString, ReplaceString, PatternToRegex, and what   *)
(* std::regex_match does with the outcome.  Texts are sequences of         *)
(* characters; positions count from 0, as in the code.                     *)
(***************************************************************************)
EXTENDS Integers, Sequences, SequencesExt

npos == -1     \* std::string::npos, which is also what 0 - 1 wraps to

\* src.find(sub, from)
Find(src, sub, from) ==
    LET hits == {pos \in from..(Len(src) - Len(sub)) :
                    SubSeq(src, pos + 1, pos + Len(sub)) = sub}
    IN IF hits = {} THEN npos ELSE CHOOSE pos \in hits : \A hit \in hits : pos <= hit

\* src.find_last_of(chars): the last of ANY of the characters
FindLastOf(src, chars) ==
    LET hits == {pos \in 0..(Len(src) - 1) : \E i \in DOMAIN chars : chars[i] = src[pos + 1]}
    IN IF hits = {} THEN npos ELSE CHOOSE pos \in hits : \A hit \in hits : pos >= hit

\* What the loop of SplitString pushes, from position current on.
Pieces(src, separator) ==
    LET from[current \in 0..Len(src)] ==
            LET end == Find(src, separator, current)
            IN IF end # npos
               THEN <<SubSeq(src, current + 1, end)>> \o from[end + Len(separator)]
               ELSE IF current < Len(src)
                    THEN <<SubSeq(src, current + 1, Len(src))>>
                    ELSE <<>>
    IN from[0]

\* A trailing separator is followed by an empty piece.
SplitString(src, separator) ==
    Pieces(src, separator)
        \o IF FindLastOf(src, separator) = Len(src) - Len(separator) THEN << <<>> >> ELSE <<>>

\* The pieces with "to" between them.
ReplaceString(src, from, to) ==
    LET split_res == SplitString(src, from)
    IN FlattenSeq([i \in DOMAIN split_res |-> (IF i = 1 THEN <<>> ELSE to) \o split_res[i]])

\* Mutant: the other order, in which the "." of "(.*)" is escaped as well.
StarsFirst(pattern) ==
    ReplaceString(ReplaceString(pattern, <<"*">>, <<"(", ".", "*", ")">>), <<".">>, <<"\\", ".">>)

PatternToRegex(pattern) ==
    ReplaceString(ReplaceString(pattern, <<".">>, <<"\\", ".">>), <<"*">>, <<"(", ".", "*", ")">>)

\* std::regex_match for the expressions above: escaped and plain characters,
\* the dot, and the star after any of these.  Groups do not matter to it.  Of each
\* place in the expression, the places of the input from which the rest fits.
IsPatternMatched(input, regex) ==
    LET fits(i, j) == regex[i] = "." \/ input[j] = regex[IF regex[i] = "\\" THEN i + 1 ELSE i]
        ends[i \in 1..(Len(regex) + 2)] ==
            IF i > Len(regex) THEN {Len(input) + 1}
            ELSE IF regex[i] \in {"(", ")"} THEN ends[i + 1]
            ELSE LET last == IF regex[i] = "\\" THEN i + 1 ELSE i
                 IN IF last < Len(regex) /\ regex[last + 1] = "*"
                    THEN {j \in 1..(Len(input) + 1) :
                             \E k \in ends[last + 2] : j <= k /\ \A m \in j..(k - 1) : fits(i, m)}
                    ELSE {j \in 1..Len(input) : fits(i, j) /\ j + 1 \in ends[last + 1]}
    IN 1 \in ends[1]

\* What a caller means by a pattern: a star stands for any characters, and
\* every other character for itself.  The name divides up among them.
Wildcard(pattern, name) ==
    \E at \in [1..(Len(pattern) + 1) -> 1..(Len(name) + 1)] :
        /\ at[1] = 1 /\ at[Len(pattern) + 1] = Len(name) + 1
        /\ \A i \in 1..Len(pattern) :
              IF pattern[i] = "*" THEN at[i] <= at[i + 1]
              ELSE at[i + 1] = at[i] + 1 /\ name[at[i]] = pattern[i]
=============================================================================
