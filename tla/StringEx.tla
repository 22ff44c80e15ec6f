------------------------------- MODULE StringEx -------------------------------
(***************************************************************************)
(* basic_string_ex of StringEx/String.hpp: a string with remove, split,    *)
(* replace, tolower, toupper and foreach.                                  *)
(*                                                                         *)
(* A string is a sequence of character codes.  A member function is called *)
(* on any short string with any short arguments; every round of a loop is  *)
(* a step, for whether the loops end is one of the questions.  Positions   *)
(* are counted from zero, as in the code, and size_type wraps.             *)
(***************************************************************************)
EXTENDS Texts, SequencesExt

CONSTANTS Chars,      \* the characters, by their codes
          MaxText,    \* bound: length of the string
          MaxTarget,  \* bound: length of what is removed, replaced, split at
          MaxTo,      \* bound: length of what replaces it
          Callbacks,  \* what the functions given to foreach make of a character
          SizeRange   \* the number of values of size_type

ASSUME StringExAssumption ==
         /\ Chars \subseteq 0..255
         /\ {MaxText, MaxTarget, MaxTo, SizeRange} \subseteq Nat
         /\ SizeRange > 4 * (MaxText + 1) * (MaxTo + 1) + MaxTarget

VARIABLES text,      \* the string
          request,   \* the request: its function and arguments
          pc,        \* where it stands
          current,   \* split: from where on it searches
          pieces,    \* split: its output
          original   \* ghost: the string the function was called on

stringVars == <<text, request, pc, current, pieces, original>>

npos == SizeRange - 1
max_size == SizeRange \div 2 - 1

\* string::find: the first occurrence of t in s at or behind from.
find(s, t, from) ==
    LET found == {p \in from..(Len(s) - Len(t)) : SubSeq(s, p + 1, p + Len(t)) = t}
    IN  IF found = {} THEN npos ELSE CHOOSE p \in found : \A q \in found : p <= q

\* string::find_last_of: the last position of any character of t.
find_last_of(s, t) ==
    LET found == {p \in 0..(Len(s) - 1) : s[p + 1] \in ToSet(t)}
    IN  IF found = {} THEN npos ELSE CHOOSE p \in found : \A q \in found : p >= q

Erase(s, pos, len) == SubSeq(s, 1, pos) \o SubSeq(s, pos + len + 1, Len(s))

Calls == [op : {"remove", "split"}, target : BoundedSeq(Chars, MaxTarget), to : {<<>>}]
           \cup [op : {"replace"}, target : BoundedSeq(Chars, MaxTarget), to : BoundedSeq(Chars, MaxTo)]
NoCall == [op |-> "none", target |-> <<>>, to |-> <<>>]

StringInit == /\ text \in BoundedSeq(Chars, MaxText)
              /\ original = text
              /\ request = NoCall
              /\ pc = "idle"
              /\ current = 0
              /\ pieces = <<>>
-----------------------------------------------------------------------------
Call(c) == /\ pc = "idle"
           /\ request' = c
           /\ pc' = IF c.op = "remove" THEN "remove" ELSE "split"
           /\ UNCHANGED <<text, current, pieces, original>>

\* Mutant: the search goes on behind what was erased.
EraseOnce(pos) == /\ text' = Erase(text, pos, Len(request.target))
                  /\ pc' = IF find(text, request.target, pos + 1) = npos THEN "done" ELSE pc

\* Erase what was found; the search starts over from the front.
EraseFound(pos) == text' = Erase(text, pos, Len(request.target)) /\ UNCHANGED pc

\* A round of remove, for a character or for a string.
RemoveNext ==
    /\ pc = "remove"
    /\ LET pos == find(text, request.target, 0)
       IN  IF pos = npos THEN pc' = "done" /\ UNCHANGED text ELSE EraseFound(pos)
    /\ UNCHANGED <<request, current, pieces, original>>

\* Mutant: the search goes on at the separator that was found.
BehindNothing(end) == end

Behind(end) == end + Len(request.target)

\* The piece in front of the separator that was found, unless it is empty.
SplitFound ==
    /\ pc = "split"
    /\ LET end == find(text, request.target, current)
       IN  /\ end # npos
           /\ current' = Behind(end)
           /\ pieces' = IF end - current > 0
                        THEN Append(pieces, SubSeq(text, current + 1, end))
                        ELSE pieces
    /\ UNCHANGED <<text, request, pc, original>>

\* The empty piece behind a separator at the end: the last position of a character
\* of the separator is compared with a difference that wraps.
TrailingPiece ==
    IF find_last_of(text, request.target) = (Len(text) - Len(request.target)) % SizeRange
    THEN << <<>> >> ELSE <<>>

\* substr(current), unless the string is at its end.
LastPiece == IF current < Len(text) THEN <<SubSeq(text, current + 1, Len(text))>> ELSE <<>>

SplitEnd ==
    /\ pc = "split"
    /\ find(text, request.target, current) = npos
    /\ pieces' = pieces \o LastPiece \o TrailingPiece
    /\ pc' = IF request.op = "replace" THEN "join" ELSE "done"
    /\ UNCHANGED <<text, request, current, original>>

Joined(parts, to) ==
    LET me[i \in 0..Len(parts)] ==
          IF i = 0 THEN <<>>
          ELSE me[i - 1] \o (IF i = 1 THEN <<>> ELSE to) \o parts[i]
    IN  me[Len(parts)]

\* What replace reserves: size() - 1 wraps when there is no piece.
Lengths(parts) ==
    LET total[i \in 0..Len(parts)] == IF i = 0 THEN 0 ELSE total[i - 1] + Len(parts[i])
    IN  total[Len(parts)]
Reserved == (Lengths(pieces) + (Len(pieces) - 1) * Len(request.to) + 1) % SizeRange

\* replace clears the string, reserves (or throws length_error) and joins.
ReplaceJoin ==
    /\ pc = "join"
    /\ IF Reserved > max_size
       THEN text' = <<>> /\ pc' = "thrown"
       ELSE text' = Joined(pieces, request.to) /\ pc' = "done"
    /\ UNCHANGED <<request, current, pieces, original>>

Lower == [c \in 0..255 |-> IF c \in 65..90 THEN c + 32 ELSE c]
Upper == [c \in 0..255 |-> IF c \in 97..122 THEN c - 32 ELSE c]

\* tolower, toupper, and foreach with a function that takes a reference.
MapChars(f) ==
    /\ pc = "idle"
    /\ text' = [i \in DOMAIN text |-> f[text[i]]]
    /\ pc' = "done"
    /\ UNCHANGED <<request, current, pieces, original>>

Round == RemoveNext \/ SplitFound \/ SplitEnd \/ ReplaceJoin

StringNext == \/ \E c \in Calls : Call(c)
              \/ \E f \in {Lower, Upper} \cup Callbacks : MapChars(f)
              \/ Round

StringSafetySpec == StringInit /\ [][StringNext]_stringVars
StringSpec == StringSafetySpec /\ WF_stringVars(Round)
-----------------------------------------------------------------------------
\* The pieces of s around the occurrences of t from the left, empty ones included, as
\* seen from each position on.
PiecesFrom(s, t) ==
    LET from[i \in 0..Len(s)] ==
          LET p == find(s, t, i)
          IN  IF p = npos THEN <<SubSeq(s, i + 1, Len(s))>>
              ELSE <<SubSeq(s, i + 1, p)>> \o from[p + Len(t)]
    IN  from
PiecesAround(s, t) == PiecesFrom(s, t)[0]

IsEmpty(part) == part = <<>>
Answered(op) == pc = "done" /\ request.op = op
Outside(s, t) == Without(s, ToSet(t))

\* split returns the pieces that are not empty (101), and an empty one behind them
\* just when the string ends with the separator or is empty - if that is one
\* character. A longer separator at the end never leaves the empty piece (109).
SplitIsExact ==
    Answered("split") =>
        LET parts == PiecesAround(original, request.target)
            whole == Without(parts, {<<>>})
        IN  /\ pieces \in {whole, Append(whole, <<>>)}
            /\ IsEmpty(Last(parts)) =>
                  pieces = IF Len(request.target) = 1 THEN Append(whole, <<>>) ELSE whole
            /\ Len(request.target) = 1 /\ ~IsEmpty(Last(parts)) => pieces = whole

\* replace is right for a string with one character to replace, which neither begins
\* with it nor has it twice in a row. It throws only for a longer one that the string
\* consists of altogether, when it has no piece (126), and then the string is lost.
ReplaceIsExact ==
    LET parts == PiecesAround(original, request.target)
    IN  /\ /\ Answered("replace") /\ Len(request.target) = 1
           /\ \A i \in 1..(Len(parts) - 1) : ~IsEmpty(parts[i])
           => text = Joined(parts, request.to)
        /\ pc = "thrown" =>
              /\ Len(request.target) > 1 /\ Len(request.to) > 1
              /\ \A i \in 1..Len(parts) : IsEmpty(parts[i])

\* remove leaves no occurrence, also none that the erasing itself brought about
\* (41-50), and takes away only characters that the target has, altogether as many as
\* some number of whole occurrences.
RemoveIsExact ==
    Answered("remove") =>
        /\ find(text, request.target, 0) = npos
        /\ Outside(text, request.target) = Outside(original, request.target)
        /\ (Len(original) - Len(text)) % Len(request.target) = 0

\* What the functions that search return, once they return.
ResultsAreExact == SplitIsExact /\ ReplaceIsExact /\ RemoveIsExact

\* remove, split and replace come back, whatever the string, unless they are called
\* with an empty target: then they never do (43, 88).
CallsEnd == /\ pc \in {"remove", "split"} /\ request.target # <<>> ~> pc \in {"done", "thrown"}
            /\ [](pc \in {"remove", "split"} /\ request.target = <<>> => [](pc \notin {"done", "thrown"}))
=============================================================================
