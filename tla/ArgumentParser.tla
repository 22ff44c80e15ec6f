---------------------------- MODULE ArgumentParser ----------------------------
(***************************************************************************)
(* ArgumentParser: the constructor, which enters the arguments of the      *)
(* program into a map one after the other, and what get returns of them.   *)
(* Arguments are sequences of character codes.                             *)
(***************************************************************************)
EXTENDS Integers, Sequences, SequencesExt

CONSTANTS ArgChars,  \* the characters arguments are made of
          MaxArg,    \* bound: length of an argument
          MaxArgs    \* bound: number of arguments

\* Assumed of the constants by the module that gives them values.
ArgumentAssumption == ArgChars \subseteq Nat /\ {MaxArg, MaxArgs} \subseteq Nat

VARIABLES argv,       \* the arguments behind the name of the program
          m_arguments,\* key |-> value
          index,      \* arguments that were read
          outcome     \* "parsing", "parsed", or "thrown" by substr

vars == <<argv, m_arguments, index, outcome>>

Dash == 45
Equals == 61
trueText == <<116, 114, 117, 101>>

Init == /\ argv \in BoundedSeq(BoundedSeq(ArgChars, MaxArg), MaxArgs)
        /\ m_arguments = [k \in {} |-> <<>>]
        /\ index = 0
        /\ outcome = "parsing"

Behind(str, n) == SubSeq(str, n + 1, Len(str))
EqualsIn(str) == {p \in 1..Len(str) : str[p] = Equals}

\* Mutant: a key that is in the map keeps its value.
Kept(k, v) == [j \in DOMAIN m_arguments \cup {k} |->
                 IF j \in DOMAIN m_arguments THEN m_arguments[j] ELSE v]

\* m_arguments[k] = v
Entered(k, v) == [j \in DOMAIN m_arguments \cup {k} |-> IF j = k THEN v ELSE m_arguments[j]]

\* The first character is dropped, whatever it is; of an argument that begins with
\* the equals sign the length of the key wraps, and the key is all the rest.
Parse ==
    /\ outcome = "parsing" /\ index < Len(argv)
    /\ LET str == argv[index + 1]
           pos == CHOOSE p \in EqualsIn(str) : \A q \in EqualsIn(str) : p <= q
       IN  \/ /\ EqualsIn(str) = {} /\ str # <<>>
              /\ m_arguments' = Entered(Behind(str, 1), trueText)
              /\ outcome' = outcome
           \/ /\ str = <<>>
              /\ outcome' = "thrown"
              /\ UNCHANGED m_arguments
           \/ /\ EqualsIn(str) # {}
              /\ m_arguments' = Entered(IF pos = 1 THEN Behind(str, 1) ELSE SubSeq(str, 2, pos - 1),
                                        Behind(str, pos))
              /\ outcome' = outcome
    /\ index' = index + 1
    /\ UNCHANGED argv

Finish == /\ outcome = "parsing" /\ index = Len(argv)
          /\ outcome' = "parsed"
          /\ UNCHANGED <<argv, m_arguments, index>>

Next == Parse \/ Finish
Spec == Init /\ [][Next]_vars

\* get<std::string>(key, default) and get<bool>(key, default)
GetString(key, default) == IF key \in DOMAIN m_arguments THEN m_arguments[key] ELSE default
GetBool(key, default) == IF key \in DOMAIN m_arguments THEN m_arguments[key] = trueText ELSE default
-----------------------------------------------------------------------------
\* The arguments that give the key a value: -key, or -key=value.
Giving(key) == {i \in DOMAIN argv : \/ argv[i] = <<Dash>> \o key
                                    \/ IsPrefix(<<Dash>> \o key \o <<Equals>>, argv[i])}

\* The value of the last of them.
LastValue(key) ==
    LET last == CHOOSE i \in Giving(key) : \A j \in Giving(key) : j <= i
    IN  IF argv[last] = <<Dash>> \o key THEN trueText ELSE Behind(argv[last], Len(key) + 2)

Keys == {k \in BoundedSeq(ArgChars, MaxArg) : EqualsIn(k) = {}}
WellFormed == \A i \in DOMAIN argv : Len(argv[i]) > 0 /\ argv[i][1] = Dash

\* Of arguments that begin with a dash get returns, for every key, the value of the
\* last one that gives it, equals signs in the value included, and the default if
\* there is none. Nothing but an empty argument makes the constructor throw (12-21).
LastArgumentCounts ==
    /\ outcome = "parsed" /\ WellFormed =>
          \A key \in Keys, default \in {<<>>, trueText} :
             /\ GetString(key, default) = IF Giving(key) = {} THEN default ELSE LastValue(key)
             /\ GetBool(key, FALSE) <=> Giving(key) # {} /\ LastValue(key) = trueText
    /\ outcome = "thrown" <=> \E i \in 1..index : argv[i] = <<>>
=============================================================================
