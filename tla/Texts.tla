--------------------------------- MODULE Texts ---------------------------------
(***************************************************************************)
(* What StringEx and Base64 both need of sequences, by recursion over      *)
(* positions.                                                              *)
(***************************************************************************)
EXTENDS Integers, Sequences

\* s without the members of Dropped, as std::remove leaves it.
Without(s, Dropped) ==
    LET kept[i \in 0..Len(s)] ==
          IF i = 0 THEN <<>>
          ELSE IF s[i] \in Dropped THEN kept[i - 1] ELSE Append(kept[i - 1], s[i])
    IN  kept[Len(s)]
=============================================================================
