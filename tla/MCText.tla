-------------------------------- MODULE MCText --------------------------------
\* The programs over text with short strings of few characters.
EXTENDS TextPrograms

\* Pieces of up to three bytes, whose length decides the padding, and two that take
\* more than one line; uuids that differ in the members of more than one byte.
MCPieces == (BoundedSeq({0, 107, 248}, 3) \ {<<>>})
              \cup {<<1, 2, 3, 250>>, <<1, 2, 3, 4, 5, 6, 7>>}
MCUuids == {[i \in 1..16 |-> IF i \in S THEN 255 - i ELSE i] : S \in SUBSET {1, 4, 5, 6, 7, 8, 9, 16}}
Codes == {44, 65, 98}
Blank == {[c \in 0..255 |-> 32]}
=============================================================================
