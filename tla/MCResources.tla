----------------------------- MODULE MCResources -----------------------------
\* Resources, with fewer TLS indexes than objects and a third thread that competes for
\* the mutex.
EXTENDS Resources, TLC

CONSTANTS t1, t2, o1, o2, o3, i1, i2, b1, b2, b3, l1, l2, l3

SomeThreads == {t1, t2}
SomeObjects == {o1, o2, o3}
SomeIndexes == {i1, i2}
SomeBlocks == {b1, b2, b3}
SomeLockers == {l1, l2, l3}
Symmetry == Permutations(Threads) \cup Permutations(Objects) \cup Permutations(Indexes)
              \cup Permutations(Blocks)

\* Strings whose bytes, with the zero behind them, are fewer than those of a number,
\* as many, and more; a number with zero bytes and one without.
MCTexts == {<<>>, <<7>>, <<7, 7, 7>>, <<7, 7, 7, 7>>}
MCNumbers == {<<7, 0, 0, 0>>, <<7, 7, 7, 7>>}
=============================================================================
