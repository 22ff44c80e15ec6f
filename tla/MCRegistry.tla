----------------------------- MODULE MCRegistry -----------------------------
\* Registry with two names: a path of each, and one of both with a trailing
\* separator.  Below a key of either name, paths repeat it.
EXTENDS Registry

CONSTANTS A, B, Empty

Two == {A, B}
GivenPaths == {<<A>>, <<B>>, <<A, B, Empty>>}
=============================================================================
