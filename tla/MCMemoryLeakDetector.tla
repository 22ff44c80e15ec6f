------------------------ MODULE MCMemoryLeakDetector ------------------------
(* MemoryLeakDetector with two threads, one of which also asks for a report. *)
EXTENDS MemoryLeakDetector, TLC
CONSTANTS t1, t2
TwoThreads == {t1, t2}
Symmetry == Permutations(Addresses)
=============================================================================
