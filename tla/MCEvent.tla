------------------------------- MODULE MCEvent -------------------------------
\* Event with a handful of threads, in both of its kinds and initial states.
EXTENDS Event, TLC

CONSTANTS t1, t2, t3

MCThreads == {t1, t2, t3}
=============================================================================
