------------------------------- MODULE Monitor -------------------------------
(***************************************************************************)
(* The mutex and the condition variable of Thread/mutex.cpp and            *)
(* Thread/condition_variable.cpp: a recursive pthread mutex (or a critical *)
(* section) and the set of threads asleep on the condition variable.       *)
(*                                                                         *)
(* The specification lets every thread make every call the classes allow,  *)
(* in any order and nested to any depth the bound admits.  The system      *)
(* calls do not fail on initialised objects.                               *)
(***************************************************************************)
EXTENDS Integers

CONSTANTS Threads,   \* the threads that share the mutex
          None,      \* no thread
          MaxDepth   \* bound: how deeply lock() is nested

\* Assumed of the constants by the modules that give them values.
MonitorAssumption == None \notin Threads /\ MaxDepth \in Nat \ {0}

VARIABLES owner,     \* the thread that holds the mutex, or None
          depth,     \* how many times it holds it
          waiting,   \* "no", "asleep" in wait(), or "woken" and not yet back
          held       \* ghost: the depth at which the thread called wait()

vars == <<owner, depth, waiting, held>>

Asleep == {t \in Threads : waiting[t] = "asleep"}

Init == /\ owner = None
        /\ depth = 0
        /\ waiting = [t \in Threads |-> "no"]
        /\ held = [t \in Threads |-> 0]
-----------------------------------------------------------------------------
\* EnterCriticalSection: the owner enters again, the others when it is free.
Enter(t) == /\ owner \in {None, t}
            /\ owner' = t
            /\ depth' = depth + 1

\* Mutant: the mutex is given up whole, as if it were not recursive.
LeaveWhole(t) == /\ owner = t
                 /\ depth' = 0
                 /\ owner' = None

\* LeaveCriticalSection: one level.
Leave(t) == /\ owner = t
            /\ depth' = depth - 1
            /\ owner' = IF depth = 1 THEN None ELSE t

\* mutex::lock(), and the constructor of scoped_lock
lock(t) == /\ waiting[t] = "no"
           /\ owner = t => depth < MaxDepth
           /\ Enter(t)
           /\ UNCHANGED <<waiting, held>>

\* mutex::unlock(), and the destructor of scoped_lock
unlock(t) == /\ waiting[t] = "no"
             /\ Leave(t)
             /\ UNCHANGED <<waiting, held>>

\* condition_variable::wait: sleep, and give up one level of the mutex.
wait(t) == /\ waiting[t] = "no"
           /\ held' = [held EXCEPT ![t] = depth]
           /\ Leave(t)
           /\ waiting' = [waiting EXCEPT ![t] = "asleep"]

\* pthread_cond_wait and SleepConditionVariableCS may return unasked.
SpuriousWake(t) == /\ waiting[t] = "asleep"
                   /\ waiting' = [waiting EXCEPT ![t] = "woken"]
                   /\ UNCHANGED <<owner, depth, held>>

\* Mutant: wait() returns without the mutex when somebody else holds it.
ReturnFromWaitUnlocked(t) == /\ waiting[t] = "woken"
                             /\ IF owner \in {None, t} THEN Enter(t) ELSE UNCHANGED <<owner, depth>>
                             /\ waiting' = [waiting EXCEPT ![t] = "no"]
                             /\ UNCHANGED held

\* The woken thread gets its level back, and wait() returns.
ReturnFromWait(t) == /\ waiting[t] = "woken"
                     /\ Enter(t)
                     /\ waiting' = [waiting EXCEPT ![t] = "no"]
                     /\ UNCHANGED held

Woken(ts) == waiting' = [t \in Threads |-> IF t \in ts THEN "woken" ELSE waiting[t]]

\* notify_one(), by a thread that need not hold the mutex.
notify_one(t) == /\ waiting[t] = "no"
                 /\ IF Asleep = {} THEN UNCHANGED waiting ELSE \E s \in Asleep : Woken({s})
                 /\ UNCHANGED <<owner, depth, held>>

notify_all(t) == /\ waiting[t] = "no"
                 /\ Woken(Asleep)
                 /\ UNCHANGED <<owner, depth, held>>

Next == \E t \in Threads : \/ lock(t) \/ unlock(t)
                           \/ wait(t) \/ SpuriousWake(t) \/ ReturnFromWait(t)
                           \/ notify_one(t) \/ notify_all(t)

Spec == Init /\ [][Next]_vars
-----------------------------------------------------------------------------
TypeOK == /\ owner \in Threads \cup {None}
          /\ depth \in 0..MaxDepth
          /\ owner = None <=> depth = 0
          /\ waiting \in [Threads -> {"no", "asleep", "woken"}]
          /\ held \in [Threads -> 0..MaxDepth]

\* A wait() that returns leaves its caller with the hold it had when it called,
\* whatever the other threads did meanwhile (condition_variable.cpp 63-70 over
\* the recursive mutex of mutex.cpp 61).
WaitRestoresHold ==
    [][\A t \in Threads : waiting[t] = "woken" /\ waiting'[t] = "no"
                             => owner' = t /\ depth' = held[t]]_vars

\* A thread that waits with the mutex locked more than once keeps it while it
\* sleeps: until it is back, no other thread gets in, so it can only be woken by
\* a notify made without the lock (the recursive mutex of mutex.cpp 61 under
\* condition_variable.cpp 63-70).
NestedWaitKeepsMutex ==
    \A t \in Threads : waiting[t] # "no" /\ held[t] > 1
                          => owner = t /\ depth = held[t] - 1
=============================================================================
