---------------------------- MODULE AbstractEvent ----------------------------
(***************************************************************************)
(* What an event object promises its users, whatever it is built from: a   *)
(* flag that notify() raises and reset() lowers, and calls of wait() that  *)
(* end in one of two ways.  A call is released by finding the flag up; on  *)
(* an auto-reset event it lowers the flag in the same instant, so one      *)
(* notify() releases at most one thread.  A call with a deadline may time  *)
(* out after it has found the flag down, and then takes nothing.  This is  *)
(* also the kernel object the WIN32 branch of event.cpp delegates to.      *)
(***************************************************************************)
CONSTANT Threads         \* the threads that share the event

VARIABLES manual,        \* the kind: TRUE if the flag stays up until reset()
          signaled,      \* the flag
          pending        \* thread |-> its call of wait(): how the last one ended
                         \* ("released", "timedout"), or the one in progress:
                         \* "wait" (no deadline), "timed", or "asleep", which is
                         \* timed and has found the flag down

vars == <<manual, signaled, pending>>

Idle == {"released", "timedout"}

Init == /\ manual \in BOOLEAN
        /\ signaled \in BOOLEAN
        /\ pending \in [Threads -> Idle]

Call(t, kind) == /\ pending[t] \in Idle
                 /\ pending' = [pending EXCEPT ![t] = kind]
                 /\ UNCHANGED <<manual, signaled>>

Release(t) == /\ pending[t] \notin Idle
              /\ signaled
              /\ signaled' = manual
              /\ pending' = [pending EXCEPT ![t] = "released"]
              /\ UNCHANGED manual

Sleep(t) == /\ pending[t] = "timed"
            /\ ~signaled
            /\ pending' = [pending EXCEPT ![t] = "asleep"]
            /\ UNCHANGED <<manual, signaled>>

Wake(t) == /\ pending[t] = "asleep"
           /\ pending' = [pending EXCEPT ![t] = "timed"]
           /\ UNCHANGED <<manual, signaled>>

Timeout(t) == /\ pending[t] = "asleep"
              /\ pending' = [pending EXCEPT ![t] = "timedout"]
              /\ UNCHANGED <<manual, signaled>>

Notify == signaled' = TRUE /\ UNCHANGED <<manual, pending>>

Reset == signaled' = FALSE /\ UNCHANGED <<manual, pending>>

Next == \/ \E t \in Threads : \/ \E kind \in {"wait", "timed"} : Call(t, kind)
                              \/ Release(t)
                              \/ Sleep(t)
                              \/ Wake(t)
                              \/ Timeout(t)
        \/ Notify
        \/ Reset

\* A thread that waits while the flag stays up is not left waiting.
Fairness == \A t \in Threads : WF_vars(Release(t))

SafetySpec == Init /\ [][Next]_vars
Spec == SafetySpec /\ Fairness
=============================================================================
