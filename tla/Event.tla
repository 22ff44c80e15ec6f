-------------------------------- MODULE Event --------------------------------
(***************************************************************************)
(* The POSIX implementation of class event (Thread/event.cpp): a flag and  *)
(* a result code shared by any number of threads, guarded by a normal      *)
(* pthread mutex and a condition variable.                                 *)
(*                                                                         *)
(* One action is one step of one thread between two accesses another       *)
(* thread can observe.  m_code is written and read outside the mutex, so   *)
(* those accesses are steps of their own.  Every notify() passes a code of *)
(* its own, the number of notifies so far.  Locals and arguments are reset *)
(* when their call is through with them.                                   *)
(*                                                                         *)
(* pthread_mutex_lock/unlock and pthread_cond_* of an initialised normal   *)
(* mutex and condition variable do not fail here, so the branches that     *)
(* return errno or event::fail are left out.  The deadline of a timed wait *)
(* may pass at any moment of the wait.                                     *)
(***************************************************************************)
EXTENDS Integers

CONSTANTS Threads,       \* the threads that share the event
          MaxCalls,      \* bound: calls made in one behaviour
          None           \* no thread

ASSUME EventAssumption == MaxCalls \in Nat /\ None \notin Threads

VARIABLES manual_reset,  \* CORE->manual_reset
          state,         \* CORE->state
          m_code,        \* the member written by notify(), read by wait()
          holder,        \* the thread inside CORE->mutex, or None
          handle,        \* m_handle: "live" or "null" once destroyed
          pc,            \* where each thread stands
          timed,         \* the call in progress has a deadline
          rc,            \* the local rc of the timed wait
          ret,           \* what the last completed wait() of the thread returned
          calls,         \* calls made so far
          arg,           \* the code argument of the notify() in progress
          raised,        \* ghost: the notify() that raised state last
          got            \* ghost: the notify() whose flag the thread took

eventVars == <<state, m_code, holder, handle>>
threadVars == <<pc, timed, rc, ret, arg>>
ghostVars == <<raised, got>>
vars == <<manual_reset, state, m_code, holder, handle, pc, timed, rc, ret, arg, calls,
          raised, got>>

timeout == -2            \* event::timeout
Ok == 0                  \* what pthread_cond_timedwait returns: woken,
ETIMEDOUT == 110         \* or the deadline has passed

waitLocations == {"wait.lock", "wait.test", "wait.cond", "wait.wake", "wait.exit"}
Locations == waitLocations \cup
             {"idle", "wait.return", "notify.lock", "notify.set", "notify.unlock",
              "reset.lock", "reset.set"}

\* The locations at which the code is between pthread_mutex_lock and
\* pthread_mutex_unlock (pthread_cond_wait gives the mutex up: "wait.cond").
critical == {"wait.test", "wait.exit", "notify.set", "notify.unlock", "reset.set"}

Blocked == {t \in Threads : pc[t] = "wait.cond"}
InWait(t) == pc[t] \in waitLocations

\* bManualReset and bInitState are the arguments of the constructor.
Init == /\ manual_reset \in BOOLEAN
        /\ state \in BOOLEAN
        /\ m_code = 0
        /\ holder = None
        /\ handle = "live"
        /\ pc = [t \in Threads |-> "idle"]
        /\ timed = [t \in Threads |-> FALSE]
        /\ rc = [t \in Threads |-> Ok]
        /\ ret = [t \in Threads |-> timeout]
        /\ arg = [t \in Threads |-> 0]
        /\ calls = 0
        /\ raised = 0
        /\ got = [t \in Threads |-> 0]
-----------------------------------------------------------------------------
Goto(t, there) == pc' = [pc EXCEPT ![t] = there]

\* A thread makes a call of the API: the object must not have been destroyed.
Call(t) == /\ pc[t] = "idle"
           /\ handle = "live"
           /\ calls < MaxCalls
           /\ calls' = calls + 1

\* pthread_mutex_lock: blocks while another thread is inside.
Lock(t, from, to) == /\ pc[t] = from
                     /\ holder = None
                     /\ holder' = t
                     /\ Goto(t, to)
                     /\ UNCHANGED <<state, m_code, handle, timed, rc, ret, arg, calls, ghostVars>>
-----------------------------------------------------------------------------
Million == 1000 * 1000
Billion == 1000 * 1000 * 1000

\* The deadline of wait(milliseconds), from the time of day.  When it passes is left
\* to Expire: a clock is not part of the model.
Abstime(tv, milliseconds) ==
    LET sec == tv.tv_sec + milliseconds \div 1000
        nsec == tv.tv_usec * 1000 + (milliseconds % 1000) * Million
    IN  IF nsec >= Billion
        THEN [tv_sec |-> sec + 1, tv_nsec |-> nsec - Billion]
        ELSE [tv_sec |-> sec, tv_nsec |-> nsec]

\* wait() and wait(milliseconds)
WaitCall(t) == /\ Call(t)
               /\ \E deadline \in BOOLEAN : timed' = [timed EXCEPT ![t] = deadline]
               /\ rc' = [rc EXCEPT ![t] = Ok]
               /\ Goto(t, "wait.lock")
               /\ UNCHANGED <<eventVars, ret, arg, ghostVars>>

WaitLock(t) == Lock(t, "wait.lock", "wait.test")

\* while (!CORE->state): leave the loop, or sleep and give the mutex up.
WaitTest(t) == /\ pc[t] = "wait.test"
               /\ IF state
                  THEN Goto(t, "wait.exit") /\ UNCHANGED holder
                  ELSE Goto(t, "wait.cond") /\ holder' = None
               /\ UNCHANGED <<state, m_code, handle, timed, rc, ret, arg, calls, ghostVars>>

\* pthread_cond_wait may return without a signal.
SpuriousWake(t) == /\ pc[t] = "wait.cond"
                   /\ Goto(t, "wait.wake")
                   /\ UNCHANGED <<eventVars, timed, rc, ret, arg, calls, ghostVars>>

\* The deadline passes: pthread_cond_timedwait returns ETIMEDOUT.
Expire(t) == /\ pc[t] = "wait.cond"
             /\ timed[t]
             /\ rc' = [rc EXCEPT ![t] = ETIMEDOUT]
             /\ Goto(t, "wait.wake")
             /\ UNCHANGED <<eventVars, timed, ret, arg, calls, ghostVars>>

\* The sleeper gets the mutex back.  ETIMEDOUT breaks out of the loop without
\* another look at the flag.
WaitRelock(t) ==
    Lock(t, "wait.wake", IF rc[t] = ETIMEDOUT THEN "wait.exit" ELSE "wait.test")

\* Mutant: a wait that timed out takes the flag too.
TakeFlagAlways(t) == state /\ manual_reset

\* if (rc == 0 && !CORE->manual_reset) CORE->state = false;
TakeFlag(t) == state /\ (rc[t] = ETIMEDOUT \/ manual_reset)

\* What a wait whose deadline has passed returns.
TimeoutResult(t) == timeout

\* Take the flag, unlock, and return if the deadline has passed.
WaitExit(t) ==
    /\ pc[t] = "wait.exit"
    /\ holder' = None
    /\ state' = TakeFlag(t)
    /\ rc' = [rc EXCEPT ![t] = Ok]
    /\ timed' = [timed EXCEPT ![t] = FALSE]
    /\ IF rc[t] = ETIMEDOUT
       THEN /\ Goto(t, "idle")
            /\ ret' = [ret EXCEPT ![t] = TimeoutResult(t)]
            /\ UNCHANGED got
       ELSE /\ Goto(t, "wait.return")
            /\ got' = [got EXCEPT ![t] = raised]
            /\ UNCHANGED ret
    /\ UNCHANGED <<m_code, handle, arg, calls, raised>>

\* return m_code: read after the mutex was given up.
WaitReturn(t) == /\ pc[t] = "wait.return"
                 /\ ret' = [ret EXCEPT ![t] = m_code]
                 /\ Goto(t, "idle")
                 /\ UNCHANGED <<eventVars, timed, rc, arg, calls, ghostVars>>
-----------------------------------------------------------------------------
\* Mutant: a code is dropped when the flag is up already.
PublishIfDown(t) == m_code' = IF state THEN m_code ELSE arg'[t]

\* m_code = code
Publish(t) == m_code' = arg'[t]

\* notify(code): m_code is written before the mutex is taken.
NotifyCall(t) == /\ Call(t)
                 /\ arg' = [arg EXCEPT ![t] = m_code + 1]
                 /\ Publish(t)
                 /\ Goto(t, "notify.lock")
                 /\ UNCHANGED <<state, holder, handle, timed, rc, ret, ghostVars>>

NotifyLock(t) == Lock(t, "notify.lock", "notify.set")

\* The sets of sleepers pthread_cond_signal may wake.
WakeOne(sleepers) == IF sleepers = {} THEN {{}} ELSE {{s} : s \in sleepers}

\* Mutant: only one of the sleepers on a manual-reset event is woken.
WakesOne(sleepers) == WakeOne(sleepers)

\* if (CORE->manual_reset) pthread_cond_broadcast else pthread_cond_signal
Wakes(sleepers) == IF manual_reset THEN {sleepers} ELSE WakeOne(sleepers)

\* Raise the flag, then pthread_cond_broadcast (manual) or _signal (auto).
NotifySet(t) ==
    /\ pc[t] = "notify.set"
    /\ state' = TRUE
    /\ raised' = arg[t]
    /\ \E woken \in Wakes(Blocked) :
          pc' = [s \in Threads |-> IF s = t THEN "notify.unlock"
                                   ELSE IF s \in woken THEN "wait.wake" ELSE pc[s]]
    /\ UNCHANGED <<m_code, holder, handle, timed, rc, ret, arg, calls, got>>

NotifyUnlock(t) == /\ pc[t] = "notify.unlock"
                   /\ holder' = None
                   /\ arg' = [arg EXCEPT ![t] = 0]
                   /\ Goto(t, "idle")
                   /\ UNCHANGED <<state, m_code, handle, timed, rc, ret, calls, ghostVars>>
-----------------------------------------------------------------------------
\* reset()
ResetCall(t) == /\ Call(t)
                /\ Goto(t, "reset.lock")
                /\ UNCHANGED <<eventVars, timed, rc, ret, arg, ghostVars>>

ResetLock(t) == Lock(t, "reset.lock", "reset.set")

ResetSet(t) == /\ pc[t] = "reset.set"
               /\ state' = FALSE
               /\ holder' = None
               /\ Goto(t, "idle")
               /\ UNCHANGED <<m_code, handle, timed, rc, ret, arg, calls, ghostVars>>

\* destroy(), which the caller may only make when no other call is in progress:
\* m_handle becomes NULL and no operation may follow.
Destroy(t) == /\ handle = "live"
              /\ \A s \in Threads : pc[s] = "idle"
              /\ handle' = "null"
              /\ UNCHANGED <<state, m_code, holder, threadVars, calls, ghostVars>>
-----------------------------------------------------------------------------
\* The steps a thread takes once it has been scheduled inside a call.
Run(t) == /\ \/ WaitLock(t) \/ WaitTest(t) \/ WaitRelock(t) \/ WaitExit(t) \/ WaitReturn(t)
             \/ NotifyLock(t) \/ NotifySet(t) \/ NotifyUnlock(t)
             \/ ResetLock(t) \/ ResetSet(t)
          /\ UNCHANGED manual_reset

\* What the callers, the scheduler and the clock decide.
Environment(t) == /\ \/ WaitCall(t) \/ NotifyCall(t) \/ ResetCall(t) \/ Destroy(t)
                     \/ SpuriousWake(t) \/ Expire(t)
                  /\ UNCHANGED manual_reset

Next == \E t \in Threads : Environment(t) \/ Run(t)

\* Every thread that can take a step inside the library eventually takes one.
Fairness == \A t \in Threads : WF_vars(Run(t))

SafetySpec == Init /\ [][Next]_vars
Spec == SafetySpec /\ Fairness
-----------------------------------------------------------------------------
TypeOK == /\ manual_reset \in BOOLEAN
          /\ state \in BOOLEAN
          /\ calls \in 0..MaxCalls
          /\ m_code \in 0..calls
          /\ raised \in 0..calls
          /\ holder \in Threads \cup {None}
          /\ handle \in {"live", "null"}
          /\ pc \in [Threads -> Locations]
          /\ timed \in [Threads -> BOOLEAN]
          /\ rc \in [Threads -> {Ok, ETIMEDOUT}]
          /\ ret \in [Threads -> {timeout} \cup 0..calls]
          /\ arg \in [Threads -> 0..calls]
          /\ got \in [Threads -> 0..calls]

\* A thread is on its way to take the flag: it was woken (not by its deadline),
\* is about to test, or has seen the flag.
OnTheWay(t) == pc[t] \in {"wait.wake", "wait.test", "wait.exit"} /\ rc[t] = Ok

\* No wake-up is lost: the flag is never up while threads sleep on the
\* condition variable and nobody is on the way to take it (wait() 63-70,
\* notify() 166-180).
NoLostWakeup == state /\ Blocked # {} => \E t \in Threads : OnTheWay(t)

\* The code a wait() returns is never older than the notify() that released it,
\* although both accesses to m_code are outside the mutex (82 and 155).
FreshCode == \A t \in Threads :
                pc[t] = "idle" /\ ret[t] # timeout => got[t] <= ret[t]

\* The pthread event implements the event object it stands in for.
Slept(t) == pc[t] \in {"wait.cond", "wait.wake"} \/ rc[t] = ETIMEDOUT
Ended(t) == IF pc[t] # "wait.return" /\ ret[t] = timeout THEN "timedout" ELSE "released"
pendingBar == [t \in Threads |-> IF ~InWait(t) THEN Ended(t)
                                 ELSE IF ~timed[t] THEN "wait"
                                 ELSE IF Slept(t) THEN "asleep" ELSE "timed"]
Promise == INSTANCE AbstractEvent
               WITH manual <- manual_reset, signaled <- state, pending <- pendingBar

\* Every behaviour of the pthread code, its wake-ups, races and deadlines
\* included, is one of the abstract event's (event.cpp 52-207): one notify() of
\* an auto-reset event releases at most one wait(), a wait that returns timeout
\* has found the flag down and takes nothing, and no thread waits for ever
\* beside a raised flag.
ImplementsEvent == Promise!Spec
=============================================================================
