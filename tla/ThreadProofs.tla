----------------------------- MODULE ThreadProofs -----------------------------
(***************************************************************************)
(* Theorems about Event, for any number of threads and calls: type         *)
(* correctness, the mutex discipline, no lost wake-up, freshness of the    *)
(* code, and the step simulation of AbstractEvent.                         *)
(*                                                                         *)
(* And about ProducerConsumer, for any number of producers, consumers and  *)
(* items.  Neither that no notify is missed nor that items are printed     *)
(* once and in order is inductive: both take that a thread has the mutex   *)
(* just while it stands in a section of code under it, and that a consumer *)
(* has a batch only while it prints.                                       *)
(***************************************************************************)
EXTENDS Event, ProducerConsumer, FiniteSetTheorems, SequenceTheorems, TLAPS

\* The mutex is held exactly by the thread that stands in its critical section.
MutexInv == \A t \in Threads : pc[t] \in critical <=> holder = t

\* Only a thread whose deadline has passed carries ETIMEDOUT, and it does not
\* test the flag or sleep again.
DeadlineInv == \A t \in Threads :
                  rc[t] = ETIMEDOUT =>
                      timed[t] /\ pc[t] \notin {"wait.lock", "wait.test", "wait.cond"}

\* A thread that left the loop without a timeout still sees the flag up: nobody
\* else has been inside the mutex since.
FlagInv == \A t \in Threads : pc[t] = "wait.exit" /\ rc[t] = Ok => state

\* Threads sleep beside a raised flag only on an auto-reset event, and then one
\* of them has been woken for it.
WakeInv == state /\ Blocked # {} =>
              /\ ~manual_reset
              /\ \E t \in Threads : OnTheWay(t)

\* The codes written so far bound the code of the flag and of every release.
CodeInv == /\ raised <= m_code
           /\ \A t \in Threads : /\ arg[t] <= m_code
                                 /\ got[t] <= m_code
                                 /\ pc[t] # "wait.return" /\ ret[t] # timeout
                                       => got[t] <= ret[t]

LEMMA KindIsFixed == [Next]_vars => manual_reset' = manual_reset
  BY DEF Next, Environment, Run, vars

LEMMA ConstantFacts == None \notin Threads /\ MaxCalls \in Nat
  BY EventAssumption DEF EventAssumption

\* Every thread's step keeps the types of the variables (event.cpp 52-207).
THEOREM TypeCorrect == Spec => []TypeOK
<1> USE ConstantFacts DEF TypeOK, Locations, waitLocations, Ok, ETIMEDOUT, timeout
<1>1. Init => TypeOK
  BY DEF Init
<1>2. TypeOK /\ [Next]_vars => TypeOK'
  <2> SUFFICES ASSUME TypeOK, [Next]_vars
               PROVE  TypeOK'
    OBVIOUS
  <2> USE KindIsFixed DEF Call, Goto, Lock, eventVars, threadVars, ghostVars
  <2>1. ASSUME NEW t \in Threads, WaitCall(t)  PROVE TypeOK'
    BY <2>1 DEF WaitCall
  <2>2. ASSUME NEW t \in Threads, NotifyCall(t)  PROVE TypeOK'
    BY <2>2 DEF NotifyCall, Publish
  <2>3. ASSUME NEW t \in Threads, ResetCall(t)  PROVE TypeOK'
    BY <2>3 DEF ResetCall
  <2>4. ASSUME NEW t \in Threads, Destroy(t)  PROVE TypeOK'
    BY <2>4 DEF Destroy
  <2>5. ASSUME NEW t \in Threads, SpuriousWake(t)  PROVE TypeOK'
    BY <2>5 DEF SpuriousWake
  <2>6. ASSUME NEW t \in Threads, Expire(t)  PROVE TypeOK'
    BY <2>6 DEF Expire
  <2>7. ASSUME NEW t \in Threads, WaitLock(t)  PROVE TypeOK'
    BY <2>7 DEF WaitLock
  <2>8. ASSUME NEW t \in Threads, WaitTest(t)  PROVE TypeOK'
    BY <2>8 DEF WaitTest
  <2>9. ASSUME NEW t \in Threads, WaitRelock(t)  PROVE TypeOK'
    BY <2>9 DEF WaitRelock
  <2>10. ASSUME NEW t \in Threads, WaitExit(t)  PROVE TypeOK'
    BY <2>10 DEF WaitExit, TakeFlag, TimeoutResult
  <2>11. ASSUME NEW t \in Threads, WaitReturn(t)  PROVE TypeOK'
    BY <2>11 DEF WaitReturn
  <2>12. ASSUME NEW t \in Threads, NotifyLock(t)  PROVE TypeOK'
    BY <2>12 DEF NotifyLock
  <2>13. ASSUME NEW t \in Threads, NotifySet(t)  PROVE TypeOK'
    BY <2>13 DEF NotifySet
  <2>14. ASSUME NEW t \in Threads, NotifyUnlock(t)  PROVE TypeOK'
    BY <2>14 DEF NotifyUnlock
  <2>15. ASSUME NEW t \in Threads, ResetLock(t)  PROVE TypeOK'
    BY <2>15 DEF ResetLock
  <2>16. ASSUME NEW t \in Threads, ResetSet(t)  PROVE TypeOK'
    BY <2>16 DEF ResetSet
  <2>17. CASE UNCHANGED vars
    BY <2>17 DEF vars
  <2>18. QED
    BY <2>1, <2>2, <2>3, <2>4, <2>5, <2>6, <2>7, <2>8, <2>9, <2>10, <2>11,
       <2>12, <2>13, <2>14, <2>15, <2>16, <2>17 DEF Next, Environment, Run
<1>3. QED
  BY <1>1, <1>2, PTL DEF Spec, SafetySpec

(***************************************************************************)
(* The parts of the invariant.  Each lemma is about one step; the actions  *)
(* that touch nothing a part reads are taken together.                     *)
(***************************************************************************)
IInv == TypeOK /\ MutexInv /\ DeadlineInv /\ FlagInv /\ WakeInv /\ CodeInv

LEMMA InitIInv == Init => IInv
  BY ConstantFacts, SMTT(30)
  DEF Init, IInv, TypeOK, Locations, waitLocations, MutexInv, DeadlineInv, FlagInv, WakeInv,
      CodeInv, Blocked, critical, Ok, ETIMEDOUT, timeout

LEMMA StepMutex == TypeOK /\ TypeOK' /\ MutexInv /\ [Next]_vars => MutexInv'
<1> SUFFICES ASSUME TypeOK, MutexInv, [Next]_vars  PROVE MutexInv'
  OBVIOUS
<1> USE ConstantFacts DEF MutexInv, TypeOK, critical
<1>1. ASSUME NEW t \in Threads, WaitCall(t) \/ NotifyCall(t) \/ ResetCall(t) \/ Destroy(t)
      PROVE  MutexInv'
  BY <1>1 DEF WaitCall, NotifyCall, ResetCall, Destroy, Call, Goto, eventVars, threadVars
<1>2. ASSUME NEW t \in Threads, SpuriousWake(t) \/ Expire(t) \/ WaitReturn(t)
      PROVE  MutexInv'
  BY <1>2 DEF SpuriousWake, Expire, WaitReturn, Goto, eventVars
<1>3. ASSUME NEW t \in Threads, WaitLock(t) \/ WaitRelock(t) \/ NotifyLock(t) \/ ResetLock(t)
      PROVE  MutexInv'
  BY <1>3 DEF WaitLock, WaitRelock, NotifyLock, ResetLock, Lock, Goto
<1>4. ASSUME NEW t \in Threads, WaitTest(t)  PROVE MutexInv'
  BY <1>4 DEF WaitTest, Goto
<1>5. ASSUME NEW t \in Threads, WaitExit(t)  PROVE MutexInv'
  BY <1>5 DEF WaitExit, Goto
<1>6. ASSUME NEW t \in Threads, NotifySet(t)  PROVE MutexInv'
  <2>1. PICK woken \in Wakes(Blocked) :
           pc' = [s \in Threads |-> IF s = t THEN "notify.unlock"
                                    ELSE IF s \in woken THEN "wait.wake" ELSE pc[s]]
    BY <1>6 DEF NotifySet
  <2>2. \A s \in woken : pc[s] = "wait.cond"
    BY DEF Wakes, WakeOne, Blocked
  <2>3. QED
    BY <1>6, <2>1, <2>2 DEF NotifySet
<1>7. ASSUME NEW t \in Threads, NotifyUnlock(t) \/ ResetSet(t)  PROVE MutexInv'
  BY <1>7 DEF NotifyUnlock, ResetSet, Goto
<1>8. CASE UNCHANGED vars
  BY <1>8 DEF vars
<1>9. QED
  BY <1>1, <1>2, <1>3, <1>4, <1>5, <1>6, <1>7, <1>8 DEF Next, Environment, Run

LEMMA StepDeadline == TypeOK /\ DeadlineInv /\ [Next]_vars => DeadlineInv'
<1> SUFFICES ASSUME TypeOK, DeadlineInv, [Next]_vars  PROVE DeadlineInv'
  OBVIOUS
<1> USE DEF DeadlineInv, TypeOK, Goto, Ok, ETIMEDOUT
<1>1. ASSUME NEW t \in Threads, WaitCall(t) \/ NotifyCall(t) \/ ResetCall(t) \/ Destroy(t)
      PROVE  DeadlineInv'
  BY <1>1 DEF WaitCall, NotifyCall, ResetCall, Destroy, Call, eventVars, threadVars
<1>2. ASSUME NEW t \in Threads, SpuriousWake(t) \/ Expire(t) \/ WaitReturn(t)
      PROVE  DeadlineInv'
  BY <1>2 DEF SpuriousWake, Expire, WaitReturn, eventVars
<1>3. ASSUME NEW t \in Threads, WaitLock(t) \/ WaitRelock(t) \/ NotifyLock(t) \/ ResetLock(t)
      PROVE  DeadlineInv'
  BY <1>3 DEF WaitLock, WaitRelock, NotifyLock, ResetLock, Lock
<1>4. ASSUME NEW t \in Threads, WaitTest(t) \/ WaitExit(t)  PROVE DeadlineInv'
  BY <1>4 DEF WaitTest, WaitExit
<1>5. ASSUME NEW t \in Threads, NotifySet(t)  PROVE DeadlineInv'
  BY <1>5 DEF NotifySet
<1>6. ASSUME NEW t \in Threads, NotifyUnlock(t) \/ ResetSet(t)  PROVE DeadlineInv'
  BY <1>6 DEF NotifyUnlock, ResetSet
<1>7. CASE UNCHANGED vars
  BY <1>7 DEF vars
<1>8. QED
  BY <1>1, <1>2, <1>3, <1>4, <1>5, <1>6, <1>7 DEF Next, Environment, Run

LEMMA StepFlag == TypeOK /\ MutexInv /\ FlagInv /\ [Next]_vars => FlagInv'
<1> SUFFICES ASSUME TypeOK, MutexInv, FlagInv, [Next]_vars,
                    NEW s \in Threads, (pc[s] = "wait.exit")', (rc[s] = Ok)'
             PROVE  state'
  BY DEF FlagInv
<1> USE DEF TypeOK, Goto, Ok, ETIMEDOUT
<1>1. ASSUME NEW t \in Threads, WaitCall(t) \/ NotifyCall(t) \/ ResetCall(t) \/ Destroy(t)
      PROVE  state'
  <2>1. state' = state
    BY <1>1 DEF WaitCall, NotifyCall, ResetCall, Destroy, eventVars
  <2>2. pc[s] = "wait.exit" /\ rc[s] = Ok
    BY <1>1 DEF WaitCall, NotifyCall, ResetCall, Destroy, Call, threadVars
  <2>3. QED
    BY <2>1, <2>2 DEF FlagInv
<1>2. ASSUME NEW t \in Threads, SpuriousWake(t) \/ Expire(t) \/ WaitReturn(t)
      PROVE  state'
  <2>1. state' = state
    BY <1>2 DEF SpuriousWake, Expire, WaitReturn, eventVars
  <2>2. pc[s] = "wait.exit" /\ rc[s] = Ok
    BY <1>2 DEF SpuriousWake, Expire, WaitReturn
  <2>3. QED
    BY <2>1, <2>2 DEF FlagInv
<1>3. ASSUME NEW t \in Threads, WaitLock(t) \/ WaitRelock(t) \/ NotifyLock(t) \/ ResetLock(t)
      PROVE  state'
  <2>1. state' = state
    BY <1>3 DEF WaitLock, WaitRelock, NotifyLock, ResetLock, Lock
  <2>2. pc[s] = "wait.exit" /\ rc[s] = Ok
    BY <1>3 DEF WaitLock, WaitRelock, NotifyLock, ResetLock, Lock
  <2>3. QED
    BY <2>1, <2>2 DEF FlagInv
<1>4. ASSUME NEW t \in Threads, WaitTest(t)  PROVE state'
  BY <1>4 DEF WaitTest, FlagInv
<1>5. ASSUME NEW t \in Threads, WaitExit(t) \/ ResetSet(t) \/ NotifyUnlock(t)  PROVE state'
  <2>1. holder = t /\ pc'[t] # "wait.exit"
    BY <1>5 DEF WaitExit, ResetSet, NotifyUnlock, MutexInv, critical
  <2>2. s # t /\ pc[s] = "wait.exit"
    BY <1>5, <2>1 DEF WaitExit, ResetSet, NotifyUnlock
  <2>3. holder = s
    BY <2>2 DEF MutexInv, critical
  <2>4. QED
    BY <2>1, <2>2, <2>3
<1>6. ASSUME NEW t \in Threads, NotifySet(t)  PROVE state'
  BY <1>6 DEF NotifySet
<1>7. CASE UNCHANGED vars
  BY <1>7 DEF FlagInv, vars
<1>8. QED
  BY <1>1, <1>2, <1>3, <1>4, <1>5, <1>6, <1>7 DEF Next, Environment, Run

LEMMA StepWake == TypeOK /\ DeadlineInv /\ WakeInv /\ [Next]_vars => WakeInv'
<1> SUFFICES ASSUME TypeOK, DeadlineInv, WakeInv, [Next]_vars,
                    state', Blocked' # {}
             PROVE  ~manual_reset /\ \E t \in Threads : OnTheWay(t)'
  BY KindIsFixed DEF WakeInv
<1> DEFINE Quiet == /\ state' = state
                    /\ Blocked' \subseteq Blocked
                    /\ \A s \in Threads : OnTheWay(s) => OnTheWay(s)'
<1>0. ASSUME Quiet  PROVE ~manual_reset /\ \E s \in Threads : OnTheWay(s)'
  BY <1>0 DEF WakeInv
<1> USE ConstantFacts DEF TypeOK, Goto, Ok, ETIMEDOUT, OnTheWay, Blocked
<1>1. ASSUME NEW t \in Threads, WaitCall(t) \/ NotifyCall(t) \/ ResetCall(t) \/ Destroy(t)
      PROVE  Quiet
  <2>1. state' = state
    BY <1>1 DEF WaitCall, NotifyCall, ResetCall, Destroy, eventVars
  <2>a. \/ \E there \in {"wait.lock", "notify.lock", "reset.lock"} :
                pc' = [pc EXCEPT ![t] = there]
        \/ pc' = pc
    BY <1>1 DEF WaitCall, NotifyCall, ResetCall, Destroy, threadVars
  <2>0. \A s \in Threads : pc'[s] = pc[s] \/ (s = t /\ pc'[s] # "wait.cond")
    BY <2>a
  <2>2. Blocked' \subseteq Blocked
    BY <2>0
  <2>3. \A s \in Threads : OnTheWay(s) => OnTheWay(s)'
    BY <1>1, ZenonT(60) DEF WaitCall, NotifyCall, ResetCall, Destroy, Call, threadVars
  <2>4. QED
    BY <2>1, <2>2, <2>3
<1>2. ASSUME NEW t \in Threads, SpuriousWake(t) \/ Expire(t) \/ WaitReturn(t)
      PROVE  Quiet
  <2>1. state' = state
    BY <1>2 DEF SpuriousWake, Expire, WaitReturn, eventVars
  <2>2. Blocked' \subseteq Blocked
    BY <1>2 DEF SpuriousWake, Expire, WaitReturn
  <2>3. \A s \in Threads : OnTheWay(s) => OnTheWay(s)'
    BY <1>2 DEF SpuriousWake, Expire, WaitReturn
  <2>4. QED
    BY <2>1, <2>2, <2>3
<1>3. ASSUME NEW t \in Threads, WaitLock(t) \/ WaitRelock(t) \/ NotifyLock(t) \/ ResetLock(t)
      PROVE  Quiet
  <2>1. state' = state
    BY <1>3 DEF WaitLock, WaitRelock, NotifyLock, ResetLock, Lock
  <2>0. \E from, to \in Locations : /\ Lock(t, from, to)
                                    /\ to # "wait.cond"
                                    /\ from = "wait.wake" => to \in {"wait.test", "wait.exit"}
                                    /\ from \notin {"wait.test", "wait.exit"}
    BY <1>3 DEF WaitLock, WaitRelock, NotifyLock, ResetLock, Locations, waitLocations
  <2>2. Blocked' \subseteq Blocked
    BY <2>0 DEF Lock
  <2>3. \A s \in Threads : OnTheWay(s) => OnTheWay(s)'
    BY <2>0 DEF Lock
  <2>4. QED
    BY <2>1, <2>2, <2>3
<1>4. ASSUME NEW t \in Threads, WaitTest(t)
      PROVE  ~manual_reset /\ \E s \in Threads : OnTheWay(s)'
  BY <1>4 DEF WakeInv, WaitTest
<1>5. ASSUME NEW t \in Threads, WaitExit(t)
      PROVE  ~manual_reset /\ \E s \in Threads : OnTheWay(s)'
  BY <1>5 DEF WakeInv, WaitExit, TakeFlag
<1>6. ASSUME NEW t \in Threads, NotifySet(t)
      PROVE  ~manual_reset /\ \E s \in Threads : OnTheWay(s)'
  <2>1. PICK woken \in Wakes(Blocked) :
           pc' = [s \in Threads |-> IF s = t THEN "notify.unlock"
                                    ELSE IF s \in woken THEN "wait.wake" ELSE pc[s]]
    BY <1>6 DEF NotifySet
  <2>2. pc[t] = "notify.set" /\ UNCHANGED rc
    BY <1>6 DEF NotifySet
  <2>3. Blocked' = Blocked \ woken
    BY <2>1, <2>2
  <2>4. Blocked # {} /\ woken # Blocked
    BY <2>3
  <2>5. ~manual_reset /\ \E s \in Blocked : woken = {s}
    BY <2>4 DEF Wakes, WakeOne
  <2>6. PICK s \in Blocked : woken = {s}
    BY <2>5
  <2>7. OnTheWay(s)'
    BY <2>1, <2>2, <2>6 DEF DeadlineInv
  <2>8. QED
    BY <2>5, <2>6, <2>7
<1>7. ASSUME NEW t \in Threads, NotifyUnlock(t) \/ ResetSet(t)
      PROVE  Quiet
  BY <1>7, ZenonT(60) DEF NotifyUnlock, ResetSet
<1>8. CASE UNCHANGED vars
  BY <1>8 DEF WakeInv, vars
<1>9. QED
  BY <1>0, <1>1, <1>2, <1>3, <1>4, <1>5, <1>6, <1>7, <1>8 DEF Next, Environment, Run

LEMMA StepCode == TypeOK /\ CodeInv /\ [Next]_vars => CodeInv'
<1> SUFFICES ASSUME TypeOK, CodeInv, [Next]_vars  PROVE CodeInv'
  OBVIOUS
<1> USE ConstantFacts DEF CodeInv, TypeOK, Goto, ghostVars
<1>1. ASSUME NEW t \in Threads, NotifyCall(t)  PROVE CodeInv'
  BY <1>1 DEF NotifyCall, Publish, Call, timeout
<1>2. ASSUME NEW t \in Threads, WaitCall(t) \/ ResetCall(t) \/ Destroy(t)  PROVE CodeInv'
  BY <1>2 DEF WaitCall, ResetCall, Destroy, Call, eventVars, threadVars
<1>3. ASSUME NEW t \in Threads, SpuriousWake(t) \/ Expire(t)  PROVE CodeInv'
  BY <1>3 DEF SpuriousWake, Expire, eventVars
<1>4. ASSUME NEW t \in Threads, WaitReturn(t)  PROVE CodeInv'
  BY <1>4 DEF WaitReturn, eventVars
<1>5. ASSUME NEW t \in Threads, WaitLock(t) \/ WaitRelock(t) \/ NotifyLock(t) \/ ResetLock(t)
      PROVE  CodeInv'
  BY <1>5 DEF WaitLock, WaitRelock, NotifyLock, ResetLock, Lock
<1>6. ASSUME NEW t \in Threads, WaitTest(t)  PROVE CodeInv'
  BY <1>6 DEF WaitTest
<1>7. ASSUME NEW t \in Threads, WaitExit(t)  PROVE CodeInv'
  BY <1>7 DEF WaitExit, TimeoutResult
<1>8. ASSUME NEW t \in Threads, NotifySet(t)  PROVE CodeInv'
  <2>0. PICK woken \in Wakes(Blocked) :
           pc' = [s \in Threads |-> IF s = t THEN "notify.unlock"
                                    ELSE IF s \in woken THEN "wait.wake" ELSE pc[s]]
    BY <1>8 DEF NotifySet
  <2>a. \A s \in woken : pc[s] = "wait.cond"
    BY DEF Wakes, WakeOne, Blocked
  <2>1. \A s \in Threads \ {t} : pc[s] = "wait.return" => pc'[s] = "wait.return"
    BY <2>0, <2>a
  <2>2. pc[t] = "notify.set" /\ raised' = arg[t] /\ UNCHANGED <<m_code, arg, got, ret>>
    BY <1>8 DEF NotifySet
  <2>3. QED
    BY <2>1, <2>2
<1>9. ASSUME NEW t \in Threads, NotifyUnlock(t) \/ ResetSet(t)  PROVE CodeInv'
  BY <1>9 DEF NotifyUnlock, ResetSet
<1>10. CASE UNCHANGED vars
  BY <1>10 DEF vars
<1>11. QED
  BY <1>1, <1>2, <1>3, <1>4, <1>5, <1>6, <1>7, <1>8, <1>9, <1>10 DEF Next, Environment, Run

\* The inductive invariant of the event.
THEOREM InductiveInvariant == Spec => []IInv
<1>1. IInv /\ TypeOK' /\ [Next]_vars => IInv'
  BY StepMutex, StepDeadline, StepFlag, StepWake, StepCode DEF IInv
<1>2. QED
  BY InitIInv, TypeCorrect, <1>1, PTL DEF Spec, SafetySpec

\* Two threads are never inside the event's mutex together, and a flag raised
\* beside sleepers always has a taker (wait() 63-70, notify() 166-180).
THEOREM NoWakeupIsLost == Spec => [](MutexInv /\ NoLostWakeup)
<1>1. IInv => MutexInv /\ NoLostWakeup
  BY DEF IInv, WakeInv, NoLostWakeup
<1>2. QED
  BY InductiveInvariant, <1>1, PTL

\* A wait() never returns a code older than the notify() that released it, for
\* any number of notifiers racing on m_code (82, 155).
THEOREM CodesAreFresh == Spec => []FreshCode
<1>1. IInv => FreshCode
  BY DEF IInv, CodeInv, FreshCode
<1>2. QED
  BY InductiveInvariant, <1>1, PTL
-----------------------------------------------------------------------------
(***************************************************************************)
(* The safety part of the refinement: every step of the pthread code is a  *)
(* step of AbstractEvent, or changes neither its flag nor its calls.       *)
(***************************************************************************)
\* How the mapping changes when a step moves one thread, or none.
Same(s) == /\ pc'[s] = pc[s] /\ timed'[s] = timed[s]
           /\ rc'[s] = rc[s] /\ ret'[s] = ret[s]

LEMMA MapOne ==
    ASSUME NEW t \in Threads, NEW kind,
           \A s \in Threads \ {t} : Same(s),
           pendingBar'[t] = kind
    PROVE  pendingBar' = [pendingBar EXCEPT ![t] = kind]
<1>1. \A s \in Threads \ {t} : pendingBar'[s] = pendingBar[s]
  BY DEF pendingBar, InWait, Slept, Ended, Same
<1>2. /\ pendingBar = [s \in Threads |-> pendingBar[s]]
      /\ pendingBar' = [s \in Threads |-> pendingBar'[s]]
  BY DEF pendingBar
<1>3. QED
  BY <1>1, <1>2

LEMMA MapNone ==
    ASSUME timed' = timed, \A s \in Threads : InWait(s)' = InWait(s),
           \A s \in Threads : InWait(s) => Slept(s)' = Slept(s),
           \A s \in Threads : ~InWait(s) => Ended(s)' = Ended(s)
    PROVE  pendingBar' = pendingBar
  BY DEF pendingBar

LEMMA StepSimulation == IInv /\ TypeOK' /\ [Next]_vars => [Promise!Next]_Promise!vars
<1> SUFFICES ASSUME IInv, TypeOK', [Next]_vars
             PROVE  Promise!Next \/ UNCHANGED <<state, pendingBar>>
  BY KindIsFixed DEF Promise!vars
<1>0. manual_reset' = manual_reset
  BY KindIsFixed
<1> USE DEF TypeOK, Goto, InWait, waitLocations, Locations, Slept, Ok, ETIMEDOUT, Same
<1>1. ASSUME NEW t \in Threads, WaitCall(t)  PROVE Promise!Next
  <2>a. pc'[t] = "wait.lock" /\ timed'[t] \in BOOLEAN /\ rc'[t] = Ok
    BY <1>1 DEF WaitCall, Call, IInv
  <2>b. PICK kind \in {"wait", "timed"} : pendingBar'[t] = kind
    BY <2>a DEF pendingBar
  <2>c. \A s \in Threads \ {t} : Same(s)
    BY <1>1 DEF WaitCall, Call, IInv
  <2>1. pendingBar' = [pendingBar EXCEPT ![t] = kind]
    BY <2>b, <2>c, MapOne
  <2>2. pendingBar[t] \in Promise!Idle /\ state' = state
    BY <1>1 DEF WaitCall, Call, pendingBar, Ended, eventVars, Promise!Idle
  <2>3. QED
    BY <2>1, <2>2, <1>0 DEF Promise!Next, Promise!Call
<1>2. ASSUME NEW t \in Threads, WaitExit(t)  PROVE Promise!Next
  <2>a. \A s \in Threads \ {t} : Same(s)
    BY <1>2 DEF WaitExit, IInv
  <2>2. CASE rc[t] = ETIMEDOUT
    <3>1. pendingBar[t] = "asleep"
      BY <1>2, <2>2 DEF WaitExit, pendingBar, IInv, DeadlineInv
    <3>2. state' = state
      BY <1>2, <2>2 DEF WaitExit, TakeFlag, IInv
    <3>3. pendingBar'[t] = "timedout"
      BY <1>2, <2>2 DEF WaitExit, TimeoutResult, pendingBar, Ended, IInv
    <3>4. pendingBar' = [pendingBar EXCEPT ![t] = "timedout"]
      BY <2>a, <3>3, MapOne
    <3>5. QED
      BY <3>1, <3>2, <3>4, <1>0 DEF Promise!Next, Promise!Timeout
  <2>3. CASE rc[t] = Ok
    <3>1. pendingBar[t] \notin Promise!Idle
      BY <1>2 DEF WaitExit, pendingBar, Promise!Idle
    <3>2. state
      BY <1>2, <2>3 DEF WaitExit, IInv, FlagInv
    <3>a. manual_reset \in BOOLEAN
      BY DEF IInv
    <3>3. state' = manual_reset
      BY <1>2, <2>3, <3>2, <3>a DEF WaitExit, TakeFlag
    <3>4. pendingBar'[t] = "released"
      BY <1>2, <2>3 DEF WaitExit, pendingBar, Ended, IInv
    <3>5. pendingBar' = [pendingBar EXCEPT ![t] = "released"]
      BY <2>a, <3>4, MapOne
    <3>6. QED
      BY <3>1, <3>2, <3>3, <3>5, <1>0 DEF Promise!Next, Promise!Release
  <2>4. QED
    BY <2>2, <2>3 DEF IInv
<1>3. ASSUME NEW t \in Threads, NotifyCall(t) \/ ResetCall(t) \/ Destroy(t)
      PROVE  UNCHANGED <<state, pendingBar>>
  <2>1. state' = state
    BY <1>3 DEF NotifyCall, ResetCall, Destroy, eventVars
  <2>2. \A s \in Threads : InWait(s)' = InWait(s)
    BY <1>3 DEF NotifyCall, ResetCall, Destroy, Call, threadVars, IInv
  <2>3. timed' = timed /\ \A s \in Threads : InWait(s) => Slept(s)' = Slept(s)
    BY <1>3 DEF NotifyCall, ResetCall, Destroy, Call, threadVars, IInv
  <2>5. \A s \in Threads : ~InWait(s) => Ended(s)' = Ended(s)
    BY <1>3 DEF NotifyCall, ResetCall, Destroy, Call, threadVars, Ended, IInv
  <2>4. QED
    BY <2>1, <2>2, <2>3, <2>5, MapNone
<1>4. ASSUME NEW t \in Threads, SpuriousWake(t) \/ Expire(t) \/ WaitReturn(t)
      PROVE  UNCHANGED <<state, pendingBar>>
  <2>1. state' = state /\ timed' = timed
    BY <1>4 DEF SpuriousWake, Expire, WaitReturn, eventVars
  <2>2. \A s \in Threads : InWait(s)' = InWait(s)
    BY <1>4 DEF SpuriousWake, Expire, WaitReturn, IInv
  <2>3. \A s \in Threads : InWait(s) => Slept(s)' = Slept(s)
    BY <1>4 DEF SpuriousWake, Expire, WaitReturn, IInv
  <2>5. \A s \in Threads : ~InWait(s) => Ended(s)' = Ended(s)
    BY <1>4 DEF SpuriousWake, Expire, WaitReturn, Ended, timeout, IInv
  <2>4. QED
    BY <2>1, <2>2, <2>3, <2>5, MapNone
<1>5. ASSUME NEW t \in Threads, WaitLock(t) \/ NotifyLock(t) \/ ResetLock(t)
      PROVE  UNCHANGED <<state, pendingBar>>
  <2>1. state' = state /\ timed' = timed
    BY <1>5 DEF WaitLock, NotifyLock, ResetLock, Lock
  <2>2. \A s \in Threads : InWait(s)' = InWait(s)
    BY <1>5 DEF WaitLock, NotifyLock, ResetLock, Lock, IInv
  <2>3. \A s \in Threads : InWait(s) => Slept(s)' = Slept(s)
    BY <1>5 DEF WaitLock, NotifyLock, ResetLock, Lock, IInv
  <2>5. \A s \in Threads : ~InWait(s) => Ended(s)' = Ended(s)
    BY <1>5 DEF WaitLock, NotifyLock, ResetLock, Lock, Ended, IInv
  <2>4. QED
    BY <2>1, <2>2, <2>3, <2>5, MapNone
<1>11. ASSUME NEW t \in Threads, WaitTest(t)
       PROVE  Promise!Next \/ UNCHANGED <<state, pendingBar>>
  <2>1. rc[t] = Ok /\ state' = state
    BY <1>11 DEF WaitTest, IInv, DeadlineInv
  <2>2. CASE state \/ ~timed[t]
    BY <1>11, <2>1, <2>2 DEF WaitTest, pendingBar, Ended, IInv
  <2>3. CASE ~state /\ timed[t]
    <3>a. pendingBar'[t] = "asleep"
      BY <1>11, <2>1, <2>3 DEF WaitTest, pendingBar, IInv
    <3>b. \A s \in Threads \ {t} : Same(s)
      BY <1>11, <2>3 DEF WaitTest, IInv
    <3>1. pendingBar' = [pendingBar EXCEPT ![t] = "asleep"]
      BY <3>a, <3>b, MapOne
    <3>2. pendingBar[t] = "timed"
      BY <1>11, <2>1, <2>3 DEF WaitTest, pendingBar
    <3>3. QED
      BY <2>1, <2>3, <3>1, <3>2, <1>0 DEF Promise!Next, Promise!Sleep
  <2>4. QED
    BY <2>2, <2>3
<1>12. ASSUME NEW t \in Threads, WaitRelock(t)
       PROVE  Promise!Next \/ UNCHANGED <<state, pendingBar>>
  <2>1. state' = state /\ pc[t] = "wait.wake"
    BY <1>12 DEF WaitRelock, Lock
  <2>2. CASE rc[t] = ETIMEDOUT \/ ~timed[t]
    BY <1>12, <2>1, <2>2 DEF WaitRelock, Lock, pendingBar, Ended, IInv
  <2>3. CASE rc[t] # ETIMEDOUT /\ timed[t]
    <3>1. pendingBar' = [pendingBar EXCEPT ![t] = "timed"]
      BY <1>12, <2>1, <2>3, ZenonT(60) DEF WaitRelock, Lock, pendingBar, Ended, IInv
    <3>2. pendingBar[t] = "asleep"
      BY <2>1, <2>3 DEF pendingBar
    <3>3. QED
      BY <2>1, <3>1, <3>2, <1>0 DEF Promise!Next, Promise!Wake
  <2>4. QED
    BY <2>2, <2>3
<1>6. ASSUME NEW t \in Threads, NotifySet(t)  PROVE Promise!Next
  <2>1. PICK woken \in Wakes(Blocked) :
           pc' = [s \in Threads |-> IF s = t THEN "notify.unlock"
                                    ELSE IF s \in woken THEN "wait.wake" ELSE pc[s]]
    BY <1>6 DEF NotifySet
  <2>2. \A s \in woken : pc[s] = "wait.cond"
    BY DEF Wakes, WakeOne, Blocked
  <2>3. pc[t] = "notify.set" /\ timed' = timed /\ state' = TRUE
    BY <1>6 DEF NotifySet
  <2>4. \A s \in Threads : InWait(s)' = InWait(s)
    BY <2>1, <2>2, <2>3 DEF IInv
  <2>7. rc' = rc /\ \A s \in Threads : InWait(s) => Slept(s)' = Slept(s)
    BY <1>6, <2>1, <2>2, <2>3 DEF NotifySet, IInv
  <2>8. \A s \in Threads : ~InWait(s) => Ended(s)' = Ended(s)
    BY <1>6, <2>1, <2>2, <2>3 DEF NotifySet, Ended, IInv
  <2>5. UNCHANGED pendingBar
    BY <2>3, <2>4, <2>7, <2>8, MapNone
  <2>6. QED
    BY <2>3, <2>5, <1>0 DEF Promise!Next, Promise!Notify
<1>7. ASSUME NEW t \in Threads, NotifyUnlock(t)  PROVE UNCHANGED <<state, pendingBar>>
  BY <1>7 DEF NotifyUnlock, pendingBar, Ended, IInv
<1>8. ASSUME NEW t \in Threads, ResetSet(t)  PROVE Promise!Next
  <2>1. state' = FALSE /\ UNCHANGED pendingBar
    BY <1>8 DEF ResetSet, pendingBar, Ended, IInv
  <2>2. QED
    BY <2>1, <1>0 DEF Promise!Next, Promise!Reset
<1>9. CASE UNCHANGED vars
  BY <1>9 DEF vars, pendingBar, Ended
<1>10. QED
  BY <1>1, <1>2, <1>3, <1>4, <1>5, <1>6, <1>7, <1>8, <1>9, <1>11, <1>12 DEF Next, Environment, Run

\* The pthread event implements the safety part of the abstract event: one
\* notify() of an auto-reset event releases at most one wait(), a wait that
\* returns timeout has found the flag down and takes nothing, and reset()
\* revokes what was not taken (52-207).
THEOREM ImplementsAbstractEvent == Spec => Promise!SafetySpec
<1>1. Init => Promise!Init
  BY DEF Init, Promise!Init, Promise!Idle, pendingBar, Ended, InWait, waitLocations
<1>2. Spec => []TypeOK /\ []IInv
  BY TypeCorrect, InductiveInvariant, PTL
<1>3. QED
  BY <1>1, <1>2, StepSimulation, PTL DEF Spec, SafetySpec, Promise!SafetySpec

Microseconds == {n \in Nat : n < Million}
Nanoseconds == {n \in Nat : n < Billion}

\* The carry of a single second is enough, and the nanoseconds to carry from, less
\* than two thousand million, fit a 32-bit long, for every time of day and every
\* timeout: the deadline is a valid timespec and lies exactly the given time ahead
\* (event.cpp 108-116).
THEOREM DeadlineIsExact ==
    ASSUME NEW tv \in [tv_sec : Nat, tv_usec : Microseconds], NEW milliseconds \in Nat
    PROVE  /\ Abstime(tv, milliseconds) \in [tv_sec : Nat, tv_nsec : Nanoseconds]
           /\ tv.tv_usec * 1000 + (milliseconds % 1000) * Million < 2 * Billion
           /\ Abstime(tv, milliseconds).tv_sec * Billion + Abstime(tv, milliseconds).tv_nsec
                = tv.tv_sec * Billion + tv.tv_usec * 1000 + milliseconds * Million
<1> DEFINE sec == tv.tv_sec
           usec == tv.tv_usec
           q == milliseconds \div 1000
           r == milliseconds % 1000
<1>1. sec \in Nat /\ usec \in Nat /\ usec < Million
  BY DEF Microseconds
<1>2. q \in Nat /\ r \in Nat /\ r < 1000 /\ milliseconds = 1000 * q + r
  BY SMT
<1>3. Million \in Nat /\ Billion = 1000 * Million
  BY SMT DEF Million, Billion
<1> DEFINE nsec == usec * 1000 + r * Million
<1>4. Abstime(tv, milliseconds) =
        IF nsec >= Billion THEN [tv_sec |-> sec + q + 1, tv_nsec |-> nsec - Billion]
        ELSE [tv_sec |-> sec + q, tv_nsec |-> nsec]
  BY <1>1, <1>2, <1>3, SMT DEF Abstime
<1>5. nsec \in Nat /\ nsec < 2 * Billion
  BY <1>1, <1>2, SMT DEF Million, Billion
<1> HIDE DEF sec, usec, q, r
<1>6. sec * Billion + q * Billion + nsec = sec * Billion + usec * 1000 + milliseconds * Million
  <2>1. q * Billion + r * Million = milliseconds * Million
    BY <1>2, SMT DEF Million, Billion
  <2>2. /\ q * Billion \in Nat /\ r * Million \in Nat /\ sec * Billion \in Nat
        /\ usec * 1000 \in Nat
    BY <1>1, <1>2, SMT DEF Million, Billion
  <2>3. QED
    BY <2>1, <2>2, SMT
<1> HIDE DEF nsec
<1>7. /\ Abstime(tv, milliseconds) \in [tv_sec : Nat, tv_nsec : Nanoseconds]
      /\ Abstime(tv, milliseconds).tv_sec * Billion + Abstime(tv, milliseconds).tv_nsec
           = sec * Billion + q * Billion + nsec
  <2>1. CASE nsec >= Billion
    BY <1>1, <1>2, <1>4, <1>5, <2>1, SMT DEF Million, Billion, Nanoseconds
  <2>2. CASE ~(nsec >= Billion)
    BY <1>1, <1>2, <1>4, <1>5, <2>2, SMT DEF Million, Billion, Nanoseconds
  <2>3. QED
    BY <2>1, <2>2
<1>8. QED
  BY <1>5, <1>6, <1>7 DEF sec, usec, r, nsec
-----------------------------------------------------------------------------
\* Where a thread may stand, and what its place says of g_mutex and g_cond.
Places == /\ place \in [Workers -> {"sleep", "push", "notify_one", "notify_event",
                                    "lock", "predicate", "wait", "print"}]
          /\ \A p \in Producers : place[p] \in {"sleep", "push", "notify_one", "notify_event"}
          /\ \A c \in Consumers : place[c] \in {"lock", "predicate", "wait", "print"}
Mutex == /\ owner \in Workers \cup {Nobody}
         /\ depth = IF owner = Nobody THEN 0 ELSE 1
         /\ \A t \in Workers : owner = t <=> place[t] \in {"push", "predicate"}
Waiters == /\ waiting \in [Workers -> {"no", "asleep", "woken"}]
           /\ \A t \in Workers : waiting[t] # "no" <=> place[t] = "wait"
Control == Places /\ Mutex /\ Waiters

\* What a consumer has had so far, in the order it prints it.
Has(c) == printed[c] \o tmpQueue[c]

Queues == /\ pushed \in Nat
          /\ g_queue \in Seq(Nat)
          /\ tmpQueue \in [Consumers -> Seq(Nat)]
          /\ printed \in [Consumers -> Seq(Nat)]
          /\ \A c \in Consumers : tmpQueue[c] # <<>> => place[c] = "print"
Ordered == /\ Increasing(g_queue)
           /\ \A c \in Consumers : Increasing(Has(c))
           /\ \A c \in Consumers : \A x \in Items(Has(c)), y \in Items(g_queue) : x < y
Placed == /\ \A c, d \in Consumers : c # d => Items(Has(c)) \cap Items(Has(d)) = {}
          /\ \A x : x \in 1..pushed <=>
                       x \in Items(g_queue) \/ \E c \in Consumers : x \in Items(Has(c))

ProgramInv == Control /\ NoMissedNotify /\ Queues /\ Ordered /\ Placed
-----------------------------------------------------------------------------
\* The items of a sequence, however it is put together.
LEMMA ItemsOfEmpty == Items(<<>>) = {} /\ Increasing(<<>>)
  BY DEF Items, Increasing

LEMMA ItemsOfAppend ==
  ASSUME NEW s \in Seq(Nat), NEW e \in Nat
  PROVE  Items(Append(s, e)) = Items(s) \cup {e}
  <1>1. /\ Len(Append(s, e)) = Len(s) + 1 /\ Len(s) \in Nat
        /\ \A i \in 1..Len(s) : Append(s, e)[i] = s[i]
        /\ Append(s, e)[Len(s) + 1] = e
    BY AppendProperties, LenProperties
  <1>2. ASSUME NEW x PROVE x \in Items(Append(s, e)) <=> x \in Items(s) \cup {e}
    BY <1>1 DEF Items
  <1> QED  BY <1>2

LEMMA ItemsOfConcat ==
  ASSUME NEW s \in Seq(Nat), NEW t \in Seq(Nat)
  PROVE  Items(s \o t) = Items(s) \cup Items(t)
  <1>1. /\ Len(s) \in Nat /\ Len(t) \in Nat /\ Len(s \o t) = Len(s) + Len(t)
        /\ \A i \in 1..Len(s) + Len(t) : (s \o t)[i] = IF i <= Len(s) THEN s[i] ELSE t[i - Len(s)]
    BY ConcatProperties, LenProperties
  <1>2. ASSUME NEW x \in Items(s \o t) PROVE x \in Items(s) \cup Items(t)
    BY <1>1 DEF Items
  <1>3. ASSUME NEW x \in Items(s) PROVE x \in Items(s \o t)
    BY <1>1 DEF Items
  <1>4. ASSUME NEW x \in Items(t) PROVE x \in Items(s \o t)
    <2>1. PICK j \in 1..Len(t) : x = t[j]
      BY DEF Items
    <2>2. Len(s) + j \in 1..Len(s) + Len(t) /\ (s \o t)[Len(s) + j] = x
      BY <1>1, <2>1
    <2> QED  BY <1>1, <2>2 DEF Items
  <1> QED  BY <1>2, <1>3, <1>4

\* Items are numbers, and each is at some place.
LEMMA ItemsAreNumbers == ASSUME NEW s \in Seq(Nat) PROVE Items(s) \subseteq Nat
  BY ElementOfSeq DEF Items

\* What is newer goes to the end.
LEMMA IncreasingConcat ==
  ASSUME NEW s \in Seq(Nat), NEW t \in Seq(Nat), Increasing(s), Increasing(t),
         \A x \in Items(s), y \in Items(t) : x < y
  PROVE  Increasing(s \o t)
  <1>1. /\ Len(s) \in Nat /\ Len(t) \in Nat /\ Len(s \o t) = Len(s) + Len(t)
        /\ \A i \in 1..Len(s) + Len(t) : (s \o t)[i] = IF i <= Len(s) THEN s[i] ELSE t[i - Len(s)]
    BY ConcatProperties, LenProperties
  <1> SUFFICES ASSUME NEW i \in 1..Len(s) + Len(t), NEW j \in 1..Len(s) + Len(t), i < j
               PROVE  (s \o t)[i] < (s \o t)[j]
    BY <1>1 DEF Increasing
  <1>2. CASE j <= Len(s)
    BY <1>1, <1>2 DEF Increasing
  <1>3. CASE i > Len(s)
    <2>1. i - Len(s) \in 1..Len(t) /\ j - Len(s) \in 1..Len(t) /\ i - Len(s) < j - Len(s)
      BY <1>1, <1>3
    <2>2. t[i - Len(s)] < t[j - Len(s)]
      BY <2>1 DEF Increasing
    <2> QED  BY <1>1, <1>3, <2>2
  <1>4. CASE i <= Len(s) /\ j > Len(s)
    <2>1. i \in 1..Len(s) /\ j - Len(s) \in 1..Len(t)
      BY <1>1, <1>4
    <2>2. s[i] \in Items(s) /\ t[j - Len(s)] \in Items(t)
      BY <2>1 DEF Items
    <2> QED  BY <1>1, <1>4, <2>2
  <1> QED  BY <1>1, <1>2, <1>3, <1>4

LEMMA IncreasingAppend ==
  ASSUME NEW s \in Seq(Nat), NEW e \in Nat, Increasing(s), \A x \in Items(s) : x < e
  PROVE  Increasing(Append(s, e))
  <1>1. /\ Len(Append(s, e)) = Len(s) + 1 /\ Len(s) \in Nat
        /\ \A i \in 1..Len(s) : Append(s, e)[i] = s[i]
        /\ Append(s, e)[Len(s) + 1] = e
    BY AppendProperties, LenProperties
  <1> SUFFICES ASSUME NEW i \in 1..Len(s) + 1, NEW j \in 1..Len(s) + 1, i < j
               PROVE  Append(s, e)[i] < Append(s, e)[j]
    BY <1>1 DEF Increasing
  <1>2. i \in 1..Len(s) /\ s[i] \in Items(s)
    BY <1>1 DEF Items
  <1>3. CASE j \in 1..Len(s)
    BY <1>1, <1>2, <1>3 DEF Increasing
  <1>4. CASE j = Len(s) + 1
    BY <1>1, <1>2, <1>4
  <1> QED  BY <1>1, <1>3, <1>4

\* Printing moves an item within what the consumer has.
LEMMA PrintKeepsOrder ==
  ASSUME NEW s \in Seq(Nat), NEW t \in Seq(Nat), t # <<>>
  PROVE  /\ Append(s, Head(t)) \in Seq(Nat) /\ Tail(t) \in Seq(Nat)
         /\ Append(s, Head(t)) \o Tail(t) = s \o t
  <1> DEFINE u == Append(s, Head(t))
  <1>1. /\ Head(t) \in Nat /\ Tail(t) \in Seq(Nat) /\ Len(Tail(t)) = Len(t) - 1
        /\ Head(t) = t[1] /\ \A i \in 1..Len(Tail(t)) : Tail(t)[i] = t[i + 1]
    BY HeadTailProperties
  <1>2. /\ u \in Seq(Nat) /\ Len(u) = Len(s) + 1
        /\ \A i \in 1..Len(s) : u[i] = s[i]
        /\ u[Len(s) + 1] = Head(t)
    BY <1>1, AppendProperties
  <1>3. Len(s) \in Nat /\ Len(t) \in Nat /\ Len(t) >= 1
    BY LenProperties, EmptySeq
  <1> HIDE DEF u
  <1>4. /\ s \o t \in Seq(Nat) /\ Len(s \o t) = Len(s) + Len(t)
        /\ \A i \in 1..Len(s) + Len(t) : (s \o t)[i] = IF i <= Len(s) THEN s[i] ELSE t[i - Len(s)]
    BY ConcatProperties
  <1>5. /\ u \o Tail(t) \in Seq(Nat) /\ Len(u \o Tail(t)) = Len(u) + Len(Tail(t))
        /\ \A i \in 1..Len(u) + Len(Tail(t)) :
              (u \o Tail(t))[i] = IF i <= Len(u) THEN u[i] ELSE Tail(t)[i - Len(u)]
    BY <1>1, <1>2, ConcatProperties
  <1>6. Len(u \o Tail(t)) = Len(s \o t)
    BY <1>1, <1>2, <1>3, <1>4, <1>5
  <1>7. ASSUME NEW i \in 1..Len(u \o Tail(t)) PROVE (u \o Tail(t))[i] = (s \o t)[i]
    <2>1. i \in 1..Len(s) + Len(t) /\ i \in 1..Len(u) + Len(Tail(t))
      BY <1>4, <1>5, <1>6
    <2>2. CASE i <= Len(s)
      BY <1>2, <1>3, <1>4, <1>5, <2>1, <2>2
    <2>3. CASE i = Len(s) + 1
      BY <1>1, <1>2, <1>3, <1>4, <1>5, <2>1, <2>3
    <2>4. CASE i > Len(s) + 1
      <3>1. i - Len(u) \in 1..Len(Tail(t)) /\ i - Len(u) + 1 = i - Len(s)
        BY <1>1, <1>2, <1>3, <2>1, <2>4
      <3> QED  BY <1>1, <1>2, <1>3, <1>4, <1>5, <2>1, <2>4, <3>1, SMTT(60)
    <2> QED  BY <1>3, <2>1, <2>2, <2>3, <2>4, SMTT(60)
  <1> QED  BY <1>1, <1>2, <1>4, <1>5, <1>6, <1>7, SeqEqual DEF u

\* Items in increasing order are as many as the sequence is long.
LEMMA IncreasingCounts ==
  ASSUME NEW s \in Seq(Nat), Increasing(s)
  PROVE  Cardinality(Items(s)) = Len(s)
  <1>1. Len(s) \in Nat /\ s \in [1..Len(s) -> Nat]
    BY LenProperties
  <1>2. ASSUME NEW i \in 1..Len(s), NEW j \in 1..Len(s), s[i] = s[j] PROVE i = j
    BY <1>1, <1>2 DEF Increasing
  <1> DEFINE f == [i \in 1..Len(s) |-> s[i]]
  <1>3. f \in Bijection(1..Len(s), Items(s))
    BY <1>2 DEF Items, Bijection, Injection, Surjection, IsInjective
  <1> QED  BY <1>1, <1>3, FS_CountingElements DEF ExistsBijection
-----------------------------------------------------------------------------
\* The names of the threads are kept apart by the assumption on the constants.
LEMMA Apart == /\ Workers = Producers \cup Consumers /\ Producers \cap Consumers = {}
               /\ Nobody \notin Workers /\ Consumers # {} /\ MaxItems \in Nat
  BY ProducerConsumerAssumption DEF Workers

LEMMA ProgramInitially == ProgramInit => ProgramInv
  <1> SUFFICES ASSUME ProgramInit PROVE ProgramInv
    OBVIOUS
  <1> USE Apart DEF ProgramInit
  <1>1. Control
    BY DEF Control, Places, Mutex, Waiters, M!Init
  <1>2. NoMissedNotify /\ Queues
    BY EmptySeq DEF NoMissedNotify, Queues
  <1>3. \A c \in Consumers : Has(c) = <<>>
    BY ConcatEmptySeq, EmptySeq DEF Has
  <1>4. Ordered /\ Placed
    BY <1>3, ItemsOfEmpty DEF Ordered, Placed
  <1> QED  BY <1>1, <1>2, <1>4 DEF ProgramInv
-----------------------------------------------------------------------------
\* Taking and giving up the mutex goes with entering and leaving its sections.
LEMMA LockKeeps ==
  ASSUME Control, NEW t \in Workers, M!lock(t),
         \/ t \in Producers /\ Proceed(t, "sleep", "push")
         \/ t \in Consumers /\ Proceed(t, "lock", "predicate")
  PROVE  Control' /\ owner' = t
  <1> USE Apart DEF M!lock, M!Enter, Proceed, Control, Places, Mutex, Waiters
  <1>1. owner # t
    OBVIOUS
  <1>2. owner = Nobody /\ owner' = t /\ depth' = 1 /\ UNCHANGED waiting
    BY <1>1
  <1>3. Places'
    OBVIOUS
  <1>4. Mutex' /\ Waiters'
    BY <1>2
  <1> QED  BY <1>2, <1>3, <1>4

LEMMA UnlockKeeps ==
  ASSUME Control, NEW t \in Workers, M!unlock(t),
         \/ t \in Producers /\ Proceed(t, "push", "notify_one")
         \/ t \in Consumers /\ Proceed(t, "predicate", "print")
  PROVE  Control'
  <1> USE Apart DEF M!unlock, M!Leave, Proceed, Control, Places, Mutex, Waiters
  <1>1. owner = t /\ owner' = Nobody /\ depth' = 0 /\ UNCHANGED waiting
    OBVIOUS
  <1>2. Places'
    OBVIOUS
  <1>3. Mutex' /\ Waiters'
    BY <1>1
  <1> QED  BY <1>2, <1>3

LEMMA WaitKeeps ==
  ASSUME Control, NEW c \in Consumers, ConsumerWait(c)
  PROVE  Control'
  <1> USE Apart DEF ConsumerWait, M!wait, M!Leave, Proceed, Control, Places, Mutex, Waiters
  <1>1. owner = c /\ owner' = Nobody /\ depth' = 0
    OBVIOUS
  <1>2. Places'
    OBVIOUS
  <1>3. Mutex' /\ Waiters'
    BY <1>1
  <1> QED  BY <1>2, <1>3

LEMMA AwakeKeeps ==
  ASSUME Control, NEW c \in Consumers, ConsumerAwake(c)
  PROVE  Control'
  <1> USE Apart DEF ConsumerAwake, M!ReturnFromWait, M!Enter, Proceed, Control, Places, Mutex, Waiters
  <1>1. owner = Nobody /\ owner' = c /\ depth' = 1
    OBVIOUS
  <1>2. Places'
    OBVIOUS
  <1>3. Mutex' /\ Waiters'
    BY <1>1
  <1> QED  BY <1>2, <1>3

\* A notify wakes a consumer, if one sleeps.
LEMMA NotifyOneKeeps ==
  ASSUME Control, NEW p \in Producers, ProducerNotifyOne(p)
  PROVE  /\ Control'
         /\ \E c \in Consumers : waiting'[c] # "asleep"
  <1> USE Apart DEF ProducerNotifyOne, M!notify_one, M!Woken, M!Asleep, Proceed, Control, Places, Mutex, Waiters
  <1>1. Places' /\ Mutex'
    OBVIOUS
  <1>2. CASE M!Asleep = {}
    <2>1. \A t \in Workers : waiting[t] # "asleep" /\ waiting'[t] = waiting[t]
      BY <1>2
    <2> QED  BY <1>1, <1>2, <2>1
  <1>3. CASE M!Asleep # {}
    <2>1. PICK s \in Workers : /\ waiting[s] = "asleep"
                               /\ waiting' = [t \in Workers |-> IF t = s THEN "woken" ELSE waiting[t]]
      BY <1>3
    <2>2. Waiters'
      BY <2>1
    <2>3. s \in Consumers /\ waiting'[s] = "woken"
      BY <2>1
    <2> QED  BY <1>1, <2>2, <2>3
  <1> QED  BY <1>2, <1>3

\* The places, the mutex and the waiters agree after every step.
LEMMA ControlStep == ASSUME Control, [ProgramNext]_programVars PROVE Control'
  <1>1. CASE UNCHANGED programVars
    BY <1>1 DEF programVars, Control, Places, Mutex, Waiters
  <1>2. ASSUME NEW p \in Producers, Produce(p) PROVE Control'
    <2>1. CASE ProducerLock(p)
      BY <2>1, LockKeeps, Apart DEF ProducerLock
    <2>2. CASE ProducerPush(p)
      BY <2>2, UnlockKeeps, Apart DEF ProducerPush
    <2>3. CASE ProducerNotifyOne(p)
      BY <2>3, NotifyOneKeeps
    <2>4. CASE ProducerNotifyEvent(p)
      BY <2>4, Apart DEF ProducerNotifyEvent, monitorVars, Proceed, Control, Places, Mutex, Waiters
    <2> QED  BY <1>2, <2>1, <2>2, <2>3, <2>4 DEF Produce
  <1>3. ASSUME NEW c \in Consumers, Consume(c) PROVE Control'
    <2>1. CASE ConsumerLock(c)
      BY <2>1, LockKeeps, Apart DEF ConsumerLock
    <2>2. CASE ConsumerSwap(c)
      BY <2>2, UnlockKeeps, Apart DEF ConsumerSwap
    <2>3. CASE ConsumerPrint(c)
      BY <2>3, Apart DEF ConsumerPrint, monitorVars, Control, Places, Mutex, Waiters
    <2> QED  BY <1>3, <2>1, <2>2, <2>3, WaitKeeps, AwakeKeeps DEF Consume
  <1>4. ASSUME NEW c \in Consumers, Spurious(c) PROVE Control'
    BY <1>4, Apart DEF Spurious, M!SpuriousWake, Control, Places, Mutex, Waiters
  <1>5. CASE EventCall \/ EventRelease \/ EventTimeout
    BY <1>5 DEF EventCall, EventRelease, EventTimeout, monitorVars, Control, Places, Mutex, Waiters
  <1> QED  BY <1>1, <1>2, <1>3, <1>4, <1>5 DEF ProgramNext
-----------------------------------------------------------------------------
\* A producer that leaves an item behind is on its way to notify; once it has,
\* a consumer is awake; and one that is awake sleeps only if nothing is there.
LEMMA NoMissedNotifyStep ==
  ASSUME Control, NoMissedNotify, [ProgramNext]_programVars
  PROVE  NoMissedNotify'
  <1> USE Apart
  <1>1. CASE UNCHANGED <<g_queue, waiting, place>>
    BY <1>1 DEF NoMissedNotify
  <1>2. ASSUME NEW p \in Producers, Produce(p) PROVE NoMissedNotify'
    <2>1. CASE ProducerLock(p)
      BY <2>1 DEF ProducerLock, M!lock, queueVars, Proceed, Control, Places, NoMissedNotify
    <2>2. CASE ProducerPush(p)
      BY <2>2 DEF ProducerPush, Proceed, Control, Places, NoMissedNotify
    <2>3. CASE ProducerNotifyOne(p)
      BY <2>3, NotifyOneKeeps DEF NoMissedNotify
    <2>4. CASE ProducerNotifyEvent(p)
      BY <2>4 DEF ProducerNotifyEvent, monitorVars, queueVars, Proceed, Control, Places, NoMissedNotify
    <2> QED  BY <1>2, <2>1, <2>2, <2>3, <2>4 DEF Produce
  <1>3. ASSUME NEW c \in Consumers, Consume(c) PROVE NoMissedNotify'
    <2>1. CASE ConsumerWait(c)
      BY <2>1 DEF ConsumerWait, queueVars, NoMissedNotify
    <2>2. CASE ConsumerLock(c) \/ ConsumerAwake(c) \/ ConsumerSwap(c)
      <3>1. waiting'[c] = "no"
        BY <2>2 DEF ConsumerLock, ConsumerAwake, ConsumerSwap, M!lock, M!ReturnFromWait,
                    M!unlock, Control, Waiters
      <3> QED  BY <3>1 DEF NoMissedNotify
    <2>3. CASE ConsumerPrint(c)
      <3>1. waiting'[c] = "no"
        BY <2>3 DEF ConsumerPrint, monitorVars, Control, Waiters
      <3> QED  BY <3>1 DEF NoMissedNotify
    <2> QED  BY <1>3, <2>1, <2>2, <2>3 DEF Consume
  <1>4. ASSUME NEW c \in Consumers, Spurious(c) PROVE NoMissedNotify'
    <2>1. waiting'[c] = "woken"
      BY <1>4 DEF Spurious, M!SpuriousWake, Control, Waiters
    <2> QED  BY <2>1 DEF NoMissedNotify
  <1>5. CASE EventCall \/ EventRelease \/ EventTimeout
    BY <1>1, <1>5 DEF EventCall, EventRelease, EventTimeout, monitorVars, queueVars
  <1> QED  BY <1>1, <1>2, <1>3, <1>4, <1>5 DEF ProgramNext, programVars
-----------------------------------------------------------------------------
LEMMA HasIsSequence ==
  ASSUME Queues, NEW c \in Consumers
  PROVE  Has(c) \in Seq(Nat) /\ (tmpQueue[c] = <<>> => Has(c) = printed[c])
  BY ConcatProperties, ConcatEmptySeq DEF Queues, Has

\* A step that leaves the queue and what each consumer has as they are.
LEMMA QueuesUntouched ==
  ASSUME Ordered, Placed, UNCHANGED <<g_queue, pushed>>,
         \A c \in Consumers : Has(c)' = Has(c)
  PROVE  Ordered' /\ Placed'
  BY DEF Ordered, Placed

\* The item pushed is a new one, newer than all others.
LEMMA PushKeeps ==
  ASSUME Queues, Ordered, Placed, NEW p \in Producers, Control, ProducerPush(p)
  PROVE  Queues' /\ Ordered' /\ Placed'
  <1>1. /\ pushed \in Nat /\ pushed' = pushed + 1 /\ pushed' \in Nat
        /\ g_queue' = Append(g_queue, pushed')
        /\ g_queue \in Seq(Nat) /\ UNCHANGED <<tmpQueue, printed>>
    BY DEF ProducerPush, Queues
  <1>2. /\ g_queue' \in Seq(Nat) /\ Items(g_queue') = Items(g_queue) \cup {pushed'}
    BY <1>1, AppendProperties, ItemsOfAppend
  <1>3. \A c \in Consumers : Has(c)' = Has(c)
    BY <1>1 DEF Has
  <1>4. Queues'
    BY <1>1, <1>2, Apart DEF Queues, ProducerPush, Proceed, Control, Places
  <1>5. /\ \A x \in Items(g_queue) : x \in Nat /\ x < pushed'
        /\ \A c \in Consumers : \A x \in Items(Has(c)) : x \in Nat /\ x < pushed'
    <2>1. ASSUME NEW x, x \in Items(g_queue) \/ \E c \in Consumers : x \in Items(Has(c))
          PROVE  x \in 1..pushed
      BY <2>1 DEF Placed
    <2>2. \A x \in 1..pushed : x \in Nat /\ x < pushed'
      BY <1>1
    <2>3. Items(g_queue) \subseteq 1..pushed /\ \A c \in Consumers : Items(Has(c)) \subseteq 1..pushed
      BY <2>1
    <2> HIDE <2>1, <1>1
    <2> QED  BY <2>2, <2>3
  <1>6. Increasing(g_queue')
    BY <1>1, <1>5, IncreasingAppend DEF Ordered
  <1>7. \A c \in Consumers : \A x \in Items(Has(c)), y \in Items(g_queue') : x < y
    BY <1>2, <1>5 DEF Ordered
  <1>8. \A x : x \in 1..pushed' <=> x \in 1..pushed \/ x = pushed'
    BY <1>1
  <1> QED  BY <1>2, <1>3, <1>4, <1>6, <1>7, <1>8 DEF Ordered, Placed

\* The batch is all there was, and newer than what the consumer has printed.
LEMMA SwapKeeps ==
  ASSUME Queues, Ordered, Placed, NEW c \in Consumers, Control, ConsumerSwap(c)
  PROVE  Queues' /\ Ordered' /\ Placed'
  <1>1. /\ tmpQueue[c] = <<>> /\ g_queue' = <<>> /\ UNCHANGED <<printed, pushed>>
        /\ tmpQueue' = [tmpQueue EXCEPT ![c] = g_queue]
        /\ g_queue \in Seq(Nat) /\ printed[c] \in Seq(Nat)
    BY DEF ConsumerSwap, Proceed, Queues
  <1>2. Queues'
    BY <1>1, EmptySeq DEF Queues, ConsumerSwap, Proceed, Control, Places, Workers
  <1>3. /\ Has(c) = printed[c] /\ Has(c)' = printed[c] \o g_queue
        /\ \A d \in Consumers \ {c} : Has(d)' = Has(d)
    BY <1>1, HasIsSequence DEF Has, Queues
  <1>4. /\ Items(Has(c)') = Items(Has(c)) \cup Items(g_queue)
        /\ Items(g_queue') = {}
    BY <1>1, <1>3, ItemsOfConcat, ItemsOfEmpty
  <1>5. Increasing(Has(c)') /\ Increasing(g_queue')
    BY <1>1, <1>3, IncreasingConcat, ItemsOfEmpty DEF Ordered
  <1>6. Ordered'
    BY <1>3, <1>4, <1>5 DEF Ordered
  <1>7. \A d \in Consumers : Items(Has(d)) \cap Items(g_queue) = {}
    \* An item of both would be newer than itself.
    <2>1. \A x \in Items(g_queue) : x \in Nat
      BY <1>1, ItemsAreNumbers
    <2> QED  BY <2>1 DEF Ordered
  <1>8. Placed'
    <2>1. \A d, e \in Consumers : d # e => Items(Has(d)') \cap Items(Has(e)') = {}
      <3> SUFFICES ASSUME NEW d \in Consumers, NEW e \in Consumers, d # e, NEW x,
                          x \in Items(Has(d)'), x \in Items(Has(e)')
                   PROVE  FALSE
        OBVIOUS
      <3>1. /\ x \in Items(Has(d)) \/ (d = c /\ x \in Items(g_queue))
            /\ x \in Items(Has(e)) \/ (e = c /\ x \in Items(g_queue))
        BY <1>3, <1>4
      <3> QED  BY <1>7, <3>1 DEF Placed
    <2>2. ASSUME NEW x
          PROVE  x \in 1..pushed' <=>
                    x \in Items(g_queue') \/ \E d \in Consumers : x \in Items(Has(d)')
      <3>1. x \in 1..pushed <=> x \in Items(g_queue) \/ \E d \in Consumers : x \in Items(Has(d))
        BY DEF Placed
      <3>2. \A d \in Consumers : x \in Items(Has(d)') <=>
                                    x \in Items(Has(d)) \/ (d = c /\ x \in Items(g_queue))
        BY <1>3, <1>4
      <3> QED  BY <1>1, <1>4, <3>1, <3>2
    <2> QED  BY <2>1, <2>2 DEF Placed
  <1> QED  BY <1>2, <1>6, <1>8

\* Printing moves items, and gives none away.
LEMMA PrintKeeps ==
  ASSUME Queues, Ordered, Placed, NEW c \in Consumers, Control, ConsumerPrint(c)
  PROVE  Queues' /\ Ordered' /\ Placed'
  <1>1. CASE tmpQueue[c] = <<>>
    <2>1. Queues'
      BY <1>1 DEF ConsumerPrint, Queues, Control, Places, Workers
    <2>2. \A d \in Consumers : Has(d)' = Has(d)
      BY <1>1 DEF ConsumerPrint, Has
    <2> QED  BY <2>1, <2>2, QueuesUntouched DEF ConsumerPrint
  <1>2. CASE tmpQueue[c] # <<>>
    <2>1. /\ printed' = [printed EXCEPT ![c] = Append(@, Head(tmpQueue[c]))]
          /\ tmpQueue' = [tmpQueue EXCEPT ![c] = Tail(@)]
          /\ place[c] = "print" /\ UNCHANGED <<place, g_queue, pushed>>
          /\ printed[c] \in Seq(Nat) /\ tmpQueue[c] \in Seq(Nat)
      BY <1>2 DEF ConsumerPrint, Queues
    <2>2. /\ Append(printed[c], Head(tmpQueue[c])) \in Seq(Nat) /\ Tail(tmpQueue[c]) \in Seq(Nat)
          /\ Append(printed[c], Head(tmpQueue[c])) \o Tail(tmpQueue[c]) = Has(c)
      BY <1>2, <2>1, PrintKeepsOrder DEF Has
    <2>3. Queues'
      BY <2>1, <2>2 DEF Queues
    <2>4. \A d \in Consumers : Has(d)' = Has(d)
      BY <2>1, <2>2 DEF Has, Queues
    <2> QED  BY <2>1, <2>3, <2>4, QueuesUntouched
  <1> QED  BY <1>1, <1>2

LEMMA QueuesStep ==
  ASSUME Control, Queues, Ordered, Placed, [ProgramNext]_programVars
  PROVE  Queues' /\ Ordered' /\ Placed'
  <1>1. ASSUME UNCHANGED queueVars, \A c \in Consumers : place[c] = "print" => place'[c] = "print"
        PROVE  Queues' /\ Ordered' /\ Placed'
    <2>1. \A c \in Consumers : Has(c)' = Has(c)
      BY <1>1 DEF Has, queueVars
    <2> QED  BY <1>1, <2>1, QueuesUntouched DEF queueVars, Queues
  <1>2. ASSUME NEW p \in Producers, Produce(p) PROVE Queues' /\ Ordered' /\ Placed'
    <2>1. CASE ProducerLock(p) \/ ProducerNotifyOne(p) \/ ProducerNotifyEvent(p)
      BY <1>1, <2>1, Apart DEF ProducerLock, ProducerNotifyOne, ProducerNotifyEvent, Proceed, Control, Places
    <2> QED  BY <1>2, <2>1, PushKeeps DEF Produce
  <1>3. ASSUME NEW c \in Consumers, Consume(c) PROVE Queues' /\ Ordered' /\ Placed'
    <2>1. CASE ConsumerLock(c) \/ ConsumerWait(c) \/ ConsumerAwake(c)
      BY <1>1, <2>1, Apart DEF ConsumerLock, ConsumerWait, ConsumerAwake, Proceed, Control, Places
    <2> QED  BY <1>3, <2>1, SwapKeeps, PrintKeeps DEF Consume
  <1>4. CASE UNCHANGED programVars \/ (\E c \in Consumers : Spurious(c))
             \/ EventCall \/ EventRelease \/ EventTimeout
    BY <1>1, <1>4 DEF programVars, queueVars, Spurious, EventCall, EventRelease, EventTimeout
  <1> QED  BY <1>2, <1>3, <1>4 DEF ProgramNext
-----------------------------------------------------------------------------
Holding(c) == Items(tmpQueue[c]) \cup Items(printed[c])

\* What a consumer holds it holds once.
LEMMA HoldingCounts ==
  ASSUME Queues, Ordered, NEW c \in Consumers
  PROVE  /\ Holding(c) = Items(Has(c))
         /\ Cardinality(Holding(c)) = Len(tmpQueue[c]) + Len(printed[c])
  <1>1. printed[c] \in Seq(Nat) /\ tmpQueue[c] \in Seq(Nat) /\ Has(c) \in Seq(Nat)
    BY HasIsSequence DEF Queues
  <1>2. Holding(c) = Items(Has(c))
    BY <1>1, ItemsOfConcat DEF Has, Holding
  <1>3. Len(Has(c)) = Len(tmpQueue[c]) + Len(printed[c])
    <2>1. Len(printed[c] \o tmpQueue[c]) = Len(printed[c]) + Len(tmpQueue[c])
      BY <1>1, ConcatProperties
    <2>2. Len(printed[c]) \in Nat /\ Len(tmpQueue[c]) \in Nat
      BY <1>1, LenProperties
    <2>3. Len(Has(c)) = Len(printed[c]) + Len(tmpQueue[c])
      BY <2>1, Zenon DEF Has
    <2>4. \A m, n \in Nat : m + n = n + m
      OBVIOUS
    <2> QED  BY <2>2, <2>3, <2>4, Zenon
  <1>4. Cardinality(Items(Has(c))) = Len(Has(c))
    BY <1>1, IncreasingCounts DEF Ordered
  <1> QED  BY <1>2, <1>3, <1>4, Zenon

\* The inductive invariant of the program.
THEOREM ProgramInvariant == ProgramSafetySpec => []ProgramInv
  <1>1. ProgramInv /\ [ProgramNext]_programVars => ProgramInv'
    BY ControlStep, NoMissedNotifyStep, QueuesStep DEF ProgramInv
  <1> QED  BY ProgramInitially, <1>1, PTL DEF ProgramSafetySpec

\* No item is left beside sleeping consumers only, although the notify comes
\* after the lock is given up (main.cpp 76-81), for any number of either.
THEOREM NoNotifyIsMissed == ProgramSafetySpec => []NoMissedNotify
  <1>1. ProgramInv => NoMissedNotify
    BY DEF ProgramInv
  <1> QED  BY ProgramInvariant, <1>1, PTL

\* Each consumer prints in the order of the pushes, and has only what is older
\* than all that is still shared (main.cpp 53-58).
THEOREM PrintedInOrder == ProgramSafetySpec => []InOrder
  <1>1. ProgramInv => InOrder
    BY DEF ProgramInv, InOrder, Ordered, Has
  <1> QED  BY ProgramInvariant, <1>1, PTL

\* Every item pushed is in one place, once (main.cpp 40-58, 75-80).
THEOREM ItemsAreKept == ProgramSafetySpec => []ExactlyOnce
  <1>1. ProgramInv => ExactlyOnce
    <2> SUFFICES ASSUME ProgramInv PROVE ExactlyOnce
      OBVIOUS
    <2>2. Items(g_queue) \cup UNION {Holding(c) : c \in Consumers} = 1..pushed
      <3>1. ASSUME NEW x
            PROVE  x \in 1..pushed <=> x \in Items(g_queue) \/ \E c \in Consumers : x \in Holding(c)
        <4>1. \A c \in Consumers : x \in Holding(c) <=> x \in Items(Has(c))
          BY HoldingCounts DEF ProgramInv
        <4>2. x \in 1..pushed <=> x \in Items(g_queue) \/ \E c \in Consumers : x \in Items(Has(c))
          BY DEF ProgramInv, Placed
        <4> QED  BY <4>1, <4>2
      <3> QED  BY <3>1
    <2>3. \A c \in Consumers : Holding(c) \cap Items(g_queue) = {}
      <3>1. \A y \in Items(g_queue) : y \in Nat
        BY ItemsAreNumbers DEF ProgramInv, Queues
      <3>2. ASSUME NEW c \in Consumers, NEW x \in Holding(c), x \in Items(g_queue) PROVE FALSE
        <4>1. x \in Items(Has(c))
          BY HoldingCounts DEF ProgramInv
        <4>2. x < x
          BY <3>2, <4>1 DEF ProgramInv, Ordered
        <4> QED  BY <3>1, <3>2, <4>2
      <3> QED  BY <3>2
    <2>4. \A c, d \in Consumers : c # d => Holding(c) \cap Holding(d) = {}
      <3> SUFFICES ASSUME NEW c \in Consumers, NEW d \in Consumers, c # d
                   PROVE  Holding(c) \cap Holding(d) = {}
        OBVIOUS
      <3> QED  BY HoldingCounts, Zenon DEF ProgramInv, Placed
    <2>5. \A c \in Consumers : Cardinality(Holding(c)) = Len(tmpQueue[c]) + Len(printed[c])
      BY HoldingCounts DEF ProgramInv
    <2> QED  BY <2>2, <2>3, <2>4, <2>5 DEF ExactlyOnce, Holding
  <1> QED  BY ProgramInvariant, <1>1, PTL
-----------------------------------------------------------------------------
\* A step of the program is a call of its mutex and condition variable, or does not
\* touch them; and likewise of its event.
LEMMA StepsOfTheParts ==
  ASSUME [ProgramNext]_programVars
  PROVE  [M!Next]_(M!vars) /\ [E!Next]_(E!vars)
  <1>1. CASE UNCHANGED programVars
    BY <1>1 DEF programVars, M!vars, E!vars
  <1>2. ASSUME NEW p \in Producers, Produce(p)
        PROVE  [M!Next]_(M!vars) /\ [E!Next]_(E!vars)
    <2> p \in Workers
      BY DEF Workers
    <2>1. CASE ProducerLock(p)
      BY <2>1 DEF ProducerLock, gEventVars, E!vars, M!Next
    <2>2. CASE ProducerPush(p)
      BY <2>2 DEF ProducerPush, gEventVars, E!vars, M!Next
    <2>3. CASE ProducerNotifyOne(p)
      BY <2>3 DEF ProducerNotifyOne, gEventVars, E!vars, M!Next
    <2>4. CASE ProducerNotifyEvent(p)
      BY <2>4 DEF ProducerNotifyEvent, monitorVars, M!vars, E!Next
    <2> QED  BY <1>2, <2>1, <2>2, <2>3, <2>4 DEF Produce
  <1>3. ASSUME NEW c \in Consumers, Consume(c) \/ Spurious(c)
        PROVE  [M!Next]_(M!vars) /\ [E!Next]_(E!vars)
    <2> c \in Workers
      BY DEF Workers
    <2>1. CASE ConsumerLock(c)
      BY <2>1 DEF ConsumerLock, gEventVars, E!vars, M!Next
    <2>2. CASE ConsumerWait(c)
      BY <2>2 DEF ConsumerWait, gEventVars, E!vars, M!Next
    <2>3. CASE ConsumerAwake(c)
      BY <2>3 DEF ConsumerAwake, gEventVars, E!vars, M!Next
    <2>4. CASE ConsumerSwap(c)
      BY <2>4 DEF ConsumerSwap, gEventVars, E!vars, M!Next
    <2>5. CASE ConsumerPrint(c)
      BY <2>5 DEF ConsumerPrint, gEventVars, monitorVars, E!vars, M!vars
    <2>6. CASE Spurious(c)
      BY <2>6 DEF Spurious, gEventVars, E!vars, M!Next
    <2> QED  BY <1>3, <2>1, <2>2, <2>3, <2>4, <2>5, <2>6 DEF Consume
  <1>4. CASE EventCall \/ EventRelease \/ EventTimeout
    <2>1. UNCHANGED M!vars
      BY <1>4 DEF EventCall, EventRelease, EventTimeout, monitorVars, M!vars
    <2>2. E!Next
      BY <1>4 DEF EventCall, EventRelease, EventTimeout, E!Next
    <2> QED  BY <2>1, <2>2
  <1> QED  BY <1>1, <1>2, <1>3, <1>4 DEF ProgramNext

\* The program uses its mutex, its condition variable and its event as Monitor and
\* AbstractEvent allow: what is proved of these holds of g_mutex, g_cond and g_event
\* (main.cpp 36-82 over mutex.cpp, condition_variable.cpp and event.cpp).
THEOREM UsesItsParts == ProgramSafetySpec => M!Spec /\ E!SafetySpec
  <1>1. ProgramInit => M!Init /\ E!Init
    BY DEF ProgramInit
  <1>2. [ProgramNext]_programVars => [M!Next]_(M!vars) /\ [E!Next]_(E!vars)
    BY StepsOfTheParts
  <1> QED  BY <1>1, <1>2, PTL DEF ProgramSafetySpec, M!Spec, E!SafetySpec
=============================================================================
