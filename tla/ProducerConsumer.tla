-------------------------- MODULE ProducerConsumer --------------------------
(***************************************************************************)
(* The program of Thread/main.cpp: a queue under g_mutex and g_cond        *)
(* (Monitor), filled by producers and emptied a batch at a time by         *)
(* consumers, and g_event (AbstractEvent, which Event implements) notified *)
(* after every push and awaited with a deadline by one more thread.        *)
(* main.cpp runs one producer and one consumer; the pattern, and the       *)
(* properties, are for any number of each.                                 *)
(*                                                                         *)
(* Items are numbered in the order they are pushed.  The sections of code  *)
(* under g_mutex are single steps, since nothing else touches the queue.   *)
(***************************************************************************)
EXTENDS Integers, Sequences, FiniteSets

CONSTANTS Producers,     \* threads that run the loop of main(): one in main.cpp
          Consumers,     \* threads that run the first lambda: one in main.cpp
          EventWaiter,   \* the thread that runs the second lambda
          Nobody,        \* no thread
          MaxItems       \* bound: items pushed

ASSUME ProducerConsumerAssumption ==
         /\ Producers \cap Consumers = {}
         /\ EventWaiter \notin Producers \cup Consumers
         /\ Nobody \notin Producers \cup Consumers \cup {EventWaiter}
         /\ Consumers # {}
         /\ MaxItems \in Nat

Workers == Producers \cup Consumers

VARIABLES owner, depth, waiting, held,   \* g_mutex and g_cond
          g_queue,                       \* the shared queue
          tmpQueue,                      \* each consumer's batch
          printed,                       \* what each consumer has printed
          manual, signaled, pending,     \* g_event
          place,                         \* where each worker stands
          pushed                         \* items pushed so far

monitorVars == <<owner, depth, waiting, held>>
gEventVars == <<manual, signaled, pending>>
queueVars == <<g_queue, tmpQueue, printed, pushed>>
programVars == <<owner, depth, waiting, held, g_queue, tmpQueue, printed, pushed,
                 manual, signaled, pending, place>>

M == INSTANCE Monitor WITH Threads <- Workers, None <- Nobody, MaxDepth <- 2
E == INSTANCE AbstractEvent WITH Threads <- {EventWaiter}

ProgramInit == /\ M!Init
               /\ E!Init /\ ~manual /\ ~signaled   \* the defaults of the constructor
               /\ g_queue = <<>>
               /\ tmpQueue = [c \in Consumers |-> <<>>]
               /\ printed = [c \in Consumers |-> <<>>]
               /\ pushed = 0
               /\ place = [t \in Workers |-> IF t \in Producers THEN "sleep" ELSE "lock"]

Proceed(t, from, to) == place[t] = from /\ place' = [place EXCEPT ![t] = to]
-----------------------------------------------------------------------------
\* The producer: scoped_lock, push, unlock, notify_one, g_event.notify().
ProducerLock(p) == /\ pushed < MaxItems
                   /\ Proceed(p, "sleep", "push")
                   /\ M!lock(p)
                   /\ UNCHANGED <<queueVars, gEventVars>>

\* Mutant: the item is pushed and g_cond is not notified.
ProducerPushSilent(p) == /\ Proceed(p, "push", "notify_event")
                         /\ pushed' = pushed + 1
                         /\ g_queue' = Append(g_queue, pushed')
                         /\ M!unlock(p)
                         /\ UNCHANGED <<tmpQueue, printed, gEventVars>>

ProducerPush(p) == /\ Proceed(p, "push", "notify_one")
                   /\ pushed' = pushed + 1
                   /\ g_queue' = Append(g_queue, pushed')
                   /\ M!unlock(p)
                   /\ UNCHANGED <<tmpQueue, printed, gEventVars>>

ProducerNotifyOne(p) == /\ Proceed(p, "notify_one", "notify_event")
                        /\ M!notify_one(p)
                        /\ UNCHANGED <<queueVars, gEventVars>>

ProducerNotifyEvent(p) == /\ Proceed(p, "notify_event", "sleep")
                          /\ E!Notify
                          /\ UNCHANGED <<queueVars, monitorVars>>
-----------------------------------------------------------------------------
\* The consumer: scoped_lock; while (!predicate()) wait; swap; unlock; print.
ConsumerLock(c) == /\ Proceed(c, "lock", "predicate")
                   /\ M!lock(c)
                   /\ UNCHANGED <<queueVars, gEventVars>>

ConsumerWait(c) == /\ Proceed(c, "predicate", "wait")
                   /\ g_queue = <<>>
                   /\ M!wait(c)
                   /\ UNCHANGED <<queueVars, gEventVars>>

ConsumerAwake(c) == /\ Proceed(c, "wait", "predicate")
                    /\ M!ReturnFromWait(c)
                    /\ UNCHANGED <<queueVars, gEventVars>>

\* Mutant: the batch replaces the shared queue's copy, not its contents.
ConsumerSwapKeeps(c) == /\ Proceed(c, "predicate", "print")
                        /\ g_queue # <<>>
                        /\ tmpQueue' = [tmpQueue EXCEPT ![c] = g_queue]
                        /\ M!unlock(c)
                        /\ UNCHANGED <<g_queue, printed, pushed, gEventVars>>

ConsumerSwap(c) == /\ Proceed(c, "predicate", "print")
                   /\ g_queue # <<>>
                   /\ tmpQueue' = [tmpQueue EXCEPT ![c] = g_queue]
                   /\ g_queue' = tmpQueue[c]
                   /\ M!unlock(c)
                   /\ UNCHANGED <<printed, pushed, gEventVars>>

\* Mutant: _PrintQueue prints the first item and goes back for more.
ConsumerPrintFirst(c) == /\ Proceed(c, "print", "lock")
                         /\ printed' = [printed EXCEPT ![c] = Append(@, Head(tmpQueue[c]))]
                         /\ tmpQueue' = [tmpQueue EXCEPT ![c] = Tail(@)]
                         /\ UNCHANGED <<g_queue, pushed, monitorVars, gEventVars>>

\* _PrintQueue: front, print, pop, until the batch is empty.
ConsumerPrint(c) == /\ place[c] = "print"
                    /\ IF tmpQueue[c] = <<>>
                       THEN /\ place' = [place EXCEPT ![c] = "lock"]
                            /\ UNCHANGED <<tmpQueue, printed>>
                       ELSE /\ printed' = [printed EXCEPT ![c] = Append(@, Head(tmpQueue[c]))]
                            /\ tmpQueue' = [tmpQueue EXCEPT ![c] = Tail(@)]
                            /\ UNCHANGED place
                    /\ UNCHANGED <<g_queue, pushed, monitorVars, gEventVars>>

\* g_cond may wake a consumer unasked.
Spurious(c) == M!SpuriousWake(c) /\ UNCHANGED <<queueVars, gEventVars, place>>
-----------------------------------------------------------------------------
\* The event thread: while (true) errcode = g_event.wait(3 * 1000).
EventCall == E!Call(EventWaiter, "timed") /\ UNCHANGED <<queueVars, monitorVars, place>>

\* Mutant: the event thread waits again after its wait has timed out only.
EventReleaseTimedOut == /\ pending[EventWaiter] = "asleep"
                        /\ E!Release(EventWaiter)
                        /\ UNCHANGED <<queueVars, monitorVars, place>>

EventRelease == E!Release(EventWaiter) /\ UNCHANGED <<queueVars, monitorVars, place>>

EventTimeout == /\ \/ E!Sleep(EventWaiter) \/ E!Wake(EventWaiter) \/ E!Timeout(EventWaiter)
                /\ UNCHANGED <<queueVars, monitorVars, place>>
-----------------------------------------------------------------------------
Produce(p) == \/ ProducerLock(p) \/ ProducerPush(p)
              \/ ProducerNotifyOne(p) \/ ProducerNotifyEvent(p)
Consume(c) == \/ ConsumerLock(c) \/ ConsumerWait(c) \/ ConsumerAwake(c)
              \/ ConsumerSwap(c) \/ ConsumerPrint(c)

ProgramNext == \/ \E p \in Producers : Produce(p)
               \/ \E c \in Consumers : Consume(c) \/ Spurious(c)
               \/ EventCall \/ EventRelease \/ EventTimeout

\* Every thread keeps running; the producers stop at the bound.
ProgramFairness == /\ \A p \in Producers : WF_programVars(Produce(p))
                   /\ \A c \in Consumers : WF_programVars(Consume(c))
                   /\ WF_programVars(EventCall) /\ WF_programVars(EventRelease)

ProgramSafetySpec == ProgramInit /\ [][ProgramNext]_programVars
ProgramSpec == ProgramSafetySpec /\ ProgramFairness
-----------------------------------------------------------------------------
Items(s) == {s[i] : i \in 1..Len(s)}
Increasing(s) == \A i, j \in 1..Len(s) : i < j => s[i] < s[j]

\* Every item pushed is in exactly one place: the shared queue, one consumer's
\* batch, or one consumer's output (main.cpp 40-58, 75-80).
ExactlyOnce ==
    LET Holding(c) == Items(tmpQueue[c]) \cup Items(printed[c])
    IN  /\ Items(g_queue) \cup UNION {Holding(c) : c \in Consumers} = 1..pushed
        /\ \A c \in Consumers : /\ Holding(c) \cap Items(g_queue) = {}
                                /\ Cardinality(Holding(c)) = Len(tmpQueue[c]) + Len(printed[c])
        /\ \A c, d \in Consumers : c # d => Holding(c) \cap Holding(d) = {}

\* A consumer prints items in the order they were pushed, and what is still
\* shared is newer than anything a consumer has (swap at main.cpp 56).
InOrder == \A c \in Consumers :
              /\ Increasing(printed[c] \o tmpQueue[c])
              /\ \A x \in Items(printed[c] \o tmpQueue[c]), y \in Items(g_queue) : x < y

\* notify_one is called after the lock is given up (main.cpp 76-81), and still no
\* item is left beside sleeping consumers only: one of them is awake and will
\* look at the queue, or a producer is about to wake one.
NoMissedNotify ==
    g_queue # <<>> => \/ \E c \in Consumers : waiting[c] # "asleep"
                      \/ \E p \in Producers : place[p] = "notify_one"

\* Every item pushed is printed in the end.
EverythingPrinted ==
    \A i \in 1..MaxItems :
        pushed >= i ~> \E c \in Consumers : i \in Items(printed[c])

\* A g_event.notify() is not lost between two waits of the event thread, even if
\* it falls between a deadline and the return of the wait (main.cpp 63-70, 82).
EventSeen == signaled ~> ~signaled
=============================================================================
