----------------------------- MODULE ThreadLocal -----------------------------
(***************************************************************************)
(* thread_local_storage of Thread/thread_local_storage.hpp, the class that *)
(* stands in for thread_local where the compiler has none: objects that    *)
(* are constructed, assigned, read and destroyed by several threads, over  *)
(* the TLS slots of the system and a heap of values.                       *)
(*                                                                         *)
(* A call of a member function is one action: it touches the slot and the  *)
(* value of the thread that makes it and of no other.  As with every       *)
(* object, no thread uses one that is not constructed or is destroyed; the *)
(* system may run out of indexes (TLS_OUT_OF_INDEXES), and hands a freed   *)
(* index out again, with all its slots empty.                              *)
(***************************************************************************)
EXTENDS Integers, FiniteSets

CONSTANTS Threads,  \* the threads
          Objects,  \* the objects of the class, each constructed at most once
          Indexes,  \* the indexes the system has: fewer than objects
          Values,   \* the values assigned
          DefaultValue, \* value_type()
          Blocks    \* the addresses operator new hands out: a bound

ASSUME ThreadLocalAssumption ==
         /\ IsFiniteSet(Blocks) /\ DefaultValue \in Values
         /\ Blocks \cap {"null"} = {} /\ Indexes \cap {"out", "none"} = {}

VARIABLES index_,    \* object |-> its index, "out" (of indexes), "none" (no object)
          slots,     \* thread |-> index |-> the pointer TlsGetValue returns
          heap,      \* allocated block |-> its value
          running,   \* the threads that have not ended
          used,      \* objects that are or were constructed
          written,   \* ghost: thread |-> object |-> what it has to read
          orphans    \* ghost: blocks that lost their thread or their object

vars == <<index_, slots, heap, running, used, written, orphans>>

Null == "null"
Constructed == {o \in Objects : index_[o] # "none"}
Taken == {index_[o] : o \in Constructed} \cap Indexes

Init == /\ index_ = [o \in Objects |-> "none"]
        /\ slots = [t \in Threads |-> [i \in Indexes |-> Null]]
        /\ heap = [b \in {} |-> DefaultValue]
        /\ running = Threads
        /\ used = {}
        /\ written = [t \in Threads |-> [o \in Objects |-> DefaultValue]]
        /\ orphans = {}
-----------------------------------------------------------------------------
\* new value_type, which is assigned at once.
New(b, v) == /\ b \in Blocks \ DOMAIN heap
             /\ heap' = [c \in DOMAIN heap \cup {b} |-> IF c = b THEN v ELSE heap[c]]

\* TlsAlloc: a free index, whose slots are empty in every thread.
TlsAlloc(i) == IF i \in Indexes
               THEN i \notin Taken /\ slots' = [t \in Threads |-> [slots[t] EXCEPT ![i] = Null]]
               ELSE i = "out" /\ Indexes \subseteq Taken /\ UNCHANGED slots

Construct(t, o) ==
    /\ t \in running /\ o \notin used
    /\ used' = used \cup {o}
    /\ \E i \in Indexes \cup {"out"} : TlsAlloc(i) /\ index_' = [index_ EXCEPT ![o] = i]
    /\ UNCHANGED <<heap, running, written, orphans>>

\* thread_local_storage(value): the value is assigned by the constructing thread.
ConstructWith(t, o, v) ==
    /\ t \in running /\ o \notin used
    /\ used' = used \cup {o}
    /\ \E i \in Indexes \cup {"out"} :
          /\ index_' = [index_ EXCEPT ![o] = i]
          /\ IF i = "out" THEN TlsAlloc(i) /\ UNCHANGED <<heap, written>>
             ELSE \E b \in Blocks :
                     /\ i \notin Taken
                     /\ New(b, v)
                     /\ slots' = [s \in Threads |-> [slots[s] EXCEPT ![i] = IF s = t THEN b ELSE Null]]
                     /\ written' = [written EXCEPT ![t][o] = v]
    /\ UNCHANGED <<running, orphans>>

\* operator value_type: nothing was assigned by this thread, or there is no index.
Read(t, o) == IF index_[o] = "out" \/ slots[t][index_[o]] = Null
              THEN DefaultValue
              ELSE heap[slots[t][index_[o]]]

\* Mutant: the new value is not put into the slot.
StoreUnset(t, i, v) ==
    IF slots[t][i] = Null
    THEN \E b \in Blocks : New(b, v) /\ UNCHANGED slots
    ELSE heap' = [heap EXCEPT ![slots[t][i]] = v] /\ UNCHANGED slots

\* The value of the thread, allocated on its first assignment.
Store(t, i, v) ==
    IF slots[t][i] = Null
    THEN \E b \in Blocks : New(b, v) /\ slots' = [slots EXCEPT ![t][i] = b]
    ELSE heap' = [heap EXCEPT ![slots[t][i]] = v] /\ UNCHANGED slots

\* operator=: without an index the value is dropped.
Assign(t, o, v) ==
    /\ t \in running /\ o \in Constructed
    /\ IF index_[o] = "out"
       THEN UNCHANGED <<heap, slots, written>>
       ELSE /\ Store(t, index_[o], v)
            /\ written' = [written EXCEPT ![t][o] = v]
    /\ UNCHANGED <<index_, running, used, orphans>>

Free(b) == heap' = [c \in DOMAIN heap \ {b} |-> heap[c]]

\* The destructor frees the value of the thread that runs it.
Release(t, i) == IF slots[t][i] = Null THEN UNCHANGED heap ELSE Free(slots[t][i])

ValuesAt(i, ts) == {slots[t][i] : t \in ts} \ {Null}

\* ~thread_local_storage; what TlsFree leaves in the slots is not read any more.
Destroy(t, o) ==
    /\ t \in running /\ o \in Constructed
    /\ IF index_[o] = "out"
       THEN UNCHANGED <<heap, orphans>>
       ELSE /\ Release(t, index_[o])
            /\ orphans' = orphans \cup ValuesAt(index_[o], Threads \ {t})
    /\ index_' = [index_ EXCEPT ![o] = "none"]
    /\ UNCHANGED <<slots, running, used, written>>

\* A thread ends; the system drops its slots and knows nothing of the values.
ThreadEnds(t) ==
    /\ t \in running
    /\ running' = running \ {t}
    /\ orphans' = orphans \cup ({slots[t][i] : i \in Taken} \ {Null})
    /\ slots' = [slots EXCEPT ![t] = [i \in Indexes |-> Null]]
    /\ UNCHANGED <<index_, heap, used, written>>

Next == \E t \in Threads :
           \/ ThreadEnds(t)
           \/ \E o \in Objects :
                 \/ Construct(t, o) \/ Destroy(t, o)
                 \/ \E v \in Values : ConstructWith(t, o, v) \/ Assign(t, o, v)

Spec == Init /\ [][Next]_vars
-----------------------------------------------------------------------------
TypeOK == /\ index_ \in [Objects -> Indexes \cup {"out", "none"}]
          /\ slots \in [Threads -> [Indexes -> Blocks \cup {Null}]]
          /\ DOMAIN heap \subseteq Blocks
          /\ \A b \in DOMAIN heap : heap[b] \in Values
          /\ running \subseteq Threads
          /\ used \subseteq Objects

\* A thread reads what it assigned to this object, or the default: never what
\* another thread assigned, never what is left of an object that had the index
\* before, and never a freed value.  The value given to the constructor is that
\* of the constructing thread alone (34-38, 55-67).
ReadsItsOwn == \A t \in running, o \in Constructed :
                  /\ index_[o] # "out" => slots[t][index_[o]] \in DOMAIN heap \cup {Null}
                  /\ Read(t, o) = written[t][o]

Reachable == {slots[t][i] : t \in running, i \in Taken} \ {Null}

\* Which values are lost: exactly those of the threads other than the one that
\* destroys the object, and those of threads that end first.  Every other value
\* is in the slot of its thread, or freed (40-53).
OthersAreLost == DOMAIN heap \ Reachable = orphans

\* The state is well-typed, and every value belongs to one thread and one object: it
\* is read by that thread through that object alone, and freed by it or by nobody.
ValuesBelongToThreads == TypeOK /\ ReadsItsOwn /\ OthersAreLost
=============================================================================
