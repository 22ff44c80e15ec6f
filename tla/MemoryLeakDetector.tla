------------------------- MODULE MemoryLeakDetector -------------------------
(***************************************************************************)
(* MemoryLeakDetector.cpp: the tracking operators new and delete, and the  *)
(* doubly linked list of MemoryBlocks behind them.  Every operation on the *)
(* list runs inside the detector's critical section; the user's memory is  *)
(* taken before the block is inserted and given back after it is removed,  *)
(* both outside the critical section, so another thread may be handed the  *)
(* same address in between.                                                *)
(***************************************************************************)
EXTENDS Integers, FiniteSets, FiniteSetsExt

CONSTANTS
    Threads,    \* the threads of the program
    Addresses,  \* the user memory malloc can hand out
    Blocks,     \* the MemoryBlocks malloc can hand out
    Sizes,      \* the sizes the program asks for
    Reporters,  \* the threads that call GetCurrentThreadMemoryLeak
    None        \* NULL

Memory == [size : Sizes, tid : Threads, tracked : BOOLEAN]
MemoryBlock == [address : Addresses, size : Sizes, tid : Threads,
                prev : Blocks \cup {None}, next : Blocks \cup {None}]

ASSUME DetectorAssumption ==
    /\ Sizes \subseteq Nat
    /\ Reporters \subseteq Threads
    /\ IsFiniteSet(Addresses) /\ IsFiniteSet(Blocks)
    /\ Cardinality(Blocks) >= Cardinality(Addresses)
    /\ None \notin Threads \cup Addresses \cup Blocks \cup Memory \cup MemoryBlock

VARIABLES
    heap,               \* user memory: None, or who holds the address
    block,              \* MemoryBlocks: None, or the fields of an allocated one
    filenames,          \* blocks whose filename buffer is allocated
    m_pHead, m_pTail,
    m_nLeakMemorySize, m_nLeakBlockCount,
    m_mutex,            \* the thread inside the critical section, or None
    pc,                 \* where each thread is
    ptr,                \* the address a thread is allocating or deleting
    pBlock,             \* the local pBlock of the thread inside
    destroyed           \* ~MemoryLeakDetector has run

list == <<m_pHead, m_pTail, block, filenames>>
counters == <<m_nLeakMemorySize, m_nLeakBlockCount>>
local == <<pc, ptr, pBlock>>
vars == <<heap, list, counters, m_mutex, local, destroyed>>

Init ==
    /\ heap = [a \in Addresses |-> None]
    /\ block = [b \in Blocks |-> None]
    /\ filenames = {}
    /\ m_pHead = None /\ m_pTail = None
    /\ m_nLeakMemorySize = 0 /\ m_nLeakBlockCount = 0
    /\ m_mutex = None
    /\ pc = [t \in Threads |-> "idle"]
    /\ ptr = [t \in Threads |-> None]
    /\ pBlock = [t \in Threads |-> None]
    /\ destroyed = FALSE

Allocated == {b \in Blocks : block[b] /= None}
Goto(t, label) == pc' = [pc EXCEPT ![t] = label]
EnterCriticalSection(t) == m_mutex = None /\ m_mutex' = t
LeaveCriticalSection(t) == m_mutex' = None

(* The blocks met by following next from m_pHead, as FindBlock does.       *)
Nth[n \in 0..Cardinality(Blocks)] ==
    IF n = 0 THEN m_pHead
    ELSE IF Nth[n - 1] = None THEN None ELSE block[Nth[n - 1]].next
Reached == {Nth[n] : n \in DOMAIN Nth} \ {None}
FindBlock(address) ==
    LET hits == {n \in DOMAIN Nth : Nth[n] /= None /\ block[Nth[n]].address = address}
    IN  IF hits = {} THEN None ELSE Nth[CHOOSE n \in hits : \A m \in hits : n <= m]

-----------------------------------------------------------------------------
(* operator new(size, file, line): malloc, then InsertBlock.  A malloc that *)
(* fails returns NULL and changes nothing.                                  *)
New(t) ==
    /\ pc[t] = "idle" /\ ~destroyed
    /\ \E a \in {x \in Addresses : heap[x] = None}, s \in Sizes :
        /\ heap' = [heap EXCEPT ![a] = [size |-> s, tid |-> t, tracked |-> TRUE]]
        /\ ptr' = [ptr EXCEPT ![t] = a]
    /\ Goto(t, "insert")
    /\ UNCHANGED <<list, counters, m_mutex, pBlock, destroyed>>

(* The operator new of the C++ library, which the detector leaves in place: *)
(* what it returns is released through the detector's operator delete.      *)
PlainNew(t) ==
    /\ pc[t] = "idle" /\ ~destroyed
    /\ \E a \in {x \in Addresses : heap[x] = None}, s \in Sizes :
        heap' = [heap EXCEPT ![a] = [size |-> s, tid |-> t, tracked |-> FALSE]]
    /\ UNCHANGED <<list, counters, m_mutex, local, destroyed>>

(* Which unused block malloc hands out makes no difference.                 *)
NewBlock == CHOOSE b \in Blocks : b \notin Allocated

(* A block has a copy of the file's name, unless file is NULL.              *)
InsertEnter(t) ==
    /\ pc[t] = "insert" /\ EnterCriticalSection(t)
    /\ block' = [block EXCEPT ![NewBlock] =
                    [address |-> ptr[t], size |-> heap[ptr[t]].size, tid |-> t,
                     prev |-> None, next |-> None]]
    /\ filenames' \in {filenames, filenames \cup {NewBlock}}
    /\ pBlock' = [pBlock EXCEPT ![t] = NewBlock]
    /\ Goto(t, "count")
    /\ UNCHANGED <<heap, m_pHead, m_pTail, counters, ptr, destroyed>>

InsertCount(t) ==
    /\ pc[t] = "count"
    /\ m_nLeakMemorySize' = m_nLeakMemorySize + block[pBlock[t]].size
    /\ m_nLeakBlockCount' = m_nLeakBlockCount + 1
    /\ Goto(t, "link")
    /\ UNCHANGED <<heap, list, m_mutex, ptr, pBlock, destroyed>>

(* Mutant: prev of the appended block stays NULL.                           *)
AppendNoPrev(b) ==
    IF m_pHead = None \/ m_pTail = None
    THEN m_pHead' = b /\ m_pTail' = b /\ block' = block
    ELSE /\ block' = [block EXCEPT ![m_pTail].next = b]
         /\ m_pTail' = b
         /\ m_pHead' = m_pHead

Append(b) ==
    IF m_pHead = None \/ m_pTail = None
    THEN m_pHead' = b /\ m_pTail' = b /\ block' = block
    ELSE /\ block' = [block EXCEPT ![b].prev = m_pTail, ![m_pTail].next = b]
         /\ m_pTail' = b
         /\ m_pHead' = m_pHead

InsertLink(t) ==
    /\ pc[t] = "link"
    /\ Append(pBlock[t])
    /\ LeaveCriticalSection(t)
    /\ ptr' = [ptr EXCEPT ![t] = None]
    /\ pBlock' = [pBlock EXCEPT ![t] = None]
    /\ Goto(t, "idle")
    /\ UNCHANGED <<heap, filenames, counters, destroyed>>

-----------------------------------------------------------------------------
(* operator delete(ptr): RemoveBlock, then free.  A pointer is deleted once *)
(* and only after the operator new that returned it is over.                *)
Live == {a \in Addresses : heap[a] /= None /\ a \notin {ptr[t] : t \in Threads}}

(* Mutant: operator delete frees the memory before it calls RemoveBlock.    *)
DeleteFreesFirst(t) ==
    /\ pc[t] = "idle" /\ ~destroyed
    /\ \E a \in Live : /\ ptr' = [ptr EXCEPT ![t] = a]
                       /\ heap' = [heap EXCEPT ![a] = None]
    /\ Goto(t, "remove")
    /\ UNCHANGED <<list, counters, m_mutex, pBlock, destroyed>>

Delete(t) ==
    /\ pc[t] = "idle" /\ ~destroyed
    /\ \E a \in Live : ptr' = [ptr EXCEPT ![t] = a]
    /\ Goto(t, "remove")
    /\ UNCHANGED <<heap, list, counters, m_mutex, pBlock, destroyed>>

(* Mutant: an early return that keeps the critical section.                 *)
RemoveEnterNoLeave(t) ==
    /\ pc[t] = "remove" /\ EnterCriticalSection(t)
    /\ LET b == FindBlock(ptr[t])
       IN  IF b = None
           THEN Goto(t, "free") /\ UNCHANGED pBlock
           ELSE /\ pBlock' = [pBlock EXCEPT ![t] = b]
                /\ Goto(t, "unlink")
    /\ UNCHANGED <<heap, list, counters, ptr, destroyed>>

(* An address the detector has no block for goes straight to free.          *)
RemoveEnter(t) ==
    /\ pc[t] = "remove" /\ m_mutex = None
    /\ LET b == FindBlock(ptr[t])
       IN  IF b = None
           THEN Goto(t, "free") /\ UNCHANGED <<m_mutex, pBlock>>
           ELSE /\ EnterCriticalSection(t)
                /\ pBlock' = [pBlock EXCEPT ![t] = b]
                /\ Goto(t, "unlink")
    /\ UNCHANGED <<heap, list, counters, ptr, destroyed>>

Unlink(b) ==
    LET prev == block[b].prev
        next == block[b].next
    IN  /\ block' = [x \in Blocks |->
              IF x = prev /\ prev /= None THEN [block[x] EXCEPT !.next = next]
              ELSE IF x = next /\ next /= None THEN [block[x] EXCEPT !.prev = prev]
              ELSE block[x]]
        /\ m_pHead' = IF m_pHead = b THEN next ELSE m_pHead
        /\ m_pTail' = IF m_pTail = b THEN prev ELSE m_pTail

RemoveUnlink(t) ==
    /\ pc[t] = "unlink"
    /\ Unlink(pBlock[t])
    /\ Goto(t, "drop")
    /\ UNCHANGED <<heap, filenames, counters, m_mutex, ptr, pBlock, destroyed>>

RemoveFree(t) ==
    /\ pc[t] = "drop"
    /\ filenames' = filenames \ {pBlock[t]}
    /\ block' = [block EXCEPT ![pBlock[t]] = None]
    /\ m_nLeakMemorySize' = m_nLeakMemorySize - block[pBlock[t]].size
    /\ m_nLeakBlockCount' = m_nLeakBlockCount - 1
    /\ LeaveCriticalSection(t)
    /\ pBlock' = [pBlock EXCEPT ![t] = None]
    /\ Goto(t, "free")
    /\ UNCHANGED <<heap, m_pHead, m_pTail, ptr, destroyed>>

Free(t) ==
    /\ pc[t] = "free"
    /\ heap' = [heap EXCEPT ![ptr[t]] = None]
    /\ ptr' = [ptr EXCEPT ![t] = None]
    /\ Goto(t, "idle")
    /\ UNCHANGED <<list, counters, m_mutex, pBlock, destroyed>>

-----------------------------------------------------------------------------
(* GetCurrentThreadMemoryLeak.  Its loop does not advance ptr: with a block *)
(* in the list the thread never leaves "scan", nor the critical section.    *)
Report(t) ==
    /\ t \in Reporters
    /\ pc[t] = "idle" /\ ~destroyed /\ m_mutex = None
    /\ m_pHead /= None
    /\ EnterCriticalSection(t)
    /\ Goto(t, "scan")
    /\ UNCHANGED <<heap, list, counters, ptr, pBlock, destroyed>>

(* ~MemoryLeakDetector, once every thread is through.  Neither m_pHead nor  *)
(* the counters are reset; a block is freed without its filename.           *)
Destroy ==
    /\ ~destroyed
    /\ \A t \in Threads : pc[t] = "idle"
    /\ block' = [b \in Blocks |-> IF b \in Reached THEN None ELSE block[b]]
    /\ destroyed' = TRUE
    /\ UNCHANGED <<heap, filenames, m_pHead, m_pTail, counters, m_mutex, local>>

Insert(t) == New(t) \/ InsertEnter(t) \/ InsertCount(t) \/ InsertLink(t)
Remove(t) == Delete(t) \/ RemoveEnter(t) \/ RemoveUnlink(t) \/ RemoveFree(t) \/ Free(t)
Next == Destroy \/ \E t \in Threads : Insert(t) \/ Remove(t) \/ PlainNew(t) \/ Report(t)

(* A thread that is inside an operator runs on, and the critical section is *)
(* granted in the end to a thread that keeps waiting for it.                *)
Fairness == \A t \in Threads :
    /\ SF_vars(InsertEnter(t)) /\ WF_vars(InsertCount(t) \/ InsertLink(t))
    /\ SF_vars(RemoveEnter(t))
    /\ WF_vars(RemoveUnlink(t) \/ RemoveFree(t) \/ Free(t))

SafetySpec == Init /\ [][Next]_vars
Spec == SafetySpec /\ Fairness

-----------------------------------------------------------------------------
TypeOK ==
    /\ heap \in [Addresses -> Memory \cup {None}]
    /\ block \in [Blocks -> MemoryBlock \cup {None}]
    /\ filenames \subseteq Blocks
    /\ {m_pHead, m_pTail} \subseteq Blocks \cup {None}
    /\ m_nLeakMemorySize \in Nat /\ m_nLeakBlockCount \in Nat
    /\ m_mutex \in Threads \cup {None}
    /\ pc \in [Threads -> {"idle", "insert", "count", "link", "remove", "unlink",
                           "drop", "free", "scan"}]
    /\ ptr \in [Threads -> Addresses \cup {None}]
    /\ pBlock \in [Threads -> Blocks \cup {None}]
    /\ destroyed \in BOOLEAN

(* The state is well-typed, and outside the critical section the list is a  *)
(* list: next from m_pHead meets every allocated block and no freed one,    *)
(* ends at m_pTail, and prev is its inverse; no filename outlives its block *)
(* (InsertBlock 97-124, RemoveBlock 140-162).                               *)
WellLinked ==
    /\ TypeOK
    /\ (m_mutex = None /\ ~destroyed) =>
          /\ Reached = Allocated /\ filenames \subseteq Allocated
          /\ m_pHead = None <=> m_pTail = None
          /\ m_pHead /= None => block[m_pHead].prev = None /\ block[m_pTail].next = None
          /\ \A b \in Allocated : block[b].next /= None => block[block[b].next].prev = b

(* Outside the critical section the list is the list of the live tracked    *)
(* allocations, one block each with its size and its thread, whatever       *)
(* threads are between malloc and InsertBlock or between RemoveBlock and    *)
(* free, and whatever addresses malloc has handed out again.                *)
InFlight == {ptr[t] : t \in {u \in Threads : pc[u] \in {"insert", "free"}}}
LiveIsListed == (m_mutex = None /\ ~destroyed) =>
    /\ \A b, c \in Allocated : block[b].address = block[c].address => b = c
    /\ {<<block[b].address, block[b].size, block[b].tid>> : b \in Allocated}
         = {<<a, heap[a].size, heap[a].tid>> :
              a \in {x \in Addresses \ InFlight : heap[x] /= None /\ heap[x].tracked}}

(* The totals the destructor reports are those of the list, whenever no     *)
(* operation is in the critical section: an empty list has the total 0.  So *)
(* has a list of blocks of size 0, which the destructor takes for no leak.  *)
TotalsAreTrue == m_mutex = None /\ ~destroyed =>
    /\ m_nLeakBlockCount = Cardinality(Allocated)
    /\ m_nLeakMemorySize = MapThenSumSet(LAMBDA b : block[b].size, Allocated)

(* The report is exact: it names each live allocation once, and its totals  *)
(* are theirs (InsertBlock 110-111, RemoveBlock 163-164, ~Detector 40-80).  *)
ReportIsExact == LiveIsListed /\ TotalsAreTrue

(* Every operator new and operator delete returns, unless a thread is caught *)
(* in GetCurrentThreadMemoryLeak, which keeps the critical section for good  *)
(* (178-192): no path of InsertBlock or RemoveBlock leaves without unlocking.*)
OperatorsReturn == \A t \in Threads :
    pc[t] /= "idle" ~> pc[t] = "idle" \/ \E u \in Threads : pc[u] = "scan"
=============================================================================
