--------------------------- MODULE ResourcesProofs ---------------------------
(***************************************************************************)
(* Theorems about the parts of Resources, each by itself.  ThreadLocal,    *)
(* for any threads, objects, indexes, values and blocks: that a thread     *)
(* reads what it wrote is not inductive: it takes that no block is in two  *)
(* slots in use, that no two objects have one index, and that objects not  *)
(* constructed yet have nothing written.  Then JNIEnviroment, for any      *)
(* threads and environments, Monitor, for any threads and any nesting,     *)
(* RegistryValues, for any names, texts, numbers and keys, and             *)
(* ArgumentParser, for any arguments.  In the end, that no part disturbs   *)
(* another, so that all of it holds of Resources.                          *)
(***************************************************************************)
EXTENDS Resources, FiniteSetsExt, SequenceTheorems, WellFoundedInduction, TLAPS

\* What TypeOK leaves out.
GhostsOK == /\ written \in [Threads -> [Objects -> Values]]
            /\ Constructed \subseteq used
            /\ \A t \in Threads, o \in Objects \ used : written[t][o] = DefaultValue

\* Every index belongs to one object, every block in use to one slot.
OwnIndex == \A o, p \in Constructed : index_[o] \in Indexes /\ index_[o] = index_[p] => o = p
OwnBlock == \A t, s \in Threads, i, j \in Taken :
               slots[t][i] # Null /\ slots[t][i] = slots[s][j] => t = s /\ i = j

\* The slots in use point to values, those of threads that ended nowhere.
InHeap == \A t \in Threads, i \in Taken : slots[t][i] \in DOMAIN heap \cup {Null}
EndedEmpty == \A t \in Threads \ running, i \in Indexes : slots[t][i] = Null

Reads == \A t \in running, o \in Constructed : Read(t, o) = written[t][o]

IInv == TypeOK /\ GhostsOK /\ OwnIndex /\ OwnBlock /\ InHeap /\ EndedEmpty /\ Reads /\ OthersAreLost
-----------------------------------------------------------------------------
\* An index is taken just if a constructed object has it.
LEMMA TakenBy == ASSUME TypeOK
                 PROVE  /\ \A i : i \in Taken <=> i \in Indexes /\ \E o \in Objects : index_[o] = i
                        /\ \A o \in Constructed : index_[o] = "out" \/ index_[o] \in Taken
  BY ThreadLocalAssumption DEF TypeOK, Taken, Constructed

\* What is reachable, member by member.
LEMMA ReachableBy ==
        \A b : b \in Reachable <=> b # Null /\ \E t \in running, i \in Taken : slots[t][i] = b
  BY DEF Reachable

\* The invariant says what the run checks.
LEMMA InvariantSuffices == IInv => ValuesBelongToThreads
  <1> SUFFICES ASSUME IInv PROVE ReadsItsOwn
    BY DEF IInv, ValuesBelongToThreads
  <1> SUFFICES ASSUME NEW t \in running, NEW o \in Constructed
               PROVE  /\ index_[o] # "out" => slots[t][index_[o]] \in DOMAIN heap \cup {Null}
                      /\ Read(t, o) = written[t][o]
    BY DEF ReadsItsOwn
  <1>1. index_[o] # "out" => slots[t][index_[o]] \in DOMAIN heap \cup {Null}
    BY TakenBy DEF IInv, InHeap, TypeOK
  <1>2. Read(t, o) = written[t][o]
    BY DEF IInv, Reads
  <1> QED  BY <1>1, <1>2

LEMMA Initially == Init => IInv
  <1> SUFFICES ASSUME Init PROVE IInv
    OBVIOUS
  <1> USE ThreadLocalAssumption DEF Init
  <1>1. Constructed = {} /\ Taken = {}
    BY DEF Constructed, Taken
  <1>2. TypeOK
    BY DEF TypeOK
  <1>3. GhostsOK
    BY <1>1 DEF GhostsOK
  <1>4. OwnIndex /\ OwnBlock /\ InHeap /\ EndedEmpty /\ Reads
    BY <1>1 DEF OwnIndex, OwnBlock, InHeap, EndedEmpty, Reads
  <1>5. OthersAreLost
    BY <1>1, ReachableBy DEF OthersAreLost
  <1> QED  BY <1>2, <1>3, <1>4, <1>5 DEF IInv
-----------------------------------------------------------------------------
LEMMA ThreadEndsKeeps ==
  ASSUME IInv, NEW t \in Threads, ThreadEnds(t)
  PROVE  IInv'
  <1> USE ThreadLocalAssumption DEF ThreadEnds
  <1>1. Constructed' = Constructed /\ Taken' = Taken
    BY DEF Constructed, Taken
  <1>2. /\ slots' \in [Threads -> [Indexes -> Blocks \cup {Null}]]
        /\ \A i \in Indexes : slots'[t][i] = Null
        /\ \A s \in Threads \ {t}, i \in Indexes : slots'[s][i] = slots[s][i]
    BY DEF IInv, TypeOK
  <1>3. TypeOK'
    BY <1>2 DEF IInv, TypeOK
  <1>4. GhostsOK'
    BY <1>1 DEF IInv, GhostsOK
  <1>5. OwnIndex' /\ EndedEmpty'
    BY <1>1, <1>2 DEF IInv, OwnIndex, EndedEmpty, TypeOK
  <1>6. Taken \subseteq Indexes
    BY DEF Taken
  <1>7. OwnBlock' /\ InHeap'
    BY <1>1, <1>2, <1>6 DEF IInv, OwnBlock, InHeap
  <1>8. Reads'
    <2> SUFFICES ASSUME NEW s \in running', NEW o \in Constructed PROVE Read(s, o)' = written[s][o]
      BY <1>1 DEF Reads
    <2>1. s \in running /\ s \in Threads \ {t}
      BY DEF IInv, TypeOK
    <2>2. index_[o] # "out" => index_[o] \in Indexes
      BY TakenBy, <1>6 DEF IInv
    <2> QED  BY <1>2, <2>1, <2>2 DEF IInv, Reads, Read
  <1>9. OthersAreLost'
    <2>1. \A b : b \in Reachable' <=> b # Null /\ \E s \in running', i \in Taken : slots'[s][i] = b
      BY <1>1 DEF Reachable
    <2>2. \A b : b \in Reachable' <=> b \in Reachable /\ ~ \E i \in Taken : slots[t][i] = b
      BY <1>2, <1>6, <2>1, ReachableBy DEF IInv, TypeOK, OwnBlock
    <2>3. \A b : b \in orphans' <=> b \in orphans \/ (b # Null /\ \E i \in Taken : slots[t][i] = b)
      BY DEF IInv
    <2>4. \A i \in Taken : slots[t][i] # Null => slots[t][i] \in DOMAIN heap
      BY DEF IInv, InHeap
    <2>5. heap' = heap
      OBVIOUS
    <2> QED  BY <2>2, <2>3, <2>4, <2>5, ReachableBy DEF IInv, OthersAreLost
  <1> QED  BY <1>3, <1>4, <1>5, <1>7, <1>8, <1>9 DEF IInv

\* The index of the object is free again; what it has left in slots is not in use.
LEMMA DestroyKeeps ==
  ASSUME IInv, NEW t \in Threads, NEW o \in Objects, Destroy(t, o)
  PROVE  IInv'
  <1> USE ThreadLocalAssumption DEF Destroy
  <1>1. Constructed' = Constructed \ {o}
    BY DEF Constructed, IInv, TypeOK
  <1>2. Taken' = Taken \ {index_[o]}
    <2>1. \A p \in Constructed' : index_'[p] = index_[p]
      BY <1>1 DEF IInv, TypeOK, Constructed
    <2>2. \A p \in Constructed' : index_[p] \in Indexes => index_[p] # index_[o]
      BY <1>1 DEF IInv, OwnIndex
    <2>3. \A j : j \in Taken' <=> j \in Indexes /\ \E p \in Constructed' : index_[p] = j
      BY <2>1 DEF Taken
    <2>4. \A j : j \in Taken <=> j \in Indexes /\ \E p \in Constructed : index_[p] = j
      BY DEF Taken
    <2>5. ASSUME NEW j PROVE j \in Taken' <=> j \in Taken \ {index_[o]}
      <3> HIDE DEF Destroy
      <3> QED  BY <1>1, <2>2, <2>3, <2>4
    <2> QED  BY <2>5
  <1>3. TypeOK'
    BY DEF IInv, TypeOK, Release, Free
  <1>4. GhostsOK'
    BY <1>1 DEF IInv, GhostsOK
  <1>5. OwnIndex'
    BY <1>1 DEF IInv, OwnIndex, TypeOK, Constructed
  <1>6. OwnBlock' /\ EndedEmpty'
    BY <1>2 DEF IInv, OwnBlock, EndedEmpty
  <1>7. Taken \subseteq Indexes
    BY DEF Taken
  <1>8. CASE index_[o] = "out"
    <2>1. Taken' = Taken /\ UNCHANGED <<heap, orphans, slots, running, written>>
      BY <1>2, <1>7, <1>8
    <2>2. InHeap' /\ OthersAreLost'
      BY <2>1 DEF IInv, InHeap, OthersAreLost, Reachable
    <2>3. Reads'
      BY <1>1, <2>1 DEF IInv, Reads, Read, TypeOK, Constructed
    <2> QED  BY <1>3, <1>4, <1>5, <1>6, <2>2, <2>3 DEF IInv
  <1>9. CASE index_[o] # "out"
    <2> DEFINE i == index_[o]
               b == slots[t][i]
    <2>1. i \in Taken /\ t \in running
      BY <1>9, TakenBy DEF IInv
    <2>2. /\ DOMAIN heap' = DOMAIN heap \ {b}
          /\ \A c \in DOMAIN heap' : heap'[c] = heap[c]
          /\ Null \notin DOMAIN heap
      <3>1. Null \notin DOMAIN heap
        BY DEF IInv, TypeOK, Null
      <3>2. CASE b = Null
        BY <1>9, <3>1, <3>2 DEF Release
      <3>3. CASE b # Null
        BY <1>9, <3>1, <3>3 DEF Release, Free
      <3> QED  BY <3>2, <3>3
    <2>3. InHeap'
      <3> SUFFICES ASSUME NEW s \in Threads, NEW j \in Taken \ {i}
                   PROVE  slots[s][j] \in DOMAIN heap' \cup {Null}
        BY <1>2 DEF InHeap
      <3> QED  BY <2>1, <2>2 DEF IInv, InHeap, OwnBlock
    <2>4. Reads'
      <3> SUFFICES ASSUME NEW s \in running, NEW p \in Constructed \ {o} PROVE Read(s, p)' = written[s][p]
        BY <1>1 DEF Reads
      <3>1. index_'[p] = index_[p] /\ index_[p] # i /\ s \in Threads
        BY <1>9, <2>1, <1>7 DEF IInv, OwnIndex, TypeOK, Constructed
      <3>2. index_[p] = "out" \/ index_[p] \in Taken
        BY TakenBy DEF IInv
      <3>3. index_[p] # "out" /\ slots[s][index_[p]] # Null =>
              slots[s][index_[p]] \in DOMAIN heap /\ slots[s][index_[p]] # b
        BY <2>1, <3>1, <3>2 DEF IInv, InHeap, OwnBlock
      <3> QED  BY <2>2, <3>1, <3>3 DEF IInv, Reads, Read
    <2>5. OthersAreLost'
      <3>1. \A c : c \in Reachable' <=> c # Null /\ \E s \in running, j \in Taken \ {i} : slots[s][j] = c
        BY <1>2 DEF Reachable
      <3>2. \A c : c \in orphans' <=> c \in orphans \/ (c # Null /\ \E s \in Threads \ {t} : slots[s][i] = c)
        BY <1>9 DEF ValuesAt
      <3>3. running \subseteq Threads /\ \A s \in Threads \ running : slots[s][i] = Null
        BY <2>1, <1>7 DEF IInv, TypeOK, EndedEmpty
      <3>4. \A s \in Threads, j \in Taken : slots[s][j] # Null =>
               /\ slots[s][j] \in DOMAIN heap
               /\ \A r \in Threads, k \in Taken : slots[s][j] = slots[r][k] => s = r /\ j = k
        BY DEF IInv, InHeap, OwnBlock
      <3>5. \A c : c \in orphans <=> c \in DOMAIN heap /\ c \notin Reachable
        BY DEF IInv, OthersAreLost
      <3>6. ASSUME NEW c PROVE c \in DOMAIN heap' /\ c \notin Reachable' <=> c \in orphans'
        <4>1. CASE \E s \in Threads : slots[s][i] = c /\ c # Null
          BY <4>1, <2>1, <2>2, <3>1, <3>2, <3>3, <3>4, <3>5, ReachableBy
        <4>2. CASE ~ \E s \in Threads : slots[s][i] = c /\ c # Null
          BY <4>2, <2>1, <2>2, <3>1, <3>2, <3>3, <3>4, <3>5, ReachableBy
        <4> QED  BY <4>1, <4>2
      <3> QED  BY <3>6 DEF OthersAreLost
    <2> QED  BY <1>3, <1>4, <1>5, <1>6, <2>3, <2>4, <2>5 DEF IInv
  <1> QED  BY <1>8, <1>9
-----------------------------------------------------------------------------
\* What a construction does to objects and indexes, whatever it does to slots.
LEMMA Constructing ==
  ASSUME TypeOK, GhostsOK, OwnIndex,
         NEW o \in Objects \ used, NEW i \in Indexes \cup {"out"}, i \notin Taken,
         index_' = [index_ EXCEPT ![o] = i], used' = used \cup {o}
  PROVE  /\ index_' \in [Objects -> Indexes \cup {"out", "none"}] /\ used' \subseteq Objects
         /\ o \notin Constructed /\ Constructed' = Constructed \cup {o} /\ Constructed' \subseteq used'
         /\ index_'[o] = i /\ \A p \in Constructed : index_'[p] = index_[p]
         /\ \A j : j \in Taken' <=> j \in Taken \/ (j = i /\ i \in Indexes)
         /\ OwnIndex'
  <1> USE ThreadLocalAssumption
  <1>1. /\ index_' \in [Objects -> Indexes \cup {"out", "none"}] /\ used' \subseteq Objects
        /\ index_'[o] = i /\ \A p \in Objects \ {o} : index_'[p] = index_[p]
    BY DEF TypeOK
  <1>2. o \notin Constructed
    BY DEF GhostsOK
  <1>3. Constructed' = Constructed \cup {o}
    <2>1. i # "none"
      OBVIOUS
    <2> QED  BY <1>1, <2>1 DEF Constructed
  <1>4. Constructed' \subseteq used'
    BY <1>3 DEF GhostsOK
  <1>5. \A p \in Constructed : index_'[p] = index_[p]
    BY <1>1, <1>2 DEF Constructed
  <1>6. /\ \A j : j \in Taken <=> j \in Indexes /\ \E p \in Constructed : index_[p] = j
        /\ \A j : j \in Taken' <=> j \in Indexes /\ \E p \in Constructed' : index_'[p] = j
    BY DEF Taken
  <1>7. ASSUME NEW j PROVE j \in Taken' <=> j \in Taken \/ (j = i /\ i \in Indexes)
    BY <1>1, <1>3, <1>5, <1>6
  <1>8. OwnIndex'
    BY <1>1, <1>3, <1>5, <1>6 DEF OwnIndex
  <1> QED  BY <1>1, <1>2, <1>3, <1>4, <1>5, <1>7, <1>8

LEMMA ConstructKeeps ==
  ASSUME IInv, NEW t \in Threads, NEW o \in Objects, Construct(t, o)
  PROVE  IInv'
  <1> USE ThreadLocalAssumption
  <1>1. PICK i \in Indexes \cup {"out"} : TlsAlloc(i) /\ index_' = [index_ EXCEPT ![o] = i]
    BY DEF Construct
  <1>2. /\ o \notin used /\ used' = used \cup {o} /\ o \in Objects \ used
        /\ UNCHANGED <<heap, running, written, orphans>>
    BY DEF Construct
  <1>3. Taken \subseteq Indexes /\ i \notin Taken
    BY <1>1 DEF Taken, TlsAlloc
  <1>4. /\ index_' \in [Objects -> Indexes \cup {"out", "none"}] /\ used' \subseteq Objects
        /\ o \notin Constructed /\ Constructed' = Constructed \cup {o} /\ Constructed' \subseteq used'
        /\ index_'[o] = i /\ \A p \in Constructed : index_'[p] = index_[p]
        /\ \A j : j \in Taken' <=> j \in Taken \/ (j = i /\ i \in Indexes)
        /\ OwnIndex'
    BY <1>1, <1>2, <1>3, Constructing DEF IInv
  <1>5. /\ slots' \in [Threads -> [Indexes -> Blocks \cup {Null}]]
        /\ i \in Indexes => \A s \in Threads : slots'[s][i] = Null
        /\ \A s \in Threads, j \in Indexes : j # i => slots'[s][j] = slots[s][j]
    BY <1>1 DEF TlsAlloc, IInv, TypeOK
  <1>6. TypeOK'
    BY <1>2, <1>4, <1>5 DEF IInv, TypeOK
  <1>7. GhostsOK'
    BY <1>2, <1>4 DEF IInv, GhostsOK
  <1>8. OwnBlock'
    BY <1>3, <1>4, <1>5 DEF IInv, OwnBlock
  <1>9. InHeap' /\ EndedEmpty'
    BY <1>2, <1>3, <1>4, <1>5 DEF IInv, InHeap, EndedEmpty
  <1>10. Reads'
    <2> SUFFICES ASSUME NEW s \in running, NEW p \in Constructed' PROVE Read(s, p)' = written[s][p]
      BY <1>2 DEF Reads
    <2>1. s \in Threads
      BY DEF IInv, TypeOK
    <2>2. CASE p = o
      BY <1>2, <1>4, <1>5, <2>1, <2>2 DEF Read, IInv, GhostsOK
    <2>3. CASE p \in Constructed
      <3>1. index_[p] = "out" \/ index_[p] \in Taken
        BY <2>3, TakenBy DEF IInv
      <3>2. index_'[p] = index_[p] /\ (index_[p] # "out" => slots'[s][index_[p]] = slots[s][index_[p]])
        BY <1>3, <1>4, <1>5, <2>1, <2>3, <3>1
      <3> QED  BY <1>2, <2>3, <3>2 DEF IInv, Reads, Read
    <2> QED  BY <1>4, <2>2, <2>3
  <1>11. OthersAreLost'
    <2>1. \A c : c \in Reachable' <=> c # Null /\ \E s \in running, j \in Taken' : slots'[s][j] = c
      BY <1>2 DEF Reachable
    <2>2. running \subseteq Threads
      BY DEF IInv, TypeOK
    <2>3. ASSUME NEW c PROVE c \in Reachable' <=> c \in Reachable
      BY <1>3, <1>4, <1>5, <2>1, <2>2, ReachableBy
    <2> QED  BY <1>2, <2>3 DEF IInv, OthersAreLost
  <1> QED  BY <1>4, <1>6, <1>7, <1>8, <1>9, <1>10, <1>11 DEF IInv

\* A value that is allocated: its block was in no slot.
LEMMA Allocating ==
  ASSUME IInv, NEW b, NEW v \in Values, New(b, v)
  PROVE  /\ b \in Blocks /\ b # Null /\ b \notin DOMAIN heap
         /\ DOMAIN heap' = DOMAIN heap \cup {b} /\ heap'[b] = v
         /\ \A c \in DOMAIN heap : heap'[c] = heap[c]
         /\ \A s \in Threads, j \in Taken : slots[s][j] # b
  BY ThreadLocalAssumption DEF New, Null, IInv, InHeap

LEMMA ConstructWithKeeps ==
  ASSUME IInv, NEW t \in Threads, NEW o \in Objects, NEW v \in Values, ConstructWith(t, o, v)
  PROVE  IInv'
  <1> USE ThreadLocalAssumption
  <1>1. CASE Construct(t, o)
    BY <1>1, ConstructKeeps
  <1>2. CASE ~Construct(t, o)
    <2>1. PICK i \in Indexes, b \in Blocks :
             /\ index_' = [index_ EXCEPT ![o] = i]
             /\ i \notin Taken
             /\ New(b, v)
             /\ slots' = [s \in Threads |-> [slots[s] EXCEPT ![i] = IF s = t THEN b ELSE Null]]
             /\ written' = [written EXCEPT ![t][o] = v]
      BY <1>2 DEF ConstructWith, Construct
    <2>2. /\ o \notin used /\ used' = used \cup {o} /\ o \in Objects \ used
          /\ t \in running /\ UNCHANGED <<running, orphans>>
      BY DEF ConstructWith
    <2>3. /\ index_' \in [Objects -> Indexes \cup {"out", "none"}] /\ used' \subseteq Objects
          /\ o \notin Constructed /\ Constructed' = Constructed \cup {o} /\ Constructed' \subseteq used'
          /\ index_'[o] = i /\ \A p \in Constructed : index_'[p] = index_[p]
          /\ \A j : j \in Taken' <=> j \in Taken \/ (j = i /\ i \in Indexes)
          /\ OwnIndex'
      BY <2>1, <2>2, Constructing DEF IInv
    <2>4. /\ b \in Blocks /\ b # Null /\ b \notin DOMAIN heap
          /\ DOMAIN heap' = DOMAIN heap \cup {b} /\ heap'[b] = v
          /\ \A c \in DOMAIN heap : heap'[c] = heap[c]
          /\ \A s \in Threads, j \in Taken : slots[s][j] # b
      BY <2>1, Allocating
    <2>5. /\ slots' \in [Threads -> [Indexes -> Blocks \cup {Null}]]
          /\ slots'[t][i] = b
          /\ \A s \in Threads \ {t} : slots'[s][i] = Null
          /\ \A s \in Threads, j \in Indexes \ {i} : slots'[s][j] = slots[s][j]
      BY <2>1 DEF IInv, TypeOK
    <2>6. /\ written' \in [Threads -> [Objects -> Values]]
          /\ written'[t][o] = v
          /\ \A s \in Threads, p \in Objects : s # t \/ p # o => written'[s][p] = written[s][p]
      BY <2>1 DEF IInv, GhostsOK
    <2>7. Taken \subseteq Indexes /\ running \subseteq Threads
      BY DEF Taken, IInv, TypeOK
    <2>8. TypeOK'
      BY <2>2, <2>3, <2>4, <2>5 DEF IInv, TypeOK
    <2>9. GhostsOK'
      BY <2>2, <2>3, <2>6 DEF IInv, GhostsOK
    <2>10. OwnBlock'
      BY <2>3, <2>4, <2>5, <2>7 DEF IInv, OwnBlock
    <2>11. InHeap' /\ EndedEmpty'
      BY <2>2, <2>3, <2>4, <2>5, <2>7 DEF IInv, InHeap, EndedEmpty
    <2>12. Reads'
      <3> SUFFICES ASSUME NEW s \in running, NEW p \in Constructed' PROVE Read(s, p)' = written'[s][p]
        BY <2>2 DEF Reads
      <3>1. CASE p = o
        <4>1. i # "out" /\ written[s][o] = DefaultValue
          BY <2>2, <2>7 DEF IInv, GhostsOK
        <4>2. CASE s = t
          BY <2>3, <2>4, <2>5, <2>6, <3>1, <4>1, <4>2 DEF Read
        <4>3. CASE s # t
          BY <2>3, <2>5, <2>6, <2>7, <3>1, <4>1, <4>3 DEF Read
        <4> QED  BY <4>2, <4>3
      <3>2. CASE p \in Constructed
        <4>1. index_[p] = "out" \/ index_[p] \in Taken
          BY <3>2, TakenBy DEF IInv
        <4>2. index_'[p] = index_[p] /\ (index_[p] # "out" => slots'[s][index_[p]] = slots[s][index_[p]])
          BY <2>1, <2>3, <2>5, <2>7, <3>2, <4>1
        <4>3. index_[p] # "out" => slots[s][index_[p]] \in DOMAIN heap \cup {Null}
          BY <2>7, <4>1 DEF IInv, InHeap
        <4>4. written'[s][p] = written[s][p]
          BY <2>3, <2>6, <2>7, <3>2 DEF Constructed
        <4> QED  BY <2>4, <3>2, <4>2, <4>3, <4>4 DEF IInv, Reads, Read
      <3> QED  BY <2>3, <3>1, <3>2
    <2>13. OthersAreLost'
      <3>1. \A c : c \in Reachable' <=> c # Null /\ \E s \in running, j \in Taken' : slots'[s][j] = c
        BY <2>2 DEF Reachable
      <3>2. ASSUME NEW c PROVE c \in Reachable' <=> c \in Reachable \/ c = b
        <4>1. b \in Reachable'
          BY <2>2, <2>3, <2>4, <2>5, <3>1
        <4>2. ASSUME c \in Reachable PROVE c \in Reachable'
          <5>1. PICK s \in running, j \in Taken : c # Null /\ slots[s][j] = c
            BY <4>2, ReachableBy
          <5>2. s \in Threads /\ j \in Indexes \ {i} /\ j \in Taken'
            BY <2>1, <2>3, <2>7
          <5> QED  BY <2>5, <3>1, <5>1, <5>2
        <4>3. ASSUME c \in Reachable', c # b PROVE c \in Reachable
          <5>1. PICK s \in running, j \in Taken' : c # Null /\ slots'[s][j] = c
            BY <4>3, <3>1
          <5>2. j # i /\ j \in Taken /\ s \in Threads
            BY <2>3, <2>5, <2>7, <4>3, <5>1
          <5> QED  BY <2>5, <2>7, <5>1, <5>2, ReachableBy
        <4> QED  BY <4>1, <4>2, <4>3
      <3>3. b \notin orphans
        BY <2>4 DEF IInv, OthersAreLost
      <3> QED  BY <2>2, <2>4, <3>2, <3>3 DEF IInv, OthersAreLost
    <2> QED  BY <2>3, <2>8, <2>9, <2>10, <2>11, <2>12, <2>13 DEF IInv
  <1> QED  BY <1>1, <1>2
-----------------------------------------------------------------------------
\* An assignment changes the value in the slot of its thread, or fills the slot.
LEMMA AssignKeeps ==
  ASSUME IInv, NEW t \in Threads, NEW o \in Objects, NEW v \in Values, Assign(t, o, v)
  PROVE  IInv'
  <1> USE ThreadLocalAssumption
  <1> DEFINE i == index_[o]
  <1>1. t \in running /\ o \in Constructed /\ UNCHANGED <<index_, running, used, orphans>>
    BY DEF Assign
  <1>2. Constructed' = Constructed /\ Taken' = Taken /\ Taken \subseteq Indexes /\ running \subseteq Threads
    BY <1>1 DEF Constructed, Taken, IInv, TypeOK
  <1>3. CASE i = "out"
    <2>1. UNCHANGED vars
      BY <1>1, <1>3 DEF Assign, vars
    <2> QED  BY <2>1, <1>2 DEF vars, IInv, TypeOK, GhostsOK, OwnIndex, OwnBlock, InHeap, EndedEmpty,
                               Reads, Read, OthersAreLost, Reachable
  <1>4. CASE i # "out"
    <2>1. i \in Taken /\ Store(t, i, v) /\ written' = [written EXCEPT ![t][o] = v]
      BY <1>1, <1>4, TakenBy DEF Assign, IInv
    <2> DEFINE b == slots'[t][i]
    <2>2. /\ slots' \in [Threads -> [Indexes -> Blocks \cup {Null}]]
          /\ \A s \in Threads, j \in Indexes : s # t \/ j # i => slots'[s][j] = slots[s][j]
          /\ b \in DOMAIN heap' /\ b # Null /\ heap'[b] = v
          /\ DOMAIN heap' = DOMAIN heap \cup {b} /\ DOMAIN heap' \subseteq Blocks
          /\ \A c \in DOMAIN heap \ {b} : heap'[c] = heap[c]
          /\ \A s \in Threads, j \in Taken : slots[s][j] = b => s = t /\ j = i
          /\ slots[t][i] = b \/ (slots[t][i] = Null /\ b \notin DOMAIN heap)
      <3>1. CASE slots[t][i] = Null
        <4>1. PICK a \in Blocks : New(a, v) /\ slots' = [slots EXCEPT ![t][i] = a]
          BY <2>1, <3>1 DEF Store
        <4>2. /\ a \in Blocks /\ a # Null /\ a \notin DOMAIN heap
              /\ DOMAIN heap' = DOMAIN heap \cup {a} /\ heap'[a] = v
              /\ \A c \in DOMAIN heap : heap'[c] = heap[c]
              /\ \A s \in Threads, j \in Taken : slots[s][j] # a
          BY <4>1, Allocating
        <4>3. /\ slots' \in [Threads -> [Indexes -> Blocks \cup {Null}]] /\ b = a
              /\ \A s \in Threads, j \in Indexes : s # t \/ j # i => slots'[s][j] = slots[s][j]
          BY <1>2, <2>1, <4>1 DEF IInv, TypeOK
        <4> QED  BY <3>1, <4>2, <4>3 DEF IInv, TypeOK
      <3>2. CASE slots[t][i] # Null
        <4>1. heap' = [heap EXCEPT ![b] = v] /\ slots' = slots
          BY <2>1, <3>2 DEF Store
        <4>2. b \in DOMAIN heap
          BY <2>1, <3>2, <4>1 DEF IInv, InHeap
        <4>3. \A s \in Threads, j \in Taken : slots[s][j] = b => s = t /\ j = i
          BY <2>1, <3>2, <4>1 DEF IInv, OwnBlock
        <4> QED  BY <3>2, <4>1, <4>2, <4>3 DEF IInv, TypeOK
      <3> QED  BY <3>1, <3>2
    <2>3. /\ written' \in [Threads -> [Objects -> Values]]
          /\ written'[t][o] = v
          /\ \A s \in Threads, p \in Objects : s # t \/ p # o => written'[s][p] = written[s][p]
      BY <2>1 DEF IInv, GhostsOK
    <2>4. TypeOK'
      BY <1>1, <2>2 DEF IInv, TypeOK
    <2>5. GhostsOK'
      <3>1. o \in used
        BY <1>1 DEF IInv, GhostsOK
      <3> QED  BY <1>1, <1>2, <2>3, <3>1 DEF IInv, GhostsOK
    <2>6. OwnIndex'
      BY <1>1, <1>2 DEF IInv, OwnIndex
    <2>7. OwnBlock' /\ InHeap' /\ EndedEmpty'
      BY <1>1, <1>2, <2>1, <2>2, SMTT(60) DEF IInv, OwnBlock, InHeap, EndedEmpty
    <2>8. Reads'
      <3> SUFFICES ASSUME NEW s \in running, NEW p \in Constructed PROVE Read(s, p)' = written'[s][p]
        BY <1>1, <1>2 DEF Reads
      <3>1. index_[p] = "out" \/ index_[p] \in Taken
        BY TakenBy DEF IInv
      <3>2. CASE s = t /\ p = o
        BY <1>1, <1>4, <2>2, <2>3, <3>2 DEF Read
      <3>3. CASE s # t \/ p # o
        <4>1. written'[s][p] = written[s][p] /\ Read(s, p) = written[s][p]
          BY <1>2, <2>3, <3>3 DEF IInv, Reads, Constructed
        <4>2. index_[p] # "out" => s # t \/ index_[p] # i
          BY <1>1, <1>2, <2>1, <3>1, <3>3 DEF IInv, OwnIndex
        <4>3. index_[p] # "out" => /\ slots'[s][index_[p]] = slots[s][index_[p]]
                                   /\ slots[s][index_[p]] # b
                                   /\ slots[s][index_[p]] \in DOMAIN heap \cup {Null}
          BY <1>2, <2>2, <3>1, <4>2 DEF IInv, InHeap
        <4> QED  BY <1>1, <2>2, <4>1, <4>3 DEF Read
      <3> QED  BY <3>2, <3>3
    <2>9. OthersAreLost'
      <3>1. \A c : c \in Reachable' <=> c # Null /\ \E s \in running, j \in Taken : slots'[s][j] = c
        BY <1>1, <1>2 DEF Reachable
      <3>2. ASSUME NEW c PROVE c \in Reachable' <=> c \in Reachable \/ c = b
        BY <1>1, <1>2, <2>1, <2>2, <3>1, ReachableBy
      <3>3. b \notin orphans
        BY <1>1, <2>1, <2>2, ReachableBy DEF IInv, OthersAreLost
      <3> QED  BY <1>1, <2>2, <3>2, <3>3 DEF IInv, OthersAreLost
    <2> QED  BY <2>4, <2>5, <2>6, <2>7, <2>8, <2>9 DEF IInv
  <1> QED  BY <1>3, <1>4

LEMMA Stutters == IInv /\ UNCHANGED vars => IInv'
  BY DEF vars, IInv, TypeOK, GhostsOK, OwnIndex, OwnBlock, InHeap, EndedEmpty, Reads, Read,
         OthersAreLost, Reachable, Taken, Constructed
-----------------------------------------------------------------------------
\* The inductive invariant: what TypeOK leaves out of the ghosts, one object per index,
\* one slot per block, slots that point to values, and what threads read and lose.
THEOREM InductiveInvariant == Spec => []IInv
  <1>1. IInv /\ [Next]_vars => IInv'
    <2> SUFFICES ASSUME IInv, [Next]_vars PROVE IInv'
      OBVIOUS
    <2>1. ASSUME NEW t \in Threads, ThreadEnds(t) PROVE IInv'
      BY <2>1, ThreadEndsKeeps
    <2>2. ASSUME NEW t \in Threads, NEW o \in Objects, Construct(t, o) PROVE IInv'
      BY <2>2, ConstructKeeps
    <2>3. ASSUME NEW t \in Threads, NEW o \in Objects, Destroy(t, o) PROVE IInv'
      BY <2>3, DestroyKeeps
    <2>4. ASSUME NEW t \in Threads, NEW o \in Objects, NEW v \in Values,
                 ConstructWith(t, o, v) \/ Assign(t, o, v)
          PROVE  IInv'
      BY <2>4, ConstructWithKeeps, AssignKeeps
    <2>5. CASE UNCHANGED vars
      BY <2>5, Stutters
    <2> QED  BY <2>1, <2>2, <2>3, <2>4, <2>5 DEF Next
  <1> QED  BY Initially, <1>1, PTL DEF Spec

\* However many threads use, outlive and destroy however many objects: a thread reads
\* what it assigned to an object or the default, and exactly the values of the threads
\* that do not destroy the object are lost (thread_local_storage.hpp 29-83).
THEOREM EveryValueBelongs == Spec => []ValuesBelongToThreads
  BY InductiveInvariant, InvariantSuffices, PTL
-----------------------------------------------------------------------------
\* The environments of a Java virtual machine, which threads hold, too.
\* What an object shares, whatever its number.
IsEnv(e) == e.kind \in {"jvm", "null", "jar"} /\ e.thread \in JavaThreads
JavaTypes == /\ vm \in {"none", "running", "ending", "destroyed"}
             /\ attached \subseteq JavaThreads /\ elsewhere \subseteq JavaThreads
             /\ DOMAIN holds = Enviroments
             /\ \A o \in Enviroments : holds[o] = Java!Invalid \/ IsEnv(holds[o])

\* What does not depend on who lets go of what: the environment that destroys the
\* machine is held just as long as nobody is in DestroyJavaVM.
JavaStages ==
    /\ vm = "none" => /\ attached = {} /\ elsewhere = {}
                      /\ \A e \in Java!Shared : e.kind = "null"
    /\ vm # "running" => \A e \in Java!Shared : e.kind # "jar"
    /\ \A e, f \in Java!Shared : e.kind = "jar" /\ f.kind = "jar" => e = f
    /\ vm \in {"none", "running"} => ending = {}

JavaInv == JavaTypes /\ JavaStages /\ Java!AttachedWhileHeld

LEMMA InvalidIs == \A e : IsEnv(e) => e # Java!Invalid
  BY DEF IsEnv, Java!Invalid

LEMMA NewIs ==
  ASSUME NEW kind \in {"jvm", "null", "jar"}, NEW t \in JavaThreads
  PROVE  LET e == Java!New(kind, t) IN IsEnv(e) /\ e.kind = kind /\ e.thread = t
  BY DEF Java!New, IsEnv

LEMMA SharedIs == \A e : e \in Java!Shared <=> e # Java!Invalid /\ \E o \in Enviroments : holds[o] = e
  BY DEF Java!Shared

\* What is shared after Replace: the new one, and what was before but for an
\* environment that was let go.
LEMMA SharedAfter ==
  ASSUME JavaTypes, NEW o \in Enviroments, NEW env, holds' = [holds EXCEPT ![o] = env]
  PROVE  \A e : e \in Java!Shared' <=>
            /\ e # Java!Invalid
            /\ e = env \/ (e \in Java!Shared /\ ~(Java!LetsGo(o, env) /\ e = holds[o]))
  <1>1. /\ DOMAIN holds = Enviroments /\ holds'[o] = env
        /\ \A p \in Enviroments : p # o => holds'[p] = holds[p]
    BY DEF JavaTypes
  <1>2. \A e : e \in Java!Shared' <=> e # Java!Invalid /\ \E p \in Enviroments : holds'[p] = e
    BY DEF Java!Shared
  <1>3. ASSUME NEW e, e # Java!Invalid
        PROVE  (\E p \in Enviroments : holds'[p] = e) <=>
                  e = env \/ (e \in Java!Shared /\ ~(Java!LetsGo(o, env) /\ e = holds[o]))
    <2>1. CASE e = env
      BY <1>1, <2>1
    <2>2. CASE e # env /\ e # holds[o]
      BY <1>1, <1>3, <2>2, SharedIs
    <2>3. CASE e # env /\ e = holds[o]
      <3>1. e \in Java!Shared
        BY <1>3, <2>3, SharedIs
      <3>2. Java!LetsGo(o, env) <=> Java!Holders(e) = {o}
        BY <1>3, <2>3 DEF Java!LetsGo
      <3>3. Java!Holders(e) = {o} <=> ~ \E p \in Enviroments : p # o /\ holds[p] = e
        BY <2>3 DEF Java!Holders
      <3>4. (\E p \in Enviroments : holds'[p] = e) <=> \E p \in Enviroments : p # o /\ holds[p] = e
        BY <1>1, <2>3
      <3> QED  BY <2>3, <3>1, <3>2, <3>3, <3>4
    <2> QED  BY <2>1, <2>2, <2>3
  <1> QED  BY <1>2, <1>3

\* The threads attached before object o gives up what it shares: a thread that asks
\* a running machine is.
Asked(t, env, now) ==
    \/ env \in Java!Shared \cup {Java!Invalid} /\ now = attached
    \/ env.kind = "null" /\ env.thread = t /\ now = attached
    \/ /\ env.kind = "jvm" /\ env.thread = t /\ vm # "none"
       /\ now = IF Java!Running THEN attached \cup {t} ELSE attached

LEMMA ReplaceKeeps ==
  ASSUME JavaInv, NEW t \in JavaThreads, NEW o \in Enviroments, NEW env, NEW now,
         env = Java!Invalid \/ IsEnv(env), Java!Free(t), Asked(t, env, now),
         Java!Replace(t, o, env, now), vm' = Java!Onwards
  PROVE  JavaInv'
  <1> DEFINE old == holds[o]
             last == Java!LetsGo(o, env)
             others == {e \in Java!Shared \cup {env} : e # Java!Invalid /\ e # old /\ e.thread = t}
  <1>1. /\ holds' = [holds EXCEPT ![o] = env]
        /\ attached' = IF last /\ old.kind = "jvm" /\ Java!Running THEN now \ {t} ELSE now
        /\ ending' = IF last /\ old.kind = "jar" THEN {t} ELSE ending
        /\ UNCHANGED elsewhere
        /\ strays' = IF last /\ old.kind # "null"
                             /\ (old.thread # t \/ others # {} \/ t \in elsewhere)
                     THEN strays \cup {t} ELSE strays
    BY DEF Java!Replace
  <1>2. vm' = IF ending' # ending THEN "ending" ELSE vm
    BY DEF Java!Onwards
  <1>3. JavaTypes /\ JavaStages /\ t \notin ending /\ (Java!Invalid.kind = "invalid")
    BY DEF JavaInv, Java!Free, Java!Invalid
  <1>4. last => old \in Java!Shared /\ IsEnv(old) /\ old # env
    BY <1>3, SharedIs DEF Java!LetsGo, JavaTypes
  <1>5. \A e : e \in Java!Shared' <=>
            e # Java!Invalid /\ (e = env \/ (e \in Java!Shared /\ ~(last /\ e = old)))
    BY <1>1, <1>3, SharedAfter
  <1>6. \A e \in Java!Shared : IsEnv(e) /\ e # Java!Invalid
    BY <1>3, SharedIs DEF JavaTypes
  <1>7. now \subseteq JavaThreads /\ (vm = "none" => now = {} /\ (env # Java!Invalid => env.kind = "null"))
        /\ (env # Java!Invalid /\ env.kind = "jar" => env \in Java!Shared)
    BY <1>3 DEF Asked, JavaTypes, JavaStages
  <1> HIDE DEF last, others, old
  <1>8. JavaTypes'
    <2>1. \A p \in Enviroments : holds'[p] = Java!Invalid \/ IsEnv(holds'[p])
      BY <1>1, <1>3 DEF JavaTypes
    <2>2. DOMAIN holds' = Enviroments
      BY <1>1, <1>3 DEF JavaTypes
    <2>3. attached' \subseteq JavaThreads /\ elsewhere' \subseteq JavaThreads
      BY <1>1, <1>3, <1>7 DEF JavaTypes
    <2>4. vm' \in {"none", "running", "ending", "destroyed"}
      BY <1>2, <1>3 DEF JavaTypes
    <2> QED  BY <2>1, <2>2, <2>3, <2>4 DEF JavaTypes, Java!Invalid
  <1>9. JavaStages'
    <2>1. CASE last /\ old.kind = "jar"
      <3>1. ending' = {t} /\ vm' = "ending"
        BY <1>1, <1>2, <1>3, <2>1
      <3>2. \A e \in Java!Shared' : e.kind # "jar"
        BY <1>3, <1>4, <1>5, <1>6, <1>7, <2>1 DEF JavaStages
      <3> QED  BY <3>1, <3>2 DEF JavaStages
    <2>2. CASE ~(last /\ old.kind = "jar")
      <3>1. ending' = ending /\ vm' = vm
        BY <1>1, <1>2, <2>2
      <3>2. \A e \in Java!Shared' : e.kind = "jar" => e \in Java!Shared
        BY <1>5, <1>7
      <3>3. vm = "none" => /\ attached' = {} /\ elsewhere' = {}
                           /\ \A e \in Java!Shared' : e.kind = "null"
        BY <1>1, <1>3, <1>5, <1>7 DEF JavaStages
      <3> QED  BY <1>3, <3>1, <3>2, <3>3 DEF JavaStages
    <2> QED  BY <2>1, <2>2
  <1>10. Java!AttachedWhileHeld'
    <2> SUFFICES ASSUME vm' \in {"running", "ending"}, strays' = {}, NEW s \in JavaThreads \ ending'
                 PROVE  s \in attached' <=>
                           \/ s \in elsewhere'
                           \/ \E e \in Java!Shared' : Java!Usable(e) /\ e.thread = s
      BY DEF Java!AttachedWhileHeld, Java!Running, Java!Usable
    <2>1. strays = {} /\ (last /\ old.kind # "null" => old.thread = t /\ others = {} /\ t \notin elsewhere)
      BY <1>1
    <2>2. Java!Running /\ s \notin ending
      BY <1>1, <1>2, <1>3, <1>4 DEF JavaStages, Java!Running
    <2>3. s \in attached <=> s \in elsewhere \/ \E e \in Java!Shared : Java!Usable(e) /\ e.thread = s
      BY <2>1, <2>2 DEF JavaInv, Java!AttachedWhileHeld
    <2>4. s \in now <=> \/ s \in elsewhere
                        \/ \E e \in Java!Shared \cup {env} :
                              e # Java!Invalid /\ Java!Usable(e) /\ e.thread = s
      <3>1. CASE env \in Java!Shared \cup {Java!Invalid} /\ now = attached
        BY <1>6, <2>3, <3>1
      <3>2. CASE env.kind = "null" /\ now = attached
        BY <1>6, <2>3, <3>2 DEF Java!Usable
      <3>3. CASE env.kind = "jvm" /\ env.thread = t /\ now = attached \cup {t}
        <4>1. env # Java!Invalid /\ Java!Usable(env)
          BY <1>3, <3>3 DEF Java!Usable
        <4>2. CASE s = t
          BY <3>3, <4>1, <4>2
        <4>3. CASE s # t
          BY <1>6, <2>3, <3>3, <4>3
        <4> QED  BY <4>2, <4>3
      <3> QED  BY <2>2, <3>1, <3>2, <3>3 DEF Asked
    <2>5. CASE last /\ old.kind # "null"
      <3>1. /\ \A e \in Java!Shared \cup {env} : e # Java!Invalid /\ e # old => e.thread # t
            /\ old.thread = t /\ t \notin elsewhere
        BY <2>1, <2>5 DEF others
      <3>2. CASE s = t
        <4>1. old.kind = "jvm"
          BY <1>1, <1>4, <2>5, <3>2 DEF IsEnv
        <4>2. s \notin attached'
          BY <1>1, <2>2, <2>5, <3>2, <4>1
        <4> QED  BY <1>1, <1>4, <1>5, <2>5, <3>1, <3>2, <4>2
      <3>3. CASE s # t
        <4>1. s \in attached' <=> s \in now
          BY <1>1, <3>3
        <4> QED  BY <1>1, <1>5, <1>6, <2>4, <3>1, <3>3, <4>1
      <3> QED  BY <3>2, <3>3
    <2>6. CASE ~(last /\ old.kind # "null")
      <3>1. attached' = now
        BY <1>1, <2>6
      <3> QED  BY <1>1, <1>5, <1>6, <2>4, <2>6, <3>1 DEF Java!Usable
    <2> QED  BY <2>5, <2>6
  <1> QED  BY <1>8, <1>9, <1>10 DEF JavaInv

LEMMA JARKeeps ==
  ASSUME JavaInv, NEW t \in JavaThreads, NEW o \in Enviroments, Java!Free(t), vm = "none",
         Java!Replace(t, o, Java!New("jar", t), {t}), vm' = "running"
  PROVE  JavaInv'
  <1> DEFINE env == Java!New("jar", t)
             last == Java!LetsGo(o, env)
  <1>1. IsEnv(env) /\ env.kind = "jar" /\ env.thread = t
    BY NewIs
  <1>2. JavaTypes /\ JavaStages /\ (Java!Invalid.kind = "invalid")
    BY DEF JavaInv, Java!Invalid
  <1>3. /\ attached = {} /\ elsewhere = {} /\ ending = {}
        /\ \A e \in Java!Shared : e.kind = "null" /\ e # Java!Invalid
    BY <1>2, SharedIs DEF JavaStages
  <1>4. last => holds[o].kind = "null"
    BY <1>3, SharedIs DEF Java!LetsGo
  <1> HIDE DEF env
  <1>5. /\ holds' = [holds EXCEPT ![o] = env]
        /\ attached' = {t} /\ ending' = {} /\ elsewhere' = {}
    <2>1. Java!Replace(t, o, env, {t})
      BY DEF env
    <2> QED  BY <1>3, <1>4, <2>1 DEF Java!Replace
  <1> HIDE DEF last
  <1>6. \A e : e \in Java!Shared' <=>
            e # Java!Invalid /\ (e = env \/ (e \in Java!Shared /\ ~(last /\ e = holds[o])))
    BY <1>2, <1>5, SharedAfter DEF last
  <1>7. JavaTypes'
    BY <1>1, <1>2, <1>5 DEF JavaTypes, Java!Invalid
  <1>8. JavaStages'
    BY <1>1, <1>3, <1>5, <1>6 DEF JavaStages
  <1>9. Java!AttachedWhileHeld'
    <2>1. env \in Java!Shared' /\ \A e \in Java!Shared' : e # env => e.kind = "null"
      BY <1>1, <1>2, <1>3, <1>6
    <2> QED  BY <1>1, <1>5, <2>1 DEF Java!AttachedWhileHeld, Java!Usable
  <1> QED  BY <1>7, <1>8, <1>9 DEF JavaInv

LEMMA JavaInit == Java!Init => JavaInv
  <1> SUFFICES ASSUME Java!Init PROVE JavaInv
    OBVIOUS
  <1>1. Java!Shared = {} /\ attached = elsewhere /\ ending = {} /\ vm \in {"none", "running"}
        /\ elsewhere \subseteq JavaThreads /\ (vm = "none" => elsewhere = {})
    BY DEF Java!Init, Java!Shared
  <1>2. JavaTypes
    BY <1>1 DEF Java!Init, JavaTypes
  <1> QED  BY <1>1, <1>2 DEF JavaInv, JavaStages, Java!AttachedWhileHeld

LEMMA JavaStep == JavaInv /\ [Java!Next]_(Java!vars) => JavaInv'
  <1> SUFFICES ASSUME JavaInv, [Java!Next]_(Java!vars) PROVE JavaInv'
    OBVIOUS
  <1>1. ASSUME NEW t \in JavaThreads, NEW o \in Enviroments, Java!GetEnviromentFromJVM(t, o)
        PROVE  JavaInv'
    <2> DEFINE env == Java!New("jvm", t)
               now == IF Java!Running THEN attached \cup {t} ELSE attached
    <2>1. IsEnv(env) /\ env.kind = "jvm" /\ env.thread = t
      BY NewIs
    <2>2. /\ Java!Free(t) /\ vm # "none" /\ Java!Replace(t, o, env, now) /\ vm' = Java!Onwards
          /\ Asked(t, env, now)
      BY <1>1, <2>1 DEF Java!GetEnviromentFromJVM, Asked
    <2> HIDE DEF env, now
    <2> QED  BY <2>1, <2>2, ReplaceKeeps
  <1>2. ASSUME NEW t \in JavaThreads, NEW o \in Enviroments, Java!GetEnviromentFromNull(t, o)
        PROVE  JavaInv'
    <2> DEFINE env == Java!New("null", t)
    <2>1. IsEnv(env) /\ env.kind = "null" /\ env.thread = t
      BY NewIs
    <2>2. /\ Java!Free(t) /\ Java!Replace(t, o, env, attached) /\ vm' = Java!Onwards
          /\ Asked(t, env, attached)
      BY <1>2, <2>1 DEF Java!GetEnviromentFromNull, Asked
    <2> HIDE DEF env
    <2> QED  BY <2>1, <2>2, ReplaceKeeps
  <1>3. ASSUME NEW t \in JavaThreads, NEW o \in Enviroments, Java!GetEnviromentFromJAR(t, o)
        PROVE  JavaInv'
    <2>1. CASE vm = "none"
      BY <1>3, <2>1, JARKeeps DEF Java!GetEnviromentFromJAR
    <2>2. CASE vm # "none"
      <3>1. /\ Java!Free(t) /\ Java!Replace(t, o, Java!Invalid, attached) /\ vm' = Java!Onwards
            /\ Asked(t, Java!Invalid, attached)
        BY <1>3, <2>2 DEF Java!GetEnviromentFromJAR, Asked
      <3> QED  BY <3>1, ReplaceKeeps
    <2> QED  BY <2>1, <2>2
  <1>4. ASSUME NEW t \in JavaThreads, NEW o \in Enviroments, Java!Destruct(t, o)
        PROVE  JavaInv'
    <2>1. /\ Java!Free(t) /\ Java!Replace(t, o, Java!Invalid, attached) /\ vm' = Java!Onwards
          /\ Asked(t, Java!Invalid, attached)
      BY <1>4 DEF Java!Destruct, Asked
    <2> QED  BY <2>1, ReplaceKeeps
  <1>5. ASSUME NEW t \in JavaThreads, NEW o \in Enviroments, NEW p \in Enviroments, Java!Copy(t, o, p)
        PROVE  JavaInv'
    <2> DEFINE env == holds[p]
    <2>1. env = Java!Invalid \/ IsEnv(env)
      BY DEF JavaInv, JavaTypes
    <2>2. env \in Java!Shared \cup {Java!Invalid}
      BY SharedIs
    <2>3. /\ Java!Free(t) /\ Java!Replace(t, o, env, attached) /\ vm' = Java!Onwards
          /\ Asked(t, env, attached)
      BY <1>5, <2>2 DEF Java!Copy, Asked
    <2> HIDE DEF env
    <2> QED  BY <2>1, <2>3, ReplaceKeeps
  <1>6. CASE Java!DestroyJavaVM
    <2>1. /\ vm = "ending" /\ vm' = "destroyed" /\ attached' = {} /\ ending' = {}
          /\ UNCHANGED <<holds, wild, elsewhere, strays>>
      BY <1>6 DEF Java!DestroyJavaVM
    <2>2. Java!Shared' = Java!Shared
      BY <2>1 DEF Java!Shared
    <2>3. JavaTypes' /\ JavaStages'
      BY <2>1, <2>2 DEF JavaInv, JavaTypes, JavaStages
    <2>4. Java!AttachedWhileHeld'
      BY <2>1 DEF Java!AttachedWhileHeld, Java!Running
    <2> QED  BY <2>3, <2>4 DEF JavaInv
  <1>7. CASE UNCHANGED Java!vars
    <2>1. UNCHANGED <<vm, attached, holds, ending, wild, elsewhere, strays>>
      BY <1>7 DEF Java!vars
    <2>2. Java!Shared' = Java!Shared
      BY <2>1 DEF Java!Shared
    <2> QED  BY <2>1, <2>2
             DEF JavaInv, JavaTypes, JavaStages, Java!AttachedWhileHeld, Java!Running
  <1> QED  BY <1>1, <1>2, <1>3, <1>4, <1>5, <1>6, <1>7 DEF Java!Next

\* The inductive invariant of the environments.
THEOREM JavaInvariant == Java!Spec => []JavaInv
  BY JavaInit, JavaStep, PTL DEF Java!Spec

\* As long as no thread strays, a thread is attached to the virtual machine just while
\* it holds an environment (JNIEnviroment.cpp 53-64, 116).
THEOREM AttachedByHolding == Java!Spec => []AttachedWhileHeld
  <1>1. JavaInv => AttachedWhileHeld
    BY DEF JavaInv, AttachedWhileHeld
  <1> QED  BY <1>1, JavaInvariant, PTL
-----------------------------------------------------------------------------
\* The monitor: who holds its mutex before, during and after a wait.

\* A thread that waits called with the mutex held.  If it held it once, it has
\* given it up altogether; if more often, it has all its levels but one.
WaitInv == \A t \in Lockers :
              waiting[t] # "no" =>
                  /\ held[t] >= 1
                  /\ IF held[t] = 1 THEN owner # t
                                    ELSE owner = t /\ depth = held[t] - 1

MonitorInv == Mon!TypeOK /\ WaitInv

LEMMA MonitorInit ==
    ASSUME Mon!MonitorAssumption, Mon!Init
    PROVE  MonitorInv
  BY DEF Mon!MonitorAssumption, Mon!Init, MonitorInv, Mon!TypeOK, WaitInv

\* The steps that move the mutex.
LEMMA MonitorHoldStep ==
    ASSUME Mon!MonitorAssumption, MonitorInv, NEW t \in Lockers,
           Mon!lock(t) \/ Mon!unlock(t) \/ Mon!wait(t) \/ Mon!ReturnFromWait(t)
    PROVE  MonitorInv'
<1> USE DEF Mon!MonitorAssumption, MonitorInv, Mon!TypeOK, WaitInv
<1>1. CASE Mon!lock(t)
  BY <1>1 DEF Mon!lock, Mon!Enter
<1>2. CASE Mon!unlock(t)
  BY <1>2 DEF Mon!unlock, Mon!Leave
<1>3. CASE Mon!wait(t)
  <2>1. /\ owner = t /\ depth \in 1..MaxDepth /\ waiting[t] = "no"
        /\ depth' = depth - 1 /\ owner' = IF depth = 1 THEN None ELSE t
        /\ waiting' = [waiting EXCEPT ![t] = "asleep"]
        /\ held' = [held EXCEPT ![t] = depth]
    BY <1>3 DEF Mon!wait, Mon!Leave
  <2>2. Mon!TypeOK'
    BY <2>1
  <2>3. ASSUME NEW s \in Lockers, waiting'[s] # "no"
        PROVE  /\ held'[s] >= 1
               /\ IF held'[s] = 1 THEN owner' # s
                                  ELSE owner' = s /\ depth' = held'[s] - 1
    <3>1. CASE s = t
      BY <2>1, <3>1
    <3>2. CASE s # t
      BY <2>1, <2>3, <3>2
    <3>3. QED
      BY <3>1, <3>2
  <2>4. QED
    BY <2>2, <2>3
<1>4. CASE Mon!ReturnFromWait(t)
  <2>1. /\ owner \in {None, t} /\ owner' = t
        /\ waiting[t] = "woken" /\ waiting' = [waiting EXCEPT ![t] = "no"]
        /\ held' = held
    BY <1>4 DEF Mon!ReturnFromWait, Mon!Enter
  <2>2. held[t] \in 1..MaxDepth /\ depth' = held[t]
    BY <1>4 DEF Mon!ReturnFromWait, Mon!Enter
  <2>3. Mon!TypeOK'
    BY <2>1, <2>2
  <2>4. ASSUME NEW s \in Lockers, waiting'[s] # "no"
        PROVE  held'[s] = 1 /\ owner' # s
    \* s waits too: the mutex was free or held by t, so s gave it up altogether.
    <3>1. s # t /\ waiting[s] # "no" /\ owner # s
      BY <2>1, <2>4
    <3>2. held[s] = 1
      BY <3>1
    <3>3. QED
      BY <2>1, <3>1, <3>2
  <2>5. WaitInv'
    BY <2>4
  <2>6. QED
    BY <2>3, <2>5
<1>5. QED
  BY <1>1, <1>2, <1>3, <1>4

\* The steps that wake sleepers leave the mutex alone, and wake sleepers only.
LEMMA MonitorWakeStep ==
    ASSUME MonitorInv, NEW t \in Lockers,
           Mon!SpuriousWake(t) \/ Mon!notify_one(t) \/ Mon!notify_all(t)
    PROVE  MonitorInv'
<1>1. /\ UNCHANGED <<owner, depth, held>>
      /\ waiting' \in [Lockers -> {"no", "asleep", "woken"}]
      /\ \A s \in Lockers : waiting'[s] # "no" => waiting[s] # "no"
  BY DEF Mon!SpuriousWake, Mon!notify_one, Mon!notify_all, Mon!Woken, Mon!Asleep,
         MonitorInv, Mon!TypeOK
<1>2. QED
  BY <1>1 DEF MonitorInv, Mon!TypeOK, WaitInv

LEMMA MonitorStep ==
    ASSUME Mon!MonitorAssumption, MonitorInv, [Mon!Next]_(Mon!vars)
    PROVE  MonitorInv'
<1>1. CASE UNCHANGED Mon!vars
  BY <1>1 DEF Mon!vars, MonitorInv, Mon!TypeOK, WaitInv
<1>2. CASE Mon!Next
  BY <1>2, MonitorHoldStep, MonitorWakeStep DEF Mon!Next
<1>3. QED
  BY <1>1, <1>2

\* The inductive invariant of the monitor.
THEOREM MonitorInvariant == Mon!Spec => []MonitorInv
<1>1. Mon!Init => MonitorInv
  BY MonitorInit, ResourcesAssumption
<1>2. MonitorInv /\ [Mon!Next]_(Mon!vars) => MonitorInv'
  BY MonitorStep, ResourcesAssumption
<1>3. QED
  BY <1>1, <1>2, PTL DEF Mon!Spec

\* Every call keeps the types, and the mutex is owned just when it is held at
\* least once (mutex.cpp 17-53, condition_variable.cpp 63-70).
THEOREM MonitorTypeCorrect == Mon!Spec => []Mon!TypeOK
<1>1. MonitorInv => Mon!TypeOK
  BY DEF MonitorInv
<1>2. QED
  BY MonitorInvariant, <1>1, PTL

\* A wait with the mutex held more than once keeps it, for any number of threads
\* that want it meanwhile (condition_variable.cpp 63-70).
THEOREM NestedWaits == Mon!Spec => []NestedWaitKeepsMutex
<1>1. MonitorInv => NestedWaitKeepsMutex
  BY DEF MonitorInv, Mon!TypeOK, WaitInv,
         NestedWaitKeepsMutex, Mon!NestedWaitKeepsMutex
<1>2. QED
  BY MonitorInvariant, <1>1, PTL

\* A wait returns with the hold it was called with (condition_variable.cpp 63-70).
THEOREM WaitsRestoreTheirHold == Mon!Spec => WaitRestoresHold
<1> DEFINE Restores == \A t \in Lockers : waiting[t] = "woken" /\ waiting'[t] = "no"
                                             => owner' = t /\ depth' = held[t]
<1>1. MonitorInv /\ [Mon!Next]_(Mon!vars) => Restores
  <2> SUFFICES ASSUME MonitorInv, [Mon!Next]_(Mon!vars), NEW t \in Lockers,
                      waiting[t] = "woken", waiting'[t] = "no"
               PROVE  owner' = t /\ depth' = held[t]
    OBVIOUS
  <2>1. Mon!ReturnFromWait(t)
    <3>1. PICK s \in Lockers : \/ Mon!lock(s) \/ Mon!unlock(s)
                               \/ Mon!wait(s) \/ Mon!SpuriousWake(s) \/ Mon!ReturnFromWait(s)
                               \/ Mon!notify_one(s) \/ Mon!notify_all(s)
      BY DEF Mon!Next, Mon!vars
    <3>2. ~(Mon!lock(s) \/ Mon!unlock(s) \/ Mon!wait(s) \/ Mon!SpuriousWake(s))
      BY DEF Mon!lock, Mon!unlock, Mon!wait, Mon!SpuriousWake, MonitorInv, Mon!TypeOK
    <3>3. ~(Mon!notify_one(s) \/ Mon!notify_all(s))
      BY DEF Mon!notify_one, Mon!notify_all, Mon!Woken, Mon!Asleep
    <3>4. s = t
      BY <3>1, <3>2, <3>3 DEF Mon!ReturnFromWait, MonitorInv, Mon!TypeOK
    <3>5. QED
      BY <3>1, <3>2, <3>3, <3>4
  <2>2. QED
    BY <2>1 DEF Mon!ReturnFromWait, Mon!Enter, MonitorInv, Mon!TypeOK, WaitInv
<1>2. QED
  BY MonitorInvariant, <1>1, PTL DEF Mon!Spec, WaitRestoresHold, Mon!WaitRestoresHold
-----------------------------------------------------------------------------
\* The values of a registry key: what is read is what was set.

\* What is set, and what the registry keeps of it.
SetValues == {Val!Text(s) : s \in Texts} \cup {Val!Number(n) : n \in Numbers}
KeptValues == {Val!Stored(v) : v \in SetValues} \cup {Val!Missing}

\* What is kept is what was set; only a key that is there can be read.
ValueTypes == /\ values \in [ValueNames -> KeptValues]
              /\ put \in [ValueNames -> SetValues \cup {Val!Missing}]
              /\ handle \in [RegistryKeys -> {"none", "read", "write", "stale"}]
KeptAsSet == \A name \in ValueNames :
                values[name] = IF put[name] = Val!Missing THEN Val!Missing
                               ELSE Val!Stored(put[name])

\* What GetValue has found between its calls: the value as it is now, and one of the
\* size it was told.
Watched == /\ during \subseteq KeptValues
           /\ reading # Val!NoRead =>
                /\ reading.key \in RegistryKeys /\ reading.name \in ValueNames
                /\ reading.size \in Nat /\ reading.size >= 1
                /\ Val!Seen(reading.key, reading.name) \in during
                /\ \E w \in during : Len(w.bytes) = reading.size

ValueInv == ValueTypes /\ KeptAsSet /\ Watched /\ Val!StringsReadBack

\* What is kept: nothing, a string with a zero behind it, an empty one, or a number.
LEMMA KeptIs ==
  ASSUME Val!ValuesAssumption, NEW v \in KeptValues
  PROVE  /\ v.bytes \in Seq(Nat) /\ Len(v.bytes) \in Nat
         /\ \/ v = Val!Missing /\ v.bytes = <<>>
            \/ v.type = "text" /\ v.bytes = <<>> /\ v = Val!Text(<<>>)
            \/ /\ v.type = "text"
               /\ \E s \in Texts : s # <<>> /\ s \in Seq(Nat \ {0}) /\ v.bytes = Append(s, 0)
                                   /\ v = Val!Stored(Val!Text(s))
            \/ v.type = "number" /\ Len(v.bytes) = 4
  <1>1. CASE v = Val!Missing
    BY <1>1 DEF Val!Missing
  <1>2. CASE \E s \in Texts : v = Val!Stored(Val!Text(s))
    <2>1. PICK s \in Texts : v = Val!Stored(Val!Text(s))
      BY <1>2
    <2>2. s \in Seq(Nat \ {0})
      BY DEF Val!ValuesAssumption
    <2>3. CASE s = <<>>
      <3>1. v = Val!Text(<<>>)
        BY <2>1, <2>3 DEF Val!Stored, Val!Text
      <3> QED  BY <3>1 DEF Val!Text
    <2>4. CASE s # <<>>
      <3>1. v = [Val!Text(s) EXCEPT !.bytes = Append(@, 0)]
        BY <2>1, <2>4 DEF Val!Stored, Val!Text
      <3>2. v.type = "text" /\ v.bytes = Append(s, 0)
        BY <3>1 DEF Val!Text
      <3>3. s \in Seq(Nat)
        BY <2>2
      <3>4. Append(s, 0) \in Seq(Nat) /\ Len(Append(s, 0)) \in Nat
        BY <3>3, AppendProperties, LenProperties
      <3> QED  BY <2>1, <2>2, <2>4, <3>2, <3>4
    <2> QED  BY <2>3, <2>4
  <1>3. CASE \E n \in Numbers : v = Val!Stored(Val!Number(n))
    <2>1. PICK n \in Numbers : v = Val!Stored(Val!Number(n))
      BY <1>3
    <2>2. v = Val!Number(n)
      BY <2>1 DEF Val!Stored, Val!Number
    <2>3. v.type = "number" /\ v.bytes = n
      BY <2>2 DEF Val!Number
    <2>4. n \in Seq(Nat) /\ Len(n) = 4
      BY DEF Val!ValuesAssumption, Val!Bytes4
    <2> QED  BY <2>3, <2>4
  <1> QED  BY <1>1, <1>2, <1>3 DEF KeptValues, SetValues

\* CHOOSE finds the least of a set of positions.
LEMMA LeastOf ==
  ASSUME NEW S \in SUBSET Nat, S # {}
  PROVE  Min(S) \in S /\ \A y \in S : Min(S) <= y
  <1> DEFINE R == {ss \in Nat \X Nat : ss[1] < ss[2]}
  <1>1. IsWellFoundedOn(R, Nat)
    BY NatLessThanWellFounded DEF OpToRel
  <1>2. \A x, y \in S : <<y, x>> \in R <=> y < x
    OBVIOUS
  <1> HIDE DEF R
  <1>3. PICK x \in S : \A y \in S : ~(<<y, x>> \in R)
    BY <1>1, WFMin
  <1>4. ASSUME NEW y \in S PROVE x =< y
    <2>1. x \in Nat /\ y \in Nat /\ ~(y < x)
      BY <1>2, <1>3
    <2> QED  BY <2>1
  <1> QED  BY <1>4 DEF Min

\* StringType(buffer).
LEMMA TerminatedIs ==
  ASSUME Val!ValuesAssumption, NEW v \in KeptValues, v # Val!Missing, NEW size \in Nat, size >= 1,
         Len(v.bytes) <= size
  PROVE  LET a == Val!Terminated(v.bytes, size)
         IN  \/ /\ a.type = "text"
                /\ IF v.type = "text" THEN v = Val!Stored(a) ELSE Val!IsPrefix(a.bytes, v.bytes)
             \/ a.type = "overrun" /\ v.type = "number" /\ 0 \notin Val!ToSet(v.bytes)
  <1> DEFINE bytes == v.bytes
             zeros == {i \in DOMAIN bytes : bytes[i] = 0}
             k == CHOOSE i \in zeros : \A j \in zeros : i <= j
             a == Val!Terminated(bytes, size)
  <1>0. bytes \in Seq(Nat) /\ Len(bytes) \in Nat /\ DOMAIN bytes = 1..Len(bytes)
    BY KeptIs, LenProperties
  <1>1. a = IF zeros # {} THEN Val!Text(SubSeq(bytes, 1, k - 1))
            ELSE IF Len(bytes) < size THEN Val!Text(bytes) ELSE Val!Overrun
    BY DEF Val!Terminated
  <1>2. zeros # {} => k \in zeros
    <2> SUFFICES ASSUME zeros # {} PROVE k \in zeros
      OBVIOUS
    <2>1. zeros \in SUBSET Nat
      BY <1>0
    <2>2. Min(zeros) = k
      BY DEF Min
    <2> HIDE DEF zeros, k
    <2> QED  BY <2>1, <2>2, LeastOf
  <1> HIDE DEF a, k
  <1>3. CASE v.bytes = <<>>
    <2>1. zeros = {} /\ Len(bytes) = 0
      BY <1>3
    <2>2. a = Val!Text(<<>>)
      BY <1>1, <1>3, <2>1
    <2>3. v.type = "text" /\ v = Val!Text(<<>>)
      <3>1. ~(Len(v.bytes) = 4) /\ \A s \in Seq(Nat \ {0}) : v.bytes # Append(s, 0)
        BY <1>3
      <3> QED  BY <3>1, KeptIs
    <2>4. a.type = "text" /\ Val!Stored(a) = a
      BY <2>2 DEF Val!Text, Val!Stored
    <2> QED  BY <2>2, <2>3, <2>4 DEF a
  <1>4. CASE v.type = "text" /\ v.bytes # <<>>
    <2>1. PICK s \in Texts : /\ s # <<>> /\ s \in Seq(Nat \ {0}) /\ v.bytes = Append(s, 0)
                             /\ v = Val!Stored(Val!Text(s))
      BY <1>4, KeptIs DEF Val!Missing
    <2> DEFINE n == Len(s)
    <2>2. /\ n \in Nat /\ Len(bytes) = n + 1 /\ bytes[n + 1] = 0
          /\ \A i \in 1..n : bytes[i] = s[i] /\ s[i] # 0
      BY <2>1, AppendProperties, LenProperties, ElementOfSeq
    <2>3. zeros = {n + 1}
      BY <1>0, <2>2, SMTT(60)
    <2>4. k = n + 1
      BY <1>2, <2>3
    <2>5. SubSeq(bytes, 1, k - 1) = s
      <3>1. k - 1 = n
        BY <2>2, <2>4
      <3>2. s \in Seq(Nat) /\ bytes = Append(s, 0)
        BY <2>1
      <3> HIDE DEF bytes
      <3>3. SubSeq(Append(s, 0), 1, n) = s
        BY <3>2, <2>2
      <3> QED  BY <3>1, <3>2, <3>3
    <2>6. a = Val!Text(s)
      BY <1>1, <2>3, <2>5
    <2> QED  BY <1>4, <2>1, <2>6 DEF a, Val!Text
  <1>5. CASE v.type = "number"
    <2>1. CASE zeros # {}
      <3>1. k \in 1..Len(bytes)
        BY <1>0, <1>2, <2>1
      <3>2. a = Val!Text(SubSeq(bytes, 1, k - 1))
        BY <1>1, <2>1
      <3>3. Val!IsPrefix(SubSeq(bytes, 1, k - 1), bytes)
        <4> DEFINE t == SubSeq(bytes, 1, k - 1)
        <4>1. t \in Seq(Nat) /\ Len(t) = k - 1 /\ Len(t) <= Len(bytes)
          BY <1>0, <3>1
        <4>2. SubSeq(t, 1, Len(t)) = t
          BY <4>1, SubSeqFull
        <4> QED  BY <4>1, <4>2 DEF Val!IsPrefix
      <3> QED  BY <1>5, <3>2, <3>3 DEF a, Val!Text
    <2>2. CASE zeros = {} /\ Len(bytes) < size
      <3>1. a = Val!Text(bytes)
        BY <1>1, <2>2
      <3>2. Val!IsPrefix(bytes, bytes)
        BY <1>0 DEF Val!IsPrefix
      <3> QED  BY <1>5, <3>1, <3>2 DEF a, Val!Text
    <2>3. CASE zeros = {} /\ ~(Len(bytes) < size)
      <3>1. a = Val!Overrun
        BY <1>1, <2>3
      <3>2. 0 \notin Val!ToSet(bytes)
        BY <2>3 DEF Val!ToSet
      <3> QED  BY <1>5, <3>1, <3>2 DEF a, Val!Overrun
    <2> QED  BY <2>1, <2>2, <2>3
  <1> QED  BY <1>3, <1>4, <1>5, KeptIs

LEMMA SeenIs ==
  ASSUME ValueTypes, NEW k \in RegistryKeys, NEW name \in ValueNames
  PROVE  Val!Seen(k, name) \in KeptValues
  <1>1. values[name] \in KeptValues /\ Val!Missing \in KeptValues
    BY DEF ValueTypes, KeptValues
  <1> QED  BY <1>1 DEF Val!Seen

\* A step that lets the GetValue in progress be.
LEMMA WatchKeeps ==
  ASSUME ValueInv, ValueTypes', reading' = reading, answer' = answer, Val!Watch
  PROVE  Watched' /\ Val!StringsReadBack'
  <1>1. Watched /\ Val!StringsReadBack
    BY DEF ValueInv
  <1>2. CASE reading = Val!NoRead
    <2>1. during' = during
      BY <1>2 DEF Val!Watch
    <2>2. Watched'
      BY <1>1, <1>2, <2>1 DEF Watched, Val!NoRead
    <2>3. Val!StringsReadBack'
      BY <1>1, <2>1 DEF Val!StringsReadBack, Val!NoRead, Val!Stored
    <2> QED  BY <2>2, <2>3
  <1>3. CASE reading # Val!NoRead
    <2>1. during' = during \cup {Val!Seen(reading.key, reading.name)'}
      BY <1>3 DEF Val!Watch
    <2>2. /\ reading.key \in RegistryKeys /\ reading.name \in ValueNames
          /\ reading.size \in Nat /\ reading.size >= 1 /\ during \subseteq KeptValues
          /\ \E w \in during : Len(w.bytes) = reading.size
      BY <1>1, <1>3 DEF Watched
    <2>3. Val!Seen(reading.key, reading.name)' \in KeptValues
      <3>1. values'[reading.name] \in KeptValues /\ Val!Missing \in KeptValues
        BY <2>2 DEF ValueTypes, KeptValues
      <3> QED  BY <3>1 DEF Val!Seen, Val!Missing
    <2>4. Watched'
      BY <2>1, <2>2, <2>3 DEF Watched, Val!NoRead
    <2>5. Val!StringsReadBack'
      BY <1>3 DEF Val!StringsReadBack, Val!NoRead
    <2> QED  BY <2>4, <2>5
  <1> QED  BY <1>2, <1>3

LEMMA SetKeeps ==
  ASSUME ValueInv, NEW k \in RegistryKeys, NEW name \in ValueNames, NEW value \in SetValues,
         Val!SetValue(k, name, value)
  PROVE  ValueInv'
  <1>1. /\ values' = [values EXCEPT ![name] = Val!Stored(value)]
        /\ put' = [put EXCEPT ![name] = value]
        /\ UNCHANGED <<there, handle, reading, answer>> /\ Val!Watch
    BY DEF Val!SetValue
  <1>2. value # Val!Missing /\ Val!Stored(value) \in KeptValues
    BY DEF SetValues, KeptValues, Val!Text, Val!Number, Val!Missing
  <1>3. ValueTypes' /\ KeptAsSet'
    <2>1. /\ values' \in [ValueNames -> KeptValues]
          /\ put' \in [ValueNames -> SetValues \cup {Val!Missing}]
      BY <1>1, <1>2 DEF ValueInv, ValueTypes
    <2>2. \A x \in ValueNames :
             values'[x] = IF put'[x] = Val!Missing THEN Val!Missing ELSE Val!Stored(put'[x])
      BY <1>1, <1>2 DEF ValueInv, ValueTypes, KeptAsSet
    <2>3. ValueTypes'
      BY <1>1, <2>1 DEF ValueInv, ValueTypes, KeptValues, Val!Missing, SetValues, Val!Stored,
                        Val!Text, Val!Number
    <2>4. KeptAsSet'
      BY <2>2 DEF KeptAsSet, Val!Missing, Val!Stored
    <2> QED  BY <2>3, <2>4
  <1> QED  BY <1>1, <1>3, WatchKeeps DEF ValueInv

LEMMA DeleteKeeps ==
  ASSUME ValueInv, NEW k \in RegistryKeys, NEW name \in ValueNames, Val!DeleteValue(k, name)
  PROVE  ValueInv'
  <1>1. /\ values' = [values EXCEPT ![name] = Val!Missing]
        /\ put' = [put EXCEPT ![name] = Val!Missing]
        /\ UNCHANGED <<there, handle, reading, answer>> /\ Val!Watch
    BY DEF Val!DeleteValue
  <1>2. /\ values' \in [ValueNames -> KeptValues]
        /\ put' \in [ValueNames -> SetValues \cup {Val!Missing}]
    <2>1. Val!Missing \in KeptValues
      BY DEF KeptValues
    <2> QED  BY <1>1, <2>1 DEF ValueInv, ValueTypes
  <1>3. \A x \in ValueNames :
           values'[x] = IF put'[x] = Val!Missing THEN Val!Missing ELSE Val!Stored(put'[x])
    BY <1>1 DEF ValueInv, ValueTypes, KeptAsSet
  <1>4. ValueTypes'
    BY <1>1, <1>2 DEF ValueInv, ValueTypes, KeptValues, Val!Missing, SetValues, Val!Stored,
                      Val!Text, Val!Number
  <1>5. KeptAsSet'
    BY <1>3 DEF KeptAsSet, Val!Missing, Val!Stored
  <1> QED  BY <1>1, <1>4, <1>5, WatchKeeps DEF ValueInv

LEMMA DeleteKeyKeeps ==
  ASSUME ValueInv, Val!DeleteSubKey
  PROVE  ValueInv'
  <1>1. /\ values' = [name \in ValueNames |-> Val!Missing]
        /\ put' = [name \in ValueNames |-> Val!Missing]
        /\ handle' = [k \in RegistryKeys |-> IF handle[k] = "none" THEN "none" ELSE "stale"]
        /\ UNCHANGED <<reading, answer>> /\ Val!Watch
    BY DEF Val!DeleteSubKey
  <1>2. /\ values' \in [ValueNames -> KeptValues]
        /\ put' \in [ValueNames -> SetValues \cup {Val!Missing}]
    <2>1. Val!Missing \in KeptValues
      BY DEF KeptValues
    <2> QED  BY <1>1, <2>1
  <1>3. \A x \in ValueNames :
           values'[x] = IF put'[x] = Val!Missing THEN Val!Missing ELSE Val!Stored(put'[x])
    BY <1>1
  <1>4. ValueTypes'
    BY <1>1, <1>2 DEF ValueInv, ValueTypes, KeptValues, Val!Missing, SetValues, Val!Stored,
                      Val!Text, Val!Number
  <1>5. KeptAsSet'
    BY <1>3 DEF KeptAsSet, Val!Missing, Val!Stored
  <1> QED  BY <1>1, <1>4, <1>5, WatchKeeps DEF ValueInv

\* A handle more.
LEMMA HandleKeeps ==
  ASSUME ValueInv, NEW k \in RegistryKeys, NEW access \in {"read", "write"},
         handle' = [handle EXCEPT ![k] = access],
         UNCHANGED <<values, reading, answer, put>>, Val!Watch
  PROVE  ValueInv'
  <1>1. ValueTypes'
    <2>1. handle' \in [RegistryKeys -> {"none", "read", "write", "stale"}]
      BY DEF ValueInv, ValueTypes
    <2> QED  BY <2>1 DEF ValueInv, ValueTypes, KeptValues, Val!Missing, SetValues, Val!Stored,
                         Val!Text, Val!Number
  <1>2. KeptAsSet'
    BY DEF ValueInv, KeptAsSet, Val!Missing, Val!Stored
  <1> QED  BY <1>1, <1>2, WatchKeeps DEF ValueInv

LEMMA GetSizeKeeps ==
  ASSUME Val!ValuesAssumption, ValueInv, NEW k \in RegistryKeys, NEW name \in ValueNames,
         Val!GetSize(k, name)
  PROVE  ValueInv'
  <1> DEFINE v == Val!Seen(k, name)
             size == Len(v.bytes)
  <1>1. /\ reading = Val!NoRead /\ during' = {v} /\ UNCHANGED <<there, values, handle, put>>
        /\ IF size = 0 THEN reading' = Val!NoRead /\ answer' = Val!Default
           ELSE reading' = [key |-> k, name |-> name, size |-> size] /\ answer' = answer
    BY DEF Val!GetSize
  <1>2. v \in KeptValues /\ v.bytes \in Seq(Nat) /\ size \in Nat
    <2>1. v \in KeptValues
      BY SeenIs DEF ValueInv
    <2> QED  BY <2>1, KeptIs
  <1>3. ValueTypes' /\ KeptAsSet'
    BY <1>1 DEF ValueInv, ValueTypes, KeptAsSet, KeptValues, Val!Missing, SetValues,
                Val!Stored, Val!Text, Val!Number
  <1>4. Val!Seen(k, name)' = v
    BY <1>1 DEF Val!Seen, Val!Missing
  <1> HIDE DEF v
  <1>5. CASE size = 0
    <2>1. v.bytes = <<>>
      BY <1>2, <1>5, EmptySeq
    <2>2. Watched'
      BY <1>1, <1>2, <1>5 DEF Watched, KeptValues, SetValues, Val!Stored, Val!Text, Val!Number,
                              Val!Missing,
                              Val!NoRead
    <2>3. Val!StringsReadBack'
      <3>1. answer' = Val!Default /\ Val!Default.type = "default"
        BY <1>1, <1>5 DEF Val!Default
      <3> QED  BY <1>1, <2>1, <3>1 DEF Val!StringsReadBack
    <2> QED  BY <1>3, <2>2, <2>3 DEF ValueInv
  <1>6. CASE size # 0
    <2>1. /\ reading' = [key |-> k, name |-> name, size |-> size]
          /\ size >= 1
      BY <1>1, <1>2, <1>6
    <2>2. Watched'
      <3>1. during' \subseteq KeptValues
        BY <1>1, <1>2
      <3>2. /\ reading'.key = k /\ reading'.name = name /\ reading'.size = size
        BY <2>1
      <3>3. Val!Seen(reading.key, reading.name)' \in during'
        BY <1>1, <1>4, <3>2 DEF Val!Seen, Val!Missing
      <3>4. \E w \in during' : Len(w.bytes) = reading'.size
        BY <1>1, <3>2
      <3> QED  BY <1>2, <2>1, <3>1, <3>2, <3>3, <3>4
               DEF Watched, KeptValues, SetValues, Val!Stored, Val!Text, Val!Number,
                   Val!Missing, Val!NoRead
    <2>3. Val!StringsReadBack'
      <3>1. reading' # Val!NoRead
        BY <2>1 DEF Val!NoRead
      <3> QED  BY <3>1 DEF Val!StringsReadBack, Val!NoRead
    <2> QED  BY <1>3, <2>2, <2>3 DEF ValueInv
  <1> QED  BY <1>5, <1>6

LEMMA GetDataKeeps ==
  ASSUME Val!ValuesAssumption, ValueInv, Val!GetData
  PROVE  ValueInv'
  <1> DEFINE v == Val!Seen(reading.key, reading.name)
             size == reading.size
  <1>1. /\ reading # Val!NoRead /\ reading' = Val!NoRead
        /\ answer' = Val!SecondRead(v, size)
        /\ UNCHANGED <<there, values, handle, put, during>>
    BY DEF Val!GetData
  <1>2. /\ size \in Nat /\ size >= 1 /\ v \in during /\ during \subseteq KeptValues
        /\ \E w \in during : Len(w.bytes) = size
    BY <1>1 DEF ValueInv, Watched
  <1>3. ValueTypes' /\ KeptAsSet'
    BY <1>1 DEF ValueInv, ValueTypes, KeptAsSet, KeptValues, Val!Missing, SetValues,
                Val!Stored, Val!Text, Val!Number
  <1>4. Watched'
    BY <1>1, <1>2 DEF Watched, KeptValues, SetValues, Val!Stored, Val!Text, Val!Number,
                      Val!Missing, Val!NoRead
  <1>5. v \in KeptValues /\ v.bytes \in Seq(Nat) /\ Len(v.bytes) \in Nat
    BY <1>2, KeptIs
  <1> HIDE DEF v, size
  <1>6. Val!StringsReadBack'
    <2>1. CASE v = Val!Missing \/ Len(v.bytes) > size
      <3>1. answer' = Val!Default /\ Val!Default.type = "default"
        BY <1>1, <2>1 DEF Val!SecondRead, Val!Default
      <3>2. v.bytes = <<>> \/ \E w \in during : Len(w.bytes) < Len(v.bytes)
        <4>1. CASE v = Val!Missing
          BY <4>1 DEF Val!Missing
        <4>2. CASE Len(v.bytes) > size
          BY <1>2, <1>5, <4>2
        <4> QED  BY <2>1, <4>1, <4>2
      <3>3. \E x, w \in during : x.bytes = <<>> \/ Len(x.bytes) < Len(w.bytes)
        BY <1>2, <3>2
      <3> QED  BY <1>1, <3>1, <3>3 DEF Val!StringsReadBack
    <2>2. CASE v # Val!Missing /\ ~(Len(v.bytes) > size)
      <3> DEFINE a == Val!Terminated(v.bytes, size)
      <3>1. answer' = a
        BY <1>1, <2>2 DEF Val!SecondRead
      <3>2. Len(v.bytes) <= size
        BY <1>2, <1>5, <2>2
      <3>3. \/ /\ a.type = "text"
               /\ IF v.type = "text" THEN v = Val!Stored(a) ELSE Val!IsPrefix(a.bytes, v.bytes)
            \/ a.type = "overrun" /\ v.type = "number" /\ 0 \notin Val!ToSet(v.bytes)
        BY <1>2, <1>5, <2>2, <3>2, TerminatedIs
      <3> HIDE DEF a
      <3>4. /\ answer'.type = "text" =>
                 \E x \in during' : IF x.type = "text" THEN x = Val!Stored(answer')
                                    ELSE Val!IsPrefix(answer'.bytes, x.bytes)
            /\ answer'.type = "overrun" =>
                 \E x \in during' : x.type = "number" /\ 0 \notin Val!ToSet(x.bytes)
            /\ answer'.type \in {"text", "overrun"}
        BY <1>1, <1>2, <3>1, <3>3
      <3>5. CASE answer'.type = "text"
        BY <3>4, <3>5 DEF Val!StringsReadBack, Val!Stored, Val!IsPrefix
      <3>6. CASE answer'.type = "overrun"
        BY <3>4, <3>6 DEF Val!StringsReadBack, Val!ToSet
      <3> QED  BY <3>4, <3>5, <3>6
    <2> QED  BY <2>1, <2>2
  <1> QED  BY <1>3, <1>4, <1>6 DEF ValueInv

LEMMA ValueInit == Val!Init => ValueInv
  <1> SUFFICES ASSUME Val!Init PROVE ValueInv
    OBVIOUS
  <1>1. /\ values = [name \in ValueNames |-> Val!Missing]
        /\ put = [name \in ValueNames |-> Val!Missing]
        /\ handle = [k \in RegistryKeys |-> "none"]
        /\ reading = Val!NoRead /\ answer = Val!Default /\ during = {}
    BY DEF Val!Init
  <1>2. ValueTypes
    BY <1>1 DEF ValueTypes, KeptValues
  <1>3. KeptAsSet
    BY <1>1 DEF KeptAsSet
  <1>4. Watched
    BY <1>1 DEF Watched
  <1>5. Val!StringsReadBack
    <2>1. answer.type = "default"
      BY <1>1 DEF Val!Default
    <2> QED  BY <1>1, <2>1 DEF Val!StringsReadBack
  <1> QED  BY <1>2, <1>3, <1>4, <1>5 DEF ValueInv

\* A step that changes nothing.
LEMMA ValueStutter ==
  ASSUME ValueInv, UNCHANGED Val!vars
  PROVE  ValueInv'
  <1>1. UNCHANGED <<values, handle, reading, answer, put, during>>
    BY DEF Val!vars
  <1>2. ValueTypes' /\ KeptAsSet'
    BY <1>1 DEF ValueInv, ValueTypes, KeptAsSet, KeptValues, Val!Missing, SetValues,
                Val!Stored, Val!Text, Val!Number
  <1>3. Watched'
    BY <1>1 DEF ValueInv, Watched, KeptValues, SetValues, Val!Stored, Val!Text, Val!Number,
                Val!Missing,
                Val!NoRead, Val!Seen
  <1>4. Val!StringsReadBack'
    BY <1>1 DEF ValueInv, Val!StringsReadBack, Val!NoRead, Val!Stored, Val!IsPrefix, Val!ToSet
  <1> QED  BY <1>2, <1>3, <1>4 DEF ValueInv

LEMMA ValueStep ==
  ASSUME Val!ValuesAssumption, ValueInv, [Val!Next]_(Val!vars)
  PROVE  ValueInv'
  <1>1. CASE Val!DeleteSubKey
    BY <1>1, DeleteKeyKeeps
  <1>2. CASE Val!GetData
    BY <1>2, GetDataKeeps
  <1>3. ASSUME NEW k \in RegistryKeys, Val!CreateSubKey(k)
        PROVE  ValueInv'
    <2>1. /\ handle' = [handle EXCEPT ![k] = "write"]
          /\ UNCHANGED <<values, reading, answer, put>> /\ Val!Watch
      BY <1>3 DEF Val!CreateSubKey
    <2> QED  BY <2>1, HandleKeeps
  <1>4. ASSUME NEW k \in RegistryKeys, NEW writable \in BOOLEAN, Val!OpenSubKey(k, writable)
        PROVE  ValueInv'
    <2> DEFINE access == IF writable THEN "write" ELSE "read"
    <2>1. /\ handle' = [handle EXCEPT ![k] = access]
          /\ UNCHANGED <<values, reading, answer, put>> /\ Val!Watch
      BY <1>4 DEF Val!OpenSubKey
    <2>2. access \in {"read", "write"}
      OBVIOUS
    <2> HIDE DEF access
    <2> QED  BY <2>1, <2>2, HandleKeeps
  <1>5. ASSUME NEW k \in RegistryKeys, NEW name \in ValueNames,
               Val!DeleteValue(k, name) \/ Val!GetSize(k, name)
        PROVE  ValueInv'
    BY <1>5, DeleteKeeps, GetSizeKeeps
  <1>6. ASSUME NEW k \in RegistryKeys, NEW name \in ValueNames, NEW value \in SetValues,
               Val!SetValue(k, name, value)
        PROVE  ValueInv'
    BY <1>6, SetKeeps
  <1>7. CASE UNCHANGED Val!vars
    BY <1>7, ValueStutter
  <1>8. /\ \A s \in Texts : Val!Text(s) \in SetValues
        /\ \A n \in Numbers : Val!Number(n) \in SetValues
    BY DEF SetValues
  <1> QED  BY <1>1, <1>2, <1>3, <1>4, <1>5, <1>6, <1>7, <1>8 DEF Val!Next

\* GetValue of a number needs no invariant of its own: it is a single step.
LEMMA NumbersAreRead == Val!ValuesAssumption /\ ValueInv => Val!NumbersReadBack
  <1> SUFFICES ASSUME Val!ValuesAssumption, ValueInv,
                      NEW k \in RegistryKeys, NEW name \in ValueNames
               PROVE  LET got == Val!GetNumber(k, name)
                      IN  IF handle[k] \notin {"read", "write"} \/ put[name] = Val!Missing
                          THEN got = Val!Default
                          ELSE IF put[name].type = "number" THEN got = put[name]
                          ELSE (got = Val!Default) <=> Len(put[name].bytes) >= Val!Bytes4
    BY DEF Val!NumbersReadBack
  <1> DEFINE got == Val!GetNumber(k, name)
             value == Val!Seen(k, name)
             rest == [i \in 1..(4 - Len(value.bytes)) |-> 0]
  <1>1. got = IF value = Val!Missing \/ Len(value.bytes) > 4 THEN Val!Default
              ELSE Val!Number(value.bytes \o rest)
    BY DEF Val!GetNumber, Val!Bytes4
  <1>2. /\ value = IF handle[k] \in {"read", "write"} THEN values[name] ELSE Val!Missing
        /\ values[name] = IF put[name] = Val!Missing THEN Val!Missing ELSE Val!Stored(put[name])
        /\ put[name] \in SetValues \cup {Val!Missing}
    BY DEF Val!Seen, ValueInv, ValueTypes, KeptAsSet
  <1>3. \A x : Val!Number(x) # Val!Default
    BY DEF Val!Number, Val!Default
  <1> HIDE DEF got, value
  <1>4. CASE handle[k] \notin {"read", "write"} \/ put[name] = Val!Missing
    BY <1>1, <1>2, <1>4 DEF got
  <1>5. ASSUME NEW n \in Numbers, handle[k] \in {"read", "write"}, put[name] = Val!Number(n)
        PROVE  put[name].type = "number" /\ got = put[name]
    <2>1. n \in Seq(Nat) /\ Len(n) = 4
      BY DEF Val!ValuesAssumption, Val!Bytes4
    <2>2. put[name] # Val!Missing /\ Val!Stored(put[name]) = put[name]
      BY <1>5 DEF Val!Number, Val!Missing, Val!Stored
    <2>3. value = Val!Number(n) /\ value # Val!Missing
      BY <1>2, <1>5, <2>2
    <2>4. value.bytes = n
      BY <2>3 DEF Val!Number
    <2>5. rest = <<>>
      <3>1. Len(value.bytes) = 4
        BY <2>1, <2>4
      <3>2. 1..(4 - Len(value.bytes)) = 1..0
        BY <3>1
      <3>3. rest = [i \in 1..0 |-> 0]
        BY <3>2
      <3>4. [i \in 1..0 |-> 0] \in Seq({0}) /\ Len([i \in 1..0 |-> 0]) = 0
        OBVIOUS
      <3> QED  BY <3>3, <3>4, EmptySeq
    <2>6. n \o <<>> = n
      BY <2>1, ConcatEmptySeq
    <2>7. got = Val!Number(n)
      <3>1. ~(Len(value.bytes) > 4)
        <4>1. Len(value.bytes) = 4
          BY <2>1, <2>4
        <4>2. ~(4 > 4)
          OBVIOUS
        <4> QED  BY <4>1, <4>2
      <3>2. got = Val!Number(value.bytes \o rest)
        BY <1>1, <2>3, <3>1
      <3>3. value.bytes \o rest = n
        BY <2>4, <2>5, <2>6
      <3> QED  BY <3>2, <3>3
    <2> QED  BY <1>5, <2>7 DEF Val!Number
  <1>6. ASSUME NEW s \in Texts, handle[k] \in {"read", "write"}, put[name] = Val!Text(s)
        PROVE  /\ put[name].type # "number"
               /\ (got = Val!Default) <=> Len(put[name].bytes) >= 4
    <2>1. s \in Seq(Nat \ {0}) /\ Len(s) \in Nat
      BY LenProperties DEF Val!ValuesAssumption
    <2>2. put[name] # Val!Missing /\ put[name].type = "text" /\ put[name].bytes = s
      BY <1>6 DEF Val!Text, Val!Missing
    <2>3. value = Val!Stored(Val!Text(s)) /\ value # Val!Missing
      <3>1. value = Val!Stored(Val!Text(s))
        BY <1>2, <1>6, <2>2
      <3>2. Val!Stored(Val!Text(s)).type = "text"
        BY DEF Val!Stored, Val!Text
      <3> QED  BY <3>1, <3>2 DEF Val!Missing
    <2>4. Len(value.bytes) = IF s = <<>> THEN 0 ELSE Len(s) + 1
      <3>1. CASE s = <<>>
        BY <2>3, <3>1 DEF Val!Stored, Val!Text
      <3>2. CASE s # <<>>
        <4>1. value.bytes = Append(s, 0)
          BY <2>3, <3>2 DEF Val!Stored, Val!Text
        <4>2. Len(Append(s, 0)) = Len(s) + 1
          <5>1. s \in Seq(Nat)
            BY <2>1
          <5> QED  BY <5>1, AppendProperties
        <4> QED  BY <3>2, <4>1, <4>2
      <3> QED  BY <3>1, <3>2
    <2>5. got = Val!Default <=> Len(value.bytes) > 4
      BY <1>1, <1>3, <2>3
    <2>6. s = <<>> => Len(s) = 0
      OBVIOUS
    <2> QED  BY <2>1, <2>2, <2>4, <2>5, <2>6
  <1> QED  BY <1>2, <1>4, <1>5, <1>6 DEF got, SetValues, Val!Bytes4
-----------------------------------------------------------------------------
\* What is kept is what was set; a GetValue between its two calls knows a size the
\* value has had meanwhile.
THEOREM ValueInvariant == Val!Spec => []ValueInv
  <1>1. Val!Init => ValueInv
    BY ValueInit
  <1>2. ValueInv /\ [Val!Next]_(Val!vars) => ValueInv'
    BY ValueStep, ResourcesAssumption
  <1> QED  BY <1>1, <1>2, PTL DEF Val!Spec

\* RegistryKey::GetValue answers what SetValue set, as far as its documented limits go,
\* for any names, strings and numbers and any number of RegistryKey objects, whatever
\* is set, deleted and created again between its two calls of the system.
THEOREM ValuesAreReadBack == Val!Spec => []ValuesReadBack
  <1>1. ValueInv => ValuesReadBack
    BY NumbersAreRead, ResourcesAssumption DEF ValueInv, ValuesReadBack, Val!ValuesReadBack
  <1> QED  BY <1>1, ValueInvariant, PTL
-----------------------------------------------------------------------------
\* The arguments of a program: the last one that gives a key counts.

\* What the constructor makes of an argument.
FirstEquals(str) == CHOOSE p \in Args!EqualsIn(str) : \A q \in Args!EqualsIn(str) : p <= q
KeyOf(str) == IF Args!EqualsIn(str) # {} /\ FirstEquals(str) # 1
              THEN SubSeq(str, 2, FirstEquals(str) - 1)
              ELSE Args!Behind(str, 1)
ValueOf(str) == IF Args!EqualsIn(str) = {} THEN Args!trueText
                ELSE Args!Behind(str, FirstEquals(str))

\* As far as the arguments were read, the map has their keys, each with the value of the
\* last that has it; the constructor has thrown just if one of them is empty.
ArgTypes == /\ argv \in Seq(Seq(Nat)) /\ index \in 0..Len(argv)
            /\ outcome \in {"parsing", "parsed", "thrown"}
EmptyThrows == /\ outcome = "parsed" => index = Len(argv)
               /\ outcome = "thrown" <=> \E i \in 1..index : argv[i] = <<>>
LastSoFar == outcome # "thrown" =>
                /\ \A i \in 1..index : KeyOf(argv[i]) \in DOMAIN m_arguments
                /\ \A k \in DOMAIN m_arguments :
                      \E i \in 1..index : /\ KeyOf(argv[i]) = k
                                          /\ m_arguments[k] = ValueOf(argv[i])
                                          /\ \A j \in 1..index : KeyOf(argv[j]) = k => j <= i

ArgInv == ArgTypes /\ EmptyThrows /\ LastSoFar

\* The texts of the model are sequences of codes.
LEMMA ArgumentsAre ==
  ASSUME Args!ArgumentAssumption
  PROVE  \A s \in Args!BoundedSeq(ArgChars, MaxArg) : s \in Seq(Nat)
  <1> TAKE s \in Args!BoundedSeq(ArgChars, MaxArg)
  <1>1. PICK m \in 0..MaxArg : s \in [1..m -> ArgChars]
    BY DEF Args!BoundedSeq, Args!SeqOf
  <1>2. m \in Nat /\ DOMAIN s = 1..m /\ s = [i \in 1..m |-> s[i]]
    BY <1>1 DEF Args!ArgumentAssumption
  <1>3. \A i \in 1..m : s[i] \in Nat
    BY <1>1 DEF Args!ArgumentAssumption
  <1> QED  BY <1>2, <1>3

LEMMA ArgInit == Args!ArgumentAssumption /\ Args!Init => ArgInv
  <1> SUFFICES ASSUME Args!ArgumentAssumption, Args!Init PROVE ArgInv
    OBVIOUS
  <1>1. ArgChars \subseteq Nat /\ MaxArg \in Nat /\ MaxArgs \in Nat
    BY DEF Args!ArgumentAssumption
  <1>2. \A s \in Args!BoundedSeq(ArgChars, MaxArg) : s \in Seq(Nat)
    BY ArgumentsAre
  <1>3. argv \in Args!BoundedSeq(Args!BoundedSeq(ArgChars, MaxArg), MaxArgs)
    BY DEF Args!Init
  <1>4. PICK m \in 0..MaxArgs : argv \in [1..m -> Args!BoundedSeq(ArgChars, MaxArg)]
    BY <1>3 DEF Args!BoundedSeq, Args!SeqOf
  <1>5. argv \in [1..m -> Seq(Nat)] /\ m \in Nat
    BY <1>1, <1>2, <1>4
  <1>6. argv \in Seq(Seq(Nat)) /\ Len(argv) = m
    BY <1>5
  <1>7. index = 0 /\ outcome = "parsing" /\ DOMAIN m_arguments = {}
    BY DEF Args!Init
  <1> QED  BY <1>5, <1>6, <1>7 DEF ArgInv, ArgTypes, EmptyThrows, LastSoFar

LEMMA ParseIs ==
  ASSUME ArgTypes, Args!Parse
  PROVE  LET str == argv[index + 1]
         IN  /\ outcome = "parsing" /\ index < Len(argv) /\ index' = index + 1 /\ argv' = argv
             /\ IF str = <<>> THEN outcome' = "thrown"
                ELSE outcome' = outcome /\ m_arguments' = Args!Entered(KeyOf(str), ValueOf(str))
  <1> DEFINE str == argv[index + 1]
             pos == FirstEquals(str)
  <1>1. /\ outcome = "parsing" /\ index < Len(argv) /\ index' = index + 1 /\ argv' = argv
        /\ \/ /\ Args!EqualsIn(str) = {} /\ str # <<>>
              /\ m_arguments' = Args!Entered(Args!Behind(str, 1), Args!trueText)
              /\ outcome' = outcome
           \/ str = <<>> /\ outcome' = "thrown"
           \/ /\ Args!EqualsIn(str) # {}
              /\ m_arguments' = Args!Entered(IF pos = 1 THEN Args!Behind(str, 1)
                                             ELSE SubSeq(str, 2, pos - 1), Args!Behind(str, pos))
              /\ outcome' = outcome
    BY DEF Args!Parse, FirstEquals
  <1>2. str = <<>> => Args!EqualsIn(str) = {}
    BY DEF Args!EqualsIn
  <1> HIDE DEF str, pos
  <1>3. CASE str = <<>>
    BY <1>1, <1>2, <1>3 DEF str
  <1>4. CASE str # <<>> /\ Args!EqualsIn(str) = {}
    BY <1>1, <1>4 DEF KeyOf, ValueOf, str, pos
  <1>5. CASE str # <<>> /\ Args!EqualsIn(str) # {}
    <2>1. KeyOf(str) = IF pos = 1 THEN Args!Behind(str, 1) ELSE SubSeq(str, 2, pos - 1)
      BY <1>5 DEF KeyOf, pos
    <2>2. ValueOf(str) = Args!Behind(str, pos)
      BY <1>5 DEF ValueOf, pos
    <2> QED  BY <1>1, <1>5, <2>1, <2>2 DEF str
  <1> QED  BY <1>3, <1>4, <1>5

LEMMA ParseKeeps == ArgInv /\ Args!Parse => ArgInv'
  <1> SUFFICES ASSUME ArgInv, Args!Parse PROVE ArgInv'
    OBVIOUS
  <1> DEFINE str == argv[index + 1]
             n == index + 1
  <1>1. /\ ArgTypes /\ index \in Nat /\ index < Len(argv) /\ Len(argv) \in Nat
        /\ outcome = "parsing" /\ index' = n /\ argv' = argv
        /\ \A i \in 1..n : i \in 1..index \/ i = n
    BY ParseIs DEF ArgInv, ArgTypes
  <1>2. IF str = <<>> THEN outcome' = "thrown"
        ELSE outcome' = outcome /\ m_arguments' = Args!Entered(KeyOf(str), ValueOf(str))
    BY <1>1, ParseIs
  <1>3. ArgTypes'
    BY <1>1, <1>2 DEF ArgTypes
  <1>4. EmptyThrows'
    BY <1>1, <1>2 DEF ArgInv, EmptyThrows
  <1>5. ASSUME outcome' # "thrown"
        PROVE  /\ \A i \in 1..n : KeyOf(argv[i]) \in DOMAIN m_arguments'
               /\ \A k \in DOMAIN m_arguments' :
                     \E i \in 1..n : /\ KeyOf(argv[i]) = k
                                     /\ m_arguments'[k] = ValueOf(argv[i])
                                     /\ \A j \in 1..n : KeyOf(argv[j]) = k => j <= i
    <2>1. /\ DOMAIN m_arguments' = DOMAIN m_arguments \cup {KeyOf(argv[n])}
          /\ \A k \in DOMAIN m_arguments' :
                m_arguments'[k] = IF k = KeyOf(argv[n]) THEN ValueOf(argv[n]) ELSE m_arguments[k]
      BY <1>2, <1>5 DEF Args!Entered
    <2>2. LastSoFar /\ outcome # "thrown"
      BY <1>1 DEF ArgInv
    <2>3. \A i \in 1..n : KeyOf(argv[i]) \in DOMAIN m_arguments'
      BY <1>1, <2>1, <2>2 DEF LastSoFar
    <2>4. ASSUME NEW k \in DOMAIN m_arguments'
          PROVE  \E i \in 1..n : /\ KeyOf(argv[i]) = k
                                 /\ m_arguments'[k] = ValueOf(argv[i])
                                 /\ \A j \in 1..n : KeyOf(argv[j]) = k => j <= i
      <3>1. CASE k = KeyOf(argv[n])
        BY <1>1, <2>1, <3>1
      <3>2. CASE k # KeyOf(argv[n])
        <4>1. k \in DOMAIN m_arguments /\ m_arguments'[k] = m_arguments[k]
          BY <2>1, <3>2
        <4>2. PICK i \in 1..index : /\ KeyOf(argv[i]) = k
                                    /\ m_arguments[k] = ValueOf(argv[i])
                                    /\ \A j \in 1..index : KeyOf(argv[j]) = k => j <= i
          BY <2>2, <4>1 DEF LastSoFar
        <4>3. i \in 1..n /\ \A j \in 1..n : KeyOf(argv[j]) = k => j <= i
          BY <1>1, <3>2, <4>2
        <4> QED  BY <4>1, <4>2, <4>3
      <3> QED  BY <3>1, <3>2
    <2> QED  BY <2>3, <2>4
  <1>6. LastSoFar'
    BY <1>1, <1>5 DEF LastSoFar, KeyOf, ValueOf
  <1> QED  BY <1>3, <1>4, <1>6 DEF ArgInv

LEMMA ArgStep == ArgInv /\ [Args!Next]_(Args!vars) => ArgInv'
  <1>1. ASSUME ArgInv, Args!Finish PROVE ArgInv'
    BY <1>1 DEF Args!Finish, ArgInv, ArgTypes, EmptyThrows, LastSoFar, KeyOf, ValueOf
  <1>2. ASSUME ArgInv, UNCHANGED Args!vars PROVE ArgInv'
    BY <1>2 DEF Args!vars, ArgInv, ArgTypes, EmptyThrows, LastSoFar, KeyOf, ValueOf
  <1> QED  BY <1>1, <1>2, ParseKeeps DEF Args!Next

-----------------------------------------------------------------------------
\* The first equals sign of a text that has one.
LEMMA FirstIs ==
  ASSUME NEW str \in Seq(Nat), Args!EqualsIn(str) # {}
  PROVE  /\ FirstEquals(str) \in 1..Len(str) /\ str[FirstEquals(str)] = 61
         /\ \A q \in 1..Len(str) : str[q] = 61 => FirstEquals(str) <= q
  <1>1. Args!EqualsIn(str) \in SUBSET Nat
    BY DEF Args!EqualsIn
  <1>2. \E p \in Args!EqualsIn(str) : \A q \in Args!EqualsIn(str) : p <= q
    BY <1>1, LeastOf
  <1>3. /\ FirstEquals(str) \in Args!EqualsIn(str)
        /\ \A q \in Args!EqualsIn(str) : FirstEquals(str) <= q
    BY <1>2 DEF FirstEquals
  <1> QED  BY <1>3 DEF Args!EqualsIn, Args!Equals

\* An argument that begins with a dash gives a key just if the constructor enters it
\* under that key, and with that value.
LEMMA KeyIs ==
  ASSUME NEW str \in Seq(Nat), Len(str) > 0, str[1] = 45,
         NEW key \in Seq(Nat), Args!EqualsIn(key) = {}
  PROVE  LET bare == str = <<Args!Dash>> \o key
             given == bare \/ Args!IsPrefix(<<Args!Dash>> \o key \o <<Args!Equals>>, str)
         IN  /\ given <=> KeyOf(str) = key
             /\ given => ValueOf(str) = IF bare THEN Args!trueText
                                       ELSE Args!Behind(str, Len(key) + 2)
  <1> DEFINE d == <<Args!Dash>> \o key
             e == d \o <<Args!Equals>>
             pos == FirstEquals(str)
             n == Len(key)
             same == \A i \in 2..n + 1 : str[i] = key[i - 1]
  <1>1. /\ n \in Nat /\ Len(key) = n /\ Len(str) \in Nat /\ \A i \in 1..n : key[i] \in Nat /\ key[i] # 61
        /\ \A i \in 1..Len(str) : str[i] \in Nat
    <2>1. n \in Nat /\ Len(str) \in Nat /\ \A i \in 1..Len(str) : str[i] \in Nat
      OBVIOUS
    <2>2. ASSUME NEW i \in 1..n PROVE key[i] \in Nat /\ key[i] # 61
      <3>1. ~(i \in {p \in 1..Len(key) : key[p] = 61})
        BY DEF Args!EqualsIn, Args!Equals
      <3> QED  BY <3>1, ElementOfSeq
    <2> QED  BY <2>1, <2>2
  <1> HIDE DEF n
  <1>2. d \in Seq(Nat) /\ Len(d) = n + 1 /\ d[1] = 45 /\ \A i \in 2..n + 1 : d[i] = key[i - 1]
    <2>1. <<45>> \in Seq(Nat) /\ Len(<<45>>) = 1 /\ <<45>>[1] = 45
      OBVIOUS
    <2>2. /\ d \in Seq(Nat) /\ Len(d) = 1 + n
          /\ \A i \in 1..1 + n : d[i] = IF i <= 1 THEN <<45>>[i] ELSE key[i - 1]
      BY <1>1, <2>1, ConcatProperties DEF Args!Dash
    <2> HIDE DEF d
    <2> QED  BY <1>1, <2>1, <2>2
  <1> HIDE DEF d
  <1>3. /\ e \in Seq(Nat) /\ Len(e) = n + 2 /\ e[n + 2] = 61 /\ e[1] = 45
        /\ \A i \in 2..n + 1 : e[i] = key[i - 1]
    <2>1. <<61>> \in Seq(Nat) /\ Len(<<61>>) = 1 /\ <<61>>[1] = 61
      OBVIOUS
    <2>2. /\ e \in Seq(Nat) /\ Len(e) = n + 1 + 1
          /\ \A i \in 1..n + 1 + 1 : e[i] = IF i <= n + 1 THEN d[i] ELSE <<61>>[i - (n + 1)]
      BY <1>1, <1>2, <2>1, ConcatProperties DEF Args!Equals
    <2> HIDE DEF e
    <2>3. e[n + 2] = 61
      BY <1>1, <2>1, <2>2
    <2>4. e[1] = 45
      BY <1>1, <1>2, <2>2
    <2>5. \A i \in 2..n + 1 : e[i] = key[i - 1]
      BY <1>1, <1>2, <2>2
    <2> QED  BY <1>1, <2>2, <2>3, <2>4, <2>5
  <1> HIDE DEF e
  <1>4. str = d <=> Len(str) = n + 1 /\ same
    <2>1. ASSUME Len(str) = n + 1, same PROVE str = d
      <3>1. \A i \in 1..Len(str) : i = 1 \/ i \in 2..n + 1
        BY <1>1, <2>1
      <3>2. \A i \in 1..Len(str) : str[i] = d[i]
        BY <1>1, <1>2, <2>1, <3>1, ZenonT(60)
      <3> QED  BY <1>2, <2>1, <3>2, SeqEqual
    <2> QED  BY <1>2, <2>1
  <1>5. Args!IsPrefix(e, str) <=> n + 2 <= Len(str) /\ str[n + 2] = 61 /\ same
    <2>1. Args!IsPrefix(e, str) <=>
              n + 2 <= Len(str) /\ SubSeq(e, 1, n + 2) = SubSeq(str, 1, n + 2)
      BY <1>3 DEF Args!IsPrefix
    <2>2. ASSUME n + 2 <= Len(str)
          PROVE  SubSeq(e, 1, n + 2) = SubSeq(str, 1, n + 2) <=> str[n + 2] = 61 /\ same
      <3> DEFINE a == SubSeq(e, 1, n + 2)
                 b == SubSeq(str, 1, n + 2)
      <3>1. /\ a \in Seq(Nat) /\ Len(a) = n + 2 /\ \A i \in 1..n + 2 : a[i] = e[i]
            /\ b \in Seq(Nat) /\ Len(b) = n + 2 /\ \A i \in 1..n + 2 : b[i] = str[i]
        <4>1. \A i \in 1..n + 2 : e[i] \in Nat /\ str[i] \in Nat
          BY <1>1, <1>3, <2>2
        <4>2. 1 \in Int /\ n + 2 \in Int /\ (n + 2) - 1 + 1 = n + 2 /\ 1 <= n + 2
          BY <1>1
        <4>3. a \in Seq(Nat) /\ Len(a) = n + 2 /\ \A i \in 1..(n + 2) - 1 + 1 : a[i] = e[1 + i - 1]
          BY <4>1, <4>2, SubSeqProperties
        <4>4. b \in Seq(Nat) /\ Len(b) = n + 2 /\ \A i \in 1..(n + 2) - 1 + 1 : b[i] = str[1 + i - 1]
          BY <4>1, <4>2, SubSeqProperties
        <4> HIDE DEF a, b
        <4> QED  BY <4>2, <4>3, <4>4, SMTT(60)
      <3> HIDE DEF a, b
      <3>2. ASSUME str[n + 2] = 61, same PROVE a = b
        <4>1. \A i \in 1..n + 2 : i = 1 \/ i = n + 2 \/ i \in 2..n + 1
          BY <1>1
        <4>2. ASSUME NEW i \in 1..n + 2 PROVE a[i] = b[i]
          <5>1. a[i] = e[i] /\ b[i] = str[i]
            BY <3>1
          <5>2. i \in 2..n + 1 => e[i] = str[i]
            BY <1>3, <3>2
          <5> QED  BY <1>3, <3>2, <4>1, <5>1, <5>2
        <4> QED  BY <3>1, <4>2, SeqEqual
      <3>3. ASSUME a = b PROVE str[n + 2] = 61 /\ same
        BY <1>1, <1>3, <3>1, <3>3, SMTT(60)
      <3> QED  BY <3>2, <3>3 DEF a, b
    <2> QED  BY <2>1, <2>2
  <1>6. \A m \in 2..Len(str) + 1 : SubSeq(str, 2, m - 1) = key <=> m = n + 2 /\ same
    <2> TAKE m \in 2..Len(str) + 1
    <2> DEFINE a == SubSeq(str, 2, m - 1)
    <2>1. /\ m \in Nat /\ m >= 2 /\ a \in Seq(Nat) /\ Len(a) = m - 2
          /\ \A i \in 1..m - 2 : a[i] = str[i + 1]
      <3>1. \A i \in 2..m - 1 : str[i] \in Nat
        BY <1>1
      <3>2. /\ a \in Seq(Nat) /\ Len(a) = IF 2 <= m - 1 THEN m - 1 - 2 + 1 ELSE 0
            /\ \A i \in 1..(m - 1) - 2 + 1 : a[i] = str[2 + i - 1]
        BY <1>1, <3>1, SubSeqProperties
      <3> HIDE DEF a
      <3> QED  BY <1>1, <3>2
    <2> HIDE DEF a
    <2>2. ASSUME m = n + 2, same PROVE a = key
      <3>1. \A i \in 1..n : i + 1 \in 2..n + 1 /\ (i + 1) - 1 = i
        BY <1>1
      <3>2. \A i \in 1..n : str[i + 1] = key[i]
        BY <2>2, <3>1
      <3>3. Len(a) = n /\ m - 2 = n
        BY <1>1, <2>1, <2>2
      <3>4. \A i \in 1..n : a[i] = key[i]
        BY <2>1, <3>2, <3>3
      <3> QED  BY <1>1, <2>1, <3>3, <3>4, SeqEqual
    <2>3. ASSUME a = key PROVE m = n + 2 /\ same
      <3>1. m = n + 2
        BY <1>1, <2>1, <2>3
      <3>2. ASSUME NEW i \in 2..n + 1 PROVE str[i] = key[i - 1]
        <4>1. i - 1 \in 1..m - 2 /\ (i - 1) + 1 = i
          BY <1>1, <2>1, <3>1
        <4>2. a[i - 1] = str[(i - 1) + 1]
          BY <2>1, <4>1
        <4> QED  BY <2>3, <4>1, <4>2
      <3> QED  BY <3>1, <3>2
    <2> QED  BY <2>2, <2>3 DEF a
  <1>7. CASE Args!EqualsIn(str) = {}
    <2>1. \A i \in 1..Len(str) : str[i] # 61
      <3> SUFFICES ASSUME NEW i \in 1..Len(str), str[i] = 61 PROVE FALSE
        OBVIOUS
      <3>1. i \in Args!EqualsIn(str)
        BY DEF Args!EqualsIn, Args!Equals
      <3> QED  BY <1>7, <3>1
    <2>2. KeyOf(str) = SubSeq(str, 2, (Len(str) + 1) - 1) /\ ValueOf(str) = Args!trueText
      BY <1>1, <1>7 DEF KeyOf, ValueOf, Args!Behind
    <2>3. Len(str) + 1 \in 2..Len(str) + 1
      BY <1>1
    <2>4. KeyOf(str) = key <=> Len(str) + 1 = n + 2 /\ same
      BY <1>6, <2>2, <2>3
    <2>5. ~Args!IsPrefix(e, str)
      BY <1>1, <1>5, <2>1
    <2>6. KeyOf(str) = key <=> str = d
      BY <1>1, <1>4, <2>4
    <2> QED  BY <2>2, <2>5, <2>6 DEF d, e
  <1>8. CASE Args!EqualsIn(str) # {}
    <2>1. /\ pos \in 1..Len(str) /\ str[pos] = 61
          /\ \A q \in 1..Len(str) : str[q] = 61 => pos <= q
      BY <1>8, FirstIs
    <2>2. KeyOf(str) = SubSeq(str, 2, pos - 1) /\ ValueOf(str) = Args!Behind(str, pos)
      BY <1>8, <2>1 DEF KeyOf, ValueOf
    <2> HIDE DEF pos
    <2>3. pos \in 2..Len(str) + 1
      BY <1>1, <2>1
    <2>4. KeyOf(str) = key <=> pos = n + 2 /\ same
      BY <1>6, <2>2, <2>3
    <2>5. ~(str = d)
      <3> SUFFICES ASSUME Len(str) = n + 1, same PROVE FALSE
        BY <1>4
      <3>1. pos \in 2..n + 1 /\ pos - 1 \in 1..n
        BY <1>1, <2>1, <2>3
      <3> QED  BY <1>1, <2>1, <3>1
    <2>6. ASSUME Args!IsPrefix(e, str) PROVE pos = n + 2 /\ same
      <3>1. n + 2 \in 1..Len(str) /\ str[n + 2] = 61 /\ same
        BY <1>1, <1>5, <2>6
      <3>2. pos <= n + 2
        BY <2>1, <3>1
      <3>3. ASSUME pos < n + 2 PROVE FALSE
        <4>1. pos \in 2..n + 1 /\ pos - 1 \in 1..n
          BY <1>1, <2>3, <3>3
        <4> QED  BY <1>1, <2>1, <3>1, <4>1, SMTT(60)
      <3> QED  BY <1>1, <2>3, <3>1, <3>2, <3>3
    <2>7. ASSUME pos = n + 2, same PROVE Args!IsPrefix(e, str)
      BY <1>1, <1>5, <2>1, <2>7
    <2>8. Args!IsPrefix(e, str) => ValueOf(str) = Args!Behind(str, Len(key) + 2)
      BY <1>1, <2>2, <2>6
    <2> QED  BY <2>4, <2>5, <2>6, <2>7, <2>8 DEF d, e
  <1> QED  BY <1>7, <1>8

LEMMA LastOfAll == Args!ArgumentAssumption /\ ArgInv => LastArgumentCounts
  <1> SUFFICES ASSUME Args!ArgumentAssumption, ArgInv PROVE LastArgumentCounts
    OBVIOUS
  <1>1. /\ argv \in Seq(Seq(Nat)) /\ Len(argv) \in Nat /\ DOMAIN argv = 1..Len(argv)
        /\ \A i \in DOMAIN argv : argv[i] \in Seq(Nat)
    BY DEF ArgInv, ArgTypes
  <1>2. outcome = "thrown" <=> \E i \in 1..index : argv[i] = <<>>
    BY DEF ArgInv, EmptyThrows
  <1>3. ASSUME outcome = "parsed", Args!WellFormed, NEW key \in Args!Keys,
               NEW default \in {<<>>, Args!trueText}
        PROVE  /\ Args!GetString(key, default) = IF Args!Giving(key) = {} THEN default
                                                ELSE Args!LastValue(key)
               /\ Args!GetBool(key, FALSE) <=> /\ Args!Giving(key) # {}
                                              /\ Args!LastValue(key) = Args!trueText
    <2> DEFINE G == Args!Giving(key)
    <2>1. index = Len(argv) /\ LastSoFar /\ outcome # "thrown"
      BY <1>3 DEF ArgInv, EmptyThrows
    <2>2. key \in Seq(Nat) /\ Args!EqualsIn(key) = {}
      BY ArgumentsAre DEF Args!Keys
    <2>3. ASSUME NEW i \in DOMAIN argv
          PROVE  /\ i \in G <=> KeyOf(argv[i]) = key
                 /\ i \in G => ValueOf(argv[i]) = IF argv[i] = <<Args!Dash>> \o key
                                               THEN Args!trueText
                                               ELSE Args!Behind(argv[i], Len(key) + 2)
      <3>1. argv[i] \in Seq(Nat) /\ Len(argv[i]) > 0 /\ argv[i][1] = 45
        BY <1>1, <1>3 DEF Args!WellFormed, Args!Dash
      <3>2. i \in G <=> \/ argv[i] = <<Args!Dash>> \o key
                        \/ Args!IsPrefix(<<Args!Dash>> \o key \o <<Args!Equals>>, argv[i])
        BY DEF Args!Giving
      <3> QED  BY <2>2, <3>1, <3>2, KeyIs, ZenonT(60)
    <2>4. G \subseteq 1..Len(argv)
      BY <1>1 DEF Args!Giving
    <2> HIDE DEF G
    <2>5. CASE G = {}
      <3>1. key \notin DOMAIN m_arguments
        BY <1>1, <2>1, <2>3, <2>5 DEF LastSoFar
      <3> QED  BY <2>5, <3>1 DEF Args!GetString, Args!GetBool, G
    <2>6. CASE G # {}
      <3>1. key \in DOMAIN m_arguments
        BY <1>1, <2>1, <2>3, <2>4, <2>6 DEF LastSoFar
      <3>2. PICK i \in 1..Len(argv) : /\ KeyOf(argv[i]) = key
                                      /\ m_arguments[key] = ValueOf(argv[i])
                                      /\ \A j \in 1..Len(argv) : KeyOf(argv[j]) = key => j <= i
        BY <2>1, <3>1 DEF LastSoFar
      <3>3. i \in G /\ \A j \in G : j <= i
        BY <1>1, <2>3, <2>4, <3>2
      <3>4. i = CHOOSE k \in G : \A j \in G : j <= k
        <4> DEFINE c == CHOOSE k \in G : \A j \in G : j <= k
        <4>1. c \in G /\ \A j \in G : j <= c
          BY <3>3
        <4> HIDE DEF c
        <4>2. i \in Nat /\ c \in Nat /\ i <= c /\ c <= i
          BY <1>1, <2>4, <3>3, <4>1
        <4>3. i = c
          BY <4>2
        <4> QED  BY <4>3 DEF c
      <3>5. m_arguments[key] = Args!LastValue(key)
        BY <1>1, <2>3, <3>2, <3>3, <3>4 DEF Args!LastValue, G
      <3> QED  BY <2>6, <3>1, <3>5 DEF Args!GetString, Args!GetBool, G
    <2> QED  BY <2>5, <2>6
  <1> QED  BY <1>2, <1>3 DEF LastArgumentCounts, Args!LastArgumentCounts
-----------------------------------------------------------------------------
\* Of the arguments read so far the map has the keys, each with the value of the last
\* argument that has it; the constructor has thrown just if one of them is empty
\* (ArgumentParser.cpp 12-21).
THEOREM ArgsInvariant == Args!Spec => []ArgInv
  <1> USE ResourcesAssumption
  <1> QED  BY ArgInit, ArgStep, PTL DEF Args!Spec

\* The last of several arguments counts (ArgumentParser.cpp 12-21): the invariant says
\* what is entered under which key, KeyIs that this is the key the argument gives.
THEOREM LastArgumentWins == Args!Spec => []LastArgumentCounts
  <1> USE ResourcesAssumption
  <1>1. ArgInv => LastArgumentCounts
    BY LastOfAll
  <1> QED  BY <1>1, ArgsInvariant, PTL
-----------------------------------------------------------------------------
\* No part disturbs another: put together, each is what it is by itself.
THEOREM PartsAreThemselves ==
    ResourcesSpec => Spec /\ Mon!Spec /\ Java!Spec /\ Val!Spec /\ Args!Spec
  <1> USE DEF vars, monitorVars, javaVars, valueVars, argumentVars
  <1>1. ResourcesInit => Init /\ Mon!Init /\ Java!Init /\ Val!Init /\ Args!Init
    <2> SUFFICES ASSUME ResourcesInit PROVE Java!Init /\ Args!Init
      BY DEF ResourcesInit
    <2>1. NoJava => Java!Init
      BY DEF NoJava, Java!Init
    <2>2. NoArguments => Args!Init
      <3>1. <<>> \in [1..0 -> Args!BoundedSeq(ArgChars, MaxArg)] /\ 0 \in 0..MaxArgs
        BY ResourcesAssumption DEF Args!ArgumentAssumption
      <3>2. <<>> \in Args!BoundedSeq(Args!BoundedSeq(ArgChars, MaxArg), MaxArgs)
        BY <3>1 DEF Args!BoundedSeq, Args!SeqOf
      <3> QED  BY <3>2 DEF NoArguments, Args!Init
    <2> QED  BY <2>1, <2>2 DEF ResourcesInit
  <1>2. [ResourcesNext]_resourcesVars => [Next]_vars
    BY DEF ResourcesNext, resourcesVars
  <1>3. [ResourcesNext]_resourcesVars => [Mon!Next]_(Mon!vars)
    BY DEF ResourcesNext, resourcesVars, Mon!vars
  <1>4. [ResourcesNext]_resourcesVars => [Java!Next]_(Java!vars)
    BY DEF ResourcesNext, resourcesVars, Java!vars
  <1>5. [ResourcesNext]_resourcesVars => [Val!Next]_(Val!vars)
    BY DEF ResourcesNext, resourcesVars, Val!vars
  <1>6. [ResourcesNext]_resourcesVars => [Args!Next]_(Args!vars)
    BY DEF ResourcesNext, resourcesVars, Args!vars
  <1> QED  BY <1>1, <1>2, <1>3, <1>4, <1>5, <1>6, PTL
           DEF ResourcesSpec, Spec, Mon!Spec, Java!Spec, Val!Spec, Args!Spec

\* So what is proved of the parts holds of the specification that is model-checked.
THEOREM HoldsTogether ==
    ResourcesSpec => /\ [](/\ ValuesBelongToThreads /\ NestedWaitKeepsMutex
                           /\ AttachedWhileHeld /\ ValuesReadBack /\ LastArgumentCounts)
                     /\ WaitRestoresHold
  BY PartsAreThemselves, EveryValueBelongs, NestedWaits, AttachedByHolding, ValuesAreReadBack,
     LastArgumentWins, WaitsRestoreTheirHold, PTL
=============================================================================
