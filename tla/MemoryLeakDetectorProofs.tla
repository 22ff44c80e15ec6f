----------------------- MODULE MemoryLeakDetectorProofs -----------------------
(***************************************************************************)
(* Theorems about MemoryLeakDetector, for any threads, addresses and       *)
(* sizes.  The list is spoken of by the sequence of its blocks, which each *)
(* step under the critical section extends, cuts or leaves; what the walk  *)
(* along next meets (Nth, Reached, FindBlock) is computed from it.  That   *)
(* the report is exact takes besides that the block a thread is about to   *)
(* insert, or has unlinked, is the one of the address it holds.            *)
(***************************************************************************)
EXTENDS MemoryLeakDetector, FiniteSetTheorems, WellFoundedInduction, TLAPS

labels == {"idle", "insert", "count", "link", "remove", "unlink", "drop", "free", "scan"}
inside == {"count", "link", "unlink", "drop", "scan"}
holding == {"count", "link", "unlink", "drop"}

\* The blocks that are in the list, and those the counters have counted.
Loose == {pBlock[t] : t \in {u \in Threads : pc[u] \in {"count", "link", "drop"}}}
Uncounted == {pBlock[t] : t \in {u \in Threads : pc[u] = "count"}}
Listed == Allocated \ Loose
Counted == Allocated \ Uncounted

\* s is the sequence of the blocks of the list.
IsList(n, s) ==
    /\ \A i, j \in 1..n : s[i] = s[j] => i = j
    /\ Listed = {s[i] : i \in 1..n}
    /\ m_pHead = IF n = 0 THEN None ELSE s[1]
    /\ m_pTail = IF n = 0 THEN None ELSE s[n]
    /\ \A i \in 1..n : /\ block[s[i]].next = IF i = n THEN None ELSE s[i + 1]
                       /\ block[s[i]].prev = IF i = 1 THEN None ELSE s[i - 1]
Linked == \E n \in 0..Cardinality(Blocks) : \E s \in [1..n -> Blocks] : IsList(n, s)

\* Who is inside the critical section, and what each thread works on.
Mutex == \A t \in Threads : m_mutex = t <=> pc[t] \in inside
Locals ==
    \A t \in Threads :
       /\ ptr[t] = None <=> pc[t] \in {"idle", "scan"}
       /\ pBlock[t] = None <=> pc[t] \notin holding
       /\ pc[t] \in holding => pBlock[t] \in Allocated /\ block[pBlock[t]].address = ptr[t]
       /\ pc[t] \in {"count", "link"} => block[pBlock[t]].next = None /\ block[pBlock[t]].prev = None
Pointers ==
    /\ \A t \in Threads : ptr[t] /= None => heap[ptr[t]] /= None
    /\ \A t, u \in Threads : ptr[t] = ptr[u] /\ ptr[t] /= None => t = u
    /\ \A t \in Threads : pc[t] = "insert" => heap[ptr[t]].tid = t /\ heap[ptr[t]].tracked

\* A block has the size and the thread of the memory it stands for, which is what is
\* allocated by the tracked operator new and neither before its insertion nor after
\* its removal.
Recorded ==
    /\ \A b \in Allocated :
          LET a == block[b].address
          IN  heap[a] /= None /\ heap[a].size = block[b].size /\ heap[a].tid = block[b].tid
    /\ \A b, c \in Allocated : block[b].address = block[c].address => b = c
    /\ \A a \in Addresses : (\E b \in Allocated : block[b].address = a) <=>
                               heap[a] /= None /\ heap[a].tracked /\ a \notin InFlight
Totals == /\ m_nLeakBlockCount = Cardinality(Counted)
          /\ m_nLeakMemorySize = MapThenSumSet(LAMBDA b : block[b].size, Counted)

Consistent == /\ Locals /\ Pointers /\ Recorded
              /\ filenames \subseteq Allocated /\ Linked /\ Totals
Quiet == destroyed => \A t \in Threads : pc[t] = "idle"
IInv == TypeOK /\ Mutex /\ Quiet /\ (destroyed \/ Consistent)
-----------------------------------------------------------------------------
\* A set of natural numbers that is not empty has a least element.
LEMMA LeastOf ==
  ASSUME NEW S \in SUBSET Nat, S # {}
  PROVE  \E x \in S : \A y \in S : x <= y
  <1> DEFINE R == {ss \in Nat \X Nat : ss[1] < ss[2]}
  <1>1. IsWellFoundedOn(R, Nat)
    BY NatLessThanWellFounded DEF OpToRel
  <1>2. \A x, y \in S : <<y, x>> \in R <=> y < x
    OBVIOUS
  <1> HIDE DEF R
  <1>3. PICK x \in S : \A y \in S : ~(<<y, x>> \in R)
    BY <1>1, WFMin
  <1>4. ASSUME NEW y \in S PROVE x <= y
    <2>1. ~(y < x)
      BY <1>2, <1>3, Zenon
    <2> QED  BY <2>1
  <1> QED  BY <1>4

\* The sum of the sizes of a finite set of blocks, as MapThenSumSet computes it: the
\* function it goes through, from the empty set up.
Chosen(s) == CHOOSE x \in s : TRUE
Sums(g, S) == CHOOSE iter : iter = [s \in SUBSET S |->
                 IF s = {} THEN 0 ELSE g[Chosen(s)].size + iter[s \ {Chosen(s)}]]
Sum(g, S) == Sums(g, S)[S]

LEMMA ChosenIn ==
  ASSUME NEW s, s # {}
  PROVE  Chosen(s) \in s
  BY DEF Chosen

LEMMA SmallerBy ==
  ASSUME NEW s, IsFiniteSet(s), s # {}
  PROVE  /\ IsFiniteSet(s \ {Chosen(s)})
         /\ Cardinality(s) \in Nat /\ Cardinality(s \ {Chosen(s)}) \in Nat
         /\ Cardinality(s) = Cardinality(s \ {Chosen(s)}) + 1
  <1>1. Chosen(s) \in s
    BY ChosenIn
  <1>2. /\ IsFiniteSet(s \ {Chosen(s)})
        /\ Cardinality(s \ {Chosen(s)}) = Cardinality(s) - 1
    BY <1>1, FS_RemoveElement
  <1>3. Cardinality(s) \in Nat /\ Cardinality(s \ {Chosen(s)}) \in Nat
    BY <1>2, FS_CardinalityType
  <1> QED  BY <1>2, <1>3

\* There is such a function, whatever the set.
LEMMA SumsAre ==
  ASSUME NEW g, NEW S, IsFiniteSet(S)
  PROVE  \A s \in SUBSET S :
            Sums(g, S)[s] = IF s = {} THEN 0 ELSE g[Chosen(s)].size + Sums(g, S)[s \ {Chosen(s)}]
  <1> DEFINE D(n) == {s \in SUBSET S : Cardinality(s) <= n}
             Eq(f, n) == f = [s \in D(n) |-> IF s = {} THEN 0 ELSE g[Chosen(s)].size + f[s \ {Chosen(s)}]]
             Bad == {n \in Nat : ~ \E f : Eq(f, n)}
  <1>0. \A s \in SUBSET S : IsFiniteSet(s) /\ Cardinality(s) \in Nat
    BY FS_Subset, FS_CardinalityType
  <1>1. Bad = {}
    <2> SUFFICES ASSUME Bad # {} PROVE FALSE
      OBVIOUS
    <2>1. PICK n \in Bad : \A m \in Bad : n <= m
      <3>1. Bad \in SUBSET Nat
        OBVIOUS
      <3> HIDE DEF Bad
      <3> QED  BY <3>1, LeastOf
    <2>2. n \in Nat /\ ~ \E f : Eq(f, n)
      OBVIOUS
    <2>3. CASE n = 0
      <3>1. D(0) = {{}}
        <4>1. \A s \in SUBSET S : Cardinality(s) <= 0 <=> s = {}
          <5> SUFFICES ASSUME NEW s \in SUBSET S PROVE Cardinality(s) <= 0 <=> s = {}
            OBVIOUS
          <5>1. IsFiniteSet(s) /\ Cardinality(s) \in Nat
            BY <1>0
          <5>2. Cardinality(s) = 0 <=> s = {}
            BY <5>1, FS_EmptySet
          <5> QED  BY <5>1, <5>2
        <4> QED  BY <4>1
      <3>2. Eq([s \in D(0) |-> 0], 0)
        BY <3>1
      <3> QED  BY <2>2, <2>3, <3>2
    <2>4. CASE n # 0
      <3>1. n - 1 \in Nat /\ n - 1 \notin Bad
        <4>1. n - 1 \in Nat /\ ~(n <= n - 1)
          BY <2>2, <2>4
        <4> HIDE DEF Bad
        <4> QED  BY <2>1, <4>1
      <3>2. PICK f : Eq(f, n - 1)
        BY <3>1
      <3> DEFINE h == [s \in D(n) |-> IF s \in D(n - 1) THEN f[s]
                                      ELSE g[Chosen(s)].size + f[s \ {Chosen(s)}]]
      <3>3. {} \in D(n - 1) /\ f[{}] = 0
        BY <3>1, <3>2, FS_EmptySet
      <3>4. ASSUME NEW s \in D(n), s # {}
            PROVE  /\ s \ {Chosen(s)} \in D(n - 1) /\ s \ {Chosen(s)} \in D(n)
                   /\ h[s] = g[Chosen(s)].size + f[s \ {Chosen(s)}]
        <4>1. IsFiniteSet(s)
          BY <1>0
        <4>2. /\ Cardinality(s) \in Nat /\ Cardinality(s \ {Chosen(s)}) \in Nat
              /\ Cardinality(s) = Cardinality(s \ {Chosen(s)}) + 1
          BY <3>4, <4>1, SmallerBy
        <4>3. s \ {Chosen(s)} \in D(n - 1) /\ s \ {Chosen(s)} \in D(n)
          BY <2>2, <4>2
        <4>4. s \in D(n - 1) => f[s] = g[Chosen(s)].size + f[s \ {Chosen(s)}]
          BY <3>2, <3>4
        <4> QED  BY <4>3, <4>4
      <3>5. \A s \in D(n) : s # {} => h[s \ {Chosen(s)}] = f[s \ {Chosen(s)}]
        BY <3>4
      <3>6. {} \in D(n) /\ h[{}] = 0
        BY <2>2, <3>3, FS_EmptySet
      <3>7. \A s \in D(n) : h[s] = IF s = {} THEN 0 ELSE g[Chosen(s)].size + h[s \ {Chosen(s)}]
        BY <3>4, <3>5, <3>6
      <3>8. h = [s \in D(n) |-> h[s]]
        OBVIOUS
      <3> HIDE DEF h
      <3>9. Eq(h, n)
        BY <3>7, <3>8
      <3> QED  BY <2>2, <3>9
    <2> QED  BY <2>3, <2>4
  <1>2. Cardinality(S) \in Nat
    BY FS_CardinalityType
  <1>3. PICK f : Eq(f, Cardinality(S))
    BY <1>1, <1>2
  <1>4. D(Cardinality(S)) = SUBSET S
    BY FS_Subset
  <1>5. f = [s \in SUBSET S |-> IF s = {} THEN 0 ELSE g[Chosen(s)].size + f[s \ {Chosen(s)}]]
    BY <1>3, <1>4
  <1>6. Sums(g, S) = [s \in SUBSET S |->
            IF s = {} THEN 0 ELSE g[Chosen(s)].size + Sums(g, S)[s \ {Chosen(s)}]]
    BY <1>5 DEF Sums
  <1> QED  BY <1>6

LEMMA SumsOf ==
  ASSUME NEW g, NEW S, IsFiniteSet(S), NEW s \in SUBSET S
  PROVE  /\ s = {} => Sums(g, S)[s] = 0
         /\ s # {} => /\ Chosen(s) \in s /\ s \ {Chosen(s)} \in SUBSET S
                      /\ Sums(g, S)[s] = g[Chosen(s)].size + Sums(g, S)[s \ {Chosen(s)}]
  <1>1. Sums(g, S)[s] = IF s = {} THEN 0 ELSE g[Chosen(s)].size + Sums(g, S)[s \ {Chosen(s)}]
    BY SumsAre
  <1> QED  BY <1>1, ChosenIn

\* A set of finite sets that is not empty has a member none of whose proper subsets
\* is in it.
LEMMA SmallestOf ==
  ASSUME NEW S, IsFiniteSet(S), NEW B \in SUBSET (SUBSET S), B # {}
  PROVE  \E s \in B : \A t \in SUBSET s : t # s => t \notin B
  <1>1. B \subseteq FiniteSubsetsOf(S)
    BY FS_Subset DEF FiniteSubsetsOf
  <1>2. PICK s \in B : \A t \in B : ~(<<t, s>> \in StrictSubsetOrdering(S))
    BY <1>1, FS_StrictSubsetOrderingWellFounded, WFMin
  <1>3. ASSUME NEW t \in SUBSET s, t # s, t \in B
        PROVE  FALSE
    <2>1. <<t, s>> \in StrictSubsetOrdering(S)
      BY <1>3 DEF StrictSubsetOrdering
    <2> QED  BY <1>2, <1>3, <2>1
  <1> QED  BY <1>3

\* The sums of a set depend on its sizes alone, not on what else there is.
LEMMA SumsAgree ==
  ASSUME NEW g, NEW h, NEW S, IsFiniteSet(S), NEW T, IsFiniteSet(T),
         \A x \in S \cap T : g[x].size = h[x].size
  PROVE  \A s \in SUBSET (S \cap T) : Sums(g, S)[s] = Sums(h, T)[s]
  <1> DEFINE B == {s \in SUBSET (S \cap T) : Sums(g, S)[s] # Sums(h, T)[s]}
  <1> SUFFICES ASSUME B # {} PROVE FALSE
    OBVIOUS
  <1>1. PICK s \in B : \A t \in SUBSET s : t # s => t \notin B
    <2>1. B \in SUBSET (SUBSET S)
      OBVIOUS
    <2> HIDE DEF B
    <2> QED  BY <2>1, SmallestOf
  <1>2. s \in SUBSET S /\ s \in SUBSET T /\ Sums(g, S)[s] # Sums(h, T)[s]
    OBVIOUS
  <1>3. s # {}
    BY <1>2, SumsOf
  <1>4. /\ Chosen(s) \in s
        /\ Sums(g, S)[s] = g[Chosen(s)].size + Sums(g, S)[s \ {Chosen(s)}]
        /\ Sums(h, T)[s] = h[Chosen(s)].size + Sums(h, T)[s \ {Chosen(s)}]
    BY <1>2, <1>3, SumsOf, SMTT(60)
  <1>5. s \ {Chosen(s)} \in SUBSET s /\ s \ {Chosen(s)} # s
    BY <1>4
  <1>6. Sums(g, S)[s \ {Chosen(s)}] = Sums(h, T)[s \ {Chosen(s)}]
    BY <1>1, <1>2, <1>5
  <1> QED  BY <1>2, <1>4, <1>6

\* Whichever element is taken out, its size is what the sum loses.
LEMMA SumsWithout ==
  ASSUME NEW g, NEW S, IsFiniteSet(S), \A x \in S : g[x].size \in Nat
  PROVE  \A s \in SUBSET S : /\ Sums(g, S)[s] \in Nat
                            /\ \A x \in s : Sums(g, S)[s] = g[x].size + Sums(g, S)[s \ {x}]
  <1> DEFINE F == Sums(g, S)
             Good(s) == F[s] \in Nat /\ \A x \in s : F[s] = g[x].size + F[s \ {x}]
             B == {s \in SUBSET S : ~Good(s)}
  <1> SUFFICES ASSUME B # {} PROVE FALSE
    OBVIOUS
  <1>1. PICK s \in B : \A t \in SUBSET s : t # s => t \notin B
    <2>1. B \in SUBSET (SUBSET S)
      OBVIOUS
    <2> HIDE DEF B
    <2> QED  BY <2>1, SmallestOf
  <1>2. s \in SUBSET S /\ ~Good(s)
    OBVIOUS
  <1>3. \A t \in SUBSET s : t # s => Good(t)
    BY <1>1, <1>2
  <1>4. s # {}
    <2> SUFFICES ASSUME s = {} PROVE FALSE
      OBVIOUS
    <2>1. F[s] = 0
      BY <1>2, SumsOf
    <2>2. \A x \in s : FALSE
      OBVIOUS
    <2> HIDE DEF F
    <2> QED  BY <1>2, <2>1, <2>2
  <1> DEFINE c == Chosen(s)
  <1>5. c \in s /\ F[s] = g[c].size + F[s \ {c}]
    BY <1>2, <1>4, SumsOf, SMTT(60)
  <1> HIDE DEF c, F
  <1>6. Good(s \ {c}) /\ g[c].size \in Nat
    BY <1>2, <1>3, <1>5
  <1>7. F[s] \in Nat
    BY <1>5, <1>6
  <1>8. ASSUME NEW x \in s PROVE F[s] = g[x].size + F[s \ {x}]
    <2>1. CASE x = c
      BY <1>5, <2>1
    <2>2. CASE x # c
      <3>1. (s \ {c}) \ {x} = (s \ {x}) \ {c}
        OBVIOUS
      <3>2. F[s \ {c}] = g[x].size + F[(s \ {x}) \ {c}]
        BY <1>6, <2>2, <3>1
      <3>3. Good(s \ {x}) /\ c \in s \ {x}
        BY <1>3, <1>5, <2>2
      <3>4. F[s \ {x}] = g[c].size + F[(s \ {x}) \ {c}]
        BY <3>3
      <3>5. Good((s \ {x}) \ {c})
        BY <1>3, <1>5
      <3>6. g[x].size \in Nat /\ g[c].size \in Nat /\ F[(s \ {x}) \ {c}] \in Nat
        BY <1>2, <1>6, <3>5
      <3> QED  BY <1>5, <3>2, <3>4, <3>6
    <2> QED  BY <2>1, <2>2
  <1> QED  BY <1>2, <1>7, <1>8

LEMMA SumWithout ==
  ASSUME NEW g, NEW S, IsFiniteSet(S), \A x \in S : g[x].size \in Nat
  PROVE  /\ Sum(g, S) \in Nat
         /\ \A x \in S : Sum(g, S) = g[x].size + Sum(g, S \ {x}) /\ Sum(g, S \ {x}) \in Nat
  <1>1. Sum(g, S) \in Nat /\ \A x \in S : Sum(g, S) = g[x].size + Sums(g, S)[S \ {x}]
    BY SumsWithout DEF Sum
  <1>2. ASSUME NEW x \in S
        PROVE  Sums(g, S)[S \ {x}] = Sum(g, S \ {x}) /\ Sum(g, S \ {x}) \in Nat
    <2>1. IsFiniteSet(S \ {x})
      BY FS_RemoveElement
    <2>2. S \ {x} \in SUBSET (S \cap (S \ {x}))
      OBVIOUS
    <2>3. Sums(g, S)[S \ {x}] = Sums(g, S \ {x})[S \ {x}]
      BY <2>1, <2>2, SumsAgree
    <2>4. Sums(g, S)[S \ {x}] \in Nat
      BY SumsWithout
    <2> QED  BY <2>3, <2>4 DEF Sum
  <1> QED  BY <1>1, <1>2

LEMMA SumSame ==
  ASSUME NEW g, NEW h, NEW S, IsFiniteSet(S), \A x \in S : g[x].size = h[x].size
  PROVE  Sum(g, S) = Sum(h, S)
  BY SumsAgree DEF Sum
-----------------------------------------------------------------------------
LEMMA Constants ==
  /\ IsFiniteSet(Addresses) /\ IsFiniteSet(Blocks)
  /\ Cardinality(Addresses) \in Nat /\ Cardinality(Blocks) \in Nat
  /\ Cardinality(Addresses) <= Cardinality(Blocks)
  /\ None \notin Threads /\ None \notin Addresses /\ None \notin Blocks
  /\ None \notin Memory /\ None \notin MemoryBlock
  /\ Sizes \subseteq Nat
  BY DetectorAssumption, FS_CardinalityType

Types == /\ heap \in [Addresses -> Memory \cup {None}]
         /\ block \in [Blocks -> MemoryBlock \cup {None}]
         /\ filenames \subseteq Blocks
         /\ m_pHead \in Blocks \cup {None} /\ m_pTail \in Blocks \cup {None}
         /\ m_mutex \in Threads \cup {None}
         /\ pc \in [Threads -> labels]
         /\ ptr \in [Threads -> Addresses \cup {None}]
         /\ pBlock \in [Threads -> Blocks \cup {None}]
         /\ destroyed \in BOOLEAN

LEMMA TypeOKIs == TypeOK <=> Types /\ m_nLeakMemorySize \in Nat /\ m_nLeakBlockCount \in Nat
  BY DEF TypeOK, Types, labels

\* What the fields of an allocated block are.
LEMMA Fields ==
  ASSUME Types, NEW b \in Allocated
  PROVE  /\ b \in Blocks /\ block[b] \in MemoryBlock /\ block[b] /= None
         /\ block[b].address \in Addresses /\ block[b].size \in Nat /\ block[b].size \in Sizes
         /\ block[b].tid \in Threads
         /\ block[b].next \in Blocks \cup {None} /\ block[b].prev \in Blocks \cup {None}
  <1>1. b \in Blocks /\ block[b] /= None
    BY DEF Allocated
  <1>2. block[b] \in MemoryBlock
    BY <1>1 DEF Types
  <1> QED  BY <1>1, <1>2, Constants DEF MemoryBlock

LEMMA AllocatedFinite == IsFiniteSet(Allocated) /\ IsFiniteSet(Counted) /\ Counted \subseteq Allocated
  <1>1. Allocated \subseteq Blocks /\ Counted \subseteq Blocks /\ Counted \subseteq Allocated
    BY DEF Allocated, Counted
  <1> QED  BY <1>1, Constants, FS_Subset

\* A sequence of distinct blocks is no longer than there are blocks.
LEMMA Fits ==
  ASSUME NEW n \in Nat, NEW s \in [1..n -> Blocks], \A i, j \in 1..n : s[i] = s[j] => i = j
  PROVE  n <= Cardinality(Blocks)
  <1>1. s \in Injection(1..n, Blocks)
    BY DEF Injection, IsInjective
  <1>2. Cardinality(1..n) = n
    BY FS_Interval
  <1> QED  BY <1>1, <1>2, Constants, FS_Injection

\* The walk along next from m_pHead meets the blocks of the list in order, then NULL.
LEMMA Walk ==
  ASSUME NEW n \in 0..Cardinality(Blocks), NEW s \in [1..n -> Blocks], IsList(n, s)
  PROVE  /\ DOMAIN Nth = 0..Cardinality(Blocks)
         /\ \A m \in 0..Cardinality(Blocks) : Nth[m] = IF m < n THEN s[m + 1] ELSE None
  <1> DEFINE N == Cardinality(Blocks)
             f == [m \in 0..N |-> IF m < n THEN s[m + 1] ELSE None]
             Bad == {m \in 0..N : Nth[m] /= f[m]}
  <1>0. N \in Nat /\ n \in Nat /\ n <= N /\ None \notin Blocks
    BY Constants
  <1>1. \A m \in 1..n : s[m] \in Blocks /\ s[m] /= None
    BY <1>0
  <1>2. /\ m_pHead = IF n = 0 THEN None ELSE s[1]
        /\ \A i \in 1..n : block[s[i]].next = IF i = n THEN None ELSE s[i + 1]
    BY DEF IsList
  <1>3. ASSUME NEW m \in 0..N
        PROVE  f[m] = IF m = 0 THEN m_pHead ELSE IF f[m - 1] = None THEN None ELSE block[f[m - 1]].next
    <2>1. CASE m = 0
      BY <1>0, <1>2, <2>1
    <2>2. CASE m # 0
      <3>1. m - 1 \in 0..N /\ f[m - 1] = (IF m - 1 < n THEN s[m] ELSE None)
        BY <1>0, <2>2
      <3>2. CASE m - 1 < n
        <4>1. m \in 1..n
          BY <1>0, <2>2, <3>2
        <4>2. f[m - 1] = s[m] /\ f[m - 1] /= None
          BY <1>1, <3>1, <3>2, <4>1
        <4>3. block[s[m]].next = IF m = n THEN None ELSE s[m + 1]
          BY <1>2, <4>1
        <4>4. f[m] = IF m = n THEN None ELSE s[m + 1]
          BY <1>0, <4>1
        <4> QED  BY <2>2, <4>2, <4>3, <4>4
      <3>3. CASE ~(m - 1 < n)
        <4>1. f[m - 1] = None /\ f[m] = None
          BY <1>0, <3>1, <3>3
        <4> QED  BY <2>2, <4>1
      <3> QED  BY <3>2, <3>3
    <2> QED  BY <2>1, <2>2
  <1>4. f = [m \in 0..N |-> IF m = 0 THEN m_pHead ELSE IF f[m - 1] = None THEN None ELSE block[f[m - 1]].next]
    <2>1. f = [m \in 0..N |-> f[m]]
      OBVIOUS
    <2> HIDE DEF f
    <2> QED  BY <1>3, <2>1
  <1> HIDE DEF f
  <1>5. Nth = [m \in 0..N |-> IF m = 0 THEN m_pHead ELSE IF Nth[m - 1] = None THEN None ELSE block[Nth[m - 1]].next]
    BY <1>4 DEF Nth
  <1>6. /\ DOMAIN Nth = 0..N
        /\ \A m \in 0..N : Nth[m] = IF m = 0 THEN m_pHead
                                    ELSE IF Nth[m - 1] = None THEN None ELSE block[Nth[m - 1]].next
    BY <1>5
  <1>7. Bad = {}
    <2> SUFFICES ASSUME Bad # {} PROVE FALSE
      OBVIOUS
    <2>1. PICK m \in Bad : \A k \in Bad : m <= k
      <3>1. Bad \in SUBSET Nat
        BY <1>0
      <3> HIDE DEF Bad
      <3> QED  BY <3>1, LeastOf
    <2>2. m \in 0..N /\ Nth[m] /= f[m]
      OBVIOUS
    <2>3. m # 0
      BY <1>3, <1>6, <2>2
    <2>4. m - 1 \in 0..N /\ ~(m <= m - 1)
      BY <1>0, <2>2, <2>3
    <2>5. m - 1 \notin Bad
      <3> HIDE DEF Bad
      <3> QED  BY <2>1, <2>4
    <2>6. Nth[m - 1] = f[m - 1]
      BY <2>4, <2>5
    <2> QED  BY <1>3, <1>6, <2>2, <2>3, <2>6
  <1>8. \A m \in 0..N : Nth[m] = f[m]
    BY <1>7
  <1> QED  BY <1>6, <1>8 DEF f

LEMMA ReachedIsListed ==
  ASSUME Linked
  PROVE  Reached = Listed
  <1>0. PICK n \in 0..Cardinality(Blocks) : \E s \in [1..n -> Blocks] : IsList(n, s)
    BY DEF Linked
  <1>1. PICK s \in [1..n -> Blocks] : IsList(n, s)
    BY <1>0
  <1>2. /\ DOMAIN Nth = 0..Cardinality(Blocks)
        /\ \A m \in 0..Cardinality(Blocks) : Nth[m] = IF m < n THEN s[m + 1] ELSE None
    BY <1>1, Walk
  <1>3. Listed = {s[i] : i \in 1..n}
    BY <1>1 DEF IsList
  <1>4. n \in Nat /\ n <= Cardinality(Blocks) /\ Cardinality(Blocks) \in Nat
    BY Constants
  <1>5. ASSUME NEW m \in 0..Cardinality(Blocks), Nth[m] /= None
        PROVE  Nth[m] \in Listed
    BY <1>2, <1>3, <1>4, <1>5
  <1>6. ASSUME NEW b \in Listed
        PROVE  b \in Reached
    <2>1. PICK i \in 1..n : b = s[i]
      BY <1>3
    <2>2. i - 1 \in 0..Cardinality(Blocks) /\ i - 1 < n /\ (i - 1) + 1 = i
      BY <1>4
    <2>3. Nth[i - 1] = s[i]
      BY <1>2, <2>2
    <2>4. s[i] /= None
      BY Constants
    <2> QED  BY <1>2, <2>1, <2>2, <2>3, <2>4 DEF Reached
  <1> QED  BY <1>2, <1>5, <1>6 DEF Reached

LEMMA Finds ==
  ASSUME Linked, NEW a
  PROVE  \/ FindBlock(a) = None /\ \A b \in Listed : block[b].address /= a
         \/ FindBlock(a) \in Listed /\ block[FindBlock(a)].address = a
  <1> DEFINE hits == {n \in DOMAIN Nth : Nth[n] /= None /\ block[Nth[n]].address = a}
  <1>1. Reached = Listed
    BY ReachedIsListed
  <1>2. hits \in SUBSET Nat
    <2>1. DOMAIN Nth = 0..Cardinality(Blocks)
      BY Walk DEF Linked
    <2> QED  BY <2>1, Constants
  <1>3. CASE hits = {}
    <2>1. \A b \in Reached : block[b].address /= a
      BY <1>3 DEF Reached
    <2> QED  BY <1>1, <1>3, <2>1 DEF FindBlock
  <1>4. CASE hits # {}
    <2> DEFINE k == CHOOSE x \in hits : \A m \in hits : x <= m
    <2>1. k \in hits
      <3>1. \E x \in hits : \A m \in hits : x <= m
        <4> HIDE DEF hits
        <4> QED  BY <1>2, <1>4, LeastOf
      <3> HIDE DEF hits
      <3> QED  BY <3>1
    <2>2. FindBlock(a) = Nth[k]
      BY <1>4 DEF FindBlock
    <2> HIDE DEF k
    <2>3. Nth[k] \in Reached
      BY <2>1 DEF Reached
    <2> QED  BY <1>1, <2>1, <2>2, <2>3
  <1> QED  BY <1>3, <1>4
-----------------------------------------------------------------------------
LEMMA TotalsIs ==
  /\ Totals <=> m_nLeakBlockCount = Cardinality(Counted) /\ m_nLeakMemorySize = Sum(block, Counted)
  /\ Totals' <=> m_nLeakBlockCount' = Cardinality(Counted') /\ m_nLeakMemorySize' = Sum(block', Counted')
  <1>1. MapThenSumSet(LAMBDA b : block[b].size, Counted) = Sum(block, Counted)
    BY DEF MapThenSumSet, MapThenFoldSet, Sums, Sum, Chosen
  <1>2. MapThenSumSet(LAMBDA b : block'[b].size, Counted') = Sum(block', Counted')
    BY DEF MapThenSumSet, MapThenFoldSet, Sums, Sum, Chosen
  <1>3. Totals <=> m_nLeakBlockCount = Cardinality(Counted) /\ m_nLeakMemorySize = Sum(block, Counted)
    BY <1>1, Zenon DEF Totals
  <1>4. Totals' <=> m_nLeakBlockCount' = Cardinality(Counted') /\ m_nLeakMemorySize' = Sum(block', Counted')
    BY Zenon DEF Totals, MapThenSumSet, MapThenFoldSet, Sums, Sum, Chosen
  <1> QED  BY <1>3, <1>4

\* A step of a thread that neither puts a block on its way in or out nor takes it from
\* there.
LEMMA Places ==
  ASSUME pc \in [Threads -> labels], NEW t \in Threads, NEW there, Goto(t, there),
         \A u \in Threads \ {t} : pBlock'[u] = pBlock[u],
         pc[t] \notin {"count", "link", "drop"}, there \notin {"count", "link", "drop"}
  PROVE  Loose' = Loose /\ Uncounted' = Uncounted
  <1>1. pc'[t] = there /\ \A u \in Threads \ {t} : pc'[u] = pc[u]
    BY DEF Goto
  <1>2. \A x : x \in Loose' <=> x \in Loose
    BY <1>1 DEF Loose
  <1>3. \A x : x \in Uncounted' <=> x \in Uncounted
    BY <1>1 DEF Uncounted
  <1> QED  BY <1>2, <1>3

LEMMA ListStays ==
  ASSUME Linked, Totals, filenames \subseteq Allocated,
         UNCHANGED <<list, counters>>, Loose' = Loose, Uncounted' = Uncounted
  PROVE  Linked' /\ Totals' /\ filenames' \subseteq Allocated'
  <1>1. UNCHANGED <<block, m_pHead, m_pTail, filenames, m_nLeakMemorySize, m_nLeakBlockCount>>
    BY DEF list, counters
  <1>2. Allocated' = Allocated
    BY <1>1 DEF Allocated
  <1>3. Listed' = Listed /\ Counted' = Counted
    BY <1>2 DEF Listed, Counted
  <1>4. Linked'
    BY <1>1, <1>3, SMTT(60) DEF Linked, IsList
  <1>5. Totals'
    BY <1>1, <1>3, TotalsIs
  <1> QED  BY <1>1, <1>2, <1>4, <1>5
-----------------------------------------------------------------------------
\* A thread that works on an address works on it alone, and one inside the critical
\* section is there alone.
LEMMA Alone ==
  ASSUME Types, Mutex, NEW t \in Threads, pc[t] \in inside
  PROVE  m_mutex = t /\ \A u \in Threads \ {t} : pc[u] \notin inside
  BY DEF Mutex

LEMMA NobodyInside ==
  ASSUME Types, Mutex, m_mutex = None
  PROVE  /\ \A u \in Threads : pc[u] \notin inside
         /\ Loose = {} /\ Uncounted = {} /\ Listed = Allocated /\ Counted = Allocated
  <1>1. \A u \in Threads : pc[u] \notin inside
    BY Constants DEF Mutex
  <1>2. Loose = {} /\ Uncounted = {}
    BY <1>1 DEF Loose, Uncounted, inside
  <1> QED  BY <1>1, <1>2 DEF Listed, Counted

LEMMA NewBlockIs ==
  ASSUME Types, Recorded, NEW t \in Threads, pc[t] = "insert", ptr[t] \in Addresses
  PROVE  NewBlock \in Blocks /\ NewBlock \notin Allocated
  <1>1. Allocated # Blocks
    <2> SUFFICES ASSUME Allocated = Blocks PROVE FALSE
      OBVIOUS
    <2> DEFINE f == [b \in Blocks |-> block[b].address]
               rest == Addresses \ {ptr[t]}
    <2>1. ptr[t] \in InFlight
      BY DEF InFlight
    <2>2. \A b \in Blocks : block[b].address \in rest
      <3>1. \A b \in Blocks : block[b].address \in Addresses
        BY Fields
      <3>2. \A b \in Blocks : block[b].address /= ptr[t]
        BY <2>1 DEF Recorded
      <3> QED  BY <3>1, <3>2
    <2>3. f \in [Blocks -> rest]
      BY <2>2
    <2>4. IsFiniteSet(rest) /\ Cardinality(rest) = Cardinality(Addresses) - 1
      BY Constants, FS_RemoveElement
    <2>5. Cardinality(rest) < Cardinality(Blocks)
      BY <2>4, Constants
    <2> HIDE DEF rest, f
    <2>6. \E x, y \in Blocks : x # y /\ f[x] = f[y]
      BY <2>3, <2>4, <2>5, Constants, FS_PigeonHole
    <2> QED  BY <2>6 DEF Recorded, f
  <1>2. \E b \in Blocks : b \notin Allocated
    BY <1>1 DEF Allocated
  <1> QED  BY <1>2 DEF NewBlock
-----------------------------------------------------------------------------
Before == Types /\ Mutex /\ Locals /\ Pointers /\ Recorded /\ filenames \subseteq Allocated /\ Linked /\ Totals
After == Types' /\ Mutex' /\ Locals' /\ Pointers' /\ Recorded' /\ filenames' \subseteq Allocated' /\ Linked' /\ Totals'

LEMMA NewKeeps ==
  ASSUME Before, NEW t \in Threads, New(t)
  PROVE  After
  <1> USE DEF Before
  <1>1. PICK a \in Addresses, s \in Sizes :
           /\ heap[a] = None
           /\ heap' = [heap EXCEPT ![a] = [size |-> s, tid |-> t, tracked |-> TRUE]]
           /\ ptr' = [ptr EXCEPT ![t] = a]
    BY DEF New
  <1>2. /\ pc[t] = "idle" /\ pc' = [pc EXCEPT ![t] = "insert"] /\ Goto(t, "insert")
        /\ UNCHANGED <<block, filenames, m_mutex, pBlock, destroyed, list, counters, m_pHead, m_pTail>>
    BY DEF New, Goto, list
  <1>3. [size |-> s, tid |-> t, tracked |-> TRUE] \in Memory
    BY DEF Memory
  <1>4. Types'
    BY <1>1, <1>2, <1>3 DEF Types, labels
  <1>5. Mutex'
    BY <1>2 DEF Types, Mutex, inside
  <1>6. Allocated' = Allocated
    BY <1>2 DEF Allocated
  <1>7. Locals'
    BY <1>1, <1>2, <1>6, Constants DEF Types, Locals, holding, inside
  <1>8. \A u \in Threads : ptr[u] /= a
    BY <1>1, Constants DEF Pointers
  <1>9. Pointers'
    <2>1. /\ ptr'[t] = a /\ pc'[t] = "insert"
          /\ heap'[a] /= None /\ heap'[a].tid = t /\ heap'[a].tracked
      BY <1>1, <1>2, <1>3, Constants DEF Types
    <2>2. \A u \in Threads \ {t} : ptr'[u] = ptr[u] /\ pc'[u] = pc[u] /\ (ptr[u] /= None => heap'[ptr[u]] = heap[ptr[u]])
      BY <1>1, <1>2, <1>8 DEF Types
    <2>3. \A u \in Threads : ptr'[u] /= None => heap'[ptr'[u]] /= None
      BY <2>1, <2>2 DEF Pointers
    <2>4. \A u, v \in Threads : ptr'[u] = ptr'[v] /\ ptr'[u] /= None => u = v
      BY <1>8, <2>1, <2>2 DEF Pointers
    <2>5. \A u \in Threads : pc'[u] = "insert" => heap'[ptr'[u]].tid = u /\ heap'[ptr'[u]].tracked
      BY <2>1, <2>2 DEF Pointers, Locals
    <2> QED  BY <2>3, <2>4, <2>5 DEF Pointers
  <1>10. Recorded'
    <2>1. \A b \in Allocated : block[b].address \in Addresses /\ block[b].address /= a
      BY <1>1, Fields DEF Recorded
    <2>2. \A x : x \in InFlight' <=> x \in InFlight \/ x = a
      <3>1. ptr[t] = None /\ ptr'[t] = a /\ \A u \in Threads \ {t} : ptr'[u] = ptr[u] /\ pc'[u] = pc[u]
        BY <1>1, <1>2 DEF Types, Locals
      <3> QED  BY <1>2, <3>1 DEF Types, InFlight
    <2>3. \A x \in Addresses : x /= a => heap'[x] = heap[x]
      BY <1>1 DEF Types
    <2> QED  BY <1>2, <1>6, <2>1, <2>2, <2>3 DEF Recorded
  <1>11. Loose' = Loose /\ Uncounted' = Uncounted
    BY <1>2, Places DEF Types
  <1> QED  BY <1>2, <1>4, <1>5, <1>7, <1>9, <1>10, <1>11, ListStays DEF After

LEMMA PlainNewKeeps ==
  ASSUME Before, NEW t \in Threads, PlainNew(t)
  PROVE  After
  <1> USE DEF Before
  <1>1. PICK a \in Addresses, s \in Sizes :
           /\ heap[a] = None
           /\ heap' = [heap EXCEPT ![a] = [size |-> s, tid |-> t, tracked |-> FALSE]]
    BY DEF PlainNew
  <1>2. UNCHANGED <<block, filenames, m_mutex, pc, ptr, pBlock, destroyed, list, counters, m_pHead, m_pTail>>
    BY DEF PlainNew, local, list
  <1>3. [size |-> s, tid |-> t, tracked |-> FALSE] \in Memory
    BY DEF Memory
  <1>4. Types'
    BY <1>1, <1>2, <1>3 DEF Types
  <1>5. Mutex'
    BY <1>2 DEF Mutex
  <1>6. Allocated' = Allocated /\ InFlight' = InFlight /\ Loose' = Loose /\ Uncounted' = Uncounted
    BY <1>2 DEF Allocated, InFlight, Loose, Uncounted
  <1>7. Locals'
    BY <1>2, <1>6 DEF Locals
  <1>8. \A x \in Addresses : x /= a => heap'[x] = heap[x]
    BY <1>1 DEF Types
  <1>9. heap'[a] /= None /\ ~heap'[a].tracked
    BY <1>1, <1>3, Constants DEF Types
  <1>10. Pointers'
    <2>1. \A u \in Threads : ptr[u] /= None => ptr[u] \in Addresses /\ heap'[ptr[u]] = heap[ptr[u]]
      BY <1>1, <1>8 DEF Types, Pointers
    <2> QED  BY <1>2, <2>1 DEF Pointers, Locals
  <1>11. Recorded'
    <2>1. \A b \in Allocated : block[b].address \in Addresses /\ block[b].address /= a
      BY <1>1, Fields DEF Recorded
    <2> QED  BY <1>1, <1>2, <1>6, <1>8, <1>9, <2>1 DEF Recorded
  <1> QED  BY <1>4, <1>5, <1>6, <1>7, <1>10, <1>11, <1>2, ListStays DEF After

LEMMA DeleteKeeps ==
  ASSUME Before, NEW t \in Threads, Delete(t)
  PROVE  After
  <1> USE DEF Before
  <1>1. PICK a \in Live : ptr' = [ptr EXCEPT ![t] = a]
    BY DEF Delete
  <1>2. /\ pc[t] = "idle" /\ pc' = [pc EXCEPT ![t] = "remove"] /\ Goto(t, "remove")
        /\ UNCHANGED <<heap, block, filenames, m_mutex, pBlock, destroyed, list, counters, m_pHead, m_pTail>>
    BY DEF Delete, Goto, list
  <1>3. a \in Addresses /\ a /= None /\ heap[a] /= None /\ \A u \in Threads : ptr[u] /= a
    BY Constants DEF Live
  <1>4. Types'
    BY <1>1, <1>2, <1>3 DEF Types, labels
  <1>5. Mutex'
    BY <1>2 DEF Types, Mutex, inside
  <1>6. Allocated' = Allocated
    BY <1>2 DEF Allocated
  <1>7. Locals'
    BY <1>1, <1>2, <1>3, <1>6 DEF Types, Locals, holding, inside
  <1>8. /\ ptr'[t] = a /\ pc'[t] = "remove"
        /\ \A u \in Threads \ {t} : ptr'[u] = ptr[u] /\ pc'[u] = pc[u]
    BY <1>1, <1>2 DEF Types
  <1>9. Pointers'
    BY <1>2, <1>3, <1>8 DEF Pointers
  <1>10. Recorded'
    <2>1. \A x : x \in InFlight' <=> x \in InFlight
      BY <1>2, <1>8 DEF InFlight
    <2> QED  BY <1>2, <1>6, <2>1 DEF Recorded
  <1>11. Loose' = Loose /\ Uncounted' = Uncounted
    BY <1>2, Places DEF Types
  <1> QED  BY <1>2, <1>4, <1>5, <1>7, <1>9, <1>10, <1>11, ListStays DEF After

LEMMA FreeKeeps ==
  ASSUME Before, NEW t \in Threads, Free(t)
  PROVE  After
  <1> USE DEF Before
  <1>1. /\ pc[t] = "free" /\ pc' = [pc EXCEPT ![t] = "idle"] /\ Goto(t, "idle")
        /\ heap' = [heap EXCEPT ![ptr[t]] = None]
        /\ ptr' = [ptr EXCEPT ![t] = None]
        /\ UNCHANGED <<block, filenames, m_mutex, pBlock, destroyed, list, counters, m_pHead, m_pTail>>
    BY DEF Free, Goto, list
  <1>2. ptr[t] \in Addresses /\ ptr[t] /= None
    BY <1>1 DEF Types, Locals
  <1>3. Types'
    BY <1>1 DEF Types, labels
  <1>4. Mutex'
    BY <1>1 DEF Types, Mutex, inside
  <1>5. Allocated' = Allocated
    BY <1>1 DEF Allocated
  <1>6. /\ ptr'[t] = None /\ pc'[t] = "idle"
        /\ \A u \in Threads \ {t} : ptr'[u] = ptr[u] /\ pc'[u] = pc[u]
        /\ heap'[ptr[t]] = None
        /\ \A x \in Addresses : x /= ptr[t] => heap'[x] = heap[x]
    BY <1>1, <1>2 DEF Types
  <1>7. Locals'
    BY <1>1, <1>5, <1>6 DEF Locals, holding, inside
  <1>8. Pointers'
    <2>1. \A u \in Threads \ {t} : ptr[u] /= None => ptr[u] \in Addresses /\ ptr[u] /= ptr[t]
      BY <1>2 DEF Types, Pointers
    <2>2. \A u \in Threads \ {t} : ptr[u] /= None => heap'[ptr[u]] = heap[ptr[u]]
      BY <1>6, <2>1
    <2> QED  BY <1>6, <2>2 DEF Pointers, Locals
  <1>9. Recorded'
    <2>1. ptr[t] \in InFlight
      BY <1>1 DEF InFlight
    <2>2. \A b \in Allocated : block[b].address \in Addresses /\ block[b].address /= ptr[t]
      BY <1>2, <2>1, Fields DEF Recorded
    <2>3. \A x : x /= ptr[t] => (x \in InFlight' <=> x \in InFlight)
      BY <1>1, <1>6 DEF InFlight
    <2> QED  BY <1>1, <1>2, <1>5, <1>6, <2>1, <2>2, <2>3 DEF Recorded
  <1>10. Loose' = Loose /\ Uncounted' = Uncounted
    BY <1>1, Places DEF Types
  <1> QED  BY <1>1, <1>3, <1>4, <1>7, <1>8, <1>9, <1>10, ListStays DEF After

LEMMA ReportKeeps ==
  ASSUME Before, NEW t \in Threads, Report(t)
  PROVE  After
  <1> USE DEF Before
  <1>1. /\ pc[t] = "idle" /\ pc' = [pc EXCEPT ![t] = "scan"] /\ Goto(t, "scan")
        /\ m_mutex = None /\ m_mutex' = t
        /\ UNCHANGED <<heap, block, filenames, ptr, pBlock, destroyed, list, counters, m_pHead, m_pTail>>
    BY DEF Report, EnterCriticalSection, Goto, list
  <1>2. /\ pc'[t] = "scan" /\ \A u \in Threads \ {t} : pc'[u] = pc[u]
        /\ \A u \in Threads : pc[u] \notin inside
    BY <1>1, NobodyInside DEF Types
  <1>3. Types'
    BY <1>1 DEF Types, labels
  <1>4. Mutex'
    BY <1>1, <1>2, Constants DEF Mutex, inside
  <1>5. Allocated' = Allocated
    BY <1>1 DEF Allocated
  <1>6. Locals'
    BY <1>1, <1>2, <1>5 DEF Locals, holding, inside
  <1>7. Pointers'
    BY <1>1, <1>2 DEF Pointers
  <1>8. Recorded'
    <2>1. \A x : x \in InFlight' <=> x \in InFlight
      BY <1>1, <1>2 DEF InFlight
    <2> QED  BY <1>1, <1>5, <2>1 DEF Recorded
  <1>9. Loose' = Loose /\ Uncounted' = Uncounted
    BY <1>1, Places DEF Types
  <1> QED  BY <1>1, <1>3, <1>4, <1>6, <1>7, <1>8, <1>9, ListStays DEF After

LEMMA RemoveEnterKeeps ==
  ASSUME Before, NEW t \in Threads, RemoveEnter(t)
  PROVE  After
  <1> USE DEF Before
  <1> DEFINE b == FindBlock(ptr[t])
  <1>1. /\ pc[t] = "remove" /\ m_mutex = None
        /\ UNCHANGED <<heap, block, filenames, ptr, destroyed, list, counters, m_pHead, m_pTail>>
        /\ \/ b = None /\ Goto(t, "free") /\ UNCHANGED <<m_mutex, pBlock>>
           \/ b /= None /\ m_mutex' = t /\ Goto(t, "unlink") /\ pBlock' = [pBlock EXCEPT ![t] = b]
    BY DEF RemoveEnter, EnterCriticalSection, list
  <1>2. \/ b = None /\ \A x \in Listed : block[x].address /= ptr[t]
        \/ b \in Listed /\ block[b].address = ptr[t]
    BY Finds
  <1>3. (\A u \in Threads : pc[u] \notin inside) /\ Listed = Allocated
    BY <1>1, NobodyInside
  <1>4. b \in Allocated => b \in Blocks /\ b /= None
    BY Constants DEF Allocated
  <1> HIDE DEF b
  <1>5. PICK there \in {"free", "unlink"} :
           /\ Goto(t, there)
           /\ there = "free" => b = None /\ UNCHANGED <<m_mutex, pBlock>>
           /\ there = "unlink" => b /= None /\ m_mutex' = t /\ pBlock' = [pBlock EXCEPT ![t] = b]
    BY <1>1
  <1>6. pc'[t] = there /\ \A u \in Threads \ {t} : pc'[u] = pc[u] /\ pBlock'[u] = pBlock[u]
    BY <1>5 DEF Goto, Types
  <1>7. Types'
    BY <1>1, <1>2, <1>3, <1>4, <1>5 DEF Types, labels, Goto
  <1>8. Mutex'
    BY <1>1, <1>3, <1>5, <1>6, Constants DEF Mutex, inside
  <1>9. Allocated' = Allocated
    BY <1>1 DEF Allocated
  <1>10. Locals'
    <2>1. \A u \in Threads \ {t} : pc[u] \notin holding /\ pc[u] \notin {"count", "link"}
      BY <1>3 DEF inside, holding
    <2>2. there = "unlink" => pBlock'[t] = b /\ b /= None /\ b \in Allocated /\ block[b].address = ptr[t]
      BY <1>2, <1>3, <1>5 DEF Types
    <2>3. there = "free" => pBlock'[t] = pBlock[t]
      BY <1>5
    <2> QED  BY <1>1, <1>6, <1>9, <2>1, <2>2, <2>3 DEF Locals, holding, inside
  <1>11. Pointers'
    BY <1>1, <1>6 DEF Pointers
  <1>12. Recorded'
    <2>1. CASE there = "unlink"
      <3>1. \A x : x \in InFlight' <=> x \in InFlight
        BY <1>1, <1>6, <2>1 DEF InFlight
      <3> QED  BY <1>1, <1>9, <3>1 DEF Recorded
    <2>2. CASE there = "free"
      <3>1. \A x : x \in InFlight' <=> x \in InFlight \/ x = ptr[t]
        BY <1>1, <1>6, <2>2 DEF InFlight
      <3>2. \A x \in Allocated : block[x].address /= ptr[t]
        BY <1>2, <1>3, <1>4, <1>5, <2>2
      <3> QED  BY <1>1, <1>9, <3>1, <3>2 DEF Recorded
    <2> QED  BY <2>1, <2>2
  <1>13. Loose' = Loose /\ Uncounted' = Uncounted
    BY <1>1, <1>5, <1>6, Places DEF Types
  <1> QED  BY <1>1, <1>7, <1>8, <1>10, <1>11, <1>12, <1>13, ListStays DEF After
-----------------------------------------------------------------------------
\* A step of the thread inside the critical section: where the blocks on their way are.
LEMMA OnlyHere ==
  ASSUME Types, Mutex, NEW t \in Threads, pc[t] \in inside
  PROVE  /\ \A u \in Threads \ {t} : pc[u] \notin inside
         /\ Loose = IF pc[t] \in {"count", "link", "drop"} THEN {pBlock[t]} ELSE {}
         /\ Uncounted = IF pc[t] = "count" THEN {pBlock[t]} ELSE {}
  <1>1. \A u \in Threads \ {t} : pc[u] \notin inside
    BY Alone
  <1>2. \A x : x \in Loose <=> pc[t] \in {"count", "link", "drop"} /\ x = pBlock[t]
    BY <1>1 DEF Loose, inside
  <1>3. \A x : x \in Uncounted <=> pc[t] = "count" /\ x = pBlock[t]
    BY <1>1 DEF Uncounted, inside
  <1> QED  BY <1>1, <1>2, <1>3

LEMMA ThenHere ==
  ASSUME pc \in [Threads -> labels], NEW t \in Threads, NEW there, Goto(t, there),
         \A u \in Threads \ {t} : pc[u] \notin inside
  PROVE  /\ Loose' = IF there \in {"count", "link", "drop"} THEN {pBlock'[t]} ELSE {}
         /\ Uncounted' = IF there = "count" THEN {pBlock'[t]} ELSE {}
  <1>1. pc'[t] = there /\ \A u \in Threads \ {t} : pc'[u] = pc[u]
    BY DEF Goto
  <1>2. \A x : x \in Loose' <=> there \in {"count", "link", "drop"} /\ x = pBlock'[t]
    BY <1>1 DEF Loose, inside
  <1>3. \A x : x \in Uncounted' <=> there = "count" /\ x = pBlock'[t]
    BY <1>1 DEF Uncounted, inside
  <1> QED  BY <1>2, <1>3

\* A step that changes the links of blocks alone.
LEMMA SameRecords ==
  ASSUME Types, Recorded, Totals, Allocated' = Allocated, InFlight' = InFlight,
         Uncounted' = Uncounted, UNCHANGED <<heap, counters>>,
         \A b \in Allocated : /\ block'[b].address = block[b].address
                              /\ block'[b].size = block[b].size
                              /\ block'[b].tid = block[b].tid
  PROVE  Recorded' /\ Totals'
  <1>1. Recorded'
    BY DEF Recorded
  <1>2. Counted' = Counted /\ Counted \subseteq Allocated /\ IsFiniteSet(Counted)
    BY AllocatedFinite DEF Counted
  <1>3. Sum(block', Counted) = Sum(block, Counted)
    BY <1>2, SumSame
  <1> QED  BY <1>1, <1>2, <1>3, TotalsIs DEF counters

LEMMA InsertEnterKeeps ==
  ASSUME Before, NEW t \in Threads, InsertEnter(t)
  PROVE  After
  <1> USE DEF Before
  <1> DEFINE b == NewBlock
             r == [address |-> ptr[t], size |-> heap[ptr[t]].size, tid |-> t,
                   prev |-> None, next |-> None]
  <1>1. /\ pc[t] = "insert" /\ Goto(t, "count") /\ m_mutex = None /\ m_mutex' = t
        /\ block' = [block EXCEPT ![b] = r]
        /\ filenames' \in {filenames, filenames \cup {b}}
        /\ pBlock' = [pBlock EXCEPT ![t] = b]
        /\ UNCHANGED <<heap, m_pHead, m_pTail, ptr, destroyed, m_nLeakMemorySize, m_nLeakBlockCount>>
    BY DEF InsertEnter, EnterCriticalSection, counters
  <1>2. /\ ptr[t] \in Addresses /\ ptr[t] /= None /\ heap[ptr[t]] \in Memory
        /\ heap[ptr[t]] /= None /\ heap[ptr[t]].tid = t /\ heap[ptr[t]].tracked
        /\ heap[ptr[t]].size \in Sizes
    <2>1. ptr[t] \in Addresses /\ ptr[t] /= None
      BY <1>1 DEF Types, Locals
    <2>2. heap[ptr[t]] /= None /\ heap[ptr[t]].tid = t /\ heap[ptr[t]].tracked
      BY <1>1, <2>1 DEF Pointers
    <2>3. heap[ptr[t]] \in Memory
      BY <2>1, <2>2 DEF Types
    <2> QED  BY <2>1, <2>2, <2>3 DEF Memory
  <1>3. b \in Blocks /\ b \notin Allocated /\ b /= None
    BY <1>1, <1>2, NewBlockIs, Constants
  <1>4. /\ r \in MemoryBlock /\ r /= None
        /\ r.address = ptr[t] /\ r.size = heap[ptr[t]].size /\ r.tid = t
        /\ r.prev = None /\ r.next = None
    BY <1>2, Constants DEF MemoryBlock
  <1> HIDE DEF b, r
  <1>5. (\A u \in Threads : pc[u] \notin inside) /\ Loose = {} /\ Uncounted = {}
        /\ Listed = Allocated /\ Counted = Allocated
    BY <1>1, NobodyInside
  <1>6. /\ pc'[t] = "count" /\ \A u \in Threads \ {t} : pc'[u] = pc[u]
        /\ pBlock'[t] = b /\ \A u \in Threads \ {t} : pBlock'[u] = pBlock[u]
        /\ block'[b] = r /\ \A x \in Blocks \ {b} : block'[x] = block[x]
    BY <1>1, <1>3 DEF Types, Goto
  <1>7. Types'
    BY <1>1, <1>3, <1>4 DEF Types, labels, Goto
  <1>8. Mutex'
    BY <1>1, <1>5, <1>6, Constants DEF Mutex, inside
  <1>9. Allocated' = Allocated \cup {b}
    BY <1>3, <1>4, <1>6 DEF Allocated
  <1>10. Locals'
    <2>1. \A u \in Threads \ {t} : pc[u] \notin holding /\ pc[u] \notin {"count", "link"}
      BY <1>5 DEF inside, holding
    <2> QED  BY <1>1, <1>2, <1>3, <1>4, <1>6, <1>9, <2>1 DEF Locals, holding
  <1>11. Pointers'
    BY <1>1, <1>6 DEF Pointers
  <1>12. Recorded'
    <2>1. \A x : x \in InFlight' <=> x \in InFlight /\ x /= ptr[t]
      BY <1>1, <1>2, <1>6 DEF InFlight, Pointers
    <2>2. ptr[t] \in InFlight
      BY <1>1 DEF InFlight
    <2>3. \A x \in Allocated : x \in Blocks /\ x /= b /\ block'[x] = block[x] /\ block[x].address /= ptr[t]
      BY <1>2, <1>3, <1>6, <2>2 DEF Recorded, Allocated
    <2>4. \A x \in Allocated' : LET a == block'[x].address
                                IN  heap'[a] /= None /\ heap'[a].size = block'[x].size
                                    /\ heap'[a].tid = block'[x].tid
      BY <1>1, <1>2, <1>4, <1>6, <1>9, <2>3 DEF Recorded
    <2>5. \A x, y \in Allocated' : block'[x].address = block'[y].address => x = y
      BY <1>4, <1>6, <1>9, <2>3 DEF Recorded
    <2>6. ASSUME NEW a \in Addresses
          PROVE  (\E x \in Allocated' : block'[x].address = a) <=>
                     heap'[a] /= None /\ heap'[a].tracked /\ a \notin InFlight'
      <3>1. CASE a = ptr[t]
        BY <1>1, <1>2, <1>4, <1>6, <1>9, <2>1, <3>1
      <3>2. CASE a /= ptr[t]
        <4>1. (\E x \in Allocated' : block'[x].address = a) <=> (\E x \in Allocated : block[x].address = a)
          BY <1>4, <1>6, <1>9, <2>3, <3>2
        <4> QED  BY <1>1, <2>1, <3>2, <4>1 DEF Recorded
      <3> QED  BY <3>1, <3>2
    <2> QED  BY <2>4, <2>5, <2>6 DEF Recorded
  <1>13. Loose' = {b} /\ Uncounted' = {b}
    BY <1>1, <1>5, <1>6, ThenHere DEF Types
  <1>14. Listed' = Listed /\ Counted' = Counted
    BY <1>3, <1>5, <1>9, <1>13 DEF Listed, Counted
  <1>15. \A x \in Listed : block'[x] = block[x]
    BY <1>3, <1>5, <1>6 DEF Allocated
  <1>16. Linked'
    <2>1. PICK n \in 0..Cardinality(Blocks) : \E s \in [1..n -> Blocks] : IsList(n, s)
      BY DEF Linked
    <2>2. PICK s \in [1..n -> Blocks] : IsList(n, s)
      BY <2>1
    <2>3. \A i \in 1..n : block'[s[i]] = block[s[i]]
      BY <1>15, <2>2 DEF IsList
    <2>4. IsList(n, s)'
      BY <1>1, <1>14, <2>2, <2>3 DEF IsList
    <2> QED  BY <2>4 DEF Linked
  <1>17. Totals'
    <2>1. Sum(block', Counted) = Sum(block, Counted)
      BY <1>5, <1>15, AllocatedFinite, SumSame
    <2> QED  BY <1>1, <1>14, <2>1, TotalsIs
  <1> QED  BY <1>1, <1>7, <1>8, <1>9, <1>10, <1>11, <1>12, <1>16, <1>17 DEF After

LEMMA InsertCountKeeps ==
  ASSUME Before, NEW t \in Threads, InsertCount(t)
  PROVE  After
  <1> USE DEF Before
  <1> DEFINE b == pBlock[t]
  <1>1. /\ pc[t] = "count" /\ Goto(t, "link")
        /\ m_nLeakMemorySize' = m_nLeakMemorySize + block[b].size
        /\ m_nLeakBlockCount' = m_nLeakBlockCount + 1
        /\ UNCHANGED <<heap, block, filenames, m_pHead, m_pTail, m_mutex, ptr, pBlock, destroyed>>
    BY DEF InsertCount, list
  <1>2. b \in Allocated /\ block[b].size \in Nat
    BY <1>1, Fields DEF Locals, holding
  <1> HIDE DEF b
  <1>3. /\ \A u \in Threads \ {t} : pc[u] \notin inside
        /\ Loose = {b} /\ Uncounted = {b}
    BY <1>1, OnlyHere DEF inside, b
  <1>4. pc'[t] = "link" /\ \A u \in Threads \ {t} : pc'[u] = pc[u]
    BY <1>1 DEF Types, Goto
  <1>5. Types'
    BY <1>1 DEF Types, labels, Goto
  <1>6. Mutex'
    BY <1>1, <1>4 DEF Mutex, inside
  <1>7. Allocated' = Allocated
    BY <1>1 DEF Allocated
  <1>8. Locals'
    BY <1>1, <1>4, <1>7 DEF Locals, holding
  <1>9. Pointers'
    BY <1>1, <1>4 DEF Pointers
  <1>10. Recorded'
    <2>1. \A x : x \in InFlight' <=> x \in InFlight
      BY <1>1, <1>4 DEF InFlight
    <2> QED  BY <1>1, <1>7, <2>1 DEF Recorded
  <1>11. Loose' = {b} /\ Uncounted' = {}
    BY <1>1, <1>3, ThenHere DEF Types, b
  <1>12. Listed' = Listed /\ Counted' = Allocated /\ Counted = Allocated \ {b}
    BY <1>3, <1>7, <1>11 DEF Listed, Counted
  <1>13. Linked'
    <2>1. PICK n \in 0..Cardinality(Blocks) : \E s \in [1..n -> Blocks] : IsList(n, s)
      BY DEF Linked
    <2>2. PICK s \in [1..n -> Blocks] : IsList(n, s)
      BY <2>1
    <2>3. IsList(n, s)'
      BY <1>1, <1>12, <2>2 DEF IsList
    <2> QED  BY <2>3 DEF Linked
  <1>14. Totals'
    <2>1. /\ Cardinality(Allocated \ {b}) = Cardinality(Allocated) - 1
          /\ Cardinality(Allocated) \in Nat
      BY <1>2, AllocatedFinite, FS_RemoveElement, FS_CardinalityType
    <2>2. Sum(block, Allocated) = block[b].size + Sum(block, Allocated \ {b})
          /\ Sum(block, Allocated \ {b}) \in Nat
      BY <1>2, AllocatedFinite, Fields, SumWithout
    <2>3. m_nLeakBlockCount = Cardinality(Allocated \ {b}) /\ m_nLeakMemorySize = Sum(block, Allocated \ {b})
      BY <1>12, TotalsIs
    <2>4. m_nLeakBlockCount' = Cardinality(Allocated) /\ m_nLeakMemorySize' = Sum(block, Allocated)
      BY <1>1, <1>2, <2>1, <2>2, <2>3
    <2> QED  BY <1>1, <1>12, <2>4, TotalsIs
  <1> QED  BY <1>1, <1>5, <1>6, <1>7, <1>8, <1>9, <1>10, <1>13, <1>14 DEF After
-----------------------------------------------------------------------------
\* The sequence of the blocks of the list after a step.
LEMMA Relinked ==
  ASSUME NEW n \in 0..Cardinality(Blocks), NEW s \in [1..n -> Blocks],
         \A i, j \in 1..n : s[i] = s[j] => i = j,
         Listed' = {s[i] : i \in 1..n},
         m_pHead' = IF n = 0 THEN None ELSE s[1],
         m_pTail' = IF n = 0 THEN None ELSE s[n],
         \A i \in 1..n : /\ block'[s[i]].next = IF i = n THEN None ELSE s[i + 1]
                         /\ block'[s[i]].prev = IF i = 1 THEN None ELSE s[i - 1]
  PROVE  Linked'
  BY DEF Linked, IsList

LEMMA InsertLinkKeeps ==
  ASSUME Before, NEW t \in Threads, InsertLink(t)
  PROVE  After
  <1> USE DEF Before
  <1> DEFINE b == pBlock[t]
  <1>1. /\ pc[t] = "link" /\ Goto(t, "idle") /\ m_mutex' = None /\ Append(b)
        /\ ptr' = [ptr EXCEPT ![t] = None]
        /\ pBlock' = [pBlock EXCEPT ![t] = None]
        /\ UNCHANGED <<heap, filenames, destroyed, counters>>
    BY DEF InsertLink, LeaveCriticalSection
  <1>2. /\ b \in Allocated /\ b \in Blocks /\ b /= None /\ block[b] \in MemoryBlock /\ block[b] /= None
        /\ block[b].address = ptr[t]
        /\ block[b].next = None /\ block[b].prev = None
    BY <1>1, Fields, Constants DEF Locals, holding
  <1> HIDE DEF b
  <1>3. /\ \A u \in Threads \ {t} : pc[u] \notin inside
        /\ Loose = {b} /\ Uncounted = {} /\ m_mutex = t
    BY <1>1, OnlyHere, Alone DEF inside, b
  <1>4. /\ pc'[t] = "idle" /\ \A u \in Threads \ {t} : pc'[u] = pc[u]
        /\ ptr'[t] = None /\ \A u \in Threads \ {t} : ptr'[u] = ptr[u]
        /\ pBlock'[t] = None /\ \A u \in Threads \ {t} : pBlock'[u] = pBlock[u]
    BY <1>1 DEF Types, Goto
  <1>5. PICK n \in 0..Cardinality(Blocks) : \E s \in [1..n -> Blocks] : IsList(n, s)
    BY DEF Linked
  <1>6. PICK s \in [1..n -> Blocks] : IsList(n, s)
    BY <1>5
  <1>7. /\ n \in Nat /\ Cardinality(Blocks) \in Nat /\ n <= Cardinality(Blocks)
        /\ \A i \in 1..n : s[i] \in Blocks /\ s[i] /= None /\ s[i] \in Allocated /\ s[i] /= b
        /\ \A i, j \in 1..n : s[i] = s[j] => i = j
        /\ Listed = {s[i] : i \in 1..n}
        /\ \A i \in 1..n : /\ block[s[i]].next = IF i = n THEN None ELSE s[i + 1]
                           /\ block[s[i]].prev = IF i = 1 THEN None ELSE s[i - 1]
    BY <1>3, <1>6, Constants DEF IsList, Listed
  <1>8. Loose' = {} /\ Uncounted' = {}
    BY <1>1, <1>3, ThenHere DEF Types
  <1>9. Allocated' = Allocated => Listed' = Listed \cup {b}
    BY <1>2, <1>3, <1>8 DEF Listed
  <1>10. /\ Types' /\ Linked' /\ Allocated' = Allocated
         /\ \A x \in Allocated : /\ block'[x].address = block[x].address
                                 /\ block'[x].size = block[x].size
                                 /\ block'[x].tid = block[x].tid
    <2>1. CASE n = 0
      <3>1. m_pHead = None /\ m_pTail = None
        BY <1>6, <2>1 DEF IsList
      <3>2. m_pHead' = b /\ m_pTail' = b /\ block' = block
        BY <1>1, <3>1 DEF Append
      <3>3. Types'
        BY <1>1, <1>2, <3>2 DEF Types, labels, Goto
      <3>4. /\ Allocated' = Allocated
            /\ \A x \in Allocated : /\ block'[x].address = block[x].address
                                    /\ block'[x].size = block[x].size
                                    /\ block'[x].tid = block[x].tid
        BY <3>2 DEF Allocated
      <3> DEFINE s2 == [i \in 1..1 |-> b]
      <3>5. /\ s2 \in [1..1 -> Blocks] /\ s2[1] = b
            /\ m_pHead' = s2[1] /\ m_pTail' = s2[1]
            /\ block'[b].next = None /\ block'[b].prev = None
            /\ 1 \in 0..Cardinality(Blocks)
        <4>1. Cardinality(Blocks) # 0
          BY <1>2, Constants, FS_EmptySet
        <4> QED  BY <1>2, <1>7, <3>2, <4>1
      <3>6. Listed \cup {b} = {s2[i] : i \in 1..1}
        BY <1>7, <2>1
      <3> HIDE DEF s2
      <3>7. Linked'
        <4> DEFINE m == 1
        <4>1. /\ m \in 0..Cardinality(Blocks) /\ s2 \in [1..m -> Blocks] /\ m # 0
              /\ \A i, j \in 1..m : s2[i] = s2[j] => i = j
              /\ m_pHead' = s2[1] /\ m_pTail' = s2[m]
              /\ \A i \in 1..m : /\ block'[s2[i]].next = IF i = m THEN None ELSE s2[i + 1]
                                 /\ block'[s2[i]].prev = IF i = 1 THEN None ELSE s2[i - 1]
          BY <3>5
        <4>2. Listed' = Listed \cup {b}
          BY <1>9, <3>4
        <4>3. Listed' = {s2[i] : i \in 1..m}
          BY <3>6, <4>2
        <4> HIDE DEF m
        <4> QED  BY <4>1, <4>3, Relinked
      <3> QED  BY <3>3, <3>4, <3>7
    <2>2. CASE n # 0
      <3>1. /\ 1 \in 1..n /\ n \in 1..n /\ m_pHead = s[1] /\ m_pTail = s[n]
            /\ m_pHead /= None /\ m_pTail /= None /\ m_pTail /= b /\ m_pTail \in Allocated
            /\ m_pTail \in Blocks
        BY <1>6, <1>7, <2>2 DEF IsList
      <3>2. /\ block' = [block EXCEPT ![b].prev = m_pTail, ![m_pTail].next = b]
            /\ m_pTail' = b /\ m_pHead' = m_pHead
        BY <1>1, <3>1 DEF Append
      <3>3. /\ block'[b] = [block[b] EXCEPT !.prev = m_pTail]
            /\ block'[m_pTail] = [block[m_pTail] EXCEPT !.next = b]
            /\ \A x \in Blocks : x /= b /\ x /= m_pTail => block'[x] = block[x]
        BY <1>2, <3>1, <3>2 DEF Types
      <3>4. block[m_pTail] \in MemoryBlock
        BY <3>1, Fields
      <3>5. /\ block'[b] \in MemoryBlock /\ block'[m_pTail] \in MemoryBlock
            /\ block'[b].next = None /\ block'[b].prev = m_pTail
            /\ block'[m_pTail].next = b /\ block'[m_pTail].prev = block[m_pTail].prev
            /\ \A x \in {b, m_pTail} : /\ block'[x].address = block[x].address
                                       /\ block'[x].size = block[x].size
                                       /\ block'[x].tid = block[x].tid
        BY <1>2, <3>1, <3>3, <3>4 DEF MemoryBlock
      <3>6. block' \in [Blocks -> MemoryBlock \cup {None}]
        <4>1. \A x \in Blocks : block'[x] \in MemoryBlock \cup {None}
          BY <3>3, <3>5 DEF Types
        <4>2. block' = [x \in Blocks |-> block'[x]]
          BY <3>2 DEF Types
        <4> QED  BY <4>1, <4>2
      <3>7. Types'
        BY <1>1, <1>2, <3>1, <3>2, <3>6 DEF Types, labels, Goto
      <3>8. /\ Allocated' = Allocated
            /\ \A x \in Allocated : /\ block'[x].address = block[x].address
                                    /\ block'[x].size = block[x].size
                                    /\ block'[x].tid = block[x].tid
        <4>1. \A x \in Blocks : block'[x] /= None <=> block[x] /= None
          BY <1>2, <3>1, <3>3, <3>4, <3>5, Constants
        <4> QED  BY <3>3, <3>5, <4>1 DEF Allocated
      <3> DEFINE s2 == [i \in 1..(n + 1) |-> IF i <= n THEN s[i] ELSE b]
      <3>9. /\ s2 \in [1..(n + 1) -> Blocks] /\ s2[n + 1] = b
            /\ \A i \in 1..n : i \in 1..(n + 1) /\ s2[i] = s[i]
            /\ \A i \in 1..(n + 1) : i \in 1..n \/ i = n + 1
            /\ n + 1 \in Nat /\ n + 1 \in 1..(n + 1)
        BY <1>2, <1>7
      <3> HIDE DEF s2
      <3>10. \A i, j \in 1..(n + 1) : s2[i] = s2[j] => i = j
        BY <1>7, <3>9
      <3>11. n + 1 \in 0..Cardinality(Blocks)
        BY <1>7, <3>9, <3>10, Fits
      <3>12. Listed \cup {b} = {s2[i] : i \in 1..(n + 1)}
        <4>1. \A x : x \in Listed \cup {b} => \E i \in 1..(n + 1) : x = s2[i]
          BY <1>7, <3>9
        <4>2. \A i \in 1..(n + 1) : s2[i] \in Listed \cup {b}
          BY <1>7, <3>9
        <4> QED  BY <4>1, <4>2
      <3>13. m_pHead' = s2[1] /\ m_pTail' = s2[n + 1]
        BY <3>1, <3>2, <3>9
      <3>14. ASSUME NEW i \in 1..(n + 1)
             PROVE  /\ block'[s2[i]].next = IF i = n + 1 THEN None ELSE s2[i + 1]
                    /\ block'[s2[i]].prev = IF i = 1 THEN None ELSE s2[i - 1]
        <4>1. CASE i = n + 1
          BY <1>7, <2>2, <3>1, <3>5, <3>9, <4>1
        <4>2. CASE i = n
          <5>1. s2[i] = m_pTail /\ s2[i + 1] = b /\ i # n + 1
            BY <1>7, <3>1, <3>9, <4>2
          <5>2. block[m_pTail].prev = IF i = 1 THEN None ELSE s[i - 1]
            BY <1>7, <3>1, <4>2
          <5>3. i # 1 => i - 1 \in 1..n
            BY <1>7, <3>1, <4>2
          <5> QED  BY <3>5, <3>9, <5>1, <5>2, <5>3
        <4>3. CASE i # n /\ i # n + 1
          <5>1. i \in 1..n /\ i + 1 \in 1..n /\ (i # 1 => i - 1 \in 1..n)
            BY <1>7, <3>9, <4>3
          <5>2. s[i] /= m_pTail /\ s[i] /= b /\ s[i] \in Blocks
            BY <1>7, <3>1, <4>3, <5>1
          <5>3. block'[s2[i]] = block[s[i]]
            BY <3>3, <3>9, <5>1, <5>2
          <5> QED  BY <1>7, <3>9, <4>3, <5>1, <5>3
        <4> QED  BY <4>1, <4>2, <4>3
      <3>15. Linked'
        <4>0. Listed' = Listed \cup {b}
          BY <1>9, <3>8
        <4>1. Listed' = {s2[i] : i \in 1..(n + 1)} /\ n + 1 # 0
          <5>1. n + 1 # 0
            BY <1>7
          <5> QED  BY <3>12, <4>0, <5>1
        <4> DEFINE m == n + 1
        <4>2. /\ m \in 0..Cardinality(Blocks) /\ s2 \in [1..m -> Blocks] /\ m # 0
              /\ \A i, j \in 1..m : s2[i] = s2[j] => i = j
              /\ Listed' = {s2[i] : i \in 1..m}
              /\ m_pHead' = s2[1] /\ m_pTail' = s2[m]
              /\ \A i \in 1..m : /\ block'[s2[i]].next = IF i = m THEN None ELSE s2[i + 1]
                                 /\ block'[s2[i]].prev = IF i = 1 THEN None ELSE s2[i - 1]
          BY <3>9, <3>10, <3>11, <3>13, <3>14, <4>1
        <4> HIDE DEF m
        <4> QED  BY <4>2, Relinked
      <3> QED  BY <3>7, <3>8, <3>15
    <2> QED  BY <2>1, <2>2
  <1>11. Mutex'
    BY <1>1, <1>3, <1>4, Constants DEF Mutex, inside
  <1>12. Locals'
    <2>1. \A u \in Threads \ {t} : pc[u] \notin holding /\ pc[u] \notin {"count", "link"}
      BY <1>3 DEF inside, holding
    <2> QED  BY <1>4, <2>1 DEF Locals, holding
  <1>13. Pointers'
    BY <1>1, <1>4 DEF Pointers
  <1>15. InFlight' = InFlight
    <2>1. \A x : x \in InFlight' <=> x \in InFlight
      BY <1>1, <1>4 DEF InFlight
    <2> QED  BY <2>1
  <1>16. Recorded' /\ Totals'
    BY <1>1, <1>3, <1>10, <1>8, <1>15, SameRecords
  <1> QED  BY <1>1, <1>10, <1>11, <1>12, <1>13, <1>16 DEF After
-----------------------------------------------------------------------------
LEMMA RemoveUnlinkKeeps ==
  ASSUME Before, NEW t \in Threads, RemoveUnlink(t)
  PROVE  After
  <1> USE DEF Before
  <1> DEFINE b == pBlock[t]
             before == block[b].prev
             after == block[b].next
  <1>1. /\ pc[t] = "unlink" /\ Goto(t, "drop")
        /\ block' = [x \in Blocks |->
              IF x = before /\ before /= None THEN [block[x] EXCEPT !.next = after]
              ELSE IF x = after /\ after /= None THEN [block[x] EXCEPT !.prev = before]
              ELSE block[x]]
        /\ m_pHead' = IF m_pHead = b THEN after ELSE m_pHead
        /\ m_pTail' = IF m_pTail = b THEN before ELSE m_pTail
        /\ UNCHANGED <<heap, filenames, m_mutex, ptr, pBlock, destroyed, counters>>
    BY DEF RemoveUnlink, Unlink
  <1>2. b \in Allocated /\ b \in Blocks /\ b /= None
    BY <1>1, Constants DEF Locals, holding, Allocated
  <1>3. /\ \A u \in Threads \ {t} : pc[u] \notin inside
        /\ Loose = {} /\ Uncounted = {} /\ Listed = Allocated
    BY <1>1, OnlyHere DEF inside, Listed
  <1>4. pc'[t] = "drop" /\ \A u \in Threads \ {t} : pc'[u] = pc[u]
    BY <1>1 DEF Types, Goto
  <1>5. PICK n \in 0..Cardinality(Blocks) : \E s \in [1..n -> Blocks] : IsList(n, s)
    BY DEF Linked
  <1>6. PICK s \in [1..n -> Blocks] : IsList(n, s)
    BY <1>5
  <1>7. /\ n \in Nat /\ Cardinality(Blocks) \in Nat /\ n <= Cardinality(Blocks)
        /\ \A i \in 1..n : s[i] \in Blocks /\ s[i] /= None /\ s[i] \in Allocated
        /\ \A i, j \in 1..n : s[i] = s[j] => i = j
        /\ Listed = {s[i] : i \in 1..n}
        /\ \A i \in 1..n : /\ block[s[i]].next = IF i = n THEN None ELSE s[i + 1]
                           /\ block[s[i]].prev = IF i = 1 THEN None ELSE s[i - 1]
    BY <1>3, <1>6, Constants DEF IsList
  <1>8. PICK k \in 1..n : b = s[k]
    BY <1>2, <1>3, <1>7
  <1>9. /\ before = IF k = 1 THEN None ELSE s[k - 1]
        /\ after = IF k = n THEN None ELSE s[k + 1]
        /\ (k # 1 => k - 1 \in 1..n) /\ (k # n => k + 1 \in 1..n)
        /\ n # 0 /\ 1 \in 1..n /\ n \in 1..n
    BY <1>7, <1>8
  <1>10. /\ before \in Allocated \cup {None} /\ before \in Blocks \cup {None} /\ before /= b
         /\ after \in Allocated \cup {None} /\ after \in Blocks \cup {None} /\ after /= b
         /\ before /= None => before /= after
    <2>1. k # 1 => before = s[k - 1] /\ before /= b
      BY <1>7, <1>8, <1>9
    <2>2. k # n => after = s[k + 1] /\ after /= b
      BY <1>7, <1>8, <1>9
    <2>3. k # 1 /\ k # n => before /= after
      <3>1. k - 1 # k + 1
        BY <1>7
      <3> QED  BY <1>7, <1>9, <3>1
    <2>4. (k = 1 => before = None) /\ (k = n => after = None)
      BY <1>9
    <2> QED  BY <1>2, <1>7, <1>9, <2>1, <2>2, <2>3, <2>4
  <1> HIDE DEF b, before, after
  <1>11. /\ before /= None => block'[before] = [block[before] EXCEPT !.next = after]
         /\ after /= None => block'[after] = [block[after] EXCEPT !.prev = before]
         /\ \A x \in Blocks : x /= before /\ x /= after => block'[x] = block[x]
         /\ \A x \in Blocks : x = None => FALSE
    BY <1>1, <1>10, Constants
  <1>12. /\ before /= None => block[before] \in MemoryBlock /\ block'[before] \in MemoryBlock
                              /\ block'[before].next = after /\ block'[before].prev = block[before].prev
         /\ after /= None => block[after] \in MemoryBlock /\ block'[after] \in MemoryBlock
                              /\ block'[after].prev = before /\ block'[after].next = block[after].next
         /\ \A x \in {before, after} \ {None} : /\ block'[x].address = block[x].address
                                                /\ block'[x].size = block[x].size
                                                /\ block'[x].tid = block[x].tid
    <2>1. before /= None => block[before] \in MemoryBlock
      BY <1>10, Fields
    <2>2. after /= None => block[after] \in MemoryBlock
      BY <1>10, Fields
    <2> QED  BY <1>10, <1>11, <2>1, <2>2 DEF MemoryBlock
  <1>13. block' \in [Blocks -> MemoryBlock \cup {None}]
    <2>1. \A x \in Blocks : block'[x] \in MemoryBlock \cup {None}
      BY <1>11, <1>12 DEF Types
    <2>2. block' = [x \in Blocks |-> block'[x]]
      BY <1>1
    <2> QED  BY <2>1, <2>2
  <1>14. Types'
    BY <1>1, <1>10, <1>13 DEF Types, labels, Goto
  <1>15. /\ Allocated' = Allocated
         /\ \A x \in Allocated : /\ block'[x].address = block[x].address
                                 /\ block'[x].size = block[x].size
                                 /\ block'[x].tid = block[x].tid
    <2>1. \A x \in Blocks : block'[x] /= None <=> block[x] /= None
      BY <1>11, <1>12, Constants
    <2> QED  BY <1>11, <1>12, <2>1 DEF Allocated
  <1>16. Mutex'
    BY <1>1, <1>4 DEF Mutex, inside
  <1>17. Locals'
    <2>1. \A u \in Threads \ {t} : pc[u] \notin holding /\ pc[u] \notin {"count", "link"}
      BY <1>3 DEF inside, holding
    <2> QED  BY <1>1, <1>2, <1>4, <1>15, <2>1 DEF Locals, holding, b
  <1>18. Pointers'
    BY <1>1, <1>4 DEF Pointers
  <1>19. Loose' = {b} /\ Uncounted' = {}
    BY <1>1, <1>3, ThenHere DEF Types, b
  <1>20. InFlight' = InFlight
    <2>1. \A x : x \in InFlight' <=> x \in InFlight
      BY <1>1, <1>4 DEF InFlight
    <2> QED  BY <2>1
  <1>21. Recorded' /\ Totals'
    BY <1>1, <1>3, <1>15, <1>19, <1>20, SameRecords
  <1> DEFINE s2 == [i \in 1..(n - 1) |-> IF i < k THEN s[i] ELSE s[i + 1]]
             at(i) == IF i < k THEN i ELSE i + 1
             m == n - 1
  <1>22. /\ m \in 0..Cardinality(Blocks) /\ s2 \in [1..m -> Blocks]
         /\ \A i \in 1..m : at(i) \in 1..n /\ at(i) # k /\ s2[i] = s[at(i)]
         /\ \A i, j \in 1..m : at(i) = at(j) => i = j
         /\ \A i \in 1..n : i # k => \E j \in 1..m : i = at(j)
    <2>1. m \in 0..Cardinality(Blocks) /\ m \in Nat
      BY <1>7, <1>9
    <2>2. \A i \in 1..m : at(i) \in 1..n /\ at(i) # k /\ s2[i] = s[at(i)]
      BY <1>7
    <2>3. s2 \in [1..m -> Blocks]
      BY <1>7, <2>2
    <2>4. \A i, j \in 1..m : at(i) = at(j) => i = j
      BY <1>7
    <2>5. ASSUME NEW i \in 1..n, i # k
          PROVE  \E j \in 1..m : i = at(j)
      <3>1. CASE i < k
        <4>1. i \in 1..m /\ at(i) = i
          BY <1>7, <3>1
        <4> QED  BY <4>1
      <3>2. CASE i > k
        <4>1. i - 1 \in 1..m /\ at(i - 1) = i
          BY <1>7, <3>2
        <4> QED  BY <4>1
      <3> QED  BY <1>7, <2>5, <3>1, <3>2
    <2> QED  BY <2>1, <2>2, <2>3, <2>4, <2>5
  <1>23. /\ m = 0 <=> (k = 1 /\ k = n)
         /\ m # 0 => /\ 1 \in 1..m /\ m \in 1..m
                     /\ at(1) = (IF k = 1 THEN 2 ELSE 1)
                     /\ at(m) = (IF k = n THEN n - 1 ELSE n)
         /\ \A i \in 1..m : /\ (i = m => i + 1 \notin 1..m) /\ (i # m => i + 1 \in 1..m)
                            /\ i # 1 => i - 1 \in 1..m
                            /\ i + 1 = k => at(i) = k - 1 /\ at(i + 1) = k + 1
                            /\ i = k => at(i) = k + 1 /\ at(i - 1) = k - 1
                            /\ i + 1 # k => at(i + 1) = at(i) + 1
                            /\ i # k => at(i - 1) = at(i) - 1
                            /\ i = 1 => at(i) = 1 \/ (k = 1 /\ at(i) = 2)
                            /\ i = m => at(i) = n \/ (k = n /\ at(i) = n - 1)
    BY <1>7, <1>9
  <1> HIDE DEF s2, at
  <1>25. \A i, j \in 1..m : s2[i] = s2[j] => i = j
    BY <1>7, <1>22
  <1>26. Listed' = {s2[i] : i \in 1..m}
    <2>1. Listed' = Listed \ {b}
      BY <1>3, <1>15, <1>19 DEF Listed
    <2>2. \A x : x \in Listed \ {b} => \E i \in 1..m : x = s2[i]
      BY <1>7, <1>8, <1>22
    <2>3. \A i \in 1..m : s2[i] \in Listed \ {b}
      BY <1>7, <1>8, <1>22
    <2> QED  BY <2>1, <2>2, <2>3
  <1>27. /\ m_pHead' = IF m = 0 THEN None ELSE s2[1]
         /\ m_pTail' = IF m = 0 THEN None ELSE s2[m]
    <2>1. m_pHead = s[1] /\ m_pTail = s[n]
      BY <1>6, <1>9 DEF IsList
    <2>2. (m_pHead = b <=> k = 1) /\ (m_pTail = b <=> k = n)
      BY <1>7, <1>8, <1>9, <2>1
    <2>3. m_pHead' = IF k = 1 THEN after ELSE s[1]
      BY <1>1, <2>1, <2>2
    <2>4. m_pTail' = IF k = n THEN before ELSE s[n]
      BY <1>1, <2>1, <2>2
    <2>5. k = 1 => after = IF k = n THEN None ELSE s[2]
      BY <1>9
    <2>6. k = n => before = IF k = 1 THEN None ELSE s[n - 1]
      BY <1>9
    <2> HIDE DEF m
    <2>7. m # 0 => s2[1] = s[at(1)] /\ s2[m] = s[at(m)]
      BY <1>22, <1>23
    <2>8. m_pHead' = IF m = 0 THEN None ELSE s2[1]
      BY <1>23, <2>3, <2>5, <2>7
    <2>9. m_pTail' = IF m = 0 THEN None ELSE s2[m]
      BY <1>23, <2>4, <2>6, <2>7
    <2> QED  BY <2>8, <2>9
  <1>28. ASSUME NEW i \in 1..m
         PROVE  /\ block'[s2[i]].next = IF i = m THEN None ELSE s2[i + 1]
                /\ block'[s2[i]].prev = IF i = 1 THEN None ELSE s2[i - 1]
    <2> DEFINE x == s2[i]
               j == at(i)
    <2>1. j \in 1..n /\ j # k /\ x = s[j] /\ x \in Blocks /\ x /= None
      BY <1>7, <1>22
    <2>2. /\ block[x].next = IF j = n THEN None ELSE s[j + 1]
          /\ block[x].prev = IF j = 1 THEN None ELSE s[j - 1]
      BY <1>7, <2>1
    <2>3. (x = before <=> j + 1 = k) /\ (x = after <=> j = k + 1)
      BY <1>7, <1>8, <1>9, <2>1, SMTT(60)
    <2>4. block'[x].next = IF x = before THEN after ELSE block[x].next
      BY <1>11, <1>12, <2>1
    <2>5. block'[x].prev = IF x = after THEN before ELSE block[x].prev
      BY <1>10, <1>11, <1>12, <2>1
    <2>6. i # m => s2[i + 1] = s[at(i + 1)]
      BY <1>22, <1>23
    <2>7. i # 1 => s2[i - 1] = s[at(i - 1)]
      BY <1>22, <1>23
    <2>8. block'[x].next = IF i = m THEN None ELSE s2[i + 1]
      <3>1. CASE j + 1 = k
        <4>1. block'[x].next = after
          BY <2>3, <2>4, <3>1
        <4>2. (i = m <=> k = n) /\ (i # m => at(i + 1) = k + 1)
          BY <1>7, <2>1, <3>1 DEF at
        <4> QED  BY <1>9, <2>6, <4>1, <4>2
      <3>2. CASE j + 1 # k
        <4>1. block'[x].next = IF j = n THEN None ELSE s[j + 1]
          BY <2>2, <2>3, <2>4, <3>2
        <4>2. (i = m <=> j = n) /\ (i # m => at(i + 1) = j + 1)
          BY <1>7, <2>1, <3>2 DEF at
        <4> QED  BY <2>6, <4>1, <4>2
      <3> QED  BY <3>1, <3>2
    <2>9. block'[x].prev = IF i = 1 THEN None ELSE s2[i - 1]
      <3>1. CASE j = k + 1
        <4>1. block'[x].prev = before
          BY <2>3, <2>5, <3>1
        <4>2. (i = 1 <=> k = 1) /\ (i # 1 => at(i - 1) = k - 1)
          BY <1>7, <2>1, <3>1 DEF at
        <4> QED  BY <1>9, <2>7, <4>1, <4>2
      <3>2. CASE j # k + 1
        <4>1. block'[x].prev = IF j = 1 THEN None ELSE s[j - 1]
          BY <2>2, <2>3, <2>5, <3>2
        <4>2. (i = 1 <=> j = 1) /\ (i # 1 => at(i - 1) = j - 1)
          BY <1>7, <2>1, <3>2 DEF at
        <4> QED  BY <2>7, <4>1, <4>2
      <3> QED  BY <3>1, <3>2
    <2> QED  BY <2>8, <2>9
  <1>29. Linked'
    <2> HIDE DEF m
    <2> QED  BY <1>22, <1>25, <1>26, <1>27, <1>28, Relinked
  <1> QED  BY <1>1, <1>14, <1>15, <1>16, <1>17, <1>18, <1>21, <1>29 DEF After

LEMMA RemoveFreeKeeps ==
  ASSUME Before, NEW t \in Threads, RemoveFree(t)
  PROVE  After
  <1> USE DEF Before
  <1> DEFINE b == pBlock[t]
  <1>1. /\ pc[t] = "drop" /\ Goto(t, "free") /\ m_mutex' = None
        /\ filenames' = filenames \ {b}
        /\ block' = [block EXCEPT ![b] = None]
        /\ m_nLeakMemorySize' = m_nLeakMemorySize - block[b].size
        /\ m_nLeakBlockCount' = m_nLeakBlockCount - 1
        /\ pBlock' = [pBlock EXCEPT ![t] = None]
        /\ UNCHANGED <<heap, m_pHead, m_pTail, ptr, destroyed>>
    BY DEF RemoveFree, LeaveCriticalSection
  <1>2. b \in Allocated /\ b \in Blocks /\ block[b].address = ptr[t] /\ ptr[t] \in Addresses
        /\ block[b].size \in Nat
    BY <1>1, Fields DEF Locals, holding
  <1> HIDE DEF b
  <1>3. /\ \A u \in Threads \ {t} : pc[u] \notin inside
        /\ Loose = {b} /\ Uncounted = {} /\ m_mutex = t /\ Counted = Allocated
    BY <1>1, OnlyHere, Alone DEF inside, b, Counted
  <1>4. /\ pc'[t] = "free" /\ \A u \in Threads \ {t} : pc'[u] = pc[u]
        /\ pBlock'[t] = None /\ \A u \in Threads \ {t} : pBlock'[u] = pBlock[u]
        /\ block'[b] = None /\ \A x \in Blocks \ {b} : block'[x] = block[x]
    BY <1>1, <1>2 DEF Types, Goto
  <1>5. Types'
    BY <1>1, <1>2 DEF Types, labels, Goto
  <1>6. Mutex'
    BY <1>1, <1>3, <1>4, Constants DEF Mutex, inside
  <1>7. /\ Allocated' = Allocated \ {b}
        /\ \A x \in Allocated \ {b} : block'[x] = block[x]
    BY <1>4 DEF Allocated
  <1>8. Locals'
    <2>1. \A u \in Threads \ {t} : pc[u] \notin holding /\ pc[u] \notin {"count", "link"}
      BY <1>3 DEF inside, holding
    <2> QED  BY <1>1, <1>4, <2>1 DEF Locals, holding
  <1>9. Pointers'
    BY <1>1, <1>4 DEF Pointers
  <1>10. Recorded'
    <2>1. \A x : x \in InFlight' <=> x \in InFlight \/ x = ptr[t]
      BY <1>1, <1>4 DEF InFlight
    <2>2. \A x \in Allocated \ {b} : block[x].address /= ptr[t]
      BY <1>2 DEF Recorded
    <2>3. ASSUME NEW a \in Addresses
          PROVE  (\E x \in Allocated' : block'[x].address = a) <=>
                     heap'[a] /= None /\ heap'[a].tracked /\ a \notin InFlight'
      <3>1. CASE a = ptr[t]
        BY <1>7, <2>1, <2>2, <3>1
      <3>2. CASE a /= ptr[t]
        <4>1. (\E x \in Allocated' : block'[x].address = a) <=> (\E x \in Allocated : block[x].address = a)
          BY <1>2, <1>7, <3>2
        <4> QED  BY <1>1, <2>1, <3>2, <4>1 DEF Recorded
      <3> QED  BY <3>1, <3>2
    <2>4. \A x \in Allocated' : LET a == block'[x].address
                                IN  heap'[a] /= None /\ heap'[a].size = block'[x].size
                                    /\ heap'[a].tid = block'[x].tid
      BY <1>1, <1>7 DEF Recorded
    <2>5. \A x, y \in Allocated' : block'[x].address = block'[y].address => x = y
      BY <1>7 DEF Recorded
    <2> QED  BY <2>3, <2>4, <2>5 DEF Recorded
  <1>11. Loose' = {} /\ Uncounted' = {}
    BY <1>1, <1>3, ThenHere DEF Types
  <1>12. Listed' = Listed /\ Counted' = Allocated \ {b}
    BY <1>3, <1>7, <1>11 DEF Listed, Counted
  <1>13. Linked'
    <2>1. PICK n \in 0..Cardinality(Blocks) : \E s \in [1..n -> Blocks] : IsList(n, s)
      BY DEF Linked
    <2>2. PICK s \in [1..n -> Blocks] : IsList(n, s)
      BY <2>1
    <2>3. \A i \in 1..n : block'[s[i]] = block[s[i]]
      <3>1. \A i \in 1..n : s[i] \in Allocated \ {b}
        BY <1>3, <2>2 DEF IsList, Listed
      <3> QED  BY <1>7, <3>1
    <2>4. IsList(n, s)'
      BY <1>1, <1>12, <2>2, <2>3 DEF IsList
    <2> QED  BY <2>4 DEF Linked
  <1>14. Totals'
    <2>1. /\ Cardinality(Allocated \ {b}) = Cardinality(Allocated) - 1
          /\ Cardinality(Allocated) \in Nat
          /\ IsFiniteSet(Allocated \ {b})
      BY <1>2, AllocatedFinite, FS_RemoveElement, FS_CardinalityType
    <2>2. Sum(block, Allocated) = block[b].size + Sum(block, Allocated \ {b})
          /\ Sum(block, Allocated \ {b}) \in Nat
      BY <1>2, AllocatedFinite, Fields, SumWithout
    <2>3. m_nLeakBlockCount = Cardinality(Allocated) /\ m_nLeakMemorySize = Sum(block, Allocated)
      BY <1>3, TotalsIs
    <2>4. Sum(block', Allocated \ {b}) = Sum(block, Allocated \ {b})
      BY <1>7, <2>1, SumSame
    <2>5. /\ m_nLeakBlockCount' = Cardinality(Allocated \ {b})
          /\ m_nLeakMemorySize' = Sum(block', Allocated \ {b})
      BY <1>1, <1>2, <2>1, <2>2, <2>3, <2>4
    <2> QED  BY <1>12, <2>5, TotalsIs
  <1> QED  BY <1>1, <1>5, <1>6, <1>7, <1>8, <1>9, <1>10, <1>13, <1>14 DEF After
-----------------------------------------------------------------------------
LEMMA CountersStayNatural ==
  ASSUME Types', Totals'
  PROVE  m_nLeakMemorySize' \in Nat /\ m_nLeakBlockCount' \in Nat
  <1>1. Allocated' \subseteq Blocks /\ Counted' \subseteq Allocated'
    BY DEF Allocated, Counted
  <1>2. IsFiniteSet(Counted')
    BY <1>1, Constants, FS_Subset
  <1>3. \A b \in Counted' : block'[b].size \in Nat
    <2>1. \A b \in Counted' : block'[b] \in MemoryBlock
      BY <1>1 DEF Types, Allocated
    <2> QED  BY <2>1, Constants DEF MemoryBlock
  <1>4. Sum(block', Counted') \in Nat
    BY <1>2, <1>3, SumWithout
  <1>5. Cardinality(Counted') \in Nat
    BY <1>2, FS_CardinalityType
  <1> QED  BY <1>4, <1>5, TotalsIs

LEMMA InitIInv == Init => IInv
  <1> SUFFICES ASSUME Init PROVE IInv
    OBVIOUS
  <1>1. Types
    BY DEF Init, Types, labels
  <1>2. Allocated = {} /\ Loose = {} /\ Uncounted = {} /\ Listed = {} /\ Counted = {}
    BY DEF Init, Allocated, Loose, Uncounted, Listed, Counted
  <1>3. Mutex
    BY Constants DEF Init, Mutex, inside
  <1>4. Locals /\ Pointers
    BY DEF Init, Locals, Pointers, holding
  <1>5. Recorded
    BY <1>2 DEF Init, Recorded
  <1>6. Linked
    <2> DEFINE n == 0
    <2>1. n \in 0..Cardinality(Blocks) /\ \A i \in 1..n : FALSE
      BY Constants
    <2>2. [i \in 1..n |-> None] \in [1..n -> Blocks]
      BY <2>1
    <2>3. m_pHead = (IF n = 0 THEN None ELSE [i \in 1..n |-> None][1])
          /\ m_pTail = (IF n = 0 THEN None ELSE [i \in 1..n |-> None][n])
      BY DEF Init
    <2> HIDE DEF n
    <2>4. IsList(n, [i \in 1..n |-> None])
      BY <1>2, <2>1, <2>3 DEF IsList
    <2> QED  BY <2>1, <2>2, <2>4 DEF Linked
  <1>7. Totals
    <2>1. Sum(block, Counted) = 0
      BY <1>2, AllocatedFinite, SumsOf DEF Sum
    <2>2. Cardinality(Counted) = 0
      BY <1>2, FS_EmptySet
    <2> QED  BY <2>1, <2>2, TotalsIs DEF Init
  <1>8. TypeOK
    BY <1>1, TypeOKIs DEF Init
  <1> QED  BY <1>2, <1>3, <1>4, <1>5, <1>6, <1>7, <1>8 DEF Init, IInv, Consistent, Quiet

LEMMA DestroyKeeps ==
  ASSUME TypeOK, Mutex, Destroy
  PROVE  IInv'
  <1>1. /\ \A t \in Threads : pc[t] = "idle"
        /\ block' = [b \in Blocks |-> IF b \in Reached THEN None ELSE block[b]]
        /\ destroyed' = TRUE
        /\ UNCHANGED <<heap, filenames, m_pHead, m_pTail, m_nLeakMemorySize, m_nLeakBlockCount,
                       m_mutex, pc, ptr, pBlock>>
    BY DEF Destroy, counters, local
  <1>2. block' \in [Blocks -> MemoryBlock \cup {None}]
    BY <1>1 DEF TypeOK
  <1>3. TypeOK'
    BY <1>1, <1>2 DEF TypeOK
  <1>4. Mutex'
    BY <1>1 DEF Mutex
  <1> QED  BY <1>1, <1>3, <1>4 DEF IInv, Quiet

LEMMA StepKeeps ==
  ASSUME Before, NEW t \in Threads, Insert(t) \/ Remove(t) \/ PlainNew(t) \/ Report(t)
  PROVE  After /\ destroyed' = destroyed
  <1>1. CASE New(t)
    BY <1>1, NewKeeps DEF New
  <1>2. CASE InsertEnter(t)
    BY <1>2, InsertEnterKeeps DEF InsertEnter
  <1>3. CASE InsertCount(t)
    BY <1>3, InsertCountKeeps DEF InsertCount
  <1>4. CASE InsertLink(t)
    BY <1>4, InsertLinkKeeps DEF InsertLink
  <1>5. CASE Delete(t)
    BY <1>5, DeleteKeeps DEF Delete
  <1>6. CASE RemoveEnter(t)
    BY <1>6, RemoveEnterKeeps DEF RemoveEnter
  <1>7. CASE RemoveUnlink(t)
    BY <1>7, RemoveUnlinkKeeps DEF RemoveUnlink
  <1>8. CASE RemoveFree(t)
    BY <1>8, RemoveFreeKeeps DEF RemoveFree
  <1>9. CASE Free(t)
    BY <1>9, FreeKeeps DEF Free
  <1>10. CASE PlainNew(t)
    BY <1>10, PlainNewKeeps DEF PlainNew
  <1>11. CASE Report(t)
    BY <1>11, ReportKeeps DEF Report
  <1> QED
    BY <1>1, <1>2, <1>3, <1>4, <1>5, <1>6, <1>7, <1>8, <1>9, <1>10, <1>11 DEF Insert, Remove

LEMMA NextIInv == IInv /\ [Next]_vars => IInv'
  <1> SUFFICES ASSUME IInv, [Next]_vars PROVE IInv'
    OBVIOUS
  <1>1. CASE UNCHANGED vars
    <2>1. /\ UNCHANGED <<heap, block, filenames, m_pHead, m_pTail, m_mutex, pc, ptr, pBlock, destroyed>>
          /\ UNCHANGED <<m_nLeakMemorySize, m_nLeakBlockCount, list, counters>>
      BY <1>1 DEF vars, list, counters, local
    <2>2. TypeOK' /\ Mutex' /\ Quiet'
      BY <2>1 DEF IInv, TypeOK, Mutex, Quiet
    <2>3. CASE destroyed
      BY <2>1, <2>2, <2>3 DEF IInv
    <2>4. CASE ~destroyed
      <3>1. Consistent
        BY <2>4 DEF IInv
      <3>2. Allocated' = Allocated /\ InFlight' = InFlight /\ Loose' = Loose /\ Uncounted' = Uncounted
        BY <2>1 DEF Allocated, InFlight, Loose, Uncounted
      <3>3. Linked' /\ Totals' /\ filenames' \subseteq Allocated'
        BY <2>1, <3>1, <3>2, ListStays DEF Consistent
      <3>4. Locals' /\ Pointers'
        BY <2>1, <3>1, <3>2 DEF Consistent, Locals, Pointers
      <3>5. Recorded'
        BY <2>1, <3>1, <3>2 DEF Consistent, Recorded
      <3> QED  BY <2>2, <3>3, <3>4, <3>5 DEF IInv, Consistent
    <2> QED  BY <2>3, <2>4
  <1>2. CASE Destroy
    BY <1>2, DestroyKeeps DEF IInv
  <1>3. ASSUME NEW t \in Threads, Insert(t) \/ Remove(t) \/ PlainNew(t) \/ Report(t)
        PROVE  IInv'
    <2>1. ~destroyed
      <3>1. pc[t] = "idle" => ~destroyed
        BY <1>3 DEF Insert, Remove, New, InsertEnter, InsertCount, InsertLink, Delete, RemoveEnter,
                    RemoveUnlink, RemoveFree, Free, PlainNew, Report
      <3> QED  BY <3>1 DEF IInv, Quiet
    <2>2. Before
      BY <2>1, TypeOKIs DEF IInv, Consistent, Before
    <2>3. After /\ destroyed' = destroyed
      BY <1>3, <2>2, StepKeeps
    <2>4. m_nLeakMemorySize' \in Nat /\ m_nLeakBlockCount' \in Nat
      BY <2>3, CountersStayNatural DEF After
    <2>5. TypeOK'
      BY <2>3, <2>4 DEF After, TypeOK, Types, labels
    <2> QED  BY <2>1, <2>3, <2>5 DEF After, IInv, Consistent, Quiet
  <1> QED  BY <1>1, <1>2, <1>3 DEF Next

\* Whatever threads allocate and release at once, and whatever addresses malloc hands
\* out again, the state stays consistent: one thread inside, the blocks of the list a
\* sequence that m_pHead, m_pTail, next and prev agree on, one block for each tracked
\* allocation that is neither on its way in nor out, and counters that say so
\* (MemoryLeakDetector.cpp 82-172).
THEOREM InductiveInvariant == SafetySpec => []IInv
  <1> QED  BY InitIInv, NextIInv, PTL DEF SafetySpec

LEMMA IInvWellLinked == IInv => WellLinked
  <1> SUFFICES ASSUME IInv, m_mutex = None, ~destroyed
               PROVE  /\ Reached = Allocated /\ filenames \subseteq Allocated
                      /\ m_pHead = None <=> m_pTail = None
                      /\ m_pHead /= None => block[m_pHead].prev = None /\ block[m_pTail].next = None
                      /\ \A b \in Allocated : block[b].next /= None => block[block[b].next].prev = b
    BY DEF IInv, WellLinked
  <1>1. Types /\ Consistent /\ Mutex
    BY TypeOKIs DEF IInv
  <1>2. Listed = Allocated
    BY <1>1, NobodyInside
  <1>3. Reached = Allocated /\ filenames \subseteq Allocated
    BY <1>1, <1>2, ReachedIsListed DEF Consistent
  <1>4. PICK n \in 0..Cardinality(Blocks) : \E s \in [1..n -> Blocks] : IsList(n, s)
    BY <1>1 DEF Consistent, Linked
  <1>5. PICK s \in [1..n -> Blocks] : IsList(n, s)
    BY <1>4
  <1>6. /\ n \in Nat
        /\ \A i \in 1..n : s[i] /= None
        /\ Allocated = {s[i] : i \in 1..n}
        /\ m_pHead = IF n = 0 THEN None ELSE s[1]
        /\ m_pTail = IF n = 0 THEN None ELSE s[n]
        /\ \A i \in 1..n : /\ block[s[i]].next = IF i = n THEN None ELSE s[i + 1]
                           /\ block[s[i]].prev = IF i = 1 THEN None ELSE s[i - 1]
    BY <1>2, <1>5, Constants DEF IsList
  <1>7. n # 0 => 1 \in 1..n /\ n \in 1..n
    BY <1>6
  <1>8. ASSUME NEW b \in Allocated, block[b].next /= None
        PROVE  block[block[b].next].prev = b
    <2>1. PICK i \in 1..n : b = s[i]
      BY <1>6
    <2>2. i # n /\ block[b].next = s[i + 1]
      BY <1>6, <1>8, <2>1
    <2>3. i + 1 \in 1..n /\ i + 1 # 1 /\ (i + 1) - 1 = i
      BY <1>6, <2>2
    <2> QED  BY <1>6, <2>1, <2>2, <2>3
  <1> QED  BY <1>3, <1>6, <1>7, <1>8

\* Outside the critical section the blocks are a doubly linked list of exactly the
\* allocated ones, for any number of threads and of allocations, whichever order they
\* are released in (InsertBlock 97-124, RemoveBlock 140-162).
THEOREM ListIsWellLinked == SafetySpec => []WellLinked
  <1> QED  BY InductiveInvariant, IInvWellLinked, PTL

LEMMA IInvReportIsExact == IInv => ReportIsExact
  <1> SUFFICES ASSUME IInv, m_mutex = None, ~destroyed
               PROVE  LiveIsListed /\ TotalsAreTrue
    BY DEF ReportIsExact, LiveIsListed, TotalsAreTrue
  <1>1. Types /\ Consistent /\ Mutex
    BY TypeOKIs DEF IInv
  <1>2. Counted = Allocated
    BY <1>1, NobodyInside
  <1>3. TotalsAreTrue
    BY <1>1, <1>2 DEF Consistent, Totals, TotalsAreTrue
  <1> DEFINE live == {x \in Addresses \ InFlight : heap[x] /= None /\ heap[x].tracked}
  <1>4. \A b \in Allocated : /\ block[b].address \in live
                             /\ block[b].size = heap[block[b].address].size
                             /\ block[b].tid = heap[block[b].address].tid
    BY <1>1, Fields DEF Consistent, Recorded
  <1>5. \A a \in live : \E b \in Allocated : block[b].address = a
    BY <1>1 DEF Consistent, Recorded
  <1> HIDE DEF live
  <1>6. {<<block[b].address, block[b].size, block[b].tid>> : b \in Allocated}
           = {<<a, heap[a].size, heap[a].tid>> : a \in live}
    <2>1. ASSUME NEW b \in Allocated
          PROVE  \E a \in live : <<block[b].address, block[b].size, block[b].tid>>
                                    = <<a, heap[a].size, heap[a].tid>>
      BY <1>4
    <2>2. ASSUME NEW a \in live
          PROVE  \E b \in Allocated : <<block[b].address, block[b].size, block[b].tid>>
                                         = <<a, heap[a].size, heap[a].tid>>
      BY <1>4, <1>5
    <2> QED  BY <2>1, <2>2
  <1>7. \A b, c \in Allocated : block[b].address = block[c].address => b = c
    BY <1>1 DEF Consistent, Recorded
  <1>8. LiveIsListed
    BY <1>6, <1>7 DEF LiveIsListed, live
  <1> QED  BY <1>3, <1>8

\* What the detector would report is exact at every moment nobody is inside: each live
\* tracked allocation once, with its size and its thread, and the totals of those, for
\* any number of threads that allocate and release concurrently (InsertBlock 110-111,
\* RemoveBlock 163-164, ~MemoryLeakDetector 40-80).
THEOREM ReportsAreExact == SafetySpec => []ReportIsExact
  <1> QED  BY InductiveInvariant, IInvReportIsExact, PTL
=============================================================================
