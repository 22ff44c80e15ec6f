-------------------------- MODULE SmartPointerProofs --------------------------
(***************************************************************************)
(* Theorems about SmartPointer, for any variables and objects.  A walk     *)
(* along pointers, as From and Visited take it, is spoken of by the set of *)
(* the blocks it meets, the least that has its start and is closed under   *)
(* the step: as there are finitely many blocks, it is not cut short.       *)
(***************************************************************************)
EXTENDS SmartPointer, FiniteSetTheorems, WellFoundedInduction, TLAPS

N == Cardinality(Blocks)
OrNone == Blocks \cup {None}

LEMMA Constants ==
  /\ IsFiniteSet(Variables) /\ IsFiniteSet(Blocks) /\ IsFiniteSet(Handles)
  /\ N \in Nat /\ Cardinality(Handles) \in Nat
  /\ None \notin Variables /\ None \notin Blocks /\ None \notin Handles
  /\ \A v \in Variables : v \notin Blocks
  /\ Variables \subseteq Handles /\ Blocks \subseteq Handles
  <1>1. IsFiniteSet(Variables \cup Blocks)
    BY SmartPointerAssumption, FS_Union
  <1>2. IsFiniteSet(Handles)
    BY <1>1 DEF Handles
  <1>3. N \in Nat /\ Cardinality(Handles) \in Nat
    BY <1>2, SmartPointerAssumption, FS_CardinalityType DEF N
  <1> QED  BY <1>2, <1>3, SmartPointerAssumption DEF Handles

\* A set that has zero, and each number after one it has, has them all.
LEMMA Induct ==
  ASSUME NEW S, NEW n \in Nat, 0 \in S, \A k \in 1..n : k - 1 \in S => k \in S
  PROVE  \A k \in 0..n : k \in S
  <1> DEFINE R == {ss \in Nat \X Nat : ss[1] < ss[2]}
             Bad == {k \in 0..n : k \notin S}
  <1> SUFFICES ASSUME Bad # {} PROVE FALSE
    OBVIOUS
  <1>1. IsWellFoundedOn(R, Nat)
    BY NatLessThanWellFounded DEF OpToRel
  <1>2. \A x, y \in Nat : <<y, x>> \in R <=> y < x
    OBVIOUS
  <1>3. Bad \subseteq Nat
    OBVIOUS
  <1>4. PICK k \in Bad : \A y \in Bad : ~(<<y, k>> \in R)
    <2> HIDE DEF R, Bad
    <2> QED  BY <1>1, <1>3, WFMin
  <1>5. k \in 0..n /\ k \notin S /\ k # 0
    OBVIOUS
  <1>6. k \in 1..n /\ k - 1 \in 0..n /\ k - 1 \in Nat /\ k \in Nat /\ k - 1 < k
    BY <1>5
  <1>7. k - 1 \notin Bad
    <2> HIDE DEF R, Bad
    <2> QED  BY <1>2, <1>4, <1>6
  <1> QED  BY <1>5, <1>6, <1>7
-----------------------------------------------------------------------------
\* f is the walk from a that takes the step nx until it comes to NULL.
IsWalk(f, nx, a) ==
    /\ f \in [0..N -> OrNone]
    /\ f[0] = a
    /\ \A k \in 1..N : f[k] = IF f[k - 1] = None THEN None ELSE nx[f[k - 1]]
Met(f) == {f[n] : n \in 0..N} \ {None}

LEMMA WalkExists ==
  ASSUME NEW nx, NEW a \in OrNone, \A x \in Blocks : nx[x] \in OrNone
  PROVE  \E f : IsWalk(f, nx, a)
  <1> DEFINE Upto(f, n) == /\ f \in [0..n -> OrNone] /\ f[0] = a
                           /\ \A k \in 1..n : f[k] = IF f[k - 1] = None THEN None ELSE nx[f[k - 1]]
             S == {n \in 0..N : \E f : Upto(f, n)}
  <1>0. N \in Nat /\ None \in OrNone /\ \A x \in OrNone : x /= None => x \in Blocks
    BY Constants DEF OrNone
  <1>1. 0 \in S
    <2>1. Upto([k \in 0..0 |-> a], 0)
      OBVIOUS
    <2>2. 0 \in 0..N /\ \E f : Upto(f, 0)
      <3>1. 0 \in 0..N
        BY <1>0
      <3> HIDE DEF Upto
      <3> QED  BY <2>1, <3>1
    <2> HIDE DEF Upto
    <2> QED  BY <2>2
  <1>2. ASSUME NEW n \in 1..N, n - 1 \in S
        PROVE  n \in S
    <2>1. PICK f : Upto(f, n - 1)
      BY <1>2
    <2> DEFINE e == IF f[n - 1] = None THEN None ELSE nx[f[n - 1]]
               g == [k \in 0..n |-> IF k < n THEN f[k] ELSE e]
    <2>2. n \in Nat /\ n - 1 \in 0..(n - 1) /\ f[n - 1] \in OrNone
      BY <1>0, <2>1
    <2>3. e \in OrNone
      BY <1>0, <2>2
    <2> HIDE DEF e
    <2>4. g \in [0..n -> OrNone] /\ g[0] = a
      BY <1>0, <2>1, <2>2, <2>3
    <2>5. ASSUME NEW k \in 1..n
          PROVE  g[k] = IF g[k - 1] = None THEN None ELSE nx[g[k - 1]]
      <3>1. k - 1 \in 0..n /\ k - 1 < n /\ g[k - 1] = f[k - 1]
        BY <2>2
      <3>2. CASE k = n
        <4>1. g[k] = e
          BY <2>2, <3>2
        <4> QED  BY <3>1, <3>2, <4>1 DEF e
      <3>3. CASE k < n
        <4>1. k \in 1..(n - 1) /\ g[k] = f[k]
          BY <2>2, <3>3
        <4> QED  BY <2>1, <3>1, <4>1
      <3> QED  BY <2>2, <3>2, <3>3
    <2> HIDE DEF g
    <2>6. Upto(g, n)
      BY <2>4, <2>5
    <2> QED  BY <2>6
  <1>3. N \in S
    <2> HIDE DEF S
    <2>1. \A k \in 0..N : k \in S
      BY <1>0, <1>1, <1>2, Induct
    <2> QED  BY <1>0, <2>1
  <1> QED  BY <1>3 DEF IsWalk

\* Once at NULL, a walk stays there.
LEMMA StaysNone ==
  ASSUME NEW f, NEW nx, NEW a, IsWalk(f, nx, a), NEW i \in 0..N, f[i] = None
  PROVE  \A j \in i..N : f[j] = None
  <1> DEFINE S == {k \in 0..N : k >= i => f[k] = None}
  <1>0. N \in Nat /\ i \in Nat
    BY Constants
  <1>1. 0 \in S
    BY <1>0
  <1>2. ASSUME NEW k \in 1..N, k - 1 \in S
        PROVE  k \in S
    <2>1. k = i \/ k < i \/ k - 1 >= i
      BY <1>0
    <2> QED  BY <1>2, <2>1, <1>0 DEF IsWalk
  <1> HIDE DEF S
  <1>3. \A k \in 0..N : k \in S
    BY <1>0, <1>1, <1>2, Induct
  <1> QED  BY <1>0, <1>3 DEF S

\* A walk stays in any set that has its start and is closed under its step.
LEMMA MetWithin ==
  ASSUME NEW f, NEW nx, NEW a, IsWalk(f, nx, a), NEW T,
         a /= None => a \in T,
         \A x \in T \cap Blocks : nx[x] /= None => nx[x] \in T
  PROVE  Met(f) \subseteq T
  <1> DEFINE S == {k \in 0..N : f[k] /= None => f[k] \in T}
  <1>0. N \in Nat /\ \A x \in OrNone : x /= None => x \in Blocks
    BY Constants DEF OrNone
  <1>1. 0 \in S
    BY <1>0 DEF IsWalk
  <1>2. ASSUME NEW k \in 1..N, k - 1 \in S
        PROVE  k \in S
    <2>1. k - 1 \in 0..N /\ f[k - 1] \in OrNone
      BY <1>0 DEF IsWalk
    <2>2. f[k] = IF f[k - 1] = None THEN None ELSE nx[f[k - 1]]
      BY DEF IsWalk
    <2> QED  BY <1>0, <1>2, <2>1, <2>2
  <1> HIDE DEF S
  <1>3. \A k \in 0..N : k \in S
    BY <1>0, <1>1, <1>2, Induct
  <1> QED  BY <1>3 DEF S, Met

LEMMA MetFrom ==
  ASSUME NEW f, NEW nx, NEW a, IsWalk(f, nx, a)
  PROVE  /\ Met(f) \subseteq Blocks
         /\ a /= None => a \in Met(f)
         /\ \A x \in Met(f) : x = a \/ \E y \in Met(f) : nx[y] = x
  <1>0. N \in Nat /\ \A x \in OrNone : x /= None => x \in Blocks
    BY Constants DEF OrNone
  <1>1. Met(f) \subseteq Blocks
    BY <1>0 DEF Met, IsWalk
  <1>2. a /= None => a \in Met(f)
    <2>1. 0 \in 0..N
      BY <1>0
    <2> QED  BY <2>1 DEF Met, IsWalk
  <1>3. ASSUME NEW x \in Met(f), x /= a
        PROVE  \E y \in Met(f) : nx[y] = x
    <2>1. PICK n \in 0..N : x = f[n] /\ x /= None
      BY DEF Met
    <2>2. n # 0
      BY <1>3, <2>1 DEF IsWalk
    <2>3. n \in 1..N /\ n - 1 \in 0..N
      BY <1>0, <2>2
    <2>4. f[n - 1] /= None /\ nx[f[n - 1]] = x
      BY <2>1, <2>3 DEF IsWalk
    <2> QED  BY <2>3, <2>4 DEF Met
  <1> QED  BY <1>1, <1>2, <1>3

\* A walk meets the step of all that it meets: one as long as there are blocks has
\* come back to where it was.
LEMMA MetClosed ==
  ASSUME NEW f, NEW nx, NEW a, IsWalk(f, nx, a), NEW x \in Met(f), nx[x] /= None
  PROVE  nx[x] \in Met(f)
  <1>0. N \in Nat /\ \A y \in OrNone : y /= None => y \in Blocks
    BY Constants DEF OrNone
  <1>1. ASSUME NEW n \in 0..N, n # N, x = f[n]
        PROVE  nx[x] \in Met(f)
    <2>1. n + 1 \in 1..N /\ (n + 1) - 1 = n /\ n + 1 \in 0..N
      BY <1>0, <1>1
    <2>2. f[n + 1] = nx[x]
      BY <1>1, <2>1 DEF IsWalk, Met
    <2> QED  BY <2>1, <2>2 DEF Met
  <1>2. CASE x = f[N]
    <2>1. \A n \in 0..N : f[n] /= None
      <3> SUFFICES ASSUME NEW n \in 0..N, f[n] = None PROVE FALSE
        OBVIOUS
      <3>1. N \in n..N
        BY <1>0
      <3> QED  BY <1>2, <3>1, StaysNone DEF Met
    <2>2. f \in [0..N -> Blocks]
      BY <1>0, <2>1 DEF IsWalk
    <2>3. IsFiniteSet(0..N) /\ Cardinality(0..N) = N + 1
      BY <1>0, FS_Interval
    <2>4. IsFiniteSet(Blocks) /\ Cardinality(Blocks) < Cardinality(0..N)
      BY <1>0, <2>3, Constants DEF N
    <2>5. \E i, j \in 0..N : i # j /\ f[i] = f[j]
      BY <2>2, <2>3, <2>4, FS_PigeonHole
    <2>6. PICK i \in 0..N, j \in 0..N : i < j /\ f[i] = f[j]
      BY <1>0, <2>5
    <2> DEFINE T == {f[k] : k \in 0..(j - 1)}
    <2>7. a \in T
      <3>1. 0 \in 0..(j - 1)
        BY <1>0, <2>6
      <3> QED  BY <3>1 DEF IsWalk
    <2>8. ASSUME NEW y \in T
          PROVE  nx[y] \in T
      <3>1. PICK k \in 0..(j - 1) : y = f[k]
        OBVIOUS
      <3>2. k + 1 \in 1..N /\ (k + 1) - 1 = k /\ k \in 0..N
        BY <1>0, <2>6
      <3>3. f[k + 1] = nx[y]
        BY <2>1, <3>1, <3>2 DEF IsWalk
      <3>4. CASE k + 1 = j
        <4>1. i \in 0..(j - 1)
          BY <1>0, <2>6
        <4> QED  BY <2>6, <3>3, <3>4, <4>1
      <3>5. CASE k + 1 # j
        <4>1. k + 1 \in 0..(j - 1)
          BY <1>0, <2>6, <3>5
        <4> QED  BY <3>3, <4>1
      <3> QED  BY <3>4, <3>5
    <2> HIDE DEF T
    <2>9. Met(f) \subseteq T
      BY <2>7, <2>8, MetWithin
    <2>10. PICK k \in 0..(j - 1) : x = f[k]
      BY <2>9 DEF T
    <2>11. k \in 0..N /\ k # N
      BY <1>0, <2>6
    <2> QED  BY <1>1, <2>10, <2>11
  <1>3. PICK n \in 0..N : x = f[n]
    BY DEF Met
  <1> QED  BY <1>1, <1>2, <1>3
-----------------------------------------------------------------------------
\* What From and Visited compute.
LEMMA FromIs ==
  ASSUME TypeOK, NEW h \in Handles
  PROVE  \E f : IsWalk(f, m_pPtr, m_pPtr[h]) /\ From(h) = Met(f)
  <1> DEFINE Eq(f) == f = [n \in 0..Cardinality(Blocks) |->
                              IF n = 0 THEN m_pPtr[h]
                              ELSE IF f[n - 1] = None THEN None ELSE m_pPtr[f[n - 1]]]
             Nth == CHOOSE f : Eq(f)
  <1>0. /\ N \in Nat /\ m_pPtr[h] \in OrNone
        /\ \A x \in Blocks : m_pPtr[x] \in OrNone
    BY Constants DEF TypeOK, OrNone
  <1>1. PICK g : IsWalk(g, m_pPtr, m_pPtr[h])
    BY <1>0, WalkExists
  <1>2. Eq(g)
    <2>1. \A n \in 0..N : g[n] = IF n = 0 THEN m_pPtr[h]
                                 ELSE IF g[n - 1] = None THEN None ELSE m_pPtr[g[n - 1]]
      BY <1>0, <1>1 DEF IsWalk
    <2>2. g = [n \in 0..N |-> g[n]]
      BY <1>1, SMTT(60) DEF IsWalk
    <2> QED  BY <2>1, <2>2 DEF N
  <1>3. Eq(Nth)
    BY <1>2
  <1>4. From(h) = {Nth[n] : n \in DOMAIN Nth} \ {None}
    BY DEF From
  <1> HIDE DEF Nth
  <1>5. /\ DOMAIN Nth = 0..N
        /\ \A n \in 0..N : Nth[n] = IF n = 0 THEN m_pPtr[h]
                                    ELSE IF Nth[n - 1] = None THEN None ELSE m_pPtr[Nth[n - 1]]
        /\ Nth = [n \in 0..N |-> Nth[n]]
    BY <1>3 DEF N
  <1>6. \A n \in 0..N : Nth[n] \in OrNone
    <2> DEFINE S == {n \in 0..N : Nth[n] \in OrNone}
    <2>1. 0 \in S
      BY <1>0, <1>5
    <2>2. ASSUME NEW n \in 1..N, n - 1 \in S PROVE n \in S
      BY <1>0, <1>5, <2>2 DEF OrNone
    <2> HIDE DEF S
    <2>3. \A n \in 0..N : n \in S
      BY <1>0, <2>1, <2>2, Induct
    <2> QED  BY <2>3 DEF S
  <1>7. IsWalk(Nth, m_pPtr, m_pPtr[h])
    <2>1. Nth \in [0..N -> OrNone] /\ Nth[0] = m_pPtr[h]
      BY <1>0, <1>5, <1>6
    <2>2. ASSUME NEW k \in 1..N
          PROVE  Nth[k] = IF Nth[k - 1] = None THEN None ELSE m_pPtr[Nth[k - 1]]
      <3>1. k \in 0..N /\ k # 0
        BY <1>0
      <3> QED  BY <1>5, <3>1
    <2> QED  BY <2>1, <2>2 DEF IsWalk
  <1>8. From(h) = Met(Nth)
    BY <1>4, <1>5 DEF Met
  <1> QED  BY <1>7, <1>8

\* The step of the cascade: from a block that is deleted to the one its member has.
Falls == [x \in Blocks |-> IF m_nRefCount[x] = 1 THEN m_pPtr[x] ELSE None]

LEMMA VisitedIs ==
  ASSUME TypeOK, NEW b \in Blocks
  PROVE  \E f : IsWalk(f, Falls, b) /\ Visited(b) = Met(f)
  <1> DEFINE Eq(f) == f = [n \in 0..Cardinality(Blocks) |->
                              IF n = 0 THEN b
                              ELSE LET last == f[n - 1]
                                   IN  IF last # None /\ m_nRefCount[last] = 1
                                       THEN m_pPtr[last] ELSE None]
             Nth == CHOOSE f : Eq(f)
  <1>0. /\ N \in Nat /\ b \in OrNone /\ None \in OrNone /\ None \notin Blocks
        /\ \A x \in Blocks : m_pPtr[x] \in OrNone
        /\ \A x \in Blocks : Falls[x] = IF m_nRefCount[x] = 1 THEN m_pPtr[x] ELSE None
        /\ \A x \in OrNone : x # None => x \in Blocks
    BY Constants DEF TypeOK, OrNone, Falls
  <1>1. PICK g : IsWalk(g, Falls, b)
    <2>1. \A x \in Blocks : Falls[x] \in OrNone
      BY <1>0
    <2> QED  BY <1>0, <2>1, WalkExists
  <1>2. Eq(g)
    <2>1. \A n \in 0..N : g[n] = IF n = 0 THEN b
                                 ELSE IF g[n - 1] # None /\ m_nRefCount[g[n - 1]] = 1
                                      THEN m_pPtr[g[n - 1]] ELSE None
      <3> SUFFICES ASSUME NEW n \in 0..N, n # 0
                   PROVE  g[n] = IF g[n - 1] # None /\ m_nRefCount[g[n - 1]] = 1
                                 THEN m_pPtr[g[n - 1]] ELSE None
        BY <1>1 DEF IsWalk
      <3>1. n \in 1..N /\ n - 1 \in 0..N
        BY <1>0
      <3>2. g[n] = IF g[n - 1] = None THEN None ELSE Falls[g[n - 1]]
        BY <1>1, <3>1 DEF IsWalk
      <3>3. g[n - 1] # None => g[n - 1] \in Blocks
        BY <1>0, <1>1, <3>1 DEF IsWalk
      <3> QED  BY <1>0, <3>2, <3>3
    <2>2. g = [n \in 0..N |-> g[n]]
      BY <1>1, SMTT(60) DEF IsWalk
    <2> QED  BY <2>1, <2>2 DEF N
  <1>3. Eq(Nth)
    BY <1>2
  <1>4. Visited(b) = {Nth[n] : n \in DOMAIN Nth} \ {None}
    BY DEF Visited
  <1> HIDE DEF Nth
  <1>5. /\ DOMAIN Nth = 0..N
        /\ \A n \in 0..N : Nth[n] = IF n = 0 THEN b
                                    ELSE IF Nth[n - 1] # None /\ m_nRefCount[Nth[n - 1]] = 1
                                         THEN m_pPtr[Nth[n - 1]] ELSE None
        /\ Nth = [n \in 0..N |-> Nth[n]]
    BY <1>3 DEF N
  <1>6. \A n \in 0..N : Nth[n] \in OrNone
    <2> DEFINE S == {n \in 0..N : Nth[n] \in OrNone}
    <2>1. 0 \in S
      BY <1>0, <1>5
    <2>2. ASSUME NEW n \in 1..N, n - 1 \in S PROVE n \in S
      <3>1. n \in 0..N /\ n # 0 /\ n - 1 \in 0..N /\ Nth[n - 1] \in OrNone
        BY <1>0, <2>2
      <3>2. Nth[n] = IF Nth[n - 1] # None /\ m_nRefCount[Nth[n - 1]] = 1
                     THEN m_pPtr[Nth[n - 1]] ELSE None
        BY <1>5, <3>1
      <3> QED  BY <1>0, <3>1, <3>2
    <2> HIDE DEF S
    <2>3. \A n \in 0..N : n \in S
      BY <1>0, <2>1, <2>2, Induct
    <2> QED  BY <2>3 DEF S
  <1>7. IsWalk(Nth, Falls, b)
    <2>1. Nth \in [0..N -> OrNone] /\ Nth[0] = b
      BY <1>0, <1>5, <1>6
    <2>2. ASSUME NEW k \in 1..N
          PROVE  Nth[k] = IF Nth[k - 1] = None THEN None ELSE Falls[Nth[k - 1]]
      <3>1. k \in 0..N /\ k # 0 /\ k - 1 \in 0..N
        BY <1>0
      <3> QED  BY <1>0, <1>5, <1>6, <3>1
    <2> QED  BY <2>1, <2>2 DEF IsWalk
  <1>8. Visited(b) = Met(Nth)
    BY <1>4, <1>5 DEF Met
  <1> QED  BY <1>7, <1>8
-----------------------------------------------------------------------------
\* The handles that share a block.
Owners(b) == {h \in alive : m_pPtr[h] = b}

\* Counts are numbers of handles, and no object that lives is without one.
Counted == \A b \in Live : m_nRefCount[b] = Cardinality(Owners(b)) /\ Owners(b) # {}
Pointed == \A h \in alive : m_pPtr[h] # None => m_pPtr[h] \in Live

IInv == TypeOK /\ Counted /\ Pointed /\ Live \cap freed = {}

LEMMA Types ==
  ASSUME TypeOK
  PROVE  /\ \A h \in Handles : m_pPtr[h] \in OrNone
         /\ \A b \in Blocks : m_nRefCount[b] \in Nat /\ m_nRefCount[b] <= Cardinality(Handles)
         /\ \A h \in alive : h \in Handles
         /\ Live \subseteq Blocks /\ Live \subseteq alive
         /\ IsFiniteSet(alive)
  <1>1. IsFiniteSet(alive)
    BY Constants, FS_Subset DEF TypeOK
  <1> QED  BY <1>1, Constants DEF TypeOK, OrNone, Live

LEMMA OwnersFinite ==
  ASSUME TypeOK, NEW b
  PROVE  /\ IsFiniteSet(Owners(b)) /\ Cardinality(Owners(b)) \in Nat
         /\ Owners(b) \subseteq alive
  <1>1. Owners(b) \subseteq alive
    BY DEF Owners
  <1> QED  BY <1>1, Types, FS_Subset, FS_CardinalityType

\* The count of a block that lives is at least one, and one just when there is one
\* handle to it.
LEMMA CountOne ==
  ASSUME IInv, NEW b \in Live
  PROVE  /\ m_nRefCount[b] \in Nat /\ m_nRefCount[b] >= 1
         /\ m_nRefCount[b] = 1 => \A g, h \in Owners(b) : g = h
  <1>1. /\ m_nRefCount[b] = Cardinality(Owners(b)) /\ Owners(b) # {}
        /\ IsFiniteSet(Owners(b)) /\ Cardinality(Owners(b)) \in Nat
    BY OwnersFinite DEF IInv, Counted
  <1>2. Cardinality(Owners(b)) # 0
    BY <1>1, FS_EmptySet
  <1>3. Cardinality(Owners(b)) = 1 => \E x : Owners(b) = {x}
    BY <1>1, FS_Singleton
  <1> QED  BY <1>1, <1>2, <1>3

\* Giving up the reference of h to its block visits blocks that live, each given up
\* by one handle that goes; a block that is deleted has no other.
LEMMA CascadeIs ==
  ASSUME IInv, NEW h \in alive, m_pPtr[h] # None, h \notin Deletes(m_pPtr[h])
  PROVE  LET V == Visited(m_pPtr[h])
             D == Deletes(m_pPtr[h])
             gone == D \cup {h}
         IN  /\ V \subseteq Live /\ D = {x \in V : m_nRefCount[x] = 1}
             /\ \A x \in V : \E r \in gone : Owners(x) \cap gone = {r}
             /\ \A x \in Live \ V : Owners(x) \cap gone = {}
  <1> DEFINE old == m_pPtr[h]
             V == Visited(old)
             D == Deletes(old)
             gone == D \cup {h}
  <1>0. /\ N \in Nat /\ old \in Live /\ old \in Blocks /\ old # None
        /\ None \notin Blocks
    BY Types, Constants DEF IInv, Pointed
  <1>1. PICK f : IsWalk(f, Falls, old) /\ V = Met(f)
    BY <1>0, VisitedIs DEF IInv
  <1>2. \A x \in Live : Falls[x] = IF m_nRefCount[x] = 1 THEN m_pPtr[x] ELSE None
    BY Types DEF Falls, IInv
  <1>3. D = {x \in V : m_nRefCount[x] = 1}
    BY DEF Deletes
  <1>4. V \subseteq Live
    <2>1. \A x \in Live : Falls[x] # None => Falls[x] \in Live
      BY <1>2, Types DEF IInv, Pointed
    <2> HIDE DEF V, old
    <2> QED  BY <1>0, <1>1, <2>1, MetWithin
  <1>5. /\ old \in V
        /\ \A x \in V : x = old \/ \E y \in V : Falls[y] = x
        /\ \A x \in V : Falls[x] # None => Falls[x] \in V
    <2> HIDE DEF V, old
    <2> QED  BY <1>0, <1>1, MetFrom, MetClosed
  <1> HIDE DEF V, D, old
  <1>6. /\ D \subseteq Live /\ D \subseteq alive /\ h \in alive /\ h \notin D
        /\ \A d \in D : Falls[d] = m_pPtr[d] /\ m_nRefCount[d] = 1 /\ d \in V
        /\ m_pPtr[h] = old
        /\ \A x \in V : x # None
    BY <1>0, <1>2, <1>3, <1>4, Types DEF IInv, D, old
  <1>7. ASSUME NEW x \in V
        PROVE  \E r \in gone : r \in Owners(x)
    <2>1. CASE x = old
      BY <1>6, <2>1 DEF Owners
    <2>2. CASE x # old
      <3>1. PICK y \in V : Falls[y] = x
        BY <1>5, <2>2
      <3>2. m_nRefCount[y] = 1 /\ m_pPtr[y] = x
        BY <1>2, <1>4, <1>6, <3>1
      <3>3. y \in D
        BY <1>3, <3>2
      <3> QED  BY <1>6, <3>2, <3>3 DEF Owners
    <2> QED  BY <2>1, <2>2
  \* The walk ends at a block that is not deleted.
  <1>8. ASSUME NEW x \in V, m_nRefCount[x] # 1, NEW i \in 0..N, f[i] = x
        PROVE  \A j \in (i + 1)..N : f[j] = None
    <2> SUFFICES ASSUME NEW j \in (i + 1)..N PROVE f[j] = None
      OBVIOUS
    <2>1. i + 1 \in 1..N /\ i + 1 \in 0..N /\ (i + 1) - 1 = i /\ j \in (i + 1)..N
      BY <1>0
    <2>2. f[i + 1] = None
      BY <1>2, <1>4, <1>8, <2>1, <1>1 DEF IsWalk
    <2> QED  BY <1>1, <2>1, <2>2, StaysNone
  <1>9. ASSUME NEW d \in D, NEW i \in 0..N, f[i] = d, i # N
        PROVE  f[i + 1] = m_pPtr[d] /\ i + 1 \in 0..N
    <2>1. i + 1 \in 1..N /\ i + 1 \in 0..N /\ (i + 1) - 1 = i
      BY <1>0, <1>9
    <2> QED  BY <1>1, <1>6, <1>9, <2>1 DEF IsWalk
  <1>10. ASSUME NEW x \in V, NEW r \in gone, NEW s \in gone, r \in Owners(x), s \in Owners(x)
         PROVE  r = s
    <2>1. CASE m_nRefCount[x] = 1
      BY <1>4, <1>10, <2>1, CountOne
    <2>2. CASE m_nRefCount[x] # 1
      <3>1. ASSUME NEW d \in D, m_pPtr[d] = x, x = old PROVE FALSE
        <4>1. PICK j \in 0..N : f[j] = d
          BY <1>1, <1>6 DEF Met
        <4>2. 0 \in 0..N /\ f[0] = x
          BY <1>0, <1>1, <3>1 DEF IsWalk
        <4>3. j # 0
          BY <1>6, <2>2, <4>1, <4>2
        <4>4. j \in (0 + 1)..N
          BY <1>0, <4>3
        <4>5. f[j] = None
          BY <1>8, <2>2, <4>2, <4>4
        <4> QED  BY <1>6, <4>1, <4>5
      <3>2. ASSUME NEW d \in D, NEW e \in D, m_pPtr[d] = x, m_pPtr[e] = x, NEW i \in 0..N,
                   NEW j \in 0..N, f[i] = d, f[j] = e, i < j
            PROVE  FALSE
        <4>1. f[i + 1] = x /\ i + 1 \in 0..N
          BY <1>0, <1>9, <3>2
        <4>2. j # i + 1
          BY <1>6, <2>2, <3>2, <4>1
        <4>3. j \in ((i + 1) + 1)..N
          BY <1>0, <3>2, <4>2
        <4>4. f[j] = None
          BY <1>8, <2>2, <4>1, <4>3
        <4> QED  BY <1>6, <3>2, <4>4
      <3>3. ASSUME NEW d \in D, NEW e \in D, m_pPtr[d] = x, m_pPtr[e] = x PROVE d = e
        <4>1. PICK i \in 0..N : f[i] = d
          BY <1>1, <1>6 DEF Met
        <4>2. PICK j \in 0..N : f[j] = e
          BY <1>1, <1>6 DEF Met
        <4>3. i < j \/ j < i \/ i = j
          BY <1>0
        <4> QED  BY <3>2, <3>3, <4>1, <4>2, <4>3
      <3> QED  BY <1>6, <1>10, <3>1, <3>3 DEF Owners
    <2> QED  BY <2>1, <2>2
  <1>11. \A x \in V : \E r \in gone : Owners(x) \cap gone = {r}
    BY <1>7, <1>10
  <1>12. ASSUME NEW x \in Live \ V PROVE Owners(x) \cap gone = {}
    <2>1. x # None
      BY <1>0, Types DEF IInv
    <2>2. \A d \in D : m_pPtr[d] # x
      BY <1>5, <1>6, <2>1
    <2> QED  BY <1>5, <1>6, <2>2 DEF Owners
  <1> QED  BY <1>3, <1>4, <1>11, <1>12 DEF V, D, old
\* So what the cascade leaves of the counts are the numbers of the handles it leaves.
LEMMA Released ==
  ASSUME IInv, NEW h \in alive, m_pPtr[h] # None, h \notin Deletes(m_pPtr[h])
  PROVE  LET D == Deletes(m_pPtr[h])
             gone == D \cup {h}
             counts == Decreased(m_pPtr[h])
         IN  /\ D \subseteq Live
             /\ counts \in [Blocks -> 0..Cardinality(Handles)]
             /\ \A x \in Live : counts[x] = Cardinality(Owners(x) \ gone)
             /\ \A x \in Live \ D : Owners(x) \ gone # {}
             /\ \A g \in alive \ gone : m_pPtr[g] # None => m_pPtr[g] \in Live \ D
  <1> DEFINE V == Visited(m_pPtr[h])
             D == Deletes(m_pPtr[h])
             gone == D \cup {h}
             counts == Decreased(m_pPtr[h])
  <1>1. /\ V \subseteq Live /\ D = {x \in V : m_nRefCount[x] = 1}
        /\ \A x \in V : \E r \in gone : Owners(x) \cap gone = {r}
        /\ \A x \in Live \ V : Owners(x) \cap gone = {}
    BY CascadeIs
  <1>2. counts = [x \in Blocks |-> IF x \in V THEN m_nRefCount[x] - 1 ELSE m_nRefCount[x]]
    BY DEF Decreased
  <1> HIDE DEF V, D, counts
  <1>3. D \subseteq Live /\ Live \subseteq Blocks /\ Cardinality(Handles) \in Nat
    BY <1>1, Types, Constants DEF IInv
  <1>4. \A x \in Live : m_nRefCount[x] = Cardinality(Owners(x)) /\ IsFiniteSet(Owners(x))
                        /\ m_nRefCount[x] \in Nat /\ m_nRefCount[x] >= 1
    BY CountOne, OwnersFinite DEF IInv, Counted
  <1>5. counts \in [Blocks -> 0..Cardinality(Handles)]
    <2>1. ASSUME NEW x \in Blocks PROVE counts[x] \in 0..Cardinality(Handles)
      <3>1. m_nRefCount[x] \in 0..Cardinality(Handles)
        BY DEF IInv, TypeOK
      <3>2. x \in V => m_nRefCount[x] >= 1
        BY <1>1, <1>4
      <3> QED  BY <1>2, <1>3, <3>1, <3>2
    <2> QED  BY <1>2, <2>1
  <1>6. ASSUME NEW x \in V
        PROVE  /\ counts[x] = Cardinality(Owners(x) \ gone)
               /\ x \notin D => Owners(x) \ gone # {}
    <2>1. PICK r \in gone : Owners(x) \cap gone = {r}
      BY <1>1
    <2>2. Owners(x) \ gone = Owners(x) \ {r} /\ r \in Owners(x)
      BY <2>1
    <2>3. x \in Live /\ x \in Blocks
      BY <1>1, <1>3
    <2>4. IsFiniteSet(Owners(x)) /\ m_nRefCount[x] = Cardinality(Owners(x))
      BY <1>4, <2>3
    <2>5. Cardinality(Owners(x) \ {r}) = Cardinality(Owners(x)) - 1
      BY <2>2, <2>4, FS_RemoveElement
    <2>6. counts[x] = m_nRefCount[x] - 1
      BY <1>2, <2>3
    <2>7. x \notin D => Cardinality(Owners(x) \ {r}) # 0
      BY <1>1, <1>4, <2>3, <2>4, <2>5
    <2>8. x \notin D => Owners(x) \ {r} # {}
      BY <2>7, FS_EmptySet
    <2> QED  BY <2>2, <2>4, <2>5, <2>6, <2>8
  <1>7. ASSUME NEW x \in Live \ V
        PROVE  counts[x] = Cardinality(Owners(x) \ gone) /\ Owners(x) \ gone # {}
    <2>1. Owners(x) \ gone = Owners(x)
      BY <1>1
    <2> QED  BY <1>2, <1>3, <1>4, <2>1 DEF IInv, Counted
  <1>8. ASSUME NEW g \in alive \ gone, m_pPtr[g] # None
        PROVE  m_pPtr[g] \in Live \ D
    <2>1. m_pPtr[g] \in Live /\ g \in Owners(m_pPtr[g])
      BY <1>8 DEF IInv, Pointed, Owners
    <2>2. m_pPtr[g] \notin D
      <3> SUFFICES ASSUME m_pPtr[g] \in D PROVE FALSE
        OBVIOUS
      <3>1. m_pPtr[g] \in V /\ m_nRefCount[m_pPtr[g]] = 1
        BY <1>1
      <3>2. PICK r \in gone : r \in Owners(m_pPtr[g])
        BY <1>1, <3>1
      <3>3. r = g
        BY <2>1, <3>1, <3>2, CountOne
      <3> QED  BY <3>2, <3>3
    <2> QED  BY <2>1, <2>2
  <1> QED  BY <1>3, <1>5, <1>6, <1>7, <1>8 DEF D, counts
-----------------------------------------------------------------------------
\* What the program can name is alive.
LEMMA UsableIsAlive ==
  ASSUME IInv, NEW that \in Usable
  PROVE  that \in alive /\ that \in Handles /\ (m_pPtr[that] # None => m_pPtr[that] \in Live)
  <1>1. ASSUME NEW v \in Variables \cap alive
        PROVE  From(v) \subseteq Live
    <2>1. PICK f : IsWalk(f, m_pPtr, m_pPtr[v]) /\ From(v) = Met(f)
      BY FromIs, Constants DEF IInv
    <2>2. m_pPtr[v] # None => m_pPtr[v] \in Live
      BY DEF IInv, Pointed
    <2>3. \A x \in Live : m_pPtr[x] # None => m_pPtr[x] \in Live
      BY DEF IInv, Pointed, Live
    <2> QED  BY <2>1, <2>2, <2>3, MetWithin
  <1>2. that \in alive
    BY <1>1 DEF Usable, Reachable, Live
  <1> QED  BY <1>2, Types DEF IInv, Pointed

LEMMA InitIInv == Init => IInv
  <1> SUFFICES ASSUME Init PROVE IInv
    OBVIOUS
  <1>1. TypeOK
    <2>1. 0 \in 0..Cardinality(Handles)
      BY Constants
    <2> QED  BY <2>1 DEF Init, TypeOK
  <1> QED  BY <1>1 DEF Init, IInv, Counted, Pointed, Live

LEMMA ConstructKeeps ==
  ASSUME IInv, NEW v \in Variables, Construct(v)
  PROVE  IInv'
  <1>0. v \notin alive /\ v \in Handles /\ v \notin Blocks /\ freed' = freed /\ wild' = wild
    BY Constants DEF Construct
  <1>1. CASE /\ m_pPtr' = [m_pPtr EXCEPT ![v] = None]
             /\ alive' = alive \cup {v}
             /\ UNCHANGED m_nRefCount
    <2>1. TypeOK'
      BY <1>0, <1>1 DEF IInv, TypeOK
    <2>2. Live' = Live
      BY <1>0, <1>1 DEF Live
    <2>3. m_pPtr'[v] = None /\ \A g \in alive : m_pPtr'[g] = m_pPtr[g]
      BY <1>0, <1>1, Types DEF IInv, TypeOK
    <2>4. \A b \in Live : Owners(b)' = Owners(b)
      <3>1. \A b \in Live : b # None
        BY Constants, Types DEF IInv
      <3> QED  BY <1>1, <2>3, <3>1 DEF Owners
    <2>5. Counted'
      BY <1>1, <2>2, <2>4 DEF IInv, Counted
    <2>6. Pointed'
      BY <1>1, <2>2, <2>3 DEF IInv, Pointed
    <2> QED  BY <1>0, <2>1, <2>2, <2>5, <2>6 DEF IInv
  <1>2. ASSUME NEW b \in Blocks \ (alive \cup freed),
               m_pPtr' = [m_pPtr EXCEPT ![v] = b, ![b] = None],
               m_nRefCount' = [m_nRefCount EXCEPT ![b] = 1],
               alive' = alive \cup {v, b}
        PROVE  IInv'
    <2>0. b \in Handles /\ b # v /\ b # None /\ b \notin Live
      BY <1>0, Constants DEF Live
    <2>1. /\ m_pPtr'[v] = b /\ m_pPtr'[b] = None
          /\ \A g \in alive : m_pPtr'[g] = m_pPtr[g]
          /\ m_nRefCount'[b] = 1 /\ \A x \in Blocks \ {b} : m_nRefCount'[x] = m_nRefCount[x]
      BY <1>0, <1>2, <2>0, Types DEF IInv, TypeOK
    <2>2. TypeOK'
      <3>1. Cardinality(Handles) # 0
        BY <1>0, Constants, FS_EmptySet
      <3>2. 1 \in 0..Cardinality(Handles)
        BY <3>1, Constants
      <3> QED  BY <1>0, <1>2, <2>0, <3>2 DEF IInv, TypeOK
    <2>3. Live' = Live \cup {b}
      BY <1>0, <1>2 DEF Live
    <2>4. Owners(b)' = {v}
      <3>1. \A g \in alive : m_pPtr[g] # b
        BY <2>0 DEF IInv, Pointed
      <3> QED  BY <1>2, <2>0, <2>1, <3>1, ZenonT(60) DEF Owners
    <2>5. \A x \in Live : Owners(x)' = Owners(x)
      <3>1. \A x \in Live : x # b /\ x # None
        BY <2>0, Constants, Types DEF IInv
      <3> QED  BY <1>2, <2>1, <3>1 DEF Owners
    <2>6. Counted'
      <3>1. Cardinality({v}) = 1
        BY FS_Singleton
      <3>2. ASSUME NEW x \in Live'
            PROVE  m_nRefCount'[x] = Cardinality(Owners(x)') /\ Owners(x)' # {}
        <4>1. CASE x = b
          BY <2>1, <2>4, <3>1, <4>1
        <4>2. CASE x # b
          <5>1. x \in Live /\ x \in Blocks \ {b}
            BY <2>3, <4>2, Types DEF IInv
          <5> QED  BY <2>1, <2>5, <5>1 DEF IInv, Counted
        <4> QED  BY <4>1, <4>2
      <3> QED  BY <3>2 DEF Counted
    <2>7. Pointed'
      <3>1. ASSUME NEW g \in alive', m_pPtr'[g] # None PROVE m_pPtr'[g] \in Live'
        <4>1. CASE g = v
          BY <2>1, <2>3, <4>1
        <4>2. CASE g = b
          BY <2>1, <3>1, <4>2
        <4>3. CASE g \in alive
          <5>1. m_pPtr[g] # None => m_pPtr[g] \in Live
            BY <4>3 DEF IInv, Pointed
          <5> QED  BY <2>1, <2>3, <3>1, <4>3, <5>1
        <4> QED  BY <1>2, <4>1, <4>2, <4>3
      <3> QED  BY <3>1 DEF Pointed
    <2> QED  BY <1>0, <1>2, <2>2, <2>3, <2>6, <2>7 DEF IInv
  <1> QED  BY <1>1, <1>2 DEF Construct

LEMMA CopyConstructKeeps ==
  ASSUME IInv, NEW v \in Variables, NEW that \in Handles, CopyConstruct(v, that)
  PROVE  IInv'
  <1> DEFINE c == m_pPtr[that]
  <1>0. /\ v \notin alive /\ v \in Handles /\ v \notin Blocks /\ freed' = freed /\ wild' = wild
        /\ m_pPtr' = [m_pPtr EXCEPT ![v] = c]
        /\ m_nRefCount' = [x \in Blocks |-> IF x = c THEN m_nRefCount[x] + 1 ELSE m_nRefCount[x]]
        /\ alive' = alive \cup {v}
    BY Constants DEF CopyConstruct, Increased
  <1>1. c \in OrNone /\ (c # None => c \in Live)
    BY UsableIsAlive, Types DEF CopyConstruct, IInv
  <1> HIDE DEF c
  <1>2. Live' = Live
    BY <1>0 DEF Live
  <1>3. m_pPtr'[v] = c /\ \A g \in alive : m_pPtr'[g] = m_pPtr[g]
    BY <1>0, Types DEF IInv, TypeOK
  <1>4. \A x \in Live : /\ Owners(x)' = IF x = c THEN Owners(x) \cup {v} ELSE Owners(x)
                        /\ v \notin Owners(x)
    BY <1>0, <1>3 DEF Owners
  <1>5. ASSUME NEW x \in Live
        PROVE  /\ m_nRefCount'[x] = Cardinality(Owners(x)') /\ Owners(x)' # {}
    <2>1. /\ IsFiniteSet(Owners(x)) /\ x \in Blocks
          /\ m_nRefCount[x] = Cardinality(Owners(x)) /\ Owners(x) # {}
      BY OwnersFinite, Types DEF IInv, Counted
    <2>2. Cardinality(Owners(x) \cup {v}) = Cardinality(Owners(x)) + 1
      BY <1>4, <2>1, FS_AddElement
    <2> QED  BY <1>0, <1>4, <2>1, <2>2
  <1>6. Counted'
    BY <1>2, <1>5 DEF Counted
  <1>7. Pointed'
    BY <1>0, <1>1, <1>2, <1>3 DEF IInv, Pointed
  <1>8. TypeOK'
    <2>1. m_pPtr' \in [Handles -> OrNone]
      BY <1>0, <1>1 DEF IInv, TypeOK, OrNone
    <2>2. ASSUME NEW x \in Blocks PROVE m_nRefCount'[x] \in 0..Cardinality(Handles)
      <3>1. CASE x = c
        <4>1. x \in Live
          BY <1>1, <3>1, Constants
        <4>2. Owners(x)' \subseteq Handles
          BY <1>0, <1>4, <4>1, Types DEF Owners, IInv
        <4>3. IsFiniteSet(Owners(x)') /\ Cardinality(Owners(x)') <= Cardinality(Handles)
          BY <4>2, Constants, FS_Subset
        <4>4. Cardinality(Owners(x)') \in Nat
          BY <4>3, FS_CardinalityType
        <4> QED  BY <1>5, <4>1, <4>3, <4>4, Constants
      <3>2. CASE x # c
        BY <1>0, <3>2 DEF IInv, TypeOK
      <3> QED  BY <3>1, <3>2
    <2>3. m_nRefCount' \in [Blocks -> 0..Cardinality(Handles)]
      BY <1>0, <2>2
    <2> QED  BY <1>0, <2>1, <2>3 DEF IInv, TypeOK, OrNone
  <1> QED  BY <1>0, <1>2, <1>6, <1>7, <1>8 DEF IInv

LEMMA AssignKeeps ==
  ASSUME IInv, NEW h \in Handles, NEW that \in Handles, Assign(h, that)
  PROVE  IInv'
  <1> DEFINE old == m_pPtr[h]
             c == m_pPtr[that]
             D == Deletes(old)
             gone == D \cup {h}
  <1>0. /\ h \in alive /\ that \in alive /\ h # that
        /\ c \in OrNone /\ (c # None => c \in Live)
    BY UsableIsAlive, Types DEF Assign, IInv
  <1>1. CASE old = None
    <2>0. /\ m_pPtr' = [m_pPtr EXCEPT ![h] = c]
          /\ m_nRefCount' = [x \in Blocks |-> IF x = c THEN m_nRefCount[x] + 1 ELSE m_nRefCount[x]]
          /\ alive' = alive /\ freed' = freed /\ wild' = wild
      BY <1>1 DEF Assign, Increased
    <2> HIDE DEF c
    <2>1. Live' = Live
      BY <2>0 DEF Live
    <2>2. m_pPtr'[h] = c /\ \A g \in alive \ {h} : m_pPtr'[g] = m_pPtr[g]
      BY <2>0, Types DEF IInv, TypeOK
    <2>3. \A x \in Live : /\ Owners(x)' = IF x = c THEN Owners(x) \cup {h} ELSE Owners(x)
                          /\ h \notin Owners(x)
      <3>1. \A x \in Live : x # None
        BY Constants, Types DEF IInv
      <3> QED  BY <1>0, <1>1, <2>0, <2>2, <3>1 DEF Owners
    <2>4. ASSUME NEW x \in Live
          PROVE  m_nRefCount'[x] = Cardinality(Owners(x)') /\ Owners(x)' # {}
      <3>1. /\ IsFiniteSet(Owners(x)) /\ x \in Blocks
            /\ m_nRefCount[x] = Cardinality(Owners(x)) /\ Owners(x) # {}
        BY OwnersFinite, Types DEF IInv, Counted
      <3>2. Cardinality(Owners(x) \cup {h}) = Cardinality(Owners(x)) + 1
        BY <2>3, <3>1, FS_AddElement
      <3> QED  BY <2>0, <2>3, <3>1, <3>2
    <2>5. Counted'
      BY <2>1, <2>4 DEF Counted
    <2>6. Pointed'
      <3>1. ASSUME NEW g \in alive, m_pPtr'[g] # None PROVE m_pPtr'[g] \in Live
        <4>1. CASE g = h
          BY <1>0, <2>2, <3>1, <4>1
        <4>2. CASE g # h
          BY <2>2, <3>1, <4>2 DEF IInv, Pointed
        <4> QED  BY <4>1, <4>2
      <3> QED  BY <2>0, <2>1, <3>1 DEF Pointed
    <2>7. TypeOK'
      <3>1. m_pPtr' \in [Handles -> OrNone]
        BY <1>0, <2>0 DEF IInv, TypeOK, OrNone
      <3>2. ASSUME NEW x \in Blocks PROVE m_nRefCount'[x] \in 0..Cardinality(Handles)
        <4>1. CASE x = c
          <5>1. x \in Live
            BY <1>0, <4>1, Constants
          <5>2. Owners(x)' \subseteq Handles
            BY <2>0, <2>3, <5>1, Types DEF Owners, IInv
          <5>3. IsFiniteSet(Owners(x)') /\ Cardinality(Owners(x)') <= Cardinality(Handles)
            BY <5>2, Constants, FS_Subset
          <5>4. Cardinality(Owners(x)') \in Nat
            BY <5>3, FS_CardinalityType
          <5> QED  BY <2>4, <5>1, <5>3, <5>4, Constants
        <4>2. CASE x # c
          BY <2>0, <4>2 DEF IInv, TypeOK
        <4> QED  BY <4>1, <4>2
      <3>3. m_nRefCount' \in [Blocks -> 0..Cardinality(Handles)]
        BY <2>0, <3>2
      <3> QED  BY <2>0, <3>1, <3>3 DEF IInv, TypeOK, OrNone
    <2> QED  BY <2>0, <2>1, <2>5, <2>6, <2>7 DEF IInv
  <1>2. CASE old # None /\ {h, that} \cap D # {}
    <2>1. UNCHANGED <<m_pPtr, m_nRefCount, alive, freed>> /\ wild' = TRUE
      BY <1>2 DEF Assign
    <2>2. TypeOK' /\ Live' = Live
      BY <2>1 DEF IInv, TypeOK, Live
    <2>3. \A x : Owners(x)' = Owners(x)
      BY <2>1 DEF Owners
    <2> QED  BY <2>1, <2>2, <2>3 DEF IInv, Counted, Pointed
  <1>3. CASE old # None /\ {h, that} \cap D = {}
    <2> DEFINE counts == Decreased(old)
    <2>0. /\ m_pPtr' = [m_pPtr EXCEPT ![h] = c]
          /\ m_nRefCount' = [x \in Blocks |-> IF x = c THEN counts[x] + 1 ELSE counts[x]]
          /\ alive' = alive \ D /\ freed' = freed \cup D /\ wild' = wild
      BY <1>3 DEF Assign, Increased, Release
    <2>1. /\ D \subseteq Live /\ counts \in [Blocks -> 0..Cardinality(Handles)]
          /\ \A x \in Live : counts[x] = Cardinality(Owners(x) \ gone)
          /\ \A g \in alive \ gone : m_pPtr[g] # None => m_pPtr[g] \in Live \ D
          /\ \A x \in Live \ D : Owners(x) \ gone # {}
      BY <1>0, <1>3, Released
    <2>2. c # None => c \in Live \ D
      BY <1>0, <1>3, <2>1
    <2>3. h \notin D /\ h \in alive
      BY <1>0, <1>3
    <2> HIDE DEF old, c, D, counts
    <2>4. Live' = Live \ D
      BY <2>0 DEF Live
    <2>5. m_pPtr'[h] = c /\ \A g \in alive \ {h} : m_pPtr'[g] = m_pPtr[g]
      BY <2>0, <2>3, Types DEF IInv, TypeOK
    <2>6. \A x \in Live \ D : Owners(x)' = IF x = c THEN (Owners(x) \ gone) \cup {h}
                                           ELSE Owners(x) \ gone
      BY <2>0, <2>3, <2>5 DEF Owners
    <2>7. ASSUME NEW x \in Live \ D
          PROVE  m_nRefCount'[x] = Cardinality(Owners(x)') /\ Owners(x)' # {}
      <3>1. IsFiniteSet(Owners(x) \ gone) /\ x \in Blocks /\ h \notin Owners(x) \ gone
        BY OwnersFinite, FS_Difference, Types DEF IInv
      <3> DEFINE rest == Owners(x) \ gone
      <3>2. counts[x] = Cardinality(rest) /\ rest # {} /\ IsFiniteSet(rest) /\ h \notin rest
            /\ Owners(x)' = IF x = c THEN rest \cup {h} ELSE rest
        BY <2>1, <2>6, <3>1
      <3> HIDE DEF rest
      <3>3. Cardinality(rest \cup {h}) = Cardinality(rest) + 1
        BY <3>2, FS_AddElement
      <3> QED  BY <2>0, <3>1, <3>2, <3>3
    <2>8. Counted'
      BY <2>4, <2>7 DEF Counted
    <2>9. Pointed'
      <3>1. ASSUME NEW g \in alive', m_pPtr'[g] # None PROVE m_pPtr'[g] \in Live \ D
        <4>1. CASE g = h
          BY <2>2, <2>5, <3>1, <4>1
        <4>2. CASE g # h
          <5>1. g \in alive \ gone /\ m_pPtr'[g] = m_pPtr[g]
            BY <2>0, <2>5, <4>2, <3>1
          <5> QED  BY <2>1, <3>1, <5>1
        <4> QED  BY <4>1, <4>2
      <3> QED  BY <2>4, <3>1 DEF Pointed
    <2>10. TypeOK'
      <3>1. m_pPtr' \in [Handles -> OrNone]
        BY <1>0, <2>0 DEF IInv, TypeOK, OrNone, c
      <3>2. ASSUME NEW x \in Blocks PROVE m_nRefCount'[x] \in 0..Cardinality(Handles)
        <4>1. CASE x = c
          <5>1. x \in Live \ D
            BY <2>2, <4>1, Constants
          <5>2. Owners(x)' \subseteq Handles
            BY <2>0, Types DEF Owners, IInv
          <5>3. IsFiniteSet(Owners(x)') /\ Cardinality(Owners(x)') <= Cardinality(Handles)
            BY <5>2, Constants, FS_Subset
          <5>4. Cardinality(Owners(x)') \in Nat
            BY <5>3, FS_CardinalityType
          <5> QED  BY <2>7, <5>1, <5>3, <5>4, Constants
        <4>2. CASE x # c
          BY <2>0, <2>1, <4>2
        <4> QED  BY <4>1, <4>2
      <3>3. m_nRefCount' \in [Blocks -> 0..Cardinality(Handles)]
        BY <2>0, <3>2
      <3>4. alive' \subseteq Handles /\ freed' \subseteq Blocks /\ wild' \in BOOLEAN
        BY <2>0, <2>1, Types DEF IInv, TypeOK
      <3> QED  BY <3>1, <3>3, <3>4 DEF TypeOK, OrNone
    <2>11. Live' \cap freed' = {}
      BY <2>0, <2>4 DEF IInv
    <2> QED  BY <2>8, <2>9, <2>10, <2>11 DEF IInv
  <1> QED  BY <1>1, <1>2, <1>3

LEMMA DestructKeeps ==
  ASSUME IInv, NEW v \in Variables, Destruct(v)
  PROVE  IInv'
  <1>0. /\ v \in alive /\ v \in Handles /\ v \notin Blocks
        /\ m_pPtr' = m_pPtr /\ wild' = wild
    BY Constants DEF Destruct
  <1>1. CASE m_pPtr[v] = None
    <2>1. alive' = alive \ {v} /\ UNCHANGED <<m_nRefCount, freed>>
      BY <1>1 DEF Destruct
    <2>2. Live' = Live /\ TypeOK'
      BY <1>0, <2>1 DEF Live, IInv, TypeOK
    <2>3. \A x \in Live : Owners(x)' = Owners(x)
      <3>1. \A x \in Live : x # None
        BY Constants, Types DEF IInv
      <3> QED  BY <1>0, <1>1, <2>1, <3>1 DEF Owners
    <2>4. Counted' /\ Pointed'
      BY <1>0, <2>1, <2>2, <2>3 DEF IInv, Counted, Pointed
    <2> QED  BY <2>1, <2>2, <2>4 DEF IInv
  <1>2. CASE m_pPtr[v] # None
    <2> DEFINE D == Deletes(m_pPtr[v])
               gone == D \cup {v}
               counts == Decreased(m_pPtr[v])
    <2>0. freed' = freed \cup D /\ alive' = alive \ gone /\ m_nRefCount' = counts
      BY <1>2 DEF Destruct
    <2>1. v \notin D
      <3>1. m_pPtr[v] \in Blocks
        BY <1>0, <1>2, Types DEF IInv, OrNone
      <3>2. PICK f : IsWalk(f, Falls, m_pPtr[v]) /\ Visited(m_pPtr[v]) = Met(f)
        BY <3>1, VisitedIs DEF IInv
      <3>3. Visited(m_pPtr[v]) \subseteq Blocks
        BY <3>2, MetFrom
      <3> QED  BY <1>0, <3>3 DEF Deletes
    <2>2. /\ D \subseteq Live /\ counts \in [Blocks -> 0..Cardinality(Handles)]
          /\ \A x \in Live : counts[x] = Cardinality(Owners(x) \ gone)
          /\ \A x \in Live \ D : Owners(x) \ gone # {}
          /\ \A g \in alive \ gone : m_pPtr[g] # None => m_pPtr[g] \in Live \ D
      BY <1>0, <1>2, <2>1, Released
    <2> HIDE DEF D, counts
    <2>3. Live' = Live \ D
      BY <1>0, <2>0 DEF Live
    <2>4. \A x : Owners(x)' = Owners(x) \ gone
      BY <1>0, <2>0 DEF Owners
    <2>5. Counted'
      BY <2>0, <2>2, <2>3, <2>4 DEF Counted
    <2>6. Pointed'
      BY <1>0, <2>0, <2>2, <2>3 DEF Pointed
    <2>7. TypeOK'
      BY <1>0, <2>0, <2>2, Types DEF IInv, TypeOK
    <2>8. Live' \cap freed' = {}
      BY <2>0, <2>3 DEF IInv
    <2> QED  BY <2>5, <2>6, <2>7, <2>8 DEF IInv
  <1> QED  BY <1>1, <1>2

LEMMA NextIInv == IInv /\ [Next]_vars => IInv'
  <1> SUFFICES ASSUME IInv, [Next]_vars PROVE IInv'
    OBVIOUS
  <1>1. CASE Next
    BY <1>1, ConstructKeeps, DestructKeeps, CopyConstructKeeps, AssignKeeps DEF Next
  <1>2. CASE UNCHANGED vars
    <2>1. \A x : Owners(x)' = Owners(x)
      BY <1>2 DEF Owners, vars
    <2>2. TypeOK' /\ Live' = Live
      BY <1>2 DEF IInv, TypeOK, Live, vars
    <2> QED  BY <1>2, <2>1, <2>2 DEF IInv, Counted, Pointed, vars
  <1> QED  BY <1>1, <1>2

\* The counts, the owners and the blocks that live agree in every reachable state.
THEOREM InductiveInvariant == Spec => []IInv
  BY InitIInv, NextIInv, PTL DEF Spec

\* The count of an object is the number of the handles that share it, nobody points to
\* a deleted one, and so each object is deleted once, by its last handle (66-112).
THEOREM CountsAreTheHandles == Spec => []CountsAreHandles
  <1>1. IInv => CountsAreHandles
    BY DEF IInv, Counted, Pointed, Owners, CountsAreHandles
  <1> QED  BY <1>1, InductiveInvariant, PTL
-----------------------------------------------------------------------------
\* Who owns what no variable leads to is an object no variable leads to.
LEMMA OwnerIsUnreachable ==
  ASSUME IInv, NEW b \in Live \ Reachable
  PROVE  \E p \in Live \ Reachable : m_pPtr[p] = b
  <1>1. PICK p \in alive : m_pPtr[p] = b
    BY DEF IInv, Counted, Owners
  <1>2. b # None /\ p \in Handles
    BY Constants, Types DEF IInv
  <1>3. \A h \in Handles : \E f : IsWalk(f, m_pPtr, m_pPtr[h]) /\ From(h) = Met(f)
    BY FromIs DEF IInv
  <1>4. p \notin Variables
    <2> SUFFICES ASSUME p \in Variables PROVE FALSE
      OBVIOUS
    <2>1. b \in From(p)
      BY <1>1, <1>2, <1>3, MetFrom
    <2> QED  BY <2>1 DEF Reachable
  <1>5. p \notin Reachable
    <2> SUFFICES ASSUME p \in Reachable PROVE FALSE
      OBVIOUS
    <2>1. PICK v \in Variables \cap alive : p \in From(v)
      BY DEF Reachable
    <2>2. PICK f : IsWalk(f, m_pPtr, m_pPtr[v]) /\ From(v) = Met(f)
      BY <1>3, Constants
    <2>3. b \in From(v)
      BY <1>1, <1>2, <2>1, <2>2, MetClosed
    <2> QED  BY <2>3 DEF Reachable
  <1> QED  BY <1>1, <1>2, <1>4, <1>5 DEF Live, Handles

\* So there is a walk back from such an object, as long as any.
IsTrail(q, b, n) == /\ q \in [0..n -> Live \ Reachable] /\ q[0] = b
                    /\ \A k \in 1..n : m_pPtr[q[k]] = q[k - 1]

LEMMA TrailExists ==
  ASSUME IInv, NEW b \in Live \ Reachable
  PROVE  \E q : IsTrail(q, b, N)
  <1> DEFINE S == {n \in 0..N : \E q : IsTrail(q, b, n)}
  <1>0. N \in Nat
    BY Constants
  <1>1. 0 \in S
    <2>1. IsTrail([k \in 0..0 |-> b], b, 0)
      BY DEF IsTrail
    <2>2. 0 \in 0..N /\ \E q : IsTrail(q, b, 0)
      BY <1>0, <2>1
    <2> QED  BY <2>2
  <1>2. ASSUME NEW n \in 1..N, n - 1 \in S
        PROVE  n \in S
    <2>1. PICK q : IsTrail(q, b, n - 1)
      BY <1>2
    <2>2. n \in Nat /\ n - 1 \in 0..(n - 1) /\ q[n - 1] \in Live \ Reachable
      BY <1>0, <2>1 DEF IsTrail
    <2>3. PICK p \in Live \ Reachable : m_pPtr[p] = q[n - 1]
      BY <2>2, OwnerIsUnreachable
    <2> DEFINE g == [k \in 0..n |-> IF k < n THEN q[k] ELSE p]
    <2>4. /\ g \in [0..n -> Live \ Reachable] /\ g[0] = b /\ g[n] = p
          /\ \A k \in 0..(n - 1) : g[k] = q[k]
      BY <1>0, <2>1, <2>2, <2>3 DEF IsTrail
    <2> HIDE DEF g
    <2>5. ASSUME NEW k \in 1..n PROVE m_pPtr[g[k]] = g[k - 1]
      <3>1. k - 1 \in 0..(n - 1)
        BY <2>2
      <3>2. CASE k = n
        BY <2>3, <2>4, <3>1, <3>2
      <3>3. CASE k < n
        <4>1. k \in 1..(n - 1) /\ k \in 0..(n - 1)
          BY <2>2, <3>3
        <4> QED  BY <2>1, <2>4, <3>1, <4>1 DEF IsTrail
      <3> QED  BY <2>2, <3>2, <3>3
    <2>6. IsTrail(g, b, n)
      BY <2>4, <2>5 DEF IsTrail
    <2> QED  BY <2>6
  <1>3. N \in S
    <2> HIDE DEF S
    <2>1. \A k \in 0..N : k \in S
      BY <1>0, <1>1, <1>2, Induct
    <2> QED  BY <1>0, <2>1
  <1> QED  BY <1>3

\* What is before an object on a trail is met from it.
LEMMA TrailIsMet ==
  ASSUME IInv, NEW b, NEW q, IsTrail(q, b, N), NEW j \in 1..N, NEW i \in 0..(j - 1)
  PROVE  q[i] \in From(q[j])
  <1>0. N \in Nat /\ j \in Nat /\ j \in 0..N
    BY Constants
  <1>1. q[j] \in Handles /\ \A k \in 0..N : q[k] # None
    BY <1>0, Constants, Types DEF IInv, IsTrail
  <1>2. PICK f : IsWalk(f, m_pPtr, m_pPtr[q[j]]) /\ From(q[j]) = Met(f)
    BY <1>1, FromIs DEF IInv
  <1> DEFINE S == {k \in 0..(j - 1) : q[j - 1 - k] \in Met(f)}
  <1>3. 0 \in S
    <2>1. j - 1 - 0 = j - 1 /\ j - 1 \in 0..N /\ 0 \in 0..(j - 1)
      BY <1>0
    <2>2. m_pPtr[q[j]] = q[j - 1]
      BY DEF IsTrail
    <2>3. q[j - 1] \in Met(f)
      BY <1>1, <1>2, <2>1, <2>2, MetFrom
    <2> QED  BY <2>1, <2>3
  <1>4. ASSUME NEW k \in 1..(j - 1), k - 1 \in S
        PROVE  k \in S
    <2>1. /\ j - 1 - (k - 1) = j - k /\ j - k \in 1..N /\ (j - k) - 1 = j - 1 - k
          /\ j - 1 - k \in 0..N /\ k \in 0..(j - 1)
      BY <1>0
    <2>2. m_pPtr[q[j - k]] = q[j - 1 - k] /\ q[j - k] \in Met(f) /\ q[j - 1 - k] # None
      BY <1>1, <1>4, <2>1 DEF IsTrail
    <2>3. q[j - 1 - k] \in Met(f)
      BY <1>2, <2>2, MetClosed
    <2> QED  BY <2>1, <2>3
  <1> HIDE DEF S
  <1>5. j - 1 - i \in S
    <2>1. j - 1 \in Nat /\ j - 1 - i \in 0..(j - 1)
      BY <1>0
    <2>2. \A k \in 0..(j - 1) : k \in S
      BY <1>3, <1>4, <2>1, Induct
    <2> QED  BY <2>1, <2>2
  <1>6. j - 1 - (j - 1 - i) = i
    BY <1>0
  <1> QED  BY <1>2, <1>5, <1>6 DEF S

\* An object no variable leads to is on a cycle, or behind one: the trail back from it
\* is longer than there are blocks, so it comes to a block twice (82-89, 104-111).
THEOREM OnlyCyclesAreLeaked == Spec => []OnlyCyclesLeak
  <1>1. IInv => OnlyCyclesLeak
    <2> SUFFICES ASSUME IInv, NEW b \in Live \ Reachable
                 PROVE  \E c \in Live \ Reachable : c \in From(c) /\ b \in From(c)
      BY DEF OnlyCyclesLeak
    <2>0. N \in Nat
      BY Constants
    <2>1. PICK q : IsTrail(q, b, N)
      BY TrailExists
    <2>2. q \in [0..N -> Blocks]
      BY <2>1, Types DEF IsTrail, IInv
    <2>3. IsFiniteSet(0..N) /\ Cardinality(0..N) = N + 1
      BY <2>0, FS_Interval
    <2>4. IsFiniteSet(Blocks) /\ Cardinality(Blocks) < Cardinality(0..N)
      BY <2>0, <2>3, Constants DEF N
    <2>5. \E i, j \in 0..N : i # j /\ q[i] = q[j]
      BY <2>2, <2>3, <2>4, FS_PigeonHole
    <2>6. PICK i \in 0..N, j \in 0..N : i < j /\ q[i] = q[j]
      BY <2>0, <2>5
    <2>7. j \in 1..N /\ i \in 0..(j - 1) /\ 0 \in 0..(j - 1)
      BY <2>0, <2>6
    <2>8. q[i] \in From(q[j]) /\ q[0] \in From(q[j])
      BY <2>1, <2>7, TrailIsMet
    <2>9. q[j] \in Live \ Reachable /\ q[0] = b
      BY <2>1, <2>6 DEF IsTrail
    <2> QED  BY <2>6, <2>8, <2>9
  <1> QED  BY <1>1, InductiveInvariant, PTL
=============================================================================
