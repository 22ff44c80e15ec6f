---------------------------- MODULE RegistryProofs ----------------------------
(***************************************************************************)
(* Theorems about Registry, for any names, paths and depth.  That the map  *)
(* owns all takes that there is a number for a new RegistryKey: as each    *)
(* object has an entry, and the calls in progress are no more than the     *)
(* names of a path, there is.  What is said of DeleteSubKeyTree takes that *)
(* the paths of its calls continue one another, each by the name it was    *)
(* called with, as long as the key it was called on is not deleted.        *)
(***************************************************************************)
EXTENDS Registry, SequenceTheorems, FiniteSetTheorems, WellFoundedInduction, TLAPS

\* What Frame makes.
Frames == [at : {"open", "loop", "close"}, this : Keys \cup {HKey}, node : Relative,
           path : Seq(Names), subKey : Keys \cup {Nobody}, names : SUBSET Single]
Calls == 1..Len(stack)

Types == /\ registry \subseteq Paths
         /\ m_usingKeys \in [Relative -> Keys \cup {Nobody}]
         /\ m_hSubKey \in [Keys \cup {HKey} -> Paths \cup {Root}]
         /\ m_name \in [Keys \cup {HKey} -> Single \cup {Root}]
         /\ objects \subseteq Keys \cup {HKey} /\ HKey \in objects
         /\ stack \in Seq(Frames)
         /\ before.registry \subseteq Paths
         /\ wild \in BOOLEAN

\* s is a prefix of t.
Begins(s, t) == Len(s) <= Len(t) /\ \A k \in 1..Len(s) : s[k] = t[k]

\* No key is without its parents.
Rooted == \A p \in registry : \A q \in Paths : Begins(q, p) => q \in registry

\* Each object is owned by an entry, each entry owns an object, which was opened
\* under the last name of the entry.
Owned == /\ \A k \in objects \ {HKey} : \E rel \in Relative : m_usingKeys[rel] = k
         /\ \A rel \in Relative : m_usingKeys[rel] # Nobody => m_usingKeys[rel] \in objects
         /\ \A r, s \in Relative :
               m_usingKeys[r] = m_usingKeys[s] /\ r # s => m_usingKeys[r] = Nobody
Named == \A rel \in Relative : m_usingKeys[rel] # Nobody =>
            LET k == m_usingKeys[rel]
            IN  /\ m_hSubKey[k] # Root
                /\ Last(m_hSubKey[k]) = Last(Located(rel))
                /\ m_name[k] = <<Last(Located(rel))>>

\* A call of DeleteSubKeyTree: where it stands, and by whom it was made.
Shape == \A i \in Calls :
            /\ stack[i].at = "open" <=> stack[i].subKey = Nobody
            /\ i < Len(stack) => stack[i].at = "loop"
            /\ i > 1 => stack[i].this = stack[i - 1].subKey /\ stack[i].node \in Single
            /\ stack[i].path # Root /\ Last(stack[i].path) = Last(Located(stack[i].node))
\* The keys of the calls are different.
Distinct == \A i \in Calls : stack[i].subKey # Nobody =>
               /\ stack[i].subKey # stack[1].this
               /\ \A j \in Calls : stack[i].subKey = stack[j].subKey => i = j
\* As long as it is not deleted, what a call has opened is what it was called with.
Held == \A i \in Calls : stack[i].subKey # Nobody /\ stack[i].subKey \in objects =>
           /\ m_usingKeys[stack[i].node] = stack[i].subKey
           /\ m_hSubKey[stack[i].subKey] = stack[i].path
\* As long as the key it was called on is not deleted, the path of a call continues
\* that of the key and those of the calls around it.
Nested == \A j \in Calls :
             /\ stack[j].at # "open" \/ stack[j].this \in objects =>
                   \A i \in 1..j : /\ Begins(stack[i].path, stack[j].path)
                                   /\ Len(stack[i].path) + (j - i) <= Len(stack[j].path)
             /\ stack[j].this \in objects =>
                   /\ Begins(m_hSubKey[stack[j].this], stack[j].path)
                   /\ Len(m_hSubKey[stack[j].this]) < Len(stack[j].path)
             /\ stack[j].at # "open" => stack[j].path \in before.registry
             /\ stack[j].at = "close" => stack[j].path \notin registry

\* What a call in progress finds is what the outermost found, but for parts of its tree.
Tree == {p \in before.registry : Begins(Outermost, p)}
Shrinks == IF stack = <<>> THEN before = Here
           ELSE registry \subseteq before.registry /\ before.registry \ registry \subseteq Tree

\* A key of a call in progress was deleted only if a name repeats.
Repeats == \E p \in Tree : \E a, b \in 1..Len(p) : a < b /\ p[a] = p[b]
Dangling == \E i \in Calls : \/ stack[i].this \notin objects
                             \/ stack[i].subKey # Nobody /\ stack[i].subKey \notin objects
Dangles == Dangling => Repeats

\* The entries of the names in the tree are those of the calls or empty, the others
\* what they were.
Touched == {stack[i].node : i \in {j \in Calls : stack[j].at # "open"}}
             \cup {<<Last(p)>> : p \in before.registry \ registry}
Entries == stack # <<>> /\ stack[1].node \in Single =>
             /\ \A rel \in Relative : rel \notin {<<Last(p)>> : p \in Tree} =>
                   m_usingKeys[rel] = before.map[rel]
             /\ \A rel \in Touched : m_usingKeys[rel] # Nobody =>
                   \E i \in Calls : stack[i].subKey = m_usingKeys[rel]

IInv == /\ Types /\ Rooted /\ Owned /\ Named
        /\ Shape /\ Distinct /\ Held /\ Nested
        /\ Shrinks /\ Dangles /\ Entries
-----------------------------------------------------------------------------
LEMMA LeastOf ==
  ASSUME NEW S \in SUBSET Nat, S # {}
  PROVE  Min(S) \in S
  <1> DEFINE R == {ss \in Nat \X Nat : ss[1] < ss[2]}
  <1>1. IsWellFoundedOn(R, Nat)
    BY NatLessThanWellFounded DEF OpToRel
  <1>2. \A x, y \in S : <<y, x>> \in R <=> y < x
    OBVIOUS
  <1> HIDE DEF R
  <1>3. PICK x \in S : \A y \in S : ~(<<y, x>> \in R)
    BY <1>1, WFMin
  <1>4. ASSUME NEW y \in S PROVE x =< y
    <2>1. x \in Nat /\ y \in Nat /\ ~(y < x)
      BY <1>2, <1>3
    <2> QED  BY <2>1
  <1> QED  BY <1>4 DEF Min

\* The image of a finite set.
LEMMA ImageIs ==
  ASSUME NEW f, IsFiniteSet(DOMAIN f)
  PROVE  LET T == {f[x] : x \in DOMAIN f}
         IN  IsFiniteSet(T) /\ Cardinality(T) <= Cardinality(DOMAIN f)
  <1> DEFINE T == {f[x] : x \in DOMAIN f}
             g == [x \in DOMAIN f |-> f[x]]
  <1>1. g \in Surjection(DOMAIN f, T)
    BY DEF Surjection
  <1> HIDE DEF T, g
  <1>2. IsFiniteSet(T) /\ Cardinality(T) <= Cardinality(DOMAIN f)
    BY <1>1, FS_Surjection
  <1> QED  BY <1>2 DEF T

LEMMA Constants ==
  /\ MaxDepth \in Nat
  /\ IsFiniteSet(Relative) /\ Cardinality(Relative) \in Nat
  /\ IsFiniteSet(Keys) /\ Cardinality(Keys) = Cardinality(Relative) + 2 * MaxDepth
  /\ Keys \subseteq Nat \ {0} /\ HKey \notin Keys /\ Nobody \notin Keys
  /\ Keys # {} => HKey # Nobody
  <1>1. IsFiniteSet(Single)
    <2> DEFINE f == [name \in Names |-> <<name>>]
    <2>1. DOMAIN f = Names /\ Single = {f[x] : x \in DOMAIN f}
      BY DEF Single
    <2> HIDE DEF f
    <2> QED  BY <2>1, RegistryAssumption, ImageIs
  <1>2. IsFiniteSet(Relative)
    BY <1>1, RegistryAssumption, FS_Union DEF Relative
  <1>3. Cardinality(Relative) \in Nat /\ MaxDepth \in Nat
    BY <1>2, FS_CardinalityType, RegistryAssumption
  <1> DEFINE n == Cardinality(Relative) + 2 * MaxDepth
  <1>4. n \in Nat /\ Keys = 1..n
    BY <1>3 DEF Keys
  <1> HIDE DEF n
  <1>5. IsFiniteSet(Keys) /\ Cardinality(Keys) = n
    BY <1>4, FS_Interval
  <1>6. HKey \notin Keys /\ (Keys # {} => HKey # Nobody)
    <2> SUFFICES ASSUME Keys # {} PROVE HKey \notin Keys /\ HKey # Nobody
      OBVIOUS
    <2>1. n \in Keys /\ \A y \in Keys : n >= y
      BY <1>4
    <2>2. Max(Keys) \in Keys /\ \A y \in Keys : Max(Keys) >= y
      BY <2>1 DEF Max
    <2> QED  BY <1>4, <2>2 DEF HKey, Nobody
  <1> QED  BY <1>2, <1>3, <1>4, <1>5, <1>6 DEF n, Nobody

\* Relative paths, and the paths of the registry.
LEMMA RelativeIs ==
  /\ \A rel \in Relative : /\ Located(rel) \in Seq(Names)
                          /\ Len(Located(rel)) \in Nat /\ Len(Located(rel)) >= 1
  /\ Single \subseteq Relative
  /\ \A rel \in Single : \A s \in Seq(Names) : Last(s) = Last(Located(rel)) => <<Last(s)>> = rel
  <1>1. ASSUME NEW rel \in Given
        PROVE  /\ Located(rel) \in Seq(Names)
               /\ Len(Located(rel)) \in Nat /\ Len(Located(rel)) >= 1
    <2>1. Located(rel) \in Seq(Names) /\ Located(rel) # <<>>
      BY RegistryAssumption DEF Root
    <2> QED  BY <2>1, EmptySeq
  <1>2. ASSUME NEW rel \in Single
        PROVE  /\ Located(rel) \in Seq(Names)
               /\ Len(Located(rel)) \in Nat /\ Len(Located(rel)) >= 1
               /\ \A s \in Seq(Names) : Last(s) = Last(Located(rel)) => <<Last(s)>> = rel
    <2>1. PICK name \in Names : rel = <<name>>
      BY DEF Single
    <2>2. <<name>> \in Seq(Names) /\ Len(<<name>>) = 1 /\ <<name>>[1] = name
      OBVIOUS
    <2>3. Last(rel) = name /\ name # NoName
      BY <2>1, <2>2, RegistryAssumption DEF Last
    <2>4. Located(rel) = rel
      BY <2>3 DEF Located
    <2> QED  BY <2>1, <2>2, <2>3, <2>4
  <1> QED  BY <1>1, <1>2 DEF Relative

LEMMA PathIs ==
  /\ \A p : p \in Paths <=> p \in Seq(Names) /\ Len(p) >= 1 /\ Len(p) <= MaxDepth
  /\ Root \in Seq(Names) /\ Len(Root) = 0 /\ Root \notin Paths
  <1>0. MaxDepth \in Nat
    BY Constants
  <1>1. ASSUME NEW p \in Paths
        PROVE  p \in Seq(Names) /\ Len(p) >= 1 /\ Len(p) <= MaxDepth
    <2>1. PICK n \in 1..MaxDepth : p \in [1..n -> Names]
      BY DEF Paths
    <2>2. n \in Nat
      BY <1>0
    <2>3. p \in Seq(Names) /\ Len(p) = n
      BY <2>1, <2>2
    <2> QED  BY <1>0, <2>3
  <1>2. ASSUME NEW p \in Seq(Names), Len(p) >= 1, Len(p) <= MaxDepth
        PROVE  p \in Paths
    <2>1. Len(p) \in 1..MaxDepth /\ p \in [1..Len(p) -> Names]
      BY <1>0, <1>2, LenProperties
    <2> QED  BY <2>1 DEF Paths
  <1>3. Root \in Seq(Names) /\ Len(Root) = 0
    BY DEF Root
  <1> QED  BY <1>1, <1>2, <1>3

LEMMA ConcatIs ==
  ASSUME NEW s \in Seq(Names), NEW rel \in Relative
  PROVE  /\ s \o Located(rel) \in Seq(Names) /\ Len(s \o Located(rel)) = Len(s) + Len(Located(rel))
         /\ Begins(s, s \o Located(rel)) /\ Len(s) < Len(s \o Located(rel))
         /\ Last(s \o Located(rel)) = Last(Located(rel)) /\ s \o Located(rel) # Root
  <1> DEFINE t == Located(rel)
  <1>1. t \in Seq(Names) /\ Len(t) \in Nat /\ Len(t) >= 1 /\ Len(s) \in Nat
    BY RelativeIs, LenProperties
  <1> HIDE DEF t
  <1>2. /\ s \o t \in Seq(Names) /\ Len(s \o t) = Len(s) + Len(t)
        /\ \A i \in 1..(Len(s) + Len(t)) : (s \o t)[i] =
              IF i <= Len(s) THEN s[i] ELSE t[i - Len(s)]
    BY <1>1, ConcatProperties
  <1>3. Len(s) < Len(s \o t) /\ Begins(s, s \o t)
    BY <1>1, <1>2 DEF Begins
  <1>4. Last(s \o t) = Last(t)
    <2>1. Len(s) + Len(t) \in 1..(Len(s) + Len(t)) /\ ~(Len(s) + Len(t) <= Len(s))
          /\ (Len(s) + Len(t)) - Len(s) = Len(t)
      BY <1>1
    <2> QED  BY <1>2, <2>1 DEF Last
  <1>5. s \o t # Root
    BY <1>1, <1>2, PathIs
  <1> QED  BY <1>2, <1>3, <1>4, <1>5 DEF t

LEMMA PrefixIs ==
  ASSUME NEW s \in Seq(Names), NEW t \in Seq(Names)
  PROVE  IsPrefix(s, t) <=> Begins(s, t)
  <1>1. Len(s) \in Nat /\ Len(t) \in Nat /\ SubSeq(s, 1, Len(s)) = s
    BY LenProperties, SubSeqFull
  <1>2. ASSUME Len(s) <= Len(t)
        PROVE  /\ SubSeq(t, 1, Len(s)) \in Seq(Names) /\ Len(SubSeq(t, 1, Len(s))) = Len(s)
               /\ \A k \in 1..Len(s) : SubSeq(t, 1, Len(s))[k] = t[k]
    BY <1>1, <1>2
  <1>3. ASSUME Begins(s, t) PROVE s = SubSeq(t, 1, Len(s))
    <2>1. Len(s) <= Len(t) /\ \A k \in 1..Len(s) : s[k] = t[k]
      BY <1>3 DEF Begins
    <2> QED  BY <1>2, <2>1, SeqEqual
  <1> QED  BY <1>1, <1>2, <1>3 DEF IsPrefix, Begins

LEMMA BeginsIs ==
  ASSUME NEW s \in Seq(Names), NEW t \in Seq(Names)
  PROVE  /\ Begins(s, s)
         /\ Begins(s, t) => Len(s) <= Len(t)
         /\ Begins(s, t) /\ Len(s) = Len(t) => s = t
         /\ \A u \in Seq(Names) : Begins(s, t) /\ Begins(t, u) => Begins(s, u)
  <1>1. \A x \in Seq(Names) : Len(x) \in Nat
    BY LenProperties
  <1>2. Begins(s, t) /\ Len(s) = Len(t) => s = t
    BY SeqEqual DEF Begins
  <1> QED  BY <1>1, <1>2 DEF Begins

\* The part of a path up to a name of it.
LEMMA Part ==
  ASSUME NEW p \in Paths, NEW n \in 1..Len(p)
  PROVE  /\ SubSeq(p, 1, n) \in Paths /\ Len(SubSeq(p, 1, n)) = n
         /\ Begins(SubSeq(p, 1, n), p)
         /\ \A s \in Seq(Names) : Begins(s, p) /\ Len(s) <= n => Begins(s, SubSeq(p, 1, n))
  <1>1. p \in Seq(Names) /\ Len(p) \in Nat /\ Len(p) <= MaxDepth /\ MaxDepth \in Nat
    BY PathIs, LenProperties, Constants
  <1>2. /\ SubSeq(p, 1, n) \in Seq(Names) /\ Len(SubSeq(p, 1, n)) = n
        /\ \A k \in 1..n : SubSeq(p, 1, n)[k] = p[k]
    BY <1>1
  <1>3. SubSeq(p, 1, n) \in Paths
    <2>1. n >= 1 /\ n <= MaxDepth
      BY <1>1
    <2> QED  BY <1>2, <2>1, PathIs
  <1>4. Begins(SubSeq(p, 1, n), p)
    BY <1>1, <1>2 DEF Begins
  <1>5. ASSUME NEW s \in Seq(Names), Begins(s, p), Len(s) <= n
        PROVE  Begins(s, SubSeq(p, 1, n))
    <2>1. Len(s) \in Nat
      BY LenProperties
    <2> QED  BY <1>1, <1>2, <1>5, <2>1 DEF Begins
  <1> QED  BY <1>2, <1>3, <1>4, <1>5

LEMMA PrefixesAre ==
  ASSUME NEW p \in Paths
  PROVE  Prefixes(p) \ {Root} = {q \in Paths : Begins(q, p)}
  <1>1. p \in Seq(Names) /\ Len(p) \in Nat
    BY PathIs, LenProperties
  <1>2. ASSUME NEW q \in Prefixes(p) \ {Root}
        PROVE  q \in Paths /\ Begins(q, p)
    <2>1. PICK n \in 0..Len(p) : q = SubSeq(p, 1, n)
      BY DEF Prefixes
    <2>2. n # 0
      <3>1. SubSeq(p, 1, 0) = <<>>
        BY SubSeqEmpty, SMTT(60)
      <3> QED  BY <2>1, <3>1 DEF Root
    <2> QED  BY <1>1, <2>1, <2>2, Part
  <1>3. ASSUME NEW q \in Paths, Begins(q, p)
        PROVE  q \in Prefixes(p) \ {Root}
    <2>1. q \in Seq(Names) /\ q # Root /\ Len(q) \in Nat /\ IsPrefix(q, p)
      BY <1>1, <1>3, PathIs, PrefixIs, LenProperties
    <2>2. q = SubSeq(p, 1, Len(q)) /\ Len(q) <= Len(p)
      BY <2>1, SubSeqFull DEF IsPrefix
    <2>3. Len(q) \in 0..Len(p)
      BY <1>1, <2>1, <2>2
    <2> QED  BY <2>1, <2>2, <2>3 DEF Prefixes
  <1> QED  BY <1>2, <1>3
-----------------------------------------------------------------------------
\* The stack of calls.
LEMMA StackIs ==
  ASSUME NEW S, NEW s \in Seq(S), s # <<>>, NEW f \in S
  PROVE  /\ Len(s) \in Nat /\ Len(s) >= 1 /\ Last(s) \in S /\ Last(s) = s[Len(s)]
         /\ Front(s) \in Seq(S) /\ Len(Front(s)) = Len(s) - 1
         /\ \A i \in 1..(Len(s) - 1) : Front(s)[i] = s[i]
         /\ Append(Front(s), f) \in Seq(S) /\ Len(Append(Front(s), f)) = Len(s)
         /\ \A i \in 1..Len(s) : Append(Front(s), f)[i] = IF i = Len(s) THEN f ELSE s[i]
  <1>1. Len(s) \in Nat /\ Len(s) >= 1
    BY EmptySeq
  <1>2. \A i \in 1..Len(s) : s[i] \in S
    BY ElementOfSeq
  <1>3. /\ Front(s) \in Seq(S) /\ Len(Front(s)) = Len(s) - 1
        /\ \A i \in 1..(Len(s) - 1) : Front(s)[i] = s[i]
    <2> DEFINE m == Len(s) - 1
    <2>1. m \in Int /\ m >= 0 /\ 1 \in Int /\ \A i \in 1..m : s[i] \in S
      BY <1>1, <1>2
    <2> HIDE DEF m
    <2>2. /\ SubSeq(s, 1, m) \in Seq(S) /\ Len(SubSeq(s, 1, m)) = IF 1 <= m THEN m - 1 + 1 ELSE 0
          /\ \A i \in 1..(m - 1 + 1) : SubSeq(s, 1, m)[i] = s[1 + i - 1]
      BY <2>1, SubSeqProperties
    <2>3. /\ SubSeq(s, 1, m) \in Seq(S) /\ Len(SubSeq(s, 1, m)) = m
          /\ \A i \in 1..m : SubSeq(s, 1, m)[i] = s[i]
      BY <2>1, <2>2
    <2> QED  BY <2>3 DEF Front, m
  <1>4. Last(s) \in S /\ Last(s) = s[Len(s)]
    BY <1>1, <1>2 DEF Last
  <1> DEFINE t == Front(s)
  <1> HIDE DEF t
  <1>5. /\ t \in Seq(S) /\ Len(t) = Len(s) - 1
        /\ \A i \in 1..(Len(s) - 1) : t[i] = s[i]
    BY <1>3 DEF t
  <1>6. /\ Append(t, f) \in Seq(S) /\ Len(Append(t, f)) = Len(t) + 1
        /\ \A i \in 1..Len(t) : Append(t, f)[i] = t[i]
        /\ Append(t, f)[Len(t) + 1] = f
    BY <1>5, AppendProperties
  <1>7. Len(Append(t, f)) = Len(s)
    BY <1>1, <1>5, <1>6
  <1>8. ASSUME NEW i \in 1..Len(s)
        PROVE  Append(t, f)[i] = IF i = Len(s) THEN f ELSE s[i]
    BY <1>1, <1>5, <1>6
  <1> QED  BY <1>1, <1>3, <1>4, <1>6, <1>7, <1>8 DEF t

LEMMA TypesOfCalls ==
  ASSUME Types
  PROVE  /\ Len(stack) \in Nat /\ (stack = <<>> <=> Len(stack) = 0)
         /\ \A i \in Calls : stack[i] \in Frames
         /\ stack # <<>> => Top = stack[Len(stack)] /\ Len(stack) \in Calls /\ 1 \in Calls
                            /\ Top \in Frames /\ Len(stack) >= 1
  <1>1. stack \in Seq(Frames)
    BY DEF Types
  <1>2. Len(stack) \in Nat /\ (stack = <<>> <=> Len(stack) = 0)
    BY <1>1, EmptySeq
  <1>3. \A i \in Calls : stack[i] \in Frames
    BY <1>1, ElementOfSeq DEF Calls
  <1> QED  BY <1>2, <1>3 DEF Top, Last, Calls

LEMMA NumbersUpTo ==
  ASSUME NEW n \in Nat
  PROVE  IsFiniteSet(1..n) /\ Cardinality(1..n) = n
  BY FS_Interval

\* There is a number for a new RegistryKey.
LEMMA NewKeyIs ==
  ASSUME Types, Owned, MaxDepth >= 1, Len(stack) <= MaxDepth,
         stack # <<>> => Top.subKey = Nobody
  PROVE  NewKey \in Keys /\ NewKey \notin objects /\ NewKey \notin InCalls
  <1> DEFINE n == Len(stack)
             f == [i \in 1..n |-> stack[i].this]
             g == [i \in 1..(n - 1) |-> stack[i].subKey]
             T == {m_usingKeys[rel] : rel \in DOMAIN m_usingKeys}
             U == {f[i] : i \in DOMAIN f}
             V == {g[i] : i \in DOMAIN g}
             c == Cardinality(Relative)
  <1>0. n \in Nat /\ MaxDepth \in Nat /\ c \in Nat /\ Cardinality(Keys) = c + 2 * MaxDepth
    BY TypesOfCalls, Constants
  <1>1. IsFiniteSet(T) /\ Cardinality(T) \in Nat /\ Cardinality(T) <= c
    <2>1. DOMAIN m_usingKeys = Relative
      BY DEF Types
    <2> QED  BY <2>1, Constants, ImageIs, FS_CardinalityType
  <1>2. IsFiniteSet(U) /\ Cardinality(U) \in Nat /\ Cardinality(U) <= n
    <2> HIDE DEF n
    <2>1. DOMAIN f = 1..n /\ IsFiniteSet(1..n) /\ Cardinality(1..n) = n
      BY <1>0, NumbersUpTo
    <2> HIDE DEF f
    <2> QED  BY <2>1, ImageIs, FS_CardinalityType
  <1>3. /\ IsFiniteSet(V) /\ Cardinality(V) \in Nat
        /\ n >= 1 => Cardinality(V) <= n - 1
        /\ n = 0 => Cardinality(V) <= 0
    <2> HIDE DEF n
    <2>0. DOMAIN g = 1..(n - 1)
      OBVIOUS
    <2> DEFINE m == IF n = 0 THEN 0 ELSE n - 1
    <2>1. m \in Nat /\ 1..(n - 1) = 1..m
      BY <1>0
    <2>2. IsFiniteSet(1..m) /\ Cardinality(1..m) = m
      <3> HIDE DEF m
      <3> QED  BY <2>1, NumbersUpTo
    <2>3. /\ IsFiniteSet(DOMAIN g)
          /\ n >= 1 => Cardinality(DOMAIN g) = n - 1
          /\ n = 0 => Cardinality(DOMAIN g) = 0
      BY <1>0, <2>0, <2>1, <2>2
    <2>4. IsFiniteSet(V) /\ Cardinality(V) <= Cardinality(DOMAIN g)
      <3> HIDE DEF g
      <3> QED  BY <2>3, ImageIs
    <2> HIDE DEF g, m, V
    <2> QED  BY <1>0, <2>3, <2>4, FS_CardinalityType
  <1>4. Keys \cap (objects \cup InCalls) \subseteq (T \cup U) \cup V
    <2>1. ASSUME NEW k \in Keys, k \in objects PROVE k \in T
      <3>1. k # HKey
        BY Constants
      <3>2. PICK rel \in Relative : m_usingKeys[rel] = k
        BY <2>1, <3>1 DEF Owned
      <3> QED  BY <3>2 DEF Types
    <2>2. ASSUME NEW k \in Keys, k \in InCalls PROVE k \in U \cup V
      <3>1. PICK i \in 1..n : k = stack[i].this \/ k = stack[i].subKey
        BY <2>2 DEF InCalls
      <3>2. CASE k = stack[i].this
        BY <3>2
      <3>3. CASE k = stack[i].subKey
        <4>1. i # n
          <5>1. n # 0
            BY <1>0
          <5>2. stack # <<>>
            BY <5>1, TypesOfCalls
          <5> QED  BY <3>3, <5>2, Constants, TypesOfCalls
        <4>2. i \in 1..(n - 1)
          BY <1>0, <4>1
        <4> QED  BY <3>3, <4>2
      <3> QED  BY <3>1, <3>2, <3>3
    <2> QED  BY <2>1, <2>2
  <1> HIDE DEF n, T, U, V, c
  <1>5. /\ IsFiniteSet(T \cup U) /\ Cardinality(T \cup U) \in Nat
        /\ Cardinality(T \cup U) <= c + n
    <2>1. IsFiniteSet(T \cap U) /\ Cardinality(T \cap U) \in Nat
      BY <1>1, FS_Subset, FS_CardinalityType
    <2>2. IsFiniteSet(T \cup U)
          /\ Cardinality(T \cup U) = Cardinality(T) + Cardinality(U) - Cardinality(T \cap U)
      BY <1>1, <1>2, FS_Union
    <2>3. Cardinality(T \cup U) \in Nat
      BY <2>2, FS_CardinalityType
    <2> QED  BY <1>0, <1>1, <1>2, <2>1, <2>2, <2>3
  <1>6. /\ IsFiniteSet((T \cup U) \cup V) /\ Cardinality((T \cup U) \cup V) \in Nat
        /\ Cardinality((T \cup U) \cup V) < c + 2 * MaxDepth
    <2>1. IsFiniteSet((T \cup U) \cap V) /\ Cardinality((T \cup U) \cap V) \in Nat
      BY <1>5, FS_Subset, FS_CardinalityType
    <2>2. IsFiniteSet((T \cup U) \cup V)
          /\ Cardinality((T \cup U) \cup V)
               = Cardinality(T \cup U) + Cardinality(V) - Cardinality((T \cup U) \cap V)
      BY <1>3, <1>5, FS_Union
    <2>3. n <= MaxDepth
      BY DEF n
    <2> QED  BY <1>0, <1>3, <1>5, <2>1, <2>2, <2>3, FS_CardinalityType
  <1>7. Keys \ (objects \cup InCalls) # {}
    <2> SUFFICES ASSUME Keys \subseteq (T \cup U) \cup V PROVE FALSE
      BY <1>4
    <2>1. Cardinality(Keys) <= Cardinality((T \cup U) \cup V)
      BY <1>6, FS_Subset
    <2> QED  BY <1>0, <1>6, <2>1
  <1>8. Keys \ (objects \cup InCalls) \subseteq Nat
    BY Constants
  <1> QED  BY <1>7, <1>8, LeastOf DEF NewKey
-----------------------------------------------------------------------------
\* What the two changes of the map do.
MapTypes == /\ m_usingKeys \in [Relative -> Keys \cup {Nobody}]
            /\ m_hSubKey \in [Keys \cup {HKey} -> Paths \cup {Root}]
            /\ m_name \in [Keys \cup {HKey} -> Single \cup {Root}]
            /\ objects \subseteq Keys \cup {HKey} /\ HKey \in objects

LEMMA EntryIs ==
  ASSUME Types, Owned, NEW rel \in Relative
  PROVE  /\ m_usingKeys[rel] \in Keys \cup {Nobody}
         /\ m_usingKeys[rel] # Nobody => m_usingKeys[rel] \in objects /\ m_usingKeys[rel] \in Keys
                                         /\ m_usingKeys[rel] # HKey
         /\ <<Last(Located(rel))>> \in Single
  <1>1. /\ m_usingKeys[rel] \in Keys \cup {Nobody}
        /\ m_usingKeys[rel] # Nobody => m_usingKeys[rel] \in objects
    BY DEF Types, Owned
  <1>2. HKey \notin Keys
    BY Constants
  <1>3. Located(rel) \in Seq(Names) /\ Len(Located(rel)) \in 1..Len(Located(rel))
    BY RelativeIs
  <1>4. Last(Located(rel)) \in Names
    BY <1>3, ElementOfSeq DEF Last
  <1> QED  BY <1>1, <1>2, <1>4 DEF Single

LEMMA AddIs ==
  ASSUME Types, Owned, Named, NEW rel \in Relative, NEW path \in Paths,
         Last(path) = Last(Located(rel)), NewKey \in Keys, NewKey \notin objects,
         AddUsingRegistryKey(rel, path)
  PROVE  /\ MapTypes' /\ Owned' /\ Named'
         /\ m_usingKeys'[rel] = NewKey
         /\ \A r \in Relative \ {rel} : m_usingKeys'[r] = m_usingKeys[r]
         /\ NewKey \in objects' /\ m_hSubKey'[NewKey] = path
         /\ \A k : k # NewKey => (k \in objects' <=> k \in objects /\ k # m_usingKeys[rel])
         /\ \A k \in objects : k # m_usingKeys[rel] => m_hSubKey'[k] = m_hSubKey[k]
  <1> DEFINE new == NewKey
             old == m_usingKeys[rel]
  <1>0. /\ old \in Keys \cup {Nobody}
        /\ old # Nobody => old \in objects /\ old \in Keys /\ old # HKey
        /\ <<Last(Located(rel))>> \in Single
    BY EntryIs
  <1>1. /\ m_usingKeys' = [m_usingKeys EXCEPT ![rel] = new]
        /\ objects' = (objects \ ({old} \ {Nobody})) \cup {new}
        /\ m_hSubKey' = [k \in DOMAIN m_hSubKey |-> IF k = new THEN path
                            ELSE IF k \in {old} \ {Nobody} THEN Root ELSE m_hSubKey[k]]
        /\ m_name' = [k \in DOMAIN m_name |-> IF k = new THEN <<Last(Located(rel))>>
                            ELSE IF k \in {old} \ {Nobody} THEN Root ELSE m_name[k]]
    BY DEF AddUsingRegistryKey, Replaced, Entry, GetKeyNameOfPath
  <1>2. new \in Keys /\ new \notin objects /\ new # HKey /\ new # Nobody
        /\ Nobody \notin Keys /\ HKey \in objects
    BY Constants DEF Types
  <1> HIDE DEF new, old
  <1>3. /\ m_usingKeys \in [Relative -> Keys \cup {Nobody}]
        /\ DOMAIN m_hSubKey = Keys \cup {HKey} /\ DOMAIN m_name = Keys \cup {HKey}
        /\ objects \subseteq Keys \cup {HKey} /\ HKey \in objects
        /\ \A k \in Keys \cup {HKey} : m_hSubKey[k] \in Paths \cup {Root}
                                       /\ m_name[k] \in Single \cup {Root}
    BY DEF Types
  <1>4. /\ m_usingKeys'[rel] = new /\ \A r \in Relative \ {rel} : m_usingKeys'[r] = m_usingKeys[r]
        /\ m_usingKeys' \in [Relative -> Keys \cup {Nobody}]
    BY <1>1, <1>2, <1>3
  <1>5. /\ m_hSubKey'[new] = path /\ m_name'[new] = <<Last(Located(rel))>>
        /\ \A k \in (Keys \cup {HKey}) \ {new} : k # old => m_hSubKey'[k] = m_hSubKey[k]
                                                           /\ m_name'[k] = m_name[k]
    BY <1>1, <1>2, <1>3
  <1>6. \A k : k # new => (k \in objects' <=> k \in objects /\ (k # old \/ k = Nobody))
    BY <1>1
  <1>7. new \in objects' /\ objects' \subseteq Keys \cup {HKey} /\ HKey \in objects'
    BY <1>0, <1>1, <1>2, <1>3
  <1>8. MapTypes'
    <2>1. m_hSubKey' \in [Keys \cup {HKey} -> Paths \cup {Root}]
      BY <1>1, <1>3
    <2>2. m_name' \in [Keys \cup {HKey} -> Single \cup {Root}]
      BY <1>0, <1>1, <1>3
    <2> QED  BY <1>4, <1>7, <2>1, <2>2 DEF MapTypes
  <1>9. \A k : k # new => (k \in objects' <=> k \in objects /\ k # old)
    <2>1. Nobody \notin objects
      BY <1>2, <1>3, Constants
    <2> QED  BY <1>6, <2>1
  <1>10. Owned'
    <2>1. ASSUME NEW k \in objects' \ {HKey} PROVE \E r \in Relative : m_usingKeys'[r] = k
      <3>1. CASE k = new
        BY <1>4, <3>1
      <3>2. CASE k # new
        <4>1. k \in objects \ {HKey} /\ k # old
          BY <1>9, <2>1, <3>2
        <4>2. PICK r \in Relative : m_usingKeys[r] = k
          BY <4>1 DEF Owned
        <4>3. r # rel
          BY <4>1, <4>2 DEF old
        <4> QED  BY <1>4, <4>2, <4>3
      <3> QED  BY <3>1, <3>2
    <2>2. ASSUME NEW r \in Relative, m_usingKeys'[r] # Nobody PROVE m_usingKeys'[r] \in objects'
      <3>1. CASE r = rel
        BY <1>4, <1>7, <3>1
      <3>2. CASE r # rel
        <4>1. m_usingKeys'[r] = m_usingKeys[r] /\ m_usingKeys[r] \in objects
          BY <1>4, <2>2, <3>2 DEF Owned
        <4>2. m_usingKeys[r] # old
          BY <2>2, <3>2, <4>1 DEF Owned, old
        <4> QED  BY <1>2, <1>9, <4>1, <4>2
      <3> QED  BY <3>1, <3>2
    <2>3. ASSUME NEW r \in Relative, NEW s \in Relative, m_usingKeys'[r] = m_usingKeys'[s], r # s
          PROVE  m_usingKeys'[r] = Nobody
      <3>1. \A x \in Relative \ {rel} : m_usingKeys[x] # new
        <4> SUFFICES ASSUME NEW x \in Relative \ {rel}, m_usingKeys[x] = new PROVE FALSE
          OBVIOUS
        <4> QED  BY <1>2 DEF Owned
      <3>2. CASE r = rel \/ s = rel
        BY <1>4, <2>3, <3>1, <3>2
      <3>3. CASE r # rel /\ s # rel
        BY <1>4, <2>3, <3>3 DEF Owned
      <3> QED  BY <3>2, <3>3
    <2> QED  BY <2>1, <2>2, <2>3 DEF Owned
  <1>11. Named'
    <2> SUFFICES ASSUME NEW r \in Relative, m_usingKeys'[r] # Nobody
                 PROVE  LET k == m_usingKeys'[r]
                        IN  /\ m_hSubKey'[k] # Root /\ Last(m_hSubKey'[k]) = Last(Located(r))
                            /\ m_name'[k] = <<Last(Located(r))>>
      BY DEF Named
    <2>1. CASE r = rel
      <3>1. path # Root
        BY PathIs
      <3> QED  BY <1>4, <1>5, <2>1, <3>1
    <2>2. CASE r # rel
      <3>1. m_usingKeys'[r] = m_usingKeys[r] /\ m_usingKeys[r] \in objects
        BY <1>4, <2>2 DEF Owned
      <3>2. m_usingKeys[r] # old /\ m_usingKeys[r] # new
        BY <1>2, <2>2, <3>1 DEF Owned, old
      <3>3. /\ m_hSubKey'[m_usingKeys[r]] = m_hSubKey[m_usingKeys[r]]
            /\ m_name'[m_usingKeys[r]] = m_name[m_usingKeys[r]]
        BY <1>3, <1>5, <3>1, <3>2
      <3> QED  BY <3>1, <3>3 DEF Named
    <2> QED  BY <2>1, <2>2
  <1>12. \A k \in objects : k # old => m_hSubKey'[k] = m_hSubKey[k]
    BY <1>2, <1>3, <1>5
  <1> QED  BY <1>4, <1>5, <1>7, <1>8, <1>9, <1>10, <1>11, <1>12 DEF new, old

LEMMA RemoveIs ==
  ASSUME Types, Owned, Named, Keys # {}, NEW rel \in Relative, RemoveUsingRegistryKey(rel)
  PROVE  /\ MapTypes' /\ Owned' /\ Named'
         /\ m_usingKeys'[rel] = Nobody
         /\ \A r \in Relative \ {rel} : m_usingKeys'[r] = m_usingKeys[r]
         /\ \A k : k \in objects' <=> k \in objects /\ k # m_usingKeys[rel]
         /\ \A k \in objects : k # m_usingKeys[rel] => m_hSubKey'[k] = m_hSubKey[k]
  <1> DEFINE old == m_usingKeys[rel]
  <1>0. /\ old \in Keys \cup {Nobody}
        /\ old # Nobody => old \in objects /\ old \in Keys /\ old # HKey
    BY EntryIs
  <1>1. /\ m_usingKeys' = [m_usingKeys EXCEPT ![rel] = Nobody]
        /\ objects' = objects \ ({old} \ {Nobody})
        /\ m_hSubKey' = [k \in DOMAIN m_hSubKey |-> IF k \in {old} \ {Nobody} THEN Root
                                                     ELSE m_hSubKey[k]]
        /\ m_name' = [k \in DOMAIN m_name |-> IF k \in {old} \ {Nobody} THEN Root ELSE m_name[k]]
    BY DEF RemoveUsingRegistryKey, Entry, Closed
  <1> HIDE DEF old
  <1>3. /\ m_usingKeys \in [Relative -> Keys \cup {Nobody}]
        /\ DOMAIN m_hSubKey = Keys \cup {HKey} /\ DOMAIN m_name = Keys \cup {HKey}
        /\ objects \subseteq Keys \cup {HKey} /\ HKey \in objects
        /\ \A k \in Keys \cup {HKey} : m_hSubKey[k] \in Paths \cup {Root}
                                       /\ m_name[k] \in Single \cup {Root}
    BY DEF Types
  <1>4. Nobody \notin objects
    BY <1>3, Constants
  <1>5. /\ m_usingKeys'[rel] = Nobody
        /\ \A r \in Relative \ {rel} : m_usingKeys'[r] = m_usingKeys[r]
        /\ m_usingKeys' \in [Relative -> Keys \cup {Nobody}]
    BY <1>1, <1>3
  <1>6. \A k \in objects : k # old => m_hSubKey'[k] = m_hSubKey[k] /\ m_name'[k] = m_name[k]
    BY <1>1, <1>3
  <1>7. \A k : k \in objects' <=> k \in objects /\ k # old
    BY <1>1, <1>4
  <1>8. MapTypes'
    <2>1. m_hSubKey' \in [Keys \cup {HKey} -> Paths \cup {Root}]
      BY <1>1, <1>3
    <2>2. m_name' \in [Keys \cup {HKey} -> Single \cup {Root}]
      BY <1>1, <1>3
    <2>3. objects' \subseteq Keys \cup {HKey} /\ HKey \in objects'
      BY <1>0, <1>3, <1>4, <1>7
    <2> QED  BY <1>5, <2>1, <2>2, <2>3 DEF MapTypes
  <1>9. \A r \in Relative \ {rel} : m_usingKeys[r] # Nobody => m_usingKeys[r] # old
    BY DEF Owned, old
  <1>10. Owned'
    <2>1. ASSUME NEW k \in objects' \ {HKey} PROVE \E r \in Relative : m_usingKeys'[r] = k
      <3>1. k \in objects \ {HKey} /\ k # old
        BY <1>7, <2>1
      <3>2. PICK r \in Relative : m_usingKeys[r] = k
        BY <3>1 DEF Owned
      <3>3. r # rel
        BY <3>1, <3>2 DEF old
      <3> QED  BY <1>5, <3>2, <3>3
    <2>2. ASSUME NEW r \in Relative, m_usingKeys'[r] # Nobody PROVE m_usingKeys'[r] \in objects'
      <3>1. r # rel
        BY <1>5, <2>2
      <3>2. m_usingKeys'[r] = m_usingKeys[r]
        BY <1>5, <3>1
      <3> QED  BY <1>7, <1>9, <2>2, <3>1, <3>2 DEF Owned
    <2>3. ASSUME NEW r \in Relative, NEW s \in Relative, m_usingKeys'[r] = m_usingKeys'[s], r # s
          PROVE  m_usingKeys'[r] = Nobody
      <3>1. CASE r = rel \/ s = rel
        BY <1>5, <2>3, <3>1
      <3>2. CASE r # rel /\ s # rel
        BY <1>5, <2>3, <3>2 DEF Owned
      <3> QED  BY <3>1, <3>2
    <2> QED  BY <2>1, <2>2, <2>3 DEF Owned
  <1>11. Named'
    <2> SUFFICES ASSUME NEW r \in Relative, m_usingKeys'[r] # Nobody
                 PROVE  LET k == m_usingKeys'[r]
                        IN  /\ m_hSubKey'[k] # Root /\ Last(m_hSubKey'[k]) = Last(Located(r))
                            /\ m_name'[k] = <<Last(Located(r))>>
      BY DEF Named
    <2>1. r # rel
      BY <1>5
    <2>2. m_usingKeys'[r] = m_usingKeys[r] /\ m_usingKeys[r] \in objects /\ m_usingKeys[r] # old
      BY <1>5, <1>9, <2>1 DEF Owned
    <2> QED  BY <1>6, <2>2 DEF Named
  <1> QED  BY <1>5, <1>6, <1>7, <1>8, <1>10, <1>11 DEF old
-----------------------------------------------------------------------------
\* Between the calls of DeleteSubKeyTree.
LEMMA NoCalls ==
  ASSUME stack' = <<>>, wild' = FALSE, before' = Here',
         MapTypes', Owned', Named', registry' \subseteq Paths, Rooted'
  PROVE  IInv'
  <1>1. Calls' = {}
    BY DEF Calls
  <1>2. Types'
    <2>1. before'.registry = registry'
      BY DEF Here
    <2>2. stack' \in Seq(Frames)
      OBVIOUS
    <2> QED  BY <2>1, <2>2 DEF Types, MapTypes
  <1>3. Shape' /\ Distinct' /\ Held' /\ Nested'
    BY <1>1 DEF Shape, Distinct, Held, Nested
  <1>4. Shrinks' /\ Entries'
    BY DEF Shrinks, Entries
  <1>5. Dangles'
    BY <1>1 DEF Dangles, Dangling
  <1> QED  BY <1>2, <1>3, <1>4, <1>5 DEF IInv

\* A key without subkeys can be deleted, and a path with its parents created.
LEMMA DeletedIs ==
  ASSUME registry \subseteq Paths, Rooted, NEW path \in Paths, Deletable(path),
         registry' = registry \ {path}
  PROVE  Rooted'
  <1> SUFFICES ASSUME NEW p \in registry', NEW q \in Paths, Begins(q, p) PROVE q \in registry'
    BY DEF Rooted
  <1>1. p \in registry /\ p # path /\ q \in registry /\ p \in Paths
    BY DEF Rooted
  <1>2. ASSUME q = path PROVE FALSE
    <2>1. p \in Seq(Names) /\ path \in Seq(Names) /\ Len(p) \in Nat /\ Len(path) \in Nat
      BY <1>1, PathIs, LenProperties
    <2>2. Begins(path, p) /\ Len(path) < Len(p)
      BY <1>1, <1>2, <2>1, BeginsIs
    <2>3. Len(path) + 1 \in 1..Len(p) /\ Len(path) <= Len(path) + 1
      BY <2>1, <2>2
    <2> DEFINE c == SubSeq(p, 1, Len(path) + 1)
    <2>4. c \in Paths /\ Len(c) = Len(path) + 1 /\ Begins(c, p) /\ Begins(path, c)
      BY <1>1, <2>1, <2>2, <2>3, Part
    <2> HIDE DEF c
    <2>5. c \in registry
      BY <1>1, <2>4 DEF Rooted
    <2>6. IsPrefix(path, c)
      BY <2>1, <2>4, PathIs, PrefixIs
    <2> QED  BY <2>4, <2>5, <2>6 DEF Deletable, Children, Under
  <1> QED  BY <1>1, <1>2

LEMMA CreatedIs ==
  ASSUME registry \subseteq Paths, Rooted, NEW path \in Paths,
         registry' = registry \cup (Prefixes(path) \ {Root})
  PROVE  registry' \subseteq Paths /\ Rooted'
  <1>1. registry' = registry \cup {q \in Paths : Begins(q, path)}
    BY PrefixesAre
  <1>2. ASSUME NEW p \in registry', NEW q \in Paths, Begins(q, p) PROVE q \in registry'
    <2>1. CASE p \in registry
      BY <1>1, <1>2, <2>1 DEF Rooted
    <2>2. CASE p \in Paths /\ Begins(p, path)
      BY <1>1, <1>2, <2>2, PathIs, BeginsIs
    <2> QED  BY <1>1, <2>1, <2>2
  <1> QED  BY <1>1, <1>2 DEF Rooted

LEMMA MapTypesIs == ASSUME Types PROVE MapTypes
  BY DEF Types, MapTypes

LEMMA InitIInv == Init => IInv
  <1> SUFFICES ASSUME Init PROVE IInv
    OBVIOUS
  <1>1. Calls = {}
    BY DEF Init, Calls
  <1>2. Types
    <2>1. before.registry = {}
      BY DEF Init, Here
    <2>2. m_usingKeys \in [Relative -> Keys \cup {Nobody}]
      BY DEF Init
    <2>3. /\ m_hSubKey \in [Keys \cup {HKey} -> Paths \cup {Root}]
          /\ m_name \in [Keys \cup {HKey} -> Single \cup {Root}]
      BY DEF Init
    <2>4. stack \in Seq(Frames)
      BY DEF Init
    <2> QED  BY <2>1, <2>2, <2>3, <2>4 DEF Init, Types
  <1>3. Shape /\ Distinct /\ Held /\ Nested
    BY <1>1 DEF Shape, Distinct, Held, Nested
  <1>4. Shrinks /\ Entries /\ Rooted
    BY DEF Init, Shrinks, Entries, Rooted
  <1>5. Dangles
    BY <1>1 DEF Init, Dangles, Dangling
  <1>6. \A rel \in Relative : m_usingKeys[rel] = Nobody
    BY DEF Init
  <1>7. Owned /\ Named
    BY <1>6 DEF Init, Owned, Named
  <1> QED  BY <1>2, <1>3, <1>4, <1>5, <1>7 DEF IInv

LEMMA CreateSubKeyIInv ==
  ASSUME IInv, NEW k \in Keys \cup {HKey}, NEW rel \in Given, CreateSubKey(k, rel)
  PROVE  IInv'
  <1> DEFINE path == m_hSubKey[k] \o Located(rel)
  <1>1. /\ stack' = <<>> /\ wild' = FALSE /\ before' = Here' /\ stack = <<>>
        /\ path \in Paths /\ registry' = registry \cup (Prefixes(path) \ {Root})
        /\ AddUsingRegistryKey(rel, path)
    BY DEF CreateSubKey, Settle, Calm, IInv, Types
  <1>2. Types /\ Owned /\ Named /\ Rooted /\ registry \subseteq Paths /\ rel \in Relative
    BY DEF IInv, Types, Relative
  <1>3. Last(path) = Last(Located(rel))
    <2>1. m_hSubKey[k] \in Seq(Names)
      BY <1>2, PathIs DEF Types
    <2> QED  BY <1>2, <2>1, ConcatIs
  <1> HIDE DEF path
  <1>4. MaxDepth >= 1 /\ Len(stack) <= MaxDepth
    BY <1>1, PathIs, Constants
  <1>5. NewKey \in Keys /\ NewKey \notin objects
    BY <1>1, <1>2, <1>4, NewKeyIs
  <1>6. MapTypes' /\ Owned' /\ Named'
    BY <1>1, <1>2, <1>3, <1>5, AddIs
  <1>7. registry' \subseteq Paths /\ Rooted'
    BY <1>1, <1>2, CreatedIs
  <1> QED  BY <1>1, <1>6, <1>7, NoCalls

LEMMA OpenSubKeyIInv ==
  ASSUME IInv, NEW k \in Keys \cup {HKey}, NEW rel \in Given, OpenSubKey(k, rel)
  PROVE  IInv'
  <1> DEFINE path == m_hSubKey[k] \o Located(rel)
  <1>1. /\ stack' = <<>> /\ wild' = FALSE /\ before' = Here' /\ stack = <<>>
        /\ path \in registry /\ registry' = registry
        /\ AddUsingRegistryKey(rel, path)
    BY DEF OpenSubKey, Settle, Calm, IInv, Types
  <1>2. /\ Types /\ Owned /\ Named /\ Rooted /\ registry \subseteq Paths /\ rel \in Relative
        /\ path \in Paths
    BY <1>1 DEF IInv, Types, Relative
  <1>3. Last(path) = Last(Located(rel))
    <2>1. m_hSubKey[k] \in Seq(Names)
      BY <1>2, PathIs DEF Types
    <2> QED  BY <1>2, <2>1, ConcatIs
  <1> HIDE DEF path
  <1>4. MaxDepth >= 1 /\ Len(stack) <= MaxDepth
    BY <1>1, <1>2, PathIs, Constants
  <1>5. NewKey \in Keys /\ NewKey \notin objects
    BY <1>1, <1>2, <1>4, NewKeyIs
  <1>6. MapTypes' /\ Owned' /\ Named'
    BY <1>1, <1>2, <1>3, <1>5, AddIs
  <1>7. registry' \subseteq Paths /\ Rooted'
    BY <1>1, <1>2 DEF Rooted
  <1> QED  BY <1>1, <1>6, <1>7, NoCalls

LEMMA DeleteSubKeyIInv ==
  ASSUME IInv, NEW k \in Keys \cup {HKey}, NEW rel \in Given, DeleteSubKey(k, rel)
  PROVE  IInv'
  <1> DEFINE path == m_hSubKey[k] \o Located(rel)
  <1>1. /\ stack' = <<>> /\ wild' = FALSE /\ before' = Here'
        /\ Deletable(path) /\ registry' = registry \ {path} /\ UNCHANGED keyVars
    BY DEF DeleteSubKey, Settle, Calm, IInv, Types
  <1> HIDE DEF path
  <1>2. /\ MapTypes /\ Owned /\ Named /\ Rooted /\ registry \subseteq Paths /\ path \in Paths
    BY <1>1, MapTypesIs DEF IInv, Types, Deletable
  <1>3. MapTypes' /\ Owned' /\ Named'
    BY <1>1, <1>2 DEF keyVars, MapTypes, Owned, Named
  <1>4. registry' \subseteq Paths /\ Rooted'
    BY <1>1, <1>2, DeletedIs
  <1> QED  BY <1>1, <1>3, <1>4, NoCalls

LEMMA CloseIInv ==
  ASSUME IInv, NEW k \in Keys, Close(k)
  PROVE  IInv'
  <1>1. /\ stack' = <<>> /\ wild' = FALSE /\ before' = Here'
        /\ k \in objects \ {HKey} /\ registry' = registry
        /\ RemoveUsingRegistryKey(m_name[k])
    BY DEF Close, Settle, Calm, IInv, Types
  <1>2. Types /\ Owned /\ Named /\ Rooted /\ registry \subseteq Paths
    BY DEF IInv, Types
  <1>3. PICK rel \in Relative : m_usingKeys[rel] = k
    BY <1>1, <1>2 DEF Owned
  <1>4. m_name[k] \in Relative
    <2>1. m_name[k] = <<Last(Located(rel))>>
      BY <1>1, <1>2, <1>3, Constants DEF Named
    <2> QED  BY <1>2, <2>1, EntryIs, RelativeIs
  <1>5. MapTypes' /\ Owned' /\ Named'
    BY <1>1, <1>2, <1>4, RemoveIs
  <1>6. registry' \subseteq Paths /\ Rooted'
    BY <1>1, <1>2 DEF Rooted
  <1> QED  BY <1>1, <1>5, <1>6, NoCalls
-----------------------------------------------------------------------------
\* The calls of DeleteSubKeyTree.
LEMMA CallIs ==
  ASSUME Types, NEW i \in Calls
  PROVE  /\ stack[i].at \in {"open", "loop", "close"} /\ stack[i].this \in Keys \cup {HKey}
         /\ stack[i].node \in Relative /\ stack[i].path \in Seq(Names)
         /\ stack[i].subKey \in Keys \cup {Nobody} /\ stack[i].names \subseteq Single
  <1>1. stack[i] \in Frames
    BY TypesOfCalls
  <1> QED  BY <1>1 DEF Frames

LEMMA FrameIs ==
  ASSUME Types, NEW k \in Keys \cup {HKey}, NEW rel \in Relative
  PROVE  LET f == Frame(k, rel)
         IN  /\ f \in Frames /\ f.at = "open" /\ f.this = k /\ f.node = rel /\ f.subKey = Nobody
             /\ f.path = m_hSubKey[k] \o Located(rel) /\ f.path # Root /\ Last(f.path) = Last(Located(rel))
             /\ f.path \in Seq(Names) /\ m_hSubKey[k] \in Seq(Names)
             /\ Len(f.path) = Len(m_hSubKey[k]) + Len(Located(rel))
             /\ Begins(m_hSubKey[k], f.path) /\ Len(m_hSubKey[k]) < Len(f.path)
  <1>1. m_hSubKey[k] \in Seq(Names)
    BY PathIs DEF Types
  <1>2. /\ m_hSubKey[k] \o Located(rel) \in Seq(Names) /\ m_hSubKey[k] \o Located(rel) # Root
        /\ Begins(m_hSubKey[k], m_hSubKey[k] \o Located(rel)) /\ Len(m_hSubKey[k]) < Len(m_hSubKey[k] \o Located(rel))
        /\ Last(m_hSubKey[k] \o Located(rel)) = Last(Located(rel))
        /\ Len(m_hSubKey[k] \o Located(rel)) = Len(m_hSubKey[k]) + Len(Located(rel))
    BY <1>1, ConcatIs
  <1> QED  BY <1>1, <1>2 DEF Frame, Frames, Nobody

LEMMA DeleteSubKeyTreeIInv ==
  ASSUME IInv, NEW k \in Keys \cup {HKey}, NEW rel \in Given, DeleteSubKeyTree(k, rel)
  PROVE  IInv'
  <1> DEFINE f == Frame(k, rel)
  <1>1. /\ stack' = <<f>> /\ wild = FALSE /\ stack = <<>> /\ k \in objects
        /\ UNCHANGED <<registry, m_usingKeys, m_hSubKey, m_name, objects, before, wild>>
    BY DEF DeleteSubKeyTree, Calm, IInv, Types, keyVars
  <1>2. Types /\ Rooted /\ Owned /\ Named /\ Shrinks /\ rel \in Relative
    BY DEF IInv, Relative
  <1>3. /\ f \in Frames /\ f.at = "open" /\ f.this = k /\ f.node = rel /\ f.subKey = Nobody
        /\ f.path # Root /\ Last(f.path) = Last(Located(rel)) /\ f.path \in Seq(Names)
        /\ Begins(m_hSubKey[k], f.path) /\ Len(m_hSubKey[k]) < Len(f.path)
    BY <1>2, FrameIs
  <1> HIDE DEF f
  <1>4. Calls' = {1} /\ stack'[1] = f /\ Len(stack') = 1
    BY <1>1 DEF Calls
  <1>5. Types' /\ Rooted' /\ Owned' /\ Named'
    <2>1. stack' \in Seq(Frames)
      BY <1>1, <1>3
    <2> QED  BY <1>1, <1>2, <2>1 DEF Types, Rooted, Owned, Named
  <1>6. Shape' /\ Distinct' /\ Held'
    BY <1>3, <1>4 DEF Shape, Distinct, Held
  <1>7. Nested'
    <2>1. Begins(f.path, f.path) /\ Len(f.path) + (1 - 1) <= Len(f.path)
      BY <1>3, BeginsIs, LenProperties
    <2>2. \A i \in 1..1 : i = 1
      OBVIOUS
    <2> QED  BY <1>1, <1>3, <1>4, <2>1, <2>2 DEF Nested
  <1>8. before = Here /\ before.registry = registry /\ before.map = m_usingKeys
    BY <1>1, <1>2 DEF Shrinks, Here
  <1>9. Shrinks'
    BY <1>1, <1>4, <1>8 DEF Shrinks
  <1>10. Dangles'
    BY <1>1, <1>3, <1>4 DEF Dangles, Dangling
  <1>11. Entries'
    <2>1. Touched' = {}
      BY <1>1, <1>3, <1>4, <1>8 DEF Touched
    <2> QED  BY <1>1, <1>8, <2>1 DEF Entries
  <1> QED  BY <1>5, <1>6, <1>7, <1>9, <1>10, <1>11 DEF IInv

\* What IInv says of the innermost call.
LEMMA TopIs ==
  ASSUME IInv, ~wild, stack # <<>>
  PROVE  LET n == Len(stack)
         IN  /\ n \in Nat /\ n >= 1 /\ n \in Calls /\ 1 \in Calls /\ Top = stack[n]
             /\ stack[n] \in Frames /\ stack \in Seq(Frames)
             /\ Outermost = stack[1].path /\ stack[1].path \in Seq(Names)
             /\ stack[n].path \in Seq(Names) /\ Len(stack[n].path) \in Nat /\ stack[n].path # Root
             /\ before.registry \subseteq Paths /\ registry \subseteq before.registry
             /\ before.registry \ registry \subseteq Tree
             /\ stack[n].at # "open" => stack[n].path \in Tree
             /\ n > 1 => stack[n].node \in Single
             /\ stack[n].node \in Single => <<Last(stack[n].path)>> = stack[n].node
  <1>1. Types /\ Shape /\ Nested /\ Shrinks
    BY DEF IInv
  <1>2. LET n == Len(stack)
        IN  /\ n \in Nat /\ n >= 1 /\ n \in Calls /\ 1 \in Calls
            /\ Top = stack[n] /\ stack[n] \in Frames
    BY <1>1, TypesOfCalls
  <1> DEFINE n == Len(stack)
  <1>3. /\ stack[1].path \in Seq(Names) /\ stack[n].path \in Seq(Names)
        /\ Len(stack[n].path) \in Nat /\ stack[n].path # Root
        /\ Last(stack[n].path) = Last(Located(stack[n].node))
        /\ n > 1 => stack[n].node \in Single
    BY <1>1, <1>2, CallIs, LenProperties DEF Shape
  <1>4. /\ before.registry \subseteq Paths /\ registry \subseteq before.registry
        /\ before.registry \ registry \subseteq Tree /\ stack \in Seq(Frames)
    BY <1>1 DEF Shrinks, Types
  <1>5. stack[n].at # "open" => stack[n].path \in Tree
    <2> SUFFICES ASSUME stack[n].at # "open" PROVE stack[n].path \in Tree
      OBVIOUS
    <2>1. 1 \in 1..n
      BY <1>2
    <2>2. stack[n].path \in before.registry /\ Begins(stack[1].path, stack[n].path)
      BY <1>1, <1>2, <2>1 DEF Nested
    <2> QED  BY <2>2 DEF Tree, Outermost
  <1>6. stack[n].node \in Single => <<Last(stack[n].path)>> = stack[n].node
    BY <1>3, RelativeIs
  <1> QED  BY <1>2, <1>3, <1>4, <1>5, <1>6 DEF Outermost

\* The stack after Replace: the innermost call is f.
LEMMA ReplacedIs ==
  ASSUME Types, stack # <<>>, NEW f \in Frames, stack' = Replace(f)
  PROVE  /\ stack' \in Seq(Frames) /\ stack' # <<>> /\ Len(stack') = Len(stack) /\ Calls' = Calls
         /\ stack'[Len(stack)] = f
         /\ \A i \in Calls : i # Len(stack) => stack'[i] = stack[i]
  <1>1. stack \in Seq(Frames)
    BY DEF Types
  <1>2. /\ stack' \in Seq(Frames) /\ Len(stack') = Len(stack)
        /\ Len(stack) \in Nat /\ Len(stack) >= 1
        /\ \A i \in 1..Len(stack) : stack'[i] = IF i = Len(stack) THEN f ELSE stack[i]
    BY <1>1, StackIs DEF Replace
  <1>3. stack' # <<>> /\ Calls' = Calls /\ Len(stack) \in Calls
    BY <1>2, EmptySeq DEF Calls
  <1> QED  BY <1>2, <1>3 DEF Calls

LEMMA TreeDescendIInv ==
  ASSUME IInv, TreeDescend
  PROVE  IInv'
  <1> DEFINE n == Len(stack)
             m == n + 1
  <1>0. /\ ~wild /\ stack # <<>> /\ Top.at = "loop"
        /\ UNCHANGED <<registry, m_usingKeys, m_hSubKey, m_name, objects, before, wild>>
    BY DEF TreeDescend, In, keyVars
  <1>1. PICK name \in Top.names :
          stack' = Append(Replace([Top EXCEPT !.names = @ \ {name}]), Frame(Top.subKey, name))
    BY DEF TreeDescend
  <1>2. /\ n \in Nat /\ n >= 1 /\ n \in Calls /\ 1 \in Calls /\ Top = stack[n]
        /\ stack[n] \in Frames /\ stack \in Seq(Frames)
        /\ stack[1].path \in Seq(Names) /\ stack[n].path \in Seq(Names)
    BY <1>0, TopIs
  <1>3. /\ Types /\ Rooted /\ Owned /\ Named /\ Shape /\ Distinct /\ Held /\ Nested
        /\ Shrinks /\ Dangles /\ Entries
    BY DEF IInv
  <1> DEFINE s == stack[n].subKey
             f == [stack[n] EXCEPT !.names = @ \ {name}]
             g == Frame(s, name)
  <1>4. /\ stack[n].at = "loop" /\ stack[n].subKey # Nobody /\ stack[n].subKey \in Keys
        /\ name \in Single /\ name \in Relative
    <2>1. stack[n].subKey # Nobody
      BY <1>0, <1>2, <1>3 DEF Shape
    <2> QED  BY <1>0, <1>1, <1>2, <1>3, <2>1, CallIs DEF Relative
  <1>5. /\ g \in Frames /\ g.at = "open" /\ g.this = s /\ g.node = name /\ g.subKey = Nobody
        /\ g.path = m_hSubKey[s] \o Located(name) /\ g.path # Root /\ Last(g.path) = Last(Located(name))
        /\ g.path \in Seq(Names) /\ m_hSubKey[s] \in Seq(Names)
        /\ Begins(m_hSubKey[s], g.path) /\ Len(m_hSubKey[s]) < Len(g.path)
    <2>1. Types /\ s \in Keys \cup {HKey} /\ name \in Relative
      BY <1>3, <1>4, Zenon
    <2> HIDE DEF s
    <2> QED  BY <2>1, FrameIs, ZenonT(60)
  <1>6. /\ f \in Frames /\ f.at = "loop" /\ f.this = stack[n].this /\ f.node = stack[n].node
        /\ f.path = stack[n].path /\ f.subKey = s
    BY <1>2, <1>4 DEF Frames
  <1>7. stack' = Append(Replace(f), g)
    BY <1>1, <1>2
  <1> HIDE DEF f, g
  <1>8. /\ stack' \in Seq(Frames) /\ stack' # <<>> /\ Len(stack') = m
        /\ stack'[n] = f /\ stack'[m] = g
        /\ \A i \in Calls : i # n => stack'[i] = stack[i]
    <2> DEFINE t == Replace(f)
    <2>1. /\ t \in Seq(Frames) /\ Len(t) = n
          /\ \A i \in 1..n : t[i] = IF i = n THEN f ELSE stack[i]
      BY <1>0, <1>2, <1>6, StackIs DEF Replace
    <2>2. stack' = Append(t, g)
      BY <1>7, SMTT(60)
    <2> HIDE DEF t
    <2>3. /\ stack' \in Seq(Frames) /\ Len(stack') = m
          /\ \A i \in 1..n : stack'[i] = t[i]
          /\ stack'[m] = g
      BY <1>5, <2>1, <2>2, AppendProperties
    <2>4. stack' # <<>>
      BY <1>2, <2>3, EmptySeq
    <2> QED  BY <1>2, <2>1, <2>3, <2>4 DEF Calls
  <1>9. Calls' = Calls \cup {m} /\ m \notin Calls /\ \A i \in Calls : i <= n /\ i >= 1 /\ i \in Nat
    BY <1>2, <1>8 DEF Calls
  <1>10. \A i \in Calls :
            /\ stack'[i].at = stack[i].at /\ stack'[i].this = stack[i].this
            /\ stack'[i].node = stack[i].node /\ stack'[i].path = stack[i].path
            /\ stack'[i].subKey = stack[i].subKey
    BY <1>4, <1>6, <1>8
  <1>11. Types' /\ Rooted' /\ Owned' /\ Named'
    BY <1>0, <1>3, <1>8 DEF Types, Rooted, Owned, Named
  <1>12. Shape'
    <2> SUFFICES ASSUME NEW i \in Calls'
                 PROVE  /\ stack'[i].at = "open" <=> stack'[i].subKey = Nobody
                        /\ i < m => stack'[i].at = "loop"
                        /\ i > 1 => /\ stack'[i].this = stack'[i - 1].subKey
                                     /\ stack'[i].node \in Single
                        /\ stack'[i].path # Root /\ Last(stack'[i].path) = Last(Located(stack'[i].node))
      BY <1>8, SMTT(60) DEF Shape
    <2>1. CASE i = m
      <3>1. i - 1 = n /\ stack'[n].subKey = s
        BY <1>2, <1>6, <1>8, <2>1, SMTT(60)
      <3>2. stack'[m].this = s /\ stack'[m].at = "open" /\ stack'[m].subKey = Nobody
            /\ stack'[m].node = name /\ stack'[m].path = g.path
        BY <1>5, <1>8
      <3>3. ~(m < m)
        BY <1>2
      <3> HIDE DEF m
      <3> QED  BY <1>4, <1>5, <2>1, <3>1, <3>2, <3>3, ZenonT(60)
    <2>2. CASE i \in Calls
      <3>1. i > 1 => i - 1 \in Calls
        BY <1>2, <2>2 DEF Calls
      <3>2. stack[i].at = "loop" /\ i < m
        BY <1>2, <1>3, <1>4, <1>9, <2>2 DEF Shape
      <3> QED  BY <1>3, <1>10, <2>2, <3>1, <3>2 DEF Shape
    <2> QED  BY <1>9, <2>1, <2>2
  <1>13. Distinct'
    <2> SUFFICES ASSUME NEW i \in Calls', stack'[i].subKey # Nobody
                 PROVE  /\ stack'[i].subKey # stack'[1].this
                        /\ \A j \in Calls' : stack'[i].subKey = stack'[j].subKey => i = j
      BY DEF Distinct
    <2>1. stack'[m].subKey = Nobody
      BY <1>5, <1>8
    <2>2. i \in Calls /\ stack[i].subKey # Nobody
      BY <1>9, <1>10, <2>1
    <2>3. stack'[i].subKey # stack'[1].this
      BY <1>2, <1>3, <1>10, <2>2 DEF Distinct
    <2>4. ASSUME NEW j \in Calls', stack'[i].subKey = stack'[j].subKey PROVE i = j
      <3>1. j \in Calls
        BY <1>9, <2>1, <2>4
      <3>2. stack[i].subKey = stack[j].subKey
        BY <1>10, <2>2, <2>4, <3>1, SMTT(60)
      <3> QED  BY <1>3, <2>2, <3>1, <3>2 DEF Distinct
    <2> QED  BY <2>3, <2>4
  <1>14. Held'
    BY <1>0, <1>3, <1>5, <1>8, <1>9, <1>10, SMTT(60) DEF Held
  <1>15. Nested'
    <2>1. ASSUME NEW j \in Calls, NEW i \in 1..j PROVE i \in Calls
      BY <1>2, <2>1 DEF Calls
    <2>2. ASSUME NEW j \in Calls
          PROVE  /\ stack'[j].at # "open" \/ stack'[j].this \in objects' =>
                       \A i \in 1..j : /\ Begins(stack'[i].path, stack'[j].path)
                                       /\ Len(stack'[i].path) + (j - i) <= Len(stack'[j].path)
                 /\ stack'[j].this \in objects' =>
                       /\ Begins(m_hSubKey'[stack'[j].this], stack'[j].path)
                       /\ Len(m_hSubKey'[stack'[j].this]) < Len(stack'[j].path)
                 /\ stack'[j].at # "open" => stack'[j].path \in before'.registry
                 /\ stack'[j].at = "close" => stack'[j].path \notin registry'
      BY <1>0, <1>3, <1>10, <2>1 DEF Nested
    <2>3. stack'[m].at = "open" /\ stack'[m].this = s /\ stack'[m].path = g.path
      BY <1>5, <1>8
    <2>4. ASSUME s \in objects, NEW i \in 1..m
          PROVE  /\ Begins(stack'[i].path, g.path)
                 /\ Len(stack'[i].path) + (m - i) <= Len(g.path)
      <3>1. m_hSubKey[s] = stack[n].path
        BY <1>2, <1>3, <1>4, <2>4 DEF Held
      <3>2. CASE i = m
        <4>1. Begins(g.path, g.path) /\ Len(g.path) \in Nat /\ m - m = 0
          <5>1. g.path \in Seq(Names)
            BY <1>5
          <5>2. Begins(g.path, g.path)
            BY <5>1, BeginsIs
          <5>3. Len(g.path) \in Nat
            BY <5>1, LenProperties
          <5> QED  BY <1>2, <5>2, <5>3
        <4> HIDE DEF m
        <4> QED  BY <2>3, <3>2, <4>1
      <3>3. CASE i # m
        <4>1. i \in 1..n /\ i \in Calls
          BY <1>2, <3>3 DEF Calls
        <4>2. /\ Begins(stack[i].path, stack[n].path)
              /\ Len(stack[i].path) + (n - i) <= Len(stack[n].path)
          BY <1>2, <1>3, <1>4, <4>1 DEF Nested
        <4>3. /\ stack[i].path \in Seq(Names) /\ Len(stack[i].path) \in Nat
              /\ Len(stack[n].path) \in Nat /\ Len(g.path) \in Nat
          BY <1>2, <1>3, <1>5, <4>1, CallIs, LenProperties
        <4>4. Begins(stack[i].path, g.path)
          <5>1. /\ stack[i].path \in Seq(Names) /\ stack[n].path \in Seq(Names)
                /\ g.path \in Seq(Names)
            BY <1>2, <1>5, <4>3
          <5>2. Begins(stack[n].path, g.path)
            BY <1>5, <3>1
          <5> QED  BY <4>2, <5>1, <5>2, BeginsIs
        <4>5. Len(stack[i].path) + (m - i) <= Len(g.path)
          <5> DEFINE x == Len(stack[i].path)
                     y == Len(stack[n].path)
                     z == Len(g.path)
          <5>1. y < z
            BY <1>5, <3>1
          <5>2. n \in Nat /\ i \in Int /\ m = n + 1
            BY <1>2
          <5>3. x \in Nat /\ y \in Nat /\ z \in Nat /\ x + (n - i) <= y
            BY <4>2, <4>3
          <5> HIDE DEF n, m, x, y, z
          <5>4. x + (m - i) <= z
            BY <5>1, <5>2, <5>3
          <5> QED  BY <5>4 DEF x, z
        <4> QED  BY <1>10, <4>1, <4>4, <4>5
      <3> QED  BY <3>2, <3>3
    <2> QED  BY <1>0, <1>5, <1>9, <2>2, <2>3, <2>4 DEF Nested
  <1>16. Outermost' = Outermost /\ Tree' = Tree
    BY <1>0, <1>2, <1>10 DEF Outermost, Tree
  <1>17. Shrinks'
    BY <1>0, <1>3, <1>8, <1>16 DEF Shrinks
  <1>18. Dangles'
    <2>1. ASSUME Dangling' PROVE Dangling
      <3>1. PICK i \in Calls' : \/ stack'[i].this \notin objects
                                \/ stack'[i].subKey # Nobody /\ stack'[i].subKey \notin objects
        BY <1>0, <2>1, SMTT(60) DEF Dangling
      <3>2. CASE i = m
        BY <1>2, <1>4, <1>5, <1>8, <3>1, <3>2 DEF Dangling
      <3>3. CASE i \in Calls
        BY <1>10, <3>1, <3>3 DEF Dangling
      <3> QED  BY <1>9, <3>2, <3>3
    <2>2. Repeats => Repeats'
      BY <1>16 DEF Repeats
    <2> QED  BY <1>0, <1>3, <2>1, <2>2 DEF Dangles
  <1>19. Entries'
    <2>1. Touched' = Touched
      <3>1. {stack'[i].node : i \in {j \in Calls' : stack'[j].at # "open"}}
              = {stack[i].node : i \in {j \in Calls : stack[j].at # "open"}}
        <4>1. stack'[m].at = "open"
          BY <1>5, <1>8
        <4>2. {j \in Calls' : stack'[j].at # "open"} = {j \in Calls : stack[j].at # "open"}
          BY <1>9, <1>10, <4>1
        <4> HIDE DEF m
        <4>3. \A i \in {j \in Calls : stack[j].at # "open"} : stack'[i].node = stack[i].node
          BY <1>10
        <4> QED  BY <4>2, <4>3, Zenon
      <3> QED  BY <1>0, <3>1 DEF Touched
    <2>2. stack'[1].node = stack[1].node
      BY <1>2, <1>10
    <2> SUFFICES ASSUME stack[1].node \in Single
                 PROVE  /\ \A rel \in Relative : rel \notin {<<Last(p)>> : p \in Tree} =>
                             m_usingKeys[rel] = before.map[rel]
                        /\ \A rel \in Touched : m_usingKeys[rel] # Nobody =>
                             \E i \in Calls' : stack'[i].subKey = m_usingKeys[rel]
      BY <1>0, <1>16, <2>1, <2>2 DEF Entries
    <2>3. \A rel \in Touched : m_usingKeys[rel] # Nobody =>
             \E i \in Calls : stack[i].subKey = m_usingKeys[rel]
      BY <1>0, <1>3 DEF Entries
    <2> QED  BY <1>0, <1>3, <1>9, <1>10, <2>3 DEF Entries
  <1> QED  BY <1>11, <1>12, <1>13, <1>14, <1>15, <1>17, <1>18, <1>19 DEF IInv

LEMMA TreeDeleteIInv ==
  ASSUME IInv, TreeDelete
  PROVE  IInv'
  <1> DEFINE n == Len(stack)
             path == stack[n].path
             f == [stack[n] EXCEPT !.at = "close"]
  <1>0. /\ wild = FALSE /\ stack # <<>> /\ Top.at = "loop"
        /\ UNCHANGED <<m_usingKeys, m_hSubKey, m_name, objects, wild>>
        /\ before' = IF stack' = <<>> THEN Here' ELSE before
    BY DEF TreeDelete, In, keyVars, Settle, IInv, Types
  <1>1. /\ n \in Nat /\ n >= 1 /\ n \in Calls /\ 1 \in Calls /\ Top = stack[n]
        /\ stack[n] \in Frames /\ stack \in Seq(Frames)
        /\ before.registry \subseteq Paths /\ registry \subseteq before.registry
        /\ before.registry \ registry \subseteq Tree
        /\ stack[n].path \in Tree
        /\ n > 1 => stack[n].node \in Single
        /\ stack[n].node \in Single => <<Last(stack[n].path)>> = stack[n].node
    BY <1>0, TopIs
  <1>2. /\ Types /\ Rooted /\ Owned /\ Named /\ Shape /\ Distinct /\ Held /\ Nested
        /\ Shrinks /\ Dangles /\ Entries /\ registry \subseteq Paths
    BY DEF IInv, Types
  <1>3. \/ Deletable(path) /\ registry' = registry \ {path} /\ stack' = Replace(f)
        \/ stack' = <<>> /\ registry' = registry
    BY <1>1 DEF TreeDelete, Target
  <1>4. MapTypes' /\ Owned' /\ Named'
    <2>1. MapTypes
      BY <1>2, MapTypesIs
    <2> QED  BY <1>0, <1>2, <2>1 DEF MapTypes, Owned, Named
  <1>5. CASE stack' = <<>> /\ registry' = registry
    <2>1. Rooted' /\ registry' \subseteq Paths
      BY <1>2, <1>5 DEF Rooted
    <2> QED  BY <1>0, <1>4, <1>5, <2>1, NoCalls
  <1>6. CASE Deletable(path) /\ registry' = registry \ {path} /\ stack' = Replace(f)
    <2>1. /\ f \in Frames /\ f.at = "close" /\ f.this = stack[n].this /\ f.node = stack[n].node
          /\ f.path = path /\ f.subKey = stack[n].subKey
      BY <1>1 DEF Frames
    <2> HIDE DEF f, path
    <2>2. /\ stack' \in Seq(Frames) /\ stack' # <<>> /\ Len(stack') = n /\ Calls' = Calls
          /\ stack'[n] = f /\ \A i \in Calls : i # n => stack'[i] = stack[i]
      BY <1>0, <1>2, <1>6, <2>1, ReplacedIs
    <2>3. /\ \A i \in Calls :
               /\ stack'[i].this = stack[i].this
               /\ stack'[i].node = stack[i].node /\ stack'[i].path = stack[i].path
               /\ stack'[i].subKey = stack[i].subKey
          /\ \A i \in Calls : i # n => stack'[i].at = stack[i].at
          /\ stack'[n].at = "close" /\ stack[n].at = "loop" /\ stack[n].path = path
      BY <1>0, <1>1, <2>1, <2>2 DEF path
    <2>4. /\ before' = before /\ path \in Paths /\ path \in Tree /\ path \in registry
          /\ registry' \subseteq Paths
      BY <1>0, <1>1, <1>2, <1>6, <2>2 DEF path, Deletable
    <2>5. Rooted'
      BY <1>2, <1>6, <2>4, DeletedIs
    <2>6. Types'
      BY <1>0, <1>1, <1>2, <2>2, <2>4 DEF Types
    <2>7. Shape'
      <3>1. \A i \in Calls : i > 1 => i - 1 \in Calls
        BY <1>1 DEF Calls
      <3>2. \A i \in Calls : i < n => i # n
        BY <1>1
      <3> QED  BY <1>2, <2>2, <2>3, <3>1, <3>2 DEF Shape
    <2>8. Distinct'
      BY <1>1, <1>2, <2>2, <2>3 DEF Distinct
    <2>9. Held'
      BY <1>0, <1>2, <2>2, <2>3 DEF Held
    <2>10. Nested'
      <3>1. ASSUME NEW j \in Calls, NEW i \in 1..j PROVE i \in Calls
        BY <1>1, <3>1 DEF Calls
      <3>2. \A j \in Calls : stack'[j].at # "open" => stack[j].at # "open"
        BY <2>3
      <3>3. \A j \in Calls : stack'[j].at = "close" => j = n
        <4> SUFFICES ASSUME NEW j \in Calls, j # n PROVE stack[j].at # "close"
          BY <2>3
        <4>1. j < n
          BY <1>1 DEF Calls
        <4> QED  BY <1>2, <4>1 DEF Shape
      <3>4. ASSUME NEW j \in Calls
            PROVE  /\ stack'[j].at # "open" \/ stack'[j].this \in objects' =>
                         \A i \in 1..j : /\ Begins(stack'[i].path, stack'[j].path)
                                         /\ Len(stack'[i].path) + (j - i) <= Len(stack'[j].path)
                   /\ stack'[j].this \in objects' =>
                         /\ Begins(m_hSubKey'[stack'[j].this], stack'[j].path)
                         /\ Len(m_hSubKey'[stack'[j].this]) < Len(stack'[j].path)
                   /\ stack'[j].at # "open" => stack'[j].path \in before'.registry
        BY <1>0, <1>2, <2>3, <2>4, <3>1, <3>2 DEF Nested
      <3>5. \A j \in Calls : stack'[j].at = "close" => stack'[j].path \notin registry'
        BY <1>6, <2>3, <3>3
      <3> QED  BY <2>2, <3>4, <3>5 DEF Nested
    <2>11. Outermost' = Outermost /\ Tree' = Tree
      BY <1>1, <2>3, <2>4 DEF Outermost, Tree
    <2>12. Shrinks'
      BY <1>1, <1>6, <2>2, <2>4, <2>11 DEF Shrinks
    <2>13. Dangles'
      <3>1. Dangling' => Dangling
        BY <1>0, <2>2, <2>3 DEF Dangling
      <3>2. Repeats => Repeats'
        BY <2>11 DEF Repeats
      <3> QED  BY <1>0, <1>2, <3>1, <3>2 DEF Dangles
    <2>14. Entries'
      <3>1. stack'[1].node = stack[1].node
        BY <1>1, <2>3
      <3> SUFFICES ASSUME stack[1].node \in Single
                   PROVE  /\ \A rel \in Relative : rel \notin {<<Last(p)>> : p \in Tree} =>
                               m_usingKeys[rel] = before.map[rel]
                          /\ \A rel \in Touched' : m_usingKeys[rel] # Nobody =>
                               \E i \in Calls : stack'[i].subKey = m_usingKeys[rel]
        BY <1>0, <2>2, <2>4, <2>11, <3>1 DEF Entries
      <3>2. Touched' \subseteq Touched
        <4>1. <<Last(path)>> = stack[n].node
          <5>1. stack[n].node \in Single
            <6>1. n \in Nat /\ n >= 1
              BY <1>1
            <6> HIDE DEF n
            <6>2. n > 1 \/ n = 1
              BY <6>1
            <6> QED  BY <1>1, <6>2
          <5> QED  BY <1>1, <5>1 DEF path
        <4>2. <<Last(path)>> \in Touched
          BY <1>1, <2>3, <4>1 DEF Touched
        <4>3. ASSUME NEW rel \in Touched' PROVE rel \in Touched
          <5>1. CASE rel \in {stack'[i].node : i \in {j \in Calls' : stack'[j].at # "open"}}
            <6>1. PICK i \in Calls : stack'[i].at # "open" /\ rel = stack'[i].node
              BY <2>2, <5>1
            <6>2. stack[i].at # "open" /\ rel = stack[i].node
              BY <2>3, <6>1
            <6> QED  BY <6>2 DEF Touched
          <5>2. CASE rel \in {<<Last(p)>> : p \in before'.registry \ registry'}
            <6>1. PICK p \in before.registry : p \notin registry' /\ rel = <<Last(p)>>
              BY <2>4, <5>2
            <6>2. CASE p = path
              BY <4>2, <6>1, <6>2
            <6>3. CASE p # path
              BY <1>6, <6>1, <6>3 DEF Touched
            <6> QED  BY <6>2, <6>3
          <5> QED  BY <4>3, <5>1, <5>2 DEF Touched
        <4> QED  BY <4>3
      <3>3. /\ \A rel \in Relative : rel \notin {<<Last(p)>> : p \in Tree} =>
                 m_usingKeys[rel] = before.map[rel]
            /\ \A rel \in Touched : m_usingKeys[rel] # Nobody =>
                 \E i \in Calls : stack[i].subKey = m_usingKeys[rel]
        BY <1>0, <1>2 DEF Entries
      <3> QED  BY <2>3, <3>2, <3>3
    <2>15. Owned' /\ Named'
      BY <1>4
    <2> QED  BY <2>5, <2>6, <2>7, <2>8, <2>9, <2>10, <2>12, <2>13, <2>14, <2>15 DEF IInv
  <1> QED  BY <1>3, <1>5, <1>6

\* What TreeClose closes: the key of the innermost call, by the entry of its name.
LEMMA ClosedIs ==
  ASSUME IInv, ~wild, stack # <<>>, Top.at = "close", Top.subKey \in objects,
         RemoveUsingRegistryKey(m_name[Top.subKey])
  PROVE  /\ MapTypes' /\ Owned' /\ Named'
         /\ Top.node \in Single =>
              /\ m_name[Top.subKey] = Top.node /\ m_usingKeys[Top.node] = Top.subKey
              /\ m_usingKeys'[Top.node] = Nobody
              /\ \A r \in Relative \ {Top.node} : m_usingKeys'[r] = m_usingKeys[r]
              /\ \A k : k \in objects' <=> k \in objects /\ k # Top.subKey
              /\ \A k \in objects : k # Top.subKey => m_hSubKey'[k] = m_hSubKey[k]
  <1> DEFINE n == Len(stack)
             s == stack[n].subKey
             node == stack[n].node
  <1>1. n \in Calls /\ Top = stack[n] /\ (node \in Single => <<Last(stack[n].path)>> = node)
    BY TopIs
  <1>2. Types /\ Owned /\ Named /\ Shape /\ Held
    BY DEF IInv
  <1>3. s # Nobody /\ s \in Keys /\ s \in objects /\ node \in Relative
    <2>1. s # Nobody
      BY <1>1, <1>2 DEF Shape
    <2> QED  BY <1>1, <1>2, <2>1, CallIs
  <1>4. m_usingKeys[node] = s
    BY <1>1, <1>2, <1>3 DEF Held
  <1>5. m_name[s] = <<Last(Located(node))>>
    BY <1>2, <1>3, <1>4 DEF Named
  <1>6. m_name[s] \in Relative /\ (node \in Single => m_name[s] = node)
    <2>1. <<Last(Located(node))>> \in Relative
      BY <1>2, <1>3, EntryIs, RelativeIs
    <2>2. Last(stack[n].path) = Last(Located(node))
      BY <1>1, <1>2 DEF Shape
    <2> QED  BY <1>1, <1>5, <2>1, <2>2
  <1>7. RemoveUsingRegistryKey(m_name[s])
    BY <1>1
  <1> HIDE DEF s, node
  <1> DEFINE rel == m_name[s]
  <1> HIDE DEF rel
  <1>8. /\ MapTypes' /\ Owned' /\ Named'
        /\ m_usingKeys'[rel] = Nobody
        /\ \A r \in Relative \ {rel} : m_usingKeys'[r] = m_usingKeys[r]
        /\ \A k : k \in objects' <=> k \in objects /\ k # m_usingKeys[rel]
        /\ \A k \in objects : k # m_usingKeys[rel] => m_hSubKey'[k] = m_hSubKey[k]
    <2>1. rel \in Relative /\ RemoveUsingRegistryKey(rel) /\ Keys # {}
      BY <1>3, <1>6, <1>7 DEF rel
    <2> QED  BY <1>2, <2>1, RemoveIs
  <1>9. node \in Single => rel = node
    BY <1>6 DEF rel
  <1>10. Top.node = node /\ Top.subKey = s
    BY <1>1 DEF node, s
  <1> QED  BY <1>4, <1>6, <1>8, <1>9, <1>10 DEF rel

LEMMA TreeCloseIInv ==
  ASSUME IInv, TreeClose
  PROVE  IInv'
  <1> DEFINE n == Len(stack)
             s == stack[n].subKey
             node == stack[n].node
  <1>0. /\ wild = FALSE /\ stack # <<>> /\ Top.at = "close" /\ Top.subKey \in objects
        /\ RemoveUsingRegistryKey(m_name[Top.subKey])
        /\ UNCHANGED <<registry, wild>> /\ stack' = Front(stack)
        /\ before' = IF stack' = <<>> THEN Here' ELSE before
    BY DEF TreeClose, In, Settle, IInv, Types
  <1>1. /\ n \in Nat /\ n >= 1 /\ n \in Calls /\ 1 \in Calls /\ Top = stack[n]
        /\ stack[n] \in Frames /\ stack \in Seq(Frames)
        /\ before.registry \subseteq Paths /\ registry \subseteq before.registry
        /\ before.registry \ registry \subseteq Tree
        /\ stack[n].path \in Tree
        /\ n > 1 => stack[n].node \in Single
        /\ stack[n].node \in Single => <<Last(stack[n].path)>> = stack[n].node
    BY <1>0, TopIs
  <1>2. /\ Types /\ Rooted /\ Owned /\ Named /\ Shape /\ Distinct /\ Held /\ Nested
        /\ Shrinks /\ Dangles /\ Entries /\ registry \subseteq Paths
    BY DEF IInv, Types
  <1>3. /\ MapTypes' /\ Owned' /\ Named'
        /\ node \in Single =>
              /\ m_usingKeys[node] = s /\ m_usingKeys'[node] = Nobody
              /\ \A r \in Relative \ {node} : m_usingKeys'[r] = m_usingKeys[r]
              /\ \A k : k \in objects' <=> k \in objects /\ k # s
              /\ \A k \in objects : k # s => m_hSubKey'[k] = m_hSubKey[k]
    BY <1>0, <1>1, ClosedIs
  <1>4. registry' \subseteq Paths /\ Rooted'
    BY <1>0, <1>2 DEF Rooted
  <1>5. /\ stack' \in Seq(Frames) /\ Len(stack') = n - 1
        /\ \A i \in 1..(n - 1) : stack'[i] = stack[i]
    BY <1>0, <1>1, StackIs
  <1>6. CASE n = 1
    <2>1. stack' = <<>>
      BY <1>5, <1>6, EmptySeq
    <2> QED  BY <1>0, <1>3, <1>4, <2>1, NoCalls
  <1>7. CASE n # 1
    <2>1. n > 1 /\ node \in Single /\ node \in Relative
      <3>1. n \in Nat /\ n >= 1 /\ (n > 1 => node \in Single)
        BY <1>1
      <3> HIDE DEF n, node
      <3>2. n > 1
        BY <1>7, <3>1
      <3> QED  BY <3>1, <3>2 DEF Relative
    <2>2. /\ Calls' = 1..(n - 1) /\ Calls' \subseteq Calls /\ 1 \in Calls' /\ n \notin Calls'
          /\ \A i \in Calls' : stack'[i] = stack[i] /\ i # n
          /\ stack' # <<>>
      <3>1. Len(stack') >= 1
        BY <1>1, <1>5, <2>1
      <3>2. stack' # <<>>
        BY <1>5, <3>1, EmptySeq
      <3> QED  BY <1>1, <1>5, <2>1, <3>2 DEF Calls
    <2>3. before' = before /\ m_usingKeys[node] = s /\ s # Nobody /\ s \in objects
      <3>1. s # Nobody
        BY <1>0, <1>1, <1>2 DEF Shape
      <3> QED  BY <1>0, <1>1, <1>3, <2>1, <2>2, <3>1
    <2>4. /\ m_usingKeys'[node] = Nobody
          /\ \A r \in Relative \ {node} : m_usingKeys'[r] = m_usingKeys[r]
          /\ \A k : k \in objects' <=> k \in objects /\ k # s
          /\ \A k \in objects : k # s => m_hSubKey'[k] = m_hSubKey[k]
      BY <1>3, <2>1
    \* Nobody else has the key.
    <2>5. \A i \in Calls' : stack[i].subKey # s /\ stack[i].this # s
      <3> SUFFICES ASSUME NEW i \in Calls' PROVE stack[i].subKey # s /\ stack[i].this # s
        OBVIOUS
      <3>1. \A j \in Calls' : stack[j].subKey # s
        BY <1>1, <1>2, <2>2, <2>3 DEF Distinct
      <3>2. CASE i = 1
        BY <1>1, <1>2, <2>3, <3>1, <3>2 DEF Distinct
      <3>3. CASE i # 1
        <4>1. i - 1 \in Calls' /\ i > 1 /\ i \in Calls
          BY <1>1, <2>2, <3>3
        <4> QED  BY <1>2, <3>1, <4>1 DEF Shape
      <3> QED  BY <3>1, <3>2, <3>3
    <2> HIDE DEF s, node
    <2>6. Types'
      BY <1>0, <1>1, <1>3, <1>4, <1>5, <2>3 DEF Types, MapTypes
    <2>7. Shape'
      <3>1. \A i \in Calls' : i > 1 => i - 1 \in Calls'
        BY <1>1, <2>2
      <3>2. \A i \in Calls' : i < n
        BY <1>1, <2>2
      <3>3. \A i \in Calls' : i > 1 => stack'[i - 1] = stack[i - 1]
        BY <2>2, <3>1
      <3> QED  BY <1>2, <2>2, <3>2, <3>3 DEF Shape
    <2>8. Distinct'
      <3> SUFFICES ASSUME NEW i \in Calls', stack'[i].subKey # Nobody
                   PROVE  /\ stack'[i].subKey # stack'[1].this
                          /\ \A j \in Calls' : stack'[i].subKey = stack'[j].subKey => i = j
        BY DEF Distinct
      <3>1. 1 \in Calls' /\ i \in Calls /\ stack[i].subKey # Nobody
        BY <1>1, <2>1, <2>2
      <3>2. stack'[i].subKey # stack'[1].this
        BY <1>2, <2>2, <3>1 DEF Distinct
      <3>3. \A j \in Calls' : stack'[i].subKey = stack'[j].subKey => i = j
        BY <1>2, <2>2, <3>1 DEF Distinct
      <3> QED  BY <3>2, <3>3
    <2>9. Held'
      <3> SUFFICES ASSUME NEW i \in Calls', stack'[i].subKey # Nobody, stack'[i].subKey \in objects'
                   PROVE  /\ m_usingKeys'[stack'[i].node] = stack'[i].subKey
                          /\ m_hSubKey'[stack'[i].subKey] = stack'[i].path
        BY DEF Held
      <3>1. /\ i \in Calls /\ stack'[i] = stack[i] /\ stack[i].subKey \in objects
            /\ stack[i].subKey # Nobody /\ stack[i].subKey # s
        BY <2>2, <2>4, <2>5
      <3>2. /\ m_usingKeys[stack[i].node] = stack[i].subKey
            /\ m_hSubKey[stack[i].subKey] = stack[i].path
        BY <1>2, <3>1 DEF Held
      <3>3. stack[i].node \in Relative \ {node}
        BY <1>2, <2>3, <3>1, <3>2, CallIs
      <3> QED  BY <2>4, <3>1, <3>2, <3>3
    <2>10. Nested'
      <3>1. ASSUME NEW j \in Calls', NEW i \in 1..j PROVE i \in Calls'
        BY <1>1, <2>2, <3>1
      <3>2. ASSUME NEW j \in Calls', stack[j].this \in objects'
            PROVE  stack[j].this \in objects /\ m_hSubKey'[stack[j].this] = m_hSubKey[stack[j].this]
        BY <2>4, <2>5, <3>2
      <3>3. ASSUME NEW j \in Calls'
            PROVE  /\ stack'[j].at # "open" \/ stack'[j].this \in objects' =>
                         \A i \in 1..j : /\ Begins(stack'[i].path, stack'[j].path)
                                         /\ Len(stack'[i].path) + (j - i) <= Len(stack'[j].path)
                   /\ stack'[j].this \in objects' =>
                         /\ Begins(m_hSubKey'[stack'[j].this], stack'[j].path)
                         /\ Len(m_hSubKey'[stack'[j].this]) < Len(stack'[j].path)
                   /\ stack'[j].at # "open" => stack'[j].path \in before'.registry
                   /\ stack'[j].at = "close" => stack'[j].path \notin registry'
        <4>1. j \in Calls /\ stack'[j] = stack[j] /\ \A i \in 1..j : stack'[i] = stack[i]
          BY <2>2, <3>1
        <4> QED  BY <1>0, <1>2, <2>3, <3>2, <4>1 DEF Nested
      <3> QED  BY <3>3 DEF Nested
    <2>11. Outermost' = Outermost /\ Tree' = Tree
      BY <2>2, <2>3 DEF Outermost, Tree
    <2>12. Shrinks'
      BY <1>0, <1>1, <2>2, <2>3, <2>11 DEF Shrinks
    <2>13. Dangles'
      <3>1. ASSUME Dangling' PROVE Dangling
        <4>1. PICK i \in Calls' : \/ stack'[i].this \notin objects'
                                  \/ stack'[i].subKey # Nobody /\ stack'[i].subKey \notin objects'
          BY <3>1 DEF Dangling
        <4> QED  BY <2>2, <2>4, <2>5, <4>1 DEF Dangling
      <3>2. Repeats => Repeats'
        BY <2>11 DEF Repeats
      <3> QED  BY <1>0, <1>2, <3>1, <3>2 DEF Dangles
    <2>14. Entries'
      <3> SUFFICES ASSUME stack[1].node \in Single
                   PROVE  /\ \A rel \in Relative : rel \notin {<<Last(p)>> : p \in Tree} =>
                               m_usingKeys'[rel] = before.map[rel]
                          /\ \A rel \in Touched' : m_usingKeys'[rel] # Nobody =>
                               \E i \in Calls' : stack'[i].subKey = m_usingKeys'[rel]
        BY <2>2, <2>3, <2>11 DEF Entries
      <3>1. /\ \A rel \in Relative : rel \notin {<<Last(p)>> : p \in Tree} =>
                 m_usingKeys[rel] = before.map[rel]
            /\ \A rel \in Touched : m_usingKeys[rel] # Nobody =>
                 \E i \in Calls : stack[i].subKey = m_usingKeys[rel]
        BY <1>0, <1>2 DEF Entries
      <3>2. node \in {<<Last(p)>> : p \in Tree}
        BY <1>1, <2>1 DEF node
      <3>3. ASSUME NEW rel \in Touched' PROVE rel \in Touched /\ rel \in Relative
        <4>1. CASE rel \in {stack'[i].node : i \in {j \in Calls' : stack'[j].at # "open"}}
          <5>1. PICK i \in Calls : stack[i].at # "open" /\ rel = stack[i].node
            BY <2>2, <4>1
          <5> QED  BY <1>2, <5>1, CallIs DEF Touched
        <4>2. CASE rel \in {<<Last(p)>> : p \in before'.registry \ registry'}
          <5>1. PICK p \in before.registry \ registry : rel = <<Last(p)>>
            BY <1>0, <2>3, <4>2
          <5>2. p \in Seq(Names) /\ Len(p) \in 1..Len(p)
            BY <1>1, <5>1, PathIs
          <5>3. Last(p) \in Names
            BY <5>2, ElementOfSeq DEF Last
          <5> QED  BY <5>1, <5>3 DEF Touched, Relative, Single
        <4> QED  BY <3>3, <4>1, <4>2 DEF Touched
      <3>4. ASSUME NEW rel \in Relative, rel \in Touched', m_usingKeys'[rel] # Nobody
            PROVE  \E i \in Calls' : stack'[i].subKey = m_usingKeys'[rel]
        <4>1. rel # node /\ m_usingKeys'[rel] = m_usingKeys[rel]
          BY <2>4, <3>4
        <4>2. PICK i \in Calls : stack[i].subKey = m_usingKeys[rel]
          BY <3>1, <3>3, <3>4, <4>1
        <4>3. m_usingKeys[rel] # s
          BY <1>2, <2>1, <2>3, <4>1 DEF Owned
        <4>4. i # n
          BY <4>2, <4>3 DEF s
        <4>5. i \in Calls'
          BY <1>1, <2>2, <4>2, <4>4 DEF Calls
        <4> QED  BY <2>2, <4>1, <4>2, <4>5
      <3> QED  BY <2>4, <3>1, <3>2, <3>3, <3>4
    <2>15. Owned' /\ Named' /\ Rooted'
      BY <1>3, <1>4
    <2> QED  BY <2>6, <2>7, <2>8, <2>9, <2>10, <2>12, <2>13, <2>14, <2>15 DEF IInv
  <1> QED  BY <1>6, <1>7

\* A key of a call has the last name of Target: that name repeats on the way down.
LEMMA RepeatsIs ==
  ASSUME IInv, ~wild, stack # <<>>, Target \in registry, Top.this \in objects,
         \A i \in Calls : stack[i].this \in objects, NEW i \in Calls,
         m_usingKeys[Top.node] = stack[i].this
  PROVE  Repeats
  <1> DEFINE n == Len(stack)
             old == stack[i].this
             s == m_hSubKey[old]
             path == stack[n].path
  <1>1. /\ n \in Nat /\ n >= 1 /\ n \in Calls /\ 1 \in Calls /\ Top = stack[n]
        /\ Outermost = stack[1].path /\ path \in Seq(Names) /\ Len(path) \in Nat
        /\ before.registry \subseteq Paths /\ registry \subseteq before.registry
    BY TopIs
  <1>2. Types /\ Named /\ Owned /\ Shape /\ Nested
    BY DEF IInv
  <1>3. i \in 1..n /\ 1 \in 1..n /\ stack[n].node \in Relative /\ old \in Keys \cup {HKey}
        /\ stack[i].path \in Seq(Names)
    BY <1>1, <1>2, CallIs DEF Calls
  <1>4. s # Root /\ Last(s) = Last(path)
    <2>1. m_usingKeys[stack[n].node] = old /\ old \in objects
      BY <1>1
    <2>2. old # Nobody
      <3>1. path \in Paths
        BY <1>1, <1>2 DEF Types, Target
      <3>2. 1 \in Keys
        <4>1. MaxDepth \in Nat /\ MaxDepth >= 1 /\ Cardinality(Relative) \in Nat
          BY <1>1, <3>1, PathIs, Constants
        <4> QED  BY <4>1 DEF Keys
      <3>3. Nobody \notin Keys /\ HKey # Nobody
        BY <3>2, Constants
      <3> QED  BY <1>3, <3>3
    <2>3. s # Root /\ Last(s) = Last(Located(stack[n].node))
      BY <1>2, <1>3, <2>1, <2>2 DEF Named
    <2> QED  BY <1>1, <1>2, <2>3 DEF Shape
  <1>5. s \in Seq(Names) /\ Len(s) \in Nat /\ Len(s) >= 1 /\ Len(stack[i].path) \in Nat
    <2>1. s \in Paths
      BY <1>2, <1>3, <1>4 DEF Types
    <2> QED  BY <1>3, <2>1, PathIs, LenProperties
  <1>6. /\ Begins(s, stack[i].path) /\ Len(s) < Len(stack[i].path)
        /\ Begins(stack[i].path, path) /\ Begins(stack[1].path, path)
    BY <1>1, <1>2, <1>3 DEF Nested
  <1>7. Begins(s, path) /\ Len(s) < Len(path)
    <2>1. Len(stack[i].path) <= Len(path)
      BY <1>1, <1>3, <1>6, BeginsIs
    <2>2. Len(s) < Len(path)
      BY <1>1, <1>5, <1>6, <2>1
    <2> QED  BY <1>1, <1>3, <1>5, <1>6, <2>2, BeginsIs
  <1>8. path \in Tree
    BY <1>1, <1>6 DEF Tree, Target
  <1> HIDE DEF s, path
  <1>9. path[Len(s)] = path[Len(path)]
    <2>1. Len(s) \in 1..Len(s)
      BY <1>5
    <2>2. s[Len(s)] = path[Len(s)]
      BY <1>7, <2>1 DEF Begins
    <2> QED  BY <1>4, <2>2 DEF Last
  <1>10. Len(s) \in 1..Len(path) /\ Len(path) \in 1..Len(path)
    BY <1>1, <1>5, <1>7
  <1> QED  BY <1>7, <1>8, <1>9, <1>10 DEF Repeats

\* There is a number for the key that TreeOpen opens.
LEMMA OpenedIs ==
  ASSUME IInv, ~wild, stack # <<>>, Top.at = "open", Top.this \in objects, Target \in registry,
         AddUsingRegistryKey(Top.node, Target)
  PROVE  LET old == m_usingKeys[Top.node]
         IN  /\ NewKey \in Keys /\ NewKey \notin objects /\ NewKey \notin InCalls
             /\ MapTypes' /\ Owned' /\ Named'
             /\ m_usingKeys'[Top.node] = NewKey
             /\ \A r \in Relative \ {Top.node} : m_usingKeys'[r] = m_usingKeys[r]
             /\ NewKey \in objects' /\ m_hSubKey'[NewKey] = Target
             /\ \A k : k # NewKey => (k \in objects' <=> k \in objects /\ k # old)
             /\ \A k \in objects : k # old => m_hSubKey'[k] = m_hSubKey[k]
  <1> DEFINE n == Len(stack)
             path == stack[n].path
             node == stack[n].node
  <1>1. /\ n \in Nat /\ n >= 1 /\ n \in Calls /\ 1 \in Calls /\ Top = stack[n]
        /\ Len(path) \in Nat /\ stack[1].path \in Seq(Names)
    BY TopIs
  <1>2. Types /\ Named /\ Owned /\ Shape /\ Nested
    BY DEF IInv
  <1>3. path \in Paths /\ Target = path
    BY <1>1, <1>2 DEF Types, Target
  <1>4. Len(path) <= MaxDepth /\ MaxDepth \in Nat
    BY <1>3, PathIs, Constants
  <1>5. n <= MaxDepth /\ MaxDepth >= 1
    <2>1. 1 \in 1..n
      BY <1>1
    <2>2. Len(stack[1].path) + (n - 1) <= Len(path)
      BY <1>1, <1>2, <2>1 DEF Nested
    <2>3. stack[1].path # Root
      BY <1>1, <1>2 DEF Shape
    <2>4. Len(stack[1].path) \in Nat /\ Len(stack[1].path) >= 1
      BY <1>1, <2>3, EmptySeq, LenProperties DEF Root
    <2> QED  BY <1>1, <1>4, <2>2, <2>4
  <1>6. Top.subKey = Nobody
    BY <1>1, <1>2 DEF Shape
  <1>7. NewKey \in Keys /\ NewKey \notin objects /\ NewKey \notin InCalls
    BY <1>2, <1>5, <1>6, NewKeyIs
  <1>8. node \in Relative /\ Last(path) = Last(Located(node))
    BY <1>1, <1>2, CallIs DEF Shape
  <1>9. AddUsingRegistryKey(node, path)
    BY <1>1, <1>3
  <1> HIDE DEF node, path
  <1>10. /\ MapTypes' /\ Owned' /\ Named'
         /\ m_usingKeys'[node] = NewKey
         /\ \A r \in Relative \ {node} : m_usingKeys'[r] = m_usingKeys[r]
         /\ NewKey \in objects' /\ m_hSubKey'[NewKey] = path
         /\ \A k : k # NewKey => (k \in objects' <=> k \in objects /\ k # m_usingKeys[node])
         /\ \A k \in objects : k # m_usingKeys[node] => m_hSubKey'[k] = m_hSubKey[k]
    BY <1>2, <1>3, <1>7, <1>8, <1>9, AddIs
  <1>11. Top.node = node
    BY <1>1 DEF node
  <1> QED  BY <1>3, <1>7, <1>10, <1>11

LEMMA TreeOpenIInv ==
  ASSUME IInv, TreeOpen
  PROVE  IInv'
  <1> DEFINE n == Len(stack)
             path == stack[n].path
             node == stack[n].node
             new == NewKey
             old == m_usingKeys[node]
             names == {<<Last(p)>> : p \in Children(path)}
             f == [stack[n] EXCEPT !.at = "loop", !.subKey = new, !.names = names]
  <1>0. /\ wild = FALSE /\ stack # <<>> /\ Top.at = "open" /\ Top.this \in objects
        /\ UNCHANGED <<registry, wild>>
        /\ before' = IF stack' = <<>> THEN Here' ELSE before
    BY DEF TreeOpen, In, Settle, IInv, Types
  <1>1. /\ n \in Nat /\ n >= 1 /\ n \in Calls /\ 1 \in Calls /\ Top = stack[n]
        /\ stack[n] \in Frames /\ stack \in Seq(Frames)
        /\ Outermost = stack[1].path /\ path \in Seq(Names)
        /\ before.registry \subseteq Paths /\ registry \subseteq before.registry
        /\ before.registry \ registry \subseteq Tree
        /\ n > 1 => node \in Single
        /\ node \in Single => <<Last(path)>> = node
    BY <1>0, TopIs
  <1>2. /\ Types /\ Rooted /\ Owned /\ Named /\ Shape /\ Distinct /\ Held /\ Nested
        /\ Shrinks /\ Dangles /\ Entries /\ registry \subseteq Paths
    BY DEF IInv, Types
  <1>3. Rooted' /\ registry' \subseteq Paths
    BY <1>0, <1>2 DEF Rooted
  <1>4. IF path \in registry
        THEN AddUsingRegistryKey(node, path) /\ stack' = Replace(f)
        ELSE stack' = <<>> /\ UNCHANGED keyVars
    BY <1>1 DEF TreeOpen, Target
  <1>5. CASE path \notin registry
    <2>1. MapTypes' /\ Owned' /\ Named' /\ stack' = <<>>
      <3>1. MapTypes
        BY <1>2, MapTypesIs
      <3> QED  BY <1>2, <1>4, <1>5, <3>1 DEF keyVars, MapTypes, Owned, Named
    <2> QED  BY <1>0, <1>3, <2>1, NoCalls
  <1>6. CASE path \in registry
    <2>0. Target = path /\ Top.node = node
      BY <1>1 DEF Target
    <2>1. /\ new \in Keys /\ new \notin objects /\ new \notin InCalls
          /\ MapTypes' /\ Owned' /\ Named'
          /\ m_usingKeys'[node] = new
          /\ \A r \in Relative \ {node} : m_usingKeys'[r] = m_usingKeys[r]
          /\ new \in objects' /\ m_hSubKey'[new] = path
          /\ \A k : k # new => (k \in objects' <=> k \in objects /\ k # old)
          /\ \A k \in objects : k # old => m_hSubKey'[k] = m_hSubKey[k]
      <3> HIDE DEF path, node
      <3>1. AddUsingRegistryKey(Top.node, Target)
        BY <1>4, <1>6, <2>0
      <3> QED  BY <1>0, <1>6, <2>0, <3>1, OpenedIs
    <2>2. stack' = Replace(f) /\ node \in Relative /\ new # Nobody
      BY <1>1, <1>2, <1>4, <1>6, <2>1, CallIs, Constants
    <2>3. names \subseteq Single
      <3> SUFFICES ASSUME NEW p \in Children(path) PROVE <<Last(p)>> \in Single
        OBVIOUS
      <3>1. p \in registry
        BY DEF Children, Under
      <3>2. p \in Seq(Names) /\ Len(p) \in 1..Len(p)
        BY <1>2, <3>1, PathIs
      <3>3. Last(p) \in Names
        BY <3>2, ElementOfSeq DEF Last
      <3> QED  BY <3>3 DEF Single
    <2> HIDE DEF names, new, old
    <2>4. /\ f \in Frames /\ f.at = "loop" /\ f.this = stack[n].this /\ f.node = node
          /\ f.path = path /\ f.subKey = new
      BY <1>1, <2>1, <2>3 DEF Frames
    <2> HIDE DEF f
    <2>5. /\ stack' \in Seq(Frames) /\ stack' # <<>> /\ Len(stack') = n /\ Calls' = Calls
          /\ stack'[n] = f /\ \A i \in Calls : i # n => stack'[i] = stack[i]
      BY <1>0, <1>2, <2>2, <2>4, ReplacedIs
    <2>6. /\ \A i \in Calls : stack'[i].this = stack[i].this
                              /\ stack'[i].node = stack[i].node /\ stack'[i].path = stack[i].path
          /\ \A i \in Calls : i # n => stack'[i].at = stack[i].at
                                       /\ stack'[i].subKey = stack[i].subKey
          /\ stack'[n].at = "loop" /\ stack'[n].subKey = new
          /\ stack[n].at = "open" /\ stack[n].subKey = Nobody
      BY <1>0, <1>1, <1>2, <2>4, <2>5 DEF Shape
    <2>7. before' = before
      BY <1>0, <2>5
    <2>8. \A i \in Calls : stack[i].this # new /\ stack[i].subKey # new
      BY <2>1 DEF InCalls, Calls
    <2>9. Types'
      BY <1>0, <1>1, <1>2, <1>3, <2>1, <2>5, <2>7 DEF Types, MapTypes
    <2>10. Shape'
      <3>1. \A i \in Calls : i > 1 => i - 1 \in Calls /\ i - 1 # n
        BY <1>1 DEF Calls
      <3>2. \A i \in Calls : i < n => i # n
        BY <1>1
      <3> QED  BY <1>2, <2>2, <2>5, <2>6, <3>1, <3>2 DEF Shape
    <2>11. Distinct'
      BY <1>1, <1>2, <2>5, <2>6, <2>8 DEF Distinct
    <2>12. Held'
      <3> SUFFICES ASSUME NEW i \in Calls, stack'[i].subKey # Nobody, stack'[i].subKey \in objects'
                   PROVE  /\ m_usingKeys'[stack'[i].node] = stack'[i].subKey
                          /\ m_hSubKey'[stack'[i].subKey] = stack'[i].path
        BY <2>5 DEF Held
      <3>1. CASE i = n
        BY <2>1, <2>4, <2>5, <3>1
      <3>2. CASE i # n
        <4>1. /\ stack'[i] = stack[i] /\ stack[i].subKey \in objects
              /\ stack[i].subKey # Nobody /\ stack[i].subKey # old
          BY <2>1, <2>5, <2>8, <3>2
        <4>2. /\ m_usingKeys[stack[i].node] = stack[i].subKey
              /\ m_hSubKey[stack[i].subKey] = stack[i].path
          BY <1>2, <4>1 DEF Held
        <4>3. stack[i].node \in Relative \ {node}
          BY <1>2, <4>1, <4>2, CallIs DEF old
        <4> QED  BY <2>1, <4>1, <4>2, <4>3
      <3> QED  BY <3>1, <3>2
    <2>13. Nested'
      <3>1. ASSUME NEW j \in Calls, NEW i \in 1..j PROVE i \in Calls
        BY <1>1, <3>1 DEF Calls
      <3>2. ASSUME NEW j \in Calls, stack[j].this \in objects'
            PROVE  stack[j].this \in objects /\ m_hSubKey'[stack[j].this] = m_hSubKey[stack[j].this]
        BY <2>1, <2>8, <3>2
      <3>3. \A j \in Calls :
               stack'[j].at # "open" => stack[j].at # "open" \/ stack[j].this \in objects
        BY <1>0, <1>1, <2>6
      <3>4. ASSUME NEW j \in Calls
            PROVE  /\ stack'[j].at # "open" \/ stack'[j].this \in objects' =>
                         \A i \in 1..j : /\ Begins(stack'[i].path, stack'[j].path)
                                         /\ Len(stack'[i].path) + (j - i) <= Len(stack'[j].path)
                   /\ stack'[j].this \in objects' =>
                         /\ Begins(m_hSubKey'[stack'[j].this], stack'[j].path)
                         /\ Len(m_hSubKey'[stack'[j].this]) < Len(stack'[j].path)
        BY <1>2, <2>6, <3>1, <3>2, <3>3 DEF Nested
      <3>5. ASSUME NEW j \in Calls
            PROVE  /\ stack'[j].at # "open" => stack'[j].path \in before'.registry
                   /\ stack'[j].at = "close" => stack'[j].path \notin registry'
        <4>1. CASE j = n
          BY <1>1, <1>6, <2>4, <2>5, <2>7, <4>1
        <4>2. CASE j # n
          BY <1>0, <1>2, <2>5, <2>7, <4>2 DEF Nested
        <4> QED  BY <4>1, <4>2
      <3> QED  BY <2>5, <3>4, <3>5 DEF Nested
    <2>14. Outermost' = Outermost /\ Tree' = Tree
      BY <1>1, <2>6, <2>7 DEF Outermost, Tree
    <2>15. Shrinks'
      BY <1>0, <1>1, <2>5, <2>7, <2>14 DEF Shrinks
    <2>16. Dangles'
      <3> SUFFICES ASSUME Dangling' PROVE Repeats
        BY <1>0, <2>14 DEF Dangles, Repeats
      <3>1. CASE Dangling
        BY <1>2, <3>1 DEF Dangles
      <3>2. CASE ~Dangling
        <4>1. \A i \in Calls : stack[i].this \in objects
                               /\ (stack[i].subKey # Nobody => stack[i].subKey \in objects)
          BY <3>2 DEF Dangling
        <4>2. PICK i \in Calls : \/ stack'[i].this \notin objects'
                                 \/ stack'[i].subKey # Nobody /\ stack'[i].subKey \notin objects'
          BY <2>5 DEF Dangling
        <4>3. \E j \in Calls : stack[j].this = old
          <5>1. CASE stack[i].this \notin objects'
            BY <2>1, <2>8, <4>1, <5>1
          <5>2. CASE stack[i].this \in objects'
            <6>1. stack'[i].subKey # Nobody /\ stack'[i].subKey \notin objects'
              BY <2>6, <4>2, <5>2
            <6>2. i # n
              BY <2>1, <2>6, <6>1
            <6>3. stack[i].subKey = old
              BY <2>1, <2>6, <2>8, <4>1, <6>1, <6>2
            <6>4. i + 1 \in Calls /\ i + 1 > 1 /\ (i + 1) - 1 = i
              BY <1>1, <6>2 DEF Calls
            <6>5. stack[i + 1].this = stack[i].subKey
              BY <1>2, <6>4 DEF Shape
            <6> QED  BY <6>3, <6>4, <6>5
          <5> QED  BY <5>1, <5>2
        <4>4. PICK j \in Calls : stack[j].this = old
          BY <4>3
        <4>5. m_usingKeys[Top.node] = stack[j].this
          BY <2>0, <4>4 DEF old
        <4>6. Target \in registry /\ ~wild /\ \A l \in Calls : stack[l].this \in objects
          BY <1>0, <1>6, <2>0, <4>1
        <4> HIDE DEF path, node
        <4> QED  BY <1>0, <4>5, <4>6, RepeatsIs
      <3> QED  BY <3>1, <3>2
    <2>17. Entries'
      <3> SUFFICES ASSUME stack[1].node \in Single
                   PROVE  /\ \A rel \in Relative : rel \notin {<<Last(p)>> : p \in Tree} =>
                               m_usingKeys'[rel] = before.map[rel]
                          /\ \A rel \in Touched' : m_usingKeys'[rel] # Nobody =>
                               \E i \in Calls : stack'[i].subKey = m_usingKeys'[rel]
        BY <1>1, <2>5, <2>6, <2>7, <2>14 DEF Entries
      <3>1. /\ \A rel \in Relative : rel \notin {<<Last(p)>> : p \in Tree} =>
                 m_usingKeys[rel] = before.map[rel]
            /\ \A rel \in Touched : m_usingKeys[rel] # Nobody =>
                 \E i \in Calls : stack[i].subKey = m_usingKeys[rel]
        BY <1>0, <1>2 DEF Entries
      <3>2. node \in {<<Last(p)>> : p \in Tree}
        <4>1. node \in Single
          <5>1. n \in Nat /\ n >= 1 /\ (n > 1 => node \in Single) /\ (n = 1 => node \in Single)
            BY <1>1
          <5> HIDE DEF n, node
          <5> QED  BY <5>1
        <4>2. path \in Tree
          <5>1. 1 \in 1..n
            BY <1>1
          <5>2. Begins(stack[1].path, path)
            BY <1>0, <1>1, <1>2, <5>1 DEF Nested
          <5> QED  BY <1>1, <1>6, <5>2 DEF Tree
        <4> QED  BY <1>1, <4>1, <4>2
      <3>3. ASSUME NEW rel \in Touched', rel # node PROVE rel \in Touched /\ rel \in Relative
        <4>1. CASE rel \in {stack'[i].node : i \in {j \in Calls' : stack'[j].at # "open"}}
          <5>1. PICK i \in Calls : stack'[i].at # "open" /\ rel = stack'[i].node
            BY <2>5, <4>1
          <5>2. i # n /\ stack'[i] = stack[i]
            BY <2>4, <2>5, <3>3, <5>1
          <5> QED  BY <1>2, <5>1, <5>2, CallIs DEF Touched
        <4>2. CASE rel \in {<<Last(p)>> : p \in before'.registry \ registry'}
          <5>1. PICK p \in before.registry \ registry : rel = <<Last(p)>>
            BY <1>0, <2>7, <4>2
          <5>2. p \in Seq(Names) /\ Len(p) \in 1..Len(p)
            BY <1>1, <5>1, PathIs
          <5>3. Last(p) \in Names
            BY <5>2, ElementOfSeq DEF Last
          <5> QED  BY <5>1, <5>3 DEF Touched, Relative, Single
        <4> QED  BY <3>3, <4>1, <4>2 DEF Touched
      <3>4. ASSUME NEW rel \in Touched', m_usingKeys'[rel] # Nobody
            PROVE  \E i \in Calls : stack'[i].subKey = m_usingKeys'[rel]
        <4>1. CASE rel = node
          BY <1>1, <2>1, <2>6, <4>1
        <4>2. CASE rel # node
          <5>1. m_usingKeys'[rel] = m_usingKeys[rel] /\ rel \in Touched
            BY <2>1, <3>3, <4>2
          <5>2. PICK i \in Calls : stack[i].subKey = m_usingKeys[rel]
            BY <3>1, <3>4, <5>1
          <5>3. i # n
            BY <2>6, <3>4, <5>1, <5>2
          <5> QED  BY <2>6, <5>1, <5>2, <5>3
        <4> QED  BY <4>1, <4>2
      <3> HIDE DEF node
      <3> QED  BY <2>1, <3>1, <3>2, <3>4
    <2> QED  BY <1>3, <2>1, <2>9, <2>10, <2>11, <2>12, <2>13, <2>15, <2>16, <2>17 DEF IInv
  <1> QED  BY <1>5, <1>6

\* The invariant says nothing of wild but its type.
LEMMA WildIInv ==
  ASSUME IInv, TreeDangles \/ NameDangles
  PROVE  IInv'
  <1>0. wild' = TRUE /\ UNCHANGED <<registry, m_usingKeys, m_hSubKey, m_name, objects, stack, before>>
    BY DEF TreeDangles, NameDangles, keyVars
  <1>1. Types' /\ Rooted' /\ Owned' /\ Named'
    BY <1>0 DEF IInv, Types, Rooted, Owned, Named
  <1>2. Shape' /\ Distinct' /\ Held' /\ Nested'
    BY <1>0 DEF IInv, Shape, Distinct, Held, Nested, Calls
  <1>3. Shrinks' /\ Entries'
    BY <1>0 DEF IInv, Shrinks, Tree, Outermost, Here, Entries, Touched, Calls
  <1>4. Dangles'
    BY <1>0 DEF IInv, Dangles, Dangling, Repeats, Tree, Outermost, Calls
  <1> QED  BY <1>1, <1>2, <1>3, <1>4 DEF IInv

LEMMA StepIInv ==
  ASSUME IInv, [Next]_vars
  PROVE  IInv'
  <1>1. CASE Next
    BY <1>1, CreateSubKeyIInv, OpenSubKeyIInv, DeleteSubKeyIInv, DeleteSubKeyTreeIInv, CloseIInv,
       TreeOpenIInv, TreeDescendIInv, TreeDeleteIInv, TreeCloseIInv, WildIInv DEF Next
  <1>2. CASE UNCHANGED vars
    <2>0. UNCHANGED <<registry, m_usingKeys, m_hSubKey, m_name, objects, stack, before, wild>>
      BY <1>2 DEF vars, keyVars
    <2>1. Types' /\ Rooted' /\ Owned' /\ Named'
      BY <2>0 DEF IInv, Types, Rooted, Owned, Named
    <2>2. Shape' /\ Distinct' /\ Held' /\ Nested'
      BY <2>0 DEF IInv, Shape, Distinct, Held, Nested, Calls
    <2>3. Shrinks' /\ Entries'
      BY <2>0 DEF IInv, Shrinks, Tree, Outermost, Here, Entries, Touched, Calls
    <2>4. Dangles'
      BY <2>0 DEF IInv, Dangles, Dangling, Repeats, Tree, Outermost, Calls
    <2> QED  BY <2>1, <2>2, <2>3, <2>4 DEF IInv
  <1> QED  BY <1>1, <1>2
-----------------------------------------------------------------------------
\* The state of Registry.cpp in which every step leaves it, whatever the program calls.
THEOREM InductiveInvariant == Spec => []IInv
  BY InitIInv, StepIInv, PTL DEF Spec

\* The map owns every RegistryKey that is not deleted, by one entry, and no deleted one.
THEOREM OwnsAll == Spec => []MapOwnsAll
  <1>1. ASSUME IInv PROVE MapOwnsAll
    <2>1. Types /\ Owned
      BY <1>1 DEF IInv
    <2>2. TypeOK
      <3>1. ASSUME NEW i \in 1..Len(stack)
            PROVE  /\ stack[i].at \in {"open", "loop", "close"}
                   /\ stack[i].this \in Keys \cup {HKey} /\ stack[i].node \in Relative
        BY <2>1, CallIs DEF Calls
      <3> QED  BY <2>1, <3>1 DEF Types, TypeOK
    <2>3. {m_usingKeys[rel] : rel \in Relative} \ {Nobody} = objects \ {HKey}
      <3>1. ASSUME NEW k \in objects \ {HKey}
            PROVE  k \in {m_usingKeys[rel] : rel \in Relative} \ {Nobody}
        <4>1. k # Nobody
          BY <2>1, Constants DEF Types
        <4>2. PICK rel \in Relative : m_usingKeys[rel] = k
          BY <2>1 DEF Owned
        <4> QED  BY <4>1, <4>2
      <3>2. ASSUME NEW rel \in Relative, m_usingKeys[rel] # Nobody
            PROVE  m_usingKeys[rel] \in objects \ {HKey}
        BY <2>1, <3>2, EntryIs
      <3> QED  BY <3>1, <3>2
    <2> QED  BY <2>1, <2>2, <2>3 DEF MapOwnsAll, Owned
  <1> QED  BY <1>1, InductiveInvariant, PTL

\* DeleteSubKeyTree takes away only its own tree, and no key before its subkeys.
THEOREM TakesOnlyTheTree == Spec => []OnlyTheTree
  <1>1. ASSUME IInv PROVE OnlyTheTree
    <2> SUFFICES ASSUME stack # <<>>, ~wild
                 PROVE  /\ registry \subseteq before.registry
                        /\ \A p \in before.registry \ registry : IsPrefix(Outermost, p)
                        /\ \A p \in registry : Prefixes(p) \ {Root} \subseteq registry
      BY DEF OnlyTheTree
    <2>1. /\ Outermost \in Seq(Names) /\ before.registry \subseteq Paths
          /\ registry \subseteq before.registry /\ before.registry \ registry \subseteq Tree
      BY <1>1, TopIs
    <2>2. ASSUME NEW p \in before.registry \ registry PROVE IsPrefix(Outermost, p)
      BY <2>1, PathIs, PrefixIs DEF Tree
    <2>3. ASSUME NEW p \in registry PROVE Prefixes(p) \ {Root} \subseteq registry
      BY <1>1, <2>1, PrefixesAre DEF IInv, Rooted
    <2> QED  BY <2>1, <2>2, <2>3
  <1> QED  BY <1>1, InductiveInvariant, PTL

\* DeleteSubKeyTree comes back to a deleted key only where a name repeats; and its own
\* close reads the name of the key that it has just deleted for every node that is a
\* single name, and for no other (Registry.cpp 107-109, 246-259).
THEOREM CloseReadsAFreedName == Spec => []DanglesByName
  <1>1. ASSUME IInv, Stale
        PROVE  \E p \in before.registry : IsPrefix(Outermost, p) /\ ~IsInjective(p)
    <2>1. Types /\ Shape /\ stack # <<>>
      BY <1>1 DEF IInv, Stale
    <2>2. Len(stack) \in Calls /\ 1 \in Calls /\ Top = stack[Len(stack)]
      BY <2>1, TypesOfCalls
    <2>3. Dangling
      BY <1>1, <2>1, <2>2 DEF Dangling, Shape, Stale
    <2>4. PICK p \in Tree : \E a, b \in 1..Len(p) : a < b /\ p[a] = p[b]
      BY <1>1, <2>3 DEF IInv, Dangles, Repeats
    <2>5. p \in before.registry /\ p \in Paths /\ p \in Seq(Names) /\ Begins(Outermost, p)
      BY <2>1, <2>4, PathIs DEF Tree, Types
    <2>6. Outermost \in Seq(Names)
      BY <2>1, <2>2, CallIs DEF Outermost
    <2>7. IsPrefix(Outermost, p)
      BY <2>5, <2>6, PrefixIs
    <2>8. ~IsInjective(p)
      <3>1. PICK a \in 1..Len(p), b \in 1..Len(p) : a < b /\ p[a] = p[b]
        BY <2>4
      <3>2. Len(p) \in Nat /\ DOMAIN p = 1..Len(p) /\ a # b
        BY <2>5, <3>1, LenProperties
      <3> QED  BY <3>1, <3>2 DEF IsInjective
    <2> QED  BY <2>5, <2>7, <2>8
  <1>2. ASSUME IInv, In("close"), Top.subKey \in objects
        PROVE  FreesOwnName(Top.subKey) <=> Top.node \in Single
    <2> DEFINE n == Len(stack)
               s == stack[n].subKey
               node == stack[n].node
    <2>0. ~wild /\ stack # <<>> /\ Top.at = "close"
      BY <1>2 DEF In
    <2>1. n \in Calls /\ Top = stack[n] /\ stack[n] \in Frames
      BY <1>2, <2>0, TypesOfCalls DEF IInv
    <2>2. s # Nobody /\ s # HKey /\ node \in Relative
      <3>1. s # Nobody
        BY <1>2, <2>0, <2>1 DEF IInv, Shape
      <3>2. s \in Keys \cup {Nobody} /\ node \in Relative
        BY <2>1 DEF Frames
      <3> QED  BY <3>1, <3>2, Constants
    <2> DEFINE name == <<Last(Located(node))>>
    <2>3. m_usingKeys[node] = s /\ m_name[s] = name
      BY <1>2, <2>1, <2>2 DEF IInv, Held, Named
    <2>4. name \in Single /\ name \in Relative
      BY <1>2, <2>2, EntryIs, RelativeIs DEF IInv
    <2>5. node \in Single => name = node
      <3>1. Located(node) \in Seq(Names)
        BY <2>2, RelativeIs
      <3> QED  BY <3>1, RelativeIs
    <2>6. FreesOwnName(s) <=> m_usingKeys[name] = s
      BY <1>2, <2>1, <2>2, <2>3 DEF FreesOwnName, Closed, Entry
    <2> HIDE DEF name
    <2>7. m_usingKeys[name] = s => name = node
      BY <1>2, <2>2, <2>3, <2>4 DEF IInv, Owned
    <2> QED  BY <2>1, <2>3, <2>4, <2>5, <2>6, <2>7
  <1>3. IInv => DanglesByName
    BY <1>1, <1>2 DEF DanglesByName
  <1> QED  BY <1>3, InductiveInvariant, PTL

\* When DeleteSubKeyTree returns, its tree is gone, and of the map the entries of the
\* names in the tree.
THEOREM ReturnsWithTheTreeGone == Spec => TreeIsGone
  <1> DEFINE Gone ==
        LET tree == {p \in before.registry : IsPrefix(Outermost, p)}
            used == {<<Last(p)>> : p \in tree}
        IN  /\ registry' = before.registry \ tree
            /\ Top.node \in Single =>
                  \A rel \in Relative :
                     m_usingKeys'[rel] = IF rel \in used THEN Nobody ELSE before.map[rel]
  <1>1. ASSUME IInv, [Next]_vars, Returns PROVE Gone
    <2> DEFINE n == Len(stack)
    <2>0. ~wild /\ stack # <<>> /\ Top.at = "close" /\ stack' = <<>>
      BY <1>1 DEF Returns, In
    <2>1. /\ n \in Nat /\ n >= 1 /\ n \in Calls /\ 1 \in Calls /\ Top = stack[n]
          /\ stack \in Seq(Frames) /\ stack[n] \in Frames
          /\ Outermost = stack[1].path /\ stack[1].path \in Seq(Names)
          /\ before.registry \subseteq Paths /\ registry \subseteq before.registry
          /\ before.registry \ registry \subseteq Tree
          /\ stack[n].path \in Tree
          /\ stack[n].node \in Single => <<Last(stack[n].path)>> = stack[n].node
      BY <1>1, <2>0, TopIs
    <2>2. /\ Types /\ Rooted /\ Owned /\ Named /\ Shape /\ Nested /\ Entries
          /\ registry \subseteq Paths
      BY <1>1 DEF IInv, Types
    <2>3. TreeClose
      <3>1. CASE Next
        <4>1. ~Calm
          BY <2>0 DEF Calm
        <4> QED  BY <2>0, <3>1, <4>1
                 DEF Next, CreateSubKey, OpenSubKey, DeleteSubKey, DeleteSubKeyTree, Close,
                     TreeOpen, TreeDescend, TreeDelete, TreeDangles, NameDangles, In, vars, keyVars
      <3>2. CASE UNCHANGED vars
        BY <2>0, <3>2 DEF vars
      <3> QED  BY <1>1, <3>1, <3>2
    <2>4. /\ Top.subKey \in objects /\ RemoveUsingRegistryKey(m_name[Top.subKey])
          /\ registry' = registry /\ stack' = Front(stack)
      BY <2>3 DEF TreeClose
    <2>5. n = 1
      <3>1. Len(stack') = n - 1 /\ Len(stack') = 0
        BY <2>0, <2>1, <2>4, StackIs, EmptySeq
      <3> QED  BY <2>1, <3>1
    <2> DEFINE tree == {p \in before.registry : IsPrefix(Outermost, p)}
    <2>6. tree = Tree
      BY <2>1, PathIs, PrefixIs DEF Tree
    <2>7. registry' = before.registry \ tree
      <3>1. ASSUME NEW p \in Tree PROVE p \notin registry
        <4>1. stack[1].path \notin registry /\ stack[1].path \in Paths
          BY <2>0, <2>1, <2>2, <2>5 DEF Nested, Tree
        <4>2. Begins(stack[1].path, p)
          BY <2>1 DEF Tree
        <4> QED  BY <2>2, <4>1, <4>2 DEF Rooted
      <3> HIDE DEF tree
      <3> QED  BY <2>1, <2>4, <2>6, <3>1
    <2>8. ASSUME Top.node \in Single, NEW rel \in Relative
          PROVE  m_usingKeys'[rel] = IF rel \in {<<Last(p)>> : p \in Tree} THEN Nobody
                                     ELSE before.map[rel]
      <3> DEFINE node == Top.node
      <3>1. node \in Relative /\ node = stack[1].node
        BY <2>1, <2>2, <2>5, CallIs
      <3>2. node \in Single
        BY <2>8
      <3>3. /\ m_usingKeys[node] = Top.subKey /\ m_usingKeys'[node] = Nobody
            /\ \A r \in Relative \ {node} : m_usingKeys'[r] = m_usingKeys[r]
        BY <1>1, <2>0, <2>4, <3>2, ClosedIs
      <3>4. /\ \A r \in Relative : r \notin {<<Last(p)>> : p \in Tree} =>
                 m_usingKeys[r] = before.map[r]
            /\ \A r \in Touched : m_usingKeys[r] # Nobody =>
                 \E i \in Calls : stack[i].subKey = m_usingKeys[r]
        BY <2>0, <2>2, <3>1, <3>2 DEF Entries
      <3>5. node \in {<<Last(p)>> : p \in Tree}
        BY <2>1, <2>5, <3>1, <3>2
      <3>6. CASE rel \notin {<<Last(p)>> : p \in Tree}
        BY <3>3, <3>4, <3>5, <3>6
      <3>7. CASE rel \in {<<Last(p)>> : p \in Tree}
        <4>1. rel \in Touched
          <5>1. PICK p \in Tree : rel = <<Last(p)>>
            BY <3>7
          <5>2. p \in before.registry \ registry
            <6> HIDE DEF tree
            <6> QED  BY <2>4, <2>6, <2>7 DEF Tree
          <5> QED  BY <5>1, <5>2 DEF Touched
        <4>2. CASE rel = node
          BY <3>3, <3>7, <4>2
        <4>3. CASE rel # node
          <5>1. ASSUME m_usingKeys[rel] # Nobody PROVE FALSE
            <6>1. PICK i \in Calls : stack[i].subKey = m_usingKeys[rel]
              BY <3>4, <4>1, <5>1
            <6>2. i = n
              BY <2>1, <2>5 DEF Calls
            <6>3. m_usingKeys[rel] = m_usingKeys[node]
              BY <2>1, <3>3, <6>1, <6>2
            <6> QED  BY <2>2, <3>1, <4>3, <5>1, <6>3 DEF Owned
          <5> QED  BY <3>3, <3>7, <4>3, <5>1
        <4> QED  BY <4>2, <4>3
      <3> QED  BY <3>6, <3>7
    <2> QED  BY <2>6, <2>7, <2>8
  <1>2. ASSUME IInv, [Next]_vars
        PROVE  [Returns => Gone]_vars
    BY <1>1, <1>2
  <1> QED  BY <1>2, InductiveInvariant, PTL DEF Spec, TreeIsGone
=============================================================================
