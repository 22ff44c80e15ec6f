------------------------------ MODULE TextProofs ------------------------------
(***************************************************************************)
(* Theorems about StringEx and Conversions, for strings, targets, pieces   *)
(* and texts of any length over any characters, and any length of line.    *)
(*                                                                         *)
(* StringEx: what remove, split and replace return is exact, because in    *)
(* the middle of a call the pieces so far and the rest of the string make  *)
(* up what is meant (StringInv).                                           *)
(*                                                                         *)
(* Conversions: a text is decoded to the bytes it was encoded from,        *)
(* because it is, line breaks removed, a row of groups each of which       *)
(* stands for its bytes (ConversionInv), and it stays one when another     *)
(* piece is put behind it; and the decoder reads no further than the text. *)
(*                                                                         *)
(* The recursive functions of the model are reasoned about with the        *)
(* sequences of their values: that there is one (...Exists, ...Is), that   *)
(* two agree, and what it makes of a step.                                 *)
(***************************************************************************)
EXTENDS TextPrograms, SequenceTheorems, WellFoundedInduction, TLAPS
-----------------------------------------------------------------------------
\* The least of a set of numbers.
LEMMA LeastIs ==
  ASSUME NEW S \in SUBSET Nat, S # {}
  PROVE  \E x \in S : \A y \in S : x <= y
  <1> DEFINE R == {ss \in Nat \X Nat : ss[1] < ss[2]}
  <1>1. IsWellFoundedOn(R, Nat)
    BY NatLessThanWellFounded DEF OpToRel
  <1>2. \A x, y \in S : <<y, x>> \in R <=> y < x
    OBVIOUS
  <1> HIDE DEF R
  <1>3. PICK x \in S : \A y \in S : ~(<<y, x>> \in R)
    BY <1>1, WFMin
  <1>4. ASSUME NEW y \in S PROVE x <= y
    <2>1. x \in Nat /\ y \in Nat /\ ~(y < x)
      BY <1>2, <1>3
    <2> QED  BY <2>1
  <1> QED  BY <1>4

\* What holds of a number, and of the one behind each for which it holds, holds up to n.
LEMMA NumbersAre ==
  ASSUME NEW n \in Nat, NEW T, 0 \in T, \A i \in 0..(n - 1) : i \in T => i + 1 \in T
  PROVE  0..n \subseteq T
  <1> DEFINE Missing == {i \in 0..n : i \notin T}
  <1>1. ASSUME Missing # {} PROVE FALSE
    <2>1. Missing \in SUBSET Nat
      OBVIOUS
    <2>2. PICK i \in Missing : \A y \in Missing : i <= y
      BY <1>1, <2>1, LeastIs
    <2>3. i \in 0..n /\ i \notin T /\ i # 0
      BY <2>2
    <2>4. i - 1 \in 0..(n - 1) /\ (i - 1) + 1 = i /\ i - 1 \in 0..n /\ ~(i <= i - 1)
      BY <2>3
    <2>5. i - 1 \in T
      BY <2>2, <2>4
    <2> QED  BY <2>3, <2>4, <2>5
  <1> QED  BY <1>1

\* What holds of no element, and of a sequence with one more, holds of every sequence.
LEMMA SequencesAre ==
  ASSUME NEW S, NEW T, <<>> \in T,
         \A s \in Seq(S), e \in S : s \in T => Append(s, e) \in T
  PROVE  Seq(S) \subseteq T
  <1> SUFFICES ASSUME NEW t \in Seq(S), t \notin T PROVE FALSE
    OBVIOUS
  <1> DEFINE Missing == {n \in Nat : \E s \in Seq(S) : Len(s) = n /\ s \notin T}
  <1>1. Missing \in SUBSET Nat /\ Missing # {}
    OBVIOUS
  <1>2. PICK n \in Missing : \A y \in Missing : n <= y
    BY <1>1, LeastIs
  <1>3. PICK s \in Seq(S) : Len(s) = n /\ s \notin T
    BY <1>2
  <1>4. s # <<>>
    BY <1>3
  <1> DEFINE r == SubSeq(s, 1, Len(s) - 1)
  <1>5. r \in Seq(S) /\ Len(r) = n - 1 /\ s[Len(s)] \in S /\ s = Append(r, s[Len(s)])
    BY <1>3, <1>4
  <1>6. r \notin T
    BY <1>3, <1>5
  <1>7. n - 1 \in Nat /\ ~(n <= n - 1)
    BY <1>3, <1>4
  <1>8. n - 1 \in Missing
    BY <1>5, <1>6, <1>7
  <1> QED  BY <1>2, <1>7, <1>8

LEMMA ConcatOfAppend ==
  ASSUME NEW S, NEW s \in Seq(S), NEW t \in Seq(S), NEW e \in S
  PROVE  s \o Append(t, e) = Append(s \o t, e)
  OBVIOUS

LEMMA ConcatAssociates ==
  ASSUME NEW S, NEW s \in Seq(S), NEW t \in Seq(S), NEW u \in Seq(S)
  PROVE  (s \o t) \o u = s \o (t \o u)
  OBVIOUS

LEMMA ConcatIs ==
  ASSUME NEW S, NEW a \in Seq(S), NEW b \in Seq(S)
  PROVE  /\ a \o b \in Seq(S) /\ Len(a \o b) = Len(a) + Len(b)
         /\ \A i \in 1..Len(a) : (a \o b)[i] = a[i]
         /\ \A i \in 1..Len(b) : (a \o b)[Len(a) + i] = b[i]
  OBVIOUS

LEMMA EmptyIsSequence == \A S : <<>> \in Seq(S)
  OBVIOUS
-----------------------------------------------------------------------------
\* Without: the recursion, by which it goes through a sequence from the front.
Keeping(s, Dropped, kept) ==
    kept = [i \in 0..Len(s) |->
              IF i = 0 THEN <<>>
              ELSE IF s[i] \in Dropped THEN kept[i - 1] ELSE Append(kept[i - 1], s[i])]

LEMMA KeepingOnce ==
  ASSUME NEW S, NEW D, NEW s \in Seq(S), NEW f, NEW g, Keeping(s, D, f), Keeping(s, D, g)
  PROVE  f = g
  <1> DEFINE T == {i \in 0..Len(s) : f[i] = g[i]}
  <1>1. 0 \in T
    BY DEF Keeping
  <1>2. ASSUME NEW i \in 0..(Len(s) - 1), i \in T PROVE i + 1 \in T
    <2>1. i + 1 \in 0..Len(s) /\ i + 1 # 0 /\ (i + 1) - 1 = i
      OBVIOUS
    <2>2. f[i + 1] = IF s[i + 1] \in D THEN f[i] ELSE Append(f[i], s[i + 1])
      BY <2>1 DEF Keeping
    <2>3. g[i + 1] = IF s[i + 1] \in D THEN g[i] ELSE Append(g[i], s[i + 1])
      BY <2>1 DEF Keeping
    <2> QED  BY <1>2, <2>1, <2>2, <2>3
  <1>3. Len(s) \in Nat
    OBVIOUS
  <1> HIDE DEF T
  <1>4. 0..Len(s) \subseteq T
    BY <1>1, <1>2, <1>3, NumbersAre
  <1>5. \A i \in 0..Len(s) : f[i] = g[i]
    BY <1>4 DEF T
  <1>6. /\ f = [i \in 0..Len(s) |-> f[i]]
        /\ g = [i \in 0..Len(s) |-> g[i]]
    BY DEF Keeping
  <1> QED  BY <1>5, <1>6

LEMMA KeepingOfAppend ==
  ASSUME NEW S, NEW D, NEW s \in Seq(S), NEW e \in S, NEW f, Keeping(s, D, f)
  PROVE  LET last == IF e \in D THEN f[Len(s)] ELSE Append(f[Len(s)], e)
         IN  Keeping(Append(s, e), D, [i \in 0..(Len(s) + 1) |-> IF i <= Len(s) THEN f[i] ELSE last])
  <1> DEFINE n == Len(s)
             last == IF e \in D THEN f[n] ELSE Append(f[n], e)
             g == [i \in 0..(n + 1) |-> IF i <= n THEN f[i] ELSE last]
             more == Append(s, e)
             body(i) == IF i = 0 THEN <<>>
                        ELSE IF more[i] \in D THEN g[i - 1] ELSE Append(g[i - 1], more[i])
  <1>1. n \in Nat /\ Len(more) = n + 1 /\ more[n + 1] = e /\ \A i \in 1..n : more[i] = s[i]
    OBVIOUS
  <1>2. \A i \in 0..(n + 1) : g[i] = IF i <= n THEN f[i] ELSE last
    OBVIOUS
  <1> HIDE DEF g, last, more, n
  <1>3. ASSUME NEW i \in 0..(n + 1) PROVE g[i] = body(i)
    <2>1. CASE i = n + 1
      <3>1. i # 0 /\ ~(i <= n) /\ i - 1 = n /\ i - 1 \in 0..(n + 1) /\ i - 1 <= n
        BY <1>1, <2>1
      <3>2. g[i] = last /\ g[i - 1] = f[n]
        BY <1>2, <3>1
      <3> QED  BY <1>1, <2>1, <3>1, <3>2 DEF last
    <2>2. CASE i # n + 1
      <3>1. i \in 0..n /\ i <= n
        BY <1>1, <2>2
      <3>2. f[i] = IF i = 0 THEN <<>>
                   ELSE IF s[i] \in D THEN f[i - 1] ELSE Append(f[i - 1], s[i])
        BY <3>1 DEF Keeping, n
      <3>3. CASE i = 0
        BY <1>2, <3>1, <3>2, <3>3
      <3>4. CASE i # 0
        <4>1. i - 1 \in 0..(n + 1) /\ i - 1 <= n /\ i \in 1..n
          BY <1>1, <3>1, <3>4
        <4>2. g[i - 1] = f[i - 1] /\ more[i] = s[i] /\ g[i] = f[i]
          BY <1>1, <1>2, <3>1, <4>1
        <4> QED  BY <3>2, <3>4, <4>2
      <3> QED  BY <3>3, <3>4
    <2> QED  BY <2>1, <2>2
  <1>4. g = [i \in 0..(n + 1) |-> body(i)]
    <2>1. g = [i \in 0..(n + 1) |-> g[i]]
      BY DEF g
    <2> HIDE DEF body
    <2> QED  BY <1>3, <2>1
  <1>5. Keeping(more, D, g)
    BY <1>1, <1>4 DEF Keeping
  <1> QED  BY <1>5 DEF more, g, last, n

LEMMA KeepingExists ==
  ASSUME NEW S, NEW D, NEW s \in Seq(S)
  PROVE  \E f : Keeping(s, D, f)
  <1> DEFINE T == {t \in Seq(S) : \E f : Keeping(t, D, f)}
  <1>1. <<>> \in T
    <2>1. Keeping(<<>>, D, [i \in 0..0 |-> <<>>])
      BY DEF Keeping
    <2> QED  BY <2>1
  <1>2. ASSUME NEW t \in Seq(S), NEW e \in S, t \in T PROVE Append(t, e) \in T
    <2>1. PICK f : Keeping(t, D, f)
      BY <1>2
    <2>2. \E g : Keeping(Append(t, e), D, g)
      BY <2>1, KeepingOfAppend
    <2> QED  BY <2>2
  <1> HIDE DEF T
  <1>3. s \in T
    BY <1>1, <1>2, SequencesAre
  <1> QED  BY <1>3 DEF T

LEMMA WithoutIs ==
  ASSUME NEW S, NEW D, NEW s \in Seq(S), NEW f, Keeping(s, D, f)
  PROVE  Without(s, D) = f[Len(s)]
  <1> DEFINE kept == CHOOSE g : Keeping(s, D, g)
  <1>1. Without(s, D) = kept[Len(s)]
    BY Zenon DEF Without, Keeping
  <1>2. Keeping(s, D, kept)
    OBVIOUS
  <1> HIDE DEF kept
  <1>3. kept = f
    BY <1>2, KeepingOnce
  <1> QED  BY <1>1, <1>3

LEMMA WithoutOfEmpty == \A D : Without(<<>>, D) = <<>>
  <1> TAKE D
  <1>1. <<>> \in Seq({}) /\ Len(<<>>) = 0
    OBVIOUS
  <1>2. Keeping(<<>>, D, [i \in 0..0 |-> <<>>])
    BY DEF Keeping
  <1>3. Without(<<>>, D) = [i \in 0..0 |-> <<>>][0]
    BY <1>1, <1>2, WithoutIs
  <1> QED  BY <1>3

LEMMA WithoutOfAppend ==
  ASSUME NEW S, NEW D, NEW s \in Seq(S), NEW e \in S
  PROVE  Without(Append(s, e), D) = IF e \in D THEN Without(s, D) ELSE Append(Without(s, D), e)
  <1>1. PICK f : Keeping(s, D, f)
    BY KeepingExists
  <1> DEFINE n == Len(s)
             last == IF e \in D THEN f[n] ELSE Append(f[n], e)
             g == [i \in 0..(n + 1) |-> IF i <= n THEN f[i] ELSE last]
  <1>2. Keeping(Append(s, e), D, g)
    BY <1>1, KeepingOfAppend
  <1>3. Append(s, e) \in Seq(S) /\ Len(Append(s, e)) = n + 1 /\ n \in Nat
    OBVIOUS
  <1>4. n + 1 \in 0..(n + 1) /\ ~(n + 1 <= n)
    BY <1>3
  <1>5. g[n + 1] = last
    BY <1>4
  <1> HIDE DEF g, last
  <1>6. Without(Append(s, e), D) = g[n + 1] /\ Without(s, D) = f[n]
    BY <1>1, <1>2, <1>3, WithoutIs
  <1> QED  BY <1>5, <1>6 DEF last

LEMMA WithoutType ==
  ASSUME NEW S, NEW D, NEW s \in Seq(S)
  PROVE  Without(s, D) \in Seq(S \ D) /\ Without(s, D) \in Seq(S)
  <1> DEFINE T == {t \in Seq(S) : Without(t, D) \in Seq(S \ D)}
  <1>1. <<>> \in T
    <2>1. <<>> \in Seq(S) /\ <<>> \in Seq(S \ D)
      BY EmptyIsSequence
    <2> QED  BY <2>1, WithoutOfEmpty
  <1>2. ASSUME NEW t \in Seq(S), NEW e \in S, t \in T PROVE Append(t, e) \in T
    <2>1. Without(Append(t, e), D) = IF e \in D THEN Without(t, D) ELSE Append(Without(t, D), e)
      BY WithoutOfAppend
    <2>2. CASE e \in D
      BY <1>2, <2>1, <2>2
    <2>3. CASE e \notin D
      <3>1. e \in S \ D /\ Without(t, D) \in Seq(S \ D)
        BY <1>2, <2>3
      <3>2. Append(Without(t, D), e) \in Seq(S \ D)
        BY <3>1
      <3> QED  BY <2>1, <2>3, <3>2, SMTT(60)
    <2> QED  BY <2>2, <2>3
  <1> HIDE DEF T
  <1>3. s \in T
    BY <1>1, <1>2, SequencesAre
  <1>4. Without(s, D) \in Seq(S \ D)
    BY <1>3 DEF T
  <1>5. Seq(S \ D) \subseteq Seq(S)
    OBVIOUS
  <1> QED  BY <1>4, <1>5

LEMMA WithoutOfConcat ==
  ASSUME NEW S, NEW D, NEW s \in Seq(S), NEW u \in Seq(S)
  PROVE  Without(s \o u, D) = Without(s, D) \o Without(u, D)
  <1> DEFINE T == {t \in Seq(S) : Without(s \o t, D) = Without(s, D) \o Without(t, D)}
  <1>0. Without(s, D) \in Seq(S)
    BY WithoutType
  <1>1. <<>> \in T
    <2>1. s \o <<>> = s /\ Without(s, D) \o <<>> = Without(s, D) /\ <<>> \in Seq(S)
      BY <1>0
    <2>2. Without(s \o <<>>, D) = Without(s, D) \o Without(<<>>, D)
      BY <2>1, WithoutOfEmpty
    <2> QED  BY <2>1, <2>2
  <1>2. ASSUME NEW t \in Seq(S), NEW e \in S, t \in T PROVE Append(t, e) \in T
    <2>1. Without(s \o t, D) = Without(s, D) \o Without(t, D)
      BY <1>2
    <2> HIDE DEF T
    <2>2. s \o t \in Seq(S) /\ Append(t, e) \in Seq(S)
      OBVIOUS
    <2>3. s \o Append(t, e) = Append(s \o t, e)
      BY ConcatOfAppend
    <2>4. Without(Append(t, e), D) = IF e \in D THEN Without(t, D) ELSE Append(Without(t, D), e)
      BY WithoutOfAppend
    <2> DEFINE st == s \o t
    <2>5. Without(Append(st, e), D) = IF e \in D THEN Without(st, D) ELSE Append(Without(st, D), e)
      <3>1. st \in Seq(S)
        BY <2>2
      <3> HIDE DEF st
      <3> QED  BY <3>1, WithoutOfAppend
    <2> DEFINE ws == Without(s, D)
               wt == Without(t, D)
    <2>6. Append(ws \o wt, e) = ws \o Append(wt, e)
      <3>1. ws \in Seq(S) /\ wt \in Seq(S)
        BY <1>0, WithoutType
      <3>2. \A v, w \in Seq(S) : v \o Append(w, e) = Append(v \o w, e)
        BY ConcatOfAppend
      <3> HIDE DEF ws, wt
      <3> QED  BY <3>1, <3>2, Zenon
    <2>7. Without(s \o Append(t, e), D) = Without(s, D) \o Without(Append(t, e), D)
      BY <2>1, <2>3, <2>4, <2>5, <2>6
    <2> QED  BY <2>2, <2>7 DEF T
  <1> HIDE DEF T
  <1>3. u \in T
    BY <1>1, <1>2, SequencesAre
  <1> QED  BY <1>3 DEF T

\* A sequence without its own elements.
LEMMA WithoutAll ==
  ASSUME NEW S, NEW D, NEW s \in Seq(S), \A i \in 1..Len(s) : s[i] \in D
  PROVE  Without(s, D) = <<>>
  <1>1. PICK f : Keeping(s, D, f)
    BY KeepingExists
  <1> DEFINE T == {i \in 0..Len(s) : f[i] = <<>>}
  <1>2. Len(s) \in Nat
    OBVIOUS
  <1>3. 0 \in T
    BY <1>1 DEF Keeping
  <1>4. ASSUME NEW i \in 0..(Len(s) - 1), i \in T PROVE i + 1 \in T
    <2>1. i + 1 \in 0..Len(s) /\ i + 1 # 0 /\ (i + 1) - 1 = i /\ i + 1 \in 1..Len(s)
      BY <1>2
    <2>2. f[i + 1] = f[i]
      BY <1>1, <2>1 DEF Keeping
    <2> QED  BY <1>4, <2>1, <2>2
  <1> HIDE DEF T
  <1>5. Len(s) \in T
    <2>1. Len(s) \in 0..Len(s)
      BY <1>2
    <2>2. 0..Len(s) \subseteq T
      BY <1>2, <1>3, <1>4, NumbersAre
    <2> QED  BY <2>1, <2>2
  <1> QED  BY <1>1, <1>5, WithoutIs DEF T

\* A sequence that has nothing to lose.
LEMMA WithoutNone ==
  ASSUME NEW S, NEW D, NEW s \in Seq(S), \A i \in 1..Len(s) : s[i] \notin D
  PROVE  Without(s, D) = s
  <1> DEFINE T == {t \in Seq(S) : (\A i \in 1..Len(t) : t[i] \notin D) => Without(t, D) = t}
  <1>1. <<>> \in T
    BY WithoutOfEmpty
  <1>2. ASSUME NEW t \in Seq(S), NEW e \in S, t \in T PROVE Append(t, e) \in T
    <2>1. SUFFICES ASSUME \A i \in 1..Len(Append(t, e)) : Append(t, e)[i] \notin D
                   PROVE  Without(Append(t, e), D) = Append(t, e)
      <3>1. Append(t, e) \in Seq(S)
        OBVIOUS
      <3> QED  BY <3>1
    <2>2. e \notin D /\ \A i \in 1..Len(t) : t[i] \notin D
      <3>1. Len(Append(t, e)) = Len(t) + 1 /\ Len(t) \in Nat /\ Append(t, e)[Len(t) + 1] = e
        OBVIOUS
      <3>2. \A i \in 1..Len(t) : i \in 1..(Len(t) + 1) /\ Append(t, e)[i] = t[i]
        OBVIOUS
      <3>3. Len(t) + 1 \in 1..(Len(t) + 1)
        BY <3>1
      <3> QED  BY <2>1, <3>1, <3>2, <3>3
    <2>3. Without(t, D) = t
      BY <1>2, <2>2
    <2> QED  BY <2>2, <2>3, WithoutOfAppend
  <1> HIDE DEF T
  <1>3. s \in T
    BY <1>1, <1>2, SequencesAre
  <1> QED  BY <1>3 DEF T
-----------------------------------------------------------------------------
\* Lengths: the recursion, and one more part.
Adding(parts, total) ==
    total = [i \in 0..Len(parts) |-> IF i = 0 THEN 0 ELSE total[i - 1] + Len(parts[i])]

LEMMA AddingOnce ==
  ASSUME NEW S, NEW parts \in Seq(S), NEW f, NEW g, Adding(parts, f), Adding(parts, g)
  PROVE  f = g
  <1> DEFINE T == {i \in 0..Len(parts) : f[i] = g[i]}
  <1>1. 0 \in T
    BY DEF Adding
  <1>2. ASSUME NEW i \in 0..(Len(parts) - 1), i \in T PROVE i + 1 \in T
    <2>1. i + 1 \in 0..Len(parts) /\ i + 1 # 0 /\ (i + 1) - 1 = i
      OBVIOUS
    <2>2. f[i + 1] = f[i] + Len(parts[i + 1])
      BY <2>1 DEF Adding
    <2>3. g[i + 1] = g[i] + Len(parts[i + 1])
      BY <2>1 DEF Adding
    <2> QED  BY <1>2, <2>1, <2>2, <2>3
  <1>3. Len(parts) \in Nat
    OBVIOUS
  <1> HIDE DEF T
  <1>4. 0..Len(parts) \subseteq T
    BY <1>1, <1>2, <1>3, NumbersAre
  <1>5. \A i \in 0..Len(parts) : f[i] = g[i]
    BY <1>4 DEF T
  <1>6. /\ f = [i \in 0..Len(parts) |-> f[i]]
        /\ g = [i \in 0..Len(parts) |-> g[i]]
    BY DEF Adding
  <1> QED  BY <1>5, <1>6

LEMMA AddingOfAppend ==
  ASSUME NEW S, NEW s \in Seq(S), NEW e \in S, NEW f, Adding(s, f)
  PROVE  Adding(Append(s, e), [i \in 0..(Len(s) + 1) |-> IF i <= Len(s) THEN f[i] ELSE f[Len(s)] + Len(e)])
  <1> DEFINE n == Len(s)
             last == f[n] + Len(e)
             g == [i \in 0..(n + 1) |-> IF i <= n THEN f[i] ELSE last]
             more == Append(s, e)
             body(i) == IF i = 0 THEN 0 ELSE g[i - 1] + Len(more[i])
  <1>1. n \in Nat /\ Len(more) = n + 1 /\ more[n + 1] = e /\ \A i \in 1..n : more[i] = s[i]
    OBVIOUS
  <1>2. \A i \in 0..(n + 1) : g[i] = IF i <= n THEN f[i] ELSE last
    OBVIOUS
  <1> HIDE DEF g, last, more, n
  <1>3. ASSUME NEW i \in 0..(n + 1) PROVE g[i] = body(i)
    <2>1. CASE i = n + 1
      <3>1. i # 0 /\ ~(i <= n) /\ i - 1 = n /\ i - 1 \in 0..(n + 1) /\ i - 1 <= n
        BY <1>1, <2>1
      <3>2. g[i] = last /\ g[i - 1] = f[n]
        BY <1>2, <3>1
      <3> QED  BY <1>1, <2>1, <3>1, <3>2 DEF last
    <2>2. CASE i # n + 1
      <3>1. i \in 0..n /\ i <= n
        BY <1>1, <2>2
      <3>2. f[i] = IF i = 0 THEN 0 ELSE f[i - 1] + Len(s[i])
        BY <3>1 DEF Adding, n
      <3>3. CASE i = 0
        BY <1>2, <3>1, <3>2, <3>3
      <3>4. CASE i # 0
        <4>1. i - 1 \in 0..(n + 1) /\ i - 1 <= n /\ i \in 1..n
          BY <1>1, <3>1, <3>4
        <4>2. g[i - 1] = f[i - 1] /\ more[i] = s[i] /\ g[i] = f[i]
          BY <1>1, <1>2, <3>1, <4>1
        <4> QED  BY <3>2, <3>4, <4>2
      <3> QED  BY <3>3, <3>4
    <2> QED  BY <2>1, <2>2
  <1>4. g = [i \in 0..(n + 1) |-> body(i)]
    <2>1. g = [i \in 0..(n + 1) |-> g[i]]
      BY DEF g
    <2> HIDE DEF body
    <2> QED  BY <1>3, <2>1
  <1>5. Adding(more, g)
    BY <1>1, <1>4 DEF Adding
  <1> QED  BY <1>5 DEF more, g, last, n

LEMMA AddingExists ==
  ASSUME NEW S, NEW s \in Seq(S)
  PROVE  \E f : Adding(s, f)
  <1> DEFINE T == {t \in Seq(S) : \E f : Adding(t, f)}
  <1>1. <<>> \in T
    <2>1. Adding(<<>>, [i \in 0..0 |-> 0])
      BY DEF Adding
    <2> QED  BY <2>1
  <1>2. ASSUME NEW t \in Seq(S), NEW e \in S, t \in T PROVE Append(t, e) \in T
    <2>1. PICK f : Adding(t, f)
      BY <1>2
    <2>2. \E g : Adding(Append(t, e), g)
      BY <2>1, AddingOfAppend
    <2> QED  BY <2>2
  <1> HIDE DEF T
  <1>3. s \in T
    BY <1>1, <1>2, SequencesAre
  <1> QED  BY <1>3 DEF T

LEMMA LengthsAre ==
  ASSUME NEW S, NEW s \in Seq(S), NEW f, Adding(s, f)
  PROVE  Lengths(s) = f[Len(s)]
  <1> DEFINE total == CHOOSE g : Adding(s, g)
  <1>1. Lengths(s) = total[Len(s)]
    BY Zenon DEF Lengths, Adding
  <1>2. Adding(s, total)
    OBVIOUS
  <1> HIDE DEF total
  <1>3. total = f
    BY <1>2, AddingOnce
  <1> QED  BY <1>1, <1>3

LEMMA LengthsOfEmpty == Lengths(<<>>) = 0
  <1>1. <<>> \in Seq({}) /\ Len(<<>>) = 0
    OBVIOUS
  <1>2. Adding(<<>>, [i \in 0..0 |-> 0])
    BY DEF Adding
  <1>3. Lengths(<<>>) = [i \in 0..0 |-> 0][0]
    BY <1>1, <1>2, LengthsAre
  <1> QED  BY <1>3

LEMMA LengthsOfAppend ==
  ASSUME NEW S, NEW s \in Seq(S), NEW e \in S
  PROVE  Lengths(Append(s, e)) = Lengths(s) + Len(e)
  <1>1. PICK f : Adding(s, f)
    BY AddingExists
  <1> DEFINE n == Len(s)
             last == f[n] + Len(e)
             g == [i \in 0..(n + 1) |-> IF i <= n THEN f[i] ELSE last]
  <1>2. Adding(Append(s, e), g)
    BY <1>1, AddingOfAppend
  <1>3. Append(s, e) \in Seq(S) /\ Len(Append(s, e)) = n + 1 /\ n \in Nat
    OBVIOUS
  <1>4. n + 1 \in 0..(n + 1) /\ ~(n + 1 <= n)
    BY <1>3
  <1>5. g[n + 1] = last
    BY <1>4
  <1> HIDE DEF g, last
  <1>6. Lengths(Append(s, e)) = g[n + 1] /\ Lengths(s) = f[n]
    BY <1>1, <1>2, <1>3, LengthsAre
  <1> QED  BY <1>5, <1>6 DEF last
-----------------------------------------------------------------------------
\* string::find returns the first occurrence, and npos if there is none.
Occurs(s, t, p) == SubSeq(s, p + 1, p + Len(t)) = t

LEMMA FindIs ==
  ASSUME NEW S, NEW s \in Seq(S), NEW t \in Seq(S), NEW from \in Nat, Len(s) < npos
  PROVE  /\ find(s, t, from) = npos =>
                \A p \in from..(Len(s) - Len(t)) : ~Occurs(s, t, p)
         /\ find(s, t, from) # npos =>
                /\ find(s, t, from) \in from..(Len(s) - Len(t))
                /\ Occurs(s, t, find(s, t, from))
  <1> DEFINE found == {p \in from..(Len(s) - Len(t)) : Occurs(s, t, p)}
             first == CHOOSE p \in found : \A q \in found : p <= q
  <1>1. find(s, t, from) = IF found = {} THEN npos ELSE first
    BY Zenon DEF find, Occurs
  <1>2. found \in SUBSET Nat /\ \A p \in found : p <= Len(s) - Len(t)
    OBVIOUS
  <1>3. found # {} => first \in found
    <2> HIDE DEF found
    <2>1. found # {} => \E p \in found : \A q \in found : p <= q
      BY <1>2, LeastIs
    <2> QED  BY <2>1
  <1>4. \A p \in found : p # npos
    <2>1. \A p \in found : p <= Len(s) /\ p \in Nat /\ Len(s) \in Nat
      OBVIOUS
    <2>2. npos \in Int
      BY StringExAssumption DEF npos
    <2> HIDE DEF found
    <2> QED  BY <2>1, <2>2
  <1> HIDE DEF first
  <1>5. CASE found = {}
    <2>1. \A p \in from..(Len(s) - Len(t)) : ~Occurs(s, t, p)
      BY <1>5
    <2> QED  BY <1>1, <1>5, <2>1
  <1>6. CASE found # {}
    <2>1. find(s, t, from) = first /\ first \in found
      BY <1>1, <1>3, <1>6
    <2>2. first # npos
      BY <1>4, <2>1
    <2>3. first \in from..(Len(s) - Len(t)) /\ Occurs(s, t, first)
      BY <2>1
    <2> QED  BY <2>1, <2>2, <2>3
  <1> QED  BY <1>5, <1>6
-----------------------------------------------------------------------------
\* PiecesFrom: the recursion, by which it goes through a string from the back.
Seen(s, t, from, i) ==
    LET p == find(s, t, i)
    IN  IF p = npos THEN <<SubSeq(s, i + 1, Len(s))>>
        ELSE <<SubSeq(s, i + 1, p)>> \o from[p + Len(t)]

Surrounding(s, t, from) == from = [i \in 0..Len(s) |-> Seen(s, t, from, i)]

LEMMA SurroundingExists ==
  ASSUME NEW S, NEW s \in Seq(S), NEW t \in Seq(S), t # <<>>, Len(s) < npos
  PROVE  \E f : Surrounding(s, t, f)
  <1> DEFINE n == Len(s)
             Behind_(k) == (n - k)..n
             Partly(k, f) == f = [i \in Behind_(k) |-> Seen(s, t, f, i)]
             T == {k \in 0..n : \E f : Partly(k, f)}
  <1>1. n \in Nat /\ Len(t) \in Nat /\ Len(t) >= 1
    OBVIOUS
  <1>2. ASSUME NEW k \in 0..n, NEW f, k > 0 => Partly(k - 1, f)
        PROVE  \E g : Partly(k, g)
    <2> DEFINE g == [i \in Behind_(k) |-> IF i = n - k THEN Seen(s, t, f, i) ELSE f[i]]
    <2>1. n - k \in Nat /\ n - k \in Behind_(k)
      BY <1>1
    <2>2. ASSUME NEW i \in Behind_(k) PROVE g[i] = Seen(s, t, f, i)
      <3>1. CASE i = n - k
        BY <3>1
      <3>2. CASE i # n - k
        <4>1. k > 0 /\ i \in Behind_(k - 1)
          BY <1>1, <3>2
        <4>2. f[i] = Seen(s, t, f, i)
          <5>1. f = [j \in Behind_(k - 1) |-> Seen(s, t, f, j)]
            BY <1>2, <4>1
          <5> HIDE DEF Behind_
          <5> QED  BY <4>1, <5>1
        <4> QED  BY <3>2, <4>2
      <3> QED  BY <3>1, <3>2
    <2>3. ASSUME NEW i \in Behind_(k) PROVE Seen(s, t, f, i) = Seen(s, t, g, i)
      <3> DEFINE p == find(s, t, i)
      <3>1. i \in Nat
        BY <1>1
      <3>2. CASE p = npos
        BY <3>2 DEF Seen
      <3>3. CASE p # npos
        <4>1. p \in i..(n - Len(t))
          BY <1>1, <3>1, <3>3, FindIs
        <4> HIDE DEF p
        <4>2. p + Len(t) \in Behind_(k) /\ p + Len(t) # n - k
          BY <1>1, <3>1, <4>1
        <4>3. g[p + Len(t)] = f[p + Len(t)]
          BY <4>2
        <4> QED  BY <4>3 DEF Seen, p
      <3> QED  BY <3>2, <3>3
    <2>4. g = [i \in Behind_(k) |-> Seen(s, t, g, i)]
      <3>1. g = [i \in Behind_(k) |-> g[i]]
        OBVIOUS
      <3>2. \A i \in Behind_(k) : g[i] = Seen(s, t, g, i)
        BY <2>2, <2>3
      <3> HIDE DEF g, Behind_
      <3> QED  BY <3>1, <3>2
    <2> HIDE DEF g
    <2>5. Partly(k, g)
      BY <2>4
    <2> QED  BY <2>5
  <1>3. 0 \in T
    <2>1. \E g : Partly(0, g)
      <3>1. 0 \in 0..n /\ ~(0 > 0)
        BY <1>1
      <3> HIDE DEF Partly
      <3> QED  BY <1>2, <3>1
    <2> QED  BY <1>1, <2>1
  <1>4. ASSUME NEW k \in 0..(n - 1), k \in T PROVE k + 1 \in T
    <2>1. PICK f : Partly(k, f)
      BY <1>4
    <2>2. k + 1 \in 0..n /\ (k + 1) - 1 = k
      BY <1>1
    <2>3. k + 1 > 0 => Partly((k + 1) - 1, f)
      BY <2>1, <2>2
    <2> HIDE DEF Partly
    <2>4. \E g : Partly(k + 1, g)
      BY <1>2, <2>2, <2>3
    <2> QED  BY <2>2, <2>4
  <1> HIDE DEF T
  <1>5. n \in T
    <2>1. n \in 0..n
      BY <1>1
    <2>2. 0..n \subseteq T
      BY <1>1, <1>3, <1>4, NumbersAre
    <2> QED  BY <2>1, <2>2
  <1>6. PICK f : f = [i \in Behind_(n) |-> Seen(s, t, f, i)]
    BY <1>5 DEF T
  <1>7. Behind_(n) = 0..n
    BY <1>1
  <1>8. Surrounding(s, t, f)
    BY <1>6, <1>7 DEF Surrounding
  <1> QED  BY <1>8

LEMMA PiecesFromIs ==
  ASSUME NEW S, NEW s \in Seq(S), NEW t \in Seq(S), t # <<>>, Len(s) < npos,
         NEW i \in 0..Len(s)
  PROVE  PiecesFrom(s, t)[i] =
            LET p == find(s, t, i)
            IN  IF p = npos THEN <<SubSeq(s, i + 1, Len(s))>>
                ELSE <<SubSeq(s, i + 1, p)>> \o PiecesFrom(s, t)[p + Len(t)]
  <1> DEFINE from == CHOOSE g : Surrounding(s, t, g)
  <1>1. PiecesFrom(s, t) = from
    BY Zenon DEF PiecesFrom, Surrounding, Seen
  <1>2. Surrounding(s, t, from)
    BY SurroundingExists
  <1> HIDE DEF from
  <1>3. from[i] = Seen(s, t, from, i)
    <2>1. from = [j \in 0..Len(s) |-> Seen(s, t, from, j)]
      BY <1>2 DEF Surrounding
    <2> QED  BY <2>1
  <1> QED  BY <1>1, <1>3 DEF Seen

\* There is always a piece, the last of which ends the string.
LEMMA PiecesFromType ==
  ASSUME NEW S, NEW s \in Seq(S), NEW t \in Seq(S), t # <<>>, Len(s) < npos,
         NEW i \in 0..Len(s)
  PROVE  PiecesFrom(s, t)[i] \in Seq(Seq(S)) /\ PiecesFrom(s, t)[i] # <<>>
  <1> DEFINE n == Len(s)
             f == PiecesFrom(s, t)
             T == {k \in 0..n : \A j \in (n - k)..n : f[j] \in Seq(Seq(S)) /\ f[j] # <<>>}
  <1>1. n \in Nat /\ Len(t) \in Nat /\ Len(t) >= 1
    OBVIOUS
  <1>2. ASSUME NEW k \in 0..n, \A j \in (n - k + 1)..n : f[j] \in Seq(Seq(S)) /\ f[j] # <<>>
        PROVE  k \in T
    <2> DEFINE m == n - k
               p == find(s, t, m)
    <2>1. m \in 0..n
      BY <1>1
    <2>2. f[m] = IF p = npos THEN <<SubSeq(s, m + 1, n)>>
                 ELSE <<SubSeq(s, m + 1, p)>> \o f[p + Len(t)]
      BY <2>1, PiecesFromIs
    <2>3. p # npos => p \in m..(n - Len(t))
      BY <2>1, FindIs
    <2> HIDE DEF f, m, p
    <2>4. ASSUME p = npos PROVE f[m] \in Seq(Seq(S)) /\ f[m] # <<>>
      <3>1. SubSeq(s, m + 1, n) \in Seq(S)
        BY <1>1, <2>1
      <3> DEFINE x == SubSeq(s, m + 1, n)
      <3> HIDE DEF x
      <3>2. <<x>> \in Seq(Seq(S)) /\ <<x>> # <<>>
        BY <3>1 DEF x
      <3>3. f[m] \in Seq(Seq(S)) /\ f[m] # <<>>
        BY <2>2, <2>4, <3>2 DEF x
      <3> QED  BY <3>3
    <2>5. ASSUME p # npos PROVE f[m] \in Seq(Seq(S)) /\ f[m] # <<>>
      <3>1. SubSeq(s, m + 1, p) \in Seq(S)
        BY <1>1, <2>1, <2>3, <2>5
      <3>2. p + Len(t) \in (n - k + 1)..n
        BY <1>1, <2>1, <2>3, <2>5 DEF m
      <3> DEFINE x == SubSeq(s, m + 1, p)
                 r == f[p + Len(t)]
      <3>3. r \in Seq(Seq(S))
        BY <1>2, <3>2 DEF f
      <3>4. f[m] = <<x>> \o r /\ x \in Seq(S)
        BY <2>2, <2>5, <3>1
      <3> HIDE DEF x, r
      <3>5. <<x>> \o r \in Seq(Seq(S)) /\ <<x>> \o r # <<>>
        BY <3>3, <3>4
      <3>6. f[m] \in Seq(Seq(S)) /\ f[m] # <<>>
        BY <3>4, <3>5
      <3> QED  BY <3>6
    <2>6. f[m] \in Seq(Seq(S)) /\ f[m] # <<>>
      BY <2>4, <2>5
    <2>7. \A j \in (n - k)..n : j = m \/ j \in (n - k + 1)..n
      BY <1>1 DEF m
    <2>8. \A j \in (n - k)..n : f[j] \in Seq(Seq(S)) /\ f[j] # <<>>
      BY <1>2, <2>6, <2>7
    <2> QED  BY <2>8
  <1>3. 0 \in T
    <2>1. \A j \in (n - 0 + 1)..n : FALSE
      BY <1>1
    <2>2. 0 \in 0..n
      BY <1>1
    <2> HIDE DEF T
    <2> QED  BY <1>2, <2>1, <2>2
  <1>4. ASSUME NEW k \in 0..(n - 1), k \in T PROVE k + 1 \in T
    <2>1. k + 1 \in 0..n
      BY <1>1
    <2>2. n - (k + 1) + 1 = n - k
      BY <1>1
    <2>3. \A j \in (n - (k + 1) + 1)..n : f[j] \in Seq(Seq(S)) /\ f[j] # <<>>
      BY <1>4, <2>2
    <2> HIDE DEF T
    <2> QED  BY <1>2, <2>1, <2>3
  <1> HIDE DEF T
  <1>5. n \in T
    <2>1. n \in 0..n
      BY <1>1
    <2>2. 0..n \subseteq T
      BY <1>1, <1>3, <1>4, NumbersAre
    <2> QED  BY <2>1, <2>2
  <1>6. i \in (n - n)..n
    BY <1>1
  <1> HIDE DEF f
  <1>7. f[i] \in Seq(Seq(S)) /\ f[i] # <<>>
    BY <1>5, <1>6 DEF T
  <1> QED  BY <1>7 DEF f
-----------------------------------------------------------------------------
\* The invariant of StringEx: what a split has made of the part of the string in front of
\* the position it searches from, and what it leaves when it has ended.
Whole(parts) == Without(parts, {<<>>})

Splitting(s, t, at, out) ==
    /\ at \in 0..Len(s)
    /\ out \in Seq(Seq(Chars))
    /\ Lengths(out) \in 0..at /\ Len(out) <= at
    /\ t = <<>> => at = 0
    /\ at > 0 => at >= Len(t) /\ Occurs(s, t, at - Len(t))
    /\ t # <<>> => /\ out \o Whole(PiecesFrom(s, t)[at]) = Whole(PiecesFrom(s, t)[0])
                   /\ Last(PiecesFrom(s, t)[at]) = Last(PiecesFrom(s, t)[0])

SplitAsMeant(s, t, out) ==
    LET parts == PiecesAround(s, t)
    IN  /\ out \in {Whole(parts), Append(Whole(parts), <<>>)}
        /\ IsEmpty(Last(parts)) =>
              out = IF Len(t) = 1 THEN Append(Whole(parts), <<>>) ELSE Whole(parts)
        /\ Len(t) = 1 /\ ~IsEmpty(Last(parts)) => out = Whole(parts)

Splitted(s, t, out) ==
    /\ t # <<>>
    /\ out \in Seq(Seq(Chars))
    /\ Lengths(out) \in 0..Len(s) /\ Len(out) <= Len(s) + 1
    /\ SplitAsMeant(s, t, out)

LEMMA CallsAre ==
  \A c \in Calls : /\ c.op \in {"remove", "split", "replace"}
                   /\ c.target \in Seq(Chars) /\ c.to \in Seq(Chars)
                   /\ Len(c.to) <= MaxTo
                   /\ Len(c.target) <= MaxTarget
  <1>1. \A n \in Nat : \A s \in BoundedSeq(Chars, n) : s \in Seq(Chars) /\ Len(s) <= n
    BY DEF BoundedSeq, SeqOf
  <1>2. MaxTarget \in Nat /\ MaxTo \in Nat
    BY StringExAssumption
  <1>3. <<>> \in Seq(Chars) /\ Len(<<>>) = 0
    OBVIOUS
  <1> TAKE c \in Calls
  <1>4. \/ c.op \in {"remove", "split"} /\ c.target \in BoundedSeq(Chars, MaxTarget) /\ c.to = <<>>
        \/ /\ c.op = "replace" /\ c.target \in BoundedSeq(Chars, MaxTarget)
           /\ c.to \in BoundedSeq(Chars, MaxTo)
    BY DEF Calls
  <1>5. c.target \in Seq(Chars) /\ Len(c.target) <= MaxTarget
    BY <1>1, <1>2, <1>4
  <1>6. c.to \in Seq(Chars) /\ Len(c.to) <= MaxTo
    <2>1. CASE c.to = <<>>
      <3>1. Len(c.to) = 0
        BY <1>3, <2>1
      <3> QED  BY <1>2, <1>3, <2>1, <3>1
    <2>2. CASE c.to \in BoundedSeq(Chars, MaxTo)
      BY <1>1, <1>2, <2>2
    <2> QED  BY <1>4, <2>1, <2>2
  <1> QED  BY <1>4, <1>5, <1>6

\* What is known of the numbers.
LEMMA Sizes_ ==
    /\ MaxText \in Nat /\ MaxTarget \in Nat /\ MaxTo \in Nat /\ SizeRange \in Nat
    /\ npos \in Nat /\ npos = SizeRange - 1
    /\ MaxText + MaxTarget + 1 < npos
    /\ MaxText + MaxText * MaxTo + 1 <= max_size
    /\ max_size + MaxTo < SizeRange - 1
    /\ max_size \in Nat
  <1>1. MaxText \in Nat /\ MaxTarget \in Nat /\ MaxTo \in Nat /\ SizeRange \in Nat
    BY StringExAssumption
  <1> DEFINE P == MaxText * MaxTo
             Q == (MaxText + 1) * (MaxTo + 1)
  <1>2. P \in Nat /\ Q = P + MaxText + MaxTo + 1
    <2>1. \A a, b \in Nat : a * b \in Nat /\ (a + 1) * (b + 1) = a * b + a + b + 1
      OBVIOUS
    <2> QED  BY <1>1, <2>1
  <1>3. SizeRange > 4 * Q + MaxTarget
    <2>1. \A a, b \in Nat : 4 * (a + 1) * (b + 1) = 4 * ((a + 1) * (b + 1))
      OBVIOUS
    <2>2. 4 * (MaxText + 1) * (MaxTo + 1) = 4 * Q
      BY <1>1, <2>1
    <2> HIDE DEF Q
    <2> QED  BY <1>1, <2>2, StringExAssumption
  <1> HIDE DEF P, Q
  <1>4. SizeRange > 4 * (P + MaxText + MaxTo + 1) + MaxTarget
    BY <1>2, <1>3
  <1>5. max_size = SizeRange \div 2 - 1 /\ npos = SizeRange - 1
    BY DEF max_size, npos
  <1>6. \A x \in Nat : x > 0 => x \div 2 - 1 \in Int /\ 2 * (x \div 2) <= x /\ x < 2 * (x \div 2) + 2
    OBVIOUS
  <1>7. MaxText + P + 1 <= max_size /\ max_size + MaxTo < SizeRange - 1 /\ max_size \in Nat
    BY <1>1, <1>2, <1>4, <1>5, <1>6
  <1>8. npos \in Nat /\ MaxText + MaxTarget + 1 < npos
    BY <1>1, <1>2, <1>4, <1>5
  <1> QED  BY <1>1, <1>5, <1>7, <1>8 DEF P

LEMMA WholeOfFirst ==
  ASSUME NEW x \in Seq(Chars), NEW r \in Seq(Seq(Chars))
  PROVE  Whole(<<x>> \o r) = IF x = <<>> THEN Whole(r) ELSE <<x>> \o Whole(r)
  <1>1. <<>> \in Seq(Seq(Chars)) /\ <<x>> \in Seq(Seq(Chars)) /\ <<x>> = Append(<<>>, x)
    OBVIOUS
  <1>2. Without(<<x>> \o r, {<<>>}) = Without(<<x>>, {<<>>}) \o Without(r, {<<>>})
    BY <1>1, WithoutOfConcat
  <1>3. Without(Append(<<>>, x), {<<>>}) =
           IF x \in {<<>>} THEN Without(<<>>, {<<>>}) ELSE Append(Without(<<>>, {<<>>}), x)
    <2> DEFINE SC == Seq(Chars)
               D == {<<>>}
    <2> HIDE DEF SC, D
    <2>1. \A u \in Seq(SC), e \in SC :
             Without(Append(u, e), D) = IF e \in D THEN Without(u, D) ELSE Append(Without(u, D), e)
      BY WithoutOfAppend
    <2>2. <<>> \in Seq(SC) /\ x \in SC
      BY <1>1 DEF SC
    <2>3. Without(Append(<<>>, x), D) = IF x \in D THEN Without(<<>>, D) ELSE Append(Without(<<>>, D), x)
      BY <2>1, <2>2
    <2> QED  BY <2>3 DEF D
  <1>4. Without(<<x>>, {<<>>}) = IF x = <<>> THEN <<>> ELSE <<x>>
    BY <1>1, <1>3, WithoutOfEmpty
  <1>5. Without(r, {<<>>}) \in Seq(Seq(Chars))
    BY WithoutType
  <1>6. <<>> \o Without(r, {<<>>}) = Without(r, {<<>>})
    BY <1>5
  <1> QED  BY <1>2, <1>4, <1>6 DEF Whole

LEMMA LastOfRest ==
  ASSUME NEW S, NEW x \in S, NEW r \in Seq(S), r # <<>>
  PROVE  Last(<<x>> \o r) = Last(r)
  BY DEF Last

LEMMA LastOfOne ==
  ASSUME NEW x PROVE Last(<<x>>) = x
  BY DEF Last

LEMMA SplitBegins ==
  ASSUME NEW s \in Seq(Chars), NEW t \in Seq(Chars), Len(s) < npos
  PROVE  Splitting(s, t, 0, <<>>)
  <1>1. 0 \in 0..Len(s) /\ <<>> \in Seq(Seq(Chars)) /\ Len(<<>>) = 0
    OBVIOUS
  <1>2. ASSUME t # <<>> PROVE <<>> \o Whole(PiecesFrom(s, t)[0]) = Whole(PiecesFrom(s, t)[0])
    <2>1. PiecesFrom(s, t)[0] \in Seq(Seq(Chars))
      BY <1>1, <1>2, PiecesFromType
    <2>2. Whole(PiecesFrom(s, t)[0]) \in Seq(Seq(Chars))
      BY <2>1, WithoutType DEF Whole
    <2> QED  BY <2>2
  <1>3. Lengths(<<>>) \in 0..0
    BY LengthsOfEmpty
  <1> QED  BY <1>1, <1>2, <1>3 DEF Splitting

LEMMA SplitRound ==
  ASSUME NEW s \in Seq(Chars), NEW t \in Seq(Chars), Len(s) < npos, NEW at, NEW out,
         Splitting(s, t, at, out), find(s, t, at) # npos
  PROVE  LET end == find(s, t, at)
         IN  Splitting(s, t, end + Len(t),
                       IF end - at > 0 THEN Append(out, SubSeq(s, at + 1, end)) ELSE out)
  <1> DEFINE n == Len(s)
             end == find(s, t, at)
             piece == SubSeq(s, at + 1, end)
             next == end + Len(t)
             more == IF end - at > 0 THEN Append(out, piece) ELSE out
  <1>1. /\ at \in 0..n /\ n \in Nat /\ Len(t) \in Nat /\ (t # <<>> => Len(t) >= 1)
        /\ (t = <<>> => Len(t) = 0)
        /\ out \in Seq(Seq(Chars)) /\ Lengths(out) \in 0..at /\ Len(out) <= at /\ Len(out) \in Nat
        /\ t = <<>> => at = 0
    BY DEF Splitting
  <1>2. end \in at..(n - Len(t)) /\ Occurs(s, t, end)
    BY <1>1, FindIs
  <1>3. piece \in Seq(Chars) /\ Len(piece) = end - at
    BY <1>1, <1>2
  <1>4. piece = <<>> <=> end - at = 0
    <2> HIDE DEF piece
    <2> QED  BY <1>3
  <1>5. ASSUME t = <<>> PROVE end = 0
    <2>1. find(s, t, 0) = 0
      <3> DEFINE found == {p \in 0..(Len(s) - Len(t)) : SubSeq(s, p + 1, p + Len(t)) = t}
      <3>1. SubSeq(s, 1, 0) = <<>>
        OBVIOUS
      <3>2. 0 \in found /\ \A q \in found : q \in Nat
        BY <1>1, <1>5, <3>1
      <3> DEFINE c == CHOOSE p \in found : \A q \in found : p <= q
      <3>3. find(s, t, 0) = c
        BY <3>2 DEF find
      <3>4. c \in found /\ \A q \in found : c <= q
        <4> HIDE DEF found
        <4>1. \A q \in found : 0 <= q
          BY <3>2
        <4> QED  BY <3>2, <4>1
      <3>5. c \in Nat /\ c <= 0
        <4> HIDE DEF found, c
        <4> QED  BY <3>2, <3>4
      <3> HIDE DEF c
      <3> QED  BY <3>3, <3>5
    <2> QED  BY <1>1, <1>5, <2>1
  <1> HIDE DEF n, end, piece
  <1>6. next \in 0..n /\ next >= at /\ (t = <<>> => next = 0)
        /\ next >= Len(t) /\ next - Len(t) = end
    BY <1>1, <1>2, <1>5
  <1>7. /\ more \in Seq(Seq(Chars)) /\ Len(more) <= next
        /\ Lengths(more) \in 0..next
    <2>1. CASE end - at > 0
      <3>1. Lengths(Append(out, piece)) = Lengths(out) + Len(piece)
        BY <1>1, <1>3, LengthsOfAppend
      <3>2. Append(out, piece) \in Seq(Seq(Chars)) /\ Len(Append(out, piece)) = Len(out) + 1
        BY <1>1, <1>3
      <3>3. Lengths(out) + Len(piece) \in 0..next /\ Len(out) + 1 <= next
        BY <1>1, <1>2, <1>3, <2>1, SMTT(60)
      <3> QED  BY <2>1, <3>1, <3>2, <3>3
    <2>2. CASE ~(end - at > 0)
      BY <1>1, <1>6, <2>2
    <2> QED  BY <2>1, <2>2
  <1>8. ASSUME t # <<>>
        PROVE  /\ more \o Whole(PiecesFrom(s, t)[next]) = Whole(PiecesFrom(s, t)[0])
               /\ Last(PiecesFrom(s, t)[next]) = Last(PiecesFrom(s, t)[0])
    <2> DEFINE f == PiecesFrom(s, t)
               rest == f[next]
    <2>1. /\ out \o Whole(f[at]) = Whole(f[0])
          /\ Last(f[at]) = Last(f[0])
      BY <1>8 DEF Splitting
    <2>2. f[at] = <<piece>> \o rest
      <3>1. f[at] = IF end = npos THEN <<SubSeq(s, at + 1, Len(s))>> ELSE <<piece>> \o f[next]
        BY <1>1, <1>8, PiecesFromIs DEF end, piece, n
      <3> QED  BY <3>1 DEF end
    <2>3. rest \in Seq(Seq(Chars)) /\ rest # <<>>
      BY <1>6, <1>8, PiecesFromType DEF n
    <2> HIDE DEF f, rest
    <2>4. Last(<<piece>> \o rest) = Last(rest)
      BY <1>3, <2>3, LastOfRest
    <2>5. Whole(<<piece>> \o rest) = IF piece = <<>> THEN Whole(rest) ELSE <<piece>> \o Whole(rest)
      BY <1>3, <2>3, WholeOfFirst
    <2>6. Whole(rest) \in Seq(Seq(Chars))
      BY <2>3, WithoutType DEF Whole
    <2>7. more \o Whole(rest) = out \o Whole(f[at])
      <3>1. CASE end - at > 0
        <4>0. piece # <<>>
          BY <1>4, <3>1
        <4>1. Whole(f[at]) = <<piece>> \o Whole(rest)
          BY <2>2, <2>5, <4>0
        <4> DEFINE w == Whole(rest)
        <4>2. w \in Seq(Seq(Chars))
          BY <2>6
        <4> HIDE DEF w
        <4>3. Append(out, piece) \o w = out \o (<<piece>> \o w)
          BY <1>1, <1>3, <4>2
        <4> QED  BY <3>1, <4>1, <4>3 DEF w
      <3>2. CASE ~(end - at > 0)
        <4>1. end - at = 0
          BY <1>1, <1>2, <3>2
        <4>2. Whole(f[at]) = Whole(rest)
          BY <1>4, <2>2, <2>5, <4>1
        <4> QED  BY <3>2, <4>2
      <3> QED  BY <3>1, <3>2
    <2>8. more \o Whole(rest) = Whole(f[0]) /\ Last(rest) = Last(f[0])
      BY <2>1, <2>2, <2>4, <2>7
    <2> QED  BY <2>8 DEF f, rest
  <1> HIDE DEF more
  <1>9. Splitting(s, t, next, more)
    <2>1. next > 0 => next >= Len(t) /\ Occurs(s, t, next - Len(t))
      BY <1>2, <1>6
    <2> HIDE DEF next
    <2> QED  BY <1>6, <1>7, <1>8, <2>1 DEF Splitting, n
  <1> QED  BY <1>9 DEF more, piece, end
-----------------------------------------------------------------------------
\* The remainders that the wrapping of size_type leaves.
LEMMA DivMod ==
  ASSUME NEW c \in Int, NEW m \in Nat, m > 0
  PROVE  /\ c \div m \in Int
         /\ c % m \in 0..(m - 1)
         /\ c % m = c - (c \div m) * m
  OBVIOUS

LEMMA SmallRemainder ==
  ASSUME NEW m \in Nat, m > 0, NEW c \in Int
  PROVE  /\ 0 <= c /\ c < m => c % m = c
         /\ -m <= c /\ c < 0 => c % m = c + m
  <1>1. c \div m \in Int /\ c % m \in 0..(m - 1) /\ c % m = c - (c \div m) * m
    BY DivMod
  <1> DEFINE q == c \div m
             r == c % m
  <1>2. q \in Int /\ r \in 0..(m - 1) /\ c = q * m + r
    <2>1. \A a, b, d \in Int : a = b - d => b = d + a
      OBVIOUS
    <2>2. q * m \in Int
      BY <1>1
    <2> QED  BY <1>1, <2>1, <2>2
  <1> HIDE DEF q, r
  <1>3. ASSUME 0 <= c, c < m PROVE r = c
    <2>1. q = 0
      <3>1. ~(q >= 1)
        <4>1. q >= 1 => q * m >= m
          BY <1>2
        <4> QED  BY <1>2, <1>3, <4>1
      <3>2. ~(q <= -1)
        <4>1. q <= -1 => q * m <= -m
          BY <1>2
        <4> QED  BY <1>2, <1>3, <4>1
      <3> QED  BY <1>2, <3>1, <3>2
    <2> QED  BY <1>2, <2>1
  <1>4. ASSUME -m <= c, c < 0 PROVE r = c + m
    <2>1. q = -1
      <3>1. ~(q >= 0)
        <4>1. q >= 0 => q * m >= 0
          BY <1>2
        <4> QED  BY <1>2, <1>4, <4>1
      <3>2. ~(q <= -2)
        <4>1. q <= -2 => q * m <= -2 * m
          BY <1>2
        <4> QED  BY <1>2, <1>4, <4>1
      <3> QED  BY <1>2, <3>1, <3>2
    <2> QED  BY <1>2, <2>1
  <1> QED  BY <1>3, <1>4 DEF r

LEMMA MultipleHasNoRemainder ==
  ASSUME NEW k \in Int, NEW m \in Nat, m > 0
  PROVE  (k * m) % m = 0
  <1>1. (k * m) % m = k * m - ((k * m) \div m) * m /\ (k * m) \div m \in Int
    BY DivMod, k * m \in Int
  <1>2. (k * m) \div m = k
    OBVIOUS
  <1> QED  BY <1>1, <1>2
-----------------------------------------------------------------------------
\* string::find_last_of returns the last position of a character of t.
LEMMA FindLastOfIs ==
  ASSUME NEW S, NEW s \in Seq(S), NEW t \in Seq(S), Len(s) < npos
  PROVE  LET last == find_last_of(s, t)
         IN  /\ last = npos => \A p \in 0..(Len(s) - 1) : s[p + 1] \notin ToSet(t)
             /\ last # npos => /\ last \in 0..(Len(s) - 1)
                               /\ s[last + 1] \in ToSet(t)
                               /\ \A p \in 0..(Len(s) - 1) : s[p + 1] \in ToSet(t) => p <= last
  <1> DEFINE n == Len(s)
             C == ToSet(t)
             found == {p \in 0..(n - 1) : s[p + 1] \in C}
             last == CHOOSE p \in found : \A q \in found : p >= q
  <1>1. find_last_of(s, t) = IF found = {} THEN npos ELSE last
    BY Zenon DEF find_last_of
  <1>2. n \in Nat /\ npos \in Int
    BY StringExAssumption DEF npos
  <1> HIDE DEF n, C, last
  <1>3. ASSUME found # {} PROVE \E p \in found : \A q \in found : p >= q
    <2> DEFINE gaps == {k \in Nat : n - k \in found}
    <2>1. gaps \in SUBSET Nat
      OBVIOUS
    <2>2. PICK p \in found : TRUE
      BY <1>3
    <2>3. n - p \in gaps
      BY <1>2
    <2>4. PICK k \in gaps : \A j \in gaps : k <= j
      <3> HIDE DEF gaps
      <3> QED  BY <2>1, <2>3, LeastIs
    <2>5. n - k \in found /\ k \in Nat
      BY <2>4
    <2>6. ASSUME NEW q \in found PROVE n - k >= q
      <3>1. n - q \in gaps /\ q \in Nat
        BY <1>2
      <3>2. k <= n - q
        BY <2>4, <3>1
      <3> QED  BY <1>2, <2>5, <3>1, <3>2
    <2> QED  BY <2>5, <2>6
  <1>4. found # {} => last \in found /\ \A q \in found : last >= q
    <2> HIDE DEF found
    <2> QED  BY <1>3 DEF last
  <1>5. CASE found = {}
    <2>1. \A p \in 0..(n - 1) : s[p + 1] \notin C
      BY <1>5
    <2> HIDE DEF found
    <2> QED  BY <1>1, <1>5, <2>1 DEF n, C
  <1>6. CASE found # {}
    <2>1. last \in 0..(n - 1) /\ s[last + 1] \in C
      BY <1>4, <1>6
    <2>2. \A p \in 0..(n - 1) : s[p + 1] \in C => p <= last
      <3>1. \A p \in 0..(n - 1) : s[p + 1] \in C => p \in found
        OBVIOUS
      <3>2. \A p \in found : last >= p
        BY <1>4, <1>6
      <3> HIDE DEF found
      <3>3. \A p \in 0..(n - 1) : last >= p => p <= last
        BY <1>2, <2>1
      <3> QED  BY <3>1, <3>2, <3>3
    <2>3. last # npos
      <3>1. n < npos
        BY DEF n
      <3> QED  BY <1>2, <2>1, <3>1
    <2> HIDE DEF found
    <2> QED  BY <1>1, <1>6, <2>1, <2>2, <2>3 DEF n, C
  <1> QED  BY <1>5, <1>6

\* The comparison with a difference that wraps: what it says of a string that is searched
\* to its end.
LEMMA TrailingIs ==
  ASSUME NEW s \in Seq(Chars), NEW t \in Seq(Chars), t # <<>>,
         Len(s) <= MaxText, Len(t) <= MaxTarget,
         NEW at \in 0..Len(s), at > 0 => at >= Len(t) /\ Occurs(s, t, at - Len(t)),
         find(s, t, at) = npos
  PROVE  LET trailing == find_last_of(s, t) = (Len(s) - Len(t)) % SizeRange
         IN  /\ at = Len(s) => (trailing <=> Len(t) = 1)
             /\ Len(t) = 1 /\ at < Len(s) => ~trailing
  <1> DEFINE n == Len(s)
             m == Len(t)
             last == find_last_of(s, t)
             far == (n - m) % SizeRange
  <1>1. /\ n \in Nat /\ m \in Nat /\ m >= 1 /\ at \in 0..n
        /\ SizeRange \in Nat /\ npos = SizeRange - 1 /\ n + m + 1 < npos
    BY Sizes_
  <1>2. /\ n >= m => far = n - m
        /\ n < m => far = n - m + SizeRange
    <2>0. n - m \in Int /\ SizeRange \in Nat /\ SizeRange > 0
      BY <1>1
    <2>1. 0 <= n - m /\ n - m < SizeRange => far = n - m
      BY <2>0, SmallRemainder, Zenon
    <2>2. -SizeRange <= n - m /\ n - m < 0 => far = n - m + SizeRange
      BY <2>0, SmallRemainder, Zenon
    <2> HIDE DEF n, m, far
    <2> QED  BY <1>1, <2>1, <2>2
  <1>3. /\ last = npos => \A p \in 0..(n - 1) : s[p + 1] \notin ToSet(t)
        /\ last # npos => /\ last \in 0..(n - 1)
                          /\ s[last + 1] \in ToSet(t)
                          /\ \A p \in 0..(n - 1) : s[p + 1] \in ToSet(t) => p <= last
    BY <1>1, FindLastOfIs
  <1>4. \A i \in 1..m : t[i] \in ToSet(t)
    BY DEF ToSet
  <1>5. m = 1 => \A c \in ToSet(t) : c = t[1]
    BY DEF ToSet
  <1>6. ASSUME at = n PROVE last = far <=> m = 1
    <2>1. CASE n = 0
      <3>1. last = npos
        <4> HIDE DEF n, m, last, far
        <4> QED  BY <1>1, <1>3, <2>1
      <3>2. far = SizeRange - m
        <4> HIDE DEF n, m, last, far
        <4> QED  BY <1>1, <1>2, <2>1
      <3> HIDE DEF n, m, last, far
      <3> QED  BY <1>1, <3>1, <3>2
    <2>2. CASE n > 0
      <3>1. n >= m /\ Occurs(s, t, n - m)
        BY <1>1, <1>6, <2>2
      <3>2. s[n] = t[m]
        <4>1. SubSeq(s, n - m + 1, n) = t
          <5>1. n - m + m = n
            BY <1>1
          <5> QED  BY <3>1, <5>1 DEF Occurs
        <4>2. SubSeq(s, n - m + 1, n)[m] = s[n]
          <5>1. \A a \in 1..(n + 1) : \A i \in 1..(n - a + 1) : SubSeq(s, a, n)[i] = s[a + i - 1]
            OBVIOUS
          <5>2. n - m + 1 \in 1..(n + 1) /\ m \in 1..(n - (n - m + 1) + 1) /\ (n - m + 1) + m - 1 = n
            BY <1>1, <3>1
          <5> HIDE DEF n, m
          <5> QED  BY <5>1, <5>2
        <4> QED  BY <4>1, <4>2
      <3>3. s[n] \in ToSet(t)
        <4>1. m \in 1..m
          BY <1>1
        <4> QED  BY <1>4, <3>2, <4>1
      <3>4. n - 1 \in 0..(n - 1) /\ (n - 1) + 1 = n
        BY <1>1, <2>2
      <3> HIDE DEF n, m, last, far
      <3>5. last = n - 1
        <4>1. s[(n - 1) + 1] \in ToSet(t)
          BY <3>3, <3>4
        <4>2. last # npos
          BY <1>3, <3>4, <4>1
        <4>3. n - 1 <= last /\ last \in 0..(n - 1)
          BY <1>3, <3>4, <4>1, <4>2
        <4> QED  BY <1>1, <4>3
      <3>6. far = n - m
        BY <1>2, <3>1
      <3> QED  BY <1>1, <3>5, <3>6
    <2> QED  BY <1>1, <2>1, <2>2
  <1>7. ASSUME m = 1, at < n PROVE last # far
    <2>1. \A p \in at..(n - m) : ~Occurs(s, t, p)
      BY <1>1, FindIs
    <2>2. n - 1 \in at..(n - m) /\ n >= m
      BY <1>1, <1>7
    <2>3. s[n] # t[1]
      <3>1. SubSeq(s, n - 1 + 1, n - 1 + 1) # t
        <4> HIDE DEF n
        <4> QED  BY <1>7, <2>1, <2>2 DEF Occurs
      <3>2. n - 1 + 1 = n /\ n \in 1..n
        BY <1>1, <1>7
      <3>3. SubSeq(s, n, n) = <<s[n]>>
        <4>1. SubSeq(s, n, n) \in Seq(Chars) /\ Len(SubSeq(s, n, n)) = 1 /\ SubSeq(s, n, n)[1] = s[n]
          BY <3>2
        <4> DEFINE u == SubSeq(s, n, n)
        <4>2. u \in Seq(Chars) /\ Len(u) = 1
          BY <4>1
        <4> HIDE DEF u
        <4>3. u = <<u[1]>>
          BY <4>2
        <4> QED  BY <4>1, <4>3 DEF u
      <3>4. t = <<t[1]>>
        BY <1>7
      <3> QED  BY <3>1, <3>2, <3>3, <3>4
    <2>4. far = n - 1
      <3> HIDE DEF n, m, last, far
      <3> QED  BY <1>1, <1>2, <1>7, <2>2
    <2>5. last = n - 1 => s[n] \in ToSet(t)
      <3>1. n - 1 # npos /\ (n - 1) + 1 = n
        BY <1>1
      <3> HIDE DEF n, m, last, far
      <3> QED  BY <1>3, <3>1
    <2> QED  BY <1>5, <1>7, <2>3, <2>4, <2>5
  <1> QED  BY <1>6, <1>7
-----------------------------------------------------------------------------
LEMMA WholeOfOne ==
  ASSUME NEW x \in Seq(Chars)
  PROVE  Whole(<<x>>) = IF x = <<>> THEN <<>> ELSE <<x>>
  <1> DEFINE SC == Seq(Chars)
             D == {<<>>}
  <1> HIDE DEF SC, D
  <1>1. \A u \in Seq(SC), e \in SC :
           Without(Append(u, e), D) = IF e \in D THEN Without(u, D) ELSE Append(Without(u, D), e)
    BY WithoutOfAppend
  <1>2. <<>> \in Seq(SC) /\ x \in SC
    BY DEF SC
  <1>3. Without(Append(<<>>, x), D) = IF x \in D THEN Without(<<>>, D) ELSE Append(Without(<<>>, D), x)
    BY <1>1, <1>2
  <1>4. Without(<<>>, D) = <<>> /\ Append(<<>>, x) = <<x>>
    BY WithoutOfEmpty
  <1> QED  BY <1>3, <1>4 DEF D, Whole

LEMMA SplitEnds ==
  ASSUME NEW s \in Seq(Chars), NEW t \in Seq(Chars), Len(s) <= MaxText, Len(t) <= MaxTarget,
         NEW at, NEW out, Splitting(s, t, at, out), find(s, t, at) = npos
  PROVE  LET lastPiece == IF at < Len(s) THEN <<SubSeq(s, at + 1, Len(s))>> ELSE <<>>
             trailing == IF find_last_of(s, t) = (Len(s) - Len(t)) % SizeRange THEN << <<>> >> ELSE <<>>
         IN  Splitted(s, t, out \o lastPiece \o trailing)
  <1> DEFINE n == Len(s)
             rest == SubSeq(s, at + 1, n)
             lastPiece == IF at < n THEN <<rest>> ELSE <<>>
             ends == find_last_of(s, t) = (n - Len(t)) % SizeRange
             trailing == IF ends THEN << <<>> >> ELSE <<>>
             f == PiecesFrom(s, t)
             whole == Whole(f[0])
  <1>1. /\ at \in 0..n /\ n \in Nat /\ Len(t) \in Nat /\ n < npos
        /\ out \in Seq(Seq(Chars)) /\ Lengths(out) \in 0..at /\ Len(out) <= at /\ Len(out) \in Nat
        /\ at > 0 => at >= Len(t) /\ Occurs(s, t, at - Len(t))
    BY Sizes_ DEF Splitting
  <1>2. t # <<>>
    <2> SUFFICES ASSUME t = <<>> PROVE FALSE
      OBVIOUS
    <2>1. at = 0 /\ Len(t) = 0
      BY DEF Splitting
    <2>2. SubSeq(s, 1, 0) = <<>>
      OBVIOUS
    <2>3. Occurs(s, t, 0)
      BY <2>1, <2>2 DEF Occurs
    <2>4. 0 \in 0..(n - Len(t))
      BY <1>1, <2>1
    <2>5. \A p \in 0..(n - Len(t)) : ~Occurs(s, t, p)
      BY <1>1, <2>1, FindIs
    <2> QED  BY <2>3, <2>4, <2>5
  <1>3. rest \in Seq(Chars) /\ Len(rest) = n - at
    BY <1>1
  <1>4. rest = <<>> <=> at = n
    <2> HIDE DEF rest
    <2> QED  BY <1>1, <1>3
  <1>5. f[at] = <<rest>>
    BY <1>1, <1>2, PiecesFromIs
  <1>6. Last(f[0]) = rest
    <2>1. Last(f[at]) = Last(f[0])
      BY <1>2 DEF Splitting
    <2> HIDE DEF rest, f
    <2> QED  BY <1>5, <2>1, LastOfOne
  <1>7. whole = out \o lastPiece
    <2>1. out \o Whole(f[at]) = whole
      BY <1>2 DEF Splitting
    <2>2. Whole(<<rest>>) = IF rest = <<>> THEN <<>> ELSE <<rest>>
      BY <1>3, WholeOfOne
    <2> HIDE DEF rest, f, whole
    <2>3. Whole(f[at]) = lastPiece
      BY <1>1, <1>4, <1>5, <2>2
    <2> QED  BY <2>1, <2>3
  <1>8. whole \in Seq(Seq(Chars))
    <2>1. 0 \in 0..n
      BY <1>1
    <2>2. f[0] \in Seq(Seq(Chars))
      BY <1>1, <1>2, <2>1, PiecesFromType
    <2> HIDE DEF f
    <2> QED  BY <2>2, WithoutType DEF Whole
  <1>9. /\ rest = <<>> => (ends <=> Len(t) = 1)
        /\ Len(t) = 1 /\ rest # <<>> => ~ends
    <2>1. /\ at = n => (ends <=> Len(t) = 1)
          /\ Len(t) = 1 /\ at < n => ~ends
      BY <1>1, <1>2, TrailingIs
    <2> HIDE DEF ends, rest
    <2> QED  BY <1>1, <1>4, <2>1
  <1>10. Lengths(whole) \in 0..n /\ Len(whole) <= n
    <2>1. CASE at < n
      <3>1. whole = Append(out, rest)
        <4>1. out \o <<rest>> = Append(out, rest)
          BY <1>1, <1>3
        <4> QED  BY <1>7, <2>1, <4>1
      <3>2. Lengths(Append(out, rest)) = Lengths(out) + Len(rest)
        BY <1>1, <1>3, LengthsOfAppend
      <3>3. Len(Append(out, rest)) = Len(out) + 1
        BY <1>1, <1>3
      <3> HIDE DEF whole, rest
      <3> QED  BY <1>1, <1>3, <2>1, <3>1, <3>2, <3>3
    <2>2. CASE ~(at < n)
      <3>1. whole = out
        BY <1>1, <1>7, <2>2
      <3> HIDE DEF whole
      <3> QED  BY <1>1, <2>2, <3>1
    <2> QED  BY <2>1, <2>2
  <1> HIDE DEF whole, lastPiece, rest, ends, n
  <1>11. whole \o trailing = IF ends THEN Append(whole, <<>>) ELSE whole
    BY <1>8
  <1>12. SplitAsMeant(s, t, whole \o trailing)
    <2>1. PiecesAround(s, t) = f[0]
      BY DEF PiecesAround
    <2> HIDE DEF f, trailing
    <2> QED  BY <1>6, <1>9, <1>11, <2>1 DEF SplitAsMeant, whole, IsEmpty
  <1>13. /\ whole \o trailing \in Seq(Seq(Chars))
         /\ Lengths(whole \o trailing) \in 0..n
         /\ Len(whole \o trailing) <= n + 1
    <2>1. <<>> \in Seq(Chars) /\ Len(<<>>) = 0
      OBVIOUS
    <2>2. /\ Append(whole, <<>>) \in Seq(Seq(Chars)) /\ Len(Append(whole, <<>>)) = Len(whole) + 1
          /\ Len(whole) \in Nat
      BY <1>8, <2>1
    <2>3. Lengths(Append(whole, <<>>)) = Lengths(whole) + Len(<<>>)
      BY <1>8, <2>1, LengthsOfAppend
    <2> HIDE DEF trailing
    <2> QED  BY <1>1, <1>8, <1>10, <1>11, <2>1, <2>2, <2>3
  <1>14. out \o lastPiece \o trailing = whole \o trailing
    BY <1>7
  <1> HIDE DEF trailing
  <1>15. Splitted(s, t, out \o lastPiece \o trailing)
    BY <1>2, <1>12, <1>13, <1>14 DEF Splitted, n
  <1> QED  BY <1>15 DEF lastPiece, trailing, ends, rest, n
-----------------------------------------------------------------------------
LEMMA WithoutEmptied ==
  ASSUME NEW S, NEW D, NEW s \in Seq(S), Without(s, D) = <<>>
  PROVE  \A i \in 1..Len(s) : s[i] \in D
  <1> DEFINE T == {t \in Seq(S) : Without(t, D) = <<>> => \A i \in 1..Len(t) : t[i] \in D}
  <1>1. <<>> \in T
    OBVIOUS
  <1>2. ASSUME NEW t \in Seq(S), NEW e \in S, t \in T PROVE Append(t, e) \in T
    <2>1. Without(Append(t, e), D) = IF e \in D THEN Without(t, D) ELSE Append(Without(t, D), e)
      BY WithoutOfAppend
    <2>2. Without(t, D) \in Seq(S)
      BY WithoutType
    <2>3. Append(Without(t, D), e) # <<>>
      <3> DEFINE w == Without(t, D)
      <3>1. w \in Seq(S)
        BY <2>2
      <3> HIDE DEF w
      <3>2. Append(w, e) # <<>>
        BY <3>1
      <3> QED  BY <3>2 DEF w
    <2>4. ASSUME Without(Append(t, e), D) = <<>>
          PROVE  \A i \in 1..Len(Append(t, e)) : Append(t, e)[i] \in D
      <3>1. e \in D /\ Without(t, D) = <<>>
        BY <2>1, <2>3, <2>4
      <3>2. \A i \in 1..Len(t) : t[i] \in D
        BY <1>2, <3>1
      <3> QED  BY <3>1, <3>2
    <2>5. Append(t, e) \in Seq(S)
      OBVIOUS
    <2> QED  BY <2>4, <2>5
  <1> HIDE DEF T
  <1>3. s \in T
    BY <1>1, <1>2, SequencesAre
  <1> QED  BY <1>3 DEF T

LEMMA FindsEmpty ==
  ASSUME NEW s \in Seq(Chars), Len(s) < npos PROVE find(s, <<>>, 0) # npos
  <1> SUFFICES ASSUME find(s, <<>>, 0) = npos PROVE FALSE
    OBVIOUS
  <1>1. <<>> \in Seq(Chars) /\ Len(<<>>) = 0 /\ SubSeq(s, 1, 0) = <<>>
    OBVIOUS
  <1>2. Occurs(s, <<>>, 0)
    BY <1>1 DEF Occurs
  <1>3. 0 \in 0..(Len(s) - Len(<<>>))
    BY <1>1
  <1>4. \A p \in 0..(Len(s) - Len(<<>>)) : ~Occurs(s, <<>>, p)
    BY <1>1, FindIs
  <1> QED  BY <1>2, <1>3, <1>4

\* What a string has outside its pieces is not there to lose: split with one character that
\* the string neither begins with nor has twice in a row returns all the pieces.
LEMMA SplitReturnsAll ==
  ASSUME NEW s \in Seq(Chars), NEW t \in Seq(Chars), t # <<>>, Len(s) < npos, NEW out,
         SplitAsMeant(s, t, out), Len(t) = 1,
         \A i \in 1..(Len(PiecesAround(s, t)) - 1) : ~IsEmpty(PiecesAround(s, t)[i])
  PROVE  out = PiecesAround(s, t)
  <1> DEFINE parts == PiecesAround(s, t)
             n == Len(parts)
             last == parts[n]
             front == SubSeq(parts, 1, n - 1)
             SC == Seq(Chars)
             D == {<<>>}
  <1>1. parts \in Seq(SC) /\ parts # <<>>
    <2>1. 0 \in 0..Len(s)
      OBVIOUS
    <2> QED  BY <2>1, PiecesFromType DEF PiecesAround
  <1>2. /\ IsEmpty(Last(parts)) => out = Append(Whole(parts), <<>>)
        /\ ~IsEmpty(Last(parts)) => out = Whole(parts)
    BY DEF SplitAsMeant
  <1>3. \A i \in 1..(n - 1) : parts[i] # <<>>
    BY DEF IsEmpty
  <1> HIDE DEF parts, SC
  <1>4. /\ n \in Nat /\ n >= 1 /\ last \in SC /\ front \in Seq(SC) /\ Len(front) = n - 1
        /\ parts = Append(front, last) /\ \A i \in 1..(n - 1) : front[i] = parts[i]
    BY <1>1
  <1>5. Last(parts) = last
    BY DEF Last
  <1>6. CASE last = <<>>
    <2>1. \A i \in 1..Len(front) : front[i] \notin D
      BY <1>3, <1>4
    <2> HIDE DEF front, D, last, n
    <2>2. Without(front, D) = front
      BY <1>4, <2>1, WithoutNone
    <2>3. Without(Append(front, last), D) = IF last \in D THEN Without(front, D) ELSE Append(Without(front, D), last)
      BY <1>4, WithoutOfAppend
    <2>4. last \in D
      BY <1>6 DEF D
    <2>5. Whole(parts) = front
      BY <1>4, <2>2, <2>3, <2>4 DEF Whole, D
    <2>6. out = Append(front, <<>>)
      BY <1>2, <1>5, <1>6, <2>5 DEF IsEmpty
    <2>7. out = parts
      BY <1>4, <1>6, <2>6
    <2> QED  BY <2>7 DEF parts
  <1>7. CASE last # <<>>
    <2>1. \A i \in 1..Len(parts) : parts[i] \notin D
      <3>1. \A i \in 1..n : i \in 1..(n - 1) \/ i = n
        <4>1. n \in Nat
          BY <1>4
        <4> HIDE DEF n
        <4> QED  BY <4>1
      <3> QED  BY <1>3, <1>7, <3>1
    <2> HIDE DEF front, D, last, n
    <2>2. Without(parts, D) = parts
      BY <1>1, <2>1, WithoutNone
    <2>3. out = parts
      BY <1>2, <1>5, <1>7, <2>2 DEF IsEmpty, Whole, D
    <2> QED  BY <2>3 DEF parts
  <1> QED  BY <1>6, <1>7

\* replace reserves no more than a string can have, unless there is no piece: then the
\* string consists of separators of more than one character.
LEMMA ReservesTooMuch ==
  ASSUME NEW s \in Seq(Chars), NEW t \in Seq(Chars), NEW to \in Seq(Chars),
         Len(s) <= MaxText, Len(to) <= MaxTo, NEW out, Splitted(s, t, out),
         (Lengths(out) + (Len(out) - 1) * Len(to) + 1) % SizeRange > max_size
  PROVE  /\ Len(t) > 1 /\ Len(to) > 1
         /\ \A i \in 1..Len(PiecesAround(s, t)) : IsEmpty(PiecesAround(s, t)[i])
  <1> DEFINE n == Len(s)
             size == Lengths(out)
             k == Len(out)
             m == Len(to)
             between == (k - 1) * m
             parts == PiecesAround(s, t)
  <1>1. /\ n \in Nat /\ n <= MaxText /\ m \in Nat /\ m <= MaxTo
        /\ MaxText \in Nat /\ MaxTo \in Nat
        /\ MaxText * MaxTo \in Nat /\ SizeRange \in Nat /\ max_size \in Nat
        /\ MaxText + MaxText * MaxTo + 1 <= max_size
        /\ max_size + MaxTo < SizeRange - 1 /\ n < npos
    <2>1. \A a, b \in Nat : a * b \in Nat
      OBVIOUS
    <2>2. MaxText \in Nat /\ MaxTo \in Nat /\ MaxText * MaxTo \in Nat
      BY <2>1, Sizes_
    <2>3. n < npos
      BY Sizes_
    <2> QED  BY <2>2, <2>3, Sizes_
  <1>2. size \in 0..n /\ k <= n + 1 /\ out \in Seq(Seq(Chars)) /\ k \in Nat /\ t # <<>>
    BY DEF Splitted
  <1>3. out = <<>> /\ m > 1
    <2>1. ASSUME k >= 1 PROVE FALSE
      <3>1. between \in Nat /\ between <= MaxText * MaxTo
        <4>1. \A a, b, c, d \in Nat : a <= c /\ b <= d => a * b \in Nat /\ a * b <= c * d
          <5> TAKE a, b, c, d \in Nat
          <5> HAVE a <= c /\ b <= d
          <5>1. a * b <= c * b
            OBVIOUS
          <5>2. c * b <= c * d
            OBVIOUS
          <5>3. a * b \in Nat /\ c * b \in Nat /\ c * d \in Nat
            OBVIOUS
          <5> QED  BY <5>1, <5>2, <5>3
        <4>2. k - 1 \in Nat /\ k - 1 <= MaxText
          BY <1>1, <1>2, <2>1
        <4> HIDE DEF k, m
        <4> QED  BY <1>1, <4>1, <4>2
      <3> HIDE DEF size, between, n, m, k
      <3>2. size + between + 1 \in 0..max_size
        BY <1>1, <1>2, <3>1
      <3>3. 0 <= size + between + 1 /\ size + between + 1 < SizeRange
        BY <1>1, <3>2
      <3>4. (size + between + 1) % SizeRange = size + between + 1
        <4> DEFINE x == size + between + 1
        <4>1. x \in Int /\ 0 <= x /\ x < SizeRange /\ SizeRange > 0
          BY <1>1, <3>2, <3>3
        <4> HIDE DEF x
        <4>2. x % SizeRange = x
          BY <1>1, <4>1, SmallRemainder
        <4> QED  BY <4>2 DEF x
      <3>5. (size + between + 1) % SizeRange > max_size
        BY DEF size, between, k, m
      <3> QED  BY <1>1, <3>2, <3>4, <3>5
    <2>2. out = <<>> /\ k = 0
      BY <1>2, <2>1
    <2>3. size = 0
      BY <2>2, LengthsOfEmpty
    <2>4. between = -m
      BY <1>1, <2>2
    <2>5. (1 - m) % SizeRange > max_size
      <3>1. (size + between + 1) % SizeRange > max_size
        OBVIOUS
      <3>2. size + between + 1 = 1 - m
        <4> HIDE DEF size, between, m
        <4> QED  BY <1>1, <2>3, <2>4
      <3> HIDE DEF size, between, m
      <3> QED  BY <3>1, <3>2
    <2> HIDE DEF m
    <2>6. ~(m > 1) => 1 - m \in 0..1 /\ 0 <= 1 - m /\ 1 - m < SizeRange
      BY <1>1
    <2>7. ~(m > 1) => (1 - m) % SizeRange = 1 - m
      BY <1>1, <2>6, SmallRemainder, SMTT(60)
    <2>8. ASSUME ~(m > 1) PROVE FALSE
      <3>1. 1 - m \in 0..1 /\ 1 - m > max_size
        BY <2>5, <2>6, <2>7, <2>8, Zenon
      <3>2. max_size \in Int /\ max_size >= 1
        BY <1>1
      <3> QED  BY <3>1, <3>2
    <2> QED  BY <2>2, <2>8, Zenon
  <1>4. parts \in Seq(Seq(Chars)) /\ parts # <<>>
    <2>1. 0 \in 0..n
      BY <1>1
    <2> QED  BY <1>1, <1>2, <2>1, PiecesFromType DEF PiecesAround
  <1>5. Whole(parts) \in Seq(Seq(Chars))
    BY <1>4, WithoutType DEF Whole
  <1> DEFINE whole == Whole(parts)
  <1>6. Append(whole, <<>>) # <<>>
    <2>1. whole \in Seq(Seq(Chars))
      BY <1>5
    <2> HIDE DEF whole
    <2>2. Len(Append(whole, <<>>)) = Len(whole) + 1 /\ Len(whole) \in Nat
      <3>1. <<>> \in Seq(Chars)
        OBVIOUS
      <3> QED  BY <2>1, <3>1
    <2>3. Len(<<>>) = 0
      OBVIOUS
    <2>4. Len(Append(whole, <<>>)) # 0
      BY <2>2
    <2> QED  BY <2>3, <2>4
  <1>7. /\ out \in {whole, Append(whole, <<>>)}
        /\ IsEmpty(Last(parts)) => out = IF Len(t) = 1 THEN Append(whole, <<>>) ELSE whole
    BY DEF Splitted, SplitAsMeant
  <1>8. whole = <<>>
    BY <1>3, <1>6, <1>7
  <1>9. \A i \in 1..Len(parts) : parts[i] = <<>>
    <2> HIDE DEF parts
    <2>1. \A i \in 1..Len(parts) : parts[i] \in {<<>>}
      BY <1>4, <1>8, WithoutEmptied DEF Whole
    <2> QED  BY <2>1
  <1>10. IsEmpty(Last(parts))
    <2> HIDE DEF parts
    <2>1. Len(parts) \in 1..Len(parts)
      BY <1>4
    <2> QED  BY <1>9, <2>1 DEF Last, IsEmpty
  <1>11. Len(t) # 1
    BY <1>3, <1>6, <1>7, <1>10
  <1>12. Len(t) \in Nat /\ Len(t) # 0
    BY <1>2
  <1>13. Len(t) > 1
    <2> DEFINE x == Len(t)
    <2>1. x \in Nat /\ x # 0 /\ x # 1
      BY <1>11, <1>12
    <2> HIDE DEF x
    <2>2. x > 1
      BY <2>1
    <2> QED  BY <2>2 DEF x
  <1>14. \A i \in 1..Len(parts) : IsEmpty(parts[i])
    BY <1>9 DEF IsEmpty
  <1> QED  BY <1>3, <1>13, <1>14
-----------------------------------------------------------------------------
\* What the erasing leaves: it takes whole occurrences away and nothing else.
Removing(s, o, t) ==
    /\ s \in Seq(Chars) /\ Len(s) <= Len(o)
    /\ Outside(s, t) = Outside(o, t)
    /\ \E k \in Nat : Len(o) = Len(s) + k * Len(t)

LEMMA RemoveBegins ==
  ASSUME NEW s \in Seq(Chars), NEW t \in Seq(Chars)
  PROVE  Removing(s, s, t)
  <1>1. Len(s) \in Nat /\ Len(t) \in Nat
    OBVIOUS
  <1>2. Len(s) = Len(s) + 0 * Len(t)
    BY <1>1
  <1> QED  BY <1>1, <1>2 DEF Removing

LEMMA RemoveRound ==
  ASSUME NEW o \in Seq(Chars), NEW s, NEW t \in Seq(Chars), Len(o) < npos,
         Removing(s, o, t), find(s, t, 0) # npos
  PROVE  Removing(Erase(s, find(s, t, 0), Len(t)), o, t)
  <1> DEFINE n == Len(s)
             m == Len(t)
             p == find(s, t, 0)
             a == SubSeq(s, 1, p)
             b == SubSeq(s, p + m + 1, n)
             D == ToSet(t)
  <1>1. s \in Seq(Chars) /\ n \in Nat /\ m \in Nat /\ n <= Len(o) /\ Len(o) \in Nat /\ npos \in Int
    BY StringExAssumption, SMTT(60) DEF Removing, npos
  <1>2. p \in 0..(n - m) /\ SubSeq(s, p + 1, p + m) = t
    <2>1. n < npos
      BY <1>1
    <2>2. p \in 0..(n - m) /\ Occurs(s, t, p)
      BY <1>1, <2>1, FindIs
    <2> QED  BY <2>2 DEF Occurs
  <1> HIDE DEF p
  <1>3. a \in Seq(Chars) /\ b \in Seq(Chars) /\ Len(a) = p /\ Len(b) = n - m - p
    BY <1>1, <1>2
  <1>4. s = (a \o t) \o b /\ Len(a \o b) = n - m
    <2> DEFINE c == (a \o t) \o b
    <2>1. /\ a \o t \in Seq(Chars) /\ Len(a \o t) = p + m
          /\ \A i \in 1..p : (a \o t)[i] = a[i]
          /\ \A i \in 1..m : (a \o t)[p + i] = t[i]
      <3>1. a \in Seq(Chars) /\ t \in Seq(Chars) /\ Len(a) = p /\ Len(t) = m
        BY <1>3
      <3> HIDE DEF a, m
      <3>2. a \o t \in Seq(Chars) /\ Len(a \o t) = Len(a) + Len(t)
        BY <3>1
      <3>3. \A i \in 1..Len(a) : (a \o t)[i] = a[i]
        BY <3>1
      <3>4. \A i \in 1..Len(t) : (a \o t)[Len(a) + i] = t[i]
        BY <3>1
      <3> QED  BY <3>1, <3>2, <3>3, <3>4
    <2>2. /\ c \in Seq(Chars) /\ Len(c) = p + m + Len(b)
          /\ \A i \in 1..(p + m) : c[i] = (a \o t)[i]
          /\ \A i \in 1..Len(b) : c[p + m + i] = b[i]
      <3> DEFINE u == a \o t
      <3>1. u \in Seq(Chars) /\ Len(u) = p + m
        BY <2>1
      <3> HIDE DEF u
      <3>2. /\ u \o b \in Seq(Chars) /\ Len(u \o b) = Len(u) + Len(b)
            /\ \A i \in 1..Len(u) : (u \o b)[i] = u[i]
            /\ \A i \in 1..Len(b) : (u \o b)[Len(u) + i] = b[i]
        <4>1. b \in Seq(Chars)
          BY <1>3
        <4>2. u \in Seq(Chars)
          BY <3>1
        <4> QED  BY <4>1, <4>2, ConcatIs
      <3>3. c = u \o b
        BY DEF u
      <3> HIDE DEF c, m
      <3>4. /\ c \in Seq(Chars) /\ Len(c) = p + m + Len(b)
            /\ \A i \in 1..(p + m) : c[i] = u[i]
            /\ \A i \in 1..Len(b) : c[p + m + i] = b[i]
        BY <3>1, <3>2, <3>3
      <3> QED  BY <3>4 DEF u
    <2>3. \A i \in 1..p : a[i] = s[i]
      BY <1>1, <1>2
    <2>4. \A i \in 1..m : t[i] = s[p + i]
      <3>1. \A i \in 1..m : SubSeq(s, p + 1, p + m)[i] = s[p + i]
        BY <1>1, <1>2
      <3> QED  BY <1>2, <3>1
    <2>5. \A i \in 1..(n - m - p) : b[i] = s[p + m + i]
      BY <1>1, <1>2
    <2>6. Len(a \o b) = p + (n - m - p)
      BY <1>3, ConcatIs
    <2> DEFINE k == Len(b)
    <2>7. k = n - m - p
      BY <1>3
    <2>8. Len(c) = n
      <3> HIDE DEF c, k, n, m
      <3>1. Len(c) = p + m + k
        BY <2>2 DEF k
      <3> QED  BY <1>1, <1>2, <2>7, <3>1
    <2>9. ASSUME NEW i \in 1..n PROVE c[i] = s[i]
      <3>1. ASSUME i <= p PROVE c[i] = s[i]
        <4>1. i \in 1..p /\ i \in 1..(p + m)
          BY <1>1, <1>2, <3>1
        <4> HIDE DEF c, n, m
        <4> QED  BY <2>1, <2>2, <2>3, <4>1
      <3>2. ASSUME i > p, i <= p + m PROVE c[i] = s[i]
        <4>1. i \in 1..(p + m) /\ i - p \in 1..m /\ p + (i - p) = i
          BY <1>1, <1>2, <3>2
        <4> HIDE DEF c, n, m
        <4>2. c[i] = (a \o t)[i] /\ (a \o t)[p + (i - p)] = t[i - p] /\ t[i - p] = s[p + (i - p)]
          BY <2>1, <2>2, <2>4, <4>1
        <4> QED  BY <4>1, <4>2
      <3>3. ASSUME i > p + m PROVE c[i] = s[i]
        <4>1. i - p - m \in 1..(n - m - p) /\ p + m + (i - p - m) = i
          BY <1>1, <1>2, <3>3
        <4> HIDE DEF c, n, m
        <4>2. i - p - m \in 1..Len(b)
          BY <2>7, <4>1
        <4>3. c[p + m + (i - p - m)] = b[i - p - m] /\ b[i - p - m] = s[p + m + (i - p - m)]
          BY <2>2, <2>5, <4>1, <4>2
        <4> QED  BY <4>1, <4>3
      <3>4. i <= p \/ (i > p /\ i <= p + m) \/ i > p + m
        BY <1>1, <1>2
      <3> QED  BY <3>1, <3>2, <3>3, <3>4
    <2>10. c \in Seq(Chars) /\ Len(c) = Len(s) /\ \A i \in 1..Len(s) : c[i] = s[i]
      BY <2>2, <2>8, <2>9
    <2> HIDE DEF c
    <2>11. c = s
      BY <1>1, <2>10
    <2>12. p + (n - m - p) = n - m
      <3> HIDE DEF n, m
      <3> QED  BY <1>1, <1>2
    <2> QED  BY <2>6, <2>11, <2>12 DEF c
  <1>5. Erase(s, p, m) = a \o b
    BY DEF Erase
  <1> HIDE DEF a, b
  <1>6. Without(s, D) = Without(a \o b, D)
    <2>1. Without(t, D) = <<>>
      <3>1. \A i \in 1..Len(t) : t[i] \in D
        BY DEF ToSet
      <3> HIDE DEF D
      <3> QED  BY <3>1, WithoutAll
    <2> HIDE DEF D
    <2>2. a \o t \in Seq(Chars)
      BY <1>3
    <2>3. Without((a \o t) \o b, D) = Without(a \o t, D) \o Without(b, D)
      BY <1>3, <2>2, WithoutOfConcat
    <2>4. Without(a \o t, D) = Without(a, D) \o Without(t, D)
      BY <1>3, WithoutOfConcat
    <2>5. Without(a, D) \o <<>> = Without(a, D)
      <3>1. Without(a, D) \in Seq(Chars)
        BY <1>3, WithoutType
      <3> QED  BY <3>1
    <2>6. Without(a \o b, D) = Without(a, D) \o Without(b, D)
      BY <1>3, WithoutOfConcat
    <2>7. Without(s, D) = Without((a \o t) \o b, D)
      BY <1>4
    <2> QED  BY <2>1, <2>3, <2>4, <2>5, <2>6, <2>7
  <1>7. Outside(a \o b, t) = Outside(o, t)
    BY <1>6 DEF Outside, Removing
  <1>8. \E k \in Nat : Len(o) = Len(a \o b) + k * m
    <2>1. PICK k \in Nat : Len(o) = n + k * m
      BY DEF Removing
    <2>2. Len(a \o b) = n - m
      BY <1>4
    <2>3. (k + 1) * m = k * m + m /\ k * m \in Nat /\ k + 1 \in Nat
      BY <1>1
    <2> HIDE DEF n, m
    <2>4. Len(o) = Len(a \o b) + (k + 1) * m
      BY <1>1, <2>1, <2>2, <2>3
    <2> QED  BY <2>3, <2>4
  <1>9. a \o b \in Seq(Chars) /\ Len(a \o b) <= Len(o)
    <2>1. Len(a \o b) = n - m
      BY <1>4
    <2>2. n - m <= Len(o)
      <3> HIDE DEF n, m
      <3> QED  BY <1>1
    <2> QED  BY <1>3, <2>1, <2>2
  <1>10. Removing(a \o b, o, t)
    BY <1>7, <1>8, <1>9 DEF Removing
  <1> QED  BY <1>5, <1>10 DEF p

LEMMA RemoveEnds ==
  ASSUME NEW o \in Seq(Chars), NEW s, NEW t \in Seq(Chars), Len(o) < npos,
         Removing(s, o, t), find(s, t, 0) = npos
  PROVE  (Len(o) - Len(s)) % Len(t) = 0
  <1>1. s \in Seq(Chars) /\ Len(s) <= Len(o)
    BY DEF Removing
  <1>2. t # <<>>
    <2>1. Len(s) < npos
      BY <1>1, StringExAssumption DEF npos
    <2> QED  BY <1>1, <2>1, FindsEmpty
  <1>3. PICK k \in Nat : Len(o) = Len(s) + k * Len(t)
    BY DEF Removing
  <1> DEFINE m == Len(t)
             d == Len(o) - Len(s)
  <1>4. m \in Nat /\ m > 0 /\ k * m \in Int
    BY <1>2
  <1>5. d = k * m
    <2> DEFINE x == Len(o)
               y == Len(s)
    <2>1. x \in Nat /\ y \in Nat /\ x = y + k * m
      BY <1>1, <1>3
    <2> HIDE DEF x, y, m
    <2>2. x - y = k * m
      BY <1>4, <2>1
    <2> QED  BY <2>2 DEF x, y
  <1> HIDE DEF m, d
  <1>6. (k * m) % m = 0
    BY <1>4, MultipleHasNoRemainder
  <1>7. d % m = 0
    BY <1>5, <1>6
  <1> QED  BY <1>7 DEF d, m
-----------------------------------------------------------------------------
Thrown(s, t, to) ==
    /\ Len(t) > 1 /\ Len(to) > 1
    /\ \A i \in 1..Len(PiecesAround(s, t)) : IsEmpty(PiecesAround(s, t)[i])

Replaced(s, t, to, result) ==
    LET parts == PiecesAround(s, t)
    IN  Len(t) = 1 /\ (\A i \in 1..(Len(parts) - 1) : ~IsEmpty(parts[i])) => result = Joined(parts, to)

Removed(s, t, result) ==
    /\ find(result, t, 0) = npos
    /\ Outside(result, t) = Outside(s, t)
    /\ (Len(s) - Len(result)) % Len(t) = 0

\* Where a call is to where its loops have come.
StringInv ==
    /\ original \in Seq(Chars) /\ Len(original) <= MaxText
    /\ pc \in {"idle", "remove", "split", "join", "done", "thrown"}
    /\ pc = "idle" => /\ text = original /\ request = NoCall
                      /\ current = 0 /\ pieces = <<>>
    /\ pc # "idle" => request \in Calls \cup {NoCall}
    /\ pc = "remove" => request \in Calls /\ request.op = "remove" /\ Removing(text, original, request.target)
    /\ pc = "split" => /\ request \in Calls /\ request.op # "remove" /\ text = original
                       /\ Splitting(original, request.target, current, pieces)
    /\ pc = "join" => /\ request \in Calls /\ request.op = "replace"
                      /\ Splitted(original, request.target, pieces)
    /\ pc = "thrown" => request.op = "replace" /\ Thrown(original, request.target, request.to)
    /\ pc = "done" => /\ request.op = "split" => SplitAsMeant(original, request.target, pieces)
                      /\ request.op = "replace" => Replaced(original, request.target, request.to, text)
                      /\ request.op = "remove" => Removed(original, request.target, text)

LEMMA StringInitially == StringInit => StringInv
  <1> SUFFICES ASSUME StringInit PROVE StringInv
    OBVIOUS
  <1>1. \A n \in Nat : \A s \in BoundedSeq(Chars, n) : s \in Seq(Chars) /\ Len(s) <= n
    BY DEF BoundedSeq, SeqOf
  <1>2. text \in Seq(Chars) /\ Len(text) <= MaxText
    BY <1>1, StringExAssumption DEF StringInit
  <1>3. pc = "idle" /\ original = text
    BY DEF StringInit
  <1> QED  BY <1>2, <1>3 DEF StringInit, StringInv

LEMMA CallKeeps ==
  ASSUME StringInv, NEW c \in Calls, Call(c) PROVE StringInv'
  <1>1. /\ pc = "idle" /\ request' = c /\ text' = text /\ current' = current /\ pieces' = pieces
        /\ original' = original /\ pc' = IF c.op = "remove" THEN "remove" ELSE "split"
    BY DEF Call
  <1>2. /\ text = original /\ current = 0 /\ pieces = <<>>
        /\ original \in Seq(Chars) /\ Len(original) <= MaxText
    BY <1>1 DEF StringInv
  <1>3. c.op \in {"remove", "split", "replace"} /\ c.target \in Seq(Chars)
    BY CallsAre
  <1>4. Len(original) < npos
    BY <1>2, Sizes_
  <1>5. CASE c.op = "remove"
    <2>1. Removing(text', original', c.target)
      BY <1>1, <1>2, <1>3, RemoveBegins
    <2>2. pc' = "remove"
      BY <1>1, <1>5
    <2> QED  BY <1>1, <1>2, <1>5, <2>1, <2>2 DEF StringInv
  <1>6. CASE c.op # "remove"
    <2>1. Splitting(original', c.target, current', pieces')
      BY <1>1, <1>2, <1>3, <1>4, SplitBegins
    <2>2. pc' = "split"
      BY <1>1, <1>6
    <2> QED  BY <1>1, <1>2, <1>6, <2>1, <2>2 DEF StringInv
  <1> QED  BY <1>5, <1>6

LEMMA MapCharsKeeps ==
  ASSUME StringInv, NEW f, MapChars(f) PROVE StringInv'
  <1>1. pc = "idle" /\ pc' = "done" /\ request' = request /\ original' = original
    BY DEF MapChars
  <1>2. request = NoCall /\ original \in Seq(Chars) /\ Len(original) <= MaxText
    BY <1>1 DEF StringInv
  <1>3. request'.op = "none"
    BY <1>1, <1>2 DEF NoCall
  <1> QED  BY <1>1, <1>2, <1>3 DEF StringInv

LEMMA RemoveNextKeeps ==
  ASSUME StringInv, RemoveNext PROVE StringInv'
  <1> DEFINE t == request.target
             pos == find(text, t, 0)
  <1>1. /\ pc = "remove" /\ request' = request /\ original' = original
        /\ current' = current /\ pieces' = pieces
        /\ IF pos = npos THEN pc' = "done" /\ text' = text
           ELSE text' = Erase(text, pos, Len(t)) /\ pc' = pc
    BY DEF RemoveNext, EraseFound
  <1>2. /\ request \in Calls /\ request.op = "remove" /\ Removing(text, original, t)
        /\ original \in Seq(Chars) /\ Len(original) <= MaxText
    BY <1>1 DEF StringInv
  <1>3. t \in Seq(Chars) /\ Len(original) < npos
    BY <1>2, CallsAre, Sizes_
  <1> HIDE DEF t
  <1>4. CASE pos = npos
    <2>1. (Len(original) - Len(text)) % Len(t) = 0
      BY <1>2, <1>3, <1>4, RemoveEnds
    <2>2. Removed(original, t, text)
      BY <1>2, <1>4, <2>1 DEF Removed, Removing
    <2>3. pc' = "done" /\ text' = text
      BY <1>1, <1>4
    <2> QED  BY <1>1, <1>2, <2>2, <2>3 DEF StringInv, t
  <1>5. CASE pos # npos
    <2>1. Removing(Erase(text, pos, Len(t)), original, t)
      BY <1>2, <1>3, <1>5, RemoveRound
    <2>2. pc' = "remove" /\ Removing(text', original, t)
      BY <1>1, <1>5, <2>1
    <2> QED  BY <1>1, <1>2, <2>2 DEF StringInv, t
  <1> QED  BY <1>4, <1>5

LEMMA SplitFoundKeeps ==
  ASSUME StringInv, SplitFound PROVE StringInv'
  <1> DEFINE t == request.target
             end == find(original, t, current)
             more == IF end - current > 0 THEN Append(pieces, SubSeq(original, current + 1, end)) ELSE pieces
  <1>1. /\ pc = "split" /\ request \in Calls /\ request.op # "remove" /\ text = original
        /\ Splitting(original, t, current, pieces)
        /\ original \in Seq(Chars) /\ Len(original) <= MaxText
    BY DEF StringInv, SplitFound
  <1>2. /\ end # npos /\ current' = end + Len(t) /\ pieces' = more
        /\ text' = text /\ request' = request /\ pc' = pc /\ original' = original
    BY <1>1 DEF SplitFound, Behind
  <1>3. t \in Seq(Chars) /\ Len(original) < npos
    BY <1>1, CallsAre, Sizes_
  <1> HIDE DEF t
  <1>4. Splitting(original, t, end + Len(t), more)
    BY <1>1, <1>2, <1>3, SplitRound
  <1> HIDE DEF more, end
  <1>5. Splitting(original', request'.target, current', pieces')
    BY <1>2, <1>4 DEF t
  <1>6. pc' = "split" /\ text' = original'
    BY <1>1, <1>2
  <1> QED  BY <1>1, <1>2, <1>5, <1>6 DEF StringInv

LEMMA SplitEndKeeps ==
  ASSUME StringInv, SplitEnd PROVE StringInv'
  <1> DEFINE t == request.target
             last == IF current < Len(original)
                     THEN <<SubSeq(original, current + 1, Len(original))>> ELSE <<>>
             trailing == IF find_last_of(original, t) = (Len(original) - Len(t)) % SizeRange
                         THEN << <<>> >> ELSE <<>>
             out == pieces \o last \o trailing
  <1>1. /\ pc = "split" /\ request \in Calls /\ request.op # "remove" /\ text = original
        /\ Splitting(original, t, current, pieces)
        /\ original \in Seq(Chars) /\ Len(original) <= MaxText
    BY DEF StringInv, SplitEnd
  <1>2. /\ find(original, t, current) = npos /\ pieces' = out
        /\ text' = text /\ request' = request /\ original' = original
        /\ pc' = IF request.op = "replace" THEN "join" ELSE "done"
    BY <1>1 DEF SplitEnd, LastPiece, TrailingPiece
  <1>3. t \in Seq(Chars) /\ Len(t) <= MaxTarget /\ request.op \in {"split", "replace"}
    BY <1>1, CallsAre
  <1> HIDE DEF t
  <1>4. Splitted(original, t, out)
    BY <1>1, <1>2, <1>3, SplitEnds
  <1> HIDE DEF out
  <1>5. Splitted(original', request'.target, pieces')
    BY <1>2, <1>4 DEF t
  <1>6. CASE request.op = "replace"
    <2>1. pc' = "join"
      BY <1>2, <1>6
    <2> QED  BY <1>1, <1>2, <1>5, <1>6, <2>1 DEF StringInv
  <1>7. CASE request.op = "split"
    <2>1. pc' = "done"
      BY <1>2, <1>7
    <2>2. SplitAsMeant(original', request'.target, pieces')
      BY <1>5 DEF Splitted
    <2> QED  BY <1>1, <1>2, <1>7, <2>1, <2>2 DEF StringInv
  <1> QED  BY <1>3, <1>6, <1>7

LEMMA ReplaceJoinKeeps ==
  ASSUME StringInv, ReplaceJoin PROVE StringInv'
  <1> DEFINE t == request.target
             to == request.to
             parts == PiecesAround(original, t)
  <1>1. /\ pc = "join" /\ request \in Calls /\ request.op = "replace"
        /\ Splitted(original, t, pieces)
        /\ original \in Seq(Chars) /\ Len(original) <= MaxText
    BY DEF StringInv, ReplaceJoin
  <1>2. /\ request' = request /\ original' = original /\ pieces' = pieces
        /\ IF (Lengths(pieces) + (Len(pieces) - 1) * Len(to) + 1) % SizeRange > max_size
           THEN pc' = "thrown" ELSE text' = Joined(pieces, to) /\ pc' = "done"
    BY DEF ReplaceJoin, Reserved
  <1>3. t \in Seq(Chars) /\ to \in Seq(Chars) /\ Len(to) <= MaxTo /\ Len(original) < npos
    BY <1>1, CallsAre, Sizes_
  <1> HIDE DEF t, to
  <1> DEFINE reserved == (Lengths(pieces) + (Len(pieces) - 1) * Len(to) + 1) % SizeRange
  <1>4. CASE reserved > max_size
    <2>1. Thrown(original, t, to)
      BY <1>1, <1>3, <1>4, ReservesTooMuch DEF Thrown
    <2> HIDE DEF reserved
    <2>2. pc' = "thrown"
      BY <1>2, <1>4 DEF reserved
    <2> QED  BY <1>1, <1>2, <2>1, <2>2 DEF StringInv, t, to
  <1>5. CASE ~(reserved > max_size)
    <2>1. text' = Joined(pieces, to) /\ pc' = "done"
      BY <1>2, <1>5
    <2>2. ASSUME Len(t) = 1, \A i \in 1..(Len(parts) - 1) : ~IsEmpty(parts[i])
          PROVE  pieces = parts
      BY <1>1, <1>3, <2>2, SplitReturnsAll DEF Splitted
    <2>3. Replaced(original, t, to, text')
      BY <2>1, <2>2 DEF Replaced
    <2> QED  BY <1>1, <1>2, <2>1, <2>3 DEF StringInv, t, to
  <1> QED  BY <1>4, <1>5

\* The inductive invariant of StringEx: what the pieces, the position and the string of
\* a call in progress have to do with the string it was called on (String.hpp 36-140).
THEOREM StringInvHolds == StringSafetySpec => []StringInv
  <1>1. StringInv /\ [StringNext]_stringVars => StringInv'
    <2> SUFFICES ASSUME StringInv, [StringNext]_stringVars PROVE StringInv'
      OBVIOUS
    <2>1. ASSUME NEW c \in Calls, Call(c) PROVE StringInv'
      BY <2>1, CallKeeps
    <2>2. ASSUME NEW f, MapChars(f) PROVE StringInv'
      BY <2>2, MapCharsKeeps
    <2>3. CASE RemoveNext
      BY <2>3, RemoveNextKeeps
    <2>4. CASE SplitFound
      BY <2>4, SplitFoundKeeps
    <2>5. CASE SplitEnd
      BY <2>5, SplitEndKeeps
    <2>6. CASE ReplaceJoin
      BY <2>6, ReplaceJoinKeeps
    <2>7. CASE UNCHANGED stringVars
      BY <2>7 DEF stringVars, StringInv
    <2> QED  BY <2>1, <2>2, <2>3, <2>4, <2>5, <2>6, <2>7 DEF StringNext, Round
  <1> QED  BY <1>1, StringInitially, PTL DEF StringSafetySpec

\* Whatever the string and the arguments, split, replace and remove return what
\* SplitIsExact, ReplaceIsExact and RemoveIsExact say (String.hpp 36-140).
THEOREM SearchesAreExact == StringSafetySpec => []ResultsAreExact
  <1>1. StringInv => ResultsAreExact
    <2> SUFFICES ASSUME StringInv PROVE ResultsAreExact
      OBVIOUS
    <2>1. SplitIsExact
      <3> SUFFICES ASSUME pc = "done", request.op = "split" PROVE SplitIsExact
        BY DEF SplitIsExact, Answered
      <3>1. SplitAsMeant(original, request.target, pieces)
        BY DEF StringInv
      <3> QED  BY <3>1 DEF SplitIsExact, SplitAsMeant, Whole
    <2>2. ReplaceIsExact
      <3>1. ASSUME Answered("replace") PROVE Replaced(original, request.target, request.to, text)
        BY <3>1 DEF StringInv, Answered
      <3>2. ASSUME pc = "thrown" PROVE Thrown(original, request.target, request.to)
        BY <3>2 DEF StringInv
      <3> QED  BY <3>1, <3>2 DEF ReplaceIsExact, Replaced, Thrown
    <2>3. RemoveIsExact
      <3>1. ASSUME Answered("remove") PROVE Removed(original, request.target, text)
        BY <3>1 DEF StringInv, Answered
      <3> QED  BY <3>1 DEF RemoveIsExact, Removed
    <2> QED  BY <2>1, <2>2, <2>3 DEF ResultsAreExact
  <1> QED  BY <1>1, StringInvHolds, PTL

\* A call of remove or of a function that splits, with nothing to search for.
SearchesForNothing == pc \in {"remove", "split"} /\ request.target = <<>>

LEMMA GoesOnForEver ==
  ASSUME StringInv, SearchesForNothing, [StringNext]_stringVars PROVE SearchesForNothing'
  <1>1. pc = "remove" \/ pc = "split"
    BY DEF SearchesForNothing
  <1>2. CASE pc = "remove"
    <2>0. Removing(text, original, request.target) /\ original \in Seq(Chars) /\ Len(original) <= MaxText
      BY <1>2 DEF StringInv
    <2>1. text \in Seq(Chars) /\ Len(text) < npos
      <3>1. text \in Seq(Chars) /\ Len(text) <= Len(original)
        BY <2>0 DEF Removing
      <3> QED  BY <2>0, <3>1, Sizes_
    <2>2. find(text, request.target, 0) # npos
      BY <2>1, FindsEmpty DEF SearchesForNothing
    <2>3. UNCHANGED <<pc, request>>
      BY <1>2, <2>2 DEF StringNext, Call, MapChars, Round, RemoveNext, SplitFound, SplitEnd, ReplaceJoin,
                        EraseFound, stringVars
    <2> QED  BY <2>3 DEF SearchesForNothing
  <1>3. CASE pc = "split"
    <2>0. /\ Splitting(original, request.target, current, pieces) /\ text = original
          /\ original \in Seq(Chars) /\ Len(original) <= MaxText
      BY <1>3 DEF StringInv
    <2>1. text \in Seq(Chars) /\ Len(text) < npos /\ current = 0
      <3>1. current = 0
        BY <2>0 DEF Splitting, SearchesForNothing
      <3> QED  BY <2>0, <3>1, Sizes_
    <2>2. find(text, request.target, current) # npos
      BY <2>1, FindsEmpty DEF SearchesForNothing
    <2>3. UNCHANGED <<pc, request>>
      BY <1>3, <2>2 DEF StringNext, Call, MapChars, Round, RemoveNext, SplitFound, SplitEnd, ReplaceJoin,
                        stringVars
    <2> QED  BY <2>3 DEF SearchesForNothing
  <1> QED  BY <1>1, <1>2, <1>3

\* Whatever the string: remove, split and replace never return when they are called with an
\* empty target (String.hpp 43, 88), the half of CallsEnd that is a safety property.
THEOREM EmptyTargetsNeverEnd ==
  StringSafetySpec => [](pc \in {"remove", "split"} /\ request.target = <<>> => [](pc \notin {"done", "thrown"}))
  <1>1. StringInv /\ SearchesForNothing /\ [StringNext]_stringVars => SearchesForNothing'
    BY GoesOnForEver
  <1>2. SearchesForNothing => pc \notin {"done", "thrown"}
    BY DEF SearchesForNothing
  <1>3. pc \in {"remove", "split"} /\ request.target = <<>> => SearchesForNothing
    BY DEF SearchesForNothing
  <1> QED  BY <1>1, <1>2, <1>3, StringInvHolds, PTL DEF StringSafetySpec
-----------------------------------------------------------------------------
Bytes == 0..255

\* A function defined by recursion over the numbers up to n exists.
Recursed(f, S, n, c, step) ==
    /\ f \in [0..n -> S] /\ f[0] = c
    /\ \A i \in 1..n : f[i] = step[<<f[i - 1], i>>]

LEMMA Recursion ==
  ASSUME NEW S, NEW n \in Nat, NEW c \in S, NEW step \in [S \X (1..n) -> S]
  PROVE  \E f : Recursed(f, S, n, c, step)
  <1> DEFINE By(k, f) == /\ f \in [0..k -> S] /\ f[0] = c
                         /\ \A i \in 1..k : f[i] = step[<<f[i - 1], i>>]
             T == {k \in 0..n : \E f : By(k, f)}
  <1>1. 0 \in T
    <2>1. By(0, [i \in 0..0 |-> c])
      OBVIOUS
    <2> HIDE DEF By
    <2> QED  BY <2>1
  <1>2. ASSUME NEW k \in 0..(n - 1), k \in T PROVE k + 1 \in T
    <2>1. PICK f : By(k, f)
      BY <1>2
    <2>2. k \in Nat /\ k + 1 \in 0..n /\ k + 1 \in 1..n
      BY <1>2
    <2> DEFINE x == step[<<f[k], k + 1>>]
               g == [i \in 0..(k + 1) |-> IF i = k + 1 THEN x ELSE f[i]]
    <2>3. f[k] \in S /\ \A i \in 0..k : f[i] \in S
      BY <2>1, <2>2
    <2>4. x \in S
      BY <2>2, <2>3
    <2>5. g[k + 1] = x /\ \A i \in 0..k : g[i] = f[i]
      BY <2>2
    <2>6. g \in [0..(k + 1) -> S]
      <3>1. \A i \in 0..(k + 1) : i = k + 1 \/ i \in 0..k
        BY <2>2
      <3>2. \A i \in 0..(k + 1) : (IF i = k + 1 THEN x ELSE f[i]) \in S
        <4> HIDE DEF x
        <4> QED  BY <2>3, <2>4, <3>1
      <3> HIDE DEF x
      <3> QED  BY <3>2
    <2>7. g[0] = c
      <3>1. 0 \in 0..k
        BY <2>2
      <3> HIDE DEF g
      <3> QED  BY <2>1, <2>5, <3>1
    <2>8. ASSUME NEW i \in 1..(k + 1) PROVE g[i] = step[<<g[i - 1], i>>]
      <3>1. CASE i = k + 1
        <4>1. i - 1 = k /\ k \in 0..k
          BY <2>2, <3>1
        <4> HIDE DEF g
        <4> QED  BY <2>5, <3>1, <4>1
      <3>2. CASE i # k + 1
        <4>1. i \in 1..k /\ i \in 0..k /\ i - 1 \in 0..k
          BY <2>2, <3>2
        <4> HIDE DEF g
        <4> QED  BY <2>1, <2>5, <4>1
      <3> QED  BY <3>1, <3>2
    <2> HIDE DEF g
    <2>9. By(k + 1, g)
      BY <2>6, <2>7, <2>8
    <2> HIDE DEF By
    <2> QED  BY <2>2, <2>9
  <1> HIDE DEF T
  <1>3. n \in T
    <2>1. n \in 0..n /\ 0..n \subseteq T
      BY <1>1, <1>2, NumbersAre
    <2> QED  BY <2>1
  <1>4. PICK f : By(n, f)
    BY <1>3 DEF T
  <1> QED  BY <1>4 DEF Recursed
-----------------------------------------------------------------------------
LEMMA ShortSequences ==
  ASSUME NEW S, NEW g \in Seq(S)
  PROVE  /\ Len(g) = 1 => g = <<g[1]>>
         /\ Len(g) = 2 => g = <<g[1], g[2]>>
         /\ Len(g) = 3 => g = <<g[1], g[2], g[3]>>
  <1>1. ASSUME Len(g) = 1 PROVE g = <<g[1]>>
    BY <1>1
  <1>2. ASSUME Len(g) = 2 PROVE g = <<g[1], g[2]>>
    <2> DEFINE h == <<g[1], g[2]>>
    <2>1. g[1] \in S /\ g[2] \in S
      BY <1>2
    <2>2. h \in Seq(S) /\ Len(h) = 2 /\ h[1] = g[1] /\ h[2] = g[2]
      BY <2>1
    <2> HIDE DEF h
    <2>3. \A i \in 1..Len(g) : i = 1 \/ i = 2
      BY <1>2
    <2>4. \A i \in 1..Len(g) : g[i] = h[i]
      BY <2>2, <2>3
    <2>5. g = h
      BY <1>2, <2>2, <2>4
    <2> QED  BY <2>5 DEF h
  <1>3. ASSUME Len(g) = 3 PROVE g = <<g[1], g[2], g[3]>>
    <2> DEFINE h == <<g[1], g[2], g[3]>>
    <2>1. g[1] \in S /\ g[2] \in S /\ g[3] \in S
      <3>1. 1 \in 1..Len(g) /\ 2 \in 1..Len(g) /\ 3 \in 1..Len(g)
        BY <1>3
      <3>2. \A i \in 1..Len(g) : g[i] \in S
        OBVIOUS
      <3> QED  BY <3>1, <3>2
    <2>2. h \in Seq(S) /\ Len(h) = 3 /\ h[1] = g[1] /\ h[2] = g[2] /\ h[3] = g[3]
      BY <2>1
    <2> HIDE DEF h
    <2>3. \A i \in 1..Len(g) : i = 1 \/ i = 2 \/ i = 3
      BY <1>3
    <2>4. \A i \in 1..Len(g) : g[i] = h[i]
      BY <2>2, <2>3
    <2>5. g = h
      BY <1>3, <2>2, <2>4
    <2> QED  BY <2>5 DEF h
  <1> QED  BY <1>1, <1>2, <1>3

\* The alphabets of base64.
LEMMA PositionsAre ==
  /\ \A c : pos_of_char(c) \in -1..63
  /\ pos_of_char(0) = Invalid /\ pos_of_char(Newline) = Invalid
  /\ \A c \in Pads : pos_of_char(c) = Invalid
  BY DEF pos_of_char, Invalid, Newline, Pads

LEMMA AlphabetIs ==
  ASSUME NEW url \in BOOLEAN, NEW p \in 0..63
  PROVE  LET c == base64_chars(url)[p]
         IN  c \in Bytes /\ pos_of_char(c) = p /\ c \notin Pads /\ c # Newline
  <1> DEFINE c == base64_chars(url)[p]
             code == CASE p < 26 -> 65 + p
                       [] p \in 26..51 -> 97 + p - 26
                       [] p \in 52..61 -> 48 + p - 52
                       [] p = 62 -> IF url THEN 45 ELSE 43
                       [] p = 63 -> IF url THEN 95 ELSE 47
  <1>1. c = code
    BY DEF base64_chars
  <1>2. /\ p < 26 => code = 65 + p
        /\ p \in 26..51 => code = 97 + p - 26
        /\ p \in 52..61 => code = 48 + p - 52
        /\ p = 62 => code = IF url THEN 45 ELSE 43
        /\ p = 63 => code = IF url THEN 95 ELSE 47
    OBVIOUS
  <1>3. p < 26 \/ p \in 26..51 \/ p \in 52..61 \/ p = 62 \/ p = 63
    OBVIOUS
  <1> HIDE DEF c, code
  <1>4. code \in Bytes /\ pos_of_char(code) = p
    <2>1. CASE p < 26
      BY <1>2, <2>1 DEF pos_of_char, Bytes
    <2>2. CASE p \in 26..51
      BY <1>2, <2>2 DEF pos_of_char, Bytes
    <2>3. CASE p \in 52..61
      BY <1>2, <2>3 DEF pos_of_char, Bytes
    <2>4. CASE p = 62
      BY <1>2, <2>4 DEF pos_of_char, Bytes
    <2>5. CASE p = 63
      BY <1>2, <2>5 DEF pos_of_char, Bytes
    <2> QED  BY <1>3, <2>1, <2>2, <2>3, <2>4, <2>5
  <1>5. code \notin Pads /\ code # Newline
    <2>1. p # Invalid
      BY DEF Invalid
    <2> QED  BY <1>4, <2>1, PositionsAre
  <1> QED  BY <1>1, <1>4, <1>5 DEF c

\* An encoded group is four characters, none of them a line break.
LEMMA EncodedGroupIs ==
  ASSUME NEW url \in BOOLEAN, NEW g \in Seq(Bytes), Len(g) \in 1..3
  PROVE  LET e == EncodedGroup(g, url)
         IN  /\ e \in Seq(Bytes) /\ Len(e) = 4
             /\ \A i \in 1..4 : e[i] # Newline
             /\ pos_of_char(e[1]) = g[1] \div 4
             /\ Len(g) = 1 => pos_of_char(e[2]) = (g[1] % 4) * 16 /\ e[3] \in Pads
             /\ Len(g) = 2 => /\ pos_of_char(e[2]) = (g[1] % 4) * 16 + g[2] \div 16
                              /\ e[3] \notin Pads /\ pos_of_char(e[3]) = (g[2] % 16) * 4
                              /\ e[4] \in Pads
             /\ Len(g) = 3 => /\ pos_of_char(e[2]) = (g[1] % 4) * 16 + g[2] \div 16
                              /\ e[3] \notin Pads /\ pos_of_char(e[3]) = (g[2] % 16) * 4 + g[3] \div 64
                              /\ e[4] \notin Pads /\ pos_of_char(e[4]) = g[3] % 64
  <1> DEFINE char == base64_chars(url)
             pad == PadOf(url)
  <1>1. \A p \in 0..63 : char[p] \in Bytes /\ pos_of_char(char[p]) = p /\ char[p] \notin Pads /\ char[p] # Newline
    BY AlphabetIs
  <1>2. pad \in Pads /\ pad # Newline /\ pad \in Bytes
    BY DEF PadOf, Pads, Newline, Bytes
  <1>3. \A i \in 1..Len(g) : g[i] \in 0..255
    <2>1. \A i \in 1..Len(g) : g[i] \in Bytes
      OBVIOUS
    <2> QED  BY <2>1 DEF Bytes
  <1>4. \A b \in 0..255 : /\ b \div 4 \in 0..63 /\ (b % 4) * 16 \in 0..63 /\ (b % 16) * 4 \in 0..63
                          /\ b % 64 \in 0..63
    OBVIOUS
  <1>5. \A b, c \in 0..255 : (b % 4) * 16 + c \div 16 \in 0..63 /\ (b % 16) * 4 + c \div 64 \in 0..63
    OBVIOUS
  <1> HIDE DEF char, pad
  <1>6. CASE Len(g) = 1
    <2> DEFINE w == char[g[1] \div 4]
               x == char[(g[1] % 4) * 16]
    <2>1. EncodedGroup(g, url) = <<w, x, pad, pad>>
      BY <1>6 DEF EncodedGroup, char, pad
    <2>2. /\ w \in Bytes /\ pos_of_char(w) = g[1] \div 4 /\ w # Newline
          /\ x \in Bytes /\ pos_of_char(x) = (g[1] % 4) * 16 /\ x # Newline
      <3>1. g[1] \in 0..255
        BY <1>3, <1>6
      <3>2. /\ g[1] \div 4 \in 0..63
            /\ (g[1] % 4) * 16 \in 0..63
        BY <1>4, <1>5, <3>1
      <3> QED  BY <1>1, <3>2
    <2> HIDE DEF w, x
    <2>3. /\ <<w, x, pad, pad>> \in Seq(Bytes) /\ Len(<<w, x, pad, pad>>) = 4
          /\ \A i \in 1..4 : <<w, x, pad, pad>>[i] # Newline
      BY <1>2, <2>2
    <2> QED  BY <1>2, <1>6, <2>1, <2>2, <2>3
  <1>7. CASE Len(g) = 2
    <2> DEFINE w == char[g[1] \div 4]
               x == char[(g[1] % 4) * 16 + g[2] \div 16]
               y == char[(g[2] % 16) * 4]
    <2>1. EncodedGroup(g, url) = <<w, x, y, pad>>
      BY <1>7 DEF EncodedGroup, char, pad
    <2>2. /\ w \in Bytes /\ pos_of_char(w) = g[1] \div 4 /\ w # Newline
          /\ x \in Bytes /\ pos_of_char(x) = (g[1] % 4) * 16 + g[2] \div 16 /\ x # Newline
          /\ y \in Bytes /\ pos_of_char(y) = (g[2] % 16) * 4 /\ y # Newline /\ y \notin Pads
      <3>1. g[1] \in 0..255 /\ g[2] \in 0..255
        BY <1>3, <1>7
      <3>2. /\ g[1] \div 4 \in 0..63
            /\ (g[1] % 4) * 16 + g[2] \div 16 \in 0..63
            /\ (g[2] % 16) * 4 \in 0..63
        BY <1>4, <1>5, <3>1
      <3> QED  BY <1>1, <3>2
    <2> HIDE DEF w, x, y
    <2>3. /\ <<w, x, y, pad>> \in Seq(Bytes) /\ Len(<<w, x, y, pad>>) = 4
          /\ \A i \in 1..4 : <<w, x, y, pad>>[i] # Newline
      BY <1>2, <2>2
    <2> QED  BY <1>2, <1>7, <2>1, <2>2, <2>3
  <1>8. CASE Len(g) = 3
    <2> DEFINE w == char[g[1] \div 4]
               x == char[(g[1] % 4) * 16 + g[2] \div 16]
               y == char[(g[2] % 16) * 4 + g[3] \div 64]
               z == char[g[3] % 64]
    <2>1. EncodedGroup(g, url) = <<w, x, y, z>>
      BY <1>8 DEF EncodedGroup, char, pad
    <2>2. /\ w \in Bytes /\ pos_of_char(w) = g[1] \div 4 /\ w # Newline
          /\ x \in Bytes /\ pos_of_char(x) = (g[1] % 4) * 16 + g[2] \div 16 /\ x # Newline
          /\ y \in Bytes /\ pos_of_char(y) = (g[2] % 16) * 4 + g[3] \div 64 /\ y # Newline /\ y \notin Pads
          /\ z \in Bytes /\ pos_of_char(z) = g[3] % 64 /\ z # Newline /\ z \notin Pads
      <3>1. g[1] \in 0..255 /\ g[2] \in 0..255 /\ g[3] \in 0..255
        BY <1>3, <1>8, SMTT(60)
      <3>2. /\ g[1] \div 4 \in 0..63
            /\ (g[1] % 4) * 16 + g[2] \div 16 \in 0..63
            /\ (g[2] % 16) * 4 + g[3] \div 64 \in 0..63
            /\ g[3] % 64 \in 0..63
        BY <1>4, <1>5, <3>1
      <3> QED  BY <1>1, <3>2
    <2> HIDE DEF w, x, y, z
    <2>3. /\ <<w, x, y, z>> \in Seq(Bytes) /\ Len(<<w, x, y, z>>) = 4
          /\ \A i \in 1..4 : <<w, x, y, z>>[i] # Newline
      BY <2>2
    <2> QED  BY <1>8, <2>1, <2>2, <2>3
  <1> QED  BY <1>6, <1>7, <1>8

LEMMA Appended ==
  \A x, y, z : Append(<<x>>, y) = <<x, y>> /\ Append(<<x, y>>, z) = <<x, y, z>>
  <1> TAKE x, y, z
  <1> DEFINE S == {x, y, z}
             u == Append(<<x>>, y)
             v == Append(<<x, y>>, z)
  <1>1. u \in Seq(S) /\ Len(u) = 2 /\ u[1] = x /\ u[2] = y
    OBVIOUS
  <1>2. v \in Seq(S) /\ Len(v) = 3 /\ v[1] = x /\ v[2] = y /\ v[3] = z
    OBVIOUS
  <1> HIDE DEF u, v, S
  <1> QED  BY <1>1, <1>2, ShortSequences DEF u, v

\* The bits of one, two and three bytes in characters of six bits each.
LEMMA BitsOfOne ==
  \A a \in 0..255 :
     /\ a \div 4 # Invalid /\ (a % 4) * 16 # Invalid
     /\ ((a \div 4) * 4 + ((a % 4) * 16) \div 16) % 256 = a
  BY DEF Invalid

LEMMA BitsOfMore ==
  \A a, b \in 0..255 :
     /\ a \div 4 # Invalid /\ (a % 4) * 16 + b \div 16 # Invalid
     /\ ((a \div 4) * 4 + ((a % 4) * 16 + b \div 16) \div 16) % 256 = a
     /\ ((a % 4) * 16 + b \div 16) % 16 = b \div 16
  BY DEF Invalid

LEMMA BitsOfTwo ==
  \A b \in 0..255 : (b % 16) * 4 # Invalid /\ (b \div 16) * 16 + ((b % 16) * 4) \div 4 = b
  BY DEF Invalid

LEMMA BitsOfThree ==
  \A b, c \in 0..255 :
     /\ (b % 16) * 4 + c \div 64 # Invalid /\ c % 64 # Invalid
     /\ (b \div 16) * 16 + ((b % 16) * 4 + c \div 64) \div 4 = b
     /\ (((b % 16) * 4 + c \div 64) % 4) * 64 + (c % 64) = c
  BY DEF Invalid

\* A group that was encoded is decoded.
LEMMA GroupBack ==
  ASSUME NEW url \in BOOLEAN, NEW g \in Seq(Bytes), Len(g) \in 1..3, NEW t, NEW p \in Nat,
         \A i \in 1..4 : CharAt(t, p + (i - 1)) = EncodedGroup(g, url)[i]
  PROVE  DecodedGroup(t, p).ok /\ DecodedGroup(t, p).out = g
  <1> DEFINE e == EncodedGroup(g, url)
             first  == pos_of_char(CharAt(t, p))
             second == pos_of_char(CharAt(t, p + 1))
             third  == pos_of_char(CharAt(t, p + 2))
             fourth == pos_of_char(CharAt(t, p + 3))
             one    == <<(first * 4 + second \div 16) % 256>>
             two    == Append(one, (second % 16) * 16 + third \div 4)
             three  == Append(two, (third % 4) * 64 + fourth)
             d == DecodedGroup(t, p)
  <1>1. CharAt(t, p) = e[1] /\ CharAt(t, p + 1) = e[2] /\ CharAt(t, p + 2) = e[3] /\ CharAt(t, p + 3) = e[4]
    <2>1. p + (1 - 1) = p /\ p + (2 - 1) = p + 1 /\ p + (3 - 1) = p + 2 /\ p + (4 - 1) = p + 3
      OBVIOUS
    <2> QED  BY <2>1
  <1>2. \A i \in 1..Len(g) : g[i] \in 0..255
    <2>1. \A i \in 1..Len(g) : g[i] \in Bytes
      OBVIOUS
    <2> QED  BY <2>1 DEF Bytes
  <1>3. /\ first = g[1] \div 4
        /\ Len(g) = 1 => second = (g[1] % 4) * 16 /\ e[3] \in Pads
        /\ Len(g) = 2 => /\ second = (g[1] % 4) * 16 + g[2] \div 16
                         /\ e[3] \notin Pads /\ third = (g[2] % 16) * 4
                         /\ e[4] \in Pads
        /\ Len(g) = 3 => /\ second = (g[1] % 4) * 16 + g[2] \div 16
                         /\ e[3] \notin Pads /\ third = (g[2] % 16) * 4 + g[3] \div 64
                         /\ e[4] \notin Pads /\ fourth = g[3] % 64
    BY <1>1, EncodedGroupIs
  <1>4. d = IF Invalid \in {first, second} THEN Answer(<<>>, FALSE, p + 1)
            ELSE IF CharAt(t, p + 2) \in Pads THEN Answer(one, TRUE, p + 2)
            ELSE IF third = Invalid THEN Answer(<<>>, FALSE, p + 2)
            ELSE IF CharAt(t, p + 3) \in Pads THEN Answer(two, TRUE, p + 3)
            ELSE IF fourth = Invalid THEN Answer(<<>>, FALSE, p + 3)
            ELSE Answer(three, TRUE, p + 3)
    BY Zenon DEF DecodedGroup
  <1> HIDE DEF e, first, second, third, fourth, d
  <1>5. CASE Len(g) = 1
    <2> DEFINE a == g[1]
    <2>1. a \in 0..255 /\ first = a \div 4 /\ second = (a % 4) * 16 /\ e[3] \in Pads
      BY <1>2, <1>3, <1>5
    <2>5. g = <<a>>
      BY <1>5, ShortSequences
    <2> HIDE DEF a
    <2>2. first # Invalid /\ second # Invalid
      BY <2>1, BitsOfOne
    <2>3. d = Answer(one, TRUE, p + 2)
      BY <1>1, <1>4, <2>1, <2>2, ZenonT(60)
    <2>4. (first * 4 + second \div 16) % 256 = a
      BY <2>1, BitsOfOne
    <2> QED  BY <2>3, <2>4, <2>5 DEF Answer, d
  <1>6. CASE Len(g) = 2
    <2> DEFINE a == g[1]
               b == g[2]
    <2>1. /\ a \in 0..255 /\ b \in 0..255
          /\ first = a \div 4 /\ second = (a % 4) * 16 + b \div 16 /\ e[3] \notin Pads
          /\ third = (b % 16) * 4 /\ e[4] \in Pads
      BY <1>2, <1>3, <1>6
    <2>5. g = <<a, b>>
      BY <1>6, ShortSequences
    <2> HIDE DEF a, b
    <2>2. first # Invalid /\ second # Invalid /\ third # Invalid
      BY <2>1, BitsOfMore, BitsOfTwo, ZenonT(60)
    <2>3. d = Answer(two, TRUE, p + 3)
      BY <1>1, <1>4, <2>1, <2>2, ZenonT(60)
    <2>4. (first * 4 + second \div 16) % 256 = a
      BY <2>1, BitsOfMore, ZenonT(60)
    <2>6. (second % 16) * 16 + third \div 4 = b
      <3>1. second % 16 = b \div 16
        <4>1. ((a % 4) * 16 + b \div 16) % 16 = b \div 16
          <5>1. a \in 0..255 /\ b \in 0..255
            BY <2>1
          <5> QED  BY <5>1, BitsOfMore, ZenonT(60)
        <4> QED  BY <2>1, <4>1, ZenonT(60)
      <3> QED  BY <2>1, <3>1, BitsOfTwo
    <2>7. two = <<a, b>>
      BY <2>4, <2>6, Appended
    <2> QED  BY <2>3, <2>5, <2>7 DEF Answer, d
  <1>7. CASE Len(g) = 3
    <2> DEFINE a == g[1]
               b == g[2]
               c == g[3]
    <2>1. /\ a \in 0..255 /\ b \in 0..255 /\ c \in 0..255
          /\ first = a \div 4 /\ second = (a % 4) * 16 + b \div 16 /\ e[3] \notin Pads
          /\ third = (b % 16) * 4 + c \div 64 /\ e[4] \notin Pads /\ fourth = c % 64
      BY <1>2, <1>3, <1>7
    <2>5. g = <<a, b, c>>
      BY <1>7, ShortSequences
    <2> HIDE DEF a, b, c
    <2>9. /\ (b % 16) * 4 + c \div 64 # Invalid /\ c % 64 # Invalid
          /\ (b \div 16) * 16 + ((b % 16) * 4 + c \div 64) \div 4 = b
          /\ (((b % 16) * 4 + c \div 64) % 4) * 64 + (c % 64) = c
      BY <2>1, BitsOfThree, ZenonT(60)
    <2>2. first # Invalid /\ second # Invalid /\ third # Invalid /\ fourth # Invalid
      <3>1. first # Invalid /\ second # Invalid
        <4>1. a \div 4 # Invalid /\ (a % 4) * 16 + b \div 16 # Invalid
          <5>1. a \in 0..255 /\ b \in 0..255
            BY <2>1
          <5> QED  BY <5>1, BitsOfMore, ZenonT(60)
        <4> QED  BY <2>1, <4>1, ZenonT(60)
      <3>2. third # Invalid /\ fourth # Invalid
        BY <2>1, <2>9, ZenonT(60)
      <3> QED  BY <3>1, <3>2
    <2>3. d = Answer(three, TRUE, p + 3)
      BY <1>1, <1>4, <2>1, <2>2, ZenonT(60)
    <2>4. (first * 4 + second \div 16) % 256 = a
      BY <2>1, BitsOfMore, ZenonT(60)
    <2>6. (second % 16) * 16 + third \div 4 = b
      <3>1. second % 16 = b \div 16
        <4>1. ((a % 4) * 16 + b \div 16) % 16 = b \div 16
          <5>1. a \in 0..255 /\ b \in 0..255
            BY <2>1
          <5> QED  BY <5>1, BitsOfMore, ZenonT(60)
        <4> QED  BY <2>1, <4>1, ZenonT(60)
      <3> QED  BY <2>1, <2>9, <3>1
    <2>7. (third % 4) * 64 + fourth = c
      BY <2>1, <2>9
    <2>8. three = <<a, b, c>>
      <3>1. two = <<a, b>>
        BY <2>4, <2>6, Appended
      <3> HIDE DEF two
      <3> QED  BY <2>7, <3>1, Appended
    <2> QED  BY <2>3, <2>5, <2>8 DEF Answer, d
  <1> QED  BY <1>5, <1>6, <1>7
-----------------------------------------------------------------------------
\* The loop of decode: the recursion.
Answers == [out : Seq(Bytes), ok : BOOLEAN, reach : Int]

Rounds(t) == (Len(t) + 3) \div 4

Decoding(t, d) ==
    /\ d[0] = Answer(<<>>, TRUE, -1)
    /\ \A k \in 1..Rounds(t) :
          LET group == DecodedGroup(t, 4 * (k - 1))
          IN  d[k] = IF d[k - 1].ok THEN Answer(d[k - 1].out \o group.out, group.ok, group.reach)
                     ELSE d[k - 1]

LEMMA DecodedGroupIs ==
  ASSUME NEW t, NEW p \in Nat
  PROVE  LET group == DecodedGroup(t, p)
         IN  /\ group \in Answers
             /\ group.ok => /\ pos_of_char(CharAt(t, p)) # Invalid
                            /\ pos_of_char(CharAt(t, p + 1)) # Invalid
  <1> DEFINE first  == pos_of_char(CharAt(t, p))
             second == pos_of_char(CharAt(t, p + 1))
             third  == pos_of_char(CharAt(t, p + 2))
             fourth == pos_of_char(CharAt(t, p + 3))
             one    == <<(first * 4 + second \div 16) % 256>>
             two    == Append(one, (second % 16) * 16 + third \div 4)
             three  == Append(two, (third % 4) * 64 + fourth)
             d == DecodedGroup(t, p)
  <1>1. d = IF Invalid \in {first, second} THEN Answer(<<>>, FALSE, p + 1)
            ELSE IF CharAt(t, p + 2) \in Pads THEN Answer(one, TRUE, p + 2)
            ELSE IF third = Invalid THEN Answer(<<>>, FALSE, p + 2)
            ELSE IF CharAt(t, p + 3) \in Pads THEN Answer(two, TRUE, p + 3)
            ELSE IF fourth = Invalid THEN Answer(<<>>, FALSE, p + 3)
            ELSE Answer(three, TRUE, p + 3)
    BY Zenon DEF DecodedGroup
  <1>2. first \in -1..63 /\ second \in -1..63 /\ third \in -1..63 /\ fourth \in -1..63
    BY PositionsAre
  <1> HIDE DEF first, second, third, fourth, d
  <1>3. \A out \in Seq(Bytes), ok \in BOOLEAN, reach \in Int :
           Answer(out, ok, reach) \in Answers /\ Answer(out, ok, reach).ok = ok
    BY DEF Answer, Answers
  <1>4. <<>> \in Seq(Bytes) /\ p + 1 \in Int /\ p + 2 \in Int /\ p + 3 \in Int
    OBVIOUS
  <1>5. (first * 4 + second \div 16) % 256 \in Bytes
    BY <1>2 DEF Bytes
  <1>6. second # Invalid /\ third # Invalid => (second % 16) * 16 + third \div 4 \in Bytes
    BY <1>2 DEF Bytes, Invalid
  <1>7. third # Invalid /\ fourth # Invalid => (third % 4) * 64 + fourth \in Bytes
    BY <1>2 DEF Bytes, Invalid
  <1> DEFINE x == (first * 4 + second \div 16) % 256
             y == (second % 16) * 16 + third \div 4
             z == (third % 4) * 64 + fourth
  <1>8. /\ one \in Seq(Bytes)
        /\ second # Invalid /\ third # Invalid => two \in Seq(Bytes)
        /\ second # Invalid /\ third # Invalid /\ fourth # Invalid => three \in Seq(Bytes)
    <2>1. one = <<x>> /\ two = Append(<<x>>, y) /\ three = Append(two, z)
      OBVIOUS
    <2>2. x \in Bytes /\ (second # Invalid /\ third # Invalid => y \in Bytes)
          /\ (third # Invalid /\ fourth # Invalid => z \in Bytes)
      BY <1>5, <1>6, <1>7
    <2> HIDE DEF x, y, z, one, two, three
    <2>3. one \in Seq(Bytes)
      BY <2>1, <2>2
    <2>4. second # Invalid /\ third # Invalid => two \in Seq(Bytes)
      BY <2>1, <2>2
    <2>5. second # Invalid /\ third # Invalid /\ fourth # Invalid => three \in Seq(Bytes)
      BY <2>1, <2>2, <2>4
    <2> QED  BY <2>3, <2>4, <2>5
  <1> HIDE DEF one, two, three, x, y, z
  <1>9. d \in Answers /\ (d.ok => first # Invalid /\ second # Invalid)
    <2>1. CASE Invalid \in {first, second}
      <3>1. d = Answer(<<>>, FALSE, p + 1)
        BY <1>1, <2>1
      <3> QED  BY <1>3, <1>4, <3>1
    <2>2. CASE Invalid \notin {first, second}
      <3>1. first # Invalid /\ second # Invalid
        BY <2>2
      <3>2. \/ d = Answer(one, TRUE, p + 2)
            \/ d = Answer(<<>>, FALSE, p + 2)
            \/ d = Answer(two, TRUE, p + 3) /\ third # Invalid
            \/ d = Answer(<<>>, FALSE, p + 3)
            \/ d = Answer(three, TRUE, p + 3) /\ third # Invalid /\ fourth # Invalid
        BY <1>1, <2>2
      <3> QED  BY <1>3, <1>4, <1>8, <3>1, <3>2
    <2> QED  BY <2>1, <2>2
  <1> QED  BY <1>9 DEF d, first, second

LEMMA DecodingIs ==
  ASSUME NEW t \in Seq(Bytes)
  PROVE  \E d : /\ Decoding(t, d) /\ DecodedGroups(t) = d[Rounds(t)]
                /\ \A k \in 0..Rounds(t) : d[k] \in Answers
  <1> DEFINE n == Rounds(t)
             group(k) == DecodedGroup(t, 4 * (k - 1))
             next(a, k) == IF a.ok THEN Answer(a.out \o group(k).out, group(k).ok, group(k).reach) ELSE a
             step == [x \in Answers \X (1..n) |-> next(x[1], x[2])]
             start == Answer(<<>>, TRUE, -1)
             Right(f) == f = [k \in 0..n |-> IF k = 0 THEN start ELSE next(f[k - 1], k)]
  <1>1. n \in Nat /\ Len(t) \in Nat
    <2>1. Len(t) \in Nat
      OBVIOUS
    <2> QED  BY <2>1 DEF Rounds
  <1>2. start \in Answers
    <2>1. <<>> \in Seq(Bytes) /\ -1 \in Int
      OBVIOUS
    <2> QED  BY <2>1 DEF Answer, Answers
  <1>3. ASSUME NEW a \in Answers, NEW k \in 1..n PROVE next(a, k) \in Answers
    <2>1. 4 * (k - 1) \in Nat
      BY <1>1
    <2>2. group(k) \in Answers
      BY <2>1, DecodedGroupIs
    <2> HIDE DEF group
    <2>3. a.out \in Seq(Bytes) /\ group(k).out \in Seq(Bytes) /\ group(k).ok \in BOOLEAN /\ group(k).reach \in Int
      BY <2>2 DEF Answers
    <2>4. a.out \o group(k).out \in Seq(Bytes)
      BY <2>3
    <2>5. Answer(a.out \o group(k).out, group(k).ok, group(k).reach) \in Answers
      BY <2>3, <2>4 DEF Answer, Answers
    <2> QED  BY <2>5
  <1> HIDE DEF n, next, start
  <1>4. step \in [Answers \X (1..n) -> Answers]
    BY <1>3
  <1>5. PICK f : /\ f \in [0..n -> Answers] /\ f[0] = start
                 /\ \A k \in 1..n : f[k] = step[<<f[k - 1], k>>]
    <2> HIDE DEF step
    <2>1. PICK f : Recursed(f, Answers, n, start, step)
      BY <1>1, <1>2, <1>4, Recursion
    <2> QED  BY <2>1 DEF Recursed
  <1>6. \A k \in 1..n : step[<<f[k - 1], k>>] = next(f[k - 1], k)
    <2>1. \A k \in 1..n : k - 1 \in 0..n
      BY <1>1
    <2>2. \A k \in 1..n : f[k - 1] \in Answers
      BY <1>5, <2>1
    <2>3. \A a \in Answers, k \in 1..n : step[<<a, k>>] = next(a, k)
      OBVIOUS
    <2> HIDE DEF step
    <2> QED  BY <2>2, <2>3
  <1> HIDE DEF step
  <1>7. Right(f)
    <2>1. \A k \in 0..n : f[k] = IF k = 0 THEN start ELSE next(f[k - 1], k)
      <3>1. f[0] = start /\ \A k \in 1..n : k # 0 /\ f[k] = next(f[k - 1], k)
        <4>1. \A k \in 1..n : k # 0
          BY <1>1
        <4> QED  BY <1>5, <1>6, <4>1, Zenon
      <3>2. \A k \in 0..n : k = 0 \/ k \in 1..n
        BY <1>1
      <3> QED  BY <3>1, <3>2
    <2>2. f = [k \in 0..n |-> f[k]]
      BY <1>5
    <2> QED  BY <2>1, <2>2
  <1> DEFINE d == CHOOSE g : Right(g)
  <1>8. DecodedGroups(t) = d[n]
    BY Zenon DEF DecodedGroups, Rounds, n, next, start
  <1>9. Right(d)
    <2> HIDE DEF Right
    <2> QED  BY <1>7
  <1> HIDE DEF d
  <1>10. d[0] = start /\ \A k \in 1..n : d[k] = next(d[k - 1], k)
    <2>1. \A k \in 0..n : d[k] = IF k = 0 THEN start ELSE next(d[k - 1], k)
      BY <1>9
    <2>2. 0 \in 0..n /\ \A k \in 1..n : k \in 0..n /\ k # 0
      BY <1>1
    <2> QED  BY <2>1, <2>2
  <1>11. \A k \in 0..n : d[k] \in Answers
    <2> DEFINE T == {k \in 0..n : d[k] \in Answers}
    <2>1. 0 \in T
      BY <1>1, <1>2, <1>10
    <2>2. ASSUME NEW k \in 0..(n - 1), k \in T PROVE k + 1 \in T
      <3>1. k + 1 \in 1..n /\ (k + 1) - 1 = k /\ k + 1 \in 0..n
        BY <1>1
      <3>2. d[k + 1] = next(d[k], k + 1)
        BY <1>10, <3>1
      <3>3. d[k] \in Answers
        BY <2>2
      <3>4. next(d[k], k + 1) \in Answers
        BY <1>3, <3>1, <3>3
      <3> QED  BY <3>1, <3>2, <3>4
    <2> HIDE DEF T
    <2>3. 0..n \subseteq T
      BY <1>1, <2>1, <2>2, NumbersAre
    <2> QED  BY <2>3 DEF T
  <1>12. Decoding(t, d)
    BY <1>10 DEF Decoding, next, start, n
  <1> QED  BY <1>8, <1>11, <1>12 DEF n

\* What has been decoded before an exception counts no more; without one, all rounds were
\* without.
LEMMA DecodingOk ==
  ASSUME NEW t, NEW d, Decoding(t, d), Rounds(t) \in Nat, d[Rounds(t)].ok
  PROVE  /\ \A k \in 0..Rounds(t) : d[k].ok
         /\ \A k \in 1..Rounds(t) : DecodedGroup(t, 4 * (k - 1)).ok
  <1> DEFINE n == Rounds(t)
             T == {j \in 0..n : d[n - j].ok}
  <1>1. ASSUME NEW k \in 1..n, d[k].ok PROVE d[k - 1].ok /\ DecodedGroup(t, 4 * (k - 1)).ok
    <2> DEFINE group == DecodedGroup(t, 4 * (k - 1))
    <2>1. d[k] = IF d[k - 1].ok THEN Answer(d[k - 1].out \o group.out, group.ok, group.reach)
                 ELSE d[k - 1]
      BY DEF Decoding
    <2> HIDE DEF group
    <2>2. d[k - 1].ok
      BY <1>1, <2>1
    <2>3. group.ok
      BY <1>1, <2>1, <2>2 DEF Answer
    <2> QED  BY <2>2, <2>3 DEF group
  <1>2. 0 \in T
    OBVIOUS
  <1>3. ASSUME NEW j \in 0..(n - 1), j \in T PROVE j + 1 \in T
    <2>1. n - j \in 1..n /\ (n - j) - 1 = n - (j + 1) /\ j + 1 \in 0..n
      BY <1>3
    <2>2. d[(n - j) - 1].ok
      BY <1>1, <1>3, <2>1
    <2> QED  BY <2>1, <2>2
  <1>4. ASSUME NEW k \in 0..n PROVE d[k].ok
    <2>1. n - k \in 0..n /\ n - (n - k) = k
      OBVIOUS
    <2>2. 0..n \subseteq T
      <3> HIDE DEF T
      <3> QED  BY <1>2, <1>3, NumbersAre
    <2> QED  BY <2>1, <2>2
  <1>5. \A k \in 1..n : k \in 0..n
    OBVIOUS
  <1> HIDE DEF n, T
  <1>6. \A k \in 1..n : DecodedGroup(t, 4 * (k - 1)).ok
    BY <1>1, <1>4, <1>5
  <1> QED  BY <1>4, <1>6 DEF n
-----------------------------------------------------------------------------
\* What a round makes of its four characters.
GroupOk(a, b, c, d) ==
    /\ pos_of_char(a) # Invalid /\ pos_of_char(b) # Invalid
    /\ c \in Pads \/ (pos_of_char(c) # Invalid /\ (d \in Pads \/ pos_of_char(d) # Invalid))

GroupOut(a, b, c, d) ==
    LET first  == pos_of_char(a)
        second == pos_of_char(b)
        third  == pos_of_char(c)
        fourth == pos_of_char(d)
        one    == <<(first * 4 + second \div 16) % 256>>
        two    == Append(one, (second % 16) * 16 + third \div 4)
    IN  IF ~GroupOk(a, b, c, d) THEN <<>>
        ELSE IF c \in Pads THEN one
        ELSE IF d \in Pads THEN two
        ELSE Append(two, (third % 4) * 64 + fourth)

LEMMA GroupIs ==
  ASSUME NEW t, NEW p
  PROVE  /\ DecodedGroup(t, p).ok = GroupOk(CharAt(t, p), CharAt(t, p + 1), CharAt(t, p + 2), CharAt(t, p + 3))
         /\ DecodedGroup(t, p).out = GroupOut(CharAt(t, p), CharAt(t, p + 1), CharAt(t, p + 2), CharAt(t, p + 3))
  <1> DEFINE first  == pos_of_char(CharAt(t, p))
             second == pos_of_char(CharAt(t, p + 1))
             third  == pos_of_char(CharAt(t, p + 2))
             fourth == pos_of_char(CharAt(t, p + 3))
             one    == <<(first * 4 + second \div 16) % 256>>
             two    == Append(one, (second % 16) * 16 + third \div 4)
             three  == Append(two, (third % 4) * 64 + fourth)
             d == DecodedGroup(t, p)
             ok == GroupOk(CharAt(t, p), CharAt(t, p + 1), CharAt(t, p + 2), CharAt(t, p + 3))
             out == GroupOut(CharAt(t, p), CharAt(t, p + 1), CharAt(t, p + 2), CharAt(t, p + 3))
  <1>1. d = IF Invalid \in {first, second} THEN Answer(<<>>, FALSE, p + 1)
            ELSE IF CharAt(t, p + 2) \in Pads THEN Answer(one, TRUE, p + 2)
            ELSE IF third = Invalid THEN Answer(<<>>, FALSE, p + 2)
            ELSE IF CharAt(t, p + 3) \in Pads THEN Answer(two, TRUE, p + 3)
            ELSE IF fourth = Invalid THEN Answer(<<>>, FALSE, p + 3)
            ELSE Answer(three, TRUE, p + 3)
    BY Zenon DEF DecodedGroup
  <1>2. ok = (/\ first # Invalid /\ second # Invalid
              /\ CharAt(t, p + 2) \in Pads
                 \/ (third # Invalid /\ (CharAt(t, p + 3) \in Pads \/ fourth # Invalid)))
    BY DEF GroupOk
  <1>3. out = IF ~ok THEN <<>>
              ELSE IF CharAt(t, p + 2) \in Pads THEN one
              ELSE IF CharAt(t, p + 3) \in Pads THEN two
              ELSE three
    BY Zenon DEF GroupOut
  <1> HIDE DEF first, second, third, fourth, one, two, three, d, ok, out
  <1>4. \A o, k, r : Answer(o, k, r).ok = k /\ Answer(o, k, r).out = o
    BY DEF Answer
  <1>5. d.ok = ok /\ d.out = out
    <2>1. CASE Invalid \in {first, second}
      <3>1. d = Answer(<<>>, FALSE, p + 1) /\ ok = FALSE
        BY <1>1, <1>2, <2>1
      <3> QED  BY <1>3, <1>4, <3>1
    <2>2. CASE Invalid \notin {first, second}
      <3>1. CASE CharAt(t, p + 2) \in Pads
        <4>1. d = Answer(one, TRUE, p + 2) /\ ok = TRUE
          BY <1>1, <1>2, <2>2, <3>1
        <4> QED  BY <1>3, <1>4, <3>1, <4>1
      <3>2. CASE CharAt(t, p + 2) \notin Pads /\ third = Invalid
        <4>1. d = Answer(<<>>, FALSE, p + 2) /\ ok = FALSE
          BY <1>1, <1>2, <2>2, <3>2
        <4> QED  BY <1>3, <1>4, <3>2, <4>1
      <3>3. CASE CharAt(t, p + 2) \notin Pads /\ third # Invalid
        <4>1. CASE CharAt(t, p + 3) \in Pads
          <5>1. d = Answer(two, TRUE, p + 3) /\ ok = TRUE
            BY <1>1, <1>2, <2>2, <3>3, <4>1
          <5> QED  BY <1>3, <1>4, <3>3, <4>1, <5>1
        <4>2. CASE CharAt(t, p + 3) \notin Pads /\ fourth = Invalid
          <5>1. d = Answer(<<>>, FALSE, p + 3) /\ ok = FALSE
            BY <1>1, <1>2, <2>2, <3>3, <4>2
          <5> QED  BY <1>3, <1>4, <5>1
        <4>3. CASE CharAt(t, p + 3) \notin Pads /\ fourth # Invalid
          <5>1. d = Answer(three, TRUE, p + 3) /\ ok = TRUE
            BY <1>1, <1>2, <2>2, <3>3, <4>3
          <5> QED  BY <1>3, <1>4, <3>3, <4>3, <5>1
        <4> QED  BY <4>1, <4>2, <4>3
      <3> QED  BY <3>1, <3>2, <3>3
    <2> QED  BY <2>1, <2>2
  <1> QED  BY <1>5 DEF d, ok, out

LEMMA SameGroup ==
  ASSUME NEW t, NEW u, NEW p \in Nat, NEW q \in Nat,
         \A i \in 0..3 : CharAt(t, p + i) = CharAt(u, q + i)
  PROVE  /\ DecodedGroup(t, p).ok = DecodedGroup(u, q).ok
         /\ DecodedGroup(t, p).out = DecodedGroup(u, q).out
  <1>1. /\ CharAt(t, p) = CharAt(u, q) /\ CharAt(t, p + 1) = CharAt(u, q + 1)
        /\ CharAt(t, p + 2) = CharAt(u, q + 2) /\ CharAt(t, p + 3) = CharAt(u, q + 3)
    <2>1. p + 0 = p /\ q + 0 = q
      OBVIOUS
    <2> QED  BY <2>1
  <1> QED  BY <1>1, GroupIs

\* A group that has lost its end is thrown at, unless nothing but padding is missing.
LEMMA CutGroup ==
  ASSUME NEW a \in Seq(Bytes), NEW n \in 0..Len(a), NEW p \in Nat,
         DecodedGroup(SubSeq(a, 1, n), p).ok
  PROVE  DecodedGroup(SubSeq(a, 1, n), p).out = DecodedGroup(a, p).out
  <1> DEFINE u == SubSeq(a, 1, n)
             c0 == CharAt(u, p)
             c1 == CharAt(u, p + 1)
             c2 == CharAt(u, p + 2)
             c3 == CharAt(u, p + 3)
             d0 == CharAt(a, p)
             d1 == CharAt(a, p + 1)
             d2 == CharAt(a, p + 2)
             d3 == CharAt(a, p + 3)
  <1>1. \A j \in Nat : CharAt(u, j) = CharAt(a, j) \/ CharAt(u, j) = 0
    <2> TAKE j \in Nat
    <2>1. Len(u) = n /\ n <= Len(a) /\ Len(a) \in Nat /\ n \in Nat
      OBVIOUS
    <2>2. CASE j < n
      <3>1. u[j + 1] = a[j + 1]
        BY <2>1, <2>2
      <3>2. j < Len(a)
        BY <2>1, <2>2
      <3> HIDE DEF u
      <3> QED  BY <2>1, <2>2, <3>1, <3>2 DEF CharAt
    <2>3. CASE ~(j < n)
      <3> HIDE DEF u
      <3> QED  BY <2>1, <2>3 DEF CharAt
    <2> QED  BY <2>2, <2>3
  <1>2. (c0 = d0 \/ c0 = 0) /\ (c1 = d1 \/ c1 = 0) /\ (c2 = d2 \/ c2 = 0) /\ (c3 = d3 \/ c3 = 0)
    <2>1. p \in Nat /\ p + 1 \in Nat /\ p + 2 \in Nat /\ p + 3 \in Nat
      OBVIOUS
    <2> HIDE DEF u
    <2> QED  BY <1>1, <2>1
  <1>3. GroupOk(c0, c1, c2, c3)
    BY GroupIs
  <1>4. /\ DecodedGroup(u, p).out = GroupOut(c0, c1, c2, c3)
        /\ DecodedGroup(a, p).out = GroupOut(d0, d1, d2, d3)
    BY GroupIs
  <1>5. pos_of_char(0) = Invalid /\ 0 \notin Pads
    BY PositionsAre DEF Pads
  <1> HIDE DEF c0, c1, c2, c3, d0, d1, d2, d3
  <1>6. c0 = d0 /\ c1 = d1
    BY <1>2, <1>3, <1>5 DEF GroupOk
  <1>7. c2 = d2
    BY <1>2, <1>3, <1>5 DEF GroupOk
  <1>8. CASE c2 \in Pads
    <2>1. GroupOk(d0, d1, d2, d3)
      BY <1>3, <1>6, <1>7, <1>8 DEF GroupOk
    <2>2. GroupOut(c0, c1, c2, c3) = GroupOut(d0, d1, d2, d3)
      BY <1>3, <1>6, <1>7, <1>8, <2>1, Zenon DEF GroupOut
    <2> QED  BY <1>4, <2>2
  <1>9. CASE c2 \notin Pads
    <2>1. c3 = d3
      BY <1>2, <1>3, <1>5, <1>9 DEF GroupOk
    <2> QED  BY <1>4, <1>6, <1>7, <2>1
  <1> QED  BY <1>8, <1>9

LEMMA StartIs == Answer(<<>>, TRUE, -1).ok = TRUE /\ Answer(<<>>, TRUE, -1).out = <<>>
  BY DEF Answer
-----------------------------------------------------------------------------
\* A text of whole groups that decodes does not disturb what follows it.
Chained(a, b) ==
    /\ DecodedGroups(a \o b).ok = DecodedGroups(b).ok
    /\ DecodedGroups(a \o b).out = DecodedGroups(a).out \o DecodedGroups(b).out

LEMMA DecodeConcat ==
  ASSUME NEW a \in Seq(Bytes), NEW b \in Seq(Bytes), NEW k \in Nat, Len(a) = 4 * k,
         DecodedGroups(a).ok
  PROVE  Chained(a, b)
  <1> DEFINE c == a \o b
             m == Rounds(b)
  <1>1. /\ c \in Seq(Bytes) /\ Len(c) = Len(a) + Len(b) /\ Len(b) \in Nat /\ Len(a) \in Nat
        /\ \A i \in 1..Len(a) : c[i] = a[i]
        /\ \A i \in 1..Len(b) : c[Len(a) + i] = b[i]
    <2>1. Len(a) \in Nat /\ Len(b) \in Nat
      OBVIOUS
    <2>2. /\ c \in Seq(Bytes) /\ Len(c) = Len(a) + Len(b)
          /\ \A i \in 1..Len(a) : c[i] = a[i]
          /\ \A i \in 1..Len(b) : c[Len(a) + i] = b[i]
      <3>1. c \in Seq(Bytes) /\ Len(c) = Len(a) + Len(b)
        OBVIOUS
      <3>2. \A i \in 1..Len(a) : c[i] = a[i]
        OBVIOUS
      <3>3. \A i \in 1..Len(b) : c[Len(a) + i] = b[i]
        OBVIOUS
      <3> QED  BY <3>1, <3>2, <3>3
    <2> QED  BY <2>1, <2>2
  <1> HIDE DEF c
  <1>2. Rounds(a) = k /\ Rounds(c) = k + m /\ m \in Nat
    <2> DEFINE n == Len(b)
    <2>1. n \in Nat /\ Len(c) = 4 * k + n
      BY <1>1
    <2> HIDE DEF n
    <2>2. (4 * k + 3) \div 4 = k /\ (4 * k + n + 3) \div 4 = k + (n + 3) \div 4 /\ (n + 3) \div 4 \in Nat
      BY <2>1
    <2> QED  BY <2>1, <2>2 DEF Rounds, n
  <1>3. PICK da : /\ Decoding(a, da) /\ DecodedGroups(a) = da[Rounds(a)]
                  /\ \A j \in 0..Rounds(a) : da[j] \in Answers
    BY DecodingIs
  <1>4. PICK db : /\ Decoding(b, db) /\ DecodedGroups(b) = db[Rounds(b)]
                  /\ \A j \in 0..Rounds(b) : db[j] \in Answers
    BY DecodingIs
  <1>5. PICK dc : /\ Decoding(c, dc) /\ DecodedGroups(c) = dc[Rounds(c)]
                  /\ \A j \in 0..Rounds(c) : dc[j] \in Answers
    BY <1>1, DecodingIs
  <1> HIDE DEF m
  <1>6. \A j \in 0..k : da[j].ok
    BY <1>2, <1>3, DecodingOk
  <1>8. dc[k].ok /\ dc[k].out = da[k].out
    <2> DEFINE T == {j \in 0..k : dc[j].ok /\ dc[j].out = da[j].out}
    <2>1. 0 \in T
      <3>1. dc[0] = Answer(<<>>, TRUE, -1) /\ da[0] = Answer(<<>>, TRUE, -1)
        BY <1>3, <1>5 DEF Decoding
      <3>2. 0 \in 0..k
        OBVIOUS
      <3> QED  BY <3>1, <3>2, StartIs
    <2>2. ASSUME NEW j \in 0..(k - 1), j \in T PROVE j + 1 \in T
      <3> DEFINE ga == DecodedGroup(a, 4 * j)
                 gc == DecodedGroup(c, 4 * j)
      <3>1. j + 1 \in 1..k /\ (j + 1) - 1 = j /\ j + 1 \in 0..k /\ j + 1 \in 1..(k + m) /\ 4 * j \in Nat
        BY <1>2
      <3>2. dc[j + 1] = IF dc[j].ok THEN Answer(dc[j].out \o gc.out, gc.ok, gc.reach) ELSE dc[j]
        BY <1>2, <1>5, <3>1 DEF Decoding
      <3>3. da[j + 1] = IF da[j].ok THEN Answer(da[j].out \o ga.out, ga.ok, ga.reach) ELSE da[j]
        BY <1>2, <1>3, <3>1 DEF Decoding
      <3>4. \A i \in 0..3 : CharAt(c, 4 * j + i) = CharAt(a, 4 * j + i)
        <4> TAKE i \in 0..3
        <4>1. 4 * j + i < 4 * k /\ 4 * j + i + 1 \in 1..(4 * k)
          BY <2>2
        <4>2. 4 * j + i < Len(c)
          BY <1>1, <4>1
        <4>3. c[4 * j + i + 1] = a[4 * j + i + 1]
          BY <1>1, <4>1
        <4> QED  BY <4>1, <4>2, <4>3 DEF CharAt
      <3>5. gc.ok = ga.ok /\ gc.out = ga.out
        BY <3>1, <3>4, SameGroup
      <3> HIDE DEF ga, gc
      <3>6. da[j].ok /\ da[j + 1].ok /\ dc[j].ok /\ dc[j].out = da[j].out
        BY <1>6, <2>2, <3>1
      <3>7. dc[j + 1].ok = gc.ok /\ dc[j + 1].out = dc[j].out \o gc.out
        <4> DEFINE r == dc[j + 1]
                   x == dc[j]
        <4>1. r = IF x.ok THEN Answer(x.out \o gc.out, gc.ok, gc.reach) ELSE x
          BY <3>2
        <4>2. x.ok
          BY <3>6
        <4> HIDE DEF r
        <4>3. r.ok = gc.ok /\ r.out = x.out \o gc.out
          BY <4>1, <4>2 DEF Answer
        <4> QED  BY <4>3 DEF r
      <3>8. da[j + 1].ok = ga.ok /\ da[j + 1].out = da[j].out \o ga.out
        <4> DEFINE r == da[j + 1]
                   x == da[j]
        <4>1. r = IF x.ok THEN Answer(x.out \o ga.out, ga.ok, ga.reach) ELSE x
          BY <3>3
        <4>2. x.ok
          BY <3>6
        <4> HIDE DEF r
        <4>3. r.ok = ga.ok /\ r.out = x.out \o ga.out
          BY <4>1, <4>2 DEF Answer
        <4> QED  BY <4>3 DEF r
      <3> QED  BY <3>1, <3>5, <3>6, <3>7, <3>8
    <2> HIDE DEF T
    <2>3. k \in T
      <3>1. 0..k \subseteq T /\ k \in 0..k
        BY <2>1, <2>2, NumbersAre, SMTT(60)
      <3> QED  BY <3>1
    <2> QED  BY <2>3 DEF T
  <1>9. dc[k + m].ok = db[m].ok /\ dc[k + m].out = da[k].out \o db[m].out
    <2> DEFINE T == {j \in 0..m : dc[k + j].ok = db[j].ok /\ dc[k + j].out = da[k].out \o db[j].out}
    <2>0. da[k].out \in Seq(Bytes)
      <3>1. da[k] \in Answers
        BY <1>2, <1>3
      <3> QED  BY <3>1 DEF Answers
    <2>1. 0 \in T
      <3>1. db[0].ok = TRUE /\ db[0].out = <<>>
        <4>1. db[0] = Answer(<<>>, TRUE, -1)
          BY <1>4 DEF Decoding
        <4> QED  BY <4>1, StartIs
      <3>2. da[k].out \o <<>> = da[k].out
        BY <2>0
      <3>3. k + 0 = k /\ 0 \in 0..m
        BY <1>2
      <3> QED  BY <1>8, <3>1, <3>2, <3>3
    <2>2. ASSUME NEW j \in 0..(m - 1), j \in T PROVE j + 1 \in T
      <3> DEFINE gb == DecodedGroup(b, 4 * j)
                 gc == DecodedGroup(c, 4 * (k + j))
      <3>1. /\ j + 1 \in 1..m /\ (j + 1) - 1 = j /\ j + 1 \in 0..m /\ j \in 0..m
            /\ k + (j + 1) \in 1..(k + m) /\ (k + (j + 1)) - 1 = k + j /\ k + j \in 0..(k + m)
            /\ 4 * j \in Nat /\ 4 * (k + j) \in Nat /\ 4 * (k + j) = 4 * k + 4 * j
        BY <1>2
      <3>2. dc[k + (j + 1)] = IF dc[k + j].ok THEN Answer(dc[k + j].out \o gc.out, gc.ok, gc.reach) ELSE dc[k + j]
        BY <1>2, <1>5, <3>1 DEF Decoding
      <3>3. db[j + 1] = IF db[j].ok THEN Answer(db[j].out \o gb.out, gb.ok, gb.reach) ELSE db[j]
        BY <1>4, <3>1 DEF Decoding, m
      <3>4. \A i \in 0..3 : CharAt(c, 4 * (k + j) + i) = CharAt(b, 4 * j + i)
        <4> TAKE i \in 0..3
        <4> DEFINE q == 4 * j + i
        <4>1. q \in Nat /\ 4 * (k + j) + i = 4 * k + q
          BY <3>1
        <4> HIDE DEF q
        <4>2. CASE q < Len(b)
          <5>1. q + 1 \in 1..Len(b) /\ 4 * k + q < Len(c) /\ 4 * k + q + 1 = Len(a) + (q + 1)
            BY <1>1, <4>1, <4>2
          <5>2. c[4 * k + q + 1] = b[q + 1]
            BY <1>1, <5>1
          <5>3. CharAt(c, 4 * k + q) = CharAt(b, q)
            BY <4>2, <5>1, <5>2 DEF CharAt
          <5> QED  BY <4>1, <5>3 DEF q
        <4>3. CASE ~(q < Len(b))
          <5>1. ~(4 * k + q < Len(c))
            BY <1>1, <4>1, <4>3
          <5>2. CharAt(c, 4 * k + q) = CharAt(b, q)
            BY <4>3, <5>1 DEF CharAt
          <5> QED  BY <4>1, <5>2 DEF q
        <4> QED  BY <4>2, <4>3
      <3>5. gc.ok = gb.ok /\ gc.out = gb.out
        BY <3>1, <3>4, SameGroup
      <3>6. gb.out \in Seq(Bytes) /\ db[j].out \in Seq(Bytes)
        <4>1. gb \in Answers /\ db[j] \in Answers
          BY <1>4, <3>1, DecodedGroupIs DEF m
        <4> QED  BY <4>1 DEF Answers
      <3> HIDE DEF gb, gc
      <3>7. dc[k + j].ok = db[j].ok /\ dc[k + j].out = da[k].out \o db[j].out
        BY <2>2
      <3>8. CASE db[j].ok
        <4>0. dc[k + (j + 1)].ok = gc.ok /\ dc[k + (j + 1)].out = dc[k + j].out \o gc.out
          <5> DEFINE r == dc[k + (j + 1)]
                     x == dc[k + j]
          <5>1. r = IF x.ok THEN Answer(x.out \o gc.out, gc.ok, gc.reach) ELSE x
            BY <3>2
          <5>2. x.ok
            BY <3>7, <3>8
          <5> HIDE DEF r
          <5>3. r.ok = gc.ok /\ r.out = x.out \o gc.out
            BY <5>1, <5>2 DEF Answer
          <5> QED  BY <5>3 DEF r
        <4>1. dc[k + (j + 1)].ok = gb.ok /\ dc[k + (j + 1)].out = (da[k].out \o db[j].out) \o gb.out
          BY <3>5, <3>7, <4>0
        <4>2. db[j + 1].ok = gb.ok /\ db[j + 1].out = db[j].out \o gb.out
          <5> DEFINE r == db[j + 1]
                     x == db[j]
          <5>1. r = IF x.ok THEN Answer(x.out \o gb.out, gb.ok, gb.reach) ELSE x
            BY <3>3
          <5>2. x.ok
            BY <3>8
          <5> HIDE DEF r
          <5>3. r.ok = gb.ok /\ r.out = x.out \o gb.out
            BY <5>1, <5>2 DEF Answer
          <5> QED  BY <5>3 DEF r
        <4>3. (da[k].out \o db[j].out) \o gb.out = da[k].out \o (db[j].out \o gb.out)
          <5> DEFINE u == da[k].out
                     v == db[j].out
                     w == gb.out
          <5>1. u \in Seq(Bytes) /\ v \in Seq(Bytes) /\ w \in Seq(Bytes)
            BY <2>0, <3>6
          <5> HIDE DEF u, v, w
          <5>2. (u \o v) \o w = u \o (v \o w)
            BY <5>1, SMTT(60)
          <5> QED  BY <5>2 DEF u, v, w
        <4> QED  BY <3>1, <4>1, <4>2, <4>3
      <3>9. CASE ~db[j].ok
        <4>1. dc[k + (j + 1)] = dc[k + j] /\ db[j + 1] = db[j]
          BY <3>2, <3>3, <3>7, <3>9
        <4> QED  BY <3>1, <3>7, <4>1
      <3> QED  BY <3>8, <3>9
    <2> HIDE DEF T
    <2>3. m \in T
      <3>1. m \in Nat
        BY <1>2
      <3>2. 0..m \subseteq T
        BY <2>1, <2>2, <3>1, NumbersAre
      <3> QED  BY <3>1, <3>2
    <2> QED  BY <2>3 DEF T
  <1>10. DecodedGroups(c).ok = DecodedGroups(b).ok /\ DecodedGroups(c).out = DecodedGroups(a).out \o DecodedGroups(b).out
    BY <1>2, <1>3, <1>4, <1>5, <1>9 DEF m
  <1> QED  BY <1>10 DEF c, Chained
-----------------------------------------------------------------------------
\* s is a beginning of t.
Begins(s, t) == Len(s) <= Len(t) /\ \A i \in 1..Len(s) : s[i] = t[i]

LEMMA BeginsIs ==
  ASSUME NEW S, NEW s \in Seq(S), NEW t \in Seq(S), Begins(s, t)
  PROVE  IsPrefix(s, t) /\ s = SubSeq(t, 1, Len(s))
  <1> DEFINE n == Len(s)
             b == SubSeq(t, 1, n)
             c == SubSeq(s, 1, n)
  <1>1. n \in Nat /\ n <= Len(t) /\ Len(t) \in Nat /\ \A i \in 1..n : s[i] = t[i]
    BY DEF Begins
  <1>2. b \in Seq(S) /\ Len(b) = n /\ \A i \in 1..n : b[i] = t[i]
    BY <1>1
  <1>3. c \in Seq(S) /\ Len(c) = n /\ \A i \in 1..n : c[i] = s[i]
    BY <1>1
  <1> HIDE DEF b, c
  <1>4. s = b
    BY <1>1, <1>2
  <1>5. c = b
    BY <1>1, <1>2, <1>3
  <1> QED  BY <1>1, <1>4, <1>5 DEF IsPrefix, b, c

LEMMA BeginsAtEnd ==
  ASSUME NEW S, NEW s \in Seq(S), NEW t \in Seq(S), NEW u \in Seq(S), Begins(s, t)
  PROVE  Begins(s, t \o u)
  <1> DEFINE c == t \o u
  <1>1. Len(c) = Len(t) + Len(u) /\ Len(t) \in Nat /\ Len(u) \in Nat /\ Len(s) \in Nat
    OBVIOUS
  <1>2. \A i \in 1..Len(t) : c[i] = t[i]
    OBVIOUS
  <1> HIDE DEF c
  <1>3. Len(s) <= Len(c) /\ \A i \in 1..Len(s) : i \in 1..Len(t) /\ s[i] = c[i]
    BY <1>1, <1>2 DEF Begins
  <1> QED  BY <1>3 DEF Begins, c

\* What follows a beginning.
LEMMA BeginsRest ==
  ASSUME NEW S, NEW s \in Seq(S), NEW t \in Seq(S), Begins(s, t)
  PROVE  SubSeq(t, Len(s) + 1, Len(t)) \in Seq(S) /\ t = s \o SubSeq(t, Len(s) + 1, Len(t))
  <1> DEFINE n == Len(s)
             m == Len(t)
             r == SubSeq(t, n + 1, m)
             c == s \o r
  <1>1. n \in Nat /\ m \in Nat /\ n <= m
    BY DEF Begins
  <1>2. r \in Seq(S) /\ Len(r) = m - n /\ \A i \in 1..(m - n) : r[i] = t[n + i]
    BY <1>1
  <1> HIDE DEF r
  <1>3. c \in Seq(S) /\ Len(c) = n + Len(r)
    BY <1>2
  <1>4. \A i \in 1..n : c[i] = s[i]
    BY <1>2
  <1>5. \A i \in 1..Len(r) : c[n + i] = r[i]
    BY <1>2
  <1> HIDE DEF c
  <1>6. Len(c) = m
    BY <1>1, <1>2, <1>3
  <1>7. ASSUME NEW i \in 1..m PROVE t[i] = c[i]
    <2>1. CASE i <= n
      <3>1. i \in 1..n
        BY <1>1, <2>1
      <3> QED  BY <1>4, <3>1 DEF Begins
    <2>2. CASE ~(i <= n)
      <3>1. i - n \in 1..(m - n) /\ n + (i - n) = i
        BY <1>1, <2>2
      <3> QED  BY <1>2, <1>5, <3>1
    <2> QED  BY <2>1, <2>2
  <1>8. t = c
    BY <1>3, <1>6, <1>7
  <1> QED  BY <1>2, <1>8 DEF c, r

\* A text that lost its end decodes to a beginning of what the whole text decodes to.
LEMMA DecodePrefix ==
  ASSUME NEW a \in Seq(Bytes), NEW u \in Seq(Bytes), Begins(u, a),
         DecodedGroups(a).ok, DecodedGroups(u).ok
  PROVE  Begins(DecodedGroups(u).out, DecodedGroups(a).out)
  <1> DEFINE m == Rounds(u)
             n == Rounds(a)
  <1>1. m \in Nat /\ n \in Nat /\ m <= n
    <2>1. Len(u) \in Nat /\ Len(a) \in Nat /\ Len(u) <= Len(a)
      BY DEF Begins
    <2>2. \A x, y \in Nat : x <= y => (x + 3) \div 4 \in Nat /\ (x + 3) \div 4 <= (y + 3) \div 4
      OBVIOUS
    <2>3. (Len(u) + 3) \div 4 \in Nat /\ (Len(a) + 3) \div 4 \in Nat /\ (Len(u) + 3) \div 4 <= (Len(a) + 3) \div 4
      BY <2>1, <2>2
    <2> QED  BY <2>3 DEF Rounds
  <1>2. PICK da : /\ Decoding(a, da) /\ DecodedGroups(a) = da[Rounds(a)]
                  /\ \A j \in 0..Rounds(a) : da[j] \in Answers
    BY DecodingIs
  <1>3. PICK du : /\ Decoding(u, du) /\ DecodedGroups(u) = du[Rounds(u)]
                  /\ \A j \in 0..Rounds(u) : du[j] \in Answers
    BY DecodingIs
  <1>4. (\A j \in 0..n : da[j].ok) /\ \A j \in 1..n : DecodedGroup(a, 4 * (j - 1)).ok
    BY <1>1, <1>2, DecodingOk
  <1>5. (\A j \in 0..m : du[j].ok) /\ \A j \in 1..m : DecodedGroup(u, 4 * (j - 1)).ok
    BY <1>1, <1>3, DecodingOk
  <1>6. \A j \in 1..n : da[j].out = da[j - 1].out \o DecodedGroup(a, 4 * (j - 1)).out
    <2> TAKE j \in 1..n
    <2> DEFINE g == DecodedGroup(a, 4 * (j - 1))
               r == da[j]
               x == da[j - 1]
    <2>1. r = IF x.ok THEN Answer(x.out \o g.out, g.ok, g.reach) ELSE x
      BY <1>2 DEF Decoding
    <2>2. x.ok
      <3>1. j - 1 \in 0..n
        BY <1>1
      <3> QED  BY <1>4, <3>1
    <2> HIDE DEF r, x, g
    <2>3. r.out = x.out \o g.out
      BY <2>1, <2>2 DEF Answer
    <2> QED  BY <2>3 DEF r, x, g
  <1>7. \A j \in 1..m : du[j].out = du[j - 1].out \o DecodedGroup(u, 4 * (j - 1)).out
    <2> TAKE j \in 1..m
    <2> DEFINE g == DecodedGroup(u, 4 * (j - 1))
               r == du[j]
               x == du[j - 1]
    <2>1. r = IF x.ok THEN Answer(x.out \o g.out, g.ok, g.reach) ELSE x
      BY <1>3 DEF Decoding
    <2>2. x.ok
      <3>1. j - 1 \in 0..m
        BY <1>1
      <3> QED  BY <1>5, <3>1
    <2> HIDE DEF r, x, g
    <2>3. r.out = x.out \o g.out
      BY <2>1, <2>2 DEF Answer
    <2> QED  BY <2>3 DEF r, x, g
  <1> DEFINE S == {j \in 0..m : du[j].out = da[j].out}
             T == {i \in 0..(n - m) : Begins(da[m].out, da[m + i].out)}
  <1> HIDE DEF m, n
  <1>8. m \in S
    <2>1. 0 \in S
      <3>1. du[0] = Answer(<<>>, TRUE, -1) /\ da[0] = Answer(<<>>, TRUE, -1)
        BY <1>2, <1>3 DEF Decoding
      <3>2. 0 \in 0..m
        BY <1>1
      <3> QED  BY <3>1, <3>2
    <2>2. ASSUME NEW j \in 0..(m - 1), j \in S PROVE j + 1 \in S
      <3>1. j + 1 \in 1..m /\ j + 1 \in 1..n /\ (j + 1) - 1 = j /\ j + 1 \in 0..m /\ 4 * j \in Nat
        BY <1>1
      <3>2. DecodedGroup(u, 4 * j).out = DecodedGroup(a, 4 * j).out
        <4>1. u = SubSeq(a, 1, Len(u)) /\ Len(u) \in 0..Len(a)
          <5>1. Len(u) \in Nat /\ Len(a) \in Nat /\ Len(u) <= Len(a)
            BY DEF Begins
          <5> QED  BY <5>1, BeginsIs
        <4>2. DecodedGroup(u, 4 * j).ok
          BY <1>5, <3>1
        <4> QED  BY <3>1, <4>1, <4>2, CutGroup
      <3>3. du[j + 1].out = du[j].out \o DecodedGroup(u, 4 * j).out
        BY <1>7, <3>1
      <3>4. da[j + 1].out = da[j].out \o DecodedGroup(a, 4 * j).out
        BY <1>6, <3>1
      <3> QED  BY <2>2, <3>1, <3>2, <3>3, <3>4
    <2> HIDE DEF S
    <2>3. 0..m \subseteq S
      BY <1>1, <2>1, <2>2, NumbersAre, Zenon
    <2>4. m \in 0..m
      BY <1>1
    <2> QED  BY <2>3, <2>4
  <1>9. n - m \in T
    <2>0. \A j \in 0..n : da[j].out \in Seq(Bytes)
      BY <1>2 DEF Answers, n
    <2>1. 0 \in T
      <3>1. m \in 0..n /\ m + 0 = m /\ 0 \in 0..(n - m)
        BY <1>1
      <3>2. Len(da[m].out) \in Nat
        BY <2>0, <3>1
      <3>3. Begins(da[m].out, da[m].out)
        BY <3>2 DEF Begins
      <3> QED  BY <3>1, <3>3
    <2>2. ASSUME NEW i \in 0..((n - m) - 1), i \in T PROVE i + 1 \in T
      <3>1. /\ m + (i + 1) \in 1..n /\ (m + (i + 1)) - 1 = m + i /\ i + 1 \in 0..(n - m)
            /\ m \in 0..n /\ m + i \in 0..n /\ 4 * (m + i) \in Nat
        BY <1>1
      <3>2. da[m + (i + 1)].out = da[m + i].out \o DecodedGroup(a, 4 * (m + i)).out
        BY <1>6, <3>1
      <3>3. DecodedGroup(a, 4 * (m + i)).out \in Seq(Bytes)
        <4>1. DecodedGroup(a, 4 * (m + i)) \in Answers
          BY <3>1, DecodedGroupIs
        <4> QED  BY <4>1 DEF Answers
      <3>4. Begins(da[m].out, da[m + i].out)
        BY <2>2
      <3>5. da[m].out \in Seq(Bytes) /\ da[m + i].out \in Seq(Bytes)
        BY <2>0, <3>1
      <3>6. Begins(da[m].out, da[m + (i + 1)].out)
        BY <3>2, <3>3, <3>4, <3>5, BeginsAtEnd
      <3> QED  BY <3>1, <3>6
    <2> HIDE DEF T
    <2>3. n - m \in Nat
      BY <1>1
    <2>4. 0..(n - m) \subseteq T
      BY <2>1, <2>2, <2>3, NumbersAre
    <2>5. n - m \in 0..(n - m)
      BY <2>3
    <2> QED  BY <2>4, <2>5
  <1>10. Begins(da[m].out, da[n].out) /\ du[m].out = da[m].out
    <2>1. m + (n - m) = n
      BY <1>1
    <2> QED  BY <1>8, <1>9, <2>1
  <1> QED  BY <1>2, <1>3, <1>10 DEF m, n
-----------------------------------------------------------------------------
\* A text of whole groups without line breaks that decodes to x.
Good(a, x) ==
    /\ a \in Seq(Bytes) /\ x \in Seq(Bytes)
    /\ \E k \in Nat : Len(a) = 4 * k
    /\ \A i \in 1..Len(a) : a[i] # Newline
    /\ DecodedGroups(a).ok /\ DecodedGroups(a).out = x

LEMMA GoodEmpty == Good(<<>>, <<>>)
  <1>1. <<>> \in Seq(Bytes) /\ Len(<<>>) = 0
    OBVIOUS
  <1>2. Rounds(<<>>) = 0
    BY <1>1 DEF Rounds
  <1>3. PICK d : Decoding(<<>>, d) /\ DecodedGroups(<<>>) = d[Rounds(<<>>)]
    BY <1>1, DecodingIs
  <1>4. DecodedGroups(<<>>) = Answer(<<>>, TRUE, -1)
    BY <1>2, <1>3 DEF Decoding
  <1>5. DecodedGroups(<<>>).ok /\ DecodedGroups(<<>>).out = <<>>
    BY <1>4, StartIs
  <1>6. Len(<<>>) = 4 * 0 /\ \A i \in 1..Len(<<>>) : FALSE
    OBVIOUS
  <1> QED  BY <1>1, <1>5, <1>6 DEF Good

LEMMA GoodGroup ==
  ASSUME NEW url \in BOOLEAN, NEW g \in Seq(Bytes), Len(g) \in 1..3
  PROVE  Good(EncodedGroup(g, url), g)
  <1> DEFINE e == EncodedGroup(g, url)
  <1>1. e \in Seq(Bytes) /\ Len(e) = 4 /\ \A i \in 1..4 : e[i] # Newline
    BY EncodedGroupIs
  <1> HIDE DEF e
  <1>2. Rounds(e) = 1
    BY <1>1 DEF Rounds
  <1>3. PICK d : Decoding(e, d) /\ DecodedGroups(e) = d[Rounds(e)]
    BY <1>1, DecodingIs
  <1> DEFINE r == DecodedGroup(e, 0)
             x == d[1]
  <1>4. \A i \in 1..4 : CharAt(e, 0 + (i - 1)) = e[i]
    <2> TAKE i \in 1..4
    <2>1. 0 + (i - 1) < Len(e) /\ 0 + (i - 1) + 1 = i
      BY <1>1
    <2> QED  BY <2>1 DEF CharAt
  <1>5. r.ok /\ r.out = g
    <2>1. 0 \in Nat
      OBVIOUS
    <2> QED  BY <1>4, <2>1, GroupBack DEF e
  <1>6. r \in Answers
    BY DecodedGroupIs
  <1>7. x = IF d[0].ok THEN Answer(d[0].out \o r.out, r.ok, r.reach) ELSE d[0]
    <2>1. 1 \in 1..Rounds(e) /\ 1 - 1 = 0 /\ 4 * (1 - 1) = 0
      BY <1>2
    <2> QED  BY <1>3, <2>1 DEF Decoding
  <1>8. d[0].ok = TRUE /\ d[0].out = <<>>
    BY <1>3, StartIs DEF Decoding
  <1>9. DecodedGroups(e) = x
    BY <1>2, <1>3
  <1> HIDE DEF r, x
  <1>10. x.ok /\ x.out = <<>> \o g
    BY <1>5, <1>7, <1>8 DEF Answer
  <1>11. <<>> \o g = g
    OBVIOUS
  <1>12. Len(e) = 4 * 1
    BY <1>1
  <1> QED  BY <1>1, <1>9, <1>10, <1>11, <1>12 DEF Good, e

LEMMA GoodConcat ==
  ASSUME NEW a, NEW x, NEW b, NEW y, Good(a, x), Good(b, y)
  PROVE  Good(a \o b, x \o y)
  <1>1. a \in Seq(Bytes) /\ b \in Seq(Bytes) /\ x \in Seq(Bytes) /\ y \in Seq(Bytes)
    BY DEF Good
  <1>2. PICK k \in Nat : Len(a) = 4 * k
    BY DEF Good
  <1>3. PICK m \in Nat : Len(b) = 4 * m
    BY DEF Good
  <1>4. /\ DecodedGroups(a).ok /\ DecodedGroups(a).out = x
        /\ DecodedGroups(b).ok /\ DecodedGroups(b).out = y
        /\ \A i \in 1..Len(a) : a[i] # Newline
        /\ \A i \in 1..Len(b) : b[i] # Newline
    BY DEF Good
  <1> DEFINE c == a \o b
  <1>5. DecodedGroups(c).ok /\ DecodedGroups(c).out = x \o y
    <2>1. /\ DecodedGroups(c).ok = DecodedGroups(b).ok
          /\ DecodedGroups(c).out = DecodedGroups(a).out \o DecodedGroups(b).out
      <3>1. Chained(a, b)
        BY <1>1, <1>2, <1>4, DecodeConcat
      <3> QED  BY <3>1 DEF Chained
    <2> HIDE DEF c
    <2>2. DecodedGroups(c).ok
      BY <1>4, <2>1
    <2> QED  BY <1>4, <2>1, <2>2
  <1>6. c \in Seq(Bytes) /\ x \o y \in Seq(Bytes) /\ Len(c) = Len(a) + Len(b)
    BY <1>1
  <1>7. \A i \in 1..Len(a) : c[i] = a[i]
    BY <1>1
  <1>8. \A i \in 1..Len(b) : c[Len(a) + i] = b[i]
    BY <1>1
  <1> HIDE DEF c
  <1>9. Len(c) = 4 * (k + m) /\ k + m \in Nat
    BY <1>2, <1>3, <1>6
  <1>10. ASSUME NEW i \in 1..Len(c) PROVE c[i] # Newline
    <2>1. i \in 1..Len(a) \/ (i - Len(a) \in 1..Len(b) /\ Len(a) + (i - Len(a)) = i)
      BY <1>2, <1>3, <1>6
    <2> QED  BY <1>4, <1>7, <1>8, <2>1
  <1>11. Good(c, x \o y)
    BY <1>5, <1>6, <1>9, <1>10 DEF Good
  <1> QED  BY <1>11 DEF c

LEMMA SplitAt ==
  ASSUME NEW S, NEW s \in Seq(S), NEW i \in Nat, NEW j \in Nat, i <= j, j <= Len(s)
  PROVE  SubSeq(s, 1, j) = SubSeq(s, 1, i) \o SubSeq(s, i + 1, j)
  <1> DEFINE a == SubSeq(s, 1, i)
             b == SubSeq(s, i + 1, j)
             c == a \o b
             t == SubSeq(s, 1, j)
  <1>1. a \in Seq(S) /\ Len(a) = i /\ \A k \in 1..i : a[k] = s[k]
    OBVIOUS
  <1>2. b \in Seq(S) /\ Len(b) = j - i /\ \A k \in 1..(j - i) : b[k] = s[i + k]
    OBVIOUS
  <1>3. t \in Seq(S) /\ Len(t) = j /\ \A k \in 1..j : t[k] = s[k]
    OBVIOUS
  <1> HIDE DEF a, b, t
  <1>4. c \in Seq(S) /\ Len(c) = i + (j - i)
    <2>1. a \in Seq(S) /\ b \in Seq(S)
      BY <1>1, <1>2
    <2>2. c \in Seq(S)
      BY <2>1
    <2>3. Len(c) = Len(a) + Len(b)
      BY <2>1
    <2> HIDE DEF c
    <2> QED  BY <1>1, <1>2, <2>2, <2>3
  <1>5. \A k \in 1..Len(a) : c[k] = a[k]
    BY <1>1, <1>2
  <1>6. \A k \in 1..Len(b) : c[Len(a) + k] = b[k]
    BY <1>1, <1>2
  <1> HIDE DEF c
  <1>7. ASSUME NEW k \in 1..j PROVE t[k] = c[k]
    <2>1. CASE k <= i
      <3>1. k \in 1..i
        BY <2>1
      <3> QED  BY <1>1, <1>3, <1>5, <3>1
    <2>2. CASE ~(k <= i)
      <3>1. k - i \in 1..(j - i) /\ i + (k - i) = k
        BY <2>2
      <3> QED  BY <1>1, <1>2, <1>3, <1>6, <3>1
    <2> QED  BY <2>1, <2>2
  <1>8. t = c
    BY <1>3, <1>4, <1>7
  <1> QED  BY <1>8 DEF a, b, c, t

\* The groups base64_encode makes of the bytes.
UpTo(bytes, k) == IF 3 * k < Len(bytes) THEN 3 * k ELSE Len(bytes)
Taken(bytes, k) == SubSeq(bytes, 3 * k - 2, UpTo(bytes, k))

LEMMA TakenIs ==
  ASSUME NEW bytes \in Seq(Bytes), NEW k \in 1..((Len(bytes) + 2) \div 3)
  PROVE  /\ Taken(bytes, k) \in Seq(Bytes) /\ Len(Taken(bytes, k)) \in 1..3
         /\ SubSeq(bytes, 1, UpTo(bytes, k)) = SubSeq(bytes, 1, UpTo(bytes, k - 1)) \o Taken(bytes, k)
  <1> DEFINE n == Len(bytes)
             u == UpTo(bytes, k)
  <1>1. n \in Nat
    OBVIOUS
  <1>2. k \in Nat /\ 3 * k <= n + 2 /\ 3 * (k - 1) < n
    <2> HIDE DEF n
    <2>1. k \in 1..((n + 2) \div 3)
      BY DEF n
    <2> QED  BY <1>1, <2>1
  <1>3. u \in Nat /\ u <= n /\ 3 * k - 2 <= u /\ u <= 3 * k
    <2> HIDE DEF n
    <2>1. (IF 3 * k < n THEN 3 * k ELSE n) = u
      BY DEF UpTo, n
    <2> HIDE DEF u
    <2>2. k >= 1
      OBVIOUS
    <2> QED  BY <1>1, <1>2, <2>1, <2>2
  <1>4. UpTo(bytes, k - 1) = 3 * k - 3
    <2>1. UpTo(bytes, k - 1) = 3 * (k - 1)
      BY <1>2 DEF UpTo
    <2> QED  BY <1>2, <2>1
  <1> HIDE DEF u
  <1>5. Taken(bytes, k) = SubSeq(bytes, 3 * k - 2, u)
    BY DEF Taken, u
  <1>6. 3 * k - 3 \in Nat /\ 3 * k - 3 <= u /\ (3 * k - 3) + 1 = 3 * k - 2
    BY <1>2, <1>3
  <1>7. SubSeq(bytes, 1, u) = SubSeq(bytes, 1, 3 * k - 3) \o SubSeq(bytes, 3 * k - 2, u)
    BY <1>3, <1>6, SplitAt
  <1>8. SubSeq(bytes, 3 * k - 2, u) \in Seq(Bytes) /\ Len(SubSeq(bytes, 3 * k - 2, u)) = u - (3 * k - 3)
    BY <1>1, <1>2, <1>3
  <1>9. u - (3 * k - 3) \in 1..3
    BY <1>2, <1>3
  <1> QED  BY <1>4, <1>5, <1>7, <1>8, <1>9 DEF u

Encoding(bytes, url, f) ==
    /\ f[0] = <<>>
    /\ \A k \in 1..((Len(bytes) + 2) \div 3) : f[k] = f[k - 1] \o EncodedGroup(Taken(bytes, k), url)

LEMMA EncodingIs ==
  ASSUME NEW bytes \in Seq(Bytes), NEW url \in BOOLEAN
  PROVE  \E f : Encoding(bytes, url, f) /\ base64_encode(bytes, url) = f[(Len(bytes) + 2) \div 3]
  <1> DEFINE n == (Len(bytes) + 2) \div 3
             e(k) == EncodedGroup(SubSeq(bytes, 3 * k - 2, IF 3 * k < Len(bytes) THEN 3 * k ELSE Len(bytes)), url)
             step == [x \in Seq(Bytes) \X (1..n) |-> x[1] \o e(x[2])]
             Right(f) == f = [k \in 0..n |-> IF k = 0 THEN <<>> ELSE f[k - 1] \o e(k)]
  <1>1. n \in Nat
    <2>1. Len(bytes) \in Nat
      OBVIOUS
    <2> QED  BY <2>1
  <1>2. ASSUME NEW k \in 1..n PROVE e(k) \in Seq(Bytes) /\ e(k) = EncodedGroup(Taken(bytes, k), url)
    <2>1. e(k) = EncodedGroup(Taken(bytes, k), url)
      BY DEF Taken, UpTo
    <2>2. Taken(bytes, k) \in Seq(Bytes) /\ Len(Taken(bytes, k)) \in 1..3
      BY TakenIs
    <2>3. EncodedGroup(Taken(bytes, k), url) \in Seq(Bytes)
      BY <2>2, EncodedGroupIs
    <2> QED  BY <2>1, <2>3
  <1> HIDE DEF n, e
  <1>3. step \in [Seq(Bytes) \X (1..n) -> Seq(Bytes)]
    <2>1. \A x \in Seq(Bytes), k \in 1..n : x \o e(k) \in Seq(Bytes)
      BY <1>2
    <2> QED  BY <2>1
  <1>4. <<>> \in Seq(Bytes)
    OBVIOUS
  <1>5. PICK f : /\ f \in [0..n -> Seq(Bytes)] /\ f[0] = <<>>
                 /\ \A k \in 1..n : f[k] = step[<<f[k - 1], k>>]
    <2> HIDE DEF step
    <2>1. PICK f : Recursed(f, Seq(Bytes), n, <<>>, step)
      BY <1>1, <1>3, <1>4, Recursion
    <2> QED  BY <2>1 DEF Recursed
  <1>6. \A k \in 1..n : f[k] = f[k - 1] \o e(k)
    <2>1. \A k \in 1..n : k - 1 \in 0..n
      BY <1>1
    <2>2. \A k \in 1..n : f[k - 1] \in Seq(Bytes)
      BY <1>5, <2>1
    <2>3. \A x \in Seq(Bytes), k \in 1..n : step[<<x, k>>] = x \o e(k)
      OBVIOUS
    <2> HIDE DEF step
    <2> QED  BY <1>5, <2>2, <2>3
  <1> HIDE DEF step
  <1>7. Right(f)
    <2>1. \A k \in 0..n : f[k] = IF k = 0 THEN <<>> ELSE f[k - 1] \o e(k)
      <3>1. \A k \in 0..n : k = 0 \/ (k \in 1..n /\ k # 0)
        BY <1>1
      <3> QED  BY <1>5, <1>6, <3>1
    <2>2. f = [k \in 0..n |-> f[k]]
      BY <1>5
    <2> QED  BY <2>1, <2>2
  <1> DEFINE d == CHOOSE g : Right(g)
  <1>8. base64_encode(bytes, url) = d[n]
    BY Zenon DEF base64_encode, n, e
  <1>9. Right(d)
    <2> HIDE DEF Right
    <2> QED  BY <1>7
  <1> HIDE DEF d
  <1>10. d[0] = <<>> /\ \A k \in 1..n : d[k] = d[k - 1] \o e(k)
    <2>1. \A k \in 0..n : d[k] = IF k = 0 THEN <<>> ELSE d[k - 1] \o e(k)
      BY <1>9
    <2>2. 0 \in 0..n /\ \A k \in 1..n : k \in 0..n /\ k # 0
      BY <1>1
    <2> QED  BY <2>1, <2>2
  <1>11. Encoding(bytes, url, d)
    BY <1>2, <1>10 DEF Encoding, n
  <1> QED  BY <1>8, <1>11 DEF n

\* What is encoded is decoded.
LEMMA EncodeGood ==
  ASSUME NEW bytes \in Seq(Bytes), NEW url \in BOOLEAN
  PROVE  Good(base64_encode(bytes, url), bytes)
  <1> DEFINE n == (Len(bytes) + 2) \div 3
  <1>1. PICK f : Encoding(bytes, url, f) /\ base64_encode(bytes, url) = f[n]
    BY EncodingIs
  <1> DEFINE K == {k \in 0..n : Good(f[k], SubSeq(bytes, 1, UpTo(bytes, k)))}
  <1>2. n \in Nat /\ Len(bytes) \in Nat
    <2>1. Len(bytes) \in Nat
      OBVIOUS
    <2> QED  BY <2>1
  <1>3. 0 \in K
    <2>1. UpTo(bytes, 0) = 0
      BY <1>2 DEF UpTo
    <2>2. SubSeq(bytes, 1, 0) = <<>>
      OBVIOUS
    <2>3. f[0] = <<>> /\ 0 \in 0..n
      BY <1>1, <1>2 DEF Encoding
    <2> QED  BY <2>1, <2>2, <2>3, GoodEmpty
  <1>4. ASSUME NEW k \in 0..(n - 1), k \in K PROVE k + 1 \in K
    <2>1. k + 1 \in 1..n /\ (k + 1) - 1 = k /\ k + 1 \in 0..n
      BY <1>2
    <2> DEFINE g == Taken(bytes, k + 1)
    <2>2. /\ g \in Seq(Bytes) /\ Len(g) \in 1..3
          /\ SubSeq(bytes, 1, UpTo(bytes, k + 1)) = SubSeq(bytes, 1, UpTo(bytes, k)) \o g
      BY <2>1, TakenIs
    <2>3. f[k + 1] = f[k] \o EncodedGroup(g, url)
      BY <1>1, <2>1 DEF Encoding
    <2> HIDE DEF g
    <2>4. Good(EncodedGroup(g, url), g)
      BY <2>2, GoodGroup
    <2>5. Good(f[k], SubSeq(bytes, 1, UpTo(bytes, k)))
      BY <1>4
    <2>6. Good(f[k + 1], SubSeq(bytes, 1, UpTo(bytes, k + 1)))
      BY <2>2, <2>3, <2>4, <2>5, GoodConcat
    <2> QED  BY <2>1, <2>6
  <1>5. n \in K
    <2> HIDE DEF K, n
    <2>1. 0..n \subseteq K /\ n \in 0..n
      BY <1>2, <1>3, <1>4, NumbersAre
    <2> QED  BY <2>1
  <1>6. SubSeq(bytes, 1, UpTo(bytes, n)) = bytes
    <2>1. \A x \in Nat : ~(3 * ((x + 2) \div 3) < x)
      OBVIOUS
    <2>2. UpTo(bytes, n) = Len(bytes)
      BY <1>2, <2>1 DEF UpTo
    <2> QED  BY <2>2
  <1> QED  BY <1>1, <1>5, <1>6
-----------------------------------------------------------------------------
\* Line breaks begin where a group would: the first at a multiple of four.
Aligned(t) == \A i \in 1..Len(t) : t[i] = Newline => \E k \in Nat : 4 * k + 1 <= i /\ t[4 * k + 1] = Newline

Clean(t) == Without(t, {Newline})

LEMMA CleanIs ==
  ASSUME NEW t \in Seq(Bytes)
  PROVE  /\ Clean(t) \in Seq(Bytes)
         /\ (\A i \in 1..Len(t) : t[i] # Newline) => Clean(t) = t
  <1>1. Clean(t) \in Seq(Bytes)
    BY WithoutType DEF Clean
  <1>2. ASSUME \A i \in 1..Len(t) : t[i] # Newline PROVE Clean(t) = t
    <2>1. \A i \in 1..Len(t) : t[i] \notin {Newline}
      BY <1>2
    <2> QED  BY <2>1, WithoutNone DEF Clean
  <1> QED  BY <1>1, <1>2

LEMMA CleanOfConcat ==
  ASSUME NEW s \in Seq(Bytes), NEW u \in Seq(Bytes)
  PROVE  Clean(s \o u) = Clean(s) \o Clean(u)
  BY WithoutOfConcat DEF Clean

\* The decoder that does not remove line breaks throws at one.
LEMMA NewlineThrows ==
  ASSUME NEW t \in Seq(Bytes), Aligned(t), NEW i \in 1..Len(t), t[i] = Newline
  PROVE  ~DecodedGroups(t).ok
  <1>1. PICK k \in Nat : 4 * k + 1 <= i /\ t[4 * k + 1] = Newline
    BY DEF Aligned
  <1>2. Len(t) \in Nat
    OBVIOUS
  <1>3. 4 * k < Len(t) /\ (k + 1) - 1 = k /\ 4 * k \in Nat
    BY <1>1, <1>2
  <1>4. Rounds(t) \in Nat /\ k + 1 \in 1..Rounds(t)
    <2> DEFINE n == Len(t)
    <2>1. n \in Nat /\ 4 * k < n
      BY <1>2, <1>3
    <2> HIDE DEF n
    <2>2. (n + 3) \div 4 \in Nat /\ k + 1 \in 1..((n + 3) \div 4)
      BY <2>1
    <2> QED  BY <2>2 DEF Rounds, n
  <1>5. CharAt(t, 4 * k) = Newline
    BY <1>1, <1>3 DEF CharAt
  <1>6. ~DecodedGroup(t, 4 * k).ok
    BY <1>3, <1>5, DecodedGroupIs, PositionsAre
  <1>7. PICK d : Decoding(t, d) /\ DecodedGroups(t) = d[Rounds(t)]
    BY DecodingIs
  <1>8. ASSUME d[Rounds(t)].ok PROVE FALSE
    <2>1. \A j \in 1..Rounds(t) : DecodedGroup(t, 4 * (j - 1)).ok
      BY <1>4, <1>7, <1>8, DecodingOk
    <2> QED  BY <1>3, <1>4, <1>6, <2>1
  <1> QED  BY <1>7, <1>8

LEMMA AlignedPrefix ==
  ASSUME NEW t \in Seq(Bytes), NEW u \in Seq(Bytes), Aligned(t), Begins(u, t)
  PROVE  Aligned(u)
  <1>1. ASSUME NEW i \in 1..Len(u), u[i] = Newline
        PROVE  \E k \in Nat : 4 * k + 1 <= i /\ u[4 * k + 1] = Newline
    <2>1. i \in 1..Len(t) /\ t[i] = Newline
      <3>1. Len(u) \in Nat /\ Len(t) \in Nat /\ Len(u) <= Len(t) /\ u[i] = t[i]
        BY DEF Begins
      <3> QED  BY <1>1, <3>1
    <2>2. PICK k \in Nat : 4 * k + 1 <= i /\ t[4 * k + 1] = Newline
      BY <2>1 DEF Aligned
    <2>3. 4 * k + 1 \in 1..Len(u)
      <3>1. Len(u) \in Nat
        OBVIOUS
      <3> QED  BY <2>2, <3>1
    <2>4. u[4 * k + 1] = Newline
      BY <2>2, <2>3 DEF Begins
    <2> QED  BY <2>2, <2>4
  <1> QED  BY <1>1 DEF Aligned

LEMMA AlignedConcat ==
  ASSUME NEW a \in Seq(Bytes), NEW b \in Seq(Bytes), Aligned(a), Aligned(b),
         NEW m \in Nat, Len(Clean(a)) = 4 * m
  PROVE  Aligned(a \o b)
  <1> DEFINE c == a \o b
  <1>1. c \in Seq(Bytes) /\ Len(c) = Len(a) + Len(b) /\ Len(a) \in Nat /\ Len(b) \in Nat
    OBVIOUS
  <1>2. \A i \in 1..Len(a) : c[i] = a[i]
    OBVIOUS
  <1>3. \A i \in 1..Len(b) : c[Len(a) + i] = b[i]
    OBVIOUS
  <1> HIDE DEF c
  <1>4. ASSUME NEW i \in 1..Len(c), c[i] = Newline
        PROVE  \E k \in Nat : 4 * k + 1 <= i /\ c[4 * k + 1] = Newline
    <2>1. CASE \E j \in 1..Len(a) : j <= i /\ a[j] = Newline
      <3>1. PICK j \in 1..Len(a) : j <= i /\ a[j] = Newline
        BY <2>1
      <3>2. PICK k \in Nat : 4 * k + 1 <= j /\ a[4 * k + 1] = Newline
        BY <3>1 DEF Aligned
      <3>3. 4 * k + 1 \in 1..Len(a) /\ 4 * k + 1 <= i
        BY <1>1, <3>1, <3>2
      <3> QED  BY <1>2, <3>2, <3>3
    <2>2. CASE ~\E j \in 1..Len(a) : j <= i /\ a[j] = Newline
      <3>1. ~(i <= Len(a))
        <4>1. SUFFICES ASSUME i <= Len(a) PROVE FALSE
          OBVIOUS
        <4>2. i \in 1..Len(a) /\ i <= i
          BY <1>1, <4>1
        <4> QED  BY <1>2, <1>4, <2>2, <4>2
      <3>2. \A j \in 1..Len(a) : a[j] # Newline
        <4>1. \A j \in 1..Len(a) : j <= i
          BY <1>1, <3>1
        <4> QED  BY <2>2, <4>1
      <3>3. Len(a) = 4 * m
        BY <3>2, CleanIs
      <3>4. i - Len(a) \in 1..Len(b) /\ Len(a) + (i - Len(a)) = i
        BY <1>1, <3>1
      <3>5. b[i - Len(a)] = Newline
        BY <1>3, <1>4, <3>4
      <3>6. PICK k \in Nat : 4 * k + 1 <= i - Len(a) /\ b[4 * k + 1] = Newline
        BY <3>4, <3>5 DEF Aligned
      <3>7. 4 * k + 1 \in 1..Len(b) /\ Len(a) + (4 * k + 1) = 4 * (m + k) + 1 /\ m + k \in Nat
            /\ 4 * (m + k) + 1 <= i
        BY <1>1, <3>3, <3>4, <3>6
      <3>8. c[4 * (m + k) + 1] = Newline
        <4> DEFINE q == 4 * k + 1
        <4>1. q \in 1..Len(b) /\ b[q] = Newline /\ Len(a) + q = 4 * (m + k) + 1
          BY <3>6, <3>7
        <4> HIDE DEF q
        <4>2. c[Len(a) + q] = b[q]
          BY <1>3, <4>1
        <4> QED  BY <4>1, <4>2
      <3> QED  BY <3>7, <3>8
    <2> QED  BY <2>1, <2>2
  <1>5. Aligned(c)
    BY <1>4 DEF Aligned
  <1> QED  BY <1>5 DEF c

LEMMA AlignedWithout ==
  ASSUME NEW t \in Seq(Bytes), \A i \in 1..Len(t) : t[i] # Newline
  PROVE  Aligned(t)
  BY DEF Aligned
-----------------------------------------------------------------------------
\* insert_linebreaks: the recursion.
Breaking(str, d, f) ==
    /\ f[0] = <<>>
    /\ \A i \in 1..Len(str) :
          f[i] = f[i - 1] \o (IF i > 1 /\ (i - 1) % d = 0 THEN <<Newline, str[i]>> ELSE <<str[i]>>)

LEMMA BreakingIs ==
  ASSUME NEW str \in Seq(Bytes), NEW d \in Nat \ {0}
  PROVE  \E f : /\ Breaking(str, d, f) /\ insert_linebreaks(str, d) = f[Len(str)]
                /\ \A i \in 0..Len(str) : f[i] \in Seq(Bytes)
  <1> DEFINE n == Len(str)
             e(i) == IF i > 1 /\ (i - 1) % d = 0 THEN <<Newline, str[i]>> ELSE <<str[i]>>
             step == [x \in Seq(Bytes) \X (1..n) |-> x[1] \o e(x[2])]
             Right(f) == f = [i \in 0..n |-> IF i = 0 THEN <<>> ELSE f[i - 1] \o e(i)]
  <1>1. n \in Nat
    OBVIOUS
  <1>2. ASSUME NEW i \in 1..n PROVE e(i) \in Seq(Bytes)
    <2> DEFINE c == str[i]
               brk == i > 1 /\ (i - 1) % d = 0
    <2>1. c \in Bytes
      OBVIOUS
    <2>2. Newline \in Bytes
      BY DEF Newline, Bytes
    <2> HIDE DEF c
    <2>3. <<Newline, c>> \in Seq(Bytes) /\ <<c>> \in Seq(Bytes)
      BY <2>1, <2>2
    <2> HIDE DEF brk
    <2>4. (IF brk THEN <<Newline, c>> ELSE <<c>>) \in Seq(Bytes)
      BY <2>3
    <2> QED  BY <2>4 DEF brk, c
  <1> HIDE DEF n, e
  <1>3. step \in [Seq(Bytes) \X (1..n) -> Seq(Bytes)]
    <2>1. \A x \in Seq(Bytes), i \in 1..n : x \o e(i) \in Seq(Bytes)
      BY <1>2
    <2> QED  BY <2>1
  <1>4. <<>> \in Seq(Bytes)
    OBVIOUS
  <1>5. PICK f : /\ f \in [0..n -> Seq(Bytes)] /\ f[0] = <<>>
                 /\ \A i \in 1..n : f[i] = step[<<f[i - 1], i>>]
    <2> HIDE DEF step
    <2>1. PICK f : Recursed(f, Seq(Bytes), n, <<>>, step)
      BY <1>1, <1>3, <1>4, Recursion
    <2> QED  BY <2>1 DEF Recursed
  <1>6. \A i \in 1..n : f[i] = f[i - 1] \o e(i)
    <2>1. \A i \in 1..n : i - 1 \in 0..n
      BY <1>1
    <2>2. \A i \in 1..n : f[i - 1] \in Seq(Bytes)
      BY <1>5, <2>1
    <2>3. \A x \in Seq(Bytes), i \in 1..n : step[<<x, i>>] = x \o e(i)
      OBVIOUS
    <2> HIDE DEF step
    <2> QED  BY <1>5, <2>2, <2>3
  <1> HIDE DEF step
  <1>7. Right(f)
    <2>1. \A i \in 0..n : f[i] = IF i = 0 THEN <<>> ELSE f[i - 1] \o e(i)
      <3>1. \A i \in 0..n : i = 0 \/ (i \in 1..n /\ i # 0)
        BY <1>1
      <3> QED  BY <1>5, <1>6, <3>1
    <2>2. f = [i \in 0..n |-> f[i]]
      BY <1>5
    <2> QED  BY <2>1, <2>2
  <1> DEFINE g == CHOOSE h : Right(h)
  <1>8. insert_linebreaks(str, d) = g[n]
    BY Zenon DEF insert_linebreaks, n, e
  <1>9. Right(g)
    <2> HIDE DEF Right
    <2> QED  BY <1>7
  <1> HIDE DEF g
  <1>10. g[0] = <<>> /\ \A i \in 1..n : g[i] = g[i - 1] \o e(i)
    <2>1. \A i \in 0..n : g[i] = IF i = 0 THEN <<>> ELSE g[i - 1] \o e(i)
      BY <1>9
    <2>2. 0 \in 0..n /\ \A i \in 1..n : i \in 0..n /\ i # 0
      BY <1>1
    <2> QED  BY <2>1, <2>2
  <1>11. \A i \in 0..n : g[i] \in Seq(Bytes)
    <2> DEFINE T == {i \in 0..n : g[i] \in Seq(Bytes)}
    <2>1. 0 \in T
      <3>1. 0 \in 0..n /\ g[0] \in Seq(Bytes)
        BY <1>1, <1>4, <1>10
      <3> QED  BY <3>1
    <2>2. ASSUME NEW i \in 0..(n - 1), i \in T PROVE i + 1 \in T
      <3>1. i + 1 \in 1..n /\ (i + 1) - 1 = i /\ i + 1 \in 0..n
        BY <1>1
      <3>2. g[i + 1] = g[i] \o e(i + 1) /\ e(i + 1) \in Seq(Bytes) /\ g[i] \in Seq(Bytes)
        BY <1>2, <1>10, <2>2, <3>1
      <3>3. g[i + 1] \in Seq(Bytes)
        BY <3>2
      <3> QED  BY <3>1, <3>3
    <2> HIDE DEF T
    <2>3. 0..n \subseteq T
      BY <1>1, <2>1, <2>2, NumbersAre
    <2> QED  BY <2>3 DEF T
  <1>12. Breaking(str, d, g)
    BY <1>10 DEF Breaking, n, e
  <1> QED  BY <1>8, <1>11, <1>12 DEF n
-----------------------------------------------------------------------------
LEMMA OneOf ==
  ASSUME NEW S, NEW s \in Seq(S), NEW j \in 1..Len(s)
  PROVE  SubSeq(s, j, j) = <<s[j]>>
  <1> DEFINE t == SubSeq(s, j, j)
  <1>1. t \in Seq(S) /\ Len(t) = 1
    OBVIOUS
  <1>2. t[1] = s[j]
    OBVIOUS
  <1> HIDE DEF t
  <1>3. t = <<t[1]>>
    BY <1>1, ShortSequences
  <1> QED  BY <1>2, <1>3 DEF t

LEMMA CleanShort ==
  ASSUME NEW c \in Bytes, c # Newline
  PROVE  Clean(<<c>>) = <<c>> /\ Clean(<<Newline, c>>) = <<c>>
  <1>1. Newline \in Bytes
    BY DEF Newline, Bytes
  <1>2. <<c>> \in Seq(Bytes) /\ <<Newline>> \in Seq(Bytes)
    BY <1>1
  <1>3. <<Newline, c>> = <<Newline>> \o <<c>>
    OBVIOUS
  <1>4. Clean(<<c>>) = <<c>>
    <2>1. \A i \in 1..Len(<<c>>) : <<c>>[i] # Newline
      OBVIOUS
    <2> QED  BY <1>2, <2>1, CleanIs
  <1>5. Clean(<<Newline>>) = <<>>
    <2>1. \A i \in 1..Len(<<Newline>>) : <<Newline>>[i] \in {Newline}
      OBVIOUS
    <2> QED  BY <1>2, <2>1, WithoutAll DEF Clean
  <1>6. Clean(<<Newline>> \o <<c>>) = Clean(<<Newline>>) \o Clean(<<c>>)
    BY <1>2, CleanOfConcat
  <1>7. <<>> \o <<c>> = <<c>>
    OBVIOUS
  <1> QED  BY <1>3, <1>4, <1>5, <1>6, <1>7

\* The first line break is behind d characters.
FirstAt(t, d) == Len(t) >= d + 1 /\ t[d + 1] = Newline /\ \A j \in 1..d : t[j] # Newline

LEMMA FirstStays ==
  ASSUME NEW t \in Seq(Bytes), NEW e \in Seq(Bytes), NEW d \in Nat, FirstAt(t, d)
  PROVE  FirstAt(t \o e, d)
  <1> DEFINE c == t \o e
  <1>1. Len(c) = Len(t) + Len(e) /\ Len(t) \in Nat /\ Len(e) \in Nat
    OBVIOUS
  <1>2. \A j \in 1..Len(t) : c[j] = t[j]
    OBVIOUS
  <1> HIDE DEF c
  <1>3. Len(t) >= d + 1 /\ t[d + 1] = Newline /\ \A j \in 1..d : t[j] # Newline
    BY DEF FirstAt
  <1>4. d + 1 \in 1..Len(t) /\ \A j \in 1..d : j \in 1..Len(t)
    BY <1>1, <1>3
  <1>5. Len(c) >= d + 1
    BY <1>1, <1>3
  <1>6. FirstAt(c, d)
    BY <1>2, <1>3, <1>4, <1>5 DEF FirstAt
  <1> QED  BY <1>6 DEF c

LEMMA FirstAligned ==
  ASSUME NEW t \in Seq(Bytes), NEW d \in Nat, d % 4 = 0, FirstAt(t, d)
  PROVE  Aligned(t)
  <1>1. d \div 4 \in Nat /\ 4 * (d \div 4) = d
    OBVIOUS
  <1>2. ASSUME NEW i \in 1..Len(t), t[i] = Newline
        PROVE  \E k \in Nat : 4 * k + 1 <= i /\ t[4 * k + 1] = Newline
    <2>1. i \notin 1..d
      BY <1>2 DEF FirstAt
    <2>2. d + 1 <= i
      <3>1. Len(t) \in Nat
        OBVIOUS
      <3> QED  BY <2>1, <3>1
    <2> QED  BY <1>1, <2>2 DEF FirstAt
  <1> QED  BY <1>2 DEF Aligned

\* Line breaks are all that insert_linebreaks adds.
LEMMA BrokenIs ==
  ASSUME NEW str \in Seq(Bytes), \A i \in 1..Len(str) : str[i] # Newline,
         NEW d \in Nat \ {0}, d % 4 = 0
  PROVE  LET r == insert_linebreaks(str, d)
         IN  r \in Seq(Bytes) /\ Clean(r) = str /\ Aligned(r)
  <1> DEFINE n == Len(str)
  <1>1. PICK f : /\ Breaking(str, d, f) /\ insert_linebreaks(str, d) = f[n]
                 /\ \A i \in 0..n : f[i] \in Seq(Bytes)
    BY BreakingIs
  <1> DEFINE T == {i \in 0..n : /\ Clean(f[i]) = SubSeq(str, 1, i)
                                /\ i <= d => f[i] = SubSeq(str, 1, i)
                                /\ i > d => FirstAt(f[i], d)}
  <1>2. n \in Nat
    OBVIOUS
  <1>3. 0 \in T
    <2>1. SubSeq(str, 1, 0) = <<>> /\ Clean(<<>>) = <<>>
      BY WithoutOfEmpty DEF Clean
    <2>2. f[0] = <<>> /\ 0 \in 0..n /\ ~(0 > d)
      BY <1>1, <1>2 DEF Breaking
    <2> QED  BY <2>1, <2>2
  <1>4. ASSUME NEW i \in 0..(n - 1), i \in T PROVE i + 1 \in T
    <2> DEFINE c == str[i + 1]
               a == SubSeq(str, 1, i)
               e == IF i + 1 > 1 /\ ((i + 1) - 1) % d = 0 THEN <<Newline, c>> ELSE <<c>>
    <2>1. i + 1 \in 1..n /\ (i + 1) - 1 = i /\ i + 1 \in 0..n /\ i \in 0..n /\ i \in Nat
      BY <1>2
    <2>2. f[i + 1] = f[i] \o e
      BY <1>1, <2>1 DEF Breaking
    <2>3. c \in Bytes /\ c # Newline
      BY <2>1
    <2>4. SubSeq(str, 1, i + 1) = a \o <<c>> /\ a \in Seq(Bytes) /\ Len(a) = i
      <3>1. i + 1 <= Len(str) /\ i <= i + 1
        BY <2>1
      <3>2. SubSeq(str, 1, i + 1) = a \o SubSeq(str, i + 1, i + 1)
        BY <2>1, <3>1, SplitAt
      <3>3. SubSeq(str, i + 1, i + 1) = <<c>>
        BY <2>1, OneOf
      <3>4. a \in Seq(Bytes) /\ Len(a) = i
        BY <2>1
      <3> QED  BY <3>2, <3>3, <3>4
    <2>5. e = <<c>> \/ e = <<Newline, c>>
      OBVIOUS
    <2>6. (i < d => e = <<c>>) /\ (i = d => e = <<Newline, c>>)
      <3>1. \A x, y \in Nat : y # 0 /\ x # 0 /\ x < y => x % y # 0
        OBVIOUS
      <3>2. i < d /\ i # 0 => i % d # 0
        BY <2>1, <3>1
      <3>3. i = d => i % d = 0 /\ i # 0
        BY <2>1
      <3>4. i + 1 > 1 <=> i # 0
        BY <2>1
      <3> HIDE DEF c
      <3>5. i < d => e = <<c>>
        BY <2>1, <3>2, <3>4
      <3>6. i = d => e = <<Newline, c>>
        BY <2>1, <3>3, <3>4
      <3> QED  BY <3>5, <3>6
    <2> HIDE DEF e, c
    <2>7. e \in Seq(Bytes) /\ Clean(e) = <<c>>
      <3>1. Newline \in Bytes
        BY DEF Newline, Bytes
      <3>2. <<Newline, c>> \in Seq(Bytes) /\ <<c>> \in Seq(Bytes)
        BY <2>3, <3>1
      <3>3. Clean(<<c>>) = <<c>> /\ Clean(<<Newline, c>>) = <<c>>
        BY <2>3, CleanShort
      <3> QED  BY <2>5, <3>2, <3>3
    <2>8. f[i] \in Seq(Bytes) /\ Clean(f[i]) = a
      BY <1>1, <1>4, <2>1
    <2>9. Clean(f[i + 1]) = SubSeq(str, 1, i + 1)
      <3>1. Clean(f[i] \o e) = Clean(f[i]) \o Clean(e)
        BY <2>7, <2>8, CleanOfConcat
      <3> QED  BY <2>2, <2>4, <2>7, <2>8, <3>1
    <2>10. ASSUME i + 1 <= d PROVE f[i + 1] = SubSeq(str, 1, i + 1)
      <3>1. i <= d /\ i < d
        BY <2>1, <2>10
      <3>2. f[i] = a
        BY <1>4, <3>1
      <3> QED  BY <2>2, <2>4, <2>6, <3>1, <3>2
    <2>11. ASSUME i + 1 > d PROVE FirstAt(f[i + 1], d)
      <3>1. CASE i = d
        <4>1. f[i] = a /\ e = <<Newline, c>> /\ i <= d
          <5>1. i <= d
            BY <2>1, <3>1
          <5> QED  BY <1>4, <2>6, <3>1, <5>1
        <4> DEFINE w == <<Newline, c>>
                   b == a \o w
        <4>2. w \in Seq(Bytes) /\ Len(w) = 2 /\ w[1] = Newline
          <5>1. Newline \in Bytes
            BY DEF Newline, Bytes
          <5> QED  BY <2>3, <5>1
        <4>3. f[i + 1] = b
          BY <2>2, <4>1
        <4> HIDE DEF w
        <4>4. a \in Seq(Bytes) /\ Len(a) = d /\ \A j \in 1..d : a[j] # Newline
          <5>1. \A j \in 1..i : a[j] = str[j] /\ j \in 1..n
            BY <2>1
          <5> QED  BY <2>4, <3>1, <5>1
        <4> HIDE DEF a
        <4>9. a \in Seq(Bytes) /\ w \in Seq(Bytes)
          BY <4>2, <4>4
        <4>5. Len(b) = Len(a) + Len(w)
          BY <4>9
        <4>6. \A j \in 1..Len(a) : b[j] = a[j]
          BY <4>9
        <4>7. \A j \in 1..Len(w) : b[Len(a) + j] = w[j]
          BY <4>9
        <4> HIDE DEF b
        <4>8. Len(b) >= d + 1 /\ b[d + 1] = Newline /\ \A j \in 1..d : b[j] # Newline
          <5>1. 1 \in 1..Len(w)
            BY <4>2
          <5> QED  BY <4>2, <4>4, <4>5, <4>6, <4>7, <5>1
        <4> QED  BY <4>3, <4>8 DEF FirstAt
      <3>2. CASE i # d
        <4>1. i > d
          BY <2>1, <2>11, <3>2
        <4>2. FirstAt(f[i], d)
          BY <1>4, <4>1
        <4> QED  BY <2>2, <2>7, <2>8, <4>2, FirstStays
      <3> QED  BY <3>1, <3>2
    <2> QED  BY <2>1, <2>9, <2>10, <2>11
  <1>5. n \in T
    <2> HIDE DEF T, n
    <2>1. 0..n \subseteq T
      BY <1>2, <1>3, <1>4, NumbersAre
    <2>2. n \in 0..n
      BY <1>2
    <2> QED  BY <2>1, <2>2
  <1>6. SubSeq(str, 1, n) = str
    OBVIOUS
  <1>7. f[n] \in Seq(Bytes) /\ Clean(f[n]) = str
    <2>1. n \in 0..n
      BY <1>2
    <2> QED  BY <1>1, <1>5, <1>6, <2>1
  <1>8. Aligned(f[n])
    <2>1. CASE n <= d
      <3>1. f[n] = str
        BY <1>5, <1>6, <2>1
      <3> QED  BY <3>1, AlignedWithout
    <2>2. CASE ~(n <= d)
      <3>1. n > d
        BY <1>2, <2>2
      <3>2. FirstAt(f[n], d)
        BY <1>5, <3>1
      <3> QED  BY <1>7, <3>2, FirstAligned
    <2> QED  BY <2>1, <2>2
  <1> QED  BY <1>1, <1>7, <1>8
-----------------------------------------------------------------------------
\* What base64 makes of some bytes, in one call or in several.
Base64Text(t, bytes) == t \in Seq(Bytes) /\ Aligned(t) /\ Good(Clean(t), bytes)

LEMMA Base64Encoded ==
  ASSUME NEW k \in Base64Kinds, NEW bytes \in Seq(Bytes)
  PROVE  Base64Text(Encode(k, bytes), bytes)
  <1>1. ASSUME NEW url \in BOOLEAN
        PROVE  LET e == base64_encode(bytes, url)
               IN  /\ e \in Seq(Bytes) /\ (\A i \in 1..Len(e) : e[i] # Newline)
                   /\ Good(e, bytes) /\ Base64Text(e, bytes)
    <2> DEFINE e == base64_encode(bytes, url)
    <2>1. Good(e, bytes)
      BY EncodeGood
    <2> HIDE DEF e
    <2>2. e \in Seq(Bytes) /\ \A i \in 1..Len(e) : e[i] # Newline
      BY <2>1 DEF Good
    <2>3. Clean(e) = e /\ Aligned(e)
      BY <2>2, CleanIs, AlignedWithout
    <2>4. Base64Text(e, bytes)
      BY <2>1, <2>2, <2>3 DEF Base64Text
    <2> QED  BY <2>1, <2>2, <2>4 DEF e
  <1>2. ASSUME NEW d \in {PemLine, MimeLine}
        PROVE  Base64Text(insert_linebreaks(base64_encode(bytes, FALSE), d), bytes)
    <2> DEFINE e == base64_encode(bytes, FALSE)
               r == insert_linebreaks(e, d)
    <2>1. e \in Seq(Bytes) /\ (\A i \in 1..Len(e) : e[i] # Newline) /\ Good(e, bytes)
      BY <1>1
    <2> HIDE DEF e
    <2>2. d \in Nat \ {0} /\ d % 4 = 0
      BY ConversionsAssumption
    <2>3. r \in Seq(Bytes) /\ Clean(r) = e /\ Aligned(r)
      BY <2>1, <2>2, BrokenIs
    <2> HIDE DEF r
    <2>4. Base64Text(r, bytes)
      BY <2>1, <2>3 DEF Base64Text
    <2> QED  BY <2>4 DEF r, e
  <1>3. \/ k = "base64" /\ Encode(k, bytes) = base64_encode(bytes, FALSE)
        \/ k = "url" /\ Encode(k, bytes) = base64_encode(bytes, TRUE)
        \/ k = "pem" /\ Encode(k, bytes) = insert_linebreaks(base64_encode(bytes, FALSE), PemLine)
        \/ k = "mime" /\ Encode(k, bytes) = insert_linebreaks(base64_encode(bytes, FALSE), MimeLine)
    BY DEF Base64Kinds, Encode, ToBase64
  <1> QED  BY <1>1, <1>2, <1>3

LEMMA Base64Concat ==
  ASSUME NEW a, NEW x, NEW b, NEW y, Base64Text(a, x), Base64Text(b, y)
  PROVE  Base64Text(a \o b, x \o y)
  <1>1. /\ a \in Seq(Bytes) /\ Aligned(a) /\ Good(Clean(a), x)
        /\ b \in Seq(Bytes) /\ Aligned(b) /\ Good(Clean(b), y)
    BY DEF Base64Text
  <1>2. PICK m \in Nat : Len(Clean(a)) = 4 * m
    BY <1>1 DEF Good
  <1>3. Aligned(a \o b)
    BY <1>1, <1>2, AlignedConcat
  <1>4. Good(Clean(a) \o Clean(b), x \o y)
    BY <1>1, GoodConcat
  <1>5. Clean(a \o b) = Clean(a) \o Clean(b)
    BY <1>1, CleanOfConcat
  <1>6. a \o b \in Seq(Bytes)
    BY <1>1
  <1> QED  BY <1>3, <1>4, <1>5, <1>6 DEF Base64Text

\* What becomes of such a text, or of a beginning of one.
LEMMA Base64Back ==
  ASSUME NEW full, NEW bytes, Base64Text(full, bytes), NEW t \in Seq(Bytes), Begins(t, full)
  PROVE  LET plain  == DecodedGroups(t)
             broken == DecodedGroups(Clean(t))
         IN  /\ t = full => /\ broken.ok /\ broken.out = bytes
                            /\ plain.ok <=> Newline \notin ToSet(t)
             /\ broken.ok => IsPrefix(broken.out, bytes)
             /\ plain.ok => plain.out = broken.out
  <1>1. /\ full \in Seq(Bytes) /\ Aligned(full) /\ Clean(full) \in Seq(Bytes) /\ bytes \in Seq(Bytes)
        /\ DecodedGroups(Clean(full)).ok /\ DecodedGroups(Clean(full)).out = bytes
    BY DEF Base64Text, Good
  <1>2. Aligned(t)
    BY <1>1, AlignedPrefix
  <1>3. Newline \in ToSet(t) <=> \E i \in 1..Len(t) : t[i] = Newline
    <2>1. DOMAIN t = 1..Len(t)
      OBVIOUS
    <2> QED  BY <2>1 DEF ToSet
  <1>4. Newline \in ToSet(t) => ~DecodedGroups(t).ok
    BY <1>2, <1>3, NewlineThrows
  <1>5. Newline \notin ToSet(t) => Clean(t) = t
    BY <1>3, CleanIs
  <1>6. ASSUME DecodedGroups(Clean(t)).ok PROVE IsPrefix(DecodedGroups(Clean(t)).out, bytes)
    <2> DEFINE rest == SubSeq(full, Len(t) + 1, Len(full))
    <2>1. rest \in Seq(Bytes) /\ full = t \o rest
      BY <1>1, BeginsRest
    <2> HIDE DEF rest
    <2>2. Clean(full) = Clean(t) \o Clean(rest) /\ Clean(t) \in Seq(Bytes) /\ Clean(rest) \in Seq(Bytes)
      BY <2>1, CleanOfConcat, CleanIs
    <2>3. Begins(Clean(t), Clean(t))
      <3>1. Len(Clean(t)) \in Nat
        BY <2>2
      <3> QED  BY <3>1 DEF Begins
    <2>4. Begins(Clean(t), Clean(full))
      BY <2>2, <2>3, BeginsAtEnd
    <2>5. Begins(DecodedGroups(Clean(t)).out, bytes)
      BY <1>1, <1>6, <2>2, <2>4, DecodePrefix
    <2>6. DecodedGroups(Clean(t)).out \in Seq(Bytes)
      <3>1. PICK d : /\ DecodedGroups(Clean(t)) = d[Rounds(Clean(t))]
                     /\ \A k \in 0..Rounds(Clean(t)) : d[k] \in Answers
        BY <2>2, DecodingIs
      <3>2. Rounds(Clean(t)) \in 0..Rounds(Clean(t))
        <4>1. \A n \in Nat : (n + 3) \div 4 \in 0..((n + 3) \div 4)
          OBVIOUS
        <4>2. Len(Clean(t)) \in Nat
          BY <2>2
        <4> QED  BY <4>1, <4>2 DEF Rounds
      <3>3. DecodedGroups(Clean(t)) \in Answers
        BY <3>1, <3>2
      <3> QED  BY <3>3 DEF Answers
    <2> QED  BY <1>1, <2>5, <2>6, BeginsIs
  <1>7. ASSUME t = full
        PROVE  /\ DecodedGroups(Clean(t)).ok /\ DecodedGroups(Clean(t)).out = bytes
               /\ DecodedGroups(t).ok <=> Newline \notin ToSet(t)
    <2>1. DecodedGroups(Clean(t)).ok /\ DecodedGroups(Clean(t)).out = bytes
      BY <1>1, <1>7
    <2>2. DecodedGroups(t).ok <=> Newline \notin ToSet(t)
      BY <1>4, <1>5, <2>1
    <2> QED  BY <2>1, <2>2
  <1>8. ASSUME DecodedGroups(t).ok PROVE DecodedGroups(t).out = DecodedGroups(Clean(t)).out
    <2>1. Clean(t) = t
      BY <1>4, <1>5, <1>8
    <2> QED  BY <2>1
  <1> QED  BY <1>6, <1>7, <1>8
-----------------------------------------------------------------------------
\* How far decode looks ahead.
Inside(t, r) == r <= Len(t) /\ (Len(t) % 4 = 0 => r < Len(t))

LEMMA GroupInside ==
  ASSUME NEW t \in Seq(Bytes), NEW k \in 1..Rounds(t)
  PROVE  Inside(t, DecodedGroup(t, 4 * (k - 1)).reach)
  <1> DEFINE p == 4 * (k - 1)
             n == Len(t)
             first  == pos_of_char(CharAt(t, p))
             second == pos_of_char(CharAt(t, p + 1))
             third  == pos_of_char(CharAt(t, p + 2))
             fourth == pos_of_char(CharAt(t, p + 3))
             one    == <<(first * 4 + second \div 16) % 256>>
             two    == Append(one, (second % 16) * 16 + third \div 4)
             three  == Append(two, (third % 4) * 64 + fourth)
             d == DecodedGroup(t, p)
  <1>1. n \in Nat /\ p \in Nat /\ p < n /\ (n % 4 = 0 => p + 3 < n)
    <2>1. n \in Nat /\ k \in 1..((n + 3) \div 4)
      BY DEF Rounds
    <2> HIDE DEF n
    <2> QED  BY <2>1
  <1>2. d = IF Invalid \in {first, second} THEN Answer(<<>>, FALSE, p + 1)
            ELSE IF CharAt(t, p + 2) \in Pads THEN Answer(one, TRUE, p + 2)
            ELSE IF third = Invalid THEN Answer(<<>>, FALSE, p + 2)
            ELSE IF CharAt(t, p + 3) \in Pads THEN Answer(two, TRUE, p + 3)
            ELSE IF fourth = Invalid THEN Answer(<<>>, FALSE, p + 3)
            ELSE Answer(three, TRUE, p + 3)
    BY Zenon DEF DecodedGroup
  <1>3. \A q \in Nat : ~(q < n) => pos_of_char(CharAt(t, q)) = Invalid
    <2>1. \A q \in Nat : ~(q < n) => CharAt(t, q) = 0
      BY DEF CharAt
    <2> QED  BY <2>1, PositionsAre
  <1>4. (second # Invalid => p + 1 < n) /\ (third # Invalid => p + 2 < n)
    BY <1>1, <1>3
  <1> HIDE DEF p, n, first, second, third, fourth, one, two, three, d
  <1>6. \/ d.reach = p + 1
        \/ d.reach = p + 2 /\ second # Invalid
        \/ d.reach = p + 3 /\ second # Invalid /\ third # Invalid
    <2>1. CASE Invalid \in {first, second}
      <3>1. d = Answer(<<>>, FALSE, p + 1)
        BY <1>2, <2>1
      <3>2. d.reach = p + 1
        BY <3>1 DEF Answer
      <3> QED  BY <3>2
    <2>2. CASE Invalid \notin {first, second}
      <3>1. second # Invalid
        BY <2>2
      <3>2. \/ d = Answer(one, TRUE, p + 2)
            \/ d = Answer(<<>>, FALSE, p + 2)
            \/ d = Answer(two, TRUE, p + 3) /\ third # Invalid
            \/ d = Answer(<<>>, FALSE, p + 3) /\ third # Invalid
            \/ d = Answer(three, TRUE, p + 3) /\ third # Invalid
        BY <1>2, <2>2
      <3>3. \/ d.reach = p + 2
            \/ d.reach = p + 3 /\ third # Invalid
        <4>1. CASE d = Answer(one, TRUE, p + 2) \/ d = Answer(<<>>, FALSE, p + 2)
          <5>1. d.reach = p + 2
            BY <4>1 DEF Answer
          <5> QED  BY <5>1
        <4>2. CASE (d = Answer(two, TRUE, p + 3) \/ d = Answer(<<>>, FALSE, p + 3) \/ d = Answer(three, TRUE, p + 3))
                   /\ third # Invalid
          <5>1. d.reach = p + 3
            BY <4>2 DEF Answer
          <5> QED  BY <4>2, <5>1
        <4> QED  BY <3>2, <4>1, <4>2
      <3> QED  BY <3>1, <3>3
    <2> QED  BY <2>1, <2>2
  <1>7. d.reach <= n /\ (n % 4 = 0 => d.reach < n)
    BY <1>1, <1>4, <1>6
  <1> QED  BY <1>7 DEF Inside, d, n, p

LEMMA DecodeInside ==
  ASSUME NEW t \in Seq(Bytes)
  PROVE  Inside(t, DecodedGroups(t).reach)
  <1> DEFINE n == Rounds(t)
  <1>1. PICK d : Decoding(t, d) /\ DecodedGroups(t) = d[n]
    BY DecodingIs
  <1> DEFINE T == {k \in 0..n : Inside(t, d[k].reach)}
  <1>2. n \in Nat /\ Len(t) \in Nat
    <2>1. Len(t) \in Nat
      OBVIOUS
    <2>2. \A x \in Nat : (x + 3) \div 4 \in Nat
      OBVIOUS
    <2> QED  BY <2>1, <2>2 DEF Rounds
  <1>3. 0 \in T
    <2>1. d[0].reach = -1
      <3>1. d[0] = Answer(<<>>, TRUE, -1)
        BY <1>1 DEF Decoding
      <3>2. Answer(<<>>, TRUE, -1).reach = -1
        BY DEF Answer
      <3> QED  BY <3>1, <3>2
    <2>2. -1 <= Len(t) /\ -1 < Len(t)
      BY <1>2
    <2> QED  BY <1>2, <2>1, <2>2 DEF Inside
  <1>4. ASSUME NEW k \in 0..(n - 1), k \in T PROVE k + 1 \in T
    <2> DEFINE g == DecodedGroup(t, 4 * k)
               x == d[k]
               r == d[k + 1]
    <2>1. k + 1 \in 1..n /\ (k + 1) - 1 = k /\ k + 1 \in 0..n
      BY <1>2
    <2>2. r = IF x.ok THEN Answer(x.out \o g.out, g.ok, g.reach) ELSE x
      BY <1>1, <2>1 DEF Decoding
    <2>3. Inside(t, g.reach)
      BY <2>1, GroupInside
    <2>4. Inside(t, x.reach)
      BY <1>4
    <2> HIDE DEF g, x, r
    <2>5. r.reach = g.reach \/ r.reach = x.reach
      <3>1. CASE x.ok
        <4>1. r = Answer(x.out \o g.out, g.ok, g.reach)
          BY <2>2, <3>1
        <4>2. r.reach = g.reach
          BY <4>1 DEF Answer
        <4> QED  BY <4>2
      <3>2. CASE ~x.ok
        BY <2>2, <3>2
      <3> QED  BY <3>1, <3>2
    <2>6. Inside(t, r.reach)
      BY <2>3, <2>4, <2>5
    <2> QED  BY <2>1, <2>6 DEF r
  <1>5. n \in T
    <2> HIDE DEF T, n
    <2>1. 0..n \subseteq T
      BY <1>2, <1>3, <1>4, NumbersAre
    <2>2. n \in 0..n
      BY <1>2
    <2> QED  BY <2>1, <2>2
  <1> QED  BY <1>1, <1>5
-----------------------------------------------------------------------------
\* A text of two hexadecimal digits for each of some bytes.
HexText(t, bytes) ==
    /\ t \in Seq(Bytes) /\ bytes \in Seq(Bytes) /\ Len(t) = 2 * Len(bytes)
    /\ \A i \in 1..Len(bytes) : GetByte(t[2 * i - 1]) * 16 + GetByte(t[2 * i]) = bytes[i]

LEMMA FunctionIsSequence ==
  ASSUME NEW S, NEW n \in Nat, NEW f \in [1..n -> S]
  PROVE  f \in Seq(S) /\ Len(f) = n
  OBVIOUS

LEMMA DigitIs ==
  ASSUME NEW v \in 0..15, NEW up \in BOOLEAN
  PROVE  /\ GetHex(v, up) \in Bytes /\ GetByte(GetHex(v, up)) = v
         /\ IsHexDigit(GetHex(v, up))
  <1>1. CASE v < 10
    <2>1. GetHex(v, up) = 48 + v
      BY <1>1 DEF GetHex
    <2>2. 48 + v \in 48..57 /\ (48 + v) - 48 = v
      BY <1>1
    <2>3. GetByte(48 + v) = v
      BY <2>2 DEF GetByte
    <2> QED  BY <2>1, <2>2, <2>3 DEF Bytes, IsHexDigit
  <1>2. CASE ~(v < 10)
    <2> DEFINE a == IF up THEN 65 ELSE 97
    <2>1. v \in 10..15 /\ v \notin 0..9
      BY <1>2
    <2>2. GetHex(v, up) = a + v - 10
      BY <2>1 DEF GetHex
    <2>3. a = 65 \/ a = 97
      OBVIOUS
    <2> HIDE DEF a
    <2>4. GetByte(a + v - 10) = v /\ a + v - 10 \in (65..70) \cup (97..102)
      BY <2>1, <2>3 DEF GetByte
    <2>5. a + v - 10 \in Bytes /\ IsHexDigit(a + v - 10)
      BY <2>4 DEF Bytes, IsHexDigit
    <2> QED  BY <2>2, <2>4, <2>5
  <1> QED  BY <1>1, <1>2

\* A signed char has the bits of its byte.
LEMMA SignedBits ==
  ASSUME NEW b \in 0..255
  PROVE  /\ HighHalf(AsChar(b)) = b \div 16 /\ AsChar(b) % 16 = b % 16
         /\ b \div 16 \in 0..15 /\ b % 16 \in 0..15 /\ (b \div 16) * 16 + (b % 16) = b
  <1>1. CASE b < 128
    <2>1. AsChar(b) = b
      BY <1>1 DEF AsChar
    <2>2. (b \div 16) % 16 = b \div 16
      OBVIOUS
    <2> QED  BY <2>1, <2>2 DEF HighHalf
  <1>2. CASE ~(b < 128)
    <2>1. AsChar(b) = b - 256
      BY <1>2 DEF AsChar
    <2>2. ((b - 256) \div 16) % 16 = b \div 16 /\ (b - 256) % 16 = b % 16
      OBVIOUS
    <2> QED  BY <2>1, <2>2 DEF HighHalf
  <1> QED  BY <1>1, <1>2

\* Two digits for each byte are a text of that kind, whatever their case.
LEMMA DigitsAre ==
  ASSUME NEW bytes \in Seq(Bytes), NEW up \in BOOLEAN, NEW t,
         t = [i \in 1..(2 * Len(bytes)) |->
                GetHex(IF i % 2 = 1 THEN bytes[(i + 1) \div 2] \div 16 ELSE bytes[(i + 1) \div 2] % 16, up)]
  PROVE  HexText(t, bytes) /\ \A i \in 1..Len(t) : IsHexDigit(t[i])
  <1> DEFINE n == Len(bytes)
             b(i) == bytes[(i + 1) \div 2]
             v(i) == IF i % 2 = 1 THEN b(i) \div 16 ELSE b(i) % 16
  <1>1. n \in Nat
    OBVIOUS
  <1>2. \A i \in 1..n : bytes[i] \in 0..255
    <2>1. \A i \in 1..n : bytes[i] \in Bytes
      OBVIOUS
    <2> QED  BY <2>1 DEF Bytes
  <1>3. \A i \in 1..(2 * n) : (i + 1) \div 2 \in 1..n
    <2> HIDE DEF n
    <2> QED  BY <1>1
  <1>4. \A i \in 1..(2 * n) : v(i) \in 0..15
    <2>1. \A i \in 1..(2 * n) : b(i) \in 0..255
      BY <1>2, <1>3
    <2> HIDE DEF b, n
    <2>2. \A x \in 0..255 : x \div 16 \in 0..15 /\ x % 16 \in 0..15
      OBVIOUS
    <2> QED  BY <2>1, <2>2
  <1>5. \A i \in 1..(2 * n) : t[i] = GetHex(v(i), up)
    OBVIOUS
  <1>6. \A i \in 1..n : /\ 2 * i - 1 \in 1..(2 * n) /\ 2 * i \in 1..(2 * n)
                        /\ v(2 * i - 1) = bytes[i] \div 16 /\ v(2 * i) = bytes[i] % 16
    <2> TAKE i \in 1..n
    <2>1. i \in Nat /\ i >= 1 /\ i <= n
      BY <1>1
    <2>2. ((2 * i - 1) + 1) \div 2 = i /\ (2 * i + 1) \div 2 = i /\ (2 * i - 1) % 2 = 1 /\ (2 * i) % 2 # 1
      BY <2>1
    <2>3. 2 * i - 1 \in 1..(2 * n) /\ 2 * i \in 1..(2 * n)
      BY <1>1, <2>1
    <2> QED  BY <2>2, <2>3
  <1>7. DOMAIN t = 1..(2 * n)
    OBVIOUS
  <1> HIDE DEF v, b
  <1>8. \A i \in 1..(2 * n) : t[i] \in Bytes /\ IsHexDigit(t[i]) /\ GetByte(t[i]) = v(i)
    <2> TAKE i \in 1..(2 * n)
    <2>1. v(i) \in 0..15 /\ t[i] = GetHex(v(i), up)
      BY <1>4, <1>5
    <2>2. GetHex(v(i), up) \in Bytes /\ GetByte(GetHex(v(i), up)) = v(i) /\ IsHexDigit(GetHex(v(i), up))
      BY <2>1, DigitIs
    <2> QED  BY <2>1, <2>2
  <1>9. t \in Seq(Bytes) /\ Len(t) = 2 * n
    <2>1. 2 * n \in Nat
      BY <1>1
    <2>2. t = [i \in 1..(2 * n) |-> t[i]]
      OBVIOUS
    <2>3. t \in [1..(2 * n) -> Bytes]
      BY <1>8, <2>2
    <2> HIDE DEF n
    <2>4. t \in Seq(Bytes)
      BY <2>1, <2>3, FunctionIsSequence, Zenon
    <2> QED  BY <1>7, <2>1, <2>4
  <1>10. ASSUME NEW i \in 1..n PROVE GetByte(t[2 * i - 1]) * 16 + GetByte(t[2 * i]) = bytes[i]
    <2>1. GetByte(t[2 * i - 1]) = bytes[i] \div 16 /\ GetByte(t[2 * i]) = bytes[i] % 16
      BY <1>6, <1>8
    <2>2. (bytes[i] \div 16) * 16 + (bytes[i] % 16) = bytes[i]
      BY <1>2, SignedBits
    <2> QED  BY <2>1, <2>2
  <1> QED  BY <1>8, <1>9, <1>10 DEF HexText

LEMMA ToHexIs ==
  ASSUME NEW bytes \in Seq(Bytes), NEW up
  PROVE  HexText(ToHex(bytes, up), bytes)
  <1> DEFINE n == Len(bytes)
             t == ToHex(bytes, up)
             u == [i \in 1..(2 * n) |->
                     GetHex(IF i % 2 = 1 THEN bytes[(i + 1) \div 2] \div 16 ELSE bytes[(i + 1) \div 2] % 16, FALSE)]
  <1>1. n \in Nat
    OBVIOUS
  <1>2. t = [i \in 1..(2 * n) |->
               GetHex(IF i % 2 = 1 THEN HighHalf(AsChar(bytes[(i + 1) \div 2]))
                      ELSE AsChar(bytes[(i + 1) \div 2]) % 16, FALSE)]
    BY DEF ToHex
  <1>3. \A i \in 1..(2 * n) : bytes[(i + 1) \div 2] \in 0..255
    <2>1. \A i \in 1..n : bytes[i] \in Bytes
      OBVIOUS
    <2>2. \A i \in 1..(2 * n) : (i + 1) \div 2 \in 1..n
      <3> HIDE DEF n
      <3> QED  BY <1>1
    <2> QED  BY <2>1, <2>2 DEF Bytes
  <1>4. \A i \in 1..(2 * n) : /\ HighHalf(AsChar(bytes[(i + 1) \div 2])) = bytes[(i + 1) \div 2] \div 16
                              /\ AsChar(bytes[(i + 1) \div 2]) % 16 = bytes[(i + 1) \div 2] % 16
    BY <1>3, SignedBits
  <1>5. t = u
    <2> HIDE DEF t, n
    <2> QED  BY <1>2, <1>4
  <1>6. HexText(u, bytes)
    BY DigitsAre
  <1> QED  BY <1>5, <1>6

LEMMA HexEmpty == HexText(<<>>, <<>>)
  <1>1. <<>> \in Seq(Bytes) /\ Len(<<>>) = 2 * Len(<<>>)
    OBVIOUS
  <1>2. \A i \in 1..Len(<<>>) : FALSE
    OBVIOUS
  <1> QED  BY <1>1, <1>2 DEF HexText

LEMMA HexConcat ==
  ASSUME NEW t, NEW x, NEW u, NEW y, HexText(t, x), HexText(u, y)
  PROVE  HexText(t \o u, x \o y)
  <1> DEFINE c == t \o u
             z == x \o y
  <1>1. t \in Seq(Bytes) /\ u \in Seq(Bytes) /\ x \in Seq(Bytes) /\ y \in Seq(Bytes)
    BY DEF HexText
  <1>2. Len(t) = 2 * Len(x) /\ Len(u) = 2 * Len(y) /\ Len(x) \in Nat /\ Len(y) \in Nat
    BY <1>1 DEF HexText
  <1>3. c \in Seq(Bytes) /\ z \in Seq(Bytes)
    BY <1>1
  <1>4. Len(c) = Len(t) + Len(u) /\ Len(z) = Len(x) + Len(y)
    BY <1>1
  <1>5. \A i \in 1..Len(t) : c[i] = t[i]
    BY <1>1
  <1>6. \A i \in 1..Len(u) : c[Len(t) + i] = u[i]
    BY <1>1
  <1>7. \A i \in 1..Len(x) : z[i] = x[i]
    BY <1>1
  <1>8. \A i \in 1..Len(y) : z[Len(x) + i] = y[i]
    BY <1>1
  <1> HIDE DEF c, z
  <1>9. Len(c) = 2 * Len(z)
    BY <1>2, <1>4
  <1>10. ASSUME NEW i \in 1..Len(z) PROVE GetByte(c[2 * i - 1]) * 16 + GetByte(c[2 * i]) = z[i]
    <2>1. CASE i <= Len(x)
      <3>1. i \in 1..Len(x) /\ 2 * i - 1 \in 1..Len(t) /\ 2 * i \in 1..Len(t)
        BY <1>2, <2>1
      <3>2. c[2 * i - 1] = t[2 * i - 1] /\ c[2 * i] = t[2 * i] /\ z[i] = x[i]
        BY <1>5, <1>7, <3>1
      <3>3. GetByte(t[2 * i - 1]) * 16 + GetByte(t[2 * i]) = x[i]
        BY <3>1 DEF HexText
      <3> QED  BY <3>2, <3>3
    <2>2. CASE ~(i <= Len(x))
      <3> DEFINE j == i - Len(x)
      <3>1. /\ j \in 1..Len(y) /\ Len(x) + j = i
            /\ 2 * j - 1 \in 1..Len(u) /\ 2 * j \in 1..Len(u)
            /\ Len(t) + (2 * j - 1) = 2 * i - 1 /\ Len(t) + 2 * j = 2 * i
        BY <1>2, <1>4, <2>2
      <3> HIDE DEF j
      <3>2. c[2 * i - 1] = u[2 * j - 1] /\ c[2 * i] = u[2 * j] /\ z[i] = y[j]
        BY <1>6, <1>8, <3>1
      <3>3. GetByte(u[2 * j - 1]) * 16 + GetByte(u[2 * j]) = y[j]
        BY <3>1 DEF HexText
      <3> QED  BY <3>2, <3>3
    <2> QED  BY <2>1, <2>2
  <1>11. HexText(c, z)
    BY <1>3, <1>9, <1>10 DEF HexText
  <1> QED  BY <1>11 DEF c, z

\* What becomes of such a text, or of a beginning of one.
LEMMA HexBack ==
  ASSUME NEW full, NEW bytes, HexText(full, bytes), NEW t \in Seq(Bytes), Begins(t, full)
  PROVE  /\ t = full => FromHex(t) = bytes
         /\ IsPrefix(FromHex(t), bytes)
  <1> DEFINE n == Len(t)
             h == n \div 2
             r == [i \in 1..h |-> GetByte(t[2 * i - 1]) * 16 + GetByte(t[2 * i])]
  <1>1. full \in Seq(Bytes) /\ bytes \in Seq(Bytes) /\ Len(full) = 2 * Len(bytes)
    BY DEF HexText
  <1>2. n \in Nat /\ Len(bytes) \in Nat /\ n <= 2 * Len(bytes)
    BY <1>1 DEF Begins
  <1>3. CASE n % 2 # 0
    <2>1. FromHex(t) = <<>>
      BY <1>3 DEF FromHex
    <2>2. t # full
      BY <1>1, <1>2, <1>3
    <2>3. <<>> \in Seq(Bytes) /\ Begins(<<>>, bytes)
      BY <1>2 DEF Begins
    <2> QED  BY <1>1, <2>1, <2>2, <2>3, BeginsIs
  <1>4. CASE n % 2 = 0
    <2>1. FromHex(t) = r
      BY <1>4 DEF FromHex
    <2>2. h \in Nat /\ 2 * h = n /\ h <= Len(bytes)
      <3> HIDE DEF n
      <3> QED  BY <1>2, <1>4
    <2>3. ASSUME NEW i \in 1..h PROVE GetByte(t[2 * i - 1]) * 16 + GetByte(t[2 * i]) = bytes[i] /\ i \in 1..Len(bytes)
      <3>1. i \in 1..Len(bytes) /\ 2 * i - 1 \in 1..n /\ 2 * i \in 1..n
        <4> HIDE DEF h, n
        <4> QED  BY <1>2, <2>2
      <3>2. t[2 * i - 1] = full[2 * i - 1] /\ t[2 * i] = full[2 * i]
        BY <3>1 DEF Begins
      <3> QED  BY <3>1, <3>2 DEF HexText
    <2> HIDE DEF h
    <2>4. \A i \in 1..h : r[i] = bytes[i]
      BY <2>3
    <2>5. r \in Seq(Bytes) /\ Len(r) = h
      <3>1. \A i \in 1..h : bytes[i] \in Bytes
        BY <1>1, <2>3
      <3>2. DOMAIN r = 1..h /\ r = [i \in 1..h |-> r[i]]
        OBVIOUS
      <3> HIDE DEF r
      <3>3. r \in [1..h -> Bytes]
        BY <2>4, <3>1, <3>2
      <3>4. r \in Seq(Bytes)
        BY <2>2, <3>3
      <3> QED  BY <2>2, <3>2, <3>4
    <2> HIDE DEF r
    <2>6. Begins(r, bytes)
      BY <2>2, <2>4, <2>5 DEF Begins
    <2>7. ASSUME t = full PROVE r = bytes
      <3>1. h = Len(bytes)
        BY <1>1, <1>2, <2>2, <2>7
      <3>2. Len(r) = Len(bytes) /\ \A i \in 1..Len(bytes) : r[i] = bytes[i]
        BY <2>4, <2>5, <3>1
      <3>3. r \in Seq(Bytes) /\ bytes \in Seq(Bytes) /\ \A i \in 1..Len(r) : r[i] = bytes[i]
        BY <1>1, <2>5, <3>2
      <3> QED  BY <3>2, <3>3, SeqEqual, Zenon
    <2> QED  BY <1>1, <2>1, <2>5, <2>6, <2>7, BeginsIs
  <1> QED  BY <1>3, <1>4
-----------------------------------------------------------------------------
\* The members of a Guid.
IsGuid(guid) == \A m \in Members : guid[m] \in Seq(Bytes) /\ Len(guid[m]) = Sizes[m]

LEMMA SizesAre ==
  /\ Members = 1..11
  /\ \A m \in Members : Sizes[m] \in Nat /\ Sizes[m] >= 1 /\ First[m] \in Nat /\ First[m] >= 1
                        /\ First[m] + Sizes[m] - 1 <= 16
  /\ Sizes[1] = 4 /\ Sizes[2] = 2 /\ Sizes[3] = 2
  /\ \A m \in 4..11 : Sizes[m] = 1 /\ First[m] = m + 5
  /\ First[1] = 1 /\ First[2] = 5 /\ First[3] = 7
  <1>1. Members = 1..11
    BY DEF Members
  <1>2. /\ Sizes[1] = 4 /\ Sizes[2] = 2 /\ Sizes[3] = 2 /\ Sizes[4] = 1 /\ Sizes[5] = 1 /\ Sizes[6] = 1
        /\ Sizes[7] = 1 /\ Sizes[8] = 1 /\ Sizes[9] = 1 /\ Sizes[10] = 1 /\ Sizes[11] = 1
    BY DEF Sizes
  <1>3. /\ First[1] = 1 /\ First[2] = 5 /\ First[3] = 7 /\ First[4] = 9 /\ First[5] = 10 /\ First[6] = 11
        /\ First[7] = 12 /\ First[8] = 13 /\ First[9] = 14 /\ First[10] = 15 /\ First[11] = 16
    BY DEF First
  <1>4. \A m \in 4..11 : m = 4 \/ m = 5 \/ m = 6 \/ m = 7 \/ m = 8 \/ m = 9 \/ m = 10 \/ m = 11
    OBVIOUS
  <1>5. \A m \in 4..11 : Sizes[m] = 1 /\ First[m] = m + 5
    BY <1>2, <1>3, <1>4
  <1>6. \A m \in Members : m = 1 \/ m = 2 \/ m = 3 \/ m \in 4..11
    BY <1>1
  <1>7. ASSUME NEW m \in Members
        PROVE  Sizes[m] \in Nat /\ Sizes[m] >= 1 /\ First[m] \in Nat /\ First[m] >= 1
               /\ First[m] + Sizes[m] - 1 <= 16
    <2>1. CASE m = 1 \/ m = 2 \/ m = 3
      BY <1>2, <1>3, <2>1
    <2>2. CASE m \in 4..11
      <3>1. Sizes[m] = 1 /\ First[m] = m + 5
        BY <1>5, <2>2
      <3> QED  BY <2>2, <3>1
    <2> QED  BY <1>6, <2>1, <2>2
  <1> QED  BY <1>1, <1>2, <1>3, <1>5, <1>7

LEMMA PartIs ==
  ASSUME NEW S, NEW s \in Seq(S), NEW a \in Nat, NEW b \in Nat, a >= 1, a <= b + 1, b <= Len(s)
  PROVE  SubSeq(s, a, b) \in Seq(S) /\ Len(SubSeq(s, a, b)) = b - a + 1
  <1>1. SubSeq(s, a, b) \in Seq(S)
    OBVIOUS
  <1>2. Len(SubSeq(s, a, b)) = b - a + 1
    OBVIOUS
  <1> QED  BY <1>1, <1>2

LEMMA PartAt ==
  ASSUME NEW S, NEW s \in Seq(S), NEW a \in Nat, NEW b \in Nat, a >= 1, a <= b + 1, b <= Len(s),
         NEW j \in 1..(b - a + 1)
  PROVE  SubSeq(s, a, b)[j] = s[a + (j - 1)]
  <1>1. SubSeq(s, a, b)[j] = s[a + j - 1]
    OBVIOUS
  <1>2. a + j - 1 = a + (j - 1)
    OBVIOUS
  <1> QED  BY <1>1, <1>2, Zenon

LEMMA FromUuidIs ==
  ASSUME NEW uu \in Seq(Bytes), Len(uu) = 16
  PROVE  /\ IsGuid(FromUuid(uu)) /\ DOMAIN FromUuid(uu) = Members
         /\ \A m \in Members : \A j \in 1..Sizes[m] : FromUuid(uu)[m][j] = uu[First[m] + (j - 1)]
  <1> DEFINE g == FromUuid(uu)
  <1>1. g = [m \in Members |-> SubSeq(uu, First[m], First[m] + Sizes[m] - 1)]
    BY DEF FromUuid
  <1>2. ASSUME NEW m \in Members
        PROVE  /\ g[m] \in Seq(Bytes) /\ Len(g[m]) = Sizes[m]
               /\ \A j \in 1..Sizes[m] : g[m][j] = uu[First[m] + (j - 1)]
    <2> DEFINE a == First[m]
               s == Sizes[m]
               t == SubSeq(uu, a, a + s - 1)
    <2>1. a \in Nat /\ a >= 1 /\ s \in Nat /\ s >= 1 /\ a + s - 1 <= 16
      BY SizesAre
    <2>2. g[m] = t
      BY <1>1
    <2> HIDE DEF a, s, g
    <2>3. t \in Seq(Bytes) /\ Len(t) = s
      <3> DEFINE b == a + s - 1
      <3>1. b \in Nat /\ b <= Len(uu) /\ a <= b + 1 /\ b - a + 1 = s
        BY <2>1
      <3> HIDE DEF b
      <3>2. SubSeq(uu, a, b) \in Seq(Bytes) /\ Len(SubSeq(uu, a, b)) = b - a + 1
        BY <2>1, <3>1, PartIs
      <3> QED  BY <3>1, <3>2 DEF b
    <2>4. \A j \in 1..s : t[j] = uu[a + (j - 1)]
      <3> DEFINE b == a + s - 1
      <3>1. b \in Nat /\ b <= Len(uu) /\ a <= b + 1 /\ 1..s = 1..(b - a + 1)
        BY <2>1
      <3> HIDE DEF b
      <3>2. ASSUME NEW j \in 1..s PROVE SubSeq(uu, a, b)[j] = uu[a + (j - 1)]
        <4>1. j \in 1..(b - a + 1)
          BY <3>1
        <4> QED  BY <2>1, <3>1, <4>1, PartAt
      <3> QED  BY <3>2 DEF b
    <2> HIDE DEF t
    <2> QED  BY <2>2, <2>3, <2>4 DEF a, s
  <1>3. DOMAIN g = Members
    BY <1>1
  <1> HIDE DEF g
  <1>4. IsGuid(g)
    BY <1>2 DEF IsGuid
  <1> QED  BY <1>2, <1>3, <1>4 DEF g

LEMMA UpperHexIs ==
  ASSUME NEW bytes \in Seq(Bytes)
  PROVE  HexText(UpperHex(bytes), bytes) /\ \A i \in 1..Len(UpperHex(bytes)) : IsHexDigit(UpperHex(bytes)[i])
  <1> DEFINE t == UpperHex(bytes)
  <1>1. t = [i \in 1..(2 * Len(bytes)) |->
               GetHex(IF i % 2 = 1 THEN bytes[(i + 1) \div 2] \div 16 ELSE bytes[(i + 1) \div 2] % 16, TRUE)]
    BY DEF UpperHex
  <1> HIDE DEF t
  <1>2. HexText(t, bytes) /\ \A i \in 1..Len(t) : IsHexDigit(t[i])
    BY <1>1, DigitsAre
  <1> QED  BY <1>2 DEF t

\* operator std::string: the recursion.
DashOf(m) == IF m \in Dashed THEN <<Dash>> ELSE <<>>

Printing(guid, f) ==
    /\ f[0] = <<>>
    /\ \A m \in Members : f[m] = f[m - 1] \o UpperHex(guid[m]) \o DashOf(m)
    /\ \A m \in 0..11 : f[m] \in Seq(Bytes)

LEMMA PrintedIs ==
  ASSUME NEW guid, IsGuid(guid), NEW m \in Members
  PROVE  UpperHex(guid[m]) \in Seq(Bytes) /\ DashOf(m) \in Seq(Bytes)
  <1>1. Dash \in Bytes
    BY DEF Dash, Bytes
  <1>2. <<Dash>> \in Seq(Bytes) /\ <<>> \in Seq(Bytes)
    BY <1>1
  <1>3. UpperHex(guid[m]) \in Seq(Bytes)
    <2>1. guid[m] \in Seq(Bytes)
      BY DEF IsGuid
    <2>2. HexText(UpperHex(guid[m]), guid[m])
      BY <2>1, UpperHexIs
    <2> QED  BY <2>2 DEF HexText
  <1> QED  BY <1>2, <1>3 DEF DashOf

LEMMA PrintingIs ==
  ASSUME NEW guid, IsGuid(guid)
  PROVE  \E f : Printing(guid, f) /\ ToText(guid) = f[11]
  <1> DEFINE e(m) == UpperHex(guid[m])
             h(m) == IF m \in Dashed THEN <<Dash>> ELSE <<>>
             step == [x \in Seq(Bytes) \X (1..11) |-> x[1] \o e(x[2]) \o h(x[2])]
             Right(f) == f = [m \in 0..11 |-> IF m = 0 THEN <<>> ELSE f[m - 1] \o e(m) \o h(m)]
  <1>1. ASSUME NEW m \in 1..11 PROVE e(m) \in Seq(Bytes) /\ h(m) \in Seq(Bytes) /\ h(m) = DashOf(m)
    <2>1. m \in Members
      BY DEF Members
    <2>2. h(m) = DashOf(m)
      BY DEF DashOf
    <2> QED  BY <2>1, <2>2, PrintedIs
  <1> HIDE DEF e, h
  <1>2. \A x \in Seq(Bytes), m \in 1..11 : x \o e(m) \o h(m) \in Seq(Bytes)
    <2> TAKE x \in Seq(Bytes), m \in 1..11
    <2>1. e(m) \in Seq(Bytes) /\ h(m) \in Seq(Bytes)
      BY <1>1
    <2>2. x \o e(m) \in Seq(Bytes)
      BY <2>1
    <2> QED  BY <2>1, <2>2
  <1>3. step \in [Seq(Bytes) \X (1..11) -> Seq(Bytes)]
    BY <1>2
  <1>4. <<>> \in Seq(Bytes) /\ 11 \in Nat
    OBVIOUS
  <1>5. PICK f : /\ f \in [0..11 -> Seq(Bytes)] /\ f[0] = <<>>
                 /\ \A m \in 1..11 : f[m] = step[<<f[m - 1], m>>]
    <2> HIDE DEF step
    <2>1. PICK f : Recursed(f, Seq(Bytes), 11, <<>>, step)
      BY <1>3, <1>4, Recursion
    <2> QED  BY <2>1 DEF Recursed
  <1>6. \A m \in 1..11 : f[m] = f[m - 1] \o e(m) \o h(m)
    <2>1. \A m \in 1..11 : m - 1 \in 0..11
      OBVIOUS
    <2>2. \A m \in 1..11 : f[m - 1] \in Seq(Bytes)
      BY <1>5, <2>1
    <2>3. \A x \in Seq(Bytes), m \in 1..11 : step[<<x, m>>] = x \o e(m) \o h(m)
      OBVIOUS
    <2> HIDE DEF step
    <2> QED  BY <1>5, <2>2, <2>3
  <1> HIDE DEF step
  <1>7. Right(f)
    <2>1. \A m \in 0..11 : f[m] = IF m = 0 THEN <<>> ELSE f[m - 1] \o e(m) \o h(m)
      <3>1. \A m \in 0..11 : m = 0 \/ (m \in 1..11 /\ m # 0)
        OBVIOUS
      <3> QED  BY <1>5, <1>6, <3>1
    <2>2. f = [m \in 0..11 |-> f[m]]
      BY <1>5
    <2> QED  BY <2>1, <2>2
  <1> DEFINE g == CHOOSE k : Right(k)
  <1>8. ToText(guid) = g[11]
    BY Zenon DEF ToText, e, h
  <1>9. Right(g)
    <2> HIDE DEF Right
    <2> QED  BY <1>7
  <1> HIDE DEF g
  <1>10. g[0] = <<>> /\ \A m \in 1..11 : g[m] = g[m - 1] \o e(m) \o h(m)
    <2>1. \A m \in 0..11 : g[m] = IF m = 0 THEN <<>> ELSE g[m - 1] \o e(m) \o h(m)
      BY <1>9
    <2>2. 0 \in 0..11 /\ \A m \in 1..11 : m \in 0..11 /\ m # 0
      OBVIOUS
    <2> QED  BY <2>1, <2>2
  <1>11. \A m \in 0..11 : g[m] \in Seq(Bytes)
    <2> DEFINE T == {m \in 0..11 : g[m] \in Seq(Bytes)}
    <2>1. 0 \in T
      <3>1. 0 \in 0..11 /\ g[0] \in Seq(Bytes)
        BY <1>4, <1>10
      <3> QED  BY <3>1
    <2>2. ASSUME NEW m \in 0..(11 - 1), m \in T PROVE m + 1 \in T
      <3>1. m + 1 \in 1..11 /\ (m + 1) - 1 = m /\ m + 1 \in 0..11
        OBVIOUS
      <3>2. g[m + 1] = g[m] \o e(m + 1) \o h(m + 1) /\ g[m] \in Seq(Bytes)
        BY <1>10, <2>2, <3>1
      <3>3. g[m + 1] \in Seq(Bytes)
        BY <1>2, <3>1, <3>2
      <3> QED  BY <3>1, <3>3
    <2> HIDE DEF T
    <2>3. 0..11 \subseteq T
      BY <1>4, <2>1, <2>2, NumbersAre
    <2> QED  BY <2>3 DEF T
  <1>12. \A m \in Members : g[m] = g[m - 1] \o UpperHex(guid[m]) \o DashOf(m)
    BY <1>1, <1>10 DEF Members, e
  <1>13. Printing(guid, g)
    BY <1>10, <1>11, <1>12 DEF Printing
  <1> QED  BY <1>8, <1>13

\* The text x has the digits of g behind its p-th character, and the dash if there is to be one.
MemberAt(x, m, p, g) ==
    /\ p \in Nat /\ p + 2 * Sizes[m] <= Len(x)
    /\ SubSeq(x, p + 1, p + 2 * Sizes[m]) = UpperHex(g)
    /\ \A i \in 1..(2 * Sizes[m]) : IsHexDigit(x[p + i])
    /\ m \in Dashed => p + 2 * Sizes[m] + 1 <= Len(x) /\ x[p + 2 * Sizes[m] + 1] = Dash

EndOf(m, p) == IF m \in Dashed THEN p + 2 * Sizes[m] + 1 ELSE p + 2 * Sizes[m]

LEMMA LengthIsNat ==
  ASSUME NEW S, NEW s \in Seq(S)
  PROVE  Len(s) \in Nat
  OBVIOUS

LEMMA PrintedAt ==
  ASSUME NEW guid, IsGuid(guid), NEW f, Printing(guid, f), NEW m \in Members
  PROVE  MemberAt(f[11], m, Len(f[m - 1]), guid[m]) /\ Len(f[m]) = EndOf(m, Len(f[m - 1]))
  <1> DEFINE a == f[m - 1]
             u == UpperHex(guid[m])
             b == DashOf(m)
             t == f[m]
             x == f[11]
             p == Len(a)
             n == 2 * Sizes[m]
  <1>0. m \in 1..11 /\ m - 1 \in 0..11 /\ m \in 0..11 /\ 11 \in 0..11
    BY DEF Members
  <1>1. a \in Seq(Bytes) /\ t \in Seq(Bytes) /\ x \in Seq(Bytes) /\ t = a \o u \o b
    BY <1>0 DEF Printing
  <1>2. u \in Seq(Bytes) /\ b \in Seq(Bytes)
    BY PrintedIs
  <1>3. Len(u) = n /\ (\A i \in 1..n : IsHexDigit(u[i])) /\ n \in Nat
    <2>1. guid[m] \in Seq(Bytes) /\ Len(guid[m]) = Sizes[m]
      BY DEF IsGuid
    <2>2. HexText(u, guid[m]) /\ \A i \in 1..Len(u) : IsHexDigit(u[i])
      BY <2>1, UpperHexIs
    <2>3. Len(u) = 2 * Len(guid[m])
      BY <2>2 DEF HexText
    <2>4. Sizes[m] \in Nat
      BY SizesAre
    <2> QED  BY <2>1, <2>2, <2>3, <2>4
  <1>4. (m \in Dashed => b = <<Dash>>) /\ (m \notin Dashed => b = <<>>)
    BY DEF DashOf
  <1>5. Begins(t, x)
    <2> DEFINE T == {j \in 0..(11 - m) : Begins(f[m], f[m + j])}
    <2>1. 0 \in T
      <3>0. Len(t) \in Nat
        BY <1>1, LengthIsNat
      <3>1. m + 0 = m /\ 0 \in 0..(11 - m) /\ Len(f[m]) \in Nat
        BY <1>0, <3>0
      <3>2. Begins(f[m], f[m])
        BY <3>1 DEF Begins
      <3> QED  BY <3>1, <3>2
    <2>2. ASSUME NEW j \in 0..((11 - m) - 1), j \in T PROVE j + 1 \in T
      <3> DEFINE k == m + (j + 1)
      <3>1. k \in Members /\ k - 1 = m + j /\ k - 1 \in 0..11 /\ k \in 0..11 /\ j + 1 \in 0..(11 - m)
        BY <1>0 DEF Members
      <3> HIDE DEF k
      <3>2. f[k] = f[k - 1] \o UpperHex(guid[k]) \o DashOf(k) /\ f[k - 1] \in Seq(Bytes)
        BY <3>1 DEF Printing
      <3>3. UpperHex(guid[k]) \in Seq(Bytes) /\ DashOf(k) \in Seq(Bytes)
        BY <3>1, PrintedIs
      <3>4. Begins(f[m], f[k - 1]) /\ f[m] \in Seq(Bytes)
        BY <1>1, <2>2, <3>1
      <3>5. Begins(f[m], f[k - 1] \o UpperHex(guid[k]))
        BY <3>2, <3>3, <3>4, BeginsAtEnd
      <3>6. f[k - 1] \o UpperHex(guid[k]) \in Seq(Bytes)
        BY <3>2, <3>3
      <3>7. Begins(f[m], f[k])
        BY <3>2, <3>3, <3>4, <3>5, <3>6, BeginsAtEnd
      <3> QED  BY <3>1, <3>7 DEF k
    <2> HIDE DEF T
    <2>3. 11 - m \in Nat /\ 11 - m \in 0..(11 - m) /\ m + (11 - m) = 11
      BY <1>0
    <2>4. 0..(11 - m) \subseteq T
      BY <2>1, <2>2, <2>3, NumbersAre
    <2>5. 11 - m \in T
      BY <2>3, <2>4
    <2> QED  BY <2>3, <2>5 DEF T
  <1> HIDE DEF a, u, b, t, x
  <1> DEFINE c == a \o u
  <1>6. c \in Seq(Bytes) /\ t = c \o b
    BY <1>1, <1>2
  <1>7. Len(c) = Len(a) + Len(u)
    BY <1>1, <1>2
  <1>8. \A i \in 1..Len(u) : c[Len(a) + i] = u[i]
    BY <1>1, <1>2
  <1> HIDE DEF c
  <1> DEFINE d == c \o b
  <1>9. Len(d) = Len(c) + Len(b)
    BY <1>2, <1>6
  <1>10. \A i \in 1..Len(c) : d[i] = c[i]
    BY <1>2, <1>6
  <1>11. \A i \in 1..Len(b) : d[Len(c) + i] = b[i]
    BY <1>2, <1>6
  <1>12. t = d
    BY <1>6
  <1> HIDE DEF d
  <1>13. p \in Nat /\ Len(x) \in Nat /\ Len(b) \in Nat
    BY <1>1, <1>2
  <1> HIDE DEF p, n
  <1>14. Len(c) = p + n /\ Len(t) = p + n + Len(b) /\ Len(t) <= Len(x)
    BY <1>3, <1>5, <1>7, <1>9, <1>12 DEF Begins, p
  <1>15. p + n <= Len(x)
    BY <1>3, <1>13, <1>14
  <1>16. \A i \in 1..n : x[p + i] = u[i]
    <2> TAKE i \in 1..n
    <2>1. p + i \in 1..Len(c) /\ p + i \in 1..Len(t)
      BY <1>3, <1>13, <1>14
    <2>2. x[p + i] = t[p + i]
      BY <1>5, <2>1 DEF Begins
    <2>3. c[p + i] = u[i]
      BY <1>3, <1>8 DEF p
    <2> QED  BY <1>10, <1>12, <2>1, <2>2, <2>3
  <1>17. SubSeq(x, p + 1, p + n) = u
    <2> DEFINE w == SubSeq(x, p + 1, p + n)
    <2>1. w \in Seq(Bytes) /\ Len(w) = n
      BY <1>1, <1>3, <1>13, <1>15
    <2>2. \A i \in 1..n : w[i] = x[p + i]
      BY <1>1, <1>3, <1>13, <1>15
    <2> HIDE DEF w
    <2>3. w = u
      BY <1>2, <1>3, <1>16, <2>1, <2>2
    <2> QED  BY <2>3 DEF w
  <1>18. ASSUME m \in Dashed PROVE /\ Len(t) = p + n + 1 /\ p + n + 1 <= Len(x) /\ x[p + n + 1] = Dash
    <2>1. b = <<Dash>> /\ Len(b) = 1 /\ b[1] = Dash
      BY <1>4, <1>18
    <2>2. Len(t) = p + n + 1 /\ p + n + 1 <= Len(x) /\ p + n + 1 \in 1..Len(t)
      BY <1>3, <1>13, <1>14, <2>1
    <2>3. d[Len(c) + 1] = b[1]
      <3>1. 1 \in 1..Len(b)
        BY <2>1
      <3> QED  BY <1>11, <3>1
    <2>4. t[p + n + 1] = Dash
      BY <1>12, <1>14, <2>1, <2>3
    <2>5. x[p + n + 1] = t[p + n + 1]
      BY <1>5, <2>2 DEF Begins
    <2> QED  BY <2>2, <2>4, <2>5
  <1>19. ASSUME m \notin Dashed PROVE Len(t) = p + n
    <2>1. Len(b) = 0
      BY <1>4, <1>19
    <2> QED  BY <1>3, <1>13, <1>14, <2>1
  <1>20. \A i \in 1..n : IsHexDigit(x[p + i])
    BY <1>3, <1>16
  <1>21. MemberAt(x, m, p, guid[m])
    BY <1>13, <1>15, <1>17, <1>18, <1>20 DEF MemberAt, n, u
  <1>22. Len(t) = EndOf(m, p)
    BY <1>18, <1>19 DEF EndOf, n
  <1> QED  BY <1>21, <1>22 DEF a, t, x, p

\* One conversion of sscanf in a text that has the member where it is looked for.
LEMMA ScanIs ==
  ASSUME NEW m \in Members, NEW g \in Seq(Bytes), Len(g) = Sizes[m], NEW x \in Seq(Bytes), NEW p,
         NEW old, MemberAt(x, m, p, g)
  PROVE  Scan([guid |-> old, on |-> TRUE, pos |-> p], m, x)
         = [guid |-> [old EXCEPT ![Target(m)] = g], on |-> TRUE, pos |-> EndOf(m, p)]
  <1>0. /\ p \in Nat /\ p + 2 * Sizes[m] <= Len(x)
        /\ SubSeq(x, p + 1, p + 2 * Sizes[m]) = UpperHex(g)
        /\ \A i \in 1..(2 * Sizes[m]) : IsHexDigit(x[p + i])
        /\ m \in Dashed => p + 2 * Sizes[m] + 1 <= Len(x) /\ x[p + 2 * Sizes[m] + 1] = Dash
    BY DEF MemberAt
  <1> DEFINE sofar == [guid |-> old, on |-> TRUE, pos |-> p]
             Digits(n) == \A i \in 1..n : sofar.pos + i <= Len(x) /\ IsHexDigit(x[sofar.pos + i])
             N == 2 * Sizes[m]
             Wide(n) == Digits(n) /\ (n = 2 * Sizes[m] \/ ~Digits(n + 1))
             width == CHOOSE n \in 0..(2 * Sizes[m]) : Wide(n)
             digits == SubSeq(x, sofar.pos + 1, sofar.pos + width)
             behind == sofar.pos + width + 1
             dash == m \notin Dashed \/ (behind <= Len(x) /\ x[behind] = Dash)
             full == [i \in 1..(2 * Sizes[m] - Len(digits)) |-> 48]
  <1>1. sofar.guid = old /\ sofar.on = TRUE /\ sofar.pos = p
    OBVIOUS
  <1>2. N \in Nat /\ N > 0 /\ Len(x) \in Nat
    <2>1. Sizes[m] \in Nat /\ Sizes[m] >= 1
      BY SizesAre
    <2> QED  BY <2>1
  <1>3. Scan(sofar, m, x)
        = IF ~sofar.on \/ width = 0 THEN [sofar EXCEPT !.on = FALSE]
          ELSE [guid |-> [sofar.guid EXCEPT ![Target(m)] = Number(digits, Sizes[m])],
                on   |-> dash,
                pos  |-> IF m \in Dashed THEN behind ELSE behind - 1]
    BY Zenon DEF Scan
  <1> HIDE DEF sofar, N
  <1>4. \A n \in 0..N : Digits(n)
    <2> TAKE n \in 0..N
    <2>1. \A i \in 1..n : i \in 1..N /\ p + i <= Len(x)
      BY <1>0, <1>2 DEF N
    <2> QED  BY <1>0, <1>1, <2>1 DEF N
  <1> HIDE DEF Digits
  <1>5. \A n \in 0..(2 * Sizes[m]) : Wide(n) <=> n = N
    <2> TAKE n \in 0..(2 * Sizes[m])
    <2>1. n \in 0..N /\ 2 * Sizes[m] = N
      BY DEF N
    <2>2. n # N => n + 1 \in 0..N
      BY <1>2, <2>1
    <2> QED  BY <1>4, <2>1, <2>2
  <1>6. N \in 0..(2 * Sizes[m])
    BY <1>2 DEF N
  <1> HIDE DEF Wide
  <1>7. width = N
    <2>1. width \in 0..(2 * Sizes[m]) /\ Wide(width)
      BY <1>5, <1>6
    <2> HIDE DEF width
    <2> QED  BY <1>5, <2>1
  <1> HIDE DEF width
  <1>8. digits = UpperHex(g) /\ behind = p + N + 1
    BY <1>0, <1>1, <1>7 DEF N
  <1> HIDE DEF digits, behind
  <1>9. dash = TRUE
    BY <1>0, <1>8 DEF N
  <1>10. HexText(UpperHex(g), g)
    BY UpperHexIs
  <1>11. Number(digits, Sizes[m]) = g
    <2> DEFINE u == UpperHex(g)
    <2>1. u \in Seq(Bytes) /\ Len(u) = N
      BY <1>10 DEF HexText, N
    <2>2. FromHex(u) = g
      <3>1. Begins(u, u)
        <4>1. Len(u) \in Nat
          BY <2>1
        <4> HIDE DEF u
        <4> QED  BY <4>1 DEF Begins
      <3> QED  BY <1>10, <2>1, <3>1, HexBack
    <2>3. Number(digits, Sizes[m]) = FromHex([i \in 1..(2 * Sizes[m] - Len(digits)) |-> 48] \o digits)
      BY DEF Number
    <2>4. 2 * Sizes[m] - Len(digits) = 0
      BY <1>2, <1>8, <2>1 DEF N
    <2>5. [i \in 1..0 |-> 48] = <<>>
      OBVIOUS
    <2>6. <<>> \o u = u
      BY <2>1
    <2> QED  BY <1>8, <2>2, <2>3, <2>4, <2>5, <2>6
  <1>12. ~(~sofar.on \/ width = 0)
    BY <1>1, <1>2, <1>7
  <1> HIDE DEF dash
  <1>13. Scan(sofar, m, x)
         = [guid |-> [old EXCEPT ![Target(m)] = g], on |-> TRUE,
            pos |-> IF m \in Dashed THEN p + N + 1 ELSE (p + N + 1) - 1]
    BY <1>1, <1>3, <1>8, <1>9, <1>11, <1>12
  <1>14. (p + N + 1) - 1 = p + N
    BY <1>0, <1>2
  <1> QED  BY <1>13, <1>14 DEF sofar, N, EndOf

\* The Guid that is parsed, after m conversions.
Parsed(guid, m) ==
    [k \in Members |-> IF k = 2 THEN IF m >= 3 THEN guid[3] ELSE IF m = 2 THEN guid[2] ELSE Zeros(Sizes[2])
                       ELSE IF k # 3 /\ k <= m THEN guid[k] ELSE Zeros(Sizes[k])]

LEMMA ParsedStep ==
  ASSUME NEW guid, NEW m \in Members
  PROVE  [Parsed(guid, m - 1) EXCEPT ![Target(m)] = guid[m]] = Parsed(guid, m)
  <1> DEFINE a == Parsed(guid, m - 1)
             b == Parsed(guid, m)
             c == [a EXCEPT ![Target(m)] = guid[m]]
             e(j, k) == IF k = 2 THEN IF j >= 3 THEN guid[3] ELSE IF j = 2 THEN guid[2] ELSE Zeros(Sizes[2])
                        ELSE IF k # 3 /\ k <= j THEN guid[k] ELSE Zeros(Sizes[k])
  <1>1. m \in 1..11 /\ Members = 1..11
    BY DEF Members
  <1>2. a = [k \in Members |-> e(m - 1, k)] /\ b = [k \in Members |-> e(m, k)]
    BY DEF Parsed
  <1>3. Target(m) \in Members /\ (m = 3 => Target(m) = 2) /\ (m # 3 => Target(m) = m)
    BY <1>1 DEF Target
  <1>4. c = [k \in Members |-> IF k = Target(m) THEN guid[m] ELSE a[k]]
    BY <1>2
  <1>5. ASSUME NEW k \in Members PROVE (IF k = Target(m) THEN guid[m] ELSE a[k]) = e(m, k)
    <2>1. a[k] = e(m - 1, k)
      BY <1>2
    <2>2. k \in 1..11
      BY <1>1
    <2> HIDE DEF a
    <2>3. CASE k = Target(m)
      <3>1. CASE m = 3
        BY <1>3, <2>3, <3>1
      <3>2. CASE m # 3
        <4>1. k = m /\ k # 3 /\ k <= m /\ (m = 2 => ~(m >= 3))
          BY <1>1, <1>3, <2>3, <3>2
        <4> QED  BY <2>3, <4>1
      <3> QED  BY <3>1, <3>2
    <2>4. CASE k # Target(m)
      <3>1. k # 3 => (k <= m <=> k <= m - 1)
        BY <1>1, <1>3, <2>2, <2>4
      <3>3. k = 2 => m # 2 /\ m # 3
        BY <1>3, <2>4
      <3>4. k = 2 => (m - 1 >= 3 <=> m >= 3) /\ (~(m >= 3) => m - 1 # 2 /\ m # 2)
        BY <1>1, <3>3
      <3>5. e(m - 1, k) = e(m, k)
        BY <3>1, <3>4
      <3> QED  BY <2>1, <2>4, <3>5
    <2> QED  BY <2>3, <2>4
  <1> HIDE DEF a, b, c, e
  <1>6. c = b
    BY <1>2, <1>4, <1>5
  <1> QED  BY <1>6 DEF a, b, c

LEMMA ParsedAll ==
  ASSUME NEW guid, IsGuid(guid), guid = [k \in Members |-> guid[k]]
  PROVE  /\ Parsed(guid, 0) = Zero
         /\ Parsed(guid, 11) = [guid EXCEPT ![2] = guid[3], ![3] = Zeros(2)]
  <1>1. Members = 1..11 /\ Sizes[2] = 2 /\ Sizes[3] = 2
    BY SizesAre
  <1>2. Parsed(guid, 0) = Zero
    <2>1. \A k \in Members : ~(k <= 0) /\ ~(0 >= 3) /\ 0 # 2
      BY <1>1
    <2> QED  BY <2>1 DEF Parsed, Zero
  <1>3. Parsed(guid, 11) = [k \in Members |-> IF k = 2 THEN guid[3] ELSE IF k # 3 THEN guid[k] ELSE Zeros(2)]
    <2>1. \A k \in Members : k <= 11 /\ 11 >= 3
      BY <1>1
    <2> QED  BY <1>1, <2>1 DEF Parsed
  <1> DEFINE z == Zeros(2)
             y == guid[3]
             c == [guid EXCEPT ![2] = y]
             d == [c EXCEPT ![3] = z]
  <1>4. c = [k \in Members |-> IF k = 2 THEN y ELSE guid[k]]
    BY <1>1
  <1>5. 2 \in Members /\ 3 \in Members
    BY <1>1
  <1> HIDE DEF z, y, c
  <1>6. d = [k \in Members |-> IF k = 3 THEN z ELSE c[k]]
    BY <1>4
  <1>7. \A k \in Members : (IF k = 3 THEN z ELSE c[k]) = IF k = 2 THEN y ELSE IF k # 3 THEN guid[k] ELSE z
    BY <1>4
  <1> HIDE DEF d
  <1>8. d = [k \in Members |-> IF k = 2 THEN y ELSE IF k # 3 THEN guid[k] ELSE z]
    BY <1>6, <1>7
  <1>9. Parsed(guid, 11) = d
    BY <1>3, <1>8 DEF y, z
  <1>10. d = [guid EXCEPT ![2] = guid[3], ![3] = Zeros(2)]
    BY Zenon DEF d, c, y, z
  <1> QED  BY <1>2, <1>9, <1>10

\* Guid(const std::string&) of the text of a Guid.
LEMMA FromTextIs ==
  ASSUME NEW guid, IsGuid(guid), guid = [k \in Members |-> guid[k]]
  PROVE  FromText(ToText(guid)) = [guid EXCEPT ![2] = guid[3], ![3] = Zeros(2)]
  <1>1. PICK f : Printing(guid, f) /\ ToText(guid) = f[11]
    BY PrintingIs
  <1> DEFINE x == ToText(guid)
             start == [guid |-> Zero, on |-> TRUE, pos |-> 0]
             Right(s) == s = [m \in 0..11 |-> IF m = 0 THEN start ELSE Scan(s[m - 1], m, x)]
             w == [m \in 0..11 |-> [guid |-> Parsed(guid, m), on |-> TRUE, pos |-> Len(f[m])]]
             scanned == CHOOSE s : Right(s)
  <1>2. FromText(x) = scanned[11].guid
    BY Zenon DEF FromText
  <1>3. \A m \in 0..11 : f[m] \in Seq(Bytes) /\ Len(f[m]) \in Nat
    <2>1. \A m \in 0..11 : f[m] \in Seq(Bytes)
      BY <1>1 DEF Printing
    <2> QED  BY <2>1, LengthIsNat
  <1>4. x \in Seq(Bytes) /\ x = f[11]
    <2>1. 11 \in 0..11
      OBVIOUS
    <2> QED  BY <1>1, <1>3, <2>1
  <1>5. w[0] = start
    <2>1. f[0] = <<>> /\ Len(<<>>) = 0
      BY <1>1 DEF Printing
    <2>2. Parsed(guid, 0) = Zero
      BY ParsedAll
    <2>3. 0 \in 0..11
      OBVIOUS
    <2>4. w[0] = [guid |-> Parsed(guid, 0), on |-> TRUE, pos |-> Len(f[0])]
      BY <2>3
    <2> QED  BY <2>1, <2>2, <2>4
  <1> HIDE DEF x
  <1>6. ASSUME NEW m \in 1..11 PROVE w[m] = Scan(w[m - 1], m, x)
    <2> DEFINE p == Len(f[m - 1])
               old == Parsed(guid, m - 1)
               q == EndOf(m, p)
    <2>1. m \in Members /\ m - 1 \in 0..11 /\ m \in 0..11
      BY DEF Members
    <2>2. w[m - 1] = [guid |-> old, on |-> TRUE, pos |-> p]
          /\ w[m] = [guid |-> Parsed(guid, m), on |-> TRUE, pos |-> Len(f[m])]
      BY <2>1
    <2>3. MemberAt(x, m, p, guid[m]) /\ Len(f[m]) = q
      BY <1>1, <1>4, <2>1, PrintedAt
    <2>4. guid[m] \in Seq(Bytes) /\ Len(guid[m]) = Sizes[m]
      BY <2>1 DEF IsGuid
    <2> HIDE DEF p, old, w
    <2>5. Scan([guid |-> old, on |-> TRUE, pos |-> p], m, x)
          = [guid |-> [old EXCEPT ![Target(m)] = guid[m]], on |-> TRUE, pos |-> q]
      BY <1>4, <2>1, <2>3, <2>4, ScanIs
    <2>6. [old EXCEPT ![Target(m)] = guid[m]] = Parsed(guid, m)
      BY <2>1, ParsedStep DEF old
    <2> QED  BY <2>2, <2>3, <2>5, <2>6
  <1>7. Right(w)
    <2>1. \A m \in 0..11 : m = 0 \/ (m \in 1..11 /\ m # 0)
      OBVIOUS
    <2>2. w = [m \in 0..11 |-> w[m]]
      OBVIOUS
    <2> HIDE DEF w, start
    <2>3. \A m \in 0..11 : w[m] = IF m = 0 THEN start ELSE Scan(w[m - 1], m, x)
      BY <1>5, <1>6, <2>1
    <2> QED  BY <2>2, <2>3
  <1>8. Right(scanned)
    <2> HIDE DEF Right, w
    <2> QED  BY <1>7
  <1> HIDE DEF scanned
  <1>9. scanned[11] = w[11]
    <2> DEFINE T == {m \in 0..11 : scanned[m] = w[m]}
    <2>1. 0 \in T
      <3>1. 0 \in 0..11
        OBVIOUS
      <3>2. scanned[0] = start
        BY <1>8, <3>1
      <3> HIDE DEF w
      <3> QED  BY <1>5, <3>1, <3>2
    <2>2. ASSUME NEW m \in 0..(11 - 1), m \in T PROVE m + 1 \in T
      <3>1. m + 1 \in 1..11 /\ (m + 1) - 1 = m /\ m + 1 \in 0..11 /\ m + 1 # 0
        OBVIOUS
      <3>2. scanned[m + 1] = Scan(scanned[m], m + 1, x)
        <4> DEFINE e(k) == IF k = 0 THEN start ELSE Scan(scanned[k - 1], k, x)
        <4>1. scanned = [k \in 0..11 |-> e(k)]
          BY <1>8
        <4>2. scanned[m + 1] = e(m + 1)
          <5> HIDE DEF e
          <5> QED  BY <3>1, <4>1
        <4> QED  BY <3>1, <4>2
      <3> HIDE DEF w
      <3>3. scanned[m] = w[m]
        BY <2>2
      <3>4. w[m + 1] = Scan(w[m], m + 1, x)
        BY <1>6, <3>1
      <3>5. scanned[m + 1] = w[m + 1]
        BY <3>2, <3>3, <3>4
      <3> QED  BY <3>1, <3>5
    <2> HIDE DEF T, w
    <2>3. 11 \in Nat /\ 11 \in 0..11
      OBVIOUS
    <2>4. 0..11 \subseteq T
      BY <2>1, <2>2, <2>3, NumbersAre
    <2>5. 11 \in T
      BY <2>3, <2>4
    <2> QED  BY <2>5 DEF T
  <1>10. w[11].guid = Parsed(guid, 11)
    <2>1. 11 \in 0..11
      OBVIOUS
    <2>2. w[11] = [guid |-> Parsed(guid, 11), on |-> TRUE, pos |-> Len(f[11])]
      BY <2>1
    <2> HIDE DEF w
    <2> QED  BY <2>2
  <1> HIDE DEF w
  <1>11. FromText(x) = Parsed(guid, 11)
    BY <1>2, <1>9, <1>10
  <1> QED  BY <1>11, ParsedAll DEF x

\* GetBytes: the first three members are turned round.
TurnedRound(i) == IF i <= 4 THEN 5 - i ELSE IF i <= 6 THEN 11 - i ELSE IF i <= 8 THEN 15 - i ELSE i

LEMMA ReverseIs ==
  ASSUME NEW S, NEW s \in Seq(S)
  PROVE  /\ Reverse(s) \in Seq(S) /\ Len(Reverse(s)) = Len(s)
         /\ \A i \in 1..Len(s) : Reverse(s)[i] = s[Len(s) - i + 1]
  <1> DEFINE n == Len(s)
             r == Reverse(s)
  <1>1. n \in Nat
    OBVIOUS
  <1>2. r = [i \in 1..n |-> s[(n - i) + 1]]
    BY DEF Reverse
  <1>3. \A i \in 1..n : s[(n - i) + 1] \in S
    OBVIOUS
  <1> HIDE DEF n
  <1>4. r \in [1..n -> S]
    BY <1>2, <1>3
  <1>5. \A i \in 1..n : r[i] = s[n - i + 1]
    BY <1>2
  <1> HIDE DEF r
  <1>6. r \in Seq(S) /\ Len(r) = n
    BY <1>1, <1>4, FunctionIsSequence
  <1> QED  BY <1>5, <1>6 DEF n, r

\* A member as it lies in memory.
LEMMA MemberTurned ==
  ASSUME NEW uu \in Seq(Bytes), Len(uu) = 16, NEW m \in Members
  PROVE  LET r == Reverse(FromUuid(uu)[m])
         IN  /\ r \in Seq(Bytes) /\ Len(r) = Sizes[m]
             /\ \A i \in 1..Sizes[m] : r[i] = uu[First[m] + (Sizes[m] - i)]
  <1> DEFINE g == FromUuid(uu)[m]
             r == Reverse(g)
             n == Sizes[m]
             a == First[m]
  <1>1. g \in Seq(Bytes) /\ Len(g) = n /\ \A j \in 1..n : g[j] = uu[a + (j - 1)]
    BY FromUuidIs DEF IsGuid
  <1>2. n \in Nat /\ a \in Nat
    BY SizesAre
  <1> HIDE DEF g
  <1>3. r \in Seq(Bytes) /\ Len(r) = Len(g) /\ \A i \in 1..Len(g) : r[i] = g[Len(g) - i + 1]
    BY <1>1, ReverseIs
  <1> HIDE DEF n, a, r
  <1>4. ASSUME NEW i \in 1..n PROVE r[i] = uu[a + (n - i)]
    <2>1. n - i + 1 \in 1..n /\ a + ((n - i + 1) - 1) = a + (n - i)
      BY <1>2
    <2>2. g[n - i + 1] = uu[a + (n - i)]
      BY <1>1, <2>1
    <2>3. r[i] = g[n - i + 1]
      BY <1>1, <1>3
    <2> QED  BY <2>2, <2>3
  <1> QED  BY <1>1, <1>3, <1>4 DEF g, n, a, r

LEMMA GetBytesIs ==
  ASSUME NEW uu \in Seq(Bytes), Len(uu) = 16
  PROVE  GetBytes(FromUuid(uu)) = [i \in 1..16 |-> uu[TurnedRound(i)]]
  <1> DEFINE g == FromUuid(uu)
             r1 == Reverse(g[1])
             r2 == Reverse(g[2])
             r3 == Reverse(g[3])
             r4 == [i \in 1..8 |-> g[i + 3][1]]
             a == r1 \o r2
             b == a \o r3
             c == b \o r4
  <1>1. GetBytes(g) = c
    BY DEF GetBytes
  <1>3. 1 \in Members /\ 2 \in Members /\ 3 \in Members /\ \A i \in 1..8 : i + 3 \in Members /\ i + 3 \in 4..11
    BY DEF Members
  <1>4. /\ r1 \in Seq(Bytes) /\ Len(r1) = 4 /\ \A i \in 1..4 : r1[i] = uu[5 - i]
    <2>1. /\ r1 \in Seq(Bytes) /\ Len(r1) = Sizes[1]
          /\ \A i \in 1..Sizes[1] : r1[i] = uu[First[1] + (Sizes[1] - i)]
      BY <1>3, MemberTurned DEF g
    <2>2. Sizes[1] = 4 /\ First[1] = 1
      BY SizesAre
    <2> HIDE DEF r1
    <2>3. \A i \in 1..4 : 1 + (4 - i) = 5 - i
      OBVIOUS
    <2> QED  BY <2>1, <2>2, <2>3
  <1>5. /\ r2 \in Seq(Bytes) /\ Len(r2) = 2 /\ \A i \in 1..2 : r2[i] = uu[7 - i]
    <2>1. /\ r2 \in Seq(Bytes) /\ Len(r2) = Sizes[2]
          /\ \A i \in 1..Sizes[2] : r2[i] = uu[First[2] + (Sizes[2] - i)]
      BY <1>3, MemberTurned DEF g
    <2>2. Sizes[2] = 2 /\ First[2] = 5
      BY SizesAre
    <2> HIDE DEF r2
    <2>3. \A i \in 1..2 : 5 + (2 - i) = 7 - i
      OBVIOUS
    <2> QED  BY <2>1, <2>2, <2>3
  <1>6. /\ r3 \in Seq(Bytes) /\ Len(r3) = 2 /\ \A i \in 1..2 : r3[i] = uu[9 - i]
    <2>1. /\ r3 \in Seq(Bytes) /\ Len(r3) = Sizes[3]
          /\ \A i \in 1..Sizes[3] : r3[i] = uu[First[3] + (Sizes[3] - i)]
      BY <1>3, MemberTurned DEF g
    <2>2. Sizes[3] = 2 /\ First[3] = 7
      BY SizesAre
    <2> HIDE DEF r3
    <2>3. \A i \in 1..2 : 7 + (2 - i) = 9 - i
      OBVIOUS
    <2> QED  BY <2>1, <2>2, <2>3
  <1>7. /\ r4 \in Seq(Bytes) /\ Len(r4) = 8 /\ \A i \in 1..8 : r4[i] = uu[8 + i]
    <2>1. ASSUME NEW i \in 1..8 PROVE g[i + 3][1] = uu[8 + i] /\ g[i + 3][1] \in Bytes
      <3>1. i + 3 \in Members /\ Sizes[i + 3] = 1 /\ First[i + 3] = (i + 3) + 5
        BY <1>3, SizesAre
      <3>2. /\ g[i + 3] \in Seq(Bytes) /\ Len(g[i + 3]) = Sizes[i + 3]
            /\ \A k \in 1..Sizes[i + 3] : g[i + 3][k] = uu[First[i + 3] + (k - 1)]
        BY <3>1, FromUuidIs DEF IsGuid, g
      <3>3. (i + 3) + 5 + (1 - 1) = 8 + i /\ 1 \in 1..1
        OBVIOUS
      <3>4. g[i + 3][1] = uu[8 + i] /\ g[i + 3][1] \in Bytes
        <4>1. \A k \in 1..1 : g[i + 3][k] = uu[(i + 3) + 5 + (k - 1)]
          BY <3>1, <3>2
        <4>2. g[i + 3][1] = uu[8 + i]
          BY <3>3, <4>1
        <4>3. 1 \in 1..Len(g[i + 3])
          BY <3>1, <3>2
        <4>4. \A s \in Seq(Bytes) : \A k \in 1..Len(s) : s[k] \in Bytes
          OBVIOUS
        <4> QED  BY <3>2, <4>2, <4>3, <4>4
      <3> QED  BY <3>4
    <2>2. r4 \in [1..8 -> Bytes] /\ \A i \in 1..8 : r4[i] = uu[8 + i]
      BY <2>1
    <2> HIDE DEF r4
    <2> DEFINE e == 8
    <2>3. e \in Nat /\ r4 \in [1..e -> Bytes]
      BY <2>2
    <2> HIDE DEF e
    <2>4. r4 \in Seq(Bytes) /\ Len(r4) = e
      BY <2>3, FunctionIsSequence, Zenon
    <2> QED  BY <2>2, <2>4 DEF e
  <1> HIDE DEF r1, r2, r3, r4
  <1>8. /\ a \in Seq(Bytes) /\ Len(a) = 6 /\ (\A i \in 1..4 : a[i] = r1[i])
        /\ \A i \in 1..2 : a[4 + i] = r2[i]
    <2>1. r1 \in Seq(Bytes) /\ r2 \in Seq(Bytes) /\ Len(r1) = 4 /\ Len(r2) = 2
      BY <1>4, <1>5
    <2>2. r1 \in Seq(Bytes) /\ r2 \in Seq(Bytes)
      BY <2>1
    <2>3. a \in Seq(Bytes)
      BY <2>2
    <2>4. Len(a) = Len(r1) + Len(r2)
      BY <2>2
    <2>5. \A i \in 1..Len(r1) : a[i] = r1[i]
      BY <2>2
    <2>6. \A i \in 1..Len(r2) : a[Len(r1) + i] = r2[i]
      BY <2>2
    <2> HIDE DEF a
    <2> QED  BY <2>1, <2>3, <2>4, <2>5, <2>6
  <1> HIDE DEF a
  <1>9. /\ b \in Seq(Bytes) /\ Len(b) = 8 /\ (\A i \in 1..6 : b[i] = a[i])
        /\ \A i \in 1..2 : b[6 + i] = r3[i]
    <2>1. a \in Seq(Bytes) /\ r3 \in Seq(Bytes) /\ Len(a) = 6 /\ Len(r3) = 2
      BY <1>6, <1>8
    <2>2. a \in Seq(Bytes) /\ r3 \in Seq(Bytes)
      BY <2>1
    <2>3. b \in Seq(Bytes)
      BY <2>2
    <2>4. Len(b) = Len(a) + Len(r3)
      BY <2>2
    <2>5. \A i \in 1..Len(a) : b[i] = a[i]
      BY <2>2
    <2>6. \A i \in 1..Len(r3) : b[Len(a) + i] = r3[i]
      BY <2>2
    <2> HIDE DEF b
    <2> QED  BY <2>1, <2>3, <2>4, <2>5, <2>6
  <1> HIDE DEF b
  <1>10. /\ c \in Seq(Bytes) /\ Len(c) = 16 /\ (\A i \in 1..8 : c[i] = b[i])
         /\ \A i \in 1..8 : c[8 + i] = r4[i]
    <2>1. b \in Seq(Bytes) /\ r4 \in Seq(Bytes) /\ Len(b) = 8 /\ Len(r4) = 8
      BY <1>7, <1>9
    <2>2. b \in Seq(Bytes) /\ r4 \in Seq(Bytes)
      BY <2>1
    <2>3. c \in Seq(Bytes)
      BY <2>2
    <2>4. Len(c) = Len(b) + Len(r4)
      BY <2>2
    <2>5. \A i \in 1..Len(b) : c[i] = b[i]
      BY <2>2
    <2>6. \A i \in 1..Len(r4) : c[Len(b) + i] = r4[i]
      BY <2>2
    <2> HIDE DEF c
    <2> QED  BY <2>1, <2>3, <2>4, <2>5, <2>6
  <1> HIDE DEF c
  <1>11. ASSUME NEW i \in 1..16 PROVE c[i] = uu[TurnedRound(i)]
    <2>1. CASE i <= 4
      <3>1. i \in 1..4 /\ i \in 1..6 /\ i \in 1..8 /\ TurnedRound(i) = 5 - i
        BY <2>1 DEF TurnedRound
      <3>2. c[i] = a[i]
        BY <1>9, <1>10, <3>1
      <3>3. a[i] = uu[5 - i]
        BY <1>4, <1>8, <3>1
      <3> QED  BY <3>1, <3>2, <3>3
    <2>2. CASE i \in 5..6
      <3>1. i - 4 \in 1..2 /\ 4 + (i - 4) = i /\ i \in 1..6 /\ i \in 1..8 /\ TurnedRound(i) = 7 - (i - 4)
        BY <2>2 DEF TurnedRound
      <3>2. c[i] = a[i]
        BY <1>9, <1>10, <3>1
      <3>3. a[i] = r2[i - 4]
        BY <1>8, <3>1
      <3>4. r2[i - 4] = uu[7 - (i - 4)]
        BY <1>5, <3>1
      <3> QED  BY <3>1, <3>2, <3>3, <3>4
    <2>3. CASE i \in 7..8
      <3>1. i - 6 \in 1..2 /\ 6 + (i - 6) = i /\ i \in 1..8 /\ TurnedRound(i) = 9 - (i - 6)
        BY <2>3 DEF TurnedRound
      <3>2. c[i] = b[i]
        BY <1>10, <3>1
      <3>3. b[i] = r3[i - 6]
        BY <1>9, <3>1
      <3>4. r3[i - 6] = uu[9 - (i - 6)]
        BY <1>6, <3>1
      <3> QED  BY <3>1, <3>2, <3>3, <3>4
    <2>4. CASE i \in 9..16
      <3>1. i - 8 \in 1..8 /\ 8 + (i - 8) = i /\ TurnedRound(i) = i
        BY <2>4 DEF TurnedRound
      <3>2. c[i] = r4[i - 8] /\ r4[i - 8] = uu[i]
        BY <1>7, <1>10, <3>1
      <3> QED  BY <3>1, <3>2
    <2> QED  BY <2>1, <2>2, <2>3, <2>4
  <1>12. c = [i \in 1..16 |-> c[i]]
    <2>1. DOMAIN c = 1..16 /\ c = [i \in DOMAIN c |-> c[i]]
      BY <1>10
    <2> QED  BY <2>1
  <1>13. c = [i \in 1..16 |-> uu[TurnedRound(i)]]
    BY <1>11, <1>12
  <1> QED  BY <1>1, <1>13 DEF g
-----------------------------------------------------------------------------
\* The text that was made of the bytes, before anything of it was lost.
Meant(k, bytes, full) ==
    /\ k \in Base64Kinds => Base64Text(full, bytes)
    /\ k = "hex" => HexText(full, bytes)
    /\ k = "guid" => \/ bytes = <<>> /\ full = <<>>
                     \/ Len(bytes) = 16 /\ full = ToText(FromUuid(bytes))

ConversionKinds == Base64Kinds \cup {"hex", "guid", "typed"}

IsFull(k, bytes, t, lost, full) ==
    full \in Seq(Bytes) /\ Meant(k, bytes, full) /\ Begins(t, full) /\ (lost \/ t = full)

ConversionInv ==
    /\ kind \in ConversionKinds
    /\ raw \in Seq(Bytes) /\ encoded \in Seq(Bytes) /\ count \in Nat /\ cut \in BOOLEAN
    /\ count = 0 => raw = <<>>
    /\ kind # "typed" => \E full : IsFull(kind, raw, encoded, cut, full)

LEMMA BeginsItself ==
  ASSUME NEW S, NEW s \in Seq(S)
  PROVE  Begins(s, s)
  <1>1. Len(s) \in Nat
    OBVIOUS
  <1> QED  BY <1>1 DEF Begins

LEMMA PiecesAre ==
  /\ \A piece \in Pieces : piece \in Seq(Bytes)
  /\ \A uu \in Uuids : uu \in Seq(Bytes) /\ Len(uu) = 16
  /\ TypedChars \subseteq Bytes
  BY ConversionsAssumption DEF Bytes

LEMMA KindsDiffer ==
  /\ \A k \in Base64Kinds : k # "hex" /\ k # "guid" /\ k # "typed"
  BY DEF Base64Kinds

LEMMA ConversionStarts == ConversionInit => ConversionInv
  <1> SUFFICES ASSUME ConversionInit PROVE ConversionInv
    OBVIOUS
  <1>1. kind \in ConversionKinds /\ raw = <<>> /\ count = 0 /\ cut = FALSE
    BY DEF ConversionInit, ConversionKinds
  <1>2. raw \in Seq(Bytes) /\ <<>> \in Seq(Bytes)
    BY <1>1
  <1>3. CASE kind = "typed"
    <2>1. encoded \in BoundedSeq(TypedChars, MaxTyped)
      BY <1>3 DEF ConversionInit
    <2>2. PICK m \in 0..MaxTyped : encoded \in [1..m -> TypedChars]
      BY <2>1 DEF BoundedSeq, SeqOf
    <2>3. m \in Nat
      BY <2>2, ConversionsAssumption
    <2>4. encoded \in [1..m -> Bytes]
      BY <2>2, PiecesAre
    <2>5. encoded \in Seq(Bytes)
      BY <2>3, <2>4, FunctionIsSequence
    <2> QED  BY <1>1, <1>2, <1>3, <2>5 DEF ConversionInv
  <1>4. CASE kind # "typed"
    <2>1. encoded = <<>>
      BY <1>4 DEF ConversionInit
    <2>2. Base64Text(<<>>, <<>>)
      <3>1. Clean(<<>>) = <<>>
        BY WithoutOfEmpty DEF Clean
      <3>2. Aligned(<<>>)
        <4>1. \A i \in 1..Len(<<>>) : <<>>[i] # Newline
          OBVIOUS
        <4> QED  BY <1>2, <4>1, AlignedWithout
      <3> QED  BY <1>2, <3>1, <3>2, GoodEmpty DEF Base64Text
    <2>3. Meant(kind, <<>>, <<>>)
      BY <2>2, HexEmpty DEF Meant
    <2>4. Begins(<<>>, <<>>)
      BY <1>2, BeginsItself
    <2>5. IsFull(kind, raw, encoded, cut, <<>>)
      BY <1>1, <1>2, <2>1, <2>3, <2>4 DEF IsFull
    <2>6. encoded \in Seq(Bytes) /\ count \in Nat /\ cut \in BOOLEAN
      BY <1>1, <1>2, <2>1
    <2> QED  BY <1>1, <1>2, <2>5, <2>6 DEF ConversionInv
  <1> QED  BY <1>3, <1>4

\* A piece more.
LEMMA MeantMore ==
  ASSUME NEW k \in ConversionKinds, k # "typed", NEW bytes \in Seq(Bytes), NEW full \in Seq(Bytes),
         Meant(k, bytes, full), NEW piece \in Seq(Bytes),
         k = "guid" => bytes = <<>> /\ Len(piece) = 16
  PROVE  Encode(k, piece) \in Seq(Bytes) /\ Meant(k, bytes \o piece, full \o Encode(k, piece))
  <1>1. CASE k \in Base64Kinds
    <2> DEFINE e == Encode(k, piece)
    <2>1. Base64Text(e, piece)
      BY <1>1, Base64Encoded
    <2>2. Base64Text(full, bytes)
      BY <1>1 DEF Meant
    <2> HIDE DEF e
    <2>3. Base64Text(full \o e, bytes \o piece)
      BY <2>1, <2>2, Base64Concat
    <2>4. e \in Seq(Bytes)
      BY <2>1 DEF Base64Text
    <2>5. Meant(k, bytes \o piece, full \o e)
      BY <1>1, <2>3, KindsDiffer DEF Meant
    <2> QED  BY <2>4, <2>5 DEF e
  <1>2. CASE k = "hex"
    <2> DEFINE e == ToHex(piece, TRUE)
    <2>1. Encode(k, piece) = e
      BY <1>2 DEF Encode
    <2>2. HexText(e, piece) /\ HexText(full, bytes)
      BY <1>2, ToHexIs DEF Meant
    <2> HIDE DEF e
    <2>3. HexText(full \o e, bytes \o piece)
      BY <2>2, HexConcat
    <2>4. e \in Seq(Bytes)
      BY <2>2 DEF HexText
    <2>5. Meant(k, bytes \o piece, full \o e)
      BY <1>2, <2>3, KindsDiffer DEF Meant
    <2> QED  BY <2>1, <2>4, <2>5
  <1>3. CASE k = "guid"
    <2> DEFINE e == ToText(FromUuid(piece))
    <2>1. Encode(k, piece) = e
      BY <1>3 DEF Encode
    <2>2. bytes = <<>> /\ Len(piece) = 16 /\ Len(<<>>) = 0
      BY <1>3
    <2>3. full = <<>>
      BY <1>3, <2>2 DEF Meant
    <2>4. e \in Seq(Bytes)
      <3>1. IsGuid(FromUuid(piece))
        BY <2>2, FromUuidIs
      <3>2. PICK f : Printing(FromUuid(piece), f) /\ e = f[11]
        BY <3>1, PrintingIs
      <3>3. 11 \in 0..11
        OBVIOUS
      <3> QED  BY <3>2, <3>3 DEF Printing
    <2> HIDE DEF e
    <2>5. bytes \o piece = piece /\ full \o e = e
      BY <2>2, <2>3, <2>4
    <2>6. Meant(k, piece, e)
      BY <1>3, <2>2, KindsDiffer DEF Meant, e
    <2> QED  BY <2>1, <2>4, <2>5, <2>6
  <1> QED  BY <1>1, <1>2, <1>3 DEF ConversionKinds

LEMMA EncodePieceKeeps ==
  ASSUME ConversionInv, NEW piece \in Pieces \cup Uuids, EncodePiece(piece)
  PROVE  ConversionInv'
  <1>1. /\ kind # "typed" /\ ~cut /\ kind' = kind /\ cut' = cut
        /\ piece \in (IF kind = "guid" THEN Uuids ELSE Pieces)
        /\ count < (IF kind = "guid" THEN 1 ELSE MaxPieces)
        /\ raw' = raw \o piece /\ encoded' = encoded \o Encode(kind, piece) /\ count' = count + 1
    BY DEF EncodePiece
  <1>2. /\ kind \in ConversionKinds /\ raw \in Seq(Bytes) /\ encoded \in Seq(Bytes) /\ count \in Nat
        /\ cut \in BOOLEAN /\ count = 0 => raw = <<>>
    BY DEF ConversionInv
  <1>3. Meant(kind, raw, encoded)
    <2>1. PICK full : IsFull(kind, raw, encoded, cut, full)
      BY <1>1 DEF ConversionInv
    <2> QED  BY <1>1, <2>1 DEF IsFull
  <1>4. piece \in Seq(Bytes)
    BY PiecesAre
  <1>5. kind = "guid" => raw = <<>> /\ Len(piece) = 16
    <2>1. ASSUME kind = "guid" PROVE raw = <<>> /\ Len(piece) = 16
      <3>1. piece \in Uuids /\ count < 1
        BY <1>1, <2>1
      <3>2. count = 0
        BY <1>2, <3>1
      <3>3. Len(piece) = 16
        BY <3>1, PiecesAre
      <3>4. count = 0 => raw = <<>>
        BY DEF ConversionInv
      <3>5. raw = <<>>
        BY <3>2, <3>4, Zenon
      <3> QED  BY <3>3, <3>5
    <2> QED  BY <2>1
  <1>6. Encode(kind, piece) \in Seq(Bytes) /\ Meant(kind, raw \o piece, encoded \o Encode(kind, piece))
    BY <1>1, <1>2, <1>3, <1>4, <1>5, MeantMore
  <1>7. encoded' \in Seq(Bytes) /\ raw' \in Seq(Bytes) /\ count' \in Nat /\ count' # 0
    BY <1>1, <1>2, <1>4, <1>6
  <1>8. IsFull(kind', raw', encoded', cut', encoded')
    BY <1>1, <1>6, <1>7, BeginsItself DEF IsFull
  <1> QED  BY <1>1, <1>2, <1>7, <1>8 DEF ConversionInv

LEMMA LoseEndKeeps ==
  ASSUME ConversionInv, NEW n \in 0..(Len(encoded) - 1), LoseEnd(n)
  PROVE  ConversionInv'
  <1>1. /\ kind # "typed" /\ ~cut /\ encoded' = SubSeq(encoded, 1, n) /\ cut' = TRUE
        /\ kind' = kind /\ raw' = raw /\ count' = count
    BY DEF LoseEnd
  <1>2. /\ kind \in ConversionKinds /\ raw \in Seq(Bytes) /\ encoded \in Seq(Bytes) /\ count \in Nat
        /\ count = 0 => raw = <<>>
    BY DEF ConversionInv
  <1>3. Meant(kind, raw, encoded)
    <2>1. PICK full : IsFull(kind, raw, encoded, cut, full)
      BY <1>1 DEF ConversionInv
    <2> QED  BY <1>1, <2>1 DEF IsFull
  <1> DEFINE u == SubSeq(encoded, 1, n)
  <1>4. u \in Seq(Bytes) /\ Begins(u, encoded)
    <2>1. n \in Nat /\ n <= Len(encoded) /\ Len(encoded) \in Nat
      <3>1. Len(encoded) \in Nat
        BY <1>2, LengthIsNat
      <3> QED  BY <3>1
    <2>2. u \in Seq(Bytes) /\ Len(u) = n
      BY <1>2, <2>1
    <2>3. \A i \in 1..n : u[i] = encoded[i]
      BY <1>2, <2>1
    <2> HIDE DEF u
    <2> QED  BY <2>1, <2>2, <2>3 DEF Begins
  <1> HIDE DEF u
  <1>5. encoded' = u
    BY <1>1 DEF u
  <1>6. IsFull(kind', raw', encoded', cut', encoded)
    BY <1>1, <1>2, <1>3, <1>4, <1>5 DEF IsFull
  <1> QED  BY <1>1, <1>2, <1>4, <1>5, <1>6 DEF ConversionInv

LEMMA ConversionKeeps == ConversionInv /\ [ConversionNext]_conversionVars => ConversionInv'
  <1> SUFFICES ASSUME ConversionInv, [ConversionNext]_conversionVars PROVE ConversionInv'
    OBVIOUS
  <1>1. ASSUME NEW piece \in Pieces \cup Uuids, EncodePiece(piece) PROVE ConversionInv'
    BY <1>1, EncodePieceKeeps
  <1>2. ASSUME NEW n \in 0..(Len(encoded) - 1), LoseEnd(n) PROVE ConversionInv'
    BY <1>2, LoseEndKeeps
  <1>3. CASE UNCHANGED conversionVars
    BY <1>3 DEF conversionVars, ConversionInv
  <1> QED  BY <1>1, <1>2, <1>3 DEF ConversionNext

\* The inductive invariant of the conversions: the text is one that stands for the bytes
\* encoded so far, or a beginning of one (Base64.cpp 60-157, Convert.cpp 56-74).
THEOREM ConversionInvariant == ConversionSpec => []ConversionInv
  BY ConversionStarts, ConversionKeeps, PTL DEF ConversionSpec

LEMMA InvThereAndBack == ConversionInv => ThereAndBack
  <1> SUFFICES ASSUME ConversionInv PROVE Base64AndBack /\ HexAndBack /\ GuidAndBack
    BY DEF ThereAndBack
  <1>1. encoded \in Seq(Bytes) /\ raw \in Seq(Bytes)
    BY DEF ConversionInv
  <1>2. Base64AndBack
    <2>1. ASSUME kind \in Base64Kinds
          PROVE  LET plain  == DecodedGroups(encoded)
                     broken == DecodedGroups(Clean(encoded))
                 IN  /\ ~cut => /\ broken.ok /\ broken.out = raw
                                /\ plain.ok <=> Newline \notin ToSet(encoded)
                     /\ broken.ok => IsPrefix(broken.out, raw)
                     /\ plain.ok => plain.out = broken.out
      <3>1. PICK full : IsFull(kind, raw, encoded, cut, full)
        BY <2>1, KindsDiffer DEF ConversionInv
      <3>2. Base64Text(full, raw)
        BY <2>1, <3>1 DEF Meant, IsFull
      <3> DEFINE plain  == DecodedGroups(encoded)
                 broken == DecodedGroups(Clean(encoded))
      <3>3. /\ encoded = full => /\ broken.ok /\ broken.out = raw
                                 /\ plain.ok <=> Newline \notin ToSet(encoded)
            /\ broken.ok => IsPrefix(broken.out, raw)
            /\ plain.ok => plain.out = broken.out
        BY <1>1, <3>1, <3>2, Base64Back DEF IsFull
      <3> HIDE DEF plain, broken
      <3>4. /\ ~cut => /\ broken.ok /\ broken.out = raw
                       /\ plain.ok <=> Newline \notin ToSet(encoded)
            /\ broken.ok => IsPrefix(broken.out, raw)
            /\ plain.ok => plain.out = broken.out
        BY <3>1, <3>3 DEF IsFull
      <3> QED  BY <3>4 DEF plain, broken
    <2>2. FromBase64(encoded) = DecodedGroups(encoded) /\ base64_decode(encoded, TRUE) = DecodedGroups(Clean(encoded))
      BY DEF FromBase64, base64_decode, Clean
    <2> QED  BY <2>1, <2>2 DEF Base64AndBack
  <1>3. HexAndBack
    <2>1. ASSUME kind = "hex" PROVE (~cut => FromHex(encoded) = raw) /\ IsPrefix(FromHex(encoded), raw)
      <3>1. PICK full : IsFull(kind, raw, encoded, cut, full)
        BY <2>1 DEF ConversionInv
      <3>2. HexText(full, raw)
        BY <2>1, <3>1 DEF Meant, IsFull
      <3> QED  BY <1>1, <3>1, <3>2, <2>1, HexBack DEF IsFull
    <2> QED  BY <2>1 DEF HexAndBack
  <1>4. GuidAndBack
    <2>1. ASSUME kind = "guid", raw # <<>>, ~cut
          PROVE  /\ FromText(encoded) = [FromUuid(raw) EXCEPT ![2] = FromUuid(raw)[3], ![3] = Zeros(2)]
                 /\ GetBytes(FromUuid(raw)) = [i \in 1..16 |-> raw[TurnedRound(i)]]
      <3>1. PICK full : IsFull(kind, raw, encoded, cut, full)
        BY <2>1 DEF ConversionInv
      <3>2. Len(raw) = 16 /\ encoded = ToText(FromUuid(raw))
        BY <2>1, <3>1 DEF Meant, IsFull
      <3>3. IsGuid(FromUuid(raw)) /\ FromUuid(raw) = [k \in Members |-> FromUuid(raw)[k]]
        <4>1. IsGuid(FromUuid(raw))
          BY <1>1, <3>2, FromUuidIs
        <4>2. FromUuid(raw) = [k \in Members |-> FromUuid(raw)[k]]
          BY DEF FromUuid
        <4> QED  BY <4>1, <4>2
      <3>4. FromText(ToText(FromUuid(raw))) = [FromUuid(raw) EXCEPT ![2] = FromUuid(raw)[3], ![3] = Zeros(2)]
        BY <3>3, FromTextIs
      <3> QED  BY <1>1, <3>2, <3>4, GetBytesIs
    <2> QED  BY <2>1, Zenon DEF GuidAndBack, TurnedRound
  <1> QED  BY <1>2, <1>3, <1>4

LEMMA InvReadsInside == ConversionInv => ReadsInside
  <1> SUFFICES ASSUME ConversionInv PROVE ReadsInside
    OBVIOUS
  <1>1. encoded \in Seq(Bytes)
    BY DEF ConversionInv
  <1>2. FromBase64(encoded) = DecodedGroups(encoded)
    BY DEF FromBase64, base64_decode
  <1>3. Inside(encoded, DecodedGroups(encoded).reach)
    BY <1>1, DecodeInside
  <1> QED  BY <1>2, <1>3 DEF ReadsInside, Inside

\* What Convert, Base64 and Guid make of bytes, in one call or in several, with line breaks or
\* without, is turned back into the bytes; of a text that lost its end at most a beginning of
\* them comes back (Base64.cpp 60-231, Convert.cpp 3-65, Guid.cpp 60-153).
THEOREM ConversionsThereAndBack == ConversionSpec => []ThereAndBack
  BY ConversionInvariant, InvThereAndBack, PTL

\* decode looks ahead without asking for the length, and yet never reads behind the zero of a
\* std::string, nor as far as that in a text of whole groups (Base64.cpp 187-220).
THEOREM DecodeReadsInside == ConversionSpec => []ReadsInside
  BY ConversionInvariant, InvReadsInside, PTL
-----------------------------------------------------------------------------
\* Strings have not been called when nothing has.
LEMMA NothingBegun ==
  /\ NoString => StringInit
  /\ NoConversion => ConversionInit
  <1>1. ASSUME NEW S, NEW n \in Nat PROVE <<>> \in BoundedSeq(S, n)
    <2>1. <<>> \in [1..0 -> S] /\ 0 \in 0..n
      OBVIOUS
    <2> QED  BY <2>1 DEF BoundedSeq, SeqOf
  <1>2. <<>> \in BoundedSeq(Chars, MaxText) /\ <<>> \in BoundedSeq(TypedChars, MaxTyped)
    BY <1>1, StringExAssumption, ConversionsAssumption
  <1>3. NoString => StringInit
    BY <1>2 DEF NoString, StringInit
  <1>4. NoConversion => ConversionInit
    BY <1>2 DEF NoConversion, ConversionInit
  <1> QED  BY <1>3, <1>4

\* Neither program disturbs the other: the behaviours that are model-checked are those of
\* each of them.
THEOREM TextsAreApart == TextSafetySpec => StringSafetySpec /\ ConversionSpec
  <1>1. TextInit => StringInit /\ ConversionInit
    BY NothingBegun DEF TextInit
  <1>2. [TextNext]_textVars => [StringNext]_stringVars /\ [ConversionNext]_conversionVars
    BY DEF TextNext, textVars, stringVars, conversionVars
  <1> QED  BY <1>1, <1>2, PTL DEF TextSafetySpec, StringSafetySpec, ConversionSpec

\* So what is proved of each holds under the specification that is model-checked
\* (String.hpp 36-140, Base64.cpp 60-231, Convert.cpp 3-97, Guid.cpp 60-266).
THEOREM TextsHold == TextSpec => [](ResultsAreExact /\ ThereAndBack /\ ReadsInside)
  BY TextsAreApart, SearchesAreExact, ConversionsThereAndBack, DecodeReadsInside, PTL DEF TextSpec
=============================================================================
