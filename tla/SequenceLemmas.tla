---------------------------- MODULE SequenceLemmas ----------------------------
(***************************************************************************)
(* What the proofs about several components need: induction over numbers,  *)
(* the values of recursive functions, and what the operators on sequences  *)
(* that are defined by recursion (Within, FlattenSeq) yield.               *)
(***************************************************************************)
EXTENDS Filters, SequencesExt, FiniteSetTheorems, WellFoundedInduction, TLAPS

-----------------------------------------------------------------------------
(* Induction, and functions that are defined by recursion: a set takes the *)
(* place of the predicate, and another one the place of the result.        *)

\* A set that has zero and with every number the next one has all natural numbers.
LEMMA NaturalInduction ==
  ASSUME NEW P, 0 \in P, \A k \in Nat : k \in P => k + 1 \in P
  PROVE  Nat \subseteq P
<1> SUFFICES ASSUME Nat \ P # {} PROVE FALSE
  OBVIOUS
<1>1. PICK x \in Nat \ P : \A y \in Nat \ P : ~(<<y, x>> \in OpToRel(<, Nat))
  BY WFMin, NatLessThanWellFounded
<1>2. \A y \in Nat \ P : ~(y < x)
  BY <1>1 DEF OpToRel
<1> HIDE <1>1
<1>3. x - 1 \in Nat /\ x - 1 < x /\ (x - 1) + 1 = x
  OBVIOUS
<1> QED
  BY <1>2, <1>3

\* The same for the numbers up to N.
LEMMA BoundedInduction ==
  ASSUME NEW N \in Nat, NEW P, 0 \in P, \A k \in 1..N : k - 1 \in P => k \in P
  PROVE  0..N \subseteq P
<1> DEFINE Q == {k \in Nat : k <= N => k \in P}
<1>1. 0 \in Q
  OBVIOUS
<1>2. ASSUME NEW k \in Nat, k \in Q PROVE k + 1 \in Q
  BY <1>2
<1> HIDE DEF Q
<1>3. Nat \subseteq Q
  BY <1>1, <1>2, NaturalInduction
<1> QED
  BY <1>3 DEF Q

\* A set of numbers that is not empty has a least one.
LEMMA LeastNumber ==
  ASSUME NEW S, S \subseteq Nat, S # {}
  PROVE  \E x \in S : \A y \in S : x <= y
<1>1. PICK x \in S : TRUE
  OBVIOUS
<1>2. x \in Nat
  OBVIOUS
<1> DEFINE P == {k \in Nat : \A y \in S : y < k => FALSE}
<1> SUFFICES ASSUME \A z \in S : \E y \in S : y < z PROVE FALSE
  OBVIOUS
<1>3. 0 \in P
  OBVIOUS
<1>4. ASSUME NEW k \in Nat, k \in P PROVE k + 1 \in P
  <2>1. SUFFICES ASSUME NEW y \in S, y < k + 1 PROVE FALSE
    OBVIOUS
  <2>2. PICK z \in S : z < y
    OBVIOUS
  <2>3. y \in Nat /\ z \in Nat /\ z < k
    BY <2>1, <2>2
  <2> QED
    BY <1>4, <2>3
<1> HIDE DEF P
<1>5. x + 1 \in P
  BY <1>2, <1>3, <1>4, NaturalInduction
<1> QED
  BY <1>2, <1>5 DEF P

\* Functions that lead from each value to the next, and what they give from a on.
Steps(N, A) == [1..N -> [A -> A]]
IsIterated(f, N, a, F) == f[0] = a /\ \A k \in 1..N : f[k] = F[k][f[k - 1]]
Iterates(N, A, a, F) == \E f \in [0..N -> A] : IsIterated(f, N, a, F)

\* There is such a function: a recursive definition of this form says what its values are.
LEMMA Recursion ==
  ASSUME NEW N \in Nat, NEW A, NEW a \in A, NEW F \in Steps(N, A)
  PROVE  Iterates(N, A, a, F)
<1> USE DEF Steps, IsIterated, Iterates
<1> DEFINE Fits(f, n) == f[0] = a /\ \A k \in 1..n : f[k] = F[k][f[k - 1]]
           P == {n \in Nat : n <= N => \E f \in [0..n -> A] : Fits(f, n)}
<1>1. 0 \in P
  <2>1. [k \in 0..0 |-> a] \in [0..0 -> A] /\ Fits([k \in 0..0 |-> a], 0)
    OBVIOUS
  <2> QED
    BY <2>1
<1>2. ASSUME NEW n \in Nat, n \in P PROVE n + 1 \in P
  <2>1. SUFFICES ASSUME n + 1 <= N PROVE \E g \in [0..(n + 1) -> A] : Fits(g, n + 1)
    OBVIOUS
  <2>2. PICK f \in [0..n -> A] : Fits(f, n)
    BY <1>2, <2>1
  <2> DEFINE x == F[n + 1][f[n]]
             g == [k \in 0..(n + 1) |-> IF k = n + 1 THEN x ELSE f[k]]
  <2>3. x \in A
    BY <2>1
  <2> HIDE DEF x
  <2>31. g \in [0..(n + 1) -> A]
    BY <2>3
  <2>4. g[0] = f[0] /\ f[0] = a /\ g[n + 1] = x /\ g[n] = f[n] /\ n = (n + 1) - 1
    BY <2>2
  <2> USE DEF x
  <2>5. \A k \in 1..n : g[k] = f[k] /\ g[k - 1] = f[k - 1]
    OBVIOUS
  <2>6. 1..(n + 1) = 1..n \cup {n + 1}
    OBVIOUS
  <2>7. \A k \in 1..n : f[k] = F[k][f[k - 1]]
    BY <2>2
  <2>8. g[n + 1] = F[n + 1][g[(n + 1) - 1]]
    BY <2>4
  <2> HIDE DEF g, x
  <2>9. Fits(g, n + 1)
    BY <2>4, <2>5, <2>6, <2>7, <2>8
  <2> QED
    BY <2>31, <2>9
<1> HIDE DEF P
<1>3. N \in P
  BY <1>1, <1>2, NaturalInduction
<1> QED
  BY <1>3 DEF P

-----------------------------------------------------------------------------
(* Sequences, and those of their elements that Within keeps.               *)

\* Appending adds one element at the end.
LEMMA AppendFacts ==
  ASSUME NEW T, NEW s \in Seq(T), NEW x \in T
  PROVE  /\ Append(s, x) \in Seq(T) /\ Len(Append(s, x)) = Len(s) + 1 /\ Len(s) \in Nat
         /\ \A k \in 1..Len(s) : Append(s, x)[k] = s[k]
         /\ Append(s, x)[Len(s) + 1] = x
         /\ ToSet(Append(s, x)) = ToSet(s) \cup {x}
<1>1. /\ Append(s, x) \in Seq(T) /\ Len(Append(s, x)) = Len(s) + 1 /\ Len(s) \in Nat
      /\ \A k \in 1..Len(s) : Append(s, x)[k] = s[k]
      /\ Append(s, x)[Len(s) + 1] = x
  OBVIOUS
<1>2. DOMAIN s = 1..Len(s) /\ DOMAIN Append(s, x) = 1..(Len(s) + 1)
  OBVIOUS
<1>3. 1..(Len(s) + 1) = 1..Len(s) \cup {Len(s) + 1}
  BY <1>1
<1>4. ToSet(Append(s, x)) = ToSet(s) \cup {x}
  BY <1>1, <1>2, <1>3 DEF ToSet
<1> QED
  BY <1>1, <1>4

\* The elements of a sequence and of what Front leaves of it.
LEMMA SequenceFacts ==
  ASSUME NEW T, NEW s \in Seq(T)
  PROVE  /\ Len(s) \in Nat /\ DOMAIN s = 1..Len(s) /\ \A k \in 1..Len(s) : s[k] \in T
         /\ s # <<>> => Len(s) >= 1
  OBVIOUS

LEMMA FrontFacts ==
  ASSUME NEW T, NEW s \in Seq(T), s # <<>>
  PROVE  /\ Front(s) \in Seq(T) /\ Len(Front(s)) = Len(s) - 1
         /\ \A k \in 1..(Len(s) - 1) : Front(s)[k] = s[k]
<1> DEFINE n == Len(s) - 1
           f == Front(s)
<1>1. n \in Nat /\ \A k \in 1..n : s[k] \in T
  BY SequenceFacts
<1>2. f = [k \in 1..n |-> s[k]]
  BY DEF Front
<1> HIDE DEF n, f
<1>3. f \in [1..n -> T] /\ \A k \in 1..n : f[k] = s[k]
  BY <1>1, <1>2
<1>4. f \in Seq(T) /\ Len(f) = n
  BY <1>1, <1>3
<1> QED
  BY <1>3, <1>4 DEF n, f

\* The recursion behind Within.
LEMMA WithinSteps ==
  ASSUME NEW T, NEW s \in Seq(T), NEW S
  PROVE  \E kept \in [0..Len(s) -> Seq(T)] :
           /\ kept[0] = <<>> /\ Within(s, S) = kept[Len(s)]
           /\ \A k \in 1..Len(s) : kept[k] = IF s[k] \in S THEN Append(kept[k - 1], s[k]) ELSE kept[k - 1]
<1> DEFINE N == Len(s)
           A == Seq(T)
           none == <<>>
           F == [k \in 1..N |-> [x \in A |-> IF s[k] \in S THEN Append(x, s[k]) ELSE x]]
           step(f) == [k \in 0..N |-> IF k = 0 THEN none ELSE IF s[k] \in S THEN Append(f[k - 1], s[k]) ELSE f[k - 1]]
           kept == CHOOSE f : f = step(f)
<1>1. N \in Nat /\ none \in A
  OBVIOUS
<1>2. \A k \in 1..N, x \in A : Append(x, s[k]) \in A
  OBVIOUS
<1>3. Within(s, S) = kept[N]
  BY DEF Within
<1> HIDE DEF N, A, none
<1>4. F \in Steps(N, A)
  BY <1>2 DEF Steps
<1>5. \A k \in 1..N, x \in A : F[k][x] = IF s[k] \in S THEN Append(x, s[k]) ELSE x
  OBVIOUS
<1> HIDE DEF F
<1>60. Iterates(N, A, none, F)
  BY <1>1, <1>4, Recursion
<1>6. PICK f \in [0..N -> A] : f[0] = none /\ \A k \in 1..N : f[k] = F[k][f[k - 1]]
  BY <1>60 DEF Iterates, IsIterated
<1>7. \A k \in 1..N : k - 1 \in 0..N /\ k # 0
  BY <1>1
<1>8. \A k \in 1..N : f[k] = IF s[k] \in S THEN Append(f[k - 1], s[k]) ELSE f[k - 1]
  BY <1>5, <1>6, <1>7
<1>80. \A k \in 0..N : f[k] = IF k = 0 THEN none ELSE IF s[k] \in S THEN Append(f[k - 1], s[k]) ELSE f[k - 1]
  <2> TAKE k \in 0..N
  <2>1. CASE k = 0
    BY <2>1, <1>6
  <2>2. CASE k # 0
    <3>1. k \in 1..N
      BY <1>1, <2>2
    <3> HIDE DEF step, kept
    <3> QED
      BY <1>8, <2>2, <3>1
  <2> QED
    BY <2>1, <2>2
<1>9. f = step(f)
  BY <1>80
<1>10. kept = step(kept)
  BY <1>9
<1> HIDE DEF kept
<1>11. 0 \in 0..N /\ 1..N \subseteq 0..N
  BY <1>1
<1>12. kept[0] = none /\ kept = [k \in 0..N |-> kept[k]]
  BY <1>10, <1>11
<1>13. ASSUME NEW k \in 1..N PROVE kept[k] = IF s[k] \in S THEN Append(kept[k - 1], s[k]) ELSE kept[k - 1]
  BY <1>10, <1>11, <1>7
<1> DEFINE P == {k \in 0..N : kept[k] \in A}
<1>14. 0 \in P
  BY <1>1, <1>11, <1>12
<1>15. ASSUME NEW k \in 1..N, k - 1 \in P PROVE k \in P
  BY <1>2, <1>11, <1>13, <1>15
<1> HIDE DEF P
<1>16. 0..N \subseteq P
  BY <1>1, <1>14, <1>15, BoundedInduction
<1>17. kept \in [0..N -> A]
  BY <1>12, <1>16 DEF P
<1> QED
  BY <1>3, <1>12, <1>13, <1>17 DEF N, A, none

\* Within keeps the elements that are in the set, and no others.
LEMMA WithinFacts ==
  ASSUME NEW T, NEW s \in Seq(T), NEW S
  PROVE  Within(s, S) \in Seq(T) /\ ToSet(Within(s, S)) = ToSet(s) \cap S
<1>1. PICK kept \in [0..Len(s) -> Seq(T)] :
        /\ kept[0] = <<>> /\ Within(s, S) = kept[Len(s)]
        /\ \A k \in 1..Len(s) : kept[k] = IF s[k] \in S THEN Append(kept[k - 1], s[k]) ELSE kept[k - 1]
  BY WithinSteps
<1> DEFINE first(n) == {s[j] : j \in 1..n}
           P == {n \in Nat : n <= Len(s) => ToSet(kept[n]) = first(n) \cap S}
<1>2. Len(s) \in Nat /\ DOMAIN s = 1..Len(s) /\ \A k \in 1..Len(s) : s[k] \in T
  OBVIOUS
<1>3. 0 \in P
  <2>1. ToSet(kept[0]) = {} /\ first(0) = {}
    BY <1>1 DEF ToSet
  <2> QED
    BY <2>1
<1>4. ASSUME NEW n \in Nat, n \in P PROVE n + 1 \in P
  <2>1. SUFFICES ASSUME n + 1 <= Len(s) PROVE ToSet(kept[n + 1]) = first(n + 1) \cap S
    OBVIOUS
  <2> DEFINE x == s[n + 1]
  <2>2. n + 1 \in 1..Len(s) /\ (n + 1) - 1 = n /\ x \in T /\ kept[n] \in Seq(T)
    BY <1>1, <1>2, <2>1
  <2>3. ToSet(kept[n]) = first(n) \cap S
    BY <1>2, <1>4, <2>1
  <2>4. 1..(n + 1) = 1..n \cup {n + 1}
    OBVIOUS
  <2>5. first(n + 1) = first(n) \cup {x}
    BY <2>4
  <2>6. kept[n + 1] = IF x \in S THEN Append(kept[n], x) ELSE kept[n]
    BY <1>1, <2>2
  <2> HIDE DEF x, first
  <2>7. ToSet(Append(kept[n], x)) = ToSet(kept[n]) \cup {x}
    BY <2>2, AppendFacts
  <2> QED
    BY <2>3, <2>5, <2>6, <2>7
<1> HIDE DEF P
<1>5. Len(s) \in P
  BY <1>2, <1>3, <1>4, NaturalInduction
<1>6. first(Len(s)) = ToSet(s)
  BY <1>2 DEF ToSet
<1>7. kept[Len(s)] \in Seq(T)
  BY <1>1, <1>2
<1>8. ToSet(kept[Len(s)]) = first(Len(s)) \cap S
  BY <1>2, <1>5 DEF P
<1> QED
  BY <1>1, <1>6, <1>7, <1>8

-----------------------------------------------------------------------------
(* Sequences without repetition, and what stands in them from a place on.  *)

Distinct(s) == \A i, j \in 1..Len(s) : s[i] = s[j] => i = j
From(s, k) == {s[i] : i \in k..Len(s)}

\* Such a sequence is as long as it has elements.
LEMMA DistinctCardinality ==
  ASSUME NEW T, NEW s \in Seq(T), Distinct(s), NEW k \in 1..(Len(s) + 1)
  PROVE  IsFiniteSet(From(s, k)) /\ Cardinality(From(s, k)) = Len(s) + 1 - k
<1> DEFINE n == Len(s)
           I == k..n
           S == From(s, k)
           f == [i \in I |-> s[i]]
<1>1. n \in Nat /\ k \in Nat /\ \A i \in I : i \in 1..n
  OBVIOUS
<1>2. f \in [I -> S] /\ \A y \in S : \E i \in I : f[i] = y
  BY DEF From
<1>3. \A i, j \in I : f[i] = f[j] => i = j
  BY <1>1 DEF Distinct
<1> HIDE DEF f, S
<1>4. f \in Surjection(I, S) /\ f \in Injection(I, S)
  BY <1>2, <1>3 DEF Surjection, Injection, IsInjective
<1> HIDE DEF n
<1>5. IsFiniteSet(I) /\ Cardinality(I) = n - k + 1
  <2>1. IsFiniteSet(I) /\ Cardinality(I) = IF k > n THEN 0 ELSE n - k + 1
    <3>1. k \in Int /\ n \in Int
      BY <1>1
    <3> QED
      BY <3>1, FS_Interval
  <2>2. k <= n + 1
    BY DEF n
  <2> QED
    BY <1>1, <2>1, <2>2
<1> HIDE DEF I
<1>6. IsFiniteSet(S) /\ Cardinality(S) = Cardinality(I)
  BY <1>4, <1>5, FS_Surjection
<1> QED
  BY <1>1, <1>5, <1>6 DEF S, n

\* The elements of such a sequence are as many as its places.
LEMMA DistinctSet ==
  ASSUME NEW T, NEW s \in Seq(T), Distinct(s)
  PROVE  IsFiniteSet(ToSet(s)) /\ Cardinality(ToSet(s)) = Len(s)
<1>1. Len(s) \in Nat /\ DOMAIN s = 1..Len(s)
  OBVIOUS
<1>2. ToSet(s) = From(s, 1) /\ 1 \in 1..(Len(s) + 1)
  BY <1>1 DEF ToSet, From
<1>3. IsFiniteSet(From(s, 1)) /\ Cardinality(From(s, 1)) = Len(s) + 1 - 1
  BY <1>2, DistinctCardinality
<1> QED
  BY <1>1, <1>2, <1>3

LEMMA AppendFrom ==
  ASSUME NEW T, NEW s \in Seq(T), NEW x \in T, NEW k \in 1..(Len(s) + 1)
  PROVE  From(Append(s, x), k) = From(s, k) \cup {x}
<1> DEFINE n == Len(s)
           r == Append(s, x)
<1>1. n \in Nat /\ Len(r) = n + 1 /\ r[n + 1] = x /\ \A i \in 1..n : r[i] = s[i]
  BY AppendFacts
<1> HIDE DEF r
<1>2. k..(n + 1) = k..n \cup {n + 1} /\ \A i \in k..n : i \in 1..n
  BY <1>1
<1> HIDE DEF n
<1>3. {r[i] : i \in k..(n + 1)} = {s[i] : i \in k..n} \cup {x}
  BY <1>1, <1>2
<1> QED
  BY <1>1, <1>3 DEF From, r, n

LEMMA AppendDistinct ==
  ASSUME NEW T, NEW s \in Seq(T), Distinct(s), NEW x \in T, x \notin ToSet(s)
  PROVE  Distinct(Append(s, x))
<1> DEFINE n == Len(s)
           r == Append(s, x)
<1>1. n \in Nat /\ Len(r) = n + 1 /\ r[n + 1] = x /\ \A i \in 1..n : r[i] = s[i]
  BY AppendFacts
<1>2. \A i \in 1..n : s[i] # x
  BY DEF ToSet
<1> HIDE DEF r
<1>3. \A i, j \in 1..n : s[i] = s[j] => i = j
  BY DEF Distinct
<1> HIDE DEF n
<1>4. \A i, j \in 1..(n + 1) : r[i] = r[j] => i = j
  <2>1. \A i \in 1..(n + 1) : i = n + 1 \/ i \in 1..n
    BY <1>1
  <2> QED
    BY <1>1, <1>2, <1>3, <2>1
<1> QED
  BY <1>1, <1>4 DEF Distinct, r

\* Within keeps the order: what stood behind an element stands behind it still.
LEMMA WithinOrder ==
  ASSUME NEW T, NEW s \in Seq(T), NEW S, Distinct(s)
  PROVE  /\ Distinct(Within(s, S))
         /\ \A k \in 1..Len(s) : \E j \in 1..(Len(Within(s, S)) + 1) :
              From(Within(s, S), j) = From(s, k) \cap S
<1>1. PICK kept \in [0..Len(s) -> Seq(T)] :
        /\ kept[0] = <<>> /\ Within(s, S) = kept[Len(s)]
        /\ \A k \in 1..Len(s) : kept[k] = IF s[k] \in S THEN Append(kept[k - 1], s[k]) ELSE kept[k - 1]
  BY WithinSteps
<1> DEFINE N == Len(s)
           first(n) == {s[i] : i \in 1..n}
           part(k, n) == {s[i] : i \in k..n}
           A == {n \in Nat : n <= N => ToSet(kept[n]) \subseteq first(n) /\ Distinct(kept[n])}
<1>2. N \in Nat /\ \A k \in 1..N : s[k] \in T
  OBVIOUS
<1>3. ASSUME NEW n \in Nat, n + 1 <= N
      PROVE  /\ n <= N /\ kept[n] \in Seq(T) /\ s[n + 1] \in T
             /\ kept[n + 1] = IF s[n + 1] \in S THEN Append(kept[n], s[n + 1]) ELSE kept[n]
  <2>1. n + 1 \in 1..N /\ (n + 1) - 1 = n /\ n \in 0..N
    BY <1>2, <1>3
  <2> HIDE DEF N
  <2> QED
    BY <1>1, <1>2, <2>1 DEF N
<1>4. Distinct(kept[N])
  <2>1. 0 \in A
    <3>1. ToSet(kept[0]) = {} /\ Len(kept[0]) = 0
      BY <1>1 DEF ToSet
    <3> QED
      BY <3>1 DEF Distinct
  <2>2. ASSUME NEW n \in Nat, n \in A PROVE n + 1 \in A
    <3>1. SUFFICES ASSUME n + 1 <= N PROVE ToSet(kept[n + 1]) \subseteq first(n + 1) /\ Distinct(kept[n + 1])
      OBVIOUS
    <3> DEFINE x == s[n + 1]
    <3>2. ToSet(kept[n]) \subseteq first(n) /\ Distinct(kept[n])
      BY <1>3, <2>2, <3>1
    <3>3. 1..(n + 1) = 1..n \cup {n + 1}
      OBVIOUS
    <3>4. first(n + 1) = first(n) \cup {x}
      BY <3>3
    <3>5. x \notin first(n)
      <4>1. \A i \in 1..n : i \in 1..Len(s) /\ i # n + 1
        BY <1>2, <3>1
      <4>2. n + 1 \in 1..Len(s)
        BY <1>2, <3>1
      <4> QED
        BY <4>1, <4>2 DEF Distinct
    <3>6. kept[n] \in Seq(T) /\ x \in T /\ kept[n + 1] = IF x \in S THEN Append(kept[n], x) ELSE kept[n]
      BY <1>3, <3>1
    <3> HIDE DEF x, first
    <3>7. ToSet(Append(kept[n], x)) = ToSet(kept[n]) \cup {x}
      BY <3>6, AppendFacts
    <3>8. Distinct(Append(kept[n], x))
      BY <3>2, <3>5, <3>6, AppendDistinct
    <3> QED
      BY <3>2, <3>4, <3>6, <3>7, <3>8
  <2> HIDE DEF A
  <2>3. N \in A
    BY <1>2, <2>1, <2>2, NaturalInduction
  <2> QED
    BY <1>2, <2>3 DEF A
<1>5. ASSUME NEW k \in 1..N
      PROVE  \E j \in 1..(Len(kept[N]) + 1) : From(kept[N], j) = part(k, N) \cap S
  <2> DEFINE P == {n \in Nat : n <= N => \E j \in 1..(Len(kept[n]) + 1) : From(kept[n], j) = part(k, n) \cap S}
  <2>1. 0 \in P
    <3>1. Len(kept[0]) = 0 /\ From(kept[0], 1) = {} /\ part(k, 0) = {} /\ 1 \in 1..(0 + 1)
      BY <1>1 DEF From
    <3> QED
      BY <3>1
  <2>2. ASSUME NEW n \in Nat, n \in P PROVE n + 1 \in P
    <3>1. SUFFICES ASSUME n + 1 <= N
                   PROVE  \E j \in 1..(Len(kept[n + 1]) + 1) : From(kept[n + 1], j) = part(k, n + 1) \cap S
      OBVIOUS
    <3> DEFINE x == s[n + 1]
               q == kept[n]
               r == kept[n + 1]
    <3>2. PICK j \in 1..(Len(q) + 1) : From(q, j) = part(k, n) \cap S
      BY <1>3, <2>2, <3>1
    <3>3. q \in Seq(T) /\ x \in T /\ r = IF x \in S THEN Append(q, x) ELSE q
      BY <1>3, <3>1
    <3>4. r \in Seq(T) /\ Len(r) \in Nat
      BY <3>3
    <3>5. CASE k > n + 1
      <4>1. part(k, n + 1) = {} /\ From(r, Len(r) + 1) = {} /\ Len(r) + 1 \in 1..(Len(r) + 1)
        BY <3>4, <3>5 DEF From
      <4> QED
        BY <4>1
    <3>6. CASE k <= n + 1
      <4>1. k..(n + 1) = k..n \cup {n + 1}
        BY <3>6
      <4>2. part(k, n + 1) = part(k, n) \cup {x}
        BY <4>1
      <4> HIDE DEF x, q, part
      <4>3. CASE x \in S
        <5>1. From(r, j) = From(q, j) \cup {x} /\ Len(r) = Len(q) + 1 /\ Len(q) \in Nat
          BY <3>3, <4>3, AppendFrom, AppendFacts
        <5>2. j \in 1..(Len(r) + 1)
          BY <5>1
        <5> QED
          BY <3>2, <4>2, <4>3, <5>1, <5>2
      <4>4. CASE x \notin S
        BY <3>2, <3>3, <4>2, <4>4
      <4> QED
        BY <4>3, <4>4
    <3>7. k \in Nat
      BY <1>2
    <3> HIDE DEF x, q, r, part
    <3> QED
      BY <3>5, <3>6, <3>7
  <2> HIDE DEF P
  <2>3. N \in P
    BY <1>2, <2>1, <2>2, NaturalInduction
  <2> QED
    BY <1>2, <2>3 DEF P
<1>6. \A k \in 1..N : part(k, N) = From(s, k)
  BY DEF From
<1> HIDE DEF part
<1>7. Within(s, S) = kept[N] /\ N = Len(s)
  BY <1>1
<1> HIDE DEF N
<1> QED
  BY <1>4, <1>5, <1>6, <1>7

\* What is left of a sequence from a place on.
LEMMA SuffixFacts ==
  ASSUME NEW T, NEW s \in Seq(T), NEW m \in 1..(Len(s) + 1)
  PROVE  LET r == SubSeq(s, m, Len(s)) IN
         /\ r \in Seq(T) /\ Len(r) = Len(s) + 1 - m
         /\ ToSet(r) = From(s, m)
         /\ Distinct(s) => Distinct(r)
         /\ \A k \in m..(Len(s) + 1) : From(r, k + 1 - m) = From(s, k)
<1> DEFINE n == Len(s)
           r == SubSeq(s, m, n)
           l == n + 1 - m
<1>1. n \in Nat /\ l \in Nat /\ m \in Nat /\ m >= 1 /\ r \in Seq(T) /\ Len(r) = l /\ \A i \in 1..l : r[i] = s[m + i - 1]
  OBVIOUS
<1>2. DOMAIN r = 1..l
  BY <1>1
<1> HIDE DEF r
<1>3. ASSUME NEW k \in m..(n + 1) PROVE From(r, k + 1 - m) = From(s, k)
  <2>1. ASSUME NEW i \in (k + 1 - m)..l PROVE r[i] \in From(s, k)
    <3>1. i \in 1..l /\ m + i - 1 \in k..n
      BY <1>1
    <3> QED
      BY <1>1, <3>1 DEF From
  <2>2. ASSUME NEW i \in k..n PROVE s[i] \in From(r, k + 1 - m)
    <3>1. i + 1 - m \in (k + 1 - m)..l /\ i + 1 - m \in 1..l /\ m + (i + 1 - m) - 1 = i
      BY <1>1
    <3>2. r[i + 1 - m] = s[i]
      BY <1>1, <3>1
    <3> HIDE DEF n, l
    <3> QED
      BY <1>1, <3>1, <3>2 DEF From
  <2> QED
    BY <1>1, <2>1, <2>2 DEF From
<1>4. ToSet(r) = From(s, m)
  <2>1. ToSet(r) = From(r, 1)
    BY <1>1, <1>2 DEF ToSet, From
  <2>2. m \in m..(n + 1) /\ m + 1 - m = 1
    BY <1>1
  <2> QED
    BY <1>3, <2>1, <2>2
<1>5. Distinct(s) => Distinct(r)
  <2> SUFFICES ASSUME Distinct(s), NEW i \in 1..l, NEW j \in 1..l, r[i] = r[j] PROVE i = j
    BY <1>1 DEF Distinct
  <2>1. s[m + i - 1] = s[m + j - 1] /\ m + i - 1 \in 1..n /\ m + j - 1 \in 1..n
    BY <1>1
  <2>2. m + i - 1 = m + j - 1
    BY <2>1 DEF Distinct
  <2> QED
    BY <1>1, <2>2
<1> QED
  BY <1>1, <1>3, <1>4, <1>5 DEF r

-----------------------------------------------------------------------------
(* Concatenation.                                                          *)

LEMMA ConcatFacts ==
  ASSUME NEW T, NEW s \in Seq(T), NEW r \in Seq(T)
  PROVE  /\ s \o r \in Seq(T) /\ Len(s \o r) = Len(s) + Len(r)
         /\ ToSet(s \o r) = ToSet(s) \cup ToSet(r)
<1> DEFINE m == Len(s)
           n == Len(r)
           q == s \o r
<1>1. /\ m \in Nat /\ n \in Nat /\ q \in Seq(T) /\ Len(q) = m + n
      /\ DOMAIN s = 1..m /\ DOMAIN r = 1..n /\ DOMAIN q = 1..(m + n)
      /\ \A i \in 1..m : q[i] = s[i]
      /\ \A i \in 1..n : q[m + i] = r[i]
  OBVIOUS
<1> HIDE DEF m, n, q
<1>2. \A i \in 1..m : i \in 1..(m + n)
  BY <1>1
<1>3. \A i \in 1..n : m + i \in 1..(m + n)
  BY <1>1
<1>4. ASSUME NEW i \in 1..(m + n) PROVE i \in 1..m \/ \E j \in 1..n : i = m + j
  <2>1. i \in 1..m \/ (i - m \in 1..n /\ i = m + (i - m))
    BY <1>1
  <2> QED
    BY <2>1
<1>5. ToSet(s) = {s[i] : i \in 1..m} /\ ToSet(r) = {r[i] : i \in 1..n} /\ ToSet(q) = {q[i] : i \in 1..(m + n)}
  BY <1>1 DEF ToSet
<1>6. ToSet(q) \subseteq ToSet(s) \cup ToSet(r)
  <2> SUFFICES ASSUME NEW i \in 1..(m + n) PROVE q[i] \in ToSet(s) \cup ToSet(r)
    BY <1>5
  <2> QED
    BY <1>1, <1>4, <1>5
<1>7. ToSet(s) \subseteq ToSet(q)
  BY <1>1, <1>2, <1>5
<1>8. ToSet(r) \subseteq ToSet(q)
  BY <1>1, <1>3, <1>5
<1> QED
  BY <1>1, <1>6, <1>7, <1>8 DEF q, m, n

\* FlattenSeq takes all elements of all sequences.
LEMMA FlattenFacts ==
  ASSUME NEW T, NEW ss \in Seq(Seq(T))
  PROVE  /\ FlattenSeq(ss) \in Seq(T)
         /\ ToSet(FlattenSeq(ss)) = UNION {ToSet(ss[k]) : k \in DOMAIN ss}
<1> DEFINE N == Len(ss)
           A == Seq(T)
           none == <<>>
           F == [k \in 1..N |-> [x \in A |-> x \o ss[k]]]
           step(f) == [k \in 1..N |-> IF k = 1 THEN ss[k] ELSE f[k - 1] \o ss[k]]
           flat == CHOOSE f : f = step(f)
<1>1. N \in Nat /\ none \in A /\ DOMAIN ss = 1..N /\ \A k \in 1..N : ss[k] \in A /\ none \o ss[k] = ss[k]
  OBVIOUS
<1>2. \A k \in 1..N, x \in A : x \o ss[k] \in A
  BY <1>1
<1>3. FlattenSeq(ss) = IF N = 0 THEN ss ELSE flat[N]
  BY DEF FlattenSeq
<1>30. N = 0 => ss = none
  OBVIOUS
<1> HIDE DEF N, A, none
<1>4. F \in Steps(N, A)
  BY <1>2 DEF Steps
<1>5. \A k \in 1..N, x \in A : F[k][x] = x \o ss[k]
  OBVIOUS
<1> HIDE DEF F
<1>6. Iterates(N, A, none, F)
  BY <1>1, <1>4, Recursion
<1>7. PICK f \in [0..N -> A] : f[0] = none /\ \A k \in 1..N : f[k] = F[k][f[k - 1]]
  BY <1>6 DEF Iterates, IsIterated
<1>8. \A k \in 1..N : k - 1 \in 0..N /\ k \in 0..N
  BY <1>1
<1>9. \A k \in 1..N : f[k] = f[k - 1] \o ss[k]
  BY <1>5, <1>7, <1>8
<1> DEFINE h == [k \in 1..N |-> f[k]]
<1>10. ASSUME NEW k \in 1..N PROVE h[k] = IF k = 1 THEN ss[k] ELSE h[k - 1] \o ss[k]
  <2>1. h[k] = f[k - 1] \o ss[k]
    BY <1>9
  <2>2. CASE k = 1
    <3>1. f[k - 1] = none
      BY <1>7, <2>2
    <3> QED
      BY <1>1, <2>1, <2>2, <3>1
  <2>3. CASE k # 1
    <3>1. k - 1 \in 1..N
      BY <1>1, <2>3
    <3>2. h[k - 1] = f[k - 1]
      BY <3>1
    <3> QED
      BY <2>1, <2>3, <3>2
  <2> QED
    BY <2>2, <2>3
<1> HIDE DEF flat
<1>11. h = step(h)
  <2>1. h = [k \in 1..N |-> h[k]]
    OBVIOUS
  <2> HIDE DEF h
  <2> QED
    BY <1>10, <2>1
<1>12. flat = step(flat)
  BY <1>11 DEF flat
<1>13. \A k \in 1..N : flat[k] = IF k = 1 THEN ss[k] ELSE flat[k - 1] \o ss[k]
  BY <1>12
<1> HIDE DEF h
<1> DEFINE part(n) == UNION {ToSet(ss[k]) : k \in 1..n}
           P == {n \in Nat : n + 1 <= N => flat[n + 1] \in A /\ ToSet(flat[n + 1]) = part(n + 1)}
<1>14. 0 \in P
  <2>1. SUFFICES ASSUME 1 <= N PROVE flat[1] \in A /\ ToSet(flat[1]) = part(1)
    OBVIOUS
  <2>2. 1 \in 1..N /\ 1..1 = {1}
    BY <1>1, <2>1
  <2> QED
    BY <1>1, <1>13, <2>2
<1>15. ASSUME NEW n \in Nat, n \in P PROVE n + 1 \in P
  <2>1. SUFFICES ASSUME (n + 1) + 1 <= N
                 PROVE  flat[(n + 1) + 1] \in A /\ ToSet(flat[(n + 1) + 1]) = part((n + 1) + 1)
    OBVIOUS
  <2> DEFINE m == n + 1
             x == ss[m + 1]
  <2>2. m + 1 \in 1..N /\ m + 1 # 1 /\ (m + 1) - 1 = m /\ m \in Nat
    BY <1>1, <2>1
  <2>3. flat[m] \in A /\ ToSet(flat[m]) = part(m)
    BY <1>1, <1>15, <2>1
  <2>4. flat[m + 1] = flat[m] \o x /\ x \in A
    BY <1>1, <1>13, <2>2
  <2>5. 1..(m + 1) = 1..m \cup {m + 1}
    BY <2>2
  <2>6. part(m + 1) = part(m) \cup ToSet(x)
    BY <2>5
  <2> HIDE DEF m, x, part
  <2>7. flat[m] \o x \in A /\ ToSet(flat[m] \o x) = ToSet(flat[m]) \cup ToSet(x)
    BY <2>3, <2>4, ConcatFacts DEF A
  <2>8. flat[m + 1] \in A /\ ToSet(flat[m + 1]) = part(m + 1)
    BY <2>3, <2>4, <2>6, <2>7
  <2> QED
    BY <2>8 DEF m
<1> HIDE DEF P
<1>16. Nat \subseteq P
  BY <1>14, <1>15, NaturalInduction
<1>17. CASE N = 0
  <2>1. FlattenSeq(ss) = none /\ none \in A /\ DOMAIN ss = {}
    BY <1>1, <1>3, <1>30, <1>17
  <2>2. ToSet(none) = {}
    BY DEF ToSet, none
  <2> QED
    BY <2>1, <2>2 DEF A
<1>18. CASE N # 0
  <2>1. N - 1 \in Nat /\ (N - 1) + 1 = N /\ N <= N
    BY <1>1, <1>18
  <2>2. flat[N] \in A /\ ToSet(flat[N]) = part(N)
    BY <1>16, <2>1 DEF P
  <2> QED
    BY <1>1, <1>3, <1>18, <2>2 DEF A
<1> QED
  BY <1>17, <1>18

===============================================================================
