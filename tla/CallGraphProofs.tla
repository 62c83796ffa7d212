---------------------------- MODULE CallGraphProofs ----------------------------
(***************************************************************************)
(* The call graph is sound for every program, however its nodes lie in the *)
(* hash map and wherever the construction stands: callers and callees      *)
(* describe the same edges, no edge leads to a node that is gone, and each *)
(* edge is a call by name or one through a pointer into which the function *)
(* flows.  And the calls through pointers of all that is reached are edges *)
(* where each pointer is set and passed on once.                           *)
(***************************************************************************)
EXTENDS CallGraph, SequenceLemmas

-----------------------------------------------------------------------------
(* Lists of functions.                                                     *)

\* NoteOnce keeps each element at one place.
LEMMA NoteOnceFacts ==
  ASSUME NEW T, NEW gs \in Seq(T)
  PROVE  NoteOnce(gs) \in Seq(T) /\ Distinct(NoteOnce(gs)) /\ ToSet(NoteOnce(gs)) = ToSet(gs)
<1> DEFINE N == Len(gs)
           A == {x \in Seq(T) : Distinct(x)}
           none == <<>>
           expr(k, x) == IF gs[k] \in ToSet(x) THEN x ELSE Append(x, gs[k])
           F == [k \in 1..N |-> [x \in A |-> expr(k, x)]]
           step(f) == [k \in 0..N |-> IF k = 0 THEN none ELSE expr(k, f[k - 1])]
           noted == CHOOSE f : f = step(f)
<1>1. N \in Nat /\ none \in A /\ ToSet(none) = {} /\ DOMAIN gs = 1..N /\ \A k \in 1..N : gs[k] \in T
  BY DEF Distinct, ToSet
<1>2. \A k \in 1..N, x \in A : expr(k, x) \in A /\ ToSet(expr(k, x)) = ToSet(x) \cup {gs[k]}
  <2> TAKE k \in 1..N, x \in A
  <2>1. CASE gs[k] \in ToSet(x)
    BY <2>1
  <2>2. CASE gs[k] \notin ToSet(x)
    BY <1>1, <2>2, AppendFacts, AppendDistinct
  <2> QED
    BY <2>1, <2>2
<1>3. NoteOnce(gs) = noted[N]
  BY DEF NoteOnce
<1>4. A \subseteq Seq(T) /\ \A x \in A : Distinct(x)
  OBVIOUS
<1>5. \A k \in 0..N : k # 0 => k \in 1..N
  BY <1>1
<1>6. \A k \in 1..N : k - 1 \in 0..N /\ k \in 0..N /\ k # 0
  BY <1>1
<1>7. 0 \in 0..N /\ N \in 0..N
  BY <1>1
<1> HIDE DEF N, A, none, expr
<1>8. F \in Steps(N, A) /\ \A k \in 1..N, x \in A : F[k][x] = expr(k, x)
  BY <1>2 DEF Steps
<1> HIDE DEF F
<1>9. PICK f \in [0..N -> A] : f[0] = none /\ \A k \in 1..N : f[k] = F[k][f[k - 1]]
  BY <1>1, <1>8, Recursion DEF Iterates, IsIterated
<1>10. \A k \in 0..N : f[k] = IF k = 0 THEN none ELSE expr(k, f[k - 1])
  BY <1>5, <1>6, <1>8, <1>9
<1>11. f = step(f)
  BY <1>10
<1>12. noted = step(noted)
  BY <1>11
<1> HIDE DEF noted
<1>13. noted[0] = none /\ \A k \in 1..N : noted[k] = expr(k, noted[k - 1])
  BY <1>6, <1>7, <1>12
<1> DEFINE first(k) == {gs[j] : j \in 1..k}
           P == {k \in 0..N : noted[k] \in A /\ ToSet(noted[k]) = first(k)}
<1>14. 0 \in P
  <2>1. 1..0 = {}
    OBVIOUS
  <2> QED
    BY <1>1, <1>7, <1>13, <2>1
<1>15. ASSUME NEW k \in 1..N, k - 1 \in P PROVE k \in P
  <2>1. 1..k = 1..(k - 1) \cup {k} /\ k \in 0..N
    BY <1>1
  <2>2. first(k) = first(k - 1) \cup {gs[k]}
    BY <2>1
  <2> HIDE DEF first
  <2> QED
    BY <1>2, <1>13, <1>15, <2>1, <2>2
<1> HIDE DEF P
<1>16. N \in P
  BY <1>1, <1>7, <1>14, <1>15, BoundedInduction
<1>17. first(N) = ToSet(gs)
  BY <1>1 DEF ToSet
<1> QED
  BY <1>3, <1>4, <1>16, <1>17 DEF P

\* A list with elements is not empty.
LEMMA EmptyList ==
  ASSUME NEW T, NEW s \in Seq(T)
  PROVE  s = <<>> <=> ToSet(s) = {}
<1>1. Len(s) \in Nat /\ DOMAIN s = 1..Len(s)
  OBVIOUS
<1>2. s # <<>> => 1 \in DOMAIN s
  OBVIOUS
<1>3. s = <<>> => DOMAIN s = {}
  OBVIOUS
<1>4. ToSet(s) = {s[k] : k \in DOMAIN s}
  BY DEF ToSet
<1> QED
  BY <1>2, <1>3, <1>4

\* What Occurs counts is finite.
LEMMA OccursFacts ==
  ASSUME NEW T, NEW s \in Seq(T), NEW g
  PROVE  /\ IsFiniteSet({k \in DOMAIN s : s[k] = g}) /\ Occurs(g, s) \in Nat
         /\ Occurs(g, s) = 0 <=> g \notin ToSet(s)
<1> DEFINE at == {k \in DOMAIN s : s[k] = g}
<1>1. Len(s) \in Nat /\ DOMAIN s = 1..Len(s)
  OBVIOUS
<1>2. IsFiniteSet(1..Len(s)) /\ at \in SUBSET (1..Len(s))
  BY <1>1, FS_Interval
<1>3. IsFiniteSet(at)
  BY <1>2, FS_Subset
<1>4. Cardinality(at) \in Nat /\ (Cardinality(at) = 0 <=> at = {})
  BY <1>3, FS_CardinalityType, FS_EmptySet
<1>5. at = {} <=> g \notin ToSet(s)
  BY DEF ToSet
<1> QED
  BY <1>3, <1>4, <1>5 DEF Occurs

\* Behind another list each of its elements occurs once more.
LEMMA OccursConcat ==
  ASSUME NEW T, NEW s \in Seq(T), NEW r \in Seq(T), Distinct(r), NEW g
  PROVE  Occurs(g, s \o r) = Occurs(g, s) + (IF g \in ToSet(r) THEN 1 ELSE 0)
<1> DEFINE m == Len(s)
           n == Len(r)
           q == s \o r
           old == {k \in DOMAIN s : s[k] = g}
           new == {k \in DOMAIN q : q[k] = g}
<1>1. /\ m \in Nat /\ n \in Nat /\ DOMAIN s = 1..m /\ DOMAIN r = 1..n /\ DOMAIN q = 1..(m + n)
      /\ \A k \in 1..m : q[k] = s[k]
      /\ \A k \in 1..n : q[m + k] = r[k]
  OBVIOUS
<1>2. IsFiniteSet(old) /\ Cardinality(old) \in Nat /\ Cardinality(old) = Occurs(g, s) /\ Cardinality(new) = Occurs(g, q)
  BY OccursFacts, FS_CardinalityType DEF Occurs
<1>20. /\ \A k : k \in old <=> k \in 1..m /\ s[k] = g
       /\ \A k : k \in new <=> k \in 1..(m + n) /\ q[k] = g
  BY <1>1
<1> HIDE DEF q, m, n, old, new
<1>3. /\ \A k \in 1..(m + n) : k \in 1..m \/ (k - m \in 1..n /\ m + (k - m) = k)
      /\ \A k \in 1..n : m + k \in 1..(m + n) /\ m + k \notin 1..m
      /\ 1..m \subseteq 1..(m + n)
  BY <1>1
<1>4. CASE g \in ToSet(r)
  <2>1. PICK i \in 1..n : r[i] = g
    BY <1>1, <1>4 DEF ToSet
  <2>2. \A j \in 1..n : r[j] = g => j = i
    BY <2>1 DEF Distinct, n
  <2>3. new = old \cup {m + i}
    <3>1. ASSUME NEW k \in new, k \notin 1..m PROVE k = m + i
      <4>1. k \in 1..(m + n) /\ q[k] = g
        BY <1>20
      <4>2. k - m \in 1..n /\ m + (k - m) = k
        BY <1>3, <3>1, <4>1
      <4>3. q[m + (k - m)] = r[k - m]
        BY <1>1, <4>2
      <4> QED
        BY <2>2, <4>1, <4>2, <4>3
    <3>2. \A k \in 1..m : k \in new <=> k \in old
      BY <1>1, <1>3, <1>20
    <3>3. m + i \in new /\ \A k \in old : k \in 1..m
      BY <1>1, <1>3, <1>20, <2>1
    <3>4. \A k : k \in new <=> k \in old \cup {m + i}
      BY <3>1, <3>2, <3>3
    <3> QED
      BY <3>4
  <2>4. m + i \notin old
    BY <1>3, <1>20
  <2>5. Cardinality(new) = Cardinality(old) + 1
    BY <1>2, <2>3, <2>4, FS_AddElement
  <2> QED
    BY <1>2, <1>4, <2>5 DEF q
<1>5. CASE g \notin ToSet(r)
  <2>1. \A j \in 1..n : r[j] # g
    BY <1>1, <1>5 DEF ToSet
  <2>2. new = old
    <3>1. ASSUME NEW k \in new PROVE k \in 1..m
      <4>1. k \in 1..(m + n) /\ q[k] = g
        BY <1>20
      <4>2. CASE k - m \in 1..n /\ m + (k - m) = k
        <5>1. q[m + (k - m)] = r[k - m]
          BY <1>1, <4>2
        <5> QED
          BY <2>1, <4>1, <4>2, <5>1
      <4> QED
        BY <1>3, <4>1, <4>2
    <3>2. \A k \in 1..m : k \in new <=> k \in old
      BY <1>1, <1>3, <1>20
    <3>3. \A k : k \in new <=> k \in old
      BY <1>20, <3>1, <3>2
    <3> QED
      BY <3>3
  <2> QED
    BY <1>2, <1>5, <2>2 DEF q
<1> QED
  BY <1>4, <1>5

LEMMA OccursAppend ==
  ASSUME NEW T, NEW s \in Seq(T), NEW x \in T, NEW g
  PROVE  Occurs(g, Append(s, x)) = Occurs(g, s) + (IF g = x THEN 1 ELSE 0)
<1> DEFINE one == <<x>>
<1>1. one \in Seq(T) /\ Distinct(one) /\ ToSet(one) = {x} /\ Append(s, x) = s \o one
  BY DEF Distinct, ToSet
<1> HIDE DEF one
<1> QED
  BY <1>1, OccursConcat

\* Two lists without repetition that share nothing make one.
LEMMA ConcatDistinct ==
  ASSUME NEW T, NEW s \in Seq(T), NEW r \in Seq(T), Distinct(s), Distinct(r), ToSet(s) \cap ToSet(r) = {}
  PROVE  Distinct(s \o r)
<1> DEFINE m == Len(s)
           n == Len(r)
           q == s \o r
<1>1. /\ m \in Nat /\ n \in Nat /\ DOMAIN s = 1..m /\ DOMAIN r = 1..n /\ Len(q) = m + n
      /\ \A k \in 1..m : q[k] = s[k]
      /\ \A k \in 1..n : q[m + k] = r[k]
  OBVIOUS
<1>2. \A i \in 1..m, j \in 1..n : s[i] # r[j]
  BY <1>1 DEF ToSet
<1>3. /\ \A i, j \in 1..m : s[i] = s[j] => i = j
      /\ \A i, j \in 1..n : r[i] = r[j] => i = j
  BY DEF Distinct
<1> HIDE DEF q, m, n
<1>4. SUFFICES ASSUME NEW i \in 1..(m + n), NEW j \in 1..(m + n), q[i] = q[j] PROVE i = j
  BY <1>1 DEF Distinct, q
<1>5. \A k \in 1..(m + n) : k \in 1..m \/ (k - m \in 1..n /\ m + (k - m) = k)
  BY <1>1
<1>6. CASE i \in 1..m /\ j \in 1..m
  BY <1>1, <1>3, <1>4, <1>6
<1>7. CASE i \in 1..m /\ j - m \in 1..n /\ m + (j - m) = j
  BY <1>1, <1>2, <1>4, <1>7
<1>8. CASE j \in 1..m /\ i - m \in 1..n /\ m + (i - m) = i
  BY <1>1, <1>2, <1>4, <1>8
<1>9. CASE i - m \in 1..n /\ m + (i - m) = i /\ j - m \in 1..n /\ m + (j - m) = j
  <2>1. q[i] = r[i - m] /\ q[j] = r[j - m]
    BY <1>1, <1>9
  <2> QED
    BY <1>3, <1>4, <1>9, <2>1
<1> QED
  BY <1>5, <1>6, <1>7, <1>8, <1>9

\* What Tail leaves of a list without repetition.
LEMMA TailFacts ==
  ASSUME NEW T, NEW s \in Seq(T), s # <<>>
  PROVE  /\ Head(s) \in T /\ Head(s) \in ToSet(s) /\ Tail(s) \in Seq(T)
         /\ ToSet(s) = {Head(s)} \cup ToSet(Tail(s))
         /\ Distinct(s) => Distinct(Tail(s)) /\ Head(s) \notin ToSet(Tail(s))
<1> DEFINE n == Len(s)
           t == Tail(s)
<1>1. /\ n \in Nat /\ n >= 1 /\ DOMAIN s = 1..n /\ Head(s) = s[1] /\ s[1] \in T /\ t \in Seq(T)
      /\ Len(t) = n - 1 /\ DOMAIN t = 1..(n - 1) /\ \A k \in 1..(n - 1) : t[k] = s[k + 1]
  OBVIOUS
<1>10. /\ \A x : x \in ToSet(s) <=> \E k \in 1..n : x = s[k]
       /\ \A x : x \in ToSet(t) <=> \E k \in 1..(n - 1) : x = t[k]
  BY <1>1 DEF ToSet
<1> HIDE DEF n, t
<1>2. /\ \A k \in 1..(n - 1) : k + 1 \in 1..n /\ k + 1 # 1
      /\ \A k \in 1..n : k = 1 \/ (k - 1 \in 1..(n - 1) /\ (k - 1) + 1 = k)
      /\ 1 \in 1..n
  BY <1>1
<1>3. ASSUME NEW x \in ToSet(s) PROVE x = s[1] \/ x \in ToSet(t)
  <2>1. PICK k \in 1..n : x = s[k]
    BY <1>10
  <2>2. CASE k # 1
    <3>1. k - 1 \in 1..(n - 1) /\ (k - 1) + 1 = k
      BY <1>2, <2>2
    <3>2. t[k - 1] = s[(k - 1) + 1]
      BY <1>1, <3>1
    <3> QED
      BY <1>10, <2>1, <3>1, <3>2
  <2> QED
    BY <2>1, <2>2
<1>4. s[1] \in ToSet(s) /\ \A x : x \in ToSet(t) => x \in ToSet(s)
  BY <1>1, <1>2, <1>10
<1>5. ASSUME Distinct(s) PROVE Distinct(t) /\ s[1] \notin ToSet(t)
  <2>1. \A i, j \in 1..n : s[i] = s[j] => i = j
    BY <1>5 DEF Distinct, n
  <2>2. s[1] \notin ToSet(t)
    BY <1>1, <1>2, <1>10, <2>1
  <2>3. \A i, j \in 1..(n - 1) : t[i] = t[j] => i + 1 = j + 1
    BY <1>1, <1>2, <2>1
  <2>4. \A i, j \in 1..(n - 1) : i + 1 = j + 1 => i = j
    BY <1>1
  <2> QED
    BY <1>1, <2>2, <2>3, <2>4 DEF Distinct
<1> QED
  BY <1>1, <1>3, <1>4, <1>5 DEF t

-----------------------------------------------------------------------------
(* What flows into a pointer.                                              *)

Cells == Function \X Pointer

\* The parts of a program.
LEMMA BodyFacts ==
  ASSUME program \in Programs, NEW f \in Function
  PROVE  /\ BodyOf(f) \in Seq(Stmt) /\ DOMAIN BodyOf(f) = 1..Len(BodyOf(f))
         /\ \A k \in DOMAIN BodyOf(f) : IsStmt(program, BodyOf(f)[k])
<1>1. program.body[f] # Null => program.body[f] \in Seq(Stmt) /\ \A k \in DOMAIN program.body[f] : IsStmt(program, program.body[f][k])
  BY ProgramsAssumption DEF IsProgram
<1>2. CASE program.body[f] = Null
  BY <1>2 DEF BodyOf
<1>3. CASE program.body[f] # Null
  <2> DEFINE body == program.body[f]
  <2>1. BodyOf(f) = body /\ body \in Seq(Stmt) /\ \A k \in DOMAIN body : IsStmt(program, body[k])
    BY <1>1, <1>3 DEF BodyOf
  <2> HIDE DEF body
  <2>2. DOMAIN body = 1..Len(body)
    BY <2>1
  <2> QED
    BY <2>1, <2>2
<1> QED
  BY <1>2, <1>3

LEMMA ParamFacts ==
  ASSUME program \in Programs, NEW g \in Function
  PROVE  /\ program.params[g] \in Seq(Pointer) /\ program.declared[g] \in Seq(Pointer)
         /\ Len(program.declared[g]) = Len(program.params[g])
         /\ DOMAIN program.params[g] = 1..Len(program.params[g])
         /\ program.default[g] \in [1..Len(program.params[g]) -> SUBSET Function]
<1>1. /\ program.params[g] \in Seq(Pointer)
      /\ program.declared[g] \in [DOMAIN program.params[g] -> Pointer]
      /\ program.default[g] \in [DOMAIN program.params[g] -> SUBSET Function]
  BY ProgramsAssumption DEF IsProgram
<1> DEFINE n == Len(program.params[g])
<1>2. n \in Nat /\ DOMAIN program.params[g] = 1..n
  BY <1>1
<1>3. PICK d : d = program.declared[g]
  OBVIOUS
<1>4. d \in [1..n -> Pointer]
  BY <1>1, <1>2, <1>3
<1> HIDE DEF n
<1>5. d \in Seq(Pointer) /\ Len(d) = n
  BY <1>2, <1>4
<1> QED
  BY <1>1, <1>2, <1>3, <1>5 DEF n

\* What a statement puts into a pointer are functions and pointers.
LEMMA FeedsFacts ==
  ASSUME program \in Programs, NEW all \in BOOLEAN, NEW f \in Function, NEW k \in DOMAIN BodyOf(f),
         NEW g \in Function, NEW v \in Pointer
  PROVE  Feeds(all, f, BodyOf(f)[k], g, v) \subseteq Function \cup Pointer
<1>1. PICK s : s = BodyOf(f)[k]
  OBVIOUS
<1>2. IsStmt(program, s)
  BY <1>1, BodyFacts
<1>3. s \in Stmt /\ s.from \in Seq(Seq(Function \cup Pointer)) /\ (s.kind = "set" => s.from # <<>>)
  BY <1>2 DEF IsStmt, Stmt
<1>4. CASE s.kind = "set" /\ f = g /\ s.to = v
  <2>1. s.from[1] \in Seq(Function \cup Pointer)
    BY <1>3, <1>4
  <2>2. ToSet(s.from[1]) \subseteq Function \cup Pointer
    BY <2>1 DEF ToSet
  <2> QED
    BY <1>1, <1>4, <2>2 DEF Feeds, PassingCall
<1>5. CASE s.kind \in {"call", "lambda", "construct"} /\ s.to = g
  <2> DEFINE given == Within(s.from, ToSet(s.from) \ {<<>>})
             D == {j \in DOMAIN program.params[g] : v \in {program.params[g][j], program.declared[g][j]}}
             fed(i) == (IF i \in DOMAIN given THEN ToSet(given[i]) ELSE {})
                     \cup (IF all \/ i \notin DOMAIN given THEN program.default[g][i] ELSE {})
  <2>1. given \in Seq(Seq(Function \cup Pointer))
    BY <1>3, WithinFacts
  <2> HIDE DEF given
  <2>2. ASSUME NEW i \in DOMAIN given PROVE ToSet(given[i]) \subseteq Function \cup Pointer
    <3>1. given[i] \in Seq(Function \cup Pointer)
      BY <2>1
    <3> QED
      BY <3>1 DEF ToSet
  <2>3. \A i \in D : program.default[g][i] \subseteq Function
    BY ParamFacts
  <2>4. \A i \in D : fed(i) \subseteq Function \cup Pointer
    BY <2>2, <2>3
  <2>5. Feeds(all, f, s, g, v) = UNION {fed(i) : i \in D}
    BY <1>5 DEF Feeds, PassingCall, given
  <2> HIDE DEF D, fed
  <2>6. UNION {fed(i) : i \in D} \subseteq Function \cup Pointer
    BY <2>4
  <2> QED
    BY <1>1, <2>5, <2>6
<1>6. CASE ~(s.kind = "set" /\ f = g /\ s.to = v) /\ ~(s.kind \in {"call", "lambda", "construct"} /\ s.to = g)
  BY <1>1, <1>6 DEF Feeds, PassingCall
<1> QED
  BY <1>4, <1>5, <1>6

\* What e of function f stands for: a function itself, or what a pointer has.
Yields(F, f, e, h) == IF e \in Function THEN h = e ELSE h \in F[<<f, e>>]

\* A function flows on to a pointer directly or from another pointer that has it.
LEMMA FlowOnFacts ==
  ASSUME program \in Programs, NEW all \in BOOLEAN, NEW F \in [Cells -> SUBSET Function], NEW at \in Cells
  PROVE  /\ FlowOn(all, F, at) \subseteq Function
         /\ \A h : h \in FlowOn(all, F, at) <=>
              \E f \in Function : \E k \in DOMAIN BodyOf(f) : \E e \in Feeds(all, f, BodyOf(f)[k], at[1], at[2]) :
                Yields(F, f, e, h)
<1>1. at[1] \in Function /\ at[2] \in Pointer
  BY DEF Cells
<1> DEFINE fed(f, k) == Feeds(all, f, BodyOf(f)[k], at[1], at[2])
           of(f, e) == IF e \in Function THEN {e} ELSE F[<<f, e>>]
           by(f, k) == UNION {of(f, e) : e \in fed(f, k)}
           from(f) == UNION {by(f, k) : k \in DOMAIN BodyOf(f)}
<1>20. FlowOn(all, F, at) = UNION {from(f) : f \in Function}
  BY DEF FlowOn
<1>21. \A f, e, h : h \in of(f, e) <=> Yields(F, f, e, h)
  BY DEF Yields
<1> HIDE DEF fed, of
<1>22. \A f, k, h : h \in by(f, k) <=> \E e \in fed(f, k) : h \in of(f, e)
  OBVIOUS
<1> HIDE DEF by
<1>23. \A f, h : h \in from(f) <=> \E k \in DOMAIN BodyOf(f) : h \in by(f, k)
  OBVIOUS
<1> HIDE DEF from
<1>24. \A h : h \in FlowOn(all, F, at) <=> \E f \in Function : h \in from(f)
  BY <1>20
<1>2. \A h : h \in FlowOn(all, F, at) <=>
        \E f \in Function : \E k \in DOMAIN BodyOf(f) : \E e \in fed(f, k) : h \in of(f, e)
  BY <1>22, <1>23, <1>24
<1>3. \A h : h \in FlowOn(all, F, at) <=>
        \E f \in Function : \E k \in DOMAIN BodyOf(f) : \E e \in Feeds(all, f, BodyOf(f)[k], at[1], at[2]) :
          Yields(F, f, e, h)
  BY <1>2, <1>21 DEF fed
<1>4. ASSUME NEW h \in FlowOn(all, F, at) PROVE h \in Function
  <2>1. PICK f \in Function : \E k \in DOMAIN BodyOf(f) : \E e \in Feeds(all, f, BodyOf(f)[k], at[1], at[2]) :
          Yields(F, f, e, h)
    BY <1>3, <1>4
  <2>2. PICK k \in DOMAIN BodyOf(f) : \E e \in Feeds(all, f, BodyOf(f)[k], at[1], at[2]) :
          Yields(F, f, e, h)
    BY <2>1
  <2>3. PICK e \in Feeds(all, f, BodyOf(f)[k], at[1], at[2]) : Yields(F, f, e, h)
    BY <2>2
  <2>4. e \in Function \cup Pointer
    BY <1>1, <2>3, FeedsFacts
  <2>5. CASE e \in Function
    BY <2>3, <2>5 DEF Yields
  <2>6. CASE e \notin Function
    <3>1. <<f, e>> \in Cells /\ h \in F[<<f, e>>]
      BY <2>3, <2>4, <2>6 DEF Cells, Yields
    <3> QED
      BY <3>1
  <2> QED
    BY <2>5, <2>6
<1> QED
  BY <1>3, <1>4

\* By rounds: once a function h flows into no further pointer in one round, it does in none
\* that follow; and there are no more rounds than pointers.
LEMMA RoundsSuffice ==
  ASSUME program \in Programs, NEW N, N = Cardinality(Function) * Cardinality(Pointer),
         NEW F \in [0..N -> [Cells -> SUBSET Function]], F[0] = [at \in Cells |-> {}],
         \A k \in 1..N : F[k] = [at \in Cells |-> F[k - 1][at] \cup FlowOn(TRUE, F[k - 1], at)],
         NEW at \in Cells
  PROVE  FlowOn(TRUE, F[N], at) \subseteq F[N][at]
<1>1. /\ IsFiniteSet(Function) /\ IsFiniteSet(Pointer) /\ IsFiniteSet(Cells) /\ Cardinality(Cells) = N
      /\ N \in Nat /\ Function \cap Pointer = {}
  BY ProgramsAssumption, FS_Product, FS_CardinalityType DEF Cells
<1>2. SUFFICES ASSUME NEW h \in FlowOn(TRUE, F[N], at) PROVE h \in F[N][at]
  OBVIOUS
<1>3. N \in 0..N /\ F[N] \in [Cells -> SUBSET Function]
  BY <1>1
<1>4. h \in Function
  BY <1>2, <1>3, FlowOnFacts
<1> DEFINE enters(S, x) == \E f \in Function : \E k \in DOMAIN BodyOf(f) : \E e \in Feeds(TRUE, f, BodyOf(f)[k], x[1], x[2]) :
                             IF e \in Function THEN h = e ELSE <<f, e>> \in S
           next(S) == S \cup {x \in Cells : enters(S, x)}
           having(G) == {x \in Cells : h \in G[x]}
           C(k) == having(F[k])
<1>5. ASSUME NEW G \in [Cells -> SUBSET Function], NEW x \in Cells
      PROVE  h \in FlowOn(TRUE, G, x) <=> enters(having(G), x)
  <2>1. x[1] \in Function /\ x[2] \in Pointer
    BY DEF Cells
  <2>2. ASSUME NEW f \in Function, NEW k \in DOMAIN BodyOf(f), NEW e \in Feeds(TRUE, f, BodyOf(f)[k], x[1], x[2])
        PROVE  Yields(G, f, e, h) <=> IF e \in Function THEN h = e ELSE <<f, e>> \in having(G)
    <3>1. e \in Function \cup Pointer
      BY <2>1, FeedsFacts
    <3>2. CASE e \in Function
      BY <3>2 DEF Yields
    <3>3. CASE e \notin Function
      <4>1. <<f, e>> \in Cells
        BY <3>1, <3>3 DEF Cells
      <4> QED
        BY <3>3, <4>1 DEF Yields
    <3> QED
      BY <3>2, <3>3
  <2>3. h \in FlowOn(TRUE, G, x) <=>
          \E f \in Function : \E k \in DOMAIN BodyOf(f) : \E e \in Feeds(TRUE, f, BodyOf(f)[k], x[1], x[2]) : Yields(G, f, e, h)
    BY FlowOnFacts
  <2> HIDE DEF having
  <2> QED
    BY <2>2, <2>3
<1> HIDE DEF enters
<1>6. ASSUME NEW k \in 1..N PROVE C(k) = next(C(k - 1)) /\ C(k - 1) \subseteq Cells
  <2>1. k - 1 \in 0..N /\ F[k - 1] \in [Cells -> SUBSET Function]
    BY <1>1
  <2>2. \A x \in Cells : h \in F[k][x] <=> h \in F[k - 1][x] \/ h \in FlowOn(TRUE, F[k - 1], x)
    <3>1. PICK G : G = F[k - 1]
      OBVIOUS
    <3>2. F[k] = [y \in Cells |-> G[y] \cup FlowOn(TRUE, G, y)]
      BY <3>1
    <3>3. \A x \in Cells : F[k][x] = G[x] \cup FlowOn(TRUE, G, x)
      BY <3>2
    <3> QED
      BY <3>1, <3>3
  <2>3. \A x \in Cells : h \in FlowOn(TRUE, F[k - 1], x) <=> enters(C(k - 1), x)
    BY <1>5, <2>1
  <2> QED
    BY <2>2, <2>3
<1>7. \A S : S \subseteq Cells => next(S) \subseteq Cells /\ S \subseteq next(S) /\ IsFiniteSet(S) /\ IsFiniteSet(next(S))
  BY <1>1, FS_Subset
<1> DEFINE P == {k \in 0..N : next(C(k)) = C(k) \/ Cardinality(C(k)) >= k}
<1>8. \A k \in 0..N : C(k) \subseteq Cells /\ IsFiniteSet(C(k)) /\ Cardinality(C(k)) \in Nat
  BY <1>1, FS_Subset, FS_CardinalityType
<1>9. C(N) \subseteq Cells /\ (at \in C(N) => h \in F[N][at])
  OBVIOUS
<1>10. enters(C(N), at)
  BY <1>2, <1>3, <1>5
<1> HIDE DEF C
<1>11. at \in next(C(N))
  BY <1>10
<1> HIDE DEF next
<1>12. 0 \in P
  BY <1>1, <1>8
<1>13. ASSUME NEW k \in 1..N, k - 1 \in P PROVE k \in P
  <2>1. k \in 0..N /\ k - 1 \in 0..N
    BY <1>1
  <2>2. CASE next(C(k - 1)) = C(k - 1)
    BY <1>6, <2>1, <2>2
  <2>3. CASE next(C(k - 1)) # C(k - 1)
    <3>1. Cardinality(C(k - 1)) >= k - 1
      BY <1>13, <2>3
    <3>2. C(k - 1) \subseteq C(k) /\ C(k - 1) # C(k)
      BY <1>6, <1>7, <2>3
    <3>3. Cardinality(C(k - 1)) <= Cardinality(C(k)) /\ Cardinality(C(k - 1)) # Cardinality(C(k))
      BY <1>8, <2>1, <3>2, FS_Subset
    <3>4. PICK i, j : i = Cardinality(C(k - 1)) /\ j = Cardinality(C(k)) /\ i \in Nat /\ j \in Nat
      BY <1>8, <2>1
    <3>5. i >= k - 1 /\ i <= j /\ i # j
      BY <3>1, <3>3, <3>4
    <3>6. j >= k
      BY <1>1, <3>4, <3>5
    <3> QED
      BY <2>1, <3>4, <3>6
  <2> QED
    BY <2>2, <2>3
<1> HIDE DEF P
<1>14. N \in P
  BY <1>1, <1>3, <1>12, <1>13, BoundedInduction
<1>15. next(C(N)) = C(N)
  <2>1. CASE Cardinality(C(N)) >= N
    <3>1. Cardinality(C(N)) <= N /\ Cardinality(C(N)) \in Nat
      BY <1>1, <1>3, <1>8, FS_Subset
    <3>2. Cardinality(C(N)) = Cardinality(Cells)
      BY <1>1, <2>1, <3>1
    <3>3. C(N) = Cells
      BY <1>1, <1>9, <3>2, FS_Subset
    <3> QED
      BY <1>7, <3>3
  <2> QED
    BY <1>14, <2>1 DEF P
<1> QED
  BY <1>9, <1>11, <1>15

IsRounds(all, F, N) ==
  /\ F \in [0..N -> [Cells -> SUBSET Function]] /\ F[0] = [at \in Cells |-> {}]
  /\ \A k \in 1..N : F[k] = [at \in Cells |-> F[k - 1][at] \cup FlowOn(all, F[k - 1], at)]

\* Flows is what the last of its rounds has.
LEMMA FlowRounds ==
  ASSUME program \in Programs, NEW all \in BOOLEAN, NEW N, N = Cardinality(Function) * Cardinality(Pointer)
  PROVE  \E F : IsRounds(all, F, N) /\ Flows(all) = F[N]
<1> DEFINE A == [Cells -> SUBSET Function]
           none == [at \in Cells |-> {}]
           expr(k, x) == [at \in Cells |-> x[at] \cup FlowOn(all, x, at)]
           F == [k \in 1..N |-> [x \in A |-> expr(k, x)]]
           step(f) == [k \in 0..N |-> IF k = 0 THEN none ELSE expr(k, f[k - 1])]
           flow == CHOOSE f : f = step(f)
<1>1. N \in Nat /\ none \in A
  BY ProgramsAssumption, FS_CardinalityType
<1>2. \A k \in 1..N, x \in A : expr(k, x) \in A
  BY FlowOnFacts
<1>3. Flows(all) = flow[N]
  BY DEF Flows, Cells
<1>4. \A k, x : expr(k, x) = [at \in Cells |-> x[at] \cup FlowOn(all, x, at)]
  OBVIOUS
<1>5. \A k \in 0..N : k # 0 => k \in 1..N
  BY <1>1
<1>6. \A k \in 1..N : k - 1 \in 0..N /\ k \in 0..N /\ k # 0
  BY <1>1
<1>7. 0 \in 0..N /\ N \in 0..N
  BY <1>1
<1> HIDE DEF A, none, expr
<1>8. F \in Steps(N, A) /\ \A k \in 1..N, x \in A : F[k][x] = expr(k, x)
  BY <1>2 DEF Steps
<1> HIDE DEF F
<1>9. PICK f \in [0..N -> A] : f[0] = none /\ \A k \in 1..N : f[k] = F[k][f[k - 1]]
  BY <1>1, <1>8, Recursion DEF Iterates, IsIterated
<1>10. \A k \in 0..N : f[k] = IF k = 0 THEN none ELSE expr(k, f[k - 1])
  BY <1>5, <1>6, <1>8, <1>9
<1>11. f = step(f)
  BY <1>10
<1>12. flow = step(flow)
  BY <1>11
<1> HIDE DEF flow
<1>13. flow[0] = none /\ \A k \in 1..N : flow[k] = expr(k, flow[k - 1])
  BY <1>6, <1>7, <1>12
<1> DEFINE P == {k \in 0..N : flow[k] \in A}
<1>14. 0 \in P
  BY <1>1, <1>7, <1>13
<1>15. ASSUME NEW k \in 1..N, k - 1 \in P PROVE k \in P
  BY <1>2, <1>6, <1>13, <1>15
<1> HIDE DEF P
<1>16. 0..N \subseteq P
  BY <1>1, <1>14, <1>15, BoundedInduction
<1>17. flow \in [0..N -> A]
  BY <1>12, <1>16 DEF P
<1>18. flow \in [0..N -> [Cells -> SUBSET Function]] /\ flow[0] = [at \in Cells |-> {}]
  BY <1>13, <1>17 DEF A, none
<1>19. \A k \in 1..N : flow[k] = [at \in Cells |-> flow[k - 1][at] \cup FlowOn(all, flow[k - 1], at)]
  BY <1>4, <1>13
<1>20. IsRounds(all, flow, N)
  BY <1>18, <1>19 DEF IsRounds
<1> QED
  BY <1>3, <1>20

\* What flows into the pointers is a fixed point: nothing flows on.
LEMMA FlowsFacts ==
  ASSUME program \in Programs
  PROVE  /\ Flows(TRUE) \in [Cells -> SUBSET Function]
         /\ \A at \in Cells : FlowOn(TRUE, Flows(TRUE), at) \subseteq Flows(TRUE)[at]
<1> DEFINE N == Cardinality(Function) * Cardinality(Pointer)
<1>1. PICK F : IsRounds(TRUE, F, N) /\ Flows(TRUE) = F[N]
  BY FlowRounds
<1> HIDE DEF N
<1>2. N \in 0..N
  BY ProgramsAssumption, FS_CardinalityType DEF N
<1>3. \A at \in Cells : FlowOn(TRUE, F[N], at) \subseteq F[N][at]
  BY <1>1, RoundsSuffice DEF IsRounds, N
<1>4. F[N] \in [Cells -> SUBSET Function]
  BY <1>1, <1>2 DEF IsRounds
<1>5. Flows(TRUE) = F[N]
  BY <1>1
<1> QED
  BY <1>3, <1>4, <1>5

-----------------------------------------------------------------------------
(* The pass over the statements of a function knows of a pointer only what *)
(* flows into it.                                                          *)

\* Such knowledge.
Fitting == {known \in UNION {[D -> SUBSET Function] : D \in SUBSET Cells} :
              \A at \in DOMAIN known : known[at] \subseteq Flows(TRUE)[at]}

\* What e of function f stands for flows into the pointer v of g.
Flowing(f, e, g, v) ==
  IF e \in Function THEN e \in Flows(TRUE)[<<g, v>>] ELSE Flows(TRUE)[<<f, e>>] \subseteq Flows(TRUE)[<<g, v>>]

LEMMA FedFlows ==
  ASSUME program \in Programs, NEW f \in Function, NEW k \in DOMAIN BodyOf(f), NEW g \in Function, NEW v \in Pointer,
         NEW e \in Feeds(TRUE, f, BodyOf(f)[k], g, v)
  PROVE  Flowing(f, e, g, v)
<1> DEFINE fl == Flows(TRUE)
           at == <<g, v>>
<1>1. /\ fl \in [Cells -> SUBSET Function] /\ at \in Cells /\ at[1] = g /\ at[2] = v
      /\ FlowOn(TRUE, fl, at) \subseteq fl[at]
  BY FlowsFacts DEF Cells
<1> HIDE DEF fl, at
<1>2. ASSUME NEW h, Yields(fl, f, e, h) PROVE h \in fl[at]
  <2>1. h \in FlowOn(TRUE, fl, at)
    BY <1>1, <1>2, FlowOnFacts
  <2> QED
    BY <1>1, <2>1
<1>3. CASE e \in Function
  <2>1. Yields(fl, f, e, e)
    BY <1>3 DEF Yields
  <2> QED
    BY <1>2, <1>3, <2>1 DEF Flowing, fl, at
<1>4. CASE e \notin Function
  <2>1. \A h \in fl[<<f, e>>] : Yields(fl, f, e, h)
    BY <1>4 DEF Yields
  <2>2. fl[<<f, e>>] \subseteq fl[at]
    BY <1>2, <2>1
  <2> QED
    BY <1>4, <2>2 DEF Flowing, fl, at
<1> QED
  BY <1>3, <1>4

LEMMA FittingFacts ==
  ASSUME program \in Programs, NEW known \in Fitting, NEW g \in Function, NEW v \in Pointer
  PROVE  /\ DOMAIN known \subseteq Cells /\ known = [at \in DOMAIN known |-> known[at]]
         /\ \A at \in DOMAIN known : known[at] \subseteq Function /\ known[at] \subseteq Flows(TRUE)[at]
         /\ PointsTo(known, g, v) \subseteq Flows(TRUE)[<<g, v>>]
<1>1. PICK D \in SUBSET Cells : known \in [D -> SUBSET Function]
  BY DEF Fitting
<1>2. DOMAIN known = D /\ known = [at \in D |-> known[at]] /\ \A at \in D : known[at] \subseteq Function
  BY <1>1
<1>3. \A at \in DOMAIN known : known[at] \subseteq Flows(TRUE)[at]
  BY DEF Fitting
<1>4. PointsTo(known, g, v) \subseteq Flows(TRUE)[<<g, v>>]
  BY <1>3 DEF PointsTo
<1> QED
  BY <1>2, <1>3, <1>4

\* Knowledge of one more pointer, or other knowledge of one.
LEMMA UpdateFits ==
  ASSUME program \in Programs, NEW known \in Fitting, NEW g \in Function, NEW v \in Pointer,
         NEW S, S \subseteq Flows(TRUE)[<<g, v>>]
  PROVE  Update(known, g, v, S) \in Fitting
<1> DEFINE c == <<g, v>>
           fl == Flows(TRUE)
           D == DOMAIN known \cup {c}
           new == [at \in D |-> IF at = c THEN S ELSE known[at]]
<1>1. /\ DOMAIN known \subseteq Cells /\ c \in Cells /\ S \subseteq fl[c] /\ fl[c] \subseteq Function
      /\ \A at \in DOMAIN known : known[at] \subseteq Function /\ known[at] \subseteq fl[at]
  BY FittingFacts, FlowsFacts DEF Cells
<1>2. Update(known, g, v, S) = new
  BY DEF Update
<1> HIDE DEF c, fl
<1>3. D \in SUBSET Cells /\ new \in [D -> SUBSET Function] /\ DOMAIN new = D
  BY <1>1
<1>4. \A at \in D : new[at] \subseteq fl[at]
  BY <1>1
<1> HIDE DEF D, new
<1> QED
  BY <1>2, <1>3, <1>4 DEF Fitting, fl

\* All that one argument or one assignment moves.
LEMMA MoveAllFits ==
  ASSUME program \in Programs, NEW known \in Fitting, NEW g \in Function, NEW v \in Pointer, NEW f \in Function,
         NEW es \in Seq(Function \cup Pointer), \A e \in ToSet(es) : Flowing(f, e, g, v)
  PROVE  MoveAll(known, g, v, f, es) \in Fitting
<1> DEFINE N == Len(es)
           A == Fitting
           first == known
           expr(k, x) == Move(x, g, v, f, es[k])
           F == [k \in 1..N |-> [x \in A |-> expr(k, x)]]
           step(f0) == [k \in 0..N |-> IF k = 0 THEN first ELSE expr(k, f0[k - 1])]
           moved == CHOOSE f0 : f0 = step(f0)
<1>1. N \in Nat /\ first \in A
  OBVIOUS
<1>2. \A k \in 1..N, x \in A : expr(k, x) \in A
  <2> TAKE k \in 1..N, x \in A
  <2>1. PICK e : e = es[k]
    OBVIOUS
  <2>2. e \in Function \cup Pointer /\ Flowing(f, e, g, v)
    BY <2>1 DEF ToSet
  <2>3. PointsTo(x, g, v) \subseteq Flows(TRUE)[<<g, v>>]
    BY FittingFacts
  <2>4. CASE e \in Function
    <3>1. PointsTo(x, g, v) \cup {e} \subseteq Flows(TRUE)[<<g, v>>]
      BY <2>2, <2>3, <2>4 DEF Flowing
    <3> QED
      BY <2>1, <2>4, <3>1, UpdateFits DEF Move
  <2>5. CASE e \notin Function
    <3>1. PointsTo(x, f, e) \subseteq Flows(TRUE)[<<f, e>>]
      BY <2>2, <2>5, FittingFacts
    <3>2. PointsTo(x, f, e) \subseteq Flows(TRUE)[<<g, v>>]
      BY <2>2, <2>5, <3>1 DEF Flowing
    <3> QED
      BY <2>1, <2>5, <3>2, UpdateFits DEF Move
  <2> QED
    BY <2>4, <2>5
<1>3. MoveAll(known, g, v, f, es) = moved[N]
  BY DEF MoveAll
<1>5. \A k \in 0..N : k # 0 => k \in 1..N
  BY <1>1
<1>6. \A k \in 1..N : k - 1 \in 0..N /\ k \in 0..N /\ k # 0
  BY <1>1
<1>7. 0 \in 0..N /\ N \in 0..N
  BY <1>1
<1> HIDE DEF N, A, first, expr
<1>8. F \in Steps(N, A) /\ \A k \in 1..N, x \in A : F[k][x] = expr(k, x)
  BY <1>2 DEF Steps
<1> HIDE DEF F
<1>90. Iterates(N, A, first, F)
  BY <1>1, <1>8, Recursion
<1>9. PICK f0 \in [0..N -> A] : f0[0] = first /\ \A k \in 1..N : f0[k] = F[k][f0[k - 1]]
  BY <1>90 DEF Iterates, IsIterated
<1>10. \A k \in 0..N : f0[k] = IF k = 0 THEN first ELSE expr(k, f0[k - 1])
  BY <1>5, <1>6, <1>8, <1>9
<1>11. f0 = step(f0)
  BY <1>10
<1>12. moved = step(moved)
  BY <1>11
<1> HIDE DEF moved
<1>13. moved[0] = first /\ \A k \in 1..N : moved[k] = expr(k, moved[k - 1])
  BY <1>6, <1>7, <1>12
<1> DEFINE P == {k \in 0..N : moved[k] \in A}
<1>14. 0 \in P
  BY <1>1, <1>7, <1>13
<1>15. ASSUME NEW k \in 1..N, k - 1 \in P PROVE k \in P
  BY <1>2, <1>6, <1>13, <1>15
<1> HIDE DEF P
<1>16. N \in P
  BY <1>1, <1>7, <1>14, <1>15, BoundedInduction
<1> QED
  BY <1>3, <1>16 DEF P, A

\* What a call passes to the i-th function pointer among the parameters, by either of the
\* declarations.
LEMMA PassedFeeds ==
  ASSUME program \in Programs, NEW f \in Function, NEW k \in DOMAIN BodyOf(f), NEW s, s = BodyOf(f)[k],
         s.kind \in {"call", "lambda"}
  PROVE  /\ s.to \in Function /\ Given(s) \in Seq(Seq(Function \cup Pointer))
         /\ \A i \in 1..Len(program.declared[s.to]) :
              /\ program.declared[s.to][i] \in Pointer /\ program.default[s.to][i] \subseteq Function
              /\ program.default[s.to][i] \subseteq Feeds(TRUE, f, s, s.to, program.declared[s.to][i])
              /\ i \in DOMAIN Given(s) => ToSet(Given(s)[i]) \subseteq Feeds(TRUE, f, s, s.to, program.declared[s.to][i])
<1>1. IsStmt(program, s)
  BY BodyFacts
<1>2. PICK g : g = s.to
  OBVIOUS
<1>3. g \in Function /\ s.from \in Seq(Seq(Function \cup Pointer)) /\ s.kind # "set"
  BY <1>1, <1>2 DEF IsStmt, Stmt
<1>4. Given(s) \in Seq(Seq(Function \cup Pointer))
  BY <1>3, WithinFacts DEF Given
<1> DEFINE given == Given(s)
           D(v) == {j \in DOMAIN program.params[g] : v \in {program.params[g][j], program.declared[g][j]}}
           fed(i) == (IF i \in DOMAIN given THEN ToSet(given[i]) ELSE {})
                     \cup (IF TRUE \/ i \notin DOMAIN given THEN program.default[g][i] ELSE {})
<1>5. \A v : Feeds(TRUE, f, s, g, v) = UNION {fed(i) : i \in D(v)}
  BY <1>2, <1>3 DEF Feeds, PassingCall, Given
<1>6. /\ \A i : program.default[g][i] \subseteq fed(i)
      /\ \A i : i \in DOMAIN given => ToSet(given[i]) \subseteq fed(i)
  OBVIOUS
<1>7. ASSUME NEW i \in 1..Len(program.declared[g])
      PROVE  /\ program.declared[g][i] \in Pointer /\ i \in D(program.declared[g][i])
             /\ program.default[g][i] \subseteq Function
  <2>1. PICK ps, ds, df : ps = program.params[g] /\ ds = program.declared[g] /\ df = program.default[g]
    OBVIOUS
  <2>2. /\ ps \in Seq(Pointer) /\ ds \in Seq(Pointer) /\ Len(ds) = Len(ps) /\ DOMAIN ps = 1..Len(ps)
        /\ df \in [1..Len(ps) -> SUBSET Function]
    BY <1>3, <2>1, ParamFacts
  <2>3. i \in DOMAIN ps /\ ds[i] \in Pointer /\ df[i] \subseteq Function
    BY <2>1, <2>2
  <2> QED
    BY <2>1, <2>3
<1> HIDE DEF fed, D, given
<1>8. ASSUME NEW i \in 1..Len(program.declared[g])
      PROVE  fed(i) \subseteq Feeds(TRUE, f, s, g, program.declared[g][i])
  <2>1. PICK v : v = program.declared[g][i]
    OBVIOUS
  <2>2. i \in D(v) /\ Feeds(TRUE, f, s, g, v) = UNION {fed(n) : n \in D(v)}
    BY <1>5, <1>7, <2>1
  <2> QED
    BY <2>1, <2>2
<1>9. ASSUME NEW i \in 1..Len(program.declared[g])
      PROVE  /\ program.declared[g][i] \in Pointer /\ program.default[g][i] \subseteq Function
             /\ program.default[g][i] \subseteq Feeds(TRUE, f, s, g, program.declared[g][i])
             /\ i \in DOMAIN given => ToSet(given[i]) \subseteq Feeds(TRUE, f, s, g, program.declared[g][i])
  BY <1>6, <1>7, <1>8
<1> QED
  BY <1>2, <1>3, <1>4, <1>9 DEF given

\* The default arguments that a call passes, and then its own.
Defaults(known, g) ==
  LET params == program.declared[g]
      defaults[i \in 0..Len(params)] ==
        IF i = 0 THEN known
        ELSE Update(defaults[i - 1], g, params[i], PointsTo(defaults[i - 1], g, params[i]) \cup program.default[g][i])
  IN defaults[Len(params)]

IsDefaults(D, known, g) ==
  /\ D \in [0..Len(program.declared[g]) -> Fitting] /\ D[0] = known
  /\ \A k \in 1..Len(program.declared[g]) :
       D[k] = Update(D[k - 1], g, program.declared[g][k], PointsTo(D[k - 1], g, program.declared[g][k]) \cup program.default[g][k])

\* They are passed one by one.
LEMMA DefaultsByStep ==
  ASSUME program \in Programs, NEW known \in Fitting, NEW f \in Function, NEW j \in DOMAIN BodyOf(f), NEW s, s = BodyOf(f)[j],
         s.kind \in {"call", "lambda"}
  PROVE  \E D : IsDefaults(D, known, s.to) /\ Defaults(known, s.to) = D[Len(program.declared[s.to])]
<1> DEFINE g == s.to
           params == program.declared[g]
<1> DEFINE N == Len(params)
           A == Fitting
           first == known
           expr(k, x) == Update(x, g, params[k], PointsTo(x, g, params[k]) \cup program.default[g][k])
           F == [k \in 1..N |-> [x \in A |-> expr(k, x)]]
           step(f0) == [k \in 0..N |-> IF k = 0 THEN first ELSE expr(k, f0[k - 1])]
           defaults == CHOOSE f0 : f0 = step(f0)
<1>1. N \in Nat /\ first \in A
  BY PassedFeeds, ParamFacts
<1>2. \A k \in 1..N, x \in A : expr(k, x) \in A
  <2> TAKE k \in 1..N, x \in A
  <2>1. PICK v : v = params[k]
    OBVIOUS
  <2>2. /\ g \in Function /\ v \in Pointer /\ program.default[g][k] \subseteq Function
        /\ program.default[g][k] \subseteq Feeds(TRUE, f, s, g, v)
    BY <2>1, PassedFeeds
  <2>3. program.default[g][k] \subseteq Flows(TRUE)[<<g, v>>]
    <3>1. ASSUME NEW e \in program.default[g][k] PROVE e \in Flows(TRUE)[<<g, v>>]
      <4>1. Flowing(f, e, g, v) /\ e \in Function
        BY <2>2, <3>1, FedFlows
      <4> QED
        BY <4>1 DEF Flowing
    <3> QED
      BY <3>1
  <2>4. PointsTo(x, g, v) \subseteq Flows(TRUE)[<<g, v>>]
    BY <2>2, FittingFacts
  <2>5. PICK S : S = PointsTo(x, g, v) \cup program.default[g][k]
    OBVIOUS
  <2>6. Update(x, g, v, S) \in Fitting
    BY <2>2, <2>3, <2>4, <2>5, UpdateFits
  <2> QED
    BY <2>1, <2>5, <2>6
<1>3. Defaults(known, g) = defaults[N]
  BY DEF Defaults
<1>5. \A k \in 0..N : k # 0 => k \in 1..N
  BY <1>1
<1>6. \A k \in 1..N : k - 1 \in 0..N /\ k \in 0..N /\ k # 0
  BY <1>1
<1>7. 0 \in 0..N /\ N \in 0..N
  BY <1>1
<1> HIDE DEF N, A, first, expr
<1>8. F \in Steps(N, A) /\ \A k \in 1..N, x \in A : F[k][x] = expr(k, x)
  BY <1>2 DEF Steps
<1> HIDE DEF F
<1>90. Iterates(N, A, first, F)
  BY <1>1, <1>8, Recursion
<1>9. PICK f0 \in [0..N -> A] : f0[0] = first /\ \A k \in 1..N : f0[k] = F[k][f0[k - 1]]
  BY <1>90 DEF Iterates, IsIterated
<1>10. \A k \in 0..N : f0[k] = IF k = 0 THEN first ELSE expr(k, f0[k - 1])
  BY <1>5, <1>6, <1>8, <1>9
<1>11. f0 = step(f0)
  BY <1>10
<1>12. defaults = step(defaults)
  BY <1>11
<1> HIDE DEF defaults
<1>13. defaults[0] = first /\ \A k \in 1..N : defaults[k] = expr(k, defaults[k - 1])
  BY <1>6, <1>7, <1>12
<1> DEFINE P == {k \in 0..N : defaults[k] \in A}
<1>14. 0 \in P
  BY <1>1, <1>7, <1>13
<1>15. ASSUME NEW k \in 1..N, k - 1 \in P PROVE k \in P
  BY <1>2, <1>6, <1>13, <1>15
<1> HIDE DEF P
<1>16. 0..N \subseteq P
  BY <1>1, <1>14, <1>15, BoundedInduction
<1>17. defaults \in [0..N -> A]
  BY <1>12, <1>16 DEF P
<1>18. /\ \A k \in 1..N : defaults[k] = Update(defaults[k - 1], g, params[k], PointsTo(defaults[k - 1], g, params[k]) \cup program.default[g][k])
       /\ defaults[0] = known
  BY <1>13 DEF expr, first
<1>19. IsDefaults(defaults, known, g)
  BY <1>17, <1>18 DEF IsDefaults, N, A
<1> QED
  BY <1>3, <1>19 DEF N

LEMMA DefaultsFit ==
  ASSUME program \in Programs, NEW known \in Fitting, NEW f \in Function, NEW j \in DOMAIN BodyOf(f), NEW s, s = BodyOf(f)[j],
         s.kind \in {"call", "lambda"}
  PROVE  Defaults(known, s.to) \in Fitting
<1>1. PICK D : IsDefaults(D, known, s.to) /\ Defaults(known, s.to) = D[Len(program.declared[s.to])]
  BY DefaultsByStep
<1>2. Len(program.declared[s.to]) \in 0..Len(program.declared[s.to])
  BY PassedFeeds, ParamFacts
<1> QED
  BY <1>1, <1>2 DEF IsDefaults

NumberPassed(s) ==
  IF Len(Given(s)) < Len(program.declared[s.to]) THEN Len(Given(s)) ELSE Len(program.declared[s.to])
IsPassed(P, known, f, s) ==
  /\ P \in [0..NumberPassed(s) -> Fitting] /\ P[0] = Defaults(known, s.to)
  /\ \A k \in 1..NumberPassed(s) : P[k] = MoveAll(P[k - 1], s.to, program.declared[s.to][k], f, Given(s)[k])

\* The arguments follow one by one.
LEMMA PassAllByStep ==
  ASSUME program \in Programs, NEW known \in Fitting, NEW f \in Function, NEW j \in DOMAIN BodyOf(f), NEW s, s = BodyOf(f)[j],
         s.kind \in {"call", "lambda"}
  PROVE  \E P : IsPassed(P, known, f, s) /\ PassAll(known, f, s) = P[NumberPassed(s)]
<1> DEFINE g == s.to
           params == program.declared[g]
           given == Given(s)
<1> DEFINE N == IF Len(given) < Len(params) THEN Len(given) ELSE Len(params)
           A == Fitting
           first == Defaults(known, g)
           expr(k, x) == MoveAll(x, g, params[k], f, given[k])
           F == [k \in 1..N |-> [x \in A |-> expr(k, x)]]
           step(f0) == [k \in 0..N |-> IF k = 0 THEN first ELSE expr(k, f0[k - 1])]
           passed == CHOOSE f0 : f0 = step(f0)
<1>0. Len(given) \in Nat /\ Len(params) \in Nat
  BY PassedFeeds, ParamFacts
<1>1. N \in Nat /\ first \in A
  BY <1>0, DefaultsFit
<1>2. \A k \in 1..N, x \in A : expr(k, x) \in A
  <2> TAKE k \in 1..N, x \in A
  <2>1. PICK v, es : v = params[k] /\ es = given[k]
    OBVIOUS
  <2>2. k \in 1..Len(params) /\ k \in 1..Len(given)
    BY <1>0
  <2>3. g \in Function /\ v \in Pointer /\ es \in Seq(Function \cup Pointer) /\ ToSet(es) \subseteq Feeds(TRUE, f, s, g, v)
    <3>1. given \in Seq(Seq(Function \cup Pointer)) /\ g \in Function
      BY PassedFeeds
    <3>2. es \in Seq(Function \cup Pointer) /\ k \in DOMAIN given
      BY <2>1, <2>2, <3>1
    <3>3. v \in Pointer /\ (k \in DOMAIN given => ToSet(es) \subseteq Feeds(TRUE, f, s, g, v))
      BY <2>1, <2>2, PassedFeeds
    <3> QED
      BY <3>1, <3>2, <3>3
  <2>4. \A e \in ToSet(es) : Flowing(f, e, g, v)
    BY <2>3, FedFlows
  <2>5. MoveAll(x, g, v, f, es) \in Fitting
    BY <2>3, <2>4, MoveAllFits
  <2> QED
    BY <2>1, <2>5
<1>3. PassAll(known, f, s) = passed[N]
  BY DEF PassAll, Defaults
<1>5. \A k \in 0..N : k # 0 => k \in 1..N
  BY <1>1
<1>6. \A k \in 1..N : k - 1 \in 0..N /\ k \in 0..N /\ k # 0
  BY <1>1
<1>7. 0 \in 0..N /\ N \in 0..N
  BY <1>1
<1> HIDE DEF N, A, first, expr
<1>8. F \in Steps(N, A) /\ \A k \in 1..N, x \in A : F[k][x] = expr(k, x)
  BY <1>2 DEF Steps
<1> HIDE DEF F
<1>90. Iterates(N, A, first, F)
  BY <1>1, <1>8, Recursion
<1>9. PICK f0 \in [0..N -> A] : f0[0] = first /\ \A k \in 1..N : f0[k] = F[k][f0[k - 1]]
  BY <1>90 DEF Iterates, IsIterated
<1>10. \A k \in 0..N : f0[k] = IF k = 0 THEN first ELSE expr(k, f0[k - 1])
  BY <1>5, <1>6, <1>8, <1>9
<1>11. f0 = step(f0)
  BY <1>10
<1>12. passed = step(passed)
  BY <1>11
<1> HIDE DEF passed
<1>13. passed[0] = first /\ \A k \in 1..N : passed[k] = expr(k, passed[k - 1])
  BY <1>6, <1>7, <1>12
<1> DEFINE P == {k \in 0..N : passed[k] \in A}
<1>14. 0 \in P
  BY <1>1, <1>7, <1>13
<1>15. ASSUME NEW k \in 1..N, k - 1 \in P PROVE k \in P
  BY <1>2, <1>6, <1>13, <1>15
<1> HIDE DEF P
<1>16. 0..N \subseteq P
  BY <1>1, <1>14, <1>15, BoundedInduction
<1>17. passed \in [0..N -> A]
  BY <1>12, <1>16 DEF P
<1>18. /\ \A k \in 1..N : passed[k] = MoveAll(passed[k - 1], g, params[k], f, given[k])
       /\ passed[0] = Defaults(known, g)
  BY <1>13 DEF expr, first
<1>19. N = NumberPassed(s)
  BY DEF N, NumberPassed
<1>20. IsPassed(passed, known, f, s)
  BY <1>17, <1>18, <1>19 DEF IsPassed, A
<1> QED
  BY <1>3, <1>19, <1>20

LEMMA PassAllFits ==
  ASSUME program \in Programs, NEW known \in Fitting, NEW f \in Function, NEW j \in DOMAIN BodyOf(f), NEW s, s = BodyOf(f)[j],
         s.kind \in {"call", "lambda"}
  PROVE  PassAll(known, f, s) \in Fitting
<1>1. PICK P : IsPassed(P, known, f, s) /\ PassAll(known, f, s) = P[NumberPassed(s)]
  BY PassAllByStep
<1>2. NumberPassed(s) \in 0..NumberPassed(s)
  BY PassedFeeds, ParamFacts DEF NumberPassed
<1> QED
  BY <1>1, <1>2 DEF IsPassed

IsPass(P, f, n) ==
  /\ P \in [0..n -> Fitting] /\ P[0] = mayPointTo
  /\ \A k \in 1..n : P[k] = Visit(f, P[k - 1], BodyOf(f)[k])

\* The pass up to a statement.
LEMMA AfterByStep ==
  ASSUME program \in Programs, mayPointTo \in Fitting, NEW f \in Function, NEW n \in 0..Len(BodyOf(f))
  PROVE  \E P : IsPass(P, f, n) /\ After(f, n) = P[n]
<1> DEFINE N == n
           A == Fitting
           first == mayPointTo
           expr(k, x) == Visit(f, x, BodyOf(f)[k])
           F == [k \in 1..N |-> [x \in A |-> expr(k, x)]]
           step(f0) == [k \in 0..N |-> IF k = 0 THEN first ELSE expr(k, f0[k - 1])]
           pass == CHOOSE f0 : f0 = step(f0)
<1>1. N \in Nat /\ first \in A
  BY BodyFacts
<1>2. \A k \in 1..N, x \in A : expr(k, x) \in A
  <2> TAKE k \in 1..N, x \in A
  <2>1. PICK s : s = BodyOf(f)[k]
    OBVIOUS
  <2>2. k \in DOMAIN BodyOf(f) /\ IsStmt(program, s)
    BY <2>1, BodyFacts
  <2>3. CASE s.kind \in {"call", "lambda"}
    <3>1. PassAll(x, f, s) \in Fitting
      BY <2>1, <2>2, <2>3, PassAllFits
    <3> QED
      BY <2>1, <2>3, <3>1 DEF Visit, PassingCall
  <2>4. CASE s.kind = "set"
    <3>1. s.to \in Pointer /\ s.from \in Seq(Seq(Function \cup Pointer)) /\ s.from # <<>>
      BY <2>2, <2>4 DEF IsStmt, Stmt
    <3>2. PICK es : es = s.from[1]
      OBVIOUS
    <3>3. es \in Seq(Function \cup Pointer)
      BY <3>1, <3>2
    <3>4. ToSet(es) = Feeds(TRUE, f, s, f, s.to)
      BY <2>4, <3>2 DEF Feeds, PassingCall
    <3>5. \A e \in ToSet(es) : Flowing(f, e, f, s.to)
      BY <2>1, <2>2, <3>1, <3>4, FedFlows
    <3>6. MoveAll(x, f, s.to, f, es) \in Fitting
      BY <3>1, <3>3, <3>5, MoveAllFits
    <3> QED
      BY <2>1, <2>4, <3>2, <3>6 DEF Visit, PassingCall
  <2>5. CASE s.kind \notin {"call", "lambda", "set"}
    BY <2>1, <2>5 DEF Visit, PassingCall
  <2> QED
    BY <2>3, <2>4, <2>5
<1>3. After(f, n) = pass[N]
  BY DEF After
<1>5. \A k \in 0..N : k # 0 => k \in 1..N
  BY <1>1
<1>6. \A k \in 1..N : k - 1 \in 0..N /\ k \in 0..N /\ k # 0
  BY <1>1
<1>7. 0 \in 0..N /\ N \in 0..N
  BY <1>1
<1> HIDE DEF N, A, first, expr
<1>8. F \in Steps(N, A) /\ \A k \in 1..N, x \in A : F[k][x] = expr(k, x)
  BY <1>2 DEF Steps
<1> HIDE DEF F
<1>90. Iterates(N, A, first, F)
  BY <1>1, <1>8, Recursion
<1>9. PICK f0 \in [0..N -> A] : f0[0] = first /\ \A k \in 1..N : f0[k] = F[k][f0[k - 1]]
  BY <1>90 DEF Iterates, IsIterated
<1>10. \A k \in 0..N : f0[k] = IF k = 0 THEN first ELSE expr(k, f0[k - 1])
  BY <1>5, <1>6, <1>8, <1>9
<1>11. f0 = step(f0)
  BY <1>10
<1>12. pass = step(pass)
  BY <1>11
<1> HIDE DEF pass
<1>13. pass[0] = first /\ \A k \in 1..N : pass[k] = expr(k, pass[k - 1])
  BY <1>6, <1>7, <1>12
<1> DEFINE P == {k \in 0..N : pass[k] \in A}
<1>14. 0 \in P
  BY <1>1, <1>7, <1>13
<1>15. ASSUME NEW k \in 1..N, k - 1 \in P PROVE k \in P
  BY <1>2, <1>6, <1>13, <1>15
<1> HIDE DEF P
<1>16. 0..N \subseteq P
  BY <1>1, <1>14, <1>15, BoundedInduction
<1>17. pass \in [0..N -> A]
  BY <1>12, <1>16 DEF P
<1>18. /\ \A k \in 1..N : pass[k] = Visit(f, pass[k - 1], BodyOf(f)[k])
       /\ pass[0] = mayPointTo
  BY <1>13 DEF expr, first
<1>19. IsPass(pass, f, n)
  BY <1>17, <1>18 DEF IsPass, A, N
<1> QED
  BY <1>3, <1>19 DEF N

LEMMA AfterFits ==
  ASSUME program \in Programs, mayPointTo \in Fitting, NEW f \in Function, NEW n \in 0..Len(BodyOf(f))
  PROVE  After(f, n) \in Fitting
<1>1. PICK P : IsPass(P, f, n) /\ After(f, n) = P[n]
  BY AfterByStep
<1>2. n \in 0..n
  BY BodyFacts
<1> QED
  BY <1>1, <1>2 DEF IsPass

-----------------------------------------------------------------------------
(* The calls of a function, and the edges for them.                        *)

Callees(calls) == {c[1] : c \in ToSet(calls)}

\* The list of a finite set has all of it.
LEMMA ListFacts ==
  ASSUME NEW S, IsFiniteSet(S)
  PROVE  /\ SetToSeq(S) \in [1..Cardinality(S) -> S] /\ Cardinality(S) \in Nat
         /\ \A x \in S : \E j \in 1..Cardinality(S) : SetToSeq(S)[j] = x
<1> DEFINE n == Cardinality(S)
           list == SetToSeq(S)
<1>1. n \in Nat
  BY FS_CardinalityType
<1>2. \E b \in [1..n -> S] : IsInjective(b)
  BY FS_CardinalityType DEF ExistsBijection, Bijection, Injection, IsInjective
<1>3. list \in [1..n -> S] /\ IsInjective(list)
  BY <1>2 DEF SetToSeq
<1> HIDE DEF list
<1>4. list \in Injection(1..n, S)
  BY <1>3 DEF Injection, IsInjective
<1>5. Cardinality(1..n) = n
  BY <1>1, FS_Interval
<1>6. list \in Surjection(1..n, S)
  BY <1>4, <1>5, FS_Injection
<1> QED
  BY <1>1, <1>3, <1>6 DEF Surjection, list

\* The calls through pointers lead to functions that flow into them, all that the pass knows.
LEMMA PointerCallsFacts ==
  ASSUME program \in Programs, mayPointTo \in Fitting, NEW f \in Function
  PROVE  /\ PointerCalls(f) \in Seq(Function \X Nat)
         /\ Callees(PointerCalls(f)) \subseteq CallsByPointer(Flows(TRUE), f)
         /\ \A k \in DOMAIN BodyOf(f) : BodyOf(f)[k].kind = "callPointer" =>
              PointsTo(After(f, k), f, BodyOf(f)[k].to) \subseteq Callees(PointerCalls(f))
<1> DEFINE part(k) ==
             LET s == BodyOf(f)[k]
             IN IF s.kind # "callPointer" THEN <<>>
                ELSE LET targets == SetToSeq(PointsTo(After(f, k), f, s.to))
                     IN [j \in DOMAIN targets |-> <<targets[j], s.site>>]
           ss == [k \in DOMAIN BodyOf(f) |-> part(k)]
           C == CallsByPointer(Flows(TRUE), f) \cap Function
           T == C \X Nat
<1>1. PointerCalls(f) = FlattenSeq(ss)
  BY DEF PointerCalls
<1>2. ASSUME NEW k \in DOMAIN BodyOf(f)
      PROVE  /\ part(k) \in Seq(T)
             /\ BodyOf(f)[k].kind = "callPointer" =>
                  \A g \in PointsTo(After(f, k), f, BodyOf(f)[k].to) : \E c \in ToSet(part(k)) : c[1] = g
  <2>1. PICK s : s = BodyOf(f)[k]
    OBVIOUS
  <2>2. IsStmt(program, s) /\ s.site \in Nat /\ s \in ToSet(BodyOf(f)) /\ k \in 0..Len(BodyOf(f))
    BY <2>1, BodyFacts DEF IsStmt, Stmt, ToSet
  <2>3. CASE s.kind # "callPointer"
    <3>1. part(k) = <<>>
      BY <2>1, <2>3
    <3> HIDE DEF T, part
    <3> QED
      BY <2>1, <2>3, <3>1
  <2>4. CASE s.kind = "callPointer"
    <3> DEFINE S == PointsTo(After(f, k), f, s.to)
               n == Cardinality(S)
               targets == SetToSeq(S)
    <3>1. s.to \in Pointer
      BY <2>2, <2>4 DEF IsStmt
    <3>2. S \subseteq Flows(TRUE)[<<f, s.to>>] /\ Flows(TRUE)[<<f, s.to>>] \subseteq Function
      BY <2>2, <3>1, AfterFits, FittingFacts, FlowsFacts DEF Cells
    <3>3. S \subseteq C
      BY <2>2, <2>4, <3>2 DEF CallsByPointer
    <3>4. part(k) = [j \in DOMAIN targets |-> <<targets[j], s.site>>]
      BY <2>1, <2>4
    <3> HIDE DEF S, C, part
    <3>5. IsFiniteSet(S)
      BY <3>2, ProgramsAssumption, FS_Subset
    <3>6. /\ targets \in [1..n -> S] /\ n \in Nat
          /\ \A g \in S : \E j \in 1..n : targets[j] = g
      BY <3>5, ListFacts
    <3> HIDE DEF targets, n
    <3>7. part(k) = [j \in 1..n |-> <<targets[j], s.site>>]
      BY <3>4, <3>6
    <3>8. part(k) \in [1..n -> T]
      BY <2>2, <3>3, <3>6, <3>7
    <3>9. ASSUME NEW g \in S PROVE \E c \in ToSet(part(k)) : c[1] = g
      <4>1. PICK j \in 1..n : targets[j] = g
        BY <3>6
      <4>2. part(k)[j] = <<g, s.site>> /\ part(k)[j] \in ToSet(part(k))
        BY <3>7, <4>1 DEF ToSet
      <4> QED
        BY <4>2
    <3> HIDE DEF T
    <3>10. part(k) \in Seq(T)
      BY <3>6, <3>8
    <3> QED
      BY <2>1, <3>9, <3>10 DEF S
  <2> QED
    BY <2>3, <2>4
<1> HIDE DEF part, T
<1>3. Len(BodyOf(f)) \in Nat /\ DOMAIN BodyOf(f) = 1..Len(BodyOf(f))
  BY BodyFacts
<1>4. ss \in Seq(Seq(T))
  BY <1>2, <1>3
<1>40. \A k \in DOMAIN BodyOf(f) : k \in DOMAIN ss /\ ss[k] = part(k)
  OBVIOUS
<1> HIDE DEF ss
<1>5. PointerCalls(f) \in Seq(T) /\ ToSet(PointerCalls(f)) = UNION {ToSet(ss[k]) : k \in DOMAIN ss}
  BY <1>1, <1>4, FlattenFacts
<1>50. ASSUME NEW k \in DOMAIN BodyOf(f), BodyOf(f)[k].kind = "callPointer", NEW g \in PointsTo(After(f, k), f, BodyOf(f)[k].to)
       PROVE  g \in Callees(PointerCalls(f))
  <2>1. PICK c \in ToSet(part(k)) : c[1] = g
    BY <1>2, <1>50
  <2>2. c \in ToSet(PointerCalls(f))
    BY <1>5, <1>40, <2>1
  <2> QED
    BY <2>1, <2>2 DEF Callees
<1>6. PICK calls : calls = PointerCalls(f)
  OBVIOUS
<1>7. calls \in Seq(C \X Nat)
  BY <1>5, <1>6 DEF T
<1> HIDE DEF C
<1>8. \A c \in ToSet(calls) : c[1] \in C
  BY <1>7 DEF ToSet
<1>9. C \subseteq Function /\ C \subseteq CallsByPointer(Flows(TRUE), f)
  BY DEF C
<1>10. calls \in Seq(Function \X Nat)
  <2>1. C \X Nat \subseteq Function \X Nat
    BY <1>9
  <2> QED
    BY <1>7, <2>1
<1> QED
  BY <1>6, <1>8, <1>9, <1>10, <1>50 DEF Callees

\* The calls by name, of all functions that the configuration may have in the graph.
LEMMA NamedCalls ==
  ASSUME program \in Programs, NEW f \in Function, NEW calls, calls = CalledFunctions(f),
         NEW cs, cs = [k \in DOMAIN calls |-> <<calls[k].to, calls[k].site>>]
  PROVE  /\ cs \in Seq(Function \X Nat) /\ Callees(cs) \subseteq CallsByName(f)
         /\ \A g \in CallsByName(f) : willIncludeInGraph(g) => g \in Callees(cs)
<1> DEFINE K == {s \in ToSet(BodyOf(f)) : /\ s.behind \subseteq shown
                                          /\ \/ s.kind \in {"call", "construct"}
                                             \/ s.kind = "lambda" /\ "lambda" \in shown
                                             \/ s.kind = "delete" /\ "destructor" \in shown}
           body == BodyOf(f)
<1>1. body \in Seq(Stmt) /\ \A s \in ToSet(body) : IsStmt(program, s)
  BY BodyFacts DEF ToSet
<1>2. calls = Within(body, K)
  BY DEF CalledFunctions
<1>3. \A s \in K : s \in ToSet(body) /\ s.kind \in CallByName /\ s.behind \subseteq shown
  BY DEF CallByName, PassingCall
<1>4. \A s \in ToSet(body) : (/\ s.behind \subseteq shown
                              /\ \/ s.kind \in {"call", "construct"}
                                 \/ s.kind = "lambda" /\ "lambda" \in shown
                                 \/ s.kind = "delete" /\ "destructor" \in shown) => s \in K
  OBVIOUS
<1>40. \A s \in ToSet(body) : s.kind \in CallByName /\ s.behind \subseteq shown => s.to \in CallsByName(f)
  BY DEF CallsByName
<1>41. \A g \in CallsByName(f) : \E s \in ToSet(body) : s.kind \in CallByName /\ s.behind \subseteq shown /\ g = s.to
  BY DEF CallsByName
<1> HIDE DEF body, K
<1>5. calls \in Seq(Stmt) /\ ToSet(calls) = ToSet(body) \cap K
  BY <1>1, <1>2, WithinFacts
<1>6. DOMAIN calls = 1..Len(calls) /\ Len(calls) \in Nat
  BY <1>5
<1>7. \A k \in 1..Len(calls) : calls[k] \in K /\ calls[k] \in ToSet(body)
  BY <1>5, <1>6 DEF ToSet
<1>8. \A k \in 1..Len(calls) : calls[k].to \in Function /\ calls[k].site \in Nat
  <2> TAKE k \in 1..Len(calls)
  <2>1. PICK s : s = calls[k]
    OBVIOUS
  <2>2. IsStmt(program, s) /\ s.kind \in CallByName
    BY <1>1, <1>3, <1>7, <2>1
  <2>3. s.to \in Function /\ s.site \in Nat
    BY <2>2 DEF IsStmt, Stmt, CallByName, PassingCall
  <2> QED
    BY <2>1, <2>3
<1> DEFINE n == Len(calls)
<1>9. n \in Nat /\ cs = [k \in 1..n |-> <<calls[k].to, calls[k].site>>] /\ \A k \in 1..n : <<calls[k].to, calls[k].site>> \in Function \X Nat
  BY <1>6, <1>8
<1>10. \A k \in 1..n : cs[k][1] = calls[k].to
  BY <1>9
<1> HIDE DEF n
<1>11. cs \in [1..n -> Function \X Nat] /\ DOMAIN cs = 1..n
  BY <1>9
<1>12. cs \in Seq(Function \X Nat)
  BY <1>9, <1>11
<1>13. \A g : g \in Callees(cs) <=> \E k \in 1..n : g = calls[k].to
  BY <1>10, <1>11 DEF Callees, ToSet
<1>14. Callees(cs) \subseteq CallsByName(f)
  BY <1>3, <1>7, <1>13, <1>40 DEF n
<1>15. ASSUME NEW g \in CallsByName(f), willIncludeInGraph(g) PROVE g \in Callees(cs)
  <2>1. PICK s \in ToSet(body) : s.kind \in CallByName /\ s.behind \subseteq shown /\ g = s.to
    BY <1>41
  <2>2. IsStmt(program, s) /\ program.kinds[g] \subseteq shown
    BY <1>1, <1>15 DEF willIncludeInGraph
  <2>3. s \in K
    BY <1>4, <2>1, <2>2 DEF IsStmt, CallByName, PassingCall
  <2>4. s \in ToSet(calls)
    BY <1>5, <2>3
  <2>5. PICK k \in 1..n : s = calls[k]
    BY <1>6, <2>4 DEF ToSet, n
  <2> QED
    BY <1>13, <2>1, <2>5
<1> QED
  BY <1>12, <1>14, <1>15

\* The callees New of f are added at both ends of the edges.
Added(f, New, ch, pa, cs) ==
  /\ ch \in [Function -> Seq(Function)] /\ pa \in [Function -> Seq(Function)]
  /\ cs \in Seq(Function \X Function \X Nat)
  /\ \A h, g \in Function :
       /\ Occurs(g, ch[h]) = Occurs(g, children[h]) + (IF h = f /\ g \in New THEN 1 ELSE 0)
       /\ Occurs(h, pa[g]) = Occurs(h, parents[g]) + (IF h = f /\ g \in New THEN 1 ELSE 0)
  /\ \A h \in Function : ToSet(ch[h]) = ToSet(children[h]) \cup (IF h = f THEN New ELSE {})
  /\ \A g \in Function : ToSet(pa[g]) = ToSet(parents[g]) \cup (IF g \in New THEN {f} ELSE {})
  /\ ToSet(callsites) \subseteq ToSet(cs)
  /\ \A g \in New : \E c \in ToSet(cs) : c[1] = f /\ c[2] = g

\* What addEdges adds: each callee with a node once, at both ends.
LEMMA AddEdgesFacts ==
  ASSUME children \in [Function -> Seq(Function)], parents \in [Function -> Seq(Function)],
         callsites \in Seq(Function \X Function \X Nat), nodes \subseteq Function,
         NEW f \in Function, NEW calls \in Seq(Function \X Nat), addEdges(f, calls),
         NEW New, New = Callees(calls) \cap nodes,
         NEW ch, ch = children', NEW pa, pa = parents', NEW cs, cs = callsites'
  PROVE  Added(f, New, ch, pa, cs)
<1>1. PICK known : /\ known = Within(calls, nodes \X Nat)
                   /\ \E new \in {NoteOnce([k \in DOMAIN known |-> known[k][1]])} :
                        /\ children' = [children EXCEPT ![f] = @ \o new]
                        /\ parents' = [g \in Function |-> IF g \in ToSet(new) THEN Append(parents[g], f) ELSE parents[g]]
                        /\ callsites' = callsites \o [k \in DOMAIN known |-> <<f, known[k][1], known[k][2]>>]
  BY DEF addEdges
<1>2. PICK new : /\ new = NoteOnce([k \in DOMAIN known |-> known[k][1]])
                 /\ ch = [children EXCEPT ![f] = @ \o new]
                 /\ pa = [g \in Function |-> IF g \in ToSet(new) THEN Append(parents[g], f) ELSE parents[g]]
                 /\ cs = callsites \o [k \in DOMAIN known |-> <<f, known[k][1], known[k][2]>>]
  BY <1>1
<1>3. known \in Seq(Function \X Nat) /\ ToSet(known) = ToSet(calls) \cap (nodes \X Nat)
  BY <1>1, WithinFacts
<1> DEFINE n == Len(known)
           gs == [k \in DOMAIN known |-> known[k][1]]
           at == [k \in DOMAIN known |-> <<f, known[k][1], known[k][2]>>]
<1>4. /\ n \in Nat /\ DOMAIN known = 1..n
      /\ \A k \in 1..n : known[k] \in Function \X Nat /\ known[k][1] \in Function /\ known[k][2] \in Nat
      /\ \A x : x \in ToSet(known) <=> \E k \in 1..n : x = known[k]
  <2>1. n \in Nat /\ DOMAIN known = 1..n /\ \A k \in 1..n : known[k] \in Function \X Nat
    BY <1>3
  <2>2. \A c \in Function \X Nat : c[1] \in Function /\ c[2] \in Nat
    OBVIOUS
  <2>3. ToSet(known) = {known[k] : k \in 1..n}
    BY <2>1 DEF ToSet
  <2> QED
    BY <2>1, <2>2, <2>3
<1> HIDE DEF n
<1>5. /\ gs \in [1..n -> Function] /\ at \in [1..n -> Function \X Function \X Nat]
      /\ \A k \in 1..n : gs[k] = known[k][1] /\ at[k] = <<f, known[k][1], known[k][2]>>
  BY <1>4
<1> HIDE DEF gs, at
<1>6. gs \in Seq(Function) /\ at \in Seq(Function \X Function \X Nat) /\ DOMAIN gs = 1..n /\ DOMAIN at = 1..n
  BY <1>4, <1>5
<1>7. new \in Seq(Function) /\ Distinct(new) /\ ToSet(new) = ToSet(gs)
  BY <1>2, <1>6, NoteOnceFacts DEF gs
<1>8. ToSet(gs) = New
  <2>1. \A g : g \in ToSet(gs) <=> \E k \in 1..n : g = known[k][1]
    <3>1. ToSet(gs) = {gs[k] : k \in 1..n}
      BY <1>6 DEF ToSet
    <3> QED
      BY <1>5, <3>1
  <2>2. \A g : g \in ToSet(gs) <=> \E c \in ToSet(known) : g = c[1]
    BY <1>4, <2>1
  <2>3. \A c \in ToSet(calls) : c \in Function \X Nat
    BY DEF ToSet
  <2>4. \A c \in ToSet(calls) : c \in nodes \X Nat <=> c[1] \in nodes
    BY <2>3
  <2>5. \A g : g \in ToSet(gs) <=> g \in nodes /\ \E c \in ToSet(calls) : g = c[1]
    BY <1>3, <2>2, <2>4
  <2> QED
    BY <2>5 DEF Callees
<1>9. ToSet(new) = New
  BY <1>7, <1>8
<1>10. ch \in [Function -> Seq(Function)] /\ \A h \in Function : ch[h] = IF h = f THEN children[h] \o new ELSE children[h]
  <2>1. children[f] \o new \in Seq(Function)
    BY <1>7, ConcatFacts
  <2> QED
    BY <1>2, <2>1
<1>11. \A g \in Function : pa[g] = IF g \in New THEN Append(parents[g], f) ELSE parents[g]
  BY <1>2, <1>9
<1>12. pa \in [Function -> Seq(Function)]
  <2>1. \A g \in Function : Append(parents[g], f) \in Seq(Function) /\ parents[g] \in Seq(Function)
    BY AppendFacts
  <2> QED
    BY <1>2, <2>1
<1>13. cs \in Seq(Function \X Function \X Nat) /\ ToSet(cs) = ToSet(callsites) \cup ToSet(at)
  <2>1. cs = callsites \o at
    BY <1>2 DEF at
  <2> QED
    BY <1>6, <2>1, ConcatFacts
<1>14. \A g \in New : \E c \in ToSet(at) : c[1] = f /\ c[2] = g
  <2> TAKE g \in New
  <2>1. PICK k \in 1..n : gs[k] = g
    BY <1>6, <1>8 DEF ToSet
  <2>2. at[k] \in ToSet(at) /\ at[k] = <<f, g, known[k][2]>>
    BY <1>5, <1>6, <2>1 DEF ToSet
  <2>3. at[k][1] = f /\ at[k][2] = g
    BY <2>2
  <2> QED
    BY <2>2, <2>3
<1>15. ASSUME NEW h \in Function, NEW g \in Function
       PROVE  /\ Occurs(g, ch[h]) = Occurs(g, children[h]) + (IF h = f /\ g \in New THEN 1 ELSE 0)
              /\ Occurs(h, pa[g]) = Occurs(h, parents[g]) + (IF h = f /\ g \in New THEN 1 ELSE 0)
  <2>1. children[h] \in Seq(Function) /\ parents[g] \in Seq(Function)
    OBVIOUS
  <2>2. Occurs(g, children[h]) \in Nat /\ Occurs(h, parents[g]) \in Nat
    BY <2>1, OccursFacts
  <2>3. Occurs(g, children[h] \o new) = Occurs(g, children[h]) + (IF g \in New THEN 1 ELSE 0)
    BY <1>7, <1>9, <2>1, OccursConcat
  <2>5. Occurs(h, Append(parents[g], f)) = Occurs(h, parents[g]) + (IF h = f THEN 1 ELSE 0)
    BY <2>1, OccursAppend
  <2>6. Occurs(g, ch[h]) = Occurs(g, children[h]) + (IF h = f /\ g \in New THEN 1 ELSE 0)
    <3>1. CASE h = f
      <4>1. ch[h] = children[h] \o new
        BY <1>10, <3>1
      <4> QED
        BY <2>3, <3>1, <4>1
    <3>2. CASE h # f
      <4>1. ch[h] = children[h]
        BY <1>10, <3>2
      <4> QED
        BY <2>2, <3>2, <4>1
    <3> QED
      BY <3>1, <3>2
  <2>7. Occurs(h, pa[g]) = Occurs(h, parents[g]) + (IF h = f /\ g \in New THEN 1 ELSE 0)
    <3>1. CASE g \in New
      <4>1. pa[g] = Append(parents[g], f)
        BY <1>11, <3>1
      <4> QED
        BY <2>5, <3>1, <4>1
    <3>2. CASE g \notin New
      <4>1. pa[g] = parents[g]
        BY <1>11, <3>2
      <4> QED
        BY <2>2, <3>2, <4>1
    <3> QED
      BY <3>1, <3>2
  <2> QED
    BY <2>6, <2>7
<1>16. \A h \in Function : ToSet(ch[h]) = ToSet(children[h]) \cup (IF h = f THEN New ELSE {})
  <2> TAKE h \in Function
  <2>1. children[h] \in Seq(Function) /\ ToSet(children[h] \o new) = ToSet(children[h]) \cup New
    BY <1>7, <1>9, ConcatFacts
  <2> QED
    BY <1>10, <2>1
<1>17. \A g \in Function : ToSet(pa[g]) = ToSet(parents[g]) \cup (IF g \in New THEN {f} ELSE {})
  <2> TAKE g \in Function
  <2>1. parents[g] \in Seq(Function) /\ ToSet(Append(parents[g], f)) = ToSet(parents[g]) \cup {f}
    BY AppendFacts
  <2> QED
    BY <1>11, <2>1
<1> QED
  BY <1>10, <1>12, <1>13, <1>14, <1>15, <1>16, <1>17 DEF Added

-----------------------------------------------------------------------------
(* The inductive invariant.                                                *)

Types ==
  /\ program \in Programs /\ nodes \subseteq Function /\ \A f \in nodes : willIncludeInGraph(f)
  /\ unprocessed \subseteq nodes /\ unchecked \in Seq(Function)
  /\ parents \in [Function -> Seq(Function)] /\ children \in [Function -> Seq(Function)]
  /\ callsites \in Seq(Function \X Function \X Nat)
  /\ topLevelFunctions \in Seq(Function) /\ entry \in Function \cup {Null}
  /\ topOrderQueue \in Seq(Function) /\ visitInAll \subseteq Function /\ mayPointTo \in Fitting

\* The top-level functions are looked for when all calls by name are in.  What is queued
\* has been seen once and has a node.  As long as entry calls nothing, nothing else has been
\* seen, so nothing can have come to call it.
Walking ==
  /\ unprocessed # {} => entry = Null /\ topLevelFunctions = <<>>
  /\ entry = Null => topOrderQueue = <<>>
  /\ ~showFunctionPtr => topOrderQueue = <<>> /\ visitInAll = {}
  /\ Distinct(topOrderQueue) /\ ToSet(topOrderQueue) \subseteq visitInAll \cap nodes
  /\ entry # Null =>
       /\ unchecked # <<>> /\ entry = Head(unchecked) /\ entry \in nodes /\ entry \in ToSet(topLevelFunctions)
       /\ children[entry] = <<>> => parents[entry] = <<>> /\ visitInAll \subseteq {entry}

\* Each end of an edge knows it as often as the other; it has a call site, and both nodes.
Mirrored ==
  \A f, g \in Function :
    /\ Occurs(g, children[f]) = Occurs(f, parents[g])
    /\ g \in ToSet(children[f]) => {f, g} \subseteq nodes /\ \E c \in ToSet(callsites) : c[1] = f /\ c[2] = g

\* The walk from entry has still to come to f.
Ahead(f) == entry # Null /\ (f \in ToSet(topOrderQueue) \/ f \notin visitInAll)

\* How often an edge may be there: once for calls by name, once for each walk that has
\* come to f.
Counted ==
  \A f, g \in Function :
    Occurs(g, children[f]) + (IF Ahead(f) THEN 1 ELSE 0)
      <= Len(topLevelFunctions) + (IF g \in CallsByName(f) /\ f \notin unprocessed THEN 1 ELSE 0)

\* The edges are calls, and the calls by name are edges.
Called ==
  /\ \A f \in Function : ToSet(children[f]) \subseteq CallsByName(f) \cup CallsByPointer(Flows(TRUE), f)
  /\ \A f \in nodes \ unprocessed : CallsByName(f) \cap nodes \subseteq ToSet(children[f])

\* Whoever is not called has been found or is still to be looked at; and whoever has been
\* found is called by no name.
Covered ==
  /\ \A f \in nodes : f \in ToSet(unchecked) \/ f \in ToSet(topLevelFunctions) \/ parents[f] # <<>>
  /\ \A f \in ToSet(topLevelFunctions), g \in nodes : f \notin CallsByName(g)

GraphInv == Types /\ Walking /\ Mirrored /\ Counted /\ Called /\ Covered

-----------------------------------------------------------------------------
(* Every step keeps it.                                                    *)

\* Nothing of a program changes.
LEMMA Static ==
  ASSUME program' = program
  PROVE  /\ Flows(TRUE)' = Flows(TRUE) /\ Fitting' = Fitting
         /\ \A f : CallsByName(f)' = CallsByName(f) /\ willIncludeInGraph(f)' = willIncludeInGraph(f)
         /\ \A f : CallsByPointer(Flows(TRUE), f)' = CallsByPointer(Flows(TRUE), f)
<1>1. Flows(TRUE)' = Flows(TRUE)
  BY DEF Flows, FlowOn, Feeds, BodyOf, Within
<1>2. Fitting' = Fitting
  BY <1>1 DEF Fitting
<1>3. \A f : BodyOf(f)' = BodyOf(f)
  BY DEF BodyOf
<1>4. \A f : CallsByName(f)' = CallsByName(f) /\ willIncludeInGraph(f)' = willIncludeInGraph(f)
  BY <1>3 DEF CallsByName, willIncludeInGraph
<1>5. \A f : CallsByPointer(Flows(TRUE), f)' = CallsByPointer(Flows(TRUE), f)
  BY <1>1, <1>3 DEF CallsByPointer
<1> QED
  BY <1>1, <1>2, <1>4, <1>5

\* What edges from f, to those of C that have a node, leave as it was and what they change.
Joined(f, C, ch, pa, cs) ==
  /\ ch \in [Function -> Seq(Function)] /\ pa \in [Function -> Seq(Function)]
  /\ cs \in Seq(Function \X Function \X Nat)
  /\ \A h \in Function : ToSet(ch[h]) \subseteq CallsByName(h) \cup CallsByPointer(Flows(TRUE), h)
  /\ \A h \in Function : ToSet(children[h]) \subseteq ToSet(ch[h])
  /\ C \cap nodes \subseteq ToSet(ch[f])
  /\ \A h, g \in Function : Occurs(g, children[h]) \in Nat /\ Occurs(g, ch[h]) \in Nat
  /\ \A h, g \in Function : h # f => Occurs(g, ch[h]) = Occurs(g, children[h])
  /\ \A g \in Function : \/ Occurs(g, ch[f]) = Occurs(g, children[f])
                         \/ Occurs(g, ch[f]) = Occurs(g, children[f]) + 1 /\ g \in C
  /\ \A g \in Function : parents[g] # <<>> => pa[g] # <<>>
  /\ ch[f] = <<>> => pa = parents

\* Edges for calls of a function with a node keep the graph in order.
LEMMA EdgesAdded ==
  ASSUME Types, Mirrored, Called, UNCHANGED <<program, nodes>>,
         NEW f \in nodes, NEW calls \in Seq(Function \X Nat), addEdges(f, calls),
         Callees(calls) \subseteq CallsByName(f) \cup CallsByPointer(Flows(TRUE), f),
         NEW ch, ch = children', NEW pa, pa = parents', NEW cs, cs = callsites'
  PROVE  Mirrored' /\ Joined(f, Callees(calls), ch, pa, cs)
<1> DEFINE New == Callees(calls) \cap nodes
<1>1. /\ children \in [Function -> Seq(Function)] /\ parents \in [Function -> Seq(Function)]
      /\ callsites \in Seq(Function \X Function \X Nat) /\ nodes \subseteq Function /\ f \in Function
  BY DEF Types
<1>2. New = Callees(calls) \cap nodes
  OBVIOUS
<1> HIDE DEF New
<1>3. /\ ch \in [Function -> Seq(Function)] /\ pa \in [Function -> Seq(Function)]
      /\ cs \in Seq(Function \X Function \X Nat)
      /\ \A h, g \in Function :
           /\ Occurs(g, ch[h]) = Occurs(g, children[h]) + (IF h = f /\ g \in New THEN 1 ELSE 0)
           /\ Occurs(h, pa[g]) = Occurs(h, parents[g]) + (IF h = f /\ g \in New THEN 1 ELSE 0)
      /\ \A h \in Function : ToSet(ch[h]) = ToSet(children[h]) \cup (IF h = f THEN New ELSE {})
      /\ \A g \in Function : ToSet(pa[g]) = ToSet(parents[g]) \cup (IF g \in New THEN {f} ELSE {})
      /\ ToSet(callsites) \subseteq ToSet(cs)
      /\ \A g \in New : \E c \in ToSet(cs) : c[1] = f /\ c[2] = g
  <2>1. Added(f, New, ch, pa, cs)
    BY <1>1, <1>2, AddEdgesFacts
  <2> QED
    BY <2>1 DEF Added
<1>4. \A h, g \in Function : Occurs(g, children[h]) \in Nat /\ Occurs(g, ch[h]) \in Nat
  BY <1>1, <1>3, OccursFacts
<1>5. \A h, g \in Function : Occurs(g, ch[h]) = Occurs(h, pa[g])
  <2> TAKE h, g \in Function
  <2>1. Occurs(g, children[h]) = Occurs(h, parents[g])
    BY DEF Mirrored
  <2> QED
    BY <1>3, <2>1
<1>6. \A h, g \in Function : g \in ToSet(ch[h]) => {h, g} \subseteq nodes /\ \E c \in ToSet(cs) : c[1] = h /\ c[2] = g
  <2> SUFFICES ASSUME NEW h \in Function, NEW g \in Function, g \in ToSet(ch[h])
               PROVE  {h, g} \subseteq nodes /\ \E c \in ToSet(cs) : c[1] = h /\ c[2] = g
    OBVIOUS
  <2>1. CASE g \in ToSet(children[h])
    <3>1. {h, g} \subseteq nodes /\ \E c \in ToSet(callsites) : c[1] = h /\ c[2] = g
      BY <2>1 DEF Mirrored
    <3> QED
      BY <1>3, <3>1
  <2>2. CASE g \notin ToSet(children[h])
    <3>1. h = f /\ g \in New
      BY <1>3, <2>2
    <3> QED
      BY <1>2, <1>3, <3>1
  <2> QED
    BY <2>1, <2>2
<1>7. Mirrored'
  <2>1. nodes' = nodes /\ children' = ch /\ parents' = pa /\ callsites' = cs
    OBVIOUS
  <2> QED
    BY <1>5, <1>6, <2>1 DEF Mirrored
<1>8. \A h \in Function : ToSet(ch[h]) \subseteq CallsByName(h) \cup CallsByPointer(Flows(TRUE), h)
  <2>1. \A h \in Function : ToSet(children[h]) \subseteq CallsByName(h) \cup CallsByPointer(Flows(TRUE), h)
    BY DEF Called
  <2>2. New \subseteq CallsByName(f) \cup CallsByPointer(Flows(TRUE), f)
    BY <1>2
  <2>3. ASSUME NEW h \in Function PROVE ToSet(ch[h]) \subseteq CallsByName(h) \cup CallsByPointer(Flows(TRUE), h)
    <3>1. ToSet(ch[h]) = ToSet(children[h]) \cup (IF h = f THEN New ELSE {})
      BY <1>3
    <3>2. CASE h = f
      BY <2>1, <2>2, <3>1, <3>2
    <3>3. CASE h # f
      BY <2>1, <3>1, <3>3
    <3> QED
      BY <3>2, <3>3
  <2> QED
    BY <2>3
<1>9. \A h, g \in Function : h # f => Occurs(g, ch[h]) = Occurs(g, children[h])
  BY <1>3, <1>4
<1>10. ASSUME NEW g \in Function
       PROVE  \/ Occurs(g, ch[f]) = Occurs(g, children[f])
              \/ Occurs(g, ch[f]) = Occurs(g, children[f]) + 1 /\ g \in Callees(calls)
  <2>1. Occurs(g, ch[f]) = Occurs(g, children[f]) + (IF g \in New THEN 1 ELSE 0) /\ Occurs(g, children[f]) \in Nat
    BY <1>1, <1>3, <1>4
  <2>2. CASE g \in New
    BY <1>2, <2>1, <2>2
  <2>3. CASE g \notin New
    BY <2>1, <2>3
  <2> QED
    BY <2>2, <2>3
<1>11. \A g \in Function : parents[g] # <<>> => pa[g] # <<>>
  <2> TAKE g \in Function
  <2>1. parents[g] \in Seq(Function) /\ pa[g] \in Seq(Function) /\ ToSet(parents[g]) \subseteq ToSet(pa[g])
    BY <1>1, <1>3
  <2>2. parents[g] = <<>> <=> ToSet(parents[g]) = {}
    BY <2>1, EmptyList
  <2>3. pa[g] = <<>> <=> ToSet(pa[g]) = {}
    BY <2>1, EmptyList
  <2> QED
    BY <2>1, <2>2, <2>3
<1>12. ASSUME ch[f] = <<>> PROVE pa = parents
  <2>1. New = {}
    BY <1>1, <1>3, <1>12, EmptyList
  <2>2. PICK known : /\ known = Within(calls, nodes \X Nat)
                     /\ \E new \in {NoteOnce([k \in DOMAIN known |-> known[k][1]])} :
                          /\ children' = [children EXCEPT ![f] = @ \o new]
                          /\ parents' = [g \in Function |-> IF g \in ToSet(new) THEN Append(parents[g], f) ELSE parents[g]]
                          /\ callsites' = callsites \o [k \in DOMAIN known |-> <<f, known[k][1], known[k][2]>>]
    BY DEF addEdges
  <2>3. PICK new : /\ ch = [children EXCEPT ![f] = @ \o new]
                   /\ pa = [g \in Function |-> IF g \in ToSet(new) THEN Append(parents[g], f) ELSE parents[g]]
    BY <2>2
  <2>4. \A g \in Function : pa[g] = parents[g]
    <3> TAKE g \in Function
    <3>1. Occurs(f, pa[g]) = Occurs(f, parents[g]) + (IF g \in New THEN 1 ELSE 0)
      BY <1>1, <1>3
    <3>10. Occurs(f, parents[g]) \in Nat
      BY <1>1, OccursFacts
    <3>11. Occurs(f, pa[g]) = Occurs(f, parents[g])
      BY <2>1, <3>1, <3>10
    <3>2. CASE g \in ToSet(new)
      <4>1. pa[g] = Append(parents[g], f)
        BY <2>3, <3>2
      <4>2. Occurs(f, Append(parents[g], f)) = Occurs(f, parents[g]) + 1
        BY <1>1, OccursAppend
      <4> QED
        BY <3>10, <3>11, <4>1, <4>2
    <3>3. CASE g \notin ToSet(new)
      BY <2>3, <3>3
    <3> QED
      BY <3>2, <3>3
  <2>5. pa = [g \in Function |-> pa[g]] /\ parents = [g \in Function |-> parents[g]]
    BY <1>1, <1>3
  <2> QED
    BY <2>4, <2>5
<1>13. (\A h \in Function : ToSet(children[h]) \subseteq ToSet(ch[h])) /\ New \subseteq ToSet(ch[f])
  BY <1>1, <1>3
<1> QED
  BY <1>2, <1>3, <1>4, <1>7, <1>8, <1>9, <1>10, <1>11, <1>12, <1>13 DEF Joined

LEMMA InitHolds ==
  ASSUME Init
  PROVE  GraphInv
<1>1. program \in Programs /\ program.functions \in Seq(Function)
  BY ProgramsAssumption DEF Init, IsProgram
<1> DEFINE none == <<>>
<1>2. none \in Seq(Function) /\ none \in Seq(Function \X Function \X Nat) /\ ToSet(none) = {} /\ Distinct(none)
  BY DEF ToSet, Distinct
<1>3. \A f, g \in Function : children[f] = none /\ parents[g] = none
  BY DEF Init
<1>4. \A g : Occurs(g, none) = 0
  BY <1>2, OccursFacts
<1> HIDE DEF none
<1>5. Types
  <2>1. none \in Fitting
    <3>1. none \in [{} -> SUBSET Function] /\ DOMAIN none = {}
      BY DEF none
    <3> QED
      BY <3>1 DEF Fitting
  <2>2. \A f \in nodes : f \in Function /\ willIncludeInGraph(f)
    BY <1>1 DEF Init, ToSet
  <2>3. children = [f \in Function |-> none] /\ parents = [f \in Function |-> none]
    BY DEF Init, none
  <2> QED
    BY <1>1, <1>2, <2>1, <2>2, <2>3 DEF Init, Types, none
<1>6. Walking
  BY <1>2, ProgramsAssumption DEF Init, Walking, none
<1>7. Mirrored
  BY <1>2, <1>3, <1>4 DEF Mirrored
<1>8. Counted
  <2>1. Len(topLevelFunctions) = 0 /\ \A f : ~Ahead(f)
    BY DEF Init, Ahead
  <2> QED
    BY <1>3, <1>4, <2>1 DEF Counted
<1>9. Called
  BY <1>2, <1>3 DEF Called, Init
<1>10. Covered
  BY <1>2 DEF Covered, Init, none
<1> QED
  BY <1>5, <1>6, <1>7, <1>8, <1>9, <1>10 DEF GraphInv

LEMMA processCalleeKeeps ==
  ASSUME GraphInv, processCallee
  PROVE  GraphInv'
<1>1. PICK f \in unprocessed :
        /\ \E calls \in {CalledFunctions(f)} : addEdges(f, [k \in DOMAIN calls |-> <<calls[k].to, calls[k].site>>])
        /\ unprocessed' = unprocessed \ {f}
        /\ UNCHANGED <<program, nodes, unchecked, topLevelFunctions, entry, walk>>
  BY DEF processCallee
<1>2. PICK cs : /\ addEdges(f, cs)
                /\ \E calls \in {CalledFunctions(f)} : cs = [k \in DOMAIN calls |-> <<calls[k].to, calls[k].site>>]
  BY <1>1
<1>3. Types /\ Walking /\ Mirrored /\ Counted /\ Called /\ Covered
  BY DEF GraphInv
<1>4. program \in Programs /\ f \in nodes /\ f \in Function /\ nodes \subseteq Function /\ \A g \in nodes : willIncludeInGraph(g)
  BY <1>3 DEF Types
<1>5. /\ cs \in Seq(Function \X Nat) /\ Callees(cs) \subseteq CallsByName(f)
      /\ \A g \in CallsByName(f) : willIncludeInGraph(g) => g \in Callees(cs)
  BY <1>2, <1>4, NamedCalls
<1>6. PICK ch, pa, csi : ch = children' /\ pa = parents' /\ csi = callsites'
  OBVIOUS
<1>7. Mirrored' /\ Joined(f, Callees(cs), ch, pa, csi)
  <2>1. UNCHANGED <<program, nodes>>
    BY <1>1
  <2>2. Callees(cs) \subseteq CallsByName(f) \cup CallsByPointer(Flows(TRUE), f)
    BY <1>5
  <2> QED
    BY <1>2, <1>3, <1>4, <1>5, <1>6, <2>1, <2>2, EdgesAdded
<1>8. /\ Flows(TRUE)' = Flows(TRUE) /\ Fitting' = Fitting
      /\ \A h : CallsByName(h)' = CallsByName(h) /\ willIncludeInGraph(h)' = willIncludeInGraph(h)
      /\ \A h : CallsByPointer(Flows(TRUE), h)' = CallsByPointer(Flows(TRUE), h)
  BY <1>1, Static
<1>9. entry = Null /\ topLevelFunctions = <<>> /\ topOrderQueue = <<>> /\ Len(topLevelFunctions) = 0
  BY <1>1, <1>3 DEF Walking
<1>10. /\ program' = program /\ nodes' = nodes /\ unchecked' = unchecked /\ topLevelFunctions' = topLevelFunctions
       /\ entry' = entry /\ topOrderQueue' = topOrderQueue /\ visitInAll' = visitInAll /\ mayPointTo' = mayPointTo
       /\ unprocessed' = unprocessed \ {f} /\ f \in unprocessed
  BY <1>1 DEF walk
<1>11. Types'
  BY <1>3, <1>6, <1>7, <1>8, <1>10 DEF Types, Joined
<1>12. Walking'
  BY <1>3, <1>9, <1>10 DEF Walking
<1>13. Counted'
  <2>1. \A h : ~Ahead(h) /\ ~Ahead(h)'
    BY <1>9, <1>10 DEF Ahead
  <2>2. ASSUME NEW h \in Function, NEW g \in Function
        PROVE  Occurs(g, ch[h]) <= 0 + (IF g \in CallsByName(h) /\ h \notin unprocessed' THEN 1 ELSE 0)
    <3>1. Occurs(g, children[h]) + 0 <= 0 + (IF g \in CallsByName(h) /\ h \notin unprocessed THEN 1 ELSE 0)
      BY <1>3, <1>9, <2>1 DEF Counted
    <3>2. Occurs(g, children[h]) \in Nat /\ Occurs(g, ch[h]) \in Nat
      BY <1>7 DEF Joined
    <3>3. CASE h = f
      <4>1. Occurs(g, children[f]) = 0
        BY <1>10, <3>1, <3>2, <3>3
      <4>2. Occurs(g, ch[f]) = 0 \/ (Occurs(g, ch[f]) = 1 /\ g \in CallsByName(f))
        BY <1>5, <1>7, <4>1 DEF Joined
      <4> QED
        BY <1>10, <3>3, <4>2
    <3>4. CASE h # f
      <4>1. Occurs(g, ch[h]) = Occurs(g, children[h]) /\ (h \in unprocessed' <=> h \in unprocessed)
        BY <1>7, <1>10, <3>4 DEF Joined
      <4> QED
        BY <3>1, <3>2, <4>1
    <3> QED
      BY <3>3, <3>4
  <2>3. Len(topLevelFunctions') = 0 /\ children' = ch /\ \A h : CallsByName(h)' = CallsByName(h)
    BY <1>6, <1>8, <1>9, <1>10
  <2>4. ASSUME NEW h \in Function, NEW g \in Function
        PROVE  Occurs(g, children'[h]) + (IF Ahead(h)' THEN 1 ELSE 0)
                 <= Len(topLevelFunctions') + (IF g \in CallsByName(h)' /\ h \notin unprocessed' THEN 1 ELSE 0)
    <3>1. Occurs(g, ch[h]) \in Nat
      BY <1>7 DEF Joined
    <3> QED
      BY <2>1, <2>2, <2>3, <3>1
  <2> QED
    BY <2>4 DEF Counted
<1>14. Called'
  <2>1. \A h \in Function : ToSet(children'[h]) \subseteq CallsByName(h)' \cup CallsByPointer(Flows(TRUE), h)'
    BY <1>6, <1>7, <1>8 DEF Joined
  <2>2. ASSUME NEW h \in nodes \ unprocessed' PROVE CallsByName(h) \cap nodes \subseteq ToSet(ch[h])
    <3>1. CASE h = f
      BY <1>4, <1>5, <1>7, <3>1 DEF Joined
    <3>2. CASE h # f
      BY <1>3, <1>4, <1>7, <1>10, <2>2, <3>2 DEF Called, Joined
    <3> QED
      BY <3>1, <3>2
  <2> QED
    BY <1>6, <1>8, <1>10, <2>1, <2>2 DEF Called
<1>15. Covered'
  <2>1. ToSet(topLevelFunctions) = {}
    BY <1>9 DEF ToSet
  <2> QED
    BY <1>3, <1>4, <1>6, <1>7, <1>10, <2>1 DEF Covered, Joined
<1> QED
  BY <1>7, <1>11, <1>12, <1>13, <1>14, <1>15 DEF GraphInv

LEMMA pushTopLevelKeeps ==
  ASSUME GraphInv, pushTopLevel
  PROVE  GraphInv'
<1>1. PICK f : f = Head(unchecked)
  OBVIOUS
<1>2. /\ unprocessed = {} /\ unchecked # <<>> /\ entry = Null
      /\ f \in nodes /\ parents[f] = <<>>
      /\ topLevelFunctions' = Append(topLevelFunctions, f) /\ entry' = f
      /\ IF showFunctionPtr THEN topOrderQueue' = <<f>> /\ visitInAll' = {f} /\ mayPointTo' = <<>> ELSE UNCHANGED walk
      /\ UNCHANGED <<program, graph, unprocessed, unchecked>>
  BY <1>1 DEF pushTopLevel, NextFunction
<1>3. Types /\ Walking /\ Mirrored /\ Counted /\ Called /\ Covered
  BY DEF GraphInv
<1>4. /\ program' = program /\ nodes' = nodes /\ parents' = parents /\ children' = children /\ callsites' = callsites
      /\ unprocessed' = unprocessed /\ unchecked' = unchecked
  BY <1>2 DEF graph
<1>5. f \in Function /\ nodes \subseteq Function /\ topLevelFunctions \in Seq(Function) /\ unchecked \in Seq(Function)
  BY <1>2, <1>3 DEF Types
<1>6. PICK top : top = topLevelFunctions'
  OBVIOUS
<1>7. /\ top \in Seq(Function) /\ Len(top) = Len(topLevelFunctions) + 1 /\ Len(topLevelFunctions) \in Nat
      /\ ToSet(top) = ToSet(topLevelFunctions) \cup {f}
  BY <1>2, <1>5, <1>6, AppendFacts
<1>8. /\ Flows(TRUE)' = Flows(TRUE) /\ Fitting' = Fitting
      /\ \A h : CallsByName(h)' = CallsByName(h) /\ willIncludeInGraph(h)' = willIncludeInGraph(h)
      /\ \A h : CallsByPointer(Flows(TRUE), h)' = CallsByPointer(Flows(TRUE), h)
  BY <1>4, Static
<1> DEFINE none == <<>>
           one == <<f>>
<1>9. /\ none \in Fitting /\ one \in Seq(Function) /\ Distinct(one) /\ ToSet(one) = {f}
  <2>1. none \in [{} -> SUBSET Function] /\ DOMAIN none = {}
    OBVIOUS
  <2>2. none \in Fitting
    BY <2>1 DEF Fitting
  <2> QED
    BY <1>5, <2>2 DEF Distinct, ToSet
<1>10. \/ showFunctionPtr /\ topOrderQueue' = one /\ visitInAll' = {f} /\ mayPointTo' = none
       \/ ~showFunctionPtr /\ topOrderQueue' = topOrderQueue /\ visitInAll' = visitInAll /\ mayPointTo' = mayPointTo
  BY <1>2 DEF walk
<1> HIDE DEF none, one
<1>11. Types'
  <2>1. topOrderQueue' \in Seq(Function) /\ visitInAll' \subseteq Function /\ mayPointTo' \in Fitting
    BY <1>3, <1>5, <1>9, <1>10 DEF Types
  <2> QED
    BY <1>2, <1>3, <1>4, <1>5, <1>6, <1>7, <1>8, <2>1 DEF Types
<1>12. Walking'
  <2>1. unprocessed' = {} /\ entry' = f /\ f # Null
    BY <1>2, <1>4, <1>5, ProgramsAssumption
  <2>2. /\ ~showFunctionPtr => topOrderQueue' = <<>> /\ visitInAll' = {}
        /\ Distinct(topOrderQueue') /\ ToSet(topOrderQueue') \subseteq visitInAll' \cap nodes
        /\ visitInAll' \subseteq {f}
    BY <1>2, <1>3, <1>9, <1>10 DEF Walking
  <2>3. f \in ToSet(topLevelFunctions')
    BY <1>6, <1>7
  <2> QED
    BY <1>1, <1>2, <1>4, <2>1, <2>2, <2>3 DEF Walking
<1>13. Mirrored'
  BY <1>3, <1>4 DEF Mirrored
<1>14. Counted'
  <2>1. \A h : ~Ahead(h)
    BY <1>2 DEF Ahead
  <2>2. ASSUME NEW h \in Function, NEW g \in Function
        PROVE  Occurs(g, children'[h]) + (IF Ahead(h)' THEN 1 ELSE 0)
                 <= Len(topLevelFunctions') + (IF g \in CallsByName(h)' /\ h \notin unprocessed' THEN 1 ELSE 0)
    <3>1. PICK c : c = (IF g \in CallsByName(h) /\ h \notin unprocessed THEN 1 ELSE 0)
      OBVIOUS
    <3>2. Occurs(g, children[h]) + 0 <= Len(topLevelFunctions) + c /\ c \in Nat
      BY <1>3, <2>1, <3>1 DEF Counted
    <3>3. children[h] \in Seq(Function)
      BY <1>3 DEF Types
    <3>4. Occurs(g, children[h]) \in Nat
      BY <3>3, OccursFacts
    <3>5. Occurs(g, children[h]) + 1 <= Len(top) + c /\ Occurs(g, children[h]) + 0 <= Len(top) + c
      BY <1>7, <3>2, <3>4
    <3>6. CallsByName(h)' = CallsByName(h)
      BY <1>8
    <3>7. c = (IF g \in CallsByName(h)' /\ h \notin unprocessed' THEN 1 ELSE 0)
      BY <1>4, <3>1, <3>6
    <3> QED
      BY <1>4, <1>6, <3>5, <3>7
  <2> QED
    BY <2>2 DEF Counted
<1>15. Called'
  BY <1>3, <1>4, <1>8 DEF Called
<1>16. Covered'
  <2>1. ASSUME NEW g \in nodes PROVE f \notin CallsByName(g)
    <3>1. SUFFICES ASSUME f \in CallsByName(g) PROVE FALSE
      OBVIOUS
    <3>2. f \in ToSet(children[g])
      BY <1>2, <1>3, <3>1 DEF Called
    <3>3. g \in Function /\ children[g] \in Seq(Function) /\ parents[f] \in Seq(Function)
      BY <1>3, <1>5 DEF Types
    <3>4. Occurs(f, children[g]) # 0
      BY <3>2, <3>3, OccursFacts
    <3>5. Occurs(g, parents[f]) # 0
      BY <1>3, <1>5, <3>3, <3>4 DEF Mirrored
    <3>6. g \in ToSet(parents[f])
      BY <3>3, <3>5, OccursFacts
    <3>7. ToSet(parents[f]) = {}
      BY <1>2, <3>3, EmptyList
    <3> QED
      BY <3>6, <3>7
  <2> QED
    BY <1>3, <1>4, <1>6, <1>7, <1>8, <2>1 DEF Covered
<1> QED
  BY <1>11, <1>12, <1>13, <1>14, <1>15, <1>16 DEF GraphInv

LEMMA skipCalledKeeps ==
  ASSUME GraphInv, skipCalled
  PROVE  GraphInv'
<1>1. PICK f : f = Head(unchecked)
  OBVIOUS
<1>2. /\ unprocessed = {} /\ unchecked # <<>> /\ entry = Null
      /\ ~(f \in nodes /\ parents[f] = <<>>)
      /\ unchecked' = Tail(unchecked)
  BY <1>1 DEF skipCalled, NextFunction
<1>3. Types /\ Walking /\ Mirrored /\ Counted /\ Called /\ Covered
  BY DEF GraphInv
<1>4. /\ program' = program /\ nodes' = nodes /\ parents' = parents /\ children' = children /\ callsites' = callsites
      /\ unprocessed' = unprocessed /\ topLevelFunctions' = topLevelFunctions /\ entry' = entry
      /\ topOrderQueue' = topOrderQueue /\ visitInAll' = visitInAll /\ mayPointTo' = mayPointTo
  BY DEF skipCalled, graph, walk
<1>5. unchecked \in Seq(Function)
  BY <1>3 DEF Types
<1>6. unchecked' \in Seq(Function) /\ ToSet(unchecked) = {f} \cup ToSet(unchecked')
  BY <1>1, <1>2, <1>5, TailFacts
<1>7. /\ Flows(TRUE)' = Flows(TRUE) /\ Fitting' = Fitting
      /\ \A h : CallsByName(h)' = CallsByName(h) /\ willIncludeInGraph(h)' = willIncludeInGraph(h)
      /\ \A h : CallsByPointer(Flows(TRUE), h)' = CallsByPointer(Flows(TRUE), h)
  BY <1>4, Static
<1>8. Types'
  BY <1>3, <1>4, <1>6, <1>7 DEF Types
<1>9. Walking'
  BY <1>2, <1>3, <1>4 DEF Walking
<1>10. Mirrored'
  BY <1>3, <1>4 DEF Mirrored
<1>11. Counted'
  <2>1. \A h : Ahead(h)' = Ahead(h)
    BY <1>4 DEF Ahead
  <2> QED
    BY <1>3, <1>4, <1>7, <2>1 DEF Counted
<1>12. Called'
  BY <1>3, <1>4, <1>7 DEF Called
<1>13. Covered'
  BY <1>2, <1>3, <1>4, <1>6, <1>7 DEF Covered
<1> QED
  BY <1>8, <1>9, <1>10, <1>11, <1>12, <1>13 DEF GraphInv

LEMMA processFunctionPtrInTopOrderKeeps ==
  ASSUME GraphInv, processFunctionPtrInTopOrder
  PROVE  GraphInv'
<1>1. PICK f, ch, pa, csi : f = Head(topOrderQueue) /\ ch = children' /\ pa = parents' /\ csi = callsites'
  OBVIOUS
<1>2. PICK unseen : unseen = Within(NoteOnce(ch[f]), nodes \ visitInAll)
  OBVIOUS
<1>3. /\ topOrderQueue # <<>>
      /\ \E calls \in {PointerCalls(f)} : addEdges(f, calls)
      /\ mayPointTo' = After(f, Len(BodyOf(f)))
      /\ topOrderQueue' = Tail(topOrderQueue) \o unseen /\ visitInAll' = visitInAll \cup ToSet(unseen)
      /\ UNCHANGED <<program, nodes, unprocessed, unchecked, topLevelFunctions, entry>>
  BY <1>1, <1>2 DEF processFunctionPtrInTopOrder, WithoutHead
<1>4. PICK calls : addEdges(f, calls) /\ calls = PointerCalls(f)
  BY <1>3
<1>5. Types /\ Walking /\ Mirrored /\ Counted /\ Called /\ Covered
  BY DEF GraphInv
<1>6. /\ program' = program /\ nodes' = nodes /\ unprocessed' = unprocessed /\ unchecked' = unchecked
      /\ topLevelFunctions' = topLevelFunctions /\ entry' = entry
  BY <1>3
<1>7. /\ program \in Programs /\ mayPointTo \in Fitting /\ topOrderQueue \in Seq(Function)
      /\ topLevelFunctions \in Seq(Function) /\ nodes \subseteq Function /\ visitInAll \subseteq Function
  BY <1>5 DEF Types
<1>8. PICK rest : rest = Tail(topOrderQueue)
  OBVIOUS
<1>9. /\ rest \in Seq(Function) /\ ToSet(topOrderQueue) = {f} \cup ToSet(rest)
      /\ Distinct(rest) /\ f \notin ToSet(rest) /\ f \in visitInAll /\ f \in nodes /\ f \in Function
      /\ ToSet(rest) \subseteq visitInAll \cap nodes
  <2>1. Distinct(topOrderQueue) /\ ToSet(topOrderQueue) \subseteq visitInAll \cap nodes
    BY <1>5 DEF Walking
  <2>2. /\ rest \in Seq(Function) /\ ToSet(topOrderQueue) = {f} \cup ToSet(rest)
        /\ Distinct(rest) /\ f \notin ToSet(rest) /\ f \in Function
    BY <1>1, <1>3, <1>7, <1>8, <2>1, TailFacts
  <2> QED
    BY <2>1, <2>2
<1>10. calls \in Seq(Function \X Nat) /\ Callees(calls) \subseteq CallsByPointer(Flows(TRUE), f)
  BY <1>4, <1>7, <1>9, PointerCallsFacts
<1>11. Mirrored' /\ Joined(f, Callees(calls), ch, pa, csi)
  <2>1. UNCHANGED <<program, nodes>>
    BY <1>6
  <2>2. Callees(calls) \subseteq CallsByName(f) \cup CallsByPointer(Flows(TRUE), f)
    BY <1>10
  <2> QED
    BY <1>1, <1>4, <1>5, <1>9, <1>10, <2>1, <2>2, EdgesAdded
<1>12. /\ unseen \in Seq(Function) /\ Distinct(unseen) /\ ToSet(unseen) = ToSet(ch[f]) \cap (nodes \ visitInAll)
  <2>1. ch[f] \in Seq(Function)
    BY <1>9, <1>11 DEF Joined
  <2>2. NoteOnce(ch[f]) \in Seq(Function) /\ Distinct(NoteOnce(ch[f])) /\ ToSet(NoteOnce(ch[f])) = ToSet(ch[f])
    BY <2>1, NoteOnceFacts
  <2>3. unseen \in Seq(Function) /\ ToSet(unseen) = ToSet(NoteOnce(ch[f])) \cap (nodes \ visitInAll)
    BY <1>2, <2>2, WithinFacts
  <2>4. Distinct(unseen)
    BY <1>2, <2>2, WithinOrder
  <2> QED
    BY <2>2, <2>3, <2>4
<1>13. PICK queue, seen : queue = topOrderQueue' /\ seen = visitInAll'
  OBVIOUS
<1>14. /\ queue \in Seq(Function) /\ Distinct(queue) /\ ToSet(queue) = ToSet(rest) \cup ToSet(unseen)
       /\ seen = visitInAll \cup ToSet(unseen)
  <2>1. queue = rest \o unseen /\ seen = visitInAll \cup ToSet(unseen)
    BY <1>3, <1>8, <1>13
  <2>2. ToSet(rest) \cap ToSet(unseen) = {}
    BY <1>9, <1>12
  <2>3. queue \in Seq(Function) /\ ToSet(queue) = ToSet(rest) \cup ToSet(unseen)
    BY <1>9, <1>12, <2>1, ConcatFacts
  <2>4. Distinct(queue)
    BY <1>9, <1>12, <2>1, <2>2, ConcatDistinct
  <2> QED
    BY <2>1, <2>3, <2>4
<1>15. entry # Null /\ unprocessed = {} /\ showFunctionPtr
  BY <1>3, <1>5 DEF Walking
<1>16. /\ Flows(TRUE)' = Flows(TRUE) /\ Fitting' = Fitting
       /\ \A h : CallsByName(h)' = CallsByName(h) /\ willIncludeInGraph(h)' = willIncludeInGraph(h)
       /\ \A h : CallsByPointer(Flows(TRUE), h)' = CallsByPointer(Flows(TRUE), h)
  BY <1>6, Static
<1>17. Types'
  <2>1. mayPointTo' \in Fitting
    <3>1. Len(BodyOf(f)) \in 0..Len(BodyOf(f))
      BY <1>7, <1>9, BodyFacts
    <3> QED
      BY <1>3, <1>7, <1>9, <3>1, AfterFits
  <2>2. seen \subseteq Function
    BY <1>7, <1>12, <1>14
  <2> QED
    BY <1>1, <1>5, <1>6, <1>11, <1>13, <1>14, <1>16, <2>1, <2>2 DEF Types, Joined
<1>18. Walking'
  <2>1. ToSet(queue) \subseteq seen \cap nodes
    BY <1>9, <1>12, <1>14
  <2>2. entry \in nodes /\ unchecked # <<>> /\ entry = Head(unchecked) /\ entry \in ToSet(topLevelFunctions)
    BY <1>5, <1>15 DEF Walking
  <2>3. ASSUME ch[entry] = <<>> PROVE pa[entry] = <<>> /\ seen \subseteq {entry}
    <3>1. /\ entry \in Function /\ children[entry] \in Seq(Function) /\ ch[entry] \in Seq(Function)
          /\ ToSet(children[entry]) \subseteq ToSet(ch[entry])
      BY <1>5, <1>7, <1>11, <2>2 DEF Types, Joined
    <3>2. ToSet(ch[entry]) = {}
      BY <2>3, <3>1, EmptyList
    <3>3. children[entry] = <<>>
      BY <3>1, <3>2, EmptyList
    <3>4. parents[entry] = <<>> /\ visitInAll \subseteq {entry}
      BY <1>5, <1>15, <3>3 DEF Walking
    <3>5. f = entry
      BY <1>9, <3>4
    <3>6. pa = parents
      BY <1>11, <2>3, <3>5 DEF Joined
    <3> QED
      BY <1>12, <1>14, <3>2, <3>4, <3>5, <3>6
  <2> QED
    BY <1>1, <1>6, <1>13, <1>14, <1>15, <2>1, <2>2, <2>3 DEF Walking
<1>19. Counted'
  <2>1. ASSUME NEW h \in Function, NEW g \in Function
        PROVE  Occurs(g, ch[h]) + (IF Ahead(h)' THEN 1 ELSE 0)
                 <= Len(topLevelFunctions) + (IF g \in CallsByName(h) /\ h \notin unprocessed THEN 1 ELSE 0)
    <3>1. PICK c : c = Len(topLevelFunctions) + (IF g \in CallsByName(h) /\ h \notin unprocessed THEN 1 ELSE 0)
      OBVIOUS
    <3>2. c \in Nat /\ Occurs(g, children[h]) + (IF Ahead(h) THEN 1 ELSE 0) <= c
      BY <1>5, <1>7, <3>1 DEF Counted
    <3>3. Occurs(g, children[h]) \in Nat /\ Occurs(g, ch[h]) \in Nat
      BY <1>11 DEF Joined
    <3>4. CASE h = f
      <4>1. Ahead(f)
        BY <1>9, <1>15 DEF Ahead
      <4>2. ~Ahead(f)'
        <5>1. f \notin ToSet(queue) /\ f \in seen
          BY <1>9, <1>12, <1>14
        <5> QED
          BY <1>13, <5>1 DEF Ahead
      <4>3. Occurs(g, ch[f]) = Occurs(g, children[f]) \/ Occurs(g, ch[f]) = Occurs(g, children[f]) + 1
        BY <1>11 DEF Joined
      <4>4. Occurs(g, children[f]) + 1 <= c
        BY <3>2, <3>4, <4>1
      <4>5. Occurs(g, ch[f]) + 0 <= c
        BY <3>2, <3>3, <3>4, <4>3, <4>4
      <4> QED
        BY <3>1, <3>4, <4>2, <4>5
    <3>5. CASE h # f
      <4>1. Ahead(h)' => Ahead(h)
        <5>1. h \in ToSet(queue) => h \in ToSet(topOrderQueue) \/ h \notin visitInAll
          BY <1>9, <1>12, <1>14
        <5>2. h \notin seen => h \notin visitInAll
          BY <1>14
        <5> QED
          BY <1>13, <1>15, <5>1, <5>2 DEF Ahead
      <4>2. Occurs(g, ch[h]) = Occurs(g, children[h])
        BY <1>11, <3>5 DEF Joined
      <4> QED
        BY <3>1, <3>2, <3>3, <4>1, <4>2
    <3> QED
      BY <3>4, <3>5
  <2> QED
    BY <1>1, <1>6, <1>16, <2>1 DEF Counted
<1>20. Called'
  <2>1. \A h \in Function : ToSet(children'[h]) \subseteq CallsByName(h)' \cup CallsByPointer(Flows(TRUE), h)'
    BY <1>1, <1>11, <1>16 DEF Joined
  <2>2. ASSUME NEW h \in nodes \ unprocessed PROVE CallsByName(h) \cap nodes \subseteq ToSet(ch[h])
    <3>1. CallsByName(h) \cap nodes \subseteq ToSet(children[h])
      BY <1>5 DEF Called
    <3>2. ToSet(children[h]) \subseteq ToSet(ch[h])
      BY <1>7, <1>11 DEF Joined
    <3> QED
      BY <3>1, <3>2
  <2> QED
    BY <1>1, <1>6, <1>16, <2>1, <2>2 DEF Called
<1>21. Covered'
  <2>1. \A g \in nodes : parents[g] # <<>> => pa[g] # <<>>
    BY <1>7, <1>11 DEF Joined
  <2> QED
    BY <1>1, <1>5, <1>6, <1>16, <2>1 DEF Covered
<1> QED
  BY <1>11, <1>17, <1>18, <1>19, <1>20, <1>21 DEF GraphInv

LEMMA removeNoCalledSystemHeaderKeeps ==
  ASSUME GraphInv, removeNoCalledSystemHeader
  PROVE  GraphInv'
<1>1. /\ entry # Null /\ topOrderQueue = <<>>
      /\ nodes' = IF ignoreNoCalledSystemHeader /\ children[entry] = <<>> /\ entry \in program.system
                  THEN nodes \ {entry} ELSE nodes
      /\ unchecked' = Tail(unchecked) /\ entry' = Null
  BY DEF removeNoCalledSystemHeader
<1>2. /\ program' = program /\ parents' = parents /\ children' = children /\ callsites' = callsites
      /\ unprocessed' = unprocessed /\ topLevelFunctions' = topLevelFunctions
      /\ topOrderQueue' = topOrderQueue /\ visitInAll' = visitInAll /\ mayPointTo' = mayPointTo
  BY DEF removeNoCalledSystemHeader, walk
<1>3. Types /\ Walking /\ Mirrored /\ Counted /\ Called /\ Covered
  BY DEF GraphInv
<1>4. /\ unprocessed = {} /\ unchecked # <<>> /\ entry = Head(unchecked) /\ entry \in nodes
      /\ entry \in ToSet(topLevelFunctions)
      /\ children[entry] = <<>> => parents[entry] = <<>>
  BY <1>1, <1>3 DEF Walking
<1>5. /\ nodes' \subseteq nodes /\ nodes \subseteq nodes' \cup {entry}
      /\ entry \notin nodes' => children[entry] = <<>> /\ parents[entry] = <<>>
  BY <1>1, <1>4
<1>6. /\ unchecked \in Seq(Function) /\ nodes \subseteq Function /\ entry \in Function
      /\ children \in [Function -> Seq(Function)] /\ parents \in [Function -> Seq(Function)]
  BY <1>3, <1>4 DEF Types
<1>7. unchecked' \in Seq(Function) /\ ToSet(unchecked) = {entry} \cup ToSet(unchecked')
  BY <1>1, <1>4, <1>6, TailFacts
<1>8. /\ Flows(TRUE)' = Flows(TRUE) /\ Fitting' = Fitting
      /\ \A h : CallsByName(h)' = CallsByName(h) /\ willIncludeInGraph(h)' = willIncludeInGraph(h)
      /\ \A h : CallsByPointer(Flows(TRUE), h)' = CallsByPointer(Flows(TRUE), h)
  BY <1>2, Static
<1>9. Types'
  BY <1>1, <1>2, <1>3, <1>4, <1>5, <1>7, <1>8 DEF Types
<1>10. Walking'
  <2>1. ToSet(topOrderQueue) = {} /\ Distinct(topOrderQueue)
    BY <1>1 DEF ToSet, Distinct
  <2>2. ~showFunctionPtr => visitInAll = {}
    BY <1>3 DEF Walking
  <2> QED
    BY <1>1, <1>2, <1>4, <2>1, <2>2 DEF Walking
<1>11. Mirrored'
  <2>1. ASSUME NEW f \in Function, NEW g \in Function, g \in ToSet(children[f])
        PROVE  {f, g} \subseteq nodes' /\ \E c \in ToSet(callsites) : c[1] = f /\ c[2] = g
    <3>1. {f, g} \subseteq nodes /\ \E c \in ToSet(callsites) : c[1] = f /\ c[2] = g
      BY <1>3, <2>1 DEF Mirrored
    <3>2. CASE entry \in nodes'
      BY <1>5, <3>1, <3>2
    <3>3. CASE entry \notin nodes'
      <4>1. ToSet(children[entry]) = {} /\ ToSet(parents[entry]) = {}
        BY <1>5, <3>3 DEF ToSet
      <4>2. f # entry
        BY <2>1, <4>1
      <4>3. g # entry
        <5>1. SUFFICES ASSUME g = entry PROVE FALSE
          OBVIOUS
        <5>2. Occurs(entry, children[f]) # 0
          BY <1>6, <2>1, <5>1, OccursFacts
        <5>3. Occurs(f, parents[entry]) # 0
          BY <1>3, <1>6, <5>2 DEF Mirrored
        <5>4. f \in ToSet(parents[entry])
          BY <1>6, <5>3, OccursFacts
        <5> QED
          BY <4>1, <5>4
      <4> QED
        BY <1>5, <3>1, <4>2, <4>3
    <3> QED
      BY <3>2, <3>3
  <2>2. \A f, g \in Function : Occurs(g, children[f]) = Occurs(f, parents[g])
    BY <1>3 DEF Mirrored
  <2> QED
    BY <1>2, <2>1, <2>2 DEF Mirrored
<1>12. Counted'
  <2>1. \A h : ~Ahead(h)'
    BY <1>1 DEF Ahead
  <2>2. ASSUME NEW h \in Function, NEW g \in Function
        PROVE  Occurs(g, children[h]) + 0
                 <= Len(topLevelFunctions) + (IF g \in CallsByName(h) /\ h \notin unprocessed THEN 1 ELSE 0)
    <3>1. PICK c : c = Len(topLevelFunctions) + (IF g \in CallsByName(h) /\ h \notin unprocessed THEN 1 ELSE 0)
      OBVIOUS
    <3>2. topLevelFunctions \in Seq(Function)
      BY <1>3 DEF Types
    <3>3. c \in Nat /\ Occurs(g, children[h]) + (IF Ahead(h) THEN 1 ELSE 0) <= c
      BY <1>3, <3>1, <3>2 DEF Counted
    <3>4. Occurs(g, children[h]) \in Nat
      BY <1>6, OccursFacts
    <3>5. Occurs(g, children[h]) + 0 <= c
      BY <3>3, <3>4
    <3> QED
      BY <3>1, <3>5
  <2> QED
    BY <1>2, <1>8, <2>1, <2>2 DEF Counted
<1>13. Called'
  BY <1>2, <1>3, <1>5, <1>8 DEF Called
<1>14. Covered'
  BY <1>2, <1>3, <1>4, <1>5, <1>7, <1>8 DEF Covered
<1> QED
  BY <1>9, <1>10, <1>11, <1>12, <1>13, <1>14 DEF GraphInv

-----------------------------------------------------------------------------
(* Theorems.                                                               *)

\* The inductive invariant holds in every state of the construction: the lists of callers
\* and callees, the walk from a top-level function and what it knows of pointers.
THEOREM GraphInvariant == Spec => []GraphInv
<1>1. Init => GraphInv
  BY InitHolds
<1>2. ASSUME GraphInv, [Next]_vars PROVE GraphInv'
  <2>1. CASE processCallee
    BY <1>2, <2>1, processCalleeKeeps
  <2>2. CASE pushTopLevel
    BY <1>2, <2>2, pushTopLevelKeeps
  <2>3. CASE skipCalled
    BY <1>2, <2>3, skipCalledKeeps
  <2>4. CASE processFunctionPtrInTopOrder
    BY <1>2, <2>4, processFunctionPtrInTopOrderKeeps
  <2>5. CASE removeNoCalledSystemHeader
    BY <1>2, <2>5, removeNoCalledSystemHeaderKeeps
  <2>6. CASE UNCHANGED vars
    <3>1. /\ program' = program /\ nodes' = nodes /\ parents' = parents /\ children' = children /\ callsites' = callsites
          /\ unprocessed' = unprocessed /\ unchecked' = unchecked /\ topLevelFunctions' = topLevelFunctions
          /\ entry' = entry /\ topOrderQueue' = topOrderQueue /\ visitInAll' = visitInAll /\ mayPointTo' = mayPointTo
      BY <2>6 DEF vars, graph, walk
    <3>2. /\ Flows(TRUE)' = Flows(TRUE) /\ Fitting' = Fitting
          /\ \A h : CallsByName(h)' = CallsByName(h) /\ willIncludeInGraph(h)' = willIncludeInGraph(h)
          /\ \A h : CallsByPointer(Flows(TRUE), h)' = CallsByPointer(Flows(TRUE), h)
      BY <3>1, Static
    <3>3. Types /\ Walking /\ Mirrored /\ Counted /\ Called /\ Covered
      BY <1>2 DEF GraphInv
    <3>4. Types' /\ Walking' /\ Mirrored' /\ Called' /\ Covered'
      <4>1. Types'
        BY <3>1, <3>2, <3>3 DEF Types
      <4>2. Walking' /\ Mirrored'
        BY <3>1, <3>3 DEF Walking, Mirrored
      <4>3. Called' /\ Covered'
        BY <3>1, <3>2, <3>3 DEF Called, Covered
      <4> QED
        BY <4>1, <4>2, <4>3
    <3>5. \A h : Ahead(h)' = Ahead(h)
      BY <3>1 DEF Ahead
    <3>6. Counted'
      BY <3>1, <3>2, <3>3, <3>5 DEF Counted
    <3> QED
      BY <3>4, <3>6 DEF GraphInv
  <2> QED
    BY <1>2, <2>1, <2>2, <2>3, <2>4, <2>5, <2>6 DEF Next
<1> QED
  BY <1>1, <1>2, PTL DEF Spec

\* Through the whole construction callers and callees describe the same edges, no edge leads
\* to a removed node, and in the end the edges are the calls by name and only such calls
\* through pointers as the function can flow into.
THEOREM GraphAlwaysSound == Spec => []GraphSound
<1>1. ASSUME GraphInv PROVE GraphSound
  <2>1. Types /\ Walking /\ Mirrored /\ Counted /\ Called
    BY <1>1 DEF GraphInv
  <2>2. TypeOK
    <3>1. \A at \in DOMAIN mayPointTo : mayPointTo[at] \subseteq Function
      <4>1. PICK D \in SUBSET Cells : mayPointTo \in [D -> SUBSET Function]
        BY <2>1 DEF Types, Fitting
      <4> QED
        BY <4>1
    <3>2. ToSet(topLevelFunctions) \subseteq Function /\ ToSet(topOrderQueue) \subseteq Function
      BY <2>1 DEF Types, ToSet
    <3> QED
      BY <2>1, <3>1, <3>2 DEF Types, TypeOK
  <2>3. EdgesMirrored
    <3>1. ASSUME NEW f \in Function, NEW g \in Function
          PROVE  Occurs(g, children[f]) <= Len(topLevelFunctions) + (IF g \in CallsByName(f) THEN 1 ELSE 0)
      <4>1. Occurs(g, children[f]) \in Nat /\ Len(topLevelFunctions) \in Nat
        <5>1. children[f] \in Seq(Function) /\ topLevelFunctions \in Seq(Function)
          BY <2>1 DEF Types
        <5>2. Occurs(g, children[f]) \in Nat
          BY <5>1, OccursFacts
        <5> QED
          BY <5>1, <5>2
      <4>2. PICK a, c : /\ a = (IF Ahead(f) THEN 1 ELSE 0)
                        /\ c = (IF g \in CallsByName(f) /\ f \notin unprocessed THEN 1 ELSE 0)
        OBVIOUS
      <4>3. Occurs(g, children[f]) + a <= Len(topLevelFunctions) + c
        BY <2>1, <4>2 DEF Counted
      <4>4. a \in {0, 1} /\ c \in {0, 1} /\ (c = 1 => g \in CallsByName(f))
        BY <4>2
      <4> QED
        BY <4>1, <4>3, <4>4
    <3> QED
      BY <2>1, <3>1 DEF Mirrored, EdgesMirrored
  <2>4. EdgesAreCalls
    BY <2>1 DEF Called, Types, Done, EdgesAreCalls
  <2> QED
    BY <2>2, <2>3, <2>4 DEF GraphSound
<1> QED
  BY <1>1, GraphInvariant, PTL

\* When the construction is done, every node is top-level or has a caller, and nothing calls
\* a top-level function by name.
THEOREM TopLevelAlwaysCovers == Spec => []TopLevelCovers
<1>1. ASSUME GraphInv PROVE TopLevelCovers
  <2>1. ASSUME Done PROVE ToSet(unchecked) = {}
    BY <2>1 DEF Done, ToSet
  <2> QED
    BY <1>1, <2>1 DEF GraphInv, Covered, TopLevelCovers
<1> QED
  BY <1>1, GraphInvariant, PTL

-----------------------------------------------------------------------------
(* What is set and passed on once is known where it is called.             *)

\* No function flows into a pointer but by a statement, from where it has got to.
LEMMA FlowsSource ==
  ASSUME program \in Programs, NEW all \in BOOLEAN, NEW at \in Cells, NEW h \in Flows(all)[at]
  PROVE  \E f \in Function : \E k \in DOMAIN BodyOf(f) : \E e \in Feeds(all, f, BodyOf(f)[k], at[1], at[2]) :
           Yields(Flows(all), f, e, h)
<1> DEFINE N == Cardinality(Function) * Cardinality(Pointer)
<1>1. PICK F : IsRounds(all, F, N) /\ Flows(all) = F[N]
  BY FlowRounds
<1>2. N \in Nat
  BY ProgramsAssumption, FS_CardinalityType
<1> HIDE DEF N
<1>3. /\ F \in [0..N -> [Cells -> SUBSET Function]] /\ F[0] = [c \in Cells |-> {}]
      /\ \A k \in 1..N : F[k] = [c \in Cells |-> F[k - 1][c] \cup FlowOn(all, F[k - 1], c)]
  BY <1>1 DEF IsRounds
<1>4. \A k \in 1..N : k - 1 \in 0..N /\ k \in 0..N
  BY <1>2
<1>5. \A k \in 1..N : \A c \in Cells : F[k][c] = F[k - 1][c] \cup FlowOn(all, F[k - 1], c)
  BY <1>3
<1> DEFINE P == {k \in 0..N : h \in F[k][at] => \E j \in 1..N : h \in FlowOn(all, F[j - 1], at)}
<1>6. 0 \in P
  BY <1>2, <1>3
<1>7. ASSUME NEW k \in 1..N, k - 1 \in P PROVE k \in P
  BY <1>4, <1>5, <1>7
<1> HIDE DEF P
<1>8. N \in P
  BY <1>2, <1>6, <1>7, BoundedInduction
<1>9. PICK j \in 1..N : h \in FlowOn(all, F[j - 1], at)
  BY <1>1, <1>8 DEF P
<1>10. F[j - 1] \in [Cells -> SUBSET Function]
  BY <1>3, <1>4
<1>11. PICK f \in Function : \E k \in DOMAIN BodyOf(f) : \E e \in Feeds(all, f, BodyOf(f)[k], at[1], at[2]) :
         Yields(F[j - 1], f, e, h)
  BY <1>9, <1>10, FlowOnFacts
<1>12. PICK k \in DOMAIN BodyOf(f) : \E e \in Feeds(all, f, BodyOf(f)[k], at[1], at[2]) :
         Yields(F[j - 1], f, e, h)
  BY <1>11
<1>13. PICK e \in Feeds(all, f, BodyOf(f)[k], at[1], at[2]) : Yields(F[j - 1], f, e, h)
  BY <1>12
<1> DEFINE Q == {i \in 0..N : i >= j - 1 => \A c \in Cells : F[j - 1][c] \subseteq F[i][c]}
<1>14. 0 \in Q
  BY <1>2
<1>15. ASSUME NEW i \in 1..N, i - 1 \in Q PROVE i \in Q
  <2>1. CASE i - 1 >= j - 1
    BY <1>4, <1>5, <1>15, <2>1
  <2>2. CASE ~(i - 1 >= j - 1)
    <3>1. i >= j - 1 => i = j - 1
      BY <1>2, <2>2
    <3> QED
      BY <1>4, <3>1
  <2> QED
    BY <2>1, <2>2
<1> HIDE DEF Q
<1>16. N \in Q /\ N >= j - 1
  BY <1>2, <1>14, <1>15, BoundedInduction
<1>17. \A c \in Cells : F[j - 1][c] \subseteq F[N][c]
  BY <1>16 DEF Q
<1>18. at[1] \in Function /\ at[2] \in Pointer
  BY DEF Cells
<1>19. e \in Function \cup Pointer
  BY <1>13, <1>18, FeedsFacts
<1>20. Yields(F[N], f, e, h)
  <2>1. CASE e \in Function
    BY <1>13, <2>1 DEF Yields
  <2>2. CASE e \notin Function
    <3>1. <<f, e>> \in Cells
      BY <1>19, <2>2 DEF Cells
    <3> QED
      BY <1>13, <1>17, <2>2, <3>1 DEF Yields
  <2> QED
    BY <2>1, <2>2
<1> QED
  BY <1>1, <1>13, <1>20

\* The functions that flow into pointers are functions.
LEMMA FlowsType ==
  ASSUME program \in Programs, NEW all \in BOOLEAN
  PROVE  Flows(all) \in [Cells -> SUBSET Function]
<1> DEFINE N == Cardinality(Function) * Cardinality(Pointer)
<1>1. PICK F : IsRounds(all, F, N) /\ Flows(all) = F[N]
  BY FlowRounds
<1> HIDE DEF N
<1>2. N \in 0..N
  BY ProgramsAssumption, FS_CardinalityType DEF N
<1> QED
  BY <1>1, <1>2 DEF IsRounds

\* To set one pointer leaves the others.
LEMMA UpdateKnows ==
  ASSUME NEW x, NEW f, NEW v, NEW S, NEW g, NEW w
  PROVE  PointsTo(Update(x, f, v, S), g, w) = IF <<g, w>> = <<f, v>> THEN S ELSE PointsTo(x, g, w)
<1> DEFINE D == DOMAIN x \cup {<<f, v>>}
           new == [at \in D |-> IF at = <<f, v>> THEN S ELSE x[at]]
<1>1. Update(x, f, v, S) = new /\ DOMAIN new = D
  BY DEF Update
<1>2. <<g, w>> \in D <=> <<g, w>> \in DOMAIN x \/ <<g, w>> = <<f, v>>
  OBVIOUS
<1>3. <<g, w>> \in D => new[<<g, w>>] = IF <<g, w>> = <<f, v>> THEN S ELSE x[<<g, w>>]
  OBVIOUS
<1> HIDE DEF new, D
<1> QED
  BY <1>1, <1>2, <1>3 DEF PointsTo

\* A pointer that is set from nothing stays as it is, and from one source it gets that.
LEMMA MoveNone ==
  ASSUME NEW x, NEW f, NEW v, NEW g
  PROVE  MoveAll(x, f, v, g, <<>>) = x
<1> DEFINE step(m) == [k \in 0..0 |-> IF k = 0 THEN x ELSE Move(m[k - 1], f, v, g, <<>>[k])]
           moved == CHOOSE m : m = step(m)
           w == [k \in 0..0 |-> x]
<1>1. MoveAll(x, f, v, g, <<>>) = moved[0]
  BY DEF MoveAll
<1>2. w = step(w)
  OBVIOUS
<1>3. moved = step(moved)
  BY <1>2
<1> HIDE DEF moved
<1>4. moved[0] = x
  BY <1>3
<1> QED
  BY <1>1, <1>4

LEMMA MoveOne ==
  ASSUME NEW x, NEW f, NEW v, NEW g, NEW es, Len(es) = 1
  PROVE  MoveAll(x, f, v, g, es) = Move(x, f, v, g, es[1])
<1> DEFINE step(m) == [k \in 0..Len(es) |-> IF k = 0 THEN x ELSE Move(m[k - 1], f, v, g, es[k])]
           moved == CHOOSE m : m = step(m)
           w == [k \in 0..Len(es) |-> IF k = 0 THEN x ELSE Move(x, f, v, g, es[k])]
<1>1. MoveAll(x, f, v, g, es) = moved[1]
  BY DEF MoveAll
<1>2. \A k \in 0..Len(es) : k # 0 => k - 1 = 0 /\ 0 \in 0..Len(es)
  OBVIOUS
<1>3. w = step(w)
  BY <1>2
<1>4. moved = step(moved)
  BY <1>3
<1> HIDE DEF moved
<1>5. 0 \in 0..Len(es) /\ 1 \in 0..Len(es)
  OBVIOUS
<1>6. moved[0] = x
  BY <1>4, <1>5
<1>7. moved[1] = Move(moved[1 - 1], f, v, g, es[1])
  BY <1>4, <1>5
<1>8. 1 - 1 = 0
  OBVIOUS
<1> QED
  BY <1>1, <1>6, <1>7, <1>8

\* From knowledge x to y, the pointer v of g has got what e of f stands for.
Brought(x, y, f, e, g, v) ==
  IF e \in Function THEN e \in PointsTo(y, g, v) ELSE PointsTo(x, f, e) \subseteq PointsTo(y, g, v)

\* What is moved arrives, and moves nothing else.
LEMMA MoveKnows ==
  ASSUME NEW x, NEW g, NEW v, NEW f, NEW es \in Seq(Function \cup Pointer), Len(es) <= 1,
         NEW y, y = MoveAll(x, g, v, f, es)
  PROVE  /\ \A h, w : <<h, w>> # <<g, v>> => PointsTo(y, h, w) = PointsTo(x, h, w)
         /\ \A e \in ToSet(es) : Brought(x, y, f, e, g, v)
<1>1. CASE Len(es) = 0
  <2>1. es = <<>> /\ ToSet(es) = {}
    BY <1>1 DEF ToSet
  <2>2. y = x
    BY <2>1, MoveNone
  <2> QED
    BY <2>1, <2>2
<1>2. CASE Len(es) = 1
  <2>1. PICK e : e = es[1]
    OBVIOUS
  <2>2. y = Move(x, g, v, f, e) /\ ToSet(es) = {e}
    BY <1>2, <2>1, MoveOne DEF ToSet
  <2>3. PICK S : S = IF e \in Function THEN PointsTo(x, g, v) \cup {e} ELSE PointsTo(x, f, e)
    OBVIOUS
  <2>4. y = Update(x, g, v, S)
    BY <2>2, <2>3 DEF Move
  <2>5. \A h, w : PointsTo(y, h, w) = IF <<h, w>> = <<g, v>> THEN S ELSE PointsTo(x, h, w)
    BY <2>4, UpdateKnows
  <2>6. PointsTo(y, g, v) = S
    BY <2>5
  <2> QED
    BY <2>2, <2>3, <2>5, <2>6 DEF Brought
<1>3. PICK n : n = Len(es)
  OBVIOUS
<1>30. n \in Nat
  BY <1>3
<1>31. n <= 1
  BY <1>3
<1>4. n = 0 \/ n = 1
  BY <1>30, <1>31
<1> QED
  BY <1>1, <1>2, <1>3, <1>4

\* Neither default arguments nor others reach other pointers than the parameters of g.
Others(x, y, g) ==
  \A h, w : h # g \/ w \notin ToSet(program.declared[g]) => PointsTo(y, h, w) = PointsTo(x, h, w)

\* Default arguments are known, and touch nothing but the parameters of the callee.
LEMMA DefaultsKnow ==
  ASSUME program \in Programs, NEW x \in Fitting, NEW f \in Function, NEW j \in DOMAIN BodyOf(f), NEW s, s = BodyOf(f)[j],
         s.kind \in {"call", "lambda"}, NEW g, g = s.to
  PROVE  /\ Others(x, Defaults(x, g), g)
         /\ \A i \in 1..Len(program.declared[g]) :
              program.default[g][i] \subseteq PointsTo(Defaults(x, g), g, program.declared[g][i])
<1> DEFINE ps == program.declared[g]
           n == Len(ps)
           df(i) == program.default[g][i]
<1>1. PICK D : IsDefaults(D, x, g) /\ Defaults(x, g) = D[n]
  BY DefaultsByStep
<1>20. g \in Function
  BY PassedFeeds
<1>2. n \in Nat /\ ps \in Seq(Pointer)
  BY <1>20, ParamFacts
<1>3. /\ D[0] = x
      /\ \A k \in 1..n : D[k] = Update(D[k - 1], g, ps[k], PointsTo(D[k - 1], g, ps[k]) \cup df(k))
  BY <1>1 DEF IsDefaults
<1>30. \A k \in 1..n : ps[k] \in ToSet(ps)
  BY <1>2 DEF ToSet
<1> DEFINE P == {k \in 0..n : Others(x, D[k], g) /\ \A i \in 1..k : df(i) \subseteq PointsTo(D[k], g, ps[i])}
<1> HIDE DEF df, ps, n
<1>4. 0 \in P
  BY <1>2, <1>3 DEF Others
<1>5. ASSUME NEW k \in 1..n, k - 1 \in P PROVE k \in P
  <2>1. PICK y, z, S : y = D[k - 1] /\ z = D[k] /\ S = PointsTo(y, g, ps[k]) \cup df(k)
    OBVIOUS
  <2>2. z = Update(y, g, ps[k], S)
    BY <1>3, <2>1
  <2>3. \A h, w : PointsTo(z, h, w) = IF <<h, w>> = <<g, ps[k]>> THEN S ELSE PointsTo(y, h, w)
    BY <2>2, UpdateKnows
  <2>4. Others(x, y, g) /\ \A i \in 1..(k - 1) : df(i) \subseteq PointsTo(y, g, ps[i])
    BY <1>5, <2>1
  <2>5. Others(x, z, g)
    BY <1>30, <2>3, <2>4 DEF Others, ps
  <2>6. ASSUME NEW i \in 1..k PROVE df(i) \subseteq PointsTo(z, g, ps[i])
    <3>1. PointsTo(y, g, ps[i]) \subseteq PointsTo(z, g, ps[i])
      BY <2>1, <2>3
    <3>2. CASE i = k
      BY <2>1, <2>3, <3>2
    <3>3. CASE i # k
      <4>1. i \in 1..(k - 1)
        BY <1>2, <3>3
      <4> QED
        BY <2>4, <3>1, <4>1
    <3> QED
      BY <3>2, <3>3
  <2> QED
    BY <1>2, <2>1, <2>5, <2>6
<1> HIDE DEF P
<1>60. 0..n \subseteq P
  BY <1>2, <1>4, <1>5, BoundedInduction
<1>6. n \in P
  BY <1>2, <1>60
<1> QED
  BY <1>1, <1>6 DEF P, df, ps, n

\* What a call passes arrives, if each argument is one function or pointer and the callee
\* is another function.
LEMMA PassAllKnows ==
  ASSUME program \in Programs, NEW x \in Fitting, NEW f \in Function, NEW j \in DOMAIN BodyOf(f), NEW s, s = BodyOf(f)[j],
         s.kind \in {"call", "lambda"}, NEW g, g = s.to, \A es \in ToSet(s.from) : Len(es) <= 1,
         NEW ps, ps = program.declared[g], ps = program.params[g], IsInjective(ps), g # f \/ ps = <<>>,
         NEW y, y = PassAll(x, f, s)
  PROVE  /\ Others(x, y, g)
         /\ \A i \in 1..Len(ps) : \A e \in Feeds(FALSE, f, s, g, ps[i]) : Brought(x, y, f, e, g, ps[i])
<1> DEFINE given == Given(s)
           m == Len(ps)
           n == NumberPassed(s)
           l == Len(given)
           df(i) == program.default[g][i]
<1>1. PICK P : IsPassed(P, x, f, s) /\ y = P[n]
  BY PassAllByStep
<1>2. g \in Function /\ given \in Seq(Seq(Function \cup Pointer))
  BY PassedFeeds
<1>3. ps \in Seq(Pointer) /\ m \in Nat /\ DOMAIN ps = 1..m
  BY <1>2, ParamFacts
<1>40. DOMAIN given = 1..l /\ l \in Nat
  BY <1>2
<1>4. /\ n \in Nat /\ n <= m /\ n <= l /\ l \in Nat /\ m \in Nat
      /\ ~(n < m /\ n < l)
  <2>1. n = IF l < m THEN l ELSE m
    BY DEF NumberPassed
  <2> HIDE DEF l, m, n
  <2> QED
    BY <1>3, <1>40, <2>1
<1>5. ASSUME NEW i \in 1..l
      PROVE  given[i] \in Seq(Function \cup Pointer) /\ Len(given[i]) <= 1
  <2>1. IsStmt(program, s)
    BY BodyFacts
  <2>2. s.from \in Seq(Seq(Function \cup Pointer))
    BY <2>1 DEF IsStmt, Stmt
  <2>3. ToSet(given) \subseteq ToSet(s.from)
    BY <2>2, WithinFacts DEF Given
  <2>4. given[i] \in ToSet(given)
    BY <1>40 DEF ToSet
  <2> HIDE DEF given
  <2> QED
    BY <1>2, <1>40, <2>3, <2>4
<1>6. ASSUME NEW i \in 1..m
      PROVE  Feeds(FALSE, f, s, g, ps[i]) = IF i <= l THEN ToSet(given[i]) ELSE df(i)
  <2> DEFINE Is == {k \in DOMAIN ps : ps[i] \in {ps[k], ps[k]}}
             fed(k) == (IF k \in DOMAIN given THEN ToSet(given[k]) ELSE {})
                         \cup (IF FALSE \/ k \notin DOMAIN given THEN df(k) ELSE {})
  <2>1. Is = {i}
    BY <1>3 DEF IsInjective
  <2>2. Feeds(FALSE, f, s, g, ps[i]) = UNION {fed(k) : k \in Is}
    <3>1. s.kind # "set"
      OBVIOUS
    <3> QED
      BY <3>1 DEF Feeds, PassingCall, Given
  <2> HIDE DEF fed, Is
  <2>3. Feeds(FALSE, f, s, g, ps[i]) = fed(i)
    BY <2>1, <2>2
  <2>4. i \in DOMAIN given <=> i <= l
    BY <1>40
  <2> QED
    BY <2>3, <2>4 DEF fed
<1>7. /\ P[0] = Defaults(x, g)
      /\ \A k \in 1..n : P[k] = MoveAll(P[k - 1], g, ps[k], f, given[k])
  BY <1>1 DEF IsPassed
<1>8. Others(x, P[0], g) /\ \A i \in 1..m : df(i) \subseteq PointsTo(P[0], g, ps[i])
  <2>1. /\ Others(x, Defaults(x, g), g)
        /\ \A i \in 1..Len(program.declared[g]) :
              program.default[g][i] \subseteq PointsTo(Defaults(x, g), g, program.declared[g][i])
    BY DefaultsKnow
  <2> QED
    BY <1>7, <2>1
<1> DEFINE Q == {k \in 0..n : /\ Others(x, P[k], g)
                              /\ \A i \in 1..k : \A e \in ToSet(given[i]) : Brought(x, P[k], f, e, g, ps[i])
                              /\ \A i \in (k + 1)..m : df(i) \subseteq PointsTo(P[k], g, ps[i])}
<1> HIDE DEF df, m, n, l, given
<1>9. 0 \in Q
  BY <1>4, <1>8
<1>90. \A k \in 1..n : k \in 1..m /\ k \in 1..l
  BY <1>4
<1>10. ASSUME NEW k \in 1..n, k - 1 \in Q PROVE k \in Q
  <2>1. PICK a, b, es : a = P[k - 1] /\ b = P[k] /\ es = given[k]
    OBVIOUS
  <2>2. b = MoveAll(a, g, ps[k], f, es) /\ es \in Seq(Function \cup Pointer) /\ Len(es) <= 1
    BY <1>5, <1>7, <1>90, <2>1
  <2>3. /\ \A h, w : <<h, w>> # <<g, ps[k]>> => PointsTo(b, h, w) = PointsTo(a, h, w)
        /\ \A e \in ToSet(es) : Brought(a, b, f, e, g, ps[k])
    BY <2>2, MoveKnows
  <2>4. /\ Others(x, a, g)
        /\ \A i \in 1..(k - 1) : \A e \in ToSet(given[i]) : Brought(x, a, f, e, g, ps[i])
        /\ \A i \in k..m : df(i) \subseteq PointsTo(a, g, ps[i])
    <3>1. (k - 1) + 1 = k
      BY <1>4
    <3> QED
      BY <1>10, <2>1, <3>1
  <2>5. ps[k] \in ToSet(ps) /\ f # g
    BY <1>3, <1>90 DEF ToSet
  <2>6. Others(x, b, g)
    BY <2>3, <2>4, <2>5 DEF Others
  <2>7. \A w : PointsTo(a, f, w) = PointsTo(x, f, w)
    BY <2>4, <2>5 DEF Others
  <2>8. \A i \in 1..m : i # k => PointsTo(b, g, ps[i]) = PointsTo(a, g, ps[i])
    <3>1. \A i \in 1..m : i # k => ps[i] # ps[k]
      BY <1>3, <1>90 DEF IsInjective
    <3> QED
      BY <2>3, <3>1
  <2>9. ASSUME NEW i \in 1..k, NEW e \in ToSet(given[i]) PROVE Brought(x, b, f, e, g, ps[i])
    <3>1. CASE i = k
      <4>1. Brought(a, b, f, e, g, ps[k])
        BY <2>1, <2>3, <2>9, <3>1
      <4> QED
        BY <2>7, <3>1, <4>1 DEF Brought
    <3>2. CASE i # k
      <4>1. i \in 1..(k - 1) /\ i \in 1..m
        BY <1>4, <1>90, <3>2
      <4>2. Brought(x, a, f, e, g, ps[i])
        BY <2>4, <4>1
      <4>3. PointsTo(b, g, ps[i]) = PointsTo(a, g, ps[i])
        BY <2>8, <3>2, <4>1
      <4> QED
        BY <4>2, <4>3 DEF Brought
    <3> QED
      BY <3>1, <3>2
  <2>10. ASSUME NEW i \in (k + 1)..m PROVE df(i) \subseteq PointsTo(b, g, ps[i])
    <3>1. i \in k..m /\ i \in 1..m /\ i # k
      BY <1>4
    <3> QED
      BY <2>4, <2>8, <3>1
  <2>11. k \in 0..n
    BY <1>4
  <2> QED
    BY <2>1, <2>6, <2>9, <2>10, <2>11
<1>11. n \in Q
  <2> HIDE DEF Q
  <2>1. 0..n \subseteq Q
    BY <1>4, <1>9, <1>10, BoundedInduction
  <2> QED
    BY <1>4, <2>1
<1>12. /\ Others(x, y, g)
       /\ \A i \in 1..n : \A e \in ToSet(given[i]) : Brought(x, y, f, e, g, ps[i])
       /\ \A i \in (n + 1)..m : df(i) \subseteq PointsTo(y, g, ps[i])
  BY <1>1, <1>11
<1> HIDE DEF Q
<1>13. ASSUME NEW i \in 1..m, NEW e \in Feeds(FALSE, f, s, g, ps[i]) PROVE Brought(x, y, f, e, g, ps[i])
  <2>1. CASE i <= l
    <3>1. i \in 1..n
      BY <1>4, <2>1
    <3>2. e \in ToSet(given[i])
      BY <1>6, <1>13, <2>1
    <3> QED
      BY <1>12, <3>1, <3>2
  <2>2. CASE ~(i <= l)
    <3>1. i \in (n + 1)..m
      BY <1>4, <2>2
    <3>2. e \in df(i)
      BY <1>6, <1>13, <2>2
    <3>3. e \in PointsTo(y, g, ps[i])
      BY <1>12, <3>1, <3>2
    <3>4. e \in Function
      <4>1. program.default[g] \in [1..Len(program.params[g]) -> SUBSET Function]
        BY <1>2, ParamFacts
      <4> QED
        BY <3>2, <4>1 DEF df, m
    <3> QED
      BY <3>3, <3>4 DEF Brought
  <2> QED
    BY <2>1, <2>2
<1> QED
  BY <1>12, <1>13 DEF m

\* The pass knows all that flows into the pointer v of g.
Knows(x, g, v) == Flows(FALSE)[<<g, v>>] \subseteq PointsTo(x, g, v)

\* The pass over f, which has come behind its statement j in a walk that has seen the
\* functions V, should know of the pointer v of g: g has been seen or called, or f has set v.
Due(V, f, j, g, v) ==
  \/ v \in ToSet(program.params[g]) /\ (g \in V \/ \E k \in 1..j : <<f, k>> \in Callers(g))
  \/ /\ g = f /\ v \notin ToSet(program.params[f])
     /\ \E k \in 1..j : BodyOf(f)[k].kind = "set" /\ BodyOf(f)[k].to = v
KnowsDue(x, V, f, j) == \A g \in Function, v \in Pointer : Due(V, f, j, g, v) => Knows(x, g, v)

\* Who calls g by name.
LEMMA CallersFacts ==
  ASSUME NEW g
  PROVE  /\ \A f, k : <<f, k>> \in Callers(g) <=> f \in Function /\ k \in DOMAIN BodyOf(f)
              /\ BodyOf(f)[k].kind \in CallByName /\ BodyOf(f)[k].to = g
         /\ \A f \in Function : g \in CallsByName(f) <=>
              \E k \in DOMAIN BodyOf(f) : <<f, k>> \in Callers(g) /\ BodyOf(f)[k].behind \subseteq shown
<1> DEFINE ks(f) == {j \in DOMAIN BodyOf(f) : BodyOf(f)[j].kind \in CallByName /\ BodyOf(f)[j].to = g}
           of(f) == {<<f, k>> : k \in ks(f)}
<1>1. Callers(g) = UNION {of(f) : f \in Function}
  BY DEF Callers
<1>2. \A f, h, k : <<h, k>> \in of(f) <=> h = f /\ k \in ks(f)
  OBVIOUS
<1>3. \A h, k : k \in ks(h) <=> k \in DOMAIN BodyOf(h) /\ BodyOf(h)[k].kind \in CallByName /\ BodyOf(h)[k].to = g
  OBVIOUS
<1> HIDE DEF of, ks
<1>40. \A c : c \in Callers(g) <=> \E f \in Function : c \in of(f)
  BY <1>1
<1>4. \A h, k : <<h, k>> \in Callers(g) <=> h \in Function /\ k \in ks(h)
  <2> TAKE h, k
  <2>1. PICK c : c = <<h, k>>
    OBVIOUS
  <2>2. \A f : c \in of(f) <=> h = f /\ k \in ks(f)
    BY <1>2, <2>1
  <2>3. c \in Callers(g) <=> \E f \in Function : c \in of(f)
    BY <1>40
  <2>4. c \in Callers(g) <=> h \in Function /\ k \in ks(h)
    BY <2>2, <2>3
  <2> QED
    BY <2>1, <2>4
<1>5. ASSUME NEW f \in Function
      PROVE  g \in CallsByName(f) <=> \E k \in DOMAIN BodyOf(f) : k \in ks(f) /\ BodyOf(f)[k].behind \subseteq shown
  BY <1>3 DEF CallsByName, ToSet
<1>6. \A f, k : <<f, k>> \in Callers(g) <=> f \in Function /\ k \in DOMAIN BodyOf(f)
              /\ BodyOf(f)[k].kind \in CallByName /\ BodyOf(f)[k].to = g
  BY <1>3, <1>4
<1>7. \A f \in Function : g \in CallsByName(f) <=>
        \E k \in DOMAIN BodyOf(f) : <<f, k>> \in Callers(g) /\ BodyOf(f)[k].behind \subseteq shown
  BY <1>4, <1>5
<1> QED
  BY <1>6, <1>7

\* The parts of SetOnce.
LEMMA OnceFacts ==
  ASSUME SetOnce
  PROVE  /\ \A g \in Function : program.params[g] # <<>> =>
              PassedOnce(g) /\ \A f \in Function : g \notin CallsByPointer(Flows(TRUE), f)
         /\ \A f \in Function, v \in Pointer : AssignedOnce(f, v)
         /\ \A f \in Function : \A k \in DOMAIN BodyOf(f) : \A es \in ToSet(BodyOf(f)[k].from) : Len(es) <= 1
BY DEF SetOnce

\* The visitor gets to the call of a function that is passed pointers.
LEMMA OnceSeen ==
  ASSUME SetOnce, NEW g \in Function, program.params[g] # <<>>, NEW f, NEW k, <<f, k>> \in Callers(g)
  PROVE  BodyOf(f)[k].behind \subseteq shown
<1>1. PICK c : c = <<f, k>>
  OBVIOUS
<1>2. PassedOnce(g) /\ c \in Callers(g) /\ BodyOf(c[1])[c[2]] = BodyOf(f)[k]
  BY <1>1, OnceFacts
<1> QED
  BY <1>2 DEF PassedOnce

\* Into a parameter flows what a call passes, into another pointer what it is set from.
LEMMA FedBy ==
  ASSUME program \in Programs, SetOnce, NEW f \in Function, NEW k \in DOMAIN BodyOf(f), NEW s, s = BodyOf(f)[k],
         NEW g \in Function, NEW v \in Pointer, NEW e \in Feeds(FALSE, f, s, g, v)
  PROVE  /\ v \in ToSet(program.params[g]) => <<f, k>> \in Callers(g) /\ s.kind \in {"call", "lambda"} /\ s.to = g
         /\ v \notin ToSet(program.params[g]) => f = g /\ s.kind = "set" /\ s.to = v /\ e \in ToSet(s.from[1])
<1>1. CASE s.kind = "set" /\ f = g /\ s.to = v
  <2>1. v \notin ToSet(program.params[g])
    <3>1. AssignedOnce(f, v)
      BY OnceFacts
    <3> QED
      BY <1>1, <3>1 DEF AssignedOnce
  <2>2. e \in ToSet(s.from[1])
    BY <1>1 DEF Feeds, PassingCall
  <2> QED
    BY <1>1, <2>1, <2>2
<1>2. CASE s.kind \in {"call", "lambda", "construct"} /\ s.to = g
  <2>1. <<f, k>> \in Callers(g)
    BY <1>2, CallersFacts DEF CallByName, PassingCall
  <2> DEFINE Is == {i \in DOMAIN program.params[g] : v \in {program.params[g][i], program.declared[g][i]}}
             given == Within(s.from, ToSet(s.from) \ {<<>>})
             fed(i) == (IF i \in DOMAIN given THEN ToSet(given[i]) ELSE {})
                         \cup (IF FALSE \/ i \notin DOMAIN given THEN program.default[g][i] ELSE {})
  <2>2. s.kind # "set"
    BY <1>2
  <2>3. e \in UNION {fed(i) : i \in Is}
    BY <1>2, <2>2 DEF Feeds, PassingCall
  <2> HIDE DEF fed
  <2>4. PICK i \in Is : TRUE
    BY <2>3
  <2>5. i \in DOMAIN program.params[g] /\ (v = program.params[g][i] \/ v = program.declared[g][i])
    BY <2>4
  <2>6. program.params[g] # <<>>
    BY <2>5
  <2>7. PassedOnce(g)
    BY <2>6, OnceFacts
  <2>70. program.declared[g] = program.params[g] /\ s.kind # "construct"
    <3>1. PICK c : c = <<f, k>>
      OBVIOUS
    <3>2. c \in Callers(g) /\ BodyOf(c[1])[c[2]] = s
      BY <2>1, <3>1
    <3> QED
      BY <2>7, <3>2 DEF PassedOnce
  <2>8. v \in ToSet(program.params[g])
    BY <2>5, <2>70 DEF ToSet
  <2> QED
    BY <1>2, <2>1, <2>70, <2>8
<1>3. CASE ~(s.kind = "set" /\ f = g /\ s.to = v) /\ ~(s.kind \in {"call", "lambda", "construct"} /\ s.to = g)
  BY <1>3 DEF Feeds, PassingCall
<1> QED
  BY <1>1, <1>2, <1>3

\* A pointer that feeds another is used for it.
LEMMA FeedsUses ==
  ASSUME program \in Programs, NEW f \in Function, NEW k \in DOMAIN BodyOf(f), NEW s, s = BodyOf(f)[k],
         NEW g \in Function, NEW v \in Pointer, NEW e \in Feeds(FALSE, f, s, g, v), e \notin Function
  PROVE  e \in Pointer /\ Uses(s, e)
<1>1. e \in Function \cup Pointer
  BY FeedsFacts
<1>2. IsStmt(program, s) /\ s.from \in Seq(Seq(Function \cup Pointer)) /\ (s.kind = "set" => s.from # <<>>)
  BY BodyFacts DEF IsStmt, Stmt
<1>3. CASE s.kind = "set" /\ f = g /\ s.to = v
  <2>1. e \in ToSet(s.from[1])
    BY <1>3 DEF Feeds, PassingCall
  <2>2. s.from[1] \in ToSet(s.from)
    BY <1>2, <1>3 DEF ToSet
  <2> QED
    BY <1>1, <2>1, <2>2 DEF Uses
<1>4. CASE s.kind \in {"call", "lambda", "construct"} /\ s.to = g
  <2> DEFINE Is == {i \in DOMAIN program.params[g] : v \in {program.params[g][i], program.declared[g][i]}}
             given == Within(s.from, ToSet(s.from) \ {<<>>})
             fed(i) == (IF i \in DOMAIN given THEN ToSet(given[i]) ELSE {})
                         \cup (IF FALSE \/ i \notin DOMAIN given THEN program.default[g][i] ELSE {})
  <2>1. s.kind # "set"
    BY <1>4
  <2>2. e \in UNION {fed(i) : i \in Is}
    BY <1>4, <2>1 DEF Feeds, PassingCall
  <2>3. \A i \in Is : program.default[g][i] \subseteq Function
    BY ParamFacts
  <2>4. ToSet(given) \subseteq ToSet(s.from)
    BY <1>2, WithinFacts
  <2>40. \A i \in DOMAIN given : given[i] \in ToSet(given)
    BY DEF ToSet
  <2> HIDE DEF given, Is
  <2>5. PICK i \in Is : e \in fed(i)
    BY <2>2
  <2>6. i \in DOMAIN given /\ e \in ToSet(given[i])
    BY <2>3, <2>5
  <2> QED
    BY <1>1, <2>4, <2>40, <2>6 DEF Uses
<1>5. CASE ~(s.kind = "set" /\ f = g /\ s.to = v) /\ ~(s.kind \in {"call", "lambda", "construct"} /\ s.to = g)
  BY <1>5 DEF Feeds, PassingCall
<1> QED
  BY <1>3, <1>4, <1>5

\* What a statement uses is known before it.
LEMMA UsedKnown ==
  ASSUME program \in Programs, SetOnce, NEW V, NEW f \in V, f \in Function, NEW j \in DOMAIN BodyOf(f),
         NEW x, KnowsDue(x, V, f, j - 1), NEW v \in Pointer, Uses(BodyOf(f)[j], v)
  PROVE  Knows(x, f, v)
<1>1. CASE v \in ToSet(program.params[f])
  BY <1>1 DEF KnowsDue, Due
<1>2. CASE v \notin ToSet(program.params[f])
  <2>1. SUFFICES ASSUME NEW h \in Flows(FALSE)[<<f, v>>] PROVE Knows(x, f, v)
    BY DEF Knows
  <2>2. <<f, v>> \in Cells /\ <<f, v>>[1] = f /\ <<f, v>>[2] = v
    BY DEF Cells
  <2>3. PICK g \in Function : \E k \in DOMAIN BodyOf(g) : \E e \in Feeds(FALSE, g, BodyOf(g)[k], f, v) :
          Yields(Flows(FALSE), g, e, h)
    BY <2>1, <2>2, FlowsSource
  <2>4. PICK k \in DOMAIN BodyOf(g) : \E e \in Feeds(FALSE, g, BodyOf(g)[k], f, v) : TRUE
    BY <2>3
  <2>40. PICK e \in Feeds(FALSE, g, BodyOf(g)[k], f, v) : TRUE
    BY <2>4
  <2>41. PICK s : s = BodyOf(g)[k]
    OBVIOUS
  <2>42. g = f /\ s.kind = "set" /\ s.to = v
    BY <1>2, <2>40, <2>41, FedBy
  <2>5. g = f /\ BodyOf(f)[k].kind = "set" /\ BodyOf(f)[k].to = v
    BY <2>41, <2>42
  <2>6. k < j
    <3>1. AssignedOnce(f, v)
      BY OnceFacts
    <3> QED
      BY <2>4, <2>5, <3>1 DEF AssignedOnce
  <2>7. k \in 1..(j - 1)
    BY <2>4, <2>5, <2>6, BodyFacts
  <2> QED
    BY <1>2, <2>5, <2>7 DEF KnowsDue, Due
<1> QED
  BY <1>1, <1>2

\* What the pass brings to a pointer is all that flows in from there.
LEMMA BroughtKnown ==
  ASSUME program \in Programs, SetOnce, NEW V, NEW f \in V, f \in Function, NEW j \in DOMAIN BodyOf(f),
         NEW s, s = BodyOf(f)[j], NEW x, KnowsDue(x, V, f, j - 1),
         NEW g \in Function, NEW v \in Pointer, NEW e \in Feeds(FALSE, f, s, g, v),
         NEW y, Brought(x, y, f, e, g, v), NEW h, Yields(Flows(FALSE), f, e, h)
  PROVE  h \in PointsTo(y, g, v)
<1>1. CASE e \in Function
  BY <1>1 DEF Yields, Brought
<1>2. CASE e \notin Function
  <2>1. e \in Pointer /\ Uses(s, e)
    BY <1>2, FeedsUses
  <2>2. Knows(x, f, e)
    BY <2>1, UsedKnown
  <2> QED
    BY <1>2, <2>2 DEF Yields, Brought, Knows
<1> QED
  BY <1>1, <1>2

\* All that is due behind a statement and was not due before it, it gives.
LEMMA VisitKnows ==
  ASSUME program \in Programs, SetOnce, NEW V, NEW f \in V, f \in Function,
         program.params[f] # <<>> => f \notin CallsByName(f), NEW j \in DOMAIN BodyOf(f),
         NEW x \in Fitting, KnowsDue(x, V, f, j - 1), NEW y, y = Visit(f, x, BodyOf(f)[j])
  PROVE  KnowsDue(y, V, f, j)
<1>1. PICK s : s = BodyOf(f)[j]
  OBVIOUS
<1>2. IsStmt(program, s) /\ j \in Nat /\ s.from \in Seq(Seq(Function \cup Pointer)) /\ (s.kind = "set" => s.from # <<>>)
  <2>1. IsStmt(program, s)
    BY <1>1, BodyFacts
  <2>2. DOMAIN BodyOf(f) = 1..Len(BodyOf(f))
    BY BodyFacts
  <2>3. j \in Nat
    BY <2>2
  <2> QED
    BY <2>1, <2>3 DEF IsStmt, Stmt
<1>3. ASSUME NEW g \in Function, NEW v \in Pointer, Due(V, f, j, g, v)
      PROVE  \/ Due(V, f, j - 1, g, v)
             \/ v \in ToSet(program.params[g]) /\ <<f, j>> \in Callers(g)
             \/ g = f /\ s.kind = "set" /\ s.to = v
  <2>1. \A k \in 1..j : k = j \/ k \in 1..(j - 1)
    BY <1>2
  <2> QED
    BY <1>1, <1>3, <2>1 DEF Due
<1>4. ASSUME NEW g \in Function, NEW v \in Pointer, NEW h \in Flows(FALSE)[<<g, v>>]
      PROVE  \E f2 \in Function : \E k2 \in DOMAIN BodyOf(f2) : \E e \in Feeds(FALSE, f2, BodyOf(f2)[k2], g, v) :
               /\ Yields(Flows(FALSE), f2, e, h)
               /\ v \in ToSet(program.params[g]) => <<f2, k2>> \in Callers(g) /\ BodyOf(f2)[k2].kind \in {"call", "lambda"}
               /\ v \notin ToSet(program.params[g]) => f2 = g /\ BodyOf(f2)[k2].kind = "set" /\ BodyOf(f2)[k2].to = v
                                                       /\ e \in ToSet(BodyOf(f2)[k2].from[1])
  <2>1. <<g, v>> \in Cells /\ <<g, v>>[1] = g /\ <<g, v>>[2] = v
    BY DEF Cells
  <2>2. PICK f2 \in Function : \E k \in DOMAIN BodyOf(f2) : \E e \in Feeds(FALSE, f2, BodyOf(f2)[k], g, v) :
          Yields(Flows(FALSE), f2, e, h)
    BY <1>4, <2>1, FlowsSource
  <2>3. PICK k2 \in DOMAIN BodyOf(f2) : \E e \in Feeds(FALSE, f2, BodyOf(f2)[k2], g, v) : Yields(Flows(FALSE), f2, e, h)
    BY <2>2
  <2>4. PICK e \in Feeds(FALSE, f2, BodyOf(f2)[k2], g, v) : Yields(Flows(FALSE), f2, e, h)
    BY <2>3
  <2>5. PICK s2 : s2 = BodyOf(f2)[k2]
    OBVIOUS
  <2>6. /\ v \in ToSet(program.params[g]) => <<f2, k2>> \in Callers(g) /\ s2.kind \in {"call", "lambda"} /\ s2.to = g
        /\ v \notin ToSet(program.params[g]) => f2 = g /\ s2.kind = "set" /\ s2.to = v /\ e \in ToSet(s2.from[1])
    <3>1. e \in Feeds(FALSE, f2, s2, g, v)
      BY <2>4, <2>5
    <3>2. v \in ToSet(program.params[g]) => <<f2, k2>> \in Callers(g) /\ s2.kind \in {"call", "lambda"} /\ s2.to = g
      BY <2>3, <2>5, <3>1, FedBy
    <3>3. \A g1 \in Function : \A k1 \in DOMAIN BodyOf(g1) : \A s1 : s1 = BodyOf(g1)[k1] =>
            \A e1 \in Feeds(FALSE, g1, s1, g, v) :
              v \notin ToSet(program.params[g]) => g1 = g /\ s1.kind = "set" /\ s1.to = v /\ e1 \in ToSet(s1.from[1])
      BY FedBy
    <3> QED
      BY <2>3, <2>5, <3>1, <3>2, <3>3
  <2> QED
    BY <2>3, <2>4, <2>5, <2>6
\* A parameter gets its value from the one call there is.
<1>5. ASSUME NEW g \in Function, NEW v \in Pointer, v \in ToSet(program.params[g]), <<f, j>> \in Callers(g),
             NEW h \in Flows(FALSE)[<<g, v>>]
      PROVE  s.kind \in {"call", "lambda"} /\ s.to = g /\ \E e \in Feeds(FALSE, f, s, g, v) : Yields(Flows(FALSE), f, e, h)
  <2>10. PICK f2 \in Function : \E k2 \in DOMAIN BodyOf(f2) : \E e \in Feeds(FALSE, f2, BodyOf(f2)[k2], g, v) :
               /\ Yields(Flows(FALSE), f2, e, h)
               /\ v \in ToSet(program.params[g]) => <<f2, k2>> \in Callers(g) /\ BodyOf(f2)[k2].kind \in {"call", "lambda"}
    BY <1>4
  <2>1. PICK k2 \in DOMAIN BodyOf(f2) : \E e \in Feeds(FALSE, f2, BodyOf(f2)[k2], g, v) :
               /\ Yields(Flows(FALSE), f2, e, h)
               /\ v \in ToSet(program.params[g]) => <<f2, k2>> \in Callers(g) /\ BodyOf(f2)[k2].kind \in {"call", "lambda"}
    BY <2>10
  <2>2. program.params[g] # <<>>
    BY <1>5 DEF ToSet
  <2>3. PassedOnce(g)
    BY <2>2, OnceFacts
  <2>4. <<f2, k2>> = <<f, j>>
    BY <1>5, <2>1, <2>3 DEF PassedOnce
  <2>5. f2 = f /\ k2 = j
    BY <2>4
  <2>6. s.to = g
    BY <1>1, <1>5, CallersFacts
  <2> QED
    BY <1>1, <1>5, <2>1, <2>5, <2>6
\* Another pointer gets it from the one assignment.
<1>6. ASSUME NEW v \in Pointer, s.kind = "set", s.to = v, NEW h \in Flows(FALSE)[<<f, v>>]
      PROVE  \E e \in Feeds(FALSE, f, s, f, v) : e \in ToSet(s.from[1]) /\ Yields(Flows(FALSE), f, e, h)
  <2>1. AssignedOnce(f, v)
    BY OnceFacts
  <2>2. v \notin ToSet(program.params[f])
    BY <1>1, <1>6, <2>1 DEF AssignedOnce
  <2>30. PICK f2 \in Function : \E k2 \in DOMAIN BodyOf(f2) : \E e \in Feeds(FALSE, f2, BodyOf(f2)[k2], f, v) :
               /\ Yields(Flows(FALSE), f2, e, h)
               /\ f2 = f /\ BodyOf(f2)[k2].kind = "set" /\ BodyOf(f2)[k2].to = v /\ e \in ToSet(BodyOf(f2)[k2].from[1])
    BY <1>4, <1>6, <2>2
  <2>3. PICK k2 \in DOMAIN BodyOf(f2) : \E e \in Feeds(FALSE, f2, BodyOf(f2)[k2], f, v) :
               /\ Yields(Flows(FALSE), f2, e, h)
               /\ f2 = f /\ BodyOf(f2)[k2].kind = "set" /\ BodyOf(f2)[k2].to = v /\ e \in ToSet(BodyOf(f2)[k2].from[1])
    BY <2>30
  <2>4. k2 = j
    BY <1>1, <1>6, <2>1, <2>3 DEF AssignedOnce
  <2> QED
    BY <1>1, <2>3, <2>4
<1>7. CASE s.kind \in {"call", "lambda"}
  <2>1. PICK c : c = s.to
    OBVIOUS
  <2>2. PICK ps : ps = program.declared[c]
    OBVIOUS
  <2>3. y = PassAll(x, f, s)
    BY <1>1, <1>7 DEF Visit, PassingCall
  <2>4. c \in Function /\ <<f, j>> \in Callers(c)
    BY <1>1, <1>2, <1>7, <2>1, CallersFacts DEF IsStmt, CallByName, PassingCall
  <2>5. ps = program.params[c] /\ IsInjective(ps) /\ (c # f \/ ps = <<>>)
    <3>1. CASE program.params[c] # <<>>
      <4>1. ps = program.params[c] /\ IsInjective(ps)
        BY <2>2, <2>4, <3>1, OnceFacts DEF PassedOnce
      <4>2. c = f => f \in CallsByName(f)
        BY <2>4, <3>1, OnceSeen, CallersFacts
      <4> QED
        BY <3>1, <4>1, <4>2
    <3>2. CASE program.params[c] = <<>>
      <4>1. ps \in Seq(Pointer) /\ Len(ps) = 0
        BY <2>2, <2>4, <3>2, ParamFacts
      <4>2. ps = <<>>
        BY <4>1
      <4> QED
        BY <3>2, <4>2 DEF IsInjective
    <3> QED
      BY <3>1, <3>2
  <2>6. \A es \in ToSet(s.from) : Len(es) <= 1
    BY <1>1, OnceFacts
  <2>7. /\ Others(x, y, c)
        /\ \A i \in 1..Len(ps) : \A e \in Feeds(FALSE, f, s, c, ps[i]) : Brought(x, y, f, e, c, ps[i])
    BY <1>1, <1>7, <2>1, <2>2, <2>3, <2>5, <2>6, PassAllKnows
  <2>8. ASSUME NEW g \in Function, NEW v \in Pointer, Due(V, f, j, g, v) PROVE Knows(y, g, v)
    <3>1. CASE g = c /\ v \in ToSet(ps)
      <4>1. PICK i \in 1..Len(ps) : ps[i] = v
        <5>1. ps \in Seq(Pointer)
          BY <2>2, <2>4, ParamFacts
        <5> QED
          BY <3>1, <5>1 DEF ToSet
      <4>2. ASSUME NEW h \in Flows(FALSE)[<<c, v>>] PROVE h \in PointsTo(y, c, v)
        <5>1. PICK e \in Feeds(FALSE, f, s, c, v) : Yields(Flows(FALSE), f, e, h)
          BY <1>5, <2>4, <2>5, <3>1, <4>2
        <5>2. Brought(x, y, f, e, c, v)
          BY <2>7, <4>1, <5>1
        <5> QED
          BY <1>1, <2>4, <5>1, <5>2, BroughtKnown
      <4> QED
        BY <3>1, <4>2 DEF Knows
    <3>2. CASE ~(g = c /\ v \in ToSet(ps))
      <4>1. PointsTo(y, g, v) = PointsTo(x, g, v)
        BY <2>2, <2>7, <3>2 DEF Others
      <4>2. <<f, j>> \in Callers(g) => g = c
        BY <1>1, <2>1, CallersFacts
      <4>3. Due(V, f, j - 1, g, v)
        BY <1>3, <1>7, <2>5, <2>8, <3>2, <4>2
      <4> QED
        BY <4>1, <4>3 DEF KnowsDue, Knows
    <3> QED
      BY <3>1, <3>2
  <2> QED
    BY <2>8 DEF KnowsDue
<1>8. CASE s.kind = "set"
  <2>1. PICK es, u : es = s.from[1] /\ u = s.to
    OBVIOUS
  <2>2. y = MoveAll(x, f, u, f, es) /\ es \in Seq(Function \cup Pointer) /\ u \in Pointer
    <3>1. y = MoveAll(x, f, u, f, es)
      BY <1>1, <1>8, <2>1 DEF Visit, PassingCall
    <3>2. u \in Pointer
      BY <1>2, <1>8, <2>1 DEF IsStmt
    <3> QED
      BY <1>2, <1>8, <2>1, <3>1, <3>2
  <2>3. Len(es) <= 1
    <3>1. es \in ToSet(s.from)
      BY <1>2, <1>8, <2>1 DEF ToSet
    <3> QED
      BY <1>1, <3>1, OnceFacts
  <2>4. /\ \A h, w : <<h, w>> # <<f, u>> => PointsTo(y, h, w) = PointsTo(x, h, w)
        /\ \A e \in ToSet(es) : Brought(x, y, f, e, f, u)
    BY <2>2, <2>3, MoveKnows
  <2>5. ASSUME NEW g \in Function, NEW v \in Pointer, Due(V, f, j, g, v) PROVE Knows(y, g, v)
    <3>1. CASE g = f /\ v = u
      <4>1. ASSUME NEW h \in Flows(FALSE)[<<f, u>>] PROVE h \in PointsTo(y, f, u)
        <5>1. PICK e \in Feeds(FALSE, f, s, f, u) : e \in ToSet(es) /\ Yields(Flows(FALSE), f, e, h)
          BY <1>6, <1>8, <2>1, <2>2, <4>1
        <5>2. Brought(x, y, f, e, f, u)
          BY <2>4, <5>1
        <5> QED
          BY <1>1, <2>2, <5>1, <5>2, BroughtKnown
      <4> QED
        BY <3>1, <4>1 DEF Knows
    <3>2. CASE ~(g = f /\ v = u)
      <4>1. PointsTo(y, g, v) = PointsTo(x, g, v)
        BY <2>4, <3>2
      <4>2. <<f, j>> \notin Callers(g)
        BY <1>1, <1>8, CallersFacts DEF CallByName, PassingCall
      <4>3. Due(V, f, j - 1, g, v)
        BY <1>3, <2>1, <2>5, <3>2, <4>2
      <4> QED
        BY <4>1, <4>3 DEF KnowsDue, Knows
    <3> QED
      BY <3>1, <3>2
  <2> QED
    BY <2>5 DEF KnowsDue
<1>9. CASE s.kind \notin {"call", "lambda", "set"}
  <2>1. y = x
    BY <1>1, <1>9 DEF Visit, PassingCall
  <2>2. ASSUME NEW g \in Function, NEW v \in Pointer, Due(V, f, j, g, v) PROVE Knows(y, g, v)
    <3>1. CASE Due(V, f, j - 1, g, v)
      BY <2>1, <3>1 DEF KnowsDue
    <3>2. CASE v \in ToSet(program.params[g]) /\ <<f, j>> \in Callers(g)
      <4>1. \A h \in Flows(FALSE)[<<g, v>>] : FALSE
        BY <1>5, <1>9, <3>2
      <4> QED
        BY <4>1 DEF Knows
    <3> QED
      BY <1>3, <1>9, <2>2, <3>1, <3>2
  <2> QED
    BY <2>2 DEF KnowsDue
<1> QED
  BY <1>7, <1>8, <1>9

\* At the end of a pass all is known that is due there.
LEMMA AfterKnows ==
  ASSUME program \in Programs, SetOnce, mayPointTo \in Fitting, NEW V, NEW f \in V, f \in Function,
         program.params[f] # <<>> => f \notin CallsByName(f), KnowsDue(mayPointTo, V, f, 0), NEW n \in 0..Len(BodyOf(f))
  PROVE  KnowsDue(After(f, n), V, f, n)
<1>1. PICK P : IsPass(P, f, n) /\ After(f, n) = P[n]
  BY AfterByStep
<1>2. n \in Nat /\ \A k \in 1..n : k \in DOMAIN BodyOf(f) /\ k - 1 \in 0..n
  BY BodyFacts
<1>3. P[0] = mayPointTo /\ \A k \in 0..n : P[k] \in Fitting
  BY <1>1 DEF IsPass
<1> DEFINE Q == {k \in 0..n : KnowsDue(P[k], V, f, k)}
<1>4. 0 \in Q
  BY <1>2, <1>3
<1>5. ASSUME NEW k \in 1..n, k - 1 \in Q PROVE k \in Q
  <2>1. PICK x, y : x = P[k - 1] /\ y = P[k]
    OBVIOUS
  <2>2. x \in Fitting /\ KnowsDue(x, V, f, k - 1) /\ k \in DOMAIN BodyOf(f)
    BY <1>2, <1>3, <1>5, <2>1
  <2>3. y = Visit(f, x, BodyOf(f)[k])
    BY <1>1, <2>1 DEF IsPass
  <2>4. KnowsDue(y, V, f, k)
    BY <2>2, <2>3, VisitKnows
  <2>5. k \in 0..n
    BY <1>2
  <2> QED
    BY <2>1, <2>4, <2>5
<1> HIDE DEF Q
<1>6. 0..n \subseteq Q
  BY <1>2, <1>4, <1>5, BoundedInduction
<1>7. n \in Q
  BY <1>2, <1>6
<1> QED
  BY <1>1, <1>7 DEF Q

\* So the pass over f finds all calls through pointers of f.
LEMMA PointerCallsComplete ==
  ASSUME program \in Programs, SetOnce, mayPointTo \in Fitting, NEW V, NEW f \in V, f \in Function,
         program.params[f] # <<>> => f \notin CallsByName(f), KnowsDue(mayPointTo, V, f, 0)
  PROVE  CallsByPointer(Flows(FALSE), f) \subseteq Callees(PointerCalls(f))
<1>1. SUFFICES ASSUME NEW h \in CallsByPointer(Flows(FALSE), f) PROVE h \in Callees(PointerCalls(f))
  OBVIOUS
<1>2. PICK s \in ToSet(BodyOf(f)) : s.kind = "callPointer" /\ h \in Flows(FALSE)[<<f, s.to>>]
  BY <1>1 DEF CallsByPointer
<1>3. PICK k \in DOMAIN BodyOf(f) : BodyOf(f)[k] = s
  BY <1>2 DEF ToSet
<1>4. IsStmt(program, s) /\ DOMAIN BodyOf(f) = 1..Len(BodyOf(f)) /\ Len(BodyOf(f)) \in Nat
  BY <1>3, BodyFacts
<1>5. s.to \in Pointer
  BY <1>2, <1>4 DEF IsStmt
<1>6. k \in 0..Len(BodyOf(f)) /\ k - 1 \in 0..Len(BodyOf(f)) /\ k \in Nat
  BY <1>3, <1>4
<1>7. PICK x, y, v : x = After(f, k - 1) /\ y = After(f, k) /\ v = s.to
  OBVIOUS
<1>8. KnowsDue(x, V, f, k - 1) /\ KnowsDue(y, V, f, k)
  BY <1>6, <1>7, AfterKnows
<1>9. Uses(s, v)
  BY <1>2, <1>7 DEF Uses
<1>10. Knows(y, f, v)
  <2>1. CASE v \in ToSet(program.params[f])
    BY <1>5, <1>7, <1>8, <2>1 DEF KnowsDue, Due
  <2>2. CASE v \notin ToSet(program.params[f])
    <3>1. <<f, v>> \in Cells /\ <<f, v>>[1] = f /\ <<f, v>>[2] = v
      BY <1>5, <1>7 DEF Cells
    <3>2. PICK g \in Function : \E j \in DOMAIN BodyOf(g) : \E e \in Feeds(FALSE, g, BodyOf(g)[j], f, v) :
            Yields(Flows(FALSE), g, e, h)
      BY <1>2, <1>7, <3>1, FlowsSource
    <3>3. PICK j \in DOMAIN BodyOf(g) : \E e \in Feeds(FALSE, g, BodyOf(g)[j], f, v) : TRUE
      BY <3>2
    <3>4. PICK e \in Feeds(FALSE, g, BodyOf(g)[j], f, v) : TRUE
      BY <3>3
    <3>5. PICK t : t = BodyOf(g)[j]
      OBVIOUS
    <3>6. g = f /\ t.kind = "set" /\ t.to = v
      <4>1. v \in Pointer /\ e \in Feeds(FALSE, g, t, f, v)
        BY <1>5, <1>7, <3>4, <3>5
      <4>2. v \notin ToSet(program.params[f]) => g = f /\ t.kind = "set" /\ t.to = v
        BY <3>3, <3>5, <4>1, FedBy
      <4> QED
        BY <2>2, <4>2
    <3>7. j < k
      <4>1. AssignedOnce(f, v)
        BY <1>5, <1>7, OnceFacts
      <4> QED
        BY <1>3, <1>9, <3>3, <3>5, <3>6, <4>1 DEF AssignedOnce
    <3>8. j \in 1..k
      BY <1>4, <1>6, <3>3, <3>6, <3>7
    <3>9. Due(V, f, k, f, v)
      BY <2>2, <3>5, <3>6, <3>8 DEF Due
    <3> QED
      BY <1>5, <1>7, <1>8, <3>9 DEF KnowsDue
  <2> QED
    BY <2>1, <2>2
<1>11. h \in PointsTo(y, f, v)
  BY <1>2, <1>7, <1>10 DEF Knows
<1>12. PointsTo(y, f, v) \subseteq Callees(PointerCalls(f))
  BY <1>2, <1>3, <1>7, PointerCallsFacts
<1> QED
  BY <1>11, <1>12

\* No function flows into the parameters of a function that is not called.
LEMMA UncalledKnown ==
  ASSUME program \in Programs, SetOnce, NEW g \in Function, Callers(g) = {}, NEW v \in ToSet(program.params[g]), NEW x
  PROVE  Knows(x, g, v)
<1>1. SUFFICES ASSUME NEW h \in Flows(FALSE)[<<g, v>>] PROVE FALSE
  BY DEF Knows
<1>2. v \in Pointer
  <2>1. program.params[g] \in Seq(Pointer)
    BY ParamFacts
  <2> QED
    BY <2>1 DEF ToSet
<1>3. <<g, v>> \in Cells /\ <<g, v>>[1] = g /\ <<g, v>>[2] = v
  BY <1>2 DEF Cells
<1>4. PICK f \in Function : \E j \in DOMAIN BodyOf(f) : \E e \in Feeds(FALSE, f, BodyOf(f)[j], g, v) :
        Yields(Flows(FALSE), f, e, h)
  BY <1>1, <1>3, FlowsSource
<1>5. PICK j \in DOMAIN BodyOf(f) : \E e \in Feeds(FALSE, f, BodyOf(f)[j], g, v) : TRUE
  BY <1>4
<1>6. PICK e \in Feeds(FALSE, f, BodyOf(f)[j], g, v) : TRUE
  BY <1>5
<1>7. PICK s : s = BodyOf(f)[j]
  OBVIOUS
<1>8. <<f, j>> \in Callers(g)
  BY <1>2, <1>6, <1>7, FedBy
<1> QED
  BY <1>8

-----------------------------------------------------------------------------
(* The walks from the top-level functions, and the inductive invariant for *)
(* the calls through pointers that they find.                              *)

\* A function that has lost its node calls none that has one.
Kept == \A f \in ToSet(program.functions) : willIncludeInGraph(f) /\ f \notin nodes => CallsByName(f) \cap nodes = {}

\* A function that has been seen does not call itself, if it is passed pointers, and all that
\* flows into them is known.
Passed ==
  \A g \in visitInAll : program.params[g] # <<>> =>
    g \notin CallsByName(g) /\ \A v \in ToSet(program.params[g]) : Knows(mayPointTo, g, v)

\* The walks have been over the functions D: they have their edges, and who is called by them
\* or has been seen is one of them or queued.
Walked(D) ==
  /\ unprocessed # {} => D = {}
  /\ \A f \in D : CallsByPointer(Flows(FALSE), f) \cap nodes \subseteq ToSet(children[f])
  /\ \A f \in D : ToSet(children[f]) \subseteq D \cup ToSet(topOrderQueue)
  /\ visitInAll \cup ToSet(topLevelFunctions) \subseteq D \cup ToSet(topOrderQueue)

WalkInv == Kept /\ (SetOnce /\ showFunctionPtr => Passed /\ \E D \in SUBSET Function : Walked(D))

\* The conditions on the program do not change.
LEMMA StaticOnce ==
  ASSUME program' = program
  PROVE  /\ SetOnce' = SetOnce /\ Flows(FALSE)' = Flows(FALSE)
         /\ \A f : CallsByPointer(Flows(FALSE), f)' = CallsByPointer(Flows(FALSE), f)
<1>1. Flows(FALSE)' = Flows(FALSE) /\ Flows(TRUE)' = Flows(TRUE)
  BY DEF Flows, FlowOn, Feeds, BodyOf, Within
<1>2. \A f : BodyOf(f)' = BodyOf(f)
  BY DEF BodyOf
<1>3. \A f : /\ CallsByPointer(Flows(FALSE), f)' = CallsByPointer(Flows(FALSE), f)
             /\ CallsByPointer(Flows(TRUE), f)' = CallsByPointer(Flows(TRUE), f)
  BY <1>1, <1>2 DEF CallsByPointer
<1>4. \A f : willIncludeInGraph(f)' = willIncludeInGraph(f) /\ Callers(f)' = Callers(f)
  BY <1>2 DEF willIncludeInGraph, Callers
<1>5. \A f : PassedOnce(f)' = PassedOnce(f)
  BY <1>2, <1>4 DEF PassedOnce
<1>6. \A f, v : AssignedOnce(f, v)' = AssignedOnce(f, v)
  BY <1>2 DEF AssignedOnce, Uses
<1>7. SetOnce' = SetOnce
  BY <1>2, <1>3, <1>5, <1>6 DEF SetOnce
<1> QED
  BY <1>1, <1>3, <1>7

\* It holds at first: nothing has been seen.
LEMMA InitWalk == Init => WalkInv
<1> SUFFICES ASSUME Init PROVE WalkInv
  OBVIOUS
<1>1. /\ nodes = {f \in ToSet(program.functions) : willIncludeInGraph(f)}
      /\ topLevelFunctions = <<>> /\ topOrderQueue = <<>> /\ visitInAll = {}
  BY DEF Init
<1>2. Kept
  BY <1>1 DEF Kept
<1>3. Passed
  BY <1>1 DEF Passed
<1>4. Walked({})
  BY <1>1 DEF Walked, ToSet
<1> QED
  BY <1>2, <1>3, <1>4 DEF WalkInv

\* A step that leaves the walk alone, and adds no edges of functions that have been walked.
LEMMA WalkKept ==
  ASSUME WalkInv, program' = program, nodes' = nodes,
         visitInAll' = visitInAll, topOrderQueue' = topOrderQueue, mayPointTo' = mayPointTo,
         topLevelFunctions' = topLevelFunctions, unprocessed # {} \/ children' = children, unprocessed = {} => unprocessed' = {}
  PROVE  WalkInv'
<1>1. /\ SetOnce' = SetOnce /\ Flows(FALSE)' = Flows(FALSE)
      /\ \A f : CallsByPointer(Flows(FALSE), f)' = CallsByPointer(Flows(FALSE), f)
  BY StaticOnce
<1>2. \A f : CallsByName(f)' = CallsByName(f) /\ willIncludeInGraph(f)' = willIncludeInGraph(f)
  BY Static
<1>3. Kept'
  BY <1>2 DEF WalkInv, Kept
<1>4. ASSUME SetOnce', showFunctionPtr PROVE Passed' /\ \E D \in SUBSET Function : Walked(D)'
  <2>1. Passed /\ \E D \in SUBSET Function : Walked(D)
    BY <1>1, <1>4 DEF WalkInv
  <2>2. PICK D \in SUBSET Function : Walked(D)
    BY <2>1
  <2>3. \A g, v : Knows(mayPointTo, g, v)' = Knows(mayPointTo, g, v)
    BY <1>1 DEF Knows
  <2>4. Passed'
    BY <1>2, <2>1, <2>3 DEF Passed
  <2>5. CASE unprocessed # {}
    <3>1. D = {}
      BY <2>2, <2>5 DEF Walked
    <3>2. visitInAll \cup ToSet(topLevelFunctions) \subseteq D \cup ToSet(topOrderQueue)
      BY <2>2 DEF Walked
    <3>3. Walked(D)'
      BY <3>1, <3>2 DEF Walked
    <3> QED
      BY <2>4, <3>3
  <2>6. CASE unprocessed = {}
    <3>1. Walked(D)'
      BY <1>1, <2>2, <2>6 DEF Walked
    <3> QED
      BY <2>4, <3>1
  <2> QED
    BY <2>5, <2>6
<1> QED
  BY <1>3, <1>4 DEF WalkInv

\* A function without callers among the nodes is called by no function of the program that the
\* graph may have.
LEMMA pushTopLevelWalks ==
  ASSUME GraphInv, GraphInv', WalkInv, pushTopLevel
  PROVE  WalkInv'
<1>1. PICK f : f = Head(unchecked)
  OBVIOUS
<1>2. /\ unprocessed = {} /\ unchecked # <<>> /\ entry = Null
      /\ f \in nodes
      /\ topLevelFunctions' = Append(topLevelFunctions, f)
      /\ showFunctionPtr => topOrderQueue' = <<f>> /\ visitInAll' = {f}
      /\ UNCHANGED <<program, graph, unprocessed, unchecked>>
  BY <1>1 DEF pushTopLevel, NextFunction
<1>3. program' = program /\ nodes' = nodes /\ children' = children /\ unprocessed' = unprocessed
  BY <1>2 DEF graph
<1>4. /\ program \in Programs /\ nodes \subseteq Function /\ topLevelFunctions \in Seq(Function) /\ f \in Function
      /\ topOrderQueue = <<>>
  BY <1>2 DEF GraphInv, Types, Walking
<1>5. /\ SetOnce' = SetOnce /\ Flows(FALSE)' = Flows(FALSE)
      /\ \A g : CallsByPointer(Flows(FALSE), g)' = CallsByPointer(Flows(FALSE), g)
  BY <1>3, StaticOnce
<1>6. \A g : CallsByName(g)' = CallsByName(g) /\ willIncludeInGraph(g)' = willIncludeInGraph(g)
  BY <1>3, Static
<1>7. Kept'
  BY <1>3, <1>6 DEF WalkInv, Kept
<1>8. ToSet(topLevelFunctions') = ToSet(topLevelFunctions) \cup {f}
  BY <1>2, <1>4, AppendFacts
<1>9. ASSUME SetOnce', showFunctionPtr PROVE Passed' /\ \E D \in SUBSET Function : Walked(D)'
  <2>1. SetOnce /\ \E D \in SUBSET Function : Walked(D)
    BY <1>5, <1>9 DEF WalkInv
  <2>2. PICK D \in SUBSET Function : Walked(D)
    BY <2>1
  <2>3. ASSUME program.params[f] # <<>> PROVE Callers(f) = {}
    <3>1. SUFFICES ASSUME NEW c \in Callers(f) PROVE FALSE
      OBVIOUS
    <3>2. PICK g \in Function : \E k \in DOMAIN BodyOf(g) : c = <<g, k>>
      BY DEF Callers
    <3>3. PICK k \in DOMAIN BodyOf(g) : c = <<g, k>>
      BY <3>2
    <3>4. g \in ToSet(program.functions) /\ willIncludeInGraph(g)
      <4>1. PassedOnce(f)
        BY <1>4, <2>1, <2>3, OnceFacts
      <4>2. c[1] \in ToSet(program.functions) /\ willIncludeInGraph(c[1])
        BY <4>1 DEF PassedOnce
      <4> QED
        BY <3>3, <4>2
    <3>5. f \in CallsByName(g)
      BY <1>4, <2>1, <2>3, <3>1, <3>3, OnceSeen, CallersFacts
    <3>6. g \in nodes
      BY <1>2, <3>4, <3>5 DEF WalkInv, Kept
    <3>7. f \notin CallsByName(g)'
      BY <1>3, <1>8, <3>6 DEF GraphInv, Covered
    <3> QED
      BY <1>6, <3>5, <3>7
  <2>4. ASSUME program.params[f] # <<>>
        PROVE  f \notin CallsByName(f) /\ \A v \in ToSet(program.params[f]) : Knows(mayPointTo, f, v)'
    <3>1. Callers(f) = {}
      BY <2>3, <2>4
    <3>2. f \notin CallsByName(f)
      BY <1>4, <3>1, CallersFacts
    <3>3. PICK x : x = mayPointTo'
      OBVIOUS
    <3>4. \A v \in ToSet(program.params[f]) : Knows(x, f, v)
      BY <1>4, <2>1, <3>1, UncalledKnown
    <3> QED
      BY <1>5, <3>2, <3>3, <3>4 DEF Knows
  <2>5. Passed'
    BY <1>2, <1>3, <1>6, <1>9, <2>4 DEF Passed
  <2>6. ToSet(topOrderQueue) = {} /\ ToSet(topOrderQueue') = {f}
    BY <1>2, <1>4, <1>9 DEF ToSet
  <2>7. /\ \A g \in D : CallsByPointer(Flows(FALSE), g) \cap nodes \subseteq ToSet(children[g])
        /\ \A g \in D : ToSet(children[g]) \subseteq D
        /\ visitInAll \cup ToSet(topLevelFunctions) \subseteq D
    BY <2>2, <2>6 DEF Walked
  <2>8. Walked(D)'
    BY <1>2, <1>3, <1>5, <1>8, <1>9, <2>6, <2>7 DEF Walked
  <2> QED
    BY <2>5, <2>8
<1> QED
  BY <1>7, <1>9 DEF WalkInv

\* A function that loses its node calls nothing that has one.
LEMMA removeNoCalledSystemHeaderWalks ==
  ASSUME GraphInv, WalkInv, removeNoCalledSystemHeader
  PROVE  WalkInv'
<1>1. /\ entry # Null /\ nodes' \subseteq nodes /\ nodes \subseteq nodes' \cup {entry}
      /\ entry \notin nodes' => entry \notin nodes \/ children[entry] = <<>>
  BY DEF removeNoCalledSystemHeader
<1>2. /\ program' = program /\ children' = children /\ unprocessed' = unprocessed
      /\ topLevelFunctions' = topLevelFunctions
      /\ topOrderQueue' = topOrderQueue /\ visitInAll' = visitInAll /\ mayPointTo' = mayPointTo
  BY DEF removeNoCalledSystemHeader, walk
<1>3. unprocessed = {} /\ entry \in nodes
  BY <1>1 DEF GraphInv, Walking
<1>4. /\ SetOnce' = SetOnce /\ Flows(FALSE)' = Flows(FALSE)
      /\ \A f : CallsByPointer(Flows(FALSE), f)' = CallsByPointer(Flows(FALSE), f)
  BY <1>2, StaticOnce
<1>5. \A f : CallsByName(f)' = CallsByName(f) /\ willIncludeInGraph(f)' = willIncludeInGraph(f)
  BY <1>2, Static
<1>6. Kept'
  <2>1. ASSUME NEW f \in ToSet(program.functions), willIncludeInGraph(f), f \notin nodes' PROVE CallsByName(f) \cap nodes' = {}
    <3>1. CASE f \in nodes
      <4>1. f = entry /\ children[entry] = <<>>
        BY <1>1, <1>3, <2>1, <3>1
      <4>2. CallsByName(entry) \cap nodes \subseteq ToSet(children[entry])
        BY <1>3 DEF GraphInv, Called
      <4> QED
        BY <1>1, <4>1, <4>2 DEF ToSet
    <3>2. CASE f \notin nodes
      BY <1>1, <2>1, <3>2 DEF WalkInv, Kept
    <3> QED
      BY <3>1, <3>2
  <2> QED
    BY <1>2, <1>5, <2>1 DEF Kept
<1>7. ASSUME SetOnce', showFunctionPtr PROVE Passed' /\ \E D \in SUBSET Function : Walked(D)'
  <2>1. Passed /\ \E D \in SUBSET Function : Walked(D)
    BY <1>4, <1>7 DEF WalkInv
  <2>2. PICK D \in SUBSET Function : Walked(D)
    BY <2>1
  <2>3. \A g, v : Knows(mayPointTo, g, v)' = Knows(mayPointTo, g, v)
    BY <1>2, <1>4 DEF Knows
  <2>4. Passed'
    BY <1>2, <1>5, <2>1, <2>3 DEF Passed
  <2>5. Walked(D)'
    BY <1>1, <1>2, <1>4, <2>2 DEF Walked
  <2> QED
    BY <2>4, <2>5
<1> QED
  BY <1>6, <1>7 DEF WalkInv

\* The pass over the head of the queue knows what is due, finds all its calls through pointers,
\* and knows in the end what it passes to the functions that join the queue.
LEMMA processFunctionPtrInTopOrderWalks ==
  ASSUME GraphInv, GraphInv', WalkInv, processFunctionPtrInTopOrder
  PROVE  WalkInv'
<1>1. PICK f, ch, pa, csi : f = Head(topOrderQueue) /\ ch = children' /\ pa = parents' /\ csi = callsites'
  OBVIOUS
<1>2. PICK unseen : unseen = Within(NoteOnce(ch[f]), nodes \ visitInAll)
  OBVIOUS
<1>3. /\ topOrderQueue # <<>>
      /\ \E calls \in {PointerCalls(f)} : addEdges(f, calls)
      /\ mayPointTo' = After(f, Len(BodyOf(f)))
      /\ topOrderQueue' = Tail(topOrderQueue) \o unseen /\ visitInAll' = visitInAll \cup ToSet(unseen)
      /\ UNCHANGED <<program, nodes, unprocessed, unchecked, topLevelFunctions, entry>>
  BY <1>1, <1>2 DEF processFunctionPtrInTopOrder, WithoutHead
<1>4. PICK calls : addEdges(f, calls) /\ calls = PointerCalls(f)
  BY <1>3
<1>5. Types /\ Walking /\ Mirrored /\ Called
  BY DEF GraphInv
<1>6. program' = program /\ nodes' = nodes /\ unprocessed' = unprocessed /\ topLevelFunctions' = topLevelFunctions
  BY <1>3
<1>7. /\ program \in Programs /\ mayPointTo \in Fitting /\ topOrderQueue \in Seq(Function)
      /\ nodes \subseteq Function /\ visitInAll \subseteq Function /\ children \in [Function -> Seq(Function)]
  BY <1>5 DEF Types
<1>8. PICK rest : rest = Tail(topOrderQueue)
  OBVIOUS
<1>9. /\ rest \in Seq(Function) /\ ToSet(topOrderQueue) = {f} \cup ToSet(rest)
      /\ f \in visitInAll /\ f \in nodes /\ f \in Function
  <2>1. rest \in Seq(Function) /\ ToSet(topOrderQueue) = {f} \cup ToSet(rest) /\ f \in Function
    BY <1>1, <1>3, <1>7, <1>8, TailFacts
  <2> QED
    BY <1>5, <2>1 DEF Walking
<1>10. calls \in Seq(Function \X Nat) /\ Callees(calls) \subseteq CallsByPointer(Flows(TRUE), f)
  BY <1>4, <1>7, <1>9, PointerCallsFacts
<1>11. Joined(f, Callees(calls), ch, pa, csi)
  <2>1. UNCHANGED <<program, nodes>>
    BY <1>6
  <2>2. Callees(calls) \subseteq CallsByName(f) \cup CallsByPointer(Flows(TRUE), f)
    BY <1>10
  <2> QED
    BY <1>1, <1>4, <1>5, <1>9, <1>10, <2>1, <2>2, EdgesAdded
<1>12. /\ ch \in [Function -> Seq(Function)]
       /\ \A h \in Function : ToSet(children[h]) \subseteq ToSet(ch[h])
       /\ \A h \in Function : h # f => ToSet(ch[h]) \subseteq ToSet(children[h])
       /\ ToSet(ch[f]) \subseteq nodes
  <2>1. ASSUME NEW h \in Function, h # f, NEW g \in ToSet(ch[h]) PROVE g \in ToSet(children[h])
    <3>1. ch[h] \in Seq(Function) /\ children[h] \in Seq(Function)
      BY <1>7, <1>11 DEF Joined
    <3>2. g \in Function
      BY <3>1, <2>1 DEF ToSet
    <3>3. Occurs(g, ch[h]) # 0
      BY <2>1, <3>1, <3>2, OccursFacts
    <3>4. Occurs(g, children[h]) # 0
      BY <1>11, <2>1, <3>2, <3>3 DEF Joined
    <3> QED
      BY <3>1, <3>2, <3>4, OccursFacts
  <2>2. ASSUME NEW g \in ToSet(ch[f]) PROVE g \in nodes
    <3>1. ch[f] \in Seq(Function)
      BY <1>9, <1>11 DEF Joined
    <3>2. g \in Function
      BY <3>1, <2>2 DEF ToSet
    <3> QED
      BY <1>1, <1>6, <1>9, <2>2, <3>2 DEF GraphInv, Mirrored
  <2> QED
    BY <1>11, <2>1, <2>2 DEF Joined
<1>13. unseen \in Seq(Function) /\ ToSet(unseen) = ToSet(ch[f]) \cap (nodes \ visitInAll)
  <2>1. NoteOnce(ch[f]) \in Seq(Function) /\ ToSet(NoteOnce(ch[f])) = ToSet(ch[f])
    BY <1>9, <1>12, NoteOnceFacts
  <2> QED
    BY <1>2, <2>1, WithinFacts
<1>14. PICK queue, seen, y : queue = topOrderQueue' /\ seen = visitInAll' /\ y = mayPointTo'
  OBVIOUS
<1>15. ToSet(queue) = ToSet(rest) \cup ToSet(unseen) /\ seen = visitInAll \cup ToSet(unseen)
  BY <1>3, <1>8, <1>9, <1>13, <1>14, ConcatFacts
<1>16. /\ SetOnce' = SetOnce /\ Flows(FALSE)' = Flows(FALSE)
       /\ \A h : CallsByPointer(Flows(FALSE), h)' = CallsByPointer(Flows(FALSE), h)
  BY <1>6, StaticOnce
<1>17. \A h : CallsByName(h)' = CallsByName(h) /\ willIncludeInGraph(h)' = willIncludeInGraph(h)
  BY <1>6, Static
<1>18. Kept'
  BY <1>6, <1>17 DEF WalkInv, Kept
<1>19. ASSUME SetOnce', showFunctionPtr PROVE Passed' /\ \E D \in SUBSET Function : Walked(D)'
  <2>1. SetOnce /\ Passed /\ \E D \in SUBSET Function : Walked(D)
    BY <1>16, <1>19 DEF WalkInv
  <2>2. PICK D \in SUBSET Function : Walked(D)
    BY <2>1
  <2>3. KnowsDue(mayPointTo, visitInAll, f, 0)
    <3>1. ASSUME NEW g \in Function, NEW v \in Pointer, Due(visitInAll, f, 0, g, v) PROVE Knows(mayPointTo, g, v)
      <4>1. v \in ToSet(program.params[g]) /\ g \in visitInAll
        BY <3>1 DEF Due
      <4>2. program.params[g] # <<>>
        BY <4>1 DEF ToSet
      <4> QED
        BY <2>1, <4>1, <4>2 DEF Passed
    <3> QED
      BY <3>1 DEF KnowsDue
  <2>4. program.params[f] # <<>> => f \notin CallsByName(f)
    BY <1>9, <2>1 DEF Passed
  <2>5. CallsByPointer(Flows(FALSE), f) \subseteq Callees(calls)
    BY <1>4, <1>7, <1>9, <2>1, <2>3, <2>4, PointerCallsComplete
  <2>6. PICK n : n = Len(BodyOf(f))
    OBVIOUS
  <2>7. n \in 0..Len(BodyOf(f)) /\ DOMAIN BodyOf(f) = 1..n
    BY <1>7, <1>9, <2>6, BodyFacts
  <2>8. KnowsDue(y, visitInAll, f, n)
    BY <1>3, <1>7, <1>9, <1>14, <2>1, <2>3, <2>4, <2>6, <2>7, AfterKnows
  <2>9. ASSUME NEW g \in ToSet(unseen), program.params[g] # <<>>
        PROVE  g \notin CallsByName(g) /\ \E k \in 1..n : <<f, k>> \in Callers(g)
    <3>1. g \in Function /\ g # f /\ g \in ToSet(ch[f])
      BY <1>7, <1>9, <1>13, <2>9
    <3>2. PassedOnce(g) /\ g \notin CallsByPointer(Flows(TRUE), f)
      BY <1>9, <2>1, <2>9, <3>1, OnceFacts
    <3>3. g \in CallsByName(f)
      BY <1>9, <1>11, <3>1, <3>2 DEF Joined
    <3>4. PICK k \in DOMAIN BodyOf(f) : <<f, k>> \in Callers(g)
      BY <1>9, <3>3, CallersFacts
    <3>5. ASSUME g \in CallsByName(g) PROVE FALSE
      <4>1. PICK j \in DOMAIN BodyOf(g) : <<g, j>> \in Callers(g)
        BY <3>1, <3>5, CallersFacts
      <4>2. <<g, j>> = <<f, k>>
        BY <3>2, <3>4, <4>1 DEF PassedOnce
      <4> QED
        BY <3>1, <4>2
    <3> QED
      BY <2>7, <3>4, <3>5
  <2>10. ASSUME NEW g \in seen, program.params[g] # <<>>, NEW v \in ToSet(program.params[g])
         PROVE  Knows(y, g, v)
    <3>1. g \in Function
      BY <1>7, <1>13, <1>15
    <3>2. v \in Pointer
      <4>1. program.params[g] \in Seq(Pointer)
        BY <1>7, <3>1, ParamFacts
      <4> QED
        BY <4>1, <2>10 DEF ToSet
    <3>3. Due(visitInAll, f, n, g, v)
      <4>1. CASE g \in visitInAll
        BY <2>10, <4>1 DEF Due
      <4>2. CASE g \notin visitInAll
        <5>1. g \in ToSet(unseen)
          BY <1>15, <4>2
        <5>2. \E k \in 1..n : <<f, k>> \in Callers(g)
          BY <2>9, <2>10, <5>1
        <5> QED
          BY <2>10, <5>2 DEF Due
      <4> QED
        BY <4>1, <4>2
    <3> QED
      BY <2>8, <3>1, <3>2, <3>3 DEF KnowsDue
  <2>11. Passed'
    <3>1. ASSUME NEW g \in seen, program.params[g] # <<>> PROVE g \notin CallsByName(g)
      <4>1. CASE g \in visitInAll
        BY <2>1, <3>1, <4>1 DEF Passed
      <4>2. CASE g \notin visitInAll
        BY <1>15, <2>9, <3>1, <4>2
      <4> QED
        BY <4>1, <4>2
    <3>2. \A g, v : Knows(mayPointTo, g, v)' <=> Knows(y, g, v)
      BY <1>14, <1>16 DEF Knows
    <3> QED
      BY <1>6, <1>14, <1>17, <2>10, <3>1, <3>2 DEF Passed
  <2>12. PICK E : E = D \cup {f}
    OBVIOUS
  <2>13. unprocessed = {}
    BY <1>3, <1>5 DEF Walking
  <2>14. ASSUME NEW h \in E PROVE CallsByPointer(Flows(FALSE), h) \cap nodes \subseteq ToSet(ch[h])
    <3>1. CASE h = f
      BY <1>11, <2>5, <3>1 DEF Joined
    <3>2. CASE h # f
      BY <1>12, <2>2, <2>12, <2>14, <3>2 DEF Walked
    <3> QED
      BY <3>1, <3>2
  <2>15. visitInAll \cup ToSet(topLevelFunctions) \subseteq E \cup ToSet(rest)
    BY <1>9, <2>2, <2>12 DEF Walked
  <2>16. ASSUME NEW h \in E PROVE ToSet(ch[h]) \subseteq E \cup ToSet(queue)
    <3>1. CASE h = f
      BY <1>12, <1>13, <1>15, <2>15, <3>1
    <3>2. CASE h # f
      <4>1. ToSet(children[h]) \subseteq D \cup ToSet(topOrderQueue)
        BY <2>2, <2>12, <2>16, <3>2 DEF Walked
      <4>2. ToSet(ch[h]) \subseteq ToSet(children[h])
        BY <1>12, <2>12, <2>16, <3>2
      <4> QED
        BY <1>9, <1>15, <2>12, <4>1, <4>2
    <3> QED
      BY <3>1, <3>2
  <2>17. seen \cup ToSet(topLevelFunctions) \subseteq E \cup ToSet(queue)
    BY <1>15, <2>15
  <2>18. Walked(E)'
    BY <1>1, <1>6, <1>14, <1>16, <2>13, <2>14, <2>16, <2>17 DEF Walked
  <2>19. E \in SUBSET Function
    BY <1>9, <2>12
  <2> QED
    BY <2>11, <2>18, <2>19
<1> QED
  BY <1>18, <1>19 DEF WalkInv

\* The inductive invariant holds in every state of the construction: what the walks have been
\* over has its edges for calls through pointers, and what the pass has to know it knows.
THEOREM WalkInvariant == Spec => [](GraphInv /\ WalkInv)
<1>1. Init => WalkInv
  BY InitWalk
<1>2. ASSUME GraphInv, GraphInv', WalkInv, [Next]_vars PROVE WalkInv'
  <2>1. CASE processCallee
    <3>1. /\ unprocessed # {} /\ program' = program /\ nodes' = nodes /\ topLevelFunctions' = topLevelFunctions
          /\ topOrderQueue' = topOrderQueue /\ visitInAll' = visitInAll /\ mayPointTo' = mayPointTo
      BY <2>1 DEF processCallee, walk
    <3> QED
      BY <1>2, <3>1, WalkKept
  <2>2. CASE pushTopLevel
    BY <1>2, <2>2, pushTopLevelWalks
  <2>3. CASE skipCalled
    <3>1. /\ program' = program /\ nodes' = nodes /\ topLevelFunctions' = topLevelFunctions
          /\ topOrderQueue' = topOrderQueue /\ visitInAll' = visitInAll /\ mayPointTo' = mayPointTo
          /\ children' = children /\ unprocessed' = unprocessed
      BY <2>3 DEF skipCalled, walk, graph
    <3> QED
      BY <1>2, <3>1, WalkKept
  <2>4. CASE processFunctionPtrInTopOrder
    BY <1>2, <2>4, processFunctionPtrInTopOrderWalks
  <2>5. CASE removeNoCalledSystemHeader
    BY <1>2, <2>5, removeNoCalledSystemHeaderWalks
  <2>6. CASE UNCHANGED vars
    <3>1. /\ program' = program /\ nodes' = nodes /\ topLevelFunctions' = topLevelFunctions
          /\ topOrderQueue' = topOrderQueue /\ visitInAll' = visitInAll /\ mayPointTo' = mayPointTo
          /\ children' = children /\ unprocessed' = unprocessed
      BY <2>6 DEF vars, walk, graph
    <3> QED
      BY <1>2, <3>1, WalkKept
  <2> QED
    BY <1>2, <2>1, <2>2, <2>3, <2>4, <2>5, <2>6 DEF Next
<1> QED
  BY <1>1, <1>2, GraphInvariant, PTL DEF Spec

\* What is reached from the top-level functions is in any set that has them and their callees.
LEMMA ReachedIn ==
  ASSUME NEW D, ToSet(topLevelFunctions) \subseteq D, \A f \in D : ToSet(children[f]) \subseteq D
  PROVE  Reached \subseteq D
<1> DEFINE N == Cardinality(Function)
           A == SUBSET D
           top == ToSet(topLevelFunctions)
           expr(k, x) == x \cup UNION {ToSet(children[f]) : f \in x}
           F == [k \in 1..N |-> [x \in A |-> expr(k, x)]]
           step(R) == [i \in 0..N |-> IF i = 0 THEN top ELSE expr(i, R[i - 1])]
           rounds == CHOOSE R : R = step(R)
<1>1. N \in Nat /\ top \in A
  BY ProgramsAssumption, FS_CardinalityType
<1>2. \A k \in 1..N, x \in A : expr(k, x) \in A
  OBVIOUS
<1>3. Reached = rounds[N]
  BY DEF Reached
<1>4. \A k \in 0..N : k # 0 => k \in 1..N
  BY <1>1
<1>5. \A k \in 1..N : k - 1 \in 0..N /\ k \in 0..N /\ k # 0
  BY <1>1
<1>6. 0 \in 0..N /\ N \in 0..N
  BY <1>1
<1> HIDE DEF A, top, expr
<1>7. F \in Steps(N, A) /\ \A k \in 1..N, x \in A : F[k][x] = expr(k, x)
  BY <1>2 DEF Steps
<1> HIDE DEF F
<1>8. PICK R \in [0..N -> A] : R[0] = top /\ \A k \in 1..N : R[k] = F[k][R[k - 1]]
  BY <1>1, <1>7, Recursion DEF Iterates, IsIterated
<1>9. \A k \in 0..N : R[k] = IF k = 0 THEN top ELSE expr(k, R[k - 1])
  BY <1>4, <1>5, <1>7, <1>8
<1>10. R = step(R)
  BY <1>9
<1>11. rounds = step(rounds)
  BY <1>10
<1> HIDE DEF rounds
<1>12. rounds[0] = top /\ \A k \in 1..N : rounds[k] = expr(k, rounds[k - 1])
  BY <1>5, <1>6, <1>11
<1> DEFINE P == {k \in 0..N : rounds[k] \in A}
<1>13. 0 \in P
  BY <1>1, <1>6, <1>12
<1>14. ASSUME NEW k \in 1..N, k - 1 \in P PROVE k \in P
  BY <1>2, <1>5, <1>12, <1>14
<1> HIDE DEF P
<1>15. 0..N \subseteq P
  BY <1>1, <1>13, <1>14, BoundedInduction
<1>16. rounds[N] \in A
  BY <1>6, <1>15 DEF P
<1> QED
  BY <1>3, <1>16 DEF A

\* When the construction is done, every call through a pointer of a function that is reached
\* is an edge, if pointers are set and passed on once only.
THEOREM PointerCallsAlwaysFound == Spec => []PointerCallsFound
<1>1. ASSUME GraphInv, WalkInv PROVE PointerCallsFound
  <2>1. SUFFICES ASSUME Done, showFunctionPtr, SetOnce, NEW f \in Reached \cap nodes
                 PROVE  CallsByPointer(Flows(FALSE), f) \cap nodes \subseteq ToSet(children[f])
    BY DEF PointerCallsFound
  <2>2. PICK D \in SUBSET Function : Walked(D)
    BY <1>1, <2>1 DEF WalkInv
  <2>3. topOrderQueue = <<>>
    BY <1>1, <2>1 DEF GraphInv, Walking, Done
  <2>4. ToSet(topOrderQueue) = {}
    BY <2>3 DEF ToSet
  <2>5. ToSet(topLevelFunctions) \subseteq D /\ \A g \in D : ToSet(children[g]) \subseteq D
    BY <2>2, <2>4 DEF Walked
  <2>6. f \in D
    BY <2>1, <2>5, ReachedIn
  <2> QED
    BY <2>2, <2>6 DEF Walked
<1> QED
  BY <1>1, WalkInvariant, PTL

================================================================================
