--------------------------- MODULE ASTManagerProofs ---------------------------
(***************************************************************************)
(* That CacheInv is an invariant of the AST manager for every list of      *)
(* distinct ASTs, every queue size and every heap, and what follows from   *)
(* it for the properties of ASTManager.  That the process dies only of the *)
(* two mistakes nothing checks, and evicts only to make room, is proved    *)
(* of every configuration, from what the queue is (QueueTyped).            *)
(***************************************************************************)
EXTENDS ASTManager, SequenceTheorems, WellFoundedInduction, TLAPS

-----------------------------------------------------------------------------
(* The two ways the queue changes.                                         *)

\* Taking the q-th entry out and appending it permutes the sequence.
LEMMA MoveToBack ==
  ASSUME NEW S, NEW s \in Seq(S), NEW q \in DOMAIN s
  PROVE  LET t == Append(RemoveAt(s, q), s[q])
         IN  /\ t \in Seq(S)
             /\ Len(t) = Len(s)
             /\ \A j \in 1..Len(s) :
                  t[j] = IF j < q THEN s[j] ELSE IF j < Len(s) THEN s[j + 1] ELSE s[q]
<1> DEFINE t == Append(RemoveAt(s, q), s[q])
           left == SubSeq(s, 1, q - 1)
           right == SubSeq(s, q + 1, Len(s))
<1>1. q \in 1..Len(s)
  OBVIOUS
<1>2. left \in Seq(S) /\ Len(left) = q - 1 /\ \A j \in 1..(q - 1) : left[j] = s[j]
  BY <1>1
<1>3. /\ right \in Seq(S) /\ Len(right) = Len(s) - q
      /\ \A j \in 1..(Len(s) - q) : right[j] = s[q + j]
  BY <1>1
<1>4. t = Append(left \o right, s[q])
  BY DEF RemoveAt
<1> HIDE DEF left, right, t
<1>5. left \o right \in Seq(S) /\ Len(left \o right) = Len(s) - 1
  BY <1>1, <1>2, <1>3
<1>6. \A j \in 1..(Len(s) - 1) : (left \o right)[j] = IF j < q THEN s[j] ELSE s[j + 1]
  <2> TAKE j \in 1..(Len(s) - 1)
  <2>1. CASE j < q
    BY <2>1, <1>1, <1>2, <1>3
  <2>2. CASE ~(j < q)
    <3>1. /\ j \in Int /\ q \in Int /\ Len(s) \in Int
          /\ j - (q - 1) \in 1..(Len(s) - q) /\ q + (j - (q - 1)) = j + 1
      BY <2>2, <1>1
    <3>4. j \in 1..(Len(left) + Len(right)) /\ ~(j <= Len(left))
      BY <2>2, <1>1, <1>2, <1>3
    <3>2. (left \o right)[j] = right[j - Len(left)]
      BY <3>4, <1>2, <1>3, ConcatProperties
    <3>3. right[j - (q - 1)] = s[q + (j - (q - 1))]
      BY <3>1, <1>3
    <3> QED
      BY <3>1, <3>2, <3>3, <2>2, <1>2
  <2> QED
    BY <2>1, <2>2
<1>7. t \in Seq(S) /\ Len(t) = Len(s)
  BY <1>1, <1>4, <1>5
<1>8. \A j \in 1..Len(s) :
        t[j] = IF j <= Len(s) - 1 THEN (left \o right)[j] ELSE s[q]
  BY <1>1, <1>4, <1>5
<1>9. ASSUME NEW j \in 1..Len(s)
      PROVE  t[j] = IF j < q THEN s[j] ELSE IF j < Len(s) THEN s[j + 1] ELSE s[q]
  <2>1. CASE j = Len(s)
    <3>1. Len(s) \in 1..Len(s) /\ ~(Len(s) <= Len(s) - 1) /\ ~(Len(s) < q) /\ ~(Len(s) < Len(s))
      BY <1>1
    <3> QED
      BY <2>1, <3>1, <1>8
  <2>2. CASE j # Len(s)
    <3>1. j \in 1..(Len(s) - 1) /\ j <= Len(s) - 1 /\ j < Len(s)
      BY <2>2
    <3> QED
      BY <3>1, <1>6, <1>8
  <2> QED
    BY <2>1, <2>2
<1> QED
  BY <1>7, <1>9 DEF t

\* What is left after dropping k entries at the front.
LEMMA DropFacts ==
  ASSUME NEW S, NEW s \in Seq(S), NEW k \in 0..Len(s)
  PROVE  /\ SubSeq(s, k + 1, Len(s)) \in Seq(S)
         /\ Len(SubSeq(s, k + 1, Len(s))) = Len(s) - k
         /\ \A j \in 1..(Len(s) - k) : SubSeq(s, k + 1, Len(s))[j] = s[j + k]
OBVIOUS

\* What is left after dropping k entries at the front and appending one.
LEMMA DropAndAppend ==
  ASSUME NEW S, NEW s \in Seq(S), NEW k \in 0..Len(s), NEW u \in S
  PROVE  LET t == Append(SubSeq(s, k + 1, Len(s)), u)
         IN  /\ t \in Seq(S)
             /\ Len(t) = Len(s) - k + 1
             /\ \A j \in 1..Len(t) : t[j] = IF j <= Len(s) - k THEN s[j + k] ELSE u
<1> DEFINE rest == SubSeq(s, k + 1, Len(s))
<1>1. /\ rest \in Seq(S) /\ Len(rest) = Len(s) - k
      /\ \A j \in 1..(Len(s) - k) : rest[j] = s[j + k]
  BY DropFacts
<1> HIDE DEF rest
<1>2. Len(s) \in Nat /\ Len(s) - k \in Nat
  OBVIOUS
<1>3. Append(rest, u) \in Seq(S) /\ Len(Append(rest, u)) = Len(s) - k + 1
  BY <1>1, <1>2
<1>4. \A j \in 1..(Len(s) - k + 1) :
        Append(rest, u)[j] = IF j <= Len(s) - k THEN s[j + k] ELSE u
  BY <1>1, <1>2
<1> QED
  BY <1>3, <1>4 DEF rest

-----------------------------------------------------------------------------
(* The handles and what they point to.                                     *)

\* The list of ASTs is a sequence, and File its index set.
LEMMA ListFacts ==
  /\ Len(ASTList) \in Nat
  /\ File = 1..Len(ASTList)
  /\ \A i \in File : ASTList[i] \in AST
  /\ \A n \in AST : \E i \in File : ASTList[i] = n
BY ConfigAssumption DEF File, AST, ToSet

\* The declarations of an AST are sequences of Decl.
LEMMA DeclFacts ==
  /\ \A i \in File, a \in Addr : FuncDecl[ASTList[i]][a] \in Seq(Decl)
                                 /\ DOMAIN FuncDecl[ASTList[i]][a] = DOMAIN FuncLoc[ASTList[i]]
  /\ \A kind \in VarKind, i \in File : VarDecl[kind][ASTList[i]] \in Seq(Decl)
<1>1. ASSUME NEW n \in AST, NEW a \in Addr
      PROVE  FuncDecl[n][a] \in Seq(Decl) /\ DOMAIN FuncDecl[n][a] = DOMAIN FuncLoc[n]
  <2>1. FuncDecl[n] \in [Addr -> Seq(Decl)]
    BY ConfigAssumption
  <2>2. Len(FuncDecl[n][a]) = Len(FuncLoc[n]) /\ FuncLoc[n] \in Seq(ToSet(FuncLoc[n]))
    BY ConfigAssumption
  <2>3. FuncDecl[n][a] \in Seq(Decl)
    BY <2>1
  <2> QED
    BY <2>2, <2>3
<1>2. ASSUME NEW kind \in VarKind, NEW n \in AST
      PROVE  VarDecl[kind][n] \in Seq(Decl)
  <2>1. VarDecl[kind] \in [AST -> Seq(Decl)]
    BY ConfigAssumption
  <2> QED
    BY <2>1
<1> QED
  BY <1>1, <1>2, ListFacts

\* Null is none of the values the tables hold.
LEMMA NullFacts == Null \notin Addr /\ Null \notin Pointer /\ Null \notin Function /\ Null \notin Variable
BY ConfigAssumption

\* A function handle names a file of the list; at an address it has a pointer into it.
LEMMA FunctionFacts ==
  ASSUME NEW F \in Function
  PROVE  /\ F[1] \in File /\ ASTOf(F) \in AST
         /\ \A a \in Addr : FD(F, a) \in Pointer /\ FD(F, a)[1] = a /\ FD(F, a)[2] \in Decl
<1>1. PICK i \in File : F \in {i} \X DOMAIN FuncLoc[ASTList[i]]
  BY DEF Function
<1>2. F[1] = i /\ F[2] \in DOMAIN FuncLoc[ASTList[i]]
  BY <1>1
<1>3. ASSUME NEW a \in Addr
      PROVE  FuncDecl[ASTList[i]][a][F[2]] \in Decl
  <2>1. /\ FuncDecl[ASTList[i]][a] \in Seq(Decl)
        /\ DOMAIN FuncDecl[ASTList[i]][a] = DOMAIN FuncLoc[ASTList[i]]
    BY DeclFacts
  <2> QED
    BY <1>2, <2>1
<1> QED
  BY <1>2, <1>3, ListFacts DEF ASTOf, FD, Pointer

\* The same for the handle of a variable of a given kind.
LEMMA VariableFacts ==
  ASSUME NEW kind \in VarKind, NEW V \in VariableOf(kind)
  PROVE  /\ V \in Variable /\ V[1] = kind
         /\ V[2] \in File /\ ASTOfVar(V) \in AST /\ V[3] \in Nat
         /\ V[3] \in 1..Len(VarDecl[kind][ASTOfVar(V)])
         /\ \A a \in Addr : VD(V, a) \in Pointer /\ VD(V, a)[1] = a
<1>1. PICK i \in File : V \in {kind} \X {i} \X DOMAIN VarDecl[kind][ASTList[i]]
  BY DEF VariableOf
<1>2. V[1] = kind /\ V[2] = i /\ V[3] \in DOMAIN VarDecl[kind][ASTList[i]]
  BY <1>1
<1>3. VarDecl[kind][ASTList[i]] \in Seq(Decl)
  BY DeclFacts
<1>4. VarDecl[kind][ASTList[i]][V[3]] \in Decl /\ V[3] \in 1..Len(VarDecl[kind][ASTList[i]])
  BY <1>2, <1>3
<1>5. V \in Variable
  BY DEF Variable
<1> QED
  BY <1>2, <1>3, <1>4, <1>5, ListFacts DEF ASTOfVar, VD, Pointer

\* Every variable handle is of the kind it carries.
LEMMA VariableHasKind ==
  ASSUME NEW V \in Variable
  PROVE  V[1] \in VarKind /\ V \in VariableOf(V[1])
<1>1. PICK kind \in VarKind : V \in VariableOf(kind)
  BY DEF Variable
<1> QED
  BY <1>1, VariableFacts

\* A nonempty set of naturals with an upper bound has a greatest element.
LEMMA GreatestExists ==
  ASSUME NEW T \in SUBSET Nat, T # {}, NEW b \in Nat, \A m \in T : m <= b
  PROVE  \E m \in T : \A k \in T : k <= m
<1> DEFINE U == {u \in Nat : \A m \in T : m <= u}
<1>1. U \subseteq Nat /\ U # {}
  OBVIOUS
<1>2. PICK u \in U : \A v \in U : ~(<<v, u>> \in OpToRel(<, Nat))
  BY <1>1, WFMin, NatLessThanWellFounded
<1>3. \A v \in U : ~(v < u)
  BY <1>2 DEF OpToRel
<1>4. u \in T
  <2>1. SUFFICES ASSUME u \notin T PROVE FALSE
    OBVIOUS
  <2>2. \A m \in T : m < u
    BY <2>1
  <2>3. u # 0
    <3>1. PICK m \in T : TRUE
      OBVIOUS
    <3>2. m \in Nat /\ u \in Nat /\ m < u
      BY <2>2
    <3> QED
      BY <3>2
  <2>4. u - 1 \in U
    BY <2>2, <2>3
  <2> QED
    BY <2>4, <1>3
<1> QED
  BY <1>4

\* LastWith picks a handle as soon as some variable of the unit has the VarDecl.
LEMMA LastWithExists ==
  ASSUME NEW kind \in VarKind, NEW ptr \in Pointer, NEW i \in File, NEW a \in Addr,
         \E V \in VariableOf(kind) : V[2] = i /\ VD(V, a) = ptr
  PROVE  /\ LastWith(<<kind, ptr>>, i, a) \in VariableOf(kind)
         /\ LastWith(<<kind, ptr>>, i, a)[2] = i
         /\ VD(LastWith(<<kind, ptr>>, i, a), a) = ptr
<1> DEFINE Vs == {V \in VariableOf(kind) : V[2] = i /\ VD(V, a) = ptr}
           T == {V[3] : V \in Vs}
<1>1. T \in SUBSET Nat /\ T # {}
  BY VariableFacts
<1>2. /\ Len(VarDecl[kind][ASTList[i]]) \in Nat
      /\ \A m \in T : m <= Len(VarDecl[kind][ASTList[i]])
  <2>1. VarDecl[kind][ASTList[i]] \in Seq(Decl)
    BY DeclFacts
  <2> QED
    BY <2>1, VariableFacts DEF ASTOfVar
<1>3. PICK m \in T : \A k \in T : k <= m
  BY <1>1, <1>2, GreatestExists
<1>4. PICK V \in VariableOf(kind) : V[2] = i /\ VD(V, a) = ptr /\ V[3] = m
  BY <1>3
<1>5. \A W \in VariableOf(kind) : W[2] = i /\ VD(W, a) = ptr => W[3] <= V[3]
  BY <1>3, <1>4
<1> QED
  BY <1>4, <1>5 DEF LastWith

-----------------------------------------------------------------------------
(* Loading a unit: loadASTUnit with its pops.                              *)

\* The part of the invariant about the cache alone.
CacheTypeOK ==
  /\ ASTQueue \in Seq(Units)
  /\ ASTs \in [AST -> Addr \cup {Null}]
  /\ functionMap \in [Function -> Pointer \cup {Null}]
  /\ variableLeft \in [Variable -> Pointer \cup {Null}]
  /\ variableRight \in [VarKind \X Pointer -> Variable \cup {Null}]

Mirrors == QueueMirrorsASTs /\ BimapMirrorsUnits /\ RightMirrorsLeft

\* A CFG table that is as CFGsFresh wants it once the bimap has changed.
FreshNext(cfgs) ==
  /\ cfgs \in [Function -> Pointer \cup {Null}]
  /\ \A F \in Function : cfgs[F] # Null => cfgs[F] = functionMap'[F]

\* The file table finds the ASTFile object of n and of everything in memory.
Covers(files, n) ==
  \A m \in AST : m = n \/ ASTs[m] # Null => files[m] \in File /\ ASTList[files[m]] = m

\* The entries of the queue, each with what ASTs says of it, and back.
LEMMA QueueFacts ==
  ASSUME TypeOK, QueueMirrorsASTs
  PROVE  /\ Len(ASTQueue) \in Nat /\ DOMAIN ASTQueue = 1..Len(ASTQueue)
         /\ \A q \in 1..Len(ASTQueue) :
              /\ ASTQueue[q] \in Units
              /\ ASTQueue[q].ast \in AST /\ ASTQueue[q].addr \in Addr
              /\ ASTQueue[q] = [ast |-> ASTQueue[q].ast, addr |-> ASTQueue[q].addr]
              /\ ASTs[ASTQueue[q].ast] = ASTQueue[q].addr
              /\ ASTs[ASTQueue[q].ast] # Null
         /\ \A n \in AST : ASTs[n] # Null =>
              \E q \in 1..Len(ASTQueue) : ASTQueue[q] = [ast |-> n, addr |-> ASTs[n]]
<1>1. ASTQueue \in Seq(Units)
  BY DEF TypeOK
<1>2. Len(ASTQueue) \in Nat /\ DOMAIN ASTQueue = 1..Len(ASTQueue)
  BY <1>1
<1>3. \A q \in 1..Len(ASTQueue) : ASTQueue[q] \in Units
  BY <1>1
<1>4. \A u \in Units : u.ast \in AST /\ u.addr \in Addr /\ u = [ast |-> u.ast, addr |-> u.addr]
  BY DEF Units
<1>5. \A q \in 1..Len(ASTQueue) : ASTs[ASTQueue[q].ast] = ASTQueue[q].addr
  BY <1>2 DEF QueueMirrorsASTs
<1>6. \A n \in AST : ASTs[n] # Null =>
        \E q \in 1..Len(ASTQueue) : ASTQueue[q] = [ast |-> n, addr |-> ASTs[n]]
  BY <1>2 DEF QueueMirrorsASTs, ToSet
<1> QED
  BY <1>2, <1>3, <1>4, <1>5, <1>6, NullFacts

\* Two names never stand for one address.
LEMMA OneASTPerAddr ==
  ASSUME TypeOK, QueueMirrorsASTs, NEW m \in AST, NEW n \in AST,
         ASTs[m] # Null, ASTs[m] = ASTs[n]
  PROVE  m = n
<1>1. PICK q \in 1..Len(ASTQueue) : ASTQueue[q] = [ast |-> m, addr |-> ASTs[m]]
  BY QueueFacts
<1>2. PICK r \in 1..Len(ASTQueue) : ASTQueue[r] = [ast |-> n, addr |-> ASTs[n]]
  BY QueueFacts
<1>3. q = r
  BY <1>1, <1>2, QueueFacts DEF QueueMirrorsASTs
<1> QED
  BY <1>1, <1>2, <1>3

\* What the queue is, whatever the configuration.
QueueTyped == ASTQueue \in Seq(Units) /\ max_size \in Limits \cup {QueueSize}

LEMMA TypeOKQueue == TypeOK => QueueTyped
BY DEF TypeOK, QueueTyped

\* If the queue is not popped empty, Pops is the length of the part that goes.
LEMMA PopsFacts ==
  ASSUME QueueTyped, Pops <= Len(ASTQueue)
  PROVE  Pops \in 0..Len(ASTQueue)
<1>1. Len(ASTQueue) \in Nat /\ max_size \in Nat
  BY ConfigAssumption DEF QueueTyped
<1> QED
  BY <1>1 DEF Pops

\* The pops erase the handles of exactly the ASTs they remove from the queue.
LEMMA ErasedFacts ==
  ASSUME TypeOK, QueueMirrorsASTs, DistinctASTs, Pops <= Len(ASTQueue),
         NEW files, NEW n \in AST, Covers(files, n), NEW i \in File
  PROVE  /\ i = files[n] <=> ASTList[i] = n
         /\ i \in Erased(files) <=> \E q \in 1..Pops : ASTQueue[q].ast = ASTList[i]
<1>1. \A j \in File : ASTList[i] = ASTList[j] => i = j
  BY DEF DistinctASTs
<1>2. files[n] \in File /\ ASTList[files[n]] = n
  BY DEF Covers
<1>3. \A q \in 1..Pops : /\ files[ASTQueue[q].ast] \in File
                         /\ ASTList[files[ASTQueue[q].ast]] = ASTQueue[q].ast
  BY PopsFacts, TypeOKQueue, QueueFacts DEF Covers
<1> QED
  BY <1>1, <1>2, <1>3 DEF Erased

\* A load keeps the list of units and the map from names to units in step.
LEMMA LoadQueue ==
  ASSUME TypeOK, QueueMirrorsASTs, NEW files, NEW n \in AST, ASTs[n] = Null,
         NEW a \in FreeAddr, LoadASTUnit(files, n, a)
  PROVE  /\ ASTQueue' \in Seq(Units) /\ ASTs' \in [AST -> Addr \cup {Null}]
         /\ QueueMirrorsASTs' /\ ASTs'[n] = a
<1> DEFINE k == Pops
           len == Len(ASTQueue)
           new == [ast |-> n, addr |-> a]
           t == ASTQueue'
<1>1. k \in 0..len /\ len \in Nat
  BY PopsFacts, TypeOKQueue, QueueFacts DEF LoadASTUnit
<1>2. a \in Addr /\ \A q \in 1..len : ASTQueue[q].addr # a
  BY QueueFacts DEF FreeAddr, ToSet
<1>3. new \in Units
  BY <1>2 DEF Units
<1>4. /\ t \in Seq(Units) /\ Len(t) = len - k + 1
      /\ \A j \in 1..Len(t) : t[j] = IF j <= len - k THEN ASTQueue[j + k] ELSE new
  <2>1. t = Append(SubSeq(ASTQueue, k + 1, len), new)
    BY DEF LoadASTUnit
  <2>2. ASTQueue \in Seq(Units)
    BY DEF TypeOK
  <2> HIDE DEF k, new, t
  <2>3. k \in 0..Len(ASTQueue)
    BY <1>1
  <2> DEFINE t0 == Append(SubSeq(ASTQueue, k + 1, Len(ASTQueue)), new)
  <2>4. /\ t0 \in Seq(Units) /\ Len(t0) = Len(ASTQueue) - k + 1
        /\ \A j \in 1..Len(t0) : t0[j] = IF j <= Len(ASTQueue) - k THEN ASTQueue[j + k] ELSE new
    BY <2>2, <2>3, <1>3, DropAndAppend
  <2>5. t = t0
    BY <2>1
  <2> QED
    BY <2>4, <2>5
<1>5. /\ ASTs' \in [AST -> Addr \cup {Null}] /\ ASTs'[n] = a
      /\ \A m \in AST : m # n =>
           ASTs'[m] = IF \E q \in 1..k : ASTQueue[q].ast = m THEN Null ELSE ASTs[m]
  BY <1>2 DEF LoadASTUnit, TypeOK
<1> HIDE DEF k, len, new, t
<1>6. DOMAIN t = 1..Len(t) /\ Len(t) \in Nat
  BY <1>4
<1>7. \A m \in AST : ASTs'[m] # Null => \E j \in DOMAIN t : t[j] = [ast |-> m, addr |-> ASTs'[m]]
  <2> TAKE m \in AST
  <2> HAVE ASTs'[m] # Null
  <2>1. CASE m = n
    <3>1. len - k + 1 \in 1..Len(t) /\ ~(len - k + 1 <= len - k)
      BY <1>1, <1>4
    <3> QED
      BY <2>1, <3>1, <1>4, <1>5, <1>6 DEF new
  <2>2. CASE m # n
    <3>1. ASTs'[m] = ASTs[m] /\ ~(\E q \in 1..k : ASTQueue[q].ast = m)
      BY <2>2, <1>5
    <3>2. PICK q \in 1..len : ASTQueue[q] = [ast |-> m, addr |-> ASTs[m]]
      BY <3>1, QueueFacts DEF len
    <3>3. q \notin 1..k
      BY <3>1, <3>2
    <3>4. q - k \in 1..Len(t) /\ q - k <= len - k /\ (q - k) + k = q
      BY <3>3, <1>1, <1>4
    <3>5. t[q - k] = ASTQueue[q]
      BY <3>4, <1>4
    <3> QED
      BY <3>1, <3>2, <3>4, <3>5, <1>6
  <2> QED
    BY <2>1, <2>2
<1>8. \A j \in DOMAIN t : \/ j = len - k + 1 /\ t[j] = new
                          \/ /\ j + k \in 1..len /\ t[j] = ASTQueue[j + k]
                             /\ j + k \notin 1..k
  BY <1>1, <1>4, <1>6
<1>9. \A q \in 1..len : ASTQueue[q].ast # n
  BY QueueFacts DEF len
<1>10. \A q, r \in 1..len : q # r => /\ ASTQueue[q].ast # ASTQueue[r].ast
                                     /\ ASTQueue[q].addr # ASTQueue[r].addr
  BY QueueFacts DEF QueueMirrorsASTs, len
<1>11. \A j \in DOMAIN t : ASTs'[t[j].ast] = t[j].addr
  <2> TAKE j \in DOMAIN t
  <2>1. CASE t[j] = new
    BY <2>1, <1>5 DEF new
  <2>2. CASE j + k \in 1..len /\ t[j] = ASTQueue[j + k] /\ j + k \notin 1..k
    <3>1. ASTQueue[j + k].ast \in AST /\ ASTQueue[j + k].ast # n
          /\ ASTs[ASTQueue[j + k].ast] = ASTQueue[j + k].addr
      BY <2>2, <1>9, QueueFacts DEF len
    <3>2. ~(\E q \in 1..k : ASTQueue[q].ast = ASTQueue[j + k].ast)
      BY <2>2, <1>1, <1>10
    <3> QED
      BY <2>2, <3>1, <3>2, <1>5
  <2> QED
    BY <2>1, <2>2, <1>8
<1>12. \A j, h \in DOMAIN t : j # h => t[j].ast # t[h].ast /\ t[j].addr # t[h].addr
  <2> TAKE j, h \in DOMAIN t
  <2> HAVE j # h
  <2>0. j \in Int /\ h \in Int /\ k \in Int
    BY <1>1, <1>6
  <2>1. CASE t[j] = new /\ j = len - k + 1
    BY <2>0, <2>1, <1>2, <1>8, <1>9 DEF new, len
  <2>2. CASE t[h] = new /\ h = len - k + 1
    BY <2>0, <2>2, <1>2, <1>8, <1>9 DEF new, len
  <2>3. CASE /\ j + k \in 1..len /\ t[j] = ASTQueue[j + k]
             /\ h + k \in 1..len /\ t[h] = ASTQueue[h + k]
    BY <2>0, <2>3, <1>10
  <2> QED
    BY <2>1, <2>2, <2>3, <1>8
<1> QED
  BY <1>4, <1>5, <1>7, <1>11, <1>12 DEF QueueMirrorsASTs, ToSet, t

\* A load binds the handles of the new unit and unbinds those of the evicted ones.
LEMMA LoadHandles ==
  ASSUME TypeOK, QueueMirrorsASTs, BimapMirrorsUnits, DistinctASTs, NEW files, NEW n \in AST,
         Covers(files, n), NEW a \in FreeAddr, LoadASTUnit(files, n, a)
  PROVE  /\ functionMap' \in [Function -> Pointer \cup {Null}]
         /\ variableLeft' \in [Variable -> Pointer \cup {Null}]
         /\ BimapMirrorsUnits'
<1>0. Pops <= Len(ASTQueue) /\ a \in Addr
  BY DEF LoadASTUnit, FreeAddr
<1>1. \A m \in AST : ASTs'[m] = IF m = n THEN a
                                ELSE IF \E q \in 1..Pops : ASTQueue[q].ast = m THEN Null
                                ELSE ASTs[m]
  BY DEF LoadASTUnit
<1>2. ASSUME NEW F \in Function
      PROVE  /\ functionMap'[F] \in Pointer \cup {Null}
             /\ functionMap'[F] = IF ASTs'[ASTOf(F)] = Null THEN Null ELSE FD(F, ASTs'[ASTOf(F)])
  <2>1. F[1] \in File /\ ASTOf(F) \in AST /\ FD(F, a) \in Pointer
    BY <1>0, FunctionFacts
  <2>2. /\ F[1] = files[n] <=> ASTOf(F) = n
        /\ F[1] \in Erased(files) <=> \E q \in 1..Pops : ASTQueue[q].ast = ASTOf(F)
    BY <1>0, <2>1, ErasedFacts DEF ASTOf
  <2>3. functionMap'[F] = IF F[1] = files[n] THEN FD(F, a)
                          ELSE IF F[1] \in Erased(files) THEN Null
                          ELSE functionMap[F]
    BY DEF LoadASTUnit
  <2>4. functionMap[F] \in Pointer \cup {Null}
    BY DEF TypeOK
  <2>5. functionMap[F] = IF ASTs[ASTOf(F)] = Null THEN Null ELSE FD(F, ASTs[ASTOf(F)])
    BY DEF BimapMirrorsUnits
  <2> QED
    BY <1>0, <1>1, <2>1, <2>2, <2>3, <2>4, <2>5, NullFacts
<1>3. ASSUME NEW V \in Variable
      PROVE  /\ variableLeft'[V] \in Pointer \cup {Null}
             /\ variableLeft'[V] = IF ASTs'[ASTOfVar(V)] = Null THEN Null
                                   ELSE VD(V, ASTs'[ASTOfVar(V)])
  <2>1. V[2] \in File /\ ASTOfVar(V) \in AST /\ VD(V, a) \in Pointer
    BY <1>0, VariableHasKind, VariableFacts
  <2>2. /\ V[2] = files[n] <=> ASTOfVar(V) = n
        /\ V[2] \in Erased(files) <=> \E q \in 1..Pops : ASTQueue[q].ast = ASTOfVar(V)
    BY <1>0, <2>1, ErasedFacts DEF ASTOfVar
  <2>3. variableLeft'[V] = IF V[2] = files[n] THEN VD(V, a)
                           ELSE IF V[2] \in Erased(files) THEN Null
                           ELSE variableLeft[V]
    BY DEF LoadASTUnit
  <2>4. variableLeft[V] \in Pointer \cup {Null}
    BY DEF TypeOK
  <2>5. variableLeft[V] = IF ASTs[ASTOfVar(V)] = Null THEN Null ELSE VD(V, ASTs[ASTOfVar(V)])
    BY DEF BimapMirrorsUnits
  <2> QED
    BY <1>0, <1>1, <2>1, <2>2, <2>3, <2>4, <2>5, NullFacts
<1>4. functionMap' = [F \in Function |-> functionMap'[F]]
      /\ variableLeft' = [V \in Variable |-> variableLeft'[V]]
  BY DEF LoadASTUnit
<1>5. functionMap' \in [Function -> Pointer \cup {Null}]
  BY <1>2, <1>4
<1>6. variableLeft' \in [Variable -> Pointer \cup {Null}]
  BY <1>3, <1>4
<1> QED
  BY <1>2, <1>3, <1>5, <1>6 DEF BimapMirrorsUnits, ASTOf, ASTOfVar, FD, VD

\* The CFGs that outlive the pops belong to handles that keep their declaration.
LEMMA LoadCFGs ==
  ASSUME TypeOK, QueueMirrorsASTs, CFGsFresh, DistinctASTs, NEW files, NEW n \in AST,
         ASTs[n] = Null, BimapMirrorsUnits,
         Covers(files, n), NEW a \in FreeAddr, LoadASTUnit(files, n, a)
  PROVE  /\ CFGsKept(files) \in [Function -> Pointer \cup {Null}]
         /\ \A F \in Function : CFGsKept(files)[F] # Null => CFGsKept(files)[F] = functionMap'[F]
<1>1. CFGsKept(files) \in [Function -> Pointer \cup {Null}]
  BY DEF CFGsKept, TypeOK
<1>2. ASSUME NEW F \in Function, CFGsKept(files)[F] # Null
      PROVE  CFGsKept(files)[F] = functionMap'[F]
  <2>1. F[1] \notin Erased(files) /\ CFGsKept(files)[F] = CFGs[F] /\ CFGs[F] # Null
    BY <1>2 DEF CFGsKept
  <2>2. functionMap[F] = CFGs[F] /\ functionMap[F] # Null
    BY <2>1 DEF CFGsFresh
  <2>3. ASTOf(F) # n
    BY <2>2 DEF BimapMirrorsUnits
  <2>4. F[1] # files[n]
    BY <2>3 DEF Covers, ASTOf
  <2>5. functionMap'[F] = functionMap[F]
    BY <2>1, <2>4 DEF LoadASTUnit
  <2> QED
    BY <2>1, <2>2, <2>5
<1> QED
  BY <1>1, <1>2

\* variableRight stays the inverse relation of variableLeft: what pop clears is what
\* lost its last variable, what push sets is bound by one of the new unit.
LEMMA LoadRight ==
  ASSUME TypeOK, QueueMirrorsASTs, BimapMirrorsUnits, RightMirrorsLeft, DistinctASTs,
         NEW files, NEW n \in AST, ASTs[n] = Null,
         Covers(files, n), NEW a \in FreeAddr, LoadASTUnit(files, n, a)
  PROVE  /\ variableRight' \in [VarKind \X Pointer -> Variable \cup {Null}]
         /\ RightMirrorsLeft'
<1> DEFINE Bound(kind, ptr) == \E V \in VariableOf(kind) : variableLeft[V] = ptr
           BoundNext(kind, ptr) == \E V \in VariableOf(kind) : variableLeft'[V] = ptr
           Fresh(kind, ptr) == \E V \in VariableOf(kind) : V[2] = files[n] /\ VD(V, a) = ptr
           Cleared(kind, ptr) == \E V \in VariableOf(kind) :
                                   V[2] \in Erased(files) /\ variableLeft[V] = ptr
<1>0. Pops <= Len(ASTQueue) /\ a \in Addr /\ files[n] \in File /\ ASTList[files[n]] = n
  BY DEF LoadASTUnit, FreeAddr, Covers
<1>1. ASSUME NEW kind \in VarKind, NEW V \in VariableOf(kind)
      PROVE  /\ V \in Variable /\ V[2] \in File /\ ASTOfVar(V) \in AST
             /\ V[2] = files[n] <=> ASTOfVar(V) = n
             /\ V[2] \in Erased(files) <=> \E q \in 1..Pops : ASTQueue[q].ast = ASTOfVar(V)
             /\ variableLeft'[V] = IF V[2] = files[n] THEN VD(V, a)
                                   ELSE IF V[2] \in Erased(files) THEN Null
                                   ELSE variableLeft[V]
             /\ V[2] = files[n] => variableLeft[V] = Null
             /\ variableLeft[V] # Null =>
                  ASTs[ASTOfVar(V)] # Null /\ ASTs[ASTOfVar(V)] = variableLeft[V][1]
  <2>1. V \in Variable /\ V[2] \in File /\ ASTOfVar(V) \in AST
    BY VariableFacts
  <2>2. /\ V[2] = files[n] <=> ASTOfVar(V) = n
        /\ V[2] \in Erased(files) <=> \E q \in 1..Pops : ASTQueue[q].ast = ASTOfVar(V)
    BY <1>0, <2>1, ErasedFacts DEF ASTOfVar
  <2>3. variableLeft'[V] = IF V[2] = files[n] THEN VD(V, a)
                           ELSE IF V[2] \in Erased(files) THEN Null
                           ELSE variableLeft[V]
    BY <2>1 DEF LoadASTUnit
  <2>4. variableLeft[V] = IF ASTs[ASTOfVar(V)] = Null THEN Null ELSE VD(V, ASTs[ASTOfVar(V)])
    BY <2>1 DEF BimapMirrorsUnits
  <2>5. ASTs[ASTOfVar(V)] \in Addr \cup {Null}
    BY <2>1 DEF TypeOK
  <2>6. ASTs[ASTOfVar(V)] \in Addr => VD(V, ASTs[ASTOfVar(V)])[1] = ASTs[ASTOfVar(V)]
    BY VariableFacts
  <2> QED
    BY <2>1, <2>2, <2>3, <2>4, <2>5, <2>6
<1>2. ASSUME NEW kind \in VarKind, NEW ptr \in Pointer
      PROVE  /\ variableRight'[<<kind, ptr>>] =
                  IF Fresh(kind, ptr) THEN LastWith(<<kind, ptr>>, files[n], a)
                  ELSE IF Cleared(kind, ptr) THEN Null
                  ELSE variableRight[<<kind, ptr>>]
             /\ variableRight[<<kind, ptr>>] \in Variable \cup {Null}
  <2>1. <<kind, ptr>> \in Unbound(files) <=> Cleared(kind, ptr)
    <3>1. \A V \in VariableOf(kind) : V \in Variable /\ V[1] = kind
      BY VariableFacts
    <3>2. \A V \in Variable : V \in VariableOf(V[1])
      BY VariableHasKind
    <3> QED
      BY <3>1, <3>2 DEF Unbound
  <2> QED
    BY <2>1 DEF LoadASTUnit, TypeOK
<1>3. ASSUME NEW kind \in VarKind, NEW ptr \in Pointer
      PROVE  /\ variableRight'[<<kind, ptr>>] \in Variable \cup {Null}
             /\ IF BoundNext(kind, ptr)
                THEN /\ variableRight'[<<kind, ptr>>] \in VariableOf(kind)
                     /\ variableLeft'[variableRight'[<<kind, ptr>>]] = ptr
                ELSE variableRight'[<<kind, ptr>>] = Null
  <2>0. ptr # Null
    BY NullFacts
  <2>1. CASE Fresh(kind, ptr)
    <3> DEFINE W == LastWith(<<kind, ptr>>, files[n], a)
    <3>1. W \in VariableOf(kind) /\ W[2] = files[n] /\ VD(W, a) = ptr
      BY <2>1, <1>0, LastWithExists
    <3>2. variableRight'[<<kind, ptr>>] = W
      BY <2>1, <1>2
    <3> HIDE DEF W
    <3>3. variableLeft'[W] = ptr /\ W \in Variable
      BY <3>1, <1>1
    <3> QED
      BY <3>1, <3>2, <3>3
  <2>2. CASE ~Fresh(kind, ptr) /\ Cleared(kind, ptr)
    <3>1. variableRight'[<<kind, ptr>>] = Null
      BY <2>2, <1>2
    <3>2. PICK V \in VariableOf(kind) : V[2] \in Erased(files) /\ variableLeft[V] = ptr
      BY <2>2
    <3>3. ASSUME NEW W \in VariableOf(kind), variableLeft'[W] = ptr PROVE FALSE
      <4>1. W[2] # files[n]
        BY <2>2, <3>3, <1>1
      <4>2. W[2] \notin Erased(files) /\ variableLeft[W] = ptr
        BY <4>1, <3>3, <2>0, <1>1
      <4>3. /\ ASTOfVar(V) \in AST /\ ASTOfVar(W) \in AST
            /\ ASTs[ASTOfVar(V)] # Null /\ ASTs[ASTOfVar(V)] = ASTs[ASTOfVar(W)]
        BY <3>2, <4>2, <2>0, <1>1
      <4>4. ASTOfVar(V) = ASTOfVar(W)
        BY <4>3, OneASTPerAddr
      <4> QED
        BY <3>2, <4>2, <4>4, <1>1
    <3> QED
      BY <3>1, <3>3
  <2>3. CASE ~Fresh(kind, ptr) /\ ~Cleared(kind, ptr)
    <3>1. variableRight'[<<kind, ptr>>] = variableRight[<<kind, ptr>>]
      BY <2>3, <1>2
    <3>2. \A V \in VariableOf(kind) : variableLeft'[V] = ptr <=> variableLeft[V] = ptr
      <4> TAKE V \in VariableOf(kind)
      <4>1. CASE V[2] = files[n]
        BY <4>1, <2>0, <2>3, <1>1
      <4>2. CASE V[2] # files[n] /\ V[2] \in Erased(files)
        BY <4>2, <2>0, <2>3, <1>1
      <4>3. CASE V[2] # files[n] /\ V[2] \notin Erased(files)
        BY <4>3, <1>1
      <4> QED
        BY <4>1, <4>2, <4>3
    <3>3. IF Bound(kind, ptr)
          THEN /\ variableRight[<<kind, ptr>>] \in VariableOf(kind)
               /\ variableLeft[variableRight[<<kind, ptr>>]] = ptr
          ELSE variableRight[<<kind, ptr>>] = Null
      BY DEF RightMirrorsLeft
    <3> QED
      BY <3>1, <3>2, <3>3, <1>2
  <2> QED
    BY <2>1, <2>2, <2>3
<1>4. variableRight' \in [VarKind \X Pointer -> Variable \cup {Null}]
  <2>1. variableRight' = [p \in VarKind \X Pointer |-> variableRight'[p]]
    BY DEF LoadASTUnit
  <2>2. \A p \in VarKind \X Pointer : variableRight'[p] \in Variable \cup {Null}
    BY <1>3
  <2> QED
    BY <2>1, <2>2
<1>5. RightMirrorsLeft'
  BY <1>3 DEF RightMirrorsLeft, VariableOf
<1> QED
  BY <1>4, <1>5

-----------------------------------------------------------------------------
(* Moving a unit.                                                          *)

\* A move keeps the list of units and the map from names to units in step.
LEMMA MoveKeeps ==
  ASSUME TypeOK, QueueMirrorsASTs, NEW n \in AST, Move(n)
  PROVE  /\ ASTQueue' \in Seq(Units)
         /\ QueueMirrorsASTs'
<1>1. PICK q \in DOMAIN ASTQueue :
        ASTQueue[q].addr = ASTs[n] /\ ASTQueue' = Append(RemoveAt(ASTQueue, q), ASTQueue[q])
  BY DEF Move
<1>2. ASTs' = ASTs
  BY DEF Move
<1> DEFINE len == Len(ASTQueue)
           t == ASTQueue'
           old(j) == IF j < q THEN j ELSE IF j < len THEN j + 1 ELSE q
<1>3. ASTQueue \in Seq(Units) /\ len \in Nat /\ q \in 1..len
  BY DEF TypeOK
<1>4. t \in Seq(Units) /\ Len(t) = len
      /\ \A j \in 1..len : t[j] = IF j < q THEN ASTQueue[j]
                                  ELSE IF j < len THEN ASTQueue[j + 1] ELSE ASTQueue[q]
  BY <1>1, <1>3, MoveToBack
<1> HIDE DEF len, t
<1>5. DOMAIN t = 1..len
  BY <1>4, <1>3
<1>6. \A j \in 1..len : old(j) \in 1..len /\ t[j] = ASTQueue[old(j)]
  BY <1>3, <1>4
<1>7. \A j, h \in 1..len : j # h => old(j) # old(h)
  <2> TAKE j, h \in 1..len
  <2> HAVE j # h
  <2>0. /\ j \in Int /\ h \in Int /\ q \in Int /\ len \in Int
        /\ j <= len /\ h <= len /\ q <= len
    BY <1>3
  <2>1. CASE j < q
    BY <2>0, <2>1
  <2>2. CASE ~(j < q) /\ j < len
    <3>1. old(j) = j + 1
      BY <2>2
    <3>2. h < q => old(h) = h
      OBVIOUS
    <3>3. ~(h < q) => old(h) = h + 1 \/ old(h) = q
      OBVIOUS
    <3> HIDE DEF old
    <3> QED
      BY <2>0, <2>2, <3>1, <3>2, <3>3
  <2>3. CASE ~(j < q) /\ ~(j < len)
    BY <2>0, <2>3
  <2> QED
    BY <2>1, <2>2, <2>3
<1>8. \A r \in 1..len : \E j \in 1..len : old(j) = r
  <2> TAKE r \in 1..len
  <2>1. CASE r < q
    BY <2>1, <1>3
  <2>2. CASE r = q
    <3>1. len \in 1..len /\ old(len) = q
      BY <1>3
    <3> QED
      BY <2>2, <3>1
  <2>3. CASE r > q
    <3>1. r - 1 \in 1..len /\ old(r - 1) = r
      BY <2>3, <1>3
    <3> QED
      BY <3>1
  <2> QED
    BY <2>1, <2>2, <2>3, <1>3
<1> HIDE DEF old
<1>9. \A m \in AST : ASTs[m] # Null => \E j \in 1..len : t[j] = [ast |-> m, addr |-> ASTs[m]]
  <2> TAKE m \in AST
  <2> HAVE ASTs[m] # Null
  <2>1. PICK r \in 1..len : ASTQueue[r] = [ast |-> m, addr |-> ASTs[m]]
    BY QueueFacts DEF len
  <2> QED
    BY <2>1, <1>6, <1>8
<1>10. \A j \in 1..len : ASTs[t[j].ast] = t[j].addr
  BY <1>6, QueueFacts DEF len
<1>11. \A j, h \in 1..len : j # h => t[j].ast # t[h].ast /\ t[j].addr # t[h].addr
  <2>1. \A r, p \in 1..len : r # p => /\ ASTQueue[r].ast # ASTQueue[p].ast
                                      /\ ASTQueue[r].addr # ASTQueue[p].addr
    BY QueueFacts DEF QueueMirrorsASTs, len
  <2> QED
    BY <2>1, <1>6, <1>7
<1> QED
  BY <1>2, <1>4, <1>5, <1>9, <1>10, <1>11 DEF QueueMirrorsASTs, ToSet, t

-----------------------------------------------------------------------------
(* The theorem, action by action.                                          *)

\* Before the constructor loads anything the invariant holds.
LEMMA InitCacheInv == Init => CacheInv
<1> SUFFICES ASSUME Init PROVE CacheInv
  OBVIOUS
<1>1. TypeOK
  <2>1. Len(ASTList) + 1 \in Nat /\ 1 \in 1..(Len(ASTList) + 1) /\ 0 \in 0..Len(ASTList)
    BY ListFacts
  <2>2. <<>> \in Seq(Units)
    OBVIOUS
  <2> QED
    BY <2>1, <2>2 DEF Init, TypeOK
<1>2. FilesAdded
  BY ListFacts DEF Init, FilesAdded
<1>3. QueueMirrorsASTs /\ BimapMirrorsUnits
  <2>1. DOMAIN ASTQueue = {}
    BY DEF Init
  <2>2. \A F \in Function : ASTOf(F) \in AST
    BY FunctionFacts
  <2>3. \A V \in Variable : ASTOfVar(V) \in AST
    BY VariableHasKind, VariableFacts
  <2> QED
    BY <2>1, <2>2, <2>3 DEF Init, QueueMirrorsASTs, BimapMirrorsUnits
<1>4. RightMirrorsLeft
  <2>1. \A kind \in VarKind : \A V \in VariableOf(kind) : V \in Variable
    BY VariableFacts
  <2> QED
    BY <2>1, NullFacts DEF Init, RightMirrorsLeft
<1>5. CFGsFresh /\ FaultExplained /\ RetTyped /\ ResultIsCurrent
  BY DEF Init, CFGsFresh, FaultExplained, RetTyped, ResultIsCurrent
<1> QED
  BY <1>1, <1>2, <1>3, <1>4, <1>5 DEF CacheInv

\* Once the constructor is done, every AST has its ASTFile object.
LEMMA CoversInMemory ==
  ASSUME CacheInv, NEW n \in AST, cursor > Len(ASTList)
  PROVE  Covers(fileObj, n)
<1>1. ASSUME NEW m \in AST
      PROVE  fileObj[m] # 0
  <2>1. PICK i \in File : ASTList[i] = m
    BY ListFacts
  <2>2. i \in Nat /\ i # 0 /\ i <= Len(ASTList) /\ Len(ASTList) \in Nat
    BY <2>1, ListFacts
  <2>3. cursor \in Nat
    BY <2>2 DEF CacheInv, TypeOK
  <2>4. i < cursor
    BY <2>2, <2>3
  <2>5. fileObj[ASTList[i]] = i
    BY <2>1, <2>4 DEF CacheInv, FilesAdded
  <2> QED
    BY <2>1, <2>2, <2>5
<1>2. \A m \in AST : fileObj[m] \in 0..Len(ASTList)
  BY DEF CacheInv, TypeOK
<1> QED
  BY <1>1, <1>2, ListFacts DEF Covers, CacheInv, FilesAdded

\* The three lemmas on loading, together.
LEMMA LoadKeeps ==
  ASSUME DistinctASTs, CacheInv, NEW files, NEW n \in AST, ASTs[n] = Null,
         Covers(files, n), NEW a \in FreeAddr, LoadASTUnit(files, n, a)
  PROVE  CacheTypeOK' /\ Mirrors' /\ ASTs'[n] # Null /\ FreshNext(CFGsKept(files))
<1>1. a \in Addr /\ a # Null
  BY NullFacts DEF FreeAddr
<1>2. TypeOK /\ QueueMirrorsASTs /\ BimapMirrorsUnits /\ RightMirrorsLeft /\ CFGsFresh
  BY DEF CacheInv
<1> QED
  BY <1>1, <1>2, LoadQueue, LoadHandles, LoadRight, LoadCFGs
     DEF CacheTypeOK, Mirrors, FreshNext

\* A call that binds no variable keeps both directions in step.
LEMMA RightStays ==
  ASSUME RightMirrorsLeft, UNCHANGED <<variableLeft, variableRight>>
  PROVE  RightMirrorsLeft'
<1> SUFFICES ASSUME NEW kind \in VarKind, NEW p \in Pointer
             PROVE  IF \E V \in VariableOf(kind) : variableLeft'[V] = p
                    THEN /\ variableRight'[<<kind, p>>] \in VariableOf(kind)
                         /\ variableLeft'[variableRight'[<<kind, p>>]] = p
                    ELSE variableRight'[<<kind, p>>] = Null
  BY DEF RightMirrorsLeft
<1>1. variableLeft' = variableLeft /\ variableRight' = variableRight
  OBVIOUS
<1>2. IF \E V \in VariableOf(kind) : variableLeft[V] = p
      THEN /\ variableRight[<<kind, p>>] \in VariableOf(kind)
           /\ variableLeft[variableRight[<<kind, p>>]] = p
      ELSE variableRight[<<kind, p>>] = Null
  BY DEF RightMirrorsLeft
<1> QED
  BY <1>1, <1>2

\* getASTUnit, getFunctionDecl and the getters of variables reach the cache through
\* Request; it keeps the mirrors and leaves the unit of n in memory.
LEMMA RequestKeeps ==
  ASSUME DistinctASTs, CacheInv, Ready, NEW n \in AST, NEW hit \in BOOLEAN,
         hit <=> ASTs[n] # Null, Request(n, hit)
  PROVE  CacheTypeOK' /\ Mirrors' /\ ASTs'[n] # Null /\ FreshNext(CFGsAfter(hit))
<1>1. CASE hit /\ Move(n)
  <2>1. ASTQueue' \in Seq(Units) /\ QueueMirrorsASTs'
    BY <1>1, MoveKeeps DEF CacheInv
  <2>2. UNCHANGED <<ASTs, functionMap, variableLeft, variableRight>>
    BY <1>1 DEF Move
  <2>3. TypeOK /\ BimapMirrorsUnits /\ RightMirrorsLeft /\ CFGsFresh
    BY DEF CacheInv
  <2>4. BimapMirrorsUnits'
    BY <2>2, <2>3 DEF BimapMirrorsUnits
  <2>5. RightMirrorsLeft'
    BY <2>2, <2>3, RightStays
  <2>6. FreshNext(CFGsAfter(hit))
    BY <1>1, <2>2, <2>3 DEF FreshNext, CFGsAfter, CFGsFresh, TypeOK
  <2> QED
    BY <1>1, <2>1, <2>2, <2>3, <2>4, <2>5, <2>6 DEF CacheTypeOK, Mirrors, TypeOK
<1>2. CASE ~hit /\ \E a \in FreeAddr : LoadASTUnit(fileObj, n, a)
  <2>1. Covers(fileObj, n)
    BY CoversInMemory DEF Ready
  <2> QED
    BY <1>2, <2>1, LoadKeeps DEF CFGsAfter
<1> QED
  BY <1>1, <1>2 DEF Request

\* After the constructor every call leaves the tables of the constructor alone, so the
\* invariant of the next state comes down to the cache, the CFGs and the result.
LEMMA CallKeeps ==
  ASSUME CacheInv, Ready, CacheTypeOK', Mirrors', FreshNext(CFGs'), RetTyped', ResultIsCurrent',
         UNCHANGED <<setup, fault>>, max_size' \in Limits \cup {QueueSize}
  PROVE  CacheInv'
<1>1. TypeOK'
  BY DEF CacheInv, TypeOK, CacheTypeOK, FreshNext, setup, Units
<1>2. FilesAdded'
  <2>1. \A n \in AST : fileObj[n] # 0
    BY CoversInMemory, ListFacts DEF Covers, Ready
  <2> QED
    BY <2>1 DEF CacheInv, FilesAdded, setup
<1>3. CFGsFresh' /\ FaultExplained'
  BY DEF FreshNext, CFGsFresh, Ready, FaultExplained
<1> QED
  BY <1>1, <1>2, <1>3 DEF CacheInv, Mirrors

\* What a call finds when it leaves the cache as it is.
LEMMA CacheUnchanged ==
  ASSUME CacheInv, UNCHANGED cache
  PROVE  CacheTypeOK' /\ Mirrors' /\ FreshNext(CFGs)
<1>1. UNCHANGED <<ASTQueue, ASTs, functionMap, variableLeft, variableRight>>
  BY DEF cache
<1>2. Mirrors'
  BY <1>1 DEF CacheInv, Mirrors, QueueMirrorsASTs, BimapMirrorsUnits, RightMirrorsLeft
<1> QED
  BY <1>1, <1>2 DEF CacheInv, CacheTypeOK, TypeOK, FreshNext, CFGsFresh

\* move finds whatever the bimap or ASTs says is in memory, so a call can only die of a
\* cache without room; it leaves everything as it was.
LEMMA DyingKeeps ==
  ASSUME CacheInv, NEW n \in AST, NEW hit \in BOOLEAN, hit => ASTs[n] # Null, Dies(n, hit)
  PROVE  CacheInv'
<1>1. ~hit
  <2> SUFFICES ASSUME hit PROVE FALSE
    OBVIOUS
  <2>1. PICK q \in 1..Len(ASTQueue) : ASTQueue[q] = [ast |-> n, addr |-> ASTs[n]]
    BY QueueFacts DEF CacheInv
  <2>2. ASTQueue[q] \in ToSet(ASTQueue) /\ ASTQueue[q].addr = ASTs[n]
    BY <2>1, QueueFacts DEF ToSet, CacheInv
  <2> QED
    BY <2>2 DEF Dies
<1>2. max_size = 0 /\ fault' = "pop"
  <2>1. max_size \in Nat /\ Len(ASTQueue) \in Nat
    BY ConfigAssumption DEF CacheInv, TypeOK
  <2> QED
    BY <1>1, <2>1 DEF Dies, Pops
<1>3. UNCHANGED <<cache, CFGs, setup, max_size, ret>>
  BY DEF Dies
<1>4. CacheTypeOK' /\ Mirrors' /\ FreshNext(CFGs) /\ CFGs' = CFGs
  BY <1>3, CacheUnchanged
<1>5. UNCHANGED <<cursor, fileObj, named, funcLocInfo, max_size, ASTQueue, ASTs, functionMap,
                  variableLeft, variableRight, CFGs, ret>>
  BY <1>3 DEF setup, cache
<1>6. TypeOK' /\ FilesAdded'
  BY <1>2, <1>4, <1>5 DEF CacheInv, TypeOK, FilesAdded
<1>7. RetTyped' /\ CFGsFresh' /\ FaultExplained'
  BY <1>2, <1>5 DEF CacheInv, RetTyped, CFGsFresh, FaultExplained
<1>8. ResultIsCurrent'
  BY <1>5 DEF CacheInv, ResultIsCurrent
<1> QED
  BY <1>4, <1>6, <1>7, <1>8 DEF CacheInv, Mirrors

\* A handle is bound exactly if its unit is in memory.
LEMMA BoundFacts ==
  ASSUME CacheInv
  PROVE  /\ \A F \in Function : functionMap[F] # Null <=> ASTs[ASTOf(F)] # Null
         /\ \A V \in Variable : variableLeft[V] # Null <=> ASTs[ASTOfVar(V)] # Null
<1>1. TypeOK /\ BimapMirrorsUnits
  BY DEF CacheInv
<1>2. ASSUME NEW F \in Function
      PROVE  functionMap[F] # Null <=> ASTs[ASTOf(F)] # Null
  <2>1. ASTOf(F) \in AST /\ \A a \in Addr : FD(F, a) \in Pointer
    BY FunctionFacts
  <2>2. ASTs[ASTOf(F)] \in Addr \cup {Null}
    BY <1>1, <2>1 DEF TypeOK
  <2> QED
    BY <1>1, <2>1, <2>2, NullFacts DEF BimapMirrorsUnits
<1>3. ASSUME NEW V \in Variable
      PROVE  variableLeft[V] # Null <=> ASTs[ASTOfVar(V)] # Null
  <2>1. ASTOfVar(V) \in AST /\ \A a \in Addr : VD(V, a) \in Pointer
    BY VariableHasKind, VariableFacts
  <2>2. ASTs[ASTOfVar(V)] \in Addr \cup {Null}
    BY <1>1, <2>1 DEF TypeOK
  <2> QED
    BY <1>1, <2>1, <2>2, NullFacts DEF BimapMirrorsUnits
<1> QED
  BY <1>2, <1>3

\* One round of the constructor's loop.
LEMMA ConstructKeeps ==
  ASSUME DistinctASTs, CacheInv, Construct
  PROVE  CacheInv'
<1> DEFINE n == ASTList[cursor]
           files == [fileObj EXCEPT ![n] = cursor]
<1>0. cursor \in File /\ cursor \in 1..Len(ASTList) /\ n \in AST /\ Len(ASTList) \in Nat
  BY ListFacts DEF Construct
<1>1. fileObj[n] = 0 /\ ASTs[n] = Null
  <2>1. fileObj[n] # 0 => fileObj[n] < cursor /\ ASTList[fileObj[n]] = n
    BY <1>0 DEF CacheInv, FilesAdded
  <2>2. fileObj[n] \in 0..Len(ASTList)
    BY <1>0 DEF CacheInv, TypeOK
  <2>3. fileObj[n] = 0
    BY <1>0, <2>1, <2>2, ListFacts DEF DistinctASTs
  <2> QED
    BY <1>0, <2>3 DEF CacheInv, FilesAdded
<1>2. files \in [AST -> 0..Len(ASTList)] /\ files[n] = cursor
      /\ \A m \in AST : m # n => files[m] = fileObj[m]
  BY <1>0 DEF CacheInv, TypeOK
<1>3. Covers(files, n)
  <2> SUFFICES ASSUME NEW m \in AST, m = n \/ ASTs[m] # Null
               PROVE  files[m] \in File /\ ASTList[files[m]] = m
    BY DEF Covers
  <2>1. CASE m = n
    BY <2>1, <1>0, <1>2
  <2>2. CASE m # n
    <3>1. fileObj[m] # 0 /\ fileObj[m] \in 0..Len(ASTList) /\ ASTList[fileObj[m]] = m
      BY <2>2 DEF CacheInv, FilesAdded, TypeOK
    <3> QED
      BY <2>2, <3>1, <1>2, ListFacts
  <2> QED
    BY <2>1, <2>2
<1>4. SUFFICES ASSUME ~Dies(n, FALSE) PROVE CacheInv'
  BY <1>0, DyingKeeps
<1>5. PICK a \in FreeAddr :
        /\ LoadASTUnit(files, n, a)
        /\ CFGs' = CFGsKept(files)
        /\ funcLocInfo' = FuncLocInfoWith(n, a)
        /\ fileObj' = files
        /\ named' = [F \in Function |-> IF F[1] = cursor THEN FD(F, a)[2] ELSE named[F]]
        /\ cursor' = cursor + 1
        /\ UNCHANGED <<max_size, fault, ret>>
  BY <1>4 DEF Construct
<1> HIDE DEF n, files
<1>6. CacheTypeOK' /\ Mirrors' /\ ASTs'[n] # Null /\ FreshNext(CFGs')
  BY <1>0, <1>1, <1>3, <1>5, LoadKeeps
<1>7. funcLocInfo' \in [Loc -> Pointer \cup {Null}]
  <2>1. ASSUME NEW l \in Loc
        PROVE  FuncLocInfoWith(n, a)[l] \in Pointer \cup {Null}
    <3>1. CASE funcLocInfo[l] = Null /\ l \in ToSet(FuncLoc[n])
      <4>1. DOMAIN FuncLoc[n] = 1..Len(FuncLoc[n]) /\ Len(FuncLoc[n]) \in Nat
            /\ Len(FuncLoc[n]) = Len(FuncDecl[n][a]) /\ FuncDecl[n][a] \in Seq(Decl)
        <5>1. a \in Addr /\ FuncDecl[n] \in [Addr -> Seq(Decl)]
          BY <1>0, <1>5, ConfigAssumption DEF FreeAddr
        <5>2. Len(FuncDecl[n][a]) = Len(FuncLoc[n]) /\ FuncLoc[n] \in Seq(ToSet(FuncLoc[n]))
          BY <1>0, <5>1, ConfigAssumption
        <5> QED
          BY <5>1, <5>2
      <4> DEFINE T == {k \in DOMAIN FuncLoc[n] : FuncLoc[n][k] = l}
      <4>2. PICK k \in T : \A h \in T : k <= h
        <5>1. T \subseteq Nat /\ T # {}
          BY <3>1, <4>1 DEF ToSet
        <5>2. PICK k \in T : \A h \in T : ~(<<h, k>> \in OpToRel(<, Nat))
          BY <5>1, WFMin, NatLessThanWellFounded
        <5>3. \A h \in T : k \in Nat /\ h \in Nat /\ ~(h < k)
          BY <5>1, <5>2 DEF OpToRel
        <5> QED
          BY <5>3
      <4>3. FirstAt(n, l) \in DOMAIN FuncLoc[n]
        BY <4>2 DEF FirstAt
      <4>4. FuncDecl[n][a][FirstAt(n, l)] \in Decl
        BY <4>1, <4>3
      <4>5. a \in Addr
        BY <1>5 DEF FreeAddr
      <4> QED
        BY <3>1, <4>4, <4>5 DEF FuncLocInfoWith, Pointer
    <3>2. CASE ~(funcLocInfo[l] = Null /\ l \in ToSet(FuncLoc[n]))
      BY <3>2 DEF FuncLocInfoWith, CacheInv, TypeOK
    <3> QED
      BY <3>1, <3>2
  <2> QED
    BY <1>5, <2>1 DEF FuncLocInfoWith
<1>8. TypeOK'
  <2>1. a \in Addr
    BY <1>5 DEF FreeAddr
  <2>2. \A F \in Function : FD(F, a)[2] \in Decl
    BY <2>1, FunctionFacts
  <2>3. named' \in [Function -> Decl \cup {Null}]
    BY <1>5, <2>2 DEF CacheInv, TypeOK
  <2> QED
    BY <1>0, <1>2, <1>5, <1>6, <1>7, <2>3 DEF CacheInv, TypeOK, CacheTypeOK, FreshNext
<1>9. FilesAdded'
  <2>1. \A i \in File : i < cursor' => fileObj'[ASTList[i]] = i
    <3> TAKE i \in File
    <3> HAVE i < cursor'
    <3>1. i \in 1..Len(ASTList) /\ ASTList[i] \in AST
      BY ListFacts
    <3>2. CASE i = cursor
      BY <3>2, <1>2, <1>5 DEF n
    <3>3. CASE i # cursor
      <4>1. i < cursor
        BY <3>1, <3>3, <1>0, <1>5
      <4>2. ASTList[i] # n
        BY <3>3, <1>0 DEF DistinctASTs, n
      <4> QED
        BY <3>1, <4>1, <4>2, <1>2, <1>5 DEF CacheInv, FilesAdded
    <3> QED
      BY <3>2, <3>3
  <2>2. \A m \in AST : fileObj'[m] # 0 => fileObj'[m] < cursor' /\ ASTList[fileObj'[m]] = m
    <3> TAKE m \in AST
    <3>1. CASE m = n
      BY <3>1, <1>0, <1>2, <1>5 DEF n
    <3>2. CASE m # n
      <4>1. fileObj'[m] = fileObj[m] /\ fileObj[m] \in Nat
        BY <3>2, <1>2, <1>5 DEF CacheInv, TypeOK
      <4>2. fileObj[m] # 0 => fileObj[m] < cursor /\ ASTList[fileObj[m]] = m
        BY DEF CacheInv, FilesAdded
      <4> QED
        BY <4>1, <4>2, <1>0, <1>5
    <3> QED
      BY <3>1, <3>2
  <2>3. \A m \in AST : ASTs'[m] # Null => fileObj'[m] # 0
    <3> TAKE m \in AST
    <3>1. CASE m = n
      BY <3>1, <1>0, <1>2, <1>5
    <3>2. CASE m # n
      <4>1. ASTs'[m] # Null => ASTs[m] # Null
        BY <3>2, <1>5 DEF LoadASTUnit
      <4> QED
        BY <3>2, <4>1, <1>2, <1>5 DEF CacheInv, FilesAdded
    <3> QED
      BY <3>1, <3>2
  <2> QED
    BY <2>1, <2>2, <2>3 DEF FilesAdded
<1>10. ret' = ret /\ ret.op = "none" /\ fault' = fault
  BY <1>0, <1>5 DEF CacheInv, RetTyped
<1>11. RetTyped' /\ ResultIsCurrent' /\ FaultExplained'
  BY <1>0, <1>10 DEF Construct, RetTyped, ResultIsCurrent, FaultExplained
<1>12. CFGsFresh'
  BY <1>6 DEF FreshNext, CFGsFresh
<1> QED
  BY <1>6, <1>8, <1>9, <1>11, <1>12 DEF CacheInv, Mirrors

\* A null handle changes nothing but the result.
LEMMA NullHandleKeeps ==
  ASSUME CacheInv, NullHandle
  PROVE  CacheInv'
<1>1. CacheTypeOK' /\ Mirrors' /\ FreshNext(CFGs) /\ CFGs' = CFGs
  BY CacheUnchanged DEF NullHandle
<1>2. RetTyped' /\ ResultIsCurrent'
  BY DEF NullHandle, Ready, Returns, RetTyped, ResultIsCurrent, CacheInv, setup, File
<1> QED
  BY <1>1, <1>2, CallKeeps DEF NullHandle, CacheInv, TypeOK

\* getASTUnit.
LEMMA GetASTUnitKeeps ==
  ASSUME DistinctASTs, CacheInv, NEW i \in File, GetASTUnit(i)
  PROVE  CacheInv'
<1> DEFINE n == ASTList[i]
           hit == ASTs[n] # Null
<1>1. n \in AST /\ hit \in BOOLEAN /\ Ready
  BY ListFacts DEF GetASTUnit
<1>2. SUFFICES ASSUME ~Dies(n, hit) PROVE CacheInv'
  BY <1>1, DyingKeeps
<1>3. /\ Request(n, hit) /\ CFGs' = CFGsAfter(hit)
      /\ Returns("getASTUnit", i, ASTs'[n]) /\ UNCHANGED <<setup, max_size, fault>>
  BY <1>2 DEF GetASTUnit
<1> HIDE DEF n
<1>4. CacheTypeOK' /\ Mirrors' /\ ASTs'[n] # Null /\ FreshNext(CFGs')
  BY <1>1, <1>3, RequestKeeps
<1>5. ret' = [op |-> "getASTUnit", arg |-> i, val |-> ASTs'[n]]
  BY <1>3 DEF Returns
<1>6. RetTyped'
  BY <1>1, <1>3, <1>5, ListFacts DEF RetTyped, setup, Ready
<1>7. ResultIsCurrent'
  <2>1. [ast |-> n, addr |-> ASTs'[n]] \in ToSet(ASTQueue')
    BY <1>1, <1>4 DEF Mirrors, QueueMirrorsASTs
  <2> QED
    BY <2>1, <1>5 DEF ResultIsCurrent, n
<1> QED
  BY <1>1, <1>3, <1>4, <1>6, <1>7, CallKeeps DEF CacheInv, TypeOK

\* getFunctionDecl.
LEMMA GetFunctionDeclKeeps ==
  ASSUME DistinctASTs, CacheInv, NEW F \in Function, GetFunctionDecl(F)
  PROVE  CacheInv'
<1> DEFINE n == ASTOf(F)
           hit == functionMap[F] # Null
<1>1. n \in AST /\ hit \in BOOLEAN /\ Ready /\ (hit <=> ASTs[n] # Null)
  BY FunctionFacts, BoundFacts DEF GetFunctionDecl
<1>2. SUFFICES ASSUME ~Dies(n, hit) PROVE CacheInv'
  BY <1>1, DyingKeeps
<1>3. /\ Request(n, hit) /\ CFGs' = CFGsAfter(hit)
      /\ Returns("getFunctionDecl", F, functionMap'[F]) /\ UNCHANGED <<setup, max_size, fault>>
  BY <1>2 DEF GetFunctionDecl
<1> HIDE DEF n, hit
<1>4. CacheTypeOK' /\ Mirrors' /\ ASTs'[n] # Null /\ FreshNext(CFGs')
  BY <1>1, <1>3, RequestKeeps
<1>5. ret' = [op |-> "getFunctionDecl", arg |-> F, val |-> functionMap'[F]]
  BY <1>3 DEF Returns
<1>6. RetTyped'
  BY <1>1, <1>3, <1>5, ListFacts DEF RetTyped, setup, Ready
<1>7. ResultIsCurrent'
  <2>1. functionMap'[F] = FD(F, ASTs'[n])
    BY <1>4 DEF Mirrors, BimapMirrorsUnits, ASTOf, FD, n
  <2> QED
    BY <2>1, <1>4, <1>5 DEF ResultIsCurrent, n, ASTOf, FD
<1> QED
  BY <1>1, <1>3, <1>4, <1>6, <1>7, CallKeeps DEF CacheInv, TypeOK

\* getVarDecl and getGlobalVarDecl.
LEMMA GetVarDeclKeeps ==
  ASSUME DistinctASTs, CacheInv, NEW V \in Variable, GetVarDecl(V)
  PROVE  CacheInv'
<1> DEFINE n == ASTOfVar(V)
           hit == variableLeft[V] # Null
           op == IF V[1] = "local" THEN "getVarDecl" ELSE "getGlobalVarDecl"
<1>1. n \in AST /\ hit \in BOOLEAN /\ Ready /\ (hit <=> ASTs[n] # Null)
  BY VariableHasKind, VariableFacts, BoundFacts DEF GetVarDecl
<1>2. SUFFICES ASSUME ~(~hit /\ Dies(n, FALSE)) PROVE CacheInv'
  BY <1>1, DyingKeeps
<1>3. /\ (hit /\ UNCHANGED cache) \/ (~hit /\ Request(n, FALSE))
      /\ CFGs' = CFGsAfter(hit)
      /\ Returns(op, V, variableLeft'[V]) /\ UNCHANGED <<setup, max_size, fault>>
  BY <1>2 DEF GetVarDecl
<1> HIDE DEF n, hit
<1>4. CacheTypeOK' /\ Mirrors' /\ ASTs'[n] # Null /\ FreshNext(CFGs')
  <2>1. CASE hit
    <3>1. UNCHANGED cache /\ CFGs' = CFGs /\ ASTs' = ASTs
      BY <2>1, <1>3 DEF CFGsAfter, cache
    <3> QED
      BY <2>1, <3>1, <1>1, CacheUnchanged
  <2>2. CASE ~hit
    <3>1. Request(n, FALSE) /\ CFGs' = CFGsAfter(FALSE)
      BY <2>2, <1>3 DEF CFGsAfter
    <3> QED
      BY <2>2, <3>1, <1>1, RequestKeeps
  <2> QED
    BY <2>1, <2>2
<1>5. ret' = [op |-> op, arg |-> V, val |-> variableLeft'[V]]
  BY <1>3 DEF Returns
<1>6. RetTyped'
  BY <1>1, <1>3, <1>5, ListFacts DEF RetTyped, setup, Ready
<1>7. ResultIsCurrent'
  <2>1. variableLeft'[V] = VD(V, ASTs'[n])
    BY <1>4 DEF Mirrors, BimapMirrorsUnits, ASTOfVar, VD, n
  <2> QED
    BY <2>1, <1>4, <1>5 DEF ResultIsCurrent, n, ASTOfVar, VD
<1> QED
  BY <1>1, <1>3, <1>4, <1>6, <1>7, CallKeeps DEF CacheInv, TypeOK

\* getCFG brings the unit of F into memory or finds a CFG built from it.
LEMMA CFGOfKeeps ==
  ASSUME DistinctASTs, CacheInv, Ready, NEW F \in Function, CFGOf(F)
  PROVE  /\ CacheTypeOK' /\ Mirrors' /\ FreshNext(CFGs')
         /\ ASTs'[ASTOf(F)] # Null /\ CFGs'[F] = functionMap'[F]
<1> DEFINE n == ASTOf(F)
           hit == functionMap[F] # Null
<1>1. n \in AST /\ hit \in BOOLEAN /\ (hit <=> ASTs[n] # Null)
  BY FunctionFacts, BoundFacts
<1>2. CASE CFGs[F] # Null /\ UNCHANGED <<cache, CFGs>>
  <2>1. CacheTypeOK' /\ Mirrors' /\ FreshNext(CFGs) /\ CFGs' = CFGs
    BY <1>2, CacheUnchanged
  <2>2. CFGs[F] = functionMap[F]
    BY <1>2 DEF CacheInv, CFGsFresh
  <2> QED
    BY <1>1, <1>2, <2>1, <2>2 DEF cache
<1>3. CASE Request(n, hit) /\ CFGs' = [CFGsAfter(hit) EXCEPT ![F] = functionMap'[F]]
  <2> HIDE DEF n, hit
  <2>1. CacheTypeOK' /\ Mirrors' /\ ASTs'[n] # Null /\ FreshNext(CFGsAfter(hit))
    BY <1>1, <1>3, RequestKeeps
  <2>2. functionMap'[F] \in Pointer \cup {Null}
    BY <2>1 DEF CacheTypeOK
  <2>3. FreshNext(CFGs') /\ CFGs'[F] = functionMap'[F]
    BY <2>1, <2>2, <1>3 DEF FreshNext
  <2> QED
    BY <2>1, <2>3 DEF n
<1> QED
  BY <1>2, <1>3 DEF CFGOf

\* getCFG.
LEMMA GetCFGKeeps ==
  ASSUME DistinctASTs, CacheInv, NEW F \in Function, GetCFG(F)
  PROVE  CacheInv'
<1>1. ASTOf(F) \in AST /\ Ready /\ (functionMap[F] # Null <=> ASTs[ASTOf(F)] # Null)
  BY FunctionFacts, BoundFacts DEF GetCFG
<1>2. SUFFICES ASSUME ~Dies(ASTOf(F), functionMap[F] # Null) PROVE CacheInv'
  BY <1>1, DyingKeeps
<1>3. CFGOf(F) /\ Returns("getCFG", F, CFGs'[F]) /\ UNCHANGED <<setup, max_size, fault>>
  BY <1>2 DEF GetCFG
<1>4. /\ CacheTypeOK' /\ Mirrors' /\ FreshNext(CFGs')
      /\ ASTs'[ASTOf(F)] # Null /\ CFGs'[F] = functionMap'[F]
  BY <1>1, <1>3, CFGOfKeeps
<1>5. ret' = [op |-> "getCFG", arg |-> F, val |-> CFGs'[F]]
  BY <1>3 DEF Returns
<1>6. RetTyped'
  BY <1>1, <1>3, <1>5, ListFacts DEF RetTyped, setup, Ready
<1>7. ResultIsCurrent'
  <2>1. functionMap'[F] = FD(F, ASTs'[ASTOf(F)])
    BY <1>4 DEF Mirrors, BimapMirrorsUnits, ASTOf, FD
  <2> QED
    BY <2>1, <1>4, <1>5 DEF ResultIsCurrent, ASTOf, FD
<1> QED
  BY <1>1, <1>3, <1>4, <1>6, <1>7, CallKeeps DEF CacheInv, TypeOK

\* getBlockWithLoc and its relatives.
LEMMA GetBlockWithLocKeeps ==
  ASSUME DistinctASTs, CacheInv, NEW l \in Loc, GetBlockWithLoc(l)
  PROVE  CacheInv'
<1>1. Ready
  BY DEF GetBlockWithLoc
<1>2. ASSUME NEW val, Returns("getBlockWithLoc", l, val), UNCHANGED setup
      PROVE  RetTyped' /\ ResultIsCurrent'
  BY <1>1, <1>2, ListFacts DEF Returns, RetTyped, ResultIsCurrent, Ready, setup
<1>3. CASE /\ Returns("getBlockWithLoc", l, Null)
           /\ UNCHANGED <<cache, CFGs, setup, max_size, fault>>
  <2>1. CacheTypeOK' /\ Mirrors' /\ FreshNext(CFGs')
    BY <1>3, CacheUnchanged
  <2> QED
    BY <1>1, <1>2, <1>3, <2>1, CallKeeps DEF CacheInv, TypeOK
<1>4. ASSUME NEW F \in Function, functionMap[F] # Null, CFGOf(F),
             Returns("getBlockWithLoc", l, F), UNCHANGED <<setup, max_size, fault>>
      PROVE  CacheInv'
  <2>1. CacheTypeOK' /\ Mirrors' /\ FreshNext(CFGs')
    BY <1>1, <1>4, CFGOfKeeps
  <2> QED
    BY <1>1, <1>2, <1>4, <2>1, CallKeeps DEF CacheInv, TypeOK
<1>5. ASSUME NEW F \in Function, functionMap[F] # Null, Dies(ASTOf(F), TRUE)
      PROVE  CacheInv'
  BY <1>5, FunctionFacts, BoundFacts, DyingKeeps
<1>6. funcLocInfo[l] # Null => \A F \in FunctionsAt(funcLocInfo[l]) : F \in Function /\ functionMap[F] # Null
  BY DEF FunctionsAt
<1> QED
  BY <1>3, <1>4, <1>5, <1>6 DEF GetBlockWithLoc

\* setMaxSize.
LEMMA SetMaxSizeKeeps ==
  ASSUME CacheInv, NEW size \in Limits, SetMaxSize(size)
  PROVE  CacheInv'
<1>1. CacheTypeOK' /\ Mirrors' /\ FreshNext(CFGs) /\ CFGs' = CFGs
  BY CacheUnchanged DEF SetMaxSize
<1>2. RetTyped' /\ ResultIsCurrent'
  BY ListFacts DEF SetMaxSize, Ready, Returns, RetTyped, ResultIsCurrent, setup
<1> QED
  BY <1>1, <1>2, CallKeeps DEF SetMaxSize

\* Every step keeps the invariant.
LEMMA NextKeeps ==
  ASSUME DistinctASTs, CacheInv, [Next]_vars
  PROVE  CacheInv'
<1>1. CASE Construct
  BY <1>1, ConstructKeeps
<1>2. CASE NullHandle
  BY <1>2, NullHandleKeeps
<1>3. CASE \E i \in File : GetASTUnit(i)
  BY <1>3, GetASTUnitKeeps
<1>4. CASE \E F \in Function : GetFunctionDecl(F)
  BY <1>4, GetFunctionDeclKeeps
<1>5. CASE \E V \in Variable : GetVarDecl(V)
  BY <1>5, GetVarDeclKeeps
<1>6. CASE \E F \in Function : GetCFG(F)
  BY <1>6, GetCFGKeeps
<1>7. CASE \E l \in Loc : GetBlockWithLoc(l)
  BY <1>7, GetBlockWithLocKeeps
<1>8. CASE \E size \in Limits : SetMaxSize(size)
  BY <1>8, SetMaxSizeKeeps
<1>9. CASE UNCHANGED vars
  <2>1. CacheTypeOK' /\ Mirrors' /\ FreshNext(CFGs)
    BY <1>9, CacheUnchanged DEF vars
  <2>2. UNCHANGED <<cursor, fileObj, named, funcLocInfo, max_size, ASTQueue, ASTs, functionMap,
                    variableLeft, variableRight, CFGs, fault, ret>>
    BY <1>9 DEF vars, setup, cache
  <2>3. TypeOK' /\ FilesAdded'
    BY <2>1, <2>2 DEF CacheInv, TypeOK, FilesAdded
  <2>4. RetTyped' /\ FaultExplained' /\ CFGsFresh'
    BY <2>2 DEF CacheInv, RetTyped, FaultExplained, CFGsFresh
  <2>5. ResultIsCurrent'
    BY <2>2 DEF CacheInv, ResultIsCurrent
  <2> QED
    BY <2>1, <2>3, <2>4, <2>5 DEF CacheInv, Mirrors
<1> QED
  BY <1>1, <1>2, <1>3, <1>4, <1>5, <1>6, <1>7, <1>8, <1>9 DEF Next

-----------------------------------------------------------------------------
(* What a step may do to the queue.                                        *)

\* Every step leaves the queue alone, moves a unit to its end or loads one.
LEMMA QueueSteps ==
  ASSUME [Next]_vars
  PROVE  \/ UNCHANGED ASTQueue
         \/ \E n : Move(n)
         \/ \E files : \E n \in AST : \E a \in FreeAddr : LoadASTUnit(files, n, a)
<1> DEFINE Steps == \/ UNCHANGED ASTQueue
                    \/ \E n : Move(n)
                    \/ \E files : \E n \in AST : \E a \in FreeAddr : LoadASTUnit(files, n, a)
<1>1. ASSUME NEW n \in AST, NEW hit, Request(n, hit) PROVE Steps
  BY <1>1 DEF Request
<1>2. ASSUME NEW n, NEW hit, Dies(n, hit) PROVE Steps
  BY <1>2 DEF Dies, cache
<1>3. UNCHANGED cache => Steps
  BY DEF cache
<1>4. ASSUME NEW F \in Function, CFGOf(F) PROVE Steps
  BY <1>1, <1>3, <1>4, FunctionFacts DEF CFGOf
<1>5. Construct => Steps
  BY <1>2, ListFacts DEF Construct
<1>6. UNCHANGED vars => Steps
  BY DEF vars, cache
<1>7. NullHandle => Steps
  BY <1>3 DEF NullHandle
<1>8. \A i \in File : GetASTUnit(i) => Steps
  BY <1>1, <1>2, ListFacts DEF GetASTUnit
<1>9. \A F \in Function : GetFunctionDecl(F) => Steps
  BY <1>1, <1>2, FunctionFacts DEF GetFunctionDecl
<1>10. \A V \in Variable : GetVarDecl(V) => Steps
  BY <1>1, <1>2, <1>3, VariableHasKind, VariableFacts DEF GetVarDecl
<1>11. \A F \in Function : GetCFG(F) => Steps
  BY <1>2, <1>4 DEF GetCFG
<1>12. \A l \in Loc : GetBlockWithLoc(l) => Steps
  BY <1>2, <1>3, <1>4 DEF GetBlockWithLoc, FunctionsAt
<1>13. \A size \in Limits : SetMaxSize(size) => Steps
  BY <1>3 DEF SetMaxSize
<1> HIDE DEF Steps
<1>14. Steps
  BY <1>5, <1>6, <1>7, <1>8, <1>9, <1>10, <1>11, <1>12, <1>13 DEF Next
<1> QED
  BY <1>14 DEF Steps

\* Moving a unit keeps the set of units in memory.
LEMMA MoveKeepsUnits ==
  ASSUME QueueTyped, NEW n, Move(n)
  PROVE  ToSet(ASTQueue') = ToSet(ASTQueue)
<1>1. PICK q \in DOMAIN ASTQueue : ASTQueue' = Append(RemoveAt(ASTQueue, q), ASTQueue[q])
  BY DEF Move
<1> DEFINE len == Len(ASTQueue)
<1>2. ASTQueue \in Seq(Units) /\ len \in Nat /\ q \in 1..len /\ DOMAIN ASTQueue = 1..len
  BY DEF QueueTyped
<1>3. ASTQueue' \in Seq(Units) /\ Len(ASTQueue') = len
      /\ \A j \in 1..len : ASTQueue'[j] = IF j < q THEN ASTQueue[j]
                                          ELSE IF j < len THEN ASTQueue[j + 1] ELSE ASTQueue[q]
  BY <1>1, <1>2, MoveToBack
<1>4. DOMAIN ASTQueue' = 1..len
  BY <1>2, <1>3
<1>5. \A j \in 1..len : \E r \in 1..len : ASTQueue'[j] = ASTQueue[r]
  BY <1>2, <1>3
<1>6. \A r \in 1..len : \E j \in 1..len : ASTQueue[r] = ASTQueue'[j]
  <2> TAKE r \in 1..len
  <2>1. CASE r < q
    BY <2>1, <1>2, <1>3
  <2>2. CASE r = q
    <3>1. len \in 1..len /\ ~(len < q) /\ ~(len < len)
      BY <1>2
    <3> QED
      BY <2>2, <3>1, <1>3
  <2>3. CASE r > q
    <3>1. r - 1 \in 1..len /\ ~(r - 1 < q) /\ r - 1 < len /\ (r - 1) + 1 = r
      BY <2>3, <1>2
    <3> QED
      BY <3>1, <1>3
  <2> QED
    BY <2>1, <2>2, <2>3, <1>2
<1>7. ToSet(ASTQueue) = {ASTQueue[r] : r \in 1..len}
  BY <1>2 DEF ToSet
<1>8. ToSet(ASTQueue') = {ASTQueue'[j] : j \in 1..len}
  BY <1>4 DEF ToSet
<1> HIDE DEF len
<1> QED
  BY <1>5, <1>6, <1>7, <1>8

\* What loadASTUnit does to the set of units: the first ones go, the new one comes.
LEMMA LoadUnits ==
  ASSUME QueueTyped, NEW files, NEW n, NEW a \in FreeAddr, LoadASTUnit(files, n, a)
  PROVE  /\ Pops \in 0..Len(ASTQueue) /\ Len(ASTQueue') = Len(ASTQueue) - Pops + 1
         /\ [ast |-> n, addr |-> a] \in ToSet(ASTQueue') \ ToSet(ASTQueue)
         /\ \A q \in DOMAIN ASTQueue : q > Pops => ASTQueue[q] \in ToSet(ASTQueue')
<1> DEFINE k == Pops
           new == [ast |-> n, addr |-> a]
           rest == SubSeq(ASTQueue, k + 1, Len(ASTQueue))
<1>1. ASTQueue \in Seq(Units) /\ Len(ASTQueue) \in Nat /\ DOMAIN ASTQueue = 1..Len(ASTQueue)
  BY DEF QueueTyped
<1>2. k \in 0..Len(ASTQueue)
  BY PopsFacts DEF LoadASTUnit
<1>3. ASTQueue' = Append(rest, new)
  BY DEF LoadASTUnit
<1> HIDE DEF k, new
<1>4. /\ rest \in Seq(Units) /\ Len(rest) = Len(ASTQueue) - k
      /\ \A j \in 1..(Len(ASTQueue) - k) : rest[j] = ASTQueue[j + k]
  BY <1>1, <1>2, DropFacts
<1> HIDE DEF rest
<1>5. /\ Len(ASTQueue') = Len(ASTQueue) - k + 1
      /\ DOMAIN ASTQueue' = 1..(Len(ASTQueue) - k + 1)
      /\ ASTQueue'[Len(ASTQueue) - k + 1] = new
      /\ \A j \in 1..(Len(ASTQueue) - k) : ASTQueue'[j] = ASTQueue[j + k]
  BY <1>1, <1>2, <1>3, <1>4
<1>6. new \notin ToSet(ASTQueue)
  BY DEF FreeAddr, new
<1>7. new \in ToSet(ASTQueue')
  <2>1. Len(ASTQueue) - k + 1 \in DOMAIN ASTQueue'
    BY <1>1, <1>2, <1>5
  <2> QED
    BY <2>1, <1>5 DEF ToSet
<1>8. ASSUME NEW q \in DOMAIN ASTQueue, q > k
      PROVE  ASTQueue[q] \in ToSet(ASTQueue')
  <2>1. q - k \in 1..(Len(ASTQueue) - k) /\ (q - k) + k = q
    BY <1>1, <1>2, <1>8
  <2>2. ASTQueue'[q - k] = ASTQueue[q] /\ q - k \in DOMAIN ASTQueue'
    BY <1>1, <1>2, <1>5, <2>1
  <2> QED
    BY <2>2 DEF ToSet
<1> QED
  BY <1>2, <1>5, <1>6, <1>7, <1>8 DEF k, new

\* A step that loads evicts just enough.
LEMMA StepEvictsOnlyForRoom ==
  ASSUME QueueTyped, [Next]_vars
  PROVE  /\ Loads => Len(ASTQueue') <= max_size
         /\ Evicts => Loads /\ Len(ASTQueue') = max_size
<1>2. CASE UNCHANGED ASTQueue
  BY <1>2 DEF Loads, Evicts
<1>3. CASE \E n : Move(n)
  BY <1>3, MoveKeepsUnits DEF Loads, Evicts
<1>4. ASSUME NEW files, NEW n, NEW a \in FreeAddr, LoadASTUnit(files, n, a)
      PROVE  /\ Len(ASTQueue') <= max_size /\ Loads
             /\ Evicts => Len(ASTQueue') = max_size
  <2>1. /\ Pops \in 0..Len(ASTQueue) /\ Len(ASTQueue') = Len(ASTQueue) - Pops + 1
        /\ \A q \in DOMAIN ASTQueue : q > Pops => ASTQueue[q] \in ToSet(ASTQueue')
        /\ Loads
    BY <1>4, LoadUnits DEF Loads
  <2>2. max_size \in Nat /\ Len(ASTQueue) \in Nat /\ DOMAIN ASTQueue = 1..Len(ASTQueue)
    BY ConfigAssumption DEF QueueTyped
  <2>3. CASE Len(ASTQueue) < max_size
    <3>1. Pops = 0
      BY <2>3 DEF Pops
    <3>2. ~Evicts
      BY <2>1, <2>2, <3>1 DEF Evicts, ToSet
    <3> QED
      BY <2>1, <2>2, <2>3, <3>1, <3>2
  <2>4. CASE ~(Len(ASTQueue) < max_size)
    BY <2>1, <2>2, <2>4 DEF Pops
  <2> QED
    BY <2>3, <2>4
<1> QED
  BY <1>2, <1>3, <1>4, QueueSteps

\* Request leaves the unit of n at the end of the queue.
LEMMA RequestedLast ==
  ASSUME TypeOK, QueueMirrorsASTs, NEW n \in AST, NEW hit, hit => ASTs[n] # Null,
         Request(n, hit)
  PROVE  ASTQueue' # <<>> /\ Last(ASTQueue') = [ast |-> n, addr |-> ASTs'[n]]
<1>1. ASTQueue \in Seq(Units)
  BY DEF TypeOK
<1>2. \A s \in Seq(Units), u \in Units : Append(s, u) # <<>> /\ Last(Append(s, u)) = u
  BY DEF Last
<1>3. CASE hit /\ Move(n)
  <2>1. PICK q \in DOMAIN ASTQueue :
          ASTQueue[q].addr = ASTs[n] /\ ASTQueue' = Append(RemoveAt(ASTQueue, q), ASTQueue[q])
    BY <1>3 DEF Move
  <2>2. ASTs' = ASTs /\ q \in 1..Len(ASTQueue)
    BY <1>1, <1>3 DEF Move
  <2>3. ASTQueue[q] = [ast |-> ASTQueue[q].ast, addr |-> ASTs[n]] /\ ASTQueue[q] \in Units
        /\ ASTQueue[q].ast \in AST /\ ASTs[ASTQueue[q].ast] = ASTs[n]
    BY <2>1, <2>2, QueueFacts
  <2>4. ASTQueue[q].ast = n
    BY <1>3, <2>3, OneASTPerAddr
  <2>5. RemoveAt(ASTQueue, q) \in Seq(Units)
    <3>1. SubSeq(ASTQueue, 1, q - 1) \in Seq(Units) /\ SubSeq(ASTQueue, q + 1, Len(ASTQueue)) \in Seq(Units)
      BY <1>1, <2>2
    <3> QED
      BY <3>1 DEF RemoveAt
  <2> QED
    BY <1>2, <2>1, <2>2, <2>3, <2>4, <2>5
<1>4. CASE ~hit /\ \E a \in FreeAddr : LoadASTUnit(fileObj, n, a)
  <2>1. PICK a \in FreeAddr : LoadASTUnit(fileObj, n, a)
    BY <1>4
  <2>2. SubSeq(ASTQueue, Pops + 1, Len(ASTQueue)) \in Seq(Units)
    BY <1>1, PopsFacts, TypeOKQueue, <2>1 DEF LoadASTUnit
  <2>3. [ast |-> n, addr |-> a] \in Units /\ ASTs'[n] = a
    BY <2>1 DEF Units, FreeAddr, LoadASTUnit
  <2> QED
    BY <1>2, <2>1, <2>2, <2>3 DEF LoadASTUnit
<1> QED
  BY <1>3, <1>4 DEF Request

\* RequestedIsLast is inductive once CacheInv is known.
LEMMA StepKeepsRequested ==
  ASSUME DistinctASTs, CacheInv, RequestedIsLast, [Next]_vars
  PROVE  RequestedIsLast'
<1>1. TypeOK /\ QueueMirrorsASTs
  BY DEF CacheInv
<1>2. ASSUME NEW op, NEW arg, NEW val, Returns(op, arg, val),
             op \notin {"getASTUnit", "getFunctionDecl"}
      PROVE  RequestedIsLast'
  BY <1>2 DEF Returns, RequestedIsLast, Requested
<1>3. ASSUME UNCHANGED <<ASTQueue, ASTs, ret>> PROVE RequestedIsLast'
  BY <1>3 DEF RequestedIsLast, Requested, ASTOf
<1>4. ASSUME NEW n, NEW hit, Dies(n, hit) PROVE RequestedIsLast'
  BY <1>3, <1>4 DEF Dies, cache
<1>5. Construct => RequestedIsLast'
  <2> SUFFICES ASSUME Construct, ret' = ret PROVE RequestedIsLast'
    BY <1>4 DEF Construct
  <2>1. ret.op = "none"
    BY DEF Construct, CacheInv, RetTyped
  <2> QED
    BY <2>1 DEF RequestedIsLast, Requested
<1>6. NullHandle => RequestedIsLast'
  BY DEF NullHandle, Returns, RequestedIsLast, Requested
<1>7. \A i \in File : GetASTUnit(i) => RequestedIsLast'
  <2> SUFFICES ASSUME NEW i \in File, GetASTUnit(i), Request(ASTList[i], ASTs[ASTList[i]] # Null),
                      Returns("getASTUnit", i, ASTs'[ASTList[i]])
               PROVE  RequestedIsLast'
    BY <1>4 DEF GetASTUnit
  <2>1. ASTQueue' # <<>> /\ Last(ASTQueue') = [ast |-> ASTList[i], addr |-> ASTs'[ASTList[i]]]
    BY <1>1, ListFacts, RequestedLast
  <2> QED
    BY <2>1 DEF Returns, RequestedIsLast, Requested
<1>8. \A F \in Function : GetFunctionDecl(F) => RequestedIsLast'
  <2> SUFFICES ASSUME NEW F \in Function, GetFunctionDecl(F),
                      Request(ASTOf(F), functionMap[F] # Null),
                      Returns("getFunctionDecl", F, functionMap'[F])
               PROVE  RequestedIsLast'
    BY <1>4 DEF GetFunctionDecl
  <2>1. ASTQueue' # <<>> /\ Last(ASTQueue') = [ast |-> ASTOf(F), addr |-> ASTs'[ASTOf(F)]]
    BY <1>1, FunctionFacts, BoundFacts, RequestedLast
  <2> QED
    BY <2>1 DEF Returns, RequestedIsLast, Requested, ASTOf
<1>9. \A V \in Variable : GetVarDecl(V) => RequestedIsLast'
  <2> SUFFICES ASSUME NEW V \in Variable, NEW op \in {"getVarDecl", "getGlobalVarDecl"},
                      Returns(op, V, variableLeft'[V])
               PROVE  RequestedIsLast'
    BY <1>4 DEF GetVarDecl
  <2> QED
    BY <1>2
<1>10. \A F \in Function : GetCFG(F) => RequestedIsLast'
  BY <1>2, <1>4 DEF GetCFG
<1>11. \A l \in Loc : GetBlockWithLoc(l) => RequestedIsLast'
  BY <1>2, <1>4 DEF GetBlockWithLoc
<1>12. \A size \in Limits : SetMaxSize(size) => RequestedIsLast'
  BY <1>2 DEF SetMaxSize
<1>13. UNCHANGED vars => RequestedIsLast'
  BY <1>3 DEF vars, cache
<1> QED
  BY <1>5, <1>6, <1>7, <1>8, <1>9, <1>10, <1>11, <1>12, <1>13 DEF Next

\* The last unit of the queue is the last a load would evict.
LEMMA StepKeepsRequestedUnit ==
  ASSUME DistinctASTs, CacheInv, RequestedIsLast, CacheInv', [Next]_vars, max_size >= 2,
         NEW n \in Requested
  PROVE  ASTs'[n] = ASTs[n]
<1>1. TypeOK /\ QueueMirrorsASTs' /\ TypeOK'
  BY DEF CacheInv
<1> DEFINE len == Len(ASTQueue)
           u == [ast |-> n, addr |-> ASTs[n]]
<1>2. ASTQueue \in Seq(Units) /\ len \in Nat /\ len # 0 /\ DOMAIN ASTQueue = 1..len
      /\ max_size \in Nat
  <2>1. ASTQueue \in Seq(Units) /\ max_size \in Nat
    BY <1>1, ConfigAssumption DEF TypeOK
  <2>2. ASTQueue # <<>>
    BY DEF RequestedIsLast
  <2> QED
    BY <2>1, <2>2
<1>3. len \in DOMAIN ASTQueue /\ ASTQueue[len] = u
  BY <1>2 DEF Last, RequestedIsLast
<1>4. u \in ToSet(ASTQueue)
  BY <1>3 DEF ToSet
<1>5. ASSUME UNCHANGED ASTQueue PROVE u \in ToSet(ASTQueue')
  BY <1>4, <1>5
<1>6. ASSUME \E m : Move(m) PROVE u \in ToSet(ASTQueue')
  BY <1>1, <1>4, <1>6, TypeOKQueue, MoveKeepsUnits
<1>7. ASSUME NEW files, NEW m, NEW a \in FreeAddr, LoadASTUnit(files, m, a)
      PROVE  u \in ToSet(ASTQueue')
  <2>1. \A q \in DOMAIN ASTQueue : q > Pops => ASTQueue[q] \in ToSet(ASTQueue')
    BY <1>1, <1>7, TypeOKQueue, LoadUnits
  <2>2. len > Pops
    BY <1>2 DEF Pops
  <2> QED
    BY <1>3, <2>1, <2>2
<1>8. u \in ToSet(ASTQueue')
  BY <1>4, <1>5, <1>6, <1>7, QueueSteps
<1>9. PICK q \in DOMAIN ASTQueue' : ASTQueue'[q] = u
  BY <1>8 DEF ToSet
<1> QED
  BY <1>1, <1>9 DEF QueueMirrorsASTs

-----------------------------------------------------------------------------
(* The theorems.                                                           *)

\* Whatever the checkers ask for and in whatever order, with distinct ASTs the tables of
\* the manager stay consistent, up to the call that dies of a limit of 0 if there is one.
THEOREM CacheInvariant ==
  ASSUME DistinctASTs
  PROVE  Spec => []CacheInv
<1>1. Init => CacheInv
  BY InitCacheInv
<1>2. CacheInv /\ [Next]_vars => CacheInv'
  BY NextKeeps
<1> QED
  BY <1>1, <1>2, PTL DEF Spec

\* The variables keep their types.
THEOREM TypeCorrect ==
  ASSUME DistinctASTs
  PROVE  Spec => []TypeOK
<1>1. CacheInv => TypeOK
  BY DEF CacheInv
<1> QED
  BY <1>1, CacheInvariant, PTL

\* The list of units and the map from names to units agree.
THEOREM QueueMirrored ==
  ASSUME DistinctASTs
  PROVE  Spec => []QueueMirrorsASTs
<1>1. CacheInv => QueueMirrorsASTs
  BY DEF CacheInv
<1> QED
  BY <1>1, CacheInvariant, PTL

\* No handle keeps a pointer into a unit that was freed, and each is bound while its unit
\* is in memory (push, pop).
THEOREM NoStalePointer ==
  ASSUME DistinctASTs
  PROVE  Spec => []BimapMirrorsUnits
<1>1. CacheInv => BimapMirrorsUnits
  BY DEF CacheInv
<1> QED
  BY <1>1, CacheInvariant, PTL

\* removeVariable leaves no reverse entry behind and takes none of another variable.
THEOREM ReverseMirrored ==
  ASSUME DistinctASTs
  PROVE  Spec => []RightMirrorsLeft
<1>1. CacheInv => RightMirrorsLeft
  BY DEF CacheInv
<1> QED
  BY <1>1, CacheInvariant, PTL

\* pop drops the CFGs of the unit it frees: getCFG never answers with one of them.
THEOREM NoStaleCFG ==
  ASSUME DistinctASTs
  PROVE  Spec => []CFGsFresh
<1>1. CacheInv => CFGsFresh
  BY DEF CacheInv
<1> QED
  BY <1>1, CacheInvariant, PTL

\* Over all loads, evictions and moves the tables of the manager agree with each other
\* and with the units in memory (push, pop, move, removeVariable, getCFG).
THEOREM TablesAlwaysAgree ==
  ASSUME DistinctASTs
  PROVE  Spec => []TablesAgree
<1>1. CacheInv => TablesAgree
  BY DEF CacheInv, TablesAgree
<1> QED
  BY <1>1, CacheInvariant, PTL

\* Every pointer a getter returns is into a unit in memory and is the right one.
THEOREM ResultsCurrent ==
  ASSUME DistinctASTs
  PROVE  Spec => []ResultIsCurrent
<1>1. CacheInv => ResultIsCurrent
  BY DEF CacheInv
<1> QED
  BY <1>1, CacheInvariant, PTL

\* The assertion of move never fails and pop never meets an empty queue, if the list
\* names no AST twice and there is room for a unit.
THEOREM ManagerNeverDies ==
  ASSUME DistinctASTs, HasRoom
  PROVE  Spec => []NoFault
<1>1. CacheInv => NoFault
  <2> SUFFICES ASSUME CacheInv PROVE NoFault
    OBVIOUS
  <2>1. max_size # 0 /\ fault \in {"none", "move", "pop"}
    BY ConfigAssumption DEF CacheInv, TypeOK, HasRoom
  <2> QED
    BY <2>1 DEF CacheInv, FaultExplained, NoFault, DistinctASTs
<1> QED
  BY <1>1, CacheInvariant, PTL

-----------------------------------------------------------------------------
(* What holds of every configuration, also one the code cannot cope with.  *)

\* pop meets an empty queue only where the limit is 0.
PopExplained == fault = "pop" => max_size = 0

\* Only setMaxSize changes the limit, while the process is alive, and only a call that dies
\* changes fault.
LEMMA FaultSteps ==
  ASSUME [Next]_vars
  PROVE  \/ UNCHANGED <<max_size, fault>>
         \/ fault' = "none" /\ max_size' \in Limits
         \/ \E n, hit : Dies(n, hit)
<1>1. Construct => UNCHANGED <<max_size, fault>> \/ \E n, hit : Dies(n, hit)
  BY DEF Construct
<1>2. \A i \in File : GetASTUnit(i) => UNCHANGED <<max_size, fault>> \/ \E n, hit : Dies(n, hit)
  BY DEF GetASTUnit
<1>3. \A F \in Function : GetFunctionDecl(F) =>
        UNCHANGED <<max_size, fault>> \/ \E n, hit : Dies(n, hit)
  BY DEF GetFunctionDecl
<1>4. \A V \in Variable : GetVarDecl(V) =>
        UNCHANGED <<max_size, fault>> \/ \E n, hit : Dies(n, hit)
  BY DEF GetVarDecl
<1>5. \A F \in Function : GetCFG(F) => UNCHANGED <<max_size, fault>> \/ \E n, hit : Dies(n, hit)
  BY DEF GetCFG
<1>6. \A l \in Loc : GetBlockWithLoc(l) =>
        UNCHANGED <<max_size, fault>> \/ \E n, hit : Dies(n, hit)
  BY DEF GetBlockWithLoc
<1>7. NullHandle \/ UNCHANGED vars => UNCHANGED <<max_size, fault>>
  BY DEF NullHandle, vars
<1>8. \A size \in Limits : SetMaxSize(size) => fault' = "none" /\ max_size' \in Limits
  BY DEF SetMaxSize, Ready
<1> QED
  BY <1>1, <1>2, <1>3, <1>4, <1>5, <1>6, <1>7, <1>8 DEF Next

\* Moving, loading and dying keep the queue a queue and need no more of the configuration.
LEMMA StepKeepsQueueTyped ==
  ASSUME QueueTyped, PopExplained, [Next]_vars
  PROVE  QueueTyped' /\ PopExplained'
<1>1. ASTQueue' \in Seq(Units)
  <2>1. ASTQueue \in Seq(Units)
    BY DEF QueueTyped
  <2>2. ASSUME NEW n, Move(n) PROVE ASTQueue' \in Seq(Units)
    BY <2>1, <2>2, MoveToBack DEF Move
  <2>3. ASSUME NEW files, NEW n \in AST, NEW a \in FreeAddr, LoadASTUnit(files, n, a)
        PROVE  ASTQueue' \in Seq(Units)
    <3>1. Pops \in 0..Len(ASTQueue) /\ [ast |-> n, addr |-> a] \in Units
      BY <2>3, PopsFacts DEF LoadASTUnit, FreeAddr, Units
    <3>2. ASTQueue' = Append(SubSeq(ASTQueue, Pops + 1, Len(ASTQueue)), [ast |-> n, addr |-> a])
      BY <2>3 DEF LoadASTUnit
    <3> QED
      BY <2>1, <3>1, <3>2, DropAndAppend
  <2> QED
    BY <2>1, <2>2, <2>3, QueueSteps
<1>2. ASSUME NEW n, NEW hit, Dies(n, hit), fault' = "pop" PROVE max_size = 0
  <2>1. Len(ASTQueue) \in Nat /\ max_size \in Nat
    BY ConfigAssumption DEF QueueTyped
  <2>2. Pops > Len(ASTQueue)
    BY <1>2 DEF Dies
  <2> QED
    BY <2>1, <2>2 DEF Pops
<1>3. CASE \E n, hit : Dies(n, hit)
  BY <1>1, <1>2, <1>3 DEF Dies, QueueTyped, PopExplained
<1>4. CASE UNCHANGED <<max_size, fault>> \/ (fault' = "none" /\ max_size' \in Limits)
  BY <1>1, <1>4 DEF QueueTyped, PopExplained
<1> QED
  BY <1>3, <1>4, FaultSteps

LEMMA QueueInvariant == Spec => [](QueueTyped /\ PopExplained)
<1>1. Init => QueueTyped /\ PopExplained
  BY DEF Init, QueueTyped, PopExplained
<1>2. QueueTyped /\ PopExplained /\ [Next]_vars => (QueueTyped /\ PopExplained)'
  BY StepKeepsQueueTyped
<1> QED
  BY <1>1, <1>2, PTL DEF Spec

\* Whatever the list and the limits, the process dies in the manager only of the two
\* mistakes that nothing checks: a limit of 0 (pop), an AST listed twice (move).
THEOREM FaultsExplained == Spec => []FaultExplained
<1>1. CASE DistinctASTs
  <2>1. CacheInv => FaultExplained
    BY DEF CacheInv
  <2> QED
    BY <1>1, <2>1, CacheInvariant, PTL
<1>2. CASE ~DistinctASTs
  <2>1. PopExplained => FaultExplained
    BY <1>2 DEF PopExplained, FaultExplained, DistinctASTs
  <2> QED
    BY <2>1, QueueInvariant, PTL
<1> QED
  BY <1>1, <1>2

\* A step evicts only what the unit it loads needs, in any configuration.
THEOREM EvictionIsMinimal == Spec => EvictsOnlyForRoom
<1>1. QueueTyped /\ [Next]_vars =>
        [/\ Loads => Len(ASTQueue') <= max_size
         /\ Evicts => Loads /\ Len(ASTQueue') = max_size]_vars
  BY StepEvictsOnlyForRoom
<1> QED
  BY <1>1, QueueInvariant, PTL DEF Spec, EvictsOnlyForRoom

\* The unit of the last call is always at the end of the queue.
LEMMA RequestedInvariant ==
  ASSUME DistinctASTs
  PROVE  Spec => []RequestedIsLast
<1>1. Init => RequestedIsLast
  BY DEF Init, RequestedIsLast, Requested
<1>2. CacheInv /\ RequestedIsLast /\ [Next]_vars => RequestedIsLast'
  BY StepKeepsRequested
<1> QED
  BY <1>1, <1>2, CacheInvariant, PTL DEF Spec

\* With room for two units, what was requested last is not evicted by the next call.
THEOREM LastRequestedSafe ==
  ASSUME DistinctASTs
  PROVE  Spec => LastRequestedStays
<1>1. CacheInv /\ CacheInv' /\ RequestedIsLast /\ [Next]_vars =>
        [max_size >= 2 => \A n \in Requested : ASTs'[n] = ASTs[n]]_vars
  BY StepKeepsRequestedUnit
<1> QED
  BY <1>1, CacheInvariant, RequestedInvariant, PTL DEF Spec, LastRequestedStays

=============================================================================
