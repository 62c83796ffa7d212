------------------------ MODULE InterProcedureCFGProofs ------------------------
(***************************************************************************)
(* The links between calls and functions are known at both of their ends,  *)
(* and both directions follow the same edges, for every program, whatever  *)
(* units the manager evicts meanwhile: the two lists that grow with each   *)
(* link keep counting each other (Mirrored), and what leads behind a call  *)
(* belongs to a call that is linked (Anchored).  A walk filtered with the  *)
(* non-recursive call graph enters no function from within, since what a   *)
(* function leads down to shrinks with each call (Descendants).  A pointer *)
(* into a destroyed CFG is read only where memory is too small             *)
(* (MemoryInv): every load evicts the unit unused for longest (Recent).    *)
(***************************************************************************)
EXTENDS InterProcedureCFG, SequenceLemmas

Links == [Places(program) -> Seq(Places(program))]

\* Each link is as often in the one list as in the other.
Mirrored(to, from) ==
  \A x, y \in Places(program) : Occurs(y, to[x]) = Occurs(x, from[y])

\* What a link is for.
Explained(to) ==
  \A x, y \in Places(program) : y \in ToSet(to[x]) =>
    \/ IsCall(x, y[1]) /\ y = Entry(y[1])
    \/ x = Exit(x[1]) /\ \E c \in Places(program) : IsCall(c, x[1]) /\ y = Behind(c, x[1])

\* As many ways lead into a function as out of it.
Balanced(to, from) ==
  \A f \in Function : HasBody(program, f) => Len(from[Entry(f)]) = Len(to[Exit(f)])

\* What leads behind a call belongs to a call that is linked itself, and behind one that is
\* linked a link arrives.
Anchored(to, from) ==
  /\ \A x, y \in Places(program) : x = Exit(x[1]) /\ y \in ToSet(to[x]) =>
       \E c \in Places(program) : IsCall(c, x[1]) /\ y = Behind(c, x[1]) /\ ToSet(to[c]) # {}
  /\ \A c \in Places(program), g \in Function :
       IsCall(c, g) /\ ToSet(to[c]) # {} => Behind(c, g) \in Places(program) /\ ToSet(from[Behind(c, g)]) # {}

LinksInv ==
  /\ program \in Programs
  /\ at \in Places(program) \cup {Null}
  /\ pred \in Links /\ succ \in Links
  /\ Mirrored(succ, pred) /\ Explained(succ) /\ Balanced(succ, pred) /\ Anchored(succ, pred)
  /\ unseen \in Seq(Function)

-----------------------------------------------------------------------------
(* Lists of links.                                                         *)

\* The places of a list where y stands are finitely many.
LEMMA OccursFinite ==
  ASSUME NEW S, NEW ys \in Seq(S), NEW y
  PROVE  /\ IsFiniteSet({k \in DOMAIN ys : ys[k] = y}) /\ Occurs(y, ys) \in Nat
<1>1. Len(ys) \in Nat /\ DOMAIN ys = 1..Len(ys)
  OBVIOUS
<1>2. IsFiniteSet(1..Len(ys))
  BY <1>1, FS_Interval
<1>3. {k \in DOMAIN ys : ys[k] = y} \in SUBSET (1..Len(ys))
  BY <1>1
<1>4. IsFiniteSet({k \in DOMAIN ys : ys[k] = y})
  BY <1>2, <1>3, FS_Subset
<1> QED
  BY <1>4, FS_CardinalityType DEF Occurs

\* One more entry is one more occurrence of what it is.
LEMMA OccursAppend ==
  ASSUME NEW S, NEW ys \in Seq(S), NEW z \in S, NEW y
  PROVE  /\ Append(ys, z) \in Seq(S) /\ Len(Append(ys, z)) = Len(ys) + 1
         /\ ToSet(Append(ys, z)) = ToSet(ys) \cup {z}
         /\ Occurs(y, Append(ys, z)) = IF z = y THEN Occurs(y, ys) + 1 ELSE Occurs(y, ys)
<1> DEFINE zs == Append(ys, z)
           n == Len(ys) + 1
           old == {k \in DOMAIN ys : ys[k] = y}
           new == {k \in DOMAIN zs : zs[k] = y}
<1>1. /\ Len(ys) \in Nat /\ DOMAIN ys = 1..Len(ys) /\ zs \in Seq(S) /\ Len(zs) = n
      /\ DOMAIN zs = 1..n /\ zs[n] = z /\ \A k \in 1..Len(ys) : zs[k] = ys[k]
  OBVIOUS
<1>2. n \notin old /\ \A k \in 1..n : k = n \/ k \in 1..Len(ys)
  BY <1>1
<1>3. new = IF z = y THEN old \cup {n} ELSE old
  BY <1>1, <1>2
<1>4. IsFiniteSet(old) /\ Occurs(y, ys) = Cardinality(old) /\ Occurs(y, zs) = Cardinality(new)
  BY OccursFinite DEF Occurs
<1>5. Cardinality(old \cup {n}) = Cardinality(old) + 1
  BY <1>2, <1>4, FS_AddElement
<1>6. Occurs(y, zs) = IF z = y THEN Occurs(y, ys) + 1 ELSE Occurs(y, ys)
  BY <1>3, <1>4, <1>5
<1>7. ToSet(zs) = ToSet(ys) \cup {z}
  <2>1. n \in DOMAIN zs /\ \A k \in DOMAIN zs : k = n \/ k \in DOMAIN ys
    BY <1>1
  <2>2. \A k \in DOMAIN ys : k \in DOMAIN zs /\ zs[k] = ys[k]
    BY <1>1
  <2> QED
    BY <1>1, <2>1, <2>2 DEF ToSet
<1> QED
  BY <1>1, <1>6, <1>7

\* What one link adds.
LEMMA AddFacts ==
  ASSUME NEW links \in Links, NEW x \in Places(program), NEW y \in Places(program)
  PROVE  /\ Add(links, x, y) \in Links
         /\ \A u \in Places(program) :
              Add(links, x, y)[u] = IF u = x THEN Append(links[x], y) ELSE links[u]
         /\ \A u, v \in Places(program) :
              Occurs(v, Add(links, x, y)[u]) =
                IF u = x /\ v = y THEN Occurs(v, links[u]) + 1 ELSE Occurs(v, links[u])
         /\ \A u \in Places(program) :
              Len(Add(links, x, y)[u]) = IF u = x THEN Len(links[u]) + 1 ELSE Len(links[u])
<1>1. links[x] \in Seq(Places(program))
  BY DEF Links
<1>2. Append(links[x], y) \in Seq(Places(program))
  BY <1>1, OccursAppend
<1>3. \A u \in Places(program) :
        Add(links, x, y)[u] = IF u = x THEN Append(links[x], y) ELSE links[u]
  BY DEF Add, Links
<1>4. Add(links, x, y) \in Links
  BY <1>2 DEF Add, Links
<1>5. ASSUME NEW u \in Places(program), NEW v \in Places(program)
      PROVE  Occurs(v, Add(links, x, y)[u]) =
               IF u = x /\ v = y THEN Occurs(v, links[u]) + 1 ELSE Occurs(v, links[u])
  <2>1. CASE u = x
    <3>1. Add(links, x, y)[u] = Append(links[x], y)
      BY <1>3, <2>1
    <3>2. Occurs(v, Append(links[x], y)) =
            IF y = v THEN Occurs(v, links[x]) + 1 ELSE Occurs(v, links[x])
      BY <1>1, OccursAppend
    <3> QED
      BY <2>1, <3>1, <3>2
  <2>2. CASE u # x
    BY <1>3, <2>2
  <2> QED
    BY <2>1, <2>2
<1>6. Len(Append(links[x], y)) = Len(links[x]) + 1
  BY <1>1, OccursAppend
<1> QED
  BY <1>3, <1>4, <1>5, <1>6

LEMMA AddElements ==
  ASSUME NEW links \in Links, NEW x \in Places(program), NEW y \in Places(program),
         NEW u \in Places(program), NEW v \in Places(program)
  PROVE  v \in ToSet(Add(links, x, y)[u]) <=> v \in ToSet(links[u]) \/ (u = x /\ v = y)
<1>1. Add(links, x, y)[u] = IF u = x THEN Append(links[x], y) ELSE links[u]
  BY AddFacts
<1>2. ToSet(Append(links[x], y)) = ToSet(links[x]) \cup {y}
  <2>1. links[x] \in Seq(Places(program))
    BY DEF Links
  <2> QED
    BY <2>1, OccursAppend
<1> QED
  BY <1>1, <1>2

LEMMA AddLength ==
  ASSUME NEW links \in Links, NEW x \in Places(program), NEW y \in Places(program),
         NEW u \in Places(program)
  PROVE  Len(Add(links, x, y)[u]) = IF u = x THEN Len(links[u]) + 1 ELSE Len(links[u])
BY AddFacts

\* A link that is noted at both ends leaves the lists mirrored.
LEMMA AddMirrored ==
  ASSUME NEW to \in Links, NEW from \in Links, Mirrored(to, from),
         NEW x \in Places(program), NEW y \in Places(program)
  PROVE  Mirrored(Add(to, x, y), Add(from, y, x))
<1> SUFFICES ASSUME NEW u \in Places(program), NEW v \in Places(program)
             PROVE  Occurs(v, Add(to, x, y)[u]) = Occurs(u, Add(from, y, x)[v])
  BY DEF Mirrored
<1>1. Occurs(v, to[u]) = Occurs(u, from[v])
  BY DEF Mirrored
<1>2. Occurs(v, Add(to, x, y)[u]) =
        IF u = x /\ v = y THEN Occurs(v, to[u]) + 1 ELSE Occurs(v, to[u])
  BY AddFacts
<1>3. Occurs(u, Add(from, y, x)[v]) =
        IF v = y /\ u = x THEN Occurs(u, from[v]) + 1 ELSE Occurs(u, from[v])
  BY AddFacts
<1> QED
  BY <1>1, <1>2, <1>3

-----------------------------------------------------------------------------
(* The places of a program.                                                *)

\* A function with a body begins and ends at different places.
LEMMA BodyFacts ==
  ASSUME program \in Programs, NEW f \in Function, HasBody(program, f)
  PROVE  /\ Entry(f) \in Places(program) /\ Exit(f) \in Places(program)
         /\ \A g : Entry(f) # Exit(g)
         /\ Cardinality(BlocksOf(program, f)) \in Nat /\ Cardinality(BlocksOf(program, f)) > 1
         /\ BlocksOf(program, f) = 0..(Cardinality(BlocksOf(program, f)) - 1)
<1> DEFINE B == BlocksOf(program, f)
<1>1. IsProgram(program)
  BY ProgramsAssumption
<1>2. IsFiniteSet(B) /\ B = 0..(Cardinality(B) - 1) /\ Cardinality(B) > 1
  BY <1>1 DEF IsProgram
<1>3. Cardinality(B) \in Nat
  BY <1>2, FS_CardinalityType
<1> HIDE DEF B
<1>4. 0 \in B /\ Cardinality(B) - 1 \in B /\ Cardinality(B) - 1 # 0
  BY <1>2, <1>3
<1>5. Entry(f) = <<f, Cardinality(B) - 1>> /\ \A g : Exit(g) = <<g, 0>>
  BY DEF Entry, Exit, B
<1>6. \A b \in B : <<f, b>> \in Places(program)
  BY DEF Places, B
<1> QED
  BY <1>2, <1>3, <1>4, <1>5, <1>6 DEF B

\* A place lies in a function with a body.
LEMMA PlaceFacts ==
  ASSUME program \in Programs, NEW x \in Places(program)
  PROVE  /\ x[1] \in Function /\ x[2] \in BlocksOf(program, x[1]) /\ x = <<x[1], x[2]>>
         /\ HasBody(program, x[1])
         /\ \A b \in BlocksOf(program, x[1]) : <<x[1], b>> \in Places(program)
<1>1. PICK f \in Function : x \in {f} \X BlocksOf(program, f)
  BY DEF Places
<1>2. x[1] = f /\ x[2] \in BlocksOf(program, f) /\ x = <<x[1], x[2]>>
  BY <1>1
<1>3. HasBody(program, f)
  <2>1. DOMAIN program.elems[f] # {}
    BY <1>2 DEF BlocksOf
  <2> QED
    BY <2>1 DEF HasBody
<1>4. \A b \in BlocksOf(program, f) : <<f, b>> \in Places(program)
  BY DEF Places
<1> QED
  BY <1>2, <1>3, <1>4

\* A call leads into a function with a body, and from its end to a place that is the
\* beginning of no function; no exit makes one.
LEMMA CallFacts ==
  ASSUME program \in Programs, NEW x \in Places(program), CalleeOf(x) # Null
  PROVE  /\ CalleeOf(x) \in Function /\ HasBody(program, CalleeOf(x))
         /\ FirstSuccessor(x) # Null => \A g : Behind(x, g) \in Places(program)
         /\ \A f, g : HasBody(program, f) => Behind(x, g) # Entry(f)
         /\ \A f : x # Exit(f)
<1> DEFINE F == x[1]
           b == x[2]
           elems == program.elems[F][b]
           B == BlocksOf(program, F)
           after == program.succ[F][b]
<1>1. F \in Function /\ b \in B /\ x = <<F, b>> /\ HasBody(program, F)
  BY PlaceFacts
<1>2. IsProgram(program) /\ program.node \subseteq Function /\ Null \notin Nat
  BY ProgramsAssumption DEF IsProgram
<1>3. /\ program.elems[F][0] = <<>>
      /\ after \in Seq((B \ {Cardinality(B) - 1}) \cup {Null})
      /\ elems # <<>> => after # <<>>
  BY <1>1, <1>2 DEF IsProgram
<1>4. /\ elems # <<>> /\ Last(elems) # Null /\ HasBody(program, Last(elems))
      /\ Last(elems) \in program.node /\ CalleeOf(x) = Last(elems)
  BY DEF CalleeOf
<1>5. after[1] \in (B \ {Cardinality(B) - 1}) \cup {Null}
  <2> HIDE DEF after, B
  <2>1. after # <<>>
    BY <1>3, <1>4
  <2> QED
    BY <1>3, <2>1
<1>6. b # 0
  BY <1>3, <1>4
<1>7. \A g : Behind(x, g) = <<F, after[1]>>
  BY DEF Behind, FirstSuccessor
<1>8. FirstSuccessor(x) # Null => \A g : Behind(x, g) \in Places(program)
  BY <1>5, <1>7, PlaceFacts DEF FirstSuccessor
<1>9. ASSUME NEW f, NEW g, HasBody(program, f), Behind(x, g) = Entry(f) PROVE FALSE
  <2>1. Entry(f) = <<f, Cardinality(BlocksOf(program, f)) - 1>>
    BY DEF Entry
  <2>2. f = F /\ after[1] = Cardinality(BlocksOf(program, f)) - 1
    BY <1>7, <1>9, <2>1
  <2>3. Cardinality(B) \in Nat /\ Cardinality(B) > 1
    BY <1>1, BodyFacts
  <2> QED
    BY <1>2, <1>5, <2>2, <2>3
<1>10. \A f : x # Exit(f)
  BY <1>1, <1>6 DEF Exit
<1> QED
  BY <1>2, <1>4, <1>8, <1>9, <1>10

-----------------------------------------------------------------------------
(* The edges of a function.                                                *)

\* The successors of a block are blocks of its function other than the entry, or dropped.
LEMMA EdgeFacts ==
  ASSUME program \in Programs, NEW f \in Function, HasBody(program, f),
         NEW b \in BlocksOf(program, f)
  PROVE  /\ program.succ[f][b] \in Seq((BlocksOf(program, f) \ {Entry(f)[2]}) \cup {Null})
         /\ program.succ[f][0] = <<>>
         /\ BlocksOf(program, f) \subseteq Nat /\ Null \notin Nat /\ Null \notin Places(program)
<1>1. IsProgram(program) /\ Null \notin Nat /\ Null \notin Places(program)
  BY ProgramsAssumption
<1>2. Entry(f)[2] = Cardinality(BlocksOf(program, f)) - 1
  BY DEF Entry
<1>3. /\ program.succ[f][b] \in Seq((BlocksOf(program, f) \ {Cardinality(BlocksOf(program, f)) - 1}) \cup {Null})
      /\ program.succ[f][0] = <<>>
  BY <1>1 DEF IsProgram
<1>4. BlocksOf(program, f) \subseteq Nat
  BY BodyFacts
<1> QED
  BY <1>1, <1>2, <1>3, <1>4

\* The edges forwards: they stay in the function, do not lead to its entry, and none leaves
\* its exit.
LEMMA IntraSuccFacts ==
  ASSUME program \in Programs, NEW x \in Places(program)
  PROVE  /\ IntraSucc(x) \in Seq(Places(program) \cup {Null})
         /\ \A y \in Places(program) : y \in ToSet(IntraSucc(x)) <=>
              /\ y[1] = x[1]
              /\ \E i \in DOMAIN program.succ[x[1]][x[2]] : program.succ[x[1]][x[2]][i] = y[2]
         /\ \A g : Entry(g) \in Places(program) => Entry(g) \notin ToSet(IntraSucc(x))
         /\ x = Exit(x[1]) => ToSet(IntraSucc(x)) = {}
<1> DEFINE F == x[1]
           ids == program.succ[F][x[2]]
           B == BlocksOf(program, F)
           S == (B \ {Entry(F)[2]}) \cup {Null}
           e == [k \in DOMAIN ids |-> IF ids[k] = Null THEN Null ELSE <<F, ids[k]>>]
<1>1. /\ F \in Function /\ x[2] \in B /\ x = <<F, x[2]>> /\ HasBody(program, F)
      /\ \A b \in B : <<F, b>> \in Places(program)
  BY PlaceFacts
<1>2. ids \in Seq(S) /\ program.succ[F][0] = <<>> /\ B \subseteq Nat /\ Null \notin Nat /\ Null \notin Places(program)
  BY <1>1, EdgeFacts
<1>3. IntraSucc(x) = e
  BY DEF IntraSucc
<1>4. \A y \in Places(program) : y[1] \in Function /\ y = <<y[1], y[2]>> /\ y[2] \in BlocksOf(program, y[1])
  BY PlaceFacts
<1>5. Entry(F) = <<F, Entry(F)[2]>> /\ \A g : Entry(g)[1] = g
  BY DEF Entry
<1> HIDE DEF ids, B, F
<1>6. Len(ids) \in Nat /\ DOMAIN ids = 1..Len(ids) /\ \A k \in DOMAIN ids : ids[k] \in S
  BY <1>2, SequenceFacts
<1> HIDE DEF S
<1>7. \A k \in DOMAIN ids : ids[k] = Null \/ (ids[k] \in B /\ ids[k] # Entry(F)[2])
  BY <1>6 DEF S
<1>8. e \in [1..Len(ids) -> Places(program) \cup {Null}]
  BY <1>1, <1>6, <1>7
<1>9. e \in Seq(Places(program) \cup {Null})
  BY <1>6, <1>8
<1>10. ToSet(e) = {e[k] : k \in DOMAIN ids}
  BY DEF ToSet
<1>11. ASSUME NEW y \in Places(program)
       PROVE  y \in ToSet(e) <=> y[1] = F /\ \E i \in DOMAIN ids : ids[i] = y[2]
  <2>1. ASSUME NEW i \in DOMAIN ids, e[i] = y PROVE y[1] = F /\ ids[i] = y[2]
    BY <1>2, <2>1
  <2>2. ASSUME NEW i \in DOMAIN ids, y[1] = F, ids[i] = y[2] PROVE e[i] = y
    <3>1. ids[i] # Null
      BY <1>2, <1>4, <2>2 DEF B
    <3> QED
      BY <1>4, <2>2, <3>1
  <2> QED
    BY <1>10, <2>1, <2>2
<1>12. ASSUME NEW g, Entry(g) \in Places(program), Entry(g) \in ToSet(e) PROVE FALSE
  <2>1. g = F /\ \E i \in DOMAIN ids : ids[i] = Entry(F)[2]
    BY <1>5, <1>11, <1>12
  <2>2. Entry(F)[2] # Null
    BY <1>2, <1>4, <1>12, <2>1, <1>5 DEF B
  <2> QED
    BY <1>7, <2>1, <2>2
<1>13. x = Exit(x[1]) => ToSet(e) = {}
  <2>1. SUFFICES ASSUME x = Exit(x[1]) PROVE ToSet(e) = {}
    OBVIOUS
  <2>2. x[2] = 0
    BY <2>1 DEF Exit
  <2>3. ids = <<>>
    BY <1>2, <2>2 DEF ids
  <2> QED
    BY <1>10, <2>3
<1> HIDE DEF e
<1> QED
  BY <1>3, <1>9, <1>11, <1>12, <1>13 DEF F, ids

\* The edges backwards are the same.
LEMMA IntraPredFacts ==
  ASSUME program \in Programs, NEW x \in Places(program)
  PROVE  /\ IntraPred(x) \in Seq(Places(program) \cup {Null})
         /\ \A y \in Places(program) : y \in ToSet(IntraPred(x)) <=> x \in ToSet(IntraSucc(y))
         /\ \A y \in ToSet(IntraPred(x)) : y = Null \/ y[1] = x[1]
<1> DEFINE F == x[1]
           c == x[2]
           B == BlocksOf(program, F)
           n == Cardinality(B)
           T == Places(program) \cup {Null}
           hits(b) == {i \in DOMAIN program.succ[F][b] : program.succ[F][b][i] = c}
           into(b) == [k \in 1..Cardinality(hits(b)) |-> <<F, b>>]
           ss == [k \in 1..n |-> into(k - 1)]
           dropped == IF c \in program.cut[F] THEN <<Null>> ELSE <<>>
<1>1. /\ F \in Function /\ c \in B /\ x = <<F, c>> /\ HasBody(program, F)
      /\ \A b \in B : <<F, b>> \in Places(program)
  BY PlaceFacts
<1>2. n \in Nat /\ B = 0..(n - 1)
  BY <1>1, BodyFacts
<1>3. IntraPred(x) = FlattenSeq(ss) \o dropped
  BY DEF IntraPred
<1>4. ASSUME NEW b \in B
      PROVE  /\ Cardinality(hits(b)) \in Nat
             /\ Cardinality(hits(b)) = 0 <=> hits(b) = {}
  <2>1. program.succ[F][b] \in Seq((B \ {Entry(F)[2]}) \cup {Null})
    BY <1>1, EdgeFacts
  <2>2. IsFiniteSet(hits(b))
    BY <2>1, OccursFinite
  <2> QED
    BY <2>2, FS_CardinalityType, FS_EmptySet
<1>5. \A y \in Places(program) : y = <<y[1], y[2]>> /\ y[2] \in BlocksOf(program, y[1])
  BY PlaceFacts
<1>6. \A y \in Places(program) : x \in ToSet(IntraSucc(y)) <=>
        /\ x[1] = y[1]
        /\ \E i \in DOMAIN program.succ[y[1]][y[2]] : program.succ[y[1]][y[2]][i] = x[2]
  BY IntraSuccFacts
<1>7. \A b \in B : x \in ToSet(IntraSucc(<<F, b>>)) <=> hits(b) # {}
  <2> TAKE b \in B
  <2>1. <<F, b>> \in Places(program) /\ <<F, b>>[1] = F /\ <<F, b>>[2] = b
    BY <1>1
  <2> QED
    BY <1>6, <2>1
<1>8. Null \notin Places(program)
  BY ProgramsAssumption
<1> HIDE DEF hits, B, n
<1>9. ASSUME NEW b \in B
      PROVE  into(b) \in Seq(T) /\ ToSet(into(b)) = IF hits(b) = {} THEN {} ELSE {<<F, b>>}
  <2> DEFINE m == Cardinality(hits(b))
  <2>1. m \in Nat /\ (m = 0 <=> hits(b) = {})
    BY <1>4
  <2> HIDE DEF m
  <2>2. into(b) = [k \in 1..m |-> <<F, b>>]
    BY DEF m
  <2>3. [k \in 1..m |-> <<F, b>>] \in Seq(T)
    BY <1>1, <2>1
  <2>4. ToSet([k \in 1..m |-> <<F, b>>]) = {<<F, b>> : k \in 1..m}
    BY DEF ToSet
  <2> HIDE DEF into
  <2>5. CASE m = 0
    <3>1. {<<F, b>> : k \in 1..m} = {}
      BY <2>5
    <3> QED
      BY <2>1, <2>2, <2>3, <2>4, <2>5, <3>1
  <2>6. CASE m # 0
    <3>1. 1 \in 1..m
      BY <2>1, <2>6
    <3> QED
      BY <2>1, <2>2, <2>3, <2>4, <2>6, <3>1
  <2> QED
    BY <2>5, <2>6
<1> HIDE DEF into, T
<1>10. ss \in Seq(Seq(T)) /\ DOMAIN ss = 1..n /\ \A k \in 1..n : k - 1 \in B /\ ss[k] = into(k - 1)
  <2>1. \A k \in 1..n : k - 1 \in B
    BY <1>2
  <2>2. ss \in [1..n -> Seq(T)]
    BY <1>9, <2>1
  <2> QED
    BY <1>2, <2>1, <2>2
<1> HIDE DEF ss
<1>11. FlattenSeq(ss) \in Seq(T) /\ ToSet(FlattenSeq(ss)) = UNION {ToSet(ss[k]) : k \in 1..n}
  BY <1>10, FlattenFacts
<1>12. \A y : y \in ToSet(FlattenSeq(ss)) <=> \E b \in B : hits(b) # {} /\ y = <<F, b>>
  <2>1. ASSUME NEW k \in 1..n, NEW y \in ToSet(ss[k])
        PROVE  k - 1 \in B /\ hits(k - 1) # {} /\ y = <<F, k - 1>>
    BY <1>9, <1>10, <2>1
  <2>2. ASSUME NEW b \in B, hits(b) # {}
        PROVE  b + 1 \in 1..n /\ <<F, b>> \in ToSet(ss[b + 1])
    <3>1. b + 1 \in 1..n /\ (b + 1) - 1 = b
      BY <1>2
    <3> QED
      BY <1>9, <1>10, <2>2, <3>1
  <2> QED
    BY <1>11, <2>1, <2>2
<1>13. dropped \in Seq(T) /\ ToSet(dropped) \subseteq {Null}
  <2>1. Null \in T
    BY DEF T
  <2>2. <<Null>> \in Seq(T) /\ <<>> \in Seq(T)
    BY <2>1
  <2>3. ToSet(<<Null>>) = {Null} /\ ToSet(<<>>) = {}
    BY DEF ToSet
  <2> QED
    BY <2>2, <2>3
<1> HIDE DEF dropped
<1>14. IntraPred(x) \in Seq(T) /\ ToSet(IntraPred(x)) = ToSet(FlattenSeq(ss)) \cup ToSet(dropped)
  BY <1>3, <1>11, <1>13, ConcatFacts
<1>15. \A y \in Places(program) : y \in ToSet(IntraPred(x)) <=> x \in ToSet(IntraSucc(y))
  <2> TAKE y \in Places(program)
  <2>1. y \in ToSet(IntraPred(x)) <=> \E b \in B : hits(b) # {} /\ y = <<F, b>>
    BY <1>8, <1>12, <1>13, <1>14
  <2>2. ASSUME x \in ToSet(IntraSucc(y)) PROVE \E b \in B : hits(b) # {} /\ y = <<F, b>>
    <3>1. y[1] = F /\ y[2] \in B /\ y = <<F, y[2]>>
      BY <1>5, <1>6, <2>2 DEF B
    <3> QED
      BY <1>7, <2>2, <3>1
  <2> QED
    BY <1>7, <2>1, <2>2
<1>16. \A y \in ToSet(IntraPred(x)) : y = Null \/ y[1] = F
  BY <1>12, <1>13, <1>14
<1> QED
  BY <1>14, <1>15, <1>16 DEF T

-----------------------------------------------------------------------------
(* Step by step.                                                           *)

\* As long as the program stays, what was said of the lists stays true of them.
LEMMA ListsStay ==
  ASSUME LinksInv, UNCHANGED <<program, pred, succ>>
  PROVE  pred' \in Links' /\ succ' \in Links' /\ Mirrored(succ, pred)' /\ Explained(succ)'
         /\ Balanced(succ, pred)' /\ Anchored(succ, pred)' /\ program' \in Programs
<1>1. Mirrored(succ, pred)' /\ program' \in Programs
  BY DEF LinksInv, Mirrored, Places, BlocksOf
<1>2. Explained(succ)'
  BY DEF LinksInv, Explained, IsCall, CalleeOf, Entry, Exit, Behind, FirstSuccessor, Places, BlocksOf, HasBody
<1>3. Balanced(succ, pred)'
  BY DEF LinksInv, Balanced, Entry, Exit, BlocksOf, HasBody
<1>4. pred' \in Links' /\ succ' \in Links'
  BY DEF LinksInv, Links, Places, BlocksOf
<1>5. Anchored(succ, pred)'
  <2>1. /\ \A f : Exit(f)' = Exit(f)
        /\ \A x, f : Behind(x, f)' = Behind(x, f)
        /\ \A x, f : IsCall(x, f)' = IsCall(x, f)
    BY DEF IsCall, CalleeOf, Exit, Behind, FirstSuccessor, BlocksOf, HasBody
  <2>2. Places(program)' = Places(program)
    BY DEF Places, BlocksOf
  <2>3. Anchored(succ, pred) /\ succ' = succ /\ pred' = pred
    BY DEF LinksInv
  <2>4. \A c \in Places(program), g \in Function : IsCall(c, g)' /\ ToSet(succ'[c]) # {} =>
          Behind(c, g)' \in Places(program)' /\ ToSet(pred'[Behind(c, g)']) # {}
    BY <2>1, <2>2, <2>3 DEF Anchored
  <2>5. \A x, y \in Places(program) : (x = Exit(x[1]))' /\ y \in ToSet(succ'[x]) =>
          \E c \in Places(program) : IsCall(c, x[1])' /\ y = Behind(c, x[1])' /\ ToSet(succ'[c]) # {}
    BY <2>1, <2>3 DEF Anchored
  <2> QED
    BY <2>2, <2>4, <2>5 DEF Anchored
<1> QED
  BY <1>1, <1>2, <1>3, <1>4, <1>5

\* Nothing is linked at first.
LEMMA LinksInit == Init => LinksInv
<1> SUFFICES ASSUME Init PROVE LinksInv
  OBVIOUS
<1>1. program \in Programs /\ at = Null
      /\ pred = [x \in Places(program) |-> <<>>] /\ succ = [x \in Places(program) |-> <<>>]
      /\ unseen = program.functions
  BY DEF Init
<1>2. pred \in Links /\ succ \in Links
  BY <1>1 DEF Links
<1>3. \A y : Occurs(y, <<>>) = 0
  <2>1. \A y : {k \in DOMAIN <<>> : <<>>[k] = y} = {}
    OBVIOUS
  <2> QED
    BY <2>1, FS_EmptySet DEF Occurs
<1>4. Mirrored(succ, pred)
  BY <1>1, <1>3 DEF Mirrored
<1>5. Explained(succ)
  BY <1>1 DEF Explained, ToSet
<1>6. Balanced(succ, pred)
  BY <1>1, BodyFacts DEF Balanced
<1>7. unseen \in Seq(Function)
  BY <1>1, ProgramsAssumption DEF IsProgram
<1>8. Anchored(succ, pred)
  BY <1>1 DEF Anchored, ToSet
<1> QED
  BY <1>1, <1>2, <1>4, <1>5, <1>6, <1>7, <1>8 DEF LinksInv

\* The loop goes on to a place of the same function, or is through with it.
LEMMA NextBlockFacts ==
  ASSUME LinksInv, at # Null
  PROVE  at \in Places(program) /\ NextBlock \in Places(program) \cup {Null}
<1>1. at \in Places(program) /\ program \in Programs
  BY DEF LinksInv
<1>2. CASE at = Entry(at[1])
  BY <1>1, <1>2 DEF NextBlock
<1>3. CASE at # Entry(at[1])
  <2> DEFINE n == Cardinality(BlocksOf(program, at[1]))
  <2>1. at = <<at[1], at[2]>> /\ at[2] \in 0..(n - 1) /\ n \in Nat
        /\ BlocksOf(program, at[1]) = 0..(n - 1) /\ Entry(at[1]) = <<at[1], n - 1>>
    BY <1>1, PlaceFacts, BodyFacts DEF Entry
  <2> HIDE DEF n
  <2>2. at[2] # n - 1
    BY <1>3, <2>1
  <2>3. at[2] + 1 \in BlocksOf(program, at[1])
    BY <2>1, <2>2
  <2>4. NextBlock = <<at[1], at[2] + 1>>
    BY <1>3 DEF NextBlock
  <2> QED
    BY <1>1, <2>3, <2>4, PlaceFacts
<1> QED
  BY <1>1, <1>2, <1>3

LEMMA NextFunctionStep == LinksInv /\ NextFunction => LinksInv'
<1> SUFFICES ASSUME LinksInv, NextFunction PROVE LinksInv'
  OBVIOUS
<1>1. /\ unseen # <<>> /\ unseen' = Tail(unseen) /\ UNCHANGED <<program, pred, succ>>
      /\ at' = IF HasBody(program, Head(unseen)) THEN Exit(Head(unseen)) ELSE Null
  BY DEF NextFunction
<1>2. unseen \in Seq(Function) /\ program \in Programs
  BY DEF LinksInv
<1>3. Head(unseen) \in Function /\ unseen' \in Seq(Function)
  BY <1>1, <1>2
<1>4. at' \in Places(program) \cup {Null}
  BY <1>1, <1>2, <1>3, BodyFacts
<1>5. Places(program)' = Places(program)
  BY <1>1 DEF Places, BlocksOf
<1> QED
  BY <1>1, <1>3, <1>4, <1>5, ListsStay DEF LinksInv

LEMMA SkipBlockStep == LinksInv /\ SkipBlock => LinksInv'
<1> SUFFICES ASSUME LinksInv, SkipBlock PROVE LinksInv'
  OBVIOUS
<1>1. /\ at # Null /\ at' = NextBlock /\ unseen' = unseen /\ UNCHANGED <<program, pred, succ>>
  BY DEF SkipBlock
<1>2. at' \in Places(program) \cup {Null} /\ unseen' \in Seq(Function)
  BY <1>1, NextBlockFacts DEF LinksInv
<1>3. Places(program)' = Places(program)
  BY <1>1 DEF Places, BlocksOf
<1> QED
  BY <1>1, <1>2, <1>3, ListsStay DEF LinksInv

\* Both links of a call are noted at both ends: one leads into the callee, one out of it.
LEMMA LinkKeepsLists ==
  ASSUME LinksInv, at # Null, CalleeOf(at) # Null, FirstSuccessor(at) # Null, NEW g, g = CalleeOf(at),
         NEW to, to = Add(Add(succ, at, Entry(g)), Exit(g), Behind(at, g)),
         NEW from, from = Add(Add(pred, Entry(g), at), Behind(at, g), Exit(g))
  PROVE  to \in Links /\ from \in Links
         /\ Mirrored(to, from) /\ Explained(to) /\ Balanced(to, from) /\ Anchored(to, from)
<1> DEFINE into == Entry(g)
           out == Exit(g)
           behind == Behind(at, g)
<1>1. program \in Programs /\ at \in Places(program) /\ succ \in Links /\ pred \in Links
      /\ Mirrored(succ, pred) /\ Explained(succ) /\ Balanced(succ, pred)
      /\ Anchored(succ, pred)
  BY NextBlockFacts DEF LinksInv
<1>2. /\ g \in Function /\ HasBody(program, g) /\ behind \in Places(program)
      /\ \A f \in Function : HasBody(program, f) => behind # Entry(f)
      /\ \A f : at # Exit(f)
  BY <1>1, CallFacts
<1>3. /\ into \in Places(program) /\ out \in Places(program)
      /\ into[1] = g /\ out[1] = g
      /\ \A f : Entry(f) = into => f = g
      /\ \A f : Exit(f) = out => f = g
  BY <1>1, <1>2, BodyFacts DEF Entry, Exit
<1> HIDE DEF into, out, behind
<1>4. PICK to1 \in Links, from1 \in Links :
        /\ to1 = Add(succ, at, into) /\ from1 = Add(pred, into, at) /\ Mirrored(to1, from1)
  BY <1>1, <1>3, AddFacts, AddMirrored
<1>5. to = Add(to1, out, behind) /\ from = Add(from1, behind, out)
  BY <1>4 DEF into, out, behind
<1>6. to \in Links /\ from \in Links /\ Mirrored(to, from)
  BY <1>2, <1>3, <1>4, <1>5, AddFacts, AddMirrored
<1>7. \A u, v \in Places(program) :
        v \in ToSet(to[u]) <=> v \in ToSet(to1[u]) \/ (u = out /\ v = behind)
  <2>1. ASSUME NEW u \in Places(program), NEW v \in Places(program)
        PROVE  v \in ToSet(Add(to1, out, behind)[u]) <=>
                 v \in ToSet(to1[u]) \/ (u = out /\ v = behind)
    BY <1>2, <1>3, AddElements
  <2> QED
    BY <1>5, <2>1
<1>8. \A u \in Places(program) :
        Len(to[u]) = IF u = out THEN Len(to1[u]) + 1 ELSE Len(to1[u])
  <2>1. ASSUME NEW u \in Places(program)
        PROVE  Len(Add(to1, out, behind)[u]) = IF u = out THEN Len(to1[u]) + 1 ELSE Len(to1[u])
    BY <1>2, <1>3, AddLength
  <2> QED
    BY <1>5, <2>1
<1>9. \A u \in Places(program) : u # behind => Len(from[u]) = Len(from1[u])
  <2>1. ASSUME NEW u \in Places(program)
        PROVE  Len(Add(from1, behind, out)[u]) = IF u = behind THEN Len(from1[u]) + 1 ELSE Len(from1[u])
    BY <1>2, <1>3, AddLength
  <2> QED
    BY <1>5, <2>1
<1>10. Explained(to)
  <2> SUFFICES ASSUME NEW x \in Places(program), NEW y \in Places(program), y \in ToSet(to[x])
               PROVE  \/ IsCall(x, y[1]) /\ y = Entry(y[1])
                      \/ x = Exit(x[1]) /\ \E c \in Places(program) :
                                              IsCall(c, x[1]) /\ y = Behind(c, x[1])
    BY DEF Explained
  <2>1. y \in ToSet(to1[x]) \/ (x = out /\ y = behind)
    BY <1>7
  <2>2. y \in ToSet(to1[x]) => y \in ToSet(succ[x]) \/ (x = at /\ y = into)
    BY <1>1, <1>3, <1>4, AddElements
  <2>3. CASE y \in ToSet(succ[x])
    BY <1>1, <2>3 DEF Explained
  <2>4. CASE x = at /\ y = into
    BY <1>3, <2>4 DEF IsCall, into
  <2>5. CASE x = out /\ y = behind
    <3>1. IsCall(at, x[1]) /\ y = Behind(at, x[1]) /\ x = Exit(x[1])
      BY <1>3, <2>5 DEF IsCall, out, behind
    <3> QED
      BY <1>1, <3>1
  <2> QED
    BY <2>1, <2>2, <2>3, <2>4, <2>5
<1>11. Balanced(to, from)
  <2> SUFFICES ASSUME NEW f \in Function, HasBody(program, f)
               PROVE  Len(from[Entry(f)]) = Len(to[Exit(f)])
    BY DEF Balanced
  <2>1. Entry(f) \in Places(program) /\ Exit(f) \in Places(program)
    BY <1>1, BodyFacts
  <2>2. Len(from[Entry(f)]) = Len(from1[Entry(f)])
    BY <1>2, <2>1, <1>9
  <2>3. Len(to[Exit(f)]) = IF Exit(f) = out THEN Len(to1[Exit(f)]) + 1 ELSE Len(to1[Exit(f)])
    BY <2>1, <1>8
  <2>4. Len(to1[Exit(f)]) = Len(succ[Exit(f)])
    BY <1>1, <1>2, <1>3, <2>1, <1>4, AddLength
  <2>5. Len(from1[Entry(f)]) =
          IF Entry(f) = into THEN Len(pred[Entry(f)]) + 1 ELSE Len(pred[Entry(f)])
    BY <1>1, <1>3, <2>1, <1>4, AddLength
  <2>6. Len(pred[Entry(f)]) = Len(succ[Exit(f)])
    BY <1>1 DEF Balanced
  <2>7. Entry(f) = into <=> Exit(f) = out
    BY <1>3 DEF into, out
  <2> QED
    BY <2>2, <2>3, <2>4, <2>5, <2>6, <2>7
<1>12. /\ \A u, v \in Places(program) : v \in ToSet(succ[u]) => v \in ToSet(to[u])
       /\ into \in ToSet(to[at])
  BY <1>1, <1>3, <1>4, <1>7, AddElements
<1>13. /\ \A u, v \in Places(program) : v \in ToSet(pred[u]) => v \in ToSet(from[u])
       /\ out \in ToSet(from[behind])
  BY <1>1, <1>2, <1>3, <1>4, <1>5, AddElements
<1>14. /\ \A u, v \in Places(program) : v \in ToSet(to[u]) =>
            v \in ToSet(succ[u]) \/ u = at \/ (u = out /\ v = behind)
  BY <1>1, <1>3, <1>4, <1>7, AddElements
<1>15. \A links \in Links, u \in Places(program) : ToSet(links[u]) \subseteq Places(program)
  BY DEF Links, ToSet
<1>16. Anchored(to, from)
  <2>1. ASSUME NEW x \in Places(program), NEW y \in Places(program), x = Exit(x[1]), y \in ToSet(to[x])
        PROVE  \E c \in Places(program) : IsCall(c, x[1]) /\ y = Behind(c, x[1]) /\ ToSet(to[c]) # {}
    <3>1. CASE y \in ToSet(succ[x])
      <4>1. PICK c \in Places(program) : IsCall(c, x[1]) /\ y = Behind(c, x[1]) /\ ToSet(succ[c]) # {}
        BY <1>1, <2>1, <3>1 DEF Anchored
      <4> QED
        BY <1>1, <1>12, <1>15, <4>1
    <3>2. CASE x = out /\ y = behind
      <4>1. IsCall(at, x[1]) /\ y = Behind(at, x[1])
        BY <1>3, <3>2 DEF IsCall, behind
      <4> QED
        BY <1>1, <1>12, <4>1
    <3> QED
      BY <1>2, <1>14, <2>1, <3>1, <3>2
  <2>2. ASSUME NEW c \in Places(program), NEW f \in Function, IsCall(c, f), ToSet(to[c]) # {}
        PROVE  Behind(c, f) \in Places(program) /\ ToSet(from[Behind(c, f)]) # {}
    <3>1. c # out
      BY <1>1, <2>2, CallFacts DEF out, IsCall
    <3>2. CASE c = at
      <4>1. f = g
        BY <2>2, <3>2 DEF IsCall
      <4> QED
        BY <1>2, <1>13, <3>2, <4>1 DEF behind
    <3>3. CASE c # at
      <4>1. ToSet(succ[c]) # {}
        BY <1>6, <1>14, <1>15, <2>2, <3>1, <3>3
      <4>2. Behind(c, f) \in Places(program) /\ ToSet(pred[Behind(c, f)]) # {}
        BY <1>1, <2>2, <4>1 DEF Anchored
      <4> QED
        BY <1>1, <1>13, <1>15, <3>1, <4>2
    <3> QED
      BY <3>2, <3>3
  <2> QED
    BY <2>1, <2>2 DEF Anchored
<1> QED
  BY <1>6, <1>10, <1>11, <1>16

LEMMA LinkCallStep == LinksInv /\ LinkCall => LinksInv'
<1> SUFFICES ASSUME LinksInv, LinkCall PROVE LinksInv'
  OBVIOUS
<1> DEFINE g == CalleeOf(at)
           to == Add(Add(succ, at, Entry(g)), Exit(g), Behind(at, g))
           from == Add(Add(pred, Entry(g), at), Behind(at, g), Exit(g))
<1>1. /\ at # Null /\ CalleeOf(at) # Null /\ program' = program /\ unseen' = unseen
      /\ \/ UNCHANGED <<pred, succ, at>>
         \/ succ' = to /\ pred' = from /\ at' = NextBlock /\ FirstSuccessor(at) # Null
  BY DEF LinkCall
<1>2. Places(program)' = Places(program)
  BY <1>1 DEF Places, BlocksOf
<1>3. CASE UNCHANGED <<pred, succ, at>>
  BY <1>1, <1>2, <1>3, ListsStay DEF LinksInv
<1>4. CASE succ' = to /\ pred' = from /\ at' = NextBlock /\ FirstSuccessor(at) # Null
  <2>1. /\ to \in Links /\ from \in Links
        /\ Mirrored(to, from) /\ Explained(to) /\ Balanced(to, from) /\ Anchored(to, from)
    BY <1>1, <1>4, LinkKeepsLists
  <2> HIDE DEF to, from
  <2>2. pred' \in Links' /\ succ' \in Links' /\ Mirrored(succ, pred)'
    BY <1>2, <1>4, <2>1 DEF Links, Mirrored
  <2>3. Explained(succ)'
    <3>1. /\ \A f : Entry(f)' = Entry(f) /\ Exit(f)' = Exit(f)
          /\ \A x, f : Behind(x, f)' = Behind(x, f)
          /\ \A x, f : IsCall(x, f)' = IsCall(x, f)
      BY <1>1 DEF IsCall, CalleeOf, Entry, Exit, Behind, FirstSuccessor, BlocksOf, HasBody
    <3> QED
      BY <1>2, <1>4, <2>1, <3>1 DEF Explained
  <2>31. Anchored(succ, pred)'
    <3>1. /\ \A f : Exit(f)' = Exit(f)
          /\ \A x, f : Behind(x, f)' = Behind(x, f)
          /\ \A x, f : IsCall(x, f)' = IsCall(x, f)
      BY <1>1 DEF IsCall, CalleeOf, Exit, Behind, FirstSuccessor, BlocksOf, HasBody
    <3> QED
      BY <1>2, <1>4, <2>1, <3>1 DEF Anchored
  <2>4. Balanced(succ, pred)'
    BY <1>1, <1>4, <2>1 DEF Balanced, Entry, Exit, BlocksOf, HasBody
  <2>5. at' \in Places(program) \cup {Null} /\ unseen' \in Seq(Function)
        /\ program' \in Programs
    BY <1>1, <1>4, NextBlockFacts DEF LinksInv
  <2> QED
    BY <1>2, <2>2, <2>3, <2>31, <2>4, <2>5 DEF LinksInv
<1> QED
  BY <1>1, <1>3, <1>4

\* The search changes no link.
LEMMA SearchStep == LinksInv /\ (Ask \/ Follow \/ Return) => LinksInv'
<1> SUFFICES ASSUME LinksInv, Ask \/ Follow \/ Return PROVE LinksInv'
  OBVIOUS
<1>1. UNCHANGED <<program, pred, succ, at, unseen>>
  BY DEF Ask, Follow, Return, searching
<1>2. Places(program)' = Places(program)
  BY <1>1 DEF Places, BlocksOf
<1> QED
  BY <1>1, <1>2, ListsStay DEF LinksInv

LEMMA LinksStep == LinksInv /\ [Next]_vars => LinksInv'
<1>1. LinksInv /\ Next => LinksInv'
  BY NextFunctionStep, SkipBlockStep, LinkCallStep, SearchStep DEF Next
<1>2. LinksInv /\ UNCHANGED vars => LinksInv'
  <2> SUFFICES ASSUME LinksInv, UNCHANGED vars PROVE LinksInv'
    OBVIOUS
  <2>1. UNCHANGED <<program, pred, succ, at, unseen>>
    BY DEF vars
  <2>2. Places(program)' = Places(program)
    BY <2>1 DEF Places, BlocksOf
  <2> QED
    BY <2>1, <2>2, ListsStay DEF LinksInv
<1> QED
  BY <1>1, <1>2

-----------------------------------------------------------------------------
(* Directions, and walks that enter a function once.                       *)

\* Without the filter, what getPred and getSucc find: the links, or else the edges.
LEMMA NeighbourFacts ==
  ASSUME LinksInv, NEW x \in Places(program)
  PROVE  /\ SuccOf(x, FALSE) = IF ToSet(succ[x]) # {} THEN succ[x] ELSE IntraSucc(x)
         /\ PredOf(x, FALSE) = IF ToSet(pred[x]) # {} THEN pred[x] ELSE IntraPred(x)
<1>1. succ[x] \in Seq(Places(program)) /\ pred[x] \in Seq(Places(program))
  BY DEF LinksInv, Links
<1>2. \A s \in Seq(Places(program)) : s # <<>> <=> ToSet(s) # {}
  <2> TAKE s \in Seq(Places(program))
  <2>1. Len(s) \in Nat /\ DOMAIN s = 1..Len(s) /\ (s # <<>> => 1 \in 1..Len(s))
    OBVIOUS
  <2>2. ToSet(s) = {s[i] : i \in 1..Len(s)}
    BY <2>1 DEF ToSet
  <2>3. s = <<>> => ToSet(s) = {}
    BY DEF ToSet
  <2> QED
    BY <2>1, <2>2, <2>3
<1> QED
  BY <1>1, <1>2 DEF SuccOf, PredOf, Neighbours

\* A link is known at both ends.
LEMMA LinkBothWays ==
  ASSUME LinksInv, NEW x \in Places(program), NEW y \in Places(program)
  PROVE  y \in ToSet(succ[x]) <=> x \in ToSet(pred[y])
<1>1. succ[x] \in Seq(Places(program)) /\ pred[y] \in Seq(Places(program))
      /\ Occurs(y, succ[x]) = Occurs(x, pred[y])
  BY DEF LinksInv, Links, Mirrored
<1>2. ASSUME NEW s \in Seq(Places(program)), NEW z PROVE z \in ToSet(s) <=> Occurs(z, s) # 0
  <2>1. IsFiniteSet({k \in DOMAIN s : s[k] = z})
    BY OccursFinite
  <2>2. Occurs(z, s) = 0 <=> {k \in DOMAIN s : s[k] = z} = {}
    BY <2>1, FS_EmptySet DEF Occurs
  <2> QED
    BY <2>2 DEF ToSet
<1> QED
  BY <1>1, <1>2

LEMMA ForthAndBack ==
  ASSUME LinksInv, NEW x \in Places(program), NEW y \in Places(program),
         y \in ToSet(SuccOf(x, FALSE)), x \notin ToSet(PredOf(y, FALSE))
  PROVE  y \in ToSet(IntraSucc(x)) /\ \E c \in Places(program) \ {x} :
           CalleeOf(c) # Null /\ y = Behind(c, CalleeOf(c))
<1>1. program \in Programs /\ Explained(succ) /\ Anchored(succ, pred)
  BY DEF LinksInv
<1>2. y \notin ToSet(succ[x])
  BY NeighbourFacts, LinkBothWays
<1>3. y \in ToSet(IntraSucc(x)) /\ ToSet(succ[x]) = {}
  BY <1>2, NeighbourFacts
<1>4. x \in ToSet(IntraPred(y))
  BY <1>1, <1>3, IntraPredFacts
<1>5. ToSet(pred[y]) # {}
  BY <1>4, NeighbourFacts
<1>6. PICK z \in Places(program) : y \in ToSet(succ[z])
  <2>1. ToSet(pred[y]) \subseteq Places(program)
    BY DEF LinksInv, Links, ToSet
  <2> QED
    BY <1>5, <2>1, LinkBothWays
<1>7. ~(y = Entry(y[1]))
  BY <1>1, <1>3, IntraSuccFacts
<1>8. z = Exit(z[1])
  BY <1>1, <1>6, <1>7 DEF Explained
<1>9. PICK c \in Places(program) : IsCall(c, z[1]) /\ y = Behind(c, z[1]) /\ ToSet(succ[c]) # {}
  BY <1>1, <1>6, <1>8 DEF Anchored
<1>10. c # x
  BY <1>3, <1>9
<1> QED
  BY <1>3, <1>9, <1>10 DEF IsCall

LEMMA BackAndForth ==
  ASSUME LinksInv, NEW x \in Places(program), NEW y \in Places(program),
         x \in ToSet(PredOf(y, FALSE)), y \notin ToSet(SuccOf(x, FALSE))
  PROVE  y \in ToSet(IntraSucc(x)) /\ CalleeOf(x) # Null /\ y # Behind(x, CalleeOf(x))
<1>1. program \in Programs /\ Explained(succ) /\ Anchored(succ, pred)
  BY DEF LinksInv
<1>2. x \notin ToSet(pred[y])
  BY NeighbourFacts, LinkBothWays
<1>3. x \in ToSet(IntraPred(y)) /\ ToSet(pred[y]) = {}
  BY <1>2, NeighbourFacts
<1>4. y \in ToSet(IntraSucc(x))
  BY <1>1, <1>3, IntraPredFacts
<1>5. ToSet(succ[x]) # {}
  BY <1>4, NeighbourFacts
<1>6. PICK z \in Places(program) : z \in ToSet(succ[x])
  <2>1. ToSet(succ[x]) \subseteq Places(program)
    BY DEF LinksInv, Links, ToSet
  <2> QED
    BY <1>5, <2>1
<1>7. ~(x = Exit(x[1]))
  BY <1>1, <1>4, IntraSuccFacts
<1>8. IsCall(x, z[1]) /\ z[1] \in Function
  BY <1>1, <1>6, <1>7, PlaceFacts DEF Explained
<1>9. y # Behind(x, z[1])
  BY <1>1, <1>3, <1>5, <1>8 DEF Anchored
<1> QED
  BY <1>4, <1>8, <1>9 DEF IsCall

LEMMA LinksAgree == LinksInv => DirectionsAgree
<1> SUFFICES ASSUME LinksInv, NEW x \in Places(program), NEW y \in Places(program)
             PROVE  LET forth == y \in ToSet(SuccOf(x, FALSE))
                        back == x \in ToSet(PredOf(y, FALSE))
                    IN /\ forth /\ ~back => y \in ToSet(IntraSucc(x)) /\ \E c \in Places(program) \ {x} :
                                               CalleeOf(c) # Null /\ y = Behind(c, CalleeOf(c))
                       /\ back /\ ~forth => y \in ToSet(IntraSucc(x)) /\ CalleeOf(x) # Null
                                            /\ y # Behind(x, CalleeOf(x))
  BY DEF DirectionsAgree
<1> QED
  BY ForthAndBack, BackAndForth

\* A step of the filtered walk into a function goes to one that the function calls.
LEMMA EntersCallees ==
  ASSUME LinksInv, NEW F \in Function, NEW g \in Function, HasBody(program, g),
         NEW b \in BlocksOf(program, F), Entry(g) \in ToSet(SuccOf(<<F, b>>, TRUE))
  PROVE  g \in program.child[F]
<1> DEFINE x == <<F, b>>
           filter == {y \in ToSet(succ[x]) : y[1] \in (IF x = Exit(F) THEN Parents(F) ELSE program.child[F])}
<1>1. program \in Programs /\ x \in Places(program) /\ x[1] = F /\ Explained(succ)
      /\ succ[x] \in Seq(Places(program))
  BY DEF LinksInv, Links, Places
<1>2. Entry(g) \in Places(program) /\ Entry(g)[1] = g /\ \A f : Entry(g) # Exit(f)
  BY <1>1, BodyFacts DEF Entry
<1> HIDE DEF x
<1>3. Entry(g) \notin ToSet(IntraSucc(x))
  BY <1>1, <1>2, IntraSuccFacts
<1>4. Along(succ[x], x, Exit(F)) = Within(succ[x], filter)
  BY <1>1 DEF Along
<1>5. SuccOf(x, TRUE) = IF Within(succ[x], filter) # <<>> THEN Within(succ[x], filter) ELSE IntraSucc(x)
  BY <1>1, <1>4 DEF SuccOf, Neighbours
<1>6. Entry(g) \in ToSet(SuccOf(x, TRUE))
  BY DEF x
<1> HIDE DEF filter
<1>7. Entry(g) \in ToSet(Within(succ[x], filter))
  BY <1>3, <1>5, <1>6
<1>8. ToSet(Within(succ[x], filter)) = ToSet(succ[x]) \cap filter
  BY <1>1, WithinFacts
<1>9. Entry(g) \in ToSet(succ[x]) /\ Entry(g) \in filter
  BY <1>7, <1>8
<1>10. x # Exit(F)
  <2>1. SUFFICES ASSUME x = Exit(F) PROVE FALSE
    OBVIOUS
  <2>2. \A f : ~IsCall(x, f)
    BY <1>1, <2>1, CallFacts DEF IsCall
  <2>3. PICK c \in Places(program) : IsCall(c, F) /\ Entry(g) = Behind(c, F)
    BY <1>1, <1>2, <1>9, <2>2 DEF Explained
  <2> QED
    BY <1>1, <2>3, CallFacts DEF IsCall
<1> QED
  BY <1>2, <1>9, <1>10 DEF filter

\* What a function calls, directly or not: the least set closed under calls.
Closed(S) == \A g \in S : program.child[g] \subseteq S
Descendants(F) == {g \in Function : \A S \in SUBSET Function : program.child[F] \subseteq S /\ Closed(S) => g \in S}

\* What the callees call belongs to it; the function itself does not, as no cycle lies below
\* the top-level functions.
LEMMA DescendantFacts ==
  ASSUME program \in Programs, NEW F \in Function
  PROVE  /\ program.child[F] \subseteq Descendants(F) /\ Closed(Descendants(F))
         /\ F \in Below(program) => F \notin Descendants(F)
<1>1. /\ \A f \in Function : program.child[f] \subseteq Function
      /\ \A S \in (SUBSET Below(program)) \ {{}} : \E f \in S : program.child[f] \cap S = {}
  BY ProgramsAssumption DEF IsProgram
<1>2. \A f \in Function : program.child[f] \subseteq Descendants(f) /\ Closed(Descendants(f))
  BY <1>1 DEF Descendants, Closed
<1> DEFINE Back == {f \in Function : F \in Descendants(f)}
<1>3. ASSUME NEW f \in Back PROVE program.child[f] \cap Back # {} \/ F \in program.child[f]
  <2>1. SUFFICES ASSUME program.child[f] \cap Back = {}, F \notin program.child[f] PROVE FALSE
    OBVIOUS
  <2> DEFINE S == {g \in Function : g # F /\ F \notin Descendants(g)}
  <2>2. program.child[f] \subseteq S
    BY <1>1, <2>1
  <2>3. Closed(S)
    <3> SUFFICES ASSUME NEW g \in S, NEW h \in program.child[g] PROVE h \in S
      BY DEF Closed
    <3>1. h \in Descendants(g) /\ h \in Function
      BY <1>1, <1>2
    <3>2. Descendants(h) \subseteq Descendants(g)
      <4>1. program.child[h] \subseteq Descendants(g) /\ Closed(Descendants(g))
            /\ Descendants(g) \in SUBSET Function
        BY <1>2, <3>1 DEF Closed, Descendants
      <4> QED
        BY <4>1, <3>1 DEF Descendants
    <3> QED
      BY <3>1, <3>2
  <2>4. S \in SUBSET Function /\ F \notin S
    OBVIOUS
  <2> HIDE DEF S
  <2>5. F \notin Descendants(f)
    BY <2>2, <2>3, <2>4 DEF Descendants
  <2> QED
    BY <2>5
<1>4. \A f \in Below(program) : program.child[f] \subseteq Below(program)
  BY <1>1 DEF Below
<1>5. F \in Below(program) => F \notin Descendants(F)
  <2>1. SUFFICES ASSUME F \in Descendants(F), F \in Below(program) PROVE FALSE
    OBVIOUS
  <2> DEFINE Ring == Back \cap Below(program)
  <2>2. F \in Ring /\ Ring \in (SUBSET Below(program)) \ {{}}
    BY <2>1
  <2>3. ASSUME NEW f \in Ring PROVE program.child[f] \cap Ring # {}
    BY <1>3, <1>4, <2>2, <2>3
  <2> HIDE DEF Ring
  <2> QED
    BY <1>1, <2>2, <2>3
<1> QED
  BY <1>2, <1>5

\* What a walk enters from within a function, it enters through calls of the function.
LEMMA EnteredWithin ==
  ASSUME program \in Programs, NEW n \in Nat, NEW enters \in [Function -> SUBSET Function],
         \A F \in Function : enters[F] \subseteq program.child[F]
  PROVE  LET within[k \in 0..n] == IF k = 0 THEN enters
                            ELSE [F \in Function |-> within[k - 1][F] \cup UNION {enters[g] : g \in within[k - 1][F]}]
         IN \A F \in Below(program) : F \notin within[n][F]
<1> DEFINE A == [Function -> SUBSET Function]
           more(w) == [F \in Function |-> w[F] \cup UNION {enters[g] : g \in w[F]}]
           G == [k \in 1..n |-> [w \in A |-> more(w)]]
           step(f) == [k \in 0..n |-> IF k = 0 THEN enters ELSE more(f[k - 1])]
           within == CHOOSE f : f = step(f)
<1>1. \A w \in A : more(w) \in A
  OBVIOUS
<1> HIDE DEF more
<1>2. G \in Steps(n, A)
  BY <1>1 DEF Steps
<1>3. \A k \in 1..n, w \in A : G[k][w] = more(w)
  OBVIOUS
<1> HIDE DEF G
<1>4. Iterates(n, A, enters, G)
  BY <1>2, Recursion
<1>5. PICK f \in [0..n -> A] : f[0] = enters /\ \A k \in 1..n : f[k] = G[k][f[k - 1]]
  BY <1>4 DEF Iterates, IsIterated
<1>6. \A k \in 0..n : k # 0 => k \in 1..n /\ k - 1 \in 0..n
  OBVIOUS
<1>7. \A k \in 0..n : f[k] = IF k = 0 THEN enters ELSE more(f[k - 1])
  BY <1>3, <1>5, <1>6
<1> HIDE DEF A
<1>8. f = step(f)
  <2>1. f = [k \in 0..n |-> f[k]]
    BY <1>5
  <2> QED
    BY <1>7, <2>1
<1>9. within = step(within)
  BY <1>8
<1> HIDE DEF within
<1>10. \A k \in 0..n : within[k] = IF k = 0 THEN enters ELSE more(within[k - 1])
  BY <1>9
<1> DEFINE P == {k \in 0..n : within[k] \in A /\ \A F \in Function : within[k][F] \subseteq Descendants(F)}
<1>11. 0 \in P
  <2>1. within[0] = enters
    BY <1>10
  <2> QED
    BY <2>1, DescendantFacts DEF A
<1>12. ASSUME NEW k \in 1..n, k - 1 \in P PROVE k \in P
  <2> DEFINE w == within[k - 1]
  <2>1. k \in 0..n /\ within[k] = more(w)
    BY <1>10
  <2>2. w \in A /\ \A F \in Function : w[F] \subseteq Descendants(F)
    BY <1>12
  <2> HIDE DEF w
  <2>3. ASSUME NEW F \in Function PROVE more(w)[F] \subseteq Descendants(F)
    <3>1. more(w)[F] = w[F] \cup UNION {enters[g] : g \in w[F]}
      BY DEF more
    <3>2. \A g \in w[F] : enters[g] \subseteq program.child[g] /\ g \in Descendants(F)
      BY <2>2 DEF A
    <3>3. \A g \in w[F] : enters[g] \subseteq Descendants(F)
      BY <3>2, DescendantFacts DEF Closed
    <3> QED
      BY <2>2, <3>1, <3>3
  <2> QED
    BY <1>1, <2>1, <2>2, <2>3
<1> HIDE DEF P
<1>13. 0..n \subseteq P
  BY <1>11, <1>12, BoundedInduction
<1>130. n \in P
  BY <1>13
<1>14. \A F \in Below(program) : F \notin within[n][F]
  BY <1>130, DescendantFacts DEF P, Below
<1> QED
  BY <1>14 DEF within, more

LEMMA LinksEnterOnce == LinksInv => EntersOnce
<1> SUFFICES ASSUME LinksInv PROVE EntersOnce
  OBVIOUS
<1> DEFINE into(F) == {g \in Function : HasBody(program, g) /\
                         \E b \in BlocksOf(program, F) : Entry(g) \in ToSet(SuccOf(<<F, b>>, TRUE))}
           enters == [F \in Function |-> into(F)]
           n == Cardinality(Function)
           within[k \in 0..n] == IF k = 0 THEN enters
                            ELSE [F \in Function |-> within[k - 1][F] \cup UNION {enters[g] : g \in within[k - 1][F]}]
<1>1. program \in Programs /\ n \in Nat
  BY ProgramsAssumption, FS_CardinalityType DEF LinksInv
<1>2. \A F \in Function : into(F) \subseteq program.child[F] /\ into(F) \subseteq Function
  BY EntersCallees
<1>3. \A x \in Places(program) : IntraSucc(x) # <<>> => SuccOf(x, TRUE) # <<>>
  BY DEF SuccOf, Neighbours
<1>4. enters \in [Function -> SUBSET Function] /\ \A F \in Function : enters[F] \subseteq program.child[F]
  BY <1>2
<1>5. \A F \in Below(program) : F \notin within[n][F]
  <2> HIDE DEF enters, n
  <2> QED
    BY <1>1, <1>4, EnteredWithin
<1> QED
  BY <1>3, <1>5 DEF EntersOnce

-----------------------------------------------------------------------------
(* What the manager keeps in memory.                                       *)

\* All units fit in memory.
Small == Cardinality(UnitsOf(Function)) <= max_size

Memories == [units : Seq(Unit), cfgs : SUBSET Function, built : [Function -> Nat]]

\* The units in memory differ, those of the cached CFGs are among them, and where all units
\* fit each CFG is built once.
Memory(mem) ==
  /\ mem \in Memories
  /\ Distinct(mem.units) /\ Len(mem.units) <= max_size
  /\ ToSet(mem.units) \subseteq UnitsOf(Function)
  /\ \A f \in mem.cfgs : program.unit[f] \in ToSet(mem.units)
  /\ Small => \A f \in Function : mem.built[f] = IF f \in mem.cfgs THEN 1 ELSE 0

\* The unit u is in memory, and all that were used after it are of U.
RecentIn(s, u, U) == \E k \in 1..(Len(s) + 1) : u \in From(s, k) /\ From(s, k) \subseteq U
Recent(mem, u, U) == RecentIn(mem.units, u, U)

\* The units that the constructor asks for while it is in F.
Together(F) == UnitsOf({F} \cup CalleesOf(F))

\* The set of units of some functions is finite, and no larger than that of all.
LEMMA UnitFacts ==
  ASSUME program \in Programs, NEW fs \in SUBSET Function
  PROVE  /\ IsFiniteSet(UnitsOf(fs)) /\ Cardinality(UnitsOf(fs)) \in Nat
         /\ UnitsOf(fs) \subseteq Unit /\ UnitsOf(fs) \subseteq UnitsOf(Function)
         /\ Cardinality(UnitsOf(fs)) <= Cardinality(UnitsOf(Function))
         /\ Cardinality(UnitsOf(Function)) \in Nat /\ IsFiniteSet(UnitsOf(Function))
         /\ \A f \in fs : program.unit[f] \in UnitsOf(fs)
<1> DEFINE all == UnitsOf(Function)
           h == [f \in Function |-> program.unit[f]]
<1>1. IsFiniteSet(Function) /\ \A f \in Function : program.unit[f] \in Unit
  BY ProgramsAssumption DEF IsProgram
<1>2. h \in Surjection(Function, all)
  BY DEF Surjection, UnitsOf
<1>3. IsFiniteSet(all)
  BY <1>1, <1>2, FS_Surjection
<1>4. UnitsOf(fs) \in SUBSET all /\ UnitsOf(fs) \subseteq Unit /\ \A f \in fs : program.unit[f] \in UnitsOf(fs)
  BY <1>1 DEF UnitsOf
<1> HIDE DEF all
<1>5. IsFiniteSet(UnitsOf(fs)) /\ Cardinality(UnitsOf(fs)) <= Cardinality(all)
  BY <1>3, <1>4, FS_Subset
<1>6. Cardinality(all) \in Nat /\ Cardinality(UnitsOf(fs)) \in Nat
  BY <1>3, <1>5, FS_CardinalityType
<1> QED
  BY <1>3, <1>4, <1>5, <1>6 DEF all

\* The units that are left, of those in s, when u comes in and there is room for m.
Kept(s, u, m) ==
  LET others == Within(s, Unit \ {u})
  IN IF Contains(s, u) \/ Len(others) < m THEN others
     ELSE SubSeq(others, Len(others) + 2 - m, Len(others))

\* Making room for a unit drops units from the front, and only as many as it has to: those
\* that were used after a unit that is to stay do stay, if they fit in memory with it.
LEMMA KeptFacts ==
  ASSUME NEW s \in Seq(Unit), Distinct(s), NEW m \in Nat \ {0}, Len(s) <= m, NEW u \in Unit,
         NEW kept, kept = Kept(s, u, m)
  PROVE  /\ kept \in Seq(Unit) /\ Distinct(kept) /\ Len(kept) < m
         /\ ToSet(kept) \subseteq ToSet(s) \ {u}
         /\ Cardinality(ToSet(s) \cup {u}) <= m => ToSet(kept) = ToSet(s) \ {u}
         /\ \A U \in SUBSET Unit : \A v \in U \ {u} :
              IsFiniteSet(U) /\ Cardinality(U) <= m /\ u \in U /\ RecentIn(s, v, U) => RecentIn(kept, v, U)
<1> DEFINE others == Within(s, Unit \ {u})
           n == Len(others)
           first == n + 2 - m
<1>0. kept = IF Contains(s, u) \/ n < m THEN others ELSE SubSeq(others, first, n)
  BY DEF Kept
<1>1. /\ others \in Seq(Unit) /\ ToSet(others) = ToSet(s) \cap (Unit \ {u})
      /\ Distinct(others)
      /\ \A k \in 1..Len(s) : \E j \in 1..(n + 1) : From(others, j) = From(s, k) \cap (Unit \ {u})
  <2> DEFINE w == Within(s, Unit \ {u})
  <2>1. w \in Seq(Unit) /\ ToSet(w) = ToSet(s) \cap (Unit \ {u})
    BY WithinFacts
  <2>2. /\ Distinct(w)
        /\ \A k \in 1..Len(s) : \E j \in 1..(Len(w) + 1) : From(w, j) = From(s, k) \cap (Unit \ {u})
    BY WithinOrder
  <2> HIDE DEF w
  <2> QED
    BY <2>1, <2>2 DEF w
<1> HIDE DEF others
<1>2. /\ Len(s) \in Nat /\ DOMAIN s = 1..Len(s) /\ (\A k \in 1..Len(s) : s[k] \in Unit) /\ n \in Nat
  BY <1>1, SequenceFacts
<1>3. ToSet(others) = ToSet(s) \ {u}
  BY <1>1, <1>2 DEF ToSet
<1>4. /\ IsFiniteSet(ToSet(s)) /\ Cardinality(ToSet(s)) = Len(s)
      /\ IsFiniteSet(ToSet(others)) /\ Cardinality(ToSet(others)) = n
  BY <1>1, DistinctSet
<1>5. n = IF u \in ToSet(s) THEN Len(s) - 1 ELSE Len(s)
  <2>1. Cardinality(ToSet(s) \ {u}) = IF u \in ToSet(s) THEN Cardinality(ToSet(s)) - 1 ELSE Cardinality(ToSet(s))
    BY <1>4, FS_RemoveElement
  <2> QED
    BY <1>3, <1>4, <2>1
<1>6. Contains(s, u) <=> u \in ToSet(s)
  BY <1>2 DEF Contains, ToSet
<1> HIDE DEF n
<1>7. CASE Contains(s, u) \/ n < m
  <2>1. kept = others
    BY <1>0, <1>7
  <2>2. n < m
    <3>1. CASE n < m
      BY <3>1
    <3>2. CASE Contains(s, u)
      <4>1. n = Len(s) - 1
        BY <1>5, <1>6, <3>2
      <4> QED
        BY <1>2, <4>1
    <3> QED
      BY <1>7, <3>1, <3>2
  <2>3. ASSUME NEW U \in SUBSET Unit, NEW v \in U \ {u}, RecentIn(s, v, U)
        PROVE  RecentIn(kept, v, U)
    <3>1. PICK k \in 1..(Len(s) + 1) : v \in From(s, k) /\ From(s, k) \subseteq U
      BY <2>3 DEF RecentIn
    <3>2. k \in 1..Len(s)
      BY <1>2, <3>1 DEF From
    <3>3. PICK j \in 1..(n + 1) : From(others, j) = From(s, k) \cap (Unit \ {u})
      BY <1>1, <3>2
    <3> QED
      BY <2>1, <3>1, <3>3 DEF RecentIn, n
  <2> QED
    BY <1>1, <1>3, <2>1, <2>2, <2>3 DEF n
<1>8. CASE ~(Contains(s, u) \/ n < m)
  <2>1. kept = SubSeq(others, first, n)
    BY <1>0, <1>8
  <2>2. first \in 1..(n + 1) /\ n + 1 - first = m - 1 /\ m - 1 < m
    BY <1>2, <1>8
  <2> HIDE DEF first
  <2>3. /\ kept \in Seq(Unit) /\ Len(kept) = n + 1 - first /\ ToSet(kept) = From(others, first)
        /\ Distinct(kept)
        /\ \A k \in first..(n + 1) : From(kept, k + 1 - first) = From(others, k)
    <3>1. first \in 1..(Len(others) + 1) /\ kept = SubSeq(others, first, Len(others)) /\ n = Len(others)
      BY <2>1, <2>2 DEF n
    <3>2. ASSUME NEW q \in Seq(Unit), Distinct(q), NEW l \in 1..(Len(q) + 1)
          PROVE  LET r == SubSeq(q, l, Len(q)) IN
                 /\ r \in Seq(Unit) /\ Len(r) = Len(q) + 1 - l
                 /\ ToSet(r) = From(q, l) /\ Distinct(r)
                 /\ \A k \in l..(Len(q) + 1) : From(r, k + 1 - l) = From(q, k)
      BY <3>2, SuffixFacts
    <3>3. others \in Seq(Unit) /\ Distinct(others)
      BY <1>1
    <3>4. LET r == SubSeq(others, first, Len(others)) IN
          /\ r \in Seq(Unit) /\ Len(r) = Len(others) + 1 - first
          /\ ToSet(r) = From(others, first) /\ Distinct(r)
          /\ \A k \in first..(Len(others) + 1) : From(r, k + 1 - first) = From(others, k)
      BY <3>1, <3>2, <3>3
    <3> QED
      BY <3>1, <3>4
  <2>4. From(others, first) \subseteq ToSet(others)
    <3>1. DOMAIN others = 1..n /\ \A i \in first..n : i \in 1..n
      BY <1>1, <1>2, <2>2 DEF n
    <3> QED
      BY <3>1 DEF From, ToSet, n
  <2>5. ~(Cardinality(ToSet(s) \cup {u}) <= m)
    <3>1. Cardinality(ToSet(s) \cup {u}) = Len(s) + 1
      BY <1>4, <1>6, <1>8, FS_AddElement
    <3>2. n = Len(s)
      BY <1>5, <1>6, <1>8
    <3> QED
      BY <1>2, <1>8, <3>1, <3>2
  <2>6. ASSUME NEW U \in SUBSET Unit, NEW v \in U \ {u}, IsFiniteSet(U), Cardinality(U) <= m,
               u \in U, RecentIn(s, v, U)
        PROVE  RecentIn(kept, v, U)
    <3>1. PICK k \in 1..(Len(s) + 1) : v \in From(s, k) /\ From(s, k) \subseteq U
      BY <2>6 DEF RecentIn
    <3>2. k \in 1..Len(s)
      BY <1>2, <3>1 DEF From
    <3>3. PICK j \in 1..(n + 1) : From(others, j) = From(s, k) \cap (Unit \ {u})
      BY <1>1, <3>2
    <3>4. From(others, j) \in SUBSET (U \ {u})
      BY <3>1, <3>3
    <3>5. IsFiniteSet(U \ {u}) /\ Cardinality(U \ {u}) = Cardinality(U) - 1
      BY <2>6, FS_RemoveElement
    <3>6. Cardinality(From(others, j)) = n + 1 - j
      BY <1>1, DistinctCardinality DEF n
    <3>7. Cardinality(From(others, j)) <= Cardinality(U \ {u})
      BY <3>4, <3>5, FS_Subset
    <3>8. Cardinality(U) \in Nat
      BY <2>6, FS_CardinalityType
    <3>9. j \in first..(n + 1) /\ j + 1 - first \in 1..(m - 1 + 1)
      BY <1>2, <2>2, <2>6, <3>5, <3>6, <3>7, <3>8 DEF first
    <3>10. From(kept, j + 1 - first) = From(others, j)
      BY <2>3, <3>9
    <3>11. j + 1 - first \in 1..(Len(kept) + 1)
      BY <2>2, <2>3, <3>9
    <3> QED
      BY <3>1, <3>3, <3>10, <3>11 DEF RecentIn
  <2> QED
    BY <1>3, <2>2, <2>3, <2>4, <2>5, <2>6
<1> QED
  BY <1>7, <1>8

\* What is left of memory when a unit comes in.
LEMMA LoadFacts ==
  ASSUME program \in Programs, max_size \in Nat \ {0}, NEW mem, Memory(mem),
         NEW f \in Function, NEW new, new = Load(mem, program.unit[f])
  PROVE  /\ Memory(new) /\ new.built = mem.built /\ program.unit[f] \in ToSet(new.units)
         /\ new.cfgs = {g \in mem.cfgs : program.unit[g] \in ToSet(new.units)}
         /\ Small => new.cfgs = mem.cfgs
         /\ \A U \in SUBSET Unit : \A v \in U :
              /\ IsFiniteSet(U) /\ Cardinality(U) <= max_size /\ program.unit[f] \in U
              /\ v = program.unit[f] \/ Recent(mem, v, U)
              => Recent(new, v, U)
<1> DEFINE u == program.unit[f]
           s == mem.units
           kept == Kept(s, u, max_size)
           all == UnitsOf(Function)
           left == {g \in mem.cfgs : program.unit[g] \in ToSet(kept) \cup {u}}
<1>1. /\ u \in Unit /\ u \in all /\ all \subseteq Unit
      /\ \A g \in Function : program.unit[g] \in all
      /\ IsFiniteSet(all) /\ Cardinality(all) \in Nat
  BY UnitFacts
<1>2. /\ mem \in Memories /\ s \in Seq(Unit) /\ Distinct(s) /\ Len(s) <= max_size
      /\ ToSet(s) \subseteq all /\ mem.cfgs \subseteq Function
      /\ \A g \in mem.cfgs : program.unit[g] \in ToSet(s)
  BY DEF Memory, Memories
<1>3. new = [mem EXCEPT !.units = Append(kept, u), !.cfgs = left]
  BY DEF Load, Kept
<1> HIDE DEF u, all
<1>4. /\ kept \in Seq(Unit) /\ Distinct(kept) /\ Len(kept) < max_size
      /\ ToSet(kept) \subseteq ToSet(s) \ {u}
      /\ Cardinality(ToSet(s) \cup {u}) <= max_size => ToSet(kept) = ToSet(s) \ {u}
      /\ \A U \in SUBSET Unit : \A v \in U \ {u} :
           IsFiniteSet(U) /\ Cardinality(U) <= max_size /\ u \in U /\ RecentIn(s, v, U) => RecentIn(kept, v, U)
  <2> HIDE DEF s, kept
  <2>1. kept = Kept(s, u, max_size)
    BY DEF kept
  <2> QED
    BY <1>1, <1>2, <2>1, KeptFacts
<1> HIDE DEF kept, s, left
<1>5. new \in Memories /\ new.units = Append(kept, u) /\ new.cfgs = left /\ new.built = mem.built
  <2>1. Append(kept, u) \in Seq(Unit) /\ left \in SUBSET Function
    BY <1>1, <1>2, <1>4 DEF left
  <2> QED
    BY <1>2, <1>3, <2>1 DEF Memories
<1>6. /\ Append(kept, u) \in Seq(Unit) /\ Len(Append(kept, u)) = Len(kept) + 1 /\ Len(kept) \in Nat
      /\ ToSet(Append(kept, u)) = ToSet(kept) \cup {u}
  BY <1>1, <1>4, AppendFacts
<1>7. Distinct(new.units)
  BY <1>1, <1>4, <1>5, AppendDistinct
<1>8. Len(new.units) <= max_size
  BY <1>4, <1>5, <1>6
<1>9. new.cfgs = {g \in mem.cfgs : program.unit[g] \in ToSet(new.units)}
  BY <1>5, <1>6 DEF left
<1>10. Small => new.cfgs = mem.cfgs
  <2>1. SUFFICES ASSUME Small PROVE new.cfgs = mem.cfgs
    OBVIOUS
  <2>2. ToSet(s) \cup {u} \in SUBSET all
    BY <1>1, <1>2
  <2>3. IsFiniteSet(ToSet(s) \cup {u}) /\ Cardinality(ToSet(s) \cup {u}) <= Cardinality(all)
    BY <1>1, <2>2, FS_Subset
  <2>4. Cardinality(ToSet(s) \cup {u}) <= max_size
    <3>1. Cardinality(ToSet(s) \cup {u}) \in Nat /\ Cardinality(all) <= max_size
      BY <2>1, <2>3, FS_CardinalityType DEF Small, all
    <3> QED
      BY <1>1, <2>3, <3>1
  <2>5. ToSet(kept) \cup {u} = ToSet(s) \cup {u}
    BY <1>4, <2>4
  <2> QED
    BY <1>2, <1>5, <2>5 DEF left
<1>11. ToSet(new.units) \subseteq all
  BY <1>1, <1>2, <1>4, <1>5, <1>6
<1>12. Small => \A g \in Function : new.built[g] = IF g \in new.cfgs THEN 1 ELSE 0
  BY <1>5, <1>10 DEF Memory
<1>13. Memory(new)
  BY <1>5, <1>7, <1>8, <1>9, <1>11, <1>12 DEF Memory, all
<1>14. ASSUME NEW U \in SUBSET Unit, NEW v \in U, IsFiniteSet(U), Cardinality(U) <= max_size,
              u \in U, v = u \/ Recent(mem, v, U)
       PROVE  Recent(new, v, U)
  <2>1. CASE v = u
    <3> DEFINE k == Len(kept) + 1
    <3>1. k \in 1..(Len(kept) + 1) /\ From(kept, k) = {}
      BY <1>6 DEF From
    <3>2. From(Append(kept, u), k) = {u} /\ k \in 1..(Len(Append(kept, u)) + 1)
      BY <1>1, <1>4, <1>6, <3>1, AppendFrom
    <3> QED
      BY <1>5, <1>14, <2>1, <3>2 DEF Recent, RecentIn
  <2>2. CASE v # u
    <3>1. RecentIn(kept, v, U)
      BY <1>4, <1>14, <2>2 DEF Recent, s
    <3>2. PICK k \in 1..(Len(kept) + 1) : v \in From(kept, k) /\ From(kept, k) \subseteq U
      BY <3>1 DEF RecentIn
    <3>3. From(Append(kept, u), k) = From(kept, k) \cup {u} /\ k \in 1..(Len(Append(kept, u)) + 1)
      BY <1>1, <1>4, <1>6, <3>2, AppendFrom
    <3> QED
      BY <1>5, <1>14, <3>2, <3>3 DEF Recent, RecentIn
  <2> QED
    BY <2>1, <2>2
<1>15. u \in ToSet(new.units)
  BY <1>5, <1>6
<1> QED
  BY <1>5, <1>9, <1>10, <1>13, <1>14, <1>15 DEF u

\* A unit that was used recently is in memory.
LEMMA RecentInMemory ==
  ASSUME NEW mem, mem.units \in Seq(Unit), NEW u, NEW U, Recent(mem, u, U)
  PROVE  u \in ToSet(mem.units)
<1> DEFINE s == mem.units
<1>1. PICK k \in 1..(Len(s) + 1) : u \in From(s, k)
  BY DEF Recent, RecentIn
<1>2. DOMAIN s = 1..Len(s) /\ Len(s) \in Nat
  OBVIOUS
<1> HIDE DEF s
<1>3. \A i \in k..Len(s) : i \in DOMAIN s
  BY <1>2
<1>4. u \in ToSet(s)
  BY <1>1, <1>3 DEF From, ToSet
<1> QED
  BY <1>4 DEF s

\* After getCFG the CFG is there, and of the others those whose unit has stayed.
LEMMA GetFacts ==
  ASSUME program \in Programs, max_size \in Nat \ {0}, NEW mem, Memory(mem),
         NEW f \in Function, NEW new, new = getCFG(mem, f)
  PROVE  /\ Memory(new) /\ f \in new.cfgs /\ (Small => mem.cfgs \subseteq new.cfgs)
         /\ \A U \in SUBSET Unit : \A g \in mem.cfgs :
              /\ IsFiniteSet(U) /\ Cardinality(U) <= max_size /\ {program.unit[f], program.unit[g]} \subseteq U
              /\ Recent(mem, program.unit[g], U)
              => g \in new.cfgs /\ Recent(new, program.unit[g], U)
<1>1. CASE f \in mem.cfgs
  BY <1>1 DEF getCFG
<1>2. CASE f \notin mem.cfgs
  <2> DEFINE m == Load(mem, program.unit[f])
  <2>1. /\ Memory(m) /\ m.built = mem.built /\ program.unit[f] \in ToSet(m.units)
        /\ m.cfgs = {g \in mem.cfgs : program.unit[g] \in ToSet(m.units)}
        /\ Small => m.cfgs = mem.cfgs
        /\ \A U \in SUBSET Unit : \A v \in U :
             /\ IsFiniteSet(U) /\ Cardinality(U) <= max_size /\ program.unit[f] \in U
             /\ v = program.unit[f] \/ Recent(mem, v, U)
             => Recent(m, v, U)
    BY LoadFacts
  <2>2. new = [m EXCEPT !.cfgs = @ \cup {f}, !.built[f] = @ + 1]
    BY <1>2 DEF getCFG
  <2> HIDE DEF m
  <2>3. m \in Memories /\ m.built \in [Function -> Nat]
    BY <2>1 DEF Memory, Memories
  <2>4. /\ new.units = m.units /\ new.cfgs = m.cfgs \cup {f}
        /\ new.built = [m.built EXCEPT ![f] = @ + 1]
        /\ new \in Memories
    <3> DEFINE b == [m.built EXCEPT ![f] = @ + 1]
               c == m.cfgs \cup {f}
    <3>1. new = [m EXCEPT !.cfgs = c, !.built = b]
      BY <2>2, <2>3 DEF Memories
    <3>2. b \in [Function -> Nat] /\ c \in SUBSET Function
      BY <2>3 DEF Memories
    <3> HIDE DEF b, c
    <3>3. new.units = m.units /\ new.cfgs = c /\ new.built = b /\ new \in Memories
      BY <2>3, <3>1, <3>2 DEF Memories
    <3> QED
      BY <3>3 DEF b, c
  <2>5. Small => \A g \in Function : new.built[g] = IF g \in new.cfgs THEN 1 ELSE 0
    <3>1. SUFFICES ASSUME Small, NEW g \in Function PROVE new.built[g] = IF g \in new.cfgs THEN 1 ELSE 0
      OBVIOUS
    <3>2. m.cfgs = mem.cfgs /\ m.built[g] = IF g \in m.cfgs THEN 1 ELSE 0
      BY <2>1, <3>1 DEF Memory
    <3>3. new.built[g] = IF g = f THEN m.built[g] + 1 ELSE m.built[g]
      BY <2>3, <2>4
    <3>4. CASE g = f
      <4>1. m.built[g] = 0
        BY <1>2, <3>2, <3>4
      <4> QED
        BY <2>4, <3>3, <3>4, <4>1
    <3>5. CASE g # f
      BY <2>4, <3>2, <3>3, <3>5
    <3> QED
      BY <3>4, <3>5
  <2>6. Memory(new)
    BY <2>1, <2>4, <2>5 DEF Memory
  <2>7. ASSUME NEW U \in SUBSET Unit, NEW g \in mem.cfgs, IsFiniteSet(U), Cardinality(U) <= max_size,
               {program.unit[f], program.unit[g]} \subseteq U, Recent(mem, program.unit[g], U)
        PROVE  g \in new.cfgs /\ Recent(new, program.unit[g], U)
    <3>1. Recent(m, program.unit[g], U)
      BY <2>1, <2>7
    <3>2. m.units \in Seq(Unit)
      BY <2>3 DEF Memories
    <3>3. program.unit[g] \in ToSet(m.units)
      BY <3>1, <3>2, RecentInMemory
    <3> QED
      BY <2>1, <2>4, <3>1, <3>3 DEF Recent
  <2> QED
    BY <2>1, <2>4, <2>6, <2>7
<1> QED
  BY <1>1, <1>2

-----------------------------------------------------------------------------
(* Who holds on to blocks.                                                 *)

\* Where all units fit, a pointer is to a block of the one CFG that was built.
Pointer(mem, ptr) ==
  \/ ptr = Null
  \/ ptr \in BlockPointer /\ (Small => ptr.place[1] \in mem.cfgs /\ ptr.cfg = 1)

Todo == Seq(BlockPointer \cup {Null})
Call == [path : Seq(Places(program)), len : 0..(Word - 1), todo : Todo]

\* The calls of the search, and what they have still to follow.
Calls(mem, cs) ==
  /\ cs \in Seq(Call)
  /\ \A k \in 1..Len(cs) : \A j \in 1..Len(cs[k].todo) : Pointer(mem, cs[k].todo[j])

\* The constructor has the CFG of the function that it is in, and all that was used since
\* belongs to the function and what it calls.
Held(mem, x, fl) ==
  x # Null /\ fl = "none" =>
    /\ x[1] \in mem.cfgs
    /\ Cardinality(Together(x[1])) <= max_size => Recent(mem, program.unit[x[1]], Together(x[1]))

Explanation(x, r, fl) ==
  /\ fl = "freed" /\ r = Null => Cardinality(Together(x[1])) > max_size
  /\ fl = "freed" => ~Small
  /\ fl = "null successor" => \E y \in Places(program) : CalleeOf(y) # Null /\ FirstSuccessor(y) = Null
  /\ fl = "out_of_range" => \E F \in Function \ program.node : CalleesOf(F) # {}

Sound(mem, x, r, cs, rs, fl) ==
  /\ Memory(mem) /\ Held(mem, x, fl) /\ Explanation(x, r, fl)
  /\ r # Null => x = Null
  /\ cs # <<>> => r # Null
  /\ Calls(mem, cs) /\ rs \in Seq(Seq(Places(program)))

MemoryInv == max_size \in Nat \ {0} /\ Sound(memory, at, request, calls, res, fault)

\* The conditions speak of a state with the same program in the same words.
LEMMA MemoryNext ==
  ASSUME MemoryInv, program' = program, max_size' = max_size,
         NEW mem, mem = memory', NEW x, x = at', NEW r, r = request', NEW cs, cs = calls',
         NEW rs, rs = res', NEW fl, fl = fault', Sound(mem, x, r, cs, rs, fl)
  PROVE  MemoryInv'
<1>1. /\ Places(program)' = Places(program) /\ \A fs : UnitsOf(fs)' = UnitsOf(fs)
      /\ \A y : CalleeOf(y)' = CalleeOf(y) /\ FirstSuccessor(y)' = FirstSuccessor(y)
  BY DEF Places, BlocksOf, UnitsOf, CalleeOf, FirstSuccessor, HasBody
<1>2. Small' <=> Small
  BY <1>1 DEF Small
<1>3. \A F : CalleesOf(F)' = CalleesOf(F)
  BY <1>1 DEF CalleesOf, BlocksOf
<1>4. \A F : Together(F)' = Together(F)
  BY <1>1, <1>3 DEF Together, UnitsOf
<1>5. BlockPointer' = BlockPointer
  BY <1>1 DEF BlockPointer
<1>6. Memory(memory)'
  <2>1. Memory(mem) /\ mem = memory'
    BY DEF Sound
  <2> QED
    BY <1>1, <1>2, <2>1 DEF Memory, Memories
<1>7. Held(memory, at, fault)'
  <2>1. Held(mem, x, fl)
    BY DEF Sound
  <2> QED
    BY <1>4, <2>1 DEF Held, Recent, RecentIn
<1>8. Explanation(at, request, fault)'
  <2>1. Explanation(x, r, fl)
    BY DEF Sound
  <2> QED
    BY <1>1, <1>2, <1>3, <1>4, <2>1 DEF Explanation
<1>9. Calls(memory, calls)'
  <2>1. Calls(mem, cs)
    BY DEF Sound
  <2>2. Call' = Call
    BY <1>1, <1>5 DEF Call, Todo
  <2>3. \A ptr : (ptr = Null \/ (ptr \in BlockPointer /\ (Small => ptr.place[1] \in mem.cfgs /\ ptr.cfg = 1)))
          <=> Pointer(mem, ptr)
    BY DEF Pointer
  <2> QED
    BY <1>2, <1>5, <2>1, <2>2 DEF Calls, Pointer
<1> QED
  BY <1>1, <1>6, <1>7, <1>8, <1>9 DEF MemoryInv, Sound

\* A pointer that is fine stays so while CFGs come in.
LEMMA PointerStays ==
  ASSUME NEW mem, NEW new, Small => mem.cfgs \subseteq new.cfgs
  PROVE  /\ \A ptr : Pointer(mem, ptr) => Pointer(new, ptr)
         /\ \A cs : Calls(mem, cs) => Calls(new, cs)
<1>1. \A ptr : Pointer(mem, ptr) => Pointer(new, ptr)
  BY DEF Pointer
<1> QED
  BY <1>1 DEF Calls

\* A pointer to a block of a CFG just obtained.
LEMMA BlockFacts ==
  ASSUME program \in Programs, NEW mem, Memory(mem), NEW y \in Places(program),
         Small => y[1] \in mem.cfgs
  PROVE  Block(mem, y) \in BlockPointer /\ Pointer(mem, Block(mem, y)) /\ (Small => Block(mem, y).cfg = 1)
<1>1. y[1] \in Function
  BY PlaceFacts
<1>2. mem.built[y[1]] \in Nat /\ (Small => mem.built[y[1]] = 1)
  BY <1>1 DEF Memory, Memories
<1>3. Block(mem, y) \in BlockPointer /\ Block(mem, y).place = y /\ (Small => Block(mem, y).cfg = 1)
  BY <1>2 DEF Block, BlockPointer
<1> QED
  BY <1>3 DEF Pointer

\* The places that getPred looks for.
LEMMA PredFacts ==
  ASSUME LinksInv, NEW x \in Places(program)
  PROVE  /\ PredOf(x, FALSE) \in Seq(Places(program) \cup {Null})
         /\ pred[x] = <<>> => \A k \in 1..Len(PredOf(x, FALSE)) :
                                PredOf(x, FALSE)[k] = Null \/ PredOf(x, FALSE)[k][1] = x[1]
<1>1. program \in Programs /\ pred[x] \in Seq(Places(program))
  BY DEF LinksInv, Links
<1>2. /\ IntraPred(x) \in Seq(Places(program) \cup {Null})
      /\ \A y \in ToSet(IntraPred(x)) : y = Null \/ y[1] = x[1]
  BY <1>1, IntraPredFacts
<1>3. PredOf(x, FALSE) = IF pred[x] # <<>> THEN pred[x] ELSE IntraPred(x)
  BY DEF PredOf, Neighbours
<1>4. pred[x] \in Seq(Places(program) \cup {Null})
  BY <1>1
<1>5. \A k \in 1..Len(IntraPred(x)) : IntraPred(x)[k] \in ToSet(IntraPred(x))
  <2>1. DOMAIN IntraPred(x) = 1..Len(IntraPred(x))
    BY <1>2
  <2> QED
    BY <2>1 DEF ToSet
<1> QED
  BY <1>2, <1>3, <1>4, <1>5

\* getPred gets the CFGs that it points to, and keeps the one it comes from where all fit.
LEMMA GetPredFacts ==
  ASSUME LinksInv, max_size \in Nat \ {0}, NEW mem, Memory(mem), NEW x \in Places(program),
         Small => x[1] \in mem.cfgs, NEW found, found = getPred(mem, x)
  PROVE  /\ Memory(found.mem) /\ (Small => mem.cfgs \subseteq found.mem.cfgs)
         /\ found.blocks \in Todo
         /\ \A k \in 1..Len(found.blocks) : Pointer(found.mem, found.blocks[k])
<1> DEFINE ys == PredOf(x, FALSE)
           N == Len(ys)
           A == {m \in Memories : Memory(m)}
           over(k) == ys[k] = Null \/ pred[x] = <<>>
           G == [k \in 1..N |-> [m \in A |-> IF over(k) THEN m ELSE getCFG(m, ys[k][1])]]
           step(f) == [k \in 0..N |-> IF k = 0 THEN mem ELSE IF over(k) THEN f[k - 1] ELSE getCFG(f[k - 1], ys[k][1])]
           after == CHOOSE f : f = step(f)
           blocks == [k \in DOMAIN ys |-> IF ys[k] = Null THEN Null ELSE Block(after[k], ys[k])]
<1>1. /\ program \in Programs /\ ys \in Seq(Places(program) \cup {Null})
      /\ pred[x] = <<>> => \A k \in 1..N : ys[k] = Null \/ ys[k][1] = x[1]
  BY PredFacts DEF LinksInv
<1>2. found = [mem |-> after[N], blocks |-> blocks]
  BY DEF getPred
<1> HIDE DEF ys
<1>3. N \in Nat /\ DOMAIN ys = 1..N /\ \A k \in 1..N : ys[k] = Null \/ ys[k] \in Places(program)
  BY <1>1
<1>4. \A k \in 1..N : ys[k] = Null \/ (ys[k] \in Places(program) /\ ys[k][1] \in Function)
  BY <1>1, <1>3, PlaceFacts
<1> HIDE DEF N
<1>5. \A m \in A, f \in Function :
        /\ getCFG(m, f) \in A /\ f \in getCFG(m, f).cfgs
        /\ Small => m.cfgs \subseteq getCFG(m, f).cfgs
  <2> TAKE m \in A, f \in Function
  <2>1. Memory(getCFG(m, f)) /\ f \in getCFG(m, f).cfgs /\ (Small => m.cfgs \subseteq getCFG(m, f).cfgs)
    BY <1>1, GetFacts
  <2> QED
    BY <2>1 DEF Memory
<1>6. mem \in A
  BY DEF Memory
<1> HIDE DEF A, over
<1>7. \A k \in 1..N, m \in A : (IF over(k) THEN m ELSE getCFG(m, ys[k][1])) \in A
  BY <1>4, <1>5 DEF over
<1>8. G \in Steps(N, A)
  BY <1>7 DEF Steps
<1>9. \A k \in 1..N, m \in A : G[k][m] = IF over(k) THEN m ELSE getCFG(m, ys[k][1])
  OBVIOUS
<1> HIDE DEF G
<1>10. Iterates(N, A, mem, G)
  BY <1>3, <1>6, <1>8, Recursion
<1>11. PICK f \in [0..N -> A] : f[0] = mem /\ \A k \in 1..N : f[k] = G[k][f[k - 1]]
  BY <1>10 DEF Iterates, IsIterated
<1>12. \A k \in 0..N : k # 0 => k \in 1..N /\ k - 1 \in 0..N
  BY <1>3
<1>13. \A k \in 0..N : f[k] = IF k = 0 THEN mem ELSE IF over(k) THEN f[k - 1] ELSE getCFG(f[k - 1], ys[k][1])
  BY <1>9, <1>11, <1>12
<1>14. f = step(f)
  <2>1. f = [k \in 0..N |-> f[k]]
    BY <1>11
  <2> QED
    BY <1>13, <2>1
<1>15. after = step(after)
  BY <1>14
<1> HIDE DEF after
<1>16. \A k \in 0..N : after[k] = IF k = 0 THEN mem ELSE IF over(k) THEN after[k - 1] ELSE getCFG(after[k - 1], ys[k][1])
  BY <1>15
<1> DEFINE Fine(k) == /\ after[k] \in A
                      /\ Small => /\ mem.cfgs \subseteq after[k].cfgs
                                  /\ \A j \in 1..k : ys[j] # Null => ys[j][1] \in after[k].cfgs
           P == {k \in 0..N : Fine(k)}
<1>17. 0 \in P
  <2>1. after[0] = mem /\ 0 \in 0..N
    BY <1>3, <1>16
  <2> QED
    BY <1>6, <2>1
<1>18. ASSUME NEW k \in 1..N, k - 1 \in P PROVE k \in P
  <2> DEFINE m == after[k - 1]
  <2>1. k \in 0..N /\ k # 0 /\ 1..k = 1..(k - 1) \cup {k}
    BY <1>3
  <2>2. after[k] = IF over(k) THEN m ELSE getCFG(m, ys[k][1])
    BY <1>16, <2>1
  <2>3. m \in A /\ (Small => mem.cfgs \subseteq m.cfgs /\ \A j \in 1..(k - 1) : ys[j] # Null => ys[j][1] \in m.cfgs)
    <3> HIDE DEF Fine
    <3>1. Fine(k - 1)
      BY <1>18
    <3> QED
      BY <3>1 DEF Fine
  <2> HIDE DEF m
  <2>4. CASE over(k)
    <3>1. Small /\ ys[k] # Null => ys[k][1] \in m.cfgs
      BY <1>1, <2>3, <2>4 DEF over
    <3> QED
      BY <2>1, <2>2, <2>3, <2>4, <3>1
  <2>5. CASE ~over(k)
    <3>1. ys[k][1] \in Function
      BY <1>4, <2>5 DEF over
    <3>2. after[k] \in A /\ ys[k][1] \in after[k].cfgs /\ (Small => m.cfgs \subseteq after[k].cfgs)
      BY <1>5, <2>2, <2>3, <2>5, <3>1
    <3> QED
      BY <2>1, <2>3, <3>2
  <2> QED
    BY <2>4, <2>5
<1>190. 0..N \subseteq P
  <2> HIDE DEF P
  <2> QED
    BY <1>3, <1>17, <1>18, BoundedInduction
<1>19. \A k \in 0..N : Fine(k)
  <2> HIDE DEF Fine
  <2> QED
    BY <1>190
<1>191. \A m, ptr : ptr \in BlockPointer /\ (Small => ptr.place[1] \in m.cfgs /\ ptr.cfg = 1) => Pointer(m, ptr)
  BY DEF Pointer
<1> HIDE DEF Fine
<1>20. ASSUME NEW k \in 1..N, ys[k] # Null
       PROVE  blocks[k] \in BlockPointer /\ Pointer(after[N], blocks[k])
  <2>1. k \in 0..N /\ N \in 0..N /\ k \in 1..k
    BY <1>3
  <2>2. /\ Memory(after[k]) /\ (Small => ys[k][1] \in after[k].cfgs)
        /\ Small => ys[k][1] \in after[N].cfgs
    <3>1. Fine(k) /\ Fine(N)
      BY <1>19, <2>1
    <3> QED
      BY <1>20, <2>1, <3>1 DEF A, Fine
  <2>3. ys[k] \in Places(program) /\ blocks[k] = Block(after[k], ys[k])
    BY <1>3, <1>20
  <2>4. Block(after[k], ys[k]) \in BlockPointer /\ (Small => Block(after[k], ys[k]).cfg = 1)
    BY <1>1, <2>2, <2>3, BlockFacts
  <2>5. Block(after[k], ys[k]).place = ys[k]
    BY DEF Block
  <2> HIDE DEF blocks
  <2> QED
    BY <1>191, <2>2, <2>3, <2>4, <2>5
<1>21. Memory(after[N]) /\ (Small => mem.cfgs \subseteq after[N].cfgs)
  <2>1. N \in 0..N
    BY <1>3
  <2> QED
    BY <1>19, <2>1 DEF A, Fine
<1>22. \A k \in 1..N : ys[k] = Null => blocks[k] = Null
  BY <1>3
<1>23. DOMAIN blocks = 1..N /\ blocks = [k \in 1..N |-> blocks[k]]
  BY <1>3
<1> HIDE DEF blocks
<1>24. blocks \in [1..N -> BlockPointer \cup {Null}]
  BY <1>20, <1>22, <1>23
<1>25. blocks \in Todo /\ Len(blocks) = N
  BY <1>3, <1>24 DEF Todo
<1>26. \A k \in 1..N : Pointer(after[N], blocks[k])
  BY <1>20, <1>22 DEF Pointer
<1>27. found.mem = after[N] /\ found.blocks = blocks
  BY <1>2
<1> QED
  BY <1>21, <1>25, <1>26, <1>27

-----------------------------------------------------------------------------
(* The calls of the search.                                                *)

LEMMA CallsAppend ==
  ASSUME NEW mem, NEW cs, Calls(mem, cs), NEW call \in Call,
         \A j \in 1..Len(call.todo) : Pointer(mem, call.todo[j])
  PROVE  Calls(mem, Append(cs, call))
<1> DEFINE n == Len(cs)
           ds == Append(cs, call)
<1>1. cs \in Seq(Call) /\ \A k \in 1..n : \A j \in 1..Len(cs[k].todo) : Pointer(mem, cs[k].todo[j])
  BY DEF Calls
<1>2. /\ ds \in Seq(Call) /\ Len(ds) = n + 1 /\ n \in Nat /\ ds[n + 1] = call
      /\ \A k \in 1..n : ds[k] = cs[k]
  BY <1>1, AppendFacts
<1>3. \A k \in 1..(n + 1) : k = n + 1 \/ k \in 1..n
  BY <1>2
<1> HIDE DEF n, ds
<1>4. \A k \in 1..(n + 1) : \A j \in 1..Len(ds[k].todo) : Pointer(mem, ds[k].todo[j])
  BY <1>1, <1>2, <1>3
<1> QED
  BY <1>2, <1>4 DEF Calls, ds

LEMMA CallsFront ==
  ASSUME NEW mem, NEW cs, Calls(mem, cs), cs # <<>>
  PROVE  /\ Calls(mem, Front(cs)) /\ Last(cs) \in Call
         /\ \A j \in 1..Len(Last(cs).todo) : Pointer(mem, Last(cs).todo[j])
<1> DEFINE n == Len(cs)
           ds == Front(cs)
<1>1. cs \in Seq(Call) /\ \A k \in 1..n : \A j \in 1..Len(cs[k].todo) : Pointer(mem, cs[k].todo[j])
  BY DEF Calls
<1>2. n \in Nat /\ n >= 1 /\ Last(cs) = cs[n] /\ n \in 1..n /\ cs[n] \in Call
  BY <1>1, SequenceFacts DEF Last
<1>3. ds \in Seq(Call) /\ Len(ds) = n - 1 /\ \A k \in 1..(n - 1) : ds[k] = cs[k] /\ k \in 1..n
  BY <1>1, <1>2, FrontFacts
<1> HIDE DEF n, ds
<1>4. Calls(mem, ds)
  BY <1>1, <1>3 DEF Calls
<1> QED
  BY <1>1, <1>2, <1>4 DEF ds

\* One predecessor less to follow.
LEMMA RemainingFacts ==
  ASSUME NEW mem, NEW call \in Call, call.todo # <<>>, NEW below,
         \A j \in 1..Len(call.todo) : Pointer(mem, call.todo[j])
  PROVE  /\ Remaining(call, below) \in Call /\ Pointer(mem, Head(call.todo))
         /\ Dec(call.len) \in 0..(Word - 1) /\ call.path \in Seq(Places(program))
         /\ \A j \in 1..Len(Remaining(call, below).todo) : Pointer(mem, Remaining(call, below).todo[j])
<1> DEFINE todo == call.todo
           rest == Tail(todo)
           left == IF below = <<>> THEN Dec(call.len) ELSE call.len
<1>1. call.len \in 0..(Word - 1) /\ todo \in Todo /\ call.path \in Seq(Places(program))
  BY DEF Call
<1>2. Word \in Nat /\ Word > 0
  BY <1>1, ProgramsAssumption
<1>3. \A n \in 0..(Word - 1) : (n + Word - 1) % Word \in 0..(Word - 1)
  BY <1>2
<1>4. Dec(call.len) \in 0..(Word - 1)
  BY <1>1, <1>3 DEF Dec
<1> HIDE DEF left
<1>5. Remaining(call, below) = [call EXCEPT !.todo = rest, !.len = left]
  BY DEF Remaining, left, Call
<1>6. left \in 0..(Word - 1)
  BY <1>1, <1>4 DEF left
<1> HIDE DEF todo
<1>7. todo # <<>>
  BY DEF todo
<1>8. /\ rest \in Todo /\ Len(todo) \in Nat /\ Len(todo) >= 1 /\ Len(rest) = Len(todo) - 1
      /\ Head(todo) = todo[1] /\ \A j \in 1..Len(rest) : rest[j] = todo[j + 1]
  BY <1>1, <1>7 DEF Todo
<1> HIDE DEF rest
<1>9. Remaining(call, below) \in Call /\ Remaining(call, below).todo = rest
  BY <1>5, <1>6, <1>8 DEF Call
<1>10. \A j \in 1..Len(rest) : j + 1 \in 1..Len(todo)
  BY <1>8
<1>11. 1 \in 1..Len(todo) /\ \A j \in 1..Len(todo) : Pointer(mem, todo[j])
  BY <1>8 DEF todo
<1>12. Pointer(mem, Head(todo)) /\ \A j \in 1..Len(rest) : Pointer(mem, rest[j])
  BY <1>8, <1>10, <1>11
<1> QED
  BY <1>1, <1>4, <1>9, <1>12 DEF todo

\* nodes.at throws for functions that call others and have no node.
LEMMA ThrowsFacts ==
  ASSUME LinksInv, NEW x \in Places(program), Throws(pred, x)
  PROVE  \E F \in Function \ program.node : CalleesOf(F) # {}
<1>1. /\ program \in Programs /\ Explained(succ)
      /\ pred[x] \in Seq(Places(program)) /\ pred[x] # <<>> /\ x[1] \notin program.node
  BY DEF LinksInv, Links, Throws
<1>2. PICK y \in Places(program) : y \in ToSet(pred[x])
  <2>1. 1 \in DOMAIN pred[x] /\ pred[x][1] \in Places(program)
    BY <1>1
  <2> QED
    BY <2>1 DEF ToSet
<1>3. x \in ToSet(succ[y]) /\ x[1] \in Function
  BY <1>1, <1>2, LinkBothWays, PlaceFacts
<1>4. ~IsCall(y, x[1])
  BY <1>1 DEF IsCall, CalleeOf
<1>5. PICK c \in Places(program) : IsCall(c, y[1]) /\ x = Behind(c, y[1])
  BY <1>1, <1>3, <1>4 DEF Explained
<1>6. x[1] = c[1] /\ c[2] \in BlocksOf(program, c[1]) /\ c = <<c[1], c[2]>>
  BY <1>1, <1>5, PlaceFacts DEF Behind
<1>7. CalleeOf(<<c[1], c[2]>>) \in CalleesOf(c[1])
  <2>1. CalleeOf(<<c[1], c[2]>>) = y[1] /\ y[1] # Null
    BY <1>5, <1>6 DEF IsCall
  <2> QED
    BY <1>6, <2>1 DEF CalleesOf
<1> QED
  BY <1>1, <1>3, <1>6, <1>7

\* A pointer to a CFG that is gone is there only where not all units fit.
LEMMA LiveFacts ==
  ASSUME program \in Programs, NEW mem, Memory(mem), NEW ptr, Pointer(mem, ptr), ptr # Null
  PROVE  /\ ptr.place \in Places(program) /\ (Small => IsLive(mem, ptr))
         /\ IsLive(mem, ptr) => ptr.place[1] \in mem.cfgs
<1>1. ptr.place \in Places(program) /\ (Small => ptr.place[1] \in mem.cfgs /\ ptr.cfg = 1)
  BY DEF Pointer, BlockPointer
<1>2. ptr.place[1] \in Function
  BY <1>1, PlaceFacts
<1>3. Small => mem.built[ptr.place[1]] = 1
  BY <1>1, <1>2 DEF Memory
<1> QED
  BY <1>1, <1>3 DEF IsLive

\* What a call of the search leaves, whether it finds a path, goes on or fails.
LEMMA VisitStep ==
  ASSUME LinksInv, MemoryInv, at = Null, fault = "none",
         program' = program, max_size' = max_size, at' = at, request' # Null,
         NEW mem, Memory(mem), NEW ptr, Pointer(mem, ptr), NEW path \in Seq(Places(program)),
         NEW len \in 0..(Word - 1), NEW below, Calls(mem, below),
         Visit(mem, ptr, path, len, below)
  PROVE  MemoryInv'
<1> DEFINE x == ptr.place
           longer == <<x>> \o path
<1>1. /\ program \in Programs /\ max_size \in Nat \ {0} /\ Sound(memory, at, request, calls, res, fault)
  BY DEF LinksInv, MemoryInv
<1>2. Memory(memory) /\ Calls(memory, calls) /\ res \in Seq(Seq(Places(program)))
  BY <1>1 DEF Sound
<1>3. ASSUME NEW m, NEW cs, NEW rs \in Seq(Seq(Places(program))), Memory(m), Calls(m, cs),
             memory' = m, calls' = cs, res' = rs, fault' = fault
      PROVE  MemoryInv'
  <2>1. PICK y, r : y = at' /\ r = request'
    OBVIOUS
  <2>2. Sound(m, y, r, cs, rs, "none")
    BY <1>3, <2>1 DEF Sound, Held, Explanation
  <2> QED
    BY <1>3, <2>1, <2>2, MemoryNext
<1>4. \A p \in Seq(Places(program)) : Append(res, p) \in Seq(Seq(Places(program)))
  BY <1>2
<1>5. CASE len = 0 \/ ptr = Null
  <2>1. res' = Append(res, path) /\ calls' = below /\ memory' = mem /\ fault' = fault
    BY <1>5 DEF Visit
  <2> QED
    BY <1>3, <1>4, <2>1
<1>6. CASE ~(len = 0 \/ ptr = Null) /\ ~IsLive(mem, ptr)
  <2>1. fault' = "freed" /\ res' = res /\ calls' = calls /\ memory' = memory
    BY <1>6 DEF Visit
  <2>2. ~Small
    BY <1>1, <1>6, LiveFacts
  <2>3. PICK m, cs, rs, y, r : m = memory' /\ cs = calls' /\ rs = res' /\ y = at' /\ r = request'
    OBVIOUS
  <2>4. Sound(m, y, r, cs, rs, "freed")
    BY <1>2, <2>1, <2>2, <2>3 DEF Sound, Held, Explanation
  <2> QED
    BY <2>1, <2>3, <2>4, MemoryNext
<1>7. CASE ~(len = 0 \/ ptr = Null) /\ IsLive(mem, ptr) /\ Throws(pred, x)
  <2>1. fault' = "out_of_range" /\ res' = res /\ calls' = calls /\ memory' = memory
    BY <1>7 DEF Visit
  <2>2. \E F \in Function \ program.node : CalleesOf(F) # {}
    BY <1>1, <1>7, LiveFacts, ThrowsFacts
  <2>3. PICK m, cs, rs, y, r : m = memory' /\ cs = calls' /\ rs = res' /\ y = at' /\ r = request'
    OBVIOUS
  <2>4. Sound(m, y, r, cs, rs, "out_of_range")
    BY <1>2, <2>1, <2>2, <2>3 DEF Sound, Held, Explanation
  <2> QED
    BY <2>1, <2>3, <2>4, MemoryNext
<1>8. CASE ~(len = 0 \/ ptr = Null) /\ IsLive(mem, ptr) /\ ~Throws(pred, x)
  <2>1. PICK found \in {getPred(mem, x)} :
          /\ memory' = found.mem /\ fault' = fault
          /\ \/ res' = Append(res, longer) /\ calls' = below
             \/ res' = res /\ calls' = Append(below, [path |-> longer, len |-> len, todo |-> found.blocks])
    BY <1>8 DEF Visit
  <2>2. x \in Places(program) /\ x[1] \in mem.cfgs
    BY <1>1, <1>8, LiveFacts
  <2>3. /\ Memory(found.mem) /\ (Small => mem.cfgs \subseteq found.mem.cfgs)
        /\ found.blocks \in Todo
        /\ \A k \in 1..Len(found.blocks) : Pointer(found.mem, found.blocks[k])
    BY <1>1, <2>1, <2>2, GetPredFacts
  <2>4. Calls(found.mem, below)
    BY <2>3, PointerStays
  <2>5. longer \in Seq(Places(program))
    BY <2>2
  <2> HIDE DEF longer, x
  <2>6. CASE res' = Append(res, longer) /\ calls' = below
    BY <1>3, <1>4, <2>1, <2>3, <2>4, <2>5, <2>6
  <2>7. CASE res' = res /\ calls' = Append(below, [path |-> longer, len |-> len, todo |-> found.blocks])
    <3> DEFINE call == [path |-> longer, len |-> len, todo |-> found.blocks]
    <3>1. call \in Call /\ call.todo = found.blocks
      BY <2>3, <2>5 DEF Call
    <3> HIDE DEF call
    <3>2. Calls(found.mem, Append(below, call))
      BY <2>3, <2>4, <3>1, CallsAppend
    <3>3. calls' = Append(below, call)
      BY <2>7 DEF call
    <3> QED
      BY <1>2, <1>3, <2>1, <2>3, <2>7, <3>2, <3>3
  <2> QED
    BY <2>1, <2>6, <2>7
<1> QED
  BY <1>5, <1>6, <1>7, <1>8

-----------------------------------------------------------------------------
(* Memory, step by step.                                                   *)

LEMMA MemoryInit == Init => MemoryInv
<1> SUFFICES ASSUME Init PROVE MemoryInv
  OBVIOUS
<1> DEFINE mem == [units |-> <<>>, cfgs |-> {}, built |-> [f \in Function |-> 0]]
<1>1. /\ max_size \in Nat \ {0} /\ memory = mem
      /\ at = Null /\ request = Null /\ calls = <<>> /\ res = <<>> /\ fault = "none"
  BY ProgramsAssumption DEF Init
<1>2. mem \in Memories /\ mem.units = <<>> /\ mem.cfgs = {} /\ \A f \in Function : mem.built[f] = 0
  BY DEF Memories
<1> HIDE DEF mem
<1>3. Memory(mem)
  BY <1>1, <1>2 DEF Memory, Distinct, ToSet
<1>4. Calls(mem, <<>>)
  BY DEF Calls
<1>5. Held(mem, Null, "none") /\ Explanation(Null, Null, "none")
  BY DEF Held, Explanation
<1> QED
  BY <1>1, <1>3, <1>4, <1>5 DEF MemoryInv, Sound

\* The units that the constructor asks for in a function, those of its callees among them.
LEMMA TogetherFacts ==
  ASSUME program \in Programs, NEW F \in Function
  PROVE  /\ Together(F) \in SUBSET Unit /\ IsFiniteSet(Together(F)) /\ Cardinality(Together(F)) \in Nat
         /\ program.unit[F] \in Together(F)
         /\ \A g \in CalleesOf(F) : g \in Function /\ program.unit[g] \in Together(F)
         /\ max_size \in Nat /\ Cardinality(Together(F)) > max_size => ~Small
<1>1. CalleesOf(F) \subseteq Function
  <2> SUFFICES ASSUME NEW b \in BlocksOf(program, F), CalleeOf(<<F, b>>) # Null
               PROVE  CalleeOf(<<F, b>>) \in Function
    BY DEF CalleesOf
  <2>1. <<F, b>> \in Places(program)
    BY DEF Places
  <2> QED
    BY <2>1, CallFacts
<1> DEFINE fs == {F} \cup CalleesOf(F)
<1>2. fs \in SUBSET Function /\ F \in fs /\ CalleesOf(F) \subseteq fs
  BY <1>1
<1> HIDE DEF fs
<1>3. /\ IsFiniteSet(UnitsOf(fs)) /\ Cardinality(UnitsOf(fs)) \in Nat /\ UnitsOf(fs) \subseteq Unit
      /\ Cardinality(UnitsOf(fs)) <= Cardinality(UnitsOf(Function)) /\ Cardinality(UnitsOf(Function)) \in Nat
      /\ \A f \in fs : program.unit[f] \in UnitsOf(fs)
  BY <1>2, UnitFacts
<1>4. Together(F) = UnitsOf(fs)
  BY DEF Together, fs
<1>5. max_size \in Nat /\ Cardinality(UnitsOf(fs)) > max_size => ~Small
  BY <1>3 DEF Small
<1> QED
  BY <1>1, <1>2, <1>3, <1>4, <1>5

\* The constructor moves on, with this memory.
LEMMA ConstructorStep ==
  ASSUME LinksInv, MemoryInv, Constructing, program' = program, max_size' = max_size,
         NEW mem, mem = memory', NEW x, x = at', UNCHANGED search,
         NEW fl, fl = fault', Memory(mem), Small => memory.cfgs \subseteq mem.cfgs,
         Held(mem, x, fl), Explanation(x, Null, fl)
  PROVE  MemoryInv'
<1>1. PICK r, cs, rs : r = request' /\ cs = calls' /\ rs = res'
  OBVIOUS
<1>2. Calls(memory, calls) /\ res \in Seq(Seq(Places(program))) /\ (calls # <<>> => request # Null)
  BY DEF MemoryInv, Sound
<1>3. r = Null /\ request = Null /\ cs = calls /\ rs = res
  BY <1>1 DEF search, Constructing
<1>4. Calls(mem, cs)
  BY <1>2, <1>3, PointerStays
<1>5. Sound(mem, x, r, cs, rs, fl)
  BY <1>2, <1>3, <1>4 DEF Sound
<1> QED
  BY <1>1, <1>5, MemoryNext

\* getFunctionDecl, then getCFG: the unit is the one used last.
LEMMA NextFunctionMemory == LinksInv /\ MemoryInv /\ NextFunction => MemoryInv'
<1> SUFFICES ASSUME LinksInv, MemoryInv, NextFunction PROVE MemoryInv'
  OBVIOUS
<1> DEFINE F == Head(unseen)
           u == program.unit[F]
<1>1. PICK m, mem, x, fl : /\ m = Load(memory, u) /\ mem = memory' /\ x = at' /\ fl = fault'
  OBVIOUS
<1>2. /\ Constructing /\ unseen # <<>> /\ program' = program /\ max_size' = max_size
      /\ UNCHANGED search /\ fl = "none"
      /\ IF HasBody(program, F) THEN mem = getCFG(m, F) /\ x = Exit(F) ELSE mem = m /\ x = Null
  BY <1>1 DEF NextFunction, Constructing
<1>3. program \in Programs /\ unseen \in Seq(Function) /\ max_size \in Nat \ {0} /\ Memory(memory)
  BY DEF LinksInv, MemoryInv, Sound
<1>4. F \in Function
  BY <1>2, <1>3
<1> HIDE DEF F
<1>5. /\ Memory(m) /\ (Small => m.cfgs = memory.cfgs)
      /\ \A U \in SUBSET Unit :
           IsFiniteSet(U) /\ Cardinality(U) <= max_size /\ u \in U => Recent(m, u, U)
  <2>1. PICK old : old = memory
    OBVIOUS
  <2>2. Memory(old) /\ m = Load(old, program.unit[F])
    BY <1>1, <1>3, <2>1
  <2>3. /\ Memory(m) /\ (Small => m.cfgs = old.cfgs)
        /\ \A U \in SUBSET Unit : \A v \in U :
             /\ IsFiniteSet(U) /\ Cardinality(U) <= max_size /\ program.unit[F] \in U
             /\ v = program.unit[F] \/ Recent(old, v, U)
             => Recent(m, v, U)
    BY <1>3, <1>4, <2>2, LoadFacts
  <2> QED
    BY <2>1, <2>3
<1>6. Explanation(x, Null, fl)
  BY <1>2 DEF Explanation
<1>7. CASE ~HasBody(program, F)
  <2>1. mem = m /\ x = Null
    BY <1>2, <1>7
  <2>2. Held(mem, x, fl)
    BY <2>1 DEF Held
  <2> QED
    BY <1>1, <1>2, <1>5, <1>6, <2>1, <2>2, ConstructorStep
<1>8. CASE HasBody(program, F)
  <2>1. mem = getCFG(m, F) /\ x = Exit(F) /\ x[1] = F
    BY <1>2, <1>8 DEF Exit
  <2>2. /\ Memory(mem) /\ F \in mem.cfgs /\ (Small => m.cfgs \subseteq mem.cfgs)
    BY <1>3, <1>4, <1>5, <2>1, GetFacts
  <2>3. ASSUME Cardinality(Together(F)) <= max_size PROVE Recent(mem, u, Together(F))
    <3> DEFINE U == Together(F)
    <3>1. U \in SUBSET Unit /\ IsFiniteSet(U) /\ u \in U
      BY <1>3, <1>4, TogetherFacts
    <3> HIDE DEF U
    <3>2. Recent(m, u, U)
      BY <1>5, <2>3, <3>1 DEF U
    <3>3. CASE F \in m.cfgs
      BY <1>3, <1>4, <1>5, <2>1, <2>3, <3>1, <3>2, <3>3, GetFacts DEF U
    <3>4. CASE F \notin m.cfgs
      <4>1. mem = [Load(m, u) EXCEPT !.cfgs = @ \cup {F}, !.built[F] = @ + 1]
        BY <2>1, <3>4 DEF getCFG
      <4>2. Memory(Load(m, u)) /\ Recent(Load(m, u), u, U)
        BY <1>3, <1>4, <1>5, <2>3, <3>1, <3>2, LoadFacts DEF U
      <4>3. mem.units = Load(m, u).units
        BY <4>1, <4>2 DEF Memory, Memories
      <4> QED
        BY <4>2, <4>3 DEF Recent, U
    <3> QED
      BY <3>3, <3>4 DEF U
  <2>4. Held(mem, x, fl)
    BY <2>1, <2>2, <2>3 DEF Held
  <2> QED
    BY <1>1, <1>2, <1>5, <1>6, <2>2, <2>4, ConstructorStep
<1> QED
  BY <1>7, <1>8

\* The loop stays in its function, whose CFG it has.
LEMMA NextBlockStays ==
  ASSUME LinksInv, at # Null
  PROVE  NextBlock = Null \/ NextBlock[1] = at[1]
BY DEF NextBlock

LEMMA SkipBlockMemory == LinksInv /\ MemoryInv /\ SkipBlock => MemoryInv'
<1> SUFFICES ASSUME LinksInv, MemoryInv, SkipBlock PROVE MemoryInv'
  OBVIOUS
<1>1. PICK mem, x, fl : mem = memory' /\ x = at' /\ fl = fault'
  OBVIOUS
<1>2. /\ Constructing /\ at # Null /\ x = NextBlock /\ mem = memory /\ fl = fault /\ fault = "none"
      /\ program' = program /\ max_size' = max_size /\ UNCHANGED search
  BY <1>1 DEF SkipBlock, Constructing
<1>3. Memory(memory) /\ Held(memory, at, fault)
  BY DEF MemoryInv, Sound
<1>4. Held(mem, x, fl) /\ Explanation(x, Null, fl)
  <2>1. x = Null \/ x[1] = at[1]
    BY <1>2, NextBlockStays
  <2> QED
    BY <1>2, <1>3, <2>1 DEF Held, Explanation
<1> QED
  BY <1>1, <1>2, <1>3, <1>4, ConstructorStep

\* The CFG of the callee takes the place of that of the caller only where the units of a
\* function and what it calls do not fit.
LEMMA LinkCallMemory == LinksInv /\ MemoryInv /\ LinkCall => MemoryInv'
<1> SUFFICES ASSUME LinksInv, MemoryInv, LinkCall PROVE MemoryInv'
  OBVIOUS
<1> DEFINE F == at[1]
           g == CalleeOf(at)
           U == Together(F)
<1>1. PICK mem, x, fl : mem = memory' /\ x = at' /\ fl = fault'
  OBVIOUS
<1>2. /\ Constructing /\ at # Null /\ g # Null /\ mem = getCFG(memory, g) /\ fault = "none"
      /\ program' = program /\ max_size' = max_size /\ UNCHANGED search
      /\ IF F \notin mem.cfgs THEN fl = "freed" /\ x = at
         ELSE IF FirstSuccessor(at) = Null THEN fl = "null successor" /\ x = at
         ELSE x = NextBlock /\ fl = fault
  BY <1>1 DEF LinkCall, Constructing
<1>3. /\ program \in Programs /\ at \in Places(program) /\ max_size \in Nat \ {0} /\ Memory(memory)
      /\ Held(memory, at, fault)
  BY <1>2 DEF LinksInv, MemoryInv, Sound
<1>4. F \in Function /\ at = <<F, at[2]>> /\ at[2] \in BlocksOf(program, F)
  BY <1>3, PlaceFacts
<1>5. g \in CalleesOf(F)
  BY <1>2, <1>4 DEF CalleesOf
<1>6. /\ U \in SUBSET Unit /\ IsFiniteSet(U) /\ Cardinality(U) \in Nat /\ program.unit[F] \in U
      /\ g \in Function /\ program.unit[g] \in U
      /\ Cardinality(U) > max_size => ~Small
  BY <1>3, <1>4, <1>5, TogetherFacts
<1> HIDE DEF g
<1>7. /\ Memory(mem) /\ (Small => memory.cfgs \subseteq mem.cfgs)
      /\ \A V \in SUBSET Unit : \A f \in memory.cfgs :
           /\ IsFiniteSet(V) /\ Cardinality(V) <= max_size /\ {program.unit[g], program.unit[f]} \subseteq V
           /\ Recent(memory, program.unit[f], V)
           => f \in mem.cfgs /\ Recent(mem, program.unit[f], V)
  BY <1>2, <1>3, <1>6, GetFacts
<1>8. F \in memory.cfgs /\ (Cardinality(U) <= max_size => Recent(memory, program.unit[F], U))
  BY <1>2, <1>3 DEF Held
<1>9. Cardinality(U) <= max_size => F \in mem.cfgs /\ Recent(mem, program.unit[F], U)
  <2> HIDE DEF U, F
  <2> QED
    BY <1>6, <1>7, <1>8
<1>10. CASE F \notin mem.cfgs
  <2>1. Cardinality(U) > max_size
    BY <1>3, <1>6, <1>9, <1>10
  <2>2. fl = "freed" /\ x = at
    BY <1>2, <1>10
  <2>3. Held(mem, x, fl) /\ Explanation(x, Null, fl)
    BY <1>6, <2>1, <2>2 DEF Held, Explanation
  <2> QED
    BY <1>1, <1>2, <1>7, <2>3, ConstructorStep
<1>11. CASE F \in mem.cfgs /\ FirstSuccessor(at) = Null
  <2>1. fl = "null successor" /\ x = at
    BY <1>2, <1>11
  <2>2. CalleeOf(at) # Null
    BY <1>1 DEF LinkCall
  <2>3. Held(mem, x, fl) /\ Explanation(x, Null, fl)
    BY <1>3, <1>11, <2>1, <2>2 DEF Held, Explanation
  <2> QED
    BY <1>1, <1>2, <1>7, <2>3, ConstructorStep
<1>12. CASE F \in mem.cfgs /\ FirstSuccessor(at) # Null
  <2>1. x = NextBlock /\ fl = "none"
    BY <1>2, <1>12
  <2>2. x = Null \/ x[1] = F
    BY <1>2, <2>1, NextBlockStays
  <2>3. Held(mem, x, fl) /\ Explanation(x, Null, fl)
    BY <1>9, <1>12, <2>1, <2>2 DEF Held, Explanation
  <2> QED
    BY <1>1, <1>2, <1>7, <2>3, ConstructorStep
<1> QED
  BY <1>10, <1>11, <1>12

LEMMA AskMemory == LinksInv /\ MemoryInv /\ Ask => MemoryInv'
<1> SUFFICES ASSUME LinksInv, MemoryInv, Ask PROVE MemoryInv'
  OBVIOUS
<1>1. /\ Ready /\ program' = program /\ max_size' = max_size /\ at' = at
      /\ \E x \in Places(program) : \E n \in Lengths :
           /\ request' = [end |-> x, len |-> n]
           /\ \E mem \in {getCFG(memory, x[1])} : Visit(mem, Block(mem, x), <<>>, n, <<>>)
  BY DEF Ask
<1>2. PICK x \in Places(program) : \E n \in Lengths :
        /\ request' = [end |-> x, len |-> n]
        /\ \E mem \in {getCFG(memory, x[1])} : Visit(mem, Block(mem, x), <<>>, n, <<>>)
  BY <1>1
<1>3. PICK n \in Lengths :
        /\ request' = [end |-> x, len |-> n]
        /\ \E mem \in {getCFG(memory, x[1])} : Visit(mem, Block(mem, x), <<>>, n, <<>>)
  BY <1>2
<1>4. PICK mem \in {getCFG(memory, x[1])} : Visit(mem, Block(mem, x), <<>>, n, <<>>)
  BY <1>3
<1>5. program \in Programs /\ max_size \in Nat \ {0} /\ Memory(memory)
  BY DEF LinksInv, MemoryInv, Sound
<1>6. x[1] \in Function
  BY <1>5, PlaceFacts
<1>7. Memory(mem) /\ x[1] \in mem.cfgs
  BY <1>4, <1>5, <1>6, GetFacts
<1>8. PICK ptr : ptr = Block(mem, x)
  OBVIOUS
<1>9. Pointer(mem, ptr) /\ Visit(mem, ptr, <<>>, n, <<>>)
  BY <1>4, <1>5, <1>7, <1>8, BlockFacts
<1>10. n \in 0..(Word - 1) /\ <<>> \in Seq(Places(program)) /\ Calls(mem, <<>>)
  BY ProgramsAssumption DEF Calls
<1>11. at = Null /\ fault = "none" /\ request' # Null
  <2>1. [end |-> x, len |-> n] \in [end : Places(program), len : Lengths]
    OBVIOUS
  <2>2. request' # Null
    BY <1>3, <1>5, <2>1, ProgramsAssumption
  <2> QED
    BY <1>1, <2>2 DEF Ready, Constructing
<1> QED
  BY <1>1, <1>7, <1>9, <1>10, <1>11, VisitStep

LEMMA FollowMemory == LinksInv /\ MemoryInv /\ Follow => MemoryInv'
<1> SUFFICES ASSUME LinksInv, MemoryInv, Follow PROVE MemoryInv'
  OBVIOUS
<1>1. PICK mem, call, below : mem = memory /\ call = Last(calls) /\ below = Front(calls)
  OBVIOUS
<1>2. /\ fault = "none" /\ calls # <<>> /\ call.todo # <<>>
      /\ program' = program /\ max_size' = max_size /\ at' = at /\ request' = request
      /\ Visit(mem, Head(call.todo), call.path, Dec(call.len), Append(below, Remaining(call, below)))
  BY <1>1 DEF Follow, searching
<1>3. /\ Memory(mem) /\ Calls(mem, calls) /\ (request # Null => at = Null) /\ Held(mem, at, fault)
  BY <1>1 DEF MemoryInv, Sound
<1>4. /\ Calls(mem, below) /\ call \in Call
      /\ \A j \in 1..Len(call.todo) : Pointer(mem, call.todo[j])
  BY <1>1, <1>2, <1>3, CallsFront
<1>5. PICK ptr, len, rest : ptr = Head(call.todo) /\ len = Dec(call.len) /\ rest = Remaining(call, below)
  OBVIOUS
<1>6. /\ rest \in Call /\ Pointer(mem, ptr) /\ len \in 0..(Word - 1) /\ call.path \in Seq(Places(program))
      /\ \A j \in 1..Len(rest.todo) : Pointer(mem, rest.todo[j])
  BY <1>2, <1>4, <1>5, RemainingFacts
<1>7. Calls(mem, Append(below, rest))
  BY <1>4, <1>6, CallsAppend
<1>8. Visit(mem, ptr, call.path, len, Append(below, rest))
  BY <1>2, <1>5
<1>9. request # Null
  BY <1>2 DEF MemoryInv, Sound
<1> QED
  BY <1>2, <1>3, <1>6, <1>7, <1>8, <1>9, VisitStep

LEMMA ReturnMemory == LinksInv /\ MemoryInv /\ Return => MemoryInv'
<1> SUFFICES ASSUME LinksInv, MemoryInv, Return PROVE MemoryInv'
  OBVIOUS
<1>1. /\ calls # <<>> /\ calls' = Front(calls)
      /\ program' = program /\ max_size' = max_size /\ at' = at /\ request' = request
      /\ memory' = memory /\ res' = res /\ fault' = fault
  BY DEF Return, searching
<1>2. Sound(memory, at, request, calls, res, fault)
  BY DEF MemoryInv
<1>3. Calls(memory, Front(calls))
  BY <1>1, <1>2, CallsFront DEF Sound
<1>4. PICK mem, x, r, cs, rs, fl : /\ mem = memory' /\ x = at' /\ r = request' /\ cs = calls'
                                   /\ rs = res' /\ fl = fault'
  OBVIOUS
<1>5. Sound(mem, x, r, cs, rs, fl)
  BY <1>1, <1>2, <1>3, <1>4 DEF Sound
<1> QED
  BY <1>1, <1>4, <1>5, MemoryNext

LEMMA MemoryStep == LinksInv /\ MemoryInv /\ [Next]_vars => MemoryInv'
<1>1. LinksInv /\ MemoryInv /\ Next => MemoryInv'
  BY NextFunctionMemory, SkipBlockMemory, LinkCallMemory, AskMemory, FollowMemory, ReturnMemory DEF Next
<1>2. MemoryInv /\ UNCHANGED vars => MemoryInv'
  <2> SUFFICES ASSUME MemoryInv, UNCHANGED vars PROVE MemoryInv'
    OBVIOUS
  <2>1. PICK mem, x, r, cs, rs, fl : /\ mem = memory' /\ x = at' /\ r = request' /\ cs = calls'
                                     /\ rs = res' /\ fl = fault'
    OBVIOUS
  <2>2. Sound(mem, x, r, cs, rs, fl) /\ program' = program /\ max_size' = max_size
    BY <2>1 DEF vars, MemoryInv
  <2> QED
    BY <2>1, <2>2, MemoryNext
<1> QED
  BY <1>1, <1>2

LEMMA SoundIsSafe == LinksInv /\ MemoryInv => MemorySafe
<1> SUFFICES ASSUME LinksInv, MemoryInv PROVE MemorySafe
  OBVIOUS
<1>1. /\ program \in Programs /\ pred \in Links /\ succ \in Links /\ at \in Places(program) \cup {Null}
      /\ Memory(memory) /\ Calls(memory, calls) /\ res \in Seq(Seq(Places(program)))
      /\ Explanation(at, request, fault) /\ max_size \in Nat \ {0}
  BY DEF LinksInv, MemoryInv, Sound
<1>2. /\ memory.units \in Seq(Unit) /\ Len(memory.units) <= max_size
      /\ memory.cfgs \subseteq {f \in Function : program.unit[f] \in ToSet(memory.units)}
  BY <1>1 DEF Memory, Memories
<1>3. \A x \in Places(program) : ToSet(pred[x]) \cup ToSet(succ[x]) \subseteq Places(program)
  BY <1>1 DEF Links, ToSet
<1>4. ASSUME NEW k \in DOMAIN calls
      PROVE  /\ calls[k].path \in Seq(Places(program)) /\ calls[k].len \in 0..(Word - 1)
             /\ \A j \in DOMAIN calls[k].todo : calls[k].todo[j] = Null \/ calls[k].todo[j] \in BlockPointer
  <2>1. calls \in Seq(Call) /\ k \in 1..Len(calls)
    BY <1>1 DEF Calls
  <2>2. calls[k] \in Call
    BY <2>1
  <2>3. /\ calls[k].path \in Seq(Places(program)) /\ calls[k].len \in 0..(Word - 1)
        /\ calls[k].todo \in Todo
    BY <2>2 DEF Call
  <2>4. \A j \in DOMAIN calls[k].todo : calls[k].todo[j] \in BlockPointer \cup {Null}
    BY <2>3 DEF Todo
  <2> QED
    BY <2>3, <2>4
<1>5. \A k \in DOMAIN res : res[k] \in Seq(Places(program))
  BY <1>1
<1>6. TypeOK
  BY <1>1, <1>2, <1>3, <1>4, <1>5 DEF TypeOK
<1>7. Cardinality(UnitsOf(Function)) <= max_size => \A f \in Function : memory.built[f] <= 1
  <2>1. SUFFICES ASSUME Small, NEW f \in Function PROVE memory.built[f] <= 1
    BY DEF Small
  <2>2. memory.built[f] = 0 \/ memory.built[f] = 1
    BY <1>1, <2>1 DEF Memory
  <2> QED
    BY <2>2
<1>8. /\ fault = "freed" /\ request = Null => Cardinality(Together(at[1])) > max_size
      /\ fault = "freed" => ~(Cardinality(UnitsOf(Function)) <= max_size)
      /\ fault = "null successor" =>
           \E x \in Places(program) : CalleeOf(x) # Null /\ FirstSuccessor(x) = Null
      /\ fault = "out_of_range" => \E F \in Function \ program.node : CalleesOf(F) # {}
  BY <1>1 DEF Explanation, Small
<1>9. Cardinality(UnitsOf(Function)) \in Nat
  BY <1>1, UnitFacts
<1>10. fault = "freed" => Cardinality(UnitsOf(Function)) > max_size
  BY <1>1, <1>8, <1>9
<1>11. FaultExplained
  BY <1>7, <1>8, <1>10 DEF FaultExplained, Together
<1> QED
  BY <1>6, <1>11 DEF MemorySafe

-----------------------------------------------------------------------------
(* The theorems.                                                           *)

\* The lists of the graph keep counting each other while it is built.
THEOREM LinksInvariant == Spec => []LinksInv
BY LinksInit, LinksStep, PTL DEF Spec

\* Whatever the program, the size of the cache and the order of the functions: every link
\* of the constructor is known at both ends and leads into the function that is called or
\* from its end to what follows the call, as often the one as the other.
THEOREM LinksAlwaysMirrored == Spec => []LinksMirrored
<1>1. LinksInv => LinksMirrored
  BY DEF LinksInv, LinksMirrored, Mirrored, Explained, Balanced
<1> QED
  BY <1>1, LinksInvariant, PTL

\* Whatever is called and wherever it branches: getPred and getSucc follow the same edges,
\* but for the ways to a block behind a call, which are lost backwards, and the further
\* branches of a block that ends with a call, which are lost forwards.
THEOREM DirectionsAlwaysAgree == Spec => []DirectionsAgree
BY LinksAgree, LinksInvariant, PTL

\* However recursive the program is, a walk with isNoneRecursive does not enter a function
\* again from within, for the call graph it is filtered with has no cycle; and it leaves
\* every block that an edge leaves.
THEOREM EntersAlwaysOnce == Spec => []EntersOnce
BY LinksEnterOnce, LinksInvariant, PTL

\* What the manager holds and what the graph and the search hold on to fit together.
THEOREM MemoryInvariant == Spec => []MemoryInv
BY MemoryInit, MemoryStep, LinksInvariant, PTL DEF Spec

\* However small the cache and large the program: no CFG of a unit that is gone is cached,
\* the constructor reads a block of a destroyed CFG only where a function and what it calls
\* take more units than the cache keeps, the search only where the program does, and
\* nodes.at throws only for functions that call others and have no node.
THEOREM AlwaysMemorySafe == Spec => []MemorySafe
BY SoundIsSafe, LinksInvariant, MemoryInvariant, PTL

=============================================================================
