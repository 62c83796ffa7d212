---------------------------- MODULE CFGPathsProofs ----------------------------
(***************************************************************************)
(* What the enumeration finds, for every graph and every pair of limits:   *)
(*   - what getNonRecursiveSucc returns for a block are successors of a    *)
(*     block that the path has been through (CutSuccFacts, SourceOnPath),  *)
(*     so the paths found are ways of the program, and each block has a    *)
(*     lower rank than the one before, so none comes twice (RankFalls);    *)
(*   - the list of paths is shared by all levels of the recursion, the     *)
(*     path is not, and each level tests both before it goes on (Bounded). *)
(***************************************************************************)
EXTENDS CFGPaths, SequenceLemmas

\* A sequence, of whatever.
IsSequence(s) == \E S : s \in Seq(S)

PathsShort == \A p \in ToSet(reachablePath) : Len(p) <= pathlen

Bounded ==
  /\ limit \in Limits
  /\ IsSequence(calls)
  /\ IsSequence(reachablePath)
  /\ Len(reachablePath) <= pathnum
  /\ PathsShort

-----------------------------------------------------------------------------
(* Sequences whose elements need not be known.                             *)

LEMMA AppendSequence ==
  ASSUME NEW s, IsSequence(s), NEW x
  PROVE  /\ IsSequence(Append(s, x)) /\ Len(s) \in Nat /\ Len(Append(s, x)) = Len(s) + 1
         /\ ToSet(Append(s, x)) = ToSet(s) \cup {x}
<1>1. PICK S : s \in Seq(S)
  BY DEF IsSequence
<1> DEFINE T == S \cup {x}
<1>2. s \in Seq(T) /\ x \in T
  BY <1>1
<1> HIDE DEF T
<1>3. Append(s, x) \in Seq(T) /\ Len(s) \in Nat /\ Len(Append(s, x)) = Len(s) + 1
  BY <1>2
<1>4. ToSet(Append(s, x)) = ToSet(s) \cup {x}
  <2>1. DOMAIN s = 1..Len(s) /\ DOMAIN Append(s, x) = 1..(Len(s) + 1)
    BY <1>2
  <2>2. \A k \in 1..Len(s) : Append(s, x)[k] = s[k]
    BY <1>2
  <2>3. Append(s, x)[Len(s) + 1] = x
    BY <1>2
  <2>4. 1..(Len(s) + 1) = 1..Len(s) \cup {Len(s) + 1}
    BY <1>3
  <2> QED
    BY <2>1, <2>2, <2>3, <2>4 DEF ToSet
<1> QED
  BY <1>3, <1>4 DEF IsSequence

LEMMA FrontSequence ==
  ASSUME NEW s, IsSequence(s), s # <<>>
  PROVE  IsSequence(Front(s))
<1>1. PICK S : s \in Seq(S)
  BY DEF IsSequence
<1>2. Front(s) \in Seq(S)
  BY <1>1 DEF Front
<1> QED
  BY <1>2 DEF IsSequence

\* One element may be exchanged for another.
LEMMA ExceptSequence ==
  ASSUME NEW s, IsSequence(s), NEW k \in DOMAIN s, NEW x
  PROVE  IsSequence([s EXCEPT ![k] = x])
<1>1. PICK S : s \in Seq(S)
  BY DEF IsSequence
<1> DEFINE T == S \cup {x}
<1>2. s \in Seq(T) /\ x \in T
  BY <1>1
<1> HIDE DEF T
<1>3. [s EXCEPT ![k] = x] \in Seq(T)
  BY <1>2
<1> QED
  BY <1>3 DEF IsSequence

-----------------------------------------------------------------------------
(* getNonRecursiveSucc.                                                    *)

\* A graph a function may have.
CFGraph(g) == IsGraph(g) /\ Null \notin Blocks(g)

\* What the successors of a block are.
LEMMA SuccsFacts ==
  ASSUME NEW g, CFGraph(g), NEW b \in Blocks(g)
  PROVE  /\ Succs(g, b) \in Seq(Blocks(g) \cup {Null})
         /\ \A c \in ToSet(Succs(g, b)) \ {Null} :
              \E k \in DOMAIN g.succ[b] : g.succ[b][k].to = c /\ ~g.succ[b][k].pruned
<1>1. g.succ[b] \in Seq(Edge(g))
  BY DEF CFGraph, IsGraph
<1>2. /\ DOMAIN g.succ[b] = 1..Len(g.succ[b]) /\ Len(g.succ[b]) \in Nat
      /\ \A k \in DOMAIN g.succ[b] : g.succ[b][k] \in Edge(g)
  BY <1>1
<1>3. \A e \in Edge(g) : e.to \in Blocks(g) \cup {Null} /\ Target(e) \in Blocks(g) \cup {Null}
  BY DEF Edge, Target
<1> DEFINE s == Succs(g, b)
<1>4. /\ DOMAIN s = 1..Len(g.succ[b])
      /\ \A k \in 1..Len(g.succ[b]) : s[k] = Target(g.succ[b][k]) /\ s[k] \in Blocks(g) \cup {Null}
      /\ s = [k \in 1..Len(g.succ[b]) |-> s[k]]
  BY <1>2, <1>3 DEF Succs
<1>5. s \in Seq(Blocks(g) \cup {Null})
  <2> DEFINE n == Len(g.succ[b])
             A == Blocks(g) \cup {Null}
  <2>1. n \in Nat /\ s = [k \in 1..n |-> s[k]] /\ \A k \in 1..n : s[k] \in A
    BY <1>2, <1>4
  <2> HIDE DEF s, n, A
  <2>2. s \in [1..n -> A]
    BY <2>1
  <2>3. s \in Seq(A)
    BY <2>1, <2>2
  <2> QED
    BY <2>3 DEF A
<1>6. ASSUME NEW c \in ToSet(s), c # Null
      PROVE  \E k \in DOMAIN g.succ[b] : g.succ[b][k].to = c /\ ~g.succ[b][k].pruned
  <2> HIDE DEF s
  <2>1. PICK k \in DOMAIN g.succ[b] : c = Target(g.succ[b][k])
    BY <1>2, <1>4 DEF ToSet
  <2> QED
    BY <1>6, <2>1 DEF Target
<1> QED
  BY <1>5, <1>6

\* An edge counts among the predecessors of the block it leads to.
LEMMA PredEdgesFacts ==
  ASSUME NEW g, NEW b
  PROVE  /\ \A e \in PredEdges(g, b) : e[1] \in Blocks(g)
         /\ \A c \in Blocks(g) : \A k \in DOMAIN g.succ[c] :
              g.succ[c][k].to = b => \E e \in PredEdges(g, b) : e[1] = c
<1>1. ASSUME NEW e \in PredEdges(g, b) PROVE e[1] \in Blocks(g)
  BY DEF PredEdges
<1>2. ASSUME NEW c \in Blocks(g), NEW k \in DOMAIN g.succ[c], g.succ[c][k].to = b
      PROVE  <<c, k>> \in PredEdges(g, b)
  BY <1>2 DEF PredEdges
<1>3. ASSUME NEW c \in Blocks(g), NEW k \in DOMAIN g.succ[c], g.succ[c][k].to = b
      PROVE  \E e \in PredEdges(g, b) : e[1] = c
  <2>1. <<c, k>>[1] = c
    OBVIOUS
  <2> QED
    BY <1>2, <1>3, <2>1
<1> QED
  BY <1>1, <1>3

\* The condition of the do loop is the only block that leads to the one that leads back.
LEMMA DoConditionFacts ==
  ASSUME NEW g, CFGraph(g), NEW b \in Blocks(g), LoopBackOfDo(g, b)
  PROVE  /\ DoCondition(g, b) \in Blocks(g) /\ DoCondition(g, b) < b
         /\ \A c \in Blocks(g) : b \in ToSet(Succs(g, c)) => c = DoCondition(g, b)
<1> DEFINE E == PredEdges(g, b)
<1>1. PICK e \in E : E = {e} /\ e[1] < b
  BY DEF LoopBackOfDo
<1>3. (CHOOSE d \in E : TRUE) = e
  BY <1>1
<1>4. DoCondition(g, b) = e[1] /\ e[1] \in Blocks(g) /\ e[1] < b
  BY <1>1, <1>3, PredEdgesFacts DEF DoCondition
<1>5. ASSUME NEW c \in Blocks(g), b \in ToSet(Succs(g, c)) PROVE c = e[1]
  <2>1. b # Null
    BY DEF CFGraph
  <2>2. \E k \in DOMAIN g.succ[c] : g.succ[c][k].to = b /\ ~g.succ[c][k].pruned
    <3>1. b \in ToSet(Succs(g, c)) \ {Null}
      BY <1>5, <2>1
    <3> QED
      BY <3>1, SuccsFacts
  <2>3. \E d \in E : d[1] = c
    BY <2>2, PredEdgesFacts
  <2> QED
    BY <1>1, <2>3
<1> QED
  BY <1>4, <1>5


\* A block that leads back has one successor, above it.
LEMMA LeadsBackFacts ==
  ASSUME NEW g, CFGraph(g), NEW b \in Blocks(g), LeadsBack(g, b)
  PROVE  /\ Target(g.succ[b][1]) \in Blocks(g)
         /\ \A c \in ToSet(Succs(g, b)) \ {Null} : c > b
<1>1. g.succ[b] \in Seq(Edge(g)) /\ Len(g.succ[b]) = 1
  BY DEF CFGraph, IsGraph, LeadsBack
<1>2. DOMAIN g.succ[b] = {1} /\ g.succ[b][1] \in Edge(g)
  BY <1>1
<1>3. Target(g.succ[b][1]) \in Blocks(g)
  BY <1>2 DEF LeadsBack, Edge, Target
<1>4. ToSet(Succs(g, b)) = {Target(g.succ[b][1])}
  BY <1>2 DEF ToSet, Succs
<1>5. Target(g.succ[b][1]) > b
  BY DEF LeadsBack
<1> QED
  BY <1>3, <1>4, <1>5

\* The search for the head of a loop ends at a block, or without one.
LEMMA HeadOfLoopType ==
  ASSUME NEW g, CFGraph(g), NEW b \in Blocks(g), LeadsBack(g, b)
  PROVE  HeadOfLoop(g, b) \in Blocks(g) \cup {Null}
BY DEF HeadOfLoop

LEMMA LoopHeadType ==
  ASSUME NEW g, CFGraph(g), NEW b \in Blocks(g), LeadsBack(g, b)
  PROVE  LoopHead(g, b) \in Blocks(g) \cup {Null}
BY LeadsBackFacts, HeadOfLoopType DEF LoopHead

\* The block whose successors the code takes for those of b.
Source(g, b) ==
  IF LoopBackOfDo(g, b) THEN DoCondition(g, b)
  ELSE IF LeadsBack(g, b) THEN LoopHead(g, b)
  ELSE b

CutEdge(g, b, c) ==
  /\ c \in Blocks(g) /\ Source(g, b) \in Blocks(g)
  /\ c \in ToSet(Succs(g, Source(g, b)))
  /\ LoopBackOfDo(g, b) \/ LeadsBack(g, b) => c < b

LEMMA BelowFacts ==
  ASSUME NEW g, CFGraph(g), NEW c \in Blocks(g), NEW b
  PROVE  /\ Below(g, c, b) \in Seq(Blocks(g) \cup {Null})
         /\ \A d \in ToSet(Below(g, c, b)) : d \in Blocks(g) /\ d < b /\ d \in ToSet(Succs(g, c))
<1>1. Succs(g, c) \in Seq(Blocks(g) \cup {Null})
  BY SuccsFacts
<1> HIDE DEF Blocks
<1>2. /\ Within(Succs(g, c), {s \in Blocks(g) : s < b}) \in Seq(Blocks(g) \cup {Null})
      /\ ToSet(Within(Succs(g, c), {s \in Blocks(g) : s < b})) = ToSet(Succs(g, c)) \cap {s \in Blocks(g) : s < b}
  BY <1>1, WithinFacts
<1> QED
  BY <1>2 DEF Below

\* What getNonRecursiveSucc returns for a block: blocks or null pointers, each block a
\* successor of the source, and one below b where the source is another block.
LEMMA CutSuccFacts ==
  ASSUME NEW g, CFGraph(g), NEW b \in Blocks(g)
  PROVE  /\ CutSucc(g, b) \in Seq(Blocks(g) \cup {Null})
         /\ \A c \in ToSet(CutSucc(g, b)) \ {Null} : CutEdge(g, b, c)
<1>0. <<>> \in Seq(Blocks(g) \cup {Null}) /\ ToSet(<<>>) = {}
  BY DEF ToSet
<1>1. CASE LoopBackOfDo(g, b)
  <2>1. CutSucc(g, b) = Below(g, DoCondition(g, b), b) /\ Source(g, b) = DoCondition(g, b)
    BY <1>1 DEF CutSucc, Source
  <2>2. DoCondition(g, b) \in Blocks(g)
    BY <1>1, DoConditionFacts
  <2> QED
    BY <2>1, <2>2, BelowFacts DEF CutEdge
<1>2. CASE ~LoopBackOfDo(g, b) /\ ~LeadsBack(g, b)
  <2>1. CutSucc(g, b) = <<>> \/ CutSucc(g, b) = Succs(g, b)
    BY <1>2 DEF CutSucc
  <2>2. Source(g, b) = b
    BY <1>2 DEF Source
  <2>3. Succs(g, b) \in Seq(Blocks(g) \cup {Null})
    BY SuccsFacts
  <2>4. ToSet(Succs(g, b)) \subseteq Blocks(g) \cup {Null}
    BY <2>3 DEF ToSet
  <2>5. ASSUME NEW c \in ToSet(Succs(g, b)) \ {Null} PROVE CutEdge(g, b, c)
    BY <1>2, <2>2, <2>4 DEF CutEdge
  <2> QED
    BY <1>0, <2>1, <2>3, <2>5
<1>3. CASE ~LoopBackOfDo(g, b) /\ LeadsBack(g, b)
  <2>1. Source(g, b) = LoopHead(g, b) /\ LoopHead(g, b) \in Blocks(g) \cup {Null}
    BY <1>3, LoopHeadType DEF Source
  <2>2. CASE LoopHead(g, b) = Null
    <3>1. CutSucc(g, b) = <<>>
      BY <1>3, <2>2 DEF CutSucc
    <3> QED
      BY <1>0, <3>1
  <2>3. CASE LoopHead(g, b) # Null
    <3>1. CutSucc(g, b) = Below(g, LoopHead(g, b), b)
      BY <1>3, <2>3 DEF CutSucc
    <3> QED
      BY <2>1, <2>3, <3>1, BelowFacts DEF CutEdge
  <2> QED
    BY <2>2, <2>3
<1> QED
  BY <1>1, <1>2, <1>3

-----------------------------------------------------------------------------
(* Paths of the cut graph.                                                 *)

Entry(g) == Cardinality(Blocks(g)) - 1

IsCutPath(g, p) ==
  /\ p \in Seq(Blocks(g)) /\ p # <<>> /\ p[1] = Entry(g)
  /\ \A k \in 2..Len(p) : CutEdge(g, p[k - 1], p[k])

\* Blocks are numbers, the entry is the last of them, and no block leads to it.
LEMMA BlocksFacts ==
  ASSUME NEW g, CFGraph(g)
  PROVE  /\ Blocks(g) \subseteq Nat /\ Entry(g) \in Blocks(g) /\ 0 \in Blocks(g)
         /\ \A b \in Blocks(g) : b <= Entry(g) /\ Entry(g) \notin ToSet(Succs(g, b))
<1> DEFINE n == Cardinality(Blocks(g))
<1>1. n \in Nat /\ Blocks(g) = 0..(n - 1) /\ 0 \in Blocks(g)
  BY FS_CardinalityType DEF CFGraph, IsGraph, Blocks
<1>2. Entry(g) = n - 1
  BY DEF Entry
<1> HIDE DEF n
<1>3. Blocks(g) \subseteq Nat /\ n - 1 \in Blocks(g) /\ \A b \in Blocks(g) : b <= n - 1
  BY <1>1
<1>4. ASSUME NEW b \in Blocks(g), n - 1 \in ToSet(Succs(g, b)) PROVE FALSE
  <2>1. n - 1 \in ToSet(Succs(g, b)) \ {Null}
    BY <1>3, <1>4 DEF CFGraph
  <2>2. \E k \in DOMAIN g.succ[b] : g.succ[b][k].to = n - 1 /\ ~g.succ[b][k].pruned
    BY <2>1, SuccsFacts
  <2> QED
    BY <2>2 DEF CFGraph, IsGraph, n, Blocks
<1> QED
  BY <1>1, <1>2, <1>3, <1>4

LEMMA ExtendPath ==
  ASSUME NEW g, NEW p, IsCutPath(g, p), NEW c \in Blocks(g), CutEdge(g, p[Len(p)], c)
  PROVE  IsCutPath(g, Append(p, c))
<1> DEFINE q == Append(p, c)
           B == Blocks(g)
<1>1. p \in Seq(B) /\ p # <<>> /\ c \in B
  BY DEF IsCutPath
<1> HIDE DEF B
<1>2. Len(p) \in Nat /\ Len(p) >= 1 /\ Len(q) = Len(p) + 1 /\ q \in Seq(B) /\ q # <<>>
  BY <1>1
<1>3. \A k \in 1..Len(p) : q[k] = p[k]
  BY <1>1
<1>4. q[Len(p) + 1] = c
  BY <1>1
<1> HIDE DEF q
<1>5. ASSUME NEW k \in 2..Len(q) PROVE CutEdge(g, q[k - 1], q[k])
  <2>1. CASE k = Len(p) + 1
    <3>1. k - 1 = Len(p) /\ Len(p) \in 1..Len(p)
      BY <1>2, <2>1
    <3>2. q[k - 1] = p[Len(p)] /\ q[k] = c
      BY <1>3, <1>4, <2>1, <3>1
    <3> QED
      BY <3>2
  <2>2. CASE k # Len(p) + 1
    <3>1. k \in 2..Len(p) /\ k \in 1..Len(p) /\ k - 1 \in 1..Len(p)
      BY <1>2, <2>2
    <3>2. q[k] = p[k] /\ q[k - 1] = p[k - 1]
      BY <1>3, <3>1
    <3> QED
      BY <3>1, <3>2 DEF IsCutPath
  <2> QED
    BY <2>1, <2>2
<1>6. q[1] = Entry(g)
  BY <1>2, <1>3 DEF IsCutPath
<1>7. IsCutPath(g, q)
  BY <1>2, <1>5, <1>6 DEF IsCutPath, B
<1> QED
  BY <1>7 DEF q

LEMMA ShortenPath ==
  ASSUME NEW g, NEW p, IsCutPath(g, p), NEW q \in Seq(Blocks(g)), q # <<>>,
         Len(q) = Len(p) - 1, \A k \in 1..Len(q) : q[k] = p[k]
  PROVE  IsCutPath(g, q)
<1> DEFINE B == Blocks(g)
<1>1. p \in Seq(B) /\ q \in Seq(B) /\ q # <<>>
  BY DEF IsCutPath
<1> HIDE DEF B
<1>2. Len(q) \in Nat /\ Len(q) >= 1 /\ Len(p) = Len(q) + 1
  BY <1>1
<1>3. ASSUME NEW k \in 2..Len(q) PROVE CutEdge(g, q[k - 1], q[k])
  <2>1. k \in 2..Len(p) /\ k \in 1..Len(q) /\ k - 1 \in 1..Len(q)
    BY <1>2
  <2>2. q[k] = p[k] /\ q[k - 1] = p[k - 1]
    BY <2>1
  <2> QED
    BY <2>1, <2>2 DEF IsCutPath
<1>4. q[1] = Entry(g)
  BY <1>2 DEF IsCutPath
<1> QED
  BY <1>1, <1>3, <1>4 DEF IsCutPath, B

\* A rank that every step along the path makes smaller: a block that leads back from the
\* condition of a do loop comes right before it, every other block after the lower ones.
Rank(g, b) == IF LoopBackOfDo(g, b) THEN 2 * DoCondition(g, b) - 1 ELSE 2 * b

LEMMA RankFalls ==
  ASSUME NEW g, CFGraph(g), Numbered(g), NEW b \in Blocks(g), NEW c \in Blocks(g), CutEdge(g, b, c)
  PROVE  Rank(g, c) < Rank(g, b)
<1> DEFINE d == DoCondition(g, b)
           e == DoCondition(g, c)
<1>1. b \in Nat /\ c \in Nat /\ c # Null
  BY BlocksFacts DEF CFGraph
<1>2. LoopBackOfDo(g, b) => d \in Blocks(g) /\ d \in Nat /\ d < b
  BY BlocksFacts, DoConditionFacts
<1>3. LoopBackOfDo(g, c) => e \in Blocks(g) /\ e \in Nat /\ e < c
  BY BlocksFacts, DoConditionFacts
<1>4. CASE LoopBackOfDo(g, b)
  <2>1. c \in ToSet(Succs(g, d)) \ {Null} /\ c < b
    BY <1>1, <1>4 DEF CutEdge, Source
  <2>2. ~LoopBackOfDo(g, c)
    <3>1. SUFFICES ASSUME LoopBackOfDo(g, c) PROVE FALSE
      OBVIOUS
    <3>2. e = d
      BY <1>2, <1>4, <2>1, <3>1, DoConditionFacts
    <3>3. b = c
      BY <1>4, <3>1, <3>2 DEF Numbered
    <3> QED
      BY <1>1, <2>1, <3>3
  <2>3. ~LeadsBack(g, d)
    <3>1. SUFFICES ASSUME LeadsBack(g, d) PROVE FALSE
      OBVIOUS
    <3>2. g.succ[d] \in Seq(Edge(g)) /\ Len(g.succ[d]) = 1
      BY <1>2, <1>4, <3>1 DEF CFGraph, IsGraph, LeadsBack
    <3>3. DOMAIN g.succ[d] = {1}
      BY <3>2
    <3>4. PICK x \in PredEdges(g, b) : x[1] = d /\ ~g.succ[x[1]][x[2]].pruned
      <4>1. PICK x \in PredEdges(g, b) : PredEdges(g, b) = {x} /\ ~g.succ[x[1]][x[2]].pruned
        BY <1>4 DEF LoopBackOfDo
      <4>2. d = x[1]
        BY <4>1 DEF DoCondition
      <4> QED
        BY <4>1, <4>2
    <3>5. \E i \in DOMAIN g.succ[d] : g.succ[d][i].to = b
      <4>1. PICK y \in Blocks(g) : \E i \in DOMAIN g.succ[y] : x = <<y, i>> /\ g.succ[y][i].to = b
        BY DEF PredEdges
      <4>2. y = d
        BY <3>4, <4>1
      <4> QED
        BY <4>1, <4>2
    <3>6. \E k \in DOMAIN g.succ[d] : g.succ[d][k].to = c /\ ~g.succ[d][k].pruned
      BY <1>2, <1>4, <2>1, SuccsFacts
    <3>7. b = c
      BY <3>3, <3>5, <3>6
    <3> QED
      BY <1>1, <2>1, <3>7
  <2>4. c < d
    BY <1>2, <1>4, <2>1, <2>2, <2>3 DEF Numbered
  <2>5. Rank(g, b) = 2 * d - 1 /\ Rank(g, c) = 2 * c
    BY <1>4, <2>2 DEF Rank
  <2> HIDE DEF d
  <2> QED
    BY <1>1, <1>2, <1>4, <2>4, <2>5
<1>5. CASE ~LoopBackOfDo(g, b) /\ LoopBackOfDo(g, c)
  <2>1. Rank(g, b) = 2 * b /\ Rank(g, c) = 2 * e - 1
    BY <1>5 DEF Rank
  <2>2. e <= b
    <3>1. CASE LeadsBack(g, b)
      <4>1. c < b
        BY <3>1 DEF CutEdge
      <4> HIDE DEF e
      <4> QED
        BY <1>1, <1>3, <1>5, <4>1
    <3>2. CASE ~LeadsBack(g, b)
      <4>1. c \in ToSet(Succs(g, b))
        BY <1>5, <3>2 DEF CutEdge, Source
      <4>2. b = e
        BY <1>5, <4>1, DoConditionFacts
      <4> QED
        BY <1>1, <4>2
    <3> QED
      BY <3>1, <3>2
  <2> HIDE DEF e
  <2> QED
    BY <1>1, <1>3, <1>5, <2>1, <2>2
<1>6. CASE ~LoopBackOfDo(g, b) /\ ~LoopBackOfDo(g, c)
  <2>1. Rank(g, b) = 2 * b /\ Rank(g, c) = 2 * c
    BY <1>6 DEF Rank
  <2>2. c < b
    <3>1. CASE LeadsBack(g, b)
      BY <3>1 DEF CutEdge
    <3>2. CASE ~LeadsBack(g, b)
      <4>1. c \in ToSet(Succs(g, b)) \ {Null}
        BY <1>1, <1>6, <3>2 DEF CutEdge, Source
      <4> QED
        BY <1>6, <3>2, <4>1 DEF Numbered
    <3> QED
      BY <3>1, <3>2
  <2> QED
    BY <1>1, <2>1, <2>2
<1> QED
  BY <1>4, <1>5, <1>6

\* No block lies on a path twice.
LEMMA BlocksDiffer ==
  ASSUME NEW g, CFGraph(g), Numbered(g), NEW p, IsCutPath(g, p)
  PROVE  Cardinality(ToSet(p)) = Len(p)
<1> DEFINE n == Len(p)
<1>1. p \in Seq(Blocks(g)) /\ n \in Nat /\ DOMAIN p = 1..n /\ \A k \in 1..n : p[k] \in Blocks(g)
  BY DEF IsCutPath
<1>2. ASSUME NEW k \in 1..n PROVE Rank(g, p[k]) \in Int
  <2>1. p[k] \in Blocks(g) /\ p[k] \in Nat
    BY <1>1, BlocksFacts
  <2>2. LoopBackOfDo(g, p[k]) => DoCondition(g, p[k]) \in Nat
    BY <2>1, BlocksFacts, DoConditionFacts
  <2> QED
    BY <2>1, <2>2 DEF Rank
<1> DEFINE r == [k \in 1..n |-> Rank(g, p[k])]
<1>3. \A k \in 1..n : r[k] \in Int
  BY <1>2
<1>4. ASSUME NEW k \in 2..n PROVE r[k] < r[k - 1]
  <2>1. k \in 1..n /\ k - 1 \in 1..n
    BY <1>1
  <2>2. Rank(g, p[k]) < Rank(g, p[k - 1])
    BY <1>1, <2>1, RankFalls DEF IsCutPath
  <2> QED
    BY <2>1, <2>2
<1>5. \A i, j \in 1..n : p[i] = p[j] => r[i] = r[j]
  OBVIOUS
<1> HIDE DEF r
<1>6. ASSUME NEW i \in 1..n, NEW j \in 1..n, i < j PROVE r[j] < r[i]
  <2> DEFINE P == {k \in 0..n : i < k => r[k] < r[i]}
  <2>1. 0 \in P
    BY <1>1
  <2>2. ASSUME NEW k \in 1..n, k - 1 \in P PROVE k \in P
    <3>1. SUFFICES ASSUME i < k PROVE r[k] < r[i]
      BY <1>1
    <3>2. k \in 2..n /\ k - 1 \in 1..n
      BY <1>1, <3>1
    <3>3. r[k] < r[k - 1]
      BY <1>4, <3>2
    <3>4. i = k - 1 \/ i < k - 1
      BY <1>1, <3>1
    <3>5. i < k - 1 => r[k - 1] < r[i]
      BY <2>2
    <3> QED
      BY <1>3, <3>2, <3>3, <3>4, <3>5
  <2> HIDE DEF P
  <2>3. 0..n \subseteq P
    BY <1>1, <2>1, <2>2, BoundedInduction
  <2>4. j \in P
    BY <1>1, <2>3
  <2> QED
    BY <1>6, <2>4 DEF P
<1>7. \A i, j \in 1..n : p[i] = p[j] => i = j
  <2>1. SUFFICES ASSUME NEW i \in 1..n, NEW j \in 1..n, p[i] = p[j], i < j PROVE FALSE
    BY <1>1
  <2> QED
    BY <1>3, <1>5, <1>6, <2>1
<1> QED
  BY <1>1, <1>7, DistinctSet DEF Distinct

\* The source of a block is on every path that goes on from it, no later than the block.
LEMMA SourceOnPath ==
  ASSUME CFGraph(cfg), LoopsNested, NEW p, IsCutPath(cfg, p), NEW n \in 1..(Len(p) - 1)
  PROVE  \E j \in 1..n : p[j] = Source(cfg, p[n])
<1> DEFINE Bad == {m \in 1..(Len(p) - 1) : \A j \in 1..m : p[j] # Source(cfg, p[m])}
<1> SUFFICES ASSUME Bad # {} PROVE FALSE
  OBVIOUS
<1>1. p \in Seq(Blocks(cfg)) /\ Len(p) \in Nat /\ p[1] = Entry(cfg)
  BY DEF IsCutPath
<1>2. \A k \in 1..Len(p) : p[k] \in Blocks(cfg) /\ p[k] # Null /\ p[k] \in Nat
  BY <1>1, BlocksFacts DEF CFGraph
<1>3. ASSUME NEW k \in 2..Len(p)
      PROVE  /\ Source(cfg, p[k - 1]) \in Blocks(cfg)
             /\ p[k] \in ToSet(Succs(cfg, Source(cfg, p[k - 1])))
             /\ p[k] \in Follow(Source(cfg, p[k - 1]))
  <2>1. k \in 1..Len(p) /\ CutEdge(cfg, p[k - 1], p[k])
    BY <1>1 DEF IsCutPath
  <2> QED
    BY <1>2, <2>1 DEF CutEdge, Follow
<1>4. PICK n0 \in Bad : \A m \in Bad : n0 <= m
  <2>1. Bad \subseteq Nat
    OBVIOUS
  <2> HIDE DEF Bad
  <2> QED
    BY <2>1, LeastNumber
<1> DEFINE x == p[n0]
<1>5. n0 \in 1..(Len(p) - 1) /\ n0 \in 1..Len(p) /\ n0 + 1 \in 2..Len(p) /\ (n0 + 1) - 1 = n0
  BY <1>1
<1>6. ASSUME NEW k \in 2..n0
      PROVE  /\ k \in 2..Len(p)
             /\ \E j \in 1..(k - 1) : p[j] = Source(cfg, p[k - 1])
  <2>1. k - 1 \in 1..(Len(p) - 1) /\ ~(n0 <= k - 1) /\ k \in 2..Len(p)
    BY <1>1, <1>5
  <2>2. k - 1 \notin Bad
    BY <1>4, <2>1
  <2> QED
    BY <2>1, <2>2
<1>7. Source(cfg, x) \in Blocks(cfg)
  BY <1>3, <1>5
<1>8. \A j \in 1..n0 : p[j] # Source(cfg, x)
  OBVIOUS
<1>9. n0 \in 1..n0
  BY <1>5
<1>10. CASE LoopBackOfDo(cfg, x)
  <2>1. Source(cfg, x) = DoCondition(cfg, x)
    BY <1>10 DEF Source
  <2>2. x \in ToSet(Succs(cfg, DoCondition(cfg, x)))
    <3>1. PICK e \in PredEdges(cfg, x) : PredEdges(cfg, x) = {e} /\ ~cfg.succ[e[1]][e[2]].pruned
      BY <1>10 DEF LoopBackOfDo
    <3>2. DoCondition(cfg, x) = e[1]
      BY <3>1 DEF DoCondition
    <3>30. PICK c \in Blocks(cfg) : \E k \in DOMAIN cfg.succ[c] : e = <<c, k>> /\ cfg.succ[c][k].to = x
      BY DEF PredEdges
    <3>3. PICK k \in DOMAIN cfg.succ[c] : e = <<c, k>> /\ cfg.succ[c][k].to = x
      BY <3>30
    <3>4. e[1] = c /\ e[2] = k
      BY <3>3
    <3>5. Target(cfg.succ[c][k]) = x
      BY <3>1, <3>3, <3>4 DEF Target
    <3>6. k \in DOMAIN Succs(cfg, c) /\ Succs(cfg, c)[k] = x
      BY <3>3, <3>5 DEF Succs
    <3> HIDE DEF x
    <3> QED
      BY <3>2, <3>4, <3>6 DEF ToSet
  <2>3. n0 # 1
    <3>1. DoCondition(cfg, x) \in Blocks(cfg)
      BY <1>7, <2>1
    <3>2. x # Entry(cfg)
      BY <2>2, <3>1, BlocksFacts
    <3> QED
      BY <1>1, <3>2
  <2>4. n0 \in 2..n0
    BY <1>5, <2>3
  <2>5. PICK j \in 1..(n0 - 1) : p[j] = Source(cfg, p[n0 - 1])
    BY <1>6, <2>4
  <2>6. Source(cfg, p[n0 - 1]) \in Blocks(cfg) /\ x \in ToSet(Succs(cfg, Source(cfg, p[n0 - 1])))
    BY <1>3, <1>6, <2>4
  <2>7. Source(cfg, p[n0 - 1]) = DoCondition(cfg, x)
    BY <1>2, <1>5, <1>10, <2>6, DoConditionFacts
  <2>8. j \in 1..n0
    BY <1>5
  <2> QED
    BY <1>8, <2>1, <2>5, <2>7, <2>8
<1>11. CASE ~LoopBackOfDo(cfg, x) /\ LeadsBack(cfg, x)
  <2> DEFINE h == LoopHead(cfg, x)
             D == x..h
             In == {k \in 1..n0 : p[k] \in D}
  <2>1. Source(cfg, x) = h /\ h \in Blocks(cfg) /\ h # Null /\ h \in Nat /\ h <= Entry(cfg)
    BY <1>7, <1>11, BlocksFacts DEF Source, CFGraph
  <2>2. x < h /\ \A c \in Blocks(cfg) \ D : Follow(c) \cap D \subseteq {h}
    BY <1>2, <1>5, <1>11, <2>1 DEF LoopsNested
  <2>3. n0 \in In
    BY <1>2, <1>5, <1>9, <2>1, <2>2
  <2>4. PICK i \in In : \A k \in In : i <= k
    <3>1. In \subseteq Nat /\ In # {}
      BY <2>3
    <3> HIDE DEF In
    <3> QED
      BY <3>1, LeastNumber
  <2>5. i \in 1..n0 /\ p[i] \in D /\ i \in 1..Len(p)
    BY <1>5
  <2>6. CASE i = 1
    <3>1. p[i] <= h
      BY <1>2, <2>1, <2>5
    <3>2. p[i] = Entry(cfg) /\ Entry(cfg) \in Nat
      BY <1>1, <2>6, BlocksFacts
    <3>3. p[i] = h
      BY <2>1, <3>1, <3>2
    <3> QED
      BY <1>8, <2>1, <2>5, <3>3
  <2>7. CASE i # 1
    <3>1. i \in 2..n0
      BY <1>5, <2>5, <2>7
    <3>2. PICK j \in 1..(i - 1) : p[j] = Source(cfg, p[i - 1])
      BY <1>6, <3>1
    <3>3. p[i] \in Follow(p[j])
      BY <1>3, <1>6, <3>1, <3>2
    <3>4. j \in 1..n0 /\ ~(i <= j) /\ j \in 1..Len(p)
      BY <1>5, <3>1
    <3>5. p[j] \in Blocks(cfg) \ D
      BY <1>2, <2>4, <3>4
    <3>6. p[i] = h
      BY <2>2, <2>5, <3>3, <3>5
    <3> QED
      BY <1>8, <2>1, <2>5, <3>6
  <2> QED
    BY <2>6, <2>7
<1>12. CASE ~LoopBackOfDo(cfg, x) /\ ~LeadsBack(cfg, x)
  <2>1. Source(cfg, x) = x
    BY <1>12 DEF Source
  <2> QED
    BY <1>8, <1>9, <2>1
<1> QED
  BY <1>10, <1>11, <1>12

-----------------------------------------------------------------------------
(* The calls of the recursion hold a path of the cut graph, and so does    *)
(* every member of the list.                                               *)

Frame(g) == [block : Blocks(g), childs : Seq(Blocks(g) \cup {Null})]

\* The blocks of some calls.
Way(cs) == [k \in DOMAIN cs |-> cs[k].block]

\* What is still to come of a call's successors leads on from its block.
LeadsOn(g, call) == \A c \in ToSet(call.childs) \ {Null} : CutEdge(g, call.block, c)

Found(g, p) == IsCutPath(g, p) /\ p[Len(p)] = exit

CutPaths ==
  /\ cfg \in Graphs /\ limit \in Limits
  /\ calls \in Seq(Frame(cfg))
  /\ calls # <<>> => IsCutPath(cfg, Way(calls))
  /\ \A k \in DOMAIN calls : LeadsOn(cfg, calls[k])
  /\ reachablePath \in Seq(Seq(Blocks(cfg)))
  /\ \A p \in ToSet(reachablePath) : Found(cfg, p)
  /\ fault \in {"none", "null successor", "no terminator"}

LEMMA GraphFacts ==
  ASSUME NEW g \in Graphs
  PROVE  CFGraph(g)
BY PathsAssumption DEF CFGraph

LEMMA CallFacts ==
  ASSUME CFGraph(cfg), NEW b \in Blocks(cfg)
  PROVE  Call(b) \in Frame(cfg) /\ Call(b).block = b /\ LeadsOn(cfg, Call(b))
<1>1. CutSucc(cfg, b) \in Seq(Blocks(cfg) \cup {Null})
  BY CutSuccFacts
<1>2. Call(b).block = b /\ Call(b).childs = CutSucc(cfg, b)
  BY DEF Call
<1>3. Call(b) \in Frame(cfg)
  BY <1>1 DEF Call, Frame
<1>4. LeadsOn(cfg, Call(b))
  BY <1>2, CutSuccFacts DEF LeadsOn
<1> QED
  BY <1>2, <1>3, <1>4

\* The path of some calls has the block of each.
LEMMA WayFacts ==
  ASSUME NEW g, NEW cs \in Seq(Frame(g))
  PROVE  /\ Way(cs) \in Seq(Blocks(g)) /\ Len(Way(cs)) = Len(cs) /\ Len(cs) \in Nat
         /\ \A k \in 1..Len(cs) : Way(cs)[k] = cs[k].block
<1> DEFINE n == Len(cs)
           w == Way(cs)
<1>1. n \in Nat /\ DOMAIN cs = 1..n /\ \A k \in 1..n : cs[k] \in Frame(g)
  OBVIOUS
<1>2. w = [k \in 1..n |-> w[k]] /\ \A k \in 1..n : w[k] = cs[k].block
  BY <1>1 DEF Way
<1>3. \A k \in 1..n : w[k] \in Blocks(g)
  BY <1>1, <1>2 DEF Frame
<1> HIDE DEF n, w
<1>4. w \in [1..n -> Blocks(g)]
  BY <1>2, <1>3
<1>5. w \in Seq(Blocks(g)) /\ Len(w) = n
  BY <1>1, <1>4
<1> QED
  BY <1>1, <1>2, <1>5 DEF n, w

\* A call that has one successor less to come.
LEMMA AdvancedFacts ==
  ASSUME CutPaths, calls # <<>>, Last(calls).childs # <<>>
  PROVE  /\ Advanced \in Seq(Frame(cfg)) /\ Way(Advanced) = Way(calls) /\ Len(Advanced) = Len(calls)
         /\ \A k \in DOMAIN Advanced : LeadsOn(cfg, Advanced[k])
<1> DEFINE n == Len(calls)
           g == cfg
           T == Frame(g)
           C == Seq(Blocks(g) \cup {Null})
           last == calls[n]
           next == [last EXCEPT !.childs = Tail(last.childs)]
<1>1. calls \in Seq(T) /\ calls # <<>> /\ \A k \in DOMAIN calls : LeadsOn(g, calls[k])
  BY DEF CutPaths
<1>2. n \in Nat /\ n >= 1 /\ DOMAIN calls = 1..n /\ n \in 1..n /\ last \in T
  <2> HIDE DEF T
  <2> QED
    BY <1>1
<1>3. last.childs \in C /\ last.childs # <<>> /\ last.block \in Blocks(g)
  BY <1>2 DEF Frame, Last
<1>4. Tail(last.childs) \in C
  BY <1>3
<1>5. next \in T /\ next.block = last.block /\ next.childs = Tail(last.childs)
  BY <1>2, <1>4 DEF Frame
<1>6. ToSet(Tail(last.childs)) \subseteq ToSet(last.childs)
  <2> DEFINE s == last.childs
  <2>1. s \in C /\ s # <<>>
    BY <1>3
  <2> HIDE DEF s, C
  <2>2. s \in Seq(Blocks(g) \cup {Null})
    BY <2>1 DEF C
  <2>3. /\ DOMAIN s = 1..Len(s) /\ DOMAIN Tail(s) = 1..(Len(s) - 1) /\ Len(s) \in Nat
        /\ \A k \in 1..(Len(s) - 1) : Tail(s)[k] = s[k + 1]
    BY <2>1, <2>2
  <2>4. \A k \in 1..(Len(s) - 1) : k + 1 \in 1..Len(s)
    BY <2>3
  <2>5. ToSet(Tail(s)) \subseteq ToSet(s)
    BY <2>3, <2>4 DEF ToSet
  <2> QED
    BY <2>5 DEF s
<1>7. LeadsOn(g, next)
  BY <1>1, <1>2, <1>5, <1>6 DEF LeadsOn
<1>8. Advanced = [calls EXCEPT ![n] = next]
  BY DEF Advanced
<1> DEFINE cs == Advanced
<1> HIDE DEF T, next, last
<1>9. /\ cs \in Seq(T) /\ Len(cs) = n /\ DOMAIN cs = 1..n
      /\ \A k \in 1..n : cs[k] = IF k = n THEN next ELSE calls[k]
  BY <1>1, <1>2, <1>5, <1>8
<1>10. \A k \in 1..n : cs[k].block = calls[k].block
  BY <1>2, <1>5, <1>9 DEF last
<1>11. Way(cs) = Way(calls)
  BY <1>2, <1>9, <1>10 DEF Way
<1>12. \A k \in DOMAIN cs : LeadsOn(g, cs[k])
  BY <1>1, <1>2, <1>7, <1>9
<1> QED
  BY <1>9, <1>11, <1>12 DEF T

\* The successor that is next leads on from the end of the path.
LEMMA HeadLeadsOn ==
  ASSUME CutPaths, calls # <<>>, Last(calls).childs # <<>>, NEW b, b = Head(Last(calls).childs), b # Null
  PROVE  /\ IsCutPath(cfg, Way(calls)) /\ b \in Blocks(cfg)
         /\ CutEdge(cfg, Way(calls)[Len(Way(calls))], b)
<1>1. calls \in Seq(Frame(cfg)) /\ IsCutPath(cfg, Way(calls)) /\ \A k \in DOMAIN calls : LeadsOn(cfg, calls[k])
  BY DEF CutPaths
<1> DEFINE n == Len(calls)
           last == calls[n]
<1>2. n \in Nat /\ n \in 1..n /\ n \in DOMAIN calls /\ last \in Frame(cfg) /\ Last(calls) = last
  BY <1>1 DEF Last
<1>3. last.childs \in Seq(Blocks(cfg) \cup {Null}) /\ last.childs # <<>>
  BY <1>2 DEF Frame
<1>4. b \in ToSet(last.childs)
  <2>1. b = last.childs[1] /\ 1 \in DOMAIN last.childs
    BY <1>2, <1>3
  <2> QED
    BY <2>1 DEF ToSet
<1>5. CutEdge(cfg, last.block, b)
  BY <1>1, <1>2, <1>4 DEF LeadsOn
<1>6. Way(calls)[Len(Way(calls))] = last.block
  BY <1>1, <1>2, WayFacts
<1> QED
  BY <1>1, <1>5, <1>6 DEF CutEdge

LEMMA CutInit == Init => CutPaths
<1> SUFFICES ASSUME Init PROVE CutPaths
  OBVIOUS
<1>1. CFGraph(cfg) /\ cfg \in Graphs /\ limit \in Limits
  BY GraphFacts DEF Init
<1>2. entry = Entry(cfg) /\ entry \in Blocks(cfg)
  BY <1>1, BlocksFacts DEF entry, Entry
<1> DEFINE c == Call(entry)
<1>3. c \in Frame(cfg) /\ c.block = entry /\ LeadsOn(cfg, c)
  BY <1>1, <1>2, CallFacts
<1>4. calls = <<c>>
  BY DEF Init
<1> HIDE DEF c
<1>5. calls \in Seq(Frame(cfg)) /\ DOMAIN calls = {1} /\ calls[1] = c /\ Len(calls) = 1
  BY <1>3, <1>4
<1>6. Way(calls) \in Seq(Blocks(cfg)) /\ Len(Way(calls)) = 1 /\ Way(calls)[1] = entry
  BY <1>3, <1>5, WayFacts
<1>7. IsCutPath(cfg, Way(calls))
  <2> DEFINE w == Way(calls)
  <2>1. w \in Seq(Blocks(cfg)) /\ Len(w) = 1 /\ w[1] = Entry(cfg)
    BY <1>2, <1>6
  <2> HIDE DEF w
  <2>2. w # <<>> /\ 2..Len(w) = {}
    BY <2>1
  <2>3. IsCutPath(cfg, w)
    BY <2>1, <2>2 DEF IsCutPath
  <2> QED
    BY <2>3 DEF w
<1>8. reachablePath \in Seq(Seq(Blocks(cfg))) /\ ToSet(reachablePath) = {}
  BY DEF Init, ToSet
<1>9. fault \in {"none", "null successor", "no terminator"}
  BY DEF Init, CutFault
<1> QED
  BY <1>1, <1>3, <1>5, <1>7, <1>8, <1>9 DEF CutPaths

\* Steps that leave the list alone.
LEMMA CutNoPath ==
  ASSUME CutPaths, UNCHANGED <<cfg, limit, reachablePath>>,
         calls' \in Seq(Frame(cfg)), calls' # <<>> => IsCutPath(cfg, Way(calls')),
         \A k \in DOMAIN calls' : LeadsOn(cfg, calls'[k]),
         fault' \in {"none", "null successor", "no terminator"}
  PROVE  CutPaths'
<1>1. PICK g \in Graphs : g = cfg
  BY DEF CutPaths
<1>2. cfg = g /\ cfg' = g
  BY <1>1
<1>3. \A p \in ToSet(reachablePath) : Found(g, p)'
  BY <1>2 DEF CutPaths, Found, exit
<1> QED
  BY <1>2, <1>3 DEF CutPaths, Found

LEMMA CutPassNull == CutPaths /\ PassNull => CutPaths'
<1> SUFFICES ASSUME CutPaths, PassNull PROVE CutPaths'
  OBVIOUS
<1>1. /\ calls # <<>> /\ Last(calls).childs # <<>> /\ calls' = Advanced
      /\ UNCHANGED <<cfg, limit, reachablePath, fault>>
  BY DEF PassNull, Running, MayGoOn
<1>2. /\ calls' \in Seq(Frame(cfg)) /\ Way(calls') = Way(calls)
      /\ \A k \in DOMAIN calls' : LeadsOn(cfg, calls'[k])
  BY <1>1, AdvancedFacts
<1>3. IsCutPath(cfg, Way(calls')) /\ fault' \in {"none", "null successor", "no terminator"}
  BY <1>1, <1>2 DEF CutPaths
<1> QED
  BY <1>1, <1>2, <1>3, CutNoPath

LEMMA CutReturn == CutPaths /\ Return => CutPaths'
<1> SUFFICES ASSUME CutPaths, Return PROVE CutPaths'
  OBVIOUS
<1>1. /\ calls # <<>> /\ calls' = Front(calls) /\ UNCHANGED <<cfg, limit, reachablePath, fault>>
      /\ calls \in Seq(Frame(cfg)) /\ IsCutPath(cfg, Way(calls))
      /\ \A k \in DOMAIN calls : LeadsOn(cfg, calls[k])
      /\ fault \in {"none", "null successor", "no terminator"}
  BY DEF Return, Running, CutPaths
<1> DEFINE n == Len(calls)
           cs == Front(calls)
<1>2. n \in Nat /\ n >= 1 /\ DOMAIN calls = 1..n
  BY <1>1, SequenceFacts
<1>3. cs \in Seq(Frame(cfg)) /\ Len(cs) = n - 1 /\ \A k \in 1..(n - 1) : cs[k] = calls[k]
  BY <1>1, FrontFacts
<1>4. DOMAIN cs = 1..(n - 1)
  BY <1>3, SequenceFacts
<1> HIDE DEF cs
<1>5. \A k \in DOMAIN cs : LeadsOn(cfg, cs[k])
  <2> TAKE k \in DOMAIN cs
  <2>1. k \in DOMAIN calls /\ cs[k] = calls[k]
    BY <1>2, <1>3, <1>4
  <2> QED
    BY <1>1, <2>1
<1>6. ASSUME cs # <<>> PROVE IsCutPath(cfg, Way(cs))
  <2>1. /\ Way(cs) \in Seq(Blocks(cfg)) /\ Len(Way(cs)) = n - 1 /\ Len(Way(calls)) = n
        /\ \A k \in 1..(n - 1) : Way(cs)[k] = cs[k].block
        /\ \A k \in 1..n : Way(calls)[k] = calls[k].block
    BY <1>1, <1>3, WayFacts
  <2>2. Way(cs) # <<>>
    <3>1. n - 1 # 0
      BY <1>3, <1>6
    <3> QED
      BY <2>1, <3>1
  <2>3. \A k \in 1..(n - 1) : Way(cs)[k] = Way(calls)[k]
    BY <1>2, <1>3, <2>1
  <2> QED
    BY <1>1, <2>1, <2>2, <2>3, ShortenPath
<1>7. calls' = cs
  BY <1>1 DEF cs
<1> QED
  BY <1>1, <1>3, <1>5, <1>6, <1>7, CutNoPath

\* A call for a block to which the path leads on.
LEMMA AppendCall ==
  ASSUME NEW g, NEW cs \in Seq(Frame(g)), NEW c \in Frame(g), LeadsOn(g, c),
         \A k \in DOMAIN cs : LeadsOn(g, cs[k]), IsCutPath(g, Way(cs)),
         CutEdge(g, Way(cs)[Len(Way(cs))], c.block)
  PROVE  /\ Append(cs, c) \in Seq(Frame(g)) /\ IsCutPath(g, Way(Append(cs, c)))
         /\ \A k \in DOMAIN Append(cs, c) : LeadsOn(g, Append(cs, c)[k])
<1> DEFINE T == Frame(g)
           n == Len(cs)
           ds == Append(cs, c)
           v == Way(cs)
           w == Way(ds)
           b == c.block
           B == Blocks(g)
<1>1. /\ ds \in Seq(T) /\ Len(ds) = n + 1 /\ n \in Nat /\ ds[n + 1] = c
      /\ \A k \in 1..n : ds[k] = cs[k]
  BY AppendFacts
<1> HIDE DEF ds
<1>2. DOMAIN ds = 1..(n + 1) /\ DOMAIN cs = 1..n
  BY <1>1, SequenceFacts
<1>3. b \in B
  BY DEF Frame
<1>4. /\ w \in Seq(B) /\ Len(w) = n + 1 /\ v \in Seq(B) /\ Len(v) = n
      /\ \A k \in 1..(n + 1) : w[k] = ds[k].block
      /\ \A k \in 1..n : v[k] = cs[k].block
  BY <1>1, WayFacts
<1>5. IsCutPath(g, Append(v, b))
  BY <1>3, ExtendPath
<1> HIDE DEF n, v, w, T, B
<1>6. \A k \in 1..n : k \in 1..(n + 1)
  BY <1>1
<1>7. n + 1 \in 1..(n + 1)
  BY <1>1
<1>8. \A k \in 1..n : w[k] = v[k]
  BY <1>1, <1>4, <1>6
<1>9. w[n + 1] = b
  BY <1>1, <1>4, <1>7
<1> HIDE DEF b
<1>10. w = Append(v, b)
  BY <1>3, <1>4, <1>8, <1>9
<1>11. \A k \in DOMAIN ds : LeadsOn(g, ds[k])
  <2> TAKE k \in DOMAIN ds
  <2>1. CASE k = n + 1
    BY <1>1, <2>1
  <2>2. CASE k # n + 1
    <3>1. k \in 1..n
      BY <1>1, <1>2, <2>2
    <3> QED
      BY <1>1, <1>2, <3>1
  <2> QED
    BY <2>1, <2>2
<1> QED
  BY <1>1, <1>5, <1>10, <1>11 DEF ds, w, T

LEMMA CutTraverse == CutPaths /\ Traverse => CutPaths'
<1> SUFFICES ASSUME CutPaths, Traverse PROVE CutPaths'
  OBVIOUS
<1> DEFINE b == Head(Last(calls).childs)
<1>1. /\ calls # <<>> /\ Last(calls).childs # <<>> /\ calls' = Append(Advanced, Call(b))
      /\ UNCHANGED <<cfg, limit, reachablePath>> /\ b # Null /\ fault' = CutFault(cfg, b)
      /\ cfg \in Graphs
  BY DEF Traverse, Running, MayGoOn, CutPaths
<1>2. /\ Advanced \in Seq(Frame(cfg)) /\ Way(Advanced) = Way(calls)
      /\ \A k \in DOMAIN Advanced : LeadsOn(cfg, Advanced[k])
  BY <1>1, AdvancedFacts
<1>3. IsCutPath(cfg, Way(calls)) /\ b \in Blocks(cfg) /\ CutEdge(cfg, Way(calls)[Len(Way(calls))], b)
  BY <1>1, HeadLeadsOn
<1>4. Call(b) \in Frame(cfg) /\ Call(b).block = b /\ LeadsOn(cfg, Call(b))
  BY <1>1, <1>3, GraphFacts, CallFacts
<1>5. fault' \in {"none", "null successor", "no terminator"}
  BY <1>1 DEF CutFault
<1>6. PICK g, cs, c : g = cfg /\ cs = Advanced /\ c = Call(b)
  OBVIOUS
<1>7. /\ cs \in Seq(Frame(g)) /\ c \in Frame(g) /\ LeadsOn(g, c) /\ IsCutPath(g, Way(cs))
      /\ \A k \in DOMAIN cs : LeadsOn(g, cs[k])
  BY <1>2, <1>3, <1>4, <1>6
<1>8. /\ calls' \in Seq(Frame(g)) /\ IsCutPath(g, Way(calls'))
      /\ \A k \in DOMAIN calls' : LeadsOn(g, calls'[k])
  <2> HIDE DEF b
  <2>1. CutEdge(g, Way(cs)[Len(Way(cs))], c.block)
    BY <1>2, <1>3, <1>4, <1>6 DEF b
  <2>2. calls' = Append(cs, c)
    BY <1>1, <1>6
  <2> QED
    BY <1>7, <2>1, <2>2, AppendCall
<1> QED
  BY <1>1, <1>5, <1>6, <1>8, CutNoPath

LEMMA CutReach == CutPaths /\ Reach => CutPaths'
<1> SUFFICES ASSUME CutPaths, Reach PROVE CutPaths'
  OBVIOUS
<1>1. PICK g \in Graphs : g = cfg
  BY DEF CutPaths
<1> DEFINE b == Head(Last(calls).childs)
           w == Way(calls)
           found == Append(w, exit)
<1>2. /\ calls # <<>> /\ Last(calls).childs # <<>> /\ calls' = Advanced /\ b = exit
      /\ UNCHANGED <<cfg, limit, fault>> /\ reachablePath' = Append(reachablePath, found)
  BY DEF Reach, Running, MayGoOn, path, Way
<1>3. CFGraph(g) /\ exit \in Blocks(g) /\ exit # Null
  BY GraphFacts, BlocksFacts DEF exit, CFGraph
<1>4. /\ calls' \in Seq(Frame(g)) /\ Way(calls') = w
      /\ \A k \in DOMAIN calls' : LeadsOn(g, calls'[k])
  BY <1>1, <1>2, AdvancedFacts
<1>5. IsCutPath(g, w) /\ CutEdge(g, w[Len(w)], exit)
  BY <1>1, <1>2, <1>3, HeadLeadsOn
<1>6. Found(g, found)
  <2>1. IsCutPath(g, found)
    BY <1>3, <1>5, ExtendPath
  <2>2. w \in Seq(Blocks(g))
    BY <1>5 DEF IsCutPath
  <2> HIDE DEF w
  <2>3. found[Len(found)] = exit
    BY <1>3, <2>2
  <2> QED
    BY <2>1, <2>3 DEF Found
<1>7. found \in Seq(Blocks(g))
  BY <1>6 DEF Found, IsCutPath
<1>8. reachablePath \in Seq(Seq(Blocks(g))) /\ \A p \in ToSet(reachablePath) : Found(g, p)
  BY <1>1 DEF CutPaths
<1> HIDE DEF found
<1> DEFINE T == Seq(Blocks(g))
<1>80. reachablePath \in Seq(T) /\ found \in T
  BY <1>7, <1>8
<1> HIDE DEF T
<1>9. /\ reachablePath' \in Seq(T)
      /\ ToSet(reachablePath') = ToSet(reachablePath) \cup {found}
  BY <1>2, <1>80, AppendFacts
<1>10. \A p \in ToSet(reachablePath') : Found(g, p)
  BY <1>6, <1>8, <1>9
<1>11. cfg' = g /\ cfg' \in Graphs /\ limit' \in Limits /\ fault' \in {"none", "null successor", "no terminator"}
  BY <1>1, <1>2 DEF CutPaths
<1>12. \A p \in ToSet(reachablePath') : Found(g, p)'
  BY <1>10 DEF Found, exit
<1> QED
  BY <1>4, <1>5, <1>9, <1>11, <1>12 DEF CutPaths, Found, T

-----------------------------------------------------------------------------
(* Their theorems.                                                         *)

\* The copy of the path that each level of traverseCFGForGetReachablePath has, and each
\* path it keeps, goes by what getNonRecursiveSucc returns for its blocks.
THEOREM PathInvariant == Spec => []CutPaths
<1>1. CutPaths /\ [Next]_vars => CutPaths'
  <2> SUFFICES ASSUME CutPaths, [Next]_vars PROVE CutPaths'
    OBVIOUS
  <2>1. CASE PassNull
    BY <2>1, CutPassNull
  <2>2. CASE Reach
    BY <2>2, CutReach
  <2>3. CASE Traverse
    BY <2>3, CutTraverse
  <2>4. CASE Return
    BY <2>4, CutReturn
  <2>5. CASE UNCHANGED vars
    <3>1. UNCHANGED <<cfg, limit, calls, reachablePath, fault>>
      BY <2>5 DEF vars
    <3> QED
      BY <3>1, CutNoPath DEF CutPaths
  <2> QED
    BY <2>1, <2>2, <2>3, <2>4, <2>5 DEF Next
<1> QED
  BY <1>1, CutInit, PTL DEF Spec

\* getPathInFunc only holds and returns ways through blocks of the function, and where
\* clang numbers the blocks as for a program, none takes a block twice.
THEOREM PathsAreProper == Spec => []ProperPaths
<1>1. CutPaths => ProperPaths
  <2> SUFFICES ASSUME CutPaths PROVE ProperPaths
    OBVIOUS
  <2>1. CFGraph(cfg)
    BY GraphFacts DEF CutPaths
  <2>2. TypeOK
    <3>1. \A k \in DOMAIN calls : calls[k] \in Frame(cfg)
      BY SequenceFacts DEF CutPaths
    <3>2. \A k \in DOMAIN calls : calls[k].block \in Blocks(cfg) /\ calls[k].childs \in Seq(Blocks(cfg) \cup {Null})
      BY <3>1 DEF Frame
    <3> QED
      BY <2>1, <3>2 DEF TypeOK, CutPaths, CFGraph
  <2>3. ASSUME Numbered(cfg) PROVE Cardinality(ToSet(path)) = Len(path)
    <3>1. path = Way(calls)
      BY DEF path, Way
    <3>2. CASE calls = <<>>
      <4>1. ToSet(path) = {} /\ Len(path) = 0
        BY <3>2 DEF path, ToSet
      <4> QED
        BY <4>1, FS_EmptySet
    <3>3. CASE calls # <<>>
      <4>1. IsCutPath(cfg, path)
        BY <3>1, <3>3 DEF CutPaths
      <4> HIDE DEF path
      <4> QED
        BY <2>1, <2>3, <4>1, BlocksDiffer
    <3> QED
      BY <3>2, <3>3
  <2>4. ASSUME Numbered(cfg), NEW p \in ToSet(reachablePath) PROVE Cardinality(ToSet(p)) = Len(p)
    <3>1. IsCutPath(cfg, p)
      BY DEF CutPaths, Found
    <3> QED
      BY <2>1, <2>4, <3>1, BlocksDiffer
  <2> QED
    BY <2>2, <2>3, <2>4 DEF ProperPaths, NoBlockTwice
<1> QED
  BY <1>1, PathInvariant, PTL

\* Behind a block that leads back the path goes on as the program does at the head of the
\* loop or at the condition of the do loop, and it has been there, provided that no goto
\* leads into the loop.
THEOREM PathsFollowProgram == Spec => []FollowsProgram
<1>1. CutPaths => FollowsProgram
  <2> SUFFICES ASSUME CutPaths, NEW p \in ToSet(reachablePath)
               PROVE  /\ Head(p) = entry /\ Last(p) = exit
                      /\ LoopsNested => \A k \in 2..Len(p) : \E j \in 1..(k - 1) : p[k] \in Follow(p[j])
    BY DEF FollowsProgram
  <2>1. CFGraph(cfg) /\ IsCutPath(cfg, p) /\ p[Len(p)] = exit
    BY GraphFacts DEF CutPaths, Found
  <2>2. p \in Seq(Blocks(cfg)) /\ p # <<>> /\ p[1] = entry
    BY <2>1 DEF IsCutPath, Entry, entry
  <2>3. Head(p) = entry /\ Last(p) = exit
    BY <2>1, <2>2 DEF Last
  <2>4. ASSUME LoopsNested, NEW k \in 2..Len(p) PROVE \E j \in 1..(k - 1) : p[k] \in Follow(p[j])
    <3>1. k - 1 \in 1..(Len(p) - 1) /\ k \in 1..Len(p)
      BY <2>2
    <3>2. PICK j \in 1..(k - 1) : p[j] = Source(cfg, p[k - 1])
      BY <2>1, <2>4, <3>1, SourceOnPath
    <3>3. CutEdge(cfg, p[k - 1], p[k]) /\ p[k] # Null
      BY <2>1, <2>2, <3>1 DEF IsCutPath, CFGraph
    <3>4. p[k] \in Follow(p[j])
      BY <3>2, <3>3 DEF CutEdge, Follow
    <3> QED
      BY <3>4
  <2> QED
    BY <2>3, <2>4
<1> QED
  BY <1>1, PathInvariant, PTL

-----------------------------------------------------------------------------
(* The calls of the recursion.                                             *)

\* The path has a block for each call under way.
LEMMA PathOfCalls ==
  ASSUME IsSequence(calls)
  PROVE  IsSequence(path) /\ Len(path) = Len(calls)
<1>1. PICK S : calls \in Seq(S)
  BY DEF IsSequence
<1> DEFINE T == {calls[k].block : k \in DOMAIN calls}
<1>2. DOMAIN calls = 1..Len(calls) /\ Len(calls) \in Nat
  BY <1>1
<1>3. path \in Seq(T)
  BY <1>2 DEF path
<1>4. Len(path) = Len(calls)
  BY <1>2 DEF path
<1> QED
  BY <1>3, <1>4 DEF IsSequence

LEMMA AdvancedIsSequence ==
  ASSUME IsSequence(calls), calls # <<>>
  PROVE  IsSequence(Advanced)
<1>1. PICK S : calls \in Seq(S)
  BY DEF IsSequence
<1>2. Len(calls) \in DOMAIN calls
  BY <1>1
<1> DEFINE last == [calls[Len(calls)] EXCEPT !.childs = Tail(calls[Len(calls)].childs)]
<1>3. Advanced = [calls EXCEPT ![Len(calls)] = last]
  BY DEF Advanced
<1> HIDE DEF last
<1> QED
  BY <1>2, <1>3, ExceptSequence

-----------------------------------------------------------------------------
(* Each step keeps to the limits.                                          *)

LEMMA InitBounded == Init => Bounded
<1> SUFFICES ASSUME Init PROVE Bounded
  OBVIOUS
<1>1. limit \in Limits /\ pathlen \in Nat /\ pathnum \in Nat
  BY PathsAssumption DEF Init, pathlen, pathnum
<1>2. calls \in Seq({Call(entry)})
  BY DEF Init
<1>3. /\ reachablePath \in Seq({}) /\ Len(reachablePath) = 0 /\ ToSet(reachablePath) = {}
  BY DEF Init, ToSet
<1> QED
  BY <1>1, <1>2, <1>3 DEF Bounded, IsSequence, PathsShort

\* Steps that find no path only have to leave sequences behind.
LEMMA NoPathStep ==
  ASSUME Bounded, UNCHANGED <<limit, reachablePath>>, IsSequence(calls')
  PROVE  Bounded'
BY DEF Bounded, PathsShort, pathlen, pathnum

LEMMA PassNullStep == Bounded /\ PassNull => Bounded'
<1> SUFFICES ASSUME Bounded, PassNull PROVE Bounded'
  OBVIOUS
<1>1. IsSequence(calls) /\ calls # <<>> /\ calls' = Advanced /\ UNCHANGED <<limit, reachablePath>>
  BY DEF Bounded, PassNull, Running
<1>2. IsSequence(calls')
  BY <1>1, AdvancedIsSequence
<1> QED
  BY <1>1, <1>2, NoPathStep

LEMMA TraverseStep == Bounded /\ Traverse => Bounded'
<1> SUFFICES ASSUME Bounded, Traverse PROVE Bounded'
  OBVIOUS
<1>1. /\ IsSequence(calls) /\ calls # <<>> /\ UNCHANGED <<limit, reachablePath>>
      /\ \E c : calls' = Append(Advanced, c)
  BY DEF Bounded, Traverse, Running
<1>2. IsSequence(calls')
  BY <1>1, AdvancedIsSequence, AppendSequence
<1> QED
  BY <1>1, <1>2, NoPathStep

LEMMA ReturnStep == Bounded /\ Return => Bounded'
<1> SUFFICES ASSUME Bounded, Return PROVE Bounded'
  OBVIOUS
<1>1. IsSequence(calls) /\ calls # <<>> /\ calls' = Front(calls) /\ UNCHANGED <<limit, reachablePath>>
  BY DEF Bounded, Return, Running
<1>2. IsSequence(calls')
  BY <1>1, FrontSequence
<1> QED
  BY <1>1, <1>2, NoPathStep

\* The path that is found is one longer than the recursion is deep, which was short of
\* pathlen.
LEMMA ReachStep == Bounded /\ Reach => Bounded'
<1> SUFFICES ASSUME Bounded, Reach PROVE Bounded'
  OBVIOUS
<1> DEFINE found == Append(path, exit)
<1>1. /\ IsSequence(calls) /\ IsSequence(reachablePath) /\ calls # <<>> /\ calls' = Advanced
      /\ limit' = limit /\ limit \in Limits /\ reachablePath' = Append(reachablePath, found)
      /\ Len(reachablePath) < pathnum /\ Len(path) < pathlen /\ PathsShort
  BY DEF Bounded, Reach, Running, MayGoOn
<1>2. pathlen \in Nat /\ pathnum \in Nat /\ pathlen' = pathlen /\ pathnum' = pathnum
  BY <1>1, PathsAssumption DEF pathlen, pathnum
<1>3. IsSequence(calls')
  BY <1>1, AdvancedIsSequence
<1>4. Len(found) = Len(path) + 1 /\ Len(path) \in Nat
  BY <1>1, PathOfCalls, AppendSequence
<1> HIDE DEF found
<1>5. /\ IsSequence(reachablePath') /\ Len(reachablePath) \in Nat
      /\ Len(reachablePath') = Len(reachablePath) + 1
      /\ ToSet(reachablePath') = ToSet(reachablePath) \cup {found}
  BY <1>1, AppendSequence
<1>6. Len(reachablePath)' <= pathnum'
  BY <1>1, <1>2, <1>5
<1>7. Len(found) <= pathlen
  BY <1>1, <1>2, <1>4
<1>8. PathsShort'
  BY <1>1, <1>2, <1>5, <1>7 DEF PathsShort
<1> QED
  BY <1>1, <1>3, <1>5, <1>6, <1>8 DEF Bounded

-----------------------------------------------------------------------------
(* The theorems.                                                           *)

\* Between two tests of the limits at most one path is found, at whatever depth of the
\* recursion of traverseCFGForGetReachablePath.
THEOREM LimitInvariant == Spec => []Bounded
<1>1. Bounded /\ [Next]_vars => Bounded'
  <2> SUFFICES ASSUME Bounded, [Next]_vars PROVE Bounded'
    OBVIOUS
  <2>1. CASE PassNull
    BY <2>1, PassNullStep
  <2>2. CASE Reach
    BY <2>2, ReachStep
  <2>3. CASE Traverse
    BY <2>3, TraverseStep
  <2>4. CASE Return
    BY <2>4, ReturnStep
  <2>5. CASE UNCHANGED vars
    BY <2>5, NoPathStep DEF vars, Bounded, IsSequence
  <2> QED
    BY <2>1, <2>2, <2>3, <2>4, <2>5 DEF Next
<1> QED
  BY <1>1, InitBounded, PTL DEF Spec

\* The limits that getPathInFunc is given hold for the list it returns and for every path
\* on it.
THEOREM LimitsHold == Spec => []WithinLimits
<1>1. Bounded => WithinLimits
  BY DEF Bounded, WithinLimits, PathsShort
<1> QED
  BY <1>1, LimitInvariant, PTL

-----------------------------------------------------------------------------
(* Every path of the cut graph that there is room for is found.            *)

\* getNonRecursiveSucc leaves out no edge of the cut graph.
LEMMA CutSuccComplete ==
  ASSUME NEW g, CFGraph(g), NEW b \in Blocks(g), NEW c, CutEdge(g, b, c)
  PROVE  c \in ToSet(CutSucc(g, b))
<1>1. c \in Blocks(g) /\ c # Null /\ Source(g, b) \in Blocks(g) /\ c \in ToSet(Succs(g, Source(g, b)))
  BY DEF CutEdge, CFGraph
<1>2. ASSUME NEW s \in Blocks(g), c \in ToSet(Succs(g, s)), c < b PROVE c \in ToSet(Below(g, s, b))
  <2>1. Succs(g, s) \in Seq(Blocks(g) \cup {Null})
    BY SuccsFacts
  <2> DEFINE S == {x \in Blocks(g) : x < b}
             T == Blocks(g) \cup {Null}
  <2>2. c \in S
    BY <1>1, <1>2
  <2> HIDE DEF S, T
  <2>3. ToSet(Within(Succs(g, s), S)) = ToSet(Succs(g, s)) \cap S
    BY <2>1, WithinFacts DEF T
  <2> QED
    BY <1>2, <2>2, <2>3 DEF Below, S
<1>3. CASE LoopBackOfDo(g, b)
  BY <1>1, <1>2, <1>3 DEF CutEdge, Source, CutSucc
<1>4. CASE ~LoopBackOfDo(g, b) /\ LeadsBack(g, b)
  <2>1. Source(g, b) = LoopHead(g, b) /\ LoopHead(g, b) # Null /\ c < b
    BY <1>1, <1>4 DEF Source, CutEdge, CFGraph
  <2> QED
    BY <1>1, <1>2, <1>4, <2>1 DEF CutSucc
<1>5. CASE ~LoopBackOfDo(g, b) /\ ~LeadsBack(g, b)
  <2>1. c \in ToSet(Succs(g, b))
    BY <1>1, <1>5 DEF Source
  <2>2. Succs(g, b) # <<Null>>
    BY <1>1, <2>1 DEF ToSet
  <2> QED
    BY <1>5, <2>1, <2>2 DEF CutSucc
<1> QED
  BY <1>3, <1>4, <1>5

\* The exit leads nowhere, in the cut graph as well.
LEMMA ExitFacts ==
  ASSUME NEW g, CFGraph(g)
  PROVE  /\ exit \in Blocks(g) /\ exit # Entry(g) /\ Rank(g, exit) = 0
         /\ \A c : ~CutEdge(g, exit, c)
<1>1. DOMAIN g.succ = 0..(Cardinality(DOMAIN g.succ) - 1) /\ {0, 1} \subseteq Blocks(g) /\ g.succ[0] = <<>>
  BY DEF CFGraph, IsGraph
<1>2. 0 \in Blocks(g) /\ 1 \in Blocks(g) /\ Entry(g) # 0
  <2>1. 1 <= Entry(g)
    BY <1>1, BlocksFacts
  <2> QED
    BY <1>1, <2>1
<1>3. ~LoopBackOfDo(g, 0)
  <2>1. SUFFICES ASSUME LoopBackOfDo(g, 0) PROVE FALSE
    OBVIOUS
  <2>2. DoCondition(g, 0) \in Nat /\ DoCondition(g, 0) < 0
    BY <1>2, <2>1, DoConditionFacts, BlocksFacts
  <2> QED
    BY <2>2
<1>4. ~LeadsBack(g, 0)
  BY <1>1 DEF LeadsBack
<1>5. Succs(g, 0) = <<>>
  BY <1>1 DEF Succs
<1>6. Source(g, 0) = 0 /\ Rank(g, 0) = 0
  BY <1>3, <1>4 DEF Source, Rank
<1>7. \A c : ~CutEdge(g, 0, c)
  BY <1>5, <1>6 DEF CutEdge, ToSet
<1> QED
  BY <1>2, <1>6, <1>7 DEF exit

\* A path to the exit that is not longer than pathlen.
Wanted(p) == Found(cfg, p) /\ Len(p) <= pathlen

\* It goes on from a call under way with a successor that is still to come.
Coming(p) ==
  \E k \in 1..Len(calls) :
    /\ k < Len(p) /\ \A i \in 1..k : p[i] = calls[i].block
    /\ p[k + 1] \in ToSet(calls[k].childs)

AllFound ==
  CutPaths /\ \A p \in Seq(Blocks(cfg)) :
    Wanted(p) => p \in ToSet(reachablePath) \/ Len(reachablePath) >= pathnum \/ Coming(p)

\* A path to the exit meets it at its end only.
LEMMA ExitAtEnd ==
  ASSUME CFGraph(cfg), NEW p, Found(cfg, p), NEW k \in 1..Len(p)
  PROVE  /\ p \in Seq(Blocks(cfg)) /\ Len(p) \in Nat /\ Len(p) >= 2
         /\ p[k] = exit => k = Len(p)
         /\ k < Len(p) => CutEdge(cfg, p[k], p[k + 1])
<1>1. p \in Seq(Blocks(cfg)) /\ p # <<>> /\ p[1] = Entry(cfg) /\ p[Len(p)] = exit
  BY DEF Found, IsCutPath
<1> HIDE DEF Blocks
<1>2. Len(p) \in Nat /\ Len(p) >= 1
  BY <1>1
<1>3. Len(p) # 1
  BY <1>1, ExitFacts
<1>4. ASSUME k < Len(p) PROVE CutEdge(cfg, p[k], p[k + 1])
  <2>1. k + 1 \in 2..Len(p) /\ (k + 1) - 1 = k
    BY <1>2, <1>4
  <2> QED
    BY <2>1 DEF Found, IsCutPath
<1>5. k < Len(p) => p[k] # exit
  BY <1>4, ExitFacts
<1>6. k < Len(p) \/ k = Len(p)
  BY <1>2
<1>7. \A m \in Nat : m >= 1 /\ m # 1 => m >= 2
  OBVIOUS
<1> QED
  BY <1>1, <1>2, <1>3, <1>4, <1>5, <1>6, <1>7

LEMMA FoundInit == Init => AllFound
<1> SUFFICES ASSUME Init PROVE AllFound
  OBVIOUS
<1>1. CutPaths /\ CFGraph(cfg)
  BY CutInit, GraphFacts DEF Init
<1>2. entry = Entry(cfg) /\ entry \in Blocks(cfg)
  BY <1>1, BlocksFacts DEF entry, Entry
<1>3. Len(calls) = 1 /\ calls[1].block = entry /\ calls[1].childs = CutSucc(cfg, entry)
  BY DEF Init, Call
<1>4. ASSUME NEW p \in Seq(Blocks(cfg)), Wanted(p) PROVE Coming(p)
  <2>1. Found(cfg, p) /\ p[1] = entry
    BY <1>2, <1>4 DEF Wanted, Found, IsCutPath
  <2>2. Len(p) \in Nat /\ 1 \in 1..Len(p)
    BY <2>1 DEF Found, IsCutPath
  <2>3. Len(p) >= 2 /\ CutEdge(cfg, entry, p[2])
    BY <1>1, <2>1, <2>2, ExitAtEnd
  <2>4. p[2] \in ToSet(calls[1].childs)
    BY <1>1, <1>2, <1>3, <2>3, CutSuccComplete
  <2> QED
    BY <1>3, <2>1, <2>2, <2>3, <2>4 DEF Coming
<1> QED
  BY <1>1, <1>4 DEF AllFound

\* What the loop over the successors takes is the first of them; the calls below stay.
LEMMA ComesNext ==
  ASSUME CutPaths, Running, MayGoOn, NEW p, p \in Seq(Blocks(cfg)), Coming(p), NEW n, n = Len(calls)
  PROVE  \/ \E k \in 1..n : /\ k < Len(p) /\ \A i \in 1..k : p[i] = Advanced[i].block
                            /\ p[k + 1] \in ToSet(Advanced[k].childs)
         \/ /\ n < Len(p) /\ \A i \in 1..n : p[i] = Advanced[i].block
            /\ p[n + 1] = Head(Last(calls).childs)
<1> DEFINE T == Frame(cfg)
           C == Blocks(cfg) \cup {Null}
           last == calls[n]
           s == last.childs
           next == [last EXCEPT !.childs = Tail(s)]
<1>1. calls \in Seq(T) /\ calls # <<>> /\ Last(calls).childs # <<>>
  BY DEF CutPaths, Running, MayGoOn
<1>2. n \in Nat /\ n >= 1 /\ DOMAIN calls = 1..n /\ n \in 1..n /\ last \in T /\ Last(calls) = last
  <2> HIDE DEF T
  <2> QED
    BY <1>1 DEF Last
<1>3. s \in Seq(C) /\ s # <<>>
  BY <1>1, <1>2 DEF Frame
<1>4. next.block = last.block /\ next.childs = Tail(s)
  BY <1>2 DEF Frame
<1>5. Advanced = [calls EXCEPT ![n] = next]
  BY DEF Advanced
<1> HIDE DEF T, C, next, last
<1>6. \A k \in 1..n : Advanced[k] = IF k = n THEN next ELSE calls[k]
  BY <1>1, <1>2, <1>5
<1>7. \A k \in 1..n : Advanced[k].block = calls[k].block
  BY <1>4, <1>6 DEF last
<1> HIDE DEF s
<1>8. ToSet(s) \subseteq {Head(s)} \cup ToSet(Tail(s))
  <2>1. /\ DOMAIN s = 1..Len(s) /\ DOMAIN Tail(s) = 1..(Len(s) - 1) /\ Len(s) \in Nat
        /\ \A k \in 1..(Len(s) - 1) : Tail(s)[k] = s[k + 1]
        /\ Head(s) = s[1]
    BY <1>3
  <2>2. \A k \in 1..Len(s) : k # 1 => k - 1 \in 1..(Len(s) - 1) /\ (k - 1) + 1 = k
    BY <2>1
  <2> SUFFICES ASSUME NEW x \in ToSet(s) PROVE x \in {Head(s)} \cup ToSet(Tail(s))
    OBVIOUS
  <2>3. PICK k \in 1..Len(s) : s[k] = x
    BY <2>1 DEF ToSet
  <2>4. CASE k = 1
    BY <2>1, <2>3, <2>4
  <2>5. CASE k # 1
    <3>1. Tail(s)[k - 1] = x /\ k - 1 \in DOMAIN Tail(s)
      BY <2>1, <2>2, <2>3, <2>5
    <3> QED
      BY <3>1 DEF ToSet
  <2> QED
    BY <2>4, <2>5
<1>9. PICK k \in 1..n : /\ k < Len(p) /\ \A i \in 1..k : p[i] = calls[i].block
                        /\ p[k + 1] \in ToSet(calls[k].childs)
  BY DEF Coming
<1>10. \A i \in 1..k : p[i] = Advanced[i].block
  BY <1>2, <1>7, <1>9
<1>11. CASE k # n
  <2>1. Advanced[k].childs = calls[k].childs
    BY <1>6, <1>9, <1>11
  <2> QED
    BY <1>9, <1>10, <2>1
<1>12. CASE k = n
  <2>1. Advanced[k].childs = Tail(s)
    BY <1>2, <1>4, <1>6, <1>12
  <2>2. p[k + 1] \in {Head(s)} \cup ToSet(Tail(s))
    BY <1>8, <1>9, <1>12 DEF s, last
  <2>3. Head(s) = Head(Last(calls).childs)
    BY <1>2 DEF s
  <2> QED
    BY <1>9, <1>10, <1>12, <2>1, <2>2, <2>3
<1> QED
  BY <1>11, <1>12
\* What is found stays found, so a step has to account for what was still to come.
LEMMA FoundStep ==
  ASSUME AllFound, CutPaths', UNCHANGED <<cfg, limit>>, Len(reachablePath') >= Len(reachablePath),
         ToSet(reachablePath) \subseteq ToSet(reachablePath'),
         \A p \in Seq(Blocks(cfg)) : Wanted(p) /\ Coming(p) =>
           p \in ToSet(reachablePath') \/ Len(reachablePath) >= pathnum \/ Coming(p)'
  PROVE  AllFound'
<1>1. pathnum' = pathnum /\ Seq(Blocks(cfg))' = Seq(Blocks(cfg)) /\ \A p : Wanted(p)' = Wanted(p)
  BY DEF pathnum, pathlen, Wanted, Found, exit
<1>2. pathnum \in Nat /\ Len(reachablePath) \in Nat /\ Len(reachablePath') \in Nat
  <2>1. limit \in Nat \X Nat
    BY PathsAssumption DEF AllFound, CutPaths
  <2>2. reachablePath \in Seq(Seq(Blocks(cfg))) /\ reachablePath' \in Seq(Seq(Blocks(cfg')))
    BY DEF AllFound, CutPaths
  <2> QED
    BY <2>1, <2>2 DEF pathnum
<1>3. ASSUME NEW p \in Seq(Blocks(cfg)), Wanted(p)
      PROVE  p \in ToSet(reachablePath') \/ Len(reachablePath') >= pathnum \/ Coming(p)'
  <2>1. p \in ToSet(reachablePath) \/ Len(reachablePath) >= pathnum \/ Coming(p)
    BY <1>3 DEF AllFound
  <2>2. Len(reachablePath) >= pathnum => Len(reachablePath') >= pathnum
    BY <1>2
  <2> QED
    BY <1>3, <2>1, <2>2
<1> QED
  BY <1>1, <1>3 DEF AllFound

LEMMA FoundPassNull == AllFound /\ PassNull => AllFound'
<1> SUFFICES ASSUME AllFound, PassNull PROVE AllFound'
  OBVIOUS
<1>1. /\ Running /\ MayGoOn /\ Head(Last(calls).childs) = Null /\ calls' = Advanced
      /\ UNCHANGED <<cfg, limit, reachablePath>>
  BY DEF PassNull
<1>2. CutPaths /\ CutPaths' /\ CFGraph(cfg)
  BY CutPassNull, GraphFacts DEF AllFound, CutPaths
<1>3. Len(Advanced) = Len(calls) /\ Len(calls) \in Nat
  BY <1>1, <1>2, AdvancedFacts, SequenceFacts DEF Running, MayGoOn, CutPaths
<1>4. ASSUME NEW p \in Seq(Blocks(cfg)), Wanted(p), Coming(p) PROVE Coming(p)'
  <2> DEFINE n == Len(calls)
  <2>1. p \in Seq(Blocks(cfg)) /\ Null \notin Blocks(cfg)
    BY <1>2 DEF CFGraph
  <2>2. n < Len(p) => p[n + 1] # Null
    <3> HIDE DEF Blocks
    <3> QED
      BY <1>3, <2>1
  <2>3. \E k \in 1..n : /\ k < Len(p) /\ \A i \in 1..k : p[i] = Advanced[i].block
                         /\ p[k + 1] \in ToSet(Advanced[k].childs)
    BY <1>1, <1>2, <1>4, <2>2, ComesNext
  <2> QED
    BY <1>1, <1>3, <2>3 DEF Coming
<1>5. Len(reachablePath) \in Nat
  BY <1>2, SequenceFacts DEF CutPaths
<1> QED
  BY <1>1, <1>2, <1>4, <1>5, FoundStep

LEMMA FoundTraverse == AllFound /\ Traverse => AllFound'
<1> SUFFICES ASSUME AllFound, Traverse PROVE AllFound'
  OBVIOUS
<1> DEFINE b == Head(Last(calls).childs)
           n == Len(calls)
<1>1. /\ Running /\ MayGoOn /\ b \notin {Null, exit} /\ calls' = Append(Advanced, Call(b))
      /\ UNCHANGED <<cfg, limit, reachablePath>>
  BY DEF Traverse
<1>2. CutPaths /\ CutPaths' /\ CFGraph(cfg)
  BY CutTraverse, GraphFacts DEF AllFound, CutPaths
<1>3. Advanced \in Seq(Frame(cfg)) /\ Len(Advanced) = n /\ n \in Nat
  BY <1>1, <1>2, AdvancedFacts, SequenceFacts DEF Running, MayGoOn, CutPaths
<1>4. b \in Blocks(cfg) /\ Call(b) \in Frame(cfg) /\ Call(b).block = b
  BY <1>1, <1>2, HeadLeadsOn, CallFacts DEF Running, MayGoOn
<1>5. Call(b).childs = CutSucc(cfg, b)
  BY DEF Call
<1>6. /\ Len(calls') = n + 1 /\ calls'[n + 1] = Call(b)
      /\ \A k \in 1..n : calls'[k] = Advanced[k]
  BY <1>1, <1>3, <1>4, AppendFacts
<1> HIDE DEF b
<1>7. ASSUME NEW p \in Seq(Blocks(cfg)), Wanted(p), Coming(p) PROVE Coming(p)'
  <2>0. Found(cfg, p)
    BY <1>7 DEF Wanted
  <2>1. CASE \E k \in 1..n : /\ k < Len(p) /\ \A i \in 1..k : p[i] = Advanced[i].block
                              /\ p[k + 1] \in ToSet(Advanced[k].childs)
    <3>1. PICK k \in 1..n : /\ k < Len(p) /\ \A i \in 1..k : p[i] = Advanced[i].block
                            /\ p[k + 1] \in ToSet(Advanced[k].childs)
      BY <2>1
    <3>2. k \in 1..(n + 1) /\ \A i \in 1..k : i \in 1..n
      BY <1>3
    <3>3. \A i \in 1..k : p[i] = calls'[i].block
      BY <1>6, <3>1, <3>2
    <3>4. p[k + 1] \in ToSet(calls'[k].childs)
      BY <1>6, <3>1
    <3> QED
      BY <1>6, <3>1, <3>2, <3>3, <3>4 DEF Coming
  <2>2. CASE n < Len(p) /\ (\A i \in 1..n : p[i] = Advanced[i].block) /\ p[n + 1] = b
    <3>1. Len(p) \in Nat /\ p[Len(p)] = exit
      BY <2>0 DEF Found, IsCutPath
    <3>2. n + 1 # Len(p)
      BY <1>1, <2>2, <3>1
    <3>3. n + 1 < Len(p) /\ n + 1 \in 1..Len(p)
      BY <1>3, <2>2, <3>1, <3>2
    <3>4. CutEdge(cfg, b, p[(n + 1) + 1])
      BY <1>2, <2>0, <2>2, <3>3, ExitAtEnd
    <3>5. p[(n + 1) + 1] \in ToSet(calls'[n + 1].childs)
      BY <1>2, <1>4, <1>5, <1>6, <3>4, CutSuccComplete
    <3>6. ASSUME NEW i \in 1..(n + 1) PROVE p[i] = calls'[i].block
      <4>1. i = n + 1 \/ i \in 1..n
        BY <1>3
      <4> QED
        BY <1>4, <1>6, <2>2, <4>1
    <3>7. n + 1 \in 1..(n + 1)
      BY <1>3
    <3> QED
      BY <1>6, <3>3, <3>5, <3>6, <3>7 DEF Coming
  <2> QED
    BY <1>1, <1>2, <1>7, <2>1, <2>2, ComesNext DEF b
<1>8. Len(reachablePath) \in Nat
  BY <1>2, SequenceFacts DEF CutPaths
<1> QED
  BY <1>1, <1>2, <1>7, <1>8, FoundStep

LEMMA FoundReach == AllFound /\ Reach => AllFound'
<1> SUFFICES ASSUME AllFound, Reach PROVE AllFound'
  OBVIOUS
<1> DEFINE n == Len(calls)
           w == Way(calls)
           found == Append(w, exit)
           T == Seq(Blocks(cfg))
<1>1. /\ Running /\ MayGoOn /\ Head(Last(calls).childs) = exit /\ calls' = Advanced
      /\ UNCHANGED <<cfg, limit>> /\ reachablePath' = Append(reachablePath, found)
  BY DEF Reach, path, Way
<1>2. CutPaths /\ CutPaths' /\ CFGraph(cfg)
  BY CutReach, GraphFacts DEF AllFound, CutPaths
<1>3. Len(Advanced) = n /\ Way(Advanced) = w /\ n \in Nat /\ calls \in Seq(Frame(cfg))
      /\ Advanced \in Seq(Frame(cfg))
  BY <1>1, <1>2, AdvancedFacts, SequenceFacts DEF Running, MayGoOn, CutPaths
<1>4. /\ w \in Seq(Blocks(cfg)) /\ Len(w) = n /\ exit \in Blocks(cfg)
      /\ \A k \in 1..n : w[k] = Advanced[k].block
  BY <1>2, <1>3, WayFacts, ExitFacts
<1>5. /\ found \in T /\ Len(found) = n + 1 /\ found[n + 1] = exit
      /\ \A k \in 1..n : found[k] = w[k]
  BY <1>4, AppendFacts
<1> HIDE DEF found, w
<1>6. ToSet(reachablePath') = ToSet(reachablePath) \cup {found} /\ Len(reachablePath') = Len(reachablePath) + 1
      /\ Len(reachablePath) \in Nat
  <2>1. reachablePath \in Seq(T)
    BY <1>2 DEF CutPaths
  <2> HIDE DEF T
  <2> QED
    BY <1>1, <1>5, <2>1, AppendFacts
<1>7. ASSUME NEW p \in Seq(Blocks(cfg)), Wanted(p), Coming(p) PROVE p = found \/ Coming(p)'
  <2>0. Found(cfg, p)
    BY <1>7 DEF Wanted
  <2>1. CASE \E k \in 1..n : /\ k < Len(p) /\ \A i \in 1..k : p[i] = Advanced[i].block
                              /\ p[k + 1] \in ToSet(Advanced[k].childs)
    BY <1>1, <1>3, <2>1 DEF Coming
  <2>2. CASE n < Len(p) /\ (\A i \in 1..n : p[i] = Advanced[i].block) /\ p[n + 1] = exit
    <3>1. Len(p) \in Nat
      BY <2>0 DEF Found, IsCutPath
    <3>2. n + 1 \in 1..Len(p)
      BY <1>3, <2>2, <3>1
    <3>3. Len(p) = n + 1
      BY <1>2, <2>0, <2>2, <3>2, ExitAtEnd
    <3>4. \A k \in 1..(n + 1) : p[k] = found[k]
      <4> TAKE k \in 1..(n + 1)
      <4>1. k = n + 1 \/ k \in 1..n
        BY <1>3
      <4> QED
        BY <1>4, <1>5, <2>2, <4>1
    <3>5. p \in Seq(Blocks(cfg)) /\ found \in Seq(Blocks(cfg))
      BY <1>5
    <3>6. p = found
      <4> HIDE DEF Blocks
      <4> QED
        BY <1>5, <3>3, <3>4, <3>5
    <3> QED
      BY <3>6
  <2> QED
    BY <1>1, <1>2, <1>7, <2>1, <2>2, ComesNext
<1> QED
  BY <1>1, <1>2, <1>6, <1>7, FoundStep

\* The loop over the successors ends when none is left, or for a limit: then no path to
\* come fits in.
LEMMA FoundReturn == AllFound /\ Return => AllFound'
<1> SUFFICES ASSUME AllFound, Return PROVE AllFound'
  OBVIOUS
<1> DEFINE n == Len(calls)
<1>1. /\ calls # <<>> /\ ~MayGoOn /\ calls' = Front(calls)
      /\ UNCHANGED <<cfg, limit, reachablePath>>
  BY DEF Return, Running
<1>2. CutPaths /\ CutPaths' /\ CFGraph(cfg) /\ calls \in Seq(Frame(cfg))
  BY CutReturn, GraphFacts DEF AllFound, CutPaths
<1>3. /\ n \in Nat /\ n >= 1 /\ Len(calls') = n - 1
      /\ \A k \in 1..(n - 1) : calls'[k] = calls[k]
  BY <1>1, <1>2, FrontFacts, SequenceFacts
<1>4. Len(path) = n /\ Last(calls) = calls[n] /\ Len(reachablePath) \in Nat
  BY <1>2, WayFacts, SequenceFacts DEF path, Way, Last, CutPaths
<1>5. pathlen \in Nat /\ pathnum \in Nat
  BY <1>2, PathsAssumption DEF CutPaths, pathlen, pathnum
<1>6. ASSUME NEW p \in Seq(Blocks(cfg)), Wanted(p), Coming(p), ~(Len(reachablePath) >= pathnum) PROVE Coming(p)'
  <2>1. PICK k \in 1..n : /\ k < Len(p) /\ \A i \in 1..k : p[i] = calls[i].block
                          /\ p[k + 1] \in ToSet(calls[k].childs)
    BY <1>6 DEF Coming
  <2>2. Len(p) <= pathlen /\ Len(p) \in Nat
    BY <1>6 DEF Wanted
  <2>3. k # n
    <3>1. SUFFICES ASSUME k = n PROVE FALSE
      OBVIOUS
    <3>2. calls[n].childs # <<>>
      BY <2>1, <3>1 DEF ToSet
    <3>3. Len(path) < pathlen
      BY <1>3, <1>4, <1>5, <2>1, <2>2, <3>1
    <3>4. Len(reachablePath) < pathnum
      BY <1>4, <1>5, <1>6
    <3> QED
      BY <1>1, <1>4, <3>2, <3>3, <3>4 DEF MayGoOn
  <2>4. k \in 1..(n - 1) /\ \A i \in 1..k : i \in 1..(n - 1)
    BY <1>3, <2>3
  <2> QED
    BY <1>3, <2>1, <2>4 DEF Coming
<1> QED
  BY <1>1, <1>2, <1>4, <1>6, FoundStep

\* Between two steps of the search every path to the exit for which there is room has been
\* found, or goes on from a call under way with a successor that is still to come.
THEOREM FoundInvariant == Spec => []AllFound
<1>1. AllFound /\ [Next]_vars => AllFound'
  <2> SUFFICES ASSUME AllFound, [Next]_vars PROVE AllFound'
    OBVIOUS
  <2>1. CASE UNCHANGED vars
    <3>1. UNCHANGED <<cfg, limit, calls, reachablePath, fault>>
      BY <2>1 DEF vars
    <3>2. CutPaths' /\ Len(reachablePath') >= Len(reachablePath)
      <4>1. CutPaths'
        BY <3>1, CutNoPath DEF AllFound, CutPaths
      <4>2. Len(reachablePath) \in Nat
        BY SequenceFacts DEF AllFound, CutPaths
      <4> QED
        BY <3>1, <4>1, <4>2
    <3>3. \A p : Coming(p) => Coming(p)'
      BY <3>1 DEF Coming
    <3> QED
      BY <3>1, <3>2, <3>3, FoundStep
  <2> QED
    BY <2>1, FoundPassNull, FoundReach, FoundTraverse, FoundReturn DEF Next
<1> QED
  BY <1>1, FoundInit, PTL DEF Spec

-----------------------------------------------------------------------------
(* What control can reach and leave lies on a path of the cut graph.       *)

\* The rounds of ReachFrom.
IsReach(f, S) ==
  /\ f[0] = S /\ ReachFrom(S) = f[Cardinality(Blocks(cfg))]
  /\ \A k \in 1..Cardinality(Blocks(cfg)) : f[k] = f[k - 1] \cup UNION {Follow(b) : b \in f[k - 1]}
Rounds == [0..Cardinality(Blocks(cfg)) -> SUBSET Blocks(cfg)]

LEMMA ReachRounds ==
  ASSUME CFGraph(cfg), NEW S \in SUBSET Blocks(cfg)
  PROVE  \E f \in Rounds : IsReach(f, S)
<1> DEFINE N == Cardinality(Blocks(cfg))
           A == SUBSET Blocks(cfg)
           a == S
           go(x) == x \cup UNION {Follow(b) : b \in x}
           F == [k \in 1..N |-> [x \in A |-> go(x)]]
           step(f) == [k \in 0..N |-> IF k = 0 THEN a ELSE go(f[k - 1])]
           r == CHOOSE f : f = step(f)
<1>1. N \in Nat /\ a \in A
  BY FS_CardinalityType DEF CFGraph, IsGraph, Blocks
<1>2. ASSUME NEW x \in A PROVE go(x) \in A
  <2>1. ASSUME NEW b \in x PROVE Follow(b) \subseteq Blocks(cfg)
    <3>1. Succs(cfg, b) \in Seq(Blocks(cfg) \cup {Null})
      BY SuccsFacts
    <3> QED
      BY <3>1 DEF Follow, ToSet
  <2> QED
    BY <2>1
<1>3. ReachFrom(S) = r[N]
  BY DEF ReachFrom
<1> HIDE DEF N, A, a, go
<1>4. F \in Steps(N, A)
  BY <1>2 DEF Steps
<1>5. \A k \in 1..N, x \in A : F[k][x] = go(x)
  OBVIOUS
<1> HIDE DEF F
<1>60. Iterates(N, A, a, F)
  BY <1>1, <1>4, Recursion
<1>6. PICK f \in [0..N -> A] : f[0] = a /\ \A k \in 1..N : f[k] = F[k][f[k - 1]]
  BY <1>60 DEF Iterates, IsIterated
<1>7. \A k \in 1..N : k - 1 \in 0..N /\ k # 0
  BY <1>1
<1>8. \A k \in 1..N : f[k] = go(f[k - 1])
  BY <1>5, <1>6, <1>7
<1>9. ASSUME NEW k \in 0..N PROVE f[k] = IF k = 0 THEN a ELSE go(f[k - 1])
  <2>1. CASE k = 0
    BY <2>1, <1>6
  <2>2. CASE k # 0
    <3>1. k \in 1..N
      BY <1>1, <2>2
    <3> HIDE DEF step, r
    <3> QED
      BY <1>8, <2>2, <3>1
  <2> QED
    BY <2>1, <2>2
<1>10. f = step(f)
  BY <1>9
<1>11. r = step(r)
  BY <1>10
<1> HIDE DEF r
<1>12. 0 \in 0..N /\ 1..N \subseteq 0..N
  BY <1>1
<1>13. r[0] = a /\ r = [k \in 0..N |-> r[k]]
  BY <1>11, <1>12
<1>14. ASSUME NEW k \in 1..N PROVE r[k] = go(r[k - 1])
  BY <1>11, <1>12, <1>7
<1> DEFINE P == {k \in 0..N : r[k] \in A}
<1>15. 0 \in P
  BY <1>1, <1>12, <1>13
<1>16. ASSUME NEW k \in 1..N, k - 1 \in P PROVE k \in P
  BY <1>2, <1>12, <1>14, <1>16
<1> HIDE DEF P
<1>17. 0..N \subseteq P
  BY <1>1, <1>15, <1>16, BoundedInduction
<1>18. r \in [0..N -> A]
  BY <1>13, <1>17 DEF P
<1> QED
  BY <1>3, <1>13, <1>14, <1>18 DEF N, A, a, go, IsReach, Rounds

\* If control can come from a block to the exit, it can do so from a successor.
LEMMA ReachFirst ==
  ASSUME CFGraph(cfg), NEW b \in Blocks(cfg), NEW x, x \in ReachFrom({b}), x # b
  PROVE  \E c \in Follow(b) : x \in ReachFrom({c})
<1> DEFINE N == Cardinality(Blocks(cfg))
           G(c) == CHOOSE f \in Rounds : IsReach(f, {c})
<1>1. \A c \in Blocks(cfg) : G(c) \in Rounds /\ IsReach(G(c), {c})
  BY ReachRounds
<1>2. N \in Nat /\ N >= 1 /\ Follow(b) \subseteq Blocks(cfg)
  <2>1. N \in Nat /\ Blocks(cfg) = 0..(N - 1)
    BY FS_CardinalityType DEF CFGraph, IsGraph, Blocks
  <2>2. N >= 1
    BY <2>1
  <2>3. Succs(cfg, b) \in Seq(Blocks(cfg) \cup {Null})
    BY SuccsFacts
  <2> QED
    BY <2>1, <2>2, <2>3 DEF Follow, ToSet
<1> HIDE DEF G, N
<1>3. \A c \in Blocks(cfg) : /\ G(c)[0] = {c} /\ ReachFrom({c}) = G(c)[N]
                             /\ \A k \in 1..N : G(c)[k] = G(c)[k - 1] \cup UNION {Follow(d) : d \in G(c)[k - 1]}
  BY <1>1 DEF IsReach, N
<1> DEFINE P == {k \in 0..N : k # 0 => G(b)[k] \subseteq {b} \cup UNION {G(c)[k - 1] : c \in Follow(b)}}
<1>4. 0 \in P
  BY <1>2
<1>5. ASSUME NEW k \in 1..N, k - 1 \in P PROVE k \in P
  <2>1. CASE k = 1
    <3>1. k - 1 = 0 /\ G(b)[k] = {b} \cup Follow(b)
      BY <1>3, <2>1
    <3>2. \A c \in Follow(b) : c \in G(c)[k - 1]
      BY <1>2, <1>3, <3>1
    <3> QED
      BY <1>2, <3>1, <3>2
  <2>2. CASE k # 1
    <3>1. k - 1 \in 1..N /\ k - 1 # 0
      BY <1>2, <2>2
    <3>2. G(b)[k - 1] \subseteq {b} \cup UNION {G(c)[(k - 1) - 1] : c \in Follow(b)}
      BY <1>5, <3>1
    <3>3. G(b)[k] = G(b)[k - 1] \cup UNION {Follow(d) : d \in G(b)[k - 1]}
      BY <1>3
    <3>4. ASSUME NEW c \in Follow(b)
          PROVE  /\ c \in G(c)[k - 1] /\ G(c)[(k - 1) - 1] \subseteq G(c)[k - 1]
                 /\ \A d \in G(c)[(k - 1) - 1] : Follow(d) \subseteq G(c)[k - 1]
      <4>1. c \in Blocks(cfg)
        BY <1>2
      <4>2. G(c)[k - 1] = G(c)[(k - 1) - 1] \cup UNION {Follow(d) : d \in G(c)[(k - 1) - 1]}
        BY <1>3, <3>1, <4>1
      <4> DEFINE Q == {i \in 0..N : c \in G(c)[i]}
      <4>3. 0 \in Q
        <5>1. G(c)[0] = {c}
          BY <1>3, <4>1
        <5>2. 0 \in 0..N
          BY <1>2
        <5> QED
          BY <5>1, <5>2
      <4>4. ASSUME NEW i \in 1..N, i - 1 \in Q PROVE i \in Q
        <5>1. G(c)[i] = G(c)[i - 1] \cup UNION {Follow(d) : d \in G(c)[i - 1]}
          BY <1>3, <4>1
        <5>2. i \in 0..N /\ i - 1 \in 0..N
          BY <1>2
        <5> QED
          BY <4>4, <5>1, <5>2
      <4> HIDE DEF Q
      <4>5. 0..N \subseteq Q
        BY <1>2, <4>3, <4>4, BoundedInduction
      <4>6. k - 1 \in 0..N
        BY <1>2
      <4>7. c \in G(c)[k - 1]
        BY <4>5, <4>6 DEF Q
      <4> QED
        BY <4>2, <4>7
    <3>5. G(b)[k] \subseteq {b} \cup UNION {G(c)[k - 1] : c \in Follow(b)}
      <4> SUFFICES ASSUME NEW y \in G(b)[k], y # b PROVE \E c \in Follow(b) : y \in G(c)[k - 1]
        OBVIOUS
      <4>1. CASE y \in G(b)[k - 1]
        <5>1. PICK c \in Follow(b) : y \in G(c)[(k - 1) - 1]
          BY <3>2, <4>1
        <5> QED
          BY <3>4, <5>1
      <4>2. CASE y \notin G(b)[k - 1]
        <5>1. PICK d \in G(b)[k - 1] : y \in Follow(d)
          BY <3>3, <4>2
        <5>2. CASE d = b
          BY <3>4, <5>1, <5>2
        <5>3. CASE d # b
          <6>1. PICK c \in Follow(b) : d \in G(c)[(k - 1) - 1]
            BY <3>2, <5>3
          <6> QED
            BY <3>4, <5>1, <6>1
        <5> QED
          BY <5>2, <5>3
      <4> QED
        BY <4>1, <4>2
    <3> QED
      BY <1>2, <3>5
  <2> QED
    BY <2>1, <2>2
<1> HIDE DEF P
<1>6. 0..N \subseteq P
  BY <1>2, <1>4, <1>5, BoundedInduction
<1>7. N \in 0..N /\ N \in 1..N
  BY <1>2
<1>8. PICK c \in Follow(b) : x \in G(c)[N - 1]
  BY <1>2, <1>3, <1>6, <1>7 DEF P
<1>9. c \in Blocks(cfg)
  BY <1>2
<1>10. G(c)[N] = G(c)[N - 1] \cup UNION {Follow(d) : d \in G(c)[N - 1]}
  BY <1>3, <1>7, <1>9
<1>11. x \in G(c)[N]
  BY <1>8, <1>10
<1>12. ReachFrom({c}) = G(c)[N]
  BY <1>3, <1>9
<1> QED
  BY <1>11, <1>12

\* A path goes through each of its blocks on a path.
LEMMA PrefixPath ==
  ASSUME NEW g, NEW p, IsCutPath(g, p), NEW i \in 1..Len(p)
  PROVE  \E q : IsCutPath(g, q) /\ q[Len(q)] = p[i]
<1> DEFINE B == Blocks(g)
           q == [k \in 1..i |-> p[k]]
<1>1. p \in Seq(B) /\ p[1] = Entry(g)
  BY DEF IsCutPath
<1> HIDE DEF B
<1>2. i \in Nat /\ i >= 1 /\ Len(p) \in Nat /\ i <= Len(p)
  BY <1>1
<1>20. \A k \in 1..i : p[k] \in B
  BY <1>1, <1>2
<1>3. q \in Seq(B) /\ Len(q) = i /\ q # <<>>
  BY <1>2, <1>20
<1>4. \A k \in 1..i : q[k] = p[k]
  OBVIOUS
<1> HIDE DEF q
<1>5. ASSUME NEW k \in 2..i PROVE CutEdge(g, q[k - 1], q[k])
  <2>1. k \in 2..Len(p) /\ k \in 1..i /\ k - 1 \in 1..i
    BY <1>2
  <2> QED
    BY <1>4, <2>1 DEF IsCutPath
<1>6. q[1] = Entry(g) /\ q[i] = p[i]
  BY <1>1, <1>2, <1>4
<1>7. IsCutPath(g, q)
  BY <1>3, <1>5, <1>6 DEF IsCutPath, B
<1> QED
  BY <1>3, <1>6, <1>7

\* The search comes to where control comes: a loop that control is led back to has been
\* entered at that block.
LEMMA FollowReached ==
  ASSUME CFGraph(cfg), LoopsNested, LoopsEntered, NEW p, IsCutPath(cfg, p), NEW c \in Follow(p[Len(p)])
  PROVE  \E q : IsCutPath(cfg, q) /\ q[Len(q)] = c
<1> DEFINE m == Len(p)
           b == p[m]
<1>1. p \in Seq(Blocks(cfg)) /\ p # <<>> /\ p[1] = Entry(cfg)
  BY DEF IsCutPath
<1>2. m \in Nat /\ m >= 1 /\ m \in 1..m
  <2> HIDE DEF Blocks
  <2> QED
    BY <1>1
<1>3. \A k \in 1..m : p[k] \in Blocks(cfg) /\ p[k] # Null /\ p[k] \in Nat
  BY <1>1, BlocksFacts DEF CFGraph
<1>4. c \in ToSet(Succs(cfg, b)) /\ c \in Blocks(cfg) /\ c # Null /\ c \in Nat /\ c # Entry(cfg) /\ c <= Entry(cfg)
  <2>1. b \in Blocks(cfg) /\ c \in ToSet(Succs(cfg, b)) /\ c # Null
    BY <1>2, <1>3 DEF Follow
  <2>2. Succs(cfg, b) \in Seq(Blocks(cfg) \cup {Null})
    BY <2>1, SuccsFacts
  <2>3. c \in Blocks(cfg)
    BY <2>1, <2>2 DEF ToSet
  <2> QED
    BY <2>1, <2>3, BlocksFacts
<1>5. ASSUME NEW k \in 2..m
      PROVE  \E j \in 1..(k - 1) : /\ p[j] = Source(cfg, p[k - 1])
                                   /\ p[k] \in Follow(p[j]) /\ p[k] \in ToSet(Succs(cfg, p[j]))
  <2>1. k \in 1..m /\ k - 1 \in 1..(m - 1) /\ CutEdge(cfg, p[k - 1], p[k])
    BY <1>2 DEF IsCutPath
  <2>2. PICK j \in 1..(k - 1) : p[j] = Source(cfg, p[k - 1])
    BY <2>1, SourceOnPath
  <2> QED
    BY <1>3, <2>1, <2>2 DEF CutEdge, Follow
<1>6. CASE ~LoopBackOfDo(cfg, b) /\ ~LeadsBack(cfg, b)
  <2>1. CutEdge(cfg, b, c)
    BY <1>2, <1>3, <1>4, <1>6 DEF CutEdge, Source
  <2>2. IsCutPath(cfg, Append(p, c))
    BY <1>4, <2>1, ExtendPath
  <2>3. Append(p, c)[Len(Append(p, c))] = c
    <3> DEFINE B == Blocks(cfg)
    <3>1. p \in Seq(B) /\ c \in B
      BY <1>1, <1>4
    <3> HIDE DEF B
    <3> QED
      BY <3>1
  <2> QED
    BY <2>2, <2>3
<1>7. CASE LoopBackOfDo(cfg, b) \/ LeadsBack(cfg, b)
  <2> DEFINE low == IF LoopBackOfDo(cfg, b) THEN DoCondition(cfg, b) ELSE b
             D == low..c
             In == {k \in 1..m : p[k] \in D}
  <2>1. low <= c /\ \A d \in Blocks(cfg) \ D : Follow(d) \cap D \subseteq {c}
    BY <1>2, <1>3, <1>7 DEF LoopsEntered
  <2>2. \E k \in 1..m : p[k] = low
    <3>1. CASE LoopBackOfDo(cfg, b)
      <4>0. low = DoCondition(cfg, b) /\ b \in Blocks(cfg) /\ low \in Blocks(cfg)
        BY <1>2, <1>3, <3>1, DoConditionFacts
      <4>1. b # Entry(cfg)
        <5>1. PICK x \in PredEdges(cfg, b) : PredEdges(cfg, b) = {x} /\ ~cfg.succ[x[1]][x[2]].pruned
          BY <3>1 DEF LoopBackOfDo
        <5>2. PICK y \in Blocks(cfg) : \E k \in DOMAIN cfg.succ[y] : cfg.succ[y][k].to = b
          BY DEF PredEdges
        <5> QED
          BY <5>2 DEF CFGraph, IsGraph, Entry, Blocks
      <4>2. m \in 2..m
        BY <1>1, <1>2, <4>1
      <4>3. PICK j \in 1..(m - 1) : b \in ToSet(Succs(cfg, p[j]))
        BY <1>5, <4>2
      <4>4. j \in 1..m
        BY <1>2
      <4>5. p[j] = low
        BY <1>3, <3>1, <4>0, <4>3, <4>4, DoConditionFacts
      <4> QED
        BY <4>4, <4>5
    <3>2. CASE ~LoopBackOfDo(cfg, b)
      BY <1>2, <3>2
    <3> QED
      BY <3>1, <3>2
  <2>3. In \subseteq Nat /\ In # {}
    <3>1. PICK k \in 1..m : p[k] = low
      BY <2>2
    <3>2. low \in D
      BY <1>3, <1>4, <2>1, <3>1
    <3> HIDE DEF low, D
    <3> QED
      BY <1>2, <3>1, <3>2
  <2>4. PICK i \in In : \A k \in In : i <= k
    <3> HIDE DEF In
    <3> QED
      BY <2>3, LeastNumber
  <2>5. i \in 1..m /\ p[i] \in D
    OBVIOUS
  <2>6. p[i] = c
    <3>1. CASE i = 1
      <4>1. p[i] <= c /\ p[i] = Entry(cfg)
        BY <1>1, <1>3, <1>4, <2>5, <3>1
      <4> QED
        BY <1>3, <1>4, <2>5, <4>1
    <3>2. CASE i # 1
      <4>1. i \in 2..m
        BY <1>2, <2>5, <3>2
      <4>2. PICK j \in 1..(i - 1) : p[i] \in Follow(p[j])
        BY <1>5, <4>1
      <4>3. j \in 1..m /\ ~(i <= j)
        BY <1>2, <4>1
      <4>4. p[j] \in Blocks(cfg) \ D
        BY <1>3, <2>4, <4>3
      <4> QED
        BY <2>1, <2>5, <4>2, <4>4
    <3> QED
      BY <3>1, <3>2
  <2> QED
    BY <2>5, <2>6, PrefixPath
<1> QED
  BY <1>6, <1>7

LEMMA ReachedByPath ==
  ASSUME CFGraph(cfg), LoopsNested, LoopsEntered, NEW b \in ReachFrom({entry})
  PROVE  \E p : IsCutPath(cfg, p) /\ p[Len(p)] = b
<1> DEFINE N == Cardinality(Blocks(cfg))
<1>1. entry = Entry(cfg) /\ entry \in Blocks(cfg) /\ N \in Nat
  BY BlocksFacts, FS_CardinalityType DEF entry, Entry, CFGraph, IsGraph, Blocks
<1>2. PICK f \in Rounds : IsReach(f, {entry})
  BY <1>1, ReachRounds
<1> DEFINE Q == {k \in 0..N : \A x \in f[k] : \E p : IsCutPath(cfg, p) /\ p[Len(p)] = x}
<1> HIDE DEF N
<1>3. /\ f[0] = {entry} /\ ReachFrom({entry}) = f[N]
      /\ \A k \in 1..N : f[k] = f[k - 1] \cup UNION {Follow(x) : x \in f[k - 1]}
  BY <1>2 DEF IsReach, N
<1>4. 0 \in Q
  <2> DEFINE B == Blocks(cfg)
             p == <<entry>>
  <2>1. entry \in B /\ entry = Entry(cfg)
    BY <1>1
  <2> HIDE DEF B
  <2>2. p \in Seq(B) /\ p # <<>> /\ Len(p) = 1 /\ p[1] = entry /\ 2..Len(p) = {}
    BY <2>1
  <2> HIDE DEF p
  <2>3. IsCutPath(cfg, p)
    BY <2>1, <2>2 DEF IsCutPath, B
  <2>4. p[Len(p)] = entry
    BY <2>2
  <2> QED
    BY <1>1, <1>3, <2>3, <2>4
<1>5. ASSUME NEW k \in 1..N, k - 1 \in Q PROVE k \in Q
  <2>1. SUFFICES ASSUME NEW x \in f[k] PROVE \E p : IsCutPath(cfg, p) /\ p[Len(p)] = x
    BY <1>1
  <2>2. CASE x \in f[k - 1]
    BY <1>5, <2>2
  <2>3. CASE x \notin f[k - 1]
    <3>1. PICK y \in f[k - 1] : x \in Follow(y)
      BY <1>3, <2>3
    <3>2. PICK p : IsCutPath(cfg, p) /\ p[Len(p)] = y
      BY <1>5, <3>1
    <3> QED
      BY <3>1, <3>2, FollowReached
  <2> QED
    BY <2>2, <2>3
<1> HIDE DEF Q
<1>6. 0..N \subseteq Q
  BY <1>1, <1>4, <1>5, BoundedInduction
<1>7. N \in 0..N
  BY <1>1
<1> QED
  BY <1>3, <1>6, <1>7 DEF Q

\* A way to the exit through the cut graph.
WayOut(q, b) ==
  /\ q \in Seq(Blocks(cfg)) /\ q # <<>> /\ q[1] = b /\ q[Len(q)] = exit
  /\ \A k \in 2..Len(q) : CutEdge(cfg, q[k - 1], q[k])

LEMMA PrependWay ==
  ASSUME NEW b \in Blocks(cfg), NEW c, CutEdge(cfg, b, c), NEW q, WayOut(q, c)
  PROVE  \E r : WayOut(r, b)
<1> DEFINE B == Blocks(cfg)
           n == Len(q)
           r == [k \in 1..(n + 1) |-> IF k = 1 THEN b ELSE q[k - 1]]
<1>1. q \in Seq(B) /\ q # <<>> /\ q[1] = c /\ q[n] = exit
  BY DEF WayOut
<1>2. b \in B
  OBVIOUS
<1> HIDE DEF B
<1>3. n \in Nat /\ n >= 1 /\ \A k \in 1..n : q[k] \in B
  BY <1>1
<1>4. \A k \in 1..(n + 1) : r[k] \in B
  <2> TAKE k \in 1..(n + 1)
  <2>1. k # 1 => k - 1 \in 1..n
    BY <1>3
  <2> QED
    BY <1>2, <1>3, <2>1
<1>5. r \in Seq(B) /\ Len(r) = n + 1 /\ r # <<>>
  BY <1>3, <1>4
<1>6. r[1] = b /\ \A k \in 2..(n + 1) : r[k] = q[k - 1]
  BY <1>3
<1> HIDE DEF r
<1>7. r[n + 1] = exit
  BY <1>1, <1>3, <1>6
<1>8. ASSUME NEW k \in 2..(n + 1) PROVE CutEdge(cfg, r[k - 1], r[k])
  <2>1. CASE k = 2
    <3>1. k - 1 = 1 /\ r[k] = q[1]
      BY <1>6, <2>1
    <3> QED
      BY <1>1, <1>6, <3>1
  <2>2. CASE k # 2
    <3>1. k - 1 \in 2..n /\ k - 1 \in 2..(n + 1)
      BY <1>3, <2>2
    <3>2. r[k] = q[k - 1] /\ r[k - 1] = q[(k - 1) - 1]
      BY <1>6, <3>1
    <3> QED
      BY <3>1, <3>2 DEF WayOut
  <2> QED
    BY <2>1, <2>2
<1>9. WayOut(r, b)
  BY <1>5, <1>6, <1>7, <1>8 DEF WayOut, B
<1> QED
  BY <1>9

\* From a block that control can leave towards the exit the cut graph leads there: ranks
\* fall, and behind the end of a loop there is a way on.
LEMMA WayToExit ==
  ASSUME CFGraph(cfg), Numbered(cfg), LoopsLeft, NEW b \in Blocks(cfg), exit \in ReachFrom({b})
  PROVE  \E q : WayOut(q, b)
<1> DEFINE Bad == {x \in Blocks(cfg) : exit \in ReachFrom({x}) /\ ~\E q : WayOut(q, x)}
           R == {Rank(cfg, x) + 1 : x \in Bad}
<1> SUFFICES ASSUME b \in Bad PROVE FALSE
  OBVIOUS
<1>1. ASSUME NEW x \in Blocks(cfg) PROVE Rank(cfg, x) \in Int /\ Rank(cfg, x) + 1 \in Nat
  <2>1. x \in Nat /\ (LoopBackOfDo(cfg, x) => DoCondition(cfg, x) \in Nat)
    BY BlocksFacts, DoConditionFacts
  <2> QED
    BY <2>1 DEF Rank
<1>2. R \subseteq Nat /\ R # {}
  BY <1>1
<1>3. PICK x \in Bad : \A y \in Bad : Rank(cfg, x) <= Rank(cfg, y)
  <2> HIDE DEF R
  <2>1. PICK r \in R : \A s \in R : r <= s
    BY <1>2, LeastNumber
  <2> USE DEF R
  <2>2. PICK x \in Bad : r = Rank(cfg, x) + 1
    OBVIOUS
  <2>3. ASSUME NEW y \in Bad PROVE Rank(cfg, x) <= Rank(cfg, y)
    <3>1. r <= Rank(cfg, y) + 1
      BY <2>1
    <3> QED
      BY <1>1, <2>2, <3>1
  <2> QED
    BY <2>2, <2>3
<1>4. x \in Blocks(cfg) /\ exit \in ReachFrom({x}) /\ ~\E q : WayOut(q, x)
  OBVIOUS
<1> HIDE DEF Bad, R
<1>5. x # exit
  <2> SUFFICES ASSUME x = exit PROVE FALSE
    OBVIOUS
  <2> DEFINE B == Blocks(cfg)
             q == <<exit>>
  <2>1. exit \in B
    BY ExitFacts
  <2> HIDE DEF B
  <2>2. q \in Seq(B) /\ q # <<>> /\ Len(q) = 1 /\ q[1] = exit /\ 2..Len(q) = {}
    BY <2>1
  <2> HIDE DEF q
  <2>3. WayOut(q, exit)
    BY <2>2 DEF WayOut, B
  <2> QED
    BY <1>4, <2>3
<1>6. PICK c \in Blocks(cfg) : CutEdge(cfg, x, c) /\ exit \in ReachFrom({c})
  <2>1. CASE LoopBackOfDo(cfg, x) \/ LeadsBack(cfg, x)
    <3>1. PICK c \in ToSet(CutSucc(cfg, x)) \ {Null} : exit \in ReachFrom({c})
      BY <1>4, <2>1 DEF LoopsLeft
    <3>2. CutEdge(cfg, x, c)
      BY <1>4, CutSuccFacts
    <3> QED
      BY <3>1, <3>2 DEF CutEdge
  <2>2. CASE ~LoopBackOfDo(cfg, x) /\ ~LeadsBack(cfg, x)
    <3>1. PICK c \in Follow(x) : exit \in ReachFrom({c})
      BY <1>4, <1>5, ReachFirst
    <3>2. c \in ToSet(Succs(cfg, x)) /\ c # Null
      BY DEF Follow
    <3>3. Succs(cfg, x) \in Seq(Blocks(cfg) \cup {Null})
      BY <1>4, SuccsFacts
    <3>4. c \in Blocks(cfg)
      BY <3>2, <3>3 DEF ToSet
    <3>5. CutEdge(cfg, x, c)
      BY <1>4, <2>2, <3>2, <3>4 DEF CutEdge, Source
    <3> QED
      BY <3>1, <3>4, <3>5
  <2> QED
    BY <2>1, <2>2
<1>7. Rank(cfg, c) < Rank(cfg, x)
  BY <1>4, <1>6, RankFalls
<1>8. c \notin Bad
  BY <1>1, <1>3, <1>4, <1>7
<1>9. PICK q : WayOut(q, c)
  BY <1>6, <1>8 DEF Bad
<1> QED
  BY <1>4, <1>6, <1>9, PrependWay

\* A path to a block and a way out from it.
LEMMA JoinPath ==
  ASSUME NEW p, IsCutPath(cfg, p), NEW b, p[Len(p)] = b, NEW q, WayOut(q, b)
  PROVE  \E r \in Seq(Blocks(cfg)) : Found(cfg, r) /\ b \in ToSet(r)
<1> DEFINE B == Blocks(cfg)
           m == Len(p)
           n == Len(q)
           r == [k \in 1..(m + n - 1) |-> IF k <= m THEN p[k] ELSE q[k - m + 1]]
<1>1. /\ p \in Seq(B) /\ p # <<>> /\ p[1] = Entry(cfg)
      /\ q \in Seq(B) /\ q # <<>> /\ q[1] = b /\ q[n] = exit
  BY DEF IsCutPath, WayOut
<1> HIDE DEF B
<1>2. m \in Nat /\ m >= 1 /\ n \in Nat /\ n >= 1
  BY <1>1
<1>20. (\A k \in 1..m : p[k] \in B) /\ \A k \in 1..n : q[k] \in B
  BY <1>1
<1>3. ASSUME NEW k \in 1..(m + n - 1) PROVE r[k] \in B
  <2>1. k <= m => k \in 1..m
    BY <1>2
  <2>2. ~(k <= m) => k - m + 1 \in 1..n
    BY <1>2
  <2> QED
    BY <1>20, <2>1, <2>2
<1>4. m + n - 1 \in Nat /\ m + n - 1 >= 1
  BY <1>2
<1>5. r \in Seq(B) /\ Len(r) = m + n - 1
  BY <1>3, <1>4
<1>6. \A k \in 1..m : r[k] = p[k]
  BY <1>2
<1>7. ASSUME NEW k \in 1..n PROVE r[m + k - 1] = q[k]
  <2>1. m + k - 1 \in 1..(m + n - 1)
    BY <1>2
  <2>2. CASE k = 1
    <3>1. m + k - 1 = m
      BY <1>2, <2>2
    <3> QED
      BY <1>1, <1>2, <1>6, <2>2, <3>1
  <2>3. CASE k # 1
    <3>1. ~(m + k - 1 <= m) /\ (m + k - 1) - m + 1 = k
      BY <1>2, <2>3
    <3> QED
      BY <2>1, <3>1
  <2> QED
    BY <2>2, <2>3
<1> HIDE DEF r
<1>50. r # <<>>
  BY <1>4, <1>5
<1>8. ASSUME NEW k \in 2..(m + n - 1) PROVE CutEdge(cfg, r[k - 1], r[k])
  <2>1. CASE k <= m
    <3>1. k \in 2..m /\ k \in 1..m /\ k - 1 \in 1..m
      BY <1>2, <2>1
    <3>2. r[k] = p[k] /\ r[k - 1] = p[k - 1]
      BY <1>6, <3>1
    <3> QED
      BY <3>1, <3>2 DEF IsCutPath
  <2>2. CASE ~(k <= m)
    <3> DEFINE j == k - m + 1
    <3>1. j \in 2..n /\ j \in 1..n /\ j - 1 \in 1..n /\ m + j - 1 = k /\ m + (j - 1) - 1 = k - 1
      BY <1>2, <2>2
    <3> HIDE DEF j
    <3>2. r[k] = q[j] /\ r[k - 1] = q[j - 1]
      BY <1>7, <3>1
    <3> QED
      BY <3>1, <3>2 DEF WayOut
  <2> QED
    BY <2>1, <2>2
<1>9. r[1] = Entry(cfg) /\ r[m + n - 1] = exit /\ r[m] = b
  <2>1. 1 \in 1..m /\ m \in 1..m /\ n \in 1..n
    BY <1>2
  <2> QED
    BY <1>1, <1>6, <1>7, <2>1
<1>10. IsCutPath(cfg, r)
  BY <1>5, <1>50, <1>8, <1>9 DEF IsCutPath, B
<1>11. Found(cfg, r)
  BY <1>5, <1>9, <1>10 DEF Found
<1>12. m \in 1..(m + n - 1)
  BY <1>2
<1>13. b \in ToSet(r)
  <2>1. DOMAIN r = 1..(m + n - 1)
    BY <1>5
  <2> QED
    BY <1>9, <1>12, <2>1 DEF ToSet
<1> QED
  BY <1>5, <1>11, <1>13 DEF B

\* A path that takes no block twice is no longer than there are blocks.
LEMMA PathFits ==
  ASSUME CFGraph(cfg), Numbered(cfg), NEW r, Found(cfg, r)
  PROVE  Len(r) <= Cardinality(Blocks(cfg))
<1>1. IsCutPath(cfg, r) /\ r \in Seq(Blocks(cfg))
  BY DEF Found, IsCutPath
<1>2. Cardinality(ToSet(r)) = Len(r)
  BY <1>1, BlocksDiffer
<1>3. ToSet(r) \subseteq Blocks(cfg)
  BY <1>1 DEF ToSet
<1>4. IsFiniteSet(Blocks(cfg))
  BY DEF CFGraph, IsGraph, Blocks
<1> QED
  BY <1>2, <1>3, <1>4, FS_Subset

\* getPathInFunc, where the limits do not stop it, returns a path through every block that
\* lies between the entry and the exit: getNonRecursiveSucc may leave a loop only at its
\* end, but whatever stands behind a break or return is on a path that leaves it there.
THEOREM ReachableCovered == Spec => []CoversReachable
<1>1. AllFound => CoversReachable
  <2> SUFFICES ASSUME AllFound, calls = <<>>, Len(reachablePath) < pathnum, pathlen >= Cardinality(Blocks(cfg)),
                      Numbered(cfg), LoopsNested, LoopsEntered, LoopsLeft,
                      NEW b \in ReachFrom({entry}), exit \in ReachFrom({b})
               PROVE  \E p \in ToSet(reachablePath) : b \in ToSet(p)
    BY DEF CoversReachable
  <2>1. CFGraph(cfg) /\ limit \in Nat \X Nat /\ reachablePath \in Seq(Seq(Blocks(cfg)))
    BY GraphFacts, PathsAssumption DEF AllFound, CutPaths
  <2>2. PICK p : IsCutPath(cfg, p) /\ p[Len(p)] = b
    BY <2>1, ReachedByPath
  <2>3. b \in Blocks(cfg)
    BY <2>2 DEF IsCutPath
  <2>4. PICK q : WayOut(q, b)
    BY <2>1, <2>3, WayToExit
  <2>5. PICK r \in Seq(Blocks(cfg)) : Found(cfg, r) /\ b \in ToSet(r)
    BY <2>2, <2>4, JoinPath
  <2>6. /\ Len(r) <= Cardinality(Blocks(cfg)) /\ Cardinality(Blocks(cfg)) \in Nat
        /\ Len(r) \in Nat /\ pathlen \in Nat /\ pathnum \in Nat /\ Len(reachablePath) \in Nat
    <3>1. Cardinality(Blocks(cfg)) \in Nat
      BY <2>1, FS_CardinalityType DEF CFGraph, IsGraph, Blocks
    <3> QED
      BY <2>1, <2>5, <3>1, PathFits DEF pathlen, pathnum
  <2>7. Wanted(r)
    BY <2>5, <2>6 DEF Wanted
  <2>8. ~Coming(r)
    BY DEF Coming
  <2>9. ~(Len(reachablePath) >= pathnum)
    BY <2>6
  <2>10. r \in ToSet(reachablePath)
    BY <2>7, <2>8, <2>9 DEF AllFound
  <2> QED
    BY <2>5, <2>10
<1> QED
  BY <1>1, FoundInvariant, PTL

===============================================================================
