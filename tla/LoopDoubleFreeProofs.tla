------------------------- MODULE LoopDoubleFreeProofs -------------------------
(***************************************************************************)
(* loop_doublefree_checker walks as BlockWorklist does, whatever its       *)
(* searches do; the walk looks at exactly the blocks control can reach:    *)
(* whatever is marked or follows a block that was looked at is looked at   *)
(* itself or still queued (WalkInv).  The checker searches from exactly    *)
(* the freeing statements in them, for every graph, every order of blocks  *)
(* and any statements: what lies behind blockiter has been searched from   *)
(* (LoopInv).  What a search reports lies on a path: the stack of calls of *)
(* checkSucceedBlocks is a way of control (Chained), along which no        *)
(* expression that is left in freeargs has been assigned (Intact).  And no *)
(* search misses a second free within two edges, of a variable assigned    *)
(* nowhere: the edges that the calls under way have tried lead to none in  *)
(* what depth they have left (NearInv).                                    *)
(*                                                                         *)
(* borrowed_reference_checker shares the walk, and what it leaves in its   *)
(* map does no harm as long as the units of the functions fit into memory  *)
(* (MapInv): the last section.                                             *)
(***************************************************************************)
EXTENDS LoopDoubleFree, BorrowedReference, SequenceLemmas

\* The entries of a sequence, as a set: what Append adds and what Tail leaves.
LEMMA AppendSet ==
  ASSUME NEW S, NEW s \in Seq(S), NEW e \in S
  PROVE  Append(s, e) \in Seq(S) /\ ToSet(Append(s, e)) = ToSet(s) \cup {e}
<1>1. /\ Append(s, e) \in Seq(S) /\ Len(s) \in Nat /\ Len(Append(s, e)) = Len(s) + 1
      /\ DOMAIN s = 1..Len(s) /\ DOMAIN Append(s, e) = 1..(Len(s) + 1)
      /\ Append(s, e)[Len(s) + 1] = e
      /\ \A i \in 1..Len(s) : Append(s, e)[i] = s[i]
  OBVIOUS
<1>2. ASSUME NEW x \in ToSet(s) \cup {e} PROVE x \in ToSet(Append(s, e))
  <2>1. CASE x = e
    BY <1>1, <2>1 DEF ToSet
  <2>2. CASE x \in ToSet(s)
    <3>1. PICK i \in 1..Len(s) : x = s[i]
      BY <1>1, <2>2 DEF ToSet
    <3> QED
      BY <1>1, <3>1 DEF ToSet
  <2> QED
    BY <2>1, <2>2
<1>3. ASSUME NEW x \in ToSet(Append(s, e)) PROVE x \in ToSet(s) \cup {e}
  <2>1. PICK i \in 1..(Len(s) + 1) : x = Append(s, e)[i]
    BY <1>1 DEF ToSet
  <2>2. CASE i = Len(s) + 1
    BY <1>1, <2>1, <2>2
  <2>3. CASE i \in 1..Len(s)
    BY <1>1, <2>1, <2>3 DEF ToSet
  <2> QED
    BY <1>1, <2>2, <2>3
<1> QED
  BY <1>1, <1>2, <1>3

LEMMA TailSet ==
  ASSUME NEW S, NEW s \in Seq(S), s # <<>>
  PROVE  /\ Head(s) \in S /\ Tail(s) \in Seq(S)
         /\ ToSet(s) = ToSet(Tail(s)) \cup {Head(s)}
<1>1. /\ Head(s) \in S /\ Tail(s) \in Seq(S) /\ Len(s) \in Nat \ {0}
      /\ Len(Tail(s)) = Len(s) - 1
      /\ DOMAIN s = 1..Len(s) /\ DOMAIN Tail(s) = 1..(Len(s) - 1)
      /\ Head(s) = s[1]
      /\ \A i \in 1..(Len(s) - 1) : Tail(s)[i] = s[i + 1]
  OBVIOUS
<1>2. ASSUME NEW x \in ToSet(s) PROVE x \in ToSet(Tail(s)) \cup {Head(s)}
  <2>1. PICK i \in 1..Len(s) : x = s[i]
    BY <1>1 DEF ToSet
  <2>2. CASE i = 1
    BY <1>1, <2>1, <2>2
  <2>3. CASE i # 1
    <3>1. i - 1 \in 1..(Len(s) - 1) /\ (i - 1) + 1 = i
      BY <1>1, <2>3
    <3>2. Tail(s)[i - 1] = x
      BY <1>1, <2>1, <3>1
    <3> QED
      BY <1>1, <3>1, <3>2 DEF ToSet
  <2> QED
    BY <2>2, <2>3
<1>3. ASSUME NEW x \in ToSet(Tail(s)) \cup {Head(s)} PROVE x \in ToSet(s)
  <2>1. CASE x = Head(s)
    BY <1>1, <2>1 DEF ToSet
  <2>2. CASE x \in ToSet(Tail(s))
    <3>1. PICK i \in 1..(Len(s) - 1) : x = Tail(s)[i]
      BY <1>1, <2>2 DEF ToSet
    <3>2. i + 1 \in 1..Len(s)
      BY <1>1
    <3> QED
      BY <1>1, <3>1, <3>2 DEF ToSet
  <2> QED
    BY <2>1, <2>2
<1> QED
  BY <1>1, <1>2, <1>3

-----------------------------------------------------------------------------
(* Graphs.                                                                 *)

\* The successors of a block are blocks, or missing.
LEMMA TargetFacts ==
  ASSUME NEW g \in Graph, NEW b \in Block
  PROVE  /\ Len(g.succ[b]) \in Nat /\ DOMAIN g.succ[b] = 1..Len(g.succ[b])
         /\ \A k \in DOMAIN g.succ[b] :
              /\ Target(g.succ[b][k]) \in Block \cup {Null}
              /\ Target(g.succ[b][k]) # Null => Target(g.succ[b][k]) \in Follow(g, b)
         /\ Follow(g, b) \subseteq Block
<1>1. g.succ[b] \in Seq(Edge)
  BY DEF Graph
<1>2. ASSUME NEW k \in DOMAIN g.succ[b] PROVE Target(g.succ[b][k]) \in Block \cup {Null}
  <2>1. g.succ[b][k] \in Edge
    BY <1>1
  <2>2. \A e \in Edge : e.to \in Block
    BY DEF Edge
  <2> QED
    BY <2>1, <2>2 DEF Target
<1> QED
  BY <1>1, <1>2 DEF Follow

\* Control reaches the entries, and what follows a block that it reaches.
LEMMA ReachableClosed ==
  ASSUME NEW g \in Graph
  PROVE  Closed(g, Reachable(g))
<1>1. \A b \in Entries(g) : b \in Reachable(g)
  BY DEF Reachable, Closed, Entries
<1>2. ASSUME NEW b \in Reachable(g), NEW c \in Follow(g, b)
      PROVE  c \in Reachable(g)
  <2>1. b \in Block
    BY DEF Reachable
  <2>2. c \in Block
    BY <2>1, TargetFacts
  <2>3. ASSUME NEW R \in SUBSET Block, Closed(g, R) PROVE c \in R
    <3>1. b \in R
      BY <2>3 DEF Reachable
    <3> QED
      BY <2>3, <3>1 DEF Closed
  <2> QED
    BY <2>2, <2>3 DEF Reachable
<1> QED
  BY <1>1, <1>2 DEF Closed

\* Nothing outside a closed set is reachable.
LEMMA ReachableLeast ==
  ASSUME NEW g \in Graph, NEW R \in SUBSET Block, Closed(g, R)
  PROVE  Reachable(g) \subseteq R
BY DEF Reachable

-----------------------------------------------------------------------------
(* The invariant.                                                          *)

LEMMA InitStep == WalkInit => WalkInv
<1> SUFFICES ASSUME WalkInit PROVE WalkInv
  OBVIOUS
<1>1. WalkTypeOK /\ ToSet(unfinished) = {}
  <2>1. Len(Order) \in Nat /\ cfg \in Graph
    BY WorklistAssumption DEF WalkInit
  <2>2. unfinished = <<>> /\ <<>> \in Seq(Block) /\ DOMAIN <<>> = {}
    BY DEF WalkInit
  <2> QED
    BY <2>1, <2>2 DEF WalkInit, WalkTypeOK, ToSet
<1>2. Known = {}
  BY <1>1 DEF WalkInit, Known
<1> QED
  BY <1>1, <1>2 DEF WalkInit, WalkInv

\* One step of the first loop.
LEMMA CollectStep == WalkInv /\ Collect => WalkInv'
<1> SUFFICES ASSUME WalkInv, Collect PROVE WalkInv'
  OBVIOUS
<1> USE DEF WalkInv
<1>1. WalkTypeOK /\ cfg \in Graph /\ unfinished \in Seq(Block) /\ scan \in 1..Len(Order)
  BY WorklistAssumption DEF WalkTypeOK, Collect
<1>2. Len(Order) \in Nat /\ Order[scan] \in Block
  BY <1>1, WorklistAssumption
<1>3. block = Null /\ examined = {} /\ block' = Null /\ examined' = {} /\ cfg' = cfg /\ scan' = scan + 1
  BY <1>1, <1>2 DEF Collect
<1>4. CASE IsEntry(cfg, Order[scan])
  <2>1. /\ unfinished' = Append(unfinished, Order[scan])
        /\ handled' = handled \cup {Order[scan]}
    BY <1>4 DEF Collect
  <2>2. unfinished' \in Seq(Block) /\ ToSet(unfinished') = ToSet(unfinished) \cup {Order[scan]}
    BY <1>1, <1>2, <2>1, AppendSet
  <2>3. Known' = Known \cup {Order[scan]}
    BY <1>3, <2>2 DEF Known
  <2>4. WalkTypeOK'
    BY <1>1, <1>2, <1>3, <2>1, <2>2 DEF WalkTypeOK, Collect
  <2>5. Order[scan] \in Reachable(cfg)
    BY <1>1, <1>2, <1>4, ReachableClosed DEF Closed, Entries
  <2>6. \A k \in 1..(scan' - 1) : IsEntry(cfg', Order[k]) => Order[k] \in Known'
    <3> TAKE k \in 1..(scan' - 1)
    <3>1. k \in 1..(scan - 1) \/ k = scan
      BY <1>1, <1>2, <1>3
    <3> QED
      BY <1>3, <2>3, <3>1
  <2> QED
    BY <1>3, <2>1, <2>3, <2>4, <2>5, <2>6
<1>5. CASE ~IsEntry(cfg, Order[scan])
  <2>1. unfinished' = unfinished /\ handled' = handled
    BY <1>5 DEF Collect
  <2>2. Known' = Known
    BY <1>3, <2>1 DEF Known
  <2>3. WalkTypeOK'
    BY <1>1, <1>2, <1>3, <2>1 DEF WalkTypeOK, Collect
  <2>4. \A k \in 1..(scan' - 1) : IsEntry(cfg', Order[k]) => Order[k] \in Known'
    <3> TAKE k \in 1..(scan' - 1)
    <3>1. k \in 1..(scan - 1) \/ k = scan
      BY <1>1, <1>2, <1>3
    <3> QED
      BY <1>3, <1>5, <2>2, <3>1
  <2> QED
    BY <1>3, <2>1, <2>2, <2>3, <2>4
<1> QED
  BY <1>4, <1>5

\* The head of the queue becomes the block at hand.
LEMMA TakeStep == WalkInv /\ Take => WalkInv'
<1> SUFFICES ASSUME WalkInv, Take PROVE WalkInv'
  OBVIOUS
<1> USE DEF WalkInv
<1>1. WalkTypeOK /\ cfg \in Graph /\ unfinished \in Seq(Block) /\ unfinished # <<>>
  BY DEF WalkTypeOK, Take
<1>2. /\ block' \in Block /\ block' = Head(unfinished) /\ unfinished' \in Seq(Block)
      /\ ToSet(unfinished) = ToSet(unfinished') \cup {block'}
  BY <1>1, TailSet DEF Take
<1>3. block' # Null
  BY <1>2, GraphAssumption
<1>4. Known' = Known
  BY <1>2, <1>3 DEF Known, Take
<1>5. WalkTypeOK'
  BY <1>1, <1>2 DEF WalkTypeOK, Take
<1>6. DOMAIN cfg.succ[block'] = 1..Len(cfg.succ[block']) /\ next' = 1
  BY <1>1, <1>2, TargetFacts DEF Take
<1>7. \A k \in DOMAIN cfg.succ[block'] : ~(k < next')
  BY <1>6
<1> QED
  BY <1>4, <1>5, <1>7 DEF Take

\* One successor of the block at hand.
LEMMA QueueStep == WalkInv /\ Queue => WalkInv'
<1> SUFFICES ASSUME WalkInv, Queue PROVE WalkInv'
  OBVIOUS
<1> USE DEF WalkInv
<1> DEFINE succ == Target(cfg.succ[block][next])
<1>1. WalkTypeOK /\ cfg \in Graph /\ unfinished \in Seq(Block) /\ next \in Nat \ {0}
  BY DEF WalkTypeOK
<1>2. block \in Block
  BY <1>1 DEF WalkTypeOK, Queue
<1>3. /\ DOMAIN cfg.succ[block] = 1..Len(cfg.succ[block]) /\ next \in DOMAIN cfg.succ[block]
      /\ succ \in Block \cup {Null}
      /\ succ # Null => succ \in Follow(cfg, block)
  <2>1. Len(cfg.succ[block]) \in Nat /\ DOMAIN cfg.succ[block] = 1..Len(cfg.succ[block])
    BY <1>1, <1>2, TargetFacts
  <2>2. next \in DOMAIN cfg.succ[block]
    BY <1>1, <2>1 DEF Queue
  <2> QED
    BY <1>1, <1>2, <2>1, <2>2, TargetFacts
<1>4. /\ cfg' = cfg /\ scan' = scan /\ block' = block /\ examined' = examined
      /\ next' = next + 1 /\ block # Null
  BY DEF Queue
<1>5. block \in Known
  BY <1>4 DEF Known
<1>6. CASE succ # Null /\ succ \notin handled
  <2>1. unfinished' = Append(unfinished, succ) /\ handled' = handled \cup {block}
    BY <1>6 DEF Queue
  <2>2. succ \in Block /\ succ \in Follow(cfg, block)
    BY <1>3, <1>6
  <2>3. unfinished' \in Seq(Block) /\ ToSet(unfinished') = ToSet(unfinished) \cup {succ}
    BY <1>1, <2>1, <2>2, AppendSet
  <2> HIDE DEF succ
  <2>4. Known' = Known \cup {succ}
    BY <1>4, <2>3 DEF Known
  <2>5. WalkTypeOK'
    BY <1>1, <1>2, <1>4, <2>1, <2>3 DEF WalkTypeOK
  <2>6. succ \in Reachable(cfg)
    BY <1>1, <1>5, <2>2, ReachableClosed DEF Closed
  <2>7. \A k \in DOMAIN cfg.succ[block] :
          k < next + 1 /\ Target(cfg.succ[block][k]) # Null => Target(cfg.succ[block][k]) \in Known'
    <3> TAKE k \in DOMAIN cfg.succ[block]
    <3> HAVE k < next + 1 /\ Target(cfg.succ[block][k]) # Null
    <3>1. k < next \/ k = next
      BY <1>1, <1>3
    <3> QED
      BY <1>4, <2>4, <3>1 DEF succ
  <2> QED
    BY <1>4, <1>5, <2>1, <2>4, <2>5, <2>6, <2>7
<1>7. CASE ~(succ # Null /\ succ \notin handled)
  <2>1. unfinished' = unfinished /\ handled' = handled
    BY <1>7 DEF Queue
  <2>2. Known' = Known
    BY <1>4, <2>1 DEF Known
  <2>3. WalkTypeOK'
    BY <1>1, <1>4, <2>1 DEF WalkTypeOK
  <2>4. succ # Null => succ \in Known
    BY <1>7
  <2>5. \A k \in DOMAIN cfg.succ[block] :
          k < next + 1 /\ Target(cfg.succ[block][k]) # Null => Target(cfg.succ[block][k]) \in Known'
    <3> TAKE k \in DOMAIN cfg.succ[block]
    <3> HAVE k < next + 1 /\ Target(cfg.succ[block][k]) # Null
    <3>1. k < next \/ k = next
      BY <1>1, <1>3
    <3> QED
      BY <1>4, <2>2, <2>4, <3>1
  <2> QED
    BY <1>4, <2>1, <2>2, <2>3, <2>5
<1> QED
  BY <1>6, <1>7

\* The block at hand is done.
LEMMA ExamineStep == WalkInv /\ Examine => WalkInv'
<1> SUFFICES ASSUME WalkInv, Examine PROVE WalkInv'
  OBVIOUS
<1> USE DEF WalkInv
<1>1. WalkTypeOK /\ cfg \in Graph /\ next \in Nat \ {0} /\ block \in Block /\ block # Null
  BY DEF WalkTypeOK, Examine
<1>2. Known' = Known
  BY <1>1 DEF Known, Examine
<1>3. WalkTypeOK'
  BY <1>1 DEF WalkTypeOK, Examine
<1>4. Follow(cfg, block) \subseteq Known
  <2>1. Len(cfg.succ[block]) \in Nat /\ DOMAIN cfg.succ[block] = 1..Len(cfg.succ[block])
    BY <1>1, TargetFacts
  <2>2. \A k \in DOMAIN cfg.succ[block] : k < next
    BY <1>1, <2>1 DEF Examine
  <2> QED
    BY <1>1, <2>2 DEF Follow
<1> QED
  BY <1>1, <1>2, <1>3, <1>4 DEF Examine

\* The walk is always in a state of WalkInv.
THEOREM WalkInvariant == WalkSpec => []WalkInv
<1>1. WalkInv /\ [WalkNext]_walk => WalkInv'
  <2> SUFFICES ASSUME WalkInv, [WalkNext]_walk PROVE WalkInv'
    OBVIOUS
  <2>1. CASE UNCHANGED walk
    BY <2>1 DEF WalkInv, WalkTypeOK, Known, walk
  <2>2. CASE WalkNext
    BY <2>2, CollectStep, TakeStep, QueueStep, ExamineStep DEF WalkNext
  <2> QED
    BY <2>1, <2>2
<1> QED
  BY <1>1, InitStep, PTL DEF WalkSpec

\* The walk of loop_doublefree_checker and borrowed_reference_checker looks at the
\* reachable blocks, all of them and no other, whatever the graph.
THEOREM ReachableExamined == WalkSpec => []ExaminesReachable
<1>1. WalkInv => ExaminesReachable
  <2> SUFFICES ASSUME WalkInv PROVE ExaminesReachable
    OBVIOUS
  <2>1. WalkTypeOK /\ cfg \in Graph /\ examined \subseteq Block
    BY DEF WalkInv, WalkTypeOK
  <2>2. examined \subseteq Reachable(cfg)
    BY DEF WalkInv, Known
  <2>3. ASSUME WalkDone PROVE Reachable(cfg) \subseteq examined
    <3>1. Known = examined
      <4>1. unfinished = <<>> /\ block = Null /\ DOMAIN <<>> = {}
        BY <2>3 DEF WalkDone
      <4>2. ToSet(unfinished) = {}
        BY <4>1 DEF ToSet
      <4> QED
        BY <4>1, <4>2 DEF Known
    <3>2. Entries(cfg) \subseteq examined
      <4> SUFFICES ASSUME NEW b \in Entries(cfg) PROVE b \in examined
        OBVIOUS
      <4>1. b \in ToSet(Order) /\ IsEntry(cfg, b)
        BY WorklistAssumption DEF Entries
      <4>2. PICK k \in 1..Len(Order) : Order[k] = b
        BY <4>1, WorklistAssumption DEF ToSet
      <4>3. k \in 1..(scan - 1)
        BY <2>1, <2>3, WorklistAssumption DEF WalkTypeOK, WalkDone
      <4> QED
        BY <3>1, <4>1, <4>2, <4>3 DEF WalkInv
    <3>3. Closed(cfg, examined)
      BY <3>1, <3>2 DEF Closed, WalkInv
    <3> QED
      BY <2>1, <3>3, ReachableLeast
  <2> QED
    BY <2>2, <2>3 DEF ExaminesReachable
<1> QED
  BY <1>1, WalkInvariant, PTL

-----------------------------------------------------------------------------
(* The checker implements the walk.                                        *)

\* A step of the checker is a step of the walk or leaves the walk as it is.
LEMMA StepsOfWalk == [Next]_vars => [WalkNext]_walk
BY DEF Next, vars, Walk, LeaveBlock, Skip, Free, Report, Pass, EndOfBlock, Successor,
       Return, SearchOver, WalkNext

\* The checker implements the walk.
THEOREM ImplementsWalk == Spec => WalkSpec
<1>1. Init => WalkInit
  BY DEF Init
<1> QED
  BY <1>1, StepsOfWalk, PTL DEF Spec, WalkSpec

\* The checker looks at the blocks that control can reach and at no other.
THEOREM CheckerExaminesReachable == Spec => []ExaminesReachable
BY ImplementsWalk, ReachableExamined, PTL

-----------------------------------------------------------------------------
(* The places of a graph.                                                  *)

\* The statements of a block are numbered from 1, and each is what Stmt says.
LEMMA StmtFacts ==
  ASSUME NEW g \in Graph, NEW b \in Block
  PROVE  /\ Len(g.stmts[b]) \in Nat /\ DOMAIN g.stmts[b] = 1..Len(g.stmts[b])
         /\ \A k \in DOMAIN g.stmts[b] :
              <<b, k>> \in Position /\ g.stmts[b][k].frees \in Seq(Place)
<1>1. g.stmts[b] \in Seq(Stmt)
  BY DEF Graph
<1>2. \A s \in Stmt : s.frees \in Seq(Place)
  BY DEF Stmt
<1> QED
  BY <1>1, <1>2 DEF Position

\* What is freed in a set of blocks.
LEMMA FreeingFacts ==
  ASSUME NEW S, NEW p
  PROVE  p \in Freeing(S) <=> /\ \E b \in S : \E k \in DOMAIN cfg.stmts[b] : p = <<b, k>>
                              /\ StmtAt(p).frees # <<>>
BY DEF Freeing, Places

\* The calls of a stack.
LEMMA StackFacts ==
  ASSUME NEW s \in Seq(Frame)
  PROVE  /\ Len(s) \in Nat
         /\ \A f \in Frame : Append(s, f) \in Seq(Frame) /\ Len(Append(s, f)) = Len(s) + 1
         /\ s # <<>> => /\ Last(s) \in Frame
                        /\ Front(s) \in Seq(Frame) /\ Len(Front(s)) = Len(s) - 1
         /\ <<>> \in Seq(Frame) /\ Len(<<>>) = 0
<1>1. Len(s) \in Nat /\ <<>> \in Seq(Frame) /\ Len(<<>>) = 0
  OBVIOUS
<1>2. \A f \in Frame : Append(s, f) \in Seq(Frame) /\ Len(Append(s, f)) = Len(s) + 1
  OBVIOUS
<1>3. ASSUME s # <<>>
      PROVE  Last(s) \in Frame /\ Front(s) \in Seq(Frame) /\ Len(Front(s)) = Len(s) - 1
  <2>1. Len(s) \in Nat \ {0}
    BY <1>3
  <2>2. Last(s) \in Frame
    BY <2>1 DEF Last
  <2>3. SubSeq(s, 1, Len(s) - 1) \in Seq(Frame) /\ Len(SubSeq(s, 1, Len(s) - 1)) = Len(s) - 1
    BY <2>1
  <2> QED
    BY <2>2, <2>3 DEF Front
<1> QED
  BY <1>1, <1>2, <1>3

-----------------------------------------------------------------------------
(* The invariant.                                                          *)

LEMMA LoopInit == Init => LoopInv
<1> SUFFICES ASSUME Init PROVE LoopInv
  OBVIOUS
<1>1. WalkInv /\ WalkTypeOK
  BY InitStep DEF Init, WalkInv
<1>2. site = Null /\ freeargs = {} /\ at = Null /\ stack = <<>> /\ doubleFlag = FALSE
      /\ freeCallCites = {} /\ warnings = {} /\ blockiter = 1 /\ block = Null /\ examined = {}
  BY DEF Init, WalkInit
<1>3. <<>> \in Seq(Frame) /\ Len(<<>>) = 0
  OBVIOUS
<1>4. TypeOK
  <2>0. doubleFlag \in BOOLEAN
    BY <1>2
  <2>1. stack \in Seq(Frame) /\ Len(stack) <= 3
    <3>1. stack = <<>>
      BY <1>2
    <3> QED
      BY <1>3, <3>1
  <2>2. freeargs \subseteq (IF site = Null THEN {} ELSE DOMAIN StmtAt(site).frees)
    BY <1>2
  <2>3. blockiter \in Nat \ {0} /\ site \in Position \cup {Null} /\ at \in Position \cup {Null}
    BY <1>2
  <2>4. freeCallCites \subseteq Position /\ warnings \subseteq [site : Position, again : Position]
    BY <1>2
  <2> QED
    BY <1>1, <2>0, <2>1, <2>2, <2>3, <2>4 DEF TypeOK
<1>5. Freeing({}) = {}
  BY FreeingFacts
<1>6. SearchedSoFar
  BY <1>2, <1>5 DEF SearchedSoFar
<1> QED
  BY <1>1, <1>2, <1>4, <1>6 DEF LoopInv, SearchOnlyInBlock

\* While the walk moves, no statement is looked at, and no block becomes examined.
LEMMA WalkStep == LoopInv /\ Walk => LoopInv'
<1> SUFFICES ASSUME LoopInv, Walk PROVE LoopInv'
  OBVIOUS
<1>1. WalkInv'
  BY CollectStep, TakeStep, QueueStep DEF LoopInv, Walk
<1>2. /\ cfg' = cfg /\ examined' = examined /\ freeCallCites' = freeCallCites
      /\ blockiter' = blockiter /\ site' = site /\ freeargs' = freeargs /\ at' = at
      /\ stack' = stack /\ doubleFlag' = doubleFlag /\ warnings' = warnings
  BY DEF Walk, Collect, Take, Queue, search
<1>3. TypeOK'
  BY <1>1, <1>2 DEF LoopInv, TypeOK, WalkInv, StmtAt
<1>4. blockiter = 1 /\ site = Null
  BY DEF LoopInv, SearchOnlyInBlock, Walk, Collect, Take, Queue, WalkInv, WalkTypeOK
<1>5. SearchOnlyInBlock'
  BY <1>2, <1>4 DEF SearchOnlyInBlock
<1>6. SearchedSoFar'
  <2>1. Freeing(examined)' = Freeing(examined) /\ Freeing(Reachable(cfg))' = Freeing(Reachable(cfg))
    BY <1>2 DEF Freeing, Places, StmtAt, Reachable, Closed, Entries, IsEntry, Follow, Target
  <2>2. ASSUME NEW k \in DOMAIN cfg'.stmts[block'], block' # Null PROVE ~(k < blockiter')
    <3>1. block' \in Block /\ cfg' \in Graph
      BY <1>1, <2>2 DEF WalkInv, WalkTypeOK
    <3> QED
      BY <1>2, <1>4, <2>2, <3>1, StmtFacts
  <2> QED
    BY <1>2, <2>1, <2>2 DEF LoopInv, SearchedSoFar
<1> QED
  BY <1>1, <1>3, <1>5, <1>6 DEF LoopInv

\* When a block is left, all its statements are behind.
LEMMA LeaveBlockStep == LoopInv /\ LeaveBlock => LoopInv'
<1> SUFFICES ASSUME LoopInv, LeaveBlock PROVE LoopInv'
  OBVIOUS
<1>1. WalkInv'
  BY ExamineStep DEF LoopInv, LeaveBlock
<1>2. /\ cfg' = cfg /\ examined' = examined \cup {block} /\ freeCallCites' = freeCallCites
      /\ blockiter' = 1 /\ site' = site /\ site = Null /\ freeargs' = freeargs /\ at' = at
      /\ stack' = stack /\ doubleFlag' = doubleFlag /\ warnings' = warnings
      /\ block # Null /\ block' = Null /\ blockiter > Len(cfg.stmts[block])
  BY DEF LeaveBlock, Examining, Examine, search
<1>3. TypeOK'
  BY <1>1, <1>2 DEF LoopInv, TypeOK, WalkInv, StmtAt
<1>4. SearchOnlyInBlock'
  BY <1>2 DEF SearchOnlyInBlock
<1>5. cfg \in Graph /\ block \in Block /\ blockiter \in Nat
  BY <1>2 DEF LoopInv, TypeOK, WalkTypeOK
<1>6. Freeing({block}) \subseteq freeCallCites
  <2> SUFFICES ASSUME NEW p \in Freeing({block}) PROVE p \in freeCallCites
    OBVIOUS
  <2>1. PICK k \in DOMAIN cfg.stmts[block] : p = <<block, k>> /\ StmtAt(p).frees # <<>>
    BY FreeingFacts
  <2>2. k < blockiter
    BY <1>2, <1>5, StmtFacts
  <2> QED
    BY <1>2, <2>1, <2>2 DEF LoopInv, SearchedSoFar
<1>7. SearchedSoFar'
  <2>1. Freeing(examined)' = Freeing(examined') /\ Freeing(Reachable(cfg))' = Freeing(Reachable(cfg))
    BY <1>2 DEF Freeing, Places, StmtAt, Reachable, Closed, Entries, IsEntry, Follow, Target
  <2>2. Freeing(examined') = Freeing(examined) \cup Freeing({block})
    BY <1>2 DEF Freeing, Places
  <2> QED
    BY <1>2, <1>6, <2>1, <2>2 DEF LoopInv, SearchedSoFar
<1> QED
  BY <1>1, <1>3, <1>4, <1>7 DEF LoopInv

\* The statement at hand lies in a block that control can reach.
LEMMA HereFacts ==
  ASSUME LoopInv, AtStmt
  PROVE  /\ cfg \in Graph /\ block \in Block /\ blockiter \in Nat \ {0}
         /\ block \in Reachable(cfg) /\ blockiter \in DOMAIN cfg.stmts[block]
         /\ Here \in Position /\ block # Null /\ next > Len(cfg.succ[block]) /\ site = Null
<1>1. /\ cfg \in Graph /\ block \in Block /\ blockiter \in Nat \ {0} /\ block # Null
      /\ next > Len(cfg.succ[block]) /\ site = Null /\ blockiter <= Len(cfg.stmts[block])
  BY DEF LoopInv, TypeOK, WalkTypeOK, AtStmt, Examining
<1>2. block \in Reachable(cfg)
  BY <1>1 DEF LoopInv, WalkInv, Known
<1>3. blockiter \in DOMAIN cfg.stmts[block]
  BY <1>1, StmtFacts
<1> QED
  BY <1>1, <1>2, <1>3 DEF Here, Position

\* What the walk keeps while a block is examined.
LEMMA WalkStays ==
  ASSUME LoopInv, UNCHANGED walk
  PROVE  /\ WalkInv' /\ WalkTypeOK'
         /\ cfg' = cfg /\ block' = block /\ next' = next /\ examined' = examined
         /\ Freeing(examined)' = Freeing(examined)
         /\ Freeing(Reachable(cfg))' = Freeing(Reachable(cfg))
         /\ \A p : StmtAt(p)' = StmtAt(p)
<1>1. WalkInv' /\ WalkTypeOK'
  BY DEF LoopInv, WalkInv, WalkTypeOK, Known, walk
<1>2. cfg' = cfg /\ block' = block /\ next' = next /\ examined' = examined
  BY DEF walk
<1>3. /\ Freeing(examined)' = Freeing(examined)
      /\ Freeing(Reachable(cfg))' = Freeing(Reachable(cfg))
  BY <1>2 DEF Freeing, Places, StmtAt, Reachable, Closed, Entries, IsEntry, Follow, Target
<1> QED
  BY <1>1, <1>2, <1>3 DEF StmtAt

LEMMA SkipStep == LoopInv /\ Skip => LoopInv'
<1> SUFFICES ASSUME LoopInv, Skip PROVE LoopInv'
  OBVIOUS
<1>1. AtStmt /\ StmtAt(Here).frees = <<>> /\ blockiter' = blockiter + 1 /\ UNCHANGED walk
      /\ site' = site /\ freeargs' = freeargs /\ at' = at /\ stack' = stack
      /\ doubleFlag' = doubleFlag /\ freeCallCites' = freeCallCites /\ warnings' = warnings
  BY DEF Skip, search
<1>2. TypeOK'
  <2>1. blockiter' \in Nat \ {0}
    BY <1>1, HereFacts
  <2> QED
    BY <1>1, <2>1, HereFacts, WalkStays DEF LoopInv, TypeOK
<1>3. SearchOnlyInBlock'
  <2>1. next \in Nat /\ Len(cfg.succ[block]) \in Nat
    BY <1>1, HereFacts, TargetFacts DEF LoopInv, WalkInv, WalkTypeOK
  <2> QED
    BY <1>1, <2>1, HereFacts, WalkStays DEF SearchOnlyInBlock
<1>4. SearchedSoFar'
  <2>1. ASSUME NEW k \in DOMAIN cfg.stmts[block], k < blockiter + 1, StmtAt(<<block, k>>).frees # <<>>
        PROVE  <<block, k>> \in freeCallCites
    <3>1. k \in Nat /\ k # blockiter
      BY <1>1, <2>1, HereFacts, StmtFacts DEF Here
    <3>2. k < blockiter
      BY <1>1, <2>1, <3>1, HereFacts
    <3> QED
      BY <1>1, <2>1, <3>2, HereFacts DEF LoopInv, SearchedSoFar
  <2>2. /\ Freeing(examined) \subseteq freeCallCites
        /\ freeCallCites \subseteq Freeing(Reachable(cfg))
    BY DEF LoopInv, SearchedSoFar
  <2> QED
    BY <1>1, <2>1, <2>2, WalkStays DEF SearchedSoFar
<1> QED
  BY <1>1, <1>2, <1>3, <1>4, WalkStays DEF LoopInv

\* A search begins, and its freeing statement is noted.
LEMMA FreeStep == LoopInv /\ Free => LoopInv'
<1> SUFFICES ASSUME LoopInv, Free PROVE LoopInv'
  OBVIOUS
<1>1. AtStmt /\ StmtAt(Here).frees # <<>> /\ blockiter' = blockiter + 1 /\ UNCHANGED walk
      /\ site' = Here /\ freeargs' = DOMAIN StmtAt(Here).frees /\ at' = <<block, blockiter + 1>>
      /\ doubleFlag' = FALSE /\ stack' = stack
      /\ freeCallCites' = freeCallCites \cup {Here} /\ warnings' = warnings
  BY DEF Free
<1>2. TypeOK'
  <2>1. blockiter' \in Nat \ {0} /\ at' \in Position /\ site' \in Position /\ site' # Null
    BY <1>1, HereFacts, GraphAssumption DEF Position
  <2>2. freeargs' \subseteq (IF site' = Null THEN {} ELSE DOMAIN StmtAt(site)'.frees)
    BY <1>1, <2>1, WalkStays DEF StmtAt
  <2>3. doubleFlag' \in BOOLEAN
    BY <1>1
  <2>4. freeCallCites' \subseteq Position
    BY <1>1, HereFacts DEF LoopInv, TypeOK
  <2>5. /\ stack' \in Seq(Frame) /\ Len(stack') <= 3
        /\ warnings' \subseteq [site : Position, again : Position]
    BY <1>1 DEF LoopInv, TypeOK
  <2> QED
    BY <1>1, <2>1, <2>2, <2>3, <2>4, <2>5, WalkStays DEF TypeOK
<1>3. SearchOnlyInBlock'
  <2>1. next \in Nat /\ Len(cfg.succ[block]) \in Nat
    BY <1>1, HereFacts, TargetFacts DEF LoopInv, WalkInv, WalkTypeOK
  <2> QED
    BY <1>1, <2>1, HereFacts, WalkStays DEF SearchOnlyInBlock
<1>4. SearchedSoFar'
  <2>1. ASSUME NEW k \in DOMAIN cfg.stmts[block], k < blockiter + 1, StmtAt(<<block, k>>).frees # <<>>
        PROVE  <<block, k>> \in freeCallCites \cup {Here}
    <3>1. CASE k = blockiter
      BY <3>1 DEF Here
    <3>2. CASE k # blockiter
      <4>1. k \in Nat /\ k < blockiter
        BY <1>1, <2>1, <3>2, HereFacts, StmtFacts
      <4> QED
        BY <1>1, <2>1, <4>1, HereFacts DEF LoopInv, SearchedSoFar
    <3> QED
      BY <3>1, <3>2
  <2>2. Here \in Freeing(Reachable(cfg))
    BY <1>1, HereFacts, FreeingFacts DEF Here
  <2>3. /\ Freeing(examined) \subseteq freeCallCites
        /\ freeCallCites \subseteq Freeing(Reachable(cfg))
    BY DEF LoopInv, SearchedSoFar
  <2> QED
    BY <1>1, <2>1, <2>2, <2>3, WalkStays DEF SearchedSoFar
<1> QED
  BY <1>1, <1>2, <1>3, <1>4, WalkStays DEF LoopInv

\* The steps of a search leave the rest of the invariant alone.
LEMMA SearchStays ==
  ASSUME LoopInv, UNCHANGED <<walk, blockiter, freeCallCites>>, site' = site \/ site' = Null
  PROVE  WalkInv' /\ SearchOnlyInBlock' /\ SearchedSoFar'
<1>1. SearchOnlyInBlock'
  BY WalkStays DEF LoopInv, SearchOnlyInBlock
<1>2. SearchedSoFar'
  BY WalkStays DEF LoopInv, SearchedSoFar
<1> QED
  BY <1>1, <1>2, WalkStays

\* What TypeOK says of the variables of a search.
SearchTyped ==
  /\ site \in Position \cup {Null}
  /\ freeargs \subseteq (IF site = Null THEN {} ELSE DOMAIN StmtAt(site).frees)
  /\ at \in Position \cup {Null}
  /\ stack \in Seq(Frame) /\ Len(stack) <= 3
  /\ doubleFlag \in BOOLEAN
  /\ warnings \subseteq [site : Position, again : Position]

LEMMA SearchStep ==
  ASSUME LoopInv, UNCHANGED <<walk, blockiter, freeCallCites>>, site' = site \/ site' = Null,
         SearchTyped'
  PROVE  LoopInv'
<1>1. blockiter' = blockiter /\ freeCallCites' = freeCallCites
  OBVIOUS
<1>2. TypeOK'
  BY <1>1, WalkStays DEF LoopInv, TypeOK, SearchTyped
<1> QED
  BY <1>2, SearchStays DEF LoopInv

\* The statement after a place is a place.
LEMMA NextPlace == ASSUME NEW p \in Position PROVE [p EXCEPT ![2] = @ + 1] \in Position
BY DEF Position

LEMMA ReportStep == LoopInv /\ Report => LoopInv'
<1> SUFFICES ASSUME LoopInv, Report PROVE LoopInv'
  OBVIOUS
<1>1. /\ site # Null /\ at # Null /\ doubleFlag' = TRUE
      /\ warnings' = warnings \cup {[site |-> site, again |-> at]}
      /\ at' = IF InOwnBlock THEN Null ELSE [at EXCEPT ![2] = @ + 1]
      /\ UNCHANGED <<walk, blockiter, freeCallCites>>
      /\ site' = site /\ freeargs' = freeargs /\ stack' = stack
  BY DEF Report, Comparing
<1>2. site \in Position /\ at \in Position
  BY <1>1 DEF LoopInv, TypeOK
<1>3. SearchTyped'
  <2>1. at' \in Position \cup {Null}
    BY <1>1, <1>2, NextPlace
  <2>2. warnings' \subseteq [site : Position, again : Position]
    BY <1>1, <1>2 DEF LoopInv, TypeOK
  <2>3. doubleFlag' \in BOOLEAN
    BY <1>1
  <2> QED
    BY <1>1, <2>1, <2>2, <2>3, WalkStays DEF LoopInv, TypeOK, SearchTyped
<1> QED
  BY <1>1, <1>3, SearchStep

LEMMA PassStep == LoopInv /\ Pass => LoopInv'
<1> SUFFICES ASSUME LoopInv, Pass PROVE LoopInv'
  OBVIOUS
<1>1. /\ site # Null /\ at # Null /\ freeargs' \subseteq freeargs
      /\ at' = [at EXCEPT ![2] = @ + 1]
      /\ UNCHANGED <<walk, blockiter, freeCallCites>>
      /\ site' = site /\ stack' = stack /\ doubleFlag' = doubleFlag /\ warnings' = warnings
  BY DEF Pass, Comparing
<1>2. SearchTyped'
  <2>1. at' \in Position \cup {Null}
    BY <1>1, NextPlace DEF LoopInv, TypeOK
  <2>2. freeargs' \subseteq (IF site' = Null THEN {} ELSE DOMAIN StmtAt(site)'.frees)
    BY <1>1, WalkStays DEF LoopInv, TypeOK, StmtAt
  <2> QED
    BY <1>1, <2>1, <2>2 DEF LoopInv, TypeOK, SearchTyped
<1> QED
  BY <1>1, <1>2, SearchStep

\* The stack grows only below depth three.
LEMMA EndOfBlockStep == LoopInv /\ EndOfBlock => LoopInv'
<1> SUFFICES ASSUME LoopInv, EndOfBlock PROVE LoopInv'
  OBVIOUS
<1>1. /\ site # Null /\ at # Null /\ at' = Null
      /\ stack' = IF doubleFlag THEN stack ELSE IF AtDepth THEN Front(stack) ELSE Called(at[1])
      /\ UNCHANGED <<walk, blockiter, freeCallCites>>
      /\ site' = site /\ freeargs' = freeargs /\ doubleFlag' = doubleFlag /\ warnings' = warnings
  BY DEF EndOfBlock
<1>2. at \in Position /\ stack \in Seq(Frame) /\ Len(stack) \in Nat /\ Len(stack) <= 3
  BY <1>1 DEF LoopInv, TypeOK
<1>3. [block |-> at[1], edge |-> 0] \in Frame
  BY <1>2 DEF Position, Frame
<1>4. stack' \in Seq(Frame) /\ Len(stack') <= 3
  <2>1. CASE doubleFlag
    BY <1>1, <1>2, <2>1
  <2>2. CASE ~doubleFlag /\ AtDepth
    <3>1. stack # <<>> /\ Len(stack) = 3
      <4>1. Len(stack) = 3
        BY <2>2 DEF AtDepth, Depth
      <4> QED
        BY <4>1
    <3>2. stack' = Front(stack)
      BY <1>1, <2>2
    <3>3. Front(stack) \in Seq(Frame) /\ Len(Front(stack)) = Len(stack) - 1
      BY <1>2, <3>1, StackFacts
    <3> QED
      BY <3>1, <3>2, <3>3
  <2>3. CASE ~doubleFlag /\ ~AtDepth
    <3>1. Len(stack) <= 2
      <4>1. Len(stack) # 3
        BY <2>3 DEF AtDepth, Depth
      <4>2. \A n \in Nat : n <= 3 /\ n # 3 => n <= 2
        OBVIOUS
      <4> QED
        BY <1>2, <4>1, <4>2
    <3>2. stack' = Append(stack, [block |-> at[1], edge |-> 0])
      BY <1>1, <2>3 DEF Called
    <3>3. stack' \in Seq(Frame) /\ Len(stack') = Len(stack) + 1
      BY <1>2, <1>3, <3>2, StackFacts
    <3> QED
      BY <1>2, <3>1, <3>3
  <2> QED
    BY <2>1, <2>2, <2>3
<1>5. SearchTyped'
  BY <1>1, <1>4, WalkStays DEF LoopInv, TypeOK, SearchTyped
<1> QED
  BY <1>1, <1>5, SearchStep

LEMMA SuccessorStep == LoopInv /\ Successor => LoopInv'
<1> SUFFICES ASSUME LoopInv, Successor PROVE LoopInv'
  OBVIOUS
<1> DEFINE edge == Last(stack).edge + 1
           succblock == Target(cfg.succ[Last(stack).block][edge])
<1>1. /\ Between /\ Last(stack).edge < Len(cfg.succ[Last(stack).block])
      /\ stack' = Append(Front(stack), [Last(stack) EXCEPT !.edge = edge])
      /\ at' = IF succblock = Null THEN Null ELSE <<succblock, 1>>
      /\ UNCHANGED <<walk, blockiter, freeCallCites>>
      /\ site' = site /\ freeargs' = freeargs /\ doubleFlag' = doubleFlag /\ warnings' = warnings
  BY DEF Successor
<1>2. cfg \in Graph /\ stack \in Seq(Frame) /\ stack # <<>> /\ Len(stack) \in Nat /\ Len(stack) <= 3
  BY <1>1 DEF LoopInv, TypeOK, WalkTypeOK, Between
<1>3. Last(stack) \in Frame /\ Last(stack).block \in Block /\ Last(stack).edge \in Nat
  BY <1>2, StackFacts DEF Frame
<1>4. stack' \in Seq(Frame) /\ Len(stack') <= 3
  <2>1. [Last(stack) EXCEPT !.edge = edge] \in Frame
    BY <1>3 DEF Frame
  <2>2. Front(stack) \in Seq(Frame) /\ Len(Front(stack)) = Len(stack) - 1
    BY <1>2, StackFacts
  <2>3. stack' \in Seq(Frame) /\ Len(stack') = Len(Front(stack)) + 1
    BY <1>1, <2>1, <2>2, StackFacts
  <2> QED
    BY <1>2, <2>2, <2>3
<1>5. at' \in Position \cup {Null}
  <2>1. edge \in DOMAIN cfg.succ[Last(stack).block]
    BY <1>1, <1>2, <1>3, TargetFacts
  <2>2. succblock \in Block \cup {Null}
    BY <1>2, <1>3, <2>1, TargetFacts
  <2> QED
    BY <1>1, <2>2 DEF Position
<1>6. SearchTyped'
  BY <1>1, <1>4, <1>5, WalkStays DEF LoopInv, TypeOK, SearchTyped
<1> QED
  BY <1>1, <1>6, SearchStep

LEMMA ReturnStep == LoopInv /\ Return => LoopInv'
<1> SUFFICES ASSUME LoopInv, Return PROVE LoopInv'
  OBVIOUS
<1>1. /\ Between /\ stack' = IF doubleFlag THEN <<>> ELSE Front(stack)
      /\ UNCHANGED <<walk, blockiter, freeCallCites>>
      /\ site' = site /\ freeargs' = freeargs /\ at' = at /\ doubleFlag' = doubleFlag
      /\ warnings' = warnings
  BY DEF Return
<1>2. stack \in Seq(Frame) /\ stack # <<>> /\ Len(stack) \in Nat /\ Len(stack) <= 3
  BY <1>1 DEF LoopInv, TypeOK, Between
<1>3. stack' \in Seq(Frame) /\ Len(stack') <= 3
  <2>1. CASE doubleFlag
    BY <1>1, <1>2, <2>1, StackFacts
  <2>2. CASE ~doubleFlag
    <3>1. stack' = Front(stack)
      BY <1>1, <2>2
    <3> QED
      BY <1>2, <3>1, StackFacts
  <2> QED
    BY <2>1, <2>2
<1>4. SearchTyped'
  BY <1>1, <1>3, WalkStays DEF LoopInv, TypeOK, SearchTyped
<1> QED
  BY <1>1, <1>4, SearchStep

LEMMA SearchOverStep == LoopInv /\ SearchOver => LoopInv'
<1> SUFFICES ASSUME LoopInv, SearchOver PROVE LoopInv'
  OBVIOUS
<1>1. /\ site' = Null /\ freeargs' = {} /\ doubleFlag' = FALSE
      /\ UNCHANGED <<walk, blockiter, freeCallCites>>
      /\ at' = at /\ stack' = stack /\ warnings' = warnings
  BY DEF SearchOver
<1>2. SearchTyped'
  <2>1. doubleFlag' \in BOOLEAN
    BY <1>1
  <2> QED
    BY <1>1, <2>1 DEF LoopInv, TypeOK, SearchTyped
<1> QED
  BY <1>1, <1>2, SearchStep

\* The checker is always in a state of LoopInv.
THEOREM LoopInvariant == Spec => []LoopInv
<1>1. LoopInv /\ [Next]_vars => LoopInv'
  <2> SUFFICES ASSUME LoopInv, [Next]_vars PROVE LoopInv'
    OBVIOUS
  <2>1. CASE UNCHANGED vars
    <3>1. /\ UNCHANGED <<walk, blockiter, freeCallCites>>
          /\ site' = site /\ freeargs' = freeargs /\ at' = at /\ stack' = stack
          /\ doubleFlag' = doubleFlag /\ warnings' = warnings
      BY <2>1 DEF vars, search
    <3>2. SearchTyped'
      BY <3>1, WalkStays DEF LoopInv, TypeOK, SearchTyped
    <3> QED
      BY <3>1, <3>2, SearchStep
  <2>2. CASE Next
    BY <2>2, WalkStep, LeaveBlockStep, SkipStep, FreeStep, ReportStep, PassStep, EndOfBlockStep,
       SuccessorStep, ReturnStep, SearchOverStep DEF Next
  <2> QED
    BY <2>1, <2>2
<1> QED
  BY <1>1, LoopInit, PTL DEF Spec

\* The variables keep their types, and the recursion of checkSucceedBlocks is three
\* calls deep at most.
THEOREM CheckerTyped == Spec => []TypeOK
<1>1. LoopInv => TypeOK
  BY DEF LoopInv
<1> QED
  BY <1>1, LoopInvariant, PTL

\* When the checker is through with a function, it has searched from every freeing
\* statement that control can reach, and from no other.
THEOREM ReachableFreesSearched == Spec => []FreesSearched
<1>1. LoopInv /\ ExaminesReachable => FreesSearched
  <2> SUFFICES ASSUME LoopInv, ExaminesReachable, WalkDone
               PROVE  freeCallCites = Freeing(Reachable(cfg))
    BY DEF FreesSearched
  <2>1. examined = Reachable(cfg)
    BY DEF ExaminesReachable
  <2> QED
    BY <2>1 DEF LoopInv, SearchedSoFar
<1> QED
  BY <1>1, LoopInvariant, CheckerExaminesReachable, PTL

-----------------------------------------------------------------------------
(* What is reported lies on some path.                                     *)

Freed(n) == StmtAt(site).frees[n]

\* The blocks of the calls under way, and the one that is searched, follow each other.
Chained ==
  /\ stack # <<>> => stack[1].block = site[1]
  /\ \A k \in 2..Len(stack) : stack[k].block \in Follow(cfg, stack[k - 1].block)
  /\ at # Null => IF stack = <<>> THEN at[1] = site[1] /\ site[2] < at[2]
                  ELSE at[1] \in Follow(cfg, stack[Len(stack)].block)

\* On the way from the free to the statement that is compared the variable of e is not
\* assigned.
Intact(e) ==
  /\ stack # <<>> => Through(site[1], site[2] + 1, e)
  /\ \A k \in 2..Len(stack) : Through(stack[k].block, 1, e)
  /\ at # Null => StaysFreed(at[1], IF stack = <<>> THEN site[2] + 1 ELSE 1, at[2] - 1, e)

WayInv ==
  /\ site = Null => at = Null /\ stack = <<>>
  /\ site # Null => Chained
  /\ site # Null /\ OneOfEach(site) => \A n \in freeargs : FreedVar(n) # Null => Intact(Freed(n))
  /\ ReportsOnPath

\* Every call is one on a block.
LEMMA FrameFacts ==
  ASSUME NEW s \in Seq(Frame), NEW k \in 1..Len(s)
  PROVE  s[k] \in Frame /\ s[k].block \in Block /\ s[k].edge \in Nat
<1>1. s[k] \in Frame
  OBVIOUS
<1> QED
  BY <1>1 DEF Frame

\* What is left when the last call returns.
LEMMA PopFacts ==
  ASSUME NEW s \in Seq(Frame), s # <<>>
  PROVE  /\ Len(s) \in Nat \ {0} /\ Front(s) \in Seq(Frame) /\ Len(Front(s)) = Len(s) - 1
         /\ \A k \in 1..(Len(s) - 1) : Front(s)[k] = s[k]
<1>1. Len(s) \in Nat \ {0}
  OBVIOUS
<1>2. Front(s) = SubSeq(s, 1, Len(s) - 1)
  BY DEF Front
<1>3. Front(s) \in Seq(Frame) /\ Len(Front(s)) = Len(s) - 1
  BY StackFacts
<1>4. ASSUME NEW k \in 1..(Len(s) - 1) PROVE SubSeq(s, 1, Len(s) - 1)[k] = s[k]
  BY <1>1
<1> QED
  BY <1>1, <1>2, <1>3, <1>4

\* What is said of the graph alone stays as it is.
LEMMA SameOneOfEach == ASSUME cfg' = cfg, NEW p PROVE OneOfEach(p)' <=> OneOfEach(p)
BY DEF OneOfEach, StmtAt

LEMMA SameFreedAt == ASSUME cfg' = cfg, NEW p PROVE FreedAt(p)' = FreedAt(p)
BY DEF FreedAt, StmtAt

LEMMA SameMentions ==
  ASSUME cfg' = cfg, NEW q, NEW v PROVE Mentions(StmtAt(q), v)' <=> Mentions(StmtAt(q), v)
BY DEF Mentions, StmtAt

LEMMA SameThrough ==
  ASSUME cfg' = cfg, NEW b, NEW from, NEW e
  PROVE  Through(b, from, e)' <=> Through(b, from, e)
BY DEF Through, StaysFreed

LEMMA SameReaches ==
  ASSUME cfg' = cfg, NEW p, NEW q, NEW e, NEW far, ReachesIntact(p, q, e, far)
  PROVE  ReachesIntact(p, q, e, far)'
<1>1. CASE p[1] = q[1] /\ p[2] < q[2] /\ StaysFreed(q[1], p[2] + 1, q[2] - 1, e)
  BY <1>1 DEF ReachesIntact, StaysFreed
<1>2. ASSUME NEW d \in 1..far, NEW way \in Ways(d),
             way[0] = p[1], way[d] = q[1], Through(p[1], p[2] + 1, e),
             \A k \in 1..(d - 1) : Through(way[k], 1, e), StaysFreed(q[1], 1, q[2] - 1, e)
      PROVE  ReachesIntact(p, q, e, far)'
  <2>1. way \in Ways(d)'
    BY <1>2 DEF Ways
  <2>2. Through(p[1], p[2] + 1, e)' /\ StaysFreed(q[1], 1, q[2] - 1, e)'
    BY <1>2 DEF Through, StaysFreed
  <2>3. \A k \in 1..(d - 1) : Through(way[k], 1, e)'
    BY <1>2 DEF Through, StaysFreed
  <2> QED
    BY <1>2, <2>1, <2>2, <2>3 DEF ReachesIntact
<1> QED
  BY <1>1, <1>2 DEF ReachesIntact

\* A report stays one on some path.
LEMMA ReportStays ==
  ASSUME cfg' = cfg, NEW w,
         OneOfEach(w.site) => \E e \in FreedAt(w.site) :
           Mentions(StmtAt(w.again), Base[e]) /\ ReachesIntact(w.site, w.again, e, 3)
  PROVE  OneOfEach(w.site)' => \E e \in FreedAt(w.site)' :
           Mentions(StmtAt(w.again), Base[e])' /\ ReachesIntact(w.site, w.again, e, 3)'
<1> SUFFICES ASSUME OneOfEach(w.site)'
             PROVE  \E e \in FreedAt(w.site)' :
                      Mentions(StmtAt(w.again), Base[e])' /\ ReachesIntact(w.site, w.again, e, 3)'
  OBVIOUS
<1>1. OneOfEach(w.site)
  BY SameOneOfEach
<1>2. PICK e \in FreedAt(w.site) :
        Mentions(StmtAt(w.again), Base[e]) /\ ReachesIntact(w.site, w.again, e, 3)
  BY <1>1
<1>3. Mentions(StmtAt(w.again), Base[e])'
  BY <1>2, SameMentions
<1> QED
  BY <1>2, <1>3, SameReaches, SameFreedAt

LEMMA ReportsStay ==
  ASSUME ReportsOnPath, cfg' = cfg, warnings' = warnings
  PROVE  ReportsOnPath'
BY ReportStays DEF ReportsOnPath

\* A step between two searches.
LEMMA NoSearch ==
  ASSUME WayInv, cfg' = cfg, warnings' = warnings, site' = Null, at' = Null, stack' = <<>>
  PROVE  WayInv'
BY ReportsStay DEF WayInv

\* A step of a search that does not end it.
LEMMA SearchKeepsWay ==
  ASSUME cfg' = cfg, site' = site, site # Null, ReportsOnPath', Chained',
         OneOfEach(site) => \A n \in freeargs' : FreedVar(n) # Null => Intact(Freed(n))'
  PROVE  WayInv'
<1>1. ASSUME OneOfEach(site)', NEW n \in freeargs', FreedVar(n)' # Null
      PROVE  Intact(Freed(n))'
  <2>1. OneOfEach(site)
    <3>1. PICK p : p = site
      OBVIOUS
    <3>2. OneOfEach(p)'
      BY <1>1, <3>1 DEF OneOfEach, StmtAt
    <3> QED
      BY <3>1, <3>2, SameOneOfEach
  <2>2. FreedVar(n) # Null
    BY <1>1 DEF FreedVar, StmtAt
  <2> QED
    BY <1>1, <2>1, <2>2
<1> QED
  BY <1>1 DEF WayInv

\* An assignment on the way takes the expression of its variable out of freeargs.
LEMMA PassKeepsIntact ==
  ASSUME LoopInv, Pass, OneOfEach(site), NEW n \in freeargs', FreedVar(n) # Null
  PROVE  n \in freeargs /\ StmtAt(at).assigns # FreedVar(n)
<1> DEFINE s == StmtAt(at)
<1>1. site # Null /\ \E gone \in Erased(s) : freeargs' = freeargs \ gone
  BY DEF Pass, Comparing
<1>2. freeargs \subseteq DOMAIN StmtAt(site).frees
  BY <1>1 DEF LoopInv, TypeOK
<1>3. n \in freeargs
  BY <1>1
<1>4. ASSUME s.assigns = FreedVar(n) PROVE FALSE
  <2>1. n \in Reassigned(s)
    BY <1>3, <1>4 DEF Reassigned
  <2>2. \A m \in Reassigned(s) : m = n
    BY <1>2, <1>3, <1>4 DEF Reassigned, OneOfEach, FreedVar
  <2>3. Erased(s) = {{n}}
    BY <2>1, <2>2 DEF Erased
  <2> QED
    BY <1>1, <2>3
<1> QED
  BY <1>3, <1>4

\* What a step has to keep for an expression between two blocks, or at the first
\* statement of one.
LEMMA IntactNext ==
  ASSUME cfg' = cfg, site' = site, NEW e,
         at' = Null \/ (at'[2] = 1 /\ stack' # <<>>),
         stack' # <<>> => Through(site[1], site[2] + 1, e),
         \A k \in 2..Len(stack') : Through(stack'[k].block, 1, e)
  PROVE  Intact(e)'
<1>1. ASSUME stack' # <<>> PROVE Through(site[1], site[2] + 1, e)'
  <2>1. PICK p : p = site
    OBVIOUS
  <2>2. Through(p[1], p[2] + 1, e)
    BY <1>1, <2>1
  <2>3. Through(p[1], p[2] + 1, e)'
    BY <2>2, SameThrough
  <2> QED
    BY <2>1, <2>3 DEF Through, StaysFreed
<1>2. ASSUME NEW k \in 2..Len(stack') PROVE Through(stack[k].block, 1, e)'
  <2>1. PICK b : b = stack'[k].block
    OBVIOUS
  <2>2. Through(b, 1, e)
    BY <2>1
  <2>3. Through(b, 1, e)'
    BY <2>2, SameThrough
  <2> QED
    BY <2>1, <2>3 DEF Through, StaysFreed
<1>3. ASSUME at' # Null
      PROVE  StaysFreed(at[1], IF stack = <<>> THEN site[2] + 1 ELSE 1, at[2] - 1, e)'
  <2>1. at'[2] - 1 = 0 /\ stack' # <<>>
    BY <1>3
  <2>2. 1..0 = {}
    OBVIOUS
  <2> QED
    BY <2>1, <2>2 DEF StaysFreed
<1> QED
  BY <1>1, <1>2, <1>3 DEF Intact

\* The way from the free to the statement that is compared.
LEMMA WayFound ==
  ASSUME LoopInv, Chained, site # Null, at # Null, NEW e, Intact(e)
  PROVE  ReachesIntact(site, at, e, 3)
<1>1. /\ site \in Position /\ at \in Position /\ stack \in Seq(Frame) /\ Len(stack) <= 3
  BY DEF LoopInv, TypeOK
<1>2. CASE stack = <<>>
  BY <1>2 DEF Chained, Intact, ReachesIntact
<1>3. CASE stack # <<>>
  <2> DEFINE d == Len(stack)
             way == [k \in 0..d |-> IF k < d THEN stack[k + 1].block ELSE at[1]]
  <2>1. d \in 1..3
    <3>1. d \in Nat \ {0} /\ d <= 3
      BY <1>1, <1>3, PopFacts
    <3> HIDE DEF d
    <3> QED
      BY <3>1
  <2>2. \A k \in 1..d : stack[k].block \in Block
    BY <1>1, FrameFacts
  <2>3. /\ way[0] = site[1] /\ way[d] = at[1]
        /\ \A k \in 1..(d - 1) : way[k] = stack[k + 1].block
        /\ \A k \in 1..d : way[k - 1] = stack[k].block
    BY <1>3, <2>1 DEF Chained
  <2>4. way \in [0..d -> Block]
    BY <1>1, <2>1, <2>2 DEF Position
  <2>5. \A k \in 1..d : way[k] \in Follow(cfg, way[k - 1])
    <3> SUFFICES ASSUME NEW k \in 1..d PROVE way[k] \in Follow(cfg, way[k - 1])
      OBVIOUS
    <3>1. CASE k = d
      BY <1>3, <2>1, <2>3, <3>1 DEF Chained
    <3>2. CASE k # d
      <4>1. k \in 1..(d - 1) /\ k + 1 \in 2..d /\ k + 1 - 1 = k
        BY <2>1, <3>2
      <4>2. stack[k + 1].block \in Follow(cfg, stack[k].block)
        BY <4>1 DEF Chained
      <4> QED
        BY <2>3, <4>1, <4>2
    <3> QED
      BY <3>1, <3>2
  <2>6. way \in Ways(d)
    BY <2>4, <2>5 DEF Ways
  <2>7. Through(site[1], site[2] + 1, e)
    BY <1>3 DEF Intact
  <2>8. \A k \in 1..(d - 1) : Through(way[k], 1, e)
    <3> SUFFICES ASSUME NEW k \in 1..(d - 1) PROVE Through(way[k], 1, e)
      OBVIOUS
    <3>1. k + 1 \in 2..d
      BY <2>1
    <3> QED
      BY <2>3, <3>1 DEF Intact
  <2>9. StaysFreed(at[1], 1, at[2] - 1, e)
    BY <1>3 DEF Intact
  <2> HIDE DEF d, way
  <2> QED
    BY <2>1, <2>3, <2>6, <2>7, <2>8, <2>9 DEF ReachesIntact
<1> QED
  BY <1>2, <1>3

LEMMA InitWay == Init => WayInv
BY DEF Init, WayInv, ReportsOnPath

\* A search begins with nothing behind it.
LEMMA FreeWay == ASSUME LoopInv, WayInv, Free PROVE WayInv'
<1>1. /\ AtStmt /\ site = Null /\ cfg' = cfg /\ site' = Here /\ stack' = stack /\ warnings' = warnings
      /\ at' = <<block, blockiter + 1>>
  BY DEF Free, AtStmt, Examining, walk
<1>2. Here \in Position /\ stack = <<>> /\ blockiter \in Nat
  BY <1>1, HereFacts DEF WayInv
<1>3. PICK p \in Position : p = Here
  BY <1>2
<1>4. p[1] = block /\ p[2] = blockiter
  BY <1>3 DEF Here
<1>5. /\ p[2] \in Nat /\ site' = p /\ stack' = <<>> /\ site' # Null
      /\ at'[1] = p[1] /\ at'[2] = p[2] + 1
  BY <1>1, <1>2, <1>3, <1>4, GraphAssumption
<1>6. Chained'
  BY <1>5 DEF Chained
<1>7. ASSUME NEW e PROVE Intact(e)'
  BY <1>5 DEF Intact, StaysFreed
<1>8. ReportsOnPath'
  BY <1>1, ReportsStay DEF WayInv
<1>9. ASSUME NEW n \in freeargs' PROVE Intact(Freed(n))'
  <2>1. PICK e : e = Freed(n)'
    OBVIOUS
  <2>2. Intact(e)'
    BY <1>7
  <2> QED
    BY <2>1, <2>2 DEF Intact
<1> QED
  BY <1>5, <1>6, <1>8, <1>9 DEF WayInv

\* The statement that follows is as near, if the one at hand leaves e alone.
LEMMA NextIntact ==
  ASSUME LoopInv, NEW e, Intact(e), StmtAt(at).assigns # Base[e], site # Null, at # Null,
         cfg' = cfg, site' = site, stack' = stack, at' = [at EXCEPT ![2] = @ + 1]
  PROVE  Intact(e)'
<1>1. at \in Position /\ site \in Position
  BY DEF LoopInv, TypeOK
<1>2. /\ at[2] \in Nat \ {0} /\ site[2] \in Nat \ {0}
      /\ at'[1] = at[1] /\ at'[2] = at[2] + 1
  BY <1>1 DEF Position
<1> DEFINE from == IF stack = <<>> THEN site[2] + 1 ELSE 1
<1>3. StaysFreed(at[1], from, at[2] - 1, e)
  BY DEF Intact
<1>4. \A k \in from..at[2] : k \in from..(at[2] - 1) \/ k = at[2]
  BY <1>2
<1>5. \A k \in from..at[2] : cfg.stmts[at[1]][k].assigns # Base[e]
  BY <1>3, <1>4 DEF StaysFreed, StmtAt
<1>6. at'[2] - 1 = at[2]
  BY <1>2
<1> QED
  BY <1>2, <1>5, <1>6 DEF Intact, StaysFreed, Through

LEMMA NextChained ==
  ASSUME LoopInv, Chained, site # Null, at # Null,
         cfg' = cfg, site' = site, stack' = stack, at' = [at EXCEPT ![2] = @ + 1]
  PROVE  Chained'
<1>1. at \in Position /\ site \in Position
  BY DEF LoopInv, TypeOK
<1>2. /\ at[2] \in Nat \ {0} /\ site[2] \in Nat \ {0}
      /\ at'[1] = at[1] /\ at'[2] = at[2] + 1
  BY <1>1 DEF Position
<1> QED
  BY <1>2 DEF Chained

LEMMA PassWay == ASSUME LoopInv, WayInv, Pass PROVE WayInv'
<1>1. /\ site # Null /\ at # Null /\ cfg' = cfg /\ site' = site /\ warnings' = warnings
      /\ at' = [at EXCEPT ![2] = @ + 1] /\ stack' = stack
  BY DEF Pass, Comparing, walk
<1>2. Chained'
  BY <1>1, NextChained DEF WayInv
<1>3. ASSUME OneOfEach(site), NEW n \in freeargs', FreedVar(n) # Null
      PROVE  Intact(Freed(n))'
  <2>1. PICK e : e = Freed(n)
    OBVIOUS
  <2>2. StmtAt(at).assigns # Base[e] /\ Intact(e)
    BY <1>1, <1>3, <2>1, PassKeepsIntact DEF WayInv, FreedVar, Freed
  <2>3. Intact(e)'
    BY <1>1, <2>2, NextIntact
  <2> QED
    BY <1>1, <2>1, <2>3 DEF Intact, Freed, StmtAt
<1>4. ReportsOnPath'
  BY <1>1, ReportsStay DEF WayInv
<1> QED
  BY <1>1, <1>2, <1>3, <1>4, SearchKeepsWay

\* What is reported names the variable, which was not assigned on the way.  A search in a
\* later block goes on behind it, since a statement that assigns is not reported.
LEMMA ReportWay == ASSUME LoopInv, WayInv, Report PROVE WayInv'
<1> DEFINE new == [site |-> site, again |-> at]
<1>1. /\ site # Null /\ at # Null /\ FreedArgsFreed(StmtAt(at)) /\ warnings' = warnings \cup {new}
      /\ cfg' = cfg /\ site' = site /\ stack' = stack /\ freeargs' = freeargs
      /\ at' = IF InOwnBlock THEN Null ELSE [at EXCEPT ![2] = @ + 1]
  BY DEF Report, Comparing, walk
<1>2. freeargs \subseteq DOMAIN StmtAt(site).frees
  BY <1>1 DEF LoopInv, TypeOK
<1>3. PICK n \in freeargs : Mentions(StmtAt(at), FreedVar(n))
  BY <1>1 DEF FreedArgsFreed
<1>4. FreedVar(n) # Null /\ Freed(n) \in FreedAt(site) /\ Mentions(StmtAt(at), Base[Freed(n)])
  BY <1>2, <1>3 DEF FreedAt, Freed, FreedVar, ToSet, Mentions
<1>5. OneOfEach(site) => ReachesIntact(site, at, Freed(n), 3)
  BY <1>1, <1>4, WayFound DEF WayInv
<1>6. ASSUME NEW w \in warnings'
      PROVE  OneOfEach(w.site) => \E e \in FreedAt(w.site) :
               Mentions(StmtAt(w.again), Base[e]) /\ ReachesIntact(w.site, w.again, e, 3)
  <2>1. CASE w \in warnings
    BY <2>1 DEF WayInv, ReportsOnPath
  <2>2. CASE w = new
    <3>1. w.site = site /\ w.again = at
      BY <2>2
    <3> QED
      BY <1>4, <1>5, <3>1
  <2> QED
    BY <1>1, <2>1, <2>2
<1>7. ReportsOnPath'
  BY <1>1, <1>6, ReportStays DEF ReportsOnPath
<1>8. Chained'
  <2>1. CASE InOwnBlock
    BY <1>1, <2>1 DEF WayInv, Chained
  <2>2. CASE ~InOwnBlock
    BY <1>1, <2>2, NextChained DEF WayInv
  <2> QED
    BY <2>1, <2>2
<1>9. ASSUME OneOfEach(site), NEW m \in freeargs', FreedVar(m) # Null
      PROVE  Intact(Freed(m))'
  <2>1. PICK e : e = Freed(m)
    OBVIOUS
  <2>2. Intact(e)
    BY <1>1, <1>9, <2>1 DEF WayInv
  <2>3. StmtAt(at).assigns # Base[e]
    BY <1>1, <1>9, <2>1 DEF FreedArgsFreed, Reassigned, Freed, FreedVar
  <2>4. Intact(e)'
    <3>1. CASE InOwnBlock
      BY <1>1, <2>2, <3>1 DEF Intact, Through, StaysFreed
    <3>2. CASE ~InOwnBlock
      BY <1>1, <2>2, <2>3, <3>2, NextIntact
    <3> QED
      BY <3>1, <3>2
  <2> QED
    BY <1>1, <2>1, <2>4 DEF Intact, Freed, StmtAt
<1> QED
  BY <1>1, <1>7, <1>8, <1>9, SearchKeepsWay

\* A step back leaves a shorter way.
LEMMA ShorterWay ==
  ASSUME LoopInv, WayInv, site # Null, stack # <<>>, cfg' = cfg, site' = site,
         warnings' = warnings, freeargs' = freeargs, at' = Null,
         stack' = Front(stack) \/ stack' = <<>>
  PROVE  WayInv'
<1>1. stack \in Seq(Frame)
  BY DEF LoopInv, TypeOK
<1>2. /\ Len(stack') < Len(stack) /\ Len(stack) \in Nat /\ Len(stack') \in Nat
      /\ \A k \in 1..Len(stack') : stack'[k] = stack[k]
      /\ stack' # <<>> => 1 \in 1..Len(stack')
  <2>1. CASE stack' = Front(stack)
    BY <1>1, <2>1, PopFacts
  <2>2. CASE stack' = <<>>
    BY <1>1, <2>2
  <2> QED
    BY <2>1, <2>2
<1>3. Chained'
  <2>1. stack' # <<>> => stack'[1].block = site[1]
    BY <1>2 DEF WayInv, Chained
  <2>2. ASSUME NEW k \in 2..Len(stack')
        PROVE  stack'[k].block \in Follow(cfg, stack'[k - 1].block)
    <3>1. k \in 2..Len(stack) /\ k \in 1..Len(stack') /\ k - 1 \in 1..Len(stack')
      BY <1>2
    <3>2. stack[k].block \in Follow(cfg, stack[k - 1].block)
      BY <3>1 DEF WayInv, Chained
    <3> QED
      BY <1>2, <3>1, <3>2
  <2> QED
    BY <2>1, <2>2 DEF Chained
<1>4. ASSUME NEW e, Intact(e) PROVE Intact(e)'
  <2>1. stack' # <<>> => Through(site[1], site[2] + 1, e)
    BY <1>4 DEF Intact
  <2>2. ASSUME NEW k \in 2..Len(stack') PROVE Through(stack'[k].block, 1, e)
    <3>1. k \in 2..Len(stack) /\ stack'[k] = stack[k]
      BY <1>2
    <3> QED
      BY <1>4, <3>1 DEF Intact
  <2> QED
    BY <2>1, <2>2, IntactNext
<1>5. ASSUME OneOfEach(site), NEW n \in freeargs', FreedVar(n) # Null
      PROVE  Intact(Freed(n))'
  BY <1>4, <1>5 DEF WayInv, Intact, Freed, StmtAt
<1>6. ReportsOnPath'
  BY ReportsStay DEF WayInv
<1> QED
  BY <1>3, <1>5, <1>6, SearchKeepsWay

LEMMA ReturnWay == ASSUME LoopInv, WayInv, Return PROVE WayInv'
<1>1. /\ site # Null /\ stack # <<>> /\ at' = Null /\ cfg' = cfg /\ site' = site
      /\ warnings' = warnings /\ freeargs' = freeargs
      /\ stack' = Front(stack) \/ stack' = <<>>
  BY DEF Return, Between, walk
<1> QED
  BY <1>1, ShorterWay

\* The block that is through joins the way, unless the call at the top keeps its place
\* after a hit, or returns as it may go no deeper.
LEMMA EndOfBlockWay == ASSUME LoopInv, WayInv, EndOfBlock PROVE WayInv'
<1> DEFINE call == [block |-> at[1], edge |-> 0]
<1>1. /\ site # Null /\ at # Null /\ ~Comparing /\ cfg' = cfg /\ site' = site
      /\ warnings' = warnings /\ at' = Null /\ freeargs' = freeargs
      /\ stack' = IF doubleFlag THEN stack ELSE IF AtDepth THEN Front(stack)
                  ELSE Append(stack, call)
  BY DEF EndOfBlock, walk, Called
<1>2. /\ at \in Position /\ site \in Position /\ stack \in Seq(Frame) /\ cfg \in Graph
      /\ call \in Frame
  BY <1>1 DEF LoopInv, TypeOK, WalkTypeOK, Position, Frame
<1>3. /\ at[2] \in Nat \ {0} /\ Len(cfg.stmts[at[1]]) \in Nat
      /\ Len(cfg.stmts[at[1]]) <= at[2] - 1
  BY <1>1, <1>2, StmtFacts DEF Position, Comparing
<1>4. ReportsOnPath'
  BY <1>1, ReportsStay DEF WayInv
<1>5. CASE doubleFlag
  <2>1. Chained' /\ \A e : Intact(e) => Intact(e)'
    BY <1>1, <1>5 DEF WayInv, Chained, Intact, Through, StaysFreed
  <2>2. ASSUME OneOfEach(site), NEW n \in freeargs', FreedVar(n) # Null
        PROVE  Intact(Freed(n))'
    BY <1>1, <2>1, <2>2 DEF WayInv, Intact, Freed, StmtAt
  <2> QED
    BY <1>1, <1>4, <2>1, <2>2, SearchKeepsWay
<1>6. CASE ~doubleFlag /\ AtDepth
  <2>1. Len(stack) = 3
    BY <1>6 DEF AtDepth, Depth
  <2>2. stack # <<>> /\ stack' = Front(stack)
    BY <1>1, <1>6, <2>1
  <2> QED
    BY <1>1, <2>2, ShorterWay
<1>7. CASE ~doubleFlag /\ ~AtDepth
  <2> DEFINE m == Len(stack) + 1
  <2>0. stack' = Append(stack, call)
    BY <1>1, <1>7
  <2>1. /\ stack' \in Seq(Frame) /\ Len(stack') = m /\ m \in Nat \ {0} /\ stack' # <<>>
        /\ stack'[m] = call /\ \A k \in 1..(m - 1) : stack'[k] = stack[k]
    BY <1>2, <2>0
  <2>2. (stack = <<>>) <=> (m = 1)
    BY <1>2
  <2>3. stack[Len(stack)] = stack[m - 1]
    BY <1>2
  <2> HIDE DEF m
  <2>4. Chained'
    <3>1. stack'[1].block = site[1]
      BY <1>1, <2>1, <2>2 DEF WayInv, Chained
    <3>2. ASSUME NEW k \in 2..m
          PROVE  stack'[k].block \in Follow(cfg, stack'[k - 1].block)
      <4>1. CASE k = m
        <5>1. stack # <<>> /\ k - 1 \in 1..(m - 1)
          BY <2>1, <2>2, <4>1
        <5>2. at[1] \in Follow(cfg, stack[m - 1].block)
          BY <1>1, <2>3, <5>1 DEF WayInv, Chained
        <5> QED
          BY <2>1, <4>1, <5>1, <5>2
      <4>2. CASE k # m
        <5>1. k \in 1..(m - 1) /\ k - 1 \in 1..(m - 1) /\ k \in 2..Len(stack)
          BY <2>1, <4>2 DEF m
        <5>2. stack[k].block \in Follow(cfg, stack[k - 1].block)
          BY <1>1, <5>1 DEF WayInv, Chained
        <5> QED
          BY <2>1, <5>1, <5>2
      <4> QED
        BY <4>1, <4>2
    <3> QED
      BY <1>1, <2>1, <3>1, <3>2 DEF Chained
  <2>5. ASSUME OneOfEach(site), NEW n \in freeargs', FreedVar(n) # Null
        PROVE  Intact(Freed(n))'
    <3>1. PICK e : e = Freed(n)
      OBVIOUS
    <3>2. Intact(e)
      BY <1>1, <2>5, <3>1 DEF WayInv
    <3>3. Through(at[1], IF stack = <<>> THEN site[2] + 1 ELSE 1, e)
      <4> DEFINE from == IF stack = <<>> THEN site[2] + 1 ELSE 1
      <4>1. StaysFreed(at[1], from, at[2] - 1, e) /\ from \in Nat
        BY <1>1, <1>2, <3>2 DEF Intact, Position
      <4>2. \A k \in from..Len(cfg.stmts[at[1]]) : k \in from..(at[2] - 1)
        BY <1>3, <4>1
      <4> QED
        BY <4>1, <4>2 DEF Through, StaysFreed
    <3>4. Through(site[1], site[2] + 1, e)
      BY <1>1, <3>2, <3>3 DEF WayInv, Chained, Intact
    <3>5. ASSUME NEW k \in 2..m PROVE Through(stack'[k].block, 1, e)
      <4>1. CASE k = m
        BY <2>1, <2>2, <3>3, <4>1
      <4>2. CASE k # m
        <5>1. k \in 1..(m - 1) /\ k \in 2..Len(stack)
          BY <2>1, <4>2 DEF m
        <5> QED
          BY <2>1, <3>2, <5>1 DEF Intact
      <4> QED
        BY <4>1, <4>2
    <3>6. Intact(e)'
      BY <1>1, <2>1, <3>4, <3>5 DEF Intact, Through, StaysFreed
    <3> QED
      BY <1>1, <3>1, <3>6 DEF Intact, Freed, StmtAt
  <2> QED
    BY <1>1, <1>4, <2>4, <2>5, SearchKeepsWay
<1> QED
  BY <1>5, <1>6, <1>7

\* The next successor follows the block at the top.
LEMMA SuccessorWay == ASSUME LoopInv, WayInv, Successor PROVE WayInv'
<1> DEFINE m == Len(stack)
           b == stack[m].block
           edge == stack[m].edge + 1
           succblock == Target(cfg.succ[b][edge])
<1>1. /\ site # Null /\ at = Null /\ stack # <<>> /\ stack[m].edge < Len(cfg.succ[b])
      /\ stack' = Append(Front(stack), [stack[m] EXCEPT !.edge = edge])
      /\ at' = IF succblock = Null THEN Null ELSE <<succblock, 1>>
      /\ freeargs' = freeargs /\ cfg' = cfg /\ site' = site /\ warnings' = warnings
  BY DEF Successor, Between, Last, walk
<1>2. stack \in Seq(Frame) /\ m \in Nat \ {0} /\ cfg \in Graph
  BY <1>1 DEF LoopInv, TypeOK, WalkTypeOK
<1>3. b \in Block /\ edge \in Nat \ {0} /\ [stack[m] EXCEPT !.edge = edge] \in Frame
      /\ [stack[m] EXCEPT !.edge = edge].block = b
  <2>1. m \in 1..Len(stack)
    BY <1>2
  <2>2. stack[m] \in Frame /\ b \in Block /\ stack[m].edge \in Nat
    BY <1>2, <2>1, FrameFacts
  <2> QED
    BY <2>2 DEF Frame
<1>4. /\ Len(stack') = m /\ stack' # <<>> /\ stack' \in Seq(Frame)
      /\ \A k \in 1..m : stack'[k].block = stack[k].block
  <2>1. PICK front \in Seq(Frame) : /\ front = Front(stack) /\ Len(front) = m - 1
                                     /\ \A k \in 1..(m - 1) : front[k] = stack[k]
    BY <1>1, <1>2, PopFacts
  <2>2. PICK top \in Frame : top = [stack[m] EXCEPT !.edge = edge] /\ top.block = b
    BY <1>3
  <2>3. stack' = Append(front, top)
    BY <1>1, <2>1, <2>2
  <2>4. Len(stack') = m /\ stack' # <<>> /\ stack' \in Seq(Frame) /\ stack'[m] = top
    BY <1>2, <2>1, <2>3
  <2>5. ASSUME NEW k \in 1..m PROVE stack'[k].block = stack[k].block
    <3>1. CASE k = m
      BY <2>2, <2>4, <3>1
    <3>2. CASE k # m
      <4>1. k \in 1..(m - 1)
        BY <1>2, <3>2
      <4>2. stack'[k] = front[k]
        BY <1>2, <2>1, <2>3, <4>1
      <4> QED
        BY <2>1, <4>1, <4>2
    <3> QED
      BY <3>1, <3>2
  <2> QED
    BY <2>4, <2>5
<1>5. edge \in DOMAIN cfg.succ[b]
  <2>1. cfg.succ[b] \in Seq(Edge)
    BY <1>2, <1>3 DEF Graph
  <2>2. Len(cfg.succ[b]) \in Nat /\ m \in 1..Len(stack)
    BY <1>2, <2>1
  <2>3. stack[m].edge \in Nat /\ stack[m].edge < Len(cfg.succ[b])
    BY <1>1, <1>2, <2>2, FrameFacts
  <2>4. edge \in 1..Len(cfg.succ[b])
    BY <2>2, <2>3
  <2> QED
    BY <2>1, <2>4
<1> HIDE DEF m, b, edge, succblock
<1>6. stack[m].block = b /\ succblock = Target(cfg.succ[b][edge]) /\ Len(stack) = m
  BY DEF m, b, succblock
<1>7. Chained'
  <2>1. stack'[1].block = site[1]
    BY <1>1, <1>2, <1>4 DEF WayInv, Chained
  <2>2. \A k \in 2..m : stack'[k].block \in Follow(cfg, stack'[k - 1].block)
    <3> SUFFICES ASSUME NEW k \in 2..m PROVE stack'[k].block \in Follow(cfg, stack'[k - 1].block)
      OBVIOUS
    <3>1. k \in 1..m /\ k - 1 \in 1..m
      BY <1>2
    <3>2. stack[k].block \in Follow(cfg, stack[k - 1].block)
      BY <1>1, <1>6 DEF WayInv, Chained
    <3> QED
      BY <1>4, <3>1, <3>2
  <2>3. at' # Null => at'[1] \in Follow(cfg, stack'[m].block)
    <3> SUFFICES ASSUME at' # Null PROVE at'[1] \in Follow(cfg, b)
      BY <1>2, <1>4, <1>6
    <3>1. succblock # Null /\ at'[1] = succblock
      BY <1>1
    <3> QED
      BY <1>5, <1>6, <3>1 DEF Follow
  <2> QED
    BY <1>1, <1>4, <2>1, <2>2, <2>3 DEF Chained
<1>8. ASSUME NEW e, Intact(e) PROVE Intact(e)'
  <2>1. Through(site[1], site[2] + 1, e) /\ \A k \in 2..m : Through(stack[k].block, 1, e)
    BY <1>1, <1>6, <1>8 DEF Intact
  <2>2. \A k \in 2..m : Through(stack'[k].block, 1, e)
    BY <1>2, <1>4, <2>1
  <2>3. at' = Null \/ (at'[2] = 1 /\ stack' # <<>>)
    BY <1>1, <1>4
  <2> QED
    BY <1>1, <1>4, <2>1, <2>2, <2>3, IntactNext
<1>9. ASSUME OneOfEach(site), NEW n \in freeargs', FreedVar(n) # Null
      PROVE  Intact(Freed(n))'
  BY <1>1, <1>8, <1>9 DEF WayInv, Intact, Freed, StmtAt
<1>10. ReportsOnPath'
  BY <1>1, ReportsStay DEF WayInv
<1> QED
  BY <1>1, <1>7, <1>9, <1>10, SearchKeepsWay

\* The walk, and the end of a search, leave nothing of a search.
LEMMA WalkWay == ASSUME LoopInv, WayInv, Walk \/ LeaveBlock \/ Skip \/ SearchOver PROVE WayInv'
<1>1. CASE Walk
  <2>1. site = Null
    BY <1>1 DEF LoopInv, SearchOnlyInBlock, Walk, Collect, Take, Queue, WalkInv, WalkTypeOK
  <2>2. cfg' = cfg /\ warnings' = warnings /\ site' = site /\ at' = at /\ stack' = stack
    BY <1>1 DEF Walk, Collect, Take, Queue, search
  <2> QED
    BY <2>1, <2>2, NoSearch DEF WayInv
<1>2. CASE LeaveBlock \/ Skip
  <2>1. cfg' = cfg /\ warnings' = warnings /\ site' = site /\ at' = at /\ stack' = stack
        /\ site = Null
    BY <1>2 DEF LeaveBlock, Skip, Examine, Examining, AtStmt, search, walk
  <2> QED
    BY <2>1, NoSearch DEF WayInv
<1>3. CASE SearchOver
  BY <1>3, NoSearch DEF SearchOver, walk
<1> QED
  BY <1>1, <1>2, <1>3

LEMMA WayStep == LoopInv /\ WayInv /\ [Next]_vars => WayInv'
<1> SUFFICES ASSUME LoopInv, WayInv, [Next]_vars PROVE WayInv'
  OBVIOUS
<1>1. CASE UNCHANGED vars
  <2>1. /\ cfg' = cfg /\ site' = site /\ freeargs' = freeargs /\ at' = at
        /\ stack' = stack /\ warnings' = warnings
    BY <1>1 DEF vars, search, walk
  <2>2. ReportsOnPath'
    BY <2>1, ReportsStay DEF WayInv
  <2>3. CASE site = Null
    BY <2>1, <2>2, <2>3 DEF WayInv
  <2>4. CASE site # Null
    <3>1. Chained'
      BY <2>1, <2>4 DEF WayInv, Chained
    <3>2. ASSUME OneOfEach(site), NEW n \in freeargs', FreedVar(n) # Null
          PROVE  Intact(Freed(n))'
      BY <2>1, <2>4, <3>2 DEF WayInv, Intact, Through, StaysFreed, Freed, StmtAt
    <3> QED
      BY <2>1, <2>2, <2>4, <3>1, <3>2, SearchKeepsWay
  <2> QED
    BY <2>3, <2>4
<1>2. CASE Next
  BY <1>2, WalkWay, FreeWay, ReportWay, PassWay, EndOfBlockWay, SuccessorWay, ReturnWay DEF Next
<1> QED
  BY <1>1, <1>2

\* The calls of checkSucceedBlocks form a way of control from the free, whatever the
\* order in which the search takes branches and comes back from them.
THEOREM WayInvariant == Spec => [](LoopInv /\ WayInv)
<1>1. Init => WayInv
  BY InitWay
<1> QED
  BY <1>1, WayStep, LoopInvariant, PTL DEF Spec

\* Whatever is reported as a second free is one on some path of at most three edges,
\* although one set of freed expressions serves all branches, and although the search
\* goes on in a block after a hit.
THEOREM ReportsLieOnPath == Spec => []ReportsOnPath
<1>1. LoopInv /\ WayInv => ReportsOnPath
  BY DEF WayInv
<1> QED
  BY <1>1, WayInvariant, PTL

-----------------------------------------------------------------------------
(* What a search has left behind.                                          *)

\* Statement k of block b frees again what e points to.
Hit(g, b, k, e) == g.stmts[b][k].frees # <<>> /\ Mentions(g.stmts[b][k], Base[e])

\* There is nothing to be found in block b, from a statement on.
Clear(g, b, from, e) == \A k \in DOMAIN g.stmts[b] : from <= k => ~Hit(g, b, k, e)

GraphWays(g, d) == {way \in [0..d -> Block] : \A k \in 1..d : way[k] \in Follow(g, way[k - 1])}

\* There is nothing to be found in b and in the blocks up to far edges behind it.
Around(g, b, far, e) ==
  \A d \in 0..far : \A way \in GraphWays(g, d) : way[0] = b => Clear(g, way[d], 1, e)

\* There is nothing to be found behind p, up to two edges away.
RestClear(g, p, e) ==
  /\ Clear(g, p[1], p[2] + 1, e)
  /\ \A c \in Follow(g, p[1]) : Around(g, c, 1, e)

\* The block that a call of checkSucceedBlocks is at.
Taken(g, f) == Target(g.succ[f.block][f.edge])

\* The calls under way were made by each other, the first for the block of p, and the
\* statement compared is in the block that the last of them is at.
Threaded(g, p, sc, st) ==
  /\ st # <<>> => st[1].block = p[1]
  /\ \A k \in 1..Len(st) : st[k].edge <= Len(g.succ[st[k].block])
  /\ \A k \in 1..(Len(st) - 1) : st[k].edge > 0 /\ st[k + 1].block = Taken(g, st[k])
  /\ sc # Null /\ st = <<>> => sc[1] = p[1]
  /\ sc # Null /\ st # <<>> => st[Len(st)].edge > 0 /\ sc[1] = Taken(g, st[Len(st)])

\* How many successors call k is through with.
Tried(sc, st, k) == IF k = Len(st) /\ sc = Null THEN st[k].edge ELSE st[k].edge - 1

\* A search from p that is at sc and st has left no second free of e behind.  The third
\* call turns back at its first successor, so what it has tried says nothing.
Explored(g, p, sc, st, e) ==
  /\ sc # Null => \A k \in DOMAIN g.stmts[sc[1]] :
       k < sc[2] /\ (st = <<>> => p[2] < k) => ~Hit(g, sc[1], k, e)
  /\ sc = Null \/ st # <<>> => Clear(g, p[1], p[2] + 1, e)
  /\ \A k \in 2..Len(st) : Clear(g, st[k].block, 1, e)
  /\ \A k \in 1..Len(st) : k < 3 => \A j \in 1..Tried(sc, st, k) :
       Target(g.succ[st[k].block][j]) # Null =>
         Around(g, Target(g.succ[st[k].block][j]), 2 - k, e)
  /\ sc = Null /\ st = <<>> => RestClear(g, p, e)

\* What p frees and the function never assigns.
Lasting(p) == {e \in FreedAt(p) : Base[e] # Null /\ NeverAssigned(e)}

\* What NearInv says of the search that is on, and of a statement that was searched from.
Searching(p, sc, st, fa) ==
  /\ Threaded(cfg, p, sc, st)
  /\ \A e \in Lasting(p) :
       /\ \E n \in fa : StmtAt(p).frees[n] = e
       /\ Explored(cfg, p, sc, st, e)
Settled(p) == Reported(p) \/ \A e \in Lasting(p) : RestClear(cfg, p, e)

NearInv ==
  /\ cfg \in Graphs
  /\ site # Null =>
       /\ doubleFlag => Reported(site)
       /\ Reported(site) \/ Searching(site, at, stack, freeargs)
  /\ \A p \in freeCallCites : p # site => Settled(p)

\* What is left of a way after its first edge.
LEMMA WayTail ==
  ASSUME NEW g, NEW d \in Nat, NEW way \in GraphWays(g, d + 1)
  PROVE  /\ way[1] \in Follow(g, way[0])
         /\ \E rest \in GraphWays(g, d) : rest[0] = way[1] /\ rest[d] = way[d + 1]
<1> DEFINE tail == [k \in 0..d |-> way[k + 1]]
<1>1. /\ way \in [0..(d + 1) -> Block]
      /\ \A k \in 1..(d + 1) : way[k] \in Follow(g, way[k - 1])
  BY DEF GraphWays
<1>2. way[1] \in Follow(g, way[1 - 1]) /\ 1 - 1 = 0
  BY <1>1
<1>3. tail \in [0..d -> Block]
  BY <1>1
<1>4. ASSUME NEW k \in 1..d PROVE tail[k] \in Follow(g, tail[k - 1])
  <2>1. k \in 0..d /\ k - 1 \in 0..d /\ k + 1 \in 1..(d + 1) /\ k + 1 - 1 = k /\ k - 1 + 1 = k
    OBVIOUS
  <2>2. way[k + 1] \in Follow(g, way[k])
    BY <1>1, <2>1
  <2> QED
    BY <2>1, <2>2
<1>5. tail[0] = way[1] /\ tail[d] = way[d + 1]
  OBVIOUS
<1> HIDE DEF tail
<1>6. tail \in GraphWays(g, d)
  BY <1>3, <1>4 DEF GraphWays
<1> QED
  BY <1>2, <1>5, <1>6

\* Without a further edge the block itself is all there is.
LEMMA AroundZero ==
  ASSUME NEW g, NEW b, NEW e, Clear(g, b, 1, e)
  PROVE  Around(g, b, 0, e)
<1>1. \A d \in 0..0 : d = 0
  OBVIOUS
<1> QED
  BY <1>1 DEF Around

\* A block is searched with what is behind it once it is clear and its successors are.
LEMMA AroundStep ==
  ASSUME NEW g, NEW b, NEW e, NEW far \in Nat,
         Clear(g, b, 1, e), \A c \in Follow(g, b) : Around(g, c, far, e)
  PROVE  Around(g, b, far + 1, e)
<1> SUFFICES ASSUME NEW d \in 0..(far + 1), NEW way \in GraphWays(g, d), way[0] = b
             PROVE  Clear(g, way[d], 1, e)
  BY DEF Around
<1>1. CASE d = 0
  BY <1>1
<1>2. CASE d # 0
  <2>1. PICK k \in 0..far : d = k + 1
    <3>1. d - 1 \in 0..far /\ d = (d - 1) + 1
      BY <1>2
    <3> QED
      BY <3>1
  <2>2. PICK rest \in GraphWays(g, k) : rest[0] = way[1] /\ rest[k] = way[d]
    BY <2>1, WayTail
  <2>3. way[1] \in Follow(g, b)
    BY <2>1, WayTail
  <2> QED
    BY <2>2, <2>3 DEF Around
<1> QED
  BY <1>1, <1>2

\* Where nothing is to be found, no second free is near.
LEMMA NoFreeNear ==
  ASSUME cfg \in Graph, NEW p \in Position, NEW e, NEW q \in Freeing(Block),
         RestClear(cfg, p, e), Mentions(StmtAt(q), Base[e]), ReachesIntact(p, q, e, 2)
  PROVE  FALSE
<1>2. q[1] \in Block /\ q[2] \in DOMAIN cfg.stmts[q[1]]
  BY FreeingFacts
<1>3. Hit(cfg, q[1], q[2], e)
  BY FreeingFacts DEF Hit, StmtAt
<1>4. q[2] \in Nat \ {0} /\ p[2] \in Nat
  BY <1>2, StmtFacts DEF Position
<1>5. CASE p[1] = q[1] /\ p[2] < q[2]
  <2>1. p[2] + 1 <= q[2]
    BY <1>4, <1>5
  <2> QED
    BY <1>2, <1>3, <1>5, <2>1 DEF RestClear, Clear
<1>6. CASE \E d \in 1..2 : \E way \in Ways(d) : way[0] = p[1] /\ way[d] = q[1]
  <2>0. PICK d \in 1..2 : \E way \in Ways(d) : way[0] = p[1] /\ way[d] = q[1]
    BY <1>6
  <2>1. PICK way \in Ways(d) : way[0] = p[1] /\ way[d] = q[1]
    BY <2>0
  <2>2. PICK k \in 0..1 : d = k + 1
    <3>1. d - 1 \in 0..1 /\ d = (d - 1) + 1
      OBVIOUS
    <3> QED
      BY <3>1
  <2>3. way \in GraphWays(cfg, k + 1) /\ k \in Nat
    BY <2>2 DEF Ways, GraphWays
  <2>4. PICK rest \in GraphWays(cfg, k) : rest[0] = way[1] /\ rest[k] = q[1]
    BY <2>1, <2>2, <2>3, WayTail
  <2>5. way[1] \in Follow(cfg, p[1])
    BY <2>1, <2>3, WayTail
  <2>6. Clear(cfg, q[1], 1, e)
    BY <2>3, <2>4, <2>5 DEF RestClear, Around
  <2> QED
    BY <1>2, <1>3, <1>4, <2>6 DEF Clear
<1> QED
  BY <1>5, <1>6 DEF ReachesIntact

\* A statement at which nothing is found is left behind.
LEMMA ExploredPass ==
  ASSUME NEW g \in Graph, NEW p \in Position, NEW sc \in Position, NEW st, NEW e,
         Explored(g, p, sc, st, e), ~Hit(g, sc[1], sc[2], e)
  PROVE  Explored(g, p, <<sc[1], sc[2] + 1>>, st, e)
<1> DEFINE after == <<sc[1], sc[2] + 1>>
<1>1. sc # Null /\ after # Null /\ sc[2] \in Nat /\ sc[1] \in Block
  BY GraphAssumption DEF Position
<1>2. after[1] = sc[1] /\ after[2] = sc[2] + 1
  OBVIOUS
<1> HIDE DEF after
<1>3. ASSUME NEW k \in DOMAIN g.stmts[sc[1]], k < after[2], st = <<>> => p[2] < k
      PROVE  ~Hit(g, sc[1], k, e)
  <2>1. k \in Nat
    BY <1>1, StmtFacts
  <2>2. k < sc[2] \/ k = sc[2]
    BY <1>1, <1>2, <1>3, <2>1
  <2> QED
    BY <1>1, <1>3, <2>2 DEF Explored
<1>4. \A k : Tried(after, st, k) = Tried(sc, st, k)
  BY <1>1 DEF Tried
<1>5. Explored(g, p, after, st, e)
  BY <1>1, <1>2, <1>3, <1>4 DEF Explored
<1> QED
  BY <1>5 DEF after

\* A search begins with nothing behind it.
LEMMA ExploredFirst ==
  ASSUME NEW g \in Graph, NEW p \in Position, NEW e
  PROVE  Explored(g, p, <<p[1], p[2] + 1>>, <<>>, e) /\ Threaded(g, p, <<p[1], p[2] + 1>>, <<>>)
<1> DEFINE after == <<p[1], p[2] + 1>>
<1>1. after # Null /\ p[2] \in Nat /\ p[1] \in Block
  BY GraphAssumption DEF Position
<1>2. after[1] = p[1] /\ after[2] = p[2] + 1
  OBVIOUS
<1> HIDE DEF after
<1>3. \A k \in DOMAIN g.stmts[after[1]] : ~(k < after[2] /\ p[2] < k)
  BY <1>1, <1>2, StmtFacts
<1>4. Explored(g, p, after, <<>>, e) /\ Threaded(g, p, after, <<>>)
  BY <1>1, <1>2, <1>3 DEF Explored, Threaded
<1> QED
  BY <1>4 DEF after

\* A block that has been scanned to its end.
LEMMA BlockThrough ==
  ASSUME NEW g \in Graph, NEW p \in Position, NEW sc \in Position, NEW st, NEW e,
         Threaded(g, p, sc, st), Explored(g, p, sc, st, e), Len(g.stmts[sc[1]]) < sc[2]
  PROVE  /\ st = <<>> => sc[1] = p[1] /\ Clear(g, p[1], p[2] + 1, e)
         /\ st # <<>> => Clear(g, sc[1], 1, e)
<1>1. sc # Null /\ sc[1] \in Block /\ sc[2] \in Nat /\ p[2] \in Nat
  BY GraphAssumption DEF Position
<1>2. \A k \in DOMAIN g.stmts[sc[1]] : k \in Nat /\ k < sc[2]
  BY <1>1, StmtFacts
<1>3. st = <<>> => sc[1] = p[1]
  BY <1>1 DEF Threaded
<1>4. ASSUME NEW k \in DOMAIN g.stmts[sc[1]], st = <<>> => p[2] + 1 <= k
      PROVE  ~Hit(g, sc[1], k, e)
  <2>1. st = <<>> => p[2] < k
    BY <1>1, <1>2, <1>4
  <2> QED
    BY <1>1, <1>2, <1>4, <2>1 DEF Explored
<1>5. ASSUME st = <<>> PROVE Clear(g, p[1], p[2] + 1, e)
  BY <1>3, <1>4, <1>5 DEF Clear
<1>6. ASSUME st # <<>> PROVE Clear(g, sc[1], 1, e)
  BY <1>4, <1>6 DEF Clear
<1> QED
  BY <1>3, <1>5, <1>6

\* The call for a block that is through has tried no successor yet.
LEMMA ExploredPush ==
  ASSUME NEW g \in Graph, NEW p \in Position, NEW sc \in Position, NEW st \in Seq(Frame), NEW e,
         Threaded(g, p, sc, st), Explored(g, p, sc, st, e), Len(g.stmts[sc[1]]) < sc[2],
         NEW new \in Seq(Frame), Len(new) = Len(st) + 1,
         \A k \in 1..Len(st) : new[k] = st[k],
         new[Len(new)] = [block |-> sc[1], edge |-> 0]
  PROVE  Explored(g, p, Null, new, e)
<1>1. PICK m \in Nat : m = Len(st)
  OBVIOUS
<1>2. /\ Len(new) = m + 1 /\ new # <<>> /\ (st = <<>> <=> m = 0)
      /\ new[m + 1].block = sc[1] /\ new[m + 1].edge = 0
      /\ \A k \in 1..m : new[k] = st[k]
  BY <1>1
<1>3. sc # Null
  BY GraphAssumption
<1>4. Clear(g, p[1], p[2] + 1, e)
  BY <1>3, BlockThrough DEF Explored
<1>5. ASSUME NEW k \in 2..(m + 1) PROVE Clear(g, new[k].block, 1, e)
  <2>1. CASE k = m + 1
    <3>1. m # 0
      BY <2>1
    <3>2. Clear(g, sc[1], 1, e)
      BY <1>2, <3>1, BlockThrough
    <3> QED
      BY <1>2, <2>1, <3>2
  <2>2. CASE k # m + 1
    <3>1. k \in 2..m /\ k \in 1..m
      BY <2>2
    <3> QED
      BY <1>1, <1>2, <3>1 DEF Explored
  <2> QED
    BY <2>1, <2>2
<1>6. ASSUME NEW k \in 1..(m + 1), k < 3, NEW j \in 1..Tried(Null, new, k),
             Target(g.succ[new[k].block][j]) # Null
      PROVE  Around(g, Target(g.succ[new[k].block][j]), 2 - k, e)
  <2>1. CASE k = m + 1
    BY <1>2, <1>6, <2>1 DEF Tried
  <2>2. CASE k # m + 1
    <3>1. k \in 1..m /\ new[k] = st[k]
      BY <1>2, <2>2
    <3>2. Tried(Null, new, k) = Tried(sc, st, k)
      BY <1>2, <1>3, <2>2, <3>1 DEF Tried
    <3> QED
      BY <1>1, <1>6, <3>1, <3>2 DEF Explored
  <2> QED
    BY <2>1, <2>2
<1>7. 1..Len(new) = 1..(m + 1) /\ 2..Len(new) = 2..(m + 1)
  BY <1>2
<1> QED
  BY <1>2, <1>4, <1>5, <1>6, <1>7 DEF Explored

LEMMA ThreadedPush ==
  ASSUME NEW g \in Graph, NEW p \in Position, NEW sc \in Position, NEW st \in Seq(Frame),
         Threaded(g, p, sc, st),
         NEW new \in Seq(Frame), Len(new) = Len(st) + 1,
         \A k \in 1..Len(st) : new[k] = st[k],
         new[Len(new)] = [block |-> sc[1], edge |-> 0]
  PROVE  Threaded(g, p, Null, new)
<1>1. PICK m \in Nat : m = Len(st)
  OBVIOUS
<1>2. /\ Len(new) = m + 1 /\ new # <<>> /\ (st = <<>> <=> m = 0)
      /\ new[m + 1].block = sc[1] /\ new[m + 1].edge = 0
      /\ \A k \in 1..m : new[k] = st[k]
  BY <1>1
<1>3. sc # Null /\ sc[1] \in Block
  BY GraphAssumption DEF Position
<1>4. new[1].block = p[1]
  BY <1>1, <1>2, <1>3 DEF Threaded
<1>5. ASSUME NEW k \in 1..(m + 1) PROVE new[k].edge <= Len(g.succ[new[k].block])
  <2>1. CASE k = m + 1
    <3>1. g.succ[sc[1]] \in Seq(Edge)
      BY <1>3 DEF Graph
    <3>2. Len(g.succ[sc[1]]) \in Nat
      BY <3>1
    <3> QED
      BY <1>2, <2>1, <3>2
  <2>2. CASE k # m + 1
    <3>1. k \in 1..m
      BY <2>2
    <3> QED
      BY <1>1, <1>2, <3>1 DEF Threaded
  <2> QED
    BY <2>1, <2>2
<1>6. ASSUME NEW k \in 1..m PROVE new[k].edge > 0 /\ new[k + 1].block = Taken(g, new[k])
  <2>1. CASE k = m
    <3>1. st # <<>> /\ st[m].edge > 0 /\ sc[1] = Taken(g, st[m])
      BY <1>1, <1>2, <1>3, <2>1 DEF Threaded
    <3> QED
      BY <1>2, <2>1, <3>1
  <2>2. CASE k # m
    <3>1. k \in 1..(m - 1) /\ k + 1 \in 1..m
      BY <2>2
    <3> QED
      BY <1>1, <1>2, <3>1 DEF Threaded
  <2> QED
    BY <2>1, <2>2
<1>7. 1..Len(new) = 1..(m + 1) /\ 1..(Len(new) - 1) = 1..m
  BY <1>2
<1> QED
  BY <1>2, <1>4, <1>5, <1>6, <1>7 DEF Threaded

\* The third call turns back: what it has tried does not matter.
LEMMA ExploredAtDepth ==
  ASSUME NEW g \in Graph, NEW p \in Position, NEW sc \in Position, NEW st \in Seq(Frame), NEW e,
         Threaded(g, p, sc, st), Explored(g, p, sc, st, e), Len(st) = 3
  PROVE  Explored(g, p, Null, st, e) /\ Threaded(g, p, Null, st)
<1>1. sc # Null /\ st # <<>>
  BY GraphAssumption
<1>2. \A k \in 1..Len(st) : k < 3 => Tried(Null, st, k) = Tried(sc, st, k)
  BY DEF Tried
<1> QED
  BY <1>1, <1>2 DEF Explored, Threaded

\* The top call goes on to its next successor, which is yet to be scanned.
LEMMA ExploredSuccessor ==
  ASSUME NEW g \in Graph, NEW p \in Position, NEW st \in Seq(Frame), NEW e, NEW sc \in Position,
         NEW m \in Nat \ {0}, m = Len(st),
         Explored(g, p, Null, st, e), sc[2] = 1,
         NEW new \in Seq(Frame), Len(new) = m,
         \A k \in 1..m : new[k].block = st[k].block /\ (k # m => new[k] = st[k]),
         new[m].edge = st[m].edge + 1
  PROVE  Explored(g, p, sc, new, e)
<1>1. sc # Null /\ new # <<>> /\ st # <<>> /\ sc[1] \in Block
  BY GraphAssumption DEF Position
<1>2. \A k \in DOMAIN g.stmts[sc[1]] : ~(k < sc[2])
  BY <1>1, StmtFacts
<1>3. \A k \in 1..m : st[k].edge \in Nat
  BY FrameFacts
<1>4. ASSUME NEW k \in 1..m PROVE Tried(sc, new, k) = Tried(Null, st, k)
  BY <1>1, <1>3 DEF Tried
<1>5. \A k \in 2..m : k \in 1..m
  OBVIOUS
<1> QED
  BY <1>1, <1>2, <1>4, <1>5 DEF Explored

\* A missing successor is passed over.
LEMMA ExploredMissing ==
  ASSUME NEW g \in Graph, NEW p \in Position, NEW st \in Seq(Frame), NEW e,
         NEW m \in Nat \ {0}, m = Len(st), Explored(g, p, Null, st, e),
         Target(g.succ[st[m].block][st[m].edge + 1]) = Null,
         NEW new \in Seq(Frame), Len(new) = m,
         \A k \in 1..m : new[k].block = st[k].block /\ (k # m => new[k] = st[k]),
         new[m].edge = st[m].edge + 1
  PROVE  Explored(g, p, Null, new, e)
<1>1. new # <<>> /\ st # <<>> /\ Clear(g, p[1], p[2] + 1, e)
  BY DEF Explored
<1>2. \A k \in 1..m : st[k].edge \in Nat
  BY FrameFacts
<1>3. ASSUME NEW k \in 1..m, k < 3, NEW j \in 1..Tried(Null, new, k),
             Target(g.succ[new[k].block][j]) # Null
      PROVE  Around(g, Target(g.succ[new[k].block][j]), 2 - k, e)
  <2>1. j \in 1..Tried(Null, st, k)
    <3>1. CASE k = m
      <4>1. Tried(Null, new, k) = st[m].edge + 1 /\ Tried(Null, st, k) = st[m].edge
        BY <3>1 DEF Tried
      <4>2. j # st[m].edge + 1
        BY <1>3, <3>1
      <4> QED
        BY <1>2, <1>3, <4>1, <4>2
    <3>2. CASE k # m
      BY <1>3, <3>2 DEF Tried
    <3> QED
      BY <3>1, <3>2
  <2> QED
    BY <1>3, <2>1 DEF Explored
<1>4. \A k \in 2..m : Clear(g, new[k].block, 1, e)
  BY DEF Explored
<1> QED
  BY <1>1, <1>3, <1>4 DEF Explored

LEMMA ThreadedSuccessor ==
  ASSUME NEW g \in Graph, NEW p \in Position, NEW st \in Seq(Frame), NEW sc \in Position \cup {Null},
         NEW m \in Nat \ {0}, m = Len(st), Threaded(g, p, Null, st),
         NEW new \in Seq(Frame), Len(new) = m,
         \A k \in 1..m : new[k].block = st[k].block /\ (k # m => new[k] = st[k]),
         new[m].edge = st[m].edge + 1, st[m].edge < Len(g.succ[st[m].block]),
         sc # Null => sc[1] = Target(g.succ[st[m].block][st[m].edge + 1])
  PROVE  Threaded(g, p, sc, new)
<1>1. new # <<>> /\ st # <<>> /\ 1 \in 1..m
  OBVIOUS
<1>2. \A k \in 1..m : st[k].edge \in Nat /\ st[k].block \in Block
  BY FrameFacts
<1>3. new[1].block = p[1]
  BY <1>1 DEF Threaded
<1>4. ASSUME NEW k \in 1..m PROVE new[k].edge <= Len(g.succ[new[k].block])
  <2>1. g.succ[st[k].block] \in Seq(Edge)
    BY <1>2 DEF Graph
  <2>2. Len(g.succ[st[k].block]) \in Nat
    BY <2>1
  <2>3. CASE k = m
    BY <1>2, <2>2, <2>3
  <2>4. CASE k # m
    BY <2>4 DEF Threaded
  <2> QED
    BY <2>3, <2>4
<1>5. ASSUME NEW k \in 1..(m - 1) PROVE new[k].edge > 0 /\ new[k + 1].block = Taken(g, new[k])
  <2>1. k \in 1..m /\ k + 1 \in 1..m /\ k # m
    OBVIOUS
  <2> QED
    BY <2>1 DEF Threaded
<1>6. sc # Null => new[m].edge > 0 /\ sc[1] = Taken(g, new[m])
  BY <1>1, <1>2 DEF Taken
<1> QED
  BY <1>1, <1>3, <1>4, <1>5, <1>6 DEF Threaded

\* What the top call has left behind when all its successors have been tried.
LEMMA CallThrough ==
  ASSUME NEW g \in Graph, NEW p \in Position, NEW st \in Seq(Frame), NEW e,
         NEW m \in Nat \ {0}, m = Len(st), m < 3,
         Explored(g, p, Null, st, e), st[m].edge = Len(g.succ[st[m].block])
  PROVE  \A c \in Follow(g, st[m].block) : Around(g, c, 2 - m, e)
<1>1. m \in 1..Len(st) /\ st[m].block \in Block
  BY FrameFacts
<1>2. g.succ[st[m].block] \in Seq(Edge)
  BY <1>1 DEF Graph
<1>3. Tried(Null, st, m) = Len(g.succ[st[m].block])
  BY DEF Tried
<1>4. ASSUME NEW j \in DOMAIN g.succ[st[m].block], Target(g.succ[st[m].block][j]) # Null
      PROVE  Around(g, Target(g.succ[st[m].block][j]), 2 - m, e)
  <2>1. j \in 1..Tried(Null, st, m)
    BY <1>2, <1>3
  <2> QED
    BY <1>1, <1>4, <2>1 DEF Explored
<1> QED
  BY <1>4 DEF Follow

\* The search comes back to the call below, or out of all of them.
LEMMA ExploredReturn ==
  ASSUME NEW g \in Graph, NEW p \in Position, NEW st \in Seq(Frame), NEW e,
         NEW m \in Nat \ {0}, m = Len(st), m <= 3,
         Threaded(g, p, Null, st), Explored(g, p, Null, st, e),
         m < 3 => st[m].edge = Len(g.succ[st[m].block]),
         NEW new \in Seq(Frame), Len(new) = m - 1, \A k \in 1..(m - 1) : new[k] = st[k]
  PROVE  Explored(g, p, Null, new, e)
<1>1. st # <<>>
  OBVIOUS
<1>2. Clear(g, p[1], p[2] + 1, e) /\ st[1].block = p[1]
  BY <1>1 DEF Explored, Threaded
<1>3. m < 3 => \A c \in Follow(g, st[m].block) : Around(g, c, 2 - m, e)
  BY CallThrough
<1>4. CASE m = 1
  <2>1. new = <<>>
    BY <1>4
  <2>2. RestClear(g, p, e)
    BY <1>2, <1>3, <1>4 DEF RestClear
  <2>3. 1..Len(new) = {} /\ 2..Len(new) = {}
    <3>1. Len(new) = 0 /\ 1..0 = {} /\ 2..0 = {}
      BY <1>4
    <3> QED
      BY <3>1
  <2> QED
    BY <1>2, <2>1, <2>2, <2>3 DEF Explored
<1>5. CASE m # 1
  <2>1. PICK n \in Nat \ {0} : m = n + 1
    <3>1. m - 1 \in Nat \ {0} /\ m = (m - 1) + 1
      BY <1>5
    <3> QED
      BY <3>1
  <2>2. Len(new) = n /\ new # <<>> /\ \A k \in 1..n : new[k] = st[k]
    BY <2>1
  <2>3. st[n].edge > 0 /\ st[m].block = Taken(g, st[n])
    <3>1. n \in 1..(Len(st) - 1)
      BY <2>1
    <3> QED
      BY <2>1, <3>1 DEF Threaded
  <2>4. st[n].edge \in Nat
    <3>1. n \in 1..Len(st)
      BY <2>1
    <3> QED
      BY <3>1, FrameFacts
  <2>5. Around(g, st[m].block, 2 - n, e)
    <3>1. m \in 2..Len(st)
      BY <2>1
    <3>2. Clear(g, st[m].block, 1, e)
      BY <3>1 DEF Explored
    <3>3. CASE m = 3
      <4>1. 2 - n = 0
        BY <2>1, <3>3
      <4> QED
        BY <3>2, <4>1, AroundZero
    <3>4. CASE m # 3
      <4>1. m < 3 /\ 2 - m \in Nat /\ 2 - n = (2 - m) + 1
        BY <2>1, <3>4
      <4>2. Around(g, st[m].block, (2 - m) + 1, e)
        BY <1>3, <3>2, <4>1, AroundStep
      <4> QED
        BY <4>1, <4>2
    <3> QED
      BY <3>3, <3>4
  <2>6. \A k \in 2..n : Clear(g, new[k].block, 1, e)
    <3> SUFFICES ASSUME NEW k \in 2..n PROVE Clear(g, new[k].block, 1, e)
      OBVIOUS
    <3>1. k \in 2..Len(st) /\ new[k] = st[k]
      BY <2>1, <2>2
    <3> QED
      BY <3>1 DEF Explored
  <2>7. ASSUME NEW k \in 1..n, k < 3, NEW j \in 1..Tried(Null, new, k),
               Target(g.succ[new[k].block][j]) # Null
        PROVE  Around(g, Target(g.succ[new[k].block][j]), 2 - k, e)
    <3>1. new[k] = st[k] /\ k \in 1..Len(st) /\ k # m
      BY <2>1, <2>2
    <3>2. CASE k = n /\ j = st[n].edge
      BY <2>3, <2>5, <3>1, <3>2 DEF Taken
    <3>3. CASE ~(k = n /\ j = st[n].edge)
      <4>1. j \in 1..Tried(Null, st, k)
        <5>1. CASE k = n
          BY <2>1, <2>2, <2>4, <2>7, <3>1, <3>3, <5>1 DEF Tried
        <5>2. CASE k # n
          BY <2>1, <2>2, <2>7, <3>1, <5>2 DEF Tried
        <5> QED
          BY <5>1, <5>2
      <4> QED
        BY <2>7, <3>1, <4>1 DEF Explored
    <3> QED
      BY <3>2, <3>3
  <2> QED
    BY <1>2, <2>2, <2>6, <2>7 DEF Explored
<1> QED
  BY <1>4, <1>5

LEMMA ThreadedReturn ==
  ASSUME NEW g \in Graph, NEW p \in Position, NEW st \in Seq(Frame),
         NEW m \in Nat \ {0}, m = Len(st), Threaded(g, p, Null, st),
         NEW new \in Seq(Frame), Len(new) = m - 1, \A k \in 1..(m - 1) : new[k] = st[k]
  PROVE  Threaded(g, p, Null, new)
<1>1. new # <<>> => 1 \in 1..(m - 1) /\ st # <<>>
  OBVIOUS
<1>2. new # <<>> => new[1].block = p[1]
  BY <1>1 DEF Threaded
<1>3. ASSUME NEW k \in 1..(m - 1) PROVE new[k].edge <= Len(g.succ[new[k].block])
  <2>1. k \in 1..Len(st)
    OBVIOUS
  <2> QED
    BY <2>1 DEF Threaded
<1>4. ASSUME NEW k \in 1..(m - 1 - 1) PROVE new[k].edge > 0 /\ new[k + 1].block = Taken(g, new[k])
  <2>1. k \in 1..(Len(st) - 1) /\ k \in 1..(m - 1) /\ k + 1 \in 1..(m - 1)
    OBVIOUS
  <2> QED
    BY <2>1 DEF Threaded
<1> QED
  BY <1>2, <1>3, <1>4 DEF Threaded

-----------------------------------------------------------------------------
(* A search loses no second free of what lasts.                            *)

LEMMA SamePlaces ==
  ASSUME cfg' = cfg
  PROVE  Freeing(Block)' = Freeing(Block) /\ \A p : Lasting(p)' = Lasting(p)
<1>1. Places(Block)' = Places(Block)
  BY DEF Places
<1>2. ASSUME NEW e PROVE NeverAssigned(e)' <=> NeverAssigned(e)
  BY <1>1 DEF NeverAssigned, StmtAt
<1>3. ASSUME NEW p PROVE Lasting(p)' = Lasting(p)
  BY <1>2, SameFreedAt DEF Lasting
<1> QED
  BY <1>1, <1>3 DEF Freeing, StmtAt

LEMMA SettledStays ==
  ASSUME cfg' = cfg, warnings \subseteq warnings', NEW p, Settled(p)
  PROVE  Settled(p)'
<1>1. Lasting(p)' = Lasting(p) /\ (Reported(p) => Reported(p)')
  BY SamePlaces DEF Reported
<1> QED
  BY <1>1 DEF Settled

LEMMA SameSearching ==
  ASSUME cfg' = cfg, NEW p, NEW sc, NEW st, NEW fa, Searching(p, sc, st, fa)
  PROVE  Searching(p, sc, st, fa)'
<1>1. Lasting(p)' = Lasting(p) /\ StmtAt(p)' = StmtAt(p)
  BY SamePlaces DEF StmtAt
<1> QED
  BY <1>1 DEF Searching

\* A statement that is passed frees nothing that lasts, which stays in freeargs.
LEMMA LastingKept ==
  ASSUME LoopInv, cfg \in Graphs, Pass,
         NEW e \in Lasting(site), \E n \in freeargs : StmtAt(site).frees[n] = e
  PROVE  (\E n \in freeargs' : StmtAt(site).frees[n] = e) /\ ~Hit(cfg, at[1], at[2], e)
<1> DEFINE s == StmtAt(at)
<1>1. /\ site # Null /\ at # Null /\ at[2] <= Len(cfg.stmts[at[1]])
      /\ ~FreedArgsFreed(s) /\ \E gone \in Erased(s) : freeargs' = freeargs \ gone
  BY DEF Pass, Comparing
<1>2. at \in Position /\ cfg \in Graph
  BY <1>1 DEF LoopInv, TypeOK, WalkTypeOK
<1>3. PICK n \in freeargs : StmtAt(site).frees[n] = e
  OBVIOUS
<1>4. at[1] \in Block /\ at[2] \in DOMAIN cfg.stmts[at[1]] /\ at = <<at[1], at[2]>>
  BY <1>1, <1>2, StmtFacts DEF Position
<1>5. s.assigns # Base[e] /\ Base[e] # Null
  BY <1>4 DEF Lasting, NeverAssigned, Places
<1>6. n \notin Reassigned(s)
  BY <1>3, <1>5 DEF Reassigned, FreedVar
<1>7. n \in freeargs'
  <2>1. \A gone \in Erased(s) : gone \subseteq Reassigned(s)
    BY DEF Erased
  <2> QED
    BY <1>1, <1>6, <2>1
<1>8. ASSUME Hit(cfg, at[1], at[2], e) PROVE FALSE
  <2>1. s.frees # <<>> /\ Mentions(s, Base[e])
    BY <1>8 DEF Hit, StmtAt
  <2>2. s.assigns = Null
    BY <1>4, <2>1, CallAssumption DEF StmtAt
  <2>3. Reassigned(s) = {}
    BY <2>2 DEF Reassigned
  <2> QED
    BY <1>1, <1>3, <2>1, <2>3 DEF FreedArgsFreed, FreedVar
<1> QED
  BY <1>3, <1>7, <1>8

\* A step of a search that reports nothing.
LEMMA SearchGoesNear ==
  ASSUME NearInv, site # Null, UNCHANGED <<cfg, site, freeCallCites, warnings, doubleFlag>>,
         NEW sc, NEW st, NEW fa, at' = sc, stack' = st, freeargs' = fa,
         Reported(site) \/ Searching(site, sc, st, fa)
  PROVE  NearInv'
<1>1. PICK p : p = site
  OBVIOUS
<1>2. Reported(p)' \/ Searching(p, sc, st, fa)'
  BY <1>1, SameSearching DEF Reported
<1>3. Reported(site)' \/ Searching(site, at, stack, freeargs)'
  BY <1>1, <1>2 DEF Reported
<1>4. ASSUME NEW q \in freeCallCites', q # site PROVE Settled(q)'
  BY <1>4, SettledStays DEF NearInv
<1>5. doubleFlag' => Reported(site)'
  BY DEF NearInv, Reported
<1> QED
  BY <1>3, <1>4, <1>5 DEF NearInv

\* A step between two searches.
LEMMA NoneNear ==
  ASSUME LoopInv, NearInv, cfg' = cfg, site' = Null,
         freeCallCites' = freeCallCites, warnings' = warnings,
         site = Null \/ Settled(site)
  PROVE  NearInv'
<1>1. ASSUME NEW p \in freeCallCites' PROVE Settled(p)'
  <2>1. p # Null
    BY <1>1, GraphAssumption DEF LoopInv, TypeOK
  <2>2. Settled(p)
    BY <1>1, <2>1 DEF NearInv
  <2> QED
    BY <2>2, SettledStays
<1> QED
  BY <1>1 DEF NearInv

LEMMA InitNear == Init => NearInv
BY DEF Init, WalkInit, NearInv

LEMMA WalkNear ==
  ASSUME LoopInv, WayInv, NearInv, Walk \/ LeaveBlock \/ Skip PROVE NearInv'
<1>1. CASE Walk
  <2>1. site = Null
    BY <1>1 DEF LoopInv, SearchOnlyInBlock, Walk, Collect, Take, Queue, WalkInv, WalkTypeOK
  <2>2. /\ cfg' = cfg /\ warnings' = warnings /\ site' = site
        /\ freeCallCites' = freeCallCites
    BY <1>1 DEF Walk, Collect, Take, Queue, search
  <2> QED
    BY <2>1, <2>2, NoneNear
<1>2. CASE LeaveBlock \/ Skip
  <2>1. /\ cfg' = cfg /\ warnings' = warnings /\ site' = site /\ site = Null
        /\ freeCallCites' = freeCallCites
    BY <1>2 DEF LeaveBlock, Skip, Examine, Examining, AtStmt, search, walk
  <2> QED
    BY <2>1, NoneNear
<1> QED
  BY <1>1, <1>2

\* A search begins with nothing behind it.
LEMMA FreeNear == ASSUME LoopInv, WayInv, NearInv, Free PROVE NearInv'
<1>1. /\ AtStmt /\ site = Null /\ cfg' = cfg /\ site' = Here
      /\ freeargs' = DOMAIN StmtAt(Here).frees /\ doubleFlag' = FALSE
      /\ at' = <<block, blockiter + 1>> /\ stack' = <<>> /\ cfg \in Graph
      /\ warnings' = warnings /\ freeCallCites' = freeCallCites \cup {Here}
  BY DEF Free, AtStmt, Examining, LoopInv, TypeOK, WalkTypeOK, WayInv, walk
<1>2. PICK p \in Position : p = Here
  BY <1>1, HereFacts
<1>3. p[1] = block /\ p[2] = blockiter
  BY <1>2 DEF Here
<1> DEFINE fa == DOMAIN StmtAt(p).frees
<1>4. Searching(p, <<p[1], p[2] + 1>>, <<>>, fa)
  <2> SUFFICES ASSUME NEW e \in Lasting(p) PROVE \E n \in fa : StmtAt(p).frees[n] = e
    BY <1>1, ExploredFirst DEF Searching
  <2> QED
    BY DEF Lasting, FreedAt, ToSet
<1>5. Searching(site, at, stack, freeargs)'
  <2>1. PICK sc, fb : sc = <<p[1], p[2] + 1>> /\ fb = fa
    OBVIOUS
  <2>2. Searching(p, sc, <<>>, fb)'
    BY <1>1, <1>4, <2>1, SameSearching
  <2>3. freeargs' = fb /\ at' = sc
    BY <1>1, <1>2, <1>3, <2>1
  <2> QED
    BY <1>1, <1>2, <2>2, <2>3
<1>6. ASSUME NEW q \in freeCallCites', q # p PROVE Settled(q)'
  <2>1. q \in freeCallCites /\ q # Null
    BY <1>1, <1>2, <1>6, GraphAssumption DEF LoopInv, TypeOK
  <2> QED
    BY <1>1, <2>1, SettledStays DEF NearInv
<1> QED
  BY <1>1, <1>2, <1>5, <1>6 DEF NearInv

\* A report settles the statement.
LEMMA ReportNear == ASSUME LoopInv, WayInv, NearInv, Report PROVE NearInv'
<1>1. /\ warnings' = warnings \cup {[site |-> site, again |-> at]} /\ site' = site
      /\ cfg' = cfg /\ freeCallCites' = freeCallCites
  BY DEF Report, walk
<1>2. Reported(site)'
  <2>1. PICK w : w = [site |-> site, again |-> at]
    OBVIOUS
  <2>2. w \in warnings' /\ w.site = site'
    BY <1>1, <2>1
  <2> QED
    BY <2>2 DEF Reported
<1>3. ASSUME NEW q \in freeCallCites', q # site PROVE Settled(q)'
  BY <1>1, <1>3, SettledStays DEF NearInv
<1> QED
  BY <1>1, <1>2, <1>3 DEF NearInv

\* A search that ends settles its statement.
LEMMA SearchOverNear == ASSUME LoopInv, WayInv, NearInv, SearchOver PROVE NearInv'
<1>1. /\ site # Null /\ at = Null /\ stack = <<>> /\ site' = Null
      /\ cfg' = cfg /\ warnings' = warnings /\ freeCallCites' = freeCallCites
  BY DEF SearchOver, walk
<1>2. Settled(site)
  BY <1>1 DEF NearInv, Searching, Explored, Settled
<1> QED
  BY <1>1, <1>2, NoneNear

LEMMA PassNear == ASSUME LoopInv, WayInv, NearInv, Pass PROVE NearInv'
<1>1. /\ site # Null /\ at # Null /\ at' = [at EXCEPT ![2] = @ + 1] /\ stack' = stack
      /\ UNCHANGED <<cfg, site, freeCallCites, warnings, doubleFlag>>
  BY DEF Pass, Comparing, walk
<1>2. at \in Position /\ site \in Position /\ cfg \in Graph
  BY <1>1 DEF LoopInv, TypeOK, WalkTypeOK
<1>3. PICK sc, fa, st : sc = <<at[1], at[2] + 1>> /\ fa = freeargs' /\ st = stack
  OBVIOUS
<1>4. at' = sc /\ sc # Null /\ sc[1] = at[1]
  BY <1>1, <1>2, <1>3, GraphAssumption DEF Position
<1>5. CASE Searching(site, at, stack, freeargs)
  <2>1. Threaded(cfg, site, sc, st)
    BY <1>1, <1>3, <1>4, <1>5 DEF Searching, Threaded
  <2>2. ASSUME NEW e \in Lasting(site)
        PROVE  (\E n \in fa : StmtAt(site).frees[n] = e) /\ Explored(cfg, site, sc, st, e)
    <3>1. /\ \E n \in freeargs : StmtAt(site).frees[n] = e
          /\ Explored(cfg, site, at, stack, e)
      BY <1>5, <2>2 DEF Searching
    <3>2. (\E n \in fa : StmtAt(site).frees[n] = e) /\ ~Hit(cfg, at[1], at[2], e)
      BY <1>3, <3>1, LastingKept DEF NearInv
    <3> QED
      BY <1>2, <1>3, <3>1, <3>2, ExploredPass
  <2>3. Searching(site, sc, st, fa)
    BY <2>1, <2>2 DEF Searching
  <2> QED
    BY <1>1, <1>3, <1>4, <2>3, SearchGoesNear
<1>6. CASE Reported(site)
  BY <1>1, <1>3, <1>4, <1>6, SearchGoesNear
<1> QED
  BY <1>1, <1>5, <1>6 DEF NearInv

LEMMA EndOfBlockNear == ASSUME LoopInv, WayInv, NearInv, EndOfBlock PROVE NearInv'
<1> DEFINE call == [block |-> at[1], edge |-> 0]
<1>1. /\ site # Null /\ at # Null /\ ~Comparing /\ at' = Null
      /\ stack' = (IF doubleFlag THEN stack ELSE IF AtDepth THEN Front(stack)
                   ELSE Append(stack, call))
      /\ freeargs' = freeargs
      /\ UNCHANGED <<cfg, site, freeCallCites, warnings, doubleFlag>>
  BY DEF EndOfBlock, Called, walk
<1>2. /\ at \in Position /\ site \in Position /\ stack \in Seq(Frame) /\ cfg \in Graph
      /\ call \in Frame
  BY <1>1 DEF LoopInv, TypeOK, WalkTypeOK, Position, Frame
<1>3. Len(cfg.stmts[at[1]]) < at[2]
  BY <1>1, <1>2, StmtFacts DEF Position, Comparing
<1>4. PICK st, fa : st = stack' /\ fa = freeargs
  OBVIOUS
<1>5. CASE Reported(site)
  BY <1>1, <1>4, <1>5, SearchGoesNear
<1>6. CASE ~Reported(site) /\ AtDepth
  <2>1. Len(stack) = 3 /\ st = Front(stack) /\ Searching(site, at, stack, fa)
    BY <1>1, <1>4, <1>6 DEF NearInv, AtDepth, Depth
  <2>2. PICK m \in Nat \ {0} : m = 3 /\ m = Len(stack) /\ stack # <<>>
    BY <2>1
  <2>3. st \in Seq(Frame) /\ Len(st) = m - 1 /\ \A k \in 1..(m - 1) : st[k] = stack[k]
    BY <1>2, <2>1, <2>2, PopFacts
  <2>4. Threaded(cfg, site, Null, stack)
    BY <2>1 DEF Searching, Threaded
  <2>5. Threaded(cfg, site, Null, st)
    BY <1>2, <2>2, <2>3, <2>4, ThreadedReturn
  <2>6. ASSUME NEW e \in Lasting(site) PROVE Explored(cfg, site, Null, st, e)
    <3>1. Explored(cfg, site, Null, stack, e)
      BY <1>2, <2>1, <2>6, ExploredAtDepth DEF Searching
    <3>2. m <= 3 /\ ~(m < 3)
      BY <2>2
    <3> QED
      BY <1>2, <2>2, <2>3, <2>4, <3>1, <3>2, ExploredReturn
  <2>7. Searching(site, Null, st, fa)
    BY <2>1, <2>5, <2>6 DEF Searching
  <2> QED
    BY <1>1, <1>4, <2>7, SearchGoesNear
<1>7. CASE ~Reported(site) /\ ~AtDepth
  <2>1. st = Append(stack, call) /\ Searching(site, at, stack, fa)
    BY <1>1, <1>4, <1>7 DEF NearInv
  <2>2. /\ st \in Seq(Frame) /\ Len(st) = Len(stack) + 1 /\ st[Len(st)] = call
        /\ \A k \in 1..Len(stack) : st[k] = stack[k]
    BY <1>2, <2>1
  <2>3. Threaded(cfg, site, Null, st)
    BY <1>2, <2>1, <2>2, ThreadedPush DEF Searching
  <2>4. \A e \in Lasting(site) : Explored(cfg, site, Null, st, e)
    BY <1>2, <1>3, <2>1, <2>2, ExploredPush DEF Searching
  <2>5. Searching(site, Null, st, fa)
    BY <2>1, <2>3, <2>4 DEF Searching
  <2> QED
    BY <1>1, <1>4, <2>5, SearchGoesNear
<1> QED
  BY <1>5, <1>6, <1>7

LEMMA SuccessorNear == ASSUME LoopInv, WayInv, NearInv, Successor PROVE NearInv'
<1> DEFINE m == Len(stack)
           edge == stack[m].edge + 1
           succblock == Target(cfg.succ[stack[m].block][edge])
<1>1. /\ site # Null /\ at = Null /\ stack # <<>>
      /\ stack[m].edge < Len(cfg.succ[stack[m].block])
      /\ stack' = Append(Front(stack), [stack[m] EXCEPT !.edge = edge])
      /\ at' = (IF succblock = Null THEN Null ELSE <<succblock, 1>>)
      /\ freeargs' = freeargs
      /\ UNCHANGED <<cfg, site, freeCallCites, warnings, doubleFlag>>
  BY DEF Successor, Between, Last, walk
<1>2. stack \in Seq(Frame) /\ m \in Nat \ {0} /\ cfg \in Graph /\ site \in Position
  BY <1>1 DEF LoopInv, TypeOK, WalkTypeOK
<1>3. PICK st, sc, fa : st = stack' /\ sc = at' /\ fa = freeargs
  OBVIOUS
<1>4. CASE Reported(site)
  BY <1>1, <1>3, <1>4, SearchGoesNear
<1>5. CASE ~Reported(site)
  <2>1. m \in 1..Len(stack)
    BY <1>2
  <2>2. stack[m] \in Frame /\ stack[m].block \in Block /\ stack[m].edge \in Nat
    BY <1>2, <2>1, FrameFacts
  <2>3. [stack[m] EXCEPT !.edge = edge] = [block |-> stack[m].block, edge |-> edge]
    BY <2>2 DEF Frame
  <2>4. PICK top \in Frame : /\ top = [stack[m] EXCEPT !.edge = edge]
                             /\ top.block = stack[m].block /\ top.edge = stack[m].edge + 1
    BY <2>2, <2>3 DEF Frame
  <2>5. PICK front \in Seq(Frame) : /\ front = Front(stack) /\ Len(front) = m - 1
                                    /\ \A k \in 1..(m - 1) : front[k] = stack[k]
    BY <1>1, <1>2, PopFacts
  <2>6. st = Append(front, top)
    BY <1>1, <1>3, <2>4, <2>5
  <2>7. st \in Seq(Frame) /\ Len(st) = m /\ st[m] = top
    BY <1>2, <2>5, <2>6
  <2>8. ASSUME NEW k \in 1..m PROVE st[k].block = stack[k].block /\ (k # m => st[k] = stack[k])
    <3>1. CASE k = m
      BY <2>4, <2>7, <3>1
    <3>2. CASE k # m
      <4>1. k \in 1..(m - 1)
        BY <1>2, <3>2
      <4>2. st[k] = front[k]
        BY <1>2, <2>5, <2>6, <4>1
      <4> QED
        BY <2>5, <4>1, <4>2
    <3> QED
      BY <3>1, <3>2
  <2>9. succblock \in Block \cup {Null}
    <3>1. edge \in DOMAIN cfg.succ[stack[m].block]
      <4>1. /\ Len(cfg.succ[stack[m].block]) \in Nat
            /\ DOMAIN cfg.succ[stack[m].block] = 1..Len(cfg.succ[stack[m].block])
        BY <1>2, <2>2, TargetFacts
      <4> QED
        BY <1>1, <2>2, <4>1
    <3> QED
      BY <1>2, <2>2, <3>1, TargetFacts
  <2>10. /\ sc \in Position \cup {Null}
         /\ sc # Null <=> succblock # Null
         /\ sc # Null => sc[1] = succblock /\ sc[2] = 1
    <3>1. CASE succblock = Null
      BY <1>1, <1>3, <3>1
    <3>2. CASE succblock # Null
      <4>1. <<succblock, 1>> \in Position
        BY <2>9, <3>2 DEF Position
      <4> QED
        BY <1>1, <1>3, <3>2, <4>1, GraphAssumption
    <3> QED
      BY <3>1, <3>2
  <2>11. PICK n \in Nat \ {0} : /\ n = m /\ n = Len(stack) /\ Len(st) = n
                                /\ st[n].edge = stack[n].edge + 1
                                /\ stack[n].edge < Len(cfg.succ[stack[n].block])
                                /\ succblock = Target(cfg.succ[stack[n].block][stack[n].edge + 1])
    BY <1>1, <1>2, <2>4, <2>7
  <2>12. \A k \in 1..n : st[k].block = stack[k].block /\ (k # n => st[k] = stack[k])
    BY <2>8, <2>11
  <2>13. Searching(site, Null, stack, fa)
    BY <1>1, <1>3, <1>5 DEF NearInv
  <2> HIDE DEF m, edge, succblock
  <2>14. Threaded(cfg, site, sc, st)
    <3>1. Threaded(cfg, site, Null, stack)
      BY <2>13 DEF Searching
    <3> QED
      BY <1>2, <2>7, <2>10, <2>11, <2>12, <3>1, ThreadedSuccessor
  <2>15. ASSUME NEW e \in Lasting(site) PROVE Explored(cfg, site, sc, st, e)
    <3>1. Explored(cfg, site, Null, stack, e)
      BY <2>13, <2>15 DEF Searching
    <3>2. CASE sc = Null
      BY <1>2, <2>7, <2>10, <2>11, <2>12, <3>1, <3>2, ExploredMissing
    <3>3. CASE sc # Null
      BY <1>2, <2>7, <2>10, <2>11, <2>12, <3>1, <3>3, ExploredSuccessor
    <3> QED
      BY <3>2, <3>3
  <2>16. Searching(site, sc, st, fa)
    BY <2>13, <2>14, <2>15 DEF Searching
  <2> QED
    BY <1>1, <1>3, <2>16, SearchGoesNear
<1> QED
  BY <1>4, <1>5

LEMMA ReturnNear == ASSUME LoopInv, WayInv, NearInv, Return PROVE NearInv'
<1> DEFINE m == Len(stack)
<1>1. /\ site # Null /\ at = Null /\ stack # <<>> /\ at' = Null
      /\ stack[m].edge = Len(cfg.succ[stack[m].block])
      /\ stack' = (IF doubleFlag THEN <<>> ELSE Front(stack))
      /\ freeargs' = freeargs
      /\ UNCHANGED <<cfg, site, freeCallCites, warnings, doubleFlag>>
  BY DEF Return, Between, Last, walk
<1>2. stack \in Seq(Frame) /\ m \in Nat \ {0} /\ m <= 3 /\ cfg \in Graph /\ site \in Position
  BY <1>1 DEF LoopInv, TypeOK, WalkTypeOK
<1>3. PICK st, fa : st = stack' /\ fa = freeargs
  OBVIOUS
<1>4. CASE Reported(site)
  BY <1>1, <1>3, <1>4, SearchGoesNear
<1>5. CASE ~Reported(site)
  <2>1. st = Front(stack) /\ Searching(site, Null, stack, fa)
    BY <1>1, <1>3, <1>5 DEF NearInv
  <2>2. st \in Seq(Frame) /\ Len(st) = m - 1 /\ \A k \in 1..(m - 1) : st[k] = stack[k]
    BY <1>1, <1>2, <2>1, PopFacts
  <2>3. Threaded(cfg, site, Null, st)
    BY <1>2, <2>1, <2>2, ThreadedReturn DEF Searching
  <2>4. \A e \in Lasting(site) : Explored(cfg, site, Null, st, e)
    BY <1>1, <1>2, <2>1, <2>2, ExploredReturn DEF Searching
  <2>5. Searching(site, Null, st, fa)
    BY <2>1, <2>3, <2>4 DEF Searching
  <2> QED
    BY <1>1, <1>3, <2>5, SearchGoesNear
<1> QED
  BY <1>4, <1>5

LEMMA NearStep == LoopInv /\ WayInv /\ NearInv /\ [Next]_vars => NearInv'
<1> SUFFICES ASSUME LoopInv, WayInv, NearInv, [Next]_vars PROVE NearInv'
  OBVIOUS
<1>1. CASE UNCHANGED vars
  <2>1. /\ UNCHANGED <<cfg, site, freeCallCites, warnings, doubleFlag>>
        /\ freeargs' = freeargs /\ at' = at /\ stack' = stack
    BY <1>1 DEF vars, search, walk
  <2>2. CASE site = Null
    BY <2>1, <2>2, NoneNear
  <2>3. CASE site # Null
    <3>1. PICK sc, st, fa : sc = at /\ st = stack /\ fa = freeargs
      OBVIOUS
    <3> QED
      BY <2>1, <2>3, <3>1, SearchGoesNear DEF NearInv
  <2> QED
    BY <2>2, <2>3
<1>2. CASE Next
  BY <1>2, WalkNear, FreeNear, ReportNear, PassNear, EndOfBlockNear, SuccessorNear, ReturnNear,
     SearchOverNear DEF Next
<1> QED
  BY <1>1, <1>2

\* When the walk is over, all frees that control can reach have been searched from.
LEMMA NearImplies == LoopInv /\ FreesSearched /\ NearInv => NearFreeReported
<1> SUFFICES ASSUME LoopInv, FreesSearched, NearInv, WalkDone,
                    NEW p \in Freeing(Reachable(cfg)), NEW e \in FreedAt(p), NeverAssigned(e),
                    NEW q \in Freeing(Block), Mentions(StmtAt(q), Base[e]),
                    ReachesIntact(p, q, e, 2)
             PROVE  Reported(p)
  BY DEF NearFreeReported, AgainReported
<1>1. cfg \in Graph /\ site = Null
  BY DEF LoopInv, TypeOK, WalkTypeOK, SearchOnlyInBlock, WalkDone
<1>2. p \in freeCallCites /\ p \in Position /\ p # site
  BY <1>1, GraphAssumption DEF FreesSearched, LoopInv, TypeOK
<1>3. Settled(p) /\ e \in Lasting(p)
  BY <1>2 DEF NearInv, Lasting, Mentions
<1> QED
  BY <1>1, <1>2, <1>3, NoFreeNear DEF Settled

\* No successor that is left behind leads to a second free, within two edges.
THEOREM NearInvariant == Spec => [](LoopInv /\ WayInv /\ NearInv)
<1>1. Init => NearInv
  BY InitNear
<1> QED
  BY <1>1, NearStep, WayInvariant, PTL DEF Spec

\* A second free up to two edges away of a variable that the function never assigns is
\* not missed: the first is reported, whatever branches and loops the search runs through.
THEOREM NearFreeFound == Spec => []NearFreeReported
<1>1. LoopInv /\ FreesSearched /\ NearInv => NearFreeReported
  BY NearImplies
<1> QED
  BY <1>1, NearInvariant, ReachableFreesSearched, PTL

-----------------------------------------------------------------------------
(* borrowed_reference_checker keeps its map from one function to the next. *)
(* As long as the units of the functions fit into memory, those that were  *)
(* requested so far are the last ones of the queue of the ASTManager:      *)
(* whatever it frees belongs to none of them, so no variable of the map    *)
(* goes away, and what is in the map was borrowed where the map says.      *)

\* The units of the functions examined so far.
Begun == {program[k].unit : k \in 1..fn}

\* The statement at s borrows v.
BorrowedAt(s, v) ==
  Kind(program[s[1]].body[s[2]][s[3]]) = "borrow" /\ Given(program[s[1]].body[s[2]][s[3]]) = v

MapInv ==
  /\ BorrowTypeOK
  /\ program \in Programs
  /\ Distinct(astQueue)
  /\ Fits => /\ LeftoversHarmless
             /\ \E k \in 1..(Len(astQueue) + 1) : From(astQueue, k) = Begun
             /\ \A v \in DOMAIN borrowedRefVars :
                  Home[v] \in Begun /\ BorrowedAt(borrowedRefVars[v], v)

\* The walk keeps its types, whatever is done with the statements.
LEMMA WalkTyped ==
  ASSUME WalkTypeOK, Collect \/ Take \/ Queue \/ Examine
  PROVE  WalkTypeOK'
<1>1. /\ cfg \in Graph /\ unfinished \in Seq(Block) /\ handled \subseteq Block
      /\ block \in Block \cup {Null} /\ next \in Nat \ {0} /\ examined \subseteq Block
      /\ scan \in 1..(Len(Order) + 1) /\ Order \in Seq(Block)
  BY WorklistAssumption DEF WalkTypeOK
<1>2. CASE Collect
  <2>1. scan \in 1..Len(Order) /\ scan' = scan + 1 /\ Order[scan] \in Block /\ Len(Order) \in Nat
    BY <1>1, <1>2 DEF Collect
  <2>2. /\ unfinished' = Append(unfinished, Order[scan]) \/ unfinished' = unfinished
        /\ handled' = handled \cup {Order[scan]} \/ handled' = handled
        /\ UNCHANGED <<cfg, block, next, examined>>
    BY <1>2 DEF Collect
  <2> QED
    BY <1>1, <2>1, <2>2 DEF WalkTypeOK
<1>3. CASE Take
  BY <1>1, <1>3 DEF Take, WalkTypeOK
<1>4. CASE Queue
  <2> DEFINE e == cfg.succ[block][next]
             succ == Target(e)
  <2>1. block \in Block /\ next \in DOMAIN cfg.succ[block]
    BY <1>1, <1>4 DEF Queue, Graph
  <2>2. succ \in Block \cup {Null}
    BY <1>1, <2>1, TargetFacts
  <2>3. /\ \/ succ # Null /\ unfinished' = Append(unfinished, succ) /\ handled' = handled \cup {block}
           \/ UNCHANGED <<unfinished, handled>>
        /\ next' = next + 1 /\ UNCHANGED <<cfg, scan, block, examined>>
    BY <1>4 DEF Queue
  <2> HIDE DEF succ
  <2> QED
    BY <1>1, <2>1, <2>2, <2>3 DEF WalkTypeOK
<1>5. CASE Examine
  BY <1>1, <1>5 DEF Examine, WalkTypeOK
<1> QED
  BY <1>2, <1>3, <1>4, <1>5

\* The functions of a program, and the statements they consist of.
LEMMA FunctionFacts ==
  ASSUME program \in Programs, NEW k \in DOMAIN program
  PROVE  /\ program \in Seq(Function) /\ program[k] \in Function
         /\ program[k].unit \in Unit /\ program[k].graph \in Graph
         /\ \A b \in Block : \A i \in DOMAIN program[k].body[b] :
              Given(program[k].body[b][i]) \in VarsOf(program[k].unit) \cup {Null}
<1>1. program \in Seq(Function) /\ program[k] \in Function
  BY BorrowAssumption
<1>2. program[k].unit \in Unit /\ program[k].graph \in Graph
  BY <1>1 DEF Function
<1>3. ASSUME NEW b \in Block, NEW i \in DOMAIN program[k].body[b]
      PROVE  Given(program[k].body[b][i]) \in VarsOf(program[k].unit) \cup {Null}
  <2>1. program[k].body[b][i] \in ToSet(program[k].body[b])
    BY DEF ToSet
  <2> QED
    BY <2>1, BorrowAssumption
<1> QED
  BY <1>1, <1>2, <1>3

\* Units that fit into memory together are requested without that one of them is freed:
\* they stay the last ones of the queue.
LEMMA RequestFacts ==
  ASSUME BorrowTypeOK, Distinct(astQueue), NEW u \in Unit
  PROVE  /\ Requested(u) \in Seq(Unit) /\ Len(Requested(u)) <= maxSize /\ Distinct(Requested(u))
         /\ \A k \in 1..(Len(astQueue) + 1) :
              /\ IsFiniteSet(From(astQueue, k) \cup {u})
              /\ Cardinality(From(astQueue, k) \cup {u}) <= maxSize
              => \E j \in 1..(Len(Requested(u)) + 1) :
                   From(Requested(u), j) = From(astQueue, k) \cup {u}
<1> DEFINE n == Len(astQueue)
           left == IF u \in Held THEN Within(astQueue, Unit \ {u})
                   ELSE IF n >= maxSize THEN Tail(astQueue) ELSE astQueue
<1>1. /\ astQueue \in Seq(Unit) /\ n \in Nat /\ n <= maxSize /\ maxSize \in Nat \ {0}
      /\ DOMAIN astQueue = 1..n /\ Held = ToSet(astQueue)
      /\ \A k \in 1..n : astQueue[k] \in Unit
  <2>1. astQueue \in Seq(Unit) /\ n <= maxSize /\ maxSize \in Nat \ {0}
    BY BorrowAssumption DEF BorrowTypeOK
  <2> QED
    BY <2>1, SequenceFacts DEF Held, ToSet
<1>2. Requested(u) = Append(left, u)
  BY DEF Requested
<1> HIDE DEF left
<1>3. /\ left \in Seq(Unit) /\ Distinct(left) /\ u \notin ToSet(left) /\ Len(left) < maxSize
      /\ \A k \in 1..(n + 1) :
           /\ IsFiniteSet(From(astQueue, k) \cup {u})
           /\ Cardinality(From(astQueue, k) \cup {u}) <= maxSize
           => \E j \in 1..(Len(left) + 1) : From(left, j) = From(astQueue, k) \ {u}
  <2>1. CASE u \in Held
    <3> DEFINE S == Unit \ {u}
               w == Within(astQueue, S)
    <3>1. left = w
      BY <2>1 DEF left
    <3>2. w \in Seq(Unit) /\ ToSet(w) = ToSet(astQueue) \cap S
      BY <1>1, WithinFacts
    <3>3. /\ Distinct(w)
          /\ \A k \in 1..n : \E j \in 1..(Len(w) + 1) : From(w, j) = From(astQueue, k) \cap S
      BY <1>1, WithinOrder
    <3> HIDE DEF w
    <3>4. ToSet(w) = ToSet(astQueue) \ {u} /\ ToSet(astQueue) \subseteq Unit
      BY <1>1, <3>2 DEF ToSet
    <3>5. Len(w) \in Nat /\ Len(w) = n - 1
      <4>1. IsFiniteSet(ToSet(astQueue)) /\ Cardinality(ToSet(astQueue)) = n
        BY <1>1, DistinctSet
      <4>2. Cardinality(ToSet(w)) = Len(w)
        BY <3>2, <3>3, DistinctSet
      <4>3. Cardinality(ToSet(astQueue) \ {u}) = Cardinality(ToSet(astQueue)) - 1
        BY <1>1, <2>1, <4>1, FS_RemoveElement
      <4> QED
        <5>1. Len(w) \in Nat /\ n \in Nat
          BY <1>1, <3>2
        <5> QED
          BY <3>4, <4>1, <4>2, <4>3, <5>1
    <3>6. ASSUME NEW k \in 1..(n + 1)
          PROVE  \E j \in 1..(Len(w) + 1) : From(w, j) = From(astQueue, k) \ {u}
      <4>1. CASE k \in 1..n
        <5>1. From(astQueue, k) \subseteq Unit
          BY <1>1, <4>1 DEF From
        <5> QED
          BY <3>3, <4>1, <5>1
      <4>2. CASE k = n + 1
        <5>1. From(astQueue, k) = {} /\ From(w, Len(w) + 1) = {} /\ Len(w) + 1 \in 1..(Len(w) + 1)
          BY <1>1, <3>5, <4>2 DEF From
        <5> QED
          BY <5>1
      <4> QED
        BY <1>1, <4>1, <4>2
    <3>7. Len(w) < maxSize /\ u \notin ToSet(w)
      BY <1>1, <3>4, <3>5
    <3> QED
      BY <3>1, <3>2, <3>3, <3>6, <3>7, Zenon
  <2>2. CASE u \notin Held /\ n >= maxSize
    <3> DEFINE w == Tail(astQueue)
    <3>1. left = w /\ n = maxSize /\ astQueue # <<>>
      <4>1. n = maxSize
        <5>1. n \in Nat /\ n <= maxSize /\ maxSize \in Nat
          BY <1>1
        <5> QED
          BY <2>2, <5>1
      <4>2. astQueue # <<>>
        BY <1>1, <4>1
      <4> QED
        BY <2>2, <4>1, <4>2, Zenon DEF left
    <3>2. /\ w \in Seq(Unit) /\ Len(w) = n - 1 /\ DOMAIN w = 1..(n - 1)
          /\ \A i \in 1..(n - 1) : w[i] = astQueue[i + 1]
      BY <1>1, <3>1
    <3> HIDE DEF w
    <3>3. Distinct(w)
      BY <1>1, <3>2 DEF Distinct
    <3>4. u \notin ToSet(w)
      <4>1. ASSUME NEW i \in 1..(n - 1) PROVE w[i] # u
        <5>1. i + 1 \in DOMAIN astQueue
          BY <1>1
        <5> QED
          BY <1>1, <2>2, <3>2, <5>1 DEF Held
      <4> QED
        BY <3>2, <4>1 DEF ToSet
    <3>5. ASSUME NEW k \in 1..(n + 1), IsFiniteSet(From(astQueue, k) \cup {u}),
                 Cardinality(From(astQueue, k) \cup {u}) <= maxSize
          PROVE  \E j \in 1..(Len(w) + 1) : From(w, j) = From(astQueue, k) \ {u}
      <4>1. u \notin From(astQueue, k)
        BY <1>1, <2>2 DEF From, Held
      <4>2. IsFiniteSet(From(astQueue, k)) /\ Cardinality(From(astQueue, k)) = n + 1 - k
        BY <1>1, DistinctCardinality
      <4>3. Cardinality(From(astQueue, k) \cup {u}) = Cardinality(From(astQueue, k)) + 1
        BY <4>1, <4>2, FS_AddElement
      <4>4. k \in 2..(n + 1)
        BY <1>1, <3>1, <3>5, <4>2, <4>3
      <4>5. From(w, k - 1) \subseteq From(astQueue, k)
        <5>1. ASSUME NEW i \in (k - 1)..Len(w) PROVE w[i] \in From(astQueue, k)
          <6>1. i \in 1..(n - 1) /\ i + 1 \in k..n
            BY <1>1, <3>2, <4>4
          <6> QED
            BY <3>2, <6>1 DEF From
        <5> QED
          BY <5>1 DEF From
      <4>6. From(astQueue, k) \subseteq From(w, k - 1)
        <5>1. ASSUME NEW i \in k..n PROVE astQueue[i] \in From(w, k - 1)
          <6>1. i - 1 \in 1..(n - 1) /\ i - 1 \in (k - 1)..Len(w) /\ (i - 1) + 1 = i
            BY <1>1, <3>2, <4>4
          <6> QED
            BY <3>2, <6>1 DEF From
        <5> QED
          BY <5>1 DEF From
      <4> QED
        BY <1>1, <3>2, <4>1, <4>4, <4>5, <4>6
    <3> QED
      BY <1>1, <3>1, <3>2, <3>3, <3>4, <3>5
  <2>3. CASE u \notin Held /\ n < maxSize
    <3>1. left = astQueue
      <4>1. ~(n >= maxSize)
        BY <1>1, <2>3
      <4> QED
        BY <2>3, <4>1, Zenon DEF left
    <3>2. \A k \in 1..(n + 1) : From(astQueue, k) = From(astQueue, k) \ {u}
      BY <1>1, <2>3 DEF From, Held
    <3> QED
      BY <1>1, <2>3, <3>1, <3>2
  <2>4. n >= maxSize \/ n < maxSize
    BY <1>1
  <2> QED
    BY <2>1, <2>2, <2>3, <2>4, Zenon
<1>4. /\ Append(left, u) \in Seq(Unit) /\ Len(Append(left, u)) = Len(left) + 1 /\ Len(left) \in Nat
  BY <1>3, AppendFacts
<1>5. Distinct(Append(left, u))
  BY <1>3, AppendDistinct
<1>6. ASSUME NEW j \in 1..(Len(left) + 1), NEW U, From(left, j) = U \ {u}
      PROVE  j \in 1..(Len(Append(left, u)) + 1) /\ From(Append(left, u), j) = U \cup {u}
  <2>1. From(Append(left, u), j) = From(left, j) \cup {u}
    BY <1>3, AppendFrom
  <2> QED
    BY <1>4, <1>6, <2>1
<1>7. ASSUME NEW k \in 1..(n + 1), IsFiniteSet(From(astQueue, k) \cup {u}),
             Cardinality(From(astQueue, k) \cup {u}) <= maxSize
      PROVE  \E j \in 1..(Len(Append(left, u)) + 1) : From(Append(left, u), j) = From(astQueue, k) \cup {u}
  <2>1. PICK j \in 1..(Len(left) + 1) : From(left, j) = From(astQueue, k) \ {u}
    BY <1>3, <1>7
  <2> QED
    BY <1>6, <2>1
<1>8. Len(Append(left, u)) <= maxSize
  BY <1>1, <1>3, <1>4
<1> QED
  BY <1>2, <1>4, <1>5, <1>7, <1>8, Zenon

\* The units of the functions to come fit into memory together with those examined.
LEMMA FitsFacts ==
  ASSUME program \in Programs, fn \in Nat, fn < Len(program), Fits,
         NEW U, U = Begun \cup {program[fn + 1].unit}
  PROVE  IsFiniteSet(U) /\ Cardinality(U) <= maxSize
<1> DEFINE all == {program[k].unit : k \in DOMAIN program}
           h == [k \in DOMAIN program |-> program[k].unit]
<1>1. Len(program) \in Nat /\ DOMAIN program = 1..Len(program)
  BY BorrowAssumption
<1>2. IsFiniteSet(DOMAIN program)
  BY <1>1, FS_Interval
<1>3. h \in Surjection(DOMAIN program, all)
  BY DEF Surjection
<1>4. IsFiniteSet(all)
  BY <1>2, <1>3, FS_Surjection
<1>5. U \in SUBSET all
  <2>1. \A k \in 1..fn : k \in DOMAIN program
    BY <1>1
  <2>2. fn + 1 \in DOMAIN program
    BY <1>1
  <2> QED
    BY <2>1, <2>2 DEF Begun
<1>6. Cardinality(all) <= maxSize
  BY DEF Fits
<1> HIDE DEF all
<1>7. IsFiniteSet(U) /\ Cardinality(U) <= Cardinality(all)
  BY <1>4, <1>5, FS_Subset
<1>8. Cardinality(U) \in Nat /\ Cardinality(all) \in Nat /\ maxSize \in Nat
  BY <1>4, <1>7, FS_CardinalityType, BorrowAssumption
<1> QED
  BY <1>6, <1>7, <1>8

LEMMA InitMap == BorrowInit => MapInv
<1> SUFFICES ASSUME BorrowInit PROVE MapInv
  OBVIOUS
<1> DEFINE m == IF Len(ASTList) > maxSize THEN Len(ASTList) - maxSize + 1 ELSE 1
<1>1. /\ program \in Programs /\ fn = 0 /\ iter = 1 /\ borrowedRefVars = <<>> /\ dangling = {}
      /\ reports = {} /\ fault = "none" /\ astQueue = SubSeq(ASTList, m, Len(ASTList))
  BY DEF BorrowInit
<1>2. /\ ASTList \in Seq(Unit) /\ Len(ASTList) \in Nat /\ DOMAIN ASTList = 1..Len(ASTList)
      /\ maxSize \in Nat \ {0} /\ Distinct(ASTList)
  BY BorrowAssumption DEF Distinct
<1>3. m \in 1..(Len(ASTList) + 1) /\ Len(ASTList) + 1 - m <= maxSize
  BY <1>2
<1> HIDE DEF m
<1>4. /\ astQueue \in Seq(Unit) /\ Len(astQueue) = Len(ASTList) + 1 - m /\ Distinct(astQueue)
  BY <1>1, <1>2, <1>3, SuffixFacts
<1>5. WalkTypeOK
  BY WorklistAssumption DEF BorrowInit, WalkInit, WalkTypeOK
<1>6. DOMAIN borrowedRefVars = {}
  BY <1>1
<1>7. Len(program) \in Nat
  BY <1>1, BorrowAssumption
<1>8. BorrowTypeOK
  BY <1>1, <1>2, <1>3, <1>4, <1>5, <1>6, <1>7 DEF BorrowTypeOK
<1>9. Begun = {} /\ From(astQueue, Len(astQueue) + 1) = {} /\ Len(astQueue) + 1 \in 1..(Len(astQueue) + 1)
  <2>1. Len(astQueue) \in Nat
    BY <1>4
  <2>2. Begun = {}
    BY <1>1 DEF Begun
  <2>3. From(astQueue, Len(astQueue) + 1) = {}
    BY <2>1 DEF From
  <2> QED
    BY <2>1, <2>2, <2>3
<1> QED
  BY <1>1, <1>4, <1>6, <1>8, <1>9 DEF MapInv, LeftoversHarmless

\* Steps that leave the functions, the queue and the freed variables alone keep what is
\* known of them.
LEMMA MapStays ==
  ASSUME MapInv, UNCHANGED <<program, fn, astQueue, dangling>>, BorrowTypeOK',
         fault' = fault \/ (dangling # {} /\ fault' = "dangling"),
         Fits => /\ \A v \in DOMAIN borrowedRefVars' :
                      Home[v] \in Begun /\ BorrowedAt(borrowedRefVars'[v], v)
                 /\ \A w \in reports' : BorrowedAt(w.site, w.var)
  PROVE  MapInv'
<1>1. Fits' <=> Fits
  BY DEF Fits
<1>2. Begun' = Begun
  BY DEF Begun
<1>3. \A p, v : BorrowedAt(p, v)' <=> BorrowedAt(p, v)
  BY DEF BorrowedAt
<1>4. Distinct(astQueue') /\ program' \in Programs /\ \A k : From(astQueue', k) = From(astQueue, k)
  BY DEF MapInv
<1>5. ASSUME Fits
      PROVE  /\ LeftoversHarmless'
             /\ \E k \in 1..(Len(astQueue') + 1) : From(astQueue', k) = Begun'
             /\ \A v \in DOMAIN borrowedRefVars' :
                  Home[v] \in Begun' /\ BorrowedAt(borrowedRefVars[v], v)'
  <2>1. fault = "none" /\ dangling = {}
    BY <1>5 DEF MapInv, LeftoversHarmless
  <2>2. fault' = "none" /\ dangling' = {}
    BY <2>1
  <2>3. LeftoversHarmless'
    BY <1>5, <2>2 DEF LeftoversHarmless, BorrowedAt
  <2>4. \E k \in 1..(Len(astQueue') + 1) : From(astQueue', k) = Begun'
    BY <1>2, <1>5 DEF MapInv
  <2>5. \A v \in DOMAIN borrowedRefVars' :
          Home[v] \in Begun' /\ BorrowedAt(borrowedRefVars[v], v)'
    BY <1>2, <1>5 DEF BorrowedAt
  <2> QED
    BY <2>3, <2>4, <2>5
<1> QED
  BY <1>1, <1>4, <1>5 DEF MapInv

\* What the map and the reports say while they stay as they are.
LEMMA MapFacts ==
  ASSUME MapInv
  PROVE  Fits => /\ \A v \in DOMAIN borrowedRefVars :
                      Home[v] \in Begun /\ BorrowedAt(borrowedRefVars[v], v)
                 /\ \A w \in reports : BorrowedAt(w.site, w.var)
BY DEF MapInv, LeftoversHarmless, BorrowedAt

\* Where the statement at hand stands.
LEMMA SpotFacts ==
  ASSUME BorrowTypeOK, program \in Programs, AtStatement
  PROVE  /\ fn \in DOMAIN program /\ F.unit \in Begun
         /\ Spot \in Site /\ iter + 1 \in Nat \ {0}
         /\ Given(Stmt1) \in VarsOf(F.unit) \cup {Null}
         /\ \A v : Kind(Stmt1) = "borrow" /\ Given(Stmt1) = v => BorrowedAt(Spot, v)
<1>1. /\ fn \in 0..Len(program) /\ fn > 0 /\ block \in Block /\ iter \in Nat \ {0}
      /\ iter <= Len(F.body[block])
  BY DEF BorrowTypeOK, WalkTypeOK, AtStatement, InBlock, Walking
<1>2. program \in Seq(Function)
  BY BorrowAssumption
<1>3. fn \in DOMAIN program /\ fn \in 1..fn /\ fn \in Nat \ {0}
  BY <1>1, <1>2
<1>4. F.body[block] \in Seq(Term)
  <2>1. F \in Function
    BY <1>3, FunctionFacts DEF F
  <2> QED
    BY <1>1, <2>1 DEF Function
<1>5. iter \in DOMAIN F.body[block]
  BY <1>1, <1>4
<1>6. Given(Stmt1) \in VarsOf(F.unit) \cup {Null}
  BY <1>1, <1>3, <1>5, FunctionFacts DEF F, Stmt1
<1> QED
  BY <1>1, <1>3, <1>6 DEF Begun, F, Spot, Site, BorrowedAt, Stmt1

\* The walk, the end of a block and the statements that leave the map alone.
LEMMA WalkOnMap == MapInv /\ (WalkOn \/ NextBlock \/ Ignore \/ ReadFreed) => MapInv'
<1> SUFFICES ASSUME MapInv, WalkOn \/ NextBlock \/ Ignore \/ ReadFreed PROVE MapInv'
  OBVIOUS
<1>1. BorrowTypeOK /\ WalkTypeOK
  BY DEF MapInv, BorrowTypeOK
<1>2. UNCHANGED <<program, fn, astQueue, borrowedRefVars, dangling, reports>>
  BY DEF WalkOn, others, NextBlock, Ignore, Step, ReadFreed
<1>3. fault' = fault \/ (dangling # {} /\ fault' = "dangling")
  <2>1. CASE WalkOn \/ NextBlock \/ Ignore
    BY <2>1 DEF WalkOn, others, NextBlock, Ignore
  <2>2. CASE ReadFreed
    BY <2>2 DEF ReadFreed
  <2> QED
    BY <2>1, <2>2
<1>4. WalkTypeOK'
  <2>1. CASE UNCHANGED walk
    BY <1>1, <2>1 DEF walk, WalkTypeOK
  <2>2. CASE Collect \/ Take \/ Queue \/ Examine
    BY <1>1, <2>2, WalkTyped
  <2> QED
    BY <2>1, <2>2 DEF WalkOn, NextBlock, Ignore, Step, ReadFreed
<1>5. iter' \in Nat \ {0}
  <2>1. iter \in Nat \ {0}
    BY <1>1 DEF BorrowTypeOK
  <2>2. iter' \in {iter, 1, iter + 1}
    BY DEF WalkOn, others, NextBlock, Ignore, Step, ReadFreed
  <2> QED
    BY <2>1, <2>2
<1>6. fault' \in {"none", "dangling"}
  BY <1>1, <1>3 DEF BorrowTypeOK
<1>7. BorrowTypeOK'
  BY <1>1, <1>2, <1>4, <1>5, <1>6 DEF BorrowTypeOK
<1> QED
  BY <1>2, <1>3, <1>7, MapStays, MapFacts

\* What a check function is called for, or what gets another value, leaves the map.
LEMMA ReleaseMap == MapInv /\ Release => MapInv'
<1> SUFFICES ASSUME MapInv, Release PROVE MapInv'
  OBVIOUS
<1>1. /\ AtStatement /\ iter' = iter + 1 /\ UNCHANGED walk
      /\ UNCHANGED <<program, fn, astQueue, dangling, reports, fault>>
      /\ borrowedRefVars' = Without(borrowedRefVars, {Released(Stmt1)})
  BY DEF Release, Step
<1>2. BorrowTypeOK /\ WalkTypeOK /\ program \in Programs
  BY DEF MapInv, BorrowTypeOK
<1>3. WalkTypeOK' /\ iter' \in Nat \ {0}
  BY <1>1, <1>2, SpotFacts DEF walk, WalkTypeOK
<1>4. /\ DOMAIN borrowedRefVars' \subseteq DOMAIN borrowedRefVars
      /\ \A v \in DOMAIN borrowedRefVars' : borrowedRefVars'[v] = borrowedRefVars[v]
  BY <1>1 DEF Without
<1>5. BorrowTypeOK'
  BY <1>1, <1>2, <1>3, <1>4 DEF BorrowTypeOK
<1>6. Fits => /\ \A x \in DOMAIN borrowedRefVars' :
                   Home[x] \in Begun /\ BorrowedAt(borrowedRefVars'[x], x)
              /\ \A w \in reports' : BorrowedAt(w.site, w.var)
  BY <1>1, <1>4, MapFacts
<1> QED
  BY <1>1, <1>5, <1>6, MapStays

\* A variable enters the map with the statement that borrows it.
LEMMA BorrowMap == MapInv /\ Borrow => MapInv'
<1> SUFFICES ASSUME MapInv, Borrow PROVE MapInv'
  OBVIOUS
<1> DEFINE v == Given(Stmt1)
<1>1. /\ AtStatement /\ Kind(Stmt1) = "borrow" /\ iter' = iter + 1 /\ UNCHANGED walk
      /\ UNCHANGED <<program, fn, astQueue, dangling, reports, fault>>
      /\ borrowedRefVars' = Inserted(borrowedRefVars, v, Spot)
  BY DEF Borrow, Step
<1>2. BorrowTypeOK /\ WalkTypeOK /\ program \in Programs
  BY DEF MapInv, BorrowTypeOK
<1>3. WalkTypeOK' /\ iter' \in Nat \ {0}
  BY <1>1, <1>2, SpotFacts DEF walk, WalkTypeOK
<1>4. v # Null
  BY <1>1, Zenon DEF Kind
<1>5. v \in Var /\ Home[v] \in Begun /\ Spot \in Site /\ BorrowedAt(Spot, v)
  BY <1>1, <1>2, <1>4, SpotFacts DEF VarsOf
<1>6. /\ DOMAIN borrowedRefVars' = DOMAIN borrowedRefVars \cup {v}
      /\ \A w \in DOMAIN borrowedRefVars' :
           IF w \in DOMAIN borrowedRefVars THEN borrowedRefVars'[w] = borrowedRefVars[w]
           ELSE w = v /\ borrowedRefVars'[w] = Spot
  BY <1>1 DEF Inserted
<1> HIDE DEF v
<1>7. BorrowTypeOK'
  BY <1>1, <1>2, <1>3, <1>5, <1>6 DEF BorrowTypeOK
<1>8. Fits => /\ \A x \in DOMAIN borrowedRefVars' :
                   Home[x] \in Begun /\ BorrowedAt(borrowedRefVars'[x], x)
              /\ \A w \in reports' : BorrowedAt(w.site, w.var)
  BY <1>1, <1>5, <1>6, MapFacts
<1> QED
  BY <1>1, <1>7, <1>8, MapStays

\* What is reported is in the map, with the statement that borrowed it.
LEMMA UseMap == MapInv /\ Use => MapInv'
<1> SUFFICES ASSUME MapInv, Use PROVE MapInv'
  OBVIOUS
<1>1. /\ AtStatement /\ iter' = iter + 1 /\ UNCHANGED walk
      /\ UNCHANGED <<program, fn, astQueue, borrowedRefVars, dangling, fault>>
      /\ reports' = reports \cup ReportsOf(Stmt1)
  BY DEF Use, Step
<1>2. BorrowTypeOK /\ WalkTypeOK /\ program \in Programs
  BY DEF MapInv, BorrowTypeOK
<1>3. WalkTypeOK' /\ iter' \in Nat \ {0} /\ Spot \in Site
  BY <1>1, <1>2, SpotFacts DEF walk, WalkTypeOK
<1>4. ASSUME NEW w \in ReportsOf(Stmt1)
      PROVE  /\ w \in [use : Site, var : Var, site : Site]
             /\ w.var \in DOMAIN borrowedRefVars /\ w.site = borrowedRefVars[w.var]
  <2>1. PICK x \in DOMAIN borrowedRefVars : w = [use |-> Spot, var |-> x, site |-> borrowedRefVars[x]]
    BY DEF ReportsOf
  <2> QED
    BY <1>2, <1>3, <2>1 DEF BorrowTypeOK
<1>5. BorrowTypeOK'
  BY <1>1, <1>2, <1>3, <1>4 DEF BorrowTypeOK
<1>6. Fits => /\ \A x \in DOMAIN borrowedRefVars' :
                   Home[x] \in Begun /\ BorrowedAt(borrowedRefVars'[x], x)
              /\ \A w \in reports' : BorrowedAt(w.site, w.var)
  BY <1>1, <1>4, MapFacts
<1> QED
  BY <1>1, <1>5, <1>6, MapStays

\* The next function frees no variable of the map if the units fit into memory.
LEMMA NextFunctionMap == MapInv /\ NextFunction => MapInv'
<1> SUFFICES ASSUME MapInv, NextFunction PROVE MapInv'
  OBVIOUS
<1> DEFINE u == program[fn + 1].unit
           gone == {v \in DOMAIN borrowedRefVars : Home[v] \notin ToSet(Requested(u))}
           freed == dangling \cup {borrowedRefVars[v] : v \in gone}
           kept == Without(borrowedRefVars, gone)
<1>1. /\ BorrowTypeOK /\ program \in Programs /\ Distinct(astQueue) /\ fn < Len(program)
      /\ fn' = fn + 1 /\ astQueue' = Requested(u)
      /\ UNCHANGED <<program, reports, fault>>
  BY DEF MapInv, NextFunction
<1>2. \/ borrowedRefVars' = kept /\ dangling' = freed
      \/ \E s \in dangling, v \in VarsOf(u) :
           borrowedRefVars' = Inserted(kept, v, s) /\ dangling' = freed \ {s}
  BY DEF NextFunction
<1>3. /\ cfg' = program[fn + 1].graph /\ scan' = 1 /\ unfinished' = <<>> /\ handled' = {}
      /\ block' = Null /\ next' = 1 /\ examined' = {} /\ iter' = 1
  BY DEF NextFunction
<1>4. fn + 1 \in DOMAIN program /\ fn \in Nat /\ fn' \in 0..Len(program')
  <2>1. fn \in 0..Len(program) /\ program \in Seq(Function)
    BY <1>1, BorrowAssumption DEF BorrowTypeOK
  <2> QED
    BY <1>1, <2>1
<1>5. u \in Unit /\ program[fn + 1].graph \in Graph
  BY <1>1, <1>4, FunctionFacts
<1>6. WalkTypeOK'
  BY <1>3, <1>5, WorklistAssumption DEF WalkTypeOK
<1> HIDE DEF u
<1>7. /\ astQueue' \in Seq(Unit) /\ Len(astQueue') <= maxSize /\ Distinct(astQueue')
      /\ \A k \in 1..(Len(astQueue) + 1) :
           /\ IsFiniteSet(From(astQueue, k) \cup {u})
           /\ Cardinality(From(astQueue, k) \cup {u}) <= maxSize
           => \E j \in 1..(Len(astQueue') + 1) : From(astQueue', j) = From(astQueue, k) \cup {u}
  BY <1>1, <1>5, RequestFacts
<1>8. /\ DOMAIN borrowedRefVars \subseteq Var /\ dangling \subseteq Site
      /\ \A v \in DOMAIN borrowedRefVars : borrowedRefVars[v] \in Site
      /\ reports \subseteq [use : Site, var : Var, site : Site] /\ fault \in {"none", "dangling"}
  BY <1>1 DEF BorrowTypeOK
<1>9. /\ DOMAIN kept = DOMAIN borrowedRefVars \ gone /\ freed \subseteq Site
      /\ \A v \in DOMAIN kept : kept[v] = borrowedRefVars[v]
  BY <1>8 DEF Without
<1> HIDE DEF gone, freed, kept
<1>10. /\ DOMAIN borrowedRefVars' \subseteq Var /\ dangling' \subseteq Site
       /\ \A v \in DOMAIN borrowedRefVars' : borrowedRefVars'[v] \in Site
  <2>1. CASE borrowedRefVars' = kept /\ dangling' = freed
    BY <1>8, <1>9, <2>1
  <2>2. ASSUME NEW s \in dangling, NEW v \in VarsOf(u), borrowedRefVars' = Inserted(kept, v, s),
               dangling' = freed \ {s}
        PROVE  /\ DOMAIN borrowedRefVars' \subseteq Var /\ dangling' \subseteq Site
               /\ \A x \in DOMAIN borrowedRefVars' : borrowedRefVars'[x] \in Site
    <3>1. s \in Site /\ v \in Var
      BY <1>8 DEF VarsOf
    <3>2. /\ DOMAIN borrowedRefVars' = DOMAIN kept \cup {v}
          /\ \A w \in DOMAIN borrowedRefVars' :
               borrowedRefVars'[w] = IF w \in DOMAIN kept THEN kept[w] ELSE s
      BY <2>2 DEF Inserted
    <3> QED
      BY <1>8, <1>9, <2>2, <3>1, <3>2
  <2> QED
    BY <1>2, <2>1, <2>2
<1>11. BorrowTypeOK'
  <2>1. iter' \in Nat \ {0}
    BY <1>3
  <2> QED
    BY <1>1, <1>4, <1>6, <1>7, <1>8, <1>10, <2>1 DEF BorrowTypeOK
<1>12. ASSUME Fits
       PROVE  /\ LeftoversHarmless'
              /\ \E k \in 1..(Len(astQueue') + 1) : From(astQueue', k) = Begun'
              /\ \A v \in DOMAIN borrowedRefVars' :
                   Home[v] \in Begun' /\ BorrowedAt(borrowedRefVars[v], v)'
  <2>1. PICK k \in 1..(Len(astQueue) + 1) : From(astQueue, k) = Begun
    BY <1>12 DEF MapInv
  <2>2. /\ fault = "none" /\ dangling = {} /\ \A w \in reports : BorrowedAt(w.site, w.var)
        /\ \A v \in DOMAIN borrowedRefVars : Home[v] \in Begun /\ BorrowedAt(borrowedRefVars[v], v)
    BY <1>12, MapFacts DEF MapInv, LeftoversHarmless
  <2>3. Begun' = Begun \cup {u}
    <3>1. 1..(fn + 1) = 1..fn \cup {fn + 1}
      BY <1>4
    <3> QED
      BY <1>1, <3>1 DEF Begun, u
  <2>4. PICK j \in 1..(Len(astQueue') + 1) : From(astQueue', j) = Begun \cup {u}
    <3>1. IsFiniteSet(Begun \cup {u}) /\ Cardinality(Begun \cup {u}) <= maxSize
      BY <1>1, <1>4, <1>12, FitsFacts DEF u
    <3> QED
      BY <1>7, <2>1, <3>1
  <2>5. Begun \subseteq ToSet(astQueue')
    <3>1. \A i \in j..Len(astQueue') : i \in DOMAIN astQueue'
      BY <1>7, SequenceFacts
    <3> QED
      BY <2>4, <3>1 DEF From, ToSet
  <2>6. gone = {}
    BY <1>1, <2>2, <2>5 DEF gone
  <2>7. freed = {} /\ DOMAIN kept = DOMAIN borrowedRefVars
    BY <1>9, <2>2, <2>6 DEF freed
  <2>8. borrowedRefVars' = kept /\ dangling' = {}
    BY <1>2, <2>2, <2>7
  <2>9. \A s, v : BorrowedAt(s, v)' <=> BorrowedAt(s, v)
    BY <1>1 DEF BorrowedAt
  <2>10. LeftoversHarmless'
    <3>1. fault' = "none" /\ dangling' = {} /\ \A w \in reports' : BorrowedAt(w.site, w.var)
      BY <1>1, <2>2, <2>8
    <3> QED
      BY <1>1, <3>1 DEF LeftoversHarmless, BorrowedAt
  <2>11. \A v \in DOMAIN borrowedRefVars' :
           Home[v] \in Begun' /\ BorrowedAt(borrowedRefVars[v], v)'
    BY <1>1, <1>9, <2>2, <2>3, <2>7, <2>8 DEF BorrowedAt
  <2> QED
    BY <2>3, <2>4, <2>10, <2>11
<1>13. Fits' <=> Fits
  BY <1>1 DEF Fits
<1> QED
  BY <1>1, <1>7, <1>11, <1>12, <1>13 DEF MapInv

\* The queue of the ASTManager ends in the units of the functions examined so far, if all
\* of them fit into memory, and what is in the map was borrowed where the map says.
THEOREM MapInvariant == BorrowSpec => []MapInv
<1>1. MapInv /\ [BorrowNext]_borrowVars => MapInv'
  <2> SUFFICES ASSUME MapInv, [BorrowNext]_borrowVars PROVE MapInv'
    OBVIOUS
  <2>1. CASE UNCHANGED borrowVars
    <3>1. /\ UNCHANGED <<program, fn, astQueue, dangling, borrowedRefVars, reports, fault>>
          /\ UNCHANGED iter /\ UNCHANGED walk
      BY <2>1 DEF borrowVars, others
    <3>2. BorrowTypeOK'
      BY <3>1 DEF MapInv, BorrowTypeOK, walk, WalkTypeOK
    <3> QED
      BY <3>1, <3>2, MapStays, MapFacts
  <2>2. CASE BorrowNext
    BY <2>2, NextFunctionMap, WalkOnMap, ReleaseMap, BorrowMap, UseMap DEF BorrowNext
  <2> QED
    BY <2>1, <2>2
<1> QED
  BY <1>1, InitMap, PTL DEF BorrowSpec

\* What the functions before have left in the map does no harm as long as the units of the
\* program fit into memory, in whatever order its functions come and however often the
\* ASTManager is asked for each of them: no freed variable is asked for its name, and
\* whatever is reported was borrowed by the statement it is reported with.
THEOREM MapAlwaysSound == BorrowSpec => []MapSound
<1>1. MapInv => MapSound
  <2> SUFFICES ASSUME MapInv PROVE MapSound
    OBVIOUS
  <2>1. Fits => LeftoversHarmless
    BY DEF MapInv
  <2> QED
    BY <2>1 DEF MapInv, MapSound, LeftoversHarmless
<1> QED
  BY <1>1, MapInvariant, PTL

=============================================================================
