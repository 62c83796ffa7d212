--------------------- MODULE NonRecursiveCallGraphProofs ----------------------
(***************************************************************************)
(* The walk of NonRecursiveCallGraph leaves no ring below the top-level    *)
(* functions, whatever the call graph, and loses nothing below them.  So   *)
(* getReachablePath ends there and finds every chain of calls.             *)
(***************************************************************************)
EXTENDS NonRecursiveCallGraph, SequenceLemmas

\* The first n entries.
LEMMA TakeFacts ==
  ASSUME NEW S, NEW s \in Seq(S), NEW n \in 0..Len(s)
  PROVE  /\ SubSeq(s, 1, n) \in Seq(S) /\ Len(SubSeq(s, 1, n)) = n
         /\ \A j \in 1..n : SubSeq(s, 1, n)[j] = s[j]
OBVIOUS

\* A stack without its last frame, and that frame.
LEMMA StackFront ==
  ASSUME NEW S, NEW s \in Seq(S), s # <<>>
  PROVE  /\ Len(s) \in Nat \ {0} /\ Last(s) \in S /\ Last(s) = s[Len(s)]
         /\ Front(s) \in Seq(S) /\ Len(Front(s)) = Len(s) - 1
         /\ \A j \in 1..(Len(s) - 1) : Front(s)[j] = s[j]
<1>1. Len(s) \in Nat \ {0} /\ s[Len(s)] \in S
  OBVIOUS
<1>2. 1 \in 1..Len(s) /\ Len(s) - 1 \in 0..Len(s) /\ Len(s) - 1 \in Nat
  BY <1>1
<1>3. SubSeq(s, 1, Len(s) - 1) \in Seq(S) /\ Len(SubSeq(s, 1, Len(s) - 1)) = Len(s) - 1
  BY <1>2, TakeFacts
<1>4. \A j \in 1..(Len(s) - 1) : SubSeq(s, 1, Len(s) - 1)[j] = s[j]
  BY <1>2, TakeFacts
<1> QED
  BY <1>1, <1>3, <1>4 DEF Last, Front

\* A stack whose last frame is replaced.
LEMMA ReplaceFacts ==
  ASSUME NEW S, NEW s \in Seq(S), s # <<>>, NEW u \in S
  PROVE  LET t == Append(Front(s), u)
         IN  /\ t \in Seq(S) /\ Len(t) = Len(s) /\ t # <<>>
             /\ \A j \in 1..(Len(s) - 1) : t[j] = s[j]
             /\ t[Len(s)] = u
<1> DEFINE r == Front(s)
<1>1. /\ Len(s) \in Nat \ {0} /\ r \in Seq(S) /\ Len(r) = Len(s) - 1
      /\ \A j \in 1..(Len(s) - 1) : r[j] = s[j]
  BY StackFront
<1> HIDE DEF r
<1>2. /\ Append(r, u) \in Seq(S) /\ Len(Append(r, u)) = Len(s)
      /\ Append(r, u)[Len(s)] = u
      /\ \A j \in 1..(Len(s) - 1) : Append(r, u)[j] = r[j]
  BY <1>1
<1>3. Append(r, u) # <<>>
  BY <1>1, <1>2
<1> QED
  BY <1>1, <1>2, <1>3 DEF r

\* Dropping calls keeps a closed set closed and a ring-free set free of rings.
LEMMA FewerCalls ==
  ASSUME NEW R \in SUBSET Function, NEW calls, NEW fewer,
         \A F \in Function : fewer[F] \subseteq calls[F]
  PROVE  /\ ClosedUnder(R, calls) => ClosedUnder(R, fewer)
         /\ RingFree(R, calls) => RingFree(R, fewer)
<1>1. ClosedUnder(R, calls) => ClosedUnder(R, fewer)
  BY DEF ClosedUnder
<1>2. ASSUME RingFree(R, calls), NEW S \in SUBSET R, S # {} PROVE HasBottom(S, fewer)
  <2>1. PICK F \in S : calls[F] \cap S = {}
    BY <1>2 DEF RingFree, HasBottom
  <2> QED
    BY <2>1 DEF HasBottom
<1> QED
  BY <1>1, <1>2 DEF RingFree

\* A function that calls only members of a closed ring-free set, and not itself, may
\* join the set: a ring through it would have to be closed from inside the set.
LEMMA JoinFinished ==
  ASSUME NEW R \in SUBSET Function, NEW calls, NEW F \in Function, calls[F] \subseteq R,
         ClosedUnder(R, calls), RingFree(R, calls)
  PROVE  ClosedUnder(R \cup {F}, calls) /\ RingFree(R \cup {F}, calls)
<1>1. ClosedUnder(R \cup {F}, calls)
  BY DEF ClosedUnder
<1>2. ASSUME NEW S \in SUBSET (R \cup {F}), S # {} PROVE HasBottom(S, calls)
  <2>1. CASE F \in R
    BY <1>2, <2>1 DEF RingFree
  <2>2. CASE F \notin R /\ S \cap R = {}
    BY <1>2, <2>2 DEF HasBottom
  <2>3. CASE F \notin R /\ S \cap R # {}
    <3>1. PICK G \in S \cap R : calls[G] \cap (S \cap R) = {}
      <4>1. S \cap R \in SUBSET R
        OBVIOUS
      <4> QED
        BY <2>3, <4>1 DEF RingFree, HasBottom
    <3>2. calls[G] \subseteq R
      BY <3>1 DEF ClosedUnder
    <3>3. calls[G] \cap S = {}
      BY <3>1, <3>2
    <3> QED
      BY <3>1, <3>3 DEF HasBottom
  <2> QED
    BY <2>1, <2>2, <2>3
<1> QED
  BY <1>1, <1>2 DEF RingFree

\* What stays unmarked when more edges are marked.
LEMMA KeptShrinks ==
  ASSUME TypeOK, UNCHANGED children, removeEdges \subseteq removeEdges'
  PROVE  \A F \in Function : Kept'[F] \subseteq Kept[F]
BY DEF Kept, TypeOK

-----------------------------------------------------------------------------
(* Every step keeps WalkInv.                                               *)

LEMMA InitWalkInv == Init => WalkInv
<1> SUFFICES ASSUME Init PROVE WalkInv
  OBVIOUS
<1>1. cg \in CallGraph /\ BothEndsHaveNodes(cg)
  BY CallGraphAssumption DEF Init
<1>2. TypeOK
  BY <1>1 DEF Init, TypeOK, CallGraph
<1>3. ClosedUnder(finished, Kept) /\ RingFree(finished, Kept)
  BY DEF Init, ClosedUnder, RingFree
<1> QED
  BY <1>2, <1>3 DEF Init, WalkInv

LEMMA CopyKeeps ==
  ASSUME WalkInv, Copy
  PROVE  WalkInv'
<1>1. cg \in CallGraph /\ BothEndsHaveNodes(cg) /\ UNCHANGED <<cg, walk>>
  BY DEF WalkInv, TypeOK, Copy
<1>2. Copied \subseteq Function /\ cg.node \subseteq Copied
  BY <1>1 DEF Copied, CallGraph
<1>3. ASSUME NEW F \in Function
      PROVE  /\ cg.child[F] \subseteq Copied
             /\ \A P \in Function : F \in cg.child[P] => P \in Copied
  BY <1>1, <1>2 DEF BothEndsHaveNodes
<1>4. children' \in [Function -> SUBSET nodes'] /\ parents' \in [Function -> SUBSET nodes']
      /\ nodes' \subseteq Function
  BY <1>2, <1>3 DEF Copy
<1>5. TypeOK'
  BY <1>1, <1>4 DEF WalkInv, TypeOK, Copy, walk
<1>6. stack' = <<>> /\ finished' = {} /\ phase' = "walk"
  BY DEF WalkInv, Copy, walk
<1>7. ClosedUnder(finished, Kept)' /\ RingFree(finished, Kept)'
  BY <1>6 DEF ClosedUnder, RingFree
<1>8. \A F \in Function : colors'[F] = 2 => F \in finished'
  BY <1>1 DEF WalkInv, walk
<1>9. \A j \in 1..started' : fault' = "none" => cg'.top[j] \in finished'
  BY <1>1 DEF WalkInv, walk, Copy
<1> QED
  BY <1>5, <1>6, <1>7, <1>8, <1>9 DEF WalkInv

LEMMA StartKeeps ==
  ASSUME WalkInv, Start
  PROVE  WalkInv'
<1> DEFINE F == cg.top[started + 1]
<1>1. /\ TypeOK /\ phase = "walk" /\ stack = <<>> /\ started \in Nat /\ started + 1 \in 1..Len(cg.top)
      /\ started' = started + 1 /\ UNCHANGED <<cg, phase, graph, removeEdges, finished>>
      /\ Enter(F, <<>>)
  BY DEF Start, Walking, WalkInv, TypeOK, CallGraph
<1>2. F \in Function
  BY <1>1 DEF TypeOK, CallGraph
<1> HIDE DEF F
<1>3. CASE F \in nodes
  <2> DEFINE frame == [fn |-> F, todo |-> children[F]]
  <2>1. stack' = Append(<<>>, frame) /\ UNCHANGED fault /\ colors' = [colors EXCEPT ![F] = 1]
    BY <1>1, <1>3 DEF Enter
  <2>2. frame \in Frame /\ frame.fn = F /\ frame.todo = children[F]
    BY <1>1, <1>2 DEF TypeOK, Frame
  <2> HIDE DEF frame
  <2>3. stack' \in Seq(Frame) /\ Len(stack') = 1 /\ stack'[1] = frame /\ stack' # <<>>
        /\ DOMAIN stack' = {1}
    BY <2>1, <2>2
  <2>4. TypeOK'
    BY <1>1, <1>2, <2>1, <2>3 DEF TypeOK, graph
  <2>5. Kept' = Kept
    BY <1>1 DEF Kept, graph
  <2>6. \A k \in DOMAIN stack' : FrameInv(k)'
    BY <1>1, <1>2, <2>2, <2>3, <2>5 DEF FrameInv, Kept
  <2>7. ASSUME NEW j \in 1..started', fault = "none" PROVE cg.top[j] \in finished \/ F = cg.top[j]
    <3>1. j \in 1..started \/ j = started + 1
      BY <1>1
    <3> QED
      BY <1>1, <2>7, <3>1 DEF WalkInv, F
  <2> QED
    BY <1>1, <2>1, <2>2, <2>3, <2>4, <2>5, <2>6, <2>7 DEF WalkInv, TypeOK, graph
<1>4. CASE F \notin nodes
  <2>1. stack' = <<>> /\ fault' = "out_of_range" /\ colors' = [colors EXCEPT ![F] = 1]
    BY <1>1, <1>4 DEF Enter
  <2>2. TypeOK'
    BY <1>1, <1>2, <2>1 DEF TypeOK, graph
  <2>3. Kept' = Kept
    BY <1>1 DEF Kept, graph
  <2> QED
    BY <1>1, <2>1, <2>2, <2>3 DEF WalkInv, TypeOK
<1> QED
  BY <1>3, <1>4

LEMMA EndWalkKeeps ==
  ASSUME WalkInv, EndWalk
  PROVE  WalkInv'
<1>1. /\ UNCHANGED <<cg, graph, walk>> /\ phase' = "prune" /\ stack = <<>> /\ fault = "none"
      /\ started = Len(cg.top)
  BY DEF EndWalk, Walking
<1>2. Kept' = Kept
  BY <1>1 DEF Kept, graph, walk
<1>3. TypeOK'
  BY <1>1 DEF WalkInv, TypeOK, graph, walk
<1> QED
  BY <1>1, <1>2, <1>3 DEF WalkInv, walk

LEMMA PruneKeeps ==
  ASSUME WalkInv, Prune
  PROVE  WalkInv'
<1>1. UNCHANGED <<cg, nodes, walk>> /\ phase = "prune" /\ phase' = "ready"
      /\ stack = <<>> /\ started = Len(cg.top) /\ fault = "none"
  BY DEF Prune, WalkInv
<1>2. children' = Kept /\ children' \in [Function -> SUBSET nodes]
      /\ parents' \in [Function -> SUBSET nodes]
  BY DEF Prune, Kept, WalkInv, TypeOK
<1>3. Kept' = Kept
  BY <1>1, <1>2 DEF Kept, walk
<1>4. TypeOK'
  BY <1>1, <1>2 DEF WalkInv, TypeOK, walk
<1> QED
  BY <1>1, <1>2, <1>3, <1>4 DEF WalkInv, walk

\* More marks and the same finished functions: the last two conjuncts of WalkInv hold on.
LEMMA MarksKeep ==
  ASSUME WalkInv, UNCHANGED <<children, finished>>, removeEdges \subseteq removeEdges'
  PROVE  /\ \A F \in Function : Kept'[F] \subseteq Kept[F]
         /\ ClosedUnder(finished, Kept)' /\ RingFree(finished, Kept)'
<1>1. \A F \in Function : Kept'[F] \subseteq Kept[F]
  BY KeptShrinks DEF WalkInv
<1>2. finished \in SUBSET Function
  BY DEF WalkInv, TypeOK
<1>3. ClosedUnder(finished, Kept') /\ RingFree(finished, Kept')
  BY <1>1, <1>2, FewerCalls DEF WalkInv
<1> QED
  BY <1>1, <1>3 DEF ClosedUnder, RingFree, HasBottom

\* The walk goes down to a function that it has not met.
LEMMA VisitNewKeeps ==
  ASSUME WalkInv, NEW CF \in Function, Visit(CF), colors[CF] = 0
  PROVE  WalkInv'
<1> DEFINE m == Len(stack)
           F == Last(stack).fn
           rest == Rest(Last(stack), CF)
           below == Append(Front(stack), rest)
<1>1. /\ TypeOK /\ phase = "walk" /\ fault = "none" /\ stack # <<>> /\ stack \in Seq(Frame)
      /\ CF \in Last(stack).todo
      /\ Enter(CF, below) /\ UNCHANGED <<cg, phase, graph, started, finished, removeEdges>>
  BY DEF Visit, Walking, WalkInv, TypeOK
<1>2. m \in Nat \ {0} /\ Last(stack) = stack[m] /\ Last(stack) \in Frame
  BY <1>1, StackFront
<1>3. rest \in Frame /\ rest.fn = F /\ rest.todo = stack[m].todo \ {CF} /\ F \in Function
  BY <1>2 DEF Rest, Frame
<1>4. /\ below \in Seq(Frame) /\ Len(below) = m /\ below # <<>> /\ below[m] = rest
      /\ \A j \in 1..(m - 1) : below[j] = stack[j]
  BY <1>1, <1>3, ReplaceFacts
<1> HIDE DEF rest, below, m, F
<1>5. /\ \A G \in Function : Kept'[G] \subseteq Kept[G]
      /\ ClosedUnder(finished, Kept)' /\ RingFree(finished, Kept)' /\ Kept' = Kept
  BY <1>1, MarksKeep DEF graph, Kept
<1>6. colors' = [colors EXCEPT ![CF] = 1]
  BY <1>1 DEF Enter
<1>7. \A G \in Function : colors'[G] = 2 => G \in finished'
  BY <1>1, <1>6 DEF WalkInv, TypeOK
<1>8. CASE CF \in nodes
  <2> DEFINE frame == [fn |-> CF, todo |-> children[CF]]
  <2>1. stack' = Append(below, frame) /\ UNCHANGED fault
    BY <1>1, <1>8 DEF Enter
  <2>2. frame \in Frame /\ frame.fn = CF /\ frame.todo = children[CF]
    BY <1>1 DEF TypeOK, Frame
  <2> HIDE DEF frame
  <2>3. /\ stack' \in Seq(Frame) /\ Len(stack') = m + 1 /\ stack' # <<>> /\ stack'[m + 1] = frame
        /\ \A j \in 1..m : stack'[j] = below[j]
    BY <2>1, <2>2, <1>2, <1>4
  <2>4. TypeOK'
    BY <1>1, <1>6, <2>1, <2>3 DEF TypeOK, graph
  <2>5. ASSUME NEW k \in DOMAIN stack' PROVE FrameInv(k)'
    <3>1. k \in 1..(m + 1)
      BY <2>3
    <3>2. CASE k = m + 1
      BY <3>2, <1>1, <1>5, <2>2, <2>3 DEF FrameInv, Kept, graph
    <3>3. CASE k = m
      <4>1. stack'[k].fn = F /\ stack'[k].todo = stack[m].todo \ {CF} /\ stack'[k + 1].fn = CF
        BY <3>3, <1>2, <1>3, <1>4, <2>2, <2>3
      <4>2. Kept[F] \ stack[m].todo \subseteq finished
        BY <1>1, <1>2 DEF WalkInv, FrameInv, F, m
      <4>3. k # Len(stack')
        BY <3>3, <1>2, <2>3
      <4> QED
        BY <4>1, <4>2, <4>3, <1>1, <1>5 DEF FrameInv
    <3>4. CASE k \in 1..(m - 1)
      <4>1. stack'[k] = stack[k] /\ k + 1 \in 1..m /\ k # Len(stack') /\ k # Len(stack) /\ k \in DOMAIN stack
        BY <3>4, <1>1, <1>2, <1>4, <2>3 DEF m
      <4>2. stack'[k + 1].fn = stack[k + 1].fn
        <5>1. CASE k + 1 = m
          BY <5>1, <4>1, <1>2, <1>3, <1>4, <2>3 DEF F
        <5>2. CASE k + 1 # m
          BY <5>2, <3>4, <4>1, <1>2, <1>4, <2>3
        <5> QED
          BY <5>1, <5>2
      <4>3. FrameInv(k)
        BY <1>1, <4>1 DEF WalkInv
      <4> QED
        BY <4>1, <4>2, <4>3, <1>1, <1>5 DEF FrameInv
    <3> QED
      BY <3>1, <3>2, <3>3, <3>4, <1>2
  <2>6. stack'[1].fn = stack[1].fn
    <3>1. CASE m = 1
      BY <3>1, <1>2, <1>3, <1>4, <2>3 DEF F
    <3>2. CASE m # 1
      BY <3>2, <1>2, <1>4, <2>3
    <3> QED
      BY <3>1, <3>2
  <2> QED
    BY <1>1, <1>5, <1>7, <2>1, <2>3, <2>4, <2>5, <2>6 DEF WalkInv
<1>9. CASE CF \notin nodes
  <2>1. stack' = below /\ fault' = "out_of_range"
    BY <1>1, <1>9 DEF Enter
  <2>2. TypeOK'
    BY <1>1, <1>4, <1>6, <2>1 DEF TypeOK, graph
  <2> QED
    BY <1>1, <1>5, <1>7, <2>1, <2>2 DEF WalkInv
<1> QED
  BY <1>8, <1>9

\* The walk meets a function again: the call is marked if it closes a ring.
LEMMA VisitSeenKeeps ==
  ASSUME WalkInv, NEW CF \in Function, Visit(CF), colors[CF] # 0
  PROVE  WalkInv'
<1> DEFINE m == Len(stack)
           F == Last(stack).fn
           rest == Rest(Last(stack), CF)
           below == Append(Front(stack), rest)
<1>1. /\ TypeOK /\ phase = "walk" /\ fault = "none" /\ stack # <<>> /\ stack \in Seq(Frame)
      /\ CF \in Last(stack).todo /\ stack' = below
      /\ removeEdges' = removeEdges \cup Marked(F, CF, colors)
      /\ UNCHANGED <<cg, phase, graph, started, finished, colors, fault>>
  BY DEF Visit, Walking, WalkInv, TypeOK
<1>2. m \in Nat \ {0} /\ Last(stack) = stack[m] /\ Last(stack) \in Frame
  BY <1>1, StackFront
<1>3. rest \in Frame /\ rest.fn = F /\ rest.todo = stack[m].todo \ {CF} /\ F \in Function
  BY <1>2 DEF Rest, Frame
<1>4. /\ below \in Seq(Frame) /\ Len(below) = m /\ below # <<>> /\ below[m] = rest
      /\ \A j \in 1..(m - 1) : below[j] = stack[j]
  BY <1>1, <1>3, ReplaceFacts
<1> HIDE DEF rest, below, m, F
<1>5. /\ \A G \in Function : Kept'[G] \subseteq Kept[G]
      /\ ClosedUnder(finished, Kept)' /\ RingFree(finished, Kept)'
  BY <1>1, MarksKeep DEF graph
<1>6. TypeOK'
  <2>1. removeEdges' \subseteq Function \X Function
    BY <1>1, <1>3 DEF Marked, TypeOK
  <2> QED
    BY <1>1, <1>4, <2>1 DEF TypeOK, graph
<1>7. CF \in finished \/ CF \notin Kept'[F]
  <2>1. CASE colors[CF] = 1
    BY <2>1, <1>1, <1>3 DEF Marked, Kept
  <2>2. CASE colors[CF] = 2
    BY <2>2 DEF WalkInv
  <2> QED
    BY <2>1, <2>2, <1>1 DEF TypeOK
<1>8. ASSUME NEW k \in DOMAIN stack' PROVE FrameInv(k)'
  <2>1. k \in 1..m /\ Len(stack') = m
    BY <1>1, <1>4
  <2>2. CASE k = m
    <3>1. Kept[F] \ stack[m].todo \subseteq finished
      BY <1>1, <1>2 DEF WalkInv, FrameInv, F, m
    <3>2. stack'[k].fn = F /\ stack'[k].todo = stack[m].todo \ {CF}
      BY <2>2, <1>1, <1>3, <1>4
    <3>3. Kept'[F] \ stack'[k].todo \subseteq finished
      BY <3>1, <3>2, <1>3, <1>5, <1>7
    <3> QED
      BY <2>1, <2>2, <3>2, <3>3, <1>1 DEF FrameInv
  <2>3. CASE k \in 1..(m - 1)
    <3>1. stack'[k] = stack[k] /\ k + 1 \in 1..m /\ k # m /\ k \in DOMAIN stack
      BY <2>3, <1>1, <1>2, <1>4 DEF m
    <3>2. stack'[k + 1].fn = stack[k + 1].fn
      <4>1. CASE k + 1 = m
        BY <4>1, <1>1, <1>2, <1>3, <1>4 DEF F
      <4>2. CASE k + 1 # m
        BY <4>2, <2>3, <3>1, <1>1, <1>2, <1>4
      <4> QED
        BY <4>1, <4>2
    <3>3. FrameInv(k)
      BY <1>1, <3>1 DEF WalkInv
    <3>4. stack[k].fn \in Function
      <4>1. stack[k] \in Frame
        BY <1>1, <3>1
      <4> QED
        BY <4>1 DEF Frame
    <3> QED
      BY <2>1, <3>1, <3>2, <3>3, <3>4, <1>1, <1>5 DEF FrameInv, m
  <2> QED
    BY <2>1, <2>2, <2>3, <1>2
<1>9. stack'[1].fn = stack[1].fn
  <2>1. CASE m = 1
    BY <2>1, <1>1, <1>2, <1>3, <1>4 DEF F
  <2>2. CASE m # 1
    BY <2>2, <1>1, <1>2, <1>4
  <2> QED
    BY <2>1, <2>2
<1> QED
  BY <1>1, <1>4, <1>5, <1>6, <1>8, <1>9 DEF WalkInv

\* spanningTree returns: its function joins the finished ones.
LEMMA FinishKeeps ==
  ASSUME WalkInv, Finish
  PROVE  WalkInv'
<1> DEFINE m == Len(stack)
           F == Last(stack).fn
<1>1. /\ TypeOK /\ phase = "walk" /\ fault = "none" /\ stack # <<>> /\ stack \in Seq(Frame)
      /\ Last(stack).todo = {} /\ stack' = Front(stack)
      /\ colors' = [colors EXCEPT ![F] = 2] /\ finished' = finished \cup {F}
      /\ UNCHANGED <<cg, phase, graph, started, fault>>
  BY DEF Finish, Walking, WalkInv, TypeOK
<1>2. /\ m \in Nat \ {0} /\ Last(stack) = stack[m] /\ F \in Function
      /\ stack' \in Seq(Frame) /\ Len(stack') = m - 1
      /\ \A j \in 1..(m - 1) : stack'[j] = stack[j]
  <2>1. /\ Len(stack) \in Nat \ {0} /\ Last(stack) \in Frame /\ Last(stack) = stack[Len(stack)]
        /\ Front(stack) \in Seq(Frame) /\ Len(Front(stack)) = Len(stack) - 1
        /\ \A j \in 1..(Len(stack) - 1) : Front(stack)[j] = stack[j]
    BY <1>1, StackFront
  <2>2. Last(stack).fn \in Function
    BY <2>1 DEF Frame
  <2> QED
    BY <1>1, <2>1, <2>2
<1>3. /\ removeEdges \subseteq removeEdges'
      /\ m > 1 => removeEdges' = removeEdges \cup Marked(stack[m - 1].fn, F, colors')
      /\ m = 1 => removeEdges' = removeEdges
  <2>1. m > 1 => Last(Front(stack)) = stack[m - 1]
    BY <1>1, <1>2 DEF Last
  <2>2. removeEdges' = IF m > 1 THEN removeEdges \cup Marked(Last(Front(stack)).fn, F, colors')
                       ELSE removeEdges
    BY DEF Finish
  <2> QED
    BY <2>1, <2>2, <1>2 DEF Marked
<1> HIDE DEF m, F
<1>4. TypeOK'
  <2>1. removeEdges' \subseteq Function \X Function
    <3>1. CASE m > 1
      <4>1. stack[m - 1] \in Frame
        BY <3>1, <1>1, <1>2 DEF m
      <4> QED
        BY <3>1, <4>1, <1>1, <1>2, <1>3 DEF Marked, TypeOK, Frame
    <3>2. CASE m = 1
      BY <3>2, <1>1, <1>3 DEF TypeOK
    <3> QED
      BY <3>1, <3>2, <1>2
  <2> QED
    BY <1>1, <1>2, <2>1 DEF TypeOK, graph
<1>5. \A G \in Function : Kept'[G] \subseteq Kept[G]
  BY <1>1, <1>3, KeptShrinks DEF graph
<1>6. Kept[F] \subseteq finished
  BY <1>1, <1>2 DEF WalkInv, FrameInv, m, F
<1>7. ClosedUnder(finished, Kept)' /\ RingFree(finished, Kept)'
  <2>1. finished \in SUBSET Function /\ finished' \in SUBSET Function
    BY <1>1, <1>4 DEF TypeOK
  <2>2. ClosedUnder(finished \cup {F}, Kept) /\ RingFree(finished \cup {F}, Kept)
    BY <1>2, <1>6, <2>1, JoinFinished DEF WalkInv
  <2>3. ClosedUnder(finished', Kept') /\ RingFree(finished', Kept')
    BY <1>1, <1>5, <2>1, <2>2, FewerCalls
  <2> QED
    BY <2>3 DEF ClosedUnder, RingFree, HasBottom
<1>8. \A G \in Function : colors'[G] = 2 => G \in finished'
  BY <1>1 DEF WalkInv, TypeOK
<1>9. ASSUME NEW k \in DOMAIN stack' PROVE FrameInv(k)'
  <2>1. k \in 1..(m - 1) /\ k \in 1..m /\ k # m /\ k \in DOMAIN stack /\ k + 1 \in 1..m
    BY <1>1, <1>2 DEF m
  <2>2. stack'[k] = stack[k] /\ stack[k].fn \in Function
    <3>1. stack'[k] = stack[k] /\ stack[k] \in Frame
      BY <1>1, <1>2, <2>1
    <3> QED
      BY <3>1 DEF Frame
  <2>3. Kept[stack[k].fn] \ stack[k].todo \subseteq finished \cup {stack[k + 1].fn}
    BY <1>1, <2>1 DEF WalkInv, FrameInv, m
  <2>4. CASE k = m - 1
    <3>1. stack[k + 1].fn = F /\ k = Len(stack')
      BY <2>4, <1>2 DEF F
    <3> QED
      BY <3>1, <2>2, <2>3, <1>1, <1>5 DEF FrameInv
  <2>5. CASE k # m - 1
    <3>1. k + 1 \in 1..(m - 1) /\ k # Len(stack')
      BY <2>1, <2>5, <1>2
    <3>2. stack'[k + 1] = stack[k + 1]
      BY <3>1, <1>2
    <3> QED
      BY <3>1, <3>2, <2>2, <2>3, <1>1, <1>5 DEF FrameInv
  <2> QED
    BY <2>4, <2>5
<1>10. ASSUME NEW j \in 1..started
       PROVE  cg.top[j] \in finished' \/ (stack' # <<>> /\ stack'[1].fn = cg.top[j])
  <2>1. cg.top[j] \in finished \/ stack[1].fn = cg.top[j]
    BY <1>1 DEF WalkInv
  <2>2. CASE m = 1
    BY <2>1, <2>2, <1>1, <1>2 DEF F
  <2>3. CASE m # 1
    BY <2>1, <2>3, <1>1, <1>2
  <2> QED
    BY <2>2, <2>3
<1> QED
  BY <1>1, <1>4, <1>7, <1>8, <1>9, <1>10 DEF WalkInv

\* Everything the walk has met, all rings but those it has marked excepted, is free of
\* rings and closed under the calls that are left.
THEOREM WalkInvariant == Spec => []WalkInv
<1>1. WalkInv /\ [Next]_vars => WalkInv'
  <2> SUFFICES ASSUME WalkInv, [Next]_vars PROVE WalkInv'
    OBVIOUS
  <2>1. CASE \E CF \in Function : Visit(CF)
    BY <2>1, VisitNewKeeps, VisitSeenKeeps
  <2>2. CASE UNCHANGED vars
    <3>1. Kept' = Kept /\ TypeOK'
      BY <2>2 DEF WalkInv, TypeOK, Kept, vars, graph, walk
    <3>2. ClosedUnder(finished, Kept)' /\ RingFree(finished, Kept)'
      BY <2>2, MarksKeep DEF vars, graph, walk
    <3> QED
      BY <2>2, <3>1, <3>2 DEF WalkInv, FrameInv, vars, graph, walk
  <2> QED
    BY <2>1, <2>2, CopyKeeps, StartKeeps, FinishKeeps, EndWalkKeeps, PruneKeeps DEF Next
<1> QED
  BY <1>1, InitWalkInv, PTL DEF Spec

\* The members of the class hold functions of the graph.
THEOREM TypeCorrect == Spec => []TypeOK
<1>1. WalkInv => TypeOK
  BY DEF WalkInv
<1> QED
  BY <1>1, WalkInvariant, PTL

\* In the finished graph no ring can be reached from a top-level function.
THEOREM NoRing == Spec => []NoRingBelowTop
<1>1. WalkInv => NoRingBelowTop
  <2> SUFFICES ASSUME WalkInv, phase = "ready"
               PROVE  RingFree(ReachedFrom(Top, children), children)
    BY DEF NoRingBelowTop
  <2>1. /\ finished \in SUBSET Function /\ stack = <<>> /\ fault = "none"
        /\ ClosedUnder(finished, children) /\ RingFree(finished, children)
    BY DEF WalkInv, TypeOK
  <2>2. Top \subseteq finished
    <3>1. cg.top \in Seq(Function) /\ started = Len(cg.top)
      BY DEF WalkInv, TypeOK, CallGraph
    <3> QED
      BY <2>1, <3>1 DEF WalkInv, Top, ToSet
  <2>3. ReachedFrom(Top, children) \subseteq finished
    BY <2>1, <2>2 DEF ReachedFrom
  <2> QED
    BY <2>1, <2>3 DEF RingFree
<1> QED
  BY <1>1, WalkInvariant, PTL

\* Callers and callees describe the same calls in the copy and after the removal.
THEOREM Mirrored == Spec => []ParentsMirrorChildren
<1>1. Init => ParentsMirrorChildren
  BY DEF Init, ParentsMirrorChildren
<1>2. TypeOK /\ ParentsMirrorChildren /\ [Next]_vars => ParentsMirrorChildren'
  <2> SUFFICES ASSUME TypeOK, ParentsMirrorChildren, [Next]_vars,
                      NEW F \in Function, NEW P \in Function
               PROVE  P \in parents'[F] <=> F \in children'[P]
    BY DEF ParentsMirrorChildren
  <2>1. CASE Copy
    BY <2>1 DEF Copy
  <2>2. CASE Prune
    <3>1. /\ P \in parents'[F] <=> P \in parents[F] /\ <<P, F>> \notin removeEdges
          /\ F \in children'[P] <=> F \in children[P] /\ <<P, F>> \notin removeEdges
      BY <2>2 DEF Prune
    <3> QED
      BY <3>1 DEF ParentsMirrorChildren
  <2>3. CASE UNCHANGED graph
    BY <2>3 DEF ParentsMirrorChildren, graph
  <2> QED
    BY <2>1, <2>2, <2>3 DEF Next, Start, Visit, Finish, EndWalk, vars
<1> QED
  BY <1>1, <1>2, TypeCorrect, PTL DEF Spec

\* What the walk still has to visit has a node: only Start can meet a function without.
TodoInNodes ==
  /\ phase # "copy" => cg.node \subseteq nodes
  /\ \A k \in DOMAIN stack : stack[k].todo \subseteq nodes

\* nodes.at throws for a top-level function without a node in the call graph, never in
\* the midst of the recursion.
THEOREM ThrowOnlyAtTop == Spec => []ThrowExplained
<1> DEFINE Inv == TodoInNodes /\ ThrowExplained
<1>1. Init => Inv
  BY DEF Init, TodoInNodes, ThrowExplained
<1>2. TypeOK /\ (phase # "walk" => stack = <<>>) /\ Inv /\ [Next]_vars => Inv'
  <2> SUFFICES ASSUME TypeOK, phase # "walk" => stack = <<>>, TodoInNodes, ThrowExplained,
                      [Next]_vars
               PROVE  TodoInNodes' /\ ThrowExplained'
    OBVIOUS
  <2>1. CASE Copy
    <3>1. cg.node \subseteq nodes' /\ stack' = <<>> /\ UNCHANGED <<cg, fault>>
      BY <2>1 DEF Copy, Copied, walk
    <3> QED
      BY <3>1 DEF TodoInNodes, ThrowExplained, Top
  <2>2. CASE Start
    <3> DEFINE F == cg.top[started + 1]
    <3>1. /\ phase = "walk" /\ UNCHANGED <<cg, phase, nodes, children>> /\ Enter(F, <<>>)
          /\ fault = "none" /\ cg.top \in Seq(Function)
          /\ started \in Nat /\ started + 1 \in 1..Len(cg.top)
      BY <2>2 DEF Start, Walking, TypeOK, CallGraph, graph
    <3>2. F \in Top /\ F \in Function
      BY <3>1 DEF Top, ToSet
    <3> HIDE DEF F
    <3>3. CASE F \in nodes
      <4>1. stack' = Append(<<>>, [fn |-> F, todo |-> children[F]]) /\ fault' = fault
        BY <3>1, <3>3 DEF Enter
      <4>2. children[F] \subseteq nodes
        BY <3>2 DEF TypeOK
      <4>3. \A k \in DOMAIN stack' : stack'[k].todo = children[F]
        BY <4>1
      <4> QED
        BY <3>1, <4>1, <4>2, <4>3 DEF TodoInNodes, ThrowExplained
    <3>4. CASE F \notin nodes
      <4>1. stack' = <<>> /\ F \notin cg'.node /\ F \in Top'
        BY <3>1, <3>2, <3>4 DEF Enter, TodoInNodes, Top
      <4> QED
        BY <3>1, <4>1 DEF TodoInNodes, ThrowExplained
    <3> QED
      BY <3>3, <3>4
  <2>3. ASSUME NEW CF \in Function, Visit(CF) PROVE TodoInNodes' /\ ThrowExplained'
    <3> DEFINE rest == Rest(Last(stack), CF)
               below == Append(Front(stack), rest)
    <3>1. /\ stack # <<>> /\ stack \in Seq(Frame) /\ CF \in Last(stack).todo
          /\ UNCHANGED <<cg, phase, nodes, children>> /\ fault = "none"
      BY <2>3 DEF Visit, Walking, TypeOK, graph
    <3>2. /\ Len(stack) \in Nat \ {0} /\ Last(stack) = stack[Len(stack)] /\ Last(stack) \in Frame
      BY <3>1, StackFront
    <3>3. rest \in Frame /\ rest.todo \subseteq Last(stack).todo
      BY <3>2 DEF Rest, Frame
    <3>4. /\ below \in Seq(Frame) /\ Len(below) = Len(stack) /\ below[Len(stack)] = rest
          /\ \A j \in 1..(Len(stack) - 1) : below[j] = stack[j]
      BY <3>1, <3>3, ReplaceFacts
    <3>5. Last(stack).todo \subseteq nodes
      BY <3>1, <3>2 DEF TodoInNodes
    <3>6. (colors[CF] = 0 /\ Enter(CF, below)) \/ (stack' = below /\ fault' = fault)
      BY <2>3 DEF Visit
    <3> HIDE DEF rest, below
    <3>7. \A k \in 1..Len(stack) : below[k].todo \subseteq nodes
      <4> TAKE k \in 1..Len(stack)
      <4>1. CASE k = Len(stack)
        BY <4>1, <3>3, <3>4, <3>5
      <4>2. CASE k # Len(stack)
        <5>1. k \in 1..(Len(stack) - 1) /\ k \in DOMAIN stack
          BY <4>2, <3>1, <3>2
        <5> QED
          BY <5>1, <3>4 DEF TodoInNodes
      <4> QED
        BY <4>1, <4>2
    <3>8. stack' = below \/ stack' = Append(below, [fn |-> CF, todo |-> children[CF]])
      BY <3>6 DEF Enter
    <3>9. fault' = fault
      BY <3>1, <3>5, <3>6 DEF Enter
    <3>10. children[CF] \subseteq nodes
      BY DEF TypeOK
    <3>11. \A k \in DOMAIN stack' : stack'[k].todo \subseteq nodes
      <4>1. CASE stack' = below
        BY <4>1, <3>2, <3>4, <3>7
      <4>2. CASE stack' = Append(below, [fn |-> CF, todo |-> children[CF]])
        <5> DEFINE frame == [fn |-> CF, todo |-> children[CF]]
        <5>1. frame.todo = children[CF]
          OBVIOUS
        <5> HIDE DEF frame
        <5>2. /\ Len(stack') = Len(below) + 1 /\ DOMAIN stack' = 1..(Len(below) + 1)
              /\ stack'[Len(below) + 1] = frame
              /\ \A k \in 1..Len(below) : stack'[k] = below[k]
          BY <4>2, <3>4 DEF frame
        <5>3. \A k \in 1..(Len(below) + 1) : k \in 1..Len(below) \/ k = Len(below) + 1
          BY <3>2, <3>4
        <5> QED
          BY <5>1, <5>2, <5>3, <3>4, <3>7, <3>10
      <4> QED
        BY <4>1, <4>2, <3>8
    <3> QED
      BY <3>1, <3>9, <3>11 DEF TodoInNodes, ThrowExplained, Top
  <2>4. CASE Finish
    <3>1. /\ stack # <<>> /\ stack \in Seq(Frame) /\ stack' = Front(stack)
          /\ UNCHANGED <<cg, phase, nodes, fault>>
      BY <2>4 DEF Finish, TypeOK, graph
    <3>2. /\ Len(stack) \in Nat \ {0} /\ stack' \in Seq(Frame) /\ Len(stack') = Len(stack) - 1
          /\ \A j \in 1..(Len(stack) - 1) : stack'[j] = stack[j]
      BY <3>1, StackFront
    <3>3. \A k \in DOMAIN stack' : k \in DOMAIN stack /\ stack'[k] = stack[k]
      BY <3>1, <3>2
    <3> QED
      BY <3>1, <3>3 DEF TodoInNodes, ThrowExplained, Top
  <2>5. CASE EndWalk
    <3>1. phase # "copy" /\ UNCHANGED <<cg, nodes, stack, fault>>
      BY <2>5 DEF EndWalk, Walking, graph, walk
    <3> QED
      BY <3>1 DEF TodoInNodes, ThrowExplained, Top
  <2>6. CASE Prune
    <3>1. phase # "copy" /\ UNCHANGED <<cg, nodes, stack, fault>>
      BY <2>6 DEF Prune, walk
    <3> QED
      BY <3>1 DEF TodoInNodes, ThrowExplained, Top
  <2>7. CASE UNCHANGED vars
    <3>1. UNCHANGED <<cg, phase, nodes, stack, fault>>
      BY <2>7 DEF vars, graph, walk
    <3> QED
      BY <3>1 DEF TodoInNodes, ThrowExplained, Top
  <2> QED
    BY <2>1, <2>2, <2>3, <2>4, <2>5, <2>6, <2>7 DEF Next
<1>3. WalkInv => TypeOK /\ (phase # "walk" => stack = <<>>)
  BY DEF WalkInv
<1>4. Inv => ThrowExplained
  OBVIOUS
<1> QED
  BY <1>1, <1>2, <1>3, <1>4, WalkInvariant, PTL DEF Spec

-----------------------------------------------------------------------------
(* Only calls that close a ring are marked.                                *)

\* The frames of s are a chain of calls, and what each still has to visit it calls.
Chain(s) ==
  \A j \in DOMAIN s :
    /\ s[j].todo \subseteq children[s[j].fn]
    /\ \A i \in 1..j : s[j].fn \in ReachedFrom({s[i].fn}, cg.child)

\* A grey function is in a call of spanningTree that has not returned, so it leads to
\* the function at the top of the stack.
RingInv ==
  /\ \A F \in Function : children[F] \subseteq cg.child[F]
  /\ fault = "none" =>
       \A F \in Function : colors[F] = 1 => \E k \in DOMAIN stack : stack[k].fn = F
  /\ Chain(stack)
  /\ OnlyRingEdgesGo

\* What a function reaches is closed under calls, and it reaches itself.
LEMMA ReachedFacts ==
  ASSUME NEW calls, NEW F \in Function
  PROVE  /\ F \in ReachedFrom({F}, calls)
         /\ \A S, G : G \in Function /\ G \in calls[F] /\ F \in ReachedFrom(S, calls)
                      => G \in ReachedFrom(S, calls)
BY DEF ReachedFrom, ClosedUnder

\* A stack that lost frames at its top, or callees to visit, is still a chain.
LEMMA ChainShorter ==
  ASSUME NEW s \in Seq(Frame), NEW t \in Seq(Frame), Chain(s), Len(t) <= Len(s),
         \A j \in 1..Len(t) : t[j].fn = s[j].fn /\ t[j].todo \subseteq s[j].todo
  PROVE  Chain(t)
<1> SUFFICES ASSUME NEW j \in DOMAIN t
             PROVE  /\ t[j].todo \subseteq children[t[j].fn]
                    /\ \A i \in 1..j : t[j].fn \in ReachedFrom({t[i].fn}, cg.child)
  BY DEF Chain
<1>1. j \in 1..Len(t) /\ j \in DOMAIN s /\ \A i \in 1..j : i \in 1..Len(t)
  OBVIOUS
<1>2. t[j].fn = s[j].fn /\ t[j].todo \subseteq s[j].todo /\ \A i \in 1..j : t[i].fn = s[i].fn
  BY <1>1
<1> QED
  BY <1>1, <1>2 DEF Chain

\* A call of a callee of the function at the top makes a chain again.
LEMMA ChainLonger ==
  ASSUME TypeOK, NEW s \in Seq(Frame), Chain(s), NEW F \in Function, NEW frame \in Frame,
         frame.fn = F, frame.todo \subseteq children[F],
         s # <<>> => F \in cg.child[s[Len(s)].fn]
  PROVE  Chain(Append(s, frame))
<1> DEFINE t == Append(s, frame)
<1>1. /\ t \in Seq(Frame) /\ Len(t) = Len(s) + 1 /\ t[Len(s) + 1] = frame
      /\ Len(s) \in Nat /\ DOMAIN t = 1..(Len(s) + 1) /\ DOMAIN s = 1..Len(s)
      /\ \A k \in 1..Len(s) : t[k] = s[k]
  OBVIOUS
<1> HIDE DEF t
<1> SUFFICES ASSUME NEW j \in DOMAIN t
             PROVE  /\ t[j].todo \subseteq children[t[j].fn]
                    /\ \A i \in 1..j : t[j].fn \in ReachedFrom({t[i].fn}, cg.child)
  BY DEF Chain, t
<1>2. CASE j \in 1..Len(s)
  <2>1. t[j] = s[j] /\ \A i \in 1..j : t[i] = s[i]
    BY <1>1, <1>2
  <2> QED
    BY <1>1, <1>2, <2>1 DEF Chain
<1>3. CASE j = Len(s) + 1
  <2>1. t[j] = frame
    BY <1>1, <1>3
  <2>2. ASSUME NEW i \in 1..j PROVE F \in ReachedFrom({t[i].fn}, cg.child)
    <3>1. CASE i = j
      BY <3>1, <2>1, ReachedFacts
    <3>2. CASE i # j
      <4>1. i \in 1..Len(s) /\ Len(s) \in DOMAIN s /\ s # <<>> /\ i \in 1..Len(s)
        BY <3>2, <1>1, <1>3
      <4>2. s[Len(s)].fn \in Function
        <5>1. s[Len(s)] \in Frame
          BY <4>1
        <5> QED
          BY <5>1 DEF Frame
      <4>3. s[Len(s)].fn \in ReachedFrom({s[i].fn}, cg.child)
        BY <4>1 DEF Chain
      <4> QED
        BY <4>1, <4>2, <4>3, <1>1, ReachedFacts
    <3> QED
      BY <3>1, <3>2
  <2> QED
    BY <2>1, <2>2
<1> QED
  BY <1>1, <1>2, <1>3

LEMMA VisitKeepsRing ==
  ASSUME WalkInv, RingInv, NEW CF \in Function, Visit(CF)
  PROVE  RingInv'
<1> DEFINE m == Len(stack)
           F == Last(stack).fn
           rest == Rest(Last(stack), CF)
           below == Append(Front(stack), rest)
<1>1. /\ TypeOK /\ fault = "none" /\ stack # <<>> /\ stack \in Seq(Frame)
      /\ CF \in Last(stack).todo /\ UNCHANGED <<cg, children>>
  BY DEF Visit, Walking, WalkInv, TypeOK, graph
<1>2. m \in Nat \ {0} /\ Last(stack) = stack[m] /\ Last(stack) \in Frame /\ m \in DOMAIN stack
  BY <1>1, StackFront
<1>3. rest \in Frame /\ rest.fn = F /\ rest.todo \subseteq stack[m].todo /\ F \in Function
  BY <1>2 DEF Rest, Frame
<1>4. /\ below \in Seq(Frame) /\ Len(below) = m /\ below # <<>> /\ below[m] = rest
      /\ \A j \in 1..(m - 1) : below[j] = stack[j]
  BY <1>1, <1>3, ReplaceFacts
<1>5. CF \in cg.child[F]
  <2>1. CF \in children[F]
    BY <1>1, <1>2 DEF RingInv, Chain
  <2> QED
    BY <2>1, <1>3 DEF RingInv
<1>6. \/ colors[CF] = 0 /\ Enter(CF, below) /\ UNCHANGED removeEdges
      \/ /\ colors[CF] # 0 /\ stack' = below /\ UNCHANGED <<colors, fault>>
         /\ removeEdges' = removeEdges \cup Marked(F, CF, colors)
  BY DEF Visit
<1> HIDE DEF rest, below, m, F
<1>7. ASSUME NEW j \in 1..m PROVE below[j].fn = stack[j].fn /\ below[j].todo \subseteq stack[j].todo
  <2>1. CASE j = m
    BY <2>1, <1>2, <1>3, <1>4 DEF F
  <2>2. CASE j # m
    BY <2>2, <1>2, <1>4
  <2> QED
    BY <2>1, <2>2
<1>8. Chain(below)
  <2>1. Len(below) <= Len(stack) /\ Chain(stack)
    BY <1>2, <1>4 DEF m, RingInv
  <2> QED
    BY <2>1, <1>1, <1>4, <1>7, ChainShorter
<1>9. \A G \in Function : colors[G] = 1 => \E k \in 1..m : below[k].fn = G
  BY <1>1, <1>7 DEF RingInv, m
<1>10. CASE colors[CF] = 0 /\ Enter(CF, below) /\ UNCHANGED removeEdges
  <2>1. OnlyRingEdgesGo'
    BY <1>1, <1>10 DEF RingInv, OnlyRingEdgesGo
  <2>2. CASE CF \in nodes
    <3> DEFINE frame == [fn |-> CF, todo |-> children[CF]]
    <3>1. stack' = Append(below, frame) /\ colors' = [colors EXCEPT ![CF] = 1]
      BY <1>10, <2>2 DEF Enter
    <3>2. frame \in Frame /\ frame.fn = CF /\ frame.todo = children[CF]
      BY <1>1 DEF TypeOK, Frame
    <3> HIDE DEF frame
    <3>3. below[Len(below)].fn = F
      BY <1>3, <1>4
    <3>4. Chain(Append(below, frame))
      BY <1>1, <1>4, <1>5, <1>8, <3>2, <3>3, ChainLonger
    <3>5. /\ DOMAIN stack' = 1..(m + 1) /\ stack'[m + 1] = frame
          /\ \A k \in 1..m : stack'[k] = below[k]
      BY <1>2, <1>4, <3>1, <3>2
    <3>6. ASSUME NEW G \in Function, colors'[G] = 1
          PROVE  \E k \in DOMAIN stack' : stack'[k].fn = G
      <4>1. CASE G = CF
        BY <4>1, <1>2, <3>2, <3>5
      <4>2. CASE G # CF
        <5>1. colors[G] = 1
          BY <4>2, <3>1, <3>6, <1>1 DEF TypeOK
        <5>2. PICK k \in 1..m : below[k].fn = G
          BY <5>1, <1>9
        <5>3. k \in DOMAIN stack' /\ stack'[k] = below[k]
          BY <1>2, <3>5
        <5> QED
          BY <5>2, <5>3
      <4> QED
        BY <4>1, <4>2
    <3> QED
      BY <1>1, <2>1, <3>1, <3>4, <3>6 DEF RingInv, Chain
  <2>3. CASE CF \notin nodes
    <3>1. stack' = below /\ fault' = "out_of_range"
      BY <1>10, <2>3 DEF Enter
    <3> QED
      BY <1>1, <1>8, <2>1, <3>1 DEF RingInv, Chain
  <2> QED
    BY <2>2, <2>3
<1>11. CASE /\ colors[CF] # 0 /\ stack' = below /\ UNCHANGED <<colors, fault>>
            /\ removeEdges' = removeEdges \cup Marked(F, CF, colors)
  <2>1. ASSUME colors[CF] = 1 PROVE F \in ReachedFrom({CF}, cg.child)
    <3>1. PICK k \in DOMAIN stack : stack[k].fn = CF
      BY <1>1, <2>1 DEF RingInv
    <3>2. k \in 1..m
      BY <1>1 DEF m
    <3> QED
      BY <1>1, <1>2, <3>1, <3>2 DEF RingInv, Chain, F
  <2>2. OnlyRingEdgesGo'
    <3>1. ASSUME NEW e \in removeEdges' PROVE e[1] \in ReachedFrom({e[2]}, cg.child)
      <4>1. CASE e \in removeEdges
        BY <4>1 DEF RingInv, OnlyRingEdgesGo
      <4>2. CASE e \notin removeEdges
        <5>1. e = <<F, CF>> /\ colors[CF] = 1
          BY <4>2, <1>11, <3>1 DEF Marked
        <5> QED
          BY <5>1, <2>1
      <4> QED
        BY <4>1, <4>2
    <3> QED
      BY <1>1, <3>1 DEF OnlyRingEdgesGo
  <2>3. DOMAIN stack' = 1..m
    BY <1>2, <1>4, <1>11
  <2> QED
    BY <1>1, <1>8, <1>9, <1>11, <2>2, <2>3 DEF RingInv, Chain
<1> QED
  BY <1>6, <1>10, <1>11

LEMMA FinishKeepsRing ==
  ASSUME WalkInv, RingInv, Finish
  PROVE  RingInv'
<1> DEFINE m == Len(stack)
           F == Last(stack).fn
<1>1. /\ TypeOK /\ fault = "none" /\ stack # <<>> /\ stack \in Seq(Frame)
      /\ stack' = Front(stack) /\ colors' = [colors EXCEPT ![F] = 2]
      /\ UNCHANGED <<cg, children, fault>>
  BY DEF Finish, Walking, WalkInv, TypeOK, graph
<1>2. /\ m \in Nat \ {0} /\ Last(stack) = stack[m] /\ Last(stack) \in Frame
      /\ stack' \in Seq(Frame) /\ Len(stack') = m - 1
      /\ \A j \in 1..(m - 1) : stack'[j] = stack[j]
  BY <1>1, StackFront
<1>3. F \in Function
  BY <1>2 DEF Frame
<1>4. removeEdges' = removeEdges
  <2>1. colors'[F] = 2
    BY <1>1, <1>3 DEF TypeOK
  <2>2. \A G : Marked(G, F, colors') = {}
    BY <2>1 DEF Marked
  <2> QED
    BY <2>2 DEF Finish
<1> HIDE DEF m, F
<1>5. Chain(stack')
  <2>1. Len(stack') <= Len(stack) /\ Chain(stack)
    BY <1>2 DEF m, RingInv
  <2>2. \A j \in 1..Len(stack') : stack'[j].fn = stack[j].fn /\ stack'[j].todo \subseteq stack[j].todo
    BY <1>2
  <2> QED
    BY <1>1, <1>2, <2>1, <2>2, ChainShorter
<1>6. ASSUME NEW G \in Function, colors'[G] = 1
      PROVE  \E k \in DOMAIN stack' : stack'[k].fn = G
  <2>1. G # F /\ colors[G] = 1
    BY <1>1, <1>3, <1>6 DEF TypeOK
  <2>2. PICK k \in DOMAIN stack : stack[k].fn = G
    BY <1>1, <2>1 DEF RingInv
  <2>3. k # m
    BY <1>2, <2>1, <2>2 DEF F
  <2>4. k \in 1..(m - 1) /\ k \in DOMAIN stack'
    BY <1>1, <1>2, <2>3 DEF m
  <2> QED
    BY <1>2, <2>2, <2>4
<1>7. OnlyRingEdgesGo'
  BY <1>1, <1>4 DEF RingInv, OnlyRingEdgesGo
<1> QED
  BY <1>1, <1>5, <1>6, <1>7 DEF RingInv, Chain

LEMMA StartKeepsRing ==
  ASSUME WalkInv, RingInv, Start
  PROVE  RingInv'
<1> DEFINE F == cg.top[started + 1]
           frame == [fn |-> F, todo |-> children[F]]
<1>1. /\ TypeOK /\ stack = <<>> /\ fault = "none" /\ cg.top \in Seq(Function)
      /\ started \in Nat /\ started + 1 \in 1..Len(cg.top)
      /\ UNCHANGED <<cg, children, removeEdges>> /\ Enter(F, <<>>)
  BY DEF Start, Walking, WalkInv, TypeOK, CallGraph, graph
<1>2. F \in Function
  BY <1>1
<1>3. frame \in Frame /\ frame.fn = F /\ frame.todo = children[F]
  BY <1>1, <1>2 DEF TypeOK, Frame
<1>4. <<>> \in Seq(Frame) /\ Chain(<<>>)
  BY DEF Chain
<1> HIDE DEF F, frame
<1>5. Chain(Append(<<>>, frame))
  BY <1>1, <1>2, <1>3, <1>4, ChainLonger
<1>6. OnlyRingEdgesGo'
  BY <1>1 DEF RingInv, OnlyRingEdgesGo
<1>7. CASE F \in nodes
  <2>1. stack' = Append(<<>>, frame) /\ colors' = [colors EXCEPT ![F] = 1]
    BY <1>1, <1>7 DEF Enter, frame
  <2>2. 1 \in DOMAIN stack' /\ stack'[1] = frame
    BY <2>1
  <2>3. ASSUME NEW G \in Function, colors'[G] = 1 PROVE G = F
    <3>1. ~(\E k \in DOMAIN stack : stack[k].fn = G)
      BY <1>1
    <3>2. colors[G] # 1
      BY <1>1, <3>1 DEF RingInv
    <3> QED
      BY <1>1, <2>1, <2>3, <3>2 DEF TypeOK
  <2> QED
    BY <1>1, <1>3, <1>5, <1>6, <2>1, <2>2, <2>3 DEF RingInv, Chain
<1>8. CASE F \notin nodes
  <2>1. stack' = <<>> /\ fault' = "out_of_range"
    BY <1>1, <1>8 DEF Enter
  <2> QED
    BY <1>1, <1>4, <1>6, <2>1 DEF RingInv, Chain
<1> QED
  BY <1>7, <1>8

\* A function being visited leads to the one at the top of the stack.
THEOREM RingInvariant == Spec => []RingInv
<1>1. Init => RingInv
  BY DEF Init, RingInv, Chain, OnlyRingEdgesGo
<1>2. WalkInv /\ RingInv /\ [Next]_vars => RingInv'
  <2> SUFFICES ASSUME WalkInv, RingInv, [Next]_vars PROVE RingInv'
    OBVIOUS
  <2>1. CASE Copy
    <3>1. /\ \A F \in Function : children'[F] \subseteq cg'.child[F]
          /\ stack' = <<>> /\ stack = <<>> /\ UNCHANGED <<cg, colors, removeEdges, fault>>
      BY <2>1 DEF Copy, walk, WalkInv
    <3> QED
      BY <3>1 DEF RingInv, Chain, OnlyRingEdgesGo
  <2>2. CASE Prune
    <3>1. /\ \A F \in Function : children'[F] \subseteq children[F]
          /\ stack' = <<>> /\ stack = <<>> /\ UNCHANGED <<cg, colors, removeEdges, fault>>
      BY <2>2 DEF Prune, walk, WalkInv
    <3> QED
      BY <3>1 DEF RingInv, Chain, OnlyRingEdgesGo
  <2>3. CASE EndWalk \/ UNCHANGED vars
    <3>1. UNCHANGED <<cg, children, stack, colors, removeEdges, fault>>
      BY <2>3 DEF EndWalk, vars, graph, walk
    <3> QED
      BY <3>1 DEF RingInv, Chain, OnlyRingEdgesGo
  <2> QED
    BY <2>1, <2>2, <2>3, StartKeepsRing, VisitKeepsRing, FinishKeepsRing DEF Next
<1> QED
  BY <1>1, <1>2, WalkInvariant, PTL DEF Spec

\* The callee of every marked call leads back to its caller.
THEOREM OnlyRingsMarked == Spec => []OnlyRingEdgesGo
<1>1. RingInv => OnlyRingEdgesGo
  BY DEF RingInv
<1> QED
  BY <1>1, RingInvariant, PTL

-----------------------------------------------------------------------------
(* The calls that are left lead everywhere.                                *)

\* The calls of the program that the copy lacks are self calls and marked ones.
CallsAccounted ==
  /\ phase = "copy" => removeEdges = {} /\ \A F \in Function : colors[F] = 0
  /\ phase # "copy" =>
       \A F \in Function : \A CF \in cg.child[F] :
         CF = F \/ CF \in children[F] \/ <<F, CF>> \in removeEdges

\* The frames are of different functions, each visited, and lead by unmarked calls from a
\* top-level function to the one at hand.
StackKept ==
  /\ \A k \in DOMAIN stack : colors[stack[k].fn] # 0
  /\ \A j, k \in DOMAIN stack : j # k => stack[j].fn # stack[k].fn
  /\ stack # <<>> => stack[1].fn \in Top
  /\ \A k \in 1..(Len(stack) - 1) : stack[k + 1].fn \in Kept[stack[k].fn]

\* A call whose callee was not visited yet is not marked, and unmarked calls lead to
\* every function visited.
ReachInv ==
  /\ CallsAccounted
  /\ StackKept
  /\ \A e \in removeEdges : colors[e[2]] # 0
  /\ \A F \in Function : colors[F] # 0 => F \in ReachedFrom(Top, Kept)

\* More calls reach more.
LEMMA ReachedMonotone ==
  ASSUME NEW S, NEW calls, NEW more, \A F \in Function : calls[F] \subseteq more[F]
  PROVE  ReachedFrom(S, calls) \subseteq ReachedFrom(S, more)
BY DEF ReachedFrom, ClosedUnder

\* What is reached is closed, and holds its roots.
LEMMA ReachedClosed ==
  ASSUME NEW S \in SUBSET Function, NEW calls
  PROVE  /\ S \subseteq ReachedFrom(S, calls)
         /\ \A F \in ReachedFrom(S, calls) : \A G \in calls[F] :
              G \in Function => G \in ReachedFrom(S, calls)
BY DEF ReachedFrom, ClosedUnder

\* A set that holds the roots and is closed holds what is reached.
LEMMA ReachedLeast ==
  ASSUME NEW S, NEW calls, NEW R \in SUBSET Function, S \subseteq R, ClosedUnder(R, calls)
  PROVE  ReachedFrom(S, calls) \subseteq R
BY DEF ReachedFrom

\* A chain that begins in a closed set stays in it.
LEMMA ChainInside ==
  ASSUME NEW R, NEW n \in Nat, NEW f, f[1] \in R,
         \A k \in 1..(n - 1) : f[k] \in R => f[k + 1] \in R
  PROVE  \A k \in 1..n : f[k] \in R
<1> DEFINE T == {k \in 1..n : f[k] \notin R}
<1> SUFFICES ASSUME T # {} PROVE FALSE
  OBVIOUS
<1>1. T \subseteq Nat
  OBVIOUS
<1>2. PICK k \in T : \A h \in T : ~(<<h, k>> \in OpToRel(<, Nat))
  BY <1>1, WFMin, NatLessThanWellFounded
<1>3. k \in 1..n /\ k # 1 /\ f[k] \notin R
  BY <1>2
<1>4. k - 1 \in 1..(n - 1) /\ k - 1 \in 1..n /\ (k - 1) + 1 = k /\ k - 1 < k
      /\ k - 1 \in Nat /\ k \in Nat
  BY <1>3
<1>5. k - 1 \notin T
  BY <1>2, <1>4 DEF OpToRel
<1>6. f[k - 1] \in R
  BY <1>4, <1>5
<1>7. f[(k - 1) + 1] \in R
  BY <1>4, <1>6
<1> QED
  BY <1>3, <1>4, <1>7

\* Calls lead along a stack from its first function to all others.
LEMMA StackReached ==
  ASSUME NEW S \in SUBSET Function, NEW calls, NEW s \in Seq(Frame), s # <<>>, s[1].fn \in S,
         \A k \in 1..(Len(s) - 1) : s[k + 1].fn \in calls[s[k].fn]
  PROVE  \A k \in DOMAIN s : s[k].fn \in ReachedFrom(S, calls)
<1> DEFINE R == ReachedFrom(S, calls)
           f == [k \in DOMAIN s |-> s[k].fn]
<1>1. Len(s) \in Nat \ {0} /\ DOMAIN s = 1..Len(s) /\ 1 \in DOMAIN s
  OBVIOUS
<1>2. f[1] \in R
  BY <1>1, ReachedClosed
<1>3. ASSUME NEW k \in 1..(Len(s) - 1), f[k] \in R PROVE f[k + 1] \in R
  <2>1. k \in DOMAIN s /\ k + 1 \in DOMAIN s
    BY <1>1
  <2>2. s[k + 1].fn \in Function
    <3>1. s[k + 1] \in Frame
      BY <2>1
    <3> QED
      BY <3>1 DEF Frame
  <2> QED
    BY <1>3, <2>1, <2>2, ReachedClosed
<1> HIDE DEF R
<1>4. \A k \in 1..Len(s) : f[k] \in R
  <2> HIDE DEF f
  <2> QED
    BY <1>1, <1>2, <1>3, ChainInside
<1> QED
  BY <1>1, <1>4 DEF R

\* Marking a call of the function at the top of the stack leaves the chain of the stack
\* unmarked, so what the call led to is still reached along the stack.
LEMMA MarkKeepsReached ==
  ASSUME TypeOK, TypeOK', StackKept', UNCHANGED <<cg, children>>,
         NEW F \in Function, NEW CF \in Function,
         removeEdges' = removeEdges \cup {<<F, CF>>},
         \E k \in DOMAIN stack' : stack'[k].fn = CF
  PROVE  ReachedFrom(Top, Kept) \subseteq ReachedFrom(Top', Kept')
<1> DEFINE R == ReachedFrom(Top', Kept')
<1>1. Top' = Top /\ Top \in SUBSET Function
  BY DEF TypeOK, CallGraph, Top, ToSet
<1>2. CF \in R
  <2>1. stack' \in Seq(Frame) /\ stack' # <<>>
    BY DEF TypeOK
  <2>2. /\ stack'[1].fn \in Top'
        /\ \A k \in 1..(Len(stack') - 1) : stack'[k + 1].fn \in Kept'[stack'[k].fn]
    BY <2>1 DEF StackKept
  <2> QED
    BY <1>1, <2>1, <2>2, StackReached
<1>3. \A G \in Function : Kept[G] \subseteq Kept'[G] \cup {CF} /\ Kept[G] \subseteq Function
  BY DEF Kept, TypeOK
<1>4. R \in SUBSET Function /\ Top \subseteq R
  BY <1>1, ReachedClosed DEF ReachedFrom
<1>5. ClosedUnder(R, Kept)
  <2>1. ASSUME NEW G \in R, NEW H \in Kept[G] PROVE H \in R
    <3>1. G \in Function
      BY <1>4
    <3>2. H \in Function /\ (H = CF \/ H \in Kept'[G])
      BY <1>3, <2>1, <3>1
    <3> QED
      BY <1>1, <1>2, <3>2, ReachedClosed
  <2> QED
    BY <2>1 DEF ClosedUnder
<1> HIDE DEF R
<1>6. ReachedFrom(Top, Kept) \subseteq R
  BY <1>4, <1>5, ReachedLeast
<1> QED
  BY <1>6 DEF R

LEMMA StartKeepsReach ==
  ASSUME WalkInv, ReachInv, Start
  PROVE  ReachInv'
<1> DEFINE F == cg.top[started + 1]
           frame == [fn |-> F, todo |-> children[F]]
<1>1. /\ TypeOK /\ stack = <<>> /\ phase = "walk" /\ cg.top \in Seq(Function)
      /\ started \in Nat /\ started + 1 \in 1..Len(cg.top)
      /\ UNCHANGED <<cg, phase, children, removeEdges>> /\ Enter(F, <<>>)
  BY DEF Start, Walking, WalkInv, TypeOK, CallGraph, graph
<1>2. F \in Function /\ F \in Top /\ Top \in SUBSET Function
  BY <1>1 DEF Top, ToSet
<1>3. frame.fn = F
  OBVIOUS
<1>4. colors' = [colors EXCEPT ![F] = 1] /\ (stack' = <<>> \/ stack' = Append(<<>>, frame))
  BY <1>1 DEF Enter
<1> HIDE DEF F, frame
<1>5. Kept' = Kept /\ Top' = Top
  BY <1>1 DEF Kept, Top
<1>6. \A G \in Function : colors'[G] # 0 => G = F \/ colors[G] # 0
  BY <1>1, <1>4 DEF TypeOK
<1>7. \A G \in Function : colors'[G] # 0 => G \in ReachedFrom(Top, Kept)
  BY <1>2, <1>6, ReachedClosed DEF ReachInv
<1>8. \A e \in removeEdges : colors'[e[2]] # 0
  BY <1>1, <1>2, <1>4 DEF ReachInv, TypeOK
<1>9. StackKept'
  <2>1. CASE stack' = <<>>
    BY <2>1 DEF StackKept
  <2>2. CASE stack' = Append(<<>>, frame)
    <3>1. Len(stack') = 1 /\ DOMAIN stack' = {1} /\ stack'[1] = frame
      BY <2>2
    <3>2. colors'[F] # 0
      BY <1>1, <1>2, <1>4 DEF TypeOK
    <3> QED
      BY <1>2, <1>3, <1>5, <3>1, <3>2 DEF StackKept
  <2> QED
    BY <1>4, <2>1, <2>2
<1>10. CallsAccounted'
  BY <1>1 DEF ReachInv, CallsAccounted
<1> QED
  BY <1>1, <1>5, <1>7, <1>8, <1>9, <1>10 DEF ReachInv

LEMMA FinishKeepsReach ==
  ASSUME WalkInv, ReachInv, Finish
  PROVE  ReachInv'
<1> DEFINE m == Len(stack)
           F == Last(stack).fn
<1>1. /\ TypeOK /\ phase = "walk" /\ stack # <<>> /\ stack \in Seq(Frame)
      /\ stack' = Front(stack) /\ colors' = [colors EXCEPT ![F] = 2]
      /\ UNCHANGED <<cg, phase, children>>
  BY DEF Finish, Walking, WalkInv, TypeOK, graph
<1>2. /\ m \in Nat \ {0} /\ Last(stack) = stack[m] /\ Last(stack) \in Frame /\ m \in DOMAIN stack
      /\ stack' \in Seq(Frame) /\ Len(stack') = m - 1
      /\ \A j \in 1..(m - 1) : stack'[j] = stack[j]
  BY <1>1, StackFront
<1>3. F \in Function /\ colors[F] # 0
  BY <1>2 DEF Frame, ReachInv, StackKept
<1>4. removeEdges' = removeEdges
  <2>1. colors'[F] = 2
    BY <1>1, <1>3 DEF TypeOK
  <2>2. \A G : Marked(G, F, colors') = {}
    BY <2>1 DEF Marked
  <2> QED
    BY <2>2 DEF Finish
<1> HIDE DEF F
<1>5. Kept' = Kept /\ Top' = Top
  BY <1>1, <1>4 DEF Kept, Top
<1>6. \A G : colors[G] # 0 => colors'[G] # 0
  BY <1>1, <1>3 DEF TypeOK
<1>7. \A G \in Function : colors'[G] # 0 => colors[G] # 0
  BY <1>1, <1>3 DEF TypeOK
<1>8. \A k \in DOMAIN stack' : k \in DOMAIN stack /\ stack'[k] = stack[k]
  BY <1>1, <1>2
<1>9. StackKept'
  <2>1. \A k \in DOMAIN stack' : colors'[stack'[k].fn] # 0
    BY <1>6, <1>8 DEF ReachInv, StackKept
  <2>2. \A j, k \in DOMAIN stack' : j # k => stack'[j].fn # stack'[k].fn
    BY <1>8 DEF ReachInv, StackKept
  <2>3. stack' # <<>> => stack'[1].fn \in Top'
    <3>1. stack' # <<>> => 1 \in DOMAIN stack'
      BY <1>2
    <3> QED
      BY <1>1, <1>5, <1>8, <3>1 DEF ReachInv, StackKept
  <2>4. ASSUME NEW k \in 1..(Len(stack') - 1) PROVE stack'[k + 1].fn \in Kept'[stack'[k].fn]
    <3>1. k \in DOMAIN stack' /\ k + 1 \in DOMAIN stack' /\ k \in 1..(Len(stack) - 1)
      BY <1>2
    <3> QED
      BY <1>5, <1>8, <3>1 DEF ReachInv, StackKept
  <2> QED
    BY <2>1, <2>2, <2>3, <2>4 DEF StackKept
<1>10. CallsAccounted'
  BY <1>1, <1>4 DEF ReachInv, CallsAccounted
<1>11. \A e \in removeEdges' : colors'[e[2]] # 0
  BY <1>4, <1>6 DEF ReachInv
<1> QED
  BY <1>5, <1>7, <1>9, <1>10, <1>11 DEF ReachInv

LEMMA VisitKeepsReach ==
  ASSUME WalkInv, WalkInv', RingInv, ReachInv, NEW CF \in Function, Visit(CF)
  PROVE  ReachInv'
<1> DEFINE m == Len(stack)
           F == Last(stack).fn
           rest == Rest(Last(stack), CF)
           below == Append(Front(stack), rest)
<1>1. /\ TypeOK /\ fault = "none" /\ stack # <<>> /\ stack \in Seq(Frame)
      /\ CF \in Last(stack).todo /\ UNCHANGED <<cg, phase, nodes, children>>
  BY DEF Visit, Walking, WalkInv, TypeOK, graph
<1>2. m \in Nat \ {0} /\ Last(stack) = stack[m] /\ Last(stack) \in Frame /\ m \in DOMAIN stack
  BY <1>1, StackFront
<1>3. rest \in Frame /\ rest.fn = F /\ F \in Function
  BY <1>2 DEF Rest, Frame
<1>4. /\ below \in Seq(Frame) /\ Len(below) = m /\ below # <<>> /\ below[m] = rest
      /\ \A j \in 1..(m - 1) : below[j] = stack[j]
  BY <1>1, <1>3, ReplaceFacts
<1>5. CF \in children[F]
  BY <1>1, <1>2 DEF RingInv, Chain
<1>6. \/ colors[CF] = 0 /\ Enter(CF, below) /\ UNCHANGED removeEdges
      \/ /\ colors[CF] # 0 /\ stack' = below /\ UNCHANGED <<colors, fault>>
         /\ removeEdges' = removeEdges \cup Marked(F, CF, colors)
  BY DEF Visit
<1>7. stack[m].fn = F
  BY <1>2
<1> HIDE DEF rest, below, m, F
<1>8. DOMAIN stack = 1..m /\ DOMAIN below = 1..m
  BY <1>1, <1>4 DEF m
<1>9. \A j \in 1..m : below[j].fn = stack[j].fn
  <2> TAKE j \in 1..m
  <2>1. CASE j = m
    BY <2>1, <1>3, <1>4, <1>7
  <2>2. CASE j # m
    BY <2>2, <1>2, <1>4
  <2> QED
    BY <2>1, <2>2
<1>10. Top' = Top /\ Top \in SUBSET Function
  BY <1>1 DEF Top, TypeOK, CallGraph, ToSet
<1>11. /\ below[1].fn \in Top
       /\ \A k \in 1..m : colors[below[k].fn] # 0
       /\ \A j, k \in 1..m : j # k => below[j].fn # below[k].fn
       /\ \A k \in 1..(m - 1) : below[k + 1].fn \in Kept[below[k].fn]
  <2>1. 1 \in 1..m /\ \A k \in 1..(m - 1) : k \in 1..m /\ k + 1 \in 1..m
    BY <1>2
  <2> QED
    BY <1>1, <1>8, <1>9, <2>1 DEF ReachInv, StackKept, m
<1>12. CASE colors[CF] = 0 /\ Enter(CF, below) /\ UNCHANGED removeEdges
  <2> DEFINE frame == [fn |-> CF, todo |-> children[CF]]
  <2>1. CF \in nodes
    BY <1>1, <1>3, <1>5 DEF TypeOK
  <2>2. stack' = Append(below, frame) /\ colors' = [colors EXCEPT ![CF] = 1]
    BY <1>12, <2>1 DEF Enter
  <2>3. frame \in Frame /\ frame.fn = CF
    BY <1>1 DEF TypeOK, Frame
  <2> HIDE DEF frame
  <2>4. /\ DOMAIN stack' = 1..(m + 1) /\ Len(stack') = m + 1 /\ stack'[m + 1] = frame
        /\ \A k \in 1..m : stack'[k] = below[k]
    BY <1>2, <1>4, <2>2, <2>3
  <2>5. Kept' = Kept /\ CF \in Kept[F]
    <3>1. <<F, CF>> \notin removeEdges
      BY <1>12 DEF ReachInv
    <3> QED
      BY <1>1, <1>3, <1>5, <1>12, <3>1 DEF Kept
  <2>6. \A G \in Function : colors'[G] # 0 => G = CF \/ colors[G] # 0
    BY <1>1, <2>2 DEF TypeOK
  <2>7. colors'[CF] # 0 /\ \A G \in Function : colors[G] # 0 => colors'[G] # 0
    BY <1>1, <2>2 DEF TypeOK
  <2>8. CF \in ReachedFrom(Top, Kept)
    <3>1. F \in ReachedFrom(Top, Kept)
      <4>1. colors[F] # 0
        BY <1>2, <1>7 DEF ReachInv, StackKept
      <4> QED
        BY <1>3, <4>1 DEF ReachInv
    <3> QED
      BY <1>10, <2>5, <3>1, ReachedClosed
  <2>9. \A k \in 1..m : below[k].fn \in Function /\ below[k].fn # CF
    <3> TAKE k \in 1..m
    <3>1. below[k] \in Frame
      BY <1>4, <1>8
    <3>2. colors[below[k].fn] # 0
      BY <1>11
    <3> QED
      BY <1>12, <3>1, <3>2 DEF Frame
  <2>10. StackKept'
    <3>1. \A k \in 1..(m + 1) : k \in 1..m \/ k = m + 1
      BY <1>2
    <3>2. \A k \in DOMAIN stack' : colors'[stack'[k].fn] # 0
      <4> TAKE k \in DOMAIN stack'
      <4>1. CASE k \in 1..m
        BY <4>1, <1>11, <2>4, <2>7, <2>9
      <4>2. CASE k = m + 1
        BY <4>2, <2>3, <2>4, <2>7
      <4> QED
        BY <3>1, <2>4, <4>1, <4>2
    <3>3. ASSUME NEW j \in DOMAIN stack', NEW k \in DOMAIN stack', j # k
          PROVE  stack'[j].fn # stack'[k].fn
      <4>1. CASE j \in 1..m /\ k \in 1..m
        BY <4>1, <3>3, <1>11, <2>4
      <4>2. CASE j = m + 1 /\ k \in 1..m
        BY <4>2, <2>3, <2>4, <2>9
      <4>3. CASE j \in 1..m /\ k = m + 1
        BY <4>3, <2>3, <2>4, <2>9
      <4> QED
        BY <3>1, <3>3, <2>4, <4>1, <4>2, <4>3
    <3>4. stack'[1].fn \in Top'
      <4>1. 1 \in 1..m
        BY <1>2
      <4> QED
        BY <4>1, <1>10, <1>11, <2>4
    <3>5. ASSUME NEW k \in 1..(Len(stack') - 1) PROVE stack'[k + 1].fn \in Kept'[stack'[k].fn]
      <4>1. k \in 1..m
        BY <1>2, <2>4
      <4>2. CASE k = m
        BY <4>2, <1>3, <1>4, <2>3, <2>4, <2>5, <4>1
      <4>3. CASE k # m
        <5>1. k \in 1..(m - 1) /\ k + 1 \in 1..m
          BY <4>1, <4>3, <1>2
        <5> QED
          BY <5>1, <4>1, <1>11, <2>4, <2>5
      <4> QED
        BY <4>2, <4>3
    <3> QED
      BY <3>2, <3>3, <3>4, <3>5 DEF StackKept
  <2>11. CallsAccounted'
    BY <1>1, <1>12 DEF ReachInv, CallsAccounted, Visit, Walking
  <2>12. \A e \in removeEdges' : colors'[e[2]] # 0
    <3>1. \A e \in removeEdges : e[2] \in Function
      BY <1>1 DEF TypeOK
    <3> QED
      BY <1>12, <2>7, <3>1 DEF ReachInv
  <2>13. \A G \in Function : colors'[G] # 0 => G \in ReachedFrom(Top, Kept)
    BY <2>6, <2>8 DEF ReachInv
  <2> QED
    BY <1>10, <2>5, <2>10, <2>11, <2>12, <2>13 DEF ReachInv
<1>13. CASE /\ colors[CF] # 0 /\ stack' = below /\ UNCHANGED <<colors, fault>>
            /\ removeEdges' = removeEdges \cup Marked(F, CF, colors)
  <2>1. \A e \in removeEdges' : e \in removeEdges \/ e = <<F, CF>>
    BY <1>13 DEF Marked
  <2>2. \A G \in Function : G # F => Kept'[G] = Kept[G]
    <3> TAKE G \in Function
    <3>1. ASSUME G # F PROVE \A H : <<G, H>> \in removeEdges' <=> <<G, H>> \in removeEdges
      BY <3>1, <2>1, <1>13
    <3> QED
      BY <1>1, <3>1 DEF Kept
  <2>3. StackKept'
    <3>1. ASSUME NEW k \in 1..(m - 1) PROVE below[k + 1].fn \in Kept'[below[k].fn]
      <4>1. k \in 1..m /\ k # m /\ m \in 1..m
        BY <1>2
      <4>2. below[k].fn # F /\ below[k].fn \in Function
        <5>1. below[k] \in Frame
          BY <1>4, <1>8, <4>1
        <5>2. below[k].fn # below[m].fn
          BY <1>11, <4>1
        <5> QED
          BY <5>1, <5>2, <1>3, <1>4 DEF Frame
      <4> QED
        BY <4>2, <2>2, <1>11
    <3> QED
      BY <1>4, <1>8, <1>10, <1>11, <1>13, <3>1 DEF StackKept
  <2>4. ReachedFrom(Top, Kept) \subseteq ReachedFrom(Top', Kept')
    <3>1. CASE colors[CF] = 1
      <4>1. PICK k \in DOMAIN stack : stack[k].fn = CF
        BY <1>1, <3>1 DEF RingInv
      <4>2. k \in DOMAIN stack' /\ stack'[k].fn = CF
        BY <1>8, <1>9, <1>13, <4>1
      <4>3. removeEdges' = removeEdges \cup {<<F, CF>>}
        BY <1>13, <3>1 DEF Marked
      <4>4. TypeOK'
        BY DEF WalkInv
      <4> QED
        BY <1>1, <1>3, <2>3, <4>2, <4>3, <4>4, MarkKeepsReached
    <3>2. CASE colors[CF] # 1
      <4>1. Kept' = Kept
        BY <1>1, <1>13, <3>2 DEF Marked, Kept
      <4> QED
        BY <1>10, <4>1
    <3> QED
      BY <3>1, <3>2
  <2>5. CallsAccounted'
    BY <1>1, <1>13 DEF ReachInv, CallsAccounted, Visit, Walking
  <2>6. \A e \in removeEdges' : colors'[e[2]] # 0
    BY <1>13, <2>1 DEF ReachInv
  <2>7. \A G \in Function : colors'[G] # 0 => G \in ReachedFrom(Top', Kept')
    BY <1>13, <2>4 DEF ReachInv
  <2> QED
    BY <2>3, <2>5, <2>6, <2>7 DEF ReachInv
<1> QED
  BY <1>6, <1>12, <1>13

LEMMA PruneKeepsReach ==
  ASSUME WalkInv, WalkInv', ReachInv, Prune
  PROVE  ReachInv'
<1>1. /\ UNCHANGED <<cg, colors, removeEdges, stack>> /\ phase = "prune" /\ phase' = "ready"
      /\ stack = <<>> /\ children' = Kept
  BY DEF Prune, walk, Kept, WalkInv
<1>2. Kept' = Kept /\ Top' = Top
  BY <1>1 DEF WalkInv, Top
<1>3. CallsAccounted'
  <2>1. ASSUME NEW F \in Function, NEW CF \in cg.child[F]
        PROVE  CF = F \/ CF \in Kept[F] \/ <<F, CF>> \in removeEdges
    <3>1. CF = F \/ CF \in children[F] \/ <<F, CF>> \in removeEdges
      BY <1>1 DEF ReachInv, CallsAccounted
    <3> QED
      BY <3>1 DEF Kept
  <2> QED
    BY <1>1, <2>1 DEF CallsAccounted
<1>4. StackKept'
  BY <1>1 DEF StackKept
<1> QED
  BY <1>1, <1>2, <1>3, <1>4 DEF ReachInv

\* The calls that are left lead from the top-level functions to everything that the
\* program's calls lead to: a marked call is never the only way to its callee.
THEOREM NothingLost == Spec => []ReachabilityPreserved
<1>1. Init => ReachInv
  BY DEF Init, ReachInv, CallsAccounted, StackKept
<1>2. WalkInv /\ WalkInv' /\ RingInv /\ ReachInv /\ [Next]_vars => ReachInv'
  <2> SUFFICES ASSUME WalkInv, WalkInv', RingInv, ReachInv, [Next]_vars PROVE ReachInv'
    OBVIOUS
  <2>1. CASE Copy
    <3>1. /\ stack' = <<>> /\ phase = "copy" /\ UNCHANGED <<cg, colors, removeEdges>>
          /\ \A F \in Function : children'[F] = cg.child[F] \ {F}
      BY <2>1 DEF Copy, walk, WalkInv
    <3>2. removeEdges = {} /\ \A F \in Function : colors[F] = 0
      BY <3>1 DEF ReachInv, CallsAccounted
    <3>3. CallsAccounted'
      BY <2>1, <3>1 DEF CallsAccounted, Copy
    <3> QED
      BY <3>1, <3>2, <3>3 DEF ReachInv, StackKept
  <2>2. CASE EndWalk \/ UNCHANGED vars
    <3>1. /\ UNCHANGED <<cg, children, stack, colors, removeEdges>>
          /\ phase' = "copy" <=> phase = "copy"
      BY <2>2 DEF EndWalk, Walking, vars, graph, walk
    <3>2. Kept' = Kept /\ Top' = Top
      BY <3>1 DEF Kept, Top
    <3> QED
      BY <3>1, <3>2 DEF ReachInv, CallsAccounted, StackKept
  <2> QED
    BY <2>1, <2>2, StartKeepsReach, VisitKeepsReach, FinishKeepsReach, PruneKeepsReach DEF Next
<1>3. WalkInv /\ ReachInv => ReachabilityPreserved
  <2> SUFFICES ASSUME WalkInv, ReachInv, phase = "ready"
               PROVE  ReachedFrom(Top, cg.child) \subseteq ReachedFrom(Top, children)
    BY DEF ReachabilityPreserved
  <2> DEFINE R == ReachedFrom(Top, children)
  <2>1. Kept = children /\ Top \in SUBSET Function /\ cg \in CallGraph
    BY DEF WalkInv, TypeOK, CallGraph, Top, ToSet
  <2>2. R \in SUBSET Function /\ Top \subseteq R
    BY <2>1, ReachedClosed DEF ReachedFrom
  <2>3. ASSUME NEW F \in R, NEW CF \in cg.child[F] PROVE CF \in R
    <3>1. F \in Function /\ CF \in Function
      BY <2>1, <2>2 DEF CallGraph
    <3>2. CF = F \/ CF \in children[F] \/ <<F, CF>> \in removeEdges
      BY <3>1 DEF ReachInv, CallsAccounted
    <3>3. CASE CF \in children[F]
      BY <3>1, <3>3, <2>1, ReachedClosed
    <3>4. CASE <<F, CF>> \in removeEdges
      <4>1. colors[CF] # 0
        BY <3>4 DEF ReachInv
      <4> QED
        BY <3>1, <4>1, <2>1 DEF ReachInv
    <3> QED
      BY <3>2, <3>3, <3>4
  <2>4. ClosedUnder(R, cg.child)
    BY <2>3 DEF ClosedUnder
  <2> HIDE DEF R
  <2>5. ReachedFrom(Top, cg.child) \subseteq R
    BY <2>2, <2>4, ReachedLeast
  <2> QED
    BY <2>5 DEF R
<1> QED
  BY <1>1, <1>2, <1>3, WalkInvariant, RingInvariant, PTL DEF Spec

-----------------------------------------------------------------------------
(* PathsFound: without rings the recursion of getReachablePath, which      *)
(* keeps no marks, ends and meets each chain of calls.                     *)

\* A chain of calls: each function calls the next.
Chains(calls) ==
  {s \in Seq(Function) : s # <<>> /\ \A k \in 1..(Len(s) - 1) : s[k + 1] \in calls[s[k]]}

LEMMA ChainFacts ==
  ASSUME NEW calls, NEW s \in Chains(calls)
  PROVE  /\ s \in Seq(Function) /\ Len(s) \in Nat /\ Len(s) >= 1 /\ 1 \in 1..Len(s) /\ Len(s) \in 1..Len(s)
         /\ DOMAIN s = 1..Len(s) /\ \A k \in 1..Len(s) : s[k] \in Function
         /\ \A k \in 1..(Len(s) - 1) : k \in 1..Len(s) /\ k + 1 \in 1..Len(s) /\ s[k + 1] \in calls[s[k]]
<1>1. s \in Seq(Function) /\ s # <<>> /\ \A k \in 1..(Len(s) - 1) : s[k + 1] \in calls[s[k]]
  BY DEF Chains
<1> QED
  BY <1>1

\* The chain of one function.
LEMMA SingleChain ==
  ASSUME NEW calls, NEW F \in Function
  PROVE  /\ <<F>> \in Chains(calls) /\ Len(<<F>>) = 1 /\ <<F>>[1] = F
         /\ \A s \in Chains(calls) : Len(s) <= 1 /\ s[1] = F => s = <<F>>
BY DEF Chains

\* A function put before a chain that starts with one of its callees.
LEMMA LongerChain ==
  ASSUME NEW calls, NEW F \in Function, NEW p \in Chains(calls), p[1] \in calls[F]
  PROVE  /\ <<F>> \o p \in Chains(calls) /\ Len(<<F>> \o p) = Len(p) + 1
         /\ (<<F>> \o p)[1] = F /\ \A k \in 1..Len(p) : (<<F>> \o p)[k + 1] = p[k]
<1> DEFINE s == <<F>> \o p
<1>0. p \in Seq(Function) /\ Len(p) \in Nat /\ Len(p) >= 1
  BY ChainFacts
<1>1. /\ s \in Seq(Function) /\ Len(s) = Len(p) + 1 /\ s[1] = F
      /\ \A k \in 1..Len(p) : s[k + 1] = p[k]
  BY <1>0
<1> HIDE DEF s
<1>2. ASSUME NEW k \in 1..(Len(s) - 1) PROVE s[k + 1] \in calls[s[k]]
  <2>1. k \in 1..Len(p) /\ s[k + 1] = p[k]
    BY <1>0, <1>1
  <2>2. CASE k = 1
    BY <1>1, <2>1, <2>2
  <2>3. CASE k # 1
    <3>1. k - 1 \in 1..(Len(p) - 1) /\ (k - 1) + 1 = k /\ k - 1 \in 1..Len(p)
      BY <2>1, <2>3, <1>0
    <3>2. s[k] = p[k - 1] /\ p[k] \in calls[p[k - 1]]
      BY <3>1, <1>1, ChainFacts
    <3> QED
      BY <2>1, <3>2
  <2> QED
    BY <2>2, <2>3
<1>3. s # <<>>
  BY <1>0, <1>1
<1>4. s \in Chains(calls)
  BY <1>1, <1>2, <1>3 DEF Chains
<1> QED
  BY <1>1, <1>4 DEF s

\* What is left of a chain after its first function.
LEMMA ShorterChain ==
  ASSUME NEW calls, NEW s \in Chains(calls), Len(s) > 1
  PROVE  /\ Tail(s) \in Chains(calls) /\ Len(Tail(s)) = Len(s) - 1 /\ Tail(s)[1] \in calls[s[1]]
         /\ \A k \in 1..(Len(s) - 1) : Tail(s)[k] = s[k + 1]
         /\ s = <<s[1]>> \o Tail(s)
<1> DEFINE p == Tail(s)
<1>0. s \in Seq(Function) /\ Len(s) \in Nat
  BY ChainFacts
<1>1. /\ p \in Seq(Function) /\ Len(p) = Len(s) - 1 /\ \A k \in 1..(Len(s) - 1) : p[k] = s[k + 1]
      /\ s = <<s[1]>> \o p
  BY <1>0
<1> HIDE DEF p
<1>2. 1 \in 1..(Len(s) - 1) /\ p # <<>> /\ p[1] = s[1 + 1] /\ s[1 + 1] \in calls[s[1]]
  BY <1>0, <1>1, ChainFacts
<1>3. ASSUME NEW k \in 1..(Len(p) - 1) PROVE p[k + 1] \in calls[p[k]]
  <2>1. k \in 1..(Len(s) - 1) /\ k + 1 \in 1..(Len(s) - 1)
    BY <1>0, <1>1
  <2> QED
    BY <2>1, <1>1, ChainFacts
<1>4. p \in Chains(calls)
  BY <1>1, <1>2, <1>3 DEF Chains
<1> QED
  BY <1>1, <1>2, <1>4 DEF p

\* A chain stays within what is closed under the calls.
LEMMA ChainStaysIn ==
  ASSUME NEW calls, NEW R, ClosedUnder(R, calls), NEW s \in Chains(calls), s[1] \in R
  PROVE  \A k \in 1..Len(s) : s[k] \in R
<1> DEFINE P == {k \in Nat : k + 1 <= Len(s) => s[k + 1] \in R}
<1>0. Len(s) \in Nat
  BY ChainFacts
<1>1. 0 \in P
  OBVIOUS
<1>2. ASSUME NEW k \in Nat, k \in P PROVE k + 1 \in P
  <2>1. SUFFICES ASSUME (k + 1) + 1 <= Len(s) PROVE s[(k + 1) + 1] \in R
    OBVIOUS
  <2>2. k + 1 \in 1..(Len(s) - 1) /\ s[k + 1] \in R
    BY <1>0, <1>2, <2>1
  <2>3. s[(k + 1) + 1] \in calls[s[k + 1]]
    BY <2>2, ChainFacts
  <2> QED
    BY <2>2, <2>3 DEF ClosedUnder
<1> HIDE DEF P
<1>3. Nat \subseteq P
  BY <1>1, <1>2, NaturalInduction
<1>4. \A k \in 1..Len(s) : k - 1 \in P /\ (k - 1) + 1 = k
  BY <1>0, <1>3
<1> QED
  BY <1>0, <1>4 DEF P

\* Where there is no ring no chain comes back to a function.
LEMMA ChainDistinct ==
  ASSUME NEW calls, NEW R, RingFree(R, calls), NEW s \in Chains(calls), \A k \in 1..Len(s) : s[k] \in R
  PROVE  Distinct(s)
<1> SUFFICES ASSUME NEW i \in 1..Len(s), NEW j \in 1..Len(s), i < j, s[i] = s[j] PROVE FALSE
  BY ChainFacts DEF Distinct
<1> DEFINE S == {s[k] : k \in i..(j - 1)}
<1>0. Len(s) \in Nat /\ i \in i..(j - 1)
  BY ChainFacts
<1>1. S \in SUBSET R /\ S # {}
  BY <1>0
<1>2. ASSUME NEW k \in i..(j - 1) PROVE s[k + 1] \in calls[s[k]] \cap S
  <2>1. k \in 1..(Len(s) - 1)
    BY <1>0
  <2>2. s[k + 1] \in calls[s[k]]
    BY <2>1, ChainFacts
  <2>3. CASE k = j - 1
    BY <1>0, <2>2, <2>3
  <2>4. CASE k # j - 1
    <3>1. k + 1 \in i..(j - 1)
      BY <1>0, <2>4
    <3> QED
      BY <2>2, <3>1
  <2> QED
    BY <2>3, <2>4
<1>3. ~HasBottom(S, calls)
  BY <1>2 DEF HasBottom
<1> HIDE DEF S
<1> QED
  BY <1>1, <1>3 DEF RingFree

\* A chain without repetition is no longer than there are functions.
LEMMA DistinctBounded ==
  ASSUME NEW s \in Seq(Function), Distinct(s)
  PROVE  Cardinality(Function) \in Nat /\ Len(s) <= Cardinality(Function)
<1>1. Cardinality(ToSet(s)) = Len(s)
  BY DistinctSet
<1>2. ToSet(s) \in SUBSET Function
  BY DEF ToSet
<1> QED
  BY <1>1, <1>2, CallGraphAssumption, FS_Subset, FS_CardinalityType

-----------------------------------------------------------------------------
(* What the recursions yield.                                              *)

\* The chains from F to the first G, over at most n calls.
ChainsTo(calls, F, G, n) ==
  {s \in Chains(calls) : /\ s[1] = F /\ Len(s) <= n + 1
                         /\ s[Len(s)] = G /\ \A k \in 1..(Len(s) - 1) : s[k] # G}

LEMMA ChainsToSelf ==
  ASSUME NEW calls, NEW G \in Function, NEW n \in Nat
  PROVE  ChainsTo(calls, G, G, n) = {<<G>>}
<1>1. <<G>> \in ChainsTo(calls, G, G, n)
  <2>1. <<G>> \in Chains(calls) /\ Len(<<G>>) = 1 /\ <<G>>[1] = G
    BY SingleChain
  <2> QED
    BY <2>1 DEF ChainsTo
<1>2. ASSUME NEW s \in ChainsTo(calls, G, G, n) PROVE s = <<G>>
  <2>1. s \in Chains(calls) /\ s[1] = G /\ \A k \in 1..(Len(s) - 1) : s[k] # G
    BY DEF ChainsTo
  <2>2. Len(s) \in Nat /\ Len(s) >= 1
    BY <2>1, ChainFacts
  <2>3. ~(Len(s) <= 1) => 1 \in 1..(Len(s) - 1)
    BY <2>2
  <2>4. Len(s) <= 1
    BY <2>1, <2>3
  <2> QED
    BY <2>1, <2>4, SingleChain
<1> QED
  BY <1>1, <1>2

LEMMA ChainsToNear ==
  ASSUME NEW calls, NEW F \in Function, NEW G \in Function, F # G
  PROVE  ChainsTo(calls, F, G, 0) = {}
<1> SUFFICES ASSUME NEW s \in ChainsTo(calls, F, G, 0) PROVE FALSE
  OBVIOUS
<1>1. s \in Chains(calls) /\ s[1] = F /\ Len(s) <= 1 /\ s[Len(s)] = G
  BY DEF ChainsTo
<1> QED
  BY <1>1, ChainFacts

\* F put before those of each of its callees.
CallFirst(calls, F, G, n) ==
  UNION {{<<F>> \o path : path \in ChainsTo(calls, CF, G, n)} : CF \in calls[F]}

LEMMA ChainsToFar ==
  ASSUME NEW calls \in [Function -> SUBSET Function], NEW F \in Function, NEW G \in Function, F # G,
         NEW n \in Nat
  PROVE  ChainsTo(calls, F, G, n + 1) = CallFirst(calls, F, G, n)
<1> DEFINE Onward == CallFirst(calls, F, G, n)
<1>1. ASSUME NEW CF \in calls[F], NEW p \in ChainsTo(calls, CF, G, n)
      PROVE  <<F>> \o p \in ChainsTo(calls, F, G, n + 1)
  <2> DEFINE s == <<F>> \o p
  <2>1. /\ p \in Chains(calls) /\ p[1] = CF /\ Len(p) <= n + 1
        /\ p[Len(p)] = G /\ \A k \in 1..(Len(p) - 1) : p[k] # G
    BY DEF ChainsTo
  <2>2. Len(p) \in Nat /\ Len(p) \in 1..Len(p)
    BY <2>1, ChainFacts
  <2>3. s \in Chains(calls) /\ Len(s) = Len(p) + 1 /\ s[1] = F /\ \A k \in 1..Len(p) : s[k + 1] = p[k]
    BY <2>1, LongerChain
  <2> HIDE DEF s
  <2>4. s[Len(s)] = G
    BY <2>1, <2>2, <2>3
  <2>5. ASSUME NEW k \in 1..(Len(s) - 1) PROVE s[k] # G
    <3>1. CASE k = 1
      BY <2>3, <3>1
    <3>2. CASE k # 1
      <4>1. k - 1 \in 1..Len(p) /\ k - 1 \in 1..(Len(p) - 1) /\ (k - 1) + 1 = k
        BY <2>2, <2>3, <3>2
      <4> QED
        BY <2>1, <2>3, <4>1
    <3> QED
      BY <3>1, <3>2
  <2>6. Len(s) <= (n + 1) + 1
    BY <2>1, <2>2, <2>3
  <2>7. s \in ChainsTo(calls, F, G, n + 1)
    BY <2>3, <2>4, <2>5, <2>6 DEF ChainsTo
  <2> QED
    BY <2>7 DEF s
<1>2. ASSUME NEW s \in ChainsTo(calls, F, G, n + 1) PROVE s \in Onward
  <2> DEFINE p == Tail(s)
             CF == p[1]
  <2>1. /\ s \in Chains(calls) /\ s[1] = F /\ Len(s) <= (n + 1) + 1
        /\ s[Len(s)] = G /\ \A k \in 1..(Len(s) - 1) : s[k] # G
    BY DEF ChainsTo
  <2>2. Len(s) \in Nat /\ Len(s) > 1
    BY <2>1, ChainFacts
  <2>3. /\ p \in Chains(calls) /\ Len(p) = Len(s) - 1 /\ CF \in calls[F]
        /\ \A k \in 1..(Len(s) - 1) : p[k] = s[k + 1]
        /\ s = <<F>> \o p
    BY <2>1, <2>2, ShorterChain
  <2> HIDE DEF p, CF
  <2>4. Len(p) <= n + 1 /\ p[Len(p)] = G
    BY <2>1, <2>2, <2>3
  <2>5. ASSUME NEW k \in 1..(Len(p) - 1) PROVE p[k] # G
    <3>1. k \in 1..(Len(s) - 1) /\ k + 1 \in 1..(Len(s) - 1)
      BY <2>2, <2>3
    <3> QED
      BY <2>1, <2>3, <3>1
  <2>6. p \in ChainsTo(calls, CF, G, n)
    BY <2>3, <2>4, <2>5 DEF ChainsTo, CF
  <2>7. s \in {<<F>> \o path : path \in ChainsTo(calls, CF, G, n)}
    BY <2>3, <2>6
  <2> QED
    BY <2>3, <2>7 DEF CallFirst
<1>3. Onward \subseteq ChainsTo(calls, F, G, n + 1)
  <2> SUFFICES ASSUME NEW s \in Onward PROVE s \in ChainsTo(calls, F, G, n + 1)
    OBVIOUS
  <2>1. PICK CF \in calls[F] : s \in {<<F>> \o path : path \in ChainsTo(calls, CF, G, n)}
    BY DEF CallFirst
  <2>2. PICK p \in ChainsTo(calls, CF, G, n) : s = <<F>> \o p
    BY <2>1
  <2> QED
    BY <1>1, <2>2
<1> HIDE DEF Onward
<1>4. ChainsTo(calls, F, G, n + 1) = Onward
  BY <1>2, <1>3
<1> QED
  BY <1>4 DEF Onward

\* The chains of n + 1 functions from F without G.
ChainsPast(calls, F, G, n) ==
  {s \in Chains(calls) : s[1] = F /\ Len(s) = n + 1 /\ \A k \in 1..Len(s) : s[k] # G}

LEMMA ChainsPastNear ==
  ASSUME NEW calls, NEW F \in Function, NEW G
  PROVE  ChainsPast(calls, F, G, 0) # {} <=> F # G
<1>1. F # G => <<F>> \in ChainsPast(calls, F, G, 0)
  <2>1. <<F>> \in Chains(calls) /\ Len(<<F>>) = 1 /\ <<F>>[1] = F
    BY SingleChain
  <2> QED
    BY <2>1 DEF ChainsPast
<1>2. ASSUME NEW s \in ChainsPast(calls, F, G, 0) PROVE F # G
  BY DEF ChainsPast
<1> QED
  BY <1>1, <1>2

LEMMA ChainsPastFar ==
  ASSUME NEW calls \in [Function -> SUBSET Function], NEW F \in Function, NEW G, NEW n \in Nat
  PROVE  ChainsPast(calls, F, G, n + 1) # {} <=>
           F # G /\ \E CF \in calls[F] : ChainsPast(calls, CF, G, n) # {}
<1>1. ASSUME F # G, NEW CF \in calls[F], NEW p \in ChainsPast(calls, CF, G, n)
      PROVE  ChainsPast(calls, F, G, n + 1) # {}
  <2> DEFINE s == <<F>> \o p
  <2>1. p \in Chains(calls) /\ p[1] = CF /\ Len(p) = n + 1 /\ \A k \in 1..Len(p) : p[k] # G
    BY DEF ChainsPast
  <2>2. s \in Chains(calls) /\ Len(s) = Len(p) + 1 /\ s[1] = F /\ \A k \in 1..Len(p) : s[k + 1] = p[k]
    BY <2>1, LongerChain
  <2> HIDE DEF s
  <2>3. ASSUME NEW k \in 1..Len(s) PROVE s[k] # G
    <3>1. CASE k = 1
      BY <1>1, <2>2, <3>1
    <3>2. CASE k # 1
      <4>1. k - 1 \in 1..Len(p) /\ (k - 1) + 1 = k
        BY <2>1, <2>2, <3>2
      <4> QED
        BY <2>1, <2>2, <4>1
    <3> QED
      BY <3>1, <3>2
  <2>4. s \in ChainsPast(calls, F, G, n + 1)
    BY <2>1, <2>2, <2>3 DEF ChainsPast
  <2> QED
    BY <2>4
<1>2. ASSUME NEW s \in ChainsPast(calls, F, G, n + 1)
      PROVE  F # G /\ \E CF \in calls[F] : ChainsPast(calls, CF, G, n) # {}
  <2> DEFINE p == Tail(s)
             CF == p[1]
  <2>1. s \in Chains(calls) /\ s[1] = F /\ Len(s) = (n + 1) + 1 /\ \A k \in 1..Len(s) : s[k] # G
    BY DEF ChainsPast
  <2>2. Len(s) > 1 /\ 1 \in 1..Len(s)
    BY <2>1
  <2>3. /\ p \in Chains(calls) /\ Len(p) = Len(s) - 1 /\ CF \in calls[F]
        /\ \A k \in 1..(Len(s) - 1) : p[k] = s[k + 1]
    BY <2>1, <2>2, ShorterChain
  <2> HIDE DEF p, CF
  <2>4. ASSUME NEW k \in 1..Len(p) PROVE p[k] # G
    <3>1. k \in 1..(Len(s) - 1) /\ k + 1 \in 1..Len(s)
      BY <2>1, <2>3
    <3> QED
      BY <2>1, <2>3, <3>1
  <2>5. p \in ChainsPast(calls, CF, G, n)
    BY <2>1, <2>3, <2>4 DEF ChainsPast, CF
  <2> QED
    BY <2>1, <2>2, <2>3, <2>5
<1> QED
  BY <1>1, <1>2

\* The chains of at most n functions from F in which none occurs twice.
SimpleChains(calls, F, n) == {s \in Chains(calls) : s[1] = F /\ Len(s) <= n /\ Distinct(s)}

LEMMA SimpleChainsNear ==
  ASSUME NEW calls, NEW F \in Function
  PROVE  SimpleChains(calls, F, 1) = {<<F>>}
<1>1. <<F>> \in SimpleChains(calls, F, 1)
  <2>1. <<F>> \in Chains(calls) /\ Len(<<F>>) = 1 /\ <<F>>[1] = F
    BY SingleChain
  <2> QED
    BY <2>1 DEF SimpleChains, Distinct
<1>2. ASSUME NEW s \in SimpleChains(calls, F, 1) PROVE s = <<F>>
  <2>1. s \in Chains(calls) /\ s[1] = F /\ Len(s) <= 1
    BY DEF SimpleChains
  <2> QED
    BY <2>1, SingleChain
<1> QED
  BY <1>1, <1>2

LEMMA SimpleChainsFar ==
  ASSUME NEW calls \in [Function -> SUBSET Function], NEW F \in Function, NEW n \in Nat, n >= 1
  PROVE  SimpleChains(calls, F, n + 1) = SimpleChains(calls, F, n) \cup
           UNION {{Append(c, CF) : CF \in calls[Last(c)] \ ToSet(c)} : c \in SimpleChains(calls, F, n)}
<1> DEFINE Onward == UNION {{Append(c, CF) : CF \in calls[Last(c)] \ ToSet(c)} : c \in SimpleChains(calls, F, n)}
<1>1. SimpleChains(calls, F, n) \subseteq SimpleChains(calls, F, n + 1)
  <2> SUFFICES ASSUME NEW s \in SimpleChains(calls, F, n) PROVE s \in SimpleChains(calls, F, n + 1)
    OBVIOUS
  <2>1. s \in Chains(calls) /\ s[1] = F /\ Len(s) <= n /\ Distinct(s)
    BY DEF SimpleChains
  <2>2. Len(s) <= n + 1
    BY <2>1, ChainFacts
  <2> QED
    BY <2>1, <2>2 DEF SimpleChains
<1>2. ASSUME NEW c \in SimpleChains(calls, F, n), NEW CF \in calls[Last(c)] \ ToSet(c)
      PROVE  Append(c, CF) \in SimpleChains(calls, F, n + 1)
  <2> DEFINE s == Append(c, CF)
  <2>1. c \in Chains(calls) /\ c[1] = F /\ Len(c) <= n /\ Distinct(c)
    BY DEF SimpleChains
  <2>2. /\ c \in Seq(Function) /\ Len(c) \in Nat /\ Len(c) >= 1 /\ Last(c) = c[Len(c)]
        /\ c[Len(c)] \in Function /\ CF \in Function
    BY <2>1, ChainFacts DEF Last
  <2>3. /\ s \in Seq(Function) /\ Len(s) = Len(c) + 1 /\ s[Len(c) + 1] = CF
        /\ \A k \in 1..Len(c) : s[k] = c[k]
    BY <2>2, AppendFacts
  <2>4. Distinct(s)
    BY <2>1, <2>2, AppendDistinct
  <2> HIDE DEF s
  <2>5. ASSUME NEW k \in 1..(Len(s) - 1) PROVE s[k + 1] \in calls[s[k]]
    <3>1. CASE k = Len(c)
      BY <2>2, <2>3, <3>1
    <3>2. CASE k # Len(c)
      <4>1. k \in 1..(Len(c) - 1) /\ k \in 1..Len(c) /\ k + 1 \in 1..Len(c)
        BY <2>2, <2>3, <3>2
      <4> QED
        BY <2>1, <2>3, <4>1, ChainFacts
    <3> QED
      BY <3>1, <3>2
  <2>6. s # <<>> /\ s[1] = F /\ Len(s) <= n + 1
    BY <2>1, <2>2, <2>3
  <2>7. s \in SimpleChains(calls, F, n + 1)
    BY <2>3, <2>4, <2>5, <2>6 DEF Chains, SimpleChains
  <2> QED
    BY <2>7 DEF s
<1>3. ASSUME NEW s \in SimpleChains(calls, F, n + 1) PROVE s \in SimpleChains(calls, F, n) \cup Onward
  <2> DEFINE c == Front(s)
             CF == s[Len(s)]
  <2>1. s \in Chains(calls) /\ s[1] = F /\ Len(s) <= n + 1 /\ Distinct(s)
    BY DEF SimpleChains
  <2>2. s \in Seq(Function) /\ Len(s) \in Nat /\ Len(s) >= 1 /\ CF \in Function /\ s # <<>>
    BY <2>1, ChainFacts
  <2>3. CASE Len(s) <= n
    BY <2>1, <2>3 DEF SimpleChains
  <2>4. CASE ~(Len(s) <= n)
    <3>1. c \in Seq(Function) /\ Len(c) = Len(s) - 1 /\ \A k \in 1..(Len(s) - 1) : c[k] = s[k]
      BY <2>2, FrontFacts
    <3>2. s = Append(c, CF)
      BY <2>2 DEF Front
    <3>3. Len(c) >= 1 /\ Len(c) <= n /\ Len(c) \in Nat
      BY <2>1, <2>2, <2>4, <3>1
    <3> HIDE DEF c, CF
    <3>4. ASSUME NEW k \in 1..(Len(c) - 1) PROVE c[k + 1] \in calls[c[k]]
      <4>1. k \in 1..(Len(s) - 1) /\ k + 1 \in 1..(Len(s) - 1)
        BY <2>2, <3>1
      <4> QED
        BY <2>1, <3>1, <4>1, ChainFacts
    <3>5. Distinct(c)
      <4>1. \A k \in 1..Len(c) : k \in 1..Len(s) /\ c[k] = s[k]
        BY <2>2, <3>1
      <4> QED
        BY <2>1, <4>1 DEF Distinct
    <3>6. c \in SimpleChains(calls, F, n)
      <4>1. c # <<>> /\ c[1] = F
        BY <2>1, <2>2, <3>1, <3>3
      <4> QED
        BY <3>1, <3>3, <3>4, <3>5, <4>1 DEF Chains, SimpleChains
    <3>7. CF \in calls[Last(c)]
      <4>1. Len(s) - 1 \in 1..(Len(s) - 1) /\ (Len(s) - 1) + 1 = Len(s)
        BY <2>2, <3>1, <3>3
      <4>2. s[Len(s)] \in calls[s[Len(s) - 1]] /\ c[Len(c)] = s[Len(s) - 1]
        BY <2>1, <3>1, <4>1, ChainFacts
      <4> QED
        BY <4>2 DEF Last, CF
    <3>8. CF \notin ToSet(c)
      <4>1. \A k \in DOMAIN c : k \in 1..Len(s) /\ Len(s) \in 1..Len(s) /\ k # Len(s) /\ c[k] = s[k]
        BY <2>2, <3>1, <3>3
      <4> QED
        BY <2>1, <4>1 DEF Distinct, ToSet, CF
    <3>9. s \in {Append(c, G) : G \in calls[Last(c)] \ ToSet(c)}
      BY <3>2, <3>7, <3>8
    <3> QED
      BY <3>6, <3>9
  <2> QED
    BY <2>3, <2>4
<1>4. Onward \subseteq SimpleChains(calls, F, n + 1)
  <2> SUFFICES ASSUME NEW s \in Onward PROVE s \in SimpleChains(calls, F, n + 1)
    OBVIOUS
  <2>1. PICK c \in SimpleChains(calls, F, n) : s \in {Append(c, CF) : CF \in calls[Last(c)] \ ToSet(c)}
    OBVIOUS
  <2>2. PICK CF \in calls[Last(c)] \ ToSet(c) : s = Append(c, CF)
    BY <2>1
  <2> QED
    BY <1>2, <2>2
<1> HIDE DEF Onward
<1>5. SimpleChains(calls, F, n + 1) = SimpleChains(calls, F, n) \cup Onward
  BY <1>1, <1>3, <1>4
<1> QED
  BY <1>5 DEF Onward

\* getReachablePath finds these chains, over as many calls as there are functions.
LEMMA PathsAreChains ==
  ASSUME NEW F \in Function, NEW G \in Function, children \in [Function -> SUBSET Function]
  PROVE  getReachablePath(F, G) = ChainsTo(children, F, G, Cardinality(Function))
<1> DEFINE N == Cardinality(Function)
           onward(f, n, H) == UNION {{<<H>> \o path : path \in f[n - 1][CF]} : CF \in children[H]}
           row(f, n) == [H \in Function |-> IF H = G THEN {<<H>>} ELSE IF n = 0 THEN {} ELSE onward(f, n, H)]
           step(f) == [n \in 0..N |-> row(f, n)]
           from == CHOOSE f : f = step(f)
           chains == [n \in 0..N |-> [H \in Function |-> ChainsTo(children, H, G, n)]]
<1>1. getReachablePath(F, G) = from[N][F]
  BY DEF getReachablePath
<1>2. N \in Nat
  BY CallGraphAssumption, FS_CardinalityType
<1> HIDE DEF N
<1>3. ASSUME NEW f, NEW n \in 0..N, n = 0 \/ f[n - 1] = chains[n - 1]
      PROVE  chains[n] = row(f, n)
  <2>1. ASSUME NEW H \in Function
        PROVE  ChainsTo(children, H, G, n) = IF H = G THEN {<<H>>} ELSE IF n = 0 THEN {} ELSE onward(f, n, H)
    <3>1. n \in Nat
      BY <1>2
    <3>2. CASE H = G
      BY <3>1, <3>2, ChainsToSelf
    <3>3. CASE H # G /\ n = 0
      BY <3>3, ChainsToNear
    <3>4. CASE H # G /\ n # 0
      <4>1. n - 1 \in Nat /\ n - 1 \in 0..N /\ (n - 1) + 1 = n
        BY <1>2, <3>4
      <4>2. \A CF \in children[H] : CF \in Function /\ f[n - 1][CF] = ChainsTo(children, CF, G, n - 1)
        BY <1>3, <3>4, <4>1
      <4>3. onward(f, n, H) = CallFirst(children, H, G, n - 1)
        BY <4>2 DEF CallFirst
      <4>4. \A m \in Nat : ChainsTo(children, H, G, m + 1) = CallFirst(children, H, G, m)
        BY <3>4, ChainsToFar
      <4>5. ChainsTo(children, H, G, (n - 1) + 1) = CallFirst(children, H, G, n - 1)
        BY <4>1, <4>4
      <4> QED
        BY <3>4, <4>1, <4>3, <4>5
    <3> QED
      BY <3>2, <3>3, <3>4
  <2> QED
    BY <2>1
<1> HIDE DEF row
<1>4. 0 \in 0..N /\ N \in 0..N /\ \A n \in 1..N : n - 1 \in 0..N /\ n \in 0..N /\ n # 0
  BY <1>2
<1>5. \A n \in 0..N : chains[n] = row(chains, n)
  BY <1>3
<1>6. chains = step(chains)
  BY <1>5
<1>7. from = step(from)
  BY <1>6
<1> HIDE DEF from, chains
<1> DEFINE P == {n \in 0..N : from[n] = chains[n]}
<1>8. 0 \in P
  BY <1>3, <1>4, <1>7
<1>9. ASSUME NEW n \in 1..N, n - 1 \in P PROVE n \in P
  BY <1>3, <1>4, <1>7, <1>9
<1> HIDE DEF P
<1>10. from[N] = chains[N]
  BY <1>2, <1>4, <1>8, <1>9, BoundedInduction DEF P
<1> QED
  BY <1>1, <1>4, <1>10 DEF chains, N

\* It goes on over as many calls as there are functions only along a chain so long.
LEMMA EndlessIsLong ==
  ASSUME NEW F \in Function, NEW G \in Function, children \in [Function -> SUBSET Function],
         Endless(F, G)
  PROVE  ChainsPast(children, F, G, Cardinality(Function)) # {}
<1> DEFINE N == Cardinality(Function)
           row(f, n) == [H \in Function |-> H # G /\ (n = 0 \/ \E CF \in children[H] : f[n - 1][CF])]
           step(f) == [n \in 0..N |-> row(f, n)]
           goesOn == CHOOSE f : f = step(f)
           long == [n \in 0..N |-> [H \in Function |-> ChainsPast(children, H, G, n) # {}]]
<1>1. goesOn[N][F]
  BY DEF Endless
<1>2. N \in Nat
  BY CallGraphAssumption, FS_CardinalityType
<1> HIDE DEF N
<1>3. ASSUME NEW f, NEW n \in 0..N, n = 0 \/ f[n - 1] = long[n - 1]
      PROVE  long[n] = row(f, n)
  <2>1. ASSUME NEW H \in Function
        PROVE  (ChainsPast(children, H, G, n) # {}) = (H # G /\ (n = 0 \/ \E CF \in children[H] : f[n - 1][CF]))
    <3>3. CASE n = 0
      BY <3>3, ChainsPastNear
    <3>4. CASE n # 0
      <4>1. n - 1 \in Nat /\ n - 1 \in 0..N /\ (n - 1) + 1 = n
        BY <1>2, <3>4
      <4>2. \A CF \in children[H] : CF \in Function /\ f[n - 1][CF] = (ChainsPast(children, CF, G, n - 1) # {})
        BY <1>3, <3>4, <4>1
      <4>4. \A m \in Nat : ChainsPast(children, H, G, m + 1) # {} <=>
              H # G /\ \E CF \in children[H] : ChainsPast(children, CF, G, m) # {}
        BY ChainsPastFar
      <4>5. ChainsPast(children, H, G, (n - 1) + 1) # {} <=>
              H # G /\ \E CF \in children[H] : ChainsPast(children, CF, G, n - 1) # {}
        BY <4>1, <4>4
      <4> QED
        BY <3>4, <4>1, <4>2, <4>5
    <3> QED
      BY <3>3, <3>4
  <2> QED
    BY <2>1
<1> HIDE DEF row
<1>4. 0 \in 0..N /\ N \in 0..N /\ \A n \in 1..N : n - 1 \in 0..N /\ n \in 0..N /\ n # 0
  BY <1>2
<1>5. \A n \in 0..N : long[n] = row(long, n)
  BY <1>3
<1>6. long = step(long)
  BY <1>5
<1>7. goesOn = step(goesOn)
  BY <1>6
<1> HIDE DEF goesOn, long
<1> DEFINE P == {n \in 0..N : goesOn[n] = long[n]}
<1>8. 0 \in P
  BY <1>3, <1>4, <1>7
<1>9. ASSUME NEW n \in 1..N, n - 1 \in P PROVE n \in P
  BY <1>3, <1>4, <1>7, <1>9
<1> HIDE DEF P
<1>10. goesOn[N] = long[N]
  BY <1>2, <1>4, <1>8, <1>9, BoundedInduction DEF P
<1> QED
  BY <1>1, <1>4, <1>10 DEF long, N

\* CallChains are the simple ones that end at G.
LEMMA CallChainsAreSimple ==
  ASSUME NEW F \in Function, NEW G \in Function, NEW calls \in [Function -> SUBSET Function]
  PROVE  CallChains(F, G, calls) = {c \in SimpleChains(calls, F, Cardinality(Function)) : Last(c) = G}
<1> DEFINE N == Cardinality(Function)
           onward(S) == UNION {{Append(c, CF) : CF \in calls[Last(c)] \ ToSet(c)} : c \in S}
           row(f, n) == IF n = 1 THEN {<<F>>} ELSE f[n - 1] \cup onward(f[n - 1])
           step(f) == [n \in 1..N |-> row(f, n)]
           longer == CHOOSE f : f = step(f)
           simple == [n \in 1..N |-> SimpleChains(calls, F, n)]
<1>1. CallChains(F, G, calls) = {c \in longer[N] : Last(c) = G}
  BY DEF CallChains
<1>2. N \in Nat /\ N >= 1
  BY CallGraphAssumption, FS_CardinalityType, FS_EmptySet
<1> HIDE DEF N
<1>3. ASSUME NEW f, NEW n \in 1..N, n = 1 \/ f[n - 1] = simple[n - 1]
      PROVE  simple[n] = row(f, n)
  <2>1. CASE n = 1
    BY <2>1, SimpleChainsNear
  <2>2. CASE n # 1
    <3>1. n - 1 \in Nat /\ n - 1 \in 1..N /\ n - 1 >= 1 /\ (n - 1) + 1 = n
      BY <1>2, <2>2
    <3>2. f[n - 1] = SimpleChains(calls, F, n - 1)
      BY <1>3, <2>2, <3>1
    <3>3. SimpleChains(calls, F, (n - 1) + 1) = SimpleChains(calls, F, n - 1) \cup onward(SimpleChains(calls, F, n - 1))
      BY <3>1, SimpleChainsFar
    <3> HIDE DEF onward
    <3> QED
      BY <2>2, <3>1, <3>2, <3>3
  <2> QED
    BY <2>1, <2>2
<1> HIDE DEF row, onward
<1>4. 1 \in 1..N /\ N \in 1..N /\ \A n \in 1..N : n # 1 => n - 1 \in 1..N
  BY <1>2
<1>5. \A n \in 1..N : simple[n] = row(simple, n)
  BY <1>3
<1>6. simple = step(simple)
  BY <1>5
<1>7. longer = step(longer)
  BY <1>6
<1> HIDE DEF longer, simple
<1> DEFINE P == {n \in 0..N : n # 0 => longer[n] = simple[n]}
<1>8. 0 \in P
  BY <1>2
<1>9. ASSUME NEW n \in 1..N, n - 1 \in P PROVE n \in P
  <2>1. n = 1 \/ longer[n - 1] = simple[n - 1]
    BY <1>4, <1>9
  <2>2. longer[n] = row(longer, n) /\ n \in 0..N
    BY <1>2, <1>7
  <2> QED
    BY <1>3, <2>1, <2>2
<1> HIDE DEF P
<1>10. longer[N] = simple[N]
  <2>1. 0..N \subseteq P
    BY <1>2, <1>8, <1>9, BoundedInduction
  <2>2. N \in 0..N /\ N # 0
    BY <1>2
  <2> QED
    BY <2>1, <2>2 DEF P
<1> QED
  BY <1>1, <1>4, <1>10 DEF simple, N

\* From what is closed under calls and free of rings, all of them are found.
LEMMA FoundWithoutRings ==
  ASSUME children \in [Function -> SUBSET Function], NEW R \in SUBSET Function,
         ClosedUnder(R, children), RingFree(R, children), NEW F \in R, NEW G \in Function
  PROVE  ~Endless(F, G) /\ getReachablePath(F, G) = CallChains(F, G, children)
<1> DEFINE N == Cardinality(Function)
<1>0. N \in Nat
  BY CallGraphAssumption, FS_CardinalityType
<1>1. ASSUME NEW s \in Chains(children), s[1] = F
      PROVE  Distinct(s) /\ Len(s) <= N /\ Len(s) \in Nat /\ Len(s) \in 1..Len(s)
  <2>1. Distinct(s)
    BY <1>1, ChainStaysIn, ChainDistinct
  <2>2. s \in Seq(Function) /\ Len(s) \in Nat /\ Len(s) \in 1..Len(s)
    BY ChainFacts
  <2> QED
    BY <2>1, <2>2, DistinctBounded
<1> HIDE DEF N
<1>2. ~Endless(F, G)
  <2> SUFFICES ASSUME ChainsPast(children, F, G, N) # {} PROVE FALSE
    BY EndlessIsLong DEF N
  <2>1. PICK s \in Chains(children) : s[1] = F /\ Len(s) = N + 1
    BY DEF ChainsPast
  <2>2. Len(s) <= N
    BY <1>1, <2>1
  <2> QED
    BY <1>0, <2>1, <2>2
<1>3. ASSUME NEW s \in ChainsTo(children, F, G, N)
      PROVE  s \in SimpleChains(children, F, N) /\ Last(s) = G
  <2>1. s \in Chains(children) /\ s[1] = F /\ s[Len(s)] = G
    BY DEF ChainsTo
  <2> QED
    BY <1>1, <2>1 DEF SimpleChains, Last
<1>4. ASSUME NEW s \in SimpleChains(children, F, N), Last(s) = G
      PROVE  s \in ChainsTo(children, F, G, N)
  <2>1. s \in Chains(children) /\ s[1] = F /\ s[Len(s)] = G
    BY <1>4 DEF SimpleChains, Last
  <2>2. Distinct(s) /\ Len(s) <= N /\ Len(s) \in Nat /\ Len(s) \in 1..Len(s)
    BY <1>1, <2>1
  <2>3. ASSUME NEW k \in 1..(Len(s) - 1) PROVE s[k] # G
    <3>1. k \in 1..Len(s) /\ k # Len(s)
      BY <2>2
    <3> QED
      BY <2>1, <2>2, <3>1 DEF Distinct
  <2>4. Len(s) <= N + 1
    BY <1>0, <2>2
  <2> QED
    BY <2>1, <2>3, <2>4 DEF ChainsTo
<1>5. ChainsTo(children, F, G, N) = {c \in SimpleChains(children, F, N) : Last(c) = G}
  BY <1>3, <1>4
<1>6. getReachablePath(F, G) = ChainsTo(children, F, G, N)
  BY PathsAreChains DEF N
<1>7. CallChains(F, G, children) = {c \in SimpleChains(children, F, N) : Last(c) = G}
  BY CallChainsAreSimple DEF N
<1> QED
  BY <1>2, <1>5, <1>6, <1>7

\* From each function below the top-level ones getReachablePath comes back, without any
\* marks, with all chains of calls to any other function.
THEOREM EveryPathFound == Spec => []PathsFound
<1>1. WalkInv /\ NoRingBelowTop => PathsFound
  <2> SUFFICES ASSUME WalkInv, NoRingBelowTop, phase = "ready",
                      NEW F \in ReachedFrom(Top, children), NEW G \in Function
               PROVE  ~Endless(F, G) /\ getReachablePath(F, G) = CallChains(F, G, children)
    BY DEF PathsFound
  <2> DEFINE R == ReachedFrom(Top, children)
  <2>1. children \in [Function -> SUBSET Function] /\ cg \in CallGraph
    BY DEF WalkInv, TypeOK
  <2>2. R \in SUBSET Function /\ F \in R
    BY DEF ReachedFrom
  <2>3. ClosedUnder(R, children)
    <3>1. Top \in SUBSET Function
      BY <2>1 DEF CallGraph, Top, ToSet
    <3>2. \A H \in R : \A CF \in children[H] : CF \in Function => CF \in R
      BY <3>1, ReachedClosed
    <3> QED
      BY <2>1, <2>2, <3>2 DEF ClosedUnder
  <2>4. RingFree(R, children)
    BY DEF NoRingBelowTop
  <2> HIDE DEF R
  <2> QED
    BY <2>1, <2>2, <2>3, <2>4, FoundWithoutRings
<1> QED
  BY <1>1, WalkInvariant, NoRing, PTL

=============================================================================
