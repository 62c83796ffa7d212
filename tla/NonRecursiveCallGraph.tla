------------------------- MODULE NonRecursiveCallGraph -------------------------
(***************************************************************************)
(* NonRecursiveCallGraph of lib/framework/CallGraph.cpp: a copy of the     *)
(* call graph from which a depth-first walk from the top-level functions   *)
(* drops the calls that close a ring.  The recursion of spanningTree is a  *)
(* stack of frames.  The children of a function are a std::set of          *)
(* pointers; the walk may meet them in any order.                          *)
(***************************************************************************)
EXTENDS Naturals, Sequences, FiniteSets, SequencesExt

CONSTANTS
  Function,   \* the functions of the resource
  CallGraphs  \* the call graphs that CallGraph may have built

\* What the constructor reads of a CallGraph: the functions that have a CallGraphNode,
\* the callees of each function and the top-level functions in order.
CallGraph == [node : SUBSET Function, child : [Function -> SUBSET Function], top : Seq(Function)]

\* A function with a call has a node, and so has what it calls.
BothEndsHaveNodes(g) ==
  \A F \in Function : g.child[F] # {} => F \in g.node /\ g.child[F] \subseteq g.node

\* A resource has finitely many functions, and CallGraph builds such graphs.
ASSUME CallGraphAssumption ==
  /\ IsFiniteSet(Function)
  /\ \A g \in CallGraphs : g \in CallGraph /\ BothEndsHaveNodes(g)

VARIABLES
  cg,           \* the call graph the constructor is given
  phase,        \* how far the constructor is: "copy", "walk", "prune" or "ready"
  nodes,        \* the functions that have a NonRecursiveCallGraphNode
  children, parents,
  colors,       \* 0: not visited, 1: being visited, 2: visited
  started,      \* how many top-level functions the walk has started from
  stack,        \* the calls of spanningTree: a function and its callees still to come
  removeEdges,
  finished,     \* history: functions from which spanningTree has returned
  fault         \* "out_of_range" once nodes.at has thrown

graph == <<nodes, children, parents>>
walk == <<colors, started, stack, removeEdges, finished, fault>>
vars == <<cg, phase, graph, walk>>

Init ==
  /\ cg \in CallGraphs
  /\ phase = "copy"
  /\ nodes = {}
  /\ children = [F \in Function |-> {}]
  /\ parents = [F \in Function |-> {}]
  /\ colors = [F \in Function |-> 0]
  /\ started = 0
  /\ stack = <<>>
  /\ removeEdges = {}
  /\ finished = {}
  /\ fault = "none"

\* Here and below, a definition without a comment right before a commented one is a
\* slip one could make in the code of the latter.
CopiedCallers == {F \in Function : cg.child[F] # {}}

\* The nodes of the call graph, as the loop meets them: callers and callees.
Copied == cg.node \cup UNION {cg.child[F] : F \in cg.node}

\* Functions that call themselves lose that call here already.
Copy ==
  /\ phase = "copy"
  /\ nodes' = Copied
  /\ children' = [F \in Function |-> cg.child[F] \ {F}]
  /\ parents' = [F \in Function |-> {P \in Function : F \in cg.child[P]} \ {F}]
  /\ phase' = "walk"
  /\ UNCHANGED <<cg, walk>>

\* spanningTree(F) begins: F is being visited, and getChildren(F) throws if F has no node.
Enter(F, below) ==
  /\ colors' = [colors EXCEPT ![F] = 1]
  /\ IF F \in nodes
     THEN stack' = Append(below, [fn |-> F, todo |-> children[F]]) /\ UNCHANGED fault
     ELSE stack' = below /\ fault' = "out_of_range"

Walking == phase = "walk" /\ fault = "none"

Start ==
  /\ Walking /\ stack = <<>> /\ started < Len(cg.top)
  /\ started' = started + 1
  /\ Enter(cg.top[started'], <<>>)
  /\ UNCHANGED <<cg, phase, graph, removeEdges, finished>>

\* What the check after the recursive call marks for removal.
MarkedIfSeen(F, CF, color) == IF color[CF] # 0 THEN {<<F, CF>>} ELSE {}
MarkedNever(F, CF, color) == {}
Marked(F, CF, color) == IF color[CF] = 1 THEN {<<F, CF>>} ELSE {}

\* What is left of a call of spanningTree when it comes to CF.
Rest(frame, CF) == [frame EXCEPT !.todo = @ \ {CF}]

\* The walk comes to a callee CF of the function that it is visiting.
Visit(CF) ==
  /\ Walking /\ stack # <<>> /\ CF \in Last(stack).todo
  /\ LET F == Last(stack).fn
         below == Append(Front(stack), Rest(Last(stack), CF))
     IN \/ /\ colors[CF] = 0
           /\ Enter(CF, below)
           /\ UNCHANGED removeEdges
        \/ /\ colors[CF] # 0
           /\ stack' = below
           /\ removeEdges' = removeEdges \cup Marked(F, CF, colors)
           /\ UNCHANGED <<colors, fault>>
  /\ UNCHANGED <<cg, phase, graph, started, finished>>

FinishGrey ==
  /\ Walking /\ stack # <<>> /\ Last(stack).todo = {}
  /\ stack' = Front(stack)
  /\ finished' = finished \cup {Last(stack).fn}
  /\ removeEdges' = IF Len(stack) > 1
                    THEN removeEdges \cup Marked(Last(Front(stack)).fn, Last(stack).fn, colors)
                    ELSE removeEdges
  /\ UNCHANGED <<cg, phase, graph, colors, started, fault>>

\* spanningTree returns, and its caller looks at the color of the callee again.
Finish ==
  /\ Walking /\ stack # <<>> /\ Last(stack).todo = {}
  /\ LET F == Last(stack).fn IN
       /\ colors' = [colors EXCEPT ![F] = 2]
       /\ finished' = finished \cup {F}
       /\ removeEdges' = IF Len(stack) > 1
                         THEN removeEdges \cup Marked(Last(Front(stack)).fn, F, colors')
                         ELSE removeEdges
  /\ stack' = Front(stack)
  /\ UNCHANGED <<cg, phase, graph, started, fault>>

EndWalk ==
  /\ Walking /\ stack = <<>> /\ started = Len(cg.top)
  /\ phase' = "prune"
  /\ UNCHANGED <<cg, graph, walk>>

\* The marked calls go, at the caller and at the callee.
Prune ==
  /\ phase = "prune"
  /\ children' = [F \in Function |-> {CF \in children[F] : <<F, CF>> \notin removeEdges}]
  /\ parents' = [F \in Function |-> {PF \in parents[F] : <<PF, F>> \notin removeEdges}]
  /\ phase' = "ready"
  /\ UNCHANGED <<cg, nodes, walk>>

Next ==
  \/ Copy
  \/ Start
  \/ \E CF \in Function : Visit(CF)
  \/ Finish
  \/ EndWalk
  \/ Prune

\* The constructor runs to its end.
Spec == Init /\ [][Next]_vars /\ WF_vars(Next)

-----------------------------------------------------------------------------
(* getReachablePath, which remembers nothing of where it has been: it goes *)
(* on without end where calls lead round without meeting endFunc.          *)

\* The paths that traverseNonRecursiveCGForReachablePath finds, each up to the first
\* occurrence of endFunc, if it comes back.
getReachablePath(startFunc, endFunc) ==
  LET from[n \in 0..Cardinality(Function)] == [F \in Function |->
        IF F = endFunc THEN {<<F>>}
        ELSE IF n = 0 THEN {}
        ELSE UNION {{<<F>> \o path : path \in from[n - 1][CF]} : CF \in children[F]}]
  IN from[Cardinality(Function)][startFunc]

Endless(startFunc, endFunc) ==
  LET goesOn[n \in 0..Cardinality(Function)] == [F \in Function |->
        F # endFunc /\ (n = 0 \/ \E CF \in children[F] : goesOn[n - 1][CF])]
  IN goesOn[Cardinality(Function)][startFunc]

-----------------------------------------------------------------------------
(* Properties.                                                             *)

Frame == [fn : Function, todo : SUBSET Function]

\* The members hold functions of the graph; a callee is in the graph too.
TypeOK ==
  /\ cg \in CallGraph /\ BothEndsHaveNodes(cg)
  /\ phase \in {"copy", "walk", "prune", "ready"}
  /\ nodes \subseteq Function
  /\ children \in [Function -> SUBSET nodes]
  /\ parents \in [Function -> SUBSET nodes]
  /\ colors \in [Function -> 0..2]
  /\ started \in 0..Len(cg.top)
  /\ stack \in Seq(Frame)
  /\ removeEdges \subseteq Function \X Function
  /\ finished \subseteq Function
  /\ fault \in {"none", "out_of_range"}

\* A set of functions that no call of the relation calls leads out of.
ClosedUnder(R, calls) == \A F \in R : calls[F] \subseteq R

\* The functions that a chain of calls leads to from S.
ReachedFrom(S, calls) ==
  {F \in Function : \A R \in SUBSET Function : S \subseteq R /\ ClosedUnder(R, calls) => F \in R}

Top == ToSet(cg.top)

\* In a set of functions without a ring some function calls no other of the set.
HasBottom(S, calls) == \E F \in S : calls[F] \cap S = {}
RingFree(R, calls) == \A S \in SUBSET R : S # {} => HasBottom(S, calls)

\* Whatever a top-level function can reach in the finished graph is free of rings: one
\* walk from several roots, each of which may find part of the graph visited by the
\* ones before it, drops enough calls.
NoRingBelowTop ==
  phase = "ready" => RingFree(ReachedFrom(Top, children), children)

\* And it does not drop too many: the calls that are left lead from the top-level
\* functions to everything that the calls of the program lead to.
ReachabilityPreserved ==
  phase = "ready" => ReachedFrom(Top, cg.child) \subseteq ReachedFrom(Top, children)

\* The chains of calls from F to G in which no function occurs twice.
CallChains(F, G, calls) ==
  LET longer[n \in 1..Cardinality(Function)] ==
        IF n = 1 THEN {<<F>>}
        ELSE longer[n - 1] \cup
             UNION {{Append(c, CF) : CF \in calls[Last(c)] \ ToSet(c)} : c \in longer[n - 1]}
  IN {c \in longer[Cardinality(Function)] : Last(c) = G}

\* From whatever a top-level function reaches, getReachablePath comes back, without marks
\* as it is, and with every chain of calls that are left.
PathsFound ==
  phase = "ready" =>
    \A F \in ReachedFrom(Top, children), G \in Function :
      ~Endless(F, G) /\ getReachablePath(F, G) = CallChains(F, G, children)

\* Only a call that closes a ring is ever marked for removal: its callee leads back to
\* its caller.  Calls of functions visited before, on another path, stay.
OnlyRingEdgesGo ==
  \A e \in removeEdges : e[1] \in ReachedFrom({e[2]}, cg.child)

\* getParents and getChildren describe the same calls, before and after the removal.
ParentsMirrorChildren == \A F, P \in Function : P \in parents[F] <=> F \in children[P]

\* nodes.at throws only where a top-level function has no node in the call graph.
ThrowExplained == fault # "none" => \E F \in Top : F \notin cg.node

\* The constructor comes to its end, recursive as the program may be, or nodes.at throws
\* for a top-level function without a node: never for a callee in the midst of the walk.
Terminates == <>(phase = "ready" \/ (fault # "none" /\ ThrowExplained))

-----------------------------------------------------------------------------
(* The inductive invariant behind NoRingBelowTop.                          *)

Kept == [F \in Function |-> {CF \in children[F] : <<F, CF>> \notin removeEdges}]

\* The callees that the call of spanningTree in frame k has been through are finished,
\* or it is waiting for the last of them, or their edge is marked.
FrameInv(k) ==
  LET done == Kept[stack[k].fn] \ stack[k].todo
  IN IF k = Len(stack) THEN done \subseteq finished
     ELSE done \subseteq finished \cup {stack[k + 1].fn}

WalkInv ==
  /\ TypeOK
  /\ phase # "walk" => stack = <<>>
  /\ phase \in {"prune", "ready"} => started = Len(cg.top) /\ fault = "none"
  /\ phase = "copy" => finished = {}
  /\ phase = "ready" => Kept = children
  /\ \A F \in Function : colors[F] = 2 => F \in finished
  /\ fault = "none" =>
       /\ \A k \in DOMAIN stack : FrameInv(k)
       /\ \A j \in 1..started : cg.top[j] \in finished
                                 \/ (stack # <<>> /\ stack[1].fn = cg.top[j])
  /\ ClosedUnder(finished, Kept)
  /\ RingFree(finished, Kept)

=============================================================================
