------------------------------- MODULE CFGPaths -------------------------------
(***************************************************************************)
(* The enumeration of the paths of a function: getPathInFunc and           *)
(* traverseCFGForGetReachablePath of lib/P2A/PointToAnalysis.cpp, which    *)
(* follow common::getNonRecursiveSucc of lib/framework/Common.cpp so that  *)
(* no loop is gone through twice.  A graph g is a record:                  *)
(*   g.succ[b]   the successor edges of block b; one that clang pruned     *)
(*               yields a null pointer, here and as a predecessor of its   *)
(*               target, if it has a target                                *)
(*   g.term[b]   the terminator of b: none, a loop's, or another (if, goto, *)
(*               &&, ||)                                                   *)
(* Blocks are their identifiers: clang numbers them from the exit, 0, which *)
(* leads nowhere, up to the entry, another block, to which none leads.     *)
(***************************************************************************)
EXTENDS Naturals, Sequences, FiniteSets, SequencesExt, Filters

CONSTANTS
  Graphs,     \* the graphs a function may have
  Limits,     \* the pairs of pathlen and pathnum that may be asked for
  Null

Blocks(g) == DOMAIN g.succ
Edge(g) == [to : Blocks(g) \cup {Null}, pruned : BOOLEAN]
Terminator == {"none", "for", "while", "range", "do", "other"}
IsGraph(g) ==
  /\ IsFiniteSet(DOMAIN g.succ) /\ DOMAIN g.succ = 0..(Cardinality(DOMAIN g.succ) - 1)
  /\ {0, 1} \subseteq Blocks(g) /\ g.succ[0] = <<>>
  /\ \A b \in Blocks(g) : g.succ[b] \in Seq(Edge(g))
  /\ \A b \in Blocks(g) : \A k \in DOMAIN g.succ[b] : g.succ[b][k].to # Cardinality(DOMAIN g.succ) - 1
  /\ g.term \in [Blocks(g) -> Terminator]

ASSUME PathsAssumption ==
  /\ \A g \in Graphs : IsGraph(g) /\ Null \notin Blocks(g)
  /\ Limits \subseteq Nat \X Nat

VARIABLES
  cfg,            \* the graph of the function
  limit,          \* <<pathlen, pathnum>>
  calls,          \* the calls under way: a block and its successors still to come
  reachablePath,  \* the paths found
  fault           \* what getNonRecursiveSucc did instead of returning

vars == <<cfg, limit, calls, reachablePath, fault>>

-----------------------------------------------------------------------------
(* getNonRecursiveSucc.                                                    *)

\* What iterating the successors of b yields.
Target(e) == IF e.pruned THEN Null ELSE e.to
Succs(g, b) == [k \in DOMAIN g.succ[b] |-> Target(g.succ[b][k])]

\* The edges that count as predecessors of b.
PredEdges(g, b) ==
  UNION {{<<c, k>> : k \in {i \in DOMAIN g.succ[c] : g.succ[c][i].to = b}} : c \in Blocks(g)}

\* The only predecessor of b is the condition of a do loop below it: b is the block
\* that leads back to the body.
LoopBackOfDo(g, b) ==
  \E e \in PredEdges(g, b) :
    PredEdges(g, b) = {e} /\ e[1] < b /\ g.term[e[1]] = "do" /\ ~g.succ[e[1]][e[2]].pruned
DoCondition(g, b) == (CHOOSE e \in PredEdges(g, b) : TRUE)[1]

\* The only successor of b lies above it: b leads back to the head of a loop.
LeadsBack(g, b) ==
  Len(g.succ[b]) = 1 /\ LET s == Target(g.succ[b][1]) IN s # Null /\ s > b

\* From the block at the head of the loop down the first successors to the first one
\* with a terminator; Null if there is none: the code then fails an assertion, goes
\* round without end, or meets a null pointer.
HeadOfLoop(g, b) ==
  LET n == Cardinality(Blocks(g))
      Onward(s) == IF s = Null \/ g.term[s] # "none" THEN s
                  ELSE IF g.succ[s] = <<>> THEN Null ELSE Target(g.succ[s][1])
      down[k \in 0..n] == IF k = 0 THEN {Target(g.succ[b][1])} ELSE {Onward(s) : s \in down[k - 1]}
      head == {s \in Blocks(g) \cap down[n] : g.term[s] # "none"}
  IN IF head = {} THEN Null ELSE CHOOSE s \in head : TRUE

\* The head of the loop that b leads back to, Null if it is of no kind the code knows.
LoopHead(g, b) ==
  LET s == Target(g.succ[b][1])
  IN IF g.term[s] \in {"for", "while", "range"} THEN s
     ELSE IF g.term[s] # "none" THEN Null ELSE HeadOfLoop(g, b)

\* The successors of c below b, null pointers aside.
Below(g, c, b) == Within(Succs(g, c), {s \in Blocks(g) : s < b})

\* Here and below, a definition without a comment right before a commented one is a
\* slip one could make in the code of the latter.
CutSuccNever(g, b) == Succs(g, b)
\* The successors of b, or, where b leads back to the head of a loop, those of the head.
CutSucc(g, b) ==
  IF LoopBackOfDo(g, b) THEN Below(g, DoCondition(g, b), b)
  ELSE IF ~LeadsBack(g, b) THEN IF Succs(g, b) = <<Null>> THEN <<>> ELSE Succs(g, b)
  ELSE IF LoopHead(g, b) = Null THEN <<>> ELSE Below(g, LoopHead(g, b), b)

CutFaultAnyLoop(g, b) ==
  IF LeadsBack(g, b) /\ Null \in ToSet(Succs(g, Target(g.succ[b][1]))) THEN "null successor" ELSE "none"
\* Only the loop over the successors of a for, while or range loop asks whether a
\* successor is null; the search for a terminator asserts that there is one.
CutFault(g, b) ==
  IF LoopBackOfDo(g, b)
  THEN IF Null \in ToSet(Succs(g, DoCondition(g, b))) THEN "null successor" ELSE "none"
  ELSE IF LeadsBack(g, b) /\ g.term[Target(g.succ[b][1])] = "none"
  THEN IF HeadOfLoop(g, b) = Null THEN "no terminator"
       ELSE IF Null \in ToSet(Succs(g, HeadOfLoop(g, b))) THEN "null successor" ELSE "none"
  ELSE "none"

-----------------------------------------------------------------------------
(* getPathInFunc.                                                          *)

entry == Cardinality(Blocks(cfg)) - 1
exit == 0
pathlen == limit[1]
pathnum == limit[2]

pathWithoutStart == [k \in 1..(Len(calls) - 1) |-> calls[k + 1].block]

\* The path as the call that is under way has it.
path == [k \in DOMAIN calls |-> calls[k].block]

\* A call of the recursion for block b.
Call(b) == [block |-> b, childs |-> CutSucc(cfg, b)]

Init ==
  /\ cfg \in Graphs
  /\ limit \in Limits
  /\ calls = <<Call(entry)>>
  /\ reachablePath = <<>>
  /\ fault = CutFault(cfg, entry)

Running == calls # <<>> /\ fault = "none"

MayGoOnPast == Last(calls).childs # <<>> /\ Len(reachablePath) < pathnum /\ Len(path) <= pathlen

\* The loop over the successors goes on.
MayGoOn == Last(calls).childs # <<>> /\ Len(reachablePath) < pathnum /\ Len(path) < pathlen

AdvancedToEnd == [calls EXCEPT ![Len(calls)].childs = <<>>]
\* The call under way with one successor less to come.
Advanced == [calls EXCEPT ![Len(calls)].childs = Tail(@)]

\* A successor that clang pruned: the call returns at once.
PassNull ==
  /\ Running /\ MayGoOn
  /\ Head(Last(calls).childs) = Null
  /\ calls' = Advanced
  /\ UNCHANGED <<cfg, limit, reachablePath, fault>>

\* The exit: the path is complete.
Reach ==
  /\ Running /\ MayGoOn
  /\ Head(Last(calls).childs) = exit
  /\ reachablePath' = Append(reachablePath, Append(path, exit))
  /\ calls' = Advanced
  /\ UNCHANGED <<cfg, limit, fault>>

\* Any other successor is gone into, with a copy of the path.
Traverse ==
  /\ Running /\ MayGoOn
  /\ LET b == Head(Last(calls).childs)
     IN /\ b \notin {Null, exit}
        /\ calls' = Append(Advanced, Call(b))
        /\ fault' = CutFault(cfg, b)
  /\ UNCHANGED <<cfg, limit, reachablePath>>

Return ==
  /\ Running /\ ~MayGoOn
  /\ calls' = Front(calls)
  /\ UNCHANGED <<cfg, limit, reachablePath, fault>>

Next == PassNull \/ Reach \/ Traverse \/ Return

\* The enumeration runs to its end.
Spec == Init /\ [][Next]_vars /\ WF_vars(Next)

-----------------------------------------------------------------------------
(* Properties.                                                             *)

Follow(b) == ToSet(Succs(cfg, b)) \ {Null}
ReachFrom(S) ==
  LET f[k \in 0..Cardinality(Blocks(cfg))] ==
        IF k = 0 THEN S ELSE f[k - 1] \cup UNION {Follow(b) : b \in f[k - 1]}
  IN f[Cardinality(Blocks(cfg))]

Ended == calls = <<>> \/ fault # "none"

\* Only two edges lead up: from a block that leads back to the head of a loop, and from
\* the condition of a do loop to its block that leads back.  clang numbers the blocks of a
\* program so, unless a label is followed by the goto to it.
Numbered(g) ==
  /\ \A b \in Blocks(g) : \A c \in ToSet(Succs(g, b)) \ {Null} :
       c < b \/ LeadsBack(g, b) \/ LoopBackOfDo(g, c)
  /\ \A b, c \in Blocks(g) :
       LoopBackOfDo(g, b) /\ LoopBackOfDo(g, c) /\ DoCondition(g, b) = DoCondition(g, c) => b = c

\* The blocks of a loop have the numbers from the block that leads back to the head, and
\* no edge enters them but at the head.
LoopsNested ==
  \A b \in Blocks(cfg) : LeadsBack(cfg, b) /\ ~LoopBackOfDo(cfg, b) =>
    LET h == LoopHead(cfg, b)
    IN h # Null => /\ b < h
                   /\ \A c \in Blocks(cfg) \ (b..h) : Follow(c) \cap (b..h) \subseteq {h}

\* No edge enters the blocks from the one that leads back, or from the condition of a do
\* loop, up to the one that is led back to, but at the latter.
LoopsEntered ==
  \A b \in Blocks(cfg) : LeadsBack(cfg, b) \/ LoopBackOfDo(cfg, b) =>
    LET low == IF LoopBackOfDo(cfg, b) THEN DoCondition(cfg, b) ELSE b
    IN \A t \in Follow(b) : low <= t /\ \A c \in Blocks(cfg) \ (low..t) : Follow(c) \cap (low..t) \subseteq {t}

\* A loop that control can leave towards the exit at all it can leave where the code goes
\* on behind the block that leads back.
LoopsLeft ==
  \A b \in Blocks(cfg) : (LeadsBack(cfg, b) \/ LoopBackOfDo(cfg, b)) /\ exit \in ReachFrom({b}) =>
    \E c \in ToSet(CutSucc(cfg, b)) \ {Null} : exit \in ReachFrom({c})

\* The members hold blocks of the graph.
TypeOK ==
  /\ IsGraph(cfg) /\ limit \in Limits
  /\ \A k \in DOMAIN calls : calls[k].block \in Blocks(cfg)
                             /\ calls[k].childs \in Seq(Blocks(cfg) \cup {Null})
  /\ reachablePath \in Seq(Seq(Blocks(cfg)))
  /\ fault \in {"none", "null successor", "no terminator"}

\* The two limits hold together, although each level of the recursion has its own copy
\* of the path and all of them share the list: get_alias_in_func, which tests the
\* length and the number of the paths again, never meets one too many.
WithinLimits ==
  /\ Len(reachablePath) <= pathnum
  /\ \A p \in ToSet(reachablePath) : Len(p) <= pathlen

\* No path goes through a block twice, not even the one that is being extended: that
\* is all that ends the recursion where pathlen does not.
NoBlockTwice ==
  Numbered(cfg) =>
    /\ Cardinality(ToSet(path)) = Len(path)
    /\ \A p \in ToSet(reachablePath) : Cardinality(ToSet(p)) = Len(p)

\* What the recursion of getPathInFunc holds and keeps are ways through blocks of the
\* function, null pointers left out, and none of them takes a block twice.
ProperPaths == TypeOK /\ NoBlockTwice

\* Each step of a path is a step of the program, from this block or, behind the block
\* that leads back to the head of a loop, from one that the path has been through, if no
\* goto leads into a loop.
FollowsProgram ==
  Ended => \A p \in ToSet(reachablePath) :
    /\ Head(p) = entry /\ Last(p) = exit
    /\ LoopsNested => \A k \in 2..Len(p) : \E j \in 1..(k - 1) : p[k] \in Follow(p[j])

\* With room for all paths every block that control can reach and leave lies on one, if
\* the loops are entered at their heads and can be left there: cutting them hides no
\* statement from the analysis of aliases.
CoversReachable ==
  /\ calls = <<>> /\ Len(reachablePath) < pathnum /\ pathlen >= Cardinality(Blocks(cfg))
  /\ Numbered(cfg) /\ LoopsNested /\ LoopsEntered /\ LoopsLeft
  => \A b \in ReachFrom({entry}) :
       exit \in ReachFrom({b}) => \E p \in ToSet(reachablePath) : b \in ToSet(p)

\* The blocks that control comes to from b up to the first one with a terminator.
Straight(b) ==
  LET f[k \in 0..Cardinality(Blocks(cfg))] ==
        IF k = 0 THEN {b} ELSE UNION {IF cfg.term[c] = "none" THEN {c} \cup Follow(c) ELSE {c} : c \in f[k - 1]}
  IN f[Cardinality(Blocks(cfg))]

\* A constant condition: a branch with a successor less.
ConstantCondition(b) == cfg.term[b] # "none" /\ Null \in ToSet(Succs(cfg, b))

\* getNonRecursiveSucc goes wrong only next to a do loop that has a constant condition
\* (Common.cpp:1041, a loop that does not ask for null), or where a goto leads up to a label
\* in front of which there is no loop to tell it from: on the way down from there the first
\* branch has a constant condition (Common.cpp:1082, the other such loop), as in
\* retry: x(); while (1) {... goto retry; ...}, or there is no branch before the exit.
FaultExplained ==
  fault # "none" =>
    \/ \E b \in Blocks(cfg) : cfg.term[b] = "do" /\ ConstantCondition(b)
    \/ \E b \in Blocks(cfg) : /\ cfg.term[b] = "other" /\ LeadsBack(cfg, b)
                             /\ \E c \in Straight(Target(cfg.succ[b][1])) : c = exit \/ ConstantCondition(c)

\* The enumeration ends, whatever the limits, and wherever it goes wrong it does so for
\* that reason.
Terminates == <>(Ended /\ FaultExplained)

=============================================================================
