------------------------------ MODULE ImmediateUAF ------------------------------
(***************************************************************************)
(* immediate_uaf_checker: from every statement that frees memory, a search *)
(* through the rest of its block and the blocks that follow, up to         *)
(* checkDepth of them in a row, for a use of what was freed.  One set,     *)
(* freeargs, serves the whole search: an assignment takes the expressions  *)
(* of its variable out of it, for this path and for all that come later.   *)
(* The recursion of checkSuccessor is a stack.  Which methods free their   *)
(* arguments is part of the graph (frees).                                 *)
(***************************************************************************)
EXTENDS FunctionCFG

CONSTANTS
  Order,      \* the blocks in the order in which clang lists them
  Graphs,     \* the graphs a function may have
  checkDepth

ASSUME SearchAssumption ==
  /\ Order \in Seq(Block) /\ ToSet(Order) = Block
  /\ \A i, j \in DOMAIN Order : Order[i] = Order[j] => i = j
  /\ Graphs \subseteq Graph
  \* A declaration is no assignment.
  /\ \A g \in Graphs : \A b \in Block : \A k \in DOMAIN g.stmts[b] :
       g.stmts[b][k].wraps = Null \/ g.stmts[b][k].assigns = Null
  /\ checkDepth \in Nat

VARIABLES
  cfg,           \* the graph of the function at hand
  blockiter,     \* the place in Order and the statement that check has come to
  site,          \* the freeing statement whose search is on, Null if none is
  freeargs,      \* which of its arguments are still searched for
  scan,          \* the statement to be compared next, Null between two blocks
  stack,         \* the calls of checkSuccessor: a block and how many edges were taken
  freeCallCites, \* the freeing statements met so far
  warnings,      \* what was reported: a freeing statement and a use
  fault          \* "null" once a null successor was dereferenced

search == <<site, freeargs, scan, stack>>
vars == <<cfg, blockiter, search, freeCallCites, warnings, fault>>

StmtAt(p) == cfg.stmts[p[1]][p[2]]

Init ==
  /\ cfg \in Graphs
  /\ blockiter = <<1, 1>>
  /\ site = Null
  /\ freeargs = {}
  /\ scan = Null
  /\ stack = <<>>
  /\ freeCallCites = {}
  /\ warnings = {}
  /\ fault = "none"

Idle == site = Null /\ blockiter[1] <= Len(Order) /\ fault = "none"
Here == <<Order[blockiter[1]], blockiter[2]>>
AtStmt == Idle /\ blockiter[2] <= Len(cfg.stmts[Order[blockiter[1]]])

NextBlock ==
  /\ Idle /\ ~AtStmt
  /\ blockiter' = <<blockiter[1] + 1, 1>>
  /\ UNCHANGED <<cfg, search, freeCallCites, warnings, fault>>

Skip ==
  /\ AtStmt /\ StmtAt(Here).frees = <<>>
  /\ blockiter' = [blockiter EXCEPT ![2] = @ + 1]
  /\ UNCHANGED <<cfg, search, freeCallCites, warnings, fault>>

\* A delete or a call of a free method: its search begins at the next statement.
Free ==
  /\ AtStmt /\ StmtAt(Here).frees # <<>>
  /\ site' = Here
  /\ freeargs' = DOMAIN StmtAt(Here).frees
  /\ freeCallCites' = freeCallCites \cup {Here}
  /\ scan' = <<Here[1], Here[2] + 1>>
  /\ blockiter' = [blockiter EXCEPT ![2] = @ + 1]
  /\ UNCHANGED <<cfg, stack, warnings, fault>>

Freed(n) == StmtAt(site).frees[n]

\* The freed expressions of the variable that s assigns.
Reassigned(s) == {n \in freeargs : s.assigns # Null /\ Base[Freed(n)] = s.assigns}

DeclaresFree(s) == s.wraps # Null /\ s.wraps \in freeCallCites

\* isFreedArgsReferenced does not look at the expressions of s if s declares a variable
\* with a freeing call, assigns the variable of a freed expression, or compares.
Exempt(s) ==
  \/ DeclaresFree(s)
  \/ Reassigned(s) # {}
  \/ (s.assigns = Null /\ s.compares)

Referenced(s) ==
  /\ ~Exempt(s)
  /\ \E n \in freeargs : Base[Freed(n)] # Null /\ Freed(n) \in s.reads

Comparing == site # Null /\ scan # Null /\ scan[2] <= Len(cfg.stmts[scan[1]])

\* Here and below, a definition without a comment right before a commented one is a
\* slip one could make in the code of the latter.
ReportAndGoOn ==
  /\ Comparing /\ Referenced(StmtAt(scan))
  /\ warnings' = warnings \cup {[site |-> site, use |-> scan]}
  /\ scan' = Null
  /\ UNCHANGED <<cfg, blockiter, site, freeargs, stack, freeCallCites, fault>>

\* The first use found is reported, and every call of checkSuccessor returns true.
Report ==
  /\ Comparing /\ Referenced(StmtAt(scan))
  /\ warnings' = warnings \cup {[site |-> site, use |-> scan]}
  /\ site' = Null /\ freeargs' = {} /\ scan' = Null /\ stack' = <<>>
  /\ UNCHANGED <<cfg, blockiter, freeCallCites, fault>>

Forgotten(s) == {{}}

\* What an assignment takes out of freeargs: one of the expressions of its variable.
Erased(s) ==
  IF DeclaresFree(s) \/ Reassigned(s) = {} THEN {{}}
  ELSE {{n} : n \in Reassigned(s)}

Pass ==
  /\ Comparing /\ ~Referenced(StmtAt(scan))
  /\ \E gone \in Erased(StmtAt(scan)) : freeargs' = freeargs \ gone
  /\ scan' = [scan EXCEPT ![2] = @ + 1]
  /\ UNCHANGED <<cfg, blockiter, site, stack, freeCallCites, warnings, fault>>

MayDescendOnceMore == Len(stack) <= checkDepth
MayDescendOnceLess == Len(stack) + 1 < checkDepth
\* depth > 0 in the call that follows a block.
MayDescend == Len(stack) < checkDepth

\* The block is through: checkSuccessor is called on it.
Descend ==
  /\ site # Null /\ scan # Null /\ ~Comparing
  /\ stack' = IF MayDescend THEN Append(stack, [block |-> scan[1], edge |-> 0]) ELSE stack
  /\ scan' = Null
  /\ UNCHANGED <<cfg, blockiter, site, freeargs, freeCallCites, warnings, fault>>

Between == site # Null /\ scan = Null /\ stack # <<>> /\ fault = "none"

\* The next successor of the block at the top; it is not compared with NULL.
Successor ==
  /\ Between /\ Last(stack).edge < Len(cfg.succ[Last(stack).block])
  /\ LET edge == Last(stack).edge + 1
         succblock == Target(cfg.succ[Last(stack).block][edge])
     IN /\ stack' = Append(Front(stack), [Last(stack) EXCEPT !.edge = edge])
        /\ IF succblock = Null
           THEN fault' = "null" /\ UNCHANGED scan
           ELSE scan' = <<succblock, 1>> /\ UNCHANGED fault
  /\ UNCHANGED <<cfg, blockiter, site, freeargs, freeCallCites, warnings>>

Return ==
  /\ Between /\ Last(stack).edge = Len(cfg.succ[Last(stack).block])
  /\ stack' = Front(stack)
  /\ UNCHANGED <<cfg, blockiter, site, freeargs, scan, freeCallCites, warnings, fault>>

\* The search has found nothing.
GiveUp ==
  /\ site # Null /\ scan = Null /\ stack = <<>>
  /\ site' = Null /\ freeargs' = {}
  /\ UNCHANGED <<cfg, blockiter, scan, stack, freeCallCites, warnings, fault>>

Next ==
  \/ NextBlock \/ Skip \/ Free
  \/ Report \/ Pass \/ Descend \/ Successor \/ Return \/ GiveUp

Spec == Init /\ [][Next]_vars

-----------------------------------------------------------------------------
(* Properties.                                                             *)

Places == {p \in Position : p[2] <= Len(cfg.stmts[p[1]])}
Frame == [block : Block, edge : Nat]

\* The variables hold places of the graph, and the recursion is bounded by checkDepth.
TypeOK ==
  /\ cfg \in Graph
  /\ blockiter \in (Nat \ {0}) \X (Nat \ {0})
  /\ site \in Position \cup {Null}
  /\ freeargs \subseteq (IF site = Null THEN {} ELSE DOMAIN StmtAt(site).frees)
  /\ scan \in Position \cup {Null}
  /\ stack \in Seq(Frame) /\ Len(stack) <= checkDepth
  /\ freeCallCites \subseteq Position
  /\ warnings \subseteq [site : Position, use : Position]
  /\ fault \in {"none", "null"}

Done == blockiter[1] > Len(Order) /\ site = Null

\* No statement from..to of block b assigns the variable of e.
StaysFreed(b, from, to, e) == \A k \in from..to : cfg.stmts[b][k].assigns # Base[e]
Through(b, from, e) == StaysFreed(b, from, Len(cfg.stmts[b]), e)

\* The ways that control can go along d edges.
Ways(d) == {way \in [0..d -> Block] : \A k \in 1..d : way[k] \in Follow(cfg, way[k - 1])}

\* Control can come from p to q, over at most far edges, with e as it was freed at p.
ReachesIntact(p, q, e, far) ==
  \/ p[1] = q[1] /\ p[2] < q[2] /\ StaysFreed(q[1], p[2] + 1, q[2] - 1, e)
  \/ \E d \in 1..far : \E way \in Ways(d) :
       /\ way[0] = p[1] /\ way[d] = q[1]
       /\ Through(p[1], p[2] + 1, e) /\ \A k \in 1..(d - 1) : Through(way[k], 1, e)
       /\ StaysFreed(q[1], 1, q[2] - 1, e)

Uses(q, e) == Base[e] # Null /\ e \in StmtAt(q).reads
FreedAt(p) == ToSet(StmtAt(p).frees)
PlacesOf(b) == {b} \X DOMAIN cfg.stmts[b]
AllPlaces == UNION {PlacesOf(b) : b \in Block}
Reported(p) == \E w \in warnings : w.site = p

\* The statement frees no two expressions of one variable.
OneOfEach(p) ==
  \A i, j \in DOMAIN StmtAt(p).frees :
    Base[StmtAt(p).frees[i]] = Base[StmtAt(p).frees[j]] /\ Base[StmtAt(p).frees[i]] # Null => i = j

\* What is reported as a use after free is one on some path: control can come from the
\* freeing statement to the use, and the pointer is not assigned in between, although
\* the search runs along many paths with one set of freed expressions ("before the
\* pointer that points to the freed memory is assigned", README.md:8).  It need not be if
\* the call freed p and p->f: an assignment of p takes one of them out of the set only.
ReportsUseOfFreed ==
  \A w \in warnings : OneOfEach(w.site) => \E e \in FreedAt(w.site) :
    Uses(w.use, e) /\ ReachesIntact(w.site, w.use, e, checkDepth)

NeverAssigned(e) == \A q \in AllPlaces : StmtAt(q).assigns # Base[e]
\* The search from p looks at the expressions of q: it neither compares nor declares, and
\* assigns no variable that p has freed, itself or an expression of it.
LookedAt(p, q) ==
  /\ ~StmtAt(q).compares /\ StmtAt(q).wraps = Null
  /\ StmtAt(q).assigns = Null \/ \A f \in FreedAt(p) : Base[f] # StmtAt(q).assigns

\* A freed pointer that the function never assigns is never lost from the search, in
\* whatever order it visits the blocks: if a use is near enough, the free is reported.
\* The use must not be in an assignment to something else the call has freed (q = *p
\* after free_both(p, q)), where isFreedArgsReferenced forgets q and looks no further.
NearUseReported ==
  Done => \A p \in AllPlaces : \A e \in FreedAt(p) :
    /\ NeverAssigned(e)
    /\ \E q \in AllPlaces : Uses(q, e) /\ LookedAt(p, q) /\ ReachesIntact(p, q, e, checkDepth)
    => Reported(p)

\* A freeing statement is reported once at most, with its first use.
OneReportPerFree == \A v, w \in warnings : v.site = w.site => v = w

\* The search dereferences a null successor only where clang has pruned an edge of a
\* block that lies fewer than checkDepth edges after the free: a constant condition
\* further away, or one after the use that was reported, does it no harm.
NullExplained ==
  fault = "null" =>
    /\ ~Reported(site)
    /\ \E d \in 0..(checkDepth - 1) : \E way \in Ways(d) :
         way[0] = site[1] /\ \E e \in ToSet(cfg.succ[way[d]]) : e.pruned

=============================================================================
