---------------------------- MODULE LoopDoubleFree ----------------------------
(***************************************************************************)
(* loop_doublefree_checker: the walk over the blocks of a function, and    *)
(* from every statement that frees memory a search through the rest of its *)
(* block and up to three edges ahead for a statement that frees a variable *)
(* of what was freed.  One set, freeargs, serves the whole search.  The    *)
(* recursion of checkSucceedBlocks is a stack; its result is doubleFlag,   *)
(* which can be set in the call at the top only.                           *)
(*                                                                         *)
(* isFreedArgsFreed also leaves a declaration alone if its initializer is  *)
(* a freeing call met before.  A declaration is not a call, so it would    *)
(* not count as a free anyway, and the test changes nothing.               *)
(***************************************************************************)
EXTENDS BlockWorklist

\* A statement is a call or a delete, which may free, or a BinaryOperator, which may
\* assign, and never both (the two branches of isFreedArgsFreed).
ASSUME CallAssumption ==
  \A g \in Graphs : \A b \in Block : \A k \in DOMAIN g.stmts[b] :
    g.stmts[b][k].frees = <<>> \/ g.stmts[b][k].assigns = Null

VARIABLES
  blockiter,     \* the statement of block that check has come to
  site,          \* the freeing statement whose search is on, Null if none is
  freeargs,      \* which of its arguments are still searched for
  at,            \* the statement to be compared next, Null between two blocks
  stack,         \* the calls of checkSucceedBlocks: a block and how many edges were taken
  doubleFlag,    \* the search has found a second free
  freeCallCites, \* the freeing statements met so far
  warnings       \* what was reported: a freeing statement and a second one

search == <<site, freeargs, at, stack, doubleFlag>>
vars == <<walk, blockiter, search, freeCallCites, warnings>>

Depth == 3

Init ==
  /\ WalkInit
  /\ blockiter = 1
  /\ site = Null
  /\ freeargs = {}
  /\ at = Null
  /\ stack = <<>>
  /\ doubleFlag = FALSE
  /\ freeCallCites = {}
  /\ warnings = {}

\* The entries are collected, a block is taken, its successors enter the queue.
Walk ==
  /\ Collect \/ Take \/ Queue
  /\ UNCHANGED <<blockiter, search, freeCallCites, warnings>>

StmtAt(p) == cfg.stmts[p[1]][p[2]]
Examining == block # Null /\ next > Len(cfg.succ[block]) /\ site = Null
Here == <<block, blockiter>>

\* Here and below, a definition without a comment right before a commented one is a
\* slip one could make in the code of the latter.
LeaveBlockEarly ==
  /\ Examining /\ blockiter >= Len(cfg.stmts[block])
  /\ Examine
  /\ blockiter' = 1
  /\ UNCHANGED <<search, freeCallCites, warnings>>

\* The last statement is behind: the walk goes on.
LeaveBlock ==
  /\ Examining /\ blockiter > Len(cfg.stmts[block])
  /\ Examine
  /\ blockiter' = 1
  /\ UNCHANGED <<search, freeCallCites, warnings>>

AtStmt == Examining /\ blockiter <= Len(cfg.stmts[block])

Skip ==
  /\ AtStmt /\ StmtAt(Here).frees = <<>>
  /\ blockiter' = blockiter + 1
  /\ UNCHANGED <<walk, search, freeCallCites, warnings>>

\* A delete or a call of a free method: its search begins at the next statement.
Free ==
  /\ AtStmt /\ StmtAt(Here).frees # <<>>
  /\ site' = Here
  /\ freeargs' = DOMAIN StmtAt(Here).frees
  /\ at' = <<block, blockiter + 1>>
  /\ doubleFlag' = FALSE
  /\ freeCallCites' = freeCallCites \cup {Here}
  /\ blockiter' = blockiter + 1
  /\ UNCHANGED <<walk, stack, warnings>>

\* getVarDecl of a freed expression.
FreedVar(n) == Base[StmtAt(site).frees[n]]

\* The freed expressions of the variable that s assigns.
Reassigned(s) == {n \in freeargs : s.assigns # Null /\ FreedVar(n) = s.assigns}

Mentions(s, v) == v # Null /\ \E e \in s.reads : Base[e] = v

\* isFreedArgsFreed: s frees something and names the variable of a freed expression.
FreedArgsFreed(s) ==
  /\ Reassigned(s) = {} /\ s.frees # <<>>
  /\ \E n \in freeargs : Mentions(s, FreedVar(n))

Comparing == site # Null /\ at # Null /\ at[2] <= Len(cfg.stmts[at[1]])
InOwnBlock == stack = <<>>

\* A second free is reported.  In the block of the first one the search ends; in a later
\* block it goes on to the end of the block.
Report ==
  /\ Comparing /\ FreedArgsFreed(StmtAt(at))
  /\ warnings' = warnings \cup {[site |-> site, again |-> at]}
  /\ doubleFlag' = TRUE
  /\ at' = IF InOwnBlock THEN Null ELSE [at EXCEPT ![2] = @ + 1]
  /\ UNCHANGED <<walk, blockiter, site, freeargs, stack, freeCallCites>>

Forgotten(s) == {{}}

\* What an assignment takes out of freeargs: one of the expressions of its variable.
Erased(s) == IF Reassigned(s) = {} THEN {{}} ELSE {{n} : n \in Reassigned(s)}

Pass ==
  /\ Comparing /\ ~FreedArgsFreed(StmtAt(at))
  /\ \E gone \in Erased(StmtAt(at)) : freeargs' = freeargs \ gone
  /\ at' = [at EXCEPT ![2] = @ + 1]
  /\ UNCHANGED <<walk, blockiter, site, stack, doubleFlag, freeCallCites, warnings>>

Called(b) == Append(stack, [block |-> b, edge |-> 0])

AtDepthOnceLess == Len(stack) + 1 = Depth
\* depth <= 1 in the call at the top.
AtDepth == Len(stack) = Depth

\* A block is through.  After a hit the call at the top turns to its next successor;
\* otherwise it calls itself on the block, or returns although it has other successors.
EndOfBlock ==
  /\ site # Null /\ at # Null /\ ~Comparing
  /\ stack' = IF doubleFlag THEN stack
              ELSE IF AtDepth THEN Front(stack)
              ELSE Called(at[1])
  /\ at' = Null
  /\ UNCHANGED <<walk, blockiter, site, freeargs, doubleFlag, freeCallCites, warnings>>

Between == site # Null /\ at = Null /\ stack # <<>>

\* The next successor of the block at the top; a missing one is passed over.
Successor ==
  /\ Between /\ Last(stack).edge < Len(cfg.succ[Last(stack).block])
  /\ LET edge == Last(stack).edge + 1
         succblock == Target(cfg.succ[Last(stack).block][edge])
     IN /\ stack' = Append(Front(stack), [Last(stack) EXCEPT !.edge = edge])
        /\ at' = IF succblock = Null THEN Null ELSE <<succblock, 1>>
  /\ UNCHANGED <<walk, blockiter, site, freeargs, doubleFlag, freeCallCites, warnings>>

\* The call at the top has tried its successors: TRUE ends all calls, FALSE only this.
Return ==
  /\ Between /\ Last(stack).edge = Len(cfg.succ[Last(stack).block])
  /\ stack' = IF doubleFlag THEN <<>> ELSE Front(stack)
  /\ UNCHANGED <<walk, blockiter, site, freeargs, at, doubleFlag, freeCallCites, warnings>>

SearchOver ==
  /\ site # Null /\ at = Null /\ stack = <<>>
  /\ site' = Null /\ freeargs' = {} /\ doubleFlag' = FALSE
  /\ UNCHANGED <<walk, blockiter, at, stack, freeCallCites, warnings>>

Next ==
  \/ Walk \/ LeaveBlock \/ Skip \/ Free
  \/ Report \/ Pass \/ EndOfBlock \/ Successor \/ Return \/ SearchOver

\* One thread runs the loops to their end.
Spec == Init /\ [][Next]_vars /\ WF_vars(Next)

-----------------------------------------------------------------------------
(* Properties.                                                             *)

Frame == [block : Block, edge : Nat]

\* The variables hold places of the graph, and the recursion is three calls deep at most.
TypeOK ==
  /\ WalkTypeOK
  /\ blockiter \in Nat \ {0}
  /\ site \in Position \cup {Null}
  /\ freeargs \subseteq (IF site = Null THEN {} ELSE DOMAIN StmtAt(site).frees)
  /\ at \in Position \cup {Null}
  /\ stack \in Seq(Frame) /\ Len(stack) <= 3
  /\ doubleFlag \in BOOLEAN
  /\ freeCallCites \subseteq Position
  /\ warnings \subseteq [site : Position, again : Position]

Places(S) == UNION {{b} \X DOMAIN cfg.stmts[b] : b \in S}
Freeing(S) == {p \in Places(S) : StmtAt(p).frees # <<>>}

\* When the checker is through with a function, it has searched from every freeing
\* statement that control can reach and from no other: neither a block that enters the
\* queue late or twice nor the statements of a long block are lost.
FreesSearched == WalkDone => freeCallCites = Freeing(Reachable(cfg))

\* The checker is through with a function at some time: neither the walk nor a search
\* runs forever on a loop.
Terminates == <>WalkDone

\* No statement from..to of block b assigns the variable of e.
StaysFreed(b, from, to, e) == \A k \in from..to : cfg.stmts[b][k].assigns # Base[e]
Through(b, from, e) == StaysFreed(b, from, Len(cfg.stmts[b]), e)

\* The ways that control can go along d edges.
Ways(d) == {way \in [0..d -> Block] : \A k \in 1..d : way[k] \in Follow(cfg, way[k - 1])}

\* Control can come from p to q, over at most far edges, with e as it was freed at p.
ReachesIntact(p, q, e, far) ==
  \/ p[1] = q[1] /\ p[2] < q[2] /\ StaysFreed(q[1], p[2] + 1, q[2] - 1, e)
  \/ \E d \in 1..far : \E way \in Ways(d) :
       /\ way[0] = p[1] /\ way[d] = q[1]
       /\ Through(p[1], p[2] + 1, e) /\ \A k \in 1..(d - 1) : Through(way[k], 1, e)
       /\ StaysFreed(q[1], 1, q[2] - 1, e)

FreedAt(p) == ToSet(StmtAt(p).frees)
Reported(p) == \E w \in warnings : w.site = p

\* The statement frees no two expressions of one variable.
OneOfEach(p) ==
  \A i, j \in DOMAIN StmtAt(p).frees :
    Base[StmtAt(p).frees[i]] = Base[StmtAt(p).frees[j]] /\ Base[StmtAt(p).frees[i]] # Null => i = j

\* What is reported is a free that control can come to from the first one, and the
\* variable they share is not assigned on the way, although the search runs along many
\* paths with one set of freed expressions.  It may be assigned if the first call freed
\* p and p->f: an assignment of p takes one of them out of the set only.
ReportsOnPath ==
  \A w \in warnings : OneOfEach(w.site) => \E e \in FreedAt(w.site) :
    /\ Mentions(StmtAt(w.again), Base[e])
    /\ ReachesIntact(w.site, w.again, e, 3)

NeverAssigned(e) == \A q \in Places(Block) : StmtAt(q).assigns # Base[e]

\* Freeing again what p freed, at most far edges later, is reported if the variable is
\* assigned nowhere.
AgainReported(p, far) ==
  \A e \in FreedAt(p) :
    /\ NeverAssigned(e)
    /\ \E q \in Freeing(Block) : Mentions(StmtAt(q), Base[e]) /\ ReachesIntact(p, q, e, far)
    => Reported(p)

\* A second free up to two edges away is not lost, whatever the order of the successors
\* and whatever the search has met before.
NearFreeReported == WalkDone => \A p \in Freeing(Reachable(cfg)) : AgainReported(p, 2)

-----------------------------------------------------------------------------
(* The inductive invariant behind FreesSearched.                           *)

\* Between two blocks, and while successors enter the queue, no statement is looked at.
SearchOnlyInBlock ==
  block = Null \/ next <= Len(cfg.succ[block]) => blockiter = 1 /\ site = Null

\* The freeing statements of the blocks behind, and of the block at hand up to blockiter,
\* were searched from, and only such that control can reach.
SearchedSoFar ==
  /\ Freeing(examined) \subseteq freeCallCites
  /\ block # Null => \A k \in DOMAIN cfg.stmts[block] :
                       k < blockiter /\ StmtAt(<<block, k>>).frees # <<>>
                       => <<block, k>> \in freeCallCites
  /\ freeCallCites \subseteq Freeing(Reachable(cfg))

LoopInv == WalkInv /\ TypeOK /\ SearchOnlyInBlock /\ SearchedSoFar

=============================================================================
