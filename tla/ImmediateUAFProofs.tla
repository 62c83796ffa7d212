-------------------------- MODULE ImmediateUAFProofs --------------------------
(***************************************************************************)
(* immediate_uaf_checker keeps its types, never recurses deeper than       *)
(* checkDepth, and reports a freeing statement once, for every graph,      *)
(* every depth and any statements.  The invariant is ReportInv: whatever   *)
(* has been reported, and the search that is on, began at a statement that *)
(* check has left behind.  What it reports is a use on some path, and a    *)
(* null successor lies near the free: the stack of calls of checkSuccessor *)
(* is a way of control (Chained), along which no expression that is left   *)
(* in freeargs has been assigned (Intact).  Nor does it miss a use near    *)
(* the free of a pointer that is never assigned: the successors that the   *)
(* calls are through with lead to none (Explored), and a free that is      *)
(* behind and not reported has none (NearInv).                             *)
(*                                                                         *)
(* Which calls free is settled before, by the labelling of FreeMethods     *)
(* (the last section): for any functions, units and room, what is noted of *)
(* a unit that has not left memory are the chains of functions to free     *)
(* (NotedInv).                                                             *)
(***************************************************************************)
EXTENDS ImmediateUAF, FreeMethods, SequenceLemmas

\* check has left the statement p behind.
Behind(p) ==
  \E i \in DOMAIN Order :
    /\ Order[i] = p[1]
    /\ i < blockiter[1] \/ (i = blockiter[1] /\ p[2] < blockiter[2])

ReportInv ==
  /\ TypeOK
  /\ \A w \in warnings : Behind(w.site) /\ w.site # site
  /\ site # Null => Behind(site)
  /\ site = Null => scan = Null /\ stack = <<>>
  /\ OneReportPerFree

\* The blocks of the calls under way, and the one that is scanned, follow each other.
Chained ==
  /\ stack # <<>> => stack[1].block = site[1]
  /\ \A k \in 2..Len(stack) : stack[k].block \in Follow(cfg, stack[k - 1].block)
  /\ scan # Null => IF stack = <<>> THEN scan[1] = site[1] /\ site[2] < scan[2]
                    ELSE scan[1] \in Follow(cfg, stack[Len(stack)].block)

\* On the way from the free to the statement that is scanned the variable of e is not
\* assigned.
Intact(e) ==
  /\ stack # <<>> => Through(site[1], site[2] + 1, e)
  /\ \A k \in 2..Len(stack) : Through(stack[k].block, 1, e)
  /\ scan # Null => StaysFreed(scan[1], IF stack = <<>> THEN site[2] + 1 ELSE 1, scan[2] - 1, e)

WayInv ==
  /\ cfg \in Graphs
  /\ fault = "null" => site # Null /\ scan = Null /\ stack # <<>>
  /\ site # Null => Chained
  /\ site # Null /\ OneOfEach(site) =>
       \A n \in freeargs : Base[Freed(n)] # Null => Intact(Freed(n))
  /\ ReportsUseOfFreed
  /\ NullExplained

-----------------------------------------------------------------------------
(* Graphs, places and stacks.                                              *)

\* The statements of a block are numbered from 1.
LEMMA StmtFacts ==
  ASSUME NEW g \in Graph, NEW b \in Block
  PROVE  /\ Len(g.stmts[b]) \in Nat /\ DOMAIN g.stmts[b] = 1..Len(g.stmts[b])
         /\ \A k \in Nat \ {0} : <<b, k>> \in Position
<1>1. g.stmts[b] \in Seq(Stmt)
  BY DEF Graph
<1> QED
  BY <1>1 DEF Position

\* An edge leads to a block or, if it was pruned, nowhere.
LEMMA TargetFacts ==
  ASSUME NEW g \in Graph, NEW b \in Block, NEW k \in Nat \ {0}, k <= Len(g.succ[b])
  PROVE  Target(g.succ[b][k]) \in Block \cup {Null}
<1>1. g.succ[b] \in Seq(Edge)
  BY DEF Graph
<1>2. g.succ[b][k] \in Edge
  BY <1>1
<1>3. \A e \in Edge : Target(e) \in Block \cup {Null}
  BY DEF Edge, Target
<1> QED
  BY <1>2, <1>3

\* The calls of a stack.
LEMMA StackFacts ==
  ASSUME NEW s \in Seq(Frame)
  PROVE  /\ Len(s) \in Nat
         /\ \A f \in Frame : Append(s, f) \in Seq(Frame) /\ Len(Append(s, f)) = Len(s) + 1
         /\ s # <<>> => /\ Last(s) \in Frame
                        /\ Front(s) \in Seq(Frame) /\ Len(Front(s)) = Len(s) - 1
         /\ <<>> \in Seq(Frame) /\ Len(<<>>) = 0
<1>1. Len(s) \in Nat /\ <<>> \in Seq(Frame) /\ Len(<<>>) = 0
  OBVIOUS
<1>2. \A f \in Frame : Append(s, f) \in Seq(Frame) /\ Len(Append(s, f)) = Len(s) + 1
  OBVIOUS
<1>3. ASSUME s # <<>>
      PROVE  Last(s) \in Frame /\ Front(s) \in Seq(Frame) /\ Len(Front(s)) = Len(s) - 1
  <2>1. Len(s) \in Nat \ {0}
    BY <1>3
  <2>2. Last(s) \in Frame
    BY <2>1 DEF Last
  <2>3. SubSeq(s, 1, Len(s) - 1) \in Seq(Frame) /\ Len(SubSeq(s, 1, Len(s) - 1)) = Len(s) - 1
    BY <2>1
  <2> QED
    BY <2>2, <2>3 DEF Front
<1> QED
  BY <1>1, <1>2, <1>3

\* Every call is one on a block.
LEMMA FrameFacts ==
  ASSUME NEW s \in Seq(Frame), NEW k \in 1..Len(s)
  PROVE  s[k] \in Frame /\ s[k].block \in Block /\ s[k].edge \in Nat
<1>1. s[k] \in Frame
  OBVIOUS
<1> QED
  BY <1>1 DEF Frame

\* What is left when the last call returns.
LEMMA PopFacts ==
  ASSUME NEW s \in Seq(Frame), s # <<>>
  PROVE  /\ Len(s) \in Nat \ {0} /\ Front(s) \in Seq(Frame) /\ Len(Front(s)) = Len(s) - 1
         /\ \A k \in 1..(Len(s) - 1) : Front(s)[k] = s[k]
<1>1. Len(s) \in Nat \ {0}
  OBVIOUS
<1>2. Front(s) = SubSeq(s, 1, Len(s) - 1)
  BY DEF Front
<1>3. Front(s) \in Seq(Frame) /\ Len(Front(s)) = Len(s) - 1
  BY StackFacts
<1>4. ASSUME NEW k \in 1..(Len(s) - 1) PROVE SubSeq(s, 1, Len(s) - 1)[k] = s[k]
  BY <1>1
<1> QED
  BY <1>1, <1>2, <1>3, <1>4

\* The blocks are listed once each.
LEMMA OrderFacts ==
  /\ Len(Order) \in Nat /\ DOMAIN Order = 1..Len(Order)
  /\ \A i \in 1..Len(Order) : Order[i] \in Block
  /\ \A i, j \in DOMAIN Order : Order[i] = Order[j] => i = j
  /\ checkDepth \in Nat /\ Graphs \subseteq Graph
BY SearchAssumption

\* The statement check stands at.
LEMMA HereFacts ==
  ASSUME TypeOK, AtStmt
  PROVE  /\ Here \in Position /\ ~Behind(Here)
         /\ blockiter[1] \in DOMAIN Order /\ blockiter[2] \in Nat \ {0}
         /\ [blockiter EXCEPT ![2] = @ + 1] = <<blockiter[1], blockiter[2] + 1>>
<1>1. blockiter[1] \in DOMAIN Order /\ blockiter[2] \in Nat \ {0}
      /\ blockiter = <<blockiter[1], blockiter[2]>>
  BY OrderFacts DEF TypeOK, AtStmt, Idle
<1>2. Here \in Position
  BY <1>1, OrderFacts DEF Here, Position
<1>3. ~Behind(Here)
  BY <1>1, OrderFacts DEF Here, Behind
<1>4. [blockiter EXCEPT ![2] = @ + 1] = <<blockiter[1], blockiter[2] + 1>>
  BY <1>1
<1> QED
  BY <1>1, <1>2, <1>3, <1>4

\* The statement after a place is a place.
LEMMA NextPlace == ASSUME NEW p \in Position PROVE [p EXCEPT ![2] = @ + 1] \in Position
BY DEF Position

-----------------------------------------------------------------------------
(* What a step leaves alone.                                               *)

\* What TypeOK says of the variables of a search.
SearchTyped ==
  /\ site \in Position \cup {Null}
  /\ freeargs \subseteq (IF site = Null THEN {} ELSE DOMAIN StmtAt(site).frees)
  /\ scan \in Position \cup {Null}
  /\ stack \in Seq(Frame) /\ Len(stack) <= checkDepth
  /\ fault \in {"none", "null"}

\* A step of a search that neither ends it nor reports.
LEMMA SearchGoesOn ==
  ASSUME ReportInv, UNCHANGED <<cfg, blockiter, site, freeCallCites, warnings>>,
         site # Null, SearchTyped'
  PROVE  ReportInv'
<1>1. TypeOK'
  BY DEF ReportInv, TypeOK, SearchTyped, StmtAt
<1> QED
  BY <1>1 DEF ReportInv, Behind, OneReportPerFree

\* What was behind stays behind as check moves on in its block, and so is what it was at.
LEMMA MovesOn ==
  ASSUME TypeOK, AtStmt, blockiter' = [blockiter EXCEPT ![2] = @ + 1]
  PROVE  /\ \A p \in Position : Behind(p) \/ p = Here => Behind(p)'
         /\ blockiter' \in (Nat \ {0}) \X (Nat \ {0})
<1>1. /\ blockiter[1] \in Nat \ {0} /\ blockiter[2] \in Nat \ {0}
      /\ blockiter'[1] = blockiter[1] /\ blockiter'[2] = blockiter[2] + 1
      /\ blockiter' = <<blockiter[1], blockiter[2] + 1>>
  BY HereFacts, OrderFacts
<1>2. ASSUME NEW p \in Position, Behind(p) PROVE Behind(p)'
  <2>1. p[2] \in Nat
    BY DEF Position
  <2> QED
    BY <1>1, <1>2, <2>1, OrderFacts DEF Behind
<1>3. ASSUME NEW p \in Position, p = Here PROVE Behind(p)'
  <2>1. blockiter[1] \in DOMAIN Order /\ Order[blockiter[1]] = p[1] /\ p[2] = blockiter[2]
    BY <1>3, HereFacts DEF Here
  <2> QED
    BY <1>1, <2>1 DEF Behind
<1> QED
  BY <1>1, <1>2, <1>3

-----------------------------------------------------------------------------
(* Action by action.                                                       *)

LEMMA InitReportInv == Init => ReportInv
<1> SUFFICES ASSUME Init PROVE ReportInv
  OBVIOUS
<1>1. stack \in Seq(Frame) /\ Len(stack) = 0
  BY DEF Init
<1>2. cfg \in Graph /\ checkDepth \in Nat
  BY OrderFacts DEF Init
<1>3. TypeOK
  BY <1>1, <1>2 DEF Init, TypeOK
<1> QED
  BY <1>3 DEF Init, ReportInv, OneReportPerFree

LEMMA NextBlockStep == ReportInv /\ NextBlock => ReportInv'
<1> SUFFICES ASSUME ReportInv, NextBlock PROVE ReportInv'
  OBVIOUS
<1>1. /\ blockiter \in (Nat \ {0}) \X (Nat \ {0})
      /\ blockiter' = <<blockiter[1] + 1, 1>> /\ site = Null
      /\ cfg' = cfg /\ site' = site /\ freeargs' = freeargs /\ scan' = scan /\ stack' = stack
      /\ freeCallCites' = freeCallCites /\ warnings' = warnings /\ fault' = fault
  BY DEF ReportInv, TypeOK, NextBlock, search, Idle
<1>2. TypeOK'
  BY <1>1 DEF ReportInv, TypeOK, StmtAt
<1>3. ASSUME NEW p \in Position, Behind(p) PROVE Behind(p)'
  BY <1>1, <1>3, OrderFacts DEF Behind
<1>4. \A w \in warnings : w.site \in Position
  BY DEF ReportInv, TypeOK
<1>5. \A w \in warnings' : Behind(w.site)' /\ w.site # site'
  BY <1>1, <1>3, <1>4 DEF ReportInv
<1> QED
  BY <1>1, <1>2, <1>5 DEF ReportInv, OneReportPerFree

LEMMA SkipStep == ReportInv /\ Skip => ReportInv'
<1> SUFFICES ASSUME ReportInv, Skip PROVE ReportInv'
  OBVIOUS
<1>1. /\ AtStmt /\ blockiter' = [blockiter EXCEPT ![2] = @ + 1] /\ site = Null
      /\ cfg' = cfg /\ site' = site /\ freeargs' = freeargs /\ scan' = scan /\ stack' = stack
      /\ freeCallCites' = freeCallCites /\ warnings' = warnings /\ fault' = fault
  BY DEF Skip, search, AtStmt, Idle
<1>2. TypeOK'
  BY <1>1, MovesOn DEF ReportInv, TypeOK, StmtAt
<1>3. \A w \in warnings : w.site \in Position
  BY DEF ReportInv, TypeOK
<1>4. \A w \in warnings' : Behind(w.site)' /\ w.site # site'
  BY <1>1, <1>3, MovesOn DEF ReportInv
<1> QED
  BY <1>1, <1>2, <1>4 DEF ReportInv, OneReportPerFree

\* The new search begins at a statement that no report names, as none is behind itself.
LEMMA FreeStep == ReportInv /\ Free => ReportInv'
<1> SUFFICES ASSUME ReportInv, Free PROVE ReportInv'
  OBVIOUS
<1>1. /\ AtStmt /\ blockiter' = [blockiter EXCEPT ![2] = @ + 1] /\ site = Null
      /\ cfg' = cfg /\ site' = Here /\ freeargs' = DOMAIN StmtAt(Here).frees
      /\ scan' = <<Here[1], Here[2] + 1>> /\ stack' = stack
      /\ freeCallCites' = freeCallCites \cup {Here} /\ warnings' = warnings /\ fault' = fault
  BY DEF Free, AtStmt, Idle
<1>2. /\ Here \in Position /\ ~Behind(Here) /\ Here # Null
      /\ blockiter' \in (Nat \ {0}) \X (Nat \ {0})
      /\ \A p \in Position : Behind(p) \/ p = Here => Behind(p)'
  BY <1>1, HereFacts, MovesOn, GraphAssumption DEF ReportInv
<1>3. TypeOK'
  <2>1. freeargs' \subseteq (IF site' = Null THEN {} ELSE DOMAIN StmtAt(site)'.frees)
    BY <1>1, <1>2 DEF StmtAt
  <2>2. scan' \in Position \cup {Null} /\ site' \in Position \cup {Null}
    BY <1>1, <1>2 DEF Position
  <2>3. freeCallCites' \subseteq Position
    BY <1>1, <1>2 DEF ReportInv, TypeOK
  <2>4. /\ cfg' \in Graph /\ stack' \in Seq(Frame) /\ Len(stack') <= checkDepth
        /\ warnings' \subseteq [site : Position, use : Position] /\ fault' \in {"none", "null"}
    BY <1>1 DEF ReportInv, TypeOK
  <2> QED
    BY <1>2, <2>1, <2>2, <2>3, <2>4 DEF TypeOK
<1>4. PICK p \in Position : p = Here
  BY <1>2
<1>5. Behind(p)' /\ site' = p
  BY <1>1, <1>2, <1>4
<1>6. \A w \in warnings : w.site \in Position /\ w.site # p
  BY <1>2, <1>4 DEF ReportInv, TypeOK
<1>7. \A w \in warnings' : Behind(w.site)' /\ w.site # site'
  BY <1>1, <1>2, <1>5, <1>6 DEF ReportInv
<1>8. Behind(site)'
  BY <1>5 DEF Behind
<1> QED
  BY <1>1, <1>2, <1>3, <1>7, <1>8 DEF ReportInv, OneReportPerFree

\* The search is over, and its freeing statement is behind.
LEMMA ReportStep == ReportInv /\ Report => ReportInv'
<1> SUFFICES ASSUME ReportInv, Report PROVE ReportInv'
  OBVIOUS
<1> DEFINE new == [site |-> site, use |-> scan]
<1>1. /\ site # Null /\ scan # Null /\ warnings' = warnings \cup {new}
      /\ site' = Null /\ freeargs' = {} /\ scan' = Null /\ stack' = <<>>
      /\ cfg' = cfg /\ blockiter' = blockiter /\ freeCallCites' = freeCallCites /\ fault' = fault
  BY DEF Report, Comparing
<1>2. site \in Position /\ scan \in Position /\ Null \notin Position
  BY <1>1, GraphAssumption DEF ReportInv, TypeOK
<1>3. TypeOK'
  <2>1. stack' \in Seq(Frame) /\ Len(stack') <= checkDepth
    BY <1>1, OrderFacts
  <2>2. warnings' \subseteq [site : Position, use : Position]
    BY <1>1, <1>2 DEF ReportInv, TypeOK
  <2> QED
    BY <1>1, <2>1, <2>2 DEF ReportInv, TypeOK
<1>4. \A w \in warnings' : w.site \in Position /\ Behind(w.site)
  BY <1>1, <1>2 DEF ReportInv, TypeOK
<1>5. \A w \in warnings' : Behind(w.site)' /\ w.site # site'
  BY <1>1, <1>2, <1>4 DEF Behind
<1>6. OneReportPerFree'
  BY <1>1 DEF ReportInv, OneReportPerFree
<1> QED
  BY <1>1, <1>3, <1>5, <1>6 DEF ReportInv

LEMMA PassStep == ReportInv /\ Pass => ReportInv'
<1> SUFFICES ASSUME ReportInv, Pass PROVE ReportInv'
  OBVIOUS
<1>1. /\ site # Null /\ scan # Null /\ freeargs' \subseteq freeargs
      /\ scan' = [scan EXCEPT ![2] = @ + 1] /\ stack' = stack /\ fault' = fault
      /\ UNCHANGED <<cfg, blockiter, site, freeCallCites, warnings>>
  BY DEF Pass, Comparing
<1>2. scan' \in Position
  BY <1>1, NextPlace DEF ReportInv, TypeOK
<1>3. SearchTyped'
  BY <1>1, <1>2 DEF ReportInv, TypeOK, SearchTyped, StmtAt
<1> QED
  BY <1>1, <1>3, SearchGoesOn

\* The stack grows only below checkDepth.
LEMMA DescendStep == ReportInv /\ Descend => ReportInv'
<1> SUFFICES ASSUME ReportInv, Descend PROVE ReportInv'
  OBVIOUS
<1>1. /\ site # Null /\ scan # Null /\ scan' = Null /\ freeargs' = freeargs /\ fault' = fault
      /\ stack' = IF MayDescend THEN Append(stack, [block |-> scan[1], edge |-> 0]) ELSE stack
      /\ UNCHANGED <<cfg, blockiter, site, freeCallCites, warnings>>
  BY DEF Descend
<1>2. scan \in Position /\ stack \in Seq(Frame) /\ Len(stack) <= checkDepth
  BY <1>1 DEF ReportInv, TypeOK
<1>3. [block |-> scan[1], edge |-> 0] \in Frame
  BY <1>2 DEF Position, Frame
<1>4. stack' \in Seq(Frame) /\ Len(stack') <= checkDepth
  <2>1. CASE MayDescend
    BY <1>1, <1>2, <1>3, <2>1, StackFacts, OrderFacts DEF MayDescend
  <2>2. CASE ~MayDescend
    BY <1>1, <1>2, <2>2
  <2> QED
    BY <2>1, <2>2
<1>5. SearchTyped'
  BY <1>1, <1>4 DEF ReportInv, TypeOK, SearchTyped, StmtAt
<1> QED
  BY <1>1, <1>5, SearchGoesOn

LEMMA SuccessorStep == ReportInv /\ Successor => ReportInv'
<1> SUFFICES ASSUME ReportInv, Successor PROVE ReportInv'
  OBVIOUS
<1> DEFINE b == Last(stack).block
           edge == Last(stack).edge + 1
           succblock == Target(cfg.succ[b][edge])
<1>1. /\ site # Null /\ scan = Null /\ stack # <<>> /\ fault = "none"
      /\ Last(stack).edge < Len(cfg.succ[b])
      /\ stack' = Append(Front(stack), [Last(stack) EXCEPT !.edge = edge])
      /\ IF succblock = Null THEN fault' = "null" /\ scan' = scan
                             ELSE scan' = <<succblock, 1>> /\ fault' = fault
      /\ freeargs' = freeargs
      /\ UNCHANGED <<cfg, blockiter, site, freeCallCites, warnings>>
  BY DEF Successor, Between
<1>2. /\ stack \in Seq(Frame) /\ Last(stack) \in Frame /\ Front(stack) \in Seq(Frame)
      /\ Len(stack) \in Nat /\ Len(Front(stack)) = Len(stack) - 1 /\ Len(stack) <= checkDepth
      /\ cfg \in Graph
  BY <1>1, StackFacts DEF ReportInv, TypeOK
<1>3. b \in Block /\ Last(stack).edge \in Nat /\ edge \in Nat \ {0}
      /\ [Last(stack) EXCEPT !.edge = edge] \in Frame
  <2>1. b \in Block /\ Last(stack).edge \in Nat
    BY <1>2 DEF Frame
  <2>2. edge \in Nat /\ edge \in Nat \ {0}
    BY <2>1
  <2>3. [Last(stack) EXCEPT !.edge = edge] \in Frame
    BY <1>2, <2>2 DEF Frame
  <2> QED
    BY <2>1, <2>2, <2>3
<1>4. stack' \in Seq(Frame) /\ Len(stack') <= checkDepth
  BY <1>1, <1>2, <1>3, StackFacts
<1>5. succblock \in Block \cup {Null}
  <2>1. cfg.succ[b] \in Seq(Edge)
    BY <1>2, <1>3 DEF Graph
  <2>2. edge <= Len(cfg.succ[b])
    BY <1>1, <1>3, <2>1
  <2> QED
    BY <1>2, <1>3, <2>2, TargetFacts
<1> HIDE DEF succblock, edge, b
<1>6. scan' \in Position \cup {Null} /\ fault' \in {"none", "null"}
  BY <1>1, <1>5 DEF Position
<1>7. SearchTyped'
  BY <1>1, <1>4, <1>6 DEF ReportInv, TypeOK, SearchTyped, StmtAt
<1> QED
  BY <1>1, <1>7, SearchGoesOn

LEMMA ReturnStep == ReportInv /\ Return => ReportInv'
<1> SUFFICES ASSUME ReportInv, Return PROVE ReportInv'
  OBVIOUS
<1>1. /\ site # Null /\ stack # <<>> /\ stack' = Front(stack)
      /\ freeargs' = freeargs /\ scan' = scan /\ fault' = fault
      /\ UNCHANGED <<cfg, blockiter, site, freeCallCites, warnings>>
  BY DEF Return, Between
<1>2. stack \in Seq(Frame) /\ Len(stack) <= checkDepth
  BY DEF ReportInv, TypeOK
<1>3. stack' \in Seq(Frame) /\ Len(stack') <= checkDepth
  BY <1>1, <1>2, StackFacts, OrderFacts
<1>4. SearchTyped'
  BY <1>1, <1>3 DEF ReportInv, TypeOK, SearchTyped, StmtAt
<1> QED
  BY <1>1, <1>4, SearchGoesOn

LEMMA GiveUpStep == ReportInv /\ GiveUp => ReportInv'
<1> SUFFICES ASSUME ReportInv, GiveUp PROVE ReportInv'
  OBVIOUS
<1>1. /\ scan = Null /\ stack = <<>> /\ site' = Null /\ freeargs' = {}
      /\ cfg' = cfg /\ blockiter' = blockiter /\ scan' = scan /\ stack' = stack
      /\ freeCallCites' = freeCallCites /\ warnings' = warnings /\ fault' = fault
  BY DEF GiveUp
<1>2. TypeOK'
  BY <1>1 DEF ReportInv, TypeOK
<1>3. \A w \in warnings : w.site # Null
  BY GraphAssumption DEF ReportInv, TypeOK
<1> QED
  BY <1>1, <1>2, <1>3 DEF ReportInv, OneReportPerFree, Behind

LEMMA ReportInvStep == ReportInv /\ [Next]_vars => ReportInv'
<1>1. ReportInv /\ Next => ReportInv'
  BY NextBlockStep, SkipStep, FreeStep, ReportStep, PassStep, DescendStep, SuccessorStep,
     ReturnStep, GiveUpStep DEF Next
<1>2. ReportInv /\ UNCHANGED vars => ReportInv'
  BY DEF vars, search, ReportInv, TypeOK, Behind, OneReportPerFree, StmtAt
<1> QED
  BY <1>1, <1>2

-----------------------------------------------------------------------------
(* What is reported is a use on some path.                                 *)

\* Nothing happens after a null successor was dereferenced.
LEMMA FaultEnds ==
  ASSUME ReportInv, WayInv, Next
  PROVE  fault = "none"
BY DEF ReportInv, TypeOK, WayInv, Next, NextBlock, Skip, Free, AtStmt, Idle, Report, Pass, Comparing,
       Descend, Successor, Return, Between, GiveUp

\* What is said of the graph alone stays as it is.
LEMMA SameOneOfEach == ASSUME cfg' = cfg, NEW p PROVE OneOfEach(p)' <=> OneOfEach(p)
BY DEF OneOfEach, StmtAt

LEMMA SameUses == ASSUME cfg' = cfg, NEW q, NEW e PROVE Uses(q, e)' <=> Uses(q, e)
BY DEF Uses, StmtAt

LEMMA SameFreedAt == ASSUME cfg' = cfg, NEW p PROVE FreedAt(p)' = FreedAt(p)
BY DEF FreedAt, StmtAt

LEMMA SameStaysFreed ==
  ASSUME cfg' = cfg, NEW b, NEW from, NEW to, NEW e
  PROVE  StaysFreed(b, from, to, e)' <=> StaysFreed(b, from, to, e)
BY DEF StaysFreed

LEMMA SameThrough ==
  ASSUME cfg' = cfg, NEW b, NEW from, NEW e
  PROVE  Through(b, from, e)' <=> Through(b, from, e)
BY DEF Through, StaysFreed

LEMMA SameWays == ASSUME cfg' = cfg, NEW d PROVE Ways(d)' = Ways(d)
BY DEF Ways

LEMMA SameReaches ==
  ASSUME cfg' = cfg, NEW p, NEW q, NEW e, NEW far, ReachesIntact(p, q, e, far)
  PROVE  ReachesIntact(p, q, e, far)'
<1>1. CASE p[1] = q[1] /\ p[2] < q[2] /\ StaysFreed(q[1], p[2] + 1, q[2] - 1, e)
  BY <1>1 DEF ReachesIntact, StaysFreed
<1>2. ASSUME NEW d \in 1..far, NEW way \in Ways(d),
             way[0] = p[1], way[d] = q[1], Through(p[1], p[2] + 1, e),
             \A k \in 1..(d - 1) : Through(way[k], 1, e), StaysFreed(q[1], 1, q[2] - 1, e)
      PROVE  ReachesIntact(p, q, e, far)'
  <2>1. way \in Ways(d)'
    BY <1>2, SameWays
  <2>2. Through(p[1], p[2] + 1, e)' /\ StaysFreed(q[1], 1, q[2] - 1, e)'
    BY <1>2 DEF Through, StaysFreed
  <2>3. \A k \in 1..(d - 1) : Through(way[k], 1, e)'
    BY <1>2 DEF Through, StaysFreed
  <2> QED
    BY <1>2, <2>1, <2>2, <2>3 DEF ReachesIntact
<1> QED
  BY <1>1, <1>2 DEF ReachesIntact

\* A report stays one of a use on some path.
LEMMA ReportsStay ==
  ASSUME ReportsUseOfFreed, cfg' = cfg, warnings' = warnings
  PROVE  ReportsUseOfFreed'
<1> SUFFICES ASSUME NEW w \in warnings', OneOfEach(w.site)'
             PROVE  \E e \in FreedAt(w.site)' :
                      Uses(w.use, e)' /\ ReachesIntact(w.site, w.use, e, checkDepth)'
  BY DEF ReportsUseOfFreed
<1>1. w \in warnings /\ OneOfEach(w.site)
  BY SameOneOfEach
<1>2. PICK e \in FreedAt(w.site) :
        Uses(w.use, e) /\ ReachesIntact(w.site, w.use, e, checkDepth)
  BY <1>1 DEF ReportsUseOfFreed
<1> QED
  BY <1>2, SameUses, SameReaches, SameFreedAt

\* A step between two searches.
LEMMA NoSearch ==
  ASSUME WayInv, cfg' = cfg, warnings' = warnings, site' = Null, fault' = "none"
  PROVE  WayInv'
BY ReportsStay DEF WayInv, NullExplained

\* A step of a search that does not end it.
LEMMA SearchKeepsWay ==
  ASSUME WayInv, cfg' = cfg, site' = site, warnings' = warnings, site # Null,
         fault' = "null" => scan' = Null /\ stack' # <<>> /\ NullExplained',
         Chained',
         OneOfEach(site) => \A n \in freeargs' : Base[Freed(n)] # Null => Intact(Freed(n))'
  PROVE  WayInv'
<1>1. ReportsUseOfFreed'
  BY ReportsStay DEF WayInv
<1>2. ASSUME OneOfEach(site)', NEW n \in freeargs', (Base[Freed(n)] # Null)'
      PROVE  Intact(Freed(n))'
  <2>1. OneOfEach(site)
    <3> SUFFICES ASSUME NEW i \in DOMAIN StmtAt(site).frees, NEW j \in DOMAIN StmtAt(site).frees,
                        Base[StmtAt(site).frees[i]] = Base[StmtAt(site).frees[j]],
                        Base[StmtAt(site).frees[i]] # Null
                 PROVE  i = j
      BY DEF OneOfEach
    <3>1. StmtAt(site)' = StmtAt(site)
      BY DEF StmtAt
    <3> QED
      BY <1>2, <3>1 DEF OneOfEach
  <2>2. Base[Freed(n)] # Null
    BY <1>2 DEF Freed, StmtAt
  <2> QED
    BY <1>2, <2>1, <2>2
<1>3. cfg' \in Graphs /\ site' # Null
  BY DEF WayInv
<1>4. fault' = "null" => site' # Null /\ scan' = Null /\ stack' # <<>>
  OBVIOUS
<1>5. NullExplained'
  BY DEF NullExplained
<1> QED
  BY <1>1, <1>2, <1>3, <1>4, <1>5 DEF WayInv

\* An assignment on the way takes the expression of its variable out of freeargs.
LEMMA PassKeepsIntact ==
  ASSUME ReportInv, WayInv, Pass, OneOfEach(site),
         NEW n \in freeargs', Base[Freed(n)] # Null
  PROVE  n \in freeargs /\ StmtAt(scan).assigns # Base[Freed(n)]
<1> DEFINE s == StmtAt(scan)
<1>1. /\ site # Null /\ scan # Null /\ scan[2] <= Len(cfg.stmts[scan[1]])
      /\ \E gone \in Erased(s) : freeargs' = freeargs \ gone
  BY DEF Pass, Comparing
<1>2. scan \in Position /\ freeargs \subseteq DOMAIN StmtAt(site).frees /\ cfg \in Graph
  BY <1>1 DEF ReportInv, TypeOK
<1>3. s.wraps = Null \/ s.assigns = Null
  <2>1. scan[1] \in Block /\ scan[2] \in DOMAIN cfg.stmts[scan[1]]
    BY <1>1, <1>2, StmtFacts DEF Position
  <2> QED
    BY <2>1, SearchAssumption DEF WayInv, StmtAt
<1>4. n \in freeargs
  BY <1>1
<1>5. ASSUME s.assigns = Base[Freed(n)] PROVE FALSE
  <2>1. n \in Reassigned(s) /\ ~DeclaresFree(s)
    BY <1>3, <1>4, <1>5 DEF Reassigned, DeclaresFree
  <2>2. \A m \in Reassigned(s) : m = n
    BY <1>2, <1>4, <1>5 DEF Reassigned, OneOfEach, Freed
  <2>3. Erased(s) = {{n}}
    BY <2>1, <2>2 DEF Erased
  <2> QED
    BY <1>1, <2>3
<1> QED
  BY <1>4, <1>5

\* What a step has to keep for an expression between two blocks, or at the first
\* statement of one.
LEMMA IntactNext ==
  ASSUME cfg' = cfg, site' = site, NEW e,
         scan' = Null \/ (scan'[2] = 1 /\ stack' # <<>>),
         stack' # <<>> => Through(site[1], site[2] + 1, e),
         \A k \in 2..Len(stack') : Through(stack'[k].block, 1, e)
  PROVE  Intact(e)'
<1>1. ASSUME stack' # <<>> PROVE Through(site[1], site[2] + 1, e)'
  <2>1. PICK p : p = site
    OBVIOUS
  <2>2. Through(p[1], p[2] + 1, e)
    BY <1>1, <2>1
  <2>3. Through(p[1], p[2] + 1, e)'
    BY <2>2, SameThrough
  <2> QED
    BY <2>1, <2>3 DEF Through, StaysFreed
<1>2. ASSUME NEW k \in 2..Len(stack') PROVE Through(stack[k].block, 1, e)'
  <2>1. PICK b : b = stack'[k].block
    OBVIOUS
  <2>2. Through(b, 1, e)
    BY <2>1
  <2>3. Through(b, 1, e)'
    BY <2>2, SameThrough
  <2> QED
    BY <2>1, <2>3 DEF Through, StaysFreed
<1>3. ASSUME scan' # Null
      PROVE  StaysFreed(scan[1], IF stack = <<>> THEN site[2] + 1 ELSE 1, scan[2] - 1, e)'
  <2>1. scan'[2] - 1 = 0 /\ stack' # <<>>
    BY <1>3
  <2>2. 1..0 = {}
    OBVIOUS
  <2> QED
    BY <2>1, <2>2 DEF StaysFreed
<1> QED
  BY <1>1, <1>2, <1>3 DEF Intact

\* The way from the free to the statement that is scanned.
LEMMA WayFound ==
  ASSUME ReportInv, Chained, site # Null, scan # Null, NEW e, Intact(e)
  PROVE  ReachesIntact(site, scan, e, checkDepth)
<1>1. /\ site \in Position /\ scan \in Position /\ stack \in Seq(Frame)
      /\ Len(stack) <= checkDepth /\ checkDepth \in Nat
  BY OrderFacts DEF ReportInv, TypeOK
<1>2. CASE stack = <<>>
  BY <1>2 DEF Chained, Intact, ReachesIntact
<1>3. CASE stack # <<>>
  <2> DEFINE d == Len(stack)
             way == [k \in 0..d |-> IF k < d THEN stack[k + 1].block ELSE scan[1]]
  <2>1. d \in 1..checkDepth
    BY <1>1, <1>3
  <2>2. \A k \in 1..d : stack[k].block \in Block
    BY <1>1, FrameFacts
  <2>3. /\ way[0] = site[1] /\ way[d] = scan[1]
        /\ \A k \in 1..(d - 1) : way[k] = stack[k + 1].block
        /\ \A k \in 1..d : way[k - 1] = stack[k].block
    BY <1>3, <2>1 DEF Chained
  <2>4. way \in [0..d -> Block]
    BY <1>1, <2>1, <2>2 DEF Position
  <2>5. \A k \in 1..d : way[k] \in Follow(cfg, way[k - 1])
    <3> SUFFICES ASSUME NEW k \in 1..d PROVE way[k] \in Follow(cfg, way[k - 1])
      OBVIOUS
    <3>1. CASE k = d
      BY <1>3, <2>1, <2>3, <3>1 DEF Chained
    <3>2. CASE k # d
      <4>1. k \in 1..(d - 1) /\ k + 1 \in 2..d /\ k + 1 - 1 = k
        BY <2>1, <3>2
      <4>2. stack[k + 1].block \in Follow(cfg, stack[k].block)
        BY <4>1 DEF Chained
      <4> QED
        BY <2>3, <4>1, <4>2
    <3> QED
      BY <3>1, <3>2
  <2>6. way \in Ways(d)
    BY <2>4, <2>5 DEF Ways
  <2>7. Through(site[1], site[2] + 1, e)
    BY <1>3 DEF Intact
  <2>8. \A k \in 1..(d - 1) : Through(way[k], 1, e)
    <3> SUFFICES ASSUME NEW k \in 1..(d - 1) PROVE Through(way[k], 1, e)
      OBVIOUS
    <3>1. k + 1 \in 2..d
      BY <2>1
    <3> QED
      BY <2>3, <3>1 DEF Intact
  <2>9. StaysFreed(scan[1], 1, scan[2] - 1, e)
    BY <1>3 DEF Intact
  <2> HIDE DEF d, way
  <2> QED
    BY <2>1, <2>3, <2>6, <2>7, <2>8, <2>9 DEF ReachesIntact
<1> QED
  BY <1>2, <1>3

LEMMA InitWay == Init => WayInv
BY DEF Init, WayInv, ReportsUseOfFreed, NullExplained

\* A search begins with nothing behind it.
LEMMA FreeWay == ASSUME ReportInv, WayInv, Free PROVE WayInv'
<1>1. /\ AtStmt /\ site = Null /\ cfg' = cfg /\ site' = Here /\ stack' = stack /\ warnings' = warnings
      /\ scan' = <<Here[1], Here[2] + 1>> /\ fault' = fault /\ fault = "none"
  BY DEF Free, AtStmt, Idle
<1>2. Here \in Position /\ stack = <<>>
  BY <1>1, HereFacts DEF ReportInv
<1>3. PICK p \in Position : p = Here
  BY <1>2
<1>4. /\ p[2] \in Nat /\ site' = p /\ scan' = <<p[1], p[2] + 1>> /\ stack' = <<>>
      /\ scan'[1] = p[1] /\ scan'[2] = p[2] + 1
  BY <1>1, <1>2, <1>3 DEF Position
<1>5. Chained'
  BY <1>4 DEF Chained
<1>6. ASSUME NEW e PROVE Intact(e)'
  BY <1>4 DEF Intact, StaysFreed
<1>7. ReportsUseOfFreed'
  BY <1>1, ReportsStay DEF WayInv
<1>8. NullExplained'
  BY <1>1 DEF NullExplained
<1>9. ASSUME NEW n \in freeargs' PROVE Intact(Freed(n))'
  <2>1. PICK e : e = Freed(n)'
    OBVIOUS
  <2>2. Intact(e)'
    BY <1>6
  <2> QED
    BY <2>1, <2>2 DEF Intact
<1> QED
  BY <1>1, <1>5, <1>7, <1>8, <1>9 DEF WayInv

\* What is reported is read, and was not assigned on the way.
LEMMA ReportWay == ASSUME ReportInv, WayInv, Report PROVE WayInv'
<1> DEFINE new == [site |-> site, use |-> scan]
<1>1. /\ site # Null /\ scan # Null /\ Referenced(StmtAt(scan)) /\ warnings' = warnings \cup {new}
      /\ cfg' = cfg /\ site' = Null /\ fault' = fault
  BY DEF Report, Comparing
<1>2. fault = "none"
  BY FaultEnds DEF Next
<1>3. freeargs \subseteq DOMAIN StmtAt(site).frees
  BY <1>1 DEF ReportInv, TypeOK
<1>4. PICK n \in freeargs : Base[Freed(n)] # Null /\ Freed(n) \in StmtAt(scan).reads
  BY <1>1 DEF Referenced
<1>5. Freed(n) \in FreedAt(site) /\ Uses(scan, Freed(n))
  BY <1>3, <1>4 DEF FreedAt, Freed, ToSet, Uses
<1>6. OneOfEach(site) => ReachesIntact(site, scan, Freed(n), checkDepth)
  BY <1>1, <1>4, WayFound DEF WayInv
<1>7. ASSUME NEW w \in warnings', OneOfEach(w.site)
      PROVE  \E e \in FreedAt(w.site) :
               Uses(w.use, e) /\ ReachesIntact(w.site, w.use, e, checkDepth)
  <2>1. CASE w \in warnings
    BY <1>7, <2>1 DEF WayInv, ReportsUseOfFreed
  <2>2. CASE w = new
    <3>1. w.site = site /\ w.use = scan
      BY <2>2
    <3>2. ReachesIntact(site, scan, Freed(n), checkDepth)
      BY <1>6, <1>7, <3>1
    <3> QED
      BY <1>5, <3>1, <3>2
  <2> QED
    BY <1>1, <1>7, <2>1, <2>2
<1>8. ReportsUseOfFreed'
  <2> SUFFICES ASSUME NEW w \in warnings', OneOfEach(w.site)'
               PROVE  \E e \in FreedAt(w.site)' :
                        Uses(w.use, e)' /\ ReachesIntact(w.site, w.use, e, checkDepth)'
    BY DEF ReportsUseOfFreed
  <2>1. OneOfEach(w.site)
    BY <1>1, SameOneOfEach
  <2>2. PICK e \in FreedAt(w.site) :
          Uses(w.use, e) /\ ReachesIntact(w.site, w.use, e, checkDepth)
    BY <1>7, <2>1
  <2> QED
    BY <1>1, <2>2, SameUses, SameReaches, SameFreedAt
<1> QED
  BY <1>1, <1>2, <1>8 DEF WayInv, NullExplained

LEMMA PassWay == ASSUME ReportInv, WayInv, Pass PROVE WayInv'
<1>1. /\ site # Null /\ scan # Null /\ cfg' = cfg /\ site' = site /\ warnings' = warnings
      /\ scan' = [scan EXCEPT ![2] = @ + 1] /\ stack' = stack /\ fault' = fault
  BY DEF Pass, Comparing
<1>2. fault = "none"
  BY FaultEnds DEF Next
<1>3. scan \in Position /\ site \in Position
  BY <1>1 DEF ReportInv, TypeOK
<1>4. /\ scan[2] \in Nat \ {0} /\ site[2] \in Nat \ {0}
      /\ scan' = <<scan[1], scan[2] + 1>> /\ scan'[1] = scan[1] /\ scan'[2] = scan[2] + 1
  BY <1>1, <1>3 DEF Position
<1>5. Chained'
  BY <1>1, <1>4 DEF WayInv, Chained
<1>6. ASSUME OneOfEach(site), NEW n \in freeargs', Base[Freed(n)] # Null
      PROVE  Intact(Freed(n))'
  <2>1. PICK e : e = Freed(n)
    OBVIOUS
  <2>2. StmtAt(scan).assigns # Base[e] /\ Intact(e)
    BY <1>1, <1>6, <2>1, PassKeepsIntact DEF WayInv
  <2> DEFINE from == IF stack = <<>> THEN site[2] + 1 ELSE 1
  <2>3. StaysFreed(scan[1], from, scan[2] - 1, e)
    BY <1>1, <2>2 DEF Intact
  <2>4. \A k \in from..scan[2] : k \in from..(scan[2] - 1) \/ k = scan[2]
    BY <1>4
  <2>5. \A k \in from..scan[2] : cfg.stmts[scan[1]][k].assigns # Base[e]
    BY <2>2, <2>3, <2>4 DEF StaysFreed, StmtAt
  <2>6. scan'[2] - 1 = scan[2]
    BY <1>4
  <2>7. Intact(e)'
    BY <1>1, <1>4, <2>2, <2>5, <2>6 DEF Intact, StaysFreed, Through
  <2> QED
    BY <1>1, <2>1, <2>7 DEF Intact, Freed, StmtAt
<1> QED
  BY <1>1, <1>2, <1>5, <1>6, SearchKeepsWay

\* The block that is through joins the way, if there is a call for it.
LEMMA DescendWay == ASSUME ReportInv, WayInv, Descend PROVE WayInv'
<1> DEFINE call == [block |-> scan[1], edge |-> 0]
<1>1. /\ site # Null /\ scan # Null /\ ~Comparing /\ cfg' = cfg /\ site' = site /\ warnings' = warnings
      /\ scan' = Null /\ stack' = IF MayDescend THEN Append(stack, call) ELSE stack
      /\ freeargs' = freeargs /\ fault' = fault
  BY DEF Descend
<1>2. fault = "none"
  BY FaultEnds DEF Next
<1>3. /\ scan \in Position /\ site \in Position /\ stack \in Seq(Frame) /\ cfg \in Graph
      /\ call \in Frame
  BY <1>1 DEF ReportInv, TypeOK, Position, Frame
<1>4. /\ scan[2] \in Nat \ {0} /\ Len(cfg.stmts[scan[1]]) \in Nat
      /\ Len(cfg.stmts[scan[1]]) <= scan[2] - 1
  BY <1>1, <1>3, StmtFacts DEF Position, Comparing
<1>5. CASE ~MayDescend
  <2>1. Chained' /\ \A e : Intact(e) => Intact(e)'
    BY <1>1, <1>5 DEF WayInv, Chained, Intact, Through, StaysFreed
  <2>2. ASSUME OneOfEach(site), NEW n \in freeargs', Base[Freed(n)] # Null
        PROVE  Intact(Freed(n))'
    BY <1>1, <2>1, <2>2 DEF WayInv, Intact, Freed, StmtAt
  <2> QED
    BY <1>1, <1>2, <2>1, <2>2, SearchKeepsWay
<1>6. CASE MayDescend
  <2> DEFINE m == Len(stack) + 1
  <2>1. /\ stack' \in Seq(Frame) /\ Len(stack') = m /\ m \in Nat \ {0} /\ stack' # <<>>
        /\ stack'[m] = call /\ \A k \in 1..(m - 1) : stack'[k] = stack[k]
    BY <1>1, <1>3, <1>6
  <2>2. (stack = <<>>) <=> (m = 1)
    BY <1>3
  <2>3. stack[Len(stack)] = stack[m - 1]
    BY <1>3
  <2> HIDE DEF m
  <2>4. Chained'
    <3>1. stack'[1].block = site[1]
      BY <1>1, <2>1, <2>2 DEF WayInv, Chained
    <3>2. ASSUME NEW k \in 2..m
          PROVE  stack'[k].block \in Follow(cfg, stack'[k - 1].block)
      <4>1. CASE k = m
        <5>1. stack # <<>> /\ k - 1 \in 1..(m - 1)
          BY <2>1, <2>2, <4>1
        <5>2. scan[1] \in Follow(cfg, stack[m - 1].block)
          BY <1>1, <2>3, <5>1 DEF WayInv, Chained
        <5> QED
          BY <2>1, <4>1, <5>1, <5>2
      <4>2. CASE k # m
        <5>1. k \in 1..(m - 1) /\ k - 1 \in 1..(m - 1) /\ k \in 2..Len(stack)
          BY <2>1, <4>2 DEF m
        <5>2. stack[k].block \in Follow(cfg, stack[k - 1].block)
          BY <1>1, <5>1 DEF WayInv, Chained
        <5> QED
          BY <2>1, <5>1, <5>2
      <4> QED
        BY <4>1, <4>2
    <3> QED
      BY <1>1, <2>1, <3>1, <3>2 DEF Chained
  <2>5. ASSUME OneOfEach(site), NEW n \in freeargs', Base[Freed(n)] # Null
        PROVE  Intact(Freed(n))'
    <3>1. PICK e : e = Freed(n)
      OBVIOUS
    <3>2. Intact(e)
      BY <1>1, <2>5, <3>1 DEF WayInv
    <3>3. Through(scan[1], IF stack = <<>> THEN site[2] + 1 ELSE 1, e)
      <4> DEFINE from == IF stack = <<>> THEN site[2] + 1 ELSE 1
      <4>1. StaysFreed(scan[1], from, scan[2] - 1, e) /\ from \in Nat
        BY <1>1, <1>3, <3>2 DEF Intact, Position
      <4>2. \A k \in from..Len(cfg.stmts[scan[1]]) : k \in from..(scan[2] - 1)
        BY <1>4, <4>1
      <4> QED
        BY <4>1, <4>2 DEF Through, StaysFreed
    <3>4. Through(site[1], site[2] + 1, e)
      BY <1>1, <3>2, <3>3 DEF WayInv, Chained, Intact
    <3>5. ASSUME NEW k \in 2..m PROVE Through(stack'[k].block, 1, e)
      <4>1. CASE k = m
        BY <2>1, <2>2, <3>3, <4>1
      <4>2. CASE k # m
        <5>1. k \in 1..(m - 1) /\ k \in 2..Len(stack)
          BY <2>1, <4>2 DEF m
        <5> QED
          BY <2>1, <3>2, <5>1 DEF Intact
      <4> QED
        BY <4>1, <4>2
    <3>6. Intact(e)'
      BY <1>1, <2>1, <3>4, <3>5 DEF Intact, Through, StaysFreed
    <3> QED
      BY <1>1, <3>1, <3>6 DEF Intact, Freed, StmtAt
  <2> QED
    BY <1>1, <1>2, <2>4, <2>5, SearchKeepsWay
<1> QED
  BY <1>5, <1>6

\* A step back leaves a shorter way.
LEMMA ReturnWay == ASSUME ReportInv, WayInv, Return PROVE WayInv'
<1>1. /\ site # Null /\ scan = Null /\ stack # <<>> /\ cfg' = cfg /\ site' = site /\ warnings' = warnings
      /\ scan' = Null /\ stack' = Front(stack) /\ freeargs' = freeargs /\ fault' = fault
      /\ fault = "none"
  BY DEF Return, Between
<1>2. stack \in Seq(Frame)
  BY DEF ReportInv, TypeOK
<1>3. /\ Len(stack') = Len(stack) - 1 /\ Len(stack) \in Nat
      /\ \A k \in 1..(Len(stack) - 1) : stack'[k] = stack[k]
      /\ stack' # <<>> => 1 \in 1..(Len(stack) - 1)
  BY <1>1, <1>2, PopFacts
<1>4. Chained'
  <2>1. stack' # <<>> => stack'[1].block = site[1]
    BY <1>1, <1>3 DEF WayInv, Chained
  <2>2. ASSUME NEW k \in 2..Len(stack')
        PROVE  stack'[k].block \in Follow(cfg, stack'[k - 1].block)
    <3>1. k \in 2..Len(stack) /\ k \in 1..(Len(stack) - 1) /\ k - 1 \in 1..(Len(stack) - 1)
      BY <1>3
    <3>2. stack[k].block \in Follow(cfg, stack[k - 1].block)
      BY <1>1, <3>1 DEF WayInv, Chained
    <3> QED
      BY <1>3, <3>1, <3>2
  <2> QED
    BY <1>1, <2>1, <2>2 DEF Chained
<1>5. ASSUME NEW e, Intact(e) PROVE Intact(e)'
  <2>1. stack' # <<>> => Through(site[1], site[2] + 1, e)
    BY <1>1, <1>5 DEF Intact
  <2>2. ASSUME NEW k \in 2..Len(stack') PROVE Through(stack'[k].block, 1, e)
    <3>1. k \in 2..Len(stack) /\ stack'[k] = stack[k]
      BY <1>3
    <3> QED
      BY <1>5, <3>1 DEF Intact
  <2> QED
    BY <1>1, <2>1, <2>2, IntactNext
<1>6. ASSUME OneOfEach(site), NEW n \in freeargs', Base[Freed(n)] # Null
      PROVE  Intact(Freed(n))'
  BY <1>1, <1>5, <1>6 DEF WayInv, Intact, Freed, StmtAt
<1> QED
  BY <1>1, <1>4, <1>6, SearchKeepsWay

\* The next successor follows the block at the top; a null one is that of a pruned edge.
LEMMA SuccessorWay == ASSUME ReportInv, WayInv, Successor PROVE WayInv'
<1> DEFINE m == Len(stack)
           b == stack[m].block
           edge == stack[m].edge + 1
           succblock == Target(cfg.succ[b][edge])
<1>1. /\ site # Null /\ scan = Null /\ stack # <<>> /\ fault = "none" /\ stack[m].edge < Len(cfg.succ[b])
      /\ stack' = Append(Front(stack), [stack[m] EXCEPT !.edge = edge])
      /\ IF succblock = Null THEN fault' = "null" /\ scan' = scan
                             ELSE scan' = <<succblock, 1>> /\ fault' = fault
      /\ freeargs' = freeargs /\ cfg' = cfg /\ site' = site /\ warnings' = warnings
  BY DEF Successor, Between, Last
<1>2. stack \in Seq(Frame) /\ m \in 1..checkDepth /\ cfg \in Graph /\ checkDepth \in Nat
  BY <1>1, OrderFacts DEF ReportInv, TypeOK
<1>3. b \in Block /\ edge \in Nat \ {0} /\ [stack[m] EXCEPT !.edge = edge] \in Frame
      /\ [stack[m] EXCEPT !.edge = edge].block = b
  <2>1. m \in 1..Len(stack)
    BY <1>2
  <2>2. stack[m] \in Frame /\ b \in Block /\ stack[m].edge \in Nat
    BY <1>2, <2>1, FrameFacts
  <2> QED
    BY <2>2 DEF Frame
<1>4. /\ Len(stack') = m /\ stack' # <<>> /\ stack' \in Seq(Frame)
      /\ \A k \in 1..m : stack'[k].block = stack[k].block
  <2>1. PICK front \in Seq(Frame) : /\ front = Front(stack) /\ Len(front) = m - 1
                                     /\ \A k \in 1..(m - 1) : front[k] = stack[k]
    BY <1>1, <1>2, PopFacts
  <2>2. PICK top \in Frame : top = [stack[m] EXCEPT !.edge = edge] /\ top.block = b
    BY <1>3
  <2>3. stack' = Append(front, top)
    BY <1>1, <2>1, <2>2
  <2>4. Len(stack') = m /\ stack' # <<>> /\ stack' \in Seq(Frame) /\ stack'[m] = top
    BY <1>2, <2>1, <2>3
  <2>5. ASSUME NEW k \in 1..m PROVE stack'[k].block = stack[k].block
    <3>1. CASE k = m
      BY <2>2, <2>4, <3>1
    <3>2. CASE k # m
      <4>1. k \in 1..(m - 1)
        BY <1>2, <3>2
      <4>2. stack'[k] = front[k]
        BY <1>2, <2>1, <2>3, <4>1
      <4> QED
        BY <2>1, <4>1, <4>2
    <3> QED
      BY <3>1, <3>2
  <2> QED
    BY <2>4, <2>5
<1>5. edge \in DOMAIN cfg.succ[b] /\ cfg.succ[b] \in Seq(Edge)
  <2>1. cfg.succ[b] \in Seq(Edge)
    BY <1>2, <1>3 DEF Graph
  <2>2. Len(cfg.succ[b]) \in Nat /\ m \in 1..Len(stack)
    BY <1>2, <2>1
  <2>3. stack[m].edge \in Nat /\ stack[m].edge < Len(cfg.succ[b])
    BY <1>1, <1>2, <2>2, FrameFacts
  <2>4. edge \in 1..Len(cfg.succ[b])
    BY <2>2, <2>3
  <2> QED
    BY <2>1, <2>4
<1> HIDE DEF m, b, edge, succblock
<1>6. stack[m].block = b /\ succblock = Target(cfg.succ[b][edge]) /\ Len(stack) = m
  BY DEF m, b, succblock
<1>7. Chained'
  <2>1. stack'[1].block = site[1]
    BY <1>1, <1>2, <1>4 DEF WayInv, Chained
  <2>2. \A k \in 2..m : stack'[k].block \in Follow(cfg, stack'[k - 1].block)
    <3> SUFFICES ASSUME NEW k \in 2..m PROVE stack'[k].block \in Follow(cfg, stack'[k - 1].block)
      OBVIOUS
    <3>1. k \in 1..m /\ k - 1 \in 1..m
      BY <1>2
    <3>2. stack[k].block \in Follow(cfg, stack[k - 1].block)
      BY <1>1, <1>6 DEF WayInv, Chained
    <3> QED
      BY <1>4, <3>1, <3>2
  <2>3. scan' # Null => scan'[1] \in Follow(cfg, stack'[m].block)
    <3> SUFFICES ASSUME scan' # Null PROVE scan'[1] \in Follow(cfg, b)
      BY <1>2, <1>4, <1>6
    <3>1. succblock # Null /\ scan'[1] = succblock
      BY <1>1
    <3> QED
      BY <1>5, <1>6, <3>1 DEF Follow
  <2> QED
    BY <1>1, <1>4, <2>1, <2>2, <2>3 DEF Chained
<1>8. ASSUME NEW e, Intact(e) PROVE Intact(e)'
  <2>1. Through(site[1], site[2] + 1, e) /\ \A k \in 2..m : Through(stack[k].block, 1, e)
    BY <1>1, <1>6, <1>8 DEF Intact
  <2>2. \A k \in 2..m : Through(stack'[k].block, 1, e)
    BY <1>2, <1>4, <2>1
  <2>3. scan' = Null \/ (scan'[2] = 1 /\ stack' # <<>>)
    BY <1>1, <1>4
  <2> QED
    BY <1>1, <1>4, <2>1, <2>2, <2>3, IntactNext
<1>9. ASSUME OneOfEach(site), NEW n \in freeargs', Base[Freed(n)] # Null
      PROVE  Intact(Freed(n))'
  BY <1>1, <1>8, <1>9 DEF WayInv, Intact, Freed, StmtAt
<1>10. fault' = "null" => scan' = Null /\ stack' # <<>> /\ NullExplained'
  <2> SUFFICES ASSUME fault' = "null" PROVE scan' = Null /\ NullExplained'
    BY <1>4
  <2>1. succblock = Null /\ scan' = Null
    BY <1>1
  <2>2. \E e \in ToSet(cfg.succ[b]) : e.pruned
    <3>1. cfg.succ[b][edge] \in Edge
      BY <1>5
    <3>2. cfg.succ[b][edge].pruned
      BY <1>6, <2>1, <3>1, GraphAssumption DEF Target, Edge
    <3> QED
      BY <1>5, <3>2 DEF ToSet
  <2> DEFINE way == [k \in 0..(m - 1) |-> stack[k + 1].block]
  <2>3. way \in [0..(m - 1) -> Block]
    <3> SUFFICES ASSUME NEW k \in 0..(m - 1) PROVE stack[k + 1].block \in Block
      OBVIOUS
    <3>1. k + 1 \in 1..Len(stack)
      BY <1>2, <1>6
    <3> QED
      BY <1>2, <3>1, FrameFacts
  <2>4. \A k \in 1..(m - 1) : way[k] \in Follow(cfg, way[k - 1])
    <3> SUFFICES ASSUME NEW k \in 1..(m - 1) PROVE way[k] \in Follow(cfg, way[k - 1])
      OBVIOUS
    <3>1. k + 1 \in 2..m /\ k + 1 - 1 = k /\ k \in 0..(m - 1) /\ k - 1 \in 0..(m - 1) /\ k - 1 + 1 = k
      BY <1>2
    <3>2. stack[k + 1].block \in Follow(cfg, stack[k].block)
      BY <1>1, <1>6, <3>1 DEF WayInv, Chained
    <3> QED
      BY <3>1, <3>2
  <2>5. way \in Ways(m - 1) /\ m - 1 \in 0..(checkDepth - 1)
    <3> HIDE DEF way
    <3>1. way \in Ways(m - 1)
      BY <2>3, <2>4 DEF Ways
    <3> QED
      BY <1>2, <3>1
  <2>6. way[0] = site[1] /\ way[m - 1] = b
    BY <1>1, <1>2, <1>6 DEF WayInv, Chained
  <2> HIDE DEF way
  <2>7. ~Reported(site)
    BY DEF ReportInv, Reported
  <2>8. \E d \in 0..(checkDepth - 1) : \E w \in Ways(d) :
          w[0] = site[1] /\ \E e \in ToSet(cfg.succ[w[d]]) : e.pruned
    BY <2>2, <2>5, <2>6
  <2>9. NullExplained'
    BY <1>1, <2>7, <2>8 DEF NullExplained, Reported, Ways
  <2> QED
    BY <2>1, <2>9
<1> QED
  BY <1>1, <1>7, <1>9, <1>10, SearchKeepsWay

LEMMA WayStep == ReportInv /\ WayInv /\ [Next]_vars => WayInv'
<1> SUFFICES ASSUME ReportInv, WayInv, [Next]_vars PROVE WayInv'
  OBVIOUS
<1>1. CASE NextBlock \/ Skip \/ GiveUp
  <2>1. fault = "none"
    BY <1>1, FaultEnds DEF Next
  <2>2. cfg' = cfg /\ warnings' = warnings /\ site' = Null /\ fault' = fault
    BY <1>1 DEF NextBlock, Skip, GiveUp, AtStmt, Idle, search
  <2> QED
    BY <2>1, <2>2, NoSearch
<1>2. CASE Free
  BY <1>2, FreeWay
<1>3. CASE Report
  BY <1>3, ReportWay
<1>4. CASE Pass
  BY <1>4, PassWay
<1>5. CASE Descend
  BY <1>5, DescendWay
<1>6. CASE Successor
  BY <1>6, SuccessorWay
<1>7. CASE Return
  BY <1>7, ReturnWay
<1>8. CASE UNCHANGED vars
  <2>1. /\ cfg' = cfg /\ site' = site /\ freeargs' = freeargs /\ scan' = scan
        /\ stack' = stack /\ warnings' = warnings /\ fault' = fault
    BY <1>8 DEF vars, search
  <2>2. site # Null => Chained'
    BY <2>1 DEF WayInv, Chained
  <2>3. NullExplained'
    BY <2>1 DEF WayInv, NullExplained, Reported, Ways
  <2>4. CASE site = Null
    BY <2>1, <2>3, <2>4, ReportsStay DEF WayInv
  <2>5. CASE site # Null
    <3>1. ASSUME OneOfEach(site), NEW n \in freeargs', Base[Freed(n)] # Null
          PROVE  Intact(Freed(n))'
      BY <2>1, <2>5, <3>1 DEF WayInv, Intact, Through, StaysFreed, Freed, StmtAt
    <3>2. fault' = "null" => scan' = Null /\ stack' # <<>> /\ NullExplained'
      BY <2>1, <2>3 DEF WayInv
    <3> QED
      BY <2>1, <2>2, <2>5, <3>1, <3>2, SearchKeepsWay
  <2> QED
    BY <2>4, <2>5
<1> QED
  BY <1>1, <1>2, <1>3, <1>4, <1>5, <1>6, <1>7, <1>8 DEF Next

-----------------------------------------------------------------------------
(* What a search has left behind.                                          *)

\* At statement k of block b the search from p would find e.
Hit(g, p, b, k, e) ==
  LET s == g.stmts[b][k]
  IN  /\ e \in s.reads /\ ~s.compares /\ s.wraps = Null
      /\ s.assigns = Null
           \/ \A f \in ToSet(g.stmts[p[1]][p[2]].frees) : Base[f] # s.assigns

\* There is nothing to be found in block b, from a statement on.
Clear(g, p, b, from, e) ==
  \A k \in DOMAIN g.stmts[b] : from <= k => ~Hit(g, p, b, k, e)

GraphWays(g, d) == {way \in [0..d -> Block] : \A k \in 1..d : way[k] \in Follow(g, way[k - 1])}

\* There is nothing to be found in b and in the blocks up to far edges behind it.
Around(g, p, b, far, e) ==
  \A d \in 0..far : \A way \in GraphWays(g, d) : way[0] = b => Clear(g, p, way[d], 1, e)

\* There is nothing to be found behind p, as far as the search goes.
RestClear(g, p, e) ==
  /\ Clear(g, p, p[1], p[2] + 1, e)
  /\ checkDepth > 0 => \A c \in Follow(g, p[1]) : Around(g, p, c, checkDepth - 1, e)

\* The block that a call of checkSuccessor is at.
Taken(g, f) == Target(g.succ[f.block][f.edge])

\* The calls under way were made by each other, the first for the block of p, and the
\* statement scanned is in the block that the last of them is at.
Threaded(g, p, sc, st) ==
  /\ st # <<>> => st[1].block = p[1]
  /\ \A k \in 1..Len(st) : st[k].edge <= Len(g.succ[st[k].block])
  /\ \A k \in 1..(Len(st) - 1) : st[k].edge > 0 /\ st[k + 1].block = Taken(g, st[k])
  /\ sc # Null /\ st = <<>> => sc[1] = p[1]
  /\ sc # Null /\ st # <<>> => st[Len(st)].edge > 0 /\ sc[1] = Taken(g, st[Len(st)])

\* How many successors call k is through with.
Tried(sc, st, k) == IF k = Len(st) /\ sc = Null THEN st[k].edge ELSE st[k].edge - 1

\* A search from p that is at sc and st has left no e behind that it would find.
Explored(g, p, sc, st, e) ==
  /\ sc # Null => \A k \in DOMAIN g.stmts[sc[1]] :
       k < sc[2] /\ (st = <<>> => p[2] < k) => ~Hit(g, p, sc[1], k, e)
  /\ sc = Null \/ st # <<>> => Clear(g, p, p[1], p[2] + 1, e)
  /\ \A k \in 2..Len(st) : Clear(g, p, st[k].block, 1, e)
  /\ \A k \in 1..Len(st) : \A j \in 1..Tried(sc, st, k) :
       Target(g.succ[st[k].block][j]) # Null =>
         Around(g, p, Target(g.succ[st[k].block][j]), checkDepth - k, e)
  /\ sc = Null /\ st = <<>> => RestClear(g, p, e)

\* What p frees and the function never assigns.
Lasting(p) == {e \in FreedAt(p) : Base[e] # Null /\ NeverAssigned(e)}

NearInv ==
  fault = "none" =>
    /\ site # Null =>
         /\ Threaded(cfg, site, scan, stack)
         /\ \A e \in Lasting(site) :
              /\ \E n \in freeargs : Freed(n) = e
              /\ Explored(cfg, site, scan, stack, e)
    /\ \A p \in AllPlaces : Behind(p) /\ p # site =>
         Reported(p) \/ \A e \in Lasting(p) : RestClear(cfg, p, e)

\* What is left of a way after its first edge.
LEMMA WayTail ==
  ASSUME NEW g, NEW d \in Nat, NEW way \in GraphWays(g, d + 1)
  PROVE  /\ way[1] \in Follow(g, way[0])
         /\ \E rest \in GraphWays(g, d) : rest[0] = way[1] /\ rest[d] = way[d + 1]
<1> DEFINE tail == [k \in 0..d |-> way[k + 1]]
<1>1. /\ way \in [0..(d + 1) -> Block]
      /\ \A k \in 1..(d + 1) : way[k] \in Follow(g, way[k - 1])
  BY DEF GraphWays
<1>2. way[1] \in Follow(g, way[1 - 1]) /\ 1 - 1 = 0
  BY <1>1
<1>3. tail \in [0..d -> Block]
  BY <1>1
<1>4. ASSUME NEW k \in 1..d PROVE tail[k] \in Follow(g, tail[k - 1])
  <2>1. k \in 0..d /\ k - 1 \in 0..d /\ k + 1 \in 1..(d + 1) /\ k + 1 - 1 = k /\ k - 1 + 1 = k
    OBVIOUS
  <2>2. way[k + 1] \in Follow(g, way[k])
    BY <1>1, <2>1
  <2> QED
    BY <2>1, <2>2
<1>5. tail[0] = way[1] /\ tail[d] = way[d + 1]
  OBVIOUS
<1> HIDE DEF tail
<1>6. tail \in GraphWays(g, d)
  BY <1>3, <1>4 DEF GraphWays
<1> QED
  BY <1>2, <1>5, <1>6

\* Where the search may not go on, the block itself is all there is.
LEMMA AroundZero ==
  ASSUME NEW g, NEW p, NEW b, NEW e, Clear(g, p, b, 1, e)
  PROVE  Around(g, p, b, 0, e)
<1>1. \A d \in 0..0 : d = 0
  OBVIOUS
<1> QED
  BY <1>1 DEF Around

\* A block is searched with what is behind it once it is clear and its successors are.
LEMMA AroundStep ==
  ASSUME NEW g, NEW p, NEW b, NEW e, NEW far \in Nat,
         Clear(g, p, b, 1, e), \A c \in Follow(g, b) : Around(g, p, c, far, e)
  PROVE  Around(g, p, b, far + 1, e)
<1> SUFFICES ASSUME NEW d \in 0..(far + 1), NEW way \in GraphWays(g, d), way[0] = b
             PROVE  Clear(g, p, way[d], 1, e)
  BY DEF Around
<1>1. CASE d = 0
  BY <1>1
<1>2. CASE d # 0
  <2>1. PICK k \in 0..far : d = k + 1
    <3>1. d - 1 \in 0..far /\ d = (d - 1) + 1
      BY <1>2
    <3> QED
      BY <3>1
  <2>2. PICK rest \in GraphWays(g, k) : rest[0] = way[1] /\ rest[k] = way[d]
    BY <2>1, WayTail
  <2>3. way[1] \in Follow(g, b)
    BY <2>1, WayTail
  <2> QED
    BY <2>2, <2>3 DEF Around
<1> QED
  BY <1>1, <1>2

\* Where nothing is to be found, no use is near.
LEMMA NoUseNear ==
  ASSUME cfg \in Graph, NEW p \in Position, NEW e, NEW q \in AllPlaces,
         RestClear(cfg, p, e), Uses(q, e), LookedAt(p, q), ReachesIntact(p, q, e, checkDepth)
  PROVE  FALSE
<1>1. checkDepth \in Nat
  BY OrderFacts
<1>2. q[1] \in Block /\ q[2] \in DOMAIN cfg.stmts[q[1]]
  BY DEF AllPlaces, PlacesOf
<1>3. Hit(cfg, p, q[1], q[2], e)
  BY DEF Hit, Uses, LookedAt, StmtAt, FreedAt
<1>4. q[2] \in Nat \ {0} /\ p[2] \in Nat
  BY <1>2, StmtFacts DEF Position
<1>5. CASE p[1] = q[1] /\ p[2] < q[2]
  <2>1. p[2] + 1 <= q[2]
    BY <1>4, <1>5
  <2> QED
    BY <1>2, <1>3, <1>5, <2>1 DEF RestClear, Clear
<1>6. CASE \E d \in 1..checkDepth : \E way \in Ways(d) : way[0] = p[1] /\ way[d] = q[1]
  <2>0. PICK d \in 1..checkDepth : \E way \in Ways(d) : way[0] = p[1] /\ way[d] = q[1]
    BY <1>6
  <2>1. PICK way \in Ways(d) : way[0] = p[1] /\ way[d] = q[1]
    BY <2>0
  <2>2. PICK k \in 0..(checkDepth - 1) : d = k + 1
    <3>1. d - 1 \in 0..(checkDepth - 1) /\ d = (d - 1) + 1
      BY <1>1
    <3> QED
      BY <3>1
  <2>3. way \in GraphWays(cfg, k + 1) /\ k \in Nat /\ checkDepth > 0
    BY <1>1, <2>2 DEF Ways, GraphWays
  <2>4. PICK rest \in GraphWays(cfg, k) : rest[0] = way[1] /\ rest[k] = q[1]
    BY <2>1, <2>2, <2>3, WayTail
  <2>5. way[1] \in Follow(cfg, p[1])
    BY <2>1, <2>3, WayTail
  <2>6. Clear(cfg, p, q[1], 1, e)
    BY <2>3, <2>4, <2>5 DEF RestClear, Around
  <2> QED
    BY <1>2, <1>3, <1>4, <2>6 DEF Clear
<1> QED
  BY <1>5, <1>6 DEF ReachesIntact

\* A statement at which nothing is found is left behind.
LEMMA ExploredPass ==
  ASSUME NEW g \in Graph, NEW p \in Position, NEW sc \in Position, NEW st, NEW e,
         Explored(g, p, sc, st, e), ~Hit(g, p, sc[1], sc[2], e)
  PROVE  Explored(g, p, <<sc[1], sc[2] + 1>>, st, e)
<1> DEFINE next == <<sc[1], sc[2] + 1>>
<1>1. sc # Null /\ next # Null /\ sc[2] \in Nat /\ sc[1] \in Block
  BY GraphAssumption DEF Position
<1>2. next[1] = sc[1] /\ next[2] = sc[2] + 1
  OBVIOUS
<1> HIDE DEF next
<1>3. ASSUME NEW k \in DOMAIN g.stmts[sc[1]], k < next[2], st = <<>> => p[2] < k
      PROVE  ~Hit(g, p, sc[1], k, e)
  <2>1. k \in Nat
    BY <1>1, StmtFacts
  <2>2. k < sc[2] \/ k = sc[2]
    BY <1>1, <1>2, <1>3, <2>1
  <2> QED
    BY <1>1, <1>3, <2>2 DEF Explored
<1>4. \A k : Tried(next, st, k) = Tried(sc, st, k)
  BY <1>1 DEF Tried
<1>5. Explored(g, p, next, st, e)
  BY <1>1, <1>2, <1>3, <1>4 DEF Explored
<1> QED
  BY <1>5 DEF next

\* A search begins with nothing behind it.
LEMMA ExploredFirst ==
  ASSUME NEW g \in Graph, NEW p \in Position, NEW e
  PROVE  Explored(g, p, <<p[1], p[2] + 1>>, <<>>, e) /\ Threaded(g, p, <<p[1], p[2] + 1>>, <<>>)
<1> DEFINE next == <<p[1], p[2] + 1>>
<1>1. next # Null /\ p[2] \in Nat /\ p[1] \in Block
  BY GraphAssumption DEF Position
<1>2. next[1] = p[1] /\ next[2] = p[2] + 1
  OBVIOUS
<1> HIDE DEF next
<1>3. \A k \in DOMAIN g.stmts[next[1]] : ~(k < next[2] /\ p[2] < k)
  BY <1>1, <1>2, StmtFacts
<1>4. Explored(g, p, next, <<>>, e) /\ Threaded(g, p, next, <<>>)
  BY <1>1, <1>2, <1>3 DEF Explored, Threaded
<1> QED
  BY <1>4 DEF next

\* A block that has been scanned to its end.
LEMMA BlockThrough ==
  ASSUME NEW g \in Graph, NEW p \in Position, NEW sc \in Position, NEW st, NEW e,
         Threaded(g, p, sc, st), Explored(g, p, sc, st, e), Len(g.stmts[sc[1]]) < sc[2]
  PROVE  /\ st = <<>> => sc[1] = p[1] /\ Clear(g, p, p[1], p[2] + 1, e)
         /\ st # <<>> => Clear(g, p, sc[1], 1, e)
<1>1. sc # Null /\ sc[1] \in Block /\ sc[2] \in Nat /\ p[2] \in Nat
  BY GraphAssumption DEF Position
<1>2. \A k \in DOMAIN g.stmts[sc[1]] : k \in Nat /\ k < sc[2]
  BY <1>1, StmtFacts
<1>3. st = <<>> => sc[1] = p[1]
  BY <1>1 DEF Threaded
<1>4. ASSUME NEW k \in DOMAIN g.stmts[sc[1]], st = <<>> => p[2] + 1 <= k
      PROVE  ~Hit(g, p, sc[1], k, e)
  <2>1. st = <<>> => p[2] < k
    BY <1>1, <1>2, <1>4
  <2> QED
    BY <1>1, <1>2, <1>4, <2>1 DEF Explored
<1>5. ASSUME st = <<>> PROVE Clear(g, p, p[1], p[2] + 1, e)
  BY <1>3, <1>4, <1>5 DEF Clear
<1>6. ASSUME st # <<>> PROVE Clear(g, p, sc[1], 1, e)
  BY <1>4, <1>6 DEF Clear
<1> QED
  BY <1>3, <1>5, <1>6

\* The call for a block that is through has tried no successor yet.
LEMMA ExploredPush ==
  ASSUME NEW g \in Graph, NEW p \in Position, NEW sc \in Position, NEW st \in Seq(Frame), NEW e,
         Threaded(g, p, sc, st), Explored(g, p, sc, st, e), Len(g.stmts[sc[1]]) < sc[2],
         NEW new \in Seq(Frame), Len(new) = Len(st) + 1,
         \A k \in 1..Len(st) : new[k] = st[k],
         new[Len(new)] = [block |-> sc[1], edge |-> 0]
  PROVE  Explored(g, p, Null, new, e)
<1>1. PICK m \in Nat : m = Len(st)
  OBVIOUS
<1>2. /\ Len(new) = m + 1 /\ new # <<>> /\ (st = <<>> <=> m = 0)
      /\ new[m + 1].block = sc[1] /\ new[m + 1].edge = 0
      /\ \A k \in 1..m : new[k] = st[k]
  BY <1>1
<1>3. sc # Null
  BY GraphAssumption
<1>4. Clear(g, p, p[1], p[2] + 1, e)
  BY <1>3, BlockThrough DEF Explored
<1>5. ASSUME NEW k \in 2..(m + 1) PROVE Clear(g, p, new[k].block, 1, e)
  <2>1. CASE k = m + 1
    <3>1. m # 0
      BY <2>1
    <3>2. Clear(g, p, sc[1], 1, e)
      BY <1>2, <3>1, BlockThrough
    <3> QED
      BY <1>2, <2>1, <3>2
  <2>2. CASE k # m + 1
    <3>1. k \in 2..m /\ k \in 1..m
      BY <2>2
    <3> QED
      BY <1>1, <1>2, <3>1 DEF Explored
  <2> QED
    BY <2>1, <2>2
<1>6. ASSUME NEW k \in 1..(m + 1), NEW j \in 1..Tried(Null, new, k),
             Target(g.succ[new[k].block][j]) # Null
      PROVE  Around(g, p, Target(g.succ[new[k].block][j]), checkDepth - k, e)
  <2>1. CASE k = m + 1
    BY <1>2, <1>6, <2>1 DEF Tried
  <2>2. CASE k # m + 1
    <3>1. k \in 1..m /\ new[k] = st[k]
      BY <1>2, <2>2
    <3>2. Tried(Null, new, k) = Tried(sc, st, k)
      BY <1>2, <1>3, <2>2, <3>1 DEF Tried
    <3> QED
      BY <1>1, <1>6, <3>1, <3>2 DEF Explored
  <2> QED
    BY <2>1, <2>2
<1>7. 1..Len(new) = 1..(m + 1) /\ 2..Len(new) = 2..(m + 1)
  BY <1>2
<1> QED
  BY <1>2, <1>4, <1>5, <1>6, <1>7 DEF Explored

LEMMA ThreadedPush ==
  ASSUME NEW g \in Graph, NEW p \in Position, NEW sc \in Position, NEW st \in Seq(Frame),
         Threaded(g, p, sc, st),
         NEW new \in Seq(Frame), Len(new) = Len(st) + 1,
         \A k \in 1..Len(st) : new[k] = st[k],
         new[Len(new)] = [block |-> sc[1], edge |-> 0]
  PROVE  Threaded(g, p, Null, new)
<1>1. PICK m \in Nat : m = Len(st)
  OBVIOUS
<1>2. /\ Len(new) = m + 1 /\ new # <<>> /\ (st = <<>> <=> m = 0)
      /\ new[m + 1].block = sc[1] /\ new[m + 1].edge = 0
      /\ \A k \in 1..m : new[k] = st[k]
  BY <1>1
<1>3. sc # Null /\ sc[1] \in Block
  BY GraphAssumption DEF Position
<1>4. new[1].block = p[1]
  BY <1>1, <1>2, <1>3 DEF Threaded
<1>5. ASSUME NEW k \in 1..(m + 1) PROVE new[k].edge <= Len(g.succ[new[k].block])
  <2>1. CASE k = m + 1
    <3>1. g.succ[sc[1]] \in Seq(Edge)
      BY <1>3 DEF Graph
    <3>2. Len(g.succ[sc[1]]) \in Nat
      BY <3>1
    <3> QED
      BY <1>2, <2>1, <3>2
  <2>2. CASE k # m + 1
    <3>1. k \in 1..m
      BY <2>2
    <3> QED
      BY <1>1, <1>2, <3>1 DEF Threaded
  <2> QED
    BY <2>1, <2>2
<1>6. ASSUME NEW k \in 1..m PROVE new[k].edge > 0 /\ new[k + 1].block = Taken(g, new[k])
  <2>1. CASE k = m
    <3>1. st # <<>> /\ st[m].edge > 0 /\ sc[1] = Taken(g, st[m])
      BY <1>1, <1>2, <1>3, <2>1 DEF Threaded
    <3> QED
      BY <1>2, <2>1, <3>1
  <2>2. CASE k # m
    <3>1. k \in 1..(m - 1) /\ k + 1 \in 1..m
      BY <2>2
    <3> QED
      BY <1>1, <1>2, <3>1 DEF Threaded
  <2> QED
    BY <2>1, <2>2
<1>7. 1..Len(new) = 1..(m + 1) /\ 1..(Len(new) - 1) = 1..m
  BY <1>2
<1> QED
  BY <1>2, <1>4, <1>5, <1>6, <1>7 DEF Threaded

\* At checkDepth the block is all there was to search.
LEMMA ExploredAtDepth ==
  ASSUME NEW g \in Graph, NEW p \in Position, NEW sc \in Position, NEW st \in Seq(Frame), NEW e,
         Threaded(g, p, sc, st), Explored(g, p, sc, st, e), Len(g.stmts[sc[1]]) < sc[2],
         Len(st) = checkDepth
  PROVE  Explored(g, p, Null, st, e) /\ Threaded(g, p, Null, st)
<1>1. sc # Null /\ checkDepth \in Nat
  BY OrderFacts, GraphAssumption
<1>2. Threaded(g, p, Null, st)
  BY DEF Threaded
<1>3. CASE st = <<>>
  <2>1. Clear(g, p, p[1], p[2] + 1, e) /\ Len(st) = 0
    BY <1>3, BlockThrough
  <2>2. RestClear(g, p, e)
    BY <2>1 DEF RestClear
  <2> QED
    BY <1>2, <1>3, <2>1, <2>2 DEF Explored
<1>4. CASE st # <<>>
  <2>1. PICK m \in Nat \ {0} : m = Len(st) /\ m = checkDepth
    BY <1>4
  <2>2. Clear(g, p, sc[1], 1, e) /\ sc[1] = Taken(g, st[m])
    BY <1>1, <1>4, <2>1, BlockThrough DEF Threaded
  <2>3. st[m].edge \in Nat
    BY <2>1, FrameFacts
  <2>4. ASSUME NEW k \in 1..m, NEW j \in 1..Tried(Null, st, k),
               Target(g.succ[st[k].block][j]) # Null
        PROVE  Around(g, p, Target(g.succ[st[k].block][j]), checkDepth - k, e)
    <3>1. CASE k = m /\ j = st[m].edge
      <4>1. Target(g.succ[st[k].block][j]) = sc[1] /\ checkDepth - k = 0
        BY <2>1, <2>2, <3>1 DEF Taken
      <4> QED
        BY <2>2, <4>1, AroundZero
    <3>2. CASE ~(k = m /\ j = st[m].edge)
      <4>1. j \in 1..Tried(sc, st, k)
        <5>1. CASE k = m
          BY <1>1, <2>1, <2>3, <2>4, <3>2, <5>1 DEF Tried
        <5>2. CASE k # m
          BY <2>1, <2>4, <5>2 DEF Tried
        <5> QED
          BY <5>1, <5>2
      <4> QED
        BY <2>1, <2>4, <4>1 DEF Explored
    <3> QED
      BY <3>1, <3>2
  <2> QED
    BY <1>1, <1>2, <1>4, <2>1, <2>4 DEF Explored
<1> QED
  BY <1>3, <1>4

\* The top call goes on to its next successor, which is yet to be scanned.
LEMMA ExploredSuccessor ==
  ASSUME NEW g \in Graph, NEW p \in Position, NEW st \in Seq(Frame), NEW e, NEW sc \in Position,
         NEW m \in Nat \ {0}, m = Len(st),
         Explored(g, p, Null, st, e), sc[2] = 1,
         NEW new \in Seq(Frame), Len(new) = m,
         \A k \in 1..m : new[k].block = st[k].block /\ (k # m => new[k] = st[k]),
         new[m].edge = st[m].edge + 1
  PROVE  Explored(g, p, sc, new, e)
<1>1. sc # Null /\ new # <<>> /\ st # <<>> /\ sc[1] \in Block
  BY GraphAssumption DEF Position
<1>2. \A k \in DOMAIN g.stmts[sc[1]] : ~(k < sc[2])
  BY <1>1, StmtFacts
<1>3. \A k \in 1..m : st[k].edge \in Nat
  BY FrameFacts
<1>4. ASSUME NEW k \in 1..m PROVE Tried(sc, new, k) = Tried(Null, st, k)
  BY <1>1, <1>3 DEF Tried
<1>5. \A k \in 2..m : k \in 1..m
  OBVIOUS
<1> QED
  BY <1>1, <1>2, <1>4, <1>5 DEF Explored

LEMMA ThreadedSuccessor ==
  ASSUME NEW g \in Graph, NEW p \in Position, NEW st \in Seq(Frame), NEW sc \in Position,
         NEW m \in Nat \ {0}, m = Len(st), Threaded(g, p, Null, st),
         NEW new \in Seq(Frame), Len(new) = m,
         \A k \in 1..m : new[k].block = st[k].block /\ (k # m => new[k] = st[k]),
         new[m].edge = st[m].edge + 1, st[m].edge < Len(g.succ[st[m].block]),
         sc[1] = Target(g.succ[st[m].block][st[m].edge + 1])
  PROVE  Threaded(g, p, sc, new)
<1>1. new # <<>> /\ st # <<>> /\ 1 \in 1..m
  OBVIOUS
<1>2. \A k \in 1..m : st[k].edge \in Nat /\ st[k].block \in Block
  BY FrameFacts
<1>3. new[1].block = p[1]
  BY <1>1 DEF Threaded
<1>4. ASSUME NEW k \in 1..m PROVE new[k].edge <= Len(g.succ[new[k].block])
  <2>1. g.succ[st[k].block] \in Seq(Edge)
    BY <1>2 DEF Graph
  <2>2. Len(g.succ[st[k].block]) \in Nat
    BY <2>1
  <2>3. CASE k = m
    BY <1>2, <2>2, <2>3
  <2>4. CASE k # m
    BY <2>4 DEF Threaded
  <2> QED
    BY <2>3, <2>4
<1>5. ASSUME NEW k \in 1..(m - 1) PROVE new[k].edge > 0 /\ new[k + 1].block = Taken(g, new[k])
  <2>1. k \in 1..m /\ k + 1 \in 1..m /\ k # m
    OBVIOUS
  <2> QED
    BY <2>1 DEF Threaded
<1>6. new[m].edge > 0 /\ sc[1] = Taken(g, new[m])
  BY <1>1, <1>2 DEF Taken
<1> QED
  BY <1>1, <1>3, <1>4, <1>5, <1>6 DEF Threaded

\* What the top call has left behind when all its successors have been tried.
LEMMA CallThrough ==
  ASSUME NEW g \in Graph, NEW p \in Position, NEW st \in Seq(Frame), NEW e,
         NEW m \in Nat \ {0}, m = Len(st),
         Explored(g, p, Null, st, e), st[m].edge = Len(g.succ[st[m].block])
  PROVE  \A c \in Follow(g, st[m].block) : Around(g, p, c, checkDepth - m, e)
<1>1. m \in 1..Len(st) /\ st[m].block \in Block
  BY FrameFacts
<1>2. g.succ[st[m].block] \in Seq(Edge)
  BY <1>1 DEF Graph
<1>3. Tried(Null, st, m) = Len(g.succ[st[m].block])
  BY DEF Tried
<1>4. ASSUME NEW j \in DOMAIN g.succ[st[m].block], Target(g.succ[st[m].block][j]) # Null
      PROVE  Around(g, p, Target(g.succ[st[m].block][j]), checkDepth - m, e)
  <2>1. j \in 1..Tried(Null, st, m)
    BY <1>2, <1>3
  <2> QED
    BY <1>1, <1>4, <2>1 DEF Explored
<1> QED
  BY <1>4 DEF Follow

\* The search comes back to the call below, or out of all of them.
LEMMA ExploredReturn ==
  ASSUME NEW g \in Graph, NEW p \in Position, NEW st \in Seq(Frame), NEW e,
         NEW m \in Nat \ {0}, m = Len(st), m <= checkDepth,
         Threaded(g, p, Null, st), Explored(g, p, Null, st, e),
         st[m].edge = Len(g.succ[st[m].block]),
         NEW new \in Seq(Frame), Len(new) = m - 1, \A k \in 1..(m - 1) : new[k] = st[k]
  PROVE  Explored(g, p, Null, new, e)
<1>1. st # <<>> /\ checkDepth \in Nat
  BY OrderFacts
<1>2. Clear(g, p, p[1], p[2] + 1, e) /\ st[1].block = p[1]
  BY <1>1 DEF Explored, Threaded
<1>3. \A c \in Follow(g, st[m].block) : Around(g, p, c, checkDepth - m, e)
  BY CallThrough
<1>4. CASE m = 1
  <2>1. new = <<>>
    BY <1>4
  <2>2. RestClear(g, p, e)
    BY <1>2, <1>3, <1>4 DEF RestClear
  <2>3. 1..Len(new) = {} /\ 2..Len(new) = {}
    <3>1. Len(new) = 0 /\ 1..0 = {} /\ 2..0 = {}
      BY <1>4
    <3> QED
      BY <3>1
  <2> QED
    BY <1>2, <2>1, <2>2, <2>3 DEF Explored
<1>5. CASE m # 1
  <2>1. PICK n \in Nat \ {0} : m = n + 1
    <3>1. m - 1 \in Nat \ {0} /\ m = (m - 1) + 1
      BY <1>5
    <3> QED
      BY <3>1
  <2>2. Len(new) = n /\ new # <<>> /\ \A k \in 1..n : new[k] = st[k]
    BY <2>1
  <2>3. st[n].edge > 0 /\ st[m].block = Taken(g, st[n])
    <3>1. n \in 1..(Len(st) - 1)
      BY <2>1
    <3> QED
      BY <2>1, <3>1 DEF Threaded
  <2>4. st[n].edge \in Nat
    <3>1. n \in 1..Len(st)
      BY <2>1
    <3> QED
      BY <3>1, FrameFacts
  <2>5. Around(g, p, st[m].block, checkDepth - n, e)
    <3>1. checkDepth - m \in Nat /\ checkDepth - n = (checkDepth - m) + 1
      BY <1>1, <2>1
    <3>2. m \in 2..Len(st)
      BY <2>1
    <3>3. Clear(g, p, st[m].block, 1, e)
      BY <3>2 DEF Explored
    <3>4. Around(g, p, st[m].block, (checkDepth - m) + 1, e)
      BY <1>3, <3>1, <3>3, AroundStep
    <3> QED
      BY <3>1, <3>4
  <2>6. \A k \in 2..n : Clear(g, p, new[k].block, 1, e)
    <3> SUFFICES ASSUME NEW k \in 2..n PROVE Clear(g, p, new[k].block, 1, e)
      OBVIOUS
    <3>1. k \in 2..Len(st) /\ new[k] = st[k]
      BY <2>1, <2>2
    <3> QED
      BY <3>1 DEF Explored
  <2>7. ASSUME NEW k \in 1..n, NEW j \in 1..Tried(Null, new, k),
               Target(g.succ[new[k].block][j]) # Null
        PROVE  Around(g, p, Target(g.succ[new[k].block][j]), checkDepth - k, e)
    <3>1. new[k] = st[k] /\ k \in 1..Len(st) /\ k # m
      BY <2>1, <2>2
    <3>2. CASE k = n /\ j = st[n].edge
      BY <2>3, <2>5, <3>1, <3>2 DEF Taken
    <3>3. CASE ~(k = n /\ j = st[n].edge)
      <4>1. j \in 1..Tried(Null, st, k)
        <5>1. CASE k = n
          BY <2>1, <2>2, <2>4, <2>7, <3>1, <3>3, <5>1 DEF Tried
        <5>2. CASE k # n
          BY <2>1, <2>2, <2>7, <3>1, <5>2 DEF Tried
        <5> QED
          BY <5>1, <5>2
      <4> QED
        BY <2>7, <3>1, <4>1 DEF Explored
    <3> QED
      BY <3>2, <3>3
  <2> QED
    BY <1>2, <2>2, <2>6, <2>7 DEF Explored
<1> QED
  BY <1>4, <1>5

LEMMA ThreadedReturn ==
  ASSUME NEW g \in Graph, NEW p \in Position, NEW st \in Seq(Frame),
         NEW m \in Nat \ {0}, m = Len(st), Threaded(g, p, Null, st),
         NEW new \in Seq(Frame), Len(new) = m - 1, \A k \in 1..(m - 1) : new[k] = st[k]
  PROVE  Threaded(g, p, Null, new)
<1>1. new # <<>> => 1 \in 1..(m - 1) /\ st # <<>>
  OBVIOUS
<1>2. new # <<>> => new[1].block = p[1]
  BY <1>1 DEF Threaded
<1>3. ASSUME NEW k \in 1..(m - 1) PROVE new[k].edge <= Len(g.succ[new[k].block])
  <2>1. k \in 1..Len(st)
    OBVIOUS
  <2> QED
    BY <2>1 DEF Threaded
<1>4. ASSUME NEW k \in 1..(m - 1 - 1) PROVE new[k].edge > 0 /\ new[k + 1].block = Taken(g, new[k])
  <2>1. k \in 1..(Len(st) - 1) /\ k \in 1..(m - 1) /\ k + 1 \in 1..(m - 1)
    OBVIOUS
  <2> QED
    BY <2>1 DEF Threaded
<1> QED
  BY <1>2, <1>3, <1>4 DEF Threaded

-----------------------------------------------------------------------------
(* A search loses nothing that lasts.                                      *)

\* What NearInv says of the search that is on, and of a statement that is behind.
Searching(p, sc, st, fa) ==
  /\ Threaded(cfg, p, sc, st)
  /\ \A e \in Lasting(p) :
       /\ \E n \in fa : StmtAt(p).frees[n] = e
       /\ Explored(cfg, p, sc, st, e)
Settled(p) == Reported(p) \/ \A e \in Lasting(p) : RestClear(cfg, p, e)

LEMMA NearInvIs ==
  NearInv <=> (fault = "none" =>
    /\ site # Null => Searching(site, scan, stack, freeargs)
    /\ \A p \in AllPlaces : Behind(p) /\ p # site => Settled(p))
BY DEF NearInv, Searching, Settled, Freed

\* The statements of the graph.
LEMMA AllPlacesFacts ==
  ASSUME cfg \in Graph, NEW p \in AllPlaces
  PROVE  p \in Position /\ p # Null /\ p[2] \in 1..Len(cfg.stmts[p[1]]) /\ p[1] \in Block
<1>1. PICK b \in Block : p \in {b} \X DOMAIN cfg.stmts[b]
  BY DEF AllPlaces, PlacesOf
<1>2. p[1] = b /\ p[2] \in 1..Len(cfg.stmts[b]) /\ p = <<b, p[2]>>
  BY <1>1, StmtFacts
<1>3. p[2] \in Nat \ {0}
  BY <1>2, StmtFacts
<1>4. p \in Position
  BY <1>2, <1>3, StmtFacts
<1> QED
  BY <1>2, <1>4, GraphAssumption

\* The graph stays, and with it what lasts.
LEMMA SamePlaces ==
  ASSUME cfg' = cfg
  PROVE  AllPlaces' = AllPlaces /\ \A p : Lasting(p)' = Lasting(p)
<1>1. AllPlaces' = AllPlaces
  BY DEF AllPlaces, PlacesOf
<1>2. ASSUME NEW e PROVE NeverAssigned(e)' <=> NeverAssigned(e)
  BY <1>1 DEF NeverAssigned, StmtAt
<1>3. ASSUME NEW p PROVE Lasting(p)' = Lasting(p)
  BY <1>2, SameFreedAt DEF Lasting
<1> QED
  BY <1>1, <1>3

LEMMA SettledStays ==
  ASSUME cfg' = cfg, warnings \subseteq warnings', NEW p, Settled(p)
  PROVE  Settled(p)'
<1>1. Lasting(p)' = Lasting(p) /\ (Reported(p) => Reported(p)')
  BY SamePlaces DEF Reported
<1> QED
  BY <1>1 DEF Settled

LEMMA SameSearching ==
  ASSUME cfg' = cfg, NEW p, NEW sc, NEW st, NEW fa, Searching(p, sc, st, fa)
  PROVE  Searching(p, sc, st, fa)'
<1>1. Lasting(p)' = Lasting(p) /\ StmtAt(p)' = StmtAt(p)
  BY SamePlaces DEF StmtAt
<1> QED
  BY <1>1 DEF Searching

\* A statement that is passed hits nothing that lasts, which stays in freeargs.
LEMMA LastingKept ==
  ASSUME ReportInv, Pass, NEW e \in Lasting(site), \E n \in freeargs : Freed(n) = e
  PROVE  (\E n \in freeargs' : Freed(n) = e) /\ ~Hit(cfg, site, scan[1], scan[2], e)
<1> DEFINE s == StmtAt(scan)
<1>1. /\ site # Null /\ scan # Null /\ scan[2] <= Len(cfg.stmts[scan[1]])
      /\ ~Referenced(s) /\ \E gone \in Erased(s) : freeargs' = freeargs \ gone
  BY DEF Pass, Comparing
<1>2. scan \in Position /\ freeargs \subseteq DOMAIN StmtAt(site).frees /\ cfg \in Graph
  BY <1>1 DEF ReportInv, TypeOK
<1>3. PICK n \in freeargs : Freed(n) = e
  OBVIOUS
<1>4. scan \in AllPlaces
  <2>1. scan[1] \in Block /\ scan[2] \in DOMAIN cfg.stmts[scan[1]] /\ scan = <<scan[1], scan[2]>>
    BY <1>1, <1>2, StmtFacts DEF Position
  <2> QED
    BY <2>1 DEF AllPlaces, PlacesOf
<1>5. s.assigns # Base[e] /\ Base[e] # Null
  BY <1>4 DEF Lasting, NeverAssigned
<1>6. n \notin Reassigned(s)
  BY <1>3, <1>5 DEF Reassigned
<1>7. n \in freeargs'
  <2>1. \A gone \in Erased(s) : gone \subseteq Reassigned(s)
    BY DEF Erased
  <2> QED
    BY <1>1, <1>6, <2>1
<1>8. ASSUME Hit(cfg, site, scan[1], scan[2], e) PROVE FALSE
  <2>1. /\ e \in s.reads /\ ~s.compares /\ s.wraps = Null
        /\ s.assigns = Null \/ \A f \in FreedAt(site) : Base[f] # s.assigns
    BY <1>8 DEF Hit, StmtAt, FreedAt
  <2>2. \A i \in freeargs : Freed(i) \in FreedAt(site)
    BY <1>2 DEF Freed, FreedAt, ToSet
  <2>3. Reassigned(s) = {}
    BY <2>1, <2>2 DEF Reassigned
  <2>4. ~Exempt(s)
    BY <2>1, <2>3 DEF Exempt, DeclaresFree
  <2> QED
    BY <1>1, <1>3, <1>5, <2>1, <2>4 DEF Referenced
<1> QED
  BY <1>3, <1>7, <1>8 DEF Freed, StmtAt

\* A step of a search that does not end it.
LEMMA SearchGoesNear ==
  ASSUME ReportInv, NearInv, fault = "none", site # Null,
         UNCHANGED <<cfg, blockiter, site, warnings>>,
         NEW sc, NEW st, NEW fa, scan' = sc, stack' = st, freeargs' = fa,
         Searching(site, sc, st, fa)
  PROVE  NearInv'
<1>1. PICK p : p = site
  OBVIOUS
<1>2. Searching(p, sc, st, fa)'
  BY <1>1, SameSearching
<1>3. ASSUME NEW q \in AllPlaces', Behind(q)', q # site PROVE Settled(q)'
  <2>1. q \in AllPlaces /\ Behind(q)
    BY <1>3, SamePlaces DEF Behind
  <2> QED
    BY <1>3, <2>1, NearInvIs, SettledStays
<1>4. Searching(site, scan, stack, freeargs)'
  BY <1>1, <1>2
<1> QED
  BY <1>3, <1>4 DEF NearInv, Searching, Settled, Freed

\* A step between two searches: what is behind is settled.
LEMMA NoneNear ==
  ASSUME cfg' = cfg, site' = Null,
         \A p \in AllPlaces : Behind(p)' => Settled(p)'
  PROVE  NearInv'
BY SamePlaces DEF NearInv, Settled

LEMMA InitNear == Init => NearInv
<1> SUFFICES ASSUME Init PROVE NearInv
  OBVIOUS
<1>1. site = Null /\ blockiter = <<1, 1>> /\ cfg \in Graph
  BY OrderFacts DEF Init
<1>2. ASSUME NEW p \in AllPlaces PROVE ~Behind(p)
  <2>1. p[2] \in Nat \ {0}
    BY <1>1, AllPlacesFacts
  <2> QED
    BY <1>1, <2>1, OrderFacts DEF Behind
<1> QED
  BY <1>1, <1>2 DEF NearInv

\* As check moves on, no statement but the one it was at comes to lie behind.
LEMMA NoMoreBehind ==
  ASSUME TypeOK, AtStmt, blockiter' = [blockiter EXCEPT ![2] = @ + 1],
         NEW p \in Position, Behind(p)'
  PROVE  Behind(p) \/ p = Here
<1>1. /\ blockiter[1] \in Nat \ {0} /\ blockiter[2] \in Nat \ {0}
      /\ blockiter'[1] = blockiter[1] /\ blockiter'[2] = blockiter[2] + 1
  BY HereFacts, OrderFacts
<1>2. PICK i \in DOMAIN Order :
        /\ Order[i] = p[1]
        /\ i < blockiter[1] \/ (i = blockiter[1] /\ p[2] < blockiter[2] + 1)
  BY <1>1 DEF Behind
<1>3. p[2] \in Nat /\ p = <<p[1], p[2]>>
  BY DEF Position
<1>4. CASE i < blockiter[1] \/ (i = blockiter[1] /\ p[2] < blockiter[2])
  BY <1>2, <1>4 DEF Behind
<1>5. CASE i = blockiter[1] /\ p[2] = blockiter[2]
  BY <1>2, <1>3, <1>5 DEF Here
<1> QED
  BY <1>1, <1>2, <1>3, <1>4, <1>5

\* A block that check leaves has no statement that is not behind.
LEMMA NextBlockNear == ASSUME ReportInv, NearInv, NextBlock PROVE NearInv'
<1>1. /\ blockiter \in (Nat \ {0}) \X (Nat \ {0}) /\ blockiter' = <<blockiter[1] + 1, 1>>
      /\ site = Null /\ site' = site /\ cfg' = cfg /\ warnings' = warnings /\ fault = "none"
      /\ blockiter[1] <= Len(Order) /\ cfg \in Graph
      /\ ~(blockiter[2] <= Len(cfg.stmts[Order[blockiter[1]]]))
  BY DEF ReportInv, TypeOK, NextBlock, search, Idle, AtStmt
<1>2. /\ blockiter[1] \in Nat \ {0} /\ blockiter[2] \in Nat \ {0}
      /\ blockiter'[1] = blockiter[1] + 1 /\ blockiter'[2] = 1
  BY <1>1
<1>3. ASSUME NEW p \in AllPlaces, Behind(p)' PROVE Behind(p)
  <2>1. PICK i \in DOMAIN Order :
          /\ Order[i] = p[1]
          /\ i < blockiter[1] + 1 \/ (i = blockiter[1] + 1 /\ p[2] < 1)
    BY <1>2, <1>3 DEF Behind
  <2>2. p[2] \in 1..Len(cfg.stmts[p[1]]) /\ Len(cfg.stmts[p[1]]) \in Nat /\ i \in Nat
    BY <1>1, AllPlacesFacts, StmtFacts, OrderFacts
  <2>3. i < blockiter[1] \/ i = blockiter[1]
    BY <1>2, <2>1, <2>2
  <2>4. i = blockiter[1] => p[2] < blockiter[2]
    BY <1>1, <1>2, <2>1, <2>2
  <2> QED
    BY <2>1, <2>3, <2>4 DEF Behind
<1>4. ASSUME NEW p \in AllPlaces, Behind(p)' PROVE Settled(p)'
  <2>1. Behind(p) /\ p # site
    BY <1>1, <1>3, <1>4, AllPlacesFacts
  <2> QED
    BY <1>1, <2>1, NearInvIs, SettledStays
<1> QED
  BY <1>1, <1>4, NoneNear

\* A statement that frees nothing has nothing to settle.
LEMMA SkipNear == ASSUME ReportInv, NearInv, Skip PROVE NearInv'
<1>1. /\ AtStmt /\ blockiter' = [blockiter EXCEPT ![2] = @ + 1] /\ StmtAt(Here).frees = <<>>
      /\ site = Null /\ site' = site /\ cfg' = cfg /\ warnings' = warnings /\ fault = "none"
      /\ TypeOK /\ cfg \in Graph
  BY DEF Skip, search, AtStmt, Idle, ReportInv, TypeOK
<1>2. ASSUME NEW p \in AllPlaces, Behind(p)' PROVE Settled(p)'
  <2>1. p \in Position /\ p # Null
    BY <1>1, AllPlacesFacts
  <2>2. CASE Behind(p)
    BY <1>1, <2>1, <2>2, NearInvIs, SettledStays
  <2>3. CASE p = Here
    <3>1. Lasting(p) = {}
      BY <1>1, <2>3 DEF Lasting, FreedAt, ToSet
    <3>2. Settled(p)
      BY <3>1 DEF Settled
    <3> QED
      BY <1>1, <3>2, SettledStays
  <2> QED
    BY <1>1, <1>2, <2>1, <2>2, <2>3, NoMoreBehind
<1> QED
  BY <1>1, <1>2, NoneNear

\* A search begins with nothing behind it.
LEMMA FreeNear == ASSUME ReportInv, NearInv, Free PROVE NearInv'
<1>1. /\ AtStmt /\ blockiter' = [blockiter EXCEPT ![2] = @ + 1] /\ site = Null
      /\ cfg' = cfg /\ site' = Here /\ freeargs' = DOMAIN StmtAt(Here).frees
      /\ scan' = <<Here[1], Here[2] + 1>> /\ stack' = <<>>
      /\ warnings' = warnings /\ fault = "none" /\ TypeOK /\ cfg \in Graph
  BY DEF Free, AtStmt, Idle, ReportInv, TypeOK
<1>2. PICK p \in Position : p = Here
  BY <1>1, HereFacts
<1> DEFINE fa == DOMAIN StmtAt(p).frees
<1>3. Searching(p, <<p[1], p[2] + 1>>, <<>>, fa)
  <2> SUFFICES ASSUME NEW e \in Lasting(p) PROVE \E n \in fa : StmtAt(p).frees[n] = e
    BY <1>1, ExploredFirst DEF Searching
  <2> QED
    BY DEF Lasting, FreedAt, ToSet
<1>4. Searching(p, <<p[1], p[2] + 1>>, <<>>, fa)'
  <2>1. PICK sc, fb : sc = <<p[1], p[2] + 1>> /\ fb = fa
    OBVIOUS
  <2>2. Searching(p, sc, <<>>, fb)'
    BY <1>1, <1>3, <2>1, SameSearching
  <2>3. fa' = fb
    BY <1>1, <2>1 DEF StmtAt
  <2> QED
    BY <2>1, <2>2, <2>3
<1>5. Searching(site, scan, stack, freeargs)'
  <2>1. fa' = freeargs'
    BY <1>1, <1>2 DEF StmtAt
  <2> QED
    BY <1>1, <1>2, <1>4, <2>1
<1>6. ASSUME NEW q \in AllPlaces', Behind(q)', q # p PROVE Settled(q)'
  <2>1. q \in AllPlaces
    BY <1>1, <1>6, SamePlaces
  <2>2. q \in Position /\ q # Null
    BY <1>1, <2>1, AllPlacesFacts
  <2>3. Behind(q)
    BY <1>1, <1>2, <1>6, <2>2, NoMoreBehind
  <2> QED
    BY <1>1, <2>1, <2>2, <2>3, NearInvIs, SettledStays
<1> QED
  BY <1>1, <1>2, <1>5, <1>6 DEF NearInv, Searching, Settled, Freed

\* A search that ends settles its statement: by a report,
LEMMA ReportNear == ASSUME ReportInv, WayInv, NearInv, Report PROVE NearInv'
<1>1. /\ warnings' = warnings \cup {[site |-> site, use |-> scan]} /\ site' = Null
      /\ cfg' = cfg /\ blockiter' = blockiter
  BY DEF Report
<1>2. fault = "none"
  BY FaultEnds DEF Next
<1>3. ASSUME NEW p \in AllPlaces, Behind(p)' PROVE Settled(p)'
  <2>1. CASE p = site
    <3>1. PICK w : w = [site |-> site, use |-> scan]
      OBVIOUS
    <3>2. w \in warnings' /\ w.site = p
      BY <1>1, <2>1, <3>1
    <3> QED
      BY <3>2 DEF Settled, Reported
  <2>2. CASE p # site
    <3>1. Behind(p)
      BY <1>1, <1>3 DEF Behind
    <3> QED
      BY <1>1, <1>2, <2>2, <3>1, NearInvIs, SettledStays
  <2> QED
    BY <2>1, <2>2
<1> QED
  BY <1>1, <1>3, NoneNear

\* or because there is nothing to be found.
LEMMA GiveUpNear == ASSUME ReportInv, WayInv, NearInv, GiveUp PROVE NearInv'
<1>1. /\ site # Null /\ scan = Null /\ stack = <<>> /\ site' = Null
      /\ cfg' = cfg /\ blockiter' = blockiter /\ warnings' = warnings
  BY DEF GiveUp
<1>2. fault = "none"
  BY FaultEnds DEF Next
<1>3. Searching(site, scan, stack, freeargs)
  BY <1>1, <1>2, NearInvIs
<1>4. Settled(site)
  BY <1>1, <1>3 DEF Searching, Explored, Settled
<1>5. ASSUME NEW p \in AllPlaces, Behind(p)' PROVE Settled(p)'
  <2>1. Behind(p)
    BY <1>1, <1>5 DEF Behind
  <2>2. Settled(p)
    BY <1>2, <1>4, <2>1, NearInvIs
  <2> QED
    BY <1>1, <2>2, SettledStays
<1> QED
  BY <1>1, <1>5, NoneNear

LEMMA PassNear == ASSUME ReportInv, WayInv, NearInv, Pass PROVE NearInv'
<1>1. /\ site # Null /\ scan # Null /\ scan' = [scan EXCEPT ![2] = @ + 1] /\ stack' = stack
      /\ UNCHANGED <<cfg, blockiter, site, warnings>>
  BY DEF Pass, Comparing
<1>2. fault = "none"
  BY FaultEnds DEF Next
<1>3. scan \in Position /\ site \in Position /\ cfg \in Graph
  BY <1>1 DEF ReportInv, TypeOK
<1>4. scan' = <<scan[1], scan[2] + 1>>
  BY <1>1, <1>3 DEF Position
<1>5. PICK sc, fa : sc = <<scan[1], scan[2] + 1>> /\ fa = freeargs'
  OBVIOUS
<1>6. Searching(site, scan, stack, freeargs)
  BY <1>1, <1>2, NearInvIs
<1>7. Threaded(cfg, site, sc, stack)
  <2>1. sc # Null /\ sc[1] = scan[1]
    BY <1>3, <1>5, GraphAssumption DEF Position
  <2> QED
    BY <1>1, <1>6, <2>1 DEF Searching, Threaded
<1>8. ASSUME NEW e \in Lasting(site)
      PROVE  (\E n \in fa : StmtAt(site).frees[n] = e) /\ Explored(cfg, site, sc, stack, e)
  <2>1. (\E n \in freeargs : Freed(n) = e) /\ Explored(cfg, site, scan, stack, e)
    BY <1>6, <1>8 DEF Searching, Freed
  <2>2. (\E n \in fa : Freed(n) = e) /\ ~Hit(cfg, site, scan[1], scan[2], e)
    BY <1>5, <2>1, LastingKept
  <2>3. Explored(cfg, site, sc, stack, e)
    BY <1>3, <1>5, <2>1, <2>2, ExploredPass
  <2> QED
    BY <2>2, <2>3 DEF Freed
<1>9. Searching(site, sc, stack, fa)
  BY <1>7, <1>8 DEF Searching
<1>10. PICK st : st = stack
  OBVIOUS
<1> QED
  BY <1>1, <1>2, <1>4, <1>5, <1>9, <1>10, SearchGoesNear

LEMMA DescendNear == ASSUME ReportInv, WayInv, NearInv, Descend PROVE NearInv'
<1> DEFINE call == [block |-> scan[1], edge |-> 0]
<1>1. /\ site # Null /\ scan # Null /\ ~Comparing
      /\ scan' = Null /\ stack' = (IF MayDescend THEN Append(stack, call) ELSE stack)
      /\ freeargs' = freeargs /\ UNCHANGED <<cfg, blockiter, site, warnings>>
  BY DEF Descend
<1>2. fault = "none"
  BY FaultEnds DEF Next
<1>3. /\ scan \in Position /\ site \in Position /\ stack \in Seq(Frame) /\ cfg \in Graph
      /\ call \in Frame /\ Len(stack) <= checkDepth /\ checkDepth \in Nat
  BY <1>1, OrderFacts DEF ReportInv, TypeOK, Position, Frame
<1>4. Len(cfg.stmts[scan[1]]) < scan[2]
  BY <1>1, <1>3, StmtFacts DEF Position, Comparing
<1>5. Searching(site, scan, stack, freeargs)
  BY <1>1, <1>2, NearInvIs
<1>6. PICK st : st = stack'
  OBVIOUS
<1>7. PICK fa : fa = freeargs
  OBVIOUS
<1>8. CASE MayDescend
  <2>1. st = Append(stack, call)
    BY <1>1, <1>6, <1>8
  <2>2. /\ st \in Seq(Frame) /\ Len(st) = Len(stack) + 1 /\ st[Len(st)] = call
        /\ \A k \in 1..Len(stack) : st[k] = stack[k]
    BY <1>3, <2>1
  <2>3. Threaded(cfg, site, Null, st)
    BY <1>3, <1>5, <2>2, ThreadedPush DEF Searching
  <2>4. \A e \in Lasting(site) : Explored(cfg, site, Null, st, e)
    BY <1>3, <1>4, <1>5, <2>2, ExploredPush DEF Searching
  <2>5. Searching(site, Null, st, fa)
    BY <1>5, <1>7, <2>3, <2>4 DEF Searching
  <2> QED
    BY <1>1, <1>2, <1>6, <1>7, <2>5, SearchGoesNear
<1>9. CASE ~MayDescend
  <2>1. Len(stack) = checkDepth /\ st = stack
    BY <1>1, <1>3, <1>6, <1>9 DEF MayDescend
  <2>2. Threaded(cfg, site, Null, st)
    BY <1>5, <2>1 DEF Searching, Threaded
  <2>3. \A e \in Lasting(site) : Explored(cfg, site, Null, st, e)
    BY <1>3, <1>4, <1>5, <2>1, ExploredAtDepth DEF Searching
  <2>4. Searching(site, Null, st, fa)
    BY <1>5, <1>7, <2>2, <2>3 DEF Searching
  <2> QED
    BY <1>1, <1>2, <1>6, <1>7, <2>4, SearchGoesNear
<1> QED
  BY <1>8, <1>9

\* The faulting search loses everything: NearInv says nothing of it.
LEMMA SuccessorNear == ASSUME ReportInv, WayInv, NearInv, Successor PROVE NearInv'
<1> DEFINE m == Len(stack)
           edge == stack[m].edge + 1
           succblock == Target(cfg.succ[stack[m].block][edge])
<1>1. /\ site # Null /\ scan = Null /\ stack # <<>> /\ fault = "none"
      /\ stack[m].edge < Len(cfg.succ[stack[m].block])
      /\ stack' = Append(Front(stack), [stack[m] EXCEPT !.edge = edge])
      /\ IF succblock = Null THEN fault' = "null" /\ scan' = scan
                             ELSE scan' = <<succblock, 1>> /\ fault' = fault
      /\ freeargs' = freeargs /\ UNCHANGED <<cfg, blockiter, site, warnings>>
  BY DEF Successor, Between, Last
<1>2. stack \in Seq(Frame) /\ m \in Nat \ {0} /\ cfg \in Graph /\ site \in Position
  BY <1>1 DEF ReportInv, TypeOK
<1>3. CASE succblock = Null
  BY <1>1, <1>3 DEF NearInv
<1>4. CASE succblock # Null
  <2>1. m \in 1..Len(stack)
    BY <1>2
  <2>2. stack[m] \in Frame /\ stack[m].block \in Block /\ stack[m].edge \in Nat
    BY <1>2, <2>1, FrameFacts
  <2>3. [stack[m] EXCEPT !.edge = edge] = [block |-> stack[m].block, edge |-> edge]
    BY <2>2 DEF Frame
  <2>4. PICK top \in Frame : /\ top = [stack[m] EXCEPT !.edge = edge]
                             /\ top.block = stack[m].block /\ top.edge = stack[m].edge + 1
    BY <2>2, <2>3 DEF Frame
  <2>5. PICK front \in Seq(Frame) : /\ front = Front(stack) /\ Len(front) = m - 1
                                    /\ \A k \in 1..(m - 1) : front[k] = stack[k]
    BY <1>1, <1>2, PopFacts
  <2>6. PICK st : st = stack' /\ st = Append(front, top)
    BY <1>1, <2>4, <2>5
  <2>7. st \in Seq(Frame) /\ Len(st) = m /\ st[m] = top
    BY <1>2, <2>5, <2>6
  <2>8. ASSUME NEW k \in 1..m PROVE st[k].block = stack[k].block /\ (k # m => st[k] = stack[k])
    <3>1. CASE k = m
      BY <2>4, <2>7, <3>1
    <3>2. CASE k # m
      <4>1. k \in 1..(m - 1)
        BY <1>2, <3>2
      <4>2. st[k] = front[k]
        BY <1>2, <2>5, <2>6, <4>1
      <4> QED
        BY <2>5, <4>1, <4>2
    <3> QED
      BY <3>1, <3>2
  <2>9. succblock \in Block
    <3>1. edge \in Nat \ {0} /\ edge <= Len(cfg.succ[stack[m].block])
      <4>1. cfg.succ[stack[m].block] \in Seq(Edge)
        BY <1>2, <2>2 DEF Graph
      <4>2. Len(cfg.succ[stack[m].block]) \in Nat
        BY <4>1
      <4> QED
        BY <1>1, <2>2, <4>2
    <3> QED
      BY <1>2, <1>4, <2>2, <3>1, TargetFacts
  <2>10. PICK sc \in Position : sc = scan' /\ sc[1] = succblock /\ sc[2] = 1
    <3>1. <<succblock, 1>> \in Position
      BY <2>9 DEF Position
    <3> QED
      BY <1>1, <1>4, <3>1
  <2>11. PICK fa : fa = freeargs
    OBVIOUS
  <2>12. Searching(site, Null, stack, fa)
    BY <1>1, <2>11, NearInvIs
  <2>13. PICK n \in Nat \ {0} : /\ n = m /\ n = Len(stack) /\ Len(st) = n
                                /\ st[n].edge = stack[n].edge + 1
                                /\ stack[n].edge < Len(cfg.succ[stack[n].block])
                                /\ sc[1] = Target(cfg.succ[stack[n].block][stack[n].edge + 1])
    BY <1>1, <1>2, <2>4, <2>7, <2>10
  <2>14. \A k \in 1..n : st[k].block = stack[k].block /\ (k # n => st[k] = stack[k])
    BY <2>8, <2>13
  <2> HIDE DEF m, edge, succblock
  <2>15. Threaded(cfg, site, sc, st)
    <3>1. Threaded(cfg, site, Null, stack)
      BY <2>12 DEF Searching
    <3> QED
      BY <1>2, <2>7, <2>13, <2>14, <3>1, ThreadedSuccessor
  <2>16. ASSUME NEW e \in Lasting(site) PROVE Explored(cfg, site, sc, st, e)
    <3>1. Explored(cfg, site, Null, stack, e)
      BY <2>12, <2>16 DEF Searching
    <3> QED
      BY <1>2, <2>7, <2>10, <2>13, <2>14, <3>1, ExploredSuccessor
  <2>17. Searching(site, sc, st, fa)
    BY <2>12, <2>15, <2>16 DEF Searching
  <2> QED
    BY <1>1, <2>6, <2>10, <2>11, <2>17, SearchGoesNear
<1> QED
  BY <1>3, <1>4

LEMMA ReturnNear == ASSUME ReportInv, WayInv, NearInv, Return PROVE NearInv'
<1> DEFINE m == Len(stack)
<1>1. /\ site # Null /\ scan = Null /\ stack # <<>> /\ fault = "none"
      /\ stack[m].edge = Len(cfg.succ[stack[m].block])
      /\ scan' = Null /\ stack' = Front(stack)
      /\ freeargs' = freeargs /\ UNCHANGED <<cfg, blockiter, site, warnings>>
  BY DEF Return, Between, Last
<1>2. /\ stack \in Seq(Frame) /\ m \in Nat \ {0} /\ m <= checkDepth
      /\ cfg \in Graph /\ site \in Position
  BY <1>1 DEF ReportInv, TypeOK
<1>3. PICK st \in Seq(Frame) : /\ st = Front(stack) /\ Len(st) = m - 1
                               /\ \A k \in 1..(m - 1) : st[k] = stack[k]
  BY <1>1, <1>2, PopFacts
<1>4. PICK fa : fa = freeargs
  OBVIOUS
<1>5. Searching(site, Null, stack, fa)
  BY <1>1, <1>4, NearInvIs
<1>6. Threaded(cfg, site, Null, st)
  BY <1>2, <1>3, <1>5, ThreadedReturn DEF Searching
<1>7. \A e \in Lasting(site) : Explored(cfg, site, Null, st, e)
  BY <1>1, <1>2, <1>3, <1>5, ExploredReturn DEF Searching
<1>8. Searching(site, Null, st, fa)
  BY <1>5, <1>6, <1>7 DEF Searching
<1> QED
  BY <1>1, <1>3, <1>4, <1>8, SearchGoesNear

LEMMA NearStep == ReportInv /\ WayInv /\ NearInv /\ [Next]_vars => NearInv'
<1> SUFFICES ASSUME ReportInv, WayInv, NearInv, [Next]_vars PROVE NearInv'
  OBVIOUS
<1>1. CASE NextBlock \/ Skip \/ Free
  BY <1>1, NextBlockNear, SkipNear, FreeNear
<1>2. CASE Report \/ GiveUp
  BY <1>2, ReportNear, GiveUpNear
<1>3. CASE Pass \/ Descend
  BY <1>3, PassNear, DescendNear
<1>4. CASE Successor \/ Return
  BY <1>4, SuccessorNear, ReturnNear
<1>5. CASE UNCHANGED vars
  <2>1. UNCHANGED <<cfg, blockiter, site, warnings>> /\ scan' = scan /\ stack' = stack
        /\ freeargs' = freeargs /\ fault' = fault
    BY <1>5 DEF vars, search
  <2>2. CASE fault # "none"
    BY <2>1, <2>2 DEF NearInv
  <2>3. CASE fault = "none" /\ site # Null
    <3>1. PICK sc, st, fa : sc = scan /\ st = stack /\ fa = freeargs
      OBVIOUS
    <3>2. Searching(site, sc, st, fa)
      BY <2>3, <3>1, NearInvIs
    <3> QED
      BY <2>1, <2>3, <3>1, <3>2, SearchGoesNear
  <2>4. CASE fault = "none" /\ site = Null
    <3>1. ASSUME NEW p \in AllPlaces, Behind(p)' PROVE Settled(p)'
      <4>1. Behind(p) /\ p # site
        BY <2>1, <2>4, <3>1, AllPlacesFacts DEF Behind, ReportInv, TypeOK
      <4> QED
        BY <2>1, <2>4, <4>1, NearInvIs, SettledStays
    <3> QED
      BY <2>1, <2>4, <3>1, NoneNear
  <2> QED
    BY <2>2, <2>3, <2>4
<1> QED
  BY <1>1, <1>2, <1>3, <1>4, <1>5 DEF Next

\* When check is through, every statement is behind, and settled.
LEMMA NearImplies == ReportInv /\ WayInv /\ NearInv => NearUseReported
<1> SUFFICES ASSUME ReportInv, WayInv, NearInv, Done, NEW p \in AllPlaces, NEW e \in FreedAt(p),
                    NeverAssigned(e),
                    NEW q \in AllPlaces, Uses(q, e), LookedAt(p, q),
                    ReachesIntact(p, q, e, checkDepth)
             PROVE  Reported(p)
  BY DEF NearUseReported
<1>1. cfg \in Graph /\ site = Null /\ blockiter[1] \in Nat /\ Len(Order) < blockiter[1]
  BY OrderFacts DEF ReportInv, TypeOK, Done
<1>2. fault = "none"
  BY <1>1 DEF WayInv, ReportInv, TypeOK
<1>3. p \in Position /\ p # Null /\ p[1] \in Block
  BY <1>1, AllPlacesFacts
<1>4. Behind(p)
  <2>1. PICK i \in DOMAIN Order : Order[i] = p[1]
    BY <1>3, SearchAssumption DEF ToSet
  <2>2. i < blockiter[1]
    BY <1>1, <2>1, OrderFacts
  <2> QED
    BY <2>1, <2>2 DEF Behind
<1>5. Settled(p)
  BY <1>1, <1>2, <1>3, <1>4, NearInvIs
<1>6. e \in Lasting(p)
  BY DEF Lasting, Uses
<1> QED
  BY <1>1, <1>3, <1>5, <1>6, NoUseNear DEF Settled

-----------------------------------------------------------------------------
(* The theorems.                                                           *)

\* What has been reported lies behind, and names no statement of a search that is on.
THEOREM ReportInvariant == Spec => []ReportInv
BY InitReportInv, ReportInvStep, PTL DEF Spec

\* The variables keep their types: checkSuccessor is entered checkDepth times deep at most
\* and walks blocks only.
THEOREM TypeCorrect == Spec => []TypeOK
<1>1. ReportInv => TypeOK
  BY DEF ReportInv
<1> QED
  BY <1>1, ReportInvariant, PTL

\* Every freeing statement is reported once at most: a hit ends all calls of
\* checkSuccessor, and check never comes back to a statement.
THEOREM ReportedOnce == Spec => []OneReportPerFree
<1>1. ReportInv => OneReportPerFree
  BY DEF ReportInv
<1> QED
  BY <1>1, ReportInvariant, PTL

\* The calls of checkSuccessor form a way of control from the free, whatever the order in
\* which the search takes branches and comes back from them.
THEOREM WayInvariant == Spec => [](ReportInv /\ WayInv)
<1>1. Init => ReportInv /\ WayInv
  BY InitReportInv, InitWay
<1>2. ReportInv /\ WayInv /\ [Next]_vars => (ReportInv /\ WayInv)'
  BY ReportInvStep, WayStep
<1> QED
  BY <1>1, <1>2, PTL DEF Spec

\* Whatever is reported as a use after free is one on some path of at most checkDepth
\* edges, although one set of freed expressions serves all branches.
THEOREM ReportsAreUses == Spec => []ReportsUseOfFreed
<1>1. ReportInv /\ WayInv => ReportsUseOfFreed
  BY DEF WayInv
<1> QED
  BY <1>1, WayInvariant, PTL

\* No successor that is left behind leads to a use, within the depth that was left.
THEOREM NearInvariant == Spec => [](ReportInv /\ WayInv /\ NearInv)
<1>1. Init => ReportInv /\ WayInv /\ NearInv
  BY InitReportInv, InitWay, InitNear
<1>2. ReportInv /\ WayInv /\ NearInv /\ [Next]_vars => (ReportInv /\ WayInv /\ NearInv)'
  BY ReportInvStep, WayStep, NearStep
<1> QED
  BY <1>1, <1>2, PTL DEF Spec

\* A use that is near enough of a freed pointer that the function never assigns is not
\* missed: the free is reported, whatever branches and loops the search runs through.
THEOREM NearUseFound == Spec => []NearUseReported
<1>1. ReportInv /\ WayInv /\ NearInv => NearUseReported
  BY NearImplies
<1> QED
  BY <1>1, NearInvariant, PTL

\* A null successor is dereferenced only fewer than checkDepth edges behind a free that
\* has not been reported, and only where clang has pruned an edge.
THEOREM NullIsNear == Spec => []NullExplained
<1>1. ReportInv /\ WayInv => NullExplained
  BY DEF WayInv
<1> QED
  BY <1>1, WayInvariant, PTL

-----------------------------------------------------------------------------
(* The stage before the search: which calls free memory.                   *)

\* What lableAllFreeMethod is through with.
Upto == IF phase = "label" THEN fn - 1 ELSE Len(program)

\* Function k is one that is labelled, and has an outer call of d.
CallsOutside(k, d) ==
  /\ program[k].body /\ program[k].decl \notin FreeDecl
  /\ \E c \in ToSet(program[k].calls) : c.callee = d /\ ~c.nested

\* free is noted once it was called outside, with its one argument.
FreeNoted(d) ==
  /\ d \in DOMAIN AllFreeMethods <=> \E k \in 1..Upto : CallsOutside(k, d)
  /\ d \in DOMAIN AllFreeMethods => AllFreeMethods[d] = <<TRUE>>

\* Another function is noted once it was found at the end of a chain to free, with all the
\* parameters that it passes down one.
WrapperNoted(d) ==
  /\ d \in DOMAIN AllFreeMethods <=>
       \E k \in 1..Upto : program[k].decl = d /\ \E i \in 1..program[k].params : ReachesFree(k, i)
  /\ \A k \in 1..Upto : program[k].decl = d /\ d \in DOMAIN AllFreeMethods =>
       AllFreeMethods[d] = [i \in 1..program[k].params |-> ReachesFree(k, i)]

\* What is noted of the units that have not left memory.
NotedInv ==
  \A d \in Decl : Home[d] \notin evicted => IF d \in FreeDecl THEN FreeNoted(d) ELSE WrapperNoted(d)

\* A unit is in memory, or has left it.
HeldInv ==
  /\ LabelTypeOK /\ program \in Programs
  /\ Unit \subseteq Held \cup evicted
  /\ phase = "label" => labelFault = "none" /\ sites = {}

\* What is known of the functions of a program: each is listed once, in a unit.
LEMMA ProgramFacts ==
  ASSUME NEW P \in Programs
  PROVE  /\ P \in Seq(Function) /\ Len(P) \in Nat /\ DOMAIN P = 1..Len(P)
         /\ \A k \in 1..Len(P) : /\ P[k].decl \in Decl /\ P[k].params \in Nat
                                 /\ P[k].body \in BOOLEAN /\ P[k].header \in BOOLEAN
                                 /\ P[k].calls \in Seq(Call) /\ Home[P[k].decl] \in Unit
         /\ \A j, k \in 1..Len(P) : P[j].decl = P[k].decl => j = k
<1>1. IsProgram(P) /\ Home \in [Decl -> Unit]
  BY FreeAssumption
<1>2. P \in Seq(Function) /\ \A j, k \in DOMAIN P : P[j].decl = P[k].decl => j = k
  BY <1>1 DEF IsProgram
<1>3. Len(P) \in Nat /\ DOMAIN P = 1..Len(P) /\ \A k \in 1..Len(P) : P[k] \in Function
  BY <1>2
<1>4. \A k \in 1..Len(P) : /\ P[k].decl \in Decl /\ P[k].params \in Nat
                           /\ P[k].body \in BOOLEAN /\ P[k].header \in BOOLEAN
                           /\ P[k].calls \in Seq(Call)
  BY <1>3 DEF Function
<1> QED
  BY <1>1, <1>2, <1>3, <1>4

\* A call refers to a declaration of its own unit, and has the arguments that are looked up.
LEMMA CallFacts ==
  ASSUME NEW P \in Programs, NEW k \in 1..Len(P), NEW n \in DOMAIN P[k].calls
  PROVE  LET c == P[k].calls[n] IN
         /\ c \in ToSet(P[k].calls) /\ c \in Call
         /\ c.callee \in Decl => Home[c.callee] = Home[P[k].decl]
         /\ c.args \in Seq(Nat)
         /\ c.callee \in FreeDecl => 1 \in DOMAIN c.args
         /\ \A j \in 1..Len(P) : c.callee = P[j].decl => 1..P[j].params \subseteq DOMAIN c.args
<1>1. /\ P[k].calls \in Seq(Call) /\ DOMAIN P = 1..Len(P)
      /\ \A j \in 1..Len(P) : P[j].params \in Nat
  BY ProgramFacts
<1> DEFINE c == P[k].calls[n]
<1>2. c \in ToSet(P[k].calls) /\ c \in Call
  BY <1>1 DEF ToSet
<1>3. c.args \in Seq(Nat) /\ Len(c.args) \in Nat /\ DOMAIN c.args = 1..Len(c.args)
  BY <1>2 DEF Call
<1>4. /\ c.callee # NoDecl => Home[c.callee] = Home[P[k].decl]
      /\ c.callee \in FreeDecl => c.args # <<>>
      /\ \A j \in DOMAIN P : c.callee = P[j].decl => P[j].params <= Len(c.args)
  BY <1>1, <1>2, FreeAssumption DEF IsProgram
<1>5. NoDecl \notin Decl
  BY FreeAssumption
<1>6. c.args # <<>> => 1 \in DOMAIN c.args
  BY <1>3
<1>7. \A j \in 1..Len(P) : c.callee = P[j].decl => 1..P[j].params \subseteq DOMAIN c.args
  BY <1>1, <1>3, <1>4
<1> QED
  BY <1>2, <1>3, <1>4, <1>5, <1>6, <1>7

\* A unit that is asked for is in memory afterwards, and no other one has come there.
LEMMA RequestedFacts ==
  ASSUME astQueue \in Seq(Unit), Len(astQueue) <= maxSize, NEW u \in Unit
  PROVE  /\ Requested(u) \in Seq(Unit) /\ Len(Requested(u)) <= maxSize
         /\ ToSet(Requested(u)) \subseteq Held \cup {u}
         /\ u \in ToSet(Requested(u))
<1> DEFINE U == Unit
           q == astQueue
           S == Held \ {u}
           rest == IF u \in Held THEN Within(q, S)
                   ELSE IF Len(q) >= maxSize THEN Tail(q) ELSE q
<1> HIDE DEF U
<1>0. q \in Seq(U) /\ u \in U /\ maxSize \in Nat \ {0} /\ Len(q) \in Nat /\ Len(q) <= maxSize /\ DOMAIN q = 1..Len(q)
  BY FreeAssumption DEF U
<1>1. rest \in Seq(U) /\ ToSet(rest) \subseteq ToSet(q) /\ Len(rest) < maxSize
  <2>1. CASE u \in Held
    <3>1. rest = Within(q, S)
      BY <2>1
    <3>2. Within(q, S) \in Seq(U) /\ ToSet(Within(q, S)) = ToSet(q) \cap S
      BY <1>0, WithinFacts
    <3>3. PICK kept \in [0..Len(q) -> Seq(U)] :
            /\ kept[0] = <<>> /\ Within(q, S) = kept[Len(q)]
            /\ \A k \in 1..Len(q) : kept[k] = IF q[k] \in S THEN Append(kept[k - 1], q[k]) ELSE kept[k - 1]
      <4> HIDE DEF q, S, rest
      <4>1. q \in Seq(U)
        BY <1>0
      <4>2. \A s \in Seq(U) : \A X : \E kept \in [0..Len(s) -> Seq(U)] :
              /\ kept[0] = <<>> /\ Within(s, X) = kept[Len(s)]
              /\ \A k \in 1..Len(s) : kept[k] = IF s[k] \in X THEN Append(kept[k - 1], s[k]) ELSE kept[k - 1]
        BY WithinSteps, Zenon
      <4>3. \A X : \E kept \in [0..Len(q) -> Seq(U)] :
              /\ kept[0] = <<>> /\ Within(q, X) = kept[Len(q)]
              /\ \A k \in 1..Len(q) : kept[k] = IF q[k] \in X THEN Append(kept[k - 1], q[k]) ELSE kept[k - 1]
        BY <4>1, <4>2
      <4> QED
        BY <4>3
    <3>4. PICK j \in 1..Len(q) : q[j] = u
      BY <1>0, <2>1 DEF Held, ToSet
    <3> DEFINE P == {k \in 0..Len(q) : Len(kept[k]) <= k /\ (k >= j => Len(kept[k]) < k)}
    <3>5. 0 \in P
      BY <1>0, <3>3, <3>4
    <3>6. ASSUME NEW k \in 1..Len(q), k - 1 \in P PROVE k \in P
      <4>1. k - 1 \in 0..Len(q) /\ Len(kept[k - 1]) <= k - 1 /\ (k - 1 >= j => Len(kept[k - 1]) < k - 1)
        BY <3>6
      <4>2. kept[k - 1] \in Seq(U) /\ Len(kept[k - 1]) \in Nat /\ q[k] \in U
        <5>1. kept[k - 1] \in Seq(U)
          BY <3>3, <4>1
        <5>2. \A s \in Seq(U) : Len(s) \in Nat
          OBVIOUS
        <5> QED
          BY <1>0, <5>1, <5>2
      <4>3. CASE q[k] \in S
        <5>1. kept[k] = Append(kept[k - 1], q[k]) /\ k # j
          BY <3>3, <3>4, <4>3
        <5>2. Len(kept[k]) = Len(kept[k - 1]) + 1
          BY <4>2, <5>1
        <5> QED
          BY <1>0, <3>4, <4>1, <4>2, <5>1, <5>2
      <4>4. CASE q[k] \notin S
        <5>1. kept[k] = kept[k - 1]
          BY <3>3, <4>4
        <5> QED
          BY <1>0, <3>4, <4>1, <4>2, <5>1
      <4> QED
        BY <4>3, <4>4
    <3>7. 0..Len(q) \subseteq P
      <4> HIDE DEF P
      <4> QED
        BY <1>0, <3>5, <3>6, BoundedInduction
    <3>8. Len(q) \in P
      BY <1>0, <3>7
    <3>9. Len(Within(q, S)) < Len(q)
      BY <1>0, <3>3, <3>4, <3>8
    <3>10. Len(Within(q, S)) < maxSize
      BY <1>0, <3>2, <3>9
    <3> QED
      BY <3>1, <3>2, <3>10
  <2>2. CASE u \notin Held /\ Len(q) >= maxSize
    <3>1. rest = Tail(q) /\ q # <<>> /\ Len(q) = maxSize
      <4>1. q # <<>>
        BY <1>0, <2>2
      <4>2. rest = Tail(q)
        BY <2>2
      <4>3. Len(q) = maxSize
        <5> HIDE DEF rest, S, q
        <5>1. Len(q) \in Nat /\ maxSize \in Nat /\ Len(q) <= maxSize /\ Len(q) >= maxSize
          BY <1>0, <2>2
        <5> QED
          BY <5>1
      <4> QED
        BY <4>1, <4>2, <4>3
    <3>2. Tail(q) \in Seq(U) /\ Len(Tail(q)) = Len(q) - 1 /\ \A k \in 1..(Len(q) - 1) : Tail(q)[k] = q[k + 1]
      BY <1>0, <3>1
    <3>3. ToSet(Tail(q)) \subseteq ToSet(q)
      BY <1>0, <3>2 DEF ToSet
    <3> QED
      <4>1. Len(Tail(q)) < maxSize
        BY <1>0, <3>1, <3>2
      <4> HIDE DEF rest
      <4> QED
        BY <3>1, <3>2, <3>3, <4>1
  <2>3. CASE u \notin Held /\ ~(Len(q) >= maxSize)
    BY <1>0, <2>3
  <2> QED
    BY <2>1, <2>2, <2>3
<1>2. Requested(u) = Append(rest, u)
  BY DEF Requested
<1> HIDE DEF rest
<1>3. /\ Append(rest, u) \in Seq(U) /\ Len(Append(rest, u)) = Len(rest) + 1 /\ Len(rest) \in Nat
      /\ \A k \in 1..Len(rest) : Append(rest, u)[k] = rest[k]
      /\ Append(rest, u)[Len(rest) + 1] = u
  BY <1>0, <1>1, AppendFacts
<1>4. ToSet(Append(rest, u)) = ToSet(rest) \cup {u}
  <2>1. DOMAIN Append(rest, u) = 1..(Len(rest) + 1) /\ DOMAIN rest = 1..Len(rest)
    BY <1>1, <1>3
  <2>2. \A k \in 1..(Len(rest) + 1) : k \in 1..Len(rest) \/ k = Len(rest) + 1
    BY <1>3
  <2>3. 1..Len(rest) \subseteq 1..(Len(rest) + 1) /\ Len(rest) + 1 \in 1..(Len(rest) + 1)
    BY <1>3
  <2> QED
    BY <1>3, <2>1, <2>2, <2>3, Zenon DEF ToSet
<1>5. Held = ToSet(q) /\ ToSet(Requested(u)) = ToSet(Append(rest, u))
  BY <1>2 DEF Held, ToSet
<1> QED
  BY <1>0, <1>1, <1>2, <1>3, <1>4, <1>5 DEF U

\* What a request leaves of the registry: entries for units in memory, those of the units
\* that stay are the same.
LEMMA RegistriesFacts ==
  ASSUME LabelTypeOK, NEW u \in Unit, NEW r \in Registries(u)
  PROVE  /\ DOMAIN r[1] \subseteq {d \in Decl : Home[d] \in ToSet(Requested(u))}
         /\ \A d \in DOMAIN r[1] : r[1][d] \in Seq(BOOLEAN)
         /\ r[2] \subseteq Seq(BOOLEAN)
         /\ \A d \in Decl : Home[d] \in Held \cap ToSet(Requested(u)) =>
              /\ d \in DOMAIN r[1] <=> d \in DOMAIN AllFreeMethods
              /\ d \in DOMAIN AllFreeMethods => r[1][d] = AllFreeMethods[d]
<1> DEFINE now == ToSet(Requested(u))
           kept == InMemory(AllFreeMethods, now)
           freed == {AllFreeMethods[d] : d \in DOMAIN AllFreeMethods \ DOMAIN kept}
           B == Seq(BOOLEAN)
<1>1. /\ DOMAIN AllFreeMethods \subseteq {d \in Decl : Home[d] \in Held}
      /\ \A d \in DOMAIN AllFreeMethods : AllFreeMethods[d] \in B
      /\ dangling \subseteq B
      /\ astQueue \in Seq(Unit) /\ Len(astQueue) <= maxSize
  BY DEF LabelTypeOK
<1>2. u \in now
  BY <1>1, RequestedFacts
<1>3. /\ DOMAIN kept = {d \in DOMAIN AllFreeMethods : Home[d] \in now}
      /\ \A d \in DOMAIN kept : kept[d] = AllFreeMethods[d]
  BY DEF InMemory
<1>4. r = <<kept, dangling \cup freed>> \/
      (u \notin Held /\ \E d \in {e \in Decl : Home[e] = u}, x \in dangling :
                          r = <<Noting(kept, {d}, x), (dangling \ {x}) \cup freed>>)
  <2> DEFINE D == {e \in Decl : Home[e] = u}
             A(d, x) == <<Noting(kept, {d}, x), (dangling \ {x}) \cup freed>>
             X == {<<kept, dangling \cup freed>>}
             Y == {A(d, x) : d \in D, x \in dangling}
  <2>1. Registries(u) = X \cup IF u \in Held THEN {} ELSE Y
    BY SMT DEF Registries
  <2>2. \A y \in Y : \E d \in D, x \in dangling : y = A(d, x)
    <3> HIDE DEF A, D
    <3> QED
      OBVIOUS
  <2>3. r \in X \/ (u \notin Held /\ r \in Y)
    <3> HIDE DEF X, Y
    <3> QED
      BY <2>1
  <2>4. u \notin Held /\ r \in Y => u \notin Held /\ \E d \in D, x \in dangling : r = A(d, x)
    <3> HIDE DEF A, D, Y
    <3> QED
      BY <2>2
  <2>5. r \in X => r = <<kept, dangling \cup freed>>
    <3> HIDE DEF kept, freed
    <3> QED
      OBVIOUS
  <2> HIDE DEF X, Y
  <2> QED
    BY <2>3, <2>4, <2>5, Zenon
<1> HIDE DEF now, kept
<1>5. freed \subseteq B
  BY <1>1
<1> HIDE DEF freed, B
<1>6. CASE r = <<kept, dangling \cup freed>>
  <2>1. r[1] = kept /\ r[2] = dangling \cup freed
    BY <1>6
  <2> QED
    BY <1>1, <1>3, <1>5, <2>1 DEF now, B
<1>7. CASE u \notin Held /\ \E d \in {e \in Decl : Home[e] = u}, x \in dangling :
                          r = <<Noting(kept, {d}, x), (dangling \ {x}) \cup freed>>
  <2>1. PICK e \in Decl, x \in dangling :
          Home[e] = u /\ r = <<Noting(kept, {e}, x), (dangling \ {x}) \cup freed>>
    BY <1>7
  <2>2. r[1] = Noting(kept, {e}, x) /\ r[2] = (dangling \ {x}) \cup freed
    BY <2>1
  <2>3. /\ DOMAIN r[1] = DOMAIN kept \cup {e}
        /\ \A d \in DOMAIN r[1] : r[1][d] = IF d \in DOMAIN kept THEN kept[d] ELSE x
    BY <2>2 DEF Noting
  <2>4. x \in B /\ r[2] \subseteq B
    BY <1>1, <1>5, <2>1, <2>2
  <2>5. \A d \in DOMAIN r[1] : r[1][d] \in B
    BY <1>1, <1>3, <2>3, <2>4
  <2>6. DOMAIN r[1] \subseteq {d \in Decl : Home[d] \in now}
    BY <1>1, <1>2, <1>3, <2>1, <2>3
  <2>7. \A d \in Decl : Home[d] \in Held => d # e
    BY <1>7, <2>1
  <2>8. \A d \in Decl : Home[d] \in Held \cap now =>
              /\ d \in DOMAIN r[1] <=> d \in DOMAIN AllFreeMethods
              /\ d \in DOMAIN AllFreeMethods => r[1][d] = AllFreeMethods[d]
    BY <1>3, <2>3, <2>7
  <2> QED
    BY <2>4, <2>5, <2>6, <2>8 DEF now, B
<1> QED
  BY <1>4, <1>6, <1>7

\* What does not leave memory in a request.
LEMMA StaysFacts ==
  ASSUME HeldInv, NEW u \in Unit, Request(u), NEW r \in Registries(u)
  PROVE  /\ u \in Held' /\ astQueue' \in Seq(Unit) /\ Len(astQueue') <= maxSize
         /\ evicted \subseteq evicted' /\ evicted' \subseteq Unit
         /\ Unit \subseteq Held' \cup evicted'
         /\ DOMAIN r[1] \subseteq {d \in Decl : Home[d] \in Held'}
         /\ \A d \in DOMAIN r[1] : r[1][d] \in Seq(BOOLEAN)
         /\ r[2] \subseteq Seq(BOOLEAN)
         /\ \A d \in Decl : Home[d] \notin evicted' =>
              /\ d \in DOMAIN r[1] <=> d \in DOMAIN AllFreeMethods
              /\ d \in DOMAIN AllFreeMethods => r[1][d] = AllFreeMethods[d]
<1> DEFINE now == ToSet(Requested(u))
<1>1. /\ astQueue \in Seq(Unit) /\ Len(astQueue) <= maxSize /\ evicted \subseteq Unit
      /\ Unit \subseteq Held \cup evicted /\ LabelTypeOK
  BY DEF HeldInv, LabelTypeOK
<1>2. /\ astQueue' = Requested(u) /\ evicted' = evicted \cup (Held \ now)
      /\ Held' = ToSet(astQueue')
  BY DEF Request, Held
<1>3. /\ Requested(u) \in Seq(Unit) /\ Len(Requested(u)) <= maxSize
      /\ now \subseteq Held \cup {u} /\ u \in now
  BY <1>1, RequestedFacts
<1>4. Held \subseteq Unit
  BY <1>1 DEF Held, ToSet
<1>5. Home \in [Decl -> Unit]
  BY FreeAssumption
<1>6. /\ DOMAIN r[1] \subseteq {d \in Decl : Home[d] \in now}
      /\ \A d \in DOMAIN r[1] : r[1][d] \in Seq(BOOLEAN)
      /\ r[2] \subseteq Seq(BOOLEAN)
      /\ \A d \in Decl : Home[d] \in Held \cap now =>
              /\ d \in DOMAIN r[1] <=> d \in DOMAIN AllFreeMethods
              /\ d \in DOMAIN AllFreeMethods => r[1][d] = AllFreeMethods[d]
  BY <1>1, RegistriesFacts
<1>7. Held' = now
  BY <1>2
<1> HIDE DEF now
<1>8. \A d \in Decl : Home[d] \notin evicted' => Home[d] \in Held \cap now
  BY <1>1, <1>2, <1>5
<1>9. \A d \in Decl : Home[d] \notin evicted' =>
              /\ d \in DOMAIN r[1] <=> d \in DOMAIN AllFreeMethods
              /\ d \in DOMAIN AllFreeMethods => r[1][d] = AllFreeMethods[d]
  BY <1>6, <1>8
<1>10. evicted \subseteq evicted' /\ evicted' \subseteq Unit
  BY <1>1, <1>2, <1>4
<1>11. Unit \subseteq Held' \cup evicted' /\ u \in Held'
  BY <1>1, <1>2, <1>3, <1>4, <1>7
<1>12. astQueue' \in Seq(Unit) /\ Len(astQueue') <= maxSize
  BY <1>2, <1>3
<1>13. /\ DOMAIN r[1] \subseteq {d \in Decl : Home[d] \in Held'}
       /\ \A d \in DOMAIN r[1] : r[1][d] \in Seq(BOOLEAN)
       /\ r[2] \subseteq Seq(BOOLEAN)
  BY <1>6, <1>7
<1> QED
  BY <1>9, <1>10, <1>11, <1>12, <1>13

\* Function s[m] passes one of its parameters, the i-th if it is the last of the chain, on to
\* the function before it in the chain, or to free if it is the first.
Link(s, n, m, i) ==
  /\ program[s[m]].body /\ program[s[m]].decl \notin FreeDecl
  /\ \E p \in IF m = n THEN {i} ELSE 1..program[s[m]].params :
       \E d \in IF m = 1 THEN FreeDecl ELSE {program[s[m - 1]].decl} : Passes(s[m], p, d)

\* The functions s[1], ..., s[n] = k are such a chain, which ends with parameter i of k.
IsChain(s, n, k, i) ==
  /\ s \in [1..n -> 1..Len(program)] /\ s[n] = k
  /\ \A m \in 2..n : s[m - 1] < s[m]
  /\ \A m \in 1..n : Link(s, n, m, i)

\* The chains to free, link by link.
LEMMA ChainDef ==
  ASSUME NEW k, NEW i
  PROVE  ReachesFree(k, i) <=> \E n \in 1..k : \E s : IsChain(s, n, k, i)
<1> DEFINE S(n) == [1..n -> 1..Len(program)]
<1>1. ReachesFree(k, i) <=>
        \E n \in 1..k : \E s \in S(n) : /\ s[n] = k /\ \A m \in 2..n : s[m - 1] < s[m]
                                        /\ \A m \in 1..n : Link(s, n, m, i)
  BY DEF ReachesFree, Link
<1>2. \A n, s : IsChain(s, n, k, i) <=> /\ s \in S(n) /\ s[n] = k
                                        /\ \A m \in 2..n : s[m - 1] < s[m]
                                        /\ \A m \in 1..n : Link(s, n, m, i)
  BY DEF IsChain
<1> HIDE DEF S
<1> QED
  BY <1>1, <1>2, Zenon

\* A function is at the end of a chain if it passes the parameter on to free, or to an
\* earlier function that is at the end of a chain.
LEMMA ChainStep ==
  ASSUME program \in Programs, NEW k \in 1..Len(program), NEW i
  PROVE  ReachesFree(k, i) <=>
           /\ program[k].body /\ program[k].decl \notin FreeDecl
           /\ \/ \E d \in FreeDecl : Passes(k, i, d)
              \/ \E j \in 1..(k - 1) : /\ \E p : ReachesFree(j, p)
                                       /\ Passes(k, i, program[j].decl)
<1> DEFINE N == Len(program)
           Direct == \E d \in FreeDecl : Passes(k, i, d)
           Over(j) == /\ \E p : ReachesFree(j, p)
                      /\ Passes(k, i, program[j].decl)
<1>1. N \in Nat /\ k \in Nat /\ k >= 1
  BY ProgramFacts
<1>2. \A f, p, d : Passes(f, p, d) => p \in 1..program[f].params
  BY DEF Passes
<1>3. ASSUME ReachesFree(k, i)
      PROVE  program[k].body /\ program[k].decl \notin FreeDecl /\ (Direct \/ \E j \in 1..(k - 1) : Over(j))
  <2>1. PICK n \in 1..k : \E s : IsChain(s, n, k, i)
    BY <1>3, ChainDef
  <2>2. PICK s : IsChain(s, n, k, i)
    BY <2>1
  <2>3. /\ s \in [1..n -> 1..N] /\ s[n] = k /\ n \in 1..n /\ n \in Nat
        /\ \A m \in 2..n : s[m - 1] < s[m]
        /\ \A m \in 1..n : Link(s, n, m, i)
    BY <1>1, <2>1, <2>2 DEF IsChain
  <2>4. Link(s, n, n, i)
    BY <2>3
  <2>5. /\ program[k].body /\ program[k].decl \notin FreeDecl
        /\ \E d \in IF n = 1 THEN FreeDecl ELSE {program[s[n - 1]].decl} : Passes(k, i, d)
    BY <2>3, <2>4 DEF Link
  <2>6. CASE n = 1
    BY <2>5, <2>6
  <2>7. CASE n # 1
    <3> DEFINE j == s[n - 1]
               t == [m \in 1..(n - 1) |-> s[m]]
    <3>1. n - 1 \in 1..n /\ n \in 2..n /\ n - 1 \in Nat /\ n - 1 >= 1
      BY <2>1, <2>7, <1>1
    <3>2. j \in 1..N /\ j < k
      BY <2>3, <3>1
    <3>3. Passes(k, i, program[j].decl)
      BY <2>5, <2>7
    <3> DEFINE P == {m \in 0..n : m >= 1 => s[m] >= m}
    <3>4. 0 \in P
      BY <2>3
    <3>5. ASSUME NEW m \in 1..n, m - 1 \in P PROVE m \in P
      <4>1. s[m] \in Nat /\ s[m] >= 1 /\ m \in 0..n /\ m \in Nat
        BY <1>1, <2>3
      <4>2. CASE m = 1
        BY <4>1, <4>2
      <4>3. CASE m # 1
        <5>1. m \in 2..n /\ m - 1 \in 1..n
          BY <2>3, <4>3
        <5>2. s[m - 1] < s[m] /\ s[m - 1] \in Nat /\ s[m - 1] >= m - 1
          BY <1>1, <2>3, <3>5, <5>1
        <5> QED
          BY <4>1, <5>2
      <4> QED
        BY <4>2, <4>3
    <3>6. 0..n \subseteq P
      <4> HIDE DEF P
      <4> QED
        BY <2>3, <3>4, <3>5, BoundedInduction
    <3>7. n - 1 \in P
      BY <3>1, <3>6
    <3>8. n - 1 \in 1..j /\ j \in 1..(k - 1)
      BY <1>1, <3>1, <3>2, <3>7
    <3>9. Link(s, n, n - 1, i)
      BY <2>3, <3>1
    <3>10. PICK p \in 1..program[j].params :
             \E d \in IF n - 1 = 1 THEN FreeDecl ELSE {program[s[n - 1 - 1]].decl} : Passes(j, p, d)
      <4>1. n - 1 # n
        BY <2>3
      <4> QED
        BY <3>9, <4>1 DEF Link
    <3>11. IsChain(t, n - 1, j, p)
      <4>1. /\ t \in [1..(n - 1) -> 1..N] /\ t[n - 1] = j
            /\ \A m \in 1..(n - 1) : t[m] = s[m] /\ m \in 1..n
        BY <2>3, <3>1
      <4>2. \A m \in 2..(n - 1) : t[m - 1] < t[m]
        <5>1. \A m \in 2..(n - 1) : m \in 2..n /\ m \in 1..(n - 1) /\ m - 1 \in 1..(n - 1)
          BY <2>3
        <5> QED
          BY <2>3, <4>1, <5>1
      <4>3. ASSUME NEW m \in 1..(n - 1) PROVE Link(t, n - 1, m, p)
        <5>1. t[m] = s[m] /\ m \in 1..n /\ m # n
          BY <2>3, <4>1
        <5>2. m # 1 => t[m - 1] = s[m - 1]
          <6>1. m # 1 => m - 1 \in 1..(n - 1)
            BY <2>3
          <6> QED
            BY <4>1, <6>1
        <5>3. Link(s, n, m, i)
          BY <2>3, <5>1
        <5>4. CASE m = n - 1
          <6>1. \E d \in IF m = 1 THEN FreeDecl ELSE {program[t[m - 1]].decl} : Passes(t[m], p, d)
            BY <3>10, <5>1, <5>2, <5>4
          <6> QED
            BY <5>1, <5>3, <5>4, <6>1 DEF Link
        <5>5. CASE m # n - 1
          BY <5>1, <5>2, <5>3, <5>5 DEF Link
        <5> QED
          BY <5>4, <5>5
      <4> HIDE DEF t, j
      <4> QED
        BY <4>1, <4>2, <4>3 DEF IsChain
    <3> HIDE DEF t, j
    <3>12. ReachesFree(j, p)
      BY <3>8, <3>11, ChainDef
    <3> QED
      BY <2>5, <3>3, <3>8, <3>12
  <2> QED
    BY <2>5, <2>6, <2>7
<1>4. ASSUME program[k].body /\ program[k].decl \notin FreeDecl, Direct PROVE ReachesFree(k, i)
  <2> DEFINE t == [m \in 1..1 |-> k]
  <2>1. t \in [1..1 -> 1..N] /\ t[1] = k /\ 1 \in 1..k
    BY <1>1
  <2>2. Link(t, 1, 1, i)
    <3> HIDE DEF t
    <3> QED
      BY <1>4, <2>1 DEF Link
  <2>3. IsChain(t, 1, k, i)
    <3> HIDE DEF t
    <3>1. \A m \in 1..1 : m = 1
      OBVIOUS
    <3>2. \A m \in 2..1 : FALSE
      OBVIOUS
    <3> QED
      BY <2>1, <2>2, <3>1, <3>2 DEF IsChain
  <2> QED
    BY <2>1, <2>3, ChainDef
<1>5. ASSUME program[k].body /\ program[k].decl \notin FreeDecl, NEW j \in 1..(k - 1), Over(j)
      PROVE  ReachesFree(k, i)
  <2>1. PICK p : ReachesFree(j, p)
    BY <1>5
  <2>2. PICK n \in 1..j : \E s : IsChain(s, n, j, p)
    BY <2>1, ChainDef
  <2>3. PICK s : IsChain(s, n, j, p)
    BY <2>2
  <2>4. /\ s \in [1..n -> 1..N] /\ s[n] = j /\ n \in 1..n /\ n \in Nat
        /\ \A m \in 2..n : s[m - 1] < s[m]
        /\ \A m \in 1..n : Link(s, n, m, p)
    BY <1>1, <2>2, <2>3 DEF IsChain
  <2> DEFINE t == [m \in 1..(n + 1) |-> IF m = n + 1 THEN k ELSE s[m]]
  <2>5. /\ t \in [1..(n + 1) -> 1..N] /\ t[n + 1] = k
        /\ \A m \in 1..n : t[m] = s[m]
        /\ n + 1 \in 1..k
    BY <1>1, <2>2, <2>4
  <2>6. \A m \in 2..(n + 1) : t[m - 1] < t[m]
    <3>1. ASSUME NEW m \in 2..(n + 1) PROVE t[m - 1] < t[m]
      <4>1. CASE m = n + 1
        <5>1. m - 1 = n /\ t[m - 1] = j /\ t[m] = k
          BY <2>4, <2>5, <4>1
        <5> QED
          BY <1>1, <5>1
      <4>2. CASE m # n + 1
        <5>1. m \in 2..n /\ m \in 1..n /\ m - 1 \in 1..n
          BY <2>4, <4>2
        <5> QED
          BY <2>4, <2>5, <5>1
      <4> QED
        BY <4>1, <4>2
    <3> HIDE DEF t
    <3> QED
      BY <3>1
  <2>7. ASSUME NEW m \in 1..(n + 1) PROVE Link(t, n + 1, m, i)
    <3>1. CASE m = n + 1
      <4>1. t[m] = k /\ t[m - 1] = j /\ m # 1
        BY <2>4, <2>5, <3>1
      <4>2. Passes(k, i, program[j].decl)
        BY <1>5
      <4> HIDE DEF t
      <4> QED
        BY <1>5, <3>1, <4>1, <4>2 DEF Link
    <3>2. CASE m # n + 1
      <4>1. m \in 1..n
        BY <2>4, <3>2
      <4>2. t[m] = s[m] /\ Link(s, n, m, p)
        BY <2>4, <2>5, <4>1
      <4>3. m # 1 => t[m - 1] = s[m - 1]
        <5>1. m # 1 => m - 1 \in 1..n
          BY <2>4, <4>1
        <5> QED
          BY <2>5, <5>1
      <4> HIDE DEF t
      <4>4. PICK q \in IF m = n THEN {p} ELSE 1..program[s[m]].params :
              \E d \in IF m = 1 THEN FreeDecl ELSE {program[s[m - 1]].decl} : Passes(s[m], q, d)
        BY <4>2 DEF Link
      <4>5. q \in 1..program[s[m]].params
        BY <1>2, <4>4
      <4> QED
        BY <3>2, <4>2, <4>3, <4>4, <4>5 DEF Link
    <3> QED
      BY <3>1, <3>2
  <2> HIDE DEF t
  <2>8. IsChain(t, n + 1, k, i)
    BY <2>5, <2>6, <2>7 DEF IsChain
  <2> QED
    BY <2>5, <2>8, ChainDef
<1> QED
  BY <1>3, <1>4, <1>5

\* No step changes the program, nor its chains and calls.
LEMMA ProgramOnly ==
  ASSUME program' = program
  PROVE  /\ \A k, i : ReachesFree(k, i)' = ReachesFree(k, i)
         /\ \A k, d : CallsOutside(k, d)' = CallsOutside(k, d)
<1>1. \A k, i, d : Passes(k, i, d)' = Passes(k, i, d)
  BY DEF Passes
<1>2. \A k, i : ReachesFree(k, i)' = ReachesFree(k, i)
  <2>1. \A s, n, m, i : Link(s, n, m, i)' = Link(s, n, m, i)
    BY <1>1 DEF Link
  <2>2. \A s, n, k, i : IsChain(s, n, k, i)' = IsChain(s, n, k, i)
    BY <2>1 DEF IsChain
  <2>3. \A k, i : ReachesFree(k, i)' <=> \E n \in 1..k : \E s : IsChain(s, n, k, i)'
    <3>1. ASSUME NEW CONSTANT k, NEW CONSTANT i
          PROVE  (ReachesFree(k, i) <=> \E n \in 1..k : \E s : IsChain(s, n, k, i))'
      BY ChainDef, PTL
    <3> QED
      BY <3>1
  <2>4. \A k, i : ReachesFree(k, i) \in BOOLEAN /\ ReachesFree(k, i)' \in BOOLEAN
    BY DEF ReachesFree
  <2> QED
    BY <2>2, <2>3, <2>4, ChainDef
<1>3. \A k, d : CallsOutside(k, d)' = CallsOutside(k, d)
  BY DEF CallsOutside
<1> QED
  BY <1>2, <1>3

\* The function at hand is marked with the parameters that a chain through it passes to free.
LEMMA MarkedFacts ==
  ASSUME HeldInv, NotedInv, Looking("label"),
         Request(Home[F.decl]), NEW r \in Registries(Home[F.decl]),
         Home[F.decl] \notin evicted', F.body, F.decl \notin FreeDecl
  PROVE  Marked(r[1]) = [i \in 1..program[fn].params |-> ReachesFree(fn, i)]
<1> DEFINE u == Home[program[fn].decl]
           calls == program[fn].calls
<1>1. /\ program \in Programs /\ fn \in 1..Len(program) /\ fn \in Nat /\ F = program[fn]
      /\ phase = "label" /\ Upto = fn - 1 /\ evicted \subseteq Unit
  BY ProgramFacts DEF HeldInv, LabelTypeOK, Looking, F, Upto
<1>2. /\ u \in Unit /\ u \notin evicted' /\ Request(u) /\ r \in Registries(u)
  BY <1>1, ProgramFacts
<1>3. /\ evicted \subseteq evicted' /\ DOMAIN r[1] \subseteq Decl
      /\ \A d \in Decl : Home[d] = u => (d \in DOMAIN r[1] <=> d \in DOMAIN AllFreeMethods)
  BY <1>2, StaysFacts
<1>4. \A n \in DOMAIN calls : calls[n].callee \in Decl => Home[calls[n].callee] = u
  BY <1>1, CallFacts
<1>5. FreeDecl \subseteq Decl
  BY FreeAssumption
<1> DEFINE Given(n, i) == n \in DOMAIN calls /\ ~calls[n].nested /\ i \in ToSet(calls[n].args)
<1>6. ASSUME NEW i \in 1..program[fn].params
      PROVE  Marked(r[1])[i] <=> \E n \in DOMAIN calls : Given(n, i) /\ calls[n].callee \in FreeDecl \cup DOMAIN r[1]
  BY <1>1 DEF Marked, freeCalls
<1>7. ASSUME NEW i \in 1..program[fn].params, NEW d
      PROVE  Passes(fn, i, d) <=> \E n \in DOMAIN calls : Given(n, i) /\ calls[n].callee = d
  <2>1. \A x : x \in ToSet(calls) <=> \E n \in DOMAIN calls : x = calls[n]
    BY DEF ToSet
  <2> HIDE DEF calls
  <2>2. Passes(fn, i, d) <=> \E x \in ToSet(calls) : x.callee = d /\ ~x.nested /\ i \in ToSet(x.args)
    BY <1>7 DEF Passes, calls
  <2> QED
    BY <2>1, <2>2
<1> HIDE DEF Given, calls, u
<1>8. \A d \in Decl \ FreeDecl : Home[d] = u =>
        (d \in DOMAIN r[1] <=> \E k \in 1..(fn - 1) : program[k].decl = d /\ \E p : ReachesFree(k, p))
  <2>1. ASSUME NEW d \in Decl \ FreeDecl, Home[d] = u
        PROVE  d \in DOMAIN r[1] <=> \E k \in 1..(fn - 1) : program[k].decl = d /\ \E p : ReachesFree(k, p)
    <3>1. WrapperNoted(d)
      BY <1>2, <1>3, <2>1 DEF NotedInv
    <3>2. d \in DOMAIN r[1] <=>
            \E k \in 1..(fn - 1) : program[k].decl = d /\ \E i \in 1..program[k].params : ReachesFree(k, i)
      BY <1>1, <1>3, <2>1, <3>1 DEF WrapperNoted
    <3>3. ASSUME NEW k \in 1..(fn - 1), NEW p, ReachesFree(k, p) PROVE p \in 1..program[k].params
      <4>1. k \in 1..Len(program)
        BY <1>1, ProgramFacts
      <4>2. \E d2 : Passes(k, p, d2)
        BY <1>1, <3>3, <4>1, ChainStep
      <4> QED
        BY <4>2 DEF Passes
    <3> QED
      BY <3>2, <3>3
  <2> QED
    BY <2>1
<1>9. ASSUME NEW i \in 1..program[fn].params
      PROVE  Marked(r[1])[i] <=> ReachesFree(fn, i)
  <2>1. ReachesFree(fn, i) <=>
           \/ \E d \in FreeDecl : Passes(fn, i, d)
           \/ \E j \in 1..(fn - 1) : /\ \E p : ReachesFree(j, p)
                                     /\ Passes(fn, i, program[j].decl)
    BY <1>1, ChainStep
  <2>2. ASSUME Marked(r[1])[i] PROVE ReachesFree(fn, i)
    <3>1. PICK n \in DOMAIN calls : Given(n, i) /\ calls[n].callee \in FreeDecl \cup DOMAIN r[1]
      BY <1>6, <2>2
    <3>2. Passes(fn, i, calls[n].callee)
      BY <1>7, <3>1
    <3>3. CASE calls[n].callee \in FreeDecl
      BY <2>1, <3>2, <3>3
    <3>4. CASE calls[n].callee \notin FreeDecl
      <4>1. calls[n].callee \in Decl \ FreeDecl /\ Home[calls[n].callee] = u /\ calls[n].callee \in DOMAIN r[1]
        BY <1>3, <1>4, <3>1, <3>4
      <4>2. \E k \in 1..(fn - 1) : program[k].decl = calls[n].callee /\ \E p : ReachesFree(k, p)
        BY <1>8, <4>1
      <4> QED
        BY <2>1, <3>2, <4>2
    <3> QED
      BY <3>3, <3>4
  <2>3. ASSUME ReachesFree(fn, i) PROVE Marked(r[1])[i]
    <3>1. CASE \E d \in FreeDecl : Passes(fn, i, d)
      BY <1>6, <1>7, <3>1
    <3>2. CASE \E j \in 1..(fn - 1) : (\E p : ReachesFree(j, p)) /\ Passes(fn, i, program[j].decl)
      <4>1. PICK j \in 1..(fn - 1) : (\E p : ReachesFree(j, p)) /\ Passes(fn, i, program[j].decl)
        BY <3>2
      <4>2. PICK n \in DOMAIN calls : Given(n, i) /\ calls[n].callee = program[j].decl
        BY <1>7, <4>1
      <4>3. j \in 1..Len(program)
        BY <1>1, ProgramFacts
      <4>4. program[j].decl \in Decl \ FreeDecl
        BY <1>1, <4>1, <4>3, ChainStep, ProgramFacts
      <4>5. Home[program[j].decl] = u
        BY <1>4, <4>2, <4>4
      <4>6. program[j].decl \in DOMAIN r[1]
        BY <1>8, <4>1, <4>4, <4>5
      <4> QED
        BY <1>6, <4>2, <4>6
    <3> QED
      BY <2>1, <2>3, <3>1, <3>2
  <2> QED
    BY <2>2, <2>3
<1>10. \A i : ReachesFree(fn, i) \in BOOLEAN
  BY DEF ReachesFree
<1>11. Marked(r[1]) = [i \in 1..program[fn].params |-> Marked(r[1])[i]]
  BY <1>1 DEF Marked
<1>12. \A i \in 1..program[fn].params : Marked(r[1])[i] \in BOOLEAN
  BY <1>1 DEF Marked
<1>13. \A i \in 1..program[fn].params : Marked(r[1])[i] = ReachesFree(fn, i)
  BY <1>9, <1>10, <1>12
<1> QED
  BY <1>11, <1>13

\* Labelling a function notes what it should, and leaves the rest of what stays in memory.
LEMMA LabelNotes ==
  ASSUME HeldInv, NotedInv, Label
  PROVE  NotedInv'
<1> DEFINE u == Home[program[fn].decl]
<1>1. /\ program \in Programs /\ fn \in 1..Len(program) /\ fn \in Nat /\ F = program[fn]
      /\ phase = "label" /\ Upto = fn - 1 /\ Len(program) \in Nat /\ Looking("label")
  BY ProgramFacts DEF HeldInv, LabelTypeOK, Label, Looking, F, Upto
<1>2. Request(u) /\ u \in Unit
  BY <1>1, ProgramFacts DEF Label
<1>3. PICK r \in Registries(u) : AllFreeMethods' = Labelled(r[1])
  BY <1>1 DEF Label
<1>4. /\ program' = program /\ Upto' = fn
  BY <1>1 DEF Label, Upto
<1>5. /\ evicted \subseteq evicted'
      /\ \A d \in Decl : Home[d] \notin evicted' =>
              /\ d \in DOMAIN r[1] <=> d \in DOMAIN AllFreeMethods
              /\ d \in DOMAIN AllFreeMethods => r[1][d] = AllFreeMethods[d]
  BY <1>2, <1>3, StaysFacts
<1> DEFINE freed == {program[fn].calls[k].callee : k \in freeCalls(<<>>)}
           Labelling == program[fn].decl \notin FreeDecl /\ program[fn].body
           Wraps == Labelling /\ \E i \in 1..program[fn].params : Marked(r[1])[i]
           New == AllFreeMethods'
<1>6. /\ DOMAIN New = DOMAIN r[1] \cup (IF Labelling THEN freed ELSE {})
                                  \cup (IF Wraps THEN {program[fn].decl} ELSE {})
      /\ \A d \in DOMAIN New : New[d] = IF d \in DOMAIN r[1] THEN r[1][d]
                                        ELSE IF d \in freed /\ Labelling THEN <<TRUE>> ELSE Marked(r[1])
  BY <1>1, <1>3 DEF Labelled, WithFree, Noting
<1>7. \A d : d \in freed /\ Labelling <=> d \in FreeDecl /\ CallsOutside(fn, d)
  <2>1. \A k : k \in freeCalls(<<>>) <=>
          /\ k \in DOMAIN program[fn].calls
          /\ ~program[fn].calls[k].nested /\ program[fn].calls[k].callee \in FreeDecl
    BY <1>1 DEF freeCalls
  <2>2. \A d : d \in freed <=> /\ d \in FreeDecl
                               /\ \E k \in DOMAIN program[fn].calls : /\ program[fn].calls[k].callee = d
                                                                      /\ ~program[fn].calls[k].nested
    BY <2>1
  <2>3. \A c : c \in ToSet(program[fn].calls) <=> \E k \in DOMAIN program[fn].calls : c = program[fn].calls[k]
    BY DEF ToSet
  <2> HIDE DEF freed
  <2> QED
    BY <2>2, <2>3 DEF CallsOutside
<1> HIDE DEF freed, Labelling, New, u
<1>8. /\ \A k, i : ReachesFree(k, i)' = ReachesFree(k, i)
      /\ \A k, d : CallsOutside(k, d)' = CallsOutside(k, d)
  BY <1>4, ProgramOnly
<1>9. \A k \in 1..fn : k \in 1..(fn - 1) \/ k = fn
  BY <1>1
<1>10. fn \in 1..fn /\ 1..(fn - 1) \subseteq 1..fn
  BY <1>1
<1>11. ASSUME NEW d \in Decl, Home[d] \notin evicted', d \in FreeDecl PROVE FreeNoted(d)'
  <2>1. FreeNoted(d)
    BY <1>5, <1>11 DEF NotedInv
  <2>2. d = program[fn].decl => ~Wraps
    BY <1>11 DEF Labelling
  <2>3. d \in DOMAIN New <=> d \in DOMAIN AllFreeMethods \/ CallsOutside(fn, d)
    BY <1>5, <1>6, <1>7, <1>11, <2>2
  <2>4. d \in DOMAIN New <=> \E k \in 1..fn : CallsOutside(k, d)
    BY <1>1, <1>9, <1>10, <2>1, <2>3 DEF FreeNoted
  <2>5. d \in DOMAIN New => New[d] = <<TRUE>>
    BY <1>5, <1>6, <1>7, <1>11, <2>1, <2>2 DEF FreeNoted
  <2> QED
    BY <1>4, <1>8, <2>4, <2>5 DEF FreeNoted, New
<1>12. ASSUME NEW d \in Decl, Home[d] \notin evicted', d \notin FreeDecl PROVE WrapperNoted(d)'
  <2> DEFINE Ends(k) == program[k].decl = d /\ \E i \in 1..program[k].params : ReachesFree(k, i)
             Marks(k) == [i \in 1..program[k].params |-> ReachesFree(k, i)]
  <2>1. /\ d \in DOMAIN AllFreeMethods <=> \E k \in 1..(fn - 1) : Ends(k)
        /\ \A k \in 1..(fn - 1) : program[k].decl = d /\ d \in DOMAIN AllFreeMethods => AllFreeMethods[d] = Marks(k)
    <3>1. WrapperNoted(d)
      BY <1>5, <1>12 DEF NotedInv
    <3> QED
      BY <1>1, <3>1 DEF WrapperNoted
  <2>2. /\ d \in DOMAIN r[1] <=> d \in DOMAIN AllFreeMethods
        /\ d \in DOMAIN AllFreeMethods => r[1][d] = AllFreeMethods[d]
    BY <1>5, <1>12
  <2>3. d \notin freed \/ ~Labelling
    BY <1>7, <1>12
  <2>4. d \in DOMAIN New <=> d \in DOMAIN AllFreeMethods \/ (d = program[fn].decl /\ Wraps)
    BY <1>6, <2>2, <2>3
  <2>5. d \in DOMAIN New => New[d] = IF d \in DOMAIN AllFreeMethods THEN AllFreeMethods[d] ELSE Marked(r[1])
    BY <1>6, <2>2, <2>3
  <2>6. \A j, k \in 1..fn : program[j].decl = program[k].decl => j = k
    <3>1. 1..fn \subseteq 1..Len(program)
      BY <1>1
    <3> QED
      BY <1>1, <3>1, ProgramFacts
  <2>7. ASSUME d = program[fn].decl, Labelling PROVE Marked(r[1]) = Marks(fn)
    BY <1>1, <1>2, <1>3, <1>12, <2>7, MarkedFacts DEF Labelling, u
  <2>8. d = program[fn].decl => (Wraps <=> Ends(fn))
    <3>1. Ends(fn) /\ d = program[fn].decl => Labelling
      BY <1>1, ChainStep DEF Labelling
    <3> QED
      BY <2>7, <3>1
  <2>9. \A i : ReachesFree(fn, i) => Labelling
    BY <1>1, ChainStep DEF Labelling
  <2>10. d = program[fn].decl => d \notin DOMAIN AllFreeMethods
    <3>1. \A k \in 1..(fn - 1) : k # fn /\ k \in 1..fn
      BY <1>1
    <3> QED
      BY <1>10, <2>1, <2>6, <3>1
  <2> HIDE DEF Wraps
  <2>11. d \in DOMAIN New <=> \E k \in 1..fn : Ends(k)
    <3> HIDE DEF Ends
    <3>1. Ends(fn) => d = program[fn].decl
      BY DEF Ends
    <3> QED
      BY <1>9, <1>10, <2>1, <2>4, <2>8, <3>1
  <2>12. \A k \in 1..fn : program[k].decl = d /\ d \in DOMAIN New => New[d] = Marks(k)
    <3> HIDE DEF Marks, Ends
    <3>1. ASSUME NEW k \in 1..fn, program[k].decl = d, d \in DOMAIN New PROVE New[d] = Marks(k)
      <4>1. CASE k = fn
        <5>1. d \notin DOMAIN AllFreeMethods /\ Wraps
          BY <2>4, <2>10, <3>1, <4>1
        <5> QED
          BY <2>5, <2>7, <3>1, <4>1, <5>1 DEF Wraps
      <4>2. CASE k # fn
        <5>1. k \in 1..(fn - 1) /\ d # program[fn].decl
          BY <1>9, <1>10, <2>6, <3>1, <4>2
        <5> QED
          BY <2>1, <2>4, <2>5, <3>1, <5>1
      <4> QED
        BY <4>1, <4>2
    <3> QED
      BY <3>1
  <2> QED
    BY <1>4, <1>8, <2>11, <2>12 DEF WrapperNoted, New
<1> QED
  BY <1>11, <1>12 DEF NotedInv

\* A step that labels nothing leaves what is noted of the units that stay.
LEMMA KeptNotes ==
  ASSUME NotedInv, program' = program, Upto' = Upto, evicted \subseteq evicted',
         \A d \in Decl : Home[d] \notin evicted' =>
              /\ d \in DOMAIN AllFreeMethods' <=> d \in DOMAIN AllFreeMethods
              /\ d \in DOMAIN AllFreeMethods => AllFreeMethods'[d] = AllFreeMethods[d]
  PROVE  NotedInv'
<1>1. /\ \A k, i : ReachesFree(k, i)' = ReachesFree(k, i)
      /\ \A k, d : CallsOutside(k, d)' = CallsOutside(k, d)
  BY ProgramOnly
<1>2. ASSUME NEW d \in Decl, Home[d] \notin evicted', d \in FreeDecl PROVE FreeNoted(d)'
  <2>1. FreeNoted(d)
    BY <1>2 DEF NotedInv
  <2> QED
    BY <1>1, <1>2, <2>1 DEF FreeNoted
<1>3. ASSUME NEW d \in Decl, Home[d] \notin evicted', d \notin FreeDecl PROVE WrapperNoted(d)'
  <2>1. WrapperNoted(d)
    BY <1>3 DEF NotedInv
  <2> QED
    BY <1>1, <1>3, <2>1 DEF WrapperNoted
<1> QED
  BY <1>2, <1>3 DEF NotedInv

\* What the labels alone settle of what is recognised.
Recognised == SitesReach /\ CallsOfFreeFound

\* Before the labelling nothing is noted and nothing recognised.
LEMMA StartHeld ==
  ASSUME LabelInit
  PROVE  HeldInv /\ NotedInv /\ Recognised
<1> DEFINE U == Unit
           first == IF Len(ASTList) > maxSize THEN Len(ASTList) - maxSize + 1 ELSE 1
<1>1. ASTList \in Seq(U) /\ maxSize \in Nat /\ maxSize >= 1 /\ Len(ASTList) \in Nat
  BY FreeAssumption
<1>2. /\ program \in Programs /\ phase = "label" /\ fn = 1 /\ AllFreeMethods = <<>> /\ dangling = {}
      /\ sites = {} /\ labelFault = "none" /\ astQueue = SubSeq(ASTList, first, Len(ASTList))
      /\ evicted = Unit \ ToSet(astQueue)
  BY DEF LabelInit
<1> HIDE DEF U
<1>3. first \in 1..(Len(ASTList) + 1) /\ Len(ASTList) + 1 - first <= maxSize
  BY <1>1
<1> HIDE DEF first
<1>4. astQueue \in Seq(U) /\ Len(astQueue) = Len(ASTList) + 1 - first
  BY <1>1, <1>2, <1>3, SuffixFacts
<1>5. fn \in 1..(Len(program) + 1) /\ Upto = 0
  BY <1>2, ProgramFacts DEF Upto
<1>6. DOMAIN AllFreeMethods = {}
  BY <1>2
<1>7. HeldInv
  <2>1. LabelTypeOK
    BY <1>1, <1>2, <1>3, <1>4, <1>5, <1>6 DEF LabelTypeOK, U
  <2> QED
    BY <1>2, <2>1 DEF HeldInv, Held
<1>8. NotedInv
  <2>1. \A k \in 1..0 : FALSE
    OBVIOUS
  <2>2. \A d : FreeNoted(d) /\ WrapperNoted(d)
    BY <1>5, <1>6, <2>1, Zenon DEF FreeNoted, WrapperNoted
  <2> QED
    BY <2>2 DEF NotedInv
<1>9. Recognised
  BY <1>2 DEF Recognised, CallsOfFreeFound, SitesReach, Recorded, CalleeOf, Checked
<1> QED
  BY <1>7, <1>8, <1>9

\* Labelling a function notes declarations of units in memory.
LEMMA LabelHolds ==
  ASSUME HeldInv, Label
  PROVE  HeldInv' /\ Recognised'
<1> DEFINE u == Home[program[fn].decl]
           B == Seq(BOOLEAN)
<1>1. /\ program \in Programs /\ fn \in 1..Len(program) /\ fn \in Nat /\ F = program[fn]
      /\ phase = "label" /\ Len(program) \in Nat
      /\ program[fn].decl \in Decl /\ program[fn].params \in Nat
      /\ labelFault = "none" /\ sites = {}
  BY ProgramFacts DEF HeldInv, LabelTypeOK, Label, Looking, F
<1>2. Request(u) /\ u \in Unit
  BY <1>1, ProgramFacts DEF Label
<1>3. PICK r \in Registries(u) : AllFreeMethods' = Labelled(r[1]) /\ dangling' = r[2]
  BY <1>1 DEF Label
<1>4. /\ program' = program /\ fn' = fn + 1 /\ phase' = phase /\ sites' = sites /\ labelFault' = labelFault
  BY <1>1 DEF Label
<1>5. /\ u \in Held' /\ astQueue' \in Seq(Unit) /\ Len(astQueue') <= maxSize
      /\ evicted' \subseteq Unit /\ Unit \subseteq Held' \cup evicted'
      /\ DOMAIN r[1] \subseteq {d \in Decl : Home[d] \in Held'}
      /\ \A d \in DOMAIN r[1] : r[1][d] \in B
      /\ dangling' \subseteq B
  BY <1>2, <1>3, StaysFacts
<1> DEFINE freed == {program[fn].calls[k].callee : k \in freeCalls(<<>>)}
           New == AllFreeMethods'
<1>6. /\ DOMAIN New \subseteq DOMAIN r[1] \cup freed \cup {program[fn].decl}
      /\ \A d \in DOMAIN New : \/ d \in DOMAIN r[1] /\ New[d] = r[1][d]
                               \/ New[d] = <<TRUE>> \/ New[d] = Marked(r[1])
  BY <1>1, <1>3 DEF Labelled, WithFree, Noting
<1>7. freed \subseteq {d \in Decl : Home[d] = u}
  <2>1. \A k \in freeCalls(<<>>) : k \in DOMAIN program[fn].calls /\ program[fn].calls[k].callee \in FreeDecl
    BY <1>1 DEF freeCalls
  <2>2. FreeDecl \subseteq Decl
    BY FreeAssumption
  <2>3. \A k \in DOMAIN program[fn].calls : program[fn].calls[k].callee \in Decl =>
          Home[program[fn].calls[k].callee] = u
    BY <1>1, CallFacts
  <2> QED
    BY <2>1, <2>2, <2>3
<1>8. <<TRUE>> \in B
  OBVIOUS
<1>9. Marked(r[1]) \in B
  <2>1. Marked(r[1]) \in [1..program[fn].params -> BOOLEAN]
    BY <1>1 DEF Marked
  <2>2. \A n \in Nat : \A f \in [1..n -> BOOLEAN] : f \in B
    OBVIOUS
  <2> QED
    BY <1>1, <2>1, <2>2
<1> HIDE DEF freed, New, u, B
<1>10. DOMAIN New \subseteq {d \in Decl : Home[d] \in Held'}
  BY <1>1, <1>5, <1>6, <1>7 DEF u
<1>11. \A d \in DOMAIN New : New[d] \in B
  BY <1>5, <1>6, <1>8, <1>9
<1>12. fn' \in 1..(Len(program') + 1)
  BY <1>1, <1>4
<1>13. LabelTypeOK'
  BY <1>1, <1>4, <1>5, <1>10, <1>11, <1>12 DEF LabelTypeOK, New, B
<1>14. Recognised'
  BY <1>1, <1>4 DEF Recognised, CallsOfFreeFound, SitesReach, Recorded, CalleeOf, Checked
<1> QED
  BY <1>1, <1>4, <1>5, <1>13, <1>14 DEF HeldInv

\* The notes stay when check starts on the functions again.
LEMMA LabellingOverHolds ==
  ASSUME HeldInv, NotedInv, LabellingOver
  PROVE  HeldInv' /\ NotedInv' /\ Recognised'
<1>1. /\ phase = "label" /\ fn > Len(program) /\ phase' = "check" /\ fn' = 1 /\ program' = program
      /\ astQueue' = astQueue /\ AllFreeMethods' = AllFreeMethods /\ dangling' = dangling
      /\ sites' = sites /\ labelFault' = labelFault /\ evicted' = evicted
  BY DEF LabellingOver, registry
<1>2. /\ program \in Programs /\ LabelTypeOK /\ Unit \subseteq Held \cup evicted
      /\ labelFault = "none" /\ sites = {} /\ fn \in 1..(Len(program) + 1) /\ Len(program) \in Nat
  BY <1>1, ProgramFacts DEF HeldInv, LabelTypeOK
<1>3. Upto' = Upto
  BY <1>1, <1>2 DEF Upto
<1>4. fn' \in 1..(Len(program') + 1)
  BY <1>1, <1>2
<1>5. Held' = Held
  BY <1>1 DEF Held
<1>6. HeldInv'
  <2>1. LabelTypeOK'
    BY <1>1, <1>2, <1>4, <1>5 DEF LabelTypeOK
  <2> QED
    BY <1>1, <1>2, <1>5, <2>1 DEF HeldInv
<1>7. NotedInv'
  BY <1>1, <1>3, KeptNotes
<1>8. Recognised'
  <2>1. Checked' = {}
    BY <1>1 DEF Checked
  <2> QED
    BY <1>1, <1>2, <2>1 DEF Recognised, CallsOfFreeFound, SitesReach, Recorded, CalleeOf
<1> QED
  BY <1>6, <1>7, <1>8

\* In a unit that has not left memory the calls that are looked up in the registry have the
\* arguments noted there, and free them.
LEMMA NotedCalls ==
  ASSUME HeldInv, NotedInv, Looking("check"),
         Request(Home[F.decl]), NEW r \in Registries(Home[F.decl]),
         Home[F.decl] \notin evicted', NEW n \in DOMAIN program[fn].calls
  PROVE  LET c == program[fn].calls[n] IN
         /\ c.callee \in DOMAIN r[1] =>
              /\ FreedArgs(c, r[1]) \subseteq DOMAIN c.args
              /\ \/ c.callee \in FreeDecl /\ FreedArgs(c, r[1]) = {1}
                 \/ \E k \in DOMAIN program :
                      program[k].decl = c.callee /\ \A i \in FreedArgs(c, r[1]) : ReachesFree(k, i)
         /\ c.callee \in FreeDecl /\ CalledOutside(c.callee) =>
              c.callee \in DOMAIN r[1] /\ FreedArgs(c, r[1]) = {1}
<1> DEFINE u == Home[program[fn].decl]
           c == program[fn].calls[n]
           d == c.callee
<1>1. /\ program \in Programs /\ fn \in 1..Len(program) /\ F = program[fn]
      /\ Upto = Len(program) /\ DOMAIN program = 1..Len(program) /\ Len(program) \in Nat
  BY ProgramFacts DEF HeldInv, LabelTypeOK, Looking, F, Upto
<1>2. /\ u \in Unit /\ u \notin evicted' /\ Request(u) /\ r \in Registries(u)
  BY <1>1, ProgramFacts
<1>3. /\ evicted \subseteq evicted' /\ DOMAIN r[1] \subseteq Decl
      /\ \A e \in Decl : Home[e] \notin evicted' =>
            /\ e \in DOMAIN r[1] <=> e \in DOMAIN AllFreeMethods
            /\ e \in DOMAIN AllFreeMethods => r[1][e] = AllFreeMethods[e]
  BY <1>2, StaysFacts
<1>4. /\ d \in Decl => Home[d] = u
      /\ d \in FreeDecl => 1 \in DOMAIN c.args
      /\ \A j \in 1..Len(program) : d = program[j].decl => 1..program[j].params \subseteq DOMAIN c.args
  BY <1>1, CallFacts
<1>5. FreeDecl \subseteq Decl
  BY FreeAssumption
<1>6. FreedArgs(c, r[1]) = {i \in DOMAIN r[1][d] : r[1][d][i]}
  BY DEF FreedArgs
<1>7. \A e : CalledOutside(e) <=> \E k \in 1..Len(program) : CallsOutside(k, e)
  BY <1>1 DEF CalledOutside, CallsOutside
<1> HIDE DEF u, c, d
<1>8. ASSUME d \in Decl
      PROVE  /\ Home[d] \notin evicted
             /\ d \in DOMAIN r[1] <=> d \in DOMAIN AllFreeMethods
             /\ d \in DOMAIN AllFreeMethods => r[1][d] = AllFreeMethods[d]
  BY <1>2, <1>3, <1>4, <1>8
<1>9. ASSUME d \in FreeDecl
      PROVE  /\ d \in DOMAIN r[1] => FreedArgs(c, r[1]) = {1}
             /\ CalledOutside(d) => d \in DOMAIN r[1]
  <2>1. FreeNoted(d)
    BY <1>5, <1>8, <1>9 DEF NotedInv
  <2>2. d \in DOMAIN r[1] => r[1][d] = <<TRUE>>
    BY <1>5, <1>8, <1>9, <2>1 DEF FreeNoted
  <2>3. {i \in DOMAIN <<TRUE>> : <<TRUE>>[i]} = {1}
    <3>1. DOMAIN <<TRUE>> = {1} /\ <<TRUE>>[1] = TRUE
      OBVIOUS
    <3> QED
      BY <3>1
  <2>4. CalledOutside(d) => d \in DOMAIN r[1]
    BY <1>1, <1>5, <1>7, <1>8, <1>9, <2>1 DEF FreeNoted
  <2> QED
    BY <1>6, <2>2, <2>3, <2>4
<1>10. ASSUME d \notin FreeDecl, d \in DOMAIN r[1]
       PROVE  \E k \in 1..Len(program) :
                /\ program[k].decl = d /\ FreedArgs(c, r[1]) \subseteq 1..program[k].params
                /\ \A i \in FreedArgs(c, r[1]) : ReachesFree(k, i)
  <2>1. d \in Decl /\ WrapperNoted(d)
    BY <1>3, <1>8, <1>10 DEF NotedInv
  <2>2. d \in DOMAIN AllFreeMethods /\ r[1][d] = AllFreeMethods[d]
    BY <1>8, <1>10, <2>1
  <2>3. PICK k \in 1..Len(program) : program[k].decl = d
    BY <1>1, <2>1, <2>2 DEF WrapperNoted
  <2>4. AllFreeMethods[d] = [i \in 1..program[k].params |-> ReachesFree(k, i)]
    BY <1>1, <2>1, <2>2, <2>3 DEF WrapperNoted
  <2>5. \A i \in FreedArgs(c, r[1]) : i \in 1..program[k].params /\ ReachesFree(k, i)
    BY <1>6, <2>2, <2>4
  <2> QED
    BY <2>3, <2>5
<1>11. ASSUME d \in DOMAIN r[1]
       PROVE  /\ FreedArgs(c, r[1]) \subseteq DOMAIN c.args
              /\ \/ d \in FreeDecl /\ FreedArgs(c, r[1]) = {1}
                 \/ \E k \in DOMAIN program :
                      program[k].decl = d /\ \A i \in FreedArgs(c, r[1]) : ReachesFree(k, i)
  <2>1. CASE d \in FreeDecl
    BY <1>4, <1>9, <1>11, <2>1
  <2>2. CASE d \notin FreeDecl
    <3>1. PICK k \in 1..Len(program) :
            /\ program[k].decl = d /\ FreedArgs(c, r[1]) \subseteq 1..program[k].params
            /\ \A i \in FreedArgs(c, r[1]) : ReachesFree(k, i)
      BY <1>10, <1>11, <2>2
    <3>2. 1..program[k].params \subseteq DOMAIN c.args
      BY <1>4, <3>1
    <3> QED
      BY <1>1, <3>1, <3>2
  <2> QED
    BY <2>1, <2>2
<1> QED
  BY <1>9, <1>11 DEF c, d

\* One function in check: its freeing calls are those that the notes name, whatever was
\* evicted for it.
LEMMA CheckHolds ==
  ASSUME HeldInv, NotedInv, Recognised, Check
  PROVE  HeldInv' /\ NotedInv' /\ Recognised'
<1> DEFINE u == Home[program[fn].decl]
           call(n) == program[fn].calls[n]
<1>1. /\ program \in Programs /\ fn \in 1..Len(program) /\ fn \in Nat /\ F = program[fn]
      /\ phase = "check" /\ Len(program) \in Nat /\ Upto = Len(program) /\ Looking("check")
      /\ labelFault = "none" /\ DOMAIN program = 1..Len(program)
  BY ProgramFacts DEF HeldInv, LabelTypeOK, Check, Looking, F, Upto
<1>2. Request(u) /\ u \in Unit
  BY <1>1, ProgramFacts DEF Check
<1> DEFINE Asks(r) == Examined(program[fn]) /\ \E n \in Noted(r) :
                        ~(FreedArgs(call(n), r) \subseteq DOMAIN call(n).args)
           Found(r) == {<<fn, n, FreedArgs(call(n), r)>> :
                          n \in {j \in Noted(r) : Examined(program[fn])}}
<1>3. PICK r \in Registries(u) :
        /\ AllFreeMethods' = r[1] /\ dangling' = r[2]
        /\ IF Asks(r[1]) THEN labelFault' = "getArg" /\ sites' = sites
           ELSE sites' = sites \cup Found(r[1]) /\ labelFault' = labelFault
  BY <1>1 DEF Check
<1>4. program' = program /\ fn' = fn + 1 /\ phase' = phase /\ Upto' = Upto
  BY <1>1 DEF Check, Upto
<1>5. /\ u \in Held' /\ astQueue' \in Seq(Unit) /\ Len(astQueue') <= maxSize
      /\ evicted \subseteq evicted'
      /\ evicted' \subseteq Unit /\ Unit \subseteq Held' \cup evicted'
      /\ DOMAIN r[1] \subseteq {d \in Decl : Home[d] \in Held'}
      /\ \A d \in DOMAIN r[1] : r[1][d] \in Seq(BOOLEAN)
      /\ r[2] \subseteq Seq(BOOLEAN)
      /\ \A d \in Decl : Home[d] \notin evicted' =>
              /\ d \in DOMAIN r[1] <=> d \in DOMAIN AllFreeMethods
              /\ d \in DOMAIN AllFreeMethods => r[1][d] = AllFreeMethods[d]
  BY <1>2, <1>3, StaysFacts
<1>6. HeldInv'
  <2>1. fn' \in 1..(Len(program') + 1)
    BY <1>1, <1>4
  <2>2. labelFault' \in {"none", "getArg"}
    BY <1>1, <1>3
  <2>3. LabelTypeOK'
    BY <1>1, <1>3, <1>4, <1>5, <2>1, <2>2 DEF LabelTypeOK
  <2> QED
    BY <1>1, <1>4, <1>5, <2>3 DEF HeldInv
<1>7. NotedInv'
  BY <1>3, <1>4, <1>5, KeptNotes
<1> HIDE DEF Asks, Found
<1>8. \A k : UnitOf(k)' = UnitOf(k)
  BY <1>4 DEF UnitOf
<1>9. UnitOf(fn) = u /\ fn' - 1 = fn
  BY <1>1, <1>4 DEF UnitOf
<1>10. /\ \A k, i : ReachesFree(k, i)' = ReachesFree(k, i)
       /\ \A d : CalledOutside(d)' = CalledOutside(d)
  <2>1. \A d : CalledOutside(d)' = CalledOutside(d)
    BY <1>4 DEF CalledOutside
  <2> QED
    BY <1>4, <2>1, ProgramOnly
<1>11. ASSUME u \notin evicted' PROVE ~Asks(r[1])
  <2>1. \A n \in Noted(r[1]) : n \in DOMAIN program[fn].calls /\ call(n).callee \in DOMAIN r[1]
    BY <1>1 DEF Noted
  <2>2. \A n \in DOMAIN program[fn].calls : call(n).callee \in DOMAIN r[1] =>
          FreedArgs(call(n), r[1]) \subseteq DOMAIN call(n).args
    BY <1>1, <1>2, <1>3, <1>11, NotedCalls
  <2> QED
    BY <2>1, <2>2 DEF Asks
<1> DEFINE Reached(s) ==
             LET d == program[s[1]].calls[s[2]].callee
             IN \/ d \in FreeDecl /\ s[3] = {1}
                \/ \E k \in DOMAIN program : program[k].decl = d /\ \A i \in s[3] : ReachesFree(k, i)
<1>12. ASSUME u \notin evicted', NEW s \in Found(r[1]) PROVE s[1] = fn /\ Reached(s)
  <2>1. PICK n \in Noted(r[1]) : s = <<fn, n, FreedArgs(call(n), r[1])>>
    BY <1>12 DEF Found
  <2>2. n \in DOMAIN program[fn].calls /\ call(n).callee \in DOMAIN r[1]
    BY <1>1, <2>1 DEF Noted
  <2>3. \/ call(n).callee \in FreeDecl /\ FreedArgs(call(n), r[1]) = {1}
        \/ \E k \in DOMAIN program : program[k].decl = call(n).callee
                                     /\ \A i \in FreedArgs(call(n), r[1]) : ReachesFree(k, i)
    BY <1>1, <1>2, <1>3, <1>12, <2>2, NotedCalls
  <2>4. s[1] = fn /\ s[2] = n /\ s[3] = FreedArgs(call(n), r[1])
    BY <2>1
  <2> QED
    BY <2>3, <2>4
<1>13. \A s \in Found(r[1]) : s[1] = fn
  BY DEF Found
<1>14. \A s \in sites : UnitOf(s[1]) \notin evicted => Reached(s)
  BY DEF Recognised, CallsOfFreeFound, SitesReach, Recorded, CalleeOf
<1>15. sites' \subseteq sites \cup Found(r[1])
  BY <1>3
<1>16. SitesReach'
  <2>1. labelFault' # "none" => Home[program'[fn' - 1].decl] \in evicted'
    BY <1>1, <1>3, <1>4, <1>9, <1>11
  <2>2. \A s \in sites' : UnitOf(s[1]) \notin evicted' => Reached(s)
    <3>1. ASSUME NEW s \in sites', UnitOf(s[1]) \notin evicted' PROVE Reached(s)
      <4>1. CASE s \in sites
        BY <1>5, <1>14, <3>1, <4>1
      <4>2. CASE s \in Found(r[1])
        BY <1>9, <1>12, <1>13, <3>1, <4>2
      <4> QED
        BY <1>15, <3>1, <4>1, <4>2
    <3> QED
      BY <3>1
  <2> QED
    BY <1>4, <1>8, <1>10, <2>1, <2>2 DEF SitesReach, Recorded, CalleeOf, UnitOf
<1>17. ASSUME labelFault' = "none",
              NEW k \in 1..fn, Examined(program[k]), UnitOf(k) \notin evicted',
              NEW n \in DOMAIN program[k].calls,
              program[k].calls[n].callee \in FreeDecl, CalledOutside(program[k].calls[n].callee)
       PROVE  <<k, n, {1}>> \in sites'
  <2>1. sites' = sites \cup Found(r[1])
    BY <1>3, <1>17
  <2>2. CASE k = fn
    <3>1. call(n).callee \in DOMAIN r[1] /\ FreedArgs(call(n), r[1]) = {1}
      <4>1. n \in DOMAIN program[fn].calls /\ u \notin evicted'
        BY <1>9, <1>17, <2>2
      <4>2. call(n).callee \in FreeDecl /\ CalledOutside(call(n).callee)
        BY <1>17, <2>2
      <4>3. call(n).callee \in FreeDecl /\ CalledOutside(call(n).callee) =>
              call(n).callee \in DOMAIN r[1] /\ FreedArgs(call(n), r[1]) = {1}
        BY <1>1, <1>2, <1>3, <4>1, NotedCalls
      <4> QED
        BY <4>2, <4>3
    <3>2. n \in Noted(r[1])
      BY <1>1, <1>17, <2>2, <3>1 DEF Noted
    <3>3. <<fn, n, FreedArgs(call(n), r[1])>> \in Found(r[1])
      BY <1>17, <2>2, <3>2 DEF Found
    <3> QED
      BY <2>1, <2>2, <3>1, <3>3
  <2>3. CASE k # fn
    <3>1. k \in Checked /\ UnitOf(k) \notin evicted
      BY <1>1, <1>5, <1>17, <2>3 DEF Checked
    <3> QED
      BY <1>1, <1>17, <2>1, <3>1 DEF Recognised, CallsOfFreeFound
  <2> QED
    BY <2>2, <2>3
<1>18. Checked' = 1..fn
  BY <1>1, <1>4 DEF Checked
<1>19. \A f : Examined(f)' = Examined(f)
  BY DEF Examined
<1>20. Recognised'
  BY <1>4, <1>8, <1>10, <1>16, <1>17, <1>18, <1>19 DEF Recognised, CallsOfFreeFound
<1> QED
  BY <1>6, <1>7, <1>20

\* What is left to a unit that stays in memory is what the labels say.
LEMMA NotesSound ==
  ASSUME HeldInv, NotedInv
  PROVE  RegistrySound
<1>1. LabelTypeOK /\ program \in Programs /\ DOMAIN program = 1..Len(program)
  BY ProgramFacts DEF HeldInv
<1>2. ASSUME phase = "check", NEW k \in DOMAIN program,
             Home[program[k].decl] \notin evicted, program[k].decl \notin FreeDecl
      PROVE  LET d == program[k].decl
                 chained == {i \in 1..program[k].params : ReachesFree(k, i)}
             IN IF chained = {} THEN d \notin DOMAIN AllFreeMethods
                ELSE /\ d \in DOMAIN AllFreeMethods
                     /\ {i \in DOMAIN AllFreeMethods[d] : AllFreeMethods[d][i]} = chained
  <2> DEFINE d == program[k].decl
             chained == {i \in 1..program[k].params : ReachesFree(k, i)}
  <2>1. Upto = Len(program) /\ k \in 1..Len(program) /\ d \in Decl
    BY <1>1, <1>2, ProgramFacts DEF Upto
  <2>2. WrapperNoted(d)
    BY <1>2, <2>1 DEF NotedInv
  <2>3. \A j \in 1..Len(program) : program[j].decl = d => j = k
    BY <1>1, <2>1, ProgramFacts
  <2>4. d \in DOMAIN AllFreeMethods <=> chained # {}
    BY <2>1, <2>2, <2>3 DEF WrapperNoted
  <2>5. d \in DOMAIN AllFreeMethods => AllFreeMethods[d] = [i \in 1..program[k].params |-> ReachesFree(k, i)]
    BY <2>1, <2>2 DEF WrapperNoted
  <2>6. \A i : ReachesFree(k, i) \in BOOLEAN
    BY DEF ReachesFree
  <2>7. d \in DOMAIN AllFreeMethods => {i \in DOMAIN AllFreeMethods[d] : AllFreeMethods[d][i]} = chained
    BY <2>5, <2>6
  <2> QED
    BY <2>4, <2>7
<1> QED
  BY <1>1, <1>2 DEF RegistrySound, LabelsChains

\* Every step of the labelling and of the look-up keeps the invariant.
LEMMA LabelsStep ==
  ASSUME HeldInv, NotedInv, Recognised, [LabelNext]_(labelVars)
  PROVE  HeldInv' /\ NotedInv' /\ Recognised'
<1>1. CASE Label
  BY <1>1, LabelHolds, LabelNotes
<1>2. CASE LabellingOver
  BY <1>2, LabellingOverHolds
<1>3. CASE Check
  BY <1>3, CheckHolds
<1>4. CASE UNCHANGED labelVars
  <2>1. /\ program' = program /\ phase' = phase /\ fn' = fn /\ astQueue' = astQueue
        /\ AllFreeMethods' = AllFreeMethods /\ dangling' = dangling
        /\ sites' = sites /\ labelFault' = labelFault /\ evicted' = evicted
    BY <1>4 DEF labelVars, registry
  <2>2. Held' = Held /\ Upto' = Upto
    BY <2>1 DEF Held, Upto
  <2>3. HeldInv'
    BY <2>1, <2>2 DEF HeldInv, LabelTypeOK
  <2>4. NotedInv'
    BY <2>1, <2>2, KeptNotes
  <2>5. /\ \A k, i : ReachesFree(k, i)' = ReachesFree(k, i)
        /\ \A d : CalledOutside(d)' = CalledOutside(d)
    <3>1. \A d : CalledOutside(d)' = CalledOutside(d)
      BY <2>1 DEF CalledOutside
    <3> QED
      BY <2>1, <3>1, ProgramOnly
  <2>6. /\ \A k : UnitOf(k)' = UnitOf(k)
        /\ Checked' = Checked
    BY <2>1 DEF UnitOf, Checked
  <2>7. SitesReach'
    BY <2>1, <2>5, <2>6 DEF Recognised, CallsOfFreeFound, SitesReach, Recorded, CalleeOf
  <2>8. Recognised'
    BY <2>1, <2>5, <2>6, <2>7 DEF Recognised, CallsOfFreeFound, Examined
  <2> QED
    BY <2>3, <2>4, <2>8
<1> QED
  BY <1>1, <1>2, <1>3, <1>4 DEF LabelNext

\* lableAllFreeMethod and check keep the registry right for the units that stay in memory,
\* for any functions, units and room, and whatever comes to lie where a freed entry was.
THEOREM LabellingInvariant ==
  LabelSpec => [](HeldInv /\ NotedInv /\ Recognised)
<1>1. LabelInit => HeldInv /\ NotedInv /\ Recognised
  BY StartHeld
<1>2. (HeldInv /\ NotedInv /\ Recognised) /\ [LabelNext]_(labelVars) =>
         (HeldInv /\ NotedInv /\ Recognised)'
  BY LabelsStep
<1> QED
  BY <1>1, <1>2, PTL DEF LabelSpec

\* The labels of lableAllFreeMethod are the chains of functions that end in free, each of
\* which comes before its caller, in every unit that has not left memory.
THEOREM RegistryAlwaysSound ==
  LabelSpec => []RegistrySound
<1>1. HeldInv /\ NotedInv /\ Recognised => RegistrySound
  BY NotesSound
<1> QED
  BY <1>1, LabellingInvariant, PTL

\* Where calls are aligned, a parameter at the end of a chain to free is freed: the function
\* that hands it on does so where the next one frees it.
LEMMA ChainFrees ==
  ASSUME program \in Programs, Aligned, NEW k \in 1..Len(program), NEW i, ReachesFree(k, i)
  PROVE  Frees(k, i)
<1> SUFFICES ASSUME NEW X \in SUBSET Parameters, Closed(X) PROVE <<k, i>> \in X
  BY DEF Frees
<1>1. DOMAIN program = 1..Len(program)
  BY ProgramFacts
<1>2. \/ \E d \in FreeDecl : Passes(k, i, d)
      \/ \E j \in 1..(k - 1) : (\E q : ReachesFree(j, q)) /\ Passes(k, i, program[j].decl)
  BY ChainStep
<1>3. PICK d : /\ Passes(k, i, d)
              /\ \/ d \in FreeDecl
                 \/ \E j \in 1..(k - 1) : (\E q : ReachesFree(j, q)) /\ d = program[j].decl
  BY <1>2
<1>4. PICK c \in ToSet(program[k].calls) :
        c.callee = d /\ ~c.nested /\ i \in ToSet(c.args) /\ i \in 1..program[k].params
  BY <1>3 DEF Passes
<1>5. PICK p \in DOMAIN c.args : c.args[p] = i
  BY <1>4 DEF ToSet
<1>6. <<k, i>> \in Parameters
  BY <1>1, <1>4 DEF Parameters
<1>7. \/ c.callee \in FreeDecl /\ p = 1
      \/ \E j \in DOMAIN program : program[j].decl = c.callee /\ <<j, p>> \in X
  <2>1. CASE d \in FreeDecl
    BY <1>1, <1>4, <1>5, <2>1 DEF Aligned
  <2>2. ASSUME NEW j \in 1..(k - 1), NEW q, ReachesFree(j, q), d = program[j].decl
        PROVE  \E l \in DOMAIN program : program[l].decl = c.callee /\ <<l, p>> \in X
    <3>1. j \in DOMAIN program /\ j \in 1..Len(program)
      BY <1>1, ProgramFacts
    <3>2. q \in 1..program[j].params
      <4>1. \E e : Passes(j, q, e)
        BY <2>2, <3>1, ChainStep
      <4> QED
        BY <4>1 DEF Passes
    <3>3. Frees(j, p)
      BY <1>1, <1>4, <1>5, <2>2, <3>1, <3>2 DEF Aligned
    <3> QED
      BY <1>4, <2>2, <3>1, <3>3 DEF Frees
  <2> QED
    BY <1>3, <2>1, <2>2
<1>8. \A x \in Parameters : \A y \in ToSet(program[x[1]].calls) : \A m \in DOMAIN y.args :
        /\ y.args[m] = x[2]
        /\ \/ y.callee \in FreeDecl /\ m = 1
           \/ \E j \in DOMAIN program : program[j].decl = y.callee /\ <<j, m>> \in X
        => x \in X
  BY DEF Closed
<1> DEFINE x == <<k, i>>
<1>9. x \in Parameters /\ x[1] = k /\ x[2] = i
  BY <1>6
<1> HIDE DEF x
<1>10. x \in X
  BY <1>4, <1>5, <1>7, <1>8, <1>9
<1> QED
  BY <1>10 DEF x

\* In a unit that has not left memory check misses no call of free that is also called
\* outside the arguments of other calls, and takes no call for a freeing one from which no
\* chain of calls leads to free; where parameters are handed on at the arguments that are
\* freed, those noted are freed.
THEOREM FreesAlwaysRecognised ==
  LabelSpec => []FreesRecognised
<1>1. HeldInv /\ Recognised => FreesRecognised
  <2> SUFFICES ASSUME HeldInv, Recognised, Aligned, NEW s \in Recorded
               PROVE  \/ CalleeOf(s) \in FreeDecl
                      \/ \E k \in DOMAIN program :
                           program[k].decl = CalleeOf(s) /\ \A i \in s[3] : Frees(k, i)
    BY DEF FreesRecognised, Recognised, SitesFree
  <2>1. program \in Programs /\ DOMAIN program = 1..Len(program)
    BY ProgramFacts DEF HeldInv
  <2>2. \/ CalleeOf(s) \in FreeDecl
        \/ \E k \in DOMAIN program :
             program[k].decl = CalleeOf(s) /\ \A i \in s[3] : ReachesFree(k, i)
    BY DEF Recognised, SitesReach
  <2> QED
    BY <2>1, <2>2, ChainFrees
<1> QED
  BY <1>1, LabellingInvariant, PTL

===============================================================================
