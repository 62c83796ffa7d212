--------------------------- MODULE BorrowedReference ---------------------------
(***************************************************************************)
(* borrowed_reference_checker: one walk over the blocks of every function. *)
(* A variable that gets its value from a function that returns a borrowed  *)
(* reference enters borrowedRefVars, a new value or a checked use takes it *)
(* out, and any other statement that mentions it is reported.  The map is  *)
(* a member of the checker: what a function leaves in it is there when the *)
(* next one is examined, and its keys are pointers into the syntax tree    *)
(* of a unit that the ASTManager may have freed by then.                   *)
(*                                                                         *)
(* A statement is a term t of its syntax tree: t.op says what it is, t.var *)
(* is the variable that a "ref" names or a "decl" declares, t.fun the kind *)
(* of function a "call" calls, and t.sub has the operands.  A "cast" is    *)
(* one that is written, in the style of C; "implicit" are the others, and  *)
(* parentheses.  A statement that calls a function to be skipped contains  *)
(* the name of it, so :139 never skips one that :77 lets through.          *)
(***************************************************************************)
EXTENDS BlockWorklist, Filters

CONSTANTS
  ASTList,   \* the translation units, in the order in which they are loaded at first
  Term,      \* the statements and their operands
  Home,      \* Home[v]: the unit that has the declaration of v
  Programs,  \* the sequences of functions to be checked
  maxSize    \* the units that ASTManager holds at once

Unit == ToSet(ASTList)

\* A function: its unit, its graph, the statements of its blocks, and whether check
\* passes it over because it has no body or stands in a header.
Function == [unit : Unit, graph : Graph, body : [Block -> Seq(Term)], passed : BOOLEAN]

VARIABLES
  program,         \* the functions
  fn,              \* the function at hand, 0 before the first
  iter,            \* the statement of block at hand
  astQueue,        \* the units in memory, the next victim first
  borrowedRefVars, \* the borrowed variables, with the statement they were borrowed in
  dangling,        \* the statements of the keys whose variable has been freed
  reports,         \* what was reported: a use, its variable and where that was borrowed
  fault            \* "dangling" once a freed variable was asked for its name

others == <<program, fn, iter, astQueue, borrowedRefVars, dangling, reports, fault>>
borrowVars == <<walk, others>>

BorrowInit ==
  /\ program \in Programs
  /\ fn = 0
  /\ WalkInit
  /\ iter = 1
  /\ astQueue = SubSeq(ASTList, IF Len(ASTList) > maxSize THEN Len(ASTList) - maxSize + 1 ELSE 1,
                      Len(ASTList))
  /\ borrowedRefVars = <<>>
  /\ dangling = {}
  /\ reports = {}
  /\ fault = "none"

-----------------------------------------------------------------------------
(* What the checker sees in a statement.                                   *)

\* The variables the statement refers to.
FindVarDeclRef[t \in Term] ==
  (IF t.op = "ref" THEN {t.var} ELSE {}) \cup UNION {FindVarDeclRef[t.sub[k]] : k \in DOMAIN t.sub}

\* The kinds of function whose names occur in its text.
NamesIn[t \in Term] ==
  (IF t.op = "call" THEN {t.fun} ELSE {}) \cup UNION {NamesIn[t.sub[k]] : k \in DOMAIN t.sub}
hasSkipedFunctions(t) == "skip" \in NamesIn[t]
hasCheckFunctions(t) == "check" \in NamesIn[t]

IgnoreCasts[t \in Term] == IF t.op \in {"cast", "implicit"} THEN IgnoreCasts[t.sub[1]] ELSE t

\* The variable that getFirstArg comes to, Null for none: down the first argument of
\* every call, be it that of a check function or not.  For calls, implicit casts are not
\* looked through.
getFirstArg[t \in Term] ==
  LET s == IgnoreCasts[t]
  IN CASE s.op = "ref" -> s.var
       [] s.op \in {"not", "unary", "member"} -> getFirstArg[s.sub[1]]
       [] s.op \in {"assign", "eq", "binary"} ->
            IF \E k \in 1..2 : hasCheckFunctions(s.sub[k])
            THEN getFirstArg[s.sub[CHOOSE k \in 1..2 : /\ hasCheckFunctions(s.sub[k])
                                                       /\ k = 2 => ~hasCheckFunctions(s.sub[1])]]
            ELSE Null
       [] t.op = "call" -> IF t.sub = <<>> THEN Null ELSE getFirstArg[IgnoreCasts[t.sub[1]]]
       [] t.op = "cast" /\ s.op \notin {"ref", "not", "unary", "member", "assign", "eq", "binary"} ->
            getFirstArg[t.sub[1]]
       [] OTHER -> Null

IsExpr(t) == t.op \notin {"decl", "return"}

\* borrowedrefdecl: the variable that a declaration or an assignment gives a value.
Given(t) ==
  CASE t.op = "decl" -> t.var
    [] t.op = "assign" /\ IgnoreCasts[t.sub[1]].op = "ref" -> IgnoreCasts[t.sub[1]].var
    [] OTHER -> Null

roperand(t) ==
  CASE t.op = "decl" /\ t.sub # <<>> -> IgnoreCasts[t.sub[1]]
    [] t.op = "assign" -> IgnoreCasts[t.sub[2]]
    [] OTHER -> t

\* A call through a pointer has no direct callee.
Calls(t) == roperand(t).op = "call" /\ roperand(t).fun # "pointer"

\* What becomes of a statement.
Kind(t) ==
  IF hasSkipedFunctions(t) THEN "skip"
  ELSE IF hasCheckFunctions(t) THEN "check"
  ELSE IF t.op \in {"eq", "not"} THEN "skip"
  ELSE IF Given(t) # Null /\ roperand(t).op # "call" THEN "renew"
  ELSE IF Given(t) # Null /\ Calls(t)
       THEN IF roperand(t).fun = "getter" THEN "borrow" ELSE "renew"
  ELSE "use"

\* The variable that the statement takes out of borrowedRefVars.
Released(t) ==
  CASE Kind(t) = "renew" -> Given(t)
    [] Kind(t) = "check" /\ IsExpr(t) -> getFirstArg[t]
    [] OTHER -> Null

\* The variables that a unit declares.
VarsOf(u) == {v \in Var : Home[v] = u}

\* The units that are loaded at first are distinct, ASTManager has room for one, and the
\* statements of a function give values to variables of its own unit.
ASSUME BorrowAssumption ==
  /\ ASTList \in Seq(Unit) /\ \A i, j \in DOMAIN ASTList : ASTList[i] = ASTList[j] => i = j
  /\ Home \in [Var -> Unit]
  /\ maxSize \in Nat \ {0}
  /\ Programs \subseteq Seq(Function)
  /\ \A P \in Programs : \A f \in DOMAIN P : \A b \in Block : \A t \in ToSet(P[f].body[b]) :
       Given(t) \in VarsOf(P[f].unit) \cup {Null}

-----------------------------------------------------------------------------
(* The walk through the functions.                                         *)

F == program[fn]
Over == IF fn = 0 THEN TRUE ELSE F.passed \/ WalkDone
Without(m, S) == [v \in DOMAIN m \ S |-> m[v]]
Inserted(m, v, s) == [w \in DOMAIN m \cup {v} |-> IF w \in DOMAIN m THEN m[w] ELSE s]
Held == {astQueue[k] : k \in DOMAIN astQueue}

\* Here and below, a definition without a comment right before a commented one is a
\* slip one could make in the code of the latter.
RequestedWithoutHit(u) ==
  Append(IF Len(astQueue) >= maxSize THEN Tail(astQueue) ELSE astQueue, u)

\* getASTUnit: a unit in memory moves to the end of the queue, another one is loaded.
Requested(u) ==
  Append(IF u \in Held THEN Within(astQueue, Unit \ {u})
         ELSE IF Len(astQueue) >= maxSize THEN Tail(astQueue) ELSE astQueue, u)

\* The next function: its declaration and its graph are requested, which may load its
\* unit and then free another.  A variable of the new unit may lie where one lay that was
\* freed before.  The map is not cleared.
NextFunction ==
  /\ Over = TRUE /\ fn < Len(program) /\ fault = "none"
  /\ fn' = fn + 1
  /\ LET u == program[fn + 1].unit
         gone == {v \in DOMAIN borrowedRefVars : Home[v] \notin ToSet(Requested(u))}
         freed == dangling \cup {borrowedRefVars[v] : v \in gone}
         kept == Without(borrowedRefVars, gone)
     IN /\ astQueue' = Requested(u)
        /\ \/ borrowedRefVars' = kept /\ dangling' = freed
           \/ /\ u \notin Held
              /\ \E s \in dangling, v \in VarsOf(u) :
                   borrowedRefVars' = Inserted(kept, v, s) /\ dangling' = freed \ {s}
  /\ cfg' = program[fn + 1].graph
  /\ scan' = 1 /\ unfinished' = <<>> /\ handled' = {} /\ block' = Null /\ next' = 1
  /\ examined' = {}
  /\ iter' = 1
  /\ UNCHANGED <<program, reports, fault>>

Walking == fn > 0 /\ ~F.passed /\ fault = "none"

WalkOn ==
  /\ Walking
  /\ Collect \/ Take \/ Queue
  /\ UNCHANGED others

InBlock == Walking /\ block # Null /\ next > Len(cfg.succ[block])
AtStatement == InBlock /\ iter <= Len(F.body[block])
Stmt1 == F.body[block][iter]
Spot == <<fn, block, iter>>
Step == iter' = iter + 1 /\ UNCHANGED <<walk, program, fn, astQueue>>

NextBlock ==
  /\ InBlock /\ iter > Len(F.body[block])
  /\ Examine
  /\ iter' = 1
  /\ UNCHANGED <<program, fn, astQueue, borrowedRefVars, dangling, reports, fault>>

\* A statement that calls a function to be skipped, compares or negates.
Ignore ==
  /\ AtStatement /\ Kind(Stmt1) = "skip"
  /\ Step /\ UNCHANGED <<borrowedRefVars, dangling, reports, fault>>

ReleaseGiven ==
  /\ AtStatement /\ Kind(Stmt1) \in {"check", "renew"}
  /\ borrowedRefVars' = Without(borrowedRefVars, {Given(Stmt1)})
  /\ Step /\ UNCHANGED <<dangling, reports, fault>>

\* A check function is called, or the variable gets another value.
Release ==
  /\ AtStatement /\ Kind(Stmt1) \in {"check", "renew"}
  /\ borrowedRefVars' = Without(borrowedRefVars, {Released(Stmt1)})
  /\ Step /\ UNCHANGED <<dangling, reports, fault>>

\* insert leaves a variable alone that is in the map already.
Borrow ==
  /\ AtStatement /\ Kind(Stmt1) = "borrow"
  /\ borrowedRefVars' = Inserted(borrowedRefVars, Given(Stmt1), Spot)
  /\ Step /\ UNCHANGED <<dangling, reports, fault>>

ReportsOf(t) ==
  {[use |-> Spot, var |-> v, site |-> borrowedRefVars[v]] :
     v \in DOMAIN borrowedRefVars \cap FindVarDeclRef[t]}

\* Any other statement is compared with every variable of the map, by name first.
Use ==
  /\ AtStatement /\ Kind(Stmt1) = "use"
  /\ reports' = reports \cup ReportsOf(Stmt1)
  /\ Step /\ UNCHANGED <<borrowedRefVars, dangling, fault>>

\* The name of a freed variable is read, and the program ends; it may as well be any
\* string, and the comparison of pointers that follows then finds nothing: see Use.
ReadFreed ==
  /\ AtStatement /\ Kind(Stmt1) = "use" /\ dangling # {}
  /\ fault' = "dangling"
  /\ UNCHANGED <<walk, program, fn, iter, astQueue, borrowedRefVars, dangling, reports>>

BorrowNext ==
  \/ NextFunction \/ WalkOn \/ NextBlock
  \/ Ignore \/ Release \/ Borrow \/ Use \/ ReadFreed

\* One thread runs the loops to their end.
BorrowSpec == BorrowInit /\ [][BorrowNext]_borrowVars /\ WF_borrowVars(BorrowNext)

-----------------------------------------------------------------------------
(* Properties.                                                             *)

Site == (Nat \ {0}) \X Block \X (Nat \ {0})

\* The walk and the map have their types, and ASTManager holds maxSize units at most.
BorrowTypeOK ==
  /\ WalkTypeOK
  /\ fn \in 0..Len(program)
  /\ iter \in Nat \ {0}
  /\ astQueue \in Seq(Unit) /\ Len(astQueue) <= maxSize
  /\ DOMAIN borrowedRefVars \subseteq Var
  /\ \A v \in DOMAIN borrowedRefVars : borrowedRefVars[v] \in Site
  /\ dangling \subseteq Site
  /\ reports \subseteq [use : Site, var : Var, site : Site]
  /\ fault \in {"none", "dangling"}

Sites(f) == {f} \X UNION {{b} \X DOMAIN program[f].body[b] : b \in Block}
StatementAt(p) == program[p[1]].body[p[2][1]][p[2][2]]
At(p) == <<p[1], p[2][1], p[2][2]>>
Borrows(p, v) == Kind(StatementAt(p)) = "borrow" /\ Given(StatementAt(p)) = v
Uses(p, v) == Kind(StatementAt(p)) = "use" /\ v \in FindVarDeclRef[StatementAt(p)]
Releases(p, v) == Released(StatementAt(p)) = v

\* Blocks that control can come to from the blocks of S, around those of T.
After(g, S, T) ==
  LET far[k \in 0..Cardinality(Block)] ==
        IF k = 0 THEN S \ T
        ELSE far[k - 1] \cup UNION {Follow(g, b) \ T : b \in far[k - 1]}
  IN far[Cardinality(Block)]

Dominates(g, b, c) == c \in After(g, Entries(g), {}) /\ c \notin After(g, Entries(g), {b})
Finished == {f \in DOMAIN program : ~program[f].passed /\ (f < fn \/ (f = fn /\ Over))}

\* A use that control cannot come to but past a borrowing statement is reported if the
\* function nowhere releases the variable: in whatever order the walk takes the blocks,
\* and however often, and although the check has stood in other functions before.
DominatedUseReported ==
  \A f \in Finished : \A p, q \in Sites(f) : \A v \in Var :
    /\ Borrows(p, v) /\ Uses(q, v)
    /\ IF p[2][1] = q[2][1] THEN p[2][2] < q[2][2]
       ELSE Dominates(program[f].graph, p[2][1], q[2][1])
    /\ \A r \in Sites(f) : ~Releases(r, v)
    => \E w \in reports : w.use = At(q) /\ w.var = v

\* The units fit into memory.
Fits == Cardinality({program[k].unit : k \in DOMAIN program}) <= maxSize

Straight(g) ==
  /\ Cardinality(Entries(g)) = 1
  /\ \A b \in Block : Cardinality(Follow(g, b)) <= 1 /\ b \notin After(g, Follow(g, b), {})
Before(g, p, q) ==
  \/ p[2][1] = q[2][1] /\ p[2][2] < q[2][2]
  \/ q[2][1] \in After(g, Follow(g, p[2][1]), {})
Local(f, v) == \A e \in DOMAIN program \ {f} : \A p \in Sites(e) : v \notin FindVarDeclRef[StatementAt(p)]

\* p borrows v, and v is neither released nor borrowed before between p and q.
BorrowedFor(g, f, p, q, v) ==
  /\ Borrows(p, v) /\ Before(g, p, q)
  /\ \A r \in Sites(f) : Releases(r, v) => ~(Before(g, p, r) /\ Before(g, r, q))
  /\ \A r \in Sites(f) : Borrows(r, v) /\ Before(g, r, p) =>
       \E s \in Sites(f) : Releases(s, v) /\ Before(g, r, s) /\ Before(g, s, p)

\* In a function that does not branch the reports are exact: a use of a variable of its
\* own is reported if and only if the variable is borrowed there, and the statement it is
\* reported with is the first one that borrowed it since.
StraightLineExact ==
  Fits => \A f \in Finished : \A v \in {w \in Var : Local(f, w)} :
    LET g == program[f].graph
    IN Straight(g) =>
         {w \in reports : w.var = v} =
           {[use |-> At(s[2]), var |-> v, site |-> At(s[1])] :
              s \in {r \in Sites(f) \X Sites(f) :
                       Uses(r[2], v) /\ BorrowedFor(g, f, r[1], r[2], v)
                       /\ {r[1][2][1], r[2][2][1]} \subseteq After(g, Entries(g), {})}}

\* What the functions before have left in the map does no harm as long as the units fit
\* into memory: no freed variable is asked for its name, and whatever is reported was
\* borrowed by the statement it is reported with.
LeftoversHarmless ==
  Fits => /\ fault = "none" /\ dangling = {}
          /\ \A w \in reports :
               LET t == program[w.site[1]].body[w.site[2]][w.site[3]]
               IN Kind(t) = "borrow" /\ Given(t) = w.var

\* borrowedRefVars never asks a freed declaration for its name and never reports what was
\* not borrowed, as long as the units fit; and the cache stays within its bound.
MapSound == BorrowTypeOK /\ LeftoversHarmless

\* Every function is examined to its end, unless a freed variable ends the program, and
\* then no use behind a borrowing statement has been lost.
BorrowTerminates ==
  <>((fault # "none" \/ (fn = Len(program) /\ Over)) /\ DominatedUseReported)

=============================================================================
