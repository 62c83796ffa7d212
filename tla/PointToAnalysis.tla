---------------------------- MODULE PointToAnalysis ----------------------------
(***************************************************************************)
(* PointToAnalysis (lib/P2A): ConstructPartialCFG records, function by     *)
(* function, where pointers are updated and which arguments calls have;    *)
(* get_pointee_of_l3 then walks a path backwards for the last update of a  *)
(* variable and on through aliases.  On its way it binds the parameters of *)
(* the functions the path enters, in the same records.  The arguments are  *)
(* kept as pointers into the AST, which dangle once the manager has        *)
(* evicted the unit of the call.                                           *)
(***************************************************************************)
EXTENDS PointerPrograms

Operation == {"get_pointee_at_point", "is_alias_of", "is_alias_of_at_point", "get_alias_in_func"}

CONSTANTS
  MaxSize,        \* max_size of the AST manager: the units in memory at a time
  Requests(_),    \* Requests(p): what may be asked about program p
  MaxRequests     \* bound: the requests in one run

\* A request is a record of the operation, the paths and the variable it is given and the
\* searches it makes one after the other.  The units that its paths touch:
PointsOn(r) == UNION {ToSet(path) : path \in ToSet(r.paths)}
UnitsOf(p, r) == {p.unit[pt[1]] : pt \in PointsOn(r)}

\* The units of the paths fit in memory: whether the blocks of a path are still there when
\* they are read is a question about InterProcedureCFG.
ASSUME RequestsAssumption ==
  /\ MaxRequests \in Nat /\ MaxSize \in Nat \ {0}
  /\ \A p \in Programs : \A r \in Requests(p) :
       /\ r.op \in Operation /\ r.searches \in Seq(SearchIn(p)) /\ r.var \in Var
       /\ {s.path : s \in ToSet(r.searches)} \subseteq ToSet(r.paths) /\ <<>> \notin ToSet(r.paths)
       /\ Cardinality(UnitsOf(p, r)) <= MaxSize

VARIABLES
  program,
  functions,        \* the functions ConstructPartialCFG has still to handle
  work_list,        \* the blocks of the function it is at
  blockToBlockMap,  \* the blocks that have a node
  updates,          \* the update nodes of a variable in a block: element and expression
  argMap,           \* the arguments, with the function that made the call, by callee and
                    \* number of the caller's block
  memory,           \* the units in memory
  stale,            \* the functions whose unit was evicted after they had been handled
  request,          \* the operation asked for and the searches it makes
  results,          \* the answers found so far
  search,           \* the search under way, Null if none
  asked,            \* the requests so far
  fault             \* what the code dereferences that is not there

units == <<memory, stale>>
recorded == <<functions, work_list, blockToBlockMap, argMap, units>>
vars == <<program, functions, work_list, blockToBlockMap, updates, argMap, units,
          request, results, search, asked, fault>>

IntMax == 2147483647

\* The nodes for the expressions that
\* statement elem sets a variable from: for ?: the second one has the next number.
Nodes(from, elem) == [k \in DOMAIN from |-> [elem |-> elem + k - 1, expr |-> from[k]]]

-----------------------------------------------------------------------------
(* ConstructPartialCFG and HandleFuncDecl.                                 *)

Units(p) == {p.unit[f] : f \in Function}

\* What the manager holds after it has loaded us.  Which units have made room depends on
\* all that it was asked for before (ASTManager); here any may have.
AfterLoading(held, us) ==
  {m \in SUBSET (held \cup us) :
     /\ Cardinality(m) = Min({MaxSize, Cardinality(held \cup us)})
     /\ Cardinality(us) <= MaxSize => us \subseteq m}

\* InterProcedureCFG has been through all functions before.
Init ==
  /\ program \in Programs
  /\ functions = program.order /\ work_list = <<>> /\ blockToBlockMap = {}
  /\ updates = [at \in Holder \X Points(program) |-> <<>>]
  /\ argMap = [at \in Function \X {pt[2] : pt \in Points(program)} |-> <<>>]
  /\ memory \in AfterLoading({}, Units(program)) /\ stale = {}
  /\ request = [op |-> Null, var |-> Null, paths |-> <<>>, searches |-> <<>>]
  /\ results = <<>> /\ search = Null /\ asked = 0
  /\ fault = "none"

\* The manager loads us; the arguments recorded of functions whose unit is gone dangle.
Loads(us) ==
  /\ memory' \in AfterLoading(memory, us)
  /\ stale' = stale \cup {f \in Function \ ToSet(functions) : program.unit[f] \notin memory'}

HandleFuncDecl ==
  /\ functions # <<>> /\ work_list = <<>>
  /\ functions' = Tail(functions)
  /\ Loads({program.unit[Head(functions)]})
  /\ work_list' = IF Head(functions) \in program.skipped THEN <<>>
                  ELSE <<Entry(program, Head(functions))>>
  /\ UNCHANGED <<program, blockToBlockMap, updates, argMap, request, results, search, asked, fault>>

\* What HandleStmt records of a block's statements, in their order.
UpdatesOf(v, stmts) ==
  FlattenSeq([k \in DOMAIN stmts |->
    IF stmts[k].kind = "set" /\ stmts[k].to = v THEN Nodes(stmts[k].from, k - 1) ELSE <<>>])
\* The arguments of an overloaded operator are not recorded.
ArgsTo(f, stmts, caller) ==
  FlattenSeq([k \in DOMAIN stmts |->
    IF stmts[k].kind = "call" /\ stmts[k].to = f
    THEN [i \in DOMAIN stmts[k].from |-> [expr |-> stmts[k].from[i], by |-> caller]] ELSE <<>>])

\* One turn of the loop over the work list: a block not seen before.
HandleBlock ==
  /\ work_list # <<>> /\ Head(work_list) \notin blockToBlockMap
  /\ LET pt == Head(work_list)
         stmts == StmtsAt(program, pt)
         succs == SelectSeq(program.succ[pt[1]][pt[2]], LAMBDA b : b # Null)
     IN /\ blockToBlockMap' = blockToBlockMap \cup {pt}
        /\ updates' = [at \in DOMAIN updates |->
             IF at[2] = pt THEN updates[at] \o UpdatesOf(at[1], stmts) ELSE updates[at]]
        /\ argMap' = [at \in DOMAIN argMap |->
             IF at[2] = pt[2] THEN argMap[at] \o ArgsTo(at[1], stmts, pt[1]) ELSE argMap[at]]
        /\ work_list' = Tail(work_list) \o [k \in DOMAIN succs |-> <<pt[1], succs[k]>>]
  /\ UNCHANGED <<program, functions, units, request, results, search, asked, fault>>

HandledAlready ==
  /\ work_list # <<>> /\ Head(work_list) \in blockToBlockMap
  /\ work_list' = Tail(work_list)
  /\ UNCHANGED <<program, functions, blockToBlockMap, updates, argMap, units, request, results,
                 search, asked, fault>>

-----------------------------------------------------------------------------
(* The operations, as the searches they make one after the other, and what *)
(* they conclude from the answers.                                         *)

On(path, elem, v, temp) == [path |-> path, elem |-> elem, var |-> v, temp |-> temp]
Key(l) == [kind |-> l.kind, of |-> l.of]

get_pointee_at_point(paths, elem, v) == [k \in DOMAIN paths |-> On(paths[k], elem, v, FALSE)]
is_alias_of(path1, elem1, v1, path2, elem2, v2) ==
  <<On(path1, elem1, v1, TRUE), On(path2, elem2, v2, TRUE)>>
is_alias_of_at_point(paths, elem, v, w) ==
  FlattenSeq([k \in DOMAIN paths |-> is_alias_of(paths[k], elem, v, paths[k], elem, w)])

\* The variables that statements on the path mention.
Mentioned(p, path) ==
  UNION {UNION {{s.to} \cup {e.of : e \in ToSet(s.from)} : s \in ToSet(StmtsAt(p, pt))} :
         pt \in ToSet(path)} \cap Var
\* FindVariable goes by the type as it is written; what has the name of v is passed over,
\* v itself and any other variable.
Comparable(p, v, w) == p.type[v] # Null /\ p.type[w] = p.type[v] /\ p.name[w] # p.name[v]
\* The variables are compared at the end of each path that getPathInFunc returns.
get_alias_in_func(p, paths, v) ==
  LET candidates(path) == SetToSeq({w \in Mentioned(p, path) : Comparable(p, v, w)})
  IN FlattenSeq([k \in DOMAIN paths |->
       FlattenSeq([j \in DOMAIN candidates(paths[k]) |->
         is_alias_of(paths[k], 0, v, paths[k], 0, candidates(paths[k])[j])])])

Pointees == UNION ToSet(results)

\* Here and below, a definition without a comment right before a commented one is a
\* slip one could make in the code of the latter.
ReportedByObject ==
  {request.searches[2 * j].var : j \in {i \in 1..(Len(results) \div 2) :
     results[2 * i - 1] \cap results[2 * i] # {}}}
\* is_alias_of compares the keys of the locations, for each pair of answers.
ReportedAliases ==
  {request.searches[2 * j].var : j \in {i \in 1..(Len(results) \div 2) :
     \E l \in results[2 * i - 1], m \in results[2 * i] : Key(l) = Key(m)}}

\* is_alias_of_at_point collects the answers of all paths and compares the objects.
SameAtPoint ==
  \E i, j \in 1..(Len(results) \div 2) : results[2 * i - 1] \cap results[2 * j] # {}

-----------------------------------------------------------------------------
(* get_pointee_of_l3.  search.last: the block at the end of the path is    *)
(* the one the search began with, where only what is before search.elem    *)
(* counts.                                                                 *)

Begin(s) == [path |-> s.path, elem |-> s.elem, var |-> s.var, last |-> TRUE]

Ask ==
  /\ functions = <<>> /\ work_list = <<>> /\ search = Null /\ fault = "none"
  /\ asked < MaxRequests /\ asked' = asked + 1
  /\ \E r \in Requests(program) :
       /\ request' = r /\ Loads(UnitsOf(program, r))
       /\ search' = IF r.searches = <<>> THEN Null ELSE Begin(r.searches[1])
  /\ results' = <<>>
  /\ UNCHANGED <<program, functions, work_list, blockToBlockMap, updates, argMap, fault>>

Searching == search # Null /\ fault = "none"
current == Last(search.path)
EntersCallee == current = Entry(program, current[1]) /\ Len(search.path) > 1
args == argMap[<<current[1], search.path[Len(search.path) - 1][2]>>]
params == program.params[current[1]]

\* No node for the block; or a recorded argument of a unit that is gone; or fewer arguments
\* than parameters.
NoNode == current \notin blockToBlockMap
Dangling == EntersCallee /\ \E i \in DOMAIN params \cap DOMAIN args : args[i].by \in stale
Missing == EntersCallee /\ Len(args) < Len(params)
Lost == NoNode \/ Dangling \/ Missing

Dereference ==
  /\ Searching /\ search.path # <<>> /\ Lost
  /\ fault' = CASE NoNode -> "no node" [] ~NoNode /\ Dangling -> "freed" [] OTHER -> "no argument"
  /\ UNCHANGED <<program, recorded, updates, request, results, search, asked>>

BoundOnTop ==
  IF ~EntersCallee THEN updates
  ELSE [at \in DOMAIN updates |->
         IF at[2] = current /\ at[1] \in ToSet(params)
         THEN updates[at] \o Nodes(<<args[CHOOSE i \in DOMAIN params : params[i] = at[1]].expr>>, 0)
         ELSE updates[at]]
\* The data flow between two functions: each parameter is set from the argument.
Bound ==
  IF ~EntersCallee THEN updates
  ELSE [at \in DOMAIN updates |->
         IF at[2] = current /\ at[1] \in ToSet(params)
         THEN Nodes(<<args[CHOOSE i \in DOMAIN params : params[i] = at[1]].expr>>, 0)
         ELSE updates[at]]

\* The return value, set behind all the statements of the block.
WithReturn ==
  LET stmts == StmtsAt(program, current)
  IN IF stmts # <<>> /\ Last(stmts).kind = "return" /\ Last(stmts).from # <<>>
     THEN [Bound EXCEPT ![<<current[1], current>>] = Nodes(Last(stmts).from, IntMax)]
     ELSE Bound

nodes == WithReturn[<<search.var, current>>]
VisibleUpTo == {k \in DOMAIN nodes : search.last => search.elem >= nodes[k].elem}
\* The updates of the variable that the search sees in the block; the last one counts.
Visible == {k \in DOMAIN nodes : search.last => search.elem > nodes[k].elem}
Newest == nodes[CHOOSE k \in Visible : \A j \in Visible : j <= k]

GoBack ==
  /\ Searching /\ search.path # <<>> /\ ~Lost
  /\ updates' = WithReturn
  /\ Visible = {}
  /\ search' = [search EXCEPT !.path = Front(@), !.last = FALSE]
  /\ UNCHANGED <<program, recorded, request, results, asked, fault>>

FollowAliasAnywhere ==
  /\ Searching /\ search.path # <<>> /\ ~Lost
  /\ updates' = WithReturn
  /\ Visible # {} /\ Newest.expr.kind = "alias"
  /\ search' = [search EXCEPT !.var = Newest.expr.of]
  /\ UNCHANGED <<program, recorded, request, results, asked, fault>>
\* The variable was set from another one, which is searched for from there on.
FollowAlias ==
  /\ Searching /\ search.path # <<>> /\ ~Lost
  /\ updates' = WithReturn
  /\ Visible # {} /\ Newest.expr.kind = "alias"
  /\ search' = [path |-> search.path, elem |-> Newest.elem,
                var |-> Newest.expr.of, last |-> TRUE]
  /\ UNCHANGED <<program, recorded, request, results, asked, fault>>

\* The search ends with an answer; the next one of the request begins.
Finish(answer) ==
  /\ results' = Append(results, answer)
  /\ search' = IF Len(results) + 1 < Len(request.searches)
               THEN Begin(request.searches[Len(results) + 2]) ELSE Null
  /\ UNCHANGED <<program, recorded, request, asked, fault>>

Find ==
  /\ Searching /\ search.path # <<>> /\ ~Lost
  /\ updates' = WithReturn
  /\ Visible # {} /\ Newest.expr.kind # "alias"
  /\ Finish(IF Newest.expr.kind = "other" THEN {}
            ELSE {[kind |-> "addr", of |-> Newest.expr.of, made |-> 0]})

\* Nothing has set the variable: for the comparison of aliases an object is made that
\* stands for what it held at first.
Exhaust ==
  /\ Searching /\ search.path = <<>>
  /\ Finish(IF request.searches[Len(results) + 1].temp
            THEN {[kind |-> "initial", of |-> search.var, made |-> Len(results) + 1]}
            ELSE {})
  /\ UNCHANGED updates

Next == HandleFuncDecl \/ HandleBlock \/ HandledAlready \/ Ask
        \/ Dereference \/ GoBack \/ FollowAlias \/ Find \/ Exhaust

\* What has begun runs to its end; nobody has to ask.
Spec == Init /\ [][Next]_vars /\ WF_vars(Next)

-----------------------------------------------------------------------------
(* Properties.                                                             *)

Answered == request.op # Null /\ Len(results) = Len(request.searches)
HoldsOf(s) == Holds(program, s.path, s.elem, s.var)

\* The functions that have had their parameters bound.
entered ==
  {f \in Function : program.params[f] # <<>>
                     /\ updates[<<program.params[f][1], Entry(program, f)>>] # <<>>}

\* The searches keep the promise of PointsTo: walking back from the end of a path finds
\* what an execution from its beginning leaves behind.
Promise == INSTANCE PointsTo WITH request <- request.searches
KeepsPromise == Promise!Promised

\* The promise is one about every search of the request.
AllDetermined ==
  \A s \in ToSet(request.searches) : Promise!Determined(s) /\ Promise!Single(s)

\* The members hold nodes, arguments and answers of the program.
TypeOK ==
  /\ blockToBlockMap \subseteq Points(program)
  /\ \A at \in DOMAIN updates : updates[at] \in Seq([elem : Nat, expr : Expr])
  /\ \A at \in DOMAIN argMap : argMap[at] \in Seq([expr : Expr, by : Function])
  /\ memory \subseteq Units(program) /\ Cardinality(memory) <= MaxSize /\ stale \subseteq Function
  /\ Len(results) <= Len(request.searches)
  /\ \A k \in DOMAIN results :
       Cardinality(results[k]) <= 1 /\ {Key(l) : l \in results[k]} \subseteq Location
  /\ search # Null => /\ search.path \in Seq(Points(program)) /\ search.elem \in Nat
                      /\ search.var \in Holder /\ search.last \in BOOLEAN

\* The aliases reported for a function are the variables mentioned on one of its paths that
\* hold, at the end of it, a location that is also in the variable asked about, and that have
\* its type, as it is written, and another name: a pointer of a type written differently, or
\* of a variable that hides the one asked about, is not reported whatever it holds.  Two
\* variables that hold what the analysis cannot name are never reported either.
\* Asked at a point, two variables are aliases if some two paths, not necessarily the
\* same one, leave the same address in them.  What they held at first never counts: each
\* search makes an object of its own for it.
AliasesExact ==
  Answered /\ AllDetermined =>
    LET pair == 1..(Len(results) \div 2)
        left(i) == HoldsOf(request.searches[2 * i - 1])
        right(i) == HoldsOf(request.searches[2 * i])
        atEnd(path, v) == Holds(program, path, 0, v)
    IN /\ request.op = "get_alias_in_func" =>
            ReportedAliases =
              {w \in Var : /\ Comparable(program, request.var, w)
                           /\ \E path \in ToSet(request.paths) :
                                /\ w \in Mentioned(program, path)
                                /\ atEnd(path, request.var) \cap atEnd(path, w) # {}}
       /\ request.op = "is_alias_of_at_point" =>
            (SameAtPoint <=> \E i, j \in pair : \E l \in left(i) \cap right(j) : l.kind = "addr")

\* Searches write into the records of the analysis, but only the last binding of a
\* parameter and one return value per block stay: however many searches are made, the
\* lists do not grow, and what statements have set is not lost.
RecordsKept ==
  functions = <<>> /\ work_list = <<>> =>
    \A at \in DOMAIN updates :
      LET v == at[1]
          p == at[2]
          stated == IF p \in blockToBlockMap THEN UpdatesOf(v, StmtsAt(program, p)) ELSE <<>>
      IN \/ updates[at] = stated
         \/ /\ Len(updates[at]) = 1
            /\ p = Entry(program, p[1]) /\ v \in ToSet(program.params[p[1]])
         \/ Len(updates[at]) = 1 /\ v = p[1]

\* Nothing is recorded for points the program has not, and what is recorded stays.
RecordsSound == TypeOK /\ RecordsKept

\* The search reads what is not there only on a path through a function that was not
\* analysed or a block that control does not reach, or into a function called as an
\* overloaded operator; and a freed argument only where not all units fit in memory.
FaultExplained ==
  /\ fault \in {"no node", "no argument"} =>
       \E path \in ToSet(request.paths) :
         \/ \E pt \in ToSet(path) : pt[1] \in program.skipped \/ pt[2] \notin Live(program, pt[1])
         \/ \E i \in 2..Len(path) : /\ path[i] = Entry(program, path[i][1])
                                    /\ Last(StmtsAt(program, path[i - 1])).kind = "operator"
  /\ fault = "freed" => Cardinality(Units(program)) > MaxSize

\* Every request is answered, or meets what is not there, for one of those reasons.
Terminates ==
  \A n \in 1..MaxRequests :
    asked = n ~> ((Answered /\ asked = n) \/ (fault # "none" /\ FaultExplained))

=============================================================================
