------------------------------- MODULE CallGraph -------------------------------
(***************************************************************************)
(* The construction of the call graph (lib/framework/CallGraph.cpp): nodes *)
(* for the functions the configuration includes, an edge for each function *)
(* that is called by name, then, from each function without callers on,    *)
(* edges for calls through function pointers, as far as the one pass of    *)
(* ASTFunctionPtrLoad (lib/framework/Common.cpp) knows what they may point *)
(* to.  A program p is a record:                                           *)
(*   p.functions   the functions of the resource, in order                 *)
(*   p.body[f]     what the visitors find in f, in order; Null: no body    *)
(*   p.params[f]   the function pointers among the parameters of f         *)
(*   p.declared[f] those of the declaration of f that its callers see       *)
(*   p.default[f]  the functions that are their default arguments          *)
(*   p.kinds[f]    what f is, as far as the configuration asks             *)
(*   p.system      the functions of system headers                         *)
(* A statement calls the function s.to with the function pointers or       *)
(* functions s.from[k] in its k-th such argument; or sets the pointer s.to *)
(* from those in s.from[1]; or calls what the pointer s.to points to; or   *)
(* calls the lambda s.to, or deletes an object with the destructor s.to.   *)
(* A call of a constructor or of operator new is a construct, and so is    *)
(* any call in a default argument or in the initializers of a constructor: *)
(* a call by name whose arguments the pass does not see.                   *)
(* s.behind is what keeps the visitor of the calls by name from s, unless  *)
(* it is shown: the call of a lambda among whose arguments s stands, the   *)
(* delete of whose operand it is part; or unseen, never shown: s stands in *)
(* a lambda expression, or in what is copied to make a lambda, or it calls *)
(* a constructor that the unit does not define.                            *)
(***************************************************************************)
EXTENDS Filters, FiniteSets, SequencesExt

CONSTANTS
  Function, Pointer,
  Programs,
  showFunctionPtr, ignoreNoCalledSystemHeader,   \* the configuration, TRUE or FALSE,
  shown,                                         \* and the kinds of functions it shows
  Null

Kind == {"destructor", "lambda", "inlineAndTemplate", "library"}
PassingCall == {"call", "lambda"}
CallByName == PassingCall \cup {"construct", "delete"}
Stmt == [kind : CallByName \cup {"set", "callPointer"}, to : Function \cup Pointer,
         from : Seq(Seq(Function \cup Pointer)), site : Nat, behind : SUBSET {"lambda", "destructor", "unseen"}]

\* What a statement of program p is about: a lambda that is called is a function of this
\* kind, and so is a destructor.
IsStmt(p, s) ==
  /\ s \in Stmt /\ s.to \in (IF s.kind \in {"set", "callPointer"} THEN Pointer ELSE Function)
  /\ s.kind = "set" => s.from # <<>>
  /\ s.kind = "lambda" => "lambda" \in p.kinds[s.to]
  /\ s.kind = "delete" => "destructor" \in p.kinds[s.to]

IsProgram(p) ==
  /\ p.functions \in Seq(Function) /\ p.kinds \in [Function -> SUBSET Kind] /\ p.system \subseteq Function
  /\ \A f \in Function :
       /\ p.body[f] # Null => p.body[f] \in Seq(Stmt) /\ \A k \in DOMAIN p.body[f] : IsStmt(p, p.body[f][k])
       /\ p.params[f] \in Seq(Pointer)
       /\ p.declared[f] \in [DOMAIN p.params[f] -> Pointer]
       /\ p.default[f] \in [DOMAIN p.params[f] -> SUBSET Function]

ASSUME ProgramsAssumption ==
  /\ IsFiniteSet(Function) /\ IsFiniteSet(Pointer) /\ Function \cap Pointer = {} /\ Null \notin Function
  /\ {showFunctionPtr, ignoreNoCalledSystemHeader} \subseteq BOOLEAN /\ shown \subseteq Kind
  /\ \A p \in Programs : IsProgram(p)

VARIABLES
  program,
  nodes,              \* the functions with a node
  parents, children,  \* of each function, in the order they were added
  callsites,          \* caller, callee and call site, in the order they were added
  unprocessed,        \* the nodes whose callees have not been processed
  unchecked,          \* the functions not yet checked for callers
  topLevelFunctions,
  entry,              \* the top-level function that is dealt with, Null if none
  topOrderQueue,      \* the walk from a top-level function,
  visitInAll,         \* the functions it has seen
  mayPointTo          \* and what it knows of pointers, by function and pointer

graph == <<nodes, parents, children, callsites>>
walk == <<topOrderQueue, visitInAll, mayPointTo>>
vars == <<program, graph, unprocessed, unchecked, topLevelFunctions, entry, walk>>

BodyOf(f) == IF program.body[f] = Null THEN <<>> ELSE program.body[f]

-----------------------------------------------------------------------------
(* Edges.  Here and below, a definition without a comment right before a   *)
(* commented one is a slip one could make in the code of the latter.       *)

NoteAll(gs) == gs
\* visitInFunction keeps a callee from becoming a child twice.
NoteOnce(gs) ==
  LET noted[k \in 0..Len(gs)] ==
        IF k = 0 THEN <<>> ELSE IF gs[k] \in ToSet(noted[k - 1]) THEN noted[k - 1] ELSE Append(noted[k - 1], gs[k])
  IN noted[Len(gs)]

\* The edges for calls, as <<callee, call site>>, that function f makes, as far as the
\* callees have nodes.
addEdges(f, calls) ==
  \E known \in {Within(calls, nodes \X Nat)} : \E new \in {NoteOnce([k \in DOMAIN known |-> known[k][1]])} :
    /\ children' = [children EXCEPT ![f] = @ \o new]
    /\ parents' = [g \in Function |-> IF g \in ToSet(new) THEN Append(parents[g], f) ELSE parents[g]]
    /\ callsites' = callsites \o [k \in DOMAIN known |-> <<f, known[k][1], known[k][2]>>]

willIncludeInGraph(f) == program.kinds[f] \subseteq shown

Init ==
  /\ program \in Programs
  /\ nodes = {f \in ToSet(program.functions) : willIncludeInGraph(f)}
  /\ parents = [f \in Function |-> <<>>] /\ children = [f \in Function |-> <<>>]
  /\ callsites = <<>>
  /\ unprocessed = nodes /\ unchecked = program.functions
  /\ topLevelFunctions = <<>> /\ entry = Null
  /\ topOrderQueue = <<>> /\ visitInAll = {} /\ mayPointTo = <<>>

\* ASTCalledFunctionLoad: what f calls by name, each call with its call site.  What a
\* lambda that is not shown is called with, and what is deleted if destructors are not
\* shown, is not visited.
CalledFunctions(f) ==
  Within(BodyOf(f), {s \in ToSet(BodyOf(f)) :
                       /\ s.behind \subseteq shown
                       /\ \/ s.kind \in {"call", "construct"}
                          \/ s.kind = "lambda" /\ "lambda" \in shown
                          \/ s.kind = "delete" /\ "destructor" \in shown})

\* processCallee, for the nodes in any order: nodes is a hash map.
processCallee ==
  \E f \in unprocessed :
    /\ \E calls \in {CalledFunctions(f)} : addEdges(f, [k \in DOMAIN calls |-> <<calls[k].to, calls[k].site>>])
    /\ unprocessed' = unprocessed \ {f}
    /\ UNCHANGED <<program, nodes, unchecked, topLevelFunctions, entry, walk>>

-----------------------------------------------------------------------------
(* ASTFunctionPtrLoad: one pass over the statements of a function.         *)

\* The numbers of declarations repeat from unit to unit: the function is part of the key.
PointsTo(known, f, v) == IF <<f, v>> \in DOMAIN known THEN known[<<f, v>>] ELSE {}
Update(known, f, v, S) == [at \in DOMAIN known \cup {<<f, v>>} |-> IF at = <<f, v>> THEN S ELSE known[at]]

\* The pointer v of function f gets what e of function g stands for: a function is
\* added, what another pointer points to replaces what is known.
Move(known, f, v, g, e) ==
  Update(known, f, v, IF e \in Function THEN PointsTo(known, f, v) \cup {e} ELSE PointsTo(known, g, e))
MoveAll(known, f, v, g, es) ==
  LET moved[k \in 0..Len(es)] == IF k = 0 THEN known ELSE Move(moved[k - 1], f, v, g, es[k])
  IN moved[Len(es)]

GivenInPlace(s) == s.from
\* An argument without a function or a function pointer takes no parameter.
Given(s) == Within(s.from, ToSet(s.from) \ {<<>>})
\* The arguments of a call go to the function pointers among the parameters, from the
\* first on.  A pointer is known by the number of its declaration: a call that sees another
\* declaration of the callee than its definition sets pointers that nobody calls.
PassAll(known, f, s) ==
  LET params == program.declared[s.to]
      given == Given(s)
      defaults[i \in 0..Len(params)] ==
        IF i = 0 THEN known
        ELSE Update(defaults[i - 1], s.to, params[i],
                    PointsTo(defaults[i - 1], s.to, params[i]) \cup program.default[s.to][i])
      n == IF Len(given) < Len(params) THEN Len(given) ELSE Len(params)
      passed[i \in 0..n] ==
        IF i = 0 THEN defaults[Len(params)] ELSE MoveAll(passed[i - 1], s.to, params[i], f, given[i])
  IN passed[n]

\* What the pass knows after statement s, and the calls through pointers it has found.
\* It gets to every statement, and passes nothing to a constructor.
Visit(f, known, s) ==
  CASE s.kind \in PassingCall -> PassAll(known, f, s)
    [] s.kind = "set" -> MoveAll(known, f, s.to, f, s.from[1])
    [] OTHER -> known

After(f, k) ==
  LET pass[j \in 0..k] == IF j = 0 THEN mayPointTo ELSE Visit(f, pass[j - 1], BodyOf(f)[j])
  IN pass[k]
PointerCalls(f) ==
  FlattenSeq([k \in DOMAIN BodyOf(f) |->
    LET s == BodyOf(f)[k]
    IN IF s.kind # "callPointer" THEN <<>>
       ELSE LET targets == SetToSeq(PointsTo(After(f, k), f, s.to))
            IN [j \in DOMAIN targets |-> <<targets[j], s.site>>]])

-----------------------------------------------------------------------------
(* The functions without callers, and the walk from each of them.          *)

\* The constructor turns to the functions without callers when all calls by name are in.
NextFunction ==
  unprocessed = {} /\ unchecked # <<>> /\ entry = Null

\* The next function of the resource has no caller as yet: it is top-level, and the
\* entry for the walk along function pointers, if they are to be shown.
pushTopLevel ==
  /\ NextFunction
  /\ LET f == Head(unchecked)
     IN /\ f \in nodes /\ parents[f] = <<>>
        /\ topLevelFunctions' = Append(topLevelFunctions, f)
        /\ entry' = f
        /\ IF showFunctionPtr THEN topOrderQueue' = <<f>> /\ visitInAll' = {f} /\ mayPointTo' = <<>>
           ELSE UNCHANGED walk
  /\ UNCHANGED <<program, graph, unprocessed, unchecked>>

skipCalled ==
  /\ NextFunction
  /\ ~(Head(unchecked) \in nodes /\ parents[Head(unchecked)] = <<>>)
  /\ unchecked' = Tail(unchecked)
  /\ UNCHANGED <<program, graph, unprocessed, topLevelFunctions, entry, walk>>

WithoutHeadOnceDone == IF program.body[Head(topOrderQueue)] = Null THEN topOrderQueue ELSE Tail(topOrderQueue)
\* The head leaves the queue before the test for its body ends the round.
WithoutHead == Tail(topOrderQueue)
\* The function at the head of the queue gets its edges for calls through pointers, and
\* then its children that have not been seen join the queue.
processFunctionPtrInTopOrder ==
  /\ topOrderQueue # <<>>
  /\ LET f == Head(topOrderQueue)
     IN /\ \E calls \in {PointerCalls(f)} : addEdges(f, calls)
        /\ mayPointTo' = After(f, Len(BodyOf(f)))
        /\ LET unseen == Within(NoteOnce(children'[f]), nodes \ visitInAll)
           IN /\ topOrderQueue' = WithoutHead \o unseen
              /\ visitInAll' = visitInAll \cup ToSet(unseen)
  /\ UNCHANGED <<program, nodes, unprocessed, unchecked, topLevelFunctions, entry>>

\* After the walk, a function of a system header that calls nothing loses its node.
removeNoCalledSystemHeader ==
  /\ entry # Null /\ topOrderQueue = <<>>
  /\ nodes' = IF ignoreNoCalledSystemHeader /\ children[entry] = <<>> /\ entry \in program.system
              THEN nodes \ {entry} ELSE nodes
  /\ unchecked' = Tail(unchecked)
  /\ entry' = Null
  /\ UNCHANGED <<program, parents, children, callsites, unprocessed, topLevelFunctions, walk>>

Next == processCallee \/ pushTopLevel \/ skipCalled \/ processFunctionPtrInTopOrder
        \/ removeNoCalledSystemHeader

\* The constructor runs to its end.
Spec == Init /\ [][Next]_vars /\ WF_vars(Next)

-----------------------------------------------------------------------------
(* Properties.                                                             *)

Done == unprocessed = {} /\ unchecked = <<>>

\* What f calls by name, lambdas and destructors included, but for calls behind what is
\* not shown.
CallsByName(f) == {s.to : s \in {t \in ToSet(BodyOf(f)) : t.kind \in CallByName /\ t.behind \subseteq shown}}

\* What statement s of f puts directly into the pointer v of g.  Default arguments go to
\* the parameters that a call leaves out; all: every call passes them as well, as the pass
\* has it.
Feeds(all, f, s, g, v) ==
  CASE s.kind = "set" /\ f = g /\ s.to = v -> ToSet(s.from[1])
    [] s.kind \in PassingCall \cup {"construct"} /\ s.to = g ->
         LET given == Within(s.from, ToSet(s.from) \ {<<>>})
         IN UNION {(IF i \in DOMAIN given THEN ToSet(given[i]) ELSE {})
                     \cup (IF all \/ i \notin DOMAIN given THEN program.default[g][i] ELSE {}) :
                   i \in {j \in DOMAIN program.params[g] : v \in {program.params[g][j], program.declared[g][j]}}}
    [] OTHER -> {}

\* What flows on from F to the pointer at, by one statement.
FlowOn(all, F, at) ==
  UNION {UNION {UNION {IF e \in Function THEN {e} ELSE F[<<f, e>>] : e \in Feeds(all, f, BodyOf(f)[k], at[1], at[2])} :
                k \in DOMAIN BodyOf(f)} : f \in Function}

\* What pointers may point to, whatever the order of the calls and assignments: the
\* functions that flow into the pointer v of function f.
Flows(all) ==
  LET n == Cardinality(Function) * Cardinality(Pointer)
      F[i \in 0..n] ==
        IF i = 0 THEN [at \in Function \X Pointer |-> {}]
        ELSE [at \in Function \X Pointer |-> F[i - 1][at] \cup FlowOn(all, F[i - 1], at)]
  IN F[n]
CallsByPointer(flows, f) ==
  UNION {flows[<<f, s.to>>] : s \in {t \in ToSet(BodyOf(f)) : t.kind = "callPointer"}}

Occurs(g, seq) == Cardinality({k \in DOMAIN seq : seq[k] = g})

\* The members hold functions of the program.
TypeOK ==
  /\ nodes \subseteq Function /\ entry \in Function \cup {Null}
  /\ parents \in [Function -> Seq(Function)] /\ children \in [Function -> Seq(Function)]
  /\ callsites \in Seq(Function \X Function \X Nat)
  /\ {ToSet(topLevelFunctions), ToSet(topOrderQueue), visitInAll} \subseteq SUBSET Function
  /\ \A at \in DOMAIN mayPointTo : mayPointTo[at] \subseteq Function

\* Callers and callees describe the same edges, as often as they occur: once for calls by
\* name, and once for each walk that meets a call through a pointer.  No edge leads to or
\* from a function that has lost its node: nodes go while edges are still added.
EdgesMirrored ==
  \A f, g \in Function :
    /\ Occurs(g, children[f]) = Occurs(f, parents[g])
    /\ Occurs(g, children[f]) <= Len(topLevelFunctions) + (IF g \in CallsByName(f) THEN 1 ELSE 0)
    /\ g \in ToSet(children[f]) => {f, g} \subseteq nodes /\ \E c \in ToSet(callsites) : c[1] = f /\ c[2] = g

\* Every call by name between functions of the graph is an edge, unless it is behind what
\* is not shown, and every edge is such a call or one through a pointer that the function
\* can flow into.
EdgesAreCalls ==
  Done => LET flows == Flows(TRUE) IN \A f \in nodes :
    /\ CallsByName(f) \cap nodes \subseteq ToSet(children[f])
    /\ ToSet(children[f]) \subseteq CallsByName(f) \cup CallsByPointer(flows, f)

\* Over the whole construction, the removal of nodes included, the graph has no edge into
\* nothing and knows each edge at both ends; and its edges are calls of the program.
GraphSound == TypeOK /\ EdgesMirrored /\ EdgesAreCalls

\* No function with a node is left out: from the top-level functions, or a ring, every
\* node is reached; and nothing calls a top-level function by name, unless behind what is
\* not shown.
TopLevelCovers ==
  Done => /\ \A f \in nodes : f \in ToSet(topLevelFunctions) \/ parents[f] # <<>>
          /\ \A f \in ToSet(topLevelFunctions), g \in nodes : f \notin CallsByName(g)

\* f is reached from a top-level function by calls in the graph.
Reached ==
  LET R[i \in 0..Cardinality(Function)] ==
        IF i = 0 THEN ToSet(topLevelFunctions)
        ELSE R[i - 1] \cup UNION {ToSet(children[f]) : f \in R[i - 1]}
  IN R[Cardinality(Function)]

\* The statements that call g by name.
Callers(g) ==
  UNION {{<<f, k>> : k \in {j \in DOMAIN BodyOf(f) : BodyOf(f)[j].kind \in CallByName /\ BodyOf(f)[j].to = g}} :
         f \in Function}

\* The function g, which has pointers among its parameters, is called by one statement, of a
\* function of the graph, which sees its definition; the statement does not construct
\* anything, and what it is behind is shown.
PassedOnce(g) ==
  /\ program.declared[g] = program.params[g] /\ IsInjective(program.params[g])
  /\ \A c, d \in Callers(g) : c = d /\ c[1] \in ToSet(program.functions) /\ willIncludeInGraph(c[1])
  /\ \A c \in Callers(g) : LET s == BodyOf(c[1])[c[2]] IN s.kind # "construct" /\ s.behind \subseteq shown

\* Statement s calls through the pointer v or passes it on.
Uses(s, v) ==
  \/ s.kind = "callPointer" /\ s.to = v
  \/ \E es \in ToSet(s.from) : v \in ToSet(es)

\* The pointer v of f is set by one statement at most, before it is used; a parameter by none.
AssignedOnce(f, v) ==
  LET sets == {k \in DOMAIN BodyOf(f) : BodyOf(f)[k].kind = "set" /\ BodyOf(f)[k].to = v}
  IN /\ v \in ToSet(program.params[f]) => sets = {}
     /\ \A k \in sets, j \in DOMAIN BodyOf(f) : (j \in sets => j = k) /\ (Uses(BodyOf(f)[j], v) => k < j)

\* Whatever can be called through a pointer is set and passed on in one way only, and no
\* function that is passed some is itself called through a pointer.
SetOnce ==
  LET flows == Flows(TRUE) IN
  /\ \A g \in Function : program.params[g] # <<>> =>
       PassedOnce(g) /\ \A f \in Function : g \notin CallsByPointer(flows, f)
  /\ \A f \in Function :
       /\ \A v \in Pointer : AssignedOnce(f, v)
       /\ \A k \in DOMAIN BodyOf(f) : \A es \in ToSet(BodyOf(f)[k].from) : Len(es) <= 1

\* With one walk over each function, the functions nearest to the entry first, what a
\* pointer points to is known where it is called, if it is set and passed on only once, to
\* no constructor.
PointerCallsFound ==
  Done /\ showFunctionPtr /\ SetOnce => LET flows == Flows(FALSE) IN
    \A f \in Reached \cap nodes : CallsByPointer(flows, f) \cap nodes \subseteq ToSet(children[f])

\* The constructor ends, rings and all, and then the top-level functions cover the graph.
Terminates == <>(Done /\ TopLevelCovers)

=============================================================================
