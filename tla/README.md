# Palfrey in TLA+

Palfrey analyses C and C++ programs for memory errors: it loads clang ASTs that the
compiler serialized beforehand, keeps a few of them in memory, builds control flow graphs
on demand and walks those in six checkers. The program is sequential. What makes it hard
is state that outlives what it points to (units are evicted while handles, graphs and
labels stay), graph walks with hand-written marking, and results that depend on the order
in which functions, blocks and paths are visited.

## The system

| part | state it keeps | operations | talks to | here |
| --- | --- | --- | --- | --- |
| ASTManager (`lib/framework/ASTManager.cpp`) | queue of units, map of names, bimaps handle/declaration, CFG cache, location index, `max_size` | constructor, `getASTUnit`, `getFunctionDecl`, `getVarDecl`, `getGlobalVarDecl`, `getCFG`, `getASTFunction`, `getBlockWithLoc` and its kin, `setMaxSize` | clang (external), ASTResource, Config | `ASTManager` |
| ASTResource (same file) | the persistent handles of files, functions and variables; which function of a name is in use | `addASTFile`, `addASTFunction`, `addASTVariable`, `buildUseFunctions`, `getFunctions` | ASTManager | constants of `ASTManager` |
| CallGraph (`lib/framework/CallGraph.cpp`) | nodes with parents and children, top-level functions, what function pointers may point to | the constructor; queries | ASTManager, Common helpers | `CallGraph` |
| NonRecursiveCallGraph (same file) | a copy of the call graph without back edges | the constructor (`spanningTree`), `getReachablePath` | CallGraph | `NonRecursiveCallGraph` |
| InterProcedureCFG (`include/CFG/InterProcedureCFG.h`) | call and return edges between blocks of different functions | the constructor, `getPred`, `getSucc`, path searches | ASTManager, both call graphs | `InterProcedureCFG` |
| PointToAnalysis (`lib/P2A`) | per function a partial CFG with the updates of pointers; arguments by call site | `ConstructPartialCFG`, `getPathInFunc`, `get_pointee_at_point`, three alias queries | ASTManager, Common helpers | `CFGPaths`, `PointerPrograms`, `PointsTo`, `PointToAnalysis` |
| Common helpers (`lib/framework/Common.cpp`, `include/framework/Common.h`) | the registry of functions that free a parameter | AST queries, `getNonRecursiveSucc`, `ASTFunctionPtrLoad`, `FindFreeMethod` | clang | in the module of the caller |
| immediate_uaf_checker, loop_doublefree_checker | freed arguments, call sites already seen, a worklist | `lableAllFreeMethod`, `check` | ASTManager, the registry | `FreeMethods`, `ImmediateUAF`, `LoopDoubleFree` |
| borrowed_reference_checker | what is borrowed, and where; a worklist | `check` | ASTManager | `BorrowedReference` |
| stack_uaf, realloc, memory_alloc checkers | none but the report | `check` | ASTManager, PointToAnalysis | not modelled |
| Config (`lib/framework/Config.cpp`) | blocks of options | parser, `getOptionBlock` | none | not modelled |
| driver (`tools/TemplateChecker/main.cpp`) | none | builds the parts, runs the enabled checkers in order | all | not modelled |

What is hard in this code, and what makes each part correct:

- **ASTManager.** Several containers describe one thing, namely which units are in memory,
  and `loadASTUnit`, `pop`, `push` and `move` change them one after the other. Correct
  means that over any sequence of calls the queue and the name map agree, every handle is
  bound exactly while its unit is in memory and to its own declaration, no cached CFG or
  reverse entry outlives its unit, a call evicts no more than it must, and the unit a
  checker has just asked for survives the next call.
- **CallGraph.** Parents are counted while function pointers are still being resolved, and
  what a pointer may call is copied about in one pass. Correct means that callers mirror
  callees, every call by name that the visitor comes to is an edge, and no function is out of
  reach of the walks.
- **NonRecursiveCallGraph.** One colouring serves the walks from all top-level functions.
  Correct means no ring is left, nothing becomes unreachable, only calls of a ring go, and
  both directions of the edges stay in step.
- **InterProcedureCFG.** It keeps pointers into the CFG cache across calls that may evict,
  and takes it that a call has a successor and that the non-recursive call graph has no ring.
  Correct means that both ends know a link, that forward and backward walks follow the same
  edges, and that a search finds the paths of the length it was asked for.
- **PointToAnalysis.** Loops are cut by block numbers, the limits are tested at every level
  of a recursion, searches write into the records they read, and those hold pointers into
  syntax trees that may be evicted. Correct means that the
  paths are paths of the program and cover it, and that walking one backwards finds what
  an execution forwards leaves in a pointer.
- **Free-method registry.** Labelling is one pass in the order of the functions, and its keys
  are pointers into units that may be evicted.
- **Checkers.** A search that forks shares one mutable set of freed expressions between all
  its branches; a block is marked late; results unwind a recursion; a map lives longer than
  the function it was filled in. Correct means that what is reported lies on a path, what is
  near is not missed, and the loops end.

Nothing here runs concurrently and nothing but the serialized ASTs is on disk, so there
are no interleavings of threads, messages, crashes or retries to model. `PROJECT.json`
lists the hazards one by one, each at its line, with the properties that cover it.

## Modules

| module | models | extends |
| --- | --- | --- |
| `ASTManager` | the unit cache, the bimaps, the CFG cache and the location index | |
| `CallGraph` | the constructor of the call graph, with calls through pointers | |
| `NonRecursiveCallGraph` | the constructor with `spanningTree`, and what `getReachablePath` returns | |
| `InterProcedureCFG` | the graph of the whole program and the search in it, composed with the units and CFGs the manager holds | |
| `CFGPaths` | `getNonRecursiveSucc` and the enumeration of the paths of a function | |
| `PointerPrograms` | programs as the pointer analysis sees them, and what an execution along a path does | |
| `PointsTo` | abstract: what the pointer analysis promises of each search | `PointerPrograms` |
| `PointToAnalysis` | `ConstructPartialCFG`, the backward search, the alias queries; implements `PointsTo` | `PointerPrograms` |
| `FunctionCFG` | the graph clang builds for one function (external), as the checkers see it | |
| `FreeMethods` | the labelling of freeing functions and what `check` makes of it, composed with the units in memory | |
| `ImmediateUAF` | `immediate_uaf_checker`: the search for a use | `FunctionCFG` |
| `BlockWorklist` | the walk over the blocks that `loop_doublefree_checker` and `borrowed_reference_checker` share | `FunctionCFG` |
| `LoopDoubleFree` | `loop_doublefree_checker`: the walk, composed with the search for a second free | `BlockWorklist` |
| `BorrowedReference` | `borrowed_reference_checker`: the walk through all functions, composed with the units in memory | `BlockWorklist`, `Filters` |
| `Filters` | the elements of a sequence that belong to a set, which several modules use | |
| `SequenceLemmas` | lemmas that several proofs cite: induction over numbers, the values of recursive functions, sequences | `Filters` |
| `ASTManagerProofs`, `CallGraphProofs`, `NonRecursiveCallGraphProofs`, `InterProcedureCFGProofs`, `CFGPathsProofs`, `ImmediateUAFProofs`, `LoopDoubleFreeProofs` | theorems | the module proved about, `TLAPS` or `SequenceLemmas` |
| `MC*` | small instances for TLC | the module checked |

A definition that has no comment and stands right before a commented one is a slip one
could make in the code of the latter: a forgotten mark, a bound off by one. `PROJECT.json`
says which definition it replaces and which property then fails ("mutants").

### How state and actions correspond to the code

**ASTManager.** A unit read from disk lies at an address; the address is free again after
an eviction and a later unit may get it, which is how a stale pointer comes to point into
another unit. A `FunctionDecl*` or `VarDecl*` is a pair of the address of its unit and a
declaration. `ASTQueue` is the `std::list` with the next victim first, `ASTs` the map from
names, `functionMap` the function bimap, `variableLeft` and `variableRight` the two
directions of the variable bimap and of `astgv2gvd`/`gvd2astgv`. `CFGs` maps a handle to the
declaration its CFG was built from. `Construct` is one turn of the constructor's loop;
`GetASTUnit`, `GetFunctionDecl`, `GetVarDecl` (local and global), `GetCFG`, `GetBlockWithLoc`
(and its kin) and `SetMaxSize` are the calls clients make, `NullHandle` their answer to a
null handle. A miss is one step with the evictions, the read and the bindings it causes,
as `loadASTUnit` runs to its end within the call. `fault` records how the process dies:
the assertion in `move`, or `pop` on an empty list.

**CallGraph.** `processCallee` gives one node its edges for calls by name, in any order of
the nodes, as they lie in a hash map. Then the functions are taken in the order of the
resource: `pushTopLevel` if the function has no caller, else `skipCalled`. For a top-level
function `processFunctionPtrInTopOrder` is one turn of the queue: the function's calls
through pointers become edges, and its unseen children join. `mayPointTo` is the map of
`ASTFunctionPtrLoad`, which one pass over the statements changes (`PassAll` for a call,
`Move` for an assignment). That pass and the visitor of the calls by name do not see the same:
a constructor, `new`, and a call in a default argument or an initializer is a `construct`, an
edge without pointers passed; and `s.behind` says what hides a call from the visitor (it does not
look at the arguments of a lambda call that is not shown, `Common.cpp:285-298`, nor at the operand of
`delete` where destructors are not, `:335-338`, nor into the bodies of lambdas).
`removeNoCalledSystemHeader` ends the turn.

**NonRecursiveCallGraph.** `Copy` takes over nodes and edges and drops self calls; `Start`,
`Visit` and `Finish` are `spanningTree` with its recursion as a stack; `Prune` removes the
marked edges. The children of a node are a `std::set` of pointers, so `Visit` takes them
in any order. `fault` is the exception of `nodes.at`. `getReachablePath` changes nothing and
is an operator, with the number of calls it takes when it ends.

**InterProcedureCFG.** `NextFunction`, `SkipBlock` and `LinkCall` are the loops of the
constructor; a link is four entries in `pred` and `succ`. `memory` is what `ASTManager`
holds, reduced to units and CFGs; a pointer to a block carries the number of times the CFG
of its function has been built, so that a pointer into a destroyed graph is told from one
into the graph built since. `Ask`, `Follow` and `Return` are
`getPathBeforePointWithLength` and `getSinglePathwithDFS` with their recursion as a stack.
The unsigned length wraps at `Word`. `fault` is `"freed"`, `"null successor"` (`LinkCall`
dereferences the first successor, which clang drops behind a call that it knows to be false) or
`"out_of_range"`. `p.top` are the functions that `NonRecursiveCallGraph` walked from: below them
the graph `p.child` has no rings, elsewhere the rings remain.

**CFGPaths.** `CutSucc` is what `getNonRecursiveSucc` returns for a block, case by case, and
`CutFault` what it does instead: dereference a null successor, or fail the assertion that a
loop has a terminator. Both arise for a `do` with a constant condition, and for a `goto` that
leads up: `getNonRecursiveSucc` then takes the block for the end of a loop and goes down from the label, over
blocks without terminator, to whatever comes next. `Traverse`, `Reach`, `PassNull` and `Return` are
`traverseCFGForGetReachablePath`. Each level of the recursion has its own path, which is what
the stack holds; `reachablePath` is shared.

**PointerPrograms, PointsTo, PointToAnalysis.** `EnvAfter` executes a path forwards.
`PointsTo` says of each search that its answer is what the execution left in the variable,
one of the possibilities where a `?:` leaves a choice, and anything where the analysis cannot
tell the call: a callee called from two blocks with one number, or a path that begins in a
function an earlier search has bound (`Determined`). `PointToAnalysis` is the code:
`HandleFuncDecl` and `HandleBlock` record updates and arguments, with the function whose syntax
tree an argument lies in; each function handled and each request may load units, whereupon what was
recorded of an evicted one is `stale` (any unit may be the victim here, the order is the business
of `ASTManager`). `Ask` begins a request, which is a sequence of searches
(for `get_alias_in_func` one pair for each `Comparable` variable, of the same type in spelling and another name); a turn of `get_pointee_of_l3` is `GoBack` (nothing set the
variable in this block), `FollowAlias`, `Find`, `Exhaust` (the path has no more blocks) or
`Dereference` (what it needs is not there: a block without a node, an argument of an evicted
unit, or one that was never recorded). Every turn writes the bindings of parameters and
the return value into `updates`, as `ConnectCallerAndCallee` does.

**FreeMethods.** `Label` is `checkFreeMethod` on one function, `Check` one function of the
second loop; each first requests the unit of the function (`Requested`: a hit moves it to
the end of the queue, a miss loads it and evicts). The registry is keyed by declaration;
the entries of an evicted unit are `dangling`, and a declaration loaded later may come to lie
at such an address and inherit the entry (`Registries`). The labelling code of
`loop_doublefree_checker` is the same, line by line. A program (`IsProgram`) lists a function once,
its calls refer to declarations of their own unit, as within one syntax tree, and have the arguments that the
prototype asks for. A call of a function declared without one may have fewer, and is not in the model.
`ReachesFree` is what the labels mean: a chain of wrappers to `free`, at whichever arguments. `Frees` is what the
functions really free, argument by argument; the two agree where calls are `Aligned`.

**ImmediateUAF.** `NextBlock`, `Skip` and `Free` are the loops of `check`; `Report`, `Pass`,
`Descend`, `Successor`, `Return` and `GiveUp` are `checkSuccessor`, `checkDepth` edges deep, and
`isFreedArgsReferenced`. After a hit every call of `checkSuccessor` returns. A pruned edge is
dereferenced, which is `fault = "null"`. A use is what the code takes for one: the text of a statement
contains that of the freed expression, and it mentions the variable; so an expression around the
freeing call itself, such as a comparison of its result, counts as a use.

**BlockWorklist and LoopDoubleFree.** `Collect`, `Take`, `Queue` and `Examine` are the loops
of `check`; `Skip`, `Free` and `LeaveBlock` replace `Examine` by the statements of a block. A
block is marked when one of its successors is queued, not when it is queued itself, so a block
may be queued twice. `Report`, `Pass`, `EndOfBlock`, `Successor`, `Return` and `SearchOver`
are `checkSucceedBlocks` and `isFreedArgsFreed`: three edges are searched, along the third the
first successor only. A pruned edge is passed over.

**BorrowedReference.** A statement is a term of its syntax tree, as the checker looks into it:
`Kind` says which way of `check` it takes, `getFirstArg` goes down the first argument of every
call, but not through an implicit cast around one. `NextFunction` requests the unit and begins the walk anew, but keeps `borrowedRefVars`:
the keys of evicted units are `dangling`. `Release`, `Borrow`, `Use` and `Ignore` are the statements.
`BorrowAssumption` says what syntax trees are like, that a statement gives values to variables of its own
unit, and that no AST is listed twice.

In the checkers an expression is a model value with the variable at its root (`Base`), and a
statement is what the checker can tell of it: what it frees, assigns, compares, reads.

## Runs

| run | question | outcome |
| --- | --- | --- |
| `ASTManager_small` | do the tables agree over any sequence of calls, is what a getter returns current, is eviction no more than needed, does the unit asked for last stay? | holds |
| `ASTManager_misconfigured` | what kills the manager, if an AST is listed twice or the cache has no room? | only these two mistakes do |
| `ASTManager_location` | does a lookup by position find the function? | violated |
| `CallGraph` | is every edge known at both ends and a call of the program, and every visited call by name an edge (`GraphSound`), is a pointer that is set and passed on once, to no constructor, followed (`PointerCallsFound`), does the constructor end with all functions in reach of a walk or on a ring? | holds |
| `NonRecursiveCallGraph` | does the walk drop every ring below the top, only calls of rings, lose nothing, let `getReachablePath` find all chains of calls, and end or throw for a top-level function only? | holds |
| `InterProcedureCFG` | are links known at both ends, where do the two directions differ, is no function below the top entered twice without recursion, who reads a destroyed CFG or a missing successor, and does a search find all paths of its length? | holds |
| `CFGPaths` | do the limits hold, is every path one of the program, do the paths cover what its loops do not hide, and where does the cutting of loops go wrong? | holds |
| `PointToAnalysis` | does a search find what an execution leaves in the pointer (`KeepsPromise`), do the alias queries report the comparable variables that hold the same, do the records stay as they are, does every search end, and where does one meet what is not there? | holds |
| `FreeMethods` | as long as units stay in memory: are the labels the chains of wrappers in order, is every call of `free` recognised, does what is recognised lead to `free`, and are the arguments noted freed where calls are aligned? | holds |
| `ImmediateUAF` | is every report on a path, no near use of a never assigned pointer lost, no free reported twice, a null dereferenced only near a pruned edge? | holds |
| `LoopDoubleFree` | does the checker end, search from every reachable free, report only on paths and miss no near free? | holds |
| `BorrowedReference` | is a use behind a borrowing statement reported, are the reports exact where nothing branches, and whom does the map that is never cleared harm? | holds |

`ASTManager_location` shows the code at variance with what it says of itself: the location
index keeps the pointers of the first load, so after an eviction `getBlockWithLoc` and its kin
miss the function, or find one of another unit at the freed address, against "get cfg block with
file name and lines" (`ASTManager.cpp:489`). Further disagreements, which have no run of their
own, are in the list below the proofs.

**Bounds.** *ASTManager*: three ASTs in a cache of two units that `setMaxSize` may
shrink to one and widen again: a load then evicts none, one or two units. Three addresses
are what two units and one being read can use, and make a freed address be used again. The
ASTs hold a function declared twice that shares its local variable, a lambda, a global and
two functions that begin at one place, which are the shapes the bimaps and the location
index treat specially. Addresses are only compared, hence symmetric.

*NonRecursiveCallGraph*: every graph of four functions with at most two other callees
each, every graph of three functions with self calls and, of these, each with any of the
isolated functions deprived of its node. Four functions are enough for a ring that is entered from
two top-level functions and for a black function met again on another path. The top-level
functions are those `CallGraph` can have found: all without caller and at most one
that gained its caller later through a function pointer.

*CallGraph*: five functions, two of which nothing calls by name, one with a function
pointer as parameter, a lambda and a system header among them; pointers are set, set again,
passed on, also through two functions in a row, and called in either order. `PointerCallsFound`
asks for pointers that are set and passed on once (`SetOnce`): a function with pointers among its parameters is
called by one statement, of a function that the graph has, and never through a pointer; a local pointer is
set by one statement, from one source, before it is used. Without this the pass, which overwrites what it
knew and sees each function once in a walk, misses calls; neither may the one call be of a constructor
or hidden from the visitor. The programs that meet this and those that do not are both among the
instances, and so are calls behind what is not shown. *InterProcedureCFG*: `main` calls `f` in each of several
graphs (calls in a row, in a branch, as a condition, as one that is known to be false, in a loop), `f` calls
`g` or itself, `g` may call back, also where `main` calls nothing and no walk takes that ring apart; the three functions lie in one to three units with room for one to three, so that a callee
may or may not evict its caller. Searches are one, two and four edges long; the word wraps at 8,
which is above every path and lets a sibling wrap below zero.

*CFGPaths*: all structured programs of two nested or consecutive statements out of eleven kinds
(`if`, each kind of loop, with and without constant conditions, `break`, `goto`, `return`) and the
loop `L: goto L;`, whose blocks are not numbered like those of another, and a `goto` up to a label in front
of an endless loop or of a return, under four pairs of limits: enough room, each limit too small for some graph, and one path. `CoversReachable` asks
for loops that are entered at their heads (`LoopsEntered`) and that control can leave behind their
last block, if at all (`LoopsLeft`): of `for (;;) { if (c) break; x; }` no path of the cut graph takes
`x`. More than half of the graphs meet its conditions, nearly all those of the other two.
*PointToAnalysis*: two requests in a row, as the second meets what the first has written, on
functions of two blocks of statements and a branch, and on a function that is called from two
blocks of a caller or from two callers whose blocks share a number, by name or as an operator, with all units
in memory or three units and room for two; pointers of one type and of several, of one name and of
several; and a block that control does not reach. The units of one request fit in memory
(`RequestsAssumption`): whether the blocks of a path are still there is asked of `InterProcedureCFG`.

*FreeMethods*: three functions of one unit in all six orders with wrappers of `free` and of each
other, calls before the definition included, and functions of three units with room for two.
*BorrowedReference*: functions of four blocks with every kind of statement, loops and unreachable
blocks included; sequences of up to four functions of two units, which fit, or three, which do not.

*LoopDoubleFree*: graphs of four blocks. Without statements: every graph with two forks, a
straight block and an exit, pruned edges in some, among them unreachable loops and several
entries. With statements: all forks of two blocks that free, assign and free again, so that a
loop may come back along every path within the three edges the search looks. *ImmediateUAF*:
three blocks with a fork after the first, `p`, a field of what it points to and a second pointer `q`,
calls that free one or two of them, and the depth 2 of `tests/config.txt`.

`NearFreeReported` and `NearUseReported` ask only for variables that are assigned
nowhere. That is as far as the code keeps it: an assignment on one path takes the variable from
the paths searched later. The distance is two edges for a second free, since the third edge is
searched for one successor only. `NearUseReported` also leaves out a use in an assignment to something else
the call freed, as in `free_both(p, q); q = *p`: `isFreedArgsReferenced` forgets `q` and looks no
further at that statement (`immediate_uaf_checker.cpp:143-155`). `ReportsUseOfFreed` and
`ReportsOnPath` ask only of calls that free one expression of a variable: an assignment erases one,
and the other stays (`immediate_uaf_checker.cpp:153`).
`FreesRecognised`, `RegistrySound` and `MapSound` ask only of units that have never left memory, or
of programs that fit: beyond that the keys dangle and anything may match. `StraightLineExact` is
about functions that do not branch, since the walk takes blocks in an order of its own.

**Fairness.** All modules but two assume `WF_vars(Next)`: one thread runs a constructor, a
search or a `check`, and nothing else can hold it up. `ASTManager` and `ImmediateUAF` assume
none; the first serves calls that clients need not make, of the second only safety is
checked. `Terminates` says in each module that the loop ends in the state it is meant to end in:
either all is done, and a named property of the result holds, or the process has died for a named
reason. Deadlock is checked for `ASTManager_small` and `ASTManager_location`; the others stop when a
loop has ended or the process has died. In `BorrowedReference`, whose theorems share a module with those
of `LoopDoubleFree`, these names begin with `Borrow`.

**Refinement.** `PointToAnalysis` implements `PointsTo`: the instance maps the search under way and
the answers given so far to the request and answers of the abstract module, every turn of the backward
search is a stutter, and the step that ends a search gives an answer that a forward execution
allows. `KeepsPromise` is that instance's specification. `LoopDoubleFree` implements the
walk of `BlockWorklist`, which is proved.

## Proofs

Each theorem holds for every value of the constants that satisfies the named assumptions.

- `ASTManagerProofs`: under `ConfigAssumption` and `DistinctASTs` (no AST listed twice),
  `CacheInvariant` proves `CacheInv`. From it follow the consistency of each table, all of them together
  (`TablesAlwaysAgree`), `ResultsCurrent` and, with `HasRoom` (no limit of 0), `ManagerNeverDies`; the
  run `_misconfigured` shows why it needs both. `LastRequestedSafe` is an action property, which
  also needs that the unit returned is at the end of the queue (`RequestedIsLast`). The properties are
  not inductive one by one: that an eviction erases all handles of the victim needs that the queue
  names it once, and that its name leads to the file object that owns the handles (`FilesAdded`).
  `FaultsExplained` and `EvictionIsMinimal` hold of every configuration: where an AST is listed twice they
  rest on `QueueTyped` alone, which no such list breaks, and on what the loop of pops stops at (`PopExplained`).
- `NonRecursiveCallGraphProofs`: under `CallGraphAssumption`, `NoRing` proves
  `NoRingBelowTop`. The invariant `WalkInv` says that the functions from which
  `spanningTree` has returned are closed under the unmarked calls and free of rings, and
  for each frame of the recursion (`FrameInv`) that its unmarked callees already met are
  finished, but for the one it waits for. When a function finishes, all it calls is finished,
  so it is the bottom of no new ring. At the end all top-level functions are finished.
  `OnlyRingsMarked` adds `RingInv`: the frames are a chain of calls and every grey function is
  among them, so a call to one closes a ring. `NothingLost` proves `ReachabilityPreserved` from
  `ReachInv`: unmarked calls lead from a top-level function along the stack (`StackKept`) and to
  every visited function; a call is marked only when its callee is on the stack, so the callee is
  still reached without it. `Mirrored` and `ThrowOnlyAtTop` are the two directions of the edges
  and the cause of the exception.
  `EveryPathFound` proves `PathsFound`: below the top level no chain of calls repeats a function (`ChainDistinct`),
  so chains are no longer than there are functions, of which `CallGraphAssumption` has finitely many. Within
  that depth the recursion of `getReachablePath` ends, and the set it collects is that of the chains.
- `CallGraphProofs`: under `ProgramsAssumption` (finitely many functions and pointers, each
  statement about what its kind is about), `GraphInvariant` proves `GraphInv`, and from it follow
  `GraphSound` and `TopLevelCovers`, for every order of the nodes and every choice of what is shown. `Counted` bounds how often an
  edge occurs: the walk from the last top-level function has one edge to give until it has come to the
  caller (`Ahead`), and then that of the next. That a removed node has no edges needs `Walking`: as
  long as the top-level function calls nothing, the walk has seen nothing else, so nothing has come to
  call it. That each call through a pointer is one the program can make rests on
  two facts: `FlowsFacts`, that the rounds of `Flows` are enough to reach a fixed point, since
  every round but the last adds a function to a pointer (`RoundsSuffice`), and `AfterFits`, that one pass over
  the statements keeps what it knows within that fixed point, whatever it overwrites.
  `PointerCallsAlwaysFound` proves the converse, `PointerCallsFound`, for programs that meet `SetOnce`.
  A pass that knows all that is due before a statement knows all that is due behind it (`Due`,
  `VisitKnows`), so it knows what a pointer can have where it is called (`PointerCallsComplete`) and, at its end,
  what it has passed to the functions that it calls by name, which alone put functions with pointers among
  their parameters into the queue. `WalkInv` (`WalkInvariant`) says that what has been seen has been passed its
  pointers (`Passed`) and that the functions the walks have been over, with the queue, are closed under the edges (`Walked`).
  A top-level function is passed nothing: no node calls it, and one that was removed called no node (`Kept`).
- `InterProcedureCFGProofs`: `LinksInvariant` proves `LinksInv`, and `LinksAlwaysMirrored` from it
  that each link is known at both ends, as often as it was made, for every program and size of the
  cache, and also where the constructor stops at a destroyed CFG: the four appends of a link
  add one to both counts. `DirectionsAlwaysAgree` needs of it that what leads out of an exit leads behind
  a call that is linked itself (`Anchored`). `EntersAlwaysOnce` is about the graph alone: below the top-level
  functions the non-recursive call graph has no cycle (which is what `NoRing` establishes there; rings elsewhere
  are left), so the descendants of a function there (`Descendants`) do not contain it, and a chain of calls that
  goes down never comes back. `AlwaysMemorySafe`
  follows from `MemoryInv` (`MemoryInvariant`): no cached CFG without its unit, and as long as a function
  and what it calls fit into the cache, all units used since the constructor entered the function
  are theirs (`Recent`, `Held`), so its own is not evicted; where all units fit, every CFG is built
  once and no pointer outlives it (`Pointer`).
- `CFGPathsProofs`: `LimitsHold`, for every graph and all limits. The invariant `Bounded` says that
  the path of the call at the top is one block longer than the recursion is deep and that a
  level is entered only if the test before it has left room, so no caller needs to test again.
  `PathsAreProper` and `PathsFollowProgram` follow from `CutPaths`: the frames and every path kept go by
  `getNonRecursiveSucc`. That no block is taken twice is proved where the blocks are numbered
  as clang numbers those of a program (`Numbered`): a path goes up only at the end of a loop, and
  leaves the loop there. What comes behind the end of a loop is compared with the head only where no `goto`
  leads into the loop (`LoopsNested`). Both are conditions of the properties, which TLC checks on all graphs.
  `ReachableCovered` proves `CoversReachable`. The search loses no path that has room: `AllFound`
  (`FoundInvariant`) says that, as long as the number of paths is not used up, every path of the cut graph that fits
  is kept already or goes on from a frame of the stack by a successor still to come. What is left is about
  the graph alone: control that comes into a loop came through its head, which a cut path reaches
  too (`FollowReached`), and from every block that control can leave a cut path leads to the exit (`WayToExit`): the
  lowest block without one would end a loop, and be left there.
- `ImmediateUAFProofs`: `ReportedOnce` from `ReportInv`: a report names a freeing statement behind the
  walk, and while a search is on, not the one it started from. `ReportsAreUses` and `NullIsNear`
  from `WayInv`: the calls of `checkSuccessor` under way are a chain of control flow edges
  (`Chained`) from the free to the statement at hand, and every expression still in `freeargs` was
  left intact along all of it (`Intact`), although all branches share the set: branches only
  take expressions out. Where a reported use mentions such an expression the chain is the path.
  `NearUseFound` proves `NearUseReported` from `NearInv`, the converse: for a pointer that is never assigned,
  the successors that the calls under way are through with lead to no use within the depth they
  have left (`Explored`), and a free that is behind and unreported has none near it. When a call returns, the
  step says that what was tried one edge on is what is near one edge back, by splitting the first edge off a way.
  The module also holds the proofs about the stage before the search, `FreeMethods`, under `FreeAssumption`:
  `RegistryAlwaysSound` and `FreesAlwaysRecognised` from `NotedInv` (`LabellingInvariant`). For every declaration
  whose unit has not left memory it says what is noted: `free` once it was called outside of arguments, a wrapper once it was
  looked at and found at the end of a chain, with the parameters it passes down one. A chain ends with a
  function that passes on to `free` or to the end of a shorter chain before it (`ChainStep`), which is what
  `checkFreeMethod` finds in the registry (`MarkedFacts`), since what a call refers to is in the caller's own unit.
  A unit that has not left memory was in it before each request (`HeldInv`), so nothing that is loaded and
  comes to lie at a freed address is a declaration of it (`StaysFacts`). That the arguments noted are really
  freed where calls are aligned is `ChainFrees`: what a chain hands on is handed on where the next function frees it.
- `LoopDoubleFreeProofs`: under `GraphAssumption`, `WorklistAssumption` and `CallAssumption`,
  `ReachableExamined` proves that the walk of `BlockWorklist` looks at exactly the reachable blocks, although it
  marks blocks late. `WalkInv` says that every successor of an examined block, and every marked
  block, is examined, at hand or queued. The walk is the abstract specification of the checker.
  `ImplementsWalk` proves `Spec => WalkSpec`: every step is a step of the walk or leaves
  it alone. `CheckerExaminesReachable` takes the walk's property over to the checker, and
  `LoopInvariant` adds that all statements behind have been searched from, which gives
  `ReachableFreesSearched`. `ReportsLieOnPath` proves `ReportsOnPath`
  from `WayInv`, which is as in `ImmediateUAFProofs`; here a search goes on after a hit, which is sound
  since a statement that assigns is never reported. `NearFreeFound` proves `NearFreeReported` as above,
  with two edges for the depth; `CallAssumption`, that no call is an assignment, is what the code's two
  branches over the kind of statement come to.
  The module also holds the proof about the other user of the walk, `BorrowedReference`, under
  `BorrowAssumption`: `MapAlwaysSound` proves `MapSound`. A variable of the map could be freed by a request for
  the unit of a later function. `MapInv` (`MapInvariant`) says that the units of the functions examined so far
  are exactly the last ones of the queue of the ASTManager, and that all variables of the map are declared in
  them. A unit that is freed is the first one of a full queue (`RequestFacts`); if it were among them the whole
  queue would be, and with the unit requested they would be more than fit (`FitsFacts`). So the map loses
  nothing, and each variable stays with the statement that borrowed it.
- `SequenceLemmas`: the library states induction with a predicate as parameter, which the provers
  cannot instantiate. `NaturalInduction` states it with a set, from the well-foundedness of `<`, and
  `Recursion` says that a function exists which takes its value at `n` from that at `n - 1`, so that what a recursive
  definition such as `Within`, `Flows`, `After` or `FlattenSeq` yields can be proved.

Only model-checked: `Terminates` everywhere, since liveness under fairness is beyond the
prover; `KeepsPromise`, whose answers are computed by recursion over the path, and the other properties of
`PointToAnalysis`; and `StraightLineExact`, which compares the map with the whole history of a walk.

## What the code does beyond what the properties say

Seen while modelling; the properties above are stated so that they leave these out, or name them.

- *Units.* A position lookup uses pointers of the first load (the run above). The lambdas of a
  function come out of a set of pointers (`Common.cpp:690`), so after a reload two handles may have
  changed declarations.
- *Call graph.* `doc/Framework.md:30` calls the top-level functions those without callers; one may
  gain a caller through a pointer later. A call through a pointer that several walks meet becomes an
  edge each time, against the comment at `CallGraph.cpp:8`. A call among the arguments of a lambda call
  that is not shown, in the operand of a `delete` whose destructor is not, or in the body of a lambda is no edge, so
  its callee may be a top-level function with a caller; a function pointer handed to a constructor is not followed, and
  neither is a constructor without definition in the unit. A function of a system header that nothing
  calls loses its node but stays top-level, and the non-recursive copy throws. Rings that no
  function outside calls are never walked and stay (`doc/Framework.md:66` calls the result free
  of recursion); `getReachablePath` would recurse in them without end.
- *Whole program graph.* `getCFG` builds graphs with plain options (`ASTManager.cpp:381`), so blocks
  do not end at calls as `include/CFG/README.md:25` expects, and only a call that comes last in its block
  is linked. `getSucc` of an exit returns the return sites of all callers. The k-th sibling of a
  search gets a path k edges shorter. A call that is a condition known to be false has no first
  successor, and the constructor dereferences it (`InterProcedureCFG.h:133`); in a ring that no top-level function leads to,
  a walk without recursion still enters functions again. The driver builds no call graph and hands the points-to analysis
  null for it (`main.cpp:43`), so this part runs in tests only.
- *Paths.* `do {} while (1)` makes `getNonRecursiveSucc` dereference null, and so does
  `retry: x(); while (1) { ... goto retry; }`; a `goto` up to a label before a `return` fails its assertion. The body of
  `while (a && b)` and code after a `return` in `for (;;)` lie on no path.
- *Points-to.* After `p = c ? &a : &b; q = p`, `q` resolves to one branch and `p` to the other.
  Two pointers to one unknown object (`p = malloc(); q = p`) are never aliases. Two calls in blocks
  of one number share the arguments of the first. The arguments of an overloaded operator are not recorded although the
  call is linked, so a search into it reads past the end (`PointToAnalysis.cpp:230`); blocks in dead code have no node
  and are dereferenced where they lie on a path (`PointToAnalysisAlg.cpp:193`); arguments recorded of a unit that was evicted
  dangle (`Node.h:344`). An alias whose type is spelled differently, or of a variable of the same name, is not reported.
- *Freeing functions.* A wrapper that comes before what it wraps is missed, and so is one whose
  callee is defined in another unit, since a prototype has another key. Every parameter in any
  argument of a freeing call is marked, also where only another one is freed: with `g(a, b) { free(b); }`
  noted, `f(p) { g(p, 0); }` is noted as freeing `p`, against "eg, freecall(xx0,xx1), xx1 is freed"
  (`Common.h:21`). With more units than `queue_size`, calls of `free` in a reloaded unit are not
  recognised, and an entry found at a reused address may ask a call for an argument it has not.
- *Searches.* An assignment in one branch hides a use in the other, and an assignment to something
  else the call freed hides a use of it on its own right-hand side; a constant condition makes
  `checkSuccessor` dereference a null successor where `loop_doublefree_checker` has a test; a loop longer
  than three edges is not searched to its end; `p = p->next` after `free(p)` is not reported; with
  `checkDepth` 2 the search looks two blocks ahead where `README.md:8` says adjacent.
- *Borrowed references.* After an eviction the names of freed declarations are read
  (`borrowed_reference_checker.cpp:89`). A call through a pointer neither borrows nor renews.

## Not modelled

`stack_uaf_checker`, `realloc_checker` and `memory_alloc_checker` match the shapes of
statements and keep no state but the report; what they ask of the points-to analysis is in
`PointToAnalysis`. The parser of `Config` runs once and keeps strings, `buildUseFunctions` is
one pass over two maps before anything else runs; what they produce are constants here. Of the points-to
analysis member fields, member methods and default arguments are left out: the instance that a
path carries along would double the state without another decision in the search. Logging,
dumps and the driver's set-up are output or straight-line code. clang's parsing, AST queries and CFG
construction are external; the modules take their results as constants. `insertFunction` of
`ASTManager` and `topo_sort` have no caller. Memory sizes do not appear: a unit is in memory or not.

## Left for later

An abstract cache that `ASTManager` implements; member fields in `PointToAnalysis`; a proof of
`StraightLineExact` in `BorrowedReference`.
