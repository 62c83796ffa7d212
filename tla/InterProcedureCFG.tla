--------------------------- MODULE InterProcedureCFG ---------------------------
(***************************************************************************)
(* The graph of the whole program (include/CFG/InterProcedureCFG.h): a     *)
(* block that ends with a call leads to the entry of the function called,  *)
(* whose exit leads back behind the call.  The graph keeps numbers of      *)
(* blocks; the blocks themselves lie in CFGs that the AST manager builds   *)
(* when they are asked for and destroys when it evicts their unit, while   *)
(* the code goes on with pointers to them.  A program p is a record:       *)
(*   p.functions     the functions of the resource, in order               *)
(*   p.unit[f]       the AST unit of f                                     *)
(*   p.elems[f][b]   the elements of block b: the function that is called, *)
(*                   or Null for another statement; a function without     *)
(*                   body has no blocks                                    *)
(*   p.succ[f][b]    the successors of block b, Null for one clang dropped *)
(*   p.cut[f]        the blocks that clang dropped an edge to              *)
(*   p.node          the functions with a node in both call graphs         *)
(*   p.top           the functions from which NonRecursiveCallGraph has    *)
(*                   walked, the top-level functions                       *)
(*   p.child[f]      the callees of f in the non-recursive call graph: the *)
(*                   rings that p.top leads to are gone, others remain     *)
(* Blocks are numbered from the exit, 0, which is empty and leads nowhere, *)
(* to the entry, to which no block leads.                                  *)
(***************************************************************************)
EXTENDS Naturals, Sequences, FiniteSets, SequencesExt, Filters

CONSTANTS
  Function, Unit,
  Programs,
  Sizes,        \* max_size of the AST manager
  Lengths,      \* the lengths of paths that clients ask for
  Word,         \* the values of an unsigned
  Null

HasBody(p, f) == p.elems[f] # <<>>
BlocksOf(p, f) == DOMAIN p.elems[f]
Places(p) == UNION {{f} \X BlocksOf(p, f) : f \in Function}

\* The functions that a chain of calls leads to from a top-level function.
Below(p) ==
  {f \in Function : \A S \in SUBSET Function :
     p.top \subseteq S /\ (\A g \in S : p.child[g] \subseteq S) => f \in S}

IsProgram(p) ==
  /\ p.functions \in Seq(Function) /\ p.unit \in [Function -> Unit] /\ p.node \subseteq Function
  /\ p.top \subseteq p.node /\ p.child \in [Function -> SUBSET p.node]
  /\ \A S \in (SUBSET Below(p)) \ {{}} : \E f \in S : p.child[f] \cap S = {}
  /\ p.cut \in [Function -> SUBSET Nat]
  /\ \A f \in Function : HasBody(p, f) =>
       LET B == BlocksOf(p, f) IN
       /\ IsFiniteSet(B) /\ B = 0..(Cardinality(B) - 1) /\ Cardinality(B) > 1
       /\ p.elems[f][0] = <<>> /\ p.succ[f][0] = <<>>
       /\ \A b \in B : /\ p.elems[f][b] \in Seq(Function \cup {Null})
                       /\ p.succ[f][b] \in Seq((B \ {Cardinality(B) - 1}) \cup {Null})
                       /\ p.elems[f][b] # <<>> => p.succ[f][b] # <<>>

ASSUME ProgramsAssumption ==
  /\ IsFiniteSet(Function) /\ Null \notin Nat
  /\ \A p \in Programs : IsProgram(p) /\ Null \notin Places(p) \cup [end : Places(p), len : Lengths]
  /\ Sizes \subseteq Nat \ {0} /\ Word \in Nat /\ Lengths \subseteq 1..(Word - 1)

VARIABLES
  program, max_size,
  memory,      \* the units in memory, next victim first; the functions whose CFG is
               \* cached; and how often the CFG of each function has been built
  pred, succ,  \* ICFG: of each <<function, block>>, the places it is linked to
  unseen,      \* the functions the constructor has not been through
  at,          \* where it is: a function and a block, Null between functions
  request,     \* what getPathBeforePointWithLength was asked for, Null before that
  calls,       \* its recursion: a path, the length left and the blocks still to follow
  res,         \* the paths it has found
  fault        \* "freed": a block of a destroyed CFG was read; "null successor": a successor
               \* that clang dropped was; "out_of_range": nodes.at threw

vars == <<program, max_size, memory, pred, succ, unseen, at, request, calls, res, fault>>

Entry(f) == <<f, Cardinality(BlocksOf(program, f)) - 1>>
Exit(f) == <<f, 0>>

-----------------------------------------------------------------------------
(* The AST manager, as far as blocks depend on it.                         *)

\* The unit u becomes the one used last; CFGs go with the units that make room for it.
Load(mem, u) ==
  LET hit == Contains(mem.units, u)
      others == Within(mem.units, Unit \ {u})
      kept == IF hit \/ Len(others) < max_size THEN others
              ELSE SubSeq(others, Len(others) + 2 - max_size, Len(others))
  IN [mem EXCEPT !.units = Append(kept, u),
                 !.cfgs = {f \in @ : program.unit[f] \in ToSet(kept) \cup {u}}]

\* Here and below, a definition without a comment right before a commented one is a
\* slip one could make in the code of the latter.
getCFGAnew(mem, f) == [Load(mem, program.unit[f]) EXCEPT !.cfgs = @ \cup {f}, !.built[f] = @ + 1]
\* A cached CFG is returned without a look at its unit.
getCFG(mem, f) ==
  IF f \in mem.cfgs THEN mem
  ELSE [Load(mem, program.unit[f]) EXCEPT !.cfgs = @ \cup {f}, !.built[f] = @ + 1]

\* A pointer to a block of the CFG that f has now; whether it still is one.
Block(mem, place) == [place |-> place, cfg |-> mem.built[place[1]]]
IsLive(mem, ptr) == ptr.place[1] \in mem.cfgs /\ mem.built[ptr.place[1]] = ptr.cfg

-----------------------------------------------------------------------------
(* The constructor.                                                        *)

Init ==
  /\ program \in Programs /\ max_size \in Sizes
  /\ memory = [units |-> <<>>, cfgs |-> {}, built |-> [f \in Function |-> 0]]
  /\ pred = [x \in Places(program) |-> <<>>] /\ succ = [x \in Places(program) |-> <<>>]
  /\ unseen = program.functions /\ at = Null
  /\ request = Null /\ calls = <<>> /\ res = <<>> /\ fault = "none"

search == <<request, calls, res>>
Constructing == fault = "none" /\ request = Null

\* getFunctionDecl and getCFG of the next function.
NextFunction ==
  /\ Constructing /\ at = Null /\ unseen # <<>>
  /\ LET F == Head(unseen)
         mem == Load(memory, program.unit[F])
     IN IF HasBody(program, F) THEN memory' = getCFG(mem, F) /\ at' = Exit(F)
        ELSE memory' = mem /\ at' = Null
  /\ unseen' = Tail(unseen)
  /\ UNCHANGED <<program, max_size, pred, succ, search, fault>>

\* The callee of the call that block x ends with, if it is to be linked.
CalleeOf(x) ==
  LET elems == program.elems[x[1]][x[2]]
  IN IF elems = <<>> THEN Null
     ELSE IF Last(elems) # Null /\ HasBody(program, Last(elems)) /\ Last(elems) \in program.node
          THEN Last(elems) ELSE Null

NextBlockWithCall == IF CalleeOf(at) = Null THEN at ELSE <<at[1], at[2] + 1>>
\* The loop goes through the blocks by their numbers.
NextBlock == IF at = Entry(at[1]) THEN Null ELSE <<at[1], at[2] + 1>>

SkipBlock ==
  /\ Constructing /\ at # Null /\ CalleeOf(at) = Null
  /\ at' = NextBlock
  /\ UNCHANGED <<program, max_size, memory, pred, succ, unseen, search, fault>>

AddFirst(links, x, y) == IF links[x] # <<>> THEN links ELSE [links EXCEPT ![x] = <<y>>]
\* A place has one list of links, whether it is new to the graph or not.
Add(links, x, y) == [links EXCEPT ![x] = Append(@, y)]
\* Where the exit of the callee leads: to the first successor of the call's block, which
\* clang has dropped if the call is a condition that it knows to be false.
FirstSuccessor(x) == program.succ[x[1]][x[2]][1]
Behind(x, g) == <<x[1], FirstSuccessor(x)>>

\* The block is linked with the entry of the callee and the exit with what follows, unless
\* the CFG of the callee has taken the place of the one that the loop goes through, or
\* what follows is not there.  Links made before that are lost with the process.
LinkCall ==
  /\ Constructing /\ at # Null /\ CalleeOf(at) # Null
  /\ LET g == CalleeOf(at)
         mem == getCFG(memory, g)
     IN /\ memory' = mem
        /\ IF at[1] \notin mem.cfgs
           THEN fault' = "freed" /\ UNCHANGED <<pred, succ, at>>
           ELSE IF FirstSuccessor(at) = Null
           THEN fault' = "null successor" /\ UNCHANGED <<pred, succ, at>>
           ELSE /\ succ' = Add(Add(succ, at, Entry(g)), Exit(g), Behind(at, g))
                /\ pred' = Add(Add(pred, Entry(g), at), Behind(at, g), Exit(g))
                /\ at' = NextBlock /\ UNCHANGED fault
  /\ UNCHANGED <<program, max_size, unseen, search>>

Ready == Constructing /\ at = Null /\ unseen = <<>>

-----------------------------------------------------------------------------
(* getPred and getSucc.                                                    *)

IntraPred(x) ==
  LET into(b) == [k \in 1..Cardinality({i \in DOMAIN program.succ[x[1]][b] :
                                          program.succ[x[1]][b][i] = x[2]}) |-> <<x[1], b>>]
  IN FlattenSeq([k \in 1..Cardinality(BlocksOf(program, x[1])) |-> into(k - 1)])
     \o (IF x[2] \in program.cut[x[1]] THEN <<Null>> ELSE <<>>)
IntraSucc(x) ==
  LET ids == program.succ[x[1]][x[2]]
  IN [k \in DOMAIN ids |-> IF ids[k] = Null THEN Null ELSE <<x[1], ids[k]>>]

\* getParents(F) throws where F has no node, getChildren(F) then is not called.
Parents(F) == {P \in Function : F \in program.child[P]}
Throws(links, x) == links[x] # <<>> /\ x[1] \notin program.node

AlongEither(ys, x, end) == Within(ys, {y \in ToSet(ys) : y[1] \in Parents(x[1]) \cup program.child[x[1]]})
\* The links along calls of the non-recursive call graph: to callers at the one end of a
\* function, to callees from everywhere else.
Along(ys, x, end) ==
  Within(ys, {y \in ToSet(ys) : y[1] \in (IF x = end THEN Parents(x[1]) ELSE program.child[x[1]])})

NeighboursInside(links, intra, x, end, nonRecursive) == IF intra # <<>> THEN intra ELSE links[x]
\* Links take the place of the edges of the function, unless the filter leaves none.
Neighbours(links, intra, x, end, nonRecursive) ==
  LET ys == IF nonRecursive THEN Along(links[x], x, end) ELSE links[x]
  IN IF ys # <<>> THEN ys ELSE intra
PredOf(x, nonRecursive) == Neighbours(pred, IntraPred(x), x, Entry(x[1]), nonRecursive)
SuccOf(x, nonRecursive) == Neighbours(succ, IntraSucc(x), x, Exit(x[1]), nonRecursive)

\* getPred gets the CFG of each predecessor; the pointers are those it returns.
getPred(mem, x) ==
  LET ys == PredOf(x, FALSE)
      after[k \in 0..Len(ys)] ==
        IF k = 0 THEN mem
        ELSE IF ys[k] = Null \/ pred[x] = <<>> THEN after[k - 1]
        ELSE getCFG(after[k - 1], ys[k][1])
  IN [mem |-> after[Len(ys)],
      blocks |-> [k \in DOMAIN ys |-> IF ys[k] = Null THEN Null ELSE Block(after[k], ys[k])]]

-----------------------------------------------------------------------------
(* getPathBeforePointWithLength and getSinglePathwithDFS.                  *)

Dec(n) == (n + Word - 1) % Word

searching == <<program, max_size, pred, succ, unseen, at, request>>

\* The call to follow block ptr with length len in front of path.
Visit(mem, ptr, path, len, below) ==
  IF len = 0 \/ ptr = Null
  THEN res' = Append(res, path) /\ calls' = below /\ memory' = mem /\ UNCHANGED fault
  ELSE IF ~IsLive(mem, ptr)
  THEN fault' = "freed" /\ UNCHANGED <<res, calls, memory>>
  ELSE IF Throws(pred, ptr.place)
  THEN fault' = "out_of_range" /\ UNCHANGED <<res, calls, memory>>
  ELSE LET longer == <<ptr.place>> \o path
       IN \E found \in {getPred(mem, ptr.place)} :
          /\ memory' = found.mem /\ UNCHANGED fault
          /\ IF found.blocks = <<>> THEN res' = Append(res, longer) /\ calls' = below
             ELSE /\ calls' = Append(below, [path |-> longer, len |-> len, todo |-> found.blocks])
                  /\ UNCHANGED res

\* A client asks for the paths that lead to a block it has just got.
Ask ==
  /\ Ready
  /\ \E x \in Places(program), n \in Lengths :
       /\ request' = [end |-> x, len |-> n]
       /\ \E mem \in {getCFG(memory, x[1])} : Visit(mem, Block(mem, x), <<>>, n, <<>>)
  /\ UNCHANGED <<program, max_size, pred, succ, unseen, at>>

\* The outermost call counts down from predecessor to predecessor, those below it from
\* block to block.
Remaining(call, below) == [call EXCEPT !.todo = Tail(@), !.len = IF below = <<>> THEN Dec(@) ELSE @]

Follow ==
  /\ fault = "none" /\ calls # <<>> /\ Last(calls).todo # <<>>
  /\ LET call == Last(calls)
     IN Visit(memory, Head(call.todo), call.path, Dec(call.len),
              Append(Front(calls), Remaining(call, Front(calls))))
  /\ UNCHANGED searching

Return ==
  /\ fault = "none" /\ calls # <<>> /\ Last(calls).todo = <<>>
  /\ calls' = Front(calls)
  /\ UNCHANGED <<searching, memory, res, fault>>

Next == NextFunction \/ SkipBlock \/ LinkCall \/ Ask \/ Follow \/ Return

\* The constructor and the search run to their end.
Spec == Init /\ [][Next]_vars /\ WF_vars(Next)

-----------------------------------------------------------------------------
(* Properties.                                                             *)

BlockPointer == [place : Places(program), cfg : Nat]

\* The variables hold places of the program and pointers to their blocks.
TypeOK ==
  /\ memory.units \in Seq(Unit) /\ Len(memory.units) <= max_size
  /\ memory.cfgs \subseteq {f \in Function : program.unit[f] \in ToSet(memory.units)}
  /\ at \in Places(program) \cup {Null}
  /\ \A x \in Places(program) : ToSet(pred[x]) \cup ToSet(succ[x]) \subseteq Places(program)
  /\ \A k \in DOMAIN calls :
       /\ calls[k].path \in Seq(Places(program)) /\ calls[k].len \in 0..(Word - 1)
       /\ \A j \in DOMAIN calls[k].todo : calls[k].todo[j] = Null \/ calls[k].todo[j] \in BlockPointer
  /\ \A k \in DOMAIN res : res[k] \in Seq(Places(program))

Occurs(y, ys) == Cardinality({k \in DOMAIN ys : ys[k] = y})
IsCall(x, g) == CalleeOf(x) = g /\ g # Null

\* The four entries made for a call belong together: a link is known at both of its ends,
\* leads from a call to the entry of the callee or from an exit to what follows a call of
\* the function, and the exit of a function has as many links as its entry.
LinksMirrored ==
  /\ \A x, y \in Places(program) :
       /\ Occurs(y, succ[x]) = Occurs(x, pred[y])
       /\ y \in ToSet(succ[x]) =>
            \/ IsCall(x, y[1]) /\ y = Entry(y[1])
            \/ x = Exit(x[1]) /\ \E c \in Places(program) : IsCall(c, x[1]) /\ y = Behind(c, x[1])
  /\ \A f \in {g \in Function : HasBody(program, g)} : Len(pred[Entry(f)]) = Len(succ[Exit(f)])

\* getPred and getSucc follow the same edges, with two exceptions: behind a call the other
\* ways to the block are lost backwards, and a block that ends with a call and branches
\* loses its branches forwards, all but the first being still found backwards.
DirectionsAgree ==
  Ready => \A x, y \in Places(program) :
    LET forth == y \in ToSet(SuccOf(x, FALSE))
        back == x \in ToSet(PredOf(y, FALSE))
    IN /\ forth /\ ~back => y \in ToSet(IntraSucc(x)) /\ \E c \in Places(program) \ {x} :
                               CalleeOf(c) # Null /\ y = Behind(c, CalleeOf(c))
       /\ back /\ ~forth => y \in ToSet(IntraSucc(x)) /\ CalleeOf(x) # Null /\ y # Behind(x, CalleeOf(x))

\* With isNoneRecursive a walk that enters a function below the top-level functions never
\* enters it again from within, recursive as the program may be, and every walk still leaves
\* every block that has an edge.  Functions that only call each other have no top-level
\* function above them, and walks go round among them.
EntersOnce ==
  LET enters == [F \in Function |-> {g \in Function : HasBody(program, g) /\
                   \E b \in BlocksOf(program, F) : Entry(g) \in ToSet(SuccOf(<<F, b>>, TRUE))}]
      n == Cardinality(Function)
      within[k \in 0..n] == IF k = 0 THEN enters
                            ELSE [F \in Function |-> within[k - 1][F] \cup UNION {enters[g] : g \in within[k - 1][F]}]
  IN Ready => /\ \A F \in Below(program) : F \notin within[n][F]
              /\ \A x \in Places(program) : IntraSucc(x) # <<>> => SuccOf(x, TRUE) # <<>>

Done == request # Null /\ calls = <<>> /\ fault = "none"

\* The chains of predecessors that lead to the block asked for, with n edges.
ChainsTo(end, n) ==
  LET chains[k \in 0..n] ==
        IF k = 0 THEN {<<end>>}
        ELSE UNION {{<<x>> \o c : x \in ToSet(PredOf(c[1], FALSE)) \ {Null}} : c \in chains[k - 1]}
  IN UNION {chains[k] : k \in 0..n}

\* What is found is every chain through the k-th predecessor that has len - k edges, or
\* fewer if no way leads further back: later predecessors get shorter paths, and those
\* after the len-th, the length having passed zero, practically endless ones.
PathsComplete ==
  Done => LET end == request.end
              ps == PredOf(end, FALSE)
              edges(k) == (request.len + Word - k) % Word
              ends(c, n) == Len(c) = n + 1 \/ PredOf(c[1], FALSE) = <<>> \/ Null \in ToSet(PredOf(c[1], FALSE))
          IN ToSet(res) =
               IF ps = <<>> THEN {<<end>>}
               ELSE UNION {LET n == edges(k)
                           IN IF n = 0 \/ ps[k] = Null THEN {<<end>>}
                              ELSE {c \in ChainsTo(end, n) :
                                      Len(c) > 1 /\ c[Len(c) - 1] = ps[k] /\ ends(c, n)} : k \in DOMAIN ps}

UnitsOf(fs) == {program.unit[f] : f \in fs}
CalleesOf(F) == {CalleeOf(<<F, b>>) : b \in BlocksOf(program, F)} \ {Null}

\* The constructor reads a block of a destroyed CFG only where a function and what it calls
\* take more units than the manager keeps, the search only where the program does; it reads
\* a successor that is not there only where a call decides alone between two ways, one of
\* which is known not to be gone; and nodes.at throws only for functions that call others and have been left out of the call
\* graph.
FaultExplained ==
  /\ fault = "freed" /\ request = Null =>
       Cardinality(UnitsOf({at[1]} \cup CalleesOf(at[1]))) > max_size
  /\ fault = "freed" => Cardinality(UnitsOf(Function)) > max_size
  /\ fault = "null successor" =>
       \E x \in Places(program) : CalleeOf(x) # Null /\ FirstSuccessor(x) = Null
  /\ fault = "out_of_range" => \E F \in Function \ program.node : CalleesOf(F) # {}
  /\ Cardinality(UnitsOf(Function)) <= max_size => \A f \in Function : memory.built[f] <= 1

\* The CFG cache holds no CFG of a unit that is gone, and whoever holds on to one reads it
\* only while its unit is in memory, but for those cases.
MemorySafe == TypeOK /\ FaultExplained

\* The constructor and the search come to an end, with loops and recursion as well, and
\* what the search has found by then is complete.
Terminates == <>((Done /\ PathsComplete) \/ fault # "none")

=============================================================================
