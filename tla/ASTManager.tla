------------------------------ MODULE ASTManager ------------------------------
(***************************************************************************)
(* The AST manager of lib/framework/ASTManager.cpp: a bounded cache of     *)
(* clang AST units, and the tables that tie the persistent handles of the  *)
(* framework (ASTFunction, ASTVariable, ASTGlobalVariable) to pointers     *)
(* into the units that are in memory at the moment.                        *)
(*                                                                         *)
(* A unit read from disk lies at an address of the heap; the address is    *)
(* free again once the unit is evicted, so a later unit may get it.  A     *)
(* FunctionDecl* or VarDecl* is a pair <<address of its unit, decl>>.  A   *)
(* CFG is known by the FunctionDecl it was built from (parentDecls).  The  *)
(* std containers are total functions, Null standing for an absent key.    *)
(*                                                                         *)
(* An address stands for a whole placement of a unit.  getCalledLambda     *)
(* lists the lambdas of a function in the order of their pointers, so what *)
(* is at a place of the list depends on where the unit lies.               *)
(***************************************************************************)
EXTENDS Naturals, FiniteSets, Sequences, SequencesExt

CONSTANTS
  ASTList,    \* the AST files named on the command line, in order
  Decl,       \* the declarations a unit may contain
  FuncDecl,   \* FuncDecl[n][a]: what getFunctions and getCalledLambda list for AST n at a
  FuncLoc,    \* FuncLoc[n]: where each of those begins, Null for a lambda
  VarDecl,    \* VarDecl[kind][n]: the variables of AST n, in push order
  QueueSize,  \* Framework.queue_size of the configuration
  Limits,     \* what clients pass to setMaxSize
  Addr,       \* the addresses at which the heap may place a unit
  Null

AST == ToSet(ASTList)
File == DOMAIN ASTList         \* the ASTFile objects, one per entry of ASTList
VarKind == {"local", "global"} \* variableLeft/Right and astgv2gvd/gvd2astgv
Loc == UNION {ToSet(FuncLoc[n]) : n \in AST} \ {Null}
Pointer == Addr \X Decl

\* A handle names its ASTFile object and its place among the handles of that file.
Function == UNION {{i} \X DOMAIN FuncLoc[ASTList[i]] : i \in File}
VariableOf(kind) == UNION {{kind} \X {i} \X DOMAIN VarDecl[kind][ASTList[i]] : i \in File}
Variable == UNION {VariableOf(kind) : kind \in VarKind}

ASSUME ConfigAssumption ==
  /\ ASTList \in Seq(AST)
  /\ FuncDecl \in [AST -> [Addr -> Seq(Decl)]]
  /\ VarDecl \in [VarKind -> [AST -> Seq(Decl)]]
  /\ \A n \in AST : FuncLoc[n] \in Seq(ToSet(FuncLoc[n]))
                    /\ \A a \in Addr : Len(FuncDecl[n][a]) = Len(FuncLoc[n])
  /\ QueueSize \in Nat /\ Limits \subseteq Nat
  /\ Null \notin Addr \cup Pointer \cup Function \cup Variable

\* What the code relies on and does not check: no AST is listed twice, ...
DistinctASTs == \A i, j \in File : ASTList[i] = ASTList[j] => i = j

\* ... and the cache has room for a unit.
HasRoom == QueueSize > 0 /\ 0 \notin Limits

VARIABLES
  cursor,        \* the entry of ASTList the constructor loads next
  fileObj,       \* resource.ASTs: the ASTFile object of a name, 0 if none yet
  named,         \* the declaration whose name and ID an ASTFunction was given
  max_size,
  ASTQueue,      \* units in memory, the next victim first
  ASTs,          \* the unit that stands for a name
  functionMap,   \* bimap: ASTFunction -> FunctionDecl*
  variableLeft,  \* bimap: ASTVariable (ASTGlobalVariable) -> VarDecl*
  variableRight, \* bimap: VarDecl* -> ASTVariable (ASTGlobalVariable)
  CFGs,          \* ASTFunction -> the FunctionDecl* its CFG was built from
  funcLocInfo,   \* source location -> FunctionDecl*
  fault,         \* how the process died, if it did
  ret            \* the last call: its operation, argument and result

cache == <<ASTQueue, ASTs, functionMap, variableLeft, variableRight>>
setup == <<cursor, fileObj, named, funcLocInfo>>
vars == <<setup, max_size, cache, CFGs, fault, ret>>

ASTOf(F) == ASTList[F[1]]
FD(F, a) == <<a, FuncDecl[ASTOf(F)][a][F[2]]>>
ASTOfVar(V) == ASTList[V[2]]
VD(V, a) == <<a, VarDecl[V[1]][ASTOfVar(V)][V[3]]>>

Returns(op, arg, val) == ret' = [op |-> op, arg |-> arg, val |-> val]

Init ==
  /\ cursor = 1
  /\ fileObj = [n \in AST |-> 0]
  /\ named = [F \in Function |-> Null]
  /\ max_size = QueueSize
  /\ ASTQueue = <<>>
  /\ ASTs = [n \in AST |-> Null]
  /\ functionMap = [F \in Function |-> Null]
  /\ variableLeft = [V \in Variable |-> Null]
  /\ variableRight = [p \in VarKind \X Pointer |-> Null]
  /\ CFGs = [F \in Function |-> Null]
  /\ funcLocInfo = [l \in Loc |-> Null]
  /\ fault = "none"
  /\ ret = [op |-> "none", arg |-> Null, val |-> Null]

-----------------------------------------------------------------------------
(* The cache: loadASTUnit, pop, push and move.  Here and below, a          *)
(* definition without a comment right before a commented one is a slip one *)
(* could make in the code of the latter; the runs must tell them apart.    *)

FreeAddr == Addr \ {u.addr : u \in ToSet(ASTQueue)}

PopsTooMany == IF Len(ASTQueue) + 1 < max_size THEN 0 ELSE Len(ASTQueue) + 2 - max_size
PopsTooFew == IF Len(ASTQueue) <= max_size THEN 0 ELSE Len(ASTQueue) - max_size

\* How many times the loop of loadASTUnit calls pop.
Pops == IF Len(ASTQueue) < max_size THEN 0 ELSE Len(ASTQueue) + 1 - max_size

ErasedButFirst(files) == {files[ASTQueue[q].ast] : q \in 2..Pops}

\* The ASTFile objects whose handles those pops erase.
Erased(files) == {files[ASTQueue[q].ast] : q \in 1..Pops}

CFGsLeftBehind(files) == CFGs

\* The CFGs those pops leave.
CFGsKept(files) == [F \in Function |-> IF F[1] \in Erased(files) THEN Null ELSE CFGs[F]]

\* The entries of variableRight (gvd2astgv) that removeVariable (removeGlobalVariable)
\* finds through variableLeft before it erases that entry.
Unbound(files) == {<<V[1], variableLeft[V]>> : V \in {W \in Variable : W[2] \in Erased(files)}}

\* push inserts in order: of the variables that share a VarDecl the last one stays.
LastWith(p, i, a) ==
  CHOOSE V \in VariableOf(p[1]) :
    /\ V[2] = i /\ VD(V, a) = p[2]
    /\ \A W \in VariableOf(p[1]) : W[2] = i /\ VD(W, a) = p[2] => W[3] <= V[3]

\* The unit of AST n, just read to address a, enters the queue.
LoadASTUnit(files, n, a) ==
  LET i == files[n] IN
  /\ Pops <= Len(ASTQueue)
  /\ ASTQueue' = Append(SubSeq(ASTQueue, Pops + 1, Len(ASTQueue)), [ast |-> n, addr |-> a])
  /\ ASTs' = [m \in AST |-> IF m = n THEN a
                            ELSE IF \E q \in 1..Pops : ASTQueue[q].ast = m THEN Null
                            ELSE ASTs[m]]
  /\ functionMap' = [F \in Function |-> IF F[1] = i THEN FD(F, a)
                                        ELSE IF F[1] \in Erased(files) THEN Null
                                        ELSE functionMap[F]]
  /\ variableLeft' = [V \in Variable |-> IF V[2] = i THEN VD(V, a)
                                         ELSE IF V[2] \in Erased(files) THEN Null
                                         ELSE variableLeft[V]]
  /\ variableRight' = [p \in VarKind \X Pointer |->
       IF \E V \in VariableOf(p[1]) : V[2] = i /\ VD(V, a) = p[2] THEN LastWith(p, i, a)
       ELSE IF p \in Unbound(files) THEN Null
       ELSE variableRight[p]]

MoveToFront(n) == \E q \in DOMAIN ASTQueue :
  /\ ASTQueue[q].addr = ASTs[n]
  /\ ASTQueue' = <<ASTQueue[q]>> \o RemoveAt(ASTQueue, q)
  /\ UNCHANGED <<ASTs, functionMap, variableLeft, variableRight>>

\* move(ASTs[n]): the unit goes to the end of the queue.
Move(n) == \E q \in DOMAIN ASTQueue :
  /\ ASTQueue[q].addr = ASTs[n]
  /\ ASTQueue' = Append(RemoveAt(ASTQueue, q), ASTQueue[q])
  /\ UNCHANGED <<ASTs, functionMap, variableLeft, variableRight>>

\* The unit of n is brought to the end of the queue, from memory or from disk.
Request(n, hit) ==
  \/ hit /\ Move(n)
  \/ ~hit /\ \E a \in FreeAddr : LoadASTUnit(fileObj, n, a)

CFGsAfter(hit) == IF hit THEN CFGs ELSE CFGsKept(fileObj)

\* move asserts that it finds the unit; with max_size = 0 the loop of
\* loadASTUnit ends up popping an empty list.
Dies(n, hit) ==
  /\ \/ hit /\ (\A u \in ToSet(ASTQueue) : u.addr # ASTs[n]) /\ fault' = "move"
     \/ ~hit /\ Pops > Len(ASTQueue) /\ fault' = "pop"
  /\ UNCHANGED <<cache, CFGs, setup, max_size, ret>>

-----------------------------------------------------------------------------
(* The constructor: one step per AST file of the list.                     *)

FirstAt(n, l) == CHOOSE k \in DOMAIN FuncLoc[n] :
  FuncLoc[n][k] = l /\ \A h \in DOMAIN FuncLoc[n] : FuncLoc[n][h] = l => k <= h

\* saveFuncLocInfo for the functions of n: insert keeps what a set already holds.
FuncLocInfoWith(n, a) == [l \in Loc |->
  IF funcLocInfo[l] = Null /\ l \in ToSet(FuncLoc[n])
  THEN <<a, FuncDecl[n][a][FirstAt(n, l)]>> ELSE funcLocInfo[l]]

Construct ==
  /\ cursor \in File /\ fault = "none"
  /\ LET n == ASTList[cursor]
         files == [fileObj EXCEPT ![n] = cursor]
     IN \/ \E a \in FreeAddr :
             /\ LoadASTUnit(files, n, a)
             /\ CFGs' = CFGsKept(files)
             /\ funcLocInfo' = FuncLocInfoWith(n, a)
             /\ fileObj' = files
             /\ named' = [F \in Function |-> IF F[1] = cursor THEN FD(F, a)[2] ELSE named[F]]
             /\ cursor' = cursor + 1
             /\ UNCHANGED <<max_size, fault, ret>>
        \/ Dies(n, FALSE)

Ready == cursor > Len(ASTList) /\ fault = "none"

-----------------------------------------------------------------------------
(* What the checkers call.                                                 *)

\* The framework's getters answer a null handle with a null pointer.
NullHandle ==
  /\ Ready
  /\ \E op \in {"getFunctionDecl", "getVarDecl", "getGlobalVarDecl"} : Returns(op, Null, Null)
  /\ UNCHANGED <<setup, max_size, cache, CFGs, fault>>

GetASTUnit(i) ==
  LET n == ASTList[i]
      hit == ASTs[n] # Null
  IN /\ Ready
     /\ \/ /\ Request(n, hit)
           /\ CFGs' = CFGsAfter(hit)
           /\ Returns("getASTUnit", i, ASTs'[n])
           /\ UNCHANGED <<setup, max_size, fault>>
        \/ Dies(n, hit)

GetFunctionDecl(F) ==
  LET hit == functionMap[F] # Null
  IN /\ Ready
     /\ \/ /\ Request(ASTOf(F), hit)
           /\ CFGs' = CFGsAfter(hit)
           /\ Returns("getFunctionDecl", F, functionMap'[F])
           /\ UNCHANGED <<setup, max_size, fault>>
        \/ Dies(ASTOf(F), hit)

\* getVarDecl and getGlobalVarDecl: a hit does not move the unit.
GetVarDecl(V) ==
  LET hit == variableLeft[V] # Null
  IN /\ Ready
     /\ \/ /\ (hit /\ UNCHANGED cache) \/ (~hit /\ Request(ASTOfVar(V), FALSE))
           /\ CFGs' = CFGsAfter(hit)
           /\ Returns(IF V[1] = "local" THEN "getVarDecl" ELSE "getGlobalVarDecl",
                      V, variableLeft'[V])
           /\ UNCHANGED <<setup, max_size, fault>>
        \/ ~hit /\ Dies(ASTOfVar(V), FALSE)

\* A cached CFG is returned as it is; otherwise it is built from getFunctionDecl(F).
CFGOf(F) ==
  LET hit == functionMap[F] # Null
  IN \/ CFGs[F] # Null /\ UNCHANGED <<cache, CFGs>>
     \/ /\ CFGs[F] = Null
        /\ Request(ASTOf(F), hit)
        /\ CFGs' = [CFGsAfter(hit) EXCEPT ![F] = functionMap'[F]]

GetCFG(F) ==
  /\ Ready
  /\ \/ /\ CFGOf(F)
        /\ Returns("getCFG", F, CFGs'[F])
        /\ UNCHANGED <<setup, max_size, fault>>
     \/ CFGs[F] = Null /\ Dies(ASTOf(F), functionMap[F] # Null)

\* getASTFunction(FD): some handle the bimap maps to FD.
FunctionsAt(p) == {F \in Function : functionMap[F] = p}

\* getBlockWithLoc, getStmtWithLoc, getBlocksWithLoc and getCandidatePair look the
\* function up by its position in the source; the result is a part of its CFG.
GetBlockWithLoc(l) ==
  LET found == IF funcLocInfo[l] = Null THEN {} ELSE FunctionsAt(funcLocInfo[l])
  IN /\ Ready
     /\ \/ /\ found = {}
           /\ Returns("getBlockWithLoc", l, Null)
           /\ UNCHANGED <<cache, CFGs, setup, max_size, fault>>
        \/ \E F \in found :
           \/ /\ CFGOf(F)
              /\ Returns("getBlockWithLoc", l, F)
              /\ UNCHANGED <<setup, max_size, fault>>
           \/ CFGs[F] = Null /\ Dies(ASTOf(F), TRUE)

\* The queue shrinks at the next load, not here.
SetMaxSize(size) ==
  /\ Ready
  /\ max_size' = size
  /\ Returns("setMaxSize", size, Null)
  /\ UNCHANGED <<setup, cache, CFGs, fault>>

Next ==
  \/ Construct
  \/ NullHandle
  \/ \E i \in File : GetASTUnit(i)
  \/ \E F \in Function : GetFunctionDecl(F)
  \/ \E V \in Variable : GetVarDecl(V)
  \/ \E F \in Function : GetCFG(F)
  \/ \E l \in Loc : GetBlockWithLoc(l)
  \/ \E size \in Limits : SetMaxSize(size)

Spec == Init /\ [][Next]_vars

-----------------------------------------------------------------------------
(* Properties.                                                             *)

Units == [ast : AST, addr : Addr]

\* The variables hold values of the kinds the containers of the class declare.
TypeOK ==
  /\ cursor \in 1..(Len(ASTList) + 1)
  /\ fileObj \in [AST -> 0..Len(ASTList)]
  /\ named \in [Function -> Decl \cup {Null}]
  /\ max_size \in Limits \cup {QueueSize}
  /\ ASTQueue \in Seq(Units)
  /\ ASTs \in [AST -> Addr \cup {Null}]
  /\ functionMap \in [Function -> Pointer \cup {Null}]
  /\ variableLeft \in [Variable -> Pointer \cup {Null}]
  /\ variableRight \in [VarKind \X Pointer -> Variable \cup {Null}]
  /\ CFGs \in [Function -> Pointer \cup {Null}]
  /\ funcLocInfo \in [Loc -> Pointer \cup {Null}]
  /\ fault \in {"none", "move", "pop"}

\* push, pop and move keep the list of units and the map from names to units in
\* step: every unit in memory is the one its name stands for, once, and no other.
QueueMirrorsASTs ==
  /\ \A n \in AST : ASTs[n] # Null => [ast |-> n, addr |-> ASTs[n]] \in ToSet(ASTQueue)
  /\ \A q \in DOMAIN ASTQueue : ASTs[ASTQueue[q].ast] = ASTQueue[q].addr
  /\ \A q, r \in DOMAIN ASTQueue : q # r => ASTQueue[q].ast # ASTQueue[r].ast
                                         /\ ASTQueue[q].addr # ASTQueue[r].addr

\* push and pop bind exactly the handles of the units in memory, each to its own
\* declaration in the unit that is there now: no handle keeps a freed pointer.
BimapMirrorsUnits ==
  /\ \A F \in Function :
       functionMap[F] = IF ASTs[ASTOf(F)] = Null THEN Null ELSE FD(F, ASTs[ASTOf(F)])
  /\ \A V \in Variable :
       variableLeft[V] = IF ASTs[ASTOfVar(V)] = Null THEN Null ELSE VD(V, ASTs[ASTOfVar(V)])

\* getASTVariable answers exactly for the VarDecls some variable is bound to now, and
\* with a variable bound to that VarDecl: removeVariable leaves nothing behind.
RightMirrorsLeft ==
  \A kind \in VarKind, p \in Pointer :
    IF \E V \in VariableOf(kind) : variableLeft[V] = p
    THEN /\ variableRight[<<kind, p>>] \in VariableOf(kind)
         /\ variableLeft[variableRight[<<kind, p>>]] = p
    ELSE variableRight[<<kind, p>>] = Null

\* A cached CFG was built from the declaration its function has now: pop drops the
\* CFGs of a unit with the unit, and getCFG never serves one of a freed unit.
CFGsFresh == \A F \in Function : CFGs[F] # Null => CFGs[F] = functionMap[F]

\* push, pop, move and getCFG change five tables one after the other; over any sequence
\* of calls the queue, the map of units, the bimaps, their reverse sides and the CFG
\* cache tell the same story.
TablesAgree ==
  /\ TypeOK
  /\ QueueMirrorsASTs
  /\ BimapMirrorsUnits
  /\ RightMirrorsLeft
  /\ CFGsFresh

\* What the getters return belongs to a unit in memory and is the declaration of the
\* handle asked for, also when the call had to evict units to load it.
ResultIsCurrent ==
  /\ ret.op \in {"getFunctionDecl", "getCFG"} /\ ret.arg # Null =>
       ASTs[ASTOf(ret.arg)] # Null /\ ret.val = FD(ret.arg, ASTs[ASTOf(ret.arg)])
  /\ ret.op \in {"getVarDecl", "getGlobalVarDecl"} /\ ret.arg # Null =>
       ASTs[ASTOfVar(ret.arg)] # Null /\ ret.val = VD(ret.arg, ASTs[ASTOfVar(ret.arg)])
  /\ ret.op = "getASTUnit" =>
       \E u \in ToSet(ASTQueue) : u.ast = ASTList[ret.arg] /\ u.addr = ret.val

\* The process never dies in the manager: move finds its unit (the assertion of
\* ASTManager::move) and pop has a unit to evict.
NoFault == fault = "none"

\* Only the two mistakes that nothing checks kill the process: pop meets an empty queue
\* only if max_size is 0, move misses its unit only if the list names its AST twice.
FaultExplained ==
  /\ fault = "pop" => max_size = 0
  /\ fault = "move" => \E i, j \in File : i # j /\ ASTList[i] = ASTList[j]

Evicts == ToSet(ASTQueue) \ ToSet(ASTQueue') # {}
Loads == ToSet(ASTQueue') \ ToSet(ASTQueue) # {}

\* A call evicts only to make room: after a load the queue is within max_size, and
\* full if anything had to go; a call that loads nothing evicts nothing.
EvictsOnlyForRoom ==
  [][/\ Loads => Len(ASTQueue') <= max_size
     /\ Evicts => Loads /\ Len(ASTQueue') = max_size]_vars

\* The AST file of the unit that a getter moved to the end of the queue, if the last
\* call was one that does so on a hit and on a miss.
Requested ==
  IF ret.op = "getASTUnit" THEN {ASTList[ret.arg]}
  ELSE IF ret.op = "getFunctionDecl" /\ ret.arg # Null THEN {ASTOf(ret.arg)}
  ELSE {}

\* If two units fit, the unit that getASTUnit or getFunctionDecl returned stays where
\* it is over the next call: a checker may look at two functions at a time.
LastRequestedStays ==
  [][max_size >= 2 => \A n \in Requested : ASTs'[n] = ASTs[n]]_vars

\* A lookup by position gives a block of a function that begins there ("get cfg block
\* with file name and lines", ASTManager.cpp:489).
LocLookup ==
  ret.op = "getBlockWithLoc" =>
    ret.val # Null /\ FuncLoc[ASTOf(ret.val)][ret.val[2]] = ret.arg

-----------------------------------------------------------------------------
(* The inductive invariant behind QueueMirrorsASTs, BimapMirrorsUnits,     *)
(* RightMirrorsLeft, CFGsFresh, ResultIsCurrent and FaultExplained.        *)

\* resource.ASTs holds the entries of ASTList before the cursor, each under its own
\* name, and nothing is in memory that was not added to it.
FilesAdded ==
  /\ \A i \in File : i < cursor => fileObj[ASTList[i]] = i
  /\ \A n \in AST : fileObj[n] # 0 => fileObj[n] < cursor /\ ASTList[fileObj[n]] = n
  /\ \A n \in AST : ASTs[n] # Null => fileObj[n] # 0

\* No call has returned before the constructor has; a result names its handle.
RetTyped ==
  /\ cursor \in File => ret.op = "none"
  /\ ret.op \in {"getFunctionDecl", "getCFG"} => ret.arg \in Function \cup {Null}
  /\ ret.op \in {"getVarDecl", "getGlobalVarDecl"} => ret.arg \in Variable \cup {Null}
  /\ ret.op = "getASTUnit" => ret.arg \in File

\* The unit of the last call is the last one a load would evict.
RequestedIsLast ==
  \A n \in Requested : ASTQueue # <<>> /\ Last(ASTQueue) = [ast |-> n, addr |-> ASTs[n]]

CacheInv ==
  /\ TypeOK
  /\ FilesAdded
  /\ QueueMirrorsASTs
  /\ BimapMirrorsUnits
  /\ RightMirrorsLeft
  /\ CFGsFresh
  /\ RetTyped
  /\ ResultIsCurrent
  /\ FaultExplained

=============================================================================
