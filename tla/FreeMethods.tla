------------------------------ MODULE FreeMethods ------------------------------
(***************************************************************************)
(* How immediate_uaf_checker and loop_doublefree_checker learn which calls *)
(* free memory.  First lableAllFreeMethod goes through the functions once  *)
(* and notes in AllFreeMethods, under their declarations, free itself and  *)
(* the functions that pass a parameter on to a function noted before.      *)
(* Then check goes through them again and looks up the callee of every     *)
(* call.  The keys are pointers into the syntax trees of the units: what a *)
(* unit calls has declarations of its own, also if it is defined in        *)
(* another one, and a unit that ASTManager frees and loads again has all   *)
(* its declarations at other places.  This is a stage of those checkers,   *)
(* so the names of its specification leave theirs free.                    *)
(***************************************************************************)
EXTENDS Filters, FiniteSets, SequencesExt

CONSTANTS
  Decl,      \* the declarations of functions
  Home,      \* Home[d]: the unit that has declaration d
  FreeDecl,  \* the declarations with the name "free"
  ASTList,   \* the units, in the order in which they are loaded at first
  Programs,  \* the sequences of functions to be checked
  maxSize,   \* the units that ASTManager holds at once
  NoDecl

Unit == ToSet(ASTList)

\* A call: the declaration it refers to, NoDecl for a call through a pointer; for each
\* argument the parameter at its root, 0 for none; and whether the call is itself part
\* of an argument of another one.
Call == [callee : Decl \cup {NoDecl}, args : Seq(Nat), nested : BOOLEAN]
Function == [decl : Decl, params : Nat, calls : Seq(Call), body : BOOLEAN, header : BOOLEAN]

\* The functions of a program, each listed once.  A call refers to a declaration of the unit
\* that it stands in, and has the arguments that the prototype of the function asks for.
IsProgram(P) ==
  /\ P \in Seq(Function)
  /\ \A j, k \in DOMAIN P : P[j].decl = P[k].decl => j = k
  /\ \A k \in DOMAIN P : \A c \in ToSet(P[k].calls) :
       /\ c.callee # NoDecl => Home[c.callee] = Home[P[k].decl]
       /\ c.callee \in FreeDecl => c.args # <<>>
       /\ \A j \in DOMAIN P : c.callee = P[j].decl => P[j].params <= Len(c.args)

ASSUME FreeAssumption ==
  /\ NoDecl \notin Decl /\ ASTList \in Seq(Unit)
  /\ Home \in [Decl -> Unit]
  /\ FreeDecl \subseteq Decl
  /\ maxSize \in Nat \ {0}
  /\ \A P \in Programs : IsProgram(P)

VARIABLES
  program,        \* the functions
  phase,          \* "label", then "check"
  fn,             \* the function to be looked at next
  astQueue,       \* the units in memory, the next victim first
  AllFreeMethods, \* which parameters the noted functions free, by declaration
  dangling,       \* the entries whose declaration has been freed
  sites,          \* the calls that check took for freeing ones, and which arguments
  labelFault,     \* "getArg" once an argument was asked for that the call has not
  evicted         \* the units that have left memory; not part of the code

registry == <<AllFreeMethods, dangling>>
labelVars == <<program, phase, fn, astQueue, registry, sites, labelFault, evicted>>

LabelInit ==
  /\ program \in Programs
  /\ phase = "label"
  /\ fn = 1
  /\ astQueue = SubSeq(ASTList, IF Len(ASTList) > maxSize THEN Len(ASTList) - maxSize + 1 ELSE 1,
                      Len(ASTList))
  /\ AllFreeMethods = <<>>
  /\ dangling = {}
  /\ sites = {}
  /\ labelFault = "none"
  /\ evicted = Unit \ ToSet(astQueue)

Held == ToSet(astQueue)

\* A unit in memory moves to the end of the queue, another one is loaded, and only then
\* is there room made for it.
Requested(u) ==
  Append(IF u \in Held THEN Within(astQueue, Held \ {u})
         ELSE IF Len(astQueue) >= maxSize THEN Tail(astQueue) ELSE astQueue, u)

InMemory(r, S) == [d \in {e \in DOMAIN r : Home[e] \in S} |-> r[d]]

\* The registry r, with the declarations in S noted too; what was noted before stays.
Noting(r, S, marks) == [d \in DOMAIN r \cup S |-> IF d \in DOMAIN r THEN r[d] ELSE marks]

\* The registry once unit u was requested: the entries of a freed unit dangle, and a
\* declaration of u may have come to lie where the one of such an entry was.
Registries(u) ==
  LET now == ToSet(Requested(u))
      kept == InMemory(AllFreeMethods, now)
      freed == {AllFreeMethods[d] : d \in DOMAIN AllFreeMethods \ DOMAIN kept}
  IN {<<kept, dangling \cup freed>>} \cup
     IF u \in Held THEN {}
     ELSE {<<Noting(kept, {d}, r), (dangling \ {r}) \cup freed>> :
             d \in {e \in Decl : Home[e] = u}, r \in dangling}

Request(u) ==
  /\ astQueue' = Requested(u)
  /\ evicted' = evicted \cup (Held \ ToSet(Requested(u)))

F == program[fn]
Looking(p) == phase = p /\ fn <= Len(program) /\ labelFault = "none"

\* The calls that FindFreeMethod collects: it does not look into the arguments of a call.
freeCalls(r) ==
  {k \in DOMAIN F.calls : ~F.calls[k].nested /\ F.calls[k].callee \in FreeDecl \cup DOMAIN r}

\* free is noted as soon as a call of it is met.
WithFree(r) == Noting(r, {F.calls[k].callee : k \in freeCalls(<<>>)}, <<TRUE>>)

\* Here and below, a definition without a comment right before a commented one is a
\* slip one could make in the code of the latter.
MarkedFirst(r) ==
  [i \in 1..F.params |-> \E k \in freeCalls(r) : F.calls[k].args # <<>> /\ F.calls[k].args[1] = i]

\* A parameter is marked if it is an argument of a freeing call, whichever.
Marked(r) ==
  [i \in 1..F.params |-> \E k \in freeCalls(r) : i \in ToSet(F.calls[k].args)]

LabelledIfMarked(r) ==
  IF F.decl \in FreeDecl \/ ~F.body \/ \A i \in 1..F.params : ~Marked(r)[i] THEN r
  ELSE Noting(WithFree(r), {F.decl}, Marked(r))

\* What checkFreeMethod makes of the registry; updateFreeMethods never changes an entry.
Labelled(r) ==
  IF F.decl \in FreeDecl \/ ~F.body THEN r
  ELSE Noting(WithFree(r), IF \E i \in 1..F.params : Marked(r)[i] THEN {F.decl} ELSE {}, Marked(r))

\* checkFreeMethod on one function.
Label ==
  /\ Looking("label")
  /\ Request(Home[F.decl])
  /\ \E r \in Registries(Home[F.decl]) :
       AllFreeMethods' = Labelled(r[1]) /\ dangling' = r[2]
  /\ fn' = fn + 1
  /\ UNCHANGED <<program, phase, sites, labelFault>>

\* check goes through the functions again.
LabellingOver ==
  /\ phase = "label" /\ fn > Len(program)
  /\ phase' = "check" /\ fn' = 1
  /\ UNCHANGED <<program, astQueue, registry, sites, labelFault, evicted>>

Examined(f) == f.body /\ ~f.header
Noted(r) == {k \in DOMAIN F.calls : F.calls[k].callee \in DOMAIN r}

\* The arguments that isFreeMethod says are freed.
FreedArgs(c, r) == {i \in DOMAIN r[c.callee] : r[c.callee][i]}

\* One function in check: every call whose callee is in the registry is a freeing one.
Check ==
  /\ Looking("check")
  /\ Request(Home[F.decl])
  /\ \E r \in Registries(Home[F.decl]) :
       /\ AllFreeMethods' = r[1] /\ dangling' = r[2]
       /\ IF Examined(F) /\ \E k \in Noted(r[1]) : ~(FreedArgs(F.calls[k], r[1]) \subseteq DOMAIN F.calls[k].args)
          THEN labelFault' = "getArg" /\ UNCHANGED sites
          ELSE /\ sites' = sites \cup
                    {<<fn, k, FreedArgs(F.calls[k], r[1])>> : k \in {j \in Noted(r[1]) : Examined(F)}}
               /\ UNCHANGED labelFault
  /\ fn' = fn + 1
  /\ UNCHANGED <<program, phase>>

LabelNext == Label \/ LabellingOver \/ Check

\* One thread runs the two loops to their end.
LabelSpec == LabelInit /\ [][LabelNext]_labelVars /\ WF_labelVars(LabelNext)

-----------------------------------------------------------------------------
(* Properties.                                                             *)

\* The registry has entries for declarations in memory only, of which there are no more
\* than maxSize units.
LabelTypeOK ==
  /\ phase \in {"label", "check"}
  /\ fn \in 1..(Len(program) + 1)
  /\ astQueue \in Seq(Unit) /\ Len(astQueue) <= maxSize
  /\ DOMAIN AllFreeMethods \subseteq {d \in Decl : Home[d] \in Held}
  /\ \A d \in DOMAIN AllFreeMethods : AllFreeMethods[d] \in Seq(BOOLEAN)
  /\ dangling \subseteq Seq(BOOLEAN)
  /\ labelFault \in {"none", "getArg"}
  /\ evicted \subseteq Unit

\* Function k has an outer call that passes parameter i on to declaration d.
Passes(k, i, d) ==
  \E c \in ToSet(program[k].calls) :
    c.callee = d /\ ~c.nested /\ i \in ToSet(c.args) /\ i \in 1..program[k].params

\* Functions s[1] < ... < s[n] = k, of which the first passes a parameter to free and every
\* other one some parameter to the one before, k its parameter i.  At which argument each
\* of them stands does not count here, as it does not for checkFreeMethod: f(p) reaches
\* free by g(p, 0), though g may free its second parameter only.
ReachesFree(k, i) ==
  \E n \in 1..k : \E s \in [1..n -> 1..Len(program)] :
    /\ s[n] = k /\ \A m \in 2..n : s[m - 1] < s[m]
    /\ \A m \in 1..n :
         /\ program[s[m]].body /\ program[s[m]].decl \notin FreeDecl
         /\ \E p \in IF m = n THEN {i} ELSE 1..program[s[m]].params :
              \E d \in IF m = 1 THEN FreeDecl ELSE {program[s[m - 1]].decl} : Passes(s[m], p, d)

\* Of the functions of units that were always in memory, those are labelled that free
\* memory through a chain of functions, each of which comes before the one that calls it,
\* and their marks are the parameters they pass down such a chain, whatever was freed and
\* loaded beside them.
LabelsChains ==
  phase = "check" =>
    \A k \in DOMAIN program :
      LET d == program[k].decl
          chained == {i \in 1..program[k].params : ReachesFree(k, i)}
      IN Home[d] \notin evicted /\ d \notin FreeDecl =>
           IF chained = {} THEN d \notin DOMAIN AllFreeMethods
           ELSE /\ d \in DOMAIN AllFreeMethods
                /\ {i \in DOMAIN AllFreeMethods[d] : AllFreeMethods[d][i]} = chained

\* The registry names declarations of units in memory, and labels what lableAllFreeMethod
\* is meant to label.
RegistrySound == LabelTypeOK /\ LabelsChains

UnitOf(k) == Home[program[k].decl]
Checked == IF phase = "check" THEN 1..(fn - 1) ELSE {}
\* Some function has an outer call of the same declaration.
CalledOutside(d) ==
  \E f \in DOMAIN program : /\ program[f].body /\ program[f].decl \notin FreeDecl
                           /\ \E c \in ToSet(program[f].calls) : c.callee = d /\ ~c.nested

\* What the functions of the program really do: the parameters that are freed are the
\* fewest that are closed under being passed to free or, in any call and at the argument
\* where it is freed, to a function of the program.
Parameters == UNION {{<<k, i>> : i \in 1..program[k].params} : k \in DOMAIN program}
Closed(X) ==
  \A x \in Parameters : \A c \in ToSet(program[x[1]].calls) : \A p \in DOMAIN c.args :
    /\ c.args[p] = x[2]
    /\ \/ c.callee \in FreeDecl /\ p = 1
       \/ \E j \in DOMAIN program : program[j].decl = c.callee /\ <<j, p>> \in X
    => x \in X
Frees(k, i) == \A X \in SUBSET Parameters : Closed(X) => <<k, i>> \in X

\* A parameter is handed to free, or to a function that passes any of its own on towards
\* free, only where that one frees it.
Aligned ==
  \A k \in DOMAIN program : \A c \in ToSet(program[k].calls) : \A p \in DOMAIN c.args :
    ~c.nested /\ c.args[p] \in 1..program[k].params =>
      /\ c.callee \in FreeDecl => p = 1
      /\ \A j \in DOMAIN program :
           program[j].decl = c.callee /\ (\E i \in 1..program[j].params : ReachesFree(j, i)) =>
             Frees(j, p)

Recorded == {s \in sites : UnitOf(s[1]) \notin evicted}
CalleeOf(s) == program[s[1]].calls[s[2]].callee

\* In a unit that has always been in memory, what is taken for a freeing call calls free,
\* or a function from which such a chain of calls leads to free; and no argument is asked
\* for that the call has not.
SitesReach ==
  /\ labelFault # "none" => UnitOf(fn - 1) \in evicted
  /\ \A s \in Recorded :
       \/ CalleeOf(s) \in FreeDecl /\ s[3] = {1}
       \/ \E k \in DOMAIN program : program[k].decl = CalleeOf(s) /\ \A i \in s[3] : ReachesFree(k, i)

\* And what stands at the arguments noted is really freed, unless some function hands a
\* parameter to a freeing one at an argument that it does not free.
SitesFree ==
  Aligned => \A s \in Recorded :
    \/ CalleeOf(s) \in FreeDecl
    \/ \E k \in DOMAIN program : program[k].decl = CalleeOf(s) /\ \A i \in s[3] : Frees(k, i)

\* A call of free is recognised, with its argument, if its unit has never left memory
\* and some call of free in it is no argument of another call.
CallsOfFreeFound ==
  labelFault = "none" =>
    \A k \in Checked : Examined(program[k]) /\ UnitOf(k) \notin evicted =>
      \A n \in DOMAIN program[k].calls :
        LET c == program[k].calls[n]
        IN c.callee \in FreeDecl /\ CalledOutside(c.callee) => <<k, n, {1}>> \in sites

\* While its unit stays in memory, check misses no such call of free, and takes for freeing
\* what leads to free; the arguments noted are the freed ones if calls are aligned.
FreesRecognised == SitesReach /\ SitesFree /\ CallsOfFreeFound

=============================================================================
