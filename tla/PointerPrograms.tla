---------------------------- MODULE PointerPrograms ----------------------------
(***************************************************************************)
(* Programs as the pointer analysis sees them, and what their pointers     *)
(* hold when control goes along a path.  A program p is a record:          *)
(*   p.succ[f][b]    the successors of block b of function f; blocks are   *)
(*                   numbered from the exit, 0, up to the entry; Null      *)
(*                   stands for a successor that clang pruned              *)
(*   p.stmts[f][b]   the statements of the block                           *)
(*   p.params[f]     the parameters of f                                   *)
(*   p.type[v]       how the type of variable v is written, Null for one   *)
(*                   that PTATypeMap has no entry for, such as a typedef   *)
(*   p.name[v]       its name, which variables of inner scopes may share   *)
(*   p.unit[f]       the AST unit of f                                     *)
(*   p.order         the functions in the order of the manager's list      *)
(*   p.skipped       those that are not analysed: functions of system      *)
(*                   headers, if the configuration says so                 *)
(* A statement sets a pointer variable, from one expression or, by ?:,     *)
(* from two; or calls a function with arguments, by its name or as an      *)
(* overloaded operator; or returns a value.  An expression is an address,  *)
(* an alias (a variable, or a function: what it returned last) or          *)
(* something the analysis does not look into.                              *)
(***************************************************************************)
EXTENDS Naturals, Sequences, FiniteSets, SequencesExt

CONSTANTS Function, Var, Programs, Null

Holder == Var \cup Function     \* what may hold a pointer: a function, its return value
Expr == [kind : {"addr", "alias", "other"}, of : Holder \cup {Null}]
Stmt == [kind : {"set", "call", "operator", "return", "other"}, to : Holder \cup {Null}, from : Seq(Expr)]

Blocks(p, f) == DOMAIN p.succ[f]
Points(p) == UNION {{<<f, b>> : b \in Blocks(p, f)} : f \in Function}
Entry(p, f) == <<f, Cardinality(Blocks(p, f)) - 1>>
StmtsAt(p, pt) == p.stmts[pt[1]][pt[2]]

IsProgram(p) ==
  /\ p.order \in Seq(Function) /\ p.skipped \subseteq Function
  /\ p.params \in [Function -> Seq(Var)]
  /\ DOMAIN p.type = Var /\ DOMAIN p.name = Var /\ DOMAIN p.unit = Function
  /\ \A f \in Function :
       /\ Blocks(p, f) = 0..(Cardinality(Blocks(p, f)) - 1) /\ 0 \in Blocks(p, f)
       /\ \A b \in Blocks(p, f) : /\ p.succ[f][b] \in Seq(Blocks(p, f) \cup {Null})
                                  /\ p.stmts[f][b] \in Seq(Stmt)
                                  /\ \A s \in ToSet(p.stmts[f][b]) :
                                       s.kind \in {"call", "operator"} /\ s.to \in Function =>
                                         Len(s.from) >= Len(p.params[s.to])

ASSUME ProgramsAssumption ==
  /\ Var \cap Function = {} /\ Null \notin Holder
  /\ \A p \in Programs : IsProgram(p)

-----------------------------------------------------------------------------
(* Control goes along a path: a sequence of points, in one function or     *)
(* from a call into the callee and from its exit back behind the call.     *)

Location == [kind : {"addr", "initial"}, of : Holder]
Initially == [v \in Holder |-> {[kind |-> "initial", of |-> v]}]

Meaning(env, e) ==
  CASE e.kind = "addr" -> {[kind |-> "addr", of |-> e.of]}
    [] e.kind = "alias" -> env[e.of]
    [] e.kind = "other" -> {}

\* What the function's statement s makes of env.
Execute(env, s, f) ==
  LET value == UNION {Meaning(env, s.from[k]) : k \in DOMAIN s.from}
  IN CASE s.kind = "set" -> [env EXCEPT ![s.to] = value]
       [] s.kind = "return" -> [env EXCEPT ![f] = value]
       [] OTHER -> env

\* The parameters of f get the values of the arguments of the call that ends block pt.
Bind(p, env, f, pt) ==
  LET call == Last(StmtsAt(p, pt))
      param(i) == p.params[f][i]
      bound == {i \in DOMAIN p.params[f] : i \in DOMAIN call.from}
  IN [v \in Holder |-> IF \E i \in bound : param(i) = v
                       THEN Meaning(env, call.from[CHOOSE i \in bound : param(i) = v])
                       ELSE env[v]]

\* The environment before statement elem of the last block of the path; statements are
\* counted from 0.
EnvAfter(p, path, elem) ==
  LET n == Len(path)
      run[i \in 0..n] ==
        IF i = 0 THEN Initially
        ELSE LET pt == path[i]
                 stmts == StmtsAt(p, pt)
                 upTo == IF i = n /\ elem < Len(stmts) THEN elem ELSE Len(stmts)
                 step[k \in 0..upTo] ==
                   IF k > 0 THEN Execute(step[k - 1], stmts[k], pt[1])
                   ELSE IF i > 1 /\ pt = Entry(p, pt[1])
                   THEN Bind(p, run[i - 1], pt[1], path[i - 1])
                   ELSE run[i - 1]
             IN step[upTo]
  IN run[n]

\* What v may hold there: nothing that the analysis could name if the set is empty.
Holds(p, path, elem, v) == EnvAfter(p, path, elem)[v]

\* The functions that the path enters by a call.
Entered(p, path) ==
  {path[i][1] : i \in {j \in 2..Len(path) : path[j] = Entry(p, path[j][1])}}

\* The blocks that control can reach from the entry.  Clang keeps others, such as what
\* follows a return, and their edges to blocks that control does reach.
Live(p, f) ==
  LET from[n \in 0..Cardinality(Blocks(p, f))] ==
        IF n = 0 THEN {Entry(p, f)[2]}
        ELSE UNION {{b} \cup (ToSet(p.succ[f][b]) \ {Null}) : b \in from[n - 1]}
  IN from[Cardinality(Blocks(p, f))]

\* A search: for what var holds before statement elem of the last block of the path.
SearchIn(p) == [path : Seq(Points(p)), elem : Nat, var : Var, temp : BOOLEAN]

Calls(p, f) ==
  UNION {{<<g, b, k>> : k \in {i \in DOMAIN p.stmts[g][b] :
                                 p.stmts[g][b][i].kind \in {"call", "operator"} /\ p.stmts[g][b][i].to = f}} :
         <<g, b>> \in Points(p)}

=============================================================================
