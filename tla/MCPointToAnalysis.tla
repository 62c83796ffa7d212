-------------------------- MODULE MCPointToAnalysis --------------------------
(***************************************************************************)
(* PointToAnalysis on functions of two blocks of statements, in a row or   *)
(* with a branch, and on calls of a function from two places; on pointers  *)
(* of types or names that differ or agree, a block that control does not   *)
(* reach, a call of an overloaded operator and functions in more units     *)
(* than memory has room for.                                               *)
(***************************************************************************)
EXTENDS PointToAnalysis

MCFunction == {"main", "aux", "other"}
MCVar == {"p", "q", "x", "a"}

Addr(v) == [kind |-> "addr", of |-> v]
Alias(v) == [kind |-> "alias", of |-> v]
Unknown == [kind |-> "other", of |-> Null]
Set(v, from) == [kind |-> "set", to |-> v, from |-> from]
Call(f, from) == [kind |-> "call", to |-> f, from |-> from]
Return(from) == [kind |-> "return", to |-> Null, from |-> from]

\* A graph without statements: entry and exit.
Bare == [succ |-> <<<<>>, <<0>>>>, stmts |-> <<<<>>, <<>>>>]
FromZero(s) == [b \in 0..(Len(s) - 1) |-> s[b + 1]]
Program(bodies, ps, order, skipped) ==
  LET body(f) == IF f \in DOMAIN bodies THEN bodies[f] ELSE Bare
  IN [succ |-> [f \in MCFunction |-> FromZero(body(f).succ)],
      stmts |-> [f \in MCFunction |-> FromZero(body(f).stmts)],
      params |-> [f \in MCFunction |-> IF f = "aux" THEN ps ELSE <<>>],
      type |-> [v \in MCVar |-> IF v = "a" THEN "int" ELSE "int *"],
      name |-> [v \in MCVar |-> v], unit |-> [f \in MCFunction |-> "A"],
      order |-> order, skipped |-> skipped]

\* One function: entry 3, blocks 2 and 1, exit 0.
Sets == {Set("p", <<Addr("a")>>), Set("p", <<Alias("q")>>), Set("q", <<Alias("p")>>),
         Set("q", <<Unknown>>), Set("p", <<Addr("a"), Alias("q")>>)}
Alone ==
  {Program([main |-> [succ |-> <<<<>>, <<0>>, two, <<2>>>>, stmts |-> <<<<>>, <<u>>, <<s, t>>, <<>>>>]],
           <<>>, <<"main">>, {}) :
     two \in {<<1>>, <<1, 0>>}, s \in Sets, t \in Sets, u \in Sets}

\* main calls aux at the end of its block 2 and uses the result in block 1; other calls it
\* as well, from block 2 or 1.
Calling ==
  {Program([main |-> [succ |-> <<<<>>, <<0>>, <<1>>, <<2>>>>,
                      stmts |-> <<<<>>, <<Set("q", <<r>>)>>, <<s, Call("aux", <<e>>)>>, <<>>>>],
            aux |-> [succ |-> <<<<>>, <<0>>, <<1>>>>,
                     stmts |-> <<<<>>, <<t, Return(<<Alias("x")>>)>>, <<>>>>],
            other |-> [succ |-> <<<<>>, <<0>>, <<1, Null>>, <<2>>>>,
                       stmts |-> IF k = 2 THEN <<<<>>, <<>>, <<Call("aux", <<Addr("a")>>)>>, <<>>>>
                                 ELSE <<<<>>, <<Call("aux", <<Addr("a")>>)>>, <<>>, <<>>>>]],
           <<"x">>, order, skipped) :
     r \in {Alias("aux"), Alias("p")}, e \in {Alias("p"), Addr("q")},
     s \in {Set("p", <<Addr("a")>>), Set("q", <<Alias("p")>>)},
     t \in {Set("x", <<Alias("x"), Addr("x")>>), Set("p", <<Alias("x")>>)}, k \in {1, 2},
     order \in {<<"main", "aux", "other">>, <<"other", "main", "aux">>},
     skipped \in {{}, {"main"}, {"aux"}}}

\* q is written with another type than p, or hides it, or p has a type PTATypeMap does not
\* know.
Row(s, t) ==
  Program([main |-> [succ |-> <<<<>>, <<0>>, <<1>>, <<2>>>>, stmts |-> <<<<>>, <<s>>, <<t>>, <<>>>>]],
          <<>>, <<"main">>, {})
Typed ==
  LET rows == {Row(s, t) : s \in {Set("q", <<Alias("p")>>), Set("q", <<Addr("a")>>)},
                           t \in {Set("p", <<Addr("a")>>), Set("x", <<Alias("p")>>)}}
  IN {[r EXCEPT !.type["q"] = "T *"] : r \in rows} \cup {[r EXCEPT !.name["q"] = "p"] : r \in rows}
     \cup {[r EXCEPT !.type["p"] = Null] : r \in rows}

\* The entry goes past block 2, which control does not reach.
Dead ==
  {[Row(s, Set("p", <<Addr("a")>>)) EXCEPT !.succ["main"][3] = <<1>>] :
     s \in {Set("q", <<Alias("p")>>), Set("p", <<Addr("q")>>)}}

\* main calls aux as an operator.
Operated ==
  {[p EXCEPT !.stmts["main"][2][2].kind = "operator"] :
     p \in {c \in Calling : c.skipped = {} /\ c.stmts["other"][2] = <<>> /\ c.order[1] = "main"}}

\* Every function in a unit of its own.
Apart ==
  {[p EXCEPT !.unit = [main |-> "A", aux |-> "B", other |-> "C"]] :
     p \in {c \in Calling : c.skipped = {} /\ c.stmts["other"][2] = <<>>
                              /\ c.stmts["main"][1] = <<Set("q", <<Alias("aux")>>)>>}}

MCPrograms == Alone \cup Calling \cup Typed \cup Dead \cup Operated \cup Apart

\* The paths to block b of a function whose blocks are 3, 2, 1, 0.
PathsTo(p, f, b) ==
  SelectSeq(<<<<<<f, 3>>, <<f, 2>>, <<f, 1>>, <<f, 0>>>>, <<<<f, 3>>, <<f, 2>>, <<f, 0>>>>, <<<<f, 3>>, <<f, 1>>, <<f, 0>>>>,
              <<<<f, 3>>, <<f, 2>>, <<f, 1>>>>, <<<<f, 3>>, <<f, 2>>>>>>,
            LAMBDA path : Last(path)[2] = b /\ \A i \in 1..(Len(path) - 1) :
                            path[i + 1][2] \in ToSet(p.succ[f][path[i][2]]))
Into(f, k) == [i \in 1..(4 - k) |-> <<f, 4 - i>>] \o <<<<"aux", 2>>, <<"aux", 1>>>>
Through == Into("main", 2) \o <<<<"aux", 0>>, <<"main", 1>>>>

Op(op, v, paths, searches) == [op |-> op, var |-> v, paths |-> paths, searches |-> searches]
Pointee(paths, e, v) == Op("get_pointee_at_point", v, paths, get_pointee_at_point(paths, e, v))
AliasesIn(p) ==
  LET paths == PathsTo(p, "main", 0)
  IN Op("get_alias_in_func", "p", paths, get_alias_in_func(p, paths, "p"))
AliasAt(p) ==
  LET paths == PathsTo(p, "main", 0)
  IN Op("is_alias_of_at_point", "p", paths, is_alias_of_at_point(paths, 0, "p", "q"))
AliasOf(path) == Op("is_alias_of", "p", <<path>>, is_alias_of(path, 1, "p", path, 1, "x"))
InAux == <<<<"aux", 2>>, <<"aux", 1>>>>

MCRequests(p) ==
  IF p.order # <<"main">>
  THEN {Pointee(<<Into("main", 2)>>, 1, "x"), Pointee(<<InAux>>, 1, "p"), Pointee(<<Through>>, 1, "q"),
        AliasOf(InAux)}
       \cup {Pointee(<<Into("other", k)>>, 0, "x") : k \in {i \in {1, 2} : p.stmts["other"][i] # <<>>}}
  ELSE IF p \in Dead
  THEN {AliasesIn(p), Pointee(<<<<<<"main", 2>>, <<"main", 1>>>>>>, 1, "q")}
  ELSE {AliasesIn(p), AliasAt(p), Pointee(PathsTo(p, "main", 1), 0, "q")}
       \cup {Pointee(PathsTo(p, "main", 2), e, "p") : e \in {1, 2}}

=============================================================================
