-------------------------- MODULE MCInterProcedureCFG --------------------------
(***************************************************************************)
(* InterProcedureCFG on programs of three functions: main calls f from one *)
(* of several graphs or nothing, f calls g, main or itself, g may call f   *)
(* back.                                                                   *)
(***************************************************************************)
EXTENDS InterProcedureCFG

MCFunction == {"main", "f", "g"}
MCUnit == {"A", "B", "C"}

FromZero(s) == [b \in 0..(Len(s) - 1) |-> s[b + 1]]
Graph(es, ss) == [elems |-> FromZero(es), succ |-> FromZero(ss)]
None == <<>>
NoBody == [elems |-> <<>>, succ |-> <<>>]
Leaf == Graph(<<None, None>>, <<<<>>, <<0>>>>)

\* One block with a call, or two calls, the first of which does not end the block.
Straight(es) == Graph(<<None, es, None>>, <<<<>>, <<0>>, <<1>>>>)
\* Two calls in a row; a call in one branch; a call that is the condition of a branch or
\* of a loop.
Row(a, b) == Graph(<<None, <<b>>, <<a>>, None>>, <<<<>>, <<0>>, <<1>>, <<2>>>>)
Branch(a) == Graph(<<None, <<Null>>, <<a>>, <<Null>>, None>>, <<<<>>, <<0>>, <<1>>, <<2, 1>>, <<3>>>>)
Condition(a) == Graph(<<None, <<Null>>, <<Null>>, <<a>>, None>>, <<<<>>, <<0>>, <<0>>, <<2, 1>>, <<3>>>>)
\* The call is known to be false: its block has no first successor, the second no way in.
Known(a) == Graph(<<None, <<Null>>, <<Null>>, <<a>>, None>>,
                  <<<<>>, <<0>>, <<0>>, <<Null, 1>>, <<3>>>>)
Loop(a) == Graph(<<None, <<Null>>, <<a>>, None>>, <<<<>>, <<2>>, <<1, 0>>, <<2>>>>)

Mains == {Row("f", "g"), Row("f", "f"), Branch("f"), Condition("f"), Loop("f"),
          Straight(<<"f", Null>>), Known("f")}
Fs == {Straight(<<"g">>), Straight(<<"g", "f">>), Branch("main"), NoBody}
Gs == {Leaf, Straight(<<"f">>)}

\* The calls that the call graphs know of, apart from those of a function by itself, and
\* the functions that no other calls.
Called(e) == UNION {ToSet(e[b]) : b \in DOMAIN e} \ {Null}
Top(edges) == {f \in MCFunction : \A g \in MCFunction : f \notin edges[g]}

\* The functions that up to n calls lead to from one of fs, and what the walk from top
\* leaves of the calls: of two functions that lead to each other, the one that it meets
\* later does not call the other; where no walk comes to, everything remains.
Within3(edges, fs, n) ==
  LET from[k \in 0..3] == IF k = 0 THEN fs ELSE UNION {edges[f] \cup {f} : f \in from[k - 1]}
  IN from[n]
Rank(f) == CASE f = "main" -> 1 [] f = "f" -> 2 [] f = "g" -> 3
Met(edges, top, g, f) ==
  \/ \E n \in 0..3 : g \in Within3(edges, top, n) /\ f \notin Within3(edges, top, n)
  \/ Rank(g) < Rank(f) /\ \A n \in 0..3 : f \in Within3(edges, top, n) => g \in Within3(edges, top, n)
Pruned(edges, top) ==
  [f \in MCFunction |->
     {g \in edges[f] : f \in Within3(edges, top, 3) \cap Within3(edges, {g}, 3) => ~Met(edges, top, g, f)}]

Make(main, f, g, units, node, cut) ==
  LET of == [x \in MCFunction |-> CASE x = "main" -> main [] x = "f" -> f [] x = "g" -> g]
      edges == [x \in MCFunction |-> IF x \in node THEN (Called(of[x].elems) \cap node) \ {x} ELSE {}]
  IN [functions |-> <<"main", "f", "g">>, unit |-> units,
      elems |-> [x \in MCFunction |-> of[x].elems], succ |-> [x \in MCFunction |-> of[x].succ],
      cut |-> [x \in MCFunction |-> IF x = "main" THEN cut ELSE {}], node |-> node,
      top |-> Top(edges) \cap node, child |-> Pruned(edges, Top(edges) \cap node)]

Apart == [f \in MCFunction |-> CASE f = "main" -> "A" [] f = "f" -> "B" [] f = "g" -> "C"]
Paired == [f \in MCFunction |-> IF f = "main" THEN "A" ELSE "B"]

MCPrograms ==
  {Make(main, f, g, units, MCFunction, IF main = Known("f") THEN {2} ELSE {}) :
     main \in Mains, f \in Fs, g \in Gs, units \in {Apart, Paired}}
  \cup {Make(main, Straight(<<"g">>), Leaf, Paired, {"f", "g"}, {1}) : main \in Mains}
  \cup {Make(Leaf, Straight(<<"g", "f">>), Straight(<<"f">>), Apart, MCFunction, {})}

=============================================================================
