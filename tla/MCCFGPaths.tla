------------------------------ MODULE MCCFGPaths ------------------------------
(***************************************************************************)
(* CFGPaths on the graphs that clang builds for small structured programs: *)
(* from the end to the beginning, every block above the ones it leads to,  *)
(* except that a loop is led back to its head, and a goto to a label.      *)
(***************************************************************************)
EXTENDS CFGPaths

To(b) == [to |-> b, pruned |-> FALSE]
Nothing == [to |-> Null, pruned |-> TRUE]
Pruned(b) == [to |-> b, pruned |-> TRUE]

Put(g, edges, term) == [succ |-> Append(g.succ, edges), term |-> Append(g.term, term)]
New(g) == Len(g.succ)       \* the number of the block that Put adds, counting from 0
SetEdges(g, b, edges) == [g EXCEPT !.succ[b + 1] = edges]

Loop == {"while", "whileAnd", "forever", "range"}

\* The program: statements by kind and what they are made of.
Leaf == {<<"call">>, <<"return">>}
Fail == <<"fail">>                              \* if (c) { L: call; return; } goto L;
Spin == {<<"spin">>, <<"if", <<"spin">>>>}      \* L: goto L;  alone and under an if
Around(S) ==
  {<<k, A>> : k \in {"if", "if0", "while", "whileAnd", "forever", "range", "do", "do0", "do1", "goto", "until"},
            A \in S}
  \cup {<<k, A, B>> : k \in {"ifelse", "seq"}, A \in S, B \in Leaf}

\* The graph g with statement t in front of block s.
RECURSIVE Build(_, _, _)
Build(t, s, g) ==
  CASE t[1] = "call" -> Put(g, <<To(s)>>, "none")
    [] t[1] = "spin" -> Put(g, <<To(New(g))>>, "other")
    [] t[1] = "return" -> Put(g, <<To(0)>>, "none")
    [] t[1] = "seq" -> LET h == Build(t[3], s, g) IN Build(t[2], New(h) - 1, h)
    [] t[1] \in {"if", "if0"} ->
         LET h == Build(t[2], s, g)
         IN Put(h, <<(IF t[1] = "if" THEN To(New(h) - 1) ELSE Pruned(New(h) - 1)), To(s)>>, "other")
    [] t[1] = "ifelse" ->
         LET f == Build(t[3], s, g)
             h == Build(t[2], s, f)
         IN Put(h, <<To(New(h) - 1), To(New(f) - 1)>>, "other")
    [] t[1] \in {"while", "forever", "range"} ->
         LET back == New(g)
             h == Build(t[2], back, Put(g, <<>>, "none"))
             out == IF t[1] = "forever" THEN Pruned(s) ELSE To(s)
         IN Put(SetEdges(h, back, <<To(New(h))>>), <<To(New(h) - 1), out>>,
                IF t[1] = "forever" THEN "for" ELSE t[1])
    [] t[1] = "whileAnd" ->     \* while (a && b): the head of the loop ends in &&
         LET back == New(g)
             h == Build(t[2], back, Put(g, <<>>, "none"))
             l == Put(h, <<To(New(h) - 1), To(s)>>, "while")
         IN Put(SetEdges(l, back, <<To(New(l))>>), <<To(New(l) - 1), To(s)>>, "other")
    [] t[1] \in {"do", "do0", "do1"} ->     \* with a block in front of the body
         LET cond == New(g)
             h == Build(t[2], cond, Put(g, <<>>, "do"))
             body == New(h) - 1
             back == New(h)
         IN IF t[1] = "do0" THEN SetEdges(h, cond, <<Nothing, To(s)>>)
            ELSE Put(Put(SetEdges(h, cond, <<To(back), IF t[1] = "do" THEN To(s) ELSE Nothing>>),
                         <<To(body)>>, "none"),
                     <<To(body)>>, "none")

    [] t[1] \in {"goto", "until"} ->     \* L: A; goto L;  and  L: A; if (c) goto L;
         LET jump == New(g)
             f == Put(g, <<>>, "other")
             c == IF t[1] = "goto" THEN f ELSE Put(f, <<To(jump), To(s)>>, "other")
             A == Build(t[2], New(c) - 1, c)
             \* a label in front of a loop has a block of its own
             h == IF t[2][1] \in Loop THEN Put(A, <<To(New(A) - 1)>>, "none") ELSE A
         IN SetEdges(h, jump, <<To(New(h) - 1)>>)
    [] t[1] = "fail" ->
         LET jump == New(g)
             label == jump + 1
             h == Put(Put(g, <<To(label)>>, "other"), <<To(0)>>, "none")
         IN Put(h, <<To(label), To(jump)>>, "other")
    [] t[1] = "retry" ->        \* L: for (;;) { if (c) goto L; }
         LET back == New(g)
             jump == New(g) + 1
             head == New(g) + 3
             f == Put(Put(g, <<To(head)>>, "none"), <<To(head + 1)>>, "other")
         IN Put(Put(Put(f, <<To(jump), To(back)>>, "other"), <<To(head - 1), Pruned(s)>>, "for"), <<To(head)>>, "none")

Exit == [succ |-> <<<<>>>>, term |-> <<"none">>]
\* The entry block on top; blocks are counted from 0.
Whole(t) ==
  LET h == Build(t, 0, Exit)
      g == Put(h, <<To(New(h) - 1)>>, "none")
  IN [succ |-> [b \in 0..(New(g) - 1) |-> g.succ[b + 1]],
      term |-> [b \in 0..(New(g) - 1) |-> g.term[b + 1]]]

Small == Leaf \cup Around(Leaf)
MCGraphs == {Whole(t) : t \in Small \cup Around(Small) \cup Spin \cup {Fail, <<"retry">>} \cup Around({Fail, <<"retry">>})}
MCLimits == {<<4, 9>>, <<7, 2>>, <<20, 1>>, <<20, 40>>}

\* Structured programs are numbered as the proofs have it.
ASSUME NumberingAssumption == \A g \in MCGraphs \ {Whole(t) : t \in Spin} : Numbered(g)

=============================================================================
