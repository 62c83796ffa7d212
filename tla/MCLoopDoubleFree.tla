--------------------------- MODULE MCLoopDoubleFree ---------------------------
(***************************************************************************)
(* loop_doublefree_checker on small functions: every graph of four blocks  *)
(* without statements that has two forks and an exit, for the walk, and    *)
(* graphs with frees and assignments of two pointers for the search.       *)
(***************************************************************************)
EXTENDS LoopDoubleFree

CONSTANT NoVal

MCBlock == 1..4
MCOrder == <<4, 3, 2, 1>>
MCVar == {"p", "q"}
MCPlace == {"p", "p->a", "q"}
MCBase == [e \in MCPlace |-> IF e = "q" THEN "q" ELSE "p"]

Other == [frees |-> <<>>, assigns |-> NoVal, compares |-> FALSE, wraps |-> NoVal, reads |-> {}]
FreeP == [Other EXCEPT !.frees = <<"p">>, !.reads = {"p"}]
FreeMember == [Other EXCEPT !.frees = <<"p->a">>, !.reads = {"p", "p->a"}]
FreeBoth == [Other EXCEPT !.frees = <<"p", "q">>, !.reads = {"p", "q"}]
FreeAll == [Other EXCEPT !.frees = <<"p", "p->a">>, !.reads = {"p", "p->a"}]
SetP == [Other EXCEPT !.assigns = "p"]

To(b) == [to |-> b, pruned |-> FALSE]
Pruned(b) == [to |-> b, pruned |-> TRUE]
Lists(S, n) == UNION {[1..k -> S] : k \in 0..n}
Forks == Lists({To(b) : b \in MCBlock}, 2)
PrunedForks == Lists([to : MCBlock, pruned : BOOLEAN], 2)
Lines == {<<To(b)>> : b \in MCBlock}

WithStmts(f1, f2, f3, s1, s2, s3) ==
  {[succ |-> <<a, b, c, <<>>>>, stmts |-> <<x, y, z, <<>>>>] :
     a \in f1, b \in f2, c \in f3, x \in s1, y \in s2, z \in s3}

Bare == WithStmts(Forks, Forks, Lines \cup {<<>>}, {<<>>}, {<<>>}, {<<>>})
        \cup WithStmts(PrunedForks, Lines, {<<To(4)>>}, {<<>>}, {<<>>}, {<<>>})

\* Block 1 is entered once, 2 and 3 follow it or form loops.
Freed ==
  WithStmts({<<To(2), To(3)>>, <<Pruned(2), To(3)>>},
            {<<To(b), To(c)>> : b \in 2..4, c \in 2..4}, {<<To(b), To(c)>> : b \in 2..4, c \in 2..4},
            {<<FreeP>>, <<FreeBoth, SetP>>, <<FreeAll>>},
            {<<>>, <<FreeP>>, <<SetP>>, <<SetP, FreeMember>>},
            {<<>>, <<FreeP, FreeMember>>, <<FreeBoth, SetP>>})

MCGraphs == Bare \cup Freed

=============================================================================
