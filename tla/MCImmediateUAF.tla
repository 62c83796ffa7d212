---------------------------- MODULE MCImmediateUAF ----------------------------
(***************************************************************************)
(* The search of immediate_uaf_checker on small functions whose variable   *)
(* p points to a pair of pointers or to an array of them, q to p's pair.   *)
(***************************************************************************)
EXTENDS ImmediateUAF

CONSTANT NoVal

MCBlock == 1..3
MCOrder == <<3, 2, 1>>
MCVar == {"p", "q"}
MCPlace == {"p", "p->f", "p[0]", "q"}
MCBase == [e \in MCPlace |-> CASE e = "p[0]" -> NoVal [] e = "q" -> "q" [] OTHER -> "p"]

Other == [frees |-> <<>>, assigns |-> NoVal, compares |-> FALSE, wraps |-> NoVal, reads |-> {}]
FreeP == [Other EXCEPT !.frees = <<"p">>, !.reads = {"p"}]
FreeEntry == [Other EXCEPT !.frees = <<"p[0]">>, !.reads = {"p", "p[0]"}]
FreeBoth == [Other EXCEPT !.frees = <<"p", "p->f">>, !.reads = {"p", "p->f"}]
FreePQ == [Other EXCEPT !.frees = <<"q", "p">>, !.reads = {"p", "q"}]
UseP == [Other EXCEPT !.reads = {"p"}]
UseF == [Other EXCEPT !.reads = {"p", "p->f"}]
SetP == [Other EXCEPT !.assigns = "p"]
SetQByP == [Other EXCEPT !.assigns = "q", !.reads = {"p", "q"}]
IsNullP == [Other EXCEPT !.compares = TRUE, !.reads = {"p"}]
DeclOf(b, k) == [Other EXCEPT !.wraps = <<b, k>>, !.reads = {"p"}]

To(b) == [to |-> b, pruned |-> FALSE]
Pruned(b) == [to |-> b, pruned |-> TRUE]
Ends == {<<>>} \cup {<<To(b)>> : b \in MCBlock}
Forks == Ends \cup {<<To(b), To(c)>> : b \in MCBlock, c \in MCBlock}

Starts == {<<FreeP>>, <<FreeP, DeclOf(1, 1)>>, <<FreeP, IsNullP>>, <<FreeP, SetP>>, <<FreeEntry>>}
Bodies == {<<>>, <<UseP>>, <<SetP>>, <<SetP, UseP>>, <<FreeP>>}

WithStmts(starts, bodies, forks, ends) ==
  {[succ |-> <<s1, s2, s3>>, stmts |-> <<b1, b2, b3>>] :
     s1 \in forks, s2 \in ends, s3 \in ends, b1 \in starts, b2 \in bodies, b3 \in bodies}

\* Forks of which clang has pruned an edge, in the block of the free and after it.
Constants == {<<Pruned(b), To(c)>> : b \in MCBlock, c \in MCBlock}

MCGraphs ==
  WithStmts(Starts, Bodies, Forks, Ends)
  \cup WithStmts({<<FreeP>>}, {<<>>, <<SetP>>, <<UseP>>}, Constants \cup {<<To(2)>>},
                 {<<Pruned(b), To(3)>> : b \in MCBlock} \cup {<<>>, <<To(3)>>})
  \cup WithStmts({<<FreeBoth>>, <<FreeBoth, SetP>>}, {<<>>, <<UseP>>, <<SetP, UseF>>},
                 {<<To(2)>>, <<To(2), To(3)>>}, {<<>>, <<To(3)>>})
  \cup WithStmts({<<FreePQ>>, <<FreePQ, SetQByP>>}, {<<>>, <<UseP>>, <<SetQByP>>, <<SetQByP, UseP>>},
                 {<<To(2)>>, <<To(2), To(3)>>}, {<<>>, <<To(3)>>})

=============================================================================
