------------------------ MODULE MCNonRecursiveCallGraph ------------------------
(***************************************************************************)
(* Every call graph of a few functions, with the top-level functions that  *)
(* CallGraph can have found for it.                                        *)
(***************************************************************************)
EXTENDS NonRecursiveCallGraph, FiniteSets

MCFunction == 1..4
AnyCalls(n) == [1..n -> SUBSET (1..n)]

\* A function calls at most two others, and not itself.
FewCalls(n) ==
  LET Callees(F) == {S \in SUBSET ((1..n) \ {F}) : Cardinality(S) <= 2}
      few[k \in 0..n] ==
        IF k = 0 THEN {<<>>} ELSE {Append(c, S) : c \in few[k - 1], S \in Callees(k)}
  IN few[n]

Uncalled(child) == {F \in DOMAIN child : \A P \in DOMAIN child : F \notin child[P]}
Reach(S, child) ==
  LET n == Len(child)
      f[k \in 0..n] == IF k = 0 THEN S ELSE f[k - 1] \cup UNION {child[F] : F \in f[k - 1]}
  IN f[n]

\* The functions are scanned in order.  One without caller is top-level; so is one that
\* is called only through pointers, found later, from a top-level function at or after
\* it.  One of those is enough.
MayBeTop(T, child) ==
  /\ Uncalled(child) \subseteq T /\ Cardinality(T \ Uncalled(child)) <= 1
  /\ \A F \in T, P \in DOMAIN child : F \in child[P] => P \in Reach({A \in T : A >= F}, child)

InOrder(T) == SelectSeq([k \in MCFunction |-> k], LAMBDA F : F \in T)

\* The functions that child leaves out are not part of the call graph.
Padded(child) == [F \in MCFunction |-> IF F \in DOMAIN child THEN child[F] ELSE {}]

GraphsWith(relations) ==
  UNION {{[node |-> DOMAIN child, child |-> Padded(child), top |-> InOrder(T)] :
             T \in {U \in SUBSET DOMAIN child : MayBeTop(U, child)}} : child \in relations}

\* ignoreNoCalledSystemHeader = true: isolated functions of system headers lose their
\* node and stay top-level functions.
WithHeaders(g) ==
  {[g EXCEPT !.node = @ \ H] :
     H \in SUBSET {F \in ToSet(g.top) : g.child[F] = {} /\ \A P \in MCFunction : F \notin g.child[P]}}

MCGraphs ==
  GraphsWith(FewCalls(4)) \cup UNION {WithHeaders(g) : g \in GraphsWith(AnyCalls(3))}

=============================================================================
