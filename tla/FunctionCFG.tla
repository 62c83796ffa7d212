------------------------------ MODULE FunctionCFG ------------------------------
(***************************************************************************)
(* The control flow graph that clang builds for one function, as the       *)
(* checkers see it.  A graph g is a record:                                *)
(*   g.succ[b]   the successor edges of block b in order; an edge that     *)
(*               clang pruned because its condition is constant has        *)
(*               pruned = TRUE: iterating it yields a null pointer, but    *)
(*               its target still counts b as a predecessor                *)
(*   g.stmts[b]  the statements of block b in order, as records:           *)
(*     frees     the expressions that a call of a free method, or a        *)
(*               delete, frees; empty for any other statement              *)
(*     assigns   the variable that an assignment statement assigns         *)
(*     compares  TRUE for an == comparison                                 *)
(*     wraps     the call statement that initializes a declaration         *)
(*     reads     the expressions the statement contains                    *)
(***************************************************************************)
EXTENDS Naturals, Sequences, FiniteSets, SequencesExt

CONSTANTS
  Block,     \* the blocks of a graph
  Place,     \* the expressions a statement may free or read
  Var,       \* the variables of the function
  Base,      \* Base[e]: the variable at the root of e, Null if there is none
  Null

Edge == [to : Block, pruned : BOOLEAN]
Position == Block \X (Nat \ {0})
Stmt == [frees : Seq(Place), assigns : Var \cup {Null}, compares : BOOLEAN,
         wraps : Position \cup {Null}, reads : SUBSET Place]
Graph == [succ : [Block -> Seq(Edge)], stmts : [Block -> Seq(Stmt)]]

ASSUME GraphAssumption ==
  /\ Null \notin Block /\ Null \notin Var /\ Null \notin Position
  /\ Base \in [Place -> Var \cup {Null}]

\* What *succ_iter yields.
Target(e) == IF e.pruned THEN Null ELSE e.to

\* Blocks one step of control after b.
Follow(g, b) == {Target(g.succ[b][k]) : k \in DOMAIN g.succ[b]} \ {Null}

\* pred_begin() == pred_end(): the entry block, and blocks that nothing leads to.
IsEntry(g, b) == \A c \in Block : \A k \in DOMAIN g.succ[c] : g.succ[c][k].to # b
Entries(g) == {b \in Block : IsEntry(g, b)}

=============================================================================
