----------------------------- MODULE MCASTManager -----------------------------
(***************************************************************************)
(* Small instances of ASTManager.  Three ASTs: "a" holds a function with   *)
(* two variables and a lambda, "b" a function that is declared twice, so   *)
(* that both its handles list the same local variable, "c" a function that *)
(* a header also puts at the place where one of "b" begins.                *)
(***************************************************************************)
EXTENDS ASTManager, TLC

CONSTANTS a1, a2, a3, NoVal

\* No operation looks at an address except to compare it.
AddrSymmetry == Permutations(Addr)

MCList == <<"a", "b", "c">>
MCListTwice == <<"a", "a", "b">>
MCDecl == {"f", "g", "x"}
MCFuncDecl == [n \in AST |-> [a \in Addr |->
  CASE n = "a" -> <<"f", "g">>
    [] n = "b" -> <<"f", "g">>
    [] OTHER -> <<"f", "f">>]]
MCFuncLoc == [n \in AST |->
  CASE n = "a" -> <<"a.c:1", NoVal>>
    [] n = "b" -> <<"b.c:1", "b.c:7">>
    [] OTHER -> <<"b.c:1", "b.c:1">>]
MCVarDecl == [local |-> [n \in AST |->
                           CASE n = "a" -> <<"x">>
                             [] n = "b" -> <<"x", "x">>
                             [] OTHER -> <<>>],
              global |-> [n \in AST |-> IF n = "c" THEN <<"x">> ELSE <<>>]]

=============================================================================
