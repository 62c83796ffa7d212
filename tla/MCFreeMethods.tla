---------------------------- MODULE MCFreeMethods ----------------------------
(***************************************************************************)
(* Labelling and recognising on small programs: three functions of one     *)
(* unit in any order with wrappers of free and of each other, and          *)
(* functions of three units with room for two.                             *)
(***************************************************************************)
EXTENDS FreeMethods

CONSTANT NoVal

MCASTList == <<"w", "v", "u">>
MCDecl == {"free_u", "f", "g", "h", "free_v", "f_v", "k", "free_w", "m"}
MCFreeDecl == {"free_u", "free_v", "free_w"}
MCHome == [d \in MCDecl |-> CASE d \in {"free_v", "f_v", "k"} -> "v"
                              [] d \in {"free_w", "m"} -> "w"
                              [] OTHER -> "u"]

C(d, a) == [callee |-> d, args |-> a, nested |-> FALSE]
In(d, a) == [C(d, a) EXCEPT !.nested = TRUE]
Fun(d, n, s) == [decl |-> d, params |-> n, calls |-> s, body |-> TRUE, header |-> FALSE]

Bodies(d) ==
  CASE d = "f" -> {Fun("f", 1, s) : s \in {<<C("free_u", <<1>>)>>, <<C("free_u", <<0>>)>>, <<C("g", <<1, 0>>)>>,
                                           <<C("g", <<0, 1>>), In("free_u", <<1>>)>>}}
    [] d = "g" -> {Fun("g", 2, s) : s \in {<<C("f", <<2>>), C(NoVal, <<1>>)>>, <<C("h", <<1, 2, 0>>)>>,
                                           <<C("f", <<0>>), C("free_u", <<2>>)>>, <<In("free_u", <<1>>)>>, <<>>}}
    [] d = "h" -> {Fun("h", 3, s) : s \in {<<C("g", <<3, 1>>)>>, <<C("g", <<0, 3>>)>>, <<C("f", <<2>>), In("f", <<3>>)>>,
                                           <<C("h", <<1, 2, 3>>), C("free_u", <<1>>)>>}}

One == {<<a, b, c>> : a \in Bodies("f"), b \in Bodies("g"), c \in Bodies("h")}
Permuted == UNION {{P, <<P[2], P[1], P[3]>>, <<P[3], P[2], P[1]>>, <<P[2], P[3], P[1]>>,
                    <<P[1], P[3], P[2]>>, <<P[3], P[1], P[2]>>} : P \in One}

\* k of unit v calls f through the declaration of its own unit, m frees directly.
K == {Fun("k", 1, s) : s \in {<<C("f_v", <<1>>)>>, <<C("free_v", <<1>>), C("f_v", <<1>>)>>}}
M == {Fun("m", 1, <<C("free_w", <<1>>)>>), [Fun("m", 1, <<C("free_w", <<1>>)>>) EXCEPT !.header = TRUE]}
Prototype == [Fun("f_v", 1, <<>>) EXCEPT !.body = FALSE]
Two == {<<a, b, p>> : a \in Bodies("f"), b \in K, p \in {Prototype}}
       \cup {<<a, p, b>> : a \in Bodies("g"), b \in K, p \in {Prototype}}
Three == {<<a, b, c>> : a \in Bodies("f") \cup Bodies("g"), b \in K, c \in M}
         \cup {<<b, a, c, d>> : a \in Bodies("f"), b \in K, c \in M, d \in Bodies("h")}

MCPrograms == Permuted \cup Two \cup Three

=============================================================================
