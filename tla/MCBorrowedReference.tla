-------------------------- MODULE MCBorrowedReference --------------------------
(***************************************************************************)
(* borrowed_reference_checker on small programs: functions of four blocks  *)
(* with every kind of statement, and sequences of functions that leave     *)
(* variables behind, of two units, which fit into memory, or of three.     *)
(***************************************************************************)
EXTENDS BorrowedReference

CONSTANT NoVal

MCBlock == 1..4
MCOrder == [k \in MCBlock |-> 5 - k]
MCASTList == <<"u", "w", "z">>
MCVar == {"p", "q", "g", "x", "y"}
MCBase == [v \in MCVar |-> v]
MCHome == [v \in MCVar |-> IF v = "x" THEN "w" ELSE IF v = "y" THEN "z" ELSE "u"]

T(op, v, f, s) == [op |-> op, var |-> v, fun |-> f, sub |-> s]
Ref(v) == T("ref", v, NoVal, <<>>)
Call(f, s) == T("call", NoVal, f, s)
Set(v, t) == T("assign", NoVal, NoVal, <<Ref(v), t>>)
Decl(v, s) == T("decl", v, NoVal, s)
Not(t) == T("not", NoVal, NoVal, <<t>>)
Cast(t) == T("cast", NoVal, NoVal, <<t>>)
Implicit(t) == T("implicit", NoVal, NoVal, <<t>>)
Both(s, t) == T("binary", NoVal, NoVal, <<s, t>>)
Eq(s, t) == T("eq", NoVal, NoVal, <<s, t>>)
Member(t) == T("member", NoVal, NoVal, <<t>>)
Return(t) == T("return", NoVal, NoVal, <<t>>)
Literal == T("other", NoVal, NoVal, <<>>)

Got(v) == Set(v, Call("getter", <<Ref("q")>>))
Checked(v) == Not(Call("check", <<Ref(v)>>))

\* Statements of a function of unit u.
Statements ==
  { Got("p"), Got("g"), Decl("p", <<Implicit(Call("getter", <<Ref("g")>>))>>), Got("q"),
    Decl("p", <<>>), Set("p", Ref("q")), Set("p", Call("other", <<Ref("p")>>)),
    Set("p", Call("pointer", <<>>)), Set("p", Call("skip", <<>>)),
    T("assign", NoVal, NoVal, <<Member(Ref("p")), Call("other", <<>>)>>),
    Checked("p"), Checked("g"), Not(Implicit(Call("check", <<Ref("p")>>))), Both(Eq(Ref("q"), Ref("g")), Checked("p")),
    Call("other", <<Ref("q"), Call("check", <<Member(Cast(Ref("p")))>>)>>),
    Call("check", <<>>), Call("check", <<Literal>>), Decl("q", <<Call("check", <<Ref("p")>>)>>),
    Call("other", <<Ref("p")>>), Call("other", <<Ref("g"), Ref("p")>>), Eq(Ref("p"), Ref("q")),
    Not(Ref("p")), Return(Ref("p")) }

MCTerm ==
  LET subs(S) == S \cup UNION {ToSet(t.sub) : t \in S}
  IN subs(subs(subs(subs(Statements \cup {Got("x"), Return(Ref("x")), Got("y"), Call("other", <<Ref("y")>>), Decl("x", <<>>)}))))

To(b) == [to |-> b, pruned |-> FALSE]
Pruned(b) == [to |-> b, pruned |-> TRUE]
Line == <<<<To(2)>>, <<To(3)>>, <<To(4)>>, <<>>>>
Loop == <<<<To(2)>>, <<To(3), To(4)>>, <<To(2)>>, <<>>>>
Diamond == <<<<To(2), To(3)>>, <<To(4)>>, <<To(4)>>, <<>>>>
Uneven == <<<<To(4), To(2)>>, <<To(3)>>, <<To(4)>>, <<>>>>
Dead == <<<<To(4)>>, <<Pruned(3), To(4)>>, <<To(4)>>, <<>>>>

G(s) == [succ |-> s, stmts |-> [b \in MCBlock |-> <<>>]]
MCGraphs == {G([b \in MCBlock |-> <<>>])}
Fun(u, s, x, y, z) ==
  [unit |-> u, graph |-> G(s), passed |-> FALSE, body |-> <<x, y, <<>>, z>>]

UseP == Call("other", <<Ref("p")>>)
Mixed == {<<Got("p")>>, <<UseP>>, <<Checked("p"), Got("p")>>, <<Set("p", Ref("q")), UseP>>}
One == {<<[Fun("u", s, x, y, z) EXCEPT !.body[3] = c]>> :
          s \in {Line, Loop, Diamond, Uneven, Dead}, x \in Mixed, y \in Mixed \cup {<<>>},
          c \in Mixed, z \in {<<UseP>>, <<Got("p"), UseP>>}}
Kinds == {<<Fun("u", Line, <<Got("p"), Got("g")>>, <<s>>, <<UseP, t>>)>> :
            s \in Statements, t \in {Return(Ref("p")), Got("p"), Call("other", <<Ref("g"), Ref("p")>>)}}

First == {Fun("u", Line, <<Got("p")>>, <<s>>, <<>>) : s \in {Checked("p"), Got("g"), UseP}}
Second == {Fun("w", Line, <<s>>, <<Return(Ref("x"))>>, <<>>) : s \in {Got("x"), Call("skip", <<>>), Decl("x", <<>>)}}
Third == {Fun("u", Line, <<>>, <<s>>, <<>>) : s \in {Call("other", <<Ref("g"), Ref("p")>>), Got("g")}}
Header == [Fun("w", Line, <<Got("x")>>, <<>>, <<>>) EXCEPT !.passed = TRUE]
Other == Fun("z", Line, <<Got("y"), Call("other", <<Ref("y")>>)>>, <<>>, <<>>)
Again == Fun("w", Line, <<>>, <<Return(Ref("x"))>>, <<>>)
Several == {<<a, b, Again, c>> : a \in First, b \in Second \cup {Header}, c \in Third}
           \cup {<<a, b, c>> : a \in First, b \in Second \cup {Header}, c \in Third}
           \cup {<<a, b, Other, c>> : a \in First, b \in Second \cup {Header}, c \in Third}

MCPrograms == One \cup Kinds \cup Several

=============================================================================
