------------------------------ MODULE MCCallGraph ------------------------------
(***************************************************************************)
(* CallGraph on programs of five functions: two that nothing calls by      *)
(* name, one with a function pointer as parameter, and two that may be     *)
(* called through pointers, one of them from a system header.  Calls stand *)
(* behind those of lambdas and destructors, or pass pointers to            *)
(* constructors.                                                           *)
(***************************************************************************)
EXTENDS CallGraph

MCFunction == {"main", "task", "apply", "work", "puts"}
MCPointer == {"fp", "cb", "cbDeclared", "wp"}

Statement(kind, to, from, site) == [kind |-> kind, to |-> to, from |-> from, site |-> site, behind |-> {}]
Call(f, from, site) == Statement("call", f, from, site)
Set(v, es) == Statement("set", v, <<es>>, 0)
Through(v, site) == Statement("callPointer", v, <<>>, site)

Firsts == {Set("fp", <<"work">>), Set("fp", <<"main">>), Call("apply", <<<<"puts">>>>, 1)}
Seconds == {Through("fp", 3), Call("apply", <<<<>>, <<"fp">>>>, 4), Call("apply", <<>>, 5)}
Pairs == {<<a, b>> : a \in Firsts, b \in Seconds} \cup {<<b, a>> : a \in Firsts, b \in Seconds}

Of(kind, f, site) == Statement(kind, f, <<>>, site)

\* The bodies of main, task, apply and work; the last is a destructor, a lambda or none.
Bodies ==
  {<<main, others[1], others[2], others[3]>> : main \in Pairs, others \in {
    <<<<>>, <<Through("cb", 7)>>, <<>>>>,
    <<<<Call("apply", <<<<"work">>>>, 6)>>, <<Through("cb", 7)>>, <<>>>>,
    <<<<Set("fp", <<"task">>), Through("fp", 6)>>, <<Call("work", <<>>, 8), Through("cb", 7)>>, <<>>>>,
    <<<<>>, <<Through("fp", 8), Through("cb", 7)>>, <<Call("apply", <<<<"puts">>>>, 9)>>>>}}
BodiesUsing(kind) ==
  {<<<<a, Of(kind, "work", 2)>>, <<b>>, <<Through("cb", 7)>>, <<Call("apply", <<<<"puts">>>>, 9)>>>> :
     a \in {Call("apply", <<<<"main">>>>, 1), Set("fp", <<"task">>)}, b \in {Of(kind, "work", 3), Through("fp", 4)}}

\* A program with the order of its functions, what work is, and what callers of apply set.
Make(body, order, work, declared) ==
  [functions |-> order,
   body |-> [main |-> body[1], task |-> body[2], apply |-> body[3], work |-> body[4], puts |-> Null],
   params |-> [f \in MCFunction |-> IF f = "apply" THEN <<"cb">> ELSE <<>>],
   declared |-> [f \in MCFunction |-> IF f = "apply" THEN <<declared>> ELSE <<>>],
   default |-> [f \in MCFunction |-> IF f = "apply" THEN <<{"task"}>> ELSE <<>>],
   kinds |-> [f \in MCFunction |-> CASE f = "work" -> work [] f = "puts" -> {"library"} [] OTHER -> {}],
   system |-> {"puts"}]

\* apply passes on to work what it gets from main.
Chains ==
  {<<<<Set("fp", <<e>>), Call("apply", given, 2)>>, task, <<Call("work", <<<<"cb">>>>, 7)>>, <<Through("wp", 9)>>>> :
     e \in {"puts", "main"}, given \in {<<<<"fp">>>>, <<>>}, task \in {<<>>, <<Call("task", <<>>, 5)>>}}

\* main calls apply in the arguments of a lambda, the operand of a delete or a lambda's body,
\* or constructs it; task may call it as well.
BodiesBehind ==
  {<<<<Set("fp", <<"puts">>), [Call("apply", <<<<"fp">>>>, 1) EXCEPT !.kind = kind, !.behind = behind]>>, task,
     <<Through("cb", 7)>>, <<Call("main", <<>>, 9)>>>> :
     kind \in {"call", "construct"}, behind \in SUBSET {"lambda", "destructor", "unseen"},
     task \in {<<>>, <<Call("apply", <<<<"main">>>>, 2)>>}}

Order == <<"main", "task", "apply", "work", "puts">>
MCPrograms ==
  {Make(body, Order, {}, "cb") : body \in Bodies}
  \cup {Make(body, Order, {"inlineAndTemplate"}, "cb") : body \in Bodies}
  \cup {Make(body, Order, {}, "cbDeclared") : body \in Bodies}
  \cup {Make(body, <<"puts", "task", "main", "work", "apply">>, {}, "cb") : body \in Bodies}
  \cup {[Make(body, <<"work", "apply", "task", "main", "puts">>, {}, "cb") EXCEPT
            !.params["work"] = <<"wp">>, !.declared["work"] = <<"wp">>, !.default["work"] = <<{"puts"}>>] : body \in Chains}
  \cup {Make(body, Order, {}, "cb") : body \in BodiesBehind}
  \cup {Make(body, Order, {"lambda"}, "cb") : body \in BodiesUsing("lambda")}
  \cup {Make(body, Order, {"destructor"}, "cb") : body \in BodiesUsing("delete")}

=============================================================================
