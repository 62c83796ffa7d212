------------------------------- MODULE PointsTo -------------------------------
(***************************************************************************)
(* What the pointer analysis promises: each search for what a variable     *)
(* holds at the end of a path is answered with what an execution along     *)
(* that path leaves in it, or one of the things if ?: leaves a choice.     *)
(* The promise is void where the analysis mistakes the call: there the     *)
(* answer is anything.                                                     *)
(***************************************************************************)
EXTENDS PointerPrograms

VARIABLES
  program,   \* the program that is analysed
  request,   \* the searches asked for; empty before the first request
  results,   \* the answers so far
  entered    \* the functions whose parameters have been bound to arguments

promised == <<program, request, results, entered>>

-----------------------------------------------------------------------------
Key(l) == [kind |-> l.kind, of |-> l.of]

\* f is called from one block that has its number to itself, and once there: its
\* arguments are recorded under the number of the caller's block alone.
CallsTold(f) ==
  \A c, d \in Calls(program, f) : c # d => c[2] # d[2]

\* No parameter's value is taken from another call: the path does not begin in a
\* function that an earlier search has entered by a call.
Fresh(path) ==
  LET f == path[1][1] IN program.params[f] # <<>> => f \notin entered

Determined(s) == Fresh(s.path) /\ \A f \in Entered(program, s.path) : CallsTold(f)

\* No statement on the path leaves a choice.
Single(s) ==
  \A pt \in ToSet(s.path) : \A k \in DOMAIN StmtsAt(program, pt) :
    StmtsAt(program, pt)[k].kind = "set" => Len(StmtsAt(program, pt)[k].from) = 1

\* Some answer to s: at most one location, of those the variable may hold.  What a
\* variable held at first is named only for the comparison of aliases.
Answers(s, answer) ==
  LET holds == Holds(program, s.path, s.elem, s.var)
      named == IF s.temp THEN holds ELSE {l \in holds : l.kind = "addr"}
      given == {Key(l) : l \in answer}
  IN /\ Cardinality(answer) <= 1
     /\ Determined(s) => given \subseteq named /\ (Single(s) => given = named)

PromisedInit == program \in Programs /\ request = <<>> /\ results = <<>> /\ entered = {}

Ask ==
  /\ Len(results) = Len(request)
  /\ request' \in Seq(SearchIn(program))
  /\ results' = <<>>
  /\ UNCHANGED <<program, entered>>

Current == request[Len(results) + 1]

\* The search for the answer enters functions that the path enters by a call.
EnterSome ==
  Len(results) < Len(request) /\ entered \subseteq entered'
  /\ entered' \subseteq entered \cup Entered(program, Current.path)

Enter == EnterSome /\ UNCHANGED <<program, request, results>>

Answer ==
  /\ EnterSome
  /\ Len(results') = Len(results) + 1 /\ Front(results') = results
  /\ Answers(Current, Last(results'))
  /\ UNCHANGED <<program, request>>

PromisedNext == Ask \/ Enter \/ Answer

Promised == PromisedInit /\ [][PromisedNext]_promised

=============================================================================
