----------------------------- MODULE MCStepping -----------------------------
(***************************************************************************)
(* A small program for Stepping.  File "lib" owns lines 1 to 3, of which 3 *)
(* has no code; file "main" owns 4 to 6, of which 5 has none.  The main    *)
(* stream begins with an instruction that has no position.                 *)
(***************************************************************************)
EXTENDS Stepping

MCFileOf == <<"lib", "lib", "lib", "main", "main", "main">>
MCCode == [main |-> <<0, 4, 6>>, f |-> <<1, 2>>]

(* No breakpoint, one that is skipped once and one that cannot bind; in     *)
(* main, one that binds to the line after it, and two that bind to one line *)
(* and stop at once.                                                        *)
MCAsks ==
  {[file |-> "lib",  specs |-> s] : s \in {<< >>, <<[line |-> 2, skip |-> 1]>>, <<[line |-> 3, skip |-> 0]>>}}
  \cup
  {[file |-> "main", specs |-> s] :
     s \in {<<[line |-> 5, skip |-> 1]>>, <<[line |-> 5, skip |-> 0], [line |-> 6, skip |-> 0]>>}}

=============================================================================
