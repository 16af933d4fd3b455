------------------------------ MODULE MCZshJobs ------------------------------
(* Four scripts: $(...) before a pipeline while a background job runs; =(...)   *)
(* in the same place; a pipeline, then $(...) in the background, then another    *)
(* command; and two $(...) one after the other.                               *)
EXTENDS ZshJobs

const_Child == {"a", "b", "c", "x", "y"}
const_ExitCode == [c \in const_Child |-> CASE c = "a" -> 1 [] c = "b" -> 2 [] c = "c" -> 259
                                          [] OTHER -> 5]

Plain(p) == [kind |-> "none", subst |-> None, proc |-> p]
With(k, x, p) == [kind |-> k, subst |-> x, proc |-> p]
Run(stages) == [async |-> FALSE, stages |-> stages]
Async(stages) == [async |-> TRUE, stages |-> stages]

const_Scripts == {
  <<Async(<<Plain("a")>>), Run(<<With("output", "x", "b"), Plain("c")>>)>>,
  <<Async(<<Plain("a")>>), Run(<<With("file", "x", "b"), Plain("c")>>)>>,
  <<Run(<<Plain("a"), Plain("b")>>), Async(<<With("output", "x", "c")>>), Run(<<Plain("y")>>)>>,
  <<Async(<<With("output", "x", "a")>>), Run(<<With("output", "y", "b")>>), Run(<<Plain("c")>>)>> }

\* A $(...) in a later stage of a pipeline: StatusTells fails.
const_SubstLater == {<<Run(<<Plain("a"), With("output", "x", "b")>>)>>}
==============================================================================
