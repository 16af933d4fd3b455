------------------------------ MODULE MCSubProc ------------------------------
(* Two slots and three jobs; the commands of the last may call $(shell), and   *)
(* the first may have two lines.                                              *)
EXTENDS SubProc

const_Job == {"a", "b", "c"}
Lines(n) == [j \in const_Job |-> IF j = "a" THEN n ELSE 1]
Build(k, n, s) == [keep_going |-> k, lines |-> Lines(n), shell |-> s]

\* With -k; without it, either $(shell) or a job of two lines.
const_Builds == {Build(TRUE, 2, {"c"}), Build(FALSE, 2, {}), Build(FALSE, 1, {"c"})}
==============================================================================
