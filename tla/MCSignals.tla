------------------------------ MODULE MCSignals ------------------------------
(* Two slots and three jobs, the first with two command lines; the second can *)
(* fail, the third ignores signals and its vfork () can fail.                 *)
EXTENDS Signals

const_Job == {"a", "b", "c"}
const_Lines == [j \in const_Job |-> IF j = "a" THEN 2 ELSE 1]
const_Options == {[k |-> TRUE, d |-> FALSE], [k |-> FALSE, d |-> TRUE]}
==============================================================================
