----------------------------- MODULE MCJobserver -----------------------------
(* A tree of makes for TLC: r runs commands and a make s.                   *)
EXTENDS Jobserver, TLC

CONSTANTS r, s, a, b, p, c, d, e

MCOwner == [j \in Job |-> IF j \in {c, d} THEN s ELSE r]
MCSub == [j \in Job |-> IF j = p THEN s ELSE NoMake]
MCLines == [j \in Job |-> CASE j = a -> 2 [] j = e -> 0 [] OTHER -> 1]

\* With -k the two makes share the pipe.  Without it, and with -l, s is without the
\* pipe, and commands and forks fail.
MCUses == {
  [todo |-> {a, b, p, c, d}, plus |-> {p}, k |-> TRUE, l |-> FALSE,
   fails |-> {d}, noFork |-> FALSE],
  [todo |-> {a, b, p, c, e}, plus |-> {}, k |-> FALSE, l |-> TRUE,
   fails |-> {a, b, c}, noFork |-> TRUE]}
==============================================================================
