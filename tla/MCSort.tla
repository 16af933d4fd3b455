------------------------------- MODULE MCSort -------------------------------
(* Merges of two files at a time.  Sorts of all pairs of files of up to three  *)
(* and two lines in chunks of up to two, with and without -u, to standard      *)
(* output or one of the inputs; merges of three to seven sorted files, which   *)
(* take up to four rounds; and inputs that are missing.                       *)
EXTENDS Sort

Job(k, m, u, o, miss) ==
  [keys |-> k, mergeonly |-> m, unique |-> u, outfile |-> o, missing |-> miss]

UpTo(n) == UNION {[1..l -> {1, 2}] : l \in 0..n}
Sorts == {<<a, b>> : a \in UpTo(3), b \in UpTo(2)}
Merges == [1..3 -> {<<>>, <<1>>, <<2>>, <<1, 1>>, <<1, 2>>}]
            \cup [1..4 -> {<<>>, <<2>>, <<1, 2>>}]
            \cup [1..5 -> {<<1>>, <<1, 2>>}]
            \cup [1..7 -> {<<1>>}]

const_Jobs ==
  {Job(k, FALSE, u, o, {}) : k \in Sorts, u \in BOOLEAN, o \in {Stdout, 1, 2}}
    \cup {Job(k, TRUE, u, o, {}) : k \in Merges, u \in BOOLEAN, o \in {NewFile, 1}}
    \cup {Job(<< <<2>>, <<1, 2>>, <<1>> >>, m, FALSE, o, {2}) :
            m \in BOOLEAN, o \in {Stdout, NewFile, 1, 2}}
==============================================================================
