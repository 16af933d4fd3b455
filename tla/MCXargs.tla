------------------------------- MODULE MCXargs -------------------------------
(* Instances of Xargs for TLC. *)
EXTENDS Xargs

CONSTANTS MCInputMax  \* bound on the arguments of a use

Arg(len, e) == [len |-> len, ends |-> e, eof |-> FALSE]
EofArg(e) == [len |-> 2, ends |-> e, eof |-> TRUE]
Word(len) == [len |-> len, pats |-> 0]

\* xargs command, without options: -P 1, and no limit that is reached.
Plain == [input |-> <<>>, initial |-> <<Word(2)>>, arg_max |-> 99, args_per_exec |-> 0,
          lines_per_exec |-> 0, proc_max |-> 1, x |-> FALSE, r |-> FALSE, p |-> FALSE,
          i |-> FALSE]

Lines4 == <<Arg(2, "line"), Arg(2, "line"), Arg(3, "line"), Arg(2, "input")>>
Mixed == <<Arg(2, "blank"), Arg(3, "line"), Arg(2, "blank"), Arg(4, "blank")>>

MCUses ==
  {[Plain EXCEPT !.r = b] : b \in BOOLEAN}
  \cup \* -n 1, one or two at a time, or with no limit
  {[Plain EXCEPT !.args_per_exec = 1, !.input = Lines4, !.proc_max = m] : m \in 0..2}
  \cup \* -n 3
  {[Plain EXCEPT !.args_per_exec = 3, !.input = in, !.proc_max = 2] : in \in {Lines4, Mixed}}
  \cup \* -s: an argument, the initial arguments or a command may be too long; with -x -n
  {[Plain EXCEPT !.arg_max = s, !.input = Mixed, !.proc_max = 2] : s \in {1, 5, 6, 7, 8, 11}}
  \cup
  {[Plain EXCEPT !.arg_max = s, !.args_per_exec = 2, !.x = b, !.input = Mixed] :
      s \in {6, 7, 8}, b \in BOOLEAN}
  \cup \* -l
  {[Plain EXCEPT !.lines_per_exec = l, !.input = in, !.arg_max = s] :
      l \in 1..2, s \in {6, 99}, in \in {Lines4, Mixed}}
  \cup \* -p
  {[Plain EXCEPT !.args_per_exec = 2, !.p = TRUE, !.input = Lines4]}
  \cup \* the EOF string: on a line of its own, behind an argument, at the end
  {[Plain EXCEPT !.lines_per_exec = l, !.input = <<Arg(2, a), EofArg(b), Arg(2, "line")>>] :
      l \in 0..1, a \in {"blank", "line"}, b \in {"blank", "line"}}
  \cup
  {[Plain EXCEPT !.input = <<Arg(2, a), EofArg("input")>>] : a \in {"blank", "line"}}
  \cup \* -i
  {[Plain EXCEPT !.i = TRUE, !.initial = <<Word(2), [len |-> 2, pats |-> 2]>>, !.arg_max = s,
      !.input = <<Arg(2, "line"), Arg(3, "line"), EofArg("line"), Arg(2, "line")>>] :
      s \in {5, 6, 7, 8, 9}}

\* One command with one argument.
MCOne == {[Plain EXCEPT !.input = <<Arg(2, "input")>>]}

ASSUME InputsAssumption == \A u \in MCUses : Len(u.input) <= MCInputMax
==============================================================================
