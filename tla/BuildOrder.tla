------------------------------ MODULE BuildOrder ------------------------------
(***************************************************************************)
(* What make promises about the order in which it remakes targets, whatever *)
(* its walk over the dependency graph looks like: commands of a target run  *)
(* only when all its prerequisites are made, only if it is out of date, and *)
(* once; a target with a failed prerequisite is never made.  Commands can    *)
(* make several files, which are then remade together.                      *)
(***************************************************************************)
EXTENDS Naturals

CONSTANTS
  File,       \* the files of the dependency graph
  Needs,      \* Needs[f]: the prerequisites of f
  Ruled,      \* the files with commands to run
  Made,       \* Made[f]: the files that the commands of f make, f among them
  New         \* the time of whatever is remade in this run

VARIABLES
  status,     \* what has become of each file
  mtime       \* modification times; 0 for a file that does not exist

vars == <<status, mtime>>

Ready(f) == \A d \in Needs[f] : status[d] = "done"

OutOfDate(f) ==
  \/ mtime[f] = 0
  \/ \E d \in Needs[f] : mtime[d] = 0 \/ mtime[d] > mtime[f]

Init ==
  /\ status = [f \in File |-> "pending"]
  /\ mtime \in [File -> 0 .. New - 1]

\* The first command of f starts; what it makes was not made before.
Start(f) ==
  /\ status[f] = "pending" /\ f \in Ruled
  /\ Ready(f) /\ OutOfDate(f)
  /\ \A d \in Made[f] : status[d] \in {"pending", "failed"}
  /\ status' = [d \in File |-> IF d \in Made[f] THEN "building" ELSE status[d]]
  /\ UNCHANGED mtime

\* Its last command succeeds, or one of them fails.
End(f) ==
  /\ status[f] = "building"
  /\ \E s \in {"done", "failed"} :
       status' = [d \in File |-> IF d \in Made[f] THEN s ELSE status[d]]
  /\ mtime' \in [File -> 0 .. New]
  /\ \A d \in File : mtime'[d] = mtime[d] \/ (d \in Made[f] /\ mtime'[d] \in {0, New})

\* Nothing is to be run for f.
Current(f) ==
  /\ status[f] = "pending"
  /\ Ready(f)
  /\ f \notin Ruled \/ ~OutOfDate(f)
  /\ status' = [status EXCEPT ![f] = "done"]
  /\ UNCHANGED mtime

\* f cannot be made: a prerequisite failed, or there is no way to run commands.
GiveUp(f) ==
  /\ status[f] = "pending"
  /\ Ready(f) \/ \E d \in Needs[f] : status[d] = "failed"
  /\ status' = [status EXCEPT ![f] = "failed"]
  /\ UNCHANGED mtime

Next == \E f \in File : Start(f) \/ End(f) \/ Current(f) \/ GiveUp(f)

Spec == Init /\ [][Next]_vars
==============================================================================
