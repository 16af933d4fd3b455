------------------------------ MODULE ChildWait ------------------------------
(***************************************************************************)
(* What make expects of the system it runs its commands on: each of its      *)
(* children (a job, or the shell of a $(shell) function) runs one command at *)
(* a time, and the end of each command is told to it once, with the status   *)
(* of that command.                                                         *)
(***************************************************************************)
CONSTANTS
  Child,   \* who may have a command running
  Status,  \* how a command may end
  None, Running  \* there is no command; it has not ended

VARIABLES
  command,  \* of each child: none, running, or ended with a status
  told      \* the child and the status make was told of last

Init == command = [c \in Child |-> None] /\ told = <<>>

\* A command is started; or it cannot be, which is an end as well.
Start(c) ==
  /\ command[c] = None
  /\ \E s \in {Running} \cup Status : command' = [command EXCEPT ![c] = s]
  /\ UNCHANGED told

End(c) ==
  /\ command[c] = Running
  /\ \E s \in Status : command' = [command EXCEPT ![c] = s]
  /\ UNCHANGED told

Tell(c) ==
  /\ command[c] \in Status
  /\ told' = <<c, command[c]>>
  /\ command' = [command EXCEPT ![c] = None]

Next == \E c \in Child : Start(c) \/ End(c) \/ Tell(c)

Spec == Init /\ [][Next]_<<command, told>>
==============================================================================
