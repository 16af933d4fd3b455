------------------------------- MODULE Downhill -------------------------------
(***************************************************************************)
(* The process table of the Downhill library (Downhill/SRC/DH_PROC.C), by    *)
(* which programs ported to Windows start processes in the background and    *)
(* wait () for them.  The pid of a child is the handle of its process.       *)
(*                                                                          *)
(* wait () polls: it looks for a dead child to raise SIGCHLD for, which is   *)
(* ignored by default, and then for one to return, with one index that moves *)
(* on through the table from call to call.  Processes end while it looks.    *)
(***************************************************************************)
EXTENDS Integers, FiniteSetsExt

CONSTANTS
  Handle,      \* handles of processes
  ProcessMax,  \* DOWNHILL_PROCESS_MAX
  ExitCodes    \* how processes may end

ASSUME TableAssumption ==
  /\ ProcessMax \in Nat \ {0} /\ Handle \subseteq Nat \ {0} /\ ExitCodes \subseteq Nat

VARIABLES
  code,           \* code[h]: the process of h runs, has ended with a code, or h is closed
  pid,            \* the table; -1 for a free entry
  process_Index,  \* where GetStatusAny looks next
  wait_pc,        \* where wait () is
  loop_Index,     \* how many entries it has looked at in this round
  waited,         \* the pid it returns, or -1
  process_Status  \* and the low byte of its exit code

process_vars == <<code, pid, process_Index, wait_pc, loop_Index, waited, process_Status>>
wait_vars == <<process_Index, wait_pc, loop_Index, waited, process_Status>>

Closed == -1
Running == -2
STILL_ACTIVE == 259

Index == 0..(ProcessMax - 1)
GetExitCode(h) == IF code[h] = Running THEN STILL_ACTIVE ELSE code[h]

ProcessInit ==
  /\ code = [h \in Handle |-> Closed] /\ pid = [x \in Index |-> -1]
  /\ process_Index = 0 /\ wait_pc = "idle" /\ loop_Index = 0
  /\ waited = -1 /\ process_Status = 0

\* CreateProcess and Downhill_Process_Add; without a free entry the process runs, but
\* is in no table and Forkexec returns 0.
Free == {x \in Index : pid[x] = -1}
Forkexec(h) ==
  /\ code[h] = Closed
  /\ code' = [code EXCEPT ![h] = Running]
  /\ pid' = IF Free = {} THEN pid ELSE [pid EXCEPT ![Min(Free)] = h]
  /\ UNCHANGED wait_vars

\* wait () is called.
Wait ==
  /\ wait_pc' = "sigchld" /\ loop_Index' = 0
  /\ UNCHANGED <<code, pid, process_Index, waited, process_Status>>

\* Is there a dead process in the entry at hand?
Found ==
  LET h == pid[process_Index] IN h # -1 /\ GetExitCode(h) # STILL_ACTIVE

\* MUTANT: every round looks at the same entry only.
NextEntryStays(then) ==
  /\ UNCHANGED process_Index
  /\ IF loop_Index + 1 = ProcessMax
       THEN wait_pc' = then /\ loop_Index' = 0
       ELSE loop_Index' = loop_Index + 1 /\ UNCHANGED wait_pc

\* The next entry, and from the last one to what follows the loop.
NextEntry(then) ==
  /\ process_Index' = (process_Index + 1) % ProcessMax
  /\ IF loop_Index + 1 = ProcessMax
       THEN wait_pc' = then /\ loop_Index' = 0
       ELSE loop_Index' = loop_Index + 1 /\ UNCHANGED wait_pc

\* Downhill_Signal_CheckSigchld, and CountChildren.
CheckSigchld ==
  /\ wait_pc = "sigchld"
  /\ IF Found
       THEN wait_pc' = "any" /\ loop_Index' = 0 /\ UNCHANGED <<process_Index, waited>>
       ELSE /\ NextEntry(IF Free = Index THEN "returned" ELSE "any")
            /\ waited' = -1
  /\ UNCHANGED <<code, pid, process_Status>>

\* GetStatusAny and ClearPid; if all are alive, wait () sleeps and begins again.
GetStatusAny ==
  /\ wait_pc = "any"
  /\ IF Found
       THEN /\ waited' = pid[process_Index]
            /\ process_Status' = code[pid[process_Index]] % 256
            /\ pid' = [pid EXCEPT ![process_Index] = -1]
            /\ code' = [code EXCEPT ![pid[process_Index]] = Closed]
            /\ wait_pc' = "returned" /\ UNCHANGED <<process_Index, loop_Index>>
       ELSE NextEntry("sigchld") /\ UNCHANGED <<code, pid, waited, process_Status>>

\* A process ends, whoever started it.
ProcessExits(h) ==
  /\ code[h] = Running
  /\ \E c \in ExitCodes : code' = [code EXCEPT ![h] = c]
  /\ UNCHANGED <<pid, wait_vars>>
==============================================================================
