------------------------------- MODULE SubProc -------------------------------
(***************************************************************************)
(* The table of processes of the Windows build of GNU make 3.78.1            *)
(* (w32/subproc/sub_proc.c) and its callers: reap_children and               *)
(* start_job_command (job.c), windows32_openpipe and func_shell              *)
(* (function.c).  To make, the pid of a child is the address of the          *)
(* sub_process that process_easy returns; reap_children frees it and later   *)
(* finds the child by it.                                                   *)
(*                                                                          *)
(* make is one thread; what goes on beside it is that processes end.  This   *)
(* build has no WAIT_NOHANG and dead_children stays 0, so that a call of     *)
(* reap_children that does not block does nothing; those are left out.  Not  *)
(* modelled: -j1, DuplicateHandle failing (make then reads a sub_process at  *)
(* address -1), a failed launch whose last_err is 0 (it is never found).     *)
(***************************************************************************)
EXTENDS Integers, Sequences, FiniteSets, SequencesExt

CONSTANTS
  Job,         \* the jobs
  Builds,      \* records [keep_going, lines, shell]: -k is given, the number of command
               \* lines of each job, and the jobs whose commands call $(shell)
  JobSlots,    \* -j
  MaxWait,     \* MAXIMUM_WAIT_OBJECTS
  Addr,        \* where malloc can put a sub_process
  Handle,      \* process handles
  Code,        \* exit codes of processes
  BeginErrors, \* values of last_err of a launch that failed
  PipeFails    \* the launch of the shell of a $(shell) may fail

ASSUME SlotsAssumption == JobSlots \in Nat \ {0, 1} /\ MaxWait \in Nat \ {0}
ASSUME JobAssumption == {"shell", "none"} \cap Job = {}
ASSUME BuildsAssumption ==
  Builds \subseteq [keep_going : BOOLEAN, lines : [Job -> Nat \ {0}], shell : SUBSET Job]
ASSUME CodeAssumption ==
  /\ Code \subseteq Nat /\ 0 \in Code
  /\ BeginErrors \subseteq Nat \ {0}
ASSUME ObjectAssumption == 0 \notin Addr /\ {0, -1} \cap Handle = {} /\ PipeFails \in BOOLEAN

VARIABLES
  heap,                \* heap[a]: the sub_process at address a, or Free
  os,                  \* os[h]: the process of handle h: Free, running, or its exit code
  proc_array,          \* the addresses of the registered sub_processes
  fake_exits_pending,
  children,            \* the chain of jobs
  pid, line, state,    \* c->pid, the line that runs, f->command_state
  shell_function_pid, shell_function_completed,
  build, dying,        \* of Builds; die () has been entered
  pc, ret, err,        \* where make is; where reap_children returns, and its err
  new,                 \* new_job's job
  got,                 \* what process_wait_for_any returned: pid and exit code
  cur,                 \* the child that died, or "shell"
  told                 \* history: whose end was noticed last, and its status

table == <<heap, os, proc_array, fake_exits_pending>>
jobs == <<children, pid, line, state>>
shell == <<shell_function_pid, shell_function_completed>>
vars == <<table, jobs, shell, build, dying, pc, ret, err, new, got, cur, told>>

Free == -1
Running == -2
NoProcess == [handle |-> Free, exit_code |-> 0]
None == "none"

Init ==
  /\ heap = [a \in Addr |-> NoProcess] /\ os = [h \in Handle |-> Free]
  /\ proc_array = <<>> /\ fake_exits_pending = 0
  /\ children = <<>>
  /\ pid = [j \in Job |-> 0] /\ line = [j \in Job |-> 0]
  /\ state = [j \in Job |-> "not_started"]
  /\ shell_function_pid = 0 /\ shell_function_completed = 0
  /\ build \in Builds /\ dying = FALSE
  /\ pc = "walk" /\ ret = "walk" /\ err = FALSE
  /\ new = None /\ got = [pid |-> 0, exit_code |-> 0] /\ cur = None /\ told = <<>>

job_slots_used == Len(children)

CallReap(to, e) == pc' = "wait" /\ ret' = to /\ err' = e

\* die (2): a second call, from within the first, exits.
Die == pc' = (IF dying THEN "exited" ELSE "die") /\ dying' = TRUE

------------------------------------------------------------------------------
(* Launching                                                               *)

\* process_init_fd, process_begin and process_register, in some order: the new
\* sub_process is at a; its process has handle h, or the launch failed with e.
\* A handle is closed when its sub_process is freed, so that it does not matter
\* which of the free handles the system takes.
NewHandle == {h \in Handle : os[h] = Free /\ \A k \in Handle : os[k] = Free => h <= k}
Register(a, h, e) ==
  /\ heap[a] = NoProcess /\ heap' = [heap EXCEPT ![a] = [handle |-> h, exit_code |-> e]]
  /\ IF h = 0 THEN UNCHANGED os ELSE os' = [os EXCEPT ![h] = Running]
  /\ proc_array' = Append(proc_array, a)

\* MUTANT: a launch that failed is not counted.
EasyUncounted(a) ==
  \E h \in NewHandle \cup {0}, e \in BeginErrors \cup {0} :
     /\ (h = 0) <=> (e # 0)
     /\ Register(a, h, e) /\ UNCHANGED fake_exits_pending

\* process_easy
process_easy(a) ==
  \E h \in NewHandle \cup {0}, e \in BeginErrors \cup {0} :
     /\ (h = 0) <=> (e # 0)
     /\ Register(a, h, e)
     /\ fake_exits_pending' = fake_exits_pending + (IF h = 0 THEN 1 ELSE 0)

\* new_job is called for a target; its commands are expanded first.
NewJob ==
  /\ pc = "walk"
  /\ build.keep_going \/ \A j \in Job : state[j] # "failed"
  /\ \E j \in Job : /\ state[j] = "not_started"
                    /\ new' = j
                    /\ pc' = IF j \in build.shell THEN "shell" ELSE "slots"
  /\ UNCHANGED <<table, jobs, shell, build, dying, ret, err, got, cur, told>>

\* windows32_openpipe: the shell is registered before it is launched; if that
\* fails make dies.
OpenPipe ==
  /\ pc = "shell"
  /\ \E a \in Addr, h \in NewHandle \cup (IF PipeFails THEN {0} ELSE {}) :
       /\ Register(a, h, 0)
       /\ IF h = 0
            THEN Die /\ UNCHANGED shell
            ELSE /\ shell_function_pid' = a /\ shell_function_completed' = 0
                 /\ pc' = "read" /\ UNCHANGED dying
  /\ UNCHANGED <<fake_exits_pending, jobs, build, ret, err, new, got, cur, told>>

\* func_shell has read its output to the end, be the shell dead or not.
ReadShell ==
  /\ pc = "read" /\ pc' = "read_all"
  /\ UNCHANGED <<table, jobs, shell, build, dying, ret, err, new, got, cur, told>>

\* while (shell_function_completed == 0) reap_children (1, 0);
WaitForShell ==
  /\ pc = "read_all" /\ shell_function_completed = 0
  /\ CallReap("read_all", FALSE)
  /\ UNCHANGED <<table, jobs, shell, build, dying, new, got, cur, told>>

ShellDone ==
  /\ pc = "read_all" /\ shell_function_completed # 0
  /\ shell_function_pid' = 0 /\ pc' = "slots"
  /\ UNCHANGED <<table, jobs, shell_function_completed, build, dying, ret, err,
                 new, got, cur, told>>

WaitForSlot ==
  /\ pc = "slots" /\ job_slots_used = JobSlots
  /\ CallReap("slots", FALSE)
  /\ UNCHANGED <<table, jobs, shell, build, dying, new, got, cur, told>>

\* start_job_command
Launch(j) ==
  \E a \in Addr : /\ process_easy(a)
                  /\ pid' = [pid EXCEPT ![j] = a]
                  /\ line' = [line EXCEPT ![j] = @ + 1]
                  /\ state' = [state EXCEPT ![j] = "running"]

StartJob ==
  /\ pc = "slots" /\ job_slots_used # JobSlots
  /\ Launch(new)
  /\ children' = <<new>> \o children
  /\ pc' = "walk"
  /\ UNCHANGED <<shell, build, dying, ret, err, new, got, cur, told>>

\* Nothing more can be started.
EndPass ==
  /\ pc = "walk"
  /\ \/ \A j \in Job : state[j] # "not_started"
     \/ ~build.keep_going /\ \E j \in Job : state[j] = "failed"
  /\ IF children # <<>> THEN CallReap("walk", FALSE) /\ UNCHANGED dying
                        ELSE Die /\ UNCHANGED <<ret, err>>
  /\ UNCHANGED <<table, jobs, shell, build, new, got, cur, told>>

------------------------------------------------------------------------------
(* Waiting                                                                 *)

\* There is something to wait for; WaitForMultipleObjects fails for too many
\* handles, and for one that is none.
CanWait == Len(proc_array) \in 1..MaxWait /\ \A a \in Range(proc_array) : heap[a].handle # 0

\* The places in the table that process_wait_for_any_private may choose from.
Dead ==
  {i \in DOMAIN proc_array :
     IF fake_exits_pending > 0 THEN heap[proc_array[i]].exit_code # 0
     ELSE os[heap[proc_array[i]].handle] # Running}

\* process_adjust_wait_state: the first entry with the same process handle goes.
adjust_wait_state(a) ==
  RemoveAt(proc_array, Min({i \in DOMAIN proc_array :
                               heap[proc_array[i]].handle = heap[a].handle}))

\* MUTANT: the exit code is not fetched for a process that has ended.
WaitUnfetched ==
  /\ pc = "wait" /\ (fake_exits_pending = 0 => CanWait /\ Dead # {})
  /\ LET a == proc_array[Min(Dead)]
         h == heap[a].handle
     IN /\ proc_array' = adjust_wait_state(a)
        /\ got' = [pid |-> a, exit_code |-> heap[a].exit_code]
        /\ heap' = [heap EXCEPT ![a] = NoProcess]
        /\ os' = [k \in Handle |-> IF k = h THEN Free ELSE os[k]]
  /\ fake_exits_pending' = IF fake_exits_pending > 0 THEN fake_exits_pending - 1 ELSE 0
  /\ pc' = "match"
  /\ UNCHANGED <<jobs, shell, build, dying, ret, err, new, cur, told>>

\* MUTANT: a launch that failed stays in the table.
WaitLeavesFake ==
  /\ pc = "wait" /\ (fake_exits_pending = 0 => CanWait /\ Dead # {})
  /\ LET a == proc_array[Min(Dead)]
         h == heap[a].handle
     IN /\ proc_array' = IF h = 0 THEN proc_array ELSE adjust_wait_state(a)
        /\ got' = [pid |-> a, exit_code |-> IF h = 0 THEN heap[a].exit_code ELSE os[h]]
        /\ heap' = [heap EXCEPT ![a] = NoProcess]
        /\ os' = [k \in Handle |-> IF k = h THEN Free ELSE os[k]]
  /\ fake_exits_pending' = IF fake_exits_pending > 0 THEN fake_exits_pending - 1 ELSE 0
  /\ pc' = "match"
  /\ UNCHANGED <<jobs, shell, build, dying, ret, err, new, cur, told>>

\* process_wait_for_any, process_file_io and process_cleanup: failed launches
\* first, then the first entry whose process has ended; NULL if the wait fails.
Wait ==
  /\ pc = "wait" /\ (fake_exits_pending = 0 /\ CanWait => Dead # {})
  /\ IF fake_exits_pending = 0 /\ ~CanWait
       THEN got' = [got EXCEPT !.pid = 0] /\ UNCHANGED table
       ELSE LET a == proc_array[Min(Dead)]
                h == heap[a].handle
            IN /\ proc_array' = adjust_wait_state(a)
               /\ got' = [pid |-> a, exit_code |-> IF h = 0 THEN heap[a].exit_code ELSE os[h]]
               /\ heap' = [heap EXCEPT ![a] = NoProcess]
               /\ os' = [k \in Handle |-> IF k = h THEN Free ELSE os[k]]
               /\ fake_exits_pending' = IF fake_exits_pending > 0 THEN fake_exits_pending - 1 ELSE 0
  /\ pc' = "match"
  /\ UNCHANGED <<jobs, shell, build, dying, ret, err, new, cur, told>>

Matching == {i \in DOMAIN children : pid[children[i]] = got.pid}

\* "Check if this is the child of the `shell' function."  NULL is, outside of it.
MatchShell ==
  /\ pc = "match" /\ got.pid = shell_function_pid
  /\ shell_function_completed' = IF got.exit_code = 127 THEN 2 ELSE 1
  /\ told' = IF got.pid = 0 THEN told ELSE <<"shell", got.exit_code>>
  /\ pc' = ret
  /\ UNCHANGED <<table, jobs, shell_function_pid, build, dying, ret, err,
                 new, got, cur>>

\* "Search for a child matching the deceased one."
Match ==
  /\ pc = "match" /\ got.pid # shell_function_pid
  /\ IF Matching = {}
       THEN /\ pc' = IF children = <<>> /\ shell_function_pid = 0 THEN ret ELSE "wait"
            /\ UNCHANGED <<cur, told>>
       ELSE /\ cur' = children[Min(Matching)]
            /\ told' = <<cur', got.exit_code>>
            /\ pc' = "got"
  /\ UNCHANGED <<table, jobs, shell, build, dying, ret, err, new, got>>

\* The command succeeded: the next line is launched, and the wait goes on.
NextLine ==
  /\ pc = "got" /\ got.exit_code = 0 /\ line[cur] < build.lines[cur]
  /\ Launch(cur)
  /\ pc' = "wait"
  /\ UNCHANGED <<children, shell, build, dying, ret, err, new, got, cur, told>>

\* The job is over and leaves the chain.
JobOver ==
  LET failed == got.exit_code # 0 IN
  /\ pc = "got"
  /\ failed \/ line[cur] = build.lines[cur]
  /\ state' = [state EXCEPT ![cur] = IF failed THEN "failed" ELSE "done"]
  /\ children' = RemoveAt(children, Min({i \in DOMAIN children : children[i] = cur}))
  /\ IF failed /\ ~err /\ ~build.keep_going THEN Die ELSE pc' = ret /\ UNCHANGED dying
  /\ UNCHANGED <<table, pid, line, shell, build, ret, err, new, got, cur, told>>

\* die (): wait for the children, with err from the first round only.
DieWait ==
  /\ pc = "die" /\ job_slots_used > 0
  /\ CallReap("die", ret # "die")
  /\ UNCHANGED <<table, jobs, shell, build, dying, new, got, cur, told>>

Exit ==
  /\ pc = "die" /\ job_slots_used = 0
  /\ pc' = "exited"
  /\ UNCHANGED <<table, jobs, shell, build, dying, ret, err, new, got, cur, told>>

------------------------------------------------------------------------------
ProcessExits(h) ==
  /\ os[h] = Running
  /\ \E code \in Code : os' = [os EXCEPT ![h] = code]
  /\ UNCHANGED <<heap, proc_array, fake_exits_pending, jobs, shell, build, dying,
                 pc, ret, err, new, got, cur, told>>

MakeStep ==
  \/ NewJob \/ OpenPipe \/ ReadShell \/ WaitForShell \/ ShellDone \/ WaitForSlot \/ StartJob
  \/ EndPass \/ Wait \/ MatchShell \/ Match \/ NextLine \/ JobOver
  \/ DieWait \/ Exit

Finished == pc = "exited" /\ UNCHANGED vars

Next == MakeStep \/ (pc # "exited" /\ \E h \in Handle : ProcessExits(h)) \/ Finished

\* make is scheduled, and every process ends.
Fairness == WF_vars(MakeStep) /\ \A h \in Handle : WF_vars(ProcessExits(h))

Spec == Init /\ [][Next]_vars
FairSpec == Spec /\ Fairness

------------------------------------------------------------------------------
\* Those of whose command make has not been told: the address of its sub_process.
Awaited(c) ==
  \/ c = "shell" /\ shell_function_pid # 0 /\ shell_function_completed = 0
  \/ c \in Range(children) /\ ~(pc = "got" /\ cur = c)
Child == Job \cup {"shell"}
pid_of(c) == IF c = "shell" THEN shell_function_pid ELSE pid[c]

(* The table, the heap and the chain say the same, although each is changed    *)
(* in another place: a child has a live sub_process of its own, the table      *)
(* holds just those that are waited for, once each, and the count of faked     *)
(* exits is that of the launches that failed (sub_proc.c:33, job.c:1117).      *)
TableIsChain ==
  LET waited == {c \in Child : Awaited(c) /\ ~(pc = "match" /\ got.pid = pid_of(c))} IN
  /\ Len(proc_array) = Cardinality(waited)
  /\ Range(proc_array) = {pid_of(c) : c \in waited}
  /\ \A c, d \in waited : pid_of(c) = pid_of(d) => c = d
  /\ \A a \in Addr : heap[a] # NoProcess <=> a \in Range(proc_array)
  /\ fake_exits_pending = Cardinality({a \in Range(proc_array) : heap[a].handle = 0})

(* Types, and that the table is the chain                                   *)
TypeOK ==
  /\ heap \in [Addr -> [handle : Handle \cup {0, Free}, exit_code : Code \cup BeginErrors]]
  /\ os \in [Handle -> {Free, Running} \cup Code]
  /\ proc_array \in Seq(Addr) /\ fake_exits_pending \in Nat
  /\ children \in Seq(Job) /\ job_slots_used <= JobSlots
  /\ pid \in [Job -> Addr \cup {0}]
  /\ line \in [Job -> Nat] /\ \A j \in Job : line[j] <= build.lines[j]
  /\ state \in [Job -> {"not_started", "running", "done", "failed"}]
  /\ shell_function_pid \in Addr \cup {0} /\ shell_function_completed \in 0..2
  /\ build \in Builds /\ {dying, err} \subseteq BOOLEAN
  /\ pc \in {"walk", "shell", "read", "read_all", "slots", "wait", "match", "got", "die", "exited"}
  /\ ret \in {"walk", "read_all", "slots", "die"}
  /\ new \in Job \cup {None} /\ cur \in Job \cup {None}
  /\ got \in [pid : Addr \cup {0}, exit_code : Code \cup BeginErrors]
  /\ told = <<>> \/ told \in ((Job \cup {"shell"}) \X (Code \cup BeginErrors))
  /\ TableIsChain

(* The table implements what make expects of a system it can wait on: each     *)
(* command's end is told once, to the child it was run for, with its status,   *)
(* in whatever order processes end and addresses and handles are used again    *)
(* ("kind of like waitpid()", sub_proc.c:128).                                *)
CommandOf(c) ==
  IF ~Awaited(c) THEN Free
  ELSE IF pc = "match" /\ got.pid = pid_of(c) THEN got.exit_code
  ELSE LET p == heap[pid_of(c)] IN IF p.handle = 0 THEN p.exit_code ELSE os[p.handle]
waits == INSTANCE ChildWait WITH
           Status <- Code \cup BeginErrors, None <- Free, command <- [c \in Child |-> CommandOf(c)]
ToldOnce == waits!Spec

(* make ends: no wait blocks or spins for ever, with launches that fail, shell  *)
(* functions among running jobs, and make giving up in any of its waits.       *)
Termination == <>(pc = "exited")
==============================================================================
