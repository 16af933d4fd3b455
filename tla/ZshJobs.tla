------------------------------- MODULE ZshJobs -------------------------------
(***************************************************************************)
(* How zsh on Windows NT learns that its children have ended, and waits for   *)
(* them: the imitation of POSIX signals in Src/ntport/signal.c, the handler   *)
(* of SIGCHLD (Src/signals.c), the job table (Src/jobs.c) and its users       *)
(* execpline, execcmd, getoutput and getoutputfile (Src/exec.c).              *)
(*                                                                          *)
(* One thread per child waits for its end and then runs the signal handler    *)
(* while the main thread is suspended, so that a callback is one step; the    *)
(* main thread can be stopped between any two of its own.  Of the mask only   *)
(* SIGCHLD is modelled.  The option NOTIFY is set, as by default.  Not        *)
(* modelled: other signals and traps, stopped jobs, job control, errors of    *)
(* fork, disowned jobs, compound commands, the races of the allocator, pids    *)
(* that are used again, the bound of the job table.                           *)
(***************************************************************************)
EXTENDS Integers, Sequences, SequencesExt

CONSTANTS
  Child,     \* the processes that may be forked, which stand for their pids
  None,      \* no child
  Scripts,   \* sequences of commands [async, stages]; a stage is [kind, subst, proc]:
             \* the process, and before it a $(subst), kind "output", a =(subst), kind
             \* "file", or neither, kind "none"
  ExitCode,  \* the exit code of each child
  Garbage,   \* what an exit code that was never written may be
  MaxAllocs  \* bound: new heaps that halloc allocates

ASSUME ChildAssumption == None \notin Child /\ ExitCode \in [Child -> Nat]
ASSUME GarbageAssumption == Garbage \subseteq Nat
ASSUME BoundAssumption == MaxAllocs \in Nat

Stage == [kind : {"none", "output", "file"}, subst : Child \cup {None}, proc : Child]
ASSUME ScriptAssumption == Scripts \subseteq Seq([async : BOOLEAN, stages : Seq(Stage)])

Running == -1                    \* SP_RUNNING

VARIABLES
  script, i, s,      \* the commands, the current one, and its stage
  pc, stack,         \* of the main thread; a frame has the pc to return to, and the locals
                     \* of handler (): the old mask, the child reaped and its status
  state,             \* of each child: "none", "running", "ended", "closed" (its handle, by
                     \* its thread), "told" (its thread has called back), "reaped"
  mask, pending,     \* gBlockMask and gPending of SIGCHLD
  queued,            \* the signal queue of unqueue_signals holds a SIGCHLD
  clist,             \* the list from clist_h to clist_t: [pid, exitcode]
  hsigsusp, is_suspended,  \* the event of sigsuspend, and __is_suspended
  thisjob,           \* 0 is -1 of the code; jobs are numbered as their commands
  tab,               \* [stat, procs, status, lastval, cmdoutpid, cmdoutval]: the job table,
                     \* the status of its processes, $?, and the child of $() and its status
  os,                \* getoutputfile's copy of the job's stat
  allocs,            \* counts new heaps, up to MaxAllocs
  spoilt, lost       \* history: children whose exit code was overwritten in the list, and
                     \* jobs updated after they had been deleted

program == <<script, i, s, thisjob, os, allocs>>
signals == <<mask, pending, queued, clist>>
event == <<hsigsusp, is_suspended>>
history == <<spoilt, lost>>
vars == <<program, pc, stack, state, signals, event, tab, history>>

Job == DOMAIN script
cmd == script[i]
stage == cmd.stages[s]
queueing_enabled == pc = "alloc"

Init ==
  /\ script \in Scripts /\ i = 0 /\ s = 0
  /\ pc = "next" /\ stack = <<>>
  /\ state = [c \in Child |-> "none"]
  /\ mask = FALSE /\ pending = FALSE /\ queued = FALSE /\ clist = <<>>
  /\ hsigsusp = FALSE /\ is_suspended = FALSE
  /\ thisjob = 0
  /\ tab = [stat |-> [j \in Job |-> {}], procs |-> [j \in Job |-> <<>>],
            status |-> [c \in Child |-> Running],
            lastval |-> 0, cmdoutpid |-> None, cmdoutval |-> 0]
  /\ os = {} /\ allocs = 0 /\ spoilt = {} /\ lost = {}

Goto(p) == pc' = p /\ UNCHANGED stack
Frame(to) == [to |-> to, old |-> FALSE, pid |-> None, st |-> 0]
Call(p, to) == pc' = p /\ stack' = Append(stack, Frame(to))
Return == pc' = Last(stack).to /\ stack' = Front(stack)

\* child_unblock, child_suspend; sigprocmask delivers what is pending unless it blocks.
child_unblock(to) == mask' = FALSE /\ Call("deliver", to)
child_suspend(to) == Call("suspend", to)

------------------------------------------------------------------------------
(* The job table, as a function of what it was                              *)

deletejob(t, j) == [t EXCEPT !.stat[j] = {}, !.procs[j] = <<>>]
printjob(t, j) == IF "done" \in t.stat[j] THEN deletejob(t, j)
                                          ELSE [t EXCEPT !.stat[j] = @ \ {"changed"}]

\* handler: the job of a process, or 0; not found is also the child of a $(...).
findproc(t, c) ==
  LET js == {j \in Job : c \in Range(t.procs[j])} IN
  IF c = t.cmdoutpid \/ js = {} THEN 0 ELSE CHOOSE j \in js : TRUE

\* The status goes to the $(...) or, update_process, to the process of the job.
Record(t, c, st) ==
  IF c = t.cmdoutpid THEN [t EXCEPT !.cmdoutpid = None, !.cmdoutval = st]
  ELSE IF findproc(t, c) = 0 THEN t ELSE [t EXCEPT !.status[c] = st]

Done(t, j, val) ==
  LET u == [t EXCEPT !.stat[j] = @ \cup {"changed", "done"},
                     !.lastval = IF j = thisjob THEN val ELSE @]
  IN IF "locked" \in t.stat[j] THEN printjob(u, j) ELSE u
AllEnded(t, j) == \A c \in Range(t.procs[j]) : t.status[c] # Running

\* MUTANT: the first process of a pipeline determines its status.
update_first(t, j) ==
  IF ~AllEnded(t, j) THEN t
  ELSE Done(t, j, IF t.procs[j] = <<>> THEN 0 ELSE t.status[Head(t.procs[j])])

update_job(t, j) ==
  IF ~AllEnded(t, j) THEN t
  ELSE Done(t, j, IF t.procs[j] = <<>> THEN 0 ELSE t.status[Last(t.procs[j])])

WaitStatus(exitcode) == exitcode % 256

\* One round of the loop in handler, undisturbed
Reap(t, node) ==
  LET u == Record(t, node.pid, WaitStatus(node.exitcode))
      j == findproc(t, node.pid)
  IN IF j = 0 THEN u ELSE update_job(u, j)

------------------------------------------------------------------------------
(* The children and their threads                                           *)

Ends(c) ==
  /\ state[c] = "running" /\ state' = [state EXCEPT ![c] = "ended"]
  /\ UNCHANGED <<program, pc, stack, signals, event, tab, history>>

CloseHandle(c) ==
  /\ state[c] = "ended" /\ state' = [state EXCEPT ![c] = "closed"]
  /\ UNCHANGED <<program, pc, stack, signals, event, tab, history>>

\* add_to_child_list: behind others, the exit code goes to the head of the list, and
\* the new node has what was in its memory.
Added(c, junk) ==
  IF clist = <<>> THEN <<[pid |-> c, exitcode |-> ExitCode[c]]>>
  ELSE Append([clist EXCEPT ![1].exitcode = ExitCode[c]], [pid |-> c, exitcode |-> junk])

\* generic_handler and handler, when SIGCHLD is blocked,
Pend(c, list) ==
  /\ mask /\ pending' = TRUE /\ clist' = list /\ state' = [state EXCEPT ![c] = "told"]
  /\ UNCHANGED <<mask, queued, hsigsusp, tab>>

\* when signals are queued: handler returns with all signals blocked, and nothing
\* undoes that,
Queue(c, list) ==
  /\ ~mask /\ queueing_enabled
  /\ queued' = TRUE /\ mask' = TRUE
  /\ clist' = list /\ state' = [state EXCEPT ![c] = "told"]
  /\ UNCHANGED <<pending, hsigsusp, tab>>

\* and otherwise; the setmask in handler delivers what is pending.
Handle(list) ==
  /\ ~mask /\ ~queueing_enabled
  /\ tab' \in FoldLeft(LAMBDA ts, n : {Reap(t, n) : t \in ts}, {tab}, list)
  /\ clist' = <<>> /\ pending' = FALSE
  /\ state' = [d \in Child |->
                 IF \E n \in Range(list) : n.pid = d THEN "reaped" ELSE state[d]]
  /\ hsigsusp' = (hsigsusp \/ is_suspended)
  /\ UNCHANGED <<mask, queued>>

\* sig_child_callback, with the main thread suspended
Callback(c) ==
  /\ state[c] = "closed"
  /\ \E junk \in Garbage : LET list == Added(c, junk) IN
       Pend(c, list) \/ Queue(c, list) \/ Handle(list)
  /\ spoilt' = IF clist = <<>> THEN spoilt ELSE spoilt \cup {c, Head(clist).pid}
  /\ UNCHANGED <<program, pc, stack, is_suspended, lost>>

------------------------------------------------------------------------------
(* The main thread: signals                                                 *)

\* deliver_pending; nothing but generic_handler is left when handler () returns.
Deliver ==
  /\ pc = "deliver"
  /\ IF pending /\ ~mask THEN pending' = FALSE /\ Goto("handler")
                         ELSE Return /\ UNCHANGED pending
  /\ UNCHANGED <<program, state, mask, queued, clist, event, tab, history>>

SetTop(f) == stack' = [stack EXCEPT ![Len(stack)] = f]

\* handler: all signals are blocked for a moment
HandlerBlocks ==
  /\ pc = "handler" /\ pc' = "unmask"
  /\ mask' = TRUE /\ SetTop([Last(stack) EXCEPT !.old = mask])
  /\ UNCHANGED <<program, state, pending, queued, clist, event, tab, history>>

HandlerUnmasks ==
  /\ pc = "unmask"
  /\ mask' = Last(stack).old /\ Call("deliver", "waitpid")
  /\ UNCHANGED <<program, state, pending, queued, clist, event, tab, history>>

\* MUTANT: only a callback wakes sigsuspend, not a signal delivered late.
WaitpidSilent ==
  /\ pc = "waitpid"
  /\ IF clist = <<>>
     THEN Return /\ UNCHANGED <<clist, state>>
     ELSE LET n == Head(clist) IN
          /\ pc' = "found"
          /\ SetTop([Last(stack) EXCEPT !.pid = n.pid, !.st = WaitStatus(n.exitcode)])
          /\ clist' = Tail(clist) /\ state' = [state EXCEPT ![n.pid] = "reaped"]
  /\ UNCHANGED <<program, mask, pending, queued, event, tab, history>>

\* WAIT; when no child is left handler and generic_handler return.
Waitpid ==
  /\ pc = "waitpid"
  /\ IF clist = <<>>
     THEN /\ Return /\ hsigsusp' = (hsigsusp \/ is_suspended)
          /\ UNCHANGED <<clist, state>>
     ELSE LET n == Head(clist) IN
          /\ pc' = "found"
          /\ SetTop([Last(stack) EXCEPT !.pid = n.pid, !.st = WaitStatus(n.exitcode)])
          /\ clist' = Tail(clist) /\ state' = [state EXCEPT ![n.pid] = "reaped"]
          /\ UNCHANGED hsigsusp
  /\ UNCHANGED <<program, mask, pending, queued, is_suspended, tab, history>>

\* The child of a $(...), or findproc and update_process; st is the job from now on.
FoundProc ==
  LET f == Last(stack) IN
  /\ pc = "found"
  /\ tab' = Record(tab, f.pid, f.st)
  /\ SetTop([f EXCEPT !.pid = None, !.st = findproc(tab, f.pid)])
  /\ pc' = IF findproc(tab, f.pid) = 0 THEN "waitpid" ELSE "update"
  /\ UNCHANGED <<program, state, signals, event, history>>

UpdateJob ==
  LET j == Last(stack).st IN
  /\ pc = "update" /\ pc' = "waitpid"
  /\ tab' = update_job(tab, j)
  /\ lost' = IF tab.procs[j] = <<>> THEN lost \cup {j} ELSE lost
  /\ SetTop([Last(stack) EXCEPT !.st = 0])
  /\ UNCHANGED <<program, state, signals, event, spoilt>>

\* sigsuspend: __is_suspended is set,
Suspend ==
  /\ pc = "suspend" /\ Goto("open")
  /\ is_suspended' = TRUE
  /\ UNCHANGED <<program, state, signals, hsigsusp, tab, history>>
\* SIGCHLD is let through,
SuspendUnmasks ==
  /\ pc = "open"
  /\ mask' = FALSE /\ Call("deliver", "wait")
  /\ UNCHANGED <<program, state, pending, queued, clist, event, tab, history>>
\* the event is waited for and reset,
SuspendWaits ==
  /\ pc = "wait" /\ hsigsusp /\ Goto("woken")
  /\ hsigsusp' = FALSE
  /\ UNCHANGED <<program, state, signals, is_suspended, tab, history>>
\* and all is set back.
SuspendEnds ==
  /\ pc = "woken" /\ Goto("close")
  /\ is_suspended' = FALSE
  /\ UNCHANGED <<program, state, signals, hsigsusp, tab, history>>
SuspendMasks ==
  /\ pc = "close"
  /\ mask' = TRUE /\ Return
  /\ UNCHANGED <<program, state, pending, queued, clist, event, tab, history>>

Signals ==
  \/ Deliver \/ HandlerBlocks \/ HandlerUnmasks \/ Waitpid \/ FoundProc \/ UpdateJob
  \/ Suspend \/ SuspendUnmasks \/ SuspendWaits \/ SuspendEnds \/ SuspendMasks

------------------------------------------------------------------------------
(* The main thread: commands                                                *)

\* halloc takes a new heap, between commands or for arguments, with signals queued,
Alloc ==
  /\ pc \in {"next", "fork"} /\ allocs < MaxAllocs /\ Call("alloc", pc)
  /\ allocs' = allocs + 1
  /\ UNCHANGED <<script, i, s, thisjob, os, state, signals, event, tab, history>>
\* and unqueue_signals: handler runs with the mask it was to run with before.
Unqueue ==
  /\ pc = "alloc"
  /\ IF queued THEN /\ queued' = FALSE /\ mask' = FALSE
                    /\ pc' = "deliver"
                    /\ stack' = stack \o <<Frame("unqueued"), Frame("handler")>>
               ELSE Return /\ UNCHANGED <<queued, mask>>
  /\ UNCHANGED <<program, state, pending, clist, event, tab, history>>
\* The mask of before is that which the queueing has left.
Unqueued ==
  /\ pc = "unqueued" /\ Return
  /\ mask' = TRUE
  /\ UNCHANGED <<program, state, pending, queued, clist, event, tab, history>>

\* execpline and initjob
Begin ==
  /\ pc = "next" /\ i < Len(script) /\ Goto("stage")
  /\ i' = i + 1 /\ s' = 1 /\ thisjob' = i + 1
  /\ mask' = TRUE
  /\ tab' = [tab EXCEPT !.stat[i + 1] = {"inuse"}]
  /\ UNCHANGED <<script, os, allocs, state, pending, queued, clist, event, history>>

Fork(c) == state' = [state EXCEPT ![c] = "running"]

\* execcmd: the arguments of a stage are expanded first.  getoutput blocks SIGCHLD,
\* forks, reads until the child has closed its output, and suspends once.
NoSubst ==
  /\ pc = "stage" /\ stage.kind = "none" /\ Goto("fork")
  /\ UNCHANGED <<program, state, signals, event, tab, history>>
Getoutput ==
  /\ pc = "stage" /\ stage.kind = "output"
  /\ mask' = TRUE
  /\ Fork(stage.subst)
  /\ tab' = [tab EXCEPT !.cmdoutpid = stage.subst, !.cmdoutval = 0]
  /\ child_suspend("output")
  /\ UNCHANGED <<program, pending, queued, clist, event, history>>
GetoutputEnds ==
  /\ pc = "output" /\ Goto("fork")
  /\ tab' = [tab EXCEPT !.lastval = tab.cmdoutval]
  /\ UNCHANGED <<program, state, signals, event, history>>

\* getoutputfile
Getoutputfile ==
  /\ pc = "stage" /\ stage.kind = "file" /\ Goto("waitforpid")
  /\ mask' = TRUE
  /\ Fork(stage.subst)
  /\ tab' = [tab EXCEPT !.cmdoutpid = stage.subst]
  /\ os' = tab.stat[thisjob]
  /\ UNCHANGED <<script, i, s, thisjob, allocs, pending, queued, clist, event, history>>
\* waitforpid: kill (pid, 0) finds a process as long as somebody has a handle of it.
Waitforpid ==
  /\ pc = "waitforpid" /\ state[stage.subst] \in {"running", "ended"}
  /\ child_suspend("waitforpid")
  /\ UNCHANGED <<program, state, signals, event, tab, history>>
WaitforpidEnds ==
  /\ pc = "waitforpid" /\ state[stage.subst] \notin {"running", "ended"}
  /\ child_unblock("file")
  /\ UNCHANGED <<program, state, pending, queued, clist, event, tab, history>>
GetoutputfileEnds ==
  /\ pc = "file" /\ Goto("fork")
  /\ tab' = [tab EXCEPT !.cmdoutval = 0, !.stat[thisjob] = os]
  /\ os' = {}
  /\ UNCHANGED <<script, i, s, thisjob, allocs, state, signals, event, history>>

\* MUTANT: SIGCHLD is not blocked between zfork and addproc.
ForkUnblocked ==
  /\ pc = "fork" /\ Goto("addproc")
  /\ Fork(stage.proc)
  /\ UNCHANGED <<program, signals, event, tab, history>>

\* execcmd: child_block, zfork
ForkStage ==
  /\ pc = "fork" /\ Goto("addproc")
  /\ mask' = TRUE
  /\ Fork(stage.proc)
  /\ UNCHANGED <<program, pending, queued, clist, event, tab, history>>

Addproc ==
  /\ pc = "addproc"
  /\ tab' = [tab EXCEPT !.procs[thisjob] = Append(@, stage.proc)]
  /\ IF s < Len(cmd.stages) THEN s' = s + 1 /\ Goto("stage")
     ELSE UNCHANGED s /\ Goto(IF cmd.async THEN "spawn" ELSE "waitjob")
  /\ UNCHANGED <<script, i, thisjob, os, allocs, state, signals, event, history>>

\* spawnjob, and execpline lets SIGCHLD through.
Spawnjob ==
  /\ pc = "spawn"
  /\ tab' = [tab EXCEPT !.stat[thisjob] = @ \cup {"locked"}]
  /\ thisjob' = 0
  /\ child_unblock("next")
  /\ UNCHANGED <<script, i, s, os, allocs, state, pending, queued, clist, event, history>>

\* waitjob
Waitjob ==
  /\ pc = "waitjob" /\ Goto("loop")
  /\ mask' = TRUE
  /\ LET t == [tab EXCEPT !.stat[thisjob] = @ \cup {"locked"}] IN
     tab' = IF "changed" \in t.stat[thisjob] THEN printjob(t, thisjob) ELSE t
  /\ UNCHANGED <<program, state, pending, queued, clist, event, history>>
WaitjobLoop ==
  /\ pc = "loop" /\ tab.stat[thisjob] # {} /\ "done" \notin tab.stat[thisjob]
  /\ child_suspend("loop")
  /\ UNCHANGED <<program, state, signals, event, tab, history>>
WaitjobEnds ==
  /\ pc = "loop" /\ (tab.stat[thisjob] = {} \/ "done" \in tab.stat[thisjob])
  /\ child_unblock("over")
  /\ UNCHANGED <<program, state, pending, queued, clist, event, tab, history>>
\* waitjobs, and the second child_unblock of execpline
Over ==
  /\ pc = "over" /\ thisjob' = 0
  /\ child_unblock("next")
  /\ UNCHANGED <<script, i, s, os, allocs, state, pending, queued, clist, event, tab, history>>

Commands ==
  \/ Alloc \/ Unqueue \/ Unqueued \/ Begin
  \/ NoSubst \/ Getoutput \/ GetoutputEnds
  \/ Getoutputfile \/ Waitforpid \/ WaitforpidEnds \/ GetoutputfileEnds
  \/ ForkStage \/ Addproc \/ Spawnjob \/ Waitjob \/ WaitjobLoop \/ WaitjobEnds \/ Over

Main == Signals \/ Commands
ChildStep(c) == Ends(c) \/ CloseHandle(c) \/ Callback(c)

\* The script is done, and nothing can happen any more.
Finished == pc = "next" /\ i = Len(script)
AllTold == \A c \in Child : state[c] \in {"none", "told", "reaped"}
Stops == Finished /\ allocs = MaxAllocs /\ AllTold /\ UNCHANGED vars

Next == Main \/ (\E c \in Child : ChildStep(c)) \/ Stops

Spec == Init /\ [][Next]_vars

\* The main thread runs, every child ends, and every thread of a child runs.
Fairness == WF_vars(Main) /\ \A c \in Child : WF_vars(ChildStep(c))
FairSpec == Spec /\ Fairness

------------------------------------------------------------------------------
InHandler == \/ pc \in {"handler", "unmask", "waitpid", "found", "update"}
             \/ \E k \in DOMAIN stack : stack[k].to \in {"waitpid", "handler"}

(* Types, and the rules that the parts of the shell rely on: sigsuspend is     *)
(* entered with SIGCHLD blocked, a process is not reaped before the job table  *)
(* has it, the list holds just the children that have told, and none of them   *)
(* is forgotten: the signal is pending, queued or being handled.              *)
TypeOK ==
  /\ tab \in [stat : [Job -> SUBSET {"inuse", "changed", "done", "locked"}],
              procs : [Job -> Seq(Child)], status : [Child -> {Running} \cup 0..255],
              lastval : 0..255, cmdoutpid : Child \cup {None}, cmdoutval : 0..255]
  /\ pc = "suspend" => mask
  /\ pc = "addproc" => state[stage.proc] # "reaped"
  /\ {n.pid : n \in Range(clist)} = {c \in Child : state[c] = "told"}
  /\ Len(clist) = Cardinality(Range(clist))
  /\ clist # <<>> => pending \/ queued \/ InHandler

(* When the shell goes on after a pipeline its processes have ended ("wait for *)
(* a job to finish", jobs.c:512), and $? is the low byte of the last one's exit *)
(* code; and so it is for $(...), if its child has been reaped by then.  $? is  *)
(* wrong, by the code, when two children were in the list at once (signal.c:427) *)
(* and when the handler, interrupted by itself, updates a job that is gone.    *)
StatusTells ==
  /\ pc = "over" =>
       LET last == cmd.stages[Len(cmd.stages)].proc IN
       /\ \A k \in DOMAIN cmd.stages : state[cmd.stages[k].proc] = "reaped"
       /\ last \in spoilt \/ thisjob \in lost \/ tab.lastval = WaitStatus(ExitCode[last])
  /\ pc = "output" /\ state[stage.subst] = "reaped" =>
       stage.subst \in spoilt \/ tab.cmdoutval = WaitStatus(ExitCode[stage.subst])

(* The shell gets through its script, no wakeup of sigsuspend is lost, and in  *)
(* the end every child is reaped and every job gone from the table; unless     *)
(* queueing a signal has left SIGCHLD blocked (signals.c:397), or the job was    *)
(* updated when it was gone.                                                 *)
Termination ==
  <>[](Finished /\ (\/ mask
                   \/ /\ \A c \in Child : state[c] \in {"none", "reaped"}
                      /\ \A j \in Job : tab.stat[j] = {} \/ j \in lost))
==============================================================================
