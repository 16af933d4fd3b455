------------------------------- MODULE Signals -------------------------------
(***************************************************************************)
(* A fatal signal in GNU make 3.78.1: fatal_error_signal (commands.c) runs   *)
(* at any point of the program at which signals are not blocked, and itself  *)
(* calls reap_children, which it may have interrupted.                       *)
(*                                                                          *)
(* There are two contexts, the program and the handler; while the handler is *)
(* active the program stands still, and it is never resumed, for the handler *)
(* ends by killing make.  One action of a context is a stretch of code at    *)
(* whose inner points an interruption makes no difference, or one that runs  *)
(* with signals blocked.  The commands run on by themselves.                 *)
(*                                                                          *)
(* The build is the one for POSIX.  One signal arrives; a second one of the  *)
(* same kind would end make at once, wherever it is.  Targets exist, have    *)
(* neither also_make nor .PRECIOUS, jobs are local, there is no shell        *)
(* function, and a command that a signal ends is ended at once.              *)
(***************************************************************************)
EXTENDS Naturals, FiniteSets

CONSTANTS
  Job,            \* the jobs; one has one target
  Lines,          \* Lines[j]: how many command lines j has
  JobSlots,       \* -j
  Options,        \* records [k, d]: -k is given, .DELETE_ON_ERROR is a target
  MayFail,        \* jobs whose commands can fail by themselves
  ForkFails,      \* jobs for whose commands vfork () can fail
  Ignores,        \* jobs whose commands ignore signals
  Sigs            \* signals that may arrive, of "INT", "TERM" and "XCPU"

ASSUME JobAssumption ==
  /\ IsFiniteSet(Job) /\ Job # {}
  /\ Lines \in [Job -> Nat \ {0}]
  /\ JobSlots \in Nat \ {0}

ASSUME SignalFlags ==
  Options \subseteq [k : BOOLEAN, d : BOOLEAN] /\ Sigs \subseteq {"INT", "TERM", "XCPU"}

VARIABLES
  opt,      \* the options make was started with
  pc,       \* pc[x]: where context x is; pc["handler"] = "off" outside the handler
  call,     \* call[x]: the arguments of its reap_children, and where that returns
  cur,      \* cur[x]: the child wait () returned, and how it ended
  new,      \* the job new_job is about to start
  chain,    \* the chain `children'
  used,     \* job_slots_used
  dying,    \* die () has been entered
  blocked,  \* fatal signals are blocked
  sig,      \* the signal that has arrived
  state,    \* f->command_state of the target of j, "failed" for update_status 2
  stale,    \* j's target: last_mtime was cleared by notice_finished_file
  deleted,  \* child->deleted
  line, proc, \* the line of j that runs, and its process
  target,   \* the target of j: as it was, half made, made, or deleted
  excused   \* history: jobs whose half made target make cannot be blamed for

vars == <<opt, pc, call, cur, new, chain, used, dying, blocked, sig, state, stale,
          deleted, line, proc, target, excused>>
jobvars == <<opt, state, stale, deleted, line, proc, target, excused>>

None == "none"
Ctx == {"main", "handler"}

------------------------------------------------------------------------------
\* The context that runs.  A signal that has come lets the program run on only
\* while signals are blocked, or up to the next block_sigs if that had begun.
Active(x) == x = "handler" <=> pc["handler"] # "off"
AtBlock(x, where) == Active(x) /\ pc[x] = where
At(x, where) == AtBlock(x, where) /\ (x = "handler" \/ sig = None \/ blocked)
Goto(x, where) == pc' = [pc EXCEPT ![x] = where]
handling_fatal_signal == pc["handler"] # "off"

Processes == {j \in Job : proc[j] \in {"run", "ok", "fail", "sig"}}
Zombies == {j \in Job : proc[j] \in {"ok", "fail", "sig"}}

NoCall == [block |-> FALSE, err |-> FALSE, to |-> "walk"]

Init ==
  /\ opt \in Options
  /\ pc = [main |-> "walk", handler |-> "off"]
  /\ call = [x \in Ctx |-> NoCall]
  /\ cur = [x \in Ctx |-> [job |-> CHOOSE j \in Job : TRUE, status |-> "ok"]]
  /\ new = CHOOSE j \in Job : TRUE
  /\ chain = {} /\ used = 0
  /\ dying = FALSE /\ blocked = FALSE /\ sig = None
  /\ state = [j \in Job |-> "not_started"]
  /\ stale = [j \in Job |-> FALSE] /\ deleted = [j \in Job |-> FALSE]
  /\ line = [j \in Job |-> 0] /\ proc = [j \in Job |-> None]
  /\ target = [j \in Job |-> "old"]
  /\ excused = {}

CallReap(x, block, err, to) ==
  /\ Goto(x, "reap")
  /\ call' = [call EXCEPT ![x] = [block |-> block, err |-> err, to |-> to]]

\* die (2): a second call, from within the first, exits.
Die(x) == Goto(x, IF dying THEN "exit" ELSE "die") /\ dying' = TRUE

------------------------------------------------------------------------------
(* new_job and start_waiting_job                                           *)

\* new_job (j) begins with reap_children (0, 0).
NewJob ==
  /\ At("main", "walk")
  /\ \E j \in Job : state[j] = "not_started" /\ new' = j
  /\ CallReap("main", FALSE, FALSE, "slots")
  /\ UNCHANGED <<cur, chain, used, dying, blocked, sig, jobvars>>

\* A pass ends with everything started: wait for a child, or end.
EndPass ==
  /\ At("main", "walk") /\ \A j \in Job : state[j] # "not_started"
  /\ IF chain # {}
       THEN CallReap("main", TRUE, FALSE, "walk") /\ UNCHANGED dying
       ELSE Die("main") /\ UNCHANGED call
  /\ UNCHANGED <<cur, new, chain, used, blocked, sig, jobvars>>

\* Without -k make ends when new_job has failed, and when the walk comes to a target
\* that reap_children has found to have failed.
GiveUp ==
  /\ \/ At("main", "stop")
     \/ At("main", "walk") /\ ~opt.k /\ \E j \in Job : state[j] = "failed"
  /\ Die("main")
  /\ UNCHANGED <<call, cur, new, chain, used, blocked, sig, jobvars>>

WaitForSlot ==
  /\ At("main", "slots") /\ used = JobSlots
  /\ CallReap("main", TRUE, FALSE, "slots")
  /\ UNCHANGED <<cur, new, chain, used, dying, blocked, sig, jobvars>>

Launch(j) ==
  /\ line' = [line EXCEPT ![j] = @ + 1]
  /\ proc' = [proc EXCEPT ![j] = "run"]

\* MUTANT: signals are not blocked before vfork ().
ForkUnblocked ==
  /\ AtBlock("main", "slots") /\ used # JobSlots
  /\ Launch(new) /\ state' = [state EXCEPT ![new] = "running"]
  /\ Goto("main", "chain")
  /\ UNCHANGED <<opt, call, cur, new, chain, used, dying, blocked, sig, stale, deleted, target, excused>>

\* start_job_command: signals are blocked and the first command is started.
Fork ==
  /\ AtBlock("main", "slots") /\ used # JobSlots
  /\ Launch(new) /\ state' = [state EXCEPT ![new] = "running"]
  /\ blocked' = TRUE /\ Goto("main", "chain")
  /\ UNCHANGED <<opt, call, cur, new, chain, used, dying, sig, stale, deleted, target, excused>>

\* start_waiting_job: the child is put on the chain and signals are let in.
OnChain ==
  /\ At("main", "chain")
  /\ chain' = chain \cup {new} /\ used' = used + 1
  /\ blocked' = FALSE /\ Goto("main", "walk")
  /\ UNCHANGED <<call, cur, new, dying, sig, jobvars>>

\* vfork () fails: notice_finished_file, and the child is freed.
ForkFailed ==
  /\ At("main", "slots") /\ used # JobSlots /\ new \in ForkFails
  /\ state' = [state EXCEPT ![new] = "failed"]
  /\ Goto("main", IF opt.k THEN "walk" ELSE "stop")
  /\ UNCHANGED <<opt, call, cur, new, chain, used, dying, blocked, sig,
                 stale, deleted, line, proc, target, excused>>

------------------------------------------------------------------------------
(* reap_children, in the program or in the handler                         *)

ReapReturn(x) ==
  /\ At(x, "reap")
  /\ \/ chain = {}
     \/ ~call[x].block /\ Zombies = {} /\ Processes # {}
  /\ Goto(x, call[x].to)
  /\ UNCHANGED <<call, cur, new, chain, used, dying, blocked, sig, jobvars>>

\* wait () takes the status of a dead child ...
Wait(x) ==
  /\ At(x, "reap") /\ chain # {}
  /\ \E j \in Zombies :
       /\ cur' = [cur EXCEPT ![x] = [job |-> j, status |-> proc[j]]]
       /\ proc' = [proc EXCEPT ![j] = "reaped"]
  /\ Goto(x, "got")
  /\ UNCHANGED <<opt, call, new, chain, used, dying, blocked, sig,
                 state, stale, deleted, line, target, excused>>

\* MUTANT: wait () is called again when it fails.
WaitAgain(x) ==
  /\ At(x, "reap") /\ chain # {} /\ Processes = {}
  /\ UNCHANGED vars

\* ... or fails, when the chain holds only a child that was waited for already.
WaitFails(x) ==
  /\ At(x, "reap") /\ chain # {} /\ Processes = {}
  /\ Die(x)
  /\ UNCHANGED <<call, cur, new, chain, used, blocked, sig, jobvars>>

\* delete_child_targets for the children S: those changed since make looked, or
\* whose last_mtime was cleared (forgot).
DeleteTargets(S, forgot) ==
  /\ target' = [j \in Job |-> IF j \in S /\ ~deleted[j] /\ (forgot[j] \/ target[j] # "old")
                                THEN "gone" ELSE target[j]]
  /\ deleted' = [j \in Job |-> deleted[j] \/ j \in S]

\* The next line is started; vfork () runs with signals blocked.
GotNextLine(x) ==
  LET j == cur[x].job IN
  /\ AtBlock(x, "got") /\ cur[x].status = "ok" /\ line[j] < Lines[j]
  /\ ~handling_fatal_signal
  /\ Launch(j)
  /\ Goto(x, "reap")
  /\ UNCHANGED <<opt, call, cur, new, chain, used, dying, blocked, sig,
                 state, stale, deleted, target, excused>>

\* The command failed, or its target cannot be completed: a vfork () that fails
\* notices the target before it is deleted.
GotFailed(x) ==
  LET j == cur[x].job
      failed == cur[x].status # "ok"
  IN /\ At(x, "got")
     /\ failed \/ (line[j] < Lines[j] /\ (handling_fatal_signal \/ j \in ForkFails))
     /\ state' = [state EXCEPT ![j] = "failed"]
     /\ stale' = [stale EXCEPT ![j] = @ \/ (~failed /\ ~handling_fatal_signal)]
     /\ IF cur[x].status # "fail" \/ opt.d
          THEN DeleteTargets({j}, stale') /\ UNCHANGED excused
          ELSE excused' = excused \cup {j} /\ UNCHANGED <<deleted, target>>
     /\ Goto(x, "notice")
     /\ UNCHANGED <<opt, call, cur, new, chain, used, dying, blocked, sig, line, proc>>

GotDone(x) ==
  LET j == cur[x].job IN
  /\ At(x, "got") /\ cur[x].status = "ok" /\ line[j] = Lines[j]
  /\ Goto(x, "notice")
  /\ UNCHANGED <<call, cur, new, chain, used, dying, blocked, sig, jobvars>>

\* notice_finished_file clears last_mtime; in the handler it is not called.
Notice(x) ==
  LET j == cur[x].job IN
  /\ At(x, "notice")
  /\ IF handling_fatal_signal
       THEN UNCHANGED <<state, stale>>
       ELSE /\ state' = [state EXCEPT ![j] = IF @ = "failed" THEN @ ELSE "done"]
            /\ stale' = [stale EXCEPT ![j] = TRUE]
  /\ Goto(x, "remove")
  /\ UNCHANGED <<opt, call, cur, new, chain, used, dying, blocked, sig,
                 deleted, line, proc, target, excused>>

\* MUTANT: job_slots_used is decremented when signals are let in again, and one
\* that has come gets in first.
RemoveFirst(x) ==
  /\ AtBlock(x, "remove")
  /\ chain' = chain \ {cur[x].job}
  /\ used' = IF sig = None \/ x = "handler" THEN used - 1 ELSE used
  /\ call' = [call EXCEPT ![x].block = FALSE]
  /\ Goto(x, "reap")
  /\ UNCHANGED <<cur, new, dying, blocked, sig, jobvars>>

\* MUTANT: the child is taken from the chain when signals are let in again.
RemoveLast(x) ==
  /\ AtBlock(x, "remove")
  /\ chain' = IF sig = None \/ x = "handler" THEN chain \ {cur[x].job} ELSE chain
  /\ used' = used - 1
  /\ call' = [call EXCEPT ![x].block = FALSE]
  /\ Goto(x, "reap")
  /\ UNCHANGED <<cur, new, dying, blocked, sig, jobvars>>

\* With signals blocked the child leaves the chain; without -k make gives up.
Remove(x) ==
  /\ AtBlock(x, "remove")
  /\ chain' = chain \ {cur[x].job}
  /\ used' = IF used > 0 THEN used - 1 ELSE used
  /\ call' = [call EXCEPT ![x].block = FALSE]
  /\ IF /\ ~call[x].err /\ cur[x].status # "ok"
        /\ ~opt.k /\ ~handling_fatal_signal
       THEN Die(x)
       ELSE Goto(x, "reap") /\ UNCHANGED dying
  /\ UNCHANGED <<cur, new, blocked, sig, jobvars>>

\* die (): wait for all children, with err from the first round only.
DieWait(x) ==
  /\ At(x, "die") /\ used > 0
  /\ CallReap(x, TRUE, call[x].to # "die", "die")
  /\ UNCHANGED <<cur, new, chain, used, dying, blocked, sig, jobvars>>

Exit(x) ==
  /\ At(x, "exit") \/ (At(x, "die") /\ used = 0)
  /\ pc' = [pc EXCEPT ![x] = "exited"]
  /\ UNCHANGED <<call, cur, new, chain, used, dying, blocked, sig, jobvars>>

------------------------------------------------------------------------------
(* The signal                                                              *)

\* A signal arrives; SIGINT, from the terminal, at the commands too.
Arrives(s) ==
  /\ sig = None /\ pc["main"] # "exited"
  /\ sig' = s
  /\ proc' = [j \in Job |-> IF s = "INT" /\ proc[j] = "run" /\ j \notin Ignores
                              THEN "sig" ELSE proc[j]]
  /\ UNCHANGED <<opt, pc, call, cur, new, chain, used, dying, blocked,
                 state, stale, deleted, line, target, excused>>

\* The handler is entered.  After SIGTERM it kills the children on the chain.
Deliver ==
  /\ sig # None /\ ~blocked /\ ~handling_fatal_signal /\ pc["main"] # "exited"
  /\ proc' = [j \in Job |-> IF /\ sig = "TERM" /\ j \in chain
                               /\ proc[j] = "run" /\ j \notin Ignores
                              THEN "sig" ELSE proc[j]]
  /\ Goto("handler", "pending")
  /\ UNCHANGED <<opt, call, cur, new, chain, used, dying, blocked, sig,
                 state, stale, deleted, line, target, excused>>

\* "If we got a signal that means the user wanted to kill make, remove pending
\* targets."
Pending ==
  /\ pc["handler"] = "pending"
  /\ IF sig = "XCPU" THEN UNCHANGED <<deleted, target>> ELSE DeleteTargets(chain, stale)
  /\ Goto("handler", "children")
  /\ UNCHANGED <<opt, call, cur, new, chain, used, dying, blocked, sig,
                 state, stale, line, proc, excused>>

\* "Clean up the children."
Children ==
  /\ pc["handler"] = "children" /\ used > 0
  /\ CallReap("handler", TRUE, sig = "XCPU", "children")
  /\ UNCHANGED <<cur, new, chain, used, dying, blocked, sig, jobvars>>

\* "Signal the same code; this time it will really be fatal."
KillSelf ==
  /\ pc["handler"] = "children" /\ used = 0
  /\ Goto("handler", "killed")
  /\ UNCHANGED <<call, cur, new, chain, used, dying, blocked, sig, jobvars>>

------------------------------------------------------------------------------
(* The commands                                                            *)

\* A command changes its target, which is not complete before the last line ends.
\* It may do so after make has deleted it, when it did not get the signal.
CommandWrites(j) ==
  /\ proc[j] = "run" /\ target[j] # "half"
  /\ target' = [target EXCEPT ![j] = "half"]
  /\ excused' = IF deleted[j] THEN excused \cup {j} ELSE excused
  /\ UNCHANGED <<opt, pc, call, cur, new, chain, used, dying, blocked, sig,
                 state, stale, deleted, line, proc>>

CommandExits(j) ==
  /\ proc[j] = "run"
  /\ \/ /\ proc' = [proc EXCEPT ![j] = "ok"]
        /\ target' = [target EXCEPT ![j] =
                        IF line[j] = Lines[j] /\ @ = "half" THEN "made" ELSE @]
     \/ /\ j \in MayFail
        /\ proc' = [proc EXCEPT ![j] = "fail"]
        /\ UNCHANGED target
  /\ UNCHANGED <<opt, pc, call, cur, new, chain, used, dying, blocked, sig,
                 state, stale, deleted, line, excused>>

Over == pc["main"] = "exited" \/ pc["handler"] \in {"exited", "killed"}

MakeStep ==
  \/ NewJob \/ EndPass \/ GiveUp \/ WaitForSlot \/ Fork \/ OnChain \/ ForkFailed
  \/ \E x \in Ctx :
       \/ ReapReturn(x) \/ Wait(x) \/ WaitFails(x)
       \/ GotNextLine(x) \/ GotFailed(x) \/ GotDone(x)
       \/ Notice(x) \/ Remove(x) \/ DieWait(x) \/ Exit(x)
  \/ Deliver \/ Pending \/ Children \/ KillSelf

Environment ==
  \/ \E s \in Sigs : Arrives(s)
  \/ \E j \in Job : CommandWrites(j) \/ CommandExits(j)

Finished == Over /\ UNCHANGED vars

Next == (~Over /\ (MakeStep \/ Environment)) \/ Finished

\* make is scheduled, and every command ends.
Fairness == WF_vars(MakeStep) /\ \A j \in Job : WF_vars(CommandExits(j))

Spec == Init /\ [][Next]_vars
FairSpec == Spec /\ Fairness

------------------------------------------------------------------------------
TypeOK ==
  /\ opt \in Options
  /\ pc["main"] \in {"walk", "slots", "chain", "reap", "got", "notice", "remove",
                     "stop", "die", "exit", "exited"}
  /\ pc["handler"] \in {"off", "pending", "children", "reap", "got", "notice", "remove",
                        "die", "exit", "exited", "killed"}
  /\ call \in [Ctx -> [block : BOOLEAN, err : BOOLEAN,
                       to : {"walk", "slots", "die", "children"}]]
  /\ cur \in [Ctx -> [job : Job, status : {"ok", "fail", "sig"}]]
  /\ new \in Job /\ chain \subseteq Job /\ used = Cardinality(chain)
  /\ {dying, blocked} \subseteq BOOLEAN /\ sig \in Sigs \cup {None}
  /\ state \in [Job -> {"not_started", "running", "done", "failed"}]
  /\ {stale, deleted} \subseteq [Job -> BOOLEAN]
  /\ line \in [Job -> Nat] /\ \A j \in Job : line[j] <= Lines[j]
  /\ proc \in [Job -> {None, "run", "ok", "fail", "sig", "reaped"}]
  /\ target \in [Job -> {"old", "half", "made", "gone"}]
  /\ excused \subseteq Job

(* When the signal really kills make, no target is left half made: the        *)
(* handler deletes those of the running jobs (commands.c:430), reap_children  *)
(* those whose commands are cut short (job.c:592).  Not make's fault are a    *)
(* command that failed without .DELETE_ON_ERROR, and one that missed the      *)
(* signal and wrote its target anew.                                         *)
HalfMadeGone ==
  pc["handler"] = "killed" => \A j \in Job : target[j] = "half" => j \in excused

(* A signal never ends make with a command still running or unwaited for:     *)
(* signals are blocked from vfork () until the child is on the chain, so that *)
(* the handler knows it (job.c:986).  By itself make leaves commands only     *)
(* when it gives up (NoOrphans in Jobserver.tla).                            *)
NothingRuns == Over => Processes = {} \/ (pc["main"] = "exited" /\ ~opt.k)

(* However make ends, nothing it has begun is left as it was at that moment.  *)
EndsClean == HalfMadeGone /\ NothingRuns

(* Once a job is off the chain with success, nothing deletes its target, not  *)
(* the handler either, although last_mtime is 0 from notice_finished_file on  *)
(* and delete_target would take any file for a changed one (commands.c:487).  *)
KeptOnceDone ==
  [][\A j \in Job :
       /\ state[j] = "done" /\ target[j] = "made"
       /\ ~(pc["main"] \in {"got", "notice", "remove"} /\ cur["main"].job = j)
       => target'[j] = "made"]_vars

(* make ends, by itself or by the signal, wherever the signal meets it: the   *)
(* handler's loops while job_slots_used > 0 (commands.c:435, 441) always end. *)
Termination == <>Over
==============================================================================
