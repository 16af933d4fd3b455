------------------------------ MODULE Jobserver ------------------------------
(***************************************************************************)
(* The parallel job control of GNU make 3.78.1 as a tree of make           *)
(* processes runs it: src/make-3.78.1/job.c (new_job, start_waiting_job,   *)
(* start_waiting_jobs, reap_children, free_child, child_handler), the      *)
(* jobserver start-up and die () of main.c, and the outer loop of          *)
(* update_goal_chain in remake.c.                                          *)
(*                                                                         *)
(* All the makes share one pipe.  The top make writes one byte less than   *)
(* the -j number into it; a make runs its first job for free, reads a byte *)
(* for every further one, and writes a byte when it removes a job and      *)
(* others remain.  The bytes on the wire are all '+'; here each right to   *)
(* run a command, a "slot", has an identity so that one can say where it   *)
(* is: in the pipe, kept by a make as its free job (free), or with a job   *)
(* (slot).  A byte that is written although no slot stands behind it gets  *)
(* an identity outside Slot.                                               *)
(*                                                                         *)
(* Which target is remade next is the subject of Remake; here a make takes *)
(* its jobs in any order and may end a pass over the goals early, as it    *)
(* does when prerequisites are still being made.                           *)
(***************************************************************************)
EXTENDS Naturals, FiniteSets

CONSTANTS
  Make, Root, NoMake,   \* the make processes of the tree, the top one
  Job, NoJob,           \* the targets with commands, of all makefiles
  Owner,                \* Owner[j]: the make whose makefile has target j
  Lines,                \* Lines[j]: how many of j's command lines run a process
  Sub,                  \* Sub[j]: the make that j's first line runs, or NoMake
  Slot,                 \* the -j number, as a set
  Byte, NoSlot,         \* identities for slots and for bytes without a slot
  Uses                  \* the makefiles, options and faults: the records `use' is from

ASSUME TreeAssumption ==
  /\ Root \in Make /\ NoMake \notin Make /\ NoJob \notin Job
  /\ Owner \in [Job -> Make]
  /\ Sub \in [Job -> (Make \ {Root}) \cup {NoMake}]
  /\ \A i, j \in Job : Sub[i] = Sub[j] /\ Sub[i] # NoMake => i = j
  /\ \A m \in Make \ {Root} : \E j \in Job : Sub[j] = m
  /\ Lines \in [Job -> Nat]
  /\ \A j \in Job : Sub[j] # NoMake => Lines[j] > 0 /\ Owner[j] # Sub[j]

ASSUME SlotAssumption ==
  /\ IsFiniteSet(Slot) /\ Slot # {} /\ Slot \subseteq Byte
  /\ NoSlot \notin Byte

ASSUME UsesAssumption ==
  Uses \subseteq [todo : SUBSET Job, plus : SUBSET Job, k : BOOLEAN, l : BOOLEAN,
                  fails : SUBSET Job, noFork : BOOLEAN]

VARIABLES
  use,      \* the makefiles, the options, and what can go wrong; it stays
  pc,       \* where each make is
  call,     \* arguments of the reap_children call in progress, and its return
  cur,      \* the job new_job is starting
  failed,   \* a target of this make could not be made
  server,   \* job_slots = 0 and job_fds open: the make uses the jobserver
  rfd,      \* job_rfd >= 0
  sigchld,  \* a SIGCHLD is pending for the make
  pipe,     \* the slots whose bytes are in the jobserver pipe
  free,     \* the slots a make keeps without a job
  slot,     \* the slot a job occupies
  state,    \* state of the struct child of each job
  line,     \* child->command_line
  proc      \* the process of the job: none, running, or its exit status

vars == <<use, pc, call, cur, failed, server, rfd, sigchld,
          pipe, free, slot, state, line, proc>>

KeepGoing == use.k        \* -k
LoadLimit == use.l        \* -l was given: load_too_high () may be true
Plus == use.plus          \* jobs whose first line is marked COMMANDS_RECURSE
MayFail == use.fails      \* jobs whose commands can exit with an unignored error
ForkMayFail == use.noFork \* vfork () can fail

------------------------------------------------------------------------------
PC == {"unborn", "swj", "swjpop", "swjdone", "walk", "slots", "start",
       "started", "reap", "die", "exit", "exited"}

Active(m) == pc[m] \notin {"unborn", "exited"}

\* The chain `children' (job_slots_used is its length) and `waiting_jobs'.
Children(m) == {j \in Job : Owner[j] = m /\ state[j] = "child"}
Waiting(m) == {j \in Job : Owner[j] = m /\ state[j] = "waiting"}
Todo(m) == {j \in Job : Owner[j] = m /\ state[j] = "todo"}

\* Children the kernel holds the exit status of.
Zombies(m) == {j \in Children(m) : proc[j] \in {"ok", "fail"}}

\* The process of j is itself a make; any other process is a command.
RunsMake(j) == proc[j] = "run" /\ line[j] = 1 /\ Sub[j] # NoMake
Commands == {j \in Job : proc[j] = "run" /\ ~RunsMake(j)}

\* What a make that holds no slot would use or write: a byte out of nothing.
Forged == Byte \ (Slot \cup pipe \cup UNION {free[m] : m \in Make}
                       \cup {slot[j] : j \in Job})
Own(m) == IF free[m] # {} THEN free[m] ELSE Forged

NoCall == [block |-> FALSE, err |-> FALSE, ret |-> "walk"]

Init ==
  /\ use \in Uses
  /\ pc = [m \in Make |-> IF m = Root THEN "swj" ELSE "unborn"]
  /\ call = [m \in Make |-> NoCall]
  /\ cur = [m \in Make |-> NoJob]
  /\ failed = [m \in Make |-> FALSE]
  /\ server = [m \in Make |-> m = Root]
  /\ rfd = [m \in Make |-> m = Root]
  /\ sigchld = [m \in Make |-> FALSE]
  /\ \E s \in Slot : /\ free = [m \in Make |-> IF m = Root THEN {s} ELSE {}]
                     /\ pipe = Slot \ {s}
  /\ slot = [j \in Job |-> NoSlot]
  /\ state = [j \in Job |-> IF j \in use.todo THEN "todo" ELSE "done"]
  /\ line = [j \in Job |-> 0]
  /\ proc = [j \in Job |-> "none"]

------------------------------------------------------------------------------
(* The pieces of start_job_command and free_child.                         *)

Goto(m, l) == pc' = [pc EXCEPT ![m] = l]

CallReap(m, block, err, ret) ==
  /\ Goto(m, "reap")
  /\ call' = [call EXCEPT ![m] = [block |-> block, err |-> err, ret |-> ret]]

\* MUTANT: free_child puts a byte back for the last child too.
FreeChildAlways(m, j) ==
  /\ IF server[m]
       THEN pipe' = pipe \cup {slot[j]} /\ UNCHANGED free
       ELSE free' = [free EXCEPT ![m] = @ \cup {slot[j]}] /\ UNCHANGED pipe
  /\ slot' = [slot EXCEPT ![j] = NoSlot]

\* MUTANT: free_child looks at the chain before the child has left it, the
\* wrong way round: it puts a byte back for the last child only.
FreeChildLast(m, j) ==
  /\ IF server[m] /\ Children(m) \ {j} = {}
       THEN pipe' = pipe \cup {slot[j]} /\ UNCHANGED free
       ELSE free' = [free EXCEPT ![m] = @ \cup {slot[j]}] /\ UNCHANGED pipe
  /\ slot' = [slot EXCEPT ![j] = NoSlot]

\* free_child: a byte goes back unless this was the make's last child.
FreeChild(m, j) ==
  /\ IF server[m] /\ Children(m) \ {j} # {}
       THEN pipe' = pipe \cup {slot[j]} /\ UNCHANGED free
       ELSE free' = [free EXCEPT ![m] = @ \cup {slot[j]}] /\ UNCHANGED pipe
  /\ slot' = [slot EXCEPT ![j] = NoSlot]

\* start_job_command forks j's next line.  A make it runs starts with j's slot;
\* it keeps to the jobserver if its parent does and left the pipe open for it.
Launch(m, j, next) ==
  LET makes == line[j] = 0 /\ Sub[j] # NoMake
      Born(f, v) == IF makes THEN [f EXCEPT ![Sub[j]] = v] ELSE f
      serves == server[m] /\ j \in Plus
  IN /\ state' = [state EXCEPT ![j] = "child"]
     /\ line' = [line EXCEPT ![j] = @ + 1]
     /\ proc' = [proc EXCEPT ![j] = "run"]
     /\ pc' = Born([pc EXCEPT ![m] = next], "swj")
     /\ server' = Born(server, serves)
     /\ rfd' = Born(rfd, serves)
     /\ free' = Born(free, {slot[j]})
     /\ slot' = [slot EXCEPT ![j] = IF makes THEN NoSlot ELSE @]
     /\ UNCHANGED <<sigchld, pipe>>

\* start_waiting_job: put the job on waiting_jobs, or start it, or find that it
\* has nothing to run or cannot be forked.
StartWaitingJob(m, j, next, deferred) ==
  \/ /\ LoadLimit /\ Children(m) # {}
     /\ state' = [state EXCEPT ![j] = "waiting"]
     /\ Goto(m, deferred)
     /\ UNCHANGED <<failed, server, rfd, sigchld, pipe, free, slot, line, proc>>
  \/ /\ Lines[j] > 0
     /\ Launch(m, j, next)
     /\ UNCHANGED failed
  \/ /\ Lines[j] = 0 \/ ForkMayFail
     /\ state' = [state EXCEPT ![j] = IF Lines[j] = 0 THEN "done" ELSE "failed"]
     /\ failed' = [failed EXCEPT ![m] = @ \/ Lines[j] > 0]
     /\ FreeChild(m, j)
     /\ Goto(m, next)
     /\ UNCHANGED <<server, rfd, sigchld, line, proc>>

------------------------------------------------------------------------------
(* update_goal_chain, and new_job for the target it picks.                 *)

\* Walking the goals, the make decides to remake a target.  That another failed
\* does not stop the walk before it comes to that other.
NewJob(m) ==
  /\ pc[m] = "walk"
  /\ \E j \in Todo(m) : cur' = [cur EXCEPT ![m] = j]
  /\ Goto(m, "swj")
  /\ UNCHANGED <<call, failed, server, rfd, sigchld, pipe, free, slot, state, line, proc>>

\* A pass ends with targets still being made.
EndPass(m) ==
  /\ pc[m] = "walk"
  /\ Children(m) \cup Waiting(m) # {}
  /\ Goto(m, "swj")
  /\ UNCHANGED <<call, cur, failed, server, rfd, sigchld, pipe, free, slot, state, line, proc>>

\* All goals are finished, or one failed without -k: main calls die (status).
Finish(m) ==
  /\ pc[m] = "walk"
  /\ \/ failed[m] /\ ~KeepGoing
     \/ Children(m) \cup Waiting(m) = {} /\ (failed[m] \/ Todo(m) = {})
  /\ Goto(m, "die")
  /\ call' = [call EXCEPT ![m].err = failed[m]]
  /\ UNCHANGED <<cur, failed, server, rfd, sigchld, pipe, free, slot, state, line, proc>>

\* start_waiting_jobs reaps, then takes a job off its list ...
SwjReap(m) ==
  /\ pc[m] = "swj" /\ Waiting(m) # {}
  /\ CallReap(m, FALSE, FALSE, "swjpop")
  /\ UNCHANGED <<cur, failed, server, rfd, sigchld, pipe, free, slot, state, line, proc>>

\* ... and tries to start it; it stops when the job is put back.
SwjStart(m) ==
  /\ pc[m] = "swjpop"
  /\ \E j \in Waiting(m) : StartWaitingJob(m, j, "swj", "swjdone")
  /\ UNCHANGED <<call, cur>>

\* Back in the caller: update_goal_chain waits for a child, new_job only looks.
SwjReturn(m) ==
  /\ pc[m] = "swjdone" \/ (pc[m] = "swj" /\ Waiting(m) = {})
  /\ IF cur[m] = NoJob THEN CallReap(m, TRUE, FALSE, "walk")
                       ELSE CallReap(m, FALSE, FALSE, "slots")
  /\ UNCHANGED <<cur, failed, server, rfd, sigchld, pipe, free, slot, state, line, proc>>

\* With no child the job is free.  A make without the jobserver always finds none
\* here: with job_slots = 1 the loop before, and Started below, have waited.
UseFreeSlot(m) ==
  /\ pc[m] = "slots" /\ Children(m) = {}
  /\ \E s \in Own(m) : /\ slot' = [slot EXCEPT ![cur[m]] = s]
                       /\ free' = [free EXCEPT ![m] = @ \ {s}]
  /\ Goto(m, "start")
  /\ UNCHANGED <<call, cur, failed, server, rfd, sigchld, pipe, state, line, proc>>

\* MUTANT: new_job reads a byte although the make has no child.
ReadTokenFirst(m) ==
  /\ pc[m] = "slots" /\ server[m] /\ rfd[m]
  /\ \E s \in pipe : /\ slot' = [slot EXCEPT ![cur[m]] = s]
                     /\ pipe' = pipe \ {s}
  /\ Goto(m, "start")
  /\ UNCHANGED <<call, cur, failed, server, rfd, sigchld, free, state, line, proc>>

\* read (job_rfd, &token, 1) == 1
ReadToken(m) ==
  /\ pc[m] = "slots" /\ server[m] /\ Children(m) # {}
  /\ rfd[m]
  /\ \E s \in pipe : /\ slot' = [slot EXCEPT ![cur[m]] = s]
                     /\ pipe' = pipe \ {s}
  /\ Goto(m, "start")
  /\ UNCHANGED <<call, cur, failed, server, rfd, sigchld, free, state, line, proc>>

\* MUTANT: new_job reads again without reaping.
ReadAgain(m) ==
  /\ pc[m] = "slots" /\ server[m] /\ Children(m) # {}
  /\ ~rfd[m]
  /\ rfd' = [rfd EXCEPT ![m] = TRUE]
  /\ UNCHANGED <<pc, call, cur, failed, server, sigchld, pipe, free, slot, state, line, proc>>

\* EINTR, or EBADF because the handler ran before: dup again, then reap.
ReadFails(m) ==
  /\ pc[m] = "slots" /\ server[m] /\ Children(m) # {}
  /\ ~rfd[m]
  /\ rfd' = [rfd EXCEPT ![m] = TRUE]
  /\ CallReap(m, FALSE, FALSE, "slots")
  /\ UNCHANGED <<cur, failed, server, sigchld, pipe, free, slot, state, line, proc>>

StartNewJob(m) ==
  /\ pc[m] = "start"
  /\ StartWaitingJob(m, cur[m], "started", "started")
  /\ UNCHANGED <<call, cur>>

\* job_slots == 1: make things run linearly.  Then the walk goes on, unless the
\* job has failed and there is no -k: main calls die (status).
Started(m) ==
  /\ pc[m] = "started"
  /\ \/ /\ ~server[m] /\ state[cur[m]] = "child"
        /\ CallReap(m, TRUE, FALSE, "started")
        /\ UNCHANGED cur
     \/ /\ server[m] \/ state[cur[m]] # "child"
        /\ LET stop == state[cur[m]] = "failed" /\ ~KeepGoing
           IN /\ Goto(m, IF stop THEN "die" ELSE "walk")
              /\ call' = [call EXCEPT ![m].err = stop]
        /\ cur' = [cur EXCEPT ![m] = NoJob]
  /\ UNCHANGED <<failed, server, rfd, sigchld, pipe, free, slot, state, line, proc>>

------------------------------------------------------------------------------
(* reap_children                                                           *)

\* No children, or wait () finds none dead and the call is not to block.
ReapReturn(m) ==
  /\ pc[m] = "reap"
  /\ Children(m) = {} \/ (~call[m].block /\ Zombies(m) = {})
  /\ Goto(m, call[m].ret)
  /\ call' = [call EXCEPT ![m] = NoCall]
  /\ UNCHANGED <<cur, failed, server, rfd, sigchld, pipe, free, slot, state, line, proc>>

\* A line of j succeeded and there is another one.
ReapNextLine(m, j) ==
  /\ pc[m] = "reap" /\ j \in Zombies(m)
  /\ proc[j] = "ok" /\ line[j] < Lines[j]
  /\ Launch(m, j, "reap")
  /\ UNCHANGED <<call, cur, failed>>

\* j is complete: it leaves the chain, and the call blocks no longer.
Remove(m, j, result) ==
  /\ state' = [state EXCEPT ![j] = result]
  /\ proc' = [proc EXCEPT ![j] = "none"]
  /\ FreeChild(m, j)
  /\ call' = [call EXCEPT ![m].block = FALSE]
  /\ UNCHANGED <<cur, server, rfd, sigchld, line>>

\* The last line succeeded, or the next one cannot be forked.
ReapFinished(m, j) ==
  /\ pc[m] = "reap" /\ j \in Zombies(m)
  /\ proc[j] = "ok" /\ (line[j] = Lines[j] \/ ForkMayFail)
  /\ Remove(m, j, IF line[j] = Lines[j] THEN "done" ELSE "failed")
  /\ failed' = [failed EXCEPT ![m] = @ \/ line[j] < Lines[j]]
  /\ UNCHANGED pc

\* MUTANT: a failed job ends the make at once.
ExitAtOnce(m, j) ==
  /\ pc[m] = "reap" /\ j \in Zombies(m)
  /\ proc[j] = "fail"
  /\ Remove(m, j, "failed")
  /\ failed' = [failed EXCEPT ![m] = TRUE]
  /\ IF KeepGoing THEN UNCHANGED pc ELSE Goto(m, "exit")

\* The commands failed.  Without -k that is the end, at once if die () is
\* already waiting for the other children and has passed err = 0.
ReapFailed(m, j) ==
  /\ pc[m] = "reap" /\ j \in Zombies(m)
  /\ proc[j] = "fail"
  /\ state' = [state EXCEPT ![j] = "failed"]
  /\ proc' = [proc EXCEPT ![j] = "none"]
  /\ FreeChild(m, j)
  /\ failed' = [failed EXCEPT ![m] = TRUE]
  /\ IF call[m].err \/ KeepGoing
       THEN call' = [call EXCEPT ![m].block = FALSE] /\ UNCHANGED pc
       ELSE /\ Goto(m, IF call[m].ret = "die" THEN "exit" ELSE "die")
            /\ call' = [call EXCEPT ![m].err = TRUE]
  /\ UNCHANGED <<cur, server, rfd, sigchld, line>>

------------------------------------------------------------------------------
(* die, the SIGCHLD handler, and the processes make runs                   *)

\* for (err = status != 0; job_slots_used > 0; err = 0) reap_children (1, err)
DieWait(m) ==
  /\ pc[m] = "die" /\ Children(m) # {}
  /\ CallReap(m, TRUE, call[m].err, "die")
  /\ UNCHANGED <<cur, failed, server, rfd, sigchld, pipe, free, slot, state, line, proc>>

\* MUTANT: the parent does not take back the slot the make ran on.
ExitWithSlot(m) ==
  /\ pc[m] = "exit" \/ (pc[m] = "die" /\ Children(m) = {})
  /\ Goto(m, "exited")
  /\ IF m = Root THEN UNCHANGED <<proc, sigchld>>
     ELSE \E j \in Job :
            /\ Sub[j] = m
            /\ proc' = [proc EXCEPT ![j] = "ok"]
            /\ sigchld' = [sigchld EXCEPT ![Owner[j]] = TRUE]
  /\ UNCHANGED <<call, cur, failed, server, rfd, pipe, free, slot, state, line>>

\* The process ends; its parent has the slot back that the make was given.
Exit(m) ==
  /\ pc[m] = "exit" \/ (pc[m] = "die" /\ Children(m) = {})
  /\ Goto(m, "exited")
  /\ IF m = Root THEN UNCHANGED <<free, slot, proc, sigchld>>
     ELSE \E j \in Job, s \in Own(m) :
            /\ Sub[j] = m
            /\ slot' = [slot EXCEPT ![j] = s]
            /\ free' = [free EXCEPT ![m] = @ \ {s}]
            /\ proc' = [proc EXCEPT ![j] = IF failed[m] THEN "fail" ELSE "ok"]
            /\ sigchld' = [sigchld EXCEPT ![Owner[j]] = TRUE]
  /\ UNCHANGED <<call, cur, failed, server, rfd, pipe, state, line>>

\* MUTANT: the handler only counts dead_children.
HandlerKeepsFd(m) ==
  /\ Active(m) /\ sigchld[m]
  /\ sigchld' = [sigchld EXCEPT ![m] = FALSE]
  /\ UNCHANGED <<use, pc, call, cur, failed, server, rfd, pipe, free, slot, state, line, proc>>

\* child_handler: closing job_rfd makes the read in progress, or the next one,
\* fail.
ChildHandler(m) ==
  /\ Active(m) /\ sigchld[m]
  /\ sigchld' = [sigchld EXCEPT ![m] = FALSE]
  /\ rfd' = [rfd EXCEPT ![m] = FALSE]
  /\ UNCHANGED <<use, pc, call, cur, failed, server, pipe, free, slot, state, line, proc>>

\* A command exits, well or badly; an ignored failure counts as "ok".
CommandExits(j) ==
  /\ j \in Commands
  /\ \E status \in IF j \in MayFail THEN {"ok", "fail"} ELSE {"ok"} :
       proc' = [proc EXCEPT ![j] = status]
  /\ sigchld' = [sigchld EXCEPT ![Owner[j]] = TRUE]
  /\ UNCHANGED <<use, pc, call, cur, failed, server, rfd, pipe, free, slot, state, line>>

MakeStep(m) ==
  /\ \/ NewJob(m) \/ EndPass(m) \/ Finish(m)
     \/ SwjReap(m) \/ SwjStart(m) \/ SwjReturn(m)
     \/ UseFreeSlot(m) \/ ReadToken(m) \/ ReadFails(m) \/ StartNewJob(m) \/ Started(m)
     \/ ReapReturn(m)
     \/ \E j \in Job : ReapNextLine(m, j) \/ ReapFinished(m, j) \/ ReapFailed(m, j)
     \/ DieWait(m) \/ Exit(m)
  /\ UNCHANGED use

Finished == pc[Root] = "exited" /\ UNCHANGED vars

Next ==
  \/ \E m \in Make : MakeStep(m) \/ ChildHandler(m)
  \/ \E j \in Job : CommandExits(j)
  \/ Finished

\* The kernel runs every process and delivers signals; every command ends.
Fairness ==
  /\ \A m \in Make : WF_vars(MakeStep(m)) /\ WF_vars(ChildHandler(m))
  /\ \A j \in Job : WF_vars(CommandExits(j))

Spec == Init /\ [][Next]_vars
FairSpec == Spec /\ Fairness

------------------------------------------------------------------------------
Calls == [block : BOOLEAN, err : BOOLEAN, ret : {"walk", "slots", "swjpop", "started", "die"}]

TypeOK ==
  /\ use \in Uses
  /\ pc \in [Make -> PC]
  /\ call \in [Make -> Calls]
  /\ cur \in [Make -> Job \cup {NoJob}]
  /\ failed \in [Make -> BOOLEAN] /\ server \in [Make -> BOOLEAN]
  /\ rfd \in [Make -> BOOLEAN] /\ sigchld \in [Make -> BOOLEAN]
  /\ pipe \subseteq Byte
  /\ free \in [Make -> SUBSET Byte]
  /\ slot \in [Job -> Byte \cup {NoSlot}]
  /\ state \in [Job -> {"todo", "waiting", "child", "done", "failed"}]
  /\ line \in [Job -> Nat]
  /\ proc \in [Job -> {"none", "run", "ok", "fail"}]

\* Over the whole tree of makes no more commands run at once than the -j number
\* given to the top make, whatever the makes of the tree do with their bytes.
MaxJobs == Cardinality(Commands) <= Cardinality(Slot)

\* A make about to block in read () has no dead child it was not told of: the
\* handler of a SIGCHLD that came before has closed job_rfd (new_job's "If one
\* happened before we got here we'll return immediately with EBADF").
NoLostWakeup ==
  \A m \in Make :
    pc[m] = "slots" /\ server[m] /\ rfd[m] /\ ~sigchld[m] => Zombies(m) = {}

\* free_child: "If this child is the only one it was our "free" job": a make
\* that has a child keeps no unused slot besides, so the last child it frees
\* leaves it exactly the slot it is entitled to.
OnlyChildIsFreeJob ==
  ~LoadLimit => \A m \in Make : Active(m) /\ Children(m) # {} => free[m] = {}

\* When the top make exits, every byte it put into the pipe is there again.
TokensReturned ==
  ~LoadLimit /\ pc[Root] = "exited" => Cardinality(pipe) = Cardinality(Slot) - 1

\* die: "Wait for children to die": no make exits before its children.
NoOrphans == \A m \in Make : pc[m] = "exited" => Children(m) = {}

\* The whole tree of makes comes to an end.
Termination == <>(pc[Root] = "exited")
==============================================================================
