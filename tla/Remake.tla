-------------------------------- MODULE Remake --------------------------------
(***************************************************************************)
(* How one make process of GNU make 3.78.1 decides what to remake and runs  *)
(* it: update_goal_chain, update_file, update_file_1, check_dep,            *)
(* remake_file and notice_finished_file of remake.c, with the calls they    *)
(* make into job.c (new_job, start_job_command, reap_children) and main.c   *)
(* (die).                                                                   *)
(*                                                                          *)
(* The recursion update_file -> update_file_1 -> check_dep -> update_file   *)
(* is a stack of frames, because new_job at its bottom reaps children and   *)
(* so changes files that frames above it have looked at already.            *)
(*                                                                          *)
(* Files are neither double-colon nor intermediate nor precious nor archive  *)
(* members, the graph has no cycle, and -t, -q, -n, -l and the jobserver are *)
(* not used (the last two are modelled in Jobserver).  A file's time is read *)
(* again when its commands are finished (notice_finished_file clears the     *)
(* cached one), so it changes here at that moment.  Files that one run of a   *)
(* pattern rule's commands makes have the same time at first.                *)
(***************************************************************************)
EXTENDS Integers, Sequences, FiniteSets

CONSTANTS
  File,        \* the files of the makefile
  Deps,        \* Deps[f]: the prerequisites of f, in order
  also_make,   \* also_make[f]: the other files f's commands make
  Cmds,        \* files with commands
  Target,      \* files that are the target of a rule
  Lines,       \* Lines[f]: how many command lines of f run a process
  Touches,     \* files whose commands update them
  Goals,       \* the goals of the command line, in order
  OldTimes,    \* OldTimes[f]: the times f may have at first, 0 if missing
  New,         \* the time of what this run makes
  JobSlots,    \* -j; 0 for no limit
  Options      \* what may be given and what may go wrong, as records of
               \*   KeepGoing: -k,
               \*   DeleteOnError: .DELETE_ON_ERROR is a target,
               \*   WaitNoHang: WAIT_NOHANG is defined, reap_children (0, err) can reap,
               \*   MayFail: files whose commands can fail,
               \*   ForkFails: files for whose commands a process cannot be started

ASSUME GraphAssumption ==
  /\ Deps \in [File -> Seq(File)]
  /\ Cmds \subseteq Target /\ Target \subseteq File
  /\ Lines \in [File -> Nat]
  /\ also_make \in [File -> SUBSET Cmds]
  /\ \A f \in File : \A h \in also_make[f] :
       /\ {f} \cup also_make[f] = {h} \cup also_make[h] /\ f # h /\ Lines[f] > 0
  /\ Goals \in Seq(File)
  /\ New \in Nat \ {0} /\ JobSlots \in Nat
  /\ OldTimes \in [File -> SUBSET (0 .. New - 1)]

Prereqs(f) == {Deps[f][i] : i \in 1 .. Len(Deps[f])}

\* The graph has no cycle: among any files some need none of the others, nor themselves.
ASSUME AcyclicAssumption ==
  \A S \in SUBSET File : S # {} => \E f \in S : Prereqs(f) \cap S = {}

ASSUME OptionsAssumption ==
  Options \subseteq [KeepGoing : BOOLEAN, DeleteOnError : BOOLEAN, WaitNoHang : BOOLEAN,
                     MayFail : SUBSET File, ForkFails : SUBSET File]

VARIABLES
  opt,         \* of Options
  pc,          \* where make is
  call,        \* the reap_children call in progress, and where it returns
  stack,       \* the update_file_1 activations, innermost last
  ret,         \* the value update_file returns
  goals, g,    \* the goals left, and the position of the one considered
  status,      \* the status update_goal_chain returns, then the exit status
  considered,  \* the global `considered', toggled at the end of each pass
  seen,        \* seen[f]: f->considered
  state,       \* f->command_state
  updated,     \* f->updated
  ustat,       \* f->update_status
  mtime,       \* f's modification time
  line, proc   \* the child of f: its line, and its process

vars == <<opt, pc, call, stack, ret, goals, g, status, considered, seen,
          state, updated, ustat, mtime, line, proc>>
walkvars == <<stack, ret, goals, g, considered, seen>>
filevars == <<state, updated, ustat, mtime, line, proc>>

------------------------------------------------------------------------------
KeepGoing == opt.KeepGoing
DeleteOnError == opt.DeleteOnError
WaitNoHang == opt.WaitNoHang
MayFail == opt.MayFail
ForkFails == opt.ForkFails

\* The chain `children'; job_slots_used is its length.
Children == {f \in File : proc[f] # "none"}
Zombies == {f \in Children : proc[f] \in {"ok", "fail"}}

Top == stack[Len(stack)]
Pop == SubSeq(stack, 1, Len(stack) - 1)
SetTop(fr) == [stack EXCEPT ![Len(stack)] = fr]

NoCall == [block |-> FALSE, err |-> FALSE, to |-> "goals"]

Init ==
  /\ opt \in Options
  /\ pc = "pass" /\ call = NoCall
  /\ stack = <<>> /\ ret = 0
  /\ goals = Goals /\ g = 1 /\ status = 0
  /\ considered = TRUE /\ seen = [f \in File |-> FALSE]
  /\ state = [f \in File |-> "not_started"]
  /\ updated = [f \in File |-> FALSE]
  /\ ustat = [f \in File |-> -1]
  /\ mtime \in [File -> 0 .. New - 1] /\ \A f \in File : mtime[f] \in OldTimes[f]
  /\ \A f \in File : \A h \in also_make[f] : mtime[f] = mtime[h]
  /\ line = [f \in File |-> 0]
  /\ proc = [f \in File |-> "none"]

CallReap(block, err, to) ==
  /\ pc' = "reap"
  /\ call' = [block |-> block, err |-> err, to |-> to]

\* MUTANT: die () exits with the status of the goals so far.
DieKeepingStatus ==
  /\ pc' = IF pc = "reap" /\ call.to = "die" THEN "exit" ELSE "die"
  /\ call' = [NoCall EXCEPT !.err = TRUE]
  /\ UNCHANGED status

\* die (2): the first call passes err = 1 to reap_children, a nested one exits.
Die ==
  /\ pc' = IF pc = "reap" /\ call.to = "die" THEN "exit" ELSE "die"
  /\ call' = [NoCall EXCEPT !.err = TRUE]
  /\ status' = 2

Return(value) == pc' = "return" /\ ret' = value

\* The files that the commands of f make.
Group(f) == {f} \cup also_make[f]

\* MUTANT: the files of also_make are forgotten.
set_state_alone(f, s) == [state EXCEPT ![f] = s]

set_command_state(f, s) == [h \in File |-> IF h \in Group(f) THEN s ELSE state[h]]

------------------------------------------------------------------------------
(* update_goal_chain                                                       *)

Pass ==
  /\ pc = "pass"
  /\ IF goals # <<>>
       THEN CallReap(TRUE, FALSE, "goals") /\ g' = 1 /\ UNCHANGED status
       ELSE /\ pc' = "die" /\ call' = [NoCall EXCEPT !.err = status # 0]
            /\ UNCHANGED <<g, status>>
  /\ UNCHANGED <<stack, ret, goals, considered, seen, filevars>>

\* update_file (f) and the checks at the start of update_file_1.
UpdateFile(f) ==
  IF seen[f] = considered
    THEN Return(0) /\ UNCHANGED <<call, stack, status, seen>>
    ELSE /\ seen' = [seen EXCEPT ![f] = considered]
         /\ \/ /\ updated[f] /\ ustat[f] > 0 /\ ~KeepGoing   \* no_rule_error is fatal
               /\ Die
               /\ UNCHANGED <<stack, ret>>
            \/ /\ updated[f] /\ (ustat[f] = 0 \/ KeepGoing)
               /\ IF state[f] = "not_started"  \* the assertion in update_file
                    THEN pc' = "aborted" /\ UNCHANGED ret
                    ELSE Return(IF state[f] = "finished" THEN ustat[f] ELSE 0)
               /\ UNCHANGED <<call, stack, status>>
            \/ /\ ~updated[f] /\ state[f] = "running"
               /\ Return(0)
               /\ UNCHANGED <<call, stack, status>>
            \/ /\ ~updated[f] /\ state[f] \in {"not_started", "deps_running"}
               /\ stack' = Append(stack, [f |-> f, d |-> 1, dep_status |-> 0,
                                          running |-> FALSE, must_make |-> mtime[f] = 0])
               /\ pc' = "deps"
               /\ UNCHANGED <<call, ret, status>>

\* MUTANT: the `considered' flag is not toggled at the end of a pass.
GoalWithoutToggle ==
  /\ pc = "goals"
  /\ IF g <= Len(goals)
       THEN UpdateFile(goals[g])
       ELSE pc' = "pass" /\ UNCHANGED <<call, stack, ret, status, seen>>
  /\ UNCHANGED <<goals, g, considered, filevars>>

\* The walk over the goals: call update_file for one ...
Goal ==
  /\ pc = "goals"
  /\ IF g <= Len(goals)
       THEN UpdateFile(goals[g]) /\ UNCHANGED considered
       ELSE /\ pc' = "pass" /\ considered' = ~considered
            /\ UNCHANGED <<call, stack, ret, status, seen>>
  /\ UNCHANGED <<goals, g, filevars>>

\* MUTANT: the status of a goal is taken over while it is not finished.
GoalReturnUnfinished ==
  /\ pc = "return" /\ stack = <<>>
  /\ LET f == goals[g]
         finished == updated[f]
     IN /\ status' = IF status < 1 THEN ustat[f] ELSE status
        /\ IF finished THEN /\ goals' = SubSeq(goals, 1, g - 1) \o SubSeq(goals, g + 1, Len(goals))
                            /\ UNCHANGED g
                       ELSE g' = g + 1 /\ UNCHANGED goals
        /\ pc' = "goals"
  /\ UNCHANGED <<call, stack, ret, considered, seen, filevars>>

\* ... and look at the outcome.  A goal that is finished leaves the chain; one
\* that failed without -k ends the pass, and with it only this pass.
GoalReturn ==
  /\ pc = "return" /\ stack = <<>>
  /\ LET f == goals[g]
         finished == updated[f]
         looked == (ret # 0 \/ finished) /\ status < 1
         stop == looked /\ ustat[f] # 0 /\ ~KeepGoing
         rest == SubSeq(goals, 1, g - 1) \o SubSeq(goals, g + 1, Len(goals))
     IN /\ status' = IF looked /\ ustat[f] # 0 THEN ustat[f] ELSE status
        /\ IF stop \/ finished THEN goals' = rest /\ UNCHANGED g
                               ELSE g' = g + 1 /\ UNCHANGED goals
        /\ pc' = IF stop THEN "pass" ELSE "goals"
        /\ considered' = IF stop /\ g > Len(rest) THEN ~considered ELSE considered
  /\ UNCHANGED <<call, stack, ret, seen, filevars>>

------------------------------------------------------------------------------
(* update_file_1                                                           *)

\* The loop over the prerequisites: check_dep calls update_file for one ...
Dep ==
  /\ pc = "deps" /\ Top.d <= Len(Deps[Top.f])
  /\ UpdateFile(Deps[Top.f][Top.d])
  /\ UNCHANGED <<goals, g, considered, filevars>>

\* The loop of update_file_1 after check_dep, with what differs in its mutants.
Judge(newer, running, stop) ==
  LET failed == Top.dep_status # 0 \/ ret # 0
  IN stack' = SetTop(
       [Top EXCEPT !.d = IF failed /\ stop THEN Len(Deps[Top.f]) + 1 ELSE @ + 1,
                   !.dep_status = IF ret # 0 THEN ret ELSE @,
                   !.running = @ \/ running,
                   !.must_make = @ \/ newer])

Returned == pc = "return" /\ stack # <<>> /\ Top.d <= Len(Deps[Top.f])

Cur == Deps[Top.f][Top.d]
Newer == mtime[Cur] = 0 \/ mtime[Cur] > mtime[Top.f]
BeingMade == state[Cur] \in {"running", "deps_running"}

\* MUTANT: only a missing prerequisite makes a target out of date.
DepReturnMissing ==
  /\ Returned /\ Judge(mtime[Cur] = 0, BeingMade, ~KeepGoing)
  /\ pc' = "deps"
  /\ UNCHANGED <<call, ret, goals, g, status, considered, seen, filevars>>

\* MUTANT: the loop ends at the first failed prerequisite, -k or not.
DepReturnStop ==
  /\ Returned /\ Judge(Newer, BeingMade, TRUE)
  /\ pc' = "deps"
  /\ UNCHANGED <<call, ret, goals, g, status, considered, seen, filevars>>

\* ... and its time and state go into the decision about this target.
DepReturn ==
  /\ Returned /\ Judge(Newer, BeingMade, ~KeepGoing)
  /\ pc' = "deps"
  /\ UNCHANGED <<call, ret, goals, g, status, considered, seen, filevars>>

\* When the prerequisites are done.
NoLongerWaiting(f) ==
  IF state[f] = "deps_running" THEN set_command_state(f, "not_started") ELSE state

\* notice_finished_file for a file that was not made by commands, from command_state s on.
Settle(f, result, s) ==
  /\ state' = [s EXCEPT ![f] = "finished"]
  /\ updated' = [updated EXCEPT ![f] = TRUE]
  /\ ustat' = [ustat EXCEPT ![f] = result]
  /\ UNCHANGED <<mtime, line, proc>>

AllDeps == pc = "deps" /\ Top.d > Len(Deps[Top.f])

\* Some prerequisite is still being made: come back in another pass.
DepsRunning ==
  /\ AllDeps /\ Top.running
  /\ state' = set_command_state(Top.f, "deps_running")
  /\ stack' = Pop /\ Return(0)
  /\ UNCHANGED <<call, goals, g, status, considered, seen, updated, ustat, mtime, line, proc>>

DepFailed ==
  /\ AllDeps /\ ~Top.running /\ Top.dep_status # 0
  /\ Settle(Top.f, Top.dep_status, state)
  /\ stack' = Pop /\ Return(Top.dep_status)
  /\ UNCHANGED <<call, goals, g, status, considered, seen>>

DepsDone == AllDeps /\ ~Top.running /\ Top.dep_status = 0

MustMake ==
  Top.must_make \/ \E i \in 1 .. Len(Deps[Top.f]) : mtime[Deps[Top.f][i]] = 0

\* Nothing to do, or a target without commands: as good as made.
NoNeed ==
  /\ DepsDone
  /\ ~MustMake \/ (Top.f \notin Cmds /\ Top.f \in Target)
  /\ Settle(Top.f, 0, NoLongerWaiting(Top.f))
  /\ stack' = Pop /\ Return(0)
  /\ UNCHANGED <<call, goals, g, status, considered, seen>>

NoRule ==
  /\ DepsDone /\ MustMake /\ Top.f \notin Target
  /\ IF KeepGoing
       THEN /\ Settle(Top.f, 2, state) /\ stack' = Pop /\ Return(2)
            /\ UNCHANGED <<call, status>>
       ELSE Die /\ UNCHANGED <<stack, ret, filevars>>
  /\ UNCHANGED <<goals, g, considered, seen>>

\* remake_file, execute_file_commands: new_job begins with a reap.
Execute ==
  /\ DepsDone /\ MustMake /\ Top.f \in Cmds
  /\ state' = NoLongerWaiting(Top.f)
  /\ CallReap(FALSE, FALSE, "slots")
  /\ UNCHANGED <<walkvars, status, updated, ustat, mtime, line, proc>>

------------------------------------------------------------------------------
(* new_job, from the wait for a slot on                                    *)

WaitForSlot ==
  /\ pc = "slots" /\ JobSlots # 0 /\ Cardinality(Children) = JobSlots
  /\ CallReap(TRUE, FALSE, "slots")
  /\ UNCHANGED <<walkvars, status, filevars>>

Slot == pc = "slots" /\ (JobSlots = 0 \/ Cardinality(Children) # JobSlots)

StartJob ==
  /\ Slot /\ Lines[Top.f] > 0
  /\ state' = set_command_state(Top.f, "running")
  /\ line' = [line EXCEPT ![Top.f] = 1]
  /\ proc' = [proc EXCEPT ![Top.f] = "run"]
  /\ pc' = "started"
  /\ UNCHANGED <<call, walkvars, status, updated, ustat, mtime>>

\* All lines are empty, or the process cannot be created.
StartNothing ==
  /\ Slot /\ (Lines[Top.f] = 0 \/ Top.f \in ForkFails)
  /\ Settle(Top.f, IF Lines[Top.f] = 0 THEN 0 ELSE 2, state)
  /\ pc' = "started"
  /\ UNCHANGED <<call, walkvars, status>>

\* With one slot, wait for the job here; then back through update_file_1.
JobStarted ==
  /\ pc = "started"
  /\ IF JobSlots = 1 /\ state[Top.f] = "running"
       THEN CallReap(TRUE, FALSE, "started") /\ UNCHANGED <<stack, ret>>
       ELSE /\ stack' = Pop
            /\ Return(IF state[Top.f] = "finished" THEN ustat[Top.f] ELSE 0)
            /\ UNCHANGED call
  /\ UNCHANGED <<goals, g, status, considered, seen, filevars>>

------------------------------------------------------------------------------
(* reap_children and die                                                   *)

\* Without WAIT_NOHANG (the build for Windows) a call that does not block, and
\* the rest of one that did, find dead_children = 0.
ReapReturn ==
  /\ pc = "reap"
  /\ \/ Children = {}
     \/ ~call.block /\ (~WaitNoHang \/ Zombies = {})
  /\ pc' = call.to
  /\ call' = NoCall
  /\ UNCHANGED <<walkvars, status, filevars>>

Reapable(f) == pc = "reap" /\ f \in Zombies /\ (call.block \/ WaitNoHang)

ReapNextLine(f) ==
  /\ Reapable(f) /\ proc[f] = "ok" /\ line[f] < Lines[f]
  /\ line' = [line EXCEPT ![f] = @ + 1]
  /\ proc' = [proc EXCEPT ![f] = "run"]
  /\ UNCHANGED <<pc, call, walkvars, status, state, updated, ustat, mtime>>

\* notice_finished_file for a file whose commands ran: it and its also_make have the same
\* outcome, and their times, of times[h], are looked at again.
Notice(f, result, times) ==
  /\ state' = set_command_state(f, "finished")
  /\ updated' = [h \in File |-> updated[h] \/ h \in Group(f)]
  /\ ustat' = [h \in File |-> IF h \in Group(f) THEN result ELSE ustat[h]]
  /\ \E m \in [Group(f) -> 0 .. New] :
       /\ \A h \in Group(f) : m[h] \in times[h]
       /\ mtime' = [h \in File |-> IF h \in Group(f) THEN m[h] ELSE mtime[h]]
  /\ proc' = [proc EXCEPT ![f] = "none"]
  /\ UNCHANGED line

\* What commands leave behind that succeeded, or that did not.  delete_target deletes what
\* has another time than make has cached, which may be none for a file of also_make.
Touched == [h \in File |-> IF h \in Touches THEN {New} ELSE {mtime[h]}]
Remains == [h \in File |-> IF h \in Touches THEN {mtime[h], New} ELSE {mtime[h]}]
Deleted(f) == [h \in File |-> IF h # f \/ h \in Touches THEN {mtime[h], 0} ELSE {mtime[h]}]

\* The last line succeeded; or the next cannot be started, whereupon make does not
\* stop but deletes the target, changed or not: its time was forgotten before.
ReapFinished(f) ==
  /\ Reapable(f) /\ proc[f] = "ok"
  /\ \/ /\ line[f] = Lines[f]
        /\ Notice(f, 0, Touched)
     \/ /\ line[f] < Lines[f] /\ f \in ForkFails
        /\ Notice(f, 2, [Remains EXCEPT ![f] = {0}])
  /\ call' = [call EXCEPT !.block = FALSE]
  /\ UNCHANGED <<pc, walkvars, status>>

\* MUTANT: a failed command does not end the run.
ReapFailedGoesOn(f) ==
  /\ Reapable(f) /\ proc[f] = "fail"
  /\ Notice(f, 2, IF DeleteOnError THEN Deleted(f) ELSE Remains)
  /\ call' = [call EXCEPT !.block = FALSE]
  /\ UNCHANGED <<pc, status, walkvars>>

ReapFailed(f) ==
  /\ Reapable(f) /\ proc[f] = "fail"
  /\ Notice(f, 2, IF DeleteOnError THEN Deleted(f) ELSE Remains)
  /\ IF call.err \/ KeepGoing
       THEN call' = [call EXCEPT !.block = FALSE] /\ UNCHANGED <<pc, status>>
       ELSE Die
  /\ UNCHANGED walkvars

DieWait ==
  /\ pc = "die" /\ Children # {}
  /\ CallReap(TRUE, call.err, "die")
  /\ UNCHANGED <<walkvars, status, filevars>>

Exit ==
  /\ pc = "exit" \/ (pc = "die" /\ Children = {})
  /\ pc' = "exited"
  /\ UNCHANGED <<call, walkvars, status, filevars>>

CommandExits(f) ==
  /\ proc[f] = "run"
  /\ \E s \in IF f \in MayFail THEN {"ok", "fail"} ELSE {"ok"} :
       proc' = [proc EXCEPT ![f] = s]
  /\ UNCHANGED <<pc, call, walkvars, status, state, updated, ustat, mtime, line>>

MakeStep ==
  \/ Pass \/ Goal \/ GoalReturn \/ Dep \/ DepReturn
  \/ DepsRunning \/ DepFailed \/ NoNeed \/ NoRule \/ Execute
  \/ WaitForSlot \/ StartJob \/ StartNothing \/ JobStarted
  \/ ReapReturn \/ DieWait \/ Exit
  \/ \E f \in File : ReapNextLine(f) \/ ReapFinished(f) \/ ReapFailed(f)

Finished == pc \in {"exited", "aborted"} /\ UNCHANGED vars

Next ==
  /\ MakeStep \/ (\E f \in File : CommandExits(f)) \/ Finished
  /\ UNCHANGED opt

\* The process make is scheduled, and every command ends.
Fairness ==
  /\ WF_vars(MakeStep /\ UNCHANGED opt)
  /\ \A f \in File : WF_vars(CommandExits(f) /\ UNCHANGED opt)

Spec == Init /\ [][Next]_vars
FairSpec == Spec /\ Fairness

------------------------------------------------------------------------------
PC == {"pass", "goals", "deps", "return", "slots", "started", "reap",
       "die", "exit", "exited"}

Frame == [f : File, d : Nat, dep_status : {0, 2}, running : BOOLEAN, must_make : BOOLEAN]

\* Types; "aborted" is not among them: the assertion in update_file holds.
TypeOK ==
  /\ opt \in Options /\ pc \in PC
  /\ call \in [block : BOOLEAN, err : BOOLEAN, to : {"goals", "slots", "started", "die"}]
  /\ stack \in Seq(Frame)
  /\ ret \in {0, 2} /\ status \in {0, 2}
  /\ goals \in Seq(File) /\ g \in Nat
  /\ considered \in BOOLEAN /\ seen \in [File -> BOOLEAN]
  /\ state \in [File -> {"not_started", "deps_running", "running", "finished"}]
  /\ updated \in [File -> BOOLEAN]
  /\ ustat \in [File -> {-1, 0, 2}]
  /\ mtime \in [File -> 0 .. New]
  /\ line \in [File -> Nat]
  /\ proc \in [File -> {"none", "run", "ok", "fail"}]

\* The goals with everything they depend on.
Needed ==
  LET Closed(S) == /\ {Goals[i] : i \in 1 .. Len(Goals)} \subseteq S
                   /\ \A f \in S : Prereqs(f) \subseteq S
  IN {f \in File : \A S \in SUBSET File : Closed(S) => f \in S}

Done(f) == state[f] = "finished" /\ ustat[f] = 0

\* make.texi, "Errors in Commands": "No further commands will be executed for
\* these targets, since their preconditions have not been achieved": the walk
\* remakes targets in the order BuildOrder allows.
Order == INSTANCE BuildOrder WITH
  Needs <- [f \in File |-> Prereqs(f)], Made <- [f \in File |-> Group(f)],
  Ruled <- {f \in Cmds : Lines[f] > 0},
  status <- [f \in File |->
               CASE state[f] = "running" -> "building"
                 [] state[f] = "finished" -> IF ustat[f] = 0 THEN "done" ELSE "failed"
                 [] OTHER -> "pending"]
BuildInOrder == Order!Spec

\* The exit status tells what became of the targets: 0 if and only if every file that is
\* needed is made, over all goals and passes and whatever was noticed where; and then every
\* target with commands that were not run is up to date.
StatusTells ==
  pc = "exited" =>
    /\ status = 0 <=> \A f \in Needed : Done(f)
    /\ status = 0 =>
         \A f \in Needed \cap Cmds : Lines[f] > 0 /\ line[f] = 0 => ~Order!OutOfDate(f)

\* make.texi, on -k: "While the target that failed, and those that depend on it,
\* cannot be remade": no commands run for a target with a failed prerequisite.
PreconditionsMet == \A f \in Children : \A d \in Prereqs(f) : Done(d)

\* With -k make tries everything that can still be made before it gives up.
KeptGoing ==
  pc = "exited" /\ KeepGoing => \A f \in Needed : state[f] = "finished"

\* Without -k no further target is begun once a command has failed.
NoNewTargetAfterError ==
  [][~KeepGoing /\ (\E f \in File : ustat[f] = 2) =>
       \A f \in File : line[f] = 0 => line'[f] = 0]_vars

Termination == <>(pc = "exited")
==============================================================================
