--------------------------- MODULE JobserverProofs ---------------------------
(***************************************************************************)
(* Proofs about Jobserver for every tree of makes and every -j number: its  *)
(* type invariant, that no death of a child is missed, and, with -k, the    *)
(* bound on the commands that run at once, that no make leaves a child, and *)
(* that every byte comes back.                                              *)
(***************************************************************************)
EXTENDS Jobserver, FiniteSetTheorems, TLAPS

\* Where a make is, or will be when reap_children returns.
Pos(m) == IF pc[m] = "reap" THEN call[m].ret ELSE pc[m]

\* A job occupies a slot from new_job's read on until free_child, but for the
\* time in which the make it runs has the slot.
Occupied ==
  /\ \A j \in Job :
       /\ state[j] = "child" /\ ~RunsMake(j) => slot[j] # NoSlot
       /\ state[j] = "waiting" => slot[j] # NoSlot
       /\ proc[j] = "run" => state[j] = "child"
  /\ \A m \in Make : pc[m] = "start" => slot[cur[m]] # NoSlot

\* new_job works on a target of its own makefile that was not started before.
Owned ==
  \A m \in Make :
    /\ cur[m] # NoJob => Owner[cur[m]] = m
    /\ Pos(m) \in {"slots", "start"} => cur[m] # NoJob
    /\ Pos(m) \in {"walk", "unborn"} => cur[m] = NoJob
    /\ /\ cur[m] # NoJob
       /\ Pos(m) \in {"swj", "swjpop", "swjdone", "slots", "start"}
       => state[cur[m]] = "todo"

\* A make does not exist before the line that runs it is started.
Unborn == \A j \in Job : Sub[j] # NoMake /\ line[j] = 0 => pc[Sub[j]] = "unborn"

Inv == TypeOK /\ Occupied /\ Owned /\ Unborn

\* Who calls start_job_command: start_waiting_jobs, new_job, reap_children.
Caller(m, j, next) ==
  \/ next = "swj" /\ pc[m] = "swjpop" /\ state[j] = "waiting" /\ cur' = cur
  \/ next = "started" /\ pc[m] = "start" /\ j = cur[m] /\ cur' = cur
  \/ next = "reap" /\ pc[m] = "reap" /\ state[j] = "child" /\ cur' = cur

------------------------------------------------------------------------------
\* Forking a line keeps the invariant, whoever does it.
LEMMA LaunchInv ==
  ASSUME Inv, NEW m \in Make, NEW j \in Job, NEW next \in {"swj", "started", "reap"},
         Owner[j] = m, slot[j] # NoSlot, Launch(m, j, next), Caller(m, j, next),
         call' = call, failed' = failed, use' = use
  PROVE  Inv'
<1> USE TreeAssumption, SlotAssumption DEF Inv
<1>1. TypeOK'
  <2>1. pc' \in [Make -> PC]
    BY DEF TypeOK, Launch, PC
  <2>2. /\ call' \in [Make -> Calls] /\ cur' \in [Make -> Job \cup {NoJob}]
        /\ failed' \in [Make -> BOOLEAN] /\ sigchld' \in [Make -> BOOLEAN]
    BY DEF TypeOK, Launch, Caller
  <2>3. server' \in [Make -> BOOLEAN] /\ rfd' \in [Make -> BOOLEAN]
    BY DEF TypeOK, Launch
  <2>4. pipe' \subseteq Byte /\ free' \in [Make -> SUBSET Byte]
    <3>1. {slot[j]} \in SUBSET Byte
      BY DEF TypeOK
    <3>2. pipe' = pipe /\ free' \in {free, [free EXCEPT ![Sub[j]] = {slot[j]}]}
      BY DEF Launch
    <3> QED
      BY <3>1, <3>2 DEF TypeOK
  <2>5. /\ slot' \in [Job -> Byte \cup {NoSlot}]
        /\ state' \in [Job -> {"todo", "waiting", "child", "done", "failed"}]
        /\ line' \in [Job -> Nat]
        /\ proc' \in [Job -> {"none", "run", "ok", "fail"}]
    BY DEF TypeOK, Launch
  <2> QED
    BY <2>1, <2>2, <2>3, <2>4, <2>5 DEF TypeOK
<1>2. Occupied'
  BY DEF TypeOK, Occupied, Owned, Launch, Caller, RunsMake, PC
<1>3. Owned'
  <2> SUFFICES ASSUME NEW n \in Make
               PROVE  Owned!(n)'
    BY DEF Owned
  <2>1. CASE n = m
    BY <2>1 DEF TypeOK, Owned, Unborn, Pos, Launch, Caller, PC
  <2>2. CASE n # m /\ line[j] = 0 /\ Sub[j] = n
    BY <2>2 DEF TypeOK, Owned, Unborn, Pos, Launch, Caller, PC
  <2>3. CASE n # m /\ ~(line[j] = 0 /\ Sub[j] = n)
    BY <2>3 DEF TypeOK, Owned, Pos, Launch, Caller, PC
  <2> QED
    BY <2>1, <2>2, <2>3
<1>4. Unborn'
  <2> SUFFICES ASSUME NEW i \in Job, Sub[i] # NoMake, line'[i] = 0
               PROVE  pc'[Sub[i]] = "unborn"
    BY DEF Unborn
  <2>1. i # j /\ line[i] = 0 /\ Sub[i] # Sub[j]
    BY DEF TypeOK, Launch
  <2>2. pc[Sub[i]] = "unborn" /\ Sub[i] # m /\ Sub[i] \in Make
    BY <2>1 DEF Unborn, Caller
  <2> QED
    BY <2>1, <2>2 DEF TypeOK, Launch
<1>5. QED
  BY <1>1, <1>2, <1>3, <1>4

\* free_child takes the job's slot and hands it on.
LEMMA FreeChildType ==
  ASSUME TypeOK, NEW m \in Make, NEW j \in Job, slot[j] # NoSlot, FreeChild(m, j)
  PROVE  /\ pipe' \subseteq Byte
         /\ free' \in [Make -> SUBSET Byte]
         /\ slot' \in [Job -> Byte \cup {NoSlot}]
<1>1. slot[j] \in Byte
  BY DEF TypeOK
<1> QED
  BY <1>1 DEF TypeOK, FreeChild

\* start_waiting_job keeps the invariant, called by new_job or by
\* start_waiting_jobs.
LEMMA StartWaitingJobInv ==
  ASSUME Inv, NEW m \in Make, NEW j \in Job, NEW next \in {"swj", "started"},
         NEW deferred, deferred = IF next = "swj" THEN "swjdone" ELSE next,
         Owner[j] = m, slot[j] # NoSlot, StartWaitingJob(m, j, next, deferred),
         Caller(m, j, next), call' = call, use' = use
  PROVE  Inv'
<1> USE TreeAssumption, SlotAssumption DEF Inv
<1>0. state[j] \in {"todo", "waiting"} /\ proc[j] # "run"
  BY DEF Caller, Owned, Occupied, Pos, TypeOK
<1>1. CASE /\ state' = [state EXCEPT ![j] = "waiting"] /\ Goto(m, deferred)
           /\ UNCHANGED <<failed, server, rfd, sigchld, pipe, free, slot, line, proc>>
  <2>1. TypeOK'
    BY <1>1 DEF TypeOK, Goto, Caller, PC
  <2>2. Occupied'
    BY <1>0, <1>1 DEF TypeOK, Occupied, Owned, RunsMake, Goto, Caller, PC
  <2>3. Owned'
    BY <1>0, <1>1 DEF TypeOK, Owned, Pos, Goto, Caller, PC
  <2>4. Unborn'
    BY <1>1 DEF TypeOK, Unborn, Goto, Caller, PC
  <2> QED
    BY <2>1, <2>2, <2>3, <2>4
<1>2. CASE Launch(m, j, next) /\ UNCHANGED failed
  BY <1>2, LaunchInv DEF PC
<1>3. CASE /\ state' = [state EXCEPT ![j] = IF Lines[j] = 0 THEN "done" ELSE "failed"]
           /\ failed' = [failed EXCEPT ![m] = @ \/ Lines[j] > 0]
           /\ FreeChild(m, j) /\ Goto(m, next)
           /\ UNCHANGED <<server, rfd, sigchld, line, proc>>
  <2>1. TypeOK'
    BY <1>3, FreeChildType DEF TypeOK, Goto, Caller, PC
  <2>2. Occupied'
    BY <1>0, <1>3 DEF TypeOK, Occupied, Owned, RunsMake, FreeChild, Goto, Caller, PC
  <2>3. Owned'
    BY <1>0, <1>3 DEF TypeOK, Owned, Pos, Goto, Caller, PC
  <2>4. Unborn'
    BY <1>3 DEF TypeOK, Unborn, Goto, Caller, PC
  <2> QED
    BY <2>1, <2>2, <2>3, <2>4
<1> QED
  BY <1>1, <1>2, <1>3 DEF StartWaitingJob

------------------------------------------------------------------------------
(* Every action of a make keeps the invariant.                             *)

\* A step that only moves the make from one place to another.
LEMMA ControlInv ==
  ASSUME Inv, NEW m \in Make, NEW l \in PC \ {"start", "unborn"},
         pc[m] # "unborn", Goto(m, l), call' \in [Make -> Calls],
         cur' \in [Make -> Job \cup {NoJob}], \A n \in Make \ {m} : cur'[n] = cur[n],
         UNCHANGED <<failed, server, rfd, sigchld, pipe, free, slot, state, line, proc>>,
         Owned', use' = use
  PROVE  Inv'
<1> USE TreeAssumption DEF Inv
<1>1. TypeOK'
  <2>1. pc' \in [Make -> PC]
    BY DEF TypeOK, Goto
  <2> QED
    BY <2>1 DEF TypeOK
<1>2. Occupied'
  BY DEF TypeOK, Occupied, RunsMake, Goto
<1>3. Unborn'
  BY DEF TypeOK, Unborn, Goto
<1> QED
  BY <1>1, <1>2, <1>3

\* The record of a call of reap_children has its type.
LEMMA CallReapType ==
  ASSUME call \in [Make -> Calls], NEW m \in Make,
         NEW block \in BOOLEAN, NEW err \in BOOLEAN,
         NEW to \in {"walk", "slots", "swjpop", "started", "die"},
         CallReap(m, block, err, to)
  PROVE  call' \in [Make -> Calls]
<1>1. [block |-> block, err |-> err, ret |-> to] \in Calls
  BY DEF Calls
<1> QED
  BY <1>1 DEF CallReap

LEMMA CallType ==
  ASSUME call \in [Make -> Calls], NEW m \in Make
  PROVE  /\ \A err \in BOOLEAN : [call EXCEPT ![m].err = err] \in [Make -> Calls]
         /\ [call EXCEPT ![m].block = FALSE] \in [Make -> Calls]
         /\ [call EXCEPT ![m] = NoCall] \in [Make -> Calls]
<1>1. call[m] \in Calls
  OBVIOUS
<1>2. \A err \in BOOLEAN : [call[m] EXCEPT !.err = err] \in Calls
  BY <1>1 DEF Calls
<1>3. [call[m] EXCEPT !.block = FALSE] \in Calls
  BY <1>1 DEF Calls
<1>4. NoCall \in Calls
  BY DEF Calls, NoCall
<1> QED
  BY <1>2, <1>3, <1>4

\* The goal chain, start_waiting_jobs and the ends of new_job and reap_children.
LEMMA WalkInv ==
  ASSUME Inv, NEW m \in Make,
         \/ NewJob(m) \/ EndPass(m) \/ Finish(m) \/ SwjReap(m) \/ SwjReturn(m)
         \/ Started(m) \/ ReapReturn(m) \/ DieWait(m), use' = use
  PROVE  Inv'
<1> USE TreeAssumption DEF Inv
<1>0. call \in [Make -> Calls] /\ cur \in [Make -> Job \cup {NoJob}] /\ call[m] \in Calls
  BY DEF TypeOK
<1>1. CASE NewJob(m)
  <2>1. Owned'
    BY <1>1 DEF NewJob, Goto, Todo, TypeOK, Owned, Pos, PC
  <2> QED
    BY <1>0, <1>1, <2>1, ControlInv DEF NewJob, Todo, PC
<1>2. CASE EndPass(m)
  <2>1. Owned'
    BY <1>2 DEF EndPass, Goto, TypeOK, Owned, Pos, PC
  <2> QED
    BY <1>0, <1>2, <2>1, ControlInv DEF EndPass, PC
<1>3. CASE Finish(m)
  <2>1. Owned'
    BY <1>3 DEF Finish, Goto, TypeOK, Owned, Pos, PC
  <2>2. call' \in [Make -> Calls]
    <3>1. failed[m] \in BOOLEAN
      BY DEF TypeOK
    <3>2. call' = [call EXCEPT ![m].err = failed[m]]
      BY <1>3 DEF Finish
    <3> QED
      BY <1>0, <3>1, <3>2, CallType
  <2> QED
    BY <1>0, <1>3, <2>1, <2>2, ControlInv DEF Finish, PC
<1>4. CASE SwjReap(m)
  <2>1. Owned'
    BY <1>4 DEF SwjReap, CallReap, Goto, TypeOK, Owned, Pos, PC
  <2>2. call' \in [Make -> Calls]
    BY <1>0, <1>4, CallReapType DEF SwjReap
  <2> QED
    BY <1>0, <1>4, <2>1, <2>2, ControlInv DEF SwjReap, CallReap, PC
<1>5. CASE SwjReturn(m)
  <2>1. Owned'
    BY <1>5 DEF SwjReturn, CallReap, Goto, TypeOK, Owned, Pos, PC
  <2>2. call' \in [Make -> Calls]
    <3>1. CallReap(m, TRUE, FALSE, "walk") => call' \in [Make -> Calls]
      BY <1>0, CallReapType
    <3>2. CallReap(m, FALSE, FALSE, "slots") => call' \in [Make -> Calls]
      BY <1>0, CallReapType
    <3> QED
      BY <1>5, <3>1, <3>2 DEF SwjReturn
  <2> QED
    BY <1>0, <1>5, <2>1, <2>2, ControlInv DEF SwjReturn, CallReap, PC
<1>6. CASE Started(m)
  <2>1. Owned'
    BY <1>6 DEF Started, CallReap, Goto, TypeOK, Owned, Pos, PC
  <2>2. call' \in [Make -> Calls]
    <3>1. CallReap(m, TRUE, FALSE, "started") => call' \in [Make -> Calls]
      BY <1>0, CallReapType
    <3>2. \A err \in BOOLEAN : [call EXCEPT ![m].err = err] \in [Make -> Calls]
      BY <1>0, CallType
    <3>3. (state[cur[m]] = "failed" /\ ~KeepGoing) \in BOOLEAN
      OBVIOUS
    <3> QED
      BY <1>6, <3>1, <3>2, <3>3 DEF Started
  <2>3. cur' \in [Make -> Job \cup {NoJob}] /\ \A n \in Make \ {m} : cur'[n] = cur[n]
    BY <1>0, <1>6 DEF Started
  <2> QED
    BY <1>0, <1>6, <2>1, <2>2, <2>3, ControlInv DEF Started, CallReap, PC
<1>7. CASE ReapReturn(m)
  <2>1. Owned'
    BY <1>0, <1>7 DEF ReapReturn, Goto, TypeOK, Calls, Owned, Pos, PC
  <2>2. call' \in [Make -> Calls]
    BY <1>0, <1>7, CallType DEF ReapReturn
  <2> QED
    BY <1>0, <1>7, <2>1, <2>2, ControlInv DEF ReapReturn, Calls, PC
<1>8. CASE DieWait(m)
  <2>1. Owned'
    BY <1>8 DEF DieWait, CallReap, Goto, TypeOK, Owned, Pos, PC
  <2>2. call' \in [Make -> Calls]
    <3>1. call[m].err \in BOOLEAN
      BY <1>0 DEF Calls
    <3>2. CallReap(m, TRUE, call[m].err, "die")
      BY <1>8 DEF DieWait
    <3> QED
      BY <1>0, <3>1, <3>2, CallReapType
  <2> QED
    BY <1>0, <1>8, <2>1, <2>2, ControlInv DEF DieWait, CallReap, PC
<1> QED
  BY <1>1, <1>2, <1>3, <1>4, <1>5, <1>6, <1>7, <1>8

LEMMA OwnType == TypeOK => \A m \in Make : Own(m) \subseteq Byte
BY DEF TypeOK, Own, Forged

\* new_job waiting for its slot, and the start of the job.
LEMMA NewJobInv ==
  ASSUME Inv, NEW m \in Make,
         \/ UseFreeSlot(m) \/ ReadToken(m) \/ ReadFails(m) \/ StartNewJob(m) \/ SwjStart(m),
         use' = use
  PROVE  Inv'
<1> USE TreeAssumption, SlotAssumption DEF Inv
<1>0. pc[m] \in {"slots", "start"} => cur[m] \in Job /\ Owner[cur[m]] = m
  BY DEF Owned, Pos, TypeOK
<1>1. CASE UseFreeSlot(m) \/ ReadToken(m)
  <2>1. PICK s \in Byte : slot' = [slot EXCEPT ![cur[m]] = s]
    BY <1>1, OwnType DEF UseFreeSlot, ReadToken, TypeOK
  <2>2. /\ pc[m] = "slots" /\ pc' = [pc EXCEPT ![m] = "start"]
        /\ UNCHANGED <<call, cur, failed, server, rfd, sigchld, state, line, proc>>
    BY <1>1 DEF UseFreeSlot, ReadToken, Goto
  <2>3. pipe' \subseteq Byte /\ free' \in [Make -> SUBSET Byte]
    BY <1>1 DEF UseFreeSlot, ReadToken, TypeOK
  <2>4. TypeOK'
    BY <2>1, <2>2, <2>3 DEF TypeOK, PC
  <2>5. Occupied'
    BY <1>0, <2>1, <2>2 DEF TypeOK, Occupied, RunsMake, Owned
  <2>6. Owned'
    BY <2>2 DEF TypeOK, Owned, Pos
  <2>7. Unborn'
    BY <2>2 DEF TypeOK, Unborn
  <2> QED
    BY <2>4, <2>5, <2>6, <2>7
<1>2. CASE ReadFails(m)
  <2>1. call' \in [Make -> Calls]
    BY <1>2, CallReapType DEF ReadFails, TypeOK
  <2>2. TypeOK'
    BY <1>2, <2>1 DEF ReadFails, CallReap, Goto, TypeOK, PC
  <2>3. Occupied'
    BY <1>2 DEF ReadFails, CallReap, Goto, TypeOK, Occupied, RunsMake
  <2>4. Owned'
    BY <1>2 DEF ReadFails, CallReap, Goto, TypeOK, Owned, Pos
  <2>5. Unborn'
    BY <1>2 DEF ReadFails, CallReap, Goto, TypeOK, Unborn
  <2> QED
    BY <2>2, <2>3, <2>4, <2>5
<1>3. CASE StartNewJob(m)
  <2>1. slot[cur[m]] # NoSlot /\ cur[m] \in Job /\ Owner[cur[m]] = m /\ pc[m] = "start"
    BY <1>0, <1>3 DEF StartNewJob, Occupied
  <2> QED
    BY <1>3, <2>1, StartWaitingJobInv DEF StartNewJob, Caller
<1>4. CASE SwjStart(m)
  BY <1>4, StartWaitingJobInv DEF SwjStart, Waiting, Occupied, Caller
<1> QED
  BY <1>1, <1>2, <1>3, <1>4

\* reap_children for one dead child.
LEMMA ReapInv ==
  ASSUME Inv, NEW m \in Make, NEW j \in Job,
         ReapNextLine(m, j) \/ ReapFinished(m, j) \/ ReapFailed(m, j), use' = use
  PROVE  Inv'
<1> USE TreeAssumption, SlotAssumption DEF Inv
<1>0. /\ pc[m] = "reap" /\ Owner[j] = m /\ state[j] = "child"
      /\ proc[j] \in {"ok", "fail"} /\ slot[j] # NoSlot
  BY DEF ReapNextLine, ReapFinished, ReapFailed, Zombies, Children, Occupied, RunsMake
<1>1. CASE ReapNextLine(m, j)
  BY <1>0, <1>1, LaunchInv DEF ReapNextLine, Caller
<1>2. CASE ReapFinished(m, j) \/ ReapFailed(m, j)
  <2>1. /\ FreeChild(m, j) /\ UNCHANGED <<cur, server, rfd, sigchld, line>>
        /\ proc' = [proc EXCEPT ![j] = "none"]
    BY <1>2 DEF ReapFinished, ReapFailed, Remove
  <2>2. PICK r \in {"done", "failed"} : state' = [state EXCEPT ![j] = r]
    BY <1>2 DEF ReapFinished, ReapFailed, Remove
  <2>3. PICK l \in {"reap", "die", "exit"} :
          /\ pc' = [pc EXCEPT ![m] = l]
          /\ l = "reap" => pc' = pc
    BY <1>0, <1>2 DEF ReapFinished, ReapFailed, Goto, TypeOK
  <2>4. call' \in [Make -> Calls] /\ \A n \in Make : call'[n].ret = call[n].ret
    <3>1. \/ call' = [call EXCEPT ![m].block = FALSE]
          \/ call' = [call EXCEPT ![m].err = TRUE]
      BY <1>2 DEF ReapFinished, ReapFailed, Remove
    <3>2. call \in [Make -> Calls]
      BY DEF TypeOK
    <3>3. call' \in [Make -> Calls]
      <4>1. [call EXCEPT ![m].err = TRUE] \in [Make -> Calls]
        BY <3>2, CallType
      <4>2. [call EXCEPT ![m].block = FALSE] \in [Make -> Calls]
        BY <3>2, CallType
      <4> QED
        BY <3>1, <4>1, <4>2
    <3>4. \A n \in Make : call'[n].ret = call[n].ret
      BY <3>1, <3>2 DEF Calls
    <3> QED
      BY <3>3, <3>4
  <2>5. failed' \in [Make -> BOOLEAN]
    BY <1>2 DEF ReapFinished, ReapFailed, TypeOK
  <2>6. TypeOK'
    BY <1>0, <2>1, <2>2, <2>3, <2>4, <2>5, FreeChildType, ZenonT(60) DEF TypeOK, PC
  <2>7. Occupied'
    BY <1>0, <2>1, <2>2, <2>3, SMTT(30) DEF TypeOK, Occupied, Owned, Pos, RunsMake, FreeChild
  <2>8. Owned'
    BY <1>0, <2>1, <2>2, <2>3, <2>4, SMTT(30) DEF TypeOK, Owned, Pos
  <2>9. Unborn'
    BY <1>0, <2>1, <2>3 DEF TypeOK, Unborn
  <2> QED
    BY <2>6, <2>7, <2>8, <2>9
<1> QED
  BY <1>1, <1>2

\* A make ends; a SIGCHLD arrives; a command ends.
LEMMA ExitInv ==
  ASSUME Inv,
         \/ \E m \in Make : Exit(m) \/ ChildHandler(m)
         \/ \E j \in Job : CommandExits(j), use' = use
  PROVE  Inv'
<1> USE TreeAssumption, SlotAssumption DEF Inv
<1>1. ASSUME NEW m \in Make, Exit(m) PROVE Inv'
  <2>1. /\ pc[m] \in {"die", "exit"} /\ pc' = [pc EXCEPT ![m] = "exited"]
        /\ UNCHANGED <<call, cur, failed, server, rfd, pipe, state, line>>
    BY <1>1 DEF Exit, Goto
  <2>2. CASE m = Root
    <3>1. UNCHANGED <<free, slot, proc, sigchld>>
      BY <1>1, <2>2 DEF Exit
    <3> QED
      BY <2>1, <3>1 DEF TypeOK, Occupied, RunsMake, Owned, Pos, Unborn, PC
  <2>3. CASE m # Root
    <3>1. PICK j \in Job, s \in Byte :
            /\ slot' = [slot EXCEPT ![j] = s]
            /\ free' = [free EXCEPT ![m] = @ \ {s}]
            /\ proc' = [proc EXCEPT ![j] = IF failed[m] THEN "fail" ELSE "ok"]
            /\ sigchld' = [sigchld EXCEPT ![Owner[j]] = TRUE]
      BY <1>1, <2>3, OwnType DEF Exit
    <3>2. TypeOK'
      BY <2>1, <3>1 DEF TypeOK, PC
    <3>3. Occupied'
      BY <2>1, <3>1 DEF TypeOK, Occupied, RunsMake
    <3>4. Owned' /\ Unborn'
      BY <2>1 DEF TypeOK, Owned, Pos, Unborn
    <3> QED
      BY <3>2, <3>3, <3>4
  <2> QED
    BY <2>2, <2>3
<1>2. ASSUME NEW m \in Make, ChildHandler(m) PROVE Inv'
  BY <1>2 DEF ChildHandler, TypeOK, Occupied, RunsMake, Owned, Pos, Unborn
<1>3. ASSUME NEW j \in Job, CommandExits(j) PROVE Inv'
  <2>1. PICK status \in {"ok", "fail"} : proc' = [proc EXCEPT ![j] = status]
    BY <1>3 DEF CommandExits
  <2>2. /\ state[j] = "child" /\ slot[j] # NoSlot
    BY <1>3 DEF CommandExits, Commands, Occupied
  <2>3. TypeOK'
    BY <1>3, <2>1 DEF CommandExits, TypeOK
  <2>4. Occupied'
    BY <1>3, <2>1, <2>2 DEF CommandExits, TypeOK, Occupied, RunsMake
  <2>5. Owned' /\ Unborn'
    BY <1>3 DEF CommandExits, Owned, Pos, Unborn
  <2> QED
    BY <2>3, <2>4, <2>5
<1> QED
  BY <1>1, <1>2, <1>3

LEMMA InitInv == Init => Inv
<1> SUFFICES ASSUME Init PROVE Inv
  OBVIOUS
<1> USE TreeAssumption, SlotAssumption DEF Init
<1>1. TypeOK
  BY DEF TypeOK, PC, NoCall, Calls
<1>2. Occupied /\ Owned /\ Unborn
  BY DEF Occupied, Owned, Pos, Unborn, RunsMake
<1> QED
  BY <1>1, <1>2 DEF Inv

\* The makefiles and the options stay what they are.
LEMMA UseKept == [Next]_vars => use' = use
BY DEF Next, MakeStep, ChildHandler, CommandExits, Finished, vars

LEMMA NextInv == Inv /\ [Next]_vars => Inv'
<1> SUFFICES ASSUME Inv, [Next]_vars PROVE Inv'
  OBVIOUS
<1>1. ASSUME NEW m \in Make, MakeStep(m) PROVE Inv'
  BY <1>1, WalkInv, NewJobInv, ReapInv, ExitInv DEF MakeStep
<1>2. CASE UNCHANGED vars
  BY <1>2 DEF vars, Inv, TypeOK, Occupied, RunsMake, Owned, Pos, Unborn
<1> QED
  BY <1>1, <1>2, ExitInv, UseKept DEF Next, Finished

------------------------------------------------------------------------------
\* Every variable keeps its type: what TLC checks of small trees of makes holds
\* of all, in particular no job gives up a slot it does not have.
THEOREM TypeCorrect == Spec => []TypeOK
<1>1. Inv => TypeOK
  BY DEF Inv
<1> QED
  BY <1>1, InitInv, NextInv, PTL DEF Spec

\* No make waits for a byte while a child of its own is dead that it has not
\* heard of: the handler of an earlier SIGCHLD has closed job_rfd, and job_rfd
\* is opened again only before a reap that finds every dead child.
THEOREM WakeupKept == Spec => []NoLostWakeup
<1> USE TreeAssumption
<1>1. Init => NoLostWakeup
  BY DEF Init, NoLostWakeup
<1>2. Inv /\ NoLostWakeup /\ [Next]_vars => NoLostWakeup'
  <2> SUFFICES ASSUME Inv, NoLostWakeup, [Next]_vars PROVE NoLostWakeup'
    OBVIOUS
  <2> USE DEF Inv, TypeOK
  <2>1. ASSUME NEW m \in Make, NewJob(m) \/ EndPass(m) \/ Finish(m) \/ SwjReap(m)
                                \/ SwjReturn(m) \/ Started(m) \/ DieWait(m)
        PROVE  NoLostWakeup'
    BY <2>1 DEF NewJob, EndPass, Finish, SwjReap, SwjReturn, Started, DieWait, CallReap,
                Goto, NoLostWakeup, Zombies, Children
  <2>2. ASSUME NEW m \in Make, UseFreeSlot(m) \/ ReadToken(m) \/ ReadFails(m)
        PROVE  NoLostWakeup'
    BY <2>2 DEF UseFreeSlot, ReadToken, ReadFails, CallReap, Goto, NoLostWakeup,
                Zombies, Children
  <2>3. ASSUME NEW m \in Make, NEW j \in Job, NEW l \in {"swj", "started", "reap"},
               Launch(m, j, l)
        PROVE  NoLostWakeup'
    BY <2>3 DEF Launch, NoLostWakeup, Zombies, Children
  <2>4. ASSUME NEW m \in Make, NEW j \in Job, NEW l \in {"swj", "started"},
               NEW deferred \in {"swjdone", "started"},
               StartWaitingJob(m, j, l, deferred)
        PROVE  NoLostWakeup'
    BY <2>3, <2>4 DEF StartWaitingJob, Goto, NoLostWakeup, Zombies, Children
  <2>5. ASSUME NEW m \in Make, StartNewJob(m) \/ SwjStart(m) PROVE NoLostWakeup'
    BY <2>4, <2>5 DEF StartNewJob, SwjStart, Waiting, Owned, Pos
  <2>6. ASSUME NEW m \in Make, ReapReturn(m) PROVE NoLostWakeup'
    BY <2>6 DEF ReapReturn, Goto, NoLostWakeup, Zombies, Children
  <2>7. ASSUME NEW m \in Make, NEW j \in Job,
               ReapNextLine(m, j) \/ ReapFinished(m, j) \/ ReapFailed(m, j)
        PROVE  NoLostWakeup'
    BY <2>3, <2>7, SMTT(30) DEF ReapNextLine, ReapFinished, ReapFailed, Remove, Goto,
                      NoLostWakeup, Zombies, Children
  <2>8. ASSUME NEW m \in Make, Exit(m) PROVE NoLostWakeup'
    BY <2>8 DEF Exit, Goto, NoLostWakeup, Zombies, Children
  <2>9. ASSUME NEW m \in Make, ChildHandler(m) PROVE NoLostWakeup'
    BY <2>9 DEF ChildHandler, NoLostWakeup, Zombies, Children
  <2>10. ASSUME NEW j \in Job, CommandExits(j) PROVE NoLostWakeup'
    BY <2>10 DEF CommandExits, NoLostWakeup, Zombies, Children
  <2>11. CASE UNCHANGED vars
    BY <2>11 DEF vars, NoLostWakeup, Zombies, Children
  <2> QED
    BY <2>1, <2>2, <2>5, <2>6, <2>7, <2>8, <2>9, <2>10, <2>11
       DEF Next, MakeStep, Finished
<1> QED
  BY <1>1, <1>2, InitInv, NextInv, PTL DEF Spec

------------------------------------------------------------------------------
(* The limit on the commands that run at once, with -k.  Without it a make   *)
(* can exit before its children (NoOrphans), and its parent then takes back  *)
(* a slot that a child of the dead make still uses.                          *)

\* Every slot is in one place at a time.
SlotsApart ==
  /\ pipe \subseteq Slot
  /\ \A m \in Make : free[m] \subseteq Slot \ pipe
  /\ \A m, n \in Make : m # n => free[m] \cap free[n] = {}
  /\ \A j \in Job : slot[j] # NoSlot =>
       /\ slot[j] \in Slot \ pipe
       /\ \A m \in Make : slot[j] \notin free[m]
  /\ \A i, j \in Job : i # j /\ slot[i] # NoSlot => slot[i] # slot[j]

\* A make that runs has a slot, its own or with a job.
Entitled ==
  \A m \in Make :
    /\ pc[m] # "exit"
    /\ pc[m] \notin {"unborn", "exited", "start"} => free[m] # {} \/ Children(m) # {}

SlotInv == KeepGoing /\ SlotsApart /\ Entitled

LEMMA LaunchSlots ==
  ASSUME Inv, SlotInv, NEW m \in Make, NEW j \in Job,
         NEW next \in {"swj", "started", "reap"},
         Owner[j] = m, slot[j] # NoSlot, Launch(m, j, next), use' = use
  PROVE  SlotInv'
<1> USE TreeAssumption, SlotAssumption DEF Inv, TypeOK, SlotInv, KeepGoing
<1>1. SlotsApart'
  BY DEF SlotsApart, Launch
<1>2. Entitled'
  BY DEF Entitled, SlotsApart, Launch, Children
<1> QED
  BY <1>1, <1>2

\* free_child leaves the make with a child, or with a slot of its own.
LEMMA FreeChildSlots ==
  ASSUME Inv, SlotInv, NEW m \in Make, NEW j \in Job,
         Owner[j] = m, slot[j] # NoSlot, FreeChild(m, j),
         NEW result \in {"done", "failed"}, state' = [state EXCEPT ![j] = result],
         NEW l \in PC \ {"exit"}, Goto(m, l), use' = use
  PROVE  SlotInv'
<1> USE TreeAssumption, SlotAssumption DEF Inv, TypeOK, SlotInv, KeepGoing
<1>1. SlotsApart'
  <2>1. CASE pipe' = pipe \cup {slot[j]} /\ UNCHANGED free
    BY <2>1 DEF SlotsApart, FreeChild
  <2>2. CASE free' = [free EXCEPT ![m] = @ \cup {slot[j]}] /\ UNCHANGED pipe
    BY <2>2 DEF SlotsApart, FreeChild
  <2> QED
    BY <2>1, <2>2 DEF FreeChild
<1>2. Entitled'
  BY DEF Entitled, SlotsApart, FreeChild, Children, Goto
<1> QED
  BY <1>1, <1>2

LEMMA StartWaitingJobSlots ==
  ASSUME Inv, SlotInv, NEW m \in Make, NEW j \in Job,
         NEW next \in {"swj", "started"},
         NEW deferred \in {"swjdone", "started"},
         Owner[j] = m, slot[j] # NoSlot, state[j] # "child",
         StartWaitingJob(m, j, next, deferred), use' = use
  PROVE  SlotInv'
<1> USE TreeAssumption, SlotAssumption DEF Inv, TypeOK
<1>1. CASE /\ state' = [state EXCEPT ![j] = "waiting"]
           /\ Goto(m, deferred) /\ Children(m) # {}
           /\ UNCHANGED <<failed, server, rfd, sigchld, pipe, free, slot, line, proc>>
  BY <1>1 DEF SlotInv, SlotsApart, Entitled, Children, Goto, KeepGoing
<1>2. CASE Launch(m, j, next)
  BY <1>2, LaunchSlots
<1>3. CASE /\ state' = [state EXCEPT ![j] = IF Lines[j] = 0 THEN "done" ELSE "failed"]
           /\ FreeChild(m, j) /\ Goto(m, next)
  BY <1>3, FreeChildSlots DEF PC
<1> QED
  BY <1>1, <1>2, <1>3 DEF StartWaitingJob

LEMMA SlotStep == Inv /\ SlotInv /\ [Next]_vars => SlotInv'
<1> SUFFICES ASSUME Inv, SlotInv, [Next]_vars PROVE SlotInv'
  OBVIOUS
<1> USE TreeAssumption, SlotAssumption
<1>0. use' = use /\ KeepGoing'
  BY UseKept DEF SlotInv, KeepGoing
<1>1. ASSUME NEW m \in Make, NewJob(m) \/ EndPass(m) \/ Finish(m) \/ SwjReap(m)
                              \/ SwjReturn(m) \/ Started(m) \/ ReadFails(m) \/ DieWait(m)
      PROVE  SlotInv'
  <2>1. UNCHANGED <<pipe, free, slot, state>>
    BY <1>1 DEF NewJob, EndPass, Finish, SwjReap, SwjReturn, Started, ReadFails, DieWait
  <2>2. PICK l \in {"swj", "die", "reap", "walk"} : pc' = [pc EXCEPT ![m] = l]
    BY <1>1 DEF NewJob, EndPass, Finish, SwjReap, SwjReturn, Started, ReadFails, DieWait,
                CallReap, Goto
  <2>3. pc[m] \notin {"unborn", "exited", "start"}
    BY <1>1 DEF NewJob, EndPass, Finish, SwjReap, SwjReturn, Started, ReadFails, DieWait
  <2>4. SlotsApart'
    BY <2>1 DEF SlotInv, SlotsApart
  <2>5. Entitled'
    BY <2>1, <2>2, <2>3 DEF SlotInv, Entitled, Children, Inv, TypeOK
  <2> QED
    BY <1>0, <2>4, <2>5 DEF SlotInv
<1>2. ASSUME NEW m \in Make, ReapReturn(m) PROVE SlotInv'
  <2>1. call[m].ret \notin {"exit", "start"}
    BY DEF Inv, TypeOK, Calls
  <2> QED
    BY <1>0, <1>2, <2>1 DEF ReapReturn, Goto, Inv, TypeOK, SlotInv, SlotsApart, Entitled, Children
<1>3. ASSUME NEW m \in Make, UseFreeSlot(m) PROVE SlotInv'
  <2>1. cur[m] \in Job /\ free[m] # {}
    BY <1>3 DEF UseFreeSlot, Inv, TypeOK, Owned, Pos, SlotInv, Entitled
  <2>2. PICK s \in free[m] : /\ slot' = [slot EXCEPT ![cur[m]] = s]
                             /\ free' = [free EXCEPT ![m] = @ \ {s}]
    BY <1>3, <2>1 DEF UseFreeSlot, Own
  <2>3. SlotsApart'
    BY <1>3, <2>1, <2>2 DEF UseFreeSlot, Inv, TypeOK, SlotInv, SlotsApart
  <2>4. Entitled'
    BY <1>3, <2>2 DEF UseFreeSlot, Goto, Inv, TypeOK, SlotInv, Entitled, Children
  <2> QED
    BY <1>0, <2>3, <2>4 DEF SlotInv
<1>4. ASSUME NEW m \in Make, ReadToken(m) PROVE SlotInv'
  <2>1. cur[m] \in Job
    BY <1>4 DEF ReadToken, Inv, TypeOK, Owned, Pos
  <2>2. PICK s \in pipe : slot' = [slot EXCEPT ![cur[m]] = s] /\ pipe' = pipe \ {s}
    BY <1>4 DEF ReadToken
  <2>3. SlotsApart'
    BY <1>4, <2>1, <2>2 DEF ReadToken, Inv, TypeOK, SlotInv, SlotsApart
  <2>4. Entitled'
    BY <1>4 DEF ReadToken, Goto, Inv, TypeOK, SlotInv, Entitled, Children
  <2> QED
    BY <1>0, <2>3, <2>4 DEF SlotInv
<1>5. ASSUME NEW m \in Make, StartNewJob(m) PROVE SlotInv'
  <2>1. /\ cur[m] \in Job /\ Owner[cur[m]] = m
        /\ slot[cur[m]] # NoSlot /\ state[cur[m]] # "child"
    BY <1>5 DEF StartNewJob, Inv, TypeOK, Owned, Occupied, Pos
  <2> QED
    BY <1>0, <1>5, <2>1, StartWaitingJobSlots DEF StartNewJob
<1>6. ASSUME NEW m \in Make, SwjStart(m) PROVE SlotInv'
  BY <1>0, <1>6, StartWaitingJobSlots DEF SwjStart, Waiting, Inv, Occupied
<1>7. ASSUME NEW m \in Make, NEW j \in Job,
             ReapNextLine(m, j) \/ ReapFinished(m, j) \/ ReapFailed(m, j)
      PROVE  SlotInv'
  <2>1. Owner[j] = m /\ slot[j] # NoSlot /\ pc[m] = "reap"
    BY <1>7 DEF ReapNextLine, ReapFinished, ReapFailed, Zombies, Children,
                Inv, Occupied, RunsMake
  <2>2. CASE ReapNextLine(m, j)
    BY <1>0, <2>1, <2>2, LaunchSlots DEF ReapNextLine
  <2>3. CASE ReapFinished(m, j) \/ ReapFailed(m, j)
    <3>1. FreeChild(m, j) /\ Goto(m, "reap")
      BY <2>1, <2>3 DEF ReapFinished, ReapFailed, Remove, Goto, SlotInv, Inv, TypeOK
    <3>2. PICK r \in {"done", "failed"} : state' = [state EXCEPT ![j] = r]
      BY <2>3 DEF ReapFinished, ReapFailed, Remove
    <3> QED
      BY <1>0, <2>1, <3>1, <3>2, FreeChildSlots DEF PC
  <2> QED
    BY <1>7, <2>2, <2>3
<1>8. ASSUME NEW m \in Make, Exit(m) PROVE SlotInv'
  <2>1. /\ pc[m] = "die" /\ free[m] # {} /\ pc' = [pc EXCEPT ![m] = "exited"]
        /\ UNCHANGED <<pipe, state>>
    BY <1>8 DEF Exit, Goto, SlotInv, Entitled
  <2>2. \/ UNCHANGED <<free, slot>>
        \/ \E j \in Job, s \in free[m] : /\ slot' = [slot EXCEPT ![j] = s]
                                         /\ free' = [free EXCEPT ![m] = @ \ {s}]
    BY <1>8, <2>1 DEF Exit, Own
  <2>3. SlotsApart'
    <3>1. CASE UNCHANGED <<free, slot>>
      BY <2>1, <3>1 DEF SlotInv, SlotsApart
    <3>2. ASSUME NEW j \in Job, NEW s \in free[m],
                 slot' = [slot EXCEPT ![j] = s], free' = [free EXCEPT ![m] = @ \ {s}]
          PROVE  SlotsApart'
      BY <2>1, <3>2 DEF Inv, TypeOK, SlotInv, SlotsApart
    <3> QED
      BY <2>2, <3>1, <3>2
  <2>4. Entitled'
    BY <2>1, <2>2 DEF Inv, TypeOK, SlotInv, Entitled, Children
  <2> QED
    BY <1>0, <2>3, <2>4 DEF SlotInv
<1>9. CASE \/ \E m \in Make : ChildHandler(m)
           \/ \E j \in Job : CommandExits(j)
           \/ UNCHANGED vars
  BY <1>0, <1>9 DEF ChildHandler, CommandExits, vars, SlotInv, SlotsApart, Entitled, Children
<1> QED
  BY <1>1, <1>2, <1>3, <1>4, <1>5, <1>6, <1>7, <1>8, <1>9 DEF Next, MakeStep, Finished

\* With every slot in one place, the commands that run are no more than the slots.
LEMMA SlotsBoundCommands == Inv /\ SlotInv => MaxJobs
<1> SUFFICES ASSUME Inv, SlotInv PROVE MaxJobs
  OBVIOUS
<1> DEFINE place == [j \in Commands |-> slot[j]]
<1>1. \A j \in Commands : j \in Job /\ slot[j] \in Slot
  BY DEF Commands, Inv, Occupied, SlotInv, SlotsApart
<1>2. place \in [Commands -> Slot]
  BY <1>1
<1>3. \A i, j \in Commands : place[i] = place[j] => i = j
  BY <1>1, SlotAssumption DEF SlotInv, SlotsApart
<1>4. place \in Injection(Commands, Slot)
  BY <1>2, <1>3 DEF Injection, IsInjective
<1>5. Cardinality(Commands) <= Cardinality(Slot)
  BY <1>4, FS_Injection, SlotAssumption
<1> QED
  BY <1>5 DEF MaxJobs

\* Under -k, however deep the tree of makes and whatever the load, the forks and
\* the commands do, no more commands run at once than -j allows.
THEOREM JobLimit == KeepGoing /\ Spec => []MaxJobs
<1>1. KeepGoing /\ Init => SlotInv
  BY TreeAssumption, SlotAssumption DEF Init, SlotInv, SlotsApart, Entitled
<1> QED
  BY <1>1, InitInv, NextInv, SlotStep, SlotsBoundCommands, PTL DEF Spec

\* With -k no make exits before its children.  Without it one can, when a second
\* job fails while die () waits.
THEOREM ChildrenFirst == KeepGoing /\ Spec => []NoOrphans
<1> USE TreeAssumption
<1>1. KeepGoing /\ Init => SlotInv
  BY SlotAssumption DEF Init, SlotInv, SlotsApart, Entitled
<1>2. Init => NoOrphans
  BY DEF Init, NoOrphans
<1>3. Inv /\ SlotInv /\ NoOrphans /\ [Next]_vars => NoOrphans'
  <2> SUFFICES ASSUME Inv, SlotInv, NoOrphans, [Next]_vars,
                      NEW n \in Make, pc'[n] = "exited"
               PROVE  Children(n)' = {}
    BY DEF NoOrphans
  <2> USE DEF Inv, TypeOK
  <2>1. ASSUME NEW m \in Make, NEW j \in Job, Owner[j] = m,
               NEW next \in {"swj", "started", "reap"}, Launch(m, j, next),
               pc[m] \in {"start", "swjpop", "reap"}
        PROVE  Children(n)' = {}
    <3>1. n # m /\ pc[n] = "exited"
      BY <2>1 DEF Launch
    <3>2. Children(n)' = Children(n)
      BY <2>1, <3>1 DEF Launch, Children
    <3> QED
      BY <3>1, <3>2 DEF NoOrphans
  <2>2. ASSUME NEW m \in Make, NEW l \in PC \ {"exited"}, Goto(m, l),
               \A j \in Job : state'[j] = "child" => state[j] = "child"
        PROVE  Children(n)' = {}
    <3>1. pc[n] = "exited"
      BY <2>2 DEF Goto
    <3>2. Children(n)' \subseteq Children(n)
      BY <2>2 DEF Children
    <3> QED
      BY <3>1, <3>2 DEF NoOrphans
  <2>3. ASSUME NEW m \in Make, NewJob(m) \/ EndPass(m) \/ Finish(m) \/ SwjReap(m)
                                \/ SwjReturn(m) \/ Started(m) \/ DieWait(m) \/ ReapReturn(m)
                                \/ UseFreeSlot(m) \/ ReadToken(m) \/ ReadFails(m)
        PROVE  Children(n)' = {}
    <3>1. UNCHANGED state
      BY <2>3 DEF NewJob, EndPass, Finish, SwjReap, SwjReturn, Started, DieWait, ReapReturn,
                  UseFreeSlot, ReadToken, ReadFails
    <3>2. \E l \in PC \ {"exited"} : Goto(m, l)
      <4>1. CASE ReapReturn(m)
        <5>1. call[m].ret \in PC \ {"exited"}
          BY DEF Calls, PC
        <5> QED
          BY <4>1, <5>1 DEF ReapReturn
      <4>2. CASE ~ReapReturn(m)
        BY <2>3, <4>2 DEF NewJob, EndPass, Finish, SwjReap, SwjReturn, Started, DieWait,
                          UseFreeSlot, ReadToken, ReadFails, CallReap, PC
      <4> QED
        BY <4>1, <4>2
    <3> QED
      BY <2>2, <3>1, <3>2
  <2>4. ASSUME NEW m \in Make, NEW j \in Job, NEW l \in {"swj", "started"},
               NEW deferred \in {"swjdone", "started"}, Owner[j] = m,
               pc[m] \in {"start", "swjpop"}, StartWaitingJob(m, j, l, deferred)
        PROVE  Children(n)' = {}
    <3>1. CASE state' = [state EXCEPT ![j] = "waiting"] /\ Goto(m, deferred)
      BY <2>2, <3>1 DEF PC
    <3>2. CASE Launch(m, j, l)
      BY <2>1, <2>4, <3>2
    <3>3. CASE /\ state' = [state EXCEPT ![j] = IF Lines[j] = 0 THEN "done" ELSE "failed"]
               /\ Goto(m, l)
      BY <2>2, <3>3 DEF PC
    <3> QED
      BY <2>4, <3>1, <3>2, <3>3 DEF StartWaitingJob
  <2>5. ASSUME NEW m \in Make, StartNewJob(m) \/ SwjStart(m) PROVE Children(n)' = {}
    BY <2>4, <2>5 DEF StartNewJob, SwjStart, Waiting, Owned, Pos
  <2>6. ASSUME NEW m \in Make, NEW j \in Job,
               ReapNextLine(m, j) \/ ReapFinished(m, j) \/ ReapFailed(m, j)
        PROVE  Children(n)' = {}
    <3>1. pc[m] = "reap" /\ Owner[j] = m
      BY <2>6 DEF ReapNextLine, ReapFinished, ReapFailed, Zombies, Children
    <3>2. CASE ReapNextLine(m, j)
      BY <2>1, <3>1, <3>2 DEF ReapNextLine
    <3>3. CASE ReapFinished(m, j) \/ ReapFailed(m, j)
      <4>1. Goto(m, "reap")
        BY <3>1, <3>3 DEF ReapFinished, ReapFailed, Remove, Goto, SlotInv
      <4>2. \A i \in Job : state'[i] = "child" => state[i] = "child"
        BY <3>3 DEF ReapFinished, ReapFailed, Remove
      <4> QED
        BY <2>2, <4>1, <4>2 DEF PC
    <3> QED
      BY <2>6, <3>2, <3>3
  <2>7. ASSUME NEW m \in Make, Exit(m) PROVE Children(n)' = {}
    <3>1. Children(m) = {} /\ UNCHANGED state /\ (n # m => pc'[n] = pc[n])
      BY <2>7 DEF Exit, Goto, SlotInv, Entitled
    <3> QED
      BY <3>1 DEF NoOrphans, Children
  <2>8. CASE \/ \E m \in Make : ChildHandler(m)
             \/ \E j \in Job : CommandExits(j)
             \/ UNCHANGED vars
    BY <2>8 DEF ChildHandler, CommandExits, vars, NoOrphans, Children
  <2> QED
    BY <2>3, <2>5, <2>6, <2>7, <2>8 DEF Next, MakeStep, Finished
<1> QED
  BY <1>1, <1>2, <1>3, InitInv, NextInv, SlotStep, PTL DEF Spec

------------------------------------------------------------------------------
(* The "free" job of free_child, without -l.  With -l a job that has read a  *)
(* byte can wait on waiting_jobs and become the only child of its make.      *)

\* A make keeps one slot for its free job, and none while it has a child.
FreeJob ==
  \A m \in Make :
    /\ Waiting(m) = {}
    /\ pc[m] = "unborn" \/ (pc[m] = "start" /\ ~server[m]) => Children(m) = {}
    /\ pc[m] = "start" => free[m] = {}
    /\ Active(m) /\ Children(m) # {} => free[m] = {}
    /\ \A s, t \in free[m] : s = t
    /\ ~server[m] => \A i, j \in Children(m) : i = j

FreeJobInv == ~LoadLimit /\ FreeJob

LEMMA LaunchFreeJob ==
  ASSUME Inv, FreeJobInv, NEW m \in Make, NEW j \in Job,
         NEW next \in {"started", "reap"},
         Owner[j] = m, Launch(m, j, next),
         pc[m] = "start" \/ (pc[m] = "reap" /\ j \in Children(m)), use' = use
  PROVE  FreeJobInv'
<1> USE TreeAssumption DEF Inv, TypeOK, FreeJobInv, LoadLimit
<1>1. Waiting(m)' = {}
  BY DEF FreeJob, Waiting, Launch
<1>2. Children(m)' = Children(m) \cup {j}
  BY DEF Launch, Children
<1>3. \A n \in Make \ {m} : Waiting(n)' = Waiting(n) /\ Children(n)' = Children(n)
  BY DEF Launch, Waiting, Children
<1>4. pc'[m] \notin {"unborn", "start"} /\ server'[m] = server[m] /\ free'[m] = free[m]
  BY DEF Launch
<1>5. free[m] = {} /\ (~server[m] => \A i, k \in Children(m)' : i = k)
  BY <1>2 DEF FreeJob, Active
<1>6. \A n \in Make \ {m} :
        \/ pc'[n] = pc[n] /\ server'[n] = server[n] /\ free'[n] = free[n]
        \/ /\ n = Sub[j] /\ pc[n] = "unborn" /\ pc'[n] = "swj" /\ free'[n] = {slot[j]}
  BY DEF Launch, Unborn
<1>7. \A n \in Make \ {m} : pc'[n] = "unborn" => pc[n] = "unborn"
  BY <1>6
<1> QED
  BY <1>1, <1>3, <1>4, <1>5, <1>6, <1>7 DEF FreeJob, Active

LEMMA FreeChildFreeJob ==
  ASSUME Inv, FreeJobInv, NEW m \in Make, NEW j \in Job,
         Owner[j] = m, slot[j] # NoSlot, FreeChild(m, j),
         pc[m] = "start" \/ (pc[m] = "reap" /\ j \in Children(m)),
         NEW result \in {"done", "failed"}, state' = [state EXCEPT ![j] = result],
         NEW l \in PC \ {"unborn", "start"}, Goto(m, l), UNCHANGED server, use' = use
  PROVE  FreeJobInv'
<1> USE TreeAssumption DEF Inv, TypeOK, FreeJobInv, LoadLimit
<1>1. \A n \in Make : Waiting(n)' = {}
  BY DEF FreeJob, Waiting
<1>2. Children(m)' = Children(m) \ {j}
  BY DEF Children
<1>3. \A n \in Make \ {m} : Children(n)' = Children(n)
  BY DEF Children
<1>4. \A n \in Make \ {m} : free'[n] = free[n] /\ pc'[n] = pc[n]
  BY DEF FreeChild, Goto
<1>5. free[m] = {}
  BY DEF FreeJob, Active
<1>6. \A s, t \in free'[m] : s = t
  BY <1>5 DEF FreeChild
<1>7. ~server[m] => Children(m) \ {j} = {}
  BY DEF FreeJob
<1>8. Children(m)' # {} => free'[m] = {}
  BY <1>2, <1>5, <1>7 DEF FreeChild
<1>9. pc'[m] = l
  BY DEF Goto
<1>10. ~server[m] => \A i, k \in Children(m)' : i = k
  BY <1>2, <1>7
<1> QED
  BY <1>1, <1>3, <1>4, <1>6, <1>8, <1>9, <1>10 DEF FreeJob, Active

LEMMA FreeJobStep == Inv /\ FreeJobInv /\ [Next]_vars => FreeJobInv'
<1> SUFFICES ASSUME Inv, FreeJobInv, [Next]_vars PROVE FreeJobInv'
  OBVIOUS
<1> USE TreeAssumption, SlotAssumption
<1>0. use' = use /\ ~LoadLimit'
  BY UseKept DEF FreeJobInv, LoadLimit
<1>1. ASSUME NEW m \in Make, \/ NewJob(m) \/ EndPass(m) \/ Finish(m) \/ SwjReap(m) \/ SwjReturn(m)
                             \/ Started(m) \/ ReadFails(m) \/ DieWait(m) \/ ReapReturn(m)
      PROVE  FreeJobInv'
  <2>1. UNCHANGED <<free, server, state>>
    BY <1>1 DEF NewJob, EndPass, Finish, SwjReap, SwjReturn, Started, ReadFails, DieWait, ReapReturn
  <2>2. PICK l \in PC \ {"unborn", "start"} : pc' = [pc EXCEPT ![m] = l]
    BY <1>1 DEF NewJob, EndPass, Finish, SwjReap, SwjReturn, Started, ReadFails, DieWait, ReapReturn,
                CallReap, Goto, PC, Inv, TypeOK, Calls
  <2>3. pc[m] \notin {"unborn", "exited"}
    BY <1>1 DEF NewJob, EndPass, Finish, SwjReap, SwjReturn, Started, ReadFails, DieWait, ReapReturn
  <2> QED
    BY <1>0, <2>1, <2>2, <2>3 DEF FreeJobInv, FreeJob, Active, Waiting, Children, Inv, TypeOK
<1>2. ASSUME NEW m \in Make, UseFreeSlot(m) \/ ReadToken(m) PROVE FreeJobInv'
  <2>1. /\ UNCHANGED <<server, state>> /\ pc' = [pc EXCEPT ![m] = "start"]
        /\ pc[m] = "slots" /\ (server[m] \/ Children(m) = {})
    BY <1>2 DEF UseFreeSlot, ReadToken, Goto
  <2>2. free'[m] = {} /\ \A n \in Make \ {m} : free'[n] = free[n]
    <3>1. CASE ReadToken(m)
      BY <3>1 DEF ReadToken, FreeJobInv, FreeJob, Active
    <3>2. CASE UseFreeSlot(m)
      <4>1. PICK s \in Own(m) : free' = [free EXCEPT ![m] = @ \ {s}]
        BY <3>2 DEF UseFreeSlot
      <4>2. \A t \in free[m] : t = s
        BY <4>1 DEF Own, FreeJobInv, FreeJob
      <4> QED
        BY <4>1, <4>2 DEF Inv, TypeOK
    <3> QED
      BY <1>2, <3>1, <3>2
  <2> QED
    BY <1>0, <2>1, <2>2, SMTT(30) DEF FreeJobInv, FreeJob, Active, Waiting, Children, Inv, TypeOK
<1>3. ASSUME NEW m \in Make, StartNewJob(m) PROVE FreeJobInv'
  <2> DEFINE j == cur[m]
  <2>1. /\ pc[m] = "start" /\ j \in Job /\ Owner[j] = m /\ slot[j] # NoSlot
        /\ StartWaitingJob(m, j, "started", "started")
    BY <1>3 DEF StartNewJob, Inv, TypeOK, Owned, Occupied, Pos
  <2>2. CASE Launch(m, j, "started")
    BY <1>0, <2>1, <2>2, LaunchFreeJob
  <2>3. CASE /\ state' = [state EXCEPT ![j] = IF Lines[j] = 0 THEN "done" ELSE "failed"]
             /\ FreeChild(m, j) /\ Goto(m, "started") /\ UNCHANGED server
    BY <1>0, <2>1, <2>3, FreeChildFreeJob DEF PC
  <2> HIDE DEF j
  <2> QED
    BY <2>1, <2>2, <2>3 DEF StartWaitingJob, FreeJobInv
<1>4. ASSUME NEW m \in Make, SwjStart(m) PROVE FreeJobInv'
  BY <1>4 DEF SwjStart, FreeJobInv, FreeJob
<1>5. ASSUME NEW m \in Make, NEW j \in Job,
             ReapNextLine(m, j) \/ ReapFinished(m, j) \/ ReapFailed(m, j)
      PROVE  FreeJobInv'
  <2>1. /\ Owner[j] = m /\ slot[j] # NoSlot /\ pc[m] = "reap" /\ j \in Children(m)
    BY <1>5 DEF ReapNextLine, ReapFinished, ReapFailed, Zombies, Children,
                Inv, Occupied, RunsMake
  <2>2. CASE ReapNextLine(m, j)
    BY <1>0, <2>1, <2>2, LaunchFreeJob DEF ReapNextLine
  <2>3. CASE ReapFinished(m, j) \/ ReapFailed(m, j)
    <3>1. FreeChild(m, j) /\ UNCHANGED server
      BY <2>3 DEF ReapFinished, ReapFailed, Remove
    <3>2. PICK r \in {"done", "failed"} : state' = [state EXCEPT ![j] = r]
      BY <2>3 DEF ReapFinished, ReapFailed, Remove
    <3>3. PICK l \in {"reap", "die", "exit"} : Goto(m, l)
      BY <2>1, <2>3 DEF ReapFinished, ReapFailed, Remove, Goto, Inv, TypeOK
    <3> QED
      BY <1>0, <2>1, <3>1, <3>2, <3>3, FreeChildFreeJob DEF PC
  <2> QED
    BY <1>5, <2>2, <2>3
<1>6. ASSUME NEW m \in Make, Exit(m) PROVE FreeJobInv'
  <2>1. pc' = [pc EXCEPT ![m] = "exited"] /\ UNCHANGED <<server, state>>
    BY <1>6 DEF Exit, Goto
  <2>2. free' = free \/ \E s \in Own(m) : free' = [free EXCEPT ![m] = @ \ {s}]
    BY <1>6 DEF Exit
  <2> QED
    BY <1>0, <2>1, <2>2 DEF FreeJobInv, FreeJob, Active, Waiting, Children, Inv, TypeOK
<1>7. CASE \/ \E m \in Make : ChildHandler(m)
           \/ \E j \in Job : CommandExits(j)
           \/ UNCHANGED vars
  BY <1>0, <1>7 DEF ChildHandler, CommandExits, vars, FreeJobInv, FreeJob, Active, Waiting, Children
<1> QED
  BY <1>1, <1>2, <1>3, <1>4, <1>5, <1>6, <1>7 DEF Next, MakeStep, Finished

\* Without -l free_child is right to take an only child for the free job: no make
\* that has a child keeps a slot besides.  With -l a job that waits holds a slot and
\* is no child, and the condition cannot be dropped.
THEOREM FreeJobRight == Spec => []OnlyChildIsFreeJob
<1>1. ~LoadLimit /\ Init => FreeJobInv
  BY TreeAssumption DEF Init, FreeJobInv, FreeJob, Active, Waiting, Children
<1>2. FreeJobInv \/ LoadLimit => OnlyChildIsFreeJob
  BY DEF FreeJobInv, FreeJob, OnlyChildIsFreeJob
<1>3. LoadLimit /\ [Next]_vars => LoadLimit'
  BY UseKept DEF LoadLimit
<1> QED
  BY <1>1, <1>2, <1>3, InitInv, NextInv, FreeJobStep, PTL DEF Spec

------------------------------------------------------------------------------
(* The bytes in the pipe when the top make exits, with -k and without -l.    *)

\* No slot is lost, and only jobs that are or are about to be started have one.
SlotsKept ==
  /\ \A s \in Slot : \/ s \in pipe
                     \/ \E m \in Make : s \in free[m]
                     \/ \E j \in Job : slot[j] = s
  /\ \A j \in Job : slot[j] # NoSlot =>
       state[j] = "child" \/ (pc[Owner[j]] = "start" /\ cur[Owner[j]] = j)

\* What does not run has no children, and no slot; the top make keeps its own.  A
\* submake that runs is the process of the job that started it, and has its slot.
Ended ==
  /\ \A m \in Make : ~Active(m) =>
       /\ Children(m) = {}
       /\ IF m = Root THEN free[m] # {} ELSE free[m] = {}
  /\ \A j \in Job : Sub[j] # NoMake /\ Active(Sub[j]) => RunsMake(j) /\ slot[j] = NoSlot

\* From every running make the line of parents leads to the top: among any
\* submakes that run there is one whose parent is not among them.
Rooted ==
  \A X \in SUBSET (Make \ {Root}) :
    X # {} /\ (\A m \in X : Active(m)) => \E j \in Job : Sub[j] \in X /\ Owner[j] \notin X

Settled == Inv /\ SlotInv /\ FreeJobInv /\ SlotsKept /\ Ended /\ Rooted

LEMMA RootedKept ==
  ASSUME Rooted, \A m \in Make : Active(m)' => Active(m)
  PROVE  Rooted'
<1> SUFFICES ASSUME NEW X \in SUBSET (Make \ {Root}), X # {}, \A m \in X : Active(m)'
             PROVE  \E j \in Job : Sub[j] \in X /\ Owner[j] \notin X
  BY DEF Rooted
<1>1. \A m \in X : Active(m)
  OBVIOUS
<1> QED
  BY <1>1 DEF Rooted

\* A line is forked.  A new submake hangs below the make that forks it.
LEMMA LaunchSettled ==
  ASSUME Settled, NEW m \in Make, NEW j \in Job, NEW next \in {"started", "reap"},
         Owner[j] = m, slot[j] # NoSlot, Launch(m, j, next), Caller(m, j, next),
         proc[j] # "run"
  PROVE  SlotsKept' /\ Ended' /\ Rooted'
<1> USE TreeAssumption, SlotAssumption DEF Settled, Inv, TypeOK
<1>1. Active(m) /\ Active(m)'
  BY DEF Caller, Active, Launch
<1> DEFINE makes == line[j] = 0 /\ Sub[j] # NoMake
           n == Sub[j]
<1>2. makes => n \in Make \ {Root, m} /\ pc[n] = "unborn"
  BY DEF Unborn, Caller
<1>3. makes => free[n] = {} /\ Children(n) = {} /\ Active(n)' /\ free'[n] = {slot[j]}
  BY <1>2 DEF Ended, Active, Launch
<1>4. \A k \in Make : ~(makes /\ k = n) =>
        free'[k] = free[k] /\ Active(k)' = Active(k) /\ (k # m => pc'[k] = pc[k])
  <2> SUFFICES ASSUME NEW k \in Make, ~(makes /\ k = n)
               PROVE  free'[k] = free[k] /\ Active(k)' = Active(k) /\ (k # m => pc'[k] = pc[k])
    OBVIOUS
  <2>1. free'[k] = free[k] /\ (k # m => pc'[k] = pc[k])
    BY DEF Launch
  <2> QED
    BY <1>1, <2>1 DEF Active
<1>5. /\ pipe' = pipe
      /\ state' = [state EXCEPT ![j] = "child"]
      /\ \A i \in Job \ {j} : slot'[i] = slot[i] /\ proc'[i] = proc[i] /\ line'[i] = line[i]
      /\ slot'[j] = IF makes THEN NoSlot ELSE slot[j]
      /\ proc'[j] = "run" /\ line'[j] = line[j] + 1
  BY DEF Launch
<1> HIDE DEF makes, n
<1>6. SlotsKept'
  <2>1. ASSUME NEW s \in Slot
        PROVE  s \in pipe' \/ (\E k \in Make : s \in free'[k]) \/ \E i \in Job : slot'[i] = s
    <3>1. CASE s \in pipe
      BY <1>5, <3>1
    <3>2. ASSUME NEW k \in Make, s \in free[k]
          PROVE  s \in free'[k]
      BY <1>3, <1>4, <3>2
    <3>3. ASSUME NEW i \in Job, slot[i] = s
          PROVE  slot'[i] = s \/ \E k \in Make : s \in free'[k]
      BY <1>2, <1>3, <1>5, <3>3
    <3> QED
      BY <3>1, <3>2, <3>3 DEF SlotsKept
  <2>2. ASSUME NEW i \in Job, slot'[i] # NoSlot
        PROVE  state'[i] = "child" \/ (pc'[Owner[i]] = "start" /\ cur'[Owner[i]] = i)
    <3>1. CASE i = j
      BY <1>5, <3>1
    <3>2. CASE i # j /\ state[i] = "child"
      BY <1>5, <3>2
    <3>3. CASE i # j /\ state[i] # "child"
      <4>1. pc[Owner[i]] = "start" /\ cur[Owner[i]] = i
        BY <1>5, <2>2, <3>3 DEF SlotsKept
      <4>2. Owner[i] # m
        BY <3>3, <4>1 DEF Caller
      <4>3. pc'[Owner[i]] = pc[Owner[i]] /\ cur'[Owner[i]] = cur[Owner[i]]
        BY <1>2, <1>4, <4>1, <4>2 DEF Caller
      <4> QED
        BY <4>1, <4>3
    <3> QED
      BY <3>1, <3>2, <3>3
  <2> QED
    BY <2>1, <2>2 DEF SlotsKept
<1>7. Ended'
  <2>1. ASSUME NEW k \in Make, ~Active(k)'
        PROVE  Children(k)' = {} /\ (IF k = Root THEN free'[k] # {} ELSE free'[k] = {})
    <3>1. k # m /\ ~(makes /\ k = n) /\ ~Active(k) /\ free'[k] = free[k]
      BY <1>1, <1>3, <1>4, <2>1
    <3>2. Children(k)' = Children(k)
      BY <1>5, <3>1 DEF Children
    <3> QED
      BY <3>1, <3>2 DEF Ended
  <2>2. ASSUME NEW i \in Job, Sub[i] # NoMake, Active(Sub[i])'
        PROVE  RunsMake(i)' /\ slot'[i] = NoSlot
    <3>1. CASE i = j
      <4>1. makes
        <5>1. ~RunsMake(j)
          BY DEF RunsMake
        <5>2. ~Active(n)
          BY <2>2, <3>1, <5>1 DEF Ended, n
        <5> QED
          BY <1>4, <2>2, <3>1, <5>2 DEF n
      <4>2. line'[j] = 1
        BY <1>5, <4>1 DEF makes
      <4> QED
        BY <1>5, <3>1, <4>1, <4>2, <2>2 DEF RunsMake
    <3>2. CASE i # j
      <4>1. Sub[i] \in Make /\ Sub[i] # n
        BY <2>2, <3>2 DEF n
      <4>2. Active(Sub[i])
        BY <1>4, <2>2, <4>1
      <4> QED
        BY <1>5, <2>2, <3>2, <4>2 DEF Ended, RunsMake
    <3> QED
      BY <3>1, <3>2
  <2> QED
    BY <2>1, <2>2 DEF Ended
<1>8. Rooted'
  <2>1. CASE ~makes
    BY <1>4, <2>1, RootedKept
  <2>2. CASE makes
    <3> SUFFICES ASSUME NEW X \in SUBSET (Make \ {Root}), X # {}, \A k \in X : Active(k)'
                 PROVE  \E i \in Job : Sub[i] \in X /\ Owner[i] \notin X
      BY DEF Rooted
    <3>1. CASE X \ {n} = {}
      <4>1. n \in X /\ m \notin X
        BY <1>2, <2>2, <3>1
      <4> QED
        BY <4>1 DEF n
    <3>2. CASE X \ {n} # {}
      <4>1. \A k \in X \ {n} : Active(k)
        BY <1>4
      <4>2. PICK i \in Job : Sub[i] \in X \ {n} /\ Owner[i] \notin X \ {n}
        BY <3>2, <4>1 DEF Rooted
      <4>3. RunsMake(i)
        BY <4>1, <4>2 DEF Ended
      <4>4. i \in Children(Owner[i])
        BY <4>3 DEF RunsMake, Occupied, Children
      <4>5. Owner[i] # n
        BY <1>3, <2>2, <4>4
      <4> QED
        BY <4>2, <4>5
    <3> QED
      BY <3>1, <3>2
  <2> QED
    BY <2>1, <2>2
<1> QED
  BY <1>6, <1>7, <1>8

\* free_child hands the job's slot on.
LEMMA FreeChildSettled ==
  ASSUME Settled, NEW m \in Make, NEW j \in Job, Owner[j] = m, slot[j] # NoSlot,
         FreeChild(m, j), \/ pc[m] = "start" /\ j = cur[m]
                          \/ pc[m] = "reap" /\ state[j] = "child",
         NEW result \in {"done", "failed"}, state' = [state EXCEPT ![j] = result],
         NEW l \in {"started", "reap"}, Goto(m, l), UNCHANGED line,
         \A n \in Make \ {m} : cur'[n] = cur[n],
         \A i \in Job \ {j} : proc'[i] = proc[i]
  PROVE  SlotsKept' /\ Ended' /\ Rooted'
<1> USE TreeAssumption, SlotAssumption DEF Settled, Inv, TypeOK
<1>1. Active(m) /\ Active(m)' /\ pc'[m] # "start"
  BY DEF Active, Goto
<1>2. \A k \in Make \ {m} : pc'[k] = pc[k] /\ free'[k] = free[k] /\ Active(k)' = Active(k)
  BY DEF FreeChild, Goto, Active
<1>3. /\ \A i \in Job \ {j} : slot'[i] = slot[i] /\ state'[i] = state[i]
      /\ slot'[j] = NoSlot
      /\ pipe \subseteq pipe' /\ free[m] \subseteq free'[m]
      /\ slot[j] \in pipe' \/ slot[j] \in free'[m]
  BY DEF FreeChild
<1>4. SlotsKept'
  <2>1. ASSUME NEW s \in Slot
        PROVE  s \in pipe' \/ (\E k \in Make : s \in free'[k]) \/ \E i \in Job : slot'[i] = s
    <3>1. CASE s \in pipe
      BY <1>3, <3>1
    <3>2. ASSUME NEW k \in Make, s \in free[k] PROVE s \in free'[k]
      BY <1>2, <1>3, <3>2
    <3>3. ASSUME NEW i \in Job, slot[i] = s
          PROVE  slot'[i] = s \/ s \in pipe' \/ s \in free'[m]
      BY <1>3, <3>3
    <3> QED
      BY <3>1, <3>2, <3>3 DEF SlotsKept
  <2>2. ASSUME NEW i \in Job, slot'[i] # NoSlot
        PROVE  state'[i] = "child" \/ (pc'[Owner[i]] = "start" /\ cur'[Owner[i]] = i)
    <3>1. i # j /\ slot[i] # NoSlot /\ state'[i] = state[i]
      BY <1>3, <2>2
    <3>2. Owner[i] = m /\ pc[m] = "start" => cur[m] # i
      BY <3>1
    <3>3. CASE state[i] = "child"
      BY <3>1, <3>3
    <3>4. CASE pc[Owner[i]] = "start" /\ cur[Owner[i]] = i
      BY <1>2, <3>2, <3>4
    <3> QED
      BY <3>1, <3>3, <3>4 DEF SlotsKept
  <2> QED
    BY <2>1, <2>2 DEF SlotsKept
<1>5. Ended'
  <2>1. ASSUME NEW k \in Make, ~Active(k)'
        PROVE  Children(k)' = {} /\ (IF k = Root THEN free'[k] # {} ELSE free'[k] = {})
    <3>1. k # m /\ ~Active(k) /\ free'[k] = free[k]
      BY <1>1, <1>2, <2>1
    <3>2. Children(k)' = Children(k)
      BY <3>1 DEF Children
    <3> QED
      BY <3>1, <3>2 DEF Ended
  <2>2. ASSUME NEW i \in Job, Sub[i] # NoMake, Active(Sub[i])'
        PROVE  RunsMake(i)' /\ slot'[i] = NoSlot
    <3>1. Active(Sub[i])
      <4>1. PICK k \in Make : k = Sub[i]
        <5>1. Sub[i] # NoMake
          BY <2>2
        <5> HIDE DEF Settled, Inv, TypeOK
        <5> QED
          BY <5>1
      <4> QED
        BY <1>1, <1>2, <2>2, <4>1
    <3>2. RunsMake(i) /\ slot[i] = NoSlot
      BY <2>2, <3>1 DEF Ended
    <3> QED
      BY <1>3, <3>2 DEF RunsMake
  <2> QED
    BY <2>1, <2>2 DEF Ended
<1>6. Rooted'
  BY <1>1, <1>2, RootedKept
<1> QED
  BY <1>4, <1>5, <1>6

LEMMA SettledStep == Settled /\ [Next]_vars => SlotsKept' /\ Ended' /\ Rooted'
<1> SUFFICES ASSUME Settled, [Next]_vars PROVE SlotsKept' /\ Ended' /\ Rooted'
  OBVIOUS
<1> USE TreeAssumption, SlotAssumption DEF Settled, Inv, TypeOK
<1>1. ASSUME NEW m \in Make, \/ NewJob(m) \/ EndPass(m) \/ Finish(m) \/ SwjReap(m) \/ SwjReturn(m)
                             \/ Started(m) \/ ReadFails(m) \/ DieWait(m) \/ ReapReturn(m)
      PROVE  SlotsKept' /\ Ended' /\ Rooted'
  <2>1. UNCHANGED <<pipe, free, slot, state, line, proc>>
    BY <1>1 DEF NewJob, EndPass, Finish, SwjReap, SwjReturn, Started, ReadFails, DieWait, ReapReturn
  <2>2. PICK l \in PC \ {"unborn", "start", "exited"} : pc' = [pc EXCEPT ![m] = l]
    BY <1>1 DEF NewJob, EndPass, Finish, SwjReap, SwjReturn, Started, ReadFails, DieWait, ReapReturn,
                CallReap, Goto, PC, Calls
  <2>3. pc[m] \notin {"unborn", "exited", "start"}
    BY <1>1 DEF NewJob, EndPass, Finish, SwjReap, SwjReturn, Started, ReadFails, DieWait, ReapReturn
  <2>4. \A n \in Make \ {m} : cur'[n] = cur[n]
    BY <1>1 DEF NewJob, EndPass, Finish, SwjReap, SwjReturn, Started, ReadFails, DieWait, ReapReturn
  <2>5. \A n \in Make : Active(n)' = Active(n)
    BY <2>2, <2>3 DEF Active
  <2>6. SlotsKept'
    BY <2>1, <2>2, <2>3, <2>4 DEF SlotsKept
  <2>7. Ended'
    BY <2>1, <2>5 DEF Ended, Children, RunsMake
  <2> QED
    BY <2>5, <2>6, <2>7, RootedKept
<1>2. ASSUME NEW m \in Make, UseFreeSlot(m) \/ ReadToken(m)
      PROVE  SlotsKept' /\ Ended' /\ Rooted'
  <2>1. /\ UNCHANGED <<cur, state, line, proc>> /\ pc' = [pc EXCEPT ![m] = "start"]
        /\ pc[m] = "slots"
    BY <1>2 DEF UseFreeSlot, ReadToken, Goto
  <2>2. cur[m] \in Job /\ Owner[cur[m]] = m /\ state[cur[m]] = "todo"
    BY <2>1 DEF Owned, Pos
  <2>3. slot[cur[m]] = NoSlot
    BY <2>1, <2>2 DEF SlotsKept
  <2>4. PICK s \in Byte : slot' = [slot EXCEPT ![cur[m]] = s]
    BY <1>2, OwnType DEF UseFreeSlot, ReadToken
  <2>5. /\ pipe \ {s} \subseteq pipe'
        /\ free[m] \ {s} \subseteq free'[m]
        /\ \A n \in Make \ {m} : free'[n] = free[n]
    <3>1. CASE UseFreeSlot(m)
      BY <2>2, <2>4, <3>1 DEF UseFreeSlot
    <3>2. CASE ReadToken(m)
      BY <2>2, <2>4, <3>2 DEF ReadToken
    <3> QED
      BY <1>2, <3>1, <3>2
  <2>6. \A n \in Make : Active(n)' = Active(n)
    BY <2>1 DEF Active
  <2>7. SlotsKept'
    <3>1. ASSUME NEW t \in Slot
          PROVE  t \in pipe' \/ (\E k \in Make : t \in free'[k]) \/ \E i \in Job : slot'[i] = t
      <4>1. CASE t = s
        BY <2>2, <2>4, <4>1
      <4>2. CASE t # s
        BY <2>3, <2>4, <2>5, <4>2 DEF SlotsKept
      <4> QED
        BY <4>1, <4>2
    <3>2. ASSUME NEW i \in Job, slot'[i] # NoSlot
          PROVE  state'[i] = "child" \/ (pc'[Owner[i]] = "start" /\ cur'[Owner[i]] = i)
      BY <2>1, <2>2, <2>4, <3>2 DEF SlotsKept
    <3> QED
      BY <3>1, <3>2 DEF SlotsKept
  <2>8. Ended'
    <3>1. ASSUME NEW k \in Make, ~Active(k)'
          PROVE  Children(k)' = {} /\ (IF k = Root THEN free'[k] # {} ELSE free'[k] = {})
      <4>1. k # m /\ ~Active(k)
        BY <2>1, <2>6, <3>1 DEF Active
      <4> QED
        BY <2>1, <2>5, <4>1 DEF Ended, Children
    <3>2. ASSUME NEW i \in Job, Sub[i] # NoMake, Active(Sub[i])'
          PROVE  RunsMake(i)' /\ slot'[i] = NoSlot
      <4>1. RunsMake(i) /\ slot[i] = NoSlot
        BY <2>6, <3>2 DEF Ended
      <4>2. i # cur[m]
        BY <2>2, <4>1 DEF RunsMake, Occupied
      <4> QED
        BY <2>1, <2>4, <4>1, <4>2 DEF RunsMake
    <3> QED
      BY <3>1, <3>2 DEF Ended
  <2> QED
    BY <2>6, <2>7, <2>8, RootedKept
<1>3. ASSUME NEW m \in Make, StartNewJob(m)
      PROVE  SlotsKept' /\ Ended' /\ Rooted'
  <2> DEFINE j == cur[m]
  <2>1. /\ pc[m] = "start" /\ j \in Job /\ Owner[j] = m /\ slot[j] # NoSlot
        /\ StartWaitingJob(m, j, "started", "started")
        /\ state[j] = "todo" /\ proc[j] # "run"
    BY <1>3 DEF StartNewJob, Owned, Occupied, Pos
  <2>2. CASE Launch(m, j, "started")
    <3>1. Caller(m, j, "started")
      BY <1>3 DEF StartNewJob, Caller
    <3> QED
      BY <2>1, <2>2, <3>1, LaunchSettled
  <2>3. CASE /\ state' = [state EXCEPT ![j] = IF Lines[j] = 0 THEN "done" ELSE "failed"]
             /\ FreeChild(m, j) /\ Goto(m, "started") /\ UNCHANGED <<line, proc>>
    <3>1. \A n \in Make \ {m} : cur'[n] = cur[n]
      BY <1>3 DEF StartNewJob
    <3> QED
      BY <2>1, <2>3, <3>1, FreeChildSettled
  <2> HIDE DEF j
  <2> QED
    BY <2>1, <2>2, <2>3 DEF StartWaitingJob, FreeJobInv
<1>4. ASSUME NEW m \in Make, SwjStart(m) PROVE SlotsKept' /\ Ended' /\ Rooted'
  BY <1>4 DEF SwjStart, FreeJobInv, FreeJob
<1>5. ASSUME NEW m \in Make, NEW j \in Job,
             ReapNextLine(m, j) \/ ReapFinished(m, j) \/ ReapFailed(m, j)
      PROVE  SlotsKept' /\ Ended' /\ Rooted'
  <2>1. /\ Owner[j] = m /\ slot[j] # NoSlot /\ pc[m] = "reap" /\ state[j] = "child"
        /\ proc[j] # "run"
    BY <1>5 DEF ReapNextLine, ReapFinished, ReapFailed, Zombies, Children, Occupied, RunsMake
  <2>2. CASE ReapNextLine(m, j)
    BY <2>1, <2>2, LaunchSettled DEF ReapNextLine, Caller
  <2>3. CASE ReapFinished(m, j) \/ ReapFailed(m, j)
    <3>1. /\ FreeChild(m, j) /\ UNCHANGED <<cur, line>>
          /\ proc' = [proc EXCEPT ![j] = "none"]
      BY <2>3 DEF ReapFinished, ReapFailed, Remove
    <3>2. PICK r \in {"done", "failed"} : state' = [state EXCEPT ![j] = r]
      BY <2>3 DEF ReapFinished, ReapFailed, Remove
    <3>3. Goto(m, "reap")
      BY <2>1, <2>3 DEF ReapFinished, ReapFailed, Remove, Goto, SlotInv
    <3>4. (\A n \in Make \ {m} : cur'[n] = cur[n]) /\ UNCHANGED line
      BY <3>1
    <3>5. \A i \in Job \ {j} : proc'[i] = proc[i]
      BY <3>1
    <3>6. FreeChild(m, j)
      BY <3>1
    <3> QED
      BY <2>1, <3>2, <3>3, <3>4, <3>5, <3>6, FreeChildSettled
  <2> QED
    BY <1>5, <2>2, <2>3
<1>6. ASSUME NEW m \in Make, Exit(m) PROVE SlotsKept' /\ Ended' /\ Rooted'
  <2>1. /\ pc[m] = "die" /\ Children(m) = {} /\ pc' = [pc EXCEPT ![m] = "exited"]
        /\ free[m] # {} /\ UNCHANGED <<cur, pipe, state, line>>
    BY <1>6 DEF Exit, Goto, SlotInv, Entitled
  <2>2. \A n \in Make : Active(n)' => Active(n) /\ n # m
    BY <2>1 DEF Active
  <2>3. \A n \in Make \ {m} : ~Active(n)' => ~Active(n)
    BY <2>1 DEF Active
  <2>4. \A n \in Make : Children(n)' = Children(n)
    BY <2>1 DEF Children
  <2>5. CASE m = Root
    <3>1. UNCHANGED <<free, slot, proc>>
      BY <1>6, <2>5 DEF Exit
    <3>2. SlotsKept'
      BY <2>1, <3>1 DEF SlotsKept
    <3>3. Ended'
      BY <2>1, <2>2, <2>3, <2>4, <2>5, <3>1 DEF Ended, RunsMake
    <3> QED
      BY <2>2, <3>2, <3>3, RootedKept
  <2>6. CASE m # Root
    <3>1. PICK j \in Job, s \in free[m] :
            /\ Sub[j] = m
            /\ slot' = [slot EXCEPT ![j] = s]
            /\ free' = [free EXCEPT ![m] = @ \ {s}]
            /\ \A i \in Job \ {j} : proc'[i] = proc[i]
      BY <1>6, <2>1, <2>6 DEF Exit, Own
    <3>2. RunsMake(j) /\ slot[j] = NoSlot
      BY <2>1, <3>1 DEF Ended, Active
    <3>3. state[j] = "child"
      BY <3>2 DEF RunsMake, Occupied
    <3>4. free'[m] = {}
      BY <3>1 DEF FreeJobInv, FreeJob
    <3>5. SlotsKept'
      <4>1. ASSUME NEW t \in Slot
            PROVE  t \in pipe' \/ (\E k \in Make : t \in free'[k]) \/ \E i \in Job : slot'[i] = t
        <5>1. CASE t = s
          BY <3>1, <5>1
        <5>2. CASE t # s
          BY <2>1, <3>1, <3>2, <5>2 DEF SlotsKept
        <5> QED
          BY <5>1, <5>2
      <4>2. ASSUME NEW i \in Job, slot'[i] # NoSlot
            PROVE  state'[i] = "child" \/ (pc'[Owner[i]] = "start" /\ cur'[Owner[i]] = i)
        BY <2>1, <3>1, <3>3, <4>2 DEF SlotsKept
      <4> QED
        BY <4>1, <4>2 DEF SlotsKept
    <3>6. Ended'
      <4>1. ASSUME NEW k \in Make, ~Active(k)'
            PROVE  Children(k)' = {} /\ (IF k = Root THEN free'[k] # {} ELSE free'[k] = {})
        BY <2>1, <2>3, <2>4, <2>6, <3>1, <3>4, <4>1 DEF Ended
      <4>2. ASSUME NEW i \in Job, Sub[i] # NoMake, Active(Sub[i])'
            PROVE  RunsMake(i)' /\ slot'[i] = NoSlot
        <5>1. i # j /\ RunsMake(i) /\ slot[i] = NoSlot
          BY <2>2, <3>1, <4>2 DEF Ended
        <5> QED
          BY <2>1, <3>1, <5>1 DEF RunsMake
      <4> QED
        BY <4>1, <4>2 DEF Ended
    <3> QED
      BY <2>2, <3>5, <3>6, RootedKept
  <2> QED
    BY <2>5, <2>6
<1>7. ASSUME NEW j \in Job, CommandExits(j) PROVE SlotsKept' /\ Ended' /\ Rooted'
  <2>1. /\ UNCHANGED <<pc, cur, pipe, free, slot, state, line>>
        /\ \A i \in Job \ {j} : proc'[i] = proc[i]
        /\ ~RunsMake(j)
    BY <1>7 DEF CommandExits, Commands
  <2>2. \A n \in Make : Active(n)' = Active(n)
    BY <2>1 DEF Active
  <2>3. SlotsKept'
    BY <2>1 DEF SlotsKept
  <2>4. Ended'
    <3>1. \A i \in Job : RunsMake(i) => RunsMake(i)'
      BY <2>1 DEF RunsMake
    <3> QED
      BY <2>1, <2>2, <3>1 DEF Ended, Children
  <2> QED
    BY <2>2, <2>3, <2>4, RootedKept
<1>8. CASE (\E m \in Make : ChildHandler(m)) \/ UNCHANGED vars
  <2>1. UNCHANGED <<pc, cur, pipe, free, slot, state, line, proc>>
    BY <1>8 DEF ChildHandler, vars
  <2>2. \A n \in Make : Active(n)' = Active(n)
    BY <2>1 DEF Active
  <2> QED
    BY <2>1, <2>2, RootedKept DEF SlotsKept, Ended, Children, RunsMake
<1> QED
  BY <1>1, <1>2, <1>3, <1>4, <1>5, <1>6, <1>7, <1>8 DEF Next, MakeStep, Finished

\* When the top make has exited nothing runs, so no job has a slot.
LEMMA SettledReturns == Settled => TokensReturned
<1> SUFFICES ASSUME Settled, pc[Root] = "exited"
             PROVE  Cardinality(pipe) = Cardinality(Slot) - 1
  BY DEF TokensReturned
<1> USE TreeAssumption, SlotAssumption DEF Settled, Inv, TypeOK
<1>1. \A m \in Make : ~Active(m)
  <2> DEFINE X == {m \in Make : Active(m)}
  <2>1. X \in SUBSET (Make \ {Root})
    BY DEF Active
  <2>2. ASSUME X # {} PROVE FALSE
    <3>1. PICK j \in Job : Sub[j] \in X /\ Owner[j] \notin X
      BY <2>1, <2>2 DEF Rooted
    <3>2. state[j] = "child"
      BY <3>1 DEF Ended, RunsMake, Occupied
    <3>3. j \in Children(Owner[j]) /\ Owner[j] \in Make /\ ~Active(Owner[j])
      BY <3>1, <3>2 DEF Children
    <3> QED
      BY <3>3 DEF Ended
  <2> QED
    BY <2>2
<1>2. \A j \in Job : slot[j] = NoSlot
  <2> SUFFICES ASSUME NEW j \in Job, slot[j] # NoSlot PROVE FALSE
    OBVIOUS
  <2>1. Owner[j] \in Make /\ ~Active(Owner[j]) /\ Children(Owner[j]) = {}
    BY <1>1 DEF Ended
  <2>2. state[j] # "child"
    BY <2>1 DEF Children
  <2> QED
    BY <2>1, <2>2 DEF SlotsKept, Active
<1>3. PICK s \in Slot : free[Root] = {s}
  <2>1. free[Root] # {} /\ free[Root] \subseteq Slot
    BY <1>1 DEF Ended, SlotInv, SlotsApart
  <2>2. \A s, t \in free[Root] : s = t
    BY DEF FreeJobInv, FreeJob
  <2> QED
    BY <2>1, <2>2
<1>4. pipe = Slot \ {s}
  <2>1. \A t \in Slot : t \in pipe \/ t = s
    <3> TAKE t \in Slot
    <3>1. \A m \in Make \ {Root} : free[m] = {}
      BY <1>1 DEF Ended
    <3>2. \A j \in Job : slot[j] # t
      BY <1>2, SlotAssumption
    <3>3. t \in pipe \/ \E m \in Make : t \in free[m]
      BY <3>2 DEF SlotsKept
    <3> QED
      BY <1>3, <3>1, <3>3
  <2> QED
    BY <1>3, <2>1 DEF SlotInv, SlotsApart
<1>5. Cardinality(Slot \ {s}) = Cardinality(Slot) - 1
  BY FS_RemoveElement
<1> QED
  BY <1>4, <1>5

\* With -k and without -l every byte is back in the pipe when the top make exits,
\* whatever the tree of makes, whoever gets the pipe, and whichever commands and
\* forks fail.
THEOREM BytesReturn == KeepGoing /\ Spec => []TokensReturned
<1>1. KeepGoing /\ ~LoadLimit /\ Init => Settled
  <2> SUFFICES ASSUME KeepGoing, ~LoadLimit, Init PROVE Settled
    OBVIOUS
  <2> USE TreeAssumption, SlotAssumption DEF Init
  <2>1. Inv
    BY InitInv
  <2>2. SlotInv
    BY DEF SlotInv, SlotsApart, Entitled
  <2>3. FreeJobInv
    BY DEF FreeJobInv, FreeJob, Active, Waiting, Children
  <2>4. SlotsKept
    BY DEF SlotsKept
  <2>5. Ended
    BY DEF Ended, Active, Children
  <2>6. Rooted
    BY DEF Rooted, Active
  <2> QED
    BY <2>1, <2>2, <2>3, <2>4, <2>5, <2>6 DEF Settled
<1>2. Settled /\ [Next]_vars => Settled'
  BY NextInv, SlotStep, FreeJobStep, SettledStep DEF Settled
<1>3. LoadLimit /\ [Next]_vars => LoadLimit'
  BY UseKept DEF LoadLimit
<1>4. LoadLimit => TokensReturned
  BY DEF TokensReturned
<1> QED
  BY <1>1, <1>2, <1>3, <1>4, SettledReturns, PTL DEF Spec
==============================================================================
