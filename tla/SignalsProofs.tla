---------------------------- MODULE SignalsProofs ----------------------------
(***************************************************************************)
(* Theorems about Signals, for all sets of jobs, numbers of slots, options,  *)
(* failures, and points at which the signal comes.                          *)
(***************************************************************************)
EXTENDS Signals, FiniteSetTheorems, TLAPS

\* Where a context is in reap_children, and has a child in hand.
Reaping(x) == pc[x] \in {"reap", "got", "notice", "remove"}
InHand(x) == pc[x] \in {"got", "notice", "remove"}
Ended == {"ok", "fail", "sig"}

Place == {"off", "pending", "children", "killed", "walk", "slots", "chain",
          "reap", "got", "notice", "remove", "stop", "die", "exit", "exited"}
Places ==
  /\ pc \in [Ctx -> Place]
  /\ pc["main"] \in {"walk", "slots", "chain", "reap", "got", "notice", "remove",
                     "stop", "die", "exit", "exited"}
  /\ pc["handler"] \in {"off", "pending", "children", "reap", "got", "notice", "remove",
                        "die", "exit", "exited", "killed"}
Call == [block : BOOLEAN, err : BOOLEAN, to : {"walk", "slots", "die", "children"}]
Calls ==
  /\ call \in [Ctx -> Call]
  /\ call["main"].to # "children"
  /\ Reaping("handler") => call["handler"].to \in {"children", "die"}
Types ==
  /\ Places /\ Calls
  /\ opt \in Options
  /\ cur \in [Ctx -> [job : Job, status : Ended]]
  /\ new \in Job /\ chain \subseteq Job
  /\ dying \in BOOLEAN /\ blocked \in BOOLEAN /\ sig \in Sigs \cup {None}
  /\ state \in [Job -> {"not_started", "running", "done", "failed"}]
  /\ stale \in [Job -> BOOLEAN] /\ deleted \in [Job -> BOOLEAN]
  /\ line \in [Job -> Nat]
  /\ proc \in [Job -> {None, "run", "reaped"} \cup Ended]
  /\ target \in [Job -> {"old", "half", "made", "gone"}]
  /\ excused \subseteq Job

\* job_slots_used is the length of the chain.
Counted == used = Cardinality(chain)

\* Signals are blocked from vfork () until the child is on the chain.
Masked == /\ blocked <=> pc["main"] = "chain"
          /\ blocked => pc["handler"] = "off"

\* Every process is of a child on the chain, or about to be put there.
Forked(j) == pc["main"] = "chain" /\ j = new
Known == \A j \in Job : proc[j] \in {"run"} \cup Ended => j \in chain \/ Forked(j)

\* Of the children on the chain only those in hand have no process.
Chained ==
  \A j \in chain : /\ proc[j] # None
                   /\ proc[j] = "reaped" => \E x \in Ctx : InHand(x) /\ cur[x].job = j
Held == \A x \in Ctx : InHand(x) => cur[x].job \in chain /\ proc[cur[x].job] = "reaped"
Apart == InHand("main") /\ InHand("handler") => cur["main"].job # cur["handler"].job

\* What is not started has no child; new_job starts such a job.
Unstarted == \A j \in Job : state[j] = "not_started" => proc[j] = None /\ line[j] = 0 /\ j \notin chain
Chosen ==
  pc["main"] = "slots" \/ (Reaping("main") /\ call["main"].to = "slots")
    => state[new] = "not_started"
Starting ==
  pc["main"] = "chain" => new \notin chain /\ state[new] = "running" /\ proc[new] \notin {None, "reaped"}

\* No line runs after the last.
Numbered == \A j \in Job : line[j] <= Lines[j]

\* make has given up: with -k, only when it has no children; a handler that cannot
\* wait, only when there is nothing to wait for.
Quits(x) == pc[x] \in {"die", "exit", "exited"} \/ (Reaping(x) /\ call[x].to = "die")
Quitted ==
  /\ pc["main"] = "stop" => ~opt.k
  /\ opt.k /\ Quits("main") => chain = {} /\ ~Reaping("main")
  /\ pc["handler"] = "off" /\ dying => Quits("main")
  /\ Quits("handler") => Processes = {} /\ ~InHand("handler")
  /\ pc["handler"] = "killed" => chain = {}

\* Half made targets that make has done with are excused.
Whole(j) == target[j] = "half" => j \in excused
Cleaned ==
  /\ \A j \in Job : j \notin chain /\ ~Forked(j) => Whole(j)
  /\ \A x \in Ctx : pc[x] \in {"notice", "remove"} => Whole(cur[x].job)
  /\ \A j \in Job : deleted[j] => Whole(j)
  /\ \A j \in Job : proc[j] = "ok" /\ line[j] = Lines[j] => target[j] # "half"
  /\ \A x \in Ctx : pc[x] = "got" /\ cur[x].status = "ok" /\ line[cur[x].job] = Lines[cur[x].job]
       => target[cur[x].job] # "half"

\* A job that is done has left the chain, or is leaving it.
Leaving(j) == pc["main"] = "remove" /\ cur["main"].job = j
DoneOff == \A j \in Job : state[j] = "done" => proc[j] = "reaped" /\ (j \notin chain \/ Leaving(j))

\* The inductive invariant.
IInv == /\ Types /\ Counted /\ Masked /\ Known /\ Chained /\ Held /\ Apart
        /\ Unstarted /\ Chosen /\ Starting /\ Numbered /\ Quitted /\ Cleaned /\ DoneOff

LEMMA ChainSize ==
  ASSUME Types, Counted
  PROVE  /\ IsFiniteSet(chain) /\ used \in Nat /\ (used = 0 <=> chain = {})
         /\ \A j \in chain : Cardinality(chain \ {j}) = used - 1 /\ used > 0
         /\ \A j \in Job \ chain : Cardinality(chain \cup {j}) = used + 1
<1>1. IsFiniteSet(chain)
  BY JobAssumption, FS_Subset DEF Types
<1>2. used \in Nat /\ (used = 0 <=> chain = {})
  BY <1>1, FS_CardinalityType, FS_EmptySet DEF Counted
<1>3. \A j \in chain : Cardinality(chain \ {j}) = used - 1
  BY <1>1, FS_RemoveElement DEF Counted
<1>4. \A j \in Job \ chain : Cardinality(chain \cup {j}) = used + 1
  BY <1>1, FS_AddElement DEF Counted
<1> QED BY <1>1, <1>2, <1>3, <1>4

------------------------------------------------------------------------------
(* One lemma per action: IInv' has a step per part of the invariant, by the    *)
(* parts that the action can disturb and what it does.                       *)

LEMMA NewJobInv ==
  ASSUME IInv, NewJob
  PROVE  IInv'
<1> USE DEF IInv
<1>1. Types'
  <2>1. Places'
    BY DEF Types, Places, Place, Ctx, NewJob, CallReap, Goto
  <2>2. Calls'
    BY DEF Types, Calls, Call, Reaping, Ctx, NewJob, CallReap, Goto
  <2> QED BY <2>1, <2>2 DEF Types, NewJob, jobvars
<1>2. Counted'
  BY DEF Counted, NewJob
<1>3. Masked'
  BY DEF Masked, NewJob, At, AtBlock, CallReap, Goto
<1>4. Known'
  BY DEF Known, Forked, NewJob, At, AtBlock, jobvars
<1>5. Chained'
  BY DEF Chained, InHand, NewJob, At, AtBlock, CallReap, Goto, jobvars
<1>6. Held'
  BY DEF Held, InHand, NewJob, CallReap, Goto, jobvars
<1>7. Apart'
  BY DEF Apart, InHand, NewJob, CallReap, Goto
<1>8. Unstarted'
  BY DEF Unstarted, NewJob, jobvars
<1>9. Chosen'
  BY DEF Chosen, NewJob, jobvars
<1>10. Starting'
  BY DEF Starting, NewJob, At, AtBlock, CallReap, Goto
<1>11. Numbered'
  BY DEF Numbered, NewJob, jobvars
<1>12. Quitted'
  BY DEF Types, Calls, Quitted, Quits, Reaping, Ctx, NewJob, At, AtBlock, Active, CallReap, Goto
<1>13. Cleaned'
  BY DEF Cleaned, Whole, Forked, NewJob, At, AtBlock, CallReap, Goto, jobvars
<1>14. DoneOff'
  BY DEF DoneOff, Leaving, NewJob, At, AtBlock, jobvars
<1> QED BY <1>1, <1>2, <1>3, <1>4, <1>5, <1>6, <1>7, <1>8, <1>9, <1>10, <1>11, <1>12, <1>13, <1>14

LEMMA EndPassInv ==
  ASSUME IInv, EndPass
  PROVE  IInv'
<1> USE DEF IInv
<1>1. Types'
  <2>1. Places'
    BY DEF Types, Places, Place, Ctx, EndPass, CallReap, Goto, Die
  <2>2. Calls'
    <3>1. CASE chain # {}
      <4>1. /\ call' = [call EXCEPT !["main"] = [block |-> TRUE, err |-> FALSE, to |-> "walk"]]
            /\ pc' = [pc EXCEPT !["main"] = "reap"]
        BY <3>1 DEF EndPass, CallReap, Goto
      <4>2. [block |-> TRUE, err |-> FALSE, to |-> "walk"] \in Call
        BY DEF Call
      <4>3. /\ call' \in [Ctx -> Call] /\ call'["main"].to = "walk"
            /\ call'["handler"] = call["handler"] /\ pc'["handler"] = pc["handler"]
        BY <4>1, <4>2 DEF Types, Calls, Ctx
      <4> QED BY <4>3 DEF Types, Calls, Reaping
    <3>2. CASE chain = {}
      <4>1. call' = call /\ pc'["handler"] = pc["handler"]
        BY <3>2 DEF EndPass, Goto, Die, Types, Places, Ctx
      <4> QED BY <4>1 DEF Types, Calls, Reaping
    <3> QED BY <3>1, <3>2
  <2>3. dying' \in BOOLEAN /\ UNCHANGED <<cur, new, chain, used, blocked, sig, jobvars>>
    BY DEF EndPass, Die, Types
  <2> QED BY <2>1, <2>2, <2>3 DEF Types, jobvars
<1>2. Counted'
  BY DEF Counted, EndPass
<1>3. Masked'
  BY DEF Types, Places, Masked, EndPass, At, AtBlock, CallReap, Goto, Die
<1>4. Known'
  BY DEF Known, Forked, EndPass, At, AtBlock, jobvars
<1>5. Chained'
  BY DEF Chained, InHand, Ctx, EndPass, At, AtBlock, Active, jobvars
<1>6. Held'
  BY DEF Types, Places, Held, InHand, EndPass, CallReap, Goto, Die, jobvars
<1>7. Apart'
  BY DEF Types, Places, Apart, InHand, EndPass, CallReap, Goto, Die
<1>8. Unstarted'
  BY DEF Unstarted, EndPass, jobvars
<1>9. Chosen'
  BY DEF Types, Places, Calls, Chosen, Reaping, EndPass, CallReap, Goto, Die, jobvars
<1>10. Starting'
  BY DEF Types, Places, Starting, EndPass, CallReap, Goto, Die, jobvars
<1>11. Numbered'
  BY DEF Numbered, EndPass, jobvars
<1>12. Quitted'
  BY DEF Types, Places, Calls, Quitted, Quits, Reaping, Ctx, EndPass, At, AtBlock, Active,
     CallReap, Goto, Die
<1>13. Cleaned'
  BY DEF Types, Places, Cleaned, Whole, Forked, EndPass, At, AtBlock, CallReap, Goto, Die, jobvars
<1>14. DoneOff'
  BY DEF DoneOff, Leaving, EndPass, At, AtBlock, jobvars
<1> QED BY <1>1, <1>2, <1>3, <1>4, <1>5, <1>6, <1>7, <1>8, <1>9, <1>10, <1>11, <1>12, <1>13, <1>14

LEMMA GiveUpInv ==
  ASSUME IInv, GiveUp
  PROVE  IInv'
<1> USE DEF IInv
<1>1. Types'
  <2>1. Places'
    BY DEF Types, Places, Place, Ctx, GiveUp, Goto, Die
  <2>2. call' = call /\ pc'["handler"] = pc["handler"]
    BY DEF GiveUp, Goto, Die, Types, Places, Ctx
  <2>3. Calls'
    BY <2>2 DEF Types, Calls, Reaping
  <2>4. dying' \in BOOLEAN /\ UNCHANGED <<cur, new, chain, used, blocked, sig, jobvars>>
    BY DEF GiveUp, Die, Types
  <2> QED BY <2>1, <2>3, <2>4 DEF Types, jobvars
<1>2. Counted'
  BY DEF Counted, GiveUp
<1>3. Masked'
  BY DEF Types, Places, Masked, GiveUp, At, AtBlock, Goto, Die
<1>4. Known'
  BY DEF Known, Forked, GiveUp, At, AtBlock, jobvars
<1>5. Chained'
  BY DEF Chained, InHand, Ctx, GiveUp, At, AtBlock, Active, jobvars
<1>6. Held'
  BY DEF Types, Places, Held, InHand, GiveUp, Goto, Die, jobvars
<1>7. Apart'
  BY DEF Types, Places, Apart, InHand, GiveUp, Goto, Die
<1>8. Unstarted'
  BY DEF Unstarted, GiveUp, jobvars
<1>9. Chosen'
  BY DEF Types, Places, Calls, Chosen, Reaping, GiveUp, Goto, Die, jobvars
<1>10. Starting'
  BY DEF Types, Places, Starting, GiveUp, Goto, Die, jobvars
<1>11. Numbered'
  BY DEF Numbered, GiveUp, jobvars
<1>12. Quitted'
  BY DEF Types, Places, Calls, Quitted, Quits, Reaping, Ctx, GiveUp, At, AtBlock,
     Active, Goto, Die, jobvars
<1>13. Cleaned'
  BY DEF Types, Places, Cleaned, Whole, Forked, GiveUp, At, AtBlock, Goto, Die, jobvars
<1>14. DoneOff'
  BY DEF DoneOff, Leaving, GiveUp, At, AtBlock, jobvars
<1> QED BY <1>1, <1>2, <1>3, <1>4, <1>5, <1>6, <1>7, <1>8, <1>9, <1>10, <1>11, <1>12, <1>13, <1>14

LEMMA WaitForSlotInv ==
  ASSUME IInv, WaitForSlot
  PROVE  IInv'
<1> USE DEF IInv
<1>1. Types'
  <2>1. Places'
    BY DEF Types, Places, Place, Ctx, WaitForSlot, CallReap, Goto
  <2>2. Calls'
    BY DEF Types, Calls, Call, Reaping, Ctx, WaitForSlot, CallReap, Goto
  <2> QED BY <2>1, <2>2 DEF Types, WaitForSlot, jobvars
<1>2. Counted'
  BY DEF Counted, WaitForSlot
<1>3. Masked'
  BY DEF Masked, WaitForSlot, At, AtBlock, CallReap, Goto
<1>4. Known'
  BY DEF Known, Forked, WaitForSlot, At, AtBlock, jobvars
<1>5. Chained'
  BY DEF Chained, InHand, WaitForSlot, At, AtBlock, CallReap, Goto, jobvars
<1>6. Held'
  BY DEF Held, InHand, WaitForSlot, CallReap, Goto, jobvars
<1>7. Apart'
  BY DEF Apart, InHand, WaitForSlot, CallReap, Goto
<1>8. Unstarted'
  BY DEF Unstarted, WaitForSlot, jobvars
<1>9. Chosen'
  BY DEF Chosen, WaitForSlot, At, AtBlock, jobvars
<1>10. Starting'
  BY DEF Starting, WaitForSlot, CallReap, Goto, jobvars
<1>11. Numbered'
  BY DEF Numbered, WaitForSlot, jobvars
<1>12. Quitted'
  BY DEF Types, Calls, Quitted, Quits, Reaping, Ctx, WaitForSlot, At, AtBlock, Active,
     CallReap, Goto
<1>13. Cleaned'
  BY DEF Cleaned, Whole, Forked, WaitForSlot, At, AtBlock, CallReap, Goto, jobvars
<1>14. DoneOff'
  BY DEF DoneOff, Leaving, WaitForSlot, At, AtBlock, jobvars
<1> QED BY <1>1, <1>2, <1>3, <1>4, <1>5, <1>6, <1>7, <1>8, <1>9, <1>10, <1>11, <1>12, <1>13, <1>14

LEMMA ForkInv ==
  ASSUME IInv, Fork
  PROVE  IInv'
<1> USE DEF IInv
<1>1. Types'
  <2>1. Places'
    BY DEF Types, Places, Place, Ctx, Fork, Goto
  <2>2. Calls'
    BY DEF Types, Calls, Reaping, Fork, Goto
  <2> QED BY <2>1, <2>2 DEF Types, Fork, Launch
<1>2. Counted'
  BY DEF Counted, Fork
<1>3. Masked'
  BY DEF Types, Places, Masked, Ctx, Fork, AtBlock, Active, Goto
<1>4. Known'
  BY DEF Types, Places, Known, Forked, Ctx, Fork, Launch, Goto
<1>5. Chained'
  BY DEF None, Chained, InHand, Fork, AtBlock, Launch, Goto
<1>6. Held'
  BY DEF Held, InHand, Ctx, Fork, AtBlock, Active, Goto
<1>7. Apart'
  BY DEF Apart, InHand, Fork, Goto
<1>8. Unstarted'
  BY DEF Types, Unstarted, Fork, Launch
<1>9. Chosen'
  BY DEF Types, Places, Chosen, Reaping, Ctx, Fork, Goto
<1>10. Starting'
  BY DEF Types, None, Starting, Chosen, Unstarted, Fork, AtBlock, Launch
<1>11. Numbered'
  <2>1. new \in Job /\ line[new] = 0 /\ line' = [line EXCEPT ![new] = line[new] + 1]
    BY DEF Fork, AtBlock, Launch, Chosen, Unstarted, Types
  <2>2. Lines[new] \in Nat /\ Lines[new] >= 1
    BY <2>1, JobAssumption
  <2>3. line' = [line EXCEPT ![new] = 1]
    BY <2>1
  <2> QED BY <2>1, <2>2, <2>3 DEF Numbered
<1>12. Quitted'
  BY DEF Quitted, Quits, Reaping, Fork, AtBlock, Active, Goto
<1>13. Cleaned'
  BY DEF Types, Cleaned, Whole, Forked, Ctx, Fork, AtBlock, Active, Launch, Goto
<1>14. DoneOff'
  BY DEF Types, DoneOff, Leaving, Fork, AtBlock, Launch
<1> QED BY <1>1, <1>2, <1>3, <1>4, <1>5, <1>6, <1>7, <1>8, <1>9, <1>10, <1>11, <1>12, <1>13, <1>14

LEMMA OnChainInv ==
  ASSUME IInv, OnChain
  PROVE  IInv'
<1> USE DEF IInv
<1>1. Types'
  <2>1. Places'
    BY DEF Types, Places, Place, Ctx, OnChain, Goto
  <2>2. Calls'
    BY DEF Types, Calls, Reaping, OnChain, Goto
  <2> QED BY <2>1, <2>2 DEF Types, OnChain, jobvars
<1>2. Counted'
  <2>1. new \in Job \ chain /\ chain' = chain \cup {new} /\ used' = used + 1
    BY DEF OnChain, At, AtBlock, Starting, Types
  <2> QED BY <2>1, ChainSize DEF Counted
<1>3. Masked'
  BY DEF Types, Places, Masked, Ctx, OnChain, Goto
<1>4. Known'
  BY DEF Known, Forked, OnChain, jobvars
<1>5. Chained'
  BY DEF Chained, Starting, InHand, OnChain, At, AtBlock, Goto, jobvars
<1>6. Held'
  BY DEF Held, InHand, OnChain, Goto, jobvars
<1>7. Apart'
  BY DEF Apart, InHand, OnChain, Goto
<1>8. Unstarted'
  BY DEF Unstarted, Starting, OnChain, At, AtBlock, jobvars
<1>9. Chosen'
  BY DEF Chosen, Reaping, OnChain, Goto, jobvars
<1>10. Starting'
  BY DEF Types, Places, Starting, Ctx, OnChain, Goto
<1>11. Numbered'
  BY DEF Numbered, OnChain, jobvars
<1>12. Quitted'
  BY DEF Quitted, Quits, Reaping, OnChain, At, AtBlock, Active, Goto
<1>13. Cleaned'
  BY DEF Cleaned, Whole, Forked, OnChain, Goto, jobvars
<1>14. DoneOff'
  BY DEF DoneOff, Leaving, Starting, OnChain, At, AtBlock, jobvars
<1> QED BY <1>1, <1>2, <1>3, <1>4, <1>5, <1>6, <1>7, <1>8, <1>9, <1>10, <1>11, <1>12, <1>13, <1>14

LEMMA ForkFailedInv ==
  ASSUME IInv, ForkFailed
  PROVE  IInv'
<1> USE DEF IInv
<1>1. Types'
  <2>1. Places'
    BY DEF Types, Places, Place, Ctx, ForkFailed, Goto
  <2>2. Calls'
    BY DEF Types, Calls, Reaping, ForkFailed, Goto
  <2> QED BY <2>1, <2>2 DEF Types, ForkFailed
<1>2. Counted'
  BY DEF Counted, ForkFailed
<1>3. Masked'
  BY DEF Masked, ForkFailed, At, AtBlock, Goto
<1>4. Known'
  BY DEF Known, Forked, ForkFailed, At, AtBlock
<1>5. Chained'
  BY DEF Chained, InHand, ForkFailed, At, AtBlock, Goto
<1>6. Held'
  BY DEF Held, InHand, ForkFailed, Goto
<1>7. Apart'
  BY DEF Apart, InHand, ForkFailed, Goto
<1>8. Unstarted'
  BY DEF Unstarted, ForkFailed
<1>9. Chosen'
  BY DEF Types, Places, Chosen, Reaping, Ctx, ForkFailed, Goto
<1>10. Starting'
  BY DEF Starting, ForkFailed, At, AtBlock, Goto
<1>11. Numbered'
  BY DEF Numbered, ForkFailed
<1>12. Quitted'
  BY DEF Quitted, Quits, Reaping, ForkFailed, At, AtBlock, Active, Goto
<1>13. Cleaned'
  BY DEF Cleaned, Whole, Forked, ForkFailed, At, AtBlock, Goto
<1>14. DoneOff'
  BY DEF DoneOff, Leaving, ForkFailed, At, AtBlock
<1> QED BY <1>1, <1>2, <1>3, <1>4, <1>5, <1>6, <1>7, <1>8, <1>9, <1>10, <1>11, <1>12, <1>13, <1>14

LEMMA ReapReturnInv ==
  ASSUME IInv, NEW x \in Ctx, ReapReturn(x)
  PROVE  IInv'
<1> USE DEF IInv
<1>1. Types'
  <2>1. Places'
    BY DEF Types, Places, Place, Calls, Call, Reaping, ReapReturn, At, AtBlock, Goto
  <2>2. Calls'
    BY DEF Types, Calls, Reaping, ReapReturn, At, AtBlock, Goto
  <2> QED BY <2>1, <2>2 DEF Types, ReapReturn, jobvars
<1>2. Counted'
  BY DEF Counted, ReapReturn
<1>3. Masked'
  BY DEF Types, Calls, Call, Masked, ReapReturn, At, AtBlock, Goto
<1>4. Known'
  BY DEF Known, Forked, ReapReturn, At, AtBlock, Goto, jobvars
<1>5. Chained'
  BY DEF Chained, InHand, ReapReturn, At, AtBlock, Goto, jobvars
<1>6. Held'
  BY DEF Types, Calls, Call, Held, InHand, ReapReturn, Goto, jobvars
<1>7. Apart'
  BY DEF Types, Calls, Call, Apart, InHand, ReapReturn, Goto
<1>8. Unstarted'
  BY DEF Unstarted, ReapReturn, jobvars
<1>9. Chosen'
  BY DEF Chosen, Reaping, ReapReturn, At, AtBlock, Goto, jobvars
<1>10. Starting'
  BY DEF Types, Calls, Call, Starting, ReapReturn, Goto, jobvars
<1>11. Numbered'
  BY DEF Numbered, ReapReturn, jobvars
<1>12. Quitted'
  BY DEF Types, Calls, Call, Quitted, Quits, Reaping, InHand, Processes, ReapReturn, At,
     AtBlock, Goto, jobvars
<1>13. Cleaned'
  BY DEF Types, Calls, Call, Cleaned, Whole, Forked, ReapReturn, At, AtBlock, Goto, jobvars
<1>14. DoneOff'
  BY DEF DoneOff, Leaving, ReapReturn, At, AtBlock, Goto, jobvars
<1> QED BY <1>1, <1>2, <1>3, <1>4, <1>5, <1>6, <1>7, <1>8, <1>9, <1>10, <1>11, <1>12, <1>13, <1>14

LEMMA WaitInv ==
  ASSUME IInv, NEW x \in Ctx, Wait(x)
  PROVE  IInv'
<1> USE DEF IInv
<1>1. Types'
  <2>1. Places'
    BY DEF Types, Places, Place, Wait, Goto
  <2>2. Calls'
    BY DEF Types, Calls, Reaping, Wait, At, AtBlock, Goto
  <2> QED BY <2>1, <2>2 DEF Types, Ended, Wait, Zombies
<1>2. Counted'
  BY DEF Counted, Wait
<1>3. Masked'
  BY DEF Masked, Wait, At, AtBlock, Goto
<1>4. Known'
  BY DEF Known, Forked, Ended, Wait, At, AtBlock, Goto
<1>5. Chained'
  BY DEF Types, Places, None, Chained, InHand, Wait, At, AtBlock, Goto
<1>6. Held'
  <2>1. PICK j \in Zombies : /\ cur' = [cur EXCEPT ![x] = [job |-> j, status |-> proc[j]]]
                           /\ proc' = [proc EXCEPT ![j] = "reaped"]
    BY DEF Wait
  <2>2. pc' = [pc EXCEPT ![x] = "got"] /\ chain' = chain /\ pc["main"] # "chain"
    BY DEF Wait, At, AtBlock, Goto, Masked, Ctx
  <2>3. j \in chain /\ j \in Job
    BY <2>1, <2>2 DEF Zombies, Known, Forked, Ended
  <2>4. ASSUME NEW y \in Ctx, InHand(y)' PROVE cur'[y].job \in chain /\ proc'[cur'[y].job] = "reaped"
    <3>1. CASE y = x
      BY <3>1, <2>1, <2>3 DEF Types
    <3>2. CASE y # x
      <4>1. InHand(y) /\ cur'[y] = cur[y]
        BY <3>2, <2>4, <2>1, <2>2 DEF InHand
      <4> QED BY <4>1, <2>1, <2>3 DEF Held
    <3> QED BY <3>1, <3>2
  <2> QED BY <2>2, <2>4 DEF Held
<1>7. Apart'
  BY DEF Types, Apart, InHand, Held, Ctx, Wait, Goto, Zombies
<1>8. Unstarted'
  BY DEF None, Unstarted, Wait, Zombies
<1>9. Chosen'
  BY DEF Chosen, Reaping, Wait, At, AtBlock, Goto
<1>10. Starting'
  BY DEF Starting, Masked, Ctx, Wait, At, AtBlock, Goto
<1>11. Numbered'
  BY DEF Numbered, Wait
<1>12. Quitted'
  BY DEF Quitted, Quits, Reaping, Processes, Wait, At, AtBlock, Goto, Zombies
<1>13. Cleaned'
  BY DEF Types, Cleaned, Whole, Forked, Wait, At, AtBlock, Goto, Zombies
<1>14. DoneOff'
  BY DEF DoneOff, Leaving, Wait, At, AtBlock, Goto
<1> QED BY <1>1, <1>2, <1>3, <1>4, <1>5, <1>6, <1>7, <1>8, <1>9, <1>10, <1>11, <1>12, <1>13, <1>14

LEMMA WaitFailsInv ==
  ASSUME IInv, NEW x \in Ctx, WaitFails(x)
  PROVE  IInv'
<1> USE DEF IInv
<1>1. Types'
  <2>1. Places'
    BY DEF Types, Places, Place, WaitFails, Goto, Die
  <2>2. Calls'
    BY DEF Types, Calls, Reaping, WaitFails, Goto, Die
  <2> QED BY <2>1, <2>2 DEF Types, WaitFails, Die, jobvars
<1>2. Counted'
  BY DEF Counted, WaitFails
<1>3. Masked'
  BY DEF Masked, WaitFails, At, AtBlock, Goto, Die
<1>4. Known'
  BY DEF Known, Forked, WaitFails, At, AtBlock, Goto, Die, jobvars
<1>5. Chained'
  BY DEF Chained, InHand, WaitFails, At, AtBlock, Goto, Die, jobvars
<1>6. Held'
  BY DEF Held, InHand, WaitFails, Goto, Die, jobvars
<1>7. Apart'
  BY DEF Apart, InHand, WaitFails, Goto, Die
<1>8. Unstarted'
  BY DEF Unstarted, WaitFails, jobvars
<1>9. Chosen'
  BY DEF Chosen, Reaping, WaitFails, Goto, Die, jobvars
<1>10. Starting'
  BY DEF Starting, WaitFails, Goto, Die, jobvars
<1>11. Numbered'
  BY DEF Numbered, WaitFails, jobvars
<1>12. Quitted'
  <2>1. PICK j \in chain : TRUE
    BY DEF WaitFails
  <2>2. proc[j] = "reaped"
    BY <2>1 DEF WaitFails, Chained, Types, Processes, Ended
  <2>3. \E y \in Ctx : InHand(y)
    BY <2>2 DEF Chained
  <2>4. x = "handler"
    BY <2>3 DEF WaitFails, At, AtBlock, Active, InHand, Ctx
  <2>5. /\ pc'["main"] = pc["main"] /\ pc["handler"] = "reap" /\ pc'["handler"] \in {"die", "exit"}
        /\ UNCHANGED <<call, chain, opt, proc>> /\ Processes = {}
    BY <2>4 DEF WaitFails, At, AtBlock, Die, Goto, Types, Places, jobvars
  <2> QED BY <2>5 DEF Quitted, Quits, Reaping, InHand, Processes
<1>13. Cleaned'
  BY DEF Cleaned, Whole, Forked, WaitFails, At, AtBlock, Goto, Die, jobvars
<1>14. DoneOff'
  BY DEF DoneOff, Leaving, WaitFails, At, AtBlock, Goto, Die, jobvars
<1> QED BY <1>1, <1>2, <1>3, <1>4, <1>5, <1>6, <1>7, <1>8, <1>9, <1>10, <1>11, <1>12, <1>13, <1>14

LEMMA GotNextLineInv ==
  ASSUME IInv, NEW x \in Ctx, GotNextLine(x)
  PROVE  IInv'
<1> USE DEF IInv
<1>1. Types'
  <2>1. Places'
    BY DEF Types, Places, Place, GotNextLine, Goto
  <2>2. Calls'
    BY DEF Types, Calls, Reaping, GotNextLine, AtBlock, Goto
  <2> QED BY <2>1, <2>2 DEF Types, GotNextLine, Launch
<1>2. Counted'
  BY DEF Counted, GotNextLine
<1>3. Masked'
  BY DEF Masked, GotNextLine, AtBlock, Goto
<1>4. Known'
  <2>1. cur[x].job \in chain
    BY DEF GotNextLine, AtBlock, Held, InHand
  <2> QED BY <2>1 DEF Known, Forked, GotNextLine, AtBlock, Goto, Launch
<1>5. Chained'
  BY DEF Types, None, Chained, InHand, GotNextLine, Goto, Launch
<1>6. Held'
  BY DEF Types, Places, Held, InHand, Ctx, GotNextLine, AtBlock, Goto, handling_fatal_signal
<1>7. Apart'
  BY DEF Apart, InHand, GotNextLine, Goto
<1>8. Unstarted'
  BY DEF Unstarted, Held, InHand, GotNextLine, AtBlock, Launch
<1>9. Chosen'
  BY DEF Chosen, Reaping, GotNextLine, AtBlock, Goto
<1>10. Starting'
  BY DEF Starting, Ctx, GotNextLine, AtBlock, Goto, handling_fatal_signal
<1>11. Numbered'
  <2>1. cur[x].job \in Job /\ line[cur[x].job] < Lines[cur[x].job] /\ line' = [line EXCEPT ![cur[x].job] = @ + 1]
    BY DEF Types, GotNextLine, Launch
  <2>2. \A j \in Job : line[j] \in Nat /\ Lines[j] \in Nat
    BY JobAssumption DEF Types
  <2> QED BY <2>1, <2>2 DEF Numbered
<1>12. Quitted'
  BY DEF Quitted, Quits, Reaping, GotNextLine, AtBlock, Goto, handling_fatal_signal
<1>13. Cleaned'
  BY DEF Types, Places, Cleaned, Whole, Forked, Ctx, GotNextLine, AtBlock, Goto, Launch,
     handling_fatal_signal
<1>14. DoneOff'
  BY DEF DoneOff, Leaving, InHand, Held, Ctx, GotNextLine, AtBlock, Launch, handling_fatal_signal
<1> QED BY <1>1, <1>2, <1>3, <1>4, <1>5, <1>6, <1>7, <1>8, <1>9, <1>10, <1>11, <1>12, <1>13, <1>14

LEMMA GotFailedInv ==
  ASSUME IInv, NEW x \in Ctx, GotFailed(x)
  PROVE  IInv'
<1> USE DEF IInv
<1>1. Types'
  <2>1. Places'
    BY DEF Types, Places, Place, GotFailed, Goto
  <2>2. Calls'
    BY DEF Types, Calls, Reaping, GotFailed, At, AtBlock, Goto
  <2>3. PICK j \in Job : j = cur[x].job
    BY DEF Types
  <2>4. state' = [state EXCEPT ![j] = "failed"] /\ stale' \in [Job -> BOOLEAN]
    BY <2>3 DEF GotFailed, Types
  <2>5. \/ DeleteTargets({j}, stale') /\ excused' = excused
        \/ excused' = excused \cup {j} /\ UNCHANGED <<deleted, target>>
    BY <2>3 DEF GotFailed
  <2>6. target' \in [Job -> {"old", "half", "made", "gone"}] /\ deleted' \in [Job -> BOOLEAN] /\ excused' \subseteq Job
    BY <2>5 DEF DeleteTargets, Types
  <2>7. UNCHANGED <<opt, call, cur, new, chain, used, dying, blocked, sig, line, proc>>
    BY DEF GotFailed
  <2> QED BY <2>1, <2>2, <2>4, <2>6, <2>7 DEF Types
<1>2. Counted'
  BY DEF Counted, GotFailed
<1>3. Masked'
  BY DEF Masked, GotFailed, At, AtBlock, Goto
<1>4. Known'
  BY DEF Known, Forked, GotFailed, At, AtBlock, Goto
<1>5. Chained'
  BY DEF Chained, InHand, GotFailed, Goto
<1>6. Held'
  BY DEF Held, InHand, GotFailed, At, AtBlock, Goto
<1>7. Apart'
  BY DEF Apart, InHand, GotFailed, At, AtBlock, Goto
<1>8. Unstarted'
  BY DEF Unstarted, GotFailed
<1>9. Chosen'
  BY DEF Types, Chosen, Held, Unstarted, InHand, Reaping, GotFailed, At, AtBlock, Goto
<1>10. Starting'
  BY DEF Starting, Masked, Ctx, GotFailed, At, AtBlock, Goto
<1>11. Numbered'
  BY DEF Numbered, GotFailed
<1>12. Quitted'
  BY DEF Quitted, Quits, Reaping, InHand, GotFailed, At, AtBlock, Active, Goto
<1>13. Cleaned'
  BY DEF Types, Cleaned, Whole, Forked, GotFailed, At, AtBlock, Goto, DeleteTargets
<1>14. DoneOff'
  BY DEF DoneOff, Leaving, GotFailed, At, AtBlock, Goto
<1> QED BY <1>1, <1>2, <1>3, <1>4, <1>5, <1>6, <1>7, <1>8, <1>9, <1>10, <1>11, <1>12, <1>13, <1>14

LEMMA GotDoneInv ==
  ASSUME IInv, NEW x \in Ctx, GotDone(x)
  PROVE  IInv'
<1> USE DEF IInv
<1>1. Types'
  <2>1. Places'
    BY DEF Types, Places, Place, GotDone, Goto
  <2>2. Calls'
    BY DEF Types, Calls, Reaping, GotDone, At, AtBlock, Goto
  <2> QED BY <2>1, <2>2 DEF Types, GotDone, jobvars
<1>2. Counted'
  BY DEF Counted, GotDone
<1>3. Masked'
  BY DEF Masked, GotDone, At, AtBlock, Goto
<1>4. Known'
  BY DEF Known, Forked, GotDone, At, AtBlock, Goto, jobvars
<1>5. Chained'
  BY DEF Chained, InHand, GotDone, Goto, jobvars
<1>6. Held'
  BY DEF Held, InHand, GotDone, At, AtBlock, Goto, jobvars
<1>7. Apart'
  BY DEF Apart, InHand, GotDone, At, AtBlock, Goto
<1>8. Unstarted'
  BY DEF Unstarted, GotDone, jobvars
<1>9. Chosen'
  BY DEF Chosen, Reaping, GotDone, At, AtBlock, Goto, jobvars
<1>10. Starting'
  BY DEF Starting, GotDone, Goto, jobvars
<1>11. Numbered'
  BY DEF Numbered, GotDone, jobvars
<1>12. Quitted'
  BY DEF Quitted, Quits, Reaping, InHand, GotDone, At, AtBlock, Active, Goto, jobvars
<1>13. Cleaned'
  BY DEF Cleaned, Whole, Forked, GotDone, At, AtBlock, Goto, jobvars
<1>14. DoneOff'
  BY DEF DoneOff, Leaving, GotDone, At, AtBlock, Goto, jobvars
<1> QED BY <1>1, <1>2, <1>3, <1>4, <1>5, <1>6, <1>7, <1>8, <1>9, <1>10, <1>11, <1>12, <1>13, <1>14

LEMMA NoticeInv ==
  ASSUME IInv, NEW x \in Ctx, Notice(x)
  PROVE  IInv'
<1> USE DEF IInv
<1>1. Types'
  <2>1. Places'
    BY DEF Types, Places, Place, Notice, Goto
  <2>2. Calls'
    BY DEF Types, Calls, Reaping, Notice, At, AtBlock, Goto
  <2>3. PICK j \in Job : j = cur[x].job
    BY DEF Types
  <2>4. UNCHANGED <<state, stale>> \/ \E s \in {"done", "failed"} : /\ state' = [state EXCEPT ![j] = s]
                                                                /\ stale' = [stale EXCEPT ![j] = TRUE]
    BY <2>3 DEF Notice
  <2>5. state' \in [Job -> {"not_started", "running", "done", "failed"}] /\ stale' \in [Job -> BOOLEAN]
    BY <2>4 DEF Types
  <2>6. UNCHANGED <<opt, call, cur, new, chain, used, dying, blocked, sig, deleted, line, proc, target, excused>>
    BY DEF Notice
  <2> QED BY <2>1, <2>2, <2>5, <2>6 DEF Types
<1>2. Counted'
  BY DEF Counted, Notice
<1>3. Masked'
  BY DEF Masked, Notice, At, AtBlock, Goto
<1>4. Known'
  BY DEF Known, Forked, Notice, At, AtBlock, Goto
<1>5. Chained'
  BY DEF Chained, InHand, Notice, Goto
<1>6. Held'
  BY DEF Held, InHand, Notice, At, AtBlock, Goto
<1>7. Apart'
  BY DEF Apart, InHand, Notice, At, AtBlock, Goto
<1>8. Unstarted'
  BY DEF Types, Unstarted, Notice
<1>9. Chosen'
  BY DEF Types, Chosen, Held, Unstarted, InHand, Reaping, Notice, At, AtBlock, Goto
<1>10. Starting'
  BY DEF Starting, Ctx, Notice, At, AtBlock, Goto, handling_fatal_signal
<1>11. Numbered'
  BY DEF Numbered, Notice
<1>12. Quitted'
  BY DEF Quitted, Quits, Reaping, InHand, Notice, At, AtBlock, Active, Goto
<1>13. Cleaned'
  BY DEF Cleaned, Whole, Forked, Notice, At, AtBlock, Goto
<1>14. DoneOff'
  BY DEF Types, Places, DoneOff, Leaving, InHand, Held, Ctx, Notice, At, AtBlock, Goto,
     handling_fatal_signal
<1> QED BY <1>1, <1>2, <1>3, <1>4, <1>5, <1>6, <1>7, <1>8, <1>9, <1>10, <1>11, <1>12, <1>13, <1>14

LEMMA RemoveInv ==
  ASSUME IInv, NEW x \in Ctx, Remove(x)
  PROVE  IInv'
<1> USE DEF IInv
<1>1. Types'
  <2>1. Places'
    BY DEF Types, Places, Place, Ctx, Remove, Goto, Die
  <2>2. call[x] \in Call /\ call' = [call EXCEPT ![x] = [call[x] EXCEPT !.block = FALSE]]
    BY DEF Remove, Types, Calls
  <2>3. [call[x] EXCEPT !.block = FALSE] \in Call /\ [call[x] EXCEPT !.block = FALSE].to = call[x].to
    BY <2>2 DEF Call
  <2>4. call' \in [Ctx -> Call] /\ \A y \in Ctx : call'[y].to = call[y].to
    BY <2>2, <2>3 DEF Types, Calls
  <2>5. Reaping("handler")' => Reaping("handler")
    BY DEF Remove, AtBlock, Goto, Die, Types, Places, Ctx, Reaping
  <2>6. Calls'
    BY <2>4, <2>5 DEF Calls, Types, Ctx
  <2>7. /\ dying' \in BOOLEAN /\ chain' \subseteq Job
        /\ UNCHANGED <<cur, new, blocked, sig, jobvars>>
    BY DEF Remove, Die, Types
  <2> QED BY <2>1, <2>6, <2>7 DEF Types, jobvars
<1>2. Counted'
  <2>1. cur[x].job \in chain /\ chain' = chain \ {cur[x].job} /\ used' = IF used > 0 THEN used - 1 ELSE used
    BY DEF Remove, AtBlock, Held, InHand
  <2> QED BY <2>1, ChainSize DEF Counted
<1>3. Masked'
  BY DEF Types, Places, Masked, Ctx, Remove, AtBlock, Goto, Die
<1>4. Known'
  <2>1. proc[cur[x].job] = "reaped" /\ proc' = proc /\ chain' = chain \ {cur[x].job} /\ new' = new
    BY DEF Remove, AtBlock, Held, InHand, jobvars
  <2>2. pc["main"] = "chain" <=> pc'["main"] = "chain"
    BY DEF Remove, AtBlock, Goto, Die, Types, Places, Ctx
  <2> QED BY <2>1, <2>2 DEF Known, Forked, Ended
<1>5. Chained'
  BY DEF Types, Places, Chained, InHand, Remove, Goto, Die, jobvars
<1>6. Held'
  <2>1. ASSUME NEW y \in Ctx, InHand(y)' PROVE y # x /\ InHand(y) /\ cur[y].job # cur[x].job
    BY <2>1 DEF Remove, AtBlock, Goto, Die, Types, Places, Ctx, InHand, Apart
  <2> QED BY <2>1 DEF Held, Remove, jobvars
<1>7. Apart'
  BY DEF Types, Places, Apart, InHand, Ctx, Remove, Goto, Die
<1>8. Unstarted'
  BY DEF Unstarted, Remove, jobvars
<1>9. Chosen'
  BY DEF Types, Places, Chosen, Reaping, Ctx, Remove, AtBlock, Goto, Die, jobvars
<1>10. Starting'
  BY DEF Types, Places, Starting, Ctx, Remove, Goto, Die, jobvars
<1>11. Numbered'
  BY DEF Numbered, Remove, jobvars
<1>12. Quitted'
  BY DEF Types, Places, Quitted, Quits, Reaping, InHand, Ctx, Remove, AtBlock, Active, Goto,
     Die, handling_fatal_signal, jobvars
<1>13. Cleaned'
  BY DEF Types, Places, Cleaned, Whole, Forked, Ctx, Remove, AtBlock, Goto, Die, jobvars
<1>14. DoneOff'
  BY DEF Types, Places, DoneOff, Leaving, Ctx, Remove, Goto, Die, jobvars
<1> QED BY <1>1, <1>2, <1>3, <1>4, <1>5, <1>6, <1>7, <1>8, <1>9, <1>10, <1>11, <1>12, <1>13, <1>14

LEMMA DieWaitInv ==
  ASSUME IInv, NEW x \in Ctx, DieWait(x)
  PROVE  IInv'
<1> USE DEF IInv
<1>1. Types'
  <2>1. Places'
    BY DEF Types, Places, Place, DieWait, CallReap, Goto
  <2>2. Calls'
    BY DEF Types, Calls, Call, Reaping, DieWait, CallReap, Goto
  <2> QED BY <2>1, <2>2 DEF Types, DieWait, jobvars
<1>2. Counted'
  BY DEF Counted, DieWait
<1>3. Masked'
  BY DEF Masked, DieWait, At, AtBlock, CallReap, Goto
<1>4. Known'
  BY DEF Known, Forked, DieWait, At, AtBlock, CallReap, Goto, jobvars
<1>5. Chained'
  BY DEF Chained, InHand, DieWait, At, AtBlock, CallReap, Goto, jobvars
<1>6. Held'
  BY DEF Held, InHand, DieWait, CallReap, Goto, jobvars
<1>7. Apart'
  BY DEF Apart, InHand, DieWait, CallReap, Goto
<1>8. Unstarted'
  BY DEF Unstarted, DieWait, jobvars
<1>9. Chosen'
  BY DEF Types, Calls, Chosen, Reaping, DieWait, CallReap, Goto, jobvars
<1>10. Starting'
  BY DEF Starting, DieWait, CallReap, Goto, jobvars
<1>11. Numbered'
  BY DEF Numbered, DieWait, jobvars
<1>12. Quitted'
  <2>1. chain # {} /\ UNCHANGED <<chain, opt, proc, dying>>
    BY ChainSize DEF DieWait, jobvars
  <2>2. CASE x = "main"
    BY <2>1, <2>2 DEF Types, Places, Calls, Quitted, Quits, Reaping, InHand, Processes, Ctx,
       DieWait, At,
       AtBlock, Active, CallReap, Goto
  <2>3. CASE x = "handler"
    BY <2>1, <2>3 DEF Types, Places, Calls, Quitted, Quits, Reaping, InHand, Processes, Ctx,
       DieWait, At,
       AtBlock, Active, CallReap, Goto
  <2> QED BY <2>2, <2>3 DEF Ctx
<1>13. Cleaned'
  BY DEF Cleaned, Whole, Forked, DieWait, At, AtBlock, CallReap, Goto, jobvars
<1>14. DoneOff'
  BY DEF DoneOff, Leaving, DieWait, At, AtBlock, CallReap, Goto, jobvars
<1> QED BY <1>1, <1>2, <1>3, <1>4, <1>5, <1>6, <1>7, <1>8, <1>9, <1>10, <1>11, <1>12, <1>13, <1>14

LEMMA ExitInv ==
  ASSUME IInv, NEW x \in Ctx, Exit(x)
  PROVE  IInv'
<1> USE DEF IInv
<1>1. Types'
  <2>1. Places'
    BY DEF Types, Places, Place, Exit
  <2>2. Calls'
    BY DEF Types, Calls, Reaping, Exit
  <2> QED BY <2>1, <2>2 DEF Types, Exit, jobvars
<1>2. Counted'
  BY DEF Counted, Exit
<1>3. Masked'
  BY DEF Masked, Exit, At, AtBlock
<1>4. Known'
  BY DEF Known, Forked, Exit, At, AtBlock, jobvars
<1>5. Chained'
  BY DEF Chained, InHand, Exit, At, AtBlock, jobvars
<1>6. Held'
  BY DEF Held, InHand, Exit, jobvars
<1>7. Apart'
  BY DEF Apart, InHand, Exit
<1>8. Unstarted'
  BY DEF Unstarted, Exit, jobvars
<1>9. Chosen'
  BY DEF Chosen, Reaping, Exit, jobvars
<1>10. Starting'
  BY DEF Starting, Exit, jobvars
<1>11. Numbered'
  BY DEF Numbered, Exit, jobvars
<1>12. Quitted'
  BY DEF Quitted, Quits, Reaping, InHand, Processes, Exit, At, AtBlock, jobvars
<1>13. Cleaned'
  BY DEF Cleaned, Whole, Forked, Exit, At, AtBlock, jobvars
<1>14. DoneOff'
  BY DEF DoneOff, Leaving, Exit, At, AtBlock, jobvars
<1> QED BY <1>1, <1>2, <1>3, <1>4, <1>5, <1>6, <1>7, <1>8, <1>9, <1>10, <1>11, <1>12, <1>13, <1>14

LEMMA ArrivesInv ==
  ASSUME IInv, NEW s \in Sigs, Arrives(s)
  PROVE  IInv'
<1> USE DEF IInv
<1>1. Types'
  <2>1. Places'
    BY DEF Types, Places, Arrives
  <2>2. Calls'
    BY DEF Types, Calls, Reaping, Arrives
  <2> QED BY <2>1, <2>2 DEF Types, Ended, Arrives
<1>2. Counted'
  BY DEF Counted, Arrives
<1>3. Masked'
  BY DEF Masked, Arrives
<1>4. Known'
  BY DEF Known, Forked, Arrives
<1>5. Chained'
  BY DEF Types, None, Chained, InHand, Arrives
<1>6. Held'
  BY DEF Types, Held, InHand, Arrives
<1>7. Apart'
  BY DEF Apart, InHand, Arrives
<1>8. Unstarted'
  BY DEF None, Unstarted, Arrives
<1>9. Chosen'
  BY DEF Chosen, Reaping, Arrives
<1>10. Starting'
  BY DEF Types, None, Starting, Arrives
<1>11. Numbered'
  BY DEF Numbered, Arrives
<1>12. Quitted'
  BY DEF Quitted, Quits, Reaping, InHand, Processes, Arrives
<1>13. Cleaned'
  BY DEF Cleaned, Whole, Forked, Arrives
<1>14. DoneOff'
  BY DEF DoneOff, Leaving, Arrives
<1> QED BY <1>1, <1>2, <1>3, <1>4, <1>5, <1>6, <1>7, <1>8, <1>9, <1>10, <1>11, <1>12, <1>13, <1>14

LEMMA DeliverInv ==
  ASSUME IInv, Deliver
  PROVE  IInv'
<1> USE DEF IInv
<1>1. Types'
  <2>1. Places'
    BY DEF Types, Places, Place, Ctx, Deliver, Goto
  <2>2. Calls'
    BY DEF Types, Calls, Reaping, Deliver, Goto
  <2> QED BY <2>1, <2>2 DEF Types, Ended, Deliver
<1>2. Counted'
  BY DEF Counted, Deliver
<1>3. Masked'
  BY DEF Masked, Deliver, Goto
<1>4. Known'
  BY DEF Known, Forked, Deliver, Goto
<1>5. Chained'
  BY DEF Types, None, Chained, InHand, Deliver, Goto, handling_fatal_signal
<1>6. Held'
  BY DEF Types, Held, InHand, Deliver, Goto
<1>7. Apart'
  BY DEF Apart, InHand, Deliver, Goto
<1>8. Unstarted'
  BY DEF Unstarted, Deliver
<1>9. Chosen'
  BY DEF Chosen, Reaping, Deliver, Goto
<1>10. Starting'
  BY DEF Starting, Masked, Deliver, Goto
<1>11. Numbered'
  BY DEF Numbered, Deliver
<1>12. Quitted'
  BY DEF Quitted, Quits, Reaping, Deliver, Goto, handling_fatal_signal
<1>13. Cleaned'
  BY DEF Cleaned, Whole, Forked, Deliver, Goto
<1>14. DoneOff'
  BY DEF DoneOff, Leaving, Deliver, Goto
<1> QED BY <1>1, <1>2, <1>3, <1>4, <1>5, <1>6, <1>7, <1>8, <1>9, <1>10, <1>11, <1>12, <1>13, <1>14

LEMMA PendingInv ==
  ASSUME IInv, Pending
  PROVE  IInv'
<1> USE DEF IInv
<1>1. Types'
  <2>1. Places'
    BY DEF Types, Places, Place, Ctx, Pending, Goto
  <2>2. Calls'
    BY DEF Types, Calls, Reaping, Pending, Goto
  <2>3. UNCHANGED <<deleted, target>> \/ DeleteTargets(chain, stale)
    BY DEF Pending
  <2>4. target' \in [Job -> {"old", "half", "made", "gone"}] /\ deleted' \in [Job -> BOOLEAN]
    BY <2>3 DEF DeleteTargets, Types
  <2>5. UNCHANGED <<opt, call, cur, new, chain, used, dying, blocked, sig, state, stale, line, proc, excused>>
    BY DEF Pending
  <2> QED BY <2>1, <2>2, <2>4, <2>5 DEF Types
<1>2. Counted'
  BY DEF Counted, Pending
<1>3. Masked'
  BY DEF Masked, Pending, Goto
<1>4. Known'
  BY DEF Known, Forked, Pending, Goto
<1>5. Chained'
  BY DEF Chained, InHand, Pending, Goto
<1>6. Held'
  BY DEF Held, InHand, Pending, Goto
<1>7. Apart'
  BY DEF Apart, InHand, Pending, Goto
<1>8. Unstarted'
  BY DEF Unstarted, Pending
<1>9. Chosen'
  BY DEF Chosen, Reaping, Pending, Goto
<1>10. Starting'
  BY DEF Starting, Pending, Goto
<1>11. Numbered'
  BY DEF Numbered, Pending
<1>12. Quitted'
  BY DEF Quitted, Quits, Reaping, Pending, Goto
<1>13. Cleaned'
  BY DEF Types, Cleaned, Whole, Forked, Pending, Goto, DeleteTargets
<1>14. DoneOff'
  BY DEF DoneOff, Leaving, Pending, Goto
<1> QED BY <1>1, <1>2, <1>3, <1>4, <1>5, <1>6, <1>7, <1>8, <1>9, <1>10, <1>11, <1>12, <1>13, <1>14

LEMMA ChildrenInv ==
  ASSUME IInv, Children
  PROVE  IInv'
<1> USE DEF IInv
<1>1. Types'
  <2>1. Places'
    BY DEF Types, Places, Place, Ctx, Children, CallReap, Goto
  <2>2. Calls'
    BY DEF Types, Calls, Call, Ctx, Children, CallReap
  <2> QED BY <2>1, <2>2 DEF Types, Children, jobvars
<1>2. Counted'
  BY DEF Counted, Children
<1>3. Masked'
  BY DEF Masked, Children, CallReap, Goto
<1>4. Known'
  BY DEF Known, Forked, Children, CallReap, Goto, jobvars
<1>5. Chained'
  BY DEF Chained, InHand, Children, CallReap, Goto, jobvars
<1>6. Held'
  BY DEF Held, InHand, Children, CallReap, Goto, jobvars
<1>7. Apart'
  BY DEF Apart, InHand, Children, CallReap, Goto
<1>8. Unstarted'
  BY DEF Unstarted, Children, jobvars
<1>9. Chosen'
  BY DEF Chosen, Reaping, Children, CallReap, Goto, jobvars
<1>10. Starting'
  BY DEF Starting, Children, CallReap, Goto, jobvars
<1>11. Numbered'
  BY DEF Numbered, Children, jobvars
<1>12. Quitted'
  BY DEF Types, Calls, Quitted, Quits, Reaping, Ctx, Children, CallReap, Goto, jobvars
<1>13. Cleaned'
  BY DEF Cleaned, Whole, Forked, Children, CallReap, Goto, jobvars
<1>14. DoneOff'
  BY DEF DoneOff, Leaving, Children, CallReap, Goto, jobvars
<1> QED BY <1>1, <1>2, <1>3, <1>4, <1>5, <1>6, <1>7, <1>8, <1>9, <1>10, <1>11, <1>12, <1>13, <1>14

LEMMA KillSelfInv ==
  ASSUME IInv, KillSelf
  PROVE  IInv'
<1> USE DEF IInv
<1>1. Types'
  <2>1. Places'
    BY DEF Types, Places, Place, Ctx, KillSelf, Goto
  <2>2. Calls'
    BY DEF Types, Calls, Reaping, KillSelf, Goto
  <2> QED BY <2>1, <2>2 DEF Types, KillSelf, jobvars
<1>2. Counted'
  BY DEF Counted, KillSelf
<1>3. Masked'
  BY DEF Masked, KillSelf, Goto
<1>4. Known'
  BY DEF Known, Forked, KillSelf, Goto, jobvars
<1>5. Chained'
  BY DEF Chained, InHand, KillSelf, Goto, jobvars
<1>6. Held'
  BY DEF Held, InHand, KillSelf, Goto, jobvars
<1>7. Apart'
  BY DEF Apart, InHand, KillSelf, Goto
<1>8. Unstarted'
  BY DEF Unstarted, KillSelf, jobvars
<1>9. Chosen'
  BY DEF Chosen, Reaping, KillSelf, Goto, jobvars
<1>10. Starting'
  BY DEF Starting, KillSelf, Goto, jobvars
<1>11. Numbered'
  BY DEF Numbered, KillSelf, jobvars
<1>12. Quitted'
  <2>1. chain = {}
    BY ChainSize DEF KillSelf
  <2> QED BY <2>1 DEF Quitted, Quits, Reaping, KillSelf, Goto, jobvars
<1>13. Cleaned'
  BY DEF Cleaned, Whole, Forked, KillSelf, Goto, jobvars
<1>14. DoneOff'
  BY DEF DoneOff, Leaving, KillSelf, Goto, jobvars
<1> QED BY <1>1, <1>2, <1>3, <1>4, <1>5, <1>6, <1>7, <1>8, <1>9, <1>10, <1>11, <1>12, <1>13, <1>14

LEMMA CommandWritesInv ==
  ASSUME IInv, NEW j \in Job, CommandWrites(j)
  PROVE  IInv'
<1> USE DEF IInv
<1>1. Types'
  <2>1. Places'
    BY DEF Types, Places, CommandWrites
  <2>2. Calls'
    BY DEF Types, Calls, Reaping, CommandWrites
  <2> QED BY <2>1, <2>2 DEF Types, CommandWrites
<1>2. Counted'
  BY DEF Counted, CommandWrites
<1>3. Masked'
  BY DEF Masked, CommandWrites
<1>4. Known'
  BY DEF Known, Forked, CommandWrites
<1>5. Chained'
  BY DEF Chained, InHand, CommandWrites
<1>6. Held'
  BY DEF Held, InHand, CommandWrites
<1>7. Apart'
  BY DEF Apart, InHand, CommandWrites
<1>8. Unstarted'
  BY DEF Unstarted, CommandWrites
<1>9. Chosen'
  BY DEF Chosen, Reaping, CommandWrites
<1>10. Starting'
  BY DEF Starting, CommandWrites
<1>11. Numbered'
  BY DEF Numbered, CommandWrites
<1>12. Quitted'
  BY DEF Quitted, Quits, Reaping, Processes, CommandWrites
<1>13. Cleaned'
  <2>1. /\ target' = [target EXCEPT ![j] = "half"] /\ proc[j] = "run"
        /\ excused' = IF deleted[j] THEN excused \cup {j} ELSE excused
        /\ UNCHANGED <<pc, cur, new, chain, deleted, line, proc>>
    BY DEF CommandWrites
  <2>2. \A h \in Job : Whole(h) /\ (h # j \/ deleted[j]) => Whole(h)'
    BY <2>1 DEF Whole
  <2>3. j \in chain \/ Forked(j)
    BY <2>1 DEF Known
  <2>4. \A y \in Ctx : InHand(y) => cur[y].job \in Job /\ cur[y].job # j
    BY <2>1 DEF Held, Types
  <2>5. \A h \in Job : h \notin chain /\ ~Forked(h) => Whole(h)'
    BY <2>2, <2>3 DEF Cleaned
  <2>6. \A y \in Ctx : pc[y] \in {"notice", "remove"} => Whole(cur[y].job)'
    BY <2>1, <2>2, <2>4 DEF Cleaned, InHand
  <2>7. \A h \in Job : deleted[h] => Whole(h)'
    BY <2>2 DEF Cleaned
  <2>8. \A h \in Job : proc[h] = "ok" /\ line[h] = Lines[h] => target'[h] # "half"
    BY <2>1 DEF Cleaned
  <2>9. \A y \in Ctx : pc[y] = "got" /\ cur[y].status = "ok" /\ line[cur[y].job] = Lines[cur[y].job]
          => target'[cur[y].job] # "half"
    BY <2>1, <2>4 DEF Cleaned, InHand
  <2> QED BY <2>1, <2>5, <2>6, <2>7, <2>8, <2>9 DEF Cleaned, Forked
<1>14. DoneOff'
  BY DEF DoneOff, Leaving, CommandWrites
<1> QED BY <1>1, <1>2, <1>3, <1>4, <1>5, <1>6, <1>7, <1>8, <1>9, <1>10, <1>11, <1>12, <1>13, <1>14

LEMMA CommandExitsInv ==
  ASSUME IInv, NEW j \in Job, CommandExits(j)
  PROVE  IInv'
<1> USE DEF IInv
<1>1. Types'
  <2>1. Places'
    BY DEF Types, Places, CommandExits
  <2>2. Calls'
    BY DEF Types, Calls, Reaping, CommandExits
  <2> QED BY <2>1, <2>2 DEF Types, Ended, CommandExits
<1>2. Counted'
  BY DEF Counted, CommandExits
<1>3. Masked'
  BY DEF Masked, CommandExits
<1>4. Known'
  BY DEF Types, Known, Forked, CommandExits
<1>5. Chained'
  BY DEF Types, None, Chained, InHand, CommandExits
<1>6. Held'
  BY DEF Types, Held, InHand, CommandExits
<1>7. Apart'
  BY DEF Apart, InHand, CommandExits
<1>8. Unstarted'
  BY DEF Types, None, Unstarted, CommandExits
<1>9. Chosen'
  BY DEF Chosen, Reaping, CommandExits
<1>10. Starting'
  BY DEF Types, None, Starting, CommandExits
<1>11. Numbered'
  BY DEF Numbered, CommandExits
<1>12. Quitted'
  BY DEF Quitted, Quits, Reaping, Processes, CommandExits
<1>13. Cleaned'
  BY DEF Types, Cleaned, Whole, Forked, CommandExits
<1>14. DoneOff'
  BY DEF Types, DoneOff, Leaving, CommandExits
<1> QED BY <1>1, <1>2, <1>3, <1>4, <1>5, <1>6, <1>7, <1>8, <1>9, <1>10, <1>11, <1>12, <1>13, <1>14

LEMMA InitInv == Init => IInv
<1> SUFFICES ASSUME Init PROVE IInv
  OBVIOUS
<1> DEFINE someone == CHOOSE j \in Job : TRUE
<1>1. someone \in Job
  BY JobAssumption
<1>2. /\ pc = [main |-> "walk", handler |-> "off"]
      /\ call = [x \in Ctx |-> [block |-> FALSE, err |-> FALSE, to |-> "walk"]]
      /\ cur = [x \in Ctx |-> [job |-> someone, status |-> "ok"]]
      /\ new = someone /\ chain = {} /\ dying = FALSE /\ blocked = FALSE
  BY DEF Init, NoCall
<1> HIDE DEF someone
<1>3. Places
  BY <1>2 DEF Places, Place, Ctx
<1>4. [block |-> FALSE, err |-> FALSE, to |-> "walk"] \in Call
  BY DEF Call
<1>5. Calls
  BY <1>2, <1>4 DEF Calls, Reaping, Ctx
<1>6. cur \in [Ctx -> [job : Job, status : Ended]] /\ new \in Job
  BY <1>1, <1>2 DEF Ended
<1>7. Types
  BY <1>2, <1>3, <1>5, <1>6 DEF Init, Types
<1>8. Counted
  BY <1>2, FS_EmptySet DEF Init, Counted
<1>9. ~Reaping("main") /\ \A x \in Ctx : ~InHand(x) /\ ~Quits(x) /\ ~Reaping(x)
  BY <1>2 DEF Reaping, InHand, Quits, Ctx
<1>10. Masked /\ Known /\ Chained /\ Held /\ Apart /\ Chosen /\ Starting
  BY <1>2, <1>9 DEF Init, Masked, Known, Chained, Held, Apart, Chosen, Starting, Ended, Ctx, None
<1>11. Unstarted /\ DoneOff
  BY <1>2 DEF Init, Unstarted, DoneOff
<1>12. Numbered
  <2>1. \A j \in Job : line[j] = 0 /\ Lines[j] \in Nat
    BY JobAssumption DEF Init
  <2> QED BY <2>1 DEF Numbered
<1>13. Quitted
  BY <1>2, <1>9 DEF Init, Quitted, Ctx
<1>14. Cleaned
  BY <1>2, <1>9 DEF Init, Cleaned, Whole, Ctx
<1> QED BY <1>7, <1>8, <1>10, <1>11, <1>12, <1>13, <1>14 DEF IInv

LEMMA NextInv == IInv /\ [Next]_vars => IInv'
<1> SUFFICES ASSUME IInv, [Next]_vars PROVE IInv'
  OBVIOUS
<1>1. CASE NewJob \/ EndPass \/ GiveUp \/ WaitForSlot \/ Fork \/ OnChain \/ ForkFailed
  BY <1>1, NewJobInv, EndPassInv, GiveUpInv, WaitForSlotInv, ForkInv, OnChainInv, ForkFailedInv
<1>2. CASE \E x \in Ctx : ReapReturn(x) \/ Wait(x) \/ WaitFails(x)
  BY <1>2, ReapReturnInv, WaitInv, WaitFailsInv
<1>3. CASE \E x \in Ctx : GotNextLine(x) \/ GotFailed(x) \/ GotDone(x)
  BY <1>3, GotNextLineInv, GotFailedInv, GotDoneInv
<1>4. CASE \E x \in Ctx : Notice(x) \/ Remove(x) \/ DieWait(x) \/ Exit(x)
  BY <1>4, NoticeInv, RemoveInv, DieWaitInv, ExitInv
<1>5. CASE Deliver \/ Pending \/ Children \/ KillSelf
  BY <1>5, DeliverInv, PendingInv, ChildrenInv, KillSelfInv
<1>6. CASE Environment
  BY <1>6, ArrivesInv, CommandWritesInv, CommandExitsInv DEF Environment
<1>7. CASE UNCHANGED vars
  <2>1. /\ Types' /\ Counted' /\ Masked' /\ Known' /\ Chained' /\ Held' /\ Apart'
    BY <1>7 DEF vars, IInv, Types, Places, Calls, Reaping, Counted, Masked, Known, Forked,
       Chained, Held, Apart, InHand
  <2>2. Unstarted' /\ Chosen' /\ Starting' /\ Numbered' /\ DoneOff'
    BY <1>7 DEF vars, IInv, Unstarted, Chosen, Starting, Numbered, DoneOff, Leaving, Reaping
  <2>3. Quitted' /\ Cleaned'
    BY <1>7 DEF vars, IInv, Quitted, Quits, Reaping, InHand, Processes, Cleaned, Whole, Forked
  <2> QED BY <2>1, <2>2, <2>3 DEF IInv
<1> QED BY <1>1, <1>2, <1>3, <1>4, <1>5, <1>6, <1>7 DEF Next, MakeStep, Finished

LEMMA Inductive == Spec => []IInv
<1> QED BY InitInv, NextInv, PTL DEF Spec

(* Type correctness of the program, the handler and the commands, and        *)
(* job_slots_used is the length of the chain at every point at which the     *)
(* signal can come (job.c:1006, 604).                                        *)
THEOREM TypeCorrect == Spec => []TypeOK
<1>1. IInv => TypeOK
  BY DEF IInv, Types, Places, Calls, Call, Ended, Counted, Numbered, TypeOK
<1> QED BY <1>1, Inductive, PTL

(* Wherever the signal meets make, and whatever its commands do: when the     *)
(* handler has killed make no target is half made, but those for which make   *)
(* cannot be blamed; and make ends with no command running or unwaited for,   *)
(* but where it gives up by itself (commands.c:430, job.c:592, 986).          *)
THEOREM EndsCleanly == Spec => []EndsClean
<1> SUFFICES ASSUME IInv PROVE EndsClean
  BY Inductive, PTL
<1> USE DEF IInv
<1>1. ASSUME chain = {}, pc["main"] # "chain" PROVE Processes = {} /\ \A j \in Job : Whole(j)
  BY <1>1 DEF Processes, Known, Forked, Ended, Cleaned
<1>2. ASSUME pc["handler"] # "off" PROVE pc["main"] # "chain"
  BY <1>2 DEF Masked
<1>3. HalfMadeGone
  BY <1>1, <1>2 DEF HalfMadeGone, Quitted, Whole
<1>4. ASSUME pc["handler"] = "killed" PROVE Processes = {}
  BY <1>4, <1>1, <1>2 DEF Quitted
<1>5. ASSUME pc["handler"] = "exited" PROVE Processes = {}
  BY <1>5 DEF Quitted, Quits
<1>6. ASSUME pc["main"] = "exited", opt.k PROVE Processes = {}
  BY <1>6, <1>1 DEF Quitted, Quits
<1>7. NothingRuns
  <2>1. opt.k \in BOOLEAN
    BY SignalFlags DEF Types
  <2> QED BY <2>1, <1>4, <1>5, <1>6 DEF NothingRuns, Over
<1> QED BY <1>3, <1>7 DEF EndsClean

(* Once a job has left the chain with success nobody deletes its target: the  *)
(* handler and reap_children delete targets of children on the chain, and no  *)
(* command of the job is left to write it (commands.c:430, 487).              *)
THEOREM KeptOnceMade == Spec => KeptOnceDone
<1> DEFINE Keeps(j) == /\ state[j] = "done" /\ target[j] = "made"
                       /\ ~(pc["main"] \in {"got", "notice", "remove"} /\ cur["main"].job = j)
<1>1. ASSUME IInv, [Next]_vars, NEW j \in Job, Keeps(j) PROVE target'[j] = "made"
  <2>1. proc[j] = "reaped" /\ j \notin chain
    BY <1>1 DEF IInv, DoneOff, Leaving
  <2>2. ASSUME NEW S, NEW forgot, j \notin S, DeleteTargets(S, forgot) PROVE target'[j] = target[j]
    BY <2>2 DEF DeleteTargets
  <2>3. ASSUME NEW x \in Ctx, GotFailed(x) PROVE target'[j] = target[j]
    <3>1. pc[x] = "got"
      BY <2>3 DEF GotFailed, At, AtBlock
    <3>2. cur[x].job # j
      BY <1>1, <2>1, <3>1 DEF IInv, Held, InHand
    <3>3. UNCHANGED target \/ DeleteTargets({cur[x].job}, stale')
      BY <2>3 DEF GotFailed
    <3> QED BY <3>2, <3>3, <2>2
  <2>4. ASSUME Pending PROVE target'[j] = target[j]
    BY <2>1, <2>2, <2>4 DEF Pending
  <2>5. ASSUME NEW i \in Job, CommandWrites(i) \/ CommandExits(i) PROVE target'[j] = target[j]
    <3>1. i # j
      BY <2>1, <2>5 DEF CommandWrites, CommandExits
    <3>2. target \in [Job -> {"old", "half", "made", "gone"}]
      BY <1>1 DEF IInv, Types
    <3>3. \E v : target' = [target EXCEPT ![i] = v]
      BY <2>5, <3>2 DEF CommandWrites, CommandExits
    <3> QED BY <3>1, <3>2, <3>3
  <2>6. CASE UNCHANGED target
    BY <2>6, <1>1
  <2>7. \/ UNCHANGED target \/ Pending
        \/ \E x \in Ctx : GotFailed(x)
        \/ \E i \in Job : CommandWrites(i) \/ CommandExits(i)
    <3>1. ASSUME NewJob \/ EndPass \/ GiveUp \/ WaitForSlot \/ Fork \/ OnChain \/ ForkFailed PROVE UNCHANGED target
      BY <3>1 DEF NewJob, EndPass, GiveUp, WaitForSlot, Fork, OnChain, ForkFailed, jobvars
    <3>2. ASSUME NEW x \in Ctx, ReapReturn(x) \/ Wait(x) \/ WaitFails(x) \/ GotNextLine(x) \/ GotDone(x)
          PROVE  UNCHANGED target
      BY <3>2 DEF ReapReturn, Wait, WaitFails, GotNextLine, GotDone, jobvars
    <3>3. ASSUME NEW x \in Ctx, Notice(x) \/ Remove(x) \/ DieWait(x) \/ Exit(x) PROVE UNCHANGED target
      BY <3>3 DEF Notice, Remove, DieWait, Exit, jobvars
    <3>4. ASSUME Deliver \/ Children \/ KillSelf PROVE UNCHANGED target
      BY <3>4 DEF Deliver, Children, KillSelf, jobvars
    <3>5. ASSUME NEW s \in Sigs, Arrives(s) PROVE UNCHANGED target
      BY <3>5 DEF Arrives
    <3>6. ASSUME UNCHANGED vars PROVE UNCHANGED target
      BY <3>6 DEF vars
    <3> QED BY <1>1, <3>1, <3>2, <3>3, <3>4, <3>5, <3>6 DEF Next, MakeStep, Environment, Finished
  <2> QED BY <1>1, <2>3, <2>4, <2>5, <2>6, <2>7
<1>2. IInv /\ [Next]_vars => [\A j \in Job : Keeps(j) => target'[j] = "made"]_vars
  BY <1>1
<1> QED BY <1>2, Inductive, PTL DEF Spec, KeptOnceDone
=============================================================================
