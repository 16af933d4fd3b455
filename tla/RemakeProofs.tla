----------------------------- MODULE RemakeProofs -----------------------------
(***************************************************************************)
(* Theorems about Remake, for all makefiles, options, numbers of job slots, *)
(* outcomes of commands and orders in which children are reaped.            *)
(***************************************************************************)
EXTENDS Remake, SequenceTheorems, TLAPS

State == {"not_started", "deps_running", "running", "finished"}
Call == [block : BOOLEAN, err : BOOLEAN, to : {"goals", "slots", "started", "die"}]
Option == [KeepGoing : BOOLEAN, DeleteOnError : BOOLEAN, WaitNoHang : BOOLEAN,
           MayFail : SUBSET File, ForkFails : SUBSET File]

------------------------------------------------------------------------------
(* The invariant for types                                                 *)

Types ==
  /\ opt \in Options /\ pc \in PC \cup {"aborted"} /\ call \in Call
  /\ stack \in Seq(Frame)
  /\ ret \in {0, 2} /\ status \in {0, 2}
  /\ goals \in Seq(File) /\ g \in Nat \ {0}
  /\ considered \in BOOLEAN /\ seen \in [File -> BOOLEAN]
  /\ state \in [File -> State]
  /\ updated \in [File -> BOOLEAN]
  /\ ustat \in [File -> {-1, 0, 2}]
  /\ mtime \in [File -> 0 .. New]
  /\ line \in [File -> Nat]
  /\ proc \in [File -> {"none", "run", "ok", "fail"}]

\* A file that is updated or finished has an outcome.
Outcomes == \A f \in File : updated[f] \/ state[f] = "finished" => ustat[f] # -1

\* make has not given up, and where it is: after the reap_children call in progress.
Walking == pc \notin {"die", "exit", "exited", "aborted"} /\ ~(pc = "reap" /\ call.to = "die")
At(p) == pc = p \/ (pc = "reap" /\ call.to = p)

\* The activations are those that lead from the goal to the file considered.
Path ==
  /\ stack # <<>> => stack[1].f = goals[g]
  /\ \A k \in 1 .. Len(stack) : stack[k].d \in 1 .. Len(Deps[stack[k].f]) + 1
  /\ \A k \in 1 .. Len(stack) - 1 : /\ stack[k].d <= Len(Deps[stack[k].f])
                                    /\ stack[k + 1].f = Deps[stack[k].f][stack[k].d]
Placed ==
  /\ pc = "pass" \/ At("goals") => stack = <<>>
  /\ pc = "deps" \/ At("slots") \/ At("started") => stack # <<>>
  /\ stack # <<>> \/ pc = "return" => g \in 1 .. Len(goals)
  /\ pc = "return" /\ stack # <<>> => Top.d <= Len(Deps[Top.f])

\* The file that update_file was called for, and what its return value says.
Asked == IF stack = <<>> THEN goals[g] ELSE Cur
RetTells == pc = "return" /\ ret # 0 => ustat[Asked] = ret

Base == Types /\ Outcomes /\ (Walking => Path /\ Placed /\ RetTells)

------------------------------------------------------------------------------
(* Lemmas about the stack                                                  *)

LEMMA TopType ==
  ASSUME Types, stack # <<>>
  PROVE  /\ Len(stack) \in Nat \ {0} /\ Top \in Frame /\ Top.f \in File
         /\ Deps[Top.f] \in Seq(File) /\ Len(Deps[Top.f]) \in Nat
<1>1. stack \in Seq(Frame)
  BY DEF Types
<1>2. Len(stack) \in Nat \ {0} /\ Top \in Frame
  <2> HIDE DEF Frame
  <2> QED BY <1>1 DEF Top
<1>3. Top.f \in File
  BY <1>2 DEF Frame
<1>4. Deps[Top.f] \in Seq(File)
  BY <1>3, GraphAssumption
<1> QED BY <1>2, <1>3, <1>4

LEMMA PushStack ==
  ASSUME Types, NEW fr \in Frame, stack' = Append(stack, fr)
  PROVE  /\ stack' \in Seq(Frame) /\ Len(stack') = Len(stack) + 1 /\ stack' # <<>>
         /\ Top' = fr /\ \A k \in 1 .. Len(stack) : stack'[k] = stack[k]
<1>1. stack \in Seq(Frame)
  BY DEF Types
<1> HIDE DEF Frame
<1> QED BY <1>1 DEF Top

LEMMA PopStack ==
  ASSUME Types, stack # <<>>, stack' = Pop
  PROVE  /\ stack' \in Seq(Frame) /\ Len(stack') = Len(stack) - 1
         /\ \A k \in 1 .. Len(stack) - 1 : stack'[k] = stack[k]
         /\ stack' = <<>> <=> Len(stack) = 1
         /\ Len(stack) > 1 => Top' = stack[Len(stack) - 1]
<1>1. stack \in Seq(Frame) /\ Len(stack) \in Nat \ {0}
  BY TopType DEF Types
<1> HIDE DEF Frame
<1>2. /\ stack' \in Seq(Frame) /\ Len(stack') = Len(stack) - 1
      /\ \A k \in 1 .. Len(stack) - 1 : stack'[k] = stack[k]
  <2> DEFINE n == Len(stack) - 1
  <2>1. n \in Nat /\ n \in Int /\ 1 \in Int /\ \A k \in 1 .. n : stack[k] \in Frame
    BY <1>1
  <2>2. stack' = SubSeq(stack, 1, n)
    BY DEF Pop
  <2> HIDE DEF n
  <2>3. /\ stack' \in Seq(Frame) /\ Len(stack') = IF 1 <= n THEN n - 1 + 1 ELSE 0
        /\ \A k \in 1 .. n - 1 + 1 : stack'[k] = stack[1 + k - 1]
    BY <2>1, <2>2, SubSeqProperties
  <2>4. Len(stack') = n
    BY <2>1, <2>3
  <2>5. n - 1 + 1 = n /\ \A k \in 1 .. n : 1 + k - 1 = k
    BY <2>1
  <2>6. \A k \in 1 .. n : stack'[k] = stack[k]
    BY <2>3, <2>5
  <2> QED BY <2>3, <2>4, <2>6 DEF n
<1>3. stack' = <<>> <=> Len(stack) = 1
  BY <1>1, <1>2
<1>4. Len(stack) > 1 => Top' = stack[Len(stack) - 1]
  BY <1>1, <1>2 DEF Top
<1> QED BY <1>2, <1>3, <1>4

LEMMA SetStack ==
  ASSUME Types, stack # <<>>, NEW fr \in Frame, stack' = SetTop(fr)
  PROVE  /\ stack' \in Seq(Frame) /\ Len(stack') = Len(stack) /\ stack' # <<>>
         /\ \A k \in 1 .. Len(stack) - 1 : stack'[k] = stack[k]
         /\ Top' = fr
<1>1. stack \in Seq(Frame) /\ Len(stack) \in Nat \ {0}
  BY TopType DEF Types
<1> HIDE DEF Frame
<1> QED BY <1>1 DEF SetTop, Top

------------------------------------------------------------------------------
(* The invariant for types is inductive                                    *)

NewFrame(f) ==
  [f |-> f, d |-> 1, dep_status |-> 0, running |-> FALSE, must_make |-> mtime[f] = 0]

\* The ways in which update_file can go.
Pruned(f) ==
  /\ seen[f] = considered /\ pc' = "return" /\ ret' = 0
  /\ UNCHANGED <<call, stack, status, seen>>
Fatal(f) ==
  /\ updated[f] /\ ustat[f] > 0 /\ ~KeepGoing
  /\ pc' = "die" /\ call' = [NoCall EXCEPT !.err = TRUE] /\ status' = 2
  /\ UNCHANGED <<stack, ret>>
Aborts(f) ==
  /\ updated[f] /\ state[f] = "not_started"
  /\ pc' = "aborted" /\ UNCHANGED <<call, stack, status, ret>>
Known(f) ==
  /\ pc' = "return" /\ UNCHANGED <<call, stack, status>>
  /\ \/ updated[f] /\ state[f] # "not_started"
        /\ ret' = IF state[f] = "finished" THEN ustat[f] ELSE 0
     \/ ~updated[f] /\ state[f] = "running" /\ ret' = 0
Entered(f) ==
  /\ ~updated[f] /\ state[f] \in {"not_started", "deps_running"}
  /\ stack' = Append(stack, NewFrame(f)) /\ pc' = "deps"
  /\ UNCHANGED <<call, ret, status>>

LEMMA UpdateFileCases ==
  ASSUME NEW f \in File, pc \in {"goals", "deps"}, UpdateFile(f), Types
  PROVE  \/ Pruned(f)
         \/ /\ seen[f] # considered /\ seen' = [seen EXCEPT ![f] = considered]
            /\ Fatal(f) \/ Aborts(f) \/ Known(f) \/ Entered(f)
<1>1. CASE seen[f] = considered
  BY <1>1 DEF UpdateFile, Pruned, Return
<1>2. CASE seen[f] # considered
  <2> USE <1>2 DEF UpdateFile, Return
  <2>1. seen' = [seen EXCEPT ![f] = considered]
    OBVIOUS
  <2>2. CASE updated[f] /\ ustat[f] > 0 /\ ~KeepGoing /\ Die /\ UNCHANGED <<stack, ret>>
    BY <2>1, <2>2 DEF Fatal, Die
  <2>3. CASE /\ updated[f]
             /\ IF state[f] = "not_started"
                  THEN pc' = "aborted" /\ UNCHANGED ret
                  ELSE pc' = "return" /\ ret' = IF state[f] = "finished" THEN ustat[f] ELSE 0
             /\ UNCHANGED <<call, stack, status>>
    BY <2>1, <2>3 DEF Aborts, Known
  <2>4. CASE ~updated[f] /\ state[f] = "running" /\ pc' = "return" /\ ret' = 0
             /\ UNCHANGED <<call, stack, status>>
    BY <2>1, <2>4 DEF Known
  <2>5. CASE /\ ~updated[f] /\ state[f] \in {"not_started", "deps_running"}
             /\ stack' = Append(stack, NewFrame(f)) /\ pc' = "deps"
             /\ UNCHANGED <<call, ret, status>>
    BY <2>1, <2>5 DEF Entered
  <2> QED BY <2>2, <2>3, <2>4, <2>5 DEF NewFrame
<1> QED BY <1>1, <1>2

LEMMA NewFrameType ==
  ASSUME Types, NEW f \in File
  PROVE  NewFrame(f) \in Frame
BY DEF NewFrame, Frame

LEMMA EnterStack ==
  ASSUME Types, NEW f \in File, stack' = Append(stack, NewFrame(f))
  PROVE  /\ Len(stack) \in Nat /\ Len(stack') = Len(stack) + 1
         /\ stack'[Len(stack) + 1] = NewFrame(f) /\ Top' = NewFrame(f)
         /\ stack' \in Seq(Frame) /\ stack' # <<>>
         /\ \A k \in 1 .. Len(stack) : stack'[k] = stack[k]
         /\ \A k \in 1 .. Len(stack') :
              (k = Len(stack) + 1 /\ stack'[k] = NewFrame(f))
              \/ (k \in 1 .. Len(stack) /\ stack'[k] = stack[k])
<1>1. NewFrame(f) \in Frame
  BY NewFrameType
<1> DEFINE fr == NewFrame(f)
<1> HIDE DEF fr
<1>2. /\ stack' \in Seq(Frame) /\ Len(stack') = Len(stack) + 1 /\ stack' # <<>>
      /\ Top' = fr /\ \A k \in 1 .. Len(stack) : stack'[k] = stack[k]
  BY <1>1, PushStack DEF fr
<1>3. Len(stack) \in Nat
  BY DEF Types
<1>4. stack'[Len(stack) + 1] = fr
  BY <1>2 DEF Top
<1>5. \A k \in 1 .. Len(stack') : k = Len(stack) + 1 \/ k \in 1 .. Len(stack)
  BY <1>2, <1>3
<1> QED BY <1>2, <1>3, <1>4, <1>5 DEF fr

\* The path grows by the file considered, and shrinks by the top.
LEMMA PushPath ==
  ASSUME Types, Path, NEW f \in File, stack' = Append(stack, NewFrame(f)),
         UNCHANGED <<goals, g>>, f = Asked, stack # <<>> => Top.d <= Len(Deps[Top.f])
  PROVE  Path'
<1> DEFINE n == Len(stack)
<1>1. n \in Nat /\ (stack # <<>> => n >= 1) /\ (stack = <<>> => n = 0)
  BY DEF Types
<1>2. /\ Len(stack') = n + 1 /\ stack'[n + 1] = NewFrame(f)
      /\ \A k \in 1 .. n : stack'[k] = stack[k]
  BY NewFrameType, PushStack DEF Top
<1>3. NewFrame(f).f = f /\ NewFrame(f).d = 1 /\ 1 \in 1 .. Len(Deps[f]) + 1
  <2>1. Len(Deps[f]) \in Nat
    BY GraphAssumption
  <2> QED BY <2>1 DEF NewFrame
<1> HIDE DEF n
<1>4. stack'[1].f = goals[g]
  <2>1. CASE stack = <<>>
    BY <1>1, <1>2, <1>3, <2>1 DEF Asked
  <2>2. CASE stack # <<>>
    BY <1>1, <1>2, <2>2 DEF Path
  <2> QED BY <2>1, <2>2
<1>5. \A k \in 1 .. n + 1 : stack'[k].d \in 1 .. Len(Deps[stack'[k].f]) + 1
  <2> SUFFICES ASSUME NEW k \in 1 .. n + 1
               PROVE  stack'[k].d \in 1 .. Len(Deps[stack'[k].f]) + 1
    OBVIOUS
  <2>1. CASE k = n + 1
    BY <1>2, <1>3, <2>1
  <2>2. CASE k # n + 1
    <3>1. k \in 1 .. n
      BY <1>1, <2>2
    <3> QED BY <1>2, <3>1 DEF Path, n
  <2> QED BY <2>1, <2>2
<1>6. ASSUME NEW k \in 1 .. n
      PROVE  /\ stack'[k].d <= Len(Deps[stack'[k].f])
             /\ stack'[k + 1].f = Deps[stack'[k].f][stack'[k].d]
  <2>1. CASE k = n
    <3>1. stack # <<>> /\ Top = stack'[k]
      BY <1>1, <1>2, <2>1 DEF Top, n
    <3>2. f = Deps[Top.f][Top.d]
      BY <3>1 DEF Asked, Cur
    <3> QED BY <1>1, <1>2, <1>3, <2>1, <3>1, <3>2
  <2>2. CASE k # n
    <3>1. k \in 1 .. n - 1 /\ k + 1 \in 1 .. n
      BY <1>1, <2>2
    <3> QED BY <1>2, <3>1 DEF Path, n
  <2> QED BY <2>1, <2>2
<1>7. Len(stack') - 1 = n
  BY <1>1, <1>2
<1> QED BY <1>2, <1>4, <1>5, <1>6, <1>7 DEF Path

LEMMA PopPath ==
  ASSUME Types, Path, stack # <<>>, stack' = Pop, UNCHANGED <<goals, g>>
  PROVE  /\ Path' /\ Asked' = Top.f
         /\ stack' # <<>> => Top'.d <= Len(Deps[Top'.f])
<1> DEFINE n == Len(stack)
<1>1. n \in Nat /\ n >= 1
  BY TopType
<1>2. /\ Len(stack') = n - 1 /\ \A k \in 1 .. n - 1 : stack'[k] = stack[k]
      /\ stack' = <<>> <=> n = 1
      /\ n > 1 => Top' = stack[n - 1]
  BY PopStack
<1> HIDE DEF n
<1>3. Path'
  <2>1. stack' # <<>> => stack'[1].f = goals[g]
    <3> SUFFICES ASSUME stack' # <<>> PROVE stack'[1].f = goals[g]
      OBVIOUS
    <3>1. 1 \in 1 .. n - 1
      BY <1>1, <1>2
    <3> QED BY <1>2, <3>1 DEF Path
  <2>2. \A k \in 1 .. n - 1 : stack'[k].d \in 1 .. Len(Deps[stack'[k].f]) + 1
    <3>1. \A k \in 1 .. n - 1 : k \in 1 .. n
      BY <1>1
    <3> QED BY <1>2, <3>1 DEF Path, n
  <2>3. \A k \in 1 .. n - 1 - 1 : /\ stack'[k].d <= Len(Deps[stack'[k].f])
                                  /\ stack'[k + 1].f = Deps[stack'[k].f][stack'[k].d]
    <3>1. \A k \in 1 .. n - 1 - 1 : k \in 1 .. n - 1 /\ k + 1 \in 1 .. n - 1
      BY <1>1
    <3> QED BY <1>2, <3>1 DEF Path, n
  <2> QED BY <1>2, <2>1, <2>2, <2>3 DEF Path
<1>4. CASE n = 1
  BY <1>2, <1>3, <1>4 DEF Asked, Path, Top, n
<1>5. CASE n # 1
  <2>1. n - 1 \in 1 .. n - 1 /\ n - 1 + 1 = n /\ n > 1
    BY <1>1, <1>5
  <2>2. /\ stack[n - 1].d <= Len(Deps[stack[n - 1].f])
        /\ stack[n].f = Deps[stack[n - 1].f][stack[n - 1].d]
    BY <2>1 DEF Path, n
  <2>3. stack' # <<>> /\ Top' = stack[n - 1] /\ Top = stack[n]
    BY <1>2, <1>5, <2>1 DEF Top, n
  <2>4. Asked' = Top.f
    BY <2>2, <2>3 DEF Asked, Cur
  <2> QED BY <1>3, <2>2, <2>3, <2>4
<1> QED BY <1>3, <1>4, <1>5

\* The loop of the top goes on.
LEMMA SetPath ==
  ASSUME Types, Path, stack # <<>>, NEW fr \in Frame, stack' = SetTop(fr),
         fr.f = Top.f, fr.d \in 1 .. Len(Deps[fr.f]) + 1, UNCHANGED <<goals, g>>
  PROVE  Path'
<1> DEFINE n == Len(stack)
<1>1. n \in Nat /\ n >= 1
  BY TopType
<1>2. /\ Len(stack') = n /\ stack' # <<>> /\ stack'[n] = fr
      /\ \A k \in 1 .. n - 1 : stack'[k] = stack[k]
  BY SetStack DEF Top
<1>3. \A k \in 1 .. n : stack'[k].f = stack[k].f
  <2>1. \A k \in 1 .. n : k = n \/ k \in 1 .. n - 1
    BY <1>1
  <2> QED BY <1>2, <2>1 DEF Top
<1>4. \A k \in 1 .. n : k = n \/ k \in 1 .. n - 1
  BY <1>1
<1> HIDE DEF n
<1>5. stack'[1].f = goals[g]
  BY <1>1, <1>3 DEF Path
<1>6. \A k \in 1 .. n : stack'[k].d \in 1 .. Len(Deps[stack'[k].f]) + 1
  BY <1>2, <1>4 DEF Path, n
<1>7. \A k \in 1 .. n - 1 : /\ stack'[k].d <= Len(Deps[stack'[k].f])
                            /\ stack'[k + 1].f = Deps[stack'[k].f][stack'[k].d]
  <2>1. \A k \in 1 .. n - 1 : k + 1 \in 1 .. n
    BY <1>1
  <2> QED BY <1>2, <1>3, <2>1 DEF Path, n
<1> QED BY <1>2, <1>5, <1>6, <1>7 DEF Path

LEMMA InitBase == Init => Base
<1> SUFFICES ASSUME Init PROVE Base
  OBVIOUS
<1>1. Types
  <2>1. opt \in Options /\ goals \in Seq(File) /\ stack \in Seq(Frame)
    BY GraphAssumption DEF Init
  <2>2. mtime \in [File -> 0 .. New]
    <3>1. 0 .. New - 1 \subseteq 0 .. New
      BY GraphAssumption
    <3> QED BY <3>1 DEF Init
  <2>3. pc = "pass" /\ call = NoCall /\ ret = 0 /\ status = 0 /\ g = 1 /\ considered = TRUE
    BY DEF Init
  <2>4. /\ seen = [f \in File |-> FALSE] /\ state = [f \in File |-> "not_started"]
        /\ updated = [f \in File |-> FALSE] /\ ustat = [f \in File |-> -1]
        /\ line = [f \in File |-> 0] /\ proc = [f \in File |-> "none"]
    BY DEF Init
  <2>5. pc \in PC \cup {"aborted"} /\ call \in Call /\ considered \in BOOLEAN
    BY <2>3 DEF PC, Call, NoCall
  <2>6. seen \in [File -> BOOLEAN] /\ state \in [File -> State] /\ updated \in [File -> BOOLEAN]
    BY <2>4 DEF State
  <2>7. /\ ustat \in [File -> {-1, 0, 2}] /\ line \in [File -> Nat]
        /\ proc \in [File -> {"none", "run", "ok", "fail"}]
    BY <2>4
  <2>8. ret \in {0, 2} /\ status \in {0, 2} /\ g \in Nat \ {0}
    BY <2>3
  <2> QED BY <2>1, <2>2, <2>5, <2>6, <2>7, <2>8 DEF Types
<1>2. Outcomes
  BY DEF Init, Outcomes
<1>3. stack = <<>> /\ pc = "pass"
  BY DEF Init
<1>4. Path /\ Placed /\ RetTells
  BY <1>3 DEF Path, Placed, RetTells, At
<1> QED BY <1>1, <1>2, <1>4 DEF Base

\* update_file is called for a goal or for a prerequisite.
LEMMA WalkBase ==
  ASSUME Base, pc \in {"goals", "deps"}, UpdateFile(Asked), Asked \in File,
         IF stack = <<>> THEN g \in 1 .. Len(goals) ELSE Top.d <= Len(Deps[Top.f]),
         UNCHANGED <<opt, goals, g, considered, filevars>>
  PROVE  Base'
<1> DEFINE f == Asked
<1>0. /\ Types /\ Outcomes /\ Path /\ Placed /\ f \in File
      /\ UNCHANGED <<state, updated, ustat, mtime, line, proc>>
  BY DEF Base, Walking, filevars
<1> HIDE DEF f
<1>1. /\ UpdateFile(f) /\ seen' \in [File -> BOOLEAN]
      /\ Pruned(f) \/ Fatal(f) \/ Aborts(f) \/ Known(f) \/ Entered(f)
  <2>1. UpdateFile(f)
    BY DEF f
  <2>2. \/ Pruned(f)
        \/ /\ seen[f] # considered /\ seen' = [seen EXCEPT ![f] = considered]
           /\ Fatal(f) \/ Aborts(f) \/ Known(f) \/ Entered(f)
    BY <1>0, <2>1, UpdateFileCases
  <2> QED BY <1>0, <2>1, <2>2 DEF Types, Pruned
<1>2. /\ Outcomes' /\ state' \in [File -> State] /\ updated' \in [File -> BOOLEAN]
      /\ ustat' \in [File -> {-1, 0, 2}] /\ mtime' \in [File -> 0 .. New]
      /\ line' \in [File -> Nat] /\ proc' \in [File -> {"none", "run", "ok", "fail"}]
      /\ opt' \in Options /\ goals' \in Seq(File) /\ g' \in Nat \ {0} /\ considered' \in BOOLEAN
  BY <1>0 DEF Types, Outcomes
<1>3. CASE Pruned(f) \/ Known(f)
  <2>1. pc' = "return" /\ UNCHANGED <<call, stack, status>> /\ ret' \in {0, 2}
        /\ (ret' # 0 => ret' = ustat[f])
    BY <1>0, <1>3 DEF Pruned, Known, Types, Outcomes
  <2>2. Types'
    BY <1>0, <1>1, <1>2, <2>1 DEF Types, PC
  <2>3. Path' /\ Placed' /\ RetTells'
    <3>1. Path'
      BY <1>0, <2>1 DEF Path
    <3>2. Placed'
      BY <1>0, <2>1 DEF Placed, At, Top
    <3>3. Asked' = f
      BY <2>1 DEF Asked, Cur, Top, f
    <3> QED BY <1>0, <2>1, <3>1, <3>2, <3>3 DEF RetTells
  <2> QED BY <1>2, <2>2, <2>3 DEF Base
<1>4. CASE Fatal(f) \/ Aborts(f)
  <2>1. pc' \in {"die", "aborted"} /\ stack' = stack /\ call' \in Call /\ ret' = ret
        /\ status' \in {0, 2}
    BY <1>0, <1>4 DEF Fatal, Aborts, Call, NoCall, Types
  <2>2. Types'
    BY <1>0, <1>1, <1>2, <2>1 DEF Types, PC
  <2> QED BY <1>2, <2>1, <2>2 DEF Base, Walking
<1>5. CASE Entered(f)
  <2>1. /\ stack' = Append(stack, NewFrame(f)) /\ pc' = "deps"
        /\ UNCHANGED <<call, ret, status>>
    BY <1>5 DEF Entered
  <2>2. stack' \in Seq(Frame) /\ stack' # <<>>
    BY <1>0, <2>1, NewFrameType, PushStack
  <2>3. Types'
    BY <1>0, <1>1, <1>2, <2>1, <2>2 DEF Types, PC
  <2>4. Path'
    BY <1>0, <2>1, PushPath DEF f
  <2>5. Placed' /\ RetTells'
    <3>1. g \in 1 .. Len(goals)
      BY <1>0 DEF Placed
    <3> QED BY <2>1, <2>2, <3>1 DEF Placed, RetTells, At
  <2> QED BY <1>2, <2>3, <2>4, <2>5 DEF Base
<1> QED BY <1>1, <1>3, <1>4, <1>5

\* A step that leaves the walk alone: to die, or to go on below.
LEMMA AsideBase ==
  ASSUME Base, Types', Outcomes', UNCHANGED <<stack, goals, g>>,
         ~Walking' \/ (/\ Walking /\ pc' \notin {"return", "pass"}
                       /\ At("goals")' => stack = <<>>
                       /\ pc' = "deps" \/ At("slots")' \/ At("started")' => stack # <<>>)
  PROVE  Base'
<1>1. CASE ~Walking'
  BY <1>1 DEF Base
<1>2. CASE Walking'
  <2>1. /\ Path /\ Placed /\ pc' \notin {"return", "pass"}
        /\ At("goals")' => stack = <<>>
        /\ pc' = "deps" \/ At("slots")' \/ At("started")' => stack # <<>>
    BY <1>2 DEF Base
  <2>2. Path'
    BY <2>1 DEF Path
  <2>3. Placed' /\ RetTells'
    BY <2>1 DEF Placed, RetTells
  <2> QED BY <2>2, <2>3 DEF Base
<1> QED BY <1>1, <1>2

\* The prerequisite that the top considers.
LEMMA CurType ==
  ASSUME Types, Path, stack # <<>>
  PROVE  /\ Top.d \in 1 .. Len(Deps[Top.f]) + 1 /\ Top.d \in Nat
         /\ \A k \in 1 .. Len(Deps[Top.f]) : Deps[Top.f][k] \in File
         /\ Top.d <= Len(Deps[Top.f]) => Cur \in File
<1>1. /\ Len(stack) \in Nat \ {0} /\ Top \in Frame /\ Top.f \in File
      /\ Deps[Top.f] \in Seq(File) /\ Len(Deps[Top.f]) \in Nat
  BY TopType
<1>2. Top.d \in 1 .. Len(Deps[Top.f]) + 1
  <2>1. Len(stack) \in 1 .. Len(stack)
    BY <1>1
  <2> QED BY <2>1 DEF Path, Top
<1>3. \A k \in 1 .. Len(Deps[Top.f]) : Deps[Top.f][k] \in File
  BY <1>1
<1> QED BY <1>1, <1>2, <1>3 DEF Cur

LEMMA PassBase == Base /\ Pass /\ UNCHANGED opt => Base'
<1> SUFFICES ASSUME Base, Pass, UNCHANGED opt PROVE Base'
  OBVIOUS
<1>0. /\ pc = "pass" /\ Types /\ Outcomes /\ stack = <<>>
      /\ UNCHANGED <<stack, ret, goals, considered, seen, state, updated, ustat, mtime, line, proc>>
  BY DEF Pass, Base, Walking, Placed, filevars
<1>1. /\ pc' \in PC /\ call' \in Call /\ g' \in Nat \ {0} /\ status' \in {0, 2}
      /\ pc' = "reap" \/ pc' = "die"
  <2>1. CASE goals # <<>>
    <3>1. /\ pc' = "reap" /\ g' = 1 /\ status' = status
          /\ call' = [block |-> TRUE, err |-> FALSE, to |-> "goals"]
      BY <2>1 DEF Pass, CallReap
    <3>2. call' \in Call
      BY <3>1 DEF Call
    <3> QED BY <1>0, <3>1, <3>2 DEF PC, Types
  <2>2. CASE goals = <<>>
    <3>1. pc' = "die" /\ call' = [NoCall EXCEPT !.err = (status # 0)] /\ g' = g /\ status' = status
      BY <1>0, <2>2 DEF Pass
    <3>2. (status # 0) \in BOOLEAN
      OBVIOUS
    <3>3. call' \in Call
      BY <3>1, <3>2 DEF Call, NoCall
    <3> QED BY <1>0, <3>1, <3>3 DEF Types, PC
  <2> QED BY <2>1, <2>2
<1>2. Types' /\ Outcomes'
  BY <1>0, <1>1 DEF Types, Outcomes
<1>3. Path' /\ Placed' /\ RetTells'
  <2>1. call'.to = "goals" /\ pc' # "return"
    BY <1>0 DEF Pass, CallReap, NoCall
  <2> QED BY <1>0, <1>1, <2>1 DEF Path, Placed, At, RetTells
<1> QED BY <1>2, <1>3 DEF Base

LEMMA GoalBase == Base /\ Goal /\ UNCHANGED opt => Base'
<1> SUFFICES ASSUME Base, Goal, UNCHANGED opt PROVE Base'
  OBVIOUS
<1>0. /\ pc = "goals" /\ Types /\ Outcomes /\ stack = <<>>
      /\ UNCHANGED <<goals, g, filevars>>
  BY DEF Goal, Base, Walking, Placed, At
<1>1. CASE g <= Len(goals) /\ UpdateFile(goals[g]) /\ UNCHANGED considered
  <2>1. g \in 1 .. Len(goals) /\ goals[g] \in File
    BY <1>0, <1>1 DEF Types
  <2> QED BY <1>0, <1>1, <2>1, WalkBase DEF Asked
<1>2. CASE /\ pc' = "pass" /\ considered' = ~considered
           /\ UNCHANGED <<call, stack, ret, status, seen>>
  <2>1. Types' /\ Outcomes'
    <3>1. UNCHANGED <<state, updated, ustat, mtime, line, proc>>
      BY <1>0 DEF filevars
    <3>2. considered' \in BOOLEAN
      BY <1>2
    <3> QED BY <1>0, <1>2, <3>1, <3>2 DEF Types, Outcomes, PC
  <2>2. Path' /\ Placed' /\ RetTells'
    BY <1>0, <1>2 DEF Path, Placed, At, RetTells
  <2> QED BY <2>1, <2>2 DEF Base
<1> QED BY <1>1, <1>2 DEF Goal

\* Taking a goal out of the chain.
LEMMA RestType ==
  ASSUME Types, g \in 1 .. Len(goals),
         NEW rest, rest = SubSeq(goals, 1, g - 1) \o SubSeq(goals, g + 1, Len(goals))
  PROVE  /\ rest \in Seq(File) /\ Len(rest) = Len(goals) - 1
         /\ \A k \in 1 .. g - 1 : rest[k] = goals[k]
         /\ \A k \in g .. Len(goals) - 1 : rest[k] = goals[k + 1]
<1> DEFINE n == Len(goals)
           a == SubSeq(goals, 1, g - 1)
           b == SubSeq(goals, g + 1, n)
<1>1. /\ n \in Nat /\ g \in Int /\ g - 1 \in Int /\ g + 1 \in Int /\ n \in Int /\ 1 \in Int
      /\ 1 <= g /\ g <= n
      /\ \A k \in 1 .. n : goals[k] \in File
  BY DEF Types
<1>2. (\A k \in 1 .. g - 1 : goals[k] \in File) /\ (\A k \in g + 1 .. n : goals[k] \in File)
  BY <1>1
<1>3. /\ a \in Seq(File) /\ Len(a) = IF 1 <= g - 1 THEN g - 1 - 1 + 1 ELSE 0
      /\ \A i \in 1 .. g - 1 - 1 + 1 : a[i] = goals[1 + i - 1]
  BY <1>1, <1>2, SubSeqProperties
<1>4. /\ b \in Seq(File) /\ Len(b) = IF g + 1 <= n THEN n - (g + 1) + 1 ELSE 0
      /\ \A i \in 1 .. n - (g + 1) + 1 : b[i] = goals[g + 1 + i - 1]
  BY <1>1, <1>2, SubSeqProperties
<1>5. Len(a) = g - 1 /\ Len(b) = n - g
  BY <1>1, <1>3, <1>4
<1>6. \A i \in 1 .. g - 1 : a[i] = goals[i]
  <2>1. g - 1 - 1 + 1 = g - 1 /\ \A i \in 1 .. g - 1 : 1 + i - 1 = i
    BY <1>1
  <2> QED BY <1>3, <2>1
<1>7. \A i \in 1 .. n - g : b[i] = goals[g + i]
  <2>1. n - (g + 1) + 1 = n - g /\ \A i \in 1 .. n - g : g + 1 + i - 1 = g + i
    BY <1>1
  <2> QED BY <1>4, <2>1
<1>8. rest = a \o b
  OBVIOUS
<1> HIDE DEF a, b, n
<1>9. /\ rest \in Seq(File) /\ Len(rest) = Len(a) + Len(b)
      /\ \A k \in 1 .. Len(a) + Len(b) : rest[k] = IF k <= Len(a) THEN a[k] ELSE b[k - Len(a)]
  <2>1. a \in Seq(File) /\ b \in Seq(File)
    BY <1>3, <1>4
  <2>2. /\ a \o b \in Seq(File) /\ Len(a \o b) = Len(a) + Len(b)
        /\ \A k \in 1 .. Len(a) + Len(b) :
              (a \o b)[k] = IF k <= Len(a) THEN a[k] ELSE b[k - Len(a)]
    BY <2>1, ConcatProperties, Zenon
  <2> QED BY <1>8, <2>2
<1>10. /\ Len(rest) = n - 1
       /\ \A k \in 1 .. n - 1 : rest[k] = IF k <= g - 1 THEN a[k] ELSE b[k - (g - 1)]
  <2>1. Len(a) + Len(b) = n - 1
    BY <1>1, <1>5
  <2>2. Len(rest) = n - 1
    BY <1>9, <2>1
  <2>3. ASSUME NEW k \in 1 .. n - 1
        PROVE  rest[k] = IF k <= g - 1 THEN a[k] ELSE b[k - (g - 1)]
    <3>1. k \in 1 .. Len(a) + Len(b)
      BY <2>1
    <3>2. rest[k] = IF k <= Len(a) THEN a[k] ELSE b[k - Len(a)]
      BY <1>9, <3>1
    <3> QED BY <1>5, <3>2
  <2> QED BY <2>2, <2>3
<1>11. ASSUME NEW k \in g .. n - 1 PROVE rest[k] = goals[k + 1]
  <2>1. k \in 1 .. n - 1 /\ ~(k <= g - 1) /\ k - (g - 1) \in 1 .. n - g /\ g + (k - (g - 1)) = k + 1
    BY <1>1
  <2> QED BY <1>7, <1>10, <2>1
<1>12. ASSUME NEW k \in 1 .. g - 1 PROVE rest[k] = goals[k]
  <2>1. k \in 1 .. n - 1 /\ k <= g - 1
    BY <1>1
  <2> QED BY <1>6, <1>10, <2>1
<1> QED BY <1>9, <1>10, <1>11, <1>12 DEF n

LEMMA GoalReturnBase == Base /\ GoalReturn /\ UNCHANGED opt => Base'
<1> SUFFICES ASSUME Base, GoalReturn, UNCHANGED opt PROVE Base'
  OBVIOUS
<1> DEFINE f == goals[g]
           rest == SubSeq(goals, 1, g - 1) \o SubSeq(goals, g + 1, Len(goals))
<1>0. /\ pc = "return" /\ Types /\ Outcomes /\ stack = <<>> /\ g \in 1 .. Len(goals)
      /\ RetTells /\ Asked = f
      /\ UNCHANGED <<call, stack, ret, seen, state, updated, ustat, mtime, line, proc>>
  BY DEF GoalReturn, Base, Walking, Placed, filevars, Asked
<1>1. f \in File /\ rest \in Seq(File)
  <2>1. f \in File
    BY <1>0 DEF Types
  <2> QED BY <1>0, <2>1, RestType
<1>2. status' \in {0, 2}
  <2>1. ret # 0 \/ updated[f] => ustat[f] # -1
    BY <1>0, <1>1 DEF RetTells, Outcomes, Types
  <2>2. ustat[f] \in {-1, 0, 2} /\ status \in {0, 2}
    BY <1>0, <1>1 DEF Types
  <2>3. status' = status \/ (status' = ustat[f] /\ (ret # 0 \/ updated[f]))
    BY DEF GoalReturn
  <2> QED BY <2>1, <2>2, <2>3
<1>3. goals' \in {goals, rest} /\ g' \in {g, g + 1} /\ pc' \in {"pass", "goals"}
      /\ considered' \in {considered, ~considered}
  BY DEF GoalReturn
<1>4. g' \in Nat \ {0} /\ goals' \in Seq(File) /\ considered' \in BOOLEAN
  <2>1. g \in Nat \ {0} /\ goals \in Seq(File) /\ considered \in BOOLEAN
    BY <1>0 DEF Types
  <2>2. considered' \in BOOLEAN
    BY <1>3, <2>1
  <2>3. g' \in Nat \ {0}
    BY <1>3, <2>1
  <2> QED BY <1>1, <1>3, <2>1, <2>2, <2>3
<1> HIDE DEF f, rest
<1>5. Types' /\ Outcomes'
  BY <1>0, <1>2, <1>3, <1>4 DEF Types, Outcomes, PC
<1>6. Path' /\ Placed' /\ RetTells'
  BY <1>0, <1>3 DEF Path, Placed, At, RetTells
<1> QED BY <1>5, <1>6 DEF Base

LEMMA DepBase == Base /\ Dep /\ UNCHANGED opt => Base'
<1> SUFFICES ASSUME Base, Dep, UNCHANGED opt PROVE Base'
  OBVIOUS
<1>1. /\ pc = "deps" /\ Types /\ Path /\ stack # <<>> /\ Top.d <= Len(Deps[Top.f])
      /\ UpdateFile(Cur) /\ UNCHANGED <<goals, g, considered, filevars>>
  BY DEF Dep, Base, Walking, Placed, At, Cur
<1>2. Asked = Cur /\ Cur \in File
  BY <1>1, CurType DEF Asked
<1> QED BY <1>1, <1>2, WalkBase

\* What becomes of the top when update_file returns to it.
LEMMA JudgeTop ==
  ASSUME Types, Path, DepReturn
  PROVE  /\ stack # <<>> /\ Top.d <= Len(Deps[Top.f]) /\ pc = "return" /\ pc' = "deps"
         /\ stack' = SetTop(Top') /\ Top' \in Frame
         /\ stack' \in Seq(Frame) /\ stack' # <<>> /\ Len(stack') = Len(stack)
         /\ \A k \in 1 .. Len(stack) - 1 : stack'[k] = stack[k]
         /\ Top'.f = Top.f
         /\ Top'.d = IF (Top.dep_status # 0 \/ ret # 0) /\ ~KeepGoing
                       THEN Len(Deps[Top.f]) + 1 ELSE Top.d + 1
         /\ Top'.dep_status = IF ret # 0 THEN ret ELSE Top.dep_status
         /\ Top'.running <=> Top.running \/ BeingMade
         /\ Top'.must_make <=> Top.must_make \/ Newer
<1> DEFINE d == IF (Top.dep_status # 0 \/ ret # 0) /\ ~KeepGoing
                  THEN Len(Deps[Top.f]) + 1 ELSE Top.d + 1
           ds == IF ret # 0 THEN ret ELSE Top.dep_status
           run == Top.running \/ BeingMade
           must == Top.must_make \/ Newer
           fr == [Top EXCEPT !.d = d, !.dep_status = ds, !.running = run, !.must_make = must]
<1>1. /\ stack # <<>> /\ Top.d <= Len(Deps[Top.f]) /\ pc = "return" /\ pc' = "deps"
      /\ stack' = SetTop(fr)
  BY DEF DepReturn, Returned, Judge
<1>2. Top \in Frame /\ Len(Deps[Top.f]) \in Nat /\ Top.d \in Nat /\ ret \in {0, 2}
  BY <1>1, TopType, CurType DEF Types
<1>3. d \in Nat
  BY <1>2
<1>4. ds \in {0, 2}
  BY <1>2 DEF Frame
<1>5. run \in BOOLEAN /\ must \in BOOLEAN
  OBVIOUS
<1> HIDE DEF d, ds, run, must
<1>6. /\ fr \in Frame /\ fr.f = Top.f /\ fr.d = d /\ fr.dep_status = ds /\ fr.running = run
      /\ fr.must_make = must
  BY <1>2, <1>3, <1>4, <1>5 DEF Frame
<1> HIDE DEF fr
<1>7. /\ stack' \in Seq(Frame) /\ Len(stack') = Len(stack) /\ stack' # <<>>
      /\ \A k \in 1 .. Len(stack) - 1 : stack'[k] = stack[k]
      /\ Top' = fr
  BY <1>1, <1>6, SetStack
<1>8. Top'.running <=> Top.running \/ BeingMade
  BY <1>6, <1>7, Zenon DEF run
<1>9. Top'.must_make <=> Top.must_make \/ Newer
  BY <1>6, <1>7, Zenon DEF must
<1> QED BY <1>1, <1>6, <1>7, <1>8, <1>9 DEF d, ds

LEMMA DepReturnBase == Base /\ DepReturn /\ UNCHANGED opt => Base'
<1> SUFFICES ASSUME Base, DepReturn, UNCHANGED opt PROVE Base'
  OBVIOUS
<1>0. /\ pc = "return" /\ Types /\ Outcomes /\ Path /\ Placed
      /\ UNCHANGED <<call, ret, goals, g, status, considered, seen, state, updated, ustat,
                     mtime, line, proc>>
  BY DEF DepReturn, Returned, Base, Walking, filevars
<1>1. /\ stack # <<>> /\ Top.d <= Len(Deps[Top.f]) /\ pc' = "deps"
      /\ stack' = SetTop(Top') /\ Top' \in Frame
      /\ stack' \in Seq(Frame) /\ stack' # <<>>
      /\ Top'.f = Top.f
      /\ Top'.d \in {Len(Deps[Top.f]) + 1, Top.d + 1}
  BY <1>0, JudgeTop
<1>2. Types' /\ Outcomes'
  BY <1>0, <1>1 DEF Types, Outcomes, PC
<1>3. Path'
  <2>1. Top'.d \in 1 .. Len(Deps[Top.f]) + 1
    <3>1. Len(Deps[Top.f]) \in Nat /\ Top.d \in 1 .. Len(Deps[Top.f]) + 1
      BY <1>0, <1>1, TopType, CurType
    <3> QED BY <1>1, <3>1
  <2> QED BY <1>0, <1>1, <2>1, SetPath
<1>4. Placed' /\ RetTells'
  BY <1>0, <1>1 DEF Placed, At, RetTells
<1> QED BY <1>2, <1>3, <1>4 DEF Base

\* Finishing a file leaves the types of files alone, and gives it an outcome.
FileTypes ==
  /\ state \in [File -> State] /\ updated \in [File -> BOOLEAN]
  /\ ustat \in [File -> {-1, 0, 2}] /\ mtime \in [File -> 0 .. New]
  /\ line \in [File -> Nat] /\ proc \in [File -> {"none", "run", "ok", "fail"}]

LEMMA SettleTypes ==
  ASSUME Types, Outcomes, NEW f \in File, NEW r \in {0, 2}, NEW s \in [File -> State],
         Settle(f, r, s), \A h \in File : s[h] = "finished" => state[h] = "finished"
  PROVE  FileTypes' /\ Outcomes' /\ ustat'[f] = r
BY DEF Types, FileTypes, Outcomes, Settle, State

LEMMA WaitingTypes ==
  ASSUME Types, NEW f \in File
  PROVE  /\ NoLongerWaiting(f) \in [File -> State]
         /\ \A h \in File : NoLongerWaiting(f)[h] = "finished" => state[h] = "finished"
BY DEF Types, NoLongerWaiting, set_command_state, State

LEMMA NoticeTypes ==
  ASSUME Types, Outcomes, NEW f \in File, NEW r \in {0, 2}, NEW t, Notice(f, r, t)
  PROVE  FileTypes' /\ Outcomes'
<1>1. PICK m \in [Group(f) -> 0 .. New] :
        mtime' = [h \in File |-> IF h \in Group(f) THEN m[h] ELSE mtime[h]]
  BY DEF Notice
<1>2. mtime' \in [File -> 0 .. New]
  BY <1>1 DEF Types
<1>3. state' = [h \in File |-> IF h \in Group(f) THEN "finished" ELSE state[h]]
  BY DEF Notice, set_command_state
<1>4. /\ updated' = [h \in File |-> updated[h] \/ h \in Group(f)]
      /\ ustat' = [h \in File |-> IF h \in Group(f) THEN r ELSE ustat[h]]
      /\ proc' = [proc EXCEPT ![f] = "none"] /\ line' = line
  BY DEF Notice
<1>5. state' \in [File -> State] /\ ustat' \in [File -> {-1, 0, 2}] /\ line' \in [File -> Nat]
      /\ proc' \in [File -> {"none", "run", "ok", "fail"}]
  BY <1>3, <1>4 DEF Types, State
<1>6. updated' \in [File -> BOOLEAN]
  <2>1. \A h \in File : (updated[h] \/ h \in Group(f)) \in BOOLEAN
    OBVIOUS
  <2> QED BY <1>4, <2>1
<1>7. Outcomes'
  <2> SUFFICES ASSUME NEW h \in File, updated'[h] \/ state'[h] = "finished"
               PROVE  ustat'[h] # -1
    BY DEF Outcomes
  <2>1. CASE h \in Group(f)
    BY <1>4, <2>1
  <2>2. CASE h \notin Group(f)
    <3>1. updated[h] \/ state[h] = "finished"
      BY <1>3, <1>4, <2>2
    <3> QED BY <1>4, <2>2, <3>1 DEF Outcomes
  <2> QED BY <2>1, <2>2
<1> QED BY <1>2, <1>5, <1>6, <1>7 DEF FileTypes

\* update_file_1 returns.
LEMMA PopBase ==
  ASSUME Base, Walking, stack # <<>>, stack' = Pop, pc' = "return", NEW r \in {0, 2}, ret' = r,
         r # 0 => ustat'[Top.f] = r, FileTypes', Outcomes',
         UNCHANGED <<opt, call, goals, g, status, considered, seen>>
  PROVE  Base'
<1>0. Types /\ Path /\ Placed
  BY DEF Base
<1>1. stack' \in Seq(Frame)
  BY <1>0, PopStack
<1>2. Types'
  BY <1>0, <1>1 DEF Types, FileTypes, PC
<1>3. Path' /\ Asked' = Top.f /\ (stack' # <<>> => Top'.d <= Len(Deps[Top'.f]))
  BY <1>0, PopPath
<1>4. Placed' /\ RetTells'
  <2>1. g \in 1 .. Len(goals)
    BY <1>0 DEF Placed
  <2> QED BY <1>3, <2>1 DEF Placed, At, RetTells
<1> QED BY <1>2, <1>3, <1>4 DEF Base

\* What is known while update_file_1 considers a target.
LEMMA AtTop ==
  ASSUME Base, pc = "deps" \/ pc = "slots" \/ pc = "started"
  PROVE  /\ Walking /\ Types /\ Outcomes /\ Path /\ Placed /\ stack # <<>>
         /\ Top \in Frame /\ Top.f \in File /\ Top.d \in Nat /\ Len(Deps[Top.f]) \in Nat
         /\ g \in 1 .. Len(goals)
<1>1. Walking
  BY DEF Walking
<1>2. Types /\ Outcomes /\ Path /\ Placed
  BY <1>1 DEF Base
<1>3. stack # <<>>
  BY <1>2 DEF Placed, At
<1> QED BY <1>1, <1>2, <1>3, TopType, CurType DEF Placed

LEMMA DepsRunningBase == Base /\ DepsRunning /\ UNCHANGED opt => Base'
<1> SUFFICES ASSUME Base, DepsRunning, UNCHANGED opt PROVE Base'
  OBVIOUS
<1>1. pc = "deps"
  BY DEF DepsRunning, AllDeps
<1>2. /\ Walking /\ Types /\ Outcomes /\ stack # <<>> /\ Top.f \in File
  BY <1>1, AtTop
<1>3. FileTypes' /\ Outcomes'
  BY <1>2 DEF DepsRunning, FileTypes, Types, Outcomes, set_command_state, State
<1> QED BY <1>2, <1>3, PopBase DEF DepsRunning, Return

LEMMA DepFailedBase == Base /\ DepFailed /\ UNCHANGED opt => Base'
<1> SUFFICES ASSUME Base, DepFailed, UNCHANGED opt PROVE Base'
  OBVIOUS
<1>1. pc = "deps"
  BY DEF DepFailed, AllDeps
<1>2. /\ Walking /\ Types /\ Outcomes /\ stack # <<>> /\ Top.f \in File /\ Top.dep_status \in {0, 2}
  BY <1>1, AtTop DEF Frame
<1>3. state \in [File -> State]
  BY <1>2 DEF Types
<1>4. FileTypes' /\ Outcomes' /\ ustat'[Top.f] = Top.dep_status
  BY <1>2, <1>3, SettleTypes DEF DepFailed
<1> QED BY <1>2, <1>4, PopBase DEF DepFailed, Return

LEMMA NoNeedBase == Base /\ NoNeed /\ UNCHANGED opt => Base'
<1> SUFFICES ASSUME Base, NoNeed, UNCHANGED opt PROVE Base'
  OBVIOUS
<1>1. pc = "deps"
  BY DEF NoNeed, DepsDone, AllDeps
<1>2. /\ Walking /\ Types /\ Outcomes /\ stack # <<>> /\ Top.f \in File
  BY <1>1, AtTop
<1>3. FileTypes' /\ Outcomes'
  BY <1>2, WaitingTypes, SettleTypes DEF NoNeed
<1> QED BY <1>2, <1>3, PopBase DEF NoNeed, Return

LEMMA NoRuleBase == Base /\ NoRule /\ UNCHANGED opt => Base'
<1> SUFFICES ASSUME Base, NoRule, UNCHANGED opt PROVE Base'
  OBVIOUS
<1>1. pc = "deps"
  BY DEF NoRule, DepsDone, AllDeps
<1>2. /\ Walking /\ Types /\ Outcomes /\ stack # <<>> /\ Top.f \in File
  BY <1>1, AtTop
<1>3. CASE Settle(Top.f, 2, state) /\ stack' = Pop /\ Return(2) /\ UNCHANGED <<call, status>>
  <2>1. state \in [File -> State]
    BY <1>2 DEF Types
  <2>2. FileTypes' /\ Outcomes' /\ ustat'[Top.f] = 2
    BY <1>2, <1>3, <2>1, SettleTypes
  <2> QED BY <1>2, <1>3, <2>2, PopBase DEF NoRule, Return
<1>4. CASE Die /\ UNCHANGED <<stack, ret, filevars>>
  <2>1. pc' = "die" /\ call' \in Call /\ status' = 2
    BY <1>1, <1>4 DEF Die, Call, NoCall
  <2>2. UNCHANGED <<goals, g, considered, seen>>
    BY DEF NoRule
  <2>3. Types' /\ Outcomes'
    BY <1>2, <1>4, <2>1, <2>2 DEF Types, Outcomes, PC, filevars
  <2> QED BY <2>1, <2>3 DEF Base, Walking
<1> QED BY <1>3, <1>4 DEF NoRule

LEMMA ExecuteBase == Base /\ Execute /\ UNCHANGED opt => Base'
<1> SUFFICES ASSUME Base, Execute, UNCHANGED opt PROVE Base'
  OBVIOUS
<1>1. pc = "deps"
  BY DEF Execute, DepsDone, AllDeps
<1>2. /\ Walking /\ Types /\ Outcomes /\ stack # <<>> /\ Top.f \in File
  BY <1>1, AtTop
<1>3. pc' = "reap" /\ call' = [block |-> FALSE, err |-> FALSE, to |-> "slots"]
  BY DEF Execute, CallReap
<1>4. call' \in Call /\ pc' \in PC /\ call'.to = "slots"
  BY <1>3 DEF Call, PC
<1>5. Types' /\ Outcomes'
  <2>1. state' \in [File -> State] /\ \A h \in File : state'[h] = "finished" => state[h] = "finished"
    BY <1>2, WaitingTypes DEF Execute
  <2>2. UNCHANGED <<stack, ret, goals, g, considered, seen, status, updated, ustat, mtime, line, proc>>
    BY DEF Execute, walkvars
  <2> QED BY <1>2, <1>4, <2>1, <2>2 DEF Types, Outcomes
<1>6. UNCHANGED <<stack, goals, g>>
  BY DEF Execute, walkvars
<1>7. ~At("goals")' /\ pc' \notin {"return", "pass"}
  BY <1>3, <1>4 DEF At
<1> QED BY <1>2, <1>5, <1>6, <1>7, AsideBase

LEMMA WaitForSlotBase == Base /\ WaitForSlot /\ UNCHANGED opt => Base'
<1> SUFFICES ASSUME Base, WaitForSlot, UNCHANGED opt PROVE Base'
  OBVIOUS
<1>1. pc = "slots"
  BY DEF WaitForSlot
<1>2. /\ Walking /\ Types /\ Outcomes /\ stack # <<>>
  BY <1>1, AtTop
<1>3. pc' = "reap" /\ call' = [block |-> TRUE, err |-> FALSE, to |-> "slots"]
  BY DEF WaitForSlot, CallReap
<1>4. call' \in Call /\ pc' \in PC /\ call'.to = "slots"
  BY <1>3 DEF Call, PC
<1>5. UNCHANGED <<stack, ret, goals, g, considered, seen, status, state, updated, ustat, mtime, line, proc>>
  BY DEF WaitForSlot, walkvars, filevars
<1>6. Types' /\ Outcomes'
  BY <1>2, <1>4, <1>5 DEF Types, Outcomes
<1>7. ~At("goals")' /\ pc' \notin {"return", "pass"}
  BY <1>3, <1>4 DEF At
<1> QED BY <1>2, <1>5, <1>6, <1>7, AsideBase

LEMMA StartJobBase == Base /\ StartJob /\ UNCHANGED opt => Base'
<1> SUFFICES ASSUME Base, StartJob, UNCHANGED opt PROVE Base'
  OBVIOUS
<1>1. pc = "slots"
  BY DEF StartJob, Slot
<1>2. /\ Walking /\ Types /\ Outcomes /\ stack # <<>> /\ Top.f \in File
  BY <1>1, AtTop
<1>3. /\ UNCHANGED <<call, stack, ret, goals, g, considered, seen, status, updated, ustat, mtime>>
      /\ pc' = "started"
  BY DEF StartJob, walkvars
<1>4. /\ state' = [h \in File |-> IF h \in Group(Top.f) THEN "running" ELSE state[h]]
      /\ line' = [line EXCEPT ![Top.f] = 1] /\ proc' = [proc EXCEPT ![Top.f] = "run"]
  BY DEF StartJob, set_command_state
<1>5. /\ state' \in [File -> State] /\ line' \in [File -> Nat]
      /\ proc' \in [File -> {"none", "run", "ok", "fail"}]
  BY <1>2, <1>4 DEF Types, State
<1>6. Types' /\ Outcomes'
  BY <1>2, <1>3, <1>4, <1>5 DEF Types, Outcomes, PC
<1>7. ~At("goals")' /\ pc' \notin {"return", "pass"}
  BY <1>3 DEF At
<1> QED BY <1>2, <1>3, <1>6, <1>7, AsideBase

LEMMA StartNothingBase == Base /\ StartNothing /\ UNCHANGED opt => Base'
<1> SUFFICES ASSUME Base, StartNothing, UNCHANGED opt PROVE Base'
  OBVIOUS
<1>1. pc = "slots"
  BY DEF StartNothing, Slot
<1>2. /\ Walking /\ Types /\ Outcomes /\ stack # <<>> /\ Top.f \in File
  BY <1>1, AtTop
<1>3. /\ UNCHANGED <<call, stack, ret, goals, g, considered, seen, status>>
      /\ pc' = "started"
  BY DEF StartNothing, walkvars
<1>4. FileTypes' /\ Outcomes'
  <2>1. state \in [File -> State] /\ (IF Lines[Top.f] = 0 THEN 0 ELSE 2) \in {0, 2}
    BY <1>2 DEF Types
  <2> QED BY <1>2, <2>1, SettleTypes DEF StartNothing
<1>5. Types'
  BY <1>2, <1>3, <1>4 DEF Types, FileTypes, PC
<1>7. ~At("goals")' /\ pc' \notin {"return", "pass"}
  BY <1>3 DEF At
<1> QED BY <1>2, <1>3, <1>4, <1>5, <1>7, AsideBase

LEMMA JobStartedBase == Base /\ JobStarted /\ UNCHANGED opt => Base'
<1> SUFFICES ASSUME Base, JobStarted, UNCHANGED opt PROVE Base'
  OBVIOUS
<1>1. pc = "started"
  BY DEF JobStarted
<1>2. /\ Walking /\ Types /\ Outcomes /\ stack # <<>> /\ Top.f \in File
  BY <1>1, AtTop
<1>3. UNCHANGED <<goals, g, considered, seen, status, state, updated, ustat, mtime, line, proc>>
  BY DEF JobStarted, filevars
<1>4. CASE CallReap(TRUE, FALSE, "started") /\ UNCHANGED <<stack, ret>>
  <2>1. pc' = "reap" /\ call' = [block |-> TRUE, err |-> FALSE, to |-> "started"]
    BY <1>4 DEF CallReap
  <2>2. call' \in Call /\ pc' \in PC /\ call'.to = "started"
    BY <2>1 DEF Call, PC
  <2>3. Types' /\ Outcomes'
    BY <1>2, <1>3, <1>4, <2>2 DEF Types, Outcomes
  <2>4. ~At("goals")' /\ pc' \notin {"return", "pass"}
    BY <2>1, <2>2 DEF At
  <2> QED BY <1>2, <1>3, <1>4, <2>3, <2>4, AsideBase
<1>5. CASE /\ stack' = Pop
           /\ Return(IF state[Top.f] = "finished" THEN ustat[Top.f] ELSE 0)
           /\ UNCHANGED call
  <2> DEFINE r == IF state[Top.f] = "finished" THEN ustat[Top.f] ELSE 0
  <2>1. r \in {0, 2} /\ (r # 0 => ustat[Top.f] = r)
    BY <1>2 DEF Types, Outcomes
  <2>2. FileTypes' /\ Outcomes'
    BY <1>2, <1>3 DEF Types, FileTypes, Outcomes
  <2>3. stack' = Pop /\ pc' = "return" /\ ret' = r /\ ustat' = ustat /\ UNCHANGED call
    BY <1>3, <1>5 DEF Return
  <2> HIDE DEF r
  <2>4. r # 0 => ustat'[Top.f] = r
    BY <2>1, <2>3
  <2> QED BY <1>2, <1>3, <2>1, <2>2, <2>3, <2>4, PopBase
<1> QED BY <1>4, <1>5 DEF JobStarted

\* A child is reaped.
LEMMA ReapAside ==
  ASSUME Base, pc = "reap", Types', Outcomes', UNCHANGED <<stack, goals, g>>,
         (pc' = "reap" /\ call'.to = call.to) \/ ~Walking'
  PROVE  Base'
<1>1. CASE ~Walking'
  BY <1>1, AsideBase
<1>2. CASE Walking' /\ pc' = "reap" /\ call'.to = call.to
  <2>1. Walking
    BY <1>2 DEF Walking
  <2>2. Placed
    BY <2>1 DEF Base
  <2>3. /\ At("goals")' => stack = <<>>
        /\ pc' = "deps" \/ At("slots")' \/ At("started")' => stack # <<>>
    BY <1>2, <2>2 DEF At, Placed
  <2> QED BY <1>2, <2>1, <2>3, AsideBase
<1> QED BY <1>1, <1>2

LEMMA ReapReturnBase == Base /\ ReapReturn /\ UNCHANGED opt => Base'
<1> SUFFICES ASSUME Base, ReapReturn, UNCHANGED opt PROVE Base'
  OBVIOUS
<1>1. /\ pc = "reap" /\ pc' = call.to /\ call' = NoCall
      /\ UNCHANGED <<stack, ret, goals, g, considered, seen, status, state, updated, ustat,
                     mtime, line, proc>>
  BY DEF ReapReturn, walkvars, filevars
<1>2. Types /\ Outcomes /\ call.to \in {"goals", "slots", "started", "die"}
  BY DEF Base, Types, Call
<1>3. call' \in Call /\ pc' \in PC
  BY <1>1, <1>2 DEF Call, NoCall, PC
<1>4. Types' /\ Outcomes'
  BY <1>1, <1>2, <1>3 DEF Types, Outcomes
<1>5. CASE call.to = "die"
  BY <1>1, <1>4, <1>5, AsideBase DEF Walking
<1>6. CASE call.to # "die"
  <2>1. Walking
    BY <1>1, <1>6 DEF Walking
  <2>2. Placed
    BY <2>1 DEF Base
  <2>3. pc' \in {"goals", "slots", "started"} /\ At(pc')
    BY <1>1, <1>2, <1>6 DEF At
  <2>4. /\ At("goals")' => stack = <<>>
        /\ pc' = "deps" \/ At("slots")' \/ At("started")' => stack # <<>>
    BY <2>2, <2>3 DEF At, Placed
  <2> QED BY <1>1, <1>4, <2>1, <2>3, <2>4, AsideBase
<1> QED BY <1>5, <1>6

LEMMA ReapNextLineBase ==
  ASSUME Base, NEW f \in File, ReapNextLine(f), UNCHANGED opt
  PROVE  Base'
<1>1. /\ pc = "reap" /\ UNCHANGED <<pc, call, stack, ret, goals, g, considered, seen, status,
                                    state, updated, ustat, mtime>>
      /\ line' = [line EXCEPT ![f] = @ + 1] /\ proc' = [proc EXCEPT ![f] = "run"]
  BY DEF ReapNextLine, Reapable, walkvars
<1>2. Types /\ Outcomes
  BY DEF Base
<1>3. line' \in [File -> Nat] /\ proc' \in [File -> {"none", "run", "ok", "fail"}]
  <2>1. line \in [File -> Nat] /\ proc \in [File -> {"none", "run", "ok", "fail"}]
    BY <1>2 DEF Types
  <2>2. line[f] + 1 \in Nat
    BY <2>1
  <2> QED BY <1>1, <2>1, <2>2
<1>4. Types' /\ Outcomes'
  BY <1>1, <1>2, <1>3 DEF Types, Outcomes
<1> QED BY <1>1, <1>4, ReapAside

LEMMA ReapFinishedBase ==
  ASSUME Base, NEW f \in File, ReapFinished(f), UNCHANGED opt
  PROVE  Base'
<1>1. /\ pc = "reap" /\ UNCHANGED <<pc, stack, ret, goals, g, considered, seen, status>>
      /\ call' = [call EXCEPT !.block = FALSE]
  BY DEF ReapFinished, Reapable, walkvars
<1>2. Types /\ Outcomes
  BY DEF Base
<1>3. FileTypes' /\ Outcomes'
  <2>1. PICK r \in {0, 2} : Notice(f, r, Touched) \/ Notice(f, r, [Remains EXCEPT ![f] = {0}])
    BY DEF ReapFinished
  <2> QED BY <1>2, <2>1, NoticeTypes
<1>4. call' \in Call /\ call'.to = call.to
  <2>1. call \in Call
    BY <1>2 DEF Types
  <2> QED BY <1>1, <2>1 DEF Call
<1>5. Types'
  BY <1>1, <1>2, <1>3, <1>4 DEF Types, FileTypes
<1> QED BY <1>1, <1>3, <1>4, <1>5, ReapAside

LEMMA ReapFailedBase ==
  ASSUME Base, NEW f \in File, ReapFailed(f), UNCHANGED opt
  PROVE  Base'
<1>1. /\ pc = "reap" /\ UNCHANGED <<stack, ret, goals, g, considered, seen>>
  BY DEF ReapFailed, Reapable, walkvars
<1>2. Types /\ Outcomes
  BY DEF Base
<1>3. FileTypes' /\ Outcomes'
  <2>1. Notice(f, 2, IF DeleteOnError THEN Deleted(f) ELSE Remains)
    BY DEF ReapFailed
  <2> QED BY <1>2, <2>1, NoticeTypes
<1>4. /\ call' \in Call /\ pc' \in PC /\ status' \in {0, 2}
      /\ (pc' = "reap" /\ call'.to = call.to) \/ pc' \in {"die", "exit"}
  <2>1. call \in Call
    BY <1>2 DEF Types
  <2>2. CASE call' = [call EXCEPT !.block = FALSE] /\ UNCHANGED <<pc, status>>
    <3>1. call' \in Call /\ call'.to = call.to
      BY <2>1, <2>2 DEF Call
    <3> QED BY <1>1, <1>2, <2>2, <3>1 DEF Types, PC
  <2>3. CASE Die
    BY <2>3 DEF Die, Call, NoCall, PC
  <2> QED BY <2>2, <2>3 DEF ReapFailed
<1>5. Types'
  BY <1>1, <1>2, <1>3, <1>4 DEF Types, FileTypes
<1> QED BY <1>1, <1>3, <1>4, <1>5, ReapAside DEF Walking

LEMMA DieWaitBase == Base /\ DieWait /\ UNCHANGED opt => Base'
<1> SUFFICES ASSUME Base, DieWait, UNCHANGED opt PROVE Base'
  OBVIOUS
<1>1. /\ pc' = "reap" /\ call' = [block |-> TRUE, err |-> call.err, to |-> "die"]
      /\ UNCHANGED <<stack, ret, goals, g, considered, seen, status, state, updated, ustat,
                     mtime, line, proc>>
  BY DEF DieWait, CallReap, walkvars, filevars
<1>2. Types /\ Outcomes
  BY DEF Base
<1>3. call' \in Call /\ call'.to = "die"
  <2>1. call.err \in BOOLEAN
    BY <1>2 DEF Types, Call
  <2> QED BY <1>1, <2>1 DEF Call
<1>4. Types' /\ Outcomes'
  BY <1>1, <1>2, <1>3 DEF Types, Outcomes, PC
<1> QED BY <1>1, <1>3, <1>4, AsideBase DEF Walking

LEMMA ExitBase == Base /\ Exit /\ UNCHANGED opt => Base'
<1> SUFFICES ASSUME Base, Exit, UNCHANGED opt PROVE Base'
  OBVIOUS
<1>1. /\ pc' = "exited"
      /\ UNCHANGED <<call, stack, ret, goals, g, considered, seen, status, state, updated, ustat,
                     mtime, line, proc>>
  BY DEF Exit, walkvars, filevars
<1>2. Types' /\ Outcomes'
  BY <1>1 DEF Base, Types, Outcomes, PC
<1> QED BY <1>1, <1>2, AsideBase DEF Walking

LEMMA CommandExitsBase ==
  ASSUME Base, NEW f \in File, CommandExits(f), UNCHANGED opt
  PROVE  Base'
<1>1. /\ UNCHANGED <<opt, pc, call, stack, ret, goals, g, considered, seen, status, state,
                     updated, ustat, mtime, line>>
      /\ \E s \in {"ok", "fail"} : proc' = [proc EXCEPT ![f] = s]
  BY DEF CommandExits, walkvars
<1>2. proc' \in [File -> {"none", "run", "ok", "fail"}]
  BY <1>1 DEF Base, Types
<1>3. Types' /\ Outcomes'
  BY <1>1, <1>2 DEF Base, Types, Outcomes
<1>4. Walking' => Walking /\ Path' /\ Placed' /\ RetTells'
  BY <1>1 DEF Base, Walking, Path, Placed, RetTells, At, Asked, Cur, Top
<1> QED BY <1>3, <1>4 DEF Base

LEMMA StutterBase == Base /\ UNCHANGED vars => Base'
<1> SUFFICES ASSUME Base, UNCHANGED vars PROVE Base'
  OBVIOUS
<1>1. UNCHANGED <<opt, pc, call, stack, ret, goals, g, considered, seen, status, state,
                  updated, ustat, mtime, line, proc>>
  BY DEF vars
<1>2. Types' /\ Outcomes'
  BY <1>1 DEF Base, Types, Outcomes
<1>3. Walking' => Walking /\ Path' /\ Placed' /\ RetTells'
  BY <1>1 DEF Base, Walking, Path, Placed, RetTells, At, Asked, Cur, Top
<1> QED BY <1>2, <1>3 DEF Base

LEMMA NextBase == Base /\ [Next]_vars => Base'
<1> SUFFICES ASSUME Base, [Next]_vars PROVE Base'
  OBVIOUS
<1>1. CASE UNCHANGED vars
  BY <1>1, StutterBase
<1>2. CASE Next
  <2>1. CASE MakeStep /\ UNCHANGED opt
    BY <2>1, PassBase, GoalBase, GoalReturnBase, DepBase, DepReturnBase, DepsRunningBase,
       DepFailedBase, NoNeedBase, NoRuleBase, ExecuteBase, WaitForSlotBase, StartJobBase,
       StartNothingBase, JobStartedBase, ReapReturnBase, ReapNextLineBase, ReapFinishedBase,
       ReapFailedBase, DieWaitBase, ExitBase DEF MakeStep
  <2>2. CASE (\E f \in File : CommandExits(f)) /\ UNCHANGED opt
    BY <2>2, CommandExitsBase
  <2>3. CASE Finished
    BY <2>3, StutterBase DEF Finished
  <2> QED BY <1>2, <2>1, <2>2, <2>3 DEF Next
<1> QED BY <1>1, <1>2

------------------------------------------------------------------------------
(* After an error no target is begun                                       *)

\* A line of the commands of a child is running, or was.
Numbered == \A f \in File : proc[f] # "none" => line[f] >= 1

\* die () alone calls reap_children with err.
ErrDies == Walking => ~call.err

\* Without -k, and when processes can be started, make gives up at the first error.
Stops == ~KeepGoing /\ ForkFails = {}
NoErrorYet ==
  /\ \A f \in File : ustat[f] # 2
  /\ \A k \in 1 .. Len(stack) : stack[k].dep_status = 0
  /\ pc = "return" => ret = 0

Stopped == Numbered /\ ErrDies /\ (Stops /\ Walking => NoErrorYet)

\* The actions that begin a line of commands, and those that leave the children alone.
LEMMA LineCases ==
  ASSUME Next
  PROVE  \/ UNCHANGED <<line, proc>>
         \/ StartJob
         \/ \E f \in File : ReapNextLine(f)
         \/ line' = line /\ \E f \in File : proc' = [proc EXCEPT ![f] = "none"]
         \/ \E f \in File : CommandExits(f)
<1>1. CASE Pass \/ Goal \/ GoalReturn \/ Dep \/ DepReturn \/ DepsRunning
  BY <1>1 DEF Pass, Goal, GoalReturn, Dep, DepReturn, DepsRunning, filevars
<1>2. CASE DepFailed \/ NoNeed \/ NoRule \/ StartNothing
  BY <1>2 DEF DepFailed, NoNeed, NoRule, StartNothing, Settle, filevars
<1>3. CASE Execute \/ WaitForSlot \/ JobStarted \/ ReapReturn \/ DieWait \/ Exit
  BY <1>3 DEF Execute, WaitForSlot, JobStarted, ReapReturn, DieWait, Exit, filevars
<1>4. ASSUME NEW f \in File, ReapFinished(f) \/ ReapFailed(f)
      PROVE  line' = line /\ proc' = [proc EXCEPT ![f] = "none"]
  BY <1>4 DEF ReapFinished, ReapFailed, Notice
<1>5. CASE Finished
  BY <1>5 DEF Finished, vars
<1> QED BY <1>1, <1>2, <1>3, <1>4, <1>5 DEF Next, MakeStep

LEMMA NumberedStep ==
  ASSUME Types, Numbered, Next
  PROVE  Numbered'
<1>1. line \in [File -> Nat] /\ proc \in [File -> {"none", "run", "ok", "fail"}]
  BY DEF Types
<1>2. CASE UNCHANGED <<line, proc>>
  BY <1>2 DEF Numbered
<1>3. CASE StartJob
  <2>1. /\ line' = [line EXCEPT ![Top.f] = 1] /\ proc' = [proc EXCEPT ![Top.f] = "run"]
    BY <1>3 DEF StartJob
  <2> QED BY <1>1, <2>1 DEF Numbered
<1>4. ASSUME NEW f \in File, ReapNextLine(f) PROVE Numbered'
  <2>1. /\ line' = [line EXCEPT ![f] = @ + 1] /\ proc' = [proc EXCEPT ![f] = "run"]
    BY <1>4 DEF ReapNextLine
  <2> QED BY <1>1, <2>1 DEF Numbered
<1>5. ASSUME NEW f \in File, line' = line, proc' = [proc EXCEPT ![f] = "none"] PROVE Numbered'
  BY <1>1, <1>5 DEF Numbered
<1>6. ASSUME NEW f \in File, CommandExits(f) PROVE Numbered'
  <2>1. PICK s : proc' = [proc EXCEPT ![f] = s]
    BY <1>6 DEF CommandExits
  <2>2. line' = line /\ proc[f] = "run"
    BY <1>6 DEF CommandExits
  <2> QED BY <1>1, <2>1, <2>2 DEF Numbered
<1> QED BY <1>2, <1>3, <1>4, <1>5, <1>6, LineCases

LEMMA ErrDiesStep ==
  ASSUME Types, ErrDies, Next
  PROVE  ErrDies'
<1> USE DEF ErrDies, Walking
<1>0. call \in Call
  BY DEF Types
<1>1. CASE Pass
  BY <1>1 DEF Pass, CallReap
<1>2. ASSUME NEW f, pc \in {"goals", "deps"}, UpdateFile(f) PROVE ErrDies'
  BY <1>2 DEF UpdateFile, Return, Die
<1>3. CASE Goal
  BY <1>2, <1>3 DEF Goal
<1>4. CASE Dep
  BY <1>2, <1>4 DEF Dep
<1>5. CASE GoalReturn
  BY <1>5 DEF GoalReturn
<1>6. CASE DepReturn
  BY <1>6 DEF DepReturn, Returned
<1>7. CASE DepsRunning \/ DepFailed \/ NoNeed \/ NoRule
  BY <1>7 DEF DepsRunning, DepFailed, NoNeed, NoRule, DepsDone, AllDeps, Return, Die
<1>8. CASE Execute \/ WaitForSlot
  BY <1>8 DEF Execute, WaitForSlot, CallReap
<1>9. CASE StartJob \/ StartNothing
  BY <1>9 DEF StartJob, StartNothing, Slot
<1>10. CASE JobStarted
  BY <1>10 DEF JobStarted, CallReap, Return
<1>11. CASE ReapReturn
  BY <1>11 DEF ReapReturn, NoCall
<1>12. ASSUME NEW f \in File, ReapNextLine(f) \/ ReapFinished(f) \/ ReapFailed(f)
       PROVE  ErrDies'
  <2>1. UNCHANGED <<pc, call>> \/ (UNCHANGED pc /\ call' = [call EXCEPT !.block = FALSE]) \/ Die
    BY <1>12 DEF ReapNextLine, ReapFinished, ReapFailed
  <2> QED BY <1>0, <1>12, <2>1 DEF Die, Call
<1>13. CASE DieWait \/ Exit
  BY <1>13 DEF DieWait, Exit, CallReap
<1>14. ASSUME NEW f \in File, CommandExits(f) PROVE ErrDies'
  BY <1>14 DEF CommandExits
<1>15. CASE Finished
  BY <1>15 DEF Finished, vars
<1> QED BY <1>1, <1>3, <1>4, <1>5, <1>6, <1>7, <1>8, <1>9, <1>10, <1>11, <1>12, <1>13, <1>14,
     <1>15 DEF Next, MakeStep

\* No error has come up in the activations.
LEMMA PopNoError ==
  ASSUME Types, stack # <<>>, stack' = Pop,
         \A k \in 1 .. Len(stack) : stack[k].dep_status = 0
  PROVE  \A k \in 1 .. Len(stack)' : stack'[k].dep_status = 0
<1>1. Len(stack) \in Nat
  BY TopType
<1>2. \A k \in 1 .. Len(stack) - 1 : k \in 1 .. Len(stack)
  BY <1>1
<1> QED BY <1>1, <1>2, PopStack

\* update_file on a file, when there has been no error.
LEMMA WalkNoError ==
  ASSUME Types, Types', Outcomes, NoErrorYet, NEW f \in File, pc \in {"goals", "deps"},
         UpdateFile(f), Walking', UNCHANGED ustat
  PROVE  NoErrorYet'
<1>1. Pruned(f) \/ Fatal(f) \/ Aborts(f) \/ Known(f) \/ Entered(f)
  BY UpdateFileCases
<1>2. \A h \in File : ustat'[h] # 2
  BY DEF NoErrorYet
<1>3. CASE Pruned(f) \/ Known(f)
  <2>1. stack' = stack /\ ret' \in {0, ustat[f]} /\ ret' \in {0, 2}
    BY <1>3 DEF Pruned, Known, Types
  <2>2. ret' = 0
    BY <2>1 DEF NoErrorYet
  <2> QED BY <1>2, <2>1, <2>2 DEF NoErrorYet
<1>4. CASE Fatal(f) \/ Aborts(f)
  BY <1>4 DEF Fatal, Aborts, Walking
<1>5. CASE Entered(f)
  <2>1. stack' = Append(stack, NewFrame(f)) /\ pc' = "deps"
    BY <1>5 DEF Entered
  <2>2. NewFrame(f).dep_status = 0
    BY DEF NewFrame
  <2>4. ASSUME NEW k \in 1 .. Len(stack') PROVE stack'[k].dep_status = 0
    BY <2>1, <2>2, EnterStack DEF NoErrorYet
  <2> QED BY <1>2, <2>1, <2>4 DEF NoErrorYet
<1> QED BY <1>1, <1>3, <1>4, <1>5

LEMMA NoErrorStep ==
  ASSUME Base, Base', ErrDies, Stops, Walking, Walking', NoErrorYet, Next
  PROVE  NoErrorYet'
<1>0. /\ Types /\ Types' /\ Outcomes /\ Path /\ Placed /\ ~call.err /\ ~KeepGoing
      /\ \A f : f \notin ForkFails
  BY DEF Base, ErrDies, Stops
<1> DEFINE Unerred == /\ \A f \in File : ustat[f] # 2
                      /\ \A k \in 1 .. Len(stack) : stack[k].dep_status = 0
<1>1. Unerred /\ (pc = "return" => ret = 0)
  BY DEF NoErrorYet
<1>2. CASE UNCHANGED <<stack, ustat>> /\ (pc' = "return" => pc = "return" /\ ret' = ret)
  BY <1>2 DEF NoErrorYet
<1>3. CASE Pass \/ GoalReturn
  <2>1. UNCHANGED <<stack, ustat>> /\ pc' # "return"
    BY <1>3 DEF Pass, GoalReturn, filevars, CallReap
  <2> QED BY <1>2, <2>1
<1>4. CASE Goal
  <2>1. CASE UpdateFile(goals[g]) /\ g <= Len(goals)
    <3>1. goals[g] \in File
      BY <1>0, <2>1 DEF Types
    <3> QED BY <1>0, <1>4, <2>1, <3>1, WalkNoError DEF Goal, filevars
  <2>2. CASE pc' = "pass" /\ UNCHANGED <<call, stack, ret, status, seen>>
    <3>1. UNCHANGED ustat
      BY <1>4 DEF Goal, filevars
    <3> QED BY <1>2, <2>2, <3>1
  <2> QED BY <1>4, <2>1, <2>2 DEF Goal
<1>5. CASE Dep
  <2>1. pc = "deps" /\ Top.d <= Len(Deps[Top.f]) /\ UpdateFile(Cur) /\ UNCHANGED ustat
    BY <1>5 DEF Dep, Cur, filevars
  <2>2. Cur \in File
    BY <1>0, <2>1, AtTop, CurType
  <2> QED BY <1>0, <2>1, <2>2, WalkNoError
<1>6. CASE DepReturn
  <2>1. /\ pc = "return" /\ pc' = "deps" /\ stack # <<>> /\ Len(stack') = Len(stack)
        /\ \A k \in 1 .. Len(stack) - 1 : stack'[k] = stack[k]
        /\ Top'.dep_status = IF ret # 0 THEN ret ELSE Top.dep_status
    BY <1>0, <1>6, JudgeTop
  <2>2. Len(stack) \in Nat \ {0}
    BY <1>0, <2>1, TopType
  <2>3. Top'.dep_status = 0
    BY <1>1, <2>1, <2>2 DEF Top
  <2>4. ASSUME NEW k \in 1 .. Len(stack') PROVE stack'[k].dep_status = 0
    <3>1. k = Len(stack') \/ k \in 1 .. Len(stack) - 1
      BY <2>1, <2>2
    <3>2. CASE k = Len(stack')
      BY <2>3, <3>2 DEF Top
    <3>3. CASE k \in 1 .. Len(stack) - 1
      BY <1>1, <2>1, <2>2, <3>3
    <3> QED BY <3>1, <3>2, <3>3
  <2>5. UNCHANGED ustat
    BY <1>6 DEF DepReturn, filevars
  <2> QED BY <1>1, <2>1, <2>4, <2>5 DEF NoErrorYet
<1>7. CASE DepsRunning
  <2>1. pc = "deps" /\ stack' = Pop /\ ret' = 0 /\ UNCHANGED ustat
    BY <1>7 DEF DepsRunning, AllDeps, Return
  <2> QED BY <1>0, <1>1, <2>1, AtTop, PopNoError DEF NoErrorYet
<1>8. CASE DepFailed
  <2>1. pc = "deps" /\ Top.dep_status # 0
    BY <1>8 DEF DepFailed, AllDeps
  <2>2. Len(stack) \in 1 .. Len(stack)
    BY <1>0, <2>1, AtTop, TopType
  <2> QED BY <1>1, <2>1, <2>2 DEF Top
<1>9. CASE NoNeed
  <2>1. /\ pc = "deps" /\ stack' = Pop /\ ret' = 0 /\ ustat' = [ustat EXCEPT ![Top.f] = 0]
    BY <1>9 DEF NoNeed, DepsDone, AllDeps, Return, Settle
  <2>2. \A f \in File : ustat'[f] # 2
    BY <1>0, <1>1, <2>1 DEF Types
  <2> QED BY <1>0, <1>1, <2>1, <2>2, AtTop, PopNoError DEF NoErrorYet
<1>10. CASE NoRule
  BY <1>0, <1>10 DEF NoRule, Die, DepsDone, AllDeps, Walking
<1>11. CASE Execute \/ WaitForSlot
  <2>1. UNCHANGED <<stack, ustat>> /\ pc' # "return"
    BY <1>11 DEF Execute, WaitForSlot, filevars, walkvars, CallReap
  <2> QED BY <1>2, <2>1
<1>12. CASE StartJob
  <2>1. UNCHANGED <<stack, ustat>> /\ pc' # "return"
    BY <1>12 DEF StartJob, walkvars
  <2> QED BY <1>2, <2>1
<1>13. CASE StartNothing
  <2>1. /\ pc' = "started" /\ ustat' = [ustat EXCEPT ![Top.f] = 0] /\ UNCHANGED stack
    BY <1>0, <1>13 DEF StartNothing, Settle, walkvars
  <2>2. \A f \in File : ustat'[f] # 2
    BY <1>0, <1>1, <2>1 DEF Types
  <2> QED BY <1>1, <2>1, <2>2 DEF NoErrorYet
<1>14. CASE JobStarted
  <2>1. UNCHANGED ustat
    BY <1>14 DEF JobStarted, filevars
  <2>2. CASE CallReap(TRUE, FALSE, "started") /\ UNCHANGED <<stack, ret>>
    BY <1>2, <2>1, <2>2 DEF CallReap
  <2>3. CASE stack' = Pop /\ Return(IF state[Top.f] = "finished" THEN ustat[Top.f] ELSE 0)
    <3>1. pc = "started" /\ ret' \in {0, ustat[Top.f]} /\ ret' \in {0, 2}
      BY <1>0, <1>14, <2>3 DEF JobStarted, Return, Types
    <3>2. stack # <<>> /\ Top.f \in File
      BY <3>1, AtTop
    <3>3. ret' = 0
      BY <1>1, <3>1, <3>2
    <3>4. \A k \in 1 .. Len(stack)' : stack'[k].dep_status = 0
      BY <1>0, <1>1, <2>3, <3>2, PopNoError
    <3> QED BY <1>1, <2>1, <3>3, <3>4 DEF NoErrorYet
  <2> QED BY <1>14, <2>2, <2>3 DEF JobStarted
<1>15. CASE ReapReturn
  <2>1. call.to # "return"
    BY <1>0 DEF Types, Call
  <2>2. UNCHANGED <<stack, ustat>> /\ pc' = call.to
    BY <1>15 DEF ReapReturn, walkvars, filevars
  <2> QED BY <1>2, <2>1, <2>2
<1>16. ASSUME NEW f \in File, ReapNextLine(f) PROVE NoErrorYet'
  <2>1. UNCHANGED <<stack, ustat, pc, ret>>
    BY <1>16 DEF ReapNextLine, walkvars
  <2> QED BY <1>2, <2>1
<1>17. ASSUME NEW f \in File, ReapFinished(f) PROVE NoErrorYet'
  <2>1. UNCHANGED <<stack, pc, ret>> /\ Notice(f, 0, Touched)
    BY <1>0, <1>17 DEF ReapFinished, walkvars
  <2>2. ustat' = [h \in File |-> IF h \in Group(f) THEN 0 ELSE ustat[h]]
    BY <2>1 DEF Notice
  <2>3. \A h \in File : ustat'[h] # 2
    BY <1>1, <2>2
  <2> QED BY <1>1, <2>1, <2>3 DEF NoErrorYet
<1>18. ASSUME NEW f \in File, ReapFailed(f) PROVE NoErrorYet'
  BY <1>0, <1>18 DEF ReapFailed, Die, Walking
<1>19. CASE DieWait \/ Exit
  BY <1>19 DEF DieWait, Exit, CallReap, Walking
<1>20. ASSUME NEW f \in File, CommandExits(f) PROVE NoErrorYet'
  <2>1. UNCHANGED <<stack, ustat, pc, ret>>
    BY <1>20 DEF CommandExits, walkvars
  <2> QED BY <1>2, <2>1
<1>21. CASE Finished
  <2>1. UNCHANGED <<stack, ustat, pc, ret>>
    BY <1>21 DEF Finished, vars
  <2> QED BY <1>2, <2>1
<1> QED BY <1>3, <1>4, <1>5, <1>6, <1>7, <1>8, <1>9, <1>10, <1>11, <1>12, <1>13, <1>14, <1>15,
     <1>16, <1>17, <1>18, <1>19, <1>20, <1>21 DEF Next, MakeStep

\* make does not go on after it has given up.
LEMMA GivenUp ==
  ASSUME Types, Next, Walking'
  PROVE  Walking
<1> SUFFICES ASSUME ~Walking PROVE FALSE
  OBVIOUS
<1>1. CASE MakeStep
  <2>1. CASE ReapReturn \/ DieWait \/ Exit
    BY <2>1 DEF ReapReturn, DieWait, Exit, CallReap, Walking
  <2>2. ASSUME NEW f \in File, ReapNextLine(f) \/ ReapFinished(f) \/ ReapFailed(f)
        PROVE  FALSE
    <3>1. call \in Call
      BY DEF Types
    <3> QED BY <2>2, <3>1 DEF ReapNextLine, ReapFinished, ReapFailed, Reapable, Die, Walking, Call
  <2>3. CASE \/ Pass \/ Goal \/ GoalReturn \/ Dep \/ DepReturn
             \/ DepsRunning \/ DepFailed \/ NoNeed \/ NoRule \/ Execute
             \/ WaitForSlot \/ StartJob \/ StartNothing \/ JobStarted
    BY <2>3 DEF Pass, Goal, GoalReturn, Dep, DepReturn, Returned, DepsRunning, DepFailed,
       NoNeed, NoRule, Execute, DepsDone, AllDeps, WaitForSlot, StartJob, StartNothing,
       Slot, JobStarted, Walking
  <2> QED BY <1>1, <2>1, <2>2, <2>3 DEF MakeStep
<1>2. CASE \E f \in File : CommandExits(f)
  BY <1>2 DEF CommandExits, Walking
<1>3. CASE Finished
  BY <1>3 DEF Finished, vars, Walking
<1> QED BY <1>1, <1>2, <1>3 DEF Next

LEMMA NextStopped ==
  ASSUME Base, Stopped, [Next]_vars
  PROVE  Base' /\ Stopped'
<1>1. Base'
  BY NextBase
<1>2. CASE UNCHANGED vars
  BY <1>1, <1>2 DEF vars, Stopped, Numbered, ErrDies, Stops, Walking, NoErrorYet, KeepGoing, ForkFails
<1>3. CASE Next
  <2>1. Numbered' /\ ErrDies'
    BY <1>3, NumberedStep, ErrDiesStep DEF Base, Stopped
  <2>2. ASSUME Stops', Walking' PROVE NoErrorYet'
    <3>1. opt' = opt
      BY <1>3 DEF Next, Finished, vars
    <3>2. Stops
      BY <2>2, <3>1 DEF Stops, KeepGoing, ForkFails
    <3>3. Walking
      BY <1>3, <2>2, GivenUp DEF Base
    <3>4. NoErrorYet
      BY <3>2, <3>3 DEF Stopped
    <3> QED BY <1>1, <1>3, <2>2, <3>2, <3>3, <3>4, NoErrorStep DEF Stopped
  <2> QED BY <1>1, <2>1, <2>2 DEF Stopped
<1> QED BY <1>2, <1>3

LEMMA InitStopped == Init => Stopped
<1> SUFFICES ASSUME Init PROVE Stopped
  OBVIOUS
<1>1. /\ pc = "pass" /\ stack = <<>> /\ call = NoCall
      /\ proc = [f \in File |-> "none"] /\ ustat = [f \in File |-> -1]
  BY DEF Init
<1> QED BY <1>1 DEF Stopped, Numbered, ErrDies, NoErrorYet, NoCall

LEMMA StoppedAlways == Spec => [](Base /\ Stopped)
<1>1. Init => Base /\ Stopped
  BY InitBase, InitStopped
<1>2. Base /\ Stopped /\ [Next]_vars => (Base /\ Stopped)'
  BY NextStopped
<1> QED BY <1>1, <1>2, PTL DEF Spec

\* Every process can be started, when make stops at the first error.
Startable == \A o \in Options : ~o.KeepGoing => o.ForkFails = {}

\* Without -k no further target is begun once a command has failed, whatever is still running
\* then: at the first status of 2 make is in die (), which only reaps (job.c, reap_children,
\* "If the job failed, and the -k flag was not given, die"; update_goal_chain never goes on).
THEOREM StopsAtFirstError ==
  ASSUME Startable
  PROVE  Spec => NoNewTargetAfterError
<1> DEFINE Kept == ~KeepGoing /\ (\E f \in File : ustat[f] = 2)
                     => \A f \in File : line[f] = 0 => line'[f] = 0
<1>1. ASSUME Base, Stopped, Next, ~KeepGoing, NEW e \in File, ustat[e] = 2,
             NEW f \in File, line[f] = 0
      PROVE  line'[f] = 0
  <2>1. Types /\ opt \in Options
    BY <1>1 DEF Base, Types
  <2>2. Stops
    BY <1>1, <2>1 DEF Stops, Startable, KeepGoing, ForkFails
  <2>3. ~Walking
    BY <1>1, <2>2 DEF Stopped, NoErrorYet
  <2>4. CASE StartJob
    BY <2>3, <2>4 DEF StartJob, Slot, Walking
  <2>5. ASSUME NEW h \in File, ReapNextLine(h) PROVE line'[f] = 0
    <3>1. proc[h] = "ok" /\ line' = [line EXCEPT ![h] = @ + 1]
      BY <2>5 DEF ReapNextLine
    <3>2. line[h] >= 1
      BY <1>1, <3>1 DEF Stopped, Numbered
    <3>3. h # f
      BY <1>1, <3>2
    <3> QED BY <1>1, <2>1, <3>1, <3>3 DEF Types
  <2>6. ASSUME NEW h \in File, CommandExits(h) PROVE line'[f] = 0
    BY <1>1, <2>6 DEF CommandExits
  <2> QED BY <1>1, <2>4, <2>5, <2>6, LineCases
<1>2. Base /\ Stopped /\ [Next]_vars => [Kept]_vars
  <2> SUFFICES ASSUME Base, Stopped, Next PROVE Kept
    OBVIOUS
  <2> QED BY <1>1
<1> QED BY <1>2, StoppedAlways, PTL DEF Spec, NoNewTargetAfterError

------------------------------------------------------------------------------
(* What the path says of cycles                                            *)

\* A path that comes back to a file is a cycle.
LEMMA NoCycle ==
  ASSUME Types, Path, stack # <<>>, NEW j \in 1 .. Len(stack), NEW k \in j .. Len(stack),
         NEW c \in Prereqs(stack[k].f),
         k < Len(stack) => c = stack[k + 1].f
  PROVE  c # stack[j].f
<1> SUFFICES ASSUME c = stack[j].f PROVE FALSE
  OBVIOUS
<1> DEFINE S == {stack[i].f : i \in j .. k}
<1>1. Len(stack) \in Nat /\ \A i \in 1 .. Len(stack) : stack[i].f \in File
  <2>1. \A i \in 1 .. Len(stack) : stack[i] \in Frame
    BY DEF Types
  <2> QED BY <2>1, TopType DEF Frame
<1>2. S \in SUBSET File /\ S # {}
  <2>1. \A i \in j .. k : i \in 1 .. Len(stack)
    BY <1>1
  <2>2. j \in j .. k
    BY <1>1
  <2> QED BY <1>1, <2>1, <2>2
<1>3. PICK f \in S : Prereqs(f) \cap S = {}
  BY <1>2, AcyclicAssumption
<1>4. PICK i \in j .. k : f = stack[i].f
  BY <1>3
<1>5. CASE i = k
  <2>1. c \in S
    BY <1>1
  <2> QED BY <1>3, <1>4, <1>5, <2>1
<1>6. CASE i # k
  <2>1. i \in 1 .. Len(stack) - 1 /\ i \in 1 .. Len(stack) /\ i + 1 \in j .. k
    BY <1>1, <1>4, <1>6
  <2>2. /\ stack[i].d \in 1 .. Len(Deps[f])
        /\ stack[i + 1].f = Deps[f][stack[i].d]
    <3>1. /\ stack[i].d \in 1 .. Len(Deps[f]) + 1 /\ stack[i].d <= Len(Deps[f])
          /\ stack[i + 1].f = Deps[f][stack[i].d]
      BY <1>4, <2>1 DEF Path
    <3>2. Len(Deps[f]) \in Nat
      BY <1>2, <1>3, GraphAssumption
    <3> QED BY <3>1, <3>2
  <2>3. stack[i + 1].f \in Prereqs(f)
    BY <2>2 DEF Prereqs
  <2>4. stack[i + 1].f \in S
    BY <2>1
  <2> QED BY <1>3, <2>3, <2>4
<1> QED BY <1>5, <1>6

OnStack(f) == \E k \in 1 .. Len(stack) : stack[k].f = f

\* So the files of the activations are distinct, and none is considered again.
LEMMA PathDistinct ==
  ASSUME Types, Path
  PROVE  /\ \A j, k \in 1 .. Len(stack) : stack[j].f = stack[k].f => j = k
         /\ stack # <<>> /\ Top.d <= Len(Deps[Top.f]) => Cur \in Prereqs(Top.f) /\ ~OnStack(Cur)
<1>0. Len(stack) \in Nat
  BY DEF Types
<1>1. ASSUME NEW j \in 1 .. Len(stack), NEW k \in 1 .. Len(stack), j < k
      PROVE  stack[j].f # stack[k].f
  <2>1. stack # <<>> /\ k - 1 \in j .. Len(stack) /\ k - 1 + 1 = k
        /\ k - 1 \in 1 .. Len(stack) - 1 /\ k - 1 \in 1 .. Len(stack)
    BY <1>0, <1>1
  <2>2. /\ stack[k - 1].d \in 1 .. Len(Deps[stack[k - 1].f]) + 1
        /\ stack[k - 1].d <= Len(Deps[stack[k - 1].f])
        /\ stack[k].f = Deps[stack[k - 1].f][stack[k - 1].d]
    BY <2>1 DEF Path
  <2>3. Len(Deps[stack[k - 1].f]) \in Nat
    <3>1. stack[k - 1] \in Frame
      BY <2>1 DEF Types
    <3>2. stack[k - 1].f \in File
      BY <3>1 DEF Frame
    <3> QED BY <3>2, GraphAssumption
  <2>4. stack[k].f \in Prereqs(stack[k - 1].f)
    BY <2>2, <2>3 DEF Prereqs
  <2> QED BY <2>1, <2>4, NoCycle
<1>2. ASSUME stack # <<>>, Top.d <= Len(Deps[Top.f]) PROVE Cur \in Prereqs(Top.f) /\ ~OnStack(Cur)
  <2>1. Len(Deps[Top.f]) \in Nat /\ Top.d \in 1 .. Len(Deps[Top.f])
    BY <1>2, TopType, CurType
  <2>2. Cur \in Prereqs(Top.f)
    BY <2>1 DEF Cur, Prereqs
  <2>3. ASSUME NEW j \in 1 .. Len(stack) PROVE Cur # stack[j].f
    <3>1. Len(stack) \in j .. Len(stack) /\ ~(Len(stack) < Len(stack))
      BY <1>0
    <3> QED BY <1>2, <2>2, <3>1, NoCycle DEF Top
  <2> QED BY <2>2, <2>3 DEF OnStack
<1>3. ASSUME NEW j \in 1 .. Len(stack), NEW k \in 1 .. Len(stack), stack[j].f = stack[k].f
      PROVE  j = k
  <2>1. j < k \/ k < j \/ j = k
    BY <1>0
  <2> QED BY <1>1, <1>3, <2>1
<1> QED BY <1>2, <1>3

------------------------------------------------------------------------------
(* The invariant for the states of files                                   *)

\* No commands make several files.
SingleTargets == \A f \in File : also_make[f] = {}

Consistent ==
  /\ pc # "aborted"
  /\ \A f \in File : /\ updated[f] <=> state[f] = "finished"
                     /\ proc[f] # "none" <=> state[f] = "running"
                     /\ ustat[f] # -1 <=> state[f] = "finished"

\* The files of the activations are not made yet.
Pending ==
  /\ \A k \in 1 .. Len(stack) :
       IF k = Len(stack) /\ At("started")
         THEN state[stack[k].f] \in {"running", "finished"}
         ELSE state[stack[k].f] \in {"not_started", "deps_running"}
  /\ At("slots") => state[Top.f] = "not_started"

States == Consistent /\ (Walking => Pending)

\* What actions do to files when no others are made with them.
LEMMA SingleSet ==
  ASSUME SingleTargets, Types, NEW f \in File, NEW s
  PROVE  set_command_state(f, s) = [state EXCEPT ![f] = s]
BY DEF SingleTargets, set_command_state, Group, Types

LEMMA SingleWaiting ==
  ASSUME SingleTargets, Types, NEW f \in File
  PROVE  NoLongerWaiting(f) = IF state[f] = "deps_running" THEN [state EXCEPT ![f] = "not_started"]
                                                           ELSE state
BY SingleSet DEF NoLongerWaiting

LEMMA SingleNotice ==
  ASSUME SingleTargets, Types, NEW f \in File, NEW r, NEW t, Notice(f, r, t)
  PROVE  /\ state' = [state EXCEPT ![f] = "finished"]
         /\ updated' = [updated EXCEPT ![f] = TRUE]
         /\ ustat' = [ustat EXCEPT ![f] = r]
         /\ \E m \in 0 .. New : m \in t[f] /\ mtime' = [mtime EXCEPT ![f] = m]
         /\ proc' = [proc EXCEPT ![f] = "none"] /\ line' = line
<1>1. Group(f) = {f}
  BY DEF SingleTargets, Group
<1>2. state' = [state EXCEPT ![f] = "finished"]
  BY SingleSet DEF Notice
<1>3. updated' = [updated EXCEPT ![f] = TRUE]
  <2>1. updated' = [h \in File |-> updated[h] \/ h = f]
    BY <1>1 DEF Notice
  <2>2. updated \in [File -> BOOLEAN]
    BY DEF Types
  <2> QED BY <2>1, <2>2
<1>4. ustat' = [ustat EXCEPT ![f] = r]
  BY <1>1 DEF Notice, Types
<1>5. \E m \in 0 .. New : m \in t[f] /\ mtime' = [mtime EXCEPT ![f] = m]
  <2>1. PICK m \in [{f} -> 0 .. New] :
          /\ \A h \in {f} : m[h] \in t[h]
          /\ mtime' = [h \in File |-> IF h \in {f} THEN m[h] ELSE mtime[h]]
    BY <1>1 DEF Notice
  <2>2. m[f] \in 0 .. New /\ m[f] \in t[f] /\ mtime' = [mtime EXCEPT ![f] = m[f]]
    BY <2>1 DEF Types
  <2> QED BY <2>2
<1> QED BY <1>2, <1>3, <1>4, <1>5 DEF Notice

\* update_file_1 returns from its target, of which alone the state may have changed.
LEMMA PopPending ==
  ASSUME Types, Path, Pending, stack # <<>>, stack' = Pop, pc' = "return",
         \A h \in File : h # Top.f => state'[h] = state[h]
  PROVE  Pending'
<1> DEFINE n == Len(stack)
<1>1. n \in Nat /\ n >= 1 /\ \A k \in 1 .. n - 1 : k \in 1 .. n /\ k # n
  BY TopType
<1>2. Len(stack)' = n - 1 /\ \A k \in 1 .. n - 1 : stack'[k] = stack[k]
  BY PopStack
<1>3. ASSUME NEW k \in 1 .. n - 1
      PROVE  state'[stack[k].f] = state[stack[k].f]
  <2>1. stack[k].f # Top.f
    BY <1>1, PathDistinct DEF Top
  <2>2. stack[k] \in Frame
    BY <1>1 DEF Types
  <2>3. stack[k].f \in File
    BY <2>2 DEF Frame
  <2> QED BY <2>1, <2>3
<1>4. \A k \in 1 .. n - 1 : state[stack[k].f] \in {"not_started", "deps_running"}
  BY <1>1 DEF Pending
<1>5. ~At("started")' /\ ~At("slots")'
  BY DEF At
<1> HIDE DEF n
<1>6. \A k \in 1 .. Len(stack)' : state'[stack'[k].f] \in {"not_started", "deps_running"}
  BY <1>2, <1>3, <1>4
<1> QED BY <1>5, <1>6 DEF Pending

\* The activations and the states stay, and make goes on above new_job.
LEMMA SamePending ==
  ASSUME Pending, UNCHANGED <<stack, state>>, ~At("started"), ~At("started")', ~At("slots")'
  PROVE  Pending'
BY DEF Pending

LEMMA WalkStates ==
  ASSUME Types, States, Path, Placed, pc \in {"goals", "deps"}, NEW f \in File, UpdateFile(f),
         UNCHANGED <<state, updated, ustat, mtime, line, proc>>
  PROVE  States'
<1>1. Consistent /\ Pending
  BY DEF States, Walking
<1>2. Pruned(f) \/ Fatal(f) \/ Aborts(f) \/ Known(f) \/ Entered(f)
  BY UpdateFileCases
<1>3. pc' # "aborted"
  BY <1>1, <1>2 DEF Pruned, Fatal, Aborts, Known, Entered, Consistent
<1>4. Consistent'
  BY <1>1, <1>3 DEF Consistent
<1>5. CASE Pruned(f) \/ Known(f)
  <2>1. Pending'
    BY <1>1, <1>5, SamePending DEF Pruned, Known, At
  <2> QED BY <1>4, <2>1 DEF States
<1>6. CASE Fatal(f) \/ Aborts(f)
  BY <1>4, <1>6 DEF Fatal, Aborts, States, Walking
<1>7. CASE Entered(f)
  <2>1. /\ stack' = Append(stack, NewFrame(f)) /\ pc' = "deps"
        /\ state[f] \in {"not_started", "deps_running"}
    BY <1>7 DEF Entered
  <2>2. NewFrame(f).f = f
    BY DEF NewFrame
  <2>3. ~At("started") /\ ~At("started")' /\ ~At("slots")'
    BY <2>1 DEF At
  <2>4. ASSUME NEW k \in 1 .. Len(stack')
        PROVE  state'[stack'[k].f] \in {"not_started", "deps_running"}
    BY <1>1, <2>1, <2>2, <2>3, EnterStack DEF Pending
  <2> QED BY <1>4, <2>3, <2>4 DEF States, Pending
<1> QED BY <1>2, <1>5, <1>6, <1>7

\* A child that was reaped, or given up: of the activations, it can be the top alone.
LEMMA ReapPending ==
  ASSUME Types, Path, Consistent, Pending, NEW f \in File, state[f] = "running",
         state' = [state EXCEPT ![f] = "finished"], UNCHANGED stack,
         \A p \in {"slots", "started"} : At(p)' <=> At(p)
  PROVE  Pending'
<1>1. \A k \in 1 .. Len(stack) : stack[k].f \in File
  <2>1. \A k \in 1 .. Len(stack) : stack[k] \in Frame
    BY DEF Types
  <2> QED BY <2>1 DEF Frame
<1>2. ASSUME NEW k \in 1 .. Len(stack)
      PROVE  state'[stack[k].f] =
               IF stack[k].f = f THEN "finished" ELSE state[stack[k].f]
  BY <1>1 DEF Types
<1>3. At("slots")' => state'[Top'.f] = "not_started"
  <2> SUFFICES ASSUME At("slots")' PROVE state'[Top.f] = "not_started"
    BY DEF Top
  <2>1. state[Top.f] = "not_started"
    BY DEF Pending
  <2> QED BY <2>1 DEF Types
<1> QED BY <1>2, <1>3 DEF Pending

LEMMA StatesStep ==
  ASSUME SingleTargets, Base, States, Next
  PROVE  States'
<1>0. Types /\ Outcomes /\ Consistent
  BY DEF Base, States
<1> USE DEF Consistent
<1>1. CASE UNCHANGED <<state, updated, ustat, proc, stack>> /\ pc' # "aborted"
           /\ (Walking' => Walking /\ \A p \in {"slots", "started"} : At(p)' <=> At(p))
  BY <1>0, <1>1 DEF States, Pending, Top
<1>2. CASE Pass \/ GoalReturn
  <2>1. UNCHANGED <<state, updated, ustat, proc, stack>> /\ pc' # "aborted"
    BY <1>2 DEF Pass, GoalReturn, filevars, CallReap
  <2>2. Walking /\ ~At("slots") /\ ~At("started")
    BY <1>2 DEF Walking, At, Pass, GoalReturn
  <2>3. ~At("slots")' /\ ~At("started")'
    BY <1>2 DEF Walking, At, Pass, GoalReturn, CallReap, NoCall
  <2> QED BY <1>1, <2>1, <2>2, <2>3
<1>3. CASE Goal
  <2>0. pc = "goals" /\ UNCHANGED <<state, updated, ustat, mtime, line, proc>>
    BY <1>3 DEF Goal, filevars
  <2>1. CASE UpdateFile(goals[g]) /\ g <= Len(goals)
    <3>1. goals[g] \in File
      BY <1>0, <2>1 DEF Types
    <3>2. Path /\ Placed
      BY <2>0 DEF Base, Walking
    <3> QED BY <1>0, <2>0, <2>1, <3>1, <3>2, WalkStates
  <2>2. CASE pc' = "pass" /\ UNCHANGED <<call, stack, ret, status, seen>>
    <3>1. Walking /\ \A p \in {"slots", "started"} : ~At(p)' /\ ~At(p)
      BY <2>0, <2>2 DEF Walking, At
    <3> QED BY <1>1, <2>0, <2>2, <3>1
  <2> QED BY <1>3, <2>1, <2>2 DEF Goal
<1>4. CASE Dep
  <2>1. /\ pc = "deps" /\ Top.d <= Len(Deps[Top.f]) /\ UpdateFile(Cur)
        /\ UNCHANGED <<state, updated, ustat, mtime, line, proc>>
    BY <1>4 DEF Dep, Cur, filevars
  <2>2. Cur \in File /\ Path /\ Placed
    BY <1>0, <2>1, AtTop, CurType
  <2> QED BY <1>0, <2>1, <2>2, WalkStates
<1>5. CASE DepReturn
  <2>0. pc = "return" /\ Path /\ Pending /\ ~At("started") /\ ~At("slots")
    BY <1>5 DEF DepReturn, Returned, Base, States, Walking, At
  <2>1. /\ pc' = "deps" /\ stack # <<>> /\ Len(stack') = Len(stack)
        /\ \A k \in 1 .. Len(stack) - 1 : stack'[k] = stack[k]
        /\ Top'.f = Top.f
    BY <1>0, <1>5, <2>0, JudgeTop
  <2>2. \A k \in 1 .. Len(stack') : stack'[k].f = stack[k].f
    <3>1. \A k \in 1 .. Len(stack') : k = Len(stack) \/ k \in 1 .. Len(stack) - 1
      BY <1>0, <2>1, TopType
    <3> QED BY <2>1, <3>1 DEF Top
  <2>3. UNCHANGED <<state, updated, ustat, proc>>
    BY <1>5 DEF DepReturn, filevars
  <2>4. ~At("started")' /\ ~At("slots")'
    BY <2>1 DEF At
  <2>5. Pending'
    BY <2>0, <2>1, <2>2, <2>3, <2>4 DEF Pending
  <2> QED BY <1>0, <2>1, <2>3, <2>5 DEF States
<1>6. CASE DepsRunning \/ DepFailed \/ NoNeed \/ NoRule \/ Execute
  <2>1. pc = "deps"
    BY <1>6 DEF DepsRunning, DepFailed, NoNeed, NoRule, Execute, DepsDone, AllDeps
  <2>2. /\ Walking /\ Path /\ Placed /\ stack # <<>> /\ Top.f \in File /\ Pending
        /\ ~At("started") /\ ~At("slots")
    BY <2>1, AtTop DEF States, At
  <2>3. /\ state[Top.f] \in {"not_started", "deps_running"}
        /\ ~updated[Top.f] /\ proc[Top.f] = "none" /\ ustat[Top.f] = -1
    <3>1. Len(stack) \in 1 .. Len(stack)
      BY <1>0, <2>2, TopType
    <3> QED BY <1>0, <2>2, <3>1 DEF Pending, Top
  <2>4. CASE DepsRunning
    <3>1. /\ state' = [state EXCEPT ![Top.f] = "deps_running"] /\ stack' = Pop /\ pc' = "return"
          /\ UNCHANGED <<updated, ustat, proc>>
      BY <1>0, <2>2, <2>4, SingleSet DEF DepsRunning, Return
    <3>2. Pending'
      BY <1>0, <2>2, <3>1, PopPending DEF Types
    <3> QED BY <1>0, <2>3, <3>1, <3>2 DEF States, Types
  <2>5. ASSUME NEW r \in {0, 2}, NEW s, s = state \/ s = NoLongerWaiting(Top.f),
               Settle(Top.f, r, s), stack' = Pop, pc' = "return"
        PROVE  States'
    <3>1. s = state \/ s = [state EXCEPT ![Top.f] = "not_started"]
      BY <1>0, <2>2, <2>5, SingleWaiting
    <3>2. /\ state' = [state EXCEPT ![Top.f] = "finished"]
          /\ updated' = [updated EXCEPT ![Top.f] = TRUE] /\ ustat' = [ustat EXCEPT ![Top.f] = r]
          /\ proc' = proc
      BY <1>0, <2>2, <2>5, <3>1 DEF Settle, Types
    <3>3. Pending'
      BY <1>0, <2>2, <2>5, <3>2, PopPending DEF Types
    <3>4. Consistent'
      BY <1>0, <2>2, <2>3, <2>5, <3>2 DEF Types
    <3> QED BY <3>3, <3>4 DEF States
  <2>6. CASE DepFailed \/ NoNeed
    <3>1. Top.dep_status \in {0, 2}
      BY <2>1, AtTop DEF Frame
    <3> QED BY <2>5, <2>6, <3>1 DEF DepFailed, NoNeed, Return
  <2>7. CASE NoRule
    <3>1. CASE Settle(Top.f, 2, state) /\ stack' = Pop /\ Return(2)
      BY <2>5, <3>1 DEF Return
    <3>2. CASE Die /\ UNCHANGED <<stack, ret, filevars>>
      <4>1. pc' = "die" /\ UNCHANGED <<state, updated, ustat, proc>>
        BY <2>1, <3>2 DEF Die, filevars
      <4> QED BY <1>0, <4>1 DEF States, Walking
    <3> QED BY <2>7, <3>1, <3>2 DEF NoRule
  <2>8. CASE Execute
    <3>1. /\ pc' = "reap" /\ call'.to = "slots" /\ UNCHANGED <<stack, updated, ustat, proc>>
          /\ state' = NoLongerWaiting(Top.f)
      BY <2>8 DEF Execute, CallReap, walkvars
    <3>2. state' = [state EXCEPT ![Top.f] = "not_started"]
      BY <1>0, <2>2, <2>3, <3>1, SingleWaiting DEF Types
    <3>3. ~At("started")'
      BY <3>1 DEF At
    <3>4. Pending'
      BY <1>0, <2>2, <3>1, <3>2, <3>3 DEF Pending, Top, Types
    <3> QED BY <1>0, <2>2, <2>3, <3>1, <3>2, <3>4 DEF States, Types
  <2> QED BY <1>6, <2>4, <2>6, <2>7, <2>8
<1>7. CASE WaitForSlot
  <2>1. /\ UNCHANGED <<state, updated, ustat, proc, stack>> /\ pc' = "reap" /\ pc = "slots"
        /\ call'.to = "slots"
    BY <1>7 DEF WaitForSlot, filevars, walkvars, CallReap
  <2>2. Walking /\ \A p \in {"slots", "started"} : At(p)' <=> At(p)
    BY <2>1 DEF At, Walking
  <2> QED BY <1>1, <2>1, <2>2
<1>8. CASE StartJob \/ StartNothing
  <2>1. pc = "slots" /\ pc' = "started" /\ UNCHANGED stack
    BY <1>8 DEF StartJob, StartNothing, Slot, walkvars
  <2>2. Walking /\ Path /\ stack # <<>> /\ Top.f \in File /\ Pending /\ At("slots") /\ At("started")'
        /\ ~At("slots")' /\ ~At("started")
    BY <2>1, AtTop DEF States, At
  <2>3. state[Top.f] = "not_started" /\ ~updated[Top.f] /\ proc[Top.f] = "none" /\ ustat[Top.f] = -1
    BY <1>0, <2>2 DEF Pending
  <2>4. ASSUME NEW s \in {"running", "finished"}, state' = [state EXCEPT ![Top.f] = s]
        PROVE  Pending'
    <3>1. ASSUME NEW k \in 1 .. Len(stack)
          PROVE  stack[k].f \in File /\ (k # Len(stack) => stack[k].f # Top.f)
      <4>1. stack[k] \in Frame /\ Len(stack) \in 1 .. Len(stack)
        BY <1>0, <2>2, TopType DEF Types
      <4> QED BY <1>0, <2>2, <4>1, PathDistinct DEF Frame, Top
    <3> QED BY <1>0, <2>1, <2>2, <2>4, <3>1 DEF Pending, Top, Types
  <2>5. CASE StartJob
    <3>1. /\ state' = [state EXCEPT ![Top.f] = "running"]
          /\ proc' = [proc EXCEPT ![Top.f] = "run"] /\ UNCHANGED <<updated, ustat>>
      BY <1>0, <2>2, <2>5, SingleSet DEF StartJob
    <3>2. Consistent'
      BY <1>0, <2>1, <2>2, <2>3, <3>1 DEF Types
    <3> QED BY <2>4, <3>1, <3>2 DEF States
  <2>6. CASE StartNothing
    <3>1. PICK r \in {0, 2} : Settle(Top.f, r, state)
      BY <2>6 DEF StartNothing
    <3>2. /\ state' = [state EXCEPT ![Top.f] = "finished"]
          /\ updated' = [updated EXCEPT ![Top.f] = TRUE] /\ ustat' = [ustat EXCEPT ![Top.f] = r]
          /\ proc' = proc
      BY <3>1 DEF Settle
    <3>3. Consistent'
      BY <1>0, <2>1, <2>2, <2>3, <3>1, <3>2 DEF Types
    <3> QED BY <2>4, <3>2, <3>3 DEF States
  <2> QED BY <1>8, <2>5, <2>6
<1>9. CASE JobStarted
  <2>1. pc = "started" /\ UNCHANGED <<state, updated, ustat, proc>>
    BY <1>9 DEF JobStarted, filevars
  <2>2. CASE CallReap(TRUE, FALSE, "started") /\ UNCHANGED <<stack, ret>>
    <3>1. pc' = "reap" /\ call'.to = "started"
      BY <2>2 DEF CallReap
    <3>2. Walking /\ \A p \in {"slots", "started"} : At(p)' <=> At(p)
      BY <2>1, <3>1 DEF At, Walking
    <3> QED BY <1>1, <2>1, <2>2, <3>1, <3>2
  <2>3. CASE stack' = Pop /\ Return(IF state[Top.f] = "finished" THEN ustat[Top.f] ELSE 0)
    <3>1. Walking /\ Path /\ stack # <<>> /\ Pending /\ pc' = "return"
      BY <2>1, <2>3, AtTop DEF States, Return
    <3> QED BY <1>0, <2>1, <2>3, <3>1, PopPending DEF States
  <2> QED BY <1>9, <2>2, <2>3 DEF JobStarted
<1>10. CASE ReapReturn
  <2>1. /\ UNCHANGED <<state, updated, ustat, proc, stack>> /\ pc = "reap" /\ pc' = call.to
        /\ call.to \in {"goals", "slots", "started", "die"}
    BY <1>0, <1>10 DEF ReapReturn, filevars, walkvars, Types, Call
  <2>2. Walking' => Walking /\ \A p \in {"slots", "started"} : At(p)' <=> At(p)
    BY <2>1 DEF At, Walking
  <2> QED BY <1>1, <2>1, <2>2
<1>11. ASSUME NEW f \in File, ReapNextLine(f) PROVE States'
  <2>1. /\ UNCHANGED <<pc, call, stack, state, updated, ustat>>
        /\ proc' = [proc EXCEPT ![f] = "run"] /\ proc[f] = "ok"
    BY <1>11 DEF ReapNextLine, walkvars
  <2> QED BY <1>0, <2>1 DEF States, Pending, Walking, At, Top, Types
<1>12. ASSUME NEW f \in File, ReapFinished(f) \/ ReapFailed(f) PROVE States'
  <2>1. pc = "reap" /\ f \in Zombies /\ UNCHANGED stack
    BY <1>12 DEF ReapFinished, ReapFailed, Reapable, walkvars
  <2>2. \E r \in {0, 2} : \E t : Notice(f, r, t)
    BY <1>12 DEF ReapFinished, ReapFailed
  <2>3. /\ state' = [state EXCEPT ![f] = "finished"]
        /\ updated' = [updated EXCEPT ![f] = TRUE]
        /\ \E r \in {0, 2} : ustat' = [ustat EXCEPT ![f] = r]
        /\ proc' = [proc EXCEPT ![f] = "none"]
    BY <1>0, <2>2, SingleNotice
  <2>4. state[f] = "running"
    BY <1>0, <2>1 DEF Zombies, Children
  <2>5. pc' # "aborted" /\ (Walking' => pc' = "reap" /\ call'.to = call.to)
    <3>1. call \in Call
      BY <1>0 DEF Types
    <3> QED BY <1>12, <2>1, <3>1 DEF ReapFinished, ReapFailed, Die, Call, Walking
  <2>6. Consistent'
    BY <1>0, <2>3, <2>4, <2>5 DEF Types
  <2>7. ASSUME Walking' PROVE Pending'
    <3>1. Walking /\ \A p \in {"slots", "started"} : At(p)' <=> At(p)
      BY <2>1, <2>5, <2>7 DEF Walking, At
    <3>2. Path /\ Pending
      BY <3>1 DEF Base, States
    <3> QED BY <1>0, <2>1, <2>3, <2>4, <3>1, <3>2, ReapPending
  <2> QED BY <2>6, <2>7 DEF States
<1>13. CASE DieWait \/ Exit
  <2>1. UNCHANGED <<state, updated, ustat, proc, stack>> /\ pc' # "aborted" /\ ~Walking'
    BY <1>13 DEF DieWait, Exit, filevars, walkvars, CallReap, Walking
  <2> QED BY <1>1, <2>1
<1>14. ASSUME NEW f \in File, CommandExits(f) PROVE States'
  <2>1. /\ UNCHANGED <<pc, call, stack, state, updated, ustat>>
        /\ \E s \in {"ok", "fail"} : proc' = [proc EXCEPT ![f] = s]
        /\ proc[f] = "run"
    BY <1>14 DEF CommandExits, walkvars
  <2> QED BY <1>0, <2>1 DEF States, Pending, Walking, At, Top, Types
<1>15. CASE Finished
  BY <1>0, <1>15 DEF Finished, vars, States, Pending, Walking, At, Top
<1> QED BY <1>2, <1>3, <1>4, <1>5, <1>6, <1>7, <1>8, <1>9, <1>10, <1>11, <1>12, <1>13, <1>14,
     <1>15 DEF Next, MakeStep

LEMMA InitStates == Init => States
<1> SUFFICES ASSUME Init PROVE States
  OBVIOUS
<1>1. /\ pc = "pass" /\ stack = <<>>
      /\ state = [f \in File |-> "not_started"] /\ updated = [f \in File |-> FALSE]
      /\ ustat = [f \in File |-> -1] /\ proc = [f \in File |-> "none"]
  BY DEF Init
<1> QED BY <1>1 DEF States, Consistent, Pending, At

LEMMA NextStates ==
  ASSUME SingleTargets, Base, States, [Next]_vars
  PROVE  States'
<1>1. CASE UNCHANGED vars
  BY <1>1 DEF vars, States, Consistent, Pending, Walking, At, Top
<1> QED BY <1>1, StatesStep

LEMMA StatesAlways == ASSUME SingleTargets PROVE Spec => [](Base /\ States)
<1>1. Init => Base /\ States
  BY InitBase, InitStates
<1>2. Base /\ States /\ [Next]_vars => (Base /\ States)'
  BY NextBase, NextStates
<1> QED BY <1>1, <1>2, PTL DEF Spec

\* Every variable has its type, and the assertion that ends the switch of update_file
\* (remake.c, assert (f->command_state == cs_running)) holds: a file is updated exactly when it
\* is finished, has a child exactly when it is running, and the activations are of neither.
THEOREM TypeCorrect ==
  ASSUME SingleTargets
  PROVE  Spec => []TypeOK
<1>1. Base /\ States => TypeOK
  BY DEF Base, Types, States, Consistent, TypeOK, Call, State
<1> QED BY <1>1, StatesAlways, PTL

------------------------------------------------------------------------------
(* The invariant for the walk                                              *)

\* make looks at all prerequisites: it goes on after errors, or there are none.
Thorough == KeepGoing \/ ForkFails = {}
Begun(f) == state[f] # "not_started" \/ OnStack(f)
DepsOf(k) == Deps[stack[k].f]

\* A file that is pruned because it was considered in this pass has been begun; those
\* that no pass has come to yet are come to in the first.
Seen == \A f \in File : ~Begun(f) => ~seen[f]
Explored == \A f \in File : state[f] # "not_started" => \A c \in Prereqs(f) : Begun(c)
SecondPass ==
  ~considered => /\ \A k \in 1 .. Len(goals) : Begun(goals[k])
                 /\ \A k \in 1 .. Len(stack) : \A c \in Prereqs(stack[k].f) : Begun(c)
Earlier == pc # "pass" => \A k \in 1 .. Len(goals) : k < g => Begun(goals[k])
Come == pc = "return" => state[Asked] # "not_started"

\* A target is judged by prerequisites that are finished.
Loop(k) ==
  \A i \in 1 .. stack[k].d - 1 :
    /\ Begun(DepsOf(k)[i])
    /\ ~stack[k].running => state[DepsOf(k)[i]] = "finished"
AllJudged == stack # <<>> /\ Top.d = Len(Deps[Top.f]) + 1 /\ ~Top.running
Looped ==
  /\ \A k \in 1 .. Len(stack) : Loop(k)
  /\ At("slots") \/ At("started") => AllJudged

Ordered ==
  \A f \in File : state[f] \in {"running", "finished"} =>
    \A c \in Prereqs(f) : state[c] = "finished"
Remaining ==
  \A i \in 1 .. Len(Goals) :
    state[Goals[i]] = "finished" \/ \E k \in 1 .. Len(goals) : goals[k] = Goals[i]

Walk ==
  Thorough => /\ Ordered
              /\ Walking => Seen /\ Explored /\ SecondPass /\ Earlier /\ Come /\ Looped /\ Remaining
              /\ KeepGoing /\ ~Walking => Remaining /\ goals = <<>>

\* The ways in which make goes on walking.
Place == <<goals, g, considered, seen>>
StartsPass ==
  /\ pc = "pass" /\ pc' = "reap" /\ call'.to = "goals" /\ g' = 1
  /\ UNCHANGED <<stack, goals, considered, seen, state>>
EndsPass ==
  /\ pc = "goals" /\ stack = <<>> /\ g > Len(goals)
  /\ pc' = "pass" /\ considered' = ~considered /\ UNCHANGED <<stack, goals, g, seen, state>>
Answers(f) ==
  /\ pc \in {"goals", "deps"} /\ pc' = "return" /\ UNCHANGED <<stack, goals, g, considered, state>>
  /\ \/ seen[f] = considered /\ seen' = seen
     \/ state[f] # "not_started" /\ seen' = [seen EXCEPT ![f] = considered]
Enters(f) ==
  /\ pc \in {"goals", "deps"} /\ Entered(f) /\ UNCHANGED <<goals, g, considered, state>>
  /\ seen' = [seen EXCEPT ![f] = considered]
LeavesGoal ==
  /\ pc = "return" /\ stack = <<>> /\ g \in 1 .. Len(goals)
  /\ pc' = "goals" /\ UNCHANGED <<stack, considered, seen, state>>
  /\ \/ /\ state[goals[g]] = "finished" /\ g' = g
        /\ goals' = SubSeq(goals, 1, g - 1) \o SubSeq(goals, g + 1, Len(goals))
     \/ g' = g + 1 /\ goals' = goals
Judges == DepReturn /\ Top'.d = Top.d + 1
Leaves ==
  /\ pc \in {"deps", "started"} /\ stack # <<>> /\ stack' = Pop /\ pc' = "return" /\ UNCHANGED Place
  /\ Top.d = Len(Deps[Top.f]) + 1
  /\ \E s \in State \ {"not_started"} :
       /\ state' = [state EXCEPT ![Top.f] = s]
       /\ s \in {"running", "finished"} => ~Top.running
       /\ state[Top.f] = "finished" => s = "finished"
Works ==
  /\ UNCHANGED <<stack, Place>> /\ (pc' = "pass" <=> pc = "pass")
  /\ pc' = "return" => pc = "return"
  /\ \/ state' = state
     \/ /\ AllJudged /\ state[Top.f] # "finished"
        /\ \E s \in State : state' = [state EXCEPT ![Top.f] = s]
     \/ \E f \in File : state[f] = "running" /\ state' = [state EXCEPT ![f] = "finished"]
  /\ At("slots")' \/ At("started")' => AllJudged

Shape ==
  \/ StartsPass \/ EndsPass
  \/ Asked \in File /\ ~OnStack(Asked) /\ (Answers(Asked) \/ Enters(Asked))
  \/ LeavesGoal \/ Judges \/ Leaves \/ Works

\* When make walks, the file asked for is not among the activations.
LEMMA AskedNew ==
  ASSUME Types, Path, Placed, pc = "goals" \/ (stack # <<>> /\ Top.d <= Len(Deps[Top.f]))
  PROVE  ~OnStack(Asked)
<1>1. CASE stack = <<>>
  BY <1>1 DEF OnStack
<1>2. CASE stack # <<>>
  <2>1. pc # "goals"
    BY <1>2 DEF Placed, At
  <2> QED BY <1>2, <2>1, PathDistinct DEF Asked
<1> QED BY <1>1, <1>2

LEMMA UpdateFileShape ==
  ASSUME Types, Consistent, pc \in {"goals", "deps"}, NEW f \in File, UpdateFile(f), Walking',
         UNCHANGED <<goals, g, considered, filevars>>
  PROVE  Answers(f) \/ Enters(f)
<1>1. \/ Pruned(f)
      \/ /\ seen[f] # considered /\ seen' = [seen EXCEPT ![f] = considered]
         /\ Fatal(f) \/ Aborts(f) \/ Known(f) \/ Entered(f)
  BY UpdateFileCases
<1>2. ~Fatal(f) /\ ~Aborts(f)
  BY DEF Fatal, Aborts, Walking
<1>3. state' = state
  BY DEF filevars
<1>4. CASE Pruned(f)
  BY <1>3, <1>4 DEF Pruned, Answers
<1>5. CASE Known(f) /\ seen' = [seen EXCEPT ![f] = considered]
  <2>1. state[f] # "not_started"
    BY <1>5 DEF Known
  <2> QED BY <1>3, <1>5, <2>1 DEF Known, Answers
<1>6. CASE Entered(f) /\ seen' = [seen EXCEPT ![f] = considered]
  BY <1>3, <1>6 DEF Enters
<1> QED BY <1>1, <1>2, <1>4, <1>5, <1>6

\* With -k, or before any error, nothing cuts the walk short.
LEMMA GoesOn ==
  ASSUME Thorough, Stopped, Walking
  PROVE  KeepGoing \/ NoErrorYet
BY DEF Thorough, Stopped, Stops

LEMMA StepShape ==
  ASSUME SingleTargets, Thorough, Base, States, Stopped, Looped, Next, Walking, Walking'
  PROVE  Shape
<1> USE DEF Shape
<1>0. /\ Types /\ Outcomes /\ Path /\ Placed /\ Consistent /\ Pending
      /\ KeepGoing \/ NoErrorYet
  BY GoesOn DEF Base, States
<1>1. CASE Pass
  <2>1. goals # <<>>
    BY <1>1 DEF Pass, Walking
  <2> QED BY <1>1, <2>1 DEF Pass, CallReap, StartsPass, filevars
<1>2. CASE Goal
  <2>0. /\ pc = "goals" /\ stack = <<>> /\ UNCHANGED <<goals, g, filevars, state>>
    BY <1>0, <1>2 DEF Goal, Placed, At, filevars
  <2>1. CASE g <= Len(goals) /\ UpdateFile(goals[g]) /\ UNCHANGED considered
    <3>1. Asked = goals[g] /\ Asked \in File
      BY <1>0, <2>0, <2>1 DEF Types, Asked
    <3>2. ~OnStack(Asked)
      BY <1>0, <2>0, AskedNew
    <3>3. Answers(Asked) \/ Enters(Asked)
      BY <1>0, <2>0, <2>1, <3>1, UpdateFileShape
    <3> QED BY <3>1, <3>2, <3>3
  <2>2. CASE ~(g <= Len(goals)) /\ pc' = "pass" /\ considered' = ~considered
             /\ UNCHANGED <<call, stack, ret, status, seen>>
    <3>1. g > Len(goals)
      BY <1>0, <2>2 DEF Types
    <3> QED BY <2>0, <2>2, <3>1 DEF EndsPass
  <2> QED BY <1>2, <2>1, <2>2 DEF Goal
<1>3. CASE GoalReturn
  <2>1. pc = "return" /\ stack = <<>> /\ g \in 1 .. Len(goals) /\ goals[g] \in File
    BY <1>0, <1>3 DEF GoalReturn, Placed, Types
  <2>2. ~((ret # 0 \/ updated[goals[g]]) /\ ustat[goals[g]] # 0 /\ ~KeepGoing)
    BY <1>0, <2>1 DEF NoErrorYet, Outcomes, Types
  <2>3. updated[goals[g]] <=> state[goals[g]] = "finished"
    BY <1>0, <2>1 DEF Consistent
  <2>4. /\ pc' = "goals" /\ UNCHANGED <<stack, considered, seen, state>>
    BY <1>3, <2>2 DEF GoalReturn, filevars
  <2>5. IF updated[goals[g]]
          THEN g' = g /\ goals' = SubSeq(goals, 1, g - 1) \o SubSeq(goals, g + 1, Len(goals))
          ELSE g' = g + 1 /\ goals' = goals
    BY <1>3, <2>2 DEF GoalReturn
  <2> QED BY <2>1, <2>3, <2>4, <2>5 DEF LeavesGoal
<1>4. CASE Dep
  <2>1. /\ pc = "deps" /\ stack # <<>> /\ Top.d <= Len(Deps[Top.f]) /\ UpdateFile(Cur)
        /\ UNCHANGED <<goals, g, considered, filevars>>
    BY <1>0, <1>4, AtTop DEF Dep, Cur
  <2>2. Asked = Cur /\ Cur \in File
    BY <1>0, <2>1, CurType DEF Asked
  <2>3. ~OnStack(Asked)
    BY <1>0, <2>1, AskedNew
  <2>4. Answers(Asked) \/ Enters(Asked)
    BY <1>0, <2>1, <2>2, UpdateFileShape
  <2> QED BY <2>2, <2>3, <2>4
<1>5. CASE DepReturn
  <2>1. /\ stack # <<>> /\ pc = "return"
        /\ Top'.d = IF (Top.dep_status # 0 \/ ret # 0) /\ ~KeepGoing
                      THEN Len(Deps[Top.f]) + 1 ELSE Top.d + 1
    BY <1>0, <1>5, JudgeTop
  <2>2. ~KeepGoing => Top.dep_status = 0 /\ ret = 0
    <3>1. Len(stack) \in 1 .. Len(stack)
      BY <1>0, <2>1, TopType
    <3> QED BY <1>0, <2>1, <3>1 DEF NoErrorYet, Top
  <2> QED BY <1>5, <2>1, <2>2 DEF Judges
<1>6. CASE DepsRunning \/ DepFailed \/ NoNeed \/ NoRule \/ Execute
  <2>1. pc = "deps" /\ Top.d > Len(Deps[Top.f])
    BY <1>6 DEF DepsRunning, DepFailed, NoNeed, NoRule, Execute, DepsDone, AllDeps
  <2>2. stack # <<>> /\ Top.f \in File /\ Top.d = Len(Deps[Top.f]) + 1
    <3>1. stack # <<>> /\ Top.f \in File /\ Len(Deps[Top.f]) \in Nat
      BY <2>1, AtTop
    <3>2. Top.d \in 1 .. Len(Deps[Top.f]) + 1
      BY <1>0, <3>1, CurType
    <3> QED BY <2>1, <3>1, <3>2
  <2>9. state[Top.f] # "finished"
    <3>1. Len(stack) \in 1 .. Len(stack) /\ ~At("started")
      BY <1>0, <2>1, <2>2, TopType DEF At
    <3> QED BY <1>0, <3>1 DEF Pending, Top
  <2>3. CASE DepsRunning
    <3>1. state' = [state EXCEPT ![Top.f] = "deps_running"]
      BY <1>0, <2>2, <2>3, SingleSet DEF DepsRunning
    <3> QED BY <2>1, <2>2, <2>3, <2>9, <3>1 DEF DepsRunning, Return, Leaves, Place, State
  <2>4. ASSUME NEW r, NEW s, s = state \/ s = NoLongerWaiting(Top.f), ~Top.running,
               Settle(Top.f, r, s), stack' = Pop, pc' = "return", UNCHANGED Place
        PROVE  Leaves
    <3>1. s = state \/ s = [state EXCEPT ![Top.f] = "not_started"]
      BY <1>0, <2>2, <2>4, SingleWaiting
    <3>2. state' = [state EXCEPT ![Top.f] = "finished"]
      BY <1>0, <2>4, <3>1 DEF Settle, Types
    <3> QED BY <2>1, <2>2, <2>4, <3>2 DEF Leaves, State
  <2>5. CASE DepFailed
    BY <2>4, <2>5 DEF DepFailed, Return, Place
  <2>6. CASE NoNeed
    BY <2>4, <2>6 DEF NoNeed, DepsDone, Return, Place
  <2>7. CASE NoRule
    <3>1. Settle(Top.f, 2, state) /\ stack' = Pop /\ pc' = "return" /\ UNCHANGED Place /\ ~Top.running
      BY <2>1, <2>7 DEF NoRule, DepsDone, Die, Return, Place, Walking
    <3> QED BY <2>4, <3>1
  <2>8. CASE Execute
    <3>1. /\ pc' = "reap" /\ UNCHANGED <<stack, Place>> /\ ~Top.running
          /\ state' = NoLongerWaiting(Top.f)
      BY <2>8 DEF Execute, DepsDone, CallReap, walkvars, Place
    <3>2. state' = state \/ state' = [state EXCEPT ![Top.f] = "not_started"]
      BY <1>0, <2>2, <3>1, SingleWaiting
    <3> QED BY <2>1, <2>2, <2>9, <3>1, <3>2 DEF Works, AllJudged, State
  <2> QED BY <1>6, <2>3, <2>5, <2>6, <2>7, <2>8
<1>7. CASE WaitForSlot
  <2>1. /\ UNCHANGED <<stack, Place, state>> /\ pc' = "reap" /\ pc = "slots"
    BY <1>7 DEF WaitForSlot, filevars, walkvars, CallReap, Place
  <2> QED BY <2>1 DEF Works, Looped, At
<1>8. CASE StartJob \/ StartNothing
  <2>1. pc = "slots" /\ pc' = "started" /\ UNCHANGED <<stack, Place>>
    BY <1>8 DEF StartJob, StartNothing, Slot, walkvars, Place
  <2>2. AllJudged /\ stack # <<>> /\ Top.f \in File
    BY <2>1, AtTop DEF Looped, At
  <2>3. \E s \in State : state' = [state EXCEPT ![Top.f] = s]
    BY <1>0, <1>8, <2>2, SingleSet DEF StartJob, StartNothing, Settle, State
  <2>4. state[Top.f] # "finished"
    BY <1>0, <2>1 DEF Pending, At
  <2> QED BY <2>1, <2>2, <2>3, <2>4 DEF Works
<1>9. CASE JobStarted
  <2>1. pc = "started" /\ UNCHANGED <<state, Place>>
    BY <1>9 DEF JobStarted, filevars, Place
  <2>2. AllJudged /\ stack # <<>> /\ Top.f \in File
    BY <2>1, AtTop DEF Looped, At
  <2>3. CASE CallReap(TRUE, FALSE, "started") /\ UNCHANGED <<stack, ret>>
    BY <2>1, <2>2, <2>3 DEF CallReap, Works
  <2>4. CASE stack' = Pop /\ Return(IF state[Top.f] = "finished" THEN ustat[Top.f] ELSE 0)
    <3>1. state[Top.f] \in State \ {"not_started"}
      <4>1. Len(stack) \in 1 .. Len(stack)
        BY <1>0, <2>2, TopType
      <4> QED BY <1>0, <2>1, <4>1 DEF Pending, Top, At, State
    <3>2. state' = [state EXCEPT ![Top.f] = state[Top.f]]
      BY <1>0, <2>1 DEF Types
    <3> QED BY <2>1, <2>2, <2>4, <3>1, <3>2 DEF Leaves, Return, AllJudged
  <2> QED BY <1>9, <2>3, <2>4 DEF JobStarted
<1>10. CASE ReapReturn
  <2>1. /\ UNCHANGED <<stack, Place, state>> /\ pc = "reap" /\ pc' = call.to
        /\ call.to \in {"goals", "slots", "started", "die"}
    BY <1>0, <1>10 DEF ReapReturn, filevars, walkvars, Place, Types, Call
  <2> QED BY <2>1 DEF Works, Looped, At
<1>11. ASSUME NEW f \in File, ReapNextLine(f) PROVE Works
  <2>1. UNCHANGED <<pc, call, stack, Place, state>> /\ pc = "reap"
    BY <1>11 DEF ReapNextLine, Reapable, walkvars, Place
  <2> QED BY <2>1 DEF Works, Looped, At
<1>12. ASSUME NEW f \in File, ReapFinished(f) \/ ReapFailed(f) PROVE Works
  <2>1. pc = "reap" /\ f \in Zombies /\ UNCHANGED <<stack, Place>>
    BY <1>12 DEF ReapFinished, ReapFailed, Reapable, walkvars, Place
  <2>2. \E r : \E t : Notice(f, r, t)
    BY <1>12 DEF ReapFinished, ReapFailed
  <2>3. state' = [state EXCEPT ![f] = "finished"] /\ state[f] = "running"
    BY <1>0, <2>1, <2>2, SingleNotice DEF Consistent, Zombies, Children
  <2>4. pc' = "reap" /\ call'.to = call.to
    <3>1. call \in Call
      BY <1>0 DEF Types
    <3> QED BY <1>12, <2>1, <3>1 DEF ReapFinished, ReapFailed, Die, Call, Walking
  <2> QED BY <2>1, <2>3, <2>4 DEF Works, Looped, At
<1>13. CASE DieWait \/ Exit
  BY <1>13 DEF DieWait, Exit, Walking
<1>14. ASSUME NEW f \in File, CommandExits(f) PROVE Works
  <2>1. UNCHANGED <<pc, call, stack, Place, state>>
    BY <1>14 DEF CommandExits, walkvars, Place
  <2> QED BY <2>1 DEF Works, Looped, At
<1>15. CASE Finished
  BY <1>15 DEF Finished, Walking
<1> QED BY <1>1, <1>2, <1>3, <1>4, <1>5, <1>6, <1>7, <1>8, <1>9, <1>10, <1>11, <1>12, <1>13, <1>14,
     <1>15 DEF Next, MakeStep

\* The files of the activations when update_file_1 returns.
LEMMA LeavesStack ==
  ASSUME Types, Path, Leaves
  PROVE  /\ Len(stack)' = Len(stack) - 1
         /\ \A k \in 1 .. Len(stack)' : k \in 1 .. Len(stack) /\ stack'[k] = stack[k] /\ stack[k].f # Top.f
         /\ \A k \in 1 .. Len(stack) : stack[k].f # Top.f => k \in 1 .. Len(stack)'
<1>1. stack # <<>> /\ stack' = Pop /\ Len(stack) \in Nat \ {0}
  BY TopType DEF Leaves
<1>2. Len(stack)' = Len(stack) - 1 /\ \A k \in 1 .. Len(stack) - 1 : stack'[k] = stack[k]
  BY <1>1, PopStack
<1>3. \A k \in 1 .. Len(stack) - 1 : stack[k].f # Top.f
  BY <1>1, PathDistinct DEF Top
<1>4. \A k \in 1 .. Len(stack) : k = Len(stack) \/ k \in 1 .. Len(stack) - 1
  BY <1>1
<1> QED BY <1>1, <1>2, <1>3, <1>4 DEF Top

LEMMA JudgesStack ==
  ASSUME Types, Path, Judges
  PROVE  /\ Len(stack)' = Len(stack) /\ stack' # <<>>
         /\ \A k \in 1 .. Len(stack) : stack'[k].f = stack[k].f
         /\ \A k \in 1 .. Len(stack) : k = Len(stack) \/ stack'[k] = stack[k]
<1>1. /\ stack # <<>> /\ Len(stack)' = Len(stack) /\ stack' # <<>>
      /\ \A k \in 1 .. Len(stack) - 1 : stack'[k] = stack[k]
      /\ Top'.f = Top.f
  BY JudgeTop DEF Judges
<1>2. \A k \in 1 .. Len(stack) : k = Len(stack) \/ k \in 1 .. Len(stack) - 1
  BY <1>1, TopType
<1> QED BY <1>1, <1>2 DEF Top

\* What has been begun or finished stays so.
LEMMA Monotone ==
  ASSUME Types, Path, Shape
  PROVE  /\ \A h \in File : state[h] = "finished" => state'[h] = "finished"
         /\ \A h \in File : Begun(h) => Begun(h)'
<1>0. state \in [File -> State]
  BY DEF Types
<1>1. CASE StartsPass \/ EndsPass \/ Answers(Asked) \/ LeavesGoal
  <2>1. UNCHANGED <<stack, state>>
    BY <1>1 DEF StartsPass, EndsPass, Answers, LeavesGoal
  <2> QED BY <2>1 DEF Begun, OnStack
<1>2. CASE Asked \in File /\ Enters(Asked)
  <2>1. state' = state /\ stack' = Append(stack, NewFrame(Asked))
    BY <1>2 DEF Enters, Entered
  <2>2. Len(stack) \in Nat /\ Len(stack)' = Len(stack) + 1 /\ \A k \in 1 .. Len(stack) : stack'[k] = stack[k]
    BY <2>1, EnterStack
  <2>3. \A k \in 1 .. Len(stack) : k \in 1 .. Len(stack)'
    BY <2>2
  <2> QED BY <2>1, <2>2, <2>3 DEF Begun, OnStack
<1>3. CASE Judges
  <2>1. state' = state
    BY <1>3 DEF Judges, DepReturn, filevars
  <2> QED BY <1>3, <2>1, JudgesStack DEF Begun, OnStack
<1>4. CASE Leaves
  <2>1. PICK s \in State \ {"not_started"} :
          state' = [state EXCEPT ![Top.f] = s] /\ (state[Top.f] = "finished" => s = "finished")
    BY <1>4 DEF Leaves
  <2>2. \A h \in File : state'[h] = IF h = Top.f THEN s ELSE state[h]
    BY <1>0, <2>1
  <2>3. ASSUME NEW h \in File, OnStack(h), h # Top.f PROVE OnStack(h)'
    BY <1>4, <2>3, LeavesStack DEF OnStack
  <2> QED BY <2>1, <2>2, <2>3 DEF Begun
<1>5. CASE Works
  <2>1. stack' = stack
    BY <1>5 DEF Works
  <2>2. \A h \in File : OnStack(h)' <=> OnStack(h)
    BY <2>1 DEF OnStack
  <2>3. CASE state' = state
    BY <2>2, <2>3 DEF Begun
  <2>4. CASE /\ AllJudged /\ state[Top.f] # "finished"
             /\ \E s \in State : state' = [state EXCEPT ![Top.f] = s]
    <3>1. PICK s \in State : state' = [state EXCEPT ![Top.f] = s]
      BY <2>4
    <3>2. \A h \in File : state'[h] = IF h = Top.f THEN s ELSE state[h]
      BY <1>0, <3>1
    <3>3. OnStack(Top.f)
      <4>1. stack # <<>>
        BY <2>4 DEF AllJudged
      <4>2. Len(stack) \in 1 .. Len(stack)
        BY <4>1, TopType
      <4> QED BY <4>2 DEF OnStack, Top
    <3> QED BY <2>2, <2>4, <3>2, <3>3 DEF Begun
  <2>5. CASE \E h \in File : state[h] = "running" /\ state' = [state EXCEPT ![h] = "finished"]
    BY <1>0, <2>2, <2>5 DEF Begun
  <2> QED BY <1>5, <2>3, <2>4, <2>5 DEF Works
<1> QED BY <1>1, <1>2, <1>3, <1>4, <1>5 DEF Shape

\* When all prerequisites of the top are judged.
LEMMA TopLooped ==
  ASSUME Types, Path, Looped, stack # <<>>, Top.d = Len(Deps[Top.f]) + 1,
         NEW c \in Prereqs(Top.f)
  PROVE  Begun(c) /\ (~Top.running => state[c] = "finished")
<1>1. Len(stack) \in 1 .. Len(stack) /\ Len(Deps[Top.f]) \in Nat
  BY TopType
<1>2. PICK i \in 1 .. Len(Deps[Top.f]) : c = Deps[Top.f][i]
  BY DEF Prereqs
<1>3. i \in 1 .. Top.d - 1
  BY <1>1, <1>2
<1>4. Loop(Len(stack))
  BY <1>1 DEF Looped
<1> QED BY <1>2, <1>3, <1>4 DEF Loop, DepsOf, Top

\* Only the top changes from what is not begun, or not made.
LEMMA TopChanges ==
  ASSUME Types, Shape, NEW f \in File
  PROVE  /\ state'[f] # "not_started" =>
              state[f] # "not_started" \/ (stack # <<>> /\ f = Top.f /\ Top.d = Len(Deps[Top.f]) + 1)
         /\ state'[f] \in {"running", "finished"} =>
              \/ state[f] \in {"running", "finished"}
              \/ stack # <<>> /\ f = Top.f /\ Top.d = Len(Deps[Top.f]) + 1 /\ ~Top.running
<1>0. state \in [File -> State]
  BY DEF Types
<1>1. CASE UNCHANGED state
  BY <1>1
<1>2. CASE Leaves
  BY <1>0, <1>2 DEF Leaves
<1>3. CASE Works
  BY <1>0, <1>3 DEF Works, AllJudged
<1> QED BY <1>1, <1>2, <1>3
    DEF Shape, StartsPass, EndsPass, Answers, Enters, LeavesGoal, Judges, DepReturn, filevars

LEMMA PrereqsType == ASSUME NEW f \in File PROVE Prereqs(f) \subseteq File
<1>1. Deps[f] \in Seq(File)
  BY GraphAssumption
<1> QED BY <1>1 DEF Prereqs

LEMMA OrderedStep ==
  ASSUME Types, Path, Looped, Ordered, Explored, Shape
  PROVE  Ordered' /\ Explored'
<1>1. ASSUME NEW f \in File, state'[f] \in {"running", "finished"}, NEW c \in Prereqs(f)
      PROVE  state'[c] = "finished"
  <2>1. c \in File
    BY PrereqsType
  <2>2. state[c] = "finished"
    BY <1>1, TopChanges, TopLooped DEF Ordered
  <2> QED BY <2>1, <2>2, Monotone
<1>2. ASSUME NEW f \in File, state'[f] # "not_started", NEW c \in Prereqs(f)
      PROVE  Begun(c)'
  <2>1. c \in File
    BY PrereqsType
  <2>2. Begun(c)
    BY <1>2, TopChanges, TopLooped DEF Explored
  <2> QED BY <2>1, <2>2, Monotone
<1> QED BY <1>1, <1>2 DEF Ordered, Explored

LEMMA SeenStep ==
  ASSUME Types, Path, Seen, Shape
  PROVE  Seen'
<1>1. ASSUME NEW f \in File, seen'[f] = seen[f] \/ Begun(f)', ~Begun(f)'
      PROVE  ~seen'[f]
  <2>1. ~Begun(f)
    BY <1>1, Monotone
  <2>2. ~seen[f]
    BY <2>1 DEF Seen
  <2> QED BY <1>1, <2>2
<1>2. CASE UNCHANGED seen
  BY <1>1, <1>2 DEF Seen
<1>3. CASE Answers(Asked) /\ state[Asked] # "not_started" /\ seen' = [seen EXCEPT ![Asked] = considered]
  <2>2. ASSUME NEW f \in File, f # Asked PROVE seen'[f] = seen[f]
    BY <1>3, <2>2 DEF Types
  <2>3. ASSUME NEW f \in File, f = Asked PROVE Begun(f)'
    BY <1>3, <2>3 DEF Answers, Begun
  <2> QED BY <1>1, <2>2, <2>3 DEF Seen
<1>4. CASE Asked \in File /\ Enters(Asked)
  <2>1. seen' = [seen EXCEPT ![Asked] = considered] /\ stack' = Append(stack, NewFrame(Asked))
    BY <1>4 DEF Enters, Entered
  <2>2. /\ Len(stack) + 1 \in 1 .. Len(stack)' /\ stack'[Len(stack) + 1].f = Asked
    BY <1>4, <2>1, EnterStack DEF NewFrame
  <2>3. ASSUME NEW f \in File, f = Asked PROVE Begun(f)'
    BY <2>2, <2>3 DEF Begun, OnStack
  <2>4. ASSUME NEW f \in File, f # Asked PROVE seen'[f] = seen[f]
    BY <2>1, <2>4 DEF Types
  <2> QED BY <1>1, <2>3, <2>4 DEF Seen
<1> QED BY <1>2, <1>3, <1>4
    DEF Shape, StartsPass, EndsPass, Answers, LeavesGoal, Judges, DepReturn, Leaves, Works, Place

LEMMA SameLoop ==
  ASSUME Types, Path, Shape, NEW k \in 1 .. Len(stack), Loop(k), stack'[k] = stack[k]
  PROVE  Loop(k)'
<1>1. stack[k] \in Frame /\ stack[k].d \in 1 .. Len(DepsOf(k)) + 1
  BY DEF Types, Path, DepsOf
<1>2. DepsOf(k) \in Seq(File)
  BY <1>1, GraphAssumption DEF Frame, DepsOf
<1>3. \A i \in 1 .. stack[k].d - 1 : DepsOf(k)[i] \in File
  <2>1. \A i \in 1 .. stack[k].d - 1 : i \in 1 .. Len(DepsOf(k))
    BY <1>1, <1>2
  <2> QED BY <1>2, <2>1
<1>4. DepsOf(k)' = DepsOf(k)
  BY DEF DepsOf
<1>5. ASSUME NEW i \in 1 .. stack[k].d - 1
      PROVE  /\ Begun(DepsOf(k)[i])'
             /\ ~stack[k].running => state'[DepsOf(k)[i]] = "finished"
  <2>1. PICK c \in File : c = DepsOf(k)[i]
    BY <1>3
  <2>2. Begun(c) /\ (~stack[k].running => state[c] = "finished")
    BY <2>1 DEF Loop
  <2>3. Begun(c)' /\ (~stack[k].running => state'[c] = "finished")
    BY <2>2, Monotone
  <2> QED BY <1>4, <2>1, <2>3 DEF Begun, OnStack
<1> QED BY <1>4, <1>5 DEF Loop

LEMMA JudgedLoop ==
  ASSUME Types, Path, Come, Looped, Judges
  PROVE  Loop(Len(stack))'
<1> DEFINE n == Len(stack)
<1>1. /\ stack # <<>> /\ pc = "return" /\ Top.d <= Len(Deps[Top.f])
      /\ Len(stack') = n /\ Top'.f = Top.f /\ Top'.d = Top.d + 1
      /\ Top'.running <=> Top.running \/ BeingMade
      /\ state' = state
  BY JudgeTop DEF Judges, DepReturn, filevars
<1>2. n \in 1 .. n /\ Top = stack[n] /\ Top' = stack'[n] /\ Top.d \in Nat
  BY <1>1, TopType, CurType DEF Top
<1>3. \A h \in File : Begun(h) => Begun(h)'
  BY Monotone DEF Shape
<1>4. /\ \A i \in 1 .. Len(Deps[Top.f]) : Deps[Top.f][i] \in File
      /\ Len(Deps[Top.f]) \in Nat
  BY <1>1, CurType, TopType
<1>5. ASSUME NEW i \in 1 .. Top'.d - 1
      PROVE  /\ Begun(Deps[Top.f][i])
             /\ ~Top'.running => state[Deps[Top.f][i]] = "finished"
  <2>1. CASE i = Top.d
    <3>1. state[Cur] # "not_started"
      BY <1>1 DEF Come, Asked
    <3>2. Cur \in File
      BY <1>1, CurType
    <3> QED BY <1>1, <2>1, <3>1, <3>2 DEF Cur, Begun, BeingMade, Types, State
  <2>2. CASE i # Top.d
    <3>1. i \in 1 .. Top.d - 1
      BY <1>1, <1>2, <2>2
    <3>2. Loop(n)
      BY <1>2 DEF Looped
    <3> QED BY <1>1, <1>2, <3>1, <3>2 DEF Loop, DepsOf
  <2> QED BY <2>1, <2>2
<1>6. ASSUME NEW i \in 1 .. Top'.d - 1
      PROVE  /\ Begun(DepsOf(n)[i])'
             /\ ~stack'[n].running => state'[DepsOf(n)'[i]] = "finished"
  <2>1. PICK c \in File : c = Deps[Top.f][i]
    <3>1. i \in 1 .. Len(Deps[Top.f])
      BY <1>1, <1>2, <1>4
    <3> QED BY <1>4, <3>1
  <2>2. Begun(c) /\ (~Top'.running => state[c] = "finished")
    BY <1>5, <2>1
  <2>3. DepsOf(n)'[i] = c
    BY <1>1, <1>2, <2>1 DEF DepsOf
  <2>4. Begun(c)' /\ (~Top'.running => state'[c] = "finished")
    BY <1>1, <1>3, <2>2
  <2> QED BY <1>2, <2>3, <2>4 DEF Begun, OnStack
<1> QED BY <1>1, <1>2, <1>6 DEF Loop

LEMMA LoopedStep ==
  ASSUME Types, Path, Come, Looped, Shape
  PROVE  Looped'
<1>1. At("slots")' \/ At("started")' => AllJudged'
  <2>1. CASE Works
    BY <2>1 DEF Works, AllJudged, Top
  <2>2. CASE ~Works
    <3>1. pc' \in {"pass", "goals", "return", "deps"} \/ (pc' = "reap" /\ call'.to = "goals")
      BY <2>2, JudgeTop DEF Shape, StartsPass, EndsPass, Answers, Enters, Entered, LeavesGoal,
         Judges, Leaves
    <3> QED BY <3>1 DEF At
  <2> QED BY <2>1, <2>2
<1>2. ASSUME NEW k \in 1 .. Len(stack)' PROVE Loop(k)'
  <2>1. CASE k \in 1 .. Len(stack) /\ stack'[k] = stack[k]
    BY <2>1, SameLoop DEF Looped
  <2>2. CASE Judges
    <3>1. Len(stack)' = Len(stack) /\ (k = Len(stack) \/ stack'[k] = stack[k])
      BY <2>2, JudgesStack
    <3>2. CASE k = Len(stack)
      <4>1. Loop(Len(stack))'
        BY <2>2, JudgedLoop
      <4>2. k' = k /\ Len(stack)' = k
        BY <3>1, <3>2
      <4> QED BY <4>1, <4>2 DEF Loop, DepsOf
    <3> QED BY <2>1, <3>1, <3>2
  <2>3. CASE Asked \in File /\ Enters(Asked)
    <3>1. stack' = Append(stack, NewFrame(Asked))
      BY <2>3 DEF Enters, Entered
    <3>2. \/ stack'[k] = NewFrame(Asked)
          \/ k \in 1 .. Len(stack) /\ stack'[k] = stack[k]
      BY <2>3, <3>1, EnterStack
    <3>3. NewFrame(Asked).d = 1
      BY DEF NewFrame
    <3>4. stack'[k] = NewFrame(Asked) => Loop(k)'
      BY <3>3 DEF Loop
    <3> QED BY <2>1, <3>2, <3>4
  <2>4. CASE Leaves
    BY <2>1, <2>4, LeavesStack
  <2>5. CASE UNCHANGED stack
    BY <2>1, <2>5
  <2> QED BY <2>2, <2>3, <2>4, <2>5 DEF Shape, StartsPass, EndsPass, Answers, LeavesGoal, Works
<1> QED BY <1>1, <1>2 DEF Looped

\* A file asked for when it was considered in this pass already, or in the second pass.
LEMMA AskedBegun ==
  ASSUME Types, Path, Seen, SecondPass, Asked \in File, ~OnStack(Asked),
         IF stack = <<>> THEN g \in 1 .. Len(goals) ELSE Top.d <= Len(Deps[Top.f]),
         seen[Asked] \/ ~considered
  PROVE  state[Asked] # "not_started"
<1>1. Begun(Asked)
  <2>1. CASE seen[Asked]
    BY <2>1 DEF Seen
  <2>2. CASE ~considered /\ stack = <<>>
    BY <2>2 DEF SecondPass, Asked
  <2>3. CASE ~considered /\ stack # <<>>
    <3>1. Cur \in Prereqs(Top.f) /\ Len(stack) \in 1 .. Len(stack)
      BY <2>3, PathDistinct, TopType
    <3> QED BY <2>3, <3>1 DEF SecondPass, Asked, Top
  <2> QED BY <2>1, <2>2, <2>3
<1> QED BY <1>1 DEF Begun

LEMMA ComeStep ==
  ASSUME Base, Base', Walking, Walking', Seen, SecondPass, Come, Shape
  PROVE  Come'
<1>0. Types /\ Path /\ Placed /\ Placed'
  BY DEF Base
<1>1. CASE Answers(Asked) /\ Asked \in File /\ ~OnStack(Asked)
  <2>1. pc' = "return" /\ UNCHANGED <<stack, goals, g, state, considered>>
    BY <1>1 DEF Answers
  <2>2. Asked' = Asked
    BY <2>1 DEF Asked, Cur, Top
  <2>3. IF stack = <<>> THEN g \in 1 .. Len(goals) ELSE Top.d <= Len(Deps[Top.f])
    BY <1>0, <2>1 DEF Placed, Top
  <2>4. state[Asked] # "not_started"
    <3>1. CASE state[Asked] # "not_started"
      BY <3>1
    <3>2. CASE seen[Asked] = considered
      <4>1. seen[Asked] \/ ~considered
        BY <1>0, <1>1, <3>2 DEF Types
      <4> QED BY <1>0, <1>1, <2>3, <4>1, AskedBegun
    <3> QED BY <1>1, <3>1, <3>2 DEF Answers
  <2> QED BY <2>1, <2>2, <2>4 DEF Come
<1>2. CASE Leaves
  <2>1. stack # <<>> /\ stack' = Pop /\ UNCHANGED <<goals, g>>
    BY <1>2 DEF Leaves, Place
  <2>2. Asked' = Top.f /\ Top.f \in File
    BY <1>0, <2>1, PopPath, TopType
  <2>3. state'[Top.f] # "not_started"
    BY <1>0, <1>2, <2>2 DEF Leaves, Types
  <2> QED BY <2>2, <2>3 DEF Come
<1>3. CASE Works
  <2> SUFFICES ASSUME pc' = "return" PROVE state'[Asked'] # "not_started"
    BY DEF Come
  <2>1. pc = "return" /\ UNCHANGED <<stack, goals, g>>
    BY <1>3 DEF Works, Place
  <2>2. Asked' = Asked /\ Asked \in File /\ state[Asked] # "not_started"
    <3>1. Asked' = Asked
      BY <2>1 DEF Asked, Cur, Top
    <3>2. Asked \in File
      BY <1>0, <2>1, CurType DEF Asked, Placed, Types
    <3> QED BY <2>1, <3>1, <3>2 DEF Come
  <2>3. ~AllJudged
    <3> SUFFICES ASSUME AllJudged PROVE FALSE
      OBVIOUS
    <3>1. stack # <<>> /\ Top.d = Len(Deps[Top.f]) + 1
      BY DEF AllJudged
    <3> QED BY <1>0, <2>1, <3>1, TopType DEF Placed
  <2>4. state' = state \/ \E f \in File : state' = [state EXCEPT ![f] = "finished"]
    BY <1>3, <2>3 DEF Works
  <2> QED BY <1>0, <2>2, <2>4 DEF Types
<1>4. CASE pc' # "return"
  BY <1>4 DEF Come
<1> QED BY <1>1, <1>2, <1>3, <1>4, JudgeTop, <1>0
    DEF Shape, StartsPass, EndsPass, Enters, Entered, LeavesGoal, Judges

\* The goals that remain are goals that there were.
LEMMA GoalsShape ==
  ASSUME Types, Shape
  PROVE  /\ \A k \in 1 .. Len(goals)' : \E j \in 1 .. Len(goals) : goals'[k] = goals[j]
         /\ \A j \in 1 .. Len(goals) :
              state[goals[j]] = "finished" \/ \E k \in 1 .. Len(goals)' : goals'[k] = goals[j]
<1>1. CASE UNCHANGED goals
  BY <1>1
<1>2. CASE LeavesGoal /\ goals' # goals
  <2>1. /\ g \in 1 .. Len(goals) /\ state[goals[g]] = "finished"
        /\ goals' = SubSeq(goals, 1, g - 1) \o SubSeq(goals, g + 1, Len(goals))
    BY <1>2 DEF LeavesGoal
  <2>2. /\ Len(goals)' = Len(goals) - 1
        /\ \A k \in 1 .. g - 1 : goals'[k] = goals[k]
        /\ \A k \in g .. Len(goals) - 1 : goals'[k] = goals[k + 1]
    BY <2>1, RestType
  <2>3. PICK n \in Nat : n = Len(goals)
    BY DEF Types
  <2>6. g \in Nat /\ 1 <= g /\ g <= n /\ Len(goals)' = n - 1
    <3>1. g \in Nat /\ g \in 1 .. n
      BY <1>2, <2>3 DEF LeavesGoal, Types
    <3>2. Len(goals)' = n - 1
      BY <2>2, <2>3
    <3> QED BY <3>1, <3>2
  <2>4. ASSUME NEW k \in 1 .. n - 1
        PROVE  \E j \in 1 .. n : goals'[k] = goals[j]
    <3>1. k \in 1 .. g - 1 \/ k \in g .. n - 1
      BY <2>6
    <3>2. k \in 1 .. n /\ k + 1 \in 1 .. n
      OBVIOUS
    <3> QED BY <2>2, <2>3, <3>1, <3>2
  <2>5. ASSUME NEW j \in 1 .. n, state[goals[j]] # "finished"
        PROVE  \E k \in 1 .. n - 1 : goals'[k] = goals[j]
    <3>1. j # g
      BY <2>1, <2>5
    <3>2. CASE j < g
      <4>1. j \in 1 .. g - 1 /\ j \in 1 .. n - 1
        BY <2>6, <3>2
      <4> QED BY <2>2, <4>1
    <3>3. CASE j > g
      <4>1. j - 1 \in g .. n - 1 /\ j - 1 \in 1 .. n - 1 /\ j - 1 + 1 = j
        BY <2>6, <3>3
      <4>2. goals'[j - 1] = goals[j - 1 + 1]
        BY <2>2, <2>3, <4>1
      <4> QED BY <4>1, <4>2
    <3> QED BY <2>6, <3>1, <3>2, <3>3
  <2> QED BY <2>3, <2>4, <2>5, <2>6
<1> QED BY <1>1, <1>2
    DEF Shape, StartsPass, EndsPass, Answers, Enters, LeavesGoal, Judges, DepReturn, Leaves, Works, Place

LEMMA RemainingStep ==
  ASSUME Types, Path, Remaining, Shape
  PROVE  Remaining'
<1> SUFFICES ASSUME NEW i \in 1 .. Len(Goals), state'[Goals[i]] # "finished"
             PROVE  \E k \in 1 .. Len(goals)' : goals'[k] = Goals[i]
  BY DEF Remaining
<1>1. Goals[i] \in File
  BY GraphAssumption
<1>2. state[Goals[i]] # "finished"
  BY <1>1, Monotone
<1>3. PICK j \in 1 .. Len(goals) : goals[j] = Goals[i]
  BY <1>2 DEF Remaining
<1> QED BY <1>2, <1>3, GoalsShape

LEMMA SecondPassStep ==
  ASSUME Types, Path, Placed, Explored, SecondPass, Earlier, Shape,
         Enters(Asked) => IF stack = <<>> THEN g \in 1 .. Len(goals) ELSE Top.d <= Len(Deps[Top.f]),
         Seen
  PROVE  SecondPass'
<1> SUFFICES ASSUME ~considered'
             PROVE  /\ \A k \in 1 .. Len(goals)' : Begun(goals[k])'
                    /\ \A k \in 1 .. Len(stack)' : \A c \in Prereqs(stack'[k].f) : Begun(c)'
  BY DEF SecondPass
<1>1. \A j \in 1 .. Len(goals) : Begun(goals[j])
  <2>1. CASE EndsPass
    <3>1. pc # "pass" /\ \A k \in 1 .. Len(goals) : k < g
      BY <2>1 DEF EndsPass, Types
    <3> QED BY <3>1 DEF Earlier
  <2>2. CASE considered' = considered
    BY <2>2 DEF SecondPass
  <2> QED BY <2>1, <2>2
      DEF Shape, StartsPass, Answers, Enters, LeavesGoal, Judges, DepReturn, Leaves, Works, Place
<1>2. ASSUME NEW k \in 1 .. Len(goals)' PROVE Begun(goals[k])'
  <2>1. PICK j \in 1 .. Len(goals) : goals'[k] = goals[j]
    BY GoalsShape
  <2>2. PICK f \in File : f = goals[j]
    BY DEF Types
  <2>3. Begun(f)'
    BY <1>1, <2>2, Monotone
  <2> QED BY <2>1, <2>2, <2>3 DEF Begun, OnStack
<1>3. ASSUME ~considered, NEW h \in 1 .. Len(stack), NEW c \in Prereqs(stack[h].f) PROVE Begun(c)'
  <2>1. stack[h] \in Frame
    BY DEF Types
  <2>2. c \in File
    BY <2>1, PrereqsType DEF Frame
  <2>3. Begun(c)
    BY <1>3 DEF SecondPass
  <2> QED BY <2>2, <2>3, Monotone
<1>4. ASSUME NEW k \in 1 .. Len(stack)', NEW c \in Prereqs(stack'[k].f) PROVE Begun(c)'
  <2>1. CASE EndsPass
    BY <2>1 DEF EndsPass
  <2>2. CASE ~EndsPass
    <3>0. ~considered
      BY <2>2 DEF Shape, StartsPass, Answers, Enters, LeavesGoal, Judges, DepReturn, Leaves,
         Works, Place
    <3>1. CASE k \in 1 .. Len(stack) /\ stack'[k].f = stack[k].f
      BY <1>3, <1>4, <3>0, <3>1
    <3>2. CASE Judges
      BY <3>1, <3>2, JudgesStack
    <3>3. CASE Leaves
      BY <3>1, <3>3, LeavesStack
    <3>4. CASE UNCHANGED stack
      BY <3>1, <3>4
    <3>5. CASE Asked \in File /\ ~OnStack(Asked) /\ Enters(Asked)
      <4>1. stack' = Append(stack, NewFrame(Asked))
        BY <3>5 DEF Enters, Entered
      <4>2. stack'[k] = NewFrame(Asked) \/ (k \in 1 .. Len(stack) /\ stack'[k] = stack[k])
        BY <3>5, <4>1, EnterStack
      <4>3. CASE stack'[k] = NewFrame(Asked)
        <5>1. state[Asked] # "not_started"
          BY <3>0, <3>5, AskedBegun
        <5>2. c \in Prereqs(Asked) /\ c \in File
          BY <1>4, <3>5, <4>3, PrereqsType DEF NewFrame
        <5>3. Begun(c)
          BY <3>5, <5>1, <5>2 DEF Explored
        <5> QED BY <5>2, <5>3, Monotone
      <4> QED BY <3>1, <4>2, <4>3
    <3> QED BY <2>2, <3>2, <3>3, <3>4, <3>5
        DEF Shape, StartsPass, Answers, LeavesGoal, Works
  <2> QED BY <2>1, <2>2
<1> QED BY <1>2, <1>4

LEMMA EarlierStep ==
  ASSUME Types, Path, Earlier, Come, Shape
  PROVE  Earlier'
<1>1. ASSUME UNCHANGED <<goals, g>>, pc # "pass" PROVE Earlier'
  <2>1. ASSUME NEW k \in 1 .. Len(goals), k < g PROVE Begun(goals[k])'
    <3>1. PICK f \in File : f = goals[k]
      BY DEF Types
    <3>2. Begun(f)'
      BY <1>1, <2>1, <3>1, Monotone DEF Earlier
    <3> QED BY <1>1, <3>1, <3>2 DEF Begun, OnStack
  <2> QED BY <1>1, <2>1 DEF Earlier
<1>2. CASE StartsPass
  <2>1. g' = 1 /\ \A k \in 1 .. Len(goals)' : ~(k < 1)
    BY <1>2 DEF StartsPass
  <2> QED BY <2>1 DEF Earlier
<1>3. CASE LeavesGoal
  <2>1. pc = "return" /\ stack = <<>> /\ g \in 1 .. Len(goals) /\ Asked = goals[g] /\ pc # "pass"
    BY <1>3 DEF LeavesGoal, Asked
  <2>2. Begun(goals[g])
    BY <2>1 DEF Come, Begun
  <2>3. \A j \in 1 .. Len(goals) : j <= g => Begun(goals[j])
    BY <2>1, <2>2 DEF Earlier, Types
  <2>4. ASSUME NEW k \in 1 .. Len(goals)', k < g',
               NEW j \in 1 .. Len(goals), j <= g, goals'[k] = goals[j]
        PROVE  Begun(goals[k])'
    <3>1. PICK f \in File : f = goals[j]
      BY DEF Types
    <3>2. Begun(f)'
      BY <2>3, <2>4, <3>1, Monotone
    <3> QED BY <2>4, <3>1, <3>2 DEF Begun, OnStack
  <2>5. CASE g' = g + 1 /\ goals' = goals
    <3>1. \A k \in 1 .. Len(goals)' : k < g' => k \in 1 .. Len(goals) /\ k <= g /\ goals'[k] = goals[k]
      BY <2>1, <2>5 DEF Types
    <3> QED BY <2>4, <3>1 DEF Earlier
  <2>6. CASE g' = g /\ goals' = SubSeq(goals, 1, g - 1) \o SubSeq(goals, g + 1, Len(goals))
    <3>1. \A k \in 1 .. g - 1 : goals'[k] = goals[k]
      BY <2>1, <2>6, RestType
    <3>2. \A k \in 1 .. g - 1 : k \in 1 .. Len(goals) /\ k <= g
      BY <2>1 DEF Types
    <3>3. \A k \in 1 .. Len(goals)' : k < g => k \in 1 .. g - 1
      <4>1. g \in Nat /\ g' = g
        BY <2>6 DEF Types
      <4>2. \A k \in Int : 1 <= k /\ k < g => k \in 1 .. g - 1
        BY <4>1
      <4>3. \A k \in 1 .. Len(goals)' : k \in Int /\ 1 <= k
        OBVIOUS
      <4> QED BY <4>2, <4>3
    <3>4. g' = g
      BY <2>6
    <3>5. ASSUME NEW k \in 1 .. Len(goals)', k < g' PROVE Begun(goals[k])'
      <4>1. k \in 1 .. g - 1
        BY <3>3, <3>4, <3>5
      <4> QED BY <2>4, <3>1, <3>2, <3>5, <4>1
    <3> QED BY <3>5 DEF Earlier
  <2> QED BY <1>3, <2>5, <2>6 DEF LeavesGoal
<1>4. CASE EndsPass
  BY <1>4 DEF EndsPass, Earlier
<1>5. CASE Works /\ pc = "pass"
  BY <1>5 DEF Works, Earlier
<1> QED BY <1>1, <1>2, <1>3, <1>4, <1>5
    DEF Shape, Answers, Enters, Judges, DepReturn, Returned, Leaves, Works, Place

LEMMA WalkGoesOn ==
  ASSUME SingleTargets, Thorough, Base, Base', States, Stopped, Walk, Next, Walking, Walking'
  PROVE  (Ordered /\ Seen /\ Explored /\ SecondPass /\ Earlier /\ Come /\ Looped /\ Remaining)'
<1>1. /\ Types /\ Path /\ Placed /\ Placed'
      /\ Ordered /\ Seen /\ Explored /\ SecondPass /\ Earlier /\ Come /\ Looped /\ Remaining
  BY DEF Base, Walk
<1>2. Shape
  BY <1>1, StepShape
<1>3. Enters(Asked) => IF stack = <<>> THEN g \in 1 .. Len(goals) ELSE Top.d <= Len(Deps[Top.f])
  <2> SUFFICES ASSUME Enters(Asked)
               PROVE  IF stack = <<>> THEN g \in 1 .. Len(goals) ELSE Top.d <= Len(Deps[Top.f])
    OBVIOUS
  <2>1. UNCHANGED <<goals, g>> /\ stack' = Append(stack, NewFrame(Asked))
    BY DEF Enters, Entered
  <2>2. CASE stack = <<>>
    <3>1. stack' # <<>>
      BY <1>1, <2>1 DEF Types
    <3> QED BY <1>1, <2>1, <2>2, <3>1 DEF Placed
  <2>3. CASE stack # <<>>
    <3>1. Len(stack) \in 1 .. Len(stack)' - 1 /\ stack'[Len(stack)] = Top
      <4>1. Len(stack)' = Len(stack) + 1 /\ Len(stack) \in Nat \ {0} /\ stack'[Len(stack)] = stack[Len(stack)]
        BY <1>1, <2>1, <2>3, TopType DEF Types
      <4> QED BY <4>1 DEF Top
    <3>2. Path'
      BY DEF Base
    <3> QED BY <2>3, <3>1, <3>2 DEF Path
  <2> QED BY <2>2, <2>3
<1>4. Ordered' /\ Explored'
  BY <1>1, <1>2, OrderedStep
<1>5. Seen' /\ SecondPass' /\ Earlier'
  BY <1>1, <1>2, <1>3, SeenStep, SecondPassStep, EarlierStep
<1>6. Come' /\ Looped' /\ Remaining'
  BY <1>1, <1>2, ComeStep, LoopedStep, RemainingStep
<1> QED BY <1>4, <1>5, <1>6

\* make gives up, or reaps after that: files change by being reaped alone, and with -k
\* make gives up when no goals are left.
LEMMA GivingUp ==
  ASSUME SingleTargets, Base, Consistent, Next, ~Walking'
  PROVE  /\ \/ UNCHANGED <<state, ustat>>
            \/ \E f \in File : /\ state[f] = "running" /\ state' = [state EXCEPT ![f] = "finished"]
                               /\ \E r \in {0, 2} : ustat' = [ustat EXCEPT ![f] = r]
         /\ goals' = goals
         /\ Walking /\ KeepGoing => goals = <<>>
<1>0. Types /\ pc # "aborted" /\ call \in Call
  BY DEF Base, Consistent, Types
<1>1. CASE Pass
  BY <1>1 DEF Pass, CallReap, Walking, filevars
<1>2. ASSUME NEW f \in File, UpdateFile(f), pc \in {"goals", "deps"} PROVE ~KeepGoing
  <2>1. Pruned(f) \/ Fatal(f) \/ Aborts(f) \/ Known(f) \/ Entered(f)
    BY <1>0, <1>2, UpdateFileCases
  <2>2. ~Aborts(f)
    BY DEF Aborts, Consistent
  <2> QED BY <1>2, <2>1, <2>2 DEF Pruned, Fatal, Known, Entered, Walking
<1>3. CASE Goal
  <2>1. g <= Len(goals) /\ UpdateFile(goals[g]) /\ pc = "goals"
    BY <1>3 DEF Goal, Walking
  <2>2. goals[g] \in File
    BY <1>0, <2>1 DEF Types
  <2>3. ~KeepGoing /\ UNCHANGED <<state, ustat, goals>>
    BY <1>2, <1>3, <2>1, <2>2 DEF Goal, filevars
  <2> QED BY <2>3
<1>4. CASE GoalReturn \/ DepReturn \/ DepsRunning \/ DepFailed \/ NoNeed \/ Execute
  <2>1. pc' \in {"pass", "goals", "deps", "return"} \/ (pc' = "reap" /\ call'.to = "slots")
    <3>1. CASE GoalReturn
      BY <3>1 DEF GoalReturn
    <3>2. CASE DepReturn
      BY <3>2 DEF DepReturn
    <3>3. CASE DepsRunning \/ DepFailed \/ NoNeed
      BY <3>3 DEF DepsRunning, DepFailed, NoNeed, Return
    <3>4. CASE Execute
      BY <3>4 DEF Execute, CallReap
    <3> QED BY <1>4, <3>1, <3>2, <3>3, <3>4
  <2> QED BY <2>1 DEF Walking
<1>5. CASE Dep
  <2>1. UNCHANGED <<state, ustat, goals>> /\ pc = "deps"
    BY <1>5 DEF Dep, filevars
  <2>2. ~KeepGoing
    <3>1. UpdateFile(Cur) /\ Top.d <= Len(Deps[Top.f])
      BY <1>5 DEF Dep, Cur
    <3>2. Cur \in File
      BY <2>1, <3>1, AtTop, CurType
    <3> QED BY <1>2, <2>1, <3>1, <3>2
  <2> QED BY <2>1, <2>2
<1>6. CASE NoRule
  BY <1>6 DEF NoRule, Return, Walking, filevars
<1>7. CASE WaitForSlot \/ StartJob \/ StartNothing \/ JobStarted
  BY <1>7 DEF WaitForSlot, StartJob, StartNothing, JobStarted, CallReap, Return, Walking
<1>8. CASE ReapReturn
  <2>1. UNCHANGED <<state, ustat, goals>> /\ pc = "reap" /\ pc' = call.to
    BY <1>8 DEF ReapReturn, walkvars, filevars
  <2> QED BY <1>0, <2>1 DEF Walking, Call
<1>9. ASSUME NEW f \in File, ReapNextLine(f)
      PROVE  UNCHANGED <<state, ustat, goals>> /\ ~Walking
  BY <1>9 DEF ReapNextLine, Reapable, walkvars, Walking
<1>10. ASSUME NEW f \in File, ReapFinished(f) \/ ReapFailed(f)
       PROVE  /\ state[f] = "running" /\ state' = [state EXCEPT ![f] = "finished"]
              /\ \E r \in {0, 2} : ustat' = [ustat EXCEPT ![f] = r]
              /\ goals' = goals
              /\ Walking => ~KeepGoing
  <2>1. pc = "reap" /\ f \in Zombies /\ goals' = goals
    BY <1>10 DEF ReapFinished, ReapFailed, Reapable, walkvars
  <2>2. \E r \in {0, 2} : \E t : Notice(f, r, t)
    BY <1>10 DEF ReapFinished, ReapFailed
  <2>3. /\ state' = [state EXCEPT ![f] = "finished"] /\ state[f] = "running"
        /\ \E r \in {0, 2} : ustat' = [ustat EXCEPT ![f] = r]
    <3>1. state[f] = "running"
      BY <2>1 DEF Consistent, Zombies, Children
    <3> QED BY <1>0, <2>2, <3>1, SingleNotice
  <2>4. Walking => ~KeepGoing
    BY <1>0, <1>10, <2>1 DEF ReapFinished, ReapFailed, Die, Walking, Call
  <2> QED BY <2>1, <2>3, <2>4
<1>11. CASE DieWait \/ Exit
  BY <1>11 DEF DieWait, Exit, walkvars, filevars, Walking
<1>12. ASSUME NEW f \in File, CommandExits(f)
       PROVE  UNCHANGED <<state, ustat, goals>> /\ ~Walking
  BY <1>12 DEF CommandExits, walkvars, Walking
<1>13. CASE Finished
  BY <1>13 DEF Finished, vars, Walking
<1> QED BY <1>1, <1>3, <1>4, <1>5, <1>6, <1>7, <1>8, <1>9, <1>10, <1>11, <1>12, <1>13 DEF Next, MakeStep

LEMMA NextWalk ==
  ASSUME SingleTargets, Base, Base', States, Stopped, Walk, [Next]_vars
  PROVE  Walk'
<1>1. CASE UNCHANGED vars
  BY <1>1 DEF vars, Walk, Thorough, KeepGoing, ForkFails, Ordered, Walking, Seen, Explored, SecondPass,
     Earlier, Come, Looped, Remaining, Begun, OnStack, Loop, DepsOf, AllJudged, At, Asked, Cur, Top
<1>2. CASE Next
  <2> SUFFICES ASSUME Thorough'
               PROVE  /\ Ordered'
                      /\ Walking' => (/\ Seen /\ Explored /\ SecondPass /\ Earlier /\ Come /\ Looped
                                      /\ Remaining)'
                      /\ KeepGoing' /\ ~Walking' => (Remaining /\ goals = <<>>)'
    BY DEF Walk
  <2>1. opt' = opt
    BY <1>2 DEF Next, Finished, vars
  <2>2. Thorough /\ (KeepGoing' <=> KeepGoing) /\ Ordered
    BY <2>1 DEF Thorough, KeepGoing, ForkFails, Walk
  <2>3. Types /\ Consistent
    BY DEF Base, States
  <2>4. CASE Walking'
    <3>1. Walking
      BY <1>2, <2>3, <2>4, GivenUp
    <3> QED BY <1>2, <2>2, <2>4, <3>1, WalkGoesOn
  <2>5. CASE ~Walking'
    <3>1. /\ \A f \in File : \/ state'[f] = state[f]
                             \/ state[f] = "running" /\ state'[f] = "finished"
          /\ goals' = goals /\ (Walking /\ KeepGoing => goals = <<>>)
      BY <1>2, <2>3, <2>5, GivingUp DEF Types
    <3>2. \A f \in File : state[f] = "finished" => state'[f] = "finished"
      BY <3>1
    <3>3. Ordered'
      <4>1. \A f \in File : Prereqs(f) \subseteq File
        BY PrereqsType
      <4> QED BY <2>2, <3>1, <3>2, <4>1 DEF Ordered
    <3>4. ASSUME KeepGoing PROVE Remaining' /\ goals' = <<>>
      <4>1. Remaining /\ goals = <<>>
        BY <2>2, <3>1, <3>4 DEF Walk
      <4>2. \A i \in 1 .. Len(Goals) : Goals[i] \in File
        BY GraphAssumption
      <4> QED BY <3>1, <3>2, <4>1, <4>2 DEF Remaining
    <3> QED BY <2>2, <2>5, <3>3, <3>4
  <2> QED BY <2>4, <2>5
<1> QED BY <1>1, <1>2

LEMMA InitWalk == Init => Walk
<1> SUFFICES ASSUME Init PROVE Walk
  OBVIOUS
<1>1. /\ pc = "pass" /\ stack = <<>> /\ goals = Goals /\ considered = TRUE
      /\ state = [f \in File |-> "not_started"] /\ seen = [f \in File |-> FALSE]
  BY DEF Init
<1>2. Ordered /\ Seen /\ Explored /\ SecondPass /\ Earlier /\ Come
  BY <1>1 DEF Ordered, Seen, Explored, SecondPass, Earlier, Come
<1>3. Looped /\ Remaining /\ Walking
  BY <1>1 DEF Looped, At, Remaining, Walking
<1> QED BY <1>2, <1>3 DEF Walk

LEMMA WalkAlways == ASSUME SingleTargets PROVE Spec => [](Base /\ States /\ Stopped /\ Walk)
<1>1. Init => Base /\ States /\ Stopped /\ Walk
  BY InitBase, InitStates, InitStopped, InitWalk
<1>2. Base /\ States /\ Stopped /\ Walk /\ [Next]_vars => (Base /\ States /\ Stopped /\ Walk)'
  BY NextBase, NextStates, NextStopped, NextWalk
<1> QED BY <1>1, <1>2, PTL DEF Spec

\* A set of files with the goals and with the prerequisites of its members has all that is needed.
LEMMA NeededClosed ==
  ASSUME NEW S \in SUBSET File, \A i \in 1 .. Len(Goals) : Goals[i] \in S,
         \A f \in S : Prereqs(f) \subseteq S
  PROVE  Needed \subseteq S
BY DEF Needed

\* With -k make decides about every file that is needed, whatever fails, in whatever order
\* children end, and whatever had to be put off to another pass: a goal leaves the chain only
\* when it is finished, and a target is finished only after all its prerequisites.
THEOREM DecidesEverything ==
  ASSUME SingleTargets
  PROVE  Spec => []KeptGoing
<1>1. ASSUME Base, States, Walk PROVE KeptGoing
  <2> SUFFICES ASSUME pc = "exited", KeepGoing PROVE \A f \in Needed : state[f] = "finished"
    BY DEF KeptGoing
  <2>1. Ordered /\ Remaining /\ goals = <<>>
    BY <1>1 DEF Walk, Thorough, Walking
  <2> DEFINE S == {f \in File : state[f] = "finished"}
  <2>2. \A i \in 1 .. Len(Goals) : Goals[i] \in S
    BY <2>1, GraphAssumption DEF Remaining
  <2>3. \A f \in S : Prereqs(f) \subseteq S
    BY <2>1, PrereqsType DEF Ordered
  <2>4. Needed \subseteq S
    BY <2>2, <2>3, NeededClosed
  <2> QED BY <2>4
<1> QED BY <1>1, WalkAlways, PTL

------------------------------------------------------------------------------
(* The order in which targets are made, when make stops at the first error *)

\* make never goes on after errors, and processes can be started.
Gentle == \A o \in Options : ~o.KeepGoing /\ o.ForkFails = {}

\* What steps do to files, then.
Unmoved ==
  /\ UNCHANGED <<state, ustat, mtime>>
  /\ line' = line \/ \E f \in File : state[f] = "running" /\ line' = [line EXCEPT ![f] = @ + 1]
PutsOff ==
  /\ pc = "deps" /\ UNCHANGED <<ustat, mtime, line>>
  /\ state[Top.f] \in {"not_started", "deps_running"}
  /\ \E s \in {"not_started", "deps_running"} : state' = [state EXCEPT ![Top.f] = s]
Starts ==
  /\ pc = "slots" /\ state[Top.f] = "not_started" /\ Lines[Top.f] > 0
  /\ state' = [state EXCEPT ![Top.f] = "running"] /\ line' = [line EXCEPT ![Top.f] = 1]
  /\ UNCHANGED <<ustat, mtime>>
Passes ==
  /\ \/ /\ DepsDone /\ (~MustMake \/ (Top.f \notin Cmds /\ Top.f \in Target))
        /\ pc = "deps" /\ Top.d = Len(Deps[Top.f]) + 1 /\ ~Top.running
     \/ pc = "slots" /\ Lines[Top.f] = 0
  /\ state[Top.f] \in {"not_started", "deps_running"}
  /\ state' = [state EXCEPT ![Top.f] = "finished"] /\ ustat' = [ustat EXCEPT ![Top.f] = 0]
  /\ UNCHANGED <<mtime, line>>
Ends(f) ==
  /\ state[f] = "running" /\ f \in Children
  /\ state' = [state EXCEPT ![f] = "finished"]
  /\ \E r \in {0, 2} : ustat' = [ustat EXCEPT ![f] = r]
  /\ \E m \in {0, New, mtime[f]} : mtime' = [mtime EXCEPT ![f] = m]
  /\ line' = line

LEMMA FileSteps ==
  ASSUME SingleTargets, Stops, Base, States, Stopped, Next
  PROVE  Unmoved \/ PutsOff \/ Starts \/ Passes \/ \E f \in File : Ends(f)
<1>0. /\ Types /\ Outcomes /\ Consistent /\ ~KeepGoing /\ \A f : f \notin ForkFails
  BY DEF Base, States, Stops
<1>1. CASE Pass \/ Goal \/ GoalReturn \/ Dep \/ DepReturn
  BY <1>1 DEF Pass, Goal, GoalReturn, Dep, DepReturn, filevars, Unmoved
<1>2. CASE DepsRunning \/ DepFailed \/ NoNeed \/ NoRule \/ Execute
  <2>1. pc = "deps" /\ Top.d > Len(Deps[Top.f])
    BY <1>2 DEF DepsRunning, DepFailed, NoNeed, NoRule, Execute, DepsDone, AllDeps
  <2>2. /\ Walking /\ Path /\ stack # <<>> /\ Top.f \in File /\ Pending /\ NoErrorYet
        /\ Len(stack) \in 1 .. Len(stack) /\ ~At("started")
        /\ Top.d = Len(Deps[Top.f]) + 1
    <3>1. Walking /\ Path /\ stack # <<>> /\ Top.f \in File /\ Len(Deps[Top.f]) \in Nat
      BY <2>1, AtTop
    <3>2. Top.d \in 1 .. Len(Deps[Top.f]) + 1 /\ Len(stack) \in 1 .. Len(stack)
      BY <1>0, <3>1, CurType, TopType
    <3>3. Pending /\ NoErrorYet
      BY <3>1 DEF States, Stopped
    <3> QED BY <2>1, <3>1, <3>2, <3>3 DEF At
  <2>3. state[Top.f] \in {"not_started", "deps_running"} /\ Top.dep_status = 0
    BY <2>2 DEF Pending, NoErrorYet, Top
  <2>4. CASE DepsRunning
    <3>1. state' = [state EXCEPT ![Top.f] = "deps_running"] /\ UNCHANGED <<ustat, mtime, line>>
      BY <1>0, <2>2, <2>4, SingleSet DEF DepsRunning
    <3> QED BY <2>1, <2>3, <3>1 DEF PutsOff
  <2>5. CASE NoNeed
    <3>1. /\ ustat' = [ustat EXCEPT ![Top.f] = 0] /\ UNCHANGED <<mtime, line>>
          /\ state' = [NoLongerWaiting(Top.f) EXCEPT ![Top.f] = "finished"]
      BY <2>5 DEF NoNeed, Settle
    <3>2. state' = [state EXCEPT ![Top.f] = "finished"]
      BY <1>0, <2>2, <3>1, SingleWaiting DEF Types
    <3>3. /\ DepsDone /\ (~MustMake \/ (Top.f \notin Cmds /\ Top.f \in Target))
          /\ ~Top.running
      BY <2>5 DEF NoNeed, DepsDone
    <3> QED BY <2>1, <2>2, <2>3, <3>1, <3>2, <3>3 DEF Passes
  <2>6. CASE NoRule
    BY <1>0, <2>6 DEF NoRule, filevars, Unmoved
  <2>7. CASE Execute
    <3>1. state' = NoLongerWaiting(Top.f) /\ UNCHANGED <<ustat, mtime, line>>
      BY <2>7 DEF Execute
    <3>2. state' = [state EXCEPT ![Top.f] = "not_started"]
      BY <1>0, <2>2, <2>3, <3>1, SingleWaiting DEF Types
    <3> QED BY <2>1, <2>3, <3>1, <3>2 DEF PutsOff
  <2> QED BY <1>2, <2>3, <2>4, <2>5, <2>6, <2>7 DEF DepFailed
<1>3. CASE StartJob \/ StartNothing
  <2>1. pc = "slots"
    BY <1>3 DEF StartJob, StartNothing, Slot
  <2>2. Walking /\ stack # <<>> /\ Top.f \in File /\ At("slots")
    BY <2>1, AtTop DEF At
  <2>3. state[Top.f] = "not_started"
    BY <2>2 DEF States, Pending
  <2>4. CASE StartJob
    BY <1>0, <2>1, <2>2, <2>3, <2>4, SingleSet DEF StartJob, Starts
  <2>5. CASE StartNothing
    BY <1>0, <2>1, <2>3, <2>5 DEF StartNothing, Settle, Passes
  <2> QED BY <1>3, <2>4, <2>5
<1>4. CASE WaitForSlot \/ JobStarted \/ ReapReturn \/ DieWait \/ Exit
  BY <1>4 DEF WaitForSlot, JobStarted, ReapReturn, DieWait, Exit, filevars, Unmoved
<1>5. ASSUME NEW f \in File, ReapNextLine(f) PROVE Unmoved
  <2>1. f \in Zombies /\ UNCHANGED <<state, ustat, mtime>> /\ line' = [line EXCEPT ![f] = @ + 1]
    BY <1>5 DEF ReapNextLine, Reapable
  <2>2. state[f] = "running"
    BY <1>0, <2>1 DEF Consistent, Zombies, Children
  <2> QED BY <2>1, <2>2 DEF Unmoved
<1>6. ASSUME NEW f \in File, ReapFinished(f) \/ ReapFailed(f) PROVE Ends(f)
  <2>1. f \in Zombies
    BY <1>6 DEF ReapFinished, ReapFailed, Reapable
  <2>2. state[f] = "running" /\ f \in Children
    BY <1>0, <2>1 DEF Consistent, Zombies, Children
  <2>3. \E r \in {0, 2} : \E t \in {Touched, Remains, Deleted(f)} : Notice(f, r, t)
    BY <1>0, <1>6 DEF ReapFinished, ReapFailed
  <2>4. ASSUME NEW t, t \in {Touched, Remains, Deleted(f)}, NEW m, m \in t[f]
        PROVE  m \in {0, New, mtime[f]}
    BY <2>4 DEF Touched, Remains, Deleted
  <2>5. PICK r \in {0, 2}, t \in {Touched, Remains, Deleted(f)} : Notice(f, r, t)
    BY <2>3
  <2>6. /\ state' = [state EXCEPT ![f] = "finished"] /\ ustat' = [ustat EXCEPT ![f] = r]
        /\ line' = line /\ \E m \in 0 .. New : m \in t[f] /\ mtime' = [mtime EXCEPT ![f] = m]
    BY <1>0, <2>5, SingleNotice
  <2>7. \E m \in {0, New, mtime[f]} : mtime' = [mtime EXCEPT ![f] = m]
    BY <2>4, <2>6
  <2> QED BY <2>2, <2>6, <2>7 DEF Ends
<1>7. ASSUME NEW f \in File, CommandExits(f) PROVE Unmoved
  BY <1>7 DEF CommandExits, Unmoved
<1>8. CASE Finished
  BY <1>8 DEF Finished, vars, Unmoved
<1> QED BY <1>1, <1>2, <1>3, <1>4, <1>5, <1>6, <1>7, <1>8 DEF Next, MakeStep

\* The commands of a target run, or are found needless, when its prerequisites are made.
Orderly ==
  \A f \in File : state[f] = "running" \/ Done(f) => \A c \in Prereqs(f) : Done(c)

\* A target is made if it is out of date.
OutOfDate(f) == mtime[f] = 0 \/ \E c \in Prereqs(f) : mtime[c] = 0 \/ mtime[c] > mtime[f]
UpToDate == \A f \in Cmds : Done(f) /\ Lines[f] > 0 /\ line[f] = 0 => ~OutOfDate(f)

Timed(k) ==
  ~stack[k].running =>
    (stack[k].must_make <=>
       \/ mtime[stack[k].f] = 0
       \/ \E i \in 1 .. stack[k].d - 1 :
            mtime[DepsOf(k)[i]] = 0 \/ mtime[DepsOf(k)[i]] > mtime[stack[k].f])
Judged ==
  /\ \A k \in 1 .. Len(stack) : ~(k = Len(stack) /\ At("started")) => Timed(k)
  /\ At("slots") => Top.f \in Cmds /\ OutOfDate(Top.f)

FileStep == Unmoved \/ PutsOff \/ Starts \/ Passes \/ \E f \in File : Ends(f)

\* What is made stays as it is, and times change with commands alone.
LEMMA Stays ==
  ASSUME Types, FileStep, NEW h \in File
  PROVE  /\ Done(h) => Done(h)' /\ line'[h] = line[h]
         /\ state[h] # "running" => mtime'[h] = mtime[h]
         /\ state[h] = "running" => state'[h] \in {"running", "finished"}
<1>0. /\ state \in [File -> State] /\ ustat \in [File -> {-1, 0, 2}]
      /\ mtime \in [File -> 0 .. New] /\ line \in [File -> Nat]
  BY DEF Types
<1>1. CASE Unmoved
  BY <1>0, <1>1 DEF Unmoved, Done
<1>2. CASE PutsOff
  BY <1>0, <1>2 DEF PutsOff, Done
<1>3. CASE Starts
  BY <1>0, <1>3 DEF Starts, Done
<1>4. CASE Passes
  <2>1. /\ state[Top.f] \in {"not_started", "deps_running"}
        /\ state' = [state EXCEPT ![Top.f] = "finished"] /\ ustat' = [ustat EXCEPT ![Top.f] = 0]
        /\ UNCHANGED <<mtime, line>>
    BY <1>4 DEF Passes
  <2> QED BY <1>0, <2>1 DEF Done
<1>5. ASSUME NEW f \in File, Ends(f)
      PROVE  /\ Done(h) => Done(h)' /\ line'[h] = line[h]
             /\ state[h] # "running" => mtime'[h] = mtime[h]
             /\ state[h] = "running" => state'[h] \in {"running", "finished"}
  BY <1>0, <1>5 DEF Ends, Done
<1> QED BY <1>1, <1>2, <1>3, <1>4, <1>5 DEF FileStep

\* Prerequisites that are judged are made, as long as there was no error.
LEMMA FinishedDone ==
  ASSUME Stops, Base, States, Stopped, Walking, NEW c \in File, state[c] = "finished"
  PROVE  Done(c)
<1>1. NoErrorYet /\ Consistent /\ Types
  BY DEF Stopped, Base, States
<1>2. ustat[c] # 2 /\ ustat[c] # -1 /\ ustat[c] \in {-1, 0, 2}
  BY <1>1 DEF NoErrorYet, Consistent, Types
<1> QED BY <1>2 DEF Done

LEMMA TopReady ==
  ASSUME Stops, Base, States, Stopped, Walk, pc = "deps" \/ pc = "slots",
         Top.d = Len(Deps[Top.f]) + 1, ~Top.running, NEW c \in Prereqs(Top.f)
  PROVE  Done(c)
<1>1. Walking /\ Types /\ Path /\ stack # <<>> /\ Top.f \in File
  BY AtTop
<1>2. Looped
  BY <1>1 DEF Walk, Thorough, Stops
<1>3. c \in File
  BY <1>1, PrereqsType
<1>4. state[c] = "finished"
  BY <1>1, <1>2, TopLooped
<1> QED BY <1>1, <1>3, <1>4, FinishedDone

\* A target whose commands start, or are found needless.
LEMMA TopAt ==
  ASSUME Stops, Base, States, Stopped, Walk, Starts \/ Passes
  PROVE  /\ stack # <<>> /\ Top.f \in File /\ Walking /\ \A c \in Prereqs(Top.f) : Done(c)
         /\ Top.d = Len(Deps[Top.f]) + 1 /\ ~Top.running
         /\ Starts => At("slots")
<1>1. pc = "deps" \/ pc = "slots"
  BY DEF Starts, Passes
<1>2. Walking /\ stack # <<>> /\ Top.f \in File
  BY <1>1, AtTop
<1>3. pc = "slots" => AllJudged
  BY <1>2 DEF Walk, Thorough, Stops, Looped, At
<1>4. Top.d = Len(Deps[Top.f]) + 1 /\ ~Top.running
  BY <1>3 DEF Starts, Passes, AllJudged
<1> QED BY <1>1, <1>2, <1>4, TopReady DEF Starts, At

LEMMA OrderlyStep ==
  ASSUME Stops, Base, States, Stopped, Walk, Orderly, FileStep
  PROVE  Orderly'
<1>0. /\ Types /\ state \in [File -> State] /\ ustat \in [File -> {-1, 0, 2}]
  BY DEF Base, Types
<1> SUFFICES ASSUME NEW f \in File, state'[f] = "running" \/ Done(f)', NEW c \in Prereqs(f)
             PROVE  Done(c)'
  BY DEF Orderly
<1>1. c \in File
  BY PrereqsType
<1>2. Done(c)
  <2>1. CASE state[f] = "running" \/ Done(f)
    BY <2>1 DEF Orderly
  <2>2. CASE ~(state[f] = "running" \/ Done(f))
    <3>1. ~Unmoved /\ ~PutsOff
      BY <1>0, <2>2 DEF Unmoved, PutsOff, Done
    <3>2. \A h \in File : ~Ends(h)
      BY <1>0, <2>2 DEF Ends, Done
    <3>3. CASE Starts
      <4>1. f = Top.f
        BY <1>0, <2>2, <3>3 DEF Starts, Done
      <4> QED BY <3>3, <4>1, TopAt
    <3>4. CASE Passes
      <4>1. state' = [state EXCEPT ![Top.f] = "finished"] /\ ustat' = [ustat EXCEPT ![Top.f] = 0]
        BY <3>4 DEF Passes
      <4>2. f = Top.f
        BY <1>0, <2>2, <4>1 DEF Done
      <4> QED BY <3>4, <4>2, TopAt
    <3> QED BY <3>1, <3>2, <3>3, <3>4 DEF FileStep
  <2> QED BY <2>1, <2>2
<1> QED BY <1>0, <1>1, <1>2, Stays

LEMMA StaysOutOfDate ==
  ASSUME Types, FileStep, NEW f \in File, state[f] # "running",
         \A c \in Prereqs(f) : state[c] # "running"
  PROVE  OutOfDate(f)' <=> OutOfDate(f)
<1>1. mtime'[f] = mtime[f] /\ \A c \in Prereqs(f) : mtime'[c] = mtime[c]
  BY Stays, PrereqsType
<1> QED BY <1>1 DEF OutOfDate

\* When all prerequisites are judged, must_make tells.
LEMMA MustMakeTells ==
  ASSUME Types, Path, stack # <<>>, Timed(Len(stack)), ~Top.running,
         Top.d = Len(Deps[Top.f]) + 1
  PROVE  MustMake <=> OutOfDate(Top.f)
<1>1. Len(Deps[Top.f]) \in Nat
  BY TopType
<1>2. Top.must_make <=>
        \/ mtime[Top.f] = 0
        \/ \E i \in 1 .. Top.d - 1 : mtime[Deps[Top.f][i]] = 0 \/ mtime[Deps[Top.f][i]] > mtime[Top.f]
  BY DEF Timed, Top, DepsOf
<1>3. Top.d - 1 = Len(Deps[Top.f])
  BY <1>1
<1> QED BY <1>2, <1>3 DEF MustMake, OutOfDate, Prereqs

LEMMA UpToDateStep ==
  ASSUME Stops, Base, States, Stopped, Walk, Orderly, UpToDate, Walking => Judged, FileStep
  PROVE  UpToDate'
<1>0. /\ Types /\ state \in [File -> State] /\ ustat \in [File -> {-1, 0, 2}] /\ Cmds \subseteq File
  BY GraphAssumption DEF Base, Types
<1> SUFFICES ASSUME NEW f \in Cmds, Done(f)', Lines[f] > 0, line'[f] = 0
             PROVE  ~OutOfDate(f)'
  BY DEF UpToDate
<1>1. f \in File
  BY <1>0
<1>2. CASE Done(f)
  <2>1. line[f] = 0 /\ ~OutOfDate(f)
    BY <1>0, <1>1, <1>2, Stays DEF UpToDate
  <2>2. state[f] # "running" /\ \A c \in Prereqs(f) : state[c] # "running"
    BY <1>1, <1>2 DEF Orderly, Done
  <2> QED BY <1>0, <1>1, <2>1, <2>2, StaysOutOfDate
<1>3. CASE ~Done(f)
  <2>1. ~Unmoved /\ ~PutsOff /\ ~Starts
    BY <1>0, <1>1, <1>3 DEF Unmoved, PutsOff, Starts, Done
  <2>2. ASSUME NEW h \in File, Ends(h) PROVE FALSE
    <3>1. h = f
      BY <1>0, <1>1, <1>3, <2>2 DEF Ends, Done
    <3>2. line[f] >= 1 /\ line'[f] = line[f]
      BY <2>2, <3>1 DEF Ends, Children, Stopped, Numbered
    <3> QED BY <3>2
  <2>3. CASE Passes
    <3>1. state' = [state EXCEPT ![Top.f] = "finished"] /\ ustat' = [ustat EXCEPT ![Top.f] = 0]
      BY <2>3 DEF Passes
    <3>2. f = Top.f
      BY <1>0, <1>1, <1>3, <3>1 DEF Done
    <3>3. ~MustMake /\ pc = "deps"
      BY <2>3, <3>2 DEF Passes
    <3>4. /\ stack # <<>> /\ Walking /\ (\A c \in Prereqs(f) : Done(c))
          /\ Top.d = Len(Deps[Top.f]) + 1 /\ ~Top.running
      BY <2>3, <3>2, TopAt
    <3>5. Timed(Len(stack))
      <4>1. ~At("started") /\ Len(stack) \in 1 .. Len(stack)
        BY <1>0, <3>3, <3>4, TopType DEF At
      <4> QED BY <3>4, <4>1 DEF Judged
    <3>6. ~OutOfDate(f)
      BY <1>0, <3>2, <3>3, <3>4, <3>5, MustMakeTells DEF Base
    <3>7. state[f] # "running" /\ \A c \in Prereqs(f) : state[c] # "running"
      BY <2>3, <3>2, <3>4 DEF Passes, Done
    <3> QED BY <1>0, <1>1, <3>6, <3>7, StaysOutOfDate
  <2> QED BY <2>1, <2>2, <2>3 DEF FileStep
<1> QED BY <1>2, <1>3

\* A target and the prerequisites it was judged by keep their times while it is considered.
LEMMA SameTimed ==
  ASSUME Types, Path, Pending, Looped, FileStep, NEW k \in 1 .. Len(stack),
         ~(k = Len(stack) /\ At("started")), Timed(k), stack'[k] = stack[k]
  PROVE  Timed(k)'
<1> SUFFICES ASSUME ~stack[k].running
             PROVE  stack[k].must_make <=>
                      \/ mtime'[stack[k].f] = 0
                      \/ \E i \in 1 .. stack[k].d - 1 :
                           \/ mtime'[DepsOf(k)[i]] = 0
                           \/ mtime'[DepsOf(k)[i]] > mtime'[stack[k].f]
  BY DEF Timed, DepsOf
<1>1. stack[k] \in Frame /\ stack[k].d \in 1 .. Len(DepsOf(k)) + 1
  <2>1. stack \in Seq(Frame)
    BY DEF Types
  <2>2. stack[k] \in Frame
    BY <2>1
  <2>3. stack[k].d \in 1 .. Len(DepsOf(k)) + 1
    BY DEF Path, DepsOf
  <2> QED BY <2>2, <2>3
<1>2. stack[k].f \in File /\ DepsOf(k) \in Seq(File)
  BY <1>1, GraphAssumption DEF Frame, DepsOf
<1>3. mtime'[stack[k].f] = mtime[stack[k].f]
  <2>1. state[stack[k].f] # "running"
    BY DEF Pending
  <2> QED BY <1>2, <2>1, Stays
<1>4. ASSUME NEW i \in 1 .. stack[k].d - 1
      PROVE  mtime'[DepsOf(k)[i]] = mtime[DepsOf(k)[i]]
  <2>1. i \in 1 .. Len(DepsOf(k))
    BY <1>1, <1>2
  <2>2. DepsOf(k)[i] \in File
    BY <1>2, <2>1
  <2>3. state[DepsOf(k)[i]] = "finished"
    BY DEF Looped, Loop
  <2> QED BY <2>2, <2>3, Stays
<1> QED BY <1>3, <1>4 DEF Timed

\* The loop of update_file_1 looks at one more prerequisite.
LEMMA JudgesTimed ==
  ASSUME Types, Path, Judges, Timed(Len(stack))
  PROVE  Timed(Len(stack))'
<1> DEFINE n == Len(stack)
           Old(c) == mtime[c] = 0 \/ mtime[c] > mtime[Top.f]
<1>1. /\ stack # <<>> /\ Top.d <= Len(Deps[Top.f])
      /\ Len(stack') = n /\ Top'.f = Top.f /\ Top'.d = Top.d + 1
      /\ Top'.running <=> Top.running \/ BeingMade
      /\ Top'.must_make <=> Top.must_make \/ Newer
  BY JudgeTop DEF Judges
<1>2. n \in 1 .. n /\ Top = stack[n] /\ Top' = stack'[n] /\ Top.d \in Nat \ {0}
  BY <1>1, TopType, CurType DEF Top
<1>3. mtime' = mtime
  BY DEF Judges, DepReturn, filevars
<1> SUFFICES ASSUME ~Top'.running
             PROVE  Top'.must_make <=> mtime[Top.f] = 0 \/ \E i \in 1 .. Top.d : Old(Deps[Top.f][i])
  <2>1. stack'[n].d - 1 = Top.d /\ stack'[n].f = Top.f /\ stack'[n] = Top' /\ Len(stack') = n
    BY <1>1, <1>2
  <2>2. Timed(Len(stack))' <=>
          (~stack'[n].running =>
             (stack'[n].must_make <=>
                mtime'[stack'[n].f] = 0
                  \/ \E i \in 1 .. stack'[n].d - 1 :
                       \/ mtime'[Deps[stack'[n].f][i]] = 0
                       \/ mtime'[Deps[stack'[n].f][i]] > mtime'[stack'[n].f]))
    BY <2>1 DEF Timed, DepsOf
  <2> HIDE DEF n
  <2> QED BY <1>3, <2>1, <2>2
<1>4. Top.must_make <=> mtime[Top.f] = 0 \/ \E i \in 1 .. Top.d - 1 : Old(Deps[Top.f][i])
  BY <1>1, <1>2 DEF Timed, DepsOf
<1>5. Newer <=> Old(Deps[Top.f][Top.d])
  BY DEF Newer, Cur
<1>6. (\E i \in 1 .. Top.d : Old(Deps[Top.f][i]))
        <=> (\E i \in 1 .. Top.d - 1 : Old(Deps[Top.f][i])) \/ Old(Deps[Top.f][Top.d])
  <2>1. Top.d \in 1 .. Top.d /\ \A i \in 1 .. Top.d : i = Top.d \/ i \in 1 .. Top.d - 1
    BY <1>2
  <2>2. \A i \in 1 .. Top.d - 1 : i \in 1 .. Top.d
    BY <1>2
  <2> HIDE DEF Old
  <2> QED BY <2>1, <2>2
<1> HIDE DEF Old
<1> QED BY <1>1, <1>4, <1>5, <1>6

\* The wait for a slot goes on, or commands are to be executed.
LEMMA ToSlots ==
  ASSUME Types, Walking, Walking', Next, At("slots")'
  PROVE  (At("slots") /\ pc \in {"reap", "slots"}) \/ Execute
<1> USE DEF At, Walking
<1>0. call \in Call
  BY DEF Types
<1>1. CASE Pass \/ Goal \/ Dep
  <2>1. CASE Pass
    BY <2>1 DEF Pass, CallReap
  <2>2. CASE Goal
    BY <2>2 DEF Goal, UpdateFile, Return, Die
  <2>3. CASE Dep
    BY <2>3 DEF Dep, UpdateFile, Return, Die
  <2> QED BY <1>1, <2>1, <2>2, <2>3
<1>2. CASE GoalReturn \/ DepReturn
  BY <1>2 DEF GoalReturn, DepReturn
<1>3. CASE DepsRunning \/ DepFailed \/ NoNeed \/ NoRule
  BY <1>3 DEF DepsRunning, DepFailed, NoNeed, NoRule, Return, Die
<1>4. CASE WaitForSlot \/ StartJob \/ StartNothing \/ JobStarted
  BY <1>4 DEF WaitForSlot, StartJob, StartNothing, JobStarted, CallReap, Return
<1>5. CASE ReapReturn \/ DieWait \/ Exit
  BY <1>0, <1>5 DEF ReapReturn, DieWait, Exit, CallReap, NoCall, Call
<1>6. ASSUME NEW f \in File, ReapNextLine(f) \/ ReapFinished(f) \/ ReapFailed(f)
      PROVE  At("slots") /\ pc \in {"reap", "slots"}
  <2>1. UNCHANGED <<pc, call>> \/ (UNCHANGED pc /\ call' = [call EXCEPT !.block = FALSE]) \/ Die
    BY <1>6 DEF ReapNextLine, ReapFinished, ReapFailed
  <2> QED BY <1>0, <1>6, <2>1 DEF Die, Call
<1>7. ASSUME NEW f \in File, CommandExits(f) PROVE At("slots") /\ pc \in {"reap", "slots"}
  BY <1>7 DEF CommandExits
<1>8. CASE Finished
  BY <1>8 DEF Finished, vars
<1> QED BY <1>1, <1>2, <1>3, <1>4, <1>5, <1>6, <1>7, <1>8 DEF Next, MakeStep

\* Commands are executed for a target that is out of date.
LEMMA SlotsStep ==
  ASSUME Base, States, Stops, Stopped, Walk, Judged, FileStep, Next, Walking, Walking', At("slots")'
  PROVE  (Top.f \in Cmds /\ OutOfDate(Top.f))'
<1>0. Types /\ Path /\ Looped
  BY DEF Base, Walk, Thorough, Stops
<1>1. CASE Execute
  <2>1. /\ pc = "deps" /\ Top.d > Len(Deps[Top.f]) /\ ~Top.running /\ MustMake /\ Top.f \in Cmds
        /\ UNCHANGED <<stack, mtime>>
    BY <1>1 DEF Execute, DepsDone, AllDeps, walkvars
  <2>2. stack # <<>> /\ Top.d = Len(Deps[Top.f]) + 1 /\ Len(stack) \in 1 .. Len(stack)
    <3>1. stack # <<>>
      BY <2>1, AtTop
    <3>2. Len(Deps[Top.f]) \in Nat /\ Top.d \in 1 .. Len(Deps[Top.f]) + 1
      BY <1>0, <3>1, CurType, TopType
    <3> QED BY <1>0, <2>1, <3>1, <3>2, TopType
  <2>3. Timed(Len(stack))
    BY <2>1, <2>2 DEF Judged, At
  <2>4. OutOfDate(Top.f)
    BY <1>0, <2>1, <2>2, <2>3, MustMakeTells
  <2>5. Top' = Top
    BY <2>1 DEF Top
  <2> QED BY <2>1, <2>4, <2>5 DEF OutOfDate
<1>2. CASE At("slots") /\ pc \in {"reap", "slots"}
  <2>1. Top.f \in Cmds /\ OutOfDate(Top.f) /\ AllJudged /\ state[Top.f] = "not_started"
    BY <1>0, <1>2 DEF Judged, Looped, States, Pending
  <2>2. stack # <<>> /\ Top.f \in File
    BY <1>0, <2>1, TopType DEF AllJudged
  <2>3. \A c \in Prereqs(Top.f) : state[c] # "running"
    <3>1. \A c \in Prereqs(Top.f) : state[c] = "finished"
      BY <1>0, <2>1, <2>2, TopLooped DEF AllJudged
    <3> QED BY <3>1
  <2>4. UNCHANGED stack
    <3>1. pc \in {"reap", "slots"} /\ pc' # "return"
      BY <1>2 DEF At
    <3> QED BY <3>1 DEF Next, MakeStep, Pass, Goal, GoalReturn, Dep, DepReturn, Returned, DepsRunning,
         DepFailed, NoNeed, NoRule, Execute, DepsDone, AllDeps, WaitForSlot, StartJob, StartNothing,
         JobStarted, ReapReturn, DieWait, Exit, ReapNextLine, ReapFinished, ReapFailed, CommandExits,
         Finished, vars, walkvars
  <2>5. \A h \in File : h = Top.f => OutOfDate(h)'
    BY <1>0, <2>1, <2>3, StaysOutOfDate
  <2>6. Top' = Top
    BY <2>4 DEF Top
  <2> QED BY <2>1, <2>2, <2>5, <2>6 DEF OutOfDate
<1> QED BY <1>0, <1>1, <1>2, ToSlots

\* What is known of the targets considered: whether they are out of date, as far as they were judged.
LEMMA JudgedStep ==
  ASSUME Base, Base', States, States', Stops, Stopped, Walk, Judged, FileStep, Shape, Next,
         Walking, Walking'
  PROVE  Judged'
<1>0. /\ Types /\ Path /\ Placed /\ Pending /\ Pending' /\ Looped
      /\ state \in [File -> State] /\ Types' /\ Path' /\ Placed'
  BY DEF Base, States, Walk, Thorough, Stops, Types
<1> SUFFICES ASSUME NEW k \in 1 .. Len(stack'), ~(k = Len(stack') /\ At("started")')
             PROVE  Timed(k)'
  <2>1. At("slots")' => (Top.f \in Cmds /\ OutOfDate(Top.f))'
    BY SlotsStep
  <2> QED BY <2>1 DEF Judged
<1>1. ASSUME k \in 1 .. Len(stack), ~(k = Len(stack) /\ At("started")), stack'[k] = stack[k]
      PROVE  Timed(k)'
  <2>1. Timed(k)
    BY <1>1 DEF Judged
  <2> QED BY <1>0, <1>1, <2>1, SameTimed
<1>2. CASE StartsPass \/ EndsPass \/ LeavesGoal
  <2>1. stack = <<>> /\ stack' = stack
    BY <1>0, <1>2 DEF StartsPass, EndsPass, LeavesGoal, Placed
  <2> QED BY <2>1
<1>3. CASE Answers(Asked)
  <2>1. stack' = stack /\ ~At("started")
    BY <1>3 DEF Answers, At
  <2> QED BY <1>1, <2>1
<1>4. CASE Asked \in File /\ Enters(Asked)
  <2>1. /\ ~At("started") /\ stack' = Append(stack, NewFrame(Asked))
        /\ state[Asked] \in {"not_started", "deps_running"}
    BY <1>4 DEF Enters, Entered, At
  <2>2. \/ k = Len(stack) + 1 /\ stack'[k] = NewFrame(Asked)
        \/ k \in 1 .. Len(stack) /\ stack'[k] = stack[k]
    BY <1>0, <1>4, <2>1, EnterStack
  <2>3. CASE k = Len(stack) + 1 /\ stack'[k] = NewFrame(Asked)
    <3>1. mtime'[Asked] = mtime[Asked]
      BY <1>0, <1>4, <2>1, Stays
    <3>2. stack'[k].f = Asked /\ stack'[k].d = 1 /\ (stack'[k].must_make <=> mtime[Asked] = 0)
      <4> DEFINE missing == mtime[Asked] = 0
      <4>1. NewFrame(Asked) = [f |-> Asked, d |-> 1, dep_status |-> 0, running |-> FALSE,
                               must_make |-> missing]
        BY DEF NewFrame
      <4> HIDE DEF missing
      <4>2. stack'[k].f = Asked /\ stack'[k].d = 1 /\ stack'[k].must_make = missing
        BY <2>3, <4>1
      <4> QED BY <4>2, Zenon DEF missing
    <3>3. stack'[k].must_make <=> mtime'[stack'[k].f] = 0
      BY <3>1, <3>2
    <3>4. \A i : i \notin 1 .. stack'[k].d - 1
      BY <3>2
    <3> QED BY <3>3, <3>4, Zenon DEF Timed
  <2> QED BY <1>1, <2>1, <2>2, <2>3
<1>5. CASE Judges
  <2>1. Len(stack)' = Len(stack) /\ (k = Len(stack) \/ stack'[k] = stack[k])
    BY <1>0, <1>5, JudgesStack
  <2>2. ~At("started")
    BY <1>5 DEF Judges, DepReturn, Returned, At
  <2>3. CASE k = Len(stack)
    <3>1. Timed(Len(stack))
      BY <2>1, <2>2, <2>3 DEF Judged
    <3>2. Timed(Len(stack))'
      BY <1>0, <1>5, <3>1, JudgesTimed
    <3>3. Len(stack') = k
      BY <2>1, <2>3
    <3> QED BY <3>2, <3>3, Zenon DEF Timed, DepsOf
  <2> QED BY <1>1, <2>1, <2>2, <2>3
<1>6. CASE Leaves
  <2>1. Len(stack)' = Len(stack) - 1 /\ k \in 1 .. Len(stack) /\ stack'[k] = stack[k] /\ stack[k].f # Top.f
    BY <1>0, <1>6, LeavesStack
  <2>2. k # Len(stack)
    BY <2>1 DEF Top
  <2> QED BY <1>1, <2>1, <2>2
<1>7. CASE Works
  <2>1. stack' = stack /\ k \in 1 .. Len(stack)
    BY <1>7 DEF Works
  <2>2. CASE k = Len(stack) /\ At("started")
    <3>1. PICK h \in File : h = stack[k].f
      <4>1. stack # <<>> /\ stack[k] = Top
        BY <2>1, <2>2 DEF Top
      <4> QED BY <1>0, <4>1, TopType
    <3>2. state[h] \in {"running", "finished"}
      BY <1>0, <2>1, <2>2, <3>1 DEF Pending
    <3>3. state'[h] \in {"running", "finished"}
      BY <1>0, <3>2, Stays, Monotone
    <3>4. state'[h] \in {"not_started", "deps_running"}
      BY <1>0, <2>1, <3>1 DEF Pending
    <3> QED BY <3>3, <3>4
  <2> QED BY <1>1, <2>1, <2>2
<1> QED BY <1>2, <1>3, <1>4, <1>5, <1>6, <1>7 DEF Shape

------------------------------------------------------------------------------
(* What the exit status says, when make stops at the first error           *)

LEMMA NeededMembers ==
  /\ Needed \subseteq File
  /\ \A i \in 1 .. Len(Goals) : Goals[i] \in Needed
  /\ \A f \in Needed : Prereqs(f) \subseteq Needed
<1>1. \A i \in 1 .. Len(Goals) : Goals[i] \in File
  BY GraphAssumption
<1>2. \A f \in File : Prereqs(f) \subseteq File
  BY PrereqsType
<1> QED BY <1>1, <1>2 DEF Needed

\* make considers and makes what is needed, and nothing else.
Relevant ==
  /\ Walking => /\ \A k \in 1 .. Len(goals) : goals[k] \in Needed
                /\ \A k \in 1 .. Len(stack) : stack[k].f \in Needed
  /\ \A f \in File : state[f] = "running" => f \in Needed

LEMMA RelevantWalk ==
  ASSUME Base, Base', Relevant, Shape, Walking
  PROVE  /\ \A k \in 1 .. Len(goals') : goals'[k] \in Needed
         /\ \A k \in 1 .. Len(stack') : stack'[k].f \in Needed
<1>0. Types /\ Path /\ Placed
  BY DEF Base
<1>1. \A k \in 1 .. Len(goals') : goals'[k] \in Needed
  <2>1. \A k \in 1 .. Len(goals') : \E j \in 1 .. Len(goals) : goals'[k] = goals[j]
    BY <1>0, GoalsShape
  <2> QED BY <2>1 DEF Relevant
<1>2. ASSUME NEW k \in 1 .. Len(stack') PROVE stack'[k].f \in Needed
  <2>1. CASE stack' = stack
    BY <2>1 DEF Relevant
  <2>2. CASE Asked \in File /\ Enters(Asked)
    <3>1. pc \in {"goals", "deps"} /\ pc' = "deps" /\ stack' = Append(stack, NewFrame(Asked))
      BY <2>2 DEF Enters, Entered
    <3>2. \/ k = Len(stack) + 1 /\ stack'[k] = NewFrame(Asked)
          \/ k \in 1 .. Len(stack) /\ stack'[k] = stack[k]
      BY <1>0, <2>2, <3>1, EnterStack
    <3>3. Asked \in Needed
      <4>1. CASE stack = <<>>
        <5>1. g \in 1 .. Len(goals)
          <6>1. Walking' /\ stack' # <<>> /\ UNCHANGED <<goals, g>>
            BY <1>0, <2>2, <3>1, EnterStack DEF Walking, Enters
          <6> QED BY <6>1 DEF Base, Placed
        <5> QED BY <4>1, <5>1 DEF Asked, Relevant
      <4>2. CASE stack # <<>> /\ Top.d <= Len(Deps[Top.f])
        <5>1. Cur \in Prereqs(Top.f) /\ Len(stack) \in 1 .. Len(stack)
          BY <1>0, <4>2, PathDistinct, TopType
        <5>2. Top.f \in Needed
          BY <5>1 DEF Top, Relevant
        <5> QED BY <4>2, <5>1, <5>2, NeededMembers DEF Asked
      <4>3. stack # <<>> => Top.d <= Len(Deps[Top.f])
        <5> SUFFICES ASSUME stack # <<>> PROVE Top.d <= Len(Deps[Top.f])
          OBVIOUS
        <5>1. Len(stack) \in 1 .. Len(stack') - 1 /\ stack'[Len(stack)] = stack[Len(stack)] /\ Path'
          <6>1. Len(stack') = Len(stack) + 1 /\ Len(stack) \in 1 .. Len(stack)
            BY <1>0, <2>2, <3>1, EnterStack, TopType
          <6>2. Path'
            BY <3>1 DEF Walking, Base
          <6> QED BY <1>0, <2>2, <3>1, <6>1, <6>2, EnterStack
        <5> QED BY <5>1 DEF Path, Top
      <4> QED BY <4>1, <4>2, <4>3
    <3> QED BY <3>2, <3>3 DEF NewFrame, Relevant
  <2>3. CASE Judges
    BY <1>0, <2>3, JudgesStack DEF Relevant
  <2>4. CASE Leaves
    BY <1>0, <2>4, LeavesStack DEF Relevant
  <2> QED BY <2>1, <2>2, <2>3, <2>4
       DEF Shape, StartsPass, EndsPass, Answers, LeavesGoal, Works
<1> QED BY <1>1, <1>2

LEMMA RelevantStep ==
  ASSUME Base, Base', Stops, States, Stopped, Walk, Relevant, FileStep,
         Walking' => Walking /\ Shape
  PROVE  Relevant'
<1>0. Types /\ state \in [File -> State]
  BY DEF Base, Types
<1>1. ASSUME NEW f \in File, state'[f] = "running", state[f] # "running" PROVE f \in Needed
  <2>1. Starts /\ f = Top.f
    BY <1>0, <1>1 DEF FileStep, Unmoved, PutsOff, Starts, Passes, Ends
  <2>2. stack # <<>> /\ Walking
    BY <2>1, TopAt
  <2>3. Len(stack) \in 1 .. Len(stack)
    BY <1>0, <2>2, TopType
  <2> QED BY <2>1, <2>2, <2>3 DEF Relevant, Top
<1>2. \A f \in File : state'[f] = "running" => f \in Needed
  BY <1>1 DEF Relevant
<1>3. Walking' => /\ \A k \in 1 .. Len(goals') : goals'[k] \in Needed
                  /\ \A k \in 1 .. Len(stack') : stack'[k].f \in Needed
  BY RelevantWalk
<1>4. Needed' = Needed
  BY DEF Needed, Prereqs
<1> QED BY <1>2, <1>3, <1>4 DEF Relevant

\* The status, as long as make walks and when it has given up.
Status ==
  IF Walking THEN status = 0
  ELSE IF status = 0 THEN \A f \in Needed : Done(f)
                     ELSE \E f \in Needed : ~Done(f) /\ state[f] # "running"

\* When update_file finds no error, the status stays.
LEMMA UpdateFileCalm ==
  ASSUME Types, Consistent, Stops, NoErrorYet, pc \in {"goals", "deps"}, NEW f \in File, UpdateFile(f)
  PROVE  Walking' /\ status' = status
<1>1. Pruned(f) \/ Fatal(f) \/ Aborts(f) \/ Known(f) \/ Entered(f)
  BY UpdateFileCases
<1>2. ~Fatal(f)
  <2>1. ustat[f] \in {-1, 0, 2} /\ ustat[f] # 2
    BY DEF NoErrorYet, Types
  <2>2. ~(ustat[f] > 0)
    BY <2>1
  <2> QED BY <2>2, Zenon DEF Fatal
<1>3. ~Aborts(f)
  BY DEF Aborts, Consistent
<1> QED BY <1>1, <1>2, <1>3 DEF Pruned, Known, Entered, Walking

\* The steps by which make gives up.
LEMMA GivesUp ==
  ASSUME Base, States, Stops, NoErrorYet, Next, Walking
  PROVE  \/ Walking' /\ status' = status
         \/ ~Walking' /\ Pass /\ goals = <<>>
         \/ ~Walking' /\ NoRule /\ status' = 2 /\ UNCHANGED filevars
         \/ ~Walking' /\ status' = 2 /\ \E f \in File : ReapFailed(f)
<1>0. /\ Types /\ Consistent /\ Path /\ Placed /\ call \in Call /\ ~KeepGoing
  BY DEF Base, States, Stops, Types
<1>1. CASE Pass
  BY <1>1 DEF Pass, CallReap, Walking
<1>2. CASE Goal
  <2>1. CASE g <= Len(goals)
    <3>1. pc = "goals" /\ goals[g] \in File /\ UpdateFile(goals[g])
      BY <1>0, <1>2, <2>1 DEF Goal, Types
    <3> QED BY <1>0, <3>1, UpdateFileCalm
  <2> QED BY <1>2, <2>1 DEF Goal, Walking
<1>3. CASE GoalReturn
  <2>1. pc = "return" /\ stack = <<>>
    BY <1>3 DEF GoalReturn
  <2>2. PICK f \in File : f = goals[g]
    BY <1>0, <2>1 DEF Placed, Types
  <2>3. ret = 0 /\ (updated[f] => ustat[f] = 0)
    BY <1>0, <2>1 DEF NoErrorYet, Consistent, Types
  <2>4. status' = status /\ pc' \in {"pass", "goals"}
    BY <1>3, <2>2, <2>3 DEF GoalReturn
  <2> QED BY <2>4 DEF Walking
<1>4. CASE Dep
  <2>1. pc = "deps" /\ Top.d <= Len(Deps[Top.f]) /\ UpdateFile(Cur)
    BY <1>4 DEF Dep, Cur
  <2>2. Cur \in File
    BY <1>0, <2>1, AtTop, CurType
  <2> QED BY <1>0, <2>1, <2>2, UpdateFileCalm
<1>5. CASE DepReturn
  BY <1>5 DEF DepReturn, Walking
<1>6. CASE DepsRunning \/ DepFailed \/ NoNeed
  BY <1>6 DEF DepsRunning, DepFailed, NoNeed, Return, Walking
<1>7. CASE NoRule
  BY <1>0, <1>7 DEF NoRule, Die, DepsDone, AllDeps, Walking
<1>8. CASE Execute \/ WaitForSlot
  BY <1>8 DEF Execute, WaitForSlot, CallReap, Walking
<1>9. CASE StartJob \/ StartNothing \/ JobStarted
  <2>1. status' = status /\ (pc' \in {"started", "return"} \/ CallReap(TRUE, FALSE, "started"))
    BY <1>9 DEF StartJob, StartNothing, JobStarted, Return
  <2> QED BY <2>1 DEF CallReap, Walking
<1>10. CASE ReapReturn
  BY <1>0, <1>10 DEF ReapReturn, NoCall, Walking, Call
<1>11. CASE DieWait \/ Exit
  BY <1>11 DEF DieWait, Exit, Walking
<1>12. ASSUME NEW f \in File, ReapNextLine(f) \/ ReapFinished(f)
       PROVE  Walking' /\ status' = status
  <2>1. UNCHANGED <<pc, status>> /\ (call' = call \/ call' = [call EXCEPT !.block = FALSE])
    BY <1>12 DEF ReapNextLine, ReapFinished
  <2> QED BY <1>0, <2>1 DEF Walking, Call
<1>13. ASSUME NEW f \in File, ReapFailed(f)
       PROVE  (Walking' /\ status' = status) \/ (~Walking' /\ status' = 2)
  <2>1. \/ UNCHANGED <<pc, status>> /\ call' = [call EXCEPT !.block = FALSE]
        \/ Die
    BY <1>13 DEF ReapFailed
  <2> QED BY <1>0, <2>1 DEF Walking, Call, Die
<1>14. ASSUME NEW f \in File, CommandExits(f) PROVE Walking' /\ status' = status
  BY <1>14 DEF CommandExits, Walking
<1>15. CASE Finished
  BY <1>15 DEF Finished, Walking
<1> QED BY <1>1, <1>2, <1>3, <1>4, <1>5, <1>6, <1>7, <1>8, <1>9, <1>10, <1>11, <1>12, <1>13, <1>14,
     <1>15 DEF Next, MakeStep

\* When make has given up, the status stays or becomes 2 with another failure.
LEMMA GivenUpStatus ==
  ASSUME Types, Next, ~Walking
  PROVE  status' = status \/ (status' = 2 /\ \E f \in File : ReapFailed(f))
<1>1. \A f \in File : ReapFailed(f) => status' = status \/ status' = 2
  BY DEF ReapFailed, Die
<1>2. CASE MakeStep
  BY <1>1, <1>2 DEF MakeStep, Pass, Goal, GoalReturn, Dep, DepReturn, Returned, DepsRunning, DepFailed,
     NoNeed, NoRule, Execute, DepsDone, AllDeps, WaitForSlot, StartJob, StartNothing, Slot, JobStarted,
     ReapReturn, DieWait, Exit, ReapNextLine, ReapFinished, Walking
<1> QED BY <1>2 DEF Next, CommandExits, Finished, vars

\* A failed child is of a file that is needed, and makes it fail.
LEMMA FailedChild ==
  ASSUME SingleTargets, Base, States, Relevant, NEW f \in File, ReapFailed(f)
  PROVE  f \in Needed /\ state[f] = "running" /\ ~Done(f)' /\ state'[f] # "running"
<1>0. Types /\ Consistent /\ state \in [File -> State] /\ ustat \in [File -> {-1, 0, 2}]
  BY DEF Base, States, Types
<1>1. \E t : Notice(f, 2, t)
  BY DEF ReapFailed
<1>2. state' = [state EXCEPT ![f] = "finished"] /\ ustat' = [ustat EXCEPT ![f] = 2]
  BY <1>0, <1>1, SingleNotice
<1>3. state[f] = "running"
  BY <1>0 DEF ReapFailed, Reapable, Zombies, Children, Consistent
<1> QED BY <1>0, <1>2, <1>3 DEF Relevant, Done

\* All that is needed is made, once the goals are.
LEMMA GoalsMade ==
  ASSUME Orderly, \A i \in 1 .. Len(Goals) : Done(Goals[i])
  PROVE  \A f \in Needed : Done(f)
<1> DEFINE S == {f \in File : Done(f)}
<1>1. \A i \in 1 .. Len(Goals) : Goals[i] \in S
  BY GraphAssumption
<1>2. \A f \in S : Prereqs(f) \subseteq S
  BY PrereqsType DEF Orderly
<1>3. Needed \subseteq S
  BY <1>1, <1>2, NeededClosed
<1> QED BY <1>3

LEMMA StatusStep ==
  ASSUME SingleTargets, Base, Base', Stops, States, Stopped, Walk, Orderly, Relevant, Status, FileStep, Next
  PROVE  Status'
<1>0. /\ Types /\ state \in [File -> State] /\ ustat \in [File -> {-1, 0, 2}] /\ Needed \subseteq File
      /\ Types' /\ status' \in {0, 2}
  BY NeededMembers DEF Base, Types
<1>1. Needed' = Needed
  BY DEF Needed, Prereqs
<1>2. \A h \in File : Done(h) => Done(h)'
  BY <1>0, Stays
<1>3. ASSUME Walking, Walking' PROVE Status'
  <2>1. status' = status
    BY <1>3, GivesUp DEF Stopped
  <2> QED BY <1>3, <2>1 DEF Status
<1>4. CASE Walking /\ ~Walking'
  <2>0. NoErrorYet /\ status = 0
    BY <1>4 DEF Stopped, Status
  <2>1. CASE Pass /\ goals = <<>>
    <3>1. Remaining
      BY <1>4 DEF Walk, Thorough, Stops
    <3>2. ASSUME NEW i \in 1 .. Len(Goals) PROVE Done(Goals[i])
      <4>1. Goals[i] \in File /\ state[Goals[i]] = "finished"
        BY <2>1, <3>1, GraphAssumption DEF Remaining
      <4> QED BY <1>4, <4>1, FinishedDone
    <3>3. \A f \in Needed : Done(f)
      BY <3>2, GoalsMade
    <3>4. status' = 0
      BY <2>0, <2>1 DEF Pass
    <3> QED BY <1>0, <1>1, <1>2, <1>4, <3>3, <3>4 DEF Status
  <2>2. CASE NoRule /\ status' = 2 /\ UNCHANGED filevars
    <3>1. PICK f \in File : f = Top.f
      BY <2>2, AtTop DEF NoRule, DepsDone, AllDeps
    <3>2. f \in Needed /\ state[f] \in {"not_started", "deps_running"}
      <4>1. stack # <<>> /\ pc = "deps" /\ Len(stack) \in 1 .. Len(stack)
        BY <1>0, <2>2, AtTop, TopType DEF NoRule, DepsDone, AllDeps
      <4> QED BY <1>4, <3>1, <4>1 DEF Relevant, States, Pending, Top, At
    <3>3. ~Done(f)' /\ state'[f] # "running"
      BY <2>2, <3>2 DEF Done, filevars
    <3> QED BY <1>1, <1>4, <2>2, <3>2, <3>3 DEF Status
  <2>3. CASE status' = 2 /\ \E f \in File : ReapFailed(f)
    BY <1>1, <1>4, <2>3, FailedChild DEF Status
  <2> QED BY <1>4, <2>0, <2>1, <2>2, <2>3, GivesUp
<1>5. CASE ~Walking
  <2>1. ~Walking'
    BY <1>0, <1>5, GivenUp
  <2>2. CASE status' = 2 /\ \E f \in File : ReapFailed(f)
    BY <1>1, <2>1, <2>2, FailedChild DEF Status
  <2>3. CASE status' = status /\ status = 0
    <3>1. \A f \in Needed : Done(f)'
      BY <1>0, <1>2, <1>5, <2>3 DEF Status
    <3> QED BY <1>1, <2>1, <2>3, <3>1 DEF Status
  <2>4. CASE status' = status /\ status # 0
    <3>1. PICK f \in Needed : ~Done(f) /\ state[f] # "running"
      BY <1>5, <2>4 DEF Status
    <3>2. pc # "deps" /\ pc # "slots" => ~Done(f)' /\ state'[f] # "running"
      BY <1>0, <3>1 DEF FileStep, Unmoved, PutsOff, Starts, Passes, Ends, Done
    <3>3. pc # "deps" /\ pc # "slots"
      BY <1>5 DEF Walking
    <3> QED BY <1>1, <2>1, <2>4, <3>1, <3>2, <3>3 DEF Status
  <2> QED BY <1>0, <1>5, <2>2, <2>3, <2>4, GivenUpStatus
<1> QED BY <1>3, <1>4, <1>5

\* All that is known of a make that stops at the first error.
Final ==
  Stops => /\ Orderly /\ UpToDate /\ Relevant /\ Status
           /\ Walking => Judged

LEMMA InitFinal == Init => Final
<1> SUFFICES ASSUME Init PROVE Final
  OBVIOUS
<1>1. /\ pc = "pass" /\ stack = <<>> /\ goals = Goals /\ status = 0
      /\ state = [f \in File |-> "not_started"]
  BY DEF Init
<1>2. Orderly /\ UpToDate
  <2>1. \A f \in File : state[f] = "not_started" /\ ~Done(f)
    BY <1>1 DEF Done
  <2> QED BY <2>1, GraphAssumption DEF Orderly, UpToDate
<1>3. Relevant
  BY <1>1, NeededMembers DEF Relevant
<1>4. Status /\ Judged
  BY <1>1 DEF Status, Judged, Walking, At
<1> QED BY <1>2, <1>3, <1>4 DEF Final

LEMMA NextFinal ==
  ASSUME SingleTargets, Base, Base', States, States', Stopped, Walk, Final, [Next]_vars
  PROVE  Final'
<1> SUFFICES ASSUME Stops' PROVE (/\ Orderly /\ UpToDate /\ Relevant /\ Status
                                  /\ Walking => Judged)'
  BY DEF Final
<1>1. CASE UNCHANGED vars
  <2>1. Stops
    BY <1>1 DEF vars, Stops, KeepGoing, ForkFails
  <2>2. Orderly /\ UpToDate /\ Relevant /\ Status /\ (Walking => Judged)
    BY <2>1 DEF Final
  <2>3. Orderly' /\ UpToDate'
    BY <1>1, <2>2 DEF vars, Orderly, UpToDate, Done, OutOfDate
  <2>4. Relevant' /\ Status'
    BY <1>1, <2>2 DEF vars, Relevant, Status, Walking, Done
  <2>5. Walking' <=> Walking
    BY <1>1 DEF vars, Walking
  <2>6. Judged => Judged'
    <3>1. \A k \in 1 .. Len(stack) : Timed(k) => Timed(k)'
      BY <1>1 DEF vars, Timed, DepsOf
    <3>2. Top' = Top /\ (OutOfDate(Top.f) => OutOfDate(Top.f)')
      BY <1>1 DEF vars, Top, OutOfDate
    <3>3. (At("started") <=> At("started")') /\ (At("slots") <=> At("slots")')
      BY <1>1 DEF vars, At
    <3> QED BY <1>1, <3>1, <3>2, <3>3 DEF vars, Judged
  <2> QED BY <2>2, <2>3, <2>4, <2>5, <2>6
<1>2. CASE Next
  <2>1. Stops
    <3>1. opt' = opt
      BY <1>2 DEF Next, Finished, vars
    <3> QED BY <3>1 DEF Stops, KeepGoing, ForkFails
  <2>2. Orderly /\ UpToDate /\ Relevant /\ Status /\ (Walking => Judged)
    BY <2>1 DEF Final
  <2>3. FileStep
    BY <1>2, <2>1, FileSteps DEF FileStep
  <2>4. Walking' => Walking /\ Shape
    <3>1. Walking' => Walking
      BY <1>2, GivenUp DEF Base
    <3> QED BY <1>2, <2>1, <3>1, StepShape DEF Walk, Thorough, Stops
  <2>5. Orderly' /\ UpToDate' /\ Relevant' /\ Status'
    BY <1>2, <2>1, <2>2, <2>3, <2>4, OrderlyStep, UpToDateStep, RelevantStep, StatusStep
  <2>6. Walking' => Judged'
    BY <1>2, <2>1, <2>2, <2>3, <2>4, JudgedStep
  <2> QED BY <2>5, <2>6
<1> QED BY <1>1, <1>2

LEMMA FinalAlways ==
  ASSUME SingleTargets
  PROVE  Spec => [](Base /\ States /\ Stopped /\ Walk /\ Final)
<1> DEFINE Inv == Base /\ States /\ Stopped /\ Walk /\ Final
<1>1. Init => Inv
  BY InitBase, InitStates, InitStopped, InitWalk, InitFinal
<1>2. Inv /\ [Next]_vars => Inv'
  BY NextBase, NextStates, NextStopped, NextWalk, NextFinal
<1> QED BY <1>1, <1>2, PTL DEF Spec

LEMMA GentleStops == ASSUME Gentle, Types PROVE Stops
BY OptionsAssumption DEF Gentle, Types, Stops, KeepGoing, ForkFails

LEMMA OrderOutOfDate == ASSUME NEW f \in File PROVE Order!OutOfDate(f) <=> OutOfDate(f)
BY DEF Order!OutOfDate, OutOfDate

\* When make stops at the first error, its exit status tells what became of the targets, whatever
\* was running when it gave up: 0 if and only if all that is needed is made (main.c, die, with the
\* status of update_goal_chain), and what was not run is then up to date.  The jobs that die ()
\* waits for change nothing of this.
THEOREM StatusCorrect ==
  ASSUME SingleTargets, Gentle
  PROVE  Spec => []StatusTells
<1>1. ASSUME Base, Final PROVE StatusTells
  <2> SUFFICES ASSUME pc = "exited"
               PROVE  /\ status = 0 <=> \A f \in Needed : Done(f)
                      /\ status = 0 => \A f \in Needed \cap Cmds :
                           Lines[f] > 0 /\ line[f] = 0 => ~Order!OutOfDate(f)
    BY DEF StatusTells
  <2>1. UpToDate /\ Status /\ ~Walking
    BY <1>1, GentleStops DEF Base, Final, Walking
  <2>2. status = 0 <=> \A f \in Needed : Done(f)
    BY <2>1 DEF Status
  <2>3. ASSUME status = 0, NEW f \in Needed \cap Cmds, Lines[f] > 0, line[f] = 0
        PROVE  ~Order!OutOfDate(f)
    <3>1. Done(f) /\ f \in File
      BY <2>2, <2>3, NeededMembers
    <3>2. ~OutOfDate(f)
      BY <2>1, <2>3, <3>1 DEF UpToDate
    <3> QED BY <3>1, <3>2, OrderOutOfDate
  <2> QED BY <2>2, <2>3
<1> QED BY <1>1, FinalAlways, PTL

\* A target's commands run only when all its prerequisites are made (make.texi, "Errors in
\* Commands", of what cannot be remade), from the first line to the last, while make walks and
\* while it waits for jobs after an error.
THEOREM PreconditionsHold ==
  ASSUME SingleTargets, Gentle
  PROVE  Spec => []PreconditionsMet
<1>1. ASSUME Base, States, Final PROVE PreconditionsMet
  <2>1. Orderly /\ Consistent
    BY <1>1, GentleStops DEF Base, Final, States
  <2> QED BY <2>1 DEF PreconditionsMet, Orderly, Consistent, Children
<1> QED BY <1>1, FinalAlways, PTL

------------------------------------------------------------------------------
(* The walk implements BuildOrder                                          *)

Outcome(f) ==
  CASE state[f] = "running" -> "building"
    [] state[f] = "finished" -> IF ustat[f] = 0 THEN "done" ELSE "failed"
    [] OTHER -> "pending"
Mapped == [f \in File |-> Outcome(f)]

LEMMA OutcomeCases ==
  ASSUME NEW f \in File
  PROVE  /\ state[f] = "running" => Mapped[f] = "building"
         /\ Done(f) => Mapped[f] = "done"
         /\ state[f] = "finished" /\ ~Done(f) => Mapped[f] = "failed"
         /\ state[f] \notin {"running", "finished"} => Mapped[f] = "pending"
BY DEF Mapped, Outcome, Done

\* The actions of BuildOrder, as Remake maps them.
LEMMA OrderStart ==
  ASSUME SingleTargets, NEW f \in File, Mapped[f] = "pending", f \in Cmds, Lines[f] > 0,
         \A c \in Prereqs(f) : Mapped[c] = "done", OutOfDate(f),
         Mapped' = [d \in File |-> IF d = f THEN "building" ELSE Mapped[d]], mtime' = mtime
  PROVE  Order!Start(f)
<1>1. Group(f) = {f}
  BY DEF Group, SingleTargets
<1> QED BY <1>1, OrderOutOfDate DEF Order!Start, Order!Ready, Mapped, Outcome

LEMMA OrderCurrent ==
  ASSUME NEW f \in File, Mapped[f] = "pending", \A c \in Prereqs(f) : Mapped[c] = "done",
         (f \in Cmds /\ Lines[f] > 0) => ~OutOfDate(f),
         Mapped' = [Mapped EXCEPT ![f] = "done"], mtime' = mtime
  PROVE  Order!Current(f)
BY OrderOutOfDate DEF Order!Current, Order!Ready, Mapped, Outcome

LEMMA OrderEnd ==
  ASSUME SingleTargets, Types', NEW f \in File, Mapped[f] = "building", NEW s \in {"done", "failed"},
         Mapped' = [d \in File |-> IF d = f THEN s ELSE Mapped[d]],
         \A d \in File : mtime'[d] = mtime[d] \/ (d = f /\ mtime'[d] \in {0, New})
  PROVE  Order!End(f)
<1>1. Group(f) = {f} /\ mtime' \in [File -> 0 .. New]
  BY DEF Group, SingleTargets, Types
<1> QED BY <1>1 DEF Order!End, Mapped, Outcome

\* A step that gives one file another outcome.
LEMMA MappedStep ==
  ASSUME Types, Types', NEW f \in File,
         \A h \in File : h # f => state'[h] = state[h] /\ ustat'[h] = ustat[h]
  PROVE  /\ Mapped' = [h \in File |-> IF h = f THEN Outcome(f)' ELSE Mapped[h]]
         /\ Mapped' = [Mapped EXCEPT ![f] = Outcome(f)']
<1>1. \A h \in File : h # f => Outcome(h)' = Outcome(h)
  BY DEF Outcome
<1>2. \A h \in File : Mapped[h] = Outcome(h) /\ Mapped'[h] = Outcome(h)'
  BY DEF Mapped
<1>3. \A h \in File : Mapped'[h] = IF h = f THEN Outcome(f)' ELSE Mapped[h]
  BY <1>1, <1>2
<1>4. Mapped' = [h \in File |-> Mapped'[h]] /\ Mapped = [h \in File |-> Mapped[h]]
  BY DEF Mapped
<1> QED BY <1>3, <1>4

LEMMA OrderStep ==
  ASSUME SingleTargets, Stops, Base, Base', States, Stopped, Walk, Walking => Judged, FileStep
  PROVE  Order!Next \/ UNCHANGED <<Mapped, mtime>>
<1>0. /\ Types /\ Types' /\ state \in [File -> State]
      /\ ustat \in [File -> {-1, 0, 2}] /\ mtime \in [File -> 0 .. New]
  BY DEF Base, Types
<1>1. CASE Unmoved
  BY <1>1 DEF Unmoved, Mapped, Outcome
<1>2. CASE PutsOff
  <2>1. \A h \in File : Outcome(h)' = Outcome(h)
    BY <1>0, <1>2 DEF PutsOff, Outcome
  <2> QED BY <1>2, <2>1 DEF PutsOff, Mapped
<1>3. CASE Starts
  <2>1. PICK f \in File : f = Top.f
    BY <1>3, TopAt
  <2>2. /\ state[f] = "not_started" /\ Lines[f] > 0 /\ UNCHANGED <<ustat, mtime>>
        /\ state' = [state EXCEPT ![f] = "running"]
    BY <1>3, <2>1 DEF Starts
  <2>3. \A c \in Prereqs(f) : Done(c)
    BY <1>3, <2>1, TopAt
  <2>4. f \in Cmds /\ OutOfDate(f)
    BY <1>3, <2>1, TopAt DEF Judged
  <2>5. Mapped' = [h \in File |-> IF h = f THEN "building" ELSE Mapped[h]]
    <3>1. \A h \in File : h # f => state'[h] = state[h] /\ ustat'[h] = ustat[h]
      BY <1>0, <2>2
    <3>2. Outcome(f)' = "building"
      BY <1>0, <2>2 DEF Outcome
    <3> QED BY <1>0, <3>1, <3>2, MappedStep
  <2>6. Mapped[f] = "pending" /\ \A c \in Prereqs(f) : Mapped[c] = "done"
    BY <2>2, <2>3, OutcomeCases, PrereqsType
  <2>7. Order!Start(f)
    BY <2>2, <2>4, <2>5, <2>6, OrderStart
  <2> QED BY <2>7 DEF Order!Next
<1>4. CASE Passes
  <2>1. PICK f \in File : f = Top.f
    BY <1>4, TopAt
  <2>2. /\ state[f] \in {"not_started", "deps_running"} /\ mtime' = mtime
        /\ state' = [state EXCEPT ![f] = "finished"] /\ ustat' = [ustat EXCEPT ![f] = 0]
    BY <1>4, <2>1 DEF Passes
  <2>3. \A c \in Prereqs(f) : Done(c)
    BY <1>4, <2>1, TopAt
  <2>4. (f \in Cmds /\ Lines[f] > 0) => ~OutOfDate(f)
    <3> SUFFICES ASSUME f \in Cmds, Lines[f] > 0 PROVE ~OutOfDate(f)
      OBVIOUS
    <3>1. pc = "deps" /\ ~MustMake
      BY <1>4, <2>1 DEF Passes
    <3>2. stack # <<>> /\ Walking /\ Top.d = Len(Deps[Top.f]) + 1 /\ ~Top.running
      BY <1>4, TopAt
    <3>3. Timed(Len(stack))
      BY <1>0, <3>1, <3>2, TopType DEF Judged, At
    <3> QED BY <1>0, <2>1, <3>1, <3>2, <3>3, MustMakeTells DEF Base
  <2>5. Mapped' = [Mapped EXCEPT ![f] = "done"]
    <3>1. \A h \in File : h # f => state'[h] = state[h] /\ ustat'[h] = ustat[h]
      BY <1>0, <2>2
    <3>2. Outcome(f)' = "done"
      BY <1>0, <2>2 DEF Outcome
    <3> QED BY <1>0, <3>1, <3>2, MappedStep
  <2>6. Mapped[f] = "pending" /\ \A c \in Prereqs(f) : Mapped[c] = "done"
    BY <2>2, <2>3, OutcomeCases, PrereqsType
  <2>7. Order!Current(f)
    BY <2>2, <2>4, <2>5, <2>6, OrderCurrent
  <2> QED BY <2>7 DEF Order!Next
<1>5. ASSUME NEW f \in File, Ends(f) PROVE Order!Next
  <2>1. PICK r \in {0, 2}, m \in {0, New, mtime[f]} :
          /\ state[f] = "running" /\ state' = [state EXCEPT ![f] = "finished"]
          /\ ustat' = [ustat EXCEPT ![f] = r] /\ mtime' = [mtime EXCEPT ![f] = m]
    BY <1>5 DEF Ends
  <2>2. PICK s \in {"done", "failed"} : s = IF r = 0 THEN "done" ELSE "failed"
    OBVIOUS
  <2>3. Mapped' = [h \in File |-> IF h = f THEN s ELSE Mapped[h]]
    <3>1. \A h \in File : h # f => state'[h] = state[h] /\ ustat'[h] = ustat[h]
      BY <1>0, <2>1
    <3>2. Outcome(f)' = s
      BY <1>0, <2>1, <2>2 DEF Outcome
    <3> QED BY <1>0, <3>1, <3>2, MappedStep
  <2>4. Mapped[f] = "building"
    BY <2>1, OutcomeCases
  <2>5. \A d \in File : mtime'[d] = mtime[d] \/ (d = f /\ mtime'[d] \in {0, New})
    BY <1>0, <2>1
  <2>6. Order!End(f)
    BY <1>0, <2>3, <2>4, <2>5, OrderEnd
  <2> QED BY <2>6 DEF Order!Next
<1> QED BY <1>1, <1>2, <1>3, <1>4, <1>5 DEF FileStep

\* When make stops at the first error, its walk over the dependency graph, with its passes, its
\* activations and its jobs, does nothing that BuildOrder does not allow: every step maps to one
\* of BuildOrder or leaves all files as they are.
THEOREM ImplementsBuildOrder ==
  ASSUME SingleTargets, Gentle
  PROVE  Spec => BuildInOrder
<1> DEFINE Inv == Base /\ States /\ Stopped /\ Walk /\ Final
<1>1. Init => Order!Init
  <2> SUFFICES ASSUME Init PROVE Order!Init
    OBVIOUS
  <2>1. state = [f \in File |-> "not_started"] /\ mtime \in [File -> 0 .. New - 1]
    BY DEF Init
  <2> QED BY <2>1 DEF Order!Init
<1>2. Inv /\ Inv' /\ [Next]_vars => [Order!Next]_(Order!vars)
  <2> SUFFICES ASSUME Inv, Inv', [Next]_vars PROVE [Order!Next]_(Order!vars)
    OBVIOUS
  <2>1. Stops
    BY GentleStops DEF Base
  <2>2. CASE UNCHANGED vars
    BY <2>2 DEF vars, Order!vars
  <2>3. CASE Next
    <3>1. FileStep
      BY <2>1, <2>3, FileSteps DEF FileStep
    <3>2. Walking => Judged
      BY <2>1 DEF Final
    <3>3. Order!Next \/ UNCHANGED <<Mapped, mtime>>
      BY <2>1, <3>1, <3>2, OrderStep
    <3> QED BY <3>3 DEF Order!vars, Mapped, Outcome
  <2> QED BY <2>2, <2>3
<1> QED BY <1>1, <1>2, FinalAlways, PTL DEF Spec, BuildInOrder, Order!Spec
=============================================================================
