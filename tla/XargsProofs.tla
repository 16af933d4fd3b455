----------------------------- MODULE XargsProofs -----------------------------
(***************************************************************************)
(* Theorems about Xargs, for all inputs, options, handles, sizes of the      *)
(* table, exit codes and commands that cannot be started.  xargs keeps a     *)
(* list of its children (pids), Downhill a table of processes (pid), and     *)
(* wait () takes a child out of the one before xargs takes it out of the     *)
(* other.  The inductive invariant IInv says how far the two have got.  BInv,  *)
(* which is proved after it, says of what the commands are made.             *)
(***************************************************************************)
EXTENDS Xargs, FiniteSetTheorems, SequenceTheorems, WellFoundedInduction, TLAPS

\* The variables have their types.
Types ==
  /\ use \in Uses /\ pos \in 1..(Len(use.input) + 1) /\ lineno \in Nat
  /\ pc \in {"start", "read", "last", "exec", "slot", "fork", "wait", "end", "exited", "replaced"}
  /\ status \in 0..127 /\ child_error \in {0, 123}
  /\ code \in [Handle -> {Closed, Running} \cup ExitCodes]
  /\ pid \in [Index -> Handle \cup {-1}] /\ pids \in Seq(Handle \cup {0})
  /\ process_Index \in Index /\ loop_Index \in Index
  /\ waited \in Handle \cup {-1} /\ process_Status \in 0..255
  /\ ended \subseteq ExitCodes

\* Downhill's table: an open handle in each used entry, no two the same.
Table ==
  /\ \A x, y \in Index : pid[x] = pid[y] /\ pid[x] # -1 => x = y
  /\ \A x \in Index : pid[x] # -1 => code[pid[x]] # Closed

\* xargs' list: no pid twice, as many as are counted, no more than -P.
List ==
  /\ \A k, l \in DOMAIN pids : pids[k] = pids[l] /\ pids[k] # 0 => k = l
  /\ IsFiniteSet(Positive(pids)) /\ procs_executing = Cardinality(Positive(pids))
  /\ use.proc_max # 0 => procs_executing <= use.proc_max
  /\ use.proc_max # 0 /\ pc = "fork" => procs_executing < use.proc_max

\* What wait () is about to return is in the list only, everything else in both.
Waited == IF wait_pc = "returned" THEN {waited} ELSE {}
Agreed == pc # "replaced" => Positive(pids) = Entries \cup Waited

\* wait () is called by wait_for_proc only, and while there are children.
Waits ==
  /\ IF pc = "wait" THEN wait_pc \in {"sigchld", "any", "returned"} /\ Positive(pids) # {}
                    ELSE wait_pc = "idle"
  /\ wait_pc = "returned" /\ waited # -1 => code[waited] = Closed

\* Where the code of a command that has ended is to be found: in the status of xargs, with
\* the process until wait () takes it, or on its way from there.
Accounted(c) ==
  \/ c % 256 = 0
  \/ c % 256 \notin {126, 127} /\ child_error = 123
  \/ \E h \in Handle : code[h] = c
  \/ wait_pc = "returned" /\ process_Status = c % 256
  \/ pc = "exited" /\ status \in {126, 127}
Codes ==
  /\ \A c \in ended : Accounted(c)
  /\ \A h \in Handle : code[h] \in ended \cup {Running, Closed}
  /\ pc # "replaced" => \A h \in Handle : code[h] # Closed => h \in Entries
  /\ wait_pc = "returned" => \E c \in ended : process_Status = c % 256
  /\ child_error = 123 => \E c \in ended : c % 256 # 0

\* The last command is built, and all are waited for, only when the input is read.
Control ==
  /\ pc = "last" => AtEnd
  /\ pc \in {"exec", "slot", "fork"} \/ (pc = "wait" /\ ~all) => (ret = "end" => AtEnd)
  /\ pc = "end" \/ (pc = "wait" /\ all) => AtEnd /\ cmd = <<>>
  /\ use.i /\ pc \in {"start", "read"} => cmd = <<>>
  /\ ret \in {"read", "end"} /\ all \in BOOLEAN

IInv == Types /\ Table /\ List /\ Agreed /\ Waits /\ Codes /\ Control /\ StatusRight

------------------------------------------------------------------------------
(* Sets of places and of pids                                              *)

LEMMA Smallest ==
  ASSUME NEW S, S \subseteq Nat, S # {}
  PROVE  \E x \in S : \A y \in S : x <= y
<1>1. IsWellFoundedOn(OpToRel(<, Nat), Nat)
  BY NatLessThanWellFounded
<1>2. PICK x \in S : \A y \in S : ~(<<y, x>> \in OpToRel(<, Nat))
  BY <1>1, WFMin
<1>3. \A y \in S : x <= y
  <2>1. \A y, z \in Nat : y < z => <<y, z>> \in OpToRel(<, Nat)
    BY Zenon DEF OpToRel
  <2>2. \A y \in S : ~(y < x)
    BY <1>2, <2>1
  <2> QED
    BY <2>2
<1> QED
  BY <1>3

LEMMA SmallestIsThere ==
  ASSUME NEW S, S \subseteq Nat, S # {}
  PROVE  Min(S) \in S
<1>1. \E x \in S : \A y \in S : x <= y
  BY Smallest
<1> QED
  BY <1>1 DEF Min

LEMMA Handles == /\ -1 \notin Handle /\ 0 \notin Handle
                 /\ \A s \in Seq(Handle \cup {0}) : Positive(s) \subseteq Handle
<1>1. -1 \notin Handle /\ 0 \notin Handle
  BY TableAssumption
<1>2. \A s \in Seq(Handle \cup {0}) : \A k \in DOMAIN s : s[k] \in Handle \cup {0}
  OBVIOUS
<1> QED
  BY <1>1, <1>2 DEF Positive

\* Each pid is in one entry of the list, so that entries and pids are as many.
LEMMA OneEntryEach ==
  ASSUME List
  PROVE  Cardinality({k \in DOMAIN pids : pids[k] # 0}) = Cardinality(Positive(pids))
<1> DEFINE K == {k \in DOMAIN pids : pids[k] # 0}
           P == Positive(pids)
           place == [h \in P |-> CHOOSE k \in K : pids[k] = h]
<1>1. \A h \in P : \E k \in K : pids[k] = h
  BY DEF Positive
<1>2. \A h \in P : place[h] \in K /\ pids[place[h]] = h
  BY <1>1
<1>3. \A k \in K : pids[k] \in P /\ place[pids[k]] = k
  <2> TAKE k \in K
  <2>1. pids[k] \in P
    BY DEF Positive
  <2>2. place[pids[k]] \in K /\ pids[place[pids[k]]] = pids[k]
    BY <1>2, <2>1
  <2> QED
    BY <2>1, <2>2 DEF List
<1>4. place \in [P -> K]
  BY <1>2
<1> HIDE DEF place, K, P
<1>5. \A g, h \in P : place[g] = place[h] => g = h
  BY <1>2
<1>6. \A k \in K : \E h \in P : place[h] = k
  BY <1>3
<1>7. place \in Bijection(P, K)
  BY <1>4, <1>5, <1>6 DEF Bijection, Injection, Surjection, IsInjective
<1>8. ExistsBijection(P, K)
  BY <1>7 DEF ExistsBijection
<1>9. IsFiniteSet(P)
  BY DEF List, P
<1> QED
  BY <1>8, <1>9, FS_Bijection DEF K, P

LEMMA Implied == IInv => TypeOK /\ StatusRight
<1> SUFFICES ASSUME IInv PROVE TypeOK /\ StatusRight
  OBVIOUS
<1>1. procs_executing = Cardinality({k \in DOMAIN pids : pids[k] # 0})
  BY OneEntryEach DEF IInv, List
<1>2. pc # "replaced" =>
         Positive(pids) = Entries \cup (IF wait_pc = "returned" THEN {waited} ELSE {})
  BY DEF IInv, Agreed, Waited
<1> QED
  BY <1>1, <1>2 DEF IInv, Types, Table, List, TypeOK

\* wait () never returns -1 to xargs.
LEMMA WaitedIsChild ==
  ASSUME IInv, wait_pc = "returned", pc = "wait"
  PROVE  waited \in Handle /\ waited \in Positive(pids) /\ code[waited] = Closed
<1>1. waited \in Positive(pids)
  BY DEF IInv, Agreed, Waited
<1>2. waited \in Handle /\ waited # -1
  BY <1>1, Handles DEF IInv, Types
<1> QED
  BY <1>1, <1>2 DEF IInv, Waits

------------------------------------------------------------------------------
(* Reading and building commands                                           *)

\* A step that leaves processes alone and does not begin to wait.
LEMMA Quiet ==
  ASSUME IInv, UNCHANGED <<process_vars, use, procs, child_error, ended>>,
         pc \notin {"wait", "exited", "replaced"}, pc' \notin {"wait", "replaced"},
         pc' = "fork" /\ use.proc_max # 0 => procs_executing < use.proc_max
  PROVE  Table' /\ List' /\ Agreed' /\ Waits' /\ Codes'
<1> USE DEF IInv, process_vars, procs
<1>1. Table'
  BY DEF Table
<1>2. List'
  BY DEF List, Positive
<1>3. Agreed'
  BY DEF Agreed, Waited, Positive, Entries
<1>4. Waits'
  BY DEF Waits, Positive
<1>5. Codes'
  <2>1. \A c \in ended : Accounted(c) => Accounted(c)'
    BY DEF Accounted
  <2>2. Entries' = Entries
    BY DEF Entries
  <2> QED
    BY <2>1, <2>2 DEF Codes
<1> QED
  BY <1>1, <1>2, <1>3, <1>4, <1>5

Reading ==
  \/ Start \/ ReadEnd \/ ReadTooLong \/ ReadEof
  \/ PushTooLong \/ PushRuns \/ Push \/ Insert \/ LastCommand \/ Ask
  \/ AskFails

LEMMA ReadingStep ==
  ASSUME IInv, Reading
  PROVE  IInv'
<1> USE DEF IInv
<1>0. /\ UNCHANGED <<process_vars, use, procs, child_error, ended>> /\ all' = all
      /\ pc \in {"start", "read", "last", "exec"}
      /\ pc' \in {"read", "last", "exec", "slot", "end", "exited"}
      /\ pc' = "exited" => status' = 1
      /\ pc' # "exited" => status' = status
  <2>1. /\ UNCHANGED <<process_vars, use, procs, child_error, ended>> /\ all' = all
        /\ pc \in {"start", "read", "last", "exec"}
    BY DEF Reading, Start, ReadEnd, ReadTooLong, ReadEof, PushTooLong, PushRuns, Push,
           Insert, LastCommand, Ask, AskFails, ReadArg
  <2>2. CASE Start \/ ReadEnd \/ ReadTooLong \/ ReadEof \/ AskFails
    BY <2>1, <2>2 DEF Start, ReadEnd, ReadTooLong, ReadEof, AskFails, Goto, Exit, LineRead
  <2>3. CASE PushTooLong \/ PushRuns \/ Push \/ Insert
    BY <2>1, <2>3 DEF PushTooLong, PushRuns, Push, Insert, ReadArg, Goto, Exit, LineRead
  <2>4. CASE LastCommand \/ Ask
    BY <2>1, <2>4 DEF LastCommand, Ask, Goto, Control
  <2> QED
    BY <2>1, <2>2, <2>3, <2>4 DEF Reading
<1>1. Len(use.input) \in Nat
  BY UsesAssumption DEF Types
<1>2. /\ pos' \in 1..(Len(use.input) + 1)
      /\ pos' = pos \/ (pc = "read" /\ pc' \in {"read", "exec", "exited"} /\ ret' = "read")
  <2>1. CASE Push \/ Insert
    <3>1. /\ pos' = pos + 1 /\ ret' = "read" /\ pc = "read" /\ ~(pos > Len(use.input))
      BY <2>1 DEF Push, Insert, ReadArg, AtEnd
    <3>2. pc' \in {"read", "exec", "exited"}
      BY <2>1 DEF Push, Insert, LineRead, Goto, Exit
    <3>3. pos \in 1..(Len(use.input) + 1)
      BY DEF Types
    <3> DEFINE len == Len(use.input)
    <3> HIDE DEF len
    <3>4. pos + 1 \in 1..(len + 1)
      BY <1>1, <3>1, <3>3 DEF len
    <3> QED
      BY <3>1, <3>2, <3>4 DEF len
  <2>2. CASE ~(Push \/ Insert)
    BY <2>2 DEF Reading, Start, ReadEnd, ReadTooLong, ReadEof, PushTooLong, PushRuns,
                LastCommand, Ask, AskFails, Types, reading
  <2> QED
    BY <2>1, <2>2
<1>3. lineno' \in Nat
  <2>1. LinesWith \in Nat
    BY DEF LinesWith, Types
  <2>2. CASE ReadEof \/ Push \/ Insert
    <3>1. lineno' \in {lineno, LinesWith, 0}
      BY <2>2 DEF ReadEof, Push, Insert, LineRead
    <3> QED
      BY <2>1, <3>1 DEF Types
  <2>3. CASE ~(ReadEof \/ Push \/ Insert)
    BY <2>3 DEF Reading, Start, ReadEnd, ReadTooLong, PushTooLong, PushRuns,
                LastCommand, Ask, AskFails, Types, reading
  <2> QED
    BY <2>2, <2>3
<1>4. Types'
  <2>1. pc' \in {"start", "read", "last", "exec", "slot", "fork", "wait", "end", "exited",
                 "replaced"}
    BY <1>0
  <2>3. status' \in 0..127
    <3>1. status' = 1 \/ status' = status
      BY <1>0
    <3>2. status \in 0..127
      BY DEF Types
    <3> QED
      BY <3>1, <3>2
  <2>2. UNCHANGED <<use, child_error, code, pid, pids, process_Index, loop_Index, waited,
                    process_Status, ended>>
    BY <1>0 DEF process_vars, procs
  <2> QED
    BY <1>2, <1>3, <2>1, <2>2, <2>3 DEF Types
<1>5. Control'
  <2>1. CASE Start
    BY <1>0, <2>1 DEF Start, Goto, Exit, Control, reading, command, AtEnd
  <2>2. CASE ReadEnd
    BY <1>0, <2>2 DEF ReadEnd, Goto, Control, reading, command, AtEnd
  <2>3. CASE ReadTooLong \/ PushTooLong \/ AskFails
    BY <1>0, <2>3 DEF ReadTooLong, PushTooLong, AskFails, ReadArg, Exit, Control
  <2>4. CASE ReadEof
    BY <1>0, <2>4 DEF ReadEof, LineRead, Goto, Control, command, AtEnd
  <2>5. CASE PushRuns
    BY <1>0, <2>5 DEF PushRuns, ReadArg, Goto, Control, reading, command
  <2>6. CASE Push
    BY <1>0, <2>6 DEF Push, ReadArg, LineRead, Goto, Control
  <2>7. CASE Insert
    BY <1>0, <2>7 DEF Insert, ReadArg, Goto, Exit, Control
  <2>8. CASE LastCommand
    BY <1>0, <2>8 DEF LastCommand, Goto, Control, reading, command, AtEnd
  <2>9. CASE Ask
    BY <1>0, <2>9 DEF Ask, Goto, Done, Control, reading, command, AtEnd
  <2> QED
    BY <2>1, <2>2, <2>3, <2>4, <2>5, <2>6, <2>7, <2>8, <2>9 DEF Reading
<1>6. StatusRight'
  BY <1>0 DEF StatusRight
<1>7. Table' /\ List' /\ Agreed' /\ Waits' /\ Codes'
  BY <1>0, Quiet
<1> QED
  BY <1>4, <1>5, <1>6, <1>7

------------------------------------------------------------------------------
(* Starting commands                                                       *)

\* wait_for_proc calls wait ().
LEMMA WaitBegins ==
  ASSUME IInv, pc \in {"slot", "fork", "end"}, pc' = "wait", Wait, procs_executing > 0,
         UNCHANGED <<use, reading, procs, child_error, ended, status>>
  PROVE  Types' /\ Table' /\ List' /\ Agreed' /\ Waits' /\ Codes' /\ StatusRight'
<1> USE DEF IInv, Wait, procs
<1>1. Positive(pids) # {}
  BY FS_EmptySet DEF List
<1>8. Types'
  <2>1. 0 \in Index
    BY TableAssumption DEF Index
  <2>2. pos' = pos /\ lineno' = lineno
    BY DEF reading
  <2> QED
    BY <2>1, <2>2 DEF Types
<1>2. Table'
  BY DEF Table
<1>3. List'
  BY DEF List, Positive
<1>4. Agreed'
  BY DEF Agreed, Waits, Waited, Positive, Entries
<1>5. Waits'
  BY <1>1 DEF Waits, Positive
<1>6. Codes'
  <2>1. \A c \in ended : Accounted(c) => Accounted(c)'
    BY DEF Accounted, Waits
  <2>2. Entries' = Entries
    BY DEF Entries
  <2> QED
    BY <2>1, <2>2 DEF Codes
<1>7. StatusRight'
  BY DEF StatusRight
<1> QED
  BY <1>2, <1>3, <1>4, <1>5, <1>6, <1>7, <1>8

LEMMA SlotStep ==
  ASSUME IInv, Slot \/ RunFails \/ WaitForAll
  PROVE  IInv'
<1> USE DEF IInv
<1>0. /\ pc \in {"slot", "fork", "end"} /\ child_error \in {0, 123}
      /\ procs_executing \in Nat /\ use.proc_max \in Nat
      /\ UNCHANGED <<use, ret, reading, command, procs, child_error, ended>>
  BY FS_CardinalityType, UsesAssumption DEF Slot, RunFails, WaitForAll, List, Types
<1>1. CASE Wait /\ Goto("wait") /\ procs_executing > 0
           /\ IF pc = "end" THEN all' = TRUE ELSE all' = FALSE
  <2>1. Types' /\ Table' /\ List' /\ Agreed' /\ Waits' /\ Codes' /\ StatusRight'
    BY <1>0, <1>1, WaitBegins DEF Goto
  <2>2. Control'
    BY <1>0, <1>1 DEF Goto, Control, AtEnd, reading, command
  <2> QED
    BY <2>1, <2>2
<1>2. CASE Goto("fork") /\ UNCHANGED <<process_vars, all>> /\ pc = "slot"
           /\ (use.proc_max # 0 => procs_executing < use.proc_max)
  <2>1. Table' /\ List' /\ Agreed' /\ Waits' /\ Codes'
    BY <1>0, <1>2, Quiet DEF Goto
  <2>2. Types'
    BY <1>0, <1>2 DEF Goto, Types, reading, procs, process_vars
  <2>3. Control'
    BY <1>0, <1>2 DEF Goto, Control, AtEnd, reading, command
  <2>4. StatusRight'
    BY <1>2 DEF Goto, StatusRight
  <2> QED
    BY <2>1, <2>2, <2>3, <2>4
<1>3. CASE /\ UNCHANGED <<process_vars, all>>
           /\ \/ pc = "fork" /\ Exit(1)
              \/ pc = "end" /\ procs_executing = 0 /\ Exit(child_error)
  <2>1. Table' /\ List' /\ Agreed' /\ Waits' /\ Codes'
    BY <1>0, <1>3, Quiet DEF Exit
  <2>2. Types'
    <3>1. status' \in 0..127
      BY <1>0, <1>3 DEF Exit
    <3>2. pc' = "exited"
      BY <1>3 DEF Exit
    <3> QED
      BY <1>0, <1>3, <3>1, <3>2 DEF Types, reading, procs, process_vars
  <2>3. Control'
    BY <1>0, <1>3 DEF Exit, Control
  <2>4. StatusRight'
    <3>1. CASE pc = "fork"
      BY <1>3, <3>1 DEF Exit, StatusRight
    <3>2. CASE pc = "end"
      <4>1. pc' = "exited" /\ status' = child_error /\ code' = code /\ ended' = ended
        BY <1>0, <1>3, <3>2 DEF Exit, process_vars
      <4>2. AtEnd' /\ cmd' = <<>>
        BY <1>0, <3>2 DEF Control, AtEnd, reading, command
      <4>3. Positive(pids) = {} /\ wait_pc = "idle"
        BY <1>0, <1>3, <3>2, FS_EmptySet DEF List, Waits
      <4>4. \A h \in Handle : code[h] = Closed
        BY <3>2, <4>3 DEF Agreed, Codes
      <4>5. \A c \in ended : c % 256 = 0 \/ (c % 256 \notin {126, 127} /\ child_error = 123)
        <5> TAKE c \in ended
        <5>1. c # Closed
          BY TableAssumption DEF Types, Closed
        <5>2. Accounted(c)
          BY DEF Codes
        <5> QED
          BY <3>2, <4>3, <4>4, <5>1, <5>2 DEF Accounted
      <4>6. child_error = 123 => \E c \in ended : c % 256 # 0
        BY DEF Codes
      <4>7. child_error = 0 \/ child_error = 123
        BY <1>0
      <4> QED
        BY <4>1, <4>2, <4>4, <4>5, <4>6, <4>7 DEF StatusRight
    <3> QED
      BY <1>3, <3>1, <3>2
  <2> QED
    BY <2>1, <2>2, <2>3, <2>4
<1>4. CASE Slot
  <2>1. pc = "slot"
    BY <1>4 DEF Slot
  <2>2. CASE use.proc_max # 0 /\ procs_executing >= use.proc_max
    <3>1. procs_executing > 0
      BY <1>0, <2>2
    <3> QED
      BY <1>1, <1>4, <2>1, <2>2, <3>1 DEF Slot, WaitForOne
  <2>3. CASE ~(use.proc_max # 0 /\ procs_executing >= use.proc_max)
    <3>1. use.proc_max # 0 => procs_executing < use.proc_max
      BY <1>0, <2>3
    <3> QED
      BY <1>2, <1>4, <2>1, <2>3, <3>1 DEF Slot
  <2> QED
    BY <2>2, <2>3
<1>5. CASE RunFails
  BY <1>1, <1>3, <1>5 DEF RunFails, WaitForOne
<1>6. CASE WaitForAll
  <2>1. ~(procs_executing > 0) => procs_executing = 0
    BY <1>0
  <2> QED
    BY <1>1, <1>3, <1>6, <2>1 DEF WaitForAll
<1> QED
  BY <1>4, <1>5, <1>6

\* add_proc puts the pid in an empty entry, and makes room for it if there is none.
LEMMA InList ==
  ASSUME IInv, NEW h \in Handle, h \notin Positive(pids)
  PROVE  /\ Added(h) \in Seq(Handle \cup {0})
         /\ Positive(Added(h)) = Positive(pids) \cup {h}
         /\ \A k, l \in DOMAIN Added(h) :
              Added(h)[k] = Added(h)[l] /\ Added(h)[k] # 0 => k = l
<1> DEFINE n == Len(pids)
           more == IF n # 0 THEN n ELSE IF use.proc_max # 0 THEN use.proc_max ELSE FirstPids
           zeros == [k \in 1..more |-> 0]
           list == IF 0 \in Range(pids) THEN pids ELSE pids \o zeros
           S == {k \in DOMAIN list : list[k] = 0}
<1>1. pids \in Seq(Handle \cup {0}) /\ n \in Nat /\ DOMAIN pids = 1..n
  BY DEF IInv, Types
<1>2. \A k, l \in DOMAIN pids : pids[k] = pids[l] /\ pids[k] # 0 => k = l
  BY DEF IInv, List
<1>3. more \in Nat \ {0}
  BY <1>1, UsesAssumption, ForkAssumption DEF IInv, Types
<1>4. /\ list \in Seq(Handle \cup {0}) /\ S # {}
      /\ DOMAIN pids \subseteq DOMAIN list
      /\ \A k \in DOMAIN list : list[k] = IF k \in DOMAIN pids THEN pids[k] ELSE 0
  <2>1. CASE 0 \in Range(pids)
    BY <1>1, <2>1 DEF Range
  <2>2. CASE 0 \notin Range(pids)
    <3> HIDE DEF more
    <3>1. zeros \in Seq(Handle \cup {0}) /\ Len(zeros) = more
      BY <1>3
    <3>2. \A k \in 1..more : zeros[k] = 0
      OBVIOUS
    <3> HIDE DEF zeros, n
    <3>3. n = Len(pids)
      BY DEF n
    <3>4. /\ list = pids \o zeros
          /\ list \in Seq(Handle \cup {0}) /\ Len(list) = n + more
          /\ \A k \in 1..n : list[k] = pids[k]
          /\ \A k \in n + 1..n + more : list[k] = zeros[k - n]
      <4>1. pids \o zeros \in Seq(Handle \cup {0}) /\ Len(pids \o zeros) = n + more
        BY <1>1, <3>1, <3>3, ConcatProperties
      <4>2. \A k \in 1..n : (pids \o zeros)[k] = pids[k]
        <5> TAKE k \in 1..n
        <5>1. k \in 1..Len(pids) + Len(zeros) /\ k <= Len(pids)
          BY <1>1, <1>3, <3>1, <3>3
        <5> QED
          BY <1>1, <3>1, <5>1, ConcatProperties
      <4>3. \A k \in n + 1..n + more : (pids \o zeros)[k] = zeros[k - n]
        <5> TAKE k \in n + 1..n + more
        <5>1. k \in 1..Len(pids) + Len(zeros) /\ ~(k <= Len(pids))
          BY <1>1, <1>3, <3>1, <3>3
        <5> QED
          BY <1>1, <3>1, <3>3, <5>1, ConcatProperties
      <4> QED
        BY <2>2, <4>1, <4>2, <4>3
    <3> HIDE DEF list
    <3>5. DOMAIN list = 1..n + more
      BY <3>4
    <3>6. \A k \in 1..n + more : k \notin 1..n => list[k] = 0
      <4> SUFFICES ASSUME NEW k \in 1..n + more, k \notin 1..n PROVE list[k] = 0
        OBVIOUS
      <4>1. k \in n + 1..n + more /\ k - n \in 1..more
        BY <1>1, <1>3
      <4> QED
        BY <3>2, <3>4, <4>1
    <3>7. n + 1 \in 1..n + more /\ n + 1 \notin 1..n /\ 1..n \subseteq 1..n + more
      BY <1>1, <1>3
    <3> QED
      BY <1>1, <3>4, <3>5, <3>6, <3>7
  <2> QED
    BY <2>1, <2>2
<1> DEFINE m == Min(S)
<1>5. Added(h) = [list EXCEPT ![m] = h]
  BY DEF Added
<1> HIDE DEF list, m, S, more, n
<1>6. m \in DOMAIN list /\ list[m] = 0
  <2>1. S \subseteq Nat
    BY <1>4 DEF S
  <2>2. m \in S
    BY <1>4, <2>1, SmallestIsThere DEF m
  <2> QED
    BY <2>2 DEF S
<1>7. h # 0
  BY Handles
<1> DEFINE r == [list EXCEPT ![m] = h]
<1>8. /\ r \in Seq(Handle \cup {0}) /\ DOMAIN r = DOMAIN list
      /\ r[m] = h /\ \A k \in DOMAIN list \ {m} : r[k] = list[k]
  BY <1>4, <1>6
<1> HIDE DEF r
<1>9. Positive(r) = Positive(pids) \cup {h}
  <2>1. \A k \in DOMAIN r : r[k] # 0 => r[k] = h \/ (k \in DOMAIN pids /\ r[k] = pids[k])
    BY <1>4, <1>8
  <2>2. \A k \in DOMAIN pids : pids[k] # 0 => k # m /\ r[k] = pids[k]
    BY <1>4, <1>6, <1>8
  <2>3. Positive(r) \subseteq Positive(pids) \cup {h}
    BY <2>1 DEF Positive
  <2>4. Positive(pids) \cup {h} \subseteq Positive(r)
    BY <1>4, <1>6, <1>7, <1>8, <2>2 DEF Positive
  <2> QED
    BY <2>3, <2>4
<1>10. ASSUME NEW k \in DOMAIN r, NEW l \in DOMAIN r, r[k] = r[l], r[k] # 0 PROVE k = l
  <2>1. \A x \in DOMAIN r : x # m /\ r[x] # 0 => x \in DOMAIN pids /\ r[x] = pids[x]
    BY <1>4, <1>8
  <2>2. \A x \in DOMAIN r : x # m /\ r[x] # 0 => r[x] # h
    BY <2>1 DEF Positive
  <2> QED
    BY <1>2, <1>8, <1>10, <2>1, <2>2
<1>11. Added(h) = r
  BY <1>5 DEF r
<1>12. \A k, l \in DOMAIN r : r[k] = r[l] /\ r[k] # 0 => k = l
  BY <1>10
<1>13. Added(h) \in Seq(Handle \cup {0})
  BY <1>8, <1>11
<1>14. Positive(Added(h)) = Positive(pids) \cup {h}
  BY <1>9, <1>11
<1>15. \A k, l \in DOMAIN Added(h) : Added(h)[k] = Added(h)[l] /\ Added(h)[k] # 0 => k = l
  BY <1>11, <1>12
<1> QED
  BY <1>13, <1>14, <1>15

\* A command is started, or xargs becomes it.
LEMMA RunStep ==
  ASSUME IInv, NEW h \in Handle, Run(h)
  PROVE  IInv'
<1> USE DEF IInv
<1>0. /\ pc = "fork" /\ wait_pc = "idle" /\ code[h] = Closed
      /\ code' = [code EXCEPT ![h] = Running]
      /\ UNCHANGED <<process_Index, wait_pc, loop_Index, waited, process_Status>>
      /\ UNCHANGED <<use, ret, reading, all, child_error, status, ended>>
      /\ cmd' = <<>>
  BY DEF Run, Forkexec, wait_vars, Done, Waits, Goto
<1>1. /\ code' \in [Handle -> {Closed, Running} \cup ExitCodes]
      /\ code'[h] = Running /\ \A g \in Handle \ {h} : code'[g] = code[g]
      /\ Running # Closed /\ Running \notin ExitCodes /\ Closed \notin ExitCodes
  <2>1. Running # Closed /\ Running \notin ExitCodes /\ Closed \notin ExitCodes
    BY TableAssumption DEF Running, Closed
  <2> QED
    BY <1>0, <2>1 DEF Types
<1>2. h \notin Entries
  BY <1>0 DEF Entries, Table
<1>3. h \notin Positive(pids) /\ Positive(pids) = Entries
  BY <1>0, <1>2 DEF Agreed, Waited
<1>4. UNCHANGED <<pos, lineno, eof>>
  BY <1>0 DEF reading
<1>5. \A c \in ended : Accounted(c) => Accounted(c)'
  <2> SUFFICES ASSUME NEW c \in ended, Accounted(c) PROVE Accounted(c)'
    OBVIOUS
  <2>1. \A g \in Handle : code[g] = c => code'[g] = c
    BY <1>0, <1>1 DEF Types
  <2>2. pc # "exited" /\ child_error' = child_error
    BY <1>0
  <2> QED
    BY <1>0, <2>1, <2>2 DEF Accounted
<1>6. \A g \in Handle : code'[g] \in ended \cup {Running, Closed}
  BY <1>1 DEF Codes
<1>7. CASE Free # {}
  <2> DEFINE x == Min(Free)
  <2>1. x \in Index /\ pid[x] = -1
    <3>1. Free \subseteq Nat
      BY TableAssumption DEF Free, Index
    <3>2. x \in Free
      BY <1>7, <3>1, SmallestIsThere
    <3> QED
      BY <3>2 DEF Free
  <2>2. /\ pid' = [pid EXCEPT ![x] = h] /\ pids' = Added(h)
        /\ procs_executing' = procs_executing + 1 /\ pc' = ret
    BY <1>7 DEF Run, Forkexec, Goto
  <2> HIDE DEF x
  <2>3. /\ pids' \in Seq(Handle \cup {0}) /\ Positive(pids)' = Positive(pids) \cup {h}
        /\ \A k, l \in DOMAIN pids' : pids'[k] = pids'[l] /\ pids'[k] # 0 => k = l
    <3>1. Positive(pids)' = Positive(pids')
      BY DEF Positive
    <3> QED
      BY <1>3, <2>2, <3>1, InList
  <2>4. pid' \in [Index -> Handle \cup {-1}] /\ pid'[x] = h
        /\ \A y \in Index \ {x} : pid'[y] = pid[y]
    BY <2>1, <2>2 DEF Types
  <2>5. Entries' = Entries \cup {h}
    BY <2>1, <2>4, Handles DEF Entries
  <2>6. pc' \in {"read", "end"}
    BY <2>2 DEF Control
  <2>7. Types'
    <3>1. pc' \in {"start", "read", "last", "exec", "slot", "fork", "wait", "end", "exited",
                   "replaced"}
      BY <2>6
    <3> QED
      BY <1>0, <1>1, <1>4, <2>3, <2>4, <3>1 DEF Types
  <2>8. Table'
    <3>1. \A y \in Index : pid'[y] = h => y = x
      BY <1>2, <2>4, Handles DEF Entries
    <3>2. \A y, z \in Index : pid'[y] = pid'[z] /\ pid'[y] # -1 => y = z
      BY <2>4, <3>1 DEF Table
    <3>3. \A y \in Index : pid'[y] # -1 => code'[pid'[y]] # Closed
      <4> SUFFICES ASSUME NEW y \in Index, pid'[y] # -1 PROVE code'[pid'[y]] # Closed
        OBVIOUS
      <4>1. CASE y = x
        BY <1>1, <2>4, <4>1
      <4>2. CASE y # x
        <5>1. pid'[y] = pid[y] /\ pid[y] \in Handle /\ pid[y] # h
          BY <2>4, <3>1, <4>2 DEF Types
        <5> QED
          BY <1>1, <5>1 DEF Table
      <4> QED
        BY <4>1, <4>2
    <3> QED
      BY <3>2, <3>3 DEF Table
  <2>9. List'
    <3>1. IsFiniteSet(Positive(pids)') /\ Cardinality(Positive(pids)') = procs_executing + 1
      BY <1>3, <2>3, FS_AddElement DEF List
    <3>2. use.proc_max # 0 => procs_executing < use.proc_max
      BY <1>0 DEF List
    <3>3. use.proc_max # 0 => procs_executing + 1 <= use.proc_max
      <4>1. procs_executing \in Nat /\ use.proc_max \in Nat
        BY FS_CardinalityType, UsesAssumption DEF List, Types
      <4> QED
        BY <3>2, <4>1
    <3>4. pc' # "fork" /\ use' = use
      BY <1>0, <2>6
    <3>5. IsFiniteSet(Positive(pids))' /\ procs_executing' = Cardinality(Positive(pids))'
      BY <2>2, <3>1
    <3> QED
      BY <2>2, <2>3, <3>3, <3>4, <3>5 DEF List
  <2>10. Agreed'
    <3>1. Waited' = {}
      BY <1>0 DEF Waited
    <3> QED
      BY <1>3, <2>3, <2>5, <3>1 DEF Agreed
  <2>11. Waits'
    BY <1>0, <2>6 DEF Waits
  <2>12. Codes'
    <3>1. \A g \in Handle : code'[g] # Closed => g \in Entries'
      BY <1>0, <1>1, <2>5 DEF Codes
    <3> QED
      BY <1>0, <1>5, <1>6, <3>1 DEF Codes
  <2>13. Control'
    <3>1. pc' = "end" => AtEnd'
      BY <1>0, <1>4, <2>2 DEF Control, AtEnd
    <3> QED
      BY <1>0, <2>6, <3>1 DEF Control
  <2>14. StatusRight'
    BY <2>6 DEF StatusRight
  <2> QED
    BY <2>7, <2>8, <2>9, <2>10, <2>11, <2>12, <2>13, <2>14
<1>8. CASE Free = {}
  <2>1. pid' = pid /\ pids' = pids /\ procs_executing' = procs_executing /\ pc' = "replaced"
    BY <1>8 DEF Run, Forkexec, Goto, procs
  <2>2. Types'
    BY <1>0, <1>1, <1>4, <2>1 DEF Types
  <2>3. Table'
    <3> SUFFICES ASSUME NEW y \in Index, pid[y] # -1 PROVE code'[pid[y]] # Closed
      BY <2>1 DEF Table
    <3>1. pid[y] \in Handle
      BY DEF Types
    <3> QED
      BY <1>1, <3>1 DEF Table
  <2>4. List'
    BY <1>0, <2>1 DEF List, Positive
  <2>5. Agreed' /\ Control' /\ StatusRight'
    BY <1>0, <2>1 DEF Agreed, Control, StatusRight
  <2>6. Waits'
    BY <1>0, <2>1 DEF Waits
  <2>7. Codes'
    BY <1>0, <1>5, <1>6, <2>1 DEF Codes
  <2> QED
    BY <2>2, <2>3, <2>4, <2>5, <2>6, <2>7
<1> QED
  BY <1>7, <1>8

------------------------------------------------------------------------------
(* Waiting                                                                 *)

\* What the low byte of an exit code makes of xargs.
LEMMA ByteTells ==
  ASSUME process_Status \in 0..255
  PROVE  /\ WEXITSTATUS # 0 <=> process_Status # 0
         /\ Verdict = IF process_Status \in {126, 127} THEN process_Status ELSE 0
<1>1. WEXITSTATUS = IF process_Status > 127 THEN process_Status - 256 ELSE process_Status
  BY DEF WEXITSTATUS
<1>2. /\ WEXITSTATUS # 0 <=> process_Status # 0
      /\ WEXITSTATUS \in {126, 127} <=> process_Status \in {126, 127}
      /\ WEXITSTATUS # 255
      /\ process_Status \in {126, 127} => WEXITSTATUS = process_Status
  BY <1>1
<1> QED
  BY <1>2 DEF Verdict

\* wait_for_proc takes the child off the list.
LEMMA ReapedStep ==
  ASSUME IInv, Reaped
  PROVE  IInv'
<1> USE DEF IInv
<1>0. /\ pc = "wait" /\ wait_pc = "returned" /\ wait_pc' = "idle"
      /\ UNCHANGED <<code, pid, process_Index, loop_Index, waited, process_Status>>
      /\ procs_executing' = procs_executing - 1
      /\ UNCHANGED <<use, ret, reading, command, procs_executed, all, asked, ended>>
  BY DEF Reaped
<1>1. waited \in Handle /\ waited \in Positive(pids) /\ code[waited] = Closed
  BY <1>0, WaitedIsChild
<1> DEFINE S == {k \in DOMAIN pids : pids[k] = waited}
           m == Min(S)
<1>2. m \in DOMAIN pids /\ pids[m] = waited
  <2>1. S # {}
    BY <1>1 DEF Positive
  <2>2. S \subseteq Nat
    BY DEF Types
  <2>3. m \in S
    BY <2>1, <2>2, SmallestIsThere
  <2> QED
    BY <2>3
<1>3. pids' = [pids EXCEPT ![m] = 0]
  BY DEF Reaped
<1> HIDE DEF m, S
<1>4. /\ pids' \in Seq(Handle \cup {0}) /\ DOMAIN pids' = DOMAIN pids
      /\ pids'[m] = 0 /\ \A k \in DOMAIN pids \ {m} : pids'[k] = pids[k]
  BY <1>2, <1>3 DEF Types
<1>5. waited # 0
  BY <1>1, Handles
<1>6. Positive(pids') = Positive(pids) \ {waited}
  <2>1. \A k \in DOMAIN pids : pids[k] = waited => k = m
    BY <1>2, <1>5 DEF List
  <2>2. Positive(pids') \subseteq Positive(pids) \ {waited}
    BY <1>4, <2>1 DEF Positive
  <2>3. Positive(pids) \ {waited} \subseteq Positive(pids')
    BY <1>2, <1>4 DEF Positive
  <2> QED
    BY <2>2, <2>3
<1>7. waited \notin Entries
  BY <1>1 DEF Entries, Table
<1>8. Positive(pids)' = Entries
  <2>1. Positive(pids) = Entries \cup {waited}
    BY <1>0 DEF Agreed, Waited
  <2>2. Positive(pids)' = Positive(pids')
    BY DEF Positive
  <2> QED
    BY <1>6, <1>7, <2>1, <2>2
<1>9. /\ IsFiniteSet(Positive(pids)') /\ Cardinality(Positive(pids)') = procs_executing - 1
      /\ procs_executing \in Nat /\ procs_executing > 0
  <2>1. Positive(pids)' = Positive(pids) \ {waited}
    BY <1>6 DEF Positive
  <2>2. Cardinality(Positive(pids)) \in Nat /\ Cardinality(Positive(pids)) # 0
    BY <1>1, FS_CardinalityType, FS_EmptySet DEF List
  <2> QED
    BY <1>1, <2>1, <2>2, FS_RemoveElement DEF List
<1>10. process_Status \in 0..255
  BY DEF Types
<1>11. /\ pc' = IF process_Status \in {126, 127} THEN "exited" ELSE IF all THEN "end" ELSE "fork"
       /\ status' = IF process_Status \in {126, 127} THEN process_Status ELSE status
       /\ child_error' = IF process_Status \notin {0, 126, 127} THEN 123 ELSE child_error
  <2>1. Verdict # 0 <=> process_Status \in {126, 127}
    BY <1>10, ByteTells
  <2>2. child_error' = IF process_Status \notin {0, 126, 127} THEN 123 ELSE child_error
    BY <1>10, <2>1, ByteTells DEF Reaped
  <2>3. CASE process_Status \in {126, 127}
    <3>1. Verdict = process_Status
      BY <1>10, <2>3, ByteTells
    <3> QED
      BY <2>1, <2>2, <2>3, <3>1 DEF Reaped, Exit
  <2>4. CASE process_Status \notin {126, 127}
    BY <2>1, <2>2, <2>4 DEF Reaped, Goto
  <2> QED
    BY <2>3, <2>4
<1>12. UNCHANGED <<pos, lineno, eof, cmd>>
  BY <1>0 DEF reading, command
<1>13. Types'
  <2>1. status' \in 0..127
    BY <1>11 DEF Types
  <2>2. child_error' \in {0, 123}
    BY <1>11 DEF Types
  <2>3. pc' \in {"start", "read", "last", "exec", "slot", "fork", "wait", "end", "exited",
                 "replaced"}
    BY <1>11
  <2> QED
    BY <1>0, <1>4, <1>12, <2>1, <2>2, <2>3 DEF Types
<1>14. Table'
  BY <1>0 DEF Table
<1>15. List'
  <2>1. \A k, l \in DOMAIN pids' : pids'[k] = pids'[l] /\ pids'[k] # 0 => k = l
    BY <1>4 DEF List
  <2>2. use.proc_max # 0 => procs_executing - 1 < use.proc_max
    <3>1. use.proc_max \in Nat
      BY UsesAssumption DEF Types
    <3>2. use.proc_max # 0 => procs_executing <= use.proc_max
      BY DEF List
    <3> QED
      BY <1>9, <3>1, <3>2
  <2>3. use.proc_max # 0 => procs_executing - 1 <= use.proc_max
    <3>1. use.proc_max \in Nat
      BY UsesAssumption DEF Types
    <3> QED
      BY <1>9, <2>2, <3>1
  <2>4. IsFiniteSet(Positive(pids))' /\ procs_executing' = Cardinality(Positive(pids))'
    BY <1>0, <1>9
  <2> QED
    BY <1>0, <2>1, <2>2, <2>3, <2>4 DEF List
<1>16. Agreed'
  <2>1. Waited' = {} /\ Entries' = Entries
    BY <1>0 DEF Waited, Entries
  <2> QED
    BY <1>8, <2>1 DEF Agreed
<1>17. Waits'
  <2>1. pc' # "wait"
    BY <1>11
  <2> QED
    BY <1>0, <2>1 DEF Waits
<1>18. Codes'
  <2>1. \A c \in ended : Accounted(c)'
    <3> SUFFICES ASSUME NEW c \in ended PROVE Accounted(c)'
      OBVIOUS
    <3>1. Accounted(c)
      BY DEF Codes
    <3>2. CASE c % 256 = 0
      BY <3>2 DEF Accounted
    <3>3. CASE c % 256 \notin {126, 127} /\ child_error = 123
      BY <1>11, <3>3 DEF Accounted
    <3>4. CASE \E h \in Handle : code[h] = c
      BY <1>0, <3>4 DEF Accounted
    <3>5. CASE process_Status = c % 256
      <4>1. CASE process_Status \in {126, 127}
        BY <1>11, <4>1 DEF Accounted
      <4>2. CASE process_Status \notin {126, 127}
        BY <1>11, <3>5, <4>2 DEF Accounted
      <4> QED
        BY <4>1, <4>2
    <3> QED
      BY <1>0, <3>1, <3>2, <3>3, <3>4, <3>5 DEF Accounted
  <2>2. Entries' = Entries
    BY <1>0 DEF Entries
  <2>3. child_error' = 123 => \E c \in ended : c % 256 # 0
    <3>1. CASE process_Status \in {0, 126, 127}
      BY <1>11, <3>1 DEF Codes
    <3>2. CASE process_Status \notin {0, 126, 127}
      BY <1>0, <3>2 DEF Codes
    <3> QED
      BY <3>1, <3>2
  <2> QED
    BY <1>0, <2>1, <2>2, <2>3 DEF Codes
<1>19. Control'
  <2>1. pc' \in {"exited", "end", "fork"} /\ (pc' = "end" => all) /\ (pc' = "fork" => ~all)
    BY <1>11 DEF Control
  <2>2. AtEnd' = AtEnd
    BY <1>0, <1>12 DEF AtEnd
  <2> QED
    BY <1>0, <1>12, <2>1, <2>2 DEF Control
<1>20. StatusRight'
  <2> SUFFICES ASSUME pc' = "exited" PROVE StatusRight'
    BY DEF StatusRight
  <2>1. status' = process_Status /\ process_Status \in {126, 127}
    BY <1>11
  <2>2. \E c \in ended' : c % 256 = status'
    BY <1>0, <2>1 DEF Codes
  <2> QED
    BY <2>1, <2>2 DEF StatusRight
<1> QED
  BY <1>13, <1>14, <1>15, <1>16, <1>17, <1>18, <1>19, <1>20

\* The index goes on, and the loop ends after as many entries as there are.
LEMMA NextEntryIn ==
  ASSUME process_Index \in Index, loop_Index \in Index, NEW then, NextEntry(then)
  PROVE  /\ process_Index' \in Index /\ loop_Index' \in Index
         /\ wait_pc' \in {wait_pc, then}
<1>1. ProcessMax \in Nat \ {0}
  BY TableAssumption
<1>2. process_Index' \in Index
  <2>1. process_Index + 1 \in 1..ProcessMax /\ process_Index' = (process_Index + 1) % ProcessMax
    BY <1>1 DEF Index, NextEntry
  <2> QED
    BY <1>1, <2>1 DEF Index
<1>3. loop_Index' \in Index
  BY <1>1 DEF Index, NextEntry
<1> QED
  BY <1>2, <1>3 DEF NextEntry

\* wait () looks for a dead child, and takes it from the table.
LEMMA WaitingStep ==
  ASSUME IInv, Waiting
  PROVE  IInv'
<1> USE DEF IInv
<1>0. /\ UNCHANGED <<use, pc, ret, pos, lineno, eof, cmd, pids, procs_executing, all>>
      /\ UNCHANGED <<child_error, status, ended>>
  BY DEF Waiting, xargs_vars, reading, command, procs, outcome
<1>1. wait_pc \in {"sigchld", "any"} /\ pc = "wait" /\ Positive(pids) # {}
  BY DEF Waiting, CheckSigchld, GetStatusAny, Waits
<1>2. Positive(pids) = Entries /\ Positive(pids)' = Positive(pids)
  BY <1>0, <1>1 DEF Agreed, Waited, Positive
<1>3. process_Index \in Index /\ loop_Index \in Index /\ 0 \in Index
  BY TableAssumption DEF Types, Index
<1>4. List' /\ Control' /\ StatusRight'
  <2>1. AtEnd' = AtEnd
    BY <1>0 DEF AtEnd
  <2> QED
    BY <1>0, <1>1, <1>2, <2>1 DEF List, Control, StatusRight
<1>5. CASE /\ UNCHANGED <<code, pid, process_Status>>
           /\ waited' \in {waited, -1} /\ wait_pc' \in {"sigchld", "any"}
           /\ process_Index' \in Index /\ loop_Index' \in Index
  <2>1. Types'
    BY <1>0, <1>5 DEF Types
  <2>2. Table'
    BY <1>5 DEF Table
  <2>3. Entries' = Entries /\ Waited' = {}
    BY <1>5 DEF Entries, Waited
  <2>4. Agreed'
    BY <1>2, <2>3 DEF Agreed
  <2>5. Waits'
    BY <1>0, <1>1, <1>2, <1>5 DEF Waits
  <2>6. Codes'
    <3>1. \A c \in ended : Accounted(c) => Accounted(c)'
      BY <1>0, <1>1, <1>5 DEF Accounted
    <3> QED
      BY <1>0, <1>5, <2>3, <3>1 DEF Codes
  <2> QED
    BY <1>4, <2>1, <2>2, <2>4, <2>5, <2>6
<1>6. CASE CheckSigchld
  <2>1. Free # Index
    BY <1>1, <1>2 DEF Entries, Free
  <2>2. CASE Found
    BY <1>3, <1>5, <1>6, <2>2 DEF CheckSigchld
  <2>3. CASE ~Found
    <3>1. NextEntry("any") /\ waited' = -1 /\ UNCHANGED <<code, pid, process_Status>>
      BY <1>6, <2>1, <2>3 DEF CheckSigchld
    <3> QED
      BY <1>1, <1>3, <1>5, <3>1, NextEntryIn
  <2> QED
    BY <2>2, <2>3
<1>7. CASE GetStatusAny /\ ~Found
  <2>1. NextEntry("sigchld") /\ UNCHANGED <<code, pid, waited, process_Status>>
    BY <1>7 DEF GetStatusAny
  <2> QED
    BY <1>1, <1>3, <1>5, <2>1, NextEntryIn
<1>8. CASE GetStatusAny /\ Found
  <2> DEFINE h == pid[process_Index]
  <2>1. /\ waited' = h /\ process_Status' = code[h] % 256
        /\ pid' = [pid EXCEPT ![process_Index] = -1]
        /\ code' = [code EXCEPT ![h] = Closed]
        /\ wait_pc' = "returned" /\ UNCHANGED <<process_Index, loop_Index>>
    BY <1>8 DEF GetStatusAny
  <2>2. h # -1 /\ h \in Handle /\ code[h] # Running /\ code[h] # Closed
    BY <1>3, <1>8 DEF Found, GetExitCode, Types, Table
  <2>3. code[h] \in ExitCodes /\ code[h] \in ended /\ code[h] \in Nat
    <3>1. code[h] \in ended \cup {Running, Closed}
      BY <2>2 DEF Codes
    <3>2. code[h] \in ended
      BY <2>2, <3>1
    <3>3. ended \subseteq ExitCodes
      BY DEF Types
    <3> HIDE DEF h
    <3>4. code[h] \in ExitCodes
      BY <3>2, <3>3
    <3>5. ExitCodes \subseteq Nat
      BY TableAssumption
    <3> QED
      BY <3>2, <3>4, <3>5
  <2> HIDE DEF h
  <2>4. process_Status' \in 0..255
    <3> DEFINE c == code[h]
    <3>1. c \in Nat
      BY <2>3
    <3> HIDE DEF c
    <3>2. c % 256 \in 0..255
      BY <3>1
    <3> QED
      BY <2>1, <3>2 DEF c
  <2>5. /\ pid' \in [Index -> Handle \cup {-1}] /\ pid'[process_Index] = -1
        /\ \A y \in Index \ {process_Index} : pid'[y] = pid[y]
        /\ code' \in [Handle -> {Closed, Running} \cup ExitCodes] /\ code'[h] = Closed
        /\ \A g \in Handle \ {h} : code'[g] = code[g]
    BY <1>3, <2>1, <2>2 DEF Types
  <2>6. \A y \in Index : pid[y] = h => y = process_Index
    BY <1>3, <2>2 DEF Table, h
  <2>7. Types'
    BY <1>0, <1>3, <2>1, <2>2, <2>4, <2>5 DEF Types
  <2>8. Table'
    <3>1. \A y, z \in Index : pid'[y] = pid'[z] /\ pid'[y] # -1 => y = z
      BY <2>5 DEF Table
    <3>2. ASSUME NEW y \in Index, pid'[y] # -1 PROVE code'[pid'[y]] # Closed
      <4>1. y # process_Index /\ pid'[y] = pid[y] /\ pid[y] # h /\ pid[y] \in Handle
        BY <2>5, <2>6, <3>2 DEF Types
      <4> QED
        BY <2>5, <3>2, <4>1 DEF Table
    <3> QED
      BY <3>1, <3>2 DEF Table
  <2>9. Entries' = Entries \ {h} /\ h \in Entries
    <3>1. h \in Entries
      BY <1>3, <2>2 DEF Entries, h
    <3>2. Entries' = {pid'[y] : y \in Index} \ {-1}
      BY DEF Entries
    <3> QED
      BY <2>2, <2>5, <2>6, <3>1, <3>2 DEF Entries
  <2>10. Agreed'
    <3>1. Waited' = {h}
      BY <2>1 DEF Waited
    <3> QED
      BY <1>2, <2>9, <3>1 DEF Agreed
  <2>11. Waits'
    BY <1>0, <1>1, <1>2, <2>1, <2>5 DEF Waits
  <2>12. Codes'
    <3>1. \A c \in ended : Accounted(c)'
      <4> SUFFICES ASSUME NEW c \in ended PROVE Accounted(c)'
        OBVIOUS
      <4>1. Accounted(c)
        BY DEF Codes
      <4>2. ASSUME NEW g \in Handle, code[g] = c PROVE Accounted(c)'
        <5>1. CASE g = h
          BY <2>1, <4>2, <5>1 DEF Accounted
        <5>2. CASE g # h
          BY <2>5, <4>2, <5>2 DEF Accounted
        <5> QED
          BY <5>1, <5>2
      <4> QED
        BY <1>0, <1>1, <4>1, <4>2 DEF Accounted
    <3>2. \A g \in Handle : code'[g] \in ended \cup {Running, Closed}
      BY <2>5 DEF Codes
    <3>3. \A g \in Handle : code'[g] # Closed => g \in Entries'
      BY <1>1, <2>5, <2>9 DEF Codes
    <3>4. \E c \in ended : process_Status' = c % 256
      BY <2>1, <2>3
    <3> QED
      BY <1>0, <3>1, <3>2, <3>3, <3>4 DEF Codes
  <2> QED
    BY <1>4, <2>7, <2>8, <2>10, <2>11, <2>12
<1> QED
  BY <1>6, <1>7, <1>8 DEF Waiting

\* A command ends.
LEMMA CommandEndsStep ==
  ASSUME IInv, NEW h \in Handle, CommandEnds(h)
  PROVE  IInv'
<1> USE DEF IInv
<1>0. /\ UNCHANGED <<use, pc, ret, pos, lineno, eof, cmd, pids, procs_executing, all>>
      /\ UNCHANGED <<child_error, status, pid, process_Index, wait_pc, loop_Index, waited>>
      /\ process_Status' = process_Status
      /\ code[h] = Running /\ ended' = ended \cup {code'[h]}
  BY DEF CommandEnds, ProcessExits, wait_vars, xargs_vars, reading, command, procs, outcome
<1>1. PICK e \in ExitCodes : code' = [code EXCEPT ![h] = e]
  BY DEF CommandEnds, ProcessExits
<1>2. /\ code' \in [Handle -> {Closed, Running} \cup ExitCodes]
      /\ code'[h] = e /\ \A g \in Handle \ {h} : code'[g] = code[g]
      /\ e \in Nat /\ e # Closed /\ Running # Closed
  <2>1. e \in Nat /\ e # Closed /\ Running # Closed
    BY TableAssumption DEF Closed, Running
  <2> QED
    BY <1>1, <2>1 DEF Types
<1>3. Types'
  BY <1>0, <1>2 DEF Types
<1>4. Table'
  <2>1. ASSUME NEW x \in Index, pid[x] # -1 PROVE code'[pid[x]] # Closed
    <3>1. pid[x] \in Handle
      BY <2>1 DEF Types
    <3> QED
      BY <1>2, <2>1, <3>1 DEF Table
  <2> QED
    BY <1>0, <2>1 DEF Table
<1>5. List' /\ Agreed'
  BY <1>0 DEF List, Agreed, Positive, Entries, Waited
<1>6. Waits'
  <2>1. wait_pc = "returned" /\ waited # -1 => waited # h
    BY <1>0, <1>2 DEF Waits
  <2>2. waited \in Handle \cup {-1}
    BY DEF Types
  <2>3. wait_pc = "returned" /\ waited # -1 => code'[waited] = Closed
    BY <1>2, <2>1, <2>2 DEF Waits
  <2> QED
    BY <1>0, <2>3 DEF Waits, Positive
<1>7. Codes'
  <2>1. \A c \in ended' : Accounted(c)'
    <3> SUFFICES ASSUME NEW c \in ended' PROVE Accounted(c)'
      OBVIOUS
    <3>1. CASE c = e
      BY <1>2, <3>1 DEF Accounted
    <3>2. CASE c # e
      <4>1. c \in ended /\ Accounted(c)
        BY <1>0, <1>2, <3>2 DEF Codes
      <4>2. c # Running
        BY <4>1, TableAssumption DEF Types, Running
      <4>3. \A g \in Handle : code[g] = c => code'[g] = c
        BY <1>0, <1>2, <4>2
      <4> QED
        BY <1>0, <4>1, <4>3 DEF Accounted
    <3> QED
      BY <3>1, <3>2
  <2>2. Entries' = Entries
    BY <1>0 DEF Entries
  <2>3. \A g \in Handle : code'[g] \in ended' \cup {Running, Closed}
    BY <1>0, <1>2 DEF Codes
  <2>4. pc # "replaced" => \A g \in Handle : code'[g] # Closed => g \in Entries
    BY <1>0, <1>2 DEF Codes
  <2>5. wait_pc = "returned" => \E c \in ended' : process_Status = c % 256
    BY <1>0 DEF Codes
  <2>6. child_error = 123 => \E c \in ended' : c % 256 # 0
    BY <1>0 DEF Codes
  <2> QED
    BY <1>0, <2>1, <2>2, <2>3, <2>4, <2>5, <2>6 DEF Codes
<1>8. Control'
  <2>1. AtEnd' = AtEnd
    BY <1>0 DEF AtEnd
  <2> QED
    BY <1>0, <2>1 DEF Control
<1>9. StatusRight'
  <2> SUFFICES ASSUME pc = "exited" PROVE StatusRight'
    BY <1>0 DEF StatusRight
  <2>1. status \notin {0, 123}
    BY <1>0, <1>2 DEF StatusRight
  <2>2. status \in {1, 126, 127}
    BY <2>1 DEF StatusRight
  <2>3. status \in {126, 127} => \E c \in ended' : c % 256 = status
    BY <1>0 DEF StatusRight
  <2> QED
    BY <1>0, <2>1, <2>2, <2>3 DEF StatusRight
<1> QED
  BY <1>3, <1>4, <1>5, <1>6, <1>7, <1>8, <1>9

------------------------------------------------------------------------------
LEMMA Initially == Init => IInv
<1> SUFFICES ASSUME Init PROVE IInv
  OBVIOUS
<1> USE DEF Init, ProcessInit
<1>1. 0 \in Index
  BY TableAssumption DEF Index
<1>2. Positive(pids) = {} /\ Entries = {} /\ Waited = {}
  BY DEF Positive, Entries, Waited
<1>3. Types
  <2>1. Len(use.input) \in Nat
    BY UsesAssumption
  <2>2. 1 \in 1..(Len(use.input) + 1)
    BY <2>1
  <2>3. pids \in Seq(Handle \cup {0})
    OBVIOUS
  <2> QED
    BY <1>1, <2>2, <2>3 DEF Types
<1>4. Table /\ Agreed /\ Waits /\ Control /\ StatusRight
  BY <1>2 DEF Table, Agreed, Waits, Control, StatusRight
<1>5. List
  <2>1. use.proc_max \in Nat
    BY UsesAssumption
  <2>2. \A k, l \in DOMAIN pids : pids[k] = pids[l] /\ pids[k] # 0 => k = l
    OBVIOUS
  <2>3. use.proc_max # 0 => procs_executing <= use.proc_max
    BY <2>1
  <2> QED
    BY <1>2, <2>2, <2>3, FS_EmptySet DEF List
<1>6. Codes
  BY DEF Codes
<1> QED
  BY <1>3, <1>4, <1>5, <1>6 DEF IInv

LEMMA Step == IInv /\ [Next]_vars => IInv'
<1> SUFFICES ASSUME IInv, [Next]_vars PROVE IInv'
  OBVIOUS
<1>1. CASE XargsStep
  <2>1. CASE Reading
    BY <2>1, ReadingStep
  <2>2. CASE Slot \/ RunFails \/ WaitForAll
    BY <2>2, SlotStep
  <2>3. CASE \E h \in Handle : Run(h)
    BY <2>3, RunStep
  <2>4. CASE Reaped
    BY <2>4, ReapedStep
  <2> QED
    BY <1>1, <2>1, <2>2, <2>3, <2>4 DEF XargsStep, Reading
<1>2. CASE UNCHANGED vars
  <2>1. UNCHANGED <<code, pid, process_Index, wait_pc, loop_Index, waited, process_Status, use,
                    pc, ret, pos, lineno, eof, cmd, pids, procs_executing, all, child_error,
                    status, ended>>
    BY <1>2 DEF vars, process_vars, reading, command, procs, outcome
  <2>2. AtEnd' = AtEnd /\ Entries' = Entries /\ Positive(pids)' = Positive(pids) /\ Waited' = Waited
    BY <2>1 DEF AtEnd, Entries, Positive, Waited
  <2>3. \A c \in ended : Accounted(c)' = Accounted(c)
    BY <2>1 DEF Accounted
  <2>4. Types' /\ Table' /\ List' /\ Agreed' /\ Waits'
    BY <2>1, <2>2 DEF IInv, Types, Table, List, Agreed, Waits
  <2>5. Codes' /\ Control' /\ StatusRight'
    BY <2>1, <2>2, <2>3 DEF IInv, Codes, Control, StatusRight
  <2> QED
    BY <2>4, <2>5 DEF IInv
<1> QED
  BY <1>1, <1>2, WaitingStep, CommandEndsStep DEF Next, Finished

\* The list of xargs and the table of Downhill agree on the children for every input,
\* option, size of the table, reuse of handles and failure to start: wait () never fails for
\* want of a child nor returns one that xargs does not know, and -P is kept.
THEOREM TypeCorrect == Spec => []TypeOK
<1> QED
  BY Initially, Step, Implied, PTL DEF Spec

\* The exit status is 0 or 123 only when the input was read to its end and every command
\* has been waited for, and is 123 if and only if one failed; 126 and 127 only if a command
\* ended so.
THEOREM StatusCorrect == Spec => []StatusRight
<1> QED
  BY Initially, Step, Implied, PTL DEF Spec
------------------------------------------------------------------------------
(* Sums                                                                    *)

\* f holds the sums of the beginnings of s.
Sums(s, n, f) == f[0] = 0 /\ \A k \in 1..n : f[k] = f[k - 1] + s[k]

LEMMA SumsExist ==
  ASSUME NEW s \in Seq(Int)
  PROVE  \E f \in [0..Len(s) -> Int] : Sums(s, Len(s), f)
<1> DEFINE len == Len(s)
           bad == {n \in 0..len : ~ \E f \in [0..n -> Int] : Sums(s, n, f)}
<1>0. len \in Nat /\ \A k \in 1..len : s[k] \in Int
  OBVIOUS
<1> HIDE DEF len
<1>1. SUFFICES ASSUME bad # {} PROVE FALSE
  <2>1. len \in 0..len
    BY <1>0
  <2> QED
    BY <2>1 DEF len
<1>2. PICK n \in bad : \A m \in bad : n <= m
  <2>1. bad \subseteq Nat
    BY <1>0
  <2> QED
    BY <1>1, <2>1, Smallest
<1>3. CASE n = 0
  <2> DEFINE f == [k \in 0..0 |-> 0]
  <2>1. f \in [0..n -> Int] /\ f[0] = 0
    BY <1>3
  <2>2. \A k \in 1..n : FALSE
    BY <1>3
  <2> QED
    BY <2>1, <2>2 DEF Sums
<1>4. CASE n # 0
  <2>1. n \in Nat /\ n <= len /\ n - 1 \in 0..len /\ n - 1 \notin bad
    BY <1>0, <1>2, <1>4
  <2>2. PICK g \in [0..(n - 1) -> Int] : Sums(s, n - 1, g)
    BY <2>1
  <2> DEFINE f == [k \in 0..n |-> IF k = n THEN g[n - 1] + s[n] ELSE g[k]]
  <2>3. n \in 1..len /\ n - 1 \in 0..(n - 1) /\ s[n] \in Int /\ g[n - 1] \in Int
    BY <1>0, <1>4, <2>1
  <2>4. f \in [0..n -> Int]
    BY <2>1, <2>3
  <2>5. f[0] = 0
    BY <1>4, <2>1, <2>2 DEF Sums
  <2>6. \A k \in 1..n : f[k] = f[k - 1] + s[k]
    <3> TAKE k \in 1..n
    <3>1. k \in 0..n /\ k - 1 \in 0..n /\ k - 1 # n
      BY <2>1
    <3>2. f[k - 1] = g[k - 1]
      BY <3>1
    <3>3. CASE k = n
      BY <3>1, <3>2, <3>3
    <3>4. CASE k # n
      <4>1. k \in 1..(n - 1)
        BY <2>1, <3>4
      <4> QED
        BY <2>2, <3>1, <3>2, <3>4, <4>1 DEF Sums
    <3> QED
      BY <3>3, <3>4
  <2> QED
    BY <2>4, <2>5, <2>6 DEF Sums
<1> QED
  BY <1>3, <1>4

LEMMA SumsUnique ==
  ASSUME NEW s, NEW n \in Nat, NEW f, NEW g, Sums(s, n, f), Sums(s, n, g)
  PROVE  \A k \in 0..n : f[k] = g[k]
<1> DEFINE bad == {k \in 0..n : f[k] # g[k]}
<1>1. SUFFICES ASSUME bad # {} PROVE FALSE
  OBVIOUS
<1>2. PICK k \in bad : \A m \in bad : k <= m
  <2>1. bad \subseteq Nat
    OBVIOUS
  <2> QED
    BY <1>1, <2>1, Smallest
<1>3. k # 0
  BY <1>2 DEF Sums
<1>4. k \in 1..n /\ k - 1 \in 0..n /\ k - 1 \notin bad
  BY <1>2, <1>3
<1> QED
  BY <1>2, <1>4 DEF Sums

LEMMA TotalIs ==
  ASSUME NEW s \in Seq(Int), NEW f, Sums(s, Len(s), f)
  PROVE  Total(s) = f[Len(s)]
<1> DEFINE len == Len(s)
           Upto(u) == u = [n \in 0..len |-> IF n = 0 THEN 0 ELSE u[n - 1] + s[n]]
<1>0. len \in Nat
  OBVIOUS
<1>1. Total(s) = (CHOOSE u : Upto(u))[len]
  BY DEF Total
<1>2. PICK g \in [0..len -> Int] : Sums(s, len, g)
  BY SumsExist
<1> HIDE DEF len
<1>3. Upto(g)
  <2>1. \A n \in 0..len : n # 0 => n \in 1..len
    BY <1>0
  <2>2. \A n \in 0..len : g[n] = IF n = 0 THEN 0 ELSE g[n - 1] + s[n]
    BY <1>2, <2>1 DEF Sums
  <2>3. g = [n \in 0..len |-> g[n]]
    BY <1>2
  <2> QED
    BY <2>2, <2>3
<1>4. \A u : Upto(u) => Sums(s, len, u)
  <2> SUFFICES ASSUME NEW u, Upto(u) PROVE Sums(s, len, u)
    OBVIOUS
  <2>1. \A n \in 0..len : u[n] = IF n = 0 THEN 0 ELSE u[n - 1] + s[n]
    OBVIOUS
  <2>2. 0 \in 0..len /\ \A n \in 1..len : n \in 0..len /\ n # 0
    BY <1>0
  <2> QED
    BY <2>1, <2>2 DEF Sums
<1> HIDE DEF Upto
<1>5. Upto(CHOOSE u : Upto(u))
  BY <1>3
<1>6. Sums(s, len, CHOOSE u : Upto(u))
  BY <1>4, <1>5
<1>7. Sums(s, len, f)
  BY DEF len
<1>8. \A k \in 0..len : (CHOOSE u : Upto(u))[k] = f[k]
  BY <1>0, <1>6, <1>7, SumsUnique
<1>9. len \in 0..len
  BY <1>0
<1> QED
  BY <1>1, <1>8, <1>9 DEF len

LEMMA TotalEmpty == Total(<<>>) = 0
<1> DEFINE f == [k \in 0..0 |-> 0]
<1>1. <<>> \in Seq(Int) /\ Len(<<>>) = 0
  OBVIOUS
<1>2. Sums(<<>>, 0, f) /\ f[0] = 0
  BY DEF Sums
<1> QED
  BY <1>1, <1>2, TotalIs

LEMMA TotalInt ==
  ASSUME NEW s \in Seq(Int)
  PROVE  Total(s) \in Int
<1>1. PICK f \in [0..Len(s) -> Int] : Sums(s, Len(s), f)
  BY SumsExist
<1>2. Len(s) \in 0..Len(s)
  OBVIOUS
<1> QED
  BY <1>1, <1>2, TotalIs

LEMMA TotalAppend ==
  ASSUME NEW s \in Seq(Int), NEW x \in Int
  PROVE  Total(Append(s, x)) = Total(s) + x
<1> DEFINE t == Append(s, x)
           len == Len(s)
<1>1. t \in Seq(Int) /\ Len(t) = len + 1 /\ t[len + 1] = x /\ len \in Nat
  OBVIOUS
<1>2. \A k \in 1..len : t[k] = s[k]
  OBVIOUS
<1>3. PICK f \in [0..Len(t) -> Int] : Sums(t, Len(t), f)
  BY <1>1, SumsExist
<1>4. Total(t) = f[Len(t)]
  BY <1>1, <1>3, TotalIs
<1> HIDE DEF t, len
<1>5. Sums(s, len, f)
  <2>1. \A k \in 1..len : k \in 1..(len + 1)
    BY <1>1
  <2> QED
    BY <1>1, <1>2, <1>3, <2>1 DEF Sums
<1>6. Total(s) = f[len]
  BY <1>5, TotalIs DEF len
<1>7. f[len + 1] = f[len + 1 - 1] + t[len + 1]
  <2>1. len + 1 \in 1..(len + 1)
    BY <1>1
  <2> QED
    BY <1>1, <1>3, <2>1 DEF Sums
<1> QED
  BY <1>1, <1>4, <1>6, <1>7 DEF t

------------------------------------------------------------------------------
(* What the commands are made of                                           *)

\* Where a command is being built, and where it is being run.
Building == pc \in {"start", "read", "last", "exec"}
Starting == pc \in {"slot", "fork"} \/ (pc = "wait" /\ ~all)
Ending == pc \in {"end", "replaced"} \/ (pc = "wait" /\ all)

\* The arguments read are those of the commands asked about and, after them, of the one
\* that is being built; or that one is already among those.
Sequel ==
  /\ Passed(asked) = 1..(pos - 1 - Len(cmd))
  /\ \A k \in 1..Len(cmd) : cmd[k] = pos - 1 - Len(cmd) + k
Begun == asked # <<>> /\ Last(asked) = cmd /\ Passed(asked) = 1..(pos - 1)
Order ==
  /\ cmd \in Seq(Nat) /\ asked \in Seq(Seq(Nat)) /\ Len(cmd) <= pos - 1
  /\ Ascending(asked)
  /\ Building => Sequel
  /\ Starting => Begun
  /\ Ending => cmd = <<>> /\ Sequel
  /\ pc = "exited" => Sequel \/ Begun

\* The command fits in -s and -n.
Fits ==
  /\ pc \notin {"start", "exited"} /\ ~use.i => initial_argv_chars <= use.arg_max
  /\ pc = "start" => cmd = <<>>
  /\ Building /\ ~use.i => cmd_argv_chars = Size(cmd)
  /\ pc \in {"read", "last", "exec"} /\ ~use.i => Size(cmd) <= use.arg_max
  /\ use.args_per_exec # 0 => Len(cmd) <= use.args_per_exec
  /\ use.i /\ pc = "exec" => Len(cmd) = 1
  /\ pc = "last" => ~use.i
  /\ pc = "exec" \/ Starting => (ret = "end" => ~use.i)

\* With -l: lineno counts the lines that end in the command, ...
Counted ==
  Lines(cmd) = lineno + (IF cmd # <<>> /\ use.input[pos - 1].ends # "line" THEN 1 ELSE 0)
LineStart == lineno = 0 /\ (LineBegins(pos) \/ AtEnd)
Lined ==
  /\ ~AtEnd /\ ~use.i => first = LineBegins(pos)
  /\ use.lines_per_exec # 0 =>
       /\ pc \in {"read", "last", "exec"} => Lines(cmd) <= use.lines_per_exec
       /\ pc = "read" => lineno < use.lines_per_exec
       /\ pc = "read" /\ ~AtEnd => Counted
       /\ pc = "read" /\ cmd = <<>> => LineStart
       /\ pc = "start" => LineStart
       /\ pc = "exec" \/ Starting => (ret = "read" => LineStart)

FullCommand(c) == FullArgs(c) \/ FullLines(c) \/ FullSize(c)
Follows ==
  ~use.i =>
    /\ \A j \in 1..(Len(asked) - 1) : asked[j + 1] # <<>> => FullCommand(asked[j])
    /\ pc = "exec" \/ Starting => (ret = "read" => cmd # <<>> /\ (FullCommand(cmd) \/ AtEnd))
    /\ Building /\ asked # <<>> => FullCommand(Last(asked)) \/ (AtEnd /\ cmd = <<>>)

Within(c) ==
  /\ use.i => Len(c) = 1
  /\ ~use.i => Size(c) <= use.arg_max
  /\ use.args_per_exec # 0 => Len(c) <= use.args_per_exec
  /\ use.lines_per_exec # 0 => Lines(c) <= use.lines_per_exec
Alone ==
  /\ \A j \in DOMAIN asked : asked[j] # <<>> => Within(asked[j])
  /\ \A j \in DOMAIN asked : asked[j] = <<>> =>
       j = Len(asked) /\ ~use.r /\ ~use.i /\ procs_executed <= 1
  /\ Building => \A j \in DOMAIN asked : asked[j] # <<>>
  /\ Starting /\ cmd # <<>> => \A j \in DOMAIN asked : asked[j] # <<>>
  /\ pc = "exec" \/ Starting => (cmd = <<>> => ret = "end" /\ ~use.r /\ procs_executed = 0)

BInv == Order /\ Fits /\ Lined /\ Follows /\ Alone

LEMMA Initial ==
  ASSUME use \in Uses
  PROVE  /\ initial_argv_chars \in Int
         /\ use.input \in Seq([len : Nat, ends : {"blank", "line", "input"}, eof : BOOLEAN])
         /\ \A k \in DOMAIN use.input : use.input[k].len \in Nat
         /\ Len(use.input) \in Nat /\ DOMAIN use.input = 1..Len(use.input)
         /\ use.arg_max \in Nat /\ use.args_per_exec \in Nat /\ use.lines_per_exec \in Nat
         /\ use.lines_per_exec # 0 => ~use.i /\ use.args_per_exec = 0
         /\ use.i => use.args_per_exec = 0
<1>1. /\ use.input \in Seq([len : Nat, ends : {"blank", "line", "input"}, eof : BOOLEAN])
      /\ use.initial \in Seq([len : Nat, pats : Nat])
      /\ {use.arg_max, use.args_per_exec, use.lines_per_exec, use.proc_max} \subseteq Nat
  BY UsesAssumption
<1>2. [k \in 1..Len(use.initial) |-> use.initial[k].len] \in Seq(Int)
  <2> DEFINE s == use.initial
             R == [len : Nat, pats : Nat]
  <2>1. s \in Seq(R) /\ \A r \in R : r.len \in Int
    BY <1>1
  <2> HIDE DEF s, R
  <2>2. \A k \in 1..Len(s) : s[k].len \in Int
    BY <2>1
  <2>3. Len(s) \in Nat /\ use.initial = s
    BY <2>1 DEF s
  <2> QED
    BY <2>2, <2>3
<1>3. initial_argv_chars \in Int
  <2>1. Total([k \in 1..Len(use.initial) |-> use.initial[k].len]) \in Int
    BY <1>2, TotalInt
  <2> QED
    BY <2>1 DEF initial_argv_chars
<1>4. \A k \in DOMAIN use.input : use.input[k].len \in Nat
  <2> DEFINE s == use.input
             R == [len : Nat, ends : {"blank", "line", "input"}, eof : BOOLEAN]
  <2>1. s \in Seq(R) /\ \A r \in R : r.len \in Nat
    BY <1>1
  <2> HIDE DEF s, R
  <2>2. \A k \in DOMAIN s : s[k].len \in Nat
    BY <2>1
  <2> QED
    BY <2>2 DEF s
<1>5. Len(use.input) \in Nat /\ DOMAIN use.input = 1..Len(use.input)
  BY <1>1
<1>6. /\ use.lines_per_exec # 0 => ~use.i /\ use.args_per_exec = 0
      /\ use.i => use.args_per_exec = 0
  BY UsesAssumption
<1> QED
  BY <1>1, <1>3, <1>4, <1>5, <1>6

\* The size of a command grows by the length of the argument added.
LEMMA Sizes ==
  ASSUME use \in Uses
  PROVE  /\ Size(<<>>) = initial_argv_chars
         /\ \A c \in Seq(DOMAIN use.input) : Size(c) \in Int
         /\ \A c \in Seq(DOMAIN use.input), p \in DOMAIN use.input :
              Size(Append(c, p)) = Size(c) + use.input[p].len
<1> DEFINE len(c) == [k \in 1..Len(c) |-> use.input[c[k]].len]
           D == DOMAIN use.input
<1>0. \A k \in D : use.input[k].len \in Int
  BY Initial
<1>1. ASSUME NEW c \in Seq(D) PROVE len(c) \in Seq(Int)
  <2>1. \A k \in 1..Len(c) : c[k] \in D
    OBVIOUS
  <2> HIDE DEF D
  <2> QED
    BY <1>0, <2>1
<1>2. ASSUME NEW c \in Seq(D), NEW p \in D
      PROVE  len(Append(c, p)) = Append(len(c), use.input[p].len)
  <2> DEFINE n == Len(c)
  <2>1. /\ n \in Nat /\ Len(Append(c, p)) = n + 1 /\ Append(c, p)[n + 1] = p
        /\ \A k \in 1..n : Append(c, p)[k] = c[k]
    OBVIOUS
  <2>2. len(c) \in Seq(Int) /\ Len(len(c)) = n
    BY <1>1
  <2> HIDE DEF n
  <2>3. len(Append(c, p)) = [k \in 1..(n + 1) |-> use.input[Append(c, p)[k]].len]
    BY <2>1
  <2>4. Append(len(c), use.input[p].len)
          = [k \in 1..(n + 1) |-> IF k = n + 1 THEN use.input[p].len ELSE len(c)[k]]
    BY <2>1, <2>2, <1>0
  <2>5. \A k \in 1..(n + 1) :
          use.input[Append(c, p)[k]].len = IF k = n + 1 THEN use.input[p].len ELSE len(c)[k]
    <3> TAKE k \in 1..(n + 1)
    <3>1. CASE k = n + 1
      BY <2>1, <3>1
    <3>2. CASE k # n + 1
      <4>1. k \in 1..n
        BY <2>1, <3>2
      <4>2. k \in 1..Len(c)
        BY <4>1 DEF n
      <4> QED
        BY <2>1, <3>2, <4>1, <4>2
    <3> QED
      BY <3>1, <3>2
  <2> QED
    BY <2>3, <2>4, <2>5
<1>3. \A c : Size(c) = initial_argv_chars + Total(len(c))
  BY DEF Size
<1>4. len(<<>>) = <<>>
  <2>1. Len(<<>>) = 0 /\ \A k \in 1..0 : FALSE
    OBVIOUS
  <2> QED
    BY <2>1
<1>5. \A c \in Seq(D) : Total(len(c)) \in Int
  BY <1>1, TotalInt
<1>6. ASSUME NEW c \in Seq(D), NEW p \in D
      PROVE  Size(Append(c, p)) = Size(c) + use.input[p].len
  <2>1. len(c) \in Seq(Int) /\ use.input[p].len \in Int
    BY <1>0, <1>1
  <2>2. Total(len(Append(c, p))) = Total(len(c)) + use.input[p].len
    BY <1>2, <2>1, TotalAppend
  <2>3. Total(len(c)) \in Int /\ initial_argv_chars \in Int
    BY <1>5, Initial
  <2>4. /\ Size(Append(c, p)) = initial_argv_chars + Total(len(Append(c, p)))
        /\ Size(c) = initial_argv_chars + Total(len(c))
    BY <1>3
  <2> HIDE DEF len
  <2> QED
    BY <2>1, <2>2, <2>3, <2>4
<1> HIDE DEF len
<1>7. Size(<<>>) = initial_argv_chars
  BY <1>3, <1>4, TotalEmpty, Initial
<1>8. \A c \in Seq(D) : Size(c) \in Int
  BY <1>3, <1>5, Initial
<1> QED
  BY <1>6, <1>7, <1>8

\* The lines begun in a command grow by one if a line begins with the argument added.
LEMMA LinesGrow ==
  ASSUME use \in Uses
  PROVE  /\ Lines(<<>>) = 0
         /\ \A c \in Seq(DOMAIN use.input) : Lines(c) \in Nat
         /\ \A c \in Seq(DOMAIN use.input), p \in DOMAIN use.input :
              p \notin Range(c) =>
                Lines(Append(c, p)) = Lines(c) + (IF LineBegins(p) THEN 1 ELSE 0)
<1> DEFINE D == DOMAIN use.input
           B(c) == {k \in Range(c) : LineBegins(k)}
<1>1. IsFiniteSet(D)
  <2> DEFINE n == Len(use.input)
  <2>1. D = 1..n /\ n \in Nat
    BY Initial
  <2> HIDE DEF n, D
  <2>2. 1 \in Int /\ n \in Int
    BY <2>1
  <2> QED
    BY <2>1, <2>2, FS_Interval
<1>2. \A c : Lines(c) = Cardinality(B(c))
  BY DEF Lines
<1>3. ASSUME NEW c \in Seq(D) PROVE IsFiniteSet(B(c)) /\ Cardinality(B(c)) \in Nat
  <2> HIDE DEF D
  <2>0. \A k \in DOMAIN c : c[k] \in D
    OBVIOUS
  <2>1. B(c) \subseteq D
    BY <2>0 DEF Range
  <2> HIDE DEF B
  <2> QED
    BY <1>1, <2>1, FS_Subset, FS_CardinalityType
<1>4. ASSUME NEW c \in Seq(D), NEW p \in D, p \notin Range(c)
      PROVE  Lines(Append(c, p)) = Lines(c) + (IF LineBegins(p) THEN 1 ELSE 0)
  <2>1. Range(Append(c, p)) = Range(c) \cup {p}
    <3> DEFINE n == Len(c)
    <3>1. /\ n \in Nat /\ DOMAIN c = 1..n /\ DOMAIN Append(c, p) = 1..(n + 1)
          /\ Append(c, p)[n + 1] = p
          /\ \A k \in 1..n : Append(c, p)[k] = c[k]
      OBVIOUS
    <3> HIDE DEF n
    <3>2. 1..(n + 1) = 1..n \cup {n + 1}
      BY <3>1
    <3> QED
      BY <3>1, <3>2 DEF Range
  <2>2. CASE LineBegins(p)
    <3>1. B(Append(c, p)) = B(c) \cup {p} /\ p \notin B(c)
      BY <1>4, <2>1, <2>2
    <3> HIDE DEF B
    <3>2. Cardinality(B(c) \cup {p}) = Cardinality(B(c)) + 1
      BY <1>3, <3>1, FS_AddElement
    <3> QED
      BY <1>2, <2>2, <3>1, <3>2
  <2>3. CASE ~LineBegins(p)
    <3>1. B(Append(c, p)) = B(c)
      BY <2>1, <2>3
    <3> HIDE DEF B
    <3> QED
      BY <1>2, <1>3, <2>3, <3>1
  <2> QED
    BY <2>2, <2>3
<1>5. Lines(<<>>) = 0
  <2>1. B(<<>>) = {}
    BY DEF Range
  <2> QED
    BY <1>2, <2>1, FS_EmptySet
<1>6. \A c \in Seq(D) : Lines(c) \in Nat
  BY <1>2, <1>3
<1> QED
  BY <1>4, <1>5, <1>6

\* What is said of a command depends on the use only.
LEMMA SameUse ==
  ASSUME UNCHANGED use
  PROVE  /\ initial_argv_chars' = initial_argv_chars
         /\ \A k : LineBegins(k)' = LineBegins(k)
         /\ \A c : /\ Size(c)' = Size(c) /\ Lines(c)' = Lines(c)
                   /\ FullCommand(c)' = FullCommand(c) /\ Within(c)' = Within(c)
<1>1. initial_argv_chars' = initial_argv_chars
  BY DEF initial_argv_chars
<1>2. \A k : LineBegins(k)' = LineBegins(k)
  BY DEF LineBegins
<1>3. \A c : Size(c)' = Size(c)
  BY <1>1 DEF Size
<1>4. \A c : Lines(c)' = Lines(c)
  BY <1>2 DEF Lines
<1>5. \A c : FullCommand(c)' = FullCommand(c)
  BY <1>2, <1>3, <1>4 DEF FullCommand, FullArgs, FullLines, FullSize
<1>6. \A c : Within(c)' = Within(c)
  BY <1>3, <1>4 DEF Within
<1> QED
  BY <1>1, <1>2, <1>3, <1>4, <1>5, <1>6

------------------------------------------------------------------------------
(* Steps that change where xargs is, but no command                        *)

Moves ==
  \/ UNCHANGED <<pc, ret, all>>
  \/ pc' = "exited"
  \/ pc = "start" /\ pc' = "read" /\ initial_argv_chars <= use.arg_max /\ ret' = ret
  \/ pc = "read" /\ AtEnd /\ pc' = "last" /\ ~use.i /\ ret' = ret
  \/ pc = "read" /\ pc' = "end" /\ cmd = <<>> /\ use.i /\ ret' = ret
  \/ /\ pc = "read" /\ pc' = "exec" /\ ret' = "read"
     /\ ~use.i /\ use.lines_per_exec = 0 /\ cmd # <<>> /\ FullCommand(cmd)
  \/ /\ pc = "last" /\ pc' = "exec" /\ ret' = "end"
     /\ cmd = <<>> => ~use.r /\ procs_executed = 0
  \/ pc = "last" /\ pc' = "end" /\ cmd = <<>> /\ ret' = "end"
  \/ Starting /\ Starting' /\ ret' = ret
  \/ Ending /\ Ending' /\ pc' \in {"wait", "end"} /\ ret' = ret

LEMMA MovesKeep ==
  ASSUME IInv, BInv, Moves, UNCHANGED <<use, reading, command, asked, procs_executed>>
  PROVE  BInv'
<1> DEFINE P == Passed(asked)
           S == Ascending(asked)
<1>0. /\ use' = use /\ pos' = pos /\ first' = first /\ eof' = eof /\ lineno' = lineno
      /\ cmd' = cmd /\ cmd_argv_chars' = cmd_argv_chars /\ asked' = asked
      /\ procs_executed' = procs_executed
  BY DEF reading, command
<1>1. /\ P' = P /\ S' = S /\ AtEnd' = AtEnd /\ Sequel' = Sequel /\ Begun' = Begun
  BY <1>0 DEF Passed, Ascending, AtEnd, Sequel, Begun
<1>2. /\ Size(cmd)' = Size(cmd) /\ Lines(cmd)' = Lines(cmd)
      /\ initial_argv_chars' = initial_argv_chars /\ LineBegins(pos)' = LineBegins(pos)
      /\ FullCommand(cmd)' = FullCommand(cmd)
      /\ FullCommand(Last(asked))' = FullCommand(Last(asked))
      /\ Counted' = Counted /\ LineStart' = LineStart
  <2>1. /\ \A c : Size(c)' = Size(c) /\ Lines(c)' = Lines(c) /\ FullCommand(c)' = FullCommand(c)
        /\ initial_argv_chars' = initial_argv_chars /\ \A k : LineBegins(k)' = LineBegins(k)
    BY <1>0, SameUse
  <2>2. Size(cmd)' = Size(cmd) /\ Lines(cmd)' = Lines(cmd) /\ LineBegins(pos)' = LineBegins(pos)
    BY <1>0 DEF Size, initial_argv_chars, Lines, LineBegins
  <2>3. /\ FullCommand(cmd)' = FullCommand(cmd)
        /\ FullCommand(Last(asked))' = FullCommand(Last(asked))
    BY <1>0, <2>1 DEF FullCommand, FullArgs, FullLines, FullSize, Size, Lines, LineBegins, initial_argv_chars
  <2> QED
    BY <1>0, <1>1, <2>1, <2>2, <2>3 DEF Counted, LineStart
<1>3. /\ pc \in {"start", "read", "last", "exec", "slot", "fork", "wait", "end", "exited", "replaced"}
      /\ all \in BOOLEAN /\ ret \in {"read", "end"}
  BY DEF IInv, Types, Control
<1>3a. use \in Uses
  BY DEF IInv, Types
<1>3b. /\ Size(<<>>) = initial_argv_chars /\ Lines(<<>>) = 0
       /\ use.lines_per_exec # 0 => use.lines_per_exec \in Nat /\ 0 < use.lines_per_exec
  BY <1>3a, Sizes, LinesGrow, Initial
<1> USE DEF BInv
<1> HIDE DEF P, S
<1>4. Order'
  <2>1. /\ cmd \in Seq(Nat) /\ asked \in Seq(Seq(Nat)) /\ Len(cmd) <= pos - 1 /\ S
    BY DEF Order, S
  <2>2. /\ Building => Sequel
        /\ Starting => Begun
        /\ Ending => cmd = <<>> /\ Sequel
        /\ pc = "exited" => Sequel \/ Begun
    BY DEF Order
  <2>3. (Building => Sequel)'
    BY <1>1, <1>3, <2>2 DEF Moves, Building, Starting, Ending
  <2>4. (Starting => Begun)'
    BY <1>1, <1>3, <2>2 DEF Moves, Starting, Ending
  <2>5. (Ending => cmd = <<>> /\ Sequel)'
    BY <1>0, <1>1, <1>3, <2>2 DEF Moves, Building, Starting, Ending
  <2>6. (pc = "exited" => Sequel \/ Begun)'
    BY <1>1, <1>3, <2>2 DEF Moves, Building, Starting, Ending
  <2> QED
    BY <1>0, <1>1, <2>1, <2>3, <2>4, <2>5, <2>6 DEF Order, S
<1>5. Fits'
  <2>1. (pc \notin {"start", "exited"} /\ ~use.i => initial_argv_chars <= use.arg_max)'
    BY <1>0, <1>2, <1>3 DEF Moves, Fits, Starting, Ending
  <2>2. (Building /\ ~use.i => cmd_argv_chars = Size(cmd))'
    BY <1>0, <1>2, <1>3 DEF Moves, Fits, Building, Starting, Ending
  <2>3. (pc \in {"read", "last", "exec"} /\ ~use.i => Size(cmd) <= use.arg_max)'
    BY <1>0, <1>2, <1>3, <1>3b DEF Moves, Fits, Starting, Ending
  <2>4. (use.i /\ pc = "exec" => Len(cmd) = 1)'
    BY <1>0, <1>3 DEF Moves, Fits, Starting, Ending
  <2>5. (pc = "last" => ~use.i)' /\ (pc = "exec" \/ Starting => (ret = "end" => ~use.i))'
    BY <1>0, <1>3 DEF Moves, Fits, Starting, Ending
  <2>6. (pc = "start" => cmd = <<>>)'
    BY <1>0, <1>3 DEF Moves, Fits, Starting, Ending
  <2> QED
    BY <1>0, <2>1, <2>2, <2>3, <2>4, <2>5, <2>6 DEF Fits
<1>6. Lined'
  <2>1. (~AtEnd /\ ~use.i => first = LineBegins(pos))'
    BY <1>0, <1>1, <1>2 DEF Lined
  <2>2. ASSUME use.lines_per_exec # 0
        PROVE  (pc \in {"read", "last", "exec"} => Lines(cmd) <= use.lines_per_exec)'
    BY <1>0, <1>2, <1>3, <1>3b, <2>2 DEF Moves, Lined, Fits, Starting, Ending
  <2>3. ASSUME use.lines_per_exec # 0
        PROVE  /\ (pc = "read" => lineno < use.lines_per_exec)'
               /\ (pc = "read" /\ ~AtEnd => Counted)'
    BY <1>0, <1>1, <1>2, <1>3, <1>3b, <2>3 DEF Moves, Lined, Fits, LineStart, Counted, Starting, Ending
  <2>4. ASSUME use.lines_per_exec # 0
        PROVE  /\ (pc = "read" /\ cmd = <<>> => LineStart)' /\ (pc = "start" => LineStart)'
               /\ (pc = "exec" \/ Starting => (ret = "read" => LineStart))'
    BY <1>0, <1>2, <1>3, <2>4 DEF Moves, Lined, Starting, Ending
  <2> QED
    BY <1>0, <2>1, <2>2, <2>3, <2>4 DEF Lined
<1>7. Follows'
  <2>1. \A j \in 1..(Len(asked) - 1) : FullCommand(asked[j])' = FullCommand(asked[j])
    BY <1>0 DEF FullCommand, FullArgs, FullLines, FullSize, Size, Lines, LineBegins, initial_argv_chars
  <2>2. ~use.i => (\A j \in 1..(Len(asked) - 1) : asked[j + 1] # <<>> => FullCommand(asked[j]))'
    BY <1>0, <2>1 DEF Follows
  <2>3. ~use.i => (pc = "exec" \/ Starting => (ret = "read" => cmd # <<>> /\ (FullCommand(cmd) \/ AtEnd)))'
    BY <1>0, <1>1, <1>2, <1>3 DEF Follows, Moves, Starting, Ending
  <2>4. ~use.i => (Building /\ asked # <<>> => FullCommand(Last(asked)) \/ (AtEnd /\ cmd = <<>>))'
    BY <1>0, <1>1, <1>2, <1>3 DEF Follows, Moves, Starting, Ending, Building
  <2> QED
    BY <1>0, <2>2, <2>3, <2>4 DEF Follows
<1>8. Alone'
  <2>1. \A j \in DOMAIN asked : Within(asked[j])' = Within(asked[j])
    BY <1>0 DEF Within, Size, Lines, LineBegins, initial_argv_chars
  <2>2. (\A j \in DOMAIN asked : asked[j] # <<>> => Within(asked[j]))'
    BY <1>0, <2>1 DEF Alone
  <2>3. (\A j \in DOMAIN asked : asked[j] = <<>> =>
          j = Len(asked) /\ ~use.r /\ ~use.i /\ procs_executed <= 1)'
    BY <1>0 DEF Alone
  <2>4. (Building => \A j \in DOMAIN asked : asked[j] # <<>>)'
    BY <1>0, <1>3 DEF Alone, Moves, Building, Starting, Ending
  <2>5. (Starting /\ cmd # <<>> => \A j \in DOMAIN asked : asked[j] # <<>>)'
    BY <1>0, <1>3 DEF Alone, Moves, Starting, Ending
  <2>6. (pc = "exec" \/ Starting => (cmd = <<>> => ret = "end" /\ ~use.r /\ procs_executed = 0))'
    BY <1>0, <1>3 DEF Alone, Moves, Starting, Ending
  <2> QED
    BY <2>2, <2>3, <2>4, <2>5, <2>6 DEF Alone
<1> QED
  BY <1>4, <1>5, <1>6, <1>7, <1>8

------------------------------------------------------------------------------
(* Steps that change a command                                             *)

LEMMA AtArgument ==
  ASSUME IInv, BInv, ReadArg
  PROVE  /\ pos \in DOMAIN use.input /\ pos \in Nat /\ pos # 0
         /\ cmd \in Seq(DOMAIN use.input) /\ pos \notin Range(cmd)
         /\ Len(cmd) \in Nat /\ Len(cmd) <= pos - 1
         /\ \A k \in 1..Len(cmd) : cmd[k] = pos - 1 - Len(cmd) + k
         /\ Passed(asked) = 1..(pos - 1 - Len(cmd))
         /\ cmd # <<>> => Len(cmd) # 0 /\ Last(cmd) = pos - 1 /\ pos # 1
         /\ tok.len \in Nat /\ tok.ends \in {"blank", "line", "input"}
         /\ pos # 1 => use.input[pos - 1].ends \in {"blank", "line"}
         /\ ~AtEnd
<1> DEFINE n == Len(cmd)
           N == Len(use.input)
<1>1. use \in Uses /\ pos \in 1..(N + 1) /\ pc = "read" /\ ~AtEnd /\ ~(pos > N)
  BY DEF IInv, Types, ReadArg, AtEnd
<1>2. N \in Nat /\ DOMAIN use.input = 1..N
  BY <1>1, Initial
<1>3. cmd \in Seq(Nat) /\ n \in Nat /\ n <= pos - 1 /\ DOMAIN cmd = 1..n
  BY DEF BInv, Order
<1>4. Passed(asked) = 1..(pos - 1 - n) /\ \A k \in 1..n : cmd[k] = pos - 1 - n + k
  BY <1>1 DEF BInv, Order, Building, Sequel
<1>5. use.input \in Seq([len : Nat, ends : {"blank", "line", "input"}, eof : BOOLEAN])
  BY <1>1, Initial
<1>6. cmd = [k \in 1..n |-> cmd[k]]
  BY <1>3
<1>7. cmd # <<>> => n # 0
  BY <1>3
<1>8. \A k \in DOMAIN use.input : use.input[k].ends = "input" => k = Len(use.input)
  BY <1>1, UsesAssumption
<1>9. Last(cmd) = cmd[n]
  BY DEF Last
<1> HIDE DEF n
<1>10. \A k \in 1..N : use.input[k].len \in Nat /\ use.input[k].ends \in {"blank", "line", "input"}
  <2> DEFINE s == use.input
             R == [len : Nat, ends : {"blank", "line", "input"}, eof : BOOLEAN]
  <2>1. s \in Seq(R) /\ \A r \in R : r.len \in Nat /\ r.ends \in {"blank", "line", "input"}
    BY <1>5
  <2> HIDE DEF s, R
  <2>2. \A k \in DOMAIN s : s[k].len \in Nat /\ s[k].ends \in {"blank", "line", "input"}
    BY <2>1
  <2> QED
    BY <1>2, <2>2 DEF s
<1>11. \A k \in 1..N : use.input[k].ends = "input" => k = N
  BY <1>2, <1>8
<1> HIDE DEF N
<1>12. pos \in 1..N /\ pos \in Nat /\ pos # 0
  BY <1>1, <1>2
<1>13. \A k \in 1..n : cmd[k] \in 1..N /\ cmd[k] # pos
  BY <1>1, <1>2, <1>3, <1>4, <1>12
<1>14. cmd \in Seq(1..N)
  <2> DEFINE T == 1..N
  <2>1. \A k \in 1..n : cmd[k] \in T
    BY <1>13
  <2> HIDE DEF T
  <2>2. cmd \in [1..n -> T]
    BY <1>6, <2>1
  <2>3. cmd \in Seq(T)
    BY <1>3, <2>2
  <2> QED
    BY <2>3 DEF T
<1>15. pos \notin Range(cmd)
  BY <1>3, <1>13 DEF Range
<1>16. cmd # <<>> => n # 0 /\ Last(cmd) = pos - 1 /\ pos # 1
  <2> SUFFICES ASSUME cmd # <<>> PROVE n # 0 /\ Last(cmd) = pos - 1 /\ pos # 1
    OBVIOUS
  <2>1. n # 0 /\ n \in 1..n
    BY <1>3, <1>7
  <2> QED
    BY <1>3, <1>4, <1>9, <1>12, <2>1
<1>17. tok.len \in Nat /\ tok.ends \in {"blank", "line", "input"}
  BY <1>10, <1>12 DEF tok
<1>18. pos # 1 => use.input[pos - 1].ends \in {"blank", "line"}
  <2> SUFFICES ASSUME pos # 1 PROVE use.input[pos - 1].ends \in {"blank", "line"}
    OBVIOUS
  <2>1. pos - 1 \in 1..N /\ pos - 1 # N
    BY <1>2, <1>12
  <2> QED
    BY <1>10, <1>11, <2>1
<1> QED
  BY <1>1, <1>2, <1>3, <1>4, <1>12, <1>14, <1>15, <1>16, <1>17, <1>18 DEF n

LEMMA PushStep ==
  ASSUME IInv, BInv, Push
  PROVE  BInv'
<1> DEFINE n == Len(cmd)
           c == Append(cmd, pos)
           D == DOMAIN use.input
           L == use.lines_per_exec
<1>1. /\ pc = "read" /\ ReadArg /\ ~use.i /\ ~Over /\ ~ArgsFull /\ use' = use
      /\ cmd' = c /\ cmd_argv_chars' = cmd_argv_chars + tok.len
      /\ pos' = pos + 1 /\ first' = (tok.ends # "blank") /\ eof' = (tok.ends = "input")
      /\ ret' = "read" /\ asked' = asked /\ procs_executed' = procs_executed
  BY DEF Push, ReadArg, procs
<1>2. \/ pc' = "read" /\ lineno' = lineno /\ tok.ends = "blank"
      \/ pc' = "exec" /\ lineno' = 0 /\ L # 0 /\ LinesWith >= L /\ tok.ends # "blank"
      \/ pc' = "read" /\ lineno' = LinesWith /\ (L = 0 \/ ~(LinesWith >= L)) /\ tok.ends # "blank"
  BY DEF Push, LineRead, Goto
<1>3. /\ pos \in D /\ pos \in Nat /\ pos # 0
      /\ cmd \in Seq(D) /\ pos \notin Range(cmd) /\ n \in Nat /\ n <= pos - 1
      /\ \A k \in 1..n : cmd[k] = pos - 1 - n + k
      /\ Passed(asked) = 1..(pos - 1 - n)
      /\ cmd # <<>> => n # 0 /\ Last(cmd) = pos - 1 /\ pos # 1
      /\ tok.len \in Nat /\ tok.ends \in {"blank", "line", "input"}
      /\ pos # 1 => use.input[pos - 1].ends \in {"blank", "line"}
      /\ ~AtEnd
  BY <1>1, AtArgument
<1>4. use \in Uses
  BY DEF IInv, Types
<1>5. /\ c \in Seq(Nat) /\ Len(c) = n + 1 /\ c[n + 1] = pos /\ c # <<>>
      /\ \A k \in 1..n : c[k] = cmd[k]
      /\ Last(c) = pos
  <2>1. cmd \in Seq(Nat)
    BY DEF BInv, Order
  <2>2. /\ c \in Seq(Nat) /\ Len(c) = n + 1 /\ c[n + 1] = pos
        /\ \A k \in 1..n : c[k] = cmd[k]
    BY <1>3, <2>1, AppendProperties
  <2>3. c # <<>>
    <3>1. n \in Nat /\ Len(c) = n + 1 /\ Len(<<>>) = 0
      BY <1>3, <2>2
    <3> HIDE DEF c, n
    <3> QED
      BY <3>1
  <2>4. Last(c) = c[Len(c)]
    BY DEF Last
  <2> QED
    BY <2>2, <2>3, <2>4
<1>6. /\ L \in Nat /\ use.arg_max \in Nat /\ use.args_per_exec \in Nat
      /\ L # 0 => use.args_per_exec = 0
  BY <1>4, Initial
<1>7. Size(c) = Size(cmd) + tok.len /\ Size(cmd) \in Int
  BY <1>3, <1>4, Sizes DEF tok
<1>8. Lines(c) = Lines(cmd) + (IF LineBegins(pos) THEN 1 ELSE 0) /\ Lines(cmd) \in Nat
  BY <1>3, <1>4, LinesGrow
<1>9. /\ initial_argv_chars' = initial_argv_chars
      /\ \A k : LineBegins(k)' = LineBegins(k)
      /\ \A d : /\ Size(d)' = Size(d) /\ Lines(d)' = Lines(d)
                /\ FullCommand(d)' = FullCommand(d) /\ Within(d)' = Within(d)
  BY <1>1, SameUse
<1>10. LineBegins(pos + 1) = (tok.ends # "blank")
  <2>1. pos \in Nat /\ pos # 0
    BY <1>3
  <2>2. pos + 1 # 1 /\ (pos + 1) - 1 = pos
    BY <2>1
  <2>3. LineBegins(pos + 1) <=> pos + 1 = 1 \/ use.input[(pos + 1) - 1].ends # "blank"
    BY DEF LineBegins
  <2>4. LineBegins(pos + 1) <=> use.input[pos].ends # "blank"
    BY <2>2, <2>3
  <2>5. LineBegins(pos + 1) \in BOOLEAN
    BY DEF LineBegins
  <2> QED
    BY <2>4, <2>5 DEF tok
<1> HIDE DEF c
<1>11. /\ Size(cmd)' = Size(c) /\ Lines(cmd)' = Lines(c) /\ LineBegins(pos)' = LineBegins(pos + 1)
       /\ FullCommand(cmd)' = FullCommand(c)
       /\ FullCommand(Last(asked))' = FullCommand(Last(asked))
  <2>1. Size(cmd)' = Size(c) /\ Lines(cmd)' = Lines(c) /\ LineBegins(pos)' = LineBegins(pos + 1)
    BY <1>1 DEF Size, Lines, LineBegins, initial_argv_chars
  <2>2. Size(cmd)' = Size(c) /\ Lines(cmd)' = Lines(c) /\ \A k : LineBegins(k)' = LineBegins(k)
    BY <1>9, <2>1
  <2>3. FullCommand(cmd)' = FullCommand(c)
    BY <1>1, <1>9, <2>2 DEF FullCommand, FullArgs, FullLines, FullSize
  <2>4. FullCommand(Last(asked))' = FullCommand(Last(asked))
    BY <1>1 DEF FullCommand, FullArgs, FullLines, FullSize, Size, Lines, LineBegins,
                initial_argv_chars
  <2> QED
    BY <2>1, <2>3, <2>4
<1>12. pc' \in {"read", "exec"} /\ Building' /\ ~Starting' /\ ~Ending'
  BY <1>2 DEF Building, Starting, Ending
<1>13. Order'
  <2>1. Len(cmd)' = n + 1 /\ cmd' \in Seq(Nat) /\ Len(cmd)' <= pos' - 1
    BY <1>1, <1>3, <1>5
  <2>2. Passed(asked)' = Passed(asked) /\ Ascending(asked)' = Ascending(asked)
    BY <1>1 DEF Passed, Ascending
  <2>3. Passed(asked)' = 1..(pos' - 1 - Len(cmd)')
    <3>1. pos' - 1 - Len(cmd)' = pos - 1 - n
      BY <1>1, <1>3, <2>1
    <3> QED
      BY <1>3, <2>2, <3>1
  <2>4. \A k \in 1..(n + 1) : cmd'[k] = pos' - 1 - (n + 1) + k
    <3> TAKE k \in 1..(n + 1)
    <3>1. CASE k = n + 1
      BY <1>1, <1>3, <1>5, <3>1
    <3>2. CASE k # n + 1
      <4>1. k \in 1..n
        BY <1>3, <3>2
      <4> QED
        BY <1>1, <1>3, <1>5, <4>1
    <3> QED
      BY <3>1, <3>2
  <2>5. Sequel'
    BY <2>1, <2>3, <2>4 DEF Sequel
  <2> QED
    BY <1>1, <1>12, <2>1, <2>2, <2>5 DEF BInv, Order
<1>14. Fits'
  <2>1. initial_argv_chars <= use.arg_max /\ cmd_argv_chars = Size(cmd)
    BY <1>1 DEF BInv, Fits, Building
  <2>2. (initial_argv_chars <= use.arg_max)'
    BY <1>1, <1>9, <2>1
  <2>3. (cmd_argv_chars = Size(cmd))'
    BY <1>1, <1>7, <1>11, <2>1
  <2>4. (Size(cmd) <= use.arg_max)'
    BY <1>1, <1>3, <1>6, <1>7, <1>11, <2>1 DEF Over
  <2>5. (use.args_per_exec # 0 => Len(cmd) <= use.args_per_exec)'
    <3>1. use.args_per_exec # 0 => n <= use.args_per_exec /\ n # use.args_per_exec
      BY <1>1 DEF BInv, Fits, ArgsFull
    <3> QED
      BY <1>1, <1>3, <1>5, <1>6, <3>1
  <2> QED
    BY <1>1, <1>12, <2>2, <2>3, <2>4, <2>5 DEF Fits
<1>15. ~use.i /\ first = LineBegins(pos)
  BY <1>1, <1>3 DEF BInv, Lined
\* The line of the argument is the last one that the command has begun.
<1>16. ASSUME L # 0 PROVE Lines(c) = lineno + 1 /\ lineno < L
  <2>1. lineno < L /\ lineno \in Nat /\ Counted /\ (cmd = <<>> => LineStart)
    BY <1>1, <1>3, <1>16 DEF BInv, Lined, IInv, Types
  <2>2. CASE cmd = <<>>
    <3>1. lineno = 0 /\ LineBegins(pos)
      BY <1>3, <2>1, <2>2 DEF LineStart
    <3>2. Lines(cmd) = 0
      BY <1>4, <2>2, LinesGrow
    <3> QED
      BY <1>8, <2>1, <3>1, <3>2
  <2>3. CASE cmd # <<>>
    <3>1. Lines(cmd) = lineno + (IF use.input[pos - 1].ends # "line" THEN 1 ELSE 0)
      BY <2>1, <2>3 DEF Counted
    <3>2. LineBegins(pos) <=> use.input[pos - 1].ends = "line"
      BY <1>3, <2>3 DEF LineBegins
    <3> QED
      BY <1>8, <2>1, <3>1, <3>2
  <2> QED
    BY <2>2, <2>3
<1>17. ASSUME L # 0, pc' = "exec" PROVE Lines(c) = L /\ lineno' = 0 /\ tok.ends # "blank"
  <2>1. lineno \in Nat
    BY DEF IInv, Types
  <2> QED
    BY <1>2, <1>6, <1>16, <1>17, <2>1 DEF LinesWith
<1>18. Lined'
  <2>1. (~AtEnd /\ ~use.i => first = LineBegins(pos))'
    BY <1>1, <1>10, <1>11
  <2>2. ASSUME L # 0 PROVE (Lines(cmd) <= use.lines_per_exec)'
    <3>1. lineno \in Nat
      BY DEF IInv, Types
    <3> QED
      BY <1>1, <1>6, <1>11, <1>16, <2>2, <3>1
  <2>3. ASSUME L # 0, pc' = "read" PROVE (lineno < use.lines_per_exec)' /\ Counted'
    <3>1. lineno \in Nat
      BY DEF IInv, Types
    <3>2. use'.input[pos' - 1].ends = tok.ends /\ cmd' # <<>>
      BY <1>1, <1>3, <1>5 DEF tok
    <3>3. lineno' < L /\ Lines(c) = lineno' + (IF tok.ends # "line" THEN 1 ELSE 0)
      BY <1>2, <1>3, <1>6, <1>16, <2>3, <3>1 DEF LinesWith
    <3> QED
      BY <1>1, <1>11, <3>2, <3>3 DEF Counted
  <2>4. ASSUME L # 0, pc' = "exec" PROVE LineStart'
    BY <1>10, <1>11, <1>17, <2>4 DEF LineStart
  <2> QED
    BY <1>1, <1>5, <1>12, <2>1, <2>2, <2>3, <2>4 DEF Lined
<1>19. Follows'
  <2>1. \A j \in 1..(Len(asked) - 1) : asked[j + 1] # <<>> => FullCommand(asked[j])
    BY <1>1 DEF BInv, Follows
  <2>2. (\A j \in 1..(Len(asked) - 1) : asked[j + 1] # <<>> => FullCommand(asked[j]))'
    BY <1>1, <1>9, <2>1
  <2>3. asked # <<>> => FullCommand(Last(asked))
    BY <1>1, <1>3 DEF BInv, Follows, Building
  <2>4. ASSUME pc' = "exec" PROVE FullCommand(c)
    <3>1. L # 0
      BY <1>2, <2>4
    <3>2. FullLines(c)
      BY <1>5, <1>10, <1>17, <2>4, <3>1 DEF FullLines
    <3> QED
      BY <3>2 DEF FullCommand
  <2> QED
    BY <1>1, <1>5, <1>11, <1>12, <2>2, <2>3, <2>4 DEF Follows
<1>20. Alone'
  <2>1. Building
    BY <1>1 DEF Building
  <2>2. \A j \in DOMAIN asked : asked[j] # <<>> /\ Within(asked[j])
    BY <2>1 DEF BInv, Alone
  <2>3. (\A j \in DOMAIN asked : asked[j] # <<>> /\ Within(asked[j]))'
    BY <1>1, <1>9, <2>2
  <2> QED
    BY <1>1, <1>5, <1>12, <2>3 DEF Alone
<1> QED
  BY <1>13, <1>14, <1>18, <1>19, <1>20 DEF BInv

\* push_arg runs a command only when -n or -s allow no further argument in it.
LEMMA RunsWhenFull ==
  ASSUME IInv, BInv, PushRuns
  PROVE  /\ pc = "read" /\ pc' = "exec" /\ ret' = "read" /\ ~use.i
         /\ use.lines_per_exec = 0 /\ cmd # <<>> /\ FullCommand(cmd)
<1> DEFINE L == use.lines_per_exec
<1>1. /\ pc = "read" /\ pc' = "exec" /\ ret' = "read" /\ ~use.i /\ ReadArg /\ ~TooLong
      /\ IF Over THEN ~(exit_if_size_exceeded /\ (L # 0 \/ use.args_per_exec # 0))
                 ELSE ArgsFull
  BY DEF PushRuns, Goto, ReadArg
<1>2. use \in Uses
  BY DEF IInv, Types
<1>3. /\ tok.len \in Nat /\ pos \in Nat /\ cmd \in Seq(DOMAIN use.input)
      /\ cmd # <<>> => Last(cmd) = pos - 1
  BY <1>1, AtArgument
<1>4. /\ initial_argv_chars \in Int /\ use.arg_max \in Nat
      /\ L # 0 => use.args_per_exec = 0
      /\ Size(<<>>) = initial_argv_chars /\ Size(cmd) \in Int
  BY <1>2, <1>3, Initial, Sizes
<1>5. cmd_argv_chars = Size(cmd)
  BY <1>1 DEF BInv, Fits, Building
<1>6. CASE Over
  <2>1. L = 0 /\ ~(use.x /\ use.args_per_exec # 0)
    BY <1>1, <1>6 DEF exit_if_size_exceeded
  <2>2. Size(cmd) + tok.len > use.arg_max
    BY <1>5, <1>6 DEF Over
  <2>3. Size(<<>>) + tok.len <= use.arg_max
    BY <1>1, <1>3, <1>4 DEF TooLong
  <2>4. cmd # <<>>
    BY <1>3, <1>4, <2>2, <2>3
  <2>5. Last(cmd) + 1 = pos
    BY <1>3, <2>4
  <2>6. FullSize(cmd)
    BY <2>1, <2>2, <2>5 DEF FullSize, tok
  <2> QED
    BY <1>1, <2>1, <2>4, <2>6 DEF FullCommand
<1>7. CASE ~Over
  <2>1. ArgsFull
    BY <1>1, <1>7
  <2>2. L = 0 /\ cmd # <<>> /\ FullArgs(cmd)
    BY <1>4, <2>1 DEF ArgsFull, FullArgs
  <2> QED
    BY <1>1, <2>2 DEF FullCommand
<1> QED
  BY <1>6, <1>7

LEMMA InsertStep ==
  ASSUME IInv, BInv, Insert
  PROVE  BInv'
<1>1. /\ pc = "read" /\ ReadArg /\ use.i /\ pc' \in {"exec", "exited"} /\ use' = use
      /\ cmd' = <<pos>> /\ pos' = pos + 1 /\ ret' = "read" /\ asked' = asked
      /\ procs_executed' = procs_executed
  BY DEF Insert, ReadArg, Goto, Exit, procs
<1>2. use \in Uses /\ cmd = <<>>
  BY <1>1 DEF IInv, Types, Control
<1>3. /\ pos \in Nat /\ pos # 0 /\ Len(cmd) = 0
      /\ Passed(asked) = 1..(pos - 1 - Len(cmd))
  BY <1>1, <1>2, AtArgument
<1>4. use.lines_per_exec = 0 /\ use.args_per_exec = 0
  BY <1>1, <1>2, Initial
<1>5. Order'
  <2>1. cmd' \in Seq(Nat) /\ Len(cmd)' = 1 /\ Len(cmd)' <= pos' - 1
    BY <1>1, <1>3
  <2>2. Passed(asked)' = Passed(asked) /\ Ascending(asked)' = Ascending(asked)
    BY <1>1 DEF Passed, Ascending
  <2>3. pos' - 1 - Len(cmd)' = pos - 1 - Len(cmd)
    BY <1>1, <1>3, <2>1
  <2>4. Passed(asked)' = 1..(pos' - 1 - Len(cmd)')
    BY <1>3, <2>2, <2>3
  <2>5. \A k \in 1..1 : cmd'[k] = pos' - 1 - 1 + k
    BY <1>1, <1>3
  <2>6. Sequel'
    BY <2>1, <2>4, <2>5 DEF Sequel
  <2> QED
    BY <1>1, <2>1, <2>2, <2>6 DEF BInv, Order, Starting, Ending
<1>6. Fits'
  <2>1. Len(cmd)' = 1
    BY <1>1
  <2> QED
    BY <1>1, <1>4, <2>1 DEF Fits, Starting
<1>7. Lined' /\ Follows'
  BY <1>1, <1>4 DEF Lined, Follows
<1>8. Alone'
  <2>1. \A j \in DOMAIN asked : asked[j] # <<>> /\ Within(asked[j])
    BY <1>1 DEF BInv, Alone, Building
  <2>2. (\A j \in DOMAIN asked : asked[j] # <<>> /\ Within(asked[j]))'
    BY <1>1, <2>1, SameUse
  <2>3. cmd' # <<>>
    BY <1>1
  <2> QED
    BY <1>1, <2>2, <2>3 DEF Alone, Starting
<1> QED
  BY <1>5, <1>6, <1>7, <1>8 DEF BInv

LEMMA ReadEofStep ==
  ASSUME IInv, BInv, ReadEof
  PROVE  BInv'
<1> DEFINE L == use.lines_per_exec
<1>1. /\ pc = "read" /\ ~AtEnd /\ ret' = "read" /\ AtEnd' /\ use' = use
      /\ pos' = pos /\ cmd' = cmd /\ cmd_argv_chars' = cmd_argv_chars /\ asked' = asked
      /\ procs_executed' = procs_executed
  BY DEF ReadEof, command, procs, AtEnd
<1>2. \/ pc' = "end" /\ use.i /\ lineno' = lineno
      \/ pc' = "last" /\ ~use.i /\ lineno' = lineno
      \/ pc' = "exec" /\ lineno' = 0 /\ L # 0 /\ ~first
      \/ pc' = "read" /\ lineno' = LinesWith /\ (L = 0 \/ ~(LinesWith >= L)) /\ ~first
  BY DEF ReadEof, LineRead, Goto
<1>3. use \in Uses /\ lineno \in Nat /\ (use.i => cmd = <<>>)
  BY <1>1 DEF IInv, Types, Control
<1>4. L \in Nat /\ (L # 0 => ~use.i)
  BY <1>3, Initial
\* It is not the first of its line, so the command has arguments.
<1>5. L # 0 /\ ~first => cmd # <<>>
  BY <1>1, <1>4 DEF BInv, Lined, LineStart
<1>6. /\ initial_argv_chars' = initial_argv_chars
      /\ Size(cmd)' = Size(cmd) /\ Lines(cmd)' = Lines(cmd)
      /\ FullCommand(Last(asked))' = FullCommand(Last(asked))
      /\ Passed(asked)' = Passed(asked) /\ Ascending(asked)' = Ascending(asked)
      /\ Sequel' = Sequel
  <2>1. /\ initial_argv_chars' = initial_argv_chars
        /\ Size(cmd)' = Size(cmd) /\ Lines(cmd)' = Lines(cmd)
    BY <1>1 DEF initial_argv_chars, Size, Lines, LineBegins
  <2>2. FullCommand(Last(asked))' = FullCommand(Last(asked))
    BY <1>1 DEF FullCommand, FullArgs, FullLines, FullSize, Size, Lines, LineBegins,
                initial_argv_chars
  <2>3. Passed(asked)' = Passed(asked) /\ Ascending(asked)' = Ascending(asked)
    BY <1>1 DEF Passed, Ascending
  <2> QED
    BY <1>1, <2>1, <2>2, <2>3 DEF Sequel
<1>7. Order'
  <2>1. Sequel /\ (pc' = "end" => cmd = <<>>)
    BY <1>1, <1>2, <1>3 DEF BInv, Order, Building
  <2> QED
    BY <1>1, <1>2, <1>6, <2>1 DEF BInv, Order, Building, Starting, Ending
<1>8. Fits'
  <2>1. (pc \notin {"start", "exited"} /\ ~use.i => initial_argv_chars <= use.arg_max)'
    BY <1>1, <1>6 DEF BInv, Fits
  <2>2. (Building /\ ~use.i => cmd_argv_chars = Size(cmd))'
    BY <1>1, <1>6 DEF BInv, Fits, Building
  <2>3. (pc \in {"read", "last", "exec"} /\ ~use.i => Size(cmd) <= use.arg_max)'
    BY <1>1, <1>6 DEF BInv, Fits
  <2>4. (use.args_per_exec # 0 => Len(cmd) <= use.args_per_exec)'
    BY <1>1 DEF BInv, Fits
  <2> QED
    BY <1>1, <1>2, <1>4, <2>1, <2>2, <2>3, <2>4 DEF Fits, Starting
<1>9. Lined'
  <2>1. L # 0 => Lines(cmd) <= L
    BY <1>1 DEF BInv, Lined
  <2>2. L # 0 => (pc' = "read" => lineno' < L)
    BY <1>2, <1>3, <1>4 DEF LinesWith
  <2>3. L # 0 => (pc' = "read" => cmd # <<>>)
    BY <1>2, <1>5
  <2>4. pc' = "exec" => LineStart'
    BY <1>1, <1>2 DEF LineStart
  <2> QED
    BY <1>1, <1>2, <1>6, <2>1, <2>2, <2>3, <2>4 DEF Lined, Starting
<1>10. Follows'
  <2>1. ~use.i => \A j \in 1..(Len(asked) - 1) : asked[j + 1] # <<>> => FullCommand(asked[j])
    BY <1>1 DEF BInv, Follows
  <2>2. ~use.i => (\A j \in 1..(Len(asked) - 1) : asked[j + 1] # <<>> => FullCommand(asked[j]))'
    BY <1>1, <2>1, SameUse
  <2>3. ~use.i /\ asked # <<>> => FullCommand(Last(asked))
    BY <1>1 DEF BInv, Follows, Building
  <2> QED
    BY <1>1, <1>2, <1>5, <1>6, <2>2, <2>3 DEF Follows, Starting
<1>11. Alone'
  <2>1. \A j \in DOMAIN asked : asked[j] # <<>> /\ Within(asked[j])
    BY <1>1 DEF BInv, Alone, Building
  <2>2. (\A j \in DOMAIN asked : asked[j] # <<>> /\ Within(asked[j]))'
    BY <1>1, <2>1, SameUse
  <2>3. pc' = "exec" => cmd' # <<>>
    BY <1>1, <1>2, <1>5
  <2> QED
    BY <1>1, <1>2, <2>2, <2>3 DEF Alone, Starting
<1> QED
  BY <1>7, <1>8, <1>9, <1>10, <1>11 DEF BInv

\* The command that is asked about ends the ones that were.
LEMMA AskedGrows ==
  ASSUME IInv, BInv, Sequel
  PROVE  /\ Append(asked, cmd) \in Seq(Seq(Nat)) /\ Append(asked, cmd) # <<>>
         /\ Len(asked) \in Nat /\ DOMAIN asked = 1..Len(asked)
         /\ Len(Append(asked, cmd)) = Len(asked) + 1
         /\ DOMAIN Append(asked, cmd) = 1..(Len(asked) + 1)
         /\ Append(asked, cmd)[Len(asked) + 1] = cmd /\ Last(Append(asked, cmd)) = cmd
         /\ \A j \in 1..Len(asked) : Append(asked, cmd)[j] = asked[j]
         /\ Passed(Append(asked, cmd)) = 1..(pos - 1)
         /\ Ascending(Append(asked, cmd))
<1> DEFINE as == Append(asked, cmd)
           m == Len(asked)
           n == Len(cmd)
<1>1. /\ cmd \in Seq(Nat) /\ asked \in Seq(Seq(Nat)) /\ n <= pos - 1 /\ Ascending(asked)
      /\ Passed(asked) = 1..(pos - 1 - n)
      /\ \A k \in 1..n : cmd[k] = pos - 1 - n + k
  BY DEF BInv, Order, Sequel
<1>2. /\ as \in Seq(Seq(Nat)) /\ m \in Nat /\ DOMAIN asked = 1..m /\ Len(as) = m + 1
      /\ as[m + 1] = cmd /\ \A j \in 1..m : as[j] = asked[j]
  BY <1>1, AppendProperties
<1>3. DOMAIN as = 1..(m + 1)
  BY <1>2
<1>4. n \in Nat /\ DOMAIN cmd = 1..n
  BY <1>1
<1>5. pos \in Nat
  <2>1. use \in Uses /\ pos \in 1..(Len(use.input) + 1)
    BY DEF IInv, Types
  <2> QED
    BY <2>1, Initial
<1>6. Last(as) = cmd /\ as # <<>>
  <2>1. Last(as) = as[Len(as)]
    BY DEF Last
  <2>2. Len(as) = m + 1 /\ m \in Nat /\ as[m + 1] = cmd
    BY <1>2
  <2> HIDE DEF as, m
  <2>3. Len(as) # 0 /\ Len(<<>>) = 0
    BY <2>2
  <2>4. Last(as) = cmd
    BY <2>1, <2>2
  <2>5. as # <<>>
    BY <2>3
  <2> QED
    BY <2>4, <2>5
<1> HIDE DEF as, m, n
<1>7. Range(cmd) = (pos - n)..(pos - 1)
  <2>1. \A k \in 1..n : cmd[k] \in (pos - n)..(pos - 1)
    BY <1>1, <1>4, <1>5
  <2>2. ASSUME NEW a \in (pos - n)..(pos - 1) PROVE \E k \in 1..n : cmd[k] = a
    <3>1. a - (pos - 1 - n) \in 1..n
      BY <1>1, <1>4, <1>5
    <3>2. cmd[a - (pos - 1 - n)] = a
      BY <1>1, <1>4, <1>5, <3>1
    <3> QED
      BY <3>1, <3>2
  <2> QED
    BY <1>4, <2>1, <2>2 DEF Range
<1>8. Passed(as) = Passed(asked) \cup Range(cmd)
  <2>1. 1..(m + 1) = 1..m \cup {m + 1}
    BY <1>2
  <2>2. Passed(as) = UNION {Range(as[j]) : j \in 1..(m + 1)}
    BY <1>3 DEF Passed
  <2>3. Passed(asked) = UNION {Range(asked[j]) : j \in 1..m}
    BY <1>2 DEF Passed
  <2>4. \A x : x \in Passed(as) <=> \E j \in 1..(m + 1) : x \in Range(as[j])
    BY <2>2
  <2>5. \A x : x \in Passed(asked) <=> \E j \in 1..m : x \in Range(asked[j])
    BY <2>3
  <2>6. \A x : x \in Passed(as) <=> x \in Passed(asked) \/ x \in Range(cmd)
    BY <1>2, <2>1, <2>4, <2>5
  <2> QED
    BY <2>6
<1>9. Passed(as) = 1..(pos - 1)
  <2>1. 1..(pos - 1) = 1..(pos - 1 - n) \cup (pos - n)..(pos - 1)
    BY <1>1, <1>4, <1>5
  <2> QED
    BY <1>1, <1>7, <1>8, <2>1
<1>10. Ascending(as)
  <2>1. ASSUME NEW j \in 1..(m + 1), NEW k \in DOMAIN as[j], NEW l \in DOMAIN as[j], k < l
        PROVE  as[j][k] < as[j][l]
    <3>1. CASE j = m + 1
      <4>1. as[j] = cmd /\ k \in 1..n /\ l \in 1..n
        BY <1>2, <1>4, <2>1, <3>1
      <4> QED
        BY <1>1, <1>4, <1>5, <2>1, <4>1
    <3>2. CASE j # m + 1
      <4>1. j \in 1..m
        BY <1>2, <2>1, <3>2
      <4>2. as[j] = asked[j]
        BY <1>2, <4>1
      <4>3. k \in DOMAIN asked[j] /\ l \in DOMAIN asked[j]
        BY <4>2
      <4>4. asked[j][k] < asked[j][l]
        BY <1>1, <1>2, <2>1, <4>1, <4>3 DEF Ascending
      <4> QED
        BY <4>2, <4>4
    <3> QED
      BY <3>1, <3>2
  <2>2. ASSUME NEW i \in 1..(m + 1), NEW j \in 1..(m + 1), i < j,
               NEW a \in Range(as[i]), NEW b \in Range(as[j])
        PROVE  a < b
    <3>1. i \in 1..m
      BY <1>2, <2>2
    <3>2. as[i] = asked[i] /\ a \in Range(asked[i])
      BY <1>2, <3>1
    <3>3. CASE j = m + 1
      <4>1. a \in Passed(asked)
        BY <1>2, <3>1, <3>2 DEF Passed
      <4>2. b \in (pos - n)..(pos - 1)
        BY <1>2, <1>7, <3>3
      <4> QED
        BY <1>1, <1>4, <1>5, <4>1, <4>2
    <3>4. CASE j # m + 1
      <4>1. j \in 1..m
        BY <1>2, <2>2, <3>4
      <4>2. b \in Range(asked[j])
        BY <1>2, <4>1
      <4> QED
        BY <1>1, <1>2, <2>2, <3>1, <3>2, <4>1, <4>2 DEF Ascending
    <3> QED
      BY <3>3, <3>4
  <2> QED
    BY <1>3, <2>1, <2>2 DEF Ascending
<1> QED
  BY <1>2, <1>3, <1>6, <1>9, <1>10 DEF as, m

LEMMA AskStep ==
  ASSUME IInv, BInv, Ask
  PROVE  BInv'
<1> DEFINE as == Append(asked, cmd)
           m == Len(asked)
           L == use.lines_per_exec
<1>1. /\ pc = "exec" /\ asked' = as /\ use' = use /\ ret' = ret
      /\ pos' = pos /\ first' = first /\ eof' = eof /\ lineno' = lineno
      /\ procs_executed' = procs_executed /\ all' = all
  BY DEF Ask, reading, procs
<1>2. \/ pc' = "slot" /\ cmd' = cmd /\ cmd_argv_chars' = cmd_argv_chars
      \/ pc' = ret /\ cmd' = <<>> /\ cmd_argv_chars' = initial_argv_chars
  BY DEF Ask, Goto, Done, command
<1>3. /\ as \in Seq(Seq(Nat)) /\ as # <<>> /\ m \in Nat /\ DOMAIN asked = 1..m
      /\ Len(as) = m + 1 /\ DOMAIN as = 1..(m + 1) /\ as[m + 1] = cmd /\ Last(as) = cmd
      /\ \A j \in 1..m : as[j] = asked[j]
      /\ Passed(as) = 1..(pos - 1) /\ Ascending(as)
  <2>1. Sequel
    BY <1>1 DEF BInv, Order, Building
  <2> QED
    BY <2>1, AskedGrows
<1>4. use \in Uses /\ ret \in {"read", "end"} /\ pos \in Nat
  <2>1. use \in Uses /\ ret \in {"read", "end"} /\ pos \in 1..(Len(use.input) + 1)
    BY DEF IInv, Types, Control
  <2> QED
    BY <2>1, Initial
<1>5. /\ L \in Nat /\ (L # 0 => ~use.i) /\ use.args_per_exec \in Nat
      /\ Size(<<>>) = initial_argv_chars /\ Lines(<<>>) = 0
  BY <1>4, Initial, Sizes, LinesGrow
<1>6. /\ initial_argv_chars' = initial_argv_chars
      /\ \A k : LineBegins(k)' = LineBegins(k)
      /\ \A d : /\ Size(d)' = Size(d) /\ Lines(d)' = Lines(d)
                /\ FullCommand(d)' = FullCommand(d) /\ Within(d)' = Within(d)
  BY <1>1, SameUse
<1> HIDE DEF as, m
<1>7. AtEnd' = AtEnd /\ LineStart' = LineStart /\ LineBegins(pos)' = LineBegins(pos)
  BY <1>1 DEF AtEnd, LineStart, LineBegins
<1>8. pc' = "slot" => /\ Size(cmd)' = Size(cmd) /\ Lines(cmd)' = Lines(cmd)
                      /\ FullCommand(cmd)' = FullCommand(cmd)
  BY <1>1, <1>2, <1>4 DEF FullCommand, FullArgs, FullLines, FullSize, Size, Lines, LineBegins,
                    initial_argv_chars
<1>9. pc' # "slot" => Size(cmd)' = initial_argv_chars /\ Lines(cmd)' = 0
  <2> SUFFICES ASSUME pc' # "slot" PROVE Size(cmd)' = initial_argv_chars /\ Lines(cmd)' = 0
    OBVIOUS
  <2>1. Size(cmd)' = Size(<<>>) /\ Lines(cmd)' = Lines(<<>>)
    BY <1>1, <1>2 DEF Size, Lines, LineBegins, initial_argv_chars
  <2> QED
    BY <1>5, <2>1
<1>10. FullCommand(Last(asked))' = FullCommand(cmd)
  <2>1. Last(asked)' = cmd
    BY <1>1, <1>3 DEF Last
  <2> QED
    BY <1>1, <2>1 DEF FullCommand, FullArgs, FullLines, FullSize, Size, Lines, LineBegins,
                      initial_argv_chars
<1>11. Order'
  <2>1. cmd \in Seq(Nat) /\ Len(cmd) <= pos - 1
    BY DEF BInv, Order
  <2>2. cmd' \in Seq(Nat) /\ Len(cmd') <= pos' - 1
    <3>1. Len(<<>>) = 0 /\ <<>> \in Seq(Nat) /\ 0 <= pos - 1
      <4>1. pos \in 1..(Len(use.input) + 1)
        BY DEF IInv, Types
      <4> QED
        BY <1>4, <4>1
    <3> QED
      BY <1>1, <1>2, <2>1, <3>1
  <2>3. Passed(asked)' = 1..(pos' - 1) /\ Ascending(asked)'
    BY <1>1, <1>3 DEF Passed, Ascending
  <2>4. pc' = "slot" => Begun'
    BY <1>1, <1>2, <1>3, <1>4, <2>3 DEF Begun, Last
  <2>5. pc' # "slot" => Sequel' /\ cmd' = <<>>
    <3> SUFFICES ASSUME pc' # "slot" PROVE Sequel' /\ cmd' = <<>>
      OBVIOUS
    <3>1. cmd' = <<>> /\ Len(cmd') = 0 /\ \A k \in 1..0 : FALSE
      BY <1>2
    <3>2. pos' - 1 - 0 = pos' - 1
      BY <1>1, <1>4
    <3> QED
      BY <2>3, <3>1, <3>2 DEF Sequel
  <2> QED
    BY <1>1, <1>2, <1>3, <1>4, <2>2, <2>3, <2>4, <2>5 DEF Order, Building, Starting, Ending
<1>12. Fits'
  <2>1. /\ ~use.i => initial_argv_chars <= use.arg_max
        /\ use.args_per_exec # 0 => Len(cmd) <= use.args_per_exec
        /\ ret = "end" => ~use.i
    BY <1>1 DEF BInv, Fits
  <2>2. use.args_per_exec # 0 => Len(cmd') <= use.args_per_exec
    BY <1>2, <1>5, <2>1
  <2>3. pc' # "slot" => cmd_argv_chars' = Size(cmd)' /\ Size(cmd)' = initial_argv_chars
    BY <1>2, <1>9
  <2> QED
    BY <1>1, <1>2, <1>4, <1>6, <2>1, <2>2, <2>3 DEF Fits, Building, Starting
<1>13. Lined'
  <2>1. ~AtEnd /\ ~use.i => first = LineBegins(pos)
    BY DEF BInv, Lined
  <2>2. L # 0 /\ ret = "read" => LineStart
    BY <1>1 DEF BInv, Lined
  <2>3. L # 0 /\ pc' = "read" => lineno' = 0 /\ Lines(cmd)' = 0 /\ cmd' = <<>> /\ 0 < L
    BY <1>1, <1>2, <1>5, <1>9, <2>2 DEF LineStart
  <2>4. L # 0 /\ pc' = "read" => Counted'
    BY <2>3 DEF Counted
  <2> QED
    BY <1>1, <1>2, <1>4, <1>5, <1>7, <2>1, <2>2, <2>3, <2>4 DEF Lined, Starting
<1>14. Follows'
  <2> SUFFICES ASSUME ~use.i PROVE Follows'
    BY <1>1 DEF Follows
  <2>1. /\ \A j \in 1..(m - 1) : asked[j + 1] # <<>> => FullCommand(asked[j])
        /\ ret = "read" => cmd # <<>> /\ (FullCommand(cmd) \/ AtEnd)
        /\ asked # <<>> => FullCommand(Last(asked)) \/ (AtEnd /\ cmd = <<>>)
    BY <1>1 DEF BInv, Follows, Building, m
  <2>2. ASSUME NEW j \in 1..m, as[j + 1] # <<>> PROVE FullCommand(as[j])
    <3>1. CASE j = m
      <4>1. asked # <<>> /\ Last(asked) = asked[m]
        BY <1>3, <2>2, <3>1 DEF Last, m
      <4> QED
        BY <1>3, <2>1, <2>2, <3>1, <4>1
    <3>2. CASE j # m
      <4>1. j \in 1..(m - 1) /\ j + 1 \in 1..m
        BY <1>3, <2>2, <3>2
      <4>2. as[j] = asked[j] /\ as[j + 1] = asked[j + 1]
        BY <1>3, <4>1
      <4> QED
        BY <2>1, <2>2, <4>1, <4>2
    <3> QED
      BY <3>1, <3>2
  <2>3. (\A j \in 1..(Len(asked) - 1) : asked[j + 1] # <<>> => FullCommand(asked[j]))'
    <3>1. Len(asked') - 1 = m
      BY <1>1, <1>3
    <3> QED
      BY <1>1, <1>6, <2>2, <3>1
  <2>4. (pc = "exec" \/ Starting => (ret = "read" => cmd # <<>> /\ (FullCommand(cmd) \/ AtEnd)))'
    BY <1>1, <1>2, <1>4, <1>7, <1>8, <2>1 DEF Starting
  <2>5. (Building /\ asked # <<>> => FullCommand(Last(asked)) \/ (AtEnd /\ cmd = <<>>))'
    BY <1>1, <1>2, <1>4, <1>7, <1>10, <2>1 DEF Building
  <2> QED
    BY <2>3, <2>4, <2>5 DEF Follows
<1>15. Alone'
  <2>1. \A j \in 1..m : asked[j] # <<>> /\ Within(asked[j])
    BY <1>1, <1>3 DEF BInv, Alone, Building
  <2>2. cmd = <<>> => ret = "end" /\ ~use.r /\ procs_executed = 0
    BY <1>1 DEF BInv, Alone
  <2>3. cmd # <<>> => Within(cmd)
    BY <1>1 DEF BInv, Fits, Lined, Within
  <2>4. cmd = <<>> => ~use.i
    BY <1>1, <2>2 DEF BInv, Fits
  <2>5. \A j \in 1..(m + 1) : j # m + 1 => j \in 1..m
    BY <1>3
  <2>6. (\A j \in DOMAIN asked : asked[j] # <<>> => Within(asked[j]))'
    <3>1. \A j \in 1..(m + 1) : as[j] # <<>> => Within(as[j])
      BY <1>3, <2>1, <2>3, <2>5
    <3> QED
      BY <1>1, <1>3, <1>6, <3>1
  <2>7. (\A j \in DOMAIN asked : asked[j] = <<>> =>
          j = Len(asked) /\ ~use.r /\ ~use.i /\ procs_executed <= 1)'
    <3>1. ASSUME NEW j \in 1..(m + 1), as[j] = <<>>
          PROVE  j = m + 1 /\ ~use.r /\ ~use.i /\ procs_executed <= 1
      <4>1. j = m + 1 /\ cmd = <<>>
        BY <1>3, <2>1, <2>5, <3>1
      <4>2. procs_executed = 0 /\ 0 <= 1
        BY <2>2, <4>1
      <4> QED
        BY <2>2, <2>4, <4>1, <4>2
    <3> QED
      BY <1>1, <1>3, <3>1
  <2>8. cmd # <<>> => \A j \in DOMAIN as : as[j] # <<>>
    BY <1>3, <2>1, <2>5
  <2>9. (Building => \A j \in DOMAIN asked : asked[j] # <<>>)'
    BY <1>1, <1>2, <1>4, <2>2, <2>8 DEF Building
  <2>10. (Starting /\ cmd # <<>> => \A j \in DOMAIN asked : asked[j] # <<>>)'
    BY <1>1, <1>2, <1>4, <2>8 DEF Starting
  <2>11. (pc = "exec" \/ Starting => (cmd = <<>> => ret = "end" /\ ~use.r /\ procs_executed = 0))'
    BY <1>1, <1>2, <1>4, <2>2 DEF Starting
  <2> QED
    BY <2>6, <2>7, <2>9, <2>10, <2>11 DEF Alone
<1> QED
  BY <1>11, <1>12, <1>13, <1>14, <1>15 DEF BInv

\* The command runs, and the next one begins without arguments.
LEMMA RunsStep ==
  ASSUME IInv, BInv, NEW h \in Handle, Run(h)
  PROVE  BInv'
<1> DEFINE L == use.lines_per_exec
<1>1. /\ pc = "fork" /\ asked' = asked /\ use' = use /\ ret' = ret
      /\ pos' = pos /\ first' = first /\ eof' = eof /\ lineno' = lineno
      /\ cmd' = <<>> /\ cmd_argv_chars' = initial_argv_chars
      /\ pc' \in {ret, "replaced"}
      /\ procs_executed' \in {procs_executed, procs_executed + 1}
  BY DEF Run, reading, procs, Done, Goto
<1>2. use \in Uses /\ ret \in {"read", "end"} /\ pos \in Nat /\ pos # 0
  <2>1. use \in Uses /\ ret \in {"read", "end"} /\ pos \in 1..(Len(use.input) + 1)
    BY DEF IInv, Types, Control
  <2> QED
    BY <2>1, Initial
<1>3. /\ L \in Nat /\ (L # 0 => ~use.i) /\ use.args_per_exec \in Nat
      /\ Size(<<>>) = initial_argv_chars /\ Lines(<<>>) = 0
  BY <1>2, Initial, Sizes, LinesGrow
<1>4. /\ Size(cmd)' = initial_argv_chars /\ Lines(cmd)' = 0
      /\ initial_argv_chars' = initial_argv_chars
      /\ AtEnd' = AtEnd /\ LineStart' = LineStart /\ LineBegins(pos)' = LineBegins(pos)
      /\ FullCommand(Last(asked))' = FullCommand(Last(asked))
  <2>1. Size(cmd)' = Size(<<>>) /\ Lines(cmd)' = Lines(<<>>)
    BY <1>1 DEF Size, Lines, LineBegins, initial_argv_chars
  <2>2. initial_argv_chars' = initial_argv_chars
    BY <1>1 DEF initial_argv_chars
  <2>3. AtEnd' = AtEnd /\ LineStart' = LineStart /\ LineBegins(pos)' = LineBegins(pos)
    BY <1>1 DEF AtEnd, LineStart, LineBegins
  <2>4. FullCommand(Last(asked))' = FullCommand(Last(asked))
    BY <1>1 DEF FullCommand, FullArgs, FullLines, FullSize, Size, Lines, LineBegins,
                initial_argv_chars
  <2> QED
    BY <1>3, <2>1, <2>2, <2>3, <2>4
<1>5. Starting /\ asked # <<>> /\ Last(asked) = cmd /\ Passed(asked) = 1..(pos - 1)
  <2>1. Starting
    BY <1>1 DEF Starting
  <2> QED
    BY <2>1 DEF BInv, Order, Begun
<1>6. Order'
  <2>1. Passed(asked)' = Passed(asked) /\ Ascending(asked)' = Ascending(asked)
    BY <1>1 DEF Passed, Ascending
  <2>2. cmd' \in Seq(Nat) /\ Len(cmd') = 0 /\ 0 <= pos' - 1
    BY <1>1, <1>2
  <2>3. pos' - 1 - 0 = pos - 1
    BY <1>1, <1>2
  <2>4. Sequel'
    <3>1. \A k \in 1..0 : FALSE
      OBVIOUS
    <3> QED
      BY <1>5, <2>1, <2>2, <2>3, <3>1 DEF Sequel
  <2> QED
    BY <1>1, <1>2, <2>1, <2>2, <2>4 DEF BInv, Order, Building, Starting, Ending
<1>7. Fits'
  <2>1. ~use.i => initial_argv_chars <= use.arg_max
    BY <1>1 DEF BInv, Fits
  <2>2. use.args_per_exec # 0 => Len(cmd') <= use.args_per_exec
    BY <1>1, <1>3
  <2> QED
    BY <1>1, <1>2, <1>4, <2>1, <2>2 DEF Fits, Building, Starting
<1>8. Lined'
  <2>1. ~AtEnd /\ ~use.i => first = LineBegins(pos)
    BY DEF BInv, Lined
  <2>2. L # 0 /\ ret = "read" => LineStart
    BY <1>5 DEF BInv, Lined
  <2>3. L # 0 /\ pc' = "read" => lineno' = 0 /\ Lines(cmd)' = 0 /\ cmd' = <<>> /\ 0 < L
    BY <1>1, <1>3, <1>4, <2>2 DEF LineStart
  <2>4. L # 0 /\ pc' = "read" => Counted'
    BY <2>3 DEF Counted
  <2> QED
    BY <1>1, <1>2, <1>3, <1>4, <2>1, <2>2, <2>3, <2>4 DEF Lined, Starting
<1>9. Follows'
  <2> SUFFICES ASSUME ~use.i PROVE Follows'
    BY <1>1 DEF Follows
  <2>1. /\ \A j \in 1..(Len(asked) - 1) : asked[j + 1] # <<>> => FullCommand(asked[j])
        /\ ret = "read" => FullCommand(cmd) \/ AtEnd
    BY <1>5 DEF BInv, Follows
  <2>2. (\A j \in 1..(Len(asked) - 1) : asked[j + 1] # <<>> => FullCommand(asked[j]))'
    BY <1>1, <2>1, SameUse
  <2>3. (Building /\ asked # <<>> => FullCommand(Last(asked)) \/ (AtEnd /\ cmd = <<>>))'
    BY <1>1, <1>2, <1>4, <1>5, <2>1 DEF Building
  <2> QED
    BY <1>1, <1>2, <2>2, <2>3 DEF Follows, Starting
<1>10. Alone'
  <2>1. /\ \A j \in DOMAIN asked : asked[j] # <<>> => Within(asked[j])
        /\ cmd # <<>> => \A j \in DOMAIN asked : asked[j] # <<>>
        /\ cmd = <<>> => ret = "end" /\ ~use.r /\ procs_executed = 0
        /\ \A j \in DOMAIN asked : asked[j] = <<>> => j = Len(asked) /\ ~use.r /\ ~use.i
    BY <1>5 DEF BInv, Alone
  <2>2. (\A j \in DOMAIN asked : asked[j] # <<>> => Within(asked[j]))'
    BY <1>1, <2>1, SameUse
  <2>3. cmd = <<>> => procs_executed' <= 1
    <3>1. cmd = <<>> => procs_executed' \in {0, 0 + 1}
      BY <1>1, <2>1
    <3> QED
      BY <3>1
  <2>4. (\A j \in DOMAIN asked : asked[j] = <<>> =>
          j = Len(asked) /\ ~use.r /\ ~use.i /\ procs_executed <= 1)'
    BY <1>1, <2>1, <2>3
  <2>5. (Building => \A j \in DOMAIN asked : asked[j] # <<>>)'
    BY <1>1, <1>2, <2>1 DEF Building
  <2> QED
    BY <1>1, <1>2, <2>2, <2>4, <2>5 DEF Alone, Starting
<1> QED
  BY <1>6, <1>7, <1>8, <1>9, <1>10 DEF BInv

\* Every other step moves xargs only.
LEMMA BuildingSteps ==
  ASSUME IInv, BInv, [Next]_vars
  PROVE  BInv'
<1> DEFINE Same == UNCHANGED <<use, reading, command, asked, procs_executed>>
<1>1. CASE Push \/ Insert \/ ReadEof \/ Ask
  BY <1>1, PushStep, InsertStep, ReadEofStep, AskStep
<1>2. CASE \E h \in Handle : Run(h)
  BY <1>2, RunsStep
<1>3. CASE PushRuns
  <2>1. Moves
    BY <1>3, RunsWhenFull DEF Moves
  <2>2. Same
    BY <1>3 DEF PushRuns, procs
  <2> QED
    BY <2>1, <2>2, MovesKeep
<1>4. CASE Start \/ ReadEnd \/ ReadTooLong \/ PushTooLong \/ LastCommand \/ AskFails
  <2>1. Same
    BY <1>4 DEF Start, ReadEnd, ReadTooLong, PushTooLong, LastCommand, AskFails, procs
  <2>2. Start => Moves
    <3>1. use \in Uses
      BY DEF IInv, Types
    <3>2. initial_argv_chars \in Int /\ use.arg_max \in Nat
      BY <3>1, Initial
    <3>3. ~(initial_argv_chars > use.arg_max) => initial_argv_chars <= use.arg_max
      BY <3>2
    <3> QED
      BY <3>3 DEF Start, Exit, Goto, Moves
  <2>3. ReadEnd => Moves
    BY DEF ReadEnd, Goto, Moves, IInv, Control
  <2>4. (ReadTooLong \/ PushTooLong \/ AskFails) => Moves
    BY DEF ReadTooLong, PushTooLong, AskFails, Exit, Moves
  <2>5. LastCommand => Moves
    BY DEF LastCommand, Goto, Moves
  <2> QED
    BY <1>4, <2>1, <2>2, <2>3, <2>4, <2>5, MovesKeep
<1>5. CASE Slot \/ RunFails \/ WaitForAll \/ Reaped
  <2>1. Same
    BY <1>5 DEF Slot, RunFails, WaitForAll, Reaped, procs
  <2>2. (Slot \/ RunFails) => Moves
    BY DEF Slot, RunFails, WaitForOne, Goto, Exit, Moves, Starting
  <2>3. WaitForAll => Moves
    BY DEF WaitForAll, Goto, Exit, Moves, Ending
  <2>4. Reaped => Moves
    <3> SUFFICES ASSUME Reaped PROVE Moves
      OBVIOUS
    <3>1. pc = "wait" /\ ret' = ret /\ all' = all
      BY DEF Reaped
    <3>2. pc' = "exited" \/ pc' = (IF all THEN "end" ELSE "fork")
      BY DEF Reaped, Exit, Goto
    <3> QED
      BY <3>1, <3>2 DEF Moves, Starting, Ending
  <2> QED
    BY <1>5, <2>1, <2>2, <2>3, <2>4, MovesKeep
<1>6. CASE Waiting \/ (\E h \in Handle : CommandEnds(h)) \/ UNCHANGED vars
  <2>1. Same /\ UNCHANGED <<pc, ret, all>>
    BY <1>6 DEF Waiting, CommandEnds, xargs_vars, vars, procs
  <2> QED
    BY <2>1, MovesKeep DEF Moves
<1> QED
  BY <1>1, <1>2, <1>3, <1>4, <1>5, <1>6 DEF Next, XargsStep, Finished

LEMMA InitiallyBuilding == Init => BInv
<1> SUFFICES ASSUME Init PROVE BInv
  OBVIOUS
<1>1. /\ pc = "start" /\ ret = "read" /\ pos = 1 /\ first = TRUE /\ eof = FALSE /\ lineno = 0
      /\ cmd = <<>> /\ cmd_argv_chars = initial_argv_chars /\ asked = <<>> /\ use \in Uses
  BY DEF Init
<1>2. /\ Size(<<>>) = initial_argv_chars /\ Lines(<<>>) = 0 /\ use.args_per_exec \in Nat
  BY <1>1, Sizes, LinesGrow, Initial
<1>3. /\ <<>> \in Seq(Nat) /\ <<>> \in Seq(Seq(Nat)) /\ Len(<<>>) = 0 /\ DOMAIN <<>> = {}
      /\ \A k \in 1..0 : FALSE
  OBVIOUS
<1>4. Passed(<<>>) = {} /\ Ascending(<<>>)
  BY <1>3 DEF Passed, Ascending
<1>5. Order
  <2>1. 1..(1 - 1 - 0) = {}
    OBVIOUS
  <2>2. Sequel
    BY <1>1, <1>3, <1>4, <2>1 DEF Sequel
  <2>3. ~Starting /\ ~Ending
    BY <1>1 DEF Starting, Ending
  <2>4. Len(cmd) <= pos - 1
    BY <1>1, <1>3
  <2> QED
    BY <1>1, <1>3, <1>4, <2>2, <2>3, <2>4 DEF Order
<1>6. Fits
  BY <1>1, <1>2, <1>3 DEF Fits, Starting
<1>7. Lined
  BY <1>1, <1>2 DEF Lined, LineStart, LineBegins, Starting
<1>8. Follows
  BY <1>1, <1>3 DEF Follows, Starting
<1>9. Alone
  BY <1>1, <1>3 DEF Alone, Starting
<1> QED
  BY <1>5, <1>6, <1>7, <1>8, <1>9 DEF BInv

LEMMA BuildingImplies == IInv /\ BInv => BatchesRight /\ ExitTells
<1> SUFFICES ASSUME IInv, BInv PROVE BatchesRight /\ ExitTells
  OBVIOUS
<1>1. Sequel \/ Begun
  BY DEF IInv, Types, BInv, Order, Building, Starting, Ending
<1>2. /\ cmd \in Seq(Nat) /\ asked \in Seq(Seq(Nat)) /\ Ascending(asked)
      /\ use \in Uses /\ pos \in 1..(Len(use.input) + 1)
  BY DEF BInv, Order, IInv, Types
<1>3. pos \in Nat /\ pos # 0
  BY <1>2, Initial
<1>4. Len(asked) \in Nat /\ DOMAIN asked = 1..Len(asked)
  BY <1>2
<1>5. Passed(Commands) = 1..(pos - 1) /\ Ascending(Commands)
  <2>1. CASE Begun
    <3>1. Commands = asked
      BY <2>1 DEF Begun, Commands
    <3> QED
      BY <1>2, <2>1, <3>1 DEF Begun
  <2>2. CASE Sequel /\ asked # <<>> /\ Last(asked) = cmd
    <3> DEFINE n == Len(cmd)
               m == Len(asked)
    <3>1. Commands = asked
      BY <2>2 DEF Commands
    <3>2. /\ Passed(asked) = 1..(pos - 1 - n) /\ \A k \in 1..n : cmd[k] = pos - 1 - n + k
          /\ n \in Nat /\ DOMAIN cmd = 1..n
      BY <1>2, <2>2 DEF Sequel
    <3>3. m \in DOMAIN asked /\ asked[m] = cmd
      <4>1. m # 0
        BY <1>2, <2>2
      <4>2. asked[m] = cmd
        BY <2>2 DEF Last
      <4> QED
        BY <1>4, <4>1, <4>2
    <3>4. Range(cmd) \subseteq Passed(asked)
      BY <3>3 DEF Passed
    <3> HIDE DEF n, m
    <3>5. n = 0
      <4> SUFFICES ASSUME n # 0 PROVE FALSE
        OBVIOUS
      <4>1. n \in 1..n
        BY <3>2
      <4>2. cmd[n] \in Range(cmd)
        BY <3>2, <4>1 DEF Range
      <4>3. cmd[n] \in 1..(pos - 1 - n) /\ cmd[n] = pos - 1 - n + n
        BY <3>2, <3>4, <4>1, <4>2
      <4> QED
        BY <1>3, <3>2, <4>3
    <3>6. pos - 1 - n = pos - 1
      BY <1>3, <3>5
    <3> QED
      BY <1>2, <3>1, <3>2, <3>6
  <2>3. CASE Sequel /\ ~(asked # <<>> /\ Last(asked) = cmd)
    <3>1. Commands = Append(asked, cmd)
      BY <2>3 DEF Commands
    <3>2. Sequel
      BY <2>3
    <3> QED
      BY <3>1, <3>2, AskedGrows
  <2> QED
    BY <1>1, <2>1, <2>2, <2>3
<1>6. ASSUME NEW j \in DOMAIN asked, asked[j] = <<>>
      PROVE  j = Len(asked) /\ ~use.r /\ ~use.i /\ procs_executed <= 1
  BY <1>6 DEF BInv, Alone
<1>7. ASSUME NEW j \in DOMAIN asked, asked[j] # <<>> PROVE Within(asked[j])
  BY <1>7 DEF BInv, Alone
<1>8. ASSUME NEW j \in DOMAIN asked, ~use.i, j < Len(asked), asked[j + 1] # <<>>
      PROVE  FullCommand(asked[j])
  <2>1. j \in 1..(Len(asked) - 1)
    BY <1>4, <1>8
  <2> QED
    BY <1>8, <2>1 DEF BInv, Follows
<1>9. BatchesRight
  BY <1>5, <1>6, <1>7, <1>8 DEF BatchesRight, Within, FullCommand
<1>10. AllPassed
  <2> SUFFICES ASSUME pc = "exited", status \in {0, 123}
               PROVE  Passed(asked) = 1..(pos - 1)
    BY DEF AllPassed
  <2>1. cmd = <<>>
    BY DEF IInv, StatusRight
  <2>2. pos - 1 - 0 = pos - 1 /\ Len(<<>>) = 0
    BY <1>3
  <2> QED
    BY <1>1, <2>1, <2>2 DEF Sequel, Begun
<1> QED
  BY <1>9, <1>10 DEF IInv, ExitTells

\* Whatever the input, the options -s, -n, -l, -x, -r, -p, -i and -P and the answers to -p:
\* each argument is in one command and in the order of the input, no command is beyond its
\* limits, and none ends before the next argument would exceed one of them.
THEOREM BatchesCorrect == Spec => []BatchesRight
<1>1. Init => IInv /\ BInv
  BY Initially, InitiallyBuilding
<1>2. IInv /\ BInv /\ [Next]_vars => (IInv /\ BInv)'
  BY Step, BuildingSteps
<1>3. IInv /\ BInv => BatchesRight
  BY BuildingImplies
<1> QED
  BY <1>1, <1>2, <1>3, PTL DEF Spec

\* The exit status tells of all commands, and with 0 and 123 every argument that was read
\* was in a command.
THEOREM ExitCorrect == Spec => []ExitTells
<1>1. Init => IInv /\ BInv
  BY Initially, InitiallyBuilding
<1>2. IInv /\ BInv /\ [Next]_vars => (IInv /\ BInv)'
  BY Step, BuildingSteps
<1>3. IInv /\ BInv => ExitTells
  BY BuildingImplies
<1> QED
  BY <1>1, <1>2, <1>3, PTL DEF Spec
==============================================================================
