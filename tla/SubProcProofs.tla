---------------------------- MODULE SubProcProofs ----------------------------
(***************************************************************************)
(* Theorems about SubProc, for all jobs, slots, builds, addresses, handles,  *)
(* exit codes and launches that fail.  proc_array, the heap and the chain of  *)
(* children are changed in different functions; the inductive invariant says *)
(* of each what the others need: the table holds the live sub_processes once  *)
(* each, every one has a process of its own or an exit code in its stead, and *)
(* each is that of one child whose end has not been told yet.               *)
(***************************************************************************)
EXTENDS SubProc, FiniteSetTheorems, SequenceTheorems, WellFoundedInduction, TLAPS

(* Sequences without repetitions, and the least of a set of places          *)

\* s does not repeat itself.
Distinct(s) == \A i, j \in DOMAIN s : s[i] = s[j] => i = j

LEMMA SmallestIsThere ==
  ASSUME NEW S, S \subseteq Nat, S # {}
  PROVE  Min(S) \in S /\ \A x \in S : Min(S) <= x
<1>1. IsWellFoundedOn(OpToRel(<, Nat), Nat)
  BY NatLessThanWellFounded
<1>2. PICK x \in S : \A y \in S : ~(<<y, x>> \in OpToRel(<, Nat))
  BY <1>1, WFMin
<1>3. \A y \in S : x <= y
  <2>1. \A y, z \in Nat : y < z => <<y, z>> \in OpToRel(<, Nat)
    BY Zenon DEF OpToRel
  <2>2. \A y \in S : ~(y < x)
    BY <1>2, <2>1
  <2> QED
    BY <2>2
<1> QED
  BY <1>2, <1>3 DEF Min

LEMMA Removal ==
  ASSUME NEW T, NEW s \in Seq(T), NEW i \in DOMAIN s
  PROVE  /\ RemoveAt(s, i) \in Seq(T)
         /\ Len(RemoveAt(s, i)) = Len(s) - 1
         /\ \A k \in 1 .. Len(s) - 1 : RemoveAt(s, i)[k] = IF k < i THEN s[k] ELSE s[k + 1]
<1>1. i \in 1 .. Len(s) /\ Len(s) \in Nat
  OBVIOUS
<1>2. /\ SubSeq(s, 1, i - 1) \in Seq(T) /\ Len(SubSeq(s, 1, i - 1)) = i - 1
      /\ \A k \in 1 .. i - 1 : SubSeq(s, 1, i - 1)[k] = s[k]
  BY <1>1
<1>3. /\ SubSeq(s, i + 1, Len(s)) \in Seq(T) /\ Len(SubSeq(s, i + 1, Len(s))) = Len(s) - i
      /\ \A k \in 1 .. Len(s) - i : SubSeq(s, i + 1, Len(s))[k] = s[i + k]
  BY <1>1
<1> DEFINE a == SubSeq(s, 1, i - 1)
           b == SubSeq(s, i + 1, Len(s))
<1> HIDE DEF a, b
<1>4. /\ a \in Seq(T) /\ Len(a) = i - 1 /\ \A k \in 1 .. i - 1 : a[k] = s[k]
      /\ b \in Seq(T) /\ Len(b) = Len(s) - i /\ \A k \in 1 .. Len(s) - i : b[k] = s[i + k]
  BY <1>2, <1>3 DEF a, b
<1>5. RemoveAt(s, i) = a \o b
  BY DEF RemoveAt, a, b
<1>6. a \o b \in Seq(T) /\ Len(a \o b) = Len(s) - 1
  BY <1>1, <1>4
<1>7. \A k \in 1 .. Len(s) - 1 : (a \o b)[k] = IF k < i THEN s[k] ELSE s[k + 1]
  <2> TAKE k \in 1 .. Len(s) - 1
  <2>1. CASE k < i
    BY <1>1, <1>4, <2>1
  <2>2. CASE ~(k < i)
    <3>1. k \in Len(a) + 1 .. Len(a) + Len(b) /\ Len(a) \in Nat /\ Len(b) \in Nat
      BY <1>1, <1>4, <2>2
    <3>3. (a \o b)[k] = b[k - Len(a)]
      <4>1. a \in Seq(T) /\ b \in Seq(T) /\ k \in 1 .. Len(a) + Len(b) /\ ~(k <= Len(a))
        BY <1>4, <3>1
      <4> QED
        BY <4>1, ConcatProperties
    <3>2. k - (i - 1) \in 1 .. Len(s) - i /\ i + (k - (i - 1)) = k + 1
      BY <1>1, <2>2
    <3>4. b[k - Len(a)] = s[k + 1]
      <4> DEFINE m == k - (i - 1)
      <4>1. m \in 1 .. Len(s) - i /\ i + m = k + 1 /\ k - Len(a) = m
        BY <1>4, <3>2
      <4> HIDE DEF m
      <4> QED
        BY <1>4, <4>1
    <3> QED
      BY <2>2, <3>3, <3>4
  <2> QED
    BY <2>1, <2>2
<1> QED
  BY <1>5, <1>6, <1>7

LEMMA Without ==
  ASSUME NEW T, NEW s \in Seq(T), NEW i \in DOMAIN s, Distinct(s)
  PROVE  /\ Distinct(RemoveAt(s, i))
         /\ Range(RemoveAt(s, i)) = Range(s) \ {s[i]}
<1> DEFINE r == RemoveAt(s, i)
<1> HIDE DEF r
<1>1. /\ i \in 1 .. Len(s) /\ Len(s) \in Nat /\ DOMAIN s = 1 .. Len(s)
      /\ DOMAIN r = 1 .. Len(s) - 1
      /\ \A k \in 1 .. Len(s) - 1 : r[k] = IF k < i THEN s[k] ELSE s[k + 1]
  BY Removal DEF r
<1>2. \A k \in DOMAIN r : \E m \in DOMAIN s : /\ r[k] = s[m] /\ m # i
                                              /\ k = IF m < i THEN m ELSE m - 1
  <2> TAKE k \in DOMAIN r
  <2>1. CASE k < i
    BY <1>1, <2>1
  <2>2. CASE ~(k < i)
    BY <1>1, <2>2
  <2> QED
    BY <2>1, <2>2
<1>3. \A m \in DOMAIN s : m # i => \E k \in DOMAIN r : r[k] = s[m]
  <2> SUFFICES ASSUME NEW m \in DOMAIN s, m # i PROVE \E k \in DOMAIN r : r[k] = s[m]
    OBVIOUS
  <2>1. CASE m < i
    BY <1>1, <2>1
  <2>2. CASE ~(m < i)
    <3>1. m - 1 \in DOMAIN r /\ ~(m - 1 < i) /\ m - 1 + 1 = m
      BY <1>1, <2>2
    <3> QED
      BY <1>1, <3>1
  <2> QED
    BY <2>1, <2>2
<1>4. Distinct(r)
  <2> SUFFICES ASSUME NEW j \in DOMAIN r, NEW k \in DOMAIN r, r[j] = r[k] PROVE j = k
    BY DEF Distinct
  <2>1. PICK m \in DOMAIN s : r[j] = s[m] /\ m # i /\ j = IF m < i THEN m ELSE m - 1
    BY <1>2
  <2>2. PICK n \in DOMAIN s : r[k] = s[n] /\ n # i /\ k = IF n < i THEN n ELSE n - 1
    BY <1>2
  <2>3. m = n
    BY <2>1, <2>2 DEF Distinct
  <2> QED
    BY <2>1, <2>2, <2>3
<1>5. Range(r) \subseteq Range(s) \ {s[i]}
  BY <1>2 DEF Range, Distinct
<1>6. Range(s) \ {s[i]} \subseteq Range(r)
  BY <1>3 DEF Range
<1> QED
  BY <1>4, <1>5, <1>6 DEF r

LEMMA With ==
  ASSUME NEW T, NEW s \in Seq(T), NEW x \in T, x \notin Range(s), Distinct(s)
  PROVE  /\ Append(s, x) \in Seq(T) /\ Distinct(Append(s, x))
         /\ Range(Append(s, x)) = Range(s) \cup {x}
<1>1. Len(s) \in Nat /\ DOMAIN s = 1 .. Len(s)
  OBVIOUS
<1>2. /\ Append(s, x) \in Seq(T) /\ DOMAIN Append(s, x) = 1 .. Len(s) + 1
      /\ \A k \in 1 .. Len(s) + 1 : Append(s, x)[k] = IF k = Len(s) + 1 THEN x ELSE s[k]
  BY <1>1
<1>3. Distinct(Append(s, x)) /\ Range(Append(s, x)) = Range(s) \cup {x}
  <2> DEFINE r == Append(s, x)
  <2> HIDE DEF r
  <2>1. /\ DOMAIN r = 1 .. Len(s) + 1
        /\ \A k \in 1 .. Len(s) : r[k] = s[k] /\ s[k] # x
        /\ r[Len(s) + 1] = x
    BY <1>1, <1>2 DEF r, Range
  <2>2. \A k \in DOMAIN r : k = Len(s) + 1 \/ k \in 1 .. Len(s)
    BY <1>1, <2>1
  <2>3. Distinct(r)
    BY <1>1, <2>1, <2>2 DEF Distinct
  <2>4. Range(r) = Range(s) \cup {x}
    <3>1. Range(r) \subseteq Range(s) \cup {x}
      BY <1>1, <2>1, <2>2 DEF Range
    <3>2. Range(s) \subseteq Range(r) /\ x \in Range(r)
      BY <1>1, <2>1 DEF Range
    <3> QED
      BY <3>1, <3>2
  <2> QED
    BY <2>3, <2>4 DEF r
<1> QED
  BY <1>2, <1>3

LEMMA Ahead ==
  ASSUME NEW T, NEW s \in Seq(T), NEW x \in T, x \notin Range(s), Distinct(s)
  PROVE  /\ <<x>> \o s \in Seq(T) /\ Distinct(<<x>> \o s)
         /\ Range(<<x>> \o s) = Range(s) \cup {x}
         /\ Len(<<x>> \o s) = Len(s) + 1
<1>1. Len(s) \in Nat /\ DOMAIN s = 1 .. Len(s)
  OBVIOUS
<1>2. /\ <<x>> \o s \in Seq(T) /\ Len(<<x>> \o s) = Len(s) + 1
      /\ \A k \in 1 .. Len(s) + 1 : (<<x>> \o s)[k] = IF k = 1 THEN x ELSE s[k - 1]
  BY <1>1
<1>3. Distinct(<<x>> \o s) /\ Range(<<x>> \o s) = Range(s) \cup {x}
  <2> DEFINE r == <<x>> \o s
  <2> HIDE DEF r
  <2>1. DOMAIN r = 1 .. Len(s) + 1
    BY <1>1, <1>2 DEF r
  <2>2. \A k \in 1 .. Len(s) + 1 : r[k] = IF k = 1 THEN x ELSE s[k - 1]
    BY <1>2 DEF r
  <2>3. \A k \in DOMAIN r : \/ k = 1 /\ r[k] = x
                            \/ k - 1 \in DOMAIN s /\ r[k] = s[k - 1] /\ r[k] # x
    BY <1>1, <2>1, <2>2 DEF Range
  <2>4. Distinct(r)
    <3> SUFFICES ASSUME NEW j \in DOMAIN r, NEW k \in DOMAIN r, r[j] = r[k] PROVE j = k
      BY DEF Distinct
    <3>1. CASE r[j] = x
      BY <2>3, <3>1
    <3>2. CASE r[j] # x
      <4>1. j - 1 \in DOMAIN s /\ k - 1 \in DOMAIN s /\ s[j - 1] = s[k - 1]
        BY <2>3, <3>2
      <4>2. j - 1 = k - 1
        BY <4>1 DEF Distinct
      <4> QED
        BY <4>2, <2>1, <1>1
    <3> QED
      BY <3>1, <3>2
  <2>5. Range(r) \subseteq Range(s) \cup {x}
    BY <2>3 DEF Range
  <2>6. x \in Range(r)
    BY <1>1, <2>1, <2>2 DEF Range
  <2>7. \A k \in DOMAIN s : k + 1 \in DOMAIN r /\ r[k + 1] = s[k]
    BY <1>1, <2>1, <2>2
  <2>8. Range(s) \subseteq Range(r)
    BY <2>7 DEF Range
  <2> QED
    BY <2>4, <2>5, <2>6, <2>8 DEF r
<1> QED
  BY <1>2, <1>3

------------------------------------------------------------------------------
(* The inductive invariant                                                 *)

Types ==
  /\ heap \in [Addr -> [handle : Handle \cup {0, Free}, exit_code : Code \cup BeginErrors]]
  /\ os \in [Handle -> {Free, Running} \cup Code]
  /\ proc_array \in Seq(Addr) /\ fake_exits_pending \in Nat
  /\ children \in Seq(Job)
  /\ pid \in [Job -> Addr \cup {0}]
  /\ line \in [Job -> Nat]
  /\ state \in [Job -> {"not_started", "running", "done", "failed"}]
  /\ shell_function_pid \in Addr \cup {0} /\ shell_function_completed \in 0..2
  /\ build \in Builds /\ dying \in BOOLEAN /\ err \in BOOLEAN
  /\ pc \in {"walk", "shell", "read", "read_all", "slots", "wait", "match", "got", "die", "exited"}
  /\ ret \in {"walk", "read_all", "slots", "die"}
  /\ new \in Job \cup {None} /\ cur \in Job \cup {None}
  /\ got \in [pid : Addr \cup {0}, exit_code : Code \cup BeginErrors]
  /\ told = <<>> \/ told \in ((Job \cup {"shell"}) \X (Code \cup BeginErrors))

\* Where make is, when it is not waiting.
Where == IF pc \in {"wait", "match", "got"} THEN ret ELSE pc

Waited(c) == Awaited(c) /\ ~(pc = "match" /\ got.pid = pid_of(c))
Fakes == {a \in Range(proc_array) : heap[a].handle = 0}

\* The table holds the live sub_processes, once each.
Table ==
  /\ Distinct(proc_array)
  /\ \A a \in Addr : heap[a] # NoProcess <=> a \in Range(proc_array)

Counted == fake_exits_pending = Cardinality(Fakes)

\* Each has a process of its own, or an exit code because it has none.
Entries ==
  /\ \A a \in Range(proc_array) :
       /\ heap[a].handle # Free
       /\ heap[a].handle = 0 <=> heap[a].exit_code # 0
       /\ heap[a].handle # 0 => os[heap[a].handle] # Free
  /\ \A a, b \in Range(proc_array) : heap[a].handle = heap[b].handle /\ heap[a].handle # 0 => a = b

Holds(c) == c \in Range(children) \/ (c = "shell" /\ shell_function_pid # 0)
Apart ==
  /\ Distinct(children) /\ Len(children) <= JobSlots
  /\ \A j \in Range(children) : pid[j] # 0
  /\ \A c, d \in Child : Holds(c) /\ Holds(d) /\ pid_of(c) = pid_of(d) => c = d

Chained ==
  /\ \A c \in Child : Waited(c) => pid_of(c) \in Range(proc_array)
  /\ \A a \in Range(proc_array) : \E c \in Child : Waited(c) /\ pid_of(c) = a

Shells ==
  /\ pc = "shell" => build.shell # {}
  /\ shell_function_pid # 0 => /\ build.shell # {}
                               /\ Where \in {"read", "read_all"} \/ (dying /\ ~build.keep_going)
  /\ shell_function_pid # 0 /\ shell_function_completed # 0 => pc = "read_all" \/ dying
  /\ dying => Where \in {"die", "exited"}

Started ==
  /\ \A j \in Range(children) : state[j] = "running" /\ line[j] # 0
  /\ \A j \in Job : state[j] = "not_started" => line[j] = 0
  /\ \A j \in Job : line[j] <= build.lines[j]
  /\ Where \in {"shell", "read", "read_all", "slots"} => new \in Job /\ state[new] = "not_started"

Answered ==
  /\ pc = "match" /\ got.pid # 0 => \E c \in Child : Awaited(c) /\ pid_of(c) = got.pid
  /\ pc = "got" => cur \in Range(children)

IInv == Types /\ Table /\ Counted /\ Entries /\ Apart /\ Chained /\ Shells /\ Started /\ Answered

LEMMA FiniteRange ==
  ASSUME NEW T, NEW s \in Seq(T)
  PROVE  /\ IsFiniteSet(Range(s))
         /\ Distinct(s) => Cardinality(Range(s)) = Len(s)
<1>1. s \in [1 .. Len(s) -> Range(s)] /\ Len(s) \in Nat
  BY DEF Range
<1>2. s \in Surjection(1 .. Len(s), Range(s))
  BY <1>1 DEF Surjection, Range
<1>3. IsFiniteSet(1 .. Len(s)) /\ Cardinality(1 .. Len(s)) = Len(s)
  <2>1. 1 \in Int /\ Len(s) \in Int
    BY <1>1
  <2>2. IsFiniteSet(1 .. Len(s)) /\ Cardinality(1 .. Len(s)) = IF 1 > Len(s) THEN 0 ELSE Len(s) - 1 + 1
    BY <2>1, FS_Interval
  <2> QED
    BY <1>1, <2>2
<1>4. /\ IsFiniteSet(Range(s))
      /\ Cardinality(Range(s)) = Cardinality(1 .. Len(s)) <=> s \in Injection(1 .. Len(s), Range(s))
  BY <1>2, <1>3, FS_Surjection
<1>5. Distinct(s) => s \in Injection(1 .. Len(s), Range(s))
  BY <1>1 DEF Distinct, Injection, IsInjective
<1> QED
  BY <1>3, <1>4, <1>5

LEMMA ChainLength ==
  ASSUME IInv
  PROVE  TableIsChain
<1> DEFINE waited == {c \in Child : Awaited(c) /\ ~(pc = "match" /\ got.pid = pid_of(c))}
           f == [c \in waited |-> pid_of(c)]
<1>1. \A c \in Child : c \in waited <=> Waited(c)
  BY DEF Waited
<1>2. \A c \in waited : Holds(c)
  BY DEF Waited, Awaited, Holds
<1>3. \A c, d \in waited : pid_of(c) = pid_of(d) => c = d
  BY <1>2 DEF IInv, Apart
<1>4. Range(proc_array) = {pid_of(c) : c \in waited}
  BY <1>1 DEF IInv, Chained
<1> HIDE DEF waited
<1>5. f \in Bijection(waited, Range(proc_array))
  <2>1. f \in [waited -> Range(proc_array)]
    BY <1>4
  <2>2. f \in Injection(waited, Range(proc_array))
    BY <1>3, <2>1 DEF Injection, IsInjective
  <2>3. f \in Surjection(waited, Range(proc_array))
    BY <1>4, <2>1 DEF Surjection
  <2> QED
    BY <2>2, <2>3 DEF Bijection
<1>6. proc_array \in Seq(Addr) /\ Distinct(proc_array)
  BY DEF IInv, Types, Table
<1>7. IsFiniteSet(Range(proc_array)) /\ Cardinality(Range(proc_array)) = Len(proc_array)
  BY <1>6, FiniteRange
<1>8. Cardinality(waited) = Cardinality(Range(proc_array))
  <2>1. IsFiniteSet(waited)
    BY <1>5, <1>7, FS_Injection DEF Bijection
  <2>2. ExistsBijection(waited, Range(proc_array))
    BY <1>5 DEF ExistsBijection
  <2> QED
    BY <2>1, <2>2, FS_Bijection
<1>9. \A a \in Addr : heap[a] # NoProcess <=> a \in Range(proc_array)
  BY DEF IInv, Table
<1>10. fake_exits_pending = Cardinality({a \in Range(proc_array) : heap[a].handle = 0})
  BY DEF IInv, Counted, Fakes
<1> QED
  BY <1>3, <1>4, <1>7, <1>8, <1>9, <1>10 DEF TableIsChain, waited

LEMMA InvariantImplies ==
  ASSUME IInv
  PROVE  TypeOK
<1>1. TableIsChain
  BY ChainLength
<1>2. children \in Seq(Job) /\ job_slots_used <= JobSlots
  BY DEF IInv, Types, Apart, job_slots_used
<1>3. \A j \in Job : line[j] <= build.lines[j]
  BY DEF IInv, Started
<1>4. {dying, err} \subseteq BOOLEAN
  BY DEF IInv, Types
<1> QED
  BY <1>1, <1>2, <1>3, <1>4 DEF TypeOK, IInv, Types

LEMMA Initially ==
  ASSUME Init
  PROVE  IInv
<1>1. 0 \in Code /\ JobSlots \in Nat
  BY CodeAssumption, SlotsAssumption
<1>2. Types
  <2>1. build \in Builds
    BY DEF Init
  <2>2. heap \in [Addr -> [handle : Handle \cup {0, Free}, exit_code : Code \cup BeginErrors]]
    <3>1. NoProcess \in [handle : Handle \cup {0, Free}, exit_code : Code \cup BeginErrors]
      BY <1>1 DEF NoProcess
    <3> QED
      BY <3>1 DEF Init
  <2>3. /\ proc_array \in Seq(Addr) /\ children \in Seq(Job)
        /\ os \in [Handle -> {Free, Running} \cup Code]
        /\ pid \in [Job -> Addr \cup {0}] /\ line \in [Job -> Nat]
        /\ state \in [Job -> {"not_started", "running", "done", "failed"}]
    BY DEF Init
  <2>4. got \in [pid : Addr \cup {0}, exit_code : Code \cup BeginErrors]
    BY <1>1 DEF Init
  <2>5. dying \in BOOLEAN /\ err \in BOOLEAN
    BY DEF Init
  <2> QED
    BY <2>1, <2>2, <2>3, <2>4, <2>5 DEF Init, Types, None
<1>3. Range(proc_array) = {} /\ Range(children) = {} /\ Len(children) = 0
  BY DEF Init, Range
<1>4. Table
  BY <1>3 DEF Init, Table, Distinct
<1>5. Counted
  BY <1>3, FS_EmptySet DEF Init, Counted, Fakes
<1>6. Entries
  BY <1>3 DEF Entries
<1>7. Apart
  BY <1>1, <1>3 DEF Init, Apart, Holds, Distinct
<1>8. Chained
  BY <1>3 DEF Init, Chained, Waited, Awaited
<1>9. Shells
  BY DEF Init, Shells, Where
<1>10. Started
  <2>1. \A j \in Job : build.lines[j] \in Nat
    BY BuildsAssumption DEF Init
  <2> QED
    BY <1>3, <2>1 DEF Init, Started, Where
<1>11. Answered
  BY DEF Init, Answered
<1> QED
  BY <1>2, <1>4, <1>5, <1>6, <1>7, <1>8, <1>9, <1>10, <1>11 DEF IInv

------------------------------------------------------------------------------
(* The entries of the table                                                *)

\* A sub_process that is registered has an address and a process of its own.
LEMMA Registered ==
  ASSUME Types, Table, Entries,
         NEW a \in Addr, NEW h \in NewHandle \cup {0}, NEW e \in BeginErrors \cup {0},
         (h = 0) <=> (e # 0), Register(a, h, e)
  PROVE  /\ heap' \in [Addr -> [handle : Handle \cup {0, Free}, exit_code : Code \cup BeginErrors]]
         /\ os' \in [Handle -> {Free, Running} \cup Code]
         /\ proc_array' \in Seq(Addr)
         /\ a \notin Range(proc_array)
         /\ Range(proc_array') = Range(proc_array) \cup {a}
         /\ heap'[a] = [handle |-> h, exit_code |-> e]
         /\ h # 0 => h \in Handle /\ os[h] = Free /\ os'[h] = Running
         /\ \A b \in Range(proc_array) :
              /\ heap'[b] = heap[b]
              /\ heap[b].handle # 0 => os'[heap[b].handle] = os[heap[b].handle]
         /\ Table' /\ Entries'
<1>1. /\ heap[a] = NoProcess /\ heap' = [heap EXCEPT ![a] = [handle |-> h, exit_code |-> e]]
      /\ h # 0 => os' = [os EXCEPT ![h] = Running]
      /\ h = 0 => os' = os
      /\ proc_array' = Append(proc_array, a)
  BY DEF Register
<1>2. h # 0 => h \in Handle /\ os[h] = Free
  BY DEF NewHandle
<1>3. e \in Code \cup BeginErrors /\ h \in Handle \cup {0} /\ h # Free
  BY <1>2, CodeAssumption, ObjectAssumption DEF Free
<1>4. /\ heap' \in [Addr -> [handle : Handle \cup {0, Free}, exit_code : Code \cup BeginErrors]]
      /\ heap'[a] = [handle |-> h, exit_code |-> e]
      /\ \A b \in Addr : b # a => heap'[b] = heap[b]
  BY <1>1, <1>3 DEF Types
<1>5. /\ os' \in [Handle -> {Free, Running} \cup Code]
      /\ h # 0 => os'[h] = Running
      /\ \A k \in Handle : k # h => os'[k] = os[k]
  BY <1>1, <1>2 DEF Types
<1>6. a \notin Range(proc_array)
  BY <1>1 DEF Table
<1>7. proc_array \in Seq(Addr) /\ Distinct(proc_array)
  BY DEF Types, Table
<1>8. /\ proc_array' \in Seq(Addr) /\ Distinct(proc_array')
      /\ Range(proc_array') = Range(proc_array) \cup {a}
  <2>1. /\ Append(proc_array, a) \in Seq(Addr) /\ Distinct(Append(proc_array, a))
        /\ Range(Append(proc_array, a)) = Range(proc_array) \cup {a}
    BY <1>6, <1>7, With
  <2> QED
    BY <1>1, <2>1
<1>9. Range(proc_array) \subseteq Addr
  BY <1>7 DEF Range
<1>10. \A b \in Range(proc_array) :
         /\ b \in Addr /\ b # a /\ heap'[b] = heap[b]
         /\ heap[b].handle # Free
         /\ heap[b].handle # 0 => /\ heap[b].handle \in Handle
                                  /\ heap[b].handle # h
                                  /\ os'[heap[b].handle] = os[heap[b].handle]
  <2> TAKE b \in Range(proc_array)
  <2>1. b \in Addr /\ b # a /\ heap'[b] = heap[b]
    BY <1>4, <1>6, <1>9
  <2>2. heap[b].handle \in Handle \cup {0, Free} /\ heap[b].handle # Free
    BY <2>1 DEF Types, Entries
  <2>3. heap[b].handle # 0 => os[heap[b].handle] # Free
    BY DEF Entries
  <2>4. heap[b].handle # 0 => heap[b].handle # h
    BY <1>2, <2>3
  <2> QED
    BY <1>5, <2>1, <2>2, <2>4
<1>11. Table'
  <2>1. [handle |-> h, exit_code |-> e] # NoProcess
    <3>1. [handle |-> h, exit_code |-> e].handle # NoProcess.handle
      BY <1>3 DEF NoProcess
    <3> QED
      BY <3>1
  <2>2. \A b \in Addr : heap'[b] # NoProcess <=> b \in Range(proc_array')
    BY <1>1, <1>4, <1>8, <2>1 DEF Table
  <2> QED
    BY <1>8, <2>2 DEF Table
<1>12. Entries'
  <2>1. \A b \in Range(proc_array') :
          /\ heap'[b].handle # Free
          /\ heap'[b].handle = 0 <=> heap'[b].exit_code # 0
          /\ heap'[b].handle # 0 => os'[heap'[b].handle] # Free
    <3> TAKE b \in Range(proc_array')
    <3>1. CASE b = a
      BY <1>3, <1>4, <1>5, <3>1 DEF Free, Running
    <3>2. CASE b # a
      <4>1. b \in Range(proc_array)
        BY <1>8, <3>2
      <4> QED
        BY <1>10, <4>1 DEF Entries
    <3> QED
      BY <3>1, <3>2
  <2>2. \A b, c \in Range(proc_array') : heap'[b].handle = heap'[c].handle /\ heap'[b].handle # 0 => b = c
    <3> TAKE b, c \in Range(proc_array')
    <3>1. CASE b = a
      BY <1>4, <1>8, <1>10, <3>1
    <3>2. CASE c = a
      BY <1>4, <1>8, <1>10, <3>2
    <3>3. CASE b # a /\ c # a
      BY <1>8, <1>10, <3>3 DEF Entries
    <3> QED
      BY <3>1, <3>2, <3>3
  <2> QED
    BY <2>1, <2>2 DEF Entries
<1> QED
  BY <1>2, <1>4, <1>5, <1>6, <1>8, <1>10, <1>11, <1>12

\* What process_wait_for_any takes is dead: it has an exit code, its own or that
\* of its process.
LEMMA DeadOne ==
  ASSUME IInv, fake_exits_pending # 0 \/ CanWait, fake_exits_pending = 0 /\ CanWait => Dead # {}
  PROVE  /\ Min(Dead) \in DOMAIN proc_array
         /\ LET a == proc_array[Min(Dead)] h == heap[a].handle IN
            /\ a \in Range(proc_array) /\ a \in Addr
            /\ \/ h = 0 /\ heap[a].exit_code # 0 /\ fake_exits_pending > 0
               \/ h \in Handle /\ h # 0 /\ os[h] \in Code /\ fake_exits_pending = 0
            /\ adjust_wait_state(a) = RemoveAt(proc_array, Min(Dead))
<1>1. /\ proc_array \in Seq(Addr) /\ fake_exits_pending \in Nat
      /\ DOMAIN proc_array \subseteq Nat
  BY DEF IInv, Types
<1>2. \A i \in DOMAIN proc_array :
        /\ proc_array[i] \in Range(proc_array) /\ proc_array[i] \in Addr
        /\ heap[proc_array[i]].handle \in Handle \cup {0}
        /\ heap[proc_array[i]].handle = 0 <=> heap[proc_array[i]].exit_code # 0
        /\ heap[proc_array[i]].handle # 0 =>
             os[heap[proc_array[i]].handle] \in Code \cup {Running}
  <2> TAKE i \in DOMAIN proc_array
  <2>1. proc_array[i] \in Range(proc_array) /\ proc_array[i] \in Addr
    BY <1>1 DEF Range
  <2>2. /\ heap[proc_array[i]].handle # Free
        /\ heap[proc_array[i]].handle = 0 <=> heap[proc_array[i]].exit_code # 0
        /\ heap[proc_array[i]].handle # 0 => os[heap[proc_array[i]].handle] # Free
    BY <2>1 DEF IInv, Entries
  <2>3. heap[proc_array[i]].handle \in Handle \cup {0}
    BY <2>1, <2>2 DEF IInv, Types
  <2>4. heap[proc_array[i]].handle # 0 => os[heap[proc_array[i]].handle] \in {Free, Running} \cup Code
    BY <2>3 DEF IInv, Types
  <2> QED
    BY <2>1, <2>2, <2>3, <2>4
<1>3. Dead # {}
  <2>1. CASE fake_exits_pending = 0
    BY <2>1
  <2>2. CASE fake_exits_pending # 0
    <3>1. fake_exits_pending > 0
      BY <1>1, <2>2
    <3>2. Fakes # {}
      BY <2>2, FS_EmptySet DEF IInv, Counted
    <3>3. PICK a \in Range(proc_array) : heap[a].handle = 0
      BY <3>2 DEF Fakes
    <3>4. PICK i \in DOMAIN proc_array : proc_array[i] = a
      BY DEF Range
    <3>5. heap[proc_array[i]].exit_code # 0
      BY <1>2, <3>3, <3>4
    <3> QED
      BY <3>1, <3>5 DEF Dead
  <2> QED
    BY <2>1, <2>2
<1>4. Min(Dead) \in Dead /\ \A i \in Dead : Min(Dead) <= i
  BY <1>1, <1>3, SmallestIsThere DEF Dead
<1>5. Min(Dead) \in DOMAIN proc_array
  BY <1>4 DEF Dead
<1> DEFINE i == Min(Dead)
           a == proc_array[i]
           h == heap[a].handle
           same == {k \in DOMAIN proc_array : heap[proc_array[k]].handle = heap[a].handle}
<1> HIDE DEF i
<1>6. i \in DOMAIN proc_array /\ i \in Dead
  BY <1>4, <1>5 DEF i
<1>7. \/ h = 0 /\ heap[a].exit_code # 0 /\ fake_exits_pending > 0
      \/ h \in Handle /\ h # 0 /\ os[h] \in Code /\ fake_exits_pending = 0
  <2>1. CASE fake_exits_pending > 0
    <3>1. heap[a].exit_code # 0
      BY <1>6, <2>1 DEF Dead
    <3> QED
      BY <1>2, <1>6, <2>1, <3>1
  <2>2. CASE ~(fake_exits_pending > 0)
    <3>1. fake_exits_pending = 0
      BY <1>1, <2>2
    <3>2. os[h] # Running
      BY <1>6, <2>2 DEF Dead
    <3>3. h # 0
      BY <1>2, <1>6, <3>1 DEF CanWait
    <3> QED
      BY <1>2, <1>6, <3>1, <3>2, <3>3
  <2> QED
    BY <2>1, <2>2
<1>8. Min(same) = i
  <2>1. CASE h = 0
    <3>1. fake_exits_pending > 0
      BY <1>7, <2>1
    <3>2. Dead = {k \in DOMAIN proc_array : heap[proc_array[k]].exit_code # 0}
      BY <3>1 DEF Dead
    <3>3. same = Dead
      BY <1>2, <2>1, <3>2
    <3> QED
      BY <3>3 DEF i
  <2>2. CASE h # 0
    <3>1. \A k \in same : k = i
      <4> TAKE k \in same
      <4>1. proc_array[k] = a
        BY <1>2, <1>6, <2>2 DEF IInv, Entries
      <4> QED
        BY <1>6, <4>1 DEF IInv, Table, Distinct
    <3>2. i \in same
      BY <1>6
    <3>3. Min(same) \in same
      BY <1>1, <3>2, SmallestIsThere
    <3> QED
      BY <3>1, <3>3
  <2> QED
    BY <2>1, <2>2
<1>9. adjust_wait_state(a) = RemoveAt(proc_array, i)
  BY <1>8 DEF adjust_wait_state
<1>10. a \in Range(proc_array) /\ a \in Addr
  BY <1>2, <1>6
<1> QED
  BY <1>6, <1>7, <1>9, <1>10 DEF i

\* It leaves the table and the heap, and nothing else does.
LEMMA Released ==
  ASSUME IInv, Wait, ~(fake_exits_pending = 0 /\ ~CanWait)
  PROVE  /\ heap' \in [Addr -> [handle : Handle \cup {0, Free}, exit_code : Code \cup BeginErrors]]
         /\ os' \in [Handle -> {Free, Running} \cup Code]
         /\ proc_array' \in Seq(Addr) /\ fake_exits_pending' \in Nat
         /\ got' \in [pid : Addr \cup {0}, exit_code : Code \cup BeginErrors]
         /\ got'.pid \in Range(proc_array)
         /\ got'.exit_code = IF heap[got'.pid].handle = 0 THEN heap[got'.pid].exit_code
                             ELSE os[heap[got'.pid].handle]
         /\ Range(proc_array') = Range(proc_array) \ {got'.pid}
         /\ \A b \in Range(proc_array') :
              /\ heap'[b] = heap[b]
              /\ heap[b].handle # 0 => os'[heap[b].handle] = os[heap[b].handle]
         /\ Table' /\ Entries' /\ Counted'
<1> DEFINE i == Min(Dead)
           a == proc_array[i]
           h == heap[a].handle
<1>1. /\ proc_array' = adjust_wait_state(a)
      /\ got' = [pid |-> a, exit_code |-> IF h = 0 THEN heap[a].exit_code ELSE os[h]]
      /\ heap' = [heap EXCEPT ![a] = NoProcess]
      /\ os' = [k \in Handle |-> IF k = h THEN Free ELSE os[k]]
      /\ fake_exits_pending' = IF fake_exits_pending > 0 THEN fake_exits_pending - 1 ELSE 0
  BY DEF Wait
<1>2. fake_exits_pending = 0 /\ CanWait => Dead # {}
  BY DEF Wait
<1>3. /\ i \in DOMAIN proc_array /\ a \in Range(proc_array) /\ a \in Addr
      /\ \/ h = 0 /\ heap[a].exit_code # 0 /\ fake_exits_pending > 0
         \/ h \in Handle /\ h # 0 /\ os[h] \in Code /\ fake_exits_pending = 0
      /\ adjust_wait_state(a) = RemoveAt(proc_array, i)
  BY <1>2, DeadOne
<1> HIDE DEF i, h
<1>4. h = heap[a].handle
  BY DEF h
<1>5. /\ proc_array \in Seq(Addr) /\ Distinct(proc_array)
      /\ fake_exits_pending \in Nat
      /\ heap \in [Addr -> [handle : Handle \cup {0, Free}, exit_code : Code \cup BeginErrors]]
      /\ os \in [Handle -> {Free, Running} \cup Code]
  BY DEF IInv, Types, Table
<1>6. proc_array' \in Seq(Addr)
  BY <1>1, <1>3, <1>5, Removal
<1>7. Distinct(proc_array') /\ Range(proc_array') = Range(proc_array) \ {a}
  BY <1>1, <1>3, <1>5, Without
<1> HIDE DEF a
<1>8. /\ heap' \in [Addr -> [handle : Handle \cup {0, Free}, exit_code : Code \cup BeginErrors]]
      /\ heap'[a] = NoProcess /\ \A b \in Addr : b # a => heap'[b] = heap[b]
  <2>1. NoProcess \in [handle : Handle \cup {0, Free}, exit_code : Code \cup BeginErrors]
    BY CodeAssumption DEF NoProcess
  <2> QED
    BY <1>1, <1>3, <1>5, <2>1
<1>9. /\ os' \in [Handle -> {Free, Running} \cup Code]
      /\ \A k \in Handle : k # h => os'[k] = os[k]
  BY <1>1, <1>5
<1>10. fake_exits_pending' \in Nat
  BY <1>1, <1>5
<1>11. (IF h = 0 THEN heap[a].exit_code ELSE os[h]) \in Code \cup BeginErrors
  BY <1>3, <1>5
<1>12. /\ got' \in [pid : Addr \cup {0}, exit_code : Code \cup BeginErrors]
       /\ got'.pid = a
       /\ got'.exit_code = IF h = 0 THEN heap[a].exit_code ELSE os[h]
  BY <1>1, <1>3, <1>11
<1>13. \A b \in Range(proc_array') :
         /\ b \in Addr /\ b \in Range(proc_array) /\ heap'[b] = heap[b]
         /\ heap[b].handle # 0 => /\ heap[b].handle \in Handle
                                  /\ os'[heap[b].handle] = os[heap[b].handle]
  <2> TAKE b \in Range(proc_array')
  <2>1. b \in Range(proc_array) /\ b # a /\ b \in Addr
    <3>1. Range(proc_array) \subseteq Addr
      BY <1>5 DEF Range
    <3> QED
      BY <1>7, <3>1
  <2>2. heap'[b] = heap[b]
    BY <1>8, <2>1
  <2>3. heap[b].handle # 0 => heap[b].handle # h
    BY <1>3, <1>4, <2>1 DEF IInv, Entries
  <2>4. heap[b].handle \in Handle \cup {0}
    BY <1>5, <2>1 DEF IInv, Entries
  <2> QED
    BY <1>9, <2>1, <2>2, <2>3, <2>4
<1>14. Table'
  <2>1. \A b \in Addr : heap'[b] # NoProcess <=> b \in Range(proc_array')
    BY <1>7, <1>8 DEF IInv, Table
  <2> QED
    BY <1>7, <2>1 DEF Table
<1>15. Entries'
  <2>1. \A b \in Range(proc_array') :
          /\ heap'[b].handle # Free
          /\ heap'[b].handle = 0 <=> heap'[b].exit_code # 0
          /\ heap'[b].handle # 0 => os'[heap'[b].handle] # Free
    BY <1>13 DEF IInv, Entries
  <2>2. \A b, c \in Range(proc_array') : heap'[b].handle = heap'[c].handle /\ heap'[b].handle # 0 => b = c
    BY <1>13 DEF IInv, Entries
  <2> QED
    BY <2>1, <2>2 DEF Entries
<1>16. Counted'
  <2>1. IsFiniteSet(Fakes)
    BY <1>5, FiniteRange, FS_Subset DEF Fakes
  <2>2. Fakes' = Fakes \ {a}
    BY <1>7, <1>13 DEF Fakes
  <2>3. Cardinality(Fakes') = IF a \in Fakes THEN Cardinality(Fakes) - 1 ELSE Cardinality(Fakes)
    BY <2>1, <2>2, FS_RemoveElement
  <2>4. a \in Fakes <=> h = 0
    BY <1>3, <1>4 DEF Fakes
  <2>5. fake_exits_pending = Cardinality(Fakes)
    BY DEF IInv, Counted
  <2>6. fake_exits_pending' = Cardinality(Fakes')
    BY <1>1, <1>3, <1>5, <2>3, <2>4, <2>5
  <2> QED
    BY <2>6 DEF Counted
<1> QED
  BY <1>3, <1>4, <1>6, <1>7, <1>8, <1>9, <1>10, <1>12, <1>13, <1>14, <1>15, <1>16

------------------------------------------------------------------------------
(* The steps that leave the table and the chain alone                      *)

\* The hypotheses.  The shell of a $(shell) can be launched: if not, make dies
\* with an entry in the table that is no process and no faked exit.  And make,
\* when it gives up in func_shell's wait, has no second line to launch for a job:
\* shell_function_pid is then the address of a sub_process that has been freed,
\* where the new one may be put (job.c:514).
PipesLaunch == ~PipeFails
GivesUpApart ==
  \A b \in Builds : b.keep_going \/ b.shell = {} \/ \A j \in Job : b.lines[j] = 1

LEMMA Who ==
  ASSUME Types
  PROVE  /\ Range(children) \subseteq Job
         /\ \A c \in Child :
              /\ c # "shell" <=> c \in Job
              /\ pid_of(c) = IF c = "shell" THEN shell_function_pid ELSE pid[c]
              /\ Holds(c) <=> IF c = "shell" THEN shell_function_pid # 0 ELSE c \in Range(children)
              /\ Awaited(c) <=> IF c = "shell"
                                  THEN shell_function_pid # 0 /\ shell_function_completed = 0
                                  ELSE c \in Range(children) /\ ~(pc = "got" /\ cur = c)
<1>1. Range(children) \subseteq Job
  BY DEF Types, Range
<1>2. "shell" \notin Job
  BY JobAssumption
<1> QED
  BY <1>1, <1>2 DEF pid_of, Holds, Awaited, Child

LEMMA WhoNext ==
  ASSUME Types'
  PROVE  /\ Range(children') \subseteq Job
         /\ \A c \in Child :
              /\ c # "shell" <=> c \in Job
              /\ pid_of(c)' = IF c = "shell" THEN shell_function_pid' ELSE pid'[c]
              /\ Holds(c)' <=> IF c = "shell" THEN shell_function_pid' # 0 ELSE c \in Range(children')
              /\ Awaited(c)' <=> IF c = "shell"
                                  THEN shell_function_pid' # 0 /\ shell_function_completed' = 0
                                  ELSE c \in Range(children') /\ ~(pc' = "got" /\ cur' = c)
<1>1. Range(children') \subseteq Job
  BY DEF Types, Range
<1>2. "shell" \notin Job
  BY JobAssumption
<1> QED
  BY <1>1, <1>2 DEF pid_of, Holds, Awaited, Child

LEMMA Unmoved ==
  ASSUME IInv, Types', UNCHANGED <<table, children, pid, shell, got>>,
         pc \notin {"match", "got"}, pc' \notin {"match", "got"}
  PROVE  /\ Table' /\ Counted' /\ Entries' /\ Apart' /\ Chained' /\ Answered'
         /\ \A c \in Child : CommandOf(c)' = CommandOf(c)
<1>1. /\ heap' = heap /\ os' = os /\ proc_array' = proc_array
      /\ fake_exits_pending' = fake_exits_pending
      /\ children' = children /\ pid' = pid /\ got' = got
      /\ shell_function_pid' = shell_function_pid
      /\ shell_function_completed' = shell_function_completed
  BY DEF table, shell
<1>2. \A c \in Child : /\ pid_of(c)' = pid_of(c) /\ Holds(c)' = Holds(c)
                       /\ Awaited(c)' = Awaited(c) /\ Waited(c)' = Waited(c)
  BY <1>1 DEF pid_of, Holds, Awaited, Waited
<1>3. Table' /\ Counted' /\ Entries'
  BY <1>1 DEF IInv, Table, Counted, Entries, Fakes
<1>4. Apart'
  BY <1>1, <1>2 DEF IInv, Apart
<1>5. Chained'
  BY <1>1, <1>2 DEF IInv, Chained
<1>6. Answered'
  BY DEF Answered
<1>7. \A c \in Child : CommandOf(c)' = CommandOf(c)
  BY <1>1, <1>2 DEF CommandOf
<1> QED
  BY <1>3, <1>4, <1>5, <1>6, <1>7

LEMMA NewJobStep ==
  ASSUME IInv, NewJob
  PROVE  IInv' /\ \A c \in Child : CommandOf(c)' = CommandOf(c)
<1>1. PICK j \in Job : /\ state[j] = "not_started" /\ new' = j
                       /\ pc' = IF j \in build.shell THEN "shell" ELSE "slots"
  BY DEF NewJob
<1>2. /\ pc = "walk" /\ UNCHANGED <<table, jobs, shell, build, dying, ret, err, got, cur, told>>
  BY DEF NewJob
<1>3. Types'
  BY <1>1, <1>2 DEF IInv, Types, table, jobs, shell
<1>4. shell_function_pid = 0 /\ ~dying
  BY <1>2 DEF IInv, Shells, Where
<1>5. Shells'
  BY <1>1, <1>2, <1>4 DEF Shells, shell
<1>6. Started'
  BY <1>1, <1>2 DEF IInv, Started, jobs
<1> QED
  BY <1>1, <1>2, <1>3, <1>5, <1>6, Unmoved DEF IInv, jobs

LEMMA ReadShellStep ==
  ASSUME IInv, ReadShell
  PROVE  IInv' /\ \A c \in Child : CommandOf(c)' = CommandOf(c)
<1>1. /\ pc = "read" /\ pc' = "read_all"
      /\ UNCHANGED <<table, jobs, shell, build, dying, ret, err, new, got, cur, told>>
  BY DEF ReadShell
<1>2. Types'
  BY <1>1 DEF IInv, Types, table, jobs, shell
<1>3. Shells'
  BY <1>1 DEF IInv, Shells, Where, shell
<1>4. Started'
  BY <1>1 DEF IInv, Started, Where, jobs
<1> QED
  BY <1>1, <1>2, <1>3, <1>4, Unmoved DEF IInv, jobs

LEMMA CallStep ==
  ASSUME IInv, WaitForShell \/ WaitForSlot
  PROVE  IInv' /\ \A c \in Child : CommandOf(c)' = CommandOf(c)
<1>1. /\ pc \in {"read_all", "slots"} /\ pc' = "wait" /\ ret' = pc /\ err' = FALSE
      /\ pc = "read_all" => shell_function_completed = 0
      /\ UNCHANGED <<table, jobs, shell, build, dying, new, got, cur, told>>
  BY DEF WaitForShell, WaitForSlot, CallReap
<1>2. Types'
  BY <1>1 DEF IInv, Types, table, jobs, shell
<1>3. Where' = Where /\ Where = pc
  BY <1>1 DEF Where
<1>4. Shells'
  BY <1>1, <1>3 DEF IInv, Shells, shell
<1>5. Started'
  BY <1>1, <1>3 DEF IInv, Started, jobs
<1> QED
  BY <1>1, <1>2, <1>4, <1>5, Unmoved DEF IInv, jobs

LEMMA ShellDoneStep ==
  ASSUME IInv, ShellDone
  PROVE  IInv' /\ \A c \in Child : CommandOf(c)' = CommandOf(c)
<1>1. /\ pc = "read_all" /\ shell_function_completed # 0
      /\ shell_function_pid' = 0 /\ pc' = "slots"
      /\ UNCHANGED <<table, jobs, shell_function_completed, build, dying, ret, err, new, got, cur, told>>
  BY DEF ShellDone
<1>2. /\ heap' = heap /\ os' = os /\ proc_array' = proc_array
      /\ fake_exits_pending' = fake_exits_pending
      /\ children' = children /\ pid' = pid /\ line' = line /\ state' = state /\ got' = got
  BY <1>1 DEF table, jobs
<1>3. Types'
  BY <1>1, <1>2 DEF IInv, Types
<1>4. \A c \in Child : /\ Awaited(c)' <=> Awaited(c)
                       /\ Awaited(c) => pid_of(c)' = pid_of(c)
                       /\ Waited(c)' <=> Waited(c)
                       /\ Holds(c)' => Holds(c) /\ pid_of(c)' = pid_of(c)
  BY <1>1, <1>2, <1>3, Who, WhoNext DEF IInv, Child, Waited
<1>5. Table' /\ Counted' /\ Entries'
  BY <1>2 DEF IInv, Table, Counted, Entries, Fakes
<1>6. Apart'
  BY <1>2, <1>4 DEF IInv, Apart
<1>7. Chained'
  BY <1>2, <1>4 DEF IInv, Chained, Waited
<1>8. Shells'
  BY <1>1 DEF IInv, Shells, Where
<1>9. Started'
  BY <1>1, <1>2 DEF IInv, Started, Where
<1>10. Answered'
  BY <1>1 DEF Answered
<1>11. \A c \in Child : CommandOf(c)' = CommandOf(c)
  BY <1>1, <1>2, <1>4 DEF CommandOf
<1> QED
  BY <1>3, <1>5, <1>6, <1>7, <1>8, <1>9, <1>10, <1>11 DEF IInv

LEMMA EndPassStep ==
  ASSUME IInv, EndPass
  PROVE  IInv' /\ \A c \in Child : CommandOf(c)' = CommandOf(c)
<1>1. /\ pc = "walk" /\ UNCHANGED <<table, jobs, shell, build, new, got, cur, told>>
      /\ \/ pc' = "wait" /\ ret' = "walk" /\ err' = FALSE /\ dying' = dying
         \/ /\ pc' = (IF dying THEN "exited" ELSE "die") /\ dying' = TRUE
            /\ ret' = ret /\ err' = err
  BY DEF EndPass, CallReap, Die
<1>2. Types'
  <2>1. /\ pc' \in {"wait", "exited", "die"} /\ ret' \in {ret, "walk"}
        /\ err' \in {err, FALSE} /\ dying' \in {dying, TRUE}
    BY <1>1
  <2>2. Types
    BY DEF IInv
  <2>3. /\ pc' \in {"walk", "shell", "read", "read_all", "slots", "wait", "match", "got", "die", "exited"}
        /\ ret' \in {"walk", "read_all", "slots", "die"} /\ err' \in BOOLEAN /\ dying' \in BOOLEAN
    BY <2>1, <2>2 DEF Types
  <2> QED
    BY <1>1, <2>2, <2>3 DEF Types, table, jobs, shell
<1>3. shell_function_pid = 0 /\ ~dying
  BY <1>1 DEF IInv, Shells, Where
<1>4. Shells'
  BY <1>1, <1>3 DEF Shells, Where, shell
<1>5. Started'
  BY <1>1 DEF IInv, Started, Where, jobs
<1> QED
  BY <1>1, <1>2, <1>4, <1>5, Unmoved DEF IInv, jobs

LEMMA DieStep ==
  ASSUME IInv, DieWait \/ Exit
  PROVE  IInv' /\ \A c \in Child : CommandOf(c)' = CommandOf(c)
<1>1. /\ pc = "die" /\ UNCHANGED <<table, jobs, shell, build, dying, new, got, cur, told>>
      /\ \/ pc' = "wait" /\ ret' = "die" /\ err' \in BOOLEAN
         \/ pc' = "exited" /\ ret' = ret /\ err' = err
  BY DEF DieWait, Exit, CallReap
<1>2. Types'
  BY <1>1 DEF IInv, Types, table, jobs, shell
<1>3. Where = "die" /\ Where' \in {"die", "exited"}
  BY <1>1 DEF Where
<1>4. Shells'
  BY <1>1, <1>3 DEF IInv, Shells, shell
<1>5. Started'
  BY <1>1, <1>3 DEF IInv, Started, jobs
<1> QED
  BY <1>1, <1>2, <1>4, <1>5, Unmoved DEF IInv, jobs

------------------------------------------------------------------------------
(* The steps that launch a command                                         *)

\* A command of k is started, of nobody else.
Starts(k) ==
  \A c \in Child : IF c = k
    THEN CommandOf(c) = Free /\ CommandOf(c)' \in {Running} \cup Code \cup BeginErrors
    ELSE CommandOf(c)' = CommandOf(c)

\* A command of k is launched: its sub_process is entered in the table, and the
\* others stay as they are.
LEMMA Launched ==
  ASSUME IInv, NEW a \in Addr, NEW h \in NewHandle \cup {0}, NEW e \in BeginErrors \cup {0},
         (h = 0) <=> (e # 0), Register(a, h, e),
         fake_exits_pending' = fake_exits_pending + (IF h = 0 THEN 1 ELSE 0),
         NEW k \in Child,
         \A c \in Child : IF c = k THEN ~Awaited(c) /\ Awaited(c)' /\ pid_of(c)' = a
                          ELSE /\ Awaited(c)' <=> Awaited(c)
                               /\ pid_of(c)' = pid_of(c)
                               /\ Holds(c)' => Awaited(c),
         pc # "match", pc' # "match"
  PROVE  /\ heap' \in [Addr -> [handle : Handle \cup {0, Free}, exit_code : Code \cup BeginErrors]]
         /\ os' \in [Handle -> {Free, Running} \cup Code]
         /\ proc_array' \in Seq(Addr) /\ fake_exits_pending' \in Nat
         /\ Table' /\ Counted' /\ Entries' /\ Chained'
         /\ \A c, d \in Child : Holds(c)' /\ Holds(d)' /\ pid_of(c)' = pid_of(d)' => c = d
         /\ Starts(k)
<1>1. /\ heap' \in [Addr -> [handle : Handle \cup {0, Free}, exit_code : Code \cup BeginErrors]]
      /\ os' \in [Handle -> {Free, Running} \cup Code]
      /\ proc_array' \in Seq(Addr)
      /\ a \notin Range(proc_array)
      /\ Range(proc_array') = Range(proc_array) \cup {a}
      /\ heap'[a] = [handle |-> h, exit_code |-> e]
      /\ h # 0 => h \in Handle /\ os[h] = Free /\ os'[h] = Running
      /\ \A b \in Range(proc_array) :
           /\ heap'[b] = heap[b]
           /\ heap[b].handle # 0 => os'[heap[b].handle] = os[heap[b].handle]
      /\ Table' /\ Entries'
  BY Registered DEF IInv
<1>2. heap'[a].handle = h /\ heap'[a].exit_code = e
  BY <1>1
<1>3. fake_exits_pending' \in Nat /\ Counted'
  <2>1. IsFiniteSet(Fakes)
    BY FiniteRange, FS_Subset DEF IInv, Types, Fakes
  <2>2. fake_exits_pending = Cardinality(Fakes) /\ fake_exits_pending \in Nat
    BY DEF IInv, Types, Counted
  <2>3. CASE h = 0
    <3>1. Fakes' = Fakes \cup {a}
      BY <1>1, <1>2, <2>3 DEF Fakes
    <3>2. a \notin Fakes
      BY <1>1 DEF Fakes
    <3>3. Cardinality(Fakes') = Cardinality(Fakes) + 1
      BY <2>1, <3>1, <3>2, FS_AddElement
    <3> QED
      BY <2>2, <2>3, <3>3 DEF Counted
  <2>4. CASE h # 0
    <3>1. Fakes' = Fakes
      BY <1>1, <1>2, <2>4 DEF Fakes
    <3> QED
      BY <2>2, <2>4, <3>1 DEF Counted
  <2> QED
    BY <2>3, <2>4
<1>4. \A c \in Child : /\ Waited(c) <=> Awaited(c)
                       /\ Waited(c)' <=> Awaited(c)'
  BY DEF Waited
<1>5. \A c \in Child \ {k} : Awaited(c) => pid_of(c) \in Range(proc_array)
  BY <1>4 DEF IInv, Chained
<1>6. Chained'
  <2>1. \A c \in Child : Waited(c)' => pid_of(c)' \in Range(proc_array')
    BY <1>1, <1>4, <1>5
  <2>2. \A b \in Range(proc_array') : \E c \in Child : Waited(c)' /\ pid_of(c)' = b
    <3>1. \E c \in Child : Waited(c)' /\ pid_of(c)' = a
      BY <1>4
    <3>2. \A b \in Range(proc_array) : \E c \in Child : c # k /\ Waited(c) /\ pid_of(c) = b
      BY <1>4 DEF IInv, Chained
    <3>3. \A b \in Range(proc_array) : \E c \in Child : Waited(c)' /\ pid_of(c)' = b
      BY <1>4, <3>2
    <3> QED
      BY <1>1, <3>1, <3>3
  <2> QED
    BY <2>1, <2>2 DEF Chained
<1>7. \A c \in Child : Awaited(c) => Holds(c)
  BY DEF Awaited, Holds
<1>8. \A c, d \in Child : Holds(c)' /\ Holds(d)' /\ pid_of(c)' = pid_of(d)' => c = d
  <2>1. \A c, d \in Child : c # k /\ d # k /\ Holds(c)' /\ Holds(d)' /\ pid_of(c)' = pid_of(d)' => c = d
    BY <1>7 DEF IInv, Apart
  <2>2. \A c, d \in Child : c = k /\ Holds(d)' /\ pid_of(c)' = pid_of(d)' => c = d
    BY <1>1, <1>5
  <2> QED
    BY <2>1, <2>2
<1>9. \A c \in Child : c = k =>
        CommandOf(c) = Free /\ CommandOf(c)' \in {Running} \cup Code \cup BeginErrors
  <2>1. \A c \in Child : c = k => CommandOf(c) = Free /\ CommandOf(c)' = IF h = 0 THEN e ELSE os'[h]
    BY <1>2 DEF CommandOf
  <2> QED
    BY <1>1, <2>1
<1>10. \A c \in Child : c # k => CommandOf(c)' = CommandOf(c)
  <2>1. \A c \in Child : c # k /\ Awaited(c) =>
          /\ pid_of(c)' = pid_of(c)
          /\ heap'[pid_of(c)] = heap[pid_of(c)]
          /\ heap[pid_of(c)].handle # 0 =>
               os'[heap[pid_of(c)].handle] = os[heap[pid_of(c)].handle]
    BY <1>1, <1>5
  <2>2. \A c \in Child : c # k => (Awaited(c)' <=> Awaited(c))
    OBVIOUS
  <2> QED
    BY <2>1, <2>2 DEF CommandOf
<1> QED
  BY <1>1, <1>3, <1>6, <1>8, <1>9, <1>10 DEF Starts

LEMMA OpenPipeStep ==
  ASSUME IInv, PipesLaunch, OpenPipe
  PROVE  IInv' /\ \E k \in Child : Starts(k)
<1>1. PICK a \in Addr, h \in NewHandle \cup (IF PipeFails THEN {0} ELSE {}) :
        /\ Register(a, h, 0)
        /\ IF h = 0 THEN Die /\ UNCHANGED shell
           ELSE /\ shell_function_pid' = a /\ shell_function_completed' = 0
                /\ pc' = "read" /\ UNCHANGED dying
  BY DEF OpenPipe
<1>2. /\ pc = "shell"
      /\ UNCHANGED <<fake_exits_pending, jobs, build, ret, err, new, got, cur, told>>
  BY DEF OpenPipe
<1>3. h \in Handle /\ h # 0 /\ h \in NewHandle
  BY <1>1, ObjectAssumption DEF PipesLaunch, NewHandle
<1>4. /\ shell_function_pid' = a /\ shell_function_completed' = 0
      /\ pc' = "read" /\ dying' = dying
      /\ children' = children /\ pid' = pid /\ line' = line /\ state' = state
  BY <1>1, <1>2, <1>3 DEF jobs
<1>5. 0 \in BeginErrors \cup {0} /\ a # 0
  BY ObjectAssumption
<1>6. /\ heap' \in [Addr -> [handle : Handle \cup {0, Free}, exit_code : Code \cup BeginErrors]]
      /\ os' \in [Handle -> {Free, Running} \cup Code]
      /\ proc_array' \in Seq(Addr)
  BY <1>1, <1>3, <1>5, Registered DEF IInv
<1>7. Types'
  BY <1>2, <1>4, <1>6 DEF IInv, Types
<1>8. Where = "shell" /\ Where' = "read"
  BY <1>2, <1>4 DEF Where
<1>9. ~dying /\ shell_function_pid = 0
  BY <1>8 DEF IInv, Shells
<1>9a. PICK k \in Child : k = "shell"
  BY DEF Child
<1>10. \A c \in Child : IF c = k THEN ~Awaited(c) /\ Awaited(c)' /\ pid_of(c)' = a
                          ELSE /\ Awaited(c)' <=> Awaited(c)
                               /\ pid_of(c)' = pid_of(c)
                               /\ Holds(c)' => Awaited(c)
  <2>1. Types /\ Types' /\ pc # "got" /\ pc' # "got"
    BY <1>2, <1>4, <1>7 DEF IInv
  <2> QED
    BY <1>4, <1>5, <1>9, <1>9a, <2>1, Who, WhoNext
<1>12. fake_exits_pending' = fake_exits_pending + (IF h = 0 THEN 1 ELSE 0)
  BY <1>2, <1>3 DEF IInv, Types
<1>13. /\ Table' /\ Counted' /\ Entries' /\ Chained'
       /\ \A c, d \in Child : Holds(c)' /\ Holds(d)' /\ pid_of(c)' = pid_of(d)' => c = d
       /\ Starts(k)
  <2>1. h \in NewHandle \cup {0} /\ ((h = 0) <=> (0 # 0)) /\ pc # "match" /\ pc' # "match"
    BY <1>2, <1>3, <1>4
  <2>2. Register(a, h, 0) /\ 0 \in BeginErrors \cup {0}
    BY <1>1
  <2> QED
    BY <1>10, <1>12, <2>1, <2>2, Launched
<1>14. Apart'
  BY <1>4, <1>13 DEF IInv, Apart
<1>15. Shells'
  <2>1. build.shell # {}
    BY <1>2 DEF IInv, Shells
  <2> QED
    BY <1>2, <1>4, <1>8, <1>9, <2>1 DEF Shells
<1>16. Started'
  BY <1>2, <1>4, <1>8 DEF IInv, Started
<1>17. Answered'
  BY <1>4 DEF Answered
<1>18. IInv'
  BY <1>7, <1>13, <1>14, <1>15, <1>16, <1>17 DEF IInv
<1> QED
  BY <1>13, <1>18

LEMMA StartJobStep ==
  ASSUME IInv, StartJob
  PROVE  IInv' /\ \E k \in Child : Starts(k)
<1>1. /\ pc = "slots" /\ job_slots_used # JobSlots /\ Launch(new)
      /\ children' = <<new>> \o children /\ pc' = "walk"
      /\ UNCHANGED <<shell, build, dying, ret, err, new, got, cur, told>>
  BY DEF StartJob
<1>2. PICK a \in Addr : /\ process_easy(a)
                        /\ pid' = [pid EXCEPT ![new] = a]
                        /\ line' = [line EXCEPT ![new] = line[new] + 1]
                        /\ state' = [state EXCEPT ![new] = "running"]
  BY <1>1 DEF Launch
<1>3. PICK h \in NewHandle \cup {0}, e \in BeginErrors \cup {0} :
        /\ (h = 0) <=> (e # 0)
        /\ Register(a, h, e)
        /\ fake_exits_pending' = fake_exits_pending + (IF h = 0 THEN 1 ELSE 0)
  BY <1>2 DEF process_easy
<1>4. Where = "slots" /\ Where' = "walk"
  BY <1>1 DEF Where
<1>5. ~dying /\ shell_function_pid = 0 /\ new \in Job /\ state[new] = "not_started"
  BY <1>4 DEF IInv, Shells, Started
<1>5a. PICK n \in Job : n = new
  BY <1>5
<1>6. new \notin Range(children) /\ line[new] = 0
  BY <1>5 DEF IInv, Started
<1>7. children \in Seq(Job) /\ Distinct(children)
  BY DEF IInv, Types, Apart
<1>8. /\ children' \in Seq(Job) /\ Distinct(children')
      /\ Range(children') = Range(children) \cup {new} /\ Len(children') = Len(children) + 1
  <2>1. /\ <<new>> \o children \in Seq(Job) /\ Distinct(<<new>> \o children)
        /\ Range(<<new>> \o children) = Range(children) \cup {new}
        /\ Len(<<new>> \o children) = Len(children) + 1
    BY <1>5, <1>6, <1>7, Ahead
  <2> QED
    BY <1>1, <2>1
<1>9. a # 0
  BY ObjectAssumption
<1>10. /\ pid' \in [Job -> Addr \cup {0}] /\ pid'[new] = a
       /\ \A j \in Job : j # new => pid'[j] = pid[j]
       /\ line' \in [Job -> Nat] /\ line'[new] = 1
       /\ \A j \in Job : j # new => line'[j] = line[j]
       /\ state' \in [Job -> {"not_started", "running", "done", "failed"}] /\ state'[new] = "running"
       /\ \A j \in Job : j # new => state'[j] = state[j]
  BY <1>2, <1>5, <1>6 DEF IInv, Types
<1>11. /\ heap' \in [Addr -> [handle : Handle \cup {0, Free}, exit_code : Code \cup BeginErrors]]
       /\ os' \in [Handle -> {Free, Running} \cup Code]
       /\ proc_array' \in Seq(Addr)
  BY <1>3, Registered DEF IInv
<1>12. fake_exits_pending' \in Nat
  BY <1>3 DEF IInv, Types
<1>13. Types'
  BY <1>1, <1>8, <1>10, <1>11, <1>12 DEF IInv, Types, shell
<1>14. \A c \in Child : IF c = n THEN ~Awaited(c) /\ Awaited(c)' /\ pid_of(c)' = a
                          ELSE /\ Awaited(c)' <=> Awaited(c)
                               /\ pid_of(c)' = pid_of(c)
                               /\ Holds(c)' => Awaited(c)
  <2>1. Types /\ Types' /\ pc # "got" /\ pc' # "got"
    BY <1>1, <1>13 DEF IInv
  <2>2. \A c \in Job : IF c = n
          THEN pid'[c] = a /\ c \in Range(children') /\ c \notin Range(children)
          ELSE pid'[c] = pid[c] /\ (c \in Range(children') <=> c \in Range(children))
    BY <1>5a, <1>6, <1>8, <1>10
  <2>3. shell_function_pid = 0 /\ shell_function_pid' = 0
    BY <1>1, <1>5 DEF shell
  <2> QED
    BY <2>1, <2>2, <2>3, Who, WhoNext
<1>15. n \in Child
  BY DEF Child
<1>16. /\ Table' /\ Counted' /\ Entries' /\ Chained'
       /\ \A c, d \in Child : Holds(c)' /\ Holds(d)' /\ pid_of(c)' = pid_of(d)' => c = d
       /\ Starts(n)
  BY <1>1, <1>3, <1>14, <1>15, Launched
<1>17. Apart'
  <2>1. Len(children') <= JobSlots
    BY <1>1, <1>7, <1>8, SlotsAssumption DEF IInv, Apart, job_slots_used
  <2>2. \A j \in Range(children') : pid'[j] # 0
    <3>1. Range(children) \subseteq Job
      BY Who DEF IInv
    <3> QED
      BY <1>8, <1>9, <1>10, <3>1 DEF IInv, Apart
  <2> QED
    BY <1>8, <1>16, <2>1, <2>2 DEF Apart
<1>18. Shells'
  BY <1>1, <1>5 DEF Shells, shell
<1>19. Started'
  <2>1. \A j \in Range(children') : state'[j] = "running" /\ line'[j] # 0
    <3>1. Range(children) \subseteq Job
      BY Who DEF IInv
    <3> QED
      BY <1>8, <1>10, <3>1 DEF IInv, Started
  <2>2. \A j \in Job : state'[j] = "not_started" => line'[j] = 0
    BY <1>10 DEF IInv, Started
  <2>3. \A j \in Job : line'[j] <= build'.lines[j]
    <3> TAKE j \in Job
    <3>1. build.lines[j] \in Nat \ {0}
      BY BuildsAssumption DEF IInv, Types
    <3> QED
      BY <1>1, <1>10, <3>1 DEF IInv, Started
  <2> QED
    BY <1>4, <2>1, <2>2, <2>3 DEF Started
<1>20. Answered'
  BY <1>1 DEF Answered
<1>21. IInv'
  BY <1>13, <1>16, <1>17, <1>18, <1>19, <1>20 DEF IInv
<1> QED
  BY <1>15, <1>16, <1>21

LEMMA NextLineStep ==
  ASSUME IInv, GivesUpApart, NextLine
  PROVE  IInv' /\ \E k \in Child : Starts(k)
<1>1. /\ pc = "got" /\ got.exit_code = 0 /\ line[cur] < build.lines[cur]
      /\ Launch(cur) /\ pc' = "wait"
      /\ UNCHANGED <<children, shell, build, dying, ret, err, new, got, cur, told>>
  BY DEF NextLine
<1>2. PICK a \in Addr : /\ process_easy(a)
                        /\ pid' = [pid EXCEPT ![cur] = a]
                        /\ line' = [line EXCEPT ![cur] = line[cur] + 1]
                        /\ state' = [state EXCEPT ![cur] = "running"]
  BY <1>1 DEF Launch
<1>3. PICK h \in NewHandle \cup {0}, e \in BeginErrors \cup {0} :
        /\ (h = 0) <=> (e # 0)
        /\ Register(a, h, e)
        /\ fake_exits_pending' = fake_exits_pending + (IF h = 0 THEN 1 ELSE 0)
  BY <1>2 DEF process_easy
<1>4. Where' = Where
  BY <1>1 DEF Where
<1>5. Range(children) \subseteq Job /\ cur \in Range(children) /\ cur \in Job
  BY <1>1, Who DEF IInv, Answered
<1>5a. PICK n \in Job : n = cur
  BY <1>5
<1>6. state[cur] = "running" /\ line[cur] # 0 /\ line[cur] \in Nat /\ build.lines[cur] \in Nat \ {0}
  BY <1>5, BuildsAssumption DEF IInv, Types, Started
<1>7. shell_function_pid # 0 => shell_function_completed = 0
  <2> SUFFICES ASSUME shell_function_pid # 0, shell_function_completed # 0 PROVE FALSE
    OBVIOUS
  <2>1. dying
    BY <1>1 DEF IInv, Shells
  <2>2. build.shell # {} /\ ~build.keep_going
    BY <1>1, <2>1 DEF IInv, Shells, Where
  <2>3. build.lines[cur] = 1
    BY <1>5, <2>2 DEF IInv, Types, GivesUpApart
  <2> QED
    BY <1>1, <1>6, <2>3
<1>8. a # 0
  BY ObjectAssumption
<1>9. /\ pid' \in [Job -> Addr \cup {0}] /\ pid'[cur] = a
      /\ \A j \in Job : j # cur => pid'[j] = pid[j]
      /\ line' \in [Job -> Nat] /\ line'[cur] = line[cur] + 1
      /\ \A j \in Job : j # cur => line'[j] = line[j]
      /\ state' \in [Job -> {"not_started", "running", "done", "failed"}] /\ state'[cur] = "running"
      /\ \A j \in Job : j # cur => state'[j] = state[j]
  BY <1>2, <1>5, <1>6 DEF IInv, Types
<1>10. /\ heap' \in [Addr -> [handle : Handle \cup {0, Free}, exit_code : Code \cup BeginErrors]]
       /\ os' \in [Handle -> {Free, Running} \cup Code]
       /\ proc_array' \in Seq(Addr)
  BY <1>3, Registered DEF IInv
<1>11. fake_exits_pending' \in Nat
  BY <1>3 DEF IInv, Types
<1>12. Types'
  BY <1>1, <1>9, <1>10, <1>11 DEF IInv, Types, shell
<1>13. \A c \in Child : IF c = n THEN ~Awaited(c) /\ Awaited(c)' /\ pid_of(c)' = a
                          ELSE /\ Awaited(c)' <=> Awaited(c)
                               /\ pid_of(c)' = pid_of(c)
                               /\ Holds(c)' => Awaited(c)
  <2>1. Types /\ Types' /\ children' = children /\ pc = "got" /\ pc' = "wait" /\ cur = n
        /\ shell_function_pid' = shell_function_pid
        /\ shell_function_completed' = shell_function_completed
    BY <1>1, <1>5a, <1>12 DEF shell, IInv
  <2>2. \A c \in Job : pid'[c] = IF c = n THEN a ELSE pid[c]
    BY <1>5a, <1>9
  <2>3. n \in Range(children)
    BY <1>5, <1>5a
  <2> QED
    BY <1>7, <2>1, <2>2, <2>3, Who, WhoNext
<1>14. n \in Child
  BY DEF Child
<1>15. /\ Table' /\ Counted' /\ Entries' /\ Chained'
       /\ \A c, d \in Child : Holds(c)' /\ Holds(d)' /\ pid_of(c)' = pid_of(d)' => c = d
       /\ Starts(n)
  BY <1>1, <1>3, <1>13, <1>14, Launched
<1>16. Apart'
  BY <1>1, <1>5, <1>8, <1>9, <1>15 DEF IInv, Apart
<1>17. Shells'
  BY <1>1, <1>4, <1>7 DEF IInv, Shells, shell
<1>18. Started'
  <2>1. \A j \in Range(children') : state'[j] = "running" /\ line'[j] # 0
    BY <1>1, <1>5, <1>6, <1>9 DEF IInv, Started
  <2>2. \A j \in Job : state'[j] = "not_started" => line'[j] = 0
    BY <1>9 DEF IInv, Started
  <2>3. \A j \in Job : line'[j] <= build'.lines[j]
    BY <1>1, <1>6, <1>9 DEF IInv, Started
  <2>4. Where' \in {"shell", "read", "read_all", "slots"} => new' \in Job /\ state'[new'] = "not_started"
    BY <1>1, <1>4, <1>6, <1>9 DEF IInv, Started
  <2> QED
    BY <2>1, <2>2, <2>3, <2>4 DEF Started
<1>19. Answered'
  BY <1>1 DEF Answered
<1>20. IInv'
  BY <1>12, <1>15, <1>16, <1>17, <1>18, <1>19 DEF IInv
<1> QED
  BY <1>14, <1>15, <1>20

------------------------------------------------------------------------------
(* The steps of the wait                                                   *)

LEMMA HasPid ==
  ASSUME IInv
  PROVE  \A c \in Child : /\ Awaited(c) => Holds(c)
                          /\ Holds(c) => pid_of(c) # 0
<1>1. \A c \in Child : Holds(c) => pid_of(c) # 0
  BY Who DEF IInv, Apart
<1> QED
  BY <1>1 DEF Awaited, Holds

\* What c's command is, in terms of the table.
LEMMA InTable ==
  ASSUME IInv, pc # "match"
  PROVE  \A c \in Child : Awaited(c) =>
           /\ pid_of(c) \in Range(proc_array)
           /\ CommandOf(c) = IF heap[pid_of(c)].handle = 0 THEN heap[pid_of(c)].exit_code
                             ELSE os[heap[pid_of(c)].handle]
<1>1. \A c \in Child : Awaited(c) => Waited(c)
  BY DEF Waited
<1> QED
  BY <1>1 DEF IInv, Chained, CommandOf

LEMMA WaitStep ==
  ASSUME IInv, Wait
  PROVE  IInv' /\ \A c \in Child : CommandOf(c)' = CommandOf(c)
<1>1. /\ pc = "wait" /\ pc' = "match"
      /\ UNCHANGED <<jobs, shell, build, dying, ret, err, new, cur, told>>
  BY DEF Wait
<1>2. Where' = Where
  BY <1>1 DEF Where
<1>3. /\ children' = children /\ pid' = pid /\ line' = line /\ state' = state
      /\ shell_function_pid' = shell_function_pid
      /\ shell_function_completed' = shell_function_completed
  BY <1>1 DEF jobs, shell
<1>4. \A c \in Child : /\ pid_of(c)' = pid_of(c) /\ (Holds(c)' <=> Holds(c))
                       /\ (Awaited(c)' <=> Awaited(c)) /\ (Waited(c) <=> Awaited(c))
                       /\ Waited(c)' <=> Awaited(c) /\ got'.pid # pid_of(c)
  <2>1. \A c \in Child : pid_of(c)' = pid_of(c) /\ (Holds(c)' <=> Holds(c)) /\ (Awaited(c)' <=> Awaited(c))
    BY <1>1, <1>3 DEF pid_of, Holds, Awaited
  <2> QED
    BY <1>1, <2>1 DEF Waited
<1>5. Shells'
  BY <1>1, <1>2, <1>3 DEF IInv, Shells
<1>6. Started'
  BY <1>1, <1>2, <1>3 DEF IInv, Started
<1>7. Apart'
  BY <1>3, <1>4 DEF IInv, Apart
<1>8. CASE fake_exits_pending = 0 /\ ~CanWait
  <2>1. got' = [got EXCEPT !.pid = 0] /\ UNCHANGED table
    BY <1>8 DEF Wait
  <2>2. heap' = heap /\ os' = os /\ proc_array' = proc_array /\ fake_exits_pending' = fake_exits_pending
    BY <2>1 DEF table
  <2>3. got'.pid = 0 /\ got' \in [pid : Addr \cup {0}, exit_code : Code \cup BeginErrors]
    BY <2>1 DEF IInv, Types
  <2>4. Types'
    BY <1>1, <1>3, <2>2, <2>3 DEF IInv, Types
  <2>5. Table' /\ Counted' /\ Entries'
    BY <2>2 DEF IInv, Table, Counted, Entries, Fakes
  <2>6. \A c \in Child : Awaited(c) => pid_of(c) # 0
    BY HasPid
  <2>7. Chained'
    BY <1>4, <2>2, <2>3, <2>6 DEF IInv, Chained
  <2>8. Answered'
    BY <1>1, <2>3 DEF Answered
  <2>9. \A c \in Child : CommandOf(c)' = CommandOf(c)
    BY <1>1, <1>4, <2>2, <2>3, <2>6 DEF CommandOf
  <2>10. IInv'
    BY <1>5, <1>6, <1>7, <2>4, <2>5, <2>7, <2>8 DEF IInv
  <2> QED
    BY <2>9, <2>10
<1>9. CASE ~(fake_exits_pending = 0 /\ ~CanWait)
  <2> DEFINE a == got'.pid
  <2> HIDE DEF a
  <2>1. /\ heap' \in [Addr -> [handle : Handle \cup {0, Free}, exit_code : Code \cup BeginErrors]]
        /\ os' \in [Handle -> {Free, Running} \cup Code]
        /\ proc_array' \in Seq(Addr) /\ fake_exits_pending' \in Nat
        /\ got' \in [pid : Addr \cup {0}, exit_code : Code \cup BeginErrors]
        /\ a \in Range(proc_array)
        /\ got'.exit_code = IF heap[a].handle = 0 THEN heap[a].exit_code ELSE os[heap[a].handle]
        /\ Range(proc_array') = Range(proc_array) \ {a}
        /\ \A b \in Range(proc_array') :
             /\ heap'[b] = heap[b]
             /\ heap[b].handle # 0 => os'[heap[b].handle] = os[heap[b].handle]
        /\ Table' /\ Entries' /\ Counted'
    BY <1>9, Released DEF a
  <2>2. Types'
    BY <1>1, <1>3, <2>1 DEF IInv, Types
  <2>3. \A c \in Child : Awaited(c) => pid_of(c) \in Range(proc_array)
    BY <1>4 DEF IInv, Chained
  <2>4. \A b \in Range(proc_array) : \E c \in Child : Awaited(c) /\ pid_of(c) = b
    BY <1>4 DEF IInv, Chained
  <2>5. Chained'
    <3>1. \A c \in Child : Waited(c)' => pid_of(c)' \in Range(proc_array')
      BY <1>4, <2>1, <2>3 DEF a
    <3>2. \A b \in Range(proc_array') : \E c \in Child : Waited(c)' /\ pid_of(c)' = b
      <4>1. \A b \in Range(proc_array') : b # a /\ \E c \in Child : Awaited(c) /\ pid_of(c) = b
        BY <2>1, <2>4
      <4> QED
        BY <1>4, <4>1 DEF a
    <3> QED
      BY <3>1, <3>2 DEF Chained
  <2>6. Answered'
    <3>1. \E c \in Child : Awaited(c)' /\ pid_of(c)' = a
      BY <1>4, <2>1, <2>4
    <3> QED
      BY <1>1, <3>1 DEF Answered, a
  <2>7. \A c \in Child : CommandOf(c)' = CommandOf(c)
    <3>1. \A c \in Child : Awaited(c) =>
            CommandOf(c) = IF heap[pid_of(c)].handle = 0 THEN heap[pid_of(c)].exit_code
                           ELSE os[heap[pid_of(c)].handle]
      BY <1>1, InTable
    <3>2. \A c \in Child : Awaited(c) /\ pid_of(c) = a => CommandOf(c)' = got'.exit_code
      BY <1>1, <1>4 DEF CommandOf, a
    <3>3. \A c \in Child : Awaited(c) /\ pid_of(c) # a =>
            CommandOf(c)' = IF heap'[pid_of(c)].handle = 0 THEN heap'[pid_of(c)].exit_code
                            ELSE os'[heap'[pid_of(c)].handle]
      BY <1>1, <1>4 DEF CommandOf, a
    <3>4. \A c \in Child : Awaited(c) /\ pid_of(c) # a => pid_of(c) \in Range(proc_array')
      BY <2>1, <2>3
    <3>5. \A c \in Child : ~Awaited(c) => CommandOf(c) = Free /\ CommandOf(c)' = Free
      BY <1>4 DEF CommandOf
    <3>6. \A c \in Child : Awaited(c) /\ pid_of(c) = a => CommandOf(c)' = CommandOf(c)
      BY <2>1, <3>1, <3>2
    <3>7. \A c \in Child : Awaited(c) /\ pid_of(c) # a => CommandOf(c)' = CommandOf(c)
      BY <2>1, <3>1, <3>3, <3>4
    <3> QED
      BY <3>5, <3>6, <3>7
  <2>8. IInv'
    BY <1>5, <1>6, <1>7, <2>1, <2>2, <2>5, <2>6 DEF IInv
  <2> QED
    BY <2>7, <2>8
<1> QED
  BY <1>8, <1>9

\* The end of k's command is told; nobody else's.
Tells(k) ==
  /\ told' = <<k, got.exit_code>>
  /\ \A c \in Child : IF c = k
       THEN CommandOf(c) = got.exit_code /\ CommandOf(c)' = Free
       ELSE CommandOf(c)' = CommandOf(c)

\* While make is told of an end, the table stays, and so do the others.
LEMMA Told ==
  ASSUME IInv, Types', UNCHANGED <<table, pid, children, got>>, pc = "match", pc' # "match",
         shell_function_pid' = shell_function_pid,
         \A c \in Child : Awaited(c)' <=> Awaited(c) /\ pid_of(c) # got.pid
  PROVE  /\ Table' /\ Counted' /\ Entries' /\ Apart' /\ Chained'
         /\ \A c \in Child : CommandOf(c)' = IF pid_of(c) = got.pid THEN Free ELSE CommandOf(c)
<1>1. /\ heap' = heap /\ os' = os /\ proc_array' = proc_array
      /\ fake_exits_pending' = fake_exits_pending
  BY DEF table
<1>2. \A c \in Child : /\ pid_of(c)' = pid_of(c) /\ (Holds(c)' <=> Holds(c))
                       /\ (Waited(c)' <=> Waited(c))
  <2>1. \A c \in Child : pid_of(c)' = pid_of(c) /\ (Holds(c)' <=> Holds(c))
    BY DEF pid_of, Holds
  <2> QED
    BY <2>1 DEF Waited
<1>3. Table' /\ Counted' /\ Entries'
  BY <1>1 DEF IInv, Table, Counted, Entries, Fakes
<1>4. Apart'
  BY <1>2 DEF IInv, Apart
<1>5. Chained'
  BY <1>1, <1>2 DEF IInv, Chained
<1>6. \A c \in Child : CommandOf(c)' = IF pid_of(c) = got.pid THEN Free ELSE CommandOf(c)
  BY <1>1, <1>2 DEF CommandOf
<1> QED
  BY <1>3, <1>4, <1>5, <1>6

LEMMA MatchShellStep ==
  ASSUME IInv, MatchShell
  PROVE  /\ IInv'
         /\ \/ \E k \in Child : Tells(k) /\ got.exit_code \in Code \cup BeginErrors
            \/ told' = told /\ \A c \in Child : CommandOf(c)' = CommandOf(c)
<1>1. /\ pc = "match" /\ got.pid = shell_function_pid
      /\ shell_function_completed' = IF got.exit_code = 127 THEN 2 ELSE 1
      /\ told' = IF got.pid = 0 THEN told ELSE <<"shell", got.exit_code>>
      /\ pc' = ret
      /\ UNCHANGED <<table, jobs, shell_function_pid, build, dying, ret, err, new, got, cur>>
  BY DEF MatchShell
<1>2. children' = children /\ pid' = pid /\ line' = line /\ state' = state
  BY <1>1 DEF jobs
<1>3. got.exit_code \in Code \cup BeginErrors /\ ret \in {"walk", "read_all", "slots", "die"}
  BY DEF IInv, Types
<1>4. PICK k \in Child : k = "shell"
  BY DEF Child
<1>5. told' = <<>> \/ told' \in ((Job \cup {"shell"}) \X (Code \cup BeginErrors))
  BY <1>1, <1>3 DEF IInv, Types
<1>6. shell_function_completed' \in 0..2 /\ shell_function_completed' # 0
  BY <1>1
<1>7. Types'
  BY <1>1, <1>2, <1>3, <1>5, <1>6 DEF IInv, Types, table
<1>8. \A c \in Child : Awaited(c)' <=> Awaited(c) /\ pid_of(c) # got.pid
  <2>1. \A c \in Child : Awaited(c) /\ pid_of(c) = got.pid => c = "shell"
    <3>1. \A c \in Child : Awaited(c) => Holds(c) /\ pid_of(c) # 0
      BY HasPid
    <3>2. got.pid # 0 => \A c \in Child : c = k => Holds(c) /\ pid_of(c) = got.pid
      BY <1>1, <1>4, Who DEF IInv
    <3> QED
      BY <1>4, <3>1, <3>2 DEF IInv, Apart
  <2>2. \A c \in Child : c # "shell" => (Awaited(c)' <=> Awaited(c))
    BY <1>1, <1>2, <1>3, <1>7, Who, WhoNext DEF IInv
  <2>3. \A c \in Child : c = "shell" => ~Awaited(c)' /\ pid_of(c) = got.pid
    BY <1>1, <1>6, <1>7, Who, WhoNext DEF IInv
  <2> QED
    BY <2>1, <2>2, <2>3
<1>9. pc' # "match" /\ pc' # "got"
  BY <1>1, <1>3
<1>10. /\ Table' /\ Counted' /\ Entries' /\ Apart' /\ Chained'
       /\ \A c \in Child : CommandOf(c)' = IF pid_of(c) = got.pid THEN Free ELSE CommandOf(c)
  BY <1>1, <1>2, <1>7, <1>8, <1>9, Told
<1>11. Where' = Where /\ Where = ret
  BY <1>1, <1>3 DEF Where
<1>12. Shells'
  <2>1. pc' = "shell" => build'.shell # {}
    BY <1>1, <1>3
  <2>2. shell_function_pid' # 0 /\ shell_function_completed' # 0 => pc' = "read_all" \/ dying'
    BY <1>1, <1>3, <1>11 DEF IInv, Shells
  <2> QED
    BY <1>1, <1>11, <2>1, <2>2 DEF IInv, Shells
<1>13. Started'
  BY <1>1, <1>2, <1>11 DEF IInv, Started
<1>14. Answered'
  BY <1>9 DEF Answered
<1>15. IInv'
  BY <1>7, <1>10, <1>12, <1>13, <1>14 DEF IInv
<1>16. CASE got.pid = 0
  <2>1. \A c \in Child : pid_of(c) = 0 => CommandOf(c) = Free
    BY HasPid DEF CommandOf
  <2> QED
    BY <1>1, <1>10, <1>15, <1>16, <2>1
<1>17. CASE got.pid # 0
  <2>1. \E c \in Child : Awaited(c) /\ pid_of(c) = got.pid
    BY <1>1, <1>17 DEF IInv, Answered
  <2>2. \A c \in Child : Awaited(c) => Holds(c)
    BY HasPid
  <2>3. \A c \in Child : c = k => Holds(c) /\ pid_of(c) = got.pid
    BY <1>1, <1>4, <1>17, Who DEF IInv
  <2>4. \A c \in Child : c = k => Awaited(c) /\ CommandOf(c) = got.exit_code
    <3>1. \A c \in Child : c = k => Awaited(c)
      BY <2>1, <2>2, <2>3 DEF IInv, Apart
    <3> QED
      BY <1>1, <2>3, <3>1 DEF CommandOf
  <2>5. \A c \in Child : c # k /\ pid_of(c) = got.pid => CommandOf(c) = Free
    BY <2>2, <2>3 DEF IInv, Apart, CommandOf
  <2>6. Tells(k)
    BY <1>1, <1>4, <1>10, <1>17, <2>3, <2>4, <2>5 DEF Tells
  <2> QED
    BY <1>3, <1>15, <2>6
<1> QED
  BY <1>16, <1>17

LEMMA MatchStep ==
  ASSUME IInv, Match
  PROVE  /\ IInv'
         /\ \/ \E k \in Child : Tells(k) /\ got.exit_code \in Code \cup BeginErrors
            \/ told' = told /\ \A c \in Child : CommandOf(c)' = CommandOf(c)
<1>1. /\ pc = "match" /\ got.pid # shell_function_pid
      /\ UNCHANGED <<table, jobs, shell, build, dying, ret, err, new, got>>
  BY DEF Match
<1>2. /\ children' = children /\ pid' = pid /\ line' = line /\ state' = state
      /\ shell_function_pid' = shell_function_pid
      /\ shell_function_completed' = shell_function_completed
  BY <1>1 DEF jobs, shell
<1>3. got.exit_code \in Code \cup BeginErrors /\ ret \in {"walk", "read_all", "slots", "die"}
  BY DEF IInv, Types
<1>4. children \in Seq(Job) /\ DOMAIN children \subseteq Nat
  BY DEF IInv, Types
<1>5. \A c \in Child : Awaited(c) /\ pid_of(c) = got.pid => c \in Range(children) /\ pid[c] = got.pid
  BY <1>1, Who DEF IInv
<1>6. CASE Matching = {}
  <2>1. /\ pc' = (IF children = <<>> /\ shell_function_pid = 0 THEN ret ELSE "wait")
        /\ cur' = cur /\ told' = told
    BY <1>6 DEF Match
  <2>2. got.pid = 0
    <3>1. \A c \in Range(children) : pid[c] # got.pid
      BY <1>6 DEF Matching, Range
    <3> QED
      BY <1>1, <1>5, <3>1 DEF IInv, Answered
  <2>3. pc' # "match" /\ pc' # "got"
    BY <1>3, <2>1
  <2>4. Types'
    BY <1>1, <1>2, <1>3, <2>1 DEF IInv, Types, table
  <2>5. \A c \in Child : (Awaited(c)' <=> Awaited(c)) /\ (Awaited(c) => pid_of(c) # 0)
    <3>1. \A c \in Child : Awaited(c)' <=> Awaited(c)
      BY <1>1, <1>2, <2>3 DEF Awaited
    <3> QED
      BY <3>1, HasPid
  <2>6. /\ Table' /\ Counted' /\ Entries' /\ Apart' /\ Chained'
        /\ \A c \in Child : CommandOf(c)' = IF pid_of(c) = got.pid THEN Free ELSE CommandOf(c)
    BY <1>1, <1>2, <2>2, <2>3, <2>4, <2>5, Told
  <2>7. \A c \in Child : pid_of(c) = 0 => CommandOf(c) = Free
    BY <2>5 DEF CommandOf
  <2>8. Where = ret /\ Where' = ret
    BY <1>1, <1>3, <2>1 DEF Where
  <2>9. Shells'
    <3>1. pc' # "shell"
      BY <1>3, <2>1
    <3>2. shell_function_pid = 0 \/ shell_function_completed = 0 \/ dying
      BY <1>1 DEF IInv, Shells
    <3> QED
      BY <1>1, <1>2, <2>8, <3>1, <3>2 DEF IInv, Shells
  <2>10. Started'
    BY <1>1, <1>2, <2>8 DEF IInv, Started
  <2>11. Answered'
    BY <2>3 DEF Answered
  <2>12. IInv'
    BY <2>4, <2>6, <2>9, <2>10, <2>11 DEF IInv
  <2> QED
    BY <2>1, <2>2, <2>6, <2>7, <2>12
<1>7. CASE Matching # {}
  <2>1. cur' = children[Min(Matching)] /\ told' = <<cur', got.exit_code>> /\ pc' = "got"
    BY <1>7 DEF Match
  <2>2. Min(Matching) \in Matching
    BY <1>4, <1>7, SmallestIsThere DEF Matching
  <2>3. PICK k \in Job : k = cur' /\ k \in Range(children) /\ pid[k] = got.pid
    <3>1. Min(Matching) \in DOMAIN children /\ pid[children[Min(Matching)]] = got.pid
      BY <2>2 DEF Matching
    <3>2. children[Min(Matching)] \in Job
      BY <1>4, <3>1
    <3>3. children[Min(Matching)] \in Range(children)
      BY <3>1 DEF Range
    <3> QED
      BY <2>1, <3>1, <3>2, <3>3
  <2>4. got.pid # 0
    BY <2>3 DEF IInv, Apart
  <2>5. told' = <<k, got.exit_code>>
    BY <2>1, <2>3
  <2>6. Types'
    <3>1. told' \in ((Job \cup {"shell"}) \X (Code \cup BeginErrors))
      BY <1>3, <2>5
    <3> QED
      BY <1>1, <1>2, <2>1, <2>3, <3>1 DEF IInv, Types, table
  <2>7. \A c \in Child : /\ c = k => Holds(c) /\ Awaited(c) /\ pid_of(c) = got.pid /\ ~Awaited(c)'
                         /\ c # k => (Awaited(c)' <=> Awaited(c))
    <3>1. k \in Child /\ k # "shell"
      BY JobAssumption DEF Child
    <3>2. Types /\ pc = "match" /\ pc' = "got" /\ cur' = k
      BY <1>1, <2>1, <2>3 DEF IInv
    <3> QED
      BY <1>2, <2>3, <2>6, <3>1, <3>2, Who, WhoNext
  <2>8. \A c \in Child : c # k /\ Awaited(c) => pid_of(c) # got.pid
    <3>1. k \in Child
      BY DEF Child
    <3>2. \A c \in Child : Awaited(c) => Holds(c)
      BY HasPid
    <3> QED
      BY <2>7, <3>1, <3>2 DEF IInv, Apart
  <2>9. \A c \in Child : Awaited(c)' <=> Awaited(c) /\ pid_of(c) # got.pid
    BY <2>7, <2>8
  <2>10. /\ Table' /\ Counted' /\ Entries' /\ Apart' /\ Chained'
         /\ \A c \in Child : CommandOf(c)' = IF pid_of(c) = got.pid THEN Free ELSE CommandOf(c)
    BY <1>1, <1>2, <2>1, <2>6, <2>9, Told
  <2>11. Where = ret /\ Where' = ret
    BY <1>1, <2>1 DEF Where
  <2>12. Shells'
    <3>1. shell_function_pid = 0 \/ shell_function_completed = 0 \/ dying
      BY <1>1 DEF IInv, Shells
    <3> QED
      BY <1>1, <1>2, <2>1, <2>11, <3>1 DEF IInv, Shells
  <2>13. Started'
    BY <1>1, <1>2, <2>11 DEF IInv, Started
  <2>14. Answered'
    BY <1>2, <2>1, <2>3 DEF Answered
  <2>15. IInv'
    BY <2>6, <2>10, <2>12, <2>13, <2>14 DEF IInv
  <2>16. \A c \in Child : c = k => CommandOf(c) = got.exit_code
    BY <1>1, <2>7 DEF CommandOf
  <2>17. \A c \in Child : c # k /\ pid_of(c) = got.pid => CommandOf(c) = Free
    BY <2>8 DEF CommandOf
  <2>18. Tells(k)
    BY <2>5, <2>7, <2>10, <2>16, <2>17 DEF Tells
  <2>19. k \in Child
    BY DEF Child
  <2> QED
    BY <1>3, <2>15, <2>18, <2>19
<1> QED
  BY <1>6, <1>7

LEMMA JobOverStep ==
  ASSUME IInv, JobOver
  PROVE  IInv' /\ \A c \in Child : CommandOf(c)' = CommandOf(c)
<1> DEFINE failed == got.exit_code # 0
           place == Min({i \in DOMAIN children : children[i] = cur})
<1>1. /\ pc = "got" /\ (failed \/ line[cur] = build.lines[cur])
      /\ state' = [state EXCEPT ![cur] = IF failed THEN "failed" ELSE "done"]
      /\ children' = RemoveAt(children, place)
      /\ \/ /\ failed /\ ~build.keep_going
            /\ pc' = (IF dying THEN "exited" ELSE "die") /\ dying' = TRUE
         \/ pc' = ret /\ dying' = dying
      /\ UNCHANGED <<table, pid, line, shell, build, ret, err, new, got, cur, told>>
  BY DEF JobOver, Die
<1>2. /\ heap' = heap /\ os' = os /\ proc_array' = proc_array
      /\ fake_exits_pending' = fake_exits_pending
      /\ shell_function_pid' = shell_function_pid
      /\ shell_function_completed' = shell_function_completed
      /\ pid' = pid /\ line' = line /\ got' = got /\ cur' = cur /\ build' = build /\ ret' = ret
      /\ new' = new
  BY <1>1 DEF table, shell
<1>3. cur \in Range(children) /\ Range(children) \subseteq Job /\ cur \in Job
  BY <1>1, Who DEF IInv, Answered
<1>4. children \in Seq(Job) /\ Distinct(children) /\ Len(children) <= JobSlots
  BY DEF IInv, Types, Apart
<1>5. place \in DOMAIN children /\ children[place] = cur
  <2>1. /\ {i \in DOMAIN children : children[i] = cur} # {}
        /\ {i \in DOMAIN children : children[i] = cur} \subseteq Nat
    BY <1>3, <1>4 DEF Range
  <2>2. place \in {i \in DOMAIN children : children[i] = cur}
    BY <2>1, SmallestIsThere
  <2> QED
    BY <2>2
<1> HIDE DEF place
<1>6. children' \in Seq(Job) /\ Len(children') = Len(children) - 1
  BY <1>1, <1>4, <1>5, Removal
<1>7. Distinct(children') /\ Range(children') = Range(children) \ {cur}
  BY <1>1, <1>4, <1>5, Without
<1>8. ret \in {"walk", "read_all", "slots", "die"} /\ dying \in BOOLEAN
  BY DEF IInv, Types
<1>9. /\ state' \in [Job -> {"not_started", "running", "done", "failed"}]
      /\ state'[cur] # "not_started" /\ \A j \in Job : j # cur => state'[j] = state[j]
  BY <1>1, <1>3 DEF IInv, Types
<1>10. dying' \in BOOLEAN /\ pc' \in {"walk", "read_all", "slots", "die", "exited"}
  BY <1>1, <1>8
<1>11. Types'
  BY <1>1, <1>2, <1>6, <1>9, <1>10 DEF IInv, Types
<1>12. \A c \in Child : /\ pid_of(c)' = pid_of(c) /\ (Awaited(c)' <=> Awaited(c))
                        /\ (Holds(c)' => Holds(c)) /\ (Waited(c)' <=> Waited(c))
  <2>1. Types /\ pc = "got" /\ pc' # "got" /\ pc' # "match"
    BY <1>1, <1>10 DEF IInv
  <2>2. \A c \in Job : c \in Range(children') <=> c \in Range(children) /\ c # cur
    BY <1>7
  <2>3. \A c \in Child : /\ pid_of(c)' = pid_of(c) /\ (Awaited(c)' <=> Awaited(c))
                         /\ Holds(c)' => Holds(c)
    BY <1>2, <1>11, <2>1, <2>2, Who, WhoNext
  <2> QED
    BY <2>1, <2>3 DEF Waited
<1>13. Table' /\ Counted' /\ Entries'
  BY <1>2 DEF IInv, Table, Counted, Entries, Fakes
<1>14. Apart'
  <2>1. Len(children') <= JobSlots
    BY <1>4, <1>6, SlotsAssumption
  <2>2. \A c, d \in Child : Holds(c)' /\ Holds(d)' /\ pid_of(c)' = pid_of(d)' => c = d
    BY <1>12 DEF IInv, Apart
  <2>3. \A j \in Range(children') : pid'[j] # 0
    BY <1>2, <1>7 DEF IInv, Apart
  <2> QED
    BY <1>7, <2>1, <2>2, <2>3 DEF Apart
<1>15. Chained'
  <2>1. \A c \in Child : pid_of(c)' = pid_of(c) /\ (Waited(c)' <=> Waited(c))
    BY <1>12
  <2>2. Chained /\ proc_array' = proc_array
    BY <1>2 DEF IInv
  <2> QED
    BY <2>1, <2>2 DEF Chained
<1>16. Where = ret /\ Where' = pc'
  BY <1>1, <1>10 DEF Where
<1>17. Shells'
  <2>1. shell_function_pid # 0 => /\ build.shell # {}
                                  /\ ret \in {"read", "read_all"} \/ (dying /\ ~build.keep_going)
    BY <1>16 DEF IInv, Shells
  <2>2. shell_function_pid # 0 /\ shell_function_completed # 0 => dying
    BY <1>1 DEF IInv, Shells
  <2>3. dying => ret = "die"
    BY <1>8, <1>16 DEF IInv, Shells
  <2>4. CASE dying' = TRUE /\ ~build.keep_going /\ pc' \in {"die", "exited"}
    BY <1>2, <1>16, <2>1, <2>4 DEF Shells
  <2>5. CASE pc' = ret /\ dying' = dying
    BY <1>2, <1>8, <1>16, <2>1, <2>2, <2>3, <2>5 DEF Shells
  <2> QED
    BY <1>1, <2>4, <2>5
<1>18. Started'
  <2>1. \A j \in Range(children') : state'[j] = "running" /\ line'[j] # 0
    BY <1>2, <1>3, <1>7, <1>9 DEF IInv, Started
  <2>2. \A j \in Job : state'[j] = "not_started" => line'[j] = 0
    BY <1>2, <1>9 DEF IInv, Started
  <2>3. \A j \in Job : line'[j] <= build'.lines[j]
    BY <1>2 DEF IInv, Started
  <2>4. Where' \in {"shell", "read", "read_all", "slots"} => new' \in Job /\ state'[new'] = "not_started"
    <3>1. state[cur] = "running"
      BY <1>3 DEF IInv, Started
    <3>2. Where' \in {"shell", "read", "read_all", "slots"} => Where = Where'
      BY <1>1, <1>16
    <3> QED
      BY <1>2, <1>9, <3>1, <3>2 DEF IInv, Started
  <2> QED
    BY <2>1, <2>2, <2>3, <2>4 DEF Started
<1>19. Answered'
  BY <1>10 DEF Answered
<1>20. \A c \in Child : CommandOf(c)' = CommandOf(c)
  BY <1>1, <1>2, <1>10, <1>12 DEF CommandOf
<1> QED
  BY <1>11, <1>13, <1>14, <1>15, <1>17, <1>18, <1>19, <1>20 DEF IInv

\* k's command ends, nobody else's.
Ends(k) ==
  \A c \in Child : IF c = k
    THEN CommandOf(c) = Running /\ CommandOf(c)' \in Code \cup BeginErrors
    ELSE CommandOf(c)' = CommandOf(c)

LEMMA ProcessExitsStep ==
  ASSUME IInv, NEW h \in Handle, ProcessExits(h)
  PROVE  /\ IInv'
         /\ \/ \E k \in Child : Ends(k)
            \/ \A c \in Child : CommandOf(c)' = CommandOf(c)
<1>1. PICK code \in Code : os' = [os EXCEPT ![h] = code]
  BY DEF ProcessExits
<1>2. /\ os[h] = Running
      /\ UNCHANGED <<heap, proc_array, fake_exits_pending, jobs, shell, build, dying,
                     pc, ret, err, new, got, cur, told>>
  BY DEF ProcessExits
<1>3. /\ children' = children /\ pid' = pid /\ line' = line /\ state' = state
      /\ shell_function_pid' = shell_function_pid
      /\ shell_function_completed' = shell_function_completed
  BY <1>2 DEF jobs, shell
<1>4. /\ os' \in [Handle -> {Free, Running} \cup Code] /\ os'[h] = code
      /\ \A k \in Handle : k # h => os'[k] = os[k]
  BY <1>1 DEF IInv, Types
<1>5. Types'
  BY <1>2, <1>3, <1>4 DEF IInv, Types
<1>6. \A c \in Child : /\ pid_of(c)' = pid_of(c) /\ (Holds(c)' <=> Holds(c))
                       /\ (Awaited(c)' <=> Awaited(c)) /\ (Waited(c)' <=> Waited(c))
  BY <1>2, <1>3 DEF pid_of, Holds, Awaited, Waited
<1>7. Table' /\ Counted'
  BY <1>2 DEF IInv, Table, Counted, Fakes
<1>8. \A a \in Range(proc_array) :
        heap[a].handle # 0 => /\ heap[a].handle \in Handle
                              /\ os'[heap[a].handle] # Free
  <2>1. Range(proc_array) \subseteq Addr
    BY DEF IInv, Types, Range
  <2>2. \A a \in Range(proc_array) : heap[a].handle \in Handle \cup {0}
    BY <2>1 DEF IInv, Types, Entries
  <2>3. code # Free
    BY CodeAssumption DEF Free
  <2> QED
    BY <1>4, <2>2, <2>3 DEF IInv, Entries
<1>9. Entries'
  BY <1>2, <1>8 DEF IInv, Entries
<1>10. Apart'
  BY <1>3, <1>6 DEF IInv, Apart
<1>11. Chained'
  BY <1>2, <1>6 DEF IInv, Chained
<1>12. Where' = Where
  BY <1>2 DEF Where
<1>13. Shells'
  BY <1>2, <1>3, <1>12 DEF IInv, Shells
<1>14. Started'
  BY <1>2, <1>3, <1>12 DEF IInv, Started
<1>15. Answered'
  BY <1>2, <1>3, <1>6 DEF IInv, Answered
<1>16. IInv'
  BY <1>5, <1>7, <1>9, <1>10, <1>11, <1>13, <1>14, <1>15 DEF IInv
<1> DEFINE its(c) == Waited(c) /\ heap[pid_of(c)].handle = h
<1>17. \A c \in Child : ~its(c) => CommandOf(c)' = CommandOf(c)
  <2>1. \A c \in Child : Waited(c) => /\ pid_of(c) \in Range(proc_array)
                                      /\ heap[pid_of(c)].handle # 0 => heap[pid_of(c)].handle \in Handle
    BY <1>8 DEF IInv, Chained
  <2> QED
    BY <1>2, <1>4, <1>6, <2>1 DEF CommandOf, Waited
<1>18. \A c \in Child : its(c) => CommandOf(c) = Running /\ CommandOf(c)' \in Code \cup BeginErrors
  <2>1. h # 0
    BY ObjectAssumption
  <2> QED
    BY <1>2, <1>4, <1>6, <2>1 DEF CommandOf, Waited
<1>19. \A c, d \in Child : its(c) /\ its(d) => c = d
  <2>1. h # 0
    BY ObjectAssumption
  <2>2. \A c \in Child : Waited(c) => pid_of(c) \in Range(proc_array) /\ Holds(c)
    BY HasPid DEF IInv, Chained, Waited
  <2>3. \A c, d \in Child : its(c) /\ its(d) => pid_of(c) = pid_of(d)
    BY <2>1, <2>2 DEF IInv, Entries
  <2> QED
    BY <2>2, <2>3 DEF IInv, Apart
<1> HIDE DEF its
<1>20. CASE \E k \in Child : its(k)
  <2>1. PICK k \in Child : its(k)
    BY <1>20
  <2>2. Ends(k)
    BY <1>17, <1>18, <1>19, <2>1 DEF Ends
  <2> QED
    BY <1>16, <2>2
<1>21. CASE ~\E k \in Child : its(k)
  BY <1>16, <1>17, <1>21
<1> QED
  BY <1>20, <1>21

LEMMA Same ==
  ASSUME IInv, UNCHANGED vars
  PROVE  IInv' /\ \A c \in Child : CommandOf(c)' = CommandOf(c)
<1>1. /\ heap' = heap /\ os' = os /\ proc_array' = proc_array
      /\ fake_exits_pending' = fake_exits_pending
      /\ children' = children /\ pid' = pid /\ line' = line /\ state' = state
      /\ shell_function_pid' = shell_function_pid
      /\ shell_function_completed' = shell_function_completed
      /\ build' = build /\ dying' = dying /\ pc' = pc /\ ret' = ret /\ err' = err
      /\ new' = new /\ got' = got /\ cur' = cur /\ told' = told
  BY DEF vars, table, jobs, shell
<1>2. \A c \in Child : /\ pid_of(c)' = pid_of(c) /\ (Holds(c)' <=> Holds(c))
                       /\ (Awaited(c)' <=> Awaited(c)) /\ (Waited(c)' <=> Waited(c))
  BY <1>1 DEF pid_of, Holds, Awaited, Waited
<1>3. Types'
  BY <1>1 DEF IInv, Types
<1>4. Table' /\ Counted' /\ Entries'
  BY <1>1 DEF IInv, Table, Counted, Entries, Fakes
<1>5. Apart' /\ Chained' /\ Answered'
  <2>1. Apart'
    BY <1>1, <1>2 DEF IInv, Apart
  <2>2. Chained'
    BY <1>1, <1>2 DEF IInv, Chained
  <2>3. Answered'
    BY <1>1, <1>2 DEF IInv, Answered
  <2> QED
    BY <2>1, <2>2, <2>3
<1>6. Where' = Where
  BY <1>1 DEF Where
<1>7. Shells' /\ Started'
  BY <1>1, <1>6 DEF IInv, Shells, Started
<1>8. \A c \in Child : CommandOf(c)' = CommandOf(c)
  BY <1>1, <1>2 DEF CommandOf
<1> QED
  BY <1>3, <1>4, <1>5, <1>7, <1>8 DEF IInv

------------------------------------------------------------------------------
(* Every step                                                              *)

LEMMA Step ==
  ASSUME IInv, PipesLaunch, GivesUpApart, [Next]_vars
  PROVE  /\ IInv'
         /\ \/ \E k \in Child : Starts(k) /\ told' = told
            \/ \E k \in Child : Ends(k) /\ told' = told
            \/ \E k \in Child : Tells(k) /\ got.exit_code \in Code \cup BeginErrors
            \/ told' = told /\ \A c \in Child : CommandOf(c)' = CommandOf(c)
<1>1. CASE NewJob
  BY <1>1, NewJobStep DEF NewJob
<1>2. CASE OpenPipe
  <2>1. told' = told
    BY <1>2 DEF OpenPipe
  <2> QED
    BY <1>2, <2>1, OpenPipeStep
<1>3. CASE ReadShell
  BY <1>3, ReadShellStep DEF ReadShell
<1>4. CASE WaitForShell
  BY <1>4, CallStep DEF WaitForShell
<1>5. CASE ShellDone
  BY <1>5, ShellDoneStep DEF ShellDone
<1>6. CASE WaitForSlot
  BY <1>6, CallStep DEF WaitForSlot
<1>7. CASE StartJob
  <2>1. told' = told
    BY <1>7 DEF StartJob
  <2> QED
    BY <1>7, <2>1, StartJobStep
<1>8. CASE EndPass
  BY <1>8, EndPassStep DEF EndPass
<1>9. CASE Wait
  BY <1>9, WaitStep DEF Wait
<1>10. CASE MatchShell
  BY <1>10, MatchShellStep
<1>11. CASE Match
  BY <1>11, MatchStep
<1>12. CASE NextLine
  <2>1. told' = told
    BY <1>12 DEF NextLine
  <2> QED
    BY <1>12, <2>1, NextLineStep
<1>13. CASE JobOver
  BY <1>13, JobOverStep DEF JobOver
<1>14. CASE DieWait \/ Exit
  BY <1>14, DieStep DEF DieWait, Exit
<1>15. CASE \E h \in Handle : ProcessExits(h)
  <2>1. PICK h \in Handle : ProcessExits(h)
    BY <1>15
  <2>2. told' = told
    BY <2>1 DEF ProcessExits
  <2> QED
    BY <2>1, <2>2, ProcessExitsStep
<1>16. CASE Finished \/ UNCHANGED vars
  <2>1. UNCHANGED vars
    BY <1>16 DEF Finished
  <2>2. told' = told
    BY <2>1 DEF vars
  <2> QED
    BY <2>1, <2>2, Same
<1> QED
  BY <1>1, <1>2, <1>3, <1>4, <1>5, <1>6, <1>7, <1>8, <1>9, <1>10, <1>11, <1>12,
     <1>13, <1>14, <1>15, <1>16 DEF Next, MakeStep

(* IInv is inductive, when $(shell) can be launched and make does not give up  *)
(* in its wait with more lines of a job to run.                             *)
LEMMA Invariant ==
  ASSUME PipesLaunch, GivesUpApart
  PROVE  Spec => []IInv
<1>1. Init => IInv
  BY Initially
<1>2. IInv /\ [Next]_vars => IInv'
  BY Step
<1> QED
  BY <1>1, <1>2, PTL DEF Spec

(* The types, and that the table of processes, the heap and the chain of       *)
(* children say the same after every step, for any number of jobs, slots,      *)
(* addresses, handles and lines (sub_proc.c:33, job.c:1117).                   *)
THEOREM TypeCorrect ==
  ASSUME PipesLaunch, GivesUpApart
  PROVE  Spec => []TypeOK
<1>1. IInv => TypeOK
  BY InvariantImplies
<1> QED
  BY <1>1, Invariant, PTL

(* The table implements a wait () that tells the end of each command once, to  *)
(* the child it was run for, with its status ("kind of like waitpid()",        *)
(* sub_proc.c:128).                                                         *)
THEOREM TellsOnce ==
  ASSUME PipesLaunch, GivesUpApart
  PROVE  Spec => ToldOnce
<1> DEFINE mapped == [c \in Child |-> CommandOf(c)]
<1>1. Init => waits!Init
  <2> SUFFICES ASSUME Init PROVE waits!Init
    OBVIOUS
  <2>1. told = <<>>
    BY DEF Init
  <2>2. \A c \in Child : ~Awaited(c)
    BY DEF Init, Awaited, Range
  <2>3. \A c \in Child : CommandOf(c) = Free
    BY <2>2 DEF CommandOf
  <2>4. mapped = [c \in Child |-> Free]
    BY <2>3
  <2> QED
    BY <2>1, <2>4 DEF waits!Init
<1>2. ASSUME IInv, [Next]_vars
      PROVE  [waits!Next]_<<mapped, told>>
  <2>1. /\ mapped = [c \in Child |-> CommandOf(c)]
        /\ mapped' = [c \in Child |-> CommandOf(c)']
    OBVIOUS
  <2>2. CASE \E k \in Child : Starts(k) /\ told' = told
    <3>1. PICK k \in Child : Starts(k) /\ told' = told
      BY <2>2
    <3>2. /\ mapped[k] = Free
          /\ mapped'[k] \in {Running} \cup (Code \cup BeginErrors)
          /\ mapped' = [mapped EXCEPT ![k] = mapped'[k]]
      BY <3>1 DEF Starts
    <3>3. waits!Start(k)
      BY <3>1, <3>2 DEF waits!Start
    <3> QED
      BY <3>3 DEF waits!Next
  <2>3. CASE \E k \in Child : Ends(k) /\ told' = told
    <3>1. PICK k \in Child : Ends(k) /\ told' = told
      BY <2>3
    <3>2. /\ mapped[k] = Running
          /\ mapped'[k] \in Code \cup BeginErrors
          /\ mapped' = [mapped EXCEPT ![k] = mapped'[k]]
      BY <3>1 DEF Ends
    <3>3. waits!End(k)
      BY <3>1, <3>2 DEF waits!End
    <3> QED
      BY <3>3 DEF waits!Next
  <2>4. CASE \E k \in Child : Tells(k) /\ got.exit_code \in Code \cup BeginErrors
    <3>1. PICK k \in Child : Tells(k) /\ got.exit_code \in Code \cup BeginErrors
      BY <2>4
    <3>2. /\ mapped[k] = got.exit_code /\ told' = <<k, got.exit_code>>
          /\ mapped' = [mapped EXCEPT ![k] = Free]
      BY <3>1 DEF Tells
    <3>3. waits!Tell(k)
      BY <3>1, <3>2 DEF waits!Tell
    <3> QED
      BY <3>3 DEF waits!Next
  <2>5. CASE told' = told /\ \A c \in Child : CommandOf(c)' = CommandOf(c)
    BY <2>1, <2>5
  <2> QED
    BY <1>2, <2>2, <2>3, <2>4, <2>5, Step
<1> QED
  BY <1>1, <1>2, Invariant, PTL DEF Spec, ToldOnce, waits!Spec
=============================================================================
