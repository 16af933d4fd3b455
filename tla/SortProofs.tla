----------------------------- MODULE SortProofs -----------------------------
(***************************************************************************)
(* Whatever sort is called with, whatever fails and whenever the signal      *)
(* comes, no temporary file is left (Inv); its lists and counts agree        *)
(* (Types); and when it succeeds its output is that of a stable sort of all  *)
(* its inputs (Arranges).  Types needs Inv, and Arranges needs both.         *)
(***************************************************************************)
EXTENDS Sort, SequenceTheorems, FiniteSetTheorems, WellFoundedInduction, TLAPS

Temps == (N + 1)..(seq - 1)

\* Names are given out once, and the list holds names.
Names ==
  /\ job \in Jobs /\ seq \in Nat /\ seq > N
  /\ temphead \in Seq(Int)

\* A file is only created under a name that is on the list.
NameFirst == pc \in {"copy", "chunk_write", "round"} => temp \in Range(temphead)

\* A name leaves the list only when its file is gone.
NameLast == pc = "zapped" => zap[1] \notin disk

\* Every temporary file is on the list while sort runs, and there is none after.
AllListed == disk \cap Temps \subseteq (IF Over THEN {} ELSE Range(temphead))

Inv == Names /\ NameFirst /\ NameLast /\ AllListed

\* The initial value of seq is the first name after the inputs.
LEMMA InputCount ==
  ASSUME Names
  PROVE  N \in Nat
BY JobsAssumption DEF Names, N

\* A list with an element put in front.
LEMMA ConsRange ==
  ASSUME NEW s \in Seq(Int), NEW e \in Int
  PROVE  /\ <<e>> \o s \in Seq(Int)
         /\ Range(<<e>> \o s) = Range(s) \cup {e}
<1> DEFINE r == <<e>> \o s
<1>1. /\ r \in Seq(Int) /\ Len(r) = Len(s) + 1
      /\ \A k \in 1..Len(r) : r[k] = IF k = 1 THEN e ELSE s[k - 1]
  OBVIOUS
<1>2. ASSUME NEW x \in Range(r) PROVE x \in Range(s) \cup {e}
  <2>1. PICK k \in 1..Len(r) : x = r[k]
    BY <1>1 DEF Range
  <2>2. k # 1 => k - 1 \in DOMAIN s
    BY <1>1
  <2> QED BY <1>1, <2>1, <2>2 DEF Range
<1>3. ASSUME NEW x \in Range(s) PROVE x \in Range(r)
  <2>1. PICK k \in 1..Len(s) : x = s[k]
    BY DEF Range
  <2>2. k + 1 \in DOMAIN r /\ r[k + 1] = s[k]
    BY <1>1
  <2> QED BY <2>1, <2>2 DEF Range
<1>4. e \in Range(r)
  BY <1>1 DEF Range
<1> QED BY <1>1, <1>2, <1>3, <1>4

\* A list without one of its elements.
LEMMA RemoveRange ==
  ASSUME NEW s \in Seq(Int), NEW k \in DOMAIN s
  PROVE  /\ RemoveAt(s, k) \in Seq(Int)
         /\ Range(s) \ {s[k]} \subseteq Range(RemoveAt(s, k))
         /\ Range(RemoveAt(s, k)) \subseteq Range(s)
         /\ IsInjective(s) => IsInjective(RemoveAt(s, k))
<1> DEFINE L == Len(s)
           a == SubSeq(s, 1, k - 1)
           b == SubSeq(s, k + 1, L)
           r == a \o b
<1>0. L \in Nat /\ k \in 1..L /\ DOMAIN s = 1..L
  OBVIOUS
<1>1. /\ a \in Seq(Int) /\ Len(a) = k - 1
      /\ \A n \in 1..(k - 1) : a[n] = s[n]
  BY <1>0
<1>2. /\ b \in Seq(Int) /\ Len(b) = L - k
      /\ \A n \in 1..(L - k) : b[n] = s[k + n]
  <2>1. /\ b \in Seq(Int) /\ Len(b) = IF k + 1 <= L THEN L - (k + 1) + 1 ELSE 0
        /\ \A n \in 1..(L - (k + 1) + 1) : b[n] = s[k + 1 + n - 1]
    <3>1. k + 1 \in Int /\ L \in Int /\ \A n \in (k + 1)..L : s[n] \in Int
      BY <1>0
    <3> HIDE DEF L
    <3> QED BY <3>1, SubSeqProperties, SMTT(30)
  <2>2. L - (k + 1) + 1 = L - k /\ (IF k + 1 <= L THEN L - (k + 1) + 1 ELSE 0) = L - k
    BY <1>0
  <2>3. \A n \in 1..(L - k) : k + 1 + n - 1 = k + n
    BY <1>0
  <2> QED BY <2>1, <2>2, <2>3
<1> HIDE DEF L, a, b
<1>3. /\ r \in Seq(Int) /\ Len(r) = Len(a) + Len(b) /\ DOMAIN r = 1..Len(r)
      /\ \A n \in 1..(Len(a) + Len(b)) : r[n] = IF n <= Len(a) THEN a[n] ELSE b[n - Len(a)]
  BY <1>1, <1>2, ConcatProperties, SMTT(30)
<1> HIDE DEF r
<1>4. Len(a) = k - 1 /\ Len(b) = L - k /\ DOMAIN r = 1..(L - 1)
  <2>1. Len(a) = k - 1 /\ Len(b) = L - k /\ Len(a) + Len(b) = L - 1
    BY <1>0, <1>1, <1>2
  <2> QED BY <1>3, <2>1
<1>5. ASSUME NEW n \in 1..L, n < k PROVE n \in 1..(L - 1) /\ r[n] = s[n]
  <2>1. n \in 1..(L - 1) /\ n \in 1..(k - 1) /\ n <= Len(a) /\ n \in 1..(Len(a) + Len(b))
    <3>1. n \in Int /\ k \in Int /\ L \in Int /\ 1 <= n /\ n < k /\ k <= L
      BY <1>0, <1>5
    <3>2. Len(a) = k - 1 /\ Len(a) + Len(b) = L - 1
      BY <1>4, <3>1
    <3> QED BY <3>1, <3>2
  <2> QED BY <1>1, <1>3, <2>1
<1>6. ASSUME NEW n \in 1..L, n > k PROVE n - 1 \in 1..(L - 1) /\ r[n - 1] = s[n]
  <2>1. n \in Int /\ k \in Int /\ L \in Int /\ 1 <= k /\ k < n /\ n <= L
    BY <1>0, <1>6
  <2>2. Len(a) = k - 1 /\ Len(a) + Len(b) = L - 1
    BY <1>4, <2>1
  <2>3. n - 1 \in 1..(L - 1) /\ n - k \in 1..(L - k) /\ n - 1 \in 1..(Len(a) + Len(b))
    <3>1. n - 1 \in Int /\ 1 <= n - 1 /\ n - 1 <= L - 1
      BY <2>1
    <3>2. n - k \in Int /\ 1 <= n - k /\ n - k <= L - k
      BY <2>1
    <3> QED BY <2>2, <3>1, <3>2
  <2>4. ~(n - 1 <= Len(a)) /\ (n - 1) - Len(a) = n - k /\ k + (n - k) = n
    BY <2>1, <2>2
  <2>5. r[n - 1] = b[n - k]
    BY <1>3, <2>3, <2>4
  <2> QED BY <1>2, <2>3, <2>4, <2>5
<1>7. ASSUME NEW x \in Range(s) \ {s[k]} PROVE x \in Range(r)
  <2>1. PICK n \in 1..L : x = s[n]
    BY <1>0 DEF Range
  <2>2. n < k \/ n > k
    BY <1>0, <2>1
  <2> QED BY <1>4, <1>5, <1>6, <2>1, <2>2 DEF Range
<1>8. \A n \in 1..(L - 1) :
        IF n < k THEN n \in 1..L /\ r[n] = s[n] ELSE n + 1 \in 1..L /\ r[n] = s[n + 1]
  <2>1. ASSUME NEW n \in 1..(L - 1), n < k PROVE n \in 1..L
    BY <1>0
  <2>2. ASSUME NEW n \in 1..(L - 1), ~(n < k) PROVE n + 1 \in 1..L /\ n + 1 > k /\ (n + 1) - 1 = n
    BY <1>0, <2>2
  <2> QED BY <1>5, <1>6, <2>1, <2>2
<1>9. Range(r) \subseteq Range(s)
  BY <1>0, <1>4, <1>8 DEF Range
<1>10. ASSUME IsInjective(s) PROVE IsInjective(r)
  <2> SUFFICES ASSUME NEW m \in 1..(L - 1), NEW n \in 1..(L - 1), r[m] = r[n] PROVE m = n
    BY <1>4 DEF IsInjective
  <2> DEFINE u == IF m < k THEN m ELSE m + 1
             v == IF n < k THEN n ELSE n + 1
  <2>1. u \in 1..L /\ v \in 1..L /\ r[m] = s[u] /\ r[n] = s[v]
    BY <1>8
  <2>2. u = v
    BY <1>0, <1>10, <2>1 DEF IsInjective
  <2> QED BY <1>0, <2>2
<1> QED BY <1>3, <1>7, <1>9, <1>10 DEF RemoveAt, r, a, b, L

LEMMA InitInv == Init => Inv
<1> SUFFICES ASSUME Init PROVE Inv
  OBVIOUS
<1>1. N \in Nat
  BY JobsAssumption DEF Init, N
<1>2. DOMAIN job.keys = 1..N /\ N + 1 = seq
  BY JobsAssumption DEF Init, N
<1>3. Temps = {}
  BY <1>1, <1>2 DEF Temps
<1> QED BY <1>1, <1>2, <1>3 DEF Init, Inv, Names, NameFirst, NameLast, AllListed, Over

\* Everything that ends sort cleans up.
LEMMA CleanupInv ==
  ASSUME Inv, ~Over, disk' = disk \ Range(temphead), Over',
         UNCHANGED <<job, temphead, seq>>
  PROVE  Inv'
<1>1. Names'
  BY DEF Inv, Names, N
<1>2. NameFirst' /\ NameLast'
  BY DEF NameFirst, NameLast, Over
<1>3. Temps' = Temps
  BY DEF Temps, N
<1>4. AllListed'
  BY <1>3 DEF Inv, AllListed
<1> QED BY <1>1, <1>2, <1>4 DEF Inv

\* A new name.
LEMMA TempnameInv ==
  ASSUME Inv, ~Over, tempname, pc' \in {"copy", "chunk_write", "round"},
         UNCHANGED <<job, disk>>
  PROVE  Inv'
<1>1. temphead \in Seq(Int) /\ seq \in Int
  BY DEF Inv, Names
<1>2. temphead' \in Seq(Int) /\ Range(temphead') = Range(temphead) \cup {seq}
  BY <1>1, ConsRange DEF tempname
<1>3. N \in Nat /\ N' = N
  BY InputCount DEF Inv, N
<1>4. Names'
  BY <1>2, <1>3 DEF Inv, Names, tempname
<1>5. NameFirst' /\ NameLast' /\ ~Over'
  BY <1>2 DEF NameFirst, NameLast, tempname, Over
<1>6. Temps' = Temps \cup {seq}
  BY <1>3 DEF Temps, tempname, Inv, Names
<1>7. AllListed'
  BY <1>2, <1>5, <1>6 DEF Inv, AllListed
<1> QED BY <1>4, <1>5, <1>7 DEF Inv

\* The file of the newest name.
LEMMA CreateInv ==
  ASSUME Inv, pc \in {"copy", "chunk_write", "round"}, disk' = disk \cup {temp},
         pc' \in {"main", "read", "mergefps"}, UNCHANGED <<job, temphead, seq>>
  PROVE  Inv'
<1>1. Names' /\ Temps' = Temps
  BY DEF Inv, Names, N, Temps
<1>2. NameFirst' /\ NameLast' /\ ~Over /\ ~Over'
  BY DEF NameFirst, NameLast, Over
<1>3. temp \in Range(temphead)
  BY DEF Inv, NameFirst
<1>4. AllListed'
  BY <1>1, <1>2, <1>3 DEF Inv, AllListed
<1> QED BY <1>1, <1>2, <1>4 DEF Inv

\* Steps that neither create nor remove a file and leave the list alone.
LEMMA QuietInv ==
  ASSUME Inv, ~Over, ~Over', pc' \notin {"copy", "chunk_write", "round", "zapped"},
         UNCHANGED <<job, disk, temphead, seq>>
  PROVE  Inv'
BY DEF Inv, Names, N, Temps, NameFirst, NameLast, AllListed

LEMMA NextInv ==
  ASSUME Inv, [Next]_vars
  PROVE  Inv'
<1> USE DEF files_vars, merge_vars
<1>1. CASE UNCHANGED vars
  BY <1>1 DEF vars, Inv, Names, N, Temps, NameFirst, NameLast, AllListed, Over
<1>2. CASE Finished
  BY <1>1, <1>2 DEF Finished
<1>3. CASE ~Over /\ Signal
  BY <1>3, CleanupInv DEF Signal, cleanup, Over
<1>4. ASSUME ~Over, Fail PROVE Inv'
  BY <1>4, CleanupInv DEF Fail, cleanup, Over
<1>5. CASE ~Over /\ Error
  BY <1>4, <1>5 DEF Error
<1>6. CASE ~Over /\ SortStep
  <2>1. CASE CopyName
    BY <1>6, <2>1, TempnameInv DEF CopyName
  <2>2. CASE CopyFile
    BY <2>2, CreateInv DEF CopyFile, Create
  <2>3. CASE InputMissing \/ OpenFails
    BY <1>4, <1>6, <2>3 DEF InputMissing, OpenFails
  <2>4. CASE OpenOutput
    <3>1. job.outfile \in DOMAIN job.keys \cup {NewFile, Stdout} /\ N \in Nat
      BY InputCount, JobsAssumption DEF Inv, Names
    <3>2. DOMAIN job.keys = 1..N
      BY JobsAssumption DEF N, Inv, Names
    <3>3. job.outfile \notin Temps
      BY <3>1, <3>2 DEF Temps, NewFile, Stdout, Inv, Names
    <3>4. Names' /\ Temps' = Temps /\ NameFirst' /\ NameLast' /\ ~Over'
      BY <2>4 DEF OpenOutput, Inv, Names, N, Temps, NameFirst, NameLast, Over
    <3>5. AllListed'
      BY <1>6, <2>4, <3>3, <3>4 DEF OpenOutput, Inv, AllListed
    <3> QED BY <3>4, <3>5 DEF Inv
  <2>5. CASE SortOpen \/ ReadEnd \/ Direct
    BY <1>6, <2>5, QuietInv DEF SortOpen, ReadEnd, Direct, Over
  <2>6. CASE Read
    BY <1>6, <2>6, QuietInv DEF Read, Over
  <2>7. CASE ChunkName
    BY <1>6, <2>7, TempnameInv DEF ChunkName
  <2>8. CASE ChunkWrite
    BY <2>8, CreateInv DEF ChunkWrite, Create
  <2>9. CASE SortMerge
    BY <1>6, <2>9, QuietInv DEF SortMerge, Over
  <2>10. CASE RoundName
    BY <1>6, <2>10, TempnameInv DEF RoundName
  <2>11. CASE RoundCreate
    BY <2>11, CreateInv DEF RoundCreate, Create
  <2>12. CASE LastMerge
    BY <1>6, <2>12, QuietInv DEF LastMerge, Over
  <2>13. CASE MergeLine
    BY <1>6, <2>13, QuietInv DEF MergeLine, Over
  <2>14. CASE MergeEnd
    BY <1>6, <2>14, QuietInv DEF MergeEnd, Over
  <2>15. CASE ZapTemp
    <3>1. UNCHANGED <<job, temphead, seq>> /\ disk' \subseteq disk /\ ~Over'
          /\ pc' \in {"zap", "zapped"} /\ (pc' = "zapped" => zap'[1] \notin disk')
      BY <2>15 DEF ZapTemp, Over
    <3> QED BY <1>6, <3>1 DEF Inv, Names, N, Temps, NameFirst, NameLast, AllListed
  <2>16. CASE ZapNode
    <3>1. PICK k \in DOMAIN temphead :
            temphead[k] = zap[1] /\ temphead' = RemoveAt(temphead, k)
      BY <2>16 DEF ZapNode
    <3>2. temphead' \in Seq(Int) /\ Range(temphead) \ {zap[1]} \subseteq Range(temphead')
      BY <3>1, RemoveRange DEF Inv, Names
    <3>3. zap[1] \notin disk /\ pc' = "zap" /\ UNCHANGED <<job, disk, seq>>
      BY <2>16 DEF ZapNode, Inv, NameLast
    <3>4. Names' /\ Temps' = Temps /\ NameFirst' /\ NameLast' /\ ~Over'
      BY <3>2, <3>3 DEF Inv, Names, N, Temps, NameFirst, NameLast, Over
    <3>5. AllListed'
      BY <1>6, <3>2, <3>3, <3>4 DEF Inv, AllListed
    <3> QED BY <3>4, <3>5 DEF Inv
  <2>17. CASE GroupEnd \/ LastEnd
    BY <1>6, <2>17, QuietInv DEF GroupEnd, LastEnd, Over
  <2>18. CASE Exit
    BY <1>6, <2>18, CleanupInv DEF Exit, cleanup, Over
  <2> QED BY <1>6, <2>1, <2>2, <2>3, <2>4, <2>5, <2>6, <2>7, <2>8, <2>9, <2>10, <2>11,
             <2>12, <2>13, <2>14, <2>15, <2>16, <2>17, <2>18 DEF SortStep
<1> QED BY <1>1, <1>2, <1>3, <1>5, <1>6 DEF Next

\* Whatever is sorted or merged, with any NMERGE, whichever open, read, write or creation
\* fails and wherever a signal comes: when sort is gone, so are its temporary files (the
\* list of sort.c:316 and :410, cleanup on every exit, zaptemp).
THEOREM NoneLeft == Spec => []NoTempLeft
<1>1. Inv => NoTempLeft
  BY DEF Inv, AllListed, NoTempLeft, Temps
<1> QED BY <1>1, InitInv, NextInv, PTL DEF Spec

------------------------------------------------------------------------------
(* The order of the lines                                                  *)

LEMMA Smallest ==
  ASSUME NEW S, S \subseteq Nat, S # {}
  PROVE  \E x \in S : \A y \in S : x <= y
<1>1. IsWellFoundedOn(OpToRel(<, Nat), Nat)
  BY NatLessThanWellFounded
<1>2. PICK x \in S : \A y \in S : ~(<<y, x>> \in OpToRel(<, Nat))
  BY <1>1, WFMin
<1>3. \A y \in S : x <= y
  <2>1. \A y, z \in Nat : y < z => <<y, z>> \in OpToRel(<, Nat)
    BY Zenon DEF OpToRel
  <2>2. \A y \in S : ~(y < x)
    BY <1>2, <2>1
  <2> QED
    BY <2>2
<1> QED
  BY <1>3

\* R is a strict order on S that is total.
Orders(R, S) ==
  /\ \A a \in S : <<a, a>> \notin R
  /\ \A a, b, c \in S : <<a, b>> \in R /\ <<b, c>> \in R => <<a, c>> \in R
  /\ \A a, b \in S : a # b => <<a, b>> \in R \/ <<b, a>> \in R

\* s is S in the order of R.
IsArrangement(s, S, R) ==
  /\ s \in [1..Cardinality(S) -> S]
  /\ \A x \in S : \E k \in 1..Cardinality(S) : s[k] = x
  /\ \A j, k \in 1..Cardinality(S) : j < k => <<s[j], s[k]>> \in R

\* A finite set that is not empty has a last member.
LEMMA LastMember ==
  ASSUME NEW S, IsFiniteSet(S), S # {}, NEW R, Orders(R, S)
  PROVE  \E x \in S : \A y \in S : y # x => <<y, x>> \in R
<1> DEFINE NoLast(T) == T # {} /\ \A x \in T : \E y \in T : y # x /\ <<y, x>> \notin R
           K == {n \in Nat : \E T \in SUBSET S : Cardinality(T) = n /\ NoLast(T)}
<1>1. \A T \in SUBSET S : IsFiniteSet(T) /\ Cardinality(T) \in Nat
  BY FS_Subset, FS_CardinalityType
<1>2. ASSUME NoLast(S) PROVE FALSE
  <2>1. K # {} /\ K \subseteq Nat
    BY <1>1, <1>2
  <2> HIDE DEF K
  <2>2. PICK n \in K : \A m \in K : n <= m
    BY <2>1, Smallest
  <2>3. PICK T \in SUBSET S : Cardinality(T) = n /\ NoLast(T)
    BY <2>2 DEF K
  <2>4. PICK z \in T : TRUE
    BY <2>3
  <2> DEFINE U == T \ {z}
  <2>5. Cardinality(U) = n - 1 /\ n \in Nat /\ U \in SUBSET S
    BY <1>1, <2>1, <2>2, <2>3, <2>4, FS_RemoveElement
  <2>6. n - 1 \notin K
    BY <2>1, <2>2, <2>5
  <2>7. ~NoLast(U)
    <3>1. Cardinality(U) \in Nat
      BY <1>1, <2>5
    <3> QED BY <2>5, <2>6, <3>1 DEF K
  <2>8. U # {}
    BY <2>3, <2>4
  <2>9. PICK x \in U : \A y \in U : y # x => <<y, x>> \in R
    BY <2>7, <2>8
  <2> HIDE DEF U
  <2>10. x \in T /\ z \in T /\ x # z /\ T \subseteq S /\ T = U \cup {z}
    BY <2>3, <2>4, <2>9 DEF U
  <2>11. <<x, z>> \in R \/ <<z, x>> \in R
    BY <2>10 DEF Orders
  <2>12. \A y \in U : y # x => y \in S
    BY <2>10
  <2>13. CASE <<z, x>> \in R
    <3>1. \A y \in T : y # x => <<y, x>> \in R
      BY <2>9, <2>10, <2>13
    <3> QED BY <2>3, <2>10, <3>1
  <2>14. CASE <<x, z>> \in R
    <3>1. ASSUME NEW y \in U PROVE <<y, z>> \in R
      <4>1. y \in S /\ x \in S /\ z \in S
        BY <2>10
      <4>2. y # x => <<y, x>> \in R
        BY <2>9
      <4> QED BY <2>14, <4>1, <4>2 DEF Orders
    <3>2. \A y \in T : y # z => <<y, z>> \in R
      BY <2>10, <3>1
    <3> QED BY <2>3, <2>10, <3>2
  <2> QED BY <2>11, <2>13, <2>14
<1> QED BY <1>2

\* A finite set can be brought into any order that sets its members apart.
LEMMA Arrangement ==
  ASSUME NEW S, IsFiniteSet(S), NEW R, Orders(R, S)
  PROVE  \E s : IsArrangement(s, S, R)
<1> DEFINE None(T) == \A s : ~IsArrangement(s, T, R)
           K == {n \in Nat : \E T \in SUBSET S : Cardinality(T) = n /\ None(T)}
<1>1. \A T \in SUBSET S : IsFiniteSet(T) /\ Cardinality(T) \in Nat
  BY FS_Subset, FS_CardinalityType
<1>2. ASSUME None(S) PROVE FALSE
  <2>1. K # {} /\ K \subseteq Nat
    BY <1>1, <1>2
  <2> HIDE DEF K
  <2>2. PICK n \in K : \A m \in K : n <= m
    BY <2>1, Smallest
  <2>3. PICK T \in SUBSET S : Cardinality(T) = n /\ None(T)
    BY <2>2 DEF K
  <2>4. T # {}
    <3>1. SUFFICES ASSUME T = {} PROVE FALSE
      OBVIOUS
    <3>2. Cardinality(T) = 0
      BY <3>1, FS_EmptySet
    <3>3. \A j : j \notin 1..0
      OBVIOUS
    <3> DEFINE e == [k \in 1..Cardinality(T) |-> k]
    <3>4. e \in [1..Cardinality(T) -> T]
      BY <3>2, <3>3
    <3>5. IsArrangement(e, T, R)
      BY <3>1, <3>2, <3>3, <3>4 DEF IsArrangement
    <3> QED BY <2>3, <3>5
  <2>5. Orders(R, T) /\ IsFiniteSet(T) /\ n \in Nat
    BY <1>1, <2>1, <2>3 DEF Orders
  <2>6. PICK z \in T : \A y \in T : y # z => <<y, z>> \in R
    BY <2>4, <2>5, LastMember
  <2> DEFINE U == T \ {z}
  <2>7. Cardinality(U) = n - 1 /\ U \in SUBSET S /\ Cardinality(U) \in Nat
    BY <1>1, <2>3, <2>5, <2>6, FS_RemoveElement
  <2>8. ~None(U)
    <3>1. n - 1 \notin K
      BY <2>1, <2>2, <2>5, <2>7
    <3> QED BY <2>7, <3>1 DEF K
  <2>9. PICK u : IsArrangement(u, U, R)
    BY <2>8
  <2> DEFINE s == [k \in 1..n |-> IF k = n THEN z ELSE u[k]]
  <2>10. n \in Nat /\ n # 0 /\ \A k \in 1..n : k = n \/ k \in 1..(n - 1)
    BY <2>5, <2>7
  <2>11. \A k \in 1..(n - 1) : u[k] \in U /\ k \in 1..n /\ k # n
    <3>1. \A k \in 1..(n - 1) : k \in 1..n /\ k # n
      BY <2>10
    <3>2. u \in [1..(n - 1) -> U]
      BY <2>7, <2>9 DEF IsArrangement
    <3> HIDE DEF U
    <3> QED BY <3>1, <3>2
  <2>12. \A k \in 1..n : s[k] \in T
    BY <2>6, <2>10, <2>11
  <2>13. ASSUME NEW x \in T PROVE \E k \in 1..n : s[k] = x
    <3>1. CASE x = z
      BY <2>10, <3>1
    <3>2. CASE x # z
      <4>1. x \in U
        BY <3>2
      <4>2. PICK k \in 1..(n - 1) : u[k] = x
        BY <2>7, <2>9, <4>1 DEF IsArrangement
      <4> QED BY <2>11, <4>2
    <3> QED BY <3>1, <3>2
  <2>14. ASSUME NEW j \in 1..n, NEW k \in 1..n, j < k PROVE <<s[j], s[k]>> \in R
    <3>1. j \in 1..(n - 1)
      BY <2>10, <2>14
    <3>2. s[j] = u[j] /\ u[j] \in U
      BY <2>11, <3>1
    <3>3. CASE k = n
      <4>1. s[k] = z
        BY <3>3
      <4> QED BY <2>6, <3>2, <4>1
    <3>4. CASE k # n
      <4>1. k \in 1..(n - 1) /\ s[k] = u[k]
        BY <2>10, <3>4
      <4> QED BY <2>7, <2>9, <2>14, <3>1, <3>2, <4>1 DEF IsArrangement
    <3> QED BY <3>3, <3>4
  <2>15. s \in [1..n -> T]
    BY <2>12
  <2> HIDE DEF s
  <2>16. IsArrangement(s, T, R)
    BY <2>3, <2>13, <2>14, <2>15 DEF IsArrangement
  <2> QED BY <2>3, <2>16
<1> QED BY <1>2

\* The lines of the inputs, each of which has its key and its place.
LEMMA LinesAre ==
  ASSUME job \in Jobs
  PROVE  /\ N \in Nat /\ DOMAIN job.keys = 1..N
         /\ \A f \in 1..N : /\ Lines(f) \in Seq(AllLines)
                            /\ \A p \in 1..Len(Lines(f)) : Lines(f)[p].at = <<f, p>>
                            /\ \A p \in 1..Len(Lines(f)) : Lines(f)[p].key = job.keys[f][p]
                            /\ DOMAIN job.keys[f] = 1..Len(Lines(f))
         /\ \A l \in AllLines : \E f \in 1..N : \E p \in 1..Len(Lines(f)) : l = Lines(f)[p]
<1>1. job.keys \in Seq(Seq(Int))
  BY JobsAssumption
<1>2. N \in Nat /\ DOMAIN job.keys = 1..N /\ \A f \in 1..N : job.keys[f] \in Seq(Int)
  BY <1>1 DEF N
<1>3. ASSUME NEW f \in 1..N
      PROVE  /\ Lines(f) \in Seq(AllLines)
             /\ \A p \in 1..Len(Lines(f)) : Lines(f)[p].at = <<f, p>>
             /\ \A p \in 1..Len(Lines(f)) : Lines(f)[p].key = job.keys[f][p]
             /\ DOMAIN job.keys[f] = 1..Len(Lines(f))
             /\ Range(Lines(f)) = {Lines(f)[p] : p \in 1..Len(Lines(f))}
  <2> DEFINE ks == job.keys[f]
  <2>1. ks \in Seq(Int) /\ DOMAIN ks = 1..Len(ks) /\ Len(ks) \in Nat
    BY <1>2
  <2>2. Lines(f) = [p \in 1..Len(ks) |-> [key |-> ks[p], at |-> <<f, p>>]]
    BY <2>1 DEF Lines
  <2>3. DOMAIN Lines(f) = 1..Len(ks)
    BY <2>2
  <2>4. \A p \in 1..Len(ks) : Lines(f)[p] \in AllLines
    <3>1. \A p \in DOMAIN Lines(f) : Lines(f)[p] \in Range(Lines(f))
      BY DEF Range
    <3> QED BY <1>2, <2>3, <3>1 DEF AllLines
  <2>5. Lines(f) \in [1..Len(ks) -> AllLines]
    <3>1. Lines(f) = [p \in 1..Len(ks) |-> Lines(f)[p]]
      BY <2>2
    <3> HIDE DEF ks
    <3> QED BY <2>4, <3>1
  <2>6. Lines(f) \in Seq(AllLines) /\ Len(Lines(f)) = Len(ks)
    <3> HIDE DEF ks
    <3> QED BY <2>1, <2>5
  <2>7. \A p \in 1..Len(ks) : Lines(f)[p] = [key |-> ks[p], at |-> <<f, p>>]
    BY <2>2
  <2>8. ASSUME NEW p \in 1..Len(ks)
        PROVE  Lines(f)[p].at = <<f, p>> /\ Lines(f)[p].key = ks[p]
    <3>1. Lines(f)[p] = [key |-> ks[p], at |-> <<f, p>>]
      BY <2>7
    <3> HIDE DEF ks
    <3> QED BY <3>1
  <2> QED BY <2>1, <2>3, <2>6, <2>8 DEF Range
<1>4. ASSUME NEW l \in AllLines
      PROVE  \E f \in 1..N : \E p \in 1..Len(Lines(f)) : l = Lines(f)[p]
  <2>1. PICK f \in 1..N : l \in Range(Lines(f))
    BY <1>2, <1>4 DEF AllLines
  <2>2. Range(Lines(f)) = {Lines(f)[p] : p \in 1..Len(Lines(f))}
    BY <1>3
  <2> QED BY <2>1, <2>2
<1> QED BY <1>2, <1>3, <1>4

\* A line is known by its place.
LEMMA LineIs ==
  ASSUME job \in Jobs
  PROVE  /\ \A l \in AllLines : l.key \in Int /\ l.at[1] \in 1..N /\ l.at[2] \in Nat
         /\ \A l \in AllLines : l.at[2] \in 1..Len(Lines(l.at[1])) /\ l = Lines(l.at[1])[l.at[2]]
<1> SUFFICES ASSUME NEW l \in AllLines
             PROVE  /\ l.key \in Int /\ l.at[1] \in 1..N /\ l.at[2] \in Nat
                    /\ l.at[2] \in 1..Len(Lines(l.at[1])) /\ l = Lines(l.at[1])[l.at[2]]
  OBVIOUS
<1>1. PICK f \in 1..N : \E p \in 1..Len(Lines(f)) : l = Lines(f)[p]
  BY LinesAre
<1>2. PICK p \in 1..Len(Lines(f)) : l = Lines(f)[p]
  BY <1>1
<1>3. l.at = <<f, p>> /\ l.key = job.keys[f][p] /\ p \in DOMAIN job.keys[f]
  BY <1>2, LinesAre
<1>4. job.keys[f] \in Seq(Int)
  <2>1. job.keys \in Seq(Seq(Int)) /\ f \in DOMAIN job.keys
    BY LinesAre, JobsAssumption
  <2> QED BY <2>1
<1>5. l.key \in Int
  BY <1>3, <1>4
<1>6. l.at[1] = f /\ l.at[2] = p
  BY <1>3
<1>7. Len(Lines(f)) \in Nat
  BY LinesAre
<1> QED BY <1>2, <1>5, <1>6, <1>7

LEMMA LineTypes ==
  ASSUME job \in Jobs
  PROVE  \A l \in AllLines : l.key \in Int /\ l.at[1] \in Int /\ l.at[2] \in Int
<1>1. N \in Nat
  BY LinesAre
<1>2. \A l \in AllLines : l.key \in Int /\ l.at[1] \in 1..N /\ l.at[2] \in Nat
  BY LineIs
<1> HIDE DEF N
<1> QED BY <1>1, <1>2

\* The order of equal lines.
AtBefore(a, b) == a.at[1] < b.at[1] \/ (a.at[1] = b.at[1] /\ a.at[2] < b.at[2])

LEMMA LineOrder ==
  ASSUME job \in Jobs
  PROVE  /\ \A a \in AllLines : ~InOrder(a, a)
         /\ \A a, b, c \in AllLines : InOrder(a, b) /\ InOrder(b, c) => InOrder(a, c)
         /\ \A a, b \in AllLines : a # b => InOrder(a, b) \/ InOrder(b, a)
<1>1. ASSUME NEW a \in AllLines PROVE ~InOrder(a, a)
  BY LineIs DEF InOrder, Before
<1>2. ASSUME NEW a \in AllLines, NEW b \in AllLines, NEW c \in AllLines,
             InOrder(a, b), InOrder(b, c)
      PROVE  InOrder(a, c)
  <2>1. /\ a.key \in Int /\ b.key \in Int /\ c.key \in Int
        /\ a.at[1] \in Int /\ b.at[1] \in Int /\ c.at[1] \in Int
        /\ a.at[2] \in Int /\ b.at[2] \in Int /\ c.at[2] \in Int
    BY LineTypes
  <2> QED BY <1>2, <2>1 DEF InOrder, Before
<1>3. ASSUME NEW a \in AllLines, NEW b \in AllLines, a # b
      PROVE  InOrder(a, b) \/ InOrder(b, a)
  <2>1. /\ a.key \in Int /\ b.key \in Int /\ a.at[1] \in Int /\ b.at[1] \in Int
        /\ a.at[2] \in Int /\ b.at[2] \in Int
    BY LineTypes
  <2>2. ~(a.at[1] = b.at[1] /\ a.at[2] = b.at[2])
    BY <1>3, LineIs
  <2> QED BY <2>1, <2>2 DEF InOrder, Before
<1> QED BY <1>1, <1>2, <1>3

LEMMA LineOrderIs ==
  ASSUME job \in Jobs, NEW a \in AllLines, NEW b \in AllLines
  PROVE  /\ a.key \in Int /\ b.key \in Int
         /\ InOrder(a, b) => a.key <= b.key
         /\ a.key < b.key => InOrder(a, b)
         /\ a.key = b.key => (InOrder(a, b) <=> AtBefore(a, b))
<1>1. a.key \in Int /\ b.key \in Int
  BY LineIs
<1> QED BY <1>1 DEF InOrder, Before, AtBefore

LEMMA AllLinesFinite ==
  ASSUME job \in Jobs
  PROVE  IsFiniteSet(AllLines)
<1>1. ASSUME NEW f \in 1..N PROVE IsFiniteSet(Range(Lines(f)))
  <2> DEFINE L == Len(Lines(f))
  <2>1. Lines(f) \in Seq(AllLines) /\ L \in Nat /\ DOMAIN Lines(f) = 1..L
    BY LinesAre
  <2>2. IsFiniteSet(1..L)
    BY <2>1, FS_Interval
  <2>3. Lines(f) = [p \in 1..L |-> Lines(f)[p]] /\ Range(Lines(f)) = {Lines(f)[p] : p \in 1..L}
    BY <2>1 DEF Range
  <2>4. Lines(f) \in Surjection(1..L, Range(Lines(f)))
    <3> HIDE DEF L
    <3>1. Lines(f) \in [1..L -> Range(Lines(f))]
      BY <2>3
    <3>2. \A x \in Range(Lines(f)) : \E p \in 1..L : Lines(f)[p] = x
      BY <2>3
    <3> QED BY <3>1, <3>2 DEF Surjection
  <2> QED BY <2>2, <2>4, FS_Surjection
<1> DEFINE F == [f \in 1..N |-> Range(Lines(f))]
           S == {F[f] : f \in 1..N}
<1>2. IsFiniteSet(1..N)
  BY LinesAre, FS_Interval
<1>3. F \in Surjection(1..N, S)
  BY DEF Surjection
<1>4. IsFiniteSet(S)
  BY <1>2, <1>3, FS_Surjection
<1>5. \A T \in S : IsFiniteSet(T)
  BY <1>1
<1>6. AllLines = UNION S
  BY LinesAre DEF AllLines
<1> HIDE DEF S
<1> QED BY <1>4, <1>5, <1>6, FS_UNION

\* What sorting lines gives.
LEMMA SortedLines ==
  ASSUME job \in Jobs, NEW S, S \subseteq AllLines
  PROVE  LET s == Arranged(S, InOrder)
         IN /\ s \in Seq(S) /\ Range(s) = S
            /\ \A j, k \in 1..Len(s) : j < k => InOrder(s[j], s[k])
<1> DEFINE s == Arranged(S, InOrder)
           R == {e \in S \X S : InOrder(e[1], e[2])}
           C == Cardinality(S)
<1>1. IsFiniteSet(S) /\ C \in Nat
  BY AllLinesFinite, FS_Subset, FS_CardinalityType
<1>2. \A a, b \in S : <<a, b>> \in R <=> InOrder(a, b)
  OBVIOUS
<1>3. Orders(R, S)
  <2> HIDE DEF R
  <2> QED BY <1>2, LineOrder DEF Orders
<1>4. PICK z : IsArrangement(z, S, R)
  BY <1>1, <1>3, Arrangement
<1>5. /\ z \in [1..C -> S] /\ \A x \in S : \E k \in 1..C : z[k] = x
      /\ \A j, k \in 1..C : j < k => InOrder(z[j], z[k])
  <2> HIDE DEF R, C
  <2>1. /\ z \in [1..C -> S] /\ \A x \in S : \E k \in 1..C : z[k] = x
        /\ \A j, k \in 1..C : j < k => <<z[j], z[k]>> \in R
    BY <1>4 DEF IsArrangement, C
  <2> QED BY <1>2, <2>1
<1>6. /\ z \in [1..C -> S] /\ \A x \in S : \E k \in DOMAIN z : z[k] = x
      /\ \A j, k \in DOMAIN z : j < k => InOrder(z[j], z[k])
  <2> HIDE DEF C
  <2> QED BY <1>5
<1> HIDE DEF R
<1>7. /\ s \in [1..C -> S] /\ \A x \in S : \E k \in DOMAIN s : s[k] = x
      /\ \A j, k \in DOMAIN s : j < k => InOrder(s[j], s[k])
  BY <1>6 DEF Arranged
<1> HIDE DEF s, C
<1>8. s \in Seq(S) /\ Len(s) = C /\ DOMAIN s = 1..Len(s)
  BY <1>1, <1>7
<1>9. Range(s) = S
  BY <1>7 DEF Range
<1> QED BY <1>7, <1>8, <1>9 DEF s

\* What sorting places gives.
LEMMA SortedPlaces ==
  ASSUME NEW n \in Nat, NEW S, S \subseteq 1..n
  PROVE  LET s == Arranged(S, <)
         IN /\ s \in Seq(S) /\ Range(s) = S /\ Len(s) <= n
            /\ \A j, k \in 1..Len(s) : j < k => s[j] < s[k]
<1> DEFINE s == Arranged(S, <)
           R == {e \in S \X S : e[1] < e[2]}
           C == Cardinality(S)
<1>1. IsFiniteSet(S) /\ C \in Nat /\ C <= n
  <2>1. IsFiniteSet(1..n) /\ Cardinality(1..n) = n
    BY FS_Interval
  <2> QED BY <2>1, FS_Subset, FS_CardinalityType
<1>2. \A a, b \in S : <<a, b>> \in R <=> a < b
  OBVIOUS
<1>3. Orders(R, S)
  <2> HIDE DEF R
  <2>1. \A a \in S : a \in Int
    OBVIOUS
  <2> QED BY <1>2, <2>1 DEF Orders
<1>4. PICK z : IsArrangement(z, S, R)
  BY <1>1, <1>3, Arrangement
<1>5. /\ z \in [1..C -> S] /\ \A x \in S : \E k \in 1..C : z[k] = x
      /\ \A j, k \in 1..C : j < k => z[j] < z[k]
  <2> HIDE DEF R, C
  <2>1. /\ z \in [1..C -> S] /\ \A x \in S : \E k \in 1..C : z[k] = x
        /\ \A j, k \in 1..C : j < k => <<z[j], z[k]>> \in R
    BY <1>4 DEF IsArrangement, C
  <2> QED BY <1>2, <2>1
<1>6. /\ z \in [1..C -> S] /\ \A x \in S : \E k \in DOMAIN z : z[k] = x
      /\ \A j, k \in DOMAIN z : j < k => z[j] < z[k]
  <2> HIDE DEF C
  <2> QED BY <1>5
<1> HIDE DEF R
<1>7. /\ s \in [1..C -> S] /\ \A x \in S : \E k \in DOMAIN s : s[k] = x
      /\ \A j, k \in DOMAIN s : j < k => s[j] < s[k]
  BY <1>6 DEF Arranged
<1> HIDE DEF s, C
<1>8. s \in Seq(S) /\ Len(s) = C /\ DOMAIN s = 1..Len(s)
  BY <1>1, <1>7
<1>9. Range(s) = S
  BY <1>7 DEF Range
<1>10. Len(s) <= n /\ \A j, k \in 1..Len(s) : j < k => s[j] < s[k]
  BY <1>1, <1>7, <1>8
<1> QED BY <1>8, <1>9, <1>10 DEF s

\* The order of the heads of files.
LEMMA HeadOrder ==
  ASSUME NEW n \in Nat, NEW fs, \A k \in 1..n : fs[k][1].key \in Int
  PROVE  /\ \A a \in 1..n : ~HeadBefore(fs, a, a)
         /\ \A a, b, c \in 1..n : HeadBefore(fs, a, b) /\ HeadBefore(fs, b, c)
                                 => HeadBefore(fs, a, c)
         /\ \A a, b \in 1..n : a # b => HeadBefore(fs, a, b) \/ HeadBefore(fs, b, a)
<1> DEFINE key == [k \in 1..n |-> fs[k][1].key]
<1>1. \A k \in 1..n : key[k] \in Int /\ k \in Int
  OBVIOUS
<1>2. \A a, b \in 1..n : HeadBefore(fs, a, b) <=> key[a] < key[b] \/ (key[a] = key[b] /\ a < b)
  BY DEF HeadBefore, Before
<1> HIDE DEF key
<1> DEFINE B(a, b) == key[a] < key[b] \/ (key[a] = key[b] /\ a < b)
<1>3. /\ \A a \in 1..n : ~B(a, a)
      /\ \A a, b, c \in 1..n : B(a, b) /\ B(b, c) => B(a, c)
      /\ \A a, b \in 1..n : a # b => B(a, b) \/ B(b, a)
  BY <1>1
<1> HIDE DEF B
<1>4. \A a, b \in 1..n : HeadBefore(fs, a, b) <=> B(a, b)
  BY <1>2 DEF B
<1> QED BY <1>3, <1>4

\* The order in which mergefps starts to take the heads.
Turns(fs) == Arranged(DOMAIN fs, LAMBDA a, b : HeadBefore(fs, a, b))

LEMMA SortedHeads ==
  ASSUME NEW fs, NEW n \in Nat, DOMAIN fs = 1..n, \A k \in 1..n : fs[k][1].key \in Int
  PROVE  /\ Turns(fs) \in [1..n -> 1..n]
         /\ \A f \in 1..n : \E k \in 1..n : Turns(fs)[k] = f
         /\ \A j, k \in 1..n : j < k => HeadBefore(fs, Turns(fs)[j], Turns(fs)[k])
<1> DEFINE o == Turns(fs)
           S == 1..n
           R == {e \in S \X S : HeadBefore(fs, e[1], e[2])}
<1>1. IsFiniteSet(S) /\ Cardinality(S) = n /\ DOMAIN fs = S
  BY FS_Interval
<1>2. \A a, b \in S : <<a, b>> \in R <=> HeadBefore(fs, a, b)
  OBVIOUS
<1>3. Orders(R, S)
  <2>1. /\ \A a \in S : ~HeadBefore(fs, a, a)
        /\ \A a, b, c \in S : HeadBefore(fs, a, b) /\ HeadBefore(fs, b, c) => HeadBefore(fs, a, c)
        /\ \A a, b \in S : a # b => HeadBefore(fs, a, b) \/ HeadBefore(fs, b, a)
    BY HeadOrder
  <2> HIDE DEF R, S
  <2> QED BY <1>2, <2>1 DEF Orders
<1>4. PICK z : IsArrangement(z, S, R)
  <2> HIDE DEF R, S
  <2> QED BY <1>1, <1>3, Arrangement
<1>5. /\ z \in [1..n -> S] /\ \A x \in S : \E k \in DOMAIN z : z[k] = x
      /\ \A j, k \in DOMAIN z : j < k => HeadBefore(fs, z[j], z[k])
  <2> HIDE DEF R
  <2>1. /\ z \in [1..n -> S] /\ \A x \in S : \E k \in 1..n : z[k] = x
        /\ \A j, k \in 1..n : j < k => <<z[j], z[k]>> \in R
    BY <1>1, <1>4 DEF IsArrangement
  <2> HIDE DEF S
  <2> QED BY <1>2, <2>1
<1> HIDE DEF R
<1>6. /\ o \in [1..n -> S] /\ \A x \in S : \E k \in DOMAIN o : o[k] = x
      /\ \A j, k \in DOMAIN o : j < k => HeadBefore(fs, o[j], o[k])
  <2> HIDE DEF S
  <2>1. o = CHOOSE s \in [1..n -> S] :
              /\ \A x \in S : \E k \in DOMAIN s : s[k] = x
              /\ \A j, k \in DOMAIN s : j < k => HeadBefore(fs, s[j], s[k])
    BY <1>1 DEF Turns, Arranged
  <2> HIDE DEF o
  <2> QED BY <1>5, <2>1
<1>7. DOMAIN o = 1..n
  BY <1>6
<1> QED BY <1>6, <1>7

------------------------------------------------------------------------------
(* The types of the variables                                              *)

Reading == {"main", "copy", "sort", "read", "direct", "chunk", "chunk_write"}
Sorting == {"sort", "read", "direct", "chunk", "chunk_write"}
InGroup == {"round", "mergefps", "zap", "zapped"}
Merging == {"merge"} \cup InGroup

\* What files hold are lines of the inputs.
Stored ==
  /\ DOMAIN text \subseteq 1..(seq - 1) /\ text \in [DOMAIN text -> Seq(AllLines)]
  /\ buf \in Seq(AllLines) /\ out \in Seq(AllLines)

\* No name is twice on the list; the newest has no file until it is created.
Listed ==
  /\ Range(temphead) \subseteq Temps /\ IsInjective(temphead)
  /\ disk \subseteq {NewFile} \cup DOMAIN job.keys \cup Temps
  /\ temp \in Nat
  /\ pc \in {"copy", "chunk_write", "round"} => temp \in Temps /\ temp \notin DOMAIN text

\* All that is opened has been written; the inputs, or their copies, stay as they were.
Opened ==
  /\ files \in Seq(DOMAIN text)
  /\ pc \in Reading => Len(files) = N /\ t = 0 /\ \A f \in 1..N : text[files[f]] = Lines(f)
  /\ i \in 1..(Len(files) + 1) /\ t \in 0..Len(files)
  /\ pc \in {"copy", "read", "direct", "chunk", "chunk_write"} => i <= N

\* The first files of the list are those sort () counts; what it has still to read of
\* input i is the end of it.
Chunked ==
  /\ n_temp_files \in Nat
  /\ pc \in {"main", "copy"} => n_temp_files = 0
  /\ pc \in Sorting =>
       /\ ~job.mergeonly
       /\ n_temp_files <= Len(temphead)
       /\ \A k \in 1..n_temp_files : temphead[k] \in DOMAIN text \/ (k = 1 /\ pc = "chunk_write")
       /\ pc = "chunk_write" => n_temp_files > 0 /\ temphead[1] = temp
  /\ pc \in Sorting \ {"sort"} =>
       /\ left \in Seq(AllLines) /\ Len(left) <= Len(Lines(i))
       /\ \A k \in 1..Len(left) : left[k] = Lines(i)[(Len(Lines(i)) - Len(left)) + k]

\* Group i of a round is merged, or the one group that goes to the output.
Rounds ==
  pc \in Merging =>
    /\ t = i - 1 /\ (i - 1) * NMERGE <= Len(files)
    /\ i > 1 => Len(files) > NMERGE
    /\ pc = "round" => Len(files) > NMERGE
    /\ pc \in {"mergefps", "zap", "zapped"} =>
         IF temp = Output THEN Len(files) <= NMERGE ELSE Len(files) > NMERGE /\ temp \in DOMAIN text

\* o is the order of the heads of fs.
InTurn(fs, o) ==
  /\ o \in [1..Len(fs) -> 1..Len(fs)]
  /\ \A f \in 1..Len(fs) : \E k \in 1..Len(fs) : o[k] = f
  /\ \A j, k \in 1..Len(fs) : j < k => HeadBefore(fs, o[j], o[k])

Sequenced ==
  pc \in InGroup =>
    /\ fps \in Seq(Seq(AllLines) \ {<<>>}) /\ Len(fps) <= NMERGE
    /\ InTurn(fps, ord)
    /\ saved \in Seq(AllLines) /\ Len(saved) <= 1
    /\ pc \in {"zap", "zapped"} => fps = <<>> /\ saved = <<>>

Places ==
  pc \in {"main", "copy", "sort", "read", "direct", "chunk", "chunk_write", "merge", "round",
          "mergefps", "zap", "zapped", "end", "success", "failure", "killed"}

Types == Stored /\ Listed /\ Opened /\ Chunked /\ Rounds /\ Sequenced /\ Places

LEMMA SameJob ==
  ASSUME job' = job
  PROVE  /\ N' = N /\ AllLines' = AllLines /\ Wanted' = Wanted
         /\ InputsSorted' = InputsSorted
         /\ \A f : Lines(f)' = Lines(f)
<1>1. N' = N /\ InputsSorted' = InputsSorted
  BY DEF N, InputsSorted
<1>2. \A f : Lines(f)' = Lines(f)
  BY DEF Lines
<1>3. AllLines' = AllLines
  BY DEF AllLines, Lines
<1>4. Wanted' = Wanted
  BY <1>3 DEF Wanted
<1> QED BY <1>1, <1>2, <1>3, <1>4

LEMMA InitTypes == Init => Types
<1> SUFFICES ASSUME Init PROVE Types
  OBVIOUS
<1>1. job \in Jobs /\ N \in Nat /\ DOMAIN job.keys = 1..N
  BY LinesAre DEF Init
<1>2. \A f \in 1..N : Lines(f) \in Seq(AllLines)
  BY <1>1, LinesAre
<1>3. text = [f \in 1..N |-> Lines(f)] /\ seq = N + 1 /\ files = [f \in 1..N |-> f]
  BY <1>1 DEF Init, N
<1>4. Stored
  <2>1. DOMAIN text = 1..N /\ DOMAIN text \subseteq 1..(seq - 1)
    BY <1>1, <1>3
  <2>2. text \in [1..N -> Seq(AllLines)]
    BY <1>2, <1>3
  <2>3. buf \in Seq(AllLines) /\ out \in Seq(AllLines)
    BY DEF Init
  <2> QED BY <2>1, <2>2, <2>3 DEF Stored
<1>5. Listed
  <2>1. Range(temphead) = {} /\ IsInjective(temphead)
    BY DEF Init, Range, IsInjective
  <2> QED BY <2>1 DEF Init, Listed, Output
<1>6. Opened
  <2>1. files \in Seq(1..N) /\ Len(files) = N /\ DOMAIN text = 1..N
    BY <1>1, <1>3
  <2>2. \A f \in 1..N : text[files[f]] = Lines(f)
    BY <1>3
  <2> QED BY <1>1, <2>1, <2>2 DEF Init, Opened
<1>7. Chunked /\ Rounds /\ Sequenced /\ Places
  BY DEF Init, Chunked, Rounds, Sequenced, Places, Sorting, Merging, InGroup
<1> QED BY <1>4, <1>5, <1>6, <1>7 DEF Types

\* sort ends.
LEMMA EndTypes ==
  ASSUME Inv, Types, disk' = disk \ Range(temphead), pc' \in {"success", "failure", "killed"},
         UNCHANGED <<job, text, temphead, seq, files, i, left, n_temp_files, buf, merge_vars,
                     temp, out>>
  PROVE  Types'
<1>1. Stored'
  BY SameJob DEF Types, Stored
<1>2. Listed'
  BY SameJob DEF Types, Listed, Temps
<1>3. Opened'
  BY DEF Types, Opened, Reading, merge_vars
<1>4. Chunked' /\ Rounds' /\ Sequenced' /\ Places'
  BY DEF Types, Chunked, Rounds, Sequenced, Places, Sorting, Merging, InGroup
<1> QED BY <1>1, <1>2, <1>3, <1>4 DEF Types

\* A new name is put on the list.
LEMMA TempnameTypes ==
  ASSUME Inv, Types, tempname, UNCHANGED <<job, disk, text, buf, out>>
  PROVE  /\ Stored' /\ Listed'
         /\ temphead'[1] = temp' /\ Len(temphead') = Len(temphead) + 1
         /\ \A k \in 1..Len(temphead) : temphead'[k + 1] = temphead[k]
         /\ temp' \in Nat \ {0}
<1>1. N \in Nat /\ N' = N /\ seq \in Nat /\ seq > N /\ temphead \in Seq(Int)
  BY LinesAre, SameJob DEF Inv, Names
<1>2. temphead' = <<seq>> \o temphead /\ temp' = seq /\ seq' = seq + 1
  BY DEF tempname
<1>3. /\ Len(temphead') = Len(temphead) + 1 /\ Len(temphead) \in Nat
      /\ DOMAIN temphead = 1..Len(temphead) /\ DOMAIN temphead' = 1..(Len(temphead) + 1)
      /\ \A k \in 1..(Len(temphead) + 1) :
           temphead'[k] = IF k = 1 THEN seq ELSE temphead[k - 1]
  BY <1>1, <1>2
<1>4. Range(temphead') = Range(temphead) \cup {seq}
  BY <1>1, <1>2, ConsRange
<1>5. Temps' = Temps \cup {seq} /\ seq \notin Temps /\ seq \in Temps'
  BY <1>1, <1>2 DEF Temps
<1>6. seq \notin DOMAIN text /\ DOMAIN text \subseteq 1..(seq' - 1)
  BY <1>1, <1>2 DEF Types, Stored
<1>7. IsInjective(temphead')
  <2> DEFINE M == Len(temphead)
  <2>1. \A k \in 1..M : temphead[k] # seq
    BY <1>3, <1>5 DEF Range, Types, Listed
  <2>2. \A j, k \in 1..M : temphead[j] = temphead[k] => j = k
    BY <1>3 DEF IsInjective, Types, Listed
  <2>3. M \in Nat /\ \A k \in 1..(M + 1) : k = 1 \/ (k # 1 /\ k - 1 \in 1..M)
    BY <1>3
  <2>4. \A k \in 1..(M + 1) : IF k = 1 THEN temphead'[k] = seq
                              ELSE temphead'[k] = temphead[k - 1] /\ temphead'[k] # seq
    BY <1>3, <2>1, <2>3
  <2>5. ASSUME NEW j \in 1..(M + 1), NEW k \in 1..(M + 1), temphead'[j] = temphead'[k]
        PROVE  j = k
    <3>1. CASE j = 1
      BY <2>4, <2>5, <3>1
    <3>2. CASE k = 1
      BY <2>4, <2>5, <3>2
    <3>3. CASE j # 1 /\ k # 1
      <4>1. temphead[j - 1] = temphead[k - 1] /\ j - 1 \in 1..M /\ k - 1 \in 1..M
        BY <2>3, <2>4, <2>5, <3>3
      <4>2. j - 1 = k - 1
        BY <2>2, <4>1
      <4> QED BY <4>2
    <3> QED BY <3>1, <3>2, <3>3
  <2> QED BY <1>3, <2>5 DEF IsInjective
<1>8. Listed'
  BY <1>1, <1>2, <1>4, <1>5, <1>6, <1>7 DEF Types, Listed
<1>9. Stored'
  BY <1>6, SameJob DEF Types, Stored
<1>10. \A k \in 1..Len(temphead) : temphead'[k + 1] = temphead[k]
  <2> DEFINE M == Len(temphead)
  <2>1. \A k \in 1..M : k + 1 \in 1..(M + 1) /\ k + 1 # 1 /\ (k + 1) - 1 = k
    BY <1>3
  <2> QED BY <1>3, <2>1
<1>11. temphead'[1] = temp' /\ temp' \in Nat \ {0}
  BY <1>1, <1>2, <1>3
<1> QED BY <1>3, <1>8, <1>9, <1>10, <1>11

\* A new file is written.
LEMMA CreateTypes ==
  ASSUME Inv, Types, NEW lines \in Seq(AllLines), Create(lines),
         pc \in {"copy", "chunk_write", "round"},
         pc' \in {"main", "read", "mergefps"},
         UNCHANGED <<job, temphead, seq, temp, buf, out>>
  PROVE  /\ Stored' /\ Listed'
         /\ temp \in DOMAIN text' /\ text'[temp] = lines
         /\ \A f \in DOMAIN text : f \in DOMAIN text' /\ text'[f] = text[f]
<1>1. N \in Nat /\ N' = N /\ AllLines' = AllLines /\ seq \in Nat /\ seq > N
  BY LinesAre, SameJob DEF Inv, Names
<1>2. temp \in Temps /\ temp \notin DOMAIN text /\ Temps' = Temps
  BY <1>1 DEF Types, Listed, Temps
<1>3. /\ DOMAIN text' = DOMAIN text \cup {temp} /\ text'[temp] = lines
      /\ \A f \in DOMAIN text : text'[f] = text[f]
  BY <1>2 DEF Create
<1>4. temp \in 1..(seq - 1)
  BY <1>1, <1>2 DEF Temps
<1>5. text' \in [DOMAIN text' -> Seq(AllLines)]
  <2> DEFINE L == Seq(AllLines)
  <2>1. text \in [DOMAIN text -> L] /\ lines \in L
    BY DEF Types, Stored
  <2> HIDE DEF L
  <2>2. text' = [f \in DOMAIN text \cup {temp} |-> IF f = temp THEN lines ELSE text[f]]
    BY DEF Create
  <2> QED BY <2>1, <2>2 DEF L
<1>6. Stored'
  BY <1>1, <1>3, <1>4, <1>5 DEF Types, Stored
<1>7. Listed'
  BY <1>1, <1>2 DEF Types, Listed, Create
<1> QED BY <1>3, <1>6, <1>7

\* Files that are opened later are still as they were.
LEMMA KeptOpened ==
  ASSUME Opened, pc \in Reading, UNCHANGED <<job, files, i, t>>,
         \A f \in DOMAIN text : f \in DOMAIN text' /\ text'[f] = text[f],
         pc' \in Reading,
         pc' \in {"copy", "read", "direct", "chunk", "chunk_write"} => i <= N
  PROVE  Opened'
<1>1. files \in Seq(DOMAIN text) /\ Len(files) = N /\ t = 0 /\ i \in 1..(Len(files) + 1)
      /\ t \in 0..Len(files) /\ \A f \in 1..N : text[files[f]] = Lines(f)
  BY DEF Opened
<1>2. files \in Seq(DOMAIN text')
  BY <1>1
<1>3. \A f \in 1..N : files[f] \in DOMAIN text
  BY <1>1
<1>4. \A f \in 1..N : text'[files[f]] = Lines(f)
  BY <1>1, <1>3
<1>5. N' = N /\ \A f : Lines(f)' = Lines(f)
  BY SameJob
<1> QED BY <1>1, <1>2, <1>4, <1>5 DEF Opened

LEMMA CopyNameTypes ==
  ASSUME Inv, Types, CopyName
  PROVE  Types'
<1>1. Stored' /\ Listed'
  BY TempnameTypes DEF CopyName
<1>2. pc = "main" /\ pc' = "copy" /\ i' \in DOMAIN files
      /\ UNCHANGED <<job, text, files, t, left, n_temp_files, fps, ord, saved>>
  BY DEF CopyName
<1>3. N \in Nat /\ N' = N /\ \A f : Lines(f)' = Lines(f)
  BY <1>2, LinesAre, SameJob DEF Inv, Names
<1>4. files \in Seq(DOMAIN text) /\ Len(files) = N /\ DOMAIN files = 1..N
  BY <1>2 DEF Types, Opened, Reading
<1>5. i' \in 1..(Len(files) + 1) /\ i' <= N
  BY <1>2, <1>3, <1>4
<1>6. Opened'
  BY <1>2, <1>3, <1>5 DEF Types, Opened, Reading
<1>7. Chunked' /\ Rounds' /\ Sequenced' /\ Places'
  BY <1>2 DEF Types, Chunked, Rounds, Sequenced, Places, Sorting, Merging, InGroup
<1> QED BY <1>1, <1>6, <1>7 DEF Types

LEMMA CopyFileTypes ==
  ASSUME Inv, Types, CopyFile
  PROVE  Types'
<1>1. pc = "copy" /\ pc' = "main" /\ Create(text[files[i]]) /\ files' = [files EXCEPT ![i] = temp]
      /\ UNCHANGED <<job, temphead, seq, i, left, n_temp_files, buf, fps, ord, saved, zap, t,
                     temp, out>>
  BY DEF CopyFile, merge_vars
<1>2. N \in Nat /\ N' = N /\ \A f : Lines(f)' = Lines(f)
  BY <1>1, LinesAre, SameJob DEF Inv, Names
<1>3. files \in Seq(DOMAIN text) /\ Len(files) = N /\ i \in 1..N /\ t = 0
      /\ \A f \in 1..N : text[files[f]] = Lines(f)
  BY <1>1, <1>2 DEF Types, Opened, Reading
<1>4. \A f \in 1..N : files[f] \in DOMAIN text
  BY <1>2, <1>3
<1>5. text[files[i]] \in Seq(AllLines)
  BY <1>3, <1>4 DEF Types, Stored
<1>6. /\ Stored' /\ Listed' /\ temp \in DOMAIN text' /\ text'[temp] = text[files[i]]
      /\ \A f \in DOMAIN text : f \in DOMAIN text' /\ text'[f] = text[f]
  BY <1>1, <1>5, CreateTypes
<1>7. Opened'
  <2>1. \A f \in 1..N : files'[f] = IF f = i THEN temp ELSE files[f]
    BY <1>1, <1>3
  <2>2. \A f \in 1..N : files'[f] \in DOMAIN text' /\ text'[files'[f]] = Lines(f)
    BY <1>3, <1>4, <1>6, <2>1
  <2>3. files' \in [1..N -> DOMAIN text'] /\ Len(files') = N
    <3>0. DOMAIN files = 1..N /\ files' = [files EXCEPT ![i] = temp]
      BY <1>1, <1>3
    <3>1. files' = [f \in 1..N |-> files'[f]]
      BY <3>0
    <3>2. Len(files') = Len(files)
      BY <1>3, <3>0
    <3> QED BY <1>3, <2>2, <3>1, <3>2
  <2>4. files' \in Seq(DOMAIN text')
    BY <1>2, <2>3
  <2> QED BY <1>1, <1>2, <1>3, <2>2, <2>3, <2>4 DEF Opened
<1>8. Chunked' /\ Rounds' /\ Sequenced' /\ Places'
  BY <1>1 DEF Types, Chunked, Rounds, Sequenced, Places, Sorting, Merging, InGroup
<1> QED BY <1>6, <1>7, <1>8 DEF Types

\* The output file is no input that sort still has to read.
LEMMA OutputIsNoInput ==
  ASSUME Inv, Types, OpenOutput
  PROVE  /\ \A f \in 1..N : files[f] \in DOMAIN text /\ text'[files[f]] = text[files[f]]
         /\ DOMAIN text' = DOMAIN text
         /\ text' \in [DOMAIN text -> Seq(AllLines)]
         /\ text' = [f \in DOMAIN text |-> IF f = job.outfile THEN <<>> ELSE text[f]]
<1>1. N \in Nat /\ files \in Seq(DOMAIN text) /\ Len(files) = N /\ DOMAIN files = 1..N
  BY LinesAre DEF Inv, Names, OpenOutput, Types, Opened, Reading
<1>2. text' = [f \in DOMAIN text |-> IF f = job.outfile THEN <<>> ELSE text[f]]
  <2>1. text = [f \in DOMAIN text |-> text[f]]
    BY DEF Types, Stored
  <2>2. CASE job.outfile \in DOMAIN text
    BY <2>1, <2>2 DEF OpenOutput
  <2>3. CASE job.outfile \notin DOMAIN text
    <3>1. text' = text /\ \A f \in DOMAIN text : f # job.outfile
      BY <2>3 DEF OpenOutput
    <3> QED BY <2>1, <3>1
  <2> QED BY <2>2, <2>3
<1>3. ASSUME NEW f \in 1..N PROVE files[f] \in DOMAIN text /\ files[f] # job.outfile
  <2>1. files[f] \in DOMAIN text
    BY <1>1
  <2>2. CASE job.outfile = Stdout
    <3>1. files[f] \in Nat
      BY <2>1 DEF Types, Stored, Inv, Names
    <3> QED BY <2>1, <2>2, <3>1 DEF Stdout
  <2>3. CASE job.outfile # Stdout
    BY <1>1, <2>1, <2>3 DEF OpenOutput, Copied
  <2> QED BY <2>2, <2>3
<1>4. text' \in [DOMAIN text -> Seq(AllLines)]
  <2> DEFINE L == Seq(AllLines)
  <2>1. text \in [DOMAIN text -> L] /\ <<>> \in L
    BY DEF Types, Stored
  <2> HIDE DEF L
  <2>2. text' \in [DOMAIN text -> L]
    BY <1>2, <2>1
  <2> QED BY <2>2 DEF L
<1> QED BY <1>2, <1>3, <1>4

LEMMA OpenOutputTypes ==
  ASSUME Inv, Types, OpenOutput
  PROVE  Types'
<1>1. /\ pc = "main" /\ pc' = (IF job.mergeonly THEN "merge" ELSE "sort") /\ i' = 1
      /\ disk' = disk \cup ({job.outfile} \ {Stdout})
      /\ UNCHANGED <<job, temphead, seq, files, left, n_temp_files, buf, fps, ord, saved, zap, t,
                     temp, out>>
  BY DEF OpenOutput, merge_vars
<1>2. N \in Nat /\ N' = N /\ AllLines' = AllLines /\ (\A f : Lines(f)' = Lines(f)) /\ Temps' = Temps
  BY <1>1, LinesAre, SameJob DEF Inv, Names, Temps
<1>3. Stored'
  BY <1>1, <1>2, OutputIsNoInput DEF Types, Stored
<1>4. Listed'
  <2>1. job.outfile \in DOMAIN job.keys \cup {NewFile, Stdout}
    BY JobsAssumption DEF Inv, Names
  <2> QED BY <1>1, <1>2, <2>1 DEF Types, Listed
<1>5. files \in Seq(DOMAIN text) /\ Len(files) = N /\ t = 0
      /\ \A f \in 1..N : text[files[f]] = Lines(f)
  BY <1>1 DEF Types, Opened, Reading
<1>6. Opened'
  <2>1. \A f \in 1..N : text'[files[f]] = Lines(f)
    BY <1>5, OutputIsNoInput
  <2>2. files \in Seq(DOMAIN text')
    BY <1>5, OutputIsNoInput
  <2>3. 1 \in 1..(N + 1) /\ 0 \in 0..N
    BY <1>2
  <2>4. pc' \in {"merge", "sort"}
    BY <1>1
  <2> QED BY <1>1, <1>2, <1>5, <2>1, <2>2, <2>3, <2>4 DEF Opened
<1>7. Chunked'
  <2>1. n_temp_files = 0 /\ Len(temphead) \in Nat
    BY <1>1 DEF Types, Chunked, Inv, Names
  <2>2. pc' \in {"merge", "sort"} /\ (pc' = "sort" => ~job.mergeonly)
    BY <1>1
  <2> QED BY <1>1, <2>1, <2>2 DEF Chunked, Sorting
<1>8. Rounds'
  <2>1. (1 - 1) * NMERGE = 0 /\ 1 - 1 = 0
    BY NMERGEAssumption
  <2>2. pc' \in {"merge", "sort"}
    BY <1>1
  <2> QED BY <1>1, <1>2, <1>5, <2>1, <2>2 DEF Rounds
<1>9. Sequenced' /\ Places'
  BY <1>1 DEF Sequenced, Places, InGroup
<1> QED BY <1>3, <1>4, <1>6, <1>7, <1>8, <1>9 DEF Types

------------------------------------------------------------------------------
(* Sequences of lines                                                      *)

Ordered(s) == \A j, k \in 1..Len(s) : j < k => InOrder(s[j], s[k])
Once(s) == job.unique => \A j, k \in 1..Len(s) : j # k => s[j].key # s[k].key

\* Equal lines of A and B are in order if those of A come first.
Apart(A, B) == \A a \in A, b \in B : a.key = b.key => InOrder(a, b)

LEMMA Slice ==
  ASSUME NEW D, NEW s \in Seq(D), NEW m \in Nat \ {0}, NEW n \in 0..Len(s), m <= n + 1
  PROVE  LET r == SubSeq(s, m, n)
         IN /\ r \in Seq(D) /\ Len(r) = (n + 1) - m
            /\ \A k \in 1..Len(r) : r[k] = s[(m - 1) + k]
<1> DEFINE r == SubSeq(s, m, n)
           L == Len(s)
<1>1. L \in Nat /\ DOMAIN s = 1..L /\ m \in Int /\ n \in Int /\ \A k \in m..n : s[k] \in D
  <2>1. L \in Nat /\ DOMAIN s = 1..L /\ \A k \in 1..L : s[k] \in D
    OBVIOUS
  <2>2. \A k \in m..n : k \in 1..L
    BY <2>1
  <2> QED BY <2>1, <2>2
<1>2. /\ r \in Seq(D) /\ Len(r) = IF m <= n THEN n - m + 1 ELSE 0
      /\ \A k \in 1..(n - m + 1) : r[k] = s[m + k - 1]
  <2> HIDE DEF L
  <2> QED BY <1>1, SubSeqProperties, SMTT(30)
<1> HIDE DEF r
<1>3. Len(r) = (n + 1) - m
  <2>1. m <= n => n - m + 1 = (n + 1) - m
    BY <1>1
  <2>2. ~(m <= n) => (n + 1) - m = 0
    BY <1>1
  <2> QED BY <1>2, <2>1, <2>2
<1>4. \A k \in 1..Len(r) : k \in 1..(n - m + 1) /\ m + k - 1 = (m - 1) + k
  BY <1>1, <1>3
<1> QED BY <1>2, <1>3, <1>4 DEF r

LEMMA MinOfTwo ==
  ASSUME NEW a \in Int, NEW b \in Int
  PROVE  Min({a, b}) \in {a, b} /\ Min({a, b}) \in Int /\ Min({a, b}) <= a /\ Min({a, b}) <= b
<1>1. \E x \in {a, b} : \A y \in {a, b} : x <= y
  <2>1. a <= b \/ b <= a
    OBVIOUS
  <2> QED BY <2>1
<1>2. Min({a, b}) \in {a, b} /\ \A y \in {a, b} : Min({a, b}) <= y
  BY <1>1 DEF Min
<1> QED BY <1>2

\* What sortlines makes of the lines of a chunk: with -u of equal lines only the first stays.
LEMMA ChunkIs ==
  ASSUME job \in Jobs, NEW lines \in Seq(AllLines)
  PROVE  LET c == SortedChunk(lines)
         IN /\ c \in Seq(AllLines) /\ Ordered(c) /\ Once(c)
            /\ \A l \in Range(c) : \E k \in 1..Len(lines) : l = lines[k]
            /\ \A k \in 1..Len(lines) :
                 lines[k] \in Range(c)
                   \/ (job.unique /\ \E m \in 1..(k - 1) : lines[m].key = lines[k].key
                                       /\ lines[m] \in Range(c))
<1> DEFINE c == SortedChunk(lines)
           L == Len(lines)
           w == {k \in DOMAIN lines :
                   job.unique => \A m \in 1..(k - 1) : lines[m].key # lines[k].key}
           S == {lines[k] : k \in w}
<1>1. DOMAIN lines = 1..L /\ L \in Nat /\ \A k \in 1..L : lines[k] \in AllLines
  OBVIOUS
<1>2. S \subseteq AllLines
  BY <1>1
<1>3. c = Arranged(S, InOrder)
  BY DEF SortedChunk
<1> HIDE DEF c
<1>4. c \in Seq(S) /\ Range(c) = S /\ \A j, k \in 1..Len(c) : j < k => InOrder(c[j], c[k])
  <2> HIDE DEF S
  <2> QED BY <1>2, <1>3, SortedLines
<1>5. c \in Seq(AllLines) /\ Ordered(c)
  <2> HIDE DEF S
  <2> QED BY <1>2, <1>4 DEF Ordered
<1>6. ASSUME NEW k \in w, NEW m \in w, job.unique, lines[k].key = lines[m].key
      PROVE  k = m
  <2>1. k \in 1..L /\ m \in 1..L
    BY <1>1
  <2>2. ~(k \in 1..(m - 1)) /\ ~(m \in 1..(k - 1))
    BY <1>6
  <2> QED BY <1>1, <2>1, <2>2
<1>7. \A a, b \in S : job.unique /\ a.key = b.key => a = b
  BY <1>6
<1>8. Once(c)
  <2>1. SUFFICES ASSUME job.unique, NEW j \in 1..Len(c), NEW k \in 1..Len(c), j # k
                 PROVE  c[j].key # c[k].key
    BY DEF Once
  <2> HIDE DEF S
  <2>2. c[j] \in S /\ c[k] \in S /\ c[j] \in AllLines /\ c[k] \in AllLines /\ Len(c) \in Nat
    BY <1>2, <1>4
  <2>3. j < k \/ k < j
    BY <2>1, <2>2
  <2>4. InOrder(c[j], c[k]) \/ InOrder(c[k], c[j])
    BY <1>4, <2>3
  <2>5. c[j] # c[k]
    BY <2>2, <2>4, LineOrder
  <2> QED BY <1>7, <2>1, <2>2, <2>5
<1>9. \A l \in Range(c) : \E k \in 1..L : l = lines[k]
  BY <1>1, <1>4
<1>10. ASSUME NEW k \in 1..L, lines[k] \notin S
       PROVE  job.unique /\ \E m \in 1..(k - 1) : lines[m].key = lines[k].key /\ lines[m] \in S
  <2>1. k \notin w
    BY <1>10
  <2>2. job.unique
    BY <1>1, <2>1
  <2> DEFINE E == {m \in 1..L : lines[m].key = lines[k].key}
  <2>3. k \in E /\ E \subseteq Nat
    BY <1>1
  <2> HIDE DEF E
  <2>4. PICK m \in E : \A n \in E : m <= n
    BY <2>3, Smallest
  <2>5. m \in 1..L /\ lines[m].key = lines[k].key
    BY <2>4 DEF E
  <2>6. \A n \in 1..(m - 1) : n \in 1..L /\ ~(m <= n)
    BY <1>1, <2>5
  <2>7. \A n \in 1..(m - 1) : lines[n].key # lines[m].key
    BY <2>4, <2>5, <2>6 DEF E
  <2>8. m \in w
    BY <1>1, <2>5, <2>7
  <2>9. m <= k /\ m # k
    BY <2>1, <2>3, <2>4, <2>8
  <2>10. m \in 1..(k - 1)
    BY <1>1, <2>5, <2>9
  <2> QED BY <2>2, <2>5, <2>8, <2>10
<1>11. \A k \in 1..L : lines[k] \in Range(c)
         \/ (job.unique /\ \E m \in 1..(k - 1) : lines[m].key = lines[k].key
                                       /\ lines[m] \in Range(c))
  BY <1>4, <1>10
<1> QED BY <1>5, <1>8, <1>9, <1>11 DEF c

------------------------------------------------------------------------------
(* The types: sort ()                                                      *)

\* The part of input i that is read next, and what is left of it then.
LEMMA ReadIs ==
  ASSUME Inv, Types, Read
  PROVE  \E n \in 1..Len(left) :
           LET r == SubSeq(left, 1, n)
           IN /\ r \in Seq(AllLines) /\ Len(r) = n /\ \A k \in 1..n : r[k] = left[k]
              /\ buf' = SortedChunk(r)
              /\ left' \in Seq(AllLines) /\ Len(left') = Len(left) - n
              /\ \A k \in 1..(Len(left) - n) : left'[k] = left[n + k]
              /\ pc' = "chunk" \/ (pc' = "direct" /\ left' = <<>> /\ i = N /\ n_temp_files = 0)
<1> DEFINE L == Len(left)
<1>1. left \in Seq(AllLines) /\ L \in Nat
  BY DEF Types, Chunked, Read, Sorting
<1>2. PICK n \in 1..Min({MaxChunk, L}) :
        /\ buf' = SortedChunk(SubSeq(left, 1, n)) /\ left' = SubSeq(left, n + 1, L)
        /\ pc' = "chunk" \/ (pc' = "direct" /\ left' = <<>> /\ i = N /\ n_temp_files = 0)
  BY DEF Read
<1>3. n \in 1..L /\ n \in 0..L /\ n \in Nat /\ L \in 0..L /\ n + 1 \in Nat \ {0} /\ n + 1 <= L + 1
  <2>1. Min({MaxChunk, L}) <= L /\ Min({MaxChunk, L}) \in Int
    <3>1. MaxChunk \in Int /\ L \in Int
      BY <1>1, NMERGEAssumption
    <3> HIDE DEF L
    <3> QED BY <3>1, MinOfTwo
  <2> HIDE DEF L
  <2> QED BY <1>1, <2>1
<1> DEFINE r == SubSeq(left, 1, n)
<1>4. r \in Seq(AllLines) /\ Len(r) = (n + 1) - 1 /\ \A k \in 1..Len(r) : r[k] = left[(1 - 1) + k]
  BY <1>1, <1>3, Slice
<1>5. left' \in Seq(AllLines) /\ Len(left') = (L + 1) - (n + 1)
      /\ \A k \in 1..Len(left') : left'[k] = left[((n + 1) - 1) + k]
  BY <1>1, <1>2, <1>3, Slice
<1> HIDE DEF L, r
<1>6. Len(r) = n /\ \A k \in 1..n : r[k] = left[k]
  BY <1>3, <1>4
<1>7. Len(left') = L - n /\ \A k \in 1..(L - n) : left'[k] = left[n + k]
  BY <1>1, <1>3, <1>5
<1> QED BY <1>2, <1>3, <1>4, <1>5, <1>6, <1>7 DEF L, r

\* While sort () runs and no file is written.
LEMMA SortOpenTypes ==
  ASSUME Inv, Types, SortOpen
  PROVE  Types'
<1>1. pc = "sort" /\ i <= N /\ left' = text[files[i]] /\ pc' = "read"
      /\ UNCHANGED <<job, disk, text, temphead, seq, files, i, n_temp_files, buf, fps, ord, saved,
                     zap, t, temp, out>>
  BY DEF SortOpen, merge_vars, files_vars
<1>2. N \in Nat /\ N' = N /\ AllLines' = AllLines /\ (\A f : Lines(f)' = Lines(f)) /\ Temps' = Temps
  BY <1>1, LinesAre, SameJob DEF Inv, Names, Temps
<1>3. Stored' /\ Listed'
  BY <1>1, <1>2 DEF Types, Stored, Listed
<1>4. Opened'
  BY <1>1, KeptOpened DEF Types, Reading
<1>5. i \in 1..N /\ left' = Lines(i) /\ left' \in Seq(AllLines)
  <2>1. i \in 1..N
    BY <1>1, <1>2 DEF Types, Opened
  <2> QED BY <1>1, <2>1, LinesAre DEF Types, Opened, Reading, Inv, Names
<1>6. Chunked'
  <2>1. Len(left') \in Nat /\ Len(left') = Len(Lines(i))
        /\ \A k \in 1..Len(left') : left'[k] = Lines(i)[(Len(Lines(i)) - Len(left')) + k]
    <3> DEFINE M == Len(Lines(i))
    <3>1. M \in Nat /\ \A k \in 1..M : (M - M) + k = k
      BY <1>5
    <3> QED BY <1>5, <3>1
  <2>2. left' \in Seq(AllLines)' /\ Len(left') <= Len(Lines(i)') /\ i' = i
        /\ \A k \in 1..Len(left') : left'[k] = Lines(i)'[(Len(Lines(i)') - Len(left')) + k]
    BY <1>1, <1>2, <1>5, <2>1
  <2> QED BY <1>1, <2>2 DEF Types, Chunked, Sorting, Lines
<1>7. Rounds' /\ Sequenced' /\ Places'
  BY <1>1 DEF Rounds, Sequenced, Places, Merging, InGroup
<1> QED BY <1>3, <1>4, <1>6, <1>7 DEF Types

LEMMA ReadTypes ==
  ASSUME Inv, Types, Read
  PROVE  Types'
<1>1. pc = "read" /\ pc' \in {"chunk", "direct"}
      /\ UNCHANGED <<job, disk, text, temphead, seq, files, i, n_temp_files, fps, ord, saved,
                     zap, t, temp, out>>
  BY DEF Read, merge_vars, files_vars
<1>2. N \in Nat /\ N' = N /\ AllLines' = AllLines /\ (\A f : Lines(f)' = Lines(f)) /\ Temps' = Temps
  BY <1>1, LinesAre, SameJob DEF Inv, Names, Temps
<1>3. PICK n \in 1..Len(left) :
        /\ SubSeq(left, 1, n) \in Seq(AllLines) /\ buf' = SortedChunk(SubSeq(left, 1, n))
        /\ left' \in Seq(AllLines) /\ Len(left') = Len(left) - n
        /\ \A k \in 1..(Len(left) - n) : left'[k] = left[n + k]
  BY ReadIs
<1>4. buf' \in Seq(AllLines)
  BY <1>3, ChunkIs DEF Inv, Names
<1>5. Stored' /\ Listed'
  BY <1>1, <1>2, <1>4 DEF Types, Stored, Listed
<1>6. i \in 1..N
  BY <1>1, <1>2 DEF Types, Opened
<1>7. Opened'
  BY <1>1, <1>6, KeptOpened DEF Types, Reading
<1>8. Chunked'
  <2> DEFINE M == Len(Lines(i))
             K == Len(left)
             Q == Len(left')
  <2>1. left \in Seq(AllLines) /\ K <= M /\ \A k \in 1..K : left[k] = Lines(i)[(M - K) + k]
    BY <1>1 DEF Types, Chunked, Sorting
  <2>2. K \in Nat /\ M \in Nat /\ n \in 1..K
    <3>1. Lines(i) \in Seq(AllLines)
      BY <1>6, LinesAre DEF Inv, Names
    <3> QED BY <1>3, <2>1, <3>1
  <2>3. Q = K - n /\ \A k \in 1..(K - n) : left'[k] = left[n + k]
    BY <1>3
  <2> HIDE DEF M, K, Q
  <2>4. Q <= M /\ \A k \in 1..Q : n + k \in 1..K /\ (M - K) + (n + k) = (M - Q) + k
    BY <2>1, <2>2, <2>3
  <2>5. \A k \in 1..Q : left'[k] = Lines(i)[(M - Q) + k]
    BY <2>1, <2>3, <2>4
  <2> USE DEF M, Q
  <2>6. left' \in Seq(AllLines)' /\ Len(left') <= Len(Lines(i)') /\ i' = i
        /\ \A k \in 1..Len(left') : left'[k] = Lines(i)'[(Len(Lines(i)') - Len(left')) + k]
    BY <1>1, <1>2, <1>3, <2>4, <2>5
  <2> QED BY <1>1, <2>6 DEF Types, Chunked, Sorting, Lines
<1>9. Rounds' /\ Sequenced' /\ Places'
  BY <1>1 DEF Rounds, Sequenced, Places, Merging, InGroup
<1> QED BY <1>5, <1>7, <1>8, <1>9 DEF Types

LEMMA ReadEndTypes ==
  ASSUME Inv, Types, ReadEnd
  PROVE  Types'
<1>1. pc = "read" /\ pc' = "sort" /\ i' = i + 1
      /\ UNCHANGED <<job, disk, text, temphead, seq, files, left, n_temp_files, buf, fps, ord,
                     saved, zap, t, temp, out>>
  BY DEF ReadEnd, merge_vars, files_vars
<1>2. N \in Nat /\ N' = N /\ AllLines' = AllLines /\ (\A f : Lines(f)' = Lines(f)) /\ Temps' = Temps
  BY <1>1, LinesAre, SameJob DEF Inv, Names, Temps
<1>3. Stored' /\ Listed'
  BY <1>1, <1>2 DEF Types, Stored, Listed
<1>4. i' \in 1..(N + 1)
  BY <1>1, <1>2 DEF Types, Opened
<1>5. Opened'
  BY <1>1, <1>2, <1>4 DEF Types, Opened, Reading
<1>6. Chunked'
  BY <1>1 DEF Types, Chunked, Sorting
<1>7. Rounds' /\ Sequenced' /\ Places'
  BY <1>1 DEF Rounds, Sequenced, Places, Merging, InGroup
<1> QED BY <1>3, <1>5, <1>6, <1>7 DEF Types

LEMMA DirectTypes ==
  ASSUME Inv, Types, Direct
  PROVE  Types'
<1>1. pc = "direct" /\ pc' = "read" /\ out' = buf
      /\ UNCHANGED <<job, disk, text, temphead, seq, files, i, left, n_temp_files, buf, fps, ord,
                     saved, zap, t, temp>>
  BY DEF Direct, merge_vars, files_vars
<1>2. N \in Nat /\ N' = N /\ AllLines' = AllLines /\ (\A f : Lines(f)' = Lines(f)) /\ Temps' = Temps
  BY <1>1, LinesAre, SameJob DEF Inv, Names, Temps
<1>3. Stored' /\ Listed'
  BY <1>1, <1>2 DEF Types, Stored, Listed
<1>4. Opened'
  BY <1>1, <1>2, KeptOpened DEF Types, Opened, Reading
<1>5. Chunked'
  <2>1. /\ n_temp_files \in Nat /\ ~job.mergeonly /\ n_temp_files <= Len(temphead)
        /\ \A k \in 1..n_temp_files : temphead[k] \in DOMAIN text
        /\ left \in Seq(AllLines) /\ Len(left) <= Len(Lines(i))
        /\ \A k \in 1..Len(left) : left[k] = Lines(i)[(Len(Lines(i)) - Len(left)) + k]
    BY <1>1 DEF Types, Chunked, Sorting
  <2>2. left' \in Seq(AllLines)' /\ Len(left') <= Len(Lines(i)') /\ i' = i
        /\ \A k \in 1..Len(left') : left'[k] = Lines(i)'[(Len(Lines(i)') - Len(left')) + k]
    BY <1>1, <1>2, <2>1
  <2> QED BY <1>1, <2>1, <2>2 DEF Chunked, Sorting, Lines
<1>6. Rounds' /\ Sequenced' /\ Places'
  BY <1>1 DEF Rounds, Sequenced, Places, Merging, InGroup
<1> QED BY <1>3, <1>4, <1>5, <1>6 DEF Types

LEMMA ChunkNameTypes ==
  ASSUME Inv, Types, ChunkName
  PROVE  Types'
<1>1. pc = "chunk" /\ pc' = "chunk_write" /\ tempname /\ n_temp_files' = n_temp_files + 1
      /\ UNCHANGED <<job, disk, text, files, i, t, left, buf, fps, ord, saved, zap, out>>
  BY DEF ChunkName, merge_vars
<1>2. N \in Nat /\ N' = N /\ AllLines' = AllLines /\ (\A f : Lines(f)' = Lines(f))
  BY <1>1, LinesAre, SameJob DEF Inv, Names
<1>3. /\ Stored' /\ Listed'
      /\ temphead'[1] = temp' /\ Len(temphead') = Len(temphead) + 1
      /\ \A k \in 1..Len(temphead) : temphead'[k + 1] = temphead[k]
  BY <1>1, TempnameTypes
<1>4. Opened'
  BY <1>1, <1>2, KeptOpened DEF Types, Opened, Reading
<1>5. Chunked'
  <2>1. n_temp_files \in Nat /\ n_temp_files <= Len(temphead)
       /\ ~job.mergeonly /\ Len(temphead) \in Nat
        /\ \A k \in 1..n_temp_files : temphead[k] \in DOMAIN text
    BY <1>1 DEF Types, Chunked, Sorting, Inv, Names
  <2>2. ASSUME NEW k \in 1..(n_temp_files + 1), k # 1 PROVE temphead'[k] \in DOMAIN text
    <3>1. k - 1 \in 1..n_temp_files /\ k - 1 \in 1..Len(temphead) /\ (k - 1) + 1 = k
      BY <2>1, <2>2
    <3> QED BY <1>3, <2>1, <3>1
  <2>3. left \in Seq(AllLines) /\ Len(left) <= Len(Lines(i))
        /\ \A k \in 1..Len(left) : left[k] = Lines(i)[(Len(Lines(i)) - Len(left)) + k]
    BY <1>1 DEF Types, Chunked, Sorting
  <2>4. left' \in Seq(AllLines)' /\ Len(left') <= Len(Lines(i)') /\ i' = i
        /\ \A k \in 1..Len(left') : left'[k] = Lines(i)'[(Len(Lines(i)') - Len(left')) + k]
    BY <1>1, <1>2, <2>3
  <2>5. n_temp_files' \in Nat /\ n_temp_files' <= Len(temphead') /\ n_temp_files' > 0
    BY <1>1, <1>3, <2>1
  <2> QED BY <1>1, <1>3, <2>1, <2>2, <2>4, <2>5 DEF Chunked, Sorting, Lines
<1>6. Rounds' /\ Sequenced' /\ Places'
  BY <1>1 DEF Rounds, Sequenced, Places, Merging, InGroup
<1> QED BY <1>3, <1>4, <1>5, <1>6 DEF Types

LEMMA ChunkWriteTypes ==
  ASSUME Inv, Types, ChunkWrite
  PROVE  Types'
<1>1. pc = "chunk_write" /\ pc' = "read" /\ Create(buf)
      /\ UNCHANGED <<job, temphead, seq, files, i, t, left, n_temp_files, buf, fps, ord, saved,
                     zap, temp, out>>
  BY DEF ChunkWrite, merge_vars
<1>2. N \in Nat /\ N' = N /\ AllLines' = AllLines /\ (\A f : Lines(f)' = Lines(f))
  BY <1>1, LinesAre, SameJob DEF Inv, Names
<1>3. buf \in Seq(AllLines)
  BY DEF Types, Stored
<1>4. /\ Stored' /\ Listed' /\ temp \in DOMAIN text' /\ text'[temp] = buf
      /\ \A f \in DOMAIN text : f \in DOMAIN text' /\ text'[f] = text[f]
  BY <1>1, <1>3, CreateTypes
<1>5. Opened'
  BY <1>1, <1>2, <1>4, KeptOpened DEF Types, Opened, Reading
<1>6. Chunked'
  <2>1. /\ n_temp_files \in Nat /\ ~job.mergeonly /\ n_temp_files <= Len(temphead)
        /\ \A k \in 1..n_temp_files : temphead[k] \in DOMAIN text \/ k = 1
        /\ temphead[1] = temp
    BY <1>1 DEF Types, Chunked, Sorting
  <2>2. \A k \in 1..n_temp_files : temphead[k] \in DOMAIN text'
    BY <1>4, <2>1
  <2>3. left \in Seq(AllLines) /\ Len(left) <= Len(Lines(i))
        /\ \A k \in 1..Len(left) : left[k] = Lines(i)[(Len(Lines(i)) - Len(left)) + k]
    BY <1>1 DEF Types, Chunked, Sorting
  <2>4. left' \in Seq(AllLines)' /\ Len(left') <= Len(Lines(i)') /\ i' = i
        /\ \A k \in 1..Len(left') : left'[k] = Lines(i)'[(Len(Lines(i)') - Len(left')) + k]
    BY <1>1, <1>2, <2>3
  <2> QED BY <1>1, <2>1, <2>2, <2>4 DEF Chunked, Sorting, Lines
<1>7. Rounds' /\ Sequenced' /\ Places'
  BY <1>1 DEF Rounds, Sequenced, Places, Merging, InGroup
<1> QED BY <1>4, <1>5, <1>6, <1>7 DEF Types

\* The files that merge () is given, the oldest first.
LEMMA MergeFiles ==
  ASSUME Inv, Types, SortMerge, n_temp_files # 0
  PROVE  /\ files' \in Seq(DOMAIN text) /\ Len(files') = n_temp_files
         /\ \A k \in 1..n_temp_files : files'[k] = temphead[(n_temp_files + 1) - k]
         /\ \A k \in 1..n_temp_files : temphead[k] \in DOMAIN text
<1> DEFINE n == n_temp_files
           s == SubSeq(temphead, 1, n)
<1>1. n \in Nat /\ n <= Len(temphead) /\ temphead \in Seq(Int) /\ Len(temphead) \in Nat
      /\ \A k \in 1..n : temphead[k] \in DOMAIN text
  BY DEF SortMerge, Types, Chunked, Sorting, Inv, Names
<1>2. s \in Seq(Int) /\ Len(s) = (n + 1) - 1 /\ \A k \in 1..Len(s) : s[k] = temphead[(1 - 1) + k]
  <2>1. 1 \in Nat \ {0} /\ n \in 0..Len(temphead) /\ 1 <= n + 1
    BY <1>1
  <2> QED BY <1>1, <2>1, Slice
<1>3. files' = Reverse(s)
  BY DEF SortMerge
<1> HIDE DEF s
<1>4. Len(s) = n /\ \A k \in 1..n : s[k] = temphead[k]
  BY <1>1, <1>2
<1>5. files' = [k \in 1..n |-> s[(n - k) + 1]]
  BY <1>3, <1>4 DEF Reverse
<1> HIDE DEF n
<1>6. \A k \in 1..n : (n - k) + 1 \in 1..n /\ (n - k) + 1 = (n + 1) - k
  BY <1>1
<1>7. \A k \in 1..n : files'[k] = temphead[(n + 1) - k] /\ files'[k] \in DOMAIN text
  BY <1>1, <1>4, <1>5, <1>6
<1>8. files' \in Seq(DOMAIN text) /\ Len(files') = n
  <2>1. files' = [k \in 1..n |-> files'[k]]
    BY <1>5
  <2>2. files' \in [1..n -> DOMAIN text]
    BY <1>7, <2>1
  <2> QED BY <1>1, <2>2
<1> QED BY <1>1, <1>7, <1>8 DEF n

LEMMA SortMergeTypes ==
  ASSUME Inv, Types, SortMerge
  PROVE  Types'
<1>1. pc = "sort" /\ UNCHANGED <<job, disk, text, temphead, seq, left, n_temp_files, buf, fps, ord,
                                 saved, zap, t, out>>
  BY DEF SortMerge, merge_vars, files_vars
<1>2. N \in Nat /\ N' = N /\ AllLines' = AllLines /\ Temps' = Temps
  BY <1>1, LinesAre, SameJob DEF Inv, Names, Temps
<1>3. Stored'
  BY <1>1, <1>2 DEF Types, Stored
<1>4. n_temp_files \in Nat /\ t = 0
  BY <1>1 DEF Types, Opened, Chunked, Reading
<1>5. CASE n_temp_files = 0
  <2>1. pc' = "end" /\ UNCHANGED <<files, i, temp>>
    BY <1>5 DEF SortMerge
  <2>2. Listed'
    BY <1>1, <1>2, <2>1 DEF Types, Listed
  <2>3. Opened'
    BY <1>1, <2>1 DEF Types, Opened, Reading
  <2>4. Chunked' /\ Rounds' /\ Sequenced' /\ Places'
    BY <1>1, <2>1 DEF Types, Chunked, Rounds, Sequenced, Places, Sorting, Merging, InGroup
  <2> QED BY <1>3, <2>2, <2>3, <2>4 DEF Types
<1>6. CASE n_temp_files # 0
  <2>1. pc' = "merge" /\ i' = 1 /\ temp' = 0
    BY <1>6 DEF SortMerge, Output
  <2>2. files' \in Seq(DOMAIN text) /\ Len(files') = n_temp_files
    BY <1>6, MergeFiles
  <2>3. Listed'
    BY <1>1, <1>2, <2>1 DEF Types, Listed
  <2>4. Opened'
    <3>1. 1 \in 1..(n_temp_files + 1) /\ 0 \in 0..n_temp_files
      BY <1>4
    <3> QED BY <1>1, <1>4, <2>1, <2>2, <3>1 DEF Opened, Reading
  <2>5. Rounds'
    <3>1. (1 - 1) * NMERGE = 0 /\ 1 - 1 = 0
      BY NMERGEAssumption
    <3> QED BY <1>1, <1>4, <2>1, <2>2, <3>1 DEF Rounds
  <2>6. Chunked' /\ Sequenced' /\ Places'
    BY <1>1, <2>1 DEF Types, Chunked, Sequenced, Places, Sorting, InGroup
  <2> QED BY <1>3, <2>3, <2>4, <2>5, <2>6 DEF Types
<1> QED BY <1>5, <1>6

------------------------------------------------------------------------------
(* The order mergefps () keeps                                             *)

LEMMA SmallestIsMin ==
  ASSUME NEW S, S \subseteq Nat, S # {}
  PROVE  Min(S) \in S /\ \A y \in S : Min(S) <= y
<1>1. \E x \in S : \A y \in S : x <= y
  BY Smallest
<1> QED BY <1>1 DEF Min

\* File f, whose head was the first, has a new head and takes its place among the others.
LEMMA PushedIs ==
  ASSUME NEW n \in Nat \ {0}, Len(fps) = n, InTurn(fps, ord), NEW rest, NEW f, f = ord[1],
         \A k \in 1..n : fps[k][1].key \in Int /\ rest[k][1].key \in Int,
         \A k \in 1..n : k # f => rest[k] = fps[k], Len(rest) = n
  PROVE  InTurn(rest, Pushed(rest, f)) /\ f \in 1..n
<1>1. /\ ord \in [1..n -> 1..n] /\ DOMAIN ord = 1..n /\ Len(ord) = n
      /\ \A x \in 1..n : \E k \in 1..n : ord[k] = x
      /\ \A j, k \in 1..n : j < k => HeadBefore(fps, ord[j], ord[k])
  <2>1. /\ ord \in [1..n -> 1..n] /\ \A x \in 1..n : \E k \in 1..n : ord[k] = x
        /\ \A j, k \in 1..n : j < k => HeadBefore(fps, ord[j], ord[k])
    BY Zenon DEF InTurn
  <2>2. n \in Nat /\ DOMAIN ord = 1..n
    BY <2>1
  <2>3. Len(ord) = n
    BY <2>2
  <2> QED BY <2>1, <2>2, <2>3
<1>2. f \in 1..n /\ n \in Nat /\ n >= 1
  <2>1. 1 \in 1..n /\ n \in Nat /\ n >= 1
    OBVIOUS
  <2> QED BY <1>1, <2>1
<1>3. /\ \A a \in 1..n : ~HeadBefore(fps, a, a)
      /\ \A a, b, c \in 1..n :
           HeadBefore(rest, a, b) /\ HeadBefore(rest, b, c) => HeadBefore(rest, a, c)
      /\ \A a, b \in 1..n : a # b => HeadBefore(rest, a, b) \/ HeadBefore(rest, b, a)
  BY HeadOrder
<1>4. \A k \in 2..n : k \in 1..n /\ ord[k] \in 1..n /\ ord[k] # f
  <2>1. \A k \in 2..n : k \in 1..n /\ 1 \in 1..n /\ 1 < k
    BY <1>2
  <2> QED BY <1>1, <1>2, <1>3, <2>1
<1>5. \A a, b \in 1..n : a # f /\ b # f => (HeadBefore(fps, a, b) <=> HeadBefore(rest, a, b))
  BY DEF HeadBefore
<1>6. \A j, k \in 2..n : j < k => HeadBefore(rest, ord[j], ord[k])
  BY <1>1, <1>4, <1>5
<1> DEFINE S == {k \in 2..n : HeadBefore(rest, f, ord[k])} \cup {n + 1}
           p == Min(S)
<1>7. p \in S /\ \A k \in S : p <= k
  <2>1. S \subseteq Nat /\ S # {}
    BY <1>2
  <2> HIDE DEF S
  <2> QED BY <2>1, SmallestIsMin
<1>8. /\ p \in 2..(n + 1)
      /\ p <= n => HeadBefore(rest, f, ord[p])
      /\ \A k \in 2..n : k < p => ~HeadBefore(rest, f, ord[k])
  <2>1. p \in 2..n \/ p = n + 1
    BY <1>7
  <2>2. p \in 2..(n + 1) /\ p \in Int
    BY <1>2, <2>1
  <2>3. p <= n => HeadBefore(rest, f, ord[p])
    BY <1>2, <1>7
  <2> HIDE DEF p
  <2>4. ASSUME NEW k \in 2..n, k < p PROVE ~HeadBefore(rest, f, ord[k])
    BY <1>7, <2>2, <2>4
  <2> QED BY <2>2, <2>3, <2>4
<1> DEFINE o == Pushed(rest, f)
<1>9. o = [k \in 1..n |-> IF k + 1 < p THEN ord[k + 1] ELSE IF k + 1 = p THEN f ELSE ord[k]]
  BY <1>1 DEF Pushed, Moved
<1> HIDE DEF o, p, S
<1>10. \A k \in 1..n : /\ k + 1 < p => k + 1 \in 2..n /\ o[k] = ord[k + 1]
                       /\ k + 1 = p => o[k] = f
                       /\ k + 1 > p => k \in 2..n /\ k >= p /\ o[k] = ord[k]
  BY <1>2, <1>8, <1>9
<1>11. o \in [1..n -> 1..n]
  <2>1. ASSUME NEW k \in 1..n PROVE o[k] \in 1..n
    <3>1. k + 1 < p \/ k + 1 = p \/ k + 1 > p
      BY <1>8
    <3> QED BY <1>2, <1>4, <1>10, <3>1
  <2>2. o = [k \in 1..n |-> o[k]]
    BY <1>9
  <2> QED BY <2>1, <2>2
<1>12. ASSUME NEW x \in 1..n PROVE \E k \in 1..n : o[k] = x
  <2>1. PICK m \in 1..n : ord[m] = x
    BY <1>1
  <2>2. CASE m = 1
    <3>1. p - 1 \in 1..n /\ (p - 1) + 1 = p
      BY <1>2, <1>8
    <3> QED BY <1>10, <2>1, <2>2, <3>1
  <2>3. CASE m # 1 /\ m < p
    <3>1. m - 1 \in 1..n /\ (m - 1) + 1 = m
      BY <1>2, <2>3
    <3> QED BY <1>10, <2>1, <2>3, <3>1
  <2>4. CASE m >= p
    <3>1. m + 1 > p
      BY <1>8, <2>4
    <3> QED BY <1>10, <2>1, <3>1
  <2>5. m = 1 \/ (m # 1 /\ m < p) \/ m >= p
    BY <1>8
  <2> QED BY <2>2, <2>3, <2>4, <2>5
<1>13. ASSUME NEW j \in 1..n, NEW k \in 1..n, j < k PROVE HeadBefore(rest, o[j], o[k])
  <2>1. p \in Int /\ n \in Int /\ j \in Int /\ k \in Int
    BY <1>2, <1>8
  <2>2. CASE k + 1 < p
    <3>1. j + 1 < p /\ j + 1 < k + 1
      BY <1>13, <2>1, <2>2
    <3> QED BY <1>6, <1>10, <2>2, <3>1
  <2>3. CASE k + 1 = p
    <3>1. j + 1 < p
      BY <1>13, <2>1, <2>3
    <3>2. o[k] = f /\ o[j] = ord[j + 1] /\ j + 1 \in 2..n
      BY <1>10, <2>3, <3>1
    <3>3. ~HeadBefore(rest, f, ord[j + 1])
      BY <1>8, <3>1, <3>2
    <3> QED BY <1>2, <1>3, <1>4, <3>2, <3>3
  <2>4. CASE k + 1 > p
    <3>1. k \in 2..n /\ k >= p /\ o[k] = ord[k] /\ ord[k] \in 1..n
      BY <1>4, <1>10, <2>4
    <3>2. CASE j + 1 < p
      <4>1. j + 1 \in 2..n /\ j + 1 < k /\ o[j] = ord[j + 1]
        BY <1>10, <2>1, <3>1, <3>2
      <4> QED BY <1>6, <3>1, <4>1
    <3>3. CASE j + 1 = p
      <4>1. o[j] = f /\ p \in 2..n
        <5>1. p \in 2..n
          BY <1>8, <2>1, <3>1
        <5> QED BY <1>10, <3>3, <5>1
      <4>2. HeadBefore(rest, f, ord[p]) /\ ord[p] \in 1..n
        BY <1>4, <1>8, <4>1
      <4>3. k = p \/ HeadBefore(rest, ord[p], ord[k])
        BY <1>6, <2>1, <3>1, <4>1
      <4> QED BY <1>2, <1>3, <3>1, <4>1, <4>2, <4>3
    <3>4. CASE j + 1 > p
      BY <1>6, <1>10, <1>13, <3>1, <3>4
    <3> QED BY <2>1, <3>2, <3>3, <3>4
  <2> QED BY <2>1, <2>2, <2>3, <2>4
<1> QED BY <1>2, <1>11, <1>12, <1>13 DEF InTurn, o

\* File f, which was the first, is at its end.
LEMMA DroppedIs ==
  ASSUME NEW n \in Nat \ {0}, Len(fps) = n, DOMAIN fps = 1..n, InTurn(fps, ord), NEW f, f = ord[1],
         \A k \in 1..n : fps[k][1].key \in Int, Dropped(f)
  PROVE  /\ DOMAIN fps' = 1..(n - 1) /\ Len(fps') = n - 1
         /\ \A k \in 1..(n - 1) : fps'[k] = fps[IF k < f THEN k ELSE k + 1]
         /\ InTurn(fps', ord')
         /\ f \in 1..n
<1>1. /\ ord \in [1..n -> 1..n] /\ Len(ord) = n
      /\ \A x \in 1..n : \E k \in 1..n : ord[k] = x
      /\ \A j, k \in 1..n : j < k => HeadBefore(fps, ord[j], ord[k])
  <2>1. /\ ord \in [1..n -> 1..n] /\ \A x \in 1..n : \E k \in 1..n : ord[k] = x
        /\ \A j, k \in 1..n : j < k => HeadBefore(fps, ord[j], ord[k])
    BY DEF InTurn
  <2>2. Len(ord) = n
    BY <2>1
  <2> QED BY <2>1, <2>2
<1>2. f \in 1..n /\ n \in Nat /\ n >= 1 /\ n - 1 \in Nat
  <2>1. 1 \in 1..n /\ n \in Nat /\ n >= 1 /\ n - 1 \in Nat
    OBVIOUS
  <2> QED BY <1>1, <2>1
<1>3. \A k \in 2..n : k \in 1..n /\ ord[k] \in 1..n /\ ord[k] # f
  <2>1. \A k \in 2..n : k \in 1..n /\ 1 \in 1..n /\ 1 < k
    BY <1>2
  <2>2. \A a \in 1..n : ~HeadBefore(fps, a, a)
    BY HeadOrder
  <2> QED BY <1>1, <1>2, <2>1, <2>2
<1> DEFINE Down(a) == IF a > f THEN a - 1 ELSE a
<1>4. /\ fps' = [k \in 1..(n - 1) |-> IF k < f THEN fps[k] ELSE fps[k + 1]]
      /\ ord' = [k \in 1..(n - 1) |-> Down(ord[k + 1])]
  BY <1>1 DEF Dropped
<1>5. \A k \in 1..(n - 1) : fps'[k] = fps[IF k < f THEN k ELSE k + 1]
  BY <1>4
<1>6. DOMAIN fps' = 1..(n - 1) /\ Len(fps') = n - 1
  BY <1>2, <1>4
<1>7. \A a \in 1..n : a # f => Down(a) \in 1..(n - 1) /\ fps'[Down(a)] = fps[a]
  <2>1. ASSUME NEW a \in 1..n, a # f
        PROVE  Down(a) \in 1..(n - 1) /\ (IF Down(a) < f THEN Down(a) ELSE Down(a) + 1) = a
    BY <1>2, <2>1
  <2> HIDE DEF Down
  <2> QED BY <1>5, <2>1
<1>8. \A a, b \in 1..n : a # f /\ b # f /\ a < b => Down(a) < Down(b)
  BY <1>2
<1> HIDE DEF Down
<1>9. \A a, b \in 1..n : a # f /\ b # f /\ HeadBefore(fps, a, b)
                            => HeadBefore(fps', Down(a), Down(b))
  BY <1>7, <1>8 DEF HeadBefore
<1>10. \A k \in 1..(n - 1) : k + 1 \in 2..n /\ ord'[k] = Down(ord[k + 1])
  BY <1>2, <1>4
<1>11. ord' \in [1..(n - 1) -> 1..(n - 1)]
  <2>1. ASSUME NEW k \in 1..(n - 1) PROVE ord'[k] \in 1..(n - 1)
    <3>1. k + 1 \in 2..n /\ ord'[k] = Down(ord[k + 1])
      BY <1>10
    <3>2. ord[k + 1] \in 1..n /\ ord[k + 1] # f
      BY <1>3, <3>1
    <3> QED BY <1>7, <3>1, <3>2
  <2>2. ord' = [k \in 1..(n - 1) |-> ord'[k]]
    BY <1>4
  <2> QED BY <2>1, <2>2
<1>12. ASSUME NEW x \in 1..(n - 1) PROVE \E k \in 1..(n - 1) : ord'[k] = x
  <2> DEFINE a == IF x < f THEN x ELSE x + 1
  <2>1. a \in 1..n /\ a # f /\ Down(a) = x
    BY <1>2 DEF Down
  <2> HIDE DEF a
  <2>2. PICK m \in 1..n : ord[m] = a
    BY <1>1, <2>1
  <2>3. m # 1
    BY <2>1, <2>2
  <2>4. m - 1 \in 1..(n - 1) /\ (m - 1) + 1 = m
    BY <1>2, <2>3
  <2>5. ord'[m - 1] = x
    BY <1>10, <2>1, <2>2, <2>4
  <2> QED BY <2>4, <2>5
<1>13. ASSUME NEW j \in 1..(n - 1), NEW k \in 1..(n - 1), j < k
       PROVE  HeadBefore(fps', ord'[j], ord'[k])
  <2>1. j + 1 < k + 1 /\ j + 1 \in 1..n /\ k + 1 \in 1..n
    BY <1>2, <1>13
  <2>2. HeadBefore(fps, ord[j + 1], ord[k + 1])
    BY <1>1, <2>1
  <2> QED BY <1>3, <1>9, <1>10, <2>2
<1> QED BY <1>2, <1>5, <1>6, <1>11, <1>12, <1>13 DEF InTurn

------------------------------------------------------------------------------
(* The types: merge ()                                                     *)

\* The heads of the files.
LEMMA Heads ==
  ASSUME job \in Jobs, NEW fs \in Seq(Seq(AllLines) \ {<<>>})
  PROVE  /\ Len(fs) \in Nat /\ DOMAIN fs = 1..Len(fs)
         /\ \A k \in 1..Len(fs) : /\ fs[k] \in Seq(AllLines) /\ fs[k] # <<>>
                                  /\ Len(fs[k]) \in Nat \ {0}
                                  /\ fs[k][1] \in AllLines /\ fs[k][1].key \in Int
<1>1. Len(fs) \in Nat /\ DOMAIN fs = 1..Len(fs)
      /\ \A k \in 1..Len(fs) : fs[k] \in Seq(AllLines) /\ fs[k] # <<>>
  <2> DEFINE D == Seq(AllLines) \ {<<>>}
  <2>1. fs \in Seq(D)
    OBVIOUS
  <2> HIDE DEF D
  <2>2. Len(fs) \in Nat /\ DOMAIN fs = 1..Len(fs) /\ \A k \in 1..Len(fs) : fs[k] \in D
    BY <2>1
  <2> QED BY <2>2 DEF D
<1>2. ASSUME NEW k \in 1..Len(fs)
      PROVE  Len(fs[k]) \in Nat \ {0} /\ fs[k][1] \in AllLines /\ fs[k][1].key \in Int
  <2>1. fs[k] \in Seq(AllLines) /\ fs[k] # <<>>
    BY <1>1
  <2>2. Len(fs[k]) \in Nat \ {0} /\ fs[k][1] \in AllLines
    BY <2>1
  <2> QED BY <2>2, LineTypes
<1> QED BY <1>1, <1>2

LEMMA GroupIs ==
  ASSUME NEW D, files \in Seq(D), NEW g \in Nat \ {0}, (g - 1) * NMERGE <= Len(files)
  PROVE  /\ Group(g) \in Seq(D) /\ Len(Group(g)) <= NMERGE
         /\ \A k \in 1..Len(Group(g)) :
              /\ Group(g)[k] = files[(g - 1) * NMERGE + k]
              /\ (g - 1) * NMERGE + k \in 1..Len(files) /\ (g - 1) * NMERGE + k <= g * NMERGE
         /\ \A p \in 1..Len(files) :
              (g - 1) * NMERGE < p /\ p <= g * NMERGE => p - (g - 1) * NMERGE \in 1..Len(Group(g))
<1> DEFINE b == (g - 1) * NMERGE
           e == g * NMERGE
           L == Len(files)
           n == Min({e, L})
<1>1. b \in Nat /\ e \in Nat /\ e = b + NMERGE /\ NMERGE \in Nat /\ L \in Nat /\ b <= L
  <2>1. g \in Nat /\ g - 1 \in Nat /\ NMERGE \in Nat
    BY NMERGEAssumption
  <2>2. \A x, y \in Nat : x * y \in Nat
    OBVIOUS
  <2>3. e = b + NMERGE
    BY <2>1
  <2> QED BY <2>1, <2>2, <2>3
<1>2. Group(g) = SubSeq(files, b + 1, n)
  BY DEF Group
<1> HIDE DEF b, e, L
<1>3. n \in Int /\ n <= e /\ n <= L /\ (n = e \/ n = L)
  <2>1. e \in Int /\ L \in Int
    BY <1>1
  <2>2. Min({e, L}) \in {e, L} /\ Min({e, L}) \in Int /\ Min({e, L}) <= e /\ Min({e, L}) <= L
    BY <2>1, MinOfTwo
  <2> QED BY <2>2
<1> HIDE DEF n
<1>4. b + 1 \in Nat \ {0} /\ n \in 0..L /\ b + 1 <= n + 1
  BY <1>1, <1>3
<1>5. Group(g) \in Seq(D) /\ Len(Group(g)) = (n + 1) - (b + 1)
      /\ \A k \in 1..Len(Group(g)) : Group(g)[k] = files[((b + 1) - 1) + k]
  BY <1>2, <1>4, Slice DEF L
<1> DEFINE M == Len(Group(g))
<1>6. M = n - b /\ M \in Nat
  BY <1>1, <1>4, <1>5
<1>7. \A k \in 1..M : Group(g)[k] = files[b + k] /\ b + k \in 1..L /\ b + k <= e
  <2>1. \A k \in 1..M : Group(g)[k] = files[((b + 1) - 1) + k]
    BY <1>5
  <2> HIDE DEF M
  <2>2. \A k \in 1..M : ((b + 1) - 1) + k = b + k /\ b + k \in 1..L /\ b + k <= e
    BY <1>1, <1>3, <1>6
  <2> QED BY <2>1, <2>2
<1>8. M <= NMERGE /\ \A p \in 1..L : b < p /\ p <= e => p - b \in 1..M
  <2> HIDE DEF M
  <2> QED BY <1>1, <1>3, <1>6
<1> QED BY <1>5, <1>7, <1>8 DEF b, e, L

\* The files of a group that are not empty are opened, in their order.
LEMMA OpenGroupIs ==
  ASSUME Inv, Types, NEW g \in Nat \ {0}, (g - 1) * NMERGE <= Len(files), OpenGroup(g)
  PROVE  /\ fps' \in Seq(Seq(AllLines) \ {<<>>}) /\ Len(fps') <= NMERGE
         /\ InTurn(fps', ord') /\ saved' = <<>>
         /\ \E ks \in Seq(1..Len(Group(g))) :
              /\ Len(ks) = Len(fps')
              /\ \A j, k \in 1..Len(ks) : j < k => ks[j] < ks[k]
              /\ \A k \in 1..Len(ks) : fps'[k] = text[Group(g)[ks[k]]]
              /\ \A m \in 1..Len(Group(g)) :
                   text[Group(g)[m]] = <<>> \/ \E k \in 1..Len(ks) : ks[k] = m
<1> DEFINE G == Group(g)
           M == Len(G)
           S == {k \in DOMAIN G : text[G[k]] # <<>>}
           ks == Arranged(S, <)
           fs == [k \in DOMAIN ks |-> text[G[ks[k]]]]
           B == Seq(AllLines) \ {<<>>}
<1>1. G \in Seq(DOMAIN text) /\ M <= NMERGE
  BY GroupIs DEF Types, Opened
<1>2. fps' = fs /\ saved' = <<>>
      /\ ord' = Turns(fs)
  BY DEF OpenGroup, Turns, Arranged
<1>3. DOMAIN G = 1..M /\ M \in Nat /\ \A k \in 1..M : G[k] \in DOMAIN text
  <2> HIDE DEF G
  <2> QED BY <1>1
<1>4. S \subseteq 1..M /\ \A k \in 1..M : k \in S \/ text[G[k]] = <<>>
  BY <1>3
<1>5. \A k \in S : text[G[k]] \in B
  <2>1. \A k \in S : text[G[k]] # <<>> /\ G[k] \in DOMAIN text
    BY <1>3
  <2> HIDE DEF S, G
  <2> QED BY <2>1 DEF Types, Stored
<1> HIDE DEF G, S, B, M
<1>6. ks \in Seq(S) /\ Range(ks) = S /\ Len(ks) <= M
      /\ \A j, k \in 1..Len(ks) : j < k => ks[j] < ks[k]
  BY <1>3, <1>4, SortedPlaces
<1> HIDE DEF ks
<1> DEFINE n == Len(ks)
<1>7. n \in Nat /\ DOMAIN ks = 1..n /\ \A k \in 1..n : ks[k] \in S
  BY <1>6
<1>8. \A m \in S : \E k \in 1..n : ks[k] = m
  BY <1>6, <1>7 DEF Range
<1>9. fs = [k \in 1..n |-> text[G[ks[k]]]] /\ \A k \in 1..n : fs[k] \in B
  BY <1>5, <1>7
<1>10. fs \in Seq(B) /\ Len(fs) = n /\ DOMAIN fs = 1..n
  <2> HIDE DEF n, fs
  <2>1. fs \in [1..n -> B]
    BY <1>9
  <2> QED BY <1>7, <2>1
<1>11. \A k \in 1..n : fs[k][1].key \in Int
  <2> HIDE DEF fs
  <2> QED BY <1>10, Heads DEF B, Inv, Names
<1>12. InTurn(fps', ord')
  <2> HIDE DEF fs, n
  <2>1. /\ ord' \in [1..n -> 1..n]
        /\ \A f \in 1..n : \E k \in 1..n : ord'[k] = f
        /\ \A j, k \in 1..n : j < k => HeadBefore(fs, ord'[j], ord'[k])
    <3>1. n \in Nat /\ DOMAIN fs = 1..n
      BY <1>7, <1>10
    <3>2. /\ Turns(fs) \in [1..n -> 1..n]
          /\ \A f \in 1..n : \E k \in 1..n : Turns(fs)[k] = f
          /\ \A j, k \in 1..n : j < k => HeadBefore(fs, Turns(fs)[j], Turns(fs)[k])
      BY <1>11, <3>1, SortedHeads
    <3> QED BY <1>2, <3>2, Zenon
  <2>2. InTurn(fs, ord')
    BY <1>10, <2>1 DEF InTurn
  <2> QED BY <1>2, <2>2
<1>13. ks \in Seq(1..M)
  <2>1. ks \in [1..n -> S] /\ n \in Nat
    BY <1>6
  <2> DEFINE I == 1..M
  <2>2. S \subseteq I
    BY <1>4
  <2> HIDE DEF I, n
  <2>3. ks \in [1..n -> I]
    BY <2>1, <2>2
  <2>4. ks \in Seq(I)
    BY <2>1, <2>3
  <2> QED BY <2>4 DEF I
<1>14. \A m \in 1..M : text[G[m]] = <<>> \/ \E k \in 1..n : ks[k] = m
  BY <1>4, <1>8
<1>15. \A k \in 1..n : fps'[k] = text[G[ks[k]]]
  BY <1>2, <1>9
<1>16. n <= NMERGE
  BY <1>1, <1>3, <1>6, <1>7, NMERGEAssumption
<1>17. \E s \in Seq(1..M) :
              /\ Len(s) = Len(fps')
              /\ \A j, k \in 1..Len(s) : j < k => s[j] < s[k]
              /\ \A k \in 1..Len(s) : fps'[k] = text[G[s[k]]]
              /\ \A m \in 1..M : text[G[m]] = <<>> \/ \E k \in 1..Len(s) : s[k] = m
  <2> HIDE DEF fs
  <2>1. Len(ks) = Len(fps')
    BY <1>2, <1>10
  <2> QED BY <1>6, <1>13, <1>14, <1>15, <2>1
<1>18. fps' \in Seq(B) /\ Len(fps') <= NMERGE
  <2> HIDE DEF fs
  <2> QED BY <1>2, <1>10, <1>16
<1> QED BY <1>2, <1>12, <1>17, <1>18 DEF B, M, G

\* The first line in the order is taken from its file, which is put where its next line
\* belongs, or dropped.
LEMMA MergeLineIs ==
  ASSUME Inv, Types, MergeLine
  PROVE  LET n == Len(fps)
             f == ord[1]
         IN /\ n \in Nat \ {0} /\ f \in 1..n /\ fps[f][1] \in AllLines /\ WriteFirst(fps[f][1])
            /\ fps' \in Seq(Seq(AllLines) \ {<<>>}) /\ Len(fps') <= n /\ InTurn(fps', ord')
            /\ \/ /\ Len(fps') = n /\ fps'[f] = Tail(fps[f])
                  /\ \A k \in 1..n : k # f => fps'[k] = fps[k]
               \/ /\ Tail(fps[f]) = <<>> /\ Len(fps') = n - 1
                  /\ \A k \in 1..(n - 1) : fps'[k] = fps[IF k < f THEN k ELSE k + 1]
<1> DEFINE n == Len(fps)
           f == ord[1]
           B == Seq(AllLines) \ {<<>>}
           rest == [fps EXCEPT ![f] = Tail(@)]
<1>1. fps \in Seq(B) /\ fps # <<>> /\ InTurn(fps, ord) /\ job \in Jobs
  BY DEF MergeLine, Types, Sequenced, InGroup, Inv, Names
<1>2. n \in Nat \ {0} /\ DOMAIN fps = 1..n /\ fps = [k \in 1..n |-> fps[k]]
      /\ \A k \in 1..n : fps[k] \in B
  <2> HIDE DEF B
  <2> QED BY <1>1
<1>3. \A k \in 1..n : fps[k] \in Seq(AllLines) /\ fps[k][1] \in AllLines /\ fps[k][1].key \in Int
                      /\ fps[k] # <<>>
  BY <1>1, Heads
<1>4. f \in 1..n
  <2>1. ord \in [1..n -> 1..n]
    BY <1>1, Zenon DEF InTurn
  <2> HIDE DEF n
  <2>2. 1 \in 1..n
    BY <1>2
  <2> QED BY <2>1, <2>2
<1>5. WriteFirst(fps[f][1])
      /\ IF rest[f] # <<>> THEN fps' = rest /\ ord' = Pushed(rest, f) ELSE Dropped(f)
  BY DEF MergeLine
<1> HIDE DEF n, f, B
<1>6. rest[f] = Tail(fps[f]) /\ DOMAIN rest = 1..n /\ rest = [k \in 1..n |-> rest[k]]
      /\ \A k \in 1..n : k # f => rest[k] = fps[k]
  BY <1>2, <1>4
<1> HIDE DEF rest
<1>7. CASE rest[f] # <<>>
  <2>1. fps' = rest /\ ord' = Pushed(rest, f)
    BY <1>5, <1>7
  <2>2. rest[f] \in B
    <3>1. fps[f] \in Seq(AllLines) /\ fps[f] # <<>>
      BY <1>3, <1>4
    <3>2. Tail(fps[f]) \in Seq(AllLines)
      BY <3>1
    <3> QED BY <1>6, <1>7, <3>2 DEF B
  <2>3. \A k \in 1..n : rest[k] \in B
    BY <1>2, <1>6, <2>2
  <2>4. rest \in Seq(B) /\ Len(rest) = n
    <3>1. rest \in [1..n -> B]
      BY <1>6, <2>3
    <3> QED BY <1>2, <3>1
  <2>5. \A k \in 1..n : rest[k][1].key \in Int
    BY <1>1, <2>4, Heads DEF B
  <2>6. InTurn(rest, Pushed(rest, f))
    <3>1. Len(fps) = n /\ f = ord[1]
      BY DEF n, f
    <3>2. \A k \in 1..n : fps[k][1].key \in Int /\ rest[k][1].key \in Int
      BY <1>3, <2>5
    <3> QED BY <1>1, <1>2, <1>6, <2>4, <3>1, <3>2, PushedIs
  <2>7. /\ fps' \in Seq(B) /\ Len(fps') = n /\ InTurn(fps', ord')
        /\ fps'[f] = Tail(fps[f]) /\ \A k \in 1..n : k # f => fps'[k] = fps[k]
    BY <1>6, <2>1, <2>4, <2>6
  <2>8. n <= n
    BY <1>2
  <2> QED BY <1>2, <1>3, <1>4, <1>5, <2>7, <2>8 DEF n, f, B
<1>8. CASE rest[f] = <<>>
  <2>1. Dropped(f) /\ Tail(fps[f]) = <<>>
    BY <1>5, <1>6, <1>8
  <2>2. /\ DOMAIN fps' = 1..(n - 1) /\ Len(fps') = n - 1
        /\ \A k \in 1..(n - 1) : fps'[k] = fps[IF k < f THEN k ELSE k + 1]
        /\ InTurn(fps', ord')
    <3>1. Len(fps) = n /\ f = ord[1]
      BY DEF n, f
    <3>2. \A k \in 1..n : fps[k][1].key \in Int
      BY <1>3
    <3> QED BY <1>1, <1>2, <2>1, <3>1, <3>2, DroppedIs
  <2>3. \A k \in 1..(n - 1) : fps'[k] \in B
    <3>1. \A k \in 1..(n - 1) : (IF k < f THEN k ELSE k + 1) \in 1..n
      BY <1>2, <1>4
    <3> QED BY <1>2, <2>2, <3>1
  <2>4. fps' \in Seq(B)
    <3>1. fps' = [k \in 1..(n - 1) |-> fps'[k]]
      BY <2>1 DEF Dropped, n
    <3>2. fps' \in [1..(n - 1) -> B] /\ n - 1 \in Nat
      BY <1>2, <2>3, <3>1
    <3> QED BY <3>2
  <2>5. n - 1 <= n
    BY <1>2
  <2> QED BY <1>2, <1>3, <1>4, <1>5, <2>1, <2>2, <2>4, <2>5 DEF n, f, B
<1> QED BY <1>7, <1>8

\* Lines are added to the file that is written.
LEMMA WriteIs ==
  ASSUME Inv, Types, NEW ls \in Seq(AllLines), Write(ls), temp = Output \/ temp \in DOMAIN text,
         UNCHANGED <<job, seq, buf>>
  PROVE  /\ Stored' /\ DOMAIN text' = DOMAIN text
         /\ temp = Output => out' = out \o ls /\ text' = text
         /\ temp # Output => text'[temp] = text[temp] \o ls /\ out' = out
         /\ \A f \in DOMAIN text : f # temp => text'[f] = text[f]
<1>1. /\ DOMAIN text \subseteq 1..(seq - 1) /\ text \in [DOMAIN text -> Seq(AllLines)]
      /\ buf \in Seq(AllLines) /\ out \in Seq(AllLines) /\ AllLines' = AllLines
  BY SameJob DEF Types, Stored
<1>2. CASE temp = Output
  <2>1. out' = out \o ls /\ text' = text
    BY <1>2 DEF Write
  <2>2. out' \in Seq(AllLines)
    BY <1>1, <2>1
  <2> QED BY <1>1, <1>2, <2>1, <2>2 DEF Stored
<1>3. CASE temp # Output
  <2>1. text' = [text EXCEPT ![temp] = @ \o ls] /\ out' = out /\ temp \in DOMAIN text
    BY <1>3 DEF Write
  <2> DEFINE L == Seq(AllLines)
  <2>2. text[temp] \o ls \in L
    BY <1>1, <2>1
  <2> HIDE DEF L
  <2>3. text' \in [DOMAIN text -> L] /\ DOMAIN text' = DOMAIN text
    BY <1>1, <2>1, <2>2 DEF L
  <2>4. text'[temp] = text[temp] \o ls /\ \A f \in DOMAIN text : f # temp => text'[f] = text[f]
    BY <1>1, <2>1
  <2>5. Stored'
    BY <1>1, <2>1, <2>3 DEF Stored, L
  <2> QED BY <1>3, <2>1, <2>3, <2>4, <2>5
<1> QED BY <1>2, <1>3

LEMMA WriteFirstIs ==
  ASSUME Inv, Types, NEW line \in AllLines, WriteFirst(line), pc = "mergefps"
  PROVE  /\ saved' \in Seq(AllLines) /\ Len(saved') <= 1
         /\ IF ~job.unique THEN Write(<<line>>) /\ saved' = saved
            ELSE IF saved # <<>> /\ saved[1].key = line.key THEN Write(<<>>) /\ saved' = saved
            ELSE Write(saved) /\ saved' = <<line>>
<1>1. saved \in Seq(AllLines) /\ Len(saved) <= 1
  BY DEF Types, Sequenced, InGroup
<1>2. <<line>> \in Seq(AllLines) /\ Len(<<line>>) <= 1
  OBVIOUS
<1> QED BY <1>1, <1>2 DEF WriteFirst

\* While a group is merged, or its files are zapped.
LEMMA KeptRound ==
  ASSUME Types, UNCHANGED <<job, files, i, t, temp, n_temp_files>>, DOMAIN text' = DOMAIN text,
         pc \in {"mergefps", "zap", "zapped"}, pc' \in {"mergefps", "zap", "zapped"}
  PROVE  Opened' /\ Rounds' /\ Chunked'
<1>1. files \in Seq(DOMAIN text) /\ i \in 1..(Len(files) + 1) /\ t \in 0..Len(files)
  BY DEF Types, Opened
<1>2. Opened'
  BY <1>1 DEF Opened, Reading
<1>3. Rounds'
  BY DEF Types, Rounds, Merging, InGroup
<1>4. Chunked'
  BY DEF Types, Chunked, Sorting
<1> QED BY <1>2, <1>3, <1>4

LEMMA KeptListed ==
  ASSUME Types, UNCHANGED <<job, temphead, seq, temp>>, disk' \subseteq disk,
         pc' \notin {"copy", "chunk_write", "round"}
  PROVE  Listed'
<1>1. Temps' = Temps
  BY DEF Temps, N
<1> QED BY <1>1 DEF Types, Listed

LEMMA MergeLineTypes ==
  ASSUME Inv, Types, MergeLine
  PROVE  Types'
<1>1. pc = "mergefps" /\ UNCHANGED <<job, disk, temphead, seq, files, pc, i, t, left, n_temp_files,
                                     buf, temp, zap>>
  BY DEF MergeLine
<1>2. AllLines' = AllLines
  BY <1>1, SameJob
<1>3. temp = Output \/ temp \in DOMAIN text
  BY <1>1 DEF Types, Rounds, Merging, InGroup
<1> DEFINE line == fps[ord[1]][1]
<1>4. line \in AllLines /\ WriteFirst(line)
  BY MergeLineIs
<1> HIDE DEF line
<1>5. saved \in Seq(AllLines) /\ <<line>> \in Seq(AllLines) /\ <<>> \in Seq(AllLines)
  BY <1>1, <1>4 DEF Types, Sequenced, InGroup
<1>6. saved' \in Seq(AllLines) /\ Len(saved') <= 1 /\ \E ls \in Seq(AllLines) : Write(ls)
  BY <1>1, <1>4, <1>5, WriteFirstIs
<1>7. Stored' /\ DOMAIN text' = DOMAIN text
  BY <1>1, <1>3, <1>6, WriteIs
<1>8. Listed'
  BY <1>1, KeptListed
<1>9. Opened' /\ Rounds' /\ Chunked'
  BY <1>1, <1>7, KeptRound DEF Types
<1>10. Sequenced'
  <2>1. /\ fps' \in Seq(Seq(AllLines) \ {<<>>}) /\ Len(fps') <= Len(fps) /\ InTurn(fps', ord')
        /\ Len(fps) \in Nat
    BY MergeLineIs
  <2>2. Len(fps) <= NMERGE /\ NMERGE \in Nat
    BY <1>1, NMERGEAssumption DEF Types, Sequenced, InGroup
  <2>3. Len(fps') \in Nat
    <3> DEFINE B == Seq(AllLines) \ {<<>>}
    <3>1. fps' \in Seq(B)
      BY <2>1
    <3> HIDE DEF B
    <3> QED BY <3>1
  <2>4. Len(fps') <= NMERGE
    BY <2>1, <2>2, <2>3
  <2> QED BY <1>1, <1>2, <1>6, <2>1, <2>4 DEF Sequenced
<1>11. Places'
  BY <1>1 DEF Places
<1> QED BY <1>7, <1>8, <1>9, <1>10, <1>11 DEF Types

LEMMA MergeEndTypes ==
  ASSUME Inv, Types, MergeEnd
  PROVE  Types'
<1>1. pc = "mergefps" /\ pc' = "zap" /\ fps = <<>> /\ Write(saved) /\ saved' = <<>>
      /\ UNCHANGED <<job, disk, temphead, seq, files, i, t, left, n_temp_files, buf, fps, ord,
                     temp, zap>>
  BY DEF MergeEnd
<1>2. AllLines' = AllLines
  BY <1>1, SameJob
<1>3. temp = Output \/ temp \in DOMAIN text
  BY <1>1 DEF Types, Rounds, Merging, InGroup
<1>4. saved \in Seq(AllLines)
  BY <1>1 DEF Types, Sequenced, InGroup
<1>5. Stored' /\ DOMAIN text' = DOMAIN text
  BY <1>1, <1>3, <1>4, WriteIs
<1>6. Listed'
  BY <1>1, KeptListed
<1>7. Opened' /\ Rounds' /\ Chunked'
  BY <1>1, <1>5, KeptRound DEF Types
<1>8. Sequenced' /\ Places'
  BY <1>1, <1>2 DEF Types, Sequenced, Places, InGroup
<1> QED BY <1>5, <1>6, <1>7, <1>8 DEF Types

LEMMA ZapTempTypes ==
  ASSUME Inv, Types, ZapTemp
  PROVE  Types'
<1>1. pc = "zap" /\ pc' \in {"zap", "zapped"} /\ disk' \subseteq disk
      /\ UNCHANGED <<job, text, temphead, seq, files, i, t, left, n_temp_files, buf, fps, ord,
                     saved, temp, out>>
  BY DEF ZapTemp
<1>2. AllLines' = AllLines
  BY <1>1, SameJob
<1>3. Stored'
  BY <1>1, <1>2 DEF Types, Stored
<1>4. Listed'
  BY <1>1, KeptListed
<1>5. Opened' /\ Rounds' /\ Chunked'
  BY <1>1, KeptRound DEF Types
<1>6. Sequenced' /\ Places'
  BY <1>1, <1>2 DEF Types, Sequenced, Places, InGroup
<1> QED BY <1>3, <1>4, <1>5, <1>6 DEF Types

LEMMA ZapNodeTypes ==
  ASSUME Inv, Types, ZapNode
  PROVE  Types'
<1>1. pc = "zapped" /\ pc' = "zap"
      /\ UNCHANGED <<job, disk, text, seq, files, i, t, left, n_temp_files, buf, fps, ord,
                     saved, temp, out>>
  BY DEF ZapNode
<1>2. AllLines' = AllLines /\ Temps' = Temps
  BY <1>1, SameJob DEF Temps
<1>3. Stored'
  BY <1>1, <1>2 DEF Types, Stored
<1>4. PICK k \in DOMAIN temphead : temphead' = RemoveAt(temphead, k)
  BY DEF ZapNode
<1>5. temphead \in Seq(Int) /\ Range(temphead) \subseteq Temps /\ IsInjective(temphead)
  BY DEF Inv, Names, Types, Listed
<1>6. Range(temphead') \subseteq Range(temphead) /\ IsInjective(temphead')
  BY <1>4, <1>5, RemoveRange
<1>7. Listed'
  BY <1>1, <1>2, <1>5, <1>6 DEF Types, Listed
<1>8. Opened' /\ Rounds' /\ Chunked'
  BY <1>1, KeptRound DEF Merging, InGroup, Types
<1>9. Sequenced' /\ Places'
  BY <1>1, <1>2 DEF Types, Sequenced, Places, InGroup
<1> QED BY <1>3, <1>7, <1>8, <1>9 DEF Types

LEMMA RoundNameTypes ==
  ASSUME Inv, Types, RoundName
  PROVE  Types'
<1>1. pc = "merge" /\ pc' = "round" /\ Len(files) > NMERGE /\ tempname
      /\ UNCHANGED <<job, disk, text, files, i, t, left, n_temp_files, buf, out>>
  BY DEF RoundName
<1>2. AllLines' = AllLines /\ NMERGE \in Nat
  BY <1>1, SameJob, NMERGEAssumption
<1>3. Stored' /\ Listed' /\ temp' \in Nat \ {0}
  BY <1>1, TempnameTypes
<1>4. i \in Nat \ {0} /\ (i - 1) * NMERGE <= Len(files)
  BY <1>1 DEF Types, Opened, Rounds, Merging
<1>5. Opened' /\ Chunked' /\ Places'
  BY <1>1 DEF Types, Opened, Chunked, Places, Reading, Sorting
<1>6. Rounds'
  BY <1>1 DEF Types, Rounds, Merging, InGroup
<1>7. Sequenced'
  <2>1. /\ fps' \in Seq(Seq(AllLines) \ {<<>>}) /\ Len(fps') <= NMERGE
        /\ InTurn(fps', ord') /\ saved' = <<>>
    BY <1>4, OpenGroupIs DEF RoundName
  <2>2. saved' \in Seq(AllLines) /\ Len(saved') <= 1
    BY <2>1
  <2> QED BY <1>1, <1>2, <2>1, <2>2 DEF Sequenced
<1> QED BY <1>3, <1>5, <1>6, <1>7 DEF Types

LEMMA RoundCreateTypes ==
  ASSUME Inv, Types, RoundCreate
  PROVE  Types'
<1>1. pc = "round" /\ pc' = "mergefps" /\ Create(<<>>)
      /\ UNCHANGED <<job, temphead, seq, files, i, t, left, n_temp_files, buf, fps, ord, saved,
                     temp, out>>
  BY DEF RoundCreate, merge_vars
<1>2. AllLines' = AllLines /\ <<>> \in Seq(AllLines)
  BY <1>1, SameJob
<1>3. /\ Stored' /\ Listed' /\ temp \in DOMAIN text'
      /\ \A f \in DOMAIN text : f \in DOMAIN text' /\ text'[f] = text[f]
  BY <1>1, <1>2, CreateTypes
<1>4. Opened'
  <2>1. files \in Seq(DOMAIN text) /\ i \in 1..(Len(files) + 1) /\ t \in 0..Len(files)
    BY DEF Types, Opened
  <2>2. files \in Seq(DOMAIN text')
    BY <1>3, <2>1
  <2> QED BY <1>1, <2>1, <2>2 DEF Opened, Reading
<1>5. Rounds'
  <2>1. temp # Output
    BY <1>1, LinesAre DEF Types, Listed, Temps, Output, Inv, Names
  <2> QED BY <1>1, <1>3, <2>1 DEF Types, Rounds, Merging, InGroup
<1>6. Chunked' /\ Sequenced' /\ Places'
  BY <1>1, <1>2 DEF Types, Chunked, Sequenced, Places, Sorting, InGroup
<1> QED BY <1>3, <1>4, <1>5, <1>6 DEF Types

LEMMA LastMergeTypes ==
  ASSUME Inv, Types, LastMerge
  PROVE  Types'
<1>1. pc = "merge" /\ pc' = "mergefps" /\ Len(files) <= NMERGE /\ temp' = Output
      /\ UNCHANGED <<job, disk, text, temphead, seq, files, i, t, left, n_temp_files, buf, out>>
  BY DEF LastMerge, files_vars
<1>2. AllLines' = AllLines /\ Temps' = Temps /\ NMERGE \in Nat
  BY <1>1, SameJob, NMERGEAssumption DEF Temps
<1>3. Stored' /\ Listed'
  BY <1>1, <1>2 DEF Types, Stored, Listed, Output
<1>4. Opened' /\ Chunked' /\ Places'
  BY <1>1 DEF Types, Opened, Chunked, Places, Reading, Sorting
<1>5. Rounds'
  BY <1>1 DEF Types, Rounds, Merging, InGroup
<1>6. Sequenced'
  <2>1. Len(files) \in Nat /\ (1 - 1) * NMERGE <= Len(files) /\ 1 \in Nat \ {0}
    <3>1. Len(files) \in Nat
      BY DEF Types, Opened
    <3> QED BY <1>2, <3>1
  <2>2. OpenGroup(1)
    BY DEF LastMerge
  <2>3. /\ fps' \in Seq(Seq(AllLines) \ {<<>>}) /\ Len(fps') <= NMERGE
        /\ InTurn(fps', ord') /\ saved' = <<>>
    BY <2>1, <2>2, OpenGroupIs
  <2>4. saved' \in Seq(AllLines) /\ Len(saved') <= 1
    BY <2>3
  <2> QED BY <1>1, <1>2, <2>3, <2>4 DEF Sequenced
<1> QED BY <1>3, <1>4, <1>5, <1>6 DEF Types

\* The merged file is stored back; the rest of the array is given up after the last group.
LEMMA GroupEndIs ==
  ASSUME Inv, Types, GroupEnd
  PROVE  /\ i \in 1..Len(files) /\ t + 1 = i /\ temp \in DOMAIN text /\ Len(files) > NMERGE
         /\ \/ /\ i * NMERGE <= Len(files) /\ i' = i + 1 /\ t' = i
               /\ Len(files') = Len(files)
               /\ \A p \in 1..Len(files) : files'[p] = IF p = i THEN temp ELSE files[p]
            \/ /\ i * NMERGE > Len(files) /\ i' = 1 /\ t' = 0 /\ Len(files') = i
               /\ \A p \in 1..i : files'[p] = IF p = i THEN temp ELSE files[p]
         /\ files' \in Seq(DOMAIN text)
<1> DEFINE L == Len(files)
           D == DOMAIN text
           b == (i - 1) * NMERGE
           stored == [files EXCEPT ![t + 1] = temp]
<1>1. /\ files \in Seq(D) /\ t = i - 1 /\ i \in 1..(L + 1) /\ b <= L
      /\ temp \in D /\ L > NMERGE
  BY DEF GroupEnd, Types, Opened, Rounds, Merging, InGroup
<1>2. L \in Nat /\ DOMAIN files = 1..L /\ files = [p \in 1..L |-> files[p]]
      /\ \A p \in 1..L : files[p] \in D
  <2> HIDE DEF D
  <2> QED BY <1>1
<1>3. NMERGE \in Nat /\ NMERGE >= 2 /\ i \in Nat /\ i >= 1 /\ t + 1 = i
  <2>1. i \in 1..(L + 1) /\ t = i - 1 /\ L \in Nat
    BY <1>1, <1>2
  <2>2. NMERGE \in Nat /\ NMERGE >= 2
    BY NMERGEAssumption
  <2> HIDE DEF L
  <2> QED BY <2>1, <2>2
<1>4. i <= L
  <2>1. b >= i - 1
    <3>1. \A x, y \in Nat : y >= 1 => x * y >= x
      <4>1. ASSUME NEW x \in Nat, NEW y \in Nat, y >= 1 PROVE x * y >= x
        <5>1. x * y = x * (y - 1) + x /\ x * (y - 1) >= 0
          BY <4>1
        <5> QED BY <5>1
      <4> QED BY <4>1
    <3> QED BY <1>3, <3>1
  <2>2. CASE i - 1 >= 1
    <3>1. b >= 2 * (i - 1)
      <4>1. \A x, y \in Nat : y >= 2 => x * y >= 2 * x
        <5>1. ASSUME NEW x \in Nat, NEW y \in Nat, y >= 2 PROVE x * y >= 2 * x
          <6>1. x * y = x * (y - 2) + 2 * x /\ x * (y - 2) >= 0
            BY <5>1
          <6> QED BY <6>1
        <5> QED BY <5>1
      <4>2. i - 1 \in Nat /\ b = (i - 1) * NMERGE
        BY <1>3
      <4> HIDE DEF b
      <4> QED BY <1>3, <4>1, <4>2
    <3>2. b \in Int
      BY <1>3
    <3> HIDE DEF b
    <3> QED BY <1>1, <1>2, <1>3, <2>2, <3>1, <3>2
  <2>3. CASE i - 1 = 0
    BY <1>1, <1>2, <1>3, <2>3
  <2> QED BY <1>3, <2>2, <2>3
<1>5. DOMAIN stored = 1..L /\ stored = [p \in 1..L |-> stored[p]]
      /\ \A p \in 1..L : stored[p] = IF p = i THEN temp ELSE files[p]
  BY <1>2, <1>3
<1> HIDE DEF b, D
<1>6. stored \in Seq(D) /\ Len(stored) = L
  <2> HIDE DEF stored, L
  <2>1. stored \in [1..L -> D]
    BY <1>1, <1>2, <1>5
  <2> QED BY <1>2, <2>1
<1>7. IF i <= L \div NMERGE THEN files' = stored /\ t' = t + 1 /\ i' = i + 1
                            ELSE files' = SubSeq(stored, 1, t + 1) /\ t' = 0 /\ i' = 1
  BY DEF GroupEnd
<1> HIDE DEF L, stored
<1>8. i <= L \div NMERGE <=> i * NMERGE <= L
  <2> DEFINE q == L \div NMERGE
             r == L % NMERGE
  <2>1. q \in Int /\ r \in 0..(NMERGE - 1) /\ L = NMERGE * q + r
    BY <1>2, <1>3
  <2> HIDE DEF q, r
  <2>2. CASE i <= q
    <3>1. NMERGE * (q - i) >= 0
      BY <1>3, <2>1, <2>2
    <3>2. NMERGE * (q - i) = NMERGE * q - i * NMERGE
      BY <1>3, <2>1
    <3> DEFINE u == NMERGE * q
               v == i * NMERGE
    <3>3. u \in Int /\ v \in Int /\ u - v >= 0 /\ L = u + r
      BY <1>3, <2>1, <3>1, <3>2
    <3> HIDE DEF u, v
    <3>4. v <= L
      BY <1>2, <1>3, <2>1, <3>3
    <3> QED BY <2>2, <3>4 DEF q, v
  <2>3. CASE i > q
    <3>1. NMERGE * (i - (q + 1)) >= 0
      BY <1>3, <2>1, <2>3
    <3>2. NMERGE * (i - (q + 1)) = i * NMERGE - (NMERGE * q + NMERGE)
      BY <1>3, <2>1
    <3>3. NMERGE * q \in Int /\ i * NMERGE \in Int
      BY <1>3, <2>1
    <3>4. ~(i * NMERGE <= L)
      <4> DEFINE P == NMERGE * q
                 W == i * NMERGE
                 V == NMERGE * (i - (q + 1))
      <4>1. /\ V >= 0 /\ V = W - (P + NMERGE) /\ P \in Int /\ W \in Int /\ L = P + r
            /\ r \in 0..(NMERGE - 1) /\ NMERGE \in Nat
        BY <1>3, <2>1, <3>1, <3>2, <3>3
      <4> HIDE DEF P, W, V
      <4>2. ~(W <= L)
        BY <4>1
      <4> QED BY <4>2 DEF W
    <3>5. ~(i <= q)
      BY <1>3, <2>1, <2>3
    <3> QED BY <3>4, <3>5 DEF q
  <2> QED BY <1>3, <2>1, <2>2, <2>3
<1>9. i \in 1..L
  BY <1>2, <1>3, <1>4
<1>10. CASE i <= L \div NMERGE
  <2>1. files' = stored /\ t' = i /\ i' = i + 1 /\ i * NMERGE <= L
    BY <1>3, <1>7, <1>8, <1>10
  <2>2. Len(files') = L /\ files' \in Seq(D)
        /\ \A p \in 1..L : files'[p] = IF p = i THEN temp ELSE files[p]
    BY <1>5, <1>6, <2>1
  <2> QED BY <1>1, <1>3, <1>9, <2>1, <2>2 DEF L, D
<1>11. CASE ~(i <= L \div NMERGE)
  <2>1. files' = SubSeq(stored, 1, i) /\ t' = 0 /\ i' = 1 /\ ~(i * NMERGE <= L)
    BY <1>3, <1>7, <1>8, <1>11
  <2>2. i * NMERGE > L
    <3>1. i * NMERGE \in Int
      BY <1>3
    <3> QED BY <1>2, <2>1, <3>1
  <2>3. files' \in Seq(D) /\ Len(files') = (i + 1) - 1
        /\ \A k \in 1..Len(files') : files'[k] = stored[(1 - 1) + k]
    <3>1. 1 \in Nat \ {0} /\ i \in 0..Len(stored) /\ 1 <= i + 1
      BY <1>3, <1>6, <1>9
    <3> QED BY <1>6, <2>1, <3>1, Slice
  <2>4. Len(files') = i /\ \A k \in 1..i : k \in 1..L /\ (1 - 1) + k = k
    BY <1>2, <1>3, <1>9, <2>3
  <2>5. \A p \in 1..i : files'[p] = IF p = i THEN temp ELSE files[p]
    BY <1>5, <2>3, <2>4
  <2> QED BY <1>1, <1>3, <1>9, <2>1, <2>2, <2>3, <2>4, <2>5 DEF L, D
<1> QED BY <1>10, <1>11

LEMMA GroupEndTypes ==
  ASSUME Inv, Types, GroupEnd
  PROVE  Types'
<1>1. pc = "zap" /\ pc' = "merge"
      /\ UNCHANGED <<job, disk, text, temphead, seq, left, n_temp_files, buf, fps, ord, saved, zap,
                     temp, out>>
  BY DEF GroupEnd, files_vars
<1>2. AllLines' = AllLines /\ NMERGE \in Nat
  BY <1>1, SameJob, NMERGEAssumption
<1>3. Stored'
  BY <1>1, <1>2 DEF Types, Stored
<1>4. Listed'
  BY <1>1, KeptListed
<1>5. Chunked' /\ Sequenced' /\ Places'
  BY <1>1 DEF Types, Chunked, Sequenced, Places, Sorting, InGroup
<1>6. /\ i \in 1..Len(files) /\ Len(files) > NMERGE
      /\ \/ i * NMERGE <= Len(files) /\ i' = i + 1 /\ t' = i /\ Len(files') = Len(files)
         \/ i' = 1 /\ t' = 0 /\ Len(files') = i
      /\ files' \in Seq(DOMAIN text)
  BY GroupEndIs
<1>7. Len(files) \in Nat /\ i \in Nat
  BY <1>6 DEF Types, Opened
<1>8. Opened'
  <2>1. i' \in 1..(Len(files') + 1) /\ t' \in 0..Len(files')
    BY <1>6, <1>7
  <2> QED BY <1>1, <1>6, <2>1 DEF Opened, Reading
<1>9. Rounds'
  <2>1. CASE i * NMERGE <= Len(files) /\ i' = i + 1 /\ t' = i /\ Len(files') = Len(files)
    <3>1. i' - 1 = i /\ t' = i' - 1
      BY <1>7, <2>1
    <3>2. (i' - 1) * NMERGE <= Len(files')
      BY <2>1, <3>1
    <3> QED BY <1>1, <1>6, <2>1, <3>1, <3>2 DEF Rounds
  <2>2. CASE i' = 1 /\ t' = 0 /\ Len(files') = i
    <3>1. (i' - 1) * NMERGE = 0 /\ t' = i' - 1 /\ ~(i' > 1)
      BY <1>2, <2>2
    <3> QED BY <1>1, <1>7, <2>2, <3>1 DEF Rounds
  <2> QED BY <1>6, <2>1, <2>2
<1> QED BY <1>3, <1>4, <1>5, <1>8, <1>9 DEF Types

LEMMA LastEndTypes ==
  ASSUME Inv, Types, LastEnd
  PROVE  Types'
<1>1. pc = "zap" /\ pc' = "end"
      /\ UNCHANGED <<job, disk, text, temphead, seq, files, i, t, left, n_temp_files, buf, fps, ord,
                     saved, temp, out>>
  BY DEF LastEnd, files_vars, merge_vars
<1>2. AllLines' = AllLines
  BY <1>1, SameJob
<1>3. Stored' /\ Listed'
  BY <1>1, <1>2, KeptListed DEF Types, Stored
<1>4. Opened' /\ Chunked' /\ Rounds' /\ Sequenced' /\ Places'
  BY <1>1 DEF Types, Opened, Chunked, Rounds, Sequenced, Places, Reading, Sorting, Merging, InGroup
<1> QED BY <1>3, <1>4 DEF Types

LEMMA NextTypes ==
  ASSUME Inv, Types, [Next]_vars
  PROVE  Types'
<1>1. ASSUME UNCHANGED vars PROVE Types'
  <2>1. UNCHANGED <<job, disk, text, temphead, seq, files, pc, i, left, n_temp_files, buf, fps, ord,
                    saved, t, temp, out>>
    BY <1>1 DEF vars, files_vars, merge_vars
  <2>2. AllLines' = AllLines /\ N' = N /\ Temps' = Temps /\ \A f : Lines(f)' = Lines(f)
    BY <2>1, SameJob DEF Temps
  <2>3. Stored' /\ Listed' /\ Opened'
    BY <2>1, <2>2 DEF Types, Stored, Listed, Opened
  <2>4. Chunked'
    <3>1. Lines(i)' = Lines(i)
      BY <2>1 DEF Lines
    <3>2. Len(Lines(i)') = Len(Lines(i))
      BY <3>1
    <3> DEFINE x == Lines(i)
    <3>3. x' = x
      BY <3>1
    <3>4. /\ n_temp_files \in Nat
          /\ pc \in {"main", "copy"} => n_temp_files = 0
          /\ pc \in Sorting =>
               /\ ~job.mergeonly
               /\ n_temp_files <= Len(temphead)
               /\ \A k \in 1..n_temp_files :
                    temphead[k] \in DOMAIN text \/ (k = 1 /\ pc = "chunk_write")
               /\ pc = "chunk_write" => n_temp_files > 0 /\ temphead[1] = temp
          /\ pc \in Sorting \ {"sort"} =>
               /\ left \in Seq(AllLines) /\ Len(left) <= Len(x)
               /\ \A k \in 1..Len(left) : left[k] = x[(Len(x) - Len(left)) + k]
      BY DEF Types, Chunked
    <3> HIDE DEF x
    <3>5. /\ n_temp_files' \in Nat
          /\ pc' \in {"main", "copy"} => n_temp_files' = 0
          /\ pc' \in Sorting =>
               /\ ~job'.mergeonly
               /\ n_temp_files' <= Len(temphead')
               /\ \A k \in 1..n_temp_files' :
                    temphead'[k] \in DOMAIN text' \/ (k = 1 /\ pc' = "chunk_write")
               /\ pc' = "chunk_write" => n_temp_files' > 0 /\ temphead'[1] = temp'
          /\ pc' \in Sorting \ {"sort"} =>
               /\ left' \in Seq(AllLines') /\ Len(left') <= Len(x')
               /\ \A k \in 1..Len(left') : left'[k] = x'[(Len(x') - Len(left')) + k]
      BY <2>1, <2>2, <3>3, <3>4
    <3> QED BY <3>5 DEF Chunked, x
  <2>5. Rounds' /\ Sequenced' /\ Places'
    BY <2>1, <2>2 DEF Types, Rounds, Sequenced, Places
  <2> QED BY <2>3, <2>4, <2>5 DEF Types
<1>2. ASSUME Fail PROVE Types'
  BY <1>2, EndTypes DEF Fail, cleanup
<1>3. CASE Finished
  BY <1>1, <1>3 DEF Finished
<1>4. CASE Signal
  BY <1>4, EndTypes DEF Signal, cleanup
<1>5. CASE Error
  BY <1>2, <1>5 DEF Error
<1>6. CASE SortStep
  <2>1. CASE InputMissing \/ OpenFails
    BY <1>2, <2>1 DEF InputMissing, OpenFails
  <2>2. CASE Exit
    BY <2>2, EndTypes DEF Exit, cleanup
  <2> QED
    BY <1>6, <2>1, <2>2, CopyNameTypes, CopyFileTypes, OpenOutputTypes, SortOpenTypes, ReadTypes,
       ReadEndTypes, DirectTypes, ChunkNameTypes, ChunkWriteTypes, SortMergeTypes, RoundNameTypes,
       RoundCreateTypes, LastMergeTypes, MergeLineTypes, MergeEndTypes, ZapTempTypes, ZapNodeTypes,
       GroupEndTypes, LastEndTypes DEF SortStep
<1> QED BY <1>1, <1>3, <1>4, <1>5, <1>6 DEF Next

LEMMA TypesImply == Inv /\ Types => TypeOK
<1> SUFFICES ASSUME Inv, Types PROVE TypeOK
  OBVIOUS
<1>1. disk \subseteq {NewFile} \cup DOMAIN job.keys \cup ((N + 1)..(seq - 1))
      /\ Range(temphead) \subseteq (N + 1)..(seq - 1) /\ IsInjective(temphead)
  BY DEF Types, Listed, Temps
<1>2. i \in 1..(Len(files) + 1) /\ t \in 0..Len(files)
  BY DEF Types, Opened
<1>3. n_temp_files <= Len(temphead) \/ pc \notin {"sort", "read", "chunk", "chunk_write"}
  BY DEF Types, Chunked, Sorting
<1>4. ASSUME pc = "mergefps"
      PROVE  Len(fps) <= NMERGE /\ Range(ord) = DOMAIN fps /\ Len(ord) = Len(fps)
  <2>1. fps \in Seq(Seq(AllLines) \ {<<>>}) /\ Len(fps) <= NMERGE /\ InTurn(fps, ord)
    BY <1>4 DEF Types, Sequenced, InGroup
  <2>2. Len(fps) \in Nat /\ DOMAIN fps = 1..Len(fps)
    BY <2>1, Heads DEF Inv, Names
  <2>3. ord \in [1..Len(fps) -> 1..Len(fps)]
       /\ \A f \in 1..Len(fps) : \E k \in 1..Len(fps) : ord[k] = f
    BY <2>1 DEF InTurn
  <2>4. Len(ord) = Len(fps)
    BY <2>2, <2>3
  <2>5. Range(ord) = 1..Len(fps)
    BY <2>3 DEF Range
  <2> QED BY <2>1, <2>2, <2>4, <2>5
<1>5. pc \in {"main", "copy", "sort", "read", "direct", "chunk", "chunk_write", "merge", "round",
              "mergefps", "zap", "zapped", "end", "success", "failure", "killed"}
  BY DEF Types, Places
<1> QED BY <1>1, <1>2, <1>3, <1>4, <1>5 DEF TypeOK

\* The list of temporary files, the counts that merge () and sort () keep of it and the
\* order of mergefps () agree at every step, for every NMERGE and all inputs.
THEOREM TypeCorrect == Spec => []TypeOK
<1>1. Init => Inv /\ Types
  BY InitInv, InitTypes
<1>2. Inv /\ Types /\ [Next]_vars => Inv' /\ Types'
  BY NextInv, NextTypes
<1>3. Inv /\ Types => TypeOK
  BY TypesImply
<1> QED BY <1>1, <1>2, <1>3, PTL DEF Spec

------------------------------------------------------------------------------
(* The order of the output                                                 *)

\* With -m the output is sorted if the inputs are.
Good == job.mergeonly => InputsSorted

Contents(ss) == UNION {Range(ss[k]) : k \in DOMAIN ss}

\* What sort () has not read yet, the chunks it has written, newest first, and the one it holds.
Unread == IF pc = "sort" THEN {l \in AllLines : l.at[1] >= i}
                         ELSE {l \in AllLines : l.at[1] > i} \cup Range(left)
Chunks == [k \in 1..n_temp_files |-> IF pc = "chunk_write" /\ k = 1 THEN buf ELSE text[temphead[k]]]
InHand == IF pc \in {"direct", "chunk"} THEN Range(buf) ELSE {}
Held == Contents(Chunks) \cup InHand \cup Range(out)

\* The chunks are sorted, of equal lines those in older ones come first, then those that
\* are not read yet, and no line that is wanted is missing.
SortsRight ==
  pc \in Sorting =>
    /\ \A k \in DOMAIN Chunks : Ordered(Chunks[k])
    /\ \A j, k \in DOMAIN Chunks : j < k => Apart(Range(Chunks[k]), Range(Chunks[j]))
    /\ Apart(Contents(Chunks), InHand)
    /\ pc \in {"direct", "chunk", "chunk_write"} => Ordered(buf) /\ Once(buf) /\ out = <<>>
    /\ pc = "direct" => n_temp_files = 0 /\ Unread = {}
    /\ Apart(Held, Unread) /\ Wanted \subseteq Held \cup Unread
    /\ Ordered(out) /\ Once(out)
    /\ out # <<>> => n_temp_files = 0 /\ Unread = {}

\* w is written, s is saved, and fs are still to be merged.
MergeRight(w, s, fs) ==
  /\ Ordered(w) /\ Once(w)
  /\ ~job.unique => s = <<>>
  /\ \A a \in Range(w), b \in Range(s) : InOrder(a, b) /\ a.key # b.key
  /\ \A k \in DOMAIN fs : Ordered(fs[k])
  /\ \A j, k \in DOMAIN fs : j < k => Apart(Range(fs[j]), Range(fs[k]))
  /\ \A a \in Range(w) \cup Range(s), b \in Contents(fs) : InOrder(a, b)

\* What mergefps () has written of its group, and all lines of the group.
Work == IF temp = Output THEN out ELSE IF pc = "round" THEN <<>> ELSE text[temp]
InGroupNow == Range(Work) \cup Range(saved) \cup Contents(fps)

GroupRight ==
  pc \in InGroup =>
    /\ MergeRight(Work, saved, fps)
    /\ pc \in {"round", "mergefps"} /\ job.unique /\ saved = <<>> => Work = <<>>

\* The places of the array that are merged in this round, or are still to be.
Others == 1..(i - 1) \cup ((IF pc = "merge" THEN i - 1 ELSE i) * NMERGE + 1)..Len(files)
InOthers == UNION {Range(text[files[p]]) : p \in Others}

\* Of equal lines those of earlier places come first; the group is between them.
RoundRight ==
  pc \in Merging =>
    /\ \A p \in Others : Ordered(text[files[p]])
    /\ \A p, q \in Others : p < q => Apart(Range(text[files[p]]), Range(text[files[q]]))
    /\ pc = "merge" => Wanted \subseteq InOthers
    /\ pc \in InGroup =>
         /\ \A p \in Others : p < i => Apart(Range(text[files[p]]), InGroupNow)
         /\ \A p \in Others : i < p => Apart(InGroupNow, Range(text[files[p]]))
         /\ Wanted \subseteq InGroupNow \cup InOthers
         /\ \A p \in Others : files[p] # temp
    /\ pc \in {"merge", "round"} \/ temp # Output => out = <<>>

EndsRight ==
  pc \in {"end", "success"} => Ordered(out) /\ Once(out) /\ Wanted \subseteq Range(out)

Begins == pc \in {"main", "copy"} => out = <<>>

Arranges == Begins /\ SortsRight /\ GroupRight /\ RoundRight /\ EndsRight

------------------------------------------------------------------------------
(* mergefps () keeps the order                                             *)

LEMMA InContents ==
  ASSUME NEW ss, NEW l
  PROVE  l \in Contents(ss) <=> \E k \in DOMAIN ss : l \in Range(ss[k])
BY DEF Contents

\* A line that comes after all others is added at the end.
LEMMA Added ==
  ASSUME NEW w \in Seq(AllLines), NEW s \in Seq(AllLines), Len(s) <= 1, Ordered(w), Once(w),
         \A a \in Range(w), b \in Range(s) : InOrder(a, b) /\ (job.unique => a.key # b.key)
  PROVE  /\ w \o s \in Seq(AllLines) /\ Ordered(w \o s) /\ Once(w \o s)
         /\ Range(w \o s) = Range(w) \cup Range(s)
<1> DEFINE n == Len(w)
           m == Len(s)
           r == w \o s
<1>1. /\ n \in Nat /\ m \in 0..1 /\ DOMAIN w = 1..n /\ DOMAIN s = 1..m
      /\ r \in Seq(AllLines) /\ Len(r) = n + m /\ DOMAIN r = 1..(n + m)
  <2>1. m \in Nat /\ m <= 1
    OBVIOUS
  <2>2. m \in 0..1
    <3> HIDE DEF m
    <3> QED BY <2>1
  <2>3. /\ n \in Nat /\ DOMAIN w = 1..n /\ DOMAIN s = 1..m
        /\ r \in Seq(AllLines) /\ Len(r) = n + m /\ DOMAIN r = 1..(n + m)
    OBVIOUS
  <2> QED BY <2>2, <2>3
<1>2. \A k \in 1..(n + m) : r[k] = IF k <= n THEN w[k] ELSE s[k - n]
  OBVIOUS
<1> HIDE DEF n, m, r
<1>3. \A k \in 1..(n + m) : \/ k \in 1..n /\ r[k] = w[k]
                            \/ k = n + 1 /\ m = 1 /\ r[k] = s[1]
  <2> SUFFICES ASSUME NEW k \in 1..(n + m)
               PROVE  \/ k \in 1..n /\ r[k] = w[k]
                      \/ k = n + 1 /\ m = 1 /\ r[k] = s[1]
    OBVIOUS
  <2>1. CASE k <= n
    BY <1>1, <1>2, <2>1
  <2>2. CASE ~(k <= n)
    <3>1. k = n + 1 /\ m = 1 /\ k - n = 1
      BY <1>1, <2>2
    <3> QED BY <1>2, <2>2, <3>1
  <2> QED BY <2>1, <2>2
<1>4. /\ \A k \in 1..n : w[k] \in Range(w) /\ k \in 1..(n + m) /\ r[k] = w[k]
      /\ m = 1 => s[1] \in Range(s) /\ n + 1 \in 1..(n + m) /\ r[n + 1] = s[1]
  <2>1. \A k \in 1..n : w[k] \in Range(w)
    BY <1>1 DEF Range
  <2>2. m = 1 => s[1] \in Range(s)
    BY <1>1 DEF Range
  <2>3. \A k \in 1..n : k \in 1..(n + m) /\ r[k] = w[k]
    BY <1>1, <1>2
  <2>4. m = 1 => n + 1 \in 1..(n + m) /\ r[n + 1] = s[1]
    <3>1. m = 1 => n + 1 \in 1..(n + m) /\ ~(n + 1 \in 1..n)
      BY <1>1
    <3> QED BY <1>3, <3>1
  <2> QED BY <2>1, <2>2, <2>3, <2>4
<1>5. Range(r) = Range(w) \cup Range(s)
  <2>1. \A l : l \in Range(r) <=> \E k \in 1..(n + m) : r[k] = l
    BY <1>1 DEF Range
  <2>2. \A l : l \in Range(w) <=> \E k \in 1..n : w[k] = l
    BY <1>1 DEF Range
  <2>3. \A l : l \in Range(s) <=> m = 1 /\ s[1] = l
    <3>1. \A l : l \in Range(s) <=> \E k \in 1..m : s[k] = l
      BY <1>1 DEF Range
    <3>2. \A k \in 1..m : k = 1 /\ m = 1
      BY <1>1
    <3>3. m = 1 => 1 \in 1..m
      OBVIOUS
    <3> QED BY <3>1, <3>2, <3>3
  <2> QED BY <1>3, <1>4, <2>1, <2>2, <2>3
<1>6. \A j, k \in 1..n : /\ j < k => InOrder(w[j], w[k])
                         /\ job.unique /\ j # k => w[j].key # w[k].key
  BY DEF Ordered, Once, n
<1>7. Ordered(r)
  <2> SUFFICES ASSUME NEW j \in 1..(n + m), NEW k \in 1..(n + m), j < k
               PROVE  InOrder(r[j], r[k])
    <3>1. Len(r) = n + m
      BY <1>1
    <3> QED BY <3>1 DEF Ordered
  <2>1. j \in 1..n /\ r[j] = w[j] /\ w[j] \in Range(w)
    <3>1. j # n + 1
      BY <1>1
    <3> QED BY <1>3, <1>4, <3>1
  <2>2. CASE k \in 1..n
    BY <1>4, <1>6, <2>1, <2>2
  <2>3. CASE k = n + 1 /\ m = 1 /\ r[k] = s[1]
    BY <1>4, <2>1, <2>3
  <2> QED BY <1>3, <2>2, <2>3
<1>8. Once(r)
  <2> SUFFICES ASSUME job.unique, NEW j \in 1..(n + m), NEW k \in 1..(n + m), j # k
               PROVE  r[j].key # r[k].key
    <3>1. Len(r) = n + m
      BY <1>1
    <3> QED BY <3>1 DEF Once
  <2>1. CASE j \in 1..n /\ k \in 1..n
    BY <1>4, <1>6, <2>1
  <2>2. CASE j \in 1..n /\ k = n + 1 /\ m = 1 /\ r[k] = s[1]
    BY <1>4, <2>2
  <2>3. CASE k \in 1..n /\ j = n + 1 /\ m = 1 /\ r[j] = s[1]
    BY <1>4, <2>3
  <2> QED BY <1>3, <2>1, <2>2, <2>3
<1> QED BY <1>1, <1>5, <1>7, <1>8 DEF r

\* The head of a file.
LEMMA HeadFirst ==
  ASSUME job \in Jobs, NEW s \in Seq(AllLines) \ {<<>>}, Ordered(s)
  PROVE  /\ s[1] \in AllLines /\ s[1] \in Range(s)
         /\ Tail(s) \in Seq(AllLines) /\ Ordered(Tail(s)) /\ Range(Tail(s)) \subseteq Range(s)
         /\ Range(s) \subseteq AllLines
         /\ \A l \in Range(s) : l = s[1] \/ (InOrder(s[1], l) /\ l \in Range(Tail(s)))
         /\ \A l \in Range(Tail(s)) : InOrder(s[1], l)
<1> DEFINE n == Len(s)
           r == Tail(s)
<1>1. /\ n \in Nat \ {0} /\ DOMAIN s = 1..n /\ \A k \in 1..n : s[k] \in AllLines
      /\ r \in Seq(AllLines) /\ Len(r) = n - 1 /\ DOMAIN r = 1..(n - 1)
  OBVIOUS
<1>2. \A k \in 1..(n - 1) : r[k] = s[k + 1]
  OBVIOUS
<1>3. \A j, k \in 1..n : j < k => InOrder(s[j], s[k])
  BY DEF Ordered
<1>4. Len(r) = n - 1
  BY <1>1
<1> HIDE DEF n, r
<1>5. 1 \in 1..n /\ \A k \in 1..(n - 1) : k + 1 \in 1..n /\ 1 < k + 1
  BY <1>1
<1>6. \A l : /\ l \in Range(s) <=> \E k \in 1..n : s[k] = l
             /\ l \in Range(r) <=> \E k \in 1..(n - 1) : r[k] = l
  BY <1>1 DEF Range
<1>7. \A k \in 1..n : k = 1 \/ (k - 1 \in 1..(n - 1) /\ (k - 1) + 1 = k)
  BY <1>1
<1>8. Ordered(r)
  <2> SUFFICES ASSUME NEW j \in 1..(n - 1), NEW k \in 1..(n - 1), j < k
               PROVE  InOrder(r[j], r[k])
    BY <1>4 DEF Ordered
  <2>1. j + 1 < k + 1
    OBVIOUS
  <2> QED BY <1>2, <1>3, <1>5, <2>1
<1>9. Range(r) \subseteq Range(s) /\ \A l \in Range(r) : InOrder(s[1], l)
  BY <1>2, <1>3, <1>5, <1>6
<1>10. Range(s) \subseteq AllLines /\ s[1] \in Range(s)
  BY <1>1, <1>5, <1>6
<1>11. ASSUME NEW l \in Range(s) PROVE l = s[1] \/ (InOrder(s[1], l) /\ l \in Range(r))
  <2>1. PICK k \in 1..n : s[k] = l
    BY <1>6
  <2>2. CASE k = 1
    BY <2>1, <2>2
  <2>3. CASE k # 1
    <3>1. k - 1 \in 1..(n - 1) /\ (k - 1) + 1 = k
      BY <1>7, <2>3
    <3>2. r[k - 1] = l
      BY <1>2, <2>1, <3>1
    <3> QED BY <1>6, <1>9, <3>1, <3>2
  <2> QED BY <2>2, <2>3
<1> QED BY <1>1, <1>5, <1>8, <1>9, <1>10, <1>11 DEF r

\* The files that are left when the head of file f is taken, and which they were.
After(fs, f, gs) ==
  \/ /\ Len(gs) = Len(fs) /\ gs[f] = Tail(fs[f])
     /\ \A k \in 1..Len(fs) : k # f => gs[k] = fs[k]
  \/ /\ Tail(fs[f]) = <<>> /\ Len(gs) = Len(fs) - 1
     /\ \A k \in 1..(Len(fs) - 1) : gs[k] = fs[IF k < f THEN k ELSE k + 1]

\* The files of gs are those of fs at the places g.
TakenFrom(fs, f, gs, g) ==
  /\ \A j, k \in 1..Len(gs) : j < k => g[j] < g[k]
  /\ \A k \in 1..Len(gs) : gs[k] = IF g[k] = f THEN Tail(fs[f]) ELSE fs[g[k]]
  /\ \A k \in 1..Len(fs) : (k = f /\ Tail(fs[f]) = <<>>) \/ \E j \in 1..Len(gs) : g[j] = k

LEMMA AfterIs ==
  ASSUME NEW n \in Nat \ {0}, NEW fs, NEW gs, NEW f \in 1..n, Len(fs) = n, After(fs, f, gs)
  PROVE  /\ Len(gs) \in Nat
         /\ \E g \in [1..Len(gs) -> 1..n] : TakenFrom(fs, f, gs, g)
<1>1. CASE /\ Len(gs) = n /\ gs[f] = Tail(fs[f])
           /\ \A k \in 1..n : k # f => gs[k] = fs[k]
  <2> DEFINE g == [k \in 1..n |-> k]
  <2>1. g \in [1..n -> 1..n] /\ \A k \in 1..n : g[k] = k
    OBVIOUS
  <2> HIDE DEF g
  <2>2. \A j, k \in 1..n : j < k => g[j] < g[k]
    BY <2>1
  <2>3. \A k \in 1..n : gs[k] = IF g[k] = f THEN Tail(fs[f]) ELSE fs[g[k]]
    BY <1>1, <2>1
  <2>4. \A k \in 1..n : \E j \in 1..n : g[j] = k
    BY <2>1
  <2>5. TakenFrom(fs, f, gs, g)
    BY <1>1, <2>2, <2>3, <2>4 DEF TakenFrom
  <2> QED BY <1>1, <2>1, <2>5
<1>2. CASE /\ Tail(fs[f]) = <<>> /\ Len(gs) = n - 1
           /\ \A k \in 1..(n - 1) : gs[k] = fs[IF k < f THEN k ELSE k + 1]
  <2> DEFINE g == [k \in 1..(n - 1) |-> IF k < f THEN k ELSE k + 1]
  <2>1. \A k \in 1..(n - 1) : /\ g[k] = (IF k < f THEN k ELSE k + 1)
                              /\ k \in 1..n /\ k + 1 \in 1..n /\ k \in Int /\ f \in Int
    OBVIOUS
  <2>2. g \in [1..(n - 1) -> 1..n]
    BY <2>1
  <2> HIDE DEF g
  <2>3. \A j, k \in 1..(n - 1) : j < k => g[j] < g[k]
    BY <2>1
  <2>4. \A k \in 1..(n - 1) : g[k] # f
    BY <2>1
  <2>5. \A k \in 1..(n - 1) : gs[k] = IF g[k] = f THEN Tail(fs[f]) ELSE fs[g[k]]
    BY <1>2, <2>1, <2>4
  <2>6. ASSUME NEW k \in 1..n PROVE k = f \/ \E j \in 1..(n - 1) : g[j] = k
    <3>1. CASE k < f
      <4>1. k \in 1..(n - 1)
        BY <3>1
      <4> QED BY <2>1, <3>1, <4>1
    <3>2. CASE k > f
      <4>1. k - 1 \in 1..(n - 1) /\ ~(k - 1 < f) /\ (k - 1) + 1 = k
        BY <3>2
      <4> QED BY <2>1, <4>1
    <3> QED BY <3>1, <3>2
  <2>7. n - 1 \in Nat
    OBVIOUS
  <2>8. TakenFrom(fs, f, gs, g)
    BY <1>2, <2>3, <2>5, <2>6 DEF TakenFrom
  <2> QED BY <1>2, <2>2, <2>7, <2>8
<1> QED BY <1>1, <1>2 DEF After

\* The head that is first in the order comes before all lines that are left.
LEMMA FirstLine ==
  ASSUME job \in Jobs, NEW fs \in Seq(Seq(AllLines) \ {<<>>}), NEW f \in 1..Len(fs), NEW gs,
         DOMAIN gs = 1..Len(gs),
         \A k \in DOMAIN fs : Ordered(fs[k]),
         \A j, k \in DOMAIN fs : j < k => Apart(Range(fs[j]), Range(fs[k])),
         \A k \in 1..Len(fs) : k # f => HeadBefore(fs, f, k),
         After(fs, f, gs)
  PROVE  LET line == fs[f][1]
         IN /\ line \in AllLines /\ line \in Contents(fs)
            /\ Contents(fs) \subseteq AllLines
            /\ Contents(fs) = Contents(gs) \cup {line}
            /\ \A l \in Contents(gs) : InOrder(line, l)
            /\ \A k \in DOMAIN gs : Ordered(gs[k])
            /\ \A j, k \in DOMAIN gs : j < k => Apart(Range(gs[j]), Range(gs[k]))
<1> DEFINE n == Len(fs)
           line == fs[f][1]
<1>1. /\ n \in Nat \ {0} /\ DOMAIN fs = 1..n
      /\ \A k \in 1..n : fs[k] \in Seq(AllLines) \ {<<>>} /\ fs[k][1].key \in Int
  BY Heads
<1>2. \A k \in 1..n : Ordered(fs[k])
  BY <1>1
<1>3. \A k \in 1..n : /\ fs[k][1] \in AllLines /\ fs[k][1] \in Range(fs[k])
                      /\ Tail(fs[k]) \in Seq(AllLines) /\ Ordered(Tail(fs[k]))
                      /\ Range(Tail(fs[k])) \subseteq Range(fs[k])
                      /\ Range(fs[k]) \subseteq AllLines
                      /\ \A l \in Range(fs[k]) :
                           l = fs[k][1] \/ (InOrder(fs[k][1], l) /\ l \in Range(Tail(fs[k])))
                      /\ \A l \in Range(Tail(fs[k])) : InOrder(fs[k][1], l)
  BY <1>1, <1>2, HeadFirst
<1>14. PICK g \in [1..Len(gs) -> 1..n] : TakenFrom(fs, f, gs, g)
  <2>1. f \in 1..n /\ Len(fs) = n /\ n \in Nat \ {0} /\ After(fs, f, gs)
    BY <1>1
  <2> HIDE DEF n
  <2> QED BY <2>1, AfterIs
<1>4. /\ \A j, k \in 1..Len(gs) : j < k => g[j] < g[k]
      /\ \A k \in 1..Len(gs) : gs[k] = IF g[k] = f THEN Tail(fs[f]) ELSE fs[g[k]]
      /\ \A k \in 1..n : (k = f /\ Tail(fs[f]) = <<>>) \/ \E j \in 1..Len(gs) : g[j] = k
  BY <1>14 DEF TakenFrom
<1> HIDE DEF n
<1>5. f \in 1..n
  BY DEF n
<1>6. \A k \in 1..Len(gs) : g[k] \in 1..n
  BY <1>14
<1>7. \A k \in 1..Len(gs) : Ordered(gs[k]) /\ Range(gs[k]) \subseteq Range(fs[g[k]])
  <2> SUFFICES ASSUME NEW k \in 1..Len(gs)
               PROVE  Ordered(gs[k]) /\ Range(gs[k]) \subseteq Range(fs[g[k]])
    OBVIOUS
  <2>1. g[k] \in 1..n /\ gs[k] = IF g[k] = f THEN Tail(fs[f]) ELSE fs[g[k]]
    BY <1>4, <1>6
  <2> QED BY <1>2, <1>3, <1>5, <2>1
<1>8. \A j, k \in 1..Len(gs) : j < k => Apart(Range(gs[j]), Range(gs[k]))
  <2> SUFFICES ASSUME NEW j \in 1..Len(gs), NEW k \in 1..Len(gs), j < k
               PROVE  Apart(Range(gs[j]), Range(gs[k]))
    OBVIOUS
  <2>1. Apart(Range(fs[g[j]]), Range(fs[g[k]]))
    BY <1>1, <1>4, <1>6
  <2> QED BY <1>7, <2>1 DEF Apart
<1>9. \A l : /\ l \in Contents(fs) <=> \E k \in 1..n : l \in Range(fs[k])
             /\ l \in Contents(gs) <=> \E k \in 1..Len(gs) : l \in Range(gs[k])
  BY <1>1, InContents
<1>10. line \in AllLines /\ line \in Contents(fs) /\ Contents(fs) \subseteq AllLines
  BY <1>3, <1>5, <1>9
<1>11. Contents(gs) \subseteq Contents(fs)
  BY <1>6, <1>7, <1>9
<1>12. ASSUME NEW l \in Contents(fs), l # line PROVE l \in Contents(gs)
  <2>1. PICK k \in 1..n : l \in Range(fs[k])
    BY <1>9
  <2>2. CASE k = f
    <3>1. l \in Range(Tail(fs[f]))
      BY <1>3, <1>12, <2>1, <2>2
    <3>2. Tail(fs[f]) # <<>>
      <4>1. Range(<<>>) = {}
        BY DEF Range
      <4> QED BY <3>1, <4>1
    <3>3. PICK j \in 1..Len(gs) : g[j] = f
      BY <1>4, <1>5, <3>2
    <3>4. gs[j] = Tail(fs[f])
      BY <1>4, <3>3
    <3> QED BY <1>9, <3>1, <3>4
  <2>3. CASE k # f
    <3>1. PICK j \in 1..Len(gs) : g[j] = k
      BY <1>4, <2>3
    <3>2. gs[j] = fs[k]
      BY <1>4, <2>3, <3>1
    <3> QED BY <1>9, <2>1, <3>2
  <2> QED BY <2>2, <2>3
<1>13. ASSUME NEW l \in Contents(gs) PROVE InOrder(line, l)
  <2>1. PICK j \in 1..Len(gs) : l \in Range(gs[j])
    BY <1>9
  <2>2. CASE g[j] = f
    <3>1. gs[j] = Tail(fs[f])
      BY <1>4, <2>2
    <3> QED BY <1>3, <1>5, <2>1, <3>1
  <2>3. CASE g[j] # f
    <3> DEFINE k == g[j]
    <3>1. k \in 1..n /\ gs[j] = fs[k] /\ k # f
      BY <1>4, <1>6, <2>3
    <3> HIDE DEF k
    <3>2. l \in Range(fs[k]) /\ l \in AllLines /\ fs[k][1] \in AllLines /\ line \in AllLines
          /\ line \in Range(fs[f])
      BY <1>3, <1>5, <2>1, <3>1
    <3>3. l = fs[k][1] \/ InOrder(fs[k][1], l)
      BY <1>3, <3>1, <3>2
    <3>4. line.key < fs[k][1].key \/ (line.key = fs[k][1].key /\ f < k)
      <4>1. HeadBefore(fs, f, k)
        BY <3>1 DEF n
      <4> QED BY <4>1 DEF HeadBefore, Before
    <3>5. line.key \in Int /\ l.key \in Int /\ fs[k][1].key \in Int /\ fs[k][1].key <= l.key
      <4>1. fs[k][1].key \in Int /\ l.key \in Int /\ (InOrder(fs[k][1], l) => fs[k][1].key <= l.key)
        BY <3>2, LineOrderIs
      <4>2. line.key \in Int
        BY <3>2, LineOrderIs
      <4> QED BY <3>3, <4>1, <4>2
    <3>6. CASE line.key < l.key
      BY <3>2, <3>6, LineOrderIs
    <3>7. CASE ~(line.key < l.key)
      <4> DEFINE a == line.key
                 b == l.key
                 c == fs[k][1].key
      <4>1. a \in Int /\ b \in Int /\ c \in Int /\ c <= b /\ (a < c \/ (a = c /\ f < k)) /\ ~(a < b)
        BY <3>4, <3>5, <3>7
      <4> HIDE DEF a, b, c
      <4>2. a = b /\ f < k
        BY <4>1
      <4>3. Apart(Range(fs[f]), Range(fs[k]))
        BY <1>1, <1>5, <3>1, <4>2
      <4>4. line.key = l.key
        BY <4>2 DEF a, b
      <4> QED BY <3>2, <4>3, <4>4 DEF Apart
    <3> QED BY <3>6, <3>7
  <2> QED BY <2>2, <2>3
<1> QED BY <1>7, <1>8, <1>10, <1>11, <1>12, <1>13

LEMMA SeqRange ==
  ASSUME NEW D, NEW s \in Seq(D)
  PROVE  /\ Range(s) \subseteq D
         /\ \A k \in 1..Len(s) : s[k] \in Range(s)
         /\ \A x : x \in Range(s) <=> \E k \in 1..Len(s) : s[k] = x
<1>1. DOMAIN s = 1..Len(s) /\ \A k \in 1..Len(s) : s[k] \in D
  OBVIOUS
<1> QED BY <1>1 DEF Range

\* A sequence of at most one element.
LEMMA AtMostOne ==
  ASSUME NEW D, NEW s \in Seq(D), Len(s) <= 1
  PROVE  IF s = <<>> THEN Range(s) = {} ELSE s[1] \in D /\ Range(s) = {s[1]}
<1>1. CASE s = <<>>
  <2>1. Range(<<>>) = {}
    BY DEF Range
  <2> QED BY <1>1, <2>1
<1>2. CASE s # <<>>
  <2>1. Len(s) = 1 /\ s[1] \in D
    <3> DEFINE n == Len(s)
    <3>1. n \in Nat /\ n # 0 /\ n <= 1 /\ \A k \in 1..n : s[k] \in D
      BY <1>2
    <3> HIDE DEF n
    <3>2. n = 1 /\ 1 \in 1..n
      BY <3>1
    <3> QED BY <3>1, <3>2 DEF n
  <2>2. \A k \in 1..Len(s) : k = 1
    BY <2>1
  <2>3. 1 \in 1..Len(s)
    BY <2>1
  <2>4. Range(s) = {s[1]}
    <3>1. \A x : x \in Range(s) <=> \E k \in 1..Len(s) : s[k] = x
      BY SeqRange
    <3> QED BY <2>2, <2>3, <3>1
  <2> QED BY <1>2, <2>1, <2>4
<1> QED BY <1>1, <1>2

\* WriteFirst: x is written and z saved after the line is taken.
Takes(w, s, line, x, z) ==
  IF ~job.unique THEN x = w \o <<line>> /\ z = s
  ELSE IF s # <<>> /\ s[1].key = line.key THEN x = w /\ z = s
  ELSE x = w \o s /\ z = <<line>>

\* No wanted line is lost, and none comes in.
KeepsLines(w, s, fs, x, z, gs) ==
  /\ Range(x) \cup Range(z) \cup Contents(gs) \subseteq Range(w) \cup Range(s) \cup Contents(fs)
  /\ Wanted \cap (Range(w) \cup Range(s) \cup Contents(fs))
       \subseteq Range(x) \cup Range(z) \cup Contents(gs)

\* One line is taken: x is written then, z is saved, and gs are left.
LEMMA MergeStep ==
  ASSUME job \in Jobs, NEW w \in Seq(AllLines), NEW s \in Seq(AllLines), Len(s) <= 1,
         NEW fs \in Seq(Seq(AllLines) \ {<<>>}), NEW f \in 1..Len(fs),
         NEW gs, DOMAIN gs = 1..Len(gs), After(fs, f, gs),
         \A k \in 1..Len(fs) : k # f => HeadBefore(fs, f, k),
         MergeRight(w, s, fs), job.unique /\ s = <<>> => w = <<>>,
         NEW x, NEW z, Takes(w, s, fs[f][1], x, z)
  PROVE  MergeRight(x, z, gs) /\ (job.unique => z # <<>>) /\ KeepsLines(w, s, fs, x, z, gs)
<1> DEFINE line == fs[f][1]
<1>1. /\ Ordered(w) /\ Once(w)
      /\ ~job.unique => s = <<>>
      /\ \A a \in Range(w), b \in Range(s) : InOrder(a, b) /\ a.key # b.key
      /\ \A k \in DOMAIN fs : Ordered(fs[k])
      /\ \A j, k \in DOMAIN fs : j < k => Apart(Range(fs[j]), Range(fs[k]))
      /\ \A a \in Range(w) \cup Range(s), b \in Contents(fs) : InOrder(a, b)
  BY DEF MergeRight
<1>2. /\ line \in AllLines /\ line \in Contents(fs)
      /\ Contents(fs) \subseteq AllLines
      /\ Contents(fs) = Contents(gs) \cup {line}
      /\ \A l \in Contents(gs) : InOrder(line, l)
      /\ \A k \in DOMAIN gs : Ordered(gs[k])
      /\ \A j, k \in DOMAIN gs : j < k => Apart(Range(gs[j]), Range(gs[k]))
  BY <1>1, FirstLine
<1>9. Takes(w, s, line, x, z)
  OBVIOUS
<1> HIDE DEF line
<1>3. Range(w) \subseteq AllLines /\ Range(s) \subseteq AllLines
      /\ IF s = <<>> THEN Range(s) = {} ELSE s[1] \in AllLines /\ Range(s) = {s[1]}
  BY SeqRange, AtMostOne
<1> DEFINE u == <<line>>
<1>4. u \in Seq(AllLines) /\ Len(u) <= 1 /\ Range(u) = {line} /\ u # <<>>
  <2>1. u \in Seq(AllLines) /\ Len(u) = 1 /\ u[1] = line /\ u # <<>>
    BY <1>2
  <2> HIDE DEF u
  <2>2. Len(u) <= 1
    BY <2>1
  <2>3. Range(u) = {u[1]}
    BY <2>1, <2>2, AtMostOne
  <2> QED BY <2>1, <2>2, <2>3
<1>8. IF ~job.unique THEN x = w \o u /\ z = s
      ELSE IF s # <<>> /\ s[1].key = line.key THEN x = w /\ z = s
      ELSE x = w \o s /\ z = u
  BY <1>9 DEF Takes
<1> HIDE DEF u
<1>5. CASE ~job.unique
  <2>1. x = w \o u /\ z = <<>> /\ s = <<>> /\ Range(s) = {}
    BY <1>1, <1>3, <1>5, <1>8
  <2>2. \A a \in Range(w), b \in Range(u) : InOrder(a, b) /\ (job.unique => a.key # b.key)
    BY <1>1, <1>2, <1>4, <1>5
  <2>3. Ordered(x) /\ Once(x) /\ Range(x) = Range(w) \cup {line}
    BY <1>1, <1>4, <2>1, <2>2, Added
  <2>4. \A a \in Range(x), b \in Contents(gs) : InOrder(a, b)
    BY <1>1, <1>2, <2>3
  <2>5. MergeRight(x, z, gs)
    BY <1>2, <2>1, <2>3, <2>4 DEF MergeRight
  <2> QED BY <1>2, <1>5, <2>1, <2>3, <2>5 DEF KeepsLines
<1>6. CASE job.unique /\ s # <<>> /\ s[1].key = line.key
  <2>1. x = w /\ z = s
    BY <1>6, <1>8
  <2>2. MergeRight(x, z, gs)
    BY <1>1, <1>2, <2>1 DEF MergeRight
  <2>3. line \notin Wanted
    <3>1. s[1] \in Range(s) /\ s[1] \in AllLines /\ InOrder(s[1], line)
      BY <1>1, <1>2, <1>3, <1>6
    <3>2. ~InOrder(line, s[1]) /\ line # s[1]
      BY <1>2, <3>1, LineOrder
    <3> QED BY <1>6, <3>1, <3>2 DEF Wanted
  <2> QED BY <1>2, <1>6, <2>1, <2>2, <2>3 DEF KeepsLines
<1>7. CASE job.unique /\ ~(s # <<>> /\ s[1].key = line.key)
  <2>1. x = w \o s /\ z = u
    BY <1>7, <1>8
  <2>2. \A a \in Range(w), b \in Range(s) : InOrder(a, b) /\ (job.unique => a.key # b.key)
    BY <1>1
  <2>3. Ordered(x) /\ Once(x) /\ Range(x) = Range(w) \cup Range(s)
    BY <1>1, <2>1, <2>2, Added
  <2>4. \A a \in Range(x), b \in Contents(fs) : InOrder(a, b)
    BY <1>1, <2>3
  <2>5. ASSUME NEW a \in Range(x) PROVE a.key # line.key
    <3>1. s # <<>>
      BY <1>3, <1>7, <2>3, SeqRange
    <3>2. s[1].key # line.key /\ s[1] \in AllLines /\ Range(s) = {s[1]}
      BY <1>3, <1>7, <3>1
    <3>3. CASE a \in Range(s)
      BY <3>2, <3>3
    <3>4. CASE a \in Range(w)
      <4>1. InOrder(a, s[1]) /\ a.key # s[1].key /\ a \in AllLines /\ InOrder(s[1], line)
        BY <1>1, <1>2, <1>3, <3>2, <3>4
      <4>2. /\ a.key \in Int /\ s[1].key \in Int /\ line.key \in Int
            /\ a.key <= s[1].key /\ s[1].key <= line.key
        BY <1>2, <3>2, <4>1, LineOrderIs
      <4> DEFINE p == a.key
                 q == s[1].key
                 r == line.key
      <4>3. p \in Int /\ q \in Int /\ r \in Int /\ p <= q /\ q <= r /\ p # q
        BY <4>1, <4>2
      <4> HIDE DEF p, q, r
      <4>4. p # r
        BY <4>3
      <4> QED BY <4>4 DEF p, r
    <3> QED BY <2>3, <3>3, <3>4
  <2>6. \A a \in Range(x), b \in Range(z) : InOrder(a, b) /\ a.key # b.key
    BY <1>2, <1>4, <2>1, <2>4, <2>5
  <2>7. \A a \in Range(x) \cup Range(z), b \in Contents(gs) : InOrder(a, b)
    BY <1>2, <1>4, <2>1, <2>4
  <2>8. MergeRight(x, z, gs)
    BY <1>2, <1>7, <2>3, <2>6, <2>7 DEF MergeRight
  <2> QED BY <1>2, <1>4, <2>1, <2>3, <2>8 DEF KeepsLines
<1> QED BY <1>5, <1>6, <1>7

------------------------------------------------------------------------------
(* sort () keeps the order                                                 *)

LEMMA SortsFrom ==
  ASSUME pc' \in Sorting, job' = job,
         \A k \in DOMAIN Chunks' : Ordered(Chunks'[k]),
         \A j, k \in DOMAIN Chunks' : j < k => Apart(Range(Chunks'[k]), Range(Chunks'[j])),
         Apart(Contents(Chunks'), InHand'),
         pc' \in {"direct", "chunk", "chunk_write"} => Ordered(buf') /\ Once(buf') /\ out' = <<>>,
         pc' = "direct" => n_temp_files' = 0 /\ Unread' = {},
         NEW H, H = Contents(Chunks') \cup InHand' \cup Range(out'),
         Apart(H, Unread'), Wanted \subseteq H \cup Unread',
         Ordered(out'), Once(out'),
         out' # <<>> => n_temp_files' = 0 /\ Unread' = {}
  PROVE  Arranges'
<1>1. Held' = H /\ Wanted' = Wanted
  BY SameJob DEF Held
<1>2. Once(buf)' = Once(buf') /\ Once(out)' = Once(out') /\ Ordered(buf)' = Ordered(buf')
      /\ Ordered(out)' = Ordered(out')
  BY DEF Once, Ordered
<1>3. SortsRight'
  BY <1>1, <1>2 DEF SortsRight
<1>4. Begins' /\ GroupRight' /\ RoundRight' /\ EndsRight'
  BY DEF Begins, GroupRight, RoundRight, EndsRight, Sorting, InGroup, Merging
<1> QED BY <1>3, <1>4 DEF Arranges

LEMMA KeptChunks ==
  ASSUME UNCHANGED <<text, temphead, n_temp_files, buf>>, pc # "chunk_write", pc' # "chunk_write"
  PROVE  Chunks' = Chunks
BY DEF Chunks

LEMMA NoLines == Ordered(<<>>) /\ Once(<<>>) /\ Range(<<>>) = {} /\ Contents(<<>>) = {}
<1>1. Len(<<>>) = 0
  OBVIOUS
<1>2. 1..0 = {}
  OBVIOUS
<1> QED BY <1>1, <1>2 DEF Ordered, Once, Range, Contents

\* A round of merge () is in order if the files that it has still are.
LEMMA MergesFrom ==
  ASSUME pc' = "merge", job' = job,
         NEW P, P = 1..(i' - 1) \cup ((i' - 1) * NMERGE + 1)..Len(files'),
         NEW c, \A p \in P : text'[files'[p]] = c[p],
         \A p \in P : Ordered(c[p]),
         \A p, q \in P : p < q => Apart(Range(c[p]), Range(c[q])),
         \A l \in Wanted : \E p \in P : l \in Range(c[p]),
         out' = <<>>
  PROVE  Arranges'
<1>1. Others' = P
  BY DEF Others
<1>2. InOthers' = UNION {Range(c[p]) : p \in P}
  <2>1. InOthers' = UNION {Range(text'[files'[p]]) : p \in P}
    BY <1>1 DEF InOthers
  <2>2. \A p \in P : Range(text'[files'[p]]) = Range(c[p])
    OBVIOUS
  <2> QED BY <2>1, <2>2
<1>3. \A p \in P : Ordered(text'[files'[p]])
  OBVIOUS
<1>4. \A p, q \in P : p < q => Apart(Range(text'[files'[p]]), Range(text'[files'[q]]))
  OBVIOUS
<1>5. Wanted' \subseteq InOthers'
  BY <1>2, SameJob
<1>6. RoundRight'
  BY <1>1, <1>3, <1>4, <1>5 DEF RoundRight, InGroup
<1>7. Begins' /\ SortsRight' /\ GroupRight' /\ EndsRight'
  BY DEF Begins, SortsRight, GroupRight, EndsRight, Sorting, InGroup
<1> QED BY <1>6, <1>7 DEF Arranges

\* The first round, of n files.
LEMMA FirstRound ==
  ASSUME NEW n \in Nat
  PROVE  1..(1 - 1) \cup ((1 - 1) * NMERGE + 1)..n = 1..n
<1>1. (1 - 1) * NMERGE + 1 = 1 /\ 1 - 1 = 0
  BY NMERGEAssumption
<1>2. 1..0 = {}
  OBVIOUS
<1> QED BY <1>1, <1>2

LEMMA OpenOutputArranges ==
  ASSUME Inv, Types, Good, Arranges, OpenOutput
  PROVE  Arranges'
<1>1. /\ pc = "main" /\ pc' = (IF job.mergeonly THEN "merge" ELSE "sort") /\ i' = 1
      /\ UNCHANGED <<job, files, n_temp_files, out>>
  BY DEF OpenOutput
<1>2. job \in Jobs /\ N \in Nat /\ DOMAIN job.keys = 1..N
  BY LinesAre DEF Inv, Names
<1>3. /\ Len(files) = N /\ n_temp_files = 0 /\ out = <<>>
      /\ \A f \in 1..N : text'[files[f]] = Lines(f)
  <2>1. Len(files) = N /\ \A f \in 1..N : text[files[f]] = Lines(f)
    BY <1>1 DEF Types, Opened, Reading
  <2>2. n_temp_files = 0 /\ out = <<>>
    BY <1>1 DEF Types, Chunked, Arranges, Begins
  <2> QED BY <2>1, <2>2, OutputIsNoInput
<1>4. \A l \in AllLines : l.at[1] \in 1..N /\ l \in Range(Lines(l.at[1]))
  <2> SUFFICES ASSUME NEW l \in AllLines PROVE l.at[1] \in 1..N /\ l \in Range(Lines(l.at[1]))
    OBVIOUS
  <2>1. l.at[1] \in 1..N /\ l.at[2] \in 1..Len(Lines(l.at[1])) /\ l = Lines(l.at[1])[l.at[2]]
    BY <1>2, LineIs
  <2>2. Lines(l.at[1]) \in Seq(AllLines)
    BY <1>2, <2>1, LinesAre
  <2>3. Lines(l.at[1])[l.at[2]] \in Range(Lines(l.at[1]))
    BY <2>1, <2>2, SeqRange
  <2> QED BY <2>1, <2>3
<1>5. CASE ~job.mergeonly
  <2>1. pc' = "sort" /\ n_temp_files' = 0 /\ out' = <<>>
    BY <1>1, <1>3, <1>5
  <2>2. Chunks' = <<>>
    <3>1. 1..0 = {}
      OBVIOUS
    <3> QED BY <2>1, <3>1 DEF Chunks
  <2>3. InHand' = {}
    BY <2>1 DEF InHand
  <2>4. Contents(Chunks') = {} /\ Range(out') = {}
       /\ Ordered(out') /\ Once(out') /\ DOMAIN Chunks' = {}
    BY <2>1, <2>2, NoLines
  <2>5. Unread' = AllLines
    <3>1. AllLines' = AllLines
      BY <1>1, SameJob
    <3>2. \A l \in AllLines : l.at[1] >= 1
      BY <1>2, <1>4
    <3> QED BY <1>1, <2>1, <3>1, <3>2 DEF Unread
  <2> DEFINE H == {}
  <2>6. H = Contents(Chunks') \cup InHand' \cup Range(out')
    BY <2>3, <2>4
  <2>7. Wanted \subseteq H \cup Unread'
    BY <2>5 DEF Wanted
  <2>8. Apart(H, Unread') /\ Apart(Contents(Chunks'), InHand')
    BY <2>4 DEF Apart
  <2>9. pc' \in Sorting /\ pc' \notin {"direct", "chunk", "chunk_write"}
    BY <2>1 DEF Sorting
  <2> HIDE DEF H
  <2> QED BY <1>1, <2>1, <2>4, <2>6, <2>7, <2>8, <2>9, SortsFrom
<1>6. CASE job.mergeonly
  <2> DEFINE c == [p \in 1..N |-> Lines(p)]
             P == 1..N
  <2>1. pc' = "merge" /\ i' = 1 /\ Len(files') = N /\ out' = <<>>
    BY <1>1, <1>3, <1>6
  <2>2. P = 1..(i' - 1) \cup ((i' - 1) * NMERGE + 1)..Len(files')
    BY <1>2, <2>1, FirstRound
  <2>3. \A p \in P : text'[files'[p]] = c[p] /\ c[p] = Lines(p)
    BY <1>1, <1>3
  <2>4. \A p \in P : Ordered(c[p])
    <3> SUFFICES ASSUME NEW p \in 1..N,
                            NEW j \in 1..Len(Lines(p)), NEW k \in 1..Len(Lines(p)), j < k
                 PROVE  InOrder(Lines(p)[j], Lines(p)[k])
      BY DEF Ordered
    <3>1. /\ Lines(p)[j].at = <<p, j>> /\ Lines(p)[k].at = <<p, k>>
          /\ Lines(p)[j].key = job.keys[p][j] /\ Lines(p)[k].key = job.keys[p][k]
          /\ DOMAIN job.keys[p] = 1..Len(Lines(p)) /\ Lines(p) \in Seq(AllLines)
      BY <1>2, LinesAre
    <3> DEFINE a == Lines(p)[j]
               b == Lines(p)[k]
    <3>2. a \in AllLines /\ b \in AllLines
      BY <3>1
    <3>3. a.key <= b.key
      BY <1>2, <1>6, <3>1 DEF Good, InputsSorted
    <3>4. AtBefore(a, b)
      BY <3>1 DEF AtBefore
    <3> HIDE DEF a, b
    <3>5. a.key \in Int /\ b.key \in Int
      BY <1>2, <3>2, LineOrderIs
    <3>6. a.key < b.key \/ a.key = b.key
      BY <3>3, <3>5
    <3>7. InOrder(a, b)
      BY <1>2, <3>2, <3>4, <3>6, LineOrderIs
    <3> QED BY <3>7 DEF a, b
  <2>5. \A p, q \in P : p < q => Apart(Range(c[p]), Range(c[q]))
    <3> SUFFICES ASSUME NEW p \in 1..N, NEW q \in 1..N, p < q,
                        NEW a \in Range(Lines(p)), NEW b \in Range(Lines(q)), a.key = b.key
                 PROVE  InOrder(a, b)
      BY DEF Apart
    <3>1. a \in AllLines /\ a.at[1] = p
      <4>1. Lines(p) \in Seq(AllLines) /\ \A k \in 1..Len(Lines(p)) : Lines(p)[k].at = <<p, k>>
        BY <1>2, LinesAre
      <4>2. PICK k \in 1..Len(Lines(p)) : Lines(p)[k] = a
        BY <4>1, SeqRange
      <4> QED BY <4>1, <4>2
    <3>2. b \in AllLines /\ b.at[1] = q
      <4>1. Lines(q) \in Seq(AllLines) /\ \A k \in 1..Len(Lines(q)) : Lines(q)[k].at = <<q, k>>
        BY <1>2, LinesAre
      <4>2. PICK k \in 1..Len(Lines(q)) : Lines(q)[k] = b
        BY <4>1, SeqRange
      <4> QED BY <4>1, <4>2
    <3>3. AtBefore(a, b)
      BY <3>1, <3>2 DEF AtBefore
    <3> QED BY <1>2, <3>1, <3>2, <3>3, LineOrderIs
  <2>6. \A l \in Wanted : \E p \in P : l \in Range(c[p])
    BY <1>4, <2>3 DEF Wanted
  <2> HIDE DEF c, P
  <2>7. \A p \in P : text'[files'[p]] = c[p]
    BY <2>3
  <2>8. job' = job /\ out' = <<>> /\ pc' = "merge"
    BY <1>1, <2>1
  <2> QED BY <2>2, <2>4, <2>5, <2>6, <2>7, <2>8, MergesFrom
<1> QED BY <1>5, <1>6

\* What holds while sort () runs.
LEMMA WhileSorting ==
  ASSUME Inv, Types, Arranges, pc \in Sorting
  PROVE  /\ job \in Jobs /\ N \in Nat /\ i \in Nat \ {0} /\ Len(files) = N /\ i <= N + 1
         /\ \A k \in DOMAIN Chunks : Ordered(Chunks[k])
         /\ \A j, k \in DOMAIN Chunks : j < k => Apart(Range(Chunks[k]), Range(Chunks[j]))
         /\ Apart(Contents(Chunks), InHand)
         /\ pc \in {"direct", "chunk", "chunk_write"} => Ordered(buf) /\ Once(buf) /\ out = <<>>
         /\ pc = "direct" => n_temp_files = 0 /\ Unread = {}
         /\ Apart(Held, Unread) /\ Wanted \subseteq Held \cup Unread
         /\ Ordered(out) /\ Once(out)
         /\ out # <<>> => n_temp_files = 0 /\ Unread = {}
         /\ Held = Contents(Chunks) \cup InHand \cup Range(out)
<1>1. job \in Jobs /\ N \in Nat
  BY LinesAre DEF Inv, Names
<1>2. Len(files) = N
  BY DEF Types, Opened, Reading, Sorting
<1>3. i \in Nat \ {0} /\ i <= N + 1
  <2>1. i \in 1..(N + 1)
    BY <1>2 DEF Types, Opened
  <2> QED BY <1>1, <2>1
<1> QED BY <1>1, <1>2, <1>3 DEF Arranges, SortsRight, Held

LEMMA SortOpenArranges ==
  ASSUME Inv, Types, Good, Arranges, SortOpen
  PROVE  Arranges'
<1>1. pc = "sort" /\ i <= N /\ left' = text[files[i]] /\ pc' = "read"
      /\ UNCHANGED <<job, text, temphead, files, i, n_temp_files, buf, out>>
  BY DEF SortOpen, files_vars
<1>2. pc \in Sorting /\ pc' \in Sorting /\ pc # "chunk_write" /\ pc' # "chunk_write"
      /\ pc' \notin {"direct", "chunk", "chunk_write"}
  BY <1>1 DEF Sorting
<1>3. /\ job \in Jobs /\ N \in Nat /\ i \in 1..N
      /\ \A k \in DOMAIN Chunks : Ordered(Chunks[k])
      /\ \A j, k \in DOMAIN Chunks : j < k => Apart(Range(Chunks[k]), Range(Chunks[j]))
      /\ Apart(Contents(Chunks), InHand)
      /\ Apart(Held, Unread) /\ Wanted \subseteq Held \cup Unread
      /\ Ordered(out) /\ Once(out)
      /\ out # <<>> => n_temp_files = 0 /\ Unread = {}
      /\ Held = Contents(Chunks) \cup InHand \cup Range(out)
  BY <1>1, <1>2, WhileSorting
<1>4. Chunks' = Chunks
  BY <1>1, <1>2, KeptChunks
<1>5. InHand' = InHand
  BY <1>1 DEF InHand
<1>6. left' = Lines(i) /\ Lines(i) \in Seq(AllLines)
      /\ \A p \in 1..Len(Lines(i)) : Lines(i)[p].at = <<i, p>>
  BY <1>1, <1>3, LinesAre DEF Types, Opened, Reading
<1>7. Unread' = Unread
  <2>1. AllLines' = AllLines
    BY <1>1, SameJob
  <2>2. Unread' = {l \in AllLines : l.at[1] > i} \cup Range(Lines(i))
    BY <1>1, <1>6, <2>1 DEF Unread
  <2>3. Unread = {l \in AllLines : l.at[1] >= i}
    BY <1>1 DEF Unread
  <2>4. ASSUME NEW l \in Range(Lines(i)) PROVE l \in AllLines /\ l.at[1] = i
    <3>1. PICK p \in 1..Len(Lines(i)) : Lines(i)[p] = l
      BY <1>6, SeqRange
    <3> QED BY <1>6, <3>1
  <2>5. ASSUME NEW l \in AllLines, l.at[1] = i PROVE l \in Range(Lines(i))
    <3>1. l.at[2] \in 1..Len(Lines(i)) /\ l = Lines(i)[l.at[2]]
      BY <1>3, <2>5, LineIs
    <3> QED BY <1>6, <3>1, SeqRange
  <2>6. \A l \in AllLines : l.at[1] \in Int
    BY <1>3, LineTypes
  <2> HIDE DEF Unread
  <2>7. i \in Int
    BY <1>3
  <2>8. \A l \in AllLines : l.at[1] >= i <=> l.at[1] > i \/ l.at[1] = i
    BY <2>6, <2>7
  <2> QED BY <2>2, <2>3, <2>4, <2>5, <2>8
<1>8. out' = out /\ job' = job /\ n_temp_files' = n_temp_files
  BY <1>1
<1>9. Held = Contents(Chunks') \cup InHand' \cup Range(out')
  BY <1>3, <1>4, <1>5, <1>8
<1> QED BY <1>1, <1>2, <1>3, <1>4, <1>5, <1>7, <1>8, <1>9, SortsFrom

LEMMA ReadEndArranges ==
  ASSUME Inv, Types, Good, Arranges, ReadEnd
  PROVE  Arranges'
<1>1. pc = "read" /\ left = <<>> /\ i' = i + 1 /\ pc' = "sort"
      /\ UNCHANGED <<job, text, temphead, n_temp_files, buf, out>>
  BY DEF ReadEnd, files_vars
<1>2. pc \in Sorting /\ pc' \in Sorting /\ pc # "chunk_write" /\ pc' # "chunk_write"
      /\ pc' \notin {"direct", "chunk", "chunk_write"}
  BY <1>1 DEF Sorting
<1>3. /\ job \in Jobs /\ i \in Nat
      /\ \A k \in DOMAIN Chunks : Ordered(Chunks[k])
      /\ \A j, k \in DOMAIN Chunks : j < k => Apart(Range(Chunks[k]), Range(Chunks[j]))
      /\ Apart(Contents(Chunks), InHand)
      /\ Apart(Held, Unread) /\ Wanted \subseteq Held \cup Unread
      /\ Ordered(out) /\ Once(out)
      /\ out # <<>> => n_temp_files = 0 /\ Unread = {}
      /\ Held = Contents(Chunks) \cup InHand \cup Range(out)
  BY <1>1, <1>2, WhileSorting
<1>4. Chunks' = Chunks
  BY <1>1, <1>2, KeptChunks
<1>5. InHand' = InHand
  BY <1>1 DEF InHand
<1>6. Unread' = Unread
  <2>1. AllLines' = AllLines
    BY <1>1, SameJob
  <2>2. Unread' = {l \in AllLines : l.at[1] >= i + 1}
    BY <1>1, <2>1 DEF Unread
  <2>3. Unread = {l \in AllLines : l.at[1] > i}
    BY <1>1, NoLines DEF Unread
  <2>4. \A l \in AllLines : l.at[1] \in Int
    BY <1>3, LineTypes
  <2>5. \A l \in AllLines : l.at[1] >= i + 1 <=> l.at[1] > i
    BY <1>3, <2>4
  <2> QED BY <2>2, <2>3, <2>5
<1>7. out' = out /\ job' = job /\ n_temp_files' = n_temp_files
  BY <1>1
<1>8. Held = Contents(Chunks') \cup InHand' \cup Range(out')
  BY <1>3, <1>4, <1>5, <1>7
<1> QED BY <1>1, <1>2, <1>3, <1>4, <1>5, <1>6, <1>7, <1>8, SortsFrom

LEMMA DirectArranges ==
  ASSUME Inv, Types, Good, Arranges, Direct
  PROVE  Arranges'
<1>1. pc = "direct" /\ out' = buf /\ pc' = "read"
      /\ UNCHANGED <<job, text, temphead, i, left, n_temp_files, buf>>
  BY DEF Direct, files_vars
<1>2. pc \in Sorting /\ pc' \in Sorting /\ pc # "chunk_write" /\ pc' # "chunk_write"
      /\ pc' \notin {"direct", "chunk", "chunk_write"}
  BY <1>1 DEF Sorting
<1>3. /\ Apart(Held, Unread) /\ Wanted \subseteq Held \cup Unread
      /\ Ordered(buf) /\ Once(buf) /\ out = <<>>
      /\ n_temp_files = 0 /\ Unread = {}
      /\ Held = Contents(Chunks) \cup InHand \cup Range(out)
  BY <1>1, <1>2, WhileSorting
<1>4. Chunks' = Chunks /\ Chunks = <<>>
  <2>1. 1..0 = {}
    OBVIOUS
  <2> QED BY <1>1, <1>2, <1>3, <2>1, KeptChunks DEF Chunks
<1>5. InHand' = {} /\ InHand = Range(buf)
  BY <1>1 DEF InHand
<1>6. Unread' = Unread
  <2>1. AllLines' = AllLines
    BY <1>1, SameJob
  <2> QED BY <1>1, <2>1 DEF Unread
<1>7. Held = Contents(Chunks') \cup InHand' \cup Range(out') /\ DOMAIN Chunks' = {}
      /\ Contents(Chunks') = {}
  BY <1>1, <1>3, <1>4, <1>5, NoLines
<1>8. Apart(Contents(Chunks'), InHand')
  BY <1>7 DEF Apart
<1>9. job' = job /\ n_temp_files' = 0 /\ Unread' = {} /\ Ordered(out') /\ Once(out')
      /\ Apart(Held, Unread') /\ Wanted \subseteq Held \cup Unread'
  BY <1>1, <1>3, <1>6
<1> QED BY <1>2, <1>7, <1>8, <1>9, SortsFrom

\* What Read takes of the file in hand, r, comes before what it leaves, left'.
LEMMA ReadTakes ==
  ASSUME Inv, Types, Read
  PROVE  \E r \in Seq(AllLines) :
           /\ buf' = SortedChunk(r)
           /\ Unread = Unread' \cup Range(r) /\ Apart(Range(r), Unread')
           /\ left # <<>> /\ Range(left) \subseteq Unread
           /\ \A j, k \in 1..Len(r) : j < k => InOrder(r[j], r[k]) \/ r[j].key # r[k].key
           /\ pc' = "direct" => n_temp_files = 0 /\ Unread' = {}
<1>1. pc = "read" /\ left # <<>> /\ UNCHANGED <<job, i>>
  BY DEF Read
<1>2. job \in Jobs /\ N \in Nat /\ AllLines' = AllLines
  BY <1>1, LinesAre, SameJob DEF Inv, Names
<1>3. i \in 1..N
  <2>1. i \in 1..(N + 1) /\ i <= N
    BY <1>1 DEF Types, Opened, Reading
  <2> QED BY <1>2, <2>1
<1>4. PICK n \in 1..Len(left) :
        LET r == SubSeq(left, 1, n)
        IN /\ r \in Seq(AllLines) /\ Len(r) = n /\ \A k \in 1..n : r[k] = left[k]
           /\ buf' = SortedChunk(r)
           /\ left' \in Seq(AllLines) /\ Len(left') = Len(left) - n
           /\ \A k \in 1..(Len(left) - n) : left'[k] = left[n + k]
           /\ pc' = "chunk" \/ (pc' = "direct" /\ left' = <<>> /\ i = N /\ n_temp_files = 0)
  BY ReadIs
<1> DEFINE r == SubSeq(left, 1, n)
           L == Len(left)
           M == Len(Lines(i))
<1>5. /\ r \in Seq(AllLines) /\ Len(r) = n /\ \A k \in 1..n : r[k] = left[k]
      /\ buf' = SortedChunk(r)
      /\ left' \in Seq(AllLines) /\ Len(left') = L - n
      /\ \A k \in 1..(L - n) : left'[k] = left[n + k]
      /\ pc' = "chunk" \/ (pc' = "direct" /\ left' = <<>> /\ i = N /\ n_temp_files = 0)
  BY <1>4
<1>6. /\ left \in Seq(AllLines) /\ L \in Nat /\ n \in Int /\ 1 <= n /\ n <= L /\ M \in Nat /\ L <= M
      /\ \A k \in 1..L : left[k] = Lines(i)[(M - L) + k]
      /\ \A p \in 1..M : Lines(i)[p].at = <<i, p>>
  <2>1. left \in Seq(AllLines) /\ L <= M /\ \A k \in 1..L : left[k] = Lines(i)[(M - L) + k]
    BY <1>1 DEF Types, Chunked, Sorting
  <2>2. Lines(i) \in Seq(AllLines) /\ \A p \in 1..M : Lines(i)[p].at = <<i, p>>
    BY <1>2, <1>3, LinesAre
  <2> QED BY <2>1, <2>2
<1> HIDE DEF r, L, M
<1>7. \A k \in 1..L : left[k] \in AllLines /\ left[k].at = <<i, (M - L) + k>>
  <2>1. \A k \in 1..L : (M - L) + k \in 1..M
    BY <1>6
  <2>2. \A k \in 1..L : left[k] \in AllLines
    BY <1>6 DEF L
  <2> QED BY <1>6, <2>1, <2>2
<1>8. \A l : l \in Range(left) <=> \E k \in 1..L : left[k] = l
  BY <1>6, SeqRange DEF L
<1>9. \A l : l \in Range(r) <=> \E k \in 1..n : left[k] = l
  <2>1. r \in Seq(AllLines) /\ Len(r) = n /\ \A k \in 1..n : r[k] = left[k]
    BY <1>5
  <2>2. \A l : l \in Range(r) <=> \E k \in 1..Len(r) : r[k] = l
    BY <2>1, SeqRange
  <2>3. \A l : l \in Range(r) <=> \E k \in 1..n : r[k] = l
    BY <2>1, <2>2
  <2> QED BY <2>1, <2>3
<1>10. \A l : l \in Range(left') <=> \E k \in (n + 1)..L : left[k] = l
  <2>1. \A l : l \in Range(left') <=> \E k \in 1..(L - n) : left'[k] = l
    BY <1>5, SeqRange
  <2>2. \A k \in 1..(L - n) : n + k \in (n + 1)..L
    BY <1>6
  <2>3. \A k \in (n + 1)..L : k - n \in 1..(L - n) /\ n + (k - n) = k
    BY <1>6
  <2>4. ASSUME NEW l, NEW k \in 1..(L - n), left'[k] = l
        PROVE  \E j \in (n + 1)..L : left[j] = l
    BY <1>5, <2>2, <2>4
  <2>5. ASSUME NEW l, NEW k \in (n + 1)..L, left[k] = l
        PROVE  \E j \in 1..(L - n) : left'[j] = l
    <3>1. left'[k - n] = left[n + (k - n)]
      BY <1>5, <2>3
    <3> QED BY <2>3, <2>5, <3>1
  <2> QED BY <2>1, <2>4, <2>5
<1>11. Range(left) = Range(r) \cup Range(left')
  <2>1. \A k \in 1..L : k \in 1..n \/ k \in (n + 1)..L
    BY <1>6
  <2>2. (\A k \in 1..n : k \in 1..L) /\ (\A k \in (n + 1)..L : k \in 1..L)
    BY <1>6
  <2> QED BY <1>8, <1>9, <1>10, <2>1, <2>2
<1>12. Unread = {l \in AllLines : l.at[1] > i} \cup Range(left)
       /\ Unread' = {l \in AllLines : l.at[1] > i} \cup Range(left')
  <2>1. pc # "sort" /\ pc' # "sort"
    BY <1>1, <1>5
  <2> QED BY <1>1, <1>2, <2>1 DEF Unread
<1>13. Apart(Range(r), Unread')
  <2> SUFFICES ASSUME NEW a \in Range(r), NEW b \in Unread', a.key = b.key
               PROVE  InOrder(a, b)
    BY DEF Apart
  <2>1. PICK j \in 1..n : left[j] = a
    BY <1>9
  <2>2. j \in 1..L /\ j <= n
    BY <1>6
  <2>3. a \in AllLines /\ a.at = <<i, (M - L) + j>>
    BY <1>7, <2>1, <2>2
  <2>4. CASE b \in AllLines /\ b.at[1] > i
    <3>1. AtBefore(a, b)
      BY <2>3, <2>4 DEF AtBefore
    <3> QED BY <1>2, <2>3, <2>4, <3>1, LineOrderIs
  <2>5. CASE b \in Range(left')
    <3>1. PICK k \in (n + 1)..L : left[k] = b
      BY <1>10, <2>5
    <3>2. k \in 1..L /\ j < k
      BY <1>6, <2>2
    <3>3. b \in AllLines /\ b.at = <<i, (M - L) + k>>
      BY <1>7, <3>1, <3>2
    <3>4. (M - L) + j < (M - L) + k
      BY <1>6, <2>2, <3>2
    <3>5. AtBefore(a, b)
      BY <2>3, <3>3, <3>4 DEF AtBefore
    <3> QED BY <1>2, <2>3, <3>3, <3>5, LineOrderIs
  <2> QED BY <1>12, <2>4, <2>5
<1>14. ASSUME NEW j \in 1..Len(r), NEW k \in 1..Len(r), j < k
       PROVE  InOrder(r[j], r[k]) \/ r[j].key # r[k].key
  <2>1. j \in 1..n /\ k \in 1..n /\ r[j] = left[j] /\ r[k] = left[k]
    BY <1>5
  <2>2. j \in 1..L /\ k \in 1..L
    BY <1>6, <2>1
  <2>3. /\ r[j] \in AllLines /\ r[j].at = <<i, (M - L) + j>>
        /\ r[k] \in AllLines /\ r[k].at = <<i, (M - L) + k>>
    BY <1>7, <2>1, <2>2
  <2>4. (M - L) + j < (M - L) + k
    BY <1>6, <1>14, <2>2
  <2>5. AtBefore(r[j], r[k])
    BY <2>3, <2>4 DEF AtBefore
  <2> QED BY <1>2, <2>3, <2>5, LineOrderIs
<1>15. pc' = "direct" => n_temp_files = 0 /\ Unread' = {}
  <2> SUFFICES ASSUME pc' = "direct" PROVE n_temp_files = 0 /\ Unread' = {}
    OBVIOUS
  <2>1. left' = <<>> /\ i = N /\ n_temp_files = 0
    BY <1>5
  <2>2. \A l \in AllLines : ~(l.at[1] > i)
    <3> SUFFICES ASSUME NEW l \in AllLines PROVE ~(l.at[1] > i)
      OBVIOUS
    <3>1. l.at[1] \in 1..N
      BY <1>2, LineIs
    <3> QED BY <1>2, <2>1, <3>1
  <2> QED BY <1>12, <2>1, <2>2, NoLines
<1>16. Unread = Unread' \cup Range(r) /\ Range(left) \subseteq Unread
  BY <1>11, <1>12
<1> QED BY <1>1, <1>5, <1>13, <1>14, <1>15, <1>16

LEMMA ReadArranges ==
  ASSUME Inv, Types, Good, Arranges, Read
  PROVE  Arranges'
<1>1. pc = "read" /\ pc' \in {"direct", "chunk"}
      /\ UNCHANGED <<job, text, temphead, n_temp_files, out>>
  BY DEF Read, files_vars
<1>2. pc \in Sorting /\ pc' \in Sorting /\ pc # "chunk_write" /\ pc' # "chunk_write"
  BY <1>1 DEF Sorting
<1>3. /\ job \in Jobs
      /\ \A k \in DOMAIN Chunks : Ordered(Chunks[k])
      /\ \A j, k \in DOMAIN Chunks : j < k => Apart(Range(Chunks[k]), Range(Chunks[j]))
      /\ Apart(Held, Unread) /\ Wanted \subseteq Held \cup Unread
      /\ out # <<>> => n_temp_files = 0 /\ Unread = {}
      /\ Held = Contents(Chunks) \cup InHand \cup Range(out)
  BY <1>1, <1>2, WhileSorting
<1>4. PICK r \in Seq(AllLines) :
        /\ buf' = SortedChunk(r)
        /\ Unread = Unread' \cup Range(r) /\ Apart(Range(r), Unread')
        /\ left # <<>> /\ Range(left) \subseteq Unread
        /\ \A j, k \in 1..Len(r) : j < k => InOrder(r[j], r[k]) \/ r[j].key # r[k].key
        /\ pc' = "direct" => n_temp_files = 0 /\ Unread' = {}
  BY ReadTakes
<1>5. /\ buf' \in Seq(AllLines) /\ Ordered(buf') /\ Once(buf')
      /\ \A l \in Range(buf') : \E k \in 1..Len(r) : l = r[k]
      /\ \A k \in 1..Len(r) :
           \/ r[k] \in Range(buf')
           \/ job.unique /\ \E m \in 1..(k - 1) : r[m].key = r[k].key /\ r[m] \in Range(buf')
  BY <1>3, <1>4, ChunkIs
<1>6. Chunks' = Chunks
  BY <1>1, <1>2 DEF Chunks
<1>7. InHand = {} /\ InHand' = Range(buf')
  BY <1>1 DEF InHand
<1>8. out = <<>> /\ out' = <<>>
     /\ Range(out) = {} /\ Ordered(out') /\ Once(out') /\ Range(out') = {}
  <2>1. Range(left) # {}
    <3>1. left \in Seq(AllLines)
      BY <1>1 DEF Types, Chunked, Sorting
    <3>2. 1 \in 1..Len(left)
      BY <1>4, <3>1
    <3> QED BY <3>1, <3>2, SeqRange
  <2>2. out = <<>>
    BY <1>3, <1>4, <2>1
  <2> QED BY <1>1, <2>2, NoLines
<1>9. Range(buf') \subseteq Range(r)
  BY <1>5, SeqRange
<1> DEFINE H == Held \cup Range(buf')
<1>10. H = Contents(Chunks') \cup InHand' \cup Range(out')
  BY <1>3, <1>6, <1>7, <1>8
<1>11. Apart(Contents(Chunks'), InHand')
  BY <1>3, <1>4, <1>6, <1>7, <1>9 DEF Apart
<1>12. Apart(H, Unread')
  BY <1>3, <1>4, <1>9 DEF Apart
<1>13. Wanted \subseteq H \cup Unread'
  <2> SUFFICES ASSUME NEW l \in Wanted, l \in Range(r), l \notin Range(buf')
               PROVE  FALSE
    BY <1>3, <1>4
  <2>1. PICK k \in 1..Len(r) : r[k] = l
    BY SeqRange
  <2>2. job.unique /\ \E m \in 1..(k - 1) : r[m].key = r[k].key /\ r[m] \in Range(buf')
    BY <1>5, <2>1
  <2>3. PICK m \in 1..(k - 1) : r[m].key = r[k].key
    BY <2>2
  <2>4. m \in 1..Len(r) /\ m < k
    OBVIOUS
  <2>5. InOrder(r[m], l) /\ r[m] \in AllLines /\ l \in AllLines /\ r[m].key = l.key
    BY <1>4, <2>1, <2>3, <2>4
  <2>6. r[m] # l /\ ~InOrder(l, r[m])
    BY <1>3, <2>5, LineOrder
  <2> QED BY <2>2, <2>5, <2>6 DEF Wanted
<1>14. job' = job /\ n_temp_files' = n_temp_files
  BY <1>1
<1> HIDE DEF H
<1>15. \A k \in DOMAIN Chunks' : Ordered(Chunks'[k])
  BY <1>3, <1>6
<1>16. \A j, k \in DOMAIN Chunks' : j < k => Apart(Range(Chunks'[k]), Range(Chunks'[j]))
  BY <1>3, <1>6
<1> QED BY <1>2, <1>4, <1>5, <1>8, <1>10, <1>11, <1>12, <1>13, <1>14, <1>15, <1>16, SortsFrom

LEMMA ChunkNameArranges ==
  ASSUME Inv, Types, Good, Arranges, ChunkName
  PROVE  Arranges'
<1>1. pc = "chunk" /\ pc' = "chunk_write" /\ n_temp_files' = n_temp_files + 1 /\ tempname
      /\ UNCHANGED <<job, disk, text, i, left, buf, out>>
  BY DEF ChunkName
<1>2. pc \in Sorting /\ pc' \in Sorting
  BY <1>1 DEF Sorting
<1>3. /\ \A k \in DOMAIN Chunks : Ordered(Chunks[k])
      /\ \A j, k \in DOMAIN Chunks : j < k => Apart(Range(Chunks[k]), Range(Chunks[j]))
      /\ Apart(Contents(Chunks), InHand)
      /\ Apart(Held, Unread) /\ Wanted \subseteq Held \cup Unread
      /\ Ordered(buf) /\ Once(buf) /\ out = <<>>
      /\ Held = Contents(Chunks) \cup InHand \cup Range(out)
  BY <1>1, <1>2, WhileSorting
<1> DEFINE n == n_temp_files
           cs == Chunks
           ds == Chunks'
<1>4. n \in Nat /\ Len(temphead) \in Nat /\ n <= Len(temphead)
  BY <1>1, <1>2 DEF Types, Chunked, Inv, Names
<1>5. \A k \in 1..n : temphead'[k + 1] = temphead[k]
  <2>1. \A k \in 1..Len(temphead) : temphead'[k + 1] = temphead[k]
    BY <1>1, TempnameTypes
  <2>2. \A k \in 1..n : k \in 1..Len(temphead)
    BY <1>4
  <2> QED BY <2>1, <2>2
<1>6. /\ DOMAIN cs = 1..n /\ DOMAIN ds = 1..(n + 1)
      /\ \A k \in 1..n : cs[k] = text[temphead[k]]
      /\ \A k \in 1..(n + 1) : ds[k] = IF k = 1 THEN buf ELSE text[temphead'[k]]
  BY <1>1 DEF Chunks
<1> HIDE DEF n, cs, ds
<1>7. \A k \in 1..(n + 1) : \/ k = 1 /\ ds[k] = buf
                            \/ k - 1 \in 1..n /\ k # 1 /\ ds[k] = cs[k - 1]
  <2> SUFFICES ASSUME NEW k \in 1..(n + 1), k # 1
               PROVE  k - 1 \in 1..n /\ ds[k] = cs[k - 1]
    BY <1>6
  <2>1. k - 1 \in 1..n /\ (k - 1) + 1 = k
    BY <1>4
  <2>2. temphead'[k] = temphead[k - 1]
    BY <1>5, <2>1
  <2> QED BY <1>6, <2>1, <2>2
<1>8. 1 \in 1..(n + 1) /\ ds[1] = buf /\ \A k \in 1..n : k + 1 \in 1..(n + 1) /\ ds[k + 1] = cs[k]
  <2>1. 1 \in 1..(n + 1) /\ \A k \in 1..n : k + 1 \in 1..(n + 1) /\ k + 1 # 1 /\ (k + 1) - 1 = k
    BY <1>4
  <2> QED BY <1>7, <2>1
<1>9. InHand = Range(buf) /\ InHand' = {}
  BY <1>1 DEF InHand
<1>10. Contents(ds) = Contents(cs) \cup Range(buf)
  <2>1. \A l : l \in Contents(cs) <=> \E k \in 1..n : l \in Range(cs[k])
    BY <1>6, InContents
  <2>2. \A l : l \in Contents(ds) <=> \E k \in 1..(n + 1) : l \in Range(ds[k])
    BY <1>6, InContents
  <2> QED BY <1>7, <1>8, <2>1, <2>2
<1>11. \A k \in DOMAIN ds : Ordered(ds[k])
  BY <1>3, <1>6, <1>7 DEF cs
<1>12. \A j, k \in DOMAIN ds : j < k => Apart(Range(ds[k]), Range(ds[j]))
  <2> SUFFICES ASSUME NEW j \in 1..(n + 1), NEW k \in 1..(n + 1), j < k
               PROVE  Apart(Range(ds[k]), Range(ds[j]))
    BY <1>6
  <2>1. k # 1
    BY <1>4
  <2>2. k - 1 \in 1..n /\ ds[k] = cs[k - 1]
    BY <1>7, <2>1
  <2>3. CASE j = 1
    <3>1. ds[j] = buf /\ Range(cs[k - 1]) \subseteq Contents(cs)
      BY <1>6, <1>8, <2>2, <2>3, InContents
    <3> QED BY <1>3, <1>9, <2>2, <3>1 DEF Apart, cs
  <2>4. CASE j # 1
    <3>1. j - 1 \in 1..n /\ ds[j] = cs[j - 1]
      BY <1>7, <2>4
    <3>2. j - 1 < k - 1
      BY <1>4
    <3> QED BY <1>3, <1>6, <2>2, <3>1, <3>2 DEF cs
  <2> QED BY <2>3, <2>4
<1>13. Unread' = Unread
  <2>1. AllLines' = AllLines
    BY <1>1, SameJob
  <2> QED BY <1>1, <2>1 DEF Unread
<1>14. Held = Contents(ds) \cup InHand' \cup Range(out')
  BY <1>1, <1>3, <1>9, <1>10 DEF cs
<1>15. Apart(Contents(ds), InHand')
  BY <1>9 DEF Apart
<1>16. job' = job /\ out' = <<>> /\ Ordered(out') /\ Once(out') /\ pc' # "direct"
       /\ Ordered(buf') /\ Once(buf') /\ Apart(Held, Unread') /\ Wanted \subseteq Held \cup Unread'
  BY <1>1, <1>3, <1>13, NoLines
<1> QED BY <1>2, <1>11, <1>12, <1>14, <1>15, <1>16, SortsFrom DEF ds

LEMMA ChunkWriteArranges ==
  ASSUME Inv, Types, Good, Arranges, ChunkWrite
  PROVE  Arranges'
<1>1. pc = "chunk_write" /\ pc' = "read" /\ Create(buf)
      /\ UNCHANGED <<job, temphead, seq, i, left, n_temp_files, buf, temp, out>>
  BY DEF ChunkWrite
<1>2. pc \in Sorting /\ pc' \in Sorting
  BY <1>1 DEF Sorting
<1>3. /\ \A k \in DOMAIN Chunks : Ordered(Chunks[k])
      /\ \A j, k \in DOMAIN Chunks : j < k => Apart(Range(Chunks[k]), Range(Chunks[j]))
      /\ Apart(Contents(Chunks), InHand)
      /\ Apart(Held, Unread) /\ Wanted \subseteq Held \cup Unread
      /\ Ordered(out) /\ Once(out) /\ out = <<>>
      /\ Held = Contents(Chunks) \cup InHand \cup Range(out)
  BY <1>1, <1>2, WhileSorting
<1>4. n_temp_files \in Nat /\ temphead[1] = temp
      /\ \A k \in 1..n_temp_files : temphead[k] \in DOMAIN text \/ k = 1
  BY <1>1, <1>2 DEF Types, Chunked
<1>5. /\ text'[temp] = buf
      /\ \A f \in DOMAIN text : f \in DOMAIN text' /\ text'[f] = text[f]
  BY <1>1, CreateTypes DEF Types, Stored
<1>6. Chunks' = Chunks
  <2>1. Chunks = [k \in 1..n_temp_files |-> IF k = 1 THEN buf ELSE text[temphead[k]]]
    BY <1>1 DEF Chunks
  <2>2. Chunks' = [k \in 1..n_temp_files |-> text'[temphead[k]]]
    BY <1>1 DEF Chunks
  <2>3. \A k \in 1..n_temp_files :
          text'[temphead[k]] = IF k = 1 THEN buf ELSE text[temphead[k]]
    BY <1>4, <1>5
  <2> HIDE DEF Chunks
  <2> QED BY <2>1, <2>2, <2>3
<1>7. InHand' = InHand
  BY <1>1 DEF InHand
<1>8. Unread' = Unread
  <2>1. AllLines' = AllLines
    BY <1>1, SameJob
  <2> QED BY <1>1, <2>1 DEF Unread
<1>9. Held = Contents(Chunks') \cup InHand' \cup Range(out')
  BY <1>1, <1>3, <1>6, <1>7
<1>10. job' = job /\ out' = <<>> /\ Ordered(out') /\ Once(out')
       /\ pc' \notin {"direct", "chunk", "chunk_write"}
       /\ Apart(Held, Unread') /\ Wanted \subseteq Held \cup Unread'
  BY <1>1, <1>3, <1>8
<1> QED BY <1>2, <1>3, <1>6, <1>7, <1>9, <1>10, SortsFrom

\* sort () is at the end of all inputs.
LEMMA SortMergeArranges ==
  ASSUME Inv, Types, Good, Arranges, SortMerge
  PROVE  Arranges'
<1>1. pc = "sort" /\ i > N /\ UNCHANGED <<job, text, temphead, n_temp_files, out>>
      /\ IF n_temp_files = 0 THEN pc' = "end" ELSE pc' = "merge" /\ i' = 1
  BY DEF SortMerge, files_vars
<1>2. pc \in Sorting /\ pc # "chunk_write"
  BY <1>1 DEF Sorting
<1>3. /\ job \in Jobs /\ N \in Nat /\ i \in Nat
      /\ \A k \in DOMAIN Chunks : Ordered(Chunks[k])
      /\ \A j, k \in DOMAIN Chunks : j < k => Apart(Range(Chunks[k]), Range(Chunks[j]))
      /\ Wanted \subseteq Held \cup Unread
      /\ Ordered(out) /\ Once(out)
      /\ out # <<>> => n_temp_files = 0
      /\ Held = Contents(Chunks) \cup InHand \cup Range(out)
  BY <1>1, <1>2, WhileSorting
<1>4. Unread = {}
  <2>1. \A l \in AllLines : ~(l.at[1] >= i)
    <3> SUFFICES ASSUME NEW l \in AllLines PROVE ~(l.at[1] >= i)
      OBVIOUS
    <3>1. l.at[1] \in 1..N
      BY <1>3, LineIs
    <3> QED BY <1>1, <1>3, <3>1
  <2> QED BY <1>1, <2>1 DEF Unread
<1>5. InHand = {}
  BY <1>1 DEF InHand
<1> DEFINE n == n_temp_files
<1>6. DOMAIN Chunks = 1..n /\ n \in Nat /\ \A k \in 1..n : Chunks[k] = text[temphead[k]]
  BY <1>1 DEF Chunks, Types, Chunked
<1>7. \A l \in Wanted : l \in Range(out) \/ \E k \in 1..n : l \in Range(Chunks[k])
  BY <1>3, <1>4, <1>5, <1>6, InContents
<1>8. CASE n = 0
  <2>1. Wanted \subseteq Range(out)
    BY <1>6, <1>7, <1>8
  <2>2. pc' = "end" /\ out' = out /\ Wanted' = Wanted /\ job' = job
    BY <1>1, <1>8, SameJob
  <2>3. EndsRight'
    BY <1>3, <2>1, <2>2 DEF EndsRight, Ordered, Once
  <2> QED BY <2>2, <2>3
          DEF Arranges, Begins, SortsRight, GroupRight, RoundRight, Sorting, InGroup, Merging
<1>9. CASE n # 0
  <2> DEFINE c == [p \in 1..n |-> Chunks[(n + 1) - p]]
             P == 1..n
  <2>1. pc' = "merge" /\ i' = 1 /\ out' = <<>> /\ job' = job
    BY <1>1, <1>3, <1>9
  <2>2. Len(files') = n /\ \A k \in 1..n : files'[k] = temphead[(n + 1) - k]
    BY <1>9, MergeFiles
  <2>3. P = 1..(i' - 1) \cup ((i' - 1) * NMERGE + 1)..Len(files')
    BY <1>6, <2>1, <2>2, FirstRound
  <2>4. \A p \in 1..n : (n + 1) - p \in 1..n /\ (n + 1) - ((n + 1) - p) = p
    BY <1>6
  <2>5. \A p \in P : c[p] = Chunks[(n + 1) - p]
    OBVIOUS
  <2>6. \A p \in P : text'[files'[p]] = c[p]
    BY <1>1, <1>6, <2>2, <2>4, <2>5
  <2>7. \A p \in P : Ordered(c[p])
    BY <1>3, <1>6, <2>4, <2>5
  <2>8. \A p, q \in P : p < q => Apart(Range(c[p]), Range(c[q]))
    <3> SUFFICES ASSUME NEW p \in 1..n, NEW q \in 1..n, p < q
                 PROVE  Apart(Range(c[p]), Range(c[q]))
      OBVIOUS
    <3>1. (n + 1) - q < (n + 1) - p
      BY <1>6
    <3> QED BY <1>3, <1>6, <2>4, <2>5, <3>1
  <2>9. \A l \in Wanted : \E p \in P : l \in Range(c[p])
    <3> SUFFICES ASSUME NEW l \in Wanted PROVE \E p \in P : l \in Range(c[p])
      OBVIOUS
    <3>1. PICK k \in 1..n : l \in Range(Chunks[k])
      BY <1>3, <1>7, <1>9, <2>1, <1>1, NoLines
    <3>2. (n + 1) - k \in P /\ c[(n + 1) - k] = Chunks[k]
      BY <2>4, <2>5
    <3> QED BY <3>1, <3>2
  <2> HIDE DEF c, P
  <2> QED BY <2>1, <2>3, <2>6, <2>7, <2>8, <2>9, MergesFrom
<1> QED BY <1>8, <1>9

------------------------------------------------------------------------------
(* merge () keeps the order                                                *)

LEMMA GroupPlaces ==
  ASSUME NEW g \in Nat \ {0}
  PROVE  /\ NMERGE \in Nat /\ NMERGE >= 2
         /\ (g - 1) * NMERGE \in Nat /\ (g - 1) * NMERGE >= g - 1
         /\ g * NMERGE \in Nat /\ g * NMERGE = (g - 1) * NMERGE + NMERGE
<1>1. NMERGE \in Nat /\ NMERGE >= 2
  BY NMERGEAssumption
<1>2. g - 1 \in Nat /\ NMERGE - 1 \in Nat
  BY <1>1
<1>3. g * NMERGE = (g - 1) * NMERGE + NMERGE
  BY <1>1
<1>4. (g - 1) * NMERGE \in Nat
  BY <1>1, <1>2
<1>5. (g - 1) * NMERGE = (g - 1) * (NMERGE - 1) + (g - 1) /\ (g - 1) * (NMERGE - 1) \in Nat
  BY <1>1, <1>2
<1>6. (g - 1) * NMERGE >= g - 1
  <2> DEFINE x == (g - 1) * NMERGE
             y == (g - 1) * (NMERGE - 1)
  <2>1. x = y + (g - 1) /\ y \in Nat
    BY <1>5
  <2> HIDE DEF x, y
  <2>2. x >= g - 1
    BY <1>2, <2>1
  <2> QED BY <2>2 DEF x
<1>7. g * NMERGE \in Nat
  <2> DEFINE x == (g - 1) * NMERGE
             y == g * NMERGE
  <2>1. x \in Nat /\ y = x + NMERGE
    BY <1>3, <1>4
  <2> HIDE DEF x, y
  <2>2. y \in Nat
    BY <1>1, <2>1
  <2> QED BY <2>2 DEF y
<1> QED BY <1>1, <1>3, <1>4, <1>6, <1>7

\* A group is in order: w is written of it, and c[p] are the files at the other places P.
GroupFits(w, s, fs, g, P, c) ==
  LET G == Range(w) \cup Range(s) \cup Contents(fs)
  IN /\ MergeRight(w, s, fs)
     /\ \A p \in P : Ordered(c[p])
     /\ \A p, q \in P : p < q => Apart(Range(c[p]), Range(c[q]))
     /\ \A p \in P : p < g => Apart(Range(c[p]), G)
     /\ \A p \in P : g < p => Apart(G, Range(c[p]))
     /\ \A l \in Wanted : l \in G \/ \E p \in P : l \in Range(c[p])

LEMMA GroupFrom ==
  ASSUME pc' \in InGroup, job' = job, NEW w, Work' = w,
         NEW P, P = 1..(i' - 1) \cup (i' * NMERGE + 1)..Len(files'),
         NEW c, \A p \in P : text'[files'[p]] = c[p] /\ files'[p] # temp',
         GroupFits(w, saved', fps', i', P, c),
         pc' \in {"round", "mergefps"} /\ job.unique /\ saved' = <<>> => w = <<>>,
         pc' = "round" \/ temp' # Output => out' = <<>>
  PROVE  Arranges'
<1>1. pc' # "merge" /\ pc' \notin Sorting /\ pc' \notin {"main", "copy", "end", "success"}
  BY DEF InGroup, Sorting
<1>2. Others' = P /\ InGroupNow' = Range(w) \cup Range(saved') \cup Contents(fps')
  BY <1>1 DEF Others, InGroupNow
<1>3. InOthers' = UNION {Range(c[p]) : p \in P}
  <2>1. InOthers' = UNION {Range(text'[files'[p]]) : p \in P}
    BY <1>2 DEF InOthers
  <2>2. \A p \in P : Range(text'[files'[p]]) = Range(c[p])
    OBVIOUS
  <2> QED BY <2>1, <2>2
<1>4. /\ MergeRight(w, saved', fps')
      /\ \A p \in P : Ordered(text'[files'[p]])
      /\ \A p, q \in P : p < q => Apart(Range(text'[files'[p]]), Range(text'[files'[q]]))
      /\ \A p \in P : p < i' => Apart(Range(text'[files'[p]]), InGroupNow')
      /\ \A p \in P : i' < p => Apart(InGroupNow', Range(text'[files'[p]]))
      /\ Wanted \subseteq InGroupNow' \cup InOthers'
  <2>1. /\ MergeRight(w, saved', fps')
        /\ \A p \in P : Ordered(c[p])
        /\ \A p, q \in P : p < q => Apart(Range(c[p]), Range(c[q]))
        /\ \A p \in P : p < i' => Apart(Range(c[p]), InGroupNow')
        /\ \A p \in P : i' < p => Apart(InGroupNow', Range(c[p]))
        /\ \A l \in Wanted : l \in InGroupNow' \/ \E p \in P : l \in Range(c[p])
    BY <1>2 DEF GroupFits
  <2>2. Wanted \subseteq InGroupNow' \cup InOthers'
    BY <1>3, <2>1
  <2> QED BY <2>1, <2>2
<1>5. Wanted' = Wanted
  BY SameJob
<1>6. RoundRight'
  BY <1>1, <1>2, <1>4, <1>5 DEF RoundRight
<1>7. GroupRight'
  <2>1. MergeRight(Work, saved, fps)'
    BY <1>4 DEF MergeRight, Once
  <2> QED BY <2>1 DEF GroupRight
<1>8. Begins' /\ SortsRight' /\ EndsRight'
  BY <1>1 DEF Begins, SortsRight, EndsRight
<1> QED BY <1>6, <1>7, <1>8 DEF Arranges

\* What holds while a group is merged.
OthersNow == [p \in Others |-> text[files[p]]]

LEMMA WhileGroup ==
  ASSUME Inv, Types, Arranges, pc \in InGroup
  PROVE  /\ job \in Jobs /\ i \in Nat \ {0} /\ Len(files) \in Nat
         /\ files \in Seq(DOMAIN text)
         /\ Others = 1..(i - 1) \cup (i * NMERGE + 1)..Len(files)
         /\ Others \subseteq 1..Len(files)
         /\ \A p \in Others : /\ text[files[p]] = OthersNow[p] /\ files[p] # temp
                              /\ files[p] \in DOMAIN text
         /\ GroupFits(Work, saved, fps, i, Others, OthersNow)
         /\ pc \in {"round", "mergefps"} /\ job.unique /\ saved = <<>> => Work = <<>>
         /\ pc = "round" \/ temp # Output => out = <<>>
<1>1. pc # "merge" /\ pc \in Merging
  BY DEF InGroup, Merging
<1>2. job \in Jobs /\ files \in Seq(DOMAIN text) /\ Len(files) \in Nat /\ i \in 1..(Len(files) + 1)
  BY DEF Inv, Names, Types, Opened
<1>3. i \in Nat \ {0} /\ i - 1 <= Len(files)
  <2> DEFINE n == Len(files)
  <2>1. n \in Nat /\ i \in 1..(n + 1)
    BY <1>2
  <2> HIDE DEF n
  <2>2. i \in Nat \ {0} /\ i - 1 <= n
    BY <2>1
  <2> QED BY <2>2 DEF n
<1>4. Others = 1..(i - 1) \cup (i * NMERGE + 1)..Len(files)
  BY <1>1 DEF Others
<1>5. Others \subseteq 1..Len(files)
  <2> DEFINE n == Len(files)
             b == i * NMERGE
  <2>1. n \in Nat /\ b \in Nat /\ i - 1 <= n /\ i \in Nat
    BY <1>2, <1>3, GroupPlaces
  <2> HIDE DEF n, b
  <2>2. 1..(i - 1) \cup (b + 1)..n \subseteq 1..n
    BY <2>1
  <2> QED BY <1>4, <2>2 DEF n, b
<1>6. \A p \in Others : files[p] \in DOMAIN text
  <2>1. \A p \in 1..Len(files) : files[p] \in DOMAIN text
    BY <1>2
  <2> QED BY <1>5, <2>1
<1>7. \A p \in Others : text[files[p]] = OthersNow[p]
  BY DEF OthersNow
<1>8. RoundRight /\ GroupRight
  BY DEF Arranges
<1>9. GroupFits(Work, saved, fps, i, Others, OthersNow)
  <2> DEFINE G == Range(Work) \cup Range(saved) \cup Contents(fps)
  <2>1. G = InGroupNow
    BY DEF InGroupNow
  <2>2. MergeRight(Work, saved, fps)
    BY <1>8 DEF GroupRight
  <2>3. /\ \A p \in Others : Ordered(text[files[p]])
        /\ \A p, q \in Others : p < q => Apart(Range(text[files[p]]), Range(text[files[q]]))
        /\ \A p \in Others : p < i => Apart(Range(text[files[p]]), G)
        /\ \A p \in Others : i < p => Apart(G, Range(text[files[p]]))
        /\ Wanted \subseteq G \cup InOthers
    BY <1>1, <1>8, <2>1 DEF RoundRight
  <2>4. \A l \in Wanted : l \in G \/ \E p \in Others : l \in Range(text[files[p]])
    BY <2>3 DEF InOthers
  <2> HIDE DEF G
  <2>5. /\ \A p \in Others : Ordered(OthersNow[p])
        /\ \A p, q \in Others : p < q => Apart(Range(OthersNow[p]), Range(OthersNow[q]))
        /\ \A p \in Others : p < i => Apart(Range(OthersNow[p]), G)
        /\ \A p \in Others : i < p => Apart(G, Range(OthersNow[p]))
        /\ \A l \in Wanted : l \in G \/ \E p \in Others : l \in Range(OthersNow[p])
    BY <1>7, <2>3, <2>4
  <2> QED BY <2>2, <2>5 DEF GroupFits, G
<1>10. \A p \in Others : files[p] # temp
  BY <1>1, <1>8 DEF RoundRight
<1>11. /\ pc \in {"round", "mergefps"} /\ job.unique /\ saved = <<>> => Work = <<>>
       /\ pc = "round" \/ temp # Output => out = <<>>
  BY <1>1, <1>8 DEF RoundRight, GroupRight
<1> QED BY <1>2, <1>3, <1>4, <1>5, <1>6, <1>7, <1>9, <1>10, <1>11

\* The files of group i are in their order, between those of the other places.
LEMMA OpenGroupFits ==
  ASSUME Inv, Types, Arranges, pc = "merge", OpenGroup(i)
  PROVE  LET P == 1..(i - 1) \cup (i * NMERGE + 1)..Len(files)
             c == [p \in P |-> text[files[p]]]
         IN /\ GroupFits(<<>>, <<>>, fps', i, P, c)
            /\ \A p \in P : files[p] \in DOMAIN text /\ c[p] = text[files[p]]
            /\ saved' = <<>> /\ out = <<>>
<1> DEFINE n == Len(files)
           b == (i - 1) * NMERGE
           e == i * NMERGE
           P == 1..(i - 1) \cup (e + 1)..n
           c == [p \in P |-> text[files[p]]]
           C(p) == text[files[p]]
           G == Group(i)
           m == Len(G)
<1>1. job \in Jobs /\ files \in Seq(DOMAIN text) /\ n \in Nat /\ i \in 1..(n + 1) /\ b <= n
  BY DEF Inv, Names, Types, Opened, Rounds, Merging
<1>2. i \in Nat \ {0} /\ i - 1 <= n
  <2> HIDE DEF n
  <2> QED BY <1>1
<1>3. NMERGE \in Nat /\ b \in Nat /\ b >= i - 1 /\ e \in Nat /\ e = b + NMERGE
  BY <1>2, GroupPlaces
<1>4. /\ G \in Seq(DOMAIN text)
      /\ \A k \in 1..m : G[k] = files[b + k] /\ b + k \in 1..n /\ b + k <= e
      /\ \A p \in 1..n : b < p /\ p <= e => p - b \in 1..m
  <2> DEFINE D == DOMAIN text
  <2>1. files \in Seq(D) /\ (i - 1) * NMERGE <= Len(files)
    BY <1>1
  <2> HIDE DEF D
  <2>2. /\ G \in Seq(D)
        /\ \A k \in 1..m : G[k] = files[b + k] /\ b + k \in 1..n /\ b + k <= e
        /\ \A p \in 1..n : b < p /\ p <= e => p - b \in 1..m
    BY <1>2, <2>1, GroupIs
  <2> QED BY <2>2 DEF D
<1>5. /\ fps' \in Seq(Seq(AllLines) \ {<<>>}) /\ saved' = <<>>
      /\ \E ks \in Seq(1..m) :
              /\ Len(ks) = Len(fps')
              /\ \A j, k \in 1..Len(ks) : j < k => ks[j] < ks[k]
              /\ \A k \in 1..Len(ks) : fps'[k] = text[G[ks[k]]]
              /\ \A q \in 1..m : text[G[q]] = <<>> \/ \E k \in 1..Len(ks) : ks[k] = q
  BY <1>1, <1>2, OpenGroupIs
<1>6. PICK ks \in Seq(1..m) :
        /\ Len(ks) = Len(fps')
        /\ \A j, k \in 1..Len(ks) : j < k => ks[j] < ks[k]
        /\ \A k \in 1..Len(ks) : fps'[k] = text[G[ks[k]]]
        /\ \A q \in 1..m : text[G[q]] = <<>> \/ \E k \in 1..Len(ks) : ks[k] = q
  BY <1>5
<1> DEFINE x == Len(fps')
<1>7. x \in Nat /\ DOMAIN fps' = 1..x /\ m \in Nat /\ \A k \in 1..x : ks[k] \in 1..m
  <2>1. x \in Nat /\ DOMAIN fps' = 1..x
    BY <1>5
  <2>2. m \in Nat
    BY <1>4
  <2> HIDE DEF m, G, x
  <2>3. \A k \in 1..x : ks[k] \in 1..m
    <3> DEFINE D == 1..m
    <3>1. ks \in Seq(D) /\ Len(ks) = x
      BY <1>6 DEF x
    <3> HIDE DEF D
    <3>2. \A k \in 1..Len(ks) : ks[k] \in D
      BY <3>1
    <3> QED BY <3>1, <3>2 DEF D
  <2> QED BY <2>1, <2>2, <2>3
<1>8. /\ \A p \in 1..n : b < p => Ordered(C(p))
      /\ \A p \in 1..(i - 1) : Ordered(C(p))
      /\ \A p, q \in 1..(i - 1) \cup (b + 1)..n : p < q => Apart(Range(C(p)), Range(C(q)))
      /\ \A l \in Wanted : \E p \in 1..(i - 1) \cup (b + 1)..n : l \in Range(C(p))
      /\ out = <<>>
  <2>1. Others = 1..(i - 1) \cup (b + 1)..n
    BY DEF Others
  <2>2. RoundRight /\ pc \in Merging
    BY DEF Arranges, Merging
  <2>3. /\ \A p \in Others : Ordered(text[files[p]])
        /\ \A p, q \in Others : p < q => Apart(Range(text[files[p]]), Range(text[files[q]]))
        /\ Wanted \subseteq InOthers
        /\ out = <<>>
    BY <2>2 DEF RoundRight
  <2>4. \A l \in Wanted : \E p \in Others : l \in Range(text[files[p]])
    BY <2>3 DEF InOthers
  <2>5. \A p \in 1..n : b < p => p \in (b + 1)..n
    <3> HIDE DEF n, b
    <3> QED BY <1>1, <1>3
  <2> QED BY <2>1, <2>3, <2>4, <2>5
<1> HIDE DEF n, b, e, m, G, x
<1> DEFINE Q == 1..(i - 1) \cup (b + 1)..n
           at(k) == b + ks[k]
<1>9. \A k \in 1..x : /\ at(k) \in (b + 1)..n /\ at(k) <= e /\ at(k) \in Q
                      /\ fps'[k] = C(at(k)) /\ at(k) \in 1..n /\ b < at(k)
  <2> SUFFICES ASSUME NEW k \in 1..x
               PROVE  /\ at(k) \in (b + 1)..n /\ at(k) <= e /\ at(k) \in Q
                      /\ fps'[k] = C(at(k)) /\ at(k) \in 1..n /\ b < at(k)
    OBVIOUS
  <2>1. ks[k] \in 1..m /\ fps'[k] = text[G[ks[k]]]
    BY <1>6, <1>7 DEF x
  <2>2. G[ks[k]] = files[b + ks[k]] /\ b + ks[k] \in 1..n /\ b + ks[k] <= e
    BY <1>4, <2>1
  <2>3. b + ks[k] \in (b + 1)..n /\ b < b + ks[k]
    <3> DEFINE y == ks[k]
    <3>1. y \in 1..m /\ b + y \in 1..n /\ m \in Nat /\ n \in Nat /\ b \in Nat
      BY <1>1, <1>3, <1>7, <2>1, <2>2
    <3> HIDE DEF y
    <3>2. b + y \in (b + 1)..n /\ b < b + y
      BY <3>1
    <3> QED BY <3>2 DEF y
  <2> QED BY <2>1, <2>2, <2>3
<1>10. \A j, k \in 1..x : j < k => at(j) < at(k)
  <2> SUFFICES ASSUME NEW j \in 1..x, NEW k \in 1..x, j < k PROVE at(j) < at(k)
    OBVIOUS
  <2>1. ks[j] < ks[k]
    BY <1>6 DEF x
  <2>2. ks[j] \in Int /\ ks[k] \in Int
    BY <1>7
  <2> QED BY <1>3, <2>1, <2>2
<1>11. P \subseteq Q /\ P \subseteq 1..n /\ \A p \in P : p # i => p < b + 1 \/ e < p
  <2>1. \A p \in 1..(i - 1) : p \in 1..n /\ p < b + 1
    BY <1>1, <1>2, <1>3
  <2>2. \A p \in (e + 1)..n : p \in 1..n /\ e < p /\ p \in (b + 1)..n
    BY <1>1, <1>2, <1>3
  <2> QED BY <2>1, <2>2
<1>12. \A p \in P : (p < i => p \in 1..(i - 1)) /\ (i < p => e < p)
  <2>1. \A p \in 1..(i - 1) : p \in Int /\ ~(i < p)
    BY <1>2
  <2>2. \A p \in (e + 1)..n : e < p
    BY <1>1, <1>3
  <2>3. \A p \in (e + 1)..n : p < i => p \in 1..(i - 1)
    BY <1>1, <1>2, <1>3
  <2> QED BY <2>1, <2>2, <2>3
<1> HIDE DEF P, Q
<1>13. \A p \in P : c[p] = C(p) /\ files[p] \in DOMAIN text /\ p \in Int
  <2>1. \A p \in 1..n : files[p] \in DOMAIN text
    BY <1>1 DEF n
  <2> QED BY <1>11, <2>1
<1> HIDE DEF c
<1>14. \A l : l \in Contents(fps') <=> \E k \in 1..x : l \in Range(C(at(k)))
  <2>1. \A l : l \in Contents(fps') <=> \E k \in 1..x : l \in Range(fps'[k])
    BY <1>7, InContents
  <2> QED BY <1>9, <2>1
<1>15. \A k \in 1..x : Ordered(fps'[k])
  BY <1>8, <1>9
<1>16. \A j, k \in 1..x : j < k => Apart(Range(fps'[j]), Range(fps'[k]))
  BY <1>8, <1>9, <1>10 DEF Q
<1>17. MergeRight(<<>>, <<>>, fps')
  BY <1>7, <1>15, <1>16, NoLines DEF MergeRight
<1>18. \A p \in P : Ordered(c[p])
  <2>1. \A p \in Q : Ordered(C(p))
    <3>1. \A p \in (b + 1)..n : p \in 1..n /\ b < p
      BY <1>1, <1>3
    <3> QED BY <1>8, <3>1 DEF Q
  <2> QED BY <1>11, <1>13, <2>1
<1>19. \A p, q \in P : p < q => Apart(Range(c[p]), Range(c[q]))
  <2>1. \A p, q \in Q : p < q => Apart(Range(C(p)), Range(C(q)))
    BY <1>8 DEF Q
  <2> QED BY <1>11, <1>13, <2>1
<1>20. ASSUME NEW p \in P, p < i PROVE Apart(Range(c[p]), Contents(fps'))
  <2>1. \A k \in 1..x : p < at(k)
    <3>1. p \in 1..(i - 1)
      BY <1>12, <1>20
    <3>2. p \in Nat /\ p <= b
      BY <1>2, <1>3, <3>1
    <3>3. \A k \in 1..x : at(k) \in (b + 1)..n
      BY <1>9
    <3> HIDE DEF at
    <3> QED BY <1>1, <1>3, <3>2, <3>3
  <2>2. \A k \in 1..x : Apart(Range(C(p)), Range(C(at(k))))
    BY <1>8, <1>9, <1>11, <2>1 DEF Q
  <2> QED BY <1>13, <1>14, <2>2 DEF Apart
<1>21. ASSUME NEW p \in P, i < p PROVE Apart(Contents(fps'), Range(c[p]))
  <2>1. \A k \in 1..x : at(k) < p
    <3>1. e < p /\ p \in Int
      BY <1>12, <1>13, <1>21
    <3> QED BY <1>3, <1>9, <3>1
  <2>2. \A k \in 1..x : Apart(Range(C(at(k))), Range(C(p)))
    BY <1>8, <1>9, <1>11, <2>1 DEF Q
  <2> QED BY <1>13, <1>14, <2>2 DEF Apart
<1>22. ASSUME NEW l \in Wanted PROVE l \in Contents(fps') \/ \E p \in P : l \in Range(c[p])
  <2>1. PICK p \in Q : l \in Range(C(p))
    BY <1>8 DEF Q
  <2>2. CASE p \in P
    BY <1>13, <2>1, <2>2
  <2>3. CASE p \notin P
    <3>1. p \in 1..n /\ b < p /\ p <= e
      <4>1. p \in (b + 1)..n /\ ~(p \in (e + 1)..n)
        BY <2>3 DEF P, Q
      <4> QED BY <1>1, <1>3, <4>1
    <3>2. p - b \in 1..m /\ b + (p - b) = p
      BY <1>3, <1>4, <3>1
    <3>3. text[G[p - b]] = C(p)
      BY <1>4, <3>2
    <3>4. C(p) # <<>>
      BY <2>1, NoLines
    <3>5. PICK k \in 1..x : ks[k] = p - b
      BY <1>6, <3>2, <3>3, <3>4 DEF x
    <3>6. at(k) = p
      BY <3>2, <3>5
    <3> QED BY <1>14, <2>1, <3>6
  <2> QED BY <2>2, <2>3
<1>23. GroupFits(<<>>, <<>>, fps', i, P, c)
  <2> DEFINE H == Contents(fps')
  <2>1. Range(<<>>) \cup Range(<<>>) \cup H = H
    BY NoLines
  <2> HIDE DEF H
  <2>2. /\ \A p \in P : p < i => Apart(Range(c[p]), H)
        /\ \A p \in P : i < p => Apart(H, Range(c[p]))
        /\ \A l \in Wanted : l \in H \/ \E p \in P : l \in Range(c[p])
    BY <1>20, <1>21, <1>22 DEF H
  <2> QED BY <1>17, <1>18, <1>19, <2>1, <2>2 DEF GroupFits, H
<1> QED BY <1>5, <1>8, <1>13, <1>23 DEF P, c, e, n

LEMMA RoundNameArranges ==
  ASSUME Inv, Types, Good, Arranges, RoundName
  PROVE  Arranges'
<1> DEFINE P == 1..(i - 1) \cup (i * NMERGE + 1)..Len(files)
           c == [p \in P |-> text[files[p]]]
<1>1. pc = "merge" /\ pc' = "round" /\ OpenGroup(i) /\ tempname
      /\ UNCHANGED <<job, disk, text, files, i, buf, out>>
  BY DEF RoundName
<1>2. /\ GroupFits(<<>>, <<>>, fps', i, P, c)
      /\ \A p \in P : files[p] \in DOMAIN text /\ c[p] = text[files[p]]
      /\ saved' = <<>> /\ out = <<>>
  BY <1>1, OpenGroupFits
<1>3. P = 1..(i' - 1) \cup (i' * NMERGE + 1)..Len(files')
  BY <1>1
<1> HIDE DEF P, c
<1>4. temp' \notin DOMAIN text
  BY <1>1, TempnameTypes DEF Listed
<1>5. \A p \in P : text'[files'[p]] = c[p] /\ files'[p] # temp'
  BY <1>1, <1>2, <1>4
<1>6. Work' = <<>>
  BY <1>1, <1>2 DEF Work
<1>7. GroupFits(<<>>, saved', fps', i', P, c)
  BY <1>1, <1>2
<1>8. pc' \in InGroup /\ job' = job /\ out' = <<>>
  BY <1>1, <1>2 DEF InGroup
<1> QED BY <1>3, <1>5, <1>6, <1>7, <1>8, GroupFrom

LEMMA LastMergeArranges ==
  ASSUME Inv, Types, Good, Arranges, LastMerge
  PROVE  Arranges'
<1> DEFINE n == Len(files)
           P == 1..(i - 1) \cup (i * NMERGE + 1)..n
           c == [p \in P |-> text[files[p]]]
<1>1. pc = "merge" /\ pc' = "mergefps" /\ OpenGroup(1) /\ n <= NMERGE /\ temp' = Output
      /\ UNCHANGED <<job, text, files, i, out>>
  BY DEF LastMerge, files_vars
<1>2. n \in Nat /\ i = 1 /\ NMERGE \in Nat
  <2>1. n \in Nat /\ i \in 1..(n + 1) /\ (i > 1 => n > NMERGE) /\ NMERGE \in Nat
    BY <1>1, NMERGEAssumption DEF Types, Opened, Rounds, Merging
  <2> HIDE DEF n
  <2> QED BY <1>1, <2>1
<1>3. OpenGroup(i)
  BY <1>1, <1>2
<1>4. GroupFits(<<>>, <<>>, fps', i, P, c) /\ saved' = <<>> /\ out = <<>>
  BY <1>1, <1>3, OpenGroupFits
<1>5. P = 1..(i' - 1) \cup (i' * NMERGE + 1)..Len(files')
  BY <1>1
<1>6. P = {}
  <2>1. i * NMERGE + 1 = NMERGE + 1 /\ i - 1 = 0
    BY <1>2
  <2> HIDE DEF n
  <2>2. 1..0 = {} /\ (NMERGE + 1)..n = {}
    BY <1>1, <1>2
  <2> QED BY <2>1, <2>2
<1> HIDE DEF P, c
<1>7. \A p \in P : text'[files'[p]] = c[p] /\ files'[p] # temp'
  BY <1>6
<1>8. Work' = <<>>
  BY <1>1, <1>4 DEF Work
<1>9. GroupFits(<<>>, saved', fps', i', P, c)
  BY <1>1, <1>4
<1>10. pc' \in InGroup /\ job' = job /\ out' = <<>>
  BY <1>1, <1>4 DEF InGroup
<1> QED BY <1>5, <1>7, <1>8, <1>9, <1>10, GroupFrom

LEMMA RoundCreateArranges ==
  ASSUME Inv, Types, Good, Arranges, RoundCreate
  PROVE  Arranges'
<1>1. pc = "round" /\ pc' = "mergefps" /\ Create(<<>>)
      /\ UNCHANGED <<job, temphead, seq, files, i, buf, fps, saved, temp, out>>
  BY DEF RoundCreate, merge_vars
<1>2. pc \in InGroup /\ pc' \in InGroup
  BY <1>1 DEF InGroup
<1>3. /\ Others = 1..(i - 1) \cup (i * NMERGE + 1)..Len(files)
      /\ \A p \in Others : /\ text[files[p]] = OthersNow[p] /\ files[p] # temp
                           /\ files[p] \in DOMAIN text
      /\ GroupFits(Work, saved, fps, i, Others, OthersNow)
      /\ out = <<>>
  BY <1>1, <1>2, WhileGroup
<1>4. /\ text'[temp] = <<>>
      /\ \A f \in DOMAIN text : f \in DOMAIN text' /\ text'[f] = text[f]
  <2>1. <<>> \in Seq(AllLines)
    OBVIOUS
  <2> QED BY <1>1, <2>1, CreateTypes
<1>5. Work = <<>> /\ Work' = <<>>
  BY <1>1, <1>3, <1>4 DEF Work
<1>6. \A p \in Others : text'[files'[p]] = OthersNow[p] /\ files'[p] # temp'
  BY <1>1, <1>3, <1>4
<1>7. GroupFits(<<>>, saved', fps', i', Others, OthersNow)
  BY <1>1, <1>3, <1>5
<1>8. Others = 1..(i' - 1) \cup (i' * NMERGE + 1)..Len(files') /\ job' = job /\ out' = <<>>
  BY <1>1, <1>3
<1> QED BY <1>2, <1>5, <1>6, <1>7, <1>8, GroupFrom

LEMMA GroupKept ==
  ASSUME NEW w, NEW s, NEW fs, NEW g, NEW P, NEW c, GroupFits(w, s, fs, g, P, c),
         NEW x, NEW z, NEW gs, MergeRight(x, z, gs), KeepsLines(w, s, fs, x, z, gs)
  PROVE  GroupFits(x, z, gs, g, P, c)
<1> DEFINE G == Range(w) \cup Range(s) \cup Contents(fs)
           H == Range(x) \cup Range(z) \cup Contents(gs)
<1>1. /\ \A p \in P : Ordered(c[p])
      /\ \A p, q \in P : p < q => Apart(Range(c[p]), Range(c[q]))
      /\ \A p \in P : p < g => Apart(Range(c[p]), G)
      /\ \A p \in P : g < p => Apart(G, Range(c[p]))
      /\ \A l \in Wanted : l \in G \/ \E p \in P : l \in Range(c[p])
  BY DEF GroupFits
<1>2. H \subseteq G /\ Wanted \cap G \subseteq H
  BY DEF KeepsLines
<1> HIDE DEF G, H
<1>3. \A p \in P : p < g => Apart(Range(c[p]), H)
  BY <1>1, <1>2 DEF Apart
<1>4. \A p \in P : g < p => Apart(H, Range(c[p]))
  BY <1>1, <1>2 DEF Apart
<1>5. \A l \in Wanted : l \in H \/ \E p \in P : l \in Range(c[p])
  BY <1>1, <1>2
<1> QED BY <1>1, <1>3, <1>4, <1>5 DEF GroupFits, H

\* What is written is added to the work.
LEMMA WriteWork ==
  ASSUME Inv, Types, Arranges, pc = "mergefps", pc' \in {"mergefps", "zap"},
         NEW ls \in Seq(AllLines), Write(ls),
         UNCHANGED <<job, seq, files, i, buf, temp>>
  PROVE  /\ Work \in Seq(AllLines) /\ Work' = Work \o ls
         /\ \A p \in Others : text'[files'[p]] = OthersNow[p] /\ files'[p] # temp'
         /\ temp' # Output => out' = <<>>
<1>1. temp = Output \/ temp \in DOMAIN text
  BY DEF Types, Rounds, Merging, InGroup
<1>2. pc \in InGroup
  BY DEF InGroup
<1>3. /\ \A p \in Others : /\ text[files[p]] = OthersNow[p] /\ files[p] # temp
                           /\ files[p] \in DOMAIN text
      /\ temp # Output => out = <<>>
  BY <1>2, WhileGroup
<1>4. /\ temp = Output => out' = out \o ls /\ text' = text
      /\ temp # Output => text'[temp] = text[temp] \o ls /\ out' = out
      /\ \A f \in DOMAIN text : f # temp => text'[f] = text[f]
  BY <1>1, WriteIs
<1>5. Work \in Seq(AllLines)
  BY <1>1 DEF Work, Types, Stored
<1>6. Work' = Work \o ls
  BY <1>4 DEF Work
<1>7. \A p \in Others : text'[files'[p]] = OthersNow[p] /\ files'[p] # temp'
  BY <1>3, <1>4
<1> QED BY <1>3, <1>4, <1>5, <1>6, <1>7

LEMMA MergeLineArranges ==
  ASSUME Inv, Types, Good, Arranges, MergeLine
  PROVE  Arranges'
<1> DEFINE n == Len(fps)
           f == ord[1]
           line == fps[f][1]
<1>1. pc = "mergefps" /\ pc' = "mergefps" /\ fps # <<>>
      /\ UNCHANGED <<job, seq, files, i, buf, temp>>
  BY DEF MergeLine
<1>2. pc \in InGroup /\ pc' \in InGroup
  BY <1>1 DEF InGroup
<1>3. /\ job \in Jobs
      /\ Others = 1..(i - 1) \cup (i * NMERGE + 1)..Len(files)
      /\ GroupFits(Work, saved, fps, i, Others, OthersNow)
      /\ job.unique /\ saved = <<>> => Work = <<>>
  BY <1>1, <1>2, WhileGroup
<1>4. /\ fps \in Seq(Seq(AllLines) \ {<<>>}) /\ InTurn(fps, ord)
      /\ saved \in Seq(AllLines) /\ Len(saved) <= 1
  BY <1>2 DEF Types, Sequenced
<1>5. /\ n \in Nat \ {0} /\ f \in 1..n /\ line \in AllLines /\ WriteFirst(line)
      /\ fps' \in Seq(Seq(AllLines) \ {<<>>})
      /\ \/ /\ Len(fps') = n /\ fps'[f] = Tail(fps[f])
            /\ \A k \in 1..n : k # f => fps'[k] = fps[k]
         \/ /\ Tail(fps[f]) = <<>> /\ Len(fps') = n - 1
            /\ \A k \in 1..(n - 1) : fps'[k] = fps[IF k < f THEN k ELSE k + 1]
  BY MergeLineIs
<1>6. After(fps, f, fps') /\ DOMAIN fps' = 1..Len(fps')
  BY <1>5 DEF After
<1>7. \A k \in 1..n : k # f => HeadBefore(fps, f, k)
  <2> SUFFICES ASSUME NEW k \in 1..n, k # f PROVE HeadBefore(fps, f, k)
    OBVIOUS
  <2>1. PICK j \in 1..n : ord[j] = k
    BY <1>4 DEF InTurn
  <2> HIDE DEF n
  <2>2. 1 \in 1..n /\ 1 < j
    <3>1. 1 \in 1..n /\ j # 1
      BY <1>5, <2>1
    <3> QED BY <1>5, <3>1
  <2> QED BY <1>4, <2>1, <2>2 DEF InTurn, n
<1>8. MergeRight(Work, saved, fps)
  BY <1>3 DEF GroupFits
<1>9. /\ saved' \in Seq(AllLines)
      /\ IF ~job.unique THEN Write(<<line>>) /\ saved' = saved
         ELSE IF saved # <<>> /\ saved[1].key = line.key THEN Write(<<>>) /\ saved' = saved
         ELSE Write(saved) /\ saved' = <<line>>
  BY <1>1, <1>5, WriteFirstIs
<1> HIDE DEF f, line, n
<1>10. /\ Work \in Seq(AllLines)
       /\ \A p \in Others : text'[files'[p]] = OthersNow[p] /\ files'[p] # temp'
       /\ temp' # Output => out' = <<>>
       /\ Takes(Work, saved, line, Work', saved')
  <2>1. CASE ~job.unique
    <3>1. Write(<<line>>) /\ saved' = saved /\ <<line>> \in Seq(AllLines)
      BY <1>5, <1>9, <2>1
    <3>2. /\ Work \in Seq(AllLines) /\ Work' = Work \o <<line>>
          /\ \A p \in Others : text'[files'[p]] = OthersNow[p] /\ files'[p] # temp'
          /\ temp' # Output => out' = <<>>
      BY <1>1, <3>1, WriteWork
    <3> QED BY <2>1, <3>1, <3>2 DEF Takes
  <2>2. CASE job.unique /\ saved # <<>> /\ saved[1].key = line.key
    <3>1. Write(<<>>) /\ saved' = saved /\ <<>> \in Seq(AllLines)
      BY <1>9, <2>2
    <3>2. /\ Work \in Seq(AllLines) /\ Work' = Work \o <<>>
          /\ \A p \in Others : text'[files'[p]] = OthersNow[p] /\ files'[p] # temp'
          /\ temp' # Output => out' = <<>>
      BY <1>1, <3>1, WriteWork
    <3>3. Work \o <<>> = Work
      BY <3>2
    <3> QED BY <2>2, <3>1, <3>2, <3>3 DEF Takes
  <2>3. CASE job.unique /\ ~(saved # <<>> /\ saved[1].key = line.key)
    <3>1. Write(saved) /\ saved' = <<line>>
      BY <1>9, <2>3
    <3>2. /\ Work \in Seq(AllLines) /\ Work' = Work \o saved
          /\ \A p \in Others : text'[files'[p]] = OthersNow[p] /\ files'[p] # temp'
          /\ temp' # Output => out' = <<>>
      BY <1>1, <1>4, <3>1, WriteWork
    <3> QED BY <2>3, <3>1, <3>2 DEF Takes
  <2> QED BY <2>1, <2>2, <2>3
<1>11. /\ MergeRight(Work', saved', fps') /\ (job.unique => saved' # <<>>)
       /\ KeepsLines(Work, saved, fps, Work', saved', fps')
  <2>1. f \in 1..Len(fps) /\ \A k \in 1..Len(fps) : k # f => HeadBefore(fps, f, k)
    BY <1>5, <1>7 DEF n
  <2>2. /\ job \in Jobs /\ fps \in Seq(Seq(AllLines) \ {<<>>})
        /\ saved \in Seq(AllLines) /\ Len(saved) <= 1 /\ Work \in Seq(AllLines)
        /\ After(fps, f, fps') /\ DOMAIN fps' = 1..Len(fps')
        /\ MergeRight(Work, saved, fps)
        /\ job.unique /\ saved = <<>> => Work = <<>>
    BY <1>3, <1>4, <1>6, <1>8, <1>10
  <2>3. Takes(Work, saved, fps[f][1], Work', saved')
    BY <1>10 DEF line
  <2> QED BY <2>1, <2>2, <2>3, MergeStep
<1>12. GroupFits(Work', saved', fps', i', Others, OthersNow)
  <2>1. GroupFits(Work', saved', fps', i, Others, OthersNow)
    BY <1>3, <1>11, GroupKept
  <2> QED BY <1>1, <2>1
<1>13. Others = 1..(i' - 1) \cup (i' * NMERGE + 1)..Len(files') /\ job' = job /\ pc' # "round"
  BY <1>1, <1>3
<1>14. job.unique => saved' # <<>>
  BY <1>11
<1>15. /\ \A p \in Others : text'[files'[p]] = OthersNow[p] /\ files'[p] # temp'
       /\ temp' # Output => out' = <<>>
  BY <1>10
<1> QED BY <1>2, <1>12, <1>13, <1>14, <1>15, GroupFrom

LEMMA MergeEndArranges ==
  ASSUME Inv, Types, Good, Arranges, MergeEnd
  PROVE  Arranges'
<1>1. pc = "mergefps" /\ pc' = "zap" /\ fps = <<>> /\ Write(saved) /\ saved' = <<>>
      /\ UNCHANGED <<job, seq, files, i, buf, fps, temp>>
  BY DEF MergeEnd
<1>2. pc \in InGroup /\ pc' \in InGroup
  BY <1>1 DEF InGroup
<1>3. /\ Others = 1..(i - 1) \cup (i * NMERGE + 1)..Len(files)
      /\ GroupFits(Work, saved, fps, i, Others, OthersNow)
  BY <1>1, <1>2, WhileGroup
<1>4. saved \in Seq(AllLines) /\ Len(saved) <= 1
  BY <1>2 DEF Types, Sequenced
<1>5. /\ Work \in Seq(AllLines) /\ Work' = Work \o saved
      /\ \A p \in Others : text'[files'[p]] = OthersNow[p] /\ files'[p] # temp'
      /\ temp' # Output => out' = <<>>
  BY <1>1, <1>4, WriteWork
<1>6. /\ Ordered(Work) /\ Once(Work)
      /\ \A a \in Range(Work), b \in Range(saved) : InOrder(a, b) /\ (job.unique => a.key # b.key)
      /\ \A k \in DOMAIN fps : Ordered(fps[k])
      /\ \A j, k \in DOMAIN fps : j < k => Apart(Range(fps[j]), Range(fps[k]))
  BY <1>3 DEF GroupFits, MergeRight
<1>7. Ordered(Work') /\ Once(Work \o saved) /\ Range(Work') = Range(Work) \cup Range(saved)
  BY <1>4, <1>5, <1>6, Added
<1>8. Once(Work \o saved) /\ Contents(fps') = {} /\ Contents(fps) = {} /\ Range(saved') = {}
  BY <1>1, <1>7, NoLines
<1>9. MergeRight(Work', saved', fps') /\ KeepsLines(Work, saved, fps, Work', saved', fps')
  BY <1>1, <1>5, <1>6, <1>7, <1>8 DEF MergeRight, KeepsLines
<1>10. GroupFits(Work', saved', fps', i', Others, OthersNow)
  <2>1. GroupFits(Work', saved', fps', i, Others, OthersNow)
    BY <1>3, <1>9, GroupKept
  <2> QED BY <1>1, <2>1
<1>11. Others = 1..(i' - 1) \cup (i' * NMERGE + 1)..Len(files')
  BY <1>1, <1>3
<1>12. job' = job /\ pc' \notin {"round", "mergefps"} /\ (temp' # Output => out' = <<>>)
  BY <1>1, <1>5
<1>13. \A p \in Others : text'[files'[p]] = OthersNow[p] /\ files'[p] # temp'
  BY <1>5
<1> QED BY <1>2, <1>10, <1>11, <1>12, <1>13, GroupFrom

\* The files of the group are removed.
LEMMA ZapArranges ==
  ASSUME Inv, Types, Good, Arranges, ZapTemp \/ ZapNode
  PROVE  Arranges'
<1>1. pc \in {"zap", "zapped"} /\ pc' \in {"zap", "zapped"}
      /\ UNCHANGED <<job, text, files, i, fps, saved, temp, out>>
  BY DEF ZapTemp, ZapNode
<1>2. pc \in InGroup /\ pc' \in InGroup /\ pc # "round" /\ pc' \notin {"round", "mergefps"}
  BY <1>1 DEF InGroup
<1>3. /\ Others = 1..(i - 1) \cup (i * NMERGE + 1)..Len(files)
      /\ \A p \in Others : text[files[p]] = OthersNow[p] /\ files[p] # temp
      /\ GroupFits(Work, saved, fps, i, Others, OthersNow)
      /\ temp # Output => out = <<>>
  BY <1>2, WhileGroup
<1>4. Work' = Work
  BY <1>1, <1>2 DEF Work
<1>5. \A p \in Others : text'[files'[p]] = OthersNow[p] /\ files'[p] # temp'
  BY <1>1, <1>3
<1>6. GroupFits(Work, saved', fps', i', Others, OthersNow)
  BY <1>1, <1>3
<1>7. Others = 1..(i' - 1) \cup (i' * NMERGE + 1)..Len(files') /\ job' = job
      /\ (temp' # Output => out' = <<>>)
  BY <1>1, <1>3
<1> QED BY <1>2, <1>4, <1>5, <1>6, <1>7, GroupFrom

\* The merged file takes the place of its group.
LEMMA GroupEndArranges ==
  ASSUME Inv, Types, Good, Arranges, GroupEnd
  PROVE  Arranges'
<1>1. pc = "zap" /\ pc' = "merge" /\ temp # Output /\ UNCHANGED <<job, text, out>>
  BY DEF GroupEnd, files_vars
<1>2. pc \in InGroup
  BY <1>1 DEF InGroup
<1> DEFINE n == Len(files)
           e == i * NMERGE
<1>3. /\ i \in Nat \ {0} /\ n \in Nat
      /\ Others = 1..(i - 1) \cup (e + 1)..n
      /\ \A p \in Others : text[files[p]] = OthersNow[p]
      /\ GroupFits(Work, saved, fps, i, Others, OthersNow)
      /\ out = <<>>
  BY <1>1, <1>2, WhileGroup
<1>4. /\ i \in 1..n
      /\ \/ /\ e <= n /\ i' = i + 1 /\ Len(files') = n
            /\ \A p \in 1..n : files'[p] = IF p = i THEN temp ELSE files[p]
         \/ /\ e > n /\ i' = 1 /\ Len(files') = i
            /\ \A p \in 1..i : files'[p] = IF p = i THEN temp ELSE files[p]
  BY GroupEndIs
<1>5. e \in Nat /\ e >= i /\ NMERGE \in Nat
  <2> DEFINE b == (i - 1) * NMERGE
  <2>1. NMERGE \in Nat /\ NMERGE >= 2 /\ b \in Nat /\ b >= i - 1 /\ e \in Nat /\ e = b + NMERGE
    BY <1>3, GroupPlaces
  <2> HIDE DEF b, e
  <2> QED BY <1>3, <2>1
<1> DEFINE P == Others \cup {i}
<1>6. P = 1..(i' - 1) \cup ((i' - 1) * NMERGE + 1)..Len(files')
      /\ \A p \in P : files'[p] = IF p = i THEN temp ELSE files[p]
  <2>1. CASE /\ e <= n /\ i' = i + 1 /\ Len(files') = n
             /\ \A p \in 1..n : files'[p] = IF p = i THEN temp ELSE files[p]
    <3>1. i' - 1 = i
      BY <1>3, <2>1
    <3>2. (i' - 1) * NMERGE = e
      BY <3>1
    <3> HIDE DEF n, e
    <3>3. 1..i = 1..(i - 1) \cup {i}
      BY <1>3
    <3>4. P = 1..i \cup (e + 1)..n
      BY <1>3, <3>3
    <3>5. P \subseteq 1..n
      BY <1>3, <1>4, <1>5, <3>4
    <3> QED BY <2>1, <3>1, <3>2, <3>4, <3>5
  <2>2. CASE /\ e > n /\ i' = 1 /\ Len(files') = i
             /\ \A p \in 1..i : files'[p] = IF p = i THEN temp ELSE files[p]
    <3>1. 1..(1 - 1) \cup ((1 - 1) * NMERGE + 1)..i = 1..i
      BY <1>3, FirstRound
    <3> HIDE DEF n, e
    <3>2. (e + 1)..n = {} /\ 1..i = 1..(i - 1) \cup {i}
      BY <1>3, <1>5, <2>2
    <3>3. P = 1..i
      BY <1>3, <3>2
    <3> QED BY <2>2, <3>1, <3>3
  <2> QED BY <1>4, <2>1, <2>2
<1>7. i \notin Others /\ \A p \in Others : p \in Int
  <2> HIDE DEF n, e
  <2> QED BY <1>3, <1>5
<1>8. saved = <<>> /\ fps = <<>> /\ Work = text[temp]
  BY <1>1, <1>2 DEF Types, Sequenced, Work
<1> DEFINE G == Range(Work)
<1>9. Range(Work) \cup Range(saved) \cup Contents(fps) = G
  BY <1>8, NoLines
<1>10. /\ Ordered(Work)
       /\ \A p \in Others : Ordered(OthersNow[p])
       /\ \A p, q \in Others : p < q => Apart(Range(OthersNow[p]), Range(OthersNow[q]))
       /\ \A p \in Others : p < i => Apart(Range(OthersNow[p]), G)
       /\ \A p \in Others : i < p => Apart(G, Range(OthersNow[p]))
       /\ \A l \in Wanted : l \in G \/ \E p \in Others : l \in Range(OthersNow[p])
  <2> HIDE DEF G
  <2> QED BY <1>3, <1>9 DEF GroupFits, MergeRight
<1> DEFINE c == [p \in P |-> IF p = i THEN Work ELSE OthersNow[p]]
<1>11. c[i] = Work /\ i \in P /\ \A p \in Others : c[p] = OthersNow[p] /\ p \in P /\ p # i
  BY <1>7
<1>12. \A p \in P : p = i \/ p \in Others
  OBVIOUS
<1>13. \A p \in P : text'[files'[p]] = c[p]
  BY <1>1, <1>3, <1>6, <1>8, <1>11
<1> HIDE DEF P, c
<1>14. \A p \in P : Ordered(c[p])
  BY <1>10, <1>11, <1>12
<1>15. \A p, q \in P : p < q => Apart(Range(c[p]), Range(c[q]))
  <2> SUFFICES ASSUME NEW p \in P, NEW q \in P, p < q PROVE Apart(Range(c[p]), Range(c[q]))
    OBVIOUS
  <2>1. CASE p \in Others /\ q \in Others
    BY <1>10, <1>11, <2>1
  <2>2. CASE p \in Others /\ q = i
    BY <1>10, <1>11, <2>2
  <2>3. CASE p = i /\ q \in Others
    BY <1>10, <1>11, <2>3
  <2>4. CASE p = i /\ q = i
    BY <1>3, <2>4
  <2> QED BY <1>12, <2>1, <2>2, <2>3, <2>4
<1>16. \A l \in Wanted : \E p \in P : l \in Range(c[p])
  BY <1>10, <1>11
<1>17. P = 1..(i' - 1) \cup ((i' - 1) * NMERGE + 1)..Len(files')
  BY <1>6
<1>18. pc' = "merge" /\ job' = job /\ out' = <<>>
  BY <1>1, <1>3
<1> QED BY <1>13, <1>14, <1>15, <1>16, <1>17, <1>18, MergesFrom

\* The one group of the last merge was everything.
LEMMA LastEndArranges ==
  ASSUME Inv, Types, Good, Arranges, LastEnd
  PROVE  Arranges'
<1>1. pc = "zap" /\ pc' = "end" /\ temp = Output /\ UNCHANGED <<job, out>>
  BY DEF LastEnd
<1>2. pc \in InGroup
  BY <1>1 DEF InGroup
<1> DEFINE n == Len(files)
<1>3. /\ i \in Nat \ {0} /\ n \in Nat
      /\ Others = 1..(i - 1) \cup (i * NMERGE + 1)..n
      /\ GroupFits(Work, saved, fps, i, Others, OthersNow)
  BY <1>1, <1>2, WhileGroup
<1>4. i = 1 /\ n <= NMERGE /\ NMERGE \in Nat
  <2>1. n <= NMERGE /\ (i > 1 => n > NMERGE) /\ NMERGE \in Nat
    BY <1>1, NMERGEAssumption DEF Types, Rounds, Merging, InGroup
  <2> HIDE DEF n
  <2> QED BY <1>3, <2>1
<1>5. Others = {}
  <2>1. i * NMERGE + 1 = NMERGE + 1 /\ i - 1 = 0
    BY <1>4
  <2> HIDE DEF n
  <2>2. 1..0 = {} /\ (NMERGE + 1)..n = {}
    BY <1>3, <1>4
  <2> QED BY <1>3, <2>1, <2>2
<1>6. saved = <<>> /\ fps = <<>> /\ Work = out
  BY <1>1, <1>2 DEF Types, Sequenced, Work
<1>7. Range(Work) \cup Range(saved) \cup Contents(fps) = Range(out)
  BY <1>6, NoLines
<1>8. Ordered(out) /\ Once(out)
  BY <1>3, <1>6 DEF GroupFits, MergeRight
<1>9. Wanted \subseteq Range(out)
  <2>1. \A l \in Wanted : l \in Range(Work) \cup Range(saved) \cup Contents(fps)
                            \/ \E p \in Others : l \in Range(OthersNow[p])
    BY <1>3 DEF GroupFits
  <2> QED BY <1>5, <1>7, <2>1
<1>10. Wanted' = Wanted /\ Ordered(out') /\ Once(out)'
  BY <1>1, <1>8, SameJob DEF Once
<1>11. EndsRight'
  BY <1>1, <1>9, <1>10 DEF EndsRight
<1> QED BY <1>1, <1>11
        DEF Arranges, Begins, SortsRight, GroupRight, RoundRight, Sorting, InGroup, Merging

LEMMA InitArranges == Init => Arranges
BY DEF Init, Arranges, Begins, SortsRight, GroupRight, RoundRight, EndsRight, Sorting,
       InGroup, Merging

\* sort fails or is killed, or is still at its inputs.
LEMMA QuietArranges ==
  ASSUME pc' \in {"failure", "killed", "main", "copy"}, pc' \in {"main", "copy"} => out' = <<>>
  PROVE  Arranges'
BY DEF Arranges, Begins, SortsRight, GroupRight, RoundRight, EndsRight, Sorting, InGroup, Merging

LEMMA ExitArranges ==
  ASSUME Arranges, Exit
  PROVE  Arranges'
<1>1. pc = "end" /\ pc' = "success" /\ job' = job /\ out' = out
  BY DEF Exit
<1>2. Ordered(out) /\ Once(out) /\ Wanted \subseteq Range(out)
  BY <1>1 DEF Arranges, EndsRight
<1>3. Wanted' = Wanted /\ Ordered(out') /\ Once(out)'
  BY <1>1, <1>2, SameJob DEF Once
<1>4. EndsRight'
  BY <1>1, <1>2, <1>3 DEF EndsRight
<1> QED BY <1>1, <1>4
        DEF Arranges, Begins, SortsRight, GroupRight, RoundRight, Sorting, InGroup, Merging

LEMMA NextArranges ==
  ASSUME Inv, Types, Good => Arranges, [Next]_vars
  PROVE  (Good => Arranges)'
<1>1. job' = job
  BY DEF Next, vars, SortStep, Finished, Error, Signal, Fail, OpenFails, CopyName, CopyFile,
         InputMissing, OpenOutput, SortOpen, Read, ReadEnd, Direct, ChunkName, ChunkWrite,
         SortMerge, RoundName, RoundCreate, LastMerge, MergeLine, MergeEnd, ZapTemp, ZapNode,
         GroupEnd, LastEnd, Exit
<1>2. SUFFICES ASSUME Good PROVE Arranges'
  <2>1. Good' = Good
    BY <1>1, SameJob DEF Good
  <2> QED BY <2>1
<1>3. Arranges
  BY <1>2
<1>4. ASSUME UNCHANGED vars PROVE Arranges'
  <2>1. UNCHANGED <<job, text, temphead, files, pc, i, left,
                       n_temp_files, buf, fps, saved, temp, out>>
    BY <1>4 DEF vars, files_vars, merge_vars
  <2>2. AllLines' = AllLines /\ Wanted' = Wanted
    BY <2>1, SameJob
  <2>3. Begins' /\ EndsRight'
    BY <1>3, <2>1, <2>2 DEF Arranges, Begins, EndsRight, Ordered, Once
  <2>4. Unread' = Unread /\ Chunks' = Chunks /\ InHand' = InHand /\ Held' = Held
    BY <2>1, <2>2 DEF Unread, Chunks, InHand, Held
  <2>5. CASE pc \in Sorting
    <3>1. /\ \A k \in DOMAIN Chunks : Ordered(Chunks[k])
          /\ \A j, k \in DOMAIN Chunks : j < k => Apart(Range(Chunks[k]), Range(Chunks[j]))
          /\ Apart(Contents(Chunks), InHand)
          /\ pc \in {"direct", "chunk", "chunk_write"} => Ordered(buf) /\ Once(buf) /\ out = <<>>
          /\ pc = "direct" => n_temp_files = 0 /\ Unread = {}
          /\ Apart(Held, Unread) /\ Wanted \subseteq Held \cup Unread
          /\ Ordered(out) /\ Once(out)
          /\ out # <<>> => n_temp_files = 0 /\ Unread = {}
          /\ Held = Contents(Chunks) \cup InHand \cup Range(out)
      BY <1>3, <2>5, WhileSorting
    <3> QED BY <2>1, <2>4, <2>5, <3>1, SortsFrom
  <2>6. CASE pc = "merge"
    <3>1. RoundRight /\ Others' = Others /\ InOthers' = InOthers
      BY <1>3, <2>1 DEF Arranges, Others, InOthers
    <3>2. RoundRight'
      BY <2>1, <2>2, <2>6, <3>1 DEF RoundRight, InGroup
    <3> QED BY <2>1, <2>3, <2>6, <3>2 DEF Arranges, SortsRight, GroupRight, Sorting, InGroup
  <2>7. CASE pc \in InGroup
    <3>1. /\ Others = 1..(i - 1) \cup (i * NMERGE + 1)..Len(files)
          /\ \A p \in Others : text[files[p]] = OthersNow[p] /\ files[p] # temp
          /\ GroupFits(Work, saved, fps, i, Others, OthersNow)
          /\ pc \in {"round", "mergefps"} /\ job.unique /\ saved = <<>> => Work = <<>>
          /\ pc = "round" \/ temp # Output => out = <<>>
      BY <1>3, <2>7, WhileGroup
    <3>2. Work' = Work
      BY <2>1 DEF Work
    <3>3. \A p \in Others : text'[files'[p]] = OthersNow[p] /\ files'[p] # temp'
      BY <2>1, <3>1
    <3>4. GroupFits(Work, saved', fps', i', Others, OthersNow)
      BY <2>1, <3>1
    <3>5. /\ Others = 1..(i' - 1) \cup (i' * NMERGE + 1)..Len(files') /\ job' = job
          /\ pc' \in InGroup
          /\ pc' \in {"round", "mergefps"} /\ job.unique /\ saved' = <<>> => Work = <<>>
          /\ pc' = "round" \/ temp' # Output => out' = <<>>
      BY <2>1, <2>7, <3>1
    <3> QED BY <3>2, <3>3, <3>4, <3>5, GroupFrom
  <2>8. CASE pc \notin Sorting /\ pc \notin Merging
    BY <2>1, <2>3, <2>8 DEF Arranges, SortsRight, GroupRight, RoundRight, Merging
  <2> QED BY <2>5, <2>6, <2>7, <2>8 DEF Merging
<1>5. ASSUME Fail PROVE Arranges'
  BY <1>5, QuietArranges DEF Fail
<1>6. CASE Finished
  BY <1>4, <1>6 DEF Finished
<1>7. CASE Signal
  BY <1>7, QuietArranges DEF Signal
<1>8. CASE Error
  BY <1>5, <1>8 DEF Error
<1>9. CASE SortStep
  <2>1. CASE InputMissing \/ OpenFails
    BY <1>5, <2>1 DEF InputMissing, OpenFails
  <2>2. CASE CopyName \/ CopyFile
    <3>1. pc \in {"main", "copy"} /\ pc' \in {"main", "copy"} /\ out' = out
      BY <2>2 DEF CopyName, CopyFile
    <3> QED BY <1>3, <3>1, QuietArranges DEF Arranges, Begins
  <2> QED
    BY <1>2, <1>3, <1>9, <2>1, <2>2, OpenOutputArranges, SortOpenArranges, ReadArranges,
       ReadEndArranges, DirectArranges, ChunkNameArranges, ChunkWriteArranges, SortMergeArranges,
       RoundNameArranges, RoundCreateArranges, LastMergeArranges, MergeLineArranges,
       MergeEndArranges, ZapArranges, GroupEndArranges, LastEndArranges, ExitArranges DEF SortStep
<1> QED BY <1>4, <1>6, <1>7, <1>8, <1>9 DEF Next

------------------------------------------------------------------------------
(* What sort leaves when it succeeds                                       *)

\* Of the lines with the key of l there is a first one, and it is wanted.
LEMMA FirstOfKey ==
  ASSUME job \in Jobs, NEW l \in AllLines
  PROVE  \E m \in Wanted : m.key = l.key
<1> DEFINE S == {m \in AllLines : m.key = l.key}
           s == Arranged(S, InOrder)
           n == Len(s)
<1>1. S \subseteq AllLines
  OBVIOUS
<1>2. s \in Seq(S) /\ Range(s) = S /\ \A j, k \in 1..n : j < k => InOrder(s[j], s[k])
  <2> HIDE DEF S
  <2> QED BY <1>1, SortedLines
<1>3. l \in S /\ \A m \in S : m \in AllLines /\ m.key = l.key
  OBVIOUS
<1>4. \A m \in AllLines : m.key = l.key => m \in S
  OBVIOUS
<1> HIDE DEF S, s
<1>5. n \in Nat /\ DOMAIN s = 1..n /\ \A m \in S : \E k \in 1..n : s[k] = m
  BY <1>2 DEF Range
<1> HIDE DEF n
<1>6. 1 \in 1..n
  BY <1>3, <1>5
<1>7. s[1] \in S
  BY <1>2, <1>5, <1>6 DEF Range
<1>8. ASSUME NEW m \in AllLines, m.key = s[1].key PROVE m = s[1] \/ InOrder(s[1], m)
  <2>1. m \in S
    BY <1>3, <1>4, <1>7, <1>8
  <2>2. PICK k \in 1..n : s[k] = m
    BY <1>5, <2>1
  <2>3. k = 1 \/ 1 < k
    BY <1>5, <2>2
  <2> QED BY <1>2, <1>6, <2>2, <2>3
<1>9. s[1] \in Wanted
  BY <1>3, <1>7, <1>8 DEF Wanted
<1> QED BY <1>3, <1>7, <1>9

\* An output that is in order, has each key once with -u, and lacks no line that is wanted
\* is just the lines wanted.
LEMMA OutputIs ==
  ASSUME job \in Jobs, out \in Seq(AllLines), Ordered(out), Once(out), Wanted \subseteq Range(out)
  PROVE  /\ Len(out) = Cardinality(Wanted) /\ Range(out) = Wanted
         /\ \A k \in 2..Len(out) : InOrder(out[k - 1], out[k])
<1> DEFINE n == Len(out)
<1>1. n \in Nat /\ DOMAIN out = 1..n /\ (\A k \in 1..n : out[k] \in AllLines)
      /\ out \in [1..n -> AllLines] /\ Range(out) = {out[k] : k \in 1..n}
  BY DEF Range
<1>2. \A j, k \in 1..n : j < k => InOrder(out[j], out[k])
  BY DEF Ordered
<1>3. job.unique => \A j, k \in 1..n : j # k => out[j].key # out[k].key
  BY DEF Once
<1> HIDE DEF n
<1>4. ASSUME NEW k \in 1..n PROVE out[k] \in Wanted
  <2>1. CASE ~job.unique
    BY <1>1, <2>1 DEF Wanted
  <2>2. CASE job.unique
    <3>1. PICK m \in Wanted : m.key = out[k].key
      BY <1>1, FirstOfKey
    <3>2. PICK j \in 1..n : m = out[j]
      BY <1>1, <3>1
    <3>3. j = k
      BY <1>3, <2>2, <3>1, <3>2
    <3> QED BY <3>1, <3>2, <3>3
  <2> QED BY <2>1, <2>2
<1>5. Range(out) = Wanted
  BY <1>1, <1>4
<1>6. ASSUME NEW j \in 1..n, NEW k \in 1..n, out[j] = out[k] PROVE j = k
  <2>1. ~InOrder(out[j], out[k]) /\ ~InOrder(out[k], out[j])
    BY <1>1, <1>6, LineOrder
  <2>2. ~(j < k) /\ ~(k < j)
    BY <1>2, <2>1
  <2> QED BY <1>1, <2>2
<1>7. out \in [1..n -> Wanted]
  BY <1>1, <1>4
<1>8. \A x \in Wanted : \E k \in 1..n : out[k] = x
  BY <1>1, <1>5
<1>9. out \in Bijection(1..n, Wanted)
  BY <1>1, <1>6, <1>7, <1>8 DEF Bijection, Injection, Surjection, IsInjective
<1>10. Cardinality(Wanted) = n
  <2>1. ExistsBijection(1..n, Wanted)
    BY <1>9 DEF ExistsBijection
  <2> QED BY <1>1, <2>1, FS_CountingElements
<1>11. \A k \in 2..n : InOrder(out[k - 1], out[k])
  <2> SUFFICES ASSUME NEW k \in 2..n PROVE InOrder(out[k - 1], out[k])
    OBVIOUS
  <2>1. k - 1 \in 1..n /\ k \in 1..n /\ k - 1 < k
    BY <1>1
  <2> QED BY <1>2, <2>1
<1> QED BY <1>5, <1>10, <1>11 DEF n

LEMMA ArrangesImply == Inv /\ Types /\ (Good => Arranges) => OutputIsSorted
<1> SUFFICES ASSUME Inv, Types, Arranges, pc = "success"
             PROVE  /\ Len(out) = Cardinality(Wanted) /\ Range(out) = Wanted
                    /\ \A k \in 2..Len(out) : InOrder(out[k - 1], out[k])
  BY DEF OutputIsSorted, Good
<1>1. job \in Jobs
  BY DEF Inv, Names
<1>2. out \in Seq(AllLines)
  BY DEF Types, Stored
<1>3. Ordered(out) /\ Once(out) /\ Wanted \subseteq Range(out)
  BY DEF Arranges, EndsRight
<1> QED BY <1>1, <1>2, <1>3, OutputIs

\* When sort succeeds its output is that of a stable sort of all the inputs, and with -u the
\* first line of each key: for all inputs, whatever fits in memory, for every NMERGE and so
\* for every number of rounds of merge () and every size of its remainders.
THEOREM OutputCorrect == Spec => []OutputIsSorted
<1>1. Init => Inv /\ Types /\ (Good => Arranges)
  BY InitInv, InitTypes, InitArranges
<1>2. Inv /\ Types /\ (Good => Arranges) /\ [Next]_vars => Inv' /\ Types' /\ (Good => Arranges)'
  BY NextInv, NextTypes, NextArranges
<1>3. Inv /\ Types /\ (Good => Arranges) => OutputIsSorted
  BY ArrangesImply
<1> QED BY <1>1, <1>2, <1>3, PTL DEF Spec
==============================================================================
