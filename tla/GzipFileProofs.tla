---------------------------- MODULE GzipFileProofs ----------------------------
(***************************************************************************)
(* Theorems about GzipFile, for all files, contents, command lines and      *)
(* failures: no file claims more data than there was, all data is kept, and  *)
(* however gzip ends it leaves nothing partial and removes nothing but its   *)
(* own output.  The last three hold while the gaps of the program are        *)
(* avoided that are named under "Hypotheses".                                *)
(***************************************************************************)
EXTENDS GzipFile, FiniteSetTheorems, TLAPS

Kind == {"good", "damaged", "refused", "unknown", "garbage"}
Entry == [kind : Kind, end : Nat]
File == [of : Name \cup {NoName}, upto : Nat]

USE DEF setting, aside

------------------------------------------------------------------------------
(* Hypotheses                                                              *)

\* No member but the last ends where the input buffer does.
EndsInside ==
  \A held \in Contents : \A n \in Name : \A k \in DOMAIN held[n] :
    k < Len(held[n]) => held[n][k].end % Inbufsiz # 0

\* No read fails in a file that gzip compresses.
ReadsTell == \A n \in ReadFails \cap Name : OutName[FALSE][n] = NoName

\* A file that gzip gives up after it has begun the output is the last one.
LastGivenUp == pc = "next" /\ remove_ofname => i > Len(args)

\* Names in a header are not used (no -N), and names can be ranked such that gzip makes a
\* name of higher and gzip -d one of lower rank, as both do that add and remove suffixes.
Suffixes(rank) ==
  /\ \A n \in Name : OrigNames[n] \subseteq {NoName}
  /\ \A n \in Name : OutName[FALSE][n] # NoName => rank[OutName[FALSE][n]] > rank[n]
  /\ \A n \in Name : OutName[TRUE][n] # NoName => rank[OutName[TRUE][n]] < rank[n]

------------------------------------------------------------------------------
(* The invariant for TypeOK                                                *)

Types ==
  /\ pc \in {"next", "name", "open", "method", "create", "creating", "work",
             "close", "stat", "remove", "exited"}
  /\ decompress \in BOOLEAN /\ args \in Seq(Name) /\ members \in Contents
  /\ i \in 1 .. Len(args) + 1
  /\ ifname \in Name \cup {NoName} /\ ofname \in Name \cup {NoName}
  /\ remove_ofname \in BOOLEAN
  /\ method \in {0, -1, -2} /\ part_nb \in Nat
  /\ disk \in [Name -> File]
  /\ given \subseteq Name
  /\ exit_code \in 0 .. 2

\* No file has more pieces than the data has.
Bounded ==
  \A n \in Name : \/ disk[n] = NoFile
                  \/ disk[n].of \in Name /\ disk[n].upto <= Pieces(disk[n].of)

\* treat_file has an input.
Treating ==
  pc \notin {"next", "exited"} =>
    /\ i <= Len(args) /\ ifname \in Name /\ ofname \in Name
    /\ disk[ifname] # NoFile

\* The output has been created and gets the data of the input.
Begun == pc \in {"work", "close", "stat", "remove"} \/ (pc = "method" /\ part_nb > 0)
Writing ==
  Begun => ofname # ifname /\ disk[ofname] # NoFile /\ disk[ofname].of = Data

\* The name for it is free before.
Free == pc = "creating" => ofname # ifname /\ disk[ofname] = NoFile

\* The first n members are good.
GoodUpTo(n) == \A k \in 1 .. n : members[Data][k].kind = "good"

\* As many members are in the output as were found and extracted.
Counted ==
  /\ pc \in {"create", "creating"} =>
       IF decompress
         THEN /\ part_nb = 1 /\ Len(members[Data]) >= 1
              /\ Member(1) \in {"good", "damaged", "refused"}
         ELSE part_nb = 0
  /\ pc = "method" => /\ decompress /\ part_nb <= Len(members[Data]) /\ GoodUpTo(part_nb)
                      /\ part_nb > 0 => disk[ofname].upto = part_nb
  /\ pc = "work" => IF decompress
                      THEN /\ part_nb >= 1 /\ part_nb <= Len(members[Data])
                           /\ GoodUpTo(part_nb - 1) /\ disk[ofname].upto = part_nb - 1
                           /\ Member(part_nb) \in {"good", "damaged", "refused"}
                      ELSE disk[ofname].upto <= disk[ifname].upto

Inv == Types /\ Bounded /\ Treating /\ Writing /\ Free /\ Counted

------------------------------------------------------------------------------
(* The invariant for what gzip leaves behind                               *)

\* The output is marked for removal exactly while it is gzip's own and not complete.
Marked ==
  /\ Begun /\ pc # "remove" => remove_ofname
  /\ pc \notin {"next", "exited"} /\ ~Begun => ~remove_ofname
  /\ pc = "remove" => ~remove_ofname
  /\ pc = "next" /\ remove_ofname => ofname \in Name /\ disk[ofname] = NoFile

\* What gzip is about to compress can be read.
Readable == pc \notin {"next", "name", "exited"} => OutName[decompress][ifname] # NoName

\* Every file but the output at work is complete.
Partial(n) == n = ofname /\ pc \in {"method", "work", "close"} /\ Begun
Complete ==
  /\ \A n \in Name : disk[n] = NoFile \/ disk[n] = Whole(disk[n].of) \/ Partial(n)
  /\ pc = "close" /\ method # -1 => disk[ofname] = Whole(Data)

Safe == Readable /\ Complete /\ DataKept
SafeInv == Inv /\ Marked /\ Safe

------------------------------------------------------------------------------
(* The invariant for the exit code                                         *)

\* Data moves up, or down, in rank.
Ranked(rank) ==
  /\ pc \notin {"next", "name", "exited"} => ofname = OutName[decompress][ifname]
  /\ \A n \in Name :
       disk[n] # NoFile /\ disk[n].of # n =>
         IF decompress THEN rank[n] < rank[disk[n].of] ELSE rank[n] > rank[disk[n].of]

\* For each argument the file found is noted.
Logged ==
  /\ treated \in Seq([file : Name \cup {NoName}, data : Name \cup {NoName}])
  /\ Len(treated) \in {i - 1, i}
  /\ pc = "next" => Len(treated) = i - 1
  /\ pc \notin {"next", "exited"} => Len(treated) = i

\* The input is the one the argument asks for, and still holds what it held when found.
Asked ==
  pc \notin {"next", "exited"} =>
    ifname \in AskedFor(i) /\ treated[i].file = ifname /\ treated[i].data = Data

\* An output is given up with an exit code.
Judged ==
  /\ pc \in {"method", "create", "creating", "work"} => method = 0
  /\ pc = "close" /\ method = -1 => exit_code # 0

\* All data is some file's that was there at first.
Sourced == \A n \in Name : disk[n] # NoFile => disk[n].of \in Existing

\* While nothing failed no data is in two files, but for that of the input at work.
Unique ==
  exit_code = 0 =>
    \A m, n \in Name :
      disk[m] # NoFile /\ disk[n] # NoFile /\ disk[m].of = disk[n].of =>
        m = n \/ (Begun /\ m \in {ifname, ofname} /\ n \in {ifname, ofname})

\* While nothing failed the data of each file treated is only further on in rank.
Beyond(rank, n, m) == IF decompress THEN rank[n] < rank[m] ELSE rank[n] > rank[m]
Moved(rank, k) ==
  /\ treated[k].file \in AskedFor(k) /\ treated[k].data \in Existing
  /\ \A n \in Name : disk[n] # NoFile /\ disk[n].of = treated[k].data =>
                     Beyond(rank, n, treated[k].file)
Gone(rank) ==
  exit_code = 0 =>
    /\ pc = "exited" => i > Len(args) /\ Len(treated) = i - 1
    /\ \A k \in 1 .. i - 1 : Moved(rank, k)

ExitInv(rank) ==
  SafeInv /\ Logged /\ Ranked(rank) /\ Asked /\ Judged /\ Sourced /\ Unique /\ Gone(rank)

------------------------------------------------------------------------------
(* Lemmas about data                                                       *)

LEMMA MembersType ==
  ASSUME Types, NEW d \in Name
  PROVE  /\ members[d] \in Seq(Entry)
         /\ \A k \in 1 .. Len(members[d]) :
              members[d][k].kind = "garbage" => k = Len(members[d])
BY ContentsAssumption DEF Types, Entry, Kind

\* Members that are not garbage are pieces, and these come first.
LEMMA GoodPieces ==
  ASSUME Types, NEW d \in Name, NEW n \in Nat, n <= Len(members[d]),
         \A k \in 1 .. n : members[d][k].kind # "garbage"
  PROVE  /\ Pieces(d) \in Nat /\ n <= Pieces(d)
         /\ n = Len(members[d]) \/ members[d][n + 1].kind = "garbage" => Pieces(d) = n
<1> DEFINE m == members[d]
           P == {k \in DOMAIN m : m[k].kind # "garbage"}
<1>1. /\ m \in Seq(Entry) /\ DOMAIN m = 1 .. Len(m) /\ Len(m) \in Nat
      /\ \A k \in 1 .. Len(m) : m[k].kind = "garbage" => k = Len(m)
  BY MembersType
<1> HIDE DEF m
<1>2. P \subseteq 1 .. Len(m) /\ 1 .. n \subseteq P
  BY <1>1 DEF m
<1>3. IsFiniteSet(1 .. Len(m)) /\ Cardinality(1 .. n) = n
  <2>1. 1 \in Int /\ n \in Int /\ Len(m) \in Int
    BY <1>1
  <2>2. IsFiniteSet(1 .. Len(m))
    BY <2>1, FS_Interval
  <2>3. Cardinality(1 .. n) = IF 1 > n THEN 0 ELSE n - 1 + 1
    BY <2>1, FS_Interval
  <2> QED BY <2>2, <2>3
<1>4. IsFiniteSet(P)
  BY <1>2, <1>3, FS_Subset
<1>5. Cardinality(P) \in Nat /\ n <= Cardinality(P)
  BY <1>2, <1>3, <1>4, FS_Subset, FS_CardinalityType
<1>6. ASSUME n = Len(m) \/ m[n + 1].kind = "garbage"
      PROVE  P = 1 .. n
  <2>1. CASE n = Len(m)
    BY <1>2, <2>1
  <2>2. CASE n < Len(m)
    <3>0. Len(m) \in Nat /\ n \in Nat /\ n < Len(m)
      BY <1>1, <2>2
    <3>1. n + 1 \in 1 .. Len(m) /\ m[n + 1].kind = "garbage"
      <4>1. n + 1 \in 1 .. Len(m) /\ n # Len(m)
        BY <3>0
      <4> QED BY <4>1, <1>6
    <3>2. n + 1 = Len(m)
      BY <1>1, <3>1
    <3>3. n + 1 \notin P
      BY <3>1
    <3>4. ASSUME NEW x \in P PROVE x \in 1 .. n
      <4>1. x \in 1 .. Len(m) /\ x # n + 1
        BY <1>2, <3>3
      <4> QED BY <3>0, <3>2, <4>1
    <3> QED BY <1>2, <3>4
  <2> QED BY <1>1, <2>1, <2>2 DEF m
<1> QED BY <1>3, <1>5, <1>6 DEF Pieces, m

LEMMA PiecesType ==
  ASSUME Types, NEW d \in Name
  PROVE  Pieces(d) \in Nat
<1>1. 0 <= Len(members[d])
  BY MembersType
<1> QED BY <1>1, GoodPieces

LEMMA SamePieces ==
  ASSUME members' = members
  PROVE  \A d : Pieces(d)' = Pieces(d) /\ Whole(d)' = Whole(d)
BY DEF Pieces, Whole

------------------------------------------------------------------------------
(* The invariant for TypeOK is inductive                                   *)

\* The data of the input is some file's.
LEMMA DataType ==
  ASSUME Types, Bounded, Treating, pc \notin {"next", "exited"}
  PROVE  /\ Data \in Name /\ members[Data] \in Seq(Entry) /\ Pieces(Data) \in Nat
         /\ disk[ifname].upto \in Nat /\ disk[ifname].upto <= Pieces(Data)
         /\ \A n : Member(n) = IF n \in 1 .. Len(members[Data])
                                 THEN members[Data][n].kind ELSE "none"
<1>1. ifname \in Name /\ disk[ifname] # NoFile
  BY DEF Treating
<1>2. Data \in Name /\ disk[ifname].upto <= Pieces(Data)
  BY <1>1 DEF Bounded, Data
<1>3. disk[ifname].upto \in Nat
  BY <1>1 DEF Types, File
<1>4. members[Data] \in Seq(Entry)
  BY <1>2, MembersType
<1>5. Pieces(Data) \in Nat
  BY <1>2, PiecesType
<1> HIDE DEF Entry
<1> QED BY <1>2, <1>3, <1>4, <1>5 DEF Member

LEMMA InitInv == Init => Inv
<1> SUFFICES ASSUME Init PROVE Inv
  OBVIOUS
<1>1. Types
  <2>1. decompress \in BOOLEAN /\ args \in Seq(Name) /\ Len(args) \in Nat
    BY NameAssumption DEF Init
  <2>2. ASSUME NEW n \in Existing PROVE Whole(n) \in File
    <3>1. Cardinality({k \in DOMAIN members[n] : members[n][k].kind # "garbage"}) \in Nat
      <4>1. members[n] \in Seq(Entry) /\ Len(members[n]) \in Nat
        BY NameAssumption, ContentsAssumption DEF Init, Entry, Kind
      <4>2. IsFiniteSet(1 .. Len(members[n])) /\ DOMAIN members[n] = 1 .. Len(members[n])
        <5>1. 1 \in Int /\ Len(members[n]) \in Int
          BY <4>1
        <5>2. IsFiniteSet(1 .. Len(members[n]))
          BY <5>1, FS_Interval
        <5>3. DOMAIN members[n] = 1 .. Len(members[n])
          BY <4>1
        <5> QED BY <5>2, <5>3
      <4>3. IsFiniteSet({k \in DOMAIN members[n] : members[n][k].kind # "garbage"})
        BY <4>2, FS_Subset
      <4> QED BY <4>3, FS_CardinalityType
    <3> QED BY <3>1, NameAssumption DEF Whole, Pieces, File
  <2>3. disk \in [Name -> File]
    BY <2>2, NameAssumption DEF Init, File, NoFile
  <2>4. i \in 1 .. Len(args) + 1
    BY <2>1 DEF Init
  <2>5. members \in Contents /\ pc = "next"
    BY DEF Init
  <2>6. ifname = NoName /\ ofname = NoName /\ remove_ofname = FALSE
    BY DEF Init
  <2>7. method = 0 /\ part_nb = 0 /\ given = {} /\ exit_code = 0
    BY DEF Init
  <2>8. /\ pc \in {"next", "name", "open", "method", "create", "creating", "work",
                  "close", "stat", "remove", "exited"}
        /\ ifname \in Name \cup {NoName} /\ ofname \in Name \cup {NoName}
        /\ remove_ofname \in BOOLEAN
    BY <2>5, <2>6
  <2>9. method \in {0, -1, -2} /\ part_nb \in Nat /\ given \subseteq Name /\ exit_code \in 0 .. 2
    BY <2>7
  <2> QED BY <2>1, <2>3, <2>4, <2>5, <2>8, <2>9 DEF Types
<1>2. Bounded
  <2>1. ASSUME NEW n \in Existing PROVE Whole(n) = [of |-> n, upto |-> Pieces(n)] /\ n \in Name
    BY NameAssumption DEF Whole
  <2>2. ASSUME NEW n \in Name PROVE Pieces(n) \in Nat
    BY <1>1, PiecesType
  <2> QED BY <2>1, <2>2 DEF Init, Bounded
<1>3. Treating /\ Writing /\ Free /\ Counted
  BY DEF Init, Treating, Writing, Begun, Free, Counted
<1> QED BY <1>1, <1>2, <1>3 DEF Inv

\* What a step that leaves the input alone leaves unchanged.
LEMMA SameData ==
  ASSUME members' = members, Data' = Data
  PROVE  /\ \A n : Member(n)' = Member(n)
         /\ \A n : GoodUpTo(n)' = GoodUpTo(n)
         /\ Len(members[Data])' = Len(members[Data])
BY DEF Member, GoodUpTo

\* Giving up: the output, or what is taken for it, is removed.
LEMMA AbortInv ==
  ASSUME Inv, Abort
  PROVE  Inv'
<1>1. Types'
  BY DEF Inv, Types, Abort, Remove, NoFile, File
<1>2. Bounded'
  <2>1. members' = members /\ \A n \in Name : disk'[n] = disk[n] \/ disk'[n] = NoFile
    BY DEF Inv, Types, Abort, Remove
  <2> QED BY <2>1, SamePieces DEF Inv, Bounded, NoFile
<1>3. Treating' /\ Writing' /\ Free' /\ Counted'
  BY DEF Abort, Treating, Writing, Begun, Free, Counted
<1> QED BY <1>1, <1>2, <1>3 DEF Inv

\* The next file, with the disk as it is or with a file removed.
LEMMA NextFileInv ==
  ASSUME Inv, NEW code \in 0 .. 2, NextFile(code), pc # "exited", i <= Len(args),
         UNCHANGED setting, UNCHANGED given \/ given' \subseteq Name,
         ifname' \in Name \cup {NoName}, ofname' \in Name \cup {NoName},
         remove_ofname' \in BOOLEAN, method' \in {0, -1, -2}, part_nb' \in Nat,
         UNCHANGED disk \/ (\E n \in Name : Remove(n))
  PROVE  Inv'
<1>1. disk' \in [Name -> File] /\ \A n \in Name : disk'[n] = disk[n] \/ disk'[n] = NoFile
  BY DEF Inv, Types, Remove, NoFile, File
<1>2. Types'
  <2>1. i' \in 1 .. Len(args') + 1
    BY DEF Inv, Types, NextFile
  <2> QED BY <1>1, <2>1 DEF Inv, Types, NextFile
<1>3. Bounded'
  BY <1>1, SamePieces DEF Inv, Bounded, NoFile
<1>4. Treating' /\ Writing' /\ Free' /\ Counted'
  BY DEF NextFile, Treating, Writing, Begun, Free, Counted
<1> QED BY <1>2, <1>3, <1>4 DEF Inv

LEMMA SameDisk ==
  ASSUME Inv, UNCHANGED <<disk, setting>>
  PROVE  Bounded'
BY SamePieces DEF Inv, Bounded

LEMMA TreatFileInv == Inv /\ TreatFile => Inv'
<1> SUFFICES ASSUME Inv, TreatFile PROVE Inv'
  OBVIOUS
<1>1. pc = "next" /\ i <= Len(args) /\ args[i] \in Name
  BY DEF TreatFile, Inv, Types
<1>2. CASE NextFile(1) /\ UNCHANGED <<ifname, ofname>>
  BY <1>1, <1>2, NextFileInv DEF TreatFile, Inv, Types
<1>3. ASSUME NEW n \in Name, disk[n] # NoFile, ifname' = n, ofname' = n, pc' = "name",
             UNCHANGED <<i, exit_code>>
      PROVE  Inv'
  <2>1. Types'
    BY <1>3 DEF TreatFile, Inv, Types
  <2>2. Bounded'
    BY SameDisk DEF TreatFile
  <2>3. Treating' /\ Writing' /\ Free' /\ Counted'
    BY <1>1, <1>3 DEF TreatFile, Treating, Writing, Begun, Free, Counted
  <2> QED BY <2>1, <2>2, <2>3 DEF Inv
<1>4. Suffixed[args[i]] \subseteq Name
  BY <1>1, NameAssumption
<1> QED BY <1>1, <1>2, <1>3, <1>4 DEF TreatFile

LEMMA MakeOfnameInv == Inv /\ MakeOfname => Inv'
<1> SUFFICES ASSUME Inv, MakeOfname PROVE Inv'
  OBVIOUS
<1> DEFINE out == OutName[decompress][ifname]
<1>1. pc = "name" /\ i <= Len(args) /\ ifname \in Name /\ disk[ifname] # NoFile
  BY DEF MakeOfname, Inv, Treating
<1>2. out \in Name \cup {NoName}
  BY <1>1, NameAssumption DEF Inv, Types
<1>3. CASE out = NoName
  <2>1. Warned \in 0 .. 2 /\ NextFile(Warned)
    BY <1>3 DEF MakeOfname, Warned, Inv, Types
  <2> QED BY <1>1, <1>3, <2>1, NextFileInv DEF MakeOfname, Inv, Types
<1>4. CASE out # NoName
  <2>0. pc' = "open" /\ ofname' = out /\ UNCHANGED <<i, exit_code>>
    BY <1>4 DEF MakeOfname
  <2>1. Types'
    BY <1>2, <1>4, <2>0 DEF MakeOfname, Inv, Types
  <2>2. Bounded'
    BY SameDisk DEF MakeOfname
  <2>3. Treating' /\ Writing' /\ Free' /\ Counted'
    BY <1>1, <1>2, <1>4, <2>0 DEF MakeOfname, Treating, Writing, Begun, Free, Counted
  <2> QED BY <2>1, <2>2, <2>3 DEF Inv
<1> QED BY <1>3, <1>4

LEMMA OpenInputInv == Inv /\ OpenInput => Inv'
<1> SUFFICES ASSUME Inv, OpenInput PROVE Inv'
  OBVIOUS
<1>1. pc = "open" /\ i <= Len(args) /\ ifname \in Name /\ ofname \in Name /\ disk[ifname] # NoFile
  BY DEF OpenInput, Inv, Treating
<1>2. CASE NextFile(1) /\ UNCHANGED <<part_nb, method>>
  BY <1>1, <1>2, NextFileInv DEF OpenInput, Inv, Types
<1>3. CASE /\ part_nb' = 0 /\ method' = 0
           /\ pc' = IF decompress THEN "method" ELSE "create"
           /\ UNCHANGED <<i, exit_code>>
  <2>1. Types'
    BY <1>3 DEF OpenInput, Inv, Types
  <2>2. Bounded'
    BY SameDisk DEF OpenInput
  <2>3. Treating' /\ Writing' /\ Free'
    BY <1>1, <1>3 DEF OpenInput, Treating, Writing, Begun, Free
  <2>4. Counted'
    <3>1. Len(members[Data]) \in Nat
      BY <1>1, DataType DEF Inv
    <3>2. Data' = Data /\ members' = members
      BY DEF OpenInput, Data
    <3>3. part_nb' = 0 /\ decompress' = decompress
          /\ pc' = IF decompress THEN "method" ELSE "create"
      BY <1>3 DEF OpenInput
    <3>4. GoodUpTo(0)'
      BY DEF GoodUpTo
    <3> QED BY <3>1, <3>2, <3>3, <3>4, SameData DEF Counted
  <2> QED BY <2>1, <2>2, <2>3, <2>4 DEF Inv
<1> QED BY <1>2, <1>3 DEF OpenInput

LEMMA GetMethodInv == Inv /\ GetMethod => Inv'
<1> SUFFICES ASSUME Inv, GetMethod PROVE Inv'
  OBVIOUS
<1>1. /\ pc = "method" /\ i <= Len(args) /\ ifname \in Name /\ ofname \in Name
      /\ disk[ifname] # NoFile /\ decompress /\ part_nb \in Nat
      /\ GoodUpTo(part_nb) /\ (part_nb > 0 => disk[ofname].upto = part_nb)
  BY DEF GetMethod, Inv, Types, Treating, Counted
<1>2. Len(members[Data]) \in Nat /\ part_nb + 1 \in 1 .. Len(members[Data])
  <2>1. /\ members[Data] \in Seq(Entry)
        /\ \A n : Member(n) = IF n \in 1 .. Len(members[Data])
                                THEN members[Data][n].kind ELSE "none"
    BY <1>1, DataType DEF Inv
  <2>2. Member(part_nb + 1) # "none"
    BY DEF GetMethod
  <2> QED BY <2>1, <2>2
<1>3. /\ Data' = Data /\ members' = members /\ part_nb' = part_nb + 1 /\ decompress' = decompress
      /\ UNCHANGED <<i, args, ifname, disk>>
      /\ Member(part_nb') \in {"good", "damaged", "refused"}
  BY DEF GetMethod, Data
<1>4. CASE part_nb = 0
  <2>1. PICK n \in OrigNames[ifname] : ofname' = IF n = NoName THEN ofname ELSE n
    BY <1>4 DEF GetMethod
  <2>2. ofname' \in Name /\ pc' = "create"
    BY <1>1, <1>4, <2>1, NameAssumption DEF GetMethod
  <2>3. Types'
    BY <2>2 DEF GetMethod, Inv, Types
  <2>4. Bounded'
    BY SameDisk DEF GetMethod
  <2>5. Treating' /\ Writing' /\ Free'
    BY <1>1, <1>3, <2>2 DEF Treating, Writing, Begun, Free
  <2>6. Counted'
    BY <1>1, <1>2, <1>3, <1>4, <2>2, SameData DEF Counted
  <2> QED BY <2>3, <2>4, <2>5, <2>6 DEF Inv
<1>5. CASE part_nb # 0
  <2>2. ofname' = ofname /\ pc' = "work"
    BY <1>5 DEF GetMethod
  <2>3. Types'
    BY <2>2 DEF GetMethod, Inv, Types
  <2>4. Bounded'
    BY SameDisk DEF GetMethod
  <2>5. Treating' /\ Writing' /\ Free'
    BY <1>1, <1>3, <1>5, <2>2 DEF Inv, Treating, Writing, Begun, Free
  <2>6. Counted'
    <3>1. part_nb' - 1 = part_nb /\ part_nb' >= 1 /\ disk[ofname].upto = part_nb
      BY <1>1, <1>3, <1>5
    <3> QED BY <1>1, <1>2, <1>3, <3>1, <2>2, SameData DEF Counted
  <2> QED BY <2>3, <2>4, <2>5, <2>6 DEF Inv
<1> QED BY <1>4, <1>5

LEMMA GetNoMethodInv == Inv /\ GetNoMethod => Inv'
<1> SUFFICES ASSUME Inv, GetNoMethod PROVE Inv'
  OBVIOUS
<1>1. /\ pc = "method" /\ i <= Len(args) /\ ifname \in Name /\ ofname \in Name
      /\ disk[ifname] # NoFile /\ part_nb \in Nat
  BY DEF GetNoMethod, Inv, Types, Treating
<1>2. CASE part_nb = 0
  BY <1>1, <1>2, NextFileInv DEF GetNoMethod, Inv, Types
<1>3. CASE part_nb # 0
  <2>1. /\ pc' = "close" /\ method' \in {-1, -2} /\ exit_code' \in 0 .. 2
        /\ UNCHANGED <<i, setting, ifname, ofname, remove_ofname, part_nb, disk, given>>
    BY <1>3 DEF GetNoMethod, Warned, Inv, Types
  <2>3. Types'
    BY <2>1 DEF Inv, Types
  <2>4. Bounded'
    BY SameDisk DEF GetNoMethod
  <2>5. Treating' /\ Writing' /\ Free' /\ Counted'
    BY <1>1, <1>3, <2>1 DEF Inv, Treating, Writing, Begun, Free, Counted, Data
  <2> QED BY <2>3, <2>4, <2>5 DEF Inv
<1> QED BY <1>2, <1>3

LEMMA CheckOfnameInv == Inv /\ CheckOfname => Inv'
<1> SUFFICES ASSUME Inv, CheckOfname PROVE Inv'
  OBVIOUS
<1>1. /\ pc = "create" /\ i <= Len(args) /\ ifname \in Name /\ ofname \in Name
      /\ disk[ifname] # NoFile
      /\ UNCHANGED <<setting, ifname, ofname, remove_ofname, method, part_nb>>
  BY DEF CheckOfname, Inv, Treating
<1>2. given' \subseteq Name
  BY <1>1, NameAssumption DEF CheckOfname, Inv, Types, Bounded
<1>3. ASSUME NextFile(1) \/ NextFile(Warned), UNCHANGED disk
      PROVE  Inv'
  <2>1. 1 \in 0 .. 2 /\ Warned \in 0 .. 2
    BY DEF Warned, Inv, Types
  <2> QED BY <1>1, <1>2, <1>3, <2>1, NextFileInv DEF Inv, Types
<1>4. ASSUME pc' = "creating", ofname # ifname, UNCHANGED <<i, exit_code>>,
             (disk[ofname] = NoFile /\ UNCHANGED disk) \/ Remove(ofname)
      PROVE  Inv'
  <2>1. /\ disk' \in [Name -> File] /\ disk'[ofname] = NoFile /\ disk'[ifname] = disk[ifname]
        /\ \A n \in Name : disk'[n] = disk[n] \/ disk'[n] = NoFile
    BY <1>1, <1>4 DEF Inv, Types, Remove, NoFile, File
  <2>2. Types'
    BY <1>1, <1>2, <1>4, <2>1 DEF Inv, Types
  <2>3. Bounded'
    BY <1>1, <2>1, SamePieces DEF Inv, Bounded, NoFile
  <2>4. Treating' /\ Writing' /\ Free'
    BY <1>1, <1>4, <2>1 DEF Treating, Writing, Begun, Free, NoFile
  <2>5. Counted'
    <3>1. Data' = Data /\ members' = members
      BY <1>1, <2>1 DEF Data
    <3> QED BY <1>1, <1>4, <3>1, SameData DEF Inv, Counted
  <2> QED BY <2>2, <2>3, <2>4, <2>5 DEF Inv
<1> QED BY <1>1, <1>3, <1>4 DEF CheckOfname

LEMMA CreateOutfileInv == Inv /\ CreateOutfile => Inv'
<1> SUFFICES ASSUME Inv, CreateOutfile PROVE Inv'
  OBVIOUS
<1>1. /\ pc = "creating" /\ i <= Len(args) /\ ifname \in Name /\ ofname \in Name
      /\ disk[ifname] # NoFile /\ ofname # ifname
      /\ remove_ofname' = TRUE /\ UNCHANGED <<setting, ifname, ofname, method, part_nb, given>>
  BY DEF CreateOutfile, Create, Inv, Treating, Free
<1>2. CASE NextFile(1) /\ UNCHANGED disk
  BY <1>1, <1>2, NextFileInv DEF Inv, Types
<1>3. CASE /\ disk' = [disk EXCEPT ![ofname] = [of |-> Data, upto |-> 0]]
           /\ pc' = "work" /\ UNCHANGED <<i, exit_code>>
  <2>0. Data \in Name /\ Pieces(Data) \in Nat
    BY <1>1, DataType DEF Inv
  <2>1. /\ disk' \in [Name -> File] /\ disk'[ofname] = [of |-> Data, upto |-> 0]
        /\ \A n \in Name : n # ofname => disk'[n] = disk[n]
    BY <1>1, <1>3, <2>0 DEF Inv, Types, File
  <2>2. Types'
    BY <1>1, <1>3, <2>1 DEF Inv, Types
  <2>3. Data' = Data /\ members' = members
    BY <1>1, <2>1 DEF Data
  <2>4. Bounded'
    <3>1. Pieces(Data)' = Pieces(Data) /\ \A d : Pieces(d)' = Pieces(d)
      BY <2>3, SamePieces
    <3> QED BY <1>1, <2>0, <2>1, <2>3, <3>1 DEF Inv, Bounded, NoFile
  <2>5. Treating' /\ Free'
    BY <1>1, <1>3, <2>1 DEF Treating, Free, NoFile
  <2>6. Writing'
    <3>1. [of |-> Data, upto |-> 0] # NoFile
      BY <2>0, NameAssumption DEF NoFile
    <3> QED BY <1>1, <2>1, <2>3, <3>1 DEF Writing, NoFile
  <2>7. Counted'
    <3>1. disk'[ofname].upto = 0 /\ disk'[ifname] = disk[ifname] /\ 0 <= disk[ifname].upto
      BY <1>1, <2>1, DataType DEF Inv
    <3>2. decompress => /\ part_nb = 1 /\ Len(members[Data]) >= 1
                        /\ Member(1) \in {"good", "damaged", "refused"}
      BY <1>1 DEF Inv, Counted
    <3>3. GoodUpTo(0)
      BY DEF GoodUpTo
    <3> QED BY <1>1, <1>3, <2>3, <3>1, <3>2, <3>3, SameData DEF Counted
  <2> QED BY <2>2, <2>4, <2>5, <2>6, <2>7 DEF Inv
<1> QED BY <1>2, <1>3 DEF CreateOutfile, Create

\* A step of zip or unzip writes one more piece.
LEMMA GrowInv ==
  ASSUME Inv, pc = "work", Grow, disk[ofname].upto < Pieces(Data),
         UNCHANGED <<i, setting, ifname, ofname, remove_ofname, method, part_nb, given, exit_code>>,
         pc' \in {"work", "close", "method"}
  PROVE  /\ Types' /\ Bounded' /\ Treating' /\ Writing' /\ Free'
         /\ Data' = Data /\ members' = members
         /\ disk'[ofname].upto = disk[ofname].upto + 1 /\ disk'[ifname] = disk[ifname]
         /\ disk'[ofname].of = Data /\ \A n \in Name : n # ofname => disk'[n] = disk[n]
<1>1. /\ i <= Len(args) /\ ifname \in Name /\ ofname \in Name
      /\ disk[ifname] # NoFile /\ disk[ofname] # NoFile /\ ofname # ifname
      /\ disk[ofname].of = Data
  BY DEF Inv, Treating, Writing, Begun
<1>2. disk \in [Name -> File] /\ disk[ofname].upto \in Nat /\ Data \in Name /\ Data # NoName
  BY <1>1, DataType, NameAssumption DEF Inv, Types, File
<1>3. /\ disk'[ofname] = [of |-> Data, upto |-> disk[ofname].upto + 1]
      /\ \A n \in Name : n # ofname => disk'[n] = disk[n]
      /\ disk' \in [Name -> File]
  BY <1>1, <1>2 DEF Grow, File
<1>4. Data' = Data /\ members' = members /\ disk'[ifname] = disk[ifname]
  BY <1>1, <1>3 DEF Data
<1>5. Types'
  BY <1>3 DEF Inv, Types
<1>6. Bounded'
  <2>1. Pieces(Data)' = Pieces(Data) /\ \A d : Pieces(d)' = Pieces(d)
    BY <1>4, SamePieces
  <2>2. Pieces(Data) \in Nat
    BY <1>1, DataType DEF Inv
  <2> QED BY <1>1, <1>2, <1>3, <1>4, <2>1, <2>2 DEF Inv, Bounded, NoFile
<1>7. Treating' /\ Free'
  BY <1>1, <1>4 DEF Treating, Free, NoFile
<1>8. Writing'
  BY <1>1, <1>2, <1>3, <1>4 DEF Writing, NoFile
<1> QED BY <1>3, <1>4, <1>5, <1>6, <1>7, <1>8

LEMMA CompressInv == Inv /\ Compress => Inv'
<1> SUFFICES ASSUME Inv, Compress PROVE Inv'
  OBVIOUS
<1>1. /\ pc = "work" /\ ~decompress /\ ifname \in Name /\ disk[ifname] # NoFile
      /\ disk[ofname].upto <= disk[ifname].upto /\ ofname \in Name
      /\ UNCHANGED <<i, setting, ifname, ofname, remove_ofname, method, part_nb, given, exit_code>>
  BY DEF Compress, Inv, Treating, Counted
<1>2. CASE disk[ofname].upto < disk[ifname].upto /\ Grow /\ UNCHANGED pc
  <2>1. /\ disk[ofname].upto \in Nat /\ disk[ifname].upto \in Nat /\ Pieces(Data) \in Nat
        /\ disk[ifname].upto <= Pieces(Data)
    BY <1>1, DataType DEF Inv, Types, File
  <2>2. disk[ofname].upto < Pieces(Data)
    BY <1>2, <2>1
  <2>3. Counted'
    <3>1. /\ disk'[ofname].upto = disk[ofname].upto + 1 /\ disk'[ifname] = disk[ifname]
      BY <1>1, <1>2, <2>2, GrowInv
    <3>2. disk'[ofname].upto <= disk'[ifname].upto
      BY <1>2, <2>1, <3>1
    <3> QED BY <1>1, <1>2, <3>2 DEF Counted
  <2> QED BY <1>1, <1>2, <2>2, <2>3, GrowInv DEF Inv
<1>3. CASE pc' = "close" /\ UNCHANGED disk
  <2>1. Types'
    BY <1>1, <1>3 DEF Inv, Types
  <2>2. Bounded'
    BY <1>1, <1>3, SameDisk
  <2>3. Treating' /\ Writing' /\ Free' /\ Counted'
    BY <1>1, <1>3 DEF Inv, Treating, Writing, Begun, Free, Counted, Data
  <2> QED BY <2>1, <2>2, <2>3 DEF Inv
<1> QED BY <1>2, <1>3 DEF Compress

LEMMA ExtractInv == Inv /\ Extract => Inv'
<1> SUFFICES ASSUME Inv, Extract PROVE Inv'
  OBVIOUS
<1>1. /\ pc = "work" /\ decompress /\ ifname \in Name /\ disk[ifname] # NoFile
      /\ part_nb \in Nat /\ part_nb >= 1 /\ part_nb <= Len(members[Data])
      /\ GoodUpTo(part_nb - 1) /\ disk[ofname].upto = part_nb - 1
      /\ Member(part_nb) = "good" /\ Grow
      /\ UNCHANGED <<i, setting, ifname, ofname, remove_ofname, method, part_nb, given, exit_code>>
  BY DEF Extract, Inv, Types, Treating, Counted
<1>2. /\ Data \in Name /\ Len(members[Data]) \in Nat
      /\ members[Data][part_nb].kind = "good"
  <2>1. Data \in Name /\ members[Data] \in Seq(Entry)
        /\ \A n : Member(n) = IF n \in 1 .. Len(members[Data])
                                THEN members[Data][n].kind ELSE "none"
    BY <1>1, DataType DEF Inv
  <2>2. Len(members[Data]) \in Nat
    BY <2>1
  <2>3. part_nb \in 1 .. Len(members[Data])
    BY <1>1, <2>2
  <2> QED BY <1>1, <2>1, <2>2, <2>3
<1>3. GoodUpTo(part_nb)
  <2>1. ASSUME NEW k \in 1 .. part_nb PROVE members[Data][k].kind = "good"
    <3>1. CASE k = part_nb
      BY <1>2, <3>1
    <3>2. CASE k # part_nb
      <4>1. k \in 1 .. part_nb - 1
        BY <1>1, <3>2
      <4> QED BY <1>1, <4>1 DEF GoodUpTo
    <3> QED BY <3>1, <3>2
  <2> QED BY <2>1 DEF GoodUpTo
<1>4. disk[ofname].upto < Pieces(Data)
  <2>1. \A k \in 1 .. part_nb : members[Data][k].kind # "garbage"
    BY <1>3 DEF GoodUpTo
  <2>2. Pieces(Data) \in Nat /\ part_nb <= Pieces(Data)
    BY <1>1, <1>2, <2>1, GoodPieces DEF Inv
  <2> QED BY <1>1, <2>2
<1>5. pc' \in {"close", "method"}
  BY DEF Extract
<1>6. Counted'
  <2>1. /\ Data' = Data /\ members' = members
        /\ disk'[ofname].upto = part_nb
    BY <1>1, <1>4, <1>5, GrowInv
  <2> QED BY <1>1, <1>3, <1>5, <2>1, SameData DEF Counted
<1> QED BY <1>1, <1>4, <1>5, <1>6, GrowInv DEF Inv

LEMMA RefuseInv == Inv /\ Refuse => Inv'
<1> SUFFICES ASSUME Inv, Refuse PROVE Inv'
  OBVIOUS
<1>1. Types'
  BY DEF Refuse, Inv, Types
<1>2. Bounded'
  BY SameDisk DEF Refuse
<1>3. Treating' /\ Writing' /\ Free' /\ Counted'
  BY DEF Refuse, Inv, Treating, Writing, Begun, Free, Counted, Data
<1> QED BY <1>1, <1>2, <1>3 DEF Inv

LEMMA CloseInv == Inv /\ Close => Inv'
<1> SUFFICES ASSUME Inv, Close PROVE Inv'
  OBVIOUS
<1>1. pc = "close" /\ i <= Len(args) /\ ifname \in Name /\ ofname \in Name
  BY DEF Close, Inv, Treating
<1>2. CASE method = -1
  BY <1>1, <1>2, NextFileInv DEF Close, Inv, Types
<1>3. CASE method # -1
  <2>0. /\ pc' = "stat"
        /\ UNCHANGED <<setting, i, ifname, ofname, remove_ofname, method, part_nb, disk>>
        /\ UNCHANGED <<given, exit_code>>
    BY <1>3 DEF Close
  <2>1. Types'
    BY <2>0 DEF Inv, Types
  <2>2. Bounded'
    BY <2>0, SameDisk
  <2>3. Treating' /\ Writing' /\ Free' /\ Counted'
    BY <1>1, <2>0 DEF Inv, Treating, Writing, Begun, Free, Counted, Data
  <2> QED BY <2>1, <2>2, <2>3 DEF Inv
<1> QED BY <1>2, <1>3

LEMMA CopyStatInv == Inv /\ CopyStat => Inv'
<1> SUFFICES ASSUME Inv, CopyStat PROVE Inv'
  OBVIOUS
<1>1. Types'
  BY DEF CopyStat, Keep, Inv, Types
<1>2. Bounded'
  BY SameDisk DEF CopyStat, Keep
<1>3. Treating' /\ Writing' /\ Free' /\ Counted'
  BY DEF CopyStat, Keep, Inv, Treating, Writing, Begun, Free, Counted, Data
<1> QED BY <1>1, <1>2, <1>3 DEF Inv

LEMMA RemoveInputInv == Inv /\ RemoveInput => Inv'
<1> SUFFICES ASSUME Inv, RemoveInput PROVE Inv'
  OBVIOUS
<1>1. pc = "remove" /\ i <= Len(args) /\ ifname \in Name
  BY DEF RemoveInput, Unlink, Inv, Treating
<1>2. exit_code \in 0 .. 2 /\ Warned \in 0 .. 2
  BY DEF Warned, Inv, Types
<1> QED BY <1>1, <1>2, NextFileInv DEF RemoveInput, Unlink, Inv, Types

LEMMA ExitInvStep == Inv /\ Exit => Inv'
<1> SUFFICES ASSUME Inv, Exit PROVE Inv'
  OBVIOUS
<1>1. Types'
  BY DEF Exit, Inv, Types
<1>2. Bounded'
  BY SameDisk DEF Exit
<1>3. Treating' /\ Writing' /\ Free' /\ Counted'
  BY DEF Exit, Treating, Writing, Begun, Free, Counted
<1> QED BY <1>1, <1>2, <1>3 DEF Inv

\* A step that changes nothing.
LEMMA StutterInv == Inv /\ UNCHANGED vars => Inv'
<1> SUFFICES ASSUME Inv, UNCHANGED vars PROVE Inv'
  OBVIOUS
<1>0. UNCHANGED <<pc, i, decompress, args, members, ifname, ofname, remove_ofname, method,
                  part_nb, disk, given, exit_code, treated>>
  BY DEF vars
<1>1. Types'
  BY <1>0 DEF Inv, Types
<1>2. Bounded'
  BY <1>0, SameDisk
<1>3. Data' = Data
  BY <1>0 DEF Data
<1>4. Treating' /\ Writing' /\ Free'
  BY <1>0, <1>3 DEF Inv, Treating, Writing, Begun, Free, NoFile
<1>5. Counted'
  BY <1>0, <1>3, SameData DEF Inv, Counted
<1> QED BY <1>1, <1>2, <1>4, <1>5 DEF Inv

LEMMA NextInv == Inv /\ [Next]_vars => Inv'
<1> SUFFICES ASSUME Inv, [Next]_vars PROVE Inv'
  OBVIOUS
<1>1. CASE TreatFile   BY <1>1, TreatFileInv
<1>2. CASE MakeOfname  BY <1>2, MakeOfnameInv
<1>3. CASE OpenInput   BY <1>3, OpenInputInv
<1>4. CASE GetMethod   BY <1>4, GetMethodInv
<1>5. CASE GetNoMethod BY <1>5, GetNoMethodInv
<1>6. CASE CheckOfname BY <1>6, CheckOfnameInv
<1>7. CASE CreateOutfile BY <1>7, CreateOutfileInv
<1>8. CASE Compress    BY <1>8, CompressInv
<1>9. CASE Extract     BY <1>9, ExtractInv
<1>10. CASE Refuse     BY <1>10, RefuseInv
<1>11. CASE Fail       BY <1>11, AbortInv DEF Fail
<1>12. CASE Close      BY <1>12, CloseInv
<1>13. CASE CopyStat   BY <1>13, CopyStatInv
<1>14. CASE RemoveInput BY <1>14, RemoveInputInv
<1>15. CASE Exit       BY <1>15, ExitInvStep
<1>16. CASE Signal     BY <1>16, AbortInv DEF Signal
<1>17. CASE UNCHANGED vars BY <1>17, StutterInv
<1> QED
  BY <1>1, <1>2, <1>3, <1>4, <1>5, <1>6, <1>7, <1>8, <1>9, <1>10, <1>11, <1>12, <1>13,
     <1>14, <1>15, <1>16, <1>17 DEF Next, Finished

\* A file is begun, goes on or is left; or gzip ends.
LEMMA StepKinds ==
  ASSUME [Next]_vars, ~TreatFile
  PROVE  /\ UNCHANGED <<setting, treated>>
         /\ \/ pc \notin {"next", "exited"} /\ pc' \notin {"next", "exited"} /\ i' = i
            \/ pc \notin {"next", "exited"} /\ pc' = "next" /\ i' = i + 1
            \/ pc' = "exited" /\ i' = i
            \/ pc' = pc /\ i' = i
<1>1. CASE Fail \/ Signal \/ Exit
  BY <1>1 DEF Fail, Signal, Exit, Abort
<1>2. CASE MakeOfname \/ OpenInput \/ GetMethod \/ GetNoMethod \/ CheckOfname
  BY <1>2 DEF MakeOfname, OpenInput, GetMethod, GetNoMethod, CheckOfname, NextFile
<1>3. CASE CreateOutfile \/ Compress \/ Extract \/ Refuse \/ Close \/ CopyStat \/ RemoveInput
  BY <1>3 DEF CreateOutfile, Create, Compress, Extract, Refuse, Close, CopyStat, Keep,
              RemoveInput, Unlink, NextFile
<1>4. CASE UNCHANGED vars
  BY <1>4 DEF vars
<1> QED BY <1>1, <1>2, <1>3, <1>4 DEF Next, Finished

\* treat_file finds its file or goes on to the next.
LEMMA TreatFileSteps ==
  ASSUME TreatFile
  PROVE  /\ pc = "next" /\ i <= Len(args) /\ remove_ofname' = remove_ofname
         /\ NextFile(1) \/ (pc' = "name" /\ UNCHANGED <<i, exit_code>>)
<1> DEFINE found == IF disk[args[i]] # NoFile THEN {args[i]}
                    ELSE {n \in Suffixed[args[i]] : decompress /\ disk[n] # NoFile}
<1>1. /\ pc = "next" /\ i <= Len(args) /\ remove_ofname' = remove_ofname
      /\ \/ found = {} /\ NextFile(1)
         \/ \E n \in found : pc' = "name" /\ UNCHANGED <<i, exit_code>>
  BY DEF TreatFile
<1> QED BY <1>1

\* treat_file notes what it finds.
LEMMA TreatFileLogs ==
  ASSUME Inv, Logged, TreatFile
  PROVE  /\ i <= Len(args) /\ i \in Nat /\ Len(treated) = i - 1
         /\ treated' \in Seq([file : Name \cup {NoName}, data : Name \cup {NoName}])
         /\ Len(treated') = i /\ \A k \in 1 .. i - 1 : treated'[k] = treated[k]
         /\ pc' = "name" => treated'[i] = [file |-> ifname', data |-> disk[ifname'].of]
<1> DEFINE R == [file : Name \cup {NoName}, data : Name \cup {NoName}]
<1>1. /\ pc = "next" /\ i <= Len(args) /\ i \in Nat /\ Len(treated) = i - 1
      /\ treated \in Seq(R) /\ args[i] \in Name
  BY DEF TreatFile, Inv, Types, Logged
<1>2. PICK r \in R : /\ treated' = Append(treated, r)
                     /\ pc' = "name" => r = [file |-> ifname', data |-> disk[ifname'].of]
  <2>1. CASE pc' = "name"
    <3>1. PICK n \in {args[i]} \cup Suffixed[args[i]] :
            /\ ifname' = n /\ treated' = Append(treated, [file |-> n, data |-> disk[n].of])
      BY <1>1, <2>1 DEF TreatFile, NextFile
    <3>2. n \in Name
      BY <1>1, <3>1, NameAssumption
    <3>3. disk[n].of \in Name \cup {NoName}
      BY <3>2 DEF Inv, Types, File
    <3> QED BY <3>1, <3>2, <3>3
  <2>2. CASE pc' # "name"
    <3>1. treated' = Append(treated, [file |-> NoName, data |-> NoName])
      BY <1>1, <2>2 DEF TreatFile, NextFile
    <3> QED BY <2>2, <3>1
  <2> QED BY <2>1, <2>2
<1> HIDE DEF R
<1>3. /\ treated' \in Seq(R) /\ Len(treated') = Len(treated) + 1
      /\ \A k \in 1 .. Len(treated) : treated'[k] = treated[k]
      /\ treated'[Len(treated) + 1] = r
  BY <1>1, <1>2
<1>4. Len(treated) + 1 = i
  BY <1>1
<1> QED BY <1>1, <1>2, <1>3, <1>4 DEF R

LEMMA NextLogged == Inv /\ Logged /\ [Next]_vars => Logged'
<1> SUFFICES ASSUME Inv, Logged, [Next]_vars PROVE Logged'
  OBVIOUS
<1>0. i \in Nat
  BY DEF Inv, Types
<1>1. CASE TreatFile
  <2>1. (pc' = "next" /\ i' = i + 1) \/ (pc' = "name" /\ i' = i)
    BY <1>1 DEF TreatFile, NextFile
  <2>2. /\ Len(treated') = i
        /\ treated' \in Seq([file : Name \cup {NoName}, data : Name \cup {NoName}])
    BY <1>1, TreatFileLogs
  <2> QED BY <1>0, <2>1, <2>2 DEF Logged
<1>2. CASE ~TreatFile
  <2>1. treated' = treated
    BY <1>2, StepKinds
  <2>2. \/ pc \notin {"next", "exited"} /\ pc' \notin {"next", "exited"} /\ i' = i
        \/ pc \notin {"next", "exited"} /\ pc' = "next" /\ i' = i + 1
        \/ pc' = "exited" /\ i' = i
        \/ pc' = pc /\ i' = i
    BY <1>2, StepKinds
  <2> QED BY <1>0, <2>1, <2>2 DEF Logged
<1> QED BY <1>1, <1>2

\* gzip keeps its state well-formed; in particular no file ever claims more pieces than
\* the data in it has: zip and unzip never write past the end of their input, whatever
\* the files hold, whatever fails and whenever a signal arrives.
THEOREM TypeCorrect == Spec => []TypeOK
<1>1. Inv /\ Logged => TypeOK
  <2> SUFFICES ASSUME Inv, Logged PROVE TypeOK
    OBVIOUS
  <2>1. ASSUME NEW n \in Name
        PROVE  \/ disk[n] = NoFile
               \/ disk[n].of \in Name /\ disk[n].upto \in 0 .. Pieces(disk[n].of)
    <3>1. disk[n].upto \in Nat
      BY DEF Inv, Types, File
    <3>2. disk[n].of \in Name => Pieces(disk[n].of) \in Nat
      BY PiecesType DEF Inv
    <3> QED BY <3>1, <3>2 DEF Inv, Bounded
  <2> QED BY <2>1 DEF Inv, Types, Logged, TypeOK
<1>2. Init => Logged
  BY DEF Init, Logged
<1> QED BY <1>1, <1>2, InitInv, NextInv, NextLogged, PTL DEF Spec

------------------------------------------------------------------------------
(* What is removed when gzip gives up                                      *)

\* remove_ofname is set with the output and reset when that is complete.
LEMMA NextMarked ==
  ASSUME LastGivenUp, Inv, Marked, [Next]_vars
  PROVE  Marked'
<1>1. CASE TreatFile
  <2>1. /\ pc = "next" /\ ~(i > Len(args)) /\ pc' \in {"next", "name"}
        /\ remove_ofname' = remove_ofname
    BY <1>1, TreatFileSteps DEF NextFile, Inv, Types
  <2>2. ~remove_ofname
    BY <2>1 DEF LastGivenUp
  <2> QED BY <2>1, <2>2 DEF Marked, Begun
<1>2. CASE MakeOfname \/ OpenInput \/ CheckOfname \/ (GetMethod /\ part_nb = 0)
           \/ (GetNoMethod /\ part_nb = 0)
  <2>1. ~Begun /\ pc \notin {"next", "exited"} /\ remove_ofname' = remove_ofname
    BY <1>2 DEF MakeOfname, OpenInput, CheckOfname, GetMethod, GetNoMethod, Begun
  <2>2. ~remove_ofname
    BY <2>1 DEF Marked
  <2>3. ~Begun'
    <3>1. CASE MakeOfname
      BY <3>1 DEF MakeOfname, NextFile, Begun
    <3>2. CASE OpenInput
      BY <3>2 DEF OpenInput, NextFile, Begun
    <3>3. CASE CheckOfname
      BY <3>3 DEF CheckOfname, NextFile, Begun
    <3>4. CASE (GetMethod \/ GetNoMethod) /\ part_nb = 0
      BY <3>4 DEF GetMethod, GetNoMethod, NextFile, Begun
    <3> QED BY <1>2, <3>1, <3>2, <3>3, <3>4
  <2> QED BY <2>1, <2>2, <2>3 DEF Marked, Begun
<1>3. CASE CreateOutfile
  <2>1. remove_ofname' /\ pc' \in {"next", "work"} /\ ofname' = ofname
    BY <1>3 DEF CreateOutfile, Create, NextFile
  <2>2. pc' = "next" => ofname \in Name /\ disk'[ofname] = NoFile
    BY <1>3 DEF CreateOutfile, Create, NextFile, Inv, Treating, Free
  <2> QED BY <2>1, <2>2 DEF Marked, Begun, NoFile
<1>4. CASE Compress \/ Extract \/ Refuse \/ (GetMethod /\ part_nb # 0)
           \/ (GetNoMethod /\ part_nb # 0)
  <2>1. Begun /\ pc # "remove" /\ remove_ofname' = remove_ofname
    BY <1>4 DEF Compress, Extract, Refuse, GetMethod, GetNoMethod, Begun, Inv, Types
  <2>2. Begun' /\ pc' \notin {"next", "exited", "remove"}
    <3>1. CASE Compress \/ Refuse
      BY <3>1 DEF Compress, Refuse, Begun
    <3>2. CASE Extract
      <4>1. pc = "work" /\ decompress /\ part_nb' = part_nb /\ part_nb \in Nat
            /\ pc' \in {"close", "method"}
        BY <3>2 DEF Extract, Inv, Types
      <4>2. part_nb >= 1
        BY <4>1 DEF Inv, Counted
      <4> QED BY <4>1, <4>2 DEF Begun
    <3>3. CASE (GetMethod \/ GetNoMethod) /\ part_nb # 0
      BY <3>3 DEF GetMethod, GetNoMethod, Begun
    <3> QED BY <1>4, <3>1, <3>2, <3>3
  <2>3. remove_ofname
    BY <2>1 DEF Marked
  <2> QED BY <2>1, <2>2, <2>3 DEF Marked
<1>5. CASE Close
  <2>1. pc = "close" /\ ofname \in Name /\ disk \in [Name -> File]
        /\ ofname' = ofname /\ remove_ofname' = remove_ofname
    BY <1>5 DEF Close, Inv, Types, Treating
  <2>2. remove_ofname
    BY <2>1 DEF Marked, Begun
  <2>3. (pc' = "next" /\ disk'[ofname] = NoFile) \/ pc' = "stat"
    BY <1>5, <2>1 DEF Close, NextFile, Remove
  <2> QED BY <2>1, <2>2, <2>3 DEF Marked, Begun, NoFile
<1>6. CASE CopyStat
  BY <1>6 DEF CopyStat, Keep, Marked, Begun
<1>7. CASE RemoveInput
  <2>1. pc = "remove" /\ pc' = "next" /\ remove_ofname' = remove_ofname
    BY <1>7 DEF RemoveInput, Unlink, NextFile
  <2>2. ~remove_ofname
    BY <2>1 DEF Marked
  <2> QED BY <2>1, <2>2 DEF Marked, Begun
<1>8. CASE Exit \/ Fail \/ Signal
  BY <1>8 DEF Exit, Fail, Signal, Abort, Marked, Begun
<1>9. CASE UNCHANGED vars
  BY <1>9 DEF vars, Marked, Begun, NoFile
<1> QED
  BY <1>1, <1>2, <1>3, <1>4, <1>5, <1>6, <1>7, <1>8, <1>9 DEF Next, Finished

\* Giving up removes the output, if it was begun, and nothing else.
LEMMA AbortRemoves ==
  ASSUME Inv, Marked, pc # "exited", Abort
  PROVE  disk' = IF Begun /\ pc # "remove" THEN [disk EXCEPT ![ofname] = NoFile] ELSE disk
<1>1. disk \in [Name -> File]
  BY DEF Inv, Types
<1>2. CASE Begun /\ pc # "remove"
  <2>1. remove_ofname
    BY <1>2 DEF Marked
  <2> QED BY <1>2, <2>1 DEF Abort, Remove
<1>3. CASE ~(Begun /\ pc # "remove") /\ remove_ofname
  <2>1. pc = "next" /\ ofname \in Name /\ disk[ofname] = NoFile
    BY <1>3 DEF Marked, Begun
  <2>2. disk' = [disk EXCEPT ![ofname] = NoFile]
    BY <1>3 DEF Abort, Remove
  <2>3. disk' = disk
    BY <1>1, <2>1, <2>2
  <2> QED BY <1>3, <2>3
<1>4. CASE ~(Begun /\ pc # "remove") /\ ~remove_ofname
  BY <1>4 DEF Abort
<1> QED BY <1>2, <1>3, <1>4

\* "remove output file on error": whatever fails and whenever a signal arrives, giving up
\* removes no file but the one written from the input at hand, and never the input, as
\* long as remove_ofname is not left set from an earlier file (LastGivenUp).
THEOREM RemovesOwnOutput == Spec /\ []LastGivenUp => RemovesOwn
<1> DEFINE Own == \A n \in Name : disk'[n] # disk[n] => n # ifname /\ disk[n].of = Data
<1>1. Init => Inv /\ Marked
  BY InitInv DEF Init, Marked, Begun
<1>2. LastGivenUp /\ Inv /\ Marked /\ [Next]_vars => (Inv /\ Marked)'
  BY NextInv, NextMarked
<1>3. Inv /\ Marked /\ [Next]_vars => [pc' = "exited" => Own]_vars
  <2> SUFFICES ASSUME Inv, Marked, Next, pc' = "exited"
               PROVE  Own
    OBVIOUS
  <2>1. CASE disk' = disk
    BY <2>1
  <2>2. CASE Abort /\ pc # "exited"
    <3>1. CASE disk' = disk
      BY <3>1
    <3>2. CASE Begun /\ disk' = [disk EXCEPT ![ofname] = NoFile]
      <4>1. ofname # ifname /\ disk[ofname].of = Data
        BY <3>2 DEF Inv, Writing
      <4>2. \A n \in Name : n # ofname => disk'[n] = disk[n]
        BY <3>2 DEF Inv, Types
      <4> QED BY <4>1, <4>2
    <3> QED BY <2>2, <3>1, <3>2, AbortRemoves
  <2>3. (Abort /\ pc # "exited") \/ disk' = disk
    BY DEF Next, TreatFile, MakeOfname, OpenInput, GetMethod, GetNoMethod, CheckOfname,
           CreateOutfile, Create, Compress, Extract, Refuse, Fail, Close, CopyStat, Keep,
           RemoveInput, Unlink, Exit, Signal, Finished, NextFile, vars
  <2> QED BY <2>1, <2>2, <2>3
<1> QED BY <1>1, <1>2, <1>3, PTL DEF Spec, RemovesOwn

------------------------------------------------------------------------------
(* The invariant for what gzip leaves behind is inductive                  *)

\* The input of treat_file is complete.
LEMMA InputWhole ==
  ASSUME SafeInv, pc \notin {"next", "exited"}
  PROVE  /\ ifname \in Name /\ ofname \in Name /\ disk[ifname] # NoFile
         /\ Data \in Name /\ disk[ifname] = Whole(Data)
<1>1. ifname \in Name /\ ofname \in Name /\ disk[ifname] # NoFile
  BY DEF SafeInv, Safe, Inv, Treating
<1>2. Data \in Name
  BY DataType DEF SafeInv, Safe, Inv
<1>3. ~Partial(ifname)
  BY DEF SafeInv, Safe, Inv, Writing, Partial
<1> QED BY <1>1, <1>2, <1>3 DEF SafeInv, Safe, Complete, Data

\* All data is kept by a step that changes one file, if that was free, if it was
\* overwritten with permission, or if its data is complete in some file afterwards.
LEMMA KeepsData ==
  ASSUME DataKept, members' = members, given \subseteq given', NEW m \in Name,
         \A n \in Name : n # m => disk'[n] = disk[n],
         \/ disk'[m] = disk[m]
         \/ disk[m] = NoFile
         \/ disk[m].of \in given'
         \/ \E n \in Name : disk'[n] = Whole(disk[m].of)
  PROVE  DataKept'
<1> SUFFICES ASSUME NEW d \in Existing \ given'
             PROVE  \E n \in Name : disk'[n] = Whole(d)'
  BY DEF DataKept
<1>1. Whole(d)' = Whole(d) /\ Whole(d).of = d /\ d # NoName
  BY SamePieces, NameAssumption DEF Whole
<1>2. PICK n \in Name : disk[n] = Whole(d)
  BY DEF DataKept
<1>3. CASE n # m
  BY <1>1, <1>2, <1>3
<1>4. CASE n = m
  <2>1. disk[m] = Whole(d) /\ disk[m].of = d /\ disk[m] # NoFile
    BY <1>1, <1>2, <1>4 DEF NoFile
  <2> QED BY <1>1, <1>4, <2>1
<1> QED BY <1>3, <1>4

\* A step that leaves files, output and marks alone.
LEMMA SameFiles ==
  ASSUME SafeInv, UNCHANGED <<disk, members, given>>
  PROVE  /\ DataKept'
         /\ \A n \in Name : Whole(disk[n].of)' = Whole(disk[n].of)
         /\ Whole(Data)' = Whole(disk[ifname'].of)
BY SamePieces DEF SafeInv, Safe, DataKept, Data

\* The output, if any, is removed when gzip gives up; the input is still there then.
LEMMA AbortSafe ==
  ASSUME SafeInv, pc # "exited", Abort
  PROVE  Safe'
<1>0. members' = members /\ given' = given /\ pc' = "exited" /\ disk \in [Name -> File]
  BY DEF Abort, SafeInv, Safe, Inv, Types
<1>1. Readable'
  BY <1>0 DEF Readable
<1>2. CASE Begun /\ pc # "remove"
  <2>1. ofname \in Name /\ ofname # ifname /\ disk[ofname].of = Data
    BY <1>2 DEF SafeInv, Inv, Writing, Treating, Begun
  <2>2. disk'[ofname] = NoFile /\ \A n \in Name : n # ofname => disk'[n] = disk[n]
    BY <1>0, <1>2, <2>1, AbortRemoves DEF SafeInv
  <2>3. Complete'
    <3>1. \A n \in Name : n # ofname => disk[n] = NoFile \/ disk[n] = Whole(disk[n].of)
      BY DEF SafeInv, Safe, Complete, Partial
    <3> QED BY <1>0, <2>2, <3>1, SamePieces DEF Complete, NoFile
  <2>4. DataKept'
    <3>1. ifname \in Name /\ disk'[ifname] = Whole(Data)
      BY <1>2, <2>1, <2>2, InputWhole DEF Begun
    <3> QED BY <1>0, <2>1, <2>2, <3>1, KeepsData DEF SafeInv, Safe
  <2> QED BY <1>1, <2>3, <2>4 DEF Safe
<1>3. CASE ~(Begun /\ pc # "remove")
  <2>1. disk' = disk
    BY <1>3, AbortRemoves DEF SafeInv
  <2>2. \A n \in Name : ~Partial(n)
    BY <1>3 DEF Partial, Begun
  <2>3. Complete'
    BY <1>0, <2>1, <2>2, SamePieces DEF SafeInv, Safe, Complete, NoFile
  <2> QED BY <1>0, <1>1, <2>1, <2>3, SameFiles DEF Safe
<1> QED BY <1>2, <1>3

\* A step before the output is created that leaves the files alone.
LEMMA BeforeSafe ==
  ASSUME SafeInv, ~Begun, ~Begun', UNCHANGED <<disk, setting, given>>, Readable'
  PROVE  Safe'
<1>3. Complete'
  <2>1. members' = members /\ \A n \in Name : ~Partial(n)
    BY DEF Partial
  <2> QED BY <2>1, SamePieces DEF SafeInv, Safe, Complete, NoFile, Begun
<1>4. DataKept'
  BY SameFiles
<1> QED BY <1>3, <1>4 DEF Safe

LEMMA EarlySafe ==
  ASSUME SafeInv, TreatFile \/ MakeOfname \/ OpenInput
  PROVE  Safe'
<1>1. pc \in {"next", "name", "open"} /\ ~Begun
  BY DEF TreatFile, MakeOfname, OpenInput, Begun
<1>3. UNCHANGED <<disk, setting, given>>
  BY DEF TreatFile, MakeOfname, OpenInput
<1>4. ~Begun'
  <2>1. CASE TreatFile
    BY <2>1 DEF TreatFile, NextFile, Begun
  <2>2. CASE MakeOfname
    BY <2>2 DEF MakeOfname, NextFile, Begun
  <2>3. CASE OpenInput
    BY <2>3 DEF OpenInput, NextFile, Begun
  <2> QED BY <2>1, <2>2, <2>3
<1>5. Readable'
  BY DEF SafeInv, Safe, Readable, TreatFile, MakeOfname, OpenInput, NextFile
<1> QED BY <1>1, <1>3, <1>4, <1>5, BeforeSafe

LEMMA GetMethodSafe == SafeInv /\ GetMethod => Safe'
<1> SUFFICES ASSUME SafeInv, GetMethod PROVE Safe'
  OBVIOUS
<1>1. pc = "method" /\ part_nb \in Nat /\ part_nb' = part_nb + 1
      /\ UNCHANGED <<disk, setting, given, remove_ofname, ifname>>
  BY DEF GetMethod, SafeInv, Inv, Types
<1>2. Readable'
  BY <1>1 DEF SafeInv, Safe, Readable
<1>3. CASE part_nb = 0
  <2>1. pc' = "create"
    BY <1>3 DEF GetMethod
  <2>2. ~Begun /\ ~Begun'
    BY <1>1, <1>3, <2>1 DEF Begun
  <2> QED BY <1>1, <1>2, <2>2, BeforeSafe
<1>4. CASE part_nb # 0
  <2>1. pc' = "work" /\ ofname' = ofname
    BY <1>4 DEF GetMethod
  <2>2. Begun
    BY <1>1, <1>4 DEF Begun
  <2>4. Complete'
    <3>1. \A n \in Name : Partial(n) => Partial(n)'
      BY <2>1 DEF Partial, Begun
    <3> QED BY <1>1, <2>1, <3>1, SamePieces DEF SafeInv, Safe, Complete, NoFile
  <2>5. DataKept'
    BY <1>1, SameFiles
  <2> QED BY <1>2, <2>4, <2>5 DEF Safe
<1> QED BY <1>3, <1>4

LEMMA GetNoMethodSafe == SafeInv /\ GetNoMethod => Safe'
<1> SUFFICES ASSUME SafeInv, GetNoMethod PROVE Safe'
  OBVIOUS
<1>1. pc = "method" /\ part_nb \in Nat
      /\ UNCHANGED <<disk, setting, given, remove_ofname, ifname, ofname, part_nb>>
  BY DEF GetNoMethod, SafeInv, Inv, Types
<1>2. Readable'
  BY <1>1 DEF SafeInv, Safe, Readable, GetNoMethod, NextFile
<1>3. CASE part_nb = 0
  <2>1. pc' = "next"
    BY <1>3 DEF GetNoMethod, NextFile
  <2>2. ~Begun /\ ~Begun'
    BY <1>1, <1>3, <2>1 DEF Begun
  <2> QED BY <1>1, <1>2, <2>2, BeforeSafe
<1>4. CASE part_nb # 0
  <2>1. /\ pc' = "close"
        /\ Member(part_nb + 1) # "garbage" => method' = -1
    BY <1>4 DEF GetNoMethod
  <2>2. Begun
    BY <1>1, <1>4 DEF Begun
  <2>4. ASSUME Member(part_nb + 1) = "garbage"
        PROVE  disk[ofname] = Whole(Data)
    <3>0. members[Data] \in Seq(Entry) /\ Data \in Name
          /\ \A n : Member(n) = IF n \in 1 .. Len(members[Data])
                                  THEN members[Data][n].kind ELSE "none"
      BY <1>1, DataType DEF SafeInv, Inv
    <3>1. part_nb <= Len(members[Data]) /\ members[Data][part_nb + 1].kind = "garbage"
      BY <1>1, <2>4, <3>0 DEF SafeInv, Inv, Counted
    <3>2. /\ disk[ofname].upto = part_nb /\ disk[ofname].of = Data
          /\ \A k \in 1 .. part_nb : members[Data][k].kind # "garbage"
      BY <1>1, <1>4, <2>2 DEF SafeInv, Inv, Counted, Writing, GoodUpTo
    <3>3. Pieces(Data) = part_nb
      BY <1>1, <3>0, <3>1, <3>2, GoodPieces DEF SafeInv, Inv
    <3>4. disk[ofname] \in File
      BY <1>1 DEF SafeInv, Inv, Types, Treating
    <3> QED BY <3>2, <3>3, <3>4 DEF Whole, File
  <2>5. Complete'
    <3>1. \A n \in Name : Partial(n) => Partial(n)'
      BY <1>1, <2>1 DEF Partial, Begun
    <3>2. members' = members /\ disk' = disk /\ ofname' = ofname /\ Data' = Data
      BY <1>1 DEF Data
    <3>3. method' # -1 => disk[ofname] = Whole(Data)
      BY <2>1, <2>4
    <3> QED BY <3>1, <3>2, <3>3, SamePieces DEF SafeInv, Safe, Complete, NoFile
  <2>6. DataKept'
    BY <1>1, SameFiles
  <2> QED BY <1>2, <2>5, <2>6 DEF Safe
<1> QED BY <1>3, <1>4

LEMMA CheckOfnameSafe == SafeInv /\ CheckOfname => Safe'
<1> SUFFICES ASSUME SafeInv, CheckOfname PROVE Safe'
  OBVIOUS
<1>1. /\ pc = "create" /\ ofname \in Name
      /\ UNCHANGED <<setting, ifname, ofname, remove_ofname, method, part_nb>>
      /\ pc' \in {"next", "creating"} /\ given \subseteq given'
  BY DEF CheckOfname, NextFile, SafeInv, Inv, Treating
<1>2. ~Begun /\ ~Begun' /\ \A n \in Name : ~Partial(n)
  BY <1>1 DEF Begun, Partial
<1>5. Readable'
  BY <1>1 DEF SafeInv, Safe, Readable
<1>6. disk' = disk \/ (disk' = [disk EXCEPT ![ofname] = NoFile] /\ disk[ofname].of \in given')
  BY DEF CheckOfname, Remove
<1>7. disk \in [Name -> File]
  BY DEF SafeInv, Inv, Types
<1>8. Complete'
  <2>1. \A n \in Name : disk'[n] = disk[n] \/ disk'[n] = NoFile
    BY <1>1, <1>6, <1>7
  <2> QED BY <1>1, <1>2, <2>1, SamePieces DEF SafeInv, Safe, Complete, NoFile
<1>9. DataKept'
  <2>1. \A n \in Name : n # ofname => disk'[n] = disk[n]
    BY <1>6, <1>7
  <2> QED BY <1>1, <1>6, <2>1, KeepsData DEF SafeInv, Safe
<1> QED BY <1>5, <1>8, <1>9 DEF Safe

LEMMA CreateOutfileSafe == SafeInv /\ CreateOutfile => Safe'
<1> SUFFICES ASSUME SafeInv, CreateOutfile PROVE Safe'
  OBVIOUS
<1>1. /\ pc = "creating" /\ ofname \in Name /\ disk[ofname] = NoFile /\ ofname # ifname
      /\ UNCHANGED <<setting, ifname, ofname, method, part_nb, given>>
      /\ pc' \in {"next", "work"} /\ remove_ofname'
  BY DEF CreateOutfile, Create, NextFile, SafeInv, Inv, Treating, Free
<1>2. \A n \in Name : ~Partial(n)
  BY <1>1 DEF Begun, Partial
<1>3. disk \in [Name -> File]
  BY DEF SafeInv, Inv, Types
<1>4. /\ \A n \in Name : n # ofname => disk'[n] = disk[n]
      /\ pc' = "next" => disk' = disk
  BY <1>1, <1>3 DEF CreateOutfile, Create, NextFile
<1>6. Readable'
  BY <1>1 DEF SafeInv, Safe, Readable
<1>7. Complete'
  <2>1. disk' = disk \/ Partial(ofname)'
    BY <1>1, <1>4 DEF CreateOutfile, Create, NextFile, Partial, Begun
  <2>2. \A n \in Name : disk'[n] = disk[n] \/ Partial(n)'
    BY <1>1, <1>4, <2>1
  <2> QED BY <1>1, <1>2, <2>2, SamePieces DEF SafeInv, Safe, Complete, NoFile
<1>8. DataKept'
  BY <1>1, <1>4, KeepsData DEF SafeInv, Safe
<1> QED BY <1>6, <1>7, <1>8 DEF Safe

\* A step of zip or unzip: the output is closed only when it is complete.
LEMMA WriteSafe ==
  ASSUME SafeInv, pc = "work",
         pc' \in {"work", "close"} \/ (pc' = "method" /\ part_nb > 0),
         UNCHANGED <<setting, ifname, ofname, remove_ofname, part_nb, given>>,
         disk' \in [Name -> File], \A n \in Name : n # ofname => disk'[n] = disk[n],
         disk'[ofname].of = Data,
         pc' = "close" => disk'[ofname] = Whole(Data) \/ method' = -1
  PROVE  Safe'
<1>1. /\ ofname \in Name /\ ifname \in Name /\ ofname # ifname /\ disk[ofname].of = Data
      /\ members' = members
  BY DEF SafeInv, Inv, Treating, Writing, Begun
<1>2. Data' = Data
  BY <1>1 DEF Data
<1>4. Readable'
  BY DEF SafeInv, Safe, Readable
<1>5. Complete'
  <2>1. Partial(ofname)'
    BY DEF Partial, Begun
  <2>2. \A n \in Name : n # ofname => disk[n] = NoFile \/ disk[n] = Whole(disk[n].of)
    BY DEF SafeInv, Safe, Complete, Partial
  <2> QED BY <1>1, <1>2, <2>1, <2>2, SamePieces DEF Complete, NoFile
<1>6. DataKept'
  <2>1. disk'[ifname] = Whole(Data)
    BY <1>1, InputWhole
  <2> QED BY <1>1, <2>1, KeepsData DEF SafeInv, Safe
<1> QED BY <1>4, <1>5, <1>6 DEF Safe

LEMMA CompressSafe ==
  ASSUME ReadsTell, SafeInv, Compress
  PROVE  Safe'
<1>1. /\ pc = "work" /\ ~decompress /\ decompress = FALSE /\ ifname \in Name /\ ofname \in Name
      /\ ofname # ifname /\ disk[ofname].of = Data /\ disk \in [Name -> File]
      /\ disk[ofname] \in File
      /\ UNCHANGED <<i, setting, ifname, ofname, remove_ofname, method, part_nb, given, exit_code>>
  BY DEF Compress, SafeInv, Inv, Types, Treating, Writing, Begun
<1>2. CASE disk[ofname].upto < disk[ifname].upto /\ Grow /\ UNCHANGED pc
  <2>1. disk' = [disk EXCEPT ![ofname].upto = disk[ofname].upto + 1]
    BY <1>2 DEF Grow
  <2>2. [disk[ofname] EXCEPT !.upto = disk[ofname].upto + 1] \in File
    BY <1>1 DEF File
  <2>3. /\ disk' \in [Name -> File] /\ \A n \in Name : n # ofname => disk'[n] = disk[n]
        /\ disk'[ofname] = [disk[ofname] EXCEPT !.upto = disk[ofname].upto + 1]
    BY <1>1, <2>1, <2>2
  <2>4. disk'[ofname].of = Data
    BY <1>1, <2>3 DEF File
  <2> QED BY <1>1, <1>2, <2>3, <2>4, WriteSafe
<1>3. CASE /\ disk[ofname].upto = disk[ifname].upto \/ ifname \in ReadFails
           /\ pc' = "close" /\ UNCHANGED disk
  <2>1. ifname \notin ReadFails
    BY <1>1 DEF ReadsTell, SafeInv, Safe, Readable
  <2>2. disk[ofname] = Whole(Data)
    <3>1. disk[ofname].upto = Whole(Data).upto
      BY <1>1, <1>3, <2>1, InputWhole
    <3> QED BY <1>1, <3>1 DEF Whole, File
  <2> QED BY <1>1, <1>3, <2>2, WriteSafe
<1> QED BY <1>2, <1>3 DEF Compress

LEMMA ExtractSafe ==
  ASSUME EndsInside, SafeInv, Extract
  PROVE  Safe'
<1>1. /\ pc = "work" /\ decompress /\ ifname \in Name /\ ofname \in Name /\ part_nb \in Nat
      /\ ofname # ifname /\ disk[ofname].of = Data /\ disk \in [Name -> File]
      /\ disk[ofname] \in File /\ part_nb >= 1 /\ part_nb <= Len(members[Data])
      /\ disk[ofname].upto = part_nb - 1 /\ GoodUpTo(part_nb - 1)
      /\ Member(part_nb) = "good" /\ members \in Contents
      /\ UNCHANGED <<i, setting, ifname, ofname, remove_ofname, method, part_nb, given, exit_code>>
  BY DEF Extract, SafeInv, Inv, Types, Treating, Writing, Begun, Counted
<1>2. disk' = [disk EXCEPT ![ofname].upto = disk[ofname].upto + 1]
  BY DEF Extract, Grow
<1>3. [disk[ofname] EXCEPT !.upto = disk[ofname].upto + 1] \in File
  BY <1>1 DEF File
<1>4. /\ disk' \in [Name -> File] /\ \A n \in Name : n # ofname => disk'[n] = disk[n]
      /\ disk'[ofname] = [disk[ofname] EXCEPT !.upto = disk[ofname].upto + 1]
  BY <1>1, <1>2, <1>3
<1>5. disk'[ofname].of = Data /\ disk'[ofname].upto = part_nb /\ disk'[ofname] \in File
  BY <1>1, <1>4 DEF File
<1>6. pc' = "close" => disk'[ofname] = Whole(Data)
  <2> SUFFICES ASSUME pc' = "close" PROVE disk'[ofname] = Whole(Data)
    OBVIOUS
  <2>0. /\ Data \in Name /\ members[Data] \in Seq(Entry)
        /\ \A n : Member(n) = IF n \in 1 .. Len(members[Data])
                                THEN members[Data][n].kind ELSE "none"
    BY <1>1, DataType DEF SafeInv, Inv
  <2>1. Len(members[Data]) \in Nat /\ DOMAIN members[Data] = 1 .. Len(members[Data])
        /\ part_nb \in 1 .. Len(members[Data])
    BY <1>1, <2>0
  <2>2. part_nb = Len(members[Data])
    <3>1. BufferEmpty
      BY DEF Extract
    <3>2. part_nb < Len(members[Data]) => members[Data][part_nb].end % Inbufsiz # 0
      BY <1>1, <2>0, <2>1 DEF EndsInside
    <3> QED BY <1>1, <2>1, <3>1, <3>2 DEF BufferEmpty
  <2>3. \A k \in 1 .. part_nb : members[Data][k].kind # "garbage"
    <3> SUFFICES ASSUME NEW k \in 1 .. part_nb PROVE members[Data][k].kind # "garbage"
      OBVIOUS
    <3>1. CASE k = part_nb
      BY <1>1, <2>0, <2>1, <3>1
    <3>2. CASE k # part_nb
      <4>1. k \in 1 .. part_nb - 1
        BY <1>1, <3>2
      <4> QED BY <1>1, <4>1 DEF GoodUpTo
    <3> QED BY <3>1, <3>2
  <2>4. Pieces(Data) = part_nb
    BY <1>1, <2>0, <2>2, <2>3, GoodPieces DEF SafeInv, Inv
  <2> QED BY <1>5, <2>4 DEF Whole, File
<1>7. pc' \in {"close", "method"}
  BY DEF Extract
<1> QED BY <1>1, <1>4, <1>5, <1>6, <1>7, WriteSafe

LEMMA RefuseSafe == SafeInv /\ Refuse => Safe'
<1> SUFFICES ASSUME SafeInv, Refuse PROVE Safe'
  OBVIOUS
<1>1. disk \in [Name -> File] /\ disk[ofname].of = Data
  BY DEF Refuse, SafeInv, Inv, Types, Writing, Begun
<1> QED BY <1>1, WriteSafe DEF Refuse

LEMMA CloseSafe == SafeInv /\ Close => Safe'
<1> SUFFICES ASSUME SafeInv, Close PROVE Safe'
  OBVIOUS
<1>1. /\ pc = "close" /\ ifname \in Name /\ ofname \in Name /\ ofname # ifname
      /\ disk[ofname].of = Data /\ disk \in [Name -> File]
      /\ UNCHANGED <<setting, ifname, ofname, remove_ofname, method, part_nb, given>>
  BY DEF Close, SafeInv, Inv, Types, Treating, Writing, Begun
<1>3. \A n \in Name : n # ofname => disk[n] = NoFile \/ disk[n] = Whole(disk[n].of)
  BY DEF SafeInv, Safe, Complete, Partial
<1>4. Readable'
  BY <1>1 DEF SafeInv, Safe, Readable, Close, NextFile
<1>5. CASE method = -1
  <2>1. pc' = "next" /\ disk' = [disk EXCEPT ![ofname] = NoFile]
    BY <1>5 DEF Close, NextFile, Remove
  <2>2. disk'[ofname] = NoFile /\ \A n \in Name : n # ofname => disk'[n] = disk[n]
    BY <1>1, <2>1
  <2>4. Complete'
    BY <1>1, <1>3, <2>1, <2>2, SamePieces DEF Complete, NoFile
  <2>5. DataKept'
    <3>1. disk'[ifname] = Whole(Data)
      BY <1>1, <2>2, InputWhole
    <3> QED BY <1>1, <2>2, <3>1, KeepsData DEF SafeInv, Safe
  <2> QED BY <1>4, <2>4, <2>5 DEF Safe
<1>6. CASE method # -1
  <2>1. pc' = "stat" /\ disk' = disk
    BY <1>6 DEF Close
  <2>3. Complete'
    <3>1. disk[ofname] = Whole(Data)
      BY <1>1, <1>6 DEF SafeInv, Safe, Complete
    <3> QED BY <1>1, <1>3, <2>1, <3>1, SamePieces DEF Complete, NoFile
  <2>4. DataKept'
    BY <1>1, <2>1, SameFiles
  <2> QED BY <1>4, <2>3, <2>4 DEF Safe
<1> QED BY <1>5, <1>6

LEMMA CopyStatSafe == SafeInv /\ CopyStat => Safe'
<1> SUFFICES ASSUME SafeInv, CopyStat PROVE Safe'
  OBVIOUS
<1>1. /\ pc = "stat" /\ pc' = "remove" /\ remove_ofname' = FALSE
      /\ UNCHANGED <<i, setting, ifname, ofname, method, part_nb, disk, given, exit_code>>
  BY DEF CopyStat, Keep
<1>2. Readable'
  BY <1>1 DEF SafeInv, Safe, Readable
<1>3. Complete'
  BY <1>1, SamePieces DEF SafeInv, Safe, Complete, Partial, NoFile
<1>4. DataKept'
  BY <1>1, SameFiles
<1> QED BY <1>2, <1>3, <1>4 DEF Safe

\* "It's now safe to remove the input file."
LEMMA RemoveInputSafe == SafeInv /\ RemoveInput => Safe'
<1> SUFFICES ASSUME SafeInv, RemoveInput PROVE Safe'
  OBVIOUS
<1>1. /\ pc = "remove" /\ ifname \in Name /\ ofname \in Name /\ ofname # ifname
      /\ disk[ofname] # NoFile /\ disk[ofname].of = Data /\ disk \in [Name -> File]
      /\ pc' = "next"
      /\ UNCHANGED <<setting, ifname, ofname, remove_ofname, method, part_nb, given>>
  BY DEF RemoveInput, Unlink, NextFile, SafeInv, Inv, Types, Treating, Writing, Begun
<1>3. Readable'
  BY <1>1 DEF Readable
<1>4. /\ \A n \in Name : n # ifname => disk'[n] = disk[n]
      /\ disk'[ifname] = disk[ifname] \/ disk'[ifname] = NoFile
  BY <1>1 DEF RemoveInput, Unlink, Remove
<1>5. Complete'
  BY <1>1, <1>4, SamePieces DEF SafeInv, Safe, Complete, Partial, NoFile
<1>6. DataKept'
  <2>1. disk[ofname] = Whole(Data)
    BY <1>1 DEF SafeInv, Safe, Complete, Partial
  <2>2. disk'[ofname] = Whole(disk[ifname].of)
    BY <1>1, <1>4, <2>1 DEF Data
  <2> QED BY <1>1, <1>4, <2>2, KeepsData DEF SafeInv, Safe
<1> QED BY <1>3, <1>5, <1>6 DEF Safe

LEMMA ExitSafe == SafeInv /\ Exit => Safe'
<1> SUFFICES ASSUME SafeInv, Exit PROVE Safe'
  OBVIOUS
<1>1. pc = "next" /\ pc' = "exited" /\ UNCHANGED <<disk, setting, given>>
  BY DEF Exit
<1>2. Readable'
  BY <1>1 DEF Readable
<1>3. Complete'
  BY <1>1, SamePieces DEF SafeInv, Safe, Complete, Partial, NoFile
<1>4. DataKept'
  BY <1>1, SameFiles
<1> QED BY <1>2, <1>3, <1>4 DEF Safe

LEMMA StutterSafe == SafeInv /\ UNCHANGED vars => Safe'
<1> SUFFICES ASSUME SafeInv, UNCHANGED vars PROVE Safe'
  OBVIOUS
<1>0. UNCHANGED <<pc, i, decompress, args, members, ifname, ofname, remove_ofname, method,
                  part_nb, disk, given, exit_code, treated>>
  BY DEF vars
<1>1. Begun' = Begun /\ Data' = Data /\ \A n : Partial(n)' = Partial(n)
  BY <1>0 DEF Begun, Data, Partial
<1>2. Readable'
  BY <1>0 DEF SafeInv, Safe, Readable
<1>3. Complete'
  BY <1>0, <1>1, SamePieces DEF SafeInv, Safe, Complete, NoFile
<1>4. DataKept'
  BY <1>0, SameFiles
<1> QED BY <1>2, <1>3, <1>4 DEF Safe

LEMMA NextSafe ==
  ASSUME EndsInside, ReadsTell, LastGivenUp, SafeInv, [Next]_vars
  PROVE  SafeInv'
<1> SUFFICES Safe'
  BY NextInv, NextMarked DEF SafeInv
<1>1. CASE TreatFile \/ MakeOfname \/ OpenInput BY <1>1, EarlySafe
<1>2. CASE GetMethod   BY <1>2, GetMethodSafe
<1>3. CASE GetNoMethod BY <1>3, GetNoMethodSafe
<1>4. CASE CheckOfname BY <1>4, CheckOfnameSafe
<1>5. CASE CreateOutfile BY <1>5, CreateOutfileSafe
<1>6. CASE Compress    BY <1>6, CompressSafe
<1>7. CASE Extract     BY <1>7, ExtractSafe
<1>8. CASE Refuse      BY <1>8, RefuseSafe
<1>9. CASE Fail
  <2>1. pc # "exited" /\ Abort
    BY <1>9 DEF Fail
  <2> QED BY <2>1, AbortSafe
<1>10. CASE Close      BY <1>10, CloseSafe
<1>11. CASE CopyStat   BY <1>11, CopyStatSafe
<1>12. CASE RemoveInput BY <1>12, RemoveInputSafe
<1>13. CASE Exit       BY <1>13, ExitSafe
<1>14. CASE Signal     BY <1>14, AbortSafe DEF Signal
<1>15. CASE UNCHANGED vars BY <1>15, StutterSafe
<1> QED
  BY <1>1, <1>2, <1>3, <1>4, <1>5, <1>6, <1>7, <1>8, <1>9, <1>10, <1>11, <1>12, <1>13,
     <1>14, <1>15 DEF Next, Finished

LEMMA InitSafe == Init => SafeInv
<1> SUFFICES ASSUME Init PROVE SafeInv
  OBVIOUS
<1>1. Inv
  BY InitInv
<1>2. pc = "next" /\ remove_ofname = FALSE
  BY DEF Init
<1>3. Marked /\ Readable
  BY <1>2 DEF Marked, Readable, Begun
<1>4. disk = [n \in Name |-> IF n \in Existing THEN Whole(n) ELSE NoFile]
  BY DEF Init
<1>5. \A n : Whole(n).of = n
  BY DEF Whole
<1>6. Complete
  BY <1>2, <1>4, <1>5 DEF Complete
<1>7. DataKept
  BY <1>4, NameAssumption DEF DataKept
<1> QED BY <1>1, <1>3, <1>6, <1>7 DEF SafeInv, Safe

LEMMA AlwaysSafe ==
  ASSUME EndsInside, ReadsTell
  PROVE  Spec /\ []LastGivenUp => []SafeInv
<1>1. LastGivenUp /\ SafeInv /\ [Next]_vars => SafeInv'
  BY NextSafe
<1> QED BY <1>1, InitSafe, PTL DEF Spec

\* gzip never loses data: at every moment, so also when it is killed, what each file held
\* at first is complete in some file or was overwritten with permission, for any number
\* of files, any contents and failures of every call.  The hypotheses name the gaps the
\* program has: a member that ends where the input buffer does (EndsInside), read errors
\* of deflate (ReadsTell), and remove_ofname left set for the next file (LastGivenUp).
THEOREM DataSafe ==
  ASSUME EndsInside, ReadsTell
  PROVE  Spec /\ []LastGivenUp => []DataKept
<1>1. SafeInv => DataKept
  BY DEF SafeInv, Safe
<1> QED BY <1>1, AlwaysSafe, PTL

------------------------------------------------------------------------------
(* The invariant for the exit code is inductive                            *)

\* Only create_outfile puts data under another name; all else removes or adds to a file.
LEMMA FileSteps ==
  ASSUME Inv, [Next]_vars, ~CreateOutfile
  PROVE  /\ disk' \in [Name -> File]
         /\ \A n \in Name : disk'[n] = NoFile \/ (disk[n] # NoFile /\ disk'[n].of = disk[n].of)
<1>1. disk \in [Name -> File] /\ disk' \in [Name -> File]
  BY NextInv DEF Inv, Types
<1>2. CASE disk' = disk
  BY <1>1, <1>2
<1>3. ASSUME NEW m, Remove(m)
      PROVE  \A n \in Name : disk'[n] = disk[n] \/ disk'[n] = NoFile
  BY <1>1, <1>3 DEF Remove
<1>4. CASE Grow /\ pc = "work"
  <2>1. ofname \in Name /\ disk[ofname] # NoFile
    BY <1>4 DEF Inv, Treating, Writing, Begun
  <2>2. /\ \A n \in Name : n # ofname => disk'[n] = disk[n]
        /\ disk'[ofname] = [disk[ofname] EXCEPT !.upto = disk[ofname].upto + 1]
    BY <1>1, <1>4, <2>1 DEF Grow
  <2>3. disk'[ofname].of = disk[ofname].of
    BY <1>1, <2>1, <2>2 DEF File
  <2> QED BY <1>1, <2>1, <2>2, <2>3
<1>5. disk' = disk \/ (\E m : Remove(m)) \/ (Grow /\ pc = "work")
  BY DEF Next, TreatFile, MakeOfname, OpenInput, GetMethod, GetNoMethod, CheckOfname,
         Compress, Extract, Refuse, Fail, Close, CopyStat, Keep, Abort,
         RemoveInput, Unlink, Exit, Signal, Finished, NextFile, vars
<1> QED BY <1>1, <1>2, <1>3, <1>4, <1>5

\* The name of the output is none the data had before.
LEMMA NewName ==
  ASSUME NEW rank \in [Name -> Nat], Suffixes(rank), Inv, Readable, Ranked(rank), CreateOutfile
  PROVE  /\ ofname \in Name /\ ifname \in Name /\ Data \in Name /\ ofname # Data
         /\ IF decompress THEN rank[ofname] < rank[Data] ELSE rank[ofname] > rank[Data]
         /\ \A n \in Name : n # ofname => disk'[n] = disk[n]
         /\ disk' = disk \/ disk'[ofname].of = Data
<1>1. /\ pc = "creating" /\ ifname \in Name /\ ofname \in Name /\ disk[ifname] # NoFile
      /\ decompress \in BOOLEAN /\ disk \in [Name -> File]
  BY DEF CreateOutfile, Create, Inv, Types, Treating
<1>2. Data \in Name
  BY <1>1, DataType DEF Inv
<1>3. ofname = OutName[decompress][ifname] /\ OutName[decompress][ifname] # NoName
  BY <1>1 DEF Ranked, Readable
<1>4. rank[ofname] \in Nat /\ rank[ifname] \in Nat /\ rank[Data] \in Nat
  BY <1>1, <1>2
<1>5. Data = ifname \/ IF decompress THEN rank[ifname] < rank[Data] ELSE rank[ifname] > rank[Data]
  BY <1>1 DEF Ranked, Data
<1>6. CASE decompress
  <2>1. rank[ofname] < rank[ifname]
    BY <1>1, <1>3, <1>6 DEF Suffixes
  <2>2. rank[ofname] < rank[Data]
    BY <1>4, <1>5, <1>6, <2>1
  <2> QED BY <1>1, <1>2, <1>4, <1>6, <2>2 DEF CreateOutfile, Create
<1>7. CASE ~decompress
  <2>1. rank[ofname] > rank[ifname]
    BY <1>1, <1>3, <1>7 DEF Suffixes
  <2>2. rank[ofname] > rank[Data]
    BY <1>4, <1>5, <1>7, <2>1
  <2> QED BY <1>1, <1>2, <1>4, <1>7, <2>2 DEF CreateOutfile, Create
<1> QED BY <1>6, <1>7

LEMMA NextRanked ==
  ASSUME NEW rank \in [Name -> Nat], Suffixes(rank), Inv, Readable, Ranked(rank), [Next]_vars
  PROVE  Ranked(rank)'
<1>0. decompress' = decompress
  BY DEF Next, TreatFile, MakeOfname, OpenInput, GetMethod, GetNoMethod, CheckOfname,
         CreateOutfile, Create, Compress, Extract, Refuse, Fail, Close, CopyStat, Keep, Abort,
         RemoveInput, Unlink, Exit, Signal, Finished, vars
<1>1. pc' \notin {"next", "name", "exited"} => ofname' = OutName[decompress][ifname']
  <2> SUFFICES ASSUME pc' \notin {"next", "name", "exited"}
               PROVE  ofname' = OutName[decompress][ifname']
    OBVIOUS
  <2>1. CASE MakeOfname
    BY <2>1 DEF MakeOfname, NextFile
  <2>2. CASE GetMethod
    <3>1. ofname' = ofname /\ ifname' = ifname
      BY <2>2 DEF GetMethod, Suffixes, Inv, Treating
    <3> QED BY <2>2, <3>1 DEF GetMethod, Ranked
  <2>3. CASE ~(MakeOfname \/ GetMethod)
    <3>1. UNCHANGED <<ifname, ofname>> /\ pc \notin {"next", "name", "exited"}
      BY <2>3 DEF Next, TreatFile, OpenInput, GetNoMethod, CheckOfname,
         CreateOutfile, Create, Compress, Extract, Refuse, Fail, Close, CopyStat, Keep, Abort,
         RemoveInput, Unlink, Exit, Signal, Finished, NextFile, vars
    <3> QED BY <3>1 DEF Ranked
  <2> QED BY <2>1, <2>2, <2>3
<1>2. ASSUME NEW n \in Name, disk'[n] # NoFile, disk'[n].of # n
      PROVE  IF decompress THEN rank[n] < rank[disk'[n].of] ELSE rank[n] > rank[disk'[n].of]
  <2>1. CASE CreateOutfile
    <3>1. CASE disk' = disk \/ n # ofname
      BY <1>2, <2>1, <3>1, NewName DEF Ranked
    <3>2. CASE disk' # disk /\ n = ofname
      BY <2>1, <3>2, NewName
    <3> QED BY <3>1, <3>2
  <2>2. CASE ~CreateOutfile
    <3>1. disk[n] # NoFile /\ disk'[n].of = disk[n].of
      BY <1>2, <2>2, FileSteps
    <3> QED BY <1>2, <3>1 DEF Ranked
  <2> QED BY <2>1, <2>2
<1> QED BY <1>0, <1>1, <1>2 DEF Ranked, NoFile

\* What is treated keeps its data until it is removed.
LEMMA SameInput ==
  ASSUME Inv, [Next]_vars, ~TreatFile, pc' \notin {"next", "exited"}
  PROVE  /\ pc \notin {"next", "exited"} /\ i' = i /\ ifname' = ifname /\ Data' = Data
         /\ ifname \in Name
<1>1. UNCHANGED <<i, ifname>> /\ pc \notin {"next", "exited"}
  BY DEF Next, MakeOfname, OpenInput, GetMethod, GetNoMethod, CheckOfname,
         CreateOutfile, Create, Compress, Extract, Refuse, Fail, Close, CopyStat, Keep, Abort,
         RemoveInput, Unlink, Exit, Signal, Finished, NextFile, vars
<1>2. ifname \in Name /\ disk'[ifname] # NoFile
  BY <1>1, NextInv DEF Inv, Treating, NoFile
<1>3. disk'[ifname].of = disk[ifname].of
  <2>1. CASE CreateOutfile
    <3>1. ofname # ifname /\ disk \in [Name -> File] /\ ofname \in Name
      BY <1>1, <2>1 DEF Inv, Types, Free, Treating, CreateOutfile, Create
    <3> QED BY <1>2, <2>1, <3>1 DEF CreateOutfile, Create
  <2>2. CASE ~CreateOutfile
    BY <1>2, <2>2, FileSteps
  <2> QED BY <2>1, <2>2
<1> QED BY <1>1, <1>2, <1>3 DEF Data

LEMMA NextAsked == Inv /\ Logged /\ Asked /\ [Next]_vars => Asked'
<1> SUFFICES ASSUME Inv, Logged, Asked, [Next]_vars, pc' \notin {"next", "exited"}
             PROVE  /\ ifname' \in AskedFor(i)' /\ treated'[i'].file = ifname'
                    /\ treated'[i'].data = Data'
  BY DEF Asked
<1>1. CASE TreatFile
  <2>1. /\ pc' = "name" /\ i' = i /\ UNCHANGED <<args, decompress, disk>>
        /\ ifname' \in {args[i]} \cup {n \in Suffixed[args[i]] : decompress}
    BY <1>1 DEF TreatFile, NextFile
  <2>2. treated'[i] = [file |-> ifname', data |-> disk[ifname'].of]
    BY <1>1, <2>1, TreatFileLogs
  <2>3. ifname' \in AskedFor(i)'
    BY <2>1 DEF AskedFor
  <2>4. Data' = disk[ifname'].of
    BY <2>1 DEF Data
  <2> QED BY <2>1, <2>2, <2>3, <2>4
<1>2. CASE ~TreatFile
  <2>1. UNCHANGED <<args, decompress, treated>>
    BY <1>2, StepKinds
  <2>2. pc \notin {"next", "exited"} /\ i' = i /\ ifname' = ifname /\ Data' = Data
    BY <1>2, SameInput
  <2>3. AskedFor(i)' = AskedFor(i)
    BY <2>1, <2>2 DEF AskedFor
  <2> QED BY <2>1, <2>2, <2>3 DEF Asked
<1> QED BY <1>1, <1>2

LEMMA NextSourced == Inv /\ Sourced /\ [Next]_vars => Sourced'
<1> SUFFICES ASSUME Inv, Sourced, [Next]_vars, NEW n \in Name, disk'[n] # NoFile
             PROVE  disk'[n].of \in Existing
  BY DEF Sourced, NoFile
<1>1. CASE CreateOutfile
  <2>1. /\ ifname \in Name /\ disk[ifname] # NoFile /\ disk \in [Name -> File]
        /\ ofname \in Name
    BY <1>1 DEF Inv, Types, Treating, CreateOutfile, Create
  <2>2. \/ disk'[n] = disk[n]
        \/ disk'[n].of = Data
    BY <1>1, <2>1 DEF CreateOutfile, Create
  <2> QED BY <2>1, <2>2 DEF Sourced, Data
<1>2. CASE ~CreateOutfile
  BY <1>2, FileSteps DEF Sourced
<1> QED BY <1>1, <1>2

LEMMA NextJudged == Inv /\ Judged /\ [Next]_vars => Judged'
<1> SUFFICES ASSUME Inv, Judged, [Next]_vars PROVE Judged'
  OBVIOUS
<1>1. CASE OpenInput \/ TreatFile \/ MakeOfname
  BY <1>1 DEF OpenInput, TreatFile, MakeOfname, NextFile, Judged
<1>2. CASE GetMethod \/ CheckOfname \/ CreateOutfile \/ Compress \/ Extract
  BY <1>2 DEF GetMethod, CheckOfname, CreateOutfile, Create, Compress, Extract, NextFile, Judged
<1>3. CASE GetNoMethod \/ Refuse
  BY <1>3 DEF GetNoMethod, Refuse, NextFile, Judged
<1>4. CASE Fail \/ Signal \/ Exit \/ Close \/ CopyStat \/ RemoveInput
  BY <1>4 DEF Fail, Signal, Abort, Exit, Close, CopyStat, Keep, RemoveInput, Unlink, NextFile,
              Judged
<1>5. CASE UNCHANGED vars
  BY <1>5 DEF vars, Judged
<1> QED BY <1>1, <1>2, <1>3, <1>4, <1>5 DEF Next, Finished

\* 0 stays 0 only while nothing fails.
LEMMA StillZero ==
  ASSUME [Next]_vars, exit_code' = 0
  PROVE  exit_code = 0 /\ ~Abort
<1>1. ~Abort
  BY DEF Abort
<1>2. CASE TreatFile
  BY <1>1, <1>2, TreatFileSteps DEF NextFile
<1>3. CASE MakeOfname \/ OpenInput \/ GetMethod \/ GetNoMethod \/ CheckOfname
  BY <1>1, <1>3 DEF MakeOfname, OpenInput, GetMethod, GetNoMethod, CheckOfname, NextFile, Warned
<1>4. CASE CreateOutfile \/ Compress \/ Extract \/ Refuse \/ Close \/ CopyStat \/ RemoveInput
  BY <1>1, <1>4 DEF CreateOutfile, Create, Compress, Extract, Refuse, Close, CopyStat, Keep,
              RemoveInput, Unlink, NextFile, Warned
<1>5. CASE Exit \/ UNCHANGED vars
  BY <1>1, <1>5 DEF Exit, vars
<1> QED BY <1>1, <1>2, <1>3, <1>4, <1>5 DEF Next, Finished, Fail, Signal

\* Then a file is left only when it has been replaced.
LEMMA LeftReplaced ==
  ASSUME Inv, Judged, [Next]_vars, ~TreatFile, exit_code' = 0,
         pc \notin {"next", "exited"}, pc' \in {"next", "exited"}
  PROVE  RemoveInput /\ Remove(ifname) /\ pc = "remove" /\ pc' = "next" /\ i' = i + 1
<1>1. exit_code = 0 /\ ~Abort
  BY StillZero
<1>2. (\E c \in {1, Warned} : NextFile(c)) \/ Close \/ RemoveInput
  BY <1>1 DEF Next, MakeOfname, OpenInput, GetMethod, GetNoMethod, CheckOfname,
       CreateOutfile, Create, Compress, Extract, Refuse, Fail, CopyStat, Keep,
       Exit, Signal, Finished, NextFile, vars
<1>3. ~\E c \in {1, Warned} : NextFile(c)
  BY <1>1 DEF NextFile, Warned
<1>4. ~Close
  BY <1>1 DEF Close, NextFile, Judged
<1>5. RemoveInput
  BY <1>2, <1>3, <1>4
<1> QED BY <1>3, <1>5 DEF RemoveInput, Unlink, NextFile

\* While an output is written, so it is or the file has been replaced or given up.
LEMMA BegunOn ==
  ASSUME Inv, Judged, [Next]_vars, Begun, exit_code' = 0
  PROVE  \/ Begun' /\ UNCHANGED <<ifname, ofname>>
         \/ RemoveInput /\ Remove(ifname)
<1>1. pc \notin {"next", "exited"} /\ ~TreatFile
  BY DEF Begun, TreatFile
<1>2. CASE pc' \in {"next", "exited"}
  BY <1>1, <1>2, LeftReplaced
<1>3. CASE pc' \notin {"next", "exited"}
  <2>1. part_nb \in Nat
    BY DEF Inv, Types
  <2>2. CASE MakeOfname \/ OpenInput \/ CheckOfname \/ CreateOutfile
    BY <2>2 DEF MakeOfname, OpenInput, CheckOfname, CreateOutfile, Create, Begun
  <2>3. CASE GetMethod \/ GetNoMethod
    BY <1>3, <2>1, <2>3 DEF GetMethod, GetNoMethod, NextFile, Begun
  <2>4. CASE Compress \/ Extract \/ Refuse \/ Close \/ CopyStat \/ RemoveInput
    <3>1. /\ pc' \in {"method", "work", "close", "stat", "remove"}
          /\ UNCHANGED <<ifname, ofname, part_nb>>
      BY <1>3, <2>4 DEF Compress, Extract, Refuse, Close, CopyStat, Keep, RemoveInput, Unlink,
                        NextFile
    <3>2. pc' = "method" => part_nb > 0
      BY <1>3, <2>1, <2>4 DEF Compress, Extract, Refuse, Close, CopyStat, Keep, RemoveInput,
                              Unlink, NextFile, Inv, Counted
    <3> QED BY <3>1, <3>2 DEF Begun
  <2>5. CASE UNCHANGED vars
    BY <2>5 DEF vars, Begun
  <2> QED
    BY <1>1, <1>3, <2>2, <2>3, <2>4, <2>5 DEF Next, Fail, Signal, Abort, Exit, Finished
<1> QED BY <1>2, <1>3

LEMMA NextUnique == Inv /\ Judged /\ Unique /\ [Next]_vars => Unique'
<1> SUFFICES ASSUME Inv, Judged, Unique, [Next]_vars, exit_code' = 0,
                    NEW m \in Name, NEW n \in Name,
                    disk'[m] # NoFile, disk'[n] # NoFile, disk'[m].of = disk'[n].of, m # n
             PROVE  Begun' /\ m \in {ifname', ofname'} /\ n \in {ifname', ofname'}
  BY DEF Unique, NoFile
<1>0. exit_code = 0
  BY StillZero
<1>1. CASE CreateOutfile
  <2>1. /\ pc = "creating" /\ ~Begun /\ UNCHANGED <<ifname, ofname>>
        /\ ifname \in Name /\ ofname \in Name /\ disk[ifname] # NoFile
        /\ disk \in [Name -> File]
    BY <1>1 DEF Inv, Types, Treating, CreateOutfile, Create, Begun
  <2>2. ~(disk[m] # NoFile /\ disk[n] # NoFile /\ disk[m].of = disk[n].of)
    BY <1>0, <2>1 DEF Unique
  <2>3. /\ pc' = "work" /\ disk'[ofname].of = Data
        /\ \A x \in Name : x # ofname => disk'[x] = disk[x]
    BY <1>1, <2>1, <2>2 DEF CreateOutfile, Create
  <2>4. \A x \in Name : disk[x] # NoFile /\ disk[x].of = Data => x = ifname
    BY <1>0, <2>1 DEF Unique, Data
  <2>5. \/ m = ofname /\ n # ofname /\ disk[n] # NoFile /\ disk[n].of = Data
        \/ n = ofname /\ m # ofname /\ disk[m] # NoFile /\ disk[m].of = Data
    BY <2>2, <2>3
  <2>6. \/ m = ofname /\ n = ifname
        \/ n = ofname /\ m = ifname
    BY <2>4, <2>5
  <2> QED BY <2>1, <2>3, <2>6 DEF Begun
<1>2. CASE ~CreateOutfile
  <2>1. disk[m] # NoFile /\ disk[n] # NoFile /\ disk[m].of = disk[n].of
    BY <1>2, FileSteps
  <2>2. Begun /\ m \in {ifname, ofname} /\ n \in {ifname, ofname}
    BY <1>0, <2>1 DEF Unique
  <2>3. CASE RemoveInput /\ Remove(ifname)
    <3>1. ifname \in Name /\ disk \in [Name -> File]
      BY <2>3 DEF RemoveInput, Unlink, Inv, Types, Treating
    <3>2. disk'[ifname] = NoFile
      BY <2>3, <3>1 DEF Remove
    <3> QED BY <2>2, <3>2
  <2> QED BY <2>2, <2>3, BegunOn
<1> QED BY <1>1, <1>2

\* The name of the output is beyond that of the input.
LEMMA OutBeyond ==
  ASSUME NEW rank \in [Name -> Nat], Suffixes(rank), Inv, Readable, Ranked(rank),
         pc \notin {"next", "name", "exited"}
  PROVE  Beyond(rank, ofname, ifname)
<1>1. /\ ifname \in Name /\ decompress \in BOOLEAN
      /\ ofname = OutName[decompress][ifname] /\ OutName[decompress][ifname] # NoName
  BY DEF Inv, Types, Treating, Ranked, Readable
<1> QED BY <1>1 DEF Suffixes, Beyond

LEMMA NextMoved ==
  ASSUME NEW rank \in [Name -> Nat], Suffixes(rank), Inv, Readable, Ranked(rank),
         [Next]_vars, NEW k, Moved(rank, k), AskedFor(k) \subseteq Name,
         treated'[k] = treated[k], AskedFor(k)' = AskedFor(k), decompress' = decompress
  PROVE  Moved(rank, k)'
<1> DEFINE file == treated[k].file
           data == treated[k].data
<1>1. file \in Name /\ file \in AskedFor(k) /\ data \in Existing
  BY DEF Moved
<1>2. ASSUME NEW n \in Name, disk'[n] # NoFile, disk'[n].of = data
      PROVE  Beyond(rank, n, file)
  <2>1. CASE disk[n] # NoFile /\ disk[n].of = data
    BY <2>1 DEF Moved
  <2>2. CASE ~(disk[n] # NoFile /\ disk[n].of = data)
    <3>1. CreateOutfile
      BY <1>2, <2>2, FileSteps
    <3>2. n = ofname /\ Data = data
      BY <1>2, <2>2, <3>1, NewName
    <3>3. /\ pc = "creating" /\ ifname \in Name /\ ofname \in Name /\ disk[ifname] # NoFile
      BY <3>1 DEF CreateOutfile, Create, Inv, Treating
    <3>4. Beyond(rank, ifname, file)
      BY <3>2, <3>3 DEF Moved, Data
    <3>5. Beyond(rank, ofname, ifname)
      BY <3>3, OutBeyond
    <3>6. rank[ofname] \in Nat /\ rank[ifname] \in Nat /\ rank[file] \in Nat
      BY <1>1, <3>3
    <3> QED BY <3>2, <3>4, <3>5, <3>6 DEF Beyond
  <2> QED BY <2>1, <2>2
<1> QED BY <1>1, <1>2 DEF Moved, Beyond, NoFile

LEMMA AskedNames ==
  ASSUME Inv, NEW k \in 1 .. Len(args)
  PROVE  AskedFor(k) \subseteq Name
<1>1. args[k] \in Name
  BY DEF Inv, Types
<1> QED BY <1>1, NameAssumption DEF AskedFor

LEMMA NextGone ==
  ASSUME NEW rank \in [Name -> Nat], Suffixes(rank), Inv, Logged, Readable, Ranked(rank),
         Asked, Judged, Sourced, Unique, Gone(rank), [Next]_vars
  PROVE  Gone(rank)'
<1> SUFFICES ASSUME exit_code' = 0
             PROVE  /\ pc' = "exited" => i' > Len(args') /\ Len(treated') = i' - 1
                    /\ \A k \in 1 .. i' - 1 : Moved(rank, k)'
  BY DEF Gone
<1>1. exit_code = 0 /\ ~Abort
  BY StillZero
<1>2. args \in Seq(Name) /\ Len(args) \in Nat /\ i \in 1 .. Len(args) + 1
  BY DEF Inv, Types
<1>3. ASSUME NEW k \in 1 .. i - 1, treated'[k] = treated[k], args' = args,
             decompress' = decompress
      PROVE  Moved(rank, k)'
  <2>1. Moved(rank, k) /\ k \in 1 .. Len(args)
    BY <1>1, <1>2 DEF Gone
  <2>2. AskedFor(k)' = AskedFor(k)
    BY <1>3 DEF AskedFor
  <2> QED BY <1>3, <2>1, <2>2, NextMoved, AskedNames
<1>4. CASE TreatFile
  <2>1. args' = args /\ decompress' = decompress
    BY <1>4 DEF TreatFile
  <2>2. i' = i /\ pc' = "name"
    BY <1>1, <1>4, TreatFileSteps DEF NextFile
  <2>3. \A k \in 1 .. i - 1 : treated'[k] = treated[k]
    BY <1>4, TreatFileLogs
  <2> QED BY <1>3, <2>1, <2>2, <2>3
<1>5. CASE ~TreatFile /\ ~(pc \notin {"next", "exited"} /\ pc' \in {"next", "exited"})
  <2>1. UNCHANGED <<args, decompress, treated>> /\ i' = i
    BY <1>5, StepKinds
  <2>2. \A k \in 1 .. i - 1 : Moved(rank, k)'
    BY <1>3, <2>1
  <2>3. ASSUME pc' = "exited" PROVE i > Len(args) /\ Len(treated) = i - 1
    <3>1. CASE pc = "exited"
      BY <1>1, <3>1 DEF Gone
    <3>2. CASE pc = "next"
      <4>1. Exit
        BY <1>1, <2>3, <3>2 DEF Next, TreatFile, MakeOfname, OpenInput, GetMethod, GetNoMethod,
           CheckOfname, CreateOutfile, Create, Compress, Extract, Refuse, Fail, Close, CopyStat,
           Keep, RemoveInput, Unlink, Signal, Finished, NextFile, vars
      <4> QED BY <3>2, <4>1 DEF Exit, Logged
    <3> QED BY <1>5, <2>3, <3>1, <3>2
  <2> QED BY <2>1, <2>2, <2>3
<1>6. CASE ~TreatFile /\ pc \notin {"next", "exited"} /\ pc' \in {"next", "exited"}
  <2>1. RemoveInput /\ Remove(ifname) /\ pc = "remove" /\ pc' = "next" /\ i' = i + 1
    BY <1>6, LeftReplaced
  <2>2. UNCHANGED <<args, decompress, treated>>
    BY <1>6, StepKinds
  <2>3. /\ ifname \in Name /\ disk \in [Name -> File] /\ disk[ifname] # NoFile
        /\ i <= Len(args) /\ Begun
    BY <2>1 DEF Inv, Types, Treating, Begun
  <2>4. /\ ifname \in AskedFor(i) /\ treated[i].file = ifname /\ treated[i].data = Data
    BY <1>6 DEF Asked
  <2>5. Data \in Existing
    BY <2>3 DEF Sourced, Data
  <2>6. /\ disk'[ifname] = NoFile
        /\ \A n \in Name : n # ifname => disk'[n] = disk[n]
    BY <2>1, <2>3 DEF Remove
  <2>7. ASSUME NEW n \in Name, disk'[n] # NoFile, disk'[n].of = Data
        PROVE  Beyond(rank, n, ifname)
    <3>1. n # ifname /\ disk[n] # NoFile /\ disk[n].of = disk[ifname].of
      BY <2>6, <2>7 DEF Data
    <3>2. n = ofname
      BY <1>1, <2>3, <3>1 DEF Unique
    <3> QED BY <2>1, <3>2, OutBeyond
  <2>8. ASSUME NEW k \in 1 .. i' - 1 PROVE Moved(rank, k)'
    <3>1. k \in 1 .. i - 1 \/ k = i
      BY <1>2, <2>1
    <3>2. CASE k = i
      <4>1. /\ treated'[k].file = ifname /\ treated'[k].data = Data
            /\ AskedFor(k)' = AskedFor(i)
        BY <2>2, <2>4, <3>2 DEF AskedFor
      <4>2. \A n \in Name : disk'[n] # NoFile /\ disk'[n].of = treated'[k].data =>
                            Beyond(rank, n, treated[k].file)'
        <5> SUFFICES ASSUME NEW n \in Name, disk'[n] # NoFile, disk'[n].of = treated'[k].data
                     PROVE  Beyond(rank, n, treated[k].file)'
          BY DEF NoFile
        <5>1. Beyond(rank, n, ifname)
          BY <2>7, <4>1
        <5> QED BY <2>2, <4>1, <5>1 DEF Beyond
      <4>3. treated'[k].file \in AskedFor(k)' /\ treated'[k].data \in Existing
        BY <2>4, <2>5, <4>1
      <4> QED BY <4>2, <4>3 DEF Moved
    <3> QED BY <1>3, <2>2, <3>1, <3>2
  <2> QED BY <2>1, <2>8
<1> QED BY <1>4, <1>5, <1>6

\* gzip leaves no file with part of some data behind, however it ends: by itself, by an
\* error or by a signal.  The hypotheses are those of DataSafe.
THEOREM NothingPartial ==
  ASSUME EndsInside, ReadsTell
  PROVE  Spec /\ []LastGivenUp => []NoPartialLeft
<1>1. SafeInv => NoPartialLeft
  BY DEF NoPartialLeft, SafeInv, Safe, Complete, Partial
<1> QED BY <1>1, AlwaysSafe, PTL

\* Exit code 0 says that for every argument a file asked for was found and replaced: it no
\* longer holds what it held, which is complete in another file or was overwritten with
\* permission.  Besides the gaps that DataSafe names, names given in headers are not used.
THEOREM ExitTruthful ==
  ASSUME EndsInside, ReadsTell, NEW rank \in [Name -> Nat], Suffixes(rank)
  PROVE  Spec /\ []LastGivenUp => []ExitTells
<1>1. Init => ExitInv(rank)
  <2> SUFFICES ASSUME Init PROVE ExitInv(rank)
    OBVIOUS
  <2>1. /\ pc = "next" /\ i = 1 /\ treated = <<>>
        /\ disk = [n \in Name |-> IF n \in Existing THEN Whole(n) ELSE NoFile]
    BY DEF Init
  <2>2. \A n : Whole(n).of = n
    BY DEF Whole
  <2>3. Ranked(rank) /\ Sourced /\ Unique
    BY <2>1, <2>2 DEF Ranked, Sourced, Unique
  <2>4. Logged /\ Asked /\ Judged /\ Gone(rank)
    BY <2>1 DEF Logged, Asked, Judged, Gone
  <2> QED BY <2>3, <2>4, InitSafe DEF ExitInv
<1>2. LastGivenUp /\ ExitInv(rank) /\ [Next]_vars => ExitInv(rank)'
  BY NextSafe, NextLogged, NextRanked, NextAsked, NextJudged, NextSourced, NextUnique, NextGone
     DEF ExitInv, SafeInv, Safe
<1>3. ExitInv(rank) => ExitTells
  <2> SUFFICES ASSUME ExitInv(rank), pc = "exited", exit_code = 0
               PROVE  /\ Len(treated) = Len(args)
                      /\ \A k \in DOMAIN treated :
                           LET file == treated[k].file
                               data == treated[k].data
                           IN /\ file \in AskedFor(k) /\ disk[file].of # data
                              /\ data \in given \/ \E n \in Name : disk[n] = Whole(data)
    BY DEF ExitTells
  <2>1. /\ args \in Seq(Name) /\ i \in 1 .. Len(args) + 1 /\ i > Len(args) /\ Len(args) \in Nat
        /\ Len(treated) = i - 1 /\ DOMAIN treated = 1 .. Len(treated) /\ decompress \in BOOLEAN
    BY DEF ExitInv, SafeInv, Inv, Types, Gone, Logged
  <2>2. ASSUME NEW k \in DOMAIN treated
        PROVE  /\ treated[k].file \in AskedFor(k) /\ disk[treated[k].file].of # treated[k].data
               /\ \/ treated[k].data \in given
                  \/ \E n \in Name : disk[n] = Whole(treated[k].data)
    <3>1. Moved(rank, k) /\ k \in 1 .. Len(args)
      BY <2>1 DEF ExitInv, Gone
    <3>2. treated[k].file \in Name /\ treated[k].data \in Existing
      BY <3>1, AskedNames DEF Moved, ExitInv, SafeInv
    <3>3. ~Beyond(rank, treated[k].file, treated[k].file)
      <4>1. rank[treated[k].file] \in Nat
        BY <3>2
      <4> QED BY <4>1 DEF Beyond
    <3>4. disk[treated[k].file].of # treated[k].data
      <4>1. NoName # treated[k].data
        BY <3>2, NameAssumption
      <4>2. CASE disk[treated[k].file] = NoFile
        BY <4>1, <4>2 DEF NoFile
      <4>3. CASE disk[treated[k].file] # NoFile
        BY <3>1, <3>2, <3>3, <4>3 DEF Moved
      <4> QED BY <4>2, <4>3
    <3> QED BY <3>1, <3>2, <3>4 DEF Moved, ExitInv, SafeInv, Safe, DataKept
  <2> QED BY <2>1, <2>2
<1> QED BY <1>1, <1>2, <1>3, PTL DEF Spec
==============================================================================
