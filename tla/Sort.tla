-------------------------------- MODULE Sort --------------------------------
(***************************************************************************)
(* sort of textutils 2.0 (sort.c): the temporary files that sort () and      *)
(* merge () write, the list by which cleanup () and the signal handler find   *)
(* them again, the rounds of merge () and the order mergefps () keeps.        *)
(*                                                                          *)
(* A line is its sort key and the place it was read at.  Lines with the same *)
(* key compare equal, as with -s or -u; without these the last comparison is *)
(* by bytes and equal lines cannot be told apart.  Files are POSIX files,    *)
(* that stay readable to who has them open.  Input and output errors and a   *)
(* fatal signal may come at any step; memory does not run out.               *)
(***************************************************************************)
EXTENDS Integers, Sequences, SequencesExt, FiniteSetsExt

CONSTANTS
  NMERGE,   \* how many files are merged at a time
  Jobs,     \* records [keys, missing, mergeonly, unique, outfile]: the keys of the lines
            \* of each input, the inputs that do not exist, -m, -u, and -o
  MaxChunk, \* how many lines sort () can hold
  Faults    \* what may fail, of "open", "create", "read" and "write"

ASSUME NMERGEAssumption == NMERGE \in Nat \ {0, 1} /\ MaxChunk \in Nat \ {0}
ASSUME FaultsAssumption == Faults \subseteq {"open", "create", "read", "write"}

\* outfile: an input, another file that does not exist yet, or standard output.
NewFile == 0
Stdout == -1
ASSUME JobsAssumption ==
  \A j \in Jobs : /\ j.keys \in Seq(Seq(Int))
                  /\ j.outfile \in DOMAIN j.keys \cup {NewFile, Stdout}

VARIABLES
  job,            \* of Jobs
  disk, text,     \* the files that exist, and what is or was in them
  temphead, seq,  \* the list of temporary files, newest first; the next name
  files,          \* the array of names sort () or merge () works on
  pc,             \* where sort is
  i, t,           \* the index, or group, that is worked on; how many names merge () has
                  \* stored back
  left,           \* sort (): the lines of the open file that are not read yet
  n_temp_files,
  buf,            \* the sorted chunk, in sort ()
  fps, ord,       \* mergefps (): the rests of the open files, and their order
  saved,          \* its saved line, <<>> when there is none
  temp,           \* the file that is written; Output for ofp
  zap,            \* the merged files that merge () has still to zap
  out             \* the output

files_vars == <<disk, text, temphead, seq>>
merge_vars == <<fps, ord, saved, zap, t>>
vars == <<job, files_vars, files, pc, i, left, n_temp_files, buf, merge_vars, temp, out>>

Output == 0
N == Len(job.keys)
Before(a, b) == a.key < b.key
\* The order of a stable sort: equal lines are in the order they are read.
InOrder(a, b) ==
  \/ Before(a, b)
  \/ a.key = b.key /\ (a.at[1] < b.at[1] \/ (a.at[1] = b.at[1] /\ a.at[2] < b.at[2]))
\* The members of S in an order that sets them apart.
Arranged(S, Precedes(_, _)) ==
  CHOOSE s \in [1..Cardinality(S) -> S] :
    /\ \A x \in S : \E k \in DOMAIN s : s[k] = x
    /\ \A j, k \in DOMAIN s : j < k => Precedes(s[j], s[k])
\* The lines of input f.
Lines(f) == [p \in DOMAIN job.keys[f] |-> [key |-> job.keys[f][p], at |-> <<f, p>>]]

Init ==
  /\ job \in Jobs
  /\ disk = DOMAIN job.keys \ job.missing
  /\ text = [f \in DOMAIN job.keys |-> Lines(f)]
  /\ temphead = <<>> /\ seq = Len(job.keys) + 1
  /\ files = [f \in DOMAIN job.keys |-> f]
  /\ pc = "main" /\ i = 1 /\ t = 0
  /\ left = <<>> /\ n_temp_files = 0 /\ buf = <<>>
  /\ fps = <<>> /\ ord = <<>> /\ saved = <<>> /\ zap = <<>>
  /\ temp = Output /\ out = <<>>

Over == pc \in {"success", "failure", "killed"}

\* cleanup: everything on the list is unlinked.
cleanup == disk' = disk \ Range(temphead)

\* exit (SORT_FAILURE), which follows a cleanup ().
Fail ==
  /\ cleanup /\ pc' = "failure"
  /\ UNCHANGED <<job, text, temphead, seq, files, i, left, n_temp_files, buf, merge_vars,
                 temp, out>>

------------------------------------------------------------------------------
(* Temporary files                                                         *)

\* tempname: the name is on the list before there is a file.
tempname ==
  /\ temphead' = <<seq>> \o temphead
  /\ temp' = seq /\ seq' = seq + 1

\* xtmpfopen and what is written to the new file at once.
Create(lines) ==
  /\ disk' = disk \cup {temp}
  /\ text' = [f \in DOMAIN text \cup {temp} |-> IF f = temp THEN lines ELSE text[f]]

------------------------------------------------------------------------------
(* main                                                                    *)

OutExists == job.outfile = Stdout \/ job.outfile \in disk

\* Is input f one that has to be copied, for it is the output file?
Copied(f) == job.outfile = files[f] /\ files[f] \in disk

\* The next input that is the output file is given a copy ...
CopyName ==
  /\ pc = "main" /\ OutExists
  /\ \E f \in DOMAIN files :
       /\ Copied(f) /\ \A g \in 1..(f - 1) : ~Copied(g) /\ files[g] \in disk
       /\ i' = f
  /\ tempname
  /\ pc' = "copy"
  /\ UNCHANGED <<job, disk, text, files, t, left, n_temp_files, buf, fps, ord, saved, zap, out>>

CopyFile ==
  /\ pc = "copy"
  /\ Create(text[files[i]])
  /\ files' = [files EXCEPT ![i] = temp]
  /\ pc' = "main"
  /\ UNCHANGED <<job, temphead, seq, i, left, n_temp_files, buf, merge_vars, temp, out>>

\* ... unless an input is missing, which is noticed if sort has a reason to look.
InputMissing ==
  /\ pc = "main" /\ job.outfile # Stdout
  /\ \E f \in DOMAIN files : /\ files[f] \notin disk
                             /\ OutExists => \A g \in 1..(f - 1) : ~Copied(g)
  /\ Fail

\* The output file is opened, and emptied; sort () or merge () is called.
OpenOutput ==
  /\ pc = "main"
  /\ job.outfile # Stdout =>
       \A f \in DOMAIN files : files[f] \in disk /\ ~Copied(f)
  /\ text' = IF job.outfile \in DOMAIN text THEN [text EXCEPT ![job.outfile] = <<>>] ELSE text
  /\ disk' = disk \cup ({job.outfile} \ {Stdout})
  /\ pc' = (IF job.mergeonly THEN "merge" ELSE "sort") /\ i' = 1
  /\ UNCHANGED <<job, temphead, seq, files, left, n_temp_files, buf, merge_vars, temp, out>>

------------------------------------------------------------------------------
(* sort ()                                                                 *)

\* sortlines keeps equal lines in their order; with -u a line equal to the one
\* before it is not written.
SortedChunk(lines) ==
  LET written == {k \in DOMAIN lines :
                    job.unique => \A m \in 1..(k - 1) : lines[m].key # lines[k].key}
  IN Arranged({lines[k] : k \in written}, InOrder)

SortOpen ==
  /\ pc = "sort" /\ i <= N
  /\ files[i] \in disk
  /\ left' = text[files[i]]
  /\ pc' = "read"
  /\ UNCHANGED <<job, files_vars, files, i, n_temp_files, buf, merge_vars, temp, out>>

\* fillbuf, findlines and sortlines: a chunk is read and sorted.  It goes to the
\* output if it is the first, the end of the last file was seen with it, and no
\* line is left over; else to a temporary file.
Read ==
  /\ pc = "read" /\ left # <<>>
  /\ \E n \in 1..Min({MaxChunk, Len(left)}), eof \in BOOLEAN :
       /\ buf' = SortedChunk(SubSeq(left, 1, n))
       /\ left' = SubSeq(left, n + 1, Len(left))
       /\ pc' = IF eof /\ left' = <<>> /\ i = N /\ n_temp_files = 0 THEN "direct" ELSE "chunk"
  /\ UNCHANGED <<job, files_vars, files, i, n_temp_files, merge_vars, temp, out>>

ReadEnd ==
  /\ pc = "read" /\ left = <<>>
  /\ i' = i + 1 /\ pc' = "sort"
  /\ UNCHANGED <<job, files_vars, files, left, n_temp_files, buf, merge_vars, temp, out>>

Direct ==
  /\ pc = "direct"
  /\ out' = buf
  /\ pc' = "read"
  /\ UNCHANGED <<job, files_vars, files, i, left, n_temp_files, buf, merge_vars, temp>>

\* MUTANT: the name is put on the list after the file is created and written.
ChunkNameLate ==
  /\ pc = "chunk"
  /\ temp' = seq /\ seq' = seq + 1 /\ n_temp_files' = n_temp_files + 1
  /\ disk' = disk \cup {seq}
  /\ pc' = "chunk_write"
  /\ UNCHANGED <<job, text, temphead, files, i, left, buf, merge_vars, out>>

ChunkName ==
  /\ pc = "chunk"
  /\ tempname /\ n_temp_files' = n_temp_files + 1
  /\ pc' = "chunk_write"
  /\ UNCHANGED <<job, disk, text, files, i, left, buf, merge_vars, out>>

ChunkWrite ==
  /\ pc = "chunk_write"
  /\ Create(buf)
  /\ pc' = "read"
  /\ UNCHANGED <<job, temphead, seq, files, i, left, n_temp_files, buf, merge_vars, temp, out>>

\* All is read: the files written here, oldest first, are merged if there are any.
SortMerge ==
  /\ pc = "sort" /\ i > N
  /\ IF n_temp_files = 0
       THEN pc' = "end" /\ UNCHANGED <<files, i, temp>>
       ELSE /\ files' = Reverse(SubSeq(temphead, 1, n_temp_files))
            /\ pc' = "merge" /\ i' = 1 /\ temp' = Output
  /\ UNCHANGED <<job, files_vars, left, n_temp_files, buf, merge_vars, out>>

------------------------------------------------------------------------------
(* merge () and mergefps ()                                                *)

\* The names of group g of the round; the last one is the remainder.
Group(g) == SubSeq(files, (g - 1) * NMERGE + 1, Min({g * NMERGE, Len(files)}))

\* The order in which mergefps takes the heads of fs.
HeadBefore(fs, a, b) == Before(fs[a][1], fs[b][1]) \/ (fs[a][1].key = fs[b][1].key /\ a < b)

\* The files of group g are opened; empty ones are forgotten.
OpenGroup(g) ==
  LET ks == Arranged({k \in DOMAIN Group(g) : text[Group(g)[k]] # <<>>}, <)
      fs == [k \in DOMAIN ks |-> text[Group(g)[ks[k]]]]
  IN /\ Range(Group(g)) \subseteq disk
     /\ fps' = fs
     /\ ord' = Arranged(DOMAIN fs, LAMBDA a, b : HeadBefore(fs, a, b))
     /\ zap' = Group(g) /\ saved' = <<>>

\* A group of a round; it gets a temporary file.
RoundName ==
  /\ pc = "merge" /\ Len(files) > NMERGE
  /\ OpenGroup(i)
  /\ tempname
  /\ pc' = "round"
  /\ UNCHANGED <<job, disk, text, files, i, t, left, n_temp_files, buf, out>>

RoundCreate ==
  /\ pc = "round"
  /\ Create(<<>>)
  /\ pc' = "mergefps"
  /\ UNCHANGED <<job, temphead, seq, files, i, left, n_temp_files, buf, merge_vars, temp, out>>

\* The last merge, to ofp.
LastMerge ==
  /\ pc = "merge" /\ Len(files) <= NMERGE
  /\ OpenGroup(1)
  /\ temp' = Output
  /\ pc' = "mergefps"
  /\ UNCHANGED <<job, files_vars, files, i, t, left, n_temp_files, buf, out>>

Write(lines) ==
  IF temp = Output
    THEN out' = out \o lines /\ UNCHANGED text
    ELSE text' = [text EXCEPT ![temp] = @ \o lines] /\ UNCHANGED out

\* Without -u, the line that is first in the order is written; with -u it takes the
\* place of the saved one, which is written if it differs.
WriteFirst(line) ==
  IF ~job.unique THEN Write(<<line>>) /\ UNCHANGED saved
  ELSE /\ Write(IF saved # <<>> /\ saved[1].key # line.key THEN saved ELSE <<>>)
       /\ saved' = IF saved = <<>> \/ saved[1].key # line.key THEN <<line>> ELSE saved

\* File f, whose head is new, takes its place in ord, and those before it move up.
Moved(f, place) ==
  [k \in DOMAIN ord |-> IF k + 1 < place THEN ord[k + 1] ELSE IF k + 1 = place THEN f ELSE ord[k]]
Pushed(fs, f) ==
  Moved(f, Min({k \in 2..Len(ord) : HeadBefore(fs, f, ord[k])} \cup {Len(ord) + 1}))

\* File f is at its end, and those behind it move up.
Dropped(f) ==
  /\ fps' = [k \in 1..(Len(fps) - 1) |-> IF k < f THEN fps[k] ELSE fps[k + 1]]
  /\ ord' = [k \in 1..(Len(ord) - 1) |-> IF ord[k + 1] > f THEN ord[k + 1] - 1 ELSE ord[k + 1]]

\* MUTANT: of equal lines the one of the file in hand is taken first.
MergeLineHere ==
  /\ pc = "mergefps" /\ fps # <<>>
  /\ LET f == ord[1]
         rest == [fps EXCEPT ![f] = Tail(@)]
     IN /\ WriteFirst(fps[f][1])
        /\ IF rest[f] # <<>>
             THEN /\ fps' = rest
                  /\ ord' = Moved(f, Min({k \in 2..Len(ord) : rest[f][1].key <= rest[ord[k]][1].key}
                                            \cup {Len(ord) + 1}))
             ELSE Dropped(f)
  /\ UNCHANGED <<job, disk, temphead, seq, files, pc, i, t, left, n_temp_files, buf, temp, zap>>

MergeLine ==
  /\ pc = "mergefps" /\ fps # <<>>
  /\ LET f == ord[1]
         rest == [fps EXCEPT ![f] = Tail(@)]
     IN /\ WriteFirst(fps[f][1])
        /\ IF rest[f] # <<>> THEN fps' = rest /\ ord' = Pushed(rest, f) ELSE Dropped(f)
  /\ UNCHANGED <<job, disk, temphead, seq, files, pc, i, t, left, n_temp_files, buf, temp, zap>>

MergeEnd ==
  /\ pc = "mergefps" /\ fps = <<>>
  /\ Write(saved)
  /\ saved' = <<>> /\ pc' = "zap"
  /\ UNCHANGED <<job, disk, temphead, seq, files, i, t, left, n_temp_files, buf, fps, ord,
                 temp, zap>>

\* MUTANT: the search for a name that is not on the list does not end.
ZapTempSearches ==
  /\ pc = "zap" /\ zap # <<>> /\ zap[1] \in Range(temphead)
  /\ disk' = disk \ {zap[1]} /\ pc' = "zapped"
  /\ UNCHANGED <<job, text, temphead, seq, files, i, t, left, n_temp_files, buf, fps, ord,
                 saved, zap, temp, out>>

\* zaptemp: only files on the list are removed.  The name is freed before the node is
\* off the list; a handler that comes between reads a name that is none.
ZapTemp ==
  /\ pc = "zap" /\ zap # <<>>
  /\ IF zap[1] \in Range(temphead)
       THEN /\ disk' = disk \ {zap[1]} /\ pc' = "zapped" /\ UNCHANGED zap
       ELSE zap' = Tail(zap) /\ UNCHANGED <<disk, pc>>
  /\ UNCHANGED <<job, text, temphead, seq, files, i, t, left, n_temp_files, buf, fps, ord,
                 saved, temp, out>>

ZapNode ==
  /\ pc = "zapped"
  /\ \E k \in DOMAIN temphead :
       /\ temphead[k] = zap[1] /\ \A n \in 1..(k - 1) : temphead[n] # zap[1]
       /\ temphead' = RemoveAt(temphead, k)
  /\ zap' = Tail(zap) /\ pc' = "zap"
  /\ UNCHANGED <<job, disk, text, seq, files, i, t, left, n_temp_files, buf, fps, ord,
                 saved, temp, out>>

\* MUTANT: the count of the files stored back is not reset for the next round.
GroupEndCounts ==
  /\ pc = "zap" /\ zap = <<>> /\ temp # Output
  /\ LET stored == [k \in DOMAIN files |-> IF k = t + 1 THEN temp ELSE files[k]]
     IN /\ t' = t + 1
        /\ IF i <= Len(files) \div NMERGE
             THEN files' = stored /\ i' = i + 1
             ELSE files' = SubSeq(stored, 1, Min({t + 1, Len(files)})) /\ i' = 1
  /\ pc' = "merge"
  /\ UNCHANGED <<job, files_vars, left, n_temp_files, buf, fps, ord, saved, zap, temp, out>>

\* The group is merged: its file is stored back, and the next group, the remainder
\* also if it is empty, or the next round begins.
GroupEnd ==
  /\ pc = "zap" /\ zap = <<>> /\ temp # Output
  /\ LET stored == [files EXCEPT ![t + 1] = temp]
     IN IF i <= Len(files) \div NMERGE
          THEN files' = stored /\ t' = t + 1 /\ i' = i + 1
          ELSE files' = SubSeq(stored, 1, t + 1) /\ t' = 0 /\ i' = 1
  /\ pc' = "merge"
  /\ UNCHANGED <<job, files_vars, left, n_temp_files, buf, fps, ord, saved, zap, temp, out>>

------------------------------------------------------------------------------
LastEnd ==
  /\ pc = "zap" /\ zap = <<>> /\ temp = Output
  /\ pc' = "end"
  /\ UNCHANGED <<job, files_vars, files, i, left, n_temp_files, buf, merge_vars, temp, out>>

Exit ==
  /\ pc = "end"
  /\ cleanup /\ pc' = "success"
  /\ UNCHANGED <<job, text, temphead, seq, files, i, left, n_temp_files, buf, merge_vars,
                 temp, out>>

\* A file that is missing is opened; or something fails.
OpenFails ==
  \/ pc = "sort" /\ i <= N /\ files[i] \notin disk /\ Fail
  \/ pc = "merge" /\ ~(Range(Group(i)) \subseteq disk) /\ Fail
Error ==
  \/ "open" \in Faults /\ pc \in {"copy", "sort", "merge"} /\ Fail
  \/ "create" \in Faults /\ pc \in {"copy", "chunk_write", "round"} /\ Fail
  \/ "read" \in Faults /\ pc \in {"copy", "read", "mergefps"} /\ Fail
  \/ "write" \in Faults /\ pc \in {"copy", "chunk_write", "direct", "mergefps", "end"} /\ Fail

\* sighandler.
Signal ==
  /\ cleanup /\ pc' = "killed"
  /\ UNCHANGED <<job, text, temphead, seq, files, i, left, n_temp_files, buf, merge_vars,
                 temp, out>>

SortStep ==
  \/ CopyName \/ CopyFile \/ InputMissing \/ OpenOutput
  \/ SortOpen \/ Read \/ ReadEnd \/ Direct \/ ChunkName \/ ChunkWrite \/ SortMerge
  \/ RoundName \/ RoundCreate \/ LastMerge \/ MergeLine \/ MergeEnd
  \/ ZapTemp \/ ZapNode \/ GroupEnd \/ LastEnd \/ Exit \/ OpenFails

Finished == Over /\ UNCHANGED vars

Next == (~Over /\ (SortStep \/ Error \/ Signal)) \/ Finished

Spec == Init /\ [][Next]_vars
FairSpec == Spec /\ WF_vars(SortStep)

------------------------------------------------------------------------------
TypeOK ==
  /\ disk \subseteq {NewFile} \cup DOMAIN job.keys \cup ((N + 1)..(seq - 1))
  /\ Range(temphead) \subseteq (N + 1)..(seq - 1) /\ IsInjective(temphead)
  /\ pc \in {"main", "copy", "sort", "read", "direct", "chunk", "chunk_write", "merge", "round",
             "mergefps", "zap", "zapped", "end", "success", "failure", "killed"}
  /\ i \in 1..(Len(files) + 1) /\ t \in 0..Len(files)
  /\ n_temp_files <= Len(temphead) \/ pc \notin {"sort", "read", "chunk", "chunk_write"}
  /\ pc = "mergefps" => Len(fps) <= NMERGE /\ Range(ord) = DOMAIN fps /\ Len(ord) = Len(fps)

(* Every way to end, by success, by an error or by a signal, leaves no         *)
(* temporary file: its name is on the list from before it is created until it  *)
(* is unlinked, and every exit cleans up (sort.c:316, 410, 450).               *)
NoTempLeft == Over => disk \cap (N + 1)..(seq - 1) = {}

AllLines == UNION {Range(Lines(f)) : f \in DOMAIN job.keys}
Wanted ==
  {l \in AllLines : job.unique => \A m \in AllLines : m.key = l.key => m = l \/ InOrder(l, m)}

\* What -m expects.
InputsSorted ==
  \A f \in DOMAIN job.keys :
    \A p, q \in DOMAIN job.keys[f] : p < q => job.keys[f][p] <= job.keys[f][q]

(* When sort succeeds its output is that of a stable sort of all inputs, and   *)
(* with -u the first of each run of equal lines: no line is lost, doubled or   *)
(* misplaced in the chunks, in the rounds and remainders of merge () (NMERGE,  *)
(* sort.c:1700), or because an input is the output file (sort.c:2283).         *)
OutputIsSorted ==
  pc = "success" /\ (job.mergeonly => InputsSorted) =>
    /\ Len(out) = Cardinality(Wanted) /\ Range(out) = Wanted
    /\ \A k \in 2..Len(out) : InOrder(out[k - 1], out[k])

(* sort ends, whatever the number of temporary files: each round of merge ()   *)
(* leaves fewer files, though it may add an empty one (sort.c:1710).           *)
Termination == <>Over
==============================================================================
