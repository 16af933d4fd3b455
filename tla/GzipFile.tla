------------------------------- MODULE GzipFile -------------------------------
(***************************************************************************)
(* How gzip 1.2.4a replaces files by their compressed or decompressed form: *)
(* treat_file and what it calls in gzip.c, with the errors that end gzip    *)
(* (error, read_error, write_error of util.c) and the signals that do,      *)
(* which all come down to abort_gzip.                                       *)
(*                                                                          *)
(* Data is told apart by the file it was in at first, and by how much of it *)
(* is there: "pieces" are the buffers read when compressing, and the        *)
(* members of a gzip file when decompressing.  Files are regular and have   *)
(* one link, names are not truncated, and gzip runs without -c, -t, -l, -r  *)
(* and without "-" among its arguments.                                     *)
(***************************************************************************)
EXTENDS Integers, Sequences, FiniteSets

CONSTANTS
  Name, NoName,  \* file names
  CommandLines,  \* what gzip may be called with: pairs of -d and arguments
  Existing,      \* files that are there at first
  Contents,      \* what may be in the files: for each a sequence of [kind, end]
  Suffixed,      \* Suffixed[n]: n with one of the suffixes gzip -d tries
  OutName,       \* OutName[d][n]: the output for n; NoName if gzip -d (d) skips n
  OrigNames,     \* OrigNames[n]: names the header of n may give; NoName for none
  Inbufsiz,      \* size of the input buffer
  force,         \* -f
  foreground,    \* SIGINT is not ignored and stdin is a terminal
  Unreadable,    \* files that may fail to be opened
  ReadFails,     \* files for which a read may fail
  Uncreatable,   \* files that may fail to be created
  NoSpace,       \* files for which a write, or close, may fail
  Undeletable    \* files as found for which unlink may fail

ASSUME NameAssumption ==
  /\ NoName \notin Name /\ Existing \subseteq Name
  /\ CommandLines \subseteq BOOLEAN \X Seq(Name) /\ Inbufsiz \in Nat \ {0}
  /\ Suffixed \in [Name -> SUBSET Name]
  /\ OutName \in [BOOLEAN -> [Name -> Name \cup {NoName}]]
  /\ \A d \in BOOLEAN, n \in Name : OutName[d][n] # n
  /\ OrigNames \in [Name -> SUBSET (Name \cup {NoName})]
  /\ force \in BOOLEAN /\ foreground \in BOOLEAN

\* Whatever follows garbage is garbage too: it is one member, the last.
ASSUME ContentsAssumption ==
  /\ Contents \subseteq
       [Name -> Seq([kind : {"good", "damaged", "refused", "unknown", "garbage"}, end : Nat])]
  /\ \A held \in Contents : \A n \in Name : \A k \in DOMAIN held[n] :
       held[n][k].kind = "garbage" => k = Len(held[n])

VARIABLES
  pc,             \* where treat_file is
  decompress,     \* -d
  args, i,        \* the arguments, and the one treated
  members,        \* what is in the files, chosen at the start
  ifname, ofname, \* the names of the input and the output
  remove_ofname,  \* whether abort_gzip removes the output
  method,         \* -1 if the output is to be given up
  part_nb,        \* members whose header was read
  disk,           \* the files: whose data is in them, and how many pieces
  given,          \* files that were overwritten with permission
  exit_code,      \* 0 OK, 1 ERROR, 2 WARNING
  treated         \* history: for each argument the file found, and whose data it held

vars == <<pc, i, decompress, args, members, ifname, ofname, remove_ofname, method,
          part_nb, disk, given, exit_code, treated>>
setting == <<decompress, args, members>>
aside == <<setting, treated>>

------------------------------------------------------------------------------
NoFile == [of |-> NoName, upto |-> 0]

\* How many pieces of data d has: garbage after the last member is none.
Pieces(d) == Cardinality({k \in DOMAIN members[d] : members[d][k].kind # "garbage"})
Whole(d) == [of |-> d, upto |-> Pieces(d)]

Init ==
  /\ pc = "next" /\ i = 1
  /\ \E call \in CommandLines : decompress = call[1] /\ args = call[2]
  /\ members \in Contents
  /\ ifname = NoName /\ ofname = NoName /\ remove_ofname = FALSE
  /\ method = 0 /\ part_nb = 0
  /\ disk = [n \in Name |-> IF n \in Existing THEN Whole(n) ELSE NoFile]
  /\ given = {} /\ exit_code = 0 /\ treated = <<>>

Remove(n) == disk' = [disk EXCEPT ![n] = NoFile]
Warned == IF exit_code = 0 THEN 2 ELSE exit_code

\* treat_file returns, and main goes on to the next argument.
NextFile(code) ==
  /\ pc' = "next" /\ i' = i + 1
  /\ exit_code' = code

\* abort_gzip and do_exit.
Abort ==
  /\ IF remove_ofname THEN Remove(ofname) ELSE UNCHANGED disk
  /\ pc' = "exited" /\ exit_code' = 1
  /\ UNCHANGED <<i, aside, ifname, ofname, remove_ofname, method, part_nb, given>>

\* The data of the input, and the kind of its member part_nb, or n.
Data == disk[ifname].of
Member(n) == IF n \in DOMAIN members[Data] THEN members[Data][n].kind ELSE "none"

------------------------------------------------------------------------------
\* get_istat: the file of that name, or for -d one with a suffix added.  Then
\* make_ofname begins, by copying ifname to ofname.
TreatFile ==
  /\ pc = "next" /\ i <= Len(args)
  /\ LET arg == args[i]
         found == IF disk[arg] # NoFile THEN {arg}
                  ELSE {n \in Suffixed[arg] : decompress /\ disk[n] # NoFile}
     IN \/ /\ found = {}
           /\ treated' = Append(treated, [file |-> NoName, data |-> NoName])
           /\ NextFile(1) /\ UNCHANGED <<ifname, ofname>>
        \/ \E n \in found : /\ ifname' = n /\ ofname' = n
                            /\ treated' = Append(treated, [file |-> n, data |-> disk[n].of])
                            /\ pc' = "name" /\ UNCHANGED <<i, exit_code>>
  /\ UNCHANGED <<setting, remove_ofname, method, part_nb, disk, given>>

MakeOfname ==
  /\ pc = "name"
  /\ LET out == OutName[decompress][ifname]
     IN IF out = NoName
          THEN NextFile(Warned) /\ UNCHANGED ofname
          ELSE pc' = "open" /\ ofname' = out /\ UNCHANGED <<i, exit_code>>
  /\ UNCHANGED <<aside, ifname, remove_ofname, method, part_nb, disk, given>>

OpenInput ==
  /\ pc = "open"
  /\ \/ ifname \in Unreadable /\ NextFile(1) /\ UNCHANGED <<part_nb, method>>
     \/ /\ part_nb' = 0 /\ method' = 0
        /\ pc' = IF decompress THEN "method" ELSE "create"
        /\ UNCHANGED <<i, exit_code>>
  /\ UNCHANGED <<aside, ifname, ofname, remove_ofname, disk, given>>

\* get_method finds the header of a member; the first may name the output.
GetMethod ==
  /\ pc = "method" /\ Member(part_nb + 1) \in {"good", "damaged", "refused"}
  /\ part_nb' = part_nb + 1
  /\ IF part_nb = 0
       THEN /\ pc' = "create"
            /\ \E n \in OrigNames[ifname] : ofname' = IF n = NoName THEN ofname ELSE n
       ELSE pc' = "work" /\ UNCHANGED ofname
  /\ UNCHANGED <<i, aside, ifname, remove_ofname, method, disk, given, exit_code>>

\* It finds none: -1, or -2 for garbage after a member.
GetNoMethod ==
  /\ pc = "method" /\ Member(part_nb + 1) \in {"unknown", "garbage"}
  /\ IF part_nb = 0
       THEN NextFile(1) /\ UNCHANGED method
       ELSE /\ pc' = "close" /\ UNCHANGED i
            /\ IF Member(part_nb + 1) = "garbage"
                 THEN method' = -2 /\ exit_code' = Warned
                 ELSE method' = -1 /\ exit_code' = 1
  /\ UNCHANGED <<aside, ifname, ofname, remove_ofname, part_nb, disk, given>>

\* check_ofname: the output must not be the input; what is in its way is
\* removed if -f is given or the user says so.
CheckOfname ==
  /\ pc = "create"
  /\ \/ /\ disk[ofname] = NoFile
        /\ pc' = "creating" /\ UNCHANGED <<i, disk, given, exit_code>>
     \/ /\ ofname = ifname
        /\ NextFile(1) /\ UNCHANGED <<disk, given>>
     \/ /\ disk[ofname] # NoFile /\ ofname # ifname /\ ~force
        /\ NextFile(Warned) /\ UNCHANGED <<disk, given>>
     \/ /\ disk[ofname] # NoFile /\ ofname # ifname /\ (force \/ foreground)
        /\ given' = given \cup {disk[ofname].of}
        /\ \/ Remove(ofname) /\ pc' = "creating" /\ UNCHANGED <<i, exit_code>>
           \/ ofname \in Undeletable /\ NextFile(1) /\ UNCHANGED disk
  /\ UNCHANGED <<aside, ifname, ofname, remove_ofname, method, part_nb>>

Create(remove) ==
  /\ pc = "creating"
  /\ remove_ofname' = remove
  /\ \/ ofname \in Uncreatable /\ NextFile(1) /\ UNCHANGED disk
     \/ /\ disk' = [disk EXCEPT ![ofname] = [of |-> Data, upto |-> 0]]
        /\ pc' = "work" /\ UNCHANGED <<i, exit_code>>
  /\ UNCHANGED <<aside, ifname, ofname, method, part_nb, given>>

\* MUTANT: remove_ofname is not set when the output is created.
CreateUnmarked == Create(remove_ofname)

CreateOutfile == Create(TRUE)

------------------------------------------------------------------------------
Grow == disk' = [disk EXCEPT ![ofname].upto = @ + 1]

\* MUTANT: one buffer too many is written.
CompressMore ==
  /\ pc = "work" /\ ~decompress
  /\ \/ /\ disk[ofname].upto <= disk[ifname].upto
        /\ Grow /\ UNCHANGED pc
     \/ disk[ofname].upto > disk[ifname].upto /\ pc' = "close" /\ UNCHANGED disk
  /\ UNCHANGED <<i, aside, ifname, ofname, remove_ofname, method, part_nb, given, exit_code>>

\* zip: deflate reads until read () returns 0, or -1, which it takes for the end.
Compress ==
  /\ pc = "work" /\ ~decompress
  /\ \/ /\ disk[ofname].upto < disk[ifname].upto
        /\ Grow /\ UNCHANGED pc
     \/ /\ disk[ofname].upto = disk[ifname].upto \/ ifname \in ReadFails
        /\ pc' = "close" /\ UNCHANGED disk
  /\ UNCHANGED <<i, aside, ifname, ofname, remove_ofname, method, part_nb, given, exit_code>>

\* inptr == insize: the buffer, filled up by each read, has no byte left.
BufferEmpty ==
  \/ part_nb = Len(members[Data])
  \/ members[Data][part_nb].end % Inbufsiz = 0

\* unzip extracts a member, and treat_file goes on to the next one ...
Extract ==
  /\ pc = "work" /\ decompress /\ Member(part_nb) = "good"
  /\ Grow
  /\ pc' = IF BufferEmpty THEN "close" ELSE "method"
  /\ UNCHANGED <<i, aside, ifname, ofname, remove_ofname, method, part_nb, given, exit_code>>

\* ... or, for a zip file with more entries, returns ERROR.
Refuse ==
  /\ pc = "work" /\ decompress /\ Member(part_nb) = "refused"
  /\ method' = -1 /\ exit_code' = 1 /\ pc' = "close"
  /\ UNCHANGED <<i, aside, ifname, ofname, remove_ofname, part_nb, disk, given>>

\* error, read_error and write_error: the input ends too early or is damaged, it
\* cannot be read, or the output cannot be written.
Fail ==
  /\ \/ pc = "method" /\ (Member(part_nb + 1) = "none" \/ ifname \in ReadFails)
     \/ pc = "work" /\ decompress /\ (Member(part_nb) = "damaged" \/ ifname \in ReadFails)
     \/ pc \in {"work", "close"} /\ ofname \in NoSpace
  /\ Abort

\* MUTANT: treat_file does not look at method once the files are closed.
CloseUnchecked ==
  /\ pc = "close" /\ pc' = "stat"
  /\ UNCHANGED <<i, aside, ifname, ofname, remove_ofname, method, part_nb, disk, given, exit_code>>

Close ==
  /\ pc = "close"
  /\ IF method = -1
       THEN Remove(ofname) /\ NextFile(exit_code)
       ELSE pc' = "stat" /\ UNCHANGED <<i, disk, exit_code>>
  /\ UNCHANGED <<aside, ifname, ofname, remove_ofname, method, part_nb, given>>

Keep(remove) ==
  /\ pc = "stat" /\ pc' = "remove"
  /\ remove_ofname' = remove
  /\ UNCHANGED <<i, aside, ifname, ofname, method, part_nb, disk, given, exit_code>>

\* MUTANT: remove_ofname is left set when the output is complete.
CopyStatMarked == Keep(TRUE)

\* copy_stat, up to "It's now safe to remove the input file" ...
CopyStat == Keep(FALSE)

Unlink(code) ==
  /\ pc = "remove"
  /\ \/ Remove(ifname) /\ NextFile(exit_code)
     \/ ifname \in Undeletable /\ NextFile(code) /\ UNCHANGED disk
  /\ UNCHANGED <<aside, ifname, ofname, remove_ofname, method, part_nb, given>>

\* MUTANT: that the input could not be removed is not told.
RemoveQuietly == Unlink(exit_code)

\* ... and its end.
RemoveInput == Unlink(Warned)

Exit ==
  /\ pc = "next" /\ i > Len(args)
  /\ pc' = "exited"
  /\ UNCHANGED <<i, aside, ifname, ofname, remove_ofname, method, part_nb, disk, given, exit_code>>

\* SIGINT, SIGTERM or SIGHUP.
Signal == pc # "exited" /\ Abort

Finished == pc = "exited" /\ UNCHANGED vars

Next ==
  \/ TreatFile \/ MakeOfname \/ OpenInput \/ GetMethod \/ GetNoMethod
  \/ CheckOfname \/ CreateOutfile \/ Compress \/ Extract \/ Refuse \/ Fail
  \/ Close \/ CopyStat \/ RemoveInput \/ Exit \/ Signal \/ Finished

Spec == Init /\ [][Next]_vars

------------------------------------------------------------------------------
TypeOK ==
  /\ pc \in {"next", "name", "open", "method", "create", "creating", "work",
             "close", "stat", "remove", "exited"}
  /\ i \in 1 .. Len(args) + 1
  /\ ifname \in Name \cup {NoName} /\ ofname \in Name \cup {NoName}
  /\ remove_ofname \in BOOLEAN
  /\ method \in {0, -1, -2} /\ part_nb \in Nat
  /\ \A n \in Name : \/ disk[n] = NoFile
                     \/ disk[n].of \in Name /\ disk[n].upto \in 0 .. Pieces(disk[n].of)
  /\ given \subseteq Name
  /\ exit_code \in 0 .. 2
  /\ treated \in Seq([file : Name \cup {NoName}, data : Name \cup {NoName}])
  /\ Len(treated) \in {i - 1, i}

\* gzip.texi: "each file is replaced by one with the extension .gz" and gzip
\* "prompts to verify whether an existing file should be overwritten": whenever
\* it ends or is killed, all data it was not allowed to overwrite is complete in
\* some file, its own or the one that replaces it.
DataKept == \A d \in Existing \ given : \E n \in Name : disk[n] = Whole(d)

\* "remove output file on error" (remove_ofname): the only file gzip removes when
\* it gives up is the one it is writing from the input at hand.
RemovesOwn ==
  [][pc' = "exited" =>
       \A n \in Name : disk'[n] # disk[n] => n # ifname /\ disk[n].of = Data]_vars

\* However gzip ends, it leaves no file with part of the data behind.
NoPartialLeft ==
  pc = "exited" => \A n \in Name : disk[n] # NoFile => disk[n] = Whole(disk[n].of)

\* The files treat_file looks for: the argument, and for -d it with a suffix.
AskedFor(k) == {args[k]} \cup (IF decompress THEN Suffixed[args[k]] ELSE {})

\* Exit code 0 means that every argument has been replaced: a file asked for was found,
\* what it held then is no longer in it, and is complete in another file or was
\* overwritten with permission.
ExitTells ==
  pc = "exited" /\ exit_code = 0 =>
    /\ Len(treated) = Len(args)
    /\ \A k \in DOMAIN treated :
         LET file == treated[k].file
             data == treated[k].data
         IN /\ file \in AskedFor(k) /\ disk[file].of # data
            /\ data \in given \/ \E n \in Name : disk[n] = Whole(data)

\* copy_stat: "It's now safe to remove the input file", and gzip.texi: "gunzip will
\* extract all members at once": all that is in the input is in the output.
SafeToRemove == pc = "remove" => disk[ofname].upto = disk[ifname].upto
==============================================================================
