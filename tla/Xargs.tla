-------------------------------- MODULE Xargs --------------------------------
(***************************************************************************)
(* xargs of findutils 4.1 (xargs.c), the port that starts and awaits its     *)
(* commands with Downhill: read_line and read_string, the building of        *)
(* command lines (push_arg, do_insert), do_exec, add_proc and wait_for_proc. *)
(*                                                                          *)
(* An argument read is known by its place in the input, with its length,     *)
(* terminating null included, and what follows it.  Quoting is left out, and *)
(* that an unmatched quote ends xargs.  With -i nothing follows the last     *)
(* replacement in an initial argument: do_insert would then go on with       *)
(* what is behind it in memory (it does not count arglen down).              *)
(***************************************************************************)
EXTENDS Downhill, Sequences, SequencesExt, Functions

CONSTANTS
  Uses,       \* what xargs may be called with, as records of
              \*   input: a sequence of [len, ends, eof]: the length, whether a "blank", the
              \*     "line" or the "input" ends with the argument, whether it is the EOF string,
              \*   initial: a sequence of [len, pats], the command and initial arguments:
              \*     the length without the pattern, and how often that occurs (0 in the
              \*     command, where it is not replaced)
              \*   arg_max, args_per_exec, lines_per_exec, proc_max: -s, -n, -l, -P; 0 for
              \*     no limit
              \*   x, r, p, i: -x, -r, -p, -i
  FirstPids,  \* how many entries add_proc allocates at first when -P is 0
  ForkFails   \* CreateProcess may fail

ASSUME UsesAssumption ==
  \A u \in Uses :
    /\ u.input \in Seq([len : Nat, ends : {"blank", "line", "input"}, eof : BOOLEAN])
    /\ u.initial \in Seq([len : Nat, pats : Nat])
    /\ {u.arg_max, u.args_per_exec, u.lines_per_exec, u.proc_max} \subseteq Nat
    /\ {u.x, u.r, u.p, u.i} \subseteq BOOLEAN
    /\ u.i => u.args_per_exec = 0 /\ u.lines_per_exec = 0 /\ u.initial[1].pats = 0
    /\ u.args_per_exec = 0 \/ u.lines_per_exec = 0
    /\ \A k \in DOMAIN u.input :
         /\ u.input[k].ends = "input" => k = Len(u.input)
         /\ u.i => u.input[k].ends # "blank"
ASSUME ForkAssumption == FirstPids \in Nat \ {0} /\ ForkFails \in BOOLEAN

VARIABLES
  use,             \* of Uses
  pc, ret,         \* where xargs is; where do_exec returns
  pos,             \* the argument read next
  first, eof,      \* it is the first of a read_line; the end of the input was seen
  lineno,          \* lines read since the last command
  cmd, cmd_argv_chars,              \* the arguments after the initial ones; the size of all
  pids, procs_executing, procs_executed,
  all,             \* wait_for_proc (all)
  child_error, status,              \* the exit status, so far and in the end
  asked,           \* history: the commands built so far, run or refused
  ended            \* history: the codes that commands have ended with

reading == <<pos, first, eof, lineno>>
command == <<cmd, cmd_argv_chars>>
procs == <<pids, procs_executing, procs_executed>>
outcome == <<child_error, status>>
vars == <<process_vars, use, pc, ret, reading, command, procs, all, outcome, asked, ended>>

\* The sum of a sequence of numbers.
Total(s) ==
  LET upto[n \in 0..Len(s)] == IF n = 0 THEN 0 ELSE upto[n - 1] + s[n] IN upto[Len(s)]
initial_argv_chars ==
  IF use.i THEN 0 ELSE Total([k \in 1..Len(use.initial) |-> use.initial[k].len])
exit_if_size_exceeded == use.x \/ use.i \/ use.lines_per_exec # 0

Init ==
  /\ ProcessInit
  /\ use \in Uses
  /\ pc = "start" /\ ret = "read"
  /\ pos = 1 /\ first = TRUE /\ eof = FALSE /\ lineno = 0
  /\ cmd = <<>> /\ cmd_argv_chars = initial_argv_chars
  /\ pids = <<>> /\ procs_executing = 0 /\ procs_executed = 0
  /\ all = FALSE /\ child_error = 0 /\ status = 0
  /\ asked = <<>> /\ ended = {}

Goto(p) == pc' = p /\ UNCHANGED status
Exit(s) == pc' = "exited" /\ status' = s

\* The initial arguments are pushed.
Start ==
  /\ pc = "start"
  /\ IF initial_argv_chars > use.arg_max THEN Exit(1) ELSE Goto("read")
  /\ UNCHANGED <<process_vars, use, ret, reading, command, procs, all, child_error, ended, asked>>

------------------------------------------------------------------------------
(* Reading                                                                 *)

tok == use.input[pos]
AtEnd == eof \/ pos > Len(use.input)
\* linebuf is full before the argument ends.
TooLong == tok.len > use.arg_max - initial_argv_chars
\* The EOF string; at the end of the input only if it is first on its line.
IsEof == tok.eof /\ (tok.ends # "input" \/ first)

\* read_line or read_string returns -1.
ReadEnd ==
  /\ pc = "read" /\ AtEnd
  /\ Goto(IF use.i THEN "end" ELSE "last")
  /\ UNCHANGED <<process_vars, use, ret, reading, command, procs, all, child_error, ended, asked>>

\* "argument line too long"
ReadTooLong ==
  /\ pc = "read" /\ ~AtEnd /\ TooLong
  /\ Exit(1)
  /\ UNCHANGED <<process_vars, use, ret, reading, command, procs, all, child_error, ended, asked>>

\* What main does when read_args has returned: with -l a command may be complete.
LineRead(n) ==
  LET full == use.lines_per_exec # 0 /\ n >= use.lines_per_exec
  IN lineno' = (IF full THEN 0 ELSE n) /\ Goto(IF full THEN "exec" ELSE "read")
LinesWith == lineno + (IF tok.ends = "line" THEN 1 ELSE 0)

ReadEof ==
  /\ pc = "read" /\ ~AtEnd /\ ~TooLong /\ IsEof
  /\ eof' = TRUE /\ ret' = "read"
  /\ IF first THEN Goto(IF use.i THEN "end" ELSE "last") /\ UNCHANGED lineno
              ELSE LineRead(LinesWith)
  /\ UNCHANGED <<process_vars, use, pos, first, command, procs, all, child_error, ended, asked>>

ReadArg == pc = "read" /\ ~AtEnd /\ ~TooLong /\ ~IsEof

Over == cmd_argv_chars + tok.len > use.arg_max
ArgsFull == use.args_per_exec # 0 /\ Len(cmd) = use.args_per_exec

\* push_arg: "argument list too long"
PushTooLong ==
  /\ ReadArg /\ ~use.i
  /\ Over /\ exit_if_size_exceeded /\ (use.lines_per_exec # 0 \/ use.args_per_exec # 0)
  /\ Exit(1)
  /\ UNCHANGED <<process_vars, use, ret, reading, command, procs, all, child_error, ended, asked>>

\* The command is run before there is room for the argument ...
PushRuns ==
  /\ ReadArg /\ ~use.i
  /\ IF Over THEN ~(exit_if_size_exceeded /\ (use.lines_per_exec # 0 \/ use.args_per_exec # 0))
             ELSE ArgsFull
  /\ Goto("exec") /\ ret' = "read"
  /\ UNCHANGED <<process_vars, use, reading, command, procs, all, child_error, ended, asked>>

\* MUTANT: lineno is not set back after a command.
PushKeepsLines ==
  /\ ReadArg /\ ~use.i /\ ~Over /\ ~ArgsFull
  /\ cmd' = Append(cmd, pos) /\ cmd_argv_chars' = cmd_argv_chars + tok.len
  /\ pos' = pos + 1 /\ first' = (tok.ends # "blank") /\ eof' = (tok.ends = "input")
  /\ lineno' = LinesWith
  /\ IF tok.ends # "blank" /\ use.lines_per_exec # 0 /\ LinesWith >= use.lines_per_exec
       THEN Goto("exec") ELSE Goto("read")
  /\ ret' = "read"
  /\ UNCHANGED <<process_vars, use, procs, all, child_error, ended, asked>>

\* ... and then, or at once, it is added.
Push ==
  /\ ReadArg /\ ~use.i /\ ~Over /\ ~ArgsFull
  /\ cmd' = Append(cmd, pos) /\ cmd_argv_chars' = cmd_argv_chars + tok.len
  /\ pos' = pos + 1 /\ first' = (tok.ends # "blank") /\ eof' = (tok.ends = "input")
  /\ IF tok.ends = "blank" THEN Goto("read") /\ UNCHANGED lineno ELSE LineRead(LinesWith)
  /\ ret' = "read"
  /\ UNCHANGED <<process_vars, use, procs, all, child_error, ended, asked>>

\* -i: a command for each line.
Inserted(a) == a.len + a.pats * (tok.len - 1)
Insert ==
  /\ ReadArg /\ use.i
  /\ LET total == Total([k \in 1..Len(use.initial) |-> Inserted(use.initial[k])])
         fits == /\ total <= use.arg_max
                 /\ \A k \in 2..Len(use.initial) : Inserted(use.initial[k]) < use.arg_max
     IN IF fits THEN Goto("exec") /\ cmd_argv_chars' = total ELSE Exit(1) /\ UNCHANGED cmd_argv_chars
  /\ cmd' = <<pos>> /\ ret' = "read"
  /\ pos' = pos + 1 /\ eof' = (tok.ends = "input") /\ lineno' = LinesWith
  /\ UNCHANGED <<process_vars, use, first, procs, all, child_error, ended, asked>>

\* The last command, or the only one if there is no input.
LastCommand ==
  /\ pc = "last"
  /\ Goto(IF cmd # <<>> \/ (~use.r /\ procs_executed = 0) THEN "exec" ELSE "end")
  /\ ret' = "end"
  /\ UNCHANGED <<process_vars, use, reading, command, procs, all, child_error, ended, asked>>

------------------------------------------------------------------------------
(* do_exec                                                                 *)

Done == cmd' = <<>> /\ cmd_argv_chars' = initial_argv_chars

\* With -p the user is asked, and may refuse.
Ask ==
  /\ pc = "exec"
  /\ asked' = Append(asked, cmd)
  /\ \/ Goto("slot") /\ UNCHANGED command
     \/ use.p /\ Goto(ret) /\ Done
  /\ UNCHANGED <<process_vars, use, ret, reading, procs, all, child_error, ended>>

\* There is no terminal to ask on: print_args opens it for the first command.
AskFails ==
  /\ pc = "exec" /\ use.p /\ asked = <<>>
  /\ Exit(1)
  /\ UNCHANGED <<process_vars, use, ret, reading, command, procs, all, child_error, ended, asked>>

\* wait_for_proc (FALSE), and where it returns.
WaitForOne == Wait /\ Goto("wait") /\ all' = FALSE

\* MUTANT: one process more than -P.
SlotLate ==
  /\ pc = "slot"
  /\ IF use.proc_max # 0 /\ procs_executing > use.proc_max
       THEN WaitForOne
       ELSE Goto("fork") /\ UNCHANGED <<process_vars, all>>
  /\ UNCHANGED <<use, ret, reading, command, procs, child_error, ended, asked>>

Slot ==
  /\ pc = "slot"
  /\ IF use.proc_max # 0 /\ procs_executing >= use.proc_max
       THEN WaitForOne
       ELSE Goto("fork") /\ UNCHANGED <<process_vars, all>>
  /\ UNCHANGED <<use, ret, reading, command, procs, child_error, ended, asked>>

\* add_proc: the first empty entry, in a list that is doubled when there is none.
Added(h) ==
  LET n == Len(pids)
      more == IF n # 0 THEN n ELSE IF use.proc_max # 0 THEN use.proc_max ELSE FirstPids
      list == IF 0 \in Range(pids) THEN pids ELSE pids \o [k \in 1..more |-> 0]
  IN [list EXCEPT ![Min({k \in DOMAIN list : list[k] = 0})] = h]

\* The command is started.  If Downhill's table is full, Forkexec returns 0, and xargs
\* takes itself for the child and becomes the command.
Run(h) ==
  /\ pc = "fork" /\ Forkexec(h)
  /\ IF Free # {}
       THEN /\ pids' = Added(h)
            /\ procs_executing' = procs_executing + 1 /\ procs_executed' = procs_executed + 1
            /\ Goto(ret)
       ELSE Goto("replaced") /\ UNCHANGED procs
  /\ Done
  /\ UNCHANGED <<use, ret, reading, all, child_error, ended, asked>>

\* It cannot be: wait for another one, if there is one, and try again.
RunFails ==
  /\ pc = "fork" /\ ForkFails
  /\ IF procs_executing > 0
       THEN WaitForOne
       ELSE Exit(1) /\ UNCHANGED <<process_vars, all>>
  /\ UNCHANGED <<use, ret, reading, command, procs, child_error, ended, asked>>

------------------------------------------------------------------------------
(* wait_for_proc                                                           *)

\* The end of main: wait for all ...
WaitForAll ==
  /\ pc = "end"
  /\ IF procs_executing > 0
       THEN Wait /\ Goto("wait") /\ all' = TRUE
       ELSE Exit(child_error) /\ UNCHANGED <<process_vars, all>>
  /\ UNCHANGED <<use, ret, reading, command, procs, child_error, ended, asked>>

\* WEXITSTATUS of Downhill: the low byte of the exit code as a signed number.
WEXITSTATUS == IF process_Status > 127 THEN process_Status - 256 ELSE process_Status

\* The status it makes xargs exit with at once; 0 for none.
Verdict == CASE WEXITSTATUS \in {126, 127} -> WEXITSTATUS
             [] WEXITSTATUS = 255 -> 124
             [] OTHER -> 0

\* MUTANT: xargs waits for one process only before it exits.
ReapedOne ==
  /\ pc = "wait" /\ wait_pc = "returned" /\ waited # -1
  /\ wait_pc' = "idle"
  /\ UNCHANGED <<code, pid, process_Index, loop_Index, waited, process_Status>>
  /\ pids' = [pids EXCEPT ![Min({k \in DOMAIN pids : pids[k] = waited})] = 0]
  /\ procs_executing' = procs_executing - 1
  /\ child_error' = IF WEXITSTATUS # 0 /\ Verdict = 0 THEN 123 ELSE child_error
  /\ IF Verdict # 0 THEN Exit(Verdict)
     ELSE IF all THEN Exit(child_error') ELSE Goto("fork")
  /\ UNCHANGED <<use, ret, reading, command, procs_executed, all, asked, ended>>

\* A process was waited for.
Reaped ==
  /\ pc = "wait" /\ wait_pc = "returned" /\ waited # -1
  /\ wait_pc' = "idle"
  /\ UNCHANGED <<code, pid, process_Index, loop_Index, waited, process_Status>>
  /\ pids' = [pids EXCEPT ![Min({k \in DOMAIN pids : pids[k] = waited})] = 0]
  /\ procs_executing' = procs_executing - 1
  /\ child_error' = IF WEXITSTATUS # 0 /\ Verdict = 0 THEN 123 ELSE child_error
  /\ IF Verdict # 0 THEN Exit(Verdict)
     ELSE Goto(IF all THEN "end" ELSE "fork")
  /\ UNCHANGED <<use, ret, reading, command, procs_executed, all, asked, ended>>

XargsStep ==
  \/ Start \/ ReadEnd \/ ReadTooLong \/ ReadEof
  \/ PushTooLong \/ PushRuns \/ Push \/ Insert \/ LastCommand
  \/ Ask \/ AskFails \/ Slot \/ (\E h \in Handle : Run(h)) \/ RunFails
  \/ WaitForAll \/ Reaped
xargs_vars == <<use, pc, ret, reading, command, procs, all, outcome, asked>>
Waiting == (CheckSigchld \/ GetStatusAny) /\ UNCHANGED <<xargs_vars, ended>>
CommandEnds(h) ==
  ProcessExits(h) /\ ended' = ended \cup {code'[h]} /\ UNCHANGED xargs_vars

Stopped == pc \in {"exited", "replaced"}
Finished == Stopped /\ UNCHANGED vars

Next == XargsStep \/ Waiting \/ (\E h \in Handle : CommandEnds(h)) \/ Finished

Spec == Init /\ [][Next]_vars

\* xargs runs, and each command ends.
Fairness == WF_vars(XargsStep \/ Waiting) /\ \A h \in Handle : WF_vars(CommandEnds(h))
FairSpec == Spec /\ Fairness

------------------------------------------------------------------------------
(* Properties                                                              *)

Positive(s) == {s[k] : k \in DOMAIN s} \ {0}
Entries == {pid[x] : x \in Index} \ {-1}

\* The types; and xargs and Downhill agree on the children: procs_executing counts the
\* entries of pids, no more of them run than -P allows, and pids holds just the pids of
\* Downhill's table, and while wait () returns the one it has taken from there.  So wait ()
\* never fails for want of a child ("error waiting for child process"), and never returns
\* a child that xargs did not start, whatever starts, ends, slots are reused and waits
\* alternate.
TypeOK ==
  /\ use \in Uses /\ pos \in 1..(Len(use.input) + 1) /\ lineno \in Nat /\ status \in 0..127
  /\ pid \in [Index -> Handle \cup {-1}] /\ pids \in Seq(Handle \cup {0})
  /\ process_Index \in Index /\ loop_Index \in Index
  /\ procs_executing = Cardinality({k \in DOMAIN pids : pids[k] # 0})
  /\ procs_executing = Cardinality(Positive(pids))
  /\ use.proc_max # 0 => procs_executing <= use.proc_max
  /\ pc # "replaced" =>
       Positive(pids) = Entries \cup (IF wait_pc = "returned" THEN {waited} ELSE {})
  /\ \A x \in Index : pid[x] # -1 => code[pid[x]] # Closed

\* The commands, with the one that is being built, and the arguments in commands cs.
Commands == IF asked # <<>> /\ Last(asked) = cmd THEN asked ELSE Append(asked, cmd)
Passed(cs) == UNION {Range(cs[j]) : j \in DOMAIN cs}
Ascending(cs) ==
  /\ \A j \in DOMAIN cs : \A k, l \in DOMAIN cs[j] : k < l => cs[j][k] < cs[j][l]
  /\ \A i, j \in DOMAIN cs : i < j => \A a \in Range(cs[i]), b \in Range(cs[j]) : a < b
Size(c) == initial_argv_chars + Total([k \in 1..Len(c) |-> use.input[c[k]].len])
LineBegins(k) == k = 1 \/ use.input[k - 1].ends # "blank"
Lines(c) == Cardinality({k \in Range(c) : LineBegins(k)})
\* The next argument cannot be added to command c: by -n, by -l, by -s.
FullArgs(c) == use.args_per_exec # 0 /\ Len(c) = use.args_per_exec
FullLines(c) == /\ use.lines_per_exec # 0 /\ Lines(c) = use.lines_per_exec
                /\ LineBegins(Last(c) + 1)
FullSize(c) == /\ Size(c) + use.input[Last(c) + 1].len > use.arg_max
               /\ ~(use.x /\ use.args_per_exec # 0) /\ use.lines_per_exec = 0

\* What xargs.1 says of the commands: the arguments are passed on in the order of the
\* input, each to one command; no command is beyond -s, -n or -l; one that is followed by
\* another could not have taken the next argument, and with -x or -l it is never the size
\* that ends it; -i makes a command of each argument; a command without arguments is the
\* last, and nothing was run before it, and not with -r.
BatchesRight ==
  /\ Passed(Commands) = 1..(pos - 1) /\ Ascending(Commands)
  /\ \A j \in DOMAIN asked :
       LET c == asked[j]
       IN IF c = <<>> THEN j = Len(asked) /\ ~use.r /\ ~use.i /\ procs_executed <= 1
          ELSE /\ use.i => Len(c) = 1
               /\ ~use.i => Size(c) <= use.arg_max
               /\ use.args_per_exec # 0 => Len(c) <= use.args_per_exec
               /\ use.lines_per_exec # 0 => Lines(c) <= use.lines_per_exec
               /\ ~use.i /\ j < Len(asked) /\ asked[j + 1] # <<>> =>
                    FullArgs(c) \/ FullLines(c) \/ FullSize(c)

StatusRight ==
  pc = "exited" =>
    /\ status \in {0, 1, 123, 126, 127}
    /\ status \in {0, 123} =>
         /\ AtEnd /\ cmd = <<>>
         /\ \A h \in Handle : code[h] = Closed
         /\ status = 123 <=> \E c \in ended : c % 256 # 0
         /\ \A c \in ended : c % 256 \notin {126, 127}
    /\ status \in {126, 127} => \E c \in ended : c % 256 = status
AllPassed == pc = "exited" /\ status \in {0, 123} => Passed(asked) = 1..(pos - 1)

\* What wait_for_proc makes of the codes it is given, those of one byte: 0 if every command
\* gave 0, 123 if one gave something else, 255 included; both only when all the input was
\* passed on and every command was waited for.  126 or 127 only if a command gave that,
\* and never 0 or 123 if one did, in whatever order the commands end.
ExitTells == StatusRight /\ AllPassed

\* xargs.1: "124 if the command exited with status 255", and "1 if some other error
\* occurred".  The comparison with 255 in wait_for_proc never holds, for the signed
\* character that WEXITSTATUS gives is -1 then.
AbortsAt255 == pc = "exited" /\ ended = {255} /\ status # 1 => status = 124

\* xargs ends: wait (), which goes round the table from where it last was, comes to every
\* command that has ended, and no command is waited for forever.
Termination == <>Stopped
==============================================================================
