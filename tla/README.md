# A TLA+ verification project for unxutils

unxutils is a collection of GNU and BSD command line programs ported to Windows:
about eighty packages under `src/`, each with its own build, most of them
sequential filters.  The programs do not talk to each other except through files
and pipes.  This project models the parts where the difficulty is not in the text
that is processed but in the order in which things happen: several processes or
jobs, signals, shared resources, failures half way.

The modules are written from the source; where the documentation disagrees with
the code, the module follows the code, and a run shows the disagreement.

## 1. Inventory

| component | state it keeps | operations | what is hard |
|---|---|---|---|
| **make: jobs and jobserver** `make-3.78.1/job.c` | chain `children` with `job_slots_used`, `waiting_jobs`, per child its line, pid and slot; jobserver pipe `job_fds`, its dup `job_rfd`, `dead_children` | `new_job`, `start_waiting_job(s)`, `start_job_command`, `reap_children`, `free_child`, `child_handler` | makes and commands in parallel, one pipe shared by a tree of makes, SIGCHLD against a blocking `read`, forks and commands that fail, `reap_children` called from everywhere |
| **make: what to remake** `make-3.78.1/remake.c` | per file `considered`, `updated`, `update_status`, `command_state`, cached time; the goal chain | `update_goal_chain`, `update_file`, `update_file_1`, `check_dep`, `remake_file`, `notice_finished_file` | a recursive walk, interrupted for jobs that finish in an order of their own and change what the frames above have looked at; several passes |
| **make: start-up and exit** `make-3.78.1/main.c` | `job_slots`, `jobserver_fds`, `keep_going_flag`, `dying` | `main`, `die` | `die` waits for children and is called again from within the wait |
| **make: commands, fatal signals** `commands.c` | `handling_fatal_signal`, the block of signals | `execute_file_commands`, `delete_child_targets`, `fatal_error_signal` | the signal handler runs `reap_children` at any point of the program, `reap_children` included |
| **make: Windows process table** `w32/subproc/sub_proc.c` | `proc_array`, `proc_index`, `fake_exits_pending`; `shell_function_pid` | `process_easy`, `process_register`, `process_wait_for_any`, `process_cleanup`, `func_shell` | launches that fail are "reaped" by a counter; a freed address is a pid that may come again |
| make: reading makefiles, variables, functions, implicit rules | variable and file tables | parsing and expansion | large, but sequential |
| **gzip: replacing files** `gzip-1.2.4a/gzip.c` | `ifname`, `ofname`, `ifd`, `ofd`, `remove_ofname`, exit code | `treat_file`, `make_ofname`, `create_outfile`, `copy_stat`, `abort_gzip` | a signal or crash between any two steps must not lose the data |
| gzip, bzip2, compress: codecs | windows, bit buffers, code tables | deflate, inflate, block sorting, LZW | arithmetic over long streams |
| **less: buffer cache** `less-340/ch.c`, `os.c` | chain of blocks with `datasize`, read pointer, descriptor and `ch_fpos` | `fch_get`, `ch_seek`, `ch_addbuf`, `ch_length`, `ch_init`, `ch_close`, `iread` | partially read blocks, reuse of the least recently used block, interrupted reads, pipes, files that grow |
| less: screen, search, commands | positions, marks | terminal output | interactive, sequential |
| **sort: temporary files** `textutils-2.0/src/sort.c` | list `temphead`, rounds of `merge` | `tempname`, `zaptemp`, `merge`, `sighandler` | a signal while the list changes; the last, partial round |
| other text utilities | – | filters | sequential |
| **xargs** `findutils-4.1/xargs/xargs.c` | argument batch, `pids`, `procs_executing` | `read_line`, `push_arg`, `do_exec`, `wait_for_proc` | limits on length, lines, arguments and processes together |
| find | directory stack | predicates | sequential |
| **zsh on NT** `zsh/Src/ntport/signal.c`, `signals.c`, `jobs.c` | `gBlockMask`, `gPending`, the list of ended children, `hsigsusp`; signal queue; job table | `sigsuspend`, `waitpid`, callbacks of a thread per child, `handler`, `waitjob`, `getoutput` | threads suspend the shell at any point and run its signal handler |
| zsh: fork on NT `zsh/Src/ntport/fork.c` | the forked image, two events | `fork` | two processes copy memory while they synchronise by events |
| zsh proper | options, parser, line editor | the shell language | too large to model faithfully |
| **Downhill** `Downhill/SRC` | process table with its index, signal handlers, sockets | POSIX calls on Windows | the table that `wait` goes round |
| tar, fileutils, sh-utils, diffutils, patch, gawk, sed, m4, bc, grep, bison, flex, groff, … | – | – | formats, interpreters and system calls, one thing at a time |

Components in bold have modules; what of them is left out is in section 5 and in
`PROJECT.json`.

How they interact.  Inside make, `update_goal_chain` starts waiting jobs, waits
for one child and walks the goals; the walk calls `new_job` at the bottom of its
recursion; `new_job` waits for a slot and, while it waits, reaps children of other
targets through `notice_finished_file`; a failed child ends in `die` from any of
these places, and `fatal_error_signal`, a signal handler, calls it too.  Make
processes of one tree interact through the jobserver pipe, and a parent sees its
submake as one of its children.  On Windows `reap_children` rests on the process
table of `sub_proc.c`, which `$(shell)` shares.  xargs rests on Downhill's `fork` and
`wait`.  In zsh the wait for a job, the command substitutions and the job table meet
in the handler of SIGCHLD, which the threads of `ntport/signal.c` run.  The other
programs are on their own.

What makes each component correct:

* jobs: never more commands at once than `-j`, over the whole tree; every byte of
  the pipe comes back; no make sleeps in `read` although it has a dead child; every
  make ends, after its children; a deferred job is started in the end.
* what to remake: commands run only after all prerequisites are made and only for
  targets that are out of date, once; success means that nothing is stale; a failure
  is always reported; `-k` tries all that can still be made; the walk ends.
* fatal signals: every target half made is deleted, none that is complete; no command
  runs on; make ends.
* process table: every launch is told of exactly once, to the right child.
* gzip: one complete copy of the data exists at all times, no foreign file is
  removed, and 0 is said only if all was done.
* sort: the output is sorted and stable; no temporary file survives, none is removed
  while needed.
* less: the byte at a position is the byte of the file at that position.
* xargs: each argument is in one command, in order, within every limit; the status
  tells of the commands.
* zsh on NT: a pipeline is waited for until all of it has ended, `$?` is its status, and
  no wakeup is lost.

`PROJECT.json` lists the hazards one by one with their lines.

## 2. Modules

| module | models | state and actions |
|---|---|---|
| `Jobserver` | a tree of make processes with their jobs | below |
| `MCJobserver` | two makes, five jobs, two uses for TLC | – |
| `JobserverProofs` | theorems about `Jobserver` | – |
| `BuildOrder` | abstract: what make promises about the order of work | a status and a time per file; start, end, nothing to do, give up |
| `Remake` | the walk of one make over its dependency graph, with its children | below |
| `MCRemake` | a graph of nine files with a diamond and two files made together | – |
| `RemakeProofs` | theorems about `Remake`, and that it implements `BuildOrder` | – |
| `Signals` | one make with its chain of jobs, and a fatal signal at every point | below |
| `MCSignals` | three jobs, two slots, three signals | – |
| `SignalsProofs` | theorems about `Signals` | – |
| `ChildWait` | abstract: a system that runs commands and tells of their ends | commands, running or told |
| `SubProc` | make on Windows with the process table and `$(shell)` | below |
| `MCSubProc` | two slots, three jobs | – |
| `SubProcProofs` | a theorem about `SubProc`, and that it implements `ChildWait` | – |
| `GzipFile` | gzip and gunzip replacing a list of files | below |
| `MCGzipFile` | two files with their compressed forms, one more, and command lines | – |
| `GzipFileProofs` | theorems about `GzipFile` | – |
| `LessBuffers` | the buffer chain of less over one file that may grow | below |
| `LessBuffersProofs` | theorems about `LessBuffers` | – |
| `MCLessBuffers` | one or two buffers, or no limit | – |
| `Sort` | sort and merge with temporary files | below |
| `SortProofs` | theorems about `Sort` | – |
| `MCSort` | inputs of up to seven files | – |
| `Downhill` | the process table of the POSIX layer | start, end, the steps of `wait` |
| `Xargs` | xargs on top of `Downhill` | below |
| `MCXargs` | 43 ways to call xargs | – |
| `XargsProofs` | theorems about `Xargs` and, through it, `Downhill` | – |
| `ZshJobs` | zsh on NT: signals, threads, job table | below |
| `MCZshJobs` | four scripts | – |

### Jobserver

`pc[m]` says where make `m` is: in the goal chain (`walk`), in
`start_waiting_jobs` (`swj`, `swjpop`, `swjdone`), in `new_job` waiting for its slot
(`slots`), about to start (`start`), at the end of `new_job` with its loop for
`job_slots == 1` (`started`),
in `reap_children` (`reap`, with its arguments and its return in `call[m]`), in
`die`, in the `exit` of a nested `die`, or gone.  `state[j]` tells which list the
`struct child` of `j` is on: `child` is the chain `children`, `waiting` is
`waiting_jobs`.  `line` and `proc` are its line and the process of the line.

The bytes in the pipe all look alike.  The model gives every right to run a
command an identity, a *slot*, which is in the pipe, with a make that has no use
for it (`free`), or with a job (`slot`).  That makes "written twice" and "never
written back" statements about places: the top make starts with one slot and writes
the others (`main`); `new_job` takes the free slot when there is no child and a byte
otherwise; `free_child` writes a byte if children remain and keeps the slot if not;
a submake starts with the slot of the job that runs it, and gives it back when it
exits.  A byte written with no slot behind it would get an identity outside `Slot`.

One action is one stretch of code between two points at which another process can
matter: `read`, `wait`, the call and the return of `reap_children`.  `ReadToken` is
a successful `read`; `ReadFails` is `EINTR` or `EBADF`, after which `job_rfd` is
opened again before the reap; `ChildHandler` is the SIGCHLD handler, which can come
between any two steps; `StartWaitingJob` has the three outcomes of
`start_waiting_job`; `ReapNextLine`, `ReapFinished` and `ReapFailed` are one round of
`reap_children`, with `notice_finished_file`, `free_child` and the call of `die`.
A make without the jobserver (its parent closed the pipe because the line was not
marked with `+`) has `server = FALSE` and runs with `job_slots = 1`.

Which target is next is left open: `NewJob` takes any target not yet started, and
`EndPass` ends a pass when targets are in progress.  That a job failed does not stop the
walk by itself: it stops where `update_file` comes to that job, which `Started` is for the
job just started, and where `reap_children` calls `die`.

What make is used for is the variable `use`, chosen at the start and never changed: the jobs
there are, `-k`, `-l`, the lines marked with `+`, and what may fail.  `KeepGoing`,
`LoadLimit` and the others are its fields, so that one run covers several uses and the
theorems are about all of them.

### Remake

The recursion `update_file` – `update_file_1` – `check_dep` is `stack`, one frame
per activation of `update_file_1`, with the loop position, `dep_status`, `running`
and `must_make`; `ret` carries the value returned.  `UpdateFile` is `update_file` up
to the loop of `update_file_1`, with the pruning; `DepReturn` is what `check_dep` and
the loop do with the outcome; `DepsRunning`, `DepFailed`, `NoNeed`, `NoRule`,
`Execute` are the ways out of `update_file_1`.  `Goal` and `GoalReturn` are the walk
over the goals, and `Pass` the outer loop.  Times are `0` for a file that is missing,
`New` for what this run makes, and less than `New` for what was there before.
`set_command_state` and `Notice` reach the files of `also_make` too; `updated` is a
variable beside `state`, for only one of the two is then set for a file that was settled
on its own, and `pc = "aborted"` is the assertion of `update_file` failing on that.

`BuildOrder` is the promise: commands for a target start only when every
prerequisite is done and the target is out of date, and once; files that one run of
commands makes (`also_make`, from a pattern rule with several targets) are remade
together.  `Remake` maps its
`state` and `ustat` to the abstract `status` (`Order == INSTANCE BuildOrder WITH …`)
and `BuildInOrder` says that every behaviour of the walk is one of `BuildOrder`.

### GzipFile

`pc` follows one file through `treat_file`; `next` is the loop over the arguments in
`main`.  The globals that outlive a file and so connect one file with the next are
variables: `ifname`, `ofname`, `remove_ofname`, `method`, `part_nb`, `exit_code`.
`disk` maps names to what is in the file: whose data, and how many pieces of it, where
a piece is one buffer when compressing and one member when decompressing.  `Abort` is
`abort_gzip`, to which `Signal` leads from everywhere and `Fail` from `error`,
`read_error` and `write_error`.  A crash needs no action of its own, for `DataKept` is
an invariant: it holds in the state a crash leaves.  Writes reach the disk in the order
they are made (gzip does not call `fsync`).  `members` is what the files contain, with
the offset where each member ends, so that `BufferEmpty` can be what the code tests
(`inptr == insize`) and not what it means.  `treated` is history: for each argument the file
`treat_file` opened and what it held then, so that `ExitTells` can be about that file and no
other.  A handler runs as one step: a second signal
within it repeats `unlink` and `exit`.

### Signals

The POSIX build.  There are two contexts, the program and the handler, each with a
`pc`, the arguments of its `reap_children` (`call`) and the child it has in hand
(`cur`); everything else they share.  Both run the same actions, with the context as
parameter: `Wait`, `GotNextLine`, `GotFailed`, `GotDone`, `Notice`, `Remove`
are one round of `reap_children`, `Pending` and `Children` the two loops of
`fatal_error_signal`, `KillSelf` its end.  `Arrives` is the signal, `Deliver` the entry of
the handler: at once where signals are open, at the next `unblock_sigs` where they are
blocked.  The handler never resumes the program, which is why one copy of the shared
state is enough.  `blocked` is the state of `block_sigs`; between `wait ()` and
`block_sigs` the program holds a child that the handler's `wait ()` will not see any
more, and `WaitFails` is what follows (`ECHILD`, `pfatal_with_name`, `die`).  `Fork` and
`OnChain` are `new_job` with the block around them.  `GiveUp` is `update_goal_chain` leaving
its loop without `-k`, after `new_job` has failed (`stop`) or when the walk comes to a target
that has failed; until then other jobs may still be begun.  A target is as it was, half
made, made or gone; `stale` is the `last_mtime` that `notice_finished_file` clears.

### SubProc and ChildWait

The Windows build.  To make, a pid is the address of a `sub_process`: `heap` maps
addresses to what is there, `os` maps process handles to what became of the process,
and both are used again once they are free.  `proc_array` is the table;
`fake_exits_pending` counts launches that failed.  `Launch` is `process_easy` with
`process_register`, `Wait` is `process_wait_for_any`, which serves failed launches first,
then what has ended, and blocks otherwise.  `MatchShell` and `Match` are what
`reap_children` does with the pid: it compares it with `shell_function_pid` first, then
with the chain; `NextLine` and `JobOver` are the rest of the round, with
`process_cleanup`.  `OpenPipe`, `ReadShell`, `WaitForShell`, `ShellDone` are
`windows32_openpipe` and the loop in `func_shell`.

`ChildWait` is what make expects of a system it can wait on: each child runs one
command at a time, and its end is told once.  `SubProc` implements it
(`waits == INSTANCE ChildWait WITH …`, `ToldOnce`): the command of a child is found
through its address, its handle and the table, and what has been told is what the
last `Match` noticed.

### LessBuffers

`bufs` is the chain, most recently used first, `block` and `offset` the read
pointer, `fpos`, `fsize` and `canseek` what the filestate says of the descriptor, and
`koff` where the descriptor really is.  A byte of the input is the position it was
written at, so that a wrong byte is seen wherever it comes from.  `fch_get` is split
where it can be broken off or where the input can change meanwhile: `Found` and
`NeedMore` search the chain, `TakeBuffer` allocates a block or takes the
last one, `MoreEnd`, `MoreLost`, `MoreSeekError`, `MoreRead` are the tests and the `lseek` before the
read, `ReadData`, `ReadNothing`, `ReadInterrupted` the outcomes of `iread`, `Answer` the
return to `ch_seek`, `ch_end_seek`, `ch_forw_get` or `ch_back_get`.  The other
commands of less are a closed set of calls (`Repaint`, `Edit`, `SetBuffers`, `Follow`,
`Psignals`), in any order.

### Sort

`temphead` is the list, newest first, `files` the array of names, `disk` the names that
exist, `text` what is in them.  A temporary file has three steps: its name goes on
the list (`ChunkName`, `RoundName`, `CopyName`), it is created, it is written; and
`ZapTemp` and `ZapNode` unlink it and take it off.  A signal or an error may come before each
of them, and runs `cleanup`.  `SortOpen` to `SortMerge` are `sort ()`, `OpenGroup` to
`LastEnd` are `merge ()` with `mergefps ()`, where `ord` is its array of indices and
`saved` the line that `-u` holds back.  A line is its key and the place it was read
at, so that a stable sort has only one right output.

### Xargs and Downhill

`Downhill` is the table of `DH_PROC.C` without its users: `Forkexec` takes the first free
entry, `wait` is the two loops `CheckSigchld` and `GetStatusAny`, an entry at a time,
with the index that goes on from call to call; a process may end between any two
entries.  `Xargs` extends it.  `read_line`, `push_arg` and `do_insert` are the actions
`ReadEnd` to `LastCommand`; an argument is its place in the input with its length and
what follows it, and `cmd` is the list of places in the command being built.  `Ask`,
`AskFails` (no `/dev/tty`), `Slot`, `Run`, `RunFails` are `do_exec` with `add_proc`; `ReapedOne` and `Reaped` are
`wait_for_proc`.  The end `replaced` is `Forkexec` returning 0 for a full table,
which xargs takes for being the child.

### ZshJobs

There is one main thread with a stack, because the handler of SIGCHLD can run within
itself: `pc` and `stack`, a frame holding the locals of `handler ()`.  `Ends`, `CloseHandle`
and `Callback` are the thread of a child; `Callback` holds `sigcritter` and has the
main thread suspended, so it is one step, but the main thread can be anywhere: it
then leaves the signal pending (`Pend`), queues it (`Queue`), or runs the handler on
top of what was going on (`Handle`).  `Suspend` to `SuspendMasks` are `sigsuspend` with its
event, `Waitpid`, `FoundProc`, `UpdateJob` the loop of the handler, `Alloc` and `Unqueue` a
stretch of the shell between `queue_signals` and `unqueue_signals`.  `Begin` to
`Over` are `execpline`, `execcmd`, `getoutput`, `getoutputfile`, `addproc`,
`spawnjob` and `waitjob` for one script.  `spoilt` and `lost` are history: they mark the
two cases in which `$?` is wrong by the code (findings 13 and 14), so that
`StatusTells` says what is right in all others.

## 3. Runs

| run | question | instance |
|---|---|---|
| `jobserver_tree` | is the limit kept, no wakeup lost, every byte returned, are children waited for, and does all end? | `-j2`, two makes, in two uses: `-k`, jobs `a` (two lines), `b`, and `p`, which runs a submake with `c` and `d` on the same pipe, where `d` can fail; and `-l` without `-k`, where the submake lost the jobserver, commands and forks can fail, and `e` has no line to run |
| `remake_walk` | does the walk keep the promised order, does the status tell of every failure and of nothing stale, does no job start after an error, does `-k` decide every file, does the run end? | `-j2` with and without `-k`, with `WAIT_NOHANG` and without, as the Windows build; sources and targets old, newer or missing, commands and forks that fail |
| `keep_going_diamond` | *violated*: does `-k` skip every target that depends on a failed one? | `-k -j1`, the shared source `s` can fail |
| `gzip_files` | is all data in some file at every moment, is no partial output left and no other file removed, and does exit code 0 mean that the very files asked for were replaced? | two command lines each for gzip and gunzip; every kind of member; failures of open, read, write, close, create, unlink |
| `gunzip_drops_members` | *violated*: is it "safe to remove the input file"? | two members, the first ending where the buffer does |
| `signals_fatal` | wherever the signal comes: is every half made target deleted and no finished one, does no command run on, does make end? | `-j2`, three jobs: two lines; can fail; ignores signals and its `vfork` can fail.  `SIGINT`, `SIGTERM`, `SIGXCPU`; `-k`, or `.DELETE_ON_ERROR` |
| `subproc_wait` | do table and chain agree, is every end told once and to the right child, does make end? | two slots, three jobs, one calling `$(shell)`; as many addresses and handles as can be in use |
| `sort_files` | is the output that of a stable sort, is no temporary file left, does sort end? | merges of two files at a time, chunks of two lines, up to seven files; every failure and a signal at every step |
| `less_cache` | is the byte the right one, is a pipe kept, does every operation end? | blocks of two bytes, input of up to four; one or two buffers or as many as needed; file, pipe and file of size 0 |
| `xargs_items` | is each argument passed once, in order and within the limits, does the status tell of the commands, does xargs end? | 43 uses: each option alone and the combinations that interact, up to four arguments, `-P` 1, 2 and no limit |
| `xargs_status` | *violated*: does a command that exits with 255 give 124? | one argument, one command |
| `zsh_jobs` | is `$?` the status of the pipeline that was waited for, and is no wakeup lost? | four scripts with up to five children |

`EndsClean` of `Signals` is the conjunction of `HalfMadeGone` and `NothingRuns`; `TypeOK` of `SubProc` includes
`TableIsChain`, that of `Xargs` that both tables of children agree, that of `ZshJobs` that no
child which has told of its end is forgotten.  The parts are named in the modules.

### Why the bounds are enough

* **Jobserver.**  Two slots and two makes are the least in which a byte can be missing in
  one make because of the other; three jobs in the parent let a job wait, one run and one
  end at the same time; a job with two lines makes `reap_children` start one while others
  end.  No make has more than three jobs that run: with four, a second failure during `die`
  leaves a child behind (finding 2), which is the only reason for the bound, and the run
  shows nothing of such a nested `die`.  `OnlyChildIsFreeJob` and `TokensReturned` say
  nothing of a use with `-l` (finding 1).  `NoLostWakeup`, `OnlyChildIsFreeJob` and, with
  `-k`, `MaxJobs`, `NoOrphans` and `TokensReturned` are proved without bounds.
* **Remake.**  The graph has a shared prerequisite, a chain of three, a target with two
  lines, a target without commands to run, one without a rule, two files made by the same
  commands and needed by different targets, and every combination of old, new and missing
  files that differs for the walk.  There is one goal: a status that a later goal overwrites
  would not be seen.  The two have the same prerequisites and the same time
  at first, as after an earlier run; for others, see finding 18.  Where every command makes
  one file, `KeptGoing` is proved for every graph without a cycle, without `-k` also
  `StatusTells` and `BuildInOrder`.
* **GzipFile.**  Files of up to three members and command lines of up to five arguments,
  among them a file twice, a file that is missing and one that has to be looked up with its
  suffix, with outputs that exist and a stored name that is another file's or the input's
  own.  The run leaves out three things, each of which breaks a property: a member that
  ends with a full buffer (finding 5), a file given up half way before others (finding 6),
  and a read error while compressing, which `file_read` (zip.c:112) and `fill_window`
  (deflate.c:558) take for the end of the file, so that the rest of it is lost with exit
  code 0 (`DataKept` fails with `ReadFails = {a, agz, bgz}`).  Apart from these three, which
  are the hypotheses of the theorems, the safety properties are proved without bounds.
* **Signals.**  Three jobs over two slots: one on the chain, one in hand, one being forked.
  One signal; a second one of the same kind ends make at once, for the handler has
  restored the default action, and whatever it was about to delete stays.  For any number of
  jobs, lines and slots `EndsClean` and `KeptOnceDone` are proved.
* **SubProc.**  Two slots and a shell function are three processes at once; an address is
  reused as soon as it is free.  `-k` with both a job of two lines and `$(shell)` is
  there; without `-k` only one of them at a time (finding 7).  `TypeOK` and `ToldOnce` are
  proved without bounds under what these builds have in common.
* **Sort.**  Seven files merged two at a time take four rounds, with a remainder of none
  and of one; two chunk files and a rest occur with three lines.  All three safety
  properties are proved without bounds, for every `NMERGE`.
* **LessBuffers.**  Three blocks, with one or two buffers, are enough for a block to be
  thrown out, fetched again and half filled.  `MaxBlock` ends the reading of lost bytes
  with `-B`, `MaxBufs` the chain without a limit.  `GoesOn = FALSE` stops where the
  descriptor is not where `ch_fpos` says (finding 8): nothing is claimed of what follows.
  `AnswerRight` and `PipeKept` are proved without bounds.
* **Xargs.**  Three handles and a table of three entries: with `-P 0` the table does get
  full, and then a fourth command cannot be started until one has ended.  Codes
  0, 126, 255 and 256 are all the cases that `wait_for_proc` tells apart, and one that is cut
  to 0; that 255 is none of its own is the subject of `xargs_status`.  All three safety properties are proved without bounds.
* **ZshJobs.**  Five children; two of them in the list of ended children at once are enough
  for each of the races, three occur.  `MaxAllocs` bounds how often the shell queues
  signals on its own account.

No run uses symmetry: liveness is checked in most, and the jobs differ.

### Fairness

`Jobserver`: `WF(MakeStep(m))`: the kernel runs every process that can run; a step of a
make is never disabled by another make except by emptying the pipe, and for the run of
`Termination` weak fairness is enough because a make that waits in `read` is woken by
its own children.  `WF(ChildHandler(m))`: signals are delivered.
`WF(CommandExits(j))`: every command ends; a command that never ends keeps any make
from ending.  Nothing is assumed of the load average: with `-l` a job may be deferred
as long as another one runs, and only then.  `Remake`, `Signals`, `SubProc`, `Xargs`: the program
runs, and every command ends; no signal has to come.  `Sort`: it runs.  `LessBuffers`: less
goes on, who writes to the pipe ends some time, and who gave the `F` command, which waits
at the end of the file, ends it some time with an interrupt; no fairness for what the user
does otherwise.  `ZshJobs`: the main thread runs, every child ends, and every thread of a
child runs.

### Findings

The runs that are expected to fail show findings 3, 5 and 10.  For the others the
constants are given with which TLC finds the counterexample, or the lines from which the
model differs.

1. *A byte of the jobserver is lost with `-l`* (job.c:687, against the comment at
   683).  A job that has read a byte can be put on `waiting_jobs`; when the other children
   are gone it is started as the only child, `free_child` takes it for the free job, and
   its byte never goes back.  Each time the build loses one slot.  `FreeJobRight` proves
   that without `-l` this cannot happen; `OnlyChildIsFreeJob` fails for one make with two
   jobs and a use with `l = TRUE`, once its premise `~LoadLimit` is dropped.
2. *`die` leaves children* (main.c:2609, job.c:665).  `die` calls `reap_children (1, err)` with
   `err = 0` from the second round on, and `reap_children` takes `err = 0` to mean that nobody
   is dying: a second failing child makes it call `die` again, which exits at once.
   `NoOrphans` fails for one make with four jobs, two of which can fail.  With `-k` nobody dies
  before the end, and `ChildrenFirst` proves that children are waited for.
3. `keep_going_diamond`.  `update_file` returns 0 for a file that was considered in
   this pass, on the ground that nothing is reaped within a pass; `new_job` reaps
   within a pass.  With `-k` a target is built from a failed prerequisite if another
   target looked at that prerequisite first.  With one goal the exit status still
   tells of the failure.
4. *A target that is untouched is deleted* (job.c:616, against make.texi:2434 on
   `.DELETE_ON_ERROR`).  When a later line cannot be forked, the target is deleted even if
   its commands have not touched it and without `.DELETE_ON_ERROR`, because
   `notice_finished_file` has cleared the time that `delete_target` compares with.  The same
   time makes the handler of a fatal signal delete a target that is complete or untouched
   while it is still on the chain (make.texi, "Interrupting or Killing `make`", says only
   a target whose time has changed is deleted); `KeptOnceDone` says from where on that is
   over.
5. `gunzip_drops_members`.  The loop over members ends when the input buffer is used up,
   which also happens between two members, once in 32768 files or so; the rest of
   the input is removed with it.
6. *A signal in gzip removes a file gzip has not created* (gzip.c:882, 235).
   `remove_ofname` stays set after a file was given up without ending gzip, while
   `ofname` already names the next input, then its output.  `RemovesOwn` fails for
   `gunzip b.gz a.gz` when `b` is given up half way.
7. *make on Windows waits for ever* (job.c:514, function.c:1456).  Without `-k` a job fails
   while `func_shell` waits for its shell; make dies with `shell_function_pid` still
   set, frees the `sub_process`, and the address comes back as the pid of another job's
   next line, whose end is then taken for the shell's.  `Termination` of `SubProc` fails
   with `Builds = {Build(FALSE, 2, {"c"})}`, both a job of two lines and `$(shell)`.
8. *less shows wrong bytes of a file of size 0 that is opened again* (ch.c:758, 753, 582).
   `ch_close` keeps the filestate of what cannot be seeked in, also of a file in `/proc`, which
   is then opened anew: descriptor at 0, `ch_fpos` where it was.  `AnswerRight` fails
   with `GoesOn = TRUE`, `Kinds = {"proc"}`, `Faults = {}`, in 11 steps.  The descriptor also
   moves without `ch_fpos` when a signal comes after `read ()` has returned but before
   `reading` is cleared (`"late"`; the Win32 `iread` checks for it).
9. *sort*: the comment "only the last of a sequence of equal lines" (sort.c:236) is
   wrong, the first is output.  A temporary file that cannot be created because the name
   exists is put on the list before, so that cleaning up unlinks the other's file.
   `xmalloc` failing exits without cleaning up.  Neither is in the model.
10. `xargs_status`.  xargs on Windows takes exit 255 for a failure like any other (Downhill's
    `sys/wait.h:27`, xargs.c:876): `WEXITSTATUS` is a signed char, 255 is −1; xargs goes on and
    gives 123 where xargs.1 says 124.  `ExitTells` of `Xargs` is stated of what
    `wait_for_proc` does with the codes, `AbortsAt255` of what the manual says.  Exit codes
    are cut to a byte, so 256 is success; a process with code 259 is never seen to end.
11. *xargs becomes its own child* (DH_PROC.C, xargs.c:777).  With the process table full,
    `Forkexec` returns 0, and xargs takes the branch of the child (`pc = "replaced"`).  The
    table has 1024 entries, and only `-P 0` gets there.  TLC reaches the state with
    `ProcessMax = 2`; in `xargs_items` there are no more handles than entries.
12. *xargs*: a command that is not found ends as "cannot fork" with 1 where xargs.1 says 127;
    1, 126 and 127 leave other commands running; the EOF string ends the input
    also in mid-line, and is an argument if it is last without a newline.
13. *`$?` of zsh on NT is wrong when two children end together* (ntport/signal.c:427).
    `add_to_child_list` stores the exit code in the head of the list, not in the new node.
    `spoilt` excludes these children.
14. *The handler of zsh on NT is interrupted by itself.*  `sigaction` ignores `sa_mask`, though
    the comment of `install_handler` says the signal is blocked in the handler; between
    `update_process` and `update_job` a second handler can update and delete the job: `$?`
    is 0 and the entry stays in the table.  `lost` excludes these jobs.
15. *SIGCHLD stays blocked* (signals.c:397): the handler that is left with a queued signal
    leaves all signals blocked, SIGCHLD until the next `child_unblock`, SIGINT for good.
    `Termination` allows for it (`mask`).
16. *`a | b $(c)` does not wait for `b`* (jobs.c:512, "wait for a job to finish").  If `a` ends
    during `$(c)` the job is marked done; `addproc` does not clear that, and `waitjob`
    deletes the job.  `StatusTells` fails with `Scripts <- const_SubstLater` in 21 steps; the
    scripts of `zsh_jobs` have substitutions in the first stage only.
17. *`$(cmd)` of zsh on NT can miss its status*: it suspends once (exec.c:2101); woken by another
    child it goes on with `$?` 0.  `StatusTells` speaks of a substitution whose child has
    been reaped by then.  A child that was killed has its status from the low byte of the NT code, so
    that `WIFSIGNALED` is never true.  A child that `fork` has given up on (fork.c:322) is not
    killed and can be released by the next `fork`'s events.
18. *make aborts, or never ends, on files made together* (remake.c:540 and 574, against the
    assertion at 354 and the comment at 566).  `set_command_state` overwrites the state of a
    file of `also_make` that was settled on its own, if another of them has a prerequisite of
    its own that is still being made.  Let `v` need `w` too in `MCRemake`.  If `w`'s commands
    leave `w` as it was (`w` not in `Touches`, `OldTimes` 1 for `w` and 2 for `u`), `z` ends as
    "updated, but not_started", which the comment calls a bogus state, and the assertion
    fails (`TypeOK`).  If with `-k` the commands of `w` fail, `z` keeps `cs_deps_running` and
    make goes round for ever (`Termination`).  And where one of such files is up to date and
    the other is not, what depends on the first may be judged before both are remade, and
    stays stale with exit status 0.

## 4. Proofs

A theorem speaks of every value of the constants that meets the assumptions of the module
(`…Assumption`, which TLC evaluates in each run) and the hypotheses the theorem states.  The
pattern is the same everywhere: an inductive invariant whose parts have names, one lemma per
action or group of actions, and a last step in temporal logic.

| module | theorem | property | hypotheses |
|---|---|---|---|
| `JobserverProofs` | `TypeCorrect` | `TypeOK` | – |
| | `WakeupKept` | `NoLostWakeup` | – |
| | `JobLimit` | `MaxJobs` | `-k` |
| | `ChildrenFirst` | `NoOrphans` | `-k` |
| | `FreeJobRight` | `OnlyChildIsFreeJob` | – (the property: no `-l`) |
| | `BytesReturn` | `TokensReturned` | `-k` (the property: no `-l`) |
| `RemakeProofs` | `StopsAtFirstError` | `NoNewTargetAfterError` | `Startable` |
| | `TypeCorrect` | `TypeOK` | `SingleTargets` |
| | `DecidesEverything` | `KeptGoing` | `SingleTargets` |
| | `StatusCorrect` | `StatusTells` | `SingleTargets`, `Gentle` |
| | `PreconditionsHold` | `PreconditionsMet` | `SingleTargets`, `Gentle` |
| | `ImplementsBuildOrder` | `BuildInOrder` | `SingleTargets`, `Gentle` |
| `SignalsProofs` | `TypeCorrect` | `TypeOK` | – |
| | `EndsCleanly` | `EndsClean` | – |
| | `KeptOnceMade` | `KeptOnceDone` | – |
| `SubProcProofs` | `TypeCorrect` | `TypeOK` | `PipesLaunch`, `GivesUpApart` |
| | `TellsOnce` | `ToldOnce` | `PipesLaunch`, `GivesUpApart` |
| `GzipFileProofs` | `TypeCorrect` | `TypeOK` | – |
| | `RemovesOwnOutput` | `RemovesOwn` | `[]LastGivenUp` |
| | `DataSafe` | `DataKept` | `[]LastGivenUp`, `EndsInside`, `ReadsTell` |
| | `NothingPartial` | `NoPartialLeft` | those of `DataSafe` |
| | `ExitTruthful` | `ExitTells` | those of `DataSafe`, and `Suffixes(rank)` |
| `LessBuffersProofs` | `TypeCorrect`, `RightByte`, `NothingLost` | `TypeOK`, `AnswerRight`, `PipeKept` | `~GoesOn` |
| `SortProofs` | `TypeCorrect` | `TypeOK` | – |
| | `NoneLeft` | `NoTempLeft` | – |
| | `OutputCorrect` | `OutputIsSorted` | – |
| `XargsProofs` | `TypeCorrect` | `TypeOK` | – |
| | `BatchesCorrect` | `BatchesRight` | – |
| | `StatusCorrect` | `StatusRight`, of `ExitTells` | – |
| | `ExitCorrect` | `ExitTells` | – |

The hypotheses stand for gaps the program has, which the runs and findings show: finding 1
for `-l`, 2 and 3 for `-k`, 5 to 8 and 18 for the others.  Two leave out more than the gap:
`SingleTargets` also files that are made together and have the same prerequisites, and
`Gentle` in `StatusCorrect` every make with `-k`.

**Jobserver.**  `TypeOK` is not inductive: `free_child` moves the slot of a job, so one has
to know that the job has one.  `Occupied` says so for every job on a list and for the job
`new_job` is about to start, except while a submake has the slot; for that `Owned` is
needed, that `new_job` works on a target of its own make which is not yet started, and
`Unborn`, that a submake does not exist before its line is started (else a launch would
reset a make in the middle of `new_job`).  `Inv` is their conjunction; lemmas treat
`Launch`, `StartWaitingJob` and the steps that only move control, and `NextInv` puts them
together.

`WakeupKept` is inductive relative to `Inv`: `slots` is entered only by a return of
`reap_children` that found no dead child, every death sets `sigchld`, and the handler that
clears it closes `job_rfd`.

`JobLimit` needs `SlotsApart`, that every slot is in one place, and `Entitled`, that a
running make has a slot of its own or a child: then `new_job` and the exit of a make never
create a slot.  Without `-k` `Entitled` fails: a make can exit before its children (finding
2).  The map from running commands to their slots is injective, and `FS_Injection` gives the
bound.  `ChildrenFirst` follows from the same: with `-k` no `die` is nested, and `die` ends
only without children.

`FreeJobRight` needs `FreeJob`: a make has at most one free slot, none while it has a child
or is about to start a job, and a make without the jobserver has at most one child.

`BytesReturn` needs the converse of `SlotsApart`: `SlotsKept`, that no slot is ever nowhere
and that a job which has one is under way, and `Ended`, that a make which is gone has
neither child nor slot and a running submake is the process of the job that has given it its
slot.  When the top make exits, no slot may be left in the tree below it; that no make below
still runs is `Rooted`: among any make processes that run without the top one, one has its
parent outside.  `Rooted` takes the place of an induction over the tree and is kept by
removing an end and by adding one.

**Remake.**  The invariant has five parts, each proved from those before.  `Base`: types,
the `stack` is a path in the graph, and what the outcomes of files and `call` can be.
`Stopped`: numbers of lines, and without `-k` an error leads to `die` at once.  `States`:
`state`, `ustat`, `updated` and the process agree in every file.  `Walk`: what a pass has
pruned or gone past has been begun, a target is judged by prerequisites that are finished
(`Looped`, `Ordered`), and a goal that is not finished is still among the goals
(`Remaining`).  `Final`: the same for "made" instead of "finished" (`Orderly`), times, so
that "up to date" means what it says (`UpToDate`, `Judged`), only what is needed is
considered (`Relevant`), and the status is that of the files.  `AcyclicAssumption` serves to
show that a file on the stack is not asked for again.  The refinement maps each step by what
it does to files (`Shape`, `FileStep`), not by its name.

`SingleTargets` (every command makes one file) excludes finding 18.  `Startable` and
`Gentle` exclude makes that go on after an error: with `-k` `PreconditionsMet` is false
(finding 3), and a fork that fails makes a target fail without `die` being called.

**Signals.**  `EndsClean` is about the last state only.  The invariant says for the program
and the handler at once where each child is: every process belongs to a child on the chain
or about to be put there (`Known`, `Starting`, with signals blocked: `Masked`), a child on
the chain that has been waited for is in the hands of one of the two (`Chained`, `Held`),
and never of both (`Apart`); a target that is off the chain is not half made unless it is
excused (`Cleaned`).  `Quitted` says when either of them gives up, `DoneOff` is what
`KeptOnceMade` rests on.

**SubProc.**  `Table` is that the table holds the addresses in use, once each, `Chained`
that these are the pids of the children make waits for, `Entries` and `Apart` that no two
have the same handle or the same pid, `Counted` that the counter of failed launches is the
number of entries without a process.  `process_wait_for_any` takes the first entry of its
kind; the least index comes from `WFMin`.  `Starts`, `Ends` and `Tells` map the steps to
`ChildWait`.  `PipesLaunch` is that the shell of a `$(shell)` can be started (if not, make
ends with an entry that is neither a process nor a failed launch), `GivesUpApart` (`-k`, or
no `$(shell)`, or jobs of one line) excludes the builds in which finding 7 can happen.

**GzipFile.**  Which file is complete is an invariant over all of `disk`: `Complete` says
that every file but the output at work is whole, and that one too once `treat_file` is about
to remove the input; from that both `DataSafe` and `NothingPartial` follow.  For
`ExitTruthful`, as long as the exit code is 0: `Asked`, the input is the file found for this
argument and holds what it held; `Unique`, no data is in two files but those of the input at
work; `Moved`, the data of each file treated before is only in files further on in the order
of names, never in its own again (`Gone` says so of all arguments so far).  The hypotheses are the three gaps of section 3: `EndsInside` finding 5,
`LastGivenUp` finding 6, `ReadsTell` the read error of `deflate`.  `Suffixes` says that
there is an order in which gzip makes names longer and gunzip shorter: without it (names
from headers) data can come back, through the outputs of other arguments, under the name it had.

**LessBuffers.**  `AnswerRight` speaks of one state of `fch_get` only.  The inductive
invariant `IInv` says of every state that each buffer with a block holds a beginning of that
block (`data[k]` is the byte at `block * LBUFSIZE + k - 1`), that no block is in two
buffers, and how far `fch_get` has got: that the buffer it works on is the one of the read
pointer, that in `read` the descriptor is where the next byte of this buffer belongs, and
that what it is about to say of the end was true.  The arithmetic of `ch_tell`, block and
offset is in lemmas of its own.  `~GoesOn` is needed (finding 8): an operation begins only
where `koff = fpos`.

`NothingLost` adds for a pipe that every byte before `ch_fpos` is in the buffer of its block
(`Kept`), no buffer holds more (`Within`), the read pointer is at most in the block after
what was read (`Reached`), and `fch_get` never answers that a byte is lost (`Told`).

**Sort.**  Three invariants, each proved with those before.  `Inv`: a temporary file which
exists is on the list in every state, not only at the end (`AllListed`), with the three facts
which that needs at a creation and at a removal: names on the list have been handed out, the
name to be created is on it, and the file of the name to be taken off is gone.
`CleanupInv` is the step that all ends share.

`Types`: the first `n_temp_files` names of the list are the chunks of `sort ()` (`Chunked`),
the inputs or their copies still hold what they did (`Opened`), the group, the place to store
its file and the file at work belong together (`Rounds`), and `ord` is the order of the heads
(`Sequenced`); this needs that the only insertion, in `Moved`, keeps the order (`PushedIs`), and
so does the removal of a file at its end (`DroppedIs`).

`Arranges` says why the output is right although every step handles a part of it.
`OutputIsSorted` speaks of the end only; before, the lines are spread over the chunks, the
one in hand, the rests of open files, the saved line, the file at work and the output.  Each
of these is sorted; of two of them, that which comes first holds the first of
equal lines (`Apart`); and no line that is wanted is in none of them.  `SortsRight` says this while chunks are
read, `GroupRight` of the group that is merged (`MergeRight`: what is written comes before
what is still to be merged, and with `-u` before what is saved and with other keys), `RoundRight` of the places of `files`
before and after the group, with the group between them.  That `GroupEnd`
stores the file at a place between these two is what makes the rounds stable.  The lemmas that
carry it: `FirstLine`, the head that `ord` puts first is the first line of the group;
`MergeStep`, writing or saving it keeps `MergeRight`; `ReadTakes`, a chunk takes over from what
is not read; `OpenGroupFits` and `GroupEndIs`, a group is taken out of the array and put back.
An output that is in order, has no key twice with `-u` and lacks nothing is the one of a
stable sort (`OutputIs`).  `Arranged`, the model's sort, is a choice among functions; `Arrangement`
shows that there is one to choose, by a least counterexample.

With `-m` `OutputIsSorted` claims something only for inputs that are sorted, as `-m` demands;
that is the premise of `Arranges` too (`Good`).

**Xargs.**  xargs has a list of its children and Downhill a table, and `wait ()` takes a
process out of the table before xargs takes it off the list: `Agreed` is that they differ by
just that one.  `Codes` follows the exit code of each ended command from the process through
`wait ()` to `child_error`: none is lost on the way, and none is made up.  `Waits` is that
`wait ()` is not called without a child, and `Control` that the last command is built at the
end of the input only.

`BatchesRight` speaks of commands that are complete; `BInv` follows the one that is built.
`Order`: the arguments of the commands so far and then those of `cmd` are the first of the input,
in this order.  `Fits`: `cmd_argv_chars` is the size of `cmd`, and both it and the number of
arguments are within `-s` and `-n`.  `Lined`: `lineno` counts the lines that end in the
command, so that a command with `-l` begins at the beginning of a line.  `Follows`: a
command is only ended when it is full or the input is at its end.  `Alone`: each command
asked about is within its limits, and one without arguments is the last, with nothing run
before it.  `Total`, the sum of lengths, is a recursive function: that it is defined, and
grows by the length of what is appended, is shown by a least counterexample (`SumsExist`,
`TotalAppend`), the prover's way around an induction.  `ExitCorrect` adds `AllPassed`
from `Control` and `Order`.

Only model-checked:

* all liveness, which is beyond the prover;
* what the hypotheses leave out and the runs have: in `Remake` files made together, and with
  `-k` `StatusTells` and `BuildInOrder`; in `Jobserver` `NoOrphans` and
  `MaxJobs` without `-k`, as far as the second use of `jobserver_tree` goes;
* `TypeOK` and `StatusTells` of `ZshJobs`: its invariant has to follow every stack that
  handlers on top of handlers can build.

## 5. Not modelled

unxutils has about a million lines in some eighty packages.  Most of them are sequential
filters, interpreters and tables: what they do is a function of their input, which a
model checker enumerates no better than a test does.  The models therefore cover the places
where order, failure and sharing decide, a small part of the lines.  Left out of the
components that are modelled:

* make: remote jobs, `-t`, `-q`, `-n`, the ports of `job.c` to VMS, DOS and Amiga, the
  construction of command lines and environments; double-colon rules,
  intermediate and precious files, VPATH, archives, cycles (make drops them), remaking of
  makefiles.  Parsing, expansion and implicit rules produce the constants of the models
  (`Deps`, `Lines`, `Cmds`).  A write to the pipe that blocks or fails: a pipe holds far
  more bytes than a sensible `-j`.
* fatal signals: handlers that run in a `vfork`ed child, the exit of `SIGQUIT`,
  `delete_child_targets` of `also_make`, remote children, the shell function.
* Windows processes: more than 64 handles or 256 entries, `DuplicateHandle` failing, a launch
  that fails with error 0, `-j1`, the threads of `process_pipe_io`.
* gzip: standard input or output, `-t`, `-l`, `-r`, links, file systems that truncate names.
* less: pushed back characters, the help and log files, input from `LESSOPEN`, `-b0`, quitting
  after many empty reads.
* sort: keys and comparison themselves, `-c`, memory running out, unlinking of open files,
  which fails on Windows.
* xargs: quoting, the environment's size, and what `do_insert` does beyond its buffer.
* zsh: signals other than SIGCHLD, traps, stopped jobs, disowned jobs, compound commands,
  failing forks, reused pids, `MAXJOB`, the copying done by `fork`.
* Downhill: `waitpid` for one child, `system`, signals, sockets.

The components without a module are listed with their reason in `PROJECT.json`.

## 6. Next steps

In this order:

1. Proofs: `StatusTells` of `Remake` with `-k` and one goal, its theorems for files that are
   made together from the same prerequisites; a bound on the failures under which
   `NoOrphans` holds without `-k`; `StatusTells` of `ZshJobs`.
2. `Remake`: double-colon rules and intermediate files; the bookkeeping that would end
   finding 18.
3. Downhill: `waitpid` and `system`, with `patch` and `find -exec` as users.
4. zsh: traps and stopped jobs, and the hand-over of the image in `fork`.
