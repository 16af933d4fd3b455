----------------------------- MODULE LessBuffers -----------------------------
(***************************************************************************)
(* The buffers less 340 (ch.c) reads a file or a pipe through: a chain of     *)
(* blocks, most recently used first, a read pointer in front of it and the     *)
(* file descriptor behind it, with the rest of less seeking and reading both    *)
(* ways, the file growing, and signals that break off a read.                  *)
(*                                                                          *)
(* A byte is the place in the input it was written at, so that a byte is       *)
(* right when it is the position it is returned for.  The input may grow but  *)
(* is not overwritten or cut.  The POSIX build is modelled.  ch_ungetchar,     *)
(* the help file, the log file and popen ()ed input are left out, and so are   *)
(* -b0 and having no memory for even one buffer, which make fch_get use the    *)
(* filestate as a buffer.                                                     *)
(***************************************************************************)
EXTENDS Integers, Sequences

CONSTANTS
  LBUFSIZE,  \* the size of a block
  MaxSize,   \* a bound: how long the input gets
  Kinds,     \* of "file", "pipe" (standard input) and "proc" (fstat () says 0)
  Cbufs,     \* the values of -b, in blocks; -1 for no limit
  Autobufs,  \* TRUE by default, FALSE with -B
  Faults,    \* what may fail, of "alloc", "seek" and "read", and "late" interrupts
  GoesOn     \* FALSE is a bound: the model stops where koff # fpos

ASSUME SizeAssumption == LBUFSIZE \in Nat \ {0} /\ MaxSize \in Nat
ASSUME CbufsAssumption == Cbufs \subseteq (Nat \ {0}) \cup {-1}
ASSUME OptionAssumption == Kinds \subseteq {"file", "pipe", "proc"} /\ Autobufs \subseteq BOOLEAN

NULL_POSITION == -1
EOI == -1
Lost == -2         \* the '?' that stands for a byte that is gone
SeekError == -3    \* EOI again, but with the message "seek error"
Ends == {EOI, SeekError}
MaxBlock == MaxSize \div LBUFSIZE + 1   \* a bound: where reading lost bytes ends
MaxBufs == MaxBlock + 1  \* a bound: with -b-1 every repaint can add a buffer

VARIABLES
  kind, size,   \* what the input is, and how much of it is written
  ended,        \* the other end of the pipe is closed
  koff,         \* where the next read () reads
  canseek,      \* CH_CANSEEK
  fpos, fsize,  \* ch_fpos and ch_fsize
  block, offset, \* the read pointer
  bufs,         \* the chain, as records [block, data]
  autobuf, cbufs, ignore_eoi,
  sigs,         \* "none", "winch", or "abort" for SIGINT and SIGTSTP
  pc,           \* "idle", or where fch_get is: "find", "more", "read", "answer"
  op, target,   \* what fch_get was called for, and where ch_seek wants to get
  bp, c         \* the place of its buffer in the chain, and what it returns

input == <<kind, size, ended>>
options == <<autobuf, cbufs, ignore_eoi>>
pointer == <<block, offset>>
caller == <<op, target>>
vars == <<input, koff, canseek, fpos, fsize, pointer, bufs, options, sigs, pc, caller, bp, c>>

------------------------------------------------------------------------------
Min2(a, b) == IF a <= b THEN a ELSE b
Empty == [block |-> -1, data |-> <<>>]
\* What fstat () says.
filesize == IF kind = "proc" THEN 0 ELSE size
ch_length == IF ignore_eoi THEN NULL_POSITION ELSE fsize
ch_tell == block * LBUFSIZE + offset
buffered(b) == \E i \in DOMAIN bufs : bufs[i].block = b

\* A chain with its i-th buffer moved to the head.
ToFront(s, i) ==
  [j \in DOMAIN s |-> IF j = 1 THEN s[i] ELSE IF j <= i THEN s[j - 1] ELSE s[j]]
\* A chain whose last buffer is to hold block b.
Relabel(s, b) == [s EXCEPT ![Len(s)] = [block |-> b, data |-> <<>>]]
\* d and the n bytes of the input that begin at p.
Filled(d, p, n) ==
  [k \in 1..(Len(d) + n) |-> IF k <= Len(d) THEN d[k] ELSE p + (k - Len(d)) - 1]

\* seekable, and the kludge of ch_flush for files of size 0.
Seekable == kind # "pipe" /\ filesize > 0

\* ch_init of a file that is seen for the first time.
Init ==
  /\ kind \in Kinds /\ size \in 0..MaxSize /\ ended = FALSE /\ koff = 0
  /\ canseek = Seekable
  /\ fpos = 0 /\ fsize = IF canseek THEN size ELSE NULL_POSITION
  /\ block = 0 /\ offset = 0 /\ bufs = <<>>
  /\ autobuf \in Autobufs /\ cbufs \in Cbufs /\ ignore_eoi = FALSE
  /\ sigs = "none" /\ pc = "idle" /\ op = "none" /\ target = 0 /\ bp = 0 /\ c = 0

------------------------------------------------------------------------------
(* fch_get                                                                  *)

Return(r) == c' = r /\ pc' = "answer" /\ bp' = 0

\* The first buffer of the wanted block.
Holds(i) == i \in DOMAIN bufs /\ bufs[i].block = block
            /\ \A j \in DOMAIN bufs : j < i => bufs[j].block # block

Found ==
  /\ pc = "find"
  /\ \E i \in DOMAIN bufs :
       /\ Holds(i) /\ offset < Len(bufs[i].data)
       /\ bufs' = ToFront(bufs, i)
       /\ Return(bufs[i].data[offset + 1])
  /\ UNCHANGED <<input, koff, canseek, fpos, fsize, pointer, options, sigs, caller>>

NeedMore ==
  /\ pc = "find"
  /\ \E i \in DOMAIN bufs : Holds(i) /\ offset >= Len(bufs[i].data) /\ bp' = i
  /\ pc' = "more"
  /\ UNCHANGED <<input, koff, canseek, fpos, fsize, pointer, bufs, options, sigs, caller, c>>

\* There is no empty buffer, and another one may be allocated.
WantsBuffer ==
  /\ bufs # <<>> => bufs[Len(bufs)].block # -1
  /\ (autobuf /\ ~canseek) \/ cbufs = -1 \/ Len(bufs) < cbufs

\* MUTANT: for a pipe the least recently used buffer is taken when -b is in effect.
TakeBufferPipe ==
  /\ pc = "find" /\ ~buffered(block)
  /\ IF bufs # <<>> /\ Len(bufs) >= cbufs /\ cbufs # -1
     THEN bufs' = Relabel(bufs, block)
     ELSE bufs' = Append(bufs, [block |-> block, data |-> <<>>])
  /\ bp' = Len(bufs') /\ pc' = "more"
  /\ UNCHANGED <<input, koff, canseek, fpos, fsize, pointer, options, sigs, caller, c>>

TakeBuffer ==
  /\ pc = "find" /\ ~buffered(block)
  /\ \/ ~WantsBuffer /\ bufs' = Relabel(bufs, block) /\ UNCHANGED autobuf
     \/ /\ WantsBuffer
        /\ bufs' = Append(bufs, [block |-> block, data |-> <<>>]) /\ UNCHANGED autobuf
     \/ /\ WantsBuffer /\ "alloc" \in Faults /\ bufs # <<>>
        /\ autobuf' = FALSE /\ bufs' = Relabel(bufs, block)
  /\ bp' = Len(bufs') /\ pc' = "more"
  /\ UNCHANGED <<input, koff, canseek, fpos, fsize, pointer, cbufs, ignore_eoi, sigs, caller,
                 c>>

\* Where the buffer's data ends.
Pos == bufs[bp].block * LBUFSIZE + Len(bufs[bp].data)
AtEnd == ch_length # NULL_POSITION /\ Pos >= ch_length

MoreEnd ==
  /\ pc = "more" /\ AtEnd /\ Return(EOI)
  /\ UNCHANGED <<input, koff, canseek, fpos, fsize, pointer, bufs, options, sigs, caller>>

MoreLost ==
  /\ pc = "more" /\ ~AtEnd /\ Pos # fpos /\ ~canseek /\ Return(Lost)
  /\ UNCHANGED <<input, koff, canseek, fpos, fsize, pointer, bufs, options, sigs, caller>>

\* MUTANT: the descriptor is moved only back.
MoreReadBack ==
  /\ pc = "more" /\ ~AtEnd /\ (Pos = fpos \/ canseek)
  /\ fpos' = Pos /\ koff' = IF Pos >= fpos THEN koff ELSE Pos
  /\ pc' = "read"
  /\ UNCHANGED <<input, canseek, fsize, pointer, bufs, options, sigs, caller, bp, c>>

MoreRead ==
  /\ pc = "more" /\ ~AtEnd /\ (Pos = fpos \/ canseek)
  /\ fpos' = Pos /\ koff' = IF Pos = fpos THEN koff ELSE Pos
  /\ pc' = "read"
  /\ UNCHANGED <<input, canseek, fsize, pointer, bufs, options, sigs, caller, bp, c>>

\* The lseek of ch_flush, which may fail too, is taken to succeed.
MoreSeekError ==
  /\ pc = "more" /\ ~AtEnd /\ Pos # fpos /\ canseek /\ "seek" \in Faults /\ Return(SeekError)
  /\ UNCHANGED <<input, koff, canseek, fpos, fsize, pointer, bufs, options, sigs, caller>>

\* What read () returns if it does not wait.
Count == Min2(LBUFSIZE - Len(bufs[bp].data), size - koff)

ReadData ==
  /\ pc = "read" /\ Count > 0
  /\ LET d == Filled(bufs[bp].data, koff, Count) IN
       /\ bufs' = ToFront([bufs EXCEPT ![bp].data = d], bp)
       /\ fpos' = fpos + Count /\ koff' = koff + Count
       /\ IF offset < Len(d) THEN Return(d[offset + 1])
          ELSE pc' = "more" /\ bp' = 1 /\ UNCHANGED c
  /\ UNCHANGED <<input, canseek, fsize, pointer, options, sigs, caller>>

\* MUTANT: with ignore_eoi nobody looks for signals.
ReadNothingDeaf ==
  /\ pc = "read"
  /\ "read" \in Faults \/ (Count <= 0 /\ (kind # "pipe" \/ ended))
  /\ fsize' = Pos /\ bufs' = ToFront(bufs, bp) /\ bp' = 1 /\ pc' = "more"
  /\ UNCHANGED <<input, koff, canseek, fpos, pointer, options, sigs, caller, c>>

\* At the end of the input, or after an error.  With ignore_eoi it waits and tries again.
ReadNothing ==
  /\ pc = "read"
  /\ "read" \in Faults \/ (Count <= 0 /\ (kind # "pipe" \/ ended))
  /\ fsize' = Pos
  /\ IF sigs # "none" THEN Return(EOI) /\ UNCHANGED bufs
     ELSE bufs' = ToFront(bufs, bp) /\ bp' = 1 /\ pc' = "more" /\ UNCHANGED c
  /\ UNCHANGED <<input, koff, canseek, fpos, pointer, options, sigs, caller>>

\* A signal handler calls intread while iread waits in read (), or after read () has
\* taken bytes that iread then does not return.
ReadInterrupted ==
  /\ pc = "read" /\ sigs' \in {"winch", "abort"} /\ (sigs = "abort" => sigs' = "abort")
  /\ \/ UNCHANGED koff
     \/ "late" \in Faults /\ Count > 0 /\ koff' = koff + Count
  /\ Return(EOI)
  /\ UNCHANGED <<input, canseek, fpos, fsize, pointer, bufs, options, caller>>

------------------------------------------------------------------------------
(* The operations                                                           *)

Ready == pc = "idle" /\ (GoesOn \/ koff = fpos)
Call(o, p) == pc' = "find" /\ op' = o /\ target' = p
Over == pc' = "idle" /\ op' = "none" /\ target' = 0
PointAt(p) == block' = p \div LBUFSIZE /\ offset' = p % LBUFSIZE

\* MUTANT: the offset runs up to LBUFSIZE.
AdvanceFar ==
  IF offset < LBUFSIZE THEN offset' = offset + 1 /\ UNCHANGED block
  ELSE block' = block + 1 /\ offset' = 0

Advance ==
  IF offset < LBUFSIZE - 1 THEN offset' = offset + 1 /\ UNCHANGED block
  ELSE block' = block + 1 /\ offset' = 0

\* The unseekable input has to be read up to p.
Slow(p) == ~canseek /\ p # fpos /\ ~buffered(p \div LBUFSIZE)
ch_seek(p) ==
  IF (ch_length # NULL_POSITION /\ p > ch_length) \/ (Slow(p) /\ fpos > p)
  THEN UNCHANGED <<pointer, pc, caller>>
  ELSE IF Slow(p) THEN Call("seek", p) /\ UNCHANGED pointer
  ELSE PointAt(p) /\ UNCHANGED <<pc, caller>>

Seek ==
  /\ Ready /\ \E p \in 0..(IF ignore_eoi THEN size ELSE MaxSize) : ch_seek(p)
  /\ UNCHANGED <<input, koff, canseek, fpos, fsize, bufs, options, sigs, bp, c>>

ch_end_seek ==
  /\ Ready
  /\ fsize' = IF canseek THEN filesize ELSE fsize
  /\ IF ignore_eoi \/ fsize' = NULL_POSITION THEN Call("end", 0) /\ UNCHANGED pointer
     ELSE IF Slow(fsize')
          THEN IF fpos > fsize' THEN UNCHANGED <<pointer, pc, caller>>
               ELSE Call("seek", fsize') /\ UNCHANGED pointer
          ELSE PointAt(fsize') /\ UNCHANGED <<pc, caller>>
  /\ UNCHANGED <<input, koff, canseek, fpos, bufs, options, sigs, bp, c>>

\* The buffer closest to position 0, when that is gone.
ch_beg_seek ==
  /\ Ready
  /\ IF Slow(0)
     THEN IF bufs = <<>> THEN UNCHANGED pointer
          ELSE /\ \E i \in DOMAIN bufs :
                    /\ \A j \in DOMAIN bufs : bufs[i].block <= bufs[j].block
                    /\ block' = bufs[i].block
               /\ offset' = 0
     ELSE PointAt(0)
  /\ UNCHANGED <<input, koff, canseek, fpos, fsize, bufs, options, sigs, pc, caller, bp, c>>

ch_forw_get ==
  /\ Ready /\ block < MaxBlock /\ Call("forw", 0)
  /\ UNCHANGED <<input, koff, canseek, fpos, fsize, pointer, bufs, options, sigs, bp, c>>

ch_back_get ==
  /\ Ready
  /\ \/ offset > 0 /\ offset' = offset - 1 /\ UNCHANGED block
     \/ /\ offset = 0 /\ block > 0 /\ (canseek \/ buffered(block - 1))
        /\ block' = block - 1 /\ offset' = LBUFSIZE - 1
  /\ Call("back", 0)
  /\ UNCHANGED <<input, koff, canseek, fpos, fsize, bufs, options, sigs, bp, c>>

\* fch_get returns to ch_forw_get, ch_back_get, or the loops of ch_seek and ch_end_seek.
Answer ==
  /\ pc = "answer"
  /\ IF c \in Ends \/ op = "back" THEN UNCHANGED pointer ELSE Advance
  /\ IF \/ c \in Ends \/ op \in {"forw", "back"} \/ sigs = "abort" \/ block' >= MaxBlock
        \/ op = "seek" /\ fpos >= target
     THEN Over ELSE pc' = "find" /\ UNCHANGED caller
  /\ c' = 0
  /\ UNCHANGED <<input, koff, canseek, fpos, fsize, bufs, options, sigs, bp>>

\* ch_flush for a file one can seek in: as ch_init of a new filestate, or for the command R,
\* which calls it for no other file (also not for one of size 0: CH_CANSEEK is gone).  What
\* a buffer without a block holds is not looked at again.
ch_flush(s) ==
  /\ bufs' = s /\ fpos' = 0 /\ koff' = 0 /\ block' = 0 /\ offset' = 0
  /\ canseek' = (filesize > 0)
  /\ fsize' = IF filesize > 0 THEN filesize ELSE NULL_POSITION

Repaint ==
  /\ Ready /\ ~ignore_eoi /\ canseek /\ Len(bufs) < MaxBufs
  /\ ch_flush([i \in DOMAIN bufs |-> Empty])
  /\ UNCHANGED <<input, options, sigs, pc, caller, bp, c>>

\* Another file is looked at, and then this one again: ch_close and ch_init.  The
\* filestate of what cannot be seeked in is kept, also when the file is opened again.
Edit ==
  /\ Ready /\ ~ignore_eoi
  /\ IF canseek THEN ch_flush(<<>>)
     ELSE /\ fsize' = NULL_POSITION
          /\ koff' = IF kind = "pipe" THEN koff ELSE 0
          /\ UNCHANGED <<canseek, fpos, pointer, bufs>>
  /\ UNCHANGED <<input, options, sigs, pc, caller, bp, c>>

\* The option -b is given as a command, and ch_nbuf allocates the buffers, if it can.
SetBuffers ==
  /\ Ready /\ ~ignore_eoi
  /\ \E want \in Cbufs, n \in 0..MaxBlock :
       /\ Len(bufs) + n <= want \/ n = 0
       /\ Len(bufs) + n < want => "alloc" \in Faults /\ Len(bufs) + n > 0
       /\ bufs' = bufs \o [i \in 1..n |-> Empty]
       /\ cbufs' = Len(bufs) + n
  /\ cbufs' > 0
  /\ UNCHANGED <<input, koff, canseek, fpos, fsize, pointer, autobuf, ignore_eoi, sigs, pc,
                 caller, bp, c>>

\* The F command ignores the end of the file until there is a signal.
Follow ==
  /\ pc = "idle" /\ ignore_eoi' = ~ignore_eoi /\ (ignore_eoi <=> sigs # "none")
  /\ UNCHANGED <<input, koff, canseek, fpos, fsize, pointer, bufs, autobuf, cbufs, sigs, pc,
                 caller, bp, c>>

\* psignals, before the next command.
Psignals ==
  /\ pc = "idle" /\ ~ignore_eoi /\ sigs # "none" /\ sigs' = "none"
  /\ UNCHANGED <<input, koff, canseek, fpos, fsize, pointer, bufs, options, pc, caller, bp, c>>

------------------------------------------------------------------------------
(* The surroundings                                                         *)

Grow ==
  /\ ~ended /\ size' \in (size + 1)..MaxSize
  /\ UNCHANGED <<kind, ended, koff, canseek, fpos, fsize, pointer, bufs, options, sigs, pc,
                 caller, bp, c>>
End ==
  /\ ~ended /\ kind = "pipe" /\ ended' = TRUE
  /\ UNCHANGED <<kind, size, koff, canseek, fpos, fsize, pointer, bufs, options, sigs, pc,
                 caller, bp, c>>
Signal ==
  /\ pc # "read" /\ sigs # "abort" /\ sigs' \in {"winch", "abort"} \ {sigs}
  /\ UNCHANGED <<input, koff, canseek, fpos, fsize, pointer, bufs, options, pc, caller, bp, c>>

fch_get == Found \/ NeedMore \/ TakeBuffer \/ MoreEnd \/ MoreLost \/ MoreSeekError \/ MoreRead
           \/ ReadData \/ ReadNothing
Next ==
  \/ fch_get \/ ReadInterrupted \/ Answer
  \/ Seek \/ ch_end_seek \/ ch_beg_seek \/ ch_forw_get \/ ch_back_get
  \/ Repaint \/ Edit \/ SetBuffers \/ Follow \/ Psignals
  \/ Grow \/ End \/ Signal

Spec == Init /\ [][Next]_vars

\* less goes on, what is at the other end of a pipe ends some time, and who gave the F
\* command ends it some time with an interrupt.
Fairness ==
  /\ WF_vars(fch_get \/ Answer) /\ WF_vars(End)
  /\ WF_vars(ignore_eoi /\ (Signal \/ ReadInterrupted))
FairSpec == Spec /\ Fairness

------------------------------------------------------------------------------
TypeOK ==
  /\ kind \in Kinds /\ size \in 0..MaxSize /\ ended \in BOOLEAN /\ koff \in Nat
  /\ canseek \in BOOLEAN /\ fpos \in Nat /\ fsize \in Nat \cup {NULL_POSITION}
  /\ block \in Nat \cup {-1} /\ offset \in 0..(LBUFSIZE - 1)
  /\ bufs \in Seq([block : Nat \cup {-1}, data : Seq(Nat)])
  /\ \A i \in DOMAIN bufs : Len(bufs[i].data) <= LBUFSIZE
  /\ autobuf \in BOOLEAN /\ cbufs \in (Nat \ {0}) \cup {-1} /\ ignore_eoi \in BOOLEAN
  /\ sigs \in {"none", "winch", "abort"}
  /\ pc \in {"idle", "find", "more", "read", "answer"}
  /\ op \in {"none", "forw", "back", "seek", "end"} /\ target \in Nat
  /\ bp \in 0..Len(bufs) /\ (pc \in {"more", "read"} <=> bp # 0)
  /\ c \in Nat \cup {Lost} \cup Ends

\* The byte that fch_get returns is the one at the read pointer, through every move of
\* the pointer, every re-use of a buffer and every read that was short, came to the end
\* or was broken off (fch_get, ch.c:104); it says that the input ends only where it knows
\* so, when a signal came or when it told of a seek error, and that a byte is lost only if
\* no buffer holds it.  With GoesOn this is not so: where a read was broken off too late, or
\* a file that cannot be seeked in was opened again, the descriptor is not where ch_fpos says.
AnswerRight ==
  pc = "answer" =>
    /\ c >= 0 => c = ch_tell
    /\ c = EOI => sigs # "none" \/ (fsize # NULL_POSITION /\ ch_tell >= fsize)
    /\ c = Lost => ~canseek /\ \A i \in DOMAIN bufs :
                     \A k \in DOMAIN bufs[i].data : bufs[i].data[k] # ch_tell

\* While buffers are allocated as needed nothing that was read from a pipe is lost, and
\* it stays where it can be found ("We can't seek on this file and -b is not in effect",
\* ch.c:142).
PipeKept ==
  ~canseek /\ autobuf =>
    /\ \A p \in 0..(fpos - 1) : \E i \in DOMAIN bufs :
         /\ bufs[i].block = p \div LBUFSIZE
         /\ Len(bufs[i].data) > p % LBUFSIZE /\ bufs[i].data[(p % LBUFSIZE) + 1] = p
    /\ pc = "answer" => c # Lost

\* Every operation comes back to its caller: the loops of fch_get, ch_seek and
\* ch_end_seek end, also while the F command ignores the end of the file (fch_get,
\* ch.c:246).  With -B a lost block can make ch_end_seek read '?' for ever; that is where
\* MaxBlock ends the model, and nothing is said of it.
Termination == (pc = "find" /\ autobuf) ~> (pc = "idle" \/ ~autobuf)
==============================================================================
