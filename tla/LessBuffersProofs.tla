-------------------------- MODULE LessBuffersProofs --------------------------
(***************************************************************************)
(* What fch_get returns is right (AnswerRight of LessBuffers), for every      *)
(* block size, input, number of buffers and order of operations, as long as    *)
(* the descriptor is where ch_fpos says when an operation begins.             *)
(*                                                                          *)
(* The inductive invariant says that every buffer holds the beginning of its  *)
(* block, that no block has two buffers, and how far fch_get has come.         *)
(***************************************************************************)
EXTENDS LessBuffers, TLAPS

Blocks == Nat \cup {-1}
Buffer == [block : Blocks, data : Seq(Nat)]

\* A buffer holds the beginning of its block.
Good(b) ==
  /\ Len(b.data) <= LBUFSIZE
  /\ b.block = -1 => Len(b.data) = 0
  /\ \A k \in 1..Len(b.data) : b.data[k] = b.block * LBUFSIZE + k - 1

Unique(s) ==
  \A i, j \in 1..Len(s) : i # j /\ s[i].block = s[j].block => s[i].block = -1

Chain(s) ==
  /\ s \in Seq(Buffer)
  /\ \A i \in 1..Len(s) : Good(s[i])
  /\ Unique(s)

\* Where fch_get is.
Progress ==
  /\ pc \in {"find", "more", "read"} => koff = fpos
  /\ pc = "answer" /\ c # EOI => koff = fpos
  /\ pc \in {"more", "read"} => bufs[bp].block = block /\ offset >= Len(bufs[bp].data)
  /\ pc = "read" => Pos = fpos

IInv ==
  /\ TypeOK
  /\ Chain(bufs)
  /\ canseek => block # -1
  /\ Progress
  /\ AnswerRight
------------------------------------------------------------------------------
(* Places                                                                   *)

\* A read pointer set to a position is within a block.
LEMMA DivMod ==
  ASSUME NEW p \in Nat
  PROVE  p \div LBUFSIZE \in Nat /\ p % LBUFSIZE \in 0..(LBUFSIZE - 1)
BY SizeAssumption

LEMMA MaxBlockNat == MaxBlock \in Nat /\ MaxBlock >= 1
<1>1. MaxSize \div LBUFSIZE \in Nat
  BY SizeAssumption, DivMod
<1> QED BY <1>1 DEF MaxBlock

\* Different places in blocks are different positions.
LEMMA SamePlace ==
  ASSUME NEW a \in Int, NEW b \in Int, NEW x \in 0..(LBUFSIZE - 1), NEW y \in 0..(LBUFSIZE - 1),
         a * LBUFSIZE + x = b * LBUFSIZE + y
  PROVE  a = b /\ x = y
<1>0. LBUFSIZE \in Nat /\ LBUFSIZE > 0
  BY SizeAssumption
<1>1. \A n \in Int : n >= 1 => n * LBUFSIZE >= LBUFSIZE
  BY <1>0
<1>2. (a - b) * LBUFSIZE = y - x /\ (b - a) * LBUFSIZE = x - y
  BY <1>0
<1>3. ~ a - b >= 1
  BY <1>0, <1>1, <1>2
<1>4. ~ b - a >= 1
  BY <1>0, <1>1, <1>2
<1>5. a = b
  BY <1>3, <1>4
<1> QED BY <1>0, <1>5

------------------------------------------------------------------------------
(* Chains                                                                   *)

\* Moving a buffer to the head keeps the chain, and the buffer is there then.
LEMMA FrontChain ==
  ASSUME NEW s, Chain(s), NEW i \in 1..Len(s)
  PROVE  /\ Chain(ToFront(s, i)) /\ Len(ToFront(s, i)) = Len(s)
         /\ ToFront(s, i)[1] = s[i]
<1> DEFINE F == ToFront(s, i)
           Old(j) == IF j = 1 THEN i ELSE IF j <= i THEN j - 1 ELSE j
<1>1. s \in Seq(Buffer) /\ DOMAIN s = 1..Len(s) /\ Len(s) \in Nat
  BY DEF Chain
<1>2. \A j \in 1..Len(s) : Old(j) \in 1..Len(s) /\ F[j] = s[Old(j)]
  BY <1>1 DEF ToFront
<1>3. F \in [1..Len(s) -> Buffer]
  BY <1>1, <1>2 DEF ToFront
<1>4. F \in Seq(Buffer) /\ Len(F) = Len(s)
  BY <1>1, <1>3
<1>5. \A j, k \in 1..Len(s) : j # k => Old(j) # Old(k)
  BY <1>1
<1>6. Unique(F)
  <2> SUFFICES ASSUME NEW j \in 1..Len(s), NEW k \in 1..Len(s), j # k, F[j].block = F[k].block
               PROVE  F[j].block = -1
    BY <1>4 DEF Unique
  <2>1. Old(j) \in 1..Len(s) /\ Old(k) \in 1..Len(s) /\ Old(j) # Old(k)
    BY <1>2, <1>5
  <2>2. F[j] = s[Old(j)] /\ F[k] = s[Old(k)]
    BY <1>2
  <2> QED BY <2>1, <2>2 DEF Chain, Unique
<1>7. \A j \in 1..Len(F) : Good(F[j])
  BY <1>2, <1>4 DEF Chain
<1>8. F[1] = s[i]
  BY <1>1, <1>2
<1> QED BY <1>4, <1>6, <1>7, <1>8 DEF Chain

\* Giving the last buffer to a block that has none.
LEMMA RelabelChain ==
  ASSUME NEW s, Chain(s), s # <<>>, NEW b \in Blocks, \A i \in 1..Len(s) : s[i].block # b
  PROVE  /\ Chain(Relabel(s, b)) /\ Len(Relabel(s, b)) = Len(s)
         /\ Relabel(s, b)[Len(s)] = [block |-> b, data |-> <<>>]
<1> DEFINE R == Relabel(s, b)
           e == [block |-> b, data |-> <<>>]
<1>1. s \in Seq(Buffer) /\ DOMAIN s = 1..Len(s) /\ Len(s) \in Nat \ {0}
  BY DEF Chain
<1>2. e \in Buffer /\ Good(e) /\ e.block = b
  BY SizeAssumption DEF Good, Buffer
<1>3. R \in Seq(Buffer) /\ Len(R) = Len(s) /\ R[Len(s)] = e
      /\ \A i \in 1..Len(s) : i # Len(s) => R[i] = s[i]
  BY <1>1, <1>2 DEF Relabel
<1>4. \A i \in 1..Len(R) : Good(R[i])
  BY <1>1, <1>2, <1>3 DEF Chain
<1>5. Unique(R)
  BY <1>1, <1>2, <1>3 DEF Chain, Unique
<1> QED BY <1>3, <1>4, <1>5 DEF Chain

\* Allocating a buffer for a block that has none.
LEMMA AppendChain ==
  ASSUME NEW s, Chain(s), NEW b \in Blocks, \A i \in 1..Len(s) : s[i].block # b
  PROVE  LET e == [block |-> b, data |-> <<>>] IN
           Chain(Append(s, e)) /\ Len(Append(s, e)) = Len(s) + 1
           /\ Append(s, e)[Len(s) + 1] = e
<1> DEFINE e == [block |-> b, data |-> <<>>]
           A == Append(s, e)
<1>1. s \in Seq(Buffer) /\ DOMAIN s = 1..Len(s) /\ Len(s) \in Nat
  BY DEF Chain
<1>2. e \in Buffer /\ Good(e) /\ e.block = b
  BY SizeAssumption DEF Good, Buffer
<1>3. A \in Seq(Buffer) /\ Len(A) = Len(s) + 1 /\ A[Len(s) + 1] = e
      /\ \A i \in 1..Len(s) : A[i] = s[i]
  BY <1>1, <1>2
<1>4. \A i \in 1..Len(A) : Good(A[i])
  BY <1>1, <1>2, <1>3 DEF Chain
<1>5. Unique(A)
  BY <1>1, <1>2, <1>3 DEF Chain, Unique
<1> QED BY <1>3, <1>4, <1>5 DEF Chain

\* Allocating empty buffers.
LEMMA GrownChain ==
  ASSUME NEW s, Chain(s), NEW n \in Nat
  PROVE  LET g == s \o [i \in 1..n |-> Empty] IN Chain(g) /\ Len(g) = Len(s) + n
<1> DEFINE E == [i \in 1..n |-> Empty]
           G == s \o E
<1>1. s \in Seq(Buffer) /\ DOMAIN s = 1..Len(s) /\ Len(s) \in Nat
  BY DEF Chain
<1>2. Empty \in Buffer /\ Good(Empty) /\ Empty.block = -1
  BY SizeAssumption DEF Good, Buffer, Blocks, Empty
<1>3. E \in Seq(Buffer) /\ Len(E) = n
  BY <1>2
<1>4. G \in Seq(Buffer) /\ Len(G) = Len(s) + n
      /\ (\A i \in 1..Len(s) : G[i] = s[i])
      /\ \A i \in 1..Len(G) : i > Len(s) => G[i] = Empty
  BY <1>1, <1>3
<1>5. \A i \in 1..Len(G) : Good(G[i])
  BY <1>1, <1>2, <1>4 DEF Chain
<1>6. Unique(G)
  BY <1>1, <1>2, <1>4 DEF Chain, Unique
<1> QED BY <1>4, <1>5, <1>6 DEF Chain

\* Taking all buffers from their blocks.
LEMMA EmptyChain ==
  ASSUME NEW n \in Nat
  PROVE  Chain([i \in 1..n |-> Empty]) /\ Len([i \in 1..n |-> Empty]) = n
<1>1. Empty \in Buffer /\ Good(Empty) /\ Empty.block = -1
  BY SizeAssumption DEF Good, Buffer, Blocks, Empty
<1>2. [i \in 1..n |-> Empty] \in Seq(Buffer) /\ Len([i \in 1..n |-> Empty]) = n
  BY <1>1
<1> QED BY <1>1, <1>2 DEF Chain, Unique

LEMMA FunctionSeq ==
  ASSUME NEW S, NEW n \in Nat, NEW f \in [1..n -> S]
  PROVE  f \in Seq(S) /\ Len(f) = n
OBVIOUS

\* What read () adds to a buffer whose data end where the descriptor is.
LEMMA FilledData ==
  ASSUME NEW d \in Seq(Nat), NEW n \in Nat, NEW p \in Nat
  PROVE  /\ Filled(d, p, n) \in Seq(Nat) /\ Len(Filled(d, p, n)) = Len(d) + n
         /\ \A k \in 1..(Len(d) + n) :
              Filled(d, p, n)[k] = IF k <= Len(d) THEN d[k] ELSE p + (k - Len(d)) - 1
<1> DEFINE f == Filled(d, p, n)
<1>1. f = [k \in 1..(Len(d) + n) |-> IF k <= Len(d) THEN d[k] ELSE p + (k - Len(d)) - 1]
  BY DEF Filled
<1>2. f \in [1..(Len(d) + n) -> Nat]
  <2>1. ASSUME NEW k \in 1..(Len(d) + n), k <= Len(d) PROVE d[k] \in Nat
    BY <2>1
  <2>2. ASSUME NEW k \in 1..(Len(d) + n), ~ k <= Len(d) PROVE p + (k - Len(d)) - 1 \in Nat
    BY <2>2
  <2> QED BY <1>1, <2>1, <2>2
<1>3. Len(d) + n \in Nat
  OBVIOUS
<1> HIDE DEF f
<1>4. f \in Seq(Nat) /\ Len(f) = Len(d) + n
  BY <1>2, <1>3, FunctionSeq
<1> QED BY <1>1, <1>4 DEF f

LEMMA SetData ==
  ASSUME NEW r \in Buffer, NEW d
  PROVE  [r EXCEPT !.data = d] = [block |-> r.block, data |-> d]
BY DEF Buffer

\* A chain whose i-th buffer holds d.
WithData(s, i, d) == [s EXCEPT ![i].data = d]

\* Giving a buffer more of its block.
LEMMA DataChain ==
  ASSUME NEW s, Chain(s), NEW i \in 1..Len(s), NEW d \in Seq(Nat),
         Good([block |-> s[i].block, data |-> d])
  PROVE  /\ Chain(WithData(s, i, d)) /\ Len(WithData(s, i, d)) = Len(s)
         /\ WithData(s, i, d)[i] = [block |-> s[i].block, data |-> d]
<1> DEFINE e == [block |-> s[i].block, data |-> d]
           T == WithData(s, i, d)
<1>1. s \in Seq(Buffer) /\ DOMAIN s = 1..Len(s) /\ Len(s) \in Nat /\ s[i] \in Buffer
  BY DEF Chain
<1>2. e \in Buffer /\ Good(e) /\ e.block = s[i].block
  BY <1>1 DEF Buffer
<1>3. T = [s EXCEPT ![i] = e]
  <2>1. [s[i] EXCEPT !.data = d] = e
    BY <1>1, SetData
  <2>2. T = [s EXCEPT ![i] = [s[i] EXCEPT !.data = d]]
    BY <1>1 DEF WithData
  <2> QED BY <2>1, <2>2
<1>4. T \in Seq(Buffer) /\ Len(T) = Len(s) /\ T[i] = e
      /\ \A j \in 1..Len(s) : j # i => T[j] = s[j]
  BY <1>1, <1>2, <1>3
<1>5. \A j \in 1..Len(T) : Good(T[j])
  BY <1>1, <1>2, <1>4 DEF Chain
<1>6. \A j \in 1..Len(s) : T[j].block = s[j].block
  BY <1>2, <1>4
<1>7. Unique(T)
  BY <1>4, <1>6 DEF Chain, Unique
<1> QED BY <1>4, <1>5, <1>7 DEF Chain

------------------------------------------------------------------------------
(* The steps                                                                *)

\* A chain is what TypeOK says of the buffers.
LEMMA ChainType ==
  ASSUME NEW s, Chain(s)
  PROVE  /\ s \in Seq([block : Nat \cup {-1}, data : Seq(Nat)])
         /\ DOMAIN s = 1..Len(s) /\ Len(s) \in Nat
         /\ \A i \in DOMAIN s : Len(s[i].data) <= LBUFSIZE
         /\ \A i \in 1..Len(s) : s[i].block \in Blocks /\ s[i].data \in Seq(Nat)
                                 /\ s[i].block * LBUFSIZE \in Int
<1>1. s \in Seq(Buffer) /\ DOMAIN s = 1..Len(s) /\ Len(s) \in Nat
  BY DEF Chain
<1>2. \A i \in 1..Len(s) : s[i] \in Buffer
  BY <1>1
<1>3. \A i \in 1..Len(s) : s[i].block * LBUFSIZE \in Int
  <2> SUFFICES ASSUME NEW i \in 1..Len(s) PROVE s[i].block * LBUFSIZE \in Int
    OBVIOUS
  <2>1. s[i].block \in Int
    BY <1>2 DEF Buffer, Blocks
  <2> QED BY <2>1, SizeAssumption
<1> QED BY <1>1, <1>2, <1>3 DEF Chain, Good, Buffer, Blocks

\* What TypeOK says of the buffers.
BufsOK ==
  /\ bufs \in Seq([block : Nat \cup {-1}, data : Seq(Nat)])
  /\ \A i \in DOMAIN bufs : Len(bufs[i].data) <= LBUFSIZE

LEMMA ChainBufs == Chain(bufs') => BufsOK' /\ Len(bufs') \in Nat
BY ChainType DEF BufsOK

LEMMA InitInv == Init => IInv
<1> SUFFICES ASSUME Init PROVE IInv
  OBVIOUS
<1>1. Chain(<<>>)
  BY DEF Chain, Unique
<1>2. BufsOK
  BY <1>1, ChainType DEF Init, BufsOK
<1>3. 0 \in 0..(LBUFSIZE - 1) /\ size \in Nat
  BY SizeAssumption DEF Init
<1>4. canseek \in BOOLEAN /\ fsize \in Nat \cup {NULL_POSITION}
  BY <1>3 DEF Init, Seekable
<1>5. autobuf \in BOOLEAN /\ cbufs \in (Nat \ {0}) \cup {-1}
  BY CbufsAssumption, OptionAssumption DEF Init
<1>6. TypeOK
  <2>1. bp \in 0..Len(bufs) /\ (pc \in {"more", "read"} <=> bp # 0)
    BY DEF Init
  <2>2. c \in Nat \cup {Lost} \cup Ends /\ block \in Nat \cup {-1}
    BY DEF Init
  <2> QED BY <1>2, <1>3, <1>4, <1>5, <2>1, <2>2 DEF Init, TypeOK, BufsOK
<1> QED BY <1>1, <1>6 DEF Init, IInv, Progress, AnswerRight

LEMMA FoundInv == ASSUME IInv, Found PROVE IInv'
<1> USE DEF IInv
<1> PICK i \in DOMAIN bufs : /\ Holds(i) /\ offset < Len(bufs[i].data)
                             /\ bufs' = ToFront(bufs, i) /\ Return(bufs[i].data[offset + 1])
  BY DEF Found
<1>1. i \in 1..Len(bufs) /\ bufs[i].block = block /\ bufs[i].data \in Seq(Nat)
  BY ChainType DEF Holds
<1>2. Chain(bufs')
  BY <1>1, FrontChain
<1>3. bufs[i].data[offset + 1] \in Nat
      /\ bufs[i].data[offset + 1] = block * LBUFSIZE + offset
  <2>1. offset + 1 \in 1..Len(bufs[i].data) /\ offset \in Nat
    BY <1>1, SizeAssumption DEF TypeOK
  <2>2. bufs[i].data[offset + 1] = block * LBUFSIZE + (offset + 1) - 1
    BY <1>1, <2>1 DEF Chain, Good
  <2>3. block * LBUFSIZE \in Int
    BY <1>1, ChainType
  <2> QED BY <1>1, <2>1, <2>2, <2>3
<1>4. BufsOK'
  BY <1>2, ChainType DEF BufsOK
<1>6. bp' \in 0..Len(bufs') /\ bp' = 0
  BY <1>2, ChainType DEF Return
<1>7. TypeOK'
  BY <1>3, <1>4, <1>6 DEF BufsOK, Found, Return, TypeOK, input, options, pointer, caller
<1>5. AnswerRight'
  BY <1>3 DEF AnswerRight, Found, Return, EOI, Lost, ch_tell, pointer
<1> QED BY <1>2, <1>5, <1>7 DEF Progress, Found, Return, pointer

LEMMA NeedMoreInv == ASSUME IInv, NeedMore PROVE IInv'
<1> USE DEF IInv
<1>1. Chain(bufs') /\ bp' \in 1..Len(bufs) /\ bufs[bp'].block = block
      /\ offset >= Len(bufs[bp'].data)
  BY ChainType DEF NeedMore, Holds
<1>2. TypeOK'
  BY <1>1, ChainType DEF NeedMore, TypeOK, input, options, pointer, caller
<1> QED BY <1>1, <1>2 DEF Progress, AnswerRight, NeedMore, pointer

LEMMA TakeBufferInv == ASSUME IInv, TakeBuffer PROVE IInv'
<1> USE DEF IInv
<1> DEFINE e == [block |-> block, data |-> <<>>]
<1>1. block \in Blocks /\ Len(bufs) \in Nat /\ DOMAIN bufs = 1..Len(bufs)
      /\ \A i \in 1..Len(bufs) : bufs[i].block # block
  BY ChainType DEF TakeBuffer, buffered, TypeOK, Blocks
<1>2. bufs = <<>> => WantsBuffer
  BY DEF WantsBuffer, TypeOK
<1>3. Chain(bufs') /\ Len(bufs') \in Nat \ {0} /\ bufs'[Len(bufs')] = e
  <2>1. CASE bufs' = Append(bufs, e)
    BY <1>1, <2>1, AppendChain
  <2>2. CASE bufs' = Relabel(bufs, block) /\ bufs # <<>>
    <3>1. Len(bufs) # 0
      BY <2>2 DEF Chain
    <3> QED BY <1>1, <2>2, <3>1, RelabelChain
  <2> QED BY <1>2, <2>1, <2>2 DEF TakeBuffer
<1>4. bp' \in 1..Len(bufs') /\ bp' = Len(bufs')
  BY <1>3 DEF TakeBuffer
<1>5. TypeOK'
  <2>1. BufsOK'
    BY <1>3, ChainType DEF BufsOK
  <2>2. bp' \in 0..Len(bufs') /\ bp' # 0
    BY <1>3, <1>4
  <2>3. autobuf' \in BOOLEAN
    BY DEF TakeBuffer, TypeOK
  <2> QED BY <2>1, <2>2, <2>3 DEF BufsOK, TakeBuffer, TypeOK, input, pointer, caller
<1>6. bufs'[bp'].block = block /\ Len(bufs'[bp'].data) = 0
  BY <1>3, <1>4
<1> QED BY <1>3, <1>5, <1>6 DEF Progress, AnswerRight, TakeBuffer, TypeOK, pointer, options

\* What is known of the buffer fch_get works on.
LEMMA Working ==
  ASSUME IInv, pc \in {"more", "read"}
  PROVE  /\ bp \in 1..Len(bufs) /\ Len(bufs[bp].data) \in Nat /\ offset \in Nat
         /\ block * LBUFSIZE \in Int /\ Pos = block * LBUFSIZE + Len(bufs[bp].data)
         /\ Pos \in Int /\ ch_tell >= Pos /\ koff = fpos
<1>1. bp \in 1..Len(bufs)
  BY ChainType DEF IInv, TypeOK
<1>2. bufs[bp].block = block /\ offset >= Len(bufs[bp].data) /\ koff = fpos
  BY DEF IInv, Progress
<1>3. Len(bufs[bp].data) \in Nat /\ block * LBUFSIZE \in Int /\ offset \in Nat
  BY <1>1, <1>2, ChainType, SizeAssumption DEF IInv, TypeOK
<1> QED BY <1>1, <1>2, <1>3 DEF Pos, ch_tell

LEMMA MoreEndInv == ASSUME IInv, MoreEnd PROVE IInv'
<1>1. fsize # NULL_POSITION /\ Pos >= fsize /\ fsize \in Nat
  BY DEF MoreEnd, AtEnd, ch_length, IInv, TypeOK
<1>2. ch_tell >= fsize
  <2>1. Pos \in Int /\ ch_tell >= Pos /\ ch_tell \in Int
    BY Working DEF MoreEnd, ch_tell
  <2> QED BY <1>1, <2>1
<1>3. AnswerRight'
  BY <1>1, <1>2 DEF MoreEnd, Return, AnswerRight, EOI, Lost, ch_tell, pointer
<1>4. TypeOK'
  BY DEF IInv, MoreEnd, Return, TypeOK, Ends, input, options, pointer, caller
<1>5. UNCHANGED <<bufs, canseek, block>> /\ pc' = "answer" /\ c' = EOI
  BY DEF MoreEnd, Return, pointer
<1> QED BY <1>3, <1>4, <1>5 DEF IInv, Progress

LEMMA MoreLostInv == ASSUME IInv, MoreLost PROVE IInv'
<1>1. TypeOK'
  BY DEF IInv, MoreLost, Return, TypeOK, Ends, Lost, input, options, pointer, caller
<1>2. ASSUME NEW i \in DOMAIN bufs, NEW k \in DOMAIN bufs[i].data, bufs[i].data[k] = ch_tell
      PROVE  FALSE
  <2>1. i \in 1..Len(bufs) /\ bufs[i].block \in Blocks /\ bufs[i].data \in Seq(Nat)
        /\ Good(bufs[i]) /\ bp \in 1..Len(bufs) /\ bufs[bp].block = block
        /\ offset >= Len(bufs[bp].data) /\ Len(bufs[bp].data) \in Nat
    <3>1. Chain(bufs) /\ pc = "more"
      BY DEF IInv, MoreLost
    <3>2. bp \in 1..Len(bufs) /\ Len(bufs[bp].data) \in Nat
      BY <3>1, Working
    <3>3. i \in 1..Len(bufs) /\ bufs[i].block \in Blocks /\ bufs[i].data \in Seq(Nat)
      BY <1>2, <3>1, ChainType
    <3>4. bufs[bp].block = block /\ offset >= Len(bufs[bp].data)
      BY <3>1 DEF IInv, Progress
    <3> QED BY <3>1, <3>2, <3>3, <3>4 DEF Chain
  <2>2. k \in 1..Len(bufs[i].data) /\ k - 1 \in 0..(LBUFSIZE - 1)
    BY <1>2, <2>1, SizeAssumption, SMTT(30) DEF Good
  <2>3. bufs[i].block * LBUFSIZE + (k - 1) = block * LBUFSIZE + offset
    <3>1. bufs[i].data[k] = bufs[i].block * LBUFSIZE + k - 1
      BY <2>1, <2>2 DEF Good
    <3>2. bufs[i].block * LBUFSIZE \in Int /\ block * LBUFSIZE \in Int
      BY <2>1, ChainType DEF IInv
    <3> QED BY <1>2, <2>2, <3>1, <3>2 DEF ch_tell
  <2>4. bufs[i].block = block /\ k - 1 = offset
    <3>1. block \in Int /\ offset \in 0..(LBUFSIZE - 1) /\ bufs[i].block \in Int
      <4>1. block \in Blocks /\ offset \in 0..(LBUFSIZE - 1)
        BY DEF IInv, TypeOK, Blocks
      <4> QED BY <2>1, <4>1 DEF Blocks
    <3>2. \A a, b \in Int : \A x, y \in 0..(LBUFSIZE - 1) :
            a * LBUFSIZE + x = b * LBUFSIZE + y => a = b /\ x = y
      BY SamePlace
    <3> QED BY <2>2, <2>3, <3>1, <3>2
  <2>5. i # bp
    BY <2>1, <2>2, <2>4
  <2>6. block = -1
    BY <2>1, <2>4, <2>5 DEF IInv, Chain, Unique
  <2> QED BY <2>1, <2>2, <2>4, <2>6 DEF Good
<1>3. AnswerRight'
  BY <1>2 DEF MoreLost, Return, AnswerRight, EOI, Lost, ch_tell, pointer
<1>4. koff = fpos
  BY DEF IInv, Progress, MoreLost
<1> QED BY <1>1, <1>3, <1>4 DEF IInv, Progress, MoreLost, Return, Lost, EOI

LEMMA MoreSeekErrorInv == ASSUME IInv, MoreSeekError PROVE IInv'
<1>1. AnswerRight'
  BY DEF MoreSeekError, Return, AnswerRight, EOI, Lost, SeekError
<1>2. TypeOK'
  BY DEF IInv, MoreSeekError, Return, TypeOK, Ends, input, options, pointer, caller
<1>3. /\ UNCHANGED <<bufs, canseek, block, koff, fpos>> /\ pc' = "answer" /\ c' = SeekError
      /\ koff = fpos
  BY DEF IInv, Progress, MoreSeekError, Return, pointer
<1> QED BY <1>1, <1>2, <1>3 DEF IInv, Progress

LEMMA MoreReadInv == ASSUME IInv, MoreRead PROVE IInv'
<1>1. Pos \in Nat
  <2>1. CASE Pos = fpos
    BY <2>1 DEF IInv, TypeOK
  <2>2. CASE canseek
    <3>1. block \in Nat
      BY <2>2 DEF IInv, TypeOK
    <3>2. block * LBUFSIZE \in Nat
      BY <3>1, SizeAssumption
    <3> QED BY <3>2, Working DEF MoreRead
  <2> QED BY <2>1, <2>2 DEF MoreRead
<1>2. koff' = Pos /\ fpos' = Pos /\ Pos' = Pos
  BY Working DEF MoreRead, Pos
<1>3. TypeOK'
  BY <1>1, <1>2 DEF IInv, MoreRead, TypeOK, input, options, pointer, caller
<1>4. /\ bufs[bp].block = block /\ offset >= Len(bufs[bp].data)
      /\ Chain(bufs) /\ (canseek => block # -1)
  BY DEF IInv, Progress, MoreRead
<1>5. UNCHANGED <<bufs, bp, block, offset, canseek>> /\ pc' = "read"
  BY DEF MoreRead, pointer
<1> QED BY <1>2, <1>3, <1>4, <1>5 DEF IInv, Progress, AnswerRight

LEMMA ReadDataInv == ASSUME IInv, ReadData PROVE IInv'
<1> DEFINE m == Len(bufs[bp].data)
           d == Filled(bufs[bp].data, koff, Count)
           s == WithData(bufs, bp, d)
           e == [block |-> block, data |-> d]
           B == block * LBUFSIZE
<1>1. Chain(bufs) /\ bp \in 1..Len(bufs) /\ m \in Nat /\ offset \in Nat
      /\ koff = fpos /\ koff \in Nat /\ koff = B + m /\ bufs[bp].block = block
      /\ B \in Int /\ size \in Nat
  BY Working, SizeAssumption DEF ReadData, IInv, TypeOK, Progress, Pos
<1>2. Count \in Nat \ {0} /\ m + Count <= LBUFSIZE
  <2>1. LBUFSIZE - m \in Int /\ size - koff \in Int
    BY <1>1, SizeAssumption
  <2>2. Count = IF LBUFSIZE - m <= size - koff THEN LBUFSIZE - m ELSE size - koff
    BY DEF Count, Min2
  <2>3. Count > 0
    BY DEF ReadData
  <2> HIDE DEF m
  <2> QED BY <1>1, <2>1, <2>2, <2>3, SizeAssumption
<1>3. bufs[bp].data \in Seq(Nat) /\ Good(bufs[bp])
  BY <1>1, ChainType DEF Chain
<1>4. /\ d \in Seq(Nat) /\ Len(d) = m + Count
      /\ \A k \in 1..(m + Count) : d[k] = IF k <= m THEN bufs[bp].data[k]
                                         ELSE koff + (k - m) - 1
  BY <1>1, <1>2, <1>3, FilledData, ZenonT(60)
<1> HIDE DEF d
<1>5. \A k \in 1..Len(d) : d[k] = B + k - 1
  <2> SUFFICES ASSUME NEW k \in 1..(m + Count) PROVE d[k] = B + k - 1
    BY <1>4
  <2>1. k <= m => bufs[bp].data[k] = B + k - 1
    <3>1. k <= m => k \in 1..Len(bufs[bp].data)
      BY <1>1, <1>2
    <3> QED BY <1>1, <1>3, <3>1 DEF Good
  <2> HIDE DEF m, B
  <2> QED BY <1>1, <1>2, <1>4, <2>1
<1>6. block # -1
  <2>1. block = -1 => m = 0 /\ B = -LBUFSIZE
    BY <1>1, <1>3, SizeAssumption DEF Good
  <2> HIDE DEF m, B
  <2> QED BY <1>1, <2>1, SizeAssumption
<1>7. Good(e)
  BY <1>2, <1>4, <1>5, <1>6 DEF Good
<1>8. Chain(s) /\ Len(s) = Len(bufs) /\ s[bp] = e
  <2>1. e = [block |-> bufs[bp].block, data |-> d]
    BY <1>1
  <2>2. Good([block |-> bufs[bp].block, data |-> d])
    BY <1>7, <2>1
  <2>3. Chain(bufs) /\ bp \in 1..Len(bufs) /\ d \in Seq(Nat)
    BY <1>1, <1>4
  <2> QED BY <2>1, <2>2, <2>3, DataChain
<1>9. bufs' = ToFront(s, bp)
  BY DEF ReadData, WithData, d
<1> HIDE DEF s
<1>10. Chain(bufs') /\ Len(bufs') = Len(bufs) /\ bufs'[1] = e
  BY <1>1, <1>8, <1>9, FrontChain
<1>11. BufsOK' /\ Len(bufs') \in Nat /\ Len(bufs') >= 1
  BY <1>1, <1>10, ChainBufs
<1>12. fpos' = fpos + Count /\ koff' = koff + Count /\ koff' \in Nat /\ koff' = fpos'
  BY <1>1, <1>2 DEF ReadData
<1>13. /\ UNCHANGED <<kind, size, ended, canseek, fsize, block, offset, autobuf, cbufs,
                      ignore_eoi, sigs, op, target>>
  BY DEF ReadData, input, pointer, options, caller
<1>14. CASE offset < Len(d)
  <2>1. c' = d[offset + 1] /\ pc' = "answer" /\ bp' = 0
    BY <1>14 DEF ReadData, Return, d
  <2>2. c' \in Nat /\ c' = B + offset
    <3> HIDE DEF m, B
    <3>1. offset + 1 \in 1..Len(d)
      BY <1>1, <1>2, <1>4, <1>14
    <3>2. d[offset + 1] = B + (offset + 1) - 1 /\ d[offset + 1] \in Nat
      BY <1>4, <1>5, <3>1
    <3> QED BY <1>1, <2>1, <3>2
  <2>3. TypeOK'
    BY <1>11, <1>12, <1>13, <2>1, <2>2 DEF BufsOK, IInv, TypeOK
  <2>4. AnswerRight'
    BY <1>13, <2>1, <2>2 DEF AnswerRight, EOI, Lost, ch_tell
  <2> QED BY <1>10, <1>12, <1>13, <2>1, <2>3, <2>4 DEF IInv, Progress
<1>15. CASE ~ offset < Len(d)
  <2>1. c' = c /\ pc' = "more" /\ bp' = 1
    BY <1>15 DEF ReadData, d
  <2>2. TypeOK'
    BY <1>11, <1>12, <1>13, <2>1 DEF BufsOK, IInv, TypeOK
  <2>3. bufs'[bp'].block = block' /\ offset' >= Len(bufs'[bp'].data)
    BY <1>1, <1>4, <1>10, <1>13, <1>15, <2>1
  <2> QED BY <1>10, <1>12, <1>13, <2>1, <2>2, <2>3 DEF IInv, Progress, AnswerRight
<1> QED BY <1>14, <1>15

LEMMA ReadNothingInv == ASSUME IInv, ReadNothing PROVE IInv'
<1>1. Chain(bufs) /\ bp \in 1..Len(bufs) /\ koff = fpos /\ Pos = fpos /\ fpos \in Nat
      /\ bufs[bp].block = block /\ offset >= Len(bufs[bp].data)
  BY Working DEF ReadNothing, IInv, TypeOK, Progress
<1>2. CASE sigs # "none"
  <2>1. c' = EOI /\ pc' = "answer" /\ bp' = 0 /\ bufs' = bufs /\ fsize' = fpos
    BY <1>1, <1>2 DEF ReadNothing, Return
  <2>2. TypeOK'
    BY <1>1, <2>1 DEF IInv, ReadNothing, TypeOK, Ends, input, options, pointer, caller
  <2>3. AnswerRight'
    BY <1>2, <2>1 DEF ReadNothing, AnswerRight, EOI, Lost
  <2> QED BY <1>1, <2>1, <2>2, <2>3 DEF IInv, Progress, ReadNothing, EOI, pointer
<1>3. CASE sigs = "none"
  <2>1. c' = c /\ pc' = "more" /\ bp' = 1 /\ bufs' = ToFront(bufs, bp) /\ fsize' = fpos
    BY <1>1, <1>3 DEF ReadNothing
  <2>2. Chain(bufs') /\ Len(bufs') = Len(bufs) /\ bufs'[1] = bufs[bp]
    BY <1>1, <2>1, FrontChain
  <2>3. TypeOK'
    BY <1>1, <2>1, <2>2, ChainType, SMTT(30) DEF IInv, ReadNothing, TypeOK, input, options, pointer,
       caller
  <2> QED BY <1>1, <2>1, <2>2, <2>3 DEF IInv, Progress, AnswerRight, ReadNothing, pointer
<1> QED BY <1>2, <1>3

LEMMA ReadInterruptedInv == ASSUME IInv, ReadInterrupted PROVE IInv'
<1>1. c' = EOI /\ pc' = "answer" /\ bp' = 0 /\ sigs' \in {"winch", "abort"}
  BY DEF ReadInterrupted, Return
<1>2. koff' \in Nat
  <2>1. Len(bufs[bp].data) \in Nat
    BY Working DEF ReadInterrupted
  <2>2. Count \in Int
    BY <2>1, SizeAssumption DEF Count, Min2, IInv, TypeOK
  <2> QED BY <2>2 DEF ReadInterrupted, IInv, TypeOK
<1>3. TypeOK'
  BY <1>1, <1>2 DEF IInv, ReadInterrupted, TypeOK, Ends, input, options, pointer, caller
<1>4. AnswerRight'
  BY <1>1 DEF AnswerRight, EOI, Lost
<1> QED BY <1>1, <1>3, <1>4 DEF IInv, Progress, ReadInterrupted, EOI, pointer

LEMMA AnswerInv == ASSUME IInv, Answer PROVE IInv'
<1>1. /\ block' \in Blocks /\ offset' \in 0..(LBUFSIZE - 1)
      /\ block # -1 => block' # -1
  BY SizeAssumption DEF Answer, Advance, IInv, TypeOK, Blocks, pointer
<1>2. /\ pc' \in {"idle", "find"} /\ (pc' = "find" => c \notin Ends)
      /\ op' \in {"none", "forw", "back", "seek", "end"} /\ target' \in Nat
  BY DEF Answer, Over, IInv, TypeOK, caller
<1>3. bp = 0 /\ (pc' = "find" => koff = fpos)
  BY <1>2 DEF Ends, Answer, IInv, TypeOK, Progress
<1>4. UNCHANGED <<kind, size, ended, koff, canseek, fpos, fsize, bufs, autobuf, cbufs,
                  ignore_eoi, sigs, bp>> /\ c' = 0
  BY DEF Answer, input, options
<1>5. TypeOK'
  BY <1>1, <1>2, <1>3, <1>4 DEF IInv, TypeOK, Blocks
<1> QED BY <1>1, <1>2, <1>3, <1>4, <1>5 DEF IInv, Progress, AnswerRight

\* An operation that moves the read pointer or calls fch_get.
LEMMA OperationInv ==
  ASSUME IInv, pc = "idle", koff = fpos,
         UNCHANGED <<kind, size, ended, koff, canseek, fpos, bufs, autobuf, cbufs, ignore_eoi,
                     sigs, bp, c>>,
         fsize' \in Nat \cup {NULL_POSITION},
         block' \in Blocks, canseek => block' # -1, offset' \in 0..(LBUFSIZE - 1),
         pc' \in {"idle", "find"}, op' \in {"none", "forw", "back", "seek", "end"},
         target' \in Nat
  PROVE  IInv'
<1>1. bp = 0
  BY DEF IInv, TypeOK
<1>2. TypeOK'
  BY <1>1 DEF IInv, TypeOK, Blocks
<1> QED BY <1>1, <1>2 DEF IInv, Progress, AnswerRight

\* What is known when an operation begins.
LEMMA Begin ==
  ASSUME IInv, ~GoesOn, Ready
  PROVE  /\ pc = "idle" /\ koff = fpos /\ fsize \in Nat \cup {NULL_POSITION}
         /\ block \in Blocks /\ (canseek => block # -1) /\ offset \in 0..(LBUFSIZE - 1)
         /\ op \in {"none", "forw", "back", "seek", "end"} /\ target \in Nat
         /\ size \in Nat /\ filesize \in Nat
BY SizeAssumption DEF Ready, IInv, TypeOK, Blocks, filesize

\* A read pointer that is set to a position is one.
LEMMA PointAtPlace ==
  ASSUME NEW p \in Nat, PointAt(p)
  PROVE  block' \in Blocks /\ block' # -1 /\ offset' \in 0..(LBUFSIZE - 1)
BY DivMod DEF PointAt, Blocks

LEMMA SeekInv == ASSUME IInv, ~GoesOn, Seek PROVE IInv'
<1> PICK p \in 0..(IF ignore_eoi THEN size ELSE MaxSize) : ch_seek(p)
  BY DEF Seek
<1>1. p \in Nat
  OBVIOUS
<1>2. UNCHANGED <<kind, size, ended, koff, canseek, fpos, fsize, bufs, autobuf, cbufs,
                  ignore_eoi, sigs, bp, c>> /\ Ready
  BY DEF Seek, input, options
<1>3. CASE UNCHANGED <<pointer, pc, caller>>
  BY <1>2, <1>3, Begin, OperationInv DEF pointer, caller
<1>4. CASE Call("seek", p) /\ UNCHANGED pointer
  BY <1>1, <1>2, <1>4, Begin, OperationInv DEF Call, pointer
<1>5. CASE PointAt(p) /\ UNCHANGED <<pc, caller>>
  BY <1>1, <1>2, <1>5, Begin, PointAtPlace, OperationInv DEF caller
<1> QED BY <1>3, <1>4, <1>5 DEF ch_seek

LEMMA EndSeekInv == ASSUME IInv, ~GoesOn, ch_end_seek PROVE IInv'
<1>1. UNCHANGED <<kind, size, ended, koff, canseek, fpos, bufs, autobuf, cbufs,
                  ignore_eoi, sigs, bp, c>> /\ Ready
  BY DEF ch_end_seek, input, options
<1>2. fsize' \in Nat \cup {NULL_POSITION}
  BY <1>1, Begin DEF ch_end_seek
<1>3. CASE Call("end", 0) /\ UNCHANGED pointer
  BY <1>1, <1>2, <1>3, Begin, OperationInv DEF Call, pointer
<1>4. CASE UNCHANGED <<pointer, pc, caller>>
  BY <1>1, <1>2, <1>4, Begin, OperationInv DEF pointer, caller
<1>5. CASE fsize' \in Nat /\ Call("seek", fsize') /\ UNCHANGED pointer
  BY <1>1, <1>2, <1>5, Begin, OperationInv DEF Call, pointer
<1>6. CASE fsize' \in Nat /\ PointAt(fsize') /\ UNCHANGED <<pc, caller>>
  <2>1. block' \in Blocks /\ block' # -1 /\ offset' \in 0..(LBUFSIZE - 1)
    BY <1>6, PointAtPlace
  <2> QED BY <1>1, <1>2, <1>6, <2>1, Begin, OperationInv DEF caller
<1> QED BY <1>2, <1>3, <1>4, <1>5, <1>6 DEF ch_end_seek

LEMMA BegSeekInv == ASSUME IInv, ~GoesOn, ch_beg_seek PROVE IInv'
<1>1. UNCHANGED <<kind, size, ended, koff, canseek, fpos, fsize, bufs, autobuf, cbufs,
                  ignore_eoi, sigs, pc, op, target, bp, c>> /\ Ready
  BY DEF ch_beg_seek, input, options, caller
<1>2. 0 \in 0..(LBUFSIZE - 1)
  BY SizeAssumption
<1>3. block' \in Blocks /\ (canseek => block' # -1) /\ offset' \in 0..(LBUFSIZE - 1)
  <2>1. CASE PointAt(0)
    BY <2>1, PointAtPlace
  <2>2. CASE UNCHANGED pointer
    BY <1>1, <2>2, Begin DEF pointer
  <2>3. ASSUME Slow(0), NEW i \in DOMAIN bufs, block' = bufs[i].block, offset' = 0
        PROVE  block' \in Blocks /\ (canseek => block' # -1) /\ offset' \in 0..(LBUFSIZE - 1)
    BY <1>2, <2>3, ChainType DEF Slow, IInv
  <2> QED BY <2>1, <2>2, <2>3 DEF ch_beg_seek
<1> QED BY <1>1, <1>3, Begin, OperationInv

LEMMA ForwGetInv == ASSUME IInv, ~GoesOn, ch_forw_get PROVE IInv'
<1>1. UNCHANGED <<kind, size, ended, koff, canseek, fpos, fsize, block, offset, bufs, autobuf,
                  cbufs, ignore_eoi, sigs, bp, c>> /\ Ready
      /\ pc' = "find" /\ op' = "forw" /\ target' = 0
  BY DEF ch_forw_get, Call, input, options, pointer
<1> QED BY <1>1, Begin, OperationInv

LEMMA BackGetInv == ASSUME IInv, ~GoesOn, ch_back_get PROVE IInv'
<1>1. UNCHANGED <<kind, size, ended, koff, canseek, fpos, fsize, bufs, autobuf, cbufs,
                  ignore_eoi, sigs, bp, c>> /\ Ready
      /\ pc' = "find" /\ op' = "back" /\ target' = 0
  BY DEF ch_back_get, Call, input, options
<1>2. block' \in Blocks /\ (canseek => block' # -1) /\ offset' \in 0..(LBUFSIZE - 1)
  BY <1>1, Begin, SizeAssumption DEF ch_back_get, Blocks
<1> QED BY <1>1, <1>2, Begin, OperationInv

\* The buffers are emptied, and the descriptor goes back to the beginning.
LEMMA FlushInv ==
  ASSUME IInv, NEW s, ch_flush(s), Chain(s), pc = "idle",
         UNCHANGED <<kind, size, ended, autobuf, cbufs, ignore_eoi, sigs, pc, op, target, bp, c>>
  PROVE  IInv'
<1>1. filesize \in Nat /\ 0 \in 0..(LBUFSIZE - 1)
  BY SizeAssumption DEF IInv, TypeOK, filesize
<1>2. canseek' \in BOOLEAN /\ fsize' \in Nat \cup {NULL_POSITION} /\ bufs' = s
      /\ fpos' = 0 /\ koff' = 0 /\ block' = 0 /\ offset' = 0
  BY <1>1 DEF ch_flush
<1>3. bp = 0 /\ BufsOK' /\ Len(bufs') \in Nat
  BY <1>2, ChainBufs DEF IInv, TypeOK
<1>4. TypeOK'
  BY <1>1, <1>2, <1>3 DEF IInv, TypeOK, BufsOK
<1> QED BY <1>2, <1>4 DEF IInv, Progress, AnswerRight

LEMMA RepaintInv == ASSUME IInv, Repaint PROVE IInv'
<1>1. Chain([i \in DOMAIN bufs |-> Empty])
  <2>1. DOMAIN bufs = 1..Len(bufs) /\ Len(bufs) \in Nat
    BY ChainType DEF IInv
  <2> QED BY <2>1, EmptyChain
<1> QED BY <1>1, FlushInv DEF Repaint, Ready, input, options, caller

LEMMA EditInv == ASSUME IInv, Edit PROVE IInv'
<1>1. pc = "idle" /\ bp = 0
      /\ UNCHANGED <<kind, size, ended, autobuf, cbufs, ignore_eoi, sigs, pc, op, target, bp, c>>
  BY DEF Edit, Ready, IInv, TypeOK, input, options, caller
<1>2. CASE canseek
  <2>1. Chain(<<>>)
    BY DEF Chain, Unique
  <2>2. ch_flush(<<>>)
    BY <1>2 DEF Edit
  <2> QED BY <1>1, <2>1, <2>2, FlushInv
<1>3. CASE ~canseek
  <2>1. fsize' = NULL_POSITION /\ koff' \in Nat
        /\ UNCHANGED <<canseek, fpos, block, offset, bufs>>
    BY <1>3 DEF Edit, IInv, TypeOK, pointer
  <2>2. TypeOK'
    BY <1>1, <2>1 DEF IInv, TypeOK
  <2> QED BY <1>1, <2>1, <2>2 DEF IInv, Progress, AnswerRight
<1> QED BY <1>2, <1>3

LEMMA SetBuffersInv == ASSUME IInv, SetBuffers PROVE IInv'
<1> PICK n \in 0..MaxBlock : bufs' = bufs \o [i \in 1..n |-> Empty] /\ cbufs' = Len(bufs) + n
  BY DEF SetBuffers
<1>1. n \in Nat
  BY MaxBlockNat
<1>2. Chain(bufs') /\ Len(bufs) \in Nat
  BY <1>1, GrownChain, ChainType DEF IInv
<1>3. BufsOK' /\ Len(bufs') \in Nat
  BY <1>2, ChainBufs
<1>4. cbufs' \in Nat \ {0}
  BY <1>1, <1>2 DEF SetBuffers
<1>5. pc = "idle" /\ bp = 0
  BY DEF SetBuffers, Ready, IInv, TypeOK
<1>6. UNCHANGED <<kind, size, ended, koff, canseek, fpos, fsize, block, offset, autobuf,
                  ignore_eoi, sigs, pc, op, target, bp, c>>
  BY DEF SetBuffers, input, pointer, caller
<1>7. TypeOK'
  BY <1>3, <1>4, <1>5, <1>6 DEF IInv, TypeOK, BufsOK
<1> QED BY <1>2, <1>5, <1>6, <1>7 DEF IInv, Progress, AnswerRight

\* What happens around the buffers.
LEMMA AroundInv ==
  ASSUME IInv,
         UNCHANGED <<kind, koff, canseek, fpos, fsize, block, offset, bufs, autobuf, cbufs, pc,
                     op, target, bp, c>>,
         size' \in 0..MaxSize, ended' \in BOOLEAN, ignore_eoi' \in BOOLEAN,
         sigs' \in {"none", "winch", "abort"}, pc = "idle" \/ (sigs # "none" => sigs' # "none")
  PROVE  IInv'
<1>1. TypeOK'
  BY DEF IInv, TypeOK
<1>2. Pos' = Pos /\ ch_tell' = ch_tell
  BY DEF Pos, ch_tell
<1> QED BY <1>1, <1>2 DEF IInv, Progress, AnswerRight

LEMMA FollowInv == ASSUME IInv, Follow PROVE IInv'
BY AroundInv DEF Follow, IInv, TypeOK, input, pointer, caller

LEMMA PsignalsInv == ASSUME IInv, Psignals PROVE IInv'
BY AroundInv DEF Psignals, IInv, TypeOK, input, pointer, options, caller

LEMMA GrowInv == ASSUME IInv, Grow PROVE IInv'
<1>1. size' \in 0..MaxSize
  BY SizeAssumption DEF Grow, IInv, TypeOK
<1> QED BY <1>1, AroundInv DEF Grow, IInv, TypeOK, pointer, options, caller

LEMMA EndInv == ASSUME IInv, End PROVE IInv'
BY AroundInv DEF End, IInv, TypeOK, pointer, options, caller

LEMMA SignalInv == ASSUME IInv, Signal PROVE IInv'
BY AroundInv DEF Signal, IInv, TypeOK, input, pointer, options, caller

LEMMA StutterInv == ASSUME IInv, UNCHANGED vars PROVE IInv'
BY AroundInv DEF vars, IInv, TypeOK, input, pointer, options, caller

\* Every step keeps the invariant.
LEMMA StepInv == ASSUME IInv, ~GoesOn, [Next]_vars PROVE IInv'
<1>1. CASE fch_get
  BY <1>1, FoundInv, NeedMoreInv, TakeBufferInv, MoreEndInv, MoreLostInv,
     MoreSeekErrorInv, MoreReadInv, ReadDataInv, ReadNothingInv DEF fch_get
<1>2. CASE ReadInterrupted \/ Answer
  BY <1>2, ReadInterruptedInv, AnswerInv
<1>3. CASE Seek \/ ch_end_seek \/ ch_beg_seek \/ ch_forw_get \/ ch_back_get
  BY <1>3, SeekInv, EndSeekInv, BegSeekInv, ForwGetInv, BackGetInv
<1>4. CASE Repaint \/ Edit \/ SetBuffers \/ Follow \/ Psignals
  BY <1>4, RepaintInv, EditInv, SetBuffersInv, FollowInv, PsignalsInv
<1>5. CASE Grow \/ End \/ Signal
  BY <1>5, GrowInv, EndInv, SignalInv
<1>6. CASE UNCHANGED vars
  BY <1>6, StutterInv
<1> QED BY <1>1, <1>2, <1>3, <1>4, <1>5, <1>6 DEF Next

------------------------------------------------------------------------------
(* The theorems                                                             *)

LEMMA Invariance == ASSUME ~GoesOn PROVE Spec => []IInv
<1>1. IInv /\ [Next]_vars => IInv'
  BY StepInv
<1> QED BY <1>1, InitInv, PTL DEF Spec

\* Every variable keeps its type: in particular the read pointer stays within a block, and
\* no buffer gets more than LBUFSIZE bytes (fch_get, ch.c:104).
THEOREM TypeCorrect == ASSUME ~GoesOn PROVE Spec => []TypeOK
<1>1. IInv => TypeOK
  BY DEF IInv
<1> QED BY <1>1, Invariance, PTL

\* The byte fch_get returns is the one at the read pointer, and it says that there is none
\* only when that is so, a signal came or a seek error was told (fch_get, ch.c:104), as long
\* as the descriptor is where ch_fpos says when an operation begins.
THEOREM RightByte == ASSUME ~GoesOn PROVE Spec => []AnswerRight
<1>1. IInv => AnswerRight
  BY DEF IInv
<1> QED BY <1>1, Invariance, PTL
------------------------------------------------------------------------------
(* What was read from a pipe is kept                                        *)

\* The byte at p is in a buffer.
Served(s, p) ==
  \E i \in 1..Len(s) : s[i].block = p \div LBUFSIZE /\ Len(s[i].data) > p % LBUFSIZE
Kept(s, n) == \A p \in 0..(n - 1) : Served(s, p)

\* Nothing is in the buffers that comes after n.
Within(s, n) ==
  \A i \in 1..Len(s) : s[i].block # -1 => s[i].block * LBUFSIZE + Len(s[i].data) <= n

\* The read pointer is in a block that has been read, or the next one.
Reached == block # -1 /\ block * LBUFSIZE <= fpos
Told == pc = "answer" => c # Lost /\ (c # EOI => ch_tell < fpos)

Streaming == ~canseek /\ autobuf
PipeInv == Streaming => Kept(bufs, fpos) /\ Within(bufs, fpos) /\ Reached /\ Told

LEMMA Place ==
  ASSUME NEW p \in Nat
  PROVE  /\ p \div LBUFSIZE \in Nat /\ p % LBUFSIZE \in 0..(LBUFSIZE - 1)
         /\ (p \div LBUFSIZE) * LBUFSIZE \in Nat
         /\ p = (p \div LBUFSIZE) * LBUFSIZE + (p % LBUFSIZE)
<1> USE SizeAssumption
<1>1. p \div LBUFSIZE \in Nat /\ p % LBUFSIZE \in 0..(LBUFSIZE - 1)
  BY DivMod
<1>2. p = (p \div LBUFSIZE) * LBUFSIZE + (p % LBUFSIZE)
  OBVIOUS
<1> QED BY <1>1, <1>2

LEMMA PlaceUnique ==
  ASSUME NEW b \in Nat, NEW o \in 0..(LBUFSIZE - 1), NEW p \in Nat, p = b * LBUFSIZE + o
  PROVE  p \div LBUFSIZE = b /\ p % LBUFSIZE = o
<1>1. /\ p \div LBUFSIZE \in Int /\ p % LBUFSIZE \in 0..(LBUFSIZE - 1)
      /\ (p \div LBUFSIZE) * LBUFSIZE + (p % LBUFSIZE) = b * LBUFSIZE + o
  BY Place
<1> DEFINE a == p \div LBUFSIZE
           x == p % LBUFSIZE
<1> HIDE DEF a, x
<1>2. a = b /\ x = o
  <2>1. a \in Int /\ b \in Int /\ x \in 0..(LBUFSIZE - 1) /\ a * LBUFSIZE + x = b * LBUFSIZE + o
    BY <1>1 DEF a, x
  <2> QED BY <2>1, SamePlace
<1> QED BY <1>2 DEF a, x

\* Moving a buffer to the head loses nothing.
LEMMA FrontKept ==
  ASSUME NEW s \in Seq(Buffer), NEW i \in 1..Len(s), NEW n, Kept(s, n), Within(s, n)
  PROVE  Kept(ToFront(s, i), n) /\ Within(ToFront(s, i), n)
<1> DEFINE F == ToFront(s, i)
           Old(j) == IF j = 1 THEN i ELSE IF j <= i THEN j - 1 ELSE j
           New(j) == IF j = i THEN 1 ELSE IF j < i THEN j + 1 ELSE j
<1>1. DOMAIN s = 1..Len(s) /\ Len(s) \in Nat
  OBVIOUS
<1>2. \A j \in 1..Len(s) : Old(j) \in 1..Len(s) /\ F[j] = s[Old(j)]
  BY <1>1 DEF ToFront
<1>0. Len(F) = Len(s)
  <2>1. F \in [1..Len(s) -> Buffer]
    BY <1>1, <1>2 DEF ToFront
  <2> HIDE DEF F
  <2> QED BY <1>1, <2>1, FunctionSeq
<1>3. \A j \in 1..Len(s) : New(j) \in 1..Len(s) /\ Old(New(j)) = j
  BY <1>1
<1> HIDE DEF F, New, Old
<1>4. \A j \in 1..Len(s) : New(j) \in 1..Len(F) /\ F[New(j)] = s[j]
  BY <1>0, <1>2, <1>3
<1>5. ASSUME NEW p \in 0..(n - 1) PROVE Served(F, p)
  <2>1. PICK j \in 1..Len(s) : s[j].block = p \div LBUFSIZE /\ Len(s[j].data) > p % LBUFSIZE
    BY DEF Kept, Served
  <2> QED BY <2>1, <1>4 DEF Served
<1>6. Within(F, n)
  BY <1>0, <1>2 DEF Within
<1> QED BY <1>5, <1>6 DEF Kept, F

\* Nor does a new buffer, or one that was empty, given to the block after what was read.
LEMMA NextKept ==
  ASSUME NEW s, Chain(s), NEW n, Kept(s, n), Within(s, n),
         NEW b \in Nat, b * LBUFSIZE <= n, NEW r, Chain(r), Len(s) <= Len(r),
         \A i \in 1..Len(s) : r[i] = s[i] \/ s[i].block = -1,
         \A i \in 1..Len(r) : \/ i \in 1..Len(s) /\ r[i] = s[i]
                              \/ r[i] = Empty \/ r[i] = [block |-> b, data |-> <<>>]
  PROVE  Kept(r, n) /\ Within(r, n)
<1>1. Len(s) \in Nat /\ Len(r) \in Nat /\ b * LBUFSIZE \in Int
  BY ChainType, SizeAssumption
<1>2. ASSUME NEW p \in 0..(n - 1) PROVE Served(r, p)
  <2>1. PICK j \in 1..Len(s) : s[j].block = p \div LBUFSIZE /\ Len(s[j].data) > p % LBUFSIZE
    BY DEF Kept, Served
  <2>2. p \div LBUFSIZE # -1
    BY Place
  <2>3. j \in 1..Len(r) /\ r[j] = s[j]
    BY <1>1, <2>1, <2>2
  <2> QED BY <2>1, <2>3 DEF Served
<1>3. ASSUME NEW i \in 1..Len(r), r[i].block # -1
      PROVE  r[i].block * LBUFSIZE + Len(r[i].data) <= n
  <2>1. CASE i \in 1..Len(s) /\ r[i] = s[i]
    BY <2>1, <1>3 DEF Within
  <2>2. CASE r[i] = Empty
    BY <2>2, <1>3 DEF Empty
  <2>3. CASE r[i] = [block |-> b, data |-> <<>>]
    <3>1. r[i].block = b /\ Len(r[i].data) = 0
      BY <2>3
    <3> QED BY <3>1, <1>1
  <2> QED BY <2>1, <2>2, <2>3
<1> QED BY <1>2, <1>3 DEF Kept, Within

\* A step that leaves the buffers alone.
LEMMA PipeStill ==
  ASSUME PipeInv, UNCHANGED <<bufs, fpos, canseek, autobuf>>, Streaming => Reached' /\ Told'
  PROVE  PipeInv'
BY DEF PipeInv, Streaming

LEMMA FoundPipe == ASSUME IInv, PipeInv, Found PROVE PipeInv'
<1> SUFFICES ASSUME Streaming PROVE Kept(bufs', fpos) /\ Within(bufs', fpos) /\ Reached' /\ Told'
  BY DEF Found, PipeInv, Streaming, options
<1>1. Chain(bufs) /\ block \in Nat /\ offset \in Nat
      /\ Kept(bufs, fpos) /\ Within(bufs, fpos) /\ Reached
  BY SizeAssumption DEF IInv, TypeOK, PipeInv, Reached
<1>2. PICK i \in DOMAIN bufs : /\ Holds(i) /\ offset < Len(bufs[i].data)
                               /\ bufs' = ToFront(bufs, i) /\ Return(bufs[i].data[offset + 1])
  BY DEF Found
<1>3. i \in 1..Len(bufs) /\ bufs[i].block = block /\ bufs[i].data \in Seq(Nat)
  BY <1>1, <1>2, ChainType DEF Holds
<1>4. block * LBUFSIZE + Len(bufs[i].data) <= fpos /\ block * LBUFSIZE \in Nat
  BY <1>1, <1>3, SizeAssumption DEF Within
<1>5. c' \in Nat /\ ch_tell < fpos
  <2>1. offset + 1 \in 1..Len(bufs[i].data)
    BY <1>1, <1>2, <1>3
  <2>2. c' = bufs[i].data[offset + 1] /\ bufs[i].data[offset + 1] \in Nat
    BY <1>2, <1>3, <2>1 DEF Return
  <2>3. ch_tell < fpos
    <3>1. fpos \in Nat /\ Len(bufs[i].data) \in Nat
      BY <1>3 DEF IInv, TypeOK
    <3> QED BY <1>1, <1>2, <1>4, <3>1 DEF ch_tell
  <2> QED BY <2>2, <2>3
<1>6. Kept(bufs', fpos) /\ Within(bufs', fpos)
  BY <1>1, <1>2, <1>3, FrontKept DEF Chain
<1> QED BY <1>1, <1>5, <1>6 DEF Found, pointer, Reached, Told, Lost, ch_tell

LEMMA TakeBufferPipeInv == ASSUME IInv, PipeInv, TakeBuffer PROVE PipeInv'
<1> SUFFICES ASSUME Streaming, autobuf'
             PROVE  Kept(bufs', fpos) /\ Within(bufs', fpos) /\ Reached' /\ Told'
  BY DEF TakeBuffer, PipeInv, Streaming, IInv, TypeOK
<1> DEFINE e == [block |-> block, data |-> <<>>]
<1>1. Chain(bufs) /\ Chain(bufs') /\ block \in Nat /\ block * LBUFSIZE <= fpos
      /\ Kept(bufs, fpos) /\ Within(bufs, fpos)
  BY TakeBufferInv DEF IInv, TypeOK, PipeInv, Reached
<1>2. bufs \in Seq(Buffer) /\ Len(bufs) \in Nat
  BY <1>1 DEF Chain
<1>3. CASE bufs' = Append(bufs, e)
  <2>1. /\ Len(bufs) <= Len(bufs') /\ \A i \in 1..Len(bufs) : bufs'[i] = bufs[i]
        /\ \A i \in 1..Len(bufs') : (i \in 1..Len(bufs) /\ bufs'[i] = bufs[i]) \/ bufs'[i] = e
    BY <1>2, <1>3
  <2> HIDE DEF e
  <2> QED BY <1>1, <2>1, NextKept DEF TakeBuffer, pointer, Reached, Told, e
<1>4. CASE ~WantsBuffer /\ bufs' = Relabel(bufs, block)
  <2>1. bufs # <<>> /\ bufs[Len(bufs)].block = -1
    BY <1>4 DEF WantsBuffer, Streaming
  <2>2. Len(bufs) # 0
    BY <1>2, <2>1
  <2>3. /\ Len(bufs') = Len(bufs) /\ bufs'[Len(bufs)] = e
        /\ \A i \in 1..Len(bufs) : i # Len(bufs) => bufs'[i] = bufs[i]
    BY <1>2, <1>4, <2>2 DEF Relabel
  <2>4. /\ Len(bufs) <= Len(bufs')
        /\ \A i \in 1..Len(bufs) : bufs'[i] = bufs[i] \/ bufs[i].block = -1
        /\ \A i \in 1..Len(bufs') : (i \in 1..Len(bufs) /\ bufs'[i] = bufs[i]) \/ bufs'[i] = e
    BY <1>2, <2>1, <2>3
  <2> HIDE DEF e
  <2> QED BY <1>1, <2>4, NextKept DEF TakeBuffer, pointer, Reached, Told, e
<1> QED BY <1>3, <1>4 DEF TakeBuffer, Streaming

\* While buffers are allocated as needed, the buffer in hand ends where the descriptor is.
LEMMA AtDescriptor ==
  ASSUME IInv, PipeInv, Streaming, pc \in {"more", "read"}
  PROVE  Pos = fpos /\ block \in Nat
<1>1. block \in Nat /\ Kept(bufs, fpos) /\ Within(bufs, fpos) /\ fpos \in Nat
  BY DEF IInv, TypeOK, PipeInv, Reached
<1> DEFINE m == Len(bufs[bp].data)
<1>2. /\ bp \in 1..Len(bufs) /\ m \in Nat /\ bufs[bp].block = block /\ Chain(bufs)
      /\ Pos = block * LBUFSIZE + m /\ block * LBUFSIZE \in Nat /\ m \in 0..(LBUFSIZE - 1)
  <2>1. /\ bp \in 1..Len(bufs) /\ m \in Nat /\ bufs[bp].block = block /\ Chain(bufs)
        /\ Pos = block * LBUFSIZE + m /\ offset >= m /\ offset \in 0..(LBUFSIZE - 1)
    BY Working DEF IInv, Progress, TypeOK
  <2>2. block * LBUFSIZE \in Nat
    BY <1>1, SizeAssumption
  <2>3. m \in 0..(LBUFSIZE - 1)
    <3> HIDE DEF m
    <3> QED BY <2>1, SizeAssumption
  <2> QED BY <2>1, <2>2, <2>3
<1>3. Pos <= fpos
  BY <1>1, <1>2 DEF Within
<1>4. ~ Pos < fpos
  <2> SUFFICES ASSUME Pos < fpos PROVE FALSE
    OBVIOUS
  <2>1. Pos \in 0..(fpos - 1)
    BY <1>1, <1>2
  <2>2. Pos \div LBUFSIZE = block /\ Pos % LBUFSIZE = m
    <3> HIDE DEF m
    <3>1. Pos \in Nat
      BY <1>2
    <3> QED BY <1>1, <1>2, <3>1, PlaceUnique
  <2>3. PICK j \in 1..Len(bufs) : bufs[j].block = block /\ Len(bufs[j].data) > m
    BY <1>1, <2>1, <2>2 DEF Kept, Served
  <2>4. j # bp
    BY <1>2, <2>3
  <2>5. block # -1
    BY <1>1
  <2> QED BY <1>2, <2>3, <2>4, <2>5 DEF Chain, Unique
<1> QED BY <1>1, <1>2, <1>3, <1>4

LEMMA MorePipe == ASSUME IInv, PipeInv, MoreEnd \/ MoreLost \/ MoreSeekError \/ MoreRead
                  PROVE  PipeInv'
<1>1. CASE MoreEnd
  <2>1. UNCHANGED <<bufs, fpos, canseek, autobuf, block>> /\ c' = EOI
    BY <1>1 DEF MoreEnd, Return, pointer, options
  <2> QED BY <2>1, PipeStill DEF PipeInv, Reached, Told, EOI, Lost
<1>2. CASE MoreLost
  <2>1. ~Streaming
    BY <1>2, AtDescriptor DEF MoreLost
  <2>2. UNCHANGED <<canseek, autobuf>>
    BY <1>2 DEF MoreLost, options
  <2> QED BY <2>1, <2>2 DEF PipeInv, Streaming
<1>3. CASE MoreSeekError
  BY <1>3 DEF MoreSeekError, options, PipeInv, Streaming
<1>4. CASE MoreRead
  <2>1. UNCHANGED <<bufs, canseek, autobuf, block>> /\ pc' = "read" /\ fpos' = Pos
    BY <1>4 DEF MoreRead, pointer, options
  <2>2. Streaming => fpos' = fpos
    BY <1>4, <2>1, AtDescriptor DEF MoreRead
  <2> QED BY <2>1, <2>2 DEF PipeInv, Streaming, Reached, Told
<1> QED BY <1>1, <1>2, <1>3, <1>4

LEMMA ReadDataPipe == ASSUME IInv, PipeInv, ReadData PROVE PipeInv'
<1> SUFFICES ASSUME Streaming PROVE Kept(bufs', fpos') /\ Within(bufs', fpos') /\ Reached' /\ Told'
  BY DEF ReadData, PipeInv, Streaming, options
<1> DEFINE m == Len(bufs[bp].data)
           d == Filled(bufs[bp].data, koff, Count)
           s == WithData(bufs, bp, d)
           e == [block |-> block, data |-> d]
           B == block * LBUFSIZE
           end == fpos + Count
<1>1. /\ block \in Nat /\ Kept(bufs, fpos) /\ Within(bufs, fpos) /\ fpos \in Nat /\ Chain(bufs)
      /\ bp \in 1..Len(bufs) /\ m \in Nat /\ B \in Nat /\ fpos = B + m /\ koff = fpos
      /\ bufs[bp].block = block /\ Len(bufs) \in Nat /\ offset \in Nat /\ m <= LBUFSIZE
  <2>1. pc = "read"
    BY DEF ReadData
  <2>2. Pos = fpos /\ block \in Nat
    BY <2>1, AtDescriptor
  <2>3. /\ bp \in 1..Len(bufs) /\ m \in Nat /\ Pos = B + m /\ koff = fpos
        /\ bufs[bp].block = block /\ Chain(bufs) /\ Good(bufs[bp])
    BY <2>1, Working DEF IInv, Progress, Chain
  <2>4. Kept(bufs, fpos) /\ Within(bufs, fpos) /\ fpos \in Nat /\ offset \in Nat
    BY SizeAssumption DEF IInv, TypeOK, PipeInv
  <2>5. B \in Nat
    BY <2>2, SizeAssumption
  <2>6. m <= LBUFSIZE /\ Len(bufs) \in Nat
    BY <2>3 DEF Good, Chain
  <2> QED BY <2>2, <2>3, <2>4, <2>5, <2>6
<1>2. Count \in Nat \ {0} /\ m + Count <= LBUFSIZE
  <2>1. LBUFSIZE - m \in Int /\ size - koff \in Int
    BY <1>1, SizeAssumption DEF IInv, TypeOK
  <2>2. Count = IF LBUFSIZE - m <= size - koff THEN LBUFSIZE - m ELSE size - koff
    BY DEF Count, Min2
  <2>3. Count > 0
    BY DEF ReadData
  <2> HIDE DEF m
  <2> QED BY <1>1, <2>1, <2>2, <2>3, SizeAssumption
<1>3. d \in Seq(Nat) /\ Len(d) = m + Count
  <2>1. bufs[bp].data \in Seq(Nat)
    BY <1>1, ChainType
  <2> QED BY <1>1, <1>2, <2>1, FilledData
<1>4. bufs' = ToFront(s, bp)
  BY DEF ReadData, WithData
<1> HIDE DEF d
<1>5. /\ Len(s) = Len(bufs) /\ s[bp].block = block /\ s[bp].data = d
      /\ \A j \in 1..Len(bufs) : j # bp => s[j] = bufs[j]
  <2>1. bufs \in Seq(Buffer) /\ bufs[bp] \in Buffer
    BY <1>1 DEF Chain
  <2>2. [bufs[bp] EXCEPT !.data = d] = e
    BY <1>1, <2>1, SetData
  <2>3. s = [bufs EXCEPT ![bp] = e]
    BY <1>1, <2>1, <2>2 DEF WithData
  <2> QED BY <1>1, <2>1, <2>3
<1> HIDE DEF s
<1> HIDE DEF m, B
<1>6. ASSUME NEW p \in 0..(end - 1) PROVE Served(s, p)
  <2>1. CASE p < fpos
    <3>1. PICK j \in 1..Len(bufs) : bufs[j].block = p \div LBUFSIZE /\ Len(bufs[j].data) > p % LBUFSIZE
      <4>1. p \in 0..(fpos - 1)
        BY <1>1, <2>1
      <4> QED BY <1>1, <4>1 DEF Kept, Served
    <3>2. CASE j # bp
      BY <1>5, <3>1, <3>2 DEF Served
    <3>3. CASE j = bp
      <4>1. p % LBUFSIZE \in Int
        BY <2>1, Place, <1>1
      <4>2. Len(s[bp].data) > p % LBUFSIZE
        <5>1. m > p % LBUFSIZE
          BY <3>1, <3>3 DEF m
        <5> QED BY <1>1, <1>2, <1>3, <1>5, <4>1, <5>1
      <4> QED BY <1>1, <1>5, <3>1, <3>3, <4>2 DEF Served
    <3> QED BY <3>2, <3>3
  <2>2. CASE p >= fpos
    <3> DEFINE o == p - B
    <3>1. o \in 0..(LBUFSIZE - 1) /\ o < m + Count /\ p = B + o /\ p \in Nat
      BY <1>1, <1>2, <2>2, SizeAssumption
    <3> HIDE DEF o
    <3>2. p \div LBUFSIZE = block /\ p % LBUFSIZE = o
      BY <1>1, <3>1, PlaceUnique DEF B
    <3> QED BY <1>1, <1>3, <1>5, <3>1, <3>2 DEF Served
  <2> QED BY <1>1, <2>1, <2>2
<1>7. Within(s, end)
  <2> SUFFICES ASSUME NEW i \in 1..Len(s), s[i].block # -1
               PROVE  s[i].block * LBUFSIZE + Len(s[i].data) <= end
    BY DEF Within
  <2>1. CASE i = bp
    <3>1. s[i].block * LBUFSIZE + Len(s[i].data) = B + (m + Count)
      BY <1>3, <1>5, <2>1 DEF B
    <3> QED BY <1>1, <1>2, <3>1
  <2>2. CASE i # bp
    <3>1. bufs[i].block * LBUFSIZE + Len(bufs[i].data) <= fpos /\ s[i] = bufs[i]
      BY <1>1, <1>5, <2>2 DEF Within
    <3>2. bufs[i].block * LBUFSIZE \in Int /\ Len(bufs[i].data) \in Nat
      BY <1>1, <1>5, ChainType
    <3> DEFINE x == bufs[i].block * LBUFSIZE
               y == Len(bufs[i].data)
    <3>3. s[i].block * LBUFSIZE + Len(s[i].data) = x + y /\ x + y <= fpos /\ x + y \in Int
      BY <3>1, <3>2
    <3> HIDE DEF x, y
    <3> QED BY <1>1, <1>2, <3>3
  <2> QED BY <2>1, <2>2
<1>8. s \in Seq(Buffer)
  <2>1. bufs \in Seq(Buffer) /\ bufs[bp] \in Buffer
    BY <1>1 DEF Chain
  <2>2. e \in Buffer /\ [bufs[bp] EXCEPT !.data = d] = e
    BY <1>1, <1>3, <2>1, SetData DEF Buffer, Blocks
  <2>3. s = [bufs EXCEPT ![bp] = e]
    BY <1>1, <2>1, <2>2 DEF WithData, s
  <2> QED BY <1>1, <2>1, <2>2, <2>3
<1>9. fpos' = end /\ UNCHANGED <<block, offset>>
  BY DEF ReadData, pointer
<1>10. Kept(bufs', end) /\ Within(bufs', end)
  BY <1>1, <1>4, <1>5, <1>6, <1>7, <1>8, FrontKept DEF Kept
<1>11. Reached'
  <2>1. block' # -1 /\ block' * LBUFSIZE = B
    BY <1>1, <1>9 DEF B
  <2> QED BY <1>1, <1>2, <1>9, <2>1 DEF Reached
<1>12. Told'
  <2>1. CASE offset < Len(d)
    <3>1. c' = d[offset + 1]
      BY <2>1 DEF ReadData, Return, d
    <3>2. c' \in Nat
      <4>1. offset + 1 \in 1..Len(d)
        BY <1>1, <1>2, <1>3, <2>1
      <4> QED BY <1>3, <3>1, <4>1
    <3>3. ch_tell' < fpos'
      <4>1. ch_tell' = B + offset
        BY <1>9 DEF ch_tell, B
      <4> QED BY <1>1, <1>2, <1>3, <1>9, <2>1, <4>1
    <3> QED BY <3>2, <3>3 DEF Told, Lost
  <2>2. CASE ~ offset < Len(d)
    BY <2>2 DEF ReadData, d, Told
  <2> QED BY <2>1, <2>2
<1> QED BY <1>9, <1>10, <1>11, <1>12

LEMMA ReadEndPipe == ASSUME IInv, PipeInv, ReadNothing \/ ReadInterrupted PROVE PipeInv'
<1>1. UNCHANGED <<fpos, canseek, autobuf, block>>
  BY DEF ReadNothing, ReadInterrupted, pointer, options
<1>2. CASE c' = EOI /\ UNCHANGED bufs
  BY <1>1, <1>2, PipeStill DEF PipeInv, Reached, Told, EOI, Lost
<1>3. CASE ReadNothing /\ bufs' = ToFront(bufs, bp) /\ pc' = "more"
  <2>1. bufs \in Seq(Buffer) /\ bp \in 1..Len(bufs)
    BY <1>3, Working DEF ReadNothing, IInv, Chain
  <2> QED BY <1>1, <1>3, <2>1, FrontKept DEF PipeInv, Streaming, Reached, Told
<1> QED BY <1>2, <1>3 DEF ReadNothing, ReadInterrupted, Return

LEMMA AnswerPipe == ASSUME IInv, PipeInv, Answer PROVE PipeInv'
<1>1. UNCHANGED <<bufs, fpos, canseek, autobuf>> /\ pc' # "answer"
  BY DEF Answer, Over, options
<1>2. ASSUME Streaming PROVE Reached'
  <2>1. Reached /\ Told /\ pc = "answer" /\ block \in Nat /\ offset \in 0..(LBUFSIZE - 1)
        /\ fpos \in Nat
    BY <1>2 DEF Answer, PipeInv, IInv, TypeOK, Reached
  <2>2. CASE c \in Ends \/ block' = block
    BY <1>1, <2>1, <2>2 DEF Answer, pointer, Reached
  <2>3. CASE c \notin Ends /\ offset = LBUFSIZE - 1 /\ block' = block + 1
    <3>1. block * LBUFSIZE + offset < fpos
      BY <2>1, <2>3 DEF Told, Ends, ch_tell
    <3>2. (block + 1) * LBUFSIZE = block * LBUFSIZE + LBUFSIZE /\ block * LBUFSIZE \in Nat
      BY <2>1, SizeAssumption
    <3>3. (block + 1) * LBUFSIZE <= fpos
      <4> DEFINE B == block * LBUFSIZE
      <4>1. B + (LBUFSIZE - 1) < fpos /\ B \in Nat /\ (block + 1) * LBUFSIZE = B + LBUFSIZE
        BY <2>3, <3>1, <3>2
      <4> HIDE DEF B
      <4> QED BY <2>1, <4>1, SizeAssumption
    <3> QED BY <1>1, <2>1, <2>3, <3>3 DEF Reached
  <2> QED BY <2>1, <2>2, <2>3, SizeAssumption DEF Answer, Advance, pointer
<1> QED BY <1>1, <1>2, PipeStill DEF Told

\* The read pointer is set to the end of what was read, or into a block that is there.
LEMMA PointReached ==
  ASSUME IInv, PipeInv, Streaming, NEW p \in Nat, ~Slow(p), PointAt(p), fpos' = fpos
  PROVE  Reached'
<1>1. block' = p \div LBUFSIZE /\ block' \in Nat /\ block' * LBUFSIZE \in Nat /\ fpos \in Nat
  BY Place DEF PointAt, IInv, TypeOK
<1>2. CASE p = fpos
  <2>1. p = block' * LBUFSIZE + (p % LBUFSIZE) /\ p % LBUFSIZE \in Nat
    BY <1>1, Place
  <2> DEFINE B == block' * LBUFSIZE
             o == p % LBUFSIZE
  <2>2. p = B + o /\ o \in Nat /\ B \in Nat
    BY <1>1, <2>1
  <2> HIDE DEF B, o
  <2>3. B <= fpos
    BY <1>2, <2>2
  <2> QED BY <1>1, <2>3 DEF Reached, B
<1>3. CASE buffered(p \div LBUFSIZE)
  <2>1. PICK i \in 1..Len(bufs) : bufs[i].block = block'
    BY <1>1, <1>3, ChainType DEF buffered, IInv
  <2>2. block' * LBUFSIZE + Len(bufs[i].data) <= fpos /\ Len(bufs[i].data) \in Nat
    <3>1. bufs[i].block # -1 /\ Within(bufs, fpos)
      BY <1>1, <2>1 DEF PipeInv
    <3>2. bufs[i].block * LBUFSIZE + Len(bufs[i].data) <= fpos
      BY <3>1 DEF Within
    <3> QED BY <2>1, <3>2, ChainType DEF IInv
  <2>3. block' * LBUFSIZE <= fpos
    <3> DEFINE B == block' * LBUFSIZE
               m == Len(bufs[i].data)
    <3>1. B + m <= fpos /\ m \in Nat /\ B \in Nat
      BY <1>1, <2>2
    <3> HIDE DEF B, m
    <3>2. B <= fpos
      BY <1>1, <3>1
    <3> QED BY <3>2 DEF B
  <2> QED BY <1>1, <2>3 DEF Reached
<1> QED BY <1>2, <1>3 DEF Slow, Streaming

LEMMA SeekPipe == ASSUME IInv, PipeInv, Seek \/ ch_end_seek PROVE PipeInv'
<1>1. UNCHANGED <<bufs, fpos, canseek, autobuf>>
  BY DEF Seek, ch_end_seek, options
<1>2. pc' # "answer"
  BY DEF Seek, ch_seek, ch_end_seek, Ready, Call
<1>3. ASSUME Streaming PROVE Reached'
  <2>1. CASE UNCHANGED block
    BY <1>1, <1>3, <2>1 DEF PipeInv, Reached
  <2>2. ASSUME NEW p \in Nat, ~Slow(p), PointAt(p) PROVE Reached'
    BY <1>1, <1>3, <2>2, PointReached
  <2>3. UNCHANGED pointer \/ \E p \in Nat : ~Slow(p) /\ PointAt(p)
    <3>1. CASE Seek
      <4>1. \A p \in 0..(IF ignore_eoi THEN size ELSE MaxSize) : p \in Nat
        OBVIOUS
      <4> QED BY <3>1, <4>1 DEF Seek, ch_seek
    <3>2. CASE ch_end_seek
      <4>1. fsize' = fsize /\ fsize \in Nat \cup {NULL_POSITION}
        BY <1>3, <3>2 DEF ch_end_seek, Streaming, IInv, TypeOK
      <4>2. fsize = NULL_POSITION \/ (ignore_eoi /\ Call("end", 0)) => UNCHANGED pointer
        BY <3>2, <4>1 DEF ch_end_seek
      <4> QED BY <3>2, <4>1, <4>2 DEF ch_end_seek
    <3> QED BY <3>1, <3>2
  <2> QED BY <2>1, <2>2, <2>3 DEF pointer
<1> QED BY <1>1, <1>2, <1>3, PipeStill DEF Told

LEMMA GetPipe == ASSUME IInv, PipeInv, ch_beg_seek \/ ch_forw_get \/ ch_back_get PROVE PipeInv'
<1>1. UNCHANGED <<bufs, fpos, canseek, autobuf>> /\ pc' # "answer"
  BY DEF ch_beg_seek, ch_forw_get, ch_back_get, Ready, Call, options
<1>2. ASSUME Streaming PROVE Reached'
  <2>1. Reached /\ block \in Nat /\ fpos \in Nat /\ Kept(bufs, fpos)
    BY <1>2 DEF PipeInv, Reached, IInv, TypeOK
  <2>2. CASE UNCHANGED block
    BY <1>1, <2>1, <2>2 DEF Reached
  <2>3. CASE ch_beg_seek
    <3>1. ~Slow(0)
      <4>1. fpos # 0 => buffered(0 \div LBUFSIZE)
        <5>1. fpos # 0 => \E i \in 1..Len(bufs) : bufs[i].block = 0 \div LBUFSIZE
          BY <2>1 DEF Kept, Served
        <5> QED BY <5>1, ChainType DEF buffered, IInv
      <4> QED BY <4>1 DEF Slow
    <3>2. PointAt(0)
      BY <2>3, <3>1 DEF ch_beg_seek
    <3> QED BY <1>1, <1>2, <3>1, <3>2, PointReached
  <2>4. CASE ch_back_get /\ block > 0 /\ block' = block - 1
    <3>1. (block - 1) * LBUFSIZE = block * LBUFSIZE - LBUFSIZE /\ block * LBUFSIZE \in Nat
      BY <2>1, SizeAssumption
    <3>2. (block - 1) * LBUFSIZE <= fpos
      <4> DEFINE B == block * LBUFSIZE
      <4>1. (block - 1) * LBUFSIZE = B - LBUFSIZE /\ B \in Nat /\ B <= fpos
        BY <2>1, <3>1 DEF Reached
      <4> HIDE DEF B
      <4> QED BY <2>1, <4>1, SizeAssumption
    <3> QED BY <1>1, <2>1, <2>4, <3>2 DEF Reached
  <2> QED BY <2>1, <2>2, <2>3, <2>4 DEF ch_forw_get, ch_back_get, pointer
<1> QED BY <1>1, <1>2, PipeStill DEF Told

\* The buffers are emptied, or there are none, and nothing has been read.
LEMMA FlushPipe ==
  ASSUME pc' # "answer", fpos' = 0, block' = 0, \A i \in 1..Len(bufs') : bufs'[i] = Empty
  PROVE  PipeInv'
<1>1. Kept(bufs', fpos')
  BY DEF Kept
<1>2. Within(bufs', fpos')
  BY DEF Within, Empty
<1>3. Reached'
  <2>1. 0 * LBUFSIZE = 0
    BY SizeAssumption
  <2> QED BY <2>1 DEF Reached
<1> QED BY <1>1, <1>2, <1>3 DEF PipeInv, Told

LEMMA EditPipe == ASSUME IInv, PipeInv, Repaint \/ Edit \/ SetBuffers PROVE PipeInv'
<1>1. pc' # "answer" /\ bufs \in Seq(Buffer) /\ DOMAIN bufs = 1..Len(bufs) /\ Len(bufs) \in Nat
  BY DEF Repaint, Edit, SetBuffers, Ready, IInv, Chain
<1>2. CASE Repaint
  <2>1. bufs' = [i \in 1..Len(bufs) |-> Empty] /\ fpos' = 0 /\ block' = 0
    BY <1>1, <1>2 DEF Repaint, ch_flush
  <2>2. Len(bufs') = Len(bufs)
    BY <1>1, <2>1, EmptyChain
  <2> QED BY <1>1, <2>1, <2>2, FlushPipe
<1>3. CASE Edit /\ canseek
  BY <1>1, <1>3, FlushPipe DEF Edit, ch_flush
<1>4. CASE Edit /\ ~canseek
  BY <1>1, <1>4, PipeStill DEF Edit, pointer, options, PipeInv, Reached, Told
<1>5. CASE SetBuffers
  <2>1. UNCHANGED <<fpos, canseek, autobuf, block>>
    BY <1>5 DEF SetBuffers, pointer
  <2>2. PICK n \in 0..MaxBlock : bufs' = bufs \o [i \in 1..n |-> Empty]
    BY <1>5 DEF SetBuffers
  <2>3. n \in Nat
    BY MaxBlockNat
  <2>4. Chain(bufs') /\ Len(bufs) <= Len(bufs')
    BY <1>1, <2>2, <2>3, GrownChain DEF IInv
  <2>5. /\ \A i \in 1..Len(bufs) : bufs'[i] = bufs[i]
        /\ \A i \in 1..Len(bufs') : (i \in 1..Len(bufs) /\ bufs'[i] = bufs[i]) \/ bufs'[i] = Empty
    <3>1. [i \in 1..n |-> Empty] \in Seq({Empty}) /\ Len([i \in 1..n |-> Empty]) = n
      BY <2>3, FunctionSeq
    <3> QED BY <1>1, <2>2, <2>3, <3>1
  <2>6. ASSUME Streaming PROVE Kept(bufs', fpos) /\ Within(bufs', fpos) /\ Reached
    <3>1. Kept(bufs, fpos) /\ Within(bufs, fpos) /\ Reached /\ block \in Nat /\ Chain(bufs)
      BY <2>6 DEF PipeInv, Reached, IInv, TypeOK
    <3> QED BY <2>4, <2>5, <3>1, NextKept DEF Reached
  <2> QED BY <1>1, <2>1, <2>6 DEF PipeInv, Streaming, Reached, Told
<1> QED BY <1>2, <1>3, <1>4, <1>5

LEMMA PipeInitInv == Init => PipeInv
<1> SUFFICES ASSUME Init PROVE PipeInv
  OBVIOUS
<1>1. fpos = 0 /\ block = 0 /\ pc = "idle" /\ Len(bufs) = 0
  BY DEF Init
<1>2. 0 * LBUFSIZE = 0
  BY SizeAssumption
<1> QED BY <1>1, <1>2 DEF PipeInv, Kept, Within, Reached, Told

LEMMA PipeStep == ASSUME IInv, PipeInv, [Next]_vars PROVE PipeInv'
<1>1. CASE NeedMore \/ Follow \/ Psignals \/ Grow \/ End \/ Signal \/ UNCHANGED vars
  <2>1. /\ UNCHANGED <<bufs, fpos, canseek, autobuf, block, offset, c>>
        /\ pc' = "answer" => pc = "answer"
    BY <1>1 DEF NeedMore, Follow, Psignals, Grow, End, Signal, vars, pointer, options
  <2> QED BY <2>1, PipeStill DEF PipeInv, Reached, Told, ch_tell
<1>2. CASE Found \/ TakeBuffer \/ MoreEnd \/ MoreLost \/ MoreSeekError \/ MoreRead \/ ReadData
           \/ ReadNothing
  BY <1>2, FoundPipe, TakeBufferPipeInv, MorePipe, ReadDataPipe, ReadEndPipe
<1>3. CASE ReadInterrupted \/ Answer
  BY <1>3, ReadEndPipe, AnswerPipe
<1>4. CASE Seek \/ ch_end_seek \/ ch_beg_seek \/ ch_forw_get \/ ch_back_get
  BY <1>4, SeekPipe, GetPipe
<1>5. CASE Repaint \/ Edit \/ SetBuffers
  BY <1>5, EditPipe
<1> QED BY <1>1, <1>2, <1>3, <1>4, <1>5 DEF Next, fch_get

\* While buffers are allocated as needed, every byte that was read from a pipe is in the
\* buffer of its block, and none is ever reported as lost ("We can't seek on this file and
\* -b is not in effect", ch.c:142), as long as the descriptor is where ch_fpos says when an
\* operation begins.
THEOREM NothingLost == ASSUME ~GoesOn PROVE Spec => []PipeKept
<1>1. IInv /\ PipeInv /\ [Next]_vars => PipeInv'
  BY PipeStep
<1>2. Spec => []PipeInv
  BY <1>1, PipeInitInv, Invariance, PTL DEF Spec
<1>3. ASSUME IInv, PipeInv PROVE PipeKept
  <2> SUFFICES ASSUME Streaming, NEW p \in 0..(fpos - 1)
               PROVE  \E i \in DOMAIN bufs :
                         /\ bufs[i].block = p \div LBUFSIZE
                         /\ Len(bufs[i].data) > p % LBUFSIZE /\ bufs[i].data[(p % LBUFSIZE) + 1] = p
    BY <1>3 DEF PipeKept, PipeInv, Streaming, Told
  <2>1. PICK i \in 1..Len(bufs) : bufs[i].block = p \div LBUFSIZE /\ Len(bufs[i].data) > p % LBUFSIZE
    BY <1>3 DEF PipeInv, Kept, Served
  <2>2. /\ p \in Nat /\ Good(bufs[i]) /\ i \in DOMAIN bufs /\ Len(bufs[i].data) \in Nat
    <3>1. Chain(bufs) /\ fpos \in Nat
      BY <1>3 DEF IInv, TypeOK
    <3>2. Good(bufs[i]) /\ i \in DOMAIN bufs /\ Len(bufs[i].data) \in Nat
      BY <3>1, ChainType DEF Chain
    <3> QED BY <3>1, <3>2
  <2> DEFINE o == p % LBUFSIZE
             B == (p \div LBUFSIZE) * LBUFSIZE
  <2>3. o \in 0..(LBUFSIZE - 1) /\ B \in Nat /\ p = B + o
    BY <2>2, Place
  <2> HIDE DEF o, B
  <2>4. o + 1 \in 1..Len(bufs[i].data)
    BY <2>1, <2>2, <2>3, SizeAssumption DEF o
  <2>5. bufs[i].data[o + 1] = B + (o + 1) - 1
    BY <2>1, <2>2, <2>4 DEF Good, B
  <2>6. bufs[i].data[o + 1] = p
    BY <2>3, <2>5, SizeAssumption
  <2> QED BY <2>1, <2>2, <2>6 DEF o
<1> QED BY <1>2, <1>3, Invariance, PTL
==============================================================================
