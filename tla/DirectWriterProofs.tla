------------------------- MODULE DirectWriterProofs --------------------------
(***************************************************************************)
(* Proofs about DirectWriter for every block size and every sequence of    *)
(* appends, partial writes and failures.                                   *)
(***************************************************************************)
EXTENDS DirectWriter, TLAPS

\* What a run of numbers looks like behind a sequence.
LEMMA Concatenation ==
  ASSUME NEW s \in Seq(Nat), NEW n \in Nat, NEW t, t \in [1..n -> Nat]
  PROVE  /\ s \o t \in Seq(Nat)
         /\ Len(s \o t) = Len(s) + n
         /\ \A i \in 1..Len(s) : (s \o t)[i] = s[i]
         /\ \A i \in 1..n : (s \o t)[Len(s) + i] = t[i]
<1>1. t \in Seq(Nat) /\ Len(t) = n
  OBVIOUS
<1>2. s \o t \in Seq(Nat) /\ Len(s \o t) = Len(s) + n
  BY <1>1
<1>3. \A i \in 1..Len(s) : (s \o t)[i] = s[i]
  BY <1>1
<1>4. ASSUME NEW i \in 1..n
      PROVE  (s \o t)[Len(s) + i] = t[i]
  <2>1. Len(s) + i \in (Len(s) + 1)..(Len(s) + Len(t)) /\ Len(s) + i - Len(s) = i
    BY <1>1
  <2> QED
    BY <1>1, <2>1
<1> QED
  BY <1>2, <1>3, <1>4

\* What padding looks like behind a sequence.
LEMMA PaddedSequence ==
  ASSUME NEW s \in Seq(Nat), NEW n \in Nat
  PROVE  /\ s \o Padding(n) \in Seq(Nat)
         /\ Len(s \o Padding(n)) = Len(s) + n
         /\ \A i \in 1..Len(s) : (s \o Padding(n))[i] = s[i]
         /\ \A i \in 1..n : (s \o Padding(n))[Len(s) + i] = 0
<1>1. Padding(n) \in [1..n -> Nat] /\ \A i \in 1..n : Padding(n)[i] = 0
  BY DEF Padding
<1> QED
  BY <1>1, Concatenation

\* A round of append copies something, and not more than fits or is there.
LEMMA CopiedFits ==
  ASSUME WriterInv, phase = "append"
  PROVE  /\ Copied \in Nat /\ Copied <= rest /\ buffered + Copied <= Block
         /\ Copied = rest \/ buffered + Copied = Block
  BY BlockAssumption DEF Copied, Lesser, WriterInv, WriterTypeOK

-----------------------------------------------------------------------------
LEMMA WriterInitInv ==
  ASSUME WriterInit
  PROVE  WriterInv
<1>1. Unset \in Nat
  BY AppendAssumption DEF Unset
<1> QED
  BY <1>1, BlockAssumption
  DEF WriterInit, WriterInv, HeldInUse, Idle, WriterTypeOK, FileIsPrefix, NothingLost, WholeBlocks

LEMMA ConstructInv ==
  ASSUME WriterInv, Allocate \/ AllocateFails \/ Open \/ OpenFails
  PROVE  WriterInv'
<1> QED
  BY DEF Allocate, AllocateFails, Open, OpenFails, WriterInv, WriterTypeOK, FileIsPrefix,
         NothingLost, WholeBlocks, HeldInUse, Idle

LEMMA AppendInv ==
  ASSUME WriterInv, NEW n \in Nat, AppendSlots(n)
  PROVE  WriterInv'
<1> DEFINE t == [i \in 1..n |-> Len(stream) + i]
<1>1. stream \in Seq(Nat) /\ Len(stream) \in Nat /\ t \in [1..n -> Nat]
  BY DEF WriterInv, WriterTypeOK
<1>2. stream' = stream \o t
  BY DEF AppendSlots
<1> HIDE DEF t
<1>3. /\ stream' \in Seq(Nat) /\ Len(stream') = Len(stream) + n
      /\ \A i \in 1..Len(stream) : stream'[i] = stream[i]
  BY <1>1, <1>2, Concatenation
<1>4. WriterTypeOK'
  BY <1>3 DEF AppendSlots, WriterInv, WriterTypeOK
<1>5. FileIsPrefix'
  BY <1>1, <1>3 DEF AppendSlots, WriterInv, WriterTypeOK, FileIsPrefix
<1>6. NothingLost'
  <2>1. /\ offset \in Nat /\ buffered \in Nat /\ rest = 0
        /\ offset + buffered = Len(stream) /\ rest' = n
        /\ UNCHANGED <<offset, buffered, buffer>>
    BY DEF AppendSlots, WriterInv, Idle, WriterTypeOK, NothingLost
  <2>2. offset' + buffered' + rest' = Len(stream')
    BY <1>3, <2>1
  <2>3. ASSUME NEW i \in 1..buffered
        PROVE  buffer[i] = stream'[offset + i]
    <3>1. offset + i \in 1..Len(stream)
      BY <1>1, <2>1
    <3>2. buffer[i] = stream[offset + i]
      BY DEF WriterInv, NothingLost
    <3> QED
      BY <1>3, <3>1, <3>2
  <2> QED
    BY <2>1, <2>2, <2>3 DEF NothingLost
<1> QED
  BY <1>4, <1>5, <1>6 DEF AppendSlots, WriterInv, HeldInUse, Idle, WholeBlocks

LEMMA FillInv ==
  ASSUME WriterInv, Fill
  PROVE  WriterInv'
<1> USE BlockAssumption
<1>1. /\ Copied \in Nat /\ Copied <= rest /\ buffered + Copied <= Block
      /\ Copied = rest \/ buffered + Copied = Block
  BY CopiedFits DEF Fill
<1>2. /\ stream \in Seq(Nat) /\ Len(stream) \in Nat /\ rest \in Nat /\ offset \in Nat
      /\ buffered \in 0..Block /\ buffer \in [1..Block -> Nat] /\ written = 0
      /\ Len(stream) = offset + buffered + rest
  BY DEF Fill, WriterInv, Idle, WriterTypeOK, NothingLost, WholeBlocks
<1>3. \A i \in 1..Copied : Len(stream) - rest + i \in 1..Len(stream)
  BY <1>1, <1>2
<1>4. buffer' \in [1..Block -> Nat]
  <2>1. \A i \in 1..Block :
          buffered < i /\ i <= buffered + Copied
            => stream[Len(stream) - rest + i - buffered] \in Nat
    BY <1>1, <1>2
  <2> QED
    BY <1>2, <2>1 DEF Fill
<1>5. \A i \in 1..(buffered + Copied) : buffer'[i] = stream[offset + i]
  <2> SUFFICES ASSUME NEW i \in 1..(buffered + Copied)
               PROVE  buffer'[i] = stream[offset + i]
    OBVIOUS
  <2>1. CASE i <= buffered
    BY <1>1, <1>2, <2>1 DEF Fill, WriterInv, NothingLost
  <2>2. CASE buffered < i
    <3>1. Len(stream) - rest + i - buffered = offset + i
      BY <1>2
    <3> QED
      BY <1>1, <1>2, <2>2, <3>1 DEF Fill
  <2> QED
    BY <1>2, <2>1, <2>2
<1>6. WriterTypeOK'
  BY <1>1, <1>2, <1>4 DEF Fill, AfterFill, WriterInv, WriterTypeOK
<1>7. NothingLost'
  <2>1. /\ buffered' = buffered + Copied /\ rest' = rest - Copied
        /\ offset' = offset /\ stream' = stream
    BY DEF Fill
  <2>2. offset' + buffered' + rest' = Len(stream')
    <3>1. buffered \in Nat /\ offset + (buffered + Copied) + (rest - Copied) = Len(stream)
      BY <1>1, <1>2
    <3> QED
      BY <2>1, <3>1
  <2> QED
    BY <1>5, <2>1, <2>2 DEF NothingLost
<1>8. FileIsPrefix' /\ WholeBlocks'
  BY <1>2 DEF Fill, WriterInv, HeldInUse, Idle, FileIsPrefix, WholeBlocks
<1> QED
  BY <1>1, <1>2, <1>6, <1>7, <1>8 DEF Fill, AfterFill, WriterInv, HeldInUse, Idle

LEMMA PaddedInv ==
  ASSUME WriterInv, FlushPadded
  PROVE  WriterInv'
<1> USE BlockAssumption
<1> DEFINE room == Block - buffered
<1>1. /\ stream \in Seq(Nat) /\ Len(stream) \in Nat /\ rest = 0 /\ offset \in Nat
      /\ buffered \in 0..Block /\ buffer \in [1..Block -> Nat] /\ written = 0
      /\ Len(stream) = offset + buffered
  BY DEF FlushPadded, WriterInv, WriterTypeOK, NothingLost, WholeBlocks, Idle
<1>2. room \in Nat /\ Len(stream) + room = offset + Block /\ stream' = stream \o Padding(room)
  BY <1>1 DEF FlushPadded
<1>3. room = Block - buffered
  OBVIOUS
<1> HIDE DEF room
<1>4. /\ stream' \in Seq(Nat) /\ Len(stream') = offset + Block
      /\ \A i \in 1..Len(stream) : stream'[i] = stream[i]
      /\ \A i \in 1..room : stream'[Len(stream) + i] = 0
  BY <1>1, <1>2, PaddedSequence
<1>5. /\ buffer' = [i \in 1..Block |-> IF i <= buffered THEN buffer[i] ELSE 0]
      /\ offset' = offset /\ buffered' = Block /\ rest' = rest /\ file' = file
  BY DEF FlushPadded
<1>6. \A i \in 1..Block : buffer'[i] = stream'[offset + i]
  <2> SUFFICES ASSUME NEW i \in 1..Block
               PROVE  buffer'[i] = stream'[offset + i]
    OBVIOUS
  <2>1. CASE i <= buffered
    <3>1. buffer[i] = stream[offset + i]
      BY <1>1, <2>1 DEF WriterInv, NothingLost
    <3>2. stream'[offset + i] = stream[offset + i]
      BY <1>1, <1>4, <2>1
    <3> QED
      BY <1>5, <2>1, <3>1, <3>2
  <2>2. CASE buffered < i
    <3>1. i - buffered \in 1..room /\ offset + i = Len(stream) + (i - buffered)
      BY <1>1, <1>3, <2>2
    <3>2. stream'[offset + i] = 0
      BY <1>4, <3>1
    <3>3. buffer'[i] = 0
      BY <1>1, <1>5, <2>2
    <3> QED
      BY <3>2, <3>3
  <2> QED
    BY <1>1, <2>1, <2>2
<1>7. WriterTypeOK'
  <2>1. WriterTypeOK
    BY DEF WriterInv
  <2>2. buffer' \in [1..Block -> Nat]
    <3>1. buffer \in [1..Block -> Nat]
      BY <2>1 DEF WriterTypeOK
    <3> QED
      BY <1>5, <3>1
  <2>3. phase' = "flush" /\ written' = 0 /\ held' = held /\ blocks' = blocks
    BY DEF FlushPadded
  <2> QED
    BY <1>1, <1>4, <1>5, <2>1, <2>2, <2>3 DEF WriterTypeOK
<1>8. NothingLost'
  BY <1>1, <1>4, <1>5, <1>6 DEF NothingLost
<1>9. FileIsPrefix'
  <2>1. Len(file) <= Len(stream) /\ \A i \in 1..Len(file) : file[i] = stream[i]
    BY DEF WriterInv, FileIsPrefix
  <2>2. file \in Seq(Nat) /\ Len(file) \in Nat /\ Len(stream) <= Len(stream')
    BY <1>1, <1>4 DEF WriterInv, WriterTypeOK
  <2>3. \A i \in 1..Len(file) : stream'[i] = file[i]
    <3> SUFFICES ASSUME NEW i \in 1..Len(file) PROVE stream'[i] = file[i]
      OBVIOUS
    <3>1. i \in 1..Len(stream)
      BY <1>1, <2>1, <2>2
    <3> QED
      BY <1>4, <2>1, <3>1
  <2> QED
    BY <1>1, <1>4, <1>5, <2>1, <2>2, <2>3 DEF FileIsPrefix
<1>10. WholeBlocks'
  BY <1>1 DEF FlushPadded, WriterInv, HeldInUse, Idle, WholeBlocks
<1> QED
  BY <1>1, <1>7, <1>8, <1>9, <1>10 DEF FlushPadded, WriterInv, HeldInUse, Idle

\* One pwrite appends to the file exactly the next units of the stream.
LEMMA PwriteExtends ==
  ASSUME WriterInv, NEW n \in 1..Block, Pwrite(n)
  PROVE  /\ file' \in Seq(Nat) /\ Len(file') = Len(file) + n
         /\ \A i \in 1..Len(file) : file'[i] = file[i]
         /\ Len(file') <= Len(stream)
         /\ \A i \in 1..Len(file') : file'[i] = stream[i]
<1> USE BlockAssumption
<1>1. /\ file \in Seq(Nat) /\ offset \in Nat /\ written \in Nat /\ rest \in Nat
      /\ Len(file) = offset + written /\ buffered = Block /\ written + n <= Block
      /\ buffer \in [1..Block -> Nat] /\ Len(stream) = offset + Block + rest
      /\ Position = Len(file)
  BY DEF Pwrite, WriterInv, WriterTypeOK, NothingLost, WholeBlocks, Position
<1>2. file' = [i \in 1..(Len(file) + n) |->
                 IF Len(file) < i THEN buffer[written + i - Len(file)] ELSE file[i]]
  <2>1. file' = WriteAt(Len(file), written, n)
    BY <1>1 DEF Pwrite
  <2>2. Len(file) < Len(file) + n /\ Len(file) \in Nat
    BY <1>1
  <2> QED
    BY <2>1, <2>2 DEF WriteAt
<1>3. \A i \in 1..(Len(file) + n) : Len(file) < i =>
        written + i - Len(file) \in 1..Block /\ offset + (written + i - Len(file)) = i
  BY <1>1
<1>4. /\ file' \in Seq(Nat) /\ Len(file') = Len(file) + n
  <2>1. file' \in [1..(Len(file) + n) -> Nat]
    <3>1. ASSUME NEW i \in 1..(Len(file) + n)
          PROVE  (IF Len(file) < i THEN buffer[written + i - Len(file)] ELSE file[i]) \in Nat
      BY <1>1, <1>3
    <3> QED
      BY <1>2, <3>1
  <2>2. Len(file) + n \in Nat
    BY <1>1
  <2> QED
    BY <2>1, <2>2
<1>5. \A i \in 1..Len(file) : file'[i] = file[i]
  BY <1>1, <1>2
<1>6. \A i \in 1..(Len(file) + n) : file'[i] = stream[i]
  <2> SUFFICES ASSUME NEW i \in 1..(Len(file) + n)
               PROVE  file'[i] = stream[i]
    OBVIOUS
  <2>1. CASE i <= Len(file)
    BY <1>1, <1>5, <2>1 DEF WriterInv, FileIsPrefix
  <2>2. CASE Len(file) < i
    <3> DEFINE j == written + i - Len(file)
    <3>1. j \in 1..Block /\ offset + j = i
      BY <1>3, <2>2
    <3>2. buffer[j] = stream[offset + j]
      BY <1>1, <3>1 DEF WriterInv, NothingLost
    <3> QED
      BY <1>2, <2>2, <3>1, <3>2
  <2> QED
    BY <1>1, <2>1, <2>2
<1> QED
  BY <1>1, <1>4, <1>5, <1>6

LEMMA PwriteInv ==
  ASSUME WriterInv, NEW n \in 1..Block, Pwrite(n)
  PROVE  WriterInv'
<1> USE BlockAssumption
<1>1. /\ file' \in Seq(Nat) /\ Len(file') = Len(file) + n
      /\ FileIsPrefix'
  BY PwriteExtends DEF Pwrite, FileIsPrefix
<1>2. /\ offset \in Nat /\ written \in Nat /\ rest \in Nat /\ blocks \in Nat
      /\ Len(file) = offset + written /\ buffered = Block /\ written + n <= Block
      /\ offset = blocks * Block /\ Len(stream) = offset + Block + rest
  BY DEF Pwrite, WriterInv, Idle, WriterTypeOK, NothingLost, WholeBlocks
<1>3. phase = "flush" /\ held = {"block", "file"} /\ held' = held /\ rest' = rest
  BY DEF Pwrite, WriterInv, HeldInUse
<1>4. CASE written + n < Block
  <2>1. phase' = "flush" /\ UNCHANGED <<offset, buffered, blocks>> /\ written' = written + n
    BY <1>3, <1>4 DEF Pwrite
  <2>2. HeldInUse'
    BY <1>3, <2>1 DEF HeldInUse
  <2>3. WriterTypeOK' /\ NothingLost' /\ WholeBlocks'
    BY <1>1, <1>2, <1>3, <2>1
    DEF Pwrite, WriterInv, WriterTypeOK, NothingLost, WholeBlocks, Idle
  <2> QED
    BY <1>1, <1>2, <1>3, <1>4, <2>1, <2>2, <2>3 DEF WriterInv, Idle
<1>5. CASE ~(written + n < Block)
  <2>1. /\ written' = 0 /\ offset' = offset + Block /\ buffered' = 0 /\ blocks' = blocks + 1
        /\ phase' = IF rest > 0 THEN "append" ELSE "ready"
    BY <1>5 DEF Pwrite, BlockDone
  <2>2. (blocks + 1) * Block = blocks * Block + Block
    BY <1>2
  <2>3. WriterTypeOK'
    BY <1>1, <1>2, <1>3, <2>1 DEF Pwrite, WriterInv, WriterTypeOK
  <2>4. NothingLost'
    BY <1>2, <2>1 DEF Pwrite, WriterInv, WriterTypeOK, NothingLost
  <2>5. WholeBlocks'
    BY <1>1, <1>2, <1>5, <2>1, <2>2 DEF WholeBlocks
  <2>6. HeldInUse'
    BY <1>3, <2>1 DEF HeldInUse
  <2> QED
    BY <1>1, <1>2, <1>3, <2>1, <2>3, <2>4, <2>5, <2>6 DEF WriterInv, Idle
<1> QED
  BY <1>4, <1>5

\* Every step of the writer preserves the invariant.
LEMMA WriterNextInv ==
  ASSUME WriterInv, [WriterNext]_writerVars
  PROVE  WriterInv'
<1>1. ASSUME NEW n \in 1..MaxAppend, AppendSlots(n) PROVE WriterInv'
  BY <1>1, AppendInv, AppendAssumption
<1>2. ASSUME Fill PROVE WriterInv'
  BY <1>2, FillInv
<1>3. ASSUME FlushPadded PROVE WriterInv'
  BY <1>3, PaddedInv
<1>4. ASSUME NEW n \in 1..Block, Pwrite(n) PROVE WriterInv'
  BY <1>4, PwriteInv
<1>5. ASSUME PwriteFails PROVE WriterInv'
  BY <1>5 DEF PwriteFails, WriterInv, WriterTypeOK, FileIsPrefix, NothingLost, WholeBlocks,
              HeldInUse, Idle
<1>6. ASSUME Release PROVE WriterInv'
  BY <1>6 DEF Release, WriterInv, WriterTypeOK, FileIsPrefix, NothingLost, WholeBlocks,
              HeldInUse, Idle
<1>7. ASSUME UNCHANGED writerVars PROVE WriterInv'
  BY <1>7 DEF writerVars, WriterInv, WriterTypeOK, FileIsPrefix, NothingLost, WholeBlocks,
              HeldInUse, Idle
<1>8. ASSUME Allocate \/ AllocateFails \/ Open \/ OpenFails PROVE WriterInv'
  BY <1>8, ConstructInv
<1> QED
  BY <1>1, <1>2, <1>3, <1>4, <1>5, <1>6, <1>7, <1>8 DEF WriterNext

\* The invariant of the writer holds for every block size.
THEOREM WriterInvariant == WriterSpec => []WriterInv
<1>1. WriterInit => WriterInv
  BY WriterInitInv
<1>2. WriterInv /\ [WriterNext]_writerVars => WriterInv'
  BY WriterNextInv
<1> QED
  BY <1>1, <1>2, PTL DEF WriterSpec

\* The counters and the contents of the block have their types in every phase.
THEOREM WriterTypes == WriterSpec => []WriterTypeOK
<1>1. WriterInv => WriterTypeOK
  BY DEF WriterInv
<1> QED
  BY <1>1, WriterInvariant, PTL

\* The file ends at a block boundary outside flush_block, and holds the number of
\* blocks that the server's summary reports.
THEOREM BlocksWhole == WriterSpec => []WholeBlocks
<1>1. WriterInv => WholeBlocks
  BY DEF WriterInv
<1> QED
  BY <1>1, WriterInvariant, PTL

\* The output file is always a prefix of what was appended, also in the middle
\* of a block and after a failed pwrite.
THEOREM OutputIsPrefix == WriterSpec => []FileIsPrefix
<1>1. WriterInv => FileIsPrefix
  BY DEF WriterInv
<1> QED
  BY <1>1, WriterInvariant, PTL

\* What is not in the file is in the block or in the caller's slots.
THEOREM WriterLosesNothing == WriterSpec => []NothingLost
<1>1. WriterInv => NothingLost
  BY DEF WriterInv
<1> QED
  BY <1>1, WriterInvariant, PTL

\* No pwrite, whether it starts a block or resumes one, changes a unit that is
\* in the file already.
THEOREM OutputOnlyGrows == WriterSpec => FileOnlyGrows
<1> DEFINE Grows == /\ Len(file) <= Len(file')
                    /\ \A i \in 1..Len(file) : file'[i] = file[i]
<1>1. WriterInv /\ [WriterNext]_writerVars => [Grows]_writerVars
  <2> SUFFICES ASSUME WriterInv, WriterNext PROVE Grows
    OBVIOUS
  <2>1. Len(file) \in Nat
    BY DEF WriterInv, WriterTypeOK
  <2>2. ASSUME NEW n \in 1..Block, Pwrite(n) PROVE Grows
    BY <2>1, <2>2, PwriteExtends, BlockAssumption
  <2>3. CASE UNCHANGED file
    BY <2>1, <2>3
  <2> QED
    BY <2>2, <2>3 DEF WriterNext, Allocate, AllocateFails, Open, OpenFails, AppendSlots, Fill,
                      FlushPadded, PwriteFails, Release
<1> QED
  BY <1>1, WriterInvariant, PTL DEF WriterSpec, FileOnlyGrows
==============================================================================
