---------------------------- MODULE DirectWriter -----------------------------
(***************************************************************************)
(* DirectCheckPointWriter of checkpoint_server: slots are collected in one *)
(* aligned block, and every full block goes to the output file through     *)
(* pwrite calls that may write less than they were asked to.  An error     *)
(* from pwrite is an exception: the writer is destroyed as it is.  The     *)
(* constructor allocates the block and opens the file; when the second     *)
(* fails there is no object yet, and no destructor to free the block.      *)
(*                                                                         *)
(* A unit is what a partial write may be cut to; the model counts sizes,   *)
(* offsets and positions in units.  Every unit handed to append carries a  *)
(* number of its own; padding is 0, and a unit that was never written is   *)
(* Unset.  EINTR repeats the call and leaves everything as it was, so it   *)
(* has no action; nor has a move, which hands on every member and leaves   *)
(* an object that holds nothing.                                           *)
(***************************************************************************)
EXTENDS Naturals, Sequences

CONSTANTS
  Block,      \* block_bytes_, as validate_block_size lets it pass
  MaxAppend,  \* bound: units of one append
  MaxStream   \* bound: units appended and padded in a run

ASSUME BlockAssumption == Block \in Nat \ {0}
ASSUME AppendAssumption == MaxAppend \in Nat /\ MaxStream \in Nat

VARIABLES
  phase,     \* "new" or "allocated" in the constructor, "ready", "append" or "flush"
             \* inside those calls, "unopened" or "failed" by an exception, "closed"
  held,      \* what is allocated and open, of "block" and "file"
  buffer,    \* buffer_
  buffered,  \* buffered_bytes_
  rest,      \* what append has still to copy, its remaining
  written,   \* written, of flush_block
  offset,    \* file_offset_
  blocks,    \* direct_blocks_written_
  file,      \* the contents of the output file since it was opened
  stream     \* ghost: all the units the file is to contain, padding included

writerVars == <<phase, held, buffer, buffered, rest, written, offset, blocks, file, stream>>

-----------------------------------------------------------------------------
Lesser(a, b) == IF a <= b THEN a ELSE b

\* Mutation of WriteAt: every pwrite sends the block from its first unit.
WriteAtFromFirst(pos, from, n) ==
  [i \in 1..(IF Len(file) < pos + n THEN pos + n ELSE Len(file)) |->
     IF pos < i /\ i <= pos + n THEN buffer[i - pos] ELSE file[i]]

\* The file after n units of the buffer, from unit "from" on, went to pos.
WriteAt(pos, from, n) ==
  [i \in 1..(IF Len(file) < pos + n THEN pos + n ELSE Len(file)) |->
     IF pos < i /\ i <= pos + n THEN buffer[from + i - pos] ELSE file[i]]

\* The contents of memory that posix_memalign returns.
Unset == MaxStream + 1

WriterInit ==
  /\ phase = "new" /\ held = {}
  /\ buffer = [i \in 1..Block |-> Unset]
  /\ buffered = 0 /\ rest = 0 /\ written = 0 /\ offset = 0 /\ blocks = 0
  /\ file = <<>> /\ stream = <<>>

\* allocate_buffer, for a block size that is valid.
Allocate ==
  /\ phase = "new"
  /\ phase' = "allocated"
  /\ held' = {"block"}
  /\ UNCHANGED <<buffer, buffered, rest, written, offset, blocks, file, stream>>

\* The block size is not valid, or there is no memory.
AllocateFails ==
  /\ phase = "new"
  /\ phase' = "failed"
  /\ UNCHANGED <<held, buffer, buffered, rest, written, offset, blocks, file, stream>>

\* open_file: O_TRUNC cuts off what an earlier run left in the file.
Open ==
  /\ phase = "allocated"
  /\ phase' = "ready"
  /\ held' = held \cup {"file"}
  /\ UNCHANGED <<buffer, buffered, rest, written, offset, blocks, file, stream>>

\* The constructor throws; the block stays allocated.
OpenFails ==
  /\ phase = "allocated"
  /\ phase' = "unopened"
  /\ UNCHANGED <<held, buffer, buffered, rest, written, offset, blocks, file, stream>>

\* append is called with n units.
AppendSlots(n) ==
  /\ phase = "ready" /\ Len(stream) + n <= MaxStream
  /\ stream' = stream \o [i \in 1..n |-> Len(stream) + i]
  /\ rest' = n
  /\ phase' = "append"
  /\ UNCHANGED <<held, buffer, buffered, written, offset, blocks, file>>

\* Mutation of Copied: the room left in the block is not looked at.
CopiedAll == rest

\* What append has copied: as much as the block has room for.
Copied == Lesser(Block - buffered, rest)

\* Mutations of AfterFill: append does not notice that it is done, or that the
\* block is full.
AfterFillOn(filled, left) == IF filled = Block THEN "flush" ELSE "append"

AfterFillUnflushed(filled, left) == IF left = 0 THEN "ready" ELSE "append"

\* Where append goes on with so much of the block filled and so much left to copy.
AfterFill(filled, left) ==
  IF filled = Block THEN "flush" ELSE IF left = 0 THEN "ready" ELSE "append"

\* One round of the loop in append.
Fill ==
  /\ phase = "append"
  /\ buffer' = [i \in 1..Block |->
                  IF buffered < i /\ i <= buffered + Copied
                  THEN stream[Len(stream) - rest + i - buffered] ELSE buffer[i]]
  /\ buffered' = buffered + Copied
  /\ rest' = rest - Copied
  /\ phase' = AfterFill(buffered + Copied, rest - Copied)
  /\ written' = 0
  /\ UNCHANGED <<held, offset, blocks, file, stream>>

Padding(n) == [i \in 1..n |-> 0]

\* flush_padded: the unused end of the block is cleared and the block is written.
\* With nothing buffered it returns at once.
FlushPadded ==
  /\ phase = "ready" /\ buffered > 0
  /\ buffer' = [i \in 1..Block |-> IF i <= buffered THEN buffer[i] ELSE 0]
  /\ stream' = stream \o Padding(Block - buffered)
  /\ buffered' = Block
  /\ written' = 0
  /\ phase' = "flush"
  /\ UNCHANGED <<held, rest, offset, blocks, file>>

\* Mutation of Position: the rest of a block goes to the place of its beginning.
PositionOfBlock == offset

\* Where in the file the next pwrite starts.
Position == offset + written

\* Mutations of BlockDone: file_offset_ advances by the last result, and
\* buffered_bytes_ is not reset.
BlockDoneByResult(n) == offset' = offset + n /\ buffered' = 0 /\ blocks' = blocks + 1

BlockDoneStillFull(n) == offset' = offset + Block /\ UNCHANGED buffered /\ blocks' = blocks + 1

\* The end of flush_block, after a last pwrite of n units.
BlockDone(n) == offset' = offset + Block /\ buffered' = 0 /\ blocks' = blocks + 1

\* pwrite stores n units, and the last one ends flush_block.
Pwrite(n) ==
  /\ phase = "flush" /\ n <= Block - written
  /\ file' = WriteAt(Position, written, n)
  /\ IF written + n < Block
     THEN /\ written' = written + n
          /\ UNCHANGED <<phase, offset, buffered, blocks>>
     ELSE /\ written' = 0
          /\ BlockDone(n)
          /\ phase' = IF rest > 0 THEN "append" ELSE "ready"
  /\ UNCHANGED <<held, buffer, rest, stream>>

\* pwrite fails or writes nothing; the exception leaves the block unwritten and
\* destroys the writer.
PwriteFails ==
  /\ phase = "flush"
  /\ phase' = "failed" /\ held' = {}
  /\ UNCHANGED <<buffer, buffered, rest, written, offset, blocks, file, stream>>

\* The writer is destroyed; what is still buffered is gone.
Release ==
  /\ phase = "ready"
  /\ phase' = "closed" /\ held' = {}
  /\ UNCHANGED <<buffer, buffered, rest, written, offset, blocks, file, stream>>

WriterNext ==
  \/ Allocate \/ AllocateFails \/ Open \/ OpenFails
  \/ \E n \in 1..MaxAppend : AppendSlots(n)
  \/ Fill
  \/ FlushPadded
  \/ \E n \in 1..Block : Pwrite(n)
  \/ PwriteFails
  \/ Release

WriterSpec == WriterInit /\ [][WriterNext]_writerVars

\* The calls run to their end: a pwrite that is interrupted is repeated, and
\* comes back at some time.
FairWriterSpec ==
  /\ WriterSpec
  /\ WF_writerVars(Fill)
  /\ WF_writerVars(\E n \in 1..Block : Pwrite(n))

-----------------------------------------------------------------------------
WriterTypeOK ==
  /\ phase \in {"new", "allocated", "ready", "append", "flush", "unopened", "failed", "closed"}
  /\ held \subseteq {"block", "file"}
  /\ buffer \in [1..Block -> Nat]
  /\ buffered \in 0..Block /\ written \in 0..Block
  /\ rest \in Nat /\ offset \in Nat /\ blocks \in Nat
  /\ file \in Seq(Nat) /\ stream \in Seq(Nat)

\* The file is at every moment, between the partial writes of a block and after
\* a failure too, a prefix of what was appended: no unit is lost, repeated or
\* put at another place.
FileIsPrefix ==
  /\ Len(file) <= Len(stream)
  /\ \A i \in 1..Len(file) : file[i] = stream[i]

\* What the file does not hold yet is in the block and in the caller's slots, in
\* this order and completely, whenever the writer can still go on.
NothingLost ==
  /\ offset + buffered + rest = Len(stream)
  /\ \A i \in 1..buffered : buffer[i] = stream[offset + i]

\* Where no call of append or flush_padded is under way.
Idle == {"new", "allocated", "ready", "closed"}

\* O_DIRECT: outside flush_block the file ends at a block boundary, and the
\* server's summary counts the blocks of the file.
WholeBlocks ==
  /\ offset = blocks * Block
  /\ Len(file) = offset + written
  /\ phase \in Idle \cup {"append"} => written = 0

\* The file is open exactly while the writer can be called, and so is the block
\* allocated, but for a constructor that has not opened the file or could not: that
\* one leaves the block to nobody.
HeldInUse ==
  held = CASE phase \in {"ready", "append", "flush"} -> {"block", "file"}
           [] phase \in {"allocated", "unopened"} -> {"block"}
           [] OTHER -> {}

\* The inductive invariant behind these: what each phase knows of the counters.
WriterInv ==
  /\ WriterTypeOK /\ FileIsPrefix /\ NothingLost /\ WholeBlocks /\ HeldInUse
  /\ written < Block
  /\ phase \in Idle => rest = 0
  /\ phase \in Idle \cup {"append"} => buffered < Block
  /\ phase = "flush" => buffered = Block
  /\ phase \in {"new", "allocated"} => stream = <<>>

\* Resuming a partial write never rewrites what the file holds already.
FileOnlyGrows ==
  [][/\ Len(file) <= Len(file')
     /\ \A i \in 1..Len(file) : file'[i] = file[i]]_writerVars

\* append and flush_padded return or throw.
CallsEnd == (phase \in {"append", "flush"}) ~> (phase \in {"ready", "failed"})
==============================================================================
