-------------------------- MODULE CheckPointStream ---------------------------
(***************************************************************************)
(* One instrumented thread and one CheckPointSource of checkpoint_server   *)
(* on the same file-backed ring.  The server maps the ring read-only and   *)
(* shares nothing else with the program: it follows the slots from         *)
(* next_index_ and takes a slot for a new record when its tick is greater  *)
(* than the last one it has seen.                                          *)
(*                                                                         *)
(* The server's reads are separate steps: the first look at tick_, the     *)
(* reads after the acquire fence, and the copy of the whole run.           *)
(*                                                                         *)
(* The program may be killed and started again: it truncates the file of   *)
(* its ring, which the server has mapped, and makes it as long as before.  *)
(***************************************************************************)
EXTENDS Recorder, SequencesExt

CONSTANTS
  Discards,     \* does the program call rollback and commitIfHas?
  LapBefore,    \* may the program overwrite records while no server runs?
  LapAfter,     \* may it overwrite records the running server has not copied?
  Modes,        \* how servers are started: "once" (--once: one pass) or "poll"
  MaxRestarts,  \* bound: restarts of the server
  MaxPrograms   \* bound: restarts of the program

ASSUME StreamAssumption ==
  /\ {Discards, LapBefore, LapAfter} \subseteq BOOLEAN
  /\ Modes \subseteq {"once", "poll"} /\ MaxRestarts \in Nat
  /\ MaxPrograms \in Nat

VARIABLES
  pc,         \* where the server is in copy_available
  mode,       \* options.once of the running server
  nextIndex,  \* next_index_
  lastTick,   \* last_tick_
  slots,      \* slots of committed_run_slots, the length of the run so far
  runLast,    \* run_last_tick
  out,        \* the slots appended to the writer
  restarts,
  file,       \* the file of the ring: "whole", or "cut" to length zero
  programs,   \* how often the program was started again
  history,    \* ghost: every slot ever committed to this ring
  base,       \* ghost: slots written before the one the server starts with
  owed        \* ghost: committed slots when the server started

serverVars == <<pc, mode, nextIndex, lastTick, slots, runLast, out, restarts, base, owed>>
fileVars == <<file, programs>>
streamVars == <<vars, serverVars, fileVars, history>>

\* Whoever has the ring mapped finds its slots in the file.
Mapped == file = "whole" /\ UNCHANGED fileVars

-----------------------------------------------------------------------------
\* Slots the program has written: the committed ones and the open transaction.
Written == history \o Pending

\* Written, with the event that is being stored as it will be.
WrittenInFull == Written \o (IF event = NoEvent THEN <<>> ELSE EventRecord(event))

\* Every slot of the ring is a record of its own, so a server may start anywhere.
OnlyPlain == event = NoEvent /\ \A i \in 1..Len(Written) : Written[i].ext + Written[i].body = 0

\* The program writes n more slots.  Nothing in the code keeps it from
\* overwriting records that have not been copied; that it does not is an
\* assumption on the speed of the server, which LapBefore and LapAfter lift for
\* programs without events.
Fits(n) == \/ pc = "absent" /\ LapBefore /\ n = 1 /\ OnlyPlain
           \/ pc # "absent" /\ LapAfter /\ n = 1 /\ OnlyPlain
           \/ Len(Written) + n <= base + Len(out) + Capacity

Committed(pending) == IF Len(pending) >= MinCount THEN pending ELSE <<>>

Program ==
  /\ Mapped
  /\ \/ \E t \in NextTicks, c \in Categories :
          Fits(1) /\ Add(t, c) /\ UNCHANGED history
     \/ \E t \in NextTicks, c \in Categories :
          Fits(1) /\ Start(t, c) /\ history' = history \o Committed(Pending)
     \/ \E t \in NextTicks, c \in Categories :
          /\ Fits(1) /\ End(t, c)
          /\ history' = history \o Committed(Append(Pending, Plain(t, c)))
     \/ \E t \in NextTicks, kind \in EventKinds, order \in StoreOrders :
          Fits(1 + kind.stored) /\ AddEvent(t, kind, order) /\ UNCHANGED history
     \/ Commit /\ history' = history \o Committed(Pending)
     \/ Discards /\ Rollback /\ UNCHANGED history
     \/ \E c \in Categories :
          /\ Discards /\ CommitIfHas(c)
          /\ history' = history \o (IF Has(c) THEN Committed(Pending) ELSE <<>>)
  /\ UNCHANGED serverVars

Construct == Mapped /\ StoreEvent /\ UNCHANGED <<serverVars, history>>

\* The program is killed, wherever it is, and started again: open truncates the
\* file (O_TRUNC), then ftruncate makes it whole again, all zero; nobody is asked
\* whether a server has it mapped.
CutRing ==
  /\ file = "whole" /\ programs < MaxPrograms
  /\ file' = "cut" /\ programs' = programs + 1
  /\ mem' = [a \in Addresses |-> Empty]
  /\ start' = 0 /\ count' = 0 /\ categories' = {} /\ added' = 0 /\ kept' = 0
  /\ event' = NoEvent /\ history' = <<>>
  /\ UNCHANGED <<mirrored, phase, clock, serverVars>>

ExtendRing == file = "cut" /\ file' = "whole" /\ UNCHANGED <<vars, serverVars, programs, history>>

-----------------------------------------------------------------------------
\* The slot the server looks at, through its own mirrored mapping.
Looked == mem[Phys(nextIndex + slots)]

\* is_empty: where_ is zero only in a slot that was never written.
IsEmpty(s) == s = Empty

\* Mutation of IsNew: a record one tick after the last one is not new.
IsNewLater(s) == ~IsEmpty(s) /\ s.tick > runLast + 1

\* The server's only test for a record it has not copied yet.
IsNew(s) == ~IsEmpty(s) /\ s.tick > runLast

\* Mutations of CheckPointSlots: reserved_ is rounded one slot too high, or ignored.
CheckPointSlotsRoundedUp(s) == 2 + s.ext

CheckPointSlotsHeaderOnly(s) == 1

\* checkpoint_slots: the header and the slots reserved_ asks for.
CheckPointSlots(s) == 1 + s.ext

\* The slots written before the one in cell 0 of the ring: a server always
\* starts at cell 0.
LapStart(written) ==
  IF written > 0 /\ written % Capacity = 0 THEN written - Capacity
  ELSE written - (written % Capacity)

\* A server process maps the ring and makes its first pass.
Launch(m) ==
  /\ pc' = "scan" /\ mode' = m
  /\ nextIndex' = 0 /\ lastTick' = 0 /\ slots' = 0 /\ runLast' = 0
  /\ out' = <<>>
  /\ base' = LapStart(Len(Written))
  /\ owed' = Len(history)
  /\ UNCHANGED <<vars, history>>

Attach == Mapped /\ pc = "absent" /\ \E m \in Modes : Launch(m) /\ UNCHANGED restarts

\* The server is killed at any point and started again, with a new output file.
\* Cell 0 must hold the header of a record then.
Restart ==
  /\ Mapped /\ pc # "absent" /\ restarts < MaxRestarts
  /\ OnlyPlain \/ Len(WrittenInFull) <= Capacity
  /\ \E m \in Modes : Launch(m)
  /\ restarts' = restarts + 1

\* The end of a pass of copy_available: --once leaves, otherwise main polls again.
EndPass == pc' = IF mode = "once" THEN "done" ELSE "scan"

\* committed_run_slots returns: nothing to copy, or a run to append.
EndRun ==
  /\ IF slots = 0
     THEN EndPass /\ runLast' = lastTick
     ELSE pc' = "copy" /\ UNCHANGED runLast
  /\ UNCHANGED slots

\* The loop test and the first look at the next slot.
Look ==
  /\ pc = "scan"
  /\ IF slots < Capacity /\ IsNew(Looked)
     THEN pc' = "fence" /\ UNCHANGED <<slots, runLast>>
     ELSE EndRun
  /\ UNCHANGED <<vars, mode, nextIndex, lastTick, out, restarts, history, base, owed>>

\* After the fence reserved_ and tick_ are read again; an extension longer than
\* the ring is an exception that ends the server.
Measure ==
  /\ pc = "fence"
  /\ LET n == CheckPointSlots(Looked)
     IN  IF n > Capacity THEN pc' = "failed" /\ UNCHANGED <<slots, runLast>>
         ELSE IF slots + n > Capacity THEN EndRun
         ELSE /\ slots' = slots + n
              /\ runLast' = Looked.tick
              /\ pc' = "scan"
  /\ UNCHANGED <<vars, mode, nextIndex, lastTick, out, restarts, history, base, owed>>

\* Mutation of Run: the last slot is not appended.
RunShort == [i \in 1..(slots - 1) |-> mem[Phys(nextIndex + i - 1)]]

\* The slots handed to writer_.append, in one piece in the mirrored mapping.
Run == [i \in 1..slots |-> mem[Phys(nextIndex + i - 1)]]

\* Mutations of NextIndex: the mask is left out, and the advance is.
NextIndexUnmasked == nextIndex + slots

NextIndexInPlace == nextIndex

NextIndex == (nextIndex + slots) % Capacity

\* writer_.append of the run, then the advance; a run that filled the ring is
\* followed by another one in the same pass.
Copy ==
  /\ pc = "copy"
  /\ out' = out \o Run
  /\ nextIndex' = NextIndex
  /\ lastTick' = runLast
  /\ slots' = 0
  /\ IF slots < Capacity THEN EndPass ELSE pc' = "scan"
  /\ UNCHANGED <<vars, mode, runLast, restarts, history, base, owed>>

Server == Mapped /\ (Look \/ Measure \/ Copy)

\* A load from a page that is no longer in the file is a SIGBUS, which ends the
\* server with what its buffers hold.
BusError ==
  /\ file = "cut" /\ pc \in {"scan", "fence", "copy"}
  /\ pc' = "killed"
  /\ UNCHANGED <<vars, fileVars, mode, nextIndex, lastTick, slots, runLast, out, restarts,
                 history, base, owed>>

-----------------------------------------------------------------------------
StreamInit ==
  /\ Init
  /\ pc = "absent" /\ mode = "poll" /\ nextIndex = 0 /\ lastTick = 0 /\ slots = 0 /\ runLast = 0
  /\ out = <<>> /\ restarts = 0 /\ file = "whole" /\ programs = 0
  /\ history = <<>> /\ base = 0 /\ owed = 0

StreamNext ==
  \/ Program \/ Construct \/ Attach \/ Restart \/ Server
  \/ CutRing \/ ExtendRing \/ BusError

StreamSpec == StreamInit /\ [][StreamNext]_streamVars

\* The thread that constructs an event goes on, and so does the polling loop of
\* the server, which never blocks on the program.
FairStreamSpec ==
  StreamSpec /\ WF_streamVars(Construct) /\ WF_streamVars(Server) /\ WF_streamVars(Attach)

-----------------------------------------------------------------------------
StreamTypeOK ==
  /\ TypeOK
  /\ pc \in {"absent", "scan", "fence", "copy", "done", "failed", "killed"}
  /\ mode \in {"once", "poll"}
  /\ nextIndex \in Addresses /\ slots \in 0..Capacity
  /\ lastTick \in Nat /\ runLast \in Nat
  /\ out \in Seq(Slot) /\ history \in Seq(Slot)
  /\ base \in Nat /\ restarts \in 0..MaxRestarts
  /\ file \in {"whole", "cut"} /\ programs \in 0..MaxPrograms

\* The output is a gapless copy of what the program wrote from the first slot on:
\* no slot is skipped, repeated, torn, or left over from an earlier lap, although
\* the server knows neither start_ nor the record boundaries.
OutputIsSegment ==
  /\ base + Len(out) <= Len(WrittenInFull)
  /\ \A i \in 1..Len(out) : out[i] = WrittenInFull[base + i]

\* One pass is enough for --once: it copies all the records that are committed when
\* it starts, apart from the ones that are older than the newest lap of the ring.
OnceCopiesCommitted ==
  pc = "done" => base + Len(out) >= owed

\* The server never believes to be further than the program, and when it has the
\* newest tick it also has the newest record, even after it has been lapped, unless
\* the program was started again between the scan and the copy: what it copies then
\* are the zeros of the new file.
NewestIsCopied ==
  /\ lastTick <= clock
  /\ lastTick = clock /\ clock > 0 =>
       out # <<>> /\ (Last(out).tick = clock \/ (programs > 0 /\ IsEmpty(Last(out))))

\* Every committed slot reaches the output of a server that polls on, unless it is
\* older than the newest lap that the server found.
CommittedIsCopied ==
  \A n \in 1..(2 * MaxTick) :
    (Len(history) >= n) ~>
      (pc = "done" \/ n <= base \/ (n <= Len(history) /\ history[n] \in Range(out)))

\* A server on the file of a program that was started again waits at the slot where
\* it was, which the new program has not come to.
WaitsForSlot == programs > 0 /\ IsEmpty(mem[nextIndex])

\* However often the program laps the server, it gets to the newest record; after a
\* restart of the program it does as soon as the ring has been filled that far, if
\* it did not look while the file was cut.
CatchesUp ==
  \A t \in 1..MaxTick : (clock >= t) ~> (lastTick >= t \/ pc = "killed" \/ WaitsForSlot)
==============================================================================
