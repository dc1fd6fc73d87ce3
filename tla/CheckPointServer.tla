-------------------------- MODULE CheckPointServer ---------------------------
(***************************************************************************)
(* main() of checkpoint_server: one process copies several checkpoint      *)
(* files, one after the other in every pass, until it is asked to stop,    *)
(* and flushes what is left in the blocks of its writers before it exits.  *)
(* Any exception ends main in its catch clause, without a flush.           *)
(*                                                                         *)
(* How a run of slots is found in a ring is the subject of                 *)
(* CheckPointStream, how a block gets into a file that of DirectWriter;    *)
(* here a ring is the number of slots its program has written, and a file  *)
(* the number of them that it holds.                                       *)
(***************************************************************************)
EXTENDS Naturals, Sequences

CONSTANTS
  Count,       \* number of inputs
  InputLists,  \* the command lines: the file name of every input, as the indices
               \* its name begins with and the rest
  Capacity,    \* slots of every ring
  Block,       \* slots of a block of a writer
  MaxRecorded  \* bound: slots the program of each source writes

ASSUME SizeAssumption == Count \in Nat \ {0} /\ Capacity \in Nat \ {0} /\ Block \in Nat \ {0}

ASSUME InputAssumption ==
  /\ MaxRecorded \in [0..(Count - 1) -> Nat]
  /\ InputLists \subseteq [0..(Count - 1) -> Seq(Nat)]

Sources == 0..(Count - 1)

VARIABLES
  once,      \* options.once
  inputs,    \* options.inputs, their file names
  outputs,   \* output_paths, of the sources opened so far
  pc,        \* "open", "pass", "ended", "sleep", "flush", "done" or "failed"
  turn,      \* the source the loop has come to
  anything,  \* copied: has this pass copied anything?
  stop,      \* g_stop_requested
  recorded,  \* slots the program of each source has written
  copied,    \* copied_slots_
  stored,    \* slots in the output file
  seen       \* ghost: recorded when the pass began

serverVars == <<once, inputs, outputs, pc, turn, anything, stop, recorded, copied, stored, seen>>

Running == pc \notin {"done", "failed"}

-----------------------------------------------------------------------------
\* The name with the index of its input put in front of it k times.
Prefixed(name, index, k) == [j \in 1..k |-> index] \o name

\* Mutation of OutputPath: the index is put in front only once.
OutputPathOnce(index, taken) ==
  IF inputs[index] \in taken THEN Prefixed(inputs[index], index, 1) ELSE inputs[index]

\* unique_output_path: the index goes in front until no earlier source has the name.
OutputPath(index, taken) ==
  LET k == CHOOSE k \in 0..Count :
             /\ Prefixed(inputs[index], index, k) \notin taken
             /\ \A j \in 0..(k - 1) : Prefixed(inputs[index], index, j) \in taken
  IN  Prefixed(inputs[index], index, k)

Taken == {outputs[i] : i \in DOMAIN outputs}

BeginPass ==
  /\ pc' = "pass" /\ turn' = 0
  /\ anything' = FALSE
  /\ seen' = recorded

\* The next input is mapped and its output is created.
OpenSource ==
  /\ pc = "open"
  /\ outputs' = Append(outputs, OutputPath(turn, Taken))
  /\ IF turn + 1 < Count
     THEN turn' = turn + 1 /\ UNCHANGED <<pc, anything, seen>>
     ELSE BeginPass
  /\ UNCHANGED <<once, inputs, stop, recorded, copied, stored>>

\* Any exception: an input that is no ring, an output that cannot be created, a
\* record whose extension exceeds the ring, a block that cannot be written.
Fail ==
  /\ \/ pc = "open"
     \/ pc = "pass" /\ recorded[turn] > copied[turn]
     \/ pc = "flush" /\ copied[turn] > stored[turn]
  /\ pc' = "failed"
  /\ UNCHANGED <<once, inputs, outputs, turn, anything, stop, recorded, copied, stored, seen>>

\* The instrumented programs write as long as the server does not fall a lap behind.
Record(s) ==
  /\ Running /\ recorded[s] < MaxRecorded[s] /\ recorded[s] - copied[s] < Capacity
  /\ recorded' = [recorded EXCEPT ![s] = @ + 1]
  /\ UNCHANGED <<once, inputs, outputs, pc, turn, anything, stop, copied, stored, seen>>

\* request_stop, the handler of SIGINT and SIGTERM.
Signal ==
  /\ Running /\ ~stop
  /\ stop' = TRUE
  /\ UNCHANGED <<once, inputs, outputs, pc, turn, anything, recorded, copied, stored, seen>>

-----------------------------------------------------------------------------
\* Mutations of Available: next_index_ is never advanced, and the newest slot is
\* left for the next pass.
AvailableFromStart(s) == recorded[s]

AvailableButOne(s) == IF recorded[s] > copied[s] THEN recorded[s] - copied[s] - 1 ELSE 0

\* The slots that committed_run_slots finds in the ring of source s.
Available(s) == recorded[s] - copied[s]

\* Mutation of BlocksOf: a block is written when it would overflow, not when it is full.
BlocksOfOverfull(slots) == IF slots > 0 THEN (slots - 1) \div Block ELSE 0

\* Full blocks among so many slots that a writer holds or is given.
BlocksOf(slots) == slots \div Block

ToNextSource ==
  /\ turn' = turn + 1
  /\ pc' = IF turn + 1 < Count THEN "pass" ELSE "ended"

\* Mutation of Skipped: copied || source.copy_available() calls it only while
\* nothing has been copied.
SkippedAfterCopy == anything

\* Sources that a pass leaves out: none.
Skipped == FALSE

\* One round of copy_available for the source whose turn it is; a run that filled
\* the ring is followed by another round.
CopyRun ==
  /\ pc = "pass"
  /\ LET n == IF Skipped THEN 0 ELSE Available(turn) IN
     IF n = 0
     THEN ToNextSource /\ UNCHANGED <<anything, copied, stored>>
     ELSE /\ copied' = [copied EXCEPT ![turn] = @ + n]
          /\ stored' = [stored EXCEPT ![turn] = @ + Block * BlocksOf(copied[turn] + n - stored[turn])]
          /\ anything' = TRUE
          /\ IF n < Capacity THEN ToNextSource ELSE UNCHANGED <<pc, turn>>
  /\ UNCHANGED <<once, inputs, outputs, stop, recorded, seen>>

\* A block of the run cannot be written: the ones before it are in the file, and
\* copied_slots_ is what it was.
CopyFails ==
  /\ pc = "pass"
  /\ \E k \in 1..BlocksOf(copied[turn] + Available(turn) - stored[turn]) :
       stored' = [stored EXCEPT ![turn] = @ + Block * (k - 1)]
  /\ pc' = "failed"
  /\ UNCHANGED <<once, inputs, outputs, turn, anything, stop, recorded, copied, seen>>

\* Mutation of LastPass: the stop flag is not looked at.
LastPassOnce == once

LastPass == once \/ stop

\* The end of a pass: flush, another pass at once, or sleep.
EndPass ==
  /\ pc = "ended"
  /\ IF LastPass
     THEN pc' = "flush" /\ turn' = 0 /\ UNCHANGED <<anything, seen>>
     ELSE IF anything THEN BeginPass
     ELSE pc' = "sleep" /\ UNCHANGED <<turn, anything, seen>>
  /\ UNCHANGED <<once, inputs, outputs, stop, recorded, copied, stored>>

\* sleep_for(poll_micros) ends; a signal does not shorten it.
Wake ==
  /\ pc = "sleep"
  /\ BeginPass
  /\ UNCHANGED <<once, inputs, outputs, stop, recorded, copied, stored>>

\* flush_padded: the incomplete block goes to the file with padding behind it.
FlushSource ==
  /\ pc = "flush"
  /\ stored' = [stored EXCEPT ![turn] = copied[turn]]
  /\ turn' = turn + 1
  /\ pc' = IF turn + 1 < Count THEN "flush" ELSE "done"
  /\ UNCHANGED <<once, inputs, outputs, anything, stop, recorded, copied, seen>>

Step == OpenSource \/ CopyRun \/ EndPass \/ Wake \/ FlushSource

ServerInit ==
  /\ once \in BOOLEAN
  /\ inputs \in InputLists
  /\ outputs = <<>>
  /\ pc = "open" /\ turn = 0 /\ anything = FALSE /\ stop = FALSE
  /\ recorded = [s \in Sources |-> 0]
  /\ copied = recorded /\ stored = recorded /\ seen = recorded

ServerNext == Step \/ Fail \/ CopyFails \/ Signal \/ \E s \in Sources : Record(s)

ServerSpec == ServerInit /\ [][ServerNext]_serverVars

\* The server is one thread that waits for nothing but its own sleep.
FairServerSpec == ServerSpec /\ WF_serverVars(Step)

-----------------------------------------------------------------------------
ServerTypeOK ==
  /\ once \in BOOLEAN /\ anything \in BOOLEAN /\ stop \in BOOLEAN
  /\ inputs \in InputLists
  /\ pc \in {"open", "pass", "ended", "sleep", "flush", "done", "failed"}
  /\ turn \in 0..Count /\ (pc \in {"open", "pass", "flush"} => turn \in Sources)
  /\ recorded \in [Sources -> Nat] /\ copied \in [Sources -> Nat]
  /\ stored \in [Sources -> Nat] /\ seen \in [Sources -> Nat]
  /\ \A s \in Sources :
       stored[s] <= recorded[s] /\ copied[s] <= recorded[s] /\ seen[s] <= recorded[s]

\* No two sources write the same file, even where one input is already named as
\* another one would be renamed.
OutputsDistinct ==
  \A i, j \in DOMAIN outputs : outputs[i] = outputs[j] => i = j

\* Exit status 0 means that every file holds everything its source has copied, and
\* at least what its program had written when the last pass began, whatever came
\* first, the signal or the records, and however often the pass had to go round.
CleanExitIsComplete ==
  pc = "done" => \A s \in Sources : stored[s] = copied[s] /\ seen[s] <= copied[s]

\* A source that fails costs every source less than a block of what was copied.
FailureCostsLessThanBlock ==
  \A s \in Sources : copied[s] < stored[s] + Block

\* The inductive invariant behind the two: how far the pass and the flush have come,
\* and that a writer holds less than a block whenever no run is being appended.
ServerInv ==
  /\ ServerTypeOK
  /\ pc = "pass" => \A s \in Sources : s < turn => seen[s] <= copied[s]
  /\ pc \in {"ended", "flush", "done"} => \A s \in Sources : seen[s] <= copied[s]
  /\ pc = "flush" => \A s \in Sources : s < turn => stored[s] = copied[s]
  /\ pc = "done" => \A s \in Sources : stored[s] = copied[s]
  /\ Running => \A s \in Sources : stored[s] <= copied[s]
  /\ FailureCostsLessThanBlock

\* A server that is asked to stop comes to its end.
StopEnds == stop ~> ~Running

\* A polling server copies every slot, or fails or is stopped.
RecordedIsCopied ==
  \A s \in Sources : \A n \in 1..MaxRecorded[s] :
    (recorded[s] >= n) ~> (copied[s] >= n \/ stop \/ once \/ ~Running)
==============================================================================
