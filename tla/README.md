# realperf in TLA+

realperf measures latency inside a C++ program. An instrumented thread writes
16-byte checkpoints to a ring buffer that is mapped twice in a row; a separate
process, `checkpoint_server`, follows the rings of several programs and copies them
to files; `checkpoint_print` turns rings and files into text. Two programs, `pcap_itch_gen` and
`pcap_itch_print`, show how it is used. This directory holds TLA+ models of that system, the TLC configurations that check them on small instances,
and proofs for every value of the constants.

1. [Inventory](#inventory) - the parts, their state, how they interact, what is hard
2. [Modules](#modules) - which module models which part, and how
3. [Runs](#runs) - what each configuration checks, its bounds, fairness
4. [Proofs](#proofs) - what is proved, from what, along which argument
5. [What the models show](#what-the-models-show) - disagreements and limits
6. [What is not modelled](#what-is-not-modelled)
7. [Plan](#plan)

To check a module: `tlc -config Recorder_core.cfg MCRecorder`. To check proofs:
`tlapm RecorderProofs.tla`.

## Inventory

Paths are relative to the repository; `CheckPoint.hpp` stands for
`include/realperf/CheckPoint.hpp`, `server` for `src/checkpoint_server.cpp`.

| Component | State | Operations |
|---|---|---|
| `Recorder` (`CheckPoint.hpp:92`) | `start_`, `begin_`, `end_`, `capacity_`, `minCount_`, `count_` (16 bits), `categories_`; the slots of the ring | `init`, `add`, `addEvent`, `start`, `end`, `commit`, `rollback`, `has`, `commitIfHas`, `totalTicks` |
| `CheckPointSource` (`server:526`) | `next_index_`, `last_tick_`, `copied_slots_`; the ring, mapped read-only | `copy_available`, `flush`, `checkpoint_slots`, `committed_run_slots` |
| `DirectCheckPointWriter` (`server:359`) | `buffer_`, `buffered_bytes_`, `file_offset_`, `direct_blocks_written_`, the descriptor | `append`, `flush_padded`, `flush_block`, `release`, move |
| server `main` (`server:662`) | `options`, `output_paths`, `sources`, `g_stop_requested` | open the sources, passes over all of them, final flush, catch |
| `TickClock` (`TickClock.hpp`) | `anchor_`, `last_`, `scaleTicks_`, `scaleNanoseconds_`, `sampleCount_` | `sync`, `toNanoseconds` and its readings |
| `RingBuffer`, `DoubleMapBuffer`, `MappedCheckPointRing` | descriptor, two views, sizes | construct, move, release |
| `CheckPointScope`, macros (`CheckPoint.hpp:277`) | the recorder and position of a scope | construct, destroy |
| `LiteralString` | global list of literals, 24-bit fingerprints | register, dump |
| `CmdArgs` (`CmdArgs.hpp`) | `args_`, a map from names and numbers to texts | parse, `has`, `find`, `value_for`, `as`; four `parse_options` |
| `checkpoint_print` | literal table, slots of a ring file | read the table, choose and print the slots |
| `pcap_itch_gen` | the packet it makes, the capture it writes; scopes and recordings | `make_itch_message`, `make_payload`, `make_packet`, write |
| `pcap_itch_print` | `Cursor` in a packet; scopes and recordings | `print_pcap`, `print_packet`, `print_itch_message` |
| `itch5` | layouts and sizes of the 23 message types | make, parse, print |

**How they interact.** `Recorder` and `CheckPointSource` run in different processes and
share nothing but the bytes of the ring: neither `start_` nor `count_` is in the
file, so the server does not know what is committed, where a record begins, or how
many laps the program has made. Its only sign of a new record is a `tick_` that is
greater than the last one it took. Nothing flows back: the program never waits for
the server. In the server one thread serves all sources in turn, each with a writer
of its own; only a signal handler interrupts it. `TickClock` is shared between
threads through atomics, without a lock. The tools talk to each other through files.

**What is hard to test, and what correctness means**

- *Recorder.* The wrap-around (`start_` is corrected once, after the stores), the
  width of `count_`, four operations that must reset the same members. Correct: no
  store leaves the mapping; commits keep whole transactions in order; rollbacks and
  short transactions leave no trace; only the oldest slots are lost.
- *Ring and source.* Stores that another core sees one by one, stale slots of
  earlier laps, a server that is late, early, lapped or restarted, and rollback of
  slots that have been copied. Correct: the output is a gapless copy of what was
  written, and every committed slot gets there.
- *Writer.* Partial, interrupted and failing writes, a block that becomes exactly
  full. Correct: the file is at each moment a prefix of what was appended.
- *Server.* A signal or an exception at any point of a pass over many sources; names
  of output files. Correct: a clean exit leaves complete files, an exception costs
  less than a block of every source, a stop request ends the server.
- *TickClock.* A conversion during one or two syncs, a system clock that is set back.
  Correct: exact while the clock keeps its rate, ordered as the ticks are.
- *Mappings.* A failure in the middle of an acquisition, cleaned up from members or from
  locals depending on how far it has come; sizes that round past the top of a word. Correct:
  what is open or mapped belongs to exactly one object; an object is a complete mapping or empty.
- *Command lines.* `CmdArgs` does not know which options take a value, so it may take a word
  for one that is none. Correct: a line that follows the usage text is understood as written.
- *Captures.* Counts, lengths and types come from the packet and become pointers; lengths
  have 16 bits; a stream may go bad in the middle of a packet. Correct: what one program writes the other
  reads back, and no read leaves the packet, whatever is in it.
- *Recordings of the tools.* Scopes and recordings overlap, and exceptions close scopes
  behind the recording that failed. Correct: recordings stay bounded and end whole.
- *Names.* Three bytes for a name: two names of one program, or of two, may share a
  fingerprint. Correct: what is printed was recorded, under its own name or none.

`PROJECT.json` lists every hazard with its line and the properties that cover it.

## Modules

| Module | Models |
|---|---|
| `CheckPointLog` | abstract specification of a recorder: an open transaction and a log of the newest committed slots |
| `Recorder` | `Recorder` on its ring, every operation |
| `CheckPointStream` | extends `Recorder` with one `CheckPointSource` on the same ring |
| `DirectWriter` | `DirectCheckPointWriter`, its constructor included |
| `CheckPointServer` | `main` of the server over several sources |
| `TickClock` | `TickClock`, load by load and store by store |
| `MirroredBuffer` | `RingBuffer`, `DoubleMapBuffer` and `MappedCheckPointRing` as owners of descriptors and mappings |
| `Itch5` | layouts, sizes, makers, `parse_message` and the printed members of `itch5.hpp` |
| `CmdArgs` | the map that a command line becomes, and its queries |
| `ToolOptions` | extends `CmdArgs` with the four `parse_options` and with the usage texts |
| `ItchTools` | extends `Recorder` and `Itch5`: `pcap_itch_gen` and `pcap_itch_print`, each on a ring of its own |
| `ToolChain` | extends `ItchTools` and `ToolOptions`: the tools and `checkpoint_print`, one after the other |
| `MC...` | constants for TLC |
| `...Proofs` | theorems |

**Recorder.** Offsets are counted in slots from `begin_`; `start`, `count`, `categories`
are the members, `mem` the physical slots, `Phys` the double mapping. `added` and `kept`
are ghosts: the true length of the transaction (`count` may wrap) and the length of the
log. A plain checkpoint is one action (`storeCheckPoint` is one 128-bit store). An event
takes four: `AddEvent` enters the constructor and `StoreEvent` stores one of three parts
(payload, the rest of the header, the tick) in the order that `StoreOrders` allows. The
source gives no order, since the stores are ordinary ones: the runs use the order of the
text and the one GCC 12 emits at -O2 for payloads of three words. In a slot the model keeps
what decides anything: the tick, the extension that `reserved_` declares, the category,
and, for payload slots, what their bytes look like when they are read as a header.
`mustHaveCategories_` is never read by the code and has no variable. A guard
`added + n <= MaxPending` bounds the transaction a program opens; the code has none.

**CheckPointLog** is what the recorder promises: `Recent` and `Pending` of `Recorder` (read
back from the ring through `start` and `count`'s true value) are its `recent` and `txn`.

**CheckPointStream.** `Look` is the test of the loop and the first read of the tick,
`Measure` the reads after the acquire fence, `Copy` the append of the run and the advance of
`next_index_`; the program may take steps between any two. `Attach` starts a server,
`Restart` kills one and starts another with a new output file, `--once` or polling. The program
may be killed too, wherever it is: `CutRing` is the `open` with `O_TRUNC` of the next one, `ExtendRing`
its `ftruncate`, `BusError` a server that looks in between. Ticks go on, as the processor's counter does.
`Fits` states how far the program may run ahead: within a lap of the server, or, with
`LapBefore` and `LapAfter`, without limit but with plain records only. The second copy of a
run while the program overwrites it is atomic in the model (`Copy`): a record is a 128-bit
unit and is overwritten as a whole, but a run that is overwritten while it is being copied
may have an old beginning and a new end, which the runs with `LapAfter` do not show.

**DirectWriter.** Sizes are in units, the granularity of a partial write. `Fill` is a round
of the loop of `append`, `Pwrite(n)` a pwrite that stores n units, `PwriteFails` one that
throws. EINTR repeats the call and changes nothing, so it has no action. The constructor is
`Allocate` and `Open`, either of which may fail; `held` is what is allocated and open. A move
hands on every member and has no action.

**CheckPointServer.** A ring is the number of slots its program has written, a file the
number it holds: how a run is found is the subject of `CheckPointStream`, how a block gets
to a file that of `DirectWriter`. `pc` and `turn` are the position in `main`: opening the
sources, the passes, the end of a pass, the sleep, the flush. `CopyRun` is one round of
`copy_available` (a run that fills the ring is followed by another round), `CopyFails` a
round in which the k-th block cannot be written, `Fail` every other exception. File names
are sequences, as long as `unique_output_path` needs them: the name and the indices put in
front of it.

**TickClock.** Each thread in `sync` holds its sample and its reading of `sampleCount_`, as
the locals of the function do; each store is a step. `Advance` lets time pass and
`WallSteps` says what the system clock does meanwhile. `takeSample` is one step, as if no
thread were suspended between its three reads, and clamping to 64 bits is left out
(`system_clock` in nanoseconds stays below 2^63 until 2262).

**MirroredBuffer.** The three classes acquire a descriptor, a reservation and two views in the same
order, and differ in the checks before, in how the file gets its size, and in where the descriptor is
kept until then: `ctor` is the running constructor with its class, next system call and locals, `own` the
members of each object. Every system call is a step and may fail (`OpenFails`, `TruncateFails`,
`ReserveFails`, `MapFails`, and `ValidateSize` for a file the server rejects), which runs the cleanup of
that point. `openFds`, `views` and `span` are the system's tables; a descriptor or area that was given back
is free for the next constructor. The code is single-threaded, so moves and destructions come between constructors.
`size` counts bytes of a word of `WordMod`; `std::bit_ceil` beyond the highest power of two is undefined and
modelled as the two values its shift may give, 0 and 1. What is written through the views is the subject of
`Recorder` (`Phys` is the mirroring). The block and descriptor of the writer are in `DirectWriter`.

**CmdArgs** and **ToolOptions.** A word of a command line is a plain text or an option, with or without
`=`; `Args` is the map `args_`, which has the plain words under their numbers. `Settings` and `Flags` are
what each `parse_options` asks for, `ParseOptions` what it makes of a line: usage, help, an exception, or the
values, flags and inputs of a run. The usage texts are modelled beside it (`UsageValue`, `UsageInputs`,
`WellFormed`) as their reader would apply them, from the lists of options with and without a value.
Only the digits in `Numerals` are numbers.

**Itch5.** Bytes are a sequence of fields with a width and a value, a struct the widths of its members.
`ReadAt` finds a value only where a field of that width begins, and `Garbage` otherwise, so a message that is read
as another struct, or at another offset, does not come out right.

**ItchTools.** `pc` is the place in the tool, `stack` the `CheckPointScope`s that are alive, `view` the
UDP payload and the cursor in it. A step makes at most one call of `Recorder`, whose tick is a count from the launch:
`marks` keeps `type_` and `where_`, which `Recorder` leaves out. The straight-line parts of gen are
`GenLine`s. An exception (`Throw`) goes to `"unwind"`, where each `Unwind` is the destructor of one scope, and then
to `Catch`. A packet of `pcap_itch_gen` has the fields it was given; a read of an arbitrary one
finds any of `Ethers`, `VersionIhls`, `UdpLengths`, `Counts`, `Lengths` and `Types`. `Write` may fail for good at any packet
and leave part of it (`torn`). `reach` is a ghost, the end of the last read in the packet. `ToolsSpec` is any sequence of
runs of the two tools.

**ToolChain.** A run begins with a command line (`RunGen`, `RunPrint`), which must come out of `ParseOptions`.
`PrintCheckpoints` is `checkpoint_print` on the ring that the last tool left: it changes nothing and is one action. `Try`
is a command line on its own. FNV-1a is a constant, a function `hash` from names to 32-bit numbers: any of `Hashes`.

## Runs

| Run | Question | Bounds |
|---|---|---|
| `Recorder_core` | does the ring recorder implement the log, and stay inside the mapping? | ring of 4, 6 ticks, events of 2 and 3 slots, both store orders, minCount 2 |
| `Recorder_count_wrap` (violated) | ... and when a transaction reaches the modulus of `count_`? | ring of 8, modulus 4 |
| `Stream_copy` | is the output gapless and complete when the program stays within a lap? | ring of 4, 6 ticks, one-slot events, one restart, `--once` and polling, any start |
| `Stream_lapped` | what is left of that when the program laps the server as it likes, and truncates the ring under it? | ring of 2, 6 ticks, one restart of the program |
| `Stream_rollback` (violated) | is every committed slot copied if the program rolls back? | ring of 4, 3 ticks |
| `Stream_torn_event` (violated) | is the output what was written if the tick of an event is stored before its payload? | ring of 4, 5 ticks |
| `Writer_blocks` | does the file stay a prefix under partial and failing writes? does a failing constructor leak? | block of 3, appends up to 5, 12 units |
| `Server_main` | do all sources end complete, whatever happens when? | three sources, ring of 3, block of 2, 4 + 2 + 1 slots, two lists of names |
| `Buffers_owned` | does every mapping and descriptor have exactly one owner, whatever fails? | 3 objects, descriptors and areas, word of 5 bits, page of 4, slot of 2 bytes, every size |
| `Clock_sync` | are conversions exact and ordered with two threads in sync? | 2 ticks, 2 syncs, 2 conversions, clock steps -1 and 2 |
| `Clock_torn` (violated) | does a conversion during a sync keep the order? | one thread in sync, 4 ticks |
| `Tools_chain` | does each tool read what the one before has written, on any capture and command line? | chains of 3 runs, ring of 16, captures of up to 2 packets, lines of up to 4 words out of 7 |

What the properties say is in the comment before each definition. Beyond the type invariants:

- `Recorder_core`: `ImplementsLog` (the refinement), `NeverOutside`, `CategoriesMatchPending`
  (what `commitIfHas` decides on), `TotalTicksIsSpan`, and `RecorderInv`, the inductive
  invariant of the proofs.
- `Stream_copy`: `OutputIsSegment` (no slot skipped, repeated, torn or left over),
  `CommittedIsCopied` (liveness), `OnceCopiesCommitted` (one pass is enough for `--once`). Slots older than the
  lap of the ring in which a server starts are not owed by it.
- `Stream_lapped`: `NewestIsCopied`, `CatchesUp` (liveness); what both leave out is what happens after a
  restart of the program: zeros are copied for records that the server has scanned before, records in front of
  `next_index_` are lost until the ring is filled that far, or the server is killed by SIGBUS.
- `Writer_blocks`: `FileIsPrefix`, `NothingLost`, `WholeBlocks`, `FileOnlyGrows` (an action
  property), `CallsEnd` (liveness), and `WriterInv`.
- `Server_main`: `OutputsDistinct`, `CleanExitIsComplete`, `FailureCostsLessThanBlock`,
  `StopEnds` and `RecordedIsCopied` (liveness), and `ServerInv`.
- `Buffers_owned`: `NothingLeaks`, `OwnedOnce`, `LiveIsMirrored`.
- `Clock_sync`: `UntornIsExact`, `OrderBetweenSyncs`.
- `Tools_chain`: `ReadAsWritten` (a command line that is well formed by the usage text is
  understood as it is written), `PacketsReadBack` (packet *i* comes out with sequence number *i* and
  the fields of its message, unless the file ends before), `ReadsStayInside`,
  `RecordingFits`, `EndsWhole` (every scope that was entered has its end in the ring, however the tool ends; the
  printer leaves nothing uncommitted, the generator the last packet's recording),
  `PrintedIsRecorded` (the lines of `checkpoint_print` are the newest records, each once, with one step back in
  time at most, under its own name or none, unless two names share a fingerprint).

**Why the bounds are enough.** A ring of four slots with six records wraps in the middle of
every kind of record and lets a transaction begin at every offset, fill the ring and end at
its last slot; the second lap meets leftovers of every kind from the first. Two laps suffice
because a slot remembers one record. A block of three units is cut by partial writes into
every split and appends of up to five span a block boundary twice. Three sources are one
before, one at and one after any source the loop has come to; the first one fills its ring
and two blocks in a run. Two syncs and one conversion with three loads are all that a torn
scale needs; two conversions are what an order needs. Two
objects can be live while a third is constructed from what an earlier one gave back; five bits hold sizes whose rounding
and doubling wrap around, and every size of that word is asked for; objects, descriptors and areas are
interchangeable, so symmetry is sound (no liveness is checked there). In `Tools_chain` a ring of 16 just holds the recording of one generated packet
and wraps in the middle of it; three runs are the longest chain of different tools. Sizes are the ends of
ranges: 96 for raw packets, 100 for the smallest and the largest message in one size,
65569, the largest whose UDP length fits 16 bits, and 65570. Foreign packets are one byte too short, just long enough,
and with room for two messages; lengths and counts are the ends of their ranges and the values around the sizes of a
header and of a message. Four words are an option, its value, an input and one too many. The three hash functions have a
name that is 0 in 24 bits, two names of one program that share a fingerprint, and two of different programs. The chain ends after
`checkpoint_print`, since that changes nothing. Named bounds (`MaxTick`, `MaxPending`,
`MaxRestarts`, `MaxAppend`, `MaxStream`, `MaxRecorded`, `MaxSyncs`, `MaxConversions`, `MaxPrograms`, `MaxRuns`) only cut the runs short.

**Deadlock** is not checked where a run really ends: a released or failed writer, a server
that has exited, a clock at the end of its ticks. In `Tools_chain` it is checked: a tool always gets to an
exit (`MaxPending` never blocks a call there), and the end of a chain is an action (`Done`).

**Fairness.** `CheckPointStream`: weak fairness of `Server` (a loop that never blocks on the
program), of `Construct` (a thread in the middle of a constructor goes on) and of `Attach` (a
server is started at all); none of the program's calls. `DirectWriter`: of `Fill` and of
`Pwrite` (the call returns; `EINTR` retried). `CheckPointServer`: of `Step`, the steps of the one
thread of the server, which waits for nothing but its own sleep; none of programs, signals
and failures. `Clock_sync`, `Buffers_owned` and `Tools_chain` have no liveness property and no fairness.

## Proofs

| Theorem | States |
|---|---|
| `RecorderInvariant`, `RecorderTypeOK`, `StoresStayInside` | `RecorderInv`, `TypeOK`, `NeverOutside` always hold |
| `RecorderContent`, `CategoriesAsPending`, `TotalTicksAsSpan` | `ContentInv`, `CategoriesMatchPending`, `TotalTicksIsSpan` |
| `LogImplemented` | `ImplementsLog`: `Recorder` refines `CheckPointLog` |
| `StreamTypes`, `NewestCopied` | `StreamTypeOK`; `NewestIsCopied` for programs without events |
| `CopyIsSegment`, `OnceCopies` | `OutputIsSegment`, `OnceCopiesCommitted` for the programs and servers of `Followed` |
| `WriterInvariant`, `WriterTypes`, `OutputIsPrefix`, `WriterLosesNothing`, `BlocksWhole`, `OutputOnlyGrows` | `WriterInv`, `WriterTypeOK`, `FileIsPrefix`, `NothingLost`, `WholeBlocks`, `FileOnlyGrows` |
| `ServerInvariant`, `ServerTypes`, `CleanExitComplete`, `FailureCostBounded` | `ServerInv`, `ServerTypeOK`, `CleanExitIsComplete`, `FailureCostsLessThanBlock` |
| `OutputsAreDistinct` | `OutputsDistinct` |
| `ClockInvariant`, `ClockTypes`, `UntornExact`, `OrderedBetweenSyncs` | `ClockInv`, `ClockTypeOK`, `UntornIsExact`, `OrderBetweenSyncs` |
| `BufferTypes`, `BuffersNeverLeak`, `BuffersOwnedOnce`, `BuffersMirrored` | `BufferTypeOK`, `NothingLeaks`, `OwnedOnce`, `LiveIsMirrored` |
| `OptionsAsWritten`, `RunsAsWritten`, `LinesReadAsWritten` | `ReadAsWritten`: first the map and what is made of it, for lines of any length, then the property of `ChainSpec` |
| `CursorInvariant`, `ReadsInside`, `RecordingsFit` | `ReadsInv`, `ReadsStayInside`, `RecordingFits`, for `ToolsSpec` |
| `ToolsRun`, `ToolsTypes`, `RecordsEndWhole` | `RunInv`, `ToolsTypeOK`, `EndsWhole`, for `ToolsSpec` |
| `CapturesReadBack` | `PacketsReadBack`, for `ToolsSpec` |
| `ChainRunsTools` | `ChainSpec => ToolsSpec`, so that the four rows before hold of a chain as well |
| `RecordsArePrinted` | `PrintedIsRecorded`, for `ChainSpec` |

**Recorder.** Assumed of the program, as `BoundedTransactions`: no transaction is longer than
the ring or than `count_` can count, and its storage is mirrored. Nothing in the code enforces the first
two (for the count, the run `Recorder_count_wrap` shows what happens otherwise). `NeverOutside` is not inductive:
that a store stays inside needs `count = added` (no wrap) and `start` within the ring, and that
commit leaves `start` there, with a single correction, needs the transaction to fit in the ring. The
slots promised to an event in progress count as well (`Reserved`), since its last part adds them
to `count_` only at the end. Hence `RecorderInv`.

**Contents and the log.** The refinement is a fact about the contents of the ring, of which `RecorderInv` says nothing.
`ContentInv` adds what is there between the stores of an event: the parts that have gone out (`EventPlaced`, in any
`StoreOrders` in which every part occurs), `categories` as the categories of the pending headers, the last tick in
the last record. `Pending` and `Recent` are read from stretches of the ring, so there is a lemma for each operation that says which cells it
writes and hence how the two sequences read afterwards (`AddAppends`, `StartBegins`, `EndAppends`, ...). From these,
`NextImplementsLog` finds for each action of `Recorder` the one of `CheckPointLog` that it is: `AddEvent` is `MakeRoom`,
since the old slots go when the event is begun, the last `StoreEvent` is `Write`, and those before it change nothing. `body`, in a slot, is a ghost that tells a payload from a
header; it is the tick of the event plus one, so that it is not 0 in a payload even where a caller's own tick is 0.

**Ring and server.** `NewestCopied` needs no hypothesis about speed: a record is overwritten by a later one,
so the last slot of a run is no older when it is copied than when it was measured (`NoOlder`). It is about programs without events: behind an
event the last slot of the output is payload, which has no tick to compare. `CopyIsSegment` and `OnceCopies` are about the
programs and servers of `Followed`, for each of whose conjuncts there is a reason:

- everything written is committed (`MinCount <= 1 /\ ~Discards`): otherwise `Stream_rollback`;
- the program stays within a lap of the server (`~LapAfter`), and its file is not truncated (`MaxPrograms = 0`): otherwise what
  `Stream_lapped` shows;
- ticks increase (`0 \notin TickSteps`): a record with the tick of its predecessor is not seen (`server:629`);
- the tick of an event goes out last: otherwise `Stream_torn_event`;
- an event has members, as many as its header declares, and its payload does not read as a later tick: for the other
  two see [What the models show](#what-the-models-show).

The run `Stream_copy` is one instance of `Followed`. The hypothesis holds for any ring, any number of laps and of server
restarts, and any length of events. The invariant `CopyInv` has three parts. The log is a sequence of whole records with increasing ticks
(`RecordsInv`). The ring holds its newest slots, and the cell behind it does not look new (`RingInv`), whether that cell is
empty, a payload, or the header of a record one lap older: this is where the order of the stores of an event counts.
The server stands between two records, no lap behind, with everything it has copied equal to the log, and `run_last_tick` is the tick
of the record that ends where it looks (`Following`). Then a cell whose tick is greater is the next
record of the log, `Measure` never takes more slots than the ring has or than have been written, and the loop can only stop at
the end of the log, which is what `OnceCopies` needs.

**Writer.** For every block size. `FileIsPrefix` needs to know that the bytes about to be
written are the right ones, so `WriterInv` relates buffer, file and stream (`NothingLost`), the
block boundaries to the offset (`WholeBlocks`), and each phase to its counters: a block is full in
`flush` and not full elsewhere. `HeldInUse` is part of it: the constructor whose `open` failed is the only
place that leaves something allocated.

**Server.** For any number of sources, any ring and block size. `CleanExitIsComplete` speaks of
the last state only, so `ServerInv` says how far the pass and the flush have come: the sources
before `turn` have been copied up to what was there when the pass began; in a flush, the ones before
`turn` are stored. A writer holds less than a block between two rounds: the lemma `FullBlocks`
about division, for the round that succeeds and the one that fails.

That outputs are distinct rests on `unique_output_path`, which puts the index in front until the name is free. It comes to an end by the
pigeonhole principle: put in front up to as many times as there are sources, it makes more names than are
taken (`FS_PigeonHole`). The least of these numbers is the one at which the loop stops, and a set of natural numbers that is not empty has a smallest member (`SmallestIn`, from the well-foundedness of `<`).

**Clock.** For any number of threads in `sync`, any rate and any course of the system clock. Assumed is that ticks stay below
half of the word (`MaxTick < Modulus \div 2`): `tickDelta` takes the smaller of the two unsigned differences for the right one. `ClockInv`
says what a thread holds between its loads and stores. While the system clock keeps its rate, so
does everything that was taken from it, at whatever store the other threads are (`ExactInv`): a scale is the rate or has
parts of two syncs, in which case the conversion counts as torn. For the order of conversions, `OrderInv` says that what has been loaded
since the last store is what is there, and that a conversion during which nothing was stored was made of it: two
conversions between the same stores have the same anchor and the same scale, and division and multiplication keep the
order (`DivMonotone`, `ProductMonotone`), also with a scale that is torn.

**Mirrored buffers.** For any number of objects and every word, page and slot size; assumed is that slots of a power
of two make a power of two bytes (`SlotAssumption`: a `CheckPoint` has 16). The three properties are about the moments
between constructors, so `BufferInv` says for each stage of a constructor what it has acquired and whether a
member or a local holds it (`CtorInv`), and that everything open or mapped is held by one of them
(`Accounted`). That `DoubleMapBuffer` never maps less than it was asked for, although `n + page - 1` may wrap, rests on
`DoubleSizeFits`: a size that wrapped is 0 or 1, and neither can be mapped twice.

**Command lines.** For each of the four programs and lines of any length, over any words. Assumed is that no
option is named like a number (`NamesAreNoNumbers`): such an option would be taken for an input. The
argument: on a well-formed line, which follows the usage text and has no flag in front of an input, the word behind an option is its value exactly if the option
has one (`OptionsAreNoValues`, `ValuesAsUsage`), so that an option is in the map if and only if it
is given (`GivenAsWritten`), and `find` over the aliases of a setting meets the one that was given, since there is only one.
That the remaining words are the inputs in their order is a comparison of two functions that run along the line:
`Positionals` steps over each option and, if it takes one, the word behind it, `UsageInputs` over the options and the words
the usage text makes their values. `Kept` says what such a function keeps, and on a well-formed line both skip the same words
(`InputsAsWritten`). The inputs are then found under their numbers if no two numbers are written alike (`PositionsDiffer`) and
there is a number for each of them. `LinesReadAsWritten` assumes both of every line a program is started with (`LinesRead`), and
`NamesAreNoNumbers` of all four programs.

**Cursor and recordings.** For any sequence of runs of the two tools, any capture of whole packets with a size each
(`CapturesAssumption`), and any values found in them that their widths allow (`ReadsAssumption`). `ReadsInv`
says at each place of `print_packet` what has been compared so far: at `"mold"` that the UDP payload is inside the packet, at
`"messages"` that the cursor is inside the payload, at `"parse"` that the message is. That the struct which a message is cast to is
not longer than the size `parse_message` asks for is `StructSizes`, an assumption over the 23 types that TLC
evaluates (in the code, a `static_assert`). `MadeInv` counts: `"messages"` has at most three records per 13
bytes behind the cursor, since a message has a length prefix of 2 bytes and a header of 11; and since each scope that an
exception leaves adds a record, what is bounded is records and open scopes together (`Unwound`).

That a recording ends whole is assumed for recordings that fit the ring (`BoundedTransactions`) and for a ring that
drops none for being short (`MinCount <= 1`; both tools pass 1). Every step of a tool makes
one call of the recorder or none (`Call`), so `RecorderInv` carries over, and with `MarksInv` there is a mark for each
record. An exception may come at any place, so nothing can be said of the record by the place alone: `ScopesInv` says that the
scopes alive are, name by name, the beginnings without an end (counted by `Times`), and `Unwind` runs until none is alive.
`Filled` says that what the ring shows is the whole recording or a full ring of it. For a generator that succeeds, `GenEnds` has
at each place the number of records since the `START` of the packet, so that the last packet's are in the ring and
pending. `ToolsSpec` starts no generator with a count of 0, which `parse_options` rejects (`pcap_itch_gen.cpp:182`).

**What is read back.** `CapturesReadBack` is about any number of packets of any size and any message of the five makers.
`Put` and `ReadAt` meet through offsets: `Ends` gives the end of each field as the sum of the widths up to it, and a value is
found where a field of that width begins. Both are recursive functions, and what they compute is proved for every length by a step
from n to n + 1 and the smallest number for which it fails (`StepByStep`, from `SmallestIn`), since the induction theorems of the
library cannot be used here. So the fields of a made packet are where `print_packet` reads its counts and
`print_itch_message` its members, for each of the five layouts that a maker fills. The invariants of the run (`CaptureInv`, `BackInv`) then say at every
place that the packets shown so far are the first ones of the capture, with the sequence number and the message of each, and
that a packet that is missing was lost by the file (`torn`). A capture that is not from the generator is assumed to be marked as
foreign, or to be as `make_packet` makes it (`GeneratedAssumption`).

**A chain of programs.** `ChainRunsTools` is a refinement without hypotheses of its own: what a program is started with comes
out of `ParseOptions`, and a number that does so has been converted from a text of the line or is a default of the program, which
`DefaultsAssumption` says is one of the model's numbers. So `RunGen` and `RunPrint` are runs of `ToolsSpec`, and `Try` and
`RunCheckpointPrint` leave its variables alone.

**What is printed.** `RecordsArePrinted` needs the contents of the ring slot by slot, which the log of `ContentInv` does not give:
`RingInv` says that the tools' ring holds a lap in its cells before `NextSlot` and the lap before it, or nothing, in the others,
each with its tick; as the tick of a mark is its number, a slot leads to its mark. `LiteralsInv` says that marks and open scopes bear
names that the program registers, so that a dump has a row for each. `print_checkpoints` goes through the file slot by slot, by one
of the recursive functions above (`ChosenUpTo`): what it chooses is ascending and, without a limit, complete, and in a ring of two laps
ascending slots have ticks that step back once, where the new lap ends. The rows that survive `ReadTable` give a fingerprint
the name that was registered for it, unless another name has it (`ReadNames`). Assumed is a recording that fits the ring and is not dropped
for being short, as above, that every registered name has a hash, and that a table is made of the two dumps and edited rows
(`HashesAssumption`, `TablesAssumption`). `ReportInv` keeps what was shown: nothing changes after it.

**Model-checked only.** Every liveness property (`CommittedIsCopied`, `CatchesUp`, `CallsEnd`, `StopEnds`,
`RecordedIsCopied`), since liveness under fairness is out of the prover's reach. Every invariant and action property of the
passing runs is stated by a theorem, for the programs that the paragraphs above name.

## What the models show

Disagreements between the code and what it says of itself, each with a run that TLC refutes:

1. `count_` wraps at 65536 while the default ring has 1048576 slots: commit then drops a
   transaction (`CheckPoint.hpp:208`, `Recorder_count_wrap`).
2. The server copies what is not committed. After a rollback it is ahead of the program,
   and what is committed in the place of those slots is never copied (`server:571`, `Stream_rollback`).
3. An event's tick can become visible before its payload, as there is no release on the
   writer's side (`CheckPoint.hpp:226`, `Stream_torn_event`).
4. A conversion during a sync may pair halves of two scales (`TickClock.hpp:75`, `Clock_torn`).

Limits met while modelling, outside the runs' assumptions:

- `add` does not test the capacity (`CheckPoint.hpp:198`): a transaction longer than the ring overwrites its own beginning, and
  may end so far behind the first view that commit, which subtracts the capacity once, leaves `start_` at `end_`; the next
  one then leaves the mapping. `NeverOutside` fails as soon as `MaxPending` exceeds `Capacity`.
- `totalTicks` after an event reads a payload slot (`:134`). `init` rebinds the recorder before it rejects the
  storage (`:109`).
- An event type without members is one slot for the recorder and two for the server (`server:613`).
- A record with tick 0, or with the tick of its predecessor, stops the server until the next
  lap (`server:629`).
- A server that is started on a ring that has wrapped begins at slot 0 (`server:650`): it sees the newest
  lap only, and slot 0 may lie inside an event.
- The payload of an old event that reads as a later tick passes for a new record (`server:629`): with such events
  `OutputIsSegment` fails. The events of the runs have payloads that read as old ticks.
- A program that fills the ring during every round keeps the server in `copy_available` of
  that source (`server:577`).
- Two threads in `sync` lose a count, and can leave a torn scale behind until the next sync.
- The block of `DirectCheckPointWriter` leaks when the output file cannot be opened (`server:378`).
- A flag in front of an input takes it for its value (`CmdArgs.hpp:30`): `checkpoint_server --once FILE` ends with the usage text
  that allows it, `FILE --once` does not. `ReadAsWritten` leaves these lines out (`NoFlagBeforeInput`), and fails with them.
- Of two aliases the one that the program asks for first counts, not the last on the line (`CmdArgs.hpp:48`). An
  option named like a number replaces an input. `--suffix ""` is rejected by the conversion of its value, before the
  server's own check of it is reached.
- `pcap_itch_gen` ignores errors of its output stream and succeeds with an incomplete capture (`pcap_itch_gen.cpp:455`), and
  writes packets of 65570 bytes and more with a UDP length that has wrapped (`:372`).
- Without `--checkpoint-file` the recorder of a tool stays on the default ring of 256 slots, as with
  `--checkpoint-capacity 256`: for a packet with more than 84 messages the printer makes a recording that is longer than this ring
  (`pcap_itch_print.cpp:324`), with what `add` then does. The default capacity of `--checkpoint-file` is enough for any packet.
- `checkpoint_print` takes the payload slots of an event for checkpoints of their own.

## What is not modelled

- `TickTimer` is a subtraction of two counter readings and a measurement of the hardware.
- The umbrella and unused headers, the version string and the build files have no behaviour.
- The contents of names and texts and the layout of printed lines are left out throughout; so are addresses, ports,
  checksums and times of packets, which the tools carry along and never decide on, and the order of bytes.
- FNV-1a is not computed: the models hold for any hash.
- A chain starts its tools with `--checkpoint-file` (`Recorded`). Without it `init_checkpoint_recorder` leaves the recorder on the
  default ring, of 256 slots and a `minCount_` of 4, which no one reads: `Recorder` has every ring and `minCount_`, but
  the runs and theorems about whole recordings are about a ring of the tool's own.
- `checkpoint_print` is modelled on the ring of a finished program, not on that of a running one, where a slot may be
  torn as in `CheckPointStream`, or on the server's output, whose padding it prints or skips like empty slots.
- When an exception leaves `main` of the printer, the commit in the catch clause comes after the ring is unmapped. It
  computes offsets only and touches no slot, so the model keeps the ring for it.
- `as<bool>`, `as<double>` and conversion by a stream, which no program uses.

## Plan

In this order, the most important behaviour first. Done: the abstract log, the recorder and its
proofs, the ring between two processes and a restart of either, the writer with its constructor and its proofs, the
server and its proofs, the clock, the mirrored mappings and their proofs, the command lines, the two ITCH programs,
`checkpoint_print` and literals, and the first proofs about these; then the refinement of the log, the
copy of the server on a shared ring, the clock, the names of the outputs, and the types and the whole recordings of
the ITCH programs; last what the programs read back of each other: command lines, captures, and the records that
`checkpoint_print` shows.

Left: what remains of `OutputIsSegment` when the program laps the server, namely that the output is a segment between two
laps. It needs a property that says so and a run for it before a proof.
