------------------------------ MODULE TickClock ------------------------------
(***************************************************************************)
(* realperf::TickClock: threads that call sync() now and then measure how  *)
(* many nanoseconds of the system clock pass per tick of the processor,    *)
(* and other threads convert ticks at any time.  There is no lock: the     *)
(* anchor is one 128-bit store, the scale two atomic variables, and every  *)
(* load and store is a step of its own, in the order of the source.        *)
(*                                                                         *)
(* takeSample is one step, as if a thread were never suspended between its *)
(* three reads.  Clamping to 64 bits is left out: system_clock stays below *)
(* 2^63 ns until 2262.                                                     *)
(***************************************************************************)
EXTENDS Integers, Sequences

CONSTANTS
  Syncers,        \* the threads that call sync
  Rate,           \* nanoseconds per tick, as measureFrequency finds it
  WallSteps,      \* nanoseconds by which system_clock may advance during a tick
  Modulus,        \* Tick is a std::uint64_t: it counts modulo 2^64
  MaxTick,        \* bound: ticks of the run
  MaxSyncs,       \* bound: calls of sync
  MaxConversions  \* bound: calls of toNanoseconds

ASSUME ClockAssumption ==
  /\ Rate \in Nat \ {0} /\ WallSteps \subseteq Int
  /\ Modulus \in Nat \ {0} /\ MaxTick \in Nat /\ MaxTick < Modulus \div 2
  /\ MaxSyncs \in Nat /\ MaxConversions \in Nat

VARIABLES
  tick, wall,            \* the processor's tick counter, and system_clock
  anchor, last,          \* anchor_, last_
  scaleTicks, scaleNs,   \* scaleTicks_, scaleNanoseconds_
  sampleCount,           \* sampleCount_
  sync,                  \* what each call of sync holds in its locals
  reader,                \* what the running conversion holds in its locals
  results,               \* ghost: the conversions that have ended
  steady,                \* ghost: has system_clock kept to Rate so far?
  measured,              \* ghost: every scale that was measured by a sync
  stores,                \* ghost: stores to the anchor and to the scale
  syncs                  \* ghost: calls of sync

clocks == <<tick, wall, steady>>
shared == <<anchor, last, scaleTicks, scaleNs, sampleCount>>
clockVars == <<clocks, shared, sync, reader, results, measured, stores, syncs>>

-----------------------------------------------------------------------------
Sample == [tick |-> tick, ns |-> wall]

\* Unsigned difference of two ticks.
Elapsed(a, b) == (a - b) % Modulus

\* Mutation of TickDelta: the difference is always taken as a positive one.
TickDeltaUnsigned(t, base) == Elapsed(t, base)

\* tickDelta: the smaller of the two differences, with its sign.
TickDelta(t, base) ==
  IF Elapsed(t, base) < Modulus \div 2 THEN Elapsed(t, base) ELSE -Elapsed(base, t)

\* Division rounds towards zero.
Quotient(a, b) == IF a >= 0 THEN a \div b ELSE -((-a) \div b)

\* Mutation of Offset: the scale is upside down.
OffsetInverted(delta, ticks, ns) ==
  IF ticks > 0 /\ ns > 0 THEN Quotient(delta * ticks, ns) ELSE delta * Rate

\* scaledNanoseconds, or fallbackScaledNanoseconds without a usable scale.
Offset(delta, ticks, ns) ==
  IF ticks > 0 /\ ns > 0 THEN Quotient(delta * ns, ticks) ELSE delta * Rate

NoSync == [at |-> "idle"]
NoReader == [at |-> "idle"]

ClockInit ==
  /\ tick = 0 /\ wall = 0 /\ steady = TRUE
  /\ anchor = Sample /\ last = Sample
  /\ scaleTicks = 0 /\ scaleNs = 0 /\ sampleCount = 1
  /\ sync = [s \in Syncers |-> NoSync]
  /\ reader = NoReader
  /\ results = <<>> /\ measured = {<<0, 0>>} /\ stores = 0 /\ syncs = 0

Advance ==
  /\ tick < MaxTick
  /\ tick' = tick + 1
  /\ \E d \in WallSteps : wall' = wall + d /\ steady' = (steady /\ d = Rate)
  /\ UNCHANGED <<shared, sync, reader, results, measured, stores, syncs>>

-----------------------------------------------------------------------------
\* sync: the sample is taken, and sampleCount_ is read.
SyncSample(s) ==
  /\ sync[s].at = "idle" /\ syncs < MaxSyncs
  /\ sync' = [sync EXCEPT ![s] = [at |-> "measure", sample |-> Sample, count |-> sampleCount]]
  /\ syncs' = syncs + 1
  /\ UNCHANGED <<clocks, shared, reader, results, measured, stores>>

\* Mutation of Usable: any measurement is.
UsableAlways(ticks, ns) == TRUE

Usable(ticks, ns) == ticks > 0 /\ ns > 0

\* last_ is read and the scale since then computed, if there is one.
SyncMeasure(s) ==
  /\ sync[s].at = "measure"
  /\ LET ticks == Elapsed(sync[s].sample.tick, last.tick)
         ns == sync[s].sample.ns - last.ns
         use == sync[s].count > 0 /\ Usable(ticks, ns)
     IN  /\ sync' = [sync EXCEPT ![s] = [at |-> IF use THEN "ticks" ELSE "last",
                                         sample |-> @.sample, count |-> @.count,
                                         ticks |-> ticks, ns |-> ns]]
         /\ measured' = IF use THEN measured \cup {<<ticks, ns>>} ELSE measured
  /\ UNCHANGED <<clocks, shared, reader, results, stores, syncs>>

Goto(s, place) == sync' = [sync EXCEPT ![s].at = place]

SyncTicks(s) ==
  /\ sync[s].at = "ticks"
  /\ scaleTicks' = sync[s].ticks
  /\ stores' = stores + 1
  /\ Goto(s, "ns")
  /\ UNCHANGED <<clocks, anchor, last, scaleNs, sampleCount, reader, results, measured, syncs>>

SyncNanoseconds(s) ==
  /\ sync[s].at = "ns"
  /\ scaleNs' = sync[s].ns
  /\ stores' = stores + 1
  /\ Goto(s, "last")
  /\ UNCHANGED <<clocks, anchor, last, scaleTicks, sampleCount, reader, results, measured, syncs>>

SyncLast(s) ==
  /\ sync[s].at = "last"
  /\ last' = sync[s].sample
  /\ Goto(s, "anchor")
  /\ UNCHANGED <<clocks, anchor, scaleTicks, scaleNs, sampleCount, reader, results, measured, stores, syncs>>

SyncAnchor(s) ==
  /\ sync[s].at = "anchor"
  /\ anchor' = sync[s].sample
  /\ stores' = stores + 1
  /\ Goto(s, "count")
  /\ UNCHANGED <<clocks, last, scaleTicks, scaleNs, sampleCount, reader, results, measured, syncs>>

SyncCount(s) ==
  /\ sync[s].at = "count"
  /\ sampleCount' = sync[s].count + 1
  /\ sync' = [sync EXCEPT ![s] = NoSync]
  /\ UNCHANGED <<clocks, anchor, last, scaleTicks, scaleNs, reader, results, measured, stores, syncs>>

Sync(s) ==
  \/ SyncSample(s) \/ SyncMeasure(s) \/ SyncTicks(s) \/ SyncNanoseconds(s)
  \/ SyncLast(s) \/ SyncAnchor(s) \/ SyncCount(s)

-----------------------------------------------------------------------------
\* toNanoseconds of a tick that has been read some time ago: first the anchor ...
ConvertAnchor(t) ==
  /\ reader.at = "idle" /\ Len(results) < MaxConversions
  /\ reader' = [at |-> "ticks", tick |-> t, anchor |-> anchor, since |-> stores]
  /\ UNCHANGED <<clocks, shared, sync, results, measured, stores, syncs>>

\* ... then scaleTicks_ ...
ConvertTicks ==
  /\ reader.at = "ticks"
  /\ reader' = [at |-> "ns", tick |-> reader.tick, anchor |-> reader.anchor,
                since |-> reader.since, ticks |-> scaleTicks]
  /\ UNCHANGED <<clocks, shared, sync, results, measured, stores, syncs>>

\* ... and scaleNanoseconds_, with which the result is computed.
ConvertNanoseconds ==
  /\ reader.at = "ns"
  /\ results' = Append(results,
       [tick |-> reader.tick,
        ns |-> reader.anchor.ns
               + Offset(TickDelta(reader.tick, reader.anchor.tick), reader.ticks, scaleNs),
        ticks |-> reader.ticks, scale |-> scaleNs,
        since |-> reader.since, until |-> stores])
  /\ reader' = NoReader
  /\ UNCHANGED <<clocks, shared, sync, measured, stores, syncs>>

ClockNext ==
  \/ Advance
  \/ \E s \in Syncers : Sync(s)
  \/ \E t \in 0..tick : ConvertAnchor(t)
  \/ ConvertTicks
  \/ ConvertNanoseconds

ClockSpec == ClockInit /\ [][ClockNext]_clockVars

-----------------------------------------------------------------------------
Point == [tick : 0..MaxTick, ns : Int]

ClockTypeOK ==
  /\ tick \in 0..MaxTick /\ wall \in Int /\ steady \in BOOLEAN
  /\ anchor \in Point /\ last \in Point
  /\ scaleTicks \in 0..(Modulus - 1) /\ scaleNs \in Nat
  /\ sampleCount \in 1..(MaxSyncs + 1)
  /\ \A s \in Syncers : sync[s].at \in {"idle", "measure", "ticks", "ns", "last", "anchor", "count"}
  /\ reader.at \in {"idle", "ticks", "ns"}
  /\ \A i \in 1..Len(results) : results[i].tick \in 0..MaxTick /\ results[i].ns \in Int
  /\ stores \in Nat /\ syncs \in 0..MaxSyncs

\* Did the conversion use the ticks of one measurement with the nanoseconds of another?
Torn(r) == r.ticks > 0 /\ r.scale > 0 /\ <<r.ticks, r.scale>> \notin measured

\* While system_clock keeps its rate every conversion is exact, whatever sync does in
\* the middle of it, unless the two halves of the scale are from different syncs: an
\* anchor from before a sync goes with a scale from after it, and a scale of which
\* only one half is there falls back to the frequency.
UntornIsExact ==
  steady => \A i \in 1..Len(results) : Torn(results[i]) \/ results[i].ns = Rate * results[i].tick

\* No store of a sync fell into either conversion, or between them.
Undisturbed(a, b) == {a.since, a.until, b.since, b.until} = {a.since}

\* Two conversions that no sync disturbs keep the order of their ticks, also after
\* system_clock has been set back, and also when two syncs at once have left a torn
\* scale behind.
OrderBetweenSyncs ==
  \A i, j \in 1..Len(results) :
    Undisturbed(results[i], results[j]) /\ results[i].tick <= results[j].tick
      => results[i].ns <= results[j].ns

\* Conversions keep the order of the ticks, as the test of that name has it, while
\* system_clock keeps its rate.
TicksKeepOrder ==
  \A i, j \in 1..Len(results) :
    results[i].tick <= results[j].tick => results[i].ns <= results[j].ns
==============================================================================
