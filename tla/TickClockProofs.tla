--------------------------- MODULE TickClockProofs ---------------------------
(***************************************************************************)
(* Proofs about TickClock for any number of threads in sync, any rate, and *)
(* any course of system_clock.                                             *)
(***************************************************************************)
EXTENDS TickClock, SequenceTheorems, TLAPS

-----------------------------------------------------------------------------
\* What \div does to a product and to what lies between two of them.
LEMMA DivBounds ==
  ASSUME NEW n \in Nat, NEW b \in Nat \ {0}
  PROVE  /\ n \div b \in Nat
         /\ b * (n \div b) \in Nat
         /\ b * (n \div b) <= n
         /\ n < b * (n \div b) + b
  BY SMT

LEMMA ProductMonotone ==
  ASSUME NEW b \in Nat, NEW m \in Nat, NEW n \in Nat, m <= n
  PROVE  b * m \in Nat /\ b * n \in Nat /\ b * m <= b * n
<1>1. PICK d \in Nat : n = m + d
  <2>1. n - m \in Nat /\ n = m + (n - m)
    OBVIOUS
  <2> QED
    BY <2>1
<1>2. b * d \in Nat /\ b * m \in Nat
  BY SMT
<1>3. b * (m + d) = b * m + b * d
  BY SMT
<1> QED
  BY <1>1, <1>2, <1>3

LEMMA DivMonotone ==
  ASSUME NEW m \in Nat, NEW n \in Nat, NEW b \in Nat \ {0}, m <= n
  PROVE  m \div b <= n \div b
<1> DEFINE p == m \div b
           q == n \div b
<1>1. /\ p \in Nat /\ b * p \in Nat /\ b * p <= m
      /\ q \in Nat /\ b * q \in Nat /\ n < b * q + b
  BY DivBounds
<1> HIDE DEF p, q
<1>2. SUFFICES ASSUME q < p
               PROVE  FALSE
  BY <1>1 DEF p, q
<1>3. q + 1 \in Nat /\ q + 1 <= p
  BY <1>1, <1>2
<1>4. b * (q + 1) <= b * p
  BY <1>1, <1>3, ProductMonotone
<1>5. b * (q + 1) = b * q + b
  BY <1>1, SMT
<1> QED
  BY <1>1, <1>4, <1>5

LEMMA DivExact ==
  ASSUME NEW k \in Nat, NEW b \in Nat \ {0}
  PROVE  (b * k) \div b = k
<1> DEFINE n == b * k
           q == n \div b
<1>1. n \in Nat
  BY SMT
<1>2. q \in Nat /\ b * q \in Nat /\ b * q <= n /\ n < b * q + b
  <2> HIDE DEF n
  <2> QED
    BY <1>1, DivBounds
<1> HIDE DEF q
<1>3. ASSUME q < k PROVE FALSE
  <2>1. q + 1 \in Nat /\ q + 1 <= k
    BY <1>2, <1>3
  <2>2. b * (q + 1) <= n
    BY <2>1, ProductMonotone
  <2>3. b * (q + 1) = b * q + b
    BY <1>2, SMT
  <2> QED
    BY <1>1, <1>2, <2>2, <2>3
<1>4. ASSUME k < q PROVE FALSE
  <2>1. k + 1 \in Nat /\ k + 1 <= q
    BY <1>2, <1>4
  <2>2. b * (k + 1) <= b * q
    BY <1>2, <2>1, ProductMonotone
  <2>3. b * (k + 1) = n + b
    BY SMT
  <2> QED
    BY <1>1, <1>2, <2>2, <2>3
<1> QED
  BY <1>2, <1>3, <1>4 DEF q

-----------------------------------------------------------------------------
LEMMA QuotientType ==
  ASSUME NEW a \in Int, NEW b \in Nat \ {0}
  PROVE  Quotient(a, b) \in Int
<1>1. CASE a >= 0
  <2>1. a \in Nat
    BY <1>1
  <2> QED
    BY <1>1, <2>1, DivBounds DEF Quotient
<1>2. CASE ~(a >= 0)
  <2>1. -a \in Nat
    BY <1>2
  <2>2. (-a) \div b \in Nat
    BY <2>1, DivBounds
  <2> QED
    BY <1>2, <2>2 DEF Quotient
<1> QED
  BY <1>1, <1>2

\* A larger difference of ticks is no smaller difference of nanoseconds, rounded
\* towards zero on both sides of the anchor.
LEMMA QuotientMonotone ==
  ASSUME NEW a \in Int, NEW c \in Int, NEW b \in Nat \ {0}, a <= c
  PROVE  Quotient(a, b) <= Quotient(c, b)
<1>1. CASE a >= 0
  <2>1. a \in Nat /\ c \in Nat /\ c >= 0
    BY <1>1
  <2> QED
    BY <1>1, <2>1, DivMonotone DEF Quotient
<1>2. CASE ~(a >= 0) /\ c >= 0
  <2>1. -a \in Nat /\ c \in Nat
    BY <1>2
  <2>2. (-a) \div b \in Nat /\ c \div b \in Nat
    BY <2>1, DivBounds
  <2> QED
    BY <1>2, <2>2 DEF Quotient
<1>3. CASE ~(a >= 0) /\ ~(c >= 0)
  <2>1. -a \in Nat /\ -c \in Nat /\ -c <= -a
    BY <1>3
  <2>2. (-c) \div b <= (-a) \div b /\ (-a) \div b \in Nat /\ (-c) \div b \in Nat
    BY <2>1, DivMonotone, DivBounds
  <2> QED
    BY <1>3, <2>2 DEF Quotient
<1> QED
  BY <1>1, <1>2, <1>3

\* A scale that is a multiple of its ticks is applied without loss.
LEMMA QuotientExact ==
  ASSUME NEW d \in Int, NEW k \in Nat, NEW b \in Nat \ {0}
  PROVE  Quotient(d * (k * b), b) = d * k
<1>1. CASE d >= 0
  <2>1. d * k \in Nat /\ d * (k * b) = b * (d * k) /\ b * (d * k) \in Nat
    <3>1. d \in Nat
      BY <1>1
    <3> QED
      BY <3>1, SMT
  <2>2. (b * (d * k)) \div b = d * k
    BY <2>1, DivExact
  <2> QED
    BY <2>1, <2>2 DEF Quotient
<1>2. CASE ~(d >= 0)
  <2> DEFINE e == -d
  <2>1. e \in Nat /\ e # 0 /\ d = -e
    BY <1>2
  <2> HIDE DEF e
  <2>2. e * k \in Nat /\ b * (e * k) \in Nat
    BY <2>1, SMT
  <2>3. (b * (e * k)) \div b = e * k
    BY <2>2, DivExact
  <2>4. d * (k * b) = -(b * (e * k)) /\ d * k = -(e * k)
    BY <2>1, SMT
  <2>5. Quotient(-(b * (e * k)), b) = -(e * k)
    <3> DEFINE n == b * (e * k)
               m == e * k
    <3>1. n \in Nat /\ m \in Nat /\ n \div b = m /\ (n = 0 => m = 0)
      <4>1. b * (e * k) = 0 => e * k = 0
        BY <2>2, SMT
      <4> QED
        BY <2>2, <2>3, <4>1
    <3> HIDE DEF n, m
    <3>2. CASE n = 0
      <4>1. n = 0 /\ m = 0
        BY <3>1, <3>2
      <4>2. Quotient(-n, b) = -m
        BY <3>1, <4>1 DEF Quotient
      <4> QED
        BY <4>2 DEF n, m
    <3>3. CASE n # 0
      <4>1. ~(-n >= 0) /\ -(-n) = n
        BY <3>1, <3>3
      <4>2. Quotient(-n, b) = -m
        BY <3>1, <4>1 DEF Quotient
      <4> QED
        BY <4>2 DEF n, m
    <3> QED
      BY <3>2, <3>3
  <2> QED
    BY <2>4, <2>5
<1> QED
  BY <1>1, <1>2

-----------------------------------------------------------------------------
\* Ticks of a run that is shorter than half of what a Tick counts.
LEMMA HalfModulus == MaxTick \in Nat /\ Modulus \in Nat \ {0} /\ MaxTick < Modulus
                     /\ Modulus \div 2 \in Nat /\ MaxTick < Modulus \div 2
                     /\ Modulus - MaxTick > Modulus \div 2
  BY ClockAssumption

LEMMA ElapsedIs ==
  ASSUME NEW a \in 0..MaxTick, NEW b \in 0..MaxTick
  PROVE  Elapsed(a, b) = IF a >= b THEN a - b ELSE a - b + Modulus
<1>1. ASSUME NEW n \in Nat, n < Modulus
      PROVE  n % Modulus = n
  BY <1>1, HalfModulus
<1>2. ASSUME NEW n \in Int, n < 0, n + Modulus >= 0
      PROVE  n % Modulus = n + Modulus
  BY <1>2, HalfModulus
<1>3. CASE a >= b
  <2>1. a - b \in Nat /\ a - b < Modulus
    BY <1>3, HalfModulus
  <2> QED
    BY <1>1, <1>3, <2>1 DEF Elapsed
<1>4. CASE ~(a >= b)
  <2>1. a - b \in Int /\ a - b < 0 /\ a - b + Modulus >= 0
    BY <1>4, HalfModulus
  <2> QED
    BY <1>2, <1>4, <2>1 DEF Elapsed
<1> QED
  BY <1>3, <1>4

\* tickDelta is the signed difference, on both sides of the anchor.
LEMMA TickDeltaIs ==
  ASSUME NEW a \in 0..MaxTick, NEW b \in 0..MaxTick
  PROVE  TickDelta(a, b) = a - b
<1>1. Elapsed(a, b) = IF a >= b THEN a - b ELSE a - b + Modulus
  BY ElapsedIs
<1>2. Elapsed(b, a) = IF b >= a THEN b - a ELSE b - a + Modulus
  BY ElapsedIs
<1>3. CASE a >= b
  <2>1. Elapsed(a, b) < Modulus \div 2
    BY <1>1, <1>3, HalfModulus
  <2> QED
    BY <1>1, <1>3, <2>1 DEF TickDelta
<1>4. CASE ~(a >= b)
  <2>1. ~(Elapsed(a, b) < Modulus \div 2)
    BY <1>1, <1>4, HalfModulus
  <2>2. Elapsed(b, a) = b - a
    BY <1>2, <1>4
  <2> QED
    BY <1>4, <2>1, <2>2 DEF TickDelta
<1> QED
  BY <1>3, <1>4

LEMMA ElapsedType ==
  ASSUME NEW a \in Int, NEW b \in Int
  PROVE  Elapsed(a, b) \in 0..(Modulus - 1)
  BY HalfModulus DEF Elapsed

-----------------------------------------------------------------------------
\* What a call of sync holds in its locals before and after it has measured.
Starting == [at : {"measure"}, sample : Point, count : Nat]

Storing == [at : {"ticks", "ns", "last", "anchor", "count"}, sample : Point, count : Nat,
            ticks : 0..(Modulus - 1), ns : Int]

SyncState == {NoSync} \cup Starting \cup Storing

\* What a conversion holds after its first load, and after its second.
Anchored == [at : {"ticks"}, tick : 0..MaxTick, anchor : Point, since : Nat]

Scaling == [at : {"ns"}, tick : 0..MaxTick, anchor : Point, since : Nat,
            ticks : 0..(Modulus - 1)]

Result == [tick : 0..MaxTick, ns : Int, ticks : 0..(Modulus - 1), scale : Nat,
           since : Nat, until : Nat]

\* A call of sync stores what it has counted and measured.
SyncOK(c) ==
  /\ c \in SyncState
  /\ c.at # "idle" => c.count \in 1..syncs
  /\ c.at \in {"ticks", "ns"} => c.ticks > 0 /\ c.ns > 0

\* The inductive invariant behind ClockTypeOK: the types of the locals, and that
\* sampleCount_ never counts more samples than there were calls.
ClockInv ==
  /\ tick \in 0..MaxTick /\ wall \in Int /\ steady \in BOOLEAN
  /\ anchor \in Point /\ last \in Point
  /\ scaleTicks \in 0..(Modulus - 1) /\ scaleNs \in Nat
  /\ syncs \in 0..MaxSyncs /\ sampleCount \in 1..(syncs + 1)
  /\ sync \in [Syncers -> SyncState] /\ \A s \in Syncers : SyncOK(sync[s])
  /\ reader \in {NoReader} \cup Anchored \cup Scaling
  /\ results \in Seq(Result)
  /\ measured \subseteq (0..(Modulus - 1)) \X Nat
  /\ stores \in Nat

LEMMA StartingState ==
  ASSUME ClockInv, NEW s \in Syncers, sync[s].at = "measure"
  PROVE  sync[s] \in Starting
<1>1. sync[s] \in SyncState
  BY DEF ClockInv
<1> QED
  BY <1>1 DEF SyncState, NoSync, Storing

LEMMA StoringState ==
  ASSUME ClockInv, NEW s \in Syncers, sync[s].at \in {"ticks", "ns", "last", "anchor", "count"}
  PROVE  sync[s] \in Storing
<1>1. sync[s] \in SyncState
  BY DEF ClockInv
<1> QED
  BY <1>1 DEF SyncState, NoSync, Starting

\* One call of sync goes on, the others stay where they are.
LEMMA SyncUpdate ==
  ASSUME ClockInv, NEW s \in Syncers, NEW c \in SyncState, sync' = [sync EXCEPT ![s] = c]
  PROVE  /\ sync' \in [Syncers -> SyncState] /\ sync'[s] = c
         /\ \A u \in Syncers : u # s => sync'[u] = sync[u]
  BY DEF ClockInv

LEMMA GotoUpdate ==
  ASSUME ClockInv, NEW s \in Syncers, sync[s].at \in {"ticks", "ns", "last", "anchor", "count"},
         NEW place \in {"ticks", "ns", "last", "anchor", "count"}, Goto(s, place)
  PROVE  /\ sync' \in [Syncers -> SyncState] /\ sync'[s] \in Storing
         /\ sync'[s].at = place /\ sync'[s].sample = sync[s].sample
         /\ sync'[s].count = sync[s].count /\ sync'[s].ticks = sync[s].ticks
         /\ sync'[s].ns = sync[s].ns
         /\ \A u \in Syncers : u # s => sync'[u] = sync[u]
<1> DEFINE c == [sync[s] EXCEPT !.at = place]
<1>1. sync[s] \in Storing
  BY StoringState
<1>2. /\ c \in Storing /\ c.at = place /\ c.sample = sync[s].sample /\ c.count = sync[s].count
      /\ c.ticks = sync[s].ticks /\ c.ns = sync[s].ns
  BY <1>1 DEF Storing
<1>3. sync' = [sync EXCEPT ![s] = c]
  BY DEF Goto
<1> HIDE DEF c
<1>4. c \in SyncState
  BY <1>2 DEF SyncState
<1> QED
  BY <1>2, <1>3, <1>4, SyncUpdate

\* Calls of sync that stay where they are stay as they should.
LEMMA OthersOK ==
  ASSUME ClockInv, NEW s \in Syncers, syncs' \in Nat, syncs' >= syncs, SyncOK(sync[s])',
         \A u \in Syncers : u # s => sync'[u] = sync[u]
  PROVE  \A u \in Syncers : SyncOK(sync[u])'
<1>1. ASSUME NEW u \in Syncers, u # s
      PROVE  SyncOK(sync[u])'
  <2>1. SyncOK(sync[u]) /\ sync'[u] = sync[u] /\ syncs \in Nat
    BY <1>1, ClockAssumption DEF ClockInv
  <2> QED
    BY <2>1 DEF SyncOK
<1> QED
  BY <1>1

LEMMA OffsetType ==
  ASSUME NEW d \in Int, NEW t \in 0..(Modulus - 1), NEW n \in Int
  PROVE  Offset(d, t, n) \in Int
<1>1. d * n \in Int /\ d * Rate \in Int
  BY ClockAssumption, SMT
<1>2. CASE t > 0 /\ n > 0
  <2>1. t \in Nat \ {0}
    BY <1>2, HalfModulus
  <2> QED
    BY <1>1, <1>2, <2>1, QuotientType DEF Offset
<1> QED
  BY <1>1, <1>2 DEF Offset

-----------------------------------------------------------------------------
LEMMA ClockInitInv ==
  ASSUME ClockInit
  PROVE  ClockInv
<1> USE ClockAssumption, HalfModulus
<1>1. Sample \in Point
  BY DEF ClockInit, Sample, Point
<1>2. \A s \in Syncers : sync[s] = NoSync /\ SyncOK(sync[s])
  BY DEF ClockInit, SyncOK, SyncState, NoSync
<1>3. sync \in [Syncers -> SyncState]
  BY DEF ClockInit, SyncState
<1>4. measured \subseteq (0..(Modulus - 1)) \X Nat
  BY DEF ClockInit
<1> QED
  BY <1>1, <1>2, <1>3, <1>4 DEF ClockInit, ClockInv

LEMMA AdvanceInv ==
  ASSUME ClockInv, Advance
  PROVE  ClockInv'
<1>1. tick' \in 0..MaxTick
  BY HalfModulus DEF ClockInv, Advance
<1>2. wall' \in Int /\ steady' \in BOOLEAN
  BY ClockAssumption DEF ClockInv, Advance
<1>3. UNCHANGED <<shared, sync, reader, results, measured, stores, syncs>>
  BY DEF Advance
<1> QED
  BY <1>1, <1>2, <1>3 DEF ClockInv, SyncOK, shared

LEMMA SyncSampleInv ==
  ASSUME ClockInv, NEW s \in Syncers, SyncSample(s)
  PROVE  ClockInv'
<1> DEFINE c == [at |-> "measure", sample |-> Sample, count |-> sampleCount]
<1>1. /\ sync' = [sync EXCEPT ![s] = c] /\ syncs' = syncs + 1 /\ syncs < MaxSyncs
      /\ UNCHANGED <<clocks, shared, reader, results, measured, stores>>
  BY DEF SyncSample
<1>2. syncs \in Nat /\ syncs' \in 0..MaxSyncs /\ sampleCount \in 1..syncs'
  BY <1>1, ClockAssumption DEF ClockInv
<1>3. Sample \in Point
  BY DEF ClockInv, Sample, Point
<1>4. c \in Starting /\ c.at = "measure" /\ c.count = sampleCount
  BY <1>2, <1>3 DEF Starting
<1> HIDE DEF c
<1>5. c \in SyncState
  BY <1>4 DEF SyncState
<1>6. /\ sync' \in [Syncers -> SyncState] /\ sync'[s] = c
      /\ \A u \in Syncers : u # s => sync'[u] = sync[u]
  BY <1>1, <1>5, SyncUpdate
<1>7. SyncOK(sync[s])'
  BY <1>2, <1>4, <1>5, <1>6 DEF SyncOK
<1>8. \A u \in Syncers : SyncOK(sync[u])'
  BY <1>1, <1>2, <1>6, <1>7, OthersOK
<1>9. sampleCount' \in 1..(syncs' + 1)
  BY <1>1, <1>2 DEF shared
<1> QED
  BY <1>1, <1>2, <1>6, <1>8, <1>9 DEF ClockInv, clocks, shared

LEMMA SyncMeasureInv ==
  ASSUME ClockInv, NEW s \in Syncers, SyncMeasure(s)
  PROVE  ClockInv'
<1> DEFINE ticks == Elapsed(sync[s].sample.tick, last.tick)
           ns == sync[s].sample.ns - last.ns
           use == sync[s].count > 0 /\ Usable(ticks, ns)
           c == [at |-> IF use THEN "ticks" ELSE "last", sample |-> sync[s].sample,
                 count |-> sync[s].count, ticks |-> ticks, ns |-> ns]
<1>1. /\ sync' = [sync EXCEPT ![s] = c]
      /\ measured' = IF use THEN measured \cup {<<ticks, ns>>} ELSE measured
      /\ UNCHANGED <<clocks, shared, reader, results, stores, syncs>>
  BY DEF SyncMeasure, ClockInv
<1>2. sync[s] \in Starting /\ last \in Point /\ sync[s].count \in 1..syncs /\ sync[s].at = "measure"
  BY StartingState DEF SyncMeasure, ClockInv, SyncOK
<1>3. ticks \in 0..(Modulus - 1) /\ ns \in Int
  <2>1. /\ sync[s].sample.tick \in Int /\ last.tick \in Int
        /\ sync[s].sample.ns \in Int /\ last.ns \in Int
    BY <1>2 DEF Starting, Point
  <2>2. ns \in Int
    BY <2>1
  <2>3. ticks \in 0..(Modulus - 1)
    BY <2>1, ElapsedType, Zenon
  <2> QED
    BY <2>2, <2>3
<1>4. c \in Storing
  <2> HIDE DEF ticks, ns, use
  <2> QED
    BY <1>2, <1>3 DEF Storing, Starting
<1>5. c.at \in {"ticks", "ns"} => c.ticks > 0 /\ c.ns > 0
  BY DEF Usable
<1>6. measured' \subseteq (0..(Modulus - 1)) \X Nat
  <2>1. use => ns \in Nat
    BY <1>3 DEF Usable
  <2> HIDE DEF ticks, ns, use
  <2> QED
    BY <1>1, <1>3, <2>1 DEF ClockInv
<1>7. c.count = sync[s].count
  OBVIOUS
<1> HIDE DEF c
<1>8. c \in SyncState
  BY <1>4 DEF SyncState
<1>9. /\ sync' \in [Syncers -> SyncState] /\ sync'[s] = c
      /\ \A u \in Syncers : u # s => sync'[u] = sync[u]
  BY <1>1, <1>8, SyncUpdate
<1>10. syncs' = syncs /\ syncs \in Nat
  BY <1>1, ClockAssumption DEF ClockInv
<1>11. SyncOK(sync[s])'
  BY <1>2, <1>5, <1>7, <1>8, <1>9, <1>10 DEF SyncOK
<1>12. \A u \in Syncers : SyncOK(sync[u])'
  BY <1>9, <1>10, <1>11, OthersOK
<1> HIDE DEF ticks, ns, use
<1> QED
  BY <1>1, <1>6, <1>9, <1>12 DEF ClockInv, clocks, shared

\* The stores of sync: a value that the call holds, and the next place.
LEMMA SyncStoreInv ==
  ASSUME ClockInv, NEW s \in Syncers, NEW place \in {"ns", "last", "anchor", "count"},
         Goto(s, place),
         sync[s].at \in {"ticks", "ns", "last", "anchor", "count"},
         place = "ns" => sync[s].at = "ticks",
         UNCHANGED <<clocks, reader, results, measured, syncs, sampleCount>>,
         scaleTicks' \in {scaleTicks, sync[s].ticks},
         scaleNs' = scaleNs \/ (scaleNs' = sync[s].ns /\ sync[s].at = "ns"),
         last' \in {last, sync[s].sample}, anchor' \in {anchor, sync[s].sample},
         stores' \in Nat
  PROVE  ClockInv'
<1>1. /\ sync' \in [Syncers -> SyncState] /\ sync'[s] \in Storing
      /\ sync'[s].at = place /\ sync'[s].count = sync[s].count
      /\ sync'[s].ticks = sync[s].ticks /\ sync'[s].ns = sync[s].ns
      /\ \A u \in Syncers : u # s => sync'[u] = sync[u]
  BY GotoUpdate
<1>2. sync[s] \in Storing /\ SyncOK(sync[s])
  BY StoringState DEF ClockInv
<1>3. /\ sync[s].ticks \in 0..(Modulus - 1) /\ sync[s].ns \in Int /\ sync[s].sample \in Point
      /\ sync[s].count \in 1..syncs
      /\ sync[s].at \in {"ticks", "ns"} => sync[s].ticks > 0 /\ sync[s].ns > 0
  BY <1>2 DEF Storing, SyncOK
<1>4. syncs' = syncs /\ syncs \in Nat
  BY ClockAssumption DEF ClockInv
<1>5. SyncOK(sync[s])'
  <2>1. sync'[s] \in SyncState
    BY <1>1 DEF SyncState
  <2> QED
    BY <1>1, <1>3, <1>4, <2>1 DEF SyncOK
<1>6. \A u \in Syncers : SyncOK(sync[u])'
  BY <1>1, <1>4, <1>5, OthersOK
<1>7. scaleTicks' \in 0..(Modulus - 1) /\ scaleNs' \in Nat /\ last' \in Point /\ anchor' \in Point
  BY <1>3 DEF ClockInv
<1> QED
  BY <1>1, <1>6, <1>7 DEF ClockInv, clocks

LEMMA SyncCountInv ==
  ASSUME ClockInv, NEW s \in Syncers, SyncCount(s)
  PROVE  ClockInv'
<1>1. /\ sync' = [sync EXCEPT ![s] = NoSync] /\ sampleCount' = sync[s].count + 1
      /\ UNCHANGED <<clocks, anchor, last, scaleTicks, scaleNs, reader, results, measured,
                     stores, syncs>>
  BY DEF SyncCount
<1>2. NoSync \in SyncState
  BY DEF SyncState
<1>3. /\ sync' \in [Syncers -> SyncState] /\ sync'[s] = NoSync
      /\ \A u \in Syncers : u # s => sync'[u] = sync[u]
  BY <1>1, <1>2, SyncUpdate
<1>4. syncs' = syncs /\ syncs \in Nat /\ sync[s].count \in 1..syncs
  BY <1>1, ClockAssumption DEF ClockInv, SyncOK, SyncCount
<1>5. SyncOK(sync[s])'
  BY <1>2, <1>3 DEF SyncOK, NoSync
<1>6. \A u \in Syncers : SyncOK(sync[u])'
  BY <1>3, <1>4, <1>5, OthersOK
<1>7. sampleCount' \in 1..(syncs' + 1)
  BY <1>1, <1>4
<1> QED
  BY <1>1, <1>3, <1>6, <1>7 DEF ClockInv, clocks

LEMMA SyncInv ==
  ASSUME ClockInv, NEW s \in Syncers, Sync(s)
  PROVE  ClockInv'
<1>1. stores \in Nat /\ stores + 1 \in Nat
  BY DEF ClockInv
<1>2. CASE SyncSample(s)
  BY <1>2, SyncSampleInv
<1>3. CASE SyncMeasure(s)
  BY <1>3, SyncMeasureInv
<1>4. CASE SyncTicks(s)
  BY <1>1, <1>4, SyncStoreInv DEF SyncTicks
<1>5. CASE SyncNanoseconds(s)
  BY <1>1, <1>5, SyncStoreInv DEF SyncNanoseconds
<1>6. CASE SyncLast(s)
  BY <1>1, <1>6, SyncStoreInv DEF SyncLast
<1>7. CASE SyncAnchor(s)
  BY <1>1, <1>7, SyncStoreInv DEF SyncAnchor
<1>8. CASE SyncCount(s)
  BY <1>8, SyncCountInv
<1> QED
  BY <1>2, <1>3, <1>4, <1>5, <1>6, <1>7, <1>8 DEF Sync

LEMMA ConvertAnchorInv ==
  ASSUME ClockInv, NEW t \in 0..tick, ConvertAnchor(t)
  PROVE  ClockInv'
<1>1. reader' = [at |-> "ticks", tick |-> t, anchor |-> anchor, since |-> stores]
  BY DEF ConvertAnchor
<1>2. t \in 0..MaxTick /\ anchor \in Point /\ stores \in Nat
  BY HalfModulus DEF ClockInv
<1>3. reader' \in Anchored
  BY <1>1, <1>2 DEF Anchored
<1> QED
  BY <1>3 DEF ConvertAnchor, ClockInv, SyncOK, clocks, shared

LEMMA ConvertTicksInv ==
  ASSUME ClockInv, ConvertTicks
  PROVE  ClockInv'
<1>1. reader \in Anchored
  BY DEF ConvertTicks, ClockInv, NoReader, Scaling
<1>2. reader' \in Scaling
  BY <1>1 DEF ConvertTicks, ClockInv, Anchored, Scaling
<1> QED
  BY <1>2 DEF ConvertTicks, ClockInv, SyncOK, clocks, shared

\* What toNanoseconds computes from an anchor and the two halves of a scale.
Conversion(t, a, ticks, ns) == a.ns + Offset(TickDelta(t, a.tick), ticks, ns)

LEMMA ConversionType ==
  ASSUME NEW t \in 0..MaxTick, NEW a \in Point, NEW k \in 0..(Modulus - 1), NEW n \in Int
  PROVE  Conversion(t, a, k, n) \in Int
<1>1. a.tick \in 0..MaxTick /\ a.ns \in Int
  BY DEF Point
<1>2. TickDelta(t, a.tick) = t - a.tick
  BY <1>1, TickDeltaIs
<1>3. t - a.tick \in Int
  BY <1>1
<1>4. Offset(t - a.tick, k, n) \in Int
  BY <1>3, OffsetType
<1> QED
  BY <1>1, <1>2, <1>4 DEF Conversion

\* The conversion that ends, with the loads that it is made of.
Converted == [tick |-> reader.tick,
              ns |-> Conversion(reader.tick, reader.anchor, reader.ticks, scaleNs),
              ticks |-> reader.ticks, scale |-> scaleNs,
              since |-> reader.since, until |-> stores]

LEMMA ConvertedIs ==
  ASSUME ClockInv, ConvertNanoseconds
  PROVE  /\ reader \in Scaling /\ Converted \in Result
         /\ results' = Append(results, Converted)
         /\ results' \in Seq(Result) /\ Len(results') = Len(results) + 1
         /\ results'[Len(results) + 1] = Converted
         /\ \A i \in 1..Len(results) : results'[i] = results[i]
<1>1. reader \in Scaling
  BY DEF ConvertNanoseconds, ClockInv, NoReader, Anchored
<1>2. /\ reader.tick \in 0..MaxTick /\ reader.anchor \in Point /\ reader.since \in Nat
      /\ reader.ticks \in 0..(Modulus - 1) /\ scaleNs \in Nat /\ stores \in Nat
  BY <1>1 DEF Scaling, ClockInv
<1>3. Conversion(reader.tick, reader.anchor, reader.ticks, scaleNs) \in Int
  BY <1>2, ConversionType
<1>4. Converted \in Result
  BY <1>2, <1>3 DEF Converted, Result
<1>5. results' = Append(results, Converted)
  BY DEF ConvertNanoseconds, Converted, Conversion
<1>6. results \in Seq(Result)
  BY DEF ClockInv
<1> QED
  BY <1>1, <1>4, <1>5, <1>6, AppendProperties

LEMMA ConvertNanosecondsInv ==
  ASSUME ClockInv, ConvertNanoseconds
  PROVE  ClockInv'
<1>1. results' \in Seq(Result)
  BY ConvertedIs
<1> QED
  BY <1>1 DEF ConvertNanoseconds, ClockInv, SyncOK, clocks, shared

LEMMA ClockNextInv ==
  ASSUME ClockInv, [ClockNext]_clockVars
  PROVE  ClockInv'
<1>1. CASE Advance
  BY <1>1, AdvanceInv
<1>2. ASSUME NEW s \in Syncers, Sync(s) PROVE ClockInv'
  BY <1>2, SyncInv
<1>3. ASSUME NEW t \in 0..tick, ConvertAnchor(t) PROVE ClockInv'
  BY <1>3, ConvertAnchorInv
<1>4. CASE ConvertTicks
  BY <1>4, ConvertTicksInv
<1>5. CASE ConvertNanoseconds
  BY <1>5, ConvertNanosecondsInv
<1>6. CASE UNCHANGED clockVars
  BY <1>6 DEF clockVars, clocks, shared, ClockInv, SyncOK
<1> QED
  BY <1>1, <1>2, <1>3, <1>4, <1>5, <1>6 DEF ClockNext

\* The locals of every call have their types, and sampleCount_ counts no sample twice.
THEOREM ClockInvariant == ClockSpec => []ClockInv
<1>1. ClockInit => ClockInv
  BY ClockInitInv
<1>2. ClockInv /\ [ClockNext]_clockVars => ClockInv'
  BY ClockNextInv
<1> QED
  BY <1>1, <1>2, PTL DEF ClockSpec

\* The members of the clock keep their types, with any number of threads in sync.
THEOREM ClockTypes == ClockSpec => []ClockTypeOK
<1>1. ASSUME ClockInv
      PROVE  ClockTypeOK
  <2>1. \A s \in Syncers : sync[s].at \in {"idle", "measure", "ticks", "ns", "last", "anchor", "count"}
    <3> SUFFICES ASSUME NEW s \in Syncers
                 PROVE  sync[s].at \in {"idle", "measure", "ticks", "ns", "last", "anchor", "count"}
      OBVIOUS
    <3>1. sync[s] \in SyncState
      BY <1>1 DEF ClockInv
    <3> QED
      BY <3>1 DEF SyncState, NoSync, Starting, Storing
  <2>2. reader.at \in {"idle", "ticks", "ns"}
    BY <1>1 DEF ClockInv, NoReader, Anchored, Scaling
  <2>3. \A i \in 1..Len(results) : results[i].tick \in 0..MaxTick /\ results[i].ns \in Int
    <3>1. \A i \in 1..Len(results) : results[i] \in Result
      BY <1>1, ElementOfSeq DEF ClockInv
    <3> QED
      BY <3>1 DEF Result
  <2>4. sampleCount \in 1..(MaxSyncs + 1)
    BY <1>1, ClockAssumption DEF ClockInv
  <2> QED
    BY <1>1, <2>1, <2>2, <2>3, <2>4 DEF ClockInv, ClockTypeOK
<1> QED
  BY <1>1, ClockInvariant, PTL

-----------------------------------------------------------------------------
\* A point of time or a length of time at the rate of the processor.
OnRate(p) == p.ns = Rate * p.tick

\* A conversion is exact, or its scale is one that no sync can have measured.
ExactOrForeign(r) == OnRate(r) \/ (r.ticks > 0 /\ r.scale > 0 /\ r.scale # Rate * r.ticks)

\* While system_clock keeps its rate, so does everything that was taken from it:
\* the inductive invariant behind UntornIsExact.
ExactInv ==
  steady =>
    /\ wall = Rate * tick
    /\ OnRate(anchor) /\ OnRate(last)
    /\ \A s \in Syncers : sync[s].at # "idle" => OnRate(sync[s].sample)
    /\ reader.at # "idle" => OnRate(reader.anchor)
    /\ \A p \in measured : p[2] = Rate * p[1]
    /\ \A i \in 1..Len(results) : ExactOrForeign(results[i])

\* A conversion from an anchor at the rate, with a scale at the rate or with the
\* frequency, is exact.
LEMMA ConversionExact ==
  ASSUME NEW t \in 0..MaxTick, NEW a \in Point, OnRate(a),
         NEW k \in 0..(Modulus - 1), NEW n \in Nat,
         k > 0 /\ n > 0 => n = Rate * k
  PROVE  Conversion(t, a, k, n) = Rate * t
<1> DEFINE d == t - a.tick
<1>1. a.tick \in 0..MaxTick /\ a.ns = Rate * a.tick /\ d \in Int /\ Rate \in Nat /\ t \in Int
      /\ a.tick \in Int
  BY ClockAssumption DEF Point, OnRate
<1>2. TickDelta(t, a.tick) = d
  BY <1>1, TickDeltaIs
<1>3. Offset(d, k, n) = d * Rate
  <2>1. CASE k > 0 /\ n > 0
    <3>1. n = Rate * k /\ k \in Nat \ {0}
      BY <2>1, HalfModulus
    <3>2. Quotient(d * (Rate * k), k) = d * Rate
      <4> HIDE DEF d
      <4> QED
        BY <1>1, <3>1, QuotientExact
    <3> QED
      BY <2>1, <3>1, <3>2 DEF Offset
  <2>2. CASE ~(k > 0 /\ n > 0)
    BY <2>2 DEF Offset
  <2> QED
    BY <2>1, <2>2
<1>4. Rate * a.tick + (t - a.tick) * Rate = Rate * t
  BY <1>1, SMT
<1> QED
  BY <1>1, <1>2, <1>3, <1>4 DEF Conversion

LEMMA ExactInit ==
  ASSUME ClockInit
  PROVE  ExactInv
<1>1. Rate * 0 = 0
  BY ClockAssumption
<1> QED
  BY <1>1 DEF ClockInit, ExactInv, OnRate, Sample, NoSync, NoReader

LEMMA ExactNext ==
  ASSUME ClockInv, ClockInv', ExactInv, [ClockNext]_clockVars
  PROVE  ExactInv'
<1> SUFFICES ASSUME steady'
             PROVE  ExactInv'
  BY DEF ExactInv
<1> USE ClockAssumption
<1>0. ASSUME steady
      PROVE  /\ wall = Rate * tick
             /\ OnRate(anchor) /\ OnRate(last)
             /\ \A s \in Syncers : sync[s].at # "idle" => OnRate(sync[s].sample)
             /\ reader.at # "idle" => OnRate(reader.anchor)
             /\ \A p \in measured : p[2] = Rate * p[1]
             /\ \A i \in 1..Len(results) : ExactOrForeign(results[i])
  BY <1>0 DEF ExactInv
<1>1. CASE Advance
  <2>1. steady /\ tick' = tick + 1 /\ wall' = wall + Rate
    BY <1>1 DEF Advance, ClockInv
  <2>2. Rate * (tick + 1) = Rate * tick + Rate
    BY SMT DEF ClockInv
  <2>3. UNCHANGED <<shared, sync, reader, results, measured, stores, syncs>>
    BY <1>1 DEF Advance
  <2> QED
    BY <1>0, <2>1, <2>2, <2>3 DEF ExactInv, shared, OnRate, ExactOrForeign
<1>2. ASSUME NEW s \in Syncers, SyncSample(s) PROVE ExactInv'
  <2> DEFINE c == [at |-> "measure", sample |-> Sample, count |-> sampleCount]
  <2>1. /\ sync' = [sync EXCEPT ![s] = c]
        /\ UNCHANGED <<clocks, shared, reader, results, measured>>
    BY <1>2 DEF SyncSample
  <2>2. steady
    BY <2>1 DEF clocks
  <2>3. OnRate(c.sample)
    BY <1>0, <2>2 DEF OnRate, Sample
  <2> HIDE DEF c
  <2>4. \A u \in Syncers : sync'[u].at # "idle" => OnRate(sync'[u].sample)
    BY <1>0, <2>1, <2>2, <2>3 DEF ClockInv
  <2> QED
    BY <1>0, <2>1, <2>2, <2>4 DEF ExactInv, clocks, shared, OnRate, ExactOrForeign
<1>3. ASSUME NEW s \in Syncers, SyncMeasure(s) PROVE ExactInv'
  <2> DEFINE ticks == Elapsed(sync[s].sample.tick, last.tick)
             ns == sync[s].sample.ns - last.ns
             use == sync[s].count > 0 /\ Usable(ticks, ns)
             c == [at |-> IF use THEN "ticks" ELSE "last", sample |-> sync[s].sample,
                   count |-> sync[s].count, ticks |-> ticks, ns |-> ns]
  <2>1. /\ sync' = [sync EXCEPT ![s] = c]
        /\ measured' = IF use THEN measured \cup {<<ticks, ns>>} ELSE measured
        /\ UNCHANGED <<clocks, shared, reader, results>>
        /\ sync[s].at # "idle"
    BY <1>3 DEF SyncMeasure, ClockInv
  <2>2. steady
    BY <2>1 DEF clocks
  <2>3. OnRate(c.sample) /\ OnRate(sync[s].sample) /\ OnRate(last)
    BY <1>0, <2>1, <2>2
  <2>4. use => ns = Rate * ticks
    <3>1. /\ sync[s].sample.tick \in 0..MaxTick /\ last.tick \in 0..MaxTick
          /\ sync[s].sample.ns \in Int /\ last.ns \in Int
      BY <1>3, StartingState DEF SyncMeasure, Starting, Point, ClockInv
    <3> DEFINE x == sync[s].sample.tick
               y == last.tick
    <3>2. x \in 0..MaxTick /\ y \in 0..MaxTick /\ ns = Rate * x - Rate * y
      BY <2>3, <3>1 DEF OnRate
    <3>3. ticks = IF x >= y THEN x - y ELSE x - y + Modulus
      BY <3>2, ElapsedIs
    <3> HIDE DEF x, y, ticks, ns
    <3>4. Rate * x - Rate * y = Rate * (x - y)
      BY <3>2, SMT
    <3>5. CASE x >= y
      BY <3>2, <3>3, <3>4, <3>5
    <3>6. CASE ~(x >= y)
      <4>1. x <= y /\ x \in Nat /\ y \in Nat
        BY <3>2, <3>6
      <4>2. Rate * x <= Rate * y /\ Rate * x \in Nat /\ Rate * y \in Nat
        BY <4>1, ProductMonotone
      <4>3. ~(ns > 0)
        BY <3>2, <4>2
      <4> QED
        BY <4>3 DEF Usable
    <3> QED
      BY <3>5, <3>6
  <2> HIDE DEF c, use, ticks, ns
  <2>5. \A u \in Syncers : sync'[u].at # "idle" => OnRate(sync'[u].sample)
    BY <1>0, <2>1, <2>2, <2>3 DEF ClockInv
  <2>6. \A p \in measured' : p[2] = Rate * p[1]
    BY <1>0, <2>1, <2>2, <2>4
  <2> QED
    BY <1>0, <2>1, <2>2, <2>5, <2>6 DEF ExactInv, clocks, shared, OnRate, ExactOrForeign
<1>4. ASSUME NEW s \in Syncers, NEW place \in {"ns", "last", "anchor", "count"},
             sync[s].at \in {"ticks", "ns", "last", "anchor", "count"}, Goto(s, place),
             UNCHANGED <<clocks, reader, results, measured>>,
             last' \in {last, sync[s].sample}, anchor' \in {anchor, sync[s].sample}
      PROVE  ExactInv'
  <2>1. /\ sync'[s].sample = sync[s].sample
        /\ \A u \in Syncers : u # s => sync'[u] = sync[u]
    BY <1>4, GotoUpdate
  <2>2. steady
    BY <1>4 DEF clocks
  <2>3. sync[s].at # "idle"
    BY <1>4
  <2>4. OnRate(sync[s].sample) /\ OnRate(anchor') /\ OnRate(last')
    BY <1>0, <1>4, <2>2, <2>3
  <2>5. \A u \in Syncers : sync'[u].at # "idle" => OnRate(sync'[u].sample)
    BY <1>0, <2>1, <2>2, <2>4
  <2> QED
    BY <1>0, <1>4, <2>2, <2>4, <2>5 DEF ExactInv, clocks, OnRate, ExactOrForeign
<1>5. ASSUME NEW s \in Syncers, SyncCount(s) PROVE ExactInv'
  <2>1. /\ sync' = [sync EXCEPT ![s] = NoSync]
        /\ UNCHANGED <<clocks, anchor, last, reader, results, measured>>
    BY <1>5 DEF SyncCount
  <2>2. steady
    BY <2>1 DEF clocks
  <2>3. \A u \in Syncers : sync'[u].at # "idle" => OnRate(sync'[u].sample)
    BY <1>0, <2>1, <2>2 DEF ClockInv, NoSync
  <2> QED
    BY <1>0, <2>1, <2>2, <2>3 DEF ExactInv, clocks, OnRate, ExactOrForeign
<1>6. ASSUME NEW s \in Syncers, Sync(s) PROVE ExactInv'
  BY <1>2, <1>3, <1>4, <1>5, <1>6
  DEF Sync, SyncTicks, SyncNanoseconds, SyncLast, SyncAnchor
<1>7. ASSUME NEW t \in 0..tick, ConvertAnchor(t) PROVE ExactInv'
  BY <1>0, <1>7 DEF ConvertAnchor, ExactInv, clocks, shared, OnRate, ExactOrForeign
<1>8. CASE ConvertTicks
  BY <1>0, <1>8 DEF ConvertTicks, ExactInv, clocks, shared, OnRate, ExactOrForeign
<1>9. CASE ConvertNanoseconds
  <2>1. steady /\ reader.at # "idle" /\ UNCHANGED <<clocks, shared, sync, measured>>
        /\ reader' = NoReader
    BY <1>9 DEF ConvertNanoseconds, clocks
  <2>2. /\ reader \in Scaling /\ Len(results') = Len(results) + 1
        /\ results'[Len(results) + 1] = Converted
        /\ \A i \in 1..Len(results) : results'[i] = results[i]
    BY <1>9, ConvertedIs
  <2>3. ExactOrForeign(Converted)
    <3>1. /\ reader.tick \in 0..MaxTick /\ reader.anchor \in Point
          /\ reader.ticks \in 0..(Modulus - 1) /\ scaleNs \in Nat
      BY <2>2 DEF Scaling, ClockInv
    <3>2. CASE reader.ticks > 0 /\ scaleNs > 0 /\ scaleNs # Rate * reader.ticks
      BY <3>2 DEF ExactOrForeign, Converted
    <3>3. CASE reader.ticks > 0 /\ scaleNs > 0 => scaleNs = Rate * reader.ticks
      <4>1. Conversion(reader.tick, reader.anchor, reader.ticks, scaleNs) = Rate * reader.tick
        BY <1>0, <2>1, <3>1, <3>3, ConversionExact
      <4> QED
        BY <4>1 DEF ExactOrForeign, Converted, OnRate
    <3> QED
      BY <3>2, <3>3
  <2>4. ASSUME NEW i \in 1..Len(results')
        PROVE  ExactOrForeign(results'[i])
    <3>1. Len(results) \in Nat
      BY LenProperties DEF ClockInv
    <3>2. i \in 1..Len(results) \/ i = Len(results) + 1
      BY <2>2, <3>1
    <3> QED
      BY <1>0, <2>1, <2>2, <2>3, <3>2
  <2>5. reader'.at = "idle"
    BY <2>1 DEF NoReader
  <2> QED
    BY <1>0, <2>1, <2>4, <2>5 DEF ExactInv, clocks, shared, OnRate, ExactOrForeign
<1>10. CASE UNCHANGED clockVars
  BY <1>0, <1>10 DEF clockVars, clocks, shared, ExactInv, OnRate, ExactOrForeign
<1> QED
  BY <1>1, <1>6, <1>7, <1>8, <1>9, <1>10 DEF ClockNext

\* However the loads of a conversion fall between the stores of several syncs: as
\* long as system_clock keeps its rate it is exact, or it has the two halves of
\* its scale from different syncs.
THEOREM UntornExact == ClockSpec => []UntornIsExact
<1>1. ClockInit => ExactInv
  BY ExactInit
<1>2. ClockInv /\ ClockInv' /\ ExactInv /\ [ClockNext]_clockVars => ExactInv'
  BY ExactNext
<1>3. ASSUME ClockInv, ExactInv
      PROVE  UntornIsExact
  <2> SUFFICES ASSUME steady, NEW i \in 1..Len(results), ~Torn(results[i])
               PROVE  results[i].ns = Rate * results[i].tick
    BY DEF UntornIsExact
  <2>1. ExactOrForeign(results[i]) /\ \A p \in measured : p[2] = Rate * p[1]
    BY <1>3 DEF ExactInv
  <2>2. ASSUME results[i].ticks > 0, results[i].scale > 0
        PROVE  results[i].scale = Rate * results[i].ticks
    <3>1. <<results[i].ticks, results[i].scale>> \in measured
      BY <2>2 DEF Torn
    <3> QED
      BY <2>1, <3>1
  <2> QED
    BY <2>1, <2>2 DEF ExactOrForeign, OnRate
<1> QED
  BY <1>1, <1>2, <1>3, ClockInvariant, PTL DEF ClockSpec

-----------------------------------------------------------------------------
\* From one anchor, with one scale, a later tick is no earlier nanosecond.
LEMMA OffsetMonotone ==
  ASSUME NEW c \in Int, NEW d \in Int, c <= d, NEW k \in 0..(Modulus - 1), NEW n \in Nat
  PROVE  Offset(c, k, n) <= Offset(d, k, n)
<1>1. ASSUME NEW m \in Nat
      PROVE  c * m \in Int /\ d * m \in Int /\ c * m <= d * m
  <2>1. PICK e \in Nat : d = c + e
    <3>1. d - c \in Nat /\ d = c + (d - c)
      OBVIOUS
    <3> QED
      BY <3>1
  <2>2. e * m \in Nat /\ c * m \in Int /\ d * m \in Int
    BY SMT
  <2>3. (c + e) * m = c * m + e * m
    BY SMT
  <2> QED
    BY <2>1, <2>2, <2>3
<1>2. CASE k > 0 /\ n > 0
  <2>1. k \in Nat \ {0} /\ c * n \in Int /\ d * n \in Int /\ c * n <= d * n
    BY <1>1, <1>2, HalfModulus
  <2>2. Quotient(c * n, k) <= Quotient(d * n, k)
    <3> DEFINE x == c * n
               y == d * n
    <3>1. x \in Int /\ y \in Int /\ x <= y
      BY <2>1
    <3> HIDE DEF x, y
    <3>2. Quotient(x, k) <= Quotient(y, k)
      BY <2>1, <3>1, QuotientMonotone
    <3> QED
      BY <3>2 DEF x, y
  <2> QED
    BY <1>2, <2>2 DEF Offset
<1>3. CASE ~(k > 0 /\ n > 0)
  <2>1. c * Rate <= d * Rate
    BY <1>1, ClockAssumption
  <2> QED
    BY <1>3, <2>1 DEF Offset
<1> QED
  BY <1>2, <1>3

LEMMA ConversionMonotone ==
  ASSUME NEW x \in 0..MaxTick, NEW y \in 0..MaxTick, x <= y, NEW a \in Point,
         NEW k \in 0..(Modulus - 1), NEW n \in Nat
  PROVE  Conversion(x, a, k, n) <= Conversion(y, a, k, n)
<1> DEFINE c == x - a.tick
           d == y - a.tick
<1>1. a.tick \in 0..MaxTick /\ a.ns \in Int /\ c \in Int /\ d \in Int /\ c <= d
  BY DEF Point
<1>2. TickDelta(x, a.tick) = c /\ TickDelta(y, a.tick) = d
  BY <1>1, TickDeltaIs
<1> HIDE DEF c, d
<1>3. Offset(c, k, n) \in Int /\ Offset(d, k, n) \in Int /\ Offset(c, k, n) <= Offset(d, k, n)
  <2>1. n \in Int
    OBVIOUS
  <2>2. Offset(c, k, n) \in Int /\ Offset(d, k, n) \in Int
    BY <1>1, <2>1, OffsetType
  <2>3. Offset(c, k, n) <= Offset(d, k, n)
    BY <1>1, OffsetMonotone
  <2> QED
    BY <2>2, <2>3
<1> QED
  BY <1>1, <1>2, <1>3 DEF Conversion

\* The loads of a result that no store of a sync has followed are what is there now.
Current(r) == r.ns = Conversion(r.tick, anchor, scaleTicks, scaleNs)

\* The inductive invariant behind OrderBetweenSyncs: what has been loaded since the
\* last store is what is there, and a conversion during which nothing was stored was
\* made of what was there.  Two results between the same stores were made of the
\* same anchor and the same scale, whether or not these belong together.
OrderInv ==
  /\ reader.at # "idle" => reader.since <= stores
  /\ reader.at # "idle" /\ reader.since = stores => reader.anchor = anchor
  /\ reader.at = "ns" /\ reader.since = stores => reader.ticks = scaleTicks
  /\ \A i \in 1..Len(results) :
       /\ results[i].since <= results[i].until /\ results[i].until <= stores
       /\ results[i].since = stores => Current(results[i])
  /\ OrderBetweenSyncs

LEMMA OrderInit ==
  ASSUME ClockInit
  PROVE  OrderInv
  BY DEF ClockInit, OrderInv, OrderBetweenSyncs, NoReader

\* A step that converts nothing and stores nothing that a conversion loads.
LEMMA OrderKept ==
  ASSUME OrderInv, UNCHANGED <<anchor, scaleTicks, scaleNs, reader, results, stores>>
  PROVE  OrderInv'
  BY DEF OrderInv, OrderBetweenSyncs, Undisturbed, Current, Conversion

\* A store puts all that was loaded before it into the past.
LEMMA OrderStored ==
  ASSUME ClockInv, OrderInv, UNCHANGED <<reader, results>>, stores' = stores + 1
  PROVE  OrderInv'
<1>1. stores \in Nat
  BY DEF ClockInv
<1>2. reader.at # "idle" => reader.since \in Nat /\ reader.since <= stores
  BY DEF ClockInv, OrderInv, NoReader, Anchored, Scaling
<1>3. ASSUME NEW i \in 1..Len(results)
      PROVE  /\ results[i].since <= results[i].until /\ results[i].until <= stores'
             /\ results[i].since # stores'
  <2>1. results[i] \in Result
    BY ElementOfSeq DEF ClockInv
  <2>2. results[i].since \in Nat /\ results[i].until \in Nat
    BY <2>1 DEF Result
  <2> QED
    BY <1>1, <2>2 DEF OrderInv
<1>4. reader.at # "idle" => reader.since <= stores' /\ reader.since # stores'
  BY <1>1, <1>2
<1>5. OrderBetweenSyncs'
  BY DEF OrderInv, OrderBetweenSyncs, Undisturbed
<1> QED
  BY <1>3, <1>4, <1>5 DEF OrderInv

LEMMA OrderConverted ==
  ASSUME ClockInv, OrderInv, ConvertNanoseconds
  PROVE  OrderInv'
<1>1. /\ reader \in Scaling /\ Converted \in Result /\ Len(results') = Len(results) + 1
      /\ results'[Len(results) + 1] = Converted
      /\ \A i \in 1..Len(results) : results'[i] = results[i]
  BY ConvertedIs
<1>2. /\ reader' = NoReader /\ reader.at = "ns"
      /\ UNCHANGED <<anchor, scaleTicks, scaleNs, stores>>
  BY DEF ConvertNanoseconds, shared
<1>3. /\ stores \in Nat /\ anchor \in Point /\ scaleTicks \in 0..(Modulus - 1) /\ scaleNs \in Nat
      /\ Len(results) \in Nat
  BY LenProperties DEF ClockInv
<1>4. \A i \in 1..Len(results) : results[i] \in Result
  BY ElementOfSeq DEF ClockInv
<1>5. /\ Converted.since <= Converted.until /\ Converted.until = stores
      /\ Converted.since = stores => Current(Converted)
  BY <1>2 DEF OrderInv, Converted, Current
<1>6. ASSUME NEW i \in 1..Len(results')
      PROVE  /\ results'[i] \in Result
             /\ results'[i].since <= results'[i].until /\ results'[i].until <= stores
             /\ results'[i].since = stores => Current(results'[i])
  <2>1. CASE i \in 1..Len(results)
    BY <1>1, <1>4, <2>1 DEF OrderInv
  <2>2. CASE i = Len(results) + 1
    BY <1>1, <1>3, <1>5, <2>2
  <2> QED
    BY <1>1, <1>3, <2>1, <2>2
<1>7. ASSUME NEW i \in 1..Len(results'), NEW j \in 1..Len(results'),
             Undisturbed(results'[i], results'[j]), results'[i].tick <= results'[j].tick
      PROVE  results'[i].ns <= results'[j].ns
  <2>1. CASE i \in 1..Len(results) /\ j \in 1..Len(results)
    BY <1>1, <1>7, <2>1 DEF OrderInv, OrderBetweenSyncs
  <2>2. CASE i = Len(results) + 1 \/ j = Len(results) + 1
    <3>1. results'[i].since = stores /\ results'[j].since = stores
      BY <1>1, <1>5, <1>7, <2>2 DEF Undisturbed
    <3>2. Current(results'[i]) /\ Current(results'[j])
      BY <1>6, <3>1
    <3>3. results'[i].tick \in 0..MaxTick /\ results'[j].tick \in 0..MaxTick
      BY <1>6 DEF Result
    <3> DEFINE x == results'[i].tick
               y == results'[j].tick
    <3>4. Conversion(x, anchor, scaleTicks, scaleNs) <= Conversion(y, anchor, scaleTicks, scaleNs)
      <4>1. x \in 0..MaxTick /\ y \in 0..MaxTick /\ x <= y
        BY <1>7, <3>3
      <4> HIDE DEF x, y
      <4> QED
        BY <1>3, <4>1, ConversionMonotone
    <3> QED
      BY <3>2, <3>4 DEF Current
  <2> QED
    BY <1>1, <1>3, <2>1, <2>2
<1>8. OrderBetweenSyncs'
  BY <1>7 DEF OrderBetweenSyncs, Undisturbed
<1>9. reader'.at = "idle"
  BY <1>2 DEF NoReader
<1> QED
  BY <1>2, <1>6, <1>8, <1>9 DEF OrderInv, Current, Conversion

LEMMA OrderNext ==
  ASSUME ClockInv, OrderInv, [ClockNext]_clockVars
  PROVE  OrderInv'
<1>1. CASE Advance
  BY <1>1, OrderKept DEF Advance, shared
<1>2. ASSUME NEW s \in Syncers, Sync(s) PROVE OrderInv'
  <2>1. CASE SyncSample(s) \/ SyncMeasure(s) \/ SyncLast(s) \/ SyncCount(s)
    BY <2>1, OrderKept DEF SyncSample, SyncMeasure, SyncLast, SyncCount, shared
  <2>2. CASE SyncTicks(s) \/ SyncNanoseconds(s) \/ SyncAnchor(s)
    BY <2>2, OrderStored DEF SyncTicks, SyncNanoseconds, SyncAnchor
  <2> QED
    BY <1>2, <2>1, <2>2 DEF Sync
<1>3. ASSUME NEW t \in 0..tick, ConvertAnchor(t) PROVE OrderInv'
  <2>1. /\ reader' = [at |-> "ticks", tick |-> t, anchor |-> anchor, since |-> stores]
        /\ UNCHANGED <<anchor, scaleTicks, scaleNs, results, stores>> /\ stores \in Nat
    BY <1>3 DEF ConvertAnchor, shared, ClockInv
  <2>2. reader'.since = stores' /\ reader'.anchor = anchor' /\ reader'.at = "ticks" /\ stores' <= stores'
    BY <2>1
  <2>3. OrderBetweenSyncs'
    BY <2>1 DEF OrderInv, OrderBetweenSyncs, Undisturbed
  <2>4. \A i \in 1..Len(results') :
          /\ results'[i].since <= results'[i].until /\ results'[i].until <= stores'
          /\ results'[i].since = stores' => Current(results[i])'
    BY <2>1 DEF OrderInv, Current, Conversion
  <2> QED
    BY <2>2, <2>3, <2>4 DEF OrderInv
<1>4. CASE ConvertTicks
  <2>1. /\ reader' = [at |-> "ns", tick |-> reader.tick, anchor |-> reader.anchor,
                      since |-> reader.since, ticks |-> scaleTicks]
        /\ UNCHANGED <<anchor, scaleTicks, scaleNs, results, stores>> /\ reader.at = "ticks"
    BY <1>4 DEF ConvertTicks, shared
  <2> QED
    BY <2>1 DEF OrderInv, OrderBetweenSyncs, Undisturbed, Current, Conversion
<1>5. CASE ConvertNanoseconds
  BY <1>5, OrderConverted
<1>6. CASE UNCHANGED clockVars
  BY <1>6, OrderKept DEF clockVars, shared
<1> QED
  BY <1>1, <1>2, <1>3, <1>4, <1>5, <1>6 DEF ClockNext

\* Conversions between which no sync has stored anything keep the order of their
\* ticks: on both sides of the anchor, with a torn scale, and after system_clock has
\* been set back.
THEOREM OrderedBetweenSyncs == ClockSpec => []OrderBetweenSyncs
<1>1. ClockInit => OrderInv
  BY OrderInit
<1>2. ClockInv /\ OrderInv /\ [ClockNext]_clockVars => OrderInv'
  BY OrderNext
<1>3. OrderInv => OrderBetweenSyncs
  BY DEF OrderInv
<1> QED
  BY <1>1, <1>2, <1>3, ClockInvariant, PTL DEF ClockSpec
==============================================================================
