--------------------------- MODULE RecorderProofs ----------------------------
(***************************************************************************)
(* Proofs about Recorder for every ring, category set, event type, store   *)
(* order and tick: as long as no transaction is longer than the ring or    *)
(* than the 16 bits of count_, no store leaves the storage.                *)
(***************************************************************************)
EXTENDS Recorder, SequenceTheorems, TLAPS

\* start_ stays in the ring because commit moves it by at most one lap: the one
\* subtraction of capacity_ is enough.
LEMMA CommitStartInRing ==
  ASSUME NEW n \in Nat, n <= Capacity, start \in Addresses
  PROVE  CommitStart(n) \in Addresses
  BY CapacityAssumption, CountAssumption DEF CommitStart, Addresses

\* An offset into the two mapped views has a physical slot.
LEMMA PhysInRing ==
  ASSUME NEW a \in Nat, a < 2 * Capacity
  PROVE  Phys(a) \in Addresses
  BY CapacityAssumption DEF Phys, Addresses

\* Giving slots to a transaction of n slots leaves room for it.
LEMMA RoomFits ==
  ASSUME NEW k \in 0..Capacity, NEW n \in Nat, n <= Capacity
  PROVE  Room(k, n) \in 0..Capacity /\ Room(k, n) + n <= Capacity
  BY CapacityAssumption DEF Room

\* A commit hands slots of the transaction to the log, and takes none.
LEMMA KeepFits ==
  ASSUME NEW k \in 0..Capacity, NEW n \in Nat, k + n <= Capacity
  PROVE  Keep(k, n) \in 0..Capacity
  BY CapacityAssumption DEF Keep

\* The 128-bit store of add changes one slot of the ring.
LEMMA StoreInRing ==
  ASSUME RecorderInv, NEW a \in Nat, a < 2 * Capacity, NEW s \in Slot, Store(a, s)
  PROVE  mem' \in [Addresses -> Slot] /\ phase' = "recording"
<1>1. Phys(a) \in Addresses
  BY PhysInRing
<1>2. a < EndOfStorage
  BY DEF EndOfStorage, RecorderInv
<1>3. mem' = [mem EXCEPT ![Phys(a)] = s] /\ phase' = phase
  BY <1>2 DEF Store
<1> QED
  BY <1>1, <1>3 DEF RecorderInv, TypeOK

\* The slots that add writes are slots.
LEMMA PlainIsSlot ==
  ASSUME NEW t \in Nat, NEW c \in Categories
  PROVE  Plain(t, c) \in Slot
  BY DEF Plain, Slot

\* Ticks of the next record are ticks.
LEMMA NextTicksAreNat ==
  ASSUME RecorderInv, NEW t \in NextTicks
  PROVE  t \in Nat
  BY TickAssumption DEF NextTicks, RecorderInv, TypeOK

-----------------------------------------------------------------------------
LEMMA InitInv ==
  ASSUME BoundedTransactions, Init
  PROVE  RecorderInv
  BY CapacityAssumption, CountAssumption, CategoryAssumption
  DEF BoundedTransactions, Init, RecorderInv, TypeOK, Reserved, NoEvent, Empty, Slot,
      Addresses, EventInProgress

LEMMA AddInv ==
  ASSUME BoundedTransactions, RecorderInv, NEW t \in Nat, NEW c \in Categories, Add(t, c)
  PROVE  RecorderInv'
<1> USE CapacityAssumption, CountAssumption
<1> DEFINE n == added + 1
<1>1. /\ start \in 0..(Capacity - 1) /\ added \in Nat /\ kept \in 0..Capacity
      /\ count = added /\ event = NoEvent /\ n <= MaxPending /\ n <= Capacity
  BY DEF Add, Recording, RecorderInv, TypeOK, Addresses, BoundedTransactions
<1>2. mem' \in [Addresses -> Slot] /\ phase' = "recording"
  BY <1>1, StoreInRing, PlainIsSlot DEF Add
<1>3. count' = added' /\ added' = n
  BY <1>1 DEF Add, Wrap, BoundedTransactions
<1>4. kept' \in 0..Capacity /\ kept' + n <= Capacity
  BY <1>1, RoomFits DEF Add
<1>5. categories' \in SUBSET Categories
  BY DEF Add, RecorderInv, TypeOK
<1> QED
  BY <1>1, <1>2, <1>3, <1>4, <1>5 DEF Add, RecorderInv, TypeOK, Reserved, NoEvent

LEMMA StartInv ==
  ASSUME BoundedTransactions, RecorderInv, NEW t \in Nat, NEW c \in Categories, Start(t, c)
  PROVE  RecorderInv'
<1> USE CapacityAssumption, CountAssumption
<1>1. /\ start \in Addresses /\ added \in Nat /\ kept \in 0..Capacity /\ count = added
      /\ event = NoEvent /\ added + kept <= Capacity /\ 1 <= MaxPending /\ added <= Capacity
  BY DEF Start, Recording, RecorderInv, TypeOK, Addresses, BoundedTransactions, Reserved
<1>2. start' \in Addresses
  BY <1>1, CommitStartInRing DEF Start
<1>3. mem' \in [Addresses -> Slot] /\ phase' = "recording"
  BY <1>2, StoreInRing, PlainIsSlot DEF Start, Addresses
<1>4. count' = 1 /\ added' = 1
  BY <1>1 DEF Start, Wrap, BoundedTransactions
<1>5. kept' \in 0..Capacity /\ kept' + 1 <= Capacity
  BY <1>1, KeepFits, RoomFits DEF Start
<1>6. categories' \in SUBSET Categories
  BY DEF Start
<1> QED
  BY <1>1, <1>2, <1>3, <1>4, <1>5, <1>6 DEF Start, RecorderInv, TypeOK, Reserved, NoEvent

LEMMA EndInv ==
  ASSUME BoundedTransactions, RecorderInv, NEW t \in Nat, NEW c \in Categories, End(t, c)
  PROVE  RecorderInv'
<1> USE CapacityAssumption, CountAssumption
<1> DEFINE n == added + 1
<1>1. /\ start \in Addresses /\ added \in Nat /\ kept \in 0..Capacity /\ count = added
      /\ event = NoEvent /\ n <= MaxPending /\ n <= Capacity /\ Wrap(count + 1) = n
  BY DEF End, Recording, RecorderInv, TypeOK, Addresses, BoundedTransactions, Wrap
<1>2. start' \in Addresses
  BY <1>1, CommitStartInRing DEF End
<1>3. mem' \in [Addresses -> Slot] /\ phase' = "recording"
  BY <1>1, StoreInRing, PlainIsSlot DEF End, Addresses
<1>4. kept' \in 0..Capacity
  <2>1. n \in Nat /\ n <= Capacity /\ kept \in 0..Capacity
    BY <1>1
  <2> HIDE DEF n
  <2>2. Room(kept, n) \in 0..Capacity /\ Room(kept, n) + n <= Capacity
    BY <2>1, RoomFits
  <2>3. Keep(Room(kept, n), n) \in 0..Capacity
    BY <2>1, <2>2, KeepFits
  <2> QED
    BY <2>3 DEF End, n
<1> QED
  BY <1>1, <1>2, <1>3, <1>4 DEF End, RecorderInv, TypeOK, Reserved, NoEvent

LEMMA AddEventInv ==
  ASSUME BoundedTransactions, RecorderInv, NEW t \in Nat,
         NEW kind \in EventKinds, NEW order \in StoreOrders, AddEvent(t, kind, order)
  PROVE  RecorderInv'
<1> USE CapacityAssumption, CountAssumption, EventAssumption
<1> DEFINE n == added + 1 + kind.stored
<1>1. /\ start \in 0..(Capacity - 1) /\ added \in Nat /\ kept \in 0..Capacity
      /\ count = added /\ kind.stored \in Nat
      /\ n \in Nat /\ n <= MaxPending /\ n <= Capacity
  BY DEF AddEvent, RecorderInv, TypeOK, Addresses, BoundedTransactions
<1>2. phase' = "recording"
  BY <1>1 DEF AddEvent, EndOfStorage, RecorderInv
<1>3. kept' \in 0..Capacity /\ kept' + n <= Capacity
  BY <1>1, RoomFits DEF AddEvent
<1>4. event' \in EventInProgress /\ event'.kind = kind
  BY DEF AddEvent, EventInProgress
<1>5. Reserved' <= n
  BY <1>1, <1>4 DEF AddEvent, Reserved
<1>6. Reserved' \in Nat
  BY <1>1, <1>4 DEF AddEvent, Reserved
<1> QED
  BY <1>1, <1>2, <1>3, <1>4, <1>5, <1>6 DEF AddEvent, RecorderInv, TypeOK

\* Each of the three stores of an event checkpoint stays inside the ring.
LEMMA StoredInRing ==
  ASSUME RecorderInv, NEW e \in EventInProgress, NEW a \in Nat, a < 2 * Capacity,
         NEW part \in Parts
  PROVE  Stored(part, e, a) \in [Addresses -> Slot]
<1> USE EventAssumption, CategoryAssumption
<1>1. mem \in [Addresses -> Slot] /\ Phys(a) \in Addresses
  BY PhysInRing DEF RecorderInv, TypeOK
<1>2. e.at \in Nat /\ e.kind \in EventKinds
  BY DEF EventInProgress
<1>3. e.kind.declared \in Nat /\ e.kind.tick \in Nat /\ e.kind.ext \in Nat
  BY <1>2
<1>4. EventBody(e) \in Slot
  BY <1>2, <1>3 DEF EventBody, Slot
<1>5. mem[Phys(a)] \in Slot
  BY <1>1
<1>6. CASE part = "payload"
  BY <1>1, <1>4, <1>6 DEF Stored
<1>7. CASE part = "head"
  <2>1. [mem[Phys(a)] EXCEPT !.ext = e.kind.declared, !.cat = EventCategory, !.body = 0] \in Slot
    BY <1>3, <1>5 DEF Slot
  <2> QED
    BY <1>1, <1>3, <1>5, <1>7, <2>1 DEF Stored, Slot
<1>8. CASE part = "tick"
  <2>1. Stored(part, e, a) = [mem EXCEPT ![Phys(a)].tick = e.at]
    BY <1>8 DEF Stored
  <2> QED
    BY <1>1, <1>2, <1>5, <2>1 DEF Slot
<1> QED
  BY <1>6, <1>7, <1>8 DEF Parts

LEMMA StoreEventInv ==
  ASSUME BoundedTransactions, RecorderInv, StoreEvent
  PROVE  RecorderInv'
<1> USE CapacityAssumption, CountAssumption, EventAssumption, CategoryAssumption
<1>1. /\ event \in EventInProgress /\ event # NoEvent
      /\ start \in 0..(Capacity - 1) /\ added \in Nat /\ kept \in 0..Capacity
      /\ count = added
  BY DEF StoreEvent, RecorderInv, TypeOK, Addresses
<1>2. /\ event.stage \in 1..3 /\ event.kind \in EventKinds /\ event.order \in StoreOrders
      /\ event.at \in Nat
  BY <1>1 DEF EventInProgress
<1>3. event.kind.stored \in Nat /\ event.order[event.stage] \in Parts
  BY <1>2
<1> DEFINE n == added + 1 + event.kind.stored
<1>4. n \in Nat /\ n <= MaxPending /\ n <= Capacity /\ n + kept <= Capacity
  BY <1>1, <1>3 DEF RecorderInv, Reserved, BoundedTransactions
<1>5. mem' \in [Addresses -> Slot]
  <2>1. start + count \in Nat /\ start + count < 2 * Capacity
    BY <1>1, <1>3, <1>4
  <2> QED
    BY <1>1, <1>3, <2>1, StoredInRing DEF StoreEvent
<1>6. CASE event.stage < 3
  <2>1. event' \in EventInProgress /\ event'.kind = event.kind
    BY <1>1, <1>2, <1>6 DEF StoreEvent, EventInProgress
  <2>2. Reserved' <= n /\ Reserved' \in Nat
    BY <1>1, <1>3, <1>6, <2>1 DEF StoreEvent, Reserved
  <2> QED
    BY <1>1, <1>4, <1>5, <1>6, <2>1, <2>2 DEF StoreEvent, RecorderInv, TypeOK
<1>7. CASE ~(event.stage < 3)
  <2>1. count' = n /\ added' = n
    BY <1>1, <1>3, <1>4, <1>7 DEF StoreEvent, Wrap, BoundedTransactions
  <2>2. categories' \in SUBSET Categories /\ event' = NoEvent
    BY <1>7 DEF StoreEvent, RecorderInv, TypeOK
  <2> QED
    BY <1>1, <1>4, <1>5, <2>1, <2>2 DEF StoreEvent, RecorderInv, TypeOK, Reserved
<1> QED
  BY <1>6, <1>7

LEMMA CommitInv ==
  ASSUME BoundedTransactions, RecorderInv, Commit
  PROVE  RecorderInv'
<1> USE CapacityAssumption, CountAssumption
<1>1. /\ start \in Addresses /\ added \in Nat /\ kept \in 0..Capacity /\ count = added
      /\ added + kept <= Capacity /\ event = NoEvent /\ added <= Capacity
  BY DEF Commit, Recording, RecorderInv, TypeOK, Addresses, Reserved
<1>2. start' \in Addresses /\ kept' \in 0..Capacity
  BY <1>1, CommitStartInRing, KeepFits DEF Commit
<1> QED
  BY <1>1, <1>2 DEF Commit, RecorderInv, TypeOK, Reserved

LEMMA RollbackInv ==
  ASSUME BoundedTransactions, RecorderInv, Rollback
  PROVE  RecorderInv'
  BY CapacityAssumption, CountAssumption
  DEF Rollback, Recording, RecorderInv, TypeOK, Reserved

LEMMA RebindInv ==
  ASSUME BoundedTransactions, RecorderInv, NEW m \in Rebindings, Rebind(m)
  PROVE  RecorderInv'
<1> USE CapacityAssumption, CountAssumption, CategoryAssumption
<1>1. mem' \in [Addresses -> Slot]
  BY DEF Rebind, Empty, Slot
<1>2. mirrored' = TRUE /\ event' = NoEvent /\ phase' = "recording"
  BY DEF BoundedTransactions, Rebind, Recording
<1>3. /\ start' \in Addresses /\ count' = 0 /\ added' = 0 /\ kept' = 0
      /\ categories' = {} /\ clock' \in Nat
  BY DEF Rebind, Addresses, RecorderInv, TypeOK
<1> QED
  BY <1>1, <1>2, <1>3 DEF RecorderInv, TypeOK, Reserved

\* Every operation of the recorder preserves the invariant.
LEMMA NextInv ==
  ASSUME BoundedTransactions, RecorderInv, [Next]_vars
  PROVE  RecorderInv'
<1>1. ASSUME NEW t \in NextTicks, NEW c \in Categories, Add(t, c)
      PROVE  RecorderInv'
  BY <1>1, AddInv, NextTicksAreNat
<1>2. ASSUME NEW t \in NextTicks, NEW c \in Categories, Start(t, c)
      PROVE  RecorderInv'
  BY <1>2, StartInv, NextTicksAreNat
<1>3. ASSUME NEW t \in NextTicks, NEW c \in Categories, End(t, c)
      PROVE  RecorderInv'
  BY <1>3, EndInv, NextTicksAreNat
<1>4. ASSUME NEW t \in NextTicks, NEW kind \in EventKinds, NEW order \in StoreOrders,
             AddEvent(t, kind, order)
      PROVE  RecorderInv'
  BY <1>4, AddEventInv, NextTicksAreNat
<1>5. ASSUME StoreEvent PROVE RecorderInv'
  BY <1>5, StoreEventInv
<1>6. ASSUME Commit PROVE RecorderInv'
  BY <1>6, CommitInv
<1>7. ASSUME Rollback PROVE RecorderInv'
  BY <1>7, RollbackInv
<1>8. ASSUME NEW c \in Categories, CommitIfHas(c) PROVE RecorderInv'
  BY <1>6, <1>7, <1>8 DEF CommitIfHas
<1>9. ASSUME NEW m \in Rebindings, Rebind(m) PROVE RecorderInv'
  BY <1>9, RebindInv
<1>10. ASSUME UNCHANGED vars PROVE RecorderInv'
  BY <1>10 DEF vars, RecorderInv, TypeOK, Reserved
<1> QED
  BY <1>1, <1>2, <1>3, <1>4, <1>5, <1>6, <1>7, <1>8, <1>9, <1>10 DEF Next

\* The invariant holds in every state of every program that keeps its
\* transactions within the ring and the range of count_.
THEOREM RecorderInvariant ==
  ASSUME BoundedTransactions
  PROVE  Spec => []RecorderInv
<1>1. Init => RecorderInv
  BY InitInv
<1>2. RecorderInv /\ [Next]_vars => RecorderInv'
  BY NextInv
<1> QED
  BY <1>1, <1>2, PTL DEF Spec

\* Every member of the recorder keeps its type; start_ stays below end_.
THEOREM RecorderTypeOK ==
  ASSUME BoundedTransactions
  PROVE  Spec => []TypeOK
<1>1. RecorderInv => TypeOK
  BY DEF RecorderInv
<1> QED
  BY <1>1, RecorderInvariant, PTL

\* No store of add, addEvent, start or end ever leaves the mirrored storage.
THEOREM StoresStayInside ==
  ASSUME BoundedTransactions
  PROVE  Spec => []NeverOutside
<1>1. RecorderInv => NeverOutside
  BY DEF RecorderInv, NeverOutside
<1> QED
  BY <1>1, RecorderInvariant, PTL

-----------------------------------------------------------------------------
\* n slots of memory m from offset a on.
SlotsAt(m, a, n) == [i \in 1..n |-> m[Phys(a + i - 1)]]

LEMMA SlotsAtSeq ==
  ASSUME NEW m \in [Addresses -> Slot], NEW a \in Nat, NEW n \in Nat, a + n <= 2 * Capacity
  PROVE  /\ SlotsAt(m, a, n) \in Seq(Slot)
         /\ Len(SlotsAt(m, a, n)) = n
         /\ \A i \in 1..n : SlotsAt(m, a, n)[i] = m[Phys(a + i - 1)]
<1>1. ASSUME NEW i \in 1..n
      PROVE  m[Phys(a + i - 1)] \in Slot
  <2>1. a + i - 1 \in Nat /\ a + i - 1 < 2 * Capacity
    BY CapacityAssumption
  <2> QED
    BY <2>1, PhysInRing
<1>2. SlotsAt(m, a, n) \in [1..n -> Slot]
  BY <1>1 DEF SlotsAt
<1> QED
  BY <1>2 DEF SlotsAt

\* Memories that agree on the slots hold the same slots.
LEMMA SlotsAtSame ==
  ASSUME NEW m, NEW k, NEW a \in Nat, NEW n \in Nat,
         \A i \in 1..n : m[Phys(a + i - 1)] = k[Phys(a + i - 1)]
  PROVE  SlotsAt(m, a, n) = SlotsAt(k, a, n)
  BY DEF SlotsAt

\* Two runs of slots one behind the other.
LEMMA SlotsAtConcat ==
  ASSUME NEW m \in [Addresses -> Slot], NEW a \in Nat, NEW n \in Nat, NEW k \in Nat,
         a + n + k <= 2 * Capacity
  PROVE  SlotsAt(m, a, n + k) = SlotsAt(m, a, n) \o SlotsAt(m, a + n, k)
<1> DEFINE l == SlotsAt(m, a, n)
           r == SlotsAt(m, a + n, k)
           b == SlotsAt(m, a, n + k)
           c == l \o r
<1>1. /\ l \in Seq(Slot) /\ Len(l) = n
      /\ \A i \in 1..n : l[i] = m[Phys(a + i - 1)]
  BY CapacityAssumption, SlotsAtSeq
<1>2. /\ r \in Seq(Slot) /\ Len(r) = k
      /\ \A i \in 1..k : r[i] = m[Phys(a + n + i - 1)]
  BY CapacityAssumption, SlotsAtSeq
<1>3. /\ b \in Seq(Slot) /\ Len(b) = n + k
      /\ \A i \in 1..(n + k) : b[i] = m[Phys(a + i - 1)]
  BY CapacityAssumption, SlotsAtSeq
<1> HIDE DEF l, r, b
<1>4. /\ c \in Seq(Slot) /\ Len(c) = n + k
      /\ \A i \in 1..(n + k) : c[i] = IF i <= n THEN l[i] ELSE r[i - n]
  BY <1>1, <1>2, ConcatProperties
<1> HIDE DEF c
<1>5. ASSUME NEW i \in 1..(n + k)
      PROVE  c[i] = b[i]
  <2>1. CASE i <= n
    <3>1. i \in 1..n /\ c[i] = l[i]
      BY <1>4, <2>1
    <3> QED
      BY <1>1, <1>3, <3>1
  <2>2. CASE i > n
    <3>1. i - n \in 1..k /\ a + n + (i - n) - 1 = a + i - 1
      BY <2>2
    <3>2. r[i - n] = m[Phys(a + n + (i - n) - 1)]
      BY <1>2, <3>1
    <3> QED
      BY <1>3, <1>4, <2>2, <3>1, <3>2
  <2> QED
    BY <2>1, <2>2
<1>6. b = c
  BY <1>3, <1>4, <1>5, SeqEqual
<1> QED
  BY <1>6 DEF c, l, r, b

\* The second view shows the slots of the first.
LEMMA SlotsAtLap ==
  ASSUME NEW m, NEW a \in Nat, NEW n \in Nat, a + n <= Capacity
  PROVE  SlotsAt(m, a + Capacity, n) = SlotsAt(m, a, n)
<1>1. ASSUME NEW i \in 1..n
      PROVE  Phys(a + Capacity + i - 1) = Phys(a + i - 1)
  BY CapacityAssumption DEF Phys
<1> QED
  BY <1>1 DEF SlotsAt

\* The newest slots of a run are the end of it.
LEMMA SlotsAtSuffix ==
  ASSUME NEW m \in [Addresses -> Slot], NEW a \in Nat, NEW n \in Nat, NEW k \in 0..n,
         a + n <= 2 * Capacity
  PROVE  Log!Newest(SlotsAt(m, a, n), k) = SlotsAt(m, a + n - k, k)
<1> DEFINE s == SlotsAt(m, a, n)
           t == SlotsAt(m, a + n - k, k)
           u == SubSeq(s, n - k + 1, n)
<1>1. /\ s \in Seq(Slot) /\ Len(s) = n
      /\ \A i \in 1..n : s[i] = m[Phys(a + i - 1)]
  BY SlotsAtSeq
<1>2. a + n - k \in Nat /\ a + n - k + k <= 2 * Capacity /\ k \in Nat
  BY CapacityAssumption
<1>3. /\ t \in Seq(Slot) /\ Len(t) = k
      /\ \A i \in 1..k : t[i] = m[Phys(a + n - k + i - 1)]
  BY <1>2, SlotsAtSeq
<1> HIDE DEF s, t
<1>4. CASE n <= k
  <2>1. n = k /\ a + n - k = a
    BY <1>4
  <2> QED
    BY <1>1, <2>1 DEF s, Log!Newest
<1>5. CASE ~(n <= k)
  <2>1. /\ n - k + 1 \in Int /\ n \in Int
        /\ \A i \in (n - k + 1)..n : s[i] \in Slot
    BY <1>1, ElementOfSeq
  <2>2. /\ u \in Seq(Slot)
        /\ Len(u) = IF n - k + 1 <= n THEN n - (n - k + 1) + 1 ELSE 0
        /\ \A i \in 1..(n - (n - k + 1) + 1) : u[i] = s[(n - k + 1) + i - 1]
    BY <2>1, SubSeqProperties
  <2>3. n - (n - k + 1) + 1 = k /\ (n - k + 1 <= n \/ k = 0)
    BY <1>2
  <2> HIDE DEF u
  <2>4. Len(u) = k
    BY <1>2, <2>2, <2>3
  <2>5. ASSUME NEW i \in 1..k
        PROVE  u[i] = t[i]
    <3>1. u[i] = s[(n - k + 1) + i - 1]
      BY <2>2, <2>3
    <3>2. (n - k + 1) + i - 1 \in 1..n /\ a + ((n - k + 1) + i - 1) - 1 = a + n - k + i - 1
      BY <1>5
    <3>3. s[(n - k + 1) + i - 1] = m[Phys(a + ((n - k + 1) + i - 1) - 1)]
      BY <1>1, <3>2
    <3> QED
      BY <1>3, <3>1, <3>2, <3>3
  <2>6. u = t
    BY <1>3, <2>2, <2>4, <2>5, SeqEqual
  <2> QED
    BY <1>1, <1>5, <2>6 DEF s, t, u, Log!Newest
<1> QED
  BY <1>4, <1>5

\* Two offsets within one lap have slots of their own.
LEMMA PhysDistinct ==
  ASSUME NEW a \in Addresses, NEW i \in 0..(Capacity - 1), NEW j \in 0..(Capacity - 1), i # j
  PROVE  Phys(a + i) # Phys(a + j)
  BY CapacityAssumption DEF Phys, Addresses

\* One store of a slot leaves the other slots of the lap alone.
LEMMA StoreElsewhere ==
  ASSUME RecorderInv, NEW a \in Addresses, NEW n \in 0..(Capacity - 1), NEW s \in Slot,
         Store(a + n, s)
  PROVE  /\ mem'[Phys(a + n)] = s
         /\ \A j \in 0..(Capacity - 1) : j # n => mem'[Phys(a + j)] = mem[Phys(a + j)]
<1>1. a + n \in Nat /\ a + n < 2 * Capacity
  BY CapacityAssumption DEF Addresses
<1>2. a + n < EndOfStorage
  BY <1>1 DEF EndOfStorage, RecorderInv
<1>3. mem' = [mem EXCEPT ![Phys(a + n)] = s] /\ mem \in [Addresses -> Slot]
  BY <1>2 DEF Store, RecorderInv, TypeOK
<1>4. Phys(a + n) \in Addresses
  BY <1>1, PhysInRing
<1>5. ASSUME NEW j \in 0..(Capacity - 1), j # n
      PROVE  mem'[Phys(a + j)] = mem[Phys(a + j)]
  <2>1. Phys(a + j) # Phys(a + n)
    BY <1>5, PhysDistinct
  <2>2. Phys(a + j) \in Addresses
    BY CapacityAssumption, PhysInRing DEF Addresses
  <2> QED
    BY <1>3, <2>1, <2>2
<1> QED
  BY <1>3, <1>4, <1>5

\* Making room for n slots behind the log is what Room of the log does: only the
\* oldest slots go, and the stores of the n slots do not reach the others.
LEMMA RoomIsNewest ==
  ASSUME NEW m \in [Addresses -> Slot], NEW m2 \in [Addresses -> Slot], NEW a \in Addresses,
         NEW k \in 0..Capacity, NEW n \in 0..Capacity,
         \A j \in n..(Capacity - 1) : m2[Phys(a + j)] = m[Phys(a + j)]
  PROVE  SlotsAt(m2, a + Capacity - Room(k, n), Room(k, n))
           = Log!Room(SlotsAt(m, a + Capacity - k, k), n)
<1> USE CapacityAssumption
<1> DEFINE r == Room(k, n)
           b == a + Capacity - r
<1>1. r \in 0..Capacity /\ r <= k /\ r + n <= Capacity /\ (r = k \/ r = Capacity - n)
  BY DEF Room
<1>2. b \in Nat /\ b + r <= 2 * Capacity
  BY <1>1 DEF Addresses
<1>3. SlotsAt(m2, b, r) = SlotsAt(m, b, r)
  <2>1. ASSUME NEW i \in 1..r
        PROVE  m2[Phys(b + i - 1)] = m[Phys(b + i - 1)]
    <3>1. Capacity - r + i - 1 \in n..(Capacity - 1)
      BY <1>1
    <3>2. b + i - 1 = a + (Capacity - r + i - 1)
      BY <1>1 DEF Addresses
    <3> HIDE DEF b
    <3> QED
      BY <3>1, <3>2
  <2>2. b \in Nat /\ r \in Nat
    BY <1>1, <1>2
  <2> HIDE DEF b, r
  <2>3. SlotsAt(m2, b, r) = SlotsAt(m, b, r)
    BY <2>1, <2>2, SlotsAtSame
  <2> QED
    BY <2>3
<1> DEFINE s == SlotsAt(m, a + Capacity - k, k)
<1>4. a + Capacity - k \in Nat /\ a + Capacity - k + k <= 2 * Capacity
  BY DEF Addresses
<1>5. Len(s) = k
  BY <1>4, SlotsAtSeq
<1>6. CASE r = k
  <2>1. k <= Capacity - n
    BY <1>1, <1>6
  <2> QED
    BY <1>3, <1>5, <1>6, <2>1 DEF Log!Room, Log!Newest
<1>7. CASE r = Capacity - n
  <2>1. a + Capacity - k + k - r = b /\ r \in 0..k
    BY <1>1 DEF Addresses
  <2>2. Log!Newest(s, r) = SlotsAt(m, a + Capacity - k + k - r, r)
    <3> DEFINE c == a + Capacity - k
    <3>1. c \in Nat /\ c + k <= 2 * Capacity /\ k \in Nat /\ r \in 0..k
      BY <1>4, <2>1
    <3> HIDE DEF c, r
    <3>2. Log!Newest(SlotsAt(m, c, k), r) = SlotsAt(m, c + k - r, r)
      BY <3>1, SlotsAtSuffix
    <3> QED
      BY <3>2 DEF c
  <2> QED
    BY <1>3, <1>7, <2>1, <2>2 DEF Log!Room
<1> QED
  BY <1>1, <1>6, <1>7

\* Moving start_ over n slots appends them to the log, also when end_ is between
\* them or capacity_ is subtracted from start_.
LEMMA CommitIsKeep ==
  ASSUME NEW m \in [Addresses -> Slot], start \in Addresses,
         NEW k \in 0..Capacity, NEW n \in 0..Capacity, k + n <= Capacity
  PROVE  SlotsAt(m, CommitStart(n) + Capacity - Keep(k, n), Keep(k, n))
           = Log!Keep(SlotsAt(m, start + Capacity - k, k), SlotsAt(m, start, n))
<1> USE CapacityAssumption
<1>1. start \in Nat /\ start < Capacity /\ start + n <= 2 * Capacity
  BY DEF Addresses
<1>2. Len(SlotsAt(m, start, n)) = n
  BY <1>1, SlotsAtSeq
<1>3. CASE ~(n >= MinCount)
  <2>1. CommitStart(n) = start /\ Keep(k, n) = k
    BY <1>1, <1>3 DEF CommitStart, Keep
  <2> QED
    BY <1>2, <1>3, <2>1 DEF Log!Keep
<1>4. CASE n >= MinCount
  <2> DEFINE r == SlotsAt(m, start + Capacity - k, k)
             t == SlotsAt(m, start, n)
  <2>1. Keep(k, n) = k + n /\ Log!Keep(r, t) = r \o t
    BY <1>2, <1>4 DEF Keep, Log!Keep
  <2>2. CASE start + n < Capacity
    <3>1. CommitStart(n) + Capacity - (k + n) = start + Capacity - k
      BY <1>1, <1>4, <2>2 DEF CommitStart
    <3>2. SlotsAt(m, start + Capacity - k, k + n) = r \o SlotsAt(m, start + Capacity - k + k, n)
      <4> DEFINE c == start + Capacity - k
      <4>1. c \in Nat /\ c + k + n <= 2 * Capacity /\ k \in Nat /\ n \in Nat
        BY <1>1, <2>2
      <4> HIDE DEF c
      <4>2. SlotsAt(m, c, k + n) = SlotsAt(m, c, k) \o SlotsAt(m, c + k, n)
        BY <4>1, SlotsAtConcat
      <4> QED
        BY <4>2 DEF c
    <3>3. SlotsAt(m, start + Capacity - k + k, n) = t
      <4>1. start + Capacity - k + k = start + Capacity /\ start + n <= Capacity
        BY <1>1, <2>2
      <4> QED
        BY <1>1, <4>1, SlotsAtLap
    <3> QED
      BY <2>1, <3>1, <3>2, <3>3
  <2>3. CASE ~(start + n < Capacity)
    <3>1. CommitStart(n) + Capacity - (k + n) = start - k /\ start - k \in Nat
      BY <1>1, <1>4, <2>3 DEF CommitStart
    <3>2. SlotsAt(m, start - k, k + n) = SlotsAt(m, start - k, k) \o SlotsAt(m, start - k + k, n)
      <4> DEFINE c == start - k
      <4>1. c \in Nat /\ c + k + n <= 2 * Capacity /\ k \in Nat /\ n \in Nat
        BY <1>1, <3>1
      <4> HIDE DEF c
      <4>2. SlotsAt(m, c, k + n) = SlotsAt(m, c, k) \o SlotsAt(m, c + k, n)
        BY <4>1, SlotsAtConcat
      <4> QED
        BY <4>2 DEF c
    <3>3. SlotsAt(m, start - k + Capacity, k) = SlotsAt(m, start - k, k)
      <4>1. start - k + k <= Capacity
        BY <1>1
      <4> QED
        BY <3>1, <4>1, SlotsAtLap
    <3>4. start - k + Capacity = start + Capacity - k /\ start - k + k = start
      BY <1>1
    <3> QED
      BY <2>1, <3>1, <3>2, <3>3, <3>4
  <2> QED
    BY <2>2, <2>3
<1> QED
  BY <1>3, <1>4

-----------------------------------------------------------------------------
\* The open transaction and the log are runs of slots of the ring.
LEMMA PendingSlots ==
  ASSUME RecorderInv, MaxPending <= Capacity
  PROVE  /\ Pending = SlotsAt(mem, start, added)
         /\ Recent = SlotsAt(mem, start + Capacity - kept, kept)
         /\ Pending \in Seq(Slot) /\ Len(Pending) = added
         /\ Recent \in Seq(Slot) /\ Len(Recent) = kept
<1>1. /\ mem \in [Addresses -> Slot] /\ start \in 0..(Capacity - 1)
      /\ added \in 0..MaxPending /\ kept \in 0..Capacity
  BY CapacityAssumption, CountAssumption DEF RecorderInv, TypeOK, Addresses
<1>2. Pending = SlotsAt(mem, start, added) /\ Recent = SlotsAt(mem, start + Capacity - kept, kept)
  BY DEF Pending, Recent, SlotsAt
<1>3. start \in Nat /\ added \in Nat /\ start + added <= 2 * Capacity
  BY <1>1, CapacityAssumption, CountAssumption
<1>4. SlotsAt(mem, start, added) \in Seq(Slot) /\ Len(SlotsAt(mem, start, added)) = added
  BY <1>1, <1>3, SlotsAtSeq
<1> DEFINE b == start + Capacity - kept
<1>5. b \in Nat /\ kept \in Nat /\ b + kept <= 2 * Capacity
  BY <1>1, CapacityAssumption
<1> HIDE DEF b
<1>6. SlotsAt(mem, b, kept) \in Seq(Slot) /\ Len(SlotsAt(mem, b, kept)) = kept
  BY <1>1, <1>5, SlotsAtSeq
<1> QED
  BY <1>2, <1>4, <1>6 DEF b

LEMMA SlotsAtNone ==
  ASSUME NEW m, NEW a
  PROVE  SlotsAt(m, a, 0) = <<>>
<1>1. 1..0 = {}
  OBVIOUS
<1> QED
  BY <1>1 DEF SlotsAt

LEMMA SlotsAtOne ==
  ASSUME NEW m \in [Addresses -> Slot], NEW a \in Nat, a < 2 * Capacity
  PROVE  SlotsAt(m, a, 1) = <<m[Phys(a)]>>
<1> DEFINE s == SlotsAt(m, a, 1)
           t == <<m[Phys(a)]>>
<1>1. s \in Seq(Slot) /\ Len(s) = 1 /\ s[1] = m[Phys(a)]
  <2>1. a + 1 <= 2 * Capacity /\ 1 \in 1..1 /\ a + 1 - 1 = a /\ 1 \in Nat
    BY CapacityAssumption
  <2>2. /\ SlotsAt(m, a, 1) \in Seq(Slot) /\ Len(SlotsAt(m, a, 1)) = 1
        /\ \A i \in 1..1 : SlotsAt(m, a, 1)[i] = m[Phys(a + i - 1)]
    BY <2>1, SlotsAtSeq
  <2> QED
    BY <2>1, <2>2
<1>2. m[Phys(a)] \in Slot
  BY PhysInRing
<1>3. t \in Seq(Slot) /\ Len(t) = 1 /\ t[1] = m[Phys(a)]
  BY <1>2
<1>4. \A i \in 1..Len(s) : s[i] = t[i]
  BY <1>1, <1>3
<1> HIDE DEF s, t
<1>5. s = t
  BY <1>1, <1>3, <1>4, SeqEqual
<1> QED
  BY <1>5 DEF s, t

\* A record of k slots has been stored behind n slots that are as they were.
LEMMA SlotsBehind ==
  ASSUME NEW m \in [Addresses -> Slot], NEW m2 \in [Addresses -> Slot], NEW a \in Addresses,
         NEW n \in Nat, NEW k \in Nat, n + k <= Capacity,
         \A j \in 0..(Capacity - 1) : j < n => m2[Phys(a + j)] = m[Phys(a + j)]
  PROVE  SlotsAt(m2, a, n + k) = SlotsAt(m, a, n) \o SlotsAt(m2, a + n, k)
<1>1. a \in Nat /\ a + n + k <= 2 * Capacity
  BY CapacityAssumption DEF Addresses
<1>2. SlotsAt(m2, a, n + k) = SlotsAt(m2, a, n) \o SlotsAt(m2, a + n, k)
  BY <1>1, SlotsAtConcat
<1>3. ASSUME NEW i \in 1..n
      PROVE  m2[Phys(a + i - 1)] = m[Phys(a + i - 1)]
  <2>1. i - 1 \in 0..(Capacity - 1) /\ i - 1 < n /\ a + (i - 1) = a + i - 1
    BY <1>1, CapacityAssumption
  <2> QED
    BY <2>1
<1>4. SlotsAt(m2, a, n) = SlotsAt(m, a, n)
  BY <1>1, <1>3, SlotsAtSame
<1> QED
  BY <1>2, <1>4

LEMMA SlotBehind ==
  ASSUME NEW m \in [Addresses -> Slot], NEW m2 \in [Addresses -> Slot], NEW a \in Addresses,
         NEW n \in 0..(Capacity - 1),
         \A j \in 0..(Capacity - 1) : j # n => m2[Phys(a + j)] = m[Phys(a + j)]
  PROVE  SlotsAt(m2, a, n + 1) = SlotsAt(m, a, n) \o <<m2[Phys(a + n)]>>
<1> DEFINE k == 1
<1>1. /\ n \in Nat /\ k \in Nat /\ n + k <= Capacity
      /\ a + n \in Nat /\ a + n < 2 * Capacity
  BY CapacityAssumption DEF Addresses
<1>2. \A j \in 0..(Capacity - 1) : j < n => m2[Phys(a + j)] = m[Phys(a + j)]
  OBVIOUS
<1>3. SlotsAt(m2, a + n, k) = <<m2[Phys(a + n)]>>
  BY <1>1, SlotsAtOne
<1> HIDE DEF k
<1>4. SlotsAt(m2, a, n + k) = SlotsAt(m, a, n) \o SlotsAt(m2, a + n, k)
  BY <1>1, <1>2, SlotsBehind
<1> QED
  BY <1>3, <1>4 DEF k

\* What the invariant says of the sizes, in the form the lemmas about slots take.
LEMMA CountsAgree ==
  ASSUME BoundedTransactions, RecorderInv
  PROVE  /\ mem \in [Addresses -> Slot] /\ start \in Addresses /\ start \in Nat
         /\ start < Capacity /\ added \in Nat /\ added <= Capacity /\ count = added
         /\ kept \in 0..Capacity /\ added + kept <= Capacity /\ clock \in Nat
         /\ MaxPending <= Capacity
<1>1. Reserved \in Nat /\ Reserved >= added
  <2>1. event # NoEvent => event.kind.stored \in Nat
    BY EventAssumption DEF RecorderInv, TypeOK, EventInProgress
  <2> QED
    BY <2>1 DEF Reserved, RecorderInv, TypeOK
<1> QED
  BY <1>1, CapacityAssumption, CountAssumption
  DEF BoundedTransactions, RecorderInv, TypeOK, Addresses

-----------------------------------------------------------------------------
\* What each operation does to the transaction and to the log.
LEMMA AddAppends ==
  ASSUME BoundedTransactions, RecorderInv, NEW t \in Nat, NEW c \in Categories, Add(t, c)
  PROVE  /\ Pending' = Pending \o <<Plain(t, c)>>
         /\ Recent' = Log!Room(Recent, added + 1)
<1> USE CapacityAssumption, CountAssumption
<1>1. /\ added + 1 <= Capacity /\ added \in 0..(Capacity - 1) /\ added + 1 \in 0..Capacity
      /\ added' = added + 1 /\ start' = start /\ kept' = Room(kept, added + 1)
      /\ Store(start + added, Plain(t, c))
  BY CountsAgree DEF Add
<1>2. /\ mem'[Phys(start + added)] = Plain(t, c)
      /\ \A j \in 0..(Capacity - 1) : j # added => mem'[Phys(start + j)] = mem[Phys(start + j)]
  BY <1>1, CountsAgree, PlainIsSlot, StoreElsewhere
<1>3. mem' \in [Addresses -> Slot]
  BY <1>1, CountsAgree, PlainIsSlot, StoreInRing
<1>4. Pending' = Pending \o <<Plain(t, c)>>
  <2>1. Pending' = SlotsAt(mem', start, added + 1)
    BY <1>1 DEF Pending, SlotsAt
  <2>2. SlotsAt(mem', start, added + 1) = SlotsAt(mem, start, added) \o <<mem'[Phys(start + added)]>>
    BY <1>1, <1>2, <1>3, CountsAgree, SlotBehind
  <2>3. Pending = SlotsAt(mem, start, added)
    BY CountsAgree, PendingSlots
  <2> QED
    BY <1>2, <2>1, <2>2, <2>3
<1>5. Recent' = Log!Room(Recent, added + 1)
  <2>1. Recent' = SlotsAt(mem', start + Capacity - Room(kept, added + 1), Room(kept, added + 1))
    BY <1>1 DEF Recent, SlotsAt
  <2>2. \A j \in (added + 1)..(Capacity - 1) : mem'[Phys(start + j)] = mem[Phys(start + j)]
    BY <1>1, <1>2
  <2>3. Recent = SlotsAt(mem, start + Capacity - kept, kept)
    BY CountsAgree, PendingSlots
  <2> QED
    BY <1>1, <1>3, <2>1, <2>2, <2>3, CountsAgree, RoomIsNewest
<1> QED
  BY <1>4, <1>5

LEMMA CommitMoves ==
  ASSUME BoundedTransactions, RecorderInv, Commit
  PROVE  Pending' = <<>> /\ Recent' = Log!Keep(Recent, Pending)
<1>1. /\ added' = 0 /\ start' = CommitStart(added) /\ kept' = Keep(kept, added) /\ mem' = mem
  BY CountsAgree DEF Commit
<1>2. Pending' = <<>>
  <2>1. Pending' = SlotsAt(mem', start', 0)
    BY <1>1 DEF Pending, SlotsAt
  <2> QED
    BY <2>1, SlotsAtNone
<1>3. Recent' = SlotsAt(mem, CommitStart(added) + Capacity - Keep(kept, added), Keep(kept, added))
  BY <1>1 DEF Recent, SlotsAt
<1>4. added \in 0..Capacity /\ kept + added <= Capacity
  BY CountsAgree, CapacityAssumption
<1>5. /\ Recent = SlotsAt(mem, start + Capacity - kept, kept)
      /\ Pending = SlotsAt(mem, start, added)
  BY CountsAgree, PendingSlots
<1> QED
  BY <1>2, <1>3, <1>4, <1>5, CountsAgree, CommitIsKeep

LEMMA StartBegins ==
  ASSUME BoundedTransactions, RecorderInv, NEW t \in Nat, NEW c \in Categories, Start(t, c)
  PROVE  /\ Pending' = <<Plain(t, c)>>
         /\ Recent' = Log!Room(Log!Keep(Recent, Pending), 1)
<1> USE CapacityAssumption, CountAssumption
<1> DEFINE k == Keep(kept, added)
<1>1. /\ added' = 1 /\ start' = CommitStart(added) /\ kept' = Room(k, 1)
      /\ Store(start', Plain(t, c))
  BY CountsAgree DEF Start
<1>2. added \in 0..Capacity /\ kept + added <= Capacity /\ added \in Nat /\ 0 \in 0..(Capacity - 1)
  BY CountsAgree
<1>3. start' \in Addresses /\ start' + 0 = start' /\ start' \in Nat /\ start' < 2 * Capacity
  <2>1. CommitStart(added) \in Addresses
    BY <1>2, CountsAgree, CommitStartInRing
  <2> QED
    BY <1>1, <2>1 DEF Addresses
<1>4. k \in 0..Capacity
  BY <1>2, CountsAgree, KeepFits
<1>5. /\ mem'[Phys(start')] = Plain(t, c)
      /\ \A j \in 0..(Capacity - 1) : j # 0 => mem'[Phys(start' + j)] = mem[Phys(start' + j)]
  <2>1. Store(start' + 0, Plain(t, c))
    BY <1>1, <1>3
  <2> QED
    BY <1>2, <1>3, <2>1, PlainIsSlot, StoreElsewhere
<1>6. mem' \in [Addresses -> Slot]
  BY <1>1, <1>3, PlainIsSlot, StoreInRing
<1>7. Pending' = <<Plain(t, c)>>
  <2>1. Pending' = SlotsAt(mem', start', 1)
    BY <1>1 DEF Pending, SlotsAt
  <2> QED
    BY <1>3, <1>5, <1>6, <2>1, SlotsAtOne
<1>8. Recent' = Log!Room(Log!Keep(Recent, Pending), 1)
  <2>1. Recent' = SlotsAt(mem', start' + Capacity - Room(k, 1), Room(k, 1))
    BY <1>1 DEF Recent, SlotsAt
  <2>2. \A j \in 1..(Capacity - 1) : mem'[Phys(start' + j)] = mem[Phys(start' + j)]
    BY <1>5
  <2>3. Recent' = Log!Room(SlotsAt(mem, start' + Capacity - k, k), 1)
    <3>1. 1 \in 0..Capacity
      OBVIOUS
    <3> DEFINE a == start'
               m == mem'
    <3>2. a \in Addresses /\ m \in [Addresses -> Slot] /\ mem \in [Addresses -> Slot]
      BY <1>3, <1>6, CountsAgree
    <3>3. /\ \A j \in 1..(Capacity - 1) : m[Phys(a + j)] = mem[Phys(a + j)]
          /\ Recent' = SlotsAt(m, a + Capacity - Room(k, 1), Room(k, 1))
      BY <2>1, <2>2
    <3> HIDE DEF a, k, m
    <3>4. SlotsAt(m, a + Capacity - Room(k, 1), Room(k, 1)) = Log!Room(SlotsAt(mem, a + Capacity - k, k), 1)
      BY <1>4, <3>1, <3>2, <3>3, RoomIsNewest
    <3> QED
      BY <3>3, <3>4 DEF a
  <2>4. SlotsAt(mem, start' + Capacity - k, k) = Log!Keep(Recent, Pending)
    <3>1. /\ Recent = SlotsAt(mem, start + Capacity - kept, kept)
          /\ Pending = SlotsAt(mem, start, added)
      BY CountsAgree, PendingSlots
    <3> QED
      BY <1>1, <1>2, <3>1, CountsAgree, CommitIsKeep
  <2> QED
    BY <2>3, <2>4
<1> QED
  BY <1>7, <1>8

LEMMA EndAppends ==
  ASSUME BoundedTransactions, RecorderInv, NEW t \in Nat, NEW c \in Categories, End(t, c)
  PROVE  /\ Pending' = <<>>
         /\ Recent' = Log!Keep(Log!Room(Recent, added + 1), Pending \o <<Plain(t, c)>>)
<1> USE CapacityAssumption, CountAssumption
<1> DEFINE n == added + 1
           r == Room(kept, n)
<1>1. n \in 0..Capacity /\ added \in 0..(Capacity - 1) /\ Wrap(count + 1) = n
  <2>1. n <= MaxPending /\ MaxPending < CountMod
    BY DEF End, BoundedTransactions
  <2> QED
    BY <2>1, CountsAgree DEF Wrap
<1>2. /\ added' = 0 /\ start' = CommitStart(n) /\ kept' = Keep(r, n)
      /\ Store(start + added, Plain(t, c))
  BY <1>1, CountsAgree DEF End
<1>3. r \in 0..Capacity /\ r + n <= Capacity
  <2>1. n \in Nat /\ n <= Capacity /\ kept \in 0..Capacity
    BY <1>1, CountsAgree
  <2> HIDE DEF n
  <2> QED
    BY <2>1, RoomFits
<1>4. /\ mem'[Phys(start + added)] = Plain(t, c)
      /\ \A j \in 0..(Capacity - 1) : j # added => mem'[Phys(start + j)] = mem[Phys(start + j)]
  BY <1>1, <1>2, CountsAgree, PlainIsSlot, StoreElsewhere
<1>5. mem' \in [Addresses -> Slot]
  BY <1>1, <1>2, CountsAgree, PlainIsSlot, StoreInRing
<1>6. Pending' = <<>>
  <2>1. Pending' = SlotsAt(mem', start', 0)
    BY <1>2 DEF Pending, SlotsAt
  <2> QED
    BY <2>1, SlotsAtNone
<1>7. SlotsAt(mem', start, n) = Pending \o <<Plain(t, c)>>
  <2>1. SlotsAt(mem', start, n) = SlotsAt(mem, start, added) \o <<mem'[Phys(start + added)]>>
    BY <1>1, <1>4, <1>5, CountsAgree, SlotBehind
  <2>2. Pending = SlotsAt(mem, start, added)
    BY CountsAgree, PendingSlots
  <2> QED
    BY <1>4, <2>1, <2>2
<1>8. SlotsAt(mem', start + Capacity - r, r) = Log!Room(Recent, n)
  <2>1. \A j \in n..(Capacity - 1) : mem'[Phys(start + j)] = mem[Phys(start + j)]
    BY <1>1, <1>4
  <2>2. Recent = SlotsAt(mem, start + Capacity - kept, kept)
    BY CountsAgree, PendingSlots
  <2> HIDE DEF n
  <2> QED
    BY <1>1, <1>5, <2>1, <2>2, CountsAgree, RoomIsNewest
<1>9. Recent' = SlotsAt(mem', CommitStart(n) + Capacity - Keep(r, n), Keep(r, n))
  BY <1>2 DEF Recent, SlotsAt
<1>10. SlotsAt(mem', CommitStart(n) + Capacity - Keep(r, n), Keep(r, n))
         = Log!Keep(SlotsAt(mem', start + Capacity - r, r), SlotsAt(mem', start, n))
  <2> HIDE DEF n, r
  <2> QED
    BY <1>1, <1>3, <1>5, CountsAgree, CommitIsKeep
<1> QED
  BY <1>6, <1>7, <1>8, <1>9, <1>10

-----------------------------------------------------------------------------
\* One part of event e is in memory m, at offset a.
Placed(m, part, e, a) ==
  /\ part = "payload" => \A i \in 1..e.kind.stored : m[Phys(a + i)] = EventBody(e)
  /\ part = "head" =>
       /\ m[Phys(a)].ext = e.kind.declared
       /\ m[Phys(a)].cat = EventCategory
       /\ m[Phys(a)].body = 0
  /\ part = "tick" => m[Phys(a)].tick = e.at

\* The parts of the event in progress whose turn has come are in the ring.
EventPlaced ==
  event # NoEvent =>
    /\ event.at = clock /\ event.at <= MaxTick
    /\ \A i \in 1..3 : i < event.stage => Placed(mem, event.order[i], event, start + added)

LEMMA EventType ==
  ASSUME BoundedTransactions, RecorderInv, event # NoEvent
  PROVE  /\ event \in EventInProgress /\ event.kind.stored \in Nat
         /\ event.stage \in 1..3 /\ event.order[event.stage] \in Parts
         /\ added + 1 + event.kind.stored + kept <= Capacity
         /\ added + 1 + event.kind.stored <= MaxPending
<1>1. event \in EventInProgress
  BY DEF RecorderInv, TypeOK
<1>2. /\ event.stage \in 1..3 /\ event.kind \in EventKinds
      /\ event.order \in StoreOrders /\ event.kind.stored \in Nat
  BY <1>1, EventAssumption DEF EventInProgress
<1>3. event.order[event.stage] \in Parts
  BY <1>2, EventAssumption
<1>4. Reserved = added + (1 + event.kind.stored)
  BY DEF Reserved
<1> QED
  BY <1>1, <1>2, <1>3, <1>4, CountsAgree, CountAssumption DEF RecorderInv

\* A part is stored where it belongs, without harm to the other parts and to the
\* slots around the event.
LEMMA StoredPlaces ==
  ASSUME NEW e \in EventInProgress, NEW n \in Nat, start \in Addresses,
         mem \in [Addresses -> Slot], n + e.kind.stored < Capacity,
         NEW part \in Parts, NEW m, m = Stored(part, e, start + n)
  PROVE  /\ Placed(m, part, e, start + n)
         /\ \A p \in Parts : Placed(mem, p, e, start + n) => Placed(m, p, e, start + n)
         /\ \A j \in 0..(Capacity - 1) :
              j < n \/ j > n + e.kind.stored => m[Phys(start + j)] = mem[Phys(start + j)]
<1> USE CapacityAssumption
<1> DEFINE a == start + n
           k == e.kind.stored
<1>1. k \in Nat /\ n \in 0..(Capacity - 1) /\ \A i \in 1..k : n + i \in 0..(Capacity - 1)
  BY EventAssumption DEF EventInProgress
<1>2. Phys(a) \in Addresses /\ mem[Phys(a)] \in Slot
  <2>1. a \in Nat /\ a < 2 * Capacity
    BY <1>1 DEF Addresses
  <2> QED
    BY <2>1, PhysInRing
<1>3. \A i \in 1..k : Phys(a + i) # Phys(a)
  <2>1. ASSUME NEW i \in 1..k
        PROVE  Phys(start + (n + i)) # Phys(start + n)
    BY <1>1, PhysDistinct
  <2>2. \A i \in 1..k : start + (n + i) = a + i
    BY <1>1 DEF Addresses
  <2> QED
    BY <2>1, <2>2
<1>4. ASSUME NEW j \in 0..(Capacity - 1), j < n \/ j > n + k
      PROVE  Phys(start + j) # Phys(a) /\ \A i \in 1..k : Phys(start + j) # Phys(a + i)
  <2>1. Phys(start + j) # Phys(start + n)
    BY <1>1, <1>4, PhysDistinct
  <2>2. ASSUME NEW i \in 1..k
        PROVE  Phys(start + j) # Phys(start + (n + i))
    <3>1. n + i \in 0..(Capacity - 1) /\ j # n + i
      BY <1>1, <1>4
    <3> QED
      BY <3>1, PhysDistinct
  <2>3. \A i \in 1..k : start + (n + i) = a + i
    BY <1>1 DEF Addresses
  <2> QED
    BY <2>1, <2>2, <2>3
<1>5. ASSUME NEW j \in 0..(Capacity - 1)
      PROVE  Phys(start + j) \in Addresses
  BY PhysInRing DEF Addresses
<1>6. \A i \in 1..k : Phys(a + i) \in Addresses
  <2>1. \A i \in 1..k : start + (n + i) = a + i
    BY <1>1 DEF Addresses
  <2> QED
    BY <1>1, <1>5, <2>1
<1> HIDE DEF a, k
<1>7. CASE part = "payload"
  <2>1. m = [p \in Addresses |-> IF \E i \in 1..k : p = Phys(a + i) THEN EventBody(e) ELSE mem[p]]
    BY <1>7 DEF Stored, a, k
  <2>2. m[Phys(a)] = mem[Phys(a)]
    BY <1>2, <1>3, <2>1
  <2>3. \A i \in 1..k : m[Phys(a + i)] = EventBody(e)
    BY <1>6, <2>1
  <2>4. ASSUME NEW j \in 0..(Capacity - 1), j < n \/ j > n + k
        PROVE  m[Phys(start + j)] = mem[Phys(start + j)]
    BY <1>4, <1>5, <2>1, <2>4
  <2> QED
    BY <1>7, <2>2, <2>3, <2>4 DEF Placed, a, k
<1>8. CASE part = "head" \/ part = "tick"
  <2>1. PICK s : /\ m = [mem EXCEPT ![Phys(a)] = s]
                 /\ part = "head" =>
                      s.ext = e.kind.declared /\ s.cat = EventCategory /\ s.body = 0
                 /\ part = "head" => s.tick = mem[Phys(a)].tick
                 /\ part = "tick" => s.tick = e.at
                 /\ part = "tick" => s.ext = mem[Phys(a)].ext /\ s.cat = mem[Phys(a)].cat
                                       /\ s.body = mem[Phys(a)].body
    <3>1. CASE part = "head"
      <4> DEFINE s == [mem[Phys(a)] EXCEPT !.ext = e.kind.declared, !.cat = EventCategory,
                                           !.body = 0]
      <4>1. m = [mem EXCEPT ![Phys(a)] = s]
        BY <1>2, <3>1 DEF Stored, a
      <4>2. /\ s.ext = e.kind.declared /\ s.cat = EventCategory /\ s.body = 0
            /\ s.tick = mem[Phys(a)].tick
        BY <1>2 DEF Slot
      <4> HIDE DEF s
      <4> QED
        BY <3>1, <4>1, <4>2
    <3>2. CASE part = "tick"
      <4> DEFINE s == [mem[Phys(a)] EXCEPT !.tick = e.at]
      <4>1. m = [mem EXCEPT ![Phys(a)] = s]
        BY <1>2, <3>2 DEF Stored, a
      <4>2. /\ s.tick = e.at /\ s.ext = mem[Phys(a)].ext /\ s.cat = mem[Phys(a)].cat
            /\ s.body = mem[Phys(a)].body
        BY <1>2 DEF Slot
      <4> HIDE DEF s
      <4> QED
        BY <3>2, <4>1, <4>2
    <3> QED
      BY <1>8, <3>1, <3>2
  <2>2. m[Phys(a)] = s /\ \A i \in 1..k : m[Phys(a + i)] = mem[Phys(a + i)]
    BY <1>2, <1>3, <1>6, <2>1
  <2>3. ASSUME NEW j \in 0..(Capacity - 1), j < n \/ j > n + k
        PROVE  m[Phys(start + j)] = mem[Phys(start + j)]
    BY <1>4, <1>5, <2>1, <2>3
  <2>4. Placed(m, part, e, a)
    BY <1>8, <2>1, <2>2 DEF Placed
  <2>5. ASSUME NEW p \in Parts, Placed(mem, p, e, a)
        PROVE  Placed(m, p, e, a)
    BY <1>8, <2>1, <2>2, <2>4, <2>5 DEF Placed, k
  <2> QED
    BY <2>3, <2>4, <2>5 DEF a, k
<1> QED
  BY <1>7, <1>8 DEF Parts

\* An event with its three parts in the ring is its record.
LEMMA PlacedIsRecord ==
  ASSUME NEW e \in EventInProgress, NEW m \in [Addresses -> Slot],
         NEW a \in Nat, a + e.kind.stored < 2 * Capacity,
         \A p \in Parts : Placed(m, p, e, a)
  PROVE  SlotsAt(m, a, 1 + e.kind.stored) = EventRecord(e)
<1> DEFINE k == e.kind.stored
<1>1. k \in Nat
  BY EventAssumption DEF EventInProgress
<1>2. /\ m[Phys(a)].ext = e.kind.declared /\ m[Phys(a)].cat = EventCategory
      /\ m[Phys(a)].body = 0 /\ m[Phys(a)].tick = e.at
      /\ \A i \in 1..k : m[Phys(a + i)] = EventBody(e)
  BY DEF Placed, Parts
<1>3. m[Phys(a)] = EventHead(e)
  <2>1. m[Phys(a)] \in Slot
    BY <1>1, PhysInRing, CapacityAssumption
  <2> QED
    BY <1>2, <2>1 DEF Slot, EventHead
<1>4. ASSUME NEW i \in 1..(1 + k)
      PROVE  m[Phys(a + i - 1)] = (IF i = 1 THEN EventHead(e) ELSE EventBody(e))
  <2>1. CASE i = 1
    <3>1. a + i - 1 = a
      BY <2>1
    <3> QED
      BY <1>3, <2>1, <3>1
  <2>2. CASE i # 1
    <3>1. i - 1 \in 1..k /\ a + (i - 1) = a + i - 1
      BY <1>1, <2>2
    <3> QED
      BY <1>2, <2>2, <3>1
  <2> QED
    BY <2>1, <2>2
<1> QED
  BY <1>4 DEF SlotsAt, EventRecord

-----------------------------------------------------------------------------
LEMMA AddEventMakesRoom ==
  ASSUME BoundedTransactions, RecorderInv, NEW t \in Nat,
         NEW kind \in EventKinds, NEW order \in StoreOrders, AddEvent(t, kind, order)
  PROVE  /\ Pending' = Pending
         /\ Recent' = Log!Room(Recent, added + 1 + kind.stored)
<1> DEFINE n == added + 1 + kind.stored
<1>1. /\ mem' = mem /\ start' = start /\ added' = added /\ kept' = Room(kept, n)
      /\ n \in 0..Capacity
  BY CountsAgree, EventAssumption, CapacityAssumption, CountAssumption DEF AddEvent
<1>2. Pending' = Pending
  BY <1>1 DEF Pending
<1>3. Recent' = SlotsAt(mem, start + Capacity - Room(kept, n), Room(kept, n))
  BY <1>1 DEF Recent, SlotsAt
<1>4. Recent = SlotsAt(mem, start + Capacity - kept, kept)
  BY CountsAgree, PendingSlots
<1> HIDE DEF n
<1>5. SlotsAt(mem, start + Capacity - Room(kept, n), Room(kept, n))
        = Log!Room(SlotsAt(mem, start + Capacity - kept, kept), n)
  BY <1>1, CountsAgree, RoomIsNewest
<1> QED
  BY <1>2, <1>3, <1>4, <1>5 DEF n

\* The stores of an event reach neither the transaction before it nor the log.
LEMMA StoreEventReaches ==
  ASSUME BoundedTransactions, RecorderInv, StoreEvent
  PROVE  /\ mem' \in [Addresses -> Slot]
         /\ SlotsAt(mem', start, added) = SlotsAt(mem, start, added)
         /\ Recent' = Recent
         /\ \A j \in 0..(Capacity - 1) : j < added => mem'[Phys(start + j)] = mem[Phys(start + j)]
<1> USE CapacityAssumption
<1> DEFINE k == event.kind.stored
<1>1. /\ event \in EventInProgress /\ event # NoEvent /\ k \in Nat
      /\ event.order[event.stage] \in Parts /\ added + 1 + k + kept <= Capacity
  BY EventType DEF StoreEvent
<1>2. /\ mem' = Stored(event.order[event.stage], event, start + added)
      /\ start' = start /\ kept' = kept
  BY CountsAgree DEF StoreEvent
<1>3. mem' \in [Addresses -> Slot]
  <2>1. start + added \in Nat /\ start + added < 2 * Capacity
    BY <1>1, CountsAgree
  <2> QED
    BY <1>1, <1>2, <2>1, StoredInRing
<1>4. added + event.kind.stored < Capacity
  BY <1>1, CountsAgree
<1>5. \A j \in 0..(Capacity - 1) :
        j < added \/ j > added + k => mem'[Phys(start + j)] = mem[Phys(start + j)]
  BY <1>1, <1>2, <1>4, CountsAgree, StoredPlaces
<1>6. SlotsAt(mem', start, added) = SlotsAt(mem, start, added)
  <2>1. ASSUME NEW i \in 1..added
        PROVE  mem'[Phys(start + i - 1)] = mem[Phys(start + i - 1)]
    <3>1. i - 1 \in 0..(Capacity - 1) /\ i - 1 < added /\ start + (i - 1) = start + i - 1
      BY CountsAgree
    <3> QED
      BY <1>5, <3>1
  <2> QED
    BY <2>1, CountsAgree, SlotsAtSame
<1>7. Recent' = Recent
  <2> DEFINE b == start + Capacity - kept
  <2>1. b \in Nat /\ kept \in Nat
    BY CountsAgree
  <2>2. ASSUME NEW i \in 1..kept
        PROVE  mem'[Phys(b + i - 1)] = mem[Phys(b + i - 1)]
    <3>1. /\ Capacity - kept + i - 1 \in 0..(Capacity - 1) /\ Capacity - kept + i - 1 > added + k
          /\ b + i - 1 = start + (Capacity - kept + i - 1)
      BY <1>1, CountsAgree
    <3> HIDE DEF b
    <3> QED
      BY <1>5, <3>1
  <2>3. Recent = SlotsAt(mem, b, kept) /\ Recent' = SlotsAt(mem', b, kept)
    BY <1>2 DEF Recent, SlotsAt
  <2> HIDE DEF b
  <2>4. SlotsAt(mem', b, kept) = SlotsAt(mem, b, kept)
    BY <2>1, <2>2, SlotsAtSame
  <2> QED
    BY <2>3, <2>4
<1> QED
  BY <1>3, <1>5, <1>6, <1>7

LEMMA StoreEventPlaces ==
  ASSUME BoundedTransactions, RecorderInv, EventPlaced, StoreEvent
  PROVE  \A i \in 1..3 : i <= event.stage => Placed(mem', event.order[i], event, start + added)
<1>1. /\ event \in EventInProgress /\ event # NoEvent
      /\ event.stage \in 1..3 /\ event.order[event.stage] \in Parts
      /\ added + 1 + event.kind.stored + kept <= Capacity /\ event.kind.stored \in Nat
  BY EventType DEF StoreEvent
<1>2. mem' = Stored(event.order[event.stage], event, start + added)
  BY CountsAgree DEF StoreEvent
<1>3. added + event.kind.stored < Capacity
  BY <1>1, CountsAgree, CapacityAssumption
<1>4. /\ Placed(mem', event.order[event.stage], event, start + added)
      /\ \A p \in Parts : Placed(mem, p, event, start + added)
                            => Placed(mem', p, event, start + added)
  BY <1>1, <1>2, <1>3, CountsAgree, StoredPlaces
<1>5. \A i \in 1..3 : event.order[i] \in Parts
  BY <1>1, EventAssumption DEF EventInProgress
<1>6. ASSUME NEW i \in 1..3, i <= event.stage
      PROVE  Placed(mem', event.order[i], event, start + added)
  <2>1. CASE i = event.stage
    BY <1>4, <2>1
  <2>2. CASE i < event.stage
    <3>1. Placed(mem, event.order[i], event, start + added)
      BY <1>1, <2>2 DEF EventPlaced
    <3> QED
      BY <1>4, <1>5, <3>1
  <2> QED
    BY <1>1, <1>6, <2>1, <2>2
<1> QED
  BY <1>6

LEMMA StoreEventHides ==
  ASSUME BoundedTransactions, RecorderInv, StoreEvent, event.stage < 3
  PROVE  Pending' = Pending /\ Recent' = Recent
<1>1. start' = start /\ added' = added
  BY DEF StoreEvent
<1>2. Pending' = SlotsAt(mem', start, added) /\ Pending = SlotsAt(mem, start, added)
  BY <1>1 DEF Pending, SlotsAt
<1> QED
  BY <1>2, StoreEventReaches

LEMMA StoreEventAppends ==
  ASSUME BoundedTransactions, RecorderInv, EventPlaced, StoreEvent, ~(event.stage < 3)
  PROVE  /\ Pending' = Pending \o EventRecord(event)
         /\ Recent' = Log!Room(Recent, added + 1 + event.kind.stored)
<1> USE CapacityAssumption
<1> DEFINE k == event.kind.stored
           n == 1 + k
<1>1. /\ event \in EventInProgress /\ event # NoEvent /\ k \in Nat
      /\ event.stage = 3 /\ added + 1 + k + kept <= Capacity
  BY EventType DEF StoreEvent
<1>2. start' = start /\ added' = added + n
  BY <1>1, CountsAgree DEF StoreEvent
<1>3. /\ mem' \in [Addresses -> Slot] /\ Recent' = Recent
      /\ \A j \in 0..(Capacity - 1) : j < added => mem'[Phys(start + j)] = mem[Phys(start + j)]
  BY StoreEventReaches
<1>4. Pending' = SlotsAt(mem', start, added + n)
  BY <1>2 DEF Pending, SlotsAt
<1>5. SlotsAt(mem', start, added + n) = Pending \o SlotsAt(mem', start + added, n)
  <2>1. Pending = SlotsAt(mem, start, added)
    BY CountsAgree, PendingSlots
  <2>2. n \in Nat /\ added + n <= Capacity
    BY <1>1, CountsAgree
  <2> DEFINE m == mem'
  <2>3. /\ m \in [Addresses -> Slot] /\ mem \in [Addresses -> Slot]
        /\ start \in Addresses /\ added \in Nat
        /\ \A j \in 0..(Capacity - 1) : j < added => m[Phys(start + j)] = mem[Phys(start + j)]
    BY <1>3, CountsAgree
  <2> HIDE DEF n, m
  <2>4. SlotsAt(m, start, added + n) = SlotsAt(mem, start, added) \o SlotsAt(m, start + added, n)
    BY <2>2, <2>3, SlotsBehind
  <2> QED
    BY <2>1, <2>4 DEF m
<1>6. SlotsAt(mem', start + added, n) = EventRecord(event)
  <2>1. start + added \in Nat /\ start + added + event.kind.stored < 2 * Capacity
    BY <1>1, CountsAgree
  <2>2. ASSUME NEW p \in Parts
        PROVE  Placed(mem', p, event, start + added)
    <3>1. PICK i \in 1..3 : event.order[i] = p
      BY <1>1, EventAssumption DEF EventInProgress
    <3> QED
      BY <1>1, <3>1, StoreEventPlaces
  <2> QED
    BY <1>1, <1>3, <2>1, <2>2, PlacedIsRecord
<1>7. Log!Room(Recent, added + 1 + k) = Recent
  <2>1. Len(Recent) = kept /\ kept <= Capacity - (added + 1 + k)
    BY <1>1, CountsAgree, PendingSlots
  <2> QED
    BY <2>1 DEF Log!Room, Log!Newest
<1> QED
  BY <1>3, <1>4, <1>5, <1>6, <1>7

LEMMA RollbackForgets ==
  ASSUME BoundedTransactions, RecorderInv, Rollback
  PROVE  Pending' = <<>> /\ Recent' = Recent
<1>1. added' = 0 /\ mem' = mem /\ start' = start /\ kept' = kept
  BY DEF Rollback
<1>2. Pending' = SlotsAt(mem', start', 0)
  BY <1>1 DEF Pending, SlotsAt
<1>3. Recent' = Recent
  BY <1>1 DEF Recent
<1> QED
  BY <1>2, <1>3, SlotsAtNone

LEMMA RebindResets ==
  ASSUME NEW m \in Rebindings, Rebind(m)
  PROVE  Pending' = <<>> /\ Recent' = <<>>
<1>1. added' = 0 /\ kept' = 0
  BY DEF Rebind
<1>2. Pending' = SlotsAt(mem', start', 0)
  BY <1>1 DEF Pending, SlotsAt
<1>3. Recent' = SlotsAt(mem', start' + Capacity - 0, 0)
  BY <1>1 DEF Recent, SlotsAt
<1> QED
  BY <1>2, <1>3, SlotsAtNone

-----------------------------------------------------------------------------
\* The categories of the records whose headers are in s.
HeadCategories(s) == {s[i].cat : i \in {j \in 1..Len(s) : s[j].body = 0}}

\* What the invariant adds about the contents of the ring: the event in progress is
\* there as far as it has been stored, categories_ names what is pending, also while
\* an event is being stored, and the last record carries the last tick.
ContentInv ==
  /\ EventPlaced
  /\ categories = HeadCategories(Pending)
  /\ event = NoEvent /\ added > 0 /\ Pending[added].body = 0 => Pending[added].tick = clock

LEMMA HeadCategoriesOfConcat ==
  ASSUME NEW s \in Seq(Slot), NEW t \in Seq(Slot)
  PROVE  HeadCategories(s \o t) = HeadCategories(s) \cup HeadCategories(t)
<1> DEFINE u == s \o t
<1>1. /\ Len(s) \in Nat /\ Len(t) \in Nat /\ Len(u) = Len(s) + Len(t)
      /\ \A i \in 1..(Len(s) + Len(t)) : u[i] = IF i <= Len(s) THEN s[i] ELSE t[i - Len(s)]
  BY ConcatProperties
<1> HIDE DEF u
<1>2. \A i \in 1..Len(s) : i \in 1..Len(u) /\ u[i] = s[i]
  BY <1>1
<1>3. ASSUME NEW i \in 1..Len(t)
      PROVE  Len(s) + i \in 1..Len(u) /\ u[Len(s) + i] = t[i]
  <2>1. Len(s) + i \in 1..(Len(s) + Len(t)) /\ ~(Len(s) + i <= Len(s)) /\ Len(s) + i - Len(s) = i
    BY <1>1
  <2> QED
    BY <1>1, <2>1
<1>4. HeadCategories(u) \subseteq HeadCategories(s) \cup HeadCategories(t)
  <2>1. ASSUME NEW i \in 1..Len(u), u[i].body = 0
        PROVE  u[i].cat \in HeadCategories(s) \cup HeadCategories(t)
    <3>1. CASE i <= Len(s)
      <4>1. i \in 1..Len(s) /\ u[i] = s[i]
        BY <1>1, <3>1
      <4> QED
        BY <2>1, <4>1 DEF HeadCategories
    <3>2. CASE ~(i <= Len(s))
      <4>1. i - Len(s) \in 1..Len(t) /\ u[i] = t[i - Len(s)]
        BY <1>1, <3>2
      <4> QED
        BY <2>1, <4>1 DEF HeadCategories
    <3> QED
      BY <3>1, <3>2
  <2> QED
    BY <2>1 DEF HeadCategories
<1>5. HeadCategories(s) \subseteq HeadCategories(u)
  BY <1>2 DEF HeadCategories
<1>6. HeadCategories(t) \subseteq HeadCategories(u)
  <2>1. ASSUME NEW i \in 1..Len(t), t[i].body = 0
        PROVE  t[i].cat \in HeadCategories(u)
    <3>1. Len(s) + i \in 1..Len(u) /\ u[Len(s) + i] = t[i]
      BY <1>3
    <3> QED
      BY <2>1, <3>1 DEF HeadCategories
  <2> QED
    BY <2>1 DEF HeadCategories
<1> QED
  BY <1>4, <1>5, <1>6 DEF u

LEMMA HeadCategoriesOfNone == HeadCategories(<<>>) = {}
  BY DEF HeadCategories

LEMMA HeadCategoriesOfPlain ==
  ASSUME NEW t \in Nat, NEW c \in Categories
  PROVE  HeadCategories(<<Plain(t, c)>>) = {c}
<1> DEFINE s == <<Plain(t, c)>>
<1>1. Len(s) = 1 /\ s[1].cat = c /\ s[1].body = 0 /\ \A i \in 1..1 : i = 1
  BY DEF Plain
<1> HIDE DEF s
<1>2. {j \in 1..Len(s) : s[j].body = 0} = {1}
  BY <1>1
<1>3. HeadCategories(s) = {c}
  BY <1>1, <1>2 DEF HeadCategories
<1> QED
  BY <1>3 DEF s

\* The record of an event is its header and slots that are no headers.
LEMMA EventRecordSlots ==
  ASSUME NEW e \in EventInProgress
  PROVE  /\ EventRecord(e) \in Seq(Slot) /\ Len(EventRecord(e)) = 1 + e.kind.stored
         /\ EventRecord(e)[1] = EventHead(e)
         /\ \A i \in 2..(1 + e.kind.stored) : EventRecord(e)[i] = EventBody(e)
         /\ EventBody(e).body # 0
<1>1. /\ e.at \in Nat /\ e.kind.stored \in Nat /\ e.kind.declared \in Nat
      /\ e.kind.tick \in Nat /\ e.kind.ext \in Nat
  BY EventAssumption DEF EventInProgress
<1>2. EventHead(e) \in Slot /\ EventBody(e) \in Slot /\ EventBody(e).body # 0
  BY <1>1, CategoryAssumption DEF EventHead, EventBody, Slot
<1>3. EventRecord(e) \in [1..(1 + e.kind.stored) -> Slot]
  BY <1>1, <1>2 DEF EventRecord
<1>4. EventRecord(e)[1] = EventHead(e)
  BY <1>1 DEF EventRecord
<1>5. \A i \in 2..(1 + e.kind.stored) : EventRecord(e)[i] = EventBody(e)
  BY <1>1 DEF EventRecord
<1> QED
  BY <1>1, <1>2, <1>3, <1>4, <1>5

LEMMA HeadCategoriesOfEvent ==
  ASSUME NEW e \in EventInProgress
  PROVE  HeadCategories(EventRecord(e)) = {EventCategory}
<1> DEFINE s == EventRecord(e)
<1>1. /\ Len(s) = 1 + e.kind.stored /\ s[1] = EventHead(e)
      /\ \A i \in 2..(1 + e.kind.stored) : s[i] = EventBody(e)
      /\ EventBody(e).body # 0
  BY EventRecordSlots
<1>2. e.kind.stored \in Nat
  BY EventAssumption DEF EventInProgress
<1> HIDE DEF s
<1>3. s[1].cat = EventCategory /\ s[1].body = 0
  BY <1>1 DEF EventHead
<1>4. {j \in 1..Len(s) : s[j].body = 0} = {1}
  <2>1. ASSUME NEW j \in 1..Len(s), s[j].body = 0
        PROVE  j = 1
    <3>1. j \notin 2..(1 + e.kind.stored)
      BY <1>1, <2>1
    <3> QED
      BY <1>1, <1>2, <3>1
  <2>2. 1 \in 1..Len(s)
    BY <1>1, <1>2
  <2> QED
    BY <1>3, <2>1, <2>2
<1>5. HeadCategories(s) = {EventCategory}
  BY <1>3, <1>4 DEF HeadCategories
<1> QED
  BY <1>5 DEF s

-----------------------------------------------------------------------------
\* An operation that leaves no transaction and no event leaves nothing to be wrong
\* about.
LEMMA EmptyContent ==
  ASSUME Pending' = <<>>, categories' = {}, added' = 0, event' = NoEvent
  PROVE  ContentInv'
  BY HeadCategoriesOfNone DEF ContentInv, EventPlaced

\* An operation that leaves a transaction with a plain record at its end.
LEMMA PlainContent ==
  ASSUME NEW s \in Seq(Slot), NEW t \in Nat, NEW c \in Categories,
         Pending' = s \o <<Plain(t, c)>>, added' = Len(s) + 1,
         categories' = HeadCategories(s) \cup {c}, clock' = t, event' = NoEvent
  PROVE  ContentInv'
<1> DEFINE p == <<Plain(t, c)>>
           u == s \o p
<1>1. p \in Seq(Slot) /\ Len(p) = 1 /\ p[1] = Plain(t, c)
  BY PlainIsSlot
<1>2. HeadCategories(u) = HeadCategories(s) \cup {c}
  <2>1. HeadCategories(p) = {c}
    BY HeadCategoriesOfPlain
  <2> HIDE DEF p
  <2>2. HeadCategories(s \o p) = HeadCategories(s) \cup HeadCategories(p)
    BY <1>1, HeadCategoriesOfConcat
  <2> QED
    BY <2>1, <2>2
<1>3. u[Len(s) + 1] = Plain(t, c)
  <2>1. Len(s) \in Nat
    BY LenProperties
  <2>2. \A i \in 1..(Len(s) + 1) : u[i] = IF i <= Len(s) THEN s[i] ELSE p[i - Len(s)]
    BY <1>1, ConcatProperties
  <2>3. Len(s) + 1 \in 1..(Len(s) + 1) /\ ~(Len(s) + 1 <= Len(s)) /\ Len(s) + 1 - Len(s) = 1
    BY <2>1
  <2> QED
    BY <1>1, <2>2, <2>3
<1> HIDE DEF u
<1>4. Pending' = u
  BY DEF u
<1>5. Plain(t, c).tick = t
  BY DEF Plain
<1>6. EventPlaced'
  BY DEF EventPlaced
<1>7. categories' = HeadCategories(Pending)'
  BY <1>2, <1>4 DEF HeadCategories
<1>8. Pending'[added'].tick = clock'
  BY <1>3, <1>4, <1>5
<1> QED
  BY <1>6, <1>7, <1>8 DEF ContentInv

LEMMA StoreEventContent ==
  ASSUME BoundedTransactions, RecorderInv, ContentInv, StoreEvent
  PROVE  ContentInv'
<1> DEFINE k == event.kind.stored
<1>1. /\ event \in EventInProgress /\ event # NoEvent /\ k \in Nat
      /\ event.stage \in 1..3 /\ event.at = clock /\ event.at <= MaxTick
  BY EventType DEF StoreEvent, ContentInv, EventPlaced
<1>2. /\ Pending \in Seq(Slot) /\ Len(Pending) = added
      /\ categories = HeadCategories(Pending)
  BY CountsAgree, PendingSlots DEF ContentInv
<1>3. start' = start /\ clock' = clock
  BY DEF StoreEvent
<1>4. CASE event.stage < 3
  <2>1. /\ event' = [event EXCEPT !.stage = @ + 1] /\ categories' = categories /\ added' = added
    BY <1>4 DEF StoreEvent
  <2>2. /\ event'.stage = event.stage + 1 /\ event'.at = event.at
        /\ event'.kind = event.kind /\ event'.order = event.order
    BY <1>1, <2>1 DEF EventInProgress
  <2>3. EventPlaced'
    <3>1. ASSUME NEW i \in 1..3, i < event'.stage
          PROVE  Placed(mem', event'.order[i], event', start' + added')
      <4>1. i <= event.stage
        BY <1>1, <2>2, <3>1
      <4>2. Placed(mem', event.order[i], event, start + added)
        BY <4>1, StoreEventPlaces DEF ContentInv
      <4> QED
        BY <1>3, <2>1, <2>2, <4>2 DEF Placed, EventBody
    <3> QED
      BY <1>1, <1>3, <2>2, <3>1 DEF EventPlaced
  <2>4. Pending' = Pending
    BY <1>4, StoreEventHides
  <2>5. event' # NoEvent
    BY <1>1, <2>2 DEF NoEvent
  <2> QED
    BY <1>2, <2>1, <2>3, <2>4, <2>5 DEF ContentInv, HeadCategories
<1>5. CASE ~(event.stage < 3)
  <2> DEFINE r == EventRecord(event)
             u == Pending \o r
  <2>1. /\ event' = NoEvent /\ categories' = categories \cup {EventCategory}
        /\ added' = added + 1 + k
    BY <1>5 DEF StoreEvent
  <2>2. Pending' = u
    BY <1>5, StoreEventAppends DEF ContentInv
  <2>3. /\ r \in Seq(Slot) /\ Len(r) = 1 + k /\ r[1] = EventHead(event)
        /\ \A i \in 2..(1 + k) : r[i] = EventBody(event)
        /\ EventBody(event).body # 0
    BY <1>1, EventRecordSlots
  <2>4. HeadCategories(u) = categories'
    <3>1. HeadCategories(r) = {EventCategory}
      BY <1>1, HeadCategoriesOfEvent
    <3> HIDE DEF r
    <3> QED
      BY <1>2, <2>1, <2>3, <3>1, HeadCategoriesOfConcat
  <2>5. u[added + 1 + k] = r[1 + k]
    <3> HIDE DEF r
    <3>1. \A i \in 1..(added + (1 + k)) : u[i] = IF i <= added THEN Pending[i] ELSE r[i - added]
      BY <1>2, <2>3, ConcatProperties
    <3> HIDE DEF u
    <3>2. /\ added + 1 + k \in 1..(added + (1 + k)) /\ ~(added + 1 + k <= added)
          /\ added + 1 + k - added = 1 + k /\ added \in Nat /\ k \in Nat
      BY <1>1, CountsAgree
    <3> DEFINE i == added + 1 + k
    <3> HIDE DEF i, k
    <3>3. u[i] = r[i - added]
      BY <3>1, <3>2 DEF i
    <3> QED
      BY <3>2, <3>3 DEF i
  <2> HIDE DEF r, u
  <2>6. r[1 + k].body = 0 => r[1 + k].tick = clock'
    <3>1. CASE k = 0
      BY <1>1, <1>3, <2>3, <3>1 DEF EventHead
    <3>2. CASE k # 0
      <4>1. 1 + k \in 2..(1 + k)
        BY <1>1, <3>2
      <4> QED
        BY <2>3, <4>1
    <3> QED
      BY <3>1, <3>2
  <2>7. EventPlaced'
    BY <2>1 DEF EventPlaced
  <2>8. categories' = HeadCategories(Pending)'
    BY <2>2, <2>4 DEF HeadCategories
  <2>9. Pending'[added'].body = 0 => Pending'[added'].tick = clock'
    BY <2>1, <2>2, <2>5, <2>6
  <2> QED
    BY <2>7, <2>8, <2>9 DEF ContentInv
<1> QED
  BY <1>4, <1>5

\* Every operation of the recorder preserves what the invariant says of the contents.
LEMMA NextContent ==
  ASSUME BoundedTransactions, RecorderInv, ContentInv, [Next]_vars
  PROVE  ContentInv'
<1> USE CapacityAssumption, CountAssumption
<1>1. /\ Pending \in Seq(Slot) /\ Len(Pending) = added /\ categories = HeadCategories(Pending)
  BY CountsAgree, PendingSlots DEF ContentInv
<1>2. ASSUME NEW t \in NextTicks, NEW c \in Categories, Add(t, c)
      PROVE  ContentInv'
  <2>1. t \in Nat
    BY NextTicksAreNat
  <2>2. Pending' = Pending \o <<Plain(t, c)>>
    BY <1>2, <2>1, AddAppends
  <2>3. /\ added' = Len(Pending) + 1 /\ categories' = HeadCategories(Pending) \cup {c}
        /\ clock' = t /\ event' = NoEvent
    BY <1>1, <1>2 DEF Add, Recording
  <2> QED
    BY <1>1, <2>1, <2>2, <2>3, PlainContent
<1>3. ASSUME NEW t \in NextTicks, NEW c \in Categories, Start(t, c)
      PROVE  ContentInv'
  <2>1. t \in Nat
    BY NextTicksAreNat
  <2> DEFINE s == <<>>
  <2>2. s \in Seq(Slot) /\ Len(s) = 0 /\ HeadCategories(s) = {}
    BY HeadCategoriesOfNone
  <2>3. Pending' = s \o <<Plain(t, c)>>
    <3>1. Pending' = <<Plain(t, c)>>
      BY <1>3, <2>1, StartBegins
    <3>2. <<Plain(t, c)>> \in Seq(Slot)
      BY <2>1, PlainIsSlot
    <3>3. s \o <<Plain(t, c)>> = <<Plain(t, c)>>
      BY <3>2, ConcatEmptySeq
    <3> QED
      BY <3>1, <3>3
  <2>4. added' = 1 /\ categories' = {c} /\ clock' = t /\ event' = NoEvent
    BY <1>3 DEF Start, Recording
  <2> HIDE DEF s
  <2>5. added' = Len(s) + 1 /\ categories' = HeadCategories(s) \cup {c}
    BY <2>2, <2>4
  <2> QED
    BY <2>1, <2>2, <2>3, <2>4, <2>5, PlainContent
<1>4. ASSUME NEW t \in NextTicks, NEW c \in Categories, End(t, c)
      PROVE  ContentInv'
  <2>1. Pending' = <<>>
    BY <1>4, NextTicksAreNat, EndAppends
  <2> QED
    BY <1>4, <2>1, EmptyContent DEF End, Recording
<1>5. ASSUME NEW t \in NextTicks, NEW kind \in EventKinds, NEW order \in StoreOrders,
             AddEvent(t, kind, order)
      PROVE  ContentInv'
  <2>1. t \in Nat /\ t <= MaxTick
    BY NextTicksAreNat DEF NextTicks
  <2>2. Pending' = Pending
    BY <1>5, <2>1, AddEventMakesRoom
  <2>3. /\ event' = [stage |-> 1, at |-> t, kind |-> kind, order |-> order]
        /\ clock' = t /\ categories' = categories
    BY <1>5 DEF AddEvent
  <2>4. event' # NoEvent
    BY <2>3 DEF NoEvent
  <2>5. EventPlaced'
    BY <2>1, <2>3 DEF EventPlaced
  <2> QED
    BY <1>1, <2>2, <2>3, <2>4, <2>5 DEF ContentInv, HeadCategories
<1>6. ASSUME StoreEvent PROVE ContentInv'
  BY <1>6, StoreEventContent
<1>7. ASSUME Commit PROVE ContentInv'
  BY <1>7, CommitMoves, EmptyContent DEF Commit, Recording
<1>8. ASSUME Rollback PROVE ContentInv'
  BY <1>8, RollbackForgets, EmptyContent DEF Rollback, Recording
<1>9. ASSUME NEW c \in Categories, CommitIfHas(c) PROVE ContentInv'
  BY <1>7, <1>8, <1>9 DEF CommitIfHas
<1>10. ASSUME NEW m \in Rebindings, Rebind(m) PROVE ContentInv'
  BY <1>10, RebindResets, EmptyContent DEF Rebind, Recording
<1>11. ASSUME UNCHANGED vars PROVE ContentInv'
  BY <1>11 DEF vars, ContentInv, EventPlaced, Placed, Pending, HeadCategories
<1> QED
  BY <1>2, <1>3, <1>4, <1>5, <1>6, <1>7, <1>8, <1>9, <1>10, <1>11 DEF Next

\* Every operation of the recorder is one step of the log, or none.
LEMMA NextImplementsLog ==
  ASSUME BoundedTransactions, RecorderInv, ContentInv, [Next]_vars
  PROVE  [Log!Next]_Log!vars
<1> USE CapacityAssumption, CountAssumption
<1>1. Len(Pending) = added /\ added \in Nat /\ Pending \in Seq(Slot) /\ MaxPending <= Capacity
  BY CountsAgree, PendingSlots
<1>2. ASSUME NEW t \in NextTicks, NEW c \in Categories
      PROVE  t \in Nat /\ <<Plain(t, c)>> \in WrittenRecords /\ Len(<<Plain(t, c)>>) = 1
  <2>1. t \in 0..MaxTick
    BY NextTicksAreNat, TickAssumption DEF NextTicks
  <2> QED
    BY <2>1 DEF WrittenRecords
<1>3. ASSUME NEW t \in NextTicks, NEW c \in Categories, Add(t, c)
      PROVE  Log!Write
  <2>1. added + 1 <= Capacity
    BY <1>1, <1>3 DEF Add
  <2>2. /\ Pending' = Pending \o <<Plain(t, c)>>
        /\ Recent' = Log!Room(Recent, added + 1)
    BY <1>2, <1>3, AddAppends
  <2> QED
    BY <1>1, <1>2, <2>1, <2>2 DEF Log!Write
<1>4. ASSUME NEW t \in NextTicks, NEW c \in Categories, Start(t, c)
      PROVE  Log!CommitWrite
  <2>1. /\ Pending' = <<Plain(t, c)>>
        /\ Recent' = Log!Room(Log!Keep(Recent, Pending), 1)
    BY <1>2, <1>4, StartBegins
  <2> DEFINE rec == <<Plain(t, c)>>
  <2>2. rec \in WrittenRecords /\ Len(rec) = 1 /\ Pending' = rec
    BY <1>2, <2>1
  <2> HIDE DEF rec
  <2>3. Len(rec) <= Capacity /\ Recent' = Log!Room(Log!Keep(Recent, Pending), Len(rec))
    BY <2>1, <2>2
  <2> QED
    BY <2>2, <2>3 DEF Log!CommitWrite
<1>5. ASSUME NEW t \in NextTicks, NEW c \in Categories, End(t, c)
      PROVE  Log!WriteCommit
  <2>1. added + 1 <= Capacity
    BY <1>1, <1>5 DEF End
  <2>2. /\ Pending' = <<>>
        /\ Recent' = Log!Keep(Log!Room(Recent, added + 1), Pending \o <<Plain(t, c)>>)
    BY <1>2, <1>5, EndAppends
  <2> QED
    BY <1>1, <1>2, <2>1, <2>2 DEF Log!WriteCommit
<1>6. ASSUME NEW t \in NextTicks, NEW kind \in EventKinds, NEW order \in StoreOrders,
             AddEvent(t, kind, order)
      PROVE  Log!MakeRoom
  <2> DEFINE rec == EventRecord([at |-> t, kind |-> kind])
  <2>1. t \in 0..MaxTick /\ t \in Nat
    BY NextTicksAreNat, TickAssumption DEF NextTicks
  <2>2. rec \in WrittenRecords
    BY <2>1 DEF WrittenRecords
  <2>3. Len(rec) = 1 + kind.stored /\ kind.stored \in Nat
    BY EventAssumption DEF EventRecord
  <2>4. added + 1 + kind.stored <= Capacity
    BY <1>1, <1>6, <2>3 DEF AddEvent
  <2>5. /\ Pending' = Pending
        /\ Recent' = Log!Room(Recent, added + 1 + kind.stored)
    BY <1>6, <2>1, AddEventMakesRoom
  <2> HIDE DEF rec
  <2>6. /\ Len(Pending) + Len(rec) <= Capacity
        /\ Recent' = Log!Room(Recent, Len(Pending) + Len(rec))
    <3>1. Len(Pending) + Len(rec) = added + 1 + kind.stored
      BY <1>1, <2>3
    <3> QED
      BY <2>4, <2>5, <3>1
  <2> QED
    BY <2>2, <2>5, <2>6 DEF Log!MakeRoom
<1>7. ASSUME StoreEvent PROVE Log!Write \/ UNCHANGED Log!vars
  <2>1. CASE event.stage < 3
    BY <1>7, <2>1, StoreEventHides DEF Log!vars
  <2>2. CASE ~(event.stage < 3)
    <3> DEFINE rec == EventRecord(event)
    <3>1. /\ event \in EventInProgress /\ event.kind.stored \in Nat
          /\ added + 1 + event.kind.stored <= Capacity /\ event.at \in 0..MaxTick
      <4>1. /\ event \in EventInProgress /\ event # NoEvent /\ event.kind.stored \in Nat
            /\ added + 1 + event.kind.stored <= MaxPending
        BY <1>7, EventType DEF StoreEvent
      <4>2. event.at \in Nat /\ event.at <= MaxTick
        BY <4>1 DEF EventInProgress, ContentInv, EventPlaced
      <4> QED
        BY <1>1, <4>1, <4>2, TickAssumption
    <3>2. rec \in WrittenRecords /\ Len(rec) = 1 + event.kind.stored
      <4>1. rec = EventRecord([at |-> event.at, kind |-> event.kind])
        BY DEF EventRecord, EventHead, EventBody
      <4>2. event.kind \in EventKinds
        BY <3>1 DEF EventInProgress
      <4> QED
        BY <3>1, <4>1, <4>2, EventRecordSlots DEF WrittenRecords
    <3>3. /\ Pending' = Pending \o rec
          /\ Recent' = Log!Room(Recent, added + 1 + event.kind.stored)
      BY <1>7, <2>2, StoreEventAppends DEF ContentInv
    <3> HIDE DEF rec
    <3>4. /\ Len(Pending) + Len(rec) <= Capacity
          /\ Recent' = Log!Room(Recent, Len(Pending) + Len(rec))
      <4>1. Len(Pending) + Len(rec) = added + 1 + event.kind.stored
        BY <1>1, <3>1, <3>2
      <4> QED
        BY <3>1, <3>3, <4>1
    <3> QED
      BY <3>2, <3>3, <3>4 DEF Log!Write
  <2> QED
    BY <2>1, <2>2
<1>8. ASSUME Commit PROVE Log!Commit
  BY <1>8, CommitMoves DEF Log!Commit
<1>9. ASSUME Rollback PROVE Log!Rollback
  BY <1>9, RollbackForgets DEF Log!Rollback
<1>10. ASSUME NEW c \in Categories, CommitIfHas(c) PROVE Log!Commit \/ Log!Rollback
  BY <1>8, <1>9, <1>10 DEF CommitIfHas
<1>11. ASSUME NEW m \in Rebindings, Rebind(m) PROVE Log!Reset
  BY <1>11, RebindResets DEF Log!Reset
<1>12. ASSUME UNCHANGED vars PROVE UNCHANGED Log!vars
  BY <1>12 DEF vars, Log!vars, Pending, Recent
<1> QED
  BY <1>3, <1>4, <1>5, <1>6, <1>7, <1>8, <1>9, <1>10, <1>11, <1>12 DEF Next, Log!Next

-----------------------------------------------------------------------------
LEMMA InitContent ==
  ASSUME Init
  PROVE  ContentInv /\ Log!Init
<1>1. Pending = SlotsAt(mem, start, 0) /\ Recent = SlotsAt(mem, start + Capacity - 0, 0)
  BY DEF Init, Pending, Recent, SlotsAt
<1>2. Pending = <<>> /\ Recent = <<>>
  BY <1>1, SlotsAtNone
<1> QED
  BY <1>2, HeadCategoriesOfNone DEF Init, ContentInv, EventPlaced, Log!Init

\* The contents of the ring are as the members of the recorder describe them.
THEOREM RecorderContent ==
  ASSUME BoundedTransactions
  PROVE  Spec => []ContentInv
<1>1. Init => ContentInv
  BY InitContent
<1>2. RecorderInv /\ ContentInv /\ [Next]_vars => ContentInv'
  BY NextContent
<1> QED
  BY <1>1, <1>2, RecorderInvariant, PTL DEF Spec

\* commitIfHas decides by the categories of the records that are in the ring, in
\* every recording of plain and event checkpoints.
THEOREM CategoriesAsPending ==
  ASSUME BoundedTransactions
  PROVE  Spec => []CategoriesMatchPending
<1>1. RecorderInv /\ ContentInv => CategoriesMatchPending
  BY CountsAgree, PendingSlots DEF ContentInv, CategoriesMatchPending, HeadCategories
<1> QED
  BY <1>1, RecorderInvariant, RecorderContent, PTL

\* totalTicks() is the span of a transaction of plain records, on either side of
\* the end of the ring.
THEOREM TotalTicksAsSpan ==
  ASSUME BoundedTransactions
  PROVE  Spec => []TotalTicksIsSpan
<1>1. ASSUME RecorderInv, ContentInv
      PROVE  TotalTicksIsSpan
  <2> SUFFICES ASSUME Recording, added > 0, \A i \in 1..added : Pending[i].body = 0
               PROVE  TotalTicks = clock - Pending[1].tick
    BY DEF TotalTicksIsSpan
  <2>1. added \in Nat /\ count = added /\ start \in Nat
    BY <1>1, CountsAgree
  <2>2. Pending[added].tick = clock
    BY <1>1, <2>1 DEF ContentInv, Recording
  <2>3. Pending[added] = mem[Phys(start + added - 1)] /\ Pending[1] = mem[Phys(start)]
    <3>1. 1 \in 1..added /\ added \in 1..added /\ start + 1 - 1 = start
      BY <2>1
    <3> QED
      BY <3>1 DEF Pending
  <2> QED
    BY <2>1, <2>2, <2>3 DEF TotalTicks
<1> QED
  BY <1>1, RecorderInvariant, RecorderContent, PTL

\* The ring, its pointers and its wrap-around are not to be seen: what a program and
\* a reader of committed slots observe is the log.
THEOREM LogImplemented ==
  ASSUME BoundedTransactions
  PROVE  Spec => ImplementsLog
<1>1. Init => Log!Init
  BY InitContent
<1>2. RecorderInv /\ ContentInv /\ [Next]_vars => [Log!Next]_Log!vars
  BY NextImplementsLog
<1> QED
  BY <1>1, <1>2, RecorderInvariant, RecorderContent, PTL DEF Spec, ImplementsLog, Log!Spec
==============================================================================
