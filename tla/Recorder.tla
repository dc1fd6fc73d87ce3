------------------------------ MODULE Recorder -------------------------------
(***************************************************************************)
(* realperf::Recorder (CheckPoint.hpp): one thread appends 16-byte slots   *)
(* to a ring that is mapped twice in a row, so that a transaction is       *)
(* contiguous in memory even where it wraps.  The slots after start_ are   *)
(* the open transaction; commit moves start_ over them, rollback forgets   *)
(* them.  A plain checkpoint is one slot and one 128-bit store; an event   *)
(* checkpoint is a header slot and payload slots, filled by several        *)
(* ordinary stores.                                                        *)
(*                                                                         *)
(* Offsets are counted in slots from begin.  The model leaves out where_,  *)
(* type_ and the values of payloads, except for what payload bytes look    *)
(* like to a reader that takes them for a header.                          *)
(***************************************************************************)
EXTENDS Naturals, Sequences

CONSTANTS
  Capacity,        \* capacity_: slots of the ring
  MinCount,        \* minCount_: a shorter transaction is dropped by commit
  CountMod,        \* count_ is a std::uint16_t: it counts modulo 2^16
  Categories,      \* the values of enum Category a program uses
  DefaultCategory, \* CAT_Default, the category of an all-zero slot
  EventCategory,   \* CAT_Event, the category of every event checkpoint
  EventKinds,      \* the event types: slots stored after the header, slots
                   \* declared by reserved_, and how the payload reads as a header
  StoreOrders,     \* the orders in which a build stores the parts of an event
  Rebindings,      \* the storages the program passes to init: TRUE is mirrored
  TickSteps,       \* by how much the tick of a record may exceed the previous one
  MaxTick,         \* bound: ticks of the run
  MaxPending       \* bound: slots of the longest transaction the program opens

Parts == {"payload", "head", "tick"}

ASSUME CapacityAssumption == Capacity \in Nat /\ Capacity > 1
ASSUME CountAssumption == MinCount \in Nat /\ CountMod \in Nat \ {0} /\ MaxPending \in Nat
ASSUME CategoryAssumption == {DefaultCategory, EventCategory} \subseteq Categories
ASSUME EventAssumption ==
  /\ EventKinds \subseteq [stored : Nat, declared : Nat, tick : Nat, ext : Nat]
  /\ \A e \in EventKinds : 1 + e.stored <= CountMod
  /\ StoreOrders \subseteq [1..3 -> Parts]
  /\ \A order \in StoreOrders : \A part \in Parts : \E i \in 1..3 : order[i] = part
ASSUME TickAssumption == TickSteps \subseteq Nat /\ MaxTick \in Nat
ASSUME RebindingAssumption == Rebindings \subseteq BOOLEAN

VARIABLES
  mem,         \* the slots of the ring, one cell per physical slot
  start,       \* start_ - begin
  count,       \* count_
  categories,  \* categories_, as the set of its bits
  mirrored,    \* does the storage the recorder is bound to repeat after end_?
  phase,       \* "recording", or "outside" once a store has left the storage
  event,       \* the event checkpoint being stored, or NoEvent
  clock,       \* the tick of the last record
  added,       \* ghost: slots the program has added since the last commit or rollback
  kept         \* ghost: committed slots before start not yet overwritten

vars == <<mem, start, count, categories, mirrored, phase, event, clock, added, kept>>

-----------------------------------------------------------------------------
\* body tells whose payload a slot is, by the tick of the event plus one; 0 in a header.
Slot == [tick : Nat, ext : Nat, cat : Categories, body : Nat]

Addresses == 0..(Capacity - 1)

Empty == [tick |-> 0, ext |-> 0, cat |-> DefaultCategory, body |-> 0]

Plain(t, c) == [tick |-> t, ext |-> 0, cat |-> c, body |-> 0]

EventHead(e) == [tick |-> e.at, ext |-> e.kind.declared, cat |-> EventCategory, body |-> 0]

EventBody(e) == [tick |-> e.kind.tick, ext |-> e.kind.ext,
                 cat |-> DefaultCategory, body |-> e.at + 1]

EventRecord(e) == [i \in 1..(1 + e.kind.stored) |->
                     IF i = 1 THEN EventHead(e) ELSE EventBody(e)]

NoEvent == [stage |-> 0]

\* The physical slot behind an offset into the two mapped views.
Phys(a) == IF a < Capacity THEN a ELSE a - Capacity

EndOfStorage == IF mirrored THEN 2 * Capacity ELSE Capacity

\* Mutation of Wrap: count_ is one bit narrower.
WrapNarrow(n) == IF n < CountMod \div 2 THEN n ELSE n - (CountMod \div 2)

\* std::uint16_t arithmetic on a sum of two counts.
Wrap(n) == IF n < CountMod THEN n ELSE n - CountMod

\* Mutations of CommitStart: end_ is never subtracted, it is subtracted one slot
\* too late, and minCount_ is taken for a strict bound.
CommitStartNoWrap(n) == start + (IF n >= MinCount THEN n ELSE 0)

CommitStartLate(n) ==
  LET s == start + (IF n >= MinCount THEN n ELSE 0)
  IN  IF s > Capacity THEN s - Capacity ELSE s

CommitStartAbove(n) ==
  LET s == start + (IF n > MinCount THEN n ELSE 0)
  IN  IF s >= Capacity THEN s - Capacity ELSE s

\* start_ after a commit of n slots; end_ is subtracted once at most.
CommitStart(n) ==
  LET s == start + (IF n >= MinCount THEN n ELSE 0)
  IN  IF s >= Capacity THEN s - Capacity ELSE s

\* Ghost bookkeeping: slots of the log left when n slots are written after
\* start, and slots of the log once n slots are committed behind k.
Room(k, n) == IF n > Capacity THEN 0 ELSE IF k + n <= Capacity THEN k ELSE Capacity - n

Keep(k, n) == IF n >= MinCount THEN k + n ELSE k

Recording == phase = "recording" /\ event = NoEvent

\* The ticks the next record may carry.
NextTicks == {t \in {clock + d : d \in TickSteps} : t <= MaxTick}

\* One 128-bit store of slot s at offset a.
Store(a, s) ==
  IF a < EndOfStorage
  THEN mem' = [mem EXCEPT ![Phys(a)] = s] /\ UNCHANGED phase
  ELSE phase' = "outside" /\ UNCHANGED mem

-----------------------------------------------------------------------------
Init ==
  /\ mem = [a \in Addresses |-> Empty]
  /\ start = 0 /\ count = 0 /\ categories = {}
  /\ mirrored = TRUE /\ phase = "recording" /\ event = NoEvent
  /\ clock = 0 /\ added = 0 /\ kept = 0

Add(t, c) ==
  /\ Recording /\ added + 1 <= MaxPending
  /\ Store(start + count, Plain(t, c))
  /\ count' = Wrap(count + 1)
  /\ categories' = categories \cup {c}
  /\ clock' = t
  /\ added' = added + 1
  /\ kept' = Room(kept, added + 1)
  /\ UNCHANGED <<start, mirrored, event>>

\* addEvent: the constructor of EventCheckPoint is about to store its parts.
AddEvent(t, kind, order) ==
  /\ Recording /\ added + 1 + kind.stored <= MaxPending
  /\ event' = [stage |-> 1, at |-> t, kind |-> kind, order |-> order]
  /\ phase' = IF start + count + kind.stored < EndOfStorage THEN phase ELSE "outside"
  /\ clock' = t
  /\ kept' = Room(kept, added + 1 + kind.stored)
  /\ UNCHANGED <<mem, start, count, categories, mirrored, added>>

\* The memory after one part of event e has been stored at offset a.
Stored(part, e, a) ==
  CASE part = "payload" ->
         [p \in Addresses |-> IF \E i \in 1..e.kind.stored : p = Phys(a + i)
                              THEN EventBody(e) ELSE mem[p]]
    [] part = "head" ->
         [mem EXCEPT ![Phys(a)].ext = e.kind.declared,
                     ![Phys(a)].cat = EventCategory,
                     ![Phys(a)].body = 0]
    [] part = "tick" -> [mem EXCEPT ![Phys(a)].tick = e.at]

StoreEvent ==
  /\ phase = "recording" /\ event # NoEvent
  /\ mem' = Stored(event.order[event.stage], event, start + count)
  /\ IF event.stage < 3
     THEN /\ event' = [event EXCEPT !.stage = @ + 1]
          /\ UNCHANGED <<count, categories, added>>
     ELSE /\ event' = NoEvent
          /\ count' = Wrap(count + 1 + event.kind.stored)
          /\ added' = added + 1 + event.kind.stored
          /\ categories' = categories \cup {EventCategory}
  /\ UNCHANGED <<start, mirrored, phase, clock, kept>>

Commit ==
  /\ Recording
  /\ start' = CommitStart(count)
  /\ kept' = Keep(kept, added)
  /\ count' = 0 /\ categories' = {} /\ added' = 0
  /\ UNCHANGED <<mem, mirrored, phase, event, clock>>

\* Mutation of Rollback: categories_ is not cleared.
RollbackCountOnly ==
  /\ Recording
  /\ count' = 0 /\ added' = 0
  /\ UNCHANGED <<mem, start, categories, mirrored, phase, event, clock, kept>>

Rollback ==
  /\ Recording
  /\ count' = 0 /\ categories' = {} /\ added' = 0
  /\ UNCHANGED <<mem, start, mirrored, phase, event, clock, kept>>

Has(c) == c \in categories

CommitIfHas(c) == IF Has(c) THEN Commit ELSE Rollback

\* start(): commit the previous recording, then add the first record.
Start(t, c) ==
  /\ Recording /\ MaxPending >= 1
  /\ start' = CommitStart(count)
  /\ Store(start', Plain(t, c))
  /\ count' = Wrap(1) /\ categories' = {c} /\ added' = 1
  /\ clock' = t
  /\ kept' = Room(Keep(kept, added), 1)
  /\ UNCHANGED <<mirrored, event>>

\* end(): add the last record, then commit.
End(t, c) ==
  /\ Recording /\ added + 1 <= MaxPending
  /\ Store(start + count, Plain(t, c))
  /\ start' = CommitStart(Wrap(count + 1))
  /\ kept' = Keep(Room(kept, added + 1), added + 1)
  /\ count' = 0 /\ categories' = {} /\ added' = 0
  /\ clock' = t
  /\ UNCHANGED <<mirrored, event>>

\* init() on fresh storage.  The members are assigned before the storage is
\* checked: when it is not mirrored init throws and the recorder stays bound.
Rebind(m) ==
  /\ Recording
  /\ mem' = [a \in Addresses |-> Empty]
  /\ start' = 0 /\ count' = 0 /\ categories' = {} /\ added' = 0 /\ kept' = 0
  /\ mirrored' = m
  /\ UNCHANGED <<phase, event, clock>>

Next ==
  \/ \E t \in NextTicks, c \in Categories : Add(t, c)
  \/ \E t \in NextTicks, c \in Categories : Start(t, c)
  \/ \E t \in NextTicks, c \in Categories : End(t, c)
  \/ \E t \in NextTicks, kind \in EventKinds, order \in StoreOrders :
       AddEvent(t, kind, order)
  \/ StoreEvent
  \/ Commit
  \/ Rollback
  \/ \E c \in Categories : CommitIfHas(c)
  \/ \E m \in Rebindings : Rebind(m)

Spec == Init /\ [][Next]_vars

-----------------------------------------------------------------------------
\* The open transaction, and the committed slots still in the ring.
Pending == [i \in 1..added |-> mem[Phys(start + i - 1)]]

Recent == [i \in 1..kept |-> mem[Phys(start + Capacity - kept + i - 1)]]

\* Mutation of TotalTicks: one slot too far.
TotalTicksPastEnd ==
  IF count = 0 THEN 0
  ELSE mem[Phys(start + count)].tick - mem[Phys(start)].tick

TotalTicks ==
  IF count = 0 THEN 0
  ELSE mem[Phys(start + count - 1)].tick - mem[Phys(start)].tick

WrittenRecords ==
  {<<Plain(t, c)>> : t \in 0..MaxTick, c \in Categories} \cup
  {EventRecord([at |-> t, kind |-> k]) :
     t \in 0..MaxTick, k \in EventKinds}

Log == INSTANCE CheckPointLog
         WITH Records <- WrittenRecords, recent <- Recent, txn <- Pending

-----------------------------------------------------------------------------
EventInProgress == [stage : 1..3, at : Nat, kind : EventKinds, order : StoreOrders]

\* Every variable has its type (the members of Recorder and the ring it fills).
TypeOK ==
  /\ mem \in [Addresses -> Slot]
  /\ start \in Addresses /\ count \in Nat /\ clock \in Nat
  /\ added \in 0..MaxPending /\ kept \in 0..Capacity
  /\ categories \in SUBSET Categories
  /\ mirrored \in BOOLEAN
  /\ phase \in {"recording", "outside"}
  /\ event \in {NoEvent} \cup EventInProgress

\* What the proofs ask of a program: mirrored storage, and no transaction longer
\* than the ring or than count_ can count.
BoundedTransactions ==
  /\ MaxPending <= Capacity /\ MaxPending < CountMod
  /\ Rebindings \subseteq {TRUE}

\* The slots that the program has been promised: the open transaction, the event
\* being stored, and the log before them never need more than the ring has.
Reserved == added + (IF event = NoEvent THEN 0 ELSE 1 + event.kind.stored)

\* The inductive invariant: count_ has not wrapped, the transaction and the log
\* share one lap of the ring, and so every store stays inside the two views.
RecorderInv ==
  /\ TypeOK
  /\ phase = "recording" /\ mirrored = TRUE
  /\ count = added
  /\ Reserved <= MaxPending
  /\ Reserved + kept <= Capacity

\* No store of add or addEvent leaves the two mapped views: the comment in init
\* promises that a whole record can be written without worrying about wrapping,
\* although commit corrects start_ only once and only after the stores.
NeverOutside == phase # "outside"

\* categories_, which decides between commit and rollback in commitIfHas, names
\* the categories of the records that are pending in the ring, no more, no less.
CategoriesMatchPending ==
  Recording => categories = {Pending[i].cat : i \in {j \in 1..added : Pending[j].body = 0}}

\* For a transaction of plain checkpoints totalTicks() is the time from the first
\* one to the last one, read back from the ring across the end of the first view.
\* (After an event the last slot is payload, and so is what totalTicks() returns.)
TotalTicksIsSpan ==
  Recording /\ added > 0 /\ (\A i \in 1..added : Pending[i].body = 0)
    => TotalTicks = clock - Pending[1].tick

\* The ring recorder implements the log: commits keep whole transactions in
\* order, rollbacks and short transactions leave no trace, and old committed
\* slots are given up only as far as the new ones need the room.
ImplementsLog == Log!Spec
==============================================================================
