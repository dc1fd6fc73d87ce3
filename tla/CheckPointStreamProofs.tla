----------------------- MODULE CheckPointStreamProofs ------------------------
(***************************************************************************)
(* Proofs about CheckPointStream: for a ring of any size, any program and  *)
(* any number of servers one after the other.                              *)
(***************************************************************************)
EXTENDS CheckPointStream, RecorderProofs

-----------------------------------------------------------------------------
\* What keeps its type while the program, the server and the file go on.
FlowInv ==
  /\ RecorderInv
  /\ pc \in {"absent", "scan", "fence", "copy", "done", "failed", "killed"}
  /\ mode \in {"once", "poll"}
  /\ nextIndex \in Addresses /\ slots \in 0..Capacity
  /\ pc = "fence" => slots < Capacity
  /\ lastTick \in Nat /\ runLast \in Nat
  /\ out \in Seq(Slot) /\ history \in Seq(Slot)
  /\ base \in Nat /\ owed \in Nat /\ restarts \in 0..MaxRestarts
  /\ file \in {"whole", "cut"} /\ programs \in 0..MaxPrograms

LEMMA StreamFlow ==
  ASSUME StreamInit, BoundedTransactions
  PROVE  FlowInv
<1>1. RecorderInv
  BY InitInv DEF StreamInit
<1> QED
  BY <1>1, CapacityAssumption, StreamAssumption DEF StreamInit, FlowInv, Addresses

\* What the program does to its ring is a step of the recorder, except that it may
\* be killed and find its ring empty.
LEMMA ProgramRecords ==
  ASSUME Program \/ Construct
  PROVE  [Next]_vars
  BY DEF Program, Construct, Next

LEMMA CutEmpties ==
  ASSUME BoundedTransactions, RecorderInv, CutRing
  PROVE  RecorderInv'
<1>1. mem' \in [Addresses -> Slot] /\ mem' = [a \in Addresses |-> Empty]
  BY CategoryAssumption DEF CutRing, Empty, Slot
<1> QED
  BY <1>1, CapacityAssumption, CountAssumption
  DEF CutRing, RecorderInv, TypeOK, Reserved, NoEvent, Addresses, BoundedTransactions

\* Committed slots are the pending ones, or none.
LEMMA CommittedType ==
  ASSUME NEW s \in Seq(Slot)
  PROVE  Committed(s) \in Seq(Slot)
  BY DEF Committed

\* A step of the program that stores or commits: the log only grows.
LEMMA ProgramFlow ==
  ASSUME BoundedTransactions, FlowInv, Program \/ Construct
  PROVE  FlowInv'
<1>1. RecorderInv'
  BY ProgramRecords, NextInv DEF FlowInv
<1>2. history' \in Seq(Slot)
  <2>1. Pending \in Seq(Slot) /\ history \in Seq(Slot)
    BY PendingSlots DEF FlowInv, BoundedTransactions
  <2>2. ASSUME NEW s \in Seq(Slot)
        PROVE  history \o Committed(s) \in Seq(Slot)
    BY <2>1, CommittedType
  <2>3. ASSUME NEW t \in NextTicks, NEW c \in Categories
        PROVE  Append(Pending, Plain(t, c)) \in Seq(Slot)
    BY <2>1, NextTicksAreNat, PlainIsSlot DEF FlowInv
  <2>4. history \o <<>> = history
    BY <2>1
  <2> QED
    BY <2>1, <2>2, <2>3, <2>4 DEF Program, Construct
<1>3. UNCHANGED <<serverVars, fileVars>>
  BY DEF Program, Construct, Mapped
<1> QED
  BY <1>1, <1>2, <1>3 DEF FlowInv, serverVars, fileVars

\* Whatever the server finds where it looks is a slot.
LEMMA LookedIsSlot ==
  ASSUME FlowInv, slots < Capacity
  PROVE  Looked \in Slot
<1>1. nextIndex + slots \in Nat /\ nextIndex + slots < 2 * Capacity
  BY CapacityAssumption DEF FlowInv, Addresses
<1>2. mem \in [Addresses -> Slot]
  BY DEF FlowInv, RecorderInv, TypeOK
<1> QED
  BY <1>1, <1>2, PhysInRing DEF Looked

LEMMA RunIsSlots ==
  ASSUME FlowInv
  PROVE  /\ Run \in Seq(Slot) /\ Len(Run) = slots
         /\ \A i \in 1..slots : Run[i] = mem[Phys(nextIndex + i - 1)]
<1>1. /\ mem \in [Addresses -> Slot] /\ nextIndex \in Nat /\ slots \in Nat
      /\ nextIndex + slots <= 2 * Capacity
  BY CapacityAssumption DEF FlowInv, RecorderInv, TypeOK, Addresses
<1>2. Run = SlotsAt(mem, nextIndex, slots)
  BY DEF Run, SlotsAt
<1> QED
  BY <1>1, <1>2, SlotsAtSeq

LEMMA LapStartType ==
  ASSUME NEW n \in Nat
  PROVE  LapStart(n) \in Nat
<1>1. n % Capacity \in 0..(Capacity - 1) /\ n % Capacity <= n
  BY CapacityAssumption, SMT
<1>2. n > 0 /\ n % Capacity = 0 => n >= Capacity
  BY CapacityAssumption, SMT
<1> QED
  BY <1>1, <1>2, CapacityAssumption DEF LapStart

LEMMA LaunchFlow ==
  ASSUME BoundedTransactions, FlowInv, NEW m \in Modes, Launch(m), UNCHANGED fileVars,
         restarts' \in 0..MaxRestarts
  PROVE  FlowInv'
<1>1. Len(Written) \in Nat /\ Len(history) \in Nat
  <2>1. Pending \in Seq(Slot) /\ history \in Seq(Slot)
    BY PendingSlots DEF FlowInv, BoundedTransactions
  <2> QED
    BY <2>1, LenProperties, ConcatProperties DEF Written
<1>2. base' \in Nat /\ owed' \in Nat
  BY <1>1, LapStartType DEF Launch
<1>3. RecorderInv' /\ m \in {"once", "poll"} /\ history' = history
  BY StreamAssumption DEF Launch, FlowInv, vars, RecorderInv, TypeOK, Reserved
<1>4. nextIndex' \in Addresses /\ 0 \in 0..Capacity
  BY CapacityAssumption DEF Launch, Addresses
<1> QED
  BY <1>2, <1>3, <1>4 DEF Launch, FlowInv, fileVars

LEMMA RecorderUnchanged ==
  ASSUME RecorderInv, UNCHANGED vars
  PROVE  RecorderInv'
  BY DEF RecorderInv, TypeOK, Reserved, vars

LEMMA EndRunFlow ==
  ASSUME FlowInv, EndRun
  PROVE  pc' \in {"done", "scan", "copy"} /\ runLast' \in Nat /\ slots' = slots
  BY DEF EndRun, EndPass, FlowInv

LEMMA ServerFlow ==
  ASSUME BoundedTransactions, FlowInv, Look \/ Measure \/ Copy, UNCHANGED fileVars
  PROVE  FlowInv'
<1>1. UNCHANGED vars /\ UNCHANGED <<mode, restarts, history, base, owed>>
  BY DEF Look, Measure, Copy
<1>2. RecorderInv'
  BY <1>1, RecorderUnchanged DEF FlowInv
<1>3. CASE Look
  <2>1. UNCHANGED <<nextIndex, lastTick, out>> /\ slots' = slots
    BY <1>3 DEF Look, EndRun
  <2>2. CASE slots < Capacity /\ IsNew(Looked)
    BY <1>1, <1>2, <1>3, <2>1, <2>2 DEF Look, FlowInv, fileVars
  <2>3. CASE ~(slots < Capacity /\ IsNew(Looked))
    <3>1. pc' \in {"done", "scan", "copy"} /\ runLast' \in Nat
      BY <1>3, <2>3, EndRunFlow DEF Look
    <3> QED
      BY <1>1, <1>2, <2>1, <3>1 DEF FlowInv, fileVars
  <2> QED
    BY <2>2, <2>3
<1>4. CASE Measure
  <2> DEFINE n == CheckPointSlots(Looked)
  <2>1. UNCHANGED <<nextIndex, lastTick, out>> /\ Looked \in Slot /\ slots \in Nat
    BY <1>4, LookedIsSlot DEF Measure, FlowInv
  <2>2. n \in Nat /\ Looked.tick \in Nat
    BY <2>1 DEF CheckPointSlots, Slot
  <2>3. CASE n > Capacity
    BY <1>1, <1>2, <1>4, <2>1, <2>3 DEF Measure, FlowInv, fileVars
  <2>4. CASE ~(n > Capacity) /\ slots + n > Capacity
    <3>1. pc' \in {"done", "scan", "copy"} /\ runLast' \in Nat /\ slots' = slots
      BY <1>4, <2>4, EndRunFlow DEF Measure
    <3> QED
      BY <1>1, <1>2, <2>1, <3>1 DEF FlowInv, fileVars
  <2>5. CASE ~(n > Capacity) /\ ~(slots + n > Capacity)
    <3>1. slots' = slots + n /\ runLast' = Looked.tick /\ pc' = "scan"
      BY <1>4, <2>5 DEF Measure
    <3>2. slots' \in 0..Capacity /\ runLast' \in Nat
      <4> HIDE DEF n
      <4> QED
        BY <2>1, <2>2, <2>5, <3>1, CapacityAssumption
    <3> QED
      BY <1>1, <1>2, <2>1, <3>1, <3>2 DEF FlowInv, fileVars
  <2> QED
    BY <2>3, <2>4, <2>5
<1>5. CASE Copy
  <2>1. out' \in Seq(Slot)
    BY <1>5, RunIsSlots DEF Copy, FlowInv
  <2>2. nextIndex' \in Addresses /\ slots' = 0 /\ 0 \in 0..Capacity
    BY <1>5, CapacityAssumption DEF Copy, NextIndex, FlowInv, Addresses
  <2>3. pc' \in {"done", "scan"} /\ lastTick' = runLast /\ runLast' = runLast
    BY <1>5 DEF Copy, EndPass
  <2> QED
    BY <1>1, <1>2, <2>1, <2>2, <2>3 DEF FlowInv, fileVars
<1> QED
  BY <1>3, <1>4, <1>5

LEMMA FileFlow ==
  ASSUME BoundedTransactions, FlowInv, CutRing \/ ExtendRing \/ BusError
  PROVE  FlowInv'
<1>1. CASE CutRing
  <2>1. RecorderInv' /\ programs' \in 0..MaxPrograms /\ history' \in Seq(Slot)
    BY <1>1, CutEmpties, StreamAssumption DEF CutRing, FlowInv
  <2> QED
    BY <1>1, <2>1 DEF CutRing, FlowInv, serverVars
<1>2. CASE ExtendRing
  BY <1>2, RecorderUnchanged DEF ExtendRing, FlowInv, serverVars
<1>3. CASE BusError
  BY <1>3, RecorderUnchanged DEF BusError, FlowInv, fileVars
<1> QED
  BY <1>1, <1>2, <1>3

LEMMA NextFlow ==
  ASSUME BoundedTransactions, FlowInv, [StreamNext]_streamVars
  PROVE  FlowInv'
<1>1. CASE Program \/ Construct
  BY <1>1, ProgramFlow
<1>2. CASE Attach
  BY <1>2, LaunchFlow DEF Attach, Mapped, FlowInv
<1>3. CASE Restart
  <2>1. restarts' \in 0..MaxRestarts
    BY <1>3, StreamAssumption DEF Restart, FlowInv
  <2> QED
    BY <1>3, <2>1, LaunchFlow DEF Restart, Mapped
<1>4. CASE Server
  BY <1>4, ServerFlow DEF Server, Mapped
<1>5. CASE CutRing \/ ExtendRing \/ BusError
  BY <1>5, FileFlow
<1>6. CASE UNCHANGED streamVars
  BY <1>6, RecorderUnchanged DEF streamVars, FlowInv, serverVars, fileVars
<1> QED
  BY <1>1, <1>2, <1>3, <1>4, <1>5, <1>6 DEF StreamNext

\* The members of the source keep their types, also while the program laps it or its
\* file is cut; in particular next_index_ and every slot of a run stay in the ring.
THEOREM StreamTypes ==
  ASSUME BoundedTransactions
  PROVE  StreamSpec => []StreamTypeOK
<1>1. StreamInit => FlowInv
  BY StreamFlow
<1>2. FlowInv /\ [StreamNext]_streamVars => FlowInv'
  BY NextFlow
<1>3. FlowInv => StreamTypeOK
  BY DEF FlowInv, StreamTypeOK, RecorderInv
<1> QED
  BY <1>1, <1>2, <1>3, PTL DEF StreamSpec

-----------------------------------------------------------------------------
\* What the end of a run has become by the time it is copied: a record no older than
\* the one that was measured, or nothing, if the file was emptied in between.
NoOlder(s) == s.tick >= runLast \/ (programs > 0 /\ IsEmpty(s))

\* The inductive invariant behind NewestIsCopied, for programs of plain checkpoints.
NewestInv ==
  /\ event = NoEvent
  /\ \A a \in Addresses : mem[a].tick <= clock /\ mem[a].ext = 0
  /\ runLast <= clock
  /\ slots > 0 => NoOlder(mem[Phys(nextIndex + slots - 1)])
  /\ pc = "copy" => slots > 0
  /\ NewestIsCopied

LEMMA StreamNewest ==
  ASSUME StreamInit
  PROVE  NewestInv
  BY DEF StreamInit, Init, NewestInv, NewestIsCopied, Empty

\* A store of the recorder that is not part of an event.
LEMMA PlainStore ==
  ASSUME FlowInv, NEW a \in Nat, NEW t \in Nat, NEW c \in Categories, Store(a, Plain(t, c))
  PROVE  \A p \in Addresses : \/ mem'[p] = mem[p]
                              \/ mem'[p] = Plain(t, c)
  BY DEF Store, FlowInv, RecorderInv, TypeOK

\* A program of plain checkpoints writes one with a tick no older than the last.
LEMMA ProgramPlain ==
  ASSUME BoundedTransactions, EventKinds = {}, FlowInv, event = NoEvent, Program \/ Construct
  PROVE  /\ event' = NoEvent /\ clock' \in Nat /\ clock <= clock'
         /\ \A p \in Addresses :
              \/ mem'[p] = mem[p]
              \/ mem'[p].tick = clock' /\ mem'[p].ext = 0
<1>1. /\ clock \in Nat /\ start \in Nat /\ count \in Nat
      /\ \A t \in NextTicks : t \in Nat /\ clock <= t
  <2>1. clock \in Nat /\ start \in Nat /\ count \in Nat
    BY DEF FlowInv, RecorderInv, TypeOK, Addresses
  <2>2. ASSUME NEW t \in NextTicks
        PROVE  t \in Nat /\ clock <= t
    <3>1. PICK d \in TickSteps : t = clock + d
      BY DEF NextTicks
    <3> QED
      BY <2>1, <3>1, TickAssumption
  <2> QED
    BY <2>1, <2>2
<1>2. ASSUME NEW t \in NextTicks, NEW c \in Categories, Add(t, c) \/ End(t, c)
      PROVE  /\ event' = NoEvent /\ clock' = t
             /\ \A p \in Addresses : mem'[p] = mem[p] \/ mem'[p] = Plain(t, c)
  <2>1. Store(start + count, Plain(t, c)) /\ start + count \in Nat
    BY <1>1, <1>2 DEF Add, End
  <2> QED
    BY <1>1, <1>2, <2>1, PlainStore DEF Add, End
<1>3. ASSUME NEW t \in NextTicks, NEW c \in Categories, Start(t, c)
      PROVE  /\ event' = NoEvent /\ clock' = t
             /\ \A p \in Addresses : mem'[p] = mem[p] \/ mem'[p] = Plain(t, c)
  <2> DEFINE a == CommitStart(count)
  <2>1. Store(a, Plain(t, c))
    BY <1>3 DEF Start
  <2>2. a \in Nat
    BY <1>1, CountAssumption, CapacityAssumption DEF CommitStart
  <2> HIDE DEF a
  <2> QED
    BY <1>1, <1>3, <2>1, <2>2, PlainStore DEF Start
<1>4. CASE Commit \/ Rollback \/ \E c \in Categories : CommitIfHas(c)
  BY <1>1, <1>4 DEF Commit, Rollback, CommitIfHas
<1>5. ASSUME NEW t \in NextTicks, NEW c \in Categories
      PROVE  Plain(t, c).tick = t /\ Plain(t, c).ext = 0
  BY DEF Plain
<1>6. ~StoreEvent
  BY DEF StoreEvent
<1>7. CASE \E t \in NextTicks, c \in Categories : Add(t, c) \/ End(t, c) \/ Start(t, c)
  BY <1>1, <1>2, <1>3, <1>5, <1>7
<1> QED
  BY <1>4, <1>6, <1>7 DEF Program, Construct

LEMMA ProgramNewest ==
  ASSUME BoundedTransactions, EventKinds = {}, FlowInv, NewestInv, Program \/ Construct
  PROVE  NewestInv'
<1>1. /\ event' = NoEvent /\ clock' \in Nat /\ clock <= clock' /\ clock \in Nat
      /\ \A p \in Addresses :
           \/ mem'[p] = mem[p]
           \/ mem'[p].tick = clock' /\ mem'[p].ext = 0
  BY ProgramPlain DEF NewestInv, FlowInv, RecorderInv, TypeOK
<1>2. /\ UNCHANGED <<pc, nextIndex, lastTick, slots, runLast, out, programs>>
  BY DEF Program, Construct, Mapped, serverVars, fileVars
<1>3. /\ lastTick \in Nat /\ runLast \in Nat /\ slots \in 0..Capacity /\ nextIndex \in Addresses
      /\ mem \in [Addresses -> Slot] /\ lastTick <= clock /\ runLast <= clock
  BY DEF FlowInv, RecorderInv, TypeOK, NewestInv, NewestIsCopied
<1>4. \A a \in Addresses : mem'[a].tick <= clock' /\ mem'[a].ext = 0
  BY <1>1, <1>3 DEF NewestInv, Slot
<1>5. ASSUME slots > 0
      PROVE  NoOlder(mem[Phys(nextIndex + slots - 1)])'
  <2> DEFINE p == Phys(nextIndex + slots - 1)
  <2>1. p \in Addresses
    BY <1>3, <1>5, PhysInRing, CapacityAssumption DEF Addresses
  <2>2. mem'[p] = mem[p] \/ mem'[p].tick >= runLast
    BY <1>1, <1>3, <2>1
  <2>3. NoOlder(mem[p])
    BY <1>5 DEF NewestInv
  <2>4. mem'[p].tick >= runLast \/ (programs > 0 /\ IsEmpty(mem'[p]))
    BY <2>2, <2>3 DEF NoOlder
  <2> QED
    BY <1>2, <2>4 DEF NoOlder, IsEmpty
<1>6. NewestIsCopied'
  <2>1. lastTick <= clock'
    BY <1>1, <1>3
  <2>2. lastTick = clock' => clock' = clock
    BY <1>1, <1>3
  <2>3. NewestIsCopied
    BY DEF NewestInv
  <2> QED
    BY <1>2, <2>1, <2>2, <2>3 DEF NewestIsCopied
<1> QED
  BY <1>1, <1>2, <1>3, <1>4, <1>5, <1>6 DEF NewestInv

LEMMA LaunchNewest ==
  ASSUME FlowInv, NewestInv, NEW m \in Modes, Launch(m), UNCHANGED fileVars
  PROVE  NewestInv'
<1>1. clock \in Nat
  BY DEF FlowInv, RecorderInv, TypeOK
<1>2. UNCHANGED <<mem, clock, event>> /\ slots' = 0 /\ runLast' = 0 /\ lastTick' = 0 /\ pc' = "scan"
  BY DEF Launch, vars
<1>3. NewestIsCopied'
  BY <1>1, <1>2 DEF NewestIsCopied
<1> QED
  BY <1>1, <1>2, <1>3 DEF NewestInv

\* A store that neither the program nor the server makes changes nothing that
\* NewestInv is about.
LEMMA NewestKept ==
  ASSUME NewestInv, UNCHANGED <<event, mem, clock, slots, nextIndex, runLast, lastTick, out, programs>>,
         pc' = pc \/ pc' # "copy" \/ slots > 0
  PROVE  NewestInv'
  BY DEF NewestInv, NewestIsCopied, NoOlder, IsEmpty

LEMMA EndRunNewest ==
  ASSUME FlowInv, NewestInv, EndRun,
         UNCHANGED <<event, mem, clock, nextIndex, lastTick, out, programs>>
  PROVE  NewestInv'
<1>1. CASE slots = 0
  <2>1. slots' = 0 /\ runLast' = lastTick /\ pc' # "copy"
    BY <1>1 DEF EndRun, EndPass
  <2> QED
    BY <2>1 DEF NewestInv, NewestIsCopied
<1>2. CASE slots # 0
  <2>1. slots > 0 /\ slots' = slots /\ runLast' = runLast
    BY <1>2 DEF EndRun, FlowInv
  <2> QED
    BY <2>1, NewestKept
<1> QED
  BY <1>1, <1>2

LEMMA MeasureNewest ==
  ASSUME FlowInv, NewestInv, Measure, UNCHANGED fileVars
  PROVE  NewestInv'
<1>1. /\ UNCHANGED <<event, mem, clock, nextIndex, lastTick, out, programs>>
      /\ slots < Capacity /\ slots \in Nat /\ nextIndex \in Addresses /\ nextIndex \in Nat
  BY DEF Measure, vars, fileVars, FlowInv, Addresses
<1>2. Looked \in Slot /\ Looked.ext = 0 /\ Looked.tick <= clock
  <2>1. Phys(nextIndex + slots) \in Addresses
    BY <1>1, PhysInRing, CapacityAssumption DEF Addresses
  <2> QED
    BY <1>1, <2>1, LookedIsSlot DEF Looked, NewestInv
<1>3. CheckPointSlots(Looked) = 1
  BY <1>2 DEF CheckPointSlots
<1>4. CASE slots + 1 > Capacity
  BY <1>1, <1>4, CapacityAssumption
<1>5. CASE ~(slots + 1 > Capacity)
  <2>1. slots' = slots + 1 /\ runLast' = Looked.tick /\ pc' = "scan"
    BY <1>3, <1>5, CapacityAssumption DEF Measure
  <2>2. nextIndex + slots' - 1 = nextIndex + slots
    BY <1>1, <2>1
  <2>3. mem'[Phys(nextIndex' + slots' - 1)] = Looked
    BY <1>1, <2>2 DEF Looked
  <2>4. NoOlder(mem[Phys(nextIndex + slots - 1)])'
    BY <1>2, <2>1, <2>3 DEF NoOlder, Slot
  <2> QED
    BY <1>1, <1>2, <2>1, <2>4 DEF NewestInv, NewestIsCopied
<1> QED
  BY <1>4, <1>5

LEMMA CopyNewest ==
  ASSUME FlowInv, NewestInv, Copy, UNCHANGED fileVars
  PROVE  NewestInv'
<1> DEFINE s == mem[Phys(nextIndex + slots - 1)]
<1>1. /\ UNCHANGED <<event, mem, clock, runLast, programs>> /\ slots' = 0 /\ lastTick' = runLast
      /\ out' = out \o Run /\ pc' # "copy" /\ pc = "copy"
  BY DEF Copy, EndPass, vars, fileVars
<1>2. /\ slots > 0 /\ slots \in 1..Capacity /\ nextIndex \in Addresses /\ clock \in Nat
      /\ runLast \in Nat /\ runLast <= clock /\ out \in Seq(Slot)
  BY <1>1 DEF NewestInv, FlowInv, RecorderInv, TypeOK
<1>3. s.tick \in Nat /\ s.tick <= clock /\ NoOlder(s)
  <2>1. Phys(nextIndex + slots - 1) \in Addresses
    BY <1>2, PhysInRing, CapacityAssumption DEF Addresses
  <2> QED
    BY <1>2, <2>1 DEF NewestInv, FlowInv, RecorderInv, TypeOK, Slot
<1>4. Run \in Seq(Slot) /\ Len(Run) = slots /\ Run[slots] = s
  BY <1>2, RunIsSlots
<1>5. out' # <<>> /\ Last(out') = s
  <2>1. ASSUME NEW run \in Seq(Slot), Len(run) = slots
        PROVE  Len(out \o run) = Len(out) + slots /\ (out \o run)[Len(out) + slots] = run[slots]
    BY <1>2, <2>1
  <2>2. Len(out') = Len(out) + slots /\ out'[Len(out) + slots] = s
    BY <1>1, <1>4, <2>1
  <2>3. Len(out) \in Nat
    BY <1>2
  <2> HIDE DEF s
  <2> QED
    BY <1>2, <2>2, <2>3 DEF Last
<1>6. NewestIsCopied'
  <2>1. runLast = clock => s.tick = clock \/ (programs > 0 /\ IsEmpty(s))
    BY <1>2, <1>3 DEF NoOlder
  <2> HIDE DEF s
  <2> QED
    BY <1>1, <1>2, <1>5, <2>1 DEF NewestIsCopied, IsEmpty
<1> QED
  BY <1>1, <1>2, <1>6 DEF NewestInv

LEMMA CutNewest ==
  ASSUME FlowInv, NewestInv, CutRing
  PROVE  NewestInv'
<1>1. /\ event' = NoEvent /\ mem' = [a \in Addresses |-> Empty] /\ programs' > 0
      /\ UNCHANGED <<clock, pc, nextIndex, lastTick, slots, runLast, out>>
  BY StreamAssumption DEF CutRing, serverVars, FlowInv
<1>2. \A a \in Addresses : mem'[a] = Empty /\ mem'[a].tick <= clock' /\ mem'[a].ext = 0
  BY <1>1 DEF Empty, FlowInv, RecorderInv, TypeOK
<1>3. slots > 0 => Phys(nextIndex + slots - 1) \in Addresses
  BY PhysInRing, CapacityAssumption DEF FlowInv, Addresses
<1>4. slots' > 0 => NoOlder(mem[Phys(nextIndex + slots - 1)])'
  BY <1>1, <1>2, <1>3 DEF NoOlder, IsEmpty
<1>5. programs' > 0 /\ (NewestIsCopied => NewestIsCopied')
  BY <1>1 DEF NewestIsCopied
<1> QED
  BY <1>1, <1>2, <1>4, <1>5 DEF NewestInv

LEMMA NextNewest ==
  ASSUME BoundedTransactions, EventKinds = {}, FlowInv, NewestInv, [StreamNext]_streamVars
  PROVE  NewestInv'
<1>1. CASE Program \/ Construct
  BY <1>1, ProgramNewest
<1>2. CASE Attach \/ Restart
  BY <1>2, LaunchNewest DEF Attach, Restart, Mapped
<1>3. CASE Server
  <2>1. UNCHANGED fileVars
    BY <1>3 DEF Server, Mapped
  <2>2. CASE Look
    <3>1. UNCHANGED <<event, mem, clock, nextIndex, lastTick, out, programs>>
      BY <2>1, <2>2 DEF Look, vars, fileVars
    <3>2. CASE slots < Capacity /\ IsNew(Looked)
      <4>1. UNCHANGED <<slots, runLast>> /\ pc' = "fence"
        BY <2>2, <3>2 DEF Look
      <4> QED
        BY <3>1, <4>1, NewestKept
    <3>3. CASE ~(slots < Capacity /\ IsNew(Looked))
      BY <2>2, <3>1, <3>3, EndRunNewest DEF Look
    <3> QED
      BY <3>2, <3>3
  <2>3. CASE Measure
    BY <2>1, <2>3, MeasureNewest
  <2>4. CASE Copy
    BY <2>1, <2>4, CopyNewest
  <2> QED
    BY <1>3, <2>2, <2>3, <2>4 DEF Server
<1>4. CASE CutRing
  BY <1>4, CutNewest
<1>5. CASE ExtendRing \/ BusError \/ UNCHANGED streamVars
  BY <1>5, NewestKept DEF ExtendRing, BusError, streamVars, vars, serverVars, fileVars
<1> QED
  BY <1>1, <1>2, <1>3, <1>4, <1>5 DEF StreamNext

\* However far a program of plain checkpoints runs ahead of the server, however often
\* it overwrites what is being copied: a server that has the newest tick also has the
\* newest record.
THEOREM NewestCopied ==
  ASSUME BoundedTransactions, EventKinds = {}
  PROVE  StreamSpec => []NewestIsCopied
<1>1. StreamInit => FlowInv /\ NewestInv
  BY StreamFlow, StreamNewest
<1>2. FlowInv /\ NewestInv /\ [StreamNext]_streamVars => FlowInv' /\ NewestInv'
  BY NextFlow, NextNewest
<1>3. NewestInv => NewestIsCopied
  BY DEF NewestInv
<1> QED
  BY <1>1, <1>2, <1>3, PTL DEF StreamSpec

-----------------------------------------------------------------------------
\* The programs and servers for which the copy is proved exact: every slot that is
\* written is committed, the server is fast enough, ticks increase, the tick of an
\* event goes out last, and the payload of an event is as long as its header says and
\* does not look like a record with a newer tick.
Followed ==
  /\ BoundedTransactions
  /\ MinCount <= 1 /\ ~Discards /\ ~LapAfter /\ MaxPrograms = 0
  /\ 0 \notin TickSteps
  /\ \A order \in StoreOrders : order[3] = "tick"
  /\ \A kind \in EventKinds : kind.stored > 0 /\ kind.declared = kind.stored /\ kind.tick = 0

\* The cell of the slot before which k slots have been written.
At(k) == k % Capacity

LEMMA AtSmall ==
  ASSUME NEW k \in Addresses
  PROVE  At(k) = k
  BY CapacityAssumption DEF At, Addresses

LEMMA AtProduct ==
  ASSUME NEW q \in Nat, NEW r \in Addresses
  PROVE  At(Capacity * q + r) = r
<1>1. Capacity \in Nat /\ Capacity > 1 /\ r \in 0..(Capacity - 1)
  BY CapacityAssumption DEF Addresses
<1>2. (Capacity * q + r) % Capacity = r
  BY <1>1, SMT
<1> QED
  BY <1>2 DEF At

\* The two mapped views make up for one lap.
LEMMA AtPhys ==
  ASSUME NEW k \in Nat, NEW a \in 0..Capacity
  PROVE  At(k) \in Addresses /\ At(k + a) = Phys(At(k) + a)
<1> DEFINE q == k \div Capacity
           r == At(k)
<1>1. Capacity \in Nat /\ Capacity > 1
  BY CapacityAssumption
<1>2. q \in Nat /\ r \in Addresses /\ k = Capacity * q + r
  BY <1>1, SMT DEF At, Addresses
<1> HIDE DEF q, r
<1>3. Capacity * q \in Nat /\ Capacity * (q + 1) = Capacity * q + Capacity /\ q + 1 \in Nat
  BY <1>1, <1>2, SMT
<1>4. CASE r + a < Capacity
  <2>1. r + a \in Addresses /\ k + a = Capacity * q + (r + a)
    BY <1>1, <1>2, <1>3, <1>4 DEF Addresses
  <2> QED
    BY <1>2, <1>4, <2>1, AtProduct DEF Phys, r
<1>5. CASE ~(r + a < Capacity)
  <2>1. r + a - Capacity \in Addresses /\ k + a = Capacity * (q + 1) + (r + a - Capacity)
    BY <1>1, <1>2, <1>3, <1>5 DEF Addresses
  <2> DEFINE p == q + 1
             s == r + a - Capacity
  <2>2. p \in Nat /\ s \in Addresses /\ k + a = Capacity * p + s
    BY <1>3, <2>1
  <2>3. s = Phys(r + a)
    BY <1>1, <1>2, <1>5 DEF Phys, Addresses
  <2> HIDE DEF p, s
  <2>4. At(Capacity * p + s) = s
    BY <2>2, AtProduct
  <2> QED
    BY <1>2, <2>2, <2>3, <2>4 DEF r
<1> QED
  BY <1>4, <1>5

LEMMA AtLap ==
  ASSUME NEW k \in Nat
  PROVE  At(k + Capacity) = At(k)
<1>1. Capacity \in 0..Capacity
  BY CapacityAssumption
<1>2. At(k) \in Addresses /\ At(k + Capacity) = Phys(At(k) + Capacity)
  BY <1>1, AtPhys
<1> QED
  BY <1>2, CapacityAssumption DEF Phys, Addresses

\* Slots less than a lap apart have cells of their own.
LEMMA AtApart ==
  ASSUME NEW i \in Nat, NEW j \in Nat, i < j, j < i + Capacity
  PROVE  At(i) # At(j)
<1> DEFINE d == j - i
<1>1. d \in 1..(Capacity - 1) /\ d \in 0..Capacity /\ 0 \in 0..(Capacity - 1) /\ j = i + d
  BY CapacityAssumption
<1> HIDE DEF d
<1>2. At(i) \in Addresses /\ At(i + d) = Phys(At(i) + d)
  BY <1>1, AtPhys
<1>3. Phys(At(i) + 0) # Phys(At(i) + d)
  <2> DEFINE a == At(i)
  <2>1. a \in Addresses /\ d \in 0..(Capacity - 1) /\ 0 # d
    BY <1>1, <1>2
  <2> HIDE DEF a
  <2>2. Phys(a + 0) # Phys(a + d)
    BY <1>1, <2>1, PhysDistinct
  <2> QED
    BY <2>2 DEF a
<1>4. Phys(At(i) + 0) = At(i)
  BY <1>2, CapacityAssumption DEF Phys, Addresses
<1> QED
  BY <1>1, <1>2, <1>3, <1>4

-----------------------------------------------------------------------------
Length == Len(Written)

\* Slots written, and those of the event in progress.
Full == Len(WrittenInFull)

LEMMA Extended ==
  ASSUME NEW s \in Seq(Slot), NEW t \in Seq(Slot)
  PROVE  /\ s \o t \in Seq(Slot) /\ Len(s \o t) = Len(s) + Len(t)
         /\ \A k \in 1..Len(s) : (s \o t)[k] = s[k]
         /\ \A k \in 1..Len(t) : (s \o t)[Len(s) + k] = t[k]
  OBVIOUS

LEMMA NoSlots ==
  ASSUME NEW a \in Seq(Slot)
  PROVE  a \o <<>> = a /\ <<>> \in Seq(Slot) /\ Len(<<>>) = 0
  OBVIOUS

LEMMA WrittenIs ==
  ASSUME BoundedTransactions, FlowInv
  PROVE  /\ Pending \in Seq(Slot) /\ Len(Pending) = added /\ added \in Nat
         /\ history \in Seq(Slot) /\ Len(history) \in Nat
         /\ Written = history \o Pending /\ Written \in Seq(Slot)
         /\ Length \in Nat /\ Length = Len(history) + added
         /\ \A k \in 1..Len(history) : Written[k] = history[k]
         /\ \A k \in 1..added : Written[Len(history) + k] = mem[Phys(start + k - 1)]
<1>1. RecorderInv /\ MaxPending <= Capacity /\ history \in Seq(Slot)
  BY DEF FlowInv, BoundedTransactions
<1>2. Pending \in Seq(Slot) /\ Len(Pending) = added /\ added \in Nat
  BY <1>1, PendingSlots DEF RecorderInv, TypeOK
<1>3. \A k \in 1..added : Pending[k] = mem[Phys(start + k - 1)]
  BY DEF Pending
<1> HIDE DEF Pending
<1>4. Len(history) \in Nat
  BY <1>1
<1>5. Written = history \o Pending /\ Written \in Seq(Slot) /\ Len(Written) = Len(history) + added
  BY <1>1, <1>2 DEF Written
<1>6. \A k \in 1..Len(history) : Written[k] = history[k]
  BY <1>1, <1>2 DEF Written
<1>7. \A k \in 1..added : Written[Len(history) + k] = Pending[k]
  BY <1>1, <1>2 DEF Written
<1> QED
  BY <1>1, <1>2, <1>3, <1>4, <1>5, <1>6, <1>7 DEF Length

\* What w is with the event e, which is in progress.
WithEvent(w, e) == w \o (IF e = NoEvent THEN <<>> ELSE EventRecord(e))

LEMMA WithEventIs ==
  ASSUME NEW w \in Seq(Slot), NEW e \in {NoEvent} \cup EventInProgress
  PROVE  /\ Len(w) \in Nat /\ Len(WithEvent(w, e)) \in Nat /\ Len(w) <= Len(WithEvent(w, e))
         /\ e = NoEvent => WithEvent(w, e) = w
         /\ e # NoEvent =>
              /\ e \in EventInProgress /\ e.kind.stored \in Nat
              /\ Len(WithEvent(w, e)) = Len(w) + 1 + e.kind.stored
         /\ \A k \in 1..Len(w) : WithEvent(w, e)[k] = w[k]
<1>1. CASE e = NoEvent
  <2>1. WithEvent(w, e) = w
    BY <1>1, NoSlots DEF WithEvent
  <2> QED
    BY <1>1, <2>1
<1>2. CASE e # NoEvent
  <2> DEFINE r == EventRecord(e)
  <2>1. e \in EventInProgress /\ e.kind.stored \in Nat
    BY <1>2, EventAssumption DEF EventInProgress
  <2>2. r \in Seq(Slot) /\ Len(r) = 1 + e.kind.stored
    BY <2>1, EventRecordSlots
  <2>3. WithEvent(w, e) = w \o r
    BY <1>2 DEF WithEvent
  <2> HIDE DEF r
  <2>4. /\ Len(w \o r) = Len(w) + Len(r) /\ Len(w) \in Nat
        /\ \A k \in 1..Len(w) : (w \o r)[k] = w[k]
    BY <2>2, Extended
  <2>5. Len(WithEvent(w, e)) = Len(w) + 1 + e.kind.stored
    <3>1. Len(WithEvent(w, e)) = Len(w) + Len(r) /\ Len(w) \in Nat
      BY <2>3, <2>4
    <3>2. Len(w) + (1 + e.kind.stored) = Len(w) + 1 + e.kind.stored
      BY <2>1, <3>1
    <3> QED
      BY <2>2, <3>1, <3>2
  <2>6. \A k \in 1..Len(w) : WithEvent(w, e)[k] = w[k]
    BY <2>3, <2>4
  <2> QED
    BY <1>2, <2>1, <2>4, <2>5, <2>6
<1> QED
  BY <1>1, <1>2

LEMMA FullIs ==
  ASSUME BoundedTransactions, FlowInv
  PROVE  /\ Full = Len(WithEvent(Written, event)) /\ WrittenInFull = WithEvent(Written, event)
         /\ event \in {NoEvent} \cup EventInProgress
         /\ Full \in Nat /\ Length <= Full
         /\ event = NoEvent => Full = Length
         /\ event # NoEvent => Full = Length + 1 + event.kind.stored /\ event.kind.stored \in Nat
         /\ \A k \in 1..Length : WrittenInFull[k] = Written[k]
         /\ Full <= Length + Capacity
<1>1. Written \in Seq(Slot) /\ Length \in Nat /\ Length = Len(Written)
  BY WrittenIs DEF Length
<1>2. event \in {NoEvent} \cup EventInProgress
  BY DEF FlowInv, RecorderInv, TypeOK
<1>3. Full = Len(WithEvent(Written, event)) /\ WrittenInFull = WithEvent(Written, event)
  BY DEF Full, WrittenInFull, WithEvent
<1>4. /\ Full \in Nat /\ Length <= Full
      /\ event = NoEvent => Full = Length
      /\ event # NoEvent => Full = Length + 1 + event.kind.stored /\ event.kind.stored \in Nat
      /\ \A k \in 1..Length : WrittenInFull[k] = Written[k]
  <2> DEFINE w == Written
  <2>1. w \in Seq(Slot) /\ Length = Len(w) /\ Full = Len(WithEvent(w, event))
        /\ WrittenInFull = WithEvent(w, event)
    BY <1>1, <1>3
  <2> HIDE DEF w
  <2>2. /\ Full \in Nat /\ Length <= Full
        /\ event = NoEvent => Full = Length
        /\ event # NoEvent => Full = Length + 1 + event.kind.stored /\ event.kind.stored \in Nat
        /\ \A k \in 1..Length : WrittenInFull[k] = w[k]
    BY <1>2, <2>1, WithEventIs
  <2> QED
    BY <2>2 DEF w
<1>5. event # NoEvent => 1 + event.kind.stored <= Capacity
  <2>1. event # NoEvent =>
          /\ added \in Nat /\ kept \in Nat /\ event.kind.stored \in Nat
          /\ added + 1 + event.kind.stored + kept <= Capacity
    BY EventType DEF FlowInv, RecorderInv, TypeOK
  <2> QED
    BY <2>1, CapacityAssumption
<1>6. Full <= Length + Capacity
  BY <1>1, <1>4, <1>5, CapacityAssumption
<1> QED
  BY <1>2, <1>3, <1>4, <1>6

-----------------------------------------------------------------------------
\* A record ends, or none has begun, after k slots of w.
EndsAt(w, k) == k \in 0..Len(w) /\ (k < Len(w) => w[k + 1].body = 0)

\* The records whose headers are in w carry ticks before t.
Before(w, t) == \A k \in 1..Len(w) : w[k].body = 0 => w[k].tick < t

\* w is made of whole records, one behind the other, with increasing ticks.
RecordsOf(w) ==
  /\ EndsAt(w, 0)
  /\ \A k \in 1..Len(w) :
       IF w[k].body # 0 THEN w[k].tick = 0
       ELSE /\ 0 < w[k].tick /\ \A j \in 1..(k - 1) : w[j].body = 0 => w[j].tick < w[k].tick
            /\ EndsAt(w, k + w[k].ext)
            /\ \A j \in (k + 1)..(k + w[k].ext) : w[j].body # 0

\* r is one record with tick t.
IsRecord(r, t) ==
  /\ r \in Seq(Slot) /\ Len(r) > 0
  /\ r[1].body = 0 /\ r[1].tick = t /\ r[1].ext = Len(r) - 1
  /\ \A j \in 2..Len(r) : r[j].body # 0 /\ r[j].tick = 0

LEMMA EndsStay ==
  ASSUME NEW w \in Seq(Slot), NEW t, NEW r, IsRecord(r, t), NEW k, EndsAt(w, k)
  PROVE  EndsAt(w \o r, k)
<1>1. r \in Seq(Slot) /\ Len(r) > 0 /\ r[1].body = 0
  BY DEF IsRecord
<1> DEFINE v == w \o r
<1>2. /\ Len(v) = Len(w) + Len(r) /\ Len(w) \in Nat /\ Len(r) \in Nat
      /\ \A i \in 1..Len(w) : v[i] = w[i]
      /\ v[Len(w) + 1] = r[1]
  BY <1>1, Extended
<1> HIDE DEF v
<1>3. k \in 0..Len(w) /\ (k < Len(w) => w[k + 1].body = 0)
  BY DEF EndsAt
<1>4. k \in 0..Len(v)
  BY <1>2, <1>3
<1>5. CASE k < Len(w)
  BY <1>2, <1>3, <1>4, <1>5 DEF EndsAt, v
<1>6. CASE k = Len(w)
  BY <1>1, <1>2, <1>4, <1>6 DEF EndsAt, v
<1> QED
  BY <1>2, <1>3, <1>5, <1>6

LEMMA RecordsExtended ==
  ASSUME NEW w \in Seq(Slot), RecordsOf(w), NEW t \in Nat, 0 < t, Before(w, t),
         NEW r, IsRecord(r, t)
  PROVE  /\ RecordsOf(w \o r) /\ Before(w \o r, t + 1)
         /\ EndsAt(w \o r, Len(w)) /\ EndsAt(w \o r, Len(w \o r))
<1>1. /\ r \in Seq(Slot) /\ Len(r) > 0 /\ r[1].body = 0 /\ r[1].tick = t
      /\ r[1].ext = Len(r) - 1
      /\ \A j \in 2..Len(r) : r[j].body # 0 /\ r[j].tick = 0
  BY DEF IsRecord
<1> DEFINE v == w \o r
           n == Len(w)
<1>2. /\ v \in Seq(Slot) /\ Len(v) = n + Len(r) /\ n \in Nat /\ Len(r) \in Nat
      /\ \A i \in 1..n : v[i] = w[i]
      /\ \A i \in 1..Len(r) : v[n + i] = r[i]
  BY <1>1, Extended
<1>3. \A k : EndsAt(w, k) => EndsAt(v, k)
  BY EndsStay
<1> HIDE DEF v
<1>4. EndsAt(v, n) /\ EndsAt(v, n + Len(r)) /\ EndsAt(v, 0)
  <2>1. EndsAt(w, n) /\ EndsAt(w, 0)
    BY <1>2 DEF EndsAt, RecordsOf
  <2>2. EndsAt(v, n + Len(r))
    BY <1>2 DEF EndsAt
  <2> QED
    BY <1>3, <2>1, <2>2
<1> HIDE DEF n
<1>5. ASSUME NEW k \in 1..Len(v), k <= n
      PROVE  /\ k \in 1..n /\ v[k] = w[k] /\ w[k] \in Slot
             /\ \A j \in 1..(k - 1) : v[j] = w[j]
  <2>1. k \in 1..n
    BY <1>2, <1>5
  <2>2. w[k] \in Slot
    BY <2>1, ElementOfSeq DEF n
  <2> QED
    BY <1>2, <2>1, <2>2
<1>6. ASSUME NEW k \in 1..Len(v), k <= n
      PROVE  IF v[k].body # 0 THEN v[k].tick = 0
             ELSE /\ 0 < v[k].tick /\ \A j \in 1..(k - 1) : v[j].body = 0 => v[j].tick < v[k].tick
                  /\ EndsAt(v, k + v[k].ext)
                  /\ \A j \in (k + 1)..(k + v[k].ext) : v[j].body # 0
  <2>1. k \in 1..n /\ v[k] = w[k] /\ w[k] \in Slot /\ \A j \in 1..(k - 1) : v[j] = w[j]
    BY <1>5, <1>6
  <2>2. IF w[k].body # 0 THEN w[k].tick = 0
        ELSE /\ 0 < w[k].tick /\ \A j \in 1..(k - 1) : w[j].body = 0 => w[j].tick < w[k].tick
             /\ EndsAt(w, k + w[k].ext)
             /\ \A j \in (k + 1)..(k + w[k].ext) : w[j].body # 0
    BY <2>1 DEF RecordsOf, n
  <2>3. ASSUME w[k].body = 0
        PROVE  /\ EndsAt(v, k + w[k].ext)
               /\ \A j \in (k + 1)..(k + w[k].ext) : v[j].body # 0
    <3>1. EndsAt(w, k + w[k].ext) /\ \A j \in (k + 1)..(k + w[k].ext) : w[j].body # 0
      BY <2>2, <2>3
    <3>2. w[k].ext \in Nat /\ k + w[k].ext <= n
      <4>1. w[k].ext \in Nat
        BY <2>1 DEF Slot
      <4>2. k + w[k].ext \in 0..Len(w)
        BY <3>1 DEF EndsAt
      <4> QED
        BY <4>1, <4>2 DEF n
    <3>3. \A j \in (k + 1)..(k + w[k].ext) : j \in 1..n
      BY <1>2, <2>1, <3>2
    <3> QED
      BY <1>2, <1>3, <3>1, <3>3
  <2> QED
    BY <2>1, <2>2, <2>3
<1>7. ASSUME NEW k \in 1..Len(v), ~(k <= n)
      PROVE  IF v[k].body # 0 THEN v[k].tick = 0
             ELSE /\ 0 < v[k].tick /\ \A j \in 1..(k - 1) : v[j].body = 0 => v[j].tick < v[k].tick
                  /\ EndsAt(v, k + v[k].ext)
                  /\ \A j \in (k + 1)..(k + v[k].ext) : v[j].body # 0
  <2> DEFINE i == k - n
  <2>1. i \in 1..Len(r) /\ k = n + i
    BY <1>2, <1>7
  <2>2. v[k] = r[i]
    BY <1>2, <2>1
  <2> HIDE DEF i
  <2>3. CASE i = 1
    <3>1. v[k].body = 0 /\ v[k].tick = t /\ k = n + 1 /\ v[k].ext = Len(r) - 1
      BY <1>1, <2>1, <2>2, <2>3
    <3>2. k + v[k].ext = n + Len(r)
      BY <1>2, <3>1
    <3>3. ASSUME NEW j \in (n + 2)..(n + Len(r))
          PROVE  v[j].body # 0
      <4>1. j - n \in 2..Len(r) /\ j - n \in 1..Len(r) /\ j = n + (j - n)
        BY <1>2
      <4>2. v[n + (j - n)] = r[j - n]
        BY <1>2, <4>1
      <4> QED
        BY <1>1, <4>1, <4>2
    <3>4. \A j \in 1..(k - 1) : v[j].body = 0 => v[j].tick < v[k].tick
      <4>1. k - 1 = n /\ \A j \in 1..n : w[j].body = 0 => w[j].tick < t
        BY <1>2, <3>1 DEF Before, n
      <4> QED
        BY <1>2, <3>1, <4>1
    <3>5. (k + 1)..(k + v[k].ext) = (n + 2)..(n + Len(r))
      BY <1>2, <3>1, <3>2
    <3> QED
      BY <1>4, <3>1, <3>2, <3>3, <3>4, <3>5
  <2>4. CASE i # 1
    BY <1>1, <2>1, <2>2, <2>4
  <2> QED
    BY <2>3, <2>4
<1>8. RecordsOf(v)
  BY <1>4, <1>6, <1>7 DEF RecordsOf
<1>9. Before(v, t + 1)
  <2>1. ASSUME NEW k \in 1..Len(v), v[k].body = 0
        PROVE  v[k].tick < t + 1
    <3>1. CASE k <= n
      <4>1. v[k] = w[k] /\ w[k].tick < t /\ w[k].tick \in Nat
        BY <1>2, <1>5, <2>1, <3>1 DEF Before, n, Slot
      <4> QED
        BY <4>1
    <3>2. CASE ~(k <= n)
      <4> DEFINE i == k - n
      <4>1. i \in 1..Len(r) /\ v[k] = r[i]
        <5>1. i \in 1..Len(r) /\ k = n + i
          BY <1>2, <3>2
        <5> QED
          BY <1>2, <5>1
      <4> HIDE DEF i
      <4>2. i = 1
        BY <1>1, <2>1, <4>1
      <4> QED
        BY <1>1, <4>1, <4>2
    <3> QED
      BY <3>1, <3>2
  <2> QED
    BY <2>1 DEF Before
<1> QED
  BY <1>2, <1>4, <1>8, <1>9 DEF v, n

-----------------------------------------------------------------------------
\* The newest slots of w are in memory m, as far as full slots leave room for them.
HoldsNewest(m, w, full) ==
  \A k \in 1..Len(w) : k > full - Capacity => m[At(k - 1)] = w[k]

\* The cell of the slot behind w does not look like a newer record: it was never
\* written, or what is left in it is the tick of the slot one lap ago.
LooksOld(m, w) ==
  /\ \A a \in Addresses : a >= Len(w) => m[a].tick = 0
  /\ Len(w) >= Capacity => m[At(Len(w))].tick \in {0, w[Len(w) - Capacity + 1].tick}

\* The cells of n slots behind w are all that differs between two memories.
TouchesBehind(m, m2, w, n) ==
  \A p \in Addresses :
    (\A i \in 0..(Capacity - 1) : i < n => p # At(Len(w) + i)) => m2[p] = m[p]

\* When r is stored behind w, or a part of a record that will be.
LEMMA RingExtended ==
  ASSUME NEW m, NEW m2,
         NEW w \in Seq(Slot), NEW r \in Seq(Slot), NEW full \in Nat, NEW full2 \in Nat,
         HoldsNewest(m, w, full), LooksOld(m, w),
         Len(w) <= full, full <= full2, full2 <= Len(w) + Capacity,
         Len(r) = 0 \/ full2 = Len(w) + Len(r),
         TouchesBehind(m, m2, w, full2 - Len(w)),
         \A i \in 1..Len(r) : m2[At(Len(w) + i - 1)] = r[i],
         \A p \in Addresses : p # At(Len(w)) \/ Len(r) = 0 => m2[p].tick \in {m[p].tick, 0}
  PROVE  HoldsNewest(m2, w \o r, full2) /\ LooksOld(m2, w \o r)
<1> DEFINE v == w \o r
           n == Len(w)
<1>1. /\ v \in Seq(Slot) /\ Len(v) = n + Len(r) /\ n \in Nat /\ Len(r) \in Nat
      /\ \A i \in 1..n : v[i] = w[i]
      /\ \A i \in 1..Len(r) : v[n + i] = r[i]
  BY Extended
<1>2. Capacity \in Nat /\ Capacity > 1
  BY CapacityAssumption
<1>3. /\ \A k \in 1..n : k > full - Capacity => m[At(k - 1)] = w[k]
      /\ \A a \in Addresses : a >= n => m[a].tick = 0
      /\ n >= Capacity => m[At(n)].tick \in {0, w[n - Capacity + 1].tick}
      /\ \A p \in Addresses :
           (\A i \in 0..(Capacity - 1) : i < full2 - n => p # At(n + i)) => m2[p] = m[p]
      /\ n <= full /\ full2 <= n + Capacity
      /\ Len(r) = 0 \/ full2 = n + Len(r)
      /\ \A i \in 1..Len(r) : m2[At(n + i - 1)] = r[i]
      /\ \A p \in Addresses : p # At(n) \/ Len(r) = 0 => m2[p].tick \in {m[p].tick, 0}
  BY DEF HoldsNewest, LooksOld, TouchesBehind
<1> HIDE DEF v, n
<1>4. ASSUME NEW k \in 1..Len(v), k > full2 - Capacity
      PROVE  m2[At(k - 1)] = v[k]
  <2>1. CASE k <= n
    <3>1. k \in 1..n /\ k > full - Capacity /\ k - 1 \in Nat
      BY <1>1, <1>2, <1>4, <2>1
    <3>2. At(k - 1) \in Addresses
      <4> DEFINE j == k - 1
      <4>1. j \in Nat /\ 0 \in 0..Capacity
        BY <1>2, <3>1
      <4> HIDE DEF j
      <4>2. At(j) \in Addresses
        BY <4>1, AtPhys
      <4> QED
        BY <4>2 DEF j
    <3>3. ASSUME NEW i \in 0..(Capacity - 1), i < full2 - n
          PROVE  At(k - 1) # At(n + i)
      <4> DEFINE a == k - 1
                 b == n + i
      <4>1. a \in Nat /\ b \in Nat /\ a < b /\ b < a + Capacity
        BY <1>1, <1>2, <1>4, <2>1, <3>1, <3>3
      <4> HIDE DEF a, b
      <4>2. At(a) # At(b)
        BY <4>1, AtApart
      <4> QED
        BY <4>2 DEF a, b
    <3>4. m2[At(k - 1)] = m[At(k - 1)]
      BY <1>3, <3>2, <3>3
    <3> QED
      BY <1>1, <1>3, <3>1, <3>4
  <2>2. CASE ~(k <= n)
    <3> DEFINE i == k - n
    <3>1. i \in 1..Len(r) /\ k = n + i /\ k - 1 = n + i - 1
      BY <1>1, <2>2
    <3> HIDE DEF i
    <3>2. m2[At(n + i - 1)] = r[i] /\ v[n + i] = r[i]
      BY <1>1, <1>3, <3>1
    <3> QED
      BY <3>1, <3>2
  <2> QED
    BY <2>1, <2>2
<1>5. ASSUME NEW a \in Addresses, a >= Len(v)
      PROVE  m2[a].tick = 0
  <2>1. a >= n /\ (Len(r) # 0 => a # n)
    BY <1>1, <1>5 DEF Addresses
  <2>2. a = At(n) => n \in Addresses /\ a = n
    <3>1. n \in Addresses
      BY <1>1, <1>2, <2>1 DEF Addresses
    <3> QED
      BY <3>1, AtSmall
  <2> QED
    BY <1>3, <2>1, <2>2
<1>6. ASSUME Len(v) >= Capacity
      PROVE  m2[At(Len(v))].tick \in {0, v[Len(v) - Capacity + 1].tick}
  <2>1. CASE Len(r) = 0
    <3>1. Len(v) = n /\ n - Capacity + 1 \in 1..n /\ n >= Capacity
      BY <1>1, <1>2, <1>6, <2>1
    <3>2. At(n) \in Addresses
      BY <1>1, <1>2, AtPhys
    <3> QED
      BY <1>1, <1>3, <2>1, <3>1, <3>2
  <2>2. CASE Len(r) # 0
    <3> DEFINE j == Len(v) - Capacity
    <3>1. j \in Nat /\ j + 1 \in 1..Len(v) /\ j + 1 > full2 - Capacity /\ Len(v) = j + Capacity
          /\ (j + 1) - 1 = j
      BY <1>1, <1>2, <1>3, <1>6, <2>2
    <3> HIDE DEF j
    <3>2. m2[At((j + 1) - 1)] = v[j + 1]
      BY <1>4, <3>1
    <3>3. At(Len(v)) = At(j)
      BY <3>1, AtLap
    <3>4. v[Len(v) - Capacity + 1] = v[j + 1]
      BY DEF j
    <3> QED
      BY <3>1, <3>2, <3>3, <3>4
  <2> QED
    BY <2>1, <2>2
<1> QED
  BY <1>4, <1>5, <1>6 DEF HoldsNewest, LooksOld, v

-----------------------------------------------------------------------------
\* The start of the open transaction is where the log ends.
AtLogEnd == start = At(Len(history))

\* Everything that a step of the program changes about the slots: a record r is
\* written, or nothing is yet.
Wrote(r) ==
  /\ r \in Seq(Slot) /\ Written' = Written \o r
  /\ r = <<>> \/ (event' = NoEvent /\ IsRecord(r, clock'))
  /\ clock <= clock'
  /\ r # <<>> \/ event' # NoEvent => event # NoEvent \/ clock < clock'
  /\ AtLogEnd'
  /\ Len(history') \in {Len(history), Length, Length + Len(r)}
  /\ Full <= Full' /\ Full' <= Length + Capacity
  /\ TouchesBehind(mem, mem', Written, Full' - Length)
  /\ \A i \in 1..Len(r) : mem'[At(Length + i - 1)] = r[i]
  /\ \A p \in Addresses : p # At(Length) \/ Len(r) = 0 => mem'[p].tick \in {mem[p].tick, 0}

\* The cells behind the open transaction are those behind all that was written.
LEMMA CellBehind ==
  ASSUME BoundedTransactions, FlowInv, AtLogEnd, NEW i \in Nat, added + i <= Capacity
  PROVE  Phys(start + added + i) = At(Length + i) /\ At(Length + i) \in Addresses
<1>1. /\ Len(history) \in Nat /\ added \in Nat /\ Length = Len(history) + added
      /\ Length \in Nat /\ start \in Nat
  BY WrittenIs DEF FlowInv, RecorderInv, TypeOK, Addresses
<1> DEFINE k == Len(history)
           a == added + i
           n == Length + i
<1>2. k \in Nat /\ a \in 0..Capacity /\ n = k + a /\ n \in Nat /\ 0 \in 0..Capacity
      /\ start + added + i = start + a /\ start = At(k)
  BY <1>1, CapacityAssumption DEF AtLogEnd
<1> HIDE DEF k, a, n
<1>3. At(k + a) = Phys(At(k) + a) /\ At(n) \in Addresses
  BY <1>2, AtPhys
<1> QED
  BY <1>2, <1>3 DEF n

\* A commit of n slots moves start_ over them.
LEMMA CommitStartIs ==
  ASSUME FlowInv, AtLogEnd, MinCount <= 1, NEW n \in 0..Capacity
  PROVE  CommitStart(n) = At(Len(history) + n)
<1>1. Len(history) \in Nat /\ start \in Addresses
  BY DEF FlowInv, RecorderInv, TypeOK
<1> DEFINE k == Len(history)
<1>2. k \in Nat /\ start = At(k)
  BY <1>1 DEF AtLogEnd
<1> HIDE DEF k
<1>3. At(k + n) = Phys(start + n)
  BY <1>2, AtPhys
<1>4. CommitStart(n) = Phys(start + n)
  BY <1>1, CountAssumption, CapacityAssumption DEF CommitStart, Phys, Addresses
<1> QED
  BY <1>3, <1>4 DEF k

LEMMA CommittedAll ==
  ASSUME MinCount <= 1, NEW s \in Seq(Slot)
  PROVE  Committed(s) = s
<1>1. CASE Len(s) >= MinCount
  BY <1>1 DEF Committed
<1>2. CASE ~(Len(s) >= MinCount)
  <2>1. Len(s) = 0
    BY <1>2, CountAssumption
  <2>2. s = <<>>
    BY <2>1
  <2> QED
    BY <2>2 DEF Committed
<1> QED
  BY <1>1, <1>2

LEMMA SlotsAssociate ==
  ASSUME NEW a \in Seq(Slot), NEW b \in Seq(Slot), NEW c \in Seq(Slot)
  PROVE  a \o (b \o c) = (a \o b) \o c
  BY ConcatAssociative

LEMMA PlainRecord ==
  ASSUME NEW t \in Nat, NEW c \in Categories
  PROVE  /\ IsRecord(<<Plain(t, c)>>, t) /\ <<Plain(t, c)>> \in Seq(Slot)
         /\ Len(<<Plain(t, c)>>) = 1 /\ <<Plain(t, c)>>[1] = Plain(t, c)
         /\ <<Plain(t, c)>> # <<>>
<1> DEFINE p == Plain(t, c)
           r == <<p>>
<1>1. p \in Slot /\ p.body = 0 /\ p.tick = t /\ p.ext = 0
  BY PlainIsSlot DEF Plain
<1> HIDE DEF p
<1>2. r \in Seq(Slot) /\ Len(r) = 1 /\ r[1] = p /\ r # <<>> /\ \A j \in 2..Len(r) : FALSE
  BY <1>1
<1> HIDE DEF r
<1>3. IsRecord(r, t)
  BY <1>1, <1>2 DEF IsRecord
<1> QED
  BY <1>2, <1>3 DEF r, p

\* A plain checkpoint goes to the cell behind all that was written.
LEMMA PlainWrites ==
  ASSUME Followed, FlowInv, FlowInv', NEW t \in Nat, NEW c \in Categories,
         clock < t, clock' = t, event = NoEvent, event' = NoEvent, AtLogEnd',
         NEW a \in Nat, a < 2 * Capacity, Phys(a) = At(Length), Store(a, Plain(t, c)),
         Written' = Written \o <<Plain(t, c)>>,
         Len(history') \in {Len(history), Length, Length + 1}
  PROVE  Wrote(<<Plain(t, c)>>)
<1> DEFINE p == Plain(t, c)
           r == <<Plain(t, c)>>
<1>1. /\ r \in Seq(Slot) /\ Len(r) = 1 /\ r[1] = p /\ IsRecord(r, t) /\ r # <<>>
      /\ p \in Slot
  BY PlainRecord, PlainIsSlot
<1>2. BoundedTransactions /\ RecorderInv /\ mem \in [Addresses -> Slot] /\ clock \in Nat
  BY DEF Followed, FlowInv, RecorderInv, TypeOK
<1>3. mem' = [mem EXCEPT ![At(Length)] = p]
  BY <1>2 DEF Store, EndOfStorage, RecorderInv
<1>4. At(Length) \in Addresses
  BY PhysInRing
<1> HIDE DEF p, r
<1>5. Written \in Seq(Slot) /\ Length \in Nat /\ Length = Len(Written)
  BY <1>2, WrittenIs DEF Length
<1>6. Length' = Length + 1 /\ Full' = Length' /\ Full = Length
  <2>1. Len(Written \o r) = Len(Written) + Len(r)
    BY <1>1, <1>5, Extended
  <2>2. Length' = Length + 1
    BY <1>1, <1>5, <2>1 DEF Length, r
  <2>3. Written' \in Seq(Slot)
    BY <1>1, <1>5, Extended DEF r
  <2>4. Full' = Length'
    BY <2>3, NoSlots DEF Full, WrittenInFull, Length
  <2>5. Full = Length
    BY <1>2, FullIs
  <2> QED
    BY <2>2, <2>4, <2>5
<1>7. \A q \in Addresses : q # At(Length) => mem'[q] = mem[q]
  BY <1>2, <1>3, <1>4
<1>8. mem'[At(Length)] = p
  BY <1>2, <1>3, <1>4
<1>9. TouchesBehind(mem, mem', Written, Full' - Length)
  <2>1. Full' - Length = 1 /\ 0 \in 0..(Capacity - 1) /\ Len(Written) + 0 = Length
    BY <1>5, <1>6, CapacityAssumption
  <2> QED
    BY <1>7, <2>1 DEF TouchesBehind
<1>10. \A i \in 1..Len(r) : mem'[At(Length + i - 1)] = r[i]
  <2>1. \A i \in 1..Len(r) : i = 1 /\ Length + i - 1 = Length
    BY <1>1, <1>5
  <2> QED
    BY <1>1, <1>8, <2>1
<1>11. \A q \in Addresses : q # At(Length) \/ Len(r) = 0 => mem'[q].tick \in {mem[q].tick, 0}
  BY <1>1, <1>7
<1>12. clock <= clock' /\ clock < clock' /\ Full <= Full' /\ Full' <= Length + Capacity
  BY <1>2, <1>5, <1>6, CapacityAssumption
<1> QED
  BY <1>1, <1>6, <1>9, <1>10, <1>11, <1>12 DEF Wrote, r

LEMMA NextTicksLater ==
  ASSUME Followed, FlowInv, NEW t \in NextTicks
  PROVE  t \in Nat /\ clock < t
<1>1. PICK d \in TickSteps : t = clock + d
  BY DEF NextTicks
<1>2. d \in Nat /\ d # 0 /\ clock \in Nat
  BY <1>1, TickAssumption DEF Followed, FlowInv, RecorderInv, TypeOK
<1> QED
  BY <1>1, <1>2

LEMMA AddWrites ==
  ASSUME Followed, FlowInv, FlowInv', AtLogEnd, NEW t \in NextTicks, NEW c \in Categories,
         Add(t, c), history' = history
  PROVE  Wrote(<<Plain(t, c)>>)
<1>1. BoundedTransactions /\ RecorderInv /\ t \in Nat /\ clock < t
  BY NextTicksLater DEF Followed, FlowInv
<1>2. /\ start \in Nat /\ start < Capacity /\ added \in Nat /\ count = added /\ added + 1 <= Capacity
      /\ Capacity \in Nat
  <2>1. /\ start \in Nat /\ start < Capacity /\ added \in Nat /\ count = added
        /\ MaxPending <= Capacity /\ added + 1 <= MaxPending
    BY <1>1, CountsAgree DEF Add
  <2> QED
    BY <2>1, CapacityAssumption, CountAssumption
<1>3. Pending' = Pending \o <<Plain(t, c)>>
  BY <1>1, AddAppends
<1>4. /\ Pending \in Seq(Slot) /\ history \in Seq(Slot) /\ Written = history \o Pending
      /\ <<Plain(t, c)>> \in Seq(Slot)
  BY <1>1, WrittenIs, PlainRecord
<1>5. Written' = Written \o <<Plain(t, c)>>
  <2>1. Written' = history \o (Pending \o <<Plain(t, c)>>)
    BY <1>3 DEF Written
  <2> QED
    BY <1>4, <2>1, SlotsAssociate
<1> DEFINE a == start + count
<1>6. a \in Nat /\ a < 2 * Capacity /\ Phys(a) = At(Length) /\ Store(a, Plain(t, c))
  <2>1. Phys(start + added + 0) = At(Length + 0)
    BY <1>1, <1>2, CellBehind
  <2>2. start + added + 0 = start + count /\ Length + 0 = Length
    BY <1>1, <1>2, WrittenIs
  <2> QED
    BY <1>2, <2>1, <2>2 DEF Add
<1> HIDE DEF a
<1>7. clock' = t /\ event = NoEvent /\ event' = NoEvent /\ AtLogEnd'
  BY DEF Add, Recording, AtLogEnd
<1>8. Len(history') \in {Len(history), Length, Length + 1}
  OBVIOUS
<1> QED
  BY <1>1, <1>5, <1>6, <1>7, <1>8, PlainWrites

LEMMA StartWrites ==
  ASSUME Followed, FlowInv, FlowInv', AtLogEnd, NEW t \in NextTicks, NEW c \in Categories,
         Start(t, c), history' = history \o Committed(Pending)
  PROVE  Wrote(<<Plain(t, c)>>)
<1>1. BoundedTransactions /\ RecorderInv /\ t \in Nat /\ clock < t /\ MinCount <= 1
  BY NextTicksLater DEF Followed, FlowInv
<1>2. added \in 0..Capacity /\ count = added /\ Capacity \in Nat /\ Capacity > 1
  BY <1>1, CountsAgree, CapacityAssumption
<1>3. Pending' = <<Plain(t, c)>>
  BY <1>1, StartBegins
<1>4. /\ Pending \in Seq(Slot) /\ history \in Seq(Slot) /\ Written = history \o Pending
      /\ Length = Len(history) + added /\ Length = Len(Written)
  BY <1>1, WrittenIs DEF Length
<1>5. history' = Written
  BY <1>1, <1>4, CommittedAll
<1>6. Written' = Written \o <<Plain(t, c)>> /\ Len(history') = Length
  BY <1>3, <1>4, <1>5 DEF Written
<1> DEFINE a == CommitStart(count)
<1>7. a = At(Length) /\ start' = a /\ Store(a, Plain(t, c))
  BY <1>1, <1>2, <1>4, CommitStartIs DEF Start
<1>8. a \in Addresses
  BY <1>1, <1>2, CommitStartInRing DEF RecorderInv, TypeOK
<1> HIDE DEF a
<1>9. a \in Nat /\ a < 2 * Capacity /\ Phys(a) = At(Length)
  BY <1>2, <1>7, <1>8 DEF Addresses, Phys
<1>10. clock' = t /\ event = NoEvent /\ event' = NoEvent /\ AtLogEnd'
  BY <1>6, <1>7 DEF Start, Recording, AtLogEnd
<1>11. Len(history') \in {Len(history), Length, Length + 1}
  BY <1>6
<1> QED
  BY <1>1, <1>6, <1>7, <1>9, <1>10, <1>11, PlainWrites

LEMMA EndWrites ==
  ASSUME Followed, FlowInv, FlowInv', AtLogEnd, NEW t \in NextTicks, NEW c \in Categories,
         End(t, c), history' = history \o Committed(Append(Pending, Plain(t, c)))
  PROVE  Wrote(<<Plain(t, c)>>)
<1>1. BoundedTransactions /\ RecorderInv /\ t \in Nat /\ clock < t /\ MinCount <= 1
  BY NextTicksLater DEF Followed, FlowInv
<1>2. /\ start \in Nat /\ start < Capacity /\ added \in Nat /\ count = added /\ added + 1 <= Capacity
      /\ Capacity \in Nat /\ Wrap(count + 1) = added + 1
  <2>1. /\ start \in Nat /\ start < Capacity /\ added \in Nat /\ count = added
        /\ MaxPending <= Capacity /\ MaxPending < CountMod /\ added + 1 <= MaxPending
    BY <1>1, CountsAgree DEF End, BoundedTransactions
  <2> QED
    BY <2>1, CapacityAssumption, CountAssumption DEF Wrap
<1>3. Pending' = <<>>
  BY <1>1, EndAppends
<1>4. /\ Pending \in Seq(Slot) /\ history \in Seq(Slot) /\ Written = history \o Pending
      /\ <<Plain(t, c)>> \in Seq(Slot) /\ Plain(t, c) \in Slot /\ Length = Len(Written)
      /\ Written \in Seq(Slot) /\ Len(<<Plain(t, c)>>) = 1 /\ Length = Len(history) + added
      /\ Len(history) \in Nat
  BY <1>1, WrittenIs, PlainRecord, PlainIsSlot DEF Length
<1> DEFINE r == <<Plain(t, c)>>
<1>5. history' = Written \o r
  <2>1. Append(Pending, Plain(t, c)) = Pending \o r
    BY <1>4
  <2>2. Pending \o r \in Seq(Slot)
    BY <1>4, Extended
  <2>3. history' = history \o (Pending \o r)
    BY <1>1, <2>1, <2>2, CommittedAll
  <2> QED
    BY <1>4, <2>3, SlotsAssociate
<1>6. Written' = Written \o r /\ Len(history') = Length + 1
  <2>0. r \in Seq(Slot) /\ Len(r) = 1
    BY <1>4
  <2> HIDE DEF r
  <2>1. Written \o r \in Seq(Slot) /\ Len(Written \o r) = Length + 1
    <3>1. /\ Written \o r \in Seq(Slot) /\ Len(Written \o r) = Len(Written) + Len(r)
      BY <1>4, <2>0, Extended
    <3> QED
      BY <1>4, <2>0, <3>1
  <2>2. Written' = (Written \o r) \o <<>>
    BY <1>3, <1>5 DEF Written
  <2>3. (Written \o r) \o <<>> = Written \o r
    BY <2>1, NoSlots
  <2> QED
    BY <1>5, <2>1, <2>2, <2>3
<1> DEFINE a == start + count
<1>7. a \in Nat /\ a < 2 * Capacity /\ Phys(a) = At(Length) /\ Store(a, Plain(t, c))
  <2>1. Phys(start + added + 0) = At(Length + 0)
    BY <1>1, <1>2, CellBehind
  <2>2. start + added + 0 = start + count /\ Length + 0 = Length
    BY <1>1, <1>2, WrittenIs
  <2> QED
    BY <1>2, <2>1, <2>2 DEF End
<1> HIDE DEF a
<1>8. AtLogEnd'
  <2>1. start' = CommitStart(added + 1) /\ added + 1 \in 0..Capacity
    BY <1>2 DEF End
  <2>2. start' = At(Len(history) + (added + 1)) /\ Len(history) + (added + 1) = Length + 1
    BY <1>1, <1>2, <1>4, <2>1, CommitStartIs
  <2> QED
    BY <1>6, <2>2 DEF AtLogEnd
<1>9. clock' = t /\ event = NoEvent /\ event' = NoEvent
  BY DEF End, Recording
<1>10. Len(history') \in {Len(history), Length, Length + 1}
  BY <1>6
<1> QED
  BY <1>1, <1>6, <1>7, <1>8, <1>9, <1>10, PlainWrites

\* A step that puts nothing into the ring.
LEMMA NothingWritten ==
  ASSUME Followed, FlowInv, FlowInv', Written' = Written, mem' = mem, clock \in Nat,
         clock' \in Nat, clock <= clock',
         event' # NoEvent => event # NoEvent \/ clock < clock',
         AtLogEnd', Len(history') \in {Len(history), Length},
         Full <= Full', Full' <= Length + Capacity
  PROVE  Wrote(<<>>)
<1>1. Written \in Seq(Slot) /\ Length \in Nat /\ Length = Len(Written)
  BY WrittenIs DEF Followed, Length
<1>2. Written' = Written \o <<>> /\ <<>> \in Seq(Slot) /\ Len(<<>>) = 0
  BY <1>1, NoSlots
<1>3. TouchesBehind(mem, mem', Written, Full' - Length)
  BY DEF TouchesBehind
<1>4. \A i \in 1..Len(<<>>) : mem'[At(Length + i - 1)] = <<>>[i]
  BY <1>2
<1> QED
  BY <1>1, <1>2, <1>3, <1>4 DEF Wrote

LEMMA CommitWrites ==
  ASSUME Followed, FlowInv, FlowInv', AtLogEnd, Commit, history' = history \o Committed(Pending)
  PROVE  Wrote(<<>>)
<1>1. BoundedTransactions /\ RecorderInv /\ MinCount <= 1
  BY DEF Followed, FlowInv
<1>2. /\ added \in 0..Capacity /\ count = added /\ Capacity \in Nat /\ Capacity > 1
      /\ clock \in Nat
  BY <1>1, CountsAgree, CapacityAssumption
<1>3. Pending' = <<>>
  BY <1>1, CommitMoves
<1>4. /\ Pending \in Seq(Slot) /\ history \in Seq(Slot) /\ Written = history \o Pending
      /\ Length = Len(history) + added /\ Length = Len(Written) /\ Written \in Seq(Slot)
  BY <1>1, WrittenIs DEF Length
<1>5. history' = Written
  BY <1>1, <1>4, CommittedAll
<1>6. Written' = Written
  <2>1. Written' = Written \o <<>>
    BY <1>3, <1>5 DEF Written
  <2> QED
    BY <1>4, <2>1, NoSlots
<1>7. start' = At(Length) /\ mem' = mem /\ clock' = clock /\ event = NoEvent /\ event' = NoEvent
  BY <1>1, <1>2, <1>4, CommitStartIs DEF Commit, Recording
<1>8. AtLogEnd' /\ Len(history') = Length
  BY <1>4, <1>5, <1>7 DEF AtLogEnd
<1>9. Full' = Full /\ Full \in Nat /\ Full <= Length + Capacity
  <2>1. Full' = Full
    BY <1>6, <1>7 DEF Full, WrittenInFull
  <2> QED
    BY <1>1, <2>1, FullIs
<1> QED
  BY <1>2, <1>6, <1>7, <1>8, <1>9, NothingWritten

LEMMA AddEventWrites ==
  ASSUME Followed, FlowInv, FlowInv', AtLogEnd, NEW t \in NextTicks, NEW kind \in EventKinds,
         NEW order \in StoreOrders, AddEvent(t, kind, order), history' = history
  PROVE  Wrote(<<>>) /\ Full' = Length + 1 + kind.stored /\ Full = Length /\ kind.stored \in Nat
<1>1. BoundedTransactions /\ RecorderInv /\ t \in Nat /\ clock < t
  BY NextTicksLater DEF Followed, FlowInv
<1>2. Pending' = Pending /\ clock \in Nat
  BY <1>1, AddEventMakesRoom, CountsAgree
<1>3. /\ mem' = mem /\ clock' = t /\ event = NoEvent /\ AtLogEnd'
      /\ event' = [stage |-> 1, at |-> t, kind |-> kind, order |-> order]
  BY DEF AddEvent, Recording, AtLogEnd
<1>4. Written' = Written /\ Written \in Seq(Slot) /\ Length \in Nat /\ Length = Len(Written)
  BY <1>1, <1>2, WrittenIs DEF Written, Length
<1>5. Full = Length
  BY <1>1, <1>3, FullIs
<1>6. Full' = Length + 1 + kind.stored /\ kind.stored \in Nat
  <2> DEFINE e == event'
             w == Written
  <2>1. e \in {NoEvent} \cup EventInProgress /\ e.kind = kind /\ e # NoEvent
    <3>1. e \in {NoEvent} \cup EventInProgress
      BY DEF FlowInv, RecorderInv, TypeOK
    <3>2. e.stage = 1 /\ NoEvent.stage = 0
      BY <1>3 DEF NoEvent
    <3> QED
      BY <1>3, <3>1, <3>2
  <2>2. w \in Seq(Slot) /\ Length = Len(w) /\ Full' = Len(WithEvent(w, e))
    BY <1>4 DEF Full, WrittenInFull, WithEvent
  <2> HIDE DEF e, w
  <2>3. e.kind.stored \in Nat /\ Len(WithEvent(w, e)) = Len(w) + 1 + e.kind.stored
    BY <2>1, <2>2, WithEventIs
  <2> QED
    BY <2>1, <2>2, <2>3
<1>7. Full <= Full' /\ Full' <= Length + Capacity
  <2> DEFINE n == kind.stored
  <2>1. added + 1 + n <= MaxPending /\ MaxPending <= Capacity
    BY <1>1 DEF AddEvent, BoundedTransactions
  <2>2. added \in Nat /\ MaxPending \in Nat /\ Capacity \in Nat /\ n \in Nat
        /\ Full' = Length + 1 + n
    BY <1>1, <1>6, WrittenIs, CountAssumption, CapacityAssumption
  <2> HIDE DEF n
  <2> QED
    BY <1>4, <1>5, <2>1, <2>2
<1>8. Wrote(<<>>)
  BY <1>1, <1>2, <1>3, <1>4, <1>7, NothingWritten
<1> QED
  BY <1>5, <1>6, <1>8

\* The parts of an event go to the cells behind all that was written, and only the
\* tick of its header is a tick that was not there before.
LEMMA EventTouches ==
  ASSUME Followed, FlowInv, AtLogEnd, StoreEvent
  PROVE  /\ TouchesBehind(mem, mem', Written, 1 + event.kind.stored)
         /\ \A p \in Addresses :
              p # At(Length) \/ event.order[event.stage] # "tick"
                => mem'[p].tick \in {mem[p].tick, 0}
<1> DEFINE part == event.order[event.stage]
           a == start + added
           n == event.kind.stored
<1>1. BoundedTransactions /\ RecorderInv /\ event # NoEvent
  BY DEF Followed, FlowInv, StoreEvent
<1>2. /\ n \in Nat /\ part \in Parts /\ added \in Nat /\ kept \in Nat
      /\ added + 1 + n + kept <= Capacity /\ event \in EventInProgress
      /\ count = added /\ mem \in [Addresses -> Slot] /\ Capacity \in Nat /\ start \in Nat
  BY <1>1, EventType, CapacityAssumption DEF RecorderInv, TypeOK, Addresses
<1>3. mem' = Stored(part, event, a)
  BY <1>2 DEF StoreEvent
<1>4. EventBody(event).tick = 0
  BY <1>2 DEF EventBody, EventInProgress, Followed
<1>5. Length \in Nat /\ Length = Len(Written)
  BY <1>1, WrittenIs DEF Length
<1>6. ASSUME NEW i \in 0..n
      PROVE  Phys(a + i) = At(Length + i) /\ At(Length + i) \in Addresses /\ i \in 0..(Capacity - 1)
  <2>1. added + i <= Capacity /\ i \in Nat /\ i <= Capacity - 1
    BY <1>2
  <2>2. Phys(start + added + i) = At(Length + i) /\ At(Length + i) \in Addresses
    BY <1>1, <2>1, CellBehind
  <2> QED
    BY <2>1, <2>2, <1>2
<1>7. Phys(a) = At(Length) /\ At(Length) \in Addresses
  <2>1. 0 \in 0..n /\ a + 0 = a /\ Length + 0 = Length
    BY <1>2, <1>5
  <2> QED
    BY <1>6, <2>1
<1> HIDE DEF part, a, n
<1>8. CASE part = "payload"
  <2>1. mem' = [p \in Addresses |-> IF \E i \in 1..n : p = Phys(a + i)
                                    THEN EventBody(event) ELSE mem[p]]
    BY <1>3, <1>8 DEF Stored, n
  <2>2. ASSUME NEW p \in Addresses,
               \A i \in 0..(Capacity - 1) : i < 1 + n => p # At(Length + i)
        PROVE  mem'[p] = mem[p]
    <3>1. ASSUME NEW i \in 1..n
          PROVE  p # Phys(a + i)
      <4>1. i \in 0..n /\ i < 1 + n
        BY <1>2
      <4>2. Phys(a + i) = At(Length + i) /\ i \in 0..(Capacity - 1)
        BY <1>6, <4>1
      <4> QED
        BY <2>2, <4>1, <4>2
    <3> QED
      BY <2>1, <3>1
  <2>3. \A p \in Addresses : mem'[p].tick \in {mem[p].tick, 0}
    BY <1>4, <2>1
  <2> QED
    BY <1>5, <2>2, <2>3 DEF TouchesBehind, n
<1>9. CASE part # "payload"
  <2>1. /\ \A p \in Addresses : p # At(Length) => mem'[p] = mem[p]
        /\ part # "tick" => mem'[At(Length)].tick = mem[At(Length)].tick
    BY <1>2, <1>3, <1>7, <1>9 DEF Stored, Parts, Slot
  <2>2. ASSUME NEW p \in Addresses,
               \A i \in 0..(Capacity - 1) : i < 1 + n => p # At(Length + i)
        PROVE  mem'[p] = mem[p]
    <3>1. 0 \in 0..(Capacity - 1) /\ 0 < 1 + n /\ Length + 0 = Length
      BY <1>2, <1>5, CapacityAssumption
    <3> QED
      BY <2>1, <2>2, <3>1
  <2>3. \A p \in Addresses : p # At(Length) \/ part # "tick" => mem'[p].tick \in {mem[p].tick, 0}
    BY <2>1
  <2> QED
    BY <1>5, <2>2, <2>3 DEF TouchesBehind, n, part
<1> QED
  BY <1>8, <1>9

\* The tick is the last part of an event that goes out.
LEMMA TickGoesLast ==
  ASSUME Followed, FlowInv, StoreEvent, event.stage < 3
  PROVE  event.order[event.stage] # "tick"
<1>1. event \in EventInProgress /\ event.stage \in 1..3
  BY EventType DEF Followed, FlowInv, StoreEvent
<1> DEFINE order == event.order
<1>2. order \in StoreOrders /\ order \in [1..3 -> Parts] /\ event.stage \in {1, 2}
  BY <1>1, EventAssumption DEF EventInProgress
<1>3. order[3] = "tick" /\ (\E i \in 1..3 : order[i] = "payload") /\ (\E i \in 1..3 : order[i] = "head")
  BY <1>2, EventAssumption DEF Followed, Parts
<1> HIDE DEF order
<1>4. order[1] # "tick" /\ order[2] # "tick"
  BY <1>3
<1> QED
  BY <1>2, <1>4 DEF order

LEMMA StoreEventHiddenWrites ==
  ASSUME Followed, FlowInv, FlowInv', AtLogEnd, StoreEvent, event.stage < 3, history' = history
  PROVE  Wrote(<<>>) /\ Full' = Full
<1>1. BoundedTransactions /\ RecorderInv /\ event # NoEvent /\ clock \in Nat
  BY CountsAgree DEF Followed, FlowInv, StoreEvent
<1>2. Pending' = Pending
  BY <1>1, StoreEventHides
<1>3. Written \in Seq(Slot) /\ Length \in Nat /\ Length = Len(Written) /\ Written' = Written
  BY <1>1, <1>2, WrittenIs DEF Length, Written
<1>4. event' # NoEvent /\ event'.kind = event.kind
  <2>1. event \in EventInProgress /\ event' = [event EXCEPT !.stage = @ + 1]
    BY <1>1, EventType DEF StoreEvent
  <2>2. event'.stage = event.stage + 1 /\ event.stage \in 1..3 /\ NoEvent.stage = 0
        /\ event'.kind = event.kind
    BY <2>1 DEF EventInProgress, NoEvent
  <2> QED
    BY <2>2
<1>5. /\ Full = Length + 1 + event.kind.stored /\ event.kind.stored \in Nat
      /\ Full' = Full
  <2>1. Full = Length + 1 + event.kind.stored /\ event.kind.stored \in Nat
    BY <1>1, FullIs
  <2> DEFINE e == event'
             w == Written
  <2>2. e \in {NoEvent} \cup EventInProgress /\ e # NoEvent /\ e.kind = event.kind
    BY <1>4 DEF FlowInv, RecorderInv, TypeOK
  <2>3. w \in Seq(Slot) /\ Length = Len(w) /\ Full' = Len(WithEvent(w, e))
    BY <1>3 DEF Full, WrittenInFull, WithEvent
  <2> HIDE DEF e, w
  <2>4. Len(WithEvent(w, e)) = Len(w) + 1 + e.kind.stored
    BY <2>2, <2>3, WithEventIs
  <2> QED
    BY <2>1, <2>2, <2>3, <2>4
<1>6. Full' - Length = 1 + event.kind.stored /\ Full <= Full' /\ Full' <= Length + Capacity
  <2>1. Full <= Length + Capacity
    BY <1>1, FullIs
  <2> QED
    BY <1>3, <1>5, <2>1
<1>7. TouchesBehind(mem, mem', Written, Full' - Length)
  BY <1>6, EventTouches
<1>8. \A p \in Addresses : mem'[p].tick \in {mem[p].tick, 0}
  BY EventTouches, TickGoesLast
<1>9. Written' = Written \o <<>> /\ <<>> \in Seq(Slot) /\ Len(<<>>) = 0
  BY <1>3, NoSlots
<1>10. AtLogEnd' /\ clock <= clock'
  BY <1>1 DEF StoreEvent, AtLogEnd
<1>11. \A i \in 1..Len(<<>>) : mem'[At(Length + i - 1)] = <<>>[i]
  BY <1>9
<1> QED
  BY <1>1, <1>5, <1>6, <1>7, <1>8, <1>9, <1>10, <1>11 DEF Wrote

LEMMA EventIsRecord ==
  ASSUME Followed, NEW e \in EventInProgress
  PROVE  /\ IsRecord(EventRecord(e), e.at) /\ EventRecord(e) \in Seq(Slot)
         /\ Len(EventRecord(e)) = 1 + e.kind.stored /\ EventRecord(e) # <<>>
<1> DEFINE r == EventRecord(e)
<1>1. /\ r \in Seq(Slot) /\ Len(r) = 1 + e.kind.stored /\ r[1] = EventHead(e)
      /\ \A i \in 2..(1 + e.kind.stored) : r[i] = EventBody(e)
      /\ EventBody(e).body # 0
  BY EventRecordSlots
<1>2. e.kind.stored \in Nat /\ e.kind.declared = e.kind.stored /\ e.kind.tick = 0
  BY EventAssumption DEF Followed, EventInProgress
<1>3. EventHead(e).body = 0 /\ EventHead(e).tick = e.at /\ EventHead(e).ext = e.kind.stored
  BY <1>2 DEF EventHead
<1>4. EventBody(e).tick = 0
  BY <1>2 DEF EventBody
<1> HIDE DEF r
<1>5. IsRecord(r, e.at)
  BY <1>1, <1>2, <1>3, <1>4 DEF IsRecord
<1>6. r # <<>>
  BY <1>1, <1>2
<1> QED
  BY <1>1, <1>5, <1>6 DEF r

LEMMA StoreEventDoneWrites ==
  ASSUME Followed, FlowInv, FlowInv', ContentInv, AtLogEnd, StoreEvent, ~(event.stage < 3),
         history' = history
  PROVE  Wrote(EventRecord(event)) /\ Full' = Full
<1> DEFINE r == EventRecord(event)
<1>1. BoundedTransactions /\ RecorderInv /\ event # NoEvent /\ clock \in Nat
  BY CountsAgree DEF Followed, FlowInv, StoreEvent
<1>2. Pending' = Pending \o r /\ event.at = clock
  BY <1>1, StoreEventAppends DEF ContentInv, EventPlaced
<1>3. /\ event' = NoEvent /\ clock' = clock /\ added' = added + 1 + event.kind.stored
      /\ start' = start
  BY <1>1 DEF StoreEvent
<1>4. event \in EventInProgress /\ event.kind.stored \in Nat
      /\ added + 1 + event.kind.stored <= MaxPending
  BY <1>1, EventType
<1>5. IsRecord(r, clock') /\ r \in Seq(Slot) /\ Len(r) = 1 + event.kind.stored /\ r # <<>>
  BY <1>2, <1>3, <1>4, EventIsRecord
<1> HIDE DEF r
<1>6. /\ Written \in Seq(Slot) /\ Length \in Nat /\ Length = Len(Written)
      /\ Pending \in Seq(Slot) /\ history \in Seq(Slot) /\ Written = history \o Pending
      /\ Length = Len(history) + added /\ Len(history) \in Nat /\ added \in Nat
  BY <1>1, WrittenIs DEF Length
<1>7. Written' = Written \o r
  <2>1. Written' = history \o (Pending \o r)
    BY <1>2 DEF Written
  <2> QED
    BY <1>5, <1>6, <2>1, SlotsAssociate
<1>8. /\ Full = Length + 1 + event.kind.stored /\ Full' = Full
  <2>1. Full = Length + 1 + event.kind.stored
    BY <1>1, FullIs
  <2>2. Written \o r \in Seq(Slot) /\ Len(Written \o r) = Length + Len(r)
    BY <1>5, <1>6, Extended
  <2>3. WrittenInFull' = Written \o r
    BY <1>3, <1>7, <2>2, NoSlots DEF WrittenInFull
  <2>4. Full' = Length + Len(r)
    BY <2>2, <2>3 DEF Full
  <2>5. Length + (1 + event.kind.stored) = Length + 1 + event.kind.stored
    BY <1>4, <1>6
  <2> QED
    BY <1>5, <2>1, <2>4, <2>5
<1>9. Full' - Length = 1 + event.kind.stored /\ Full <= Full' /\ Full' <= Length + Capacity
  <2>1. Full <= Length + Capacity
    BY <1>1, FullIs
  <2> QED
    BY <1>4, <1>6, <1>8, <2>1
<1>10. /\ TouchesBehind(mem, mem', Written, Full' - Length)
       /\ \A p \in Addresses : p # At(Length) => mem'[p].tick \in {mem[p].tick, 0}
  BY <1>9, EventTouches
<1>11. ASSUME NEW i \in 1..Len(r)
       PROVE  mem'[At(Length + i - 1)] = r[i]
  <2> DEFINE j == i - 1
  <2>1. /\ MaxPending <= Capacity /\ MaxPending \in Nat /\ Capacity \in Nat /\ start \in Nat
    BY <1>1, CountsAgree, CapacityAssumption, CountAssumption
  <2>2. i \in 1..(1 + event.kind.stored) /\ added' = added + 1 + event.kind.stored
    BY <1>3, <1>5
  <2>3. /\ j \in Nat /\ j <= event.kind.stored /\ start + added + j = start + (added + i) - 1
        /\ Length + j = Length + i - 1
    BY <1>4, <1>6, <2>1, <2>2
  <2>4. added + i \in 1..added'
    BY <1>4, <1>6, <2>2
  <2> HIDE DEF j
  <2>5. added + j <= Capacity
    <3> DEFINE n == event.kind.stored
    <3>1. n \in Nat /\ added \in Nat /\ j \in Nat /\ j <= n /\ added + 1 + n <= MaxPending
      BY <1>4, <1>6, <2>3
    <3> HIDE DEF n
    <3> QED
      BY <2>1, <3>1
  <2>6. Phys(start + added + j) = At(Length + j)
    BY <1>1, <2>3, <2>5, CellBehind
  <2>7. Pending'[added + i] = mem'[Phys(start' + (added + i) - 1)]
    BY <2>4 DEF Pending
  <2>8. (Pending \o r)[added + i] = r[i]
    <3>1. Len(Pending) = added
      BY <1>1, WrittenIs
    <3> QED
      BY <1>5, <1>6, <3>1, Extended
  <2> QED
    BY <1>2, <1>3, <2>3, <2>6, <2>7, <2>8
<1>12. AtLogEnd' /\ clock <= clock'
  BY <1>1, <1>3 DEF AtLogEnd
<1>13. Len(r) # 0
  BY <1>4, <1>5
<1> QED
  BY <1>1, <1>3, <1>5, <1>7, <1>8, <1>9, <1>10, <1>11, <1>12, <1>13 DEF Wrote, r

-----------------------------------------------------------------------------
\* What is in the log and in the ring, whoever reads it.
RecordsInv ==
  /\ RecordsOf(Written) /\ Before(Written, clock + 1)
  /\ event # NoEvent => Before(Written, clock) /\ 0 < clock
  /\ EndsAt(Written, Len(history))

RingInv == AtLogEnd /\ HoldsNewest(mem, Written, Full) /\ LooksOld(mem, Written)

LEMMA BeforeLater ==
  ASSUME NEW w \in Seq(Slot), NEW a \in Nat, NEW b \in Nat, a <= b, Before(w, a)
  PROVE  Before(w, b)
<1>1. ASSUME NEW k \in 1..Len(w), w[k].body = 0
      PROVE  w[k].tick < b
  <2>1. w[k] \in Slot
    BY ElementOfSeq
  <2>2. w[k].tick \in Nat /\ w[k].tick < a
    BY <1>1, <2>1 DEF Slot, Before
  <2> QED
    BY <2>2
<1> QED
  BY <1>1 DEF Before

\* What was written stays where it is, and records end where they ended.
Grown ==
  /\ Written' \in Seq(Slot) /\ Length \in Nat /\ Length' \in Nat /\ Length <= Length'
  /\ \A k \in 1..Length : Written'[k] = Written[k]
  /\ \A k : EndsAt(Written, k) => EndsAt(Written', k)

LEMMA WroteGrows ==
  ASSUME Followed, FlowInv, NEW r, Wrote(r)
  PROVE  Grown /\ Length' = Length + Len(r) /\ (r = <<>> => Written' = Written)
<1> DEFINE w == Written
<1>1. w \in Seq(Slot) /\ Length = Len(w) /\ Length \in Nat
  BY WrittenIs DEF Followed, Length
<1>2. r \in Seq(Slot) /\ Written' = w \o r /\ (r = <<>> \/ IsRecord(r, clock'))
  BY DEF Wrote
<1> HIDE DEF w
<1>3. /\ w \o r \in Seq(Slot) /\ Len(w \o r) = Len(w) + Len(r) /\ Len(r) \in Nat
      /\ \A k \in 1..Len(w) : (w \o r)[k] = w[k]
  BY <1>1, <1>2, Extended
<1>4. r = <<>> => w \o r = w
  BY <1>1, NoSlots
<1>5. ASSUME NEW k, EndsAt(w, k)
      PROVE  EndsAt(w \o r, k)
  BY <1>1, <1>2, <1>4, <1>5, EndsStay
<1>6. Length' = Length + Len(r)
  BY <1>1, <1>2, <1>3 DEF Length
<1> QED
  BY <1>1, <1>2, <1>3, <1>4, <1>5, <1>6 DEF Grown, w

LEMMA FullAfter ==
  ASSUME Followed, FlowInv, NEW r, Wrote(r), r # <<>>
  PROVE  Full' = Length + Len(r) /\ Len(r) \in Nat
<1> DEFINE w == Written
<1>1. w \in Seq(Slot) /\ Length = Len(w) /\ r \in Seq(Slot) /\ Written' = w \o r /\ event' = NoEvent
  BY WrittenIs DEF Followed, Length, Wrote
<1> HIDE DEF w
<1>2. w \o r \in Seq(Slot) /\ Len(w \o r) = Len(w) + Len(r) /\ Len(r) \in Nat
  BY <1>1, Extended
<1>3. WrittenInFull' = w \o r
  BY <1>1, <1>2, NoSlots DEF WrittenInFull
<1> QED
  BY <1>1, <1>2, <1>3 DEF Full

LEMMA RecordsNext ==
  ASSUME Followed, FlowInv, FlowInv', RecordsInv, NEW r, Wrote(r)
  PROVE  RecordsInv'
<1> DEFINE w == Written
           c == clock'
           h == Len(history')
<1>1. w \in Seq(Slot) /\ Length = Len(w) /\ Length \in Nat /\ clock \in Nat /\ c \in Nat /\ h \in Nat
  <2>1. history' \in Seq(Slot) /\ clock \in Nat /\ c \in Nat
    BY DEF FlowInv, RecorderInv, TypeOK
  <2> QED
    BY <2>1, WrittenIs DEF Followed, Length
<1>2. /\ r \in Seq(Slot) /\ Written' = w \o r /\ (r = <<>> \/ (event' = NoEvent /\ IsRecord(r, c)))
      /\ clock <= c /\ (r # <<>> \/ event' # NoEvent => event # NoEvent \/ clock < c)
      /\ h \in {Len(history), Length, Length + Len(r)}
  BY DEF Wrote
<1>3. /\ RecordsOf(w) /\ Before(w, clock + 1) /\ EndsAt(w, Len(history))
      /\ event # NoEvent => Before(w, clock) /\ 0 < clock
  BY DEF RecordsInv
<1>4. Written' = w \o r /\ (\A k : EndsAt(w, k) => EndsAt(w \o r, k)) /\ (r = <<>> => w \o r = w)
  BY <1>2, WroteGrows DEF Grown
<1> HIDE DEF w, c, h
<1>5. Before(w, c + 1)
  <2> DEFINE a == clock + 1
             b == c + 1
  <2>1. a \in Nat /\ b \in Nat /\ a <= b /\ Before(w, a)
    BY <1>1, <1>2, <1>3
  <2> HIDE DEF a, b
  <2>2. Before(w, b)
    BY <1>1, <2>1, BeforeLater
  <2> QED
    BY <2>2 DEF b
<1>6. r # <<>> \/ event' # NoEvent => Before(w, c) /\ 0 < c
  <2>1. CASE event # NoEvent
    <3>1. Before(w, clock) /\ 0 < clock
      BY <1>3, <2>1
    <3> QED
      BY <1>1, <1>2, <3>1, BeforeLater
  <2>2. CASE clock < c
    <3> DEFINE a == clock + 1
    <3>1. a \in Nat /\ a <= c /\ Before(w, a) /\ 0 < c
      BY <1>1, <1>3, <2>2
    <3> HIDE DEF a
    <3> QED
      BY <1>1, <3>1, BeforeLater
  <2> QED
    BY <1>2, <2>1, <2>2
<1>7. EndsAt(w, Length)
  BY <1>1 DEF EndsAt
<1>8. CASE r = <<>>
  <2>1. h \in {Len(history), Length} /\ w \o r = w
    <3>1. Len(r) = 0
      BY <1>8
    <3> QED
      BY <1>1, <1>2, <1>4, <1>8, <3>1
  <2>2. EndsAt(w, h)
    BY <1>3, <1>7, <2>1
  <2> QED
    BY <1>2, <1>3, <1>5, <1>6, <2>1, <2>2 DEF RecordsInv, c, h
<1>9. CASE r # <<>>
  <2>1. /\ RecordsOf(w \o r) /\ Before(w \o r, c + 1)
        /\ EndsAt(w \o r, Len(w)) /\ EndsAt(w \o r, Len(w \o r))
    BY <1>1, <1>2, <1>3, <1>6, <1>9, RecordsExtended
  <2>2. Len(w \o r) = Length + Len(r)
    BY <1>1, <1>2, Extended
  <2>3. EndsAt(w \o r, h)
    BY <1>1, <1>2, <1>3, <1>4, <2>1, <2>2
  <2> QED
    BY <1>2, <1>9, <2>1, <2>3 DEF RecordsInv, c, h
<1> QED
  BY <1>8, <1>9

LEMMA RingNext ==
  ASSUME Followed, FlowInv, FlowInv', RingInv, NEW r, Wrote(r)
  PROVE  RingInv'
<1> DEFINE w == Written
           m2 == mem'
           full == Full
           full2 == Full'
<1>1. /\ w \in Seq(Slot) /\ Length = Len(w) /\ full \in Nat /\ Len(w) <= full
  BY WrittenIs, FullIs DEF Followed, Length
<1>2. /\ r \in Seq(Slot) /\ Written' = w \o r /\ full <= full2 /\ full2 <= Len(w) + Capacity
      /\ TouchesBehind(mem, m2, w, full2 - Len(w))
      /\ \A i \in 1..Len(r) : m2[At(Len(w) + i - 1)] = r[i]
      /\ \A p \in Addresses : p # At(Len(w)) \/ Len(r) = 0 => m2[p].tick \in {mem[p].tick, 0}
      /\ r = <<>> \/ event' = NoEvent
      /\ AtLogEnd'
  BY <1>1 DEF Wrote
<1>3. HoldsNewest(mem, w, full) /\ LooksOld(mem, w)
  BY DEF RingInv
<1>4. Len(r) = 0 \/ (full2 = Len(w) + Len(r))
  <2>1. r = <<>> => Len(r) = 0
    OBVIOUS
  <2> QED
    BY <1>1, <2>1, FullAfter
<1>5. full2 \in Nat
  <2> DEFINE v == Written'
             e == event'
  <2>1. v \in Seq(Slot) /\ e \in {NoEvent} \cup EventInProgress
    BY WroteGrows DEF Grown, FlowInv, RecorderInv, TypeOK
  <2>2. full2 = Len(WithEvent(v, e))
    BY DEF Full, WrittenInFull, WithEvent
  <2> HIDE DEF v, e, full2
  <2> QED
    BY <2>1, <2>2, WithEventIs
<1> HIDE DEF w, m2, full, full2
<1>6. HoldsNewest(m2, w \o r, full2) /\ LooksOld(m2, w \o r)
  BY <1>1, <1>2, <1>3, <1>4, <1>5, RingExtended
<1> QED
  BY <1>2, <1>6 DEF RingInv, m2, full2

-----------------------------------------------------------------------------
\* Cell 0 of the ring holds the header of a record, whenever a server may start.
StartsAnywhere == OnlyPlain \/ Full <= Capacity

\* A step of the program overwrites nothing that a running server still needs, and
\* leaves the ring so that the first server can start.
Fitting ==
  /\ pc # "absent" => Full' = Full \/ Full' <= base + Len(out) + Capacity
  /\ pc = "absent" /\ base = 0 /\ out = <<>> /\ StartsAnywhere => StartsAnywhere'

LEMMA PlainFits ==
  ASSUME Followed, FlowInv, Fits(1), NEW t \in Nat, NEW c \in Categories, Wrote(<<Plain(t, c)>>)
  PROVE  Fitting
<1> DEFINE p == Plain(t, c)
           r == <<p>>
<1>1. Len(r) = 1 /\ r[1] = p /\ r # <<>> /\ p.ext = 0 /\ p.body = 0 /\ r \in Seq(Slot)
  BY PlainRecord DEF Plain
<1> HIDE DEF p, r
<1>2. Wrote(r) /\ Full' = Length + 1
  BY <1>1, FullAfter DEF r, p
<1>3. event' = NoEvent /\ Written' = Written \o r
  BY <1>1, <1>2 DEF Wrote
<1>4. CASE Len(Written) + 1 <= base + Len(out) + Capacity
  <2>1. Full' <= base + Len(out) + Capacity
    BY <1>2, <1>4 DEF Length
  <2>2. base = 0 /\ out = <<>> => Full' <= Capacity
    <3>1. Len(<<>>) = 0 /\ Capacity \in Nat
      BY CapacityAssumption
    <3> QED
      BY <2>1, <3>1
  <2> QED
    BY <2>1, <2>2 DEF Fitting, StartsAnywhere
<1>5. CASE pc = "absent" /\ OnlyPlain
  <2> DEFINE w == Written
  <2>1. w \in Seq(Slot) /\ \A i \in 1..Len(w) : w[i].ext + w[i].body = 0
    BY <1>5, WrittenIs DEF OnlyPlain, Followed
  <2> HIDE DEF w
  <2>2. /\ Len(w \o r) = Len(w) + 1 /\ Len(w) \in Nat
        /\ \A i \in 1..Len(w) : (w \o r)[i] = w[i]
        /\ (w \o r)[Len(w) + 1] = p
    BY <1>1, <2>1, Extended
  <2>3. ASSUME NEW i \in 1..Len(w \o r)
        PROVE  (w \o r)[i].ext + (w \o r)[i].body = 0
    <3>1. i \in 1..Len(w) \/ i = Len(w) + 1
      BY <2>2
    <3> QED
      BY <1>1, <2>1, <2>2, <3>1
  <2> QED
    BY <1>3, <1>5, <2>3 DEF Fitting, StartsAnywhere, OnlyPlain, w
<1> QED
  BY <1>4, <1>5 DEF Fits, Followed

LEMMA SameFits ==
  ASSUME Full' = Full, event # NoEvent \/ (event' = NoEvent /\ Written' = Written)
  PROVE  Fitting
  BY DEF Fitting, StartsAnywhere, OnlyPlain

\* Every step of the program writes one record or nothing.
LEMMA ProgramWrites ==
  ASSUME Followed, FlowInv, FlowInv', ContentInv, AtLogEnd, Program \/ Construct
  PROVE  \E r : Wrote(r) /\ Fitting
<1>1. ASSUME NEW t \in NextTicks, NEW c \in Categories, Fits(1), Add(t, c), UNCHANGED history
      PROVE  \E r : Wrote(r) /\ Fitting
  <2>1. t \in Nat
    BY NextTicksLater
  <2>2. Wrote(<<Plain(t, c)>>)
    BY <1>1, AddWrites
  <2> QED
    BY <1>1, <2>1, <2>2, PlainFits
<1>2. ASSUME NEW t \in NextTicks, NEW c \in Categories, Fits(1), Start(t, c),
             history' = history \o Committed(Pending)
      PROVE  \E r : Wrote(r) /\ Fitting
  <2>1. t \in Nat
    BY NextTicksLater
  <2>2. Wrote(<<Plain(t, c)>>)
    BY <1>2, StartWrites
  <2> QED
    BY <1>2, <2>1, <2>2, PlainFits
<1>3. ASSUME NEW t \in NextTicks, NEW c \in Categories, Fits(1), End(t, c),
             history' = history \o Committed(Append(Pending, Plain(t, c)))
      PROVE  \E r : Wrote(r) /\ Fitting
  <2>1. t \in Nat
    BY NextTicksLater
  <2>2. Wrote(<<Plain(t, c)>>)
    BY <1>3, EndWrites
  <2> QED
    BY <1>3, <2>1, <2>2, PlainFits
<1>4. ASSUME NEW t \in NextTicks, NEW kind \in EventKinds, NEW order \in StoreOrders,
             Fits(1 + kind.stored), AddEvent(t, kind, order), UNCHANGED history
      PROVE  \E r : Wrote(r) /\ Fitting
  <2>1. /\ Wrote(<<>>) /\ Full' = Length + 1 + kind.stored /\ kind.stored \in Nat
        /\ Length \in Nat
    BY <1>4, AddEventWrites, WrittenIs DEF Followed
  <2> DEFINE n == kind.stored
  <2>2. n > 0 /\ n \in Nat /\ Full' = Length + 1 + n /\ 1 + n # 1
    BY <2>1 DEF Followed
  <2>3. Length + (1 + n) <= base + Len(out) + Capacity
    BY <1>4, <2>2 DEF Fits, Length
  <2> HIDE DEF n
  <2>4. Full' <= base + Len(out) + Capacity
    BY <2>1, <2>2, <2>3
  <2>5. base = 0 /\ out = <<>> => Full' <= Capacity
    <3>1. Len(<<>>) = 0 /\ Capacity \in Nat
      BY CapacityAssumption
    <3> QED
      BY <2>4, <3>1
  <2>6. Fitting
    BY <2>4, <2>5 DEF Fitting, StartsAnywhere
  <2> QED
    BY <2>1, <2>6
<1>5. ASSUME Commit, history' = history \o Committed(Pending)
      PROVE  \E r : Wrote(r) /\ Fitting
  <2>1. Wrote(<<>>)
    BY <1>5, CommitWrites
  <2>2. Written' = Written /\ event' = NoEvent /\ event = NoEvent
    BY <1>5, <2>1, WroteGrows DEF Commit, Recording
  <2>3. Full' = Full
    BY <2>2 DEF Full, WrittenInFull
  <2> QED
    BY <2>1, <2>2, <2>3, SameFits
<1>6. ASSUME Construct
      PROVE  \E r : Wrote(r) /\ Fitting
  <2>1. StoreEvent /\ history' = history /\ event # NoEvent
    BY <1>6 DEF Construct, StoreEvent
  <2>2. CASE event.stage < 3
    <3>1. Wrote(<<>>) /\ Full' = Full
      BY <2>1, <2>2, StoreEventHiddenWrites
    <3> QED
      BY <2>1, <3>1, SameFits
  <2>3. CASE ~(event.stage < 3)
    <3>1. Wrote(EventRecord(event)) /\ Full' = Full
      BY <2>1, <2>3, StoreEventDoneWrites
    <3> QED
      BY <2>1, <3>1, SameFits
  <2> QED
    BY <2>2, <2>3
<1>7. ~Discards
  BY DEF Followed
<1> QED
  BY <1>1, <1>2, <1>3, <1>4, <1>5, <1>6, <1>7 DEF Program

-----------------------------------------------------------------------------
\* How many slots have been written when the one was that the server looks at.
Position == base + Len(out) + slots

\* run_last_tick is the tick of the record that ends where the server looks.
LastSeen ==
  IF base = Position THEN runLast = 0
  ELSE \E k \in (base + 1)..Position :
         Written[k].body = 0 /\ runLast = Written[k].tick /\ k + Written[k].ext = Position

\* The server is between two records of the log, no lap behind the program.
Following ==
  /\ Full <= base + Len(out) + Capacity
  /\ nextIndex = At(base + Len(out))
  /\ EndsAt(Written, Position) /\ EndsAt(Written, owed)
  /\ base < Length \/ base = 0
  /\ owed <= base + Capacity
  /\ \A i \in 1..Len(out) : out[i] = Written[base + i]
  /\ LastSeen
  /\ slots = 0 => runLast = lastTick
  /\ pc = "fence" => Position < Length
  /\ pc = "copy" => Position >= owed
  /\ pc = "done" => slots = 0 /\ Position >= owed

\* The inductive invariant behind OutputIsSegment.
ServerInv ==
  /\ file = "whole"
  /\ pc = "absent" => base = 0 /\ out = <<>> /\ slots = 0 /\ StartsAnywhere
  /\ pc # "absent" => Following

LEMMA ServerNumbers ==
  ASSUME FlowInv
  PROVE  /\ base \in Nat /\ owed \in Nat /\ Len(out) \in Nat /\ slots \in Nat /\ slots <= Capacity
         /\ Position \in Nat /\ Position = base + Len(out) + slots
         /\ base + Len(out) \in Nat /\ base + Len(out) <= Position
         /\ Capacity \in Nat /\ Capacity > 1 /\ runLast \in Nat /\ lastTick \in Nat
         /\ base <= Position
<1>1. base \in Nat /\ owed \in Nat /\ Len(out) \in Nat /\ slots \in Nat /\ slots <= Capacity
      /\ Capacity \in Nat /\ Capacity > 1 /\ runLast \in Nat /\ lastTick \in Nat
  BY CapacityAssumption DEF FlowInv
<1> QED
  BY <1>1 DEF Position

\* What the program writes does not concern the records the server has passed.
LEMMA ServerOnProgram ==
  ASSUME Followed, FlowInv, FlowInv', ServerInv, Program \/ Construct, NEW r, Wrote(r), Fitting
  PROVE  ServerInv'
<1>1. UNCHANGED serverVars /\ UNCHANGED fileVars
  BY DEF Program, Construct, Mapped
<1>2. /\ pc' = pc /\ nextIndex' = nextIndex /\ lastTick' = lastTick /\ slots' = slots
      /\ runLast' = runLast /\ out' = out /\ base' = base /\ owed' = owed /\ file' = file
  BY <1>1 DEF serverVars, fileVars
<1>3. CASE pc = "absent"
  BY <1>2, <1>3 DEF ServerInv, Fitting
<1>4. CASE pc # "absent"
  <2>1. Grown /\ Following
    BY <1>4, WroteGrows DEF ServerInv
  <2>2. Position' = Position
    BY <1>2 DEF Position
  <2>3. /\ base \in Nat /\ Len(out) \in Nat /\ slots \in Nat /\ Position = base + Len(out) + slots
        /\ base <= Position /\ Position \in Nat
    BY ServerNumbers
  <2>4. Position <= Length /\ Length \in Nat /\ Length' \in Nat /\ Length <= Length'
    BY <2>1, <2>3 DEF Following, EndsAt, Grown, Length
  <2>5. Full' <= base + Len(out) + Capacity
    BY <1>4, <2>1 DEF Fitting, Following
  <2>6. EndsAt(Written', Position) /\ EndsAt(Written', owed)
    BY <2>1 DEF Following, Grown
  <2>7. base < Length' \/ base = 0
    BY <2>1, <2>3, <2>4 DEF Following
  <2>8. \A i \in 1..Len(out) : out[i] = Written'[base + i]
    <3>1. \A i \in 1..Len(out) : base + i \in 1..Length
      BY <2>3, <2>4
    <3> QED
      BY <2>1, <3>1 DEF Following, Grown
  <2>9. LastSeen'
    <3>1. CASE base = Position
      BY <1>2, <2>1, <2>2, <3>1 DEF LastSeen, Following
    <3>2. CASE base # Position
      <4>1. PICK k \in (base + 1)..Position :
              Written[k].body = 0 /\ runLast = Written[k].tick /\ k + Written[k].ext = Position
        BY <2>1, <3>2 DEF LastSeen, Following
      <4>2. k \in 1..Length
        BY <2>3, <2>4
      <4>3. Written'[k] = Written[k]
        BY <2>1, <4>2 DEF Grown
      <4> QED
        BY <1>2, <2>2, <3>2, <4>1, <4>3 DEF LastSeen
    <3> QED
      BY <3>1, <3>2
  <2>10. pc = "fence" => Position < Length'
    BY <2>1, <2>3, <2>4 DEF Following
  <2>11. Following'
    BY <1>2, <2>1, <2>2, <2>5, <2>6, <2>7, <2>8, <2>9, <2>10 DEF Following
  <2> QED
    BY <1>2, <1>4, <2>11 DEF ServerInv
<1> QED
  BY <1>3, <1>4

\* What the server finds: the header of the next record, which is newer than the one
\* before it, or, at the end of the log, nothing newer.
LEMMA Finds ==
  ASSUME Followed, FlowInv, RecordsInv, RingInv, Following, slots < Capacity
  PROVE  /\ Position <= Length /\ Length \in Nat /\ owed <= Length
         /\ Position < Length =>
              /\ Looked = Written[Position + 1] /\ Looked.body = 0 /\ Looked \in Slot
              /\ IsNew(Looked)
              /\ EndsAt(Written, Position + 1 + Looked.ext)
              /\ slots + 1 + Looked.ext <= Capacity
         /\ Position = Length => ~IsNew(Looked)
<1>1. /\ base \in Nat /\ Len(out) \in Nat /\ slots \in Nat /\ Position = base + Len(out) + slots
      /\ base <= Position /\ Position \in Nat /\ base + Len(out) \in Nat
      /\ Capacity \in Nat /\ Capacity > 1 /\ runLast \in Nat /\ owed \in Nat
  BY ServerNumbers
<1>2. /\ Written \in Seq(Slot) /\ Length = Len(Written) /\ Length \in Nat
      /\ Full \in Nat /\ Length <= Full
  BY WrittenIs, FullIs DEF Followed, Length
<1>3. Position <= Length /\ owed <= Length
  BY <1>1, <1>2 DEF Following, EndsAt
<1>4. Looked = mem[At(Position)] /\ Looked \in Slot
  <2> DEFINE b == base + Len(out)
  <2>1. b \in Nat /\ slots \in 0..Capacity /\ nextIndex = At(b) /\ Position = b + slots
    BY <1>1 DEF Following
  <2> HIDE DEF b
  <2>2. At(b + slots) = Phys(At(b) + slots)
    BY <2>1, AtPhys
  <2> QED
    BY <2>1, <2>2, LookedIsSlot DEF Looked
<1>5. Full <= base + Len(out) + Capacity /\ Full <= Position + Capacity
  BY <1>1, <1>2 DEF Following
<1>6. RecordsOf(Written) /\ HoldsNewest(mem, Written, Full) /\ LooksOld(mem, Written)
  BY DEF RecordsInv, RingInv
<1> DEFINE w == Written
<1>7. w \in Seq(Slot) /\ Length = Len(w)
  BY <1>2
<1>8. LastSeen /\ (base < Length \/ base = 0) /\ EndsAt(w, Position)
  BY DEF Following
<1>9. base # Position =>
        \E k \in (base + 1)..Position :
           w[k].body = 0 /\ runLast = w[k].tick /\ k + w[k].ext = Position
  BY <1>8 DEF LastSeen
<1>10. base = Position => runLast = 0
  BY <1>8 DEF LastSeen
<1>11. /\ RecordsOf(w) /\ HoldsNewest(mem, w, Full) /\ LooksOld(mem, w)
  BY <1>6
<1> HIDE DEF w
<1>12. ASSUME Position < Length
       PROVE  /\ Looked = w[Position + 1] /\ Looked.body = 0
              /\ IsNew(Looked)
              /\ EndsAt(w, Position + 1 + Looked.ext)
              /\ slots + 1 + Looked.ext <= Capacity
  <2> DEFINE p == Position + 1
  <2>1. p \in 1..Len(w) /\ p > Full - Capacity /\ p - 1 = Position /\ p \in Nat
        /\ p = Position + 1
    BY <1>1, <1>2, <1>5, <1>7, <1>12
  <2>2. w[p].body = 0
    BY <1>7, <1>8, <1>12 DEF EndsAt
  <2> HIDE DEF p
  <2>3. Looked = w[p]
    BY <1>4, <1>11, <2>1 DEF HoldsNewest
  <2>4. /\ 0 < w[p].tick /\ \A j \in 1..(p - 1) : w[j].body = 0 => w[j].tick < w[p].tick
        /\ EndsAt(w, p + w[p].ext)
    BY <1>11, <2>1, <2>2 DEF RecordsOf
  <2>5. runLast < w[p].tick
    <3>1. CASE base = Position
      BY <1>10, <2>4, <3>1
    <3>2. CASE base # Position
      <4>1. PICK k \in (base + 1)..Position : w[k].body = 0 /\ runLast = w[k].tick
        BY <1>9, <3>2
      <4>2. k \in 1..(p - 1)
        BY <1>1, <2>1
      <4> QED
        BY <2>4, <4>1, <4>2
    <3> QED
      BY <3>1, <3>2
  <2>6. IsNew(Looked)
    <3>1. Looked.tick \in Nat /\ Looked.tick # 0
      BY <1>4, <2>3, <2>4 DEF Slot
    <3>2. Looked # Empty
      BY <3>1 DEF Empty
    <3> QED
      BY <1>1, <2>3, <2>5, <3>1, <3>2 DEF IsNew, IsEmpty
  <2>7. slots + 1 + Looked.ext <= Capacity
    <3> DEFINE x == Looked.ext
    <3>1. x \in Nat /\ p + x <= Length
      <4>1. x \in Nat
        BY <1>4 DEF Slot
      <4> QED
        BY <1>7, <2>3, <2>4, <4>1 DEF EndsAt
    <3> HIDE DEF x
    <3> QED
      <4>1. slots + 1 + x <= Capacity
        BY <1>1, <1>2, <1>5, <2>1, <3>1
      <4> QED
        BY <4>1 DEF x
  <2> QED
    BY <2>1, <2>2, <2>3, <2>4, <2>6, <2>7 DEF p
<1>13. ASSUME Position = Length
       PROVE  ~IsNew(Looked)
  <2>1. Looked.tick \in Nat
    BY <1>4 DEF Slot
  <2>2. SUFFICES Looked.tick <= runLast
    BY <1>1, <2>1 DEF IsNew
  <2>3. CASE Length < Capacity
    <3>1. Length \in Addresses
      BY <1>1, <1>2, <2>3 DEF Addresses
    <3>2. Looked.tick = 0
      BY <1>2, <1>4, <1>7, <1>11, <1>13, <3>1, AtSmall DEF LooksOld
    <3> QED
      BY <1>1, <3>2
  <2>4. CASE ~(Length < Capacity)
    <3> DEFINE h == Length - Capacity + 1
    <3>1. h \in 1..Len(w) /\ Length >= Capacity /\ h \in Nat
      BY <1>1, <1>2, <1>7, <2>4
    <3>2. Looked.tick \in {0, w[h].tick}
      BY <1>4, <1>7, <1>11, <1>13, <3>1 DEF LooksOld
    <3> HIDE DEF h
    <3>3. base # Position
      BY <1>1, <1>2, <1>8, <1>13, <3>1
    <3>4. PICK k \in (base + 1)..Position :
            w[k].body = 0 /\ runLast = w[k].tick /\ k + w[k].ext = Position
      BY <1>9, <3>3
    <3>5. k \in 1..Len(w) /\ k \in Nat
      BY <1>1, <1>7, <1>13
    <3>6. /\ \A j \in 1..(k - 1) : w[j].body = 0 => w[j].tick < w[k].tick
          /\ \A j \in (k + 1)..Position : w[j].body # 0
      BY <1>11, <3>4, <3>5 DEF RecordsOf
    <3>7. CASE w[h].body # 0
      <4>1. w[h].tick = 0
        BY <1>11, <3>1, <3>7 DEF RecordsOf
      <4> QED
        BY <1>1, <3>2, <4>1
    <3>8. CASE w[h].body = 0
      <4>1. h \in 1..(k - 1) \/ h = k \/ h \in (k + 1)..Position
        BY <1>2, <1>7, <1>13, <3>1, <3>5
      <4>2. w[h].tick <= runLast
        <5>1. w[h].tick \in Nat
          <6>1. w[h] \in Slot
            BY <1>7, <3>1, ElementOfSeq
          <6> QED
            BY <6>1 DEF Slot
        <5>2. h = k => w[h].tick = runLast
          BY <3>4
        <5>3. h \in 1..(k - 1) => w[h].tick < runLast
          BY <3>4, <3>6, <3>8
        <5> QED
          BY <1>1, <3>6, <3>8, <4>1, <5>1, <5>2, <5>3
      <4> QED
        BY <1>1, <3>2, <4>2
    <3> QED
      BY <3>7, <3>8
  <2> QED
    BY <2>3, <2>4
<1> QED
  BY <1>2, <1>3, <1>4, <1>12, <1>13 DEF w

\* A step of the server leaves the program, its ring and its log alone.
LEMMA ProgramStays ==
  ASSUME UNCHANGED vars, UNCHANGED history
  PROVE  /\ Written' = Written /\ Length' = Length /\ Full' = Full /\ mem' = mem
         /\ clock' = clock /\ event' = event /\ (OnlyPlain' <=> OnlyPlain)
<1>1. UNCHANGED <<mem, start, added, event, clock>>
  BY DEF vars
<1>2. Pending' = Pending
  BY <1>1 DEF Pending
<1>3. Written' = Written
  BY <1>2 DEF Written
<1> QED
  BY <1>1, <1>3 DEF Length, Full, WrittenInFull, OnlyPlain

LEMMA LogStays ==
  ASSUME UNCHANGED vars, UNCHANGED history, RecordsInv, RingInv
  PROVE  RecordsInv' /\ RingInv'
<1>1. /\ Written' = Written /\ Full' = Full /\ mem' = mem /\ clock' = clock /\ event' = event
  BY ProgramStays
<1>2. start' = start /\ history' = history
  BY DEF vars
<1>3. RecordsInv'
  BY <1>1, <1>2 DEF RecordsInv
<1>4. RingInv'
  BY <1>1, <1>2 DEF RingInv, AtLogEnd
<1> QED
  BY <1>3, <1>4

\* The server is where it was.
LEMMA FollowingStays ==
  ASSUME Following, Written' = Written, Length' = Length, Full' = Full,
         UNCHANGED <<base, out, slots, nextIndex, owed, runLast, lastTick>>,
         pc' = "fence" => Position < Length,
         pc' = "copy" => Position >= owed,
         pc' = "done" => slots = 0 /\ Position >= owed
  PROVE  Following'
<1>1. Position' = Position
  BY DEF Position
<1>2. LastSeen'
  BY <1>1 DEF LastSeen, Following
<1> QED
  BY <1>1, <1>2 DEF Following

LEMMA LookFollows ==
  ASSUME Followed, FlowInv, RecordsInv, RingInv, Following, Look
  PROVE  Following'
<1>1. UNCHANGED vars /\ UNCHANGED <<mode, nextIndex, lastTick, out, history, base, owed>>
  BY DEF Look
<1>2. Written' = Written /\ Length' = Length /\ Full' = Full
  BY <1>1, ProgramStays
<1>3. /\ base \in Nat /\ Len(out) \in Nat /\ slots \in Nat /\ Position = base + Len(out) + slots
      /\ Position \in Nat /\ slots <= Capacity /\ Capacity \in Nat /\ owed \in Nat
  BY ServerNumbers
<1>4. slots < Capacity =>
        /\ Position <= Length /\ Length \in Nat /\ owed <= Length
        /\ IsNew(Looked) => Position < Length
        /\ ~IsNew(Looked) => Position = Length
  BY <1>3, Finds
<1>5. CASE slots < Capacity /\ IsNew(Looked)
  <2>1. pc' = "fence" /\ UNCHANGED <<slots, runLast>>
    BY <1>5 DEF Look
  <2>2. Position < Length
    BY <1>4, <1>5
  <2> QED
    BY <1>1, <1>2, <2>1, <2>2, FollowingStays
<1>6. CASE ~(slots < Capacity /\ IsNew(Looked))
  <2>1. EndRun
    BY <1>6 DEF Look
  <2>2. Position >= owed
    <3>1. CASE slots < Capacity
      <4>1. Position = Length /\ owed <= Length
        BY <1>4, <1>6, <3>1
      <4> QED
        BY <1>3, <4>1
    <3>2. CASE ~(slots < Capacity)
      <4>1. slots = Capacity /\ owed <= base + Capacity
        BY <1>3, <3>2 DEF Following
      <4> QED
        BY <1>3, <4>1
    <3> QED
      BY <3>1, <3>2
  <2>3. runLast' = runLast /\ slots' = slots
    BY <2>1 DEF EndRun, Following
  <2>4. (slots = 0 /\ pc' \in {"done", "scan"}) \/ pc' = "copy"
    BY <2>1 DEF EndRun, EndPass
  <2> QED
    BY <1>1, <1>2, <2>2, <2>3, <2>4, FollowingStays
<1> QED
  BY <1>5, <1>6

LEMMA MeasureFollows ==
  ASSUME Followed, FlowInv, RecordsInv, RingInv, Following, Measure
  PROVE  Following'
<1>1. /\ UNCHANGED vars /\ UNCHANGED <<mode, nextIndex, lastTick, out, history, base, owed>>
      /\ pc = "fence" /\ slots < Capacity
  BY DEF Measure, FlowInv
<1>2. Written' = Written /\ Length' = Length /\ Full' = Full
  BY <1>1, ProgramStays
<1>3. /\ base \in Nat /\ Len(out) \in Nat /\ slots \in Nat /\ Position = base + Len(out) + slots
      /\ Position \in Nat /\ slots <= Capacity /\ Capacity \in Nat /\ owed \in Nat
      /\ base <= Position
  BY ServerNumbers
<1>4. Position < Length
  BY <1>1 DEF Following
<1>5. /\ Looked = Written[Position + 1] /\ Looked.body = 0 /\ Looked \in Slot
      /\ EndsAt(Written, Position + 1 + Looked.ext)
      /\ slots + 1 + Looked.ext <= Capacity
  BY <1>1, <1>4, Finds
<1> DEFINE n == CheckPointSlots(Looked)
<1>6. /\ n = 1 + Looked.ext /\ n \in Nat /\ n > 0
      /\ slots + n <= Capacity /\ Position + 1 + Looked.ext = Position + n
  <2> DEFINE x == Looked.ext
  <2>1. x \in Nat /\ slots + 1 + x <= Capacity /\ n = 1 + x
    BY <1>5 DEF Slot, CheckPointSlots
  <2> HIDE DEF x, n
  <2> QED
    <3>1. n \in Nat /\ n > 0 /\ slots + n <= Capacity /\ Position + 1 + x = Position + n
      BY <1>3, <2>1
    <3> QED
      BY <2>1, <3>1 DEF x
<1> HIDE DEF n
<1>7. slots' = slots + n /\ runLast' = Looked.tick /\ pc' = "scan"
  <2>1. ~(n > Capacity) /\ ~(slots + n > Capacity)
    BY <1>3, <1>6
  <2> QED
    BY <2>1 DEF Measure, n
<1>8. Position' = Position + n
  BY <1>1, <1>3, <1>6, <1>7 DEF Position
<1>9. EndsAt(Written', Position')
  BY <1>2, <1>5, <1>6, <1>8
<1>10. LastSeen'
  <2> DEFINE k == Position + 1
  <2>1. k \in (base' + 1)..Position' /\ base' # Position' /\ k \in Nat
    BY <1>1, <1>3, <1>6, <1>8
  <2>2. k + Looked.ext = Position'
    BY <1>6, <1>8
  <2>3. Written'[k] = Looked
    BY <1>2, <1>5
  <2> HIDE DEF k
  <2>4. Written'[k].body = 0 /\ runLast' = Written'[k].tick /\ k + Written'[k].ext = Position'
    BY <1>5, <1>7, <2>2, <2>3
  <2> QED
    BY <2>1, <2>4 DEF LastSeen
<1>11. slots' # 0
  BY <1>3, <1>6, <1>7
<1> QED
  BY <1>1, <1>2, <1>7, <1>9, <1>10, <1>11 DEF Following

LEMMA CopyFollows ==
  ASSUME Followed, FlowInv, RecordsInv, RingInv, Following, Copy
  PROVE  Following'
<1>1. /\ UNCHANGED vars /\ UNCHANGED <<mode, runLast, history, base, owed>>
      /\ out' = out \o Run /\ nextIndex' = NextIndex /\ lastTick' = runLast /\ slots' = 0
      /\ pc = "copy" /\ pc' \in {"done", "scan"}
  BY DEF Copy, EndPass
<1>2. Written' = Written /\ Length' = Length /\ Full' = Full
  BY <1>1, ProgramStays
<1>3. /\ base \in Nat /\ Len(out) \in Nat /\ slots \in Nat /\ Position = base + Len(out) + slots
      /\ Position \in Nat /\ slots <= Capacity /\ Capacity \in Nat /\ owed \in Nat
      /\ base <= Position /\ Capacity > 1
  BY ServerNumbers
<1>4. /\ Written \in Seq(Slot) /\ Length = Len(Written) /\ Length \in Nat
      /\ Full \in Nat /\ Length <= Full
  BY WrittenIs, FullIs DEF Followed, Length
<1> DEFINE b == base + Len(out)
<1>5. /\ b \in Nat /\ nextIndex = At(b) /\ Full <= b + Capacity /\ b + slots = Position
      /\ Position <= Length /\ b = base + Len(out)
  BY <1>3, <1>4 DEF Following, EndsAt
<1>6. Run \in Seq(Slot) /\ Len(Run) = slots
      /\ \A i \in 1..slots : Run[i] = mem[Phys(nextIndex + i - 1)]
  BY RunIsSlots
<1> HIDE DEF b
<1>7. ASSUME NEW i \in 1..slots
      PROVE  Run[i] = Written[b + i]
  <2> DEFINE j == i - 1
  <2>1. j \in 0..Capacity /\ j \in Nat /\ nextIndex + i - 1 = nextIndex + j /\ b + i - 1 = b + j
        /\ b + i \in 1..Len(Written) /\ b + i > Full - Capacity
        /\ (b + i) - 1 = b + j
    <3>1. nextIndex \in Nat
      BY DEF FlowInv, Addresses
    <3> QED
      BY <1>3, <1>4, <1>5, <3>1
  <2> HIDE DEF j
  <2>2. Phys(nextIndex + j) = At(b + j)
    BY <1>5, <2>1, AtPhys
  <2>3. mem[At((b + i) - 1)] = Written[b + i]
    <3> DEFINE k == b + i
    <3>1. k \in 1..Len(Written) /\ k > Full - Capacity
      BY <2>1
    <3> HIDE DEF k
    <3>2. mem[At(k - 1)] = Written[k]
      BY <3>1 DEF RingInv, HoldsNewest
    <3> QED
      BY <3>2 DEF k
  <2> QED
    BY <1>6, <2>1, <2>2, <2>3
<1> DEFINE run == Run
<1>8. run \in Seq(Slot) /\ Len(run) = slots /\ out \in Seq(Slot) /\ out' = out \o run
      /\ \A i \in 1..slots : run[i] = Written[b + i]
  BY <1>1, <1>6, <1>7 DEF FlowInv
<1> HIDE DEF run
<1>9. /\ Len(out') = Len(out) + slots
      /\ \A i \in 1..Len(out) : out'[i] = out[i]
      /\ \A i \in 1..slots : out'[Len(out) + i] = run[i]
  BY <1>8, Extended
<1>10. base' + Len(out') = Position /\ Position' = Position
  BY <1>1, <1>3, <1>9 DEF Position
<1>11. \A i \in 1..Len(out') : out'[i] = Written'[base' + i]
  <2> SUFFICES ASSUME NEW i \in 1..Len(out')
               PROVE  out'[i] = Written[base + i]
    BY <1>1, <1>2
  <2>1. CASE i <= Len(out)
    <3>1. i \in 1..Len(out)
      BY <1>3, <2>1
    <3> QED
      BY <1>9, <3>1 DEF Following
  <2>2. CASE ~(i <= Len(out))
    <3> DEFINE j == i - Len(out)
    <3>1. j \in 1..slots /\ i = Len(out) + j /\ base + i = b + j
      BY <1>3, <1>5, <1>9, <2>2
    <3> HIDE DEF j
    <3>2. out'[Len(out) + j] = Written[b + j]
      BY <1>8, <1>9, <3>1
    <3> QED
      BY <3>1, <3>2
  <2> QED
    BY <2>1, <2>2
<1>12. nextIndex' = At(base' + Len(out'))
  <2>1. slots \in 0..Capacity /\ nextIndex \in 0..(Capacity - 1)
    BY <1>3 DEF FlowInv, Addresses
  <2>2. At(b + slots) = Phys(nextIndex + slots)
    BY <1>5, <2>1, AtPhys
  <2>3. (nextIndex + slots) % Capacity = Phys(nextIndex + slots)
    <3> DEFINE x == nextIndex + slots
    <3>1. x \in Nat /\ x < 2 * Capacity
      BY <1>3, <2>1
    <3> HIDE DEF x
    <3>2. x < Capacity => x % Capacity = x
      BY <1>3, <3>1
    <3>3. x >= Capacity => x % Capacity = x - Capacity
      BY <1>3, <3>1
    <3> QED
      <4>1. x % Capacity = Phys(x)
        BY <1>3, <3>1, <3>2, <3>3 DEF Phys
      <4> QED
        BY <4>1 DEF x
  <2> QED
    BY <1>1, <1>5, <1>10, <2>2, <2>3 DEF NextIndex
<1>13. Full <= base + Len(out) + Capacity /\ Full' <= base' + Len(out') + Capacity
  BY <1>1, <1>2, <1>3, <1>4, <1>5, <1>9
<1>14. LastSeen'
  BY <1>1, <1>2, <1>10 DEF LastSeen, Following
<1>15. Position >= owed
  BY <1>1 DEF Following
<1> QED
  BY <1>1, <1>2, <1>10, <1>11, <1>12, <1>13, <1>14, <1>15 DEF Following

\* A server starts with the newest slot that was written to cell 0.
LEMMA LapStartIs ==
  ASSUME NEW n \in Nat
  PROVE  /\ LapStart(n) \in 0..n /\ At(LapStart(n)) = 0 /\ n <= LapStart(n) + Capacity
         /\ LapStart(n) < n \/ LapStart(n) = 0
         /\ n <= Capacity => LapStart(n) = 0
<1> DEFINE q == n \div Capacity
           r == n % Capacity
<1>1. Capacity \in Nat /\ Capacity > 1
  BY CapacityAssumption
<1>2. q \in Nat /\ r \in 0..(Capacity - 1) /\ n = Capacity * q + r
  BY <1>1, SMT
<1> HIDE DEF q, r
<1>3. 0 \in Addresses
  BY <1>1 DEF Addresses
<1> DEFINE p == Capacity * q
<1>4. p \in Nat /\ n = p + r
  BY <1>1, <1>2, SMT
<1>5. q = 0 => p = 0
  BY <1>1, <1>2, SMT
<1>6. q # 0 => p >= Capacity /\ q - 1 \in Nat /\ p = Capacity * (q - 1) + Capacity
  BY <1>1, <1>2, SMT
<1>7. \A s \in Nat : At(Capacity * s) = 0
  <2>1. ASSUME NEW s \in Nat
        PROVE  At(Capacity * s) = 0
    <3>1. At(Capacity * s + 0) = 0
      BY <1>3, AtProduct
    <3>2. Capacity * s + 0 = Capacity * s
      BY <1>1, SMT
    <3> QED
      BY <3>1, <3>2
  <2> QED
    BY <2>1
<1>8. At(p) = 0
  BY <1>2, <1>7
<1>9. q # 0 => At(p - Capacity) = 0
  <2> SUFFICES ASSUME q # 0
               PROVE  At(p - Capacity) = 0
    OBVIOUS
  <2> DEFINE s == q - 1
             z == Capacity * s
  <2>1. s \in Nat /\ z \in Nat /\ p = z + Capacity
    BY <1>1, <1>6, SMT
  <2>2. At(z) = 0
    BY <1>7, <2>1
  <2> HIDE DEF z, p, s
  <2>3. p - Capacity = z
    BY <1>1, <2>1
  <2> QED
    BY <2>2, <2>3
<1> HIDE DEF p
<1>10. CASE n > 0 /\ r = 0
  <2>1. LapStart(n) = n - Capacity
    BY <1>10 DEF LapStart, r
  <2>2. q # 0 /\ n = p
    BY <1>1, <1>4, <1>5, <1>10
  <2> QED
    BY <1>1, <1>4, <1>6, <1>9, <2>1, <2>2
<1>11. CASE ~(n > 0 /\ r = 0)
  <2>1. LapStart(n) = n - r
    BY <1>11 DEF LapStart, r
  <2>2. n - r = p
    BY <1>1, <1>2, <1>4
  <2>3. r > 0 \/ n = 0
    BY <1>2, <1>11
  <2>4. n <= Capacity => p = 0
    BY <1>1, <1>2, <1>4, <1>5, <1>6, <2>3
  <2> QED
    BY <1>1, <1>2, <1>4, <1>8, <2>1, <2>2, <2>3, <2>4
<1> QED
  BY <1>10, <1>11

LEMMA LaunchFollows ==
  ASSUME Followed, FlowInv, RecordsInv, StartsAnywhere, NEW m \in Modes, Launch(m)
  PROVE  Following' /\ pc' = "scan"
<1>1. /\ UNCHANGED vars /\ history' = history /\ pc' = "scan"
      /\ nextIndex' = 0 /\ lastTick' = 0 /\ slots' = 0 /\ runLast' = 0 /\ out' = <<>>
      /\ base' = LapStart(Length) /\ owed' = Len(history)
  BY DEF Launch, Length
<1>2. Written' = Written /\ Length' = Length /\ Full' = Full
  BY <1>1, ProgramStays
<1>3. /\ Written \in Seq(Slot) /\ Length = Len(Written) /\ Length \in Nat
      /\ Len(history) \in Nat /\ Len(history) <= Length
  BY WrittenIs DEF Followed, Length
<1>4. /\ Full \in Nat /\ Length <= Full /\ (event = NoEvent => Full = Length)
  BY FullIs DEF Followed
<1> DEFINE b == LapStart(Length)
<1>5. /\ b \in 0..Length /\ At(b) = 0 /\ Length <= b + Capacity
      /\ b < Length \/ b = 0
      /\ Length <= Capacity => b = 0
  BY <1>3, LapStartIs
<1>6. base' = b /\ b \in Nat /\ Capacity \in Nat
  BY <1>1, <1>5, CapacityAssumption
<1> HIDE DEF b
<1>7. Full <= b + Capacity
  <2>1. CASE OnlyPlain
    BY <1>4, <1>5, <2>1 DEF OnlyPlain
  <2>2. CASE Full <= Capacity
    BY <1>3, <1>4, <1>6, <2>2
  <2> QED
    BY <2>1, <2>2 DEF StartsAnywhere
<1>8. EndsAt(Written, b)
  <2>1. CASE OnlyPlain
    <3>1. ASSUME b < Length
          PROVE  Written[b + 1].body = 0
      <4> DEFINE s == Written[b + 1]
      <4>1. b + 1 \in 1..Len(Written)
        BY <1>3, <1>5, <3>1
      <4>2. s \in Slot
        BY <1>3, <4>1, ElementOfSeq
      <4>3. s.ext + s.body = 0
        BY <2>1, <4>1 DEF OnlyPlain
      <4>4. s.ext \in Nat /\ s.body \in Nat
        BY <4>2 DEF Slot
      <4> QED
        BY <4>3, <4>4
    <3> QED
      BY <1>3, <1>5, <3>1 DEF EndsAt
  <2>2. CASE Full <= Capacity
    <3>1. b = 0
      BY <1>3, <1>4, <1>5, <2>2, CapacityAssumption
    <3> QED
      BY <3>1 DEF RecordsInv, RecordsOf
  <2> QED
    BY <2>1, <2>2 DEF StartsAnywhere
<1>9. Len(out') = 0 /\ Position' = b /\ base' + Len(out') = b
  <2>1. Len(out') = 0
    BY <1>1
  <2> QED
    BY <1>1, <1>6, <2>1 DEF Position
<1>10. EndsAt(Written, owed') /\ owed' <= base' + Capacity
  <2>1. EndsAt(Written, owed')
    BY <1>1 DEF RecordsInv
  <2> QED
    BY <1>1, <1>3, <1>4, <1>6, <1>7, <2>1
<1>11. LastSeen'
  BY <1>1, <1>6, <1>9 DEF LastSeen
<1>12. /\ Full' <= base' + Len(out') + Capacity
       /\ nextIndex' = At(base' + Len(out'))
       /\ EndsAt(Written', Position')
       /\ base' < Length' \/ base' = 0
       /\ \A i \in 1..Len(out') : out'[i] = Written'[base' + i]
  BY <1>1, <1>2, <1>5, <1>6, <1>7, <1>8, <1>9
<1> QED
  BY <1>1, <1>2, <1>10, <1>11, <1>12 DEF Following

-----------------------------------------------------------------------------
CopyInv == FlowInv /\ ContentInv /\ RecordsInv /\ RingInv /\ ServerInv

LEMMA CopyInit ==
  ASSUME Followed, StreamInit
  PROVE  CopyInv
<1>1. FlowInv /\ ContentInv
  BY StreamFlow, InitContent DEF Followed, StreamInit
<1>2. /\ Written \in Seq(Slot) /\ Length \in Nat /\ Length = Len(Written)
      /\ Length = Len(history) + added
      /\ (event = NoEvent => Full = Length) /\ Capacity \in Nat /\ Capacity > 1
  BY <1>1, WrittenIs, FullIs, CapacityAssumption DEF Followed, Length
<1>3. /\ history = <<>> /\ Len(history) = 0 /\ added = 0 /\ event = NoEvent /\ clock = 0
      /\ start = 0 /\ mem = [a \in Addresses |-> Empty] /\ file = "whole" /\ pc = "absent"
      /\ base = 0 /\ out = <<>> /\ slots = 0
  BY DEF StreamInit, Init
<1>4. Length = 0 /\ Full = 0
  BY <1>2, <1>3
<1>5. RecordsInv
  BY <1>2, <1>3, <1>4 DEF RecordsInv, RecordsOf, Before, EndsAt
<1>6. RingInv
  <2>1. AtLogEnd
    <3>1. 0 \in Addresses
      BY <1>2 DEF Addresses
    <3> QED
      BY <1>3, <3>1, AtSmall DEF AtLogEnd
  <2>2. HoldsNewest(mem, Written, Full)
    BY <1>2, <1>4 DEF HoldsNewest
  <2>3. LooksOld(mem, Written)
    BY <1>2, <1>3, <1>4 DEF LooksOld, Empty
  <2> QED
    BY <2>1, <2>2, <2>3 DEF RingInv
<1>7. ServerInv
  BY <1>2, <1>3, <1>4 DEF ServerInv, StartsAnywhere
<1> QED
  BY <1>1, <1>5, <1>6, <1>7 DEF CopyInv

LEMMA ProgramCopy ==
  ASSUME Followed, CopyInv, FlowInv', Program \/ Construct
  PROVE  RecordsInv' /\ RingInv' /\ ServerInv'
<1>1. FlowInv /\ ContentInv /\ RecordsInv /\ RingInv /\ ServerInv /\ AtLogEnd
  BY DEF CopyInv, RingInv
<1>2. PICK r : Wrote(r) /\ Fitting
  BY <1>1, ProgramWrites
<1> QED
  BY <1>1, <1>2, RecordsNext, RingNext, ServerOnProgram

LEMMA LaunchCopy ==
  ASSUME Followed, CopyInv, Attach \/ Restart
  PROVE  RecordsInv' /\ RingInv' /\ ServerInv'
<1>1. FlowInv /\ RecordsInv /\ RingInv /\ ServerInv
  BY DEF CopyInv
<1>2. /\ \E m \in Modes : Launch(m)
      /\ UNCHANGED vars /\ UNCHANGED history /\ file' = file /\ StartsAnywhere
  BY <1>1 DEF Attach, Restart, Mapped, fileVars, Launch, ServerInv, StartsAnywhere, Full
<1>3. Following' /\ pc' = "scan"
  BY <1>1, <1>2, LaunchFollows
<1> QED
  BY <1>1, <1>2, <1>3, LogStays DEF ServerInv

LEMMA ServerCopy ==
  ASSUME Followed, CopyInv, Server
  PROVE  RecordsInv' /\ RingInv' /\ ServerInv'
<1>1. FlowInv /\ RecordsInv /\ RingInv /\ ServerInv
  BY DEF CopyInv
<1>2. /\ UNCHANGED vars /\ UNCHANGED history /\ file' = file
      /\ pc # "absent" /\ pc' # "absent" /\ (Look \/ Measure \/ Copy)
  BY DEF Server, Mapped, fileVars, Look, Measure, Copy, EndRun, EndPass
<1>3. Following
  BY <1>1, <1>2 DEF ServerInv
<1>4. Following'
  BY <1>1, <1>2, <1>3, LookFollows, MeasureFollows, CopyFollows
<1> QED
  BY <1>1, <1>2, <1>4, LogStays DEF ServerInv

\* Without a restart of the program the file stays as it is.
LEMMA FileStays ==
  ASSUME Followed, CopyInv
  PROVE  ~CutRing /\ ~ExtendRing /\ ~BusError
<1>1. file = "whole" /\ programs \in 0..MaxPrograms /\ MaxPrograms = 0
  BY DEF CopyInv, ServerInv, FlowInv, Followed
<1> QED
  BY <1>1 DEF CutRing, ExtendRing, BusError

LEMMA CopyStays ==
  ASSUME Followed, CopyInv, UNCHANGED streamVars
  PROVE  RecordsInv' /\ RingInv' /\ ServerInv'
<1>1. /\ UNCHANGED vars /\ UNCHANGED history /\ file' = file /\ pc' = pc
      /\ UNCHANGED <<base, out, slots, nextIndex, owed, runLast, lastTick>>
  BY DEF streamVars, serverVars, fileVars
<1>2. RecordsInv /\ RingInv /\ ServerInv
  BY DEF CopyInv
<1>3. /\ Written' = Written /\ Length' = Length /\ Full' = Full /\ (OnlyPlain' <=> OnlyPlain)
  BY <1>1, ProgramStays
<1>4. pc # "absent" => Following'
  BY <1>1, <1>2, <1>3, FollowingStays DEF ServerInv, Following
<1>5. ServerInv'
  BY <1>1, <1>2, <1>3, <1>4 DEF ServerInv, StartsAnywhere
<1> QED
  BY <1>1, <1>2, <1>5, LogStays

LEMMA CopyNext ==
  ASSUME Followed, CopyInv, [StreamNext]_streamVars
  PROVE  CopyInv'
<1>1. BoundedTransactions /\ FlowInv /\ ContentInv /\ RecorderInv
  BY DEF Followed, CopyInv, FlowInv
<1>2. FlowInv'
  BY <1>1, NextFlow
<1>3. ~CutRing /\ ~ExtendRing /\ ~BusError
  BY FileStays
<1>4. [Next]_vars
  <2>1. CASE Program \/ Construct
    BY <2>1, ProgramRecords
  <2>2. CASE Attach \/ Restart \/ Server \/ UNCHANGED streamVars
    BY <2>2 DEF Attach, Restart, Launch, Server, Look, Measure, Copy, streamVars
  <2> QED
    BY <1>3, <2>1, <2>2 DEF StreamNext
<1>5. ContentInv'
  BY <1>1, <1>4, NextContent
<1>6. RecordsInv' /\ RingInv' /\ ServerInv'
  BY <1>2, <1>3, ProgramCopy, LaunchCopy, ServerCopy, CopyStays DEF StreamNext
<1> QED
  BY <1>2, <1>5, <1>6 DEF CopyInv

\* A server that knows neither start_ nor where records begin copies exactly what the
\* program writes, from the slot in cell 0 on: nothing is skipped, repeated, torn or
\* left over from an earlier lap of the ring.
THEOREM CopyIsSegment ==
  ASSUME Followed
  PROVE  StreamSpec => []OutputIsSegment
<1>1. StreamInit => CopyInv
  BY CopyInit
<1>2. CopyInv /\ [StreamNext]_streamVars => CopyInv'
  BY CopyNext
<1>3. CopyInv => OutputIsSegment
  <2> SUFFICES ASSUME CopyInv
               PROVE  OutputIsSegment
    OBVIOUS
  <2>1. FlowInv /\ ServerInv
    BY DEF CopyInv
  <2>2. /\ base \in Nat /\ Len(out) \in Nat /\ base + Len(out) <= Position /\ Position \in Nat
    BY <2>1, ServerNumbers
  <2>3. /\ Length \in Nat /\ Length = Len(Written) /\ Full \in Nat /\ Length <= Full
        /\ \A k \in 1..Length : WrittenInFull[k] = Written[k]
    BY <2>1, WrittenIs, FullIs DEF Followed, Length
  <2>4. CASE pc = "absent"
    <3>1. base = 0 /\ Len(out) = 0
      BY <2>1, <2>4 DEF ServerInv
    <3> QED
      BY <2>3, <3>1 DEF OutputIsSegment, Full
  <2>5. CASE pc # "absent"
    <3>1. Following
      BY <2>1, <2>5 DEF ServerInv
    <3>2. base + Len(out) <= Length
      BY <2>2, <2>3, <3>1 DEF Following, EndsAt
    <3>3. \A i \in 1..Len(out) : base + i \in 1..Length
      BY <2>2, <2>3, <3>2
    <3>4. base + Len(out) <= Full
      BY <2>2, <2>3, <3>2
    <3> QED
      BY <2>3, <3>1, <3>3, <3>4 DEF OutputIsSegment, Following, Full
  <2> QED
    BY <2>4, <2>5
<1> QED
  BY <1>1, <1>2, <1>3, PTL DEF StreamSpec

\* A server started with --once leaves only when it has copied every record that was
\* committed when it started, apart from those older than the newest lap.
THEOREM OnceCopies ==
  ASSUME Followed
  PROVE  StreamSpec => []OnceCopiesCommitted
<1>1. StreamInit => CopyInv
  BY CopyInit
<1>2. CopyInv /\ [StreamNext]_streamVars => CopyInv'
  BY CopyNext
<1>3. CopyInv => OnceCopiesCommitted
  <2> SUFFICES ASSUME CopyInv, pc = "done"
               PROVE  base + Len(out) >= owed
    BY DEF OnceCopiesCommitted
  <2>1. FlowInv /\ Following
    BY DEF CopyInv, ServerInv
  <2>2. slots = 0 /\ Position >= owed
    BY <2>1 DEF Following
  <2> QED
    BY <2>1, <2>2, ServerNumbers
<1> QED
  BY <1>1, <1>2, <1>3, PTL DEF StreamSpec
==============================================================================
