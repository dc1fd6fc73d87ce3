----------------------- MODULE CheckPointServerProofs ------------------------
(***************************************************************************)
(* Proofs about CheckPointServer, for every number of inputs, every ring   *)
(* and block size, and programs that write any number of slots.            *)
(***************************************************************************)
EXTENDS CheckPointServer, FiniteSetTheorems, WellFoundedInduction, TLAPS

\* What \div does to a number of slots: the full blocks fit, and what is left over
\* is less than a block (append writes a block as soon as it is full).
LEMMA FullBlocks ==
  ASSUME NEW n \in Nat, NEW b \in Nat \ {0}
  PROVE  /\ n \div b \in Nat
         /\ b * (n \div b) \in Nat
         /\ b * (n \div b) <= n
         /\ n < b * (n \div b) + b
  BY SMT

\* Fewer blocks are no more slots.
LEMMA FewerBlocks ==
  ASSUME NEW b \in Nat, NEW m \in Nat, NEW n \in Nat, m <= n
  PROVE  b * m \in Nat /\ b * m <= b * n
<1>1. PICK d \in Nat : n = m + d
  <2>1. n - m \in Nat /\ n = m + (n - m)
    OBVIOUS
  <2> QED BY <2>1
<1>2. b * d \in Nat /\ b * m \in Nat
  BY SMT
<1>3. b * (m + d) = b * m + b * d
  BY SMT
<1> QED BY <1>1, <1>2, <1>3

\* ServerInv holds in every initial state: nothing is recorded, copied or stored.
LEMMA ServerInvInit == ServerInit => ServerInv
<1> SUFFICES ASSUME ServerInit PROVE ServerInv
  OBVIOUS
<1>1. /\ recorded = [s \in Sources |-> 0] /\ copied = recorded /\ stored = recorded
      /\ seen = recorded /\ pc = "open" /\ turn = 0
  BY DEF ServerInit
<1>2. 0 \in Sources /\ Sources \subseteq Nat /\ turn \in 0..Count
  BY <1>1, SizeAssumption DEF Sources
<1>3. ServerTypeOK
  BY <1>1, <1>2 DEF ServerInit, ServerTypeOK
<1>4. FailureCostsLessThanBlock
  BY <1>1, SizeAssumption DEF FailureCostsLessThanBlock
<1> QED BY <1>1, <1>3, <1>4 DEF ServerInv, Running

\* Sources are numbered from 0.
LEMMA SourceNumbers ==
  /\ Sources \subseteq Nat /\ 0 \in Sources /\ 0 \in 0..Count
  /\ \A i \in Sources : i + 1 \in 0..Count /\ (i + 1 < Count => i + 1 \in Sources)
  /\ \A i, s \in Sources : s < i + 1 => s < i \/ s = i
  /\ \A i, s \in Sources : ~(i + 1 < Count) => s < i + 1
  BY SizeAssumption DEF Sources

\* A pass begins with nothing copied in it and nothing asked of it so far.
LEMMA PassBegins ==
  ASSUME ServerInv, Running, BeginPass, UNCHANGED <<once, inputs, stop, recorded, copied, stored>>
  PROVE  ServerInv'
<1>1. /\ pc' = "pass" /\ turn' = 0 /\ anything' = FALSE /\ seen' = recorded
      /\ UNCHANGED <<once, inputs, stop, recorded, copied, stored>>
  BY DEF BeginPass
<1>2. ServerTypeOK'
  <2>1. once' \in BOOLEAN /\ anything' \in BOOLEAN /\ stop' \in BOOLEAN /\ inputs' \in InputLists
    BY <1>1 DEF ServerInv, ServerTypeOK
  <2>2. pc' = "pass" /\ turn' \in 0..Count /\ turn' \in Sources
    BY <1>1, SourceNumbers
  <2>3. /\ recorded' \in [Sources -> Nat] /\ copied' \in [Sources -> Nat]
        /\ stored' \in [Sources -> Nat] /\ seen' \in [Sources -> Nat]
    BY <1>1 DEF ServerInv, ServerTypeOK
  <2>4. \A s \in Sources :
          stored'[s] <= recorded'[s] /\ copied'[s] <= recorded'[s] /\ seen'[s] <= recorded'[s]
    BY <1>1 DEF ServerInv, ServerTypeOK
  <2> QED BY <2>1, <2>2, <2>3, <2>4 DEF ServerTypeOK
<1>3. \A s \in Sources : ~(s < 0)
  BY SourceNumbers
<1>4. (\A s \in Sources : stored[s] <= copied[s])' /\ FailureCostsLessThanBlock'
  BY <1>1 DEF ServerInv, FailureCostsLessThanBlock
<1>5. (pc = "pass" => \A s \in Sources : s < turn => seen[s] <= copied[s])'
  BY <1>1, <1>3
<1> QED BY <1>1, <1>2, <1>4, <1>5 DEF ServerInv

\* Every step of the server and of its programs keeps ServerInv.
LEMMA ServerInvStep == ServerInv /\ [ServerNext]_serverVars => ServerInv'
<1> SUFFICES ASSUME ServerInv, [ServerNext]_serverVars
             PROVE  ServerInv'
  OBVIOUS
<1> USE DEF ServerInv, ServerTypeOK, FailureCostsLessThanBlock, Running
<1>1. CASE OpenSource
  <2>1. CASE turn + 1 < Count
    <3>1. /\ pc = "open" /\ pc' = "open" /\ turn' = turn + 1 /\ turn' \in Sources /\ turn' \in 0..Count
          /\ UNCHANGED <<once, inputs, anything, stop, recorded, copied, stored, seen>>
      BY <1>1, <2>1, SourceNumbers DEF OpenSource
    <3> QED BY <3>1
  <2>2. CASE ~(turn + 1 < Count)
    <3>1. Running /\ BeginPass /\ UNCHANGED <<once, inputs, stop, recorded, copied, stored>>
      BY <1>1, <2>2 DEF OpenSource
    <3> QED BY <3>1, PassBegins
  <2> QED BY <2>1, <2>2
<1>2. CASE CopyRun
  <2>1. /\ turn \in Sources /\ pc = "pass"
        /\ stored[turn] \in Nat /\ copied[turn] \in Nat /\ recorded[turn] \in Nat
        /\ stored[turn] <= copied[turn] /\ copied[turn] <= recorded[turn]
        /\ seen[turn] \in Nat /\ seen[turn] <= recorded[turn]
        /\ UNCHANGED <<once, inputs, stop, recorded, seen>>
    BY <1>2 DEF CopyRun
  <2>2. ASSUME copied'[turn] = recorded[turn], stored' \in [Sources -> Nat], copied' \in [Sources -> Nat],
               \A s \in Sources : copied[s] <= copied'[s] /\ copied'[s] <= recorded[s],
               \A s \in Sources : stored'[s] <= copied'[s] /\ copied'[s] < stored'[s] + Block,
               anything' \in BOOLEAN, ToNextSource \/ UNCHANGED <<pc, turn>>
        PROVE  ServerInv'
    <3>1. ServerTypeOK' /\ pc' \in {"pass", "ended"}
      BY <2>1, <2>2, SourceNumbers DEF ToNextSource
    <3>2. \A s \in Sources : s < turn \/ s = turn => seen'[s] <= copied'[s]
      BY <2>1, <2>2
    <3>3. (pc = "pass" => \A s \in Sources : s < turn => seen[s] <= copied[s])'
      <4>1. CASE ToNextSource
        BY <2>1, <3>2, <4>1, SourceNumbers DEF ToNextSource
      <4>2. CASE UNCHANGED <<pc, turn>>
        BY <3>2, <4>2
      <4> QED BY <2>2, <4>1, <4>2
    <3>4. (pc = "ended" => \A s \in Sources : seen[s] <= copied[s])'
      <4>1. CASE ToNextSource
        BY <2>1, <3>2, <4>1, SourceNumbers DEF ToNextSource
      <4>2. CASE UNCHANGED <<pc, turn>>
        BY <2>1, <4>2
      <4> QED BY <2>2, <4>1, <4>2
    <3> QED BY <2>2, <3>1, <3>3, <3>4
  <2>3. CASE Available(turn) = 0
    <3>1. copied[turn] = recorded[turn] /\ UNCHANGED <<anything, copied, stored>> /\ ToNextSource
      BY <1>2, <2>1, <2>3 DEF CopyRun, Available, Skipped
    <3> QED BY <2>1, <2>2, <3>1
  <2>4. CASE Available(turn) # 0
    <3> DEFINE held == copied[turn] + Available(turn) - stored[turn]
               written == Block * BlocksOf(held)
    <3>1. held \in Nat /\ held = recorded[turn] - stored[turn]
      BY <2>1 DEF Available
    <3>2. /\ copied' = [copied EXCEPT ![turn] = @ + Available(turn)]
          /\ stored' = [stored EXCEPT ![turn] = @ + written]
          /\ anything' = TRUE
          /\ ToNextSource \/ UNCHANGED <<pc, turn>>
      BY <1>2, <2>4 DEF CopyRun, Skipped
    <3>3. copied' = [copied EXCEPT ![turn] = recorded[turn]]
      <4>1. copied[turn] + Available(turn) = recorded[turn]
        BY <2>1 DEF Available
      <4> QED BY <3>2, <4>1
    <3> HIDE DEF held
    <3>4. written \in Nat /\ written <= held /\ held < written + Block /\ Block \in Nat
      BY <3>1, FullBlocks, SizeAssumption DEF BlocksOf
    <3> HIDE DEF written
    <3>5. copied'[turn] = recorded[turn] /\ copied' \in [Sources -> Nat]
          /\ \A s \in Sources : copied[s] <= copied'[s] /\ copied'[s] <= recorded[s]
      BY <2>1, <3>3
    <3>6. stored'[turn] = stored[turn] + written /\ stored' \in [Sources -> Nat]
      BY <2>1, <3>2, <3>4
    <3>7. \A s \in Sources : stored'[s] <= copied'[s] /\ copied'[s] < stored'[s] + Block
      <4> SUFFICES ASSUME NEW s \in Sources
                   PROVE  stored'[s] <= copied'[s] /\ copied'[s] < stored'[s] + Block
        OBVIOUS
      <4>1. CASE s = turn
        BY <2>1, <3>1, <3>4, <3>5, <3>6, <4>1
      <4>2. CASE s # turn
        BY <2>1, <3>2, <3>3, <4>2
      <4> QED BY <4>1, <4>2
    <3> QED BY <2>2, <3>2, <3>5, <3>6, <3>7
  <2> QED BY <2>3, <2>4
<1>3. CASE EndPass
  <2>1. CASE LastPass
    BY <1>3, <2>1, SourceNumbers DEF EndPass
  <2>2. CASE ~LastPass /\ anything
    <3>1. Running /\ BeginPass /\ UNCHANGED <<once, inputs, stop, recorded, copied, stored>>
      BY <1>3, <2>2 DEF EndPass
    <3> QED BY <3>1, PassBegins
  <2>3. CASE ~LastPass /\ ~anything
    BY <1>3, <2>3 DEF EndPass
  <2> QED BY <2>1, <2>2, <2>3
<1>4. CASE Wake
  <2>1. Running /\ BeginPass /\ UNCHANGED <<once, inputs, stop, recorded, copied, stored>>
    BY <1>4 DEF Wake
  <2> QED BY <2>1, PassBegins
<1>5. CASE FlushSource
  BY <1>5, SizeAssumption, SourceNumbers DEF FlushSource
<1>6. CASE Fail
  BY <1>6 DEF Fail
<1>7. CASE CopyFails
  <2> DEFINE n == copied[turn] + Available(turn) - stored[turn]
  <2>1. /\ turn \in Sources /\ pc = "pass" /\ pc' = "failed"
        /\ stored[turn] \in Nat /\ copied[turn] \in Nat /\ recorded[turn] \in Nat
        /\ stored[turn] <= copied[turn] /\ copied[turn] <= recorded[turn]
        /\ UNCHANGED <<once, inputs, turn, anything, stop, recorded, copied, seen>>
    BY <1>7 DEF CopyFails
  <2>2. n \in Nat /\ n = recorded[turn] - stored[turn]
    BY <2>1 DEF Available
  <2> HIDE DEF n
  <2>3. PICK k \in 1..(n \div Block) : stored' = [stored EXCEPT ![turn] = @ + Block * (k - 1)]
    BY <1>7 DEF CopyFails, BlocksOf, n
  <2>4. n \div Block \in Nat /\ Block * (n \div Block) <= n /\ Block \in Nat
    BY <2>2, FullBlocks, SizeAssumption
  <2>5. k - 1 \in Nat /\ k - 1 <= n \div Block
    BY <2>3, <2>4
  <2>6. Block * (k - 1) \in Nat /\ Block * (k - 1) <= Block * (n \div Block)
    BY <2>4, <2>5, FewerBlocks
  <2> DEFINE m == Block * (k - 1)
  <2>7. m \in Nat /\ m <= n
    <3>1. Block * (n \div Block) \in Nat
      BY <2>2, FullBlocks, SizeAssumption
    <3> QED BY <2>2, <2>4, <2>6, <3>1
  <2>8. stored' = [stored EXCEPT ![turn] = @ + m]
    BY <2>3
  <2> HIDE DEF m
  <2>9. stored' \in [Sources -> Nat] /\ \A s \in Sources : stored[s] <= stored'[s] /\ stored'[s] <= recorded[s]
    BY <2>1, <2>2, <2>7, <2>8
  <2>10. \A s \in Sources : copied[s] < stored'[s] + Block
    <3> SUFFICES ASSUME NEW s \in Sources PROVE copied[s] < stored'[s] + Block
      OBVIOUS
    <3>1. /\ copied[s] < stored[s] + Block /\ stored[s] <= stored'[s]
          /\ copied[s] \in Nat /\ stored[s] \in Nat /\ stored'[s] \in Nat
      BY <2>9
    <3> QED BY <2>4, <3>1
  <2> QED
    BY <2>1, <2>9, <2>10
<1>8. CASE Signal
  BY <1>8 DEF Signal
<1>9. ASSUME NEW s \in Sources, Record(s) PROVE ServerInv'
  <2>1. /\ recorded' = [recorded EXCEPT ![s] = @ + 1] /\ recorded[s] \in Nat
        /\ UNCHANGED <<once, inputs, pc, turn, anything, stop, copied, stored, seen>>
    BY <1>9 DEF Record
  <2>2. recorded' \in [Sources -> Nat] /\ \A t \in Sources : recorded[t] <= recorded'[t]
    BY <2>1
  <2>3. \A t \in Sources : \A x \in Nat : x <= recorded[t] => x <= recorded'[t]
    BY <2>2
  <2> QED BY <2>1, <2>2, <2>3
<1>10. CASE UNCHANGED serverVars
  BY <1>10 DEF serverVars
<1> QED BY <1>1, <1>2, <1>3, <1>4, <1>5, <1>6, <1>7, <1>8, <1>9, <1>10 DEF ServerNext, Step

\* The invariant of the server: how far the pass and the flush have come, and that a
\* writer holds less than a block.
THEOREM ServerInvariant == ServerSpec => []ServerInv
BY ServerInvInit, ServerInvStep, PTL DEF ServerSpec

\* The state of main stays well-formed: no source is stored or copied beyond what its
\* program has written.
THEOREM ServerTypes == ServerSpec => []ServerTypeOK
<1>1. ServerInv => ServerTypeOK
  BY DEF ServerInv
<1> QED BY <1>1, ServerInvariant, PTL

\* Exit status 0 leaves complete files, whenever the signal came, whatever the programs
\* wrote meanwhile and however many rounds copy_available made.
THEOREM CleanExitComplete == ServerSpec => []CleanExitIsComplete
<1>1. ServerInv => CleanExitIsComplete
  BY DEF ServerInv, CleanExitIsComplete
<1> QED BY <1>1, ServerInvariant, PTL

\* An exception of one source costs every source less than one block of its writer.
THEOREM FailureCostBounded == ServerSpec => []FailureCostsLessThanBlock
<1>1. ServerInv => FailureCostsLessThanBlock
  BY DEF ServerInv
<1> QED BY <1>1, ServerInvariant, PTL

-----------------------------------------------------------------------------
\* The names of the outputs, one for every source opened so far.
NamesInv ==
  /\ outputs \in Seq(Seq(Nat)) /\ inputs \in InputLists
  /\ pc = "open" => turn = Len(outputs) /\ turn \in Sources
  /\ Len(outputs) <= Count
  /\ OutputsDistinct

\* A set of natural numbers that is not empty has a smallest one.
LEMMA SmallestIn ==
  ASSUME NEW T \in SUBSET Nat, T # {}
  PROVE  \E x \in T : \A y \in T : x <= y
<1> DEFINE R == OpToRel(<, Nat)
<1>1. IsWellFoundedOn(R, Nat)
  BY NatLessThanWellFounded
<1>2. \A x, y \in Nat : y < x => <<y, x>> \in R
  BY DEF OpToRel
<1> HIDE DEF R
<1>3. PICK x \in T : \A y \in T : ~(<<y, x>> \in R)
  BY <1>1, WFMin
<1>4. \A y \in T : x \in Nat /\ y \in Nat /\ ~(y < x)
  BY <1>2, <1>3
<1>5. \A y \in T : x <= y
  BY <1>4
<1> QED
  BY <1>5

\* Each index put in front makes a name longer.
LEMMA PrefixedNames ==
  ASSUME NEW name \in Seq(Nat), NEW index \in Nat, NEW k \in Nat
  PROVE  Prefixed(name, index, k) \in Seq(Nat) /\ Len(Prefixed(name, index, k)) = k + Len(name)
<1> DEFINE front == [j \in 1..k |-> index]
<1>1. front \in Seq(Nat) /\ Len(front) = k
  OBVIOUS
<1> HIDE DEF front
<1>2. front \o name \in Seq(Nat) /\ Len(front \o name) = k + Len(name)
  BY <1>1
<1> QED
  BY <1>2 DEF Prefixed, front

\* One of the names that unique_output_path tries is free: there is one more of them
\* than there are sources.
LEMMA SomeNameIsFree ==
  ASSUME NEW name \in Seq(Nat), NEW index \in Nat, outputs \in Seq(Seq(Nat)), Len(outputs) <= Count
  PROVE  \E k \in 0..Count : Prefixed(name, index, k) \notin Taken
<1> SUFFICES ASSUME \A k \in 0..Count : Prefixed(name, index, k) \in Taken
             PROVE  FALSE
  OBVIOUS
<1>1. Len(outputs) \in Nat /\ DOMAIN outputs = 1..Len(outputs) /\ Count \in Nat
  BY SizeAssumption
<1> DEFINE n == Len(outputs)
           owner == [k \in 0..Count |-> CHOOSE i \in 1..n : outputs[i] = Prefixed(name, index, k)]
<1>2. \A k \in 0..Count : owner[k] \in 1..n /\ outputs[owner[k]] = Prefixed(name, index, k)
  BY <1>1 DEF Taken
<1>3. owner \in [0..Count -> 1..n]
  BY <1>2
<1>4. /\ IsFiniteSet(0..Count) /\ Cardinality(0..Count) = Count + 1
      /\ IsFiniteSet(1..n) /\ Cardinality(1..n) = n
  <2>1. /\ IsFiniteSet(0..Count) /\ Cardinality(0..Count) = IF 0 > Count THEN 0 ELSE Count - 0 + 1
    BY <1>1, FS_Interval
  <2>2. n \in Nat /\ n \in Int
    BY <1>1
  <2> HIDE DEF n
  <2>3. /\ IsFiniteSet(1..n) /\ Cardinality(1..n) = IF 1 > n THEN 0 ELSE n - 1 + 1
    BY <2>2, FS_Interval
  <2> QED
    BY <1>1, <2>1, <2>2, <2>3
<1>5. n < Count + 1 /\ n \in Nat
  BY <1>1
<1> HIDE DEF n, owner
<1>6. PICK x, y \in 0..Count : x # y /\ owner[x] = owner[y]
  BY <1>3, <1>4, <1>5, FS_PigeonHole
<1>7. Prefixed(name, index, x) = Prefixed(name, index, y)
  BY <1>2, <1>6
<1>8. x \in Nat /\ y \in Nat /\ Len(name) \in Nat
  BY <1>1
<1>9. /\ Len(Prefixed(name, index, x)) = x + Len(name)
      /\ Len(Prefixed(name, index, y)) = y + Len(name)
  BY <1>8, PrefixedNames
<1> QED
  BY <1>6, <1>7, <1>8, <1>9

\* So the first free one is found.
LEMMA OutputPathIsFree ==
  ASSUME NamesInv, pc = "open"
  PROVE  OutputPath(turn, Taken) \in Seq(Nat) /\ OutputPath(turn, Taken) \notin Taken
<1> DEFINE name == inputs[turn]
           First(k) == /\ Prefixed(name, turn, k) \notin Taken
                       /\ \A j \in 0..(k - 1) : Prefixed(name, turn, j) \in Taken
           free == {k \in 0..Count : Prefixed(name, turn, k) \notin Taken}
<1>1. name \in Seq(Nat) /\ turn \in Nat /\ Count \in Nat
  BY InputAssumption, SizeAssumption DEF NamesInv, Sources
<1>2. free \in SUBSET Nat /\ free # {}
  <2> HIDE DEF name
  <2>1. \E k \in 0..Count : Prefixed(name, turn, k) \notin Taken
    BY <1>1, SomeNameIsFree DEF NamesInv
  <2> QED
    BY <1>1, <2>1
<1>3. PICK x \in free : \A y \in free : x <= y
  BY <1>2, SmallestIn
<1>4. x \in 0..Count /\ First(x)
  <2>1. x \in 0..Count /\ Prefixed(name, turn, x) \notin Taken
    BY <1>3
  <2>2. ASSUME NEW j \in 0..(x - 1)
        PROVE  Prefixed(name, turn, j) \in Taken
    <3>1. j \in 0..Count /\ ~(x <= j)
      BY <1>1, <2>1
    <3> QED
      BY <1>3, <3>1
  <2> QED
    BY <2>1, <2>2
<1> DEFINE k == CHOOSE k \in 0..Count : First(k)
<1>5. k \in 0..Count /\ First(k)
  BY <1>4
<1>6. OutputPath(turn, Taken) = Prefixed(name, turn, k)
  BY DEF OutputPath
<1> HIDE DEF k, name
<1>7. k \in Nat /\ Prefixed(name, turn, k) \notin Taken
  BY <1>1, <1>5
<1> QED
  BY <1>1, <1>6, <1>7, PrefixedNames

LEMMA NamesNext ==
  ASSUME NamesInv, [ServerNext]_serverVars
  PROVE  NamesInv'
<1>1. CASE OpenSource
  <2> DEFINE path == OutputPath(turn, Taken)
  <2>1. /\ pc = "open" /\ outputs' = Append(outputs, path) /\ inputs' = inputs
        /\ turn = Len(outputs) /\ turn \in Sources
    BY <1>1 DEF OpenSource, NamesInv
  <2>2. path \in Seq(Nat) /\ path \notin Taken
    BY <2>1, OutputPathIsFree
  <2> HIDE DEF path
  <2>3. /\ outputs \in Seq(Seq(Nat)) /\ Len(outputs) \in Nat /\ Count \in Nat
        /\ turn + 1 <= Count /\ DOMAIN outputs = 1..Len(outputs)
    BY <2>1, SizeAssumption DEF NamesInv, Sources
  <2>4. /\ outputs' \in Seq(Seq(Nat)) /\ Len(outputs') = turn + 1
        /\ DOMAIN outputs' = 1..(turn + 1)
        /\ \A i \in 1..turn : outputs'[i] = outputs[i]
        /\ outputs'[turn + 1] = path
    BY <2>1, <2>2, <2>3
  <2>5. OutputsDistinct'
    <3>1. \A i \in 1..turn : outputs[i] # path
      BY <2>1, <2>2, <2>3 DEF Taken
    <3>2. \A i, j \in 1..turn : outputs[i] = outputs[j] => i = j
      BY <2>1, <2>3 DEF NamesInv, OutputsDistinct
    <3>3. \A i \in 1..(turn + 1) : i \in 1..turn \/ i = turn + 1
      BY <2>1, <2>3
    <3> QED
      BY <2>4, <3>1, <3>2, <3>3 DEF OutputsDistinct
  <2>6. pc' = "open" => turn' = turn + 1 /\ turn' \in Sources
    <3>1. CASE turn + 1 < Count
      BY <1>1, <2>1, <2>3, <3>1 DEF OpenSource, Sources
    <3>2. CASE ~(turn + 1 < Count)
      BY <1>1, <3>2 DEF OpenSource, BeginPass
    <3> QED
      BY <3>1, <3>2
  <2> QED
    BY <2>1, <2>3, <2>4, <2>5, <2>6 DEF NamesInv
<1>2. ASSUME UNCHANGED <<inputs, outputs>>, pc' # "open" \/ UNCHANGED <<pc, turn>>
      PROVE  NamesInv'
  BY <1>2 DEF NamesInv, OutputsDistinct
<1> QED
  BY <1>1, <1>2
  DEF ServerNext, Step, serverVars, CopyRun, ToNextSource, EndPass, BeginPass, Wake, FlushSource,
      Fail, CopyFails, Signal, Record

\* No two sources write the same file, whatever the inputs are called and however many
\* there are; the search for a free name ends, since it has one more try than sources.
THEOREM OutputsAreDistinct == ServerSpec => []OutputsDistinct
<1>1. ServerInit => NamesInv
  <2> SUFFICES ASSUME ServerInit
               PROVE  NamesInv
    OBVIOUS
  <2>1. outputs = <<>> /\ Len(outputs) = 0 /\ turn = 0 /\ inputs \in InputLists
    BY DEF ServerInit
  <2> QED
    BY <2>1, SizeAssumption DEF NamesInv, OutputsDistinct, Sources
<1>2. NamesInv /\ [ServerNext]_serverVars => NamesInv'
  BY NamesNext
<1>3. NamesInv => OutputsDistinct
  BY DEF NamesInv
<1> QED
  BY <1>1, <1>2, <1>3, PTL DEF ServerSpec
==============================================================================
