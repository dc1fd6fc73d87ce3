------------------------ MODULE MirroredBufferProofs -------------------------
(***************************************************************************)
(* Proofs about MirroredBuffer, for any number of objects, descriptors and *)
(* areas, and every word, page and slot size.                              *)
(***************************************************************************)
EXTENDS MirroredBuffer, TLAPS

\* A size that a mapping of full pages can have is large enough and a power of two.
SizeFits(b) ==
  b.size > 0 /\ 2 * b.size < WordMod /\ b.size % Page = 0
    => b.size >= b.asked /\ b.size \in PowersOfTwo

\* What each step of a constructor has acquired.
CtorInv ==
  ctor # NoCtor =>
    /\ own[ctor.self].data = Null
    /\ ctor.at \in {"open", "size"} /\ ctor.class # "server" => own[ctor.self].fd = NoFd
    /\ ctor.at = "open" => own[ctor.self].fd = NoFd
    /\ ctor.at = "size" /\ ctor.class # "server" =>
         ctor.fd \in openFds /\ \A o \in Objects : own[o].fd # ctor.fd
    /\ ctor.at = "size" /\ ctor.class = "server" => own[ctor.self].fd \in openFds
    /\ ctor.at \in {"reserve", "first", "second"} => own[ctor.self].fd \in openFds
    /\ ctor.class # "server" \/ ctor.at \notin {"open", "size"} => SizeFits(own[ctor.self])
    /\ ctor.at \in {"first", "second"} =>
         /\ ctor.area \in Areas /\ \A o \in Objects : own[o].data # ctor.area
         /\ views[ctor.area] # "free"
         /\ span[ctor.area] = own[ctor.self].size
         /\ own[ctor.self].size > 0 /\ 2 * own[ctor.self].size < WordMod

\* Everything that is open or mapped has an owner, the running constructor included.
Accounted ==
  /\ \A fd \in openFds :
       \/ \E o \in Objects : own[o].fd = fd
       \/ ctor # NoCtor /\ ctor.at = "size" /\ ctor.class # "server" /\ ctor.fd = fd
  /\ \A area \in Areas : views[area] # "free" =>
       \/ \E o \in Objects : own[o].data = area
       \/ ctor # NoCtor /\ ctor.at \in {"first", "second"} /\ ctor.area = area

\* The inductive invariant.
BufferInv ==
  /\ BufferTypeOK /\ OwnedOnce /\ LiveIsMirrored
  /\ \A o \in Objects : own[o].fd # NoFd => own[o].fd \in openFds
  /\ \A o \in Objects \ live : own[o] = Blank \/ (ctor # NoCtor /\ ctor.self = o)
  /\ CtorInv /\ Accounted

-----------------------------------------------------------------------------
\* Rounding up to a page gives at least what was asked for, or nothing when the sum
\* wraps around.
LEMMA RoundUpToPageSizeFits ==
  ASSUME NEW n \in 1..(WordMod - 1)
  PROVE  /\ RoundUpToPageSize(n) \in Nat
         /\ RoundUpToPageSize(n) >= n \/ RoundUpToPageSize(n) = 0
<1> USE SizeAssumption
<1> DEFINE m == (n + Page - 1) % WordMod
<1>1. m \in Nat /\ (m = n + Page - 1 \/ m < Page)
  <2>1. CASE n + Page - 1 < WordMod
    BY <2>1
  <2>2. CASE n + Page - 1 >= WordMod
    <3>1. n + Page - 1 - WordMod \in 0..(WordMod - 1)
      BY <2>2
    <3>2. (n + Page - 1) % WordMod = n + Page - 1 - WordMod
      BY <3>1, <2>2
    <3> QED BY <3>1, <3>2
  <2> QED BY <2>1, <2>2
<1> HIDE DEF m
<1>2. m \div Page \in Nat /\ (m \div Page) * Page \in Nat /\ m < (m \div Page) * Page + Page
  BY <1>1, SMT
<1>3. m < Page => m \div Page = 0
  BY <1>1, SMT
<1>4. RoundUpToPageSize(n) = (m \div Page) * Page
  BY DEF RoundUpToPageSize, m
<1> QED
  BY <1>1, <1>2, <1>3, <1>4

\* What DoubleMapBuffer asks mmap for is large enough, or cannot be mapped.
LEMMA DoubleSizeFits ==
  ASSUME NEW n \in 1..(WordMod - 1), NEW size \in RoundUpToPowerOfTwo(RoundUpToPageSize(n))
  PROVE  /\ size \in 0..(WordMod - 1)
         /\ size > 0 /\ size % Page = 0 => size >= n /\ size \in PowersOfTwo
<1> USE SizeAssumption
<1> DEFINE r == RoundUpToPageSize(n)
           above == {p \in PowersOfTwo : p >= r}
<1>1. r \in Nat /\ (r >= n \/ r = 0)
  BY RoundUpToPageSizeFits
<1>2. 1 \in PowersOfTwo /\ PowersOfTwo \subseteq 1..(WordMod - 1)
  BY DEF PowersOfTwo
<1>3. 1 % Page # 0
  OBVIOUS
<1> HIDE DEF r
<1>4. CASE above = {}
  <2>1. size \in {0, 1}
    BY <1>4 DEF RoundUpToPowerOfTwo, r
  <2> QED BY <2>1, <1>3
<1>5. CASE above # {}
  <2>1. size \in above /\ \A q \in above : size <= q
    BY <1>5 DEF RoundUpToPowerOfTwo, r
  <2>2. size \in PowersOfTwo /\ size >= r /\ size \in 1..(WordMod - 1)
    BY <2>1, <1>2
  <2>3. CASE r = 0
    <3>1. 1 \in above
      BY <1>2, <2>3
    <3>2. size = 1
      BY <2>1, <2>2, <3>1
    <3> QED BY <3>2, <1>3
  <2>4. CASE r # 0
    BY <1>1, <2>2, <2>4
  <2> QED BY <2>3, <2>4
<1> QED BY <1>4, <1>5

\* A size that can be doubled.
LEMMA HalfOfWord ==
  ASSUME NEW n \in Nat
  PROVE  n <= (WordMod - 1) \div 2 => 2 * n < WordMod
  BY SizeAssumption

LEMMA BlankIsMembers == Blank \in Members
  BY SizeAssumption DEF Blank, Fresh, Members

-----------------------------------------------------------------------------
LEMMA BufferInvInit == BufferInit => BufferInv
  BY BlankIsMembers, OwnerAssumption, SizeAssumption
  DEF BufferInit, BufferInv, BufferTypeOK, OwnedOnce, LiveIsMirrored, CtorInv, Accounted, NoCtor, Blank, Fresh

\* A constructor that runs has not made its object yet.
LEMMA CtorFacts ==
  ASSUME BufferInv, ctor # NoCtor
  PROVE  /\ ctor \in Constructors /\ ctor.self \in Objects /\ ctor.self \notin live
         /\ ctor.fd \in Fds \cup {NoFd} /\ ctor.area \in Areas \cup {Null}
         /\ ctor.class \in {"double", "ring", "server"}
         /\ own[ctor.self] \in Members /\ own[ctor.self].data = Null
  BY DEF BufferInv, BufferTypeOK, CtorInv, Constructors

\* The step that begins a constructor keeps the invariant, when the size is right.
LEMMA BeginInv ==
  ASSUME BufferInv, NEW o \in Objects, NEW class \in {"double", "ring", "server"},
         NEW size \in 0..(WordMod - 1), NEW asked \in 0..(WordMod - 1),
         Begin(o, class, size, asked),
         class # "server" => (size > 0 /\ 2 * size < WordMod /\ size % Page = 0
                                => size >= asked /\ size \in PowersOfTwo)
  PROVE  BufferInv'
<1> USE OwnerAssumption
<1> DEFINE new == [fd |-> NoFd, data |-> Null, size |-> size, asked |-> asked]
<1>1. /\ ctor = NoCtor /\ o \notin live /\ own[o] = Blank
      /\ ctor' = [at |-> "open", self |-> o, class |-> class, fd |-> NoFd, area |-> Null]
      /\ own' = [own EXCEPT ![o] = new]
      /\ UNCHANGED <<live, openFds, views, span>>
  <2>2. own' = [own EXCEPT ![o] = new]
    BY DEF Begin, Fresh
  <2>3. ctor = NoCtor /\ o \notin live /\ UNCHANGED <<live, openFds, views, span>>
    BY DEF Begin, Idle
  <2>4. own[o] = Blank
    BY <2>3 DEF BufferInv
  <2> QED BY <2>2, <2>3, <2>4 DEF Begin
<1>2. new \in Members
  BY DEF Members
<1>3. own'[o] = new /\ \A p \in Objects : p # o => own'[p] = own[p]
  BY <1>1, <1>2 DEF BufferInv, BufferTypeOK
<1>4. BufferTypeOK'
  BY <1>1, <1>2 DEF BufferInv, BufferTypeOK, Constructors
<1>5. OwnedOnce' /\ LiveIsMirrored'
  BY <1>1, <1>3 DEF BufferInv, OwnedOnce, LiveIsMirrored, BufferTypeOK
<1>6. /\ (\A p \in Objects : own[p].fd # NoFd => own[p].fd \in openFds)'
      /\ (\A p \in Objects \ live : own[p] = Blank \/ (ctor # NoCtor /\ ctor.self = p))'
  BY <1>1, <1>3 DEF BufferInv, NoCtor
<1>7. CtorInv'
  BY <1>1, <1>3 DEF CtorInv, SizeFits, NoCtor
<1>8. Accounted'
  <2>1. ASSUME NEW fd \in openFds PROVE \E p \in Objects : own'[p].fd = fd
    <3>1. PICK p \in Objects : own[p].fd = fd
      BY <1>1 DEF BufferInv, Accounted
    <3>2. p # o
      BY <1>1, <3>1 DEF Blank, Fresh, BufferInv, BufferTypeOK
    <3> QED BY <1>3, <3>1, <3>2
  <2>2. ASSUME NEW area \in Areas, views[area] # "free" PROVE \E p \in Objects : own'[p].data = area
    <3>1. PICK p \in Objects : own[p].data = area
      BY <1>1, <2>2 DEF BufferInv, Accounted
    <3>2. p # o
      BY <1>1, <3>1 DEF Blank, Fresh
    <3> QED BY <1>3, <3>1, <3>2
  <2> QED BY <1>1, <2>1, <2>2 DEF Accounted
<1> QED BY <1>4, <1>5, <1>6, <1>7, <1>8 DEF BufferInv

\* DoubleMapBuffer, RingBuffer and MappedCheckPointRing begin with a size that fits.
LEMMA ConstructorsInv ==
  ASSUME BufferInv, NEW o \in Objects
  PROVE  /\ \A n \in Requests : DoubleMapBuffer(o, n) \/ RingBuffer(o, n) => BufferInv'
         /\ MappedCheckPointRing(o) => BufferInv'
<1> USE SizeAssumption
<1>1. ASSUME NEW n \in Requests, DoubleMapBuffer(o, n) PROVE BufferInv'
  <2>1. n \in 1..(WordMod - 1)
    BY <1>1, RequestAssumption DEF DoubleMapBuffer
  <2>2. PICK size \in RoundUpToPowerOfTwo(RoundUpToPageSize(n)) : Begin(o, "double", size, n)
    BY <1>1 DEF DoubleMapBuffer
  <2>3. /\ size \in 0..(WordMod - 1)
        /\ size > 0 /\ size % Page = 0 => size >= n /\ size \in PowersOfTwo
    BY <2>1, <2>2, DoubleSizeFits
  <2> QED BY <2>1, <2>2, <2>3, BeginInv
<1>2. ASSUME NEW n \in Requests, RingBuffer(o, n) PROVE BufferInv'
  <2> DEFINE bytes == n * SlotBytes
  <2>1. /\ n \in PowersOfTwo /\ n \in Nat /\ n <= (WordMod - 1) \div SlotBytes
        /\ Begin(o, "ring", bytes, bytes)
    BY <1>2, RequestAssumption DEF RingBuffer, ValidCapacity
  <2>2. bytes \in 0..(WordMod - 1)
    <3> DEFINE most == (WordMod - 1) \div SlotBytes
    <3>1. most \in Nat /\ most * SlotBytes <= WordMod - 1 /\ most * SlotBytes \in Nat
      BY SlotAssumption, SMT
    <3>2. n <= most /\ n \in Nat /\ SlotBytes \in Nat
      BY <2>1, SlotAssumption
    <3> HIDE DEF most
    <3>3. n * SlotBytes <= most * SlotBytes /\ n * SlotBytes \in Nat
      <4>1. \A k, x, y \in Nat : x <= y => x * k <= y * k /\ x * k \in Nat
        BY SMT
      <4> QED BY <3>1, <3>2, <4>1
    <3> QED BY <3>1, <3>3
  <2>3. bytes \in PowersOfTwo
    BY <2>1, <2>2, SlotAssumption
  <2> HIDE DEF bytes
  <2> QED BY <2>1, <2>2, <2>3, BeginInv
<1>3. ASSUME MappedCheckPointRing(o) PROVE BufferInv'
  <2>1. Begin(o, "server", 0, 0) /\ 0 \in 0..(WordMod - 1)
    BY <1>3 DEF MappedCheckPointRing
  <2> QED BY <2>1, BeginInv
<1> QED BY <1>1, <1>2, <1>3

\* mkstemp or open: the new descriptor has one owner.
LEMMA OpenFileInv ==
  ASSUME BufferInv, NEW fd \in Fds, OpenFile(fd)
  PROVE  BufferInv'
<1> USE OwnerAssumption
<1> DEFINE me == ctor.self
<1>1. /\ ctor # NoCtor /\ ctor.at = "open" /\ fd \notin openFds /\ openFds' = openFds \cup {fd}
      /\ UNCHANGED <<live, views, span>>
  BY DEF OpenFile
<1>2. /\ ctor \in Constructors /\ me \in Objects /\ me \notin live /\ own[me] \in Members
      /\ own[me].data = Null /\ own[me].fd = NoFd
  BY <1>1, CtorFacts DEF BufferInv, CtorInv
<1>3. CASE ctor.class = "server"
  <2>1. own' = [own EXCEPT ![me].fd = fd] /\ ctor' = [ctor EXCEPT !.at = "size"]
    BY <1>1, <1>3 DEF OpenFile
  <2>2. /\ own'[me].fd = fd /\ own'[me].data = Null /\ own'[me].size = own[me].size
        /\ own'[me].asked = own[me].asked /\ own'[me] \in Members
        /\ \A o \in Objects : o # me => own'[o] = own[o]
    BY <1>2, <2>1 DEF BufferInv, BufferTypeOK, Members
  <2>3. /\ ctor' \in Constructors /\ ctor' # NoCtor /\ ctor'.at = "size" /\ ctor'.self = me
        /\ ctor'.class = "server"
    BY <1>2, <1>3, <2>1 DEF Constructors, NoCtor
  <2>4. BufferTypeOK'
    <3>1. own' \in [Objects -> Members]
      BY <1>2, <2>1, <2>2 DEF BufferInv, BufferTypeOK
    <3>2. ctor' \in Constructors'
      BY <1>1, <2>3 DEF Constructors
    <3> QED BY <1>1, <3>1, <3>2 DEF BufferInv, BufferTypeOK
  <2>5. OwnedOnce'
    BY <1>1, <2>2 DEF BufferInv, OwnedOnce
  <2>6. LiveIsMirrored'
    BY <1>1, <1>2, <2>2 DEF BufferInv, BufferTypeOK, LiveIsMirrored
  <2>7. /\ (\A p \in Objects : own[p].fd # NoFd => own[p].fd \in openFds)'
        /\ (\A p \in Objects \ live : own[p] = Blank \/ (ctor # NoCtor /\ ctor.self = p))'
    BY <1>1, <2>2, <2>3 DEF BufferInv
  <2>8. CtorInv'
    BY <1>1, <2>2, <2>3 DEF CtorInv
  <2>9. Accounted'
    <3>1. ASSUME NEW d \in openFds PROVE \E p \in Objects : own'[p].fd = d
      BY <1>1, <1>2, <2>2 DEF BufferInv, BufferTypeOK, Accounted
    <3>2. ASSUME NEW area \in Areas, views[area] # "free" PROVE \E p \in Objects : own'[p].data = area
      BY <1>1, <1>2, <2>2, <3>2 DEF BufferInv, Accounted
    <3> QED BY <1>1, <1>2, <2>2, <3>1, <3>2 DEF Accounted
  <2> QED BY <2>4, <2>5, <2>6, <2>7, <2>8, <2>9 DEF BufferInv
<1>4. CASE ctor.class # "server"
  <2>1. UNCHANGED own /\ ctor' = [ctor EXCEPT !.at = "size", !.fd = fd]
    BY <1>1, <1>4 DEF OpenFile
  <2>2. /\ ctor' \in Constructors /\ ctor' # NoCtor /\ ctor'.at = "size" /\ ctor'.self = me
        /\ ctor'.class = ctor.class /\ ctor'.fd = fd
    BY <1>2, <2>1 DEF Constructors, NoCtor
  <2>3. BufferTypeOK'
    <3>1. ctor' \in Constructors'
      BY <1>1, <2>2 DEF Constructors
    <3> QED BY <1>1, <2>1, <3>1 DEF BufferInv, BufferTypeOK
  <2>4. OwnedOnce' /\ LiveIsMirrored'
    BY <1>1, <2>1 DEF BufferInv, OwnedOnce, LiveIsMirrored
  <2>5. /\ (\A p \in Objects : own[p].fd # NoFd => own[p].fd \in openFds)'
        /\ (\A p \in Objects \ live : own[p] = Blank \/ (ctor # NoCtor /\ ctor.self = p))'
    BY <1>1, <2>1, <2>2 DEF BufferInv
  <2>6. CtorInv'
    <3>1. \A o \in Objects : own[o].fd # fd
      BY <1>1 DEF BufferInv
    <3>2. SizeFits(own[me])
      BY <1>1, <1>4 DEF BufferInv, CtorInv
    <3> QED BY <1>1, <1>2, <1>4, <2>1, <2>2, <3>1, <3>2 DEF CtorInv, SizeFits
  <2>7. Accounted'
    BY <1>1, <1>4, <2>1, <2>2 DEF BufferInv, Accounted
  <2> QED BY <2>3, <2>4, <2>5, <2>6, <2>7 DEF BufferInv
<1> QED BY <1>3, <1>4

\* An exception keeps the invariant when the constructor gives back what is its own
\* and nothing else.
LEMMA AbandonInv ==
  ASSUME BufferInv, ctor # NoCtor, Abandon, openFds' \subseteq openFds,
         views' \in [Areas -> {"free", "reserved", "first", "mirrored"}],
         span' \in [Areas -> 0..(WordMod - 1)],
         \A o \in Objects : o # ctor.self /\ own[o].fd # NoFd => own[o].fd \in openFds',
         \A d \in openFds' : \E o \in Objects : o # ctor.self /\ own[o].fd = d,
         \A o \in Objects : o # ctor.self /\ own[o].data # Null =>
           views'[own[o].data] = views[own[o].data] /\ span'[own[o].data] = span[own[o].data],
         \A area \in Areas : views'[area] # "free" =>
           \E o \in Objects : o # ctor.self /\ own[o].data = area
  PROVE  BufferInv'
<1> USE OwnerAssumption
<1> DEFINE me == ctor.self
<1>1. ctor' = NoCtor /\ own' = [own EXCEPT ![me] = Blank] /\ UNCHANGED live /\ me \in Objects /\ me \notin live
  BY CtorFacts DEF Abandon
<1>2. /\ own' \in [Objects -> Members] /\ own'[me] = Blank
      /\ \A o \in Objects : o # me => own'[o] = own[o]
  BY <1>1, BlankIsMembers DEF BufferInv, BufferTypeOK
<1>3. Blank.fd = NoFd /\ Blank.data = Null
  BY DEF Blank, Fresh
<1>4. BufferTypeOK'
  BY <1>1, <1>2 DEF BufferInv, BufferTypeOK
<1>5. OwnedOnce'
  BY <1>2, <1>3 DEF BufferInv, OwnedOnce
<1>6. LiveIsMirrored'
  <2> SUFFICES ASSUME NEW o \in live
               PROVE  \/ own'[o] = Blank
                      \/ /\ own'[o].fd \in openFds'
                         /\ own'[o].data \in Areas /\ views'[own'[o].data] = "mirrored"
                         /\ span'[own'[o].data] = own'[o].size
                         /\ own'[o].size >= own'[o].asked /\ own'[o].size % Page = 0
                         /\ own'[o].size \in PowersOfTwo /\ 2 * own'[o].size < WordMod
    BY <1>1 DEF LiveIsMirrored
  <2>1. o \in Objects /\ o # me /\ own'[o] = own[o]
    BY <1>1, <1>2 DEF BufferInv, BufferTypeOK
  <2>2. CASE own[o] = Blank
    BY <2>1, <2>2
  <2>3. CASE own[o] # Blank
    <3>1. /\ own[o].fd \in openFds /\ own[o].data \in Areas /\ views[own[o].data] = "mirrored"
          /\ span[own[o].data] = own[o].size
          /\ own[o].size >= own[o].asked /\ own[o].size % Page = 0
          /\ own[o].size \in PowersOfTwo /\ 2 * own[o].size < WordMod
      BY <2>3 DEF BufferInv, LiveIsMirrored
    <3>2. own[o].fd # NoFd /\ own[o].data # Null
      BY <3>1 DEF BufferInv, BufferTypeOK
    <3> QED BY <2>1, <3>1, <3>2
  <2> QED BY <2>2, <2>3
<1>7. /\ (\A p \in Objects : own[p].fd # NoFd => own[p].fd \in openFds)'
      /\ (\A p \in Objects \ live : own[p] = Blank \/ (ctor # NoCtor /\ ctor.self = p))'
  BY <1>1, <1>2, <1>3 DEF BufferInv
<1>8. CtorInv'
  BY <1>1 DEF CtorInv
<1>9. Accounted'
  BY <1>1, <1>2 DEF Accounted
<1> QED BY <1>4, <1>5, <1>6, <1>7, <1>8, <1>9 DEF BufferInv

\* The running constructor has no part in what the objects own.
LEMMA OthersOwn ==
  ASSUME BufferInv, ctor # NoCtor
  PROVE  /\ \A area \in Areas : views[area] # "free" =>
              \/ \E o \in Objects : o # ctor.self /\ own[o].data = area
              \/ ctor.at \in {"first", "second"} /\ ctor.area = area
         /\ \A d \in openFds :
              \/ \E o \in Objects : o # ctor.self /\ own[o].fd = d
              \/ own[ctor.self].fd = d
              \/ ctor.at = "size" /\ ctor.class # "server" /\ ctor.fd = d
  BY CtorFacts, OwnerAssumption DEF BufferInv, Accounted

LEMMA OpenFailsInv == ASSUME BufferInv, OpenFails PROVE BufferInv'
<1>1. ctor # NoCtor /\ ctor.at = "open" /\ Abandon /\ UNCHANGED <<openFds, views, span>>
  BY DEF OpenFails
<1>2. own[ctor.self].fd = NoFd /\ NoFd \notin openFds
  BY <1>1, OwnerAssumption DEF BufferInv, BufferTypeOK, CtorInv
<1> QED BY <1>1, <1>2, OthersOwn, AbandonInv DEF BufferInv, BufferTypeOK

LEMMA TruncateFailsInv == ASSUME BufferInv, TruncateFails PROVE BufferInv'
<1>1. /\ ctor # NoCtor /\ ctor.at = "size" /\ ctor.class # "server" /\ Abandon
      /\ openFds' = openFds \ {ctor.fd} /\ UNCHANGED <<views, span>>
  BY DEF TruncateFails
<1>2. own[ctor.self].fd = NoFd /\ NoFd \notin openFds /\ \A o \in Objects : own[o].fd # ctor.fd
  BY <1>1, OwnerAssumption DEF BufferInv, BufferTypeOK, CtorInv
<1> QED BY <1>1, <1>2, OthersOwn, AbandonInv DEF BufferInv, BufferTypeOK

\* The catch clause of a constructor that has a descriptor and no mapping.
LEMMA CatchInv ==
  ASSUME BufferInv, ctor # NoCtor, Catch,
         ctor.at = "reserve" \/ (ctor.at = "size" /\ ctor.class = "server")
  PROVE  BufferInv'
<1> DEFINE me == ctor.self
<1>1. me \in Objects /\ own[me].data = Null
  BY CtorFacts
<1>2. Abandon /\ openFds' = openFds \ {own[me].fd} /\ UNCHANGED <<views, span>>
  BY <1>1 DEF Catch, Release, Munmap
<1>3. \A o \in Objects : o # me /\ own[o].fd # NoFd => own[o].fd \in openFds'
  BY <1>1, <1>2 DEF BufferInv, OwnedOnce
<1> QED BY <1>1, <1>2, <1>3, OthersOwn, AbandonInv DEF BufferInv, BufferTypeOK

\* mapTwice gives the reservation back, and the catch clause the descriptor.
LEMMA MapFailsInv == ASSUME BufferInv, MapFails PROVE BufferInv'
<1> USE OwnerAssumption
<1> DEFINE me == ctor.self
           area == ctor.area
<1>1. /\ ctor # NoCtor /\ ctor.at \in {"first", "second"} /\ Abandon
      /\ openFds' = openFds \ {own[me].fd} /\ Munmap(area, own[me].size)
  BY DEF MapFails
<1>2. /\ area \in Areas /\ span[area] = own[me].size /\ me \in Objects
      /\ \A o \in Objects : own[o].data # area
  BY <1>1, CtorFacts DEF BufferInv, CtorInv
<1>3. views' = [views EXCEPT ![area] = "free"] /\ span' = [span EXCEPT ![area] = 0]
  BY <1>1, <1>2 DEF Munmap
<1>4. /\ views' \in [Areas -> {"free", "reserved", "first", "mirrored"}]
      /\ span' \in [Areas -> 0..(WordMod - 1)]
      /\ views'[area] = "free"
      /\ \A a \in Areas : a # area => views'[a] = views[a] /\ span'[a] = span[a]
  BY <1>2, <1>3, SizeAssumption DEF BufferInv, BufferTypeOK
<1>5. \A o \in Objects : o # me /\ own[o].fd # NoFd => own[o].fd \in openFds'
  BY <1>1, <1>2 DEF BufferInv, OwnedOnce
<1>6. \A o \in Objects : own[o].data # Null => own[o].data \in Areas /\ own[o].data # area
  BY <1>2 DEF BufferInv, BufferTypeOK, Members
<1>7. \A d \in openFds' : \E o \in Objects : o # me /\ own[o].fd = d
  BY <1>1, OthersOwn
<1>8. \A a \in Areas : views'[a] # "free" => \E o \in Objects : o # me /\ own[o].data = a
  BY <1>1, <1>4, OthersOwn
<1> HIDE DEF me, area
<1> QED BY <1>1, <1>4, <1>5, <1>6, <1>7, <1>8, AbandonInv DEF me

\* The descriptor goes from the local variable to the member.
LEMMA TruncateInv == ASSUME BufferInv, Truncate PROVE BufferInv'
<1> USE OwnerAssumption
<1> DEFINE me == ctor.self
<1>1. /\ ctor # NoCtor /\ ctor.at = "size" /\ ctor.class # "server"
      /\ own' = [own EXCEPT ![me].fd = ctor.fd] /\ ctor' = [ctor EXCEPT !.at = "reserve"]
      /\ UNCHANGED <<live, openFds, views, span>>
  BY DEF Truncate
<1>2. /\ ctor \in Constructors /\ me \in Objects /\ me \notin live /\ own[me] \in Members
      /\ own[me].data = Null /\ own[me].fd = NoFd /\ ctor.fd \in openFds
      /\ SizeFits(own[me]) /\ \A o \in Objects : own[o].fd # ctor.fd
  BY <1>1, CtorFacts DEF BufferInv, CtorInv
<1>3. /\ own'[me].fd = ctor.fd /\ own'[me].data = Null /\ own'[me].size = own[me].size
      /\ own'[me].asked = own[me].asked /\ own' \in [Objects -> Members]
      /\ \A o \in Objects : o # me => own'[o] = own[o]
  BY <1>1, <1>2 DEF BufferInv, BufferTypeOK, Members, Constructors
<1>4. /\ ctor' \in Constructors /\ ctor' \in Constructors' /\ ctor' # NoCtor /\ ctor'.at = "reserve"
      /\ ctor'.self = me
  BY <1>1, <1>2 DEF Constructors, NoCtor
<1>5. BufferTypeOK'
  BY <1>1, <1>3, <1>4 DEF BufferInv, BufferTypeOK
<1>6. OwnedOnce'
  BY <1>2, <1>3 DEF BufferInv, OwnedOnce
<1>7. LiveIsMirrored'
  BY <1>1, <1>2, <1>3 DEF BufferInv, BufferTypeOK, LiveIsMirrored
<1>8. /\ (\A p \in Objects : own[p].fd # NoFd => own[p].fd \in openFds)'
      /\ (\A p \in Objects \ live : own[p] = Blank \/ (ctor # NoCtor /\ ctor.self = p))'
  BY <1>1, <1>2, <1>3, <1>4 DEF BufferInv
<1>9. CtorInv'
  BY <1>1, <1>2, <1>3, <1>4 DEF CtorInv, SizeFits
<1>10. Accounted'
  <2>1. \A d \in openFds : \E p \in Objects : own'[p].fd = d
    BY <1>1, <1>2, <1>3, OthersOwn DEF BufferInv, BufferTypeOK
  <2>2. \A area \in Areas : views[area] # "free" => \E p \in Objects : own'[p].data = area
    BY <1>1, <1>3, OthersOwn
  <2> QED BY <1>1, <2>1, <2>2 DEF Accounted
<1> QED BY <1>5, <1>6, <1>7, <1>8, <1>9, <1>10 DEF BufferInv

\* validate_size accepts sizes that can be mapped, and gives the file back otherwise.
LEMMA ValidateSizeInv == ASSUME BufferInv, NEW bytes \in Requests, ValidateSize(bytes) PROVE BufferInv'
<1> USE OwnerAssumption
<1> DEFINE me == ctor.self
<1>1. ctor # NoCtor /\ ctor.at = "size" /\ ctor.class = "server"
  BY DEF ValidateSize
<1>2. CASE ~ValidSize(bytes)
  BY <1>1, <1>2, CatchInv DEF ValidateSize
<1>3. CASE ValidSize(bytes)
  <2>1. /\ own' = [own EXCEPT ![me].size = bytes, ![me].asked = bytes]
        /\ ctor' = [ctor EXCEPT !.at = "reserve"] /\ UNCHANGED <<live, openFds, views, span>>
    BY <1>3 DEF ValidateSize
  <2>2. /\ ctor \in Constructors /\ me \in Objects /\ me \notin live /\ own[me] \in Members
        /\ own[me].data = Null
    BY <1>1, CtorFacts
  <2>3. bytes \in 0..(WordMod - 1) /\ bytes \in PowersOfTwo
    <3>1. bytes \in 0..(WordMod - 1) /\ bytes % SlotBytes = 0 /\ bytes \div SlotBytes \in PowersOfTwo
      BY <1>3, RequestAssumption DEF ValidSize
    <3> DEFINE slots == bytes \div SlotBytes
    <3>2. slots * SlotBytes = bytes
      BY <3>1, SlotAssumption, SMT
    <3> HIDE DEF slots
    <3>3. slots \in PowersOfTwo
      BY <3>1 DEF slots
    <3> QED BY <3>1, <3>2, <3>3, SlotAssumption, SizeAssumption
  <2>4. /\ own'[me].fd = own[me].fd /\ own'[me].data = Null /\ own'[me].size = bytes
        /\ own'[me].asked = bytes /\ own' \in [Objects -> Members]
        /\ \A o \in Objects : o # me => own'[o] = own[o]
    BY <2>1, <2>2, <2>3 DEF BufferInv, BufferTypeOK, Members
  <2>5. /\ ctor' \in Constructors /\ ctor' \in Constructors' /\ ctor' # NoCtor
        /\ ctor'.at = "reserve" /\ ctor'.self = me
    BY <2>1, <2>2 DEF Constructors, NoCtor
  <2>6. own[me].fd \in openFds
    BY <1>1 DEF BufferInv, CtorInv
  <2>7. BufferTypeOK'
    BY <2>1, <2>4, <2>5 DEF BufferInv, BufferTypeOK
  <2>8. OwnedOnce'
    BY <2>2, <2>4 DEF BufferInv, OwnedOnce
  <2>9. LiveIsMirrored'
    BY <2>1, <2>2, <2>4 DEF BufferInv, BufferTypeOK, LiveIsMirrored
  <2>10. /\ (\A p \in Objects : own[p].fd # NoFd => own[p].fd \in openFds)'
         /\ (\A p \in Objects \ live : own[p] = Blank \/ (ctor # NoCtor /\ ctor.self = p))'
    BY <2>1, <2>2, <2>4, <2>5 DEF BufferInv
  <2>11. CtorInv'
    BY <2>1, <2>3, <2>4, <2>5, <2>6 DEF CtorInv, SizeFits
  <2>12. Accounted'
    <3>1. \A d \in openFds : \E p \in Objects : own'[p].fd = d
      BY <1>1, <2>2, <2>4, OthersOwn
    <3>2. \A area \in Areas : views[area] # "free" => \E p \in Objects : own'[p].data = area
      BY <1>1, <2>4, OthersOwn
    <3> QED BY <2>1, <3>1, <3>2 DEF Accounted
  <2> QED BY <2>7, <2>8, <2>9, <2>10, <2>11, <2>12 DEF BufferInv
<1> QED BY <1>2, <1>3

\* A reservation is made in an area that no object has.
LEMMA ReserveInv == ASSUME BufferInv, NEW area \in Areas, Reserve(area) PROVE BufferInv'
<1> USE OwnerAssumption
<1> DEFINE me == ctor.self
<1>1. /\ ctor # NoCtor /\ ctor.at = "reserve" /\ views[area] = "free"
      /\ own[me].size \in 1..((WordMod - 1) \div 2)
      /\ views' = [views EXCEPT ![area] = "reserved"] /\ span' = [span EXCEPT ![area] = own[me].size]
      /\ ctor' = [ctor EXCEPT !.at = "first", !.area = area] /\ UNCHANGED <<live, own, openFds>>
  BY DEF Reserve
<1>2. /\ ctor \in Constructors /\ me \in Objects /\ me \notin live /\ own[me] \in Members
      /\ own[me].data = Null /\ own[me].fd \in openFds /\ SizeFits(own[me])
  BY <1>1, CtorFacts DEF BufferInv, CtorInv
<1>3. own[me].size > 0 /\ 2 * own[me].size < WordMod
  BY <1>1, <1>2, HalfOfWord DEF Members
<1>4. /\ views' \in [Areas -> {"free", "reserved", "first", "mirrored"}]
      /\ span' \in [Areas -> 0..(WordMod - 1)]
      /\ views'[area] = "reserved" /\ span'[area] = own[me].size
      /\ \A a \in Areas : a # area => views'[a] = views[a] /\ span'[a] = span[a]
  BY <1>1, <1>2 DEF BufferInv, BufferTypeOK, Members
<1>5. /\ ctor' \in Constructors' /\ ctor' # NoCtor /\ ctor'.at = "first" /\ ctor'.self = me
      /\ ctor'.area = area
  BY <1>1, <1>2 DEF Constructors, NoCtor
<1>6. \A o \in Objects : own[o].data # area
  <2> SUFFICES ASSUME NEW o \in Objects, own[o].data = area PROVE FALSE
    OBVIOUS
  <2>1. CASE o \in live
    BY <1>1, <2>1 DEF BufferInv, LiveIsMirrored, Blank, Fresh
  <2>2. CASE o \notin live
    BY <1>2, <2>2 DEF BufferInv, Blank, Fresh
  <2> QED BY <2>1, <2>2
<1>7. BufferTypeOK' /\ OwnedOnce'
  BY <1>1, <1>4, <1>5 DEF BufferInv, BufferTypeOK, OwnedOnce
<1>8. LiveIsMirrored'
  BY <1>1, <1>4, <1>6 DEF BufferInv, BufferTypeOK, LiveIsMirrored
<1>9. /\ (\A p \in Objects : own[p].fd # NoFd => own[p].fd \in openFds)'
      /\ (\A p \in Objects \ live : own[p] = Blank \/ (ctor # NoCtor /\ ctor.self = p))'
  BY <1>1, <1>5 DEF BufferInv
<1>10. CtorInv'
  BY <1>1, <1>2, <1>3, <1>4, <1>5, <1>6 DEF CtorInv, SizeFits
<1>11. Accounted'
  BY <1>1, <1>4, <1>5 DEF BufferInv, Accounted
<1> QED BY <1>7, <1>8, <1>9, <1>10, <1>11 DEF BufferInv

\* With the second view the object exists, and owns what the constructor had.
LEMMA MapSecondInv == ASSUME BufferInv, MapSecond PROVE BufferInv'
<1> USE OwnerAssumption
<1> DEFINE me == ctor.self
           area == ctor.area
<1>1. /\ ctor # NoCtor /\ ctor.at = "second" /\ own[me].size % Page = 0
      /\ views' = [views EXCEPT ![area] = "mirrored"] /\ own' = [own EXCEPT ![me].data = area]
      /\ live' = live \cup {me} /\ ctor' = NoCtor /\ UNCHANGED <<openFds, span>>
  BY DEF MapSecond
<1>2. /\ me \in Objects /\ me \notin live /\ own[me] \in Members
      /\ own[me].fd \in openFds /\ SizeFits(own[me]) /\ area \in Areas
      /\ span[area] = own[me].size /\ own[me].size > 0 /\ 2 * own[me].size < WordMod
      /\ \A o \in Objects : own[o].data # area
  BY <1>1, CtorFacts DEF BufferInv, CtorInv
<1>3. /\ own'[me].fd = own[me].fd /\ own'[me].data = area /\ own'[me].size = own[me].size
      /\ own'[me].asked = own[me].asked /\ own' \in [Objects -> Members]
      /\ \A o \in Objects : o # me => own'[o] = own[o]
  BY <1>1, <1>2 DEF BufferInv, BufferTypeOK, Members
<1>4. /\ views' \in [Areas -> {"free", "reserved", "first", "mirrored"}] /\ views'[area] = "mirrored"
      /\ \A a \in Areas : a # area => views'[a] = views[a]
  BY <1>1, <1>2 DEF BufferInv, BufferTypeOK
<1>5. BufferTypeOK'
  BY <1>1, <1>2, <1>3, <1>4 DEF BufferInv, BufferTypeOK
<1>6. OwnedOnce'
  BY <1>2, <1>3 DEF BufferInv, OwnedOnce
<1>7. LiveIsMirrored'
  <2> HIDE DEF me, area
  <2>1. own'[me].size >= own'[me].asked /\ own'[me].size \in PowersOfTwo
    BY <1>1, <1>2, <1>3 DEF SizeFits
  <2>2. \A o \in live : o \in Objects /\ o # me /\ own'[o] = own[o] /\ own[o].data # area
    BY <1>2, <1>3 DEF BufferInv, BufferTypeOK
  <2> QED BY <1>1, <1>2, <1>3, <1>4, <2>1, <2>2 DEF BufferInv, LiveIsMirrored
<1>8. /\ (\A p \in Objects : own[p].fd # NoFd => own[p].fd \in openFds)'
      /\ (\A p \in Objects \ live : own[p] = Blank \/ (ctor # NoCtor /\ ctor.self = p))'
  BY <1>1, <1>2, <1>3 DEF BufferInv
<1>9. CtorInv'
  BY <1>1 DEF CtorInv
<1>10. Accounted'
  <2>1. \A d \in openFds : \E p \in Objects : own'[p].fd = d
    BY <1>1, <1>2, <1>3, OthersOwn
  <2>2. \A a \in Areas : views'[a] # "free" => \E p \in Objects : own'[p].data = a
    BY <1>1, <1>2, <1>3, <1>4, OthersOwn
  <2> QED BY <1>1, <2>1, <2>2 DEF Accounted
<1> QED BY <1>5, <1>6, <1>7, <1>8, <1>9, <1>10 DEF BufferInv

\* What release gives back for a live object: what is its own, and nothing else.
LEMMA ReleaseLive ==
  ASSUME BufferInv, NEW o \in live, Release(own[o])
  PROVE  /\ openFds' = openFds \ {own[o].fd}
         /\ views' \in [Areas -> {"free", "reserved", "first", "mirrored"}]
         /\ span' \in [Areas -> 0..(WordMod - 1)]
         /\ \A a \in Areas : a # own[o].data => views'[a] = views[a] /\ span'[a] = span[a]
         /\ own[o].data # Null => views'[own[o].data] = "free"
<1> USE OwnerAssumption, SizeAssumption
<1>1. openFds' = openFds \ {own[o].fd} /\ Munmap(own[o].data, own[o].size)
  BY DEF Release
<1>2. CASE own[o].data = Null
  BY <1>1, <1>2 DEF Munmap, BufferInv, BufferTypeOK
<1>3. CASE own[o].data # Null
  <2>1. own[o].data \in Areas /\ span[own[o].data] = own[o].size
    BY <1>3 DEF BufferInv, LiveIsMirrored, Blank, Fresh
  <2>2. /\ views' = [views EXCEPT ![own[o].data] = "free"]
        /\ span' = [span EXCEPT ![own[o].data] = 0]
    BY <1>1, <1>3, <2>1 DEF Munmap
  <2> QED BY <1>1, <2>1, <2>2 DEF BufferInv, BufferTypeOK
<1> QED BY <1>2, <1>3

\* Outside the constructors every object that does not exist owns nothing.
LEMMA IdleFacts ==
  ASSUME BufferInv, Idle
  PROVE  /\ \A o \in Objects \ live : own[o] = Blank
         /\ Blank.fd = NoFd /\ Blank.data = Null
         /\ \A d \in openFds : \E o \in live : own[o].fd = d
         /\ \A a \in Areas : views[a] # "free" => \E o \in live : own[o].data = a
<1> USE OwnerAssumption
<1>1. /\ \A o \in Objects \ live : own[o] = Blank
      /\ Blank.fd = NoFd /\ Blank.data = Null
  BY DEF BufferInv, Idle, Blank, Fresh
<1>2. \A d \in openFds : \E o \in live : own[o].fd = d
  BY <1>1 DEF BufferInv, BufferTypeOK, Accounted, Idle
<1>3. \A a \in Areas : views[a] # "free" => \E o \in live : own[o].data = a
  BY <1>1 DEF BufferInv, BufferTypeOK, Accounted, Idle
<1> QED BY <1>1, <1>2, <1>3

\* The moved-to object takes over, and the other one owns nothing.
LEMMA MoveConstructInv ==
  ASSUME BufferInv, NEW o \in Objects, NEW p \in Objects, MoveConstruct(o, p)
  PROVE  BufferInv'
<1> USE OwnerAssumption
<1>1. /\ Idle /\ o \in live /\ p \notin live /\ o # p
      /\ own' = [own EXCEPT ![p] = own[o], ![o] = Blank]
      /\ live' = live \cup {p} /\ UNCHANGED <<ctor, openFds, views, span>>
  BY DEF MoveConstruct, MovedFrom
<1>2. /\ own'[p] = own[o] /\ own'[o] = Blank /\ own' \in [Objects -> Members]
      /\ \A q \in Objects : q # o /\ q # p => own'[q] = own[q]
  BY <1>1, BlankIsMembers DEF BufferInv, BufferTypeOK
<1>3. BufferTypeOK' /\ CtorInv'
  BY <1>1, <1>2 DEF BufferInv, BufferTypeOK, Idle, CtorInv
<1>4. OwnedOnce'
  BY <1>1, <1>2, IdleFacts DEF BufferInv, OwnedOnce
<1>5. LiveIsMirrored'
  BY <1>1, <1>2 DEF BufferInv, BufferTypeOK, LiveIsMirrored
<1>6. /\ (\A q \in Objects : own[q].fd # NoFd => own[q].fd \in openFds)'
      /\ (\A q \in Objects \ live : own[q] = Blank \/ (ctor # NoCtor /\ ctor.self = q))'
  BY <1>1, <1>2, IdleFacts DEF BufferInv
<1>7. Accounted'
  <2>1. ASSUME NEW d \in openFds PROVE \E q \in Objects : own'[q].fd = d
    <3>1. PICK q \in live : own[q].fd = d
      BY <1>1, IdleFacts
    <3>2. q \in Objects /\ q # p
      BY <1>1 DEF BufferInv, BufferTypeOK
    <3> QED BY <1>2, <3>1, <3>2
  <2>2. ASSUME NEW a \in Areas, views[a] # "free" PROVE \E q \in Objects : own'[q].data = a
    <3>1. PICK q \in live : own[q].data = a
      BY <1>1, <2>2, IdleFacts
    <3>2. q \in Objects /\ q # p
      BY <1>1 DEF BufferInv, BufferTypeOK
    <3> QED BY <1>2, <3>1, <3>2
  <2> QED BY <1>1, <2>1, <2>2 DEF Accounted
<1> QED BY <1>3, <1>4, <1>5, <1>6, <1>7 DEF BufferInv

\* A destroyed object takes its own descriptor and mapping with it.
LEMMA DestroyInv ==
  ASSUME BufferInv, NEW o \in Objects, Destroy(o)
  PROVE  BufferInv'
<1> USE OwnerAssumption
<1>1. /\ Idle /\ o \in live /\ Release(own[o]) /\ own' = [own EXCEPT ![o] = Blank]
      /\ live' = live \ {o} /\ UNCHANGED ctor
  BY DEF Destroy
<1>2. /\ own'[o] = Blank /\ own' \in [Objects -> Members]
      /\ \A q \in Objects : q # o => own'[q] = own[q]
  BY <1>1, BlankIsMembers DEF BufferInv, BufferTypeOK
<1>3. /\ openFds' = openFds \ {own[o].fd}
      /\ views' \in [Areas -> {"free", "reserved", "first", "mirrored"}]
      /\ span' \in [Areas -> 0..(WordMod - 1)]
      /\ \A a \in Areas : a # own[o].data => views'[a] = views[a] /\ span'[a] = span[a]
      /\ own[o].data # Null => views'[own[o].data] = "free"
  BY <1>1, ReleaseLive
<1>4. BufferTypeOK' /\ CtorInv'
  BY <1>1, <1>2, <1>3 DEF BufferInv, BufferTypeOK, Idle, CtorInv
<1>5. OwnedOnce'
  BY <1>1, <1>2, IdleFacts DEF BufferInv, OwnedOnce
<1>6. ASSUME NEW q \in live, q # o
      PROVE  /\ own[q].fd # NoFd => own[q].fd \in openFds'
             /\ own[q].data # Null => own[q].data \in Areas /\ own[q].data # own[o].data
  BY <1>1, <1>3, <1>6 DEF BufferInv, BufferTypeOK, OwnedOnce, Members
<1>7. LiveIsMirrored'
  <2> SUFFICES ASSUME NEW q \in live, q # o, own[q] # Blank
               PROVE  /\ own[q].fd \in openFds'
                      /\ own[q].data \in Areas /\ views'[own[q].data] = "mirrored"
                      /\ span'[own[q].data] = own[q].size
                      /\ own[q].size >= own[q].asked /\ own[q].size % Page = 0
                      /\ own[q].size \in PowersOfTwo /\ 2 * own[q].size < WordMod
    BY <1>1, <1>2 DEF LiveIsMirrored, BufferInv, BufferTypeOK
  <2>1. /\ own[q].fd \in openFds /\ own[q].data \in Areas /\ views[own[q].data] = "mirrored"
        /\ span[own[q].data] = own[q].size
        /\ own[q].size >= own[q].asked /\ own[q].size % Page = 0
        /\ own[q].size \in PowersOfTwo /\ 2 * own[q].size < WordMod
    BY DEF BufferInv, LiveIsMirrored
  <2>2. own[q].fd # NoFd /\ own[q].data # Null
    BY <2>1 DEF BufferInv, BufferTypeOK
  <2> QED BY <1>3, <1>6, <2>1, <2>2
<1>8. /\ (\A q \in Objects : own[q].fd # NoFd => own[q].fd \in openFds)'
      /\ (\A q \in Objects \ live : own[q] = Blank \/ (ctor # NoCtor /\ ctor.self = q))'
  BY <1>1, <1>2, <1>6, IdleFacts DEF BufferInv
<1>9. Accounted'
  <2>1. ASSUME NEW d \in openFds' PROVE \E q \in Objects : own'[q].fd = d
    <3>1. PICK q \in live : own[q].fd = d
      BY <1>1, <1>3, IdleFacts
    <3>2. q \in Objects /\ q # o
      BY <1>3, <3>1 DEF BufferInv, BufferTypeOK
    <3> QED BY <1>2, <3>1, <3>2
  <2>2. ASSUME NEW a \in Areas, views'[a] # "free" PROVE \E q \in Objects : own'[q].data = a
    <3>1. a # own[o].data /\ views[a] # "free"
      BY <1>3, <2>2
    <3>2. PICK q \in live : own[q].data = a
      BY <1>1, <3>1, IdleFacts
    <3>3. q \in Objects /\ q # o
      BY <3>1, <3>2 DEF BufferInv, BufferTypeOK
    <3> QED BY <1>2, <3>2, <3>3
  <2> QED BY <2>1, <2>2 DEF Accounted
<1> QED BY <1>4, <1>5, <1>7, <1>8, <1>9 DEF BufferInv

\* An assignment gives back what the target had, and then hands the members on.
LEMMA MoveAssignInv ==
  ASSUME BufferInv, NEW o \in Objects, NEW p \in Objects, MoveAssign(o, p)
  PROVE  BufferInv'
<1> USE OwnerAssumption
<1>1. /\ Idle /\ o \in live /\ p \in live /\ o # p /\ Release(own[p])
      /\ own' = [own EXCEPT ![p] = own[o], ![o] = Blank]
      /\ UNCHANGED <<live, ctor>>
  BY DEF MoveAssign, MovedFrom
<1>2. /\ own'[p] = own[o] /\ own'[o] = Blank /\ own' \in [Objects -> Members]
      /\ \A q \in Objects : q # o /\ q # p => own'[q] = own[q]
  BY <1>1, BlankIsMembers DEF BufferInv, BufferTypeOK
<1>3. /\ openFds' = openFds \ {own[p].fd}
      /\ views' \in [Areas -> {"free", "reserved", "first", "mirrored"}]
      /\ span' \in [Areas -> 0..(WordMod - 1)]
      /\ \A a \in Areas : a # own[p].data => views'[a] = views[a] /\ span'[a] = span[a]
      /\ own[p].data # Null => views'[own[p].data] = "free"
  BY <1>1, ReleaseLive
<1>4. BufferTypeOK' /\ CtorInv'
  BY <1>1, <1>2, <1>3 DEF BufferInv, BufferTypeOK, Idle, CtorInv
<1>5. OwnedOnce'
  BY <1>1, <1>2, IdleFacts DEF BufferInv, OwnedOnce
<1>6. ASSUME NEW q \in live, q # p
      PROVE  /\ own[q].fd # NoFd => own[q].fd \in openFds'
             /\ own[q].data # Null => own[q].data \in Areas /\ own[q].data # own[p].data
  BY <1>1, <1>3, <1>6 DEF BufferInv, BufferTypeOK, OwnedOnce, Members
<1>7. ASSUME NEW q \in live, q # p, own[q] # Blank
      PROVE  /\ own[q].fd \in openFds'
             /\ own[q].data \in Areas /\ views'[own[q].data] = "mirrored"
             /\ span'[own[q].data] = own[q].size
             /\ own[q].size >= own[q].asked /\ own[q].size % Page = 0
             /\ own[q].size \in PowersOfTwo /\ 2 * own[q].size < WordMod
  <2>1. /\ own[q].fd \in openFds /\ own[q].data \in Areas /\ views[own[q].data] = "mirrored"
        /\ span[own[q].data] = own[q].size
        /\ own[q].size >= own[q].asked /\ own[q].size % Page = 0
        /\ own[q].size \in PowersOfTwo /\ 2 * own[q].size < WordMod
    BY <1>7 DEF BufferInv, LiveIsMirrored
  <2>2. own[q].fd # NoFd /\ own[q].data # Null
    BY <2>1 DEF BufferInv, BufferTypeOK
  <2> QED BY <1>3, <1>6, <1>7, <2>1, <2>2
<1>8. LiveIsMirrored'
  <2>1. ASSUME NEW q \in live, own'[q] # Blank
        PROVE  \E r \in live : r # p /\ own[r] # Blank /\ own'[q] = own[r]
    <3>1. q \in Objects /\ q # o
      BY <1>1, <1>2, <2>1 DEF BufferInv, BufferTypeOK
    <3>2. CASE q = p
      <4>1. own'[q] = own[o] /\ o \in live /\ o # p
        BY <1>1, <1>2, <3>2
      <4> QED BY <2>1, <4>1
    <3>3. CASE q # p
      BY <1>2, <2>1, <3>1, <3>3
    <3> QED BY <3>2, <3>3
  <2>2. ASSUME NEW q \in live, own'[q] # Blank
        PROVE  /\ own'[q].fd \in openFds'
               /\ own'[q].data \in Areas /\ views'[own'[q].data] = "mirrored"
               /\ span'[own'[q].data] = own'[q].size
               /\ own'[q].size >= own'[q].asked /\ own'[q].size % Page = 0
               /\ own'[q].size \in PowersOfTwo /\ 2 * own'[q].size < WordMod
    <3>1. PICK r \in live : r # p /\ own[r] # Blank /\ own'[q] = own[r]
      BY <2>1, <2>2
    <3> QED BY <1>7, <3>1
  <2>3. live' = live /\ Blank' = Blank
    BY <1>1 DEF Blank, Fresh
  <2> QED BY <2>2, <2>3 DEF LiveIsMirrored
<1>9. /\ (\A q \in Objects : own[q].fd # NoFd => own[q].fd \in openFds)'
      /\ (\A q \in Objects \ live : own[q] = Blank \/ (ctor # NoCtor /\ ctor.self = q))'
  BY <1>1, <1>2, <1>6, IdleFacts DEF BufferInv
<1>10. Accounted'
  <2>1. ASSUME NEW d \in openFds' PROVE \E q \in Objects : own'[q].fd = d
    <3>1. PICK q \in live : own[q].fd = d
      BY <1>1, <1>3, IdleFacts
    <3>2. q \in Objects /\ q # p
      BY <1>3, <3>1 DEF BufferInv, BufferTypeOK
    <3> QED BY <1>2, <3>1, <3>2
  <2>2. ASSUME NEW a \in Areas, views'[a] # "free" PROVE \E q \in Objects : own'[q].data = a
    <3>1. a # own[p].data /\ views[a] # "free"
      BY <1>3, <2>2
    <3>2. PICK q \in live : own[q].data = a
      BY <1>1, <3>1, IdleFacts
    <3>3. q \in Objects /\ q # p
      BY <3>1, <3>2 DEF BufferInv, BufferTypeOK
    <3> QED BY <1>2, <3>2, <3>3
  <2> QED BY <2>1, <2>2 DEF Accounted
<1> QED BY <1>4, <1>5, <1>8, <1>9, <1>10 DEF BufferInv

\* The first view is mapped over the reservation.
LEMMA MapFirstInv == ASSUME BufferInv, MapFirst PROVE BufferInv'
<1> USE OwnerAssumption
<1> DEFINE me == ctor.self
           area == ctor.area
<1>1. /\ ctor # NoCtor /\ ctor.at = "first" /\ views' = [views EXCEPT ![area] = "first"]
      /\ ctor' = [ctor EXCEPT !.at = "second"] /\ UNCHANGED <<live, own, openFds, span>>
  BY DEF MapFirst
<1>2. /\ ctor \in Constructors /\ me \in Objects /\ area \in Areas /\ own[me].data = Null
      /\ own[me].fd \in openFds /\ SizeFits(own[me]) /\ \A o \in Objects : own[o].data # area
      /\ span[area] = own[me].size /\ own[me].size > 0 /\ 2 * own[me].size < WordMod
  BY <1>1, CtorFacts DEF BufferInv, CtorInv
<1>3. /\ ctor' \in Constructors' /\ ctor' # NoCtor /\ ctor'.at = "second" /\ ctor'.self = me
      /\ ctor'.area = area
  BY <1>1, <1>2 DEF Constructors, NoCtor
<1>4. /\ views' \in [Areas -> {"free", "reserved", "first", "mirrored"}] /\ views'[area] = "first"
      /\ \A a \in Areas : a # area => views'[a] = views[a]
  BY <1>1, <1>2 DEF BufferInv, BufferTypeOK
<1>5. BufferTypeOK' /\ OwnedOnce'
  BY <1>1, <1>3, <1>4 DEF BufferInv, BufferTypeOK, OwnedOnce
<1>6. LiveIsMirrored'
  BY <1>1, <1>2, <1>4 DEF BufferInv, BufferTypeOK, LiveIsMirrored
<1>7. /\ (\A p \in Objects : own[p].fd # NoFd => own[p].fd \in openFds)'
      /\ (\A p \in Objects \ live : own[p] = Blank \/ (ctor # NoCtor /\ ctor.self = p))'
  BY <1>1, <1>3 DEF BufferInv
<1>8. CtorInv'
  BY <1>1, <1>2, <1>3, <1>4 DEF CtorInv, SizeFits
<1>9. Accounted'
  BY <1>1, <1>3, <1>4 DEF BufferInv, Accounted
<1> QED BY <1>5, <1>6, <1>7, <1>8, <1>9 DEF BufferInv

\* Every step keeps the invariant.
LEMMA BufferInvStep == BufferInv /\ [BufferNext]_bufferVars => BufferInv'
<1> SUFFICES ASSUME BufferInv, [BufferNext]_bufferVars PROVE BufferInv'
  OBVIOUS
<1>1. ASSUME NEW o \in Objects, NEW n \in Requests, DoubleMapBuffer(o, n) \/ RingBuffer(o, n)
      PROVE  BufferInv'
  BY <1>1, ConstructorsInv
<1>2. ASSUME NEW o \in Objects, MappedCheckPointRing(o) PROVE BufferInv'
  BY <1>2, ConstructorsInv
<1>3. ASSUME NEW fd \in Fds, OpenFile(fd) PROVE BufferInv'
  BY <1>3, OpenFileInv
<1>4. CASE OpenFails
  BY <1>4, OpenFailsInv
<1>5. CASE Truncate
  BY <1>5, TruncateInv
<1>6. CASE TruncateFails
  BY <1>6, TruncateFailsInv
<1>7. ASSUME NEW bytes \in Requests, ValidateSize(bytes) PROVE BufferInv'
  BY <1>7, ValidateSizeInv
<1>8. ASSUME NEW area \in Areas, Reserve(area) PROVE BufferInv'
  BY <1>8, ReserveInv
<1>9. CASE ReserveFails
  BY <1>9, CatchInv DEF ReserveFails
<1>10. CASE MapFirst
  BY <1>10, MapFirstInv
<1>11. CASE MapSecond
  BY <1>11, MapSecondInv
<1>12. CASE MapFails
  BY <1>12, MapFailsInv
<1>13. ASSUME NEW o \in Objects, NEW p \in Objects, MoveConstruct(o, p) \/ MoveAssign(o, p)
       PROVE  BufferInv'
  BY <1>13, MoveConstructInv, MoveAssignInv
<1>14. ASSUME NEW o \in Objects, Destroy(o) PROVE BufferInv'
  BY <1>14, DestroyInv
<1>15. CASE UNCHANGED bufferVars
  BY <1>15
  DEF bufferVars, BufferInv, BufferTypeOK, OwnedOnce, LiveIsMirrored, CtorInv, SizeFits, Accounted,
      Constructors
<1> QED
  BY <1>1, <1>2, <1>3, <1>4, <1>5, <1>6, <1>7, <1>8, <1>9, <1>10, <1>11, <1>12, <1>13, <1>14, <1>15
  DEF BufferNext, Construct

-----------------------------------------------------------------------------
LEMMA BufferInvariant == BufferSpec => []BufferInv
BY BufferInvInit, BufferInvStep, PTL DEF BufferSpec

\* The members of the buffers and the tables of the system stay well-formed.
THEOREM BufferTypes == BufferSpec => []BufferTypeOK
<1>1. BufferInv => BufferTypeOK
  BY DEF BufferInv
<1> QED BY <1>1, BufferInvariant, PTL

\* No exception, move, assignment or destruction loses a descriptor or a mapping.
THEOREM BuffersNeverLeak == BufferSpec => []NothingLeaks
<1>1. BufferInv => NothingLeaks
  BY IdleFacts DEF NothingLeaks
<1> QED BY <1>1, BufferInvariant, PTL

\* No two objects own the same descriptor or mapping, so nothing is given back twice.
THEOREM BuffersOwnedOnce == BufferSpec => []OwnedOnce
<1>1. BufferInv => OwnedOnce
  BY DEF BufferInv
<1> QED BY <1>1, BufferInvariant, PTL

\* An object that exists is empty after a move, or a complete mirrored mapping that is
\* as large as it was asked to be.
THEOREM BuffersMirrored == BufferSpec => []LiveIsMirrored
<1>1. BufferInv => LiveIsMirrored
  BY DEF BufferInv
<1> QED BY <1>1, BufferInvariant, PTL
==============================================================================
