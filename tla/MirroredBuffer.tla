--------------------------- MODULE MirroredBuffer ----------------------------
(***************************************************************************)
(* The owners of the mirrored mappings: DoubleMapBuffer, RingBuffer and    *)
(* MappedCheckPointRing.  The three classes acquire the same things in the *)
(* same order: a descriptor, a reservation of twice the size, and two      *)
(* views of the file on top of it.  Every system call may fail; objects    *)
(* are moved, assigned and destroyed; and the system gives a descriptor or *)
(* an area that has been given back to the next one who asks.              *)
(*                                                                         *)
(* The code runs in one thread.  Each system call of a constructor is a    *)
(* step, so that its cleanup starts from what has been acquired by then.   *)
(* Sizes are in bytes.                                                     *)
(***************************************************************************)
EXTENDS Integers

CONSTANTS
  Objects,    \* the objects of a process
  Fds,        \* bound: descriptors
  Areas,      \* bound: address ranges
  NoFd, Null, \* -1 and nullptr
  WordMod,    \* size_t counts modulo 2^64
  Page,       \* the page size, in bytes
  SlotBytes,  \* sizeof(CheckPoint)
  Requests    \* capacities that programs ask for, and sizes of ring files

\* has_single_bit: no odd number but 1 divides a power of two.
PowersOfTwo == {p \in 1..(WordMod - 1) : \A d \in 2..p : p % d = 0 => d % 2 = 0}

ASSUME OwnerAssumption == NoFd \notin Fds /\ Null \notin Areas
ASSUME SizeAssumption == WordMod \in Nat /\ Page \in Nat /\ Page > 1 /\ Page < WordMod
ASSUME SlotAssumption ==
  /\ SlotBytes \in Nat \ {0}
  /\ \A p \in PowersOfTwo : p * SlotBytes < WordMod => p * SlotBytes \in PowersOfTwo
ASSUME RequestAssumption == Requests \subseteq 0..(WordMod - 1)

VARIABLES
  live,     \* the objects that exist
  own,      \* fd_, data_ or buffer_, byteSize_ of each object; asked is a ghost:
            \* the bytes it was constructed for
  ctor,     \* the constructor that is running: its object, class, next system
            \* call, and the descriptor and reservation in locals; or NoCtor
  openFds,  \* open descriptors
  views,    \* what is mapped in an area: "free", "reserved", "first" or "mirrored"
  span      \* half the bytes mapped there

bufferVars == <<live, own, ctor, openFds, views, span>>

-----------------------------------------------------------------------------
\* The sum may wrap around.
RoundUpToPageSize(n) == (((n + Page - 1) % WordMod) \div Page) * Page

\* The capacities bit_ceil may return; beyond the highest power of two it is
\* undefined, and shifts by the width of the word.
RoundUpToPowerOfTwo(n) ==
  LET above == {p \in PowersOfTwo : p >= n}
  IN  IF above = {} THEN {0, 1} ELSE {p \in above : \A q \in above : p <= q}

\* Mutation of ValidCapacity: the size in bytes may be too large for a word.
ValidCapacityUnchecked(n) == n \in PowersOfTwo /\ (n * SlotBytes) % Page = 0

\* checkedByteSize and validateCapacity, for a capacity in slots.
ValidCapacity(n) ==
  /\ n # 0 /\ n <= (WordMod - 1) \div SlotBytes
  /\ n \in PowersOfTwo
  /\ (n * SlotBytes) % Page = 0

\* Mutation of ValidSize: a capacity that is no power of two is not noticed.
ValidSizeAnyCapacity(bytes) == bytes > 0 /\ bytes % Page = 0

\* validate_size, for the size of an existing file.
ValidSize(bytes) ==
  /\ bytes > 0 /\ bytes % SlotBytes = 0 /\ bytes % Page = 0
  /\ bytes \div SlotBytes \in PowersOfTwo
  /\ bytes <= (WordMod - 1) \div 2

\* The members of an object that owns nothing yet, and of one that owns nothing.
Fresh(size, asked) == [fd |-> NoFd, data |-> Null, size |-> size, asked |-> asked]

Blank == Fresh(0, 0)

NoCtor == [at |-> "none"]

Idle == ctor = NoCtor

-----------------------------------------------------------------------------
\* munmap of both halves of an area: it gives back what was mapped there only if
\* the size is the one of the mapping.
Munmap(area, size) ==
  IF area # Null /\ span[area] = size
  THEN views' = [views EXCEPT ![area] = "free"] /\ span' = [span EXCEPT ![area] = 0]
  ELSE UNCHANGED <<views, span>>

\* release() of an object with members b.
Release(b) == openFds' = openFds \ {b.fd} /\ Munmap(b.data, b.size)

\* The exception leaves the constructor, and the object does not come to exist.
Abandon == ctor' = NoCtor /\ own' = [own EXCEPT ![ctor.self] = Blank] /\ UNCHANGED live

\* Mutation of Catch: the catch clause only throws again.
CatchOnly == Abandon /\ UNCHANGED <<openFds, views, span>>

\* The catch clause of a constructor: release and throw.
Catch == Abandon /\ Release(own[ctor.self])

Begin(o, class, size, asked) ==
  /\ Idle /\ o \notin live
  /\ ctor' = [at |-> "open", self |-> o, class |-> class, fd |-> NoFd, area |-> Null]
  /\ own' = [own EXCEPT ![o] = Fresh(size, asked)]
  /\ UNCHANGED <<live, openFds, views, span>>

\* The constructors: the checks that come before anything is acquired.
DoubleMapBuffer(o, n) ==
  /\ n # 0
  /\ \E size \in RoundUpToPowerOfTwo(RoundUpToPageSize(n)) : Begin(o, "double", size, n)

RingBuffer(o, n) == ValidCapacity(n) /\ Begin(o, "ring", n * SlotBytes, n * SlotBytes)

MappedCheckPointRing(o) == Begin(o, "server", 0, 0)

\* mkstemp or open.  The two that create a file keep the descriptor in a local
\* variable until the file has its size; MappedCheckPointRing assigns it at once.
OpenFile(fd) ==
  /\ ctor # NoCtor /\ ctor.at = "open" /\ fd \notin openFds
  /\ openFds' = openFds \cup {fd}
  /\ IF ctor.class = "server"
     THEN /\ own' = [own EXCEPT ![ctor.self].fd = fd]
          /\ ctor' = [ctor EXCEPT !.at = "size"]
     ELSE /\ ctor' = [ctor EXCEPT !.at = "size", !.fd = fd]
          /\ UNCHANGED own
  /\ UNCHANGED <<live, views, span>>

OpenFails ==
  /\ ctor # NoCtor /\ ctor.at = "open"
  /\ Abandon /\ UNCHANGED <<openFds, views, span>>

Truncate ==
  /\ ctor # NoCtor /\ ctor.at = "size" /\ ctor.class # "server"
  /\ own' = [own EXCEPT ![ctor.self].fd = ctor.fd]
  /\ ctor' = [ctor EXCEPT !.at = "reserve"]
  /\ UNCHANGED <<live, openFds, views, span>>

\* The file is closed in place: the descriptor is in no member yet.
TruncateFails ==
  /\ ctor # NoCtor /\ ctor.at = "size" /\ ctor.class # "server"
  /\ openFds' = openFds \ {ctor.fd}
  /\ Abandon /\ UNCHANGED <<views, span>>

\* fstat finds a file of some size.
ValidateSize(bytes) ==
  /\ ctor # NoCtor /\ ctor.at = "size" /\ ctor.class = "server"
  /\ IF ValidSize(bytes)
     THEN /\ own' = [own EXCEPT ![ctor.self].size = bytes, ![ctor.self].asked = bytes]
          /\ ctor' = [ctor EXCEPT !.at = "reserve"]
          /\ UNCHANGED <<live, openFds, views, span>>
     ELSE Catch

\* mmap of twice the size, with no access; nothing is mapped for a size of zero.
Reserve(area) ==
  /\ ctor # NoCtor /\ ctor.at = "reserve" /\ views[area] = "free"
  /\ own[ctor.self].size \in 1..((WordMod - 1) \div 2)
  /\ views' = [views EXCEPT ![area] = "reserved"]
  /\ span' = [span EXCEPT ![area] = own[ctor.self].size]
  /\ ctor' = [ctor EXCEPT !.at = "first", !.area = area]
  /\ UNCHANGED <<live, own, openFds>>

\* The size cannot be doubled, or mmap fails.
ReserveFails == ctor # NoCtor /\ ctor.at = "reserve" /\ Catch

MapFirst ==
  /\ ctor # NoCtor /\ ctor.at = "first"
  /\ views' = [views EXCEPT ![ctor.area] = "first"]
  /\ ctor' = [ctor EXCEPT !.at = "second"]
  /\ UNCHANGED <<live, own, openFds, span>>

\* The second view has to begin on a page; with it the constructor is done.
MapSecond ==
  /\ ctor # NoCtor /\ ctor.at = "second" /\ own[ctor.self].size % Page = 0
  /\ views' = [views EXCEPT ![ctor.area] = "mirrored"]
  /\ own' = [own EXCEPT ![ctor.self].data = ctor.area]
  /\ live' = live \cup {ctor.self}
  /\ ctor' = NoCtor
  /\ UNCHANGED <<openFds, span>>

\* mapTwice unmaps the reservation, in which a view may be mapped already, and the
\* catch clause closes the file.
MapFails ==
  /\ ctor # NoCtor /\ ctor.at \in {"first", "second"}
  /\ Munmap(ctor.area, own[ctor.self].size)
  /\ openFds' = openFds \ {own[ctor.self].fd}
  /\ Abandon

-----------------------------------------------------------------------------
\* Mutation of MovedFrom: the descriptor is copied.
MovedFromWithFd(b) == [Blank EXCEPT !.fd = b.fd]

\* What move_from leaves behind of members b.
MovedFrom(b) == Blank

MoveConstruct(o, p) ==
  /\ Idle /\ o \in live /\ p \notin live
  /\ own' = [own EXCEPT ![p] = own[o], ![o] = MovedFrom(own[o])]
  /\ live' = live \cup {p}
  /\ UNCHANGED <<ctor, openFds, views, span>>

\* p = std::move(o).
MoveAssign(o, p) ==
  /\ Idle /\ {o, p} \subseteq live /\ o # p
  /\ Release(own[p])
  /\ own' = [own EXCEPT ![p] = own[o], ![o] = MovedFrom(own[o])]
  /\ UNCHANGED <<live, ctor>>

Destroy(o) ==
  /\ Idle /\ o \in live
  /\ Release(own[o])
  /\ own' = [own EXCEPT ![o] = Blank]
  /\ live' = live \ {o}
  /\ UNCHANGED ctor

BufferInit ==
  /\ live = {} /\ own = [o \in Objects |-> Blank] /\ ctor = NoCtor
  /\ openFds = {} /\ views = [a \in Areas |-> "free"] /\ span = [a \in Areas |-> 0]

Construct ==
  \/ \E o \in Objects, n \in Requests : DoubleMapBuffer(o, n) \/ RingBuffer(o, n)
  \/ \E o \in Objects : MappedCheckPointRing(o)
  \/ \E fd \in Fds : OpenFile(fd)
  \/ OpenFails \/ Truncate \/ TruncateFails
  \/ \E bytes \in Requests : ValidateSize(bytes)
  \/ \E area \in Areas : Reserve(area)
  \/ ReserveFails \/ MapFirst \/ MapSecond \/ MapFails

BufferNext ==
  \/ Construct
  \/ \E o, p \in Objects : MoveConstruct(o, p) \/ MoveAssign(o, p)
  \/ \E o \in Objects : Destroy(o)

BufferSpec == BufferInit /\ [][BufferNext]_bufferVars

-----------------------------------------------------------------------------
Members == [fd : Fds \cup {NoFd}, data : Areas \cup {Null},
            size : 0..(WordMod - 1), asked : 0..(WordMod - 1)]

Constructors == [at : {"open", "size", "reserve", "first", "second"}, self : Objects \ live,
                 class : {"double", "ring", "server"},
                 fd : Fds \cup {NoFd}, area : Areas \cup {Null}]

BufferTypeOK ==
  /\ live \subseteq Objects /\ own \in [Objects -> Members] /\ ctor \in {NoCtor} \cup Constructors
  /\ openFds \subseteq Fds
  /\ views \in [Areas -> {"free", "reserved", "first", "mirrored"}]
  /\ span \in [Areas -> 0..(WordMod - 1)]

\* Between two constructors everything the process has from the system is in some
\* object: no exception, move or assignment loses a descriptor or a mapping.
NothingLeaks ==
  Idle => /\ \A fd \in openFds : \E o \in live : own[o].fd = fd
          /\ \A area \in Areas : views[area] # "free" => \E o \in live : own[o].data = area

\* No two objects would give the same thing back: the second close or munmap would
\* hit whoever has got the descriptor or the area since.
OwnedOnce ==
  \A o, p \in Objects : o # p =>
    /\ own[o].fd # NoFd => own[o].fd # own[p].fd
    /\ own[o].data # Null => own[o].data # own[p].data

\* An object either owns nothing, after a move, or has its file open and mapped
\* twice in full pages, at least as large as it was asked to be, with a size that is a
\* power of two slots or bytes and does not wrap when it is doubled.
LiveIsMirrored ==
  \A o \in live :
    \/ own[o] = Blank
    \/ /\ own[o].fd \in openFds
       /\ own[o].data \in Areas /\ views[own[o].data] = "mirrored"
       /\ span[own[o].data] = own[o].size
       /\ own[o].size >= own[o].asked /\ own[o].size % Page = 0
       /\ own[o].size \in PowersOfTwo /\ 2 * own[o].size < WordMod
==============================================================================
