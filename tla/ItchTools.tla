------------------------------ MODULE ItchTools ------------------------------
(***************************************************************************)
(* pcap_itch_gen and pcap_itch_print, the programs that show how realperf  *)
(* is used: one writes a capture of ITCH messages in MoldUDP64, UDP and    *)
(* IPv4, the other reads a capture, its own or a foreign one, and prints   *)
(* it.  Both record what they do with the macros of CheckPoint.hpp, on a   *)
(* ring of their own: the module extends Recorder, and a step of a tool    *)
(* makes at most one call of it.                                           *)
(*                                                                         *)
(* A packet is what the tools tell apart: its size, its UDP length and     *)
(* the fields of its UDP payload.  Addresses, ports, times and checksums   *)
(* are carried along unread and left out.  The bytes of a foreign capture  *)
(* and of a raw payload are arbitrary: each read of them finds any value.  *)
(***************************************************************************)
EXTENDS Recorder, Itch5, FiniteSets

CONSTANTS
  MdCategory,   \* CAT_MD, the category of the tools' scopes
  Draws,        \* what rng() may return
  Captures,     \* the captures that a user may have besides generated ones
  Ethers, VersionIhls, Protocols, UdpLengths,
                \* what print_packet may find in arbitrary headers: EtherType,
                \* version and header length, protocol, UDP length
  Counts, Lengths, Types
                \* the count of messages, the length and the type of a message

\* The values of a field of one byte and of two bytes.
Words8 == 0..(2^8 - 1)
Words16 == 0..(2^16 - 1)

\* What the model knows of a capture file: whole packets, each of some size.
WellFormedCapture(c) ==
  /\ DOMAIN c = {"header", "packets", "torn", "good"}
  /\ c.packets = [i \in 1..Len(c.packets) |-> c.packets[i]] /\ Len(c.packets) \in Nat
  /\ \A i \in 1..Len(c.packets) : c.packets[i].size \in Nat /\ c.packets[i].udp \in Nat

ASSUME ToolCategories == MdCategory \in Categories

ASSUME ReadsAssumption ==
  /\ Draws \subseteq Nat
  /\ VersionIhls \subseteq Words8
  /\ UdpLengths \subseteq Words16 /\ Counts \subseteq Words16 /\ Lengths \subseteq Words16
  /\ Types \subseteq MessageTypes \cup {"?"}

ASSUME CapturesAssumption == \A c \in Captures : WellFormedCapture(c)

VARIABLES
  tool,     \* the tool that runs or has run last: "gen", "print" or "none"
  pc,       \* where it is
  options,  \* its options: count, size and mode, or limit
  stack,    \* the CheckPointScopes that are alive, innermost last
  marks,    \* type_ and where_ of the record with tick i, which Recorder leaves out
  capture,  \* the pcap file: is its header whole, the whole packets in it, does it
            \* end inside a packet, and is the stream that writes it good?
  index,    \* the packet the tool is at, counted from 0
  message,  \* gen: the message of the packet
  view,     \* print: the payload of the packet and the cursor in it
  printed,  \* print: the packets printed so far
  reach     \* ghost: the end of what print has last read of the packet

toolVars == <<tool, pc, options, stack, marks, capture, index, message, view, printed, reach>>

-----------------------------------------------------------------------------
\* The macros REALPERF_CHECKPOINT, REALPERF_START and REALPERF_COMMIT, and a
\* REALPERF_SCOPE at its construction and at its destruction.
Marked(type, where) == marks' = Append(marks, [type |-> type, where |-> where])

Mark(where) ==
  Add(clock + 1, DefaultCategory) /\ Marked("normal", where) /\ UNCHANGED stack

Begin(where, category) ==
  Start(clock + 1, category) /\ Marked("start", where) /\ UNCHANGED stack

Enter(where) ==
  /\ Add(clock + 1, MdCategory) /\ Marked("scope_start", where)
  /\ stack' = Append(stack, where)

Leave ==
  /\ Add(clock + 1, MdCategory) /\ Marked("scope_end", stack[Len(stack)])
  /\ stack' = SubSeq(stack, 1, Len(stack) - 1)

CommitAll == Commit /\ UNCHANGED <<marks, stack>>

NoCall == UNCHANGED <<vars, marks, stack>>

At(t, label) == tool = t /\ pc = label

Go(label) == pc' = label /\ UNCHANGED <<tool, options>>

\* An exception: destructors run up to the catch of main.
Throw == NoCall /\ Go("unwind")

-----------------------------------------------------------------------------
Headers == 14 + 20 + 8

NoMessage == [type |-> "none"]

\* make_itch_message: what rng() lets packet i carry.  One draw stands for all
\* that follow the choice of the type.
ItchMessage(i, roll, draw) ==
  LET locate == 1 + (i % 1024)
      tracking == i % 2^16
      known == 1000000 + (draw % i)
  IN  CASE i = 0 ->
             [type |-> "S", locate |-> locate, tracking |-> tracking, timestamp |-> i,
              event_code |-> "O"]
        [] i > 0 /\ roll % 10 < 7 ->
             [type |-> "A", locate |-> locate, tracking |-> tracking, timestamp |-> i,
              order_ref |-> 1000000 + i, side |-> IF draw % 2 = 0 THEN "B" ELSE "S",
              shares |-> 100 + (draw % 50) * 100, stock |-> "symbol",
              price |-> 100000 + (draw % 50000)]
        [] i > 0 /\ roll % 10 \in 7..8 ->
             [type |-> "E", locate |-> locate, tracking |-> tracking, timestamp |-> i,
              order_ref |-> known, shares |-> 100 + (draw % 20) * 100, match |-> 9000000 + i]
        [] i > 0 /\ roll % 10 = 9 ->
             [type |-> "D", locate |-> locate, tracking |-> tracking, timestamp |-> i,
              order_ref |-> known]

\* make_payload: the MoldUDP64 header and one message behind its length.
Encoded(i, m) ==
  LET bytes == Make(m)
  IN  <<Put("REALPERF01", 10), Put(i + 1, 8), Put(1, 2), Put(Extent(bytes), 2)>> \o bytes

\* make_packet: the UDP length is cast to 16 bits.  meant is a ghost.
Packet(size, mode, i, m) ==
  [size |-> size, content |-> mode, udp |-> (8 + size - Headers) % 2^16,
   bytes |-> IF mode = "raw" THEN <<>> ELSE Encoded(i, m),
   meant |-> m]

\* A packet that make_packet has made as the i-th of its capture: the message fits.
MadePacket(p, i) ==
  /\ p.size \in Nat /\ IsMessage(p.meant)
  /\ p = Packet(p.size, "itch5", i, p.meant)
  /\ Headers + Extent(p.bytes) <= p.size

ASSUME GeneratedAssumption ==
  \A c \in Captures : \A k \in 1..Len(c.packets) :
    c.packets[k].content = "itch5" => MadePacket(c.packets[k], k - 1)

\* out.write of the whole packet.  Errors of the stream are never looked at: from
\* the first one on nothing more gets to the file, which may end anywhere.
Write ==
  \/ /\ capture.good
     /\ capture' = [capture EXCEPT !.packets =
                      Append(@, Packet(options.size, options.mode, index, message))]
  \/ /\ capture.good
     /\ \E torn \in BOOLEAN : capture' = [capture EXCEPT !.good = FALSE, !.torn = torn]
  \/ ~capture.good /\ UNCHANGED capture

GenKeeps == UNCHANGED <<view, printed, reach>>

\* The straight-line parts of gen: a scope is entered, left, or a place is marked.
GenLine(label, Call, next) ==
  At("gen", label) /\ Call /\ Go(next) /\ UNCHANGED <<capture, index, message>> /\ GenKeeps

GenCalls ==
  \/ GenLine("src_ip", Enter("parse_ipv4"), "src_ip:end")
  \/ GenLine("src_ip:end", Leave, "dst_ip")
  \/ GenLine("dst_ip", Enter("parse_ipv4"), "dst_ip:end")
  \/ GenLine("dst_ip:end", Leave, "open")
  \/ GenLine("global_header", Enter("write_pcap_global_header"), "global_header:end")
  \/ GenLine("packet_loop", Enter("packet_loop"), "make_packet")
  \/ GenLine("make_packet", Enter("make_packet"), "make_payload")
  \/ GenLine("make_payload", Enter("make_payload"), "payload")
  \/ GenLine("message:end", Leave, "payload:end")
  \/ GenLine("ip_header", Mark("make_packet:ip_header"), "checksum")
  \/ GenLine("checksum", Mark("make_packet:checksum"), "internet_checksum")
  \/ GenLine("internet_checksum", Enter("internet_checksum"), "internet_checksum:end")
  \/ GenLine("internet_checksum:end", Leave, "copy_payload")
  \/ GenLine("copy_payload", Mark("make_packet:copy_payload"), "make_packet:end")
  \/ GenLine("make_packet:end", Leave, "write")
  \/ GenLine("write", Enter("write_pcap_packet"), "write:end")

\* parse_ipv4 throws inside its scope when the text is no address.
ParseIpv4Fails == GenLine("src_ip:end", NoCall, "unwind") \/ GenLine("dst_ip:end", NoCall, "unwind")

OpenOutputFails == GenLine("open", NoCall, "unwind")

OpenOutput ==
  /\ At("gen", "open") /\ NoCall /\ Go("global_header")
  /\ capture' = [header |-> FALSE, packets |-> <<>>, torn |-> FALSE, good |-> TRUE]
  /\ UNCHANGED <<index, message>> /\ GenKeeps

\* The global header is written, or the stream is bad from the beginning.
WriteGlobalHeader ==
  /\ At("gen", "global_header:end") /\ Leave /\ Go("loop")
  /\ \E whole \in BOOLEAN : capture' = [capture EXCEPT !.header = whole, !.good = whole]
  /\ UNCHANGED <<index, message>> /\ GenKeeps

\* The head of the loop: the next START commits the packet before; there is no
\* commit behind the last packet.
GenLoop ==
  /\ At("gen", "loop")
  /\ IF index < options.count
     THEN Begin("packet_loop", MdCategory) /\ Go("packet_loop")
     ELSE NoCall /\ Go("exit0")
  /\ UNCHANGED <<capture, index, message>> /\ GenKeeps

ChooseMessage ==
  /\ At("gen", "payload")
  /\ IF options.mode = "raw"
     THEN NoCall /\ Go("payload:end") /\ UNCHANGED message
     ELSE /\ Enter("make_itch_message") /\ Go("message:end")
          /\ \E roll, draw \in Draws : message' = ItchMessage(index, roll, draw)
  /\ UNCHANGED <<capture, index>> /\ GenKeeps

PayloadEnd ==
  /\ At("gen", "payload:end")
  /\ IF options.mode = "itch5" /\ Extent(Encoded(index, message)) > options.size - Headers
     THEN Throw
     ELSE Leave /\ Go("ip_header")
  /\ UNCHANGED <<capture, index, message>> /\ GenKeeps

WritePacket ==
  /\ At("gen", "write:end") /\ Leave /\ Go("packet_loop:end")
  /\ Write
  /\ UNCHANGED <<index, message>> /\ GenKeeps

NextPacket ==
  /\ At("gen", "packet_loop:end") /\ Leave /\ Go("loop")
  /\ index' = index + 1 /\ message' = NoMessage
  /\ UNCHANGED capture /\ GenKeeps

PcapItchGen ==
       \/ GenCalls \/ ParseIpv4Fails \/ OpenOutputFails \/ OpenOutput \/ WriteGlobalHeader
       \/ GenLoop \/ ChooseMessage \/ PayloadEnd \/ WritePacket \/ NextPacket

-----------------------------------------------------------------------------
\* The packet that print is at, and what a read of it at an offset of the UDP
\* payload may find: the value that gen has put there, where it is one that such a
\* read can have, or else any of the values given.
This == capture.packets[index + 1]

Found(offset, width, possible, any) ==
  IF This.content = "itch5" /\ ReadAt(This.bytes, offset, width) \in possible
  THEN {ReadAt(This.bytes, offset, width)} ELSE any

\* The fields of the headers: those of a generated packet are what gen makes them.
FoundHeaders ==
  IF This.content = "foreign"
  THEN [ether : Ethers, versionIhl : VersionIhls, protocol : Protocols, udp : UdpLengths]
  ELSE {[ether |-> 2048, versionIhl |-> 69, protocol |-> 17, udp |-> This.udp]}

PrintKeeps == UNCHANGED <<capture, message>>

NoView == [base |-> 0, size |-> 0, udp |-> 0, offset |-> 0, left |-> 0, length |-> 0]

\* print_pcap opens the file; its global header must be whole and of the one kind
\* that is supported.
OpenInput ==
  /\ At("print", "open")
  /\ IF capture.header THEN NoCall /\ Go("packet") ELSE Throw
  /\ UNCHANGED <<index, view, printed, reach>> /\ PrintKeeps

AtLimit == options.limit # 0 /\ index >= options.limit

\* The head of the loop: the file may end between packets, but not inside one.
\* print_packet begins with a START.
NextHeader ==
  /\ At("print", "packet")
  /\ CASE AtLimit \/ (index = Len(capture.packets) /\ ~capture.torn) ->
            NoCall /\ Go("print_pcap:end") /\ UNCHANGED <<view, reach>>
       [] ~AtLimit /\ index = Len(capture.packets) /\ capture.torn ->
            Throw /\ UNCHANGED <<view, reach>>
       [] OTHER ->
            /\ Begin("print_packet", DefaultCategory) /\ Go("headers")
            /\ view' = NoView /\ reach' = 0
  /\ UNCHANGED <<index, printed>> /\ PrintKeeps

Ihl(versionIhl) == (versionIhl % 16) * 4

MinPacket == Headers + 20

\* IPv4 with a header of its smallest size or more, and UDP.
Supported(h) ==
  /\ h.ether = 2048
  /\ h.versionIhl \div 16 = 4 /\ Ihl(h.versionIhl) >= 20
  /\ h.protocol = 17

\* Ethernet and IPv4, whose fixed parts are inside every packet that is long enough.
ReadHeaders ==
  /\ At("print", "headers")
  /\ IF This.size < MinPacket
     THEN Throw /\ UNCHANGED <<view, reach>>
     ELSE \E h \in FoundHeaders :
            /\ reach' = 14 + 20
            /\ IF Supported(h)
               THEN /\ NoCall /\ Go("udp")
                    /\ view' = [view EXCEPT !.base = 14 + Ihl(h.versionIhl) + 8, !.udp = h.udp]
               ELSE Throw /\ UNCHANGED view
  /\ UNCHANGED <<index, printed>> /\ PrintKeeps

\* The UDP length covers its own header, and its payload is inside the packet.
UdpFits(udp, left) == udp >= 8 /\ left >= udp - 8

\* Skipping IPv4 options and reading the UDP header may leave the packet.
ReadUdp ==
  /\ At("print", "udp")
  /\ IF view.base > This.size
     THEN Throw /\ UNCHANGED <<view, reach>>
     ELSE /\ reach' = view.base
          /\ IF UdpFits(view.udp, This.size - view.base)
             THEN /\ Mark("print_packet:print_payload") /\ Go("mold")
                  /\ view' = [view EXCEPT !.size = view.udp - 8]
             ELSE Throw /\ UNCHANGED view
  /\ UNCHANGED <<index, printed>> /\ PrintKeeps

\* The MoldUDP64 header, and the line that is printed for the packet.
ReadMold ==
  /\ At("print", "mold")
  /\ IF view.size < 20
     THEN Throw /\ UNCHANGED <<view, printed, reach>>
     ELSE \E n \in Found(18, 2, Words16, Counts) :
            /\ NoCall /\ Go("messages")
            /\ view' = [view EXCEPT !.offset = 20, !.left = n]
            /\ reach' = view.base + 20
            /\ printed' = Append(printed, [sequence |-> Found(10, 8, Nat, {Garbage}), messages |-> <<>>])
  /\ UNCHANGED index /\ PrintKeeps

\* Mutation of LengthFits: the cursor asks for the length prefix only.
LengthFitsAny(offset, length) == TRUE

\* payload.require(length) behind the length prefix.
LengthFits(offset, length) == view.size - offset >= length

NextMessage ==
  /\ At("print", "messages") /\ view.left > 0
  /\ IF view.size - view.offset < 2
     THEN Throw /\ UNCHANGED <<view, reach>>
     ELSE \E n \in Found(view.offset, 2, Words16, Lengths) :
            /\ reach' = view.base + view.offset + 2
            /\ IF LengthFits(view.offset + 2, n)
               THEN /\ Enter("print_itch_message") /\ Go("parse")
                    /\ view' = [view EXCEPT !.offset = @ + 2, !.length = n]
               ELSE Throw /\ UNCHANGED view
  /\ UNCHANGED <<index, printed>> /\ PrintKeeps

\* print_itch_message: parse, mark, print.  The members that are printed are read
\* up to the end of the struct.
PrintMessage ==
  /\ At("print", "parse")
  /\ \E type \in Found(view.offset, 1, MessageTypes, Types) :
       IF ParseMessage(type, view.length)
       THEN /\ Mark("print_itch_message:print") /\ Go("message:end")
            /\ reach' = view.base + view.offset + Extent(Layout(type))
            /\ printed' = [printed EXCEPT ![Len(printed)].messages =
                             Append(@, Decode(type, This.bytes, view.offset))]
       ELSE Throw /\ UNCHANGED <<printed, reach>>
  /\ UNCHANGED <<index, view>> /\ PrintKeeps

\* Mutation of SkipMessage: the cursor stays at the message.
SkipMessageStays == [view EXCEPT !.left = @ - 1, !.offset = @ - 2]

SkipMessage == [view EXCEPT !.left = @ - 1, !.offset = @ + view.length]

MessageEnd ==
  /\ At("print", "message:end") /\ Leave /\ Go("messages")
  /\ view' = SkipMessage
  /\ UNCHANGED <<index, printed, reach>> /\ PrintKeeps

\* The commit behind each packet.
PacketEnd ==
  /\ At("print", "messages") /\ view.left = 0
  /\ CommitAll /\ Go("packet")
  /\ index' = index + 1
  /\ UNCHANGED <<view, printed, reach>> /\ PrintKeeps

PrintLine(label, Call, next) ==
  /\ At("print", label) /\ Call /\ Go(next)
  /\ UNCHANGED <<index, view, printed, reach>> /\ PrintKeeps

PrintCalls ==
  \/ PrintLine("print_pcap", Enter("print_pcap"), "open")
  \/ PrintLine("print_pcap:end", Leave, "commit")
  \/ PrintLine("commit", CommitAll, "exit0")

PcapItchPrint ==
         \/ PrintCalls \/ OpenInput \/ NextHeader \/ ReadHeaders \/ ReadUdp \/ ReadMold
         \/ NextMessage \/ PrintMessage \/ MessageEnd \/ PacketEnd

-----------------------------------------------------------------------------
\* The destructors of the scopes that an exception leaves.
Unwind ==
  /\ pc = "unwind" /\ stack # <<>>
  /\ Leave /\ Go("unwind")
  /\ UNCHANGED <<capture, index, message, view, printed, reach>>

\* Mutation of Caught: print does not commit what led to the exception.
CaughtUncommitted == NoCall

\* The catch of main: print commits what led to the exception, gen does not.
Caught == IF tool = "print" THEN CommitAll ELSE NoCall

Catch ==
  /\ pc = "unwind" /\ stack = <<>>
  /\ Caught /\ Go("exit1")
  /\ UNCHANGED <<capture, index, message, view, printed, reach>>

Exited == pc \in {"exit0", "exit1"}

\* A tool begins with init_checkpoint_recorder on a new ring; ticks are counted
\* from there.
Launch(t, chosen, label) ==
  /\ tool' = t /\ options' = chosen /\ pc' = label
  /\ mem' = [a \in Addresses |-> Empty] /\ start' = 0 /\ count' = 0 /\ categories' = {}
  /\ clock' = 0 /\ added' = 0 /\ kept' = 0
  /\ stack' = <<>> /\ marks' = <<>> /\ index' = 0 /\ message' = NoMessage
  /\ view' = NoView /\ printed' = <<>> /\ reach' = 0
  /\ mirrored' = TRUE /\ phase' = "recording" /\ event' = NoEvent
  /\ UNCHANGED capture

LaunchGen(size, n, mode) ==
  Launch("gen", [size |-> size, count |-> n, mode |-> mode], "src_ip")

LaunchPrint(limit) == Launch("print", [limit |-> limit], "print_pcap")

ToolsInit ==
  /\ Init
  /\ tool = "none" /\ pc = "exit0" /\ options = [limit |-> 0]
  /\ stack = <<>> /\ marks = <<>> /\ capture \in Captures /\ index = 0 /\ message = NoMessage
  /\ view = NoView /\ printed = <<>> /\ reach = 0

ToolStep == PcapItchGen \/ PcapItchPrint \/ Unwind \/ Catch

\* Any sequence of runs of the two tools with any options; parse_options rejects a
\* count of 0.
ToolsNext ==
  \/ ToolStep
  \/ Exited /\ \E size \in Nat, n \in Nat \ {0}, mode \in {"raw", "itch5"} : LaunchGen(size, n, mode)
  \/ Exited /\ \E limit \in Nat : LaunchPrint(limit)

ToolsSpec == ToolsInit /\ [][ToolsNext]_<<vars, toolVars>>

-----------------------------------------------------------------------------
(***************************************************************************)
(* Properties.                                                             *)
(***************************************************************************)
\* Every variable has its type.
ToolsTypeOK ==
  /\ TypeOK /\ phase = "recording"
  /\ tool \in {"none", "gen", "print"}
  /\ Len(marks) = clock
  /\ \A i \in 1..Len(marks) : marks[i].type \in {"start", "normal", "scope_start", "scope_end"}
  /\ WellFormedCapture(capture)
  /\ index \in Nat /\ reach \in Nat
  /\ view.offset <= view.size /\ view.left \in Words16
  /\ Len(printed) <= index + 1

Reading == tool = "print" /\ pc \in {"headers", "udp", "mold", "messages", "parse", "message:end"}

\* print_packet and print_itch_message never read beyond the bytes of the packet:
\* the UDP length, the length of a message and the type of a message, each of them
\* any value in a foreign capture, are compared with what is left before the
\* pointers made of them are used.
ReadsStayInside ==
  Reading => reach <= This.size /\ (view.size > 0 => view.base + view.size <= This.size)

Limit(n) == IF options.limit = 0 \/ n < options.limit THEN n ELSE options.limit

\* Two packets of this size and more have a UDP length that does not fit 16 bits.
MaxSize == Headers + 2^16 - 1 - 8

\* A capture of pcap_itch_gen reads back as it was meant: pcap_itch_print shows
\* packet i with sequence number i and the fields of its message, all of them up
\* to the limit, and it fails only where the generator lost the end of the file.
PacketsReadBack ==
  LET whole == Len(capture.packets)
  IN  tool = "print" /\ (\A i \in 1..whole : capture.packets[i].content = "itch5"
                                            /\ capture.packets[i].size <= MaxSize) =>
        /\ \A i \in 1..index :
             printed[i] = [sequence |-> {i}, messages |-> <<capture.packets[i].meant>>]
        /\ pc = "exit0" => index = Limit(whole) /\ (capture.torn => index = options.limit)
        /\ pc = "exit1" => ~capture.header \/ (capture.torn /\ index = whole)

\* A recording, between a START and the next START or COMMIT, is bounded by what
\* one packet can hold, although the count of messages is read from the packet:
\* three records per message of at least 13 bytes.  For the largest UDP payload
\* that is less than count_ can count.
RecordingFits ==
  /\ tool = "gen" => added <= 16
  /\ tool = "print" => added <= 5 + 3 * (view.size \div 13)

PairedScopes ==
  \A where \in {marks[i].where : i \in 1..Len(marks)} :
    LET Marks(type) == {i \in 1..Len(marks) : marks[i] = [type |-> type, where |-> where]}
    IN  Cardinality(Marks("scope_start")) = Cardinality(Marks("scope_end"))

Newest == IF clock < Capacity THEN clock ELSE Capacity

\* However a tool ends, by reaching the end or by an exception at any place, every
\* scope that was entered has its end in the record.  pcap_itch_print leaves
\* everything committed; a pcap_itch_gen that succeeds leaves the recording of
\* the last packet, whole and uncommitted, and nothing else.
EndsWhole ==
  Exited =>
    /\ stack = <<>> /\ PairedScopes
    /\ tool = "print" => added = 0 /\ kept = Newest
    /\ tool = "gen" /\ pc = "exit0" =>
         /\ added = (IF options.mode = "raw" THEN 14 ELSE 16)
         /\ kept + added = Newest
         /\ marks[clock - added + 1] = [type |-> "start", where |-> "packet_loop"]
==============================================================================
