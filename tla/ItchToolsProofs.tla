--------------------------- MODULE ItchToolsProofs ---------------------------
(***************************************************************************)
(* Proofs about ItchTools: for any sequence of runs of the two tools, with *)
(* any options, on any capture and with any bytes in its packets, the      *)
(* printer reads inside the packet, neither makes long recordings, every   *)
(* variable has its type, every recording ends whole, and what the         *)
(* generator has written the printer shows as it was meant.                *)
(***************************************************************************)
EXTENDS ItchTools, RecorderProofs, FiniteSetTheorems, WellFoundedInduction

View == [base : Nat, size : Nat, udp : Nat, offset : Nat, left : Nat, length : Nat]

\* What print knows of the packet and of its cursor at each place.
PacketRead ==
  CASE pc = "headers" -> view.size = 0 /\ reach = 0
    [] pc = "udp" -> view.size = 0 /\ reach <= This.size
    [] pc = "mold" -> reach <= This.size /\ view.base + view.size <= This.size
    [] pc = "messages" ->
         /\ reach <= This.size /\ view.base + view.size <= This.size
         /\ view.offset <= view.size
    [] pc \in {"parse", "message:end"} ->
         /\ reach <= This.size /\ view.base + view.size <= This.size
         /\ view.offset + view.length <= view.size /\ view.left > 0
    [] OTHER -> TRUE

\* The inductive invariant behind ReadsStayInside: a pointer into the packet is
\* made only after what it needs was compared with what is left.
ReadsInv ==
  /\ WellFormedCapture(capture)
  /\ index \in Nat /\ reach \in Nat /\ view \in View
  /\ tool = "gen" => options.size \in Nat
  /\ tool = "print" => index <= Len(capture.packets)
  /\ Reading => index < Len(capture.packets) /\ PacketRead

-----------------------------------------------------------------------------
\* A packet behind the others leaves a capture well formed.
LEMMA AppendedCapture ==
  ASSUME NEW c, WellFormedCapture(c), NEW p, p.size \in Nat, p.udp \in Nat
  PROVE  WellFormedCapture([c EXCEPT !.packets = Append(@, p)])
<1> DEFINE n == Len(c.packets)
           s == c.packets
           S == {s[i] : i \in 1..n}
<1>1. n \in Nat /\ s = [i \in 1..n |-> s[i]] /\ \A i \in 1..n : s[i].size \in Nat /\ s[i].udp \in Nat
  BY DEF WellFormedCapture
<1>2. s \in Seq(S)
  <2>1. s \in [1..n -> S]
    BY <1>1
  <2> QED
    BY <1>1, <2>1
<1>3. /\ Append(s, p) = [i \in 1..(n + 1) |-> IF i = n + 1 THEN p ELSE s[i]]
      /\ Len(Append(s, p)) = n + 1
  <2>1. s \in Seq(S \cup {p})
    BY <1>1
  <2> QED
    BY <1>1, <2>1
<1>4. [c EXCEPT !.packets = Append(@, p)].packets = Append(s, p)
  BY DEF WellFormedCapture
<1>5. DOMAIN [c EXCEPT !.packets = Append(@, p)] = {"header", "packets", "torn", "good"}
  BY DEF WellFormedCapture
<1> HIDE DEF s, n
<1> QED
  BY <1>1, <1>3, <1>4, <1>5 DEF WellFormedCapture

\* A header, a torn packet or a bad stream leaves the packets as they are.
LEMMA SamePackets ==
  ASSUME NEW c, WellFormedCapture(c), NEW d, d.packets = c.packets, DOMAIN d = DOMAIN c
  PROVE  WellFormedCapture(d)
  BY DEF WellFormedCapture

\* The new file of gen.
LEMMA NewCapture ==
  WellFormedCapture([header |-> FALSE, packets |-> <<>>, torn |-> FALSE, good |-> TRUE])
  BY DEF WellFormedCapture

\* The size that parse_message asks for covers the struct that is read.
LEMMA StructFits ==
  ASSUME NEW type \in MessageTypes \cup {"?"}, NEW n, ParseMessage(type, n)
  PROVE  Extent(Layout(type)) <= n /\ Extent(Layout(type)) = MessageSize(type) /\ 11 <= n
  BY StructSizes DEF ParseMessage, HeaderSize

LEMMA MessageSizes ==
  ASSUME NEW type \in MessageTypes \cup {"?"}
  PROVE  MessageSize(type) \in Nat
  BY DEF MessageSize, Sizes, HeaderSize

\* What is found in a packet is of the kind that is read.
LEMMA FoundValues ==
  ASSUME NEW offset
  PROVE  /\ \A v \in Found(offset, 2, Words16, Lengths) : v \in Nat
         /\ \A v \in Found(offset, 2, Words16, Counts) : v \in Nat
         /\ \A v \in Found(offset, 1, MessageTypes, Types) : v \in MessageTypes \cup {"?"}
<1>1. ASSUME NEW width, NEW possible, NEW any, NEW v \in Found(offset, width, possible, any)
      PROVE  v \in possible \cup any
  BY <1>1 DEF Found
<1>2. Lengths \subseteq Words16 /\ Counts \subseteq Words16 /\ Types \subseteq MessageTypes \cup {"?"}
  BY ReadsAssumption
<1>3. Words16 \subseteq Nat
  BY DEF Words16
<1> QED
  BY <1>1, <1>2, <1>3

\* The headers that are found hold numbers.
LEMMA HeadersFound ==
  ASSUME This.udp \in Nat, NEW h \in FoundHeaders
  PROVE  h.versionIhl \in Nat /\ h.udp \in Nat
<1>1. VersionIhls \subseteq Nat /\ UdpLengths \subseteq Nat
  <2>1. VersionIhls \subseteq Words8 /\ UdpLengths \subseteq Words16
    BY ReadsAssumption
  <2>2. Words8 \subseteq Nat /\ Words16 \subseteq Nat
    BY DEF Words8, Words16
  <2> QED
    BY <2>1, <2>2
<1>2. CASE This.content = "foreign"
  <2>1. h.versionIhl \in VersionIhls /\ h.udp \in UdpLengths
    BY <1>2 DEF FoundHeaders
  <2> QED
    BY <1>1, <2>1
<1>3. CASE This.content # "foreign"
  BY <1>3 DEF FoundHeaders
<1> QED
  BY <1>2, <1>3

-----------------------------------------------------------------------------
\* The generator reads nothing; what it adds to the capture has a size.
LEMMA GenReads ==
  ASSUME ReadsInv, PcapItchGen
  PROVE  ReadsInv'
<1>1. CASE GenCalls \/ ParseIpv4Fails \/ OpenOutputFails \/ GenLoop \/ ChooseMessage \/ PayloadEnd
  <2>1. /\ tool = "gen" /\ tool' = "gen" /\ options' = options
        /\ UNCHANGED <<capture, index, view, reach>>
    BY <1>1
    DEF GenCalls, ParseIpv4Fails, OpenOutputFails, GenLoop, ChooseMessage, PayloadEnd, GenLine,
        GenKeeps, At, Go, Throw
  <2> QED
    BY <2>1 DEF ReadsInv, Reading
<1>2. CASE NextPacket
  BY <1>2 DEF NextPacket, GenKeeps, At, Go, ReadsInv, Reading
<1>3. CASE OpenOutput
  BY <1>3, NewCapture DEF OpenOutput, GenKeeps, At, Go, ReadsInv, Reading
<1>4. CASE WriteGlobalHeader
  <2>1. WellFormedCapture(capture')
    <3>1. PICK whole \in BOOLEAN : capture' = [capture EXCEPT !.header = whole, !.good = whole]
      BY <1>4 DEF WriteGlobalHeader
    <3> QED
      BY <3>1, SamePackets DEF ReadsInv, WellFormedCapture
  <2> QED
    BY <1>4, <2>1 DEF WriteGlobalHeader, GenKeeps, At, Go, ReadsInv, Reading
<1>5. CASE WritePacket
  <2>1. WellFormedCapture(capture')
    <3>1. CASE \E torn \in BOOLEAN : capture' = [capture EXCEPT !.good = FALSE, !.torn = torn]
      BY <3>1, SamePackets DEF ReadsInv, WellFormedCapture
    <3>2. CASE capture' = [capture EXCEPT !.packets =
                             Append(@, Packet(options.size, options.mode, index, message))]
      <4>1. options.size \in Nat
        BY <1>5 DEF WritePacket, At, ReadsInv
      <4>2. /\ Packet(options.size, options.mode, index, message).size \in Nat
            /\ Packet(options.size, options.mode, index, message).udp \in Nat
        BY <4>1 DEF Packet, Headers
      <4> QED
        BY <3>2, <4>2, AppendedCapture DEF ReadsInv
    <3>3. CASE UNCHANGED capture
      BY <3>3 DEF ReadsInv
    <3> QED
      BY <1>5, <3>1, <3>2, <3>3 DEF WritePacket, Write
  <2> QED
    BY <1>5, <2>1 DEF WritePacket, GenKeeps, At, Go, ReadsInv, Reading
<1> QED
  BY <1>1, <1>2, <1>3, <1>4, <1>5 DEF PcapItchGen

\* What every step of print leaves alone.
PrintState ==
  /\ tool = "print" /\ tool' = "print" /\ options' = options /\ capture' = capture
  /\ WellFormedCapture(capture)
  /\ index \in Nat /\ reach \in Nat /\ view \in View /\ index <= Len(capture.packets)

\* The places of print where nothing of a packet is known.
LEMMA OutsidePacket ==
  ASSUME PrintState, index' \in Nat, index' <= Len(capture.packets), reach' \in Nat, view' \in View,
         pc' \notin {"headers", "udp", "mold", "messages", "parse", "message:end"}
  PROVE  ReadsInv'
  BY DEF ReadsInv, Reading, PrintState

\* The packet that print is at has a size, and stays the same while index does.
LEMMA InsidePacket ==
  ASSUME PrintState, index < Len(capture.packets), index' = index
  PROVE  This' = This /\ This.size \in Nat /\ This.udp \in Nat
<1>1. index + 1 \in 1..Len(capture.packets)
  BY DEF PrintState, WellFormedCapture
<1> QED
  BY <1>1 DEF This, PrintState, WellFormedCapture

LEMMA PrintCallsReads ==
  ASSUME ReadsInv, PrintCalls
  PROVE  ReadsInv'
  BY OutsidePacket DEF PrintCalls, PrintLine, PrintKeeps, At, Go, ReadsInv, PrintState

LEMMA OpenInputReads ==
  ASSUME ReadsInv, OpenInput
  PROVE  ReadsInv'
  BY OutsidePacket DEF OpenInput, PrintKeeps, At, Go, Throw, ReadsInv, PrintState

LEMMA NextHeaderReads ==
  ASSUME ReadsInv, NextHeader
  PROVE  ReadsInv'
<1>1. PrintState /\ index' = index
  BY DEF NextHeader, PrintKeeps, At, Go, Throw, ReadsInv, PrintState
<1>2. CASE UNCHANGED <<view, reach>> /\ pc' \in {"print_pcap:end", "unwind"}
  BY <1>1, <1>2, OutsidePacket DEF PrintState
<1>3. CASE pc' = "headers" /\ view' = NoView /\ reach' = 0 /\ index # Len(capture.packets)
  <2>1. index < Len(capture.packets) /\ NoView \in View
    BY <1>1, <1>3 DEF PrintState, WellFormedCapture, NoView, View
  <2> QED
    BY <1>1, <1>3, <2>1 DEF PrintState, ReadsInv, Reading, PacketRead, NoView
<1>4. (AtLimit \/ (index = Len(capture.packets) /\ ~capture.torn))
        \/ (~AtLimit /\ index = Len(capture.packets) /\ capture.torn)
        \/ index # Len(capture.packets)
  BY DEF AtLimit
<1> QED
  BY <1>2, <1>3, <1>4 DEF NextHeader, Go, Throw

LEMMA ReadHeadersReads ==
  ASSUME ReadsInv, ReadHeaders
  PROVE  ReadsInv'
<1>1. PrintState /\ index' = index /\ index < Len(capture.packets) /\ view.size = 0
  <2>1. PrintState /\ index' = index
    <3>1. Throw \/ Go("udp")
      BY DEF ReadHeaders
    <3>2. tool' = tool /\ options' = options
      BY <3>1 DEF Throw, Go
    <3> QED
      BY <3>2 DEF ReadHeaders, PrintKeeps, At, ReadsInv, PrintState
  <2>2. pc = "headers" /\ Reading
    BY DEF ReadHeaders, At, Reading
  <2> QED
    BY <2>1, <2>2 DEF ReadsInv, PacketRead
<1>2. This' = This /\ This.size \in Nat /\ This.udp \in Nat
  BY <1>1, InsidePacket
<1>3. CASE This.size < MinPacket
  BY <1>1, <1>3, OutsidePacket DEF ReadHeaders, Go, Throw, PrintState
<1>4. CASE ~(This.size < MinPacket)
  <2>1. PICK h \in FoundHeaders :
          /\ reach' = 14 + 20
          /\ \/ Throw /\ UNCHANGED view
             \/ /\ NoCall /\ Go("udp")
                /\ view' = [view EXCEPT !.base = 14 + Ihl(h.versionIhl) + 8, !.udp = h.udp]
    BY <1>4 DEF ReadHeaders
  <2>2. CASE Throw /\ UNCHANGED view
    BY <1>1, <2>1, <2>2, OutsidePacket DEF Go, Throw, PrintState
  <2>3. CASE /\ NoCall /\ Go("udp")
             /\ view' = [view EXCEPT !.base = 14 + Ihl(h.versionIhl) + 8, !.udp = h.udp]
    <3>1. h.versionIhl \in Nat /\ h.udp \in Nat
      BY <1>2, HeadersFound
    <3>2. Ihl(h.versionIhl) \in Nat
      BY <3>1 DEF Ihl
    <3>3. view' \in View /\ view'.size = 0
      <4>1. view \in View /\ 14 + Ihl(h.versionIhl) + 8 \in Nat
        BY <1>1, <3>2 DEF PrintState
      <4> QED
        BY <1>1, <2>3, <3>1, <4>1 DEF View
    <3>4. 14 + 20 <= This.size
      BY <1>2, <1>4 DEF MinPacket, Headers
    <3> QED
      BY <1>1, <1>2, <2>1, <2>3, <3>3, <3>4 DEF Go, PrintState, ReadsInv, Reading, PacketRead
  <2> QED
    BY <2>1, <2>2, <2>3
<1> QED
  BY <1>3, <1>4

LEMMA ReadUdpReads ==
  ASSUME ReadsInv, ReadUdp
  PROVE  ReadsInv'
<1>1. PrintState /\ index' = index /\ index < Len(capture.packets) /\ view.size = 0
  <2>1. Throw \/ Go("mold")
    BY DEF ReadUdp
  <2>2. PrintState /\ index' = index
    BY <2>1 DEF Throw, Go, ReadUdp, PrintKeeps, At, ReadsInv, PrintState
  <2>3. pc = "udp" /\ Reading
    BY DEF ReadUdp, At, Reading
  <2> QED
    BY <2>2, <2>3 DEF ReadsInv, PacketRead
<1>2. This' = This /\ This.size \in Nat /\ view \in View
  BY <1>1, InsidePacket DEF PrintState
<1>3. CASE Throw /\ UNCHANGED view /\ reach' \in Nat
  BY <1>1, <1>3, OutsidePacket DEF Go, Throw, PrintState
<1>4. CASE /\ view.base <= This.size /\ reach' = view.base
           /\ UdpFits(view.udp, This.size - view.base)
           /\ Go("mold") /\ view' = [view EXCEPT !.size = view.udp - 8]
  <2>1. view.base \in Nat /\ view.udp \in Nat
    BY <1>2 DEF View
  <2>2. view.udp - 8 \in Nat /\ view.base + (view.udp - 8) <= This.size
    BY <1>2, <1>4, <2>1 DEF UdpFits
  <2>3. view' \in View /\ view'.size = view.udp - 8 /\ view'.base = view.base
    BY <1>2, <1>4, <2>2 DEF View
  <2> QED
    BY <1>1, <1>2, <1>4, <2>1, <2>2, <2>3 DEF Go, PrintState, ReadsInv, Reading, PacketRead
<1> QED
  BY <1>1, <1>2, <1>3, <1>4 DEF ReadUdp, PrintState, View

LEMMA ReadMoldReads ==
  ASSUME ReadsInv, ReadMold
  PROVE  ReadsInv'
<1>1. /\ PrintState /\ index' = index /\ index < Len(capture.packets)
      /\ reach <= This.size /\ view.base + view.size <= This.size
  <2>1. Throw \/ Go("messages")
    BY DEF ReadMold
  <2>2. PrintState /\ index' = index
    BY <2>1 DEF Throw, Go, ReadMold, PrintKeeps, At, ReadsInv, PrintState
  <2>3. pc = "mold" /\ Reading
    BY DEF ReadMold, At, Reading
  <2> QED
    BY <2>2, <2>3 DEF ReadsInv, PacketRead
<1>2. This' = This /\ This.size \in Nat /\ view \in View
  BY <1>1, InsidePacket DEF PrintState
<1>3. CASE view.size < 20
  BY <1>1, <1>3, OutsidePacket DEF ReadMold, Go, Throw, PrintState
<1>4. CASE ~(view.size < 20)
  <2>1. PICK n \in Found(18, 2, Words16, Counts) :
          /\ Go("messages")
          /\ view' = [view EXCEPT !.offset = 20, !.left = n]
          /\ reach' = view.base + 20
    BY <1>4 DEF ReadMold
  <2>2. n \in Nat
    BY FoundValues
  <2>3. /\ view' \in View /\ view'.base = view.base /\ view'.size = view.size
        /\ view'.offset = 20 /\ view.base \in Nat /\ view.size \in Nat
    BY <1>2, <2>1, <2>2 DEF View
  <2> QED
    BY <1>1, <1>2, <1>4, <2>1, <2>3 DEF Go, PrintState, ReadsInv, Reading, PacketRead
<1> QED
  BY <1>3, <1>4

LEMMA NextMessageReads ==
  ASSUME ReadsInv, NextMessage
  PROVE  ReadsInv'
<1>1. /\ PrintState /\ index' = index /\ index < Len(capture.packets)
      /\ view.base + view.size <= This.size /\ view.offset <= view.size /\ view.left > 0
  <2>1. Throw \/ Go("parse")
    BY DEF NextMessage
  <2>2. PrintState /\ index' = index
    BY <2>1 DEF Throw, Go, NextMessage, PrintKeeps, At, ReadsInv, PrintState
  <2>3. pc = "messages" /\ Reading /\ view.left > 0
    BY DEF NextMessage, At, Reading
  <2> QED
    BY <2>2, <2>3 DEF ReadsInv, PacketRead
<1>2. /\ This' = This /\ This.size \in Nat /\ view \in View
      /\ view.base \in Nat /\ view.offset \in Nat /\ view.size \in Nat
  BY <1>1, InsidePacket DEF PrintState, View
<1>3. CASE view.size - view.offset < 2
  BY <1>1, <1>3, OutsidePacket DEF NextMessage, Go, Throw, PrintState
<1>4. CASE ~(view.size - view.offset < 2)
  <2>1. PICK n \in Found(view.offset, 2, Words16, Lengths) :
          /\ reach' = view.base + view.offset + 2
          /\ IF LengthFits(view.offset + 2, n)
             THEN Go("parse") /\ view' = [view EXCEPT !.offset = @ + 2, !.length = n]
             ELSE Throw /\ UNCHANGED view
    BY <1>4 DEF NextMessage
  <2>2. n \in Nat
    BY FoundValues
  <2>3. reach' \in Nat /\ reach' <= This.size
    BY <1>1, <1>2, <1>4, <2>1
  <2>4. CASE LengthFits(view.offset + 2, n)
    <3>1. /\ view' \in View /\ view'.base = view.base /\ view'.size = view.size
          /\ view'.offset = view.offset + 2 /\ view'.length = n /\ view'.left = view.left
      <4>1. view' = [view EXCEPT !.offset = @ + 2, !.length = n] /\ view.offset + 2 \in Nat
        BY <1>2, <2>1, <2>4
      <4> QED
        BY <1>2, <2>2, <4>1 DEF View
    <3>2. view'.offset + view'.length <= view'.size
      BY <1>2, <2>2, <2>4, <3>1 DEF LengthFits
    <3> QED
      BY <1>1, <1>2, <2>1, <2>3, <2>4, <3>1, <3>2
      DEF Go, PrintState, ReadsInv, Reading, PacketRead
  <2>5. CASE ~LengthFits(view.offset + 2, n)
    BY <1>1, <2>1, <2>3, <2>5, OutsidePacket DEF Go, Throw, PrintState
  <2> QED
    BY <2>4, <2>5
<1> QED
  BY <1>3, <1>4

LEMMA PrintMessageReads ==
  ASSUME ReadsInv, PrintMessage
  PROVE  ReadsInv'
<1>1. /\ PrintState /\ index' = index /\ index < Len(capture.packets) /\ view' = view
      /\ view.base + view.size <= This.size /\ view.offset + view.length <= view.size
      /\ view.left > 0
  <2>1. Throw \/ Go("message:end")
    BY DEF PrintMessage
  <2>2. PrintState /\ index' = index /\ view' = view
    BY <2>1 DEF Throw, Go, PrintMessage, PrintKeeps, At, ReadsInv, PrintState
  <2>3. pc = "parse" /\ Reading
    BY DEF PrintMessage, At, Reading
  <2> QED
    BY <2>2, <2>3 DEF ReadsInv, PacketRead
<1>2. /\ This' = This /\ This.size \in Nat
      /\ view.base \in Nat /\ view.offset \in Nat /\ view.size \in Nat /\ view.length \in Nat
  BY <1>1, InsidePacket DEF PrintState, View
<1>3. PICK type \in Found(view.offset, 1, MessageTypes, Types) :
        IF ParseMessage(type, view.length)
        THEN Go("message:end") /\ reach' = view.base + view.offset + Extent(Layout(type))
        ELSE Throw /\ UNCHANGED reach
  BY DEF PrintMessage
<1>4. CASE ParseMessage(type, view.length)
  <2>1. type \in MessageTypes \cup {"?"}
    BY FoundValues
  <2>2. Extent(Layout(type)) <= view.length /\ Extent(Layout(type)) \in Nat
    BY <1>4, <2>1, StructFits, MessageSizes
  <2>3. reach' \in Nat /\ reach' <= This.size
    BY <1>1, <1>2, <1>3, <1>4, <2>2
  <2> QED
    BY <1>1, <1>2, <1>3, <1>4, <2>3 DEF Go, PrintState, ReadsInv, Reading, PacketRead
<1>5. CASE ~ParseMessage(type, view.length)
  BY <1>1, <1>3, <1>5, OutsidePacket DEF Go, Throw, PrintState
<1> QED
  BY <1>4, <1>5

LEMMA MessageEndReads ==
  ASSUME ReadsInv, MessageEnd
  PROVE  ReadsInv'
<1>1. /\ PrintState /\ index' = index /\ index < Len(capture.packets) /\ reach' = reach
      /\ reach <= This.size
      /\ view.base + view.size <= This.size /\ view.offset + view.length <= view.size
      /\ view.left > 0
  <2>1. PrintState /\ index' = index /\ reach' = reach
    BY DEF Go, MessageEnd, PrintKeeps, At, ReadsInv, PrintState
  <2>2. pc = "message:end" /\ Reading
    BY DEF MessageEnd, At, Reading
  <2> QED
    BY <2>1, <2>2 DEF ReadsInv, PacketRead
<1>2. This' = This /\ view \in View
  BY <1>1, InsidePacket DEF PrintState
<1>3. pc' = "messages" /\ view' = [view EXCEPT !.left = @ - 1, !.offset = @ + view.length]
  BY DEF MessageEnd, SkipMessage, Go
<1>4. /\ view' \in View /\ view'.base = view.base /\ view'.size = view.size
      /\ view'.offset <= view'.size
  <2>1. /\ view.offset \in Nat /\ view.length \in Nat /\ view.left \in Nat
        /\ view.base \in Nat /\ view.size \in Nat
    BY <1>2 DEF View
  <2>2. view.left - 1 \in Nat /\ view.offset + view.length \in Nat
    BY <1>1, <2>1
  <2> QED
    BY <1>1, <1>2, <1>3, <2>2 DEF View
<1> QED
  BY <1>1, <1>2, <1>3, <1>4 DEF PrintState, ReadsInv, Reading, PacketRead

LEMMA PacketEndReads ==
  ASSUME ReadsInv, PacketEnd
  PROVE  ReadsInv'
<1>1. PrintState /\ index' = index + 1 /\ pc' = "packet" /\ UNCHANGED <<view, reach>>
  BY DEF Go, PacketEnd, PrintKeeps, At, ReadsInv, PrintState
<1>2. index < Len(capture.packets)
  BY DEF PacketEnd, At, Reading, ReadsInv
<1> QED
  BY <1>1, <1>2, OutsidePacket DEF PrintState, WellFormedCapture

-----------------------------------------------------------------------------
\* Every step of the tools preserves the invariant.
LEMMA ToolsNextReads ==
  ASSUME ReadsInv, [ToolsNext]_<<vars, toolVars>>
  PROVE  ReadsInv'
<1>1. ASSUME PcapItchPrint PROVE ReadsInv'
  BY <1>1, PrintCallsReads, OpenInputReads, NextHeaderReads, ReadHeadersReads, ReadUdpReads,
     ReadMoldReads, NextMessageReads, PrintMessageReads, MessageEndReads, PacketEndReads
  DEF PcapItchPrint
<1>2. ASSUME Unwind \/ Catch PROVE ReadsInv'
  BY <1>2 DEF Unwind, Catch, Go, ReadsInv, Reading
<1>3. NoView \in View
  BY DEF NoView, View
<1>4. ASSUME NEW size \in Nat, NEW n \in Nat \ {0}, NEW mode \in {"raw", "itch5"},
             LaunchGen(size, n, mode)
      PROVE  ReadsInv'
  BY <1>3, <1>4 DEF LaunchGen, Launch, ReadsInv, Reading
<1>5. ASSUME NEW limit \in Nat, LaunchPrint(limit) PROVE ReadsInv'
  BY <1>3, <1>5 DEF LaunchPrint, Launch, ReadsInv, Reading, WellFormedCapture
<1>6. ASSUME UNCHANGED <<vars, toolVars>> PROVE ReadsInv'
  BY <1>6 DEF toolVars, ReadsInv, Reading, PacketRead, This
<1> QED
  BY <1>1, <1>2, <1>4, <1>5, <1>6, GenReads DEF ToolsNext, ToolStep

\* The invariant of the cursor holds for every capture.
THEOREM CursorInvariant == ToolsSpec => []ReadsInv
<1>1. ToolsInit => ReadsInv
  <2> SUFFICES ASSUME ToolsInit PROVE ReadsInv
    OBVIOUS
  <2>1. WellFormedCapture(capture)
    BY CapturesAssumption DEF ToolsInit
  <2>2. NoView \in View
    BY DEF NoView, View
  <2> QED
    BY <2>1, <2>2 DEF ToolsInit, ReadsInv, Reading
<1>2. ReadsInv /\ [ToolsNext]_<<vars, toolVars>> => ReadsInv'
  BY ToolsNextReads
<1> QED
  BY <1>1, <1>2, PTL DEF ToolsSpec

\* print_packet and print_itch_message never read beyond the bytes of a packet:
\* for every capture, of any number and size of packets, whatever is in them.
THEOREM ReadsInside == ToolsSpec => []ReadsStayInside
<1>1. ReadsInv => ReadsStayInside
  <2> SUFFICES ASSUME ReadsInv, Reading PROVE ReadsStayInside
    BY DEF ReadsStayInside
  <2>1. This.size \in Nat
    BY DEF ReadsInv, WellFormedCapture, This
  <2> QED
    BY <2>1 DEF ReadsInv, Reading, PacketRead, ReadsStayInside, View
<1> QED
  BY <1>1, CursorInvariant, PTL

-----------------------------------------------------------------------------
(***************************************************************************)
(* A recording of the printer is bounded by the packet, whatever count of  *)
(* messages the packet claims, and one of the generator by a constant,     *)
(* also when an exception adds the ends of the scopes that it leaves.      *)
(***************************************************************************)

\* At most n records are in the recording, and d scopes are alive.
Made(n, d) == added <= n /\ Len(stack) = d

\* What an exception may make of the recording, since each scope adds its end.
Unwound == added + Len(stack)

\* The places of gen.
GenMade ==
  /\ Unwound <= 16
  /\ pc = "src_ip" => Made(0, 0)
  /\ pc = "src_ip:end" => Made(1, 1)
  /\ pc = "dst_ip" => Made(2, 0)
  /\ pc = "dst_ip:end" => Made(3, 1)
  /\ pc \in {"open", "global_header"} => Made(4, 0)
  /\ pc = "global_header:end" => Made(5, 1)
  /\ pc = "loop" => Made(16, 0)
  /\ pc = "packet_loop" => Made(1, 0)
  /\ pc = "make_packet" => Made(2, 1)
  /\ pc = "make_payload" => Made(3, 2)
  /\ pc = "payload" => Made(4, 3)
  /\ pc = "message:end" => Made(5, 4)
  /\ pc = "payload:end" => Made(6, 3)
  /\ pc = "ip_header" => Made(7, 2)
  /\ pc = "checksum" => Made(8, 2)
  /\ pc = "internet_checksum" => Made(9, 2)
  /\ pc = "internet_checksum:end" => Made(10, 3)
  /\ pc = "copy_payload" => Made(11, 2)
  /\ pc = "make_packet:end" => Made(12, 2)
  /\ pc = "write" => Made(13, 1)
  /\ pc = "write:end" => Made(14, 2)
  /\ pc = "packet_loop:end" => Made(15, 1)

\* The places of print.  Three records are made of a message, which takes 13 bytes
\* or more of the payload, and two are made before the first one.
PrintMade ==
  /\ Unwound <= 5 + 3 * (view.size \div 13)
  /\ pc = "print_pcap" => Made(0, 0)
  /\ pc \in {"open", "packet", "headers", "udp", "print_pcap:end"} => Made(1, 1)
  /\ pc = "commit" => Made(2, 0)
  /\ pc = "mold" => Made(2, 1)
  /\ pc = "messages" => 13 * added <= 3 * view.offset - 34 /\ Len(stack) = 1
  /\ pc = "parse" => 13 * added <= 3 * view.offset - 27 /\ Len(stack) = 2
  /\ pc = "message:end" =>
       13 * added <= 3 * view.offset - 14 /\ Len(stack) = 2 /\ view.length >= 11

Scopes(s) == \E S : s \in Seq(S)

\* The inductive invariant behind RecordingFits.
MadeInv ==
  /\ added \in Nat /\ Scopes(stack)
  /\ tool = "gen" => GenMade
  /\ tool = "print" => PrintMade

-----------------------------------------------------------------------------
\* What the macros do to the recording and to the scopes.
LEMMA EnterMakes ==
  ASSUME MadeInv, NEW where, Enter(where)
  PROVE  /\ added' = added + 1 /\ Len(stack') = Len(stack) + 1
         /\ added' \in Nat /\ Scopes(stack')
<1>1. added' = added + 1 /\ stack' = Append(stack, where)
  BY DEF Enter, Add
<1>2. PICK S : stack \in Seq(S)
  BY DEF MadeInv, Scopes
<1>3. stack \in Seq(S \cup {where}) /\ where \in S \cup {where}
  BY <1>2
<1>4. stack' \in Seq(S \cup {where}) /\ Len(stack') = Len(stack) + 1
  BY <1>1, <1>3
<1> QED
  BY <1>1, <1>4 DEF MadeInv, Scopes

LEMMA LeaveMakes ==
  ASSUME MadeInv, Leave, Len(stack) > 0
  PROVE  /\ added' = added + 1 /\ Len(stack') = Len(stack) - 1
         /\ added' \in Nat /\ Scopes(stack')
<1>1. added' = added + 1 /\ stack' = SubSeq(stack, 1, Len(stack) - 1)
  BY DEF Leave, Add
<1>2. PICK S : stack \in Seq(S)
  BY DEF MadeInv, Scopes
<1> DEFINE n == Len(stack) - 1
<1>3. n \in Nat /\ n + 1 = Len(stack) /\ \A i \in 1..n : stack[i] \in S
  BY <1>2
<1>4. SubSeq(stack, 1, n) \in Seq(S) /\ Len(SubSeq(stack, 1, n)) = IF 1 <= n THEN n - 1 + 1 ELSE 0
  <2>1. n \in Int /\ 1 \in Int
    BY <1>3
  <2> QED
    BY <1>3, <2>1, SubSeqProperties
<1> HIDE DEF n
<1>5. Len(stack') = n /\ stack' \in Seq(S)
  BY <1>1, <1>3, <1>4 DEF n
<1>6. Len(stack') = Len(stack) - 1
  BY <1>5 DEF n
<1>7. Scopes(stack')
  BY <1>5 DEF Scopes
<1> QED
  BY <1>1, <1>6, <1>7 DEF MadeInv

LEMMA MarkMakes ==
  ASSUME MadeInv, NEW where, Mark(where)
  PROVE  /\ added' = added + 1 /\ Len(stack') = Len(stack)
         /\ added' \in Nat /\ Scopes(stack')
  BY DEF Mark, Add, MadeInv, Scopes

LEMMA BeginMakes ==
  ASSUME NEW where, NEW category, Begin(where, category)
  PROVE  added' = 1 /\ stack' = stack
  BY DEF Begin, Start

LEMMA CommitMakes ==
  ASSUME CommitAll
  PROVE  added' = 0 /\ stack' = stack
  BY DEF CommitAll, Commit

LEMMA NoCallMakes ==
  ASSUME NoCall
  PROVE  added' = added /\ stack' = stack
  BY DEF NoCall, vars

\* The number of scopes is a number.
LEMMA Depth ==
  ASSUME MadeInv
  PROVE  Len(stack) \in Nat /\ (stack # <<>> => Len(stack) > 0)
<1>1. PICK S : stack \in Seq(S)
  BY DEF MadeInv, Scopes
<1> QED
  BY <1>1

-----------------------------------------------------------------------------
\* The straight-line parts of gen.
LEMMA GenCallsMade ==
  ASSUME MadeInv, GenCalls
  PROVE  MadeInv'
<1>1. CASE GenLine("src_ip", Enter("parse_ipv4"), "src_ip:end")
  <2>1. Enter("parse_ipv4") /\ tool' = "gen" /\ pc' = "src_ip:end" /\ Made(0, 0)
    BY <1>1 DEF GenLine, At, Go, MadeInv, GenMade
  <2>2. added' = added + 1 /\ Len(stack') = Len(stack) + 1 /\ added' \in Nat /\ Scopes(stack')
    BY <2>1, EnterMakes
  <2> QED
    BY <2>1, <2>2 DEF MadeInv, GenMade, Made, Unwound
<1>2. CASE GenLine("src_ip:end", Leave, "dst_ip")
  <2>1. Leave /\ tool' = "gen" /\ pc' = "dst_ip" /\ Made(1, 1)
    BY <1>2 DEF GenLine, At, Go, MadeInv, GenMade
  <2>2. added' = added + 1 /\ Len(stack') = Len(stack) - 1 /\ added' \in Nat /\ Scopes(stack')
    BY <2>1, LeaveMakes DEF Made
  <2> QED
    BY <2>1, <2>2 DEF MadeInv, GenMade, Made, Unwound
<1>3. CASE GenLine("dst_ip", Enter("parse_ipv4"), "dst_ip:end")
  <2>1. Enter("parse_ipv4") /\ tool' = "gen" /\ pc' = "dst_ip:end" /\ Made(2, 0)
    BY <1>3 DEF GenLine, At, Go, MadeInv, GenMade
  <2>2. added' = added + 1 /\ Len(stack') = Len(stack) + 1 /\ added' \in Nat /\ Scopes(stack')
    BY <2>1, EnterMakes
  <2> QED
    BY <2>1, <2>2 DEF MadeInv, GenMade, Made, Unwound
<1>4. CASE GenLine("dst_ip:end", Leave, "open")
  <2>1. Leave /\ tool' = "gen" /\ pc' = "open" /\ Made(3, 1)
    BY <1>4 DEF GenLine, At, Go, MadeInv, GenMade
  <2>2. added' = added + 1 /\ Len(stack') = Len(stack) - 1 /\ added' \in Nat /\ Scopes(stack')
    BY <2>1, LeaveMakes DEF Made
  <2> QED
    BY <2>1, <2>2 DEF MadeInv, GenMade, Made, Unwound
<1>5. CASE GenLine("global_header", Enter("write_pcap_global_header"), "global_header:end")
  <2>1. Enter("write_pcap_global_header") /\ tool' = "gen" /\ pc' = "global_header:end" /\ Made(4, 0)
    BY <1>5 DEF GenLine, At, Go, MadeInv, GenMade
  <2>2. added' = added + 1 /\ Len(stack') = Len(stack) + 1 /\ added' \in Nat /\ Scopes(stack')
    BY <2>1, EnterMakes
  <2> QED
    BY <2>1, <2>2 DEF MadeInv, GenMade, Made, Unwound
<1>6. CASE GenLine("packet_loop", Enter("packet_loop"), "make_packet")
  <2>1. Enter("packet_loop") /\ tool' = "gen" /\ pc' = "make_packet" /\ Made(1, 0)
    BY <1>6 DEF GenLine, At, Go, MadeInv, GenMade
  <2>2. added' = added + 1 /\ Len(stack') = Len(stack) + 1 /\ added' \in Nat /\ Scopes(stack')
    BY <2>1, EnterMakes
  <2> QED
    BY <2>1, <2>2 DEF MadeInv, GenMade, Made, Unwound
<1>7. CASE GenLine("make_packet", Enter("make_packet"), "make_payload")
  <2>1. Enter("make_packet") /\ tool' = "gen" /\ pc' = "make_payload" /\ Made(2, 1)
    BY <1>7 DEF GenLine, At, Go, MadeInv, GenMade
  <2>2. added' = added + 1 /\ Len(stack') = Len(stack) + 1 /\ added' \in Nat /\ Scopes(stack')
    BY <2>1, EnterMakes
  <2> QED
    BY <2>1, <2>2 DEF MadeInv, GenMade, Made, Unwound
<1>8. CASE GenLine("make_payload", Enter("make_payload"), "payload")
  <2>1. Enter("make_payload") /\ tool' = "gen" /\ pc' = "payload" /\ Made(3, 2)
    BY <1>8 DEF GenLine, At, Go, MadeInv, GenMade
  <2>2. added' = added + 1 /\ Len(stack') = Len(stack) + 1 /\ added' \in Nat /\ Scopes(stack')
    BY <2>1, EnterMakes
  <2> QED
    BY <2>1, <2>2 DEF MadeInv, GenMade, Made, Unwound
<1>9. CASE GenLine("message:end", Leave, "payload:end")
  <2>1. Leave /\ tool' = "gen" /\ pc' = "payload:end" /\ Made(5, 4)
    BY <1>9 DEF GenLine, At, Go, MadeInv, GenMade
  <2>2. added' = added + 1 /\ Len(stack') = Len(stack) - 1 /\ added' \in Nat /\ Scopes(stack')
    BY <2>1, LeaveMakes DEF Made
  <2> QED
    BY <2>1, <2>2 DEF MadeInv, GenMade, Made, Unwound
<1>10. CASE GenLine("ip_header", Mark("make_packet:ip_header"), "checksum")
  <2>1. Mark("make_packet:ip_header") /\ tool' = "gen" /\ pc' = "checksum" /\ Made(7, 2)
    BY <1>10 DEF GenLine, At, Go, MadeInv, GenMade
  <2>2. added' = added + 1 /\ Len(stack') = Len(stack) /\ added' \in Nat /\ Scopes(stack')
    BY <2>1, MarkMakes
  <2> QED
    BY <2>1, <2>2 DEF MadeInv, GenMade, Made, Unwound
<1>11. CASE GenLine("checksum", Mark("make_packet:checksum"), "internet_checksum")
  <2>1. Mark("make_packet:checksum") /\ tool' = "gen" /\ pc' = "internet_checksum" /\ Made(8, 2)
    BY <1>11 DEF GenLine, At, Go, MadeInv, GenMade
  <2>2. added' = added + 1 /\ Len(stack') = Len(stack) /\ added' \in Nat /\ Scopes(stack')
    BY <2>1, MarkMakes
  <2> QED
    BY <2>1, <2>2 DEF MadeInv, GenMade, Made, Unwound
<1>12. CASE GenLine("internet_checksum", Enter("internet_checksum"), "internet_checksum:end")
  <2>1. Enter("internet_checksum") /\ tool' = "gen" /\ pc' = "internet_checksum:end" /\ Made(9, 2)
    BY <1>12 DEF GenLine, At, Go, MadeInv, GenMade
  <2>2. added' = added + 1 /\ Len(stack') = Len(stack) + 1 /\ added' \in Nat /\ Scopes(stack')
    BY <2>1, EnterMakes
  <2> QED
    BY <2>1, <2>2 DEF MadeInv, GenMade, Made, Unwound
<1>13. CASE GenLine("internet_checksum:end", Leave, "copy_payload")
  <2>1. Leave /\ tool' = "gen" /\ pc' = "copy_payload" /\ Made(10, 3)
    BY <1>13 DEF GenLine, At, Go, MadeInv, GenMade
  <2>2. added' = added + 1 /\ Len(stack') = Len(stack) - 1 /\ added' \in Nat /\ Scopes(stack')
    BY <2>1, LeaveMakes DEF Made
  <2> QED
    BY <2>1, <2>2 DEF MadeInv, GenMade, Made, Unwound
<1>14. CASE GenLine("copy_payload", Mark("make_packet:copy_payload"), "make_packet:end")
  <2>1. Mark("make_packet:copy_payload") /\ tool' = "gen" /\ pc' = "make_packet:end" /\ Made(11, 2)
    BY <1>14 DEF GenLine, At, Go, MadeInv, GenMade
  <2>2. added' = added + 1 /\ Len(stack') = Len(stack) /\ added' \in Nat /\ Scopes(stack')
    BY <2>1, MarkMakes
  <2> QED
    BY <2>1, <2>2 DEF MadeInv, GenMade, Made, Unwound
<1>15. CASE GenLine("make_packet:end", Leave, "write")
  <2>1. Leave /\ tool' = "gen" /\ pc' = "write" /\ Made(12, 2)
    BY <1>15 DEF GenLine, At, Go, MadeInv, GenMade
  <2>2. added' = added + 1 /\ Len(stack') = Len(stack) - 1 /\ added' \in Nat /\ Scopes(stack')
    BY <2>1, LeaveMakes DEF Made
  <2> QED
    BY <2>1, <2>2 DEF MadeInv, GenMade, Made, Unwound
<1>16. CASE GenLine("write", Enter("write_pcap_packet"), "write:end")
  <2>1. Enter("write_pcap_packet") /\ tool' = "gen" /\ pc' = "write:end" /\ Made(13, 1)
    BY <1>16 DEF GenLine, At, Go, MadeInv, GenMade
  <2>2. added' = added + 1 /\ Len(stack') = Len(stack) + 1 /\ added' \in Nat /\ Scopes(stack')
    BY <2>1, EnterMakes
  <2> QED
    BY <2>1, <2>2 DEF MadeInv, GenMade, Made, Unwound
<1> QED
  BY <1>1, <1>2, <1>3, <1>4, <1>5, <1>6, <1>7, <1>8, <1>9, <1>10, <1>11, <1>12, <1>13, <1>14, <1>15, <1>16 DEF GenCalls

\* The other steps of gen.
LEMMA GenMakes ==
  ASSUME MadeInv, PcapItchGen
  PROVE  MadeInv'
<1>1. CASE ParseIpv4Fails \/ OpenOutputFails
  <2>1. tool = "gen" /\ tool' = "gen" /\ pc' = "unwind" /\ NoCall
    BY <1>1 DEF ParseIpv4Fails, OpenOutputFails, GenLine, At, Go
  <2> QED
    BY <2>1, NoCallMakes DEF MadeInv, GenMade, Unwound
<1>2. CASE OpenOutput
  <2>1. tool = "gen" /\ pc = "open" /\ tool' = "gen" /\ pc' = "global_header" /\ NoCall
    BY <1>2 DEF OpenOutput, At, Go
  <2> QED
    BY <2>1, NoCallMakes DEF MadeInv, GenMade, Made, Unwound
<1>3. CASE WriteGlobalHeader
  <2>1. tool' = "gen" /\ pc' = "loop" /\ Leave /\ Made(5, 1)
    BY <1>3 DEF WriteGlobalHeader, At, Go, MadeInv, GenMade
  <2>2. added' = added + 1 /\ Len(stack') = Len(stack) - 1 /\ added' \in Nat /\ Scopes(stack')
    BY <2>1, LeaveMakes DEF Made
  <2> QED
    BY <2>1, <2>2 DEF MadeInv, GenMade, Made, Unwound
<1>4. CASE GenLoop
  <2>1. tool = "gen" /\ tool' = "gen" /\ Made(16, 0)
    BY <1>4 DEF GenLoop, At, Go, MadeInv, GenMade
  <2>2. CASE Begin("packet_loop", MdCategory) /\ pc' = "packet_loop"
    BY <2>1, <2>2, BeginMakes DEF MadeInv, GenMade, Made, Unwound
  <2>3. CASE NoCall /\ pc' = "exit0"
    BY <2>1, <2>3, NoCallMakes DEF MadeInv, GenMade, Made, Unwound
  <2> QED
    BY <1>4, <2>2, <2>3 DEF GenLoop, Go
<1>5. CASE ChooseMessage
  <2>1. tool = "gen" /\ tool' = "gen" /\ Made(4, 3)
    BY <1>5 DEF ChooseMessage, At, Go, MadeInv, GenMade
  <2>2. CASE NoCall /\ pc' = "payload:end"
    <3>1. added' = added /\ Len(stack') = Len(stack) /\ added' \in Nat /\ Scopes(stack')
      BY <2>2, NoCallMakes DEF MadeInv, Scopes
    <3> QED
      BY <2>1, <2>2, <3>1 DEF MadeInv, GenMade, Made, Unwound
  <2>3. CASE Enter("make_itch_message") /\ pc' = "message:end"
    <3>1. added' = added + 1 /\ Len(stack') = Len(stack) + 1 /\ added' \in Nat /\ Scopes(stack')
      BY <2>3, EnterMakes
    <3> QED
      BY <2>1, <2>3, <3>1 DEF MadeInv, GenMade, Made, Unwound
  <2> QED
    BY <1>5, <2>2, <2>3 DEF ChooseMessage, Go
<1>6. CASE PayloadEnd
  <2>1. tool = "gen" /\ tool' = "gen" /\ Made(6, 3)
    BY <1>6 DEF PayloadEnd, At, Go, Throw, MadeInv, GenMade
  <2>2. CASE Throw
    BY <2>1, <2>2, NoCallMakes DEF Throw, Go, MadeInv, GenMade, Unwound
  <2>3. CASE Leave /\ pc' = "ip_header"
    <3>1. added' = added + 1 /\ Len(stack') = Len(stack) - 1 /\ added' \in Nat /\ Scopes(stack')
      BY <2>1, <2>3, LeaveMakes DEF Made
    <3> QED
      BY <2>1, <2>3, <3>1 DEF MadeInv, GenMade, Made, Unwound
  <2> QED
    BY <1>6, <2>2, <2>3 DEF PayloadEnd, Go
<1>7. CASE WritePacket
  <2>1. tool' = "gen" /\ pc' = "packet_loop:end" /\ Leave /\ Made(14, 2)
    BY <1>7 DEF WritePacket, At, Go, MadeInv, GenMade
  <2>2. added' = added + 1 /\ Len(stack') = Len(stack) - 1 /\ added' \in Nat /\ Scopes(stack')
    BY <2>1, LeaveMakes DEF Made
  <2> QED
    BY <2>1, <2>2 DEF MadeInv, GenMade, Made, Unwound
<1>8. CASE NextPacket
  <2>1. tool' = "gen" /\ pc' = "loop" /\ Leave /\ Made(15, 1)
    BY <1>8 DEF NextPacket, At, Go, MadeInv, GenMade
  <2>2. added' = added + 1 /\ Len(stack') = Len(stack) - 1 /\ added' \in Nat /\ Scopes(stack')
    BY <2>1, LeaveMakes DEF Made
  <2> QED
    BY <2>1, <2>2 DEF MadeInv, GenMade, Made, Unwound
<1> QED
  BY <1>1, <1>2, <1>3, <1>4, <1>5, <1>6, <1>7, <1>8, GenCallsMade DEF PcapItchGen

-----------------------------------------------------------------------------
\* The steps of print.  A step keeps or changes view, which ReadsInv knows.
ViewNumbers ==
  /\ view.size \in Nat /\ view.offset \in Nat /\ view.length \in Nat /\ view.left \in Nat
  /\ view.size \div 13 \in Nat

LEMMA Numbers ==
  ASSUME ReadsInv
  PROVE  ViewNumbers
<1>1. view \in View
  BY DEF ReadsInv
<1>2. view.size \in Nat /\ view.offset \in Nat /\ view.length \in Nat /\ view.left \in Nat
  BY <1>1 DEF View
<1>3. view.size \div 13 \in Nat
  BY <1>2
<1> QED
  BY <1>2, <1>3 DEF ViewNumbers

\* The number of messages of 13 bytes that a payload holds.
LEMMA Thirteens ==
  ASSUME NEW n \in Nat
  PROVE  n <= 13 * (n \div 13) + 12
  OBVIOUS

\* An exception adds nothing yet.
LEMMA ThrowMakes ==
  ASSUME MadeInv, ViewNumbers, tool = "print", Throw, view' = view
  PROVE  MadeInv'
<1>1. added' = added /\ Len(stack') = Len(stack) /\ Scopes(stack') /\ pc' = "unwind" /\ tool' = "print"
  BY NoCallMakes DEF Throw, Go, MadeInv, Scopes
<1> QED
  BY <1>1 DEF MadeInv, PrintMade, Unwound

LEMMA PrintCallsMade ==
  ASSUME ReadsInv, MadeInv, PrintCalls
  PROVE  MadeInv'
<1>1. ViewNumbers
  BY Numbers
<1>2. CASE PrintLine("print_pcap", Enter("print_pcap"), "open")
  <2>1. Enter("print_pcap") /\ tool' = "print" /\ pc' = "open" /\ Made(0, 0) /\ view' = view
    BY <1>2 DEF PrintLine, At, Go, MadeInv, PrintMade
  <2>2. added' = added + 1 /\ Len(stack') = Len(stack) + 1 /\ added' \in Nat /\ Scopes(stack')
    BY <2>1, EnterMakes
  <2> QED
    BY <1>1, <2>1, <2>2 DEF MadeInv, PrintMade, Made, Unwound, ViewNumbers
<1>3. CASE PrintLine("print_pcap:end", Leave, "commit")
  <2>1. Leave /\ tool' = "print" /\ pc' = "commit" /\ Made(1, 1) /\ view' = view
    BY <1>3 DEF PrintLine, At, Go, MadeInv, PrintMade
  <2>2. added' = added + 1 /\ Len(stack') = Len(stack) - 1 /\ added' \in Nat /\ Scopes(stack')
    BY <2>1, LeaveMakes DEF Made
  <2> QED
    BY <1>1, <2>1, <2>2 DEF MadeInv, PrintMade, Made, Unwound, ViewNumbers
<1>4. CASE PrintLine("commit", CommitAll, "exit0")
  <2>1. CommitAll /\ tool' = "print" /\ pc' = "exit0" /\ Made(2, 0) /\ view' = view
    BY <1>4 DEF PrintLine, At, Go, MadeInv, PrintMade
  <2>2. added' = 0 /\ Len(stack') = Len(stack) /\ Scopes(stack')
    BY <2>1, CommitMakes DEF MadeInv, Scopes
  <2> QED
    BY <1>1, <2>1, <2>2 DEF MadeInv, PrintMade, Made, Unwound, ViewNumbers
<1> QED
  BY <1>2, <1>3, <1>4 DEF PrintCalls

LEMMA OpenInputMade ==
  ASSUME ReadsInv, MadeInv, OpenInput
  PROVE  MadeInv'
<1>1. ViewNumbers /\ tool = "print" /\ view' = view /\ Made(1, 1)
  BY Numbers DEF OpenInput, At, MadeInv, PrintMade
<1>2. CASE NoCall /\ Go("packet")
  <2>1. added' = added /\ Len(stack') = Len(stack) /\ Scopes(stack') /\ added \in Nat
    BY <1>2, NoCallMakes DEF MadeInv, Scopes
  <2> QED
    BY <1>1, <1>2, <2>1 DEF Go, MadeInv, PrintMade, Made, Unwound, ViewNumbers
<1> QED
  BY <1>1, <1>2, ThrowMakes DEF OpenInput

LEMMA NextHeaderMade ==
  ASSUME ReadsInv, MadeInv, NextHeader
  PROVE  MadeInv'
<1>1. ViewNumbers /\ tool = "print" /\ Made(1, 1)
  BY Numbers DEF NextHeader, At, MadeInv, PrintMade
<1>2. CASE NoCall /\ Go("print_pcap:end") /\ UNCHANGED <<view, reach>>
  <2>1. added' = added /\ Len(stack') = Len(stack) /\ Scopes(stack') /\ added \in Nat
    BY <1>2, NoCallMakes DEF MadeInv, Scopes
  <2> QED
    BY <1>1, <1>2, <2>1 DEF Go, MadeInv, PrintMade, Made, Unwound, ViewNumbers
<1>3. CASE Throw /\ UNCHANGED <<view, reach>>
  BY <1>1, <1>3, ThrowMakes
<1>4. CASE Begin("print_packet", DefaultCategory) /\ Go("headers") /\ view' = NoView
  <2>1. added' = 1 /\ Len(stack') = Len(stack) /\ Scopes(stack')
    BY <1>4, BeginMakes DEF MadeInv, Scopes
  <2>2. view'.size = 0
    BY <1>4 DEF NoView
  <2>3. Unwound' <= 5 + 3 * (view'.size \div 13)
    BY <1>1, <2>1, <2>2 DEF Unwound, Made
  <2> QED
    BY <1>1, <1>4, <2>1, <2>3 DEF Go, MadeInv, PrintMade, Made
<1> QED
  BY <1>2, <1>3, <1>4 DEF NextHeader

LEMMA ReadHeadersMade ==
  ASSUME ReadsInv, MadeInv, ReadHeaders
  PROVE  MadeInv'
<1>1. ViewNumbers /\ tool = "print" /\ Made(1, 1)
  BY Numbers DEF ReadHeaders, At, MadeInv, PrintMade
<1>2. CASE Throw /\ view' = view
  BY <1>1, <1>2, ThrowMakes
<1>3. CASE NoCall /\ Go("udp") /\ view'.size = view.size
  <2>1. added' = added /\ Len(stack') = Len(stack) /\ Scopes(stack') /\ added \in Nat
    BY <1>3, NoCallMakes DEF MadeInv, Scopes
  <2>2. Unwound' <= 5 + 3 * (view'.size \div 13)
    BY <1>1, <1>3, <2>1 DEF Unwound, Made, ViewNumbers
  <2> QED
    BY <1>1, <1>3, <2>1, <2>2 DEF Go, MadeInv, PrintMade, Made
<1>4. ASSUME NEW h \in FoundHeaders,
             view' = [view EXCEPT !.base = 14 + Ihl(h.versionIhl) + 8, !.udp = h.udp]
      PROVE  view'.size = view.size
  BY <1>4 DEF ReadsInv, View
<1> QED
  BY <1>2, <1>3, <1>4 DEF ReadHeaders

LEMMA ReadUdpMade ==
  ASSUME ReadsInv, MadeInv, ReadsInv', ReadUdp
  PROVE  MadeInv'
<1>1. ViewNumbers /\ tool = "print" /\ Made(1, 1)
  BY Numbers DEF ReadUdp, At, MadeInv, PrintMade
<1>2. view'.size \in Nat /\ view'.size \div 13 \in Nat
  <2>1. view'.size \in Nat
    BY DEF ReadsInv, View
  <2> QED
    BY <2>1
<1>3. CASE Throw /\ view' = view
  BY <1>1, <1>3, ThrowMakes
<1>4. CASE Mark("print_packet:print_payload") /\ Go("mold")
  <2>1. added' = added + 1 /\ Len(stack') = Len(stack) /\ Scopes(stack') /\ added' \in Nat
    BY <1>4, MarkMakes
  <2>2. Unwound' <= 5 + 3 * (view'.size \div 13)
    BY <1>1, <1>2, <2>1 DEF Unwound, Made, MadeInv
  <2> QED
    BY <1>1, <1>4, <2>1, <2>2 DEF Go, MadeInv, PrintMade, Made
<1> QED
  BY <1>3, <1>4 DEF ReadUdp

LEMMA ReadMoldMade ==
  ASSUME ReadsInv, MadeInv, ReadMold
  PROVE  MadeInv'
<1>1. ViewNumbers /\ tool = "print" /\ Made(2, 1)
  BY Numbers DEF ReadMold, At, MadeInv, PrintMade
<1>2. CASE Throw /\ view' = view
  BY <1>1, <1>2, ThrowMakes
<1>3. CASE NoCall /\ Go("messages") /\ view'.size = view.size /\ view'.offset = 20
  <2>1. added' = added /\ Len(stack') = Len(stack) /\ Scopes(stack') /\ added \in Nat
    BY <1>3, NoCallMakes DEF MadeInv, Scopes
  <2>2. Unwound' <= 5 + 3 * (view'.size \div 13)
    BY <1>1, <1>3, <2>1 DEF Unwound, Made, ViewNumbers
  <2> QED
    BY <1>1, <1>3, <2>1, <2>2 DEF Go, MadeInv, PrintMade, Made
<1>4. ASSUME NEW n, view' = [view EXCEPT !.offset = 20, !.left = n]
      PROVE  view'.size = view.size /\ view'.offset = 20
  BY <1>4 DEF ReadsInv, View
<1> QED
  BY <1>2, <1>3, <1>4 DEF ReadMold

LEMMA NextMessageMade ==
  ASSUME ReadsInv, MadeInv, NextMessage
  PROVE  MadeInv'
<1>1. /\ ViewNumbers /\ tool = "print"
      /\ 13 * added <= 3 * view.offset - 34 /\ Len(stack) = 1 /\ added \in Nat
  BY Numbers DEF NextMessage, At, MadeInv, PrintMade
<1>2. CASE Throw /\ view' = view
  BY <1>1, <1>2, ThrowMakes
<1>3. CASE /\ Enter("print_itch_message") /\ Go("parse")
           /\ view'.size = view.size /\ view'.offset = view.offset + 2
           /\ ~(view.size - view.offset < 2)
  <2>1. added' = added + 1 /\ Len(stack') = Len(stack) + 1 /\ Scopes(stack') /\ added' \in Nat
    BY <1>3, EnterMakes
  <2>2. 13 * added' <= 3 * view'.offset - 27
    BY <1>1, <1>3, <2>1 DEF ViewNumbers
  <2>3. 13 * added' <= 3 * view.size - 27
    BY <1>1, <1>3, <2>1, <2>2 DEF ViewNumbers
  <2>4. Unwound' <= 5 + 3 * (view'.size \div 13)
    BY <1>1, <1>3, <2>1, <2>3, Thirteens DEF Unwound, ViewNumbers
  <2> QED
    BY <1>1, <1>3, <2>1, <2>2, <2>4 DEF Go, MadeInv, PrintMade
<1>4. ASSUME NEW n, view' = [view EXCEPT !.offset = @ + 2, !.length = n]
      PROVE  view'.size = view.size /\ view'.offset = view.offset + 2
  BY <1>4 DEF ReadsInv, View
<1> QED
  BY <1>2, <1>3, <1>4 DEF NextMessage

LEMMA PrintMessageMade ==
  ASSUME ReadsInv, MadeInv, PrintMessage
  PROVE  MadeInv'
<1>1. /\ ViewNumbers /\ tool = "print" /\ view' = view
      /\ 13 * added <= 3 * view.offset - 27 /\ Len(stack) = 2 /\ added \in Nat
      /\ view.offset + view.length <= view.size
  <2>1. tool = "print" /\ pc = "parse" /\ view' = view
    BY DEF PrintMessage, At
  <2> QED
    BY <2>1, Numbers DEF MadeInv, PrintMade, ReadsInv, Reading, PacketRead
<1>2. CASE Throw
  BY <1>1, <1>2, ThrowMakes
<1>3. CASE Mark("print_itch_message:print") /\ Go("message:end") /\ view.length >= 11
  <2>1. added' = added + 1 /\ Len(stack') = Len(stack) /\ Scopes(stack') /\ added' \in Nat
    BY <1>3, MarkMakes
  <2>2. 13 * added' <= 3 * view.offset - 14
    BY <1>1, <2>1 DEF ViewNumbers
  <2>3. 13 * added' <= 3 * view.size - 47
    BY <1>1, <1>3, <2>1, <2>2 DEF ViewNumbers
  <2>4. Unwound' <= 5 + 3 * (view'.size \div 13)
    BY <1>1, <1>3, <2>1, <2>3, Thirteens DEF Unwound, ViewNumbers
  <2> QED
    BY <1>1, <1>3, <2>1, <2>2, <2>4 DEF Go, MadeInv, PrintMade
<1>4. ASSUME NEW type, ParseMessage(type, view.length) PROVE view.length >= 11
  BY <1>4 DEF ParseMessage, HeaderSize
<1> QED
  BY <1>2, <1>3, <1>4 DEF PrintMessage

LEMMA MessageEndMade ==
  ASSUME ReadsInv, MadeInv, MessageEnd
  PROVE  MadeInv'
<1>1. /\ ViewNumbers /\ tool = "print" /\ tool' = "print" /\ pc' = "messages" /\ Leave
      /\ 13 * added <= 3 * view.offset - 14 /\ Len(stack) = 2 /\ added \in Nat
      /\ view.length >= 11 /\ view.offset + view.length <= view.size
  <2>1. tool = "print" /\ pc = "message:end" /\ pc' = "messages" /\ tool' = tool /\ Leave
    BY DEF MessageEnd, At, Go
  <2> QED
    BY <2>1, Numbers DEF MadeInv, PrintMade, ReadsInv, Reading, PacketRead
<1>2. view'.size = view.size /\ view'.offset = view.offset + view.length
  BY DEF MessageEnd, SkipMessage, ReadsInv, View
<1>3. added' = added + 1 /\ Len(stack') = Len(stack) - 1 /\ Scopes(stack') /\ added' \in Nat
  BY <1>1, LeaveMakes
<1>4. 13 * added' <= 3 * view'.offset - 34
  BY <1>1, <1>2, <1>3 DEF ViewNumbers
<1>5. 13 * added' <= 3 * view.size - 34
  BY <1>1, <1>2, <1>3, <1>4 DEF ViewNumbers
<1>6. Unwound' <= 5 + 3 * (view'.size \div 13)
  BY <1>1, <1>2, <1>3, <1>5, Thirteens DEF Unwound, ViewNumbers
<1> QED
  BY <1>1, <1>3, <1>4, <1>6 DEF MadeInv, PrintMade

LEMMA PacketEndMade ==
  ASSUME ReadsInv, MadeInv, PacketEnd
  PROVE  MadeInv'
<1>1. ViewNumbers /\ tool = "print" /\ tool' = "print" /\ pc' = "packet" /\ view' = view
        /\ CommitAll /\ Len(stack) = 1
  BY Numbers DEF PacketEnd, At, Go, MadeInv, PrintMade
<1>2. added' = 0 /\ Len(stack') = Len(stack) /\ Scopes(stack')
  BY <1>1, CommitMakes DEF MadeInv, Scopes
<1> QED
  BY <1>1, <1>2 DEF MadeInv, PrintMade, Made, Unwound, ViewNumbers

\* An exception runs destructors, each of which adds a record for the scope it ends.
LEMMA UnwindMade ==
  ASSUME MadeInv, Unwind
  PROVE  MadeInv'
<1>1. Leave /\ tool' = tool /\ pc' = "unwind" /\ view' = view
  BY DEF Unwind, Go
<1>2. Len(stack) \in Nat /\ Len(stack) > 0
  BY Depth DEF Unwind
<1>3. added' = added + 1 /\ Len(stack') = Len(stack) - 1 /\ Scopes(stack') /\ added' \in Nat
  BY <1>1, <1>2, LeaveMakes
<1>4. Unwound' = Unwound
  BY <1>2, <1>3 DEF Unwound, MadeInv
<1> QED
  BY <1>1, <1>3, <1>4 DEF MadeInv, GenMade, PrintMade

LEMMA CatchMade ==
  ASSUME ReadsInv, MadeInv, Catch
  PROVE  MadeInv'
<1>1. tool' = tool /\ pc' = "exit1" /\ view' = view
  BY DEF Catch, Go
<1>2. CASE tool = "print"
  <2>1. added' = 0 /\ Len(stack') = Len(stack) /\ Scopes(stack')
    BY <1>2, CommitMakes DEF Catch, Caught, MadeInv, Scopes
  <2>2. Unwound' <= Unwound
    BY <2>1, Depth DEF Unwound, MadeInv
  <2>3. Unwound' <= 5 + 3 * (view'.size \div 13)
    BY <1>1, <1>2, <2>1, <2>2, Depth, Numbers DEF MadeInv, PrintMade, Unwound, ViewNumbers
  <2> QED
    BY <1>1, <1>2, <2>1, <2>3 DEF MadeInv, PrintMade
<1>3. CASE tool # "print"
  <2>1. added' = added /\ Len(stack') = Len(stack) /\ Scopes(stack')
    BY <1>3, NoCallMakes DEF Catch, Caught, MadeInv, Scopes
  <2> QED
    BY <1>1, <1>3, <2>1 DEF MadeInv, GenMade, Unwound
<1> QED
  BY <1>2, <1>3

-----------------------------------------------------------------------------
LEMMA LaunchMade ==
  ASSUME NEW t, NEW chosen, NEW label, Launch(t, chosen, label),
         label = (IF t = "gen" THEN "src_ip" ELSE "print_pcap")
  PROVE  MadeInv'
<1>1. /\ tool' = t /\ pc' = label /\ added' = 0 /\ Len(stack') = 0 /\ Scopes(stack')
      /\ view'.size = 0
  BY DEF Launch, NoView, Scopes
<1>2. Unwound' <= 5 + 3 * (view'.size \div 13) /\ Unwound' <= 16
  BY <1>1 DEF Unwound
<1> QED
  BY <1>1, <1>2 DEF MadeInv, GenMade, PrintMade, Made

\* Every step of the tools preserves the bounds.
LEMMA ToolsNextMade ==
  ASSUME ReadsInv, ReadsInv', MadeInv, [ToolsNext]_<<vars, toolVars>>
  PROVE  MadeInv'
<1>1. ASSUME PcapItchPrint PROVE MadeInv'
  BY <1>1, PrintCallsMade, OpenInputMade, NextHeaderMade, ReadHeadersMade, ReadUdpMade,
     ReadMoldMade, NextMessageMade, PrintMessageMade, MessageEndMade, PacketEndMade
  DEF PcapItchPrint
<1>2. ASSUME NEW size \in Nat, NEW n \in Nat \ {0}, NEW mode \in {"raw", "itch5"},
             LaunchGen(size, n, mode)
      PROVE  MadeInv'
  BY <1>2, LaunchMade DEF LaunchGen
<1>3. ASSUME NEW limit \in Nat, LaunchPrint(limit) PROVE MadeInv'
  BY <1>3, LaunchMade DEF LaunchPrint
<1>4. ASSUME UNCHANGED <<vars, toolVars>> PROVE MadeInv'
  BY <1>4 DEF vars, toolVars, MadeInv, GenMade, PrintMade, Made, Unwound, Scopes
<1> QED
  BY <1>1, <1>2, <1>3, <1>4, GenMakes, UnwindMade, CatchMade DEF ToolsNext, ToolStep

\* A recording of the printer has at most three records per 13 bytes of the packet's
\* payload, and five more, and one of the generator at most 16: for every capture
\* and any sequence of runs.
THEOREM RecordingsFit == ToolsSpec => []RecordingFits
<1>1. ToolsInit => MadeInv
  BY DEF ToolsInit, Init, MadeInv, Scopes
<1>2. ReadsInv /\ ReadsInv' /\ MadeInv /\ [ToolsNext]_<<vars, toolVars>> => MadeInv'
  BY ToolsNextMade
<1>3. ReadsInv /\ MadeInv => RecordingFits
  <2> SUFFICES ASSUME ReadsInv, MadeInv PROVE RecordingFits
    OBVIOUS
  <2>1. added \in Nat /\ Len(stack) \in Nat /\ view.size \div 13 \in Nat
    BY Depth, Numbers DEF MadeInv, ViewNumbers
  <2> QED
    BY <2>1 DEF MadeInv, GenMade, PrintMade, Unwound, RecordingFits
<1> QED
  BY <1>1, <1>2, <1>3, CursorInvariant, PTL DEF ToolsSpec

-----------------------------------------------------------------------------
(***************************************************************************)
(* What the tools record.  Whatever a step of a tool does besides, it      *)
(* makes one call of the recorder, or none.                                *)
(***************************************************************************)
Call ==
  \/ \E where : Enter(where)
  \/ Leave /\ Len(stack) > 0
  \/ \E where : Mark(where)
  \/ \E where : \E category \in Categories : Begin(where, category)
  \/ CommitAll
  \/ NoCall

LEMMA CallKinds ==
  /\ \A where : Enter(where) => Call
  /\ \A where : Mark(where) => Call
  /\ \A where : \A category \in Categories : Begin(where, category) => Call
  /\ Leave /\ Len(stack) > 0 => Call
  /\ CommitAll \/ NoCall => Call
<1>1. ASSUME NEW where, Enter(where) PROVE Call
  BY <1>1 DEF Call
<1>2. ASSUME NEW where, Mark(where) PROVE Call
  BY <1>2 DEF Call
<1>3. ASSUME NEW where, NEW category \in Categories, Begin(where, category) PROVE Call
  BY <1>3 DEF Call
<1>4. ASSUME Leave, Len(stack) > 0 PROVE Call
  BY <1>4 DEF Call
<1>5. ASSUME CommitAll \/ NoCall PROVE Call
  BY <1>5 DEF Call
<1> QED
  BY <1>1, <1>2, <1>3, <1>4, <1>5

\* A scope is alive where gen leaves one.
LEMMA GenLeaves ==
  ASSUME MadeInv, tool = "gen",
         pc \in {"src_ip:end", "dst_ip:end", "global_header:end", "message:end", "payload:end",
                "internet_checksum:end", "make_packet:end", "write:end", "packet_loop:end"}
  PROVE  Len(stack) > 0
  BY DEF MadeInv, GenMade, Made

LEMMA GenCallsCall ==
  ASSUME MadeInv, GenCalls
  PROVE  Call
<1>1. ASSUME NEW label, NEW next, NEW where, GenLine(label, Enter(where), next) PROVE Call
  BY <1>1, CallKinds DEF GenLine
<1>2. ASSUME NEW label, NEW next, NEW where, GenLine(label, Mark(where), next) PROVE Call
  BY <1>2, CallKinds DEF GenLine
<1>3. ASSUME NEW label, NEW next, GenLine(label, Leave, next),
             label \in {"src_ip:end", "dst_ip:end", "message:end", "internet_checksum:end", "make_packet:end"}
      PROVE  Call
  BY <1>3, CallKinds, GenLeaves DEF GenLine, At
<1> QED
  BY <1>1, <1>2, <1>3 DEF GenCalls

LEMMA GenCall ==
  ASSUME MadeInv, PcapItchGen
  PROVE  Call
<1> USE CallKinds
<1>1. CASE ParseIpv4Fails \/ OpenOutputFails \/ OpenOutput
  BY <1>1 DEF ParseIpv4Fails, OpenOutputFails, OpenOutput, GenLine
<1>2. CASE WriteGlobalHeader
  BY <1>2, GenLeaves DEF WriteGlobalHeader, At
<1>3. CASE GenLoop
  BY <1>3, ToolCategories DEF GenLoop
<1>4. CASE ChooseMessage
  BY <1>4 DEF ChooseMessage
<1>5. CASE PayloadEnd
  BY <1>5, GenLeaves DEF PayloadEnd, Throw, At
<1>6. CASE WritePacket
  BY <1>6, GenLeaves DEF WritePacket, At
<1>7. CASE NextPacket
  BY <1>7, GenLeaves DEF NextPacket, At
<1> QED
  BY <1>1, <1>2, <1>3, <1>4, <1>5, <1>6, <1>7, GenCallsCall DEF PcapItchGen

LEMMA PrintCall ==
  ASSUME MadeInv, PcapItchPrint
  PROVE  Call
<1> USE CallKinds
<1>1. ASSUME tool = "print", pc \in {"print_pcap:end", "message:end"} PROVE Len(stack) > 0
  <2>1. PrintMade
    BY <1>1 DEF MadeInv
  <2>2. Len(stack) \in {1, 2}
    BY <1>1, <2>1 DEF PrintMade, Made
  <2> QED
    BY <2>2
<1>2. CASE PrintCalls
  BY <1>1, <1>2 DEF PrintCalls, PrintLine, At
<1>3. CASE OpenInput \/ ReadHeaders \/ ReadMold \/ PacketEnd
  BY <1>3 DEF OpenInput, ReadHeaders, ReadMold, PacketEnd, Throw
<1>4. CASE NextHeader
  BY <1>4, CategoryAssumption DEF NextHeader, Throw
<1>5. CASE ReadUdp \/ NextMessage \/ PrintMessage
  BY <1>5 DEF ReadUdp, NextMessage, PrintMessage, Throw
<1>6. CASE MessageEnd
  BY <1>1, <1>6 DEF MessageEnd, At
<1> QED
  BY <1>2, <1>3, <1>4, <1>5, <1>6 DEF PcapItchPrint

LEMMA StepCalls ==
  ASSUME MadeInv, ToolStep
  PROVE  Call
<1>1. CASE Unwind
  BY <1>1, Depth, CallKinds DEF Unwind
<1>2. CASE Catch
  BY <1>2, CallKinds DEF Catch, Caught
<1> QED
  BY <1>1, <1>2, GenCall, PrintCall DEF ToolStep

-----------------------------------------------------------------------------
\* The recorder of a tool is a recorder: its invariant is the one of Recorder.
LEMMA CallKeepsRecorder ==
  ASSUME BoundedTransactions, RecorderInv, Call
  PROVE  RecorderInv'
<1>1. clock + 1 \in Nat /\ MdCategory \in Categories /\ DefaultCategory \in Categories
  BY ToolCategories, CategoryAssumption DEF RecorderInv, TypeOK
<1>2. ASSUME NEW c \in Categories, Add(clock + 1, c) PROVE RecorderInv'
  BY <1>1, <1>2, AddInv
<1>3. ASSUME NEW c \in Categories, Start(clock + 1, c) PROVE RecorderInv'
  BY <1>1, <1>3, StartInv
<1>4. ASSUME UNCHANGED vars PROVE RecorderInv'
  BY <1>4, NextInv
<1> QED
  BY <1>1, <1>2, <1>3, <1>4, CommitInv DEF Call, Enter, Leave, Mark, Begin, CommitAll, NoCall

LEMMA LaunchMakesRecorder ==
  ASSUME BoundedTransactions, NEW t, NEW chosen, NEW label, Launch(t, chosen, label)
  PROVE  RecorderInv'
<1>1. /\ mem' \in [Addresses -> Slot] /\ start' = 0 /\ count' = 0 /\ categories' = {}
      /\ clock' = 0 /\ added' = 0 /\ kept' = 0
      /\ mirrored' = TRUE /\ phase' = "recording" /\ event' = NoEvent
  BY CategoryAssumption DEF Launch, Empty, Slot
<1>2. 0 \in Addresses /\ Capacity \in Nat /\ MaxPending \in Nat /\ categories' \in SUBSET Categories
  BY <1>1, CapacityAssumption, CountAssumption DEF Addresses
<1> QED
  BY <1>1, <1>2 DEF RecorderInv, TypeOK, Reserved

-----------------------------------------------------------------------------
\* There is a mark for each record since the launch.
MarksInv ==
  /\ Scopes(marks) /\ Len(marks) = clock /\ clock \in Nat
  /\ \A i \in 1..Len(marks) : marks[i].type \in {"start", "normal", "scope_start", "scope_end"}

\* The effect of a call on marks.
CallMarks ==
  \/ UNCHANGED <<marks, clock>>
  \/ \E type \in {"start", "normal", "scope_start", "scope_end"} : \E where :
       marks' = Append(marks, [type |-> type, where |-> where]) /\ clock' = clock + 1

LEMMA CallMarksOne ==
  ASSUME Call
  PROVE  CallMarks
<1>1. ASSUME NEW where, Enter(where) PROVE CallMarks
  BY <1>1 DEF Enter, Add, Marked, CallMarks
<1>2. ASSUME Leave PROVE CallMarks
  BY <1>2 DEF Leave, Add, Marked, CallMarks
<1>3. ASSUME NEW where, Mark(where) PROVE CallMarks
  BY <1>3 DEF Mark, Add, Marked, CallMarks
<1>4. ASSUME NEW where, NEW category, Begin(where, category) PROVE CallMarks
  BY <1>4 DEF Begin, Start, Marked, CallMarks
<1>5. ASSUME CommitAll \/ NoCall PROVE CallMarks
  BY <1>5 DEF CommitAll, Commit, NoCall, vars, CallMarks
<1> QED
  BY <1>1, <1>2, <1>3, <1>4, <1>5 DEF Call

LEMMA CallKeepsMarks ==
  ASSUME MarksInv, Call
  PROVE  MarksInv'
<1>1. CASE UNCHANGED <<marks, clock>>
  BY <1>1 DEF MarksInv, Scopes
<1>2. ASSUME NEW type \in {"start", "normal", "scope_start", "scope_end"}, NEW where,
             marks' = Append(marks, [type |-> type, where |-> where]), clock' = clock + 1
      PROVE  MarksInv'
  <2> DEFINE r == [type |-> type, where |-> where]
  <2>1. PICK S : marks \in Seq(S)
    BY DEF MarksInv, Scopes
  <2>2. marks \in Seq(S \cup {r}) /\ r \in S \cup {r} /\ r.type = type
    BY <2>1
  <2> HIDE DEF r
  <2>3. /\ marks' \in Seq(S \cup {r}) /\ Len(marks') = Len(marks) + 1 /\ Len(marks) \in Nat
        /\ \A i \in 1..Len(marks) : marks'[i] = marks[i]
        /\ marks'[Len(marks) + 1] = r
    BY <1>2, <2>2 DEF r
  <2>4. \A i \in 1..Len(marks') : marks'[i].type \in {"start", "normal", "scope_start", "scope_end"}
    <3> TAKE i \in 1..Len(marks')
    <3>1. i \in 1..Len(marks) \/ i = Len(marks) + 1
      BY <2>3
    <3> QED
      BY <2>2, <2>3, <3>1 DEF MarksInv
  <2> QED
    BY <1>2, <2>3, <2>4 DEF MarksInv, Scopes
<1> QED
  BY <1>1, <1>2, CallMarksOne DEF CallMarks

-----------------------------------------------------------------------------
\* A line is printed for a packet once its MoldUDP64 header has been read, and the
\* cursor is always inside the UDP payload.
PlacesInv ==
  /\ tool \in {"none", "gen", "print"}
  /\ Scopes(printed) /\ Len(printed) <= index + 1
  /\ view.offset <= view.size /\ view.left \in Words16
  /\ tool = "print" =>
       /\ pc \in {"print_pcap", "open", "packet", "headers", "udp", "mold"} => Len(printed) <= index
       /\ pc \in {"headers", "udp"} => view.offset = 0

LEMMA CountsFound ==
  ASSUME NEW n \in Found(18, 2, Words16, Counts)
  PROVE  n \in Words16
  BY ReadsAssumption DEF Found

\* Nothing is printed and the cursor stays.
LEMMA SamePlaces ==
  ASSUME ReadsInv, PlacesInv, tool' = tool, printed' = printed, view' = view,
         index' \in {index, index + 1},
         tool = "print" =>
           /\ pc' \in {"print_pcap", "open", "packet", "headers", "udp", "mold"} =>
                \/ index' = index + 1
                \/ pc \in {"print_pcap", "open", "packet", "headers", "udp", "mold"}
           /\ pc' \in {"headers", "udp"} => view.offset = 0
  PROVE  PlacesInv'
<1>1. Len(printed) \in Nat /\ index \in Nat
  <2>1. PICK S : printed \in Seq(S)
    BY DEF PlacesInv, Scopes
  <2> QED
    BY <2>1 DEF ReadsInv
<1> QED
  BY <1>1 DEF PlacesInv, Scopes

LEMMA GenPlaces ==
  ASSUME ReadsInv, PlacesInv, PcapItchGen
  PROVE  PlacesInv'
<1>1. /\ tool = "gen" /\ tool' = tool /\ printed' = printed /\ view' = view
      /\ index' \in {index, index + 1}
  <2>1. CASE GenCalls
    BY <2>1 DEF GenCalls, GenLine, GenKeeps, At, Go
  <2>2. CASE ParseIpv4Fails \/ OpenOutputFails \/ OpenOutput \/ WriteGlobalHeader
    BY <2>2 DEF ParseIpv4Fails, OpenOutputFails, OpenOutput, WriteGlobalHeader, GenLine, GenKeeps, At, Go
  <2>3. CASE GenLoop \/ ChooseMessage \/ PayloadEnd
    BY <2>3 DEF GenLoop, ChooseMessage, PayloadEnd, Throw, GenKeeps, At, Go
  <2>4. CASE WritePacket \/ NextPacket
    BY <2>4 DEF WritePacket, NextPacket, GenKeeps, At, Go
  <2> QED
    BY <2>1, <2>2, <2>3, <2>4 DEF PcapItchGen
<1> QED
  BY <1>1, SamePlaces

LEMMA PrintPlaces ==
  ASSUME ReadsInv, PlacesInv, PcapItchPrint
  PROVE  PlacesInv'
<1>1. /\ Len(printed) \in Nat /\ index \in Nat /\ index + 1 \in Nat /\ tool = "print" /\ view \in View
  <2>1. PICK S : printed \in Seq(S)
    BY DEF PlacesInv, Scopes
  <2>2. tool = "print"
    BY DEF PcapItchPrint, PrintCalls, PrintLine, OpenInput, NextHeader, ReadHeaders, ReadUdp,
           ReadMold, NextMessage, PrintMessage, MessageEnd, PacketEnd, At
  <2> QED
    BY <2>1, <2>2 DEF ReadsInv
<1>2. CASE Throw /\ UNCHANGED <<index, view, printed>>
  BY <1>1, <1>2, SamePlaces DEF Throw, Go
<1>3. CASE PrintCalls
  BY <1>1, <1>3, SamePlaces DEF PrintCalls, PrintLine, At, Go
<1>4. CASE OpenInput
  BY <1>1, <1>2, <1>4, SamePlaces DEF OpenInput, At, Go
<1>5. CASE NextHeader
  <2>1. CASE Go("print_pcap:end") /\ UNCHANGED <<view, index, printed>>
    BY <1>1, <2>1, SamePlaces DEF Go
  <2>2. CASE Go("headers") /\ view' = NoView /\ UNCHANGED <<index, printed>>
    <3>1. pc = "packet" /\ view'.offset = 0 /\ view'.size = 0 /\ view'.left = 0 /\ 0 \in Words16
      BY <1>5, <2>2 DEF NextHeader, At, NoView, Words16
    <3> QED
      BY <1>1, <2>2, <3>1 DEF PlacesInv, Go, Scopes
  <2> QED
    BY <1>2, <1>5, <2>1, <2>2 DEF NextHeader
<1>6. CASE ReadHeaders
  <2>1. ASSUME NEW h, view' = [view EXCEPT !.base = 14 + Ihl(h.versionIhl) + 8, !.udp = h.udp],
               Go("udp"), UNCHANGED <<index, printed>>
        PROVE  PlacesInv'
    <3>1. view'.offset = view.offset /\ view'.size = view.size /\ view'.left = view.left
      BY <1>1, <2>1 DEF View
    <3>2. pc = "headers" /\ tool' = tool /\ pc' = "udp"
      BY <1>6, <2>1 DEF ReadHeaders, At, Go
    <3> QED
      BY <1>1, <2>1, <3>1, <3>2 DEF PlacesInv, Scopes
  <2> QED
    BY <1>2, <1>6, <2>1 DEF ReadHeaders
<1>7. CASE ReadUdp
  <2>1. ASSUME view' = [view EXCEPT !.size = view.udp - 8], UdpFits(view.udp, This.size - view.base),
               Go("mold"), UNCHANGED <<index, printed>>
        PROVE  PlacesInv'
    <3>1. view'.offset = view.offset /\ view'.size = view.udp - 8 /\ view'.left = view.left
      BY <1>1, <2>1 DEF View
    <3>2. pc = "udp" /\ tool' = tool /\ pc' = "mold" /\ view.udp >= 8 /\ view.udp \in Nat
      BY <1>1, <1>7, <2>1 DEF ReadUdp, At, Go, UdpFits, View
    <3> QED
      BY <1>1, <2>1, <3>1, <3>2 DEF PlacesInv, Scopes
  <2> QED
    BY <1>2, <1>7, <2>1 DEF ReadUdp
<1>8. CASE ReadMold
  <2>1. ASSUME NEW n \in Found(18, 2, Words16, Counts), NEW line,
               view' = [view EXCEPT !.offset = 20, !.left = n], ~(view.size < 20),
               printed' = Append(printed, line), Go("messages"), index' = index
        PROVE  PlacesInv'
    <3>1. view'.offset = 20 /\ view'.size = view.size /\ view'.left = n /\ n \in Words16
          /\ view.size \in Nat
      BY <1>1, <2>1, CountsFound DEF View
    <3>2. pc = "mold" /\ tool' = tool /\ pc' = "messages" /\ Len(printed) <= index
      BY <1>1, <1>8, <2>1 DEF ReadMold, At, Go, PlacesInv
    <3>3. Len(printed') = Len(printed) + 1 /\ Scopes(printed')
      <4>1. PICK S : printed \in Seq(S)
        BY DEF PlacesInv, Scopes
      <4>2. printed \in Seq(S \cup {line}) /\ line \in S \cup {line}
        BY <4>1
      <4>3. printed' \in Seq(S \cup {line}) /\ Len(printed') = Len(printed) + 1
        BY <2>1, <4>2
      <4> QED
        BY <4>3 DEF Scopes
    <3> QED
      BY <1>1, <2>1, <3>1, <3>2, <3>3 DEF PlacesInv
  <2> QED
    BY <1>2, <1>8, <2>1 DEF ReadMold
<1>9. CASE NextMessage
  <2>1. ASSUME NEW n, view' = [view EXCEPT !.offset = @ + 2, !.length = n], ~(view.size - view.offset < 2),
               Go("parse"), UNCHANGED <<index, printed>>
        PROVE  PlacesInv'
    <3>1. view'.offset = view.offset + 2 /\ view'.size = view.size /\ view'.left = view.left
          /\ view.size \in Nat /\ view.offset \in Nat
      BY <1>1, <2>1 DEF View
    <3> QED
      BY <1>1, <2>1, <3>1 DEF PlacesInv, Go, Scopes
  <2> QED
    BY <1>2, <1>9, <2>1 DEF NextMessage
<1>10. CASE PrintMessage
  <2>1. ASSUME NEW line, printed' = [printed EXCEPT ![Len(printed)] = line],
               Go("message:end"), UNCHANGED <<index, view>>
        PROVE  PlacesInv'
    <3>1. Len(printed') = Len(printed) /\ Scopes(printed')
      <4>1. PICK S : printed \in Seq(S)
        BY DEF PlacesInv, Scopes
      <4>2. printed \in Seq(S \cup {line}) /\ line \in S \cup {line}
        BY <4>1
      <4>3. CASE Len(printed) = 0
        <5>1. printed' = printed
          BY <2>1, <4>2, <4>3
        <5> QED
          BY <4>1, <5>1 DEF Scopes
      <4>4. CASE Len(printed) # 0
        <5>1. Len(printed) \in 1..Len(printed)
          BY <1>1, <4>4
        <5>2. printed' \in Seq(S \cup {line}) /\ Len(printed') = Len(printed)
          BY <2>1, <4>2, <5>1, ExceptSeq
        <5> QED
          BY <5>2 DEF Scopes
      <4> QED
        BY <4>3, <4>4
    <3> QED
      BY <1>1, <2>1, <3>1 DEF PlacesInv, Go
  <2> DEFINE line(type) == [printed[Len(printed)] EXCEPT !.messages =
                              Append(@, Decode(type, This.bytes, view.offset))]
  <2>2. ASSUME NEW type,
               printed' = [printed EXCEPT ![Len(printed)].messages =
                             Append(@, Decode(type, This.bytes, view.offset))]
        PROVE  printed' = [printed EXCEPT ![Len(printed)] = line(type)]
    BY <2>2
  <2> HIDE DEF line
  <2> QED
    BY <1>2, <1>10, <2>1, <2>2 DEF PrintMessage
<1>11. CASE MessageEnd
  <2>1. view'.offset = view.offset + view.length /\ view'.size = view.size /\ view'.left = view.left - 1
    BY <1>1, <1>11 DEF MessageEnd, SkipMessage, View
  <2>2. view.offset + view.length <= view.size /\ view.left > 0
    BY <1>1, <1>11 DEF MessageEnd, At, ReadsInv, Reading, PacketRead
  <2>3. view.left - 1 \in Words16
    BY <2>2 DEF PlacesInv, Words16
  <2> QED
    BY <1>1, <1>11, <2>1, <2>2, <2>3 DEF PlacesInv, MessageEnd, Go, Scopes
<1>12. CASE PacketEnd
  BY <1>1, <1>12, SamePlaces DEF PacketEnd, Go
<1> QED
  BY <1>3, <1>4, <1>5, <1>6, <1>7, <1>8, <1>9, <1>10, <1>11, <1>12 DEF PcapItchPrint

LEMMA StepPlaces ==
  ASSUME ReadsInv, PlacesInv, ToolStep
  PROVE  PlacesInv'
<1>1. CASE Unwind \/ Catch
  BY <1>1, SamePlaces DEF Unwind, Catch, Go
<1> QED
  BY <1>1, GenPlaces, PrintPlaces DEF ToolStep

LEMMA LaunchPlaces ==
  ASSUME NEW t \in {"gen", "print"}, NEW chosen, NEW label, Launch(t, chosen, label),
         label \in {"src_ip", "print_pcap"}
  PROVE  PlacesInv' /\ MarksInv'
<1>1. 0 \in Words16 /\ <<>> \in Seq({}) /\ Len(<<>>) = 0
  BY DEF Words16
<1> QED
  BY <1>1 DEF Launch, NoView, PlacesInv, MarksInv, Scopes

\* What holds at every step of every run of the tools.
RunInv == ReadsInv /\ MadeInv /\ RecorderInv /\ MarksInv /\ PlacesInv

LEMMA ToolsInitRun ==
  ASSUME BoundedTransactions, ToolsInit
  PROVE  RecorderInv /\ MarksInv /\ PlacesInv
<1>1. RecorderInv
  BY InitInv DEF ToolsInit
<1>2. index = 0 /\ printed = <<>> /\ marks = <<>> /\ view = NoView /\ clock = 0 /\ tool = "none"
  BY DEF ToolsInit, Init
<1>3. 0 \in Words16 /\ <<>> \in Seq({}) /\ Len(<<>>) = 0
  BY DEF Words16
<1> QED
  BY <1>1, <1>2, <1>3 DEF NoView, PlacesInv, MarksInv, Scopes

LEMMA ToolsNextRun ==
  ASSUME BoundedTransactions, ReadsInv, MadeInv, RecorderInv, MarksInv, PlacesInv,
         [ToolsNext]_<<vars, toolVars>>
  PROVE  RecorderInv' /\ MarksInv' /\ PlacesInv'
<1>1. CASE ToolStep
  BY <1>1, StepCalls, StepPlaces, CallKeepsRecorder, CallKeepsMarks
<1>2. ASSUME NEW size \in Nat, NEW n \in Nat \ {0}, NEW mode \in {"raw", "itch5"},
             LaunchGen(size, n, mode)
      PROVE  RecorderInv' /\ MarksInv' /\ PlacesInv'
  BY <1>2, LaunchMakesRecorder, LaunchPlaces DEF LaunchGen
<1>3. ASSUME NEW limit \in Nat, LaunchPrint(limit)
      PROVE  RecorderInv' /\ MarksInv' /\ PlacesInv'
  BY <1>3, LaunchMakesRecorder, LaunchPlaces DEF LaunchPrint
<1>4. CASE UNCHANGED <<vars, toolVars>>
  <2>1. UNCHANGED vars /\ UNCHANGED toolVars
    BY <1>4
  <2>2. RecorderInv'
    BY <2>1, NextInv
  <2>3. MarksInv' /\ PlacesInv'
    BY <2>1 DEF vars, toolVars, MarksInv, PlacesInv, Scopes
  <2> QED
    BY <2>2, <2>3
<1> QED
  BY <1>1, <1>2, <1>3, <1>4 DEF ToolsNext

\* The inductive invariant of the two tools: the recorder of the running tool is a Recorder,
\* with a mark for each record, and every place keeps to its part of the state.
THEOREM ToolsRun ==
  ASSUME BoundedTransactions
  PROVE  ToolsSpec => []RunInv
<1>1. ToolsInit => MadeInv /\ RecorderInv /\ MarksInv /\ PlacesInv
  BY ToolsInitRun DEF ToolsInit, Init, MadeInv, Scopes
<1>2. ReadsInv /\ ReadsInv' /\ MadeInv /\ RecorderInv /\ MarksInv /\ PlacesInv
        /\ [ToolsNext]_<<vars, toolVars>>
      => MadeInv' /\ RecorderInv' /\ MarksInv' /\ PlacesInv'
  BY ToolsNextMade, ToolsNextRun
<1>3. ReadsInv /\ MadeInv /\ RecorderInv /\ MarksInv /\ PlacesInv => RunInv
  BY DEF RunInv
<1> QED
  BY <1>1, <1>2, <1>3, CursorInvariant, PTL DEF ToolsSpec

\* Every variable of the two tools has its type: in particular there is a mark for
\* each record, the cursor is inside the payload, whatever has been read of the packet,
\* and at most one line is printed for a packet.
THEOREM ToolsTypes ==
  ASSUME BoundedTransactions
  PROVE  ToolsSpec => []ToolsTypeOK
<1>1. RunInv => ToolsTypeOK
  BY DEF RunInv, ReadsInv, RecorderInv, MarksInv, PlacesInv, ToolsTypeOK
<1> QED
  BY <1>1, ToolsRun, PTL

-----------------------------------------------------------------------------
(***************************************************************************)
(* Scopes end whole: the scopes that are alive are the beginnings in the   *)
(* record that have no end yet.                                            *)
(***************************************************************************)
\* Where x is in a sequence.
Places(s, x) == {i \in 1..Len(s) : s[i] = x}

Times(s, x) == Cardinality(Places(s, x))

LEMMA TimesAppended ==
  ASSUME NEW S, NEW s \in Seq(S), NEW e, NEW x
  PROVE  /\ Times(s, x) \in Nat
         /\ Times(Append(s, e), x) = Times(s, x) + (IF e = x THEN 1 ELSE 0)
<1>1. Len(s) \in Nat /\ IsFiniteSet(1..Len(s))
  BY FS_Interval
<1>2. IsFiniteSet(Places(s, x)) /\ Times(s, x) \in Nat
  BY <1>1, FS_Subset, FS_CardinalityType DEF Places, Times
<1> DEFINE t == Append(s, e)
<1>3. /\ Len(t) = Len(s) + 1 /\ t[Len(s) + 1] = e
      /\ \A i \in 1..Len(s) : t[i] = s[i]
  <2>1. s \in Seq(S \cup {e}) /\ e \in S \cup {e}
    OBVIOUS
  <2> QED
    BY <2>1
<1> HIDE DEF t
<1>4. CASE e = x
  <2>1. Places(t, x) = Places(s, x) \cup {Len(s) + 1} /\ Len(s) + 1 \notin Places(s, x)
    BY <1>1, <1>3, <1>4 DEF Places
  <2> QED
    BY <1>2, <1>4, <2>1, FS_AddElement DEF Times, t
<1>5. CASE e # x
  <2>1. Places(t, x) = Places(s, x)
    BY <1>1, <1>3, <1>5 DEF Places
  <2> QED
    BY <1>2, <1>5, <2>1 DEF Times, t
<1> QED
  BY <1>4, <1>5

LEMMA TimesInFront ==
  ASSUME NEW S, NEW s \in Seq(S), Len(s) > 0, NEW x
  PROVE  Times(s, x) = Times(SubSeq(s, 1, Len(s) - 1), x) + (IF s[Len(s)] = x THEN 1 ELSE 0)
<1> DEFINE n == Len(s) - 1
           f == SubSeq(s, 1, n)
<1>1. n \in Nat /\ n + 1 = Len(s) /\ \A i \in 1..n : s[i] \in S
  OBVIOUS
<1>2. f \in Seq(S) /\ Len(f) = n /\ \A i \in 1..n : f[i] = s[i]
  <2>1. n \in Int /\ 1 \in Int
    BY <1>1
  <2>2. f \in Seq(S) /\ Len(f) = (IF 1 <= n THEN n - 1 + 1 ELSE 0)
        /\ \A i \in 1..(n - 1 + 1) : f[i] = s[1 + i - 1]
    BY <1>1, <2>1, SubSeqProperties
  <2> HIDE DEF f, n
  <2> QED
    BY <1>1, <2>2
<1> DEFINE last == s[Len(s)]
           t == Append(f, last)
<1>3. last \in S
  BY <1>1
<1> HIDE DEF f, n, last, t
<1>4. n + 1 \in 1..Len(s) /\ Len(s) = n + 1 /\ \A i \in 1..Len(s) : i \in 1..n \/ i = n + 1
  BY <1>1
<1>5. last = s[n + 1]
  BY <1>4 DEF last
<1>6. t \in Seq(S) /\ Len(t) = n + 1 /\ t[n + 1] = last /\ \A i \in 1..n : t[i] = f[i]
  BY <1>1, <1>2, <1>3 DEF t
<1>7. \A i \in 1..Len(s) : s[i] = t[i]
  BY <1>2, <1>4, <1>5, <1>6
<1>8. s = t
  BY <1>4, <1>6, <1>7, SeqEqual
<1>9. Times(t, x) = Times(f, x) + (IF last = x THEN 1 ELSE 0)
  BY <1>2, TimesAppended DEF t
<1> QED
  BY <1>8, <1>9 DEF f, n, last

\* A scope is alive as often as it has begun and not ended.
ScopeMark(type, where) == [type |-> type, where |-> where]

Balanced(m, s, where) ==
  Times(m, ScopeMark("scope_start", where)) = Times(m, ScopeMark("scope_end", where)) + Times(s, where)

ScopesInv == \A where : Balanced(marks, stack, where)

LEMMA EnterBalanced ==
  ASSUME NEW S, NEW m \in Seq(S), NEW T, NEW s \in Seq(T), NEW e, NEW where, Balanced(m, s, where)
  PROVE  Balanced(Append(m, ScopeMark("scope_start", e)), Append(s, e), where)
<1> DEFINE r == ScopeMark("scope_start", e)
           begin == ScopeMark("scope_start", where)
           end == ScopeMark("scope_end", where)
<1>1. (r = begin <=> e = where) /\ r # end
  BY DEF ScopeMark
<1> HIDE DEF r, begin, end
<1>2. /\ Times(Append(m, r), begin) = Times(m, begin) + (IF r = begin THEN 1 ELSE 0)
      /\ Times(Append(m, r), end) = Times(m, end) + (IF r = end THEN 1 ELSE 0)
      /\ Times(Append(s, e), where) = Times(s, where) + (IF e = where THEN 1 ELSE 0)
      /\ Times(m, begin) \in Nat /\ Times(m, end) \in Nat /\ Times(s, where) \in Nat
  BY TimesAppended
<1>3. Times(m, begin) = Times(m, end) + Times(s, where)
  BY DEF Balanced, begin, end
<1>4. Times(Append(m, r), begin) = Times(Append(m, r), end) + Times(Append(s, e), where)
  BY <1>1, <1>2, <1>3
<1> QED
  BY <1>4 DEF Balanced, r, begin, end

LEMMA LeaveBalanced ==
  ASSUME NEW S, NEW m \in Seq(S), NEW T, NEW s \in Seq(T), Len(s) > 0, NEW where, Balanced(m, s, where)
  PROVE  Balanced(Append(m, ScopeMark("scope_end", s[Len(s)])), SubSeq(s, 1, Len(s) - 1), where)
<1> DEFINE e == s[Len(s)]
           r == ScopeMark("scope_end", e)
           f == SubSeq(s, 1, Len(s) - 1)
           begin == ScopeMark("scope_start", where)
           end == ScopeMark("scope_end", where)
<1>1. (r = end <=> e = where) /\ r # begin
  BY DEF ScopeMark
<1>2. f \in Seq(T)
  BY Len(s) - 1 \in Int, 1 \in Int, SubSeqProperties
<1>3. Times(s, where) = Times(f, where) + (IF e = where THEN 1 ELSE 0)
  BY TimesInFront
<1> HIDE DEF e, r, f, begin, end
<1>4. /\ Times(Append(m, r), begin) = Times(m, begin) + (IF r = begin THEN 1 ELSE 0)
      /\ Times(Append(m, r), end) = Times(m, end) + (IF r = end THEN 1 ELSE 0)
      /\ Times(m, begin) \in Nat /\ Times(m, end) \in Nat /\ Times(f, where) \in Nat
  <2>1. Times(f, where) \in Nat
    BY <1>2, TimesAppended
  <2> QED
    BY <2>1, TimesAppended
<1>5. Times(m, begin) = Times(m, end) + Times(s, where)
  BY DEF Balanced, begin, end
<1>6. Times(Append(m, r), begin) = Times(Append(m, r), end) + Times(f, where)
  BY <1>1, <1>3, <1>4, <1>5
<1> QED
  BY <1>6 DEF Balanced, r, e, f, begin, end

LEMMA OtherBalanced ==
  ASSUME NEW S, NEW m \in Seq(S), NEW s, NEW r, NEW where, Balanced(m, s, where),
         r.type \notin {"scope_start", "scope_end"}
  PROVE  Balanced(Append(m, r), s, where)
<1> DEFINE begin == ScopeMark("scope_start", where)
           end == ScopeMark("scope_end", where)
<1>1. r # begin /\ r # end
  BY DEF ScopeMark
<1> HIDE DEF begin, end
<1>2. /\ Times(Append(m, r), begin) = Times(m, begin) + (IF r = begin THEN 1 ELSE 0)
      /\ Times(Append(m, r), end) = Times(m, end) + (IF r = end THEN 1 ELSE 0)
      /\ Times(m, begin) \in Nat /\ Times(m, end) \in Nat
  BY TimesAppended
<1>3. Times(Append(m, r), begin) = Times(m, begin) /\ Times(Append(m, r), end) = Times(m, end)
  BY <1>1, <1>2
<1> QED
  BY <1>3 DEF Balanced, begin, end

LEMMA CallKeepsScopes ==
  ASSUME MadeInv, MarksInv, ScopesInv, Call
  PROVE  ScopesInv'
<1>1. PICK S : marks \in Seq(S)
  BY DEF MarksInv, Scopes
<1>2. PICK T : stack \in Seq(T)
  BY DEF MadeInv, Scopes
<1>3. SUFFICES ASSUME NEW where PROVE Balanced(marks', stack', where)
  BY DEF ScopesInv
<1>4. Balanced(marks, stack, where)
  BY DEF ScopesInv
<1>5. ASSUME NEW e, Enter(e) PROVE Balanced(marks', stack', where)
  <2>1. marks' = Append(marks, ScopeMark("scope_start", e)) /\ stack' = Append(stack, e)
    BY <1>5 DEF Enter, Marked, ScopeMark
  <2> QED
    BY <1>1, <1>2, <1>4, <2>1, EnterBalanced
<1>6. ASSUME Leave, Len(stack) > 0 PROVE Balanced(marks', stack', where)
  <2>1. /\ marks' = Append(marks, ScopeMark("scope_end", stack[Len(stack)]))
        /\ stack' = SubSeq(stack, 1, Len(stack) - 1)
    BY <1>6 DEF Leave, Marked, ScopeMark
  <2> QED
    BY <1>1, <1>2, <1>4, <1>6, <2>1, LeaveBalanced
<1>7. ASSUME NEW r, r.type \notin {"scope_start", "scope_end"}, marks' = Append(marks, r), stack' = stack
      PROVE  Balanced(marks', stack', where)
  BY <1>1, <1>4, <1>7, OtherBalanced
<1>8. ASSUME NEW w, Mark(w) PROVE Balanced(marks', stack', where)
  BY <1>7, <1>8 DEF Mark, Marked
<1>9. ASSUME NEW w, NEW c, Begin(w, c) PROVE Balanced(marks', stack', where)
  BY <1>7, <1>9 DEF Begin, Marked
<1>10. ASSUME CommitAll \/ NoCall PROVE Balanced(marks', stack', where)
  BY <1>4, <1>10 DEF CommitAll, NoCall
<1> QED
  BY <1>5, <1>6, <1>8, <1>9, <1>10 DEF Call

-----------------------------------------------------------------------------
\* A tool commits everything (minCount_ is 1), so that the ring is as full as the
\* records since the launch can make it.
Filled == kept + added = Newest

LEMMA CallFills ==
  ASSUME BoundedTransactions, MinCount <= 1, RecorderInv, Filled, Call
  PROVE  Filled'
<1>1. /\ Capacity \in Nat /\ Capacity > 1 /\ MaxPending \in Nat /\ MinCount \in Nat
      /\ MaxPending <= Capacity
      /\ kept \in Nat /\ added \in Nat /\ clock \in Nat /\ kept + added <= Capacity
  <2>1. /\ Capacity \in Nat /\ Capacity > 1 /\ MaxPending \in Nat /\ MinCount \in Nat
        /\ MaxPending <= Capacity
        /\ kept \in 0..Capacity /\ added \in 0..MaxPending /\ clock \in Nat
    BY CapacityAssumption, CountAssumption DEF BoundedTransactions, RecorderInv, TypeOK
  <2>2. kept + added = IF clock < Capacity THEN clock ELSE Capacity
    BY DEF Filled, Newest
  <2> QED
    BY <2>1, <2>2
<1>2. kept + added = IF clock < Capacity THEN clock ELSE Capacity
  BY DEF Filled, Newest
<1>3. ASSUME NEW k \in Nat, NEW n \in Nat, k + n = (IF clock < Capacity THEN clock ELSE Capacity),
             n + 1 <= Capacity, added' = n + 1, kept' = Room(k, n + 1), clock' = clock + 1
      PROVE  Filled'
  BY <1>1, <1>3 DEF Filled, Newest, Room
<1>4. ASSUME NEW c, Add(clock + 1, c) PROVE Filled'
  BY <1>1, <1>2, <1>3, <1>4 DEF Add
<1>5. Keep(kept, added) = kept + added
  BY <1>1 DEF Keep
<1>6. ASSUME NEW c, Start(clock + 1, c) PROVE Filled'
  <2>1. added' = 0 + 1 /\ kept' = Room(kept + added, 0 + 1) /\ clock' = clock + 1
    BY <1>5, <1>6 DEF Start
  <2> QED
    BY <1>1, <1>2, <1>3, <2>1
<1>7. ASSUME Commit PROVE Filled'
  BY <1>1, <1>2, <1>5, <1>7 DEF Commit, Filled, Newest
<1>8. ASSUME UNCHANGED vars PROVE Filled'
  BY <1>8 DEF vars, Filled, Newest
<1> QED
  BY <1>4, <1>6, <1>7, <1>8 DEF Call, Enter, Leave, Mark, Begin, CommitAll, NoCall

-----------------------------------------------------------------------------
\* A packet of itch5 has a scope more than a raw one.
Extra == IF options.mode = "raw" THEN 0 ELSE 2

\* The recording of gen: n records, the first of which is the START of the packet.
Begun == marks[clock - added + 1] = [type |-> "start", where |-> "packet_loop"]

InPacket(n) == added = n /\ Begun

GenEnds ==
  /\ options.count \in Nat \ {0} /\ options.mode \in {"raw", "itch5"}
  /\ pc \in {"src_ip", "src_ip:end", "dst_ip", "dst_ip:end", "open", "global_header",
             "global_header:end"} => index = 0
  /\ pc = "loop" => index = 0 \/ InPacket(14 + Extra)
  /\ pc = "packet_loop" => InPacket(1)
  /\ pc = "make_packet" => InPacket(2)
  /\ pc = "make_payload" => InPacket(3)
  /\ pc = "payload" => InPacket(4)
  /\ pc = "message:end" => options.mode # "raw" /\ InPacket(5)
  /\ pc = "payload:end" => InPacket(4 + Extra)
  /\ pc = "ip_header" => InPacket(5 + Extra)
  /\ pc = "checksum" => InPacket(6 + Extra)
  /\ pc = "internet_checksum" => InPacket(7 + Extra)
  /\ pc = "internet_checksum:end" => InPacket(8 + Extra)
  /\ pc = "copy_payload" => InPacket(9 + Extra)
  /\ pc = "make_packet:end" => InPacket(10 + Extra)
  /\ pc = "write" => InPacket(11 + Extra)
  /\ pc = "write:end" => InPacket(12 + Extra)
  /\ pc = "packet_loop:end" => InPacket(13 + Extra)
  /\ pc = "exit0" => InPacket(14 + Extra)

\* The inductive invariant behind EndsWhole.
EndsInv ==
  /\ ScopesInv /\ Filled
  /\ Exited => stack = <<>>
  /\ tool = "print" /\ Exited => added = 0
  /\ tool = "gen" => GenEnds

\* One record more in the recording of a packet.
LEMMA MoreInPacket ==
  ASSUME MarksInv, RecorderInv, Filled, added > 0, Begun,
         (\E where : Enter(where) \/ Mark(where)) \/ Leave
  PROVE  Begun' /\ added' = added + 1
<1>1. PICK r : marks' = Append(marks, r) /\ added' = added + 1 /\ clock' = clock + 1
  BY DEF Enter, Mark, Leave, Add, Marked
<1>2. clock \in Nat /\ Len(marks) = clock /\ added \in Nat /\ added <= clock
  <2>1. clock \in Nat /\ kept \in Nat /\ added \in Nat /\ Capacity \in Nat
    BY CapacityAssumption DEF RecorderInv, TypeOK
  <2>2. kept + added = IF clock < Capacity THEN clock ELSE Capacity
    BY DEF Filled, Newest
  <2> QED
    BY <2>1, <2>2 DEF MarksInv
<1>3. PICK S : marks \in Seq(S)
  BY DEF MarksInv, Scopes
<1> DEFINE i == clock - added + 1
           j == clock' - added' + 1
<1>4. i \in 1..Len(marks) /\ j = i
  BY <1>1, <1>2
<1>5. marks[i] = [type |-> "start", where |-> "packet_loop"]
  BY DEF Begun
<1> HIDE DEF i
<1>6. Append(marks, r)[i] = marks[i]
  <2>1. marks \in Seq(S \cup {r}) /\ r \in S \cup {r}
    BY <1>3
  <2> QED
    BY <1>4, <2>1
<1>7. marks'[j] = [type |-> "start", where |-> "packet_loop"]
  BY <1>1, <1>4, <1>5, <1>6
<1> QED
  BY <1>1, <1>7 DEF Begun

\* A packet begins with a START.
LEMMA BeginsPacket ==
  ASSUME MarksInv, NEW category, Begin("packet_loop", category)
  PROVE  Begun' /\ added' = 1
<1>1. /\ marks' = Append(marks, [type |-> "start", where |-> "packet_loop"])
      /\ added' = 1 /\ clock' = clock + 1
  BY DEF Begin, Start, Marked
<1>2. clock \in Nat /\ Len(marks) = clock
  BY DEF MarksInv
<1>3. PICK S : marks \in Seq(S)
  BY DEF MarksInv, Scopes
<1> DEFINE r == [type |-> "start", where |-> "packet_loop"]
<1> HIDE DEF r
<1>4. marks \in Seq(S \cup {r}) /\ r \in S \cup {r}
  BY <1>3
<1>5. Append(marks, r)[Len(marks) + 1] = r
  BY <1>4
<1>6. clock' - added' + 1 = Len(marks) + 1
  BY <1>1, <1>2
<1> QED
  BY <1>1, <1>5, <1>6 DEF Begun, r

\* The places before the loop over the packets.
LEMMA BeforeLoop ==
  ASSUME GenEnds, tool' = "gen", options' = options, index' = index, index = 0,
         pc' \in {"src_ip:end", "dst_ip", "dst_ip:end", "open", "global_header",
                  "global_header:end", "loop", "unwind"}
  PROVE  GenEnds' /\ ~Exited'
  BY DEF GenEnds, Exited

LEMMA GenCallsEnd ==
  ASSUME MarksInv, RecorderInv, EndsInv, GenCalls
  PROVE  GenEnds' /\ ~Exited'
<1> DEFINE e == Extra
<1>1. /\ tool = "gen" /\ tool' = "gen" /\ options' = options /\ index' = index
      /\ Extra' = e /\ e \in {0, 2} /\ GenEnds /\ Filled
  BY DEF GenCalls, GenLine, At, Go, EndsInv, Extra
<1>2. /\ options'.count \in Nat \ {0} /\ options'.mode \in {"raw", "itch5"}
  BY <1>1 DEF GenEnds
<1>3. (options.mode # "raw" => e = 2) /\ (options.mode = "raw" => e = 0)
  BY DEF Extra
<1> HIDE DEF e
<1>4. ASSUME added > 0, Begun, (\E where : Enter(where) \/ Mark(where)) \/ Leave
      PROVE  Begun' /\ added' = added + 1
  BY <1>1, <1>4, MoreInPacket
<1>5. CASE \/ GenLine("src_ip", Enter("parse_ipv4"), "src_ip:end")
           \/ GenLine("src_ip:end", Leave, "dst_ip")
           \/ GenLine("dst_ip", Enter("parse_ipv4"), "dst_ip:end")
           \/ GenLine("dst_ip:end", Leave, "open")
           \/ GenLine("global_header", Enter("write_pcap_global_header"), "global_header:end")
  <2>1. index = 0 /\ pc' \in {"src_ip:end", "dst_ip", "dst_ip:end", "open", "global_header:end"}
    BY <1>1, <1>5 DEF GenLine, At, Go, GenEnds
  <2> QED
    BY <1>1, <2>1, BeforeLoop
<1>6. CASE GenLine("packet_loop", Enter("packet_loop"), "make_packet")
  <2>1. Enter("packet_loop") /\ pc' = "make_packet" /\ added = 1 /\ Begun
    BY <1>1, <1>3, <1>6 DEF GenLine, At, Go, GenEnds, InPacket
  <2>2. Begun' /\ added' = 1 + 1
    BY <1>1, <1>4, <2>1
  <2> QED
    BY <1>1, <1>2, <2>1, <2>2 DEF GenEnds, InPacket, Exited
<1>7. CASE GenLine("make_packet", Enter("make_packet"), "make_payload")
  <2>1. Enter("make_packet") /\ pc' = "make_payload" /\ added = 2 /\ Begun
    BY <1>1, <1>3, <1>7 DEF GenLine, At, Go, GenEnds, InPacket
  <2>2. Begun' /\ added' = 2 + 1
    BY <1>1, <1>4, <2>1
  <2> QED
    BY <1>1, <1>2, <2>1, <2>2 DEF GenEnds, InPacket, Exited
<1>8. CASE GenLine("make_payload", Enter("make_payload"), "payload")
  <2>1. Enter("make_payload") /\ pc' = "payload" /\ added = 3 /\ Begun
    BY <1>1, <1>3, <1>8 DEF GenLine, At, Go, GenEnds, InPacket
  <2>2. Begun' /\ added' = 3 + 1
    BY <1>1, <1>4, <2>1
  <2> QED
    BY <1>1, <1>2, <2>1, <2>2 DEF GenEnds, InPacket, Exited
<1>9. CASE GenLine("message:end", Leave, "payload:end")
  <2>1. Leave /\ pc' = "payload:end" /\ added = 5 /\ Begun /\ e = 2
    BY <1>1, <1>3, <1>9 DEF GenLine, At, Go, GenEnds, InPacket
  <2>2. Begun' /\ added' = 5 + 1
    BY <1>1, <1>4, <2>1
  <2> QED
    BY <1>1, <1>2, <2>1, <2>2 DEF GenEnds, InPacket, Exited
<1>10. CASE GenLine("ip_header", Mark("make_packet:ip_header"), "checksum")
  <2>1. Mark("make_packet:ip_header") /\ pc' = "checksum" /\ added = 5 + e /\ Begun
    BY <1>1, <1>3, <1>10 DEF GenLine, At, Go, GenEnds, InPacket, e
  <2>2. Begun' /\ added' = 5 + e + 1
    BY <1>1, <1>4, <2>1
  <2> QED
    BY <1>1, <1>2, <2>1, <2>2 DEF GenEnds, InPacket, Exited
<1>11. CASE GenLine("checksum", Mark("make_packet:checksum"), "internet_checksum")
  <2>1. Mark("make_packet:checksum") /\ pc' = "internet_checksum" /\ added = 6 + e /\ Begun
    BY <1>1, <1>3, <1>11 DEF GenLine, At, Go, GenEnds, InPacket, e
  <2>2. Begun' /\ added' = 6 + e + 1
    BY <1>1, <1>4, <2>1
  <2> QED
    BY <1>1, <1>2, <2>1, <2>2 DEF GenEnds, InPacket, Exited
<1>12. CASE GenLine("internet_checksum", Enter("internet_checksum"), "internet_checksum:end")
  <2>1. Enter("internet_checksum") /\ pc' = "internet_checksum:end" /\ added = 7 + e /\ Begun
    BY <1>1, <1>3, <1>12 DEF GenLine, At, Go, GenEnds, InPacket, e
  <2>2. Begun' /\ added' = 7 + e + 1
    BY <1>1, <1>4, <2>1
  <2> QED
    BY <1>1, <1>2, <2>1, <2>2 DEF GenEnds, InPacket, Exited
<1>13. CASE GenLine("internet_checksum:end", Leave, "copy_payload")
  <2>1. Leave /\ pc' = "copy_payload" /\ added = 8 + e /\ Begun
    BY <1>1, <1>3, <1>13 DEF GenLine, At, Go, GenEnds, InPacket, e
  <2>2. Begun' /\ added' = 8 + e + 1
    BY <1>1, <1>4, <2>1
  <2> QED
    BY <1>1, <1>2, <2>1, <2>2 DEF GenEnds, InPacket, Exited
<1>14. CASE GenLine("copy_payload", Mark("make_packet:copy_payload"), "make_packet:end")
  <2>1. Mark("make_packet:copy_payload") /\ pc' = "make_packet:end" /\ added = 9 + e /\ Begun
    BY <1>1, <1>3, <1>14 DEF GenLine, At, Go, GenEnds, InPacket, e
  <2>2. Begun' /\ added' = 9 + e + 1
    BY <1>1, <1>4, <2>1
  <2> QED
    BY <1>1, <1>2, <2>1, <2>2 DEF GenEnds, InPacket, Exited
<1>15. CASE GenLine("make_packet:end", Leave, "write")
  <2>1. Leave /\ pc' = "write" /\ added = 10 + e /\ Begun
    BY <1>1, <1>3, <1>15 DEF GenLine, At, Go, GenEnds, InPacket, e
  <2>2. Begun' /\ added' = 10 + e + 1
    BY <1>1, <1>4, <2>1
  <2> QED
    BY <1>1, <1>2, <2>1, <2>2 DEF GenEnds, InPacket, Exited
<1>16. CASE GenLine("write", Enter("write_pcap_packet"), "write:end")
  <2>1. Enter("write_pcap_packet") /\ pc' = "write:end" /\ added = 11 + e /\ Begun
    BY <1>1, <1>3, <1>16 DEF GenLine, At, Go, GenEnds, InPacket, e
  <2>2. Begun' /\ added' = 11 + e + 1
    BY <1>1, <1>4, <2>1
  <2> QED
    BY <1>1, <1>2, <2>1, <2>2 DEF GenEnds, InPacket, Exited
<1> QED
  BY <1>5, <1>6, <1>7, <1>8, <1>9, <1>10, <1>11, <1>12, <1>13, <1>14, <1>15, <1>16 DEF GenCalls

LEMMA ToolOfGen ==
  ASSUME PcapItchGen
  PROVE  tool = "gen" /\ tool' = "gen" /\ options' = options
<1>1. CASE GenCalls
  BY <1>1 DEF GenCalls, GenLine, At, Go
<1>2. CASE ParseIpv4Fails \/ OpenOutputFails \/ OpenOutput \/ WriteGlobalHeader
  BY <1>2 DEF ParseIpv4Fails, OpenOutputFails, OpenOutput, WriteGlobalHeader, GenLine, At, Go
<1>3. CASE GenLoop \/ ChooseMessage \/ PayloadEnd
  BY <1>3 DEF GenLoop, ChooseMessage, PayloadEnd, Throw, At, Go
<1>4. CASE WritePacket \/ NextPacket
  BY <1>4 DEF WritePacket, NextPacket, At, Go
<1> QED
  BY <1>1, <1>2, <1>3, <1>4 DEF PcapItchGen

LEMMA GenEnd ==
  ASSUME MadeInv, ReadsInv, MarksInv, RecorderInv, EndsInv, PcapItchGen
  PROVE  GenEnds' /\ (Exited' => stack' = <<>>)
<1> DEFINE e == Extra
<1>1. tool = "gen" /\ tool' = "gen" /\ options' = options
  BY ToolOfGen
<1>2. /\ Extra' = e /\ e \in {0, 2} /\ GenEnds /\ Filled /\ index \in Nat
      /\ options'.count \in Nat \ {0} /\ options'.mode \in {"raw", "itch5"}
  BY <1>1 DEF EndsInv, ReadsInv, GenEnds, Extra
<1>3. (options.mode # "raw" => e = 2) /\ (options.mode = "raw" => e = 0)
  BY DEF Extra
<1> HIDE DEF e
<1>4. ASSUME added > 0, Begun, (\E where : Enter(where) \/ Mark(where)) \/ Leave
      PROVE  Begun' /\ added' = added + 1
  BY <1>2, <1>4, MoreInPacket
<1>5. ASSUME NoCall PROVE added' = added /\ (Begun => Begun')
  BY <1>5 DEF NoCall, vars, Begun
<1>6. CASE GenCalls
  BY <1>6, GenCallsEnd
<1>7. CASE ParseIpv4Fails \/ OpenOutputFails \/ OpenOutput \/ WriteGlobalHeader
  <2>1. index = 0 /\ index' = index /\ pc' \in {"unwind", "global_header", "loop"}
    BY <1>1, <1>2, <1>7
    DEF ParseIpv4Fails, OpenOutputFails, OpenOutput, WriteGlobalHeader, GenLine, At, Go, GenEnds
  <2> QED
    BY <1>1, <1>2, <2>1, BeforeLoop
<1>8. CASE GenLoop
  <2>1. pc = "loop" /\ index' = index /\ (index = 0 \/ (added = 14 + e /\ Begun))
    BY <1>1, <1>2, <1>8 DEF GenLoop, At, GenEnds, InPacket, e
  <2>2. CASE index < options.count
    <3>1. Begin("packet_loop", MdCategory) /\ pc' = "packet_loop"
      BY <1>8, <2>2 DEF GenLoop, Go
    <3>2. Begun' /\ added' = 1
      BY <3>1, BeginsPacket
    <3> QED
      BY <1>1, <1>2, <3>1, <3>2 DEF GenEnds, InPacket, Exited
  <2>3. CASE ~(index < options.count)
    <3>1. NoCall /\ pc' = "exit0"
      BY <1>8, <2>3 DEF GenLoop, Go
    <3>2. index # 0
      BY <1>1, <1>2, <2>3
    <3>3. Begun' /\ added' = 14 + e
      BY <1>5, <2>1, <3>1, <3>2
    <3>4. Len(stack) = 0 /\ stack' = stack
      BY <1>1, <2>1, <3>1 DEF MadeInv, GenMade, Made, NoCall
    <3>5. stack = <<>>
      BY <3>4, Depth
    <3> QED
      BY <1>1, <1>2, <3>1, <3>3, <3>4, <3>5 DEF GenEnds, InPacket, Exited
  <2> QED
    BY <2>2, <2>3
<1>9. CASE ChooseMessage
  <2>1. added = 4 /\ Begun
    BY <1>2, <1>9 DEF ChooseMessage, At, GenEnds, InPacket
  <2>2. CASE options.mode = "raw"
    <3>1. NoCall /\ pc' = "payload:end" /\ e = 0
      BY <1>3, <1>9, <2>2 DEF ChooseMessage, Go
    <3> QED
      BY <1>1, <1>2, <1>5, <2>1, <3>1 DEF GenEnds, InPacket, Exited
  <2>3. CASE options.mode # "raw"
    <3>1. Enter("make_itch_message") /\ pc' = "message:end"
      BY <1>9, <2>3 DEF ChooseMessage, Go
    <3>2. Begun' /\ added' = 5
      BY <1>4, <2>1, <3>1
    <3> QED
      BY <1>1, <1>2, <2>3, <3>1, <3>2 DEF GenEnds, InPacket, Exited
  <2> QED
    BY <2>2, <2>3
<1>10. CASE PayloadEnd
  <2>1. added = 4 + e /\ Begun
    BY <1>2, <1>10 DEF PayloadEnd, At, GenEnds, InPacket, e
  <2>2. CASE Throw
    BY <1>1, <1>2, <2>2 DEF Throw, Go, GenEnds, Exited
  <2>3. CASE Leave /\ Go("ip_header")
    <3>1. Begun' /\ added' = 5 + e /\ pc' = "ip_header"
      BY <1>2, <1>4, <2>1, <2>3 DEF Go
    <3> QED
      BY <1>1, <1>2, <3>1 DEF GenEnds, InPacket, Exited
  <2> QED
    BY <1>10, <2>2, <2>3 DEF PayloadEnd
<1>11. CASE WritePacket
  <2>1. added = 12 + e /\ Begun /\ Leave /\ pc' = "packet_loop:end"
    BY <1>2, <1>11 DEF WritePacket, At, Go, GenEnds, InPacket, e
  <2>2. Begun' /\ added' = 13 + e
    BY <1>2, <1>4, <2>1
  <2> QED
    BY <1>1, <1>2, <2>1, <2>2 DEF GenEnds, InPacket, Exited
<1>12. CASE NextPacket
  <2>1. added = 13 + e /\ Begun /\ Leave /\ pc' = "loop"
    BY <1>2, <1>12 DEF NextPacket, At, Go, GenEnds, InPacket, e
  <2>2. Begun' /\ added' = 14 + e
    BY <1>2, <1>4, <2>1
  <2> QED
    BY <1>1, <1>2, <2>1, <2>2 DEF GenEnds, InPacket, Exited
<1> QED
  BY <1>6, <1>7, <1>8, <1>9, <1>10, <1>11, <1>12 DEF PcapItchGen

\* The printer ends with a commit, at the end of its input or in the catch.
LEMMA PrintEnd ==
  ASSUME MadeInv, PcapItchPrint
  PROVE  tool' = "print" /\ (Exited' => stack' = <<>> /\ added' = 0)
<1>1. CASE PrintLine("commit", CommitAll, "exit0")
  <2>1. tool = "print" /\ pc = "commit" /\ tool' = "print" /\ CommitAll
    BY <1>1 DEF PrintLine, At, Go
  <2>2. Len(stack) = 0
    BY <2>1 DEF MadeInv, PrintMade, Made
  <2> QED
    BY <2>1, <2>2, Depth, CommitMakes
<1>2. CASE PrintLine("print_pcap", Enter("print_pcap"), "open") \/ PrintLine("print_pcap:end", Leave, "commit")
  BY <1>2 DEF PrintLine, At, Go, Exited
<1>3. CASE OpenInput \/ ReadHeaders \/ ReadMold \/ PacketEnd
  BY <1>3 DEF OpenInput, ReadHeaders, ReadMold, PacketEnd, Throw, At, Go, Exited
<1>4. CASE NextHeader
  BY <1>4 DEF NextHeader, Throw, At, Go, Exited
<1>5. CASE ReadUdp \/ NextMessage
  BY <1>5 DEF ReadUdp, NextMessage, Throw, At, Go, Exited
<1>6. CASE PrintMessage \/ MessageEnd
  BY <1>6 DEF PrintMessage, MessageEnd, Throw, At, Go, Exited
<1> QED
  BY <1>1, <1>2, <1>3, <1>4, <1>5, <1>6 DEF PcapItchPrint, PrintCalls

LEMMA StepEnds ==
  ASSUME BoundedTransactions, MinCount <= 1, RunInv, EndsInv, ToolStep
  PROVE  EndsInv'
<1>1. ScopesInv' /\ Filled'
  BY StepCalls, CallKeepsScopes, CallFills DEF RunInv, EndsInv
<1>2. CASE PcapItchGen
  <2>1. tool' = "gen"
    BY <1>2, ToolOfGen
  <2>2. GenEnds' /\ (Exited' => stack' = <<>>)
    BY <1>2, GenEnd DEF RunInv
  <2> QED
    BY <1>1, <2>1, <2>2 DEF EndsInv
<1>3. CASE PcapItchPrint
  BY <1>1, <1>3, PrintEnd DEF EndsInv, RunInv
<1>4. CASE Unwind
  <2>1. tool' = tool /\ options' = options /\ pc' = "unwind"
    BY <1>4 DEF Unwind, Go
  <2> QED
    BY <1>1, <2>1 DEF EndsInv, GenEnds, Exited
<1>5. CASE Catch
  <2>1. tool' = tool /\ options' = options /\ pc' = "exit1" /\ stack = <<>> /\ Caught
    BY <1>5 DEF Catch, Go
  <2>2. stack' = <<>> /\ (tool = "print" => added' = 0)
    BY <2>1, CommitMakes DEF Caught, NoCall
  <2> QED
    BY <1>1, <2>1, <2>2 DEF EndsInv, GenEnds, Exited
<1> QED
  BY <1>2, <1>3, <1>4, <1>5 DEF ToolStep

LEMMA TimesInNothing ==
  ASSUME NEW x
  PROVE  Times(<<>>, x) = 0
<1>1. Places(<<>>, x) = {}
  BY DEF Places
<1> QED
  BY <1>1, FS_EmptySet DEF Times

LEMMA LaunchEnds ==
  ASSUME NEW t \in {"gen", "print"}, NEW chosen, NEW label, Launch(t, chosen, label),
         label \in {"src_ip", "print_pcap"},
         t = "gen" => label = "src_ip" /\ chosen.count \in Nat \ {0} /\ chosen.mode \in {"raw", "itch5"}
  PROVE  EndsInv'
<1>1. ScopesInv'
  BY TimesInNothing DEF Launch, ScopesInv, Balanced
<1>2. Filled'
  BY CapacityAssumption DEF Launch, Filled, Newest
<1> QED
  BY <1>1, <1>2 DEF Launch, EndsInv, GenEnds, Exited

LEMMA ToolsNextEnds ==
  ASSUME BoundedTransactions, MinCount <= 1, RunInv, EndsInv, [ToolsNext]_<<vars, toolVars>>
  PROVE  EndsInv'
<1>1. ASSUME NEW size \in Nat, NEW n \in Nat \ {0}, NEW mode \in {"raw", "itch5"},
             LaunchGen(size, n, mode)
      PROVE  EndsInv'
  <2> DEFINE chosen == [size |-> size, count |-> n, mode |-> mode]
  <2>1. chosen.count = n /\ chosen.mode = mode /\ Launch("gen", chosen, "src_ip")
    BY <1>1 DEF LaunchGen
  <2> HIDE DEF chosen
  <2> QED
    BY <2>1, LaunchEnds
<1>2. ASSUME NEW limit \in Nat, LaunchPrint(limit) PROVE EndsInv'
  BY <1>2, LaunchEnds DEF LaunchPrint
<1>3. CASE UNCHANGED <<vars, toolVars>>
  BY <1>3 DEF vars, toolVars, EndsInv, ScopesInv, Filled, Newest, Exited, GenEnds, InPacket, Begun, Extra
<1> QED
  BY <1>1, <1>2, <1>3, StepEnds DEF ToolsNext

\* However a tool ends, at its end or by an exception at any place, and on any
\* capture: every scope that was entered has its end in the record, the printer has
\* committed all of it, and a generator that succeeds leaves the recording of the last
\* packet, whole and uncommitted.
THEOREM RecordsEndWhole ==
  ASSUME BoundedTransactions, MinCount <= 1
  PROVE  ToolsSpec => []EndsWhole
<1>1. ToolsInit => EndsInv
  <2> SUFFICES ASSUME ToolsInit PROVE EndsInv
    OBVIOUS
  <2>1. /\ marks = <<>> /\ stack = <<>> /\ tool = "none"
        /\ kept = 0 /\ added = 0 /\ clock = 0
    BY DEF ToolsInit, Init
  <2>2. ScopesInv
    BY <2>1, TimesInNothing DEF ScopesInv, Balanced
  <2>3. Filled
    BY <2>1, CapacityAssumption DEF Filled, Newest
  <2> QED
    BY <2>1, <2>2, <2>3 DEF EndsInv
<1>2. RunInv /\ EndsInv /\ [ToolsNext]_<<vars, toolVars>> => EndsInv'
  BY ToolsNextEnds
<1>3. RunInv /\ EndsInv => EndsWhole
  <2> SUFFICES ASSUME RunInv, EndsInv, Exited PROVE EndsWhole
    BY DEF EndsWhole
  <2>1. stack = <<>> /\ ScopesInv /\ Filled /\ added \in Nat /\ kept \in Nat
    BY DEF EndsInv, RunInv, RecorderInv, TypeOK
  <2>2. PairedScopes
    <3> SUFFICES ASSUME NEW where
                 PROVE  Cardinality({i \in 1..Len(marks) : marks[i] = [type |-> "scope_start", where |-> where]})
                          = Cardinality({i \in 1..Len(marks) : marks[i] = [type |-> "scope_end", where |-> where]})
      BY DEF PairedScopes
    <3>1. PICK S : marks \in Seq(S)
      BY DEF RunInv, MarksInv, Scopes
    <3> DEFINE end == ScopeMark("scope_end", where)
    <3>2. Times(marks, end) \in Nat
      <4> HIDE DEF end
      <4> QED
        BY <3>1, TimesAppended
    <3>3. Times(marks, ScopeMark("scope_start", where)) = Times(marks, end)
      BY <2>1, <3>2, TimesInNothing DEF ScopesInv, Balanced
    <3> QED
      BY <3>3 DEF Times, Places, ScopeMark
  <2>3. tool = "print" => added = 0 /\ kept = Newest
    BY <2>1 DEF EndsInv, Filled
  <2>4. ASSUME tool = "gen", pc = "exit0"
        PROVE  /\ added = (IF options.mode = "raw" THEN 14 ELSE 16)
               /\ kept + added = Newest
               /\ marks[clock - added + 1] = [type |-> "start", where |-> "packet_loop"]
    BY <2>1, <2>4 DEF EndsInv, GenEnds, InPacket, Begun, Extra, Filled
  <2> QED
    BY <2>1, <2>2, <2>3, <2>4 DEF EndsWhole
<1> QED
  BY <1>1, <1>2, <1>3, ToolsRun, PTL DEF ToolsSpec

-----------------------------------------------------------------------------
(***************************************************************************)
(* What is put into a packet is found there: the bytes of a message end    *)
(* where the widths of the fields add up to, and no two fields begin at    *)
(* one place.                                                              *)
(***************************************************************************)
\* Induction up to n, over a set: what holds at 0 and is handed on holds up to n.
LEMMA StepByStep ==
  ASSUME NEW n \in Nat, NEW T, 0 \in T, \A i \in 0..(n - 1) : i \in T => i + 1 \in T
  PROVE  \A i \in 0..n : i \in T
<1> SUFFICES ASSUME \E i \in 0..n : i \notin T PROVE FALSE
  OBVIOUS
<1> DEFINE R == OpToRel(<, Nat)
           missing == {i \in 0..n : i \notin T}
<1>1. missing \in SUBSET Nat /\ missing # {}
  OBVIOUS
<1>2. IsWellFoundedOn(R, Nat)
  BY NatLessThanWellFounded
<1>3. \A x, y \in Nat : y < x => <<y, x>> \in R
  BY DEF OpToRel
<1> HIDE DEF R, missing
<1>4. PICK x \in missing : \A y \in missing : ~(<<y, x>> \in R)
  BY <1>1, <1>2, WFMin
<1>5. \A y \in missing : ~(y < x)
  BY <1>1, <1>3, <1>4
<1> USE DEF missing
<1>6. x \in 1..n /\ x - 1 \in 0..(n - 1) /\ x - 1 \notin missing /\ x \notin T
  BY <1>4, <1>5
<1>7. x - 1 \in T /\ (x - 1) + 1 = x
  BY <1>6
<1> QED
  BY <1>6, <1>7

\* A sequence of members or fields, each of some bytes.
Widths(s) == Len(s) \in Nat /\ \A i \in 1..Len(s) : s[i].width \in Nat \ {0}

\* Ends adds up the widths.
LEMMA EndsAddUp ==
  ASSUME NEW s, Widths(s)
  PROVE  /\ Ends(s)[0] = 0 /\ \A i \in 0..Len(s) : Ends(s)[i] \in Nat
         /\ \A i \in 1..Len(s) : Ends(s)[i] = Ends(s)[i - 1] + s[i].width
<1> DEFINE n == Len(s)
           Sum(f, m) == /\ f = [i \in 0..m |-> f[i]] /\ f[0] = 0
                        /\ \A i \in 0..m : f[i] \in Nat
                        /\ \A i \in 1..m : f[i] = f[i - 1] + s[i].width
           T == {m \in 0..n : \E f : Sum(f, m)}
<1>1. n \in Nat /\ \A i \in 1..n : s[i].width \in Nat
  BY DEF Widths
<1>2. 0 \in T
  <2>1. Sum([i \in 0..0 |-> 0], 0)
    OBVIOUS
  <2> HIDE DEF Sum
  <2>2. 0 \in 0..n
    BY <1>1
  <2> QED
    BY <2>1, <2>2
<1>3. ASSUME NEW m \in 0..(n - 1), m \in T PROVE m + 1 \in T
  <2>1. PICK f : Sum(f, m)
    BY <1>3
  <2> DEFINE k == m + 1
             g == [i \in 0..k |-> IF i = k THEN f[m] + s[k].width ELSE f[i]]
  <2>2. k \in 1..n /\ m \in 0..m /\ k - 1 = m /\ m \in Nat
    BY <1>1
  <2>3. \A i \in 0..k : g[i] = IF i = k THEN f[m] + s[k].width ELSE f[i]
    OBVIOUS
  <2>4. s[k].width \in Nat /\ f[m] \in Nat
    BY <1>1, <2>1, <2>2
  <2>5. \A i \in 0..k : g[i] \in Nat
    <3>1. \A i \in 0..k : i # k => i \in 0..m
      BY <2>2
    <3> QED
      BY <2>1, <2>3, <2>4, <3>1
  <2>6. \A i \in 1..k : g[i] = g[i - 1] + s[i].width
    <3>1. \A i \in 1..k : i \in 0..k /\ i - 1 \in 0..k /\ i - 1 # k /\ (i # k => i \in 1..m)
      BY <2>2
    <3> HIDE DEF g
    <3>2. ASSUME NEW i \in 1..k, i # k PROVE g[i] = g[i - 1] + s[i].width
      BY <2>1, <2>3, <3>1, <3>2
    <3> QED
      BY <2>2, <2>3, <3>1, <3>2
  <2>7. 0 \in 0..k /\ 0 # k /\ g[0] = 0
    BY <2>1, <2>2
  <2>8. g = [i \in 0..k |-> g[i]]
    OBVIOUS
  <2> HIDE DEF g
  <2>9. Sum(g, k)
    BY <2>5, <2>6, <2>7, <2>8
  <2> HIDE DEF Sum
  <2> QED
    BY <2>2, <2>9
<1>4. n \in T
  <2> HIDE DEF T
  <2>1. \A i \in 0..n : i \in T
    BY <1>1, <1>2, <1>3, StepByStep
  <2> QED
    BY <1>1, <2>1
<1>5. PICK f : Sum(f, n)
  BY <1>4
<1>6. f = [i \in 0..Len(s) |-> IF i = 0 THEN 0 ELSE f[i - 1] + s[i].width]
  <2>1. \A i \in 0..n : i # 0 => i \in 1..n
    BY <1>1
  <2>2. \A i \in 0..n : f[i] = IF i = 0 THEN 0 ELSE f[i - 1] + s[i].width
    BY <1>5, <2>1
  <2> QED
    BY <1>5, <2>2
<1>7. Ends(s) = [i \in 0..Len(s) |-> IF i = 0 THEN 0 ELSE Ends(s)[i - 1] + s[i].width]
  BY <1>6, Zenon DEF Ends
<1> DEFINE e == Ends(s)
<1>8. \A i \in 0..n : e[i] = IF i = 0 THEN 0 ELSE e[i - 1] + s[i].width
  BY <1>7
<1>9. e[0] = 0 /\ \A i \in 1..n : e[i] = e[i - 1] + s[i].width
  BY <1>1, <1>8
<1> DEFINE U == {i \in Nat : e[i] \in Nat}
<1>10. 0 \in U /\ \A i \in 0..(n - 1) : i \in U => i + 1 \in U
  <2> HIDE DEF e
  <2>1. 0 \in U
    BY <1>9
  <2>2. ASSUME NEW i \in 0..(n - 1), i \in U PROVE i + 1 \in U
    <3>1. i + 1 \in 1..n /\ (i + 1) - 1 = i /\ i \in Nat
      BY <1>1
    <3>2. s[i + 1].width \in Nat /\ e[i] \in Nat
      BY <1>1, <2>2, <3>1
    <3> QED
      BY <1>9, <3>1, <3>2
  <2> QED
    BY <2>1, <2>2
<1>11. \A i \in 0..n : e[i] \in Nat
  <2> HIDE DEF U
  <2>1. \A i \in 0..n : i \in U
    BY <1>1, <1>10, StepByStep
  <2> QED
    BY <2>1 DEF U
<1> QED
  BY <1>9, <1>11

\* A member ends behind those in front of it.
LEMMA EndsRise ==
  ASSUME NEW s, Widths(s), NEW i \in 0..Len(s), NEW j \in 0..Len(s), i < j
  PROVE  Ends(s)[i] < Ends(s)[j]
<1> DEFINE e == Ends(s)
           n == Len(s)
           T == {k \in Nat : i < k => e[i] < e[k]}
<1>1. /\ n \in Nat /\ \A k \in 0..n : e[k] \in Nat
      /\ \A k \in 1..n : e[k] = e[k - 1] + s[k].width /\ s[k].width \in Nat \ {0}
  BY EndsAddUp DEF Widths
<1> HIDE DEF e, n
<1>2. 0 \in T
  BY DEF n
<1>3. ASSUME NEW k \in 0..(n - 1), k \in T PROVE k + 1 \in T
  <2>1. k + 1 \in 1..n /\ (k + 1) - 1 = k /\ k \in Nat /\ k \in 0..n /\ k + 1 \in 0..n
    BY <1>1
  <2>2. e[k + 1] = e[k] + s[k + 1].width /\ s[k + 1].width \in Nat \ {0}
    BY <1>1, <2>1
  <2>3. e[k] \in Nat /\ e[k + 1] \in Nat /\ e[i] \in Nat /\ i \in Nat
    BY <1>1, <2>1 DEF n
  <2>4. CASE i = k
    BY <2>1, <2>2, <2>3, <2>4
  <2>5. CASE i # k
    BY <1>3, <2>1, <2>2, <2>3, <2>5
  <2> QED
    BY <2>4, <2>5
<1>4. \A k \in 0..n : k \in T
  <2> HIDE DEF T
  <2> QED
    BY <1>1, <1>2, <1>3, StepByStep
<1> QED
  BY <1>4 DEF e, n

\* A load at the beginning of a field, of its width, finds its value.
LEMMA FieldIsRead ==
  ASSUME NEW s, Widths(s), NEW k \in 1..Len(s)
  PROVE  ReadAt(s, Ends(s)[k - 1], s[k].width) = s[k].value
<1> DEFINE met == {i \in 1..Len(s) : Ends(s)[i - 1] = Ends(s)[k - 1] /\ s[i].width = s[k].width}
<1>1. Len(s) \in Nat
  BY DEF Widths
<1>2. ASSUME NEW i \in 1..Len(s), Ends(s)[i - 1] = Ends(s)[k - 1] PROVE i = k
  <2>1. i - 1 \in 0..Len(s) /\ k - 1 \in 0..Len(s)
    BY <1>1
  <2>2. Ends(s)[i - 1] \in Nat /\ Ends(s)[k - 1] \in Nat
    BY <2>1, EndsAddUp
  <2>3. ~(i - 1 < k - 1) /\ ~(k - 1 < i - 1)
    BY <1>2, <2>1, <2>2, EndsRise
  <2> QED
    BY <1>1, <2>3
<1>3. met = {k}
  BY <1>2
<1>4. (CHOOSE i \in met : TRUE) = k
  BY <1>3
<1> QED
  BY <1>3, <1>4, Zenon DEF ReadAt

\* Fields with the widths of t, behind n others: where they end.
LEMMA EndsBehind ==
  ASSUME NEW s, NEW t, Widths(s), Widths(t), NEW n \in Nat, n + Len(t) <= Len(s),
         \A k \in 1..Len(t) : s[n + k].width = t[k].width
  PROVE  \A k \in 0..Len(t) : Ends(s)[n + k] = Ends(s)[n] + Ends(t)[k]
<1> DEFINE e == Ends(s)
           f == Ends(t)
           T == {k \in Nat : e[n + k] = e[n] + f[k]}
<1>1. /\ Len(s) \in Nat /\ Len(t) \in Nat
      /\ \A k \in 0..Len(s) : e[k] \in Nat
      /\ \A k \in 1..Len(s) : e[k] = e[k - 1] + s[k].width
      /\ f[0] = 0 /\ \A k \in 0..Len(t) : f[k] \in Nat
      /\ \A k \in 1..Len(t) : f[k] = f[k - 1] + t[k].width /\ t[k].width \in Nat
  BY EndsAddUp DEF Widths
<1> HIDE DEF e, f
<1>2. 0 \in T
  <2>1. n \in 0..Len(s) /\ n + 0 = n
    BY <1>1
  <2>2. e[n] \in Nat /\ e[n] + f[0] = e[n]
    BY <1>1, <2>1
  <2> QED
    BY <2>1, <2>2
<1>3. ASSUME NEW k \in 0..(Len(t) - 1), k \in T PROVE k + 1 \in T
  <2>1. k + 1 \in 1..Len(t) /\ (k + 1) - 1 = k /\ k \in 0..Len(t) /\ k \in Nat
    BY <1>1
  <2>2. n + (k + 1) \in 1..Len(s) /\ (n + (k + 1)) - 1 = n + k /\ n \in 0..Len(s)
    BY <1>1
  <2>3. e[n + (k + 1)] = e[n + k] + s[n + (k + 1)].width
    BY <1>1, <2>2
  <2>4. f[k + 1] = f[k] + t[k + 1].width /\ t[k + 1].width \in Nat /\ f[k] \in Nat /\ e[n] \in Nat
    BY <1>1, <2>1, <2>2
  <2>5. e[n + k] = e[n] + f[k] /\ s[n + (k + 1)].width = t[k + 1].width
    BY <1>3, <2>1
  <2>6. e[n + (k + 1)] = e[n] + f[k + 1]
    BY <2>3, <2>4, <2>5
  <2> QED
    BY <2>1, <2>6
<1>4. \A k \in 0..Len(t) : k \in T
  <2> HIDE DEF T
  <2> QED
    BY <1>1, <1>2, <1>3, StepByStep
<1> QED
  BY <1>4 DEF e, f

-----------------------------------------------------------------------------
(***************************************************************************)
(* The messages that the makers of itch5.hpp put, and what is read back.   *)
(***************************************************************************)
\* The bytes are the members of the layout, in their order, each of them printed and
\* under a name of its own.
Fits(bytes, layout, m) ==
  /\ Len(layout) \in 5..10 /\ Len(bytes) = Len(layout)
  /\ \A k \in 1..Len(layout) :
       /\ layout[k].width \in Nat \ {0} /\ layout[k].name # "reserved"
       /\ bytes[k] = Put(m[layout[k].name], layout[k].width)
       /\ \A j \in 1..Len(layout) : layout[j].name = layout[k].name => j = k
  /\ layout[1] = M("type", 1)

LEMMA LayoutDomains ==
  /\ DOMAIN StockLayouts = {"S", "R", "H", "Y", "L", "V", "W", "K", "J", "h"}
  /\ DOMAIN OrderLayouts = {"A", "F", "E", "C", "X", "D", "U", "P", "Q", "B", "I", "N", "O"}
  BY DEF StockLayouts, OrderLayouts

LEMMA SystemEventFits ==
  ASSUME NEW m, m.type = "S"
  PROVE  /\ Fits(Make(m), Layout(m.type), m)
         /\ Shown(m.type) =
            {"type", "locate", "tracking", "timestamp", "event_code"}
<1> DEFINE l == Layout(m.type)
           b == Make(m)
<1>1. StockLayouts["S"] = <<M("event_code", 1)>>
  BY DEF StockLayouts
<1>2. l = HeaderLayout \o <<M("event_code", 1)>>
  BY <1>1, LayoutDomains DEF Layout
<1>3. /\ Len(l) = 5
      /\ l[1] = M("type", 1)
      /\ l[2] = M("locate", 2)
      /\ l[3] = M("tracking", 2)
      /\ l[4] = M("timestamp", 6)
      /\ l[5] = M("event_code", 1)
  <2> HIDE DEF l
  <2> QED
    BY <1>2 DEF HeaderLayout
<1>4. b = MakeSystemEvent(m)
  BY DEF Make
<1>5. /\ Len(b) = 5
      /\ b[1] = Put(m["type"], 1)
      /\ b[2] = Put(m["locate"], 2)
      /\ b[3] = Put(m["tracking"], 2)
      /\ b[4] = Put(m["timestamp"], 6)
      /\ b[5] = Put(m["event_code"], 1)
  <2> HIDE DEF b
  <2> QED
    BY <1>4 DEF MakeSystemEvent, PutHeader
<1> HIDE DEF l, b
<1>6. \A k \in 1..5 : k = 1 \/ k = 2 \/ k = 3 \/ k = 4 \/ k = 5
  OBVIOUS
<1>7. \A k \in 1..5 : b[k] = Put(m[l[k].name], l[k].width)
  BY <1>3, <1>5, <1>6 DEF M
<1>8. \A k \in 1..5 : l[k].width \in Nat \ {0} /\ l[k].name # "reserved"
  BY <1>3, <1>6 DEF M
<1>9. \A k \in 1..5, j \in 1..5 : l[j].name = l[k].name => j = k
  BY <1>3, <1>6 DEF M
<1>10. Fits(b, l, m)
  BY <1>3, <1>5, <1>7, <1>8, <1>9 DEF Fits
<1>11. {l[k].name : k \in 1..Len(l)} =
        {"type", "locate", "tracking", "timestamp", "event_code"}
  BY <1>3, <1>6 DEF M
<1> QED
  BY <1>10, <1>11 DEF Shown, l, b

LEMMA AddOrderFits ==
  ASSUME NEW m, m.type = "A"
  PROVE  /\ Fits(Make(m), Layout(m.type), m)
         /\ Shown(m.type) =
            {"type", "locate", "tracking", "timestamp",
             "order_ref", "side", "shares", "stock", "price"}
<1> DEFINE l == Layout(m.type)
           b == Make(m)
<1>1. OrderLayouts["A"] = <<M("order_ref", 8), M("side", 1), M("shares", 4), M("stock", 8), M("price", 4)>>
  BY DEF OrderLayouts
<1>2. l = HeaderLayout \o <<M("order_ref", 8), M("side", 1), M("shares", 4), M("stock", 8), M("price", 4)>>
  BY <1>1, LayoutDomains DEF Layout
<1>3. /\ Len(l) = 9
      /\ l[1] = M("type", 1)
      /\ l[2] = M("locate", 2)
      /\ l[3] = M("tracking", 2)
      /\ l[4] = M("timestamp", 6)
      /\ l[5] = M("order_ref", 8)
      /\ l[6] = M("side", 1)
      /\ l[7] = M("shares", 4)
      /\ l[8] = M("stock", 8)
      /\ l[9] = M("price", 4)
  <2> HIDE DEF l
  <2> QED
    BY <1>2 DEF HeaderLayout
<1>4. b = MakeAddOrder(m)
  BY DEF Make
<1>5. /\ Len(b) = 9
      /\ b[1] = Put(m["type"], 1)
      /\ b[2] = Put(m["locate"], 2)
      /\ b[3] = Put(m["tracking"], 2)
      /\ b[4] = Put(m["timestamp"], 6)
      /\ b[5] = Put(m["order_ref"], 8)
      /\ b[6] = Put(m["side"], 1)
      /\ b[7] = Put(m["shares"], 4)
      /\ b[8] = Put(m["stock"], 8)
      /\ b[9] = Put(m["price"], 4)
  <2> HIDE DEF b
  <2> QED
    BY <1>4 DEF MakeAddOrder, PutHeader
<1> HIDE DEF l, b
<1>6. \A k \in 1..9 : k = 1 \/ k = 2 \/ k = 3 \/ k = 4 \/ k = 5 \/ k = 6 \/ k = 7 \/ k = 8 \/ k = 9
  OBVIOUS
<1>7. \A k \in 1..9 : b[k] = Put(m[l[k].name], l[k].width)
  BY <1>3, <1>5, <1>6 DEF M
<1>8. \A k \in 1..9 : l[k].width \in Nat \ {0} /\ l[k].name # "reserved"
  BY <1>3, <1>6 DEF M
<1>9. \A k \in 1..9, j \in 1..9 : l[j].name = l[k].name => j = k
  BY <1>3, <1>6 DEF M
<1>10. Fits(b, l, m)
  BY <1>3, <1>5, <1>7, <1>8, <1>9 DEF Fits
<1>11. {l[k].name : k \in 1..Len(l)} =
        {"type", "locate", "tracking", "timestamp",
         "order_ref", "side", "shares", "stock", "price"}
  BY <1>3, <1>6 DEF M
<1> QED
  BY <1>10, <1>11 DEF Shown, l, b

LEMMA OrderExecutedFits ==
  ASSUME NEW m, m.type = "E"
  PROVE  /\ Fits(Make(m), Layout(m.type), m)
         /\ Shown(m.type) =
            {"type", "locate", "tracking",
             "timestamp", "order_ref", "shares", "match"}
<1> DEFINE l == Layout(m.type)
           b == Make(m)
<1>1. OrderLayouts["E"] = <<M("order_ref", 8), M("shares", 4), M("match", 8)>>
  BY DEF OrderLayouts
<1>2. l = HeaderLayout \o <<M("order_ref", 8), M("shares", 4), M("match", 8)>>
  BY <1>1, LayoutDomains DEF Layout
<1>3. /\ Len(l) = 7
      /\ l[1] = M("type", 1)
      /\ l[2] = M("locate", 2)
      /\ l[3] = M("tracking", 2)
      /\ l[4] = M("timestamp", 6)
      /\ l[5] = M("order_ref", 8)
      /\ l[6] = M("shares", 4)
      /\ l[7] = M("match", 8)
  <2> HIDE DEF l
  <2> QED
    BY <1>2 DEF HeaderLayout
<1>4. b = MakeOrderExecuted(m)
  BY DEF Make
<1>5. /\ Len(b) = 7
      /\ b[1] = Put(m["type"], 1)
      /\ b[2] = Put(m["locate"], 2)
      /\ b[3] = Put(m["tracking"], 2)
      /\ b[4] = Put(m["timestamp"], 6)
      /\ b[5] = Put(m["order_ref"], 8)
      /\ b[6] = Put(m["shares"], 4)
      /\ b[7] = Put(m["match"], 8)
  <2> HIDE DEF b
  <2> QED
    BY <1>4 DEF MakeOrderExecuted, PutHeader
<1> HIDE DEF l, b
<1>6. \A k \in 1..7 : k = 1 \/ k = 2 \/ k = 3 \/ k = 4 \/ k = 5 \/ k = 6 \/ k = 7
  OBVIOUS
<1>7. \A k \in 1..7 : b[k] = Put(m[l[k].name], l[k].width)
  BY <1>3, <1>5, <1>6 DEF M
<1>8. \A k \in 1..7 : l[k].width \in Nat \ {0} /\ l[k].name # "reserved"
  BY <1>3, <1>6 DEF M
<1>9. \A k \in 1..7, j \in 1..7 : l[j].name = l[k].name => j = k
  BY <1>3, <1>6 DEF M
<1>10. Fits(b, l, m)
  BY <1>3, <1>5, <1>7, <1>8, <1>9 DEF Fits
<1>11. {l[k].name : k \in 1..Len(l)} =
        {"type", "locate", "tracking",
         "timestamp", "order_ref", "shares", "match"}
  BY <1>3, <1>6 DEF M
<1> QED
  BY <1>10, <1>11 DEF Shown, l, b

LEMMA OrderDeleteFits ==
  ASSUME NEW m, m.type = "D"
  PROVE  /\ Fits(Make(m), Layout(m.type), m)
         /\ Shown(m.type) =
            {"type", "locate", "tracking", "timestamp", "order_ref"}
<1> DEFINE l == Layout(m.type)
           b == Make(m)
<1>1. OrderLayouts["D"] = <<M("order_ref", 8)>>
  BY DEF OrderLayouts
<1>2. l = HeaderLayout \o <<M("order_ref", 8)>>
  BY <1>1, LayoutDomains DEF Layout
<1>3. /\ Len(l) = 5
      /\ l[1] = M("type", 1)
      /\ l[2] = M("locate", 2)
      /\ l[3] = M("tracking", 2)
      /\ l[4] = M("timestamp", 6)
      /\ l[5] = M("order_ref", 8)
  <2> HIDE DEF l
  <2> QED
    BY <1>2 DEF HeaderLayout
<1>4. b = MakeOrderDelete(m)
  BY DEF Make
<1>5. /\ Len(b) = 5
      /\ b[1] = Put(m["type"], 1)
      /\ b[2] = Put(m["locate"], 2)
      /\ b[3] = Put(m["tracking"], 2)
      /\ b[4] = Put(m["timestamp"], 6)
      /\ b[5] = Put(m["order_ref"], 8)
  <2> HIDE DEF b
  <2> QED
    BY <1>4 DEF MakeOrderDelete, PutHeader
<1> HIDE DEF l, b
<1>6. \A k \in 1..5 : k = 1 \/ k = 2 \/ k = 3 \/ k = 4 \/ k = 5
  OBVIOUS
<1>7. \A k \in 1..5 : b[k] = Put(m[l[k].name], l[k].width)
  BY <1>3, <1>5, <1>6 DEF M
<1>8. \A k \in 1..5 : l[k].width \in Nat \ {0} /\ l[k].name # "reserved"
  BY <1>3, <1>6 DEF M
<1>9. \A k \in 1..5, j \in 1..5 : l[j].name = l[k].name => j = k
  BY <1>3, <1>6 DEF M
<1>10. Fits(b, l, m)
  BY <1>3, <1>5, <1>7, <1>8, <1>9 DEF Fits
<1>11. {l[k].name : k \in 1..Len(l)} =
        {"type", "locate", "tracking", "timestamp", "order_ref"}
  BY <1>3, <1>6 DEF M
<1> QED
  BY <1>10, <1>11 DEF Shown, l, b

LEMMA TradeFits ==
  ASSUME NEW m, m.type = "P"
  PROVE  /\ Fits(Make(m), Layout(m.type), m)
         /\ Shown(m.type) =
            {"type", "locate", "tracking", "timestamp", "order_ref",
             "side", "shares", "stock", "price", "match"}
<1> DEFINE l == Layout(m.type)
           b == Make(m)
<1>1. OrderLayouts["P"]
        = <<M("order_ref", 8), M("side", 1), M("shares", 4), M("stock", 8), M("price", 4)>>
            \o <<M("match", 8)>>
  BY DEF OrderLayouts
<1>2. l = HeaderLayout \o (<<M("order_ref", 8), M("side", 1), M("shares", 4), M("stock", 8), M("price", 4)>>
                        \o <<M("match", 8)>>)
  BY <1>1, LayoutDomains DEF Layout
<1>3. /\ Len(l) = 10
      /\ l[1] = M("type", 1)
      /\ l[2] = M("locate", 2)
      /\ l[3] = M("tracking", 2)
      /\ l[4] = M("timestamp", 6)
      /\ l[5] = M("order_ref", 8)
      /\ l[6] = M("side", 1)
      /\ l[7] = M("shares", 4)
      /\ l[8] = M("stock", 8)
      /\ l[9] = M("price", 4)
      /\ l[10] = M("match", 8)
  <2> HIDE DEF l
  <2> QED
    BY <1>2 DEF HeaderLayout
<1>4. b = MakeTrade(m)
  BY DEF Make
<1>5. /\ Len(b) = 10
      /\ b[1] = Put(m["type"], 1)
      /\ b[2] = Put(m["locate"], 2)
      /\ b[3] = Put(m["tracking"], 2)
      /\ b[4] = Put(m["timestamp"], 6)
      /\ b[5] = Put(m["order_ref"], 8)
      /\ b[6] = Put(m["side"], 1)
      /\ b[7] = Put(m["shares"], 4)
      /\ b[8] = Put(m["stock"], 8)
      /\ b[9] = Put(m["price"], 4)
      /\ b[10] = Put(m["match"], 8)
  <2> HIDE DEF b
  <2> QED
    BY <1>4 DEF MakeTrade, PutHeader
<1> HIDE DEF l, b
<1>6. \A k \in 1..10 : k = 1 \/ k = 2 \/ k = 3 \/ k = 4 \/ k = 5 \/ k = 6 \/ k = 7 \/ k = 8 \/ k = 9 \/ k = 10
  OBVIOUS
<1>7. \A k \in 1..10 : b[k] = Put(m[l[k].name], l[k].width)
  BY <1>3, <1>5, <1>6 DEF M
<1>8. \A k \in 1..10 : l[k].width \in Nat \ {0} /\ l[k].name # "reserved"
  BY <1>3, <1>6 DEF M
<1>9. \A k \in 1..10, j \in 1..10 : l[j].name = l[k].name => j = k
  BY <1>3, <1>6 DEF M
<1>10. Fits(b, l, m)
  BY <1>3, <1>5, <1>7, <1>8, <1>9 DEF Fits
<1>11. {l[k].name : k \in 1..Len(l)} =
        {"type", "locate", "tracking", "timestamp", "order_ref",
         "side", "shares", "stock", "price", "match"}
  BY <1>3, <1>6 DEF M
<1> QED
  BY <1>10, <1>11 DEF Shown, l, b

LEMMA MadeFits ==
  ASSUME NEW m, m.type \in MadeTypes
  PROVE  Fits(Make(m), Layout(m.type), m)
  BY SystemEventFits, AddOrderFits, OrderExecutedFits, OrderDeleteFits, TradeFits DEF MadeTypes

LEMMA FittingFields ==
  ASSUME NEW b, NEW l, NEW m, Fits(b, l, m)
  PROVE  /\ Len(l) \in Nat /\ Len(l) > 0 /\ Len(b) = Len(l) /\ Widths(l) /\ Widths(b)
         /\ \A k \in 1..Len(l) : /\ l[k].width \in Nat \ {0} /\ b[k].width = l[k].width
                                /\ b[k].value = m[l[k].name]
<1>1. Len(l) \in 5..10 /\ Len(b) = Len(l)
  BY DEF Fits
<1>2. Len(l) \in Nat /\ Len(l) > 0
  BY <1>1
<1>3. \A k \in 1..Len(l) : l[k].width \in Nat \ {0} /\ b[k] = Put(m[l[k].name], l[k].width)
  BY Zenon DEF Fits
<1>4. \A k \in 1..Len(l) : b[k].width = l[k].width /\ b[k].value = m[l[k].name]
  <2> SUFFICES ASSUME NEW k \in 1..Len(l)
               PROVE  b[k].width = l[k].width /\ b[k].value = m[l[k].name]
    OBVIOUS
  <2>1. b[k] = Put(m[l[k].name], l[k].width)
    BY <1>3
  <2> QED
    BY <2>1 DEF Put
<1> QED
  BY <1>1, <1>2, <1>3, <1>4 DEF Widths

LEMMA EndsBehindHeader ==
  ASSUME NEW s, NEW l, Widths(s), Widths(l), 4 + Len(l) <= Len(s),
         \A k \in 1..Len(l) : s[4 + k].width = l[k].width
  PROVE  \A k \in 0..Len(l) : Ends(s)[4 + k] = Ends(s)[4] + Ends(l)[k]
<1> DEFINE h == 4
<1>1. h \in Nat /\ h + Len(l) <= Len(s) /\ \A k \in 1..Len(l) : s[h + k].width = l[k].width
  OBVIOUS
<1> HIDE DEF h
<1>2. \A k \in 0..Len(l) : Ends(s)[h + k] = Ends(s)[h] + Ends(l)[k]
  BY <1>1, EndsBehind
<1> QED
  BY <1>2 DEF h

LEMMA SameExtent ==
  ASSUME NEW s, NEW l, Widths(s), Widths(l), Len(s) = Len(l),
         \A k \in 1..Len(l) : s[k].width = l[k].width
  PROVE  Extent(s) = Extent(l)
<1> DEFINE h == 0
           n == Len(l)
<1>1. n \in Nat
  BY DEF Widths
<1>2. h \in Nat /\ h + Len(l) <= Len(s) /\ \A k \in 1..Len(l) : s[h + k].width = l[k].width
  BY <1>1
<1> HIDE DEF h
<1>3. \A k \in 0..Len(l) : Ends(s)[h + k] = Ends(s)[h] + Ends(l)[k]
  BY <1>2, EndsBehind
<1>4. n \in 0..n /\ h + n = n
  BY <1>1 DEF h
<1>5. Ends(s)[n] = Ends(s)[h] + Ends(l)[n]
  BY <1>3, <1>4
<1>6. Ends(s)[h] = 0 /\ Ends(l)[n] \in Nat
  BY <1>4, EndsAddUp DEF h
<1> QED
  BY <1>5, <1>6 DEF Extent

\* The fields of a packet's payload: four of 22 bytes in all, and those of a message.
Framed(s, b, y, z, w) ==
  /\ Len(s) = 4 + Len(b) /\ \A k \in 1..Len(b) : s[4 + k] = b[k]
  /\ s[1].width = 10 /\ s[2] = Put(y, 8) /\ s[3] = Put(z, 2) /\ s[4] = Put(w, 2)

\* The members of a message are found behind them.
MembersRead(s, l, m) ==
  \A k \in 1..Len(l) : ReadAt(s, 22 + Ends(l)[k - 1], l[k].width) = m[l[k].name]

\* A message behind four fields of 22 bytes in all: its size, and what is read there.
LEMMA BytesBehindHeader ==
  ASSUME NEW s, NEW b, NEW l, NEW m, Fits(b, l, m), NEW y, NEW z, NEW w,
         Framed(s, b, y, z, w)
  PROVE  /\ Widths(s) /\ Widths(b) /\ Widths(l) /\ Extent(b) = Extent(l)
         /\ Extent(s) = 22 + Extent(l)
         /\ ReadAt(s, 10, 8) = y /\ ReadAt(s, 18, 2) = z /\ ReadAt(s, 20, 2) = w
         /\ MembersRead(s, l, m)
<1> DEFINE n == Len(l)
<1>1. n \in Nat /\ n > 0 /\ Len(b) = n
  BY FittingFields
<1>2. Len(s) = 4 + n /\ \A k \in 1..n : s[4 + k] = b[k]
  BY <1>1 DEF Framed
<1>3. \A k \in 1..n : l[k].width \in Nat \ {0} /\ b[k].width = l[k].width /\ b[k].value = m[l[k].name]
  BY FittingFields
<1>4. Widths(l) /\ Widths(b)
  BY FittingFields
<1>5. \A k \in 1..Len(s) : k \in 1..4 \/ (k - 4 \in 1..n /\ s[k] = b[k - 4])
  <2>1. ASSUME NEW k \in 1..Len(s), k \notin 1..4 PROVE k - 4 \in 1..n /\ 4 + (k - 4) = k
    BY <1>1, <1>2, <2>1
  <2> QED
    BY <1>2, <2>1
<1>6. \A k \in 1..4 : s[k].width \in Nat \ {0}
  <2>1. s[1].width = 10 /\ s[2].width = 8 /\ s[3].width = 2 /\ s[4].width = 2
    BY DEF Framed, Put
  <2> QED
    BY <2>1
<1>7. Widths(s)
  <2> SUFFICES ASSUME NEW k \in 1..Len(s) PROVE s[k].width \in Nat \ {0}
    BY <1>1, <1>2 DEF Widths
  <2>1. CASE k \in 1..4
    BY <1>6, <2>1
  <2>2. CASE k - 4 \in 1..n /\ s[k] = b[k - 4]
    BY <1>3, <2>2
  <2> QED
    BY <1>5, <2>1, <2>2
<1>8. /\ Ends(s)[0] = 0 /\ Ends(s)[1] = 10 /\ Ends(s)[2] = 18
      /\ Ends(s)[3] = 20 /\ Ends(s)[4] = 22
  <2>1. \A k \in 1..Len(s) : Ends(s)[k] = Ends(s)[k - 1] + s[k].width
    BY <1>7, EndsAddUp
  <2>2. Ends(s)[0] = 0
    BY <1>7, EndsAddUp
  <2>3. 1 \in 1..Len(s) /\ 2 \in 1..Len(s) /\ 3 \in 1..Len(s) /\ 4 \in 1..Len(s)
    BY <1>1, <1>2
  <2>4. /\ Ends(s)[1] = Ends(s)[0] + 10 /\ Ends(s)[2] = Ends(s)[1] + 8
        /\ Ends(s)[3] = Ends(s)[2] + 2 /\ Ends(s)[4] = Ends(s)[3] + 2
    <3>1. s[1].width = 10 /\ s[2].width = 8 /\ s[3].width = 2 /\ s[4].width = 2
      BY DEF Framed, Put
    <3> QED
      BY <2>1, <2>3, <3>1
  <2> QED
    BY <2>2, <2>4
<1>9. \A k \in 0..n : Ends(s)[4 + k] = 22 + Ends(l)[k]
  <2>1. \A k \in 0..n : Ends(s)[4 + k] = Ends(s)[4] + Ends(l)[k]
    <3>1. 4 + Len(l) <= Len(s)
      BY <1>1, <1>2
    <3>2. \A k \in 1..Len(l) : s[4 + k].width = l[k].width
      BY <1>1, <1>2, <1>3
    <3> QED
      BY <1>4, <1>7, <3>1, <3>2, EndsBehindHeader
  <2> QED
    BY <1>8, <2>1
<1>10. Extent(s) = 22 + Extent(l)
  <2>1. n \in 0..n
    BY <1>1
  <2>2. Ends(s)[4 + n] = 22 + Ends(l)[n]
    BY <1>9, <2>1
  <2> QED
    BY <1>2, <2>2 DEF Extent
<1>11. Extent(b) = Extent(l)
  BY <1>1, <1>3, <1>4, SameExtent
<1>12. ASSUME NEW k \in 1..n
       PROVE  ReadAt(s, 22 + Ends(l)[k - 1], l[k].width) = m[l[k].name]
  <2>1. 4 + k \in 1..Len(s) /\ (4 + k) - 1 = 4 + (k - 1) /\ k - 1 \in 0..n
    BY <1>1, <1>2
  <2>2. ReadAt(s, Ends(s)[(4 + k) - 1], s[4 + k].width) = s[4 + k].value
    BY <1>7, <2>1, FieldIsRead
  <2> QED
    BY <1>2, <1>3, <1>9, <2>1, <2>2
<1>13. ReadAt(s, 10, 8) = y /\ ReadAt(s, 18, 2) = z /\ ReadAt(s, 20, 2) = w
  <2>1. 2 \in 1..Len(s) /\ 3 \in 1..Len(s) /\ 4 \in 1..Len(s)
    BY <1>1, <1>2
  <2>2. /\ ReadAt(s, Ends(s)[2 - 1], s[2].width) = s[2].value
        /\ ReadAt(s, Ends(s)[3 - 1], s[3].width) = s[3].value
        /\ ReadAt(s, Ends(s)[4 - 1], s[4].width) = s[4].value
    BY <1>7, <2>1, FieldIsRead
  <2>3. /\ s[2].width = 8 /\ s[2].value = y /\ s[3].width = 2 /\ s[3].value = z
        /\ s[4].width = 2 /\ s[4].value = w /\ 2 - 1 = 1 /\ 3 - 1 = 2 /\ 4 - 1 = 3
    BY DEF Framed, Put
  <2> QED
    BY <1>8, <2>2, <2>3
<1>14. MembersRead(s, l, m)
  BY <1>12 DEF MembersRead
<1> QED
  BY <1>4, <1>7, <1>10, <1>11, <1>13, <1>14

\* The printer finds a message as it was meant: under each name the value put there.
LEMMA MessageIsRead ==
  ASSUME NEW m, IsMessage(m), NEW s,
         Fits(Make(m), Layout(m.type), m),
         MembersRead(s, Layout(m.type), m)
  PROVE  ReadAt(s, 22, 1) = m.type /\ Decode(m.type, s, 22) = m
<1> DEFINE l == Layout(m.type)
           Place(name) == CHOOSE k \in 1..Len(l) : l[k].name = name
<1>1. /\ Len(l) \in Nat /\ 1 \in 1..Len(l) /\ l[1] = M("type", 1)
      /\ \A k \in 1..Len(l), j \in 1..Len(l) : l[j].name = l[k].name => j = k
  <2>1. Len(l) \in Nat /\ Len(l) > 0
    BY FittingFields
  <2>2. /\ l[1] = M("type", 1)
        /\ \A k \in 1..Len(l), j \in 1..Len(l) : l[j].name = l[k].name => j = k
    BY Zenon DEF Fits
  <2> QED
    BY <2>1, <2>2
<1>2. \A k \in 1..Len(l) : ReadAt(s, 22 + Ends(l)[k - 1], l[k].width) = m[l[k].name]
  BY DEF MembersRead
<1>3. ReadAt(s, 22, 1) = m.type
  <2>1. Ends(l)[0] = 0 /\ 1 - 1 = 0
    <3>1. Widths(l)
      BY FittingFields
    <3> QED
      BY <3>1, EndsAddUp
  <2>2. l[1].name = "type" /\ l[1].width = 1
    BY <1>1 DEF M
  <2> QED
    BY <1>1, <1>2, <2>1, <2>2
<1>4. ASSUME NEW name \in Shown(m.type)
      PROVE  ReadAt(s, 22 + Ends(l)[Place(name) - 1], l[Place(name)].width) = m[name]
  <2>1. PICK k \in 1..Len(l) : l[k].name = name
    BY DEF Shown
  <2>2. Place(name) = k
    BY <1>1, <2>1
  <2> QED
    BY <1>2, <2>1, <2>2
<1>5. Decode(m.type, s, 22)
        = [name \in Shown(m.type) |-> ReadAt(s, 22 + Ends(l)[Place(name) - 1], l[Place(name)].width)]
  BY Zenon DEF Decode
<1> HIDE DEF Place, l
<1>6. Decode(m.type, s, 22) = [name \in Shown(m.type) |-> m[name]]
  BY <1>4, <1>5
<1> QED
  BY <1>3, <1>6 DEF IsMessage

\* make_itch_message makes a message of one of these types.
LEMMA GenMessage ==
  ASSUME NEW i \in Nat, NEW roll \in Nat, NEW draw
  PROVE  IsMessage(ItchMessage(i, roll, draw))
<1> DEFINE m == ItchMessage(i, roll, draw)
           mod == roll % 10
<1>1. mod \in 0..9
  OBVIOUS
<1>2. CASE i = 0
  <2>1. m = [type |-> "S", locate |-> 1 + (i % 1024), tracking |-> i % 2^16, timestamp |-> i,
             event_code |-> "O"]
    BY <1>2, SMT DEF ItchMessage
  <2> HIDE DEF m
  <2>2. m.type = "S"
    BY <2>1
  <2>3. Shown(m.type) = {"type", "locate", "tracking", "timestamp", "event_code"}
    BY <2>2, SystemEventFits
  <2>4. m = [name \in Shown(m.type) |-> m[name]]
    BY <2>1, <2>3
  <2> QED
    BY <2>2, <2>4 DEF IsMessage, MadeTypes, m
<1>3. CASE i > 0 /\ mod < 7
  <2>1. m = [type |-> "A", locate |-> 1 + (i % 1024), tracking |-> i % 2^16, timestamp |-> i,
             order_ref |-> 1000000 + i, side |-> IF draw % 2 = 0 THEN "B" ELSE "S",
             shares |-> 100 + (draw % 50) * 100, stock |-> "symbol",
             price |-> 100000 + (draw % 50000)]
    BY <1>3, SMT DEF ItchMessage
  <2> HIDE DEF m
  <2>2. m.type = "A"
    BY <2>1
  <2>3. Shown(m.type) = {"type", "locate", "tracking", "timestamp",
                         "order_ref", "side", "shares", "stock", "price"}
    BY <2>2, AddOrderFits
  <2>4. m = [name \in Shown(m.type) |-> m[name]]
    BY <2>1, <2>3
  <2> QED
    BY <2>2, <2>4 DEF IsMessage, MadeTypes, m
<1>4. CASE i > 0 /\ mod \in 7..8
  <2>1. m = [type |-> "E", locate |-> 1 + (i % 1024), tracking |-> i % 2^16, timestamp |-> i,
             order_ref |-> 1000000 + (draw % i), shares |-> 100 + (draw % 20) * 100,
             match |-> 9000000 + i]
    BY <1>4, SMT DEF ItchMessage
  <2> HIDE DEF m
  <2>2. m.type = "E"
    BY <2>1
  <2>3. Shown(m.type) = {"type", "locate", "tracking", "timestamp", "order_ref", "shares", "match"}
    BY <2>2, OrderExecutedFits
  <2>4. m = [name \in Shown(m.type) |-> m[name]]
    BY <2>1, <2>3
  <2> QED
    BY <2>2, <2>4 DEF IsMessage, MadeTypes, m
<1>5. CASE i > 0 /\ mod = 9
  <2>1. m = [type |-> "D", locate |-> 1 + (i % 1024), tracking |-> i % 2^16, timestamp |-> i,
             order_ref |-> 1000000 + (draw % i)]
    BY <1>5, SMT DEF ItchMessage
  <2> HIDE DEF m
  <2>2. m.type = "D"
    BY <2>1
  <2>3. Shown(m.type) = {"type", "locate", "tracking", "timestamp", "order_ref"}
    BY <2>2, OrderDeleteFits
  <2>4. m = [name \in Shown(m.type) |-> m[name]]
    BY <2>1, <2>3
  <2> QED
    BY <2>2, <2>4 DEF IsMessage, MadeTypes, m
<1> QED
  BY <1>1, <1>2, <1>3, <1>4, <1>5

\* The sizes that parse_message asks for are those of the messages that are made.
LEMMA MadeSize ==
  ASSUME NEW m, IsMessage(m)
  PROVE  /\ m.type \in MessageTypes
         /\ Extent(Make(m)) = MessageSize(m.type) /\ Extent(Layout(m.type)) = MessageSize(m.type)
         /\ MessageSize(m.type) \in 11..50
<1>1. m.type \in MadeTypes /\ m.type \in MessageTypes
  BY LayoutDomains DEF IsMessage, MadeTypes, MessageTypes
<1>2. Extent(Layout(m.type)) = MessageSize(m.type)
  BY <1>1, StructSizes
<1>3. Extent(Make(m)) = Extent(Layout(m.type))
  <2>1. Fits(Make(m), Layout(m.type), m)
    BY <1>1, MadeFits
  <2> QED
    BY <2>1, FittingFields, SameExtent
<1>4. MessageSize(m.type) \in 11..50
  BY <1>1 DEF MadeTypes, MessageSize, Sizes
<1> QED
  BY <1>1, <1>2, <1>3, <1>4

\* What the printer finds in the payload of a packet that was made.
LEMMA EncodedIsRead ==
  ASSUME NEW i \in Nat, NEW m, IsMessage(m)
  PROVE  LET s == Encoded(i, m)
         IN  /\ ReadAt(s, 10, 8) = i + 1 /\ ReadAt(s, 18, 2) = 1
             /\ ReadAt(s, 20, 2) = MessageSize(m.type)
             /\ ReadAt(s, 22, 1) = m.type /\ Decode(m.type, s, 22) = m
             /\ Extent(s) = 22 + MessageSize(m.type)
<1> DEFINE b == Make(m)
           l == Layout(m.type)
           w == Extent(b)
           s == Encoded(i, m)
<1>1. w = MessageSize(m.type) /\ Extent(l) = MessageSize(m.type) /\ m.type \in MadeTypes
  BY MadeSize DEF IsMessage
<1>2. Fits(b, l, m)
  BY <1>1, MadeFits
<1>3. Framed(s, b, i + 1, 1, w)
  <2>1. s = <<Put("REALPERF01", 10), Put(i + 1, 8), Put(1, 2), Put(w, 2)>> \o b
    BY DEF Encoded
  <2>2. Len(b) \in Nat
    BY <1>2, FittingFields
  <2> HIDE DEF b, s, w
  <2>3. /\ Len(s) = 4 + Len(b) /\ \A k \in 1..Len(b) : s[4 + k] = b[k]
        /\ s[1] = Put("REALPERF01", 10) /\ s[2] = Put(i + 1, 8) /\ s[3] = Put(1, 2)
        /\ s[4] = Put(w, 2)
    BY <2>1, <2>2
  <2>4. s[1].width = 10
    BY <2>3 DEF Put
  <2> QED
    BY <2>3, <2>4 DEF Framed
<1> DEFINE y == i + 1
           z == 1
<1>4. Framed(s, b, y, z, w)
  BY <1>3
<1> HIDE DEF s, w, b, l, y, z
<1>5. /\ Extent(s) = 22 + Extent(l)
      /\ ReadAt(s, 10, 8) = y /\ ReadAt(s, 18, 2) = z /\ ReadAt(s, 20, 2) = w
      /\ MembersRead(s, l, m)
  BY <1>2, <1>4, BytesBehindHeader
<1>6. ReadAt(s, 22, 1) = m.type /\ Decode(m.type, s, 22) = m
  BY <1>2, <1>5, MessageIsRead DEF b, l
<1> QED
  BY <1>1, <1>5, <1>6 DEF s, y, z

-----------------------------------------------------------------------------
(***************************************************************************)
(* What the generator means is what the printer shows.                     *)
(***************************************************************************)
\* Every packet of the generator in the capture is the packet of its place.
PacketsMade ==
  \A k \in 1..Len(capture.packets) :
    capture.packets[k].content = "itch5" => MadePacket(capture.packets[k], k - 1)

\* The places of gen before the file is open and those after it, those at which the message of the packet
\* is there, and those at which it is known to fit.
BeforeFile == {"src_ip", "src_ip:end", "dst_ip", "dst_ip:end", "open"}

WithFile ==
  {"global_header", "global_header:end", "loop", "packet_loop", "make_packet", "make_payload",
   "payload", "message:end", "payload:end", "ip_header", "checksum", "internet_checksum",
   "internet_checksum:end", "copy_payload", "make_packet:end", "write", "write:end",
   "packet_loop:end"}

WithFitting ==
  {"ip_header", "checksum", "internet_checksum", "internet_checksum:end", "copy_payload",
   "make_packet:end", "write", "write:end"}

WithMessage == {"message:end", "payload:end"} \cup WithFitting

\* While the stream is good the file has as many packets as gen has written.
CaptureInv ==
  /\ PacketsMade
  /\ tool = "gen" =>
       /\ options.mode \in {"raw", "itch5"}
       /\ pc \in BeforeFile => index = 0
       /\ pc \in WithFile /\ (capture.good \/ pc \in {"global_header", "global_header:end"}) =>
            Len(capture.packets) = IF pc = "packet_loop:end" THEN index + 1 ELSE index
       /\ pc \in WithMessage /\ options.mode = "itch5" => IsMessage(message)
       /\ pc \in WithFitting /\ options.mode = "itch5" =>
            Headers + Extent(Encoded(index, message)) <= options.size

\* A packet behind the others is the only one that can be wrong.
LEMMA AppendedPacket ==
  ASSUME NEW c, WellFormedCapture(c), NEW p, NEW d, d = [c EXCEPT !.packets = Append(@, p)],
         \A k \in 1..Len(c.packets) : c.packets[k].content = "itch5" => MadePacket(c.packets[k], k - 1),
         p.content = "itch5" => MadePacket(p, Len(c.packets))
  PROVE  /\ Len(d.packets) = Len(c.packets) + 1
         /\ \A k \in 1..Len(d.packets) : d.packets[k].content = "itch5" => MadePacket(d.packets[k], k - 1)
<1> DEFINE n == Len(c.packets)
           s == c.packets
           S == {s[i] : i \in 1..n}
<1>1. n \in Nat /\ s = [i \in 1..n |-> s[i]]
  BY DEF WellFormedCapture
<1>2. s \in Seq(S)
  <2>1. s \in [1..n -> S]
    BY <1>1
  <2> QED
    BY <1>1, <2>1
<1>3. s \in Seq(S \cup {p})
  BY <1>1, <1>2
<1>4. d.packets = Append(s, p)
  BY DEF WellFormedCapture
<1> HIDE DEF s, n
<1>5. /\ Len(d.packets) = n + 1 /\ d.packets[n + 1] = p
      /\ \A i \in 1..n : d.packets[i] = s[i]
  BY <1>1, <1>3, <1>4 DEF n
<1>6. ASSUME NEW k \in 1..(n + 1), d.packets[k].content = "itch5" PROVE MadePacket(d.packets[k], k - 1)
  <2>1. CASE k = n + 1
    <3>1. k - 1 = n
      BY <1>1, <2>1
    <3> QED
      BY <1>5, <1>6, <2>1, <3>1 DEF n
  <2>2. CASE k \in 1..n
    BY <1>5, <1>6, <2>2 DEF n, s
  <2>3. k = n + 1 \/ k \in 1..n
    BY <1>1
  <2> QED
    BY <2>1, <2>2, <2>3
<1> QED
  BY <1>5, <1>6 DEF n

LEMMA GenStepOfTool ==
  ASSUME PcapItchGen
  PROVE  tool = "gen" /\ tool' = "gen" /\ options' = options
<1>1. CASE GenCalls
  BY <1>1 DEF GenCalls, GenLine, GenKeeps, At, Go
<1>2. CASE ParseIpv4Fails \/ OpenOutputFails \/ OpenOutput \/ WriteGlobalHeader
  BY <1>2 DEF ParseIpv4Fails, OpenOutputFails, OpenOutput, WriteGlobalHeader, GenLine, GenKeeps, At, Go
<1>3. CASE GenLoop \/ ChooseMessage \/ PayloadEnd
  BY <1>3 DEF GenLoop, ChooseMessage, PayloadEnd, Throw, GenKeeps, At, Go
<1>4. CASE WritePacket \/ NextPacket
  BY <1>4 DEF WritePacket, NextPacket, GenKeeps, At, Go
<1> QED
  BY <1>1, <1>2, <1>3, <1>4 DEF PcapItchGen

\* The steps of gen that leave the file, the packet and its message alone.
QuietStep ==
  /\ UNCHANGED <<capture, index, message>>
  /\ pc' \in BeforeFile => pc \in BeforeFile
  /\ pc' \in WithFile => pc \in WithFile \ {"packet_loop:end"} /\ pc' # "packet_loop:end"
  /\ pc' \in {"global_header", "global_header:end"} => pc \in {"global_header", "global_header:end"}
  /\ pc' \in WithMessage => pc \in WithMessage
  /\ pc' \in WithFitting => pc \in WithFitting

LEMMA QuietSteps ==
  ASSUME GenCalls \/ ParseIpv4Fails \/ OpenOutputFails \/ GenLoop
  PROVE  QuietStep
<1> USE DEF BeforeFile, WithFile, WithMessage, WithFitting, QuietStep
<1>1. CASE GenCalls
  BY <1>1 DEF GenCalls, GenLine, At, Go
<1>2. CASE ParseIpv4Fails \/ OpenOutputFails \/ GenLoop
  BY <1>2 DEF ParseIpv4Fails, OpenOutputFails, GenLoop, GenLine, At, Go
<1> QED
  BY <1>1, <1>2

LEMMA GenKeepsCapture ==
  ASSUME ReadsInv, CaptureInv, PcapItchGen
  PROVE  CaptureInv'
<1>1. /\ tool = "gen" /\ tool' = "gen" /\ options' = options /\ options.mode \in {"raw", "itch5"}
      /\ index \in Nat /\ options.size \in Nat
  BY GenStepOfTool DEF CaptureInv, ReadsInv
<1>2. CASE QuietStep
  <2>1. PacketsMade'
    BY <1>2 DEF QuietStep, CaptureInv, PacketsMade
  <2> QED
    BY <1>1, <1>2, <2>1 DEF QuietStep, CaptureInv
<1>3. CASE OpenOutput
  <2>1. /\ capture' = [header |-> FALSE, packets |-> <<>>, torn |-> FALSE, good |-> TRUE]
        /\ pc' = "global_header" /\ index' = index /\ index = 0
    BY <1>1, <1>3 DEF OpenOutput, At, Go, CaptureInv, BeforeFile
  <2>2. Len(capture'.packets) = 0
    BY <2>1
  <2>3. PacketsMade'
    BY <2>2 DEF PacketsMade
  <2> QED
    BY <1>1, <2>1, <2>2, <2>3 DEF CaptureInv, BeforeFile, WithMessage, WithFitting
<1>4. CASE WriteGlobalHeader
  <2>1. PICK whole \in BOOLEAN : capture' = [capture EXCEPT !.header = whole, !.good = whole]
    BY <1>4 DEF WriteGlobalHeader
  <2>2. capture'.packets = capture.packets /\ (capture'.good => whole)
    BY <2>1 DEF ReadsInv, WellFormedCapture
  <2>3. pc = "global_header:end" /\ pc' = "loop" /\ index' = index
    BY <1>4 DEF WriteGlobalHeader, At, Go
  <2>4. PacketsMade'
    BY <2>1, <2>2 DEF CaptureInv, PacketsMade
  <2>5. Len(capture.packets) = index
    BY <1>1, <2>3 DEF CaptureInv, WithFile
  <2> QED
    BY <1>1, <2>2, <2>3, <2>4, <2>5 DEF CaptureInv, BeforeFile, WithMessage, WithFitting
<1>5. CASE ChooseMessage
  <2>1. pc = "payload" /\ index' = index /\ capture' = capture
    BY <1>5 DEF ChooseMessage, At
  <2>2. PacketsMade'
    BY <2>1 DEF CaptureInv, PacketsMade
  <2>3. CASE options.mode = "raw"
    <3>1. pc' = "payload:end"
      BY <1>5, <2>3 DEF ChooseMessage, Go
    <3> QED
      BY <1>1, <2>1, <2>2, <2>3, <3>1 DEF CaptureInv, BeforeFile, WithFile, WithFitting
  <2>4. CASE options.mode # "raw"
    <3>1. pc' = "message:end" /\ \E roll, draw \in Draws : message' = ItchMessage(index, roll, draw)
      BY <1>5, <2>4 DEF ChooseMessage, Go
    <3>2. IsMessage(message')
      <4>1. PICK roll \in Draws : \E draw \in Draws : message' = ItchMessage(index, roll, draw)
        BY <3>1
      <4>2. PICK draw \in Draws : message' = ItchMessage(index, roll, draw)
        BY <4>1
      <4>3. roll \in Nat
        BY ReadsAssumption
      <4> QED
        BY <1>1, <4>2, <4>3, GenMessage
    <3> QED
      BY <1>1, <2>1, <2>2, <3>1, <3>2 DEF CaptureInv, BeforeFile, WithFile, WithFitting
  <2> QED
    BY <2>3, <2>4
<1>6. CASE PayloadEnd
  <2>1. pc = "payload:end" /\ UNCHANGED <<index, capture, message>>
    BY <1>6 DEF PayloadEnd, At
  <2>2. PacketsMade'
    BY <2>1 DEF CaptureInv, PacketsMade
  <2>3. CASE pc' = "unwind"
    BY <1>1, <2>1, <2>2, <2>3 DEF CaptureInv, BeforeFile, WithFile, WithMessage, WithFitting
  <2>4. CASE /\ pc' = "ip_header"
             /\ ~(options.mode = "itch5" /\ Extent(Encoded(index, message)) > options.size - Headers)
    <3>1. ASSUME options.mode = "itch5"
          PROVE  IsMessage(message) /\ Headers + Extent(Encoded(index, message)) <= options.size
      <4>1. IsMessage(message)
        BY <1>1, <2>1, <3>1 DEF CaptureInv, WithMessage
      <4>2. Extent(Encoded(index, message)) \in Nat
        <5>1. Extent(Encoded(index, message)) = 22 + MessageSize(message.type)
          BY <1>1, <4>1, EncodedIsRead
        <5>2. MessageSize(message.type) \in 11..50
          BY <4>1, MadeSize
        <5> QED
          BY <5>1, <5>2
      <4>3. ~(Extent(Encoded(index, message)) > options.size - Headers)
        BY <2>4, <3>1
      <4> QED
        BY <1>1, <4>1, <4>2, <4>3 DEF Headers
    <3> QED
      BY <1>1, <2>1, <2>2, <2>4, <3>1 DEF CaptureInv, BeforeFile, WithFile
  <2> QED
    BY <1>6, <2>3, <2>4 DEF PayloadEnd, Go, Throw
<1>7. CASE WritePacket
  <2>1. pc = "write:end" /\ pc' = "packet_loop:end" /\ index' = index /\ Write
    BY <1>7 DEF WritePacket, At, Go
  <2> SUFFICES PacketsMade' /\ (capture'.good => Len(capture'.packets) = index + 1)
    BY <1>1, <2>1 DEF CaptureInv, BeforeFile, WithMessage, WithFitting
  <2> DEFINE p == Packet(options.size, options.mode, index, message)
  <2>2. CASE capture.good /\ capture' = [capture EXCEPT !.packets = Append(@, p)]
    <3>1. Len(capture.packets) = index
      BY <1>1, <2>1, <2>2 DEF CaptureInv, WithFile
    <3>2. p.content = "itch5" => MadePacket(p, index)
      <4> SUFFICES ASSUME p.content = "itch5" PROVE MadePacket(p, index)
        OBVIOUS
      <4>1. options.mode = "itch5"
        BY DEF Packet
      <4>2. IsMessage(message) /\ Headers + Extent(Encoded(index, message)) <= options.size
        BY <1>1, <2>1, <4>1 DEF CaptureInv, WithMessage, WithFitting
      <4>3. p.size = options.size /\ p.meant = message /\ p.bytes = Encoded(index, message)
        BY <4>1 DEF Packet
      <4> QED
        BY <1>1, <4>1, <4>2, <4>3 DEF MadePacket
    <3> HIDE DEF p
    <3>3. /\ Len(capture'.packets) = Len(capture.packets) + 1
          /\ \A k \in 1..Len(capture'.packets) :
               capture'.packets[k].content = "itch5" => MadePacket(capture'.packets[k], k - 1)
      <4> DEFINE d == capture'
      <4>1. d = [capture EXCEPT !.packets = Append(@, p)]
        BY <2>2
      <4> HIDE DEF d
      <4>2. /\ Len(d.packets) = Len(capture.packets) + 1
            /\ \A k \in 1..Len(d.packets) : d.packets[k].content = "itch5" => MadePacket(d.packets[k], k - 1)
        BY <3>1, <3>2, <4>1, AppendedPacket DEF ReadsInv, CaptureInv, PacketsMade
      <4> QED
        BY <4>2 DEF d
    <3> QED
      BY <3>1, <3>3 DEF PacketsMade
  <2>3. CASE \E torn \in BOOLEAN : capture' = [capture EXCEPT !.good = FALSE, !.torn = torn]
    <3>1. capture'.packets = capture.packets /\ ~capture'.good
      BY <2>3 DEF ReadsInv, WellFormedCapture
    <3> QED
      BY <3>1 DEF CaptureInv, PacketsMade
  <2>4. CASE ~capture.good /\ UNCHANGED capture
    BY <2>4 DEF CaptureInv, PacketsMade
  <2> QED
    BY <2>1, <2>2, <2>3, <2>4 DEF Write
<1>8. CASE NextPacket
  <2>1. pc = "packet_loop:end" /\ pc' = "loop" /\ index' = index + 1 /\ capture' = capture
    BY <1>8 DEF NextPacket, At, Go
  <2> QED
    BY <1>1, <2>1 DEF CaptureInv, PacketsMade, BeforeFile, WithFile, WithMessage, WithFitting
<1> QED
  BY <1>2, <1>3, <1>4, <1>5, <1>6, <1>7, <1>8, QuietSteps DEF PcapItchGen

-----------------------------------------------------------------------------
\* Every packet of the capture is one of the generator and has an UDP length.
Readable ==
  \A k \in 1..Len(capture.packets) :
    capture.packets[k].content = "itch5" /\ capture.packets[k].size <= MaxSize

\* What is printed for packet i, and what of it before its message is parsed.
Line(p, i) == [sequence |-> {i}, messages |-> <<p.meant>>]

Opened(i) == [sequence |-> {i}, messages |-> <<>>]

\* What print has made of the packet it is at, at each place.
PacketBack ==
  CASE pc = "udp" -> view.base = 42 /\ view.udp = This.udp
    [] pc = "mold" -> view.base = 42 /\ view.size = This.size - 42
    [] pc = "messages" ->
         \/ /\ view.size = This.size - 42 /\ view.left = 1 /\ view.offset = 20
            /\ printed[index + 1] = Opened(index + 1)
         \/ view.left = 0 /\ printed[index + 1] = Line(This, index + 1)
    [] pc = "parse" ->
         /\ view.left = 1 /\ view.offset = 22 /\ view.length = MessageSize(This.meant.type)
         /\ printed[index + 1] = Opened(index + 1)
    [] pc = "message:end" -> view.left = 1 /\ printed[index + 1] = Line(This, index + 1)
    [] OTHER -> TRUE

LinesBack ==
  /\ Len(printed) = IF pc \in {"messages", "parse", "message:end"} THEN index + 1 ELSE index
  /\ \A i \in 1..index : printed[i] = Line(capture.packets[i], i)
  /\ pc \in {"unwind", "exit1"} => ~capture.header \/ (capture.torn /\ index = Len(capture.packets))
  /\ Reading => PacketBack

\* The inductive invariant behind PacketsReadBack.
BackInv ==
  tool = "print" =>
    /\ options.limit \in Nat /\ (options.limit = 0 \/ index <= options.limit)
    /\ Reading => ~AtLimit
    /\ pc \in {"print_pcap:end", "commit", "exit0"} =>
         AtLimit \/ (index = Len(capture.packets) /\ ~capture.torn)
    /\ Readable => LinesBack

\* What print reads of a packet that was made, and of what size it is.
ReadsAs(p, i) ==
  /\ p.content = "itch5" /\ p.size \in Nat /\ p.udp = p.size - 34
  /\ p.meant.type \in MessageTypes /\ MessageSize(p.meant.type) \in 11..50
  /\ 64 + MessageSize(p.meant.type) <= p.size
  /\ ReadAt(p.bytes, 10, 8) = i + 1 /\ ReadAt(p.bytes, 18, 2) = 1
  /\ ReadAt(p.bytes, 20, 2) = MessageSize(p.meant.type)
  /\ ReadAt(p.bytes, 22, 1) = p.meant.type /\ Decode(p.meant.type, p.bytes, 22) = p.meant

LEMMA MadePacketIsRead ==
  ASSUME NEW p, NEW i \in Nat, MadePacket(p, i), p.size <= MaxSize
  PROVE  ReadsAs(p, i)
<1> DEFINE m == p.meant
           n == MessageSize(m.type)
<1>1. p.size \in Nat /\ IsMessage(m) /\ p = Packet(p.size, "itch5", i, m)
        /\ Headers + Extent(p.bytes) <= p.size
  BY DEF MadePacket
<1>2. /\ p.content = "itch5" /\ p.bytes = Encoded(i, m)
      /\ p.udp = (8 + p.size - Headers) % 2^16
  <2> DEFINE q == Packet(p.size, "itch5", i, m)
  <2>1. /\ q.content = "itch5" /\ q.bytes = Encoded(i, m)
        /\ q.udp = (8 + p.size - Headers) % 2^16
    BY DEF Packet
  <2> QED
    BY <1>1, <2>1
<1>3. m.type \in MessageTypes /\ n \in 11..50
  BY <1>1, MadeSize
<1>4. /\ ReadAt(p.bytes, 10, 8) = i + 1 /\ ReadAt(p.bytes, 18, 2) = 1
      /\ ReadAt(p.bytes, 20, 2) = n
      /\ ReadAt(p.bytes, 22, 1) = m.type /\ Decode(m.type, p.bytes, 22) = m
      /\ Extent(p.bytes) = 22 + n
  BY <1>1, <1>2, EncodedIsRead
<1>5. 64 + n <= p.size
  BY <1>1, <1>3, <1>4 DEF Headers
<1>6. p.udp = p.size - 34
  <2> DEFINE x == p.size - 34
  <2>1. x \in Nat /\ x < 65536
    BY <1>1, <1>3, <1>5 DEF MaxSize, Headers
  <2>2. x % 65536 = x
    <3> HIDE DEF x
    <3> QED
      BY <2>1
  <2>3. 8 + p.size - Headers = x /\ 2^16 = 65536
    BY <1>1 DEF Headers
  <2> QED
    BY <1>2, <2>2, <2>3
<1> QED
  BY <1>1, <1>2, <1>3, <1>4, <1>5, <1>6 DEF ReadsAs

\* The context of every step of print.
Printing == BackInv /\ ReadsInv /\ PlacesInv /\ PacketsMade /\ tool = "print"

LEMMA ThisIsRead ==
  ASSUME Printing, Readable, Reading
  PROVE  ReadsAs(This, index) /\ view \in View /\ index \in Nat
<1>1. index \in Nat /\ index < Len(capture.packets) /\ view \in View
  BY DEF Printing, ReadsInv
<1>2. Len(capture.packets) \in Nat
  BY DEF Printing, ReadsInv, WellFormedCapture
<1>3. index + 1 \in 1..Len(capture.packets) /\ (index + 1) - 1 = index
  BY <1>1, <1>2
<1>4. This.content = "itch5" /\ This.size <= MaxSize
  BY <1>3 DEF Readable, This
<1>5. MadePacket(This, index)
  BY <1>3, <1>4 DEF Printing, PacketsMade, This
<1> QED
  BY <1>1, <1>4, <1>5, MadePacketIsRead

\* What every step of print leaves alone.
SameFile ==
  tool' = "print" /\ options' = options /\ capture' = capture

LEMMA PrintSteps ==
  ASSUME PcapItchPrint
  PROVE  tool = "print" /\ SameFile
<1>1. CASE PrintCalls
  BY <1>1 DEF PrintCalls, PrintLine, PrintKeeps, At, Go, SameFile
<1>2. CASE OpenInput \/ NextHeader
  BY <1>2 DEF OpenInput, NextHeader, PrintKeeps, At, Go, Throw, SameFile
<1>3. CASE ReadHeaders \/ ReadUdp
  BY <1>3 DEF ReadHeaders, ReadUdp, PrintKeeps, At, Go, Throw, SameFile
<1>4. CASE ReadMold \/ NextMessage
  BY <1>4 DEF ReadMold, NextMessage, PrintKeeps, At, Go, Throw, SameFile
<1>5. CASE PrintMessage
  BY <1>5 DEF PrintMessage, PrintKeeps, At, Go, Throw, SameFile
<1>6. CASE MessageEnd \/ PacketEnd
  BY <1>6 DEF MessageEnd, PacketEnd, PrintKeeps, At, Go, Throw, SameFile
<1> QED
  BY <1>1, <1>2, <1>3, <1>4, <1>5, <1>6 DEF PcapItchPrint

LEMMA SameReadable ==
  ASSUME capture' = capture
  PROVE  Readable' = Readable /\ (index' = index => This' = This)
  BY DEF Readable, This

\* Steps between packets, and the end of the run.
LEMMA BetweenBack ==
  ASSUME Printing, SameFile, index' = index, printed' = printed,
         pc \notin {"messages", "parse", "message:end"},
         pc' \notin {"udp", "mold", "messages", "parse", "message:end"},
         pc' = "headers" => ~AtLimit,
         pc' \in {"print_pcap:end", "commit", "exit0"} =>
           AtLimit \/ (index = Len(capture.packets) /\ ~capture.torn),
         Readable /\ pc' \in {"unwind", "exit1"} =>
           ~capture.header \/ (capture.torn /\ index = Len(capture.packets))
  PROVE  BackInv'
<1>1. AtLimit' = AtLimit
  BY DEF SameFile, AtLimit
<1>2. Readable' => LinesBack'
  <2> SUFFICES ASSUME Readable' PROVE LinesBack'
    OBVIOUS
  <2>1. Readable /\ LinesBack
    BY SameReadable DEF SameFile, Printing, BackInv
  <2> QED
    BY <2>1 DEF LinesBack, SameFile, PacketBack
<1> QED
  BY <1>1, <1>2 DEF BackInv, Printing, SameFile, Reading

\* Of a capture that is not all made by the generator nothing more is said.
LEMMA UnreadBack ==
  ASSUME Printing, SameFile, index' = index, ~Readable, Reading,
         pc' \notin {"print_pcap:end", "commit", "exit0"}
  PROVE  BackInv'
<1>1. AtLimit' = AtLimit
  BY DEF SameFile, AtLimit
<1>2. ~Readable'
  BY SameReadable DEF SameFile
<1> QED
  BY <1>1, <1>2 DEF BackInv, Printing, SameFile

LEMMA PrintCallsBack ==
  ASSUME Printing, PrintCalls
  PROVE  BackInv'
<1>1. SameFile /\ index' = index /\ printed' = printed
  BY PrintSteps DEF PrintCalls, PrintLine, PcapItchPrint
<1>2. AtLimit \/ (index = Len(capture.packets) /\ ~capture.torn) \/ pc' = "open"
  BY DEF Printing, BackInv, PrintCalls, PrintLine, At, Go
<1>3. pc \in {"print_pcap", "print_pcap:end", "commit"} /\ pc' \in {"open", "commit", "exit0"}
  BY DEF PrintCalls, PrintLine, At, Go
<1> QED
  BY <1>1, <1>2, <1>3, BetweenBack

LEMMA OpenInputBack ==
  ASSUME Printing, OpenInput
  PROVE  BackInv'
<1>1. SameFile /\ index' = index /\ printed' = printed
  BY PrintSteps DEF OpenInput, PcapItchPrint
<1>2. pc = "open" /\ (pc' = "packet" \/ (pc' = "unwind" /\ ~capture.header))
  BY DEF OpenInput, At, Go, Throw
<1> QED
  BY <1>1, <1>2, BetweenBack

LEMMA NextHeaderBack ==
  ASSUME Printing, NextHeader
  PROVE  BackInv'
<1>1. SameFile /\ index' = index /\ printed' = printed /\ pc = "packet"
  BY PrintSteps DEF NextHeader, PcapItchPrint, At
<1>2. \/ pc' = "print_pcap:end" /\ (AtLimit \/ (index = Len(capture.packets) /\ ~capture.torn))
      \/ pc' = "unwind" /\ capture.torn /\ index = Len(capture.packets)
      \/ pc' = "headers" /\ ~AtLimit
  BY DEF NextHeader, Go, Throw
<1> QED
  BY <1>1, <1>2, BetweenBack

LEMMA ReadHeadersBack ==
  ASSUME Printing, ReadHeaders
  PROVE  BackInv'
<1>1. SameFile /\ index' = index /\ printed' = printed /\ pc = "headers" /\ Reading
  BY PrintSteps DEF ReadHeaders, PcapItchPrint, At, Reading, Printing
<1>2. CASE ~Readable
  BY <1>1, <1>2, UnreadBack DEF ReadHeaders, Go, Throw
<1>3. CASE Readable
  <2>1. ReadsAs(This, index) /\ view \in View
    BY <1>1, <1>3, ThisIsRead
  <2>2. ~(This.size < MinPacket)
    BY <2>1 DEF ReadsAs, MinPacket, Headers
  <2> DEFINE only == [ether |-> 2048, versionIhl |-> 69, protocol |-> 17, udp |-> This.udp]
  <2>3. FoundHeaders = {only}
    BY <2>1 DEF ReadsAs, FoundHeaders
  <2>4. Supported(only) /\ Ihl(69) = 20
    BY DEF Supported, Ihl
  <2>5. pc' = "udp" /\ view' = [view EXCEPT !.base = 14 + Ihl(only.versionIhl) + 8, !.udp = only.udp]
    BY <2>2, <2>3, <2>4 DEF ReadHeaders, Go
  <2>6. view'.base = 42 /\ view'.udp = This.udp
    BY <2>1, <2>4, <2>5 DEF View
  <2>7. AtLimit' = AtLimit /\ This' = This
    BY <1>1, SameReadable DEF SameFile, AtLimit
  <2>8. LinesBack'
    BY <1>1, <1>3, <2>5, <2>6, <2>7 DEF Printing, BackInv, LinesBack, PacketBack, SameFile
  <2> QED
    BY <1>1, <2>5, <2>7, <2>8 DEF Printing, BackInv, SameFile
<1> QED
  BY <1>2, <1>3

LEMMA ReadUdpBack ==
  ASSUME Printing, ReadUdp
  PROVE  BackInv'
<1>1. SameFile /\ index' = index /\ printed' = printed /\ pc = "udp" /\ Reading
  BY PrintSteps DEF ReadUdp, PcapItchPrint, At, Reading, Printing
<1>2. CASE ~Readable
  BY <1>1, <1>2, UnreadBack DEF ReadUdp, Go, Throw
<1>3. CASE Readable
  <2>1. ReadsAs(This, index) /\ view \in View
    BY <1>1, <1>3, ThisIsRead
  <2>2. view.base = 42 /\ view.udp = This.size - 34
    BY <1>1, <1>3, <2>1 DEF Printing, BackInv, LinesBack, PacketBack, ReadsAs
  <2>3. ~(view.base > This.size) /\ UdpFits(view.udp, This.size - view.base)
    BY <2>1, <2>2 DEF ReadsAs, UdpFits
  <2>4. pc' = "mold" /\ view' = [view EXCEPT !.size = view.udp - 8]
    BY <2>3 DEF ReadUdp, Go
  <2>5. view'.base = 42 /\ view'.size = This.size - 42
    BY <2>1, <2>2, <2>4 DEF View, ReadsAs
  <2>7. AtLimit' = AtLimit /\ This' = This
    BY <1>1, SameReadable DEF SameFile, AtLimit
  <2>8. LinesBack'
    BY <1>1, <1>3, <2>4, <2>5, <2>7 DEF Printing, BackInv, LinesBack, PacketBack, SameFile
  <2> QED
    BY <1>1, <2>4, <2>7, <2>8 DEF Printing, BackInv, SameFile
<1> QED
  BY <1>2, <1>3

LEMMA Words16Values == 1 \in Words16 /\ \A n \in 11..50 : n \in Words16
  BY DEF Words16

LEMMA ReadMoldBack ==
  ASSUME Printing, ReadMold
  PROVE  BackInv'
<1>1. SameFile /\ index' = index /\ pc = "mold" /\ Reading
  BY PrintSteps DEF ReadMold, PcapItchPrint, At, Reading, Printing
<1>2. CASE ~Readable
  BY <1>1, <1>2, UnreadBack DEF ReadMold, Go, Throw
<1>3. CASE Readable
  <2>1. ReadsAs(This, index) /\ view \in View /\ index \in Nat
    BY <1>1, <1>3, ThisIsRead
  <2>2. view.base = 42 /\ view.size = This.size - 42 /\ ~(view.size < 20)
    <3>1. view.base = 42 /\ view.size = This.size - 42
      BY <1>1, <1>3 DEF Printing, BackInv, LinesBack, PacketBack
    <3> QED
      BY <2>1, <3>1 DEF ReadsAs
  <2>3. Found(18, 2, Words16, Counts) = {1} /\ Found(10, 8, Nat, {Garbage}) = {index + 1}
    BY <2>1, Words16Values DEF ReadsAs, Found
  <2>4. /\ pc' = "messages" /\ view' = [view EXCEPT !.offset = 20, !.left = 1]
        /\ printed' = Append(printed, Opened(index + 1))
    BY <2>2, <2>3 DEF ReadMold, Go, Opened
  <2>5. view'.size = This.size - 42 /\ view'.left = 1 /\ view'.offset = 20
    BY <2>1, <2>2, <2>4 DEF View
  <2>6. LinesBack /\ Len(printed) = index
    BY <1>1, <1>3 DEF Printing, BackInv, LinesBack
  <2>7. /\ Len(printed') = index + 1 /\ printed'[index + 1] = Opened(index + 1)
        /\ \A i \in 1..index : printed'[i] = printed[i]
    <3> DEFINE line == Opened(index + 1)
    <3>1. PICK S : printed \in Seq(S)
      BY DEF Printing, PlacesInv, Scopes
    <3>2. printed \in Seq(S \cup {line})
      BY <3>1
    <3> HIDE DEF line
    <3>3. /\ Len(printed') = index + 1 /\ printed'[index + 1] = line
          /\ \A i \in 1..index : printed'[i] = printed[i]
      BY <2>1, <2>4, <2>6, <3>2 DEF line
    <3> QED
      BY <3>3 DEF line
  <2>8. AtLimit' = AtLimit /\ This' = This
    BY <1>1, SameReadable DEF SameFile, AtLimit
  <2>9. LinesBack'
    <3>1. \A i \in 1..index : printed'[i] = Line(capture.packets[i], i)
      BY <2>6, <2>7 DEF LinesBack
    <3> QED
      BY <1>1, <2>4, <2>5, <2>7, <2>8, <3>1 DEF LinesBack, PacketBack, SameFile
  <2> QED
    BY <1>1, <2>4, <2>8, <2>9 DEF Printing, BackInv, SameFile
<1> QED
  BY <1>2, <1>3

LEMMA NextMessageBack ==
  ASSUME Printing, NextMessage
  PROVE  BackInv'
<1>1. /\ SameFile /\ index' = index /\ printed' = printed /\ pc = "messages" /\ Reading
      /\ view.left > 0
  BY PrintSteps DEF NextMessage, PcapItchPrint, At, Reading, Printing
<1>2. CASE ~Readable
  BY <1>1, <1>2, UnreadBack DEF NextMessage, Go, Throw
<1>3. CASE Readable
  <2> DEFINE n == MessageSize(This.meant.type)
  <2>1. ReadsAs(This, index) /\ view \in View /\ index \in Nat
    BY <1>1, <1>3, ThisIsRead
  <2>2. /\ view.size = This.size - 42 /\ view.left = 1 /\ view.offset = 20
        /\ printed[index + 1] = Opened(index + 1)
    BY <1>1, <1>3 DEF Printing, BackInv, LinesBack, PacketBack
  <2>3. ~(view.size - view.offset < 2) /\ LengthFits(view.offset + 2, n) /\ view.offset + 2 = 22
    BY <2>1, <2>2 DEF ReadsAs, LengthFits
  <2>4. Found(view.offset, 2, Words16, Lengths) = {n}
    BY <2>1, <2>2, Words16Values DEF ReadsAs, Found
  <2>5. pc' = "parse" /\ view' = [view EXCEPT !.offset = @ + 2, !.length = n]
    BY <2>3, <2>4 DEF NextMessage, Go
  <2>6. view'.left = 1 /\ view'.offset = 22 /\ view'.length = n
    BY <2>1, <2>2, <2>5 DEF View
  <2>8. AtLimit' = AtLimit /\ This' = This
    BY <1>1, SameReadable DEF SameFile, AtLimit
  <2>9. LinesBack'
    BY <1>1, <1>3, <2>2, <2>5, <2>6, <2>8 DEF Printing, BackInv, LinesBack, PacketBack, SameFile
  <2> QED
    BY <1>1, <2>5, <2>8, <2>9 DEF Printing, BackInv, SameFile
<1> QED
  BY <1>2, <1>3

LEMMA PrintMessageBack ==
  ASSUME Printing, PrintMessage
  PROVE  BackInv'
<1>1. SameFile /\ index' = index /\ view' = view /\ pc = "parse" /\ Reading
  BY PrintSteps DEF PrintMessage, PcapItchPrint, At, Reading, Printing
<1>2. CASE ~Readable
  BY <1>1, <1>2, UnreadBack DEF PrintMessage, Go, Throw
<1>3. CASE Readable
  <2> DEFINE type == This.meant.type
  <2>1. ReadsAs(This, index) /\ view \in View /\ index \in Nat
    BY <1>1, <1>3, ThisIsRead
  <2>2. /\ view.left = 1 /\ view.offset = 22 /\ view.length = MessageSize(type)
        /\ printed[index + 1] = Opened(index + 1) /\ Len(printed) = index + 1 /\ LinesBack
    BY <1>1, <1>3 DEF Printing, BackInv, LinesBack, PacketBack
  <2>3. Found(view.offset, 1, MessageTypes, Types) = {type}
    BY <2>1, <2>2 DEF ReadsAs, Found
  <2>4. ParseMessage(type, view.length)
    <3>1. MessageSize(type) \in 11..50
      BY <2>1 DEF ReadsAs
    <3> DEFINE n == MessageSize(type)
    <3>2. n \in Nat /\ n >= 11
      BY <3>1
    <3>3. view.length = n
      BY <2>2
    <3> HIDE DEF n
    <3>4. view.length >= 11 /\ view.length >= n
      BY <3>2, <3>3
    <3> QED
      BY <3>4 DEF ParseMessage, HeaderSize, n
  <2>5. Decode(type, This.bytes, view.offset) = This.meant
    BY <2>1, <2>2 DEF ReadsAs
  <2>6. /\ pc' = "message:end"
        /\ printed' = [printed EXCEPT ![Len(printed)].messages = Append(@, This.meant)]
    BY <2>3, <2>4, <2>5 DEF PrintMessage, Go
  <2> DEFINE line == Line(This, index + 1)
  <2>7. printed' = [printed EXCEPT ![index + 1] = line]
    <3>1. [Opened(index + 1) EXCEPT !.messages = Append(@, This.meant)] = line
      <4> DEFINE q == Opened(index + 1)
      <4>1. q = [sequence |-> {index + 1}, messages |-> <<>>]
        BY DEF Opened
      <4> HIDE DEF q
      <4>2. q.messages = <<>>
        BY <4>1
      <4> DEFINE messages == Append(q.messages, This.meant)
      <4>3. messages = <<This.meant>>
        BY <4>2
      <4> HIDE DEF messages
      <4>4. [q EXCEPT !.messages = messages] = [sequence |-> {index + 1}, messages |-> messages]
        <5> DEFINE sequence == {index + 1}
        <5>1. q = [sequence |-> sequence, messages |-> <<>>]
          BY <4>1
        <5> HIDE DEF sequence
        <5>2. [q EXCEPT !.messages = messages] = [sequence |-> sequence, messages |-> messages]
          BY <5>1
        <5> QED
          BY <5>2 DEF sequence
      <4>5. [q EXCEPT !.messages = Append(@, This.meant)] = [q EXCEPT !.messages = messages]
        BY Zenon DEF messages
      <4> QED
        BY <4>3, <4>4, <4>5 DEF Line, q
    <3> QED
      BY <2>2, <2>6, <3>1
  <2>8. /\ Len(printed') = index + 1 /\ printed'[index + 1] = line
        /\ \A i \in 1..index : printed'[i] = printed[i]
    <3>1. PICK S : printed \in Seq(S)
      BY DEF Printing, PlacesInv, Scopes
    <3>2. printed \in Seq(S \cup {line}) /\ line \in S \cup {line}
      BY <3>1
    <3>3. index + 1 \in 1..Len(printed)
      BY <2>1, <2>2
    <3> HIDE DEF line
    <3>4. \A i \in 1..index : i \in 1..Len(printed) /\ i # index + 1
      BY <2>1, <2>2
    <3> QED
      BY <2>2, <2>7, <3>2, <3>3, <3>4, ExceptSeq
  <2>9. AtLimit' = AtLimit /\ This' = This
    BY <1>1, SameReadable DEF SameFile, AtLimit
  <2>10. LinesBack'
    <3>1. \A i \in 1..index : printed'[i] = Line(capture.packets[i], i)
      BY <2>2, <2>8 DEF LinesBack
    <3> QED
      BY <1>1, <2>2, <2>6, <2>8, <2>9, <3>1 DEF LinesBack, PacketBack, SameFile
  <2> QED
    BY <1>1, <2>6, <2>9, <2>10 DEF Printing, BackInv, SameFile
<1> QED
  BY <1>2, <1>3

LEMMA MessageEndBack ==
  ASSUME Printing, MessageEnd
  PROVE  BackInv'
<1>1. /\ SameFile /\ index' = index /\ printed' = printed /\ pc = "message:end" /\ Reading
      /\ pc' = "messages" /\ view' = [view EXCEPT !.left = @ - 1, !.offset = @ + view.length]
  BY PrintSteps DEF MessageEnd, SkipMessage, PcapItchPrint, At, Go, Reading, Printing
<1>2. CASE ~Readable
  BY <1>1, <1>2, UnreadBack
<1>3. CASE Readable
  <2>1. ReadsAs(This, index) /\ view \in View /\ index \in Nat
    BY <1>1, <1>3, ThisIsRead
  <2>2. view.left = 1 /\ printed[index + 1] = Line(This, index + 1)
    BY <1>1, <1>3 DEF Printing, BackInv, LinesBack, PacketBack
  <2>3. view'.left = 0
    BY <1>1, <2>1, <2>2 DEF View
  <2>4. AtLimit' = AtLimit /\ This' = This
    BY <1>1, SameReadable DEF SameFile, AtLimit
  <2>5. LinesBack'
    BY <1>1, <1>3, <2>2, <2>3, <2>4 DEF Printing, BackInv, LinesBack, PacketBack, SameFile
  <2> QED
    BY <1>1, <2>4, <2>5 DEF Printing, BackInv, SameFile
<1> QED
  BY <1>2, <1>3

LEMMA PacketEndBack ==
  ASSUME Printing, PacketEnd
  PROVE  BackInv'
<1>1. /\ SameFile /\ index' = index + 1 /\ printed' = printed /\ pc = "messages" /\ Reading
      /\ pc' = "packet" /\ view.left = 0 /\ index \in Nat
  BY PrintSteps DEF PacketEnd, PcapItchPrint, At, Go, Reading, Printing, ReadsInv
<1>2. /\ options.limit \in Nat /\ (options.limit = 0 \/ index' <= options.limit)
  BY <1>1 DEF Printing, BackInv, AtLimit
<1>3. ASSUME Readable' PROVE LinesBack'
  <2>1. Readable
    BY <1>1, <1>3, SameReadable DEF SameFile
  <2>2. printed[index + 1] = Line(This, index + 1) /\ Len(printed) = index + 1 /\ LinesBack
    BY <1>1, <2>1 DEF Printing, BackInv, LinesBack, PacketBack
  <2>3. \A i \in 1..(index + 1) : printed[i] = Line(capture.packets[i], i)
    <3>1. \A i \in 1..(index + 1) : i \in 1..index \/ i = index + 1
      BY <1>1
    <3> QED
      BY <2>2, <3>1 DEF LinesBack, This
  <2> QED
    BY <1>1, <2>2, <2>3 DEF LinesBack, SameFile, Reading
<1> QED
  BY <1>1, <1>2, <1>3 DEF Printing, BackInv, SameFile, Reading

-----------------------------------------------------------------------------
LEMMA UnwindBack ==
  ASSUME Printing, Unwind \/ Catch
  PROVE  BackInv'
<1>1. /\ SameFile /\ index' = index /\ printed' = printed /\ pc = "unwind"
      /\ pc' \in {"unwind", "exit1"}
  BY DEF Unwind, Catch, Go, SameFile, Printing
<1>2. Readable => ~capture.header \/ (capture.torn /\ index = Len(capture.packets))
  BY <1>1 DEF Printing, BackInv, LinesBack
<1> QED
  BY <1>1, <1>2, BetweenBack

LEMMA PrintBack ==
  ASSUME Printing, PcapItchPrint
  PROVE  BackInv'
  BY PrintCallsBack, OpenInputBack, NextHeaderBack, ReadHeadersBack, ReadUdpBack, ReadMoldBack,
     NextMessageBack, PrintMessageBack, MessageEndBack, PacketEndBack
  DEF PcapItchPrint

\* What a tool finds when it begins.
LEMMA LaunchBack ==
  ASSUME PacketsMade,
         \/ \E size \in Nat, n \in Nat \ {0}, mode \in {"raw", "itch5"} : LaunchGen(size, n, mode)
         \/ \E limit \in Nat : LaunchPrint(limit)
  PROVE  CaptureInv' /\ BackInv'
<1>1. PacketsMade'
  BY DEF LaunchGen, LaunchPrint, Launch, PacketsMade
<1>2. ASSUME NEW size \in Nat, NEW n \in Nat \ {0}, NEW mode \in {"raw", "itch5"},
             LaunchGen(size, n, mode)
      PROVE  CaptureInv' /\ BackInv'
  <2>1. /\ tool' = "gen" /\ pc' = "src_ip" /\ index' = 0
        /\ options' = [size |-> size, count |-> n, mode |-> mode]
    BY <1>2 DEF LaunchGen, Launch
  <2> QED
    BY <1>1, <2>1 DEF CaptureInv, BackInv, BeforeFile, WithFile, WithMessage, WithFitting
<1>3. ASSUME NEW limit \in Nat, LaunchPrint(limit)
      PROVE  CaptureInv' /\ BackInv'
  <2>1. /\ tool' = "print" /\ pc' = "print_pcap" /\ index' = 0 /\ printed' = <<>>
        /\ options' = [limit |-> limit]
    BY <1>3 DEF LaunchPrint, Launch
  <2>2. LinesBack'
    BY <2>1 DEF LinesBack, Reading
  <2> QED
    BY <1>1, <2>1, <2>2 DEF CaptureInv, BackInv, Reading
<1> QED
  BY <1>2, <1>3

LEMMA ToolsNextBack ==
  ASSUME ReadsInv, PlacesInv, CaptureInv, BackInv, [ToolsNext]_<<vars, toolVars>>
  PROVE  CaptureInv' /\ BackInv'
<1>1. CASE PcapItchGen
  <2>1. tool' = "gen"
    BY <1>1, GenStepOfTool
  <2> QED
    BY <1>1, <2>1, GenKeepsCapture DEF BackInv
<1>2. CASE PcapItchPrint
  <2>1. tool = "print" /\ SameFile
    BY <1>2, PrintSteps
  <2>2. CaptureInv'
    BY <2>1 DEF SameFile, CaptureInv, PacketsMade
  <2> QED
    BY <1>2, <2>1, <2>2, PrintBack DEF Printing, CaptureInv
<1>3. CASE Unwind \/ Catch
  <2>1. /\ pc = "unwind" /\ pc' \in {"unwind", "exit1"} /\ tool' = tool /\ options' = options
        /\ UNCHANGED <<capture, index, message>>
    BY <1>3 DEF Unwind, Catch, Go
  <2>2. CaptureInv'
    BY <2>1 DEF CaptureInv, PacketsMade, BeforeFile, WithFile, WithMessage, WithFitting
  <2>3. BackInv'
    BY <1>3, <2>1, UnwindBack DEF Printing, CaptureInv, BackInv
  <2> QED
    BY <2>2, <2>3
<1>4. CASE \/ \E size \in Nat, n \in Nat \ {0}, mode \in {"raw", "itch5"} : LaunchGen(size, n, mode)
           \/ \E limit \in Nat : LaunchPrint(limit)
  BY <1>4, LaunchBack DEF CaptureInv
<1>5. CASE UNCHANGED <<vars, toolVars>>
  <2>1. UNCHANGED toolVars
    BY <1>5
  <2>2. CaptureInv'
    BY <2>1 DEF toolVars, CaptureInv, PacketsMade
  <2>3. Readable' = Readable /\ LinesBack' = LinesBack
    BY <2>1 DEF toolVars, Readable, LinesBack, PacketBack, This, Reading
  <2>4. BackInv'
    BY <2>1, <2>3 DEF toolVars, BackInv, Reading, AtLimit
  <2> QED
    BY <2>2, <2>4
<1> QED
  BY <1>1, <1>2, <1>3, <1>4, <1>5 DEF ToolsNext, ToolStep

LEMMA ToolsNextPlaces ==
  ASSUME ReadsInv, PlacesInv, [ToolsNext]_<<vars, toolVars>>
  PROVE  PlacesInv'
<1>1. CASE ToolStep
  BY <1>1, StepPlaces
<1>2. ASSUME NEW size \in Nat, NEW n \in Nat \ {0}, NEW mode \in {"raw", "itch5"},
             LaunchGen(size, n, mode)
      PROVE  PlacesInv'
  BY <1>2, LaunchPlaces DEF LaunchGen
<1>3. ASSUME NEW limit \in Nat, LaunchPrint(limit)
      PROVE  PlacesInv'
  BY <1>3, LaunchPlaces DEF LaunchPrint
<1>4. CASE UNCHANGED <<vars, toolVars>>
  BY <1>4 DEF vars, toolVars, PlacesInv, Scopes
<1> QED
  BY <1>1, <1>2, <1>3, <1>4 DEF ToolsNext

\* The capture of the generator reads back as it was meant, for every number and size
\* of packets, whatever rng() returned: each packet that is shown carries its sequence
\* number and every member of its message, up to the limit; and the printer fails only
\* where the generator has lost the end of the file.
THEOREM CapturesReadBack == ToolsSpec => []PacketsReadBack
<1>1. ToolsInit => PlacesInv /\ CaptureInv /\ BackInv
  <2> SUFFICES ASSUME ToolsInit PROVE PlacesInv /\ CaptureInv /\ BackInv
    OBVIOUS
  <2>1. capture \in Captures /\ tool = "none"
    BY DEF ToolsInit
  <2>2. PacketsMade
    BY <2>1, GeneratedAssumption DEF PacketsMade
  <2>3. PlacesInv
    <3>1. 0 \in Words16 /\ <<>> \in Seq({}) /\ Len(<<>>) = 0
      BY DEF Words16
    <3> QED
      BY <2>1, <3>1 DEF ToolsInit, NoView, PlacesInv, Scopes
  <2> QED
    BY <2>1, <2>2, <2>3 DEF CaptureInv, BackInv
<1>2. ReadsInv /\ PlacesInv /\ CaptureInv /\ BackInv /\ [ToolsNext]_<<vars, toolVars>>
        => PlacesInv' /\ CaptureInv' /\ BackInv'
  BY ToolsNextPlaces, ToolsNextBack
<1>3. ReadsInv /\ BackInv => PacketsReadBack
  <2> SUFFICES ASSUME ReadsInv, BackInv, tool = "print", Readable PROVE PacketsReadBack
    BY DEF PacketsReadBack, Readable
  <2> DEFINE whole == Len(capture.packets)
  <2>1. LinesBack /\ options.limit \in Nat /\ (options.limit = 0 \/ index <= options.limit)
    BY DEF BackInv
  <2>2. \A i \in 1..index :
          printed[i] = [sequence |-> {i}, messages |-> <<capture.packets[i].meant>>]
    BY <2>1 DEF LinesBack, Line
  <2>3. pc = "exit1" => ~capture.header \/ (capture.torn /\ index = whole)
    BY <2>1 DEF LinesBack
  <2>4. ASSUME pc = "exit0"
        PROVE  index = Limit(whole) /\ (capture.torn => index = options.limit)
    <3>1. index \in Nat /\ whole \in Nat /\ index <= whole
      BY DEF ReadsInv, WellFormedCapture
    <3>2. AtLimit \/ (index = whole /\ ~capture.torn)
      BY <2>4 DEF BackInv
    <3> HIDE DEF whole
    <3> QED
      BY <2>1, <3>1, <3>2 DEF AtLimit, Limit
  <2> QED
    BY <2>2, <2>3, <2>4 DEF PacketsReadBack
<1> QED
  BY <1>1, <1>2, <1>3, CursorInvariant, PTL DEF ToolsSpec
==============================================================================
