------------------------------ MODULE MCToolChain ----------------------------
(***************************************************************************)
(* An instance of ToolChain for TLC.                                       *)
(***************************************************************************)
EXTENDS ToolChain, SequencesExt

AllNumerals == {0, 1, 2, 3, 96, 99, 100, 128, 1000, 4096, 26477, 50000, 65569, 65570, 65536, 1048576}

AllCategories == {DefaultCategory, MdCategory, EventCategory}

AllDraws == {0, 7, 9}

Foreign(size) == [size |-> size, content |-> "foreign", udp |-> 0, bytes |-> <<>>, meant |-> NoMessage]

\* No file, and foreign captures: a packet below the smallest size, one of that
\* size in a file that is cut off, one with room for two messages, and two packets.
File(packets, torn) == [header |-> TRUE, packets |-> packets, torn |-> torn, good |-> FALSE]

\* The capture of a program that uses the last of the makers, which gen does not.
Trade ==
  [type |-> "P", locate |-> 1, tracking |-> 2, timestamp |-> 3, order_ref |-> 4, side |-> "B",
   shares |-> 5, stock |-> "symbol", price |-> 6, match |-> 7]

AllCaptures ==
  {[header |-> FALSE, packets |-> <<>>, torn |-> FALSE, good |-> FALSE],
   File(<<Foreign(61)>>, FALSE), File(<<Foreign(62)>>, TRUE), File(<<Foreign(88)>>, FALSE),
   File(<<Foreign(62), Foreign(88)>>, FALSE),
   File(<<Packet(128, "itch5", 0, Trade)>>, FALSE)}

Ipv4OrNot == {2048, 2054}
\* Version 4 with 16, 20, 24 and 60 bytes of header, and version 6.
VersionsIhls == {68, 69, 70, 79, 101}
UdpOrNot == {17, 6}
\* Too short, no room for MoldUDP64, just that, all of the packet, and more than it.
SomeUdpLengths == {7, 27, 28, 50, 54, 55}
SomeCounts == {0, 1, 2, 65535}
SomeLengths == {0, 10, 11, 12, 19, 36, 65535}
SomeTypes == {"S", "D", "A", "?"}

\* Names with fingerprints of their own, two of one program that share one (which
\* differ above 24 bits), and two of different programs; one hash is 0 in 24 bits.
Number(t, name) == CHOOSE i \in 1..Len(Literals[t]) : Literals[t][i] = name
Distinct == [name \in ToSet(Literals.gen) \cup ToSet(Literals.print) |->
               IF name \in ToSet(Literals.gen) THEN 100 + Number("gen", name)
               ELSE 2^24 * Number("print", name) + 200 + Number("print", name)]
AllHashes ==
  {[Distinct EXCEPT !["print_pcap"] = 2^24],
   [Distinct EXCEPT !["make_payload"] = 2^25 + 7, !["make_packet"] = 7,
                    !["print_packet"] = 2^24 + 9, !["print_itch_message"] = 9],
   [Distinct EXCEPT !["make_packet"] = 11, !["print_pcap"] = 2^26 + 11]}

Csv(header, dumps, edited) == [header |-> header, dumps |-> dumps, edited |-> edited]

AllTables ==
  [gen |-> Csv(TRUE, {"gen"}, <<>>), print |-> Csv(TRUE, {"print"}, <<>>),
   both |-> Csv(TRUE, {"gen", "print"}, <<[text |-> "packet_loop", value |-> 111]>>),
   headless |-> Csv(FALSE, {"print"}, <<>>),
   unreadable |-> Csv(TRUE, {"print"}, <<[text |-> "print_pcap", value |-> Garbage]>>)]

Ring == OptionWith("checkpoint-file", "ring")
GenWords(size, n) == <<OptionWith("size", size), Option("n"), Word(n), Ring>>

AllChainLines ==
  [gen |-> {GenWords("100", "1"), GenWords("100", "2"), GenWords("65569", "1"),
            GenWords("65570", "1"), GenWords("96", "1") \o <<Option("m"), Word("raw")>>},
   print |-> {<<Ring, Word("a.pcap")>>, <<Word("a.pcap"), Option("limit"), Word("1"), Ring>>},
   checkpoint_print |->
     {<<Word("ring")>>, <<Option("n"), Word("2"), Word("ring"), Option("all")>>}
     \cup {<<Option("l"), Word(table), Word("ring")>> : table \in DOMAIN AllTables \cup {"missing"}}]

\* All lines of at most four words over an alphabet for each tool.
Alphabets ==
  [server |-> {Option("o"), Option("output"), Option("once"), OptionWith("block-bytes", "4096"),
               Word("a"), Word("4096"), Option("q")},
   checkpoint_print |-> {Option("n"), OptionWith("limit", "2"), Option("all"), Option("l"),
                         Word("a"), Word("2"), Option("h")},
   gen |-> {Option("s"), OptionWith("dst-port", "65536"), Option("m"), Option("dump-literals"),
            Word("raw"), Word("96"), Option("h")},
   print |-> {Option("n"), OptionWith("limit", "2"), Option("dump-literals"), Option("x"),
              Word("a"), Word("2"), Option("help")}]

AllCommandLines == [t \in Tools |-> UNION {[1..n -> Alphabets[t]] : n \in 0..4}]
==============================================================================
