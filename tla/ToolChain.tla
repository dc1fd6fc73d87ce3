----------------------------- MODULE ToolChain -------------------------------
(***************************************************************************)
(* A user runs the tools one after the other: pcap_itch_gen writes a       *)
(* capture, pcap_itch_print reads it, checkpoint_print reads the ring that *)
(* the last of them has left behind, with the literal table that one of    *)
(* them has dumped.  Each is started with a command line.  The module      *)
(* composes ToolOptions, ItchTools and checkpoint_print (which reads two   *)
(* files and changes nothing, and is one action).                          *)
(***************************************************************************)
EXTENDS ItchTools, ToolOptions

CONSTANTS
  ChainLines,    \* the command lines of a chain, for each tool
  CommandLines,  \* the command lines that are tried on their own
  Tables,        \* the literal tables on disk: path -> CSV file
  Hashes,        \* what FNV-1a may make of the names: name -> 32-bit hash
  MaxRuns        \* bound: runs of a chain

VARIABLES
  runs,    \* how many tools have run
  asked,   \* the tool started last and its command line
  report   \* how checkpoint_print ended, and the lines it printed

chainVars == <<vars, toolVars, runs, asked, report>>

-----------------------------------------------------------------------------
\* The names that REALPERF_LITERAL_STRING registers in each program.
Literals ==
  [gen |-> <<"parse_ipv4", "internet_checksum", "make_itch_message", "make_payload",
             "make_packet", "make_packet:ip_header", "make_packet:checksum",
             "make_packet:copy_payload", "write_pcap_global_header", "write_pcap_packet",
             "packet_loop">>,
   print |-> <<"print_itch_message", "print_itch_message:print", "print_packet",
               "print_packet:print_payload", "print_pcap">>]

\* Every name has a hash; a table is made of dumps of the two programs and of rows,
\* and is not at the empty path.
ASSUME HashesAssumption == \A hash \in Hashes :
  DOMAIN hash = Names(Literals.gen) \cup Names(Literals.print)
  /\ \A name \in DOMAIN hash : hash[name] \in Nat

ASSUME TablesAssumption ==
  "" \notin DOMAIN Tables
  /\ \A path \in DOMAIN Tables :
       LET edited == Tables[path].edited
       IN  /\ Tables[path].dumps \subseteq {"gen", "print"}
           /\ Len(edited) \in Nat /\ edited = [i \in 1..Len(edited) |-> edited[i]]

\* LiteralString::fingerprint keeps 24 bits; 0 means that there is no name.
Fingerprint(hash) == IF hash % 2^24 = 0 THEN 1 ELSE hash % 2^24

\* dumpLiteralStrings: a row for each literal of the program.
Dumped(t, hash) ==
  [i \in 1..Len(Literals[t]) |->
     [text |-> Literals[t][i], value |-> Fingerprint(hash[Literals[t][i]])]]

-----------------------------------------------------------------------------
\* The rows of a CSV file: the dumps it is made of, and rows edited by hand.
Rows(csv, hash) ==
  (IF "gen" \in csv.dumps THEN Dumped("gen", hash) ELSE <<>>)
  \o (IF "print" \in csv.dumps THEN Dumped("print", hash) ELSE <<>>) \o csv.edited

\* parse_fingerprint takes numbers.
Parsed(value) == value \in Nat

Table(rows) ==
  [value \in {rows[i].value : i \in 1..Len(rows)} |->
     rows[CHOOSE i \in 1..Len(rows) :
            rows[i].value = value /\ \A j \in 1..(i - 1) : rows[j].value # value].text]

\* Mutation of ReadTable: emplace keeps the first of two names.
ReadTableFirst(header, rows) ==
  IF header /\ \A i \in 1..Len(rows) : Parsed(rows[i].value)
  THEN [ok |-> TRUE, table |-> Table(rows)] ELSE [ok |-> FALSE]

\* read_literal_string_map: two names with one fingerprint are an error, the same
\* row twice is not.
ReadTable(header, rows) ==
  IF /\ header
     /\ \A i \in 1..Len(rows) : Parsed(rows[i].value)
     /\ \A i, j \in 1..Len(rows) : rows[i].value = rows[j].value => rows[i].text = rows[j].text
  THEN [ok |-> TRUE, table |-> Table(rows)] ELSE [ok |-> FALSE]

\* The table for --literals: without the option it is empty.
LiteralTable(path, hash) ==
  CASE path = "" -> [ok |-> TRUE, table |-> Table(<<>>)]
    [] path \in DOMAIN Tables -> ReadTable(Tables[path].header, Rows(Tables[path], hash))
    [] OTHER -> [ok |-> FALSE]

-----------------------------------------------------------------------------
\* where_ of a slot of the ring file.
WhereOf(slot, hash) == IF slot.tick = 0 THEN 0 ELSE Fingerprint(hash[marks[slot.tick].where])

IsEmpty(slot, hash) ==
  WhereOf(slot, hash) = 0 /\ slot.tick = 0 /\ slot.ext = 0 /\ slot.cat = DefaultCategory

\* The slots that print_checkpoints prints of the first n in the file, for each n.
Chosen(limit, all, hash) ==
  LET among[n \in 0..Capacity] ==
        IF n = 0 THEN <<>>
        ELSE LET before == among[n - 1]
                 skipped == ~all /\ IsEmpty(mem[n - 1], hash)
             IN  IF skipped \/ (limit # 0 /\ Len(before) >= limit)
                 THEN before ELSE Append(before, n - 1)
  IN  among[Capacity]

\* What is printed for where_.
LiteralText(where, table) ==
  IF where \in DOMAIN table THEN table[where] ELSE IF where # 0 THEN "hash" ELSE "empty"

\* print_checkpoint, for each of them: index, tick, is the delta to the line before
\* negative, name.
Listing(limit, all, hash, table) ==
  LET slots == Chosen(limit, all, hash)
  IN  [k \in 1..Len(slots) |->
         [index |-> slots[k], tick |-> mem[slots[k]].tick,
          back |-> k > 1 /\ mem[slots[k]].tick < mem[slots[k - 1]].tick,
          name |-> LiteralText(WhereOf(mem[slots[k]], hash), table)]]

NoReport == [status |-> 0, lines |-> <<>>, limit |-> 0, all |-> FALSE, table |-> "", hash |-> <<>>]

\* checkpoint_print, once its command line is read.
PrintCheckpoints(o, hash) ==
  LET literals == LiteralTable(o.values["literals"], hash)
      limit == NumberOf(o.values["limit"])
      all == <<"all">> \in o.flags
  IN  [status |-> IF literals.ok THEN 0 ELSE 1,
       lines |-> IF literals.ok THEN Listing(limit, all, hash, literals.table) ELSE <<>>,
       limit |-> limit, all |-> all, table |-> o.values["literals"], hash |-> hash]

-----------------------------------------------------------------------------
Starts(t, line) == Exited /\ runs < MaxRuns /\ runs' = runs + 1 /\ asked' = [tool |-> t, line |-> line]

\* A tool of the chain is given its ring and does not just dump its literals.
Recorded(o) == o.exit = "run" /\ o.flags = {} /\ o.values["checkpoint-file"] # ""

RunGen ==
  \E line \in ChainLines.gen :
    LET o == ParseOptions("gen", line)
    IN  /\ Starts("gen", line) /\ Recorded(o)
        /\ LaunchGen(NumberOf(o.values["size"]), NumberOf(o.values["count"]), o.values["mode"])
        /\ report' = NoReport

RunPrint ==
  \E line \in ChainLines.print :
    LET o == ParseOptions("print", line)
    IN  /\ Starts("print", line) /\ Recorded(o)
        /\ LaunchPrint(NumberOf(o.values["limit"]))
        /\ report' = NoReport

\* The hash is a constant of the programs; any of them will do for a ring.  The
\* chain ends here, since checkpoint_print changes nothing.
RunCheckpointPrint ==
  /\ tool # "none" /\ UNCHANGED <<vars, toolVars>>
  /\ \E line \in ChainLines.checkpoint_print, hash \in Hashes :
       LET o == ParseOptions("checkpoint_print", line)
       IN  /\ Exited /\ runs < MaxRuns /\ runs' = MaxRuns
           /\ asked' = [tool |-> "checkpoint_print", line |-> line] /\ o.exit = "run"
           /\ report' = PrintCheckpoints(o, hash)

\* Any line for any tool.  What the tool does when the line is accepted is left to
\* the chains.
Try ==
  /\ tool = "none" /\ runs = 0 /\ ~capture.header
  /\ \E t \in Tools : \E line \in CommandLines[t] : asked' = [tool |-> t, line |-> line]
  /\ runs' = MaxRuns
  /\ UNCHANGED <<vars, toolVars, report>>

Step == ToolStep /\ UNCHANGED <<runs, asked, report>>

\* The end of the chain.
Done == Exited /\ runs = MaxRuns /\ UNCHANGED chainVars

ChainInit ==
  /\ ToolsInit
  /\ runs = 0 /\ asked = [tool |-> "none"] /\ report = NoReport

ChainNext == RunGen \/ RunPrint \/ RunCheckpointPrint \/ Try \/ Step \/ Done

ChainSpec == ChainInit /\ [][ChainNext]_chainVars

-----------------------------------------------------------------------------
\* Although CmdArgs does not know which options take a value, every line that is
\* well formed by the usage text, and has no flag directly in front of an input, is
\* understood as it is written, by each of the four programs.
ReadAsWritten ==
  asked.tool # "none" /\ WellFormed(asked.tool, asked.line) => Understood(asked.tool, asked.line)

Owner(name) == CHOOSE t \in {"gen", "print"} : \E i \in 1..Len(Literals[t]) : Literals[t][i] = name

NameOf(tick) == marks[tick].where

\* The lines of checkpoint_print are the newest records of the ring, each once and
\* under its own name if its program's table was given; in the order of the file,
\* which goes back in time once at most, where the ring has wrapped.  Without a
\* table there is no name; one of another program gives a wrong name only where
\* two programs share a fingerprint, which no one can see, or where a row was edited.
PrintedIsRecorded ==
  LET lines == report.lines
      records == {k \in 1..Len(lines) : lines[k].tick # 0}
      ticks == {lines[k].tick : k \in records}
      newest == (clock - Newest + 1)..clock
      dumps == IF report.table \in DOMAIN Tables THEN Tables[report.table].dumps ELSE {}
      edited == IF report.table \in DOMAIN Tables THEN Tables[report.table].edited ELSE <<>>
      Shared(name) ==
        \/ \E t \in dumps, other \in DOMAIN report.hash :
              /\ other # name /\ Owner(other) = t
              /\ Fingerprint(report.hash[other]) = Fingerprint(report.hash[name])
        \/ \E i \in 1..Len(edited) : edited[i].value = Fingerprint(report.hash[name])
  IN  /\ ticks \subseteq newest /\ Cardinality(ticks) = Cardinality(records)
      /\ report.status = 0 /\ report.hash # <<>> /\ report.limit = 0 => ticks = newest
      /\ Cardinality({k \in records : lines[k].back}) <= 1
      /\ \A k \in records :
           LET name == NameOf(lines[k].tick)
           IN  /\ tool \in dumps => lines[k].name = name
               /\ tool \notin dumps => lines[k].name = "hash" \/ Shared(name)
==============================================================================
