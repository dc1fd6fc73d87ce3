---------------------------- MODULE ToolOptions ------------------------------
(***************************************************************************)
(* The four parse_options functions over CmdArgs: checkpoint_server,       *)
(* checkpoint_print, pcap_itch_gen and pcap_itch_print.  Each knows its    *)
(* options, reads the values of some and the presence of others, and       *)
(* checks what it has read.  It leaves the program with the usage text     *)
(* ("usage", status 2, or "help", status 0), with an exception ("error",   *)
(* status 1), or with the options of a run.                                *)
(***************************************************************************)
EXTENDS CmdArgs

\* A setting: the names of its option, the kind of its value, its default text.
R(key, names, kind, default) == [key |-> key, names |-> names, kind |-> kind, default |-> default]

RecordingSettings ==
  {R("checkpoint-file", <<"checkpoint-file">>, "text", ""),
   R("checkpoint-capacity", <<"checkpoint-capacity">>, "uint", "1048576")}

\* The options with a value, as each parse_options reads them.
ServerSettings ==
  {R("output", <<"o", "output">>, "text", ""), R("output-dir", <<"output-dir">>, "text", "."),
   R("suffix", <<"suffix">>, "text", ".dat"),
   R("block-bytes", <<"block-bytes">>, "uint", "1048576"),
   R("poll-us", <<"poll-us">>, "uint", "1000")}

CheckpointPrintSettings ==
  {R("limit", <<"n", "limit">>, "uint", "0"),
   R("literals", <<"l", "literals", "literal-strings">>, "text", "")}

GenSettings ==
  RecordingSettings \cup
  {R("output", <<"o", "output">>, "text", "market_data.pcap"),
   R("count", <<"n", "count">>, "uint", "1000"), R("size", <<"s", "size">>, "uint", "128"),
   R("mode", <<"m", "mode">>, "text", "itch5"), R("symbol", <<"symbol">>, "text", "REALPERF"),
   R("src-ip", <<"src-ip">>, "text", "10.1.1.1"),
   R("dst-ip", <<"dst-ip">>, "text", "239.1.1.1"),
   R("src-port", <<"src-port">>, "u16", "50000"),
   R("dst-port", <<"dst-port">>, "u16", "26477"), R("seed", <<"seed">>, "uint", "1")}

PrintSettings == RecordingSettings \cup {R("limit", <<"n", "limit">>, "uint", "0")}

Settings == [server |-> ServerSettings, checkpoint_print |-> CheckpointPrintSettings,
             gen |-> GenSettings, print |-> PrintSettings]

\* The options whose presence is all that counts.
Flags == [server |-> {<<"once">>, <<"q", "quiet">>},
          checkpoint_print |-> {<<"all">>},
          gen |-> {<<"dump-literals">>},
          print |-> {<<"dump-literals">>}]

Help == <<"h", "help">>

Tools == DOMAIN Settings

\* A number that is the default of a setting is one of the model's.
ASSUME DefaultsAssumption == \A t \in Tools : \A r \in Settings[t] :
  r.kind # "text" => Converts(r.default, r.kind)

Names(seq) == {seq[i] : i \in 1..Len(seq)}

Valued(tool) == UNION {Names(r.names) : r \in Settings[tool]}

FlagNames(tool) == (UNION {Names(f) : f \in Flags[tool]}) \cup Names(Help)

KnownOptions(tool) == Valued(tool) \cup FlagNames(tool)

\* The values that the options of a run have, and the flags that are set.
Values(tool, args) ==
  [key \in {r.key : r \in Settings[tool]} |->
     LET r == CHOOSE s \in Settings[tool] : s.key = key
     IN  IF HasAny(args, r.names) THEN args[Find(args, r.names)] ELSE r.default]

Present(tool, args) == {f \in Flags[tool] : HasAny(args, f)}

BadValue(tool, args) ==
  \E r \in Settings[tool] : HasAny(args, r.names) /\ ~Converts(args[Find(args, r.names)], r.kind)

RawMinSize == 14 + 20 + 8
ItchMinSize == RawMinSize + 20 + 2 + 36

\* The checks of pcap_itch_gen on what it has read.
GenRejects(values, dump) ==
  \/ ~dump /\ NumberOf(values["count"]) = 0
  \/ values["mode"] \notin {"raw", "itch5"}
  \/ values["mode"] = "raw" /\ NumberOf(values["size"]) < RawMinSize
  \/ values["mode"] = "itch5" /\ NumberOf(values["size"]) < ItchMinSize
  \/ Len(values["symbol"]) \notin 1..8

\* The inputs, the n words that are neither options nor values.
Inputs(args, n) == [k \in 1..n |-> ValueFor(args, PositionalName(k - 1))]

\* What is wrong with the values and inputs that have been read: "none", "usage"
\* or "error".
Checked(tool, values, dump, inputs) ==
  CASE tool = "gen" -> IF GenRejects(values, dump) THEN "error" ELSE "none"
    [] tool = "print" /\ dump -> "none"
    [] tool = "server" ->
         IF \E k \in 1..Len(inputs) : inputs[k] = "" THEN "error"
         ELSE IF inputs = <<>> \/ (values["output"] # "" /\ Len(inputs) # 1) THEN "usage"
         ELSE "none"
    [] OTHER ->
         IF Len(inputs) # 1 THEN "usage" ELSE IF inputs[1] = "" THEN "error" ELSE "none"

\* parse_options.
ParseOptions(tool, line) ==
  LET args == Args(line)
      n == Len(Positionals(line))
      values == Values(tool, args)
      dump == HasAny(args, <<"dump-literals">>)
      inputs == Inputs(args, n)
      names == {name \in DOMAIN args : ~IsPositional(name)}
      rejected == ~(names \subseteq KnownOptions(tool)) \/ (tool = "gen" /\ names # DOMAIN args)
      exit == CASE rejected -> "usage"
                [] ~rejected /\ HasAny(args, Help) -> "help"
                [] ~rejected /\ ~HasAny(args, Help) /\ BadValue(tool, args) -> "error"
                [] OTHER -> Checked(tool, values, dump, inputs)
  IN  IF exit = "none"
      THEN [exit |-> "run", values |-> values, flags |-> Present(tool, args), inputs |-> inputs]
      ELSE [exit |-> exit]

-----------------------------------------------------------------------------
(***************************************************************************)
(* The usage texts, as a reader of them would apply them: an option that   *)
(* is listed with a value takes the next word, a flag takes nothing.       *)
(***************************************************************************)
UsageValue(tool, line, i) ==
  i > 1 /\ Bare(line[i - 1]) /\ line[i - 1].name \in Valued(tool)

Written(line, i) == IF line[i].eq THEN line[i].text ELSE line[i + 1].text

UsageInputs(tool, line) ==
  LET among[i \in 0..Len(line)] ==
        IF i = 0 THEN <<>>
        ELSE IF IsOption(line[i]) \/ UsageValue(tool, line, i) THEN among[i - 1]
        ELSE Append(among[i - 1], line[i].text)
  IN  among[Len(line)]

\* A line that a reader of the usage text would call well formed.
FollowsUsage(tool, line) ==
  \A i \in 1..Len(line) :
    IsOption(line[i]) =>
      /\ line[i].name \in KnownOptions(tool)
      /\ \A r \in Settings[tool], j \in 1..Len(line) :
           {line[i].name, line[j].name} \subseteq Names(r.names) => j = i
      /\ line[i].name \in Valued(tool) /\ ~line[i].eq =>
           i < Len(line) /\ ~IsOption(line[i + 1])
      /\ line[i].name \in FlagNames(tool) => ~line[i].eq

\* A flag is the last word, or an option comes next.
NoFlagBeforeInput(tool, line) ==
  \A i \in 1..Len(line) :
    IsOption(line[i]) /\ line[i].name \in FlagNames(tool) =>
      i = Len(line) \/ IsOption(line[i + 1])

\* The lines on which it makes no difference that CmdArgs does not know which options
\* have values.
WellFormed(tool, line) == FollowsUsage(tool, line) /\ NoFlagBeforeInput(tool, line)

\* A tool runs with what a reader of its usage text would expect of the line: every
\* option has the value written for it and otherwise its default, a flag is set when
\* it is given, and the other words are the inputs, in order.
Understood(tool, line) ==
  LET options == ParseOptions(tool, line)
      At(names) == {i \in 1..Len(line) : IsOption(line[i]) /\ line[i].name \in Names(names)}
  IN  /\ At(Help) # {} => options.exit \in {"help", "usage"}
      /\ options.exit = "run" =>
           /\ \A r \in Settings[tool] :
                IF At(r.names) = {} THEN options.values[r.key] = r.default
                ELSE \A i \in At(r.names) : options.values[r.key] = Written(line, i)
           /\ options.flags = {f \in Flags[tool] : At(f) # {}}
           /\ options.inputs = UsageInputs(tool, line)
      /\ options.exit = "usage" =>
           Len(UsageInputs(tool, line)) \notin (IF tool = "gen" THEN {0} ELSE {1})
==============================================================================
