--------------------------- MODULE ToolChainProofs ---------------------------
(***************************************************************************)
(* Proofs about ToolChain: that the four programs understand their command *)
(* lines, of any length, and what checkpoint_print shows of a ring.        *)
(***************************************************************************)
EXTENDS ToolChain, ItchToolsProofs

Words == [dash : BOOLEAN, name : STRING, eq : BOOLEAN, text : STRING]

\* No option of the tool is named like a number.
NamesAreNoNumbers(t) == \A n \in Nat : PositionalName(n) \notin KnownOptions(t)

\* The options of the line that go by one of the names.
Given(line, names) == {i \in 1..Len(line) : IsOption(line[i]) /\ line[i].name \in Names(names)}

\* The names of an option differ from one another.
Distinct(names) ==
  /\ Len(names) \in Nat
  /\ \A i \in 1..Len(names), j \in 1..Len(names) : names[i] = names[j] => i = j

LEMMA OneName ==
  ASSUME NEW a PROVE Distinct(<<a>>)
  BY DEF Distinct

LEMMA TwoNames ==
  ASSUME NEW a, NEW b, a # b PROVE Distinct(<<a, b>>)
  BY DEF Distinct

LEMMA ThreeNames ==
  ASSUME NEW a, NEW b, NEW c, a # b, b # c, a # c PROVE Distinct(<<a, b, c>>)
  BY DEF Distinct

\* The settings of a tool have different keys, and each has distinct names.
WellNamed(settings) ==
  /\ \A r \in settings, s \in settings : r.key = s.key => r = s
  /\ \A r \in settings : Distinct(r.names)

LEMMA ServerNames == WellNamed(ServerSettings)
<1> DEFINE output == R("output", <<"o", "output">>, "text", "")
           output_dir == R("output-dir", <<"output-dir">>, "text", ".")
           suffix == R("suffix", <<"suffix">>, "text", ".dat")
           block_bytes == R("block-bytes", <<"block-bytes">>, "uint", "1048576")
           poll_us == R("poll-us", <<"poll-us">>, "uint", "1000")
           rows == {output, output_dir, suffix, block_bytes, poll_us}
<1>1. ServerSettings = rows
  BY Zenon DEF ServerSettings
<1>2. /\ output.key = "output"
      /\ output_dir.key = "output-dir"
      /\ suffix.key = "suffix"
      /\ block_bytes.key = "block-bytes"
      /\ poll_us.key = "poll-us"
  BY DEF R
<1>3. /\ Distinct(output.names)
      /\ Distinct(output_dir.names)
      /\ Distinct(suffix.names)
      /\ Distinct(block_bytes.names)
      /\ Distinct(poll_us.names)
  BY OneName, TwoNames, ThreeNames DEF R
<1> HIDE DEF output, output_dir, suffix, block_bytes, poll_us
<1> QED
  BY <1>1, <1>2, <1>3 DEF WellNamed

LEMMA CheckpointPrintNames == WellNamed(CheckpointPrintSettings)
<1> DEFINE limit == R("limit", <<"n", "limit">>, "uint", "0")
           literals == R("literals", <<"l", "literals", "literal-strings">>, "text", "")
           rows == {limit, literals}
<1>1. CheckpointPrintSettings = rows
  BY Zenon DEF CheckpointPrintSettings
<1>2. /\ limit.key = "limit"
      /\ literals.key = "literals"
  BY DEF R
<1>3. /\ Distinct(limit.names)
      /\ Distinct(literals.names)
  BY OneName, TwoNames, ThreeNames DEF R
<1> HIDE DEF limit, literals
<1> QED
  BY <1>1, <1>2, <1>3 DEF WellNamed

LEMMA GenNames == WellNamed(GenSettings)
<1> DEFINE checkpoint_file == R("checkpoint-file", <<"checkpoint-file">>, "text", "")
           checkpoint_capacity == R("checkpoint-capacity", <<"checkpoint-capacity">>, "uint", "1048576")
           output == R("output", <<"o", "output">>, "text", "market_data.pcap")
           counted == R("count", <<"n", "count">>, "uint", "1000")
           size == R("size", <<"s", "size">>, "uint", "128")
           kind == R("mode", <<"m", "mode">>, "text", "itch5")
           symbol == R("symbol", <<"symbol">>, "text", "REALPERF")
           src_ip == R("src-ip", <<"src-ip">>, "text", "10.1.1.1")
           dst_ip == R("dst-ip", <<"dst-ip">>, "text", "239.1.1.1")
           src_port == R("src-port", <<"src-port">>, "u16", "50000")
           dst_port == R("dst-port", <<"dst-port">>, "u16", "26477")
           seed == R("seed", <<"seed">>, "uint", "1")
           rows == {checkpoint_file, checkpoint_capacity, output, counted, size, kind, symbol,
                    src_ip, dst_ip, src_port, dst_port, seed}
<1>1. GenSettings = rows
  BY Zenon DEF GenSettings, RecordingSettings
<1>2. /\ checkpoint_file.key = "checkpoint-file"
      /\ checkpoint_capacity.key = "checkpoint-capacity"
      /\ output.key = "output"
      /\ counted.key = "count"
      /\ size.key = "size"
      /\ kind.key = "mode"
      /\ symbol.key = "symbol"
      /\ src_ip.key = "src-ip"
      /\ dst_ip.key = "dst-ip"
      /\ src_port.key = "src-port"
      /\ dst_port.key = "dst-port"
      /\ seed.key = "seed"
  BY DEF R
<1>3. /\ Distinct(checkpoint_file.names)
      /\ Distinct(checkpoint_capacity.names)
      /\ Distinct(output.names)
      /\ Distinct(counted.names)
      /\ Distinct(size.names)
      /\ Distinct(kind.names)
      /\ Distinct(symbol.names)
      /\ Distinct(src_ip.names)
      /\ Distinct(dst_ip.names)
      /\ Distinct(src_port.names)
      /\ Distinct(dst_port.names)
      /\ Distinct(seed.names)
  BY OneName, TwoNames, ThreeNames DEF R
<1> HIDE DEF checkpoint_file, checkpoint_capacity, output, counted, size, kind, symbol, src_ip,
             dst_ip, src_port, dst_port, seed
<1> QED
  BY <1>1, <1>2, <1>3 DEF WellNamed

LEMMA PrintNames == WellNamed(PrintSettings)
<1> DEFINE checkpoint_file == R("checkpoint-file", <<"checkpoint-file">>, "text", "")
           checkpoint_capacity == R("checkpoint-capacity", <<"checkpoint-capacity">>, "uint", "1048576")
           limit == R("limit", <<"n", "limit">>, "uint", "0")
           rows == {checkpoint_file, checkpoint_capacity, limit}
<1>1. PrintSettings = rows
  BY Zenon DEF PrintSettings, RecordingSettings
<1>2. /\ checkpoint_file.key = "checkpoint-file"
      /\ checkpoint_capacity.key = "checkpoint-capacity"
      /\ limit.key = "limit"
  BY DEF R
<1>3. /\ Distinct(checkpoint_file.names)
      /\ Distinct(checkpoint_capacity.names)
      /\ Distinct(limit.names)
  BY OneName, TwoNames, ThreeNames DEF R
<1> HIDE DEF checkpoint_file, checkpoint_capacity, limit
<1> QED
  BY <1>1, <1>2, <1>3 DEF WellNamed

LEMMA SettingsDiffer ==
  ASSUME NEW t \in Tools
  PROVE  WellNamed(Settings[t])
<1>1. t \in {"server", "checkpoint_print", "gen", "print"}
  BY DEF Tools, Settings
<1>2. \/ Settings[t] = ServerSettings \/ Settings[t] = CheckpointPrintSettings
      \/ Settings[t] = GenSettings \/ Settings[t] = PrintSettings
  BY <1>1 DEF Settings
<1> QED
  BY <1>2, ServerNames, CheckpointPrintNames, GenNames, PrintNames

\* No option is the value of another one.
LEMMA OptionsAreNoValues ==
  ASSUME NEW line \in Seq(Words)
  PROVE  OptionsAt(line) = {i \in 1..Len(line) : IsOption(line[i])}
<1>1. \A i \in 1..Len(line) : IsValue(line, i) => ~IsOption(line[i])
  BY DEF IsValue, TakesNext
<1> QED
  BY <1>1 DEF OptionsAt

\* CmdArgs takes for values exactly the words that the usage text of the tool
\* gives to its options.
LEMMA ValuesAsUsage ==
  ASSUME NEW t \in Tools, NEW line \in Seq(Words), WellFormed(t, line),
         NEW i \in 1..Len(line)
  PROVE  IsValue(line, i) <=> UsageValue(t, line, i)
<1>1. CASE i = 1
  BY <1>1 DEF IsValue, UsageValue
<1>2. CASE i > 1
  <2>1. i - 1 \in 1..Len(line) /\ i - 1 < Len(line) /\ (i - 1) + 1 = i
    BY <1>2
  <2>2. Bare(line[i - 1]) =>
          /\ line[i - 1].name \in KnownOptions(t)
          /\ line[i - 1].name \in Valued(t) => ~IsOption(line[i])
          /\ line[i - 1].name \in FlagNames(t) => IsOption(line[i])
    BY <2>1 DEF WellFormed, FollowsUsage, NoFlagBeforeInput, Bare
  <2> QED
    BY <1>2, <2>1, <2>2 DEF IsValue, TakesNext, UsageValue, KnownOptions
<1> QED
  BY <1>1, <1>2

\* The text that CmdArgs keeps for an option is the one written for it.
LEMMA GivenAsWritten ==
  ASSUME NEW t \in Tools, NEW line \in Seq(Words), WellFormed(t, line),
         NEW i \in 1..Len(line), IsOption(line[i]), line[i].name \in Valued(t)
  PROVE  GivenText(line, i) = Written(line, i)
<1>1. ~line[i].eq => i < Len(line) /\ ~IsOption(line[i + 1])
  BY DEF WellFormed, FollowsUsage
<1> QED
  BY <1>1 DEF GivenText, Written, TakesNext, Bare

\* An option is found under its name exactly when the line has it.
LEMMA FoundIfGiven ==
  ASSUME NEW t \in Tools, NEW line \in Seq(Words), NamesAreNoNumbers(t),
         NEW name \in KnownOptions(t)
  PROVE  name \in DOMAIN Args(line)
           <=> \E i \in 1..Len(line) : IsOption(line[i]) /\ line[i].name = name
<1>1. DOMAIN Args(line) = {line[i].name : i \in OptionsAt(line)}
                            \cup {PositionalName(k - 1) : k \in 1..Len(Positionals(line))}
  BY DEF Args
<1>2. \A k \in 1..Len(Positionals(line)) : PositionalName(k - 1) # name
  BY DEF NamesAreNoNumbers
<1> QED
  BY <1>1, <1>2, OptionsAreNoValues

LEMMA HasAnyIfGiven ==
  ASSUME NEW t \in Tools, NEW line \in Seq(Words), NamesAreNoNumbers(t),
         NEW names, Names(names) \subseteq KnownOptions(t)
  PROVE  HasAny(Args(line), names) <=> Given(line, names) # {}
<1>1. \A k \in 1..Len(names) : names[k] \in KnownOptions(t)
  BY DEF Names
<1> QED
  BY <1>1, FoundIfGiven DEF HasAny, Given, Names

\* The names of a setting are options that the tool knows.
LEMMA SettingKnown ==
  ASSUME NEW t \in Tools, NEW r \in Settings[t]
  PROVE  Names(r.names) \subseteq Valued(t) /\ Valued(t) \subseteq KnownOptions(t)
  BY DEF Valued, KnownOptions

\* An option that was given once has the text written for it.
LEMMA ValueOfGiven ==
  ASSUME NEW t \in Tools, NEW line \in Seq(Words), NamesAreNoNumbers(t),
         WellFormed(t, line), NEW r \in Settings[t], NEW i \in Given(line, r.names)
  PROVE  Args(line)[Find(Args(line), r.names)] = Written(line, i)
<1> DEFINE name == line[i].name
<1>1. i \in 1..Len(line) /\ IsOption(line[i]) /\ name \in Names(r.names)
  BY DEF Given
<1>2. name \in Valued(t) /\ name \in KnownOptions(t)
  BY <1>1, SettingKnown
<1>3. \A j \in 1..Len(line) : IsOption(line[j]) /\ line[j].name \in Names(r.names) => j = i
  BY <1>1 DEF WellFormed, FollowsUsage
<1>4. name \in DOMAIN Args(line)
  BY <1>1, <1>2, FoundIfGiven
<1>5. \A other \in Names(r.names) : other \in DOMAIN Args(line) => other = name
  BY <1>3, SettingKnown, FoundIfGiven
<1>6. Find(Args(line), r.names) = name
  <2>1. PICK k \in 1..Len(r.names) : r.names[k] = name
    BY <1>1 DEF Names
  <2>2. \A j \in 1..Len(r.names) : r.names[j] \in DOMAIN Args(line) <=> r.names[j] = name
    BY <1>4, <1>5 DEF Names
  <2>3. \A j \in 1..Len(r.names) : r.names[j] = name => j = k
    BY <2>1, SettingsDiffer DEF WellNamed, Distinct
  <2>4. Len(r.names) \in Nat
    BY SettingsDiffer DEF WellNamed, Distinct
  <2>5. \A j \in 1..(k - 1) : r.names[j] \notin DOMAIN Args(line)
    BY <2>2, <2>3, <2>4
  <2> QED
    BY <2>1, <2>2, <2>3, <2>5, <1>4 DEF Find
<1>7. Args(line)[name] = GivenText(line, i)
  <2>1. {j \in OptionsAt(line) : line[j].name = name} = {i}
    BY <1>1, <1>3, OptionsAreNoValues
  <2>2. (CHOOSE j \in {i} : \A l \in {i} : l <= j) = i
    BY <1>1
  <2> QED
    BY <1>4, <2>1, <2>2 DEF Args
<1> QED
  BY <1>1, <1>2, <1>6, <1>7, GivenAsWritten

\* CmdArgs does not know which options take a value.  All the same, on every line,
\* of any length, that a reader of a tool's usage text calls well formed and that
\* has no flag in front of an input, parse_options finds for each option the value
\* written for it, or else its default, sees the flags and the request for help
\* that are there, and takes for values the words that the usage text gives away.
THEOREM OptionsAsWritten ==
  ASSUME NEW t \in Tools, NEW line \in Seq(Words), NamesAreNoNumbers(t),
         WellFormed(t, line)
  PROVE  /\ \A r \in Settings[t] :
              IF Given(line, r.names) = {} THEN Values(t, Args(line))[r.key] = r.default
              ELSE \A i \in Given(line, r.names) :
                     Values(t, Args(line))[r.key] = Written(line, i)
         /\ Present(t, Args(line)) = {f \in Flags[t] : Given(line, f) # {}}
         /\ HasAny(Args(line), Help) <=> Given(line, Help) # {}
         /\ \A i \in 1..Len(line) : IsValue(line, i) <=> UsageValue(t, line, i)
<1>1. ASSUME NEW r \in Settings[t]
      PROVE  IF Given(line, r.names) = {} THEN Values(t, Args(line))[r.key] = r.default
             ELSE \A i \in Given(line, r.names) :
                    Values(t, Args(line))[r.key] = Written(line, i)
  <2>1. (CHOOSE s \in Settings[t] : s.key = r.key) = r
    BY SettingsDiffer DEF WellNamed
  <2>2. Values(t, Args(line))[r.key]
          = IF HasAny(Args(line), r.names) THEN Args(line)[Find(Args(line), r.names)]
            ELSE r.default
    BY <2>1 DEF Values
  <2>3. HasAny(Args(line), r.names) <=> Given(line, r.names) # {}
    BY SettingKnown, HasAnyIfGiven
  <2> QED
    BY <2>2, <2>3, ValueOfGiven
<1>2. Present(t, Args(line)) = {f \in Flags[t] : Given(line, f) # {}}
  <2>1. \A f \in Flags[t] : Names(f) \subseteq KnownOptions(t)
    BY DEF FlagNames, KnownOptions
  <2> QED
    BY <2>1, HasAnyIfGiven DEF Present
<1>3. HasAny(Args(line), Help) <=> Given(line, Help) # {}
  <2>1. Names(Help) \subseteq KnownOptions(t)
    BY DEF FlagNames, KnownOptions
  <2> QED
    BY <2>1, HasAnyIfGiven
<1> QED
  BY <1>1, <1>2, <1>3, ValuesAsUsage

\* The checks of parse_options let the options pass or name what is wrong.
LEMMA CheckedOutcome ==
  ASSUME NEW t \in Tools, NEW values, NEW dump \in BOOLEAN, NEW inputs
  PROVE  Checked(t, values, dump, inputs) \in {"none", "usage", "error"}
  BY DEF Checked, Tools, Settings

\* What parse_options makes of the values, flags and help that it has found.
LEMMA ParsedFromArgs ==
  ASSUME NEW t \in Tools, NEW line
  PROVE  LET args == Args(line)
             parsed == ParseOptions(t, line)
         IN  /\ parsed.exit = "run" =>
                  parsed.values = Values(t, args) /\ parsed.flags = Present(t, args)
             /\ HasAny(args, Help) => parsed.exit \in {"help", "usage"}
<1> DEFINE args == Args(line)
           n == Len(Positionals(line))
           values == Values(t, args)
           dump == HasAny(args, <<"dump-literals">>)
           inputs == Inputs(args, n)
           names == {name \in DOMAIN args : ~IsPositional(name)}
           rejected == ~(names \subseteq KnownOptions(t)) \/ (t = "gen" /\ names # DOMAIN args)
           exit == CASE rejected -> "usage"
                     [] ~rejected /\ HasAny(args, Help) -> "help"
                     [] ~rejected /\ ~HasAny(args, Help) /\ BadValue(t, args) -> "error"
                     [] OTHER -> Checked(t, values, dump, inputs)
<1>1. ParseOptions(t, line) =
        IF exit = "none"
        THEN [exit |-> "run", values |-> values, flags |-> Present(t, args), inputs |-> inputs]
        ELSE [exit |-> exit]
  BY Zenon DEF ParseOptions
<1>2. exit \in {"none", "usage", "help", "error"}
  <2>1. dump \in BOOLEAN
    BY DEF HasAny
  <2>2. Checked(t, values, dump, inputs) \in {"none", "usage", "error"}
    BY <2>1, CheckedOutcome
  <2> QED
    BY <2>2
<1>3. HasAny(args, Help) => exit \in {"usage", "help"}
  OBVIOUS
<1> HIDE DEF exit, values, inputs, args
<1> QED
  BY <1>1, <1>2, <1>3 DEF args, values

\* A program that runs, runs with what its user wrote, and one that is asked for
\* help does not run: OptionsAsWritten, for what parse_options returns.
THEOREM RunsAsWritten ==
  ASSUME NEW t \in Tools, NEW line \in Seq(Words), NamesAreNoNumbers(t),
         WellFormed(t, line)
  PROVE  LET parsed == ParseOptions(t, line)
         IN  /\ parsed.exit = "run" =>
                  /\ \A r \in Settings[t] :
                       IF Given(line, r.names) = {} THEN parsed.values[r.key] = r.default
                       ELSE \A i \in Given(line, r.names) :
                              parsed.values[r.key] = Written(line, i)
                  /\ parsed.flags = {f \in Flags[t] : Given(line, f) # {}}
             /\ Given(line, Help) # {} => parsed.exit \in {"help", "usage"}
  BY OptionsAsWritten, ParsedFromArgs

-----------------------------------------------------------------------------
(***************************************************************************)
(* The inputs of a line: its words without those in a set, in order.       *)
(***************************************************************************)
\* For each i, the texts of the first i words that are not in skipped.
Kept(f, line, skipped) ==
  f = [i \in 0..Len(line) |->
         IF i = 0 THEN <<>>
         ELSE IF i \in skipped THEN f[i - 1] ELSE Append(f[i - 1], line[i].text)]

LEMMA KeptSteps ==
  ASSUME NEW line, Len(line) \in Nat, NEW skipped, NEW f
  PROVE  Kept(f, line, skipped) <=>
           /\ f = [i \in 0..Len(line) |-> f[i]] /\ f[0] = <<>>
           /\ \A i \in 1..Len(line) :
                f[i] = IF i \in skipped THEN f[i - 1] ELSE Append(f[i - 1], line[i].text)
<1>1. \A i \in 0..Len(line) : i # 0 <=> i \in 1..Len(line)
  OBVIOUS
<1>2. 0 \in 0..Len(line)
  OBVIOUS
<1>3. ASSUME Kept(f, line, skipped)
      PROVE  /\ f = [i \in 0..Len(line) |-> f[i]] /\ f[0] = <<>>
             /\ \A i \in 1..Len(line) :
                  f[i] = IF i \in skipped THEN f[i - 1] ELSE Append(f[i - 1], line[i].text)
  <2>1. \A i \in 0..Len(line) : f[i] =
         IF i = 0 THEN <<>>
         ELSE IF i \in skipped THEN f[i - 1] ELSE Append(f[i - 1], line[i].text)
    BY <1>3, Zenon DEF Kept
  <2>2. f = [i \in 0..Len(line) |-> f[i]]
    BY <1>3, Zenon DEF Kept
  <2> QED
    BY <1>1, <1>2, <2>1, <2>2
<1>4. ASSUME f = [i \in 0..Len(line) |-> f[i]], f[0] = <<>>,
             \A i \in 1..Len(line) :
               f[i] = IF i \in skipped THEN f[i - 1] ELSE Append(f[i - 1], line[i].text)
      PROVE  Kept(f, line, skipped)
  <2>1. \A i \in 0..Len(line) : f[i] =
         IF i = 0 THEN <<>>
         ELSE IF i \in skipped THEN f[i - 1] ELSE Append(f[i - 1], line[i].text)
    BY <1>1, <1>2, <1>4
  <2> QED
    BY <1>4, <2>1, Zenon DEF Kept
<1> QED
  BY <1>3, <1>4

LEMMA KeptExists ==
  ASSUME NEW line, Len(line) \in Nat, NEW skipped
  PROVE  \E f : Kept(f, line, skipped)
<1> DEFINE n == Len(line)
           Part(f, m) == /\ f = [i \in 0..m |-> f[i]] /\ f[0] = <<>>
                         /\ \A i \in 1..m :
                              f[i] = IF i \in skipped THEN f[i - 1] ELSE Append(f[i - 1], line[i].text)
           T == {m \in 0..n : \E f : Part(f, m)}
<1>1. 0 \in T
  <2>1. Part([i \in 0..0 |-> <<>>], 0)
    OBVIOUS
  <2> HIDE DEF Part
  <2>2. 0 \in 0..n
    OBVIOUS
  <2> QED
    BY <2>1, <2>2
<1>2. ASSUME NEW m \in 0..(n - 1), m \in T PROVE m + 1 \in T
  <2>1. PICK f : Part(f, m)
    BY <1>2
  <2> DEFINE k == m + 1
             next == IF k \in skipped THEN f[m] ELSE Append(f[m], line[k].text)
             g == [i \in 0..k |-> IF i = k THEN next ELSE f[i]]
  <2>2. k \in 0..n /\ m \in 0..m /\ k - 1 = m /\ m \in Nat
    OBVIOUS
  <2>3. \A i \in 0..k : g[i] = IF i = k THEN next ELSE f[i]
    OBVIOUS
  <2>4. g = [i \in 0..k |-> g[i]]
    OBVIOUS
  <2> HIDE DEF g
  <2>5. ASSUME NEW i \in 1..k
        PROVE  g[i] = IF i \in skipped THEN g[i - 1] ELSE Append(g[i - 1], line[i].text)
    <3>1. i \in 0..k /\ i - 1 \in 0..k /\ i - 1 # k /\ (i # k => i \in 1..m)
      BY <2>2
    <3>2. g[i - 1] = f[i - 1]
      BY <2>3, <3>1
    <3>3. CASE i = k
      BY <2>2, <2>3, <3>1, <3>2, <3>3
    <3>4. CASE i # k
      <4>1. g[i] = f[i]
        BY <2>3, <3>1, <3>4
      <4>2. f[i] = IF i \in skipped THEN f[i - 1] ELSE Append(f[i - 1], line[i].text)
        BY <2>1, <3>1, <3>4
      <4> QED
        BY <3>2, <4>1, <4>2
    <3> QED
      BY <3>3, <3>4
  <2>6. g[0] = <<>>
    <3>1. 0 \in 0..k /\ 0 # k
      BY <2>2
    <3> QED
      BY <2>1, <2>3, <3>1
  <2>7. Part(g, k)
    BY <2>4, <2>5, <2>6
  <2> HIDE DEF Part
  <2> QED
    BY <2>2, <2>7
<1>3. n \in T
  <2> HIDE DEF T
  <2>1. \A i \in 0..n : i \in T
    BY <1>1, <1>2, StepByStep
  <2> QED
    BY <2>1
<1>4. PICK f : Part(f, n)
  BY <1>3
<1> QED
  BY <1>4, KeptSteps

LEMMA KeptSame ==
  ASSUME NEW line, Len(line) \in Nat, NEW skipped, NEW f, Kept(f, line, skipped),
         NEW other, NEW g, Kept(g, line, other),
         \A i \in 1..Len(line) : i \in skipped <=> i \in other
  PROVE  f[Len(line)] = g[Len(line)]
<1> DEFINE T == {i \in Nat : f[i] = g[i]}
<1>1. /\ f[0] = <<>> /\ g[0] = <<>>
      /\ \A i \in 1..Len(line) :
           /\ f[i] = IF i \in skipped THEN f[i - 1] ELSE Append(f[i - 1], line[i].text)
           /\ g[i] = IF i \in other THEN g[i - 1] ELSE Append(g[i - 1], line[i].text)
  BY KeptSteps
<1>2. 0 \in T
  BY <1>1
<1>3. ASSUME NEW i \in 0..(Len(line) - 1), i \in T PROVE i + 1 \in T
  <2>1. i + 1 \in 1..Len(line) /\ (i + 1) - 1 = i
    OBVIOUS
  <2> QED
    BY <1>1, <1>3, <2>1
<1> HIDE DEF T
<1>4. \A i \in 0..Len(line) : i \in T
  BY <1>2, <1>3, StepByStep
<1> QED
  BY <1>4 DEF T

LEMMA KeptTexts ==
  ASSUME NEW line, Len(line) \in Nat, NEW S, \A i \in 1..Len(line) : line[i].text \in S,
         NEW skipped, NEW f, Kept(f, line, skipped)
  PROVE  f[Len(line)] \in Seq(S)
<1> DEFINE T == {i \in Nat : f[i] \in Seq(S)}
<1>1. /\ f[0] = <<>>
      /\ \A i \in 1..Len(line) :
           f[i] = IF i \in skipped THEN f[i - 1] ELSE Append(f[i - 1], line[i].text)
  BY KeptSteps
<1>2. 0 \in T
  <2>1. <<>> \in Seq(S)
    OBVIOUS
  <2> QED
    BY <1>1, <2>1
<1>3. ASSUME NEW i \in 0..(Len(line) - 1), i \in T PROVE i + 1 \in T
  <2> DEFINE text == line[i + 1].text
             head == f[i]
  <2>1. i + 1 \in 1..Len(line) /\ (i + 1) - 1 = i
    OBVIOUS
  <2>2. text \in S
    BY <2>1
  <2>3. head \in Seq(S)
    BY <1>3
  <2>4. f[i + 1] = head \/ f[i + 1] = Append(head, text)
    BY <1>1, <2>1
  <2> HIDE DEF text, head
  <2>5. Append(head, text) \in Seq(S)
    BY <2>2, <2>3
  <2>6. f[i + 1] \in Seq(S)
    BY <2>3, <2>4, <2>5, Zenon
  <2> QED
    BY <2>6
<1> HIDE DEF T
<1>4. \A i \in 0..Len(line) : i \in T
  BY <1>2, <1>3, StepByStep
<1> QED
  BY <1>4 DEF T

\* What Positionals and UsageInputs compute.
SkippedWords(line) == {i \in 1..Len(line) : IsOption(line[i]) \/ IsValue(line, i)}

UsageSkips(t, line) == {i \in 1..Len(line) : IsOption(line[i]) \/ UsageValue(t, line, i)}

LEMMA PositionalsKept ==
  ASSUME NEW line, Len(line) \in Nat
  PROVE  \E f : Kept(f, line, SkippedWords(line)) /\ Positionals(line) = f[Len(line)]
<1> DEFINE among[i \in 0..Len(line)] ==
             IF i = 0 THEN <<>>
             ELSE IF IsOption(line[i]) \/ IsValue(line, i) THEN among[i - 1]
             ELSE Append(among[i - 1], line[i].text)
<1>1. \A i \in 0..Len(line) :
        i # 0 => (i \in SkippedWords(line) <=> IsOption(line[i]) \/ IsValue(line, i))
  BY DEF SkippedWords
<1>2. PICK f : Kept(f, line, SkippedWords(line))
  BY KeptExists
<1>3. f = [i \in 0..Len(line) |->
             IF i = 0 THEN <<>>
             ELSE IF IsOption(line[i]) \/ IsValue(line, i) THEN f[i - 1]
             ELSE Append(f[i - 1], line[i].text)]
  BY <1>1, <1>2, Zenon DEF Kept
<1>4. among = [i \in 0..Len(line) |->
                 IF i = 0 THEN <<>>
                 ELSE IF IsOption(line[i]) \/ IsValue(line, i) THEN among[i - 1]
                 ELSE Append(among[i - 1], line[i].text)]
  BY <1>3, Zenon
<1>5. Kept(among, line, SkippedWords(line))
  BY <1>1, <1>4, Zenon DEF Kept
<1>6. Positionals(line) = among[Len(line)]
  BY Zenon DEF Positionals
<1> QED
  BY <1>5, <1>6

LEMMA UsageInputsKept ==
  ASSUME NEW t, NEW line, Len(line) \in Nat
  PROVE  \E f : Kept(f, line, UsageSkips(t, line)) /\ UsageInputs(t, line) = f[Len(line)]
<1> DEFINE among[i \in 0..Len(line)] ==
             IF i = 0 THEN <<>>
             ELSE IF IsOption(line[i]) \/ UsageValue(t, line, i) THEN among[i - 1]
             ELSE Append(among[i - 1], line[i].text)
<1>1. \A i \in 0..Len(line) :
        i # 0 => (i \in UsageSkips(t, line) <=> IsOption(line[i]) \/ UsageValue(t, line, i))
  BY DEF UsageSkips
<1>2. PICK f : Kept(f, line, UsageSkips(t, line))
  BY KeptExists
<1>3. f = [i \in 0..Len(line) |->
             IF i = 0 THEN <<>>
             ELSE IF IsOption(line[i]) \/ UsageValue(t, line, i) THEN f[i - 1]
             ELSE Append(f[i - 1], line[i].text)]
  BY <1>1, <1>2, Zenon DEF Kept
<1>4. among = [i \in 0..Len(line) |->
                 IF i = 0 THEN <<>>
                 ELSE IF IsOption(line[i]) \/ UsageValue(t, line, i) THEN among[i - 1]
                 ELSE Append(among[i - 1], line[i].text)]
  BY <1>3, Zenon
<1>5. Kept(among, line, UsageSkips(t, line))
  BY <1>1, <1>4, Zenon DEF Kept
<1>6. UsageInputs(t, line) = among[Len(line)]
  BY Zenon DEF UsageInputs
<1> QED
  BY <1>5, <1>6

\* The inputs of a well-formed line are the words that the usage text leaves.
LEMMA InputsAsUsage ==
  ASSUME NEW t \in Tools, NEW line \in Seq(Words), WellFormed(t, line)
  PROVE  Positionals(line) = UsageInputs(t, line) /\ Positionals(line) \in Seq(STRING)
<1>1. PICK f : Kept(f, line, SkippedWords(line)) /\ Positionals(line) = f[Len(line)]
  BY PositionalsKept
<1>2. PICK g : Kept(g, line, UsageSkips(t, line)) /\ UsageInputs(t, line) = g[Len(line)]
  BY UsageInputsKept
<1>3. \A i \in 1..Len(line) : i \in SkippedWords(line) <=> i \in UsageSkips(t, line)
  BY ValuesAsUsage DEF SkippedWords, UsageSkips
<1>4. f[Len(line)] = g[Len(line)]
  BY <1>1, <1>2, <1>3, KeptSame
<1>5. f[Len(line)] \in Seq(STRING)
  <2>1. ASSUME NEW i \in 1..Len(line) PROVE line[i].text \in STRING
    <3>1. line[i] \in Words
      OBVIOUS
    <3> QED
      BY <3>1 DEF Words
  <2> QED
    BY <1>1, <2>1, KeptTexts
<1> QED
  BY <1>1, <1>2, <1>4, <1>5

\* std::to_string gives different numbers different names.
PositionsDiffer == \A m \in Nat, n \in Nat : PositionalName(m) = PositionalName(n) => m = n

\* A line of words, with no more inputs than there are numbers for.
LineRead(line) == line \in Seq(Words) /\ \A k \in 1..Len(Positionals(line)) : k - 1 \in Numerals

\* The args_ of a well-formed line: its options under their names, its inputs under their
\* numbers.
LEMMA ArgsOfLine ==
  ASSUME NEW t \in Tools, NEW line, LineRead(line), WellFormed(t, line),
         NamesAreNoNumbers(t), PositionsDiffer
  PROVE  LET args == Args(line)
             words == Positionals(line)
             names == {name \in DOMAIN args : ~IsPositional(name)}
         IN  /\ names \subseteq KnownOptions(t)
             /\ names # DOMAIN args => Len(words) # 0
             /\ Inputs(args, Len(words)) = words
<1> DEFINE args == Args(line)
           words == Positionals(line)
           given == {line[i].name : i \in OptionsAt(line)}
           Named(name) == {i \in OptionsAt(line) : line[i].name = name}
<1>1. line \in Seq(Words) /\ words \in Seq(STRING) /\ Len(words) \in Nat
  BY InputsAsUsage DEF LineRead
<1>2. DOMAIN args = given \cup {PositionalName(k - 1) : k \in 1..Len(words)}
  BY DEF Args
<1>3. given \subseteq KnownOptions(t)
  BY <1>1, OptionsAreNoValues DEF WellFormed, FollowsUsage
<1>4. \A k \in 1..Len(words) : k - 1 \in Nat /\ IsPositional(PositionalName(k - 1))
  <2>1. \A k \in 1..Len(words) : k - 1 \in Numerals
    BY DEF LineRead
  <2> QED
    BY <2>1, NumeralsAssumption DEF IsPositional, PositionalName
<1>5. \A name \in given : ~IsPositional(name)
  BY <1>3, NumeralsAssumption DEF NamesAreNoNumbers, IsPositional, PositionalName
<1>6. ASSUME NEW k \in 1..Len(words)
      PROVE  PositionalName(k - 1) \in DOMAIN args /\ args[PositionalName(k - 1)] = words[k]
  <2> DEFINE name == PositionalName(k - 1)
  <2>1. name \in DOMAIN args
    BY <1>2
  <2>2. Named(name) = {}
    BY <1>3, <1>4 DEF NamesAreNoNumbers
  <2>3. (CHOOSE j \in 1..Len(words) : PositionalName(j - 1) = name) = k
    <3>1. \A j \in 1..Len(words) : PositionalName(j - 1) = name => j = k
      BY <1>1, <1>4 DEF PositionsDiffer
    <3> HIDE DEF words
    <3> QED
      BY <3>1
  <2>4. args[name] = words[CHOOSE j \in 1..Len(words) : PositionalName(j - 1) = name]
    BY <2>1, <2>2, Zenon DEF Args
  <2> QED
    BY <2>1, <2>3, <2>4
<1>7. Inputs(args, Len(words)) = words
  <2> DEFINE n == Len(words)
  <2>1. \A k \in 1..n : ValueFor(args, PositionalName(k - 1)) = words[k]
    BY <1>6 DEF ValueFor
  <2>2. words = [k \in 1..n |-> words[k]]
    BY <1>1
  <2>3. Inputs(args, n) = [k \in 1..n |-> ValueFor(args, PositionalName(k - 1))]
    BY DEF Inputs
  <2> HIDE DEF words, args, n
  <2> QED
    BY <2>1, <2>2, <2>3 DEF n
<1>8. {name \in DOMAIN args : ~IsPositional(name)} = given
  BY <1>2, <1>4, <1>5
<1>9. given # DOMAIN args => Len(words) # 0
  <2> SUFFICES ASSUME Len(words) = 0 PROVE given = DOMAIN args
    OBVIOUS
  <2>1. 1..Len(words) = {}
    BY <1>1
  <2> HIDE DEF words
  <2> QED
    BY <1>2, <2>1
<1> QED
  BY <1>3, <1>7, <1>8, <1>9

\* When the checks ask for the usage text the number of inputs is to blame.
LEMMA UsageIsRight ==
  ASSUME NEW t \in Tools, NEW values, NEW dump \in BOOLEAN, NEW inputs \in Seq(STRING),
         Checked(t, values, dump, inputs) = "usage"
  PROVE  t # "gen" /\ Len(inputs) # 1
<1>1. t # "gen"
  BY DEF Checked
<1>2. inputs = <<>> => Len(inputs) = 0
  OBVIOUS
<1>3. CASE t = "server"
  <2>1. inputs = <<>> \/ (values["output"] # "" /\ Len(inputs) # 1)
    BY <1>3, Zenon DEF Checked
  <2>2. CASE inputs = <<>>
    BY <1>1, <1>2, <2>2
  <2> QED
    BY <1>1, <2>1, <2>2
<1>4. CASE t # "server"
  BY <1>1, <1>4 DEF Checked
<1> QED
  BY <1>1, <1>3, <1>4

\* parse_options of a well-formed line: its inputs, and when it shows the usage text.
LEMMA InputsAsWritten ==
  ASSUME NEW t \in Tools, NEW line, LineRead(line), WellFormed(t, line),
         NamesAreNoNumbers(t), PositionsDiffer
  PROVE  LET parsed == ParseOptions(t, line)
         IN  /\ parsed.exit = "run" => parsed.inputs = UsageInputs(t, line)
             /\ parsed.exit = "usage" =>
                  Len(UsageInputs(t, line)) \notin (IF t = "gen" THEN {0} ELSE {1})
<1> DEFINE args == Args(line)
           n == Len(Positionals(line))
           values == Values(t, args)
           dump == HasAny(args, <<"dump-literals">>)
           inputs == Inputs(args, n)
           names == {name \in DOMAIN args : ~IsPositional(name)}
           rejected == ~(names \subseteq KnownOptions(t)) \/ (t = "gen" /\ names # DOMAIN args)
           exit == CASE rejected -> "usage"
                     [] ~rejected /\ HasAny(args, Help) -> "help"
                     [] ~rejected /\ ~HasAny(args, Help) /\ BadValue(t, args) -> "error"
                     [] OTHER -> Checked(t, values, dump, inputs)
           parsed == ParseOptions(t, line)
<1>1. parsed =
        IF exit = "none"
        THEN [exit |-> "run", values |-> values, flags |-> Present(t, args), inputs |-> inputs]
        ELSE [exit |-> exit]
  BY Zenon DEF ParseOptions
<1>2. /\ names \subseteq KnownOptions(t) /\ (names # DOMAIN args => n # 0)
      /\ inputs = Positionals(line)
  BY ArgsOfLine
<1>3. Positionals(line) = UsageInputs(t, line) /\ Positionals(line) \in Seq(STRING)
  BY InputsAsUsage DEF LineRead
<1>4. exit \in {"none", "usage", "help", "error"}
  <2>1. dump \in BOOLEAN
    BY DEF HasAny
  <2>2. Checked(t, values, dump, inputs) \in {"none", "usage", "error"}
    BY <2>1, CheckedOutcome
  <2> QED
    BY <2>2
<1>5. exit = "usage" => IF t = "gen" THEN n # 0 ELSE n # 1
  <2> SUFFICES ASSUME exit = "usage" PROVE IF t = "gen" THEN n # 0 ELSE n # 1
    OBVIOUS
  <2>1. CASE rejected
    BY <1>2, <2>1
  <2>2. CASE ~rejected
    <3>1. dump \in BOOLEAN
      BY DEF HasAny
    <3>2. Checked(t, values, dump, inputs) = "usage"
      BY <2>2
    <3>3. t # "gen" /\ Len(inputs) # 1
      BY <1>2, <1>3, <3>1, <3>2, UsageIsRight
    <3> QED
      BY <1>2, <3>3
  <2> QED
    BY <2>1, <2>2
<1> HIDE DEF exit, inputs, args, values
<1>6. parsed.exit = "run" => parsed.inputs = inputs
  BY <1>1, <1>4
<1>7. parsed.exit = "usage" => exit = "usage"
  BY <1>1, <1>4
<1> QED
  BY <1>2, <1>3, <1>5, <1>6, <1>7

\* Every well-formed line is understood as it is written.
LEMMA LineUnderstood ==
  ASSUME NEW t \in Tools, NEW line, LineRead(line), NamesAreNoNumbers(t), PositionsDiffer,
         WellFormed(t, line)
  PROVE  Understood(t, line)
<1> DEFINE parsed == ParseOptions(t, line)
<1>1. line \in Seq(Words)
  BY DEF LineRead
<1>2. /\ parsed.exit = "run" =>
           /\ \A r \in Settings[t] :
                IF Given(line, r.names) = {} THEN parsed.values[r.key] = r.default
                ELSE \A i \in Given(line, r.names) : parsed.values[r.key] = Written(line, i)
           /\ parsed.flags = {f \in Flags[t] : Given(line, f) # {}}
      /\ Given(line, Help) # {} => parsed.exit \in {"help", "usage"}
  BY <1>1, RunsAsWritten
<1>3. /\ parsed.exit = "run" => parsed.inputs = UsageInputs(t, line)
      /\ parsed.exit = "usage" =>
           Len(UsageInputs(t, line)) \notin (IF t = "gen" THEN {0} ELSE {1})
  BY InputsAsWritten
<1> HIDE DEF parsed
<1> QED
  BY <1>2, <1>3, Zenon DEF Understood, Given, parsed

\* The lines that the programs are started with.
LinesRead ==
  /\ \A t \in {"gen", "print", "checkpoint_print"} : \A line \in ChainLines[t] : LineRead(line)
  /\ \A t \in Tools : \A line \in CommandLines[t] : LineRead(line)

\* The line of the program that was started last.
AskedInv == asked.tool = "none" \/ (asked.tool \in Tools /\ LineRead(asked.line))

\* Whatever lines the four programs are given, of any length: each is understood as a
\* reader of the program's usage text would understand it, if it is well formed and has
\* no flag directly in front of an input.
THEOREM LinesReadAsWritten ==
  ASSUME LinesRead, PositionsDiffer, \A t \in Tools : NamesAreNoNumbers(t)
  PROVE  ChainSpec => []ReadAsWritten
<1>1. ChainInit => AskedInv
  BY DEF ChainInit, AskedInv
<1>2. AskedInv /\ [ChainNext]_chainVars => AskedInv'
  <2> SUFFICES ASSUME AskedInv, [ChainNext]_chainVars PROVE AskedInv'
    OBVIOUS
  <2>1. ASSUME NEW t \in Tools, NEW line, LineRead(line), asked' = [tool |-> t, line |-> line]
        PROVE  AskedInv'
    BY <2>1 DEF AskedInv
  <2>2. {"gen", "print", "checkpoint_print"} \subseteq Tools
    BY DEF Tools, Settings
  <2>3. CASE RunGen
    <3>1. PICK line \in ChainLines.gen : asked' = [tool |-> "gen", line |-> line]
      BY <2>3 DEF RunGen, Starts
    <3> QED
      BY <2>1, <2>2, <3>1 DEF LinesRead
  <2>4. CASE RunPrint
    <3>1. PICK line \in ChainLines.print : asked' = [tool |-> "print", line |-> line]
      BY <2>4 DEF RunPrint, Starts
    <3> QED
      BY <2>1, <2>2, <3>1 DEF LinesRead
  <2>5. CASE RunCheckpointPrint
    <3>1. PICK line \in ChainLines.checkpoint_print :
            asked' = [tool |-> "checkpoint_print", line |-> line]
      BY <2>5 DEF RunCheckpointPrint
    <3> QED
      BY <2>1, <2>2, <3>1 DEF LinesRead
  <2>6. CASE Try
    <3>1. PICK t \in Tools : \E line \in CommandLines[t] : asked' = [tool |-> t, line |-> line]
      BY <2>6 DEF Try
    <3>2. PICK line \in CommandLines[t] : asked' = [tool |-> t, line |-> line]
      BY <3>1
    <3> QED
      BY <2>1, <3>2 DEF LinesRead
  <2>7. CASE Step \/ Done \/ UNCHANGED chainVars
    <3>1. asked' = asked
      BY <2>7 DEF Step, Done, chainVars
    <3> QED
      BY <3>1 DEF AskedInv
  <2> QED
    BY <2>3, <2>4, <2>5, <2>6, <2>7 DEF ChainNext
<1>3. AskedInv => ReadAsWritten
  BY LineUnderstood DEF AskedInv, ReadAsWritten
<1> QED
  BY <1>1, <1>2, <1>3, PTL DEF ChainSpec

-----------------------------------------------------------------------------
(***************************************************************************)
(* The chain runs the tools, with options that parse_options has let pass. *)
(***************************************************************************)
\* A run has no value that does not convert, and has passed the checks.
LEMMA RunIsChecked ==
  ASSUME NEW t \in Tools, NEW line, ParseOptions(t, line).exit = "run"
  PROVE  /\ ~BadValue(t, Args(line))
         /\ t = "gen" => ~GenRejects(ParseOptions(t, line).values,
                                     HasAny(Args(line), <<"dump-literals">>))
<1> DEFINE args == Args(line)
           n == Len(Positionals(line))
           values == Values(t, args)
           dump == HasAny(args, <<"dump-literals">>)
           inputs == Inputs(args, n)
           names == {name \in DOMAIN args : ~IsPositional(name)}
           rejected == ~(names \subseteq KnownOptions(t)) \/ (t = "gen" /\ names # DOMAIN args)
           exit == CASE rejected -> "usage"
                     [] ~rejected /\ HasAny(args, Help) -> "help"
                     [] ~rejected /\ ~HasAny(args, Help) /\ BadValue(t, args) -> "error"
                     [] OTHER -> Checked(t, values, dump, inputs)
           parsed == ParseOptions(t, line)
<1>1. parsed =
        IF exit = "none"
        THEN [exit |-> "run", values |-> values, flags |-> Present(t, args), inputs |-> inputs]
        ELSE [exit |-> exit]
  BY Zenon DEF ParseOptions
<1>2. exit = "none" => ~BadValue(t, args) /\ Checked(t, values, dump, inputs) = "none"
  OBVIOUS
<1>3. exit \in {"none", "usage", "help", "error"}
  <2>1. dump \in BOOLEAN
    BY DEF HasAny
  <2>2. Checked(t, values, dump, inputs) \in {"none", "usage", "error"}
    BY <2>1, CheckedOutcome
  <2> QED
    BY <2>2
<1>4. t = "gen" /\ Checked(t, values, dump, inputs) = "none" => ~GenRejects(values, dump)
  BY DEF Checked
<1> HIDE DEF exit, values, inputs, args, dump
<1>5. exit = "none" /\ parsed.values = values
  BY <1>1, <1>3
<1> QED
  BY <1>2, <1>4, <1>5 DEF args, dump, values

\* The value of a setting that is a number.
LEMMA NumbersOfRun ==
  ASSUME NEW t \in Tools, NEW line, ParseOptions(t, line).exit = "run",
         NEW r \in Settings[t], r.kind = "uint"
  PROVE  NumberOf(ParseOptions(t, line).values[r.key]) \in Nat
<1> DEFINE args == Args(line)
           text == Values(t, args)[r.key]
<1>1. (CHOOSE s \in Settings[t] : s.key = r.key) = r
  BY SettingsDiffer DEF WellNamed
<1>2. text = IF HasAny(args, r.names) THEN args[Find(args, r.names)] ELSE r.default
  BY <1>1 DEF Values
<1>3. ~BadValue(t, args)
  BY RunIsChecked
<1>4. HasAny(args, r.names) => Converts(args[Find(args, r.names)], r.kind)
  BY <1>3 DEF BadValue
<1>5. Converts(r.default, r.kind)
  BY DefaultsAssumption
<1>6. Converts(text, r.kind)
  BY <1>2, <1>4, <1>5
<1> HIDE DEF text, args
<1>7. NumberOf(text) \in Nat
  BY <1>6, NumeralsAssumption DEF Converts, NumberOf
<1>8. ParseOptions(t, line).values = Values(t, Args(line))
  BY ParsedFromArgs
<1> QED
  BY <1>7, <1>8 DEF text, args

\* The three numbers that the chain uses.
LEMMA NumbersOfTools ==
  /\ "gen" \in Tools /\ "print" \in Tools
  /\ R("size", <<"s", "size">>, "uint", "128") \in Settings["gen"]
  /\ R("count", <<"n", "count">>, "uint", "1000") \in Settings["gen"]
  /\ R("limit", <<"n", "limit">>, "uint", "0") \in Settings["print"]
<1>1. Settings["gen"] = GenSettings /\ Settings["print"] = PrintSettings /\ "gen" \in Tools /\ "print" \in Tools
  BY DEF Settings, Tools
<1> QED
  BY <1>1, Zenon DEF GenSettings, PrintSettings

LEMMA ChainRunsGen ==
  ASSUME RunGen
  PROVE  ToolsNext
<1>1. PICK line \in ChainLines.gen :
        LET o == ParseOptions("gen", line)
        IN  /\ Starts("gen", line) /\ Recorded(o)
            /\ LaunchGen(NumberOf(o.values["size"]), NumberOf(o.values["count"]), o.values["mode"])
  BY DEF RunGen
<1> DEFINE o == ParseOptions("gen", line)
           size == NumberOf(o.values["size"])
           n == NumberOf(o.values["count"])
           mode == o.values["mode"]
<1>2. Exited /\ o.exit = "run" /\ o.flags = {} /\ LaunchGen(size, n, mode)
  BY <1>1 DEF Starts, Recorded
<1>3. size \in Nat /\ n \in Nat
  BY <1>2, NumbersOfRun, NumbersOfTools DEF R
<1>4. n # 0 /\ mode \in {"raw", "itch5"}
  <2>1. o.flags = Present("gen", Args(line))
    BY <1>2, ParsedFromArgs, NumbersOfTools
  <2>2. <<"dump-literals">> \in Flags["gen"]
    BY DEF Flags
  <2>3. ~HasAny(Args(line), <<"dump-literals">>)
    BY <1>2, <2>1, <2>2 DEF Present
  <2>4. ~GenRejects(o.values, HasAny(Args(line), <<"dump-literals">>))
    BY <1>2, RunIsChecked, NumbersOfTools
  <2> QED
    BY <2>3, <2>4 DEF GenRejects
<1> HIDE DEF size, n, mode
<1> QED
  BY <1>2, <1>3, <1>4 DEF ToolsNext

LEMMA ChainRunsPrint ==
  ASSUME RunPrint
  PROVE  ToolsNext
<1>1. PICK line \in ChainLines.print :
        LET o == ParseOptions("print", line)
        IN  /\ Starts("print", line) /\ Recorded(o)
            /\ LaunchPrint(NumberOf(o.values["limit"]))
  BY DEF RunPrint
<1> DEFINE o == ParseOptions("print", line)
           limit == NumberOf(o.values["limit"])
<1>2. Exited /\ o.exit = "run" /\ LaunchPrint(limit)
  BY <1>1 DEF Starts, Recorded
<1>3. limit \in Nat
  BY <1>2, NumbersOfRun, NumbersOfTools DEF R
<1> HIDE DEF limit
<1> QED
  BY <1>2, <1>3 DEF ToolsNext

\* The other steps of the chain are steps of the tools, or leave them alone.
LEMMA ChainStepsTools ==
  ASSUME [ChainNext]_chainVars
  PROVE  [ToolsNext]_<<vars, toolVars>>
<1>1. CASE RunCheckpointPrint \/ Try \/ Done \/ UNCHANGED chainVars
  BY <1>1 DEF RunCheckpointPrint, Try, Done, chainVars
<1>2. CASE Step
  BY <1>2 DEF Step, ToolsNext
<1> QED
  BY <1>1, <1>2, ChainRunsGen, ChainRunsPrint DEF ChainNext

\* A chain of the programs, whatever their command lines, is a sequence of runs of the
\* two tools with options they were made for: no count of 0 and no third mode gets past
\* parse_options.  All that is proved of the tools holds in a chain.
THEOREM ChainRunsTools == ChainSpec => ToolsSpec
<1>1. ChainInit => ToolsInit
  BY DEF ChainInit
<1>2. [ChainNext]_chainVars => [ToolsNext]_<<vars, toolVars>>
  BY ChainStepsTools
<1> QED
  BY <1>1, <1>2, PTL DEF ChainSpec, ToolsSpec

-----------------------------------------------------------------------------
(***************************************************************************)
(* The ring as a program leaves it: the newest records, one after the      *)
(* other, up to the slot that is next.                                     *)
(***************************************************************************)
NextSlot == Phys(start + count)

Lap == clock - NextSlot

RingInv ==
  /\ NextSlot <= clock /\ (Lap = 0 \/ Lap >= Capacity)
  /\ \A a \in Addresses :
       IF a < NextSlot THEN mem[a].tick = Lap + a + 1
       ELSE IF Lap = 0 THEN mem[a] = Empty
       ELSE mem[a].tick = Lap - Capacity + a + 1

LEMMA NextSlotInRing ==
  ASSUME BoundedTransactions, RecorderInv
  PROVE  /\ NextSlot \in Addresses /\ Capacity \in Nat /\ Capacity > 1
         /\ start \in Nat /\ start < Capacity /\ count \in Nat /\ count = added
         /\ start + count < 2 * Capacity /\ mirrored = TRUE /\ clock \in Nat
         /\ mem \in [Addresses -> Slot]
<1>1. /\ Capacity \in Nat /\ Capacity > 1 /\ start \in Nat /\ start < Capacity
      /\ added \in Nat /\ added <= Capacity /\ count = added
  BY CapacityAssumption, CountAssumption
  DEF BoundedTransactions, RecorderInv, TypeOK, Addresses
<1> QED
  BY <1>1 DEF RecorderInv, TypeOK, NextSlot, Phys, Addresses

\* The next record is stored.
LEMMA RingStored ==
  ASSUME RingInv, NEW n, n = NextSlot, n \in Addresses, clock \in Nat, Capacity \in Nat, Capacity > 1,
         mem \in [Addresses -> Slot], NEW c, mem' = [mem EXCEPT ![n] = Plain(clock + 1, c)],
         clock' = clock + 1, NextSlot' = (IF n + 1 < Capacity THEN n + 1 ELSE 0)
  PROVE  RingInv'
<1>1. /\ n \in Nat /\ n < Capacity /\ n <= clock
      /\ clock - n = 0 \/ clock - n >= Capacity
  BY DEF RingInv, Lap, Addresses
<1>2. Lap' = IF n + 1 < Capacity THEN Lap ELSE Lap + Capacity
  BY <1>1 DEF Lap
<1>3. NextSlot' <= clock' /\ (Lap' = 0 \/ Lap' >= Capacity)
  BY <1>1, <1>2 DEF Lap
<1>4. mem'[n].tick = clock + 1
  BY DEF Plain
<1>5. \A a \in Addresses : a # n => mem'[a] = mem[a]
  OBVIOUS
<1>6. ASSUME NEW a \in Addresses
      PROVE  IF a < NextSlot' THEN mem'[a].tick = Lap' + a + 1
             ELSE IF Lap' = 0 THEN mem'[a] = Empty
             ELSE mem'[a].tick = Lap' - Capacity + a + 1
  <2>1. a \in Nat /\ a < Capacity /\ Lap = clock - n
    BY DEF Addresses, Lap
  <2>2. CASE a = n
    BY <1>1, <1>2, <1>4, <2>1, <2>2
  <2>3. CASE a # n
    <3>1. mem'[a] = mem[a]
      BY <1>5, <2>3
    <3>2. IF a < n THEN mem[a].tick = Lap + a + 1
          ELSE IF Lap = 0 THEN mem[a] = Empty
          ELSE mem[a].tick = Lap - Capacity + a + 1
      BY DEF RingInv
    <3> QED
      BY <1>1, <1>2, <2>1, <2>3, <3>1, <3>2
  <2> QED
    BY <2>2, <2>3
<1> QED
  BY <1>3, <1>6 DEF RingInv

LEMMA CallKeepsRing ==
  ASSUME BoundedTransactions, MinCount <= 1, RecorderInv, RingInv, Call
  PROVE  RingInv'
<1>1. /\ NextSlot \in Addresses /\ Capacity \in Nat /\ Capacity > 1
      /\ start \in Nat /\ start < Capacity /\ count \in Nat /\ count = added
      /\ start + count < 2 * Capacity /\ mirrored = TRUE /\ clock \in Nat
      /\ mem \in [Addresses -> Slot]
  BY NextSlotInRing
<1>2. CommitStart(count) = NextSlot
  BY <1>1, CountAssumption DEF CommitStart, NextSlot, Phys
<1>3. ASSUME NEW c, Add(clock + 1, c) PROVE RingInv'
  <2>1. /\ start' = start /\ count' = count + 1 /\ clock' = clock + 1 /\ count + 1 <= Capacity
    BY <1>1, <1>3, CountAssumption, CapacityAssumption DEF Add, Wrap, BoundedTransactions
  <2>2. mem' = [mem EXCEPT ![NextSlot] = Plain(clock + 1, c)]
    BY <1>1, <1>3 DEF Add, Store, EndOfStorage, NextSlot
  <2>3. NextSlot' = IF NextSlot + 1 < Capacity THEN NextSlot + 1 ELSE 0
    BY <1>1, <2>1 DEF NextSlot, Phys
  <2> QED
    BY <1>1, <2>1, <2>2, <2>3, RingStored
<1>4. ASSUME NEW c, Start(clock + 1, c) PROVE RingInv'
  <2>1. start' = NextSlot /\ count' = 1 /\ clock' = clock + 1
    BY <1>1, <1>2, <1>4, CountAssumption DEF Start, Wrap, BoundedTransactions
  <2>2. NextSlot < EndOfStorage /\ Phys(NextSlot) = NextSlot
    BY <1>1 DEF EndOfStorage, Phys, Addresses
  <2>3. mem' = [mem EXCEPT ![NextSlot] = Plain(clock + 1, c)]
    BY <1>4, <2>1, <2>2 DEF Start, Store
  <2>4. NextSlot' = Phys(NextSlot + 1)
    BY <2>1 DEF NextSlot, Phys
  <2>5. NextSlot' = IF NextSlot + 1 < Capacity THEN NextSlot + 1 ELSE 0
    BY <1>1, <2>4 DEF Phys, Addresses
  <2> QED
    BY <1>1, <2>1, <2>3, <2>5, RingStored
<1>5. ASSUME Commit PROVE RingInv'
  <2>1. start' = NextSlot /\ count' = 0 /\ UNCHANGED <<mem, clock>>
    BY <1>2, <1>5 DEF Commit
  <2>2. NextSlot' = NextSlot
    BY <1>1, <2>1 DEF NextSlot, Phys, Addresses
  <2> QED
    BY <2>1, <2>2 DEF RingInv, Lap
<1>6. ASSUME UNCHANGED vars PROVE RingInv'
  BY <1>6 DEF vars, RingInv, Lap, NextSlot, Phys
<1> QED
  BY <1>3, <1>4, <1>5, <1>6 DEF Call, Enter, Leave, Mark, Begin, CommitAll, NoCall

\* A new ring is empty.
LEMMA EmptyRing ==
  ASSUME mem = [a \in Addresses |-> Empty], start = 0, count = 0, clock = 0
  PROVE  RingInv
<1>1. NextSlot = 0
  BY CapacityAssumption DEF NextSlot, Phys
<1>2. Lap = 0
  BY <1>1 DEF Lap
<1>3. \A a \in Addresses : a \in Nat /\ mem[a] = Empty
  BY DEF Addresses
<1> QED
  BY <1>1, <1>2, <1>3 DEF RingInv

LEMMA LaunchEmptiesRing ==
  ASSUME NEW t, NEW chosen, NEW label, Launch(t, chosen, label)
  PROVE  RingInv'
<1>1. /\ mem' = [a \in Addresses |-> Empty]
      /\ start' = 0 /\ count' = 0 /\ clock' = 0
  BY DEF Launch
<1>2. NextSlot' = 0
  BY <1>1, CapacityAssumption DEF NextSlot, Phys
<1>3. Lap' = 0
  BY <1>1, <1>2 DEF Lap
<1>4. \A a \in Addresses : a \in Nat /\ mem'[a] = Empty
  BY <1>1 DEF Addresses
<1> QED
  BY <1>1, <1>2, <1>3, <1>4 DEF RingInv

LEMMA ToolsNextRing ==
  ASSUME BoundedTransactions, MinCount <= 1, MadeInv, RecorderInv, RingInv,
         [ToolsNext]_<<vars, toolVars>>
  PROVE  RingInv'
<1>1. CASE ToolStep
  BY <1>1, StepCalls, CallKeepsRing
<1>2. CASE UNCHANGED <<vars, toolVars>>
  BY <1>2 DEF vars, RingInv, Lap, NextSlot, Phys
<1> QED
  BY <1>1, <1>2, LaunchEmptiesRing DEF ToolsNext, LaunchGen, LaunchPrint

-----------------------------------------------------------------------------
(***************************************************************************)
(* Every name in the record of a program, and of every scope that is       *)
(* alive, is one that the program registers.                               *)
(***************************************************************************)
Registered(t) == Names(Literals[t])

LiteralsInv ==
  /\ \A i \in 1..Len(marks) : marks[i].where \in Registered(tool)
  /\ \A i \in 1..Len(stack) : stack[i] \in Registered(tool)

LEMMA NamesOfGen ==
  /\ "parse_ipv4" \in Registered("gen") /\ "internet_checksum" \in Registered("gen")
  /\ "make_itch_message" \in Registered("gen") /\ "make_payload" \in Registered("gen")
  /\ "make_packet" \in Registered("gen") /\ "make_packet:ip_header" \in Registered("gen")
  /\ "make_packet:checksum" \in Registered("gen")
  /\ "make_packet:copy_payload" \in Registered("gen")
  /\ "write_pcap_global_header" \in Registered("gen")
  /\ "write_pcap_packet" \in Registered("gen") /\ "packet_loop" \in Registered("gen")
<1> DEFINE s == Literals["gen"]
<1>1. /\ Len(s) = 11
      /\ s[1] = "parse_ipv4" /\ s[2] = "internet_checksum" /\ s[3] = "make_itch_message"
      /\ s[4] = "make_payload" /\ s[5] = "make_packet" /\ s[6] = "make_packet:ip_header"
      /\ s[7] = "make_packet:checksum" /\ s[8] = "make_packet:copy_payload"
      /\ s[9] = "write_pcap_global_header" /\ s[10] = "write_pcap_packet"
      /\ s[11] = "packet_loop"
  BY DEF Literals
<1> HIDE DEF s
<1>2. \A i \in 1..11 : s[i] \in Registered("gen")
  BY <1>1 DEF Registered, Names, s
<1> QED
  BY <1>1, <1>2

LEMMA NamesOfPrint ==
  /\ "print_itch_message" \in Registered("print")
  /\ "print_itch_message:print" \in Registered("print")
  /\ "print_packet" \in Registered("print")
  /\ "print_packet:print_payload" \in Registered("print") /\ "print_pcap" \in Registered("print")
<1> DEFINE s == Literals["print"]
<1>1. /\ Len(s) = 5
      /\ s[1] = "print_itch_message" /\ s[2] = "print_itch_message:print"
      /\ s[3] = "print_packet" /\ s[4] = "print_packet:print_payload" /\ s[5] = "print_pcap"
  BY DEF Literals
<1> HIDE DEF s
<1>2. \A i \in 1..5 : s[i] \in Registered("print")
  BY <1>1 DEF Registered, Names, s
<1> QED
  BY <1>1, <1>2

\* A call of the recorder by a program, with a name that it registers.
NamedCall(t) ==
  \/ \E where \in Registered(t) : Enter(where) \/ Mark(where)
  \/ \E where \in Registered(t) : \E category \in Categories : Begin(where, category)
  \/ Leave /\ Len(stack) > 0
  \/ CommitAll \/ NoCall

LEMMA NamedKinds ==
  ASSUME NEW t
  PROVE  /\ \A where \in Registered(t) : Enter(where) \/ Mark(where) => NamedCall(t)
         /\ \A where \in Registered(t) : \A category \in Categories :
              Begin(where, category) => NamedCall(t)
         /\ Leave /\ Len(stack) > 0 => NamedCall(t)
         /\ CommitAll \/ NoCall => NamedCall(t)
<1>1. ASSUME NEW where \in Registered(t), Enter(where) \/ Mark(where) PROVE NamedCall(t)
  BY <1>1 DEF NamedCall
<1>2. ASSUME NEW where \in Registered(t), NEW category \in Categories, Begin(where, category)
      PROVE  NamedCall(t)
  BY <1>2 DEF NamedCall
<1>3. ASSUME Leave, Len(stack) > 0 PROVE NamedCall(t)
  BY <1>3 DEF NamedCall
<1>4. ASSUME CommitAll \/ NoCall PROVE NamedCall(t)
  BY <1>4 DEF NamedCall
<1> QED
  BY <1>1, <1>2, <1>3, <1>4

LEMMA GenCallsNamed ==
  ASSUME MadeInv, GenCalls
  PROVE  NamedCall("gen")
<1>1. ASSUME NEW label, NEW next, NEW where \in Registered("gen"), GenLine(label, Enter(where), next)
      PROVE  NamedCall("gen")
  BY <1>1, NamedKinds DEF GenLine
<1>2. ASSUME NEW label, NEW next, NEW where \in Registered("gen"), GenLine(label, Mark(where), next)
      PROVE  NamedCall("gen")
  BY <1>2, NamedKinds DEF GenLine
<1>3. ASSUME NEW label, NEW next, GenLine(label, Leave, next),
             label \in {"src_ip:end", "dst_ip:end", "message:end", "internet_checksum:end", "make_packet:end"}
      PROVE  NamedCall("gen")
  BY <1>3, NamedKinds, GenLeaves DEF GenLine, At
<1> QED
  BY <1>1, <1>2, <1>3, NamesOfGen DEF GenCalls

LEMMA GenNamed ==
  ASSUME MadeInv, PcapItchGen
  PROVE  NamedCall("gen")
<1>1. CASE ParseIpv4Fails \/ OpenOutputFails \/ OpenOutput
  BY <1>1, NamedKinds DEF ParseIpv4Fails, OpenOutputFails, OpenOutput, GenLine
<1>2. CASE WriteGlobalHeader \/ WritePacket \/ NextPacket
  BY <1>2, NamedKinds, GenLeaves DEF WriteGlobalHeader, WritePacket, NextPacket, At
<1>3. CASE GenLoop
  BY <1>3, NamedKinds, ToolCategories, NamesOfGen DEF GenLoop
<1>4. CASE ChooseMessage
  BY <1>4, NamedKinds, NamesOfGen DEF ChooseMessage
<1>5. CASE PayloadEnd
  BY <1>5, NamedKinds, GenLeaves DEF PayloadEnd, Throw, At
<1> QED
  BY <1>1, <1>2, <1>3, <1>4, <1>5, GenCallsNamed DEF PcapItchGen

LEMMA PrintNamed ==
  ASSUME MadeInv, PcapItchPrint
  PROVE  NamedCall("print") /\ tool = "print" /\ tool' = "print"
<1>1. ASSUME tool = "print", pc \in {"print_pcap:end", "message:end"} PROVE Len(stack) > 0
  <2>1. PrintMade
    BY <1>1 DEF MadeInv
  <2>2. Len(stack) \in {1, 2}
    BY <1>1, <2>1 DEF PrintMade, Made
  <2> QED
    BY <2>2
<1> USE NamedKinds, NamesOfPrint
<1>2. ASSUME PrintCalls PROVE NamedCall("print")
  BY <1>1, <1>2 DEF PrintCalls, PrintLine, At
<1>3. ASSUME OpenInput \/ ReadHeaders \/ ReadMold \/ PacketEnd PROVE NamedCall("print")
  BY <1>3 DEF OpenInput, ReadHeaders, ReadMold, PacketEnd, Throw
<1>4. ASSUME NextHeader PROVE NamedCall("print")
  BY <1>4, CategoryAssumption DEF NextHeader, Throw
<1>5. ASSUME ReadUdp \/ NextMessage \/ PrintMessage PROVE NamedCall("print")
  BY <1>5 DEF ReadUdp, NextMessage, PrintMessage, Throw
<1>6. ASSUME MessageEnd PROVE NamedCall("print")
  BY <1>1, <1>6 DEF MessageEnd, At
<1>7. NamedCall("print")
  BY <1>2, <1>3, <1>4, <1>5, <1>6 DEF PcapItchPrint
<1>8. tool = "print"
  BY DEF PcapItchPrint, PrintCalls, PrintLine, OpenInput, NextHeader, ReadHeaders, ReadUdp,
         ReadMold, NextMessage, PrintMessage, MessageEnd, PacketEnd, At
<1> QED
  BY <1>7, <1>8, PrintEnd

\* Every step of a tool.
LEMMA StepNamed ==
  ASSUME MadeInv, ToolStep
  PROVE  NamedCall(tool) /\ tool' = tool
<1>1. CASE PcapItchGen
  BY <1>1, GenNamed, ToolOfGen
<1>2. CASE PcapItchPrint
  BY <1>2, PrintNamed
<1>3. CASE Unwind
  BY <1>3, Depth, NamedKinds DEF Unwind, Go
<1>4. CASE Catch
  BY <1>4, NamedKinds DEF Catch, Caught, Go
<1> QED
  BY <1>1, <1>2, <1>3, <1>4 DEF ToolStep

LEMMA NamedCallKeepsLiterals ==
  ASSUME MarksInv, MadeInv, LiteralsInv, NamedCall(tool), tool' = tool
  PROVE  LiteralsInv'
<1>1. PICK S : marks \in Seq(S)
  BY DEF MarksInv, Scopes
<1>2. PICK T : stack \in Seq(T)
  BY DEF MadeInv, Scopes
<1>3. Registered(tool)' = Registered(tool)
  OBVIOUS
<1>4. ASSUME NEW where \in Registered(tool), NEW type, Marked(type, where)
      PROVE  \A i \in 1..Len(marks') : marks'[i].where \in Registered(tool)
  <2> DEFINE r == [type |-> type, where |-> where]
  <2>1. marks \in Seq(S \cup {r}) /\ r \in S \cup {r} /\ r.where = where
    BY <1>1
  <2> HIDE DEF r
  <2>2. /\ Len(marks') = Len(marks) + 1 /\ Len(marks) \in Nat
        /\ \A i \in 1..Len(marks) : marks'[i] = marks[i]
        /\ marks'[Len(marks) + 1] = r
    BY <1>4, <2>1 DEF r, Marked
  <2> TAKE i \in 1..Len(marks')
  <2>3. i \in 1..Len(marks) \/ i = Len(marks) + 1
    BY <2>2
  <2> QED
    BY <2>1, <2>2, <2>3 DEF LiteralsInv
<1>5. ASSUME NEW where \in Registered(tool), stack' = Append(stack, where)
      PROVE  \A i \in 1..Len(stack') : stack'[i] \in Registered(tool)
  <2>1. stack \in Seq(T \cup {where}) /\ where \in T \cup {where}
    BY <1>2
  <2>2. /\ Len(stack') = Len(stack) + 1 /\ Len(stack) \in Nat
        /\ \A i \in 1..Len(stack) : stack'[i] = stack[i]
        /\ stack'[Len(stack) + 1] = where
    BY <1>5, <2>1
  <2> TAKE i \in 1..Len(stack')
  <2>3. i \in 1..Len(stack) \/ i = Len(stack) + 1
    BY <2>2
  <2> QED
    BY <2>2, <2>3 DEF LiteralsInv
<1>6. ASSUME Leave, Len(stack) > 0 PROVE LiteralsInv'
  <2>1. stack[Len(stack)] \in Registered(tool)
    <3>1. Len(stack) \in 1..Len(stack)
      BY <1>2, <1>6
    <3> QED
      BY <3>1 DEF LiteralsInv
  <2>2. \A i \in 1..Len(marks') : marks'[i].where \in Registered(tool)
    BY <1>4, <1>6, <2>1 DEF Leave
  <2>3. \A i \in 1..Len(stack') : stack'[i] \in Registered(tool)
    <3> DEFINE n == Len(stack) - 1
    <3>0. n \in Nat /\ n <= Len(stack) /\ stack' = SubSeq(stack, 1, n)
      BY <1>2, <1>6 DEF Leave
    <3> HIDE DEF n
    <3>1. Len(stack') = n /\ \A i \in 1..n : stack'[i] = stack[i]
      BY <1>2, <3>0
    <3>2. \A i \in 1..n : i \in 1..Len(stack)
      BY <1>2, <3>0
    <3> QED
      BY <3>1, <3>2 DEF LiteralsInv
  <2> QED
    BY <1>3, <2>2, <2>3 DEF LiteralsInv
<1>7. ASSUME NEW where \in Registered(tool), Enter(where) PROVE LiteralsInv'
  BY <1>3, <1>4, <1>5, <1>7 DEF Enter, LiteralsInv
<1>8. ASSUME NEW where \in Registered(tool), Mark(where) PROVE LiteralsInv'
  BY <1>3, <1>4, <1>8 DEF Mark, LiteralsInv
<1>9. ASSUME NEW where \in Registered(tool), NEW category, Begin(where, category) PROVE LiteralsInv'
  BY <1>3, <1>4, <1>9 DEF Begin, LiteralsInv
<1>10. ASSUME CommitAll \/ NoCall PROVE LiteralsInv'
  BY <1>3, <1>10 DEF CommitAll, NoCall, LiteralsInv
<1> QED
  BY <1>6, <1>7, <1>8, <1>9, <1>10 DEF NamedCall

LEMMA ToolsNextLiterals ==
  ASSUME MadeInv, MarksInv, LiteralsInv, [ToolsNext]_<<vars, toolVars>>
  PROVE  LiteralsInv'
<1>1. CASE ToolStep
  BY <1>1, StepNamed, NamedCallKeepsLiterals
<1>2. ASSUME NEW t, NEW chosen, NEW label, Launch(t, chosen, label) PROVE LiteralsInv'
  BY <1>2 DEF Launch, LiteralsInv
<1>3. CASE UNCHANGED <<vars, toolVars>>
  BY <1>3 DEF toolVars, LiteralsInv
<1> QED
  BY <1>1, <1>2, <1>3 DEF ToolsNext, LaunchGen, LaunchPrint

-----------------------------------------------------------------------------
(***************************************************************************)
(* The slots that print_checkpoints chooses: in the order of the file, and *)
(* without a limit every one that is not empty.                            *)
(***************************************************************************)
\* s is what is chosen of the first n slots.
ChosenUpTo(s, n, limit, hash) ==
  /\ s \in Seq(Addresses)
  /\ \A k \in 1..Len(s) : s[k] < n
  /\ \A j \in 1..Len(s), k \in 1..Len(s) : j < k => s[j] < s[k]
  /\ limit = 0 =>
       \A a \in 0..(n - 1) : ~IsEmpty(mem[a], hash) => \E k \in 1..Len(s) : s[k] = a

LEMMA ChosenSlot ==
  ASSUME NEW limit, NEW hash, NEW n \in Addresses, NEW s, ChosenUpTo(s, n, limit, hash)
  PROVE  ChosenUpTo(Append(s, n), n + 1, limit, hash)
<1> DEFINE t == Append(s, n)
<1>1. n \in Nat /\ s \in Seq(Addresses) /\ Len(s) \in Nat /\ Addresses \subseteq Int
  BY CapacityAssumption DEF ChosenUpTo, Addresses
<1>2. /\ t \in Seq(Addresses) /\ Len(t) = Len(s) + 1 /\ t[Len(s) + 1] = n
      /\ \A k \in 1..Len(s) : t[k] = s[k] /\ s[k] \in Addresses
  BY <1>1
<1> HIDE DEF t
<1>3. \A k \in 1..Len(t) : k \in 1..Len(s) \/ k = Len(s) + 1
  BY <1>1, <1>2
<1>4. \A k \in 1..Len(s) : s[k] < n /\ s[k] \in Int
  BY <1>1, <1>2 DEF ChosenUpTo
<1>5. \A k \in 1..Len(t) : t[k] < n + 1
  BY <1>1, <1>2, <1>3, <1>4
<1>6. ASSUME NEW j \in 1..Len(t), NEW k \in 1..Len(t), j < k PROVE t[j] < t[k]
  <2>1. j \in 1..Len(s)
    BY <1>1, <1>2, <1>6
  <2>2. CASE k \in 1..Len(s)
    BY <1>2, <1>6, <2>1, <2>2 DEF ChosenUpTo
  <2>3. CASE k = Len(s) + 1
    BY <1>2, <1>4, <2>1, <2>3
  <2> QED
    BY <1>3, <2>2, <2>3
<1>7. ASSUME limit = 0, NEW a \in 0..((n + 1) - 1), ~IsEmpty(mem[a], hash)
      PROVE  \E k \in 1..Len(t) : t[k] = a
  <2>1. CASE a = n
    <3>1. Len(s) + 1 \in 1..Len(t)
      BY <1>1, <1>2
    <3> QED
      BY <1>2, <2>1, <3>1
  <2>2. CASE a \in 0..(n - 1)
    <3>1. PICK k \in 1..Len(s) : s[k] = a
      BY <1>7, <2>2 DEF ChosenUpTo
    <3>2. k \in 1..Len(t) /\ t[k] = a
      BY <1>1, <1>2, <3>1
    <3> QED
      BY <3>2
  <2>3. a = n \/ a \in 0..(n - 1)
    BY <1>1
  <2> QED
    BY <2>1, <2>2, <2>3
<1> QED
  BY <1>2, <1>5, <1>6, <1>7 DEF ChosenUpTo, t

LEMMA SkippedSlot ==
  ASSUME NEW limit, NEW hash, NEW n \in Addresses, NEW s, ChosenUpTo(s, n, limit, hash),
         IsEmpty(mem[n], hash) \/ limit # 0
  PROVE  ChosenUpTo(s, n + 1, limit, hash)
<1>1. n \in Nat /\ s \in Seq(Addresses) /\ Len(s) \in Nat
  BY CapacityAssumption DEF ChosenUpTo, Addresses
<1>2. \A k \in 1..Len(s) : s[k] < n /\ s[k] \in Int
  BY <1>1, CapacityAssumption DEF ChosenUpTo, Addresses
<1>3. \A k \in 1..Len(s) : s[k] < n + 1
  BY <1>1, <1>2
<1>4. \A a \in 0..((n + 1) - 1) : a = n \/ a \in 0..(n - 1)
  BY <1>1
<1>5. limit = 0 => \A a \in 0..((n + 1) - 1) :
                     ~IsEmpty(mem[a], hash) => \E k \in 1..Len(s) : s[k] = a
  BY <1>4 DEF ChosenUpTo
<1> QED
  BY <1>3, <1>5 DEF ChosenUpTo

LEMMA ChosenAreAscending ==
  ASSUME NEW limit, NEW all, NEW hash
  PROVE  ChosenUpTo(Chosen(limit, all, hash), Capacity, limit, hash)
<1> DEFINE Skips(n, s) == \/ ~all /\ IsEmpty(mem[n - 1], hash)
                          \/ limit # 0 /\ Len(s) >= limit
           Part(f, m) == /\ f = [i \in 0..m |-> f[i]] /\ f[0] = <<>>
                         /\ \A i \in 1..m :
                              f[i] = IF Skips(i, f[i - 1]) THEN f[i - 1] ELSE Append(f[i - 1], i - 1)
           Rest(f, m) == f = [n \in 0..m |->
                               IF n = 0 THEN <<>>
                               ELSE IF Skips(n, f[n - 1]) THEN f[n - 1] ELSE Append(f[n - 1], n - 1)]
<1>1. Capacity \in Nat
  BY CapacityAssumption
<1>2. ASSUME NEW f, NEW m \in Nat PROVE Rest(f, m) <=> Part(f, m)
  <2> HIDE DEF Skips
  <2>1. (\A i \in 0..m : i # 0 <=> i \in 1..m) /\ 0 \in 0..m
    OBVIOUS
  <2>2. ASSUME Rest(f, m) PROVE Part(f, m)
    <3>1. \A n \in 0..m : f[n] = IF n = 0 THEN <<>>
            ELSE IF Skips(n, f[n - 1]) THEN f[n - 1] ELSE Append(f[n - 1], n - 1)
      BY <2>2, Zenon
    <3>2. f = [i \in 0..m |-> f[i]]
      BY <2>2, Zenon
    <3> QED
      BY <2>1, <3>1, <3>2
  <2>3. ASSUME Part(f, m) PROVE Rest(f, m)
    <3>1. \A n \in 0..m : f[n] = IF n = 0 THEN <<>>
            ELSE IF Skips(n, f[n - 1]) THEN f[n - 1] ELSE Append(f[n - 1], n - 1)
      BY <2>1, <2>3
    <3> QED
      BY <2>3, <3>1, Zenon
  <2> QED
    BY <2>2, <2>3
<1> DEFINE T == {m \in Nat : \E f : Part(f, m)}
<1>3. 0 \in T
  <2>1. Part([i \in 0..0 |-> <<>>], 0)
    OBVIOUS
  <2> HIDE DEF Part
  <2> QED
    BY <2>1
<1>4. ASSUME NEW m \in 0..(Capacity - 1), m \in T PROVE m + 1 \in T
  <2> HIDE DEF Skips
  <2>1. PICK f : Part(f, m)
    BY <1>4
  <2> DEFINE k == m + 1
             next == IF Skips(k, f[m]) THEN f[m] ELSE Append(f[m], k - 1)
             g == [i \in 0..k |-> IF i = k THEN next ELSE f[i]]
  <2>2. k \in Nat /\ m \in 0..m /\ k - 1 = m /\ m \in Nat
    BY <1>1
  <2>3. \A i \in 0..k : g[i] = IF i = k THEN next ELSE f[i]
    OBVIOUS
  <2>4. g = [i \in 0..k |-> g[i]]
    OBVIOUS
  <2> HIDE DEF g
  <2>5. ASSUME NEW i \in 1..k
        PROVE  g[i] = IF Skips(i, g[i - 1]) THEN g[i - 1] ELSE Append(g[i - 1], i - 1)
    <3>1. i \in 0..k /\ i - 1 \in 0..k /\ i - 1 # k /\ (i # k => i \in 1..m)
      BY <2>2
    <3>2. g[i - 1] = f[i - 1]
      BY <2>3, <3>1
    <3>3. CASE i = k
      BY <2>2, <2>3, <3>1, <3>2, <3>3
    <3>4. CASE i # k
      <4>1. g[i] = f[i]
        BY <2>3, <3>1, <3>4
      <4>2. f[i] = IF Skips(i, f[i - 1]) THEN f[i - 1] ELSE Append(f[i - 1], i - 1)
        BY <2>1, <3>1, <3>4
      <4> QED
        BY <3>2, <4>1, <4>2
    <3> QED
      BY <3>3, <3>4
  <2>6. g[0] = <<>>
    <3>1. 0 \in 0..k /\ 0 # k
      BY <2>2
    <3> QED
      BY <2>1, <2>3, <3>1
  <2>7. Part(g, k)
    BY <2>4, <2>5, <2>6
  <2> HIDE DEF Part
  <2> QED
    BY <2>2, <2>7
<1>5. \E f : Rest(f, Capacity)
  <2> HIDE DEF Part, Rest
  <2>1. \A m \in 0..Capacity : m \in T
    <3> HIDE DEF T
    <3> QED
      BY <1>1, <1>3, <1>4, StepByStep
  <2>2. Capacity \in T
    BY <1>1, <2>1
  <2> QED
    BY <1>1, <1>2, <2>2
<1> DEFINE among[n \in 0..Capacity] ==
             IF n = 0 THEN <<>>
             ELSE IF \/ ~all /\ IsEmpty(mem[n - 1], hash)
                     \/ limit # 0 /\ Len(among[n - 1]) >= limit
                  THEN among[n - 1]
             ELSE Append(among[n - 1], n - 1)
<1>6. PICK f : Rest(f, Capacity)
  BY <1>5
<1>7. f = [n \in 0..Capacity |->
             IF n = 0 THEN <<>>
             ELSE IF \/ ~all /\ IsEmpty(mem[n - 1], hash)
                     \/ limit # 0 /\ Len(f[n - 1]) >= limit
                  THEN f[n - 1]
             ELSE Append(f[n - 1], n - 1)]
  BY <1>6, Zenon
<1>8. among = [n \in 0..Capacity |->
                 IF n = 0 THEN <<>>
                 ELSE IF \/ ~all /\ IsEmpty(mem[n - 1], hash)
                         \/ limit # 0 /\ Len(among[n - 1]) >= limit
                      THEN among[n - 1]
                 ELSE Append(among[n - 1], n - 1)]
  BY <1>7, Zenon
<1>9. Chosen(limit, all, hash) = among[Capacity]
  BY Zenon DEF Chosen
<1>10. Rest(among, Capacity)
  BY <1>8, Zenon
<1> HIDE DEF among
<1>11. Part(among, Capacity)
  <2> HIDE DEF Rest, Part
  <2> QED
    BY <1>1, <1>2, <1>10
<1> DEFINE U == {n \in Nat : ChosenUpTo(among[n], n, limit, hash)}
<1>12. 0 \in U
  <2>1. among[0] = <<>>
    BY <1>11
  <2>2. ChosenUpTo(<<>>, 0, limit, hash)
    BY DEF ChosenUpTo
  <2> QED
    BY <2>1, <2>2
<1>13. ASSUME NEW n \in 0..(Capacity - 1), n \in U PROVE n + 1 \in U
  <2> DEFINE s == among[n]
             t == among[n + 1]
  <2>1. n \in Addresses /\ n + 1 \in 1..Capacity /\ (n + 1) - 1 = n /\ n + 1 \in Nat
    BY <1>1 DEF Addresses
  <2>2. ChosenUpTo(s, n, limit, hash)
    BY <1>13
  <2>3. t = IF Skips(n + 1, s) THEN s ELSE Append(s, n)
    <3> HIDE DEF Skips
    <3> QED
      BY <1>11, <2>1
  <2>4. Skips(n + 1, s) => IsEmpty(mem[n], hash) \/ limit # 0
    BY <2>1
  <2> HIDE DEF s, t, Skips
  <2>5. ChosenUpTo(t, n + 1, limit, hash)
    BY <2>1, <2>2, <2>3, <2>4, ChosenSlot, SkippedSlot
  <2> QED
    BY <2>1, <2>5 DEF t
<1>14. Capacity \in U
  <2> HIDE DEF U
  <2>1. \A n \in 0..Capacity : n \in U
    BY <1>1, <1>12, <1>13, StepByStep
  <2> QED
    BY <1>1, <2>1
<1> QED
  BY <1>9, <1>14

-----------------------------------------------------------------------------
(***************************************************************************)
(* The names that are printed: what a table of literals gives for the      *)
(* fingerprint of a registered name.                                       *)
(***************************************************************************)
Joined(s, a, b, A, B) == s \in Seq(A \cup B) /\ Names(s) = Names(a) \cup Names(b)

LEMMA NamesJoined ==
  ASSUME NEW A, NEW B, NEW a \in Seq(A), NEW b \in Seq(B), NEW s, s = a \o b
  PROVE  Joined(s, a, b, A, B)
<1>1. /\ s \in Seq(A \cup B) /\ Len(s) = Len(a) + Len(b) /\ Len(a) \in Nat /\ Len(b) \in Nat
      /\ \A i \in 1..(Len(a) + Len(b)) : s[i] = IF i <= Len(a) THEN a[i] ELSE b[i - Len(a)]
  <2>1. a \in Seq(A \cup B) /\ b \in Seq(A \cup B)
    OBVIOUS
  <2> QED
    BY <2>1
<1>2. ASSUME NEW x \in Names(s) PROVE x \in Names(a) \cup Names(b)
  <2>1. PICK i \in 1..Len(s) : x = s[i]
    BY DEF Names
  <2>2. CASE i <= Len(a)
    <3>1. i \in 1..Len(a) /\ x = a[i]
      BY <1>1, <2>1, <2>2
    <3> QED
      BY <3>1 DEF Names
  <2>3. CASE ~(i <= Len(a))
    <3>1. i - Len(a) \in 1..Len(b) /\ x = b[i - Len(a)]
      BY <1>1, <2>1, <2>3
    <3> QED
      BY <3>1 DEF Names
  <2> QED
    BY <2>2, <2>3
<1>3. ASSUME NEW i \in 1..Len(a) PROVE a[i] \in Names(s)
  <2>1. i \in 1..Len(s) /\ s[i] = a[i]
    BY <1>1
  <2> QED
    BY <2>1 DEF Names
<1>4. ASSUME NEW i \in 1..Len(b) PROVE b[i] \in Names(s)
  <2> DEFINE k == i + Len(a)
  <2>1. k \in 1..Len(s) /\ ~(k <= Len(a)) /\ k - Len(a) = i
    BY <1>1
  <2> HIDE DEF k
  <2>2. k \in 1..Len(s) /\ s[k] = b[i]
    BY <1>1, <2>1
  <2> QED
    BY <2>2 DEF Names
<1>5. Names(a) \subseteq Names(s) /\ Names(b) \subseteq Names(s)
  BY <1>3, <1>4 DEF Names
<1> QED
  BY <1>1, <1>2, <1>5 DEF Joined

\* The rows of a dump.
RowOf(name, hash) == [text |-> name, value |-> Fingerprint(hash[name])]

RowsOf(t, hash) == {RowOf(name, hash) : name \in Registered(t)}

LEMMA DumpedRows ==
  ASSUME NEW t \in {"gen", "print"}, NEW hash
  PROVE  /\ Dumped(t, hash) \in Seq(RowsOf(t, hash))
         /\ Names(Dumped(t, hash)) = RowsOf(t, hash)
<1> DEFINE n == Len(Literals[t])
           d == Dumped(t, hash)
<1>1. n \in Nat
  BY DEF Literals
<1>2. \A i \in 1..n : RowOf(Literals[t][i], hash) \in RowsOf(t, hash)
  BY DEF RowsOf, Registered, Names
<1>3. d = [i \in 1..n |-> RowOf(Literals[t][i], hash)]
  BY DEF Dumped, RowOf
<1> HIDE DEF n, d
<1>4. d \in Seq(RowsOf(t, hash)) /\ Len(d) = n
  BY <1>1, <1>2, <1>3
<1>5. \A i \in 1..n : d[i] = RowOf(Literals[t][i], hash)
  BY <1>3
<1>6. Names(d) = RowsOf(t, hash)
  BY <1>4, <1>5 DEF Names, RowsOf, Registered, n
<1> QED
  BY <1>4, <1>6 DEF d

\* The rows of a file.
LEMMA RowsOfFile ==
  ASSUME NEW path \in DOMAIN Tables, NEW hash
  PROVE  LET csv == Tables[path]
             rows == Rows(csv, hash)
         IN  /\ Len(rows) \in Nat
             /\ Names(rows) = (UNION {RowsOf(t, hash) : t \in csv.dumps}) \cup Names(csv.edited)
<1> DEFINE csv == Tables[path]
           A == RowsOf("gen", hash)
           B == RowsOf("print", hash)
           gen == IF "gen" \in csv.dumps THEN Dumped("gen", hash) ELSE <<>>
           print == IF "print" \in csv.dumps THEN Dumped("print", hash) ELSE <<>>
           edited == csv.edited
<1>1. csv.dumps \subseteq {"gen", "print"} /\ edited \in Seq(Names(edited))
  <2>1. Len(edited) \in Nat /\ edited = [i \in 1..Len(edited) |-> edited[i]]
    BY TablesAssumption
  <2>2. \A i \in 1..Len(edited) : edited[i] \in Names(edited)
    BY DEF Names
  <2> HIDE DEF edited
  <2>3. edited \in Seq(Names(edited))
    BY <2>1, <2>2
  <2> QED
    BY <2>3, TablesAssumption
<1>2. Names(<<>>) = {}
  BY DEF Names
<1>3. /\ gen \in Seq(A)
      /\ Names(gen) = IF "gen" \in csv.dumps THEN A ELSE {}
  <2>1. Dumped("gen", hash) \in Seq(A) /\ Names(Dumped("gen", hash)) = A
    BY DumpedRows
  <2>2. <<>> \in Seq(A)
    OBVIOUS
  <2> QED
    BY <1>2, <2>1, <2>2
<1>4. /\ print \in Seq(B)
      /\ Names(print) = IF "print" \in csv.dumps THEN B ELSE {}
  <2>1. Dumped("print", hash) \in Seq(B) /\ Names(Dumped("print", hash)) = B
    BY DumpedRows
  <2>2. <<>> \in Seq(B)
    OBVIOUS
  <2> QED
    BY <1>2, <2>1, <2>2
<1> DEFINE both == gen \o print
           rows == both \o edited
           N == Names(edited)
           S == A \cup B
<1>6. Rows(csv, hash) = rows
  BY DEF Rows
<1>7. Names(gen) \cup Names(print) = UNION {RowsOf(t, hash) : t \in csv.dumps}
  BY <1>1, <1>3, <1>4
<1>8. both = gen \o print /\ rows = both \o edited
  OBVIOUS
<1> HIDE DEF gen, print, edited, csv, both, rows, A, B
<1>9. both \in Seq(S) /\ Names(both) = Names(gen) \cup Names(print)
  <2>1. Joined(both, gen, print, A, B)
    BY <1>3, <1>4, <1>8, NamesJoined
  <2> QED
    BY <2>1 DEF Joined
<1>10. edited \in Seq(N)
  BY <1>1
<1> HIDE DEF N, S
<1>11. rows \in Seq(S \cup N) /\ Names(rows) = Names(both) \cup Names(edited)
  <2>1. Joined(rows, both, edited, S, N)
    BY <1>8, <1>9, <1>10, NamesJoined
  <2> QED
    BY <2>1 DEF Joined
<1>12. Len(rows) \in Nat
  BY <1>11
<1> QED
  BY <1>6, <1>7, <1>9, <1>11, <1>12 DEF csv, edited

\* A table has the text of a row for the value of a row.
LEMMA TableText ==
  ASSUME NEW rows, Len(rows) \in Nat, NEW value
  PROVE  /\ value \in DOMAIN Table(rows) <=> \E r \in Names(rows) : r.value = value
         /\ value \in DOMAIN Table(rows) =>
              \E r \in Names(rows) : r.value = value /\ Table(rows)[value] = r.text
<1> DEFINE First(i) == rows[i].value = value /\ \A j \in 1..(i - 1) : rows[j].value # value
<1>1. DOMAIN Table(rows) = {rows[i].value : i \in 1..Len(rows)}
  BY DEF Table
<1>2. value \in DOMAIN Table(rows) <=> \E r \in Names(rows) : r.value = value
  BY <1>1 DEF Names
<1>3. ASSUME value \in DOMAIN Table(rows)
      PROVE  \E r \in Names(rows) : r.value = value /\ Table(rows)[value] = r.text
  <2> DEFINE T == {i \in Nat : \A j \in 1..i : rows[j].value # value}
             chosen == CHOOSE i \in 1..Len(rows) : First(i)
  <2>1. \E i \in 1..Len(rows) : First(i)
    <3> SUFFICES ASSUME \A i \in 1..Len(rows) : ~First(i) PROVE FALSE
      OBVIOUS
    <3>1. 0 \in T
      OBVIOUS
    <3>2. ASSUME NEW i \in 0..(Len(rows) - 1), i \in T PROVE i + 1 \in T
      <4>1. i + 1 \in 1..Len(rows) /\ (i + 1) - 1 = i /\ i + 1 \in Nat
        OBVIOUS
      <4>2. rows[i + 1].value # value
        BY <3>2, <4>1
      <4>3. \A j \in 1..(i + 1) : j \in 1..i \/ j = i + 1
        OBVIOUS
      <4> QED
        BY <3>2, <4>1, <4>2, <4>3
    <3>3. Len(rows) \in T
      <4> HIDE DEF T
      <4>1. \A i \in 0..Len(rows) : i \in T
        BY <3>1, <3>2, StepByStep
      <4> QED
        BY <4>1
    <3>4. PICK i \in 1..Len(rows) : rows[i].value = value
      BY <1>1, <1>3
    <3> QED
      BY <3>3, <3>4
  <2>2. chosen \in 1..Len(rows) /\ First(chosen)
    BY <2>1
  <2>3. Table(rows)[value] = rows[chosen].text
    BY <1>1, <1>3 DEF Table
  <2> HIDE DEF chosen
  <2>4. rows[chosen] \in Names(rows)
    BY <2>2 DEF Names
  <2> QED
    BY <2>2, <2>3, <2>4
<1> QED
  BY <1>2, <1>3

\* The two programs register different names, so that each has one owner.
LEMMA NamesDiffer ==
  /\ Registered("gen") \cap Registered("print") = {}
  /\ \A t \in {"gen", "print"} : \A name \in Registered(t) : Owner(name) = t
<1>1. Registered("gen") =
        {"parse_ipv4", "internet_checksum", "make_itch_message", "make_payload", "make_packet",
         "make_packet:ip_header", "make_packet:checksum", "make_packet:copy_payload",
         "write_pcap_global_header", "write_pcap_packet", "packet_loop"}
  <2> DEFINE s == Literals["gen"]
  <2>1. /\ Len(s) = 11
        /\ s[1] = "parse_ipv4" /\ s[2] = "internet_checksum" /\ s[3] = "make_itch_message"
        /\ s[4] = "make_payload" /\ s[5] = "make_packet" /\ s[6] = "make_packet:ip_header"
        /\ s[7] = "make_packet:checksum" /\ s[8] = "make_packet:copy_payload"
        /\ s[9] = "write_pcap_global_header" /\ s[10] = "write_pcap_packet"
        /\ s[11] = "packet_loop"
    BY DEF Literals
  <2> HIDE DEF s
  <2>2. Registered("gen") = {s[i] : i \in 1..11}
    BY <2>1 DEF Registered, Names, s
  <2>3. \A i \in 1..11 : i \in {1, 2, 3, 4, 5, 6, 7, 8, 9, 10, 11}
    OBVIOUS
  <2>4. \A x \in Registered("gen") :
          x \in {"parse_ipv4", "internet_checksum", "make_itch_message", "make_payload", "make_packet",
                 "make_packet:ip_header", "make_packet:checksum", "make_packet:copy_payload",
                 "write_pcap_global_header", "write_pcap_packet", "packet_loop"}
    BY <2>1, <2>2, <2>3
  <2> QED
    BY <2>4, NamesOfGen
<1>2. Registered("print") =
        {"print_itch_message", "print_itch_message:print", "print_packet",
         "print_packet:print_payload", "print_pcap"}
  <2> DEFINE s == Literals["print"]
  <2>1. /\ Len(s) = 5
        /\ s[1] = "print_itch_message" /\ s[2] = "print_itch_message:print"
        /\ s[3] = "print_packet" /\ s[4] = "print_packet:print_payload" /\ s[5] = "print_pcap"
    BY DEF Literals
  <2> HIDE DEF s
  <2>2. Registered("print") = {s[i] : i \in 1..5}
    BY <2>1 DEF Registered, Names, s
  <2>3. \A i \in 1..5 : i \in {1, 2, 3, 4, 5}
    OBVIOUS
  <2>4. \A x \in Registered("print") :
          x \in {"print_itch_message", "print_itch_message:print", "print_packet",
                 "print_packet:print_payload", "print_pcap"}
    BY <2>1, <2>2, <2>3
  <2> QED
    BY <2>4, NamesOfPrint
<1>3. Registered("gen") \cap Registered("print") = {}
  BY <1>1, <1>2
<1>4. ASSUME NEW t \in {"gen", "print"}, NEW name \in Registered(t)
      PROVE  Owner(name) = t
  <2>1. \A u : (\E i \in 1..Len(Literals[u]) : Literals[u][i] = name) <=> name \in Registered(u)
    BY DEF Registered, Names
  <2>2. \A u \in {"gen", "print"} : name \in Registered(u) <=> u = t
    BY <1>3
  <2>3. \A u \in {"gen", "print"} :
          (\E i \in 1..Len(Literals[u]) : Literals[u][i] = name) <=> u = t
    BY <2>1, <2>2
  <2> QED
    BY <2>3, Zenon DEF Owner
<1> QED
  BY <1>3, <1>4

\* The programs that a table has been dumped from, and its rows that were edited.
DumpsOf(path) == IF path \in DOMAIN Tables THEN Tables[path].dumps ELSE {}

EditedOf(path) == IF path \in DOMAIN Tables THEN Tables[path].edited ELSE <<>>

\* Another name of the table cannot be told from this one.
Shares(path, hash, name) ==
  \/ \E t \in DumpsOf(path), other \in DOMAIN hash :
       /\ other # name /\ Owner(other) = t
       /\ Fingerprint(hash[other]) = Fingerprint(hash[name])
  \/ \E i \in 1..Len(EditedOf(path)) : EditedOf(path)[i].value = Fingerprint(hash[name])

\* What may be shown for a name that t registers.
RightName(path, hash, t, name, shown) ==
  /\ t \in DumpsOf(path) => shown = name
  /\ t \notin DumpsOf(path) => shown = "hash" \/ Shares(path, hash, name)

LEMMA ReadNames ==
  ASSUME NEW path, NEW hash \in Hashes, NEW t \in {"gen", "print"}, NEW name \in Registered(t),
         LiteralTable(path, hash).ok
  PROVE  RightName(path, hash, t, name,
                   LiteralText(Fingerprint(hash[name]), LiteralTable(path, hash).table))
<1> DEFINE value == Fingerprint(hash[name])
           table == LiteralTable(path, hash).table
           shown == LiteralText(value, table)
<1>1. value # 0
  BY DEF Fingerprint
<1>2. value \notin DOMAIN table => shown = "hash"
  BY <1>1 DEF LiteralText
<1>3. value \in DOMAIN table => shown = table[value]
  BY DEF LiteralText
<1>4. CASE path = ""
  <2>1. path \notin DOMAIN Tables
    BY <1>4, TablesAssumption
  <2>2. table = Table(<<>>)
    <3> DEFINE none == Table(<<>>)
    <3> HIDE DEF none
    <3>1. LiteralTable(path, hash) = [ok |-> TRUE, table |-> none]
      BY <1>4, <2>1, Zenon DEF LiteralTable, none
    <3>2. LiteralTable(path, hash).table = none
      BY <3>1
    <3> QED
      BY <3>2 DEF none
  <2>3. value \notin DOMAIN table
    <3>1. Len(<<>>) \in Nat /\ Names(<<>>) = {}
      BY DEF Names
    <3> QED
      BY <2>2, <3>1, TableText
  <2> QED
    BY <1>2, <2>1, <2>3 DEF RightName, DumpsOf
<1>5. CASE path # "" /\ path \in DOMAIN Tables
  <2> DEFINE csv == Tables[path]
             rows == Rows(csv, hash)
  <2>1. LiteralTable(path, hash) = ReadTable(csv.header, rows)
    BY <1>5 DEF LiteralTable
  <2>2. /\ table = Table(rows)
        /\ \A i, j \in 1..Len(rows) : rows[i].value = rows[j].value => rows[i].text = rows[j].text
    BY <2>1 DEF ReadTable
  <2>3. \A r, s \in Names(rows) : r.value = s.value => r.text = s.text
    BY <2>2 DEF Names
  <2>4. /\ Len(rows) \in Nat
        /\ Names(rows) = (UNION {RowsOf(u, hash) : u \in csv.dumps}) \cup Names(csv.edited)
    BY <1>5, RowsOfFile
  <2>5. DumpsOf(path) = csv.dumps /\ EditedOf(path) = csv.edited
    BY <1>5 DEF DumpsOf, EditedOf
  <2> HIDE DEF table, rows, csv, value, shown
  <2>6. /\ value \in DOMAIN table <=> \E r \in Names(rows) : r.value = value
        /\ value \in DOMAIN table => \E r \in Names(rows) : r.value = value /\ table[value] = r.text
    BY <2>2, <2>4, TableText
  <2>7. ASSUME t \in csv.dumps PROVE shown = name
    <3> DEFINE row == RowOf(name, hash)
    <3>1. row.value = value /\ row.text = name
      BY DEF RowOf, value
    <3>2. row \in Names(rows)
      BY <2>4, <2>7 DEF RowsOf
    <3> HIDE DEF row
    <3>3. PICK r \in Names(rows) : r.value = value /\ table[value] = r.text
      BY <2>6, <3>1, <3>2
    <3>4. value \in DOMAIN table
      BY <2>6, <3>1, <3>2
    <3> QED
      BY <1>3, <2>3, <3>1, <3>2, <3>3, <3>4
  <2>8. ASSUME t \notin csv.dumps, shown # "hash" PROVE Shares(path, hash, name)
    <3>1. PICK r \in Names(rows) : r.value = value
      BY <1>2, <2>6, <2>8
    <3>2. CASE r \in Names(csv.edited)
      BY <2>5, <3>1, <3>2 DEF Shares, Names, value
    <3>3. CASE \E u \in csv.dumps : r \in RowsOf(u, hash)
      <4>1. PICK u \in csv.dumps : r \in RowsOf(u, hash)
        BY <3>3
      <4>2. PICK other \in Registered(u) : r = RowOf(other, hash)
        BY <4>1 DEF RowsOf
      <4>3. u \in {"gen", "print"} /\ u # t
        BY <1>5, <2>8, TablesAssumption DEF csv
      <4>4. Owner(other) = u /\ Owner(name) = t
        BY <4>3, NamesDiffer
      <4>5. other \in DOMAIN hash
        <5>1. DOMAIN hash = Registered("gen") \cup Registered("print")
          BY HashesAssumption DEF Registered
        <5> QED
          BY <4>3, <5>1
      <4>6. Fingerprint(hash[other]) = Fingerprint(hash[name])
        BY <3>1, <4>2 DEF RowOf, value
      <4> QED
        BY <2>5, <4>3, <4>4, <4>5, <4>6 DEF Shares
    <3> QED
      BY <2>4, <3>2, <3>3
  <2> QED
    BY <2>5, <2>7, <2>8 DEF RightName, shown, value, table
<1>6. path = "" \/ path \in DOMAIN Tables
  BY DEF LiteralTable
<1> QED
  BY <1>4, <1>5, <1>6

-----------------------------------------------------------------------------
(***************************************************************************)
(* The report of checkpoint_print, and what it shows of the ring.          *)
(***************************************************************************)
ShowsSlots(r, slots) ==
  /\ slots \in Seq(Addresses) /\ Len(r.lines) = Len(slots)
  /\ \A j \in 1..Len(slots), k \in 1..Len(slots) : j < k => slots[j] < slots[k]
  /\ \A k \in 1..Len(slots) :
       /\ r.lines[k].tick = mem[slots[k]].tick
       /\ r.lines[k].back => k > 1 /\ mem[slots[k]].tick < mem[slots[k - 1]].tick
       /\ mem[slots[k]].tick # 0 =>
            RightName(r.table, r.hash, tool, NameOf(mem[slots[k]].tick), r.lines[k].name)
  /\ r.status = 0 /\ r.limit = 0 =>
       \A a \in Addresses : mem[a].tick # 0 => \E k \in 1..Len(slots) : slots[k] = a

Shows(r) == \E slots : ShowsSlots(r, slots)

\* What the slots of the ring hold: the newest ticks, each in one slot.
LEMMA RingTicks ==
  ASSUME BoundedTransactions, RecorderInv, RingInv
  PROVE  /\ \A a \in Addresses : mem[a].tick # 0 => mem[a].tick \in (clock - Newest + 1)..clock
         /\ \A t \in (clock - Newest + 1)..clock : t # 0 /\ \E a \in Addresses : mem[a].tick = t
         /\ \A a, b \in Addresses : mem[a].tick = mem[b].tick /\ mem[a].tick # 0 => a = b
         /\ \A a, b \in Addresses :
              a < b /\ mem[b].tick < mem[a].tick /\ mem[b].tick # 0 => a < NextSlot /\ NextSlot <= b
         /\ Newest \in Nat /\ Newest <= clock
<1>1. /\ NextSlot \in Addresses /\ Capacity \in Nat /\ Capacity > 1 /\ clock \in Nat
  BY NextSlotInRing
<1>2. /\ NextSlot \in Nat /\ NextSlot < Capacity /\ NextSlot <= clock
      /\ Lap = clock - NextSlot /\ (Lap = 0 \/ Lap >= Capacity)
  BY <1>1 DEF RingInv, Lap, Addresses
<1>3. \A a \in Addresses : a \in Nat /\ a < Capacity
  BY <1>1 DEF Addresses
<1>4. \A a \in Addresses : mem[a].tick = IF a < NextSlot THEN Lap + a + 1
                                         ELSE IF Lap = 0 THEN 0 ELSE Lap - Capacity + a + 1
  BY DEF RingInv, Empty
<1>5. Newest = IF Lap = 0 THEN clock ELSE Capacity
  BY <1>1, <1>2 DEF Newest
<1>6. ASSUME NEW a \in Addresses, mem[a].tick # 0 PROVE mem[a].tick \in (clock - Newest + 1)..clock
  BY <1>1, <1>2, <1>3, <1>4, <1>5, <1>6
<1>7. ASSUME NEW t \in (clock - Newest + 1)..clock PROVE t # 0 /\ \E a \in Addresses : mem[a].tick = t
  <2>1. t \in Nat /\ t # 0
    BY <1>1, <1>2, <1>5
  <2>2. CASE t > Lap
    <3> DEFINE a == t - Lap - 1
    <3>1. a \in Addresses /\ a < NextSlot /\ Lap + a + 1 = t
      BY <1>1, <1>2, <2>1, <2>2 DEF Addresses
    <3> HIDE DEF a
    <3>2. mem[a].tick = t
      BY <1>4, <3>1
    <3> QED
      BY <2>1, <3>1, <3>2
  <2>3. CASE ~(t > Lap)
    <3> DEFINE a == t - Lap + Capacity - 1
    <3>1. a \in Addresses /\ ~(a < NextSlot) /\ Lap # 0 /\ Lap - Capacity + a + 1 = t
      BY <1>1, <1>2, <1>5, <2>1, <2>3 DEF Addresses
    <3> HIDE DEF a
    <3>2. mem[a].tick = t
      BY <1>4, <3>1
    <3> QED
      BY <2>1, <3>1, <3>2
  <2> QED
    BY <2>2, <2>3
<1>8. ASSUME NEW a \in Addresses, NEW b \in Addresses, mem[a].tick = mem[b].tick, mem[a].tick # 0
      PROVE  a = b
  BY <1>1, <1>2, <1>3, <1>4, <1>8
<1>9. ASSUME NEW a \in Addresses, NEW b \in Addresses, a < b, mem[b].tick < mem[a].tick,
             mem[b].tick # 0
      PROVE  a < NextSlot /\ NextSlot <= b
  BY <1>1, <1>2, <1>3, <1>4, <1>9
<1>10. Newest \in Nat /\ Newest <= clock
  BY <1>1, <1>2, <1>5
<1> QED
  BY <1>6, <1>7, <1>8, <1>9, <1>10

\* checkpoint_print shows the ring.
LEMMA ReportShows ==
  ASSUME BoundedTransactions, RecorderInv, RingInv, MarksInv, LiteralsInv, tool \in {"gen", "print"},
         NEW o, NEW hash \in Hashes
  PROVE  Shows(PrintCheckpoints(o, hash))
<1> DEFINE path == o.values["literals"]
           limit == NumberOf(o.values["limit"])
           all == <<"all">> \in o.flags
           literals == LiteralTable(path, hash)
           slots == Chosen(limit, all, hash)
           made == PrintCheckpoints(o, hash)
           listing == Listing(limit, all, hash, literals.table)
<1>1. made = [status |-> IF literals.ok THEN 0 ELSE 1,
                 lines |-> IF literals.ok THEN listing ELSE <<>>,
                 limit |-> limit, all |-> all, table |-> path, hash |-> hash]
  BY Zenon DEF PrintCheckpoints
<1>2. listing = [k \in 1..Len(slots) |->
                   [index |-> slots[k], tick |-> mem[slots[k]].tick,
                    back |-> k > 1 /\ mem[slots[k]].tick < mem[slots[k - 1]].tick,
                    name |-> LiteralText(WhereOf(mem[slots[k]], hash), literals.table)]]
  BY Zenon DEF Listing
<1>3. ChosenUpTo(slots, Capacity, limit, hash)
  BY ChosenAreAscending
<1>4. slots \in Seq(Addresses) /\ Len(slots) \in Nat /\ \A k \in 1..Len(slots) : slots[k] \in Addresses
  BY <1>3 DEF ChosenUpTo
<1>5. ASSUME NEW a \in Addresses, mem[a].tick # 0
      PROVE  /\ ~IsEmpty(mem[a], hash)
             /\ literals.ok =>
                  RightName(path, hash, tool, NameOf(mem[a].tick),
                            LiteralText(WhereOf(mem[a], hash), literals.table))
  <2> DEFINE name == NameOf(mem[a].tick)
  <2>1. mem[a].tick \in 1..Len(marks)
    <3>1. mem[a].tick \in (clock - Newest + 1)..clock /\ Newest \in Nat /\ Newest <= clock
      BY <1>5, RingTicks
    <3> QED
      BY <3>1 DEF MarksInv
  <2>2. name \in Registered(tool)
    BY <2>1 DEF LiteralsInv, NameOf
  <2>3. WhereOf(mem[a], hash) = Fingerprint(hash[name])
    BY <1>5 DEF WhereOf, NameOf
  <2> HIDE DEF name, literals, path
  <2>4. literals.ok => RightName(path, hash, tool, name,
                                 LiteralText(Fingerprint(hash[name]), literals.table))
    BY <2>2, ReadNames DEF literals
  <2>5. ~IsEmpty(mem[a], hash)
    BY <1>5 DEF IsEmpty
  <2> QED
    BY <2>3, <2>4, <2>5 DEF name
<1> HIDE DEF path, limit, all, literals, slots, made, listing
<1>6. CASE literals.ok
  <2>1. /\ made.lines = listing /\ made.status = 0 /\ made.limit = limit
        /\ made.table = path /\ made.hash = hash
    BY <1>1, <1>6
  <2>2. Len(listing) = Len(slots)
    BY <1>2, <1>4
  <2>3. \A k \in 1..Len(slots) :
          /\ listing[k].tick = mem[slots[k]].tick
          /\ listing[k].back = (k > 1 /\ mem[slots[k]].tick < mem[slots[k - 1]].tick)
          /\ listing[k].name = LiteralText(WhereOf(mem[slots[k]], hash), literals.table)
    BY <1>2
  <2>4. \A k \in 1..Len(slots) : mem[slots[k]].tick # 0 =>
          RightName(path, hash, tool, NameOf(mem[slots[k]].tick), listing[k].name)
    BY <1>4, <1>5, <1>6, <2>3
  <2>5. limit = 0 =>
          \A a \in Addresses : mem[a].tick # 0 => \E k \in 1..Len(slots) : slots[k] = a
    <3>1. \A a \in Addresses : a \in 0..(Capacity - 1)
      BY DEF Addresses
    <3> QED
      BY <1>3, <1>5, <3>1 DEF ChosenUpTo
  <2>6. ShowsSlots(made, slots)
    BY <1>3, <1>4, <2>1, <2>2, <2>3, <2>4, <2>5 DEF ShowsSlots, ChosenUpTo
  <2> QED
    BY <2>6 DEF Shows, made
<1>7. CASE ~literals.ok
  <2>1. made.lines = <<>> /\ made.status = 1
    BY <1>1, <1>7
  <2>2. <<>> \in Seq(Addresses) /\ Len(<<>>) = 0 /\ 1..0 = {}
    OBVIOUS
  <2>3. ShowsSlots(made, <<>>)
    BY <2>1, <2>2 DEF ShowsSlots
  <2> QED
    BY <2>3 DEF Shows, made
<1> QED
  BY <1>6, <1>7

\* The report is made when the tools have ended, and nothing changes after it.
ReportInv == report = NoReport \/ (Exited /\ runs = MaxRuns /\ Shows(report))

\* The inductive invariant of a chain.
ChainInv == RingInv /\ LiteralsInv /\ ReportInv

LEMMA StepsBeforeExit ==
  ASSUME ToolStep
  PROVE  ~Exited
<1>1. CASE PcapItchGen
  BY <1>1 DEF PcapItchGen, GenCalls, ParseIpv4Fails, OpenOutputFails, GenLine, OpenOutput,
     WriteGlobalHeader, GenLoop, ChooseMessage, PayloadEnd, WritePacket, NextPacket, At, Exited
<1>2. CASE PcapItchPrint
  BY <1>2 DEF PcapItchPrint, PrintCalls, PrintLine, OpenInput, NextHeader, ReadHeaders, ReadUdp,
     ReadMold, NextMessage, PrintMessage, MessageEnd, PacketEnd, At, Exited
<1>3. CASE Unwind \/ Catch
  BY <1>3 DEF Unwind, Catch, Exited
<1> QED
  BY <1>1, <1>2, <1>3 DEF ToolStep

LEMMA SameShows ==
  ASSUME Shows(report), UNCHANGED <<mem, marks, tool, report>>
  PROVE  Shows(report)'
<1>1. PICK slots : ShowsSlots(report, slots)
  BY DEF Shows
<1>2. ShowsSlots(report, slots)'
  BY <1>1 DEF ShowsSlots, NameOf
<1> QED
  BY <1>2 DEF Shows

LEMMA ChainNextReport ==
  ASSUME BoundedTransactions, RecorderInv, MarksInv, PlacesInv, ChainInv, [ChainNext]_chainVars
  PROVE  ReportInv'
<1>1. CASE RunGen \/ RunPrint
  <2>1. report' = NoReport
    BY <1>1 DEF RunGen, RunPrint
  <2> QED
    BY <2>1 DEF ReportInv
<1>2. CASE Step
  <2>1. ~Exited /\ UNCHANGED <<runs, asked, report>>
    BY <1>2, StepsBeforeExit DEF Step
  <2> QED
    BY <2>1 DEF ChainInv, ReportInv
<1>3. CASE RunCheckpointPrint
  <2>1. PICK line \in ChainLines.checkpoint_print, hash \in Hashes :
          LET o == ParseOptions("checkpoint_print", line)
          IN  Exited /\ runs' = MaxRuns /\ report' = PrintCheckpoints(o, hash)
    BY <1>3 DEF RunCheckpointPrint
  <2>2. tool # "none" /\ UNCHANGED <<vars, toolVars>>
    BY <1>3 DEF RunCheckpointPrint
  <2>3. tool \in {"gen", "print"}
    BY <2>2 DEF PlacesInv
  <2> DEFINE o == ParseOptions("checkpoint_print", line)
             shown == PrintCheckpoints(o, hash)
  <2>4. Shows(shown)
    BY <2>3, ReportShows DEF ChainInv
  <2>5. PICK slots : ShowsSlots(shown, slots)
    BY <2>4 DEF Shows
  <2>6. report' = shown /\ Exited /\ runs' = MaxRuns
    BY <2>1
  <2> HIDE DEF shown
  <2>7. UNCHANGED <<mem, marks, tool, pc>>
    BY <2>2 DEF vars, toolVars
  <2>8. ShowsSlots(report, slots)'
    BY <2>5, <2>6, <2>7 DEF ShowsSlots, NameOf
  <2> QED
    BY <2>6, <2>7, <2>8 DEF ReportInv, Shows, Exited
<1>4. CASE Try \/ Done \/ UNCHANGED chainVars
  <2>1. UNCHANGED <<vars, toolVars, report>> /\ (runs' = MaxRuns \/ runs' = runs)
    BY <1>4 DEF Try, Done, chainVars
  <2>2. UNCHANGED <<mem, marks, tool, report, pc>>
    BY <2>1 DEF vars, toolVars
  <2>3. Shows(report) => Shows(report)'
    BY <2>2, SameShows
  <2> QED
    BY <2>1, <2>2, <2>3 DEF ChainInv, ReportInv, Exited
<1> QED
  BY <1>1, <1>2, <1>3, <1>4 DEF ChainNext

\* One report, and the ring, make the property.
LEMMA ShownIsRecorded ==
  ASSUME BoundedTransactions, RecorderInv, RingInv, report = NoReport \/ Shows(report)
  PROVE  PrintedIsRecorded
<1> DEFINE lines == report.lines
           records == {k \in 1..Len(lines) : lines[k].tick # 0}
           ticks == {lines[k].tick : k \in records}
           newest == (clock - Newest + 1)..clock
           dumps == IF report.table \in DOMAIN Tables THEN Tables[report.table].dumps ELSE {}
           edited == IF report.table \in DOMAIN Tables THEN Tables[report.table].edited ELSE <<>>
           Shared(name) ==
             \/ \E t \in dumps, other \in DOMAIN report.hash :
                   /\ other # name /\ Owner(other) = t
                   /\ Fingerprint(report.hash[other]) = Fingerprint(report.hash[name])
             \/ \E i \in 1..Len(edited) : edited[i].value = Fingerprint(report.hash[name])
           back == {k \in records : lines[k].back}
           Content ==
             /\ ticks \subseteq newest /\ Cardinality(ticks) = Cardinality(records)
             /\ report.status = 0 /\ report.hash # <<>> /\ report.limit = 0 => ticks = newest
             /\ Cardinality(back) <= 1
             /\ \A k \in records :
                  LET name == NameOf(lines[k].tick)
                  IN  /\ tool \in dumps => lines[k].name = name
                      /\ tool \notin dumps => lines[k].name = "hash" \/ Shared(name)
<1>1. Content => PrintedIsRecorded
  BY Zenon DEF PrintedIsRecorded
<1>2. CASE report = NoReport
  <2>1. lines = <<>> /\ report.hash = <<>>
    BY <1>2 DEF NoReport
  <2>2. records = {}
    BY <2>1
  <2> HIDE DEF records
  <2>3. ticks = {} /\ back = {}
    BY <2>2
  <2>4. Cardinality(ticks) = 0 /\ Cardinality(records) = 0 /\ Cardinality(back) = 0
    BY <2>2, <2>3, FS_EmptySet
  <2> HIDE DEF ticks, back, newest, dumps, edited, Shared
  <2>5. Content
    BY <2>1, <2>2, <2>3, <2>4
  <2> QED
    BY <1>1, <2>5
<1>3. ASSUME NEW slots, ShowsSlots(report, slots) PROVE Content
  <2> DEFINE n == Len(slots)
             Tick(k) == mem[slots[k]].tick
  <2>1. /\ slots \in Seq(Addresses) /\ Len(lines) = n /\ n \in Nat
        /\ \A k \in 1..n : slots[k] \in Addresses /\ slots[k] \in Int
    <3>1. slots \in Seq(Addresses) /\ Len(lines) = n
      BY <1>3 DEF ShowsSlots
    <3>2. \A a \in Addresses : a \in Int
      BY CapacityAssumption DEF Addresses
    <3> QED
      BY <3>1, <3>2
  <2>2. records = {k \in 1..n : Tick(k) # 0} /\ \A k \in 1..n : lines[k].tick = Tick(k)
    BY <1>3, <2>1 DEF ShowsSlots
  <2>3. ticks = {Tick(k) : k \in records}
    BY <2>2
  <2>4. \A j \in 1..n, k \in 1..n : j < k => slots[j] < slots[k]
    BY <1>3 DEF ShowsSlots
  <2>5. \A j \in records, k \in records : Tick(j) = Tick(k) => j = k
    <3> SUFFICES ASSUME NEW j \in records, NEW k \in records, Tick(j) = Tick(k) PROVE j = k
      OBVIOUS
    <3>1. j \in 1..n /\ k \in 1..n /\ Tick(j) # 0
      BY <2>2
    <3>2. slots[j] = slots[k]
      BY <2>1, <3>1, RingTicks
    <3>3. ~(j < k) /\ ~(k < j)
      BY <2>1, <2>4, <3>1, <3>2
    <3> QED
      BY <2>1, <3>1, <3>3
  <2>6. ticks \subseteq newest
    <3>1. \A k \in records : Tick(k) \in newest
      BY <2>1, <2>2, RingTicks
    <3> QED
      BY <2>3, <3>1
  <2>7. IsFiniteSet(records)
    <3>1. records \subseteq 1..n /\ IsFiniteSet(1..n)
      BY <2>1, <2>2, FS_Interval
    <3> QED
      BY <3>1, FS_Subset
  <2>8. Cardinality(ticks) = Cardinality(records)
    <3> DEFINE f == [k \in records |-> Tick(k)]
    <3>1. f \in Bijection(records, ticks)
      <4>1. f \in [records -> ticks]
        BY <2>3
      <4>2. \A j \in records, k \in records : f[j] = f[k] => j = k
        BY <2>5
      <4>3. \A t \in ticks : \E k \in records : f[k] = t
        BY <2>3
      <4> HIDE DEF f, ticks, records, Tick
      <4>4. f \in Injection(records, ticks)
        BY <4>1, <4>2 DEF Injection, IsInjective
      <4>5. f \in Surjection(records, ticks)
        BY <4>1, <4>3 DEF Surjection
      <4> QED
        BY <4>4, <4>5 DEF Bijection
    <3> HIDE DEF f, ticks, records
    <3>2. ExistsBijection(records, ticks)
      BY <3>1 DEF ExistsBijection
    <3> QED
      BY <2>7, <3>2, FS_Bijection
  <2>9. ASSUME report.status = 0, report.limit = 0 PROVE ticks = newest
    <3>1. ASSUME NEW t \in newest PROVE t \in ticks
      <4>1. PICK a \in Addresses : mem[a].tick = t /\ t # 0
        BY RingTicks
      <4>2. PICK k \in 1..n : slots[k] = a
        BY <1>3, <2>9, <4>1 DEF ShowsSlots
      <4>3. k \in records /\ Tick(k) = t
        BY <2>2, <4>1, <4>2
      <4> QED
        BY <2>3, <4>3
    <3> QED
      BY <2>6, <3>1
  <2>10. \A k \in back : k \in 1..n /\ k - 1 \in 1..n /\ slots[k - 1] < NextSlot /\ NextSlot <= slots[k]
    <3> SUFFICES ASSUME NEW k \in back
                 PROVE  k \in 1..n /\ k - 1 \in 1..n /\ slots[k - 1] < NextSlot /\ NextSlot <= slots[k]
      OBVIOUS
    <3>1. k \in 1..n /\ Tick(k) # 0 /\ lines[k].back
      BY <2>2
    <3>2. k > 1 /\ Tick(k) < Tick(k - 1)
      BY <1>3, <3>1 DEF ShowsSlots
    <3>3. k - 1 \in 1..n /\ k - 1 < k
      BY <2>1, <3>1, <3>2
    <3>4. slots[k - 1] < slots[k]
      BY <2>4, <3>1, <3>3
    <3> QED
      BY <2>1, <3>1, <3>2, <3>3, <3>4, RingTicks
  <2>11. Cardinality(back) <= 1
    <3>1. ASSUME NEW j \in back, NEW k \in back, j < k PROVE FALSE
      <4>1. /\ j \in 1..n /\ k - 1 \in 1..n /\ slots[k - 1] < NextSlot /\ NextSlot <= slots[j]
        BY <2>10
      <4>2. j = k - 1 \/ j < k - 1
        BY <2>1, <2>10, <3>1, <4>1
      <4>3. slots[j] <= slots[k - 1]
        BY <2>1, <2>4, <4>1, <4>2
      <4>4. NextSlot \in Int
        BY NextSlotInRing DEF Addresses
      <4> QED
        BY <2>1, <4>1, <4>3, <4>4
    <3>2. \A j \in back, k \in back : j = k
      <4>1. \A k \in back : k \in Int
        BY <2>1, <2>10
      <4> QED
        BY <3>1, <4>1
    <3> HIDE DEF back
    <3>3. back = {} \/ \E k : back = {k}
      BY <3>2
    <3>4. CASE back = {}
      BY <3>4, FS_EmptySet
    <3>5. ASSUME NEW k, back = {k} PROVE Cardinality(back) <= 1
      <4>1. Cardinality({k}) = 1
        BY FS_Singleton
      <4> QED
        BY <3>5, <4>1
    <3> QED
      BY <3>3, <3>4, <3>5
  <2>12. ASSUME NEW k \in records
         PROVE  LET name == NameOf(lines[k].tick)
                IN  /\ tool \in dumps => lines[k].name = name
                    /\ tool \notin dumps => lines[k].name = "hash" \/ Shared(name)
    <3> DEFINE name == NameOf(lines[k].tick)
    <3>1. k \in 1..n /\ Tick(k) # 0 /\ lines[k].tick = Tick(k)
      BY <2>2
    <3>2. RightName(report.table, report.hash, tool, name, lines[k].name)
      BY <1>3, <3>1 DEF ShowsSlots
    <3>3. dumps = DumpsOf(report.table) /\ edited = EditedOf(report.table)
      BY DEF DumpsOf, EditedOf
    <3>4. Shares(report.table, report.hash, name) => Shared(name)
      BY <3>3 DEF Shares
    <3> HIDE DEF dumps, edited, Shared, name, lines
    <3> QED
      BY <3>2, <3>3, <3>4 DEF RightName, name
  <2> HIDE DEF lines, records, ticks, newest, dumps, edited, Shared, back
  <2> QED
    BY <2>6, <2>8, <2>9, <2>11, <2>12
<1>4. CASE Shows(report)
  <2>1. PICK slots : ShowsSlots(report, slots)
    BY <1>4 DEF Shows
  <2>2. Content
    BY <1>3, <2>1
  <2> HIDE DEF Content
  <2> QED
    BY <1>1, <2>2
<1> QED
  BY <1>2, <1>4

\* Whatever is traced, and wherever the ring has wrapped: what checkpoint_print shows of
\* the ring that a program has left are its newest records, each once, all of them if there
\* is no limit, going back in time at most once, and under the name of their place in the
\* program if its table is given.
THEOREM RecordsArePrinted ==
  ASSUME BoundedTransactions, MinCount <= 1
  PROVE  ChainSpec => []PrintedIsRecorded
<1>1. ChainInit => ChainInv
  <2> SUFFICES ASSUME ChainInit PROVE ChainInv
    OBVIOUS
  <2>1. /\ mem = [a \in Addresses |-> Empty] /\ start = 0 /\ count = 0 /\ clock = 0
        /\ marks = <<>> /\ stack = <<>> /\ report = NoReport
    BY DEF ChainInit, ToolsInit, Init
  <2>2. RingInv
    BY <2>1, EmptyRing
  <2> QED
    BY <2>1, <2>2 DEF ChainInv, LiteralsInv, ReportInv
<1>2. RunInv /\ ChainInv /\ [ChainNext]_chainVars => ChainInv'
  <2> SUFFICES ASSUME RunInv, ChainInv, [ChainNext]_chainVars PROVE ChainInv'
    OBVIOUS
  <2>1. [ToolsNext]_<<vars, toolVars>>
    BY ChainStepsTools
  <2>2. MadeInv /\ RecorderInv /\ MarksInv /\ PlacesInv
    BY DEF RunInv
  <2>3. RingInv'
    BY <2>1, <2>2, ToolsNextRing DEF ChainInv
  <2>4. LiteralsInv'
    BY <2>1, <2>2, ToolsNextLiterals DEF ChainInv
  <2>5. ReportInv'
    BY <2>2, ChainNextReport
  <2> QED
    BY <2>3, <2>4, <2>5 DEF ChainInv
<1>3. RunInv /\ ChainInv => PrintedIsRecorded
  BY ShownIsRecorded DEF RunInv, ChainInv, ReportInv
<1> QED
  BY <1>1, <1>2, <1>3, ChainRunsTools, ToolsRun, PTL DEF ChainSpec
==============================================================================
