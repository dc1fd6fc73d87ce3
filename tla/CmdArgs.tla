------------------------------ MODULE CmdArgs --------------------------------
(***************************************************************************)
(* realperf::CmdArgs (CmdArgs.hpp): a command line becomes a map from the  *)
(* names of options, and from the numbers of the other words, to texts.    *)
(* CmdArgs does not know which options take a value: an option without     *)
(* "=" takes the next word when that is no option itself.                  *)
(*                                                                         *)
(* A word is an option, "-name" or "--name=text", or a plain text (which   *)
(* includes "-").  An empty text is an argument of length zero.            *)
(***************************************************************************)
EXTENDS Naturals, Sequences, TLC

CONSTANT Numerals   \* the numbers whose digits occur as names or texts

ASSUME NumeralsAssumption == Numerals \subseteq Nat

Option(name) == [dash |-> TRUE, name |-> name, eq |-> FALSE, text |-> ""]
OptionWith(name, text) == [dash |-> TRUE, name |-> name, eq |-> TRUE, text |-> text]
Word(text) == [dash |-> FALSE, name |-> "", eq |-> FALSE, text |-> text]

IsOption(w) == w.dash

Bare(w) == IsOption(w) /\ ~w.eq

\* Mutation of TakesNext: the next word is taken whatever it is.
TakesAnyNext(line, i) == Bare(line[i]) /\ i < Len(line)

\* The constructor consumes the next word as the value of the option at i.
TakesNext(line, i) == Bare(line[i]) /\ i < Len(line) /\ ~IsOption(line[i + 1])

IsValue(line, i) == i > 1 /\ TakesNext(line, i - 1)

\* The text stored for the option at i.
GivenText(line, i) == IF TakesNext(line, i) THEN line[i + 1].text ELSE line[i].text

OptionsAt(line) == {i \in 1..Len(line) : IsOption(line[i]) /\ ~IsValue(line, i)}

\* The words that are neither options nor values, in order: those among the first i
\* of the line, for each i.
Positionals(line) ==
  LET among[i \in 0..Len(line)] ==
        IF i = 0 THEN <<>>
        ELSE IF IsOption(line[i]) \/ IsValue(line, i) THEN among[i - 1]
        ELSE Append(among[i - 1], line[i].text)
  IN  among[Len(line)]

PositionalName(index) == ToString(index)

IsPositional(name) == \E n \in Numerals : ToString(n) = name

\* args_: of two options with the same name the later one counts; a plain word
\* never replaces an option whose name is the word's number, and is replaced by one.
Args(line) ==
  LET Named(name) == {i \in OptionsAt(line) : line[i].name = name}
      Last(set) == CHOOSE i \in set : \A j \in set : j <= i
      words == Positionals(line)
  IN  [name \in {line[i].name : i \in OptionsAt(line)}
                \cup {PositionalName(k - 1) : k \in 1..Len(words)} |->
         IF Named(name) # {} THEN GivenText(line, Last(Named(name)))
         ELSE words[CHOOSE k \in 1..Len(words) : PositionalName(k - 1) = name]]

\* find: the first of the names, in the order of the program, that was given.
HasAny(args, names) == \E i \in 1..Len(names) : names[i] \in DOMAIN args

Find(args, names) ==
  names[CHOOSE i \in 1..Len(names) :
          names[i] \in DOMAIN args /\ \A j \in 1..(i - 1) : names[j] \notin DOMAIN args]

\* value_for: an argument that is missing or empty is an exception.
ValueFor(args, name) == IF name \in DOMAIN args THEN args[name] ELSE ""

NumberOf(text) == CHOOSE n \in Numerals : ToString(n) = text

\* as<T> returns a value of this kind; otherwise it throws.  The numbers of the
\* model fit into 32 bits, so a range matters for 16 bits only.
Converts(text, kind) ==
  /\ text # ""
  /\ kind \in {"u16", "uint"} => \E n \in Numerals : ToString(n) = text
  /\ kind = "u16" => NumberOf(text) < 2^16
==============================================================================
