---------------------------- MODULE CommandLine ----------------------------
(***************************************************************************)
(* src/src/main_dpi.cpp: what a command line asks for, and the rules that a *)
(* starting engine makes of it.  A command line is a sequence of words, the *)
(* name of the program left out.                                            *)
(***************************************************************************)
EXTENDS RuleStore

CONSTANTS
  Octets,      \* for a word that is an IP address, its numbers, at most four
  NumberOf     \* for a word that is a number, the number

\* What was read of the options: how main() ends because of them, the one that
\* waits for its value, whether there is a file of rules, and the rules, in the order
\* of the words.
NoConfig == [exit |-> "none", option |-> "", rules |-> FALSE, blocks |-> <<>>]

ExitWith(status) == [NoConfig EXCEPT !.exit = status]

\* Thread counts must be numbers above zero.
ParsePositiveInt(word) == word \in DOMAIN NumberOf /\ NumberOf[word] > 0

BlockOptions == {"--block-ip", "--block-app", "--block-domain"}
CountOptions == {"--lbs", "--fps"}
ValueOptions == BlockOptions \cup CountOptions \cup {"--rules", "--json-report"}
HelpOptions  == {"--help", "-h"}

\* Whatever follows such an option is its value.
TakeValue(config, value) ==
  LET taken == [config EXCEPT !.option = ""]
  IN IF config.option \in BlockOptions
     THEN [taken EXCEPT !.blocks = Append(@, [option |-> config.option, value |-> value])]
     ELSE IF config.option = "--rules" THEN [taken EXCEPT !.rules = value # ""]
     ELSE IF config.option \in CountOptions /\ ~ParsePositiveInt(value) THEN ExitWith("exit1")
     ELSE taken

\* The first word that is wrong decides how main() ends.
OnWord(config, word) ==
  IF config.exit # "none" THEN config
  ELSE IF config.option # "" THEN TakeValue(config, word)
  ELSE IF word \in ValueOptions THEN [config EXCEPT !.option = word]
  ELSE IF word = "--verbose" THEN config
  ELSE ExitWith(IF word \in HelpOptions THEN "usage" ELSE "exit1")

\* The first n words, for every n; the first two are files.
WordsRead(args) ==
  LET After[n \in 0..Len(args)] == IF n <= 2 THEN NoConfig ELSE OnWord(After[n - 1], args[n])
  IN After

ParseOptions(args) ==
  LET config == WordsRead(args)[Len(args)]
  IN IF args # <<>> /\ args[1] \in HelpOptions THEN ExitWith("usage")
     ELSE IF Len(args) < 2 \/ config.option # "" THEN ExitWith("exit1")
     ELSE config

BlockRule(rules, block) ==
  IF block.option = "--block-ip" THEN BlockIP(rules, Octets[block.value])
  ELSE IF block.option = "--block-app" THEN BlockApp(rules, block.value)
  ELSE BlockDomain(rules, block.value)

\* The first n of some rules set, for every n.
RulesSet(rules, blocks) ==
  LET After[n \in 0..Len(blocks)] == IF n = 0 THEN rules ELSE BlockRule(After[n - 1], blocks[n])
  IN After

\* The rules of the command line come after those of the file.  main() sets them
\* kind by kind; each kind has a table of its own.
BlockAll(rules, config) == RulesSet(rules, config.blocks)[Len(config.blocks)]

\* Which words are options: after the two files, each but the value of the option
\* before it.
IsOption(args) ==
  LET At[i \in 3..Len(args)] == i = 3 \/ ~(At[i - 1] /\ args[i - 1] \in ValueOptions)
  IN At

\* Where a command line gives an option a value, and the values.
Given(args, option) == {i \in 3..(Len(args) - 1) : IsOption(args)[i] /\ args[i] = option}

ValuesOf(args, option) == {args[i + 1] : i \in Given(args, option)}

\* The last --rules counts, and "" is no file.
NamesFile(args) ==
  \E i \in Given(args, "--rules") :
    args[i + 1] # "" /\ \A j \in Given(args, "--rules") : j <= i

\* The rules a command line names, whatever order its options are in.
NamedBy(args) ==
  {<<"IP", ParseIP(Octets[word])>> : word \in ValuesOf(args, "--block-ip")}
    \cup {<<"APP", app>> : app \in ValuesOf(args, "--block-app") \cap AppNames}
    \cup {<<"DOMAIN", domain>> : domain \in ValuesOf(args, "--block-domain")}
=============================================================================
