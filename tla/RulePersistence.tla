-------------------------- MODULE RulePersistence --------------------------
(***************************************************************************)
(* From one engine to the next through a rules file.  In the first engine   *)
(* one thread saves the rules (DPIEngine::saveRules) while others change    *)
(* them; saveRules reads the four tables one after the other, each under    *)
(* its own mutex, and clearAll empties them in the same way.  The second    *)
(* engine is main_dpi.cpp, started with a command line that may name the    *)
(* file (--rules) and more rules of its own.  An atomic step is what one    *)
(* mutex guards; the second engine takes a word, a line or a rule at a time.*)
(***************************************************************************)
EXTENDS CommandLine

CONSTANTS
  Changes,       \* calls of the rule API: records with op and value
  Commands,      \* command lines of the second engine: sequences of words
  OldFiles,      \* what may be in the rules file at first: sequences of lines
  MaxChanges     \* bound: calls of the rule API

ChangeOps ==
  {"blockIP", "unblockIP", "blockApp", "unblockApp", "blockDomain", "unblockDomain",
   "blockPort", "unblockPort"}

ASSUME ChangesAssumption ==
  /\ MaxChanges \in Nat
  /\ \A c \in Changes : /\ c.op \in ChangeOps
                        /\ c.op \in {"blockPort", "unblockPort"} => NumberOf[c.value] \in Nat
ASSUME CommandsAssumption == Commands \subseteq Seq(STRING)
\* A domain whose text starts with '[' would be read back as a section, and an
\* empty one skipped: the domains of Changes and Commands are neither.
ASSUME FilesAssumption == \A lines \in OldFiles : \A i \in DOMAIN lines : lines[i].kind \in {"section", "entry"}

VARIABLES
  store,       \* the rules of the first engine
  clearing,    \* tables clearAll has still to empty
  saving,      \* 0, the number of the next table to write, or Saved
  file,        \* the lines of the rules file, or NoFile
  engine,      \* the second engine: what it has read and what it has made of it
  changed,     \* calls of the rule API so far
  standing,    \* history: rules in force all through the last save
  ever         \* history: rules in force at some time of it

vars == <<store, clearing, saving, file, engine, changed, standing, ever>>

NoFile == <<[kind |-> "absent", text |-> ""]>>

Saved == Len(Tables) + 1    \* at most one save in a run

Saving == saving \in DOMAIN Tables

\* status is what main() does next or how it ended; words, lines and blocks are those
\* it has dealt with; saved says whether the file it loads is one the first engine saved.
NoEngine ==
  [status |-> "none", args |-> <<>>, words |-> 0, config |-> NoConfig, file |-> <<>>, lines |-> 0,
   load |-> StartLoad(EmptyStore), blocks |-> 0, saved |-> FALSE]

StoreType(s) ==
  /\ DOMAIN s = {"ips", "apps", "domains", "patterns", "ports"}
  /\ s.ips \subseteq IPs /\ s.apps \subseteq AppNames
  /\ s.domains \cap Wildcards = {} /\ ToSet(s.patterns) \subseteq Wildcards
  /\ s.ports \subseteq Ports

TypeOK ==
  /\ StoreType(store) /\ StoreType(engine.load.store)
  /\ clearing \in 0..Len(Tables)
  /\ saving \in 0..Saved
  /\ engine.status \in {"none", "options", "loading", "setting", "usage", "exit1", "terminated", "ready"}
  /\ changed \in 0..MaxChanges
  /\ standing \subseteq ever

Init ==
  /\ store = EmptyStore
  /\ clearing = 0 /\ saving = 0
  /\ file \in OldFiles \cup {NoFile}
  /\ engine = NoEngine
  /\ changed = 0 /\ standing = {} /\ ever = {}
-----------------------------------------------------------------------------
(***************************************************************************)
(* The first engine                                                         *)
(***************************************************************************)

\* What becomes of the rules, and of what was in force during a save.
SetStore(new) ==
  /\ store' = new
  /\ IF Saving
     THEN standing' = standing \cap RulesIn(new) /\ ever' = ever \cup RulesIn(new)
     ELSE UNCHANGED <<standing, ever>>

Changed(c) ==
  CASE c.op = "blockIP"       -> BlockIP(store, Octets[c.value])
    [] c.op = "unblockIP"     -> UnblockIP(store, Octets[c.value])
    [] c.op = "blockApp"      -> BlockApp(store, c.value)
    [] c.op = "unblockApp"    -> UnblockApp(store, c.value)
    [] c.op = "blockDomain"   -> BlockDomain(store, c.value)
    [] c.op = "unblockDomain" -> UnblockDomain(store, c.value)
    [] c.op = "blockPort"     -> BlockPort(store, NumberOf[c.value])
    [] c.op = "unblockPort"   -> UnblockPort(store, NumberOf[c.value])

Change(c) ==
  /\ changed < MaxChanges
  /\ changed' = changed + 1
  /\ SetStore(Changed(c))
  /\ UNCHANGED <<clearing, saving, file, engine>>

ClearAll ==
  /\ changed < MaxChanges /\ clearing = 0
  /\ changed' = changed + 1
  /\ clearing' = Len(Tables)
  /\ UNCHANGED <<store, saving, file, engine, standing, ever>>

\* IPs, applications, domains with their patterns, ports.
ClearTable ==
  /\ clearing > 0
  /\ clearing' = clearing - 1
  /\ SetStore(CASE clearing = 4 -> [store EXCEPT !.ips = {}]
                [] clearing = 3 -> [store EXCEPT !.apps = {}]
                [] clearing = 2 -> [store EXCEPT !.domains = {}, !.patterns = <<>>]
                [] clearing = 1 -> [store EXCEPT !.ports = {}])
  /\ UNCHANGED <<saving, file, engine, changed>>

\* Opening the file for writing empties it; if that fails nothing is saved.
SaveRules ==
  /\ saving = 0
  /\ saving' = 1
  /\ file' = <<>>
  /\ standing' = RulesIn(store) /\ ever' = RulesIn(store)
  /\ UNCHANGED <<store, clearing, engine, changed>>

SaveTable ==
  /\ Saving
  /\ file' = file \o SavedTable(store, Tables[saving])
  /\ saving' = saving + 1
  /\ UNCHANGED <<store, clearing, engine, changed, standing, ever>>
-----------------------------------------------------------------------------
(***************************************************************************)
(* The second engine: main()                                                *)
(***************************************************************************)

MainAt(status) == engine.status = status /\ UNCHANGED <<store, clearing, saving, file, changed, standing, ever>>

Goto(status) == engine' = [engine EXCEPT !.status = status]

StartEngine(args) ==
  /\ MainAt("none")
  /\ engine' = [NoEngine EXCEPT
       !.args = args, !.words = 2,
       !.status = IF args # <<>> /\ args[1] \in HelpOptions THEN "usage"
                  ELSE IF Len(args) < 2 THEN "exit1" ELSE "options"]

ReadWord ==
  LET config == OnWord(engine.config, engine.args[engine.words + 1])
  IN /\ MainAt("options") /\ engine.words < Len(engine.args)
     /\ engine' = [engine EXCEPT !.words = @ + 1, !.config = config,
                                 !.status = IF config.exit = "none" THEN @ ELSE config.exit]

AllWordsRead == MainAt("options") /\ engine.words = Len(engine.args)

\* An option without its value.
ValueMissing == AllWordsRead /\ engine.config.option # "" /\ Goto("exit1")

WithoutFile == AllWordsRead /\ engine.config.option = "" /\ ~engine.config.rules /\ Goto("setting")

\* A file half written is left out: no save is going on.
OpenRules ==
  /\ AllWordsRead /\ engine.config.option = "" /\ engine.config.rules
  /\ ~Saving
  /\ IF file = NoFile THEN Goto("exit1")
     ELSE engine' = [engine EXCEPT !.status = "loading", !.file = file, !.saved = saving = Saved]

LoadLine ==
  LET load == OnLine(engine.load, engine.file[engine.lines + 1])
  IN /\ MainAt("loading") /\ engine.lines < Len(engine.file)
     /\ engine' = [engine EXCEPT !.lines = @ + 1, !.load = load,
                                 !.status = IF load.threw THEN "terminated" ELSE @]

EndOfFile == MainAt("loading") /\ engine.lines = Len(engine.file) /\ Goto("setting")

\* main() sets the rules kind by kind; each kind has a table of its own.
SetRule ==
  /\ MainAt("setting") /\ engine.blocks < Len(engine.config.blocks)
  /\ engine' = [engine EXCEPT !.blocks = @ + 1,
                              !.load.store = BlockRule(@, engine.config.blocks[engine.blocks + 1])]

ReadyToProcess ==
  MainAt("setting") /\ engine.blocks = Len(engine.config.blocks) /\ Goto("ready")

Main == \/ \E args \in Commands : StartEngine(args)
        \/ ReadWord \/ ValueMissing \/ WithoutFile \/ OpenRules
        \/ LoadLine \/ EndOfFile \/ SetRule \/ ReadyToProcess

Terminating == engine.status \in {"ready", "usage", "exit1", "terminated"} /\ UNCHANGED vars

Next == \/ \E c \in Changes : Change(c)
        \/ ClearAll \/ ClearTable
        \/ SaveRules \/ SaveTable
        \/ Main
        \/ Terminating

Spec == Init /\ [][Next]_vars
-----------------------------------------------------------------------------
(***************************************************************************)
(* Properties                                                               *)
(***************************************************************************)

\* An engine that loads a saved file and is ready to process has every rule that was
\* in force all through the save, none that was not in force at some time of it, and
\* every rule its command line names besides; without a file it has those alone
\* (saveRules against loadRules, main()).
SavedRulesReload ==
  LET rules == RulesIn(engine.load.store)
      named == NamedBy(engine.args)
  IN engine.status = "ready" =>
       IF NamesFile(engine.args)
       THEN engine.saved => standing \cup named \subseteq rules /\ rules \subseteq ever \cup named
       ELSE rules = named
=============================================================================
