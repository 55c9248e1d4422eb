----------------------------- MODULE RuleStore -----------------------------
(***************************************************************************)
(* RuleManager as a value (src/src/rule_manager.cpp): what each operation   *)
(* does to the four tables, and how the rules are written to a file and     *)
(* read back.  An IP address is its four bytes, its text the numbers        *)
(* between the dots; any other text is a string, a file a sequence of lines.*)
(***************************************************************************)
EXTENDS Integers, Sequences, SequencesExt

CONSTANTS
  AppNames,      \* appTypeToString of every AppType
  Wildcards      \* the domains that hold a '*'

EmptyStore == [ips |-> {}, apps |-> {}, domains |-> {}, patterns |-> <<>>, ports |-> {}]

Bytes == 0..255
IPs   == Bytes \X Bytes \X Bytes \X Bytes
Ports == {n \in Nat : n < 65536}

\* The numbers of a dotted text, at most four and missing ones being 0, each or'ed in
\* at its byte.  A number above 255 is not refused: its upper bits fall into the
\* bytes after it, and are lost after the last.
ParseIP(text) ==
  LET Part(k, i) == IF k \in DOMAIN text
                    THEN (text[k] \div <<1, 256, 65536, 16777216>>[i - k + 1]) % 256 ELSE 0
      Bit(i, w)  == IF \E k \in 1..i : (Part(k, i) \div w) % 2 = 1 THEN w ELSE 0
      Byte(i)    == Bit(i, 1) + Bit(i, 2) + Bit(i, 4) + Bit(i, 8)
                      + Bit(i, 16) + Bit(i, 32) + Bit(i, 64) + Bit(i, 128)
  IN <<Byte(1), Byte(2), Byte(3), Byte(4)>>

BlockIP(store, text)   == [store EXCEPT !.ips = @ \cup {ParseIP(text)}]
UnblockIP(store, text) == [store EXCEPT !.ips = @ \ {ParseIP(text)}]

\* A name no application has changes nothing.
BlockApp(store, name)   == [store EXCEPT !.apps = @ \cup ({name} \cap AppNames)]
UnblockApp(store, name) == [store EXCEPT !.apps = @ \ {name}]

\* Wrong: a wildcard is kept as an exact domain.
MutBlockDomain(store, domain) == [store EXCEPT !.domains = @ \cup {domain}]

\* The patterns are a vector: one blocked twice is in it twice, and unblocking
\* takes out the first.
BlockDomain(store, domain) ==
  IF domain \in Wildcards
  THEN [store EXCEPT !.patterns = Append(@, domain)]
  ELSE [store EXCEPT !.domains = @ \cup {domain}]

UnblockDomain(store, domain) ==
  IF domain \in Wildcards
  THEN IF domain \in Range(store.patterns)
       THEN [store EXCEPT !.patterns = RemoveFirst(@, domain)]
       ELSE store
  ELSE [store EXCEPT !.domains = @ \ {domain}]

\* A port is a uint16_t.
BlockPort(store, port)   == [store EXCEPT !.ports = @ \cup {port % 65536}]
UnblockPort(store, port) == [store EXCEPT !.ports = @ \ {port % 65536}]

\* The exact domains first, then the patterns.
GetBlockedDomains(store) == SetToSeq(store.domains) \o store.patterns

\* Every rule of a store, whichever table it is in.
RulesIn(store) ==
  {<<"IP", ip>> : ip \in store.ips}
    \cup {<<"APP", app>> : app \in store.apps}
    \cup {<<"DOMAIN", d>> : d \in store.domains \cup Range(store.patterns)}
    \cup {<<"PORT", port>> : port \in store.ports}
-----------------------------------------------------------------------------
(***************************************************************************)
(* The rules file                                                           *)
(***************************************************************************)

Section(name) == [kind |-> "section", text |-> name]

Entry(text) == [kind |-> "entry", text |-> text]

Entries(S) == LET s == SetToSeq(S) IN [i \in DOMAIN s |-> Entry(s[i])]

\* The lines saveRules writes for one table, in the order of its four parts; what
\* it reads of the table is read under the table's own mutex.
Tables == <<"[BLOCKED_IPS]", "[BLOCKED_APPS]", "[BLOCKED_DOMAINS]", "[BLOCKED_PORTS]">>

\* Wrong: the patterns are not written.
MutSavedTable(store, name) ==
  <<Section(name)>> \o
  CASE name = "[BLOCKED_IPS]"     -> Entries(store.ips)
    [] name = "[BLOCKED_APPS]"    -> Entries(store.apps)
    [] name = "[BLOCKED_DOMAINS]" -> Entries(store.domains)
    [] name = "[BLOCKED_PORTS]"   -> Entries(store.ports)

SavedTable(store, name) ==
  <<Section(name)>> \o
  CASE name = "[BLOCKED_IPS]"     -> Entries(store.ips)
    [] name = "[BLOCKED_APPS]"    -> Entries(store.apps)
    [] name = "[BLOCKED_DOMAINS]" -> LET d == GetBlockedDomains(store) IN [i \in DOMAIN d |-> Entry(d[i])]
    [] name = "[BLOCKED_PORTS]"   -> Entries(store.ports)

\* Before the first line of a file that is loaded into a store.
StartLoad(store) == [store |-> store, section |-> "", threw |-> FALSE]

\* loadRules adds what a line says to what the store has, by the section the line is
\* in; an application nobody knows is passed over, and so is a line before the first
\* section.  stoi throws at a port that is no number, and the rest is not read.
OnLine(load, line) ==
  LET text     == line.text
      In(name) == line.kind = "entry" /\ load.section = name
  IN CASE line.kind = "section"    -> [load EXCEPT !.section = text]
       [] In("[BLOCKED_IPS]")      -> [load EXCEPT !.store = BlockIP(@, text)]
       [] In("[BLOCKED_APPS]")     -> [load EXCEPT !.store = BlockApp(@, text)]
       [] In("[BLOCKED_DOMAINS]")  -> [load EXCEPT !.store = BlockDomain(@, text)]
       [] In("[BLOCKED_PORTS]")    -> IF text \in Int THEN [load EXCEPT !.store = BlockPort(@, text)]
                                      ELSE [load EXCEPT !.threw = TRUE]
       [] OTHER                    -> load
=============================================================================
