------------------------------ MODULE FastPath ------------------------------
(***************************************************************************)
(* One fast path thread at work on its packets: FastPathProcessor           *)
(* (src/src/fast_path.cpp), its ConnectionTracker (connection_tracker.cpp)  *)
(* and the RuleManager it shares with whoever changes the rules             *)
(* (rule_manager.cpp).  The connection table belongs to this thread alone,  *)
(* so what processPacket does to it is one step; shouldBlock then asks the  *)
(* four rule tables one after the other, each under its own mutex, and the  *)
(* rules may change in between.  Byte counts, the packet counts of a        *)
(* connection and the two extraction counters are left out.                 *)
(***************************************************************************)
EXTENDS Integers, Sequences, FiniteSets

CONSTANTS
  Flows,           \* five-tuples: records with src_ip, src_port, dst_port, protocol
  Names,           \* host names a payload can carry
  AppOf,           \* sniToAppType; an extractor may find an empty name ("Host: :80")
  Rules,           \* what can be blocked: records with type and value
  Inputs,          \* packets: records with tuple, flags and payload
  MaxConnections,  \* max_connections_, 100000 in the code
  MaxPackets,      \* bound: packets in a run
  MaxRuleChanges   \* bound: rules set or lifted while packets are processed

ASSUME TableAssumption == MaxConnections \in Nat \ {0}
ASSUME BoundsAssumption == MaxPackets \in Nat /\ MaxRuleChanges \in Nat
ASSUME AppAssumption ==
  "" \notin Names /\ AppOf \in [Names \cup {""} -> STRING] /\ AppOf[""] = "UNKNOWN"
ASSUME RulesAssumption ==
  \A r \in Rules : /\ r.type \in {"IP", "PORT", "APP", "DOMAIN"}
                   /\ r.type = "DOMAIN" => r.value \subseteq Names
ASSUME InputsAssumption ==
  /\ Inputs # {}
  /\ \A p \in Inputs : /\ p.tuple \in Flows
                       /\ p.flags \subseteq {"SYN", "ACK", "FIN", "RST"}
                       /\ p.payload.kind \in {"none", "data", "tls", "http", "dns"}
                       /\ p.payload.name \in Names \cup {""}

VARIABLES
  connections,  \* the tracker's table, a function of the tracked flows
  rules,        \* what the RuleManager blocks
  job,          \* the packet being processed, or the last one processed
  check,        \* how many rule tables shouldBlock has still to ask
  action,       \* what was decided for job, "none" until then
  stats,        \* counters of the processor and of the tracker
  changes,      \* rule changes so far
  held,         \* history: rules in force ever since job was taken
  during,       \* history: rules in force at some time while a flow's last packet was checked
  dropped       \* history: flows that had a packet dropped

vars == <<connections, rules, job, check, action, stats, changes, held, during, dropped>>

States   == {"NEW", "ESTABLISHED", "CLASSIFIED", "BLOCKED", "CLOSED"}
AppTypes == {AppOf[n] : n \in Names} \cup {"UNKNOWN", "HTTP", "HTTPS", "DNS"}

ConnectionType ==
  [state : States, app_type : AppTypes, sni : Names \cup {""}, last_seen : 0..MaxPackets,
   syn_seen : BOOLEAN, syn_ack_seen : BOOLEAN, fin_seen : BOOLEAN]

\* shouldBlock's order: check = 4 asks for the IP, check = 1 for the domain.
Tables == <<"DOMAIN", "APP", "PORT", "IP">>

Tracked == DOMAIN connections

TypeOK ==
  /\ Tracked \subseteq Flows
  /\ connections \in [Tracked -> ConnectionType]
  /\ rules \subseteq Rules /\ held \subseteq Rules /\ dropped \subseteq Flows
  /\ during \in [Flows -> SUBSET Rules]
  /\ job \in Inputs
  /\ check \in 0..Len(Tables)
  /\ action \in {"none", "FORWARD", "DROP"}
  /\ stats \in [processed : 0..MaxPackets, forwarded : 0..MaxPackets, dropped : 0..MaxPackets,
                seen : 0..MaxPackets, classified : 0..MaxPackets, blocked : 0..MaxPackets]
  /\ changes \in 0..MaxRuleChanges
  /\ check # 0 => job.tuple \in Tracked    \* the Connection* in use is not dangling

\* Rules given on the command line are set before any packet is processed.
Init ==
  /\ connections = [f \in {} |-> 0]
  /\ rules \in SUBSET Rules
  /\ job = (CHOOSE p \in Inputs : TRUE)    \* none yet
  /\ check = 0 /\ action = "none"
  /\ stats = [processed |-> 0, forwarded |-> 0, dropped |-> 0,
              seen |-> 0, classified |-> 0, blocked |-> 0]
  /\ changes = 0 /\ held = {} /\ during = [f \in Flows |-> {}] /\ dropped = {}
-----------------------------------------------------------------------------
(***************************************************************************)
(* ConnectionTracker                                                        *)
(***************************************************************************)

NewConnection ==
  [state |-> "NEW", app_type |-> "UNKNOWN", sni |-> "", last_seen |-> 0,
   syn_seen |-> FALSE, syn_ack_seen |-> FALSE, fin_seen |-> FALSE]

Oldest == CHOOSE f \in Tracked : \A g \in Tracked : connections[f].last_seen <= connections[g].last_seen

Keep(F) == [f \in F |-> connections[f]]

\* Wrong: the table grows by one more before anything is evicted.
MutMakeRoom(f) ==
  IF f \notin Tracked /\ Cardinality(Tracked) > MaxConnections THEN Tracked \ {Oldest} ELSE Tracked

\* The connections that stay when a packet of flow f comes in (evictOldest).
MakeRoom(f) ==
  IF f \notin Tracked /\ Cardinality(Tracked) >= MaxConnections THEN Tracked \ {Oldest} ELSE Tracked

\* Wrong: a new connection takes over the record of the evicted one.
MutGetOrCreate(f) ==
  IF f \in Tracked THEN connections[f]
  ELSE IF Cardinality(Tracked) >= MaxConnections THEN connections[Oldest] ELSE NewConnection

GetOrCreate(f) == IF f \in Tracked THEN connections[f] ELSE NewConnection

Classify(c, app, name) ==
  IF c.state = "CLASSIFIED" THEN c
  ELSE [c EXCEPT !.app_type = app, !.sni = name, !.state = "CLASSIFIED"]
-----------------------------------------------------------------------------
(***************************************************************************)
(* FastPathProcessor::processPacket                                         *)
(***************************************************************************)

\* SYN and SYN-ACK are noted first; then the state moves, each test on what the
\* ones before it left.
UpdateTCPState(c, flags) ==
  LET noted == [c EXCEPT !.syn_seen     = @ \/ ("SYN" \in flags /\ "ACK" \notin flags),
                         !.syn_ack_seen = @ \/ {"SYN", "ACK"} \subseteq flags,
                         !.fin_seen     = @ \/ "FIN" \in flags]
      open  == noted.syn_seen /\ noted.syn_ack_seen /\ "ACK" \in flags /\ c.state = "NEW"
      close == "RST" \in flags \/ (noted.fin_seen /\ "ACK" \in flags)
  IN [noted EXCEPT !.state = IF close THEN "CLOSED" ELSE IF open THEN "ESTABLISHED" ELSE @]

\* A TLS client hello is found on any port, being longer than 50 bytes; an HTTP
\* Host only to port 80, a DNS query only on port 53.  Otherwise the port decides.
InspectPayload(f, c, payload) ==
  CASE payload.kind = "tls" -> Classify(c, AppOf[payload.name], payload.name)
    [] payload.kind = "http" /\ f.dst_port = 80 -> Classify(c, AppOf[payload.name], payload.name)
    [] payload.kind = "dns" /\ 53 \in {f.dst_port, f.src_port} -> Classify(c, "DNS", payload.name)
    [] OTHER -> IF f.dst_port = 80 THEN Classify(c, "HTTP", "")
                ELSE IF f.dst_port = 443 THEN Classify(c, "HTTPS", "")
                ELSE c

\* The connection of p after updateConnection and updateTCPState; last_seen is
\* the number of the packet.
Updated(p) ==
  LET c == [GetOrCreate(p.tuple) EXCEPT !.last_seen = stats.processed + 1]
  IN IF p.tuple.protocol = 6 THEN UpdateTCPState(c, p.flags) ELSE c

\* Wrong: blocked connections are inspected again.
MutInspects(c, p) == c.state # "CLASSIFIED" /\ p.payload.kind # "none"

Inspects(c, p) == c.state \notin {"BLOCKED", "CLASSIFIED"} /\ p.payload.kind # "none"

Inspected(p) ==
  LET c == Updated(p)
  IN IF Inspects(c, p) THEN InspectPayload(p.tuple, c, p.payload) ELSE c

\* What is decided before the rules are asked.
Settled(c) == IF c.state = "BLOCKED" THEN "DROP" ELSE "none"

Count(condition) == IF condition THEN 1 ELSE 0

\* run() pops a packet and processPacket handles it up to checkRules.
Take(p) ==
  LET f == p.tuple
      c == Inspected(p)
  IN /\ check = 0 /\ stats.processed < MaxPackets
     /\ job' = p
     /\ connections' = [g \in MakeRoom(f) \cup {f} |-> IF g = f THEN c ELSE connections[g]]
     /\ action' = Settled(c)
     /\ check' = IF Settled(c) = "none" THEN Len(Tables) ELSE 0
     /\ stats' = [stats EXCEPT !.processed  = @ + 1,
                               !.seen       = @ + Count(f \notin Tracked),
                               !.classified = @ + Count(c.state = "CLASSIFIED" /\ Updated(p).state # "CLASSIFIED"),
                               !.dropped    = @ + Count(Settled(c) = "DROP")]
     /\ dropped' = IF Settled(c) = "DROP" THEN dropped \cup {f} ELSE dropped
     /\ held' = rules
     /\ during' = IF Settled(c) = "none" THEN [during EXCEPT ![f] = rules] ELSE during
     /\ UNCHANGED <<rules, changes>>

Matches(r, f, c) ==
  CASE r.type = "IP"     -> r.value = f.src_ip
    [] r.type = "PORT"   -> r.value = f.dst_port
    [] r.type = "APP"    -> r.value = c.app_type
    [] r.type = "DOMAIN" -> c.sni \in r.value

\* Wrong: a connection once classified is not checked any more.
MutTableBlocks ==
  /\ connections[job.tuple].state # "CLASSIFIED"
  /\ \E r \in rules : r.type = Tables[check] /\ Matches(r, job.tuple, connections[job.tuple])

\* Whether the table shouldBlock is at blocks the packet.
TableBlocks ==
  \E r \in rules : r.type = Tables[check] /\ Matches(r, job.tuple, connections[job.tuple])

\* Wrong: the packet that gets its connection blocked is not counted.
MutBlock ==
  /\ check # 0 /\ TableBlocks
  /\ connections' = [connections EXCEPT ![job.tuple].state = "BLOCKED"]
  /\ action' = "DROP" /\ check' = 0
  /\ stats' = [stats EXCEPT !.blocked = @ + 1]
  /\ dropped' = dropped \cup {job.tuple}
  /\ UNCHANGED <<rules, job, changes, held, during>>

\* A rule matches: blockConnection, and the packet is dropped.
Block ==
  /\ check # 0 /\ TableBlocks
  /\ connections' = [connections EXCEPT ![job.tuple].state = "BLOCKED"]
  /\ action' = "DROP" /\ check' = 0
  /\ stats' = [stats EXCEPT !.blocked = @ + 1, !.dropped = @ + 1]
  /\ dropped' = dropped \cup {job.tuple}
  /\ UNCHANGED <<rules, job, changes, held, during>>

\* No rule of this table matches: ask the next one; after the last, forward.
Pass ==
  /\ check # 0 /\ ~TableBlocks
  /\ check' = check - 1
  /\ IF check = 1
     THEN /\ action' = "FORWARD" /\ stats' = [stats EXCEPT !.forwarded = @ + 1]
          /\ during' = [during EXCEPT ![job.tuple] = {}]
     ELSE UNCHANGED <<action, stats, during>>
  /\ UNCHANGED <<connections, rules, job, changes, held, dropped>>

\* Wrong: cleaned up by a timer that does not wait for the packet in process.
MutCleanupStale ==
  \E cut \in 0..stats.processed :
    /\ connections' = Keep({f \in Tracked : connections[f].last_seen > cut /\ connections[f].state # "CLOSED"})
    /\ UNCHANGED <<rules, job, check, action, stats, changes, held, during, dropped>>

\* The queue gave nothing for 100 ms: closed connections go, and those not seen for
\* 300 s, which are the ones last seen up to some packet.
CleanupStale ==
  /\ check = 0
  /\ \E cut \in 0..stats.processed :
       connections' = Keep({f \in Tracked : connections[f].last_seen > cut /\ connections[f].state # "CLOSED"})
  /\ UNCHANGED <<rules, job, check, action, stats, changes, held, during, dropped>>
-----------------------------------------------------------------------------
(***************************************************************************)
(* RuleManager, called from other threads.  A rule is a member of the table *)
(* of its type; a domain rule stands for the names its pattern covers.      *)
(***************************************************************************)

BlockRule(r) ==
  /\ changes < MaxRuleChanges /\ r \notin rules
  /\ rules' = rules \cup {r}
  /\ during' = IF check # 0 THEN [during EXCEPT ![job.tuple] = @ \cup {r}] ELSE during
  /\ changes' = changes + 1
  /\ UNCHANGED <<connections, job, check, action, stats, held, dropped>>

UnblockRule(r) ==
  /\ changes < MaxRuleChanges /\ r \in rules
  /\ rules' = rules \ {r} /\ held' = held \ {r}
  /\ changes' = changes + 1
  /\ UNCHANGED <<connections, job, check, action, stats, during, dropped>>

Next == \/ \E p \in Inputs : Take(p)
        \/ Block \/ Pass \/ CleanupStale
        \/ \E r \in Rules : BlockRule(r) \/ UnblockRule(r)

Spec == Init /\ [][Next]_vars
-----------------------------------------------------------------------------
(***************************************************************************)
(* Properties                                                               *)
(***************************************************************************)

\* The flow table never exceeds max_connections_: evictOldest makes room first.
TableBounded == Cardinality(Tracked) <= MaxConnections

\* "Check rules (even for classified connections, as rules might change)"
\* (fast_path.cpp:152) and "Rules are thread-safe for concurrent access"
\* (rule_manager.h:25), although shouldBlock reads four tables one by one: a packet
\* is forwarded only if no rule that was in force all the while matches it.
StandingRuleDrops ==
  action = "FORWARD" /\ job.tuple \in Tracked =>
    \A r \in held : ~Matches(r, job.tuple, connections[job.tuple])

\* No false block: a connection is BLOCKED only if a rule matches what the connection is
\* still known to be that was in force at some moment while the packet that got it
\* blocked was checked; not by a rule lifted before, nor by what another connection was.
BlockedForAReason ==
  \A f \in Tracked : connections[f].state = "BLOCKED" =>
    \E r \in during[f] : Matches(r, f, connections[f])

\* A blocked connection stays blocked, whatever it sends and whatever becomes of the
\* rule, until a closing packet (updateTCPState) or until the table forgets it.
BlockedUntilClosed ==
  [][\A f \in Tracked \cap Tracked' :
       connections[f].state = "BLOCKED" =>
         \/ connections'[f].state = "BLOCKED"
         \/ /\ job'.tuple = f /\ f.protocol = 6
            /\ "RST" \in job'.flags \/ ("ACK" \in job'.flags /\ connections'[f].fin_seen)]_vars

\* Each packet is counted as forwarded or dropped, each connection now blocked was
\* counted, and each count of a blocked connection is a dropped packet.
CountersAgree ==
  /\ stats.processed = stats.forwarded + stats.dropped + Count(check # 0)
  /\ Cardinality({f \in Tracked : connections[f].state = "BLOCKED"}) <= stats.blocked
  /\ stats.blocked <= stats.dropped

\* "Once identified, we block all future packets of that flow" (README.md:871).
BlockedFlowDropped == action = "FORWARD" => job.tuple \notin dropped
=============================================================================
