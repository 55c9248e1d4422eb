-------------------------- MODULE SequentialEngine --------------------------
(***************************************************************************)
(* src/src/main_working.cpp, the engine in one thread: the blocking rules   *)
(* given on the command line, what the loop of main() does to the flow of a *)
(* packet, and the run over a whole capture as a function of the capture.   *)
(* A packet is what the parser and the extractors make of its bytes: hello  *)
(* is the name SNIExtractor finds in the payload, host the one              *)
(* HTTPHostExtractor finds, NoName when it finds none; either may find an   *)
(* empty one (a server name of length 0, "Host: :80").                      *)
(***************************************************************************)
EXTENDS Integers, Sequences

CONSTANTS
  Names,     \* host names
  NoName,    \* what an extractor returns when it finds none
  AppOf,     \* sniToAppType
  PartsOf    \* for a name or "", the domain rules it contains as a substring

ASSUME NamesAssumption == "" \notin Names /\ NoName \notin Names \cup {""}
\* A name nobody knows is HTTPS; only no name is unknown.
ASSUME AppAssumption   == /\ AppOf \in [Names \cup {""} -> STRING]
                          /\ \A n \in Names \cup {""} : AppOf[n] = "Unknown" <=> n = ""
ASSUME PartsAssumption == DOMAIN PartsOf = Names \cup {""}

\* The values of AppType that matter, by their appTypeToString.
AppTypes == {AppOf[n] : n \in Names \cup {""}} \cup {"HTTP", "HTTPS", "DNS"}

\* A port the extractors look at, or one of a client.
Ports == {53, 80, 443, 5000, 5001}

PacketType ==
  [tuple : [src_ip : STRING, src_port : Ports, dst_port : Ports, protocol : {"TCP", "UDP", "other"}],
   payload_length : Nat, hello : Names \cup {"", NoName}, host : Names \cup {"", NoName}]

\* The extractors find nothing in a payload too short to hold what they look
\* for, and no payload starts both as a TLS record and as an HTTP request.
WellFormed(p) ==
  /\ p \in PacketType
  /\ p.hello # NoName => p.payload_length > 5
  /\ p.host # NoName => p.payload_length > 10 /\ p.hello = NoName
-----------------------------------------------------------------------------
(***************************************************************************)
(* BlockingRules                                                            *)
(***************************************************************************)

NoRules == [ips |-> {}, apps |-> {}, domains |-> {}]

BlockIP(rules, ip) == [rules EXCEPT !.ips = @ \cup {ip}]

\* An application nobody knows is reported and blocks nothing.
BlockApp(rules, app) == [rules EXCEPT !.apps = @ \cup ({app} \cap AppTypes)]

BlockDomain(rules, domain) == [rules EXCEPT !.domains = @ \cup {domain}]

IsBlocked(rules, src_ip, app, sni) ==
  src_ip \in rules.ips \/ app \in rules.apps \/ rules.domains \cap PartsOf[sni] # {}

\* The options after the two file names.  One that is the last argument has no
\* value and is ignored, and so is a word that is no option.
RulesOf(args) ==
  LET From[i \in 1..(Len(args) + 2)] ==
        IF i >= Len(args) THEN NoRules
        ELSE CASE args[i] = "--block-ip"     -> BlockIP(From[i + 2], args[i + 1])
               [] args[i] = "--block-app"    -> BlockApp(From[i + 2], args[i + 1])
               [] args[i] = "--block-domain" -> BlockDomain(From[i + 2], args[i + 1])
               [] OTHER                      -> From[i + 1]
  IN From[1]
-----------------------------------------------------------------------------
(***************************************************************************)
(* The loop over the packets                                                *)
(***************************************************************************)

\* A packet that is IP with TCP or UDP; any other is skipped.
HasFlow(p) == p.tuple.protocol # "other"

NewFlow == [app_type |-> "Unknown", sni |-> "", packets |-> 0, blocked |-> FALSE]

WithName(flow, name) == [flow EXCEPT !.sni = name, !.app_type = AppOf[name]]

WithApp(flow, app) == [flow EXCEPT !.app_type = app]

\* A name is looked for as long as the flow has none, even when the port has
\* already made it HTTPS or HTTP.
NamedBy(flow, p) ==
  LET Nameless(app) == flow.app_type \in {"Unknown", app} /\ flow.sni = "" /\ p.tuple.protocol = "TCP"
  IN IF Nameless("HTTPS") /\ p.tuple.dst_port = 443 /\ p.payload_length > 5 /\ p.hello # NoName
     THEN WithName(flow, p.hello)
     ELSE IF Nameless("HTTP") /\ p.tuple.dst_port = 80 /\ p.host # NoName
     THEN WithName(flow, p.host)
     ELSE flow

IsDns(p) == 53 \in {p.tuple.dst_port, p.tuple.src_port}

\* The fallback by the port of the server.
ByServerPort(flow, p) ==
  IF p.tuple.dst_port = 443 THEN WithApp(flow, "HTTPS")
  ELSE IF p.tuple.dst_port = 80 THEN WithApp(flow, "HTTP")
  ELSE flow

\* A flow still unknown is classified by its ports.
ByPort(flow, p) ==
  IF flow.app_type # "Unknown" THEN flow
  ELSE IF IsDns(p) THEN WithApp(flow, "DNS")
  ELSE ByServerPort(flow, p)

\* Once blocked, a flow stays blocked.
SequentialFlow(rules, flow, p) ==
  LET seen == ByPort(NamedBy([flow EXCEPT !.packets = @ + 1], p), p)
  IN [seen EXCEPT !.blocked = @ \/ IsBlocked(rules, p.tuple.src_ip, seen.app_type, seen.sni)]

FlowIn(flows, t) == IF t \in DOMAIN flows THEN flows[t] ELSE NewFlow

WithFlow(flows, t, flow) == [u \in DOMAIN flows \cup {t} |-> IF u = t THEN flow ELSE flows[u]]

\* What a run leaves: the flow table, the counters and the output, here the
\* positions in the capture of the packets written.
NoPackets == [flows |-> [t \in {} |-> NewFlow], total |-> 0, dropped |-> 0, output |-> <<>>]

\* One round of the loop, on the i-th packet of the capture.
OnPacket(rules, run, p, i) ==
  LET flow == SequentialFlow(rules, FlowIn(run.flows, p.tuple), p)
  IN [flows   |-> IF HasFlow(p) THEN WithFlow(run.flows, p.tuple, flow) ELSE run.flows,
      total   |-> run.total + 1,
      dropped |-> IF HasFlow(p) /\ flow.blocked THEN run.dropped + 1 ELSE run.dropped,
      output  |-> IF HasFlow(p) /\ ~flow.blocked THEN Append(run.output, i) ELSE run.output]

\* What the first n packets of a capture leave, for every n.
SequentialRun(rules, capture) ==
  LET After[n \in 0..Len(capture)] ==
        IF n = 0 THEN NoPackets ELSE OnPacket(rules, After[n - 1], capture[n], n)
  IN After
=============================================================================
