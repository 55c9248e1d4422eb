--------------------------- MODULE FastPathProofs ---------------------------
(***************************************************************************)
(* Proofs about FastPath for any flows, names, rules and packets and any    *)
(* size of the connection table: its types, that the table is bounded, that *)
(* a rule in force all the while stops the packet, that a connection is     *)
(* blocked for a reason and stays blocked, and that the counters agree.     *)
(***************************************************************************)
EXTENDS FastPath, FiniteSetTheorems, WellFoundedInduction, TLAPS

(***************************************************************************)
(* A table that is not empty has an oldest connection to evict.             *)
(***************************************************************************)

\* A set of natural numbers has a least member.
LEMMA LeastMember ==
  ASSUME NEW S \in SUBSET Nat, S # {}
  PROVE  \E m \in S : \A n \in S : m <= n
<1> DEFINE R == OpToRel(<, Nat)
<1>1. \A m, n \in Nat : <<n, m>> \in R <=> n < m
  BY DEF OpToRel
<1>2. IsWellFoundedOn(R, Nat)
  BY NatLessThanWellFounded
<1> HIDE DEF R
<1>3. PICK m \in S : \A n \in S : <<n, m>> \notin R
  BY <1>2, WFMin
<1>4. \A n \in S : ~(n < m)
  BY <1>1, <1>3
<1> QED BY <1>4

\* evictOldest finds a connection, and none was last seen before it.
LEMMA OldestTracked ==
  ASSUME TypeOK, Tracked # {}
  PROVE  /\ Oldest \in Tracked
         /\ \A g \in Tracked : connections[Oldest].last_seen <= connections[g].last_seen
<1> DEFINE Seen == {connections[f].last_seen : f \in Tracked}
<1>1. Seen \in SUBSET Nat /\ Seen # {}
  <2>1. \A f \in Tracked : connections[f].last_seen \in 0..MaxPackets
    BY DEF TypeOK, ConnectionType
  <2> QED BY <2>1, BoundsAssumption
<1>2. PICK m \in Seen : \A n \in Seen : m <= n
  BY <1>1, LeastMember
<1>3. \E f \in Tracked : \A g \in Tracked : connections[f].last_seen <= connections[g].last_seen
  BY <1>2
<1> QED BY <1>3 DEF Oldest

(***************************************************************************)
(* What processPacket does to the record of the connection.                 *)
(***************************************************************************)

\* What a connection's sni may be.
SomeName == Names \cup {""}

\* The fields of a connection.
LEMMA Fields ==
  ASSUME NEW c \in ConnectionType
  PROVE  /\ c.state \in States /\ c.app_type \in AppTypes /\ c.sni \in SomeName
         /\ c.last_seen \in 0..MaxPackets
         /\ c.syn_seen \in BOOLEAN /\ c.syn_ack_seen \in BOOLEAN /\ c.fin_seen \in BOOLEAN
         /\ c = [state |-> c.state, app_type |-> c.app_type, sni |-> c.sni,
                 last_seen |-> c.last_seen, syn_seen |-> c.syn_seen,
                 syn_ack_seen |-> c.syn_ack_seen, fin_seen |-> c.fin_seen]
  BY DEF ConnectionType, SomeName

\* The four ways the code writes a connection.
Noted(c, syn, synAck, fin) == [c EXCEPT !.syn_seen = syn, !.syn_ack_seen = synAck, !.fin_seen = fin]
InState(c, s)              == [c EXCEPT !.state = s]
SeenAt(c, n)               == [c EXCEPT !.last_seen = n]
Named(c, app, name)        == [c EXCEPT !.app_type = app, !.sni = name, !.state = "CLASSIFIED"]

\* Writing fields of a connection leaves the others as they were.
LEMMA NotedFields ==
  ASSUME NEW c \in ConnectionType, NEW a \in BOOLEAN, NEW b \in BOOLEAN, NEW e \in BOOLEAN
  PROVE  /\ Noted(c, a, b, e) \in ConnectionType /\ Noted(c, a, b, e).state = c.state
         /\ Noted(c, a, b, e).app_type = c.app_type /\ Noted(c, a, b, e).sni = c.sni
  BY DEF ConnectionType, Noted

\* So does a change of state,
LEMMA InStateFields ==
  ASSUME NEW c \in ConnectionType, NEW s \in States
  PROVE  /\ InState(c, s) \in ConnectionType /\ InState(c, s).state = s
         /\ InState(c, s).app_type = c.app_type /\ InState(c, s).sni = c.sni
         /\ InState(c, s).fin_seen = c.fin_seen /\ InState(c, s).last_seen = c.last_seen
  BY DEF ConnectionType, InState

\* a new time
LEMMA SeenAtFields ==
  ASSUME NEW c \in ConnectionType, NEW n \in 0..MaxPackets
  PROVE  /\ SeenAt(c, n) \in ConnectionType /\ SeenAt(c, n).state = c.state
         /\ SeenAt(c, n).app_type = c.app_type /\ SeenAt(c, n).sni = c.sni
  BY DEF ConnectionType, SeenAt

\* and a name.
LEMMA NamedFields ==
  ASSUME NEW c \in ConnectionType, NEW app \in AppTypes, NEW name \in SomeName
  PROVE  /\ Named(c, app, name) \in ConnectionType /\ Named(c, app, name).state = "CLASSIFIED"
         /\ Named(c, app, name).fin_seen = c.fin_seen
  BY DEF ConnectionType, States, Named, SomeName

\* updateTCPState changes no name, and moves a blocked connection only by closing it.
LEMMA UpdateTCPStateKeeps ==
  ASSUME NEW c \in ConnectionType, NEW flags
  PROVE  LET d == UpdateTCPState(c, flags)
         IN  /\ d \in ConnectionType /\ d.app_type = c.app_type /\ d.sni = c.sni
             /\ \/ d.state = c.state
                \/ d.state = "ESTABLISHED" /\ c.state = "NEW"
                \/ /\ d.state = "CLOSED"
                   /\ "RST" \in flags \/ ("ACK" \in flags /\ d.fin_seen)
<1> DEFINE syn    == c.syn_seen \/ ("SYN" \in flags /\ "ACK" \notin flags)
           synAck == c.syn_ack_seen \/ {"SYN", "ACK"} \subseteq flags
           fin    == c.fin_seen \/ "FIN" \in flags
           noted  == Noted(c, syn, synAck, fin)
           open   == noted.syn_seen /\ noted.syn_ack_seen /\ "ACK" \in flags /\ c.state = "NEW"
           close  == "RST" \in flags \/ (noted.fin_seen /\ "ACK" \in flags)
           state  == IF close THEN "CLOSED" ELSE IF open THEN "ESTABLISHED" ELSE noted.state
           d      == InState(noted, state)
<1>1. syn \in BOOLEAN /\ synAck \in BOOLEAN /\ fin \in BOOLEAN
  OBVIOUS
<1> HIDE DEF syn, synAck, fin
<1>2. /\ noted \in ConnectionType /\ noted.state = c.state /\ noted.app_type = c.app_type
      /\ noted.sni = c.sni
  BY <1>1, NotedFields
<1> HIDE DEF noted
<1>3. state \in States
  BY <1>2, Fields DEF States
<1>4. \/ state = c.state
      \/ state = "ESTABLISHED" /\ c.state = "NEW"
      \/ state = "CLOSED" /\ ("RST" \in flags \/ ("ACK" \in flags /\ noted.fin_seen))
  BY <1>2
<1> HIDE DEF state
<1>5. /\ d \in ConnectionType /\ d.state = state /\ d.app_type = noted.app_type
      /\ d.sni = noted.sni /\ d.fin_seen = noted.fin_seen
  BY <1>2, <1>3, InStateFields
<1> HIDE DEF d
<1>6. UpdateTCPState(c, flags) = d
  BY DEF UpdateTCPState, d, state, noted, syn, synAck, fin, Noted, InState
<1> QED BY <1>2, <1>4, <1>5, <1>6

\* classifyConnection: the record gets its name and type, once.
LEMMA ClassifyKeeps ==
  ASSUME NEW c \in ConnectionType, NEW app \in AppTypes, NEW name \in SomeName
  PROVE  LET d == Classify(c, app, name)
         IN  d \in ConnectionType /\ d.state = "CLASSIFIED" /\ d.fin_seen = c.fin_seen
<1>1. CASE c.state = "CLASSIFIED"
  BY <1>1 DEF Classify
<1>2. CASE c.state # "CLASSIFIED"
  <2>1. Classify(c, app, name) = Named(c, app, name)
    BY <1>2 DEF Classify, Named
  <2> QED BY <2>1, NamedFields
<1> QED BY <1>1, <1>2

\* Every name an extractor finds has an application type.
LEMMA Payloads ==
  ASSUME NEW p \in Inputs
  PROVE  /\ p.tuple \in Flows /\ p.payload.name \in SomeName
         /\ AppOf[p.payload.name] \in AppTypes /\ "" \in SomeName
         /\ "DNS" \in AppTypes /\ "HTTP" \in AppTypes /\ "HTTPS" \in AppTypes
  BY InputsAssumption, AppAssumption DEF AppTypes, SomeName

\* inspectPayload classifies the connection or leaves it alone.
LEMMA InspectPayloadKeeps ==
  ASSUME NEW p \in Inputs, NEW c \in ConnectionType
  PROVE  LET d == InspectPayload(p.tuple, c, p.payload)
         IN  d \in ConnectionType /\ d.fin_seen = c.fin_seen /\ d.state \in {c.state, "CLASSIFIED"}
<1> DEFINE d == InspectPayload(p.tuple, c, p.payload)
<1>1. \/ d = Classify(c, AppOf[p.payload.name], p.payload.name)
      \/ d = Classify(c, "DNS", p.payload.name)
      \/ d = Classify(c, "HTTP", "") \/ d = Classify(c, "HTTPS", "") \/ d = c
  BY DEF InspectPayload
<1> HIDE DEF d
<1>2. \A app \in AppTypes, name \in SomeName :
        /\ Classify(c, app, name) \in ConnectionType /\ Classify(c, app, name).state = "CLASSIFIED"
        /\ Classify(c, app, name).fin_seen = c.fin_seen
  BY ClassifyKeeps
<1>3. d = c \/ \E app \in AppTypes, name \in SomeName : d = Classify(c, app, name)
  <2>1. /\ AppOf[p.payload.name] \in AppTypes /\ p.payload.name \in SomeName
        /\ "DNS" \in AppTypes /\ "HTTP" \in AppTypes /\ "HTTPS" \in AppTypes /\ "" \in SomeName
    BY Payloads
  <2> QED BY <1>1, <2>1, Zenon
<1> QED BY <1>2, <1>3 DEF d

\* The record a packet leaves: of the right type, blocked only if it was blocked
\* before, and no longer blocked only if the packet closes the connection.
LEMMA InspectedKeeps ==
  ASSUME TypeOK, stats.processed < MaxPackets, NEW p \in Inputs
  PROVE  /\ Inspected(p) \in ConnectionType
         /\ Inspected(p).state = "BLOCKED" =>
              /\ p.tuple \in Tracked /\ connections[p.tuple].state = "BLOCKED"
              /\ Inspected(p).app_type = connections[p.tuple].app_type
              /\ Inspected(p).sni = connections[p.tuple].sni
         /\ p.tuple \in Tracked /\ connections[p.tuple].state = "BLOCKED" =>
              \/ Inspected(p).state = "BLOCKED"
              \/ /\ p.tuple.protocol = 6
                 /\ "RST" \in p.flags \/ ("ACK" \in p.flags /\ Inspected(p).fin_seen)
<1> DEFINE f == p.tuple
           g == GetOrCreate(f)
           n == stats.processed + 1
           b == SeenAt(g, n)
           u == Updated(p)
           d == InspectPayload(f, u, p.payload)
           c == Inspected(p)
<1>1. n \in 0..MaxPackets /\ 0 \in 0..MaxPackets
  BY BoundsAssumption DEF TypeOK
<1>2. NewConnection \in ConnectionType /\ NewConnection.state = "NEW"
  BY <1>1 DEF NewConnection, ConnectionType, States, AppTypes
<1>3. g \in ConnectionType /\ (f \notin Tracked => g.state = "NEW")
                           /\ (f \in Tracked => g = connections[f])
  BY <1>2 DEF GetOrCreate, TypeOK
<1> HIDE DEF g, n
<1>4. b \in ConnectionType /\ b.state = g.state /\ b.app_type = g.app_type /\ b.sni = g.sni
  BY <1>1, <1>3, SeenAtFields
<1>5. u = IF f.protocol = 6 THEN UpdateTCPState(b, p.flags) ELSE b
  BY DEF Updated, SeenAt, g, n
<1> HIDE DEF b, u
<1>6. /\ u \in ConnectionType /\ u.app_type = g.app_type /\ u.sni = g.sni
      /\ \/ u.state = g.state
         \/ u.state = "ESTABLISHED" /\ g.state = "NEW"
         \/ /\ u.state = "CLOSED" /\ f.protocol = 6
            /\ "RST" \in p.flags \/ ("ACK" \in p.flags /\ u.fin_seen)
  <2>1. CASE f.protocol = 6
    BY <1>4, <1>5, <2>1, UpdateTCPStateKeeps
  <2>2. CASE f.protocol # 6
    BY <1>4, <1>5, <2>2
  <2> QED BY <2>1, <2>2
<1>7. d \in ConnectionType /\ d.fin_seen = u.fin_seen /\ d.state \in {u.state, "CLASSIFIED"}
  BY <1>6, InspectPayloadKeeps
<1>8. c = IF Inspects(u, p) THEN d ELSE u
  BY DEF Inspected, u
<1> HIDE DEF c, d
<1>9. c = u \/ (c = d /\ u.state # "BLOCKED")
  BY <1>8 DEF Inspects
<1>10. CASE c = u
  BY <1>3, <1>6, <1>10 DEF c
<1>11. CASE c = d /\ u.state # "BLOCKED"
  BY <1>3, <1>6, <1>7, <1>11 DEF c
<1> QED BY <1>9, <1>10, <1>11

(***************************************************************************)
(* The inductive invariant.  The table is finite; what is counted adds up;  *)
(* a rule held since the packet was taken is still in force, and if its     *)
(* table was asked already it did not match; the rules in force while a     *)
(* packet is checked are among those noted for its flow, which is not       *)
(* blocked yet; whoever is blocked was blocked by a rule noted for it.      *)
(***************************************************************************)

TableInv == IsFiniteSet(Tracked) /\ TableBounded

CountInv == /\ CountersAgree
            /\ stats.seen <= stats.processed /\ stats.classified <= stats.processed

\* No rule held whose table comes before the one that is asked next matches.
RuleInv ==
  /\ held \subseteq rules
  /\ check # 0 => rules \subseteq during[job.tuple] /\ connections[job.tuple].state # "BLOCKED"
  /\ action = "FORWARD" => check = 0
  /\ check # 0 => \A r \in held : \A i \in (check + 1)..Len(Tables) :
                    r.type = Tables[i] => ~Matches(r, job.tuple, connections[job.tuple])
  /\ StandingRuleDrops

IInv == TypeOK /\ TableInv /\ CountInv /\ RuleInv /\ BlockedForAReason

Blocked == {f \in Tracked : connections[f].state = "BLOCKED"}

\* What taking a packet does to the table.
LEMMA TakenTable ==
  ASSUME TypeOK, TableInv, NEW p \in Inputs, Take(p)
  PROVE  /\ IsFiniteSet(Tracked') /\ TableBounded' /\ p.tuple \in Tracked' /\ Tracked' \subseteq Flows
         /\ connections' = [g \in Tracked' |-> IF g = p.tuple THEN Inspected(p) ELSE connections[g]]
         /\ \A g \in Tracked' : g # p.tuple => g \in Tracked
<1> DEFINE f == p.tuple
           K == MakeRoom(f)
<1>1. connections' = [g \in K \cup {f} |-> IF g = f THEN Inspected(p) ELSE connections[g]]
  BY DEF Take
<1>2. Tracked' = K \cup {f}
  BY <1>1 DEF Tracked
<1>3. K \subseteq Tracked /\ f \in Flows /\ IsFiniteSet(Tracked) /\ Cardinality(Tracked) <= MaxConnections
  BY InputsAssumption DEF MakeRoom, TableInv, TableBounded
<1>4. Cardinality(Tracked) \in Nat /\ MaxConnections \in Nat /\ MaxConnections # 0
  BY <1>3, FS_CardinalityType, TableAssumption
<1>5. IsFiniteSet(K \cup {f}) /\ Cardinality(K \cup {f}) <= MaxConnections
  <2>1. CASE f \in Tracked
    <3>1. K = Tracked /\ K \cup {f} = Tracked
      BY <2>1 DEF MakeRoom
    <3> QED BY <1>3, <3>1
  <2>2. CASE f \notin Tracked /\ Cardinality(Tracked) < MaxConnections
    <3>1. K = Tracked
      BY <1>4, <2>2 DEF MakeRoom
    <3>2. IsFiniteSet(Tracked \cup {f}) /\ Cardinality(Tracked \cup {f}) = Cardinality(Tracked) + 1
      BY <1>3, <2>2, FS_AddElement
    <3> QED BY <1>4, <2>2, <3>1, <3>2
  <2>3. CASE f \notin Tracked /\ Cardinality(Tracked) >= MaxConnections
    <3>1. K = Tracked \ {Oldest}
      BY <2>3 DEF MakeRoom
    <3>2. Tracked # {}
      BY <1>4, <2>3, FS_EmptySet
    <3>3. Oldest \in Tracked
      BY <3>2, OldestTracked
    <3>4. IsFiniteSet(K) /\ Cardinality(K) = Cardinality(Tracked) - 1 /\ f \notin K
      BY <1>3, <2>3, <3>1, <3>3, FS_RemoveElement
    <3>5. IsFiniteSet(K \cup {f}) /\ Cardinality(K \cup {f}) = Cardinality(K) + 1
      BY <3>4, FS_AddElement
    <3> QED BY <1>3, <1>4, <3>4, <3>5
  <2> QED BY <1>4, <2>1, <2>2, <2>3
<1> QED BY <1>1, <1>2, <1>3, <1>5 DEF TypeOK, TableBounded

\* What the other steps do to the table: one connection becomes blocked, some go,
\* or nothing happens to it.
LEMMA OtherTable ==
  ASSUME TypeOK, TableInv, Block \/ Pass \/ CleanupStale \/ (\E r \in Rules : BlockRule(r) \/ UnblockRule(r))
  PROVE  /\ Tracked' \subseteq Tracked /\ IsFiniteSet(Tracked') /\ TableBounded'
         /\ \A g \in Tracked' : \/ connections'[g] = connections[g]
                                \/ Block /\ g = job.tuple /\ connections'[g] = InState(connections[g], "BLOCKED")
         /\ connections' = [g \in Tracked' |-> connections'[g]]
         /\ ~CleanupStale => Tracked' = Tracked
<1>1. connections = [g \in Tracked |-> connections[g]]
  BY DEF TypeOK
<1>2. CASE Block
  BY <1>1, <1>2 DEF Block, Tracked, InState, TableInv, TableBounded, TypeOK
<1>3. CASE CleanupStale
  <2>1. PICK F \in SUBSET Tracked : connections' = Keep(F)
    BY <1>3 DEF CleanupStale
  <2>2. Tracked' = F
    BY <2>1 DEF Tracked, Keep
  <2>3. IsFiniteSet(Tracked) /\ Cardinality(Tracked) <= MaxConnections
    BY DEF TableInv, TableBounded
  <2>4. IsFiniteSet(F) /\ Cardinality(F) <= Cardinality(Tracked)
    BY <2>3, FS_Subset
  <2>5. Cardinality(F) \in Nat /\ Cardinality(Tracked) \in Nat /\ MaxConnections \in Nat
    BY <2>3, <2>4, FS_CardinalityType, TableAssumption
  <2>6. TableBounded'
    BY <2>2, <2>3, <2>4, <2>5 DEF TableBounded
  <2> QED BY <1>3, <2>1, <2>2, <2>4, <2>6 DEF Keep
<1>4. CASE connections' = connections
  BY <1>1, <1>4 DEF Tracked, TableInv, TableBounded
<1> QED BY <1>2, <1>3, <1>4 DEF Pass, BlockRule, UnblockRule

-----------------------------------------------------------------------------
(***************************************************************************)
(* The counters.                                                            *)
(***************************************************************************)

CounterType ==
  [processed : 0..MaxPackets, forwarded : 0..MaxPackets, dropped : 0..MaxPackets,
   seen : 0..MaxPackets, classified : 0..MaxPackets, blocked : 0..MaxPackets]

\* The three ways the code counts: a packet taken, blocked, forwarded.
Recounted(s, p, n, c, d)  == [s EXCEPT !.processed = p, !.seen = n, !.classified = c, !.dropped = d]
BlockCounted(s, b, d)     == [s EXCEPT !.blocked = b, !.dropped = d]
ForwardCounted(s, f)      == [s EXCEPT !.forwarded = f]

\* What the counters hold afterwards.
LEMMA RecountedFields ==
  ASSUME NEW s \in CounterType, NEW p \in 0..MaxPackets, NEW n \in 0..MaxPackets,
         NEW c \in 0..MaxPackets, NEW d \in 0..MaxPackets,
         stats' = Recounted(s, p, n, c, d)
  PROVE  /\ stats' \in CounterType /\ stats'.processed = p /\ stats'.forwarded = s.forwarded
         /\ stats'.dropped = d /\ stats'.seen = n /\ stats'.classified = c
         /\ stats'.blocked = s.blocked
  BY DEF CounterType, Recounted

\* The same for a blocked connection,
LEMMA BlockCountedFields ==
  ASSUME NEW s \in CounterType, NEW b \in 0..MaxPackets, NEW d \in 0..MaxPackets
  PROVE  LET t == BlockCounted(s, b, d)
         IN  /\ t \in CounterType /\ t.processed = s.processed /\ t.forwarded = s.forwarded
             /\ t.dropped = d /\ t.seen = s.seen /\ t.classified = s.classified /\ t.blocked = b
  BY DEF CounterType, BlockCounted

\* and for a packet forwarded.
LEMMA ForwardCountedFields ==
  ASSUME NEW s \in CounterType, NEW f \in 0..MaxPackets
  PROVE  LET t == ForwardCounted(s, f)
         IN  /\ t \in CounterType /\ t.processed = s.processed /\ t.forwarded = f
             /\ t.dropped = s.dropped /\ t.seen = s.seen /\ t.classified = s.classified
             /\ t.blocked = s.blocked
  BY DEF CounterType, ForwardCounted

\* They are natural numbers.
LEMMA CountersNatural ==
  ASSUME NEW s \in CounterType
  PROVE  /\ s.processed \in Nat /\ s.forwarded \in Nat /\ s.dropped \in Nat
         /\ s.seen \in Nat /\ s.classified \in Nat /\ s.blocked \in Nat
         /\ s.processed <= MaxPackets
<1>1. /\ s.processed \in 0..MaxPackets /\ s.forwarded \in 0..MaxPackets
      /\ s.dropped \in 0..MaxPackets /\ s.seen \in 0..MaxPackets
      /\ s.classified \in 0..MaxPackets /\ s.blocked \in 0..MaxPackets
  BY DEF CounterType
<1> QED BY <1>1, BoundsAssumption

\* The blocked connections are counted, each when it was blocked.
LEMMA BlockedFinite ==
  ASSUME TableInv
  PROVE  IsFiniteSet(Blocked) /\ Cardinality(Blocked) \in Nat
<1>1. Blocked \in SUBSET Tracked /\ IsFiniteSet(Tracked)
  BY DEF Blocked, TableInv
<1> QED BY <1>1, FS_Subset, FS_CardinalityType

\* Every packet is counted once and every blocked connection was counted.
LEMMA CountStep ==
  ASSUME TypeOK, TableInv, CountInv, Next
  PROVE  CountInv' /\ stats' \in CounterType
<1>1. stats \in CounterType
  BY DEF TypeOK, CounterType
<1>2. /\ stats.processed \in Nat /\ stats.forwarded \in Nat /\ stats.dropped \in Nat
      /\ stats.seen \in Nat /\ stats.classified \in Nat /\ stats.blocked \in Nat
      /\ stats.processed <= MaxPackets
  BY <1>1, CountersNatural
<1>3. IsFiniteSet(Blocked) /\ Cardinality(Blocked) \in Nat /\ Cardinality(Blocked) <= stats.blocked
  BY BlockedFinite DEF CountInv, CountersAgree, Blocked
<1>4. \A P \in BOOLEAN : Count(P) = IF P THEN 1 ELSE 0
  BY DEF Count
<1>5. ASSUME NEW p \in Inputs, Take(p)
      PROVE  CountInv' /\ stats' \in CounterType
  <2> DEFINE f == p.tuple
             c == Inspected(p)
             a == Count(f \notin Tracked)
             b == Count(c.state = "CLASSIFIED" /\ Updated(p).state # "CLASSIFIED")
             e == Count(Settled(c) = "DROP")
  <2>1. /\ a \in {0, 1} /\ b \in {0, 1} /\ e \in {0, 1}
        /\ stats' = Recounted(stats, stats.processed + 1, stats.seen + a, stats.classified + b,
                              stats.dropped + e)
    BY <1>5 DEF Take, Recounted, Count
  <2>2. check = 0 /\ stats.processed < MaxPackets /\ Count(check' # 0) + e = 1
    BY <1>5 DEF Take, Settled, Count, Tables
  <2> HIDE DEF a, b, e
  <2>4. Count(check' # 0) \in {0, 1} /\ Count(check # 0) = 0
    BY <2>2 DEF Count
  <2>5. Blocked' \subseteq Blocked
    <3>1. /\ connections' = [g \in Tracked' |-> IF g = f THEN c ELSE connections[g]]
          /\ \A g \in Tracked' : g # f => g \in Tracked
      BY <1>5, TakenTable
    <3>2. c.state = "BLOCKED" => f \in Tracked /\ connections[f].state = "BLOCKED"
      BY <2>2, InspectedKeeps
    <3> QED BY <3>1, <3>2 DEF Blocked
  <2>6. Cardinality(Blocked') <= stats.blocked /\ Cardinality(Blocked') \in Nat
    <3>1. IsFiniteSet(Blocked') /\ Cardinality(Blocked') <= Cardinality(Blocked)
      BY <1>3, <2>5, FS_Subset
    <3>2. Cardinality(Blocked') \in Nat
      BY <3>1, FS_CardinalityType
    <3> QED BY <1>2, <1>3, <3>1, <3>2
  <2>7. /\ stats.processed + 1 = stats.forwarded + (stats.dropped + e) + Count(check' # 0)
        /\ stats.seen + a <= stats.processed + 1 /\ stats.classified + b <= stats.processed + 1
        /\ stats.blocked <= stats.dropped + e
    BY <1>2, <2>1, <2>2, <2>4 DEF CountInv, CountersAgree
  <2>8. /\ stats.processed + 1 \in 0..MaxPackets /\ stats.seen + a \in 0..MaxPackets
        /\ stats.classified + b \in 0..MaxPackets /\ stats.dropped + e \in 0..MaxPackets
    BY <1>2, <2>1, <2>2, <2>4, <2>7, BoundsAssumption
  <2>9. /\ stats' \in CounterType /\ stats'.processed = stats.processed + 1
        /\ stats'.forwarded = stats.forwarded /\ stats'.dropped = stats.dropped + e
        /\ stats'.seen = stats.seen + a /\ stats'.classified = stats.classified + b
        /\ stats'.blocked = stats.blocked
    <3> DEFINE P == stats.processed + 1
               N == stats.seen + a
               C == stats.classified + b
               D == stats.dropped + e
    <3>1. P \in 0..MaxPackets /\ N \in 0..MaxPackets /\ C \in 0..MaxPackets /\ D \in 0..MaxPackets
      BY <2>8
    <3>2. stats' = Recounted(stats, P, N, C, D)
      BY <2>1
    <3> HIDE DEF P, N, C, D
    <3>3. /\ stats' \in CounterType /\ stats'.processed = P /\ stats'.forwarded = stats.forwarded
          /\ stats'.dropped = D /\ stats'.seen = N /\ stats'.classified = C
          /\ stats'.blocked = stats.blocked
      BY <1>1, <3>1, <3>2, RecountedFields, Zenon
    <3> QED BY <3>3 DEF P, N, C, D
  <2> QED BY <2>6, <2>7, <2>9 DEF CountInv, CountersAgree, Blocked
<1>6. CASE Block
  <2>1. stats' = BlockCounted(stats, stats.blocked + 1, stats.dropped + 1)
    BY <1>6 DEF Block, BlockCounted
  <2>2. Count(check # 0) = 1 /\ Count(check' # 0) = 0
    BY <1>6 DEF Block, Count
  <2>3. Blocked' \subseteq Blocked \cup {job.tuple}
    BY <1>6, OtherTable DEF Blocked
  <2>4. Cardinality(Blocked') <= stats.blocked + 1
    <3>1. /\ IsFiniteSet(Blocked \cup {job.tuple})
          /\ Cardinality(Blocked \cup {job.tuple}) \in {Cardinality(Blocked), Cardinality(Blocked) + 1}
      BY <1>3, FS_AddElement
    <3>2. IsFiniteSet(Blocked') /\ Cardinality(Blocked') <= Cardinality(Blocked \cup {job.tuple})
      BY <2>3, <3>1, FS_Subset
    <3>3. Cardinality(Blocked') \in Nat
      BY <3>2, FS_CardinalityType
    <3> QED BY <1>2, <1>3, <3>1, <3>2, <3>3
  <2>5. /\ stats.processed = stats.forwarded + (stats.dropped + 1) + 0
        /\ stats.seen <= stats.processed /\ stats.classified <= stats.processed
        /\ stats.blocked + 1 <= stats.dropped + 1
    BY <1>2, <2>2 DEF CountInv, CountersAgree
  <2>6. stats.blocked + 1 \in 0..MaxPackets /\ stats.dropped + 1 \in 0..MaxPackets
    BY <1>2, <2>5, BoundsAssumption
  <2>7. /\ stats' \in CounterType /\ stats'.processed = stats.processed
        /\ stats'.forwarded = stats.forwarded /\ stats'.dropped = stats.dropped + 1
        /\ stats'.seen = stats.seen /\ stats'.classified = stats.classified
        /\ stats'.blocked = stats.blocked + 1
    BY <1>1, <2>1, <2>6, BlockCountedFields
  <2> QED BY <2>2, <2>4, <2>5, <2>7 DEF CountInv, CountersAgree, Blocked
<1>7. ASSUME Blocked' \subseteq Blocked, UNCHANGED stats, Count(check' # 0) = Count(check # 0)
      PROVE  CountInv' /\ stats' \in CounterType
  <2>1. IsFiniteSet(Blocked') /\ Cardinality(Blocked') <= Cardinality(Blocked)
    BY <1>3, <1>7, FS_Subset
  <2>2. Cardinality(Blocked') \in Nat
    BY <2>1, FS_CardinalityType
  <2>3. Cardinality(Blocked') <= stats'.blocked
    BY <1>2, <1>3, <1>7, <2>1, <2>2
  <2> QED BY <1>1, <1>7, <2>3 DEF CountInv, CountersAgree, Blocked
<1>8. CASE Pass
  <2>1. Blocked' = Blocked /\ check \in 1..4 /\ check' = check - 1
    BY <1>8 DEF Pass, Blocked, Tracked, TypeOK, Tables
  <2>2. CASE check = 1
    <3>1. stats' = ForwardCounted(stats, stats.forwarded + 1)
      BY <1>8, <2>2 DEF Pass, ForwardCounted
    <3>2. Count(check # 0) = 1 /\ Count(check' # 0) = 0
      BY <2>1, <2>2 DEF Count
    <3>3. /\ stats.processed = (stats.forwarded + 1) + stats.dropped + 0
          /\ stats.seen <= stats.processed /\ stats.classified <= stats.processed
          /\ stats.blocked <= stats.dropped
      BY <1>2, <3>2 DEF CountInv, CountersAgree
    <3>4. stats.forwarded + 1 \in 0..MaxPackets
      BY <1>2, <3>3, BoundsAssumption
    <3>5. /\ stats' \in CounterType /\ stats'.processed = stats.processed
          /\ stats'.forwarded = stats.forwarded + 1 /\ stats'.dropped = stats.dropped
          /\ stats'.seen = stats.seen /\ stats'.classified = stats.classified
          /\ stats'.blocked = stats.blocked
      BY <1>1, <3>1, <3>4, ForwardCountedFields
    <3> QED BY <1>3, <2>1, <3>2, <3>3, <3>5 DEF CountInv, CountersAgree, Blocked
  <2>3. CASE check # 1
    <3>1. UNCHANGED stats /\ check' # 0 /\ check # 0
      BY <1>8, <2>1, <2>3 DEF Pass
    <3> QED BY <1>7, <2>1, <3>1 DEF Count
  <2> QED BY <2>2, <2>3
<1>9. CASE CleanupStale
  <2>1. Blocked' \subseteq Blocked /\ UNCHANGED <<stats, check>>
    BY <1>9, OtherTable DEF Blocked, CleanupStale, Block
  <2> QED BY <1>7, <2>1
<1>10. ASSUME NEW r \in Rules, BlockRule(r) \/ UnblockRule(r)
       PROVE  CountInv' /\ stats' \in CounterType
  <2>1. Blocked' = Blocked /\ UNCHANGED <<stats, check>>
    BY <1>10 DEF BlockRule, UnblockRule, Blocked, Tracked
  <2> QED BY <1>7, <2>1
<1> QED BY <1>5, <1>6, <1>8, <1>9, <1>10 DEF Next

-----------------------------------------------------------------------------
(***************************************************************************)
(* Types, rules and reasons.                                                *)
(***************************************************************************)

\* The table holds connections, whatever the step.
LEMMA TableStep ==
  ASSUME TypeOK, TableInv, Next
  PROVE  /\ TableInv' /\ Tracked' \subseteq Flows /\ connections' \in [Tracked' -> ConnectionType]
<1>1. \A g \in Tracked : connections[g] \in ConnectionType
  BY DEF TypeOK
<1>2. ASSUME NEW p \in Inputs, Take(p)
      PROVE  /\ TableInv' /\ Tracked' \subseteq Flows /\ connections' \in [Tracked' -> ConnectionType]
  <2>1. Inspected(p) \in ConnectionType
    BY <1>2, InspectedKeeps DEF Take
  <2> QED BY <1>1, <1>2, <2>1, TakenTable DEF TableInv
<1>3. ASSUME Block \/ Pass \/ CleanupStale \/ (\E r \in Rules : BlockRule(r) \/ UnblockRule(r))
      PROVE  /\ TableInv' /\ Tracked' \subseteq Flows /\ connections' \in [Tracked' -> ConnectionType]
  <2>1. \A g \in Tracked : InState(connections[g], "BLOCKED") \in ConnectionType
    BY <1>1, InStateFields DEF States
  <2>2. /\ Tracked' \subseteq Tracked /\ TableInv'
        /\ \A g \in Tracked' : connections'[g] \in ConnectionType
        /\ connections' = [g \in Tracked' |-> connections'[g]]
    BY <1>1, <1>3, <2>1, OtherTable DEF TableInv
  <2> QED BY <2>2 DEF TypeOK
<1> QED BY <1>2, <1>3 DEF Next

\* The types, of everything.
LEMMA TypeStep ==
  ASSUME TypeOK, TableInv, CountInv, Next
  PROVE  TypeOK'
<1>1. /\ Tracked' \subseteq Flows /\ connections' \in [Tracked' -> ConnectionType]
      /\ stats' \in CounterType
  BY TableStep, CountStep
<1>2. ASSUME NEW p \in Inputs, Take(p)
      PROVE  TypeOK'
  <2>1. p.tuple \in Tracked' /\ p.tuple \in Flows
    BY <1>2, TakenTable, InputsAssumption
  <2>2. during' \in [Flows -> SUBSET Rules]
    BY <1>2 DEF Take, TypeOK
  <2> QED BY <1>1, <1>2, <2>1, <2>2 DEF TypeOK, CounterType, Take, Settled, Tables
<1>3. CASE Block
  BY <1>1, <1>3 DEF TypeOK, CounterType, Block
<1>4. CASE Pass
  <2>1. check \in 1..4 /\ check' = check - 1 /\ check' \in 0..4 /\ Tracked' = Tracked
    BY <1>4, OtherTable DEF TypeOK, Pass, Tables
  <2>2. during' \in [Flows -> SUBSET Rules]
    BY <1>4 DEF Pass, TypeOK
  <2> QED BY <1>1, <1>4, <2>1, <2>2 DEF TypeOK, CounterType, Pass, Tables
<1>5. CASE CleanupStale
  BY <1>1, <1>5 DEF TypeOK, CounterType, CleanupStale
<1>6. ASSUME NEW r \in Rules, BlockRule(r) \/ UnblockRule(r)
      PROVE  TypeOK'
  <2>1. changes' \in 0..MaxRuleChanges
    BY <1>6, BoundsAssumption DEF TypeOK, BlockRule, UnblockRule
  <2>2. Tracked' = Tracked
    BY <1>6, OtherTable DEF CleanupStale, BlockRule, UnblockRule, Tracked
  <2>3. during' \in [Flows -> SUBSET Rules]
    BY <1>6 DEF BlockRule, UnblockRule, TypeOK
  <2> QED BY <1>1, <1>6, <2>1, <2>2, <2>3 DEF TypeOK, CounterType, BlockRule, UnblockRule
<1> QED BY <1>2, <1>3, <1>4, <1>5, <1>6 DEF Next

\* A rule sees of a connection only its application and its name.
LEMMA MatchesByName ==
  ASSUME NEW r, NEW f, NEW c, NEW d, c.app_type = d.app_type, c.sni = d.sni
  PROVE  Matches(r, f, c) <=> Matches(r, f, d)
  BY DEF Matches

\* Every rule is in one of the tables that shouldBlock asks.
LEMMA RuleInTable == \A r \in Rules : \E i \in 1..Len(Tables) : r.type = Tables[i]
<1>1. Len(Tables) = 4 /\ Tables[1] = "DOMAIN" /\ Tables[2] = "APP" /\ Tables[3] = "PORT" /\ Tables[4] = "IP"
  BY DEF Tables
<1>2. ASSUME NEW r \in Rules PROVE \E i \in 1..4 : r.type = Tables[i]
  <2>1. r.type \in {"IP", "PORT", "APP", "DOMAIN"}
    BY RulesAssumption
  <2>2. 1 \in 1..4 /\ 2 \in 1..4 /\ 3 \in 1..4 /\ 4 \in 1..4
    OBVIOUS
  <2>3. \/ r.type = Tables[1] \/ r.type = Tables[2] \/ r.type = Tables[3] \/ r.type = Tables[4]
    BY <1>1, <2>1, Zenon
  <2> QED BY <2>2, <2>3, Zenon
<1> QED BY <1>1, <1>2

\* What was asked of the rules in force all the while stays answered.
LEMMA RuleStep ==
  ASSUME TypeOK, TableInv, RuleInv, Next
  PROVE  RuleInv'
<1>0. Len(Tables) = 4
  BY DEF Tables
<1>1. ASSUME NEW p \in Inputs, Take(p)
      PROVE  RuleInv'
  <2>0. check' = 0 \/ check' + 1 = 5
    <3>1. check' = 0 \/ check' = 4
      BY <1>0, <1>1 DEF Take
    <3> QED BY <3>1
  <2>1. action' # "FORWARD" /\ held' = rules /\ rules' = rules
    BY <1>1 DEF Take, Settled
  <2>2. check' = 0 \/ (check' + 1)..4 = {}
    <3>1. 5..4 = {}
      OBVIOUS
    <3> QED BY <2>0, <3>1, Zenon
  <2>3. held' \subseteq rules'
    BY <2>1
  <2>4. check' # 0 => rules' \subseteq during'[job'.tuple] /\ connections'[job'.tuple].state # "BLOCKED"
    <3>1. SUFFICES ASSUME check' # 0
                   PROVE  rules' \subseteq during'[job'.tuple] /\ connections'[job'.tuple].state # "BLOCKED"
      OBVIOUS
    <3>2. job' = p /\ p.tuple \in Flows /\ connections'[p.tuple] = Inspected(p)
      BY <1>1, TakenTable, InputsAssumption DEF Take
    <3>3. Settled(Inspected(p)) = "none"
      BY <1>1, <3>1 DEF Take
    <3>4. Inspected(p).state # "BLOCKED"
      BY <3>3 DEF Settled
    <3>5. during'[p.tuple] = rules
      BY <1>1, <3>2, <3>3 DEF Take, TypeOK
    <3> QED BY <2>1, <3>2, <3>4, <3>5
  <2> QED BY <1>0, <2>1, <2>2, <2>3, <2>4 DEF RuleInv, StandingRuleDrops
<1>2. CASE Block
  BY <1>2 DEF Block, RuleInv, StandingRuleDrops
<1>3. CASE Pass
  <2>1. /\ check \in 1..4 /\ check' = check - 1
        /\ UNCHANGED <<connections, rules, job, held>> /\ (check # 1 => during' = during)
    BY <1>0, <1>3 DEF Pass, TypeOK
  <2>2. \A r \in held : r.type = Tables[check] => ~Matches(r, job.tuple, connections[job.tuple])
    BY <1>3 DEF Pass, TableBlocks, RuleInv
  <2>3. \A r \in held : \A i \in check..Len(Tables) :
          r.type = Tables[i] => ~Matches(r, job.tuple, connections[job.tuple])
    BY <1>0, <2>1, <2>2 DEF RuleInv
  <2>4. CASE check = 1
    <3>1. \A r \in held : ~Matches(r, job.tuple, connections[job.tuple])
      BY <2>3, <2>4, RuleInTable DEF TypeOK
    <3> QED BY <2>1, <2>4, <3>1 DEF RuleInv, StandingRuleDrops
  <2>5. CASE check # 1
    <3>1. UNCHANGED action /\ action # "FORWARD" /\ check' + 1 = check
      BY <1>3, <2>1, <2>5 DEF Pass, RuleInv
    <3> QED BY <2>1, <2>3, <3>1 DEF RuleInv, StandingRuleDrops
  <2> QED BY <2>4, <2>5
<1>4. CASE CleanupStale
  <2>1. check = 0 /\ UNCHANGED <<rules, job, check, action, held>>
    BY <1>4 DEF CleanupStale
  <2>2. \A g \in Tracked' : g \in Tracked /\ connections'[g] = connections[g]
    BY <1>4, <2>1, OtherTable DEF Block
  <2> QED BY <2>1, <2>2 DEF RuleInv, StandingRuleDrops
<1>5. ASSUME NEW r \in Rules, BlockRule(r) \/ UnblockRule(r)
      PROVE  RuleInv'
  <2>1. UNCHANGED <<connections, job, check, action>> /\ Tracked' = Tracked /\ held' \subseteq held
    BY <1>5 DEF BlockRule, UnblockRule, Tracked
  <2>2. held' \subseteq rules'
    BY <1>5 DEF BlockRule, UnblockRule, RuleInv
  <2>3. check # 0 => rules' \subseteq during'[job.tuple]
    <3>1. check # 0 => job.tuple \in Flows
      BY DEF TypeOK
    <3> QED BY <1>5, <3>1 DEF BlockRule, UnblockRule, RuleInv, TypeOK
  <2> QED BY <2>1, <2>2, <2>3 DEF RuleInv, StandingRuleDrops
<1> QED BY <1>1, <1>2, <1>3, <1>4, <1>5 DEF Next

\* Nobody becomes blocked but by a rule in force then, and a blocked connection keeps its
\* name and the rules that were noted for it.
LEMMA ReasonStep ==
  ASSUME TypeOK, TableInv, RuleInv, BlockedForAReason, Next
  PROVE  BlockedForAReason'
<1>1. ASSUME NEW f \in Tracked', f \in Tracked, during[f] \subseteq during'[f],
             connections[f].state = "BLOCKED", connections'[f].app_type = connections[f].app_type,
             connections'[f].sni = connections[f].sni
      PROVE  \E r \in during'[f] : Matches(r, f, connections'[f])
  <2>1. PICK r \in during[f] : Matches(r, f, connections[f])
    BY <1>1 DEF BlockedForAReason
  <2> QED BY <1>1, <2>1, MatchesByName
<1>2. ASSUME NEW p \in Inputs, Take(p)
      PROVE  BlockedForAReason'
  <2>1. ASSUME NEW f \in Tracked', connections'[f].state = "BLOCKED"
        PROVE  \E r \in during'[f] : Matches(r, f, connections'[f])
    <3>1. CASE f # p.tuple
      <4>1. f \in Tracked /\ connections'[f] = connections[f] /\ f \in Flows
        BY <1>2, <2>1, <3>1, TakenTable DEF TypeOK
      <4>2. during'[f] = during[f]
        BY <1>2, <3>1, <4>1 DEF Take, TypeOK
      <4> QED BY <1>1, <2>1, <4>1, <4>2
    <3>2. CASE f = p.tuple
      <4>1. connections'[f] = Inspected(p) /\ Inspected(p).state = "BLOCKED"
        BY <1>2, <2>1, <3>2, TakenTable
      <4>2. Settled(Inspected(p)) # "none"
        BY <4>1 DEF Settled
      <4>3. during' = during
        BY <1>2, <4>2 DEF Take
      <4> QED BY <1>1, <1>2, <2>1, <3>2, <4>1, <4>3, InspectedKeeps DEF Take
    <3> QED BY <3>1, <3>2
  <2> QED BY <2>1 DEF BlockedForAReason
<1>3. ASSUME Block \/ Pass \/ CleanupStale \/ (\E r \in Rules : BlockRule(r) \/ UnblockRule(r))
      PROVE  BlockedForAReason'
  <2>1. ASSUME NEW f \in Tracked', connections'[f].state = "BLOCKED"
        PROVE  \E r \in during'[f] : Matches(r, f, connections'[f])
    <3>1. f \in Tracked /\ connections[f] \in ConnectionType /\ f \in Flows
      BY <1>3, OtherTable DEF TypeOK
    <3>2. CASE connections'[f] = connections[f]
      <4>1. during[f] \subseteq during'[f]
        <5>1. CASE Pass
          <6>1. f # job.tuple
            BY <2>1, <3>2, <5>1 DEF Pass, RuleInv
          <6> QED BY <3>1, <5>1, <6>1 DEF Pass, TypeOK
        <5>2. CASE Block \/ CleanupStale \/ (\E r \in Rules : BlockRule(r) \/ UnblockRule(r))
          BY <3>1, <5>2 DEF Block, CleanupStale, BlockRule, UnblockRule, TypeOK
        <5> QED BY <1>3, <5>1, <5>2
      <4> QED BY <1>1, <2>1, <3>1, <3>2, <4>1
    <3>3. CASE Block /\ f = job.tuple /\ connections'[f] = InState(connections[f], "BLOCKED")
      <4>1. PICK r \in rules : Matches(r, f, connections[f])
        BY <3>3 DEF Block, TableBlocks
      <4>2. r \in during'[f]
        BY <3>3 DEF Block, RuleInv
      <4>3. /\ connections'[f].app_type = connections[f].app_type
            /\ connections'[f].sni = connections[f].sni
        BY <3>1, <3>3, InStateFields DEF States
      <4> QED BY <4>1, <4>2, <4>3, MatchesByName
    <3> QED BY <1>3, <3>2, <3>3, OtherTable
  <2> QED BY <2>1 DEF BlockedForAReason
<1> QED BY <1>2, <1>3 DEF Next

-----------------------------------------------------------------------------
(***************************************************************************)
(* The theorems.                                                            *)
(***************************************************************************)

\* Before the first packet.
LEMMA InitIInv == Init => IInv
<1> SUFFICES ASSUME Init PROVE IInv
  OBVIOUS
<1>1. Tracked = {} /\ connections \in [Tracked -> ConnectionType]
  BY DEF Init, Tracked
<1>2. job \in Inputs
  BY InputsAssumption DEF Init
<1>3. 0 \in 0..MaxPackets /\ 0 \in 0..MaxRuleChanges
  BY BoundsAssumption
<1>4. TypeOK
  BY <1>1, <1>2, <1>3 DEF Init, TypeOK, Tables
<1>5. IsFiniteSet({}) /\ Cardinality({}) = 0
  BY FS_EmptySet
<1>6. TableInv
  BY <1>1, <1>5, TableAssumption DEF TableInv, TableBounded
<1>7. CountInv
  <2>1. {f \in Tracked : connections[f].state = "BLOCKED"} = {} /\ Count(check # 0) = 0
    BY <1>1 DEF Init, Count
  <2>2. Cardinality({f \in Tracked : connections[f].state = "BLOCKED"}) = 0
    BY <1>5, <2>1
  <2>3. /\ stats.processed = 0 /\ stats.forwarded = 0 /\ stats.dropped = 0
        /\ stats.seen = 0 /\ stats.classified = 0 /\ stats.blocked = 0
    BY DEF Init
  <2> QED BY <2>1, <2>2, <2>3 DEF CountInv, CountersAgree
<1>8. RuleInv /\ BlockedForAReason
  BY <1>1 DEF Init, RuleInv, StandingRuleDrops, BlockedForAReason
<1> QED BY <1>4, <1>6, <1>7, <1>8 DEF IInv

\* The inductive step, one part of the invariant at a time.
LEMMA IInvStep == IInv /\ [Next]_vars => IInv'
<1> SUFFICES ASSUME IInv, [Next]_vars PROVE IInv'
  OBVIOUS
<1>1. CASE Next
  BY <1>1, TypeStep, TableStep, CountStep, RuleStep, ReasonStep DEF IInv
<1>2. CASE UNCHANGED vars
  BY <1>2 DEF vars, IInv, TypeOK, Tracked, TableInv, TableBounded, CountInv, CountersAgree,
              RuleInv, StandingRuleDrops, BlockedForAReason
<1> QED BY <1>1, <1>2

\* The invariant holds throughout.
LEMMA Invariance == Spec => []IInv
  BY InitIInv, IInvStep, PTL DEF Spec

\* Types: no counter passes the number of packets, and the Connection* that
\* processPacket holds across shouldBlock is in the table.
THEOREM TypeCorrect == Spec => []TypeOK
<1>1. IInv => TypeOK
  BY DEF IInv
<1> QED BY <1>1, Invariance, PTL

\* The connection table never exceeds max_connections_, whatever the packets.
THEOREM TableStaysBounded == Spec => []TableBounded
<1>1. IInv => TableBounded
  BY DEF IInv, TableInv
<1> QED BY <1>1, Invariance, PTL

\* A packet that a rule in force all the while matches is not forwarded, however
\* the other rules change between the four tables.
THEOREM StandingRulesDrop == Spec => []StandingRuleDrops
<1>1. IInv => StandingRuleDrops
  BY DEF IInv, RuleInv
<1> QED BY <1>1, Invariance, PTL

\* No connection is blocked without a rule that matches it and was in force at some moment
\* while the packet that got it blocked was checked.
THEOREM BlocksHaveReasons == Spec => []BlockedForAReason
<1>1. IInv => BlockedForAReason
  BY DEF IInv
<1> QED BY <1>1, Invariance, PTL

\* Forwarded and dropped packets add up, and so do the blocked connections.
THEOREM CountsAgree == Spec => []CountersAgree
<1>1. IInv => CountersAgree
  BY DEF IInv, CountInv
<1> QED BY <1>1, Invariance, PTL

\* No step but a closing packet, or the table's forgetting it, unblocks a connection.
LEMMA StaysBlocked ==
  ASSUME IInv, [Next]_vars, NEW f \in Tracked \cap Tracked', connections[f].state = "BLOCKED"
  PROVE  \/ connections'[f].state = "BLOCKED"
         \/ /\ job'.tuple = f /\ f.protocol = 6
            /\ "RST" \in job'.flags \/ ("ACK" \in job'.flags /\ connections'[f].fin_seen)
<1>1. ASSUME NEW p \in Inputs, Take(p)
      PROVE  \/ connections'[f].state = "BLOCKED"
             \/ /\ job'.tuple = f /\ f.protocol = 6
                /\ "RST" \in job'.flags \/ ("ACK" \in job'.flags /\ connections'[f].fin_seen)
  <2>1. connections'[f] = (IF f = p.tuple THEN Inspected(p) ELSE connections[f]) /\ job' = p
    BY <1>1, TakenTable DEF IInv, Take
  <2>2. CASE f = p.tuple
    BY <1>1, <2>1, <2>2, InspectedKeeps DEF IInv, Take
  <2>3. CASE f # p.tuple
    BY <2>1, <2>3
  <2> QED BY <2>2, <2>3
<1>2. ASSUME Block \/ Pass \/ CleanupStale \/ (\E r \in Rules : BlockRule(r) \/ UnblockRule(r))
      PROVE  connections'[f].state = "BLOCKED"
  <2>1. connections[f] \in ConnectionType
    BY DEF IInv, TypeOK
  <2>2. InState(connections[f], "BLOCKED").state = "BLOCKED"
    BY <2>1, InStateFields DEF States
  <2> QED BY <1>2, <2>2, OtherTable DEF IInv
<1>3. CASE UNCHANGED vars
  BY <1>3 DEF vars
<1> QED BY <1>1, <1>2, <1>3 DEF Next

\* A blocked connection stays blocked until a closing packet of its own, an RST or an ACK
\* after a FIN, or until the table forgets it.
THEOREM BlockedStaysBlocked == Spec => BlockedUntilClosed
<1>1. IInv /\ [Next]_vars =>
        [\A f \in Tracked \cap Tracked' :
           connections[f].state = "BLOCKED" =>
             \/ connections'[f].state = "BLOCKED"
             \/ /\ job'.tuple = f /\ f.protocol = 6
                /\ "RST" \in job'.flags \/ ("ACK" \in job'.flags /\ connections'[f].fin_seen)]_vars
  BY StaysBlocked
<1> QED BY <1>1, Invariance, PTL DEF Spec, BlockedUntilClosed
=============================================================================
