-------------------------- MODULE PacketWalkProofs --------------------------
(***************************************************************************)
(* The invariants of PacketWalk, proved for frames of every length and for  *)
(* all values of their length fields.  Inv says, for each function, how     *)
(* much of the packet the checks before it have secured.                    *)
(***************************************************************************)
EXTENDS PacketWalk, TLAPS

\* What the parser has secured before each of its functions.
Parsed ==
  /\ at \in {"open", "record", "closed"} \cup Parsing => name = NoName
  /\ at \in {"ethernet", "ipv4"} => parsed = NoProtocols
  /\ at \in {"ipv4", "transport", "payload", "job"} => offset <= len
  /\ at = "ipv4" => offset = ETH_HEADER_LEN
  /\ at = "transport" => offset = 14 + lengths.ihl * 4 /\ ~parsed.has_tcp /\ ~parsed.has_udp
  /\ at \in {"ethernet", "ipv4", "transport", "payload"} => payload = NoPayload
  /\ at \in {"payload", "job"} =>
       /\ parsed.has_tcp => /\ lengths.transport = 14 + lengths.ihl * 4
                            /\ lengths.data_offset >= 5
                            /\ offset = lengths.transport + lengths.data_offset * 4
       /\ parsed.has_udp /\ ~parsed.has_tcp => offset = 14 + lengths.ihl * 4 + UDP_HEADER_LEN
  /\ at = "job" =>
       /\ parsed.has_tcp \/ parsed.has_udp
       /\ payload.length = len - offset
       /\ payload.length > 0 => payload.offset = offset

\* The payload is the rest of the frame.
Searched ==
  /\ at \in Searching => ~name.found
  /\ at \in Searching /\ job.payload_length > 0 => job.payload_offset + job.payload_length = len
  /\ at \in Searching \ {"inspect"} => job.payload_length > 0

\* The extractors stay in it: a function with a position of its own has it there.
Secured ==
  /\ at = "dns" => size = 0
  /\ at \in {"extension", "server_name"} => limit <= job.payload_length
  /\ at = "server_name" => offset + size <= limit
  /\ at = "label" => /\ 12 <= offset /\ offset <= job.payload_length
                     /\ size > 0 => size <= offset - 13

Inv == TypeOK /\ ReadsInside /\ OffsetsAgree /\ NameInPayload /\ Parsed /\ Searched /\ Secured

-----------------------------------------------------------------------------
\* An interval of the payload is an interval of the frame.
LEMMA PayloadRead ==
  ASSUME Inv, at \in Searching, job.payload_length > 0, InPayload,
         NEW lo \in Nat, NEW hi \in Nat, lo <= hi, hi <= job.payload_length, ReadsPayload(lo, hi)
  PROVE  read' \in Interval /\ ReadsInside'
<1>1. job.payload_offset \in Nat /\ job.payload_length \in Nat
  BY DEF Inv, TypeOK, PacketJob
<1>2. job.payload_offset + job.payload_length = len /\ len \in Nat
  BY DEF Inv, TypeOK, Searched
<1>3. read' = [lo |-> job.payload_offset + lo, hi |-> job.payload_offset + hi]
  BY DEF ReadsPayload, Reads
<1> QED
  BY <1>1, <1>2, <1>3 DEF Interval, ReadsInside, InPayload

\* What every step of an extractor has to show: its own variables are in place, what it read is
\* in the frame, and the name it found, if it found one, is in the payload.
LEMMA SearchStep ==
  ASSUME Inv, at \in Searching, InPayload,
         at' \in (Searching \ {"inspect"}) \cup {"write"},
         at' # "write" => job.payload_length > 0,
         offset' \in Nat, limit' \in Nat, size' \in Nat, Secured',
         read' \in Interval /\ ReadsInside',
         \/ name' = name
         \/ at' = "write" /\ name' \in HostName /\ NameInPayload'
  PROVE  Inv'
<1>1. name' \in HostName /\ NameInPayload'
  BY DEF Inv, TypeOK, NameInPayload, InPayload
<1>2. TypeOK'
  BY <1>1 DEF Inv, TypeOK, Stages, InPayload, packet
<1>3. OffsetsAgree'
  BY DEF Inv, OffsetsAgree, InPayload, packet
<1>4. Parsed'
  BY DEF Parsed, Parsing, Searching
<1>5. Searched'
  BY DEF Inv, Searched, InPayload, Searching
<1> QED
  BY <1>1, <1>2, <1>3, <1>4, <1>5 DEF Inv

\* An extractor that returns leaves its variables behind it.
LEMMA Returns ==
  ASSUME Inv, at \in Searching, InPayload, job.payload_length > 0,
         NEW to \in {"http", "dns", "host", "hello", "write"}, Leave(to),
         read' \in Interval /\ ReadsInside',
         \/ name' = name
         \/ to = "write" /\ name' \in HostName /\ NameInPayload'
  PROVE  Inv'
<1>1. Secured'
  BY DEF Secured, Leave
<1> QED
  BY <1>1, SearchStep DEF Leave, Searching

\* Nothing read: what was read before is still in the frame.
LEMMA NothingRead == Inv /\ InPayload /\ UNCHANGED read => read' \in Interval /\ ReadsInside'
BY DEF Inv, TypeOK, InPayload, ReadsInside

\* Behind the entry every extractor has a payload.
LEMMA HasPayload ==
  ASSUME Inv, at \in Searching \ {"inspect"}
  PROVE  at \in Searching /\ job.payload_length \in Nat /\ job.payload_length > 0
BY DEF Inv, TypeOK, Searched, PacketJob

\* A name found inside the payload.
LEMMA FoundStep ==
  ASSUME Inv, at \in Searching, InPayload, job.payload_length > 0,
         NEW lo \in Nat, NEW hi \in Nat, NEW n \in Nat,
         lo <= hi, hi <= job.payload_length, n <= hi - lo, Found(lo, hi, n),
         read' \in Interval /\ ReadsInside'
  PROVE  Inv'
<1>1. Leave("write") /\ name' \in HostName /\ NameInPayload'
  BY DEF Found, HostName, NameInPayload, InPayload
<1> QED
  BY <1>1, Returns

-----------------------------------------------------------------------------
LEMMA InspectPayloadStep == Inv /\ InspectPayload => Inv'
<1> SUFFICES ASSUME Inv, InspectPayload PROVE Inv'
  OBVIOUS
<1>1. at \in Searching /\ InPayload /\ name' = name
  BY DEF InspectPayload, Searching, GiveUp
<1>2. read' \in Interval /\ ReadsInside'
  BY <1>1, NothingRead DEF InspectPayload
<1>3. job.payload_length \in Nat
  BY DEF Inv, TypeOK, PacketJob
<1>4. CASE job.payload_length = 0 \/ job.payload_offset >= len
  <2>1. Leave("write")
    BY <1>4 DEF InspectPayload, GiveUp
  <2> QED
    BY <1>1, <1>2, <2>1, SearchStep DEF Leave, Secured
<1>5. CASE ~(job.payload_length = 0 \/ job.payload_offset >= len)
  <2>1. Leave("hello") \/ Leave("http")
    BY <1>5 DEF InspectPayload
  <2> QED
    BY <1>1, <1>2, <1>3, <1>5, <2>1, Returns
<1> QED
  BY <1>4, <1>5

LEMMA IsTLSClientHelloStep == Inv /\ IsTLSClientHello => Inv'
<1> SUFFICES ASSUME Inv, IsTLSClientHello PROVE Inv'
  OBVIOUS
<1>1. at \in Searching /\ InPayload /\ job.payload_length \in Nat /\ job.payload_length > 0
  BY HasPayload DEF IsTLSClientHello, Searching
<1>2. CASE TryHTTP /\ UNCHANGED read
  BY <1>1, <1>2, NothingRead, Returns DEF TryHTTP
<1>3. CASE job.payload_length >= 9 /\ TryHTTP /\ ReadsPayload(0, 6)
  <2>1. read' \in Interval /\ ReadsInside'
    BY <1>1, <1>3, PayloadRead
  <2> QED
    BY <1>1, <1>3, <2>1, Returns DEF TryHTTP
<1>4. CASE /\ job.payload_length >= 9 /\ ReadsPayload(0, 9)
           /\ at' = "session" /\ offset' = 43 /\ UNCHANGED <<limit, size, name>>
  <2>1. read' \in Interval /\ ReadsInside'
    BY <1>1, <1>4, PayloadRead
  <2>2. Secured' /\ limit' \in Nat /\ size' \in Nat
    BY <1>4 DEF Secured, Inv, TypeOK
  <2> QED
    BY <1>1, <1>4, <2>1, <2>2, SearchStep DEF Searching
<1> QED
  BY <1>2, <1>3, <1>4 DEF IsTLSClientHello

LEMMA SkipVectorStep ==
  ASSUME NEW from \in Searching \ {"inspect"}, NEW width \in Nat, NEW bytes \in SUBSET Nat,
         NEW to \in {"ciphers", "compression", "extensions"},
         Inv, SkipVector(from, width, bytes, to)
  PROVE  Inv'
<1>1. at \in Searching /\ InPayload /\ job.payload_length \in Nat /\ job.payload_length > 0
  BY HasPayload DEF SkipVector
<1>2. CASE TryHTTP /\ UNCHANGED read
  BY <1>1, <1>2, NothingRead, Returns DEF TryHTTP
<1>3. CASE Fits(width) /\ at' = to
  <2>1. PICK n \in bytes : offset' = offset + width + n
    BY <1>3 DEF SkipVector, TryHTTP, Leave
  <2>2. offset \in Nat /\ limit' \in Nat /\ size' \in Nat
    BY <1>3 DEF SkipVector, TryHTTP, Leave, Inv, TypeOK
  <2>3. read' \in Interval /\ ReadsInside'
    BY <1>1, <1>3, <2>2, PayloadRead DEF SkipVector, TryHTTP, Leave, Fits
  <2>4. at' = to /\ name' = name /\ Secured'
    BY <1>3 DEF SkipVector, TryHTTP, Leave, Secured
  <2> QED
    BY <1>1, <2>1, <2>2, <2>3, <2>4, SearchStep DEF Searching
<1> QED
  BY <1>2, <1>3 DEF SkipVector

LEMMA ExtensionsStep == Inv /\ Extensions => Inv'
<1> SUFFICES ASSUME Inv, Extensions PROVE Inv'
  OBVIOUS
<1>1. at \in Searching /\ InPayload /\ job.payload_length \in Nat /\ job.payload_length > 0
  BY HasPayload DEF Extensions, Searching
<1>2. CASE TryHTTP /\ UNCHANGED read
  BY <1>1, <1>2, NothingRead, Returns DEF TryHTTP
<1>3. CASE Fits(2) /\ at' = "extension"
  <2>1. PICK n \in Words : limit' = IF offset + 2 + n > job.payload_length
                                    THEN job.payload_length ELSE offset + 2 + n
    BY <1>3 DEF Extensions, TryHTTP, Leave
  <2>2. /\ n \in Nat /\ offset \in Nat /\ size' \in Nat
        /\ at' = "extension" /\ offset' = offset + 2 /\ name' = name
    BY <1>3, FieldsAssumption DEF Extensions, TryHTTP, Leave, Inv, TypeOK
  <2>3. limit' \in Nat /\ limit' <= job.payload_length
    BY <1>1, <2>1, <2>2
  <2>4. read' \in Interval /\ ReadsInside'
    BY <1>1, <1>3, <2>2, PayloadRead DEF Extensions, TryHTTP, Leave, Fits
  <2>5. Secured'
    BY <1>1, <2>2, <2>3 DEF Secured, InPayload
  <2> QED
    BY <1>1, <2>2, <2>3, <2>4, <2>5, SearchStep DEF Searching
<1> QED
  BY <1>2, <1>3 DEF Extensions

LEMMA ExtensionStep == Inv /\ Extension => Inv'
<1> SUFFICES ASSUME Inv, Extension PROVE Inv'
  OBVIOUS
<1>1. at \in Searching /\ InPayload /\ job.payload_length \in Nat /\ job.payload_length > 0
  BY HasPayload DEF Extension, Searching
<1>2. /\ at = "extension" /\ offset \in Nat /\ limit \in Nat /\ size \in Nat
      /\ limit <= job.payload_length
  BY DEF Extension, Inv, TypeOK, Secured
<1>3. CASE TryHTTP /\ UNCHANGED read
  BY <1>1, <1>3, NothingRead, Returns DEF TryHTTP
<1>4. CASE offset + 4 <= limit /\ ReadsPayload(offset, offset + 4)
  <2>1. read' \in Interval /\ ReadsInside'
    BY <1>1, <1>2, <1>4, PayloadRead
  <2>2. CASE TryHTTP
    BY <1>1, <2>1, <2>2, Returns DEF TryHTTP
  <2>3. CASE \E n \in Words : /\ offset + 4 + n <= limit
                              /\ \/ at' = "server_name" /\ offset' = offset + 4 /\ size' = n
                                 \/ offset' = offset + 4 + n /\ UNCHANGED <<at, size>>
                              /\ UNCHANGED <<limit, name>>
    <3>1. PICK n \in Words : /\ offset + 4 + n <= limit
                             /\ \/ at' = "server_name" /\ offset' = offset + 4 /\ size' = n
                                \/ offset' = offset + 4 + n /\ UNCHANGED <<at, size>>
                             /\ UNCHANGED <<limit, name>>
      BY <2>3
    <3>2. n \in Nat
      BY FieldsAssumption
    <3>3. offset' \in Nat /\ limit' \in Nat /\ size' \in Nat /\ name' = name
      BY <1>2, <3>1, <3>2
    <3>4. at' \in {"server_name", "extension"} /\ Secured'
      BY <1>1, <1>2, <3>1, <3>2 DEF Secured, InPayload
    <3> QED
      BY <1>1, <2>1, <3>3, <3>4, SearchStep DEF Searching
  <2> QED
    BY <1>4, <2>2, <2>3, <1>2 DEF Extension
<1> QED
  BY <1>3, <1>4 DEF Extension

LEMMA ServerNameStep == Inv /\ ServerName => Inv'
<1> SUFFICES ASSUME Inv, ServerName PROVE Inv'
  OBVIOUS
<1>1. at \in Searching /\ InPayload /\ job.payload_length \in Nat /\ job.payload_length > 0
  BY HasPayload DEF ServerName, Searching
<1>2. /\ offset \in Nat /\ size \in Nat /\ limit \in Nat
      /\ offset + size <= limit /\ limit <= job.payload_length
  BY DEF ServerName, Inv, TypeOK, Secured
<1>3. CASE TryHTTP /\ UNCHANGED read
  BY <1>1, <1>3, NothingRead, Returns DEF TryHTTP
<1>4. CASE size >= 5 /\ TryHTTP /\ ReadsPayload(offset, offset + 5)
  <2>1. read' \in Interval /\ ReadsInside'
    BY <1>1, <1>2, <1>4, PayloadRead
  <2> QED
    BY <1>1, <1>4, <2>1, Returns DEF TryHTTP
<1>5. CASE size >= 5 /\ \E n \in Words : /\ n <= size - 5 /\ Found(offset + 5, offset + 5 + n, n)
                                         /\ ReadsPayload(offset, offset + 5 + n)
  <2>1. PICK n \in Words : /\ n <= size - 5 /\ Found(offset + 5, offset + 5 + n, n)
                           /\ ReadsPayload(offset, offset + 5 + n)
    BY <1>5
  <2>2. n \in Nat /\ n <= size - 5
    BY <2>1, FieldsAssumption
  <2>3. read' \in Interval /\ ReadsInside'
    BY <1>1, <1>2, <2>1, <2>2, PayloadRead
  <2> QED
    BY <1>1, <1>2, <1>5, <2>1, <2>2, <2>3, FoundStep
<1> QED
  BY <1>3, <1>4, <1>5 DEF ServerName

LEMMA IsHTTPRequestStep == Inv /\ IsHTTPRequest => Inv'
<1> SUFFICES ASSUME Inv, IsHTTPRequest PROVE Inv'
  OBVIOUS
<1>1. at \in Searching /\ InPayload /\ job.payload_length \in Nat /\ job.payload_length > 0
  BY HasPayload DEF IsHTTPRequest, Searching
<1>2. CASE TryDNS /\ UNCHANGED read
  BY <1>1, <1>2, NothingRead, Returns DEF TryDNS
<1>3. CASE job.payload_length >= 4 /\ ReadsPayload(0, 4) /\ (TryDNS \/ (Leave("host") /\ UNCHANGED name))
  <2>1. read' \in Interval /\ ReadsInside'
    BY <1>1, <1>3, PayloadRead
  <2> QED
    BY <1>1, <1>3, <2>1, Returns DEF TryDNS
<1> QED
  BY <1>2, <1>3 DEF IsHTTPRequest

LEMMA HostStep == Inv /\ Host => Inv'
<1> SUFFICES ASSUME Inv, Host PROVE Inv'
  OBVIOUS
<1>1. at \in Searching /\ InPayload /\ job.payload_length \in Nat /\ job.payload_length > 0
  BY HasPayload DEF Host, Searching
<1>2. offset \in Nat /\ limit \in Nat /\ size \in Nat /\ at = "host"
  BY DEF Host, Inv, TypeOK
<1>3. ASSUME NextPosition, read' \in Interval /\ ReadsInside' PROVE Inv'
  <2>1. Secured' /\ offset' \in Nat
    BY <1>2, <1>3 DEF NextPosition, Secured
  <2> QED
    BY <1>1, <1>2, <1>3, <2>1, SearchStep DEF NextPosition, Searching
<1>4. CASE TryDNS /\ UNCHANGED read
  BY <1>1, <1>4, NothingRead, Returns DEF TryDNS
<1>5. CASE offset + 6 < job.payload_length /\ ReadsPayload(offset, offset + 5) /\ NextPosition
  <2>1. read' \in Interval /\ ReadsInside'
    BY <1>1, <1>2, <1>5, PayloadRead
  <2> QED
    BY <1>3, <1>5, <2>1
<1>6. ASSUME offset + 6 < job.payload_length,
             NEW start \in UpTo(offset + 5, MaxBlanks), NEW end \in UpTo(start, MaxLine),
             ReadsPayload(offset, IF end < job.payload_length THEN end + 1 ELSE end),
             \/ end = start /\ NextPosition
             \/ \E colon \in start .. end : Found(start, colon, colon - start)
      PROVE  Inv'
  <2>1. /\ start \in Nat /\ end \in Nat /\ offset + 5 <= start /\ start <= end
        /\ end <= job.payload_length
    BY <1>1, <1>2, <1>6, BoundsAssumption DEF UpTo
  <2>2. read' \in Interval /\ ReadsInside'
    BY <1>1, <1>2, <1>6, <2>1, PayloadRead
  <2>3. CASE NextPosition
    BY <1>3, <2>2, <2>3
  <2>4. ASSUME NEW colon \in start .. end, Found(start, colon, colon - start) PROVE Inv'
    BY <1>1, <2>1, <2>2, <2>4, FoundStep
  <2> QED
    BY <1>6, <2>3, <2>4
<1> QED
  BY <1>4, <1>5, <1>6 DEF Host

LEMMA IsDNSQueryStep == Inv /\ IsDNSQuery => Inv'
<1> SUFFICES ASSUME Inv, IsDNSQuery PROVE Inv'
  OBVIOUS
<1>1. at \in Searching /\ InPayload /\ job.payload_length \in Nat /\ job.payload_length > 0
  BY HasPayload DEF IsDNSQuery, Searching
<1>2. CASE GiveUp /\ UNCHANGED read
  BY <1>1, <1>2, NothingRead, Returns DEF GiveUp
<1>3. CASE job.payload_length >= 12 /\ ReadsPayload(2, 6)
  <2>1. read' \in Interval /\ ReadsInside'
    BY <1>1, <1>3, PayloadRead
  <2>2. CASE GiveUp
    BY <1>1, <2>1, <2>2, Returns DEF GiveUp
  <2>3. CASE at' = "label" /\ offset' = 12 /\ UNCHANGED <<limit, size, name>>
    <3>1. limit' \in Nat /\ size' = 0
      BY <2>3 DEF IsDNSQuery, Inv, TypeOK, Secured
    <3>2. Secured'
      BY <1>1, <1>3, <2>3, <3>1 DEF Secured, InPayload
    <3> QED
      BY <1>1, <2>1, <2>3, <3>1, <3>2, SearchStep DEF Searching
  <2> QED
    BY <1>3, <2>2, <2>3, <1>2 DEF IsDNSQuery
<1> QED
  BY <1>2, <1>3 DEF IsDNSQuery

LEMMA LabelStep == Inv /\ Label => Inv'
<1> SUFFICES ASSUME Inv, Label PROVE Inv'
  OBVIOUS
<1>1. at \in Searching /\ InPayload /\ job.payload_length \in Nat /\ job.payload_length > 0
  BY HasPayload DEF Label, Searching
<1>2. /\ at = "label" /\ offset \in Nat /\ limit \in Nat /\ size \in Nat
      /\ 12 <= offset /\ offset <= job.payload_length
      /\ size > 0 => size <= offset - 13
  BY DEF Label, Inv, TypeOK, Secured
<1>3. ASSUME EndOfLabels, read' \in Interval /\ ReadsInside' PROVE Inv'
  <2>1. CASE GiveUp
    BY <1>1, <1>3, <2>1, Returns DEF GiveUp
  <2>2. CASE size > 0 /\ Found(13, offset, size)
    BY <1>1, <1>2, <1>3, <2>2, FoundStep
  <2> QED
    BY <1>2, <1>3, <2>1, <2>2 DEF EndOfLabels
<1>4. CASE EndOfLabels /\ UNCHANGED read
  BY <1>1, <1>3, <1>4, NothingRead
<1>5. CASE offset < job.payload_length /\ EndOfLabels /\ ReadsPayload(offset, offset + 1)
  <2>1. read' \in Interval /\ ReadsInside'
    BY <1>1, <1>2, <1>5, PayloadRead
  <2> QED
    BY <1>3, <1>5, <2>1
<1>6. ASSUME NEW n \in Bytes, n \in 1..63, offset + 1 + n <= job.payload_length,
             ReadsPayload(offset, offset + 1 + n),
             size' = Joined(n),
             offset' = offset + 1 + n,
             UNCHANGED <<at, limit, name>>
      PROVE  Inv'
  <2>1. read' \in Interval /\ ReadsInside'
    BY <1>1, <1>2, <1>6, PayloadRead
  <2>2. offset' \in Nat /\ limit' \in Nat /\ size' \in Nat /\ size' <= offset' - 13
    BY <1>2, <1>6 DEF Joined
  <2>3. Secured'
    BY <1>1, <1>2, <1>6, <2>2 DEF Secured, InPayload
  <2> QED
    BY <1>1, <1>2, <1>6, <2>1, <2>2, <2>3, SearchStep DEF Searching
<1> QED
  BY <1>4, <1>5, <1>6 DEF Label

-----------------------------------------------------------------------------
\* What every step of the parser has to show.
LEMMA ParseStep ==
  ASSUME Inv, at \in Parsing, at # "job",
         UNCHANGED <<header, len, job, limit, size, name, out>>,
         at' \in Parsing \cup {"record"},
         offset' \in Nat, parsed' \in ParsedPacket, ports' \in TwoPorts, payload' \in Payload,
         lengths' \in TwoLengths, Parsed',
         read' \in Interval /\ ReadsInside'
  PROVE  Inv'
<1>1. TypeOK'
  BY DEF Inv, TypeOK, Stages
<1>2. OffsetsAgree' /\ Searched' /\ Secured'
  BY DEF OffsetsAgree, Searched, Secured, Searching, Parsing
<1>3. NameInPayload'
  BY DEF Inv, NameInPayload
<1> QED
  BY <1>1, <1>2, <1>3 DEF Inv

\* A packet the parser refuses: what was parsed so far stays where it is.
LEMMA SkipStep ==
  ASSUME Inv, at \in Parsing, at # "job",
         UNCHANGED <<header, len, job, limit, size, name, out>>,
         Skip, UNCHANGED <<offset, packet>>,
         read' \in Interval /\ ReadsInside'
  PROVE  Inv'
<1>1. name' = NoName
  BY DEF Inv, Parsed
<1>2. Parsed'
  BY <1>1 DEF Parsed, Parsing, Skip
<1>3. /\ offset' \in Nat /\ parsed' \in ParsedPacket /\ ports' \in TwoPorts
      /\ payload' \in Payload /\ lengths' \in TwoLengths
  BY DEF packet, Inv, TypeOK
<1> QED
  BY <1>2, <1>3, ParseStep DEF Skip

\* A header that fits was read, or nothing.
LEMMA FrameRead ==
  ASSUME Inv, len' = len, NEW lo \in Nat, NEW hi \in Nat, lo <= hi, hi <= len, Reads(lo, hi)
  PROVE  read' \in Interval /\ ReadsInside'
BY DEF Reads, Interval, ReadsInside

LEMMA NoFrameRead ==
  ASSUME Inv, len' = len, read' = read
  PROVE  read' \in Interval /\ ReadsInside'
BY DEF Inv, TypeOK, ReadsInside

LEMMA ParseEthernetStep == Inv /\ ParseEthernet => Inv'
<1> SUFFICES ASSUME Inv, ParseEthernet PROVE Inv'
  OBVIOUS
<1>1. /\ at = "ethernet" /\ at \in Parsing /\ len \in Nat /\ len' = len
      /\ UNCHANGED <<header, len, job, limit, size, name, out>> /\ UNCHANGED packet
  BY DEF ParseEthernet, Inv, TypeOK, Parsing
<1>2. parsed = NoProtocols /\ payload = NoPayload /\ name = NoName
  BY <1>1 DEF Inv, Parsed, Parsing
<1>3. /\ parsed' \in ParsedPacket /\ ports' \in TwoPorts
      /\ payload' \in Payload /\ lengths' \in TwoLengths
  BY <1>1 DEF packet, Inv, TypeOK
<1>4. CASE Skip /\ UNCHANGED <<read, offset>>
  BY <1>1, <1>4, NoFrameRead, SkipStep
<1>5. CASE /\ len >= ETH_HEADER_LEN /\ Reads(0, ETH_HEADER_LEN) /\ offset' = ETH_HEADER_LEN
           /\ at' \in {"ipv4", "payload"}
  <2>1. read' \in Interval /\ ReadsInside'
    BY <1>1, <1>5, FrameRead DEF ETH_HEADER_LEN
  <2>2. offset' \in Nat /\ offset' <= len'
    BY <1>1, <1>5 DEF ETH_HEADER_LEN
  <2>3. Parsed'
    BY <1>1, <1>2, <1>5, <2>2 DEF Parsed, NoProtocols, packet
  <2> QED
    BY <1>1, <1>3, <1>5, <2>1, <2>2, <2>3, ParseStep DEF Parsing
<1> QED
  BY <1>4, <1>5 DEF ParseEthernet

LEMMA ParseIPv4Step == Inv /\ ParseIPv4 => Inv'
<1> SUFFICES ASSUME Inv, ParseIPv4 PROVE Inv'
  OBVIOUS
<1>1. /\ at = "ipv4" /\ at \in Parsing /\ len \in Nat /\ len' = len /\ offset \in Nat
      /\ UNCHANGED <<header, len, job, limit, size, name, out>>
  BY DEF ParseIPv4, Inv, TypeOK, Parsing
<1>2. offset = 14 /\ parsed = NoProtocols /\ payload = NoPayload /\ name = NoName
  BY <1>1 DEF Inv, Parsed, Parsing, ETH_HEADER_LEN
<1>3. CASE Skip /\ UNCHANGED <<read, offset, packet>>
  BY <1>1, <1>3, NoFrameRead, SkipStep
<1>4. ASSUME len >= offset + MIN_IP_HEADER_LEN, Reads(offset, offset + MIN_IP_HEADER_LEN)
      PROVE  read' \in Interval /\ ReadsInside'
  BY <1>1, <1>4, FrameRead DEF MIN_IP_HEADER_LEN
<1>5. CASE /\ len >= offset + MIN_IP_HEADER_LEN /\ Reads(offset, offset + MIN_IP_HEADER_LEN)
           /\ Skip /\ UNCHANGED <<offset, packet>>
  BY <1>1, <1>4, <1>5, SkipStep
<1>6. ASSUME len >= offset + MIN_IP_HEADER_LEN, Reads(offset, offset + MIN_IP_HEADER_LEN),
             NEW ihl \in Nibbles, NEW protocol \in {TCP, UDP, 1},
             RoomForHeader(MIN_IP_HEADER_LEN, ihl * 4),
             parsed' = [parsed EXCEPT !.protocol = protocol, !.has_ip = TRUE],
             lengths' = [lengths EXCEPT !.ihl = ihl],
             UNCHANGED <<ports, payload>>,
             offset' = offset + ihl * 4, at' = "transport"
      PROVE  Inv'
  <2>1. ihl \in 0..15 /\ protocol \in Nat /\ ihl \in HeaderWords
    BY <1>6, FieldsAssumption DEF TCP, UDP, RoomForHeader, MIN_IP_HEADER_LEN, HeaderWords
  <2>2. parsed' = [protocol |-> protocol, has_ip |-> TRUE, has_tcp |-> FALSE, has_udp |-> FALSE]
    BY <1>2, <1>6 DEF NoProtocols
  <2>3. lengths' \in TwoLengths /\ lengths'.ihl = ihl
    BY <1>6, <2>1 DEF TwoLengths, Inv, TypeOK
  <2>4. offset' \in Nat /\ offset' <= len' /\ offset' = 14 + ihl * 4
    BY <1>1, <1>2, <1>6, <2>1 DEF RoomForHeader
  <2>5. Parsed'
    <3>1. ~parsed'.has_tcp /\ ~parsed'.has_udp
      BY <2>2
    <3>2. payload' = NoPayload /\ name' = NoName
      BY <1>1, <1>2, <1>6
    <3> QED
      BY <1>6, <2>3, <2>4, <3>1, <3>2 DEF Parsed
  <2>6. parsed' \in ParsedPacket /\ ports' \in TwoPorts /\ payload' \in Payload
    BY <1>6, <2>1, <2>2 DEF ParsedPacket, Inv, TypeOK
  <2> QED
    BY <1>1, <1>4, <1>6, <2>3, <2>4, <2>5, <2>6, ParseStep DEF Parsing
<1> QED
  BY <1>3, <1>5, <1>6 DEF ParseIPv4

LEMMA ParseTCPStep == Inv /\ ParseTCP => Inv'
<1> SUFFICES ASSUME Inv, ParseTCP PROVE Inv'
  OBVIOUS
<1>1. /\ at = "transport" /\ at \in Parsing /\ len \in Nat /\ len' = len /\ offset \in Nat
      /\ UNCHANGED <<header, len, job, limit, size, name, out>>
      /\ parsed \in ParsedPacket /\ lengths \in TwoLengths
  BY DEF ParseTCP, Inv, TypeOK, Parsing
<1>2. /\ offset = 14 + lengths.ihl * 4 /\ payload = NoPayload /\ name = NoName
      /\ ~parsed.has_tcp /\ ~parsed.has_udp
  BY <1>1 DEF Inv, Parsed, Parsing
<1>3. CASE Skip /\ UNCHANGED <<read, offset, packet>>
  BY <1>1, <1>3, NoFrameRead, SkipStep
<1>4. ASSUME len >= offset + MIN_TCP_HEADER_LEN, Reads(offset, offset + 14)
      PROVE  read' \in Interval /\ ReadsInside'
  BY <1>1, <1>4, FrameRead DEF MIN_TCP_HEADER_LEN
<1>5. CASE /\ len >= offset + MIN_TCP_HEADER_LEN /\ Reads(offset, offset + 14)
           /\ Skip /\ UNCHANGED <<offset, packet>>
  BY <1>1, <1>4, <1>5, SkipStep
<1>6. ASSUME len >= offset + MIN_TCP_HEADER_LEN, Reads(offset, offset + 14),
             NEW d \in Nibbles, NEW src \in Ports, NEW dst \in Ports,
             RoomForHeader(MIN_TCP_HEADER_LEN, d * 4),
             parsed' = [parsed EXCEPT !.has_tcp = TRUE],
             ports' = [src |-> src, dst |-> dst],
             lengths' = [lengths EXCEPT !.data_offset = d, !.transport = offset],
             UNCHANGED payload,
             offset' = offset + d * 4, at' = "payload"
      PROVE  Inv'
  <2>1. d \in 0..15 /\ d \in HeaderWords
    BY <1>6, FieldsAssumption DEF RoomForHeader, MIN_TCP_HEADER_LEN, HeaderWords
  <2>7. ports' \in TwoPorts
    BY <1>6, FieldsAssumption DEF TwoPorts
  <2>2. parsed' \in ParsedPacket /\ parsed'.has_tcp
    BY <1>1, <1>6 DEF ParsedPacket
  <2>3. /\ lengths' \in TwoLengths /\ lengths'.ihl = lengths.ihl
        /\ lengths'.transport = offset /\ lengths'.data_offset = d
    BY <1>1, <1>6, <2>1 DEF TwoLengths
  <2>4. offset' \in Nat /\ offset' <= len' /\ d >= 5
    BY <1>1, <1>6, <2>1 DEF RoomForHeader, MIN_TCP_HEADER_LEN
  <2>5. Parsed'
    BY <1>1, <1>2, <1>6, <2>2, <2>3, <2>4 DEF Parsed
  <2>6. payload' \in Payload
    BY <1>6 DEF Inv, TypeOK
  <2> QED
    BY <1>1, <1>4, <1>6, <2>1, <2>2, <2>3, <2>4, <2>5, <2>6, <2>7, ParseStep DEF Parsing
<1> QED
  BY <1>3, <1>5, <1>6 DEF ParseTCP

LEMMA ParseUDPStep == Inv /\ ParseUDP => Inv'
<1> SUFFICES ASSUME Inv, ParseUDP PROVE Inv'
  OBVIOUS
<1>1. /\ at = "transport" /\ at \in Parsing /\ len \in Nat /\ len' = len /\ offset \in Nat
      /\ UNCHANGED <<header, len, job, limit, size, name, out>>
      /\ parsed \in ParsedPacket /\ lengths \in TwoLengths
  BY DEF ParseUDP, Inv, TypeOK, Parsing
<1>2. /\ offset = 14 + lengths.ihl * 4 /\ payload = NoPayload /\ name = NoName
      /\ ~parsed.has_tcp /\ ~parsed.has_udp
  BY <1>1 DEF Inv, Parsed, Parsing
<1>3. CASE Skip /\ UNCHANGED <<read, offset, packet>>
  BY <1>1, <1>3, NoFrameRead, SkipStep
<1>4. ASSUME len >= offset + UDP_HEADER_LEN, Reads(offset, offset + 4),
             NEW src \in Ports, NEW dst \in Ports,
             ports' = [src |-> src, dst |-> dst],
             parsed' = [parsed EXCEPT !.has_udp = TRUE],
             lengths' = [lengths EXCEPT !.transport = offset],
             UNCHANGED payload,
             offset' = offset + UDP_HEADER_LEN, at' = "payload"
      PROVE  Inv'
  <2>1. read' \in Interval /\ ReadsInside'
    BY <1>1, <1>4, FrameRead DEF UDP_HEADER_LEN
  <2>2. ports' \in TwoPorts /\ payload' \in Payload
    BY <1>4, FieldsAssumption DEF TwoPorts, Inv, TypeOK
  <2>3. parsed' \in ParsedPacket /\ ~parsed'.has_tcp
    BY <1>1, <1>2, <1>4 DEF ParsedPacket
  <2>4. lengths' \in TwoLengths /\ lengths'.ihl = lengths.ihl
    BY <1>1, <1>4 DEF TwoLengths
  <2>5. offset' \in Nat /\ offset' <= len'
    BY <1>1, <1>4 DEF UDP_HEADER_LEN
  <2>6. Parsed'
    BY <1>1, <1>2, <1>4, <2>3, <2>4, <2>5 DEF Parsed
  <2> QED
    BY <1>1, <1>4, <2>1, <2>2, <2>3, <2>4, <2>5, <2>6, ParseStep DEF Parsing
<1> QED
  BY <1>3, <1>4 DEF ParseUDP

LEMMA ParseOtherStep == Inv /\ ParseOther => Inv'
<1> SUFFICES ASSUME Inv, ParseOther PROVE Inv'
  OBVIOUS
<1>1. /\ at = "transport" /\ at \in Parsing /\ at' = "payload" /\ len' = len
      /\ UNCHANGED <<header, len, job, limit, size, name, out>>
      /\ UNCHANGED <<offset, read>> /\ UNCHANGED <<parsed, ports, payload, lengths>>
  BY DEF ParseOther, Parsing, packet
<1>2. /\ ~parsed.has_tcp /\ ~parsed.has_udp /\ payload = NoPayload
      /\ offset <= len /\ name = NoName
  BY <1>1 DEF Inv, Parsed, Parsing
<1>3. Parsed'
  BY <1>1, <1>2 DEF Parsed
<1>4. /\ offset' \in Nat /\ parsed' \in ParsedPacket /\ ports' \in TwoPorts
      /\ payload' \in Payload /\ lengths' \in TwoLengths
  BY <1>1 DEF Inv, TypeOK
<1> QED
  BY <1>1, <1>3, <1>4, NoFrameRead, ParseStep DEF Parsing

LEMMA ParsePayloadStep == Inv /\ ParsePayload => Inv'
<1> SUFFICES ASSUME Inv, ParsePayload PROVE Inv'
  OBVIOUS
<1>1. /\ at = "payload" /\ at \in Parsing /\ len \in Nat /\ len' = len /\ offset \in Nat
      /\ UNCHANGED <<header, len, job, limit, size, name, out>>
      /\ UNCHANGED <<offset, read>> /\ UNCHANGED <<parsed, ports, lengths>>
  BY DEF ParsePayload, Inv, TypeOK, Parsing
<1>2. /\ offset <= len /\ name = NoName /\ payload = NoPayload
      /\ parsed.has_tcp => /\ lengths.transport = 14 + lengths.ihl * 4
                           /\ lengths.data_offset >= 5
                           /\ offset = lengths.transport + lengths.data_offset * 4
      /\ parsed.has_udp /\ ~parsed.has_tcp => offset = 14 + lengths.ihl * 4 + UDP_HEADER_LEN
  BY <1>1 DEF Inv, Parsed, Parsing
<1>3. /\ payload' \in Payload /\ payload'.length = len - offset
      /\ payload'.length > 0 => payload'.offset = offset
  BY <1>1, <1>2 DEF ParsePayload, Payload, NoPayload
<1>4. /\ offset' \in Nat /\ parsed' \in ParsedPacket /\ ports' \in TwoPorts
      /\ lengths' \in TwoLengths
  BY <1>1 DEF Inv, TypeOK
<1>5. Parsed' /\ at' \in {"record", "job"}
  <2>1. CASE at' = "record"
    BY <1>1, <1>2, <2>1 DEF Parsed, Parsing
  <2>2. CASE at' = "job" /\ (parsed.has_tcp \/ parsed.has_udp)
    BY <1>1, <1>2, <1>3, <2>2 DEF Parsed
  <2> QED
    BY <2>1, <2>2 DEF ParsePayload, Skip
<1> QED
  BY <1>1, <1>3, <1>4, <1>5, NoFrameRead, ParseStep DEF Parsing

-----------------------------------------------------------------------------
\* createPacketJob finds the same two bytes the parser found, so the same payload.
LEMMA CreatePacketJobStep == Inv /\ CreatePacketJob => Inv'
<1> SUFFICES ASSUME Inv, CreatePacketJob PROVE Inv'
  OBVIOUS
<1>1. /\ at = "job" /\ at \in Parsing /\ at' \in {"inspect", "write"} /\ len \in Nat /\ offset \in Nat
      /\ offset' = 0 /\ UNCHANGED <<header, len, limit, size, name, out>>
      /\ UNCHANGED <<parsed, ports, payload, lengths>>
  BY DEF CreatePacketJob, Inv, TypeOK, Parsing, packet
<1>2. /\ lengths.ihl \in Nat /\ lengths.data_offset \in Nat /\ lengths.transport \in Nat
      /\ payload.length \in Nat /\ payload.offset \in Nat
  BY DEF Inv, TypeOK, TwoLengths, HeaderWords, Payload
<1>3. /\ parsed.has_tcp \/ parsed.has_udp
      /\ parsed.has_tcp => /\ lengths.transport = 14 + lengths.ihl * 4
                           /\ lengths.data_offset >= 5
                           /\ offset = lengths.transport + lengths.data_offset * 4
      /\ parsed.has_udp /\ ~parsed.has_tcp => offset = 14 + lengths.ihl * 4 + UDP_HEADER_LEN
      /\ offset <= len /\ name = NoName
      /\ payload.length = len - offset
      /\ payload.length > 0 => payload.offset = offset
  BY <1>1 DEF Inv, Parsed, Parsing
<1> DEFINE transport == 14 + lengths.ihl * 4
<1>4. PICK ihl \in Nibbles, d \in Nibbles :
        LET t     == 14 + ihl * 4
            start == IF JobHeaderFits(t) THEN t + JobHeaderLength(d) ELSE 0
        IN  /\ ihl = lengths.ihl
            /\ parsed.has_tcp /\ t = lengths.transport => d = lengths.data_offset
            /\ IF len > 14
               THEN /\ job' = [transport_offset |-> t, payload_offset |-> start,
                               payload_length |-> IF start < len THEN len - start ELSE 0]
                    /\ IF parsed.has_tcp /\ JobHeaderFits(t)
                       THEN Reads(14, t + 13) ELSE Reads(14, 15)
               ELSE UNCHANGED <<job, read>>
  BY DEF CreatePacketJob
<1>5. parsed.has_tcp => d = lengths.data_offset
  BY <1>3, <1>4
<1>6. len > 14 /\ JobHeaderFits(transport) /\ transport \in Nat
  BY <1>1, <1>2, <1>3 DEF JobHeaderFits, UDP_HEADER_LEN
<1>7. transport + JobHeaderLength(d) = offset
  BY <1>1, <1>2, <1>3, <1>5 DEF JobHeaderLength
<1>8. /\ job' = [transport_offset |-> transport, payload_offset |-> offset,
                 payload_length |-> IF offset < len THEN len - offset ELSE 0]
      /\ (Reads(14, transport + 13) /\ parsed.has_tcp) \/ Reads(14, 15)
  BY <1>4, <1>6, <1>7
<1>9. read' \in Interval /\ ReadsInside'
  <2>1. CASE Reads(14, transport + 13) /\ parsed.has_tcp
    <3>1. transport + 13 <= len
      BY <1>6, <2>1 DEF JobHeaderFits
    <3> QED
      BY <1>1, <1>2, <1>6, <2>1, <3>1, FrameRead
  <2>2. CASE Reads(14, 15)
    BY <1>1, <1>6, <2>2, FrameRead
  <2> QED
    BY <1>8, <2>1, <2>2
<1>10. /\ job' \in PacketJob /\ job'.payload_offset = offset
       /\ job'.payload_length = len - offset /\ job'.payload_length \in Nat
  BY <1>1, <1>3, <1>6, <1>8 DEF PacketJob
<1>11. TypeOK'
  BY <1>1, <1>9, <1>10 DEF Inv, TypeOK, Stages, Searching
<1>12. OffsetsAgree'
  BY <1>1, <1>3, <1>10 DEF OffsetsAgree
<1>13. NameInPayload' /\ Parsed'
  BY <1>1, <1>3 DEF NameInPayload, NoName, Parsed, Parsing
<1>14. Searched' /\ Secured'
  BY <1>1, <1>3, <1>10 DEF Searched, Secured, NoName, Searching
<1> QED
  BY <1>9, <1>11, <1>12, <1>13, <1>14 DEF Inv

\* The steps of the reader and of the output start with no packet, or leave none behind.
LEMMA RecordStep ==
  ASSUME Inv, header' \in GlobalHeader, out' \in PacketHeader, len' \in Nat,
         at' \in {"open", "record", "closed", "ethernet"},
         parsed' \in ParsedPacket, ports' \in TwoPorts, payload' \in Payload, lengths' \in TwoLengths,
         job' \in PacketJob, name' = NoName,
         at' = "ethernet" => parsed' = NoProtocols /\ payload' = NoPayload,
         offset' \in Nat, limit' \in Nat, size' \in Nat, read' \in Interval, ReadsInside'
  PROVE  Inv'
<1>1. TypeOK'
  BY DEF TypeOK, Stages, Parsing, HostName, NoName
<1>2. OffsetsAgree' /\ NameInPayload'
  BY DEF OffsetsAgree, NameInPayload, NoName, Searching
<1>3. Parsed'
  BY DEF Parsed
<1>4. Searched' /\ Secured'
  BY DEF Searched, Secured, Searching
<1> QED
  BY <1>1, <1>2, <1>3, <1>4 DEF Inv

LEMMA NothingParsedType ==
  NothingParsed => /\ parsed' \in ParsedPacket /\ ports' \in TwoPorts /\ payload' \in Payload
                   /\ lengths' \in TwoLengths /\ parsed' = NoProtocols /\ payload' = NoPayload
BY DEF NothingParsed, ParsedPacket, TwoPorts, Payload, TwoLengths, HeaderWords,
       NoProtocols, NoPorts, NoPayload, NoLengths

LEMMA OpenStep == Inv /\ Open => Inv'
<1> SUFFICES ASSUME Inv, Open PROVE Inv'
  OBVIOUS
<1>1. /\ at = "open" /\ at' \in {"record", "closed"}
      /\ UNCHANGED <<len, job, offset, limit, size, read, name, out>>
      /\ UNCHANGED <<parsed, ports, payload, lengths>>
  BY DEF Open, packet
<1>2. name' = NoName
  BY <1>1 DEF Inv, Parsed
<1>3. header' \in GlobalHeader
  <2>1. CASE UNCHANGED header
    BY <2>1 DEF Inv, TypeOK
  <2>2. CASE \E native \in BOOLEAN, s \in Snaplens :
               header' = [magic |-> native, fields |-> SwappedIfNeeded(native, native), snaplen |-> s]
    <3>1. PICK native \in BOOLEAN, s \in Snaplens :
            header' = [magic |-> native, fields |-> SwappedIfNeeded(native, native), snaplen |-> s]
      BY <2>2
    <3>2. s \in Nat /\ SwappedIfNeeded(native, native) = TRUE
      BY SizesAssumption DEF SwappedIfNeeded
    <3> QED
      BY <3>1, <3>2 DEF GlobalHeader
  <2> QED
    BY <2>1, <2>2 DEF Open
<1>4. ReadsInside'
  BY <1>1 DEF Inv, ReadsInside
<1> QED
  BY <1>1, <1>2, <1>3, <1>4, RecordStep DEF Inv, TypeOK

LEMMA ReadNextPacketStep == Inv /\ ReadNextPacket => Inv'
<1> SUFFICES ASSUME Inv, ReadNextPacket PROVE Inv'
  OBVIOUS
<1>1. /\ at = "record" /\ at' \in {"closed", "ethernet"} /\ len' \in Nat
      /\ NothingParsed /\ offset' = 0 /\ out' = NoOutput /\ Reads(0, 0)
      /\ UNCHANGED <<header, job, limit, size, name>>
  BY SizesAssumption DEF ReadNextPacket, Inv, TypeOK
<1>2. name' = NoName /\ out' \in PacketHeader
  BY <1>1 DEF Inv, Parsed, NoOutput, PacketHeader
<1>3. read' \in Interval /\ ReadsInside'
  BY <1>1 DEF Reads, Interval, ReadsInside
<1> QED
  BY <1>1, <1>2, <1>3, NothingParsedType, RecordStep DEF Inv, TypeOK

LEMMA WriteOutputPacketStep == Inv /\ WriteOutputPacket => Inv'
<1> SUFFICES ASSUME Inv, WriteOutputPacket PROVE Inv'
  OBVIOUS
<1>1. /\ at' = "record" /\ len' = 0 /\ NothingParsed /\ job' = NoJob /\ name' = NoName
      /\ Reads(0, 0) /\ UNCHANGED <<header, offset, limit, size>>
      /\ out' = OutputHeader \/ UNCHANGED out
  BY DEF WriteOutputPacket
<1>2. job' \in PacketJob /\ len \in Nat /\ out \in PacketHeader
  BY <1>1 DEF NoJob, PacketJob, Inv, TypeOK
<1>4. OutputHeader \in PacketHeader
  BY <1>2 DEF OutputHeader, PacketHeader
<1>3. read' \in Interval /\ ReadsInside'
  BY <1>1 DEF Reads, Interval, ReadsInside
<1> QED
  BY <1>1, <1>2, <1>3, <1>4, NothingParsedType, RecordStep DEF Inv, TypeOK

LEMMA InitInv == Init => Inv
<1> SUFFICES ASSUME Init PROVE Inv
  OBVIOUS
<1>1. TypeOK
  BY DEF Init, TypeOK, Stages, GlobalHeader, ParsedPacket, TwoPorts, Payload, TwoLengths, PacketJob,
         Interval, HostName, HeaderWords, PacketHeader, NoJob, NoProtocols, NoPorts, NoPayload, NoLengths, NoName, NoOutput
<1>2. ReadsInside /\ OffsetsAgree /\ NameInPayload
  BY DEF Init, ReadsInside, OffsetsAgree, NameInPayload, NoName, Searching
<1>3. Parsed /\ Searched /\ Secured
  BY DEF Init, Parsed, Searched, Secured, Parsing, Searching
<1> QED
  BY <1>1, <1>2, <1>3 DEF Inv

LEMMA NextInv == Inv /\ [Next]_vars => Inv'
<1> SUFFICES ASSUME Inv, [Next]_vars PROVE Inv'
  OBVIOUS
<1>1. CASE UNCHANGED vars
  BY <1>1 DEF vars, packet, Inv, TypeOK, ReadsInside, OffsetsAgree, NameInPayload, Parsed,
              Searched, Secured
<1>2. CASE Terminating
  BY <1>1, <1>2 DEF Terminating
<1>3. CASE \/ SkipVector("session", 1, Bytes, "ciphers")
           \/ SkipVector("ciphers", 2, Words, "compression")
           \/ SkipVector("compression", 1, Bytes, "extensions")
  BY <1>3, SkipVectorStep, FieldsAssumption DEF Searching
<1> QED
  BY <1>1, <1>2, <1>3, OpenStep, ReadNextPacketStep, ParseEthernetStep, ParseIPv4Step, ParseTCPStep,
     ParseUDPStep, ParseOtherStep, ParsePayloadStep, CreatePacketJobStep, InspectPayloadStep,
     IsTLSClientHelloStep, ExtensionsStep, ExtensionStep, ServerNameStep, IsHTTPRequestStep,
     HostStep, IsDNSQueryStep, LabelStep, WriteOutputPacketStep
     DEF Next

LEMMA Invariance == Spec => []Inv
BY InitInv, NextInv, PTL DEF Spec

\* Every variable has its type, whatever lengths the packets state.
THEOREM TypeCorrect == Spec => []TypeOK
BY Invariance, PTL DEF Inv

\* No function reads past the end of the packet it was given (packet_parser.cpp, sni_extractor.cpp).
THEOREM ReadsStayInside == Spec => []ReadsInside
BY Invariance, PTL DEF Inv

\* createPacketJob, which trusts the header lengths the parser has checked, finds the same payload.
THEOREM JobHasTheParsersPayload == Spec => []OffsetsAgree
BY Invariance, PTL DEF Inv

\* A name that reaches the rules was read from the payload of its own packet.
THEOREM NamesComeFromThePayload == Spec => []NameInPayload
BY Invariance, PTL DEF Inv

-----------------------------------------------------------------------------
\* The headers the engine holds are in this machine's order, and a packet it holds or has written
\* is no longer than snaplen.
Capture ==
  /\ out.fields = TRUE /\ out.incl_len \in Nat
  /\ at = "open" => out.incl_len = 0
  /\ at \notin {"open", "closed"} => header.fields = TRUE /\ out.incl_len <= header.snaplen
  /\ at \in Parsing \cup Searching \cup {"write"} => len <= header.snaplen

\* Between the reader and the output nothing changes the headers or the packet.
Walk == Parsing \cup Searching

LEMMA WalkKeeps ==
  ASSUME Capture, at \in Walk, at' \in Walk \cup {"record", "write"}, UNCHANGED <<header, len, out>>
  PROVE  Capture'
BY DEF Capture, Walk, Parsing, Searching

LEMMA ParsingWalks ==
  ASSUME \/ ParseEthernet \/ ParseIPv4 \/ ParseTCP \/ ParseUDP \/ ParseOther \/ ParsePayload
         \/ CreatePacketJob
  PROVE  at \in Walk /\ at' \in Walk \cup {"record", "write"} /\ UNCHANGED <<header, len, out>>
<1>1. CASE ParseEthernet
  BY <1>1 DEF ParseEthernet, Walk, Parsing, Skip
<1>2. CASE ParseIPv4
  BY <1>2 DEF ParseIPv4, Walk, Parsing, Skip
<1>3. CASE ParseTCP
  BY <1>3 DEF ParseTCP, Walk, Parsing, Skip
<1>4. CASE ParseUDP
  BY <1>4 DEF ParseUDP, Walk, Parsing, Skip
<1>5. CASE ParseOther \/ ParsePayload
  BY <1>5 DEF ParseOther, ParsePayload, Walk, Parsing, Skip
<1>6. CASE CreatePacketJob
  BY <1>6 DEF CreatePacketJob, Walk, Parsing, Searching
<1> QED
  BY <1>1, <1>2, <1>3, <1>4, <1>5, <1>6

LEMMA SearchingWalks ==
  ASSUME \/ InspectPayload \/ IsTLSClientHello
         \/ SkipVector("session", 1, Bytes, "ciphers")
         \/ SkipVector("ciphers", 2, Words, "compression")
         \/ SkipVector("compression", 1, Bytes, "extensions")
         \/ Extensions \/ Extension \/ ServerName \/ IsHTTPRequest \/ Host \/ IsDNSQuery \/ Label
  PROVE  at \in Walk /\ at' \in Walk \cup {"record", "write"} /\ UNCHANGED <<header, len, out>>
<1> USE DEF InPayload, Walk, Searching, Leave, TryHTTP, TryDNS, GiveUp, Found
<1>1. CASE InspectPayload \/ IsTLSClientHello
  BY <1>1 DEF InspectPayload, IsTLSClientHello
<1>2. CASE \/ SkipVector("session", 1, Bytes, "ciphers")
           \/ SkipVector("ciphers", 2, Words, "compression")
           \/ SkipVector("compression", 1, Bytes, "extensions")
  BY <1>2 DEF SkipVector
<1>3. CASE Extensions \/ Extension
  BY <1>3 DEF Extensions, Extension
<1>4. CASE ServerName \/ IsHTTPRequest
  BY <1>4 DEF ServerName, IsHTTPRequest
<1>5. CASE Host
  BY <1>5 DEF Host, NextPosition
<1>6. CASE IsDNSQuery \/ Label
  BY <1>6 DEF IsDNSQuery, Label, EndOfLabels
<1> QED
  BY <1>1, <1>2, <1>3, <1>4, <1>5, <1>6

LEMMA CaptureNext == Inv /\ Inv' /\ Capture /\ [Next]_vars => Capture'
<1> SUFFICES ASSUME Inv, Inv', Capture, [Next]_vars PROVE Capture'
  OBVIOUS
<1>1. CASE UNCHANGED vars \/ Terminating
  BY <1>1 DEF vars, Terminating, Capture
<1>2. CASE Open
  <2>1. /\ at = "open" /\ at' \in {"record", "closed"} /\ UNCHANGED <<out, len>>
        /\ UNCHANGED <<parsed, ports, payload, lengths>>
    BY <1>2 DEF Open, packet
  <2>2. CASE at' = "closed"
    BY <2>1, <2>2 DEF Capture, Parsing, Searching
  <2>3. CASE at' = "record"
    <3>1. PICK native \in BOOLEAN, s \in Snaplens :
            header' = [magic |-> native, fields |-> SwappedIfNeeded(native, native), snaplen |-> s]
      BY <1>2, <2>3 DEF Open
    <3>2. header'.fields = TRUE /\ header'.snaplen \in Nat
      BY <3>1, SizesAssumption DEF SwappedIfNeeded
    <3> QED
      BY <2>1, <2>3, <3>2 DEF Capture, Parsing, Searching
  <2> QED
    BY <2>1, <2>2, <2>3
<1>3. CASE ReadNextPacket
  <2>1. /\ at = "record" /\ at' \in {"closed", "ethernet"} /\ out' = NoOutput /\ header' = header
        /\ at' = "ethernet" => \E n \in Lengths : ~TooLong(n) /\ len' = n
    BY <1>3 DEF ReadNextPacket
  <2>2. header.fields = TRUE /\ header.snaplen \in Nat
    BY <2>1 DEF Capture, Inv, TypeOK, GlobalHeader
  <2>3. out'.fields = TRUE /\ out'.incl_len = 0
    BY <2>1 DEF NoOutput
  <2>4. at' = "ethernet" => len' <= header'.snaplen
    BY <2>1, <2>2, SizesAssumption DEF TooLong
  <2> QED
    BY <2>1, <2>2, <2>3, <2>4 DEF Capture, Parsing, Searching
<1>4. CASE WriteOutputPacket
  <2>1. /\ at = "write" /\ at' = "record" /\ header' = header
        /\ out' = OutputHeader \/ out' = out
    BY <1>4 DEF WriteOutputPacket
  <2>2. len <= header.snaplen /\ len \in Nat
    BY <2>1 DEF Capture, Inv, TypeOK
  <2>3. out'.fields = TRUE /\ out'.incl_len \in Nat /\ out'.incl_len <= header.snaplen
    BY <2>1, <2>2 DEF OutputHeader, Capture
  <2> QED
    BY <2>1, <2>3 DEF Capture, Parsing, Searching
<1>5. CASE \/ ParseEthernet \/ ParseIPv4 \/ ParseTCP \/ ParseUDP \/ ParseOther \/ ParsePayload
           \/ CreatePacketJob
  BY <1>5, ParsingWalks, WalkKeeps
<1>6. CASE \/ InspectPayload \/ IsTLSClientHello
           \/ SkipVector("session", 1, Bytes, "ciphers")
           \/ SkipVector("ciphers", 2, Words, "compression")
           \/ SkipVector("compression", 1, Bytes, "extensions")
           \/ Extensions \/ Extension \/ ServerName \/ IsHTTPRequest \/ Host \/ IsDNSQuery \/ Label
  BY <1>6, SearchingWalks, WalkKeeps
<1> QED
  BY <1>1, <1>2, <1>3, <1>4, <1>5, <1>6 DEF Next

\* NativeReadsBack: the output made of a capture in this machine's byte order can be read back,
\* whatever lengths its records have (readNextPacket, writeOutputHeader, writeOutputPacket).
THEOREM NativeOutputReadsBack == Spec => []NativeReadsBack
<1>1. Init => Capture
  BY DEF Init, Capture, NoOutput, Parsing, Searching
<1>2. Capture => NativeReadsBack
  BY DEF Capture, NativeReadsBack, ReadsBack, SwappedIfNeeded
<1> QED
  BY <1>1, <1>2, CaptureNext, Invariance, PTL DEF Spec

-----------------------------------------------------------------------------
\* Each round of a loop over the payload leaves at least one more byte behind it: no length a
\* packet states, zero included, keeps an extractor where it is (sni_extractor.cpp:92, 168, 233).
LoopsAdvance == at \in {"extension", "host", "label"} /\ at' = at => offset' > offset

THEOREM EveryRoundAdvances == Spec => [][LoopsAdvance]_vars
<1>1. Inv /\ [Next]_vars => [LoopsAdvance]_vars
  <2> SUFFICES ASSUME Inv, Next, at \in {"extension", "host", "label"}, at' = at
               PROVE  offset' > offset
    BY DEF LoopsAdvance
  <2>1. offset \in Nat
    BY DEF Inv, TypeOK
  <2>2. CASE Extension
    BY <2>1, <2>2, FieldsAssumption DEF Extension, TryHTTP, Leave
  <2>3. CASE Host
    BY <2>1, <2>3 DEF Host, TryDNS, Leave, NextPosition, Found
  <2>4. CASE Label
    BY <2>1, <2>4 DEF Label, EndOfLabels, GiveUp, Found, Leave
  <2> QED
    BY <2>2, <2>3, <2>4 DEF Next, Open, ReadNextPacket, ParseEthernet, ParseIPv4, ParseTCP, ParseUDP,
       ParseOther, ParsePayload, CreatePacketJob, InspectPayload, IsTLSClientHello, SkipVector,
       Extensions, ServerName, IsHTTPRequest, IsDNSQuery, WriteOutputPacket, Terminating
<1> QED
  BY <1>1, Invariance, PTL DEF Spec
=============================================================================
