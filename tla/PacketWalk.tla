----------------------------- MODULE PacketWalk -----------------------------
(***************************************************************************)
(* The way of one packet through its own bytes: PcapReader reads a record   *)
(* (pcap_reader.cpp), PacketParser finds the payload (packet_parser.cpp),   *)
(* createPacketJob computes its place again (dpi_engine.cpp), inspectPayload*)
(* looks for a host name in it with SNIExtractor, HTTPHostExtractor and     *)
(* DNSExtractor (sni_extractor.cpp), and the packet is written back.  A     *)
(* byte is what reading it decides: the length fields are any of Bytes,     *)
(* Words and Nibbles, a comparison with fixed bytes may go either way.      *)
(* Positions of the parser count from the start of the frame, those of the  *)
(* extractors from the start of the payload.                                *)
(***************************************************************************)
EXTENDS Integers

CONSTANTS
  Lengths,   \* incl_len of the records of a capture
  Snaplens,  \* snaplen of its global header
  Nibbles,   \* values of the four-bit lengths: IHL, TCP data offset
  Bytes,     \* values of the one-byte lengths: session id, compression methods, DNS label
  Words,     \* values of the two-byte lengths: cipher suites, extensions, names
  Ports,     \* port numbers, with those the code singles out
  MaxBlanks, \* bound: blanks before the value of a Host header
  MaxLine    \* bound: length of that value

ASSUME SizesAssumption == Lengths \subseteq Nat /\ Snaplens \subseteq Nat
ASSUME FieldsAssumption ==
  Nibbles \subseteq 0..15 /\ Bytes \subseteq Nat /\ Words \subseteq Nat /\ Ports \subseteq Nat
ASSUME BoundsAssumption == MaxBlanks \in Nat /\ MaxLine \in Nat

VARIABLES
  at,       \* the function at work, "record" between two packets
  header,   \* global_header_, and whether its fields are in the order of this machine
  len,      \* size of the packet's data
  parsed,   \* ParsedPacket: the protocols found
  ports,    \* ParsedPacket: src_port and dst_port
  payload,  \* ParsedPacket: payload_offset and payload_length
  lengths,  \* history: the header lengths the parser read, and where the second header is
  job,      \* PacketJob
  offset,   \* the position a function has reached
  limit,    \* extensions_end
  size,     \* extension_length, or the length of the DNS name so far
  read,     \* history: the bytes read last, from lo up to hi, in the frame
  name,     \* history: where the name found lies in the payload, and its length
  out       \* the packet header written last, and whether it is in this machine's order

packet == <<parsed, ports, payload, lengths>>
vars == <<at, header, len, packet, job, offset, limit, size, read, name, out>>

ETH_HEADER_LEN     == 14
MIN_IP_HEADER_LEN  == 20
MIN_TCP_HEADER_LEN == 20
UDP_HEADER_LEN     == 8
TCP == 6
UDP == 17

NoName      == [lo |-> 0, hi |-> 0, size |-> 0, found |-> FALSE]
NoJob       == [transport_offset |-> 0, payload_offset |-> 0, payload_length |-> 0]
NoProtocols == [protocol |-> 0, has_ip |-> FALSE, has_tcp |-> FALSE, has_udp |-> FALSE]
NoPorts     == [src |-> 0, dst |-> 0]
NoPayload   == [offset |-> 0, length |-> 0]
NoLengths   == [ihl |-> 0, data_offset |-> 0, transport |-> 0]
NoOutput    == [fields |-> TRUE, incl_len |-> 0, orig_len |-> 0]

Parsing   == {"ethernet", "ipv4", "transport", "payload", "job"}
Searching == {"inspect", "hello", "session", "ciphers", "compression", "extensions", "extension",
              "server_name", "http", "host", "dns", "label"}

Stages == {"open", "record", "write", "closed"} \cup Parsing \cup Searching

GlobalHeader == [magic : BOOLEAN, fields : BOOLEAN, snaplen : Nat]
ParsedPacket == [protocol : Nat, has_ip : BOOLEAN, has_tcp : BOOLEAN, has_udp : BOOLEAN]
TwoPorts     == [src : Nat, dst : Nat]
Payload      == [offset : Nat, length : Nat]
HeaderWords  == {0} \cup 5..15    \* 0 until the header is parsed
TwoLengths   == [ihl : HeaderWords, data_offset : HeaderWords, transport : Nat]
PacketJob    == [transport_offset : Nat, payload_offset : Nat, payload_length : Nat]
Interval     == [lo : Nat, hi : Nat]
HostName     == [lo : Nat, hi : Nat, size : Nat, found : BOOLEAN]
PacketHeader == [fields : BOOLEAN, incl_len : Nat, orig_len : Nat]

TypeOK ==
  /\ at \in Stages
  /\ header \in GlobalHeader /\ job \in PacketJob
  /\ parsed \in ParsedPacket /\ ports \in TwoPorts /\ payload \in Payload /\ lengths \in TwoLengths
  /\ len \in Nat /\ offset \in Nat /\ limit \in Nat /\ size \in Nat
  /\ read \in Interval /\ name \in HostName /\ out \in PacketHeader

Init ==
  /\ at = "open"
  /\ header = [magic |-> TRUE, fields |-> TRUE, snaplen |-> 0]
  /\ len = 0 /\ job = NoJob
  /\ parsed = NoProtocols /\ ports = NoPorts /\ payload = NoPayload /\ lengths = NoLengths
  /\ offset = 0 /\ limit = 0 /\ size = 0
  /\ read = [lo |-> 0, hi |-> 0] /\ name = NoName
  /\ out = NoOutput

NothingParsed ==
  parsed' = NoProtocols /\ ports' = NoPorts /\ payload' = NoPayload /\ lengths' = NoLengths

\* Reads the frame from lo up to hi; the payload from lo up to hi.
Reads(lo, hi)        == read' = [lo |-> lo, hi |-> hi]
ReadsPayload(lo, hi) == Reads(job.payload_offset + lo, job.payload_offset + hi)

(***************************************************************************)
(* The capture file.  A field is in the order of this machine or in the     *)
(* other one; the magic number tells which the writer of the file used.     *)
(***************************************************************************)

\* open() leaves the magic number as it is and swaps the fields it uses: from then on they
\* are in this machine's order, whatever the order of the magic number.
SwappedIfNeeded(magic, fields) == IF magic THEN fields ELSE ~fields

Open ==
  /\ at = "open"
  /\ \/ at' = "closed" /\ UNCHANGED header          \* no such file, short header, bad magic number
     \/ /\ at' = "record"
        /\ \E native \in BOOLEAN, s \in Snaplens :
             header' = [magic |-> native, fields |-> SwappedIfNeeded(native, native), snaplen |-> s]
  /\ UNCHANGED <<len, packet, job, offset, limit, size, read, name, out>>

\* Wrong: the length is not checked against snaplen.
MutTooLong(incl_len) == incl_len > 65535

TooLong(incl_len) == incl_len > header.snaplen \/ incl_len > 65535

ReadNextPacket ==
  /\ at = "record"
  /\ \/ at' = "closed" /\ UNCHANGED len   \* end of file, or its last record is cut short
     \/ \E n \in Lengths :
          \/ TooLong(n) /\ at' = "closed" /\ UNCHANGED len
          \/ /\ ~TooLong(n)
             /\ at' = "ethernet" /\ len' = n
  /\ NothingParsed /\ offset' = 0 /\ out' = NoOutput /\ Reads(0, 0)
  /\ UNCHANGED <<header, job, limit, size, name>>

(***************************************************************************)
(* PacketParser::parse.  A frame that is too short, is not IPv4 over        *)
(* Ethernet or carries neither TCP nor UDP is skipped by the reader.        *)
(***************************************************************************)
Skip == at' = "record"

ParseEthernet ==
  /\ at = "ethernet"
  /\ \/ len < ETH_HEADER_LEN /\ Skip /\ UNCHANGED <<read, offset>>
     \/ /\ len >= ETH_HEADER_LEN
        /\ Reads(0, ETH_HEADER_LEN)
        /\ offset' = ETH_HEADER_LEN
        /\ at' \in {"ipv4", "payload"}              \* ether_type is IPv4, or another one
  /\ UNCHANGED <<header, len, packet, job, limit, size, name, out>>

\* Wrong: a header shorter than its fixed part is accepted.
MutRoomForHeader(min, length) == len >= offset + length

\* Is the packet long enough for a header of length bytes, which is at least min?
RoomForHeader(min, length) == length >= min /\ len >= offset + length

ParseIPv4 ==
  /\ at = "ipv4"
  /\ \/ len < offset + MIN_IP_HEADER_LEN /\ Skip /\ UNCHANGED <<read, offset, packet>>
     \/ /\ len >= offset + MIN_IP_HEADER_LEN
        /\ Reads(offset, offset + MIN_IP_HEADER_LEN)
        /\ \/ Skip /\ UNCHANGED <<offset, packet>>  \* the version is not 4
           \/ \E ihl \in Nibbles, protocol \in {TCP, UDP, 1} :
                \/ ~RoomForHeader(MIN_IP_HEADER_LEN, ihl * 4) /\ Skip /\ UNCHANGED <<offset, packet>>
                \/ /\ RoomForHeader(MIN_IP_HEADER_LEN, ihl * 4)
                   /\ parsed' = [parsed EXCEPT !.protocol = protocol, !.has_ip = TRUE]
                   /\ lengths' = [lengths EXCEPT !.ihl = ihl]
                   /\ UNCHANGED <<ports, payload>>
                   /\ offset' = offset + ihl * 4
                   /\ at' = "transport"
  /\ UNCHANGED <<header, len, job, limit, size, name, out>>

ParseTCP ==
  /\ at = "transport" /\ parsed.protocol = TCP
  /\ \/ len < offset + MIN_TCP_HEADER_LEN /\ Skip /\ UNCHANGED <<read, offset, packet>>
     \/ /\ len >= offset + MIN_TCP_HEADER_LEN
        /\ Reads(offset, offset + 14)
        /\ \E d \in Nibbles, src \in Ports, dst \in Ports :
             \/ ~RoomForHeader(MIN_TCP_HEADER_LEN, d * 4) /\ Skip /\ UNCHANGED <<offset, packet>>
             \/ /\ RoomForHeader(MIN_TCP_HEADER_LEN, d * 4)
                /\ parsed' = [parsed EXCEPT !.has_tcp = TRUE]
                /\ ports' = [src |-> src, dst |-> dst]
                /\ lengths' = [lengths EXCEPT !.data_offset = d, !.transport = offset]
                /\ UNCHANGED payload
                /\ offset' = offset + d * 4
                /\ at' = "payload"
  /\ UNCHANGED <<header, len, job, limit, size, name, out>>

ParseUDP ==
  /\ at = "transport" /\ parsed.protocol = UDP
  /\ \/ len < offset + UDP_HEADER_LEN /\ Skip /\ UNCHANGED <<read, offset, packet>>
     \/ /\ len >= offset + UDP_HEADER_LEN
        /\ Reads(offset, offset + 4)
        /\ \E src \in Ports, dst \in Ports : ports' = [src |-> src, dst |-> dst]
        /\ parsed' = [parsed EXCEPT !.has_udp = TRUE]
        /\ lengths' = [lengths EXCEPT !.transport = offset]
        /\ UNCHANGED payload
        /\ offset' = offset + UDP_HEADER_LEN
        /\ at' = "payload"
  /\ UNCHANGED <<header, len, job, limit, size, name, out>>

ParseOther ==
  /\ at = "transport" /\ parsed.protocol \notin {TCP, UDP}
  /\ at' = "payload"
  /\ UNCHANGED <<header, len, packet, job, offset, limit, size, read, name, out>>

\* The end of parse(), and what the reader makes of the result.
ParsePayload ==
  /\ at = "payload"
  /\ payload' = IF offset < len THEN [offset |-> offset, length |-> len - offset] ELSE payload
  /\ IF parsed.has_ip /\ (parsed.has_tcp \/ parsed.has_udp) THEN at' = "job" ELSE Skip
  /\ UNCHANGED <<header, len, parsed, ports, lengths, job, offset, limit, size, read, name, out>>

(***************************************************************************)
(* createPacketJob reads IHL and data offset once more, at the positions it *)
(* computes itself: a byte the parser has read has the value it had then.   *)
(***************************************************************************)

\* Wrong: the TCP header is taken to have no options.
MutJobHeaderLength(d) == IF parsed.has_tcp THEN 20 ELSE UDP_HEADER_LEN

JobHeaderLength(d) == IF parsed.has_tcp THEN d * 4 ELSE UDP_HEADER_LEN

JobHeaderFits(transport) ==
  len >= transport + (IF parsed.has_tcp THEN 13 ELSE UDP_HEADER_LEN)

CreatePacketJob ==
  /\ at = "job"
  /\ \E ihl \in Nibbles, d \in Nibbles :
       LET transport == 14 + ihl * 4
           start     == IF JobHeaderFits(transport)
                        THEN transport + JobHeaderLength(d) ELSE 0
       IN  /\ ihl = lengths.ihl
           /\ parsed.has_tcp /\ transport = lengths.transport => d = lengths.data_offset
           /\ IF len > 14
              THEN /\ job' = [transport_offset |-> transport, payload_offset |-> start,
                              payload_length |-> IF start < len THEN len - start ELSE 0]
                   /\ IF parsed.has_tcp /\ JobHeaderFits(transport)
                      THEN Reads(14, transport + 13) ELSE Reads(14, 15)
              ELSE UNCHANGED <<job, read>>
  \* a packet of a connection that is classified or blocked is not inspected
  /\ at' \in {"inspect", "write"}
  /\ offset' = 0
  /\ UNCHANGED <<header, len, packet, limit, size, name, out>>

(***************************************************************************)
(* inspectPayload: TLS, then HTTP, then DNS.                                *)
(***************************************************************************)
InPayload == UNCHANGED <<header, len, packet, job, out>>

\* An extractor returns, and its variables are gone; without a name the next one is tried,
\* after the last one the port decides.
Leave(to) == at' = to /\ offset' = 0 /\ limit' = 0 /\ size' = 0
TryHTTP   == Leave("http") /\ UNCHANGED name
TryDNS    == Leave("dns") /\ UNCHANGED name
GiveUp    == Leave("write") /\ UNCHANGED name
Found(lo, hi, n) ==
  Leave("write") /\ name' = [lo |-> lo, hi |-> hi, size |-> n, found |-> TRUE]

InspectPayload ==
  /\ at = "inspect"
  /\ IF job.payload_length = 0 \/ job.payload_offset >= len
     THEN GiveUp
     ELSE Leave(IF ports.dst = 443 \/ job.payload_length >= 50 THEN "hello" ELSE "http")
          /\ UNCHANGED name
  /\ InPayload /\ UNCHANGED read

IsTLSClientHello ==
  /\ at = "hello"
  /\ \/ job.payload_length < 9 /\ TryHTTP /\ UNCHANGED read
     \/ /\ job.payload_length >= 9
        /\ \/ TryHTTP /\ ReadsPayload(0, 6)              \* not a ClientHello
           \/ \E record_length \in Words :
                /\ record_length <= job.payload_length - 5
                /\ ReadsPayload(0, 9)
                /\ at' = "session" /\ offset' = 5 + 4 + 2 + 32
                /\ UNCHANGED <<limit, size, name>>
  /\ InPayload

\* Wrong: the room for the length itself is not looked at.
MutFits(width) == offset < job.payload_length

\* Is there room at offset for a length of this many bytes?
Fits(width) == offset + width <= job.payload_length

\* A length of the ClientHello and what it counts are passed over.
SkipVector(from, width, values, to) ==
  /\ at = from
  /\ \/ ~Fits(width) /\ TryHTTP /\ UNCHANGED read
     \/ /\ Fits(width)
        /\ ReadsPayload(offset, offset + width)
        /\ \E n \in values : offset' = offset + width + n
        /\ at' = to
        /\ UNCHANGED <<limit, size, name>>
  /\ InPayload

Extensions ==
  /\ at = "extensions"
  /\ \/ ~Fits(2) /\ TryHTTP /\ UNCHANGED read
     \/ /\ Fits(2)
        /\ ReadsPayload(offset, offset + 2)
        /\ \E n \in Words : limit' = IF offset + 2 + n > job.payload_length
                                     THEN job.payload_length ELSE offset + 2 + n
        /\ at' = "extension" /\ offset' = offset + 2
        /\ UNCHANGED <<size, name>>
  /\ InPayload

Extension ==
  /\ at = "extension"
  /\ \/ offset + 4 > limit /\ TryHTTP /\ UNCHANGED read
     \/ /\ offset + 4 <= limit
        /\ ReadsPayload(offset, offset + 4)
        /\ \E n \in Words :
             \/ offset + 4 + n > limit /\ TryHTTP
             \/ /\ offset + 4 + n <= limit
                /\ \/ at' = "server_name" /\ offset' = offset + 4 /\ size' = n
                   \/ offset' = offset + 4 + n /\ UNCHANGED <<at, size>>
                /\ UNCHANGED <<limit, name>>
  /\ InPayload

ServerName ==
  /\ at = "server_name"
  /\ \/ size < 5 /\ TryHTTP /\ UNCHANGED read
     \/ /\ size >= 5
        /\ \/ TryHTTP /\ ReadsPayload(offset, offset + 5)   \* an empty list, not a host name
           \/ \E n \in Words :
                \/ n > size - 5 /\ TryHTTP /\ ReadsPayload(offset, offset + 5)
                \/ /\ n <= size - 5 /\ Found(offset + 5, offset + 5 + n, n)
                   /\ ReadsPayload(offset, offset + 5 + n)
  /\ InPayload

IsHTTPRequest ==
  /\ at = "http"
  /\ \/ (ports.dst # 80 \/ job.payload_length < 4) /\ TryDNS /\ UNCHANGED read
     \/ /\ ports.dst = 80 /\ job.payload_length >= 4
        /\ ReadsPayload(0, 4)
        /\ TryDNS \/ (Leave("host") /\ UNCHANGED name)
  /\ InPayload

\* Positions from p on, at most n further and not past the end of the payload.
UpTo(p, n) == {q \in p .. p + n : q <= job.payload_length}

\* Wrong: the position is not moved on.
MutNextPosition == UNCHANGED <<at, offset, limit, size, name>>

NextPosition == offset' = offset + 1 /\ UNCHANGED <<at, limit, size, name>>

\* One round of the search for "Host:": the value runs from start to the end of its line, the
\* name up to a colon in it.
Host ==
  /\ at = "host"
  /\ \/ offset + 6 >= job.payload_length /\ TryDNS /\ UNCHANGED read
     \/ /\ offset + 6 < job.payload_length
        /\ \/ ReadsPayload(offset, offset + 5) /\ NextPosition
           \/ \E start \in UpTo(offset + 5, MaxBlanks) :
                \E end \in UpTo(start, MaxLine) :
                  /\ ReadsPayload(offset, IF end < job.payload_length THEN end + 1 ELSE end)
                  /\ \/ end = start /\ NextPosition
                     \/ /\ end > start
                        /\ \E colon \in start .. end : Found(start, colon, colon - start)
  /\ InPayload

IsDNSQuery ==
  /\ at = "dns"
  /\ \/ /\ 53 \notin {ports.src, ports.dst} \/ job.payload_length < 12
        /\ GiveUp /\ UNCHANGED read
     \/ /\ 53 \in {ports.src, ports.dst} /\ job.payload_length >= 12
        /\ ReadsPayload(2, 6)
        /\ \/ GiveUp                                        \* a response, or no question
           \/ at' = "label" /\ offset' = 12 /\ UNCHANGED <<limit, size, name>>
  /\ InPayload

\* The loop of extractQuery ends: the labels so far are the name, if there are any.
EndOfLabels == IF size = 0 THEN GiveUp ELSE Found(13, offset, size)

\* Wrong: every label is given its dot, the first one too.
MutJoined(n) == size + 1 + n

\* The length of the name with one more label of n bytes: a dot goes between two labels.
Joined(n) == IF size = 0 THEN n ELSE size + 1 + n

Label ==
  /\ at = "label"
  /\ \/ offset >= job.payload_length /\ EndOfLabels /\ UNCHANGED read
     \/ /\ offset < job.payload_length
        /\ \E n \in Bytes :
             IF n \in 1..63 /\ offset + 1 + n <= job.payload_length
             THEN /\ ReadsPayload(offset, offset + 1 + n)
                  /\ size' = Joined(n)
                  /\ offset' = offset + 1 + n
                  /\ UNCHANGED <<at, limit, name>>
             ELSE \* the end of the name, a compression pointer, a label cut short
                  EndOfLabels /\ ReadsPayload(offset, offset + 1)
  /\ InPayload

(***************************************************************************)
(* The output: a dropped packet is not written, a forwarded one is, under a *)
(* header of its own.                                                       *)
(***************************************************************************)

OutputHeader == [fields |-> TRUE, incl_len |-> len, orig_len |-> len]

WriteOutputPacket ==
  /\ at = "write"
  /\ out' = OutputHeader \/ UNCHANGED out
  /\ at' = "record"
  /\ len' = 0 /\ NothingParsed /\ job' = NoJob /\ name' = NoName /\ Reads(0, 0)
  /\ UNCHANGED <<header, offset, limit, size>>

Terminating == at = "closed" /\ UNCHANGED vars

Next ==
  \/ Open \/ ReadNextPacket
  \/ ParseEthernet \/ ParseIPv4 \/ ParseTCP \/ ParseUDP \/ ParseOther \/ ParsePayload
  \/ CreatePacketJob
  \/ InspectPayload
  \/ IsTLSClientHello
  \/ SkipVector("session", 1, Bytes, "ciphers")
  \/ SkipVector("ciphers", 2, Words, "compression")
  \/ SkipVector("compression", 1, Bytes, "extensions")
  \/ Extensions \/ Extension \/ ServerName
  \/ IsHTTPRequest \/ Host
  \/ IsDNSQuery \/ Label
  \/ WriteOutputPacket
  \/ Terminating

Spec == Init /\ [][Next]_vars

\* The thread that has the packet keeps running.
FairSpec == Spec /\ WF_vars(Next)

-----------------------------------------------------------------------------
\* Every byte read is a byte of the packet: the lengths the packet itself states never take
\* the parser, createPacketJob or an extractor past the end of its data.
ReadsInside == read.lo <= read.hi /\ read.hi <= len

\* createPacketJob finds the payload where the parser found it, although it trusts the two
\* header lengths without the parser's checks (dpi_engine.cpp:329-348, packet_parser.cpp:51).
OffsetsAgree ==
  at \in Searching \cup {"write"} =>
    /\ job.payload_length = payload.length
    /\ job.payload_length > 0 => job.payload_offset = payload.offset

\* A name handed to the rules is made of bytes of the payload, and a DNS name, put together
\* from its labels, is no longer than the bytes it was read from (sni_extractor.cpp:119, 252).
NameInPayload ==
  name.found => /\ name.lo <= name.hi /\ name.hi <= job.payload_length
                /\ name.size <= name.hi - name.lo

\* Reading the output with this same reader: the fields of both headers are understood, and the
\* packet is accepted.
ReadsBack ==
  /\ SwappedIfNeeded(header.magic, header.fields)
  /\ SwappedIfNeeded(header.magic, out.fields)
  /\ out.incl_len <= header.snaplen

\* What is written is a capture, "Output PCAP file for forwarded traffic" (main_dpi.cpp:21): the
\* engine can read it back.  Not so of an input in the other byte order, whose magic number
\* open() keeps while it swaps the fields (pcap_reader.cpp:38-43, dpi_engine.cpp:382).
OutputReadsBack == at \notin {"open", "closed"} => ReadsBack

\* Of an input in this machine's order it can: what is written of a packet that was accepted is
\* accepted again, its length no larger than the snaplen of the header before it.
NativeReadsBack == at \notin {"open", "closed"} /\ header.magic => ReadsBack

\* No packet holds its thread for ever: each loop over the packet's own lengths ends.
WalkEnds == at = "ethernet" ~> at \in {"record", "closed"}
=============================================================================
