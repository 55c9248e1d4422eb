------------------------------ MODULE MCDpiMt ------------------------------
(* Three flows that meet in one LB or one FP, and captures that reorder them. *)
EXTENDS DpiMt, TLC

Flow(ip, src, dst, protocol) ==
  [src_ip |-> ip, src_port |-> src, dst_port |-> dst, protocol |-> protocol]

Https == Flow("laptop", 5000, 443, "TCP")
Http  == Flow("laptop", 5001, 80, "TCP")
Dns   == Flow("phone", 5000, 53, "UDP")
Arp   == Flow("laptop", 5000, 5000, "other")

MCHash == (Https :> 0) @@ (Http :> 1) @@ (Dns :> 2)

Packet(t, length, hello, host) == [tuple |-> t, payload_length |-> length, hello |-> hello, host |-> host]

Syn       == Packet(Https, 0, NoName, NoName)
Hello     == Packet(Https, 60, "youtube.com", NoName)
Data      == Packet(Https, 60, NoName, NoName)
OtherName == Packet(Https, 60, "example.org", NoName)
Get       == Packet(Http, 40, NoName, "example.org")
EmptyHost == Packet(Http, 40, NoName, "")
HttpSyn   == Packet(Http, 0, NoName, NoName)
Query     == Packet(Dns, 30, NoName, NoName)
NotIP     == Packet(Arp, 0, NoName, NoName)

MCNames   == {"youtube.com", "example.org"}
MCAppOf   == ("youtube.com" :> "YouTube") @@ ("example.org" :> "HTTPS") @@ ("" :> "Unknown")
MCPartsOf == ("youtube.com" :> {"tube"}) @@ ("example.org" :> {"example"}) @@ ("" :> {})

MCCaptures == {<<Syn, Query, Hello>>, <<HttpSyn, OtherName, Get>>, <<NotIP, Hello, Data>>,
               <<EmptyHost, Get>>}

\* Also an option without its value and an application nobody knows.
MCOptions ==
  {<<"--block-app", "YouTube", "--block-ip", "phone", "--block-ip">>,
   <<"--block-app", "Gopher", "--block-domain", "example", "--block-app", "HTTP">>}
=============================================================================
