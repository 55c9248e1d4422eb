----------------------------- MODULE MCFastPath -----------------------------
(* Three flows, two names, four rules and the packets that tell them apart. *)
EXTENDS FastPath, TLC

Https == [src_ip |-> 1, src_port |-> 5000, dst_port |-> 443, protocol |-> 6]
Http  == [src_ip |-> 2, src_port |-> 5000, dst_port |-> 80,  protocol |-> 6]
Dns   == [src_ip |-> 2, src_port |-> 5000, dst_port |-> 53,  protocol |-> 17]

MCFlows == {Https, Http, Dns}
MCNames == {"youtube", "other"}
MCAppOf ==
  [n \in MCNames \cup {""} |->
     CASE n = "youtube" -> "YOUTUBE" [] n = "other" -> "HTTPS" [] OTHER -> "UNKNOWN"]

MCRules == {[type |-> "IP", value |-> 2], [type |-> "PORT", value |-> 80],
            [type |-> "APP", value |-> "YOUTUBE"], [type |-> "DOMAIN", value |-> {"youtube"}]}

Packet(f, flags, kind, name) ==
  [tuple |-> f, flags |-> flags, payload |-> [kind |-> kind, name |-> name]]

\* The handshake, data, names, and every way a connection is closed.
MCInputs ==
  {Packet(Https, flags, "none", "") : flags \in {{"SYN"}, {"SYN", "ACK"}, {"ACK"}, {"RST"}, {"FIN"}}}
  \cup {Packet(Https, {"ACK"}, "tls", n) : n \in MCNames}
  \cup {Packet(Https, flags, "data", "") : flags \in {{"ACK"}, {"FIN", "ACK"}, {}}}
  \cup {Packet(Http, {"ACK"}, "http", n) : n \in {"youtube", ""}}
  \cup {Packet(Http, {}, "data", ""),
        Packet(Dns, {}, "dns", "youtube"), Packet(Dns, {}, "data", "")}
=============================================================================
