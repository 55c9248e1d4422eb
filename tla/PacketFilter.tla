---------------------------- MODULE PacketFilter ----------------------------
(***************************************************************************)
(* What the engine promises about a capture, whatever its threads do:       *)
(* records are taken in order, the packets of one flow get their verdicts   *)
(* in the order they were taken, and those forwarded are written in that    *)
(* order too, each once.  Nothing orders packets of different flows.        *)
(***************************************************************************)
EXTENDS Naturals, Sequences

CONSTANTS NumPackets, NoFlow, FlowOf

Packets == 1..NumPackets

VARIABLES
  taken,    \* how many records have been taken from the input
  verdict,  \* "none", "FORWARD" or "DROP" for each packet
  out       \* the packets written

vars == <<taken, verdict, out>>

Written == {out[i] : i \in DOMAIN out}

\* Packets of the same flow that came before p.
Earlier(p) == {q \in 1..(p - 1) : FlowOf[q] = FlowOf[p]}

Init ==
  /\ taken = 0
  /\ verdict = [p \in Packets |-> "none"]
  /\ out = <<>>

Take ==
  /\ taken < NumPackets
  /\ taken' = taken + 1
  /\ UNCHANGED <<verdict, out>>

Decide(p) ==
  /\ p <= taken /\ FlowOf[p] # NoFlow
  /\ verdict[p] = "none"
  /\ \A q \in Earlier(p) : verdict[q] # "none"
  /\ \E v \in {"FORWARD", "DROP"} : verdict' = [verdict EXCEPT ![p] = v]
  /\ UNCHANGED <<taken, out>>

Write(p) ==
  /\ verdict[p] = "FORWARD" /\ p \notin Written
  /\ \A q \in Earlier(p) : verdict[q] = "FORWARD" => q \in Written
  /\ out' = Append(out, p)
  /\ UNCHANGED <<taken, verdict>>

Next == Take \/ \E p \in Packets : Decide(p) \/ Write(p)

Spec == Init /\ [][Next]_vars
=============================================================================
