---------------------------- MODULE MCPacketWalk ----------------------------
(* Frames that end just before, at and after each header, and values of the  *)
(* length fields that fit, fill and overrun what is left.                    *)
EXTENDS PacketWalk

MCLengths  == {13, 14, 33, 34, 41, 42, 53, 54, 55, 60, 66, 70, 118, 119}
MCSnaplens == {118}
MCNibbles  == {4, 5, 6}
MCBytes    == {0, 1, 3, 63, 64}
MCWords    == {0, 3, 4, 5, 8, 9, 70}
MCPorts    == {53, 80, 443}
=============================================================================
