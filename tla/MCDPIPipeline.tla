--------------------------- MODULE MCDPIPipeline ---------------------------
(* Small engines for TLC: flows a..d, their hashes and the input files. *)
EXTENDS DPIPipeline, TLC

CONSTANTS a, b, c, d   \* flows

MCFlows == {a, b, c, d}
MCHash  == (a :> 0) @@ (b :> 1) @@ (c :> 2) @@ (d :> 3)

\* Two packets of one flow, then one of another: a and b are at different LBs (of
\* two) and at different FPs of a group of two.
MCInput3 == <<a, a, b>>
\* The same flows in turn, with a record in between that is not TCP or UDP.
MCInput4 == <<a, b, NoFlow, a>>
\* One packet of every hash modulo four.
MCInputSpread == <<a, b, c, d>>
=============================================================================
