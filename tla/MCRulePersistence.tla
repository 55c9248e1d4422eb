------------------------- MODULE MCRulePersistence -------------------------
(* Rules of every kind, set, lifted and cleared around one save. *)
EXTENDS RulePersistence, TLC

CONSTANT NotANumber    \* a text stoi cannot read

MCAppNames  == {"YouTube", "TikTok"}
MCWildcards == {"*.tiktok.com"}
MCOctets    == ("10.0.0.1" :> <<10, 0, 0, 1>>) @@ ("10.256.0.1" :> <<10, 256, 0, 1>>)
MCNumberOf  == ("443" :> 443) @@ ("2" :> 2) @@ ("0" :> 0)

Call(op, value) == [op |-> op, value |-> value]

MCChanges ==
  {Call("blockIP", "10.256.0.1"), Call("unblockIP", "10.256.0.1"),
   Call("blockApp", "YouTube"), Call("unblockApp", "YouTube"), Call("blockApp", "Gopher"),
   Call("blockDomain", "*.tiktok.com"), Call("unblockDomain", "*.tiktok.com"),
   Call("blockDomain", "example.org"), Call("unblockDomain", "example.org"),
   Call("blockPort", "443"), Call("unblockPort", "443")}

\* Each way the options can end, the rules of the command line in any order, and
\* values that look like options.
MCCommands ==
  {<<>>, <<"--help">>, <<"in", "out", "--lbs", "0">>, <<"in", "out", "--verbose", "--rules">>,
   <<"in", "out", "--rules", "file", "--help">>, <<"in", "out", "--gopher">>,
   <<"in", "out", "--block-domain", "*.tiktok.com", "--rules", "file", "--block-app", "Gopher">>,
   <<"in", "out", "--block-domain", "--rules">>,
   <<"in", "out", "--rules", "file", "--block-domain", "--block-app", "--rules", "">>,
   <<"in", "out", "--block-ip", "10.0.0.1", "--lbs", "2", "--rules", "file", "--json-report", "report">>}

\* Left by an earlier engine, and edited by hand: a port that is no number.
MCOldFiles ==
  {<<Section("[BLOCKED_APPS]"), Entry("TikTok"), Section("[BLOCKED_PORTS]"), Entry(NotANumber),
     Entry(80)>>}
=============================================================================
