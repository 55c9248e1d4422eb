------------------------- MODULE MCAnalysisService -------------------------
(* A run from the dashboard and one from elsewhere, each before, beside or after the other. *)
EXTENDS AnalysisService, TLC

CONSTANTS run, other

MCRequests      == {run, other}
MCFromDashboard == {run}

MCAppNames  == {"YouTube", "TikTok"}
MCWildcards == {"*.tiktok.com"}
MCOctets    == "192.168.1.50" :> <<192, 168, 1, 50>>
MCNumberOf  == ("1" :> 1) @@ ("2" :> 2)

Body(apps, ips, domains, n) ==
  [blockApps |-> apps, blockIps |-> ips, blockDomains |-> domains, lbs |-> n, fps |-> n]

\* Strict Security Mode, and values that look like options.
MCBodyOf ==
  (run :> Body(<<"YouTube", "TikTok">>, <<"192.168.1.50">>, <<"facebook">>, "2"))
    @@ (other :> Body(<<"--block-ip">>, <<>>, <<"*.tiktok.com", "--help">>, "1"))
=============================================================================
