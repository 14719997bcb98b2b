---------------------------- MODULE MCProbeRequests ----------------------------
(* Two requests for a domain with three mail hosts, more than there are      *)
(* permits: the hosts of a request come in two batches.                      *)
EXTENDS ProbeRequests, TLC

CONSTANTS r1, r2, d1, h1, h2, h3
MCRequests == {r1, r2}
MCDomains == {d1}
MCHosts == {h1, h2, h3}
MCTargets == d1 :> <<h1, h2, h3>>
================================================================================
