---------------------------- MODULE MCConnection ----------------------------
(* Bounds for TLC: one endpoint that races two hostnames and one that has  *)
(* a single hostname, shared with the first, so that a socket of either    *)
(* may close while the other is raced; one retry for each socket.          *)
EXTENDS Connection, TLC

CONSTANTS h1, h2, lan, vpn

MCHosts == {h1, h2}
MCEndpoints == {lan, vpn}
MCReachable == {h2}
MCHostsOf == (lan :> {h1, h2}) @@ (vpn :> {h2})
=============================================================================
