--------------------------- MODULE MCPingRegistry ---------------------------
(* Clients behind a NAT, and one elsewhere that uses a port of the first.  *)
EXTENDS PingRegistry, TLC

CONSTANTS s1, s2, s3

MCAddrOf == (s1 :> "A") @@ (s2 :> "A") @@ (s3 :> "B")
Of(v, a) == ("video" :> v) @@ ("audio" :> a)
MCPortOf == (s1 :> Of(1, 2)) @@ (s2 :> Of(3, 4)) @@ (s3 :> Of(1, 5))
MCAddrs == [s \in Sessions |-> MCAddrOf[s]]
MCPorts == [s \in Sessions |-> MCPortOf[s]]
=============================================================================
