----------------------------- MODULE MCPeerLoop -----------------------------
(* Instances of PeerLoop for TLC.                                           *)
EXTENDS PeerLoop, TLC

CONSTANTS c1, c2, c3, p1, p2, i1, i2

\* All the methods of the client.
AllMethods == Commands \ {"BootstrapDht"}
=============================================================================
