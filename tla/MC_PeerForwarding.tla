------------------------- MODULE MC_PeerForwarding ---------------------------
(* Two slaves and two remote peers, each connecting and leaving at most      *)
(* once; every slave sends at most one frame.                                *)
EXTENDS PeerForwarding, TLC

CONSTANTS s1, s2, p1, p2, np
=============================================================================
