----------------------- MODULE MC_RootBlockSerializer -----------------------
(* Model-checking instance of RootBlockSerializer: two slaves, one         *)
(* addRootBlock caller besides the network task, and three root blocks    *)
(* forming a fork: b1 <- b2 on one branch, b3 a sibling of b1, so a drain  *)
(* meets a block that moves the tip, one that does not, and (b2 before b1) *)
(* one that fails validation.                                               *)
EXTENDS RootBlockSerializer, TLC

CONSTANTS s1, s2, b1, b2, b3, g, c1, net, none

MCSlaves == {s1, s2}
MCBlocks == {b1, b2, b3}
MCParent == (b1 :> g) @@ (b2 :> b1) @@ (b3 :> g)
MCCallers == {c1}

=============================================================================
