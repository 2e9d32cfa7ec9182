---------------------------- MODULE MC_RootMining ----------------------------
(* Two slaves, s1 running shard 0 and s2 shards 0 and 1 (a replica of   *)
(* shard 0, merged last-writer-wins), one miner call at a time            *)
(* and two root blocks on one chain, from peers or the local caller c1:   *)
(* r1 confirms h0a and h1a, r2 (child of r1) confirms h0b and h1b.  With  *)
(* PROOF_OF_PROGRESS_BLOCKS = 1 the miner can build a root block on       *)
(* genesis and on r1, and falls back to a minor block after r2.            *)
(* h0a, h0b and h1a are on the slaves from the start; h1b is produced by  *)
(* s2 during the run and reported upstream with ADD_MINOR_BLOCK_HEADER.  *)
EXTENDS RootMining, TLC

CONSTANTS s1, s2, r1, r2, g, net, none, miner, h0a, h0b, h1a, h1b, c1

MCSlaves == {s1, s2}
MCBlocks == {r1, r2}
MCParent == (r1 :> g) @@ (r2 :> r1)
MCHeaders == {h0a, h0b, h1a, h1b}
MCHeaderShard == (h0a :> 0) @@ (h0b :> 0) @@ (h1a :> 1) @@ (h1b :> 1)
MCConfirms == (r1 :> {h0a, h1a}) @@ (r2 :> {h0b, h1b})
MCServes == (s1 :> {0}) @@ (s2 :> {0, 1})
MCInitialHeaders == {h0a, h0b, h1a}
=============================================================================
