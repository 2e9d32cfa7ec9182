-------------------------- MODULE MC_ClusterBringUp --------------------------
(* Three slaves in config order s1, s2, s3.  MCShards: s1 runs shard 1, s2 *)
(* runs shards 0 and 1 (spec example B1) and s3 shard 0, so both shards are *)
(* replicated and a failure can come before, between or after the others' *)
(* handshakes.  MCGapShards leaves shard 0 without a slave.                *)
EXTENDS ClusterBringUp, TLC

CONSTANTS s1, s2, s3

MCSlaveInfoList == <<s1, s2, s3>>
MCShards == (s1 :> {1}) @@ (s2 :> {0, 1}) @@ (s3 :> {0})
MCGapShards == (s1 :> {1}) @@ (s2 :> {1}) @@ (s3 :> {1})
=============================================================================
