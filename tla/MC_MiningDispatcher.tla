------------------------- MODULE MC_MiningDispatcher -------------------------
(* Two shards; slave s1 runs both, slave s2 is a replica of shard 1 (spec  *)
(* 8, B1).  eco values 1/2, 1 and 2 give strict wins and ties (1/1 = 2/2); *)
(* unconfirmed amounts 0 and 1 make the root's eco 0 or 1, so the root     *)
(* ties with shards and the `// 2` rounds down.  Two heights exercise the  *)
(* height rule; header counts 1 and 2 against PROOF_OF_PROGRESS_BLOCKS = 2 *)
(* exercise the fallback.                                                   *)
EXTENDS MiningDispatcher, TLC

CONSTANTS s1, s2, root, none

MCSlaveShards == (s1 :> {0, 1}) @@ (s2 :> {1})
MCMasks == {{0}, {1}}

=============================================================================
