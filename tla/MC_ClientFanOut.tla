-------------------------- MODULE MC_ClientFanOut ----------------------------
(* The registry of spec B1 (shard 0 -> [s2], shard 1 -> [s1, s2]) and two   *)
(* clients: c1 adds tx1 (shard 1, replicated) and reads its account back;   *)
(* c2 adds tx2, whose branch is not in the registry, submits a minor block   *)
(* on shard 2 (unknown) and on shard 1, and asks for the stats.          *)
EXTENDS ClientFanOut, TLC

CONSTANTS s1, s2, tx1, tx2, c1, c2

MCRegistry == (0 :> <<s2>>) @@ (1 :> <<s1, s2>>)
MCTxBranch == (tx1 :> 1) @@ (tx2 :> 2)
MCScripts ==
  (c1 :> <<[op |-> "addTransaction", arg |-> tx1],
           [op |-> "getTransactionCount", arg |-> tx1]>>)
  @@ (c2 :> <<[op |-> "addTransaction", arg |-> tx2],
              [op |-> "addRawMinorBlock", arg |-> 2],
              [op |-> "addRawMinorBlock", arg |-> 1],
              [op |-> "getStats", arg |-> 0]>>)
=============================================================================
