\* Replicas may reject transactions and blocks; both clients' calls
\* interleave at every await.  The run ends when both scripts are done.
CONSTANTS
  s1 = s1
  s2 = s2
  tx1 = tx1
  tx2 = tx2
  c1 = c1
  c2 = c2
  Slaves = {s1, s2}
  SHARD_SIZE = 2
  Registry <- MCRegistry
  Txs = {tx1, tx2}
  TxBranch <- MCTxBranch
  Clients = {c1, c2}
  Scripts <- MCScripts
  ReplicaMayReject = TRUE
SPECIFICATION Spec
INVARIANTS TypeOK ReadYourWrites
CHECK_DEADLOCK FALSE
