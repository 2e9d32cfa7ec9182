\* One mining call while r1 arrives.
CONSTANTS
  s1 = s1
  s2 = s2
  r1 = r1
  r2 = r2
  g = g
  net = net
  none = none
  c1 = c1
  miner = miner
  h0a = h0a
  h0b = h0b
  h1a = h1a
  h1b = h1b
  Slaves <- MCSlaves
  Blocks <- MCBlocks
  Parent <- MCParent
  Callers = {c1}
  Genesis = g
  NetTask = net
  NoTask = none
  SlaveMayFail = FALSE
  Miner = miner
  Headers <- MCHeaders
  HeaderShard <- MCHeaderShard
  Confirms <- MCConfirms
  Serves <- MCServes
  InitialHeaders <- MCInitialHeaders
  SHARD_SIZE = 2
  PROOF_OF_PROGRESS_BLOCKS = 1
  MaxMines = 1
SPECIFICATION ComposedSpec
CHECK_DEADLOCK FALSE
INVARIANT MinedHeadersUnconfirmed
