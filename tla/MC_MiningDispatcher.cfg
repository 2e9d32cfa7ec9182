CONSTANTS
  s1 = s1
  s2 = s2
  root = root
  none = none
  SHARD_SIZE = 2
  Slaves = {s1, s2}
  SlaveShards <- MCSlaveShards
  Masks <- MCMasks
  Coinbases = {1, 2}
  Difficulties = {1, 2}
  Heights = {1, 2}
  UnconfirmedAmounts = {0, 1}
  RootDifficulty = 1
  PROOF_OF_PROGRESS_BLOCKS = 2
  HeaderCounts = {1, 2}
  Root = root
  NoBranch = none

SPECIFICATION Spec

\* One call of getNextBlockToMine: the behaviour ends when the call returns.
CHECK_DEADLOCK FALSE

INVARIANTS
  TypeOK
  WinnerHasMaxEco
  DeterministicTieBreak
