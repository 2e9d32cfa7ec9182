\* Correct slaves: every ADD_ROOT_BLOCK reply carries errorCode 0.
CONSTANTS
  s1 = s1
  s2 = s2
  b1 = b1
  b2 = b2
  b3 = b3
  g = g
  c1 = c1
  net = net
  none = none
  Slaves <- MCSlaves
  Blocks <- MCBlocks
  Parent <- MCParent
  Callers <- MCCallers
  Genesis = g
  NetTask = net
  NoTask = none
  SlaveMayFail = FALSE

SPECIFICATION Spec

\* Arrivals are bounded; once every block has arrived the master idles.
CHECK_DEADLOCK FALSE

INVARIANTS
  TypeOK
  SingleDrainer
  NoStrandedBlock
  PeersLearnTip

PROPERTIES
  QueuedBlockReachesSlaves
  SerialBroadcast
