\* Peers connect and disconnect in any order relative to the CREATE and
\* DESTROY traffic on both links and to the slaves' frames.  The run ends
\* when every peer has left and the links are drained.
CONSTANTS
  s1 = s1
  s2 = s2
  p1 = p1
  p2 = p2
  np = np
  Slaves = {s1, s2}
  Peers = {p1, p2}
  NoPeer = np
  MaxFrames = 1
SPECIFICATION Spec
INVARIANTS TypeOK ForwardOnlyToAddressee NoStaleEntry
PROPERTIES TablesConverge
CHECK_DEADLOCK FALSE
