\* A config in which no slave runs shard 0 and nothing fails: bring-up
\* returns after the coverage check and readiness is never resolved.
CONSTANTS
  s1 = s1
  s2 = s2
  s3 = s3
  SHARD_SIZE = 2
  SlaveInfoList <- MCSlaveInfoList
  ConfigShards <- MCGapShards
  MayMismatch = FALSE
  MeshMayFail = FALSE
  LinksMayClose = FALSE
SPECIFICATION Spec
PROPERTIES ReadinessResolves
CHECK_DEADLOCK FALSE
