\* Bring-up with every failure enabled: PING mismatches, mesh failures and
\* link loss at any await.  The run stops once bring-up has ended.
CONSTANTS
  s1 = s1
  s2 = s2
  s3 = s3
  SHARD_SIZE = 2
  SlaveInfoList <- MCSlaveInfoList
  ConfigShards <- MCShards
  MayMismatch = TRUE
  MeshMayFail = TRUE
  LinksMayClose = TRUE
SPECIFICATION Spec
INVARIANTS TypeOK ReadyImpliesVerified
PROPERTIES ReadyOnlyWhileUp ReadinessResolves ShutdownStopsMain
CHECK_DEADLOCK FALSE
