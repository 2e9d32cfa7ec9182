---------------------------- MODULE ClusterBringUp ----------------------------
(***************************************************************************)
(* Bring-up of the cluster by MasterServer.__initCluster (master.py       *)
(* 173-278) and the fail-stop close of a SlaveConnection (106-109).       *)
(*                                                                         *)
(* The init task connects to the slaves one by one in config order        *)
(* (retrying forever), pings each and compares id and shard masks with the *)
(* config, adds it to slavePool and branchToSlaves, checks that every     *)
(* shard is covered, asks every slave to connect to the others, and        *)
(* resolves clusterActiveFuture.  A mismatch or a mesh failure calls       *)
(* shutdown() and the task carries on; a link that closes at any time      *)
(* calls shutdown() through SlaveConnection.close.  An RPC on a closed     *)
(* link raises in the init task, which then ends.                          *)
(*                                                                         *)
(* main() (582-601) drives the event loop: it runs the loop until          *)
(* clusterActiveFuture is done (waitUntilClusterActive), starts the        *)
(* network and the JSON-RPC server, then runs the loop until               *)
(* shutdownFuture is done and shuts the JSON-RPC server down.  The loop    *)
(* delivers I/O (connections, replies, lost links) only while the future  *)
(* main waits on is pending; the step in which that future completes is  *)
(* still finished (SetClusterActive, RpcOnClosedLink).                     *)
(***************************************************************************)
EXTENDS Naturals, Sequences, FiniteSets

CONSTANTS
  SHARD_SIZE,     \* env.config.SHARD_SIZE
  SlaveInfoList,  \* clusterConfig.getSlaveInfoList(): the slaves in config order
  ConfigShards,   \* ConfigShards[s]: shards covered by s's configured shard masks
  MayMismatch,    \* a slave may answer PING with another id or other masks
  MeshMayFail,    \* a slave may fail to connect to another slave
  LinksMayClose   \* a slave link may be lost

Slaves == {SlaveInfoList[k] : k \in 1..Len(SlaveInfoList)}
Shards == 0..(SHARD_SIZE - 1)

ASSUME /\ \A j, k \in 1..Len(SlaveInfoList) : j # k => SlaveInfoList[j] # SlaveInfoList[k]
       /\ ConfigShards \in [Slaves -> (SUBSET Shards) \ {{}}]
       /\ {MayMismatch, MeshMayFail, LinksMayClose} \subseteq BOOLEAN

VARIABLES
  initPc,           \* program point of the __initCluster task
  k,                \* index in SlaveInfoList of the slave being connected
  link,             \* link[s]: "none", "open" or "closed"
  slavePool,        \* MasterServer.slavePool
  branchToSlaves,   \* MasterServer.branchToSlaves, by shard id
  verified,         \* slaves whose PING matched the config
  meshTodo,         \* slaves of slavePool not yet sent CONNECT_TO_SLAVES
  meshOk,           \* slaves that connected to all the others
  shutdownDone,     \* shutdownFuture.done()
  clusterActive,    \* clusterActiveFuture: "pending", "ok" or "error"
  mainPc            \* program point of main()

vars == <<initPc, k, link, slavePool, branchToSlaves, verified, meshTodo,
          meshOk, shutdownDone, clusterActive, mainPc>>

-----------------------------------------------------------------------------
\* Mutant: shutdown() only resolves shutdownFuture and leaves
\* clusterActiveFuture alone.
ShutdownKeepsReadiness ==
  /\ shutdownDone' = TRUE
  /\ UNCHANGED clusterActive

\* MasterServer.shutdown(): idempotent; fails readiness if still pending.
Shutdown ==
  /\ shutdownDone' = TRUE
  /\ clusterActive' = IF clusterActive = "pending" THEN "error" ELSE clusterActive

\* SlaveConnection.hasShard
HasShard(s, b) == b \in ConfigShards[s]

\* __hasAllShards over a registry: every shard has at least one slave.
HasAllShards(reg) == \A b \in Shards : reg[b] # <<>>

Current == SlaveInfoList[k]

\* loop.run_until_complete(f): the loop runs until f is done.
LoopRuns ==
  \/ mainPc = "waitActive" /\ clusterActive = "pending"
  \/ mainPc = "serving" /\ ~shutdownDone

-----------------------------------------------------------------------------
(* Actions of the init task *)

\* __connect retries open_connection until it succeeds (a failed attempt
\* changes nothing); then the SlaveConnection is created and becomes active
\* and the PING request is sent.
ConnectSlave ==
  /\ initPc = "connect"
  /\ link' = [link EXCEPT ![Current] = "open"]
  /\ initPc' = "ping"
  /\ UNCHANGED <<k, slavePool, branchToSlaves, verified, meshTodo, meshOk,
                 shutdownDone, clusterActive>>

\* __initCluster after __connectToSlaves: without every shard covered it
\* returns (readiness is left pending); otherwise the mesh starts over
\* slavePool.
AfterConnectToSlaves ==
  /\ UNCHANGED k
  /\ initPc' = IF HasAllShards(branchToSlaves') THEN "mesh" ELSE "aborted"
  /\ meshTodo' = slavePool'

\* Mutant: the loop over the config list runs one index too far.
RegisterOffByOne(s) ==
  /\ slavePool' = slavePool \cup {s}
  /\ branchToSlaves' = [b \in Shards |->
                          IF HasShard(s, b) THEN Append(branchToSlaves[b], s)
                          ELSE branchToSlaves[b]]
  /\ IF k <= Len(SlaveInfoList)
       THEN /\ k' = k + 1
            /\ initPc' = "connect"
            /\ UNCHANGED meshTodo
       ELSE AfterConnectToSlaves

\* The tail of __connectToSlaves for one slave once it is in slavePool:
\* the registry gets the slave for each shard it has, in config order; after
\* the last slave, __initCluster checks the coverage and starts the mesh.
Register(s) ==
  /\ slavePool' = slavePool \cup {s}
  /\ branchToSlaves' = [b \in Shards |->
                          IF HasShard(s, b) THEN Append(branchToSlaves[b], s)
                          ELSE branchToSlaves[b]]
  /\ IF k < Len(SlaveInfoList)
       THEN /\ k' = k + 1
            /\ initPc' = "connect"
            /\ UNCHANGED meshTodo
       ELSE AfterConnectToSlaves

\* Mutant: the id/mask comparison dropped from __connectToSlaves.
PingReplyUnchecked ==
  /\ initPc = "ping"
  /\ link[Current] = "open"
  /\ \/ verified' = verified \cup {Current}
     \/ MayMismatch /\ UNCHANGED verified
  /\ Register(Current)
  /\ UNCHANGED <<link, meshOk, shutdownDone, clusterActive>>

\* The PING reply arrives: a different id or shard mask list calls
\* shutdown(), and the slave is registered either way.
PingReply ==
  /\ initPc = "ping"
  /\ link[Current] = "open"
  /\ \/ /\ verified' = verified \cup {Current}
        /\ UNCHANGED <<shutdownDone, clusterActive>>
     \/ /\ MayMismatch
        /\ UNCHANGED verified
        /\ Shutdown
  /\ Register(Current)
  /\ UNCHANGED <<link, meshOk>>

\* __setupSlaveToSlaveConnections: slavePool is a set, so the slaves are
\* asked in any order; a slave that reports an error calls shutdown().
MeshReply(s) ==
  /\ initPc = "mesh"
  /\ s \in meshTodo
  /\ link[s] = "open"
  /\ meshTodo' = meshTodo \ {s}
  /\ \/ /\ meshOk' = meshOk \cup {s}
        /\ UNCHANGED <<shutdownDone, clusterActive>>
     \/ /\ MeshMayFail
        /\ UNCHANGED meshOk
        /\ Shutdown
  /\ UNCHANGED <<initPc, k, link, slavePool, branchToSlaves, verified>>

\* clusterActiveFuture.set_result(None) after the mesh loop; on a future
\* that shutdown() already failed it raises InvalidStateError.
SetClusterActive ==
  /\ initPc = "mesh"
  /\ meshTodo = {}
  /\ IF clusterActive = "pending"
       THEN initPc' = "done" /\ clusterActive' = "ok"
       ELSE initPc' = "crashed" /\ UNCHANGED clusterActive
  /\ UNCHANGED <<k, link, slavePool, branchToSlaves, verified, meshTodo, meshOk,
                 shutdownDone>>

\* An RPC awaited on a closed link raises ConnectionError in the init task.
RpcOnClosedLink ==
  /\ \/ initPc = "ping" /\ link[Current] = "closed"
     \/ initPc = "mesh" /\ \E s \in meshTodo : link[s] = "closed"
  /\ initPc' = "crashed"
  /\ UNCHANGED <<k, link, slavePool, branchToSlaves, verified, meshTodo, meshOk,
                 shutdownDone, clusterActive>>

-----------------------------------------------------------------------------
(* Slave links *)

\* Mutant: SlaveConnection.close without masterServer.shutdown().
LinkLostNoShutdown(s) ==
  /\ LinksMayClose
  /\ link[s] = "open"
  /\ link' = [link EXCEPT ![s] = "closed"]
  /\ UNCHANGED <<initPc, k, slavePool, branchToSlaves, verified, meshTodo, meshOk,
                 shutdownDone, clusterActive>>

\* SlaveConnection.close: the stream is lost and the master shuts down.
LinkLost(s) ==
  /\ LinksMayClose
  /\ link[s] = "open"
  /\ link' = [link EXCEPT ![s] = "closed"]
  /\ Shutdown
  /\ UNCHANGED <<initPc, k, slavePool, branchToSlaves, verified, meshTodo, meshOk>>

-----------------------------------------------------------------------------
(* main() *)

\* waitUntilClusterActive returns: the network and the JSON-RPC server start.
MainActive ==
  /\ mainPc = "waitActive"
  /\ clusterActive = "ok"
  /\ mainPc' = "serving"
  /\ UNCHANGED <<initPc, k, link, slavePool, branchToSlaves, verified, meshTodo,
                 meshOk, shutdownDone, clusterActive>>

\* run_until_complete re-raises the readiness error and main exits with it.
MainRaised ==
  /\ mainPc = "waitActive"
  /\ clusterActive = "error"
  /\ mainPc' = "raised"
  /\ UNCHANGED <<initPc, k, link, slavePool, branchToSlaves, verified, meshTodo,
                 meshOk, shutdownDone, clusterActive>>

\* run_until_complete(shutdownFuture) returns and the JSON-RPC server is
\* shut down.
MainStop ==
  /\ mainPc = "serving"
  /\ shutdownDone
  /\ mainPc' = "stopped"
  /\ UNCHANGED <<initPc, k, link, slavePool, branchToSlaves, verified, meshTodo,
                 meshOk, shutdownDone, clusterActive>>

\* A step driven by I/O happens only while main runs the loop.
OnLoop(A) == LoopRuns /\ A /\ UNCHANGED mainPc

\* The rest of a step already running when the awaited future completed.
InStep(A) == A /\ UNCHANGED mainPc

-----------------------------------------------------------------------------
\* main() after master.start(): the init task is created and main is in
\* waitUntilClusterActive.
Init ==
  /\ initPc = "connect"
  /\ k = 1
  /\ link = [s \in Slaves |-> "none"]
  /\ slavePool = {}
  /\ branchToSlaves = [b \in Shards |-> <<>>]
  /\ verified = {}
  /\ meshTodo = {}
  /\ meshOk = {}
  /\ shutdownDone = FALSE
  /\ clusterActive = "pending"
  /\ mainPc = "waitActive"

Next ==
  \/ OnLoop(ConnectSlave)
  \/ OnLoop(PingReply)
  \/ \E s \in Slaves : OnLoop(MeshReply(s))
  \/ InStep(SetClusterActive)
  \/ InStep(RpcOnClosedLink)
  \/ \E s \in Slaves : OnLoop(LinkLost(s))
  \/ MainActive \/ MainRaised \/ MainStop

\* The event loop runs the init task whenever it can; slaves eventually
\* accept the connection and answer on open links; main resumes once its
\* future is done.  Link loss is not fair.
Fairness ==
  /\ WF_vars(OnLoop(ConnectSlave))
  /\ WF_vars(OnLoop(PingReply))
  /\ \A s \in Slaves : WF_vars(OnLoop(MeshReply(s)))
  /\ WF_vars(InStep(SetClusterActive))
  /\ WF_vars(InStep(RpcOnClosedLink))
  /\ WF_vars(MainActive) /\ WF_vars(MainRaised) /\ WF_vars(MainStop)

Spec == Init /\ [][Next]_vars /\ Fairness

-----------------------------------------------------------------------------
(* Properties *)

TypeOK ==
  /\ initPc \in {"connect", "ping", "mesh", "done", "aborted", "crashed"}
  /\ k \in 1..Len(SlaveInfoList)
  /\ link \in [Slaves -> {"none", "open", "closed"}]
  /\ slavePool \subseteq Slaves
  /\ branchToSlaves \in [Shards -> Seq(Slaves)]
  /\ verified \subseteq Slaves
  /\ meshTodo \subseteq Slaves
  /\ meshOk \subseteq Slaves
  /\ shutdownDone \in BOOLEAN
  /\ clusterActive \in {"pending", "ok", "error"}
  /\ mainPc \in {"waitActive", "serving", "stopped", "raised"}

\* The cluster is reported ready only when every configured slave answered
\* PING with its configured id and masks, every shard has a slave and every
\* slave connected to all the others (spec 8, invariant 1; 4.A handshake).
ReadyImpliesVerified ==
  clusterActive = "ok" =>
    /\ verified = Slaves
    /\ meshOk = Slaves
    /\ HasAllShards(branchToSlaves)

\* Readiness is never granted once the master has shut down or a slave link
\* has been lost: the fail-stop policy of SlaveConnection.close reaches the
\* readiness future even while bring-up is still running.
ReadyOnlyWhileUp ==
  [][clusterActive # "ok" /\ clusterActive' = "ok" =>
       /\ ~shutdownDone'
       /\ \A s \in Slaves : link'[s] # "closed"]_vars

\* clusterActiveFuture is eventually resolved, with success or an error, so
\* waitUntilClusterActive in main returns (spec 4.E readiness signal).
ReadinessResolves == <>(clusterActive # "pending")

\* A shutdown always ends main(): whether it comes during bring-up (a PING
\* mismatch, a mesh failure, a lost link) or while serving, the future
\* main is blocked on completes, so the process exits and the JSON-RPC
\* server is shut down (spec 4.E shutdown, section 7 cancellation).
ShutdownStopsMain == shutdownDone ~> mainPc \in {"stopped", "raised"}

=============================================================================
