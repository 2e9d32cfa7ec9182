# TLA+ models of the QuarkChain cluster master

This directory holds TLA+ models of `src/quarkchain/cluster/master.py`: the
Master coordinator of a QuarkChain cluster. They are checked with TLC. Each
module models one part of the master. Each `MC_*.tla` module and `.cfg` file
instantiates a module for TLC. `PROJECT.json` lists the runs, the mutants that
show each property can fail, the map from every definition to the source lines
it models, the findings, and the hazards the properties target.

## 1. Inventory of the system

`master.py` has three classes. `ClusterConfig` parses the configuration.
`SlaveConnection` is one link to a slave. `MasterServer` is everything else.
Everything runs on **one asyncio event loop**. A task runs without interruption
from one `await` to the next. So the only interleavings are at `await` points
and between callbacks. The collaborators are not under `src/`. They are
`RootState`, `SimpleNetwork`, the `ClusterConnection` framing/RPC layer and the
slaves, and they are modelled from `spec.md`.

| Component | Code | State it keeps | Operations |
|---|---|---|---|
| A. Slave link | `SlaveConnection` (43-139) | id, shardMaskList; the pending-RPC table and framing live in `ClusterConnection` (outside src) | `sendPing`, `sendConnectToSlaves`, `getAccountData`, `addTransaction`, `writeRpcRequest`, `writeCommand`, `close` (→ master shutdown), forwarding of frames with `clusterPeerId ≠ 0` (`getConnectionToForward`, `validateConnection`), inbound `handleAddMinorBlockHeaderRequest` |
| B. Cluster registry | `MasterServer.slavePool`, `branchToSlaves` (161-163, 221-225, 237-240) | set of links; branch → ordered list of links | built in `__connectToSlaves`; read by `getSlaveConnection` (first entry) and fan-outs |
| C. Root-block update serializer | `updateRootBlock`, `updateRooBlockAsync`, `addRootBlock`, `broadcastRpc` (417-480) | `rootBlockUpdateQueue`, `isUpdatingRootBlock`, the drain task's local `updateTip` | enqueue from the peer path (sync) or from `addRootBlock` (async, validates first); drain: pop, `RootState.addBlock`, broadcast `ADD_ROOT_BLOCK` to all slaves and await all replies; on exit notify peers of the tip |
| D. Mining dispatcher | `getNextBlockToMine`, `__createRootBlockToMineOrFallbackToMinorBlock`, `__getMinorBlockToMine` (280-386) | per call: eco-info map, running winner (`branchValueWithMaxEco`, `maxEco`, `dupEcoCount`, `blockHeight`) | fan out `GET_ECO_INFO_LIST`, pick root or a shard by coinbase/difficulty with a height tie-break and a reservoir random tie-break; root path fans out `GET_UNCONFIRMED_HEADERS` and falls back to the first shard lacking proof of progress |
| E. Orchestrator | `__initCluster`, `__connect`, `__connectToSlaves`, `__setupSlaveToSlaveConnections`, `shutdown` (173-278); client fan-outs (388-415, 446-453, 505-533); peer lifecycle (483-500) | `clusterActiveFuture`, `shutdownFuture`, `artificialTxCount` | bring-up: connect with retry, ping check, registry build, coverage check, mesh; readiness and shutdown futures; `getAccountData`, `addTransaction` (to every replica), `addRawMinorBlock`, `getStats`; `createPeerClusterConnections` (RPC broadcast), `destroyPeerClusterConnections` (command broadcast) |
| F. CLI / driver | `parse_args`, `main`, `ClusterConfig` (30-40, 536-605) | — | argument parsing, JSON loading; `main` runs the event loop until readiness, starts the network and the JSON-RPC server, runs it until shutdown and stops the JSON-RPC server |

**How they interact.** The orchestrator creates one link per configured slave
and fills the registry. The serializer, the dispatcher and the fan-outs send
RPCs over the links and await `asyncio.gather` of the replies. A link's close
calls `MasterServer.shutdown`. The peer path (`SimpleNetwork`) calls
`updateRootBlock`, `createPeerClusterConnections` and
`destroyPeerClusterConnections`. The slaves call back through
`ADD_MINOR_BLOCK_HEADER` and through frames that are forwarded to peers.

**What is hard.**
- Root blocks arrive from two producers. The serializer's flag, the queue and
  the `await` inside the drain must not lose a block or run two drains.
- `updateTip = updateTip or addBlock(...)` is stateful across the drain.
- A slave error or a lost link in the middle of a broadcast leaves state behind.
- Bring-up can meet mismatches, missing shards, mesh failures and link loss in
  any order. Each calls `shutdown()` and then keeps going.
- The mining tie-break mixes a deterministic height rule with reservoir
  sampling over a dict in `slavePool` (set) iteration order.
- Replicas of a shard are merged last-writer-wins.

**What makes each component correct.**
- C: at most one drainer. No block is stranded in the queue. Every popped
  valid block is added to RootState and then reaches every slave in the same
  order. Peers learn every tip move.
- D: the winner has maximal eco. Among ties, the lowest height wins when there
  is no randomness, and every tied branch is equally likely when there is.
  A root block is only produced when every shard has proof of progress.
  Otherwise the first shard that lacks it is mined.
- E: readiness succeeds only with every slave verified, every shard covered
  and the mesh up. Readiness always resolves, either way. Shutdown is
  idempotent. A fan-out awaits exactly the eligible slaves.
- A: frames with `clusterPeerId = 0` stay local. Other frames go to that peer
  or to the null sink, never to another slave. A peer's `CREATE` reaches each
  slave before its `DESTROY`.

## 2. Plan

Modules in order of importance (✔ = built):

1. ✔ `RootBlockSerializer`: component C, with RootState and the slaves'
   ADD_ROOT_BLOCK handling as collaborators.
2. ✔ `MiningDispatcher`: component D. The selection loop is a step per
   iteration. A reference operator computes the exact probability of each
   winner, used to check the tie-break against the spec.
3. ✔ `ClusterBringUp`: component E's bring-up, readiness and shutdown, with
   link loss at any time (component A's `close`). It also builds the registry
   (component B).
4. ✔ `PeerForwarding`: component A's forwarding rule and the peer lifecycle
   (create RPC / destroy command over FIFO links), with peers that connect
   and disconnect.
5. ✔ `ClientFanOut`: `addTransaction`, `getAccountData`, `addRawMinorBlock` and
   `getStats` over the registry with replicas.
6. ✔ An abstract `RootBlockBroadcast`: root blocks leave the queue in order,
   one at a time, and are dropped or sent to every slave before the next one
   leaves. `RootBlockSerializer` is checked as a refinement of it.
7. ✔ `RootMining`: a composition of the serializer with the dispatcher.
   Mining reads the root tip across awaits while root blocks are being
   applied.
8. ✔ `main`'s driver, in `ClusterBringUp`: the two `run_until_complete`
   calls decide when the loop delivers I/O and when the process ends.

Not modelled: `parse_args`/`ClusterConfig` (argument and JSON parsing,
pure I/O); `startAndLoop` (an alternative driver `main` does not use);
the byte framing of `ClusterConnection`; logging;
`setArtificialTxCount` (stores a number that mining requests pass on);
`getBalance` (the same read as `getTransactionCount`).

## 3. Modules, runs and what they show

### RootBlockSerializer (component C)

State: `rootBlockUpdateQueue` and `isUpdatingRootBlock` as in the code. Each
task `t` (the `ensure_future` task `NetTask`, or an `addRootBlock` caller) has
a program point `pc[t]` and its drain's local `updateTip[t]`. `running` is the
task holding the event loop. `toSlave[s]` are the ADD_ROOT_BLOCK requests in
flight on link `s`, which is FIFO. `acked`/`nacked` are the replies gathered so
far. `slaveRootBlocks[s]` is what slave `s` applied. `rootBlocks`/`tip` are the
RootState. `notifiedTip` is what peers were last sent.

Actions: `updateRootBlock(b)` (417-421). `StartUpdateTask` (the task
starting, 423-428). `DrainStep(t)` is one pass of the `while` (429-444). It
includes the pop, `AddBlockAndBroadcast` (addBlock with the short-circuit
`or`, the `ValueError` → `continue`, `broadcastRpc`) and the loop exit with
the peer notification. `AwaitBroadcast(t)` is the gather completing and the
`check` (438-439). `addRootBlock(c, b)` (455-460). `SlaveAddRootBlock(s)` is
the slave side.

Bounds (`MC_RootBlockSerializer`): 2 slaves, 1 caller besides the network
task, and 3 blocks `b1 <- b2`, `b3` a sibling of `b1`. Each block arrives at
most once per path. So a drain meets a tip-moving block, a block that does
not move the tip (`b3` after `b1`) and an invalid one (`b2` before `b1`).
Blocks also arrive while a drain is at its await, from both producers.

Fairness: weak fairness on every task step and on slave replies. asyncio runs
every ready task. The model assumes slaves answer, because a lost link shuts
the master down (`SlaveConnection.close`). Arrivals are not fair. The system
stops when all bounded arrivals are processed, hence `CHECK_DEADLOCK FALSE`.

| Run | Expect | Shows |
|---|---|---|
| `serializer` | pass | `SingleDrainer`, `NoStrandedBlock` (no lost wakeup), `PeersLearnTip` (quiescent ⇒ peers have the tip), `QueuedBlockReachesSlaves` (liveness), `SerialBroadcast` (refinement of `RootBlockBroadcast`) |
| `serializer_short_circuit` | violation | `SlavesOnlyGetAcceptedBlocks` fails: b1 moves the tip and b2 is broadcast without `addBlock` (code bug at 432) |
| `serializer_slave_error` | violation | `NoStrandedBlock` fails: a slave error makes `check` raise with the flag still set. Later blocks are queued forever (439) |
| `serializer_early_return` | violation | `AddRootBlockReturnsApplied` fails: while a drain is scheduled or running, `addRootBlock` enqueues its block and returns at once (458), before the block is in the root state |

**Refinement.** `RootBlockBroadcast` is what the serializer promises (spec 4.C
and 5). Its state is a queue, the deliveries of the current broadcast
(`inflight`) and what each slave applied. `Take` pops the oldest block when
no broadcast is in progress and either drops it or sends it to every slave.
`Deliver(s)` is one slave applying it. The mapping takes `queue` to
`rootBlockUpdateQueue`, `inflight` to the heads of the ADD_ROOT_BLOCK links,
and `delivered` to `slaveRootBlocks`. The property `SerialBroadcast ==
Abs!Spec` checks that no pop overtakes an unfinished broadcast and that
broadcasts keep queue order, under the abstract fairness too. Which blocks are
dropped is left open, so the short-circuit bug is not a refinement failure;
`SlavesOnlyGetAcceptedBlocks` checks it. `accepted` is a history variable of
the `addRootBlock` calls that passed validation, used by
`AddRootBlockReturnsApplied`.

### MiningDispatcher (component D)

One call of `getNextBlockToMine` (325-386) and the two calls it can make
(280-323).

State: the call's inputs `shardMask` (`{}` for no mask) and `randomizeOutput`,
and the slaves' replies `ecoInfo[b]` (coinbase, difficulty, height, unconfirmed
header amounts). These are chosen in `Init` from small sets. `order` is the
insertion order of `branchValueToEcoInfo`, which follows the `slavePool` set,
so every permutation is possible. `i` is the loop index. `sel` holds the loop's
locals: `branchValueWithMaxEco`, `maxEco`, `dupEcoCount` and `blockHeight`.
`headerCount` and `target` belong to the root path, and `result` is the
returned pair. Eco is an exact rational `<<n, d>>`. The code uses a float
ratio, but every value here is small enough that the float comparisons
agree with exact ones.

Actions:
- `GetEcoInfoList` (325-359) covers the fan-out over the eligible slaves
  (`Eligible`, the mask filter through `HasOverlap`, 77-81), the merge, the root's eco from half the
  summed unconfirmed coinbase (`RootEco`), and the error exit.
- `SelectStep` is one dict entry of the loop (361-380). `Outcomes` gives each
  possible result of that entry with its probability: the strict win, the
  height rule, and the reservoir replacement with probability 1/dupEcoCount.
- `EndSelection` (382-386) is the dispatch after the loop.
- `GetUnconfirmedHeaders` (280-313) checks proof of progress and falls back to
  the first shard that lacks it.
- `GetMinorBlockToMine` (315-323).

`WinProb` is a RECURSIVE operator over the same `Outcomes`. It computes the
exact probability that the loop ends with a given winner.

Bounds (`MC_MiningDispatcher`): 2 shards and 2 slaves, where `s1` runs shards
0 and 1 and `s2` runs shard 1, so shard 1 has a replica. The masks are none,
`{0}` and `{1}`. Coinbase, difficulty and height each range over {1, 2}, which
gives strict wins, ties on eco (1/1 = 2/2) and ties broken by height. The
unconfirmed amounts {0, 1} let the root's eco fall below, tie with or beat the
shards. Header counts {1, 2} with `PROOF_OF_PROGRESS_BLOCKS = 2` reach both the
root and the fallback. One call ends in `done`, hence `CHECK_DEADLOCK FALSE`.
There is no fairness: the properties are invariants over one call.

| Run | Expect | Shows |
|---|---|---|
| `dispatcher` | pass | `WinnerHasMaxEco` (every draw of every dict order picks a maximal-eco branch), `DeterministicTieBreak` (without randomness the winner is the spec's reference winner: root first, then the lowest height) |
| `dispatcher_uniform` | violation | `UniformTieBreak` (spec S4): with root and both shards tied at height 1, the probabilities are 1/3, 1/2 and 1/6, not 1/3 each. The reservoir branch leaves `blockHeight` at the root's 0, so a later shard of greater height is skipped by the height rule (375) |

### ClusterBringUp (components E bring-up, B, A's close, F's driver)

State: `initPc` is the program point of the `__initCluster` task, and `k` is
the position in `getSlaveInfoList()`. `link[s]` is `none`, `open` or `closed`.
`slavePool` and `branchToSlaves` are as in the code, with each branch list in
config order. `meshTodo` holds the slaves of `slavePool` not yet asked to
connect to the others. `shutdownDone` is `shutdownFuture.done()`.
`clusterActive` is `pending`, `ok` or `error`. `verified` and `meshOk` are
history: the slaves whose PING matched the config, and the slaves that
connected to all the others. `mainPc` is `main()`'s program point:
`waitActive` (inside `waitUntilClusterActive`, the initial state after
`master.start()`), `serving`, `stopped` or `raised`.

Actions:
- `ConnectSlave` covers `__connect` and the new `SlaveConnection` becoming
  active (182-209). A failed attempt changes no state, so the retry loop is a
  stuttering step.
- `PingReply` (211-220) has two cases: the reply matches, or it mismatches
  and `Shutdown` is called. Either way the task carries on into `Register`
  (221-225). After the last slave, `AfterConnectToSlaves` (246-252) checks
  coverage and either starts the mesh or returns.
- `MeshReply(s)` (227-235) takes the slaves in any order, because
  `slavePool` is a set.
- `SetClusterActive` (254) sets readiness. If `shutdown()` already failed
  the future, `set_result` raises and the task ends as `crashed`.
- `RpcOnClosedLink` (83-104): an awaited RPC on a lost link raises in the
  task.
- `LinkLost(s)` (106-109) is `SlaveConnection.close`, which calls
  `Shutdown` (270-275).
- `main()` (582-601): `MainActive` starts the network and the JSON-RPC
  server once readiness is `ok`. `MainRaised` is `waitUntilClusterActive`
  re-raising a failed readiness. `MainStop` is the return from
  `run_until_complete(shutdownFuture)` and the JSON-RPC shutdown.
- `LoopRuns` (266-268, 595): `run_until_complete(f)` runs the loop only
  until `f` is done. Steps that need the loop to deliver I/O (connect,
  replies, lost links) are wrapped in `OnLoop`. `InStep` wraps the rest of
  a step that was already running when the future completed:
  `set_result` after the last mesh reply, and the exception of an RPC on
  the link whose loss triggered the shutdown.

Bounds (`MC_ClusterBringUp`): three slaves in config order. `s1` runs
shard 1, `s2` runs shards 0 and 1 (as in spec B1) and `s3` runs shard 0. Mismatches, mesh failures and
link loss are all enabled. Each failure can therefore happen before, during
or after another, and a link can be lost at each of the task's awaits. The
state space is small (160 states, fewer than before `main` was added because the loop stops at the first failure) because bring-up is one sequential task.
The only interleaving is that of link loss, and all of it is explored.

Fairness: weak fairness on every step of the init task and of `main`. asyncio runs a ready
task, slaves eventually accept a connection, and an open link answers. Link
loss is not fair. Bring-up ends, hence `CHECK_DEADLOCK FALSE`.

| Run | Expect | Shows |
|---|---|---|
| `bringup` | pass | `ReadyImpliesVerified` (ready ⇒ every slave verified, every shard covered, full mesh), `ReadyOnlyWhileUp` (readiness is never granted after a shutdown or a lost link), `ReadinessResolves` (the readiness future is always resolved when the config covers every shard, even if the init task dies on a lost link), `ShutdownStopsMain` (every shutdown, during bring-up or while serving, ends `main`) |
| `bringup_missing_shard` | violation | `ReadinessResolves` fails: with no slave for shard 0, `__initCluster` returns at 249-251 and `clusterActiveFuture` stays pending, so `waitUntilClusterActive` in `main` blocks forever |

### PeerForwarding (component A's forwarding, E's peer lifecycle)

The network collaborator (`SimpleNetwork`, not under `src/`) connects and
disconnects remote peers. Each remote peer is given a cluster peer id, which
the module treats as unique. The module assumes that the network awaits
`createPeerClusterConnections` on a connect; the module header says so.

State:
- `peerState[p]`: the network's view of peer `p`.
- `createPc[p]` and `createReplies[p]`: the create call and its gather.
- `toSlave[s]` and `toMaster[s]`: the FIFO links in the two directions.
- `slaveTable[s]`: the peers slave `s` holds a connection for.
- `sent[s]`: the frames `s` has sent (bounded).
- `routed`: history of where the master sent each frame.

Actions:
- `PeerConnect(p)` includes `createPeerClusterConnections` up to its await
  (488-491). `broadcastRpc` writes CREATE on every link (462-480).
- `PeerDisconnect(p)` includes `destroyPeerClusterConnections` (496-500), a
  one-way DESTROY on every link.
- `MasterReceive(s)` reads the next message from slave `s`. A CREATE reply
  completes one future of the gather (492-494); the results are not checked.
  A frame is routed by `getConnectionToForward` (55-69), using `getPeer`
  (483-486).
- `SlaveHandle(s)` and `SlaveSendFrame(s)` are the slave side.

Bounds (`MC_PeerForwarding`): two slaves and two peers. `MaxFrames = 1` frame
per slave, addressed to a peer in the slave's table or to id 0. Each peer
connects once and may leave at any point of its CREATE traffic. A DESTROY can
therefore meet a create that is still awaiting replies, and a frame can
arrive after its peer left. There are 58,604 states.

Fairness: weak fairness on the slaves handling their links and on the master
reading them. The event loop reads every link with data. Peers and frames are
not fair. The run ends, hence `CHECK_DEADLOCK FALSE`.

| Run | Expect | Shows |
|---|---|---|
| `peers` | pass | `ForwardOnlyToAddressee` (id 0 stays local; other frames go to their peer or the null sink, spec invariant 5), `NoStaleEntry` (a slave holds a connection only for a connected peer or one whose DESTROY is on its way), `TablesConverge` (the slaves' tables end up equal to the connected peers) |

### ClientFanOut (component E's client fan-outs)

Each client is a JSON-RPC handler task running a script of calls. A call
writes its requests and awaits the gather of the replies. The calls of
different clients interleave at those awaits.

State:
- `pc[c]`, `step[c]`: the client's program point and its position in its
  script.
- `waiting[c]`, `replies[c]`: the gather of the current call.
- `ret[c]`: the values returned so far.
- `toSlave[s]`: the requests in flight to slave `s`.
- `pool[s]`: the transactions slave `s` accepted.
- `height[s][b]`: the height of shard `b` on slave `s`.

Actions:
- `Call(c)` starts the next call:
  - `addTransaction` (402-410): an unknown branch returns False; otherwise
    the request goes to every replica.
  - `getAccountData` (388-392): to the dispatch slave (`getSlaveConnection`,
    237-240).
  - `addRawMinorBlock` (446-453): to the dispatch slave.
  - `getStats` (505-510): to all of `slavePool`.
- `Complete(c)` is the gather finishing:
  - `addTransaction` returns `all(results)`.
  - `getStats` merges with `MergeStats` (512-533): the last response in
    `slavePool` iteration order wins for each shard. That order is a set
    order, so every order is allowed.
  - A read returns the dispatch slave's answer.
- `SlaveHandle(s)` is the slave side. A replica may reject a transaction or
  a block (`errorCode ≠ 0`).

Bounds (`MC_ClientFanOut`):
- The registry of spec B1: shard 0 → [s2], shard 1 → [s1, s2].
- Client c1 adds tx1 (replicated shard 1) and reads its count back.
- Client c2 adds tx2 (branch not in the registry), submits blocks to an
  unknown shard and to shard 1, then asks for the stats.
- There are 519 states.

Fairness: weak fairness on each client's steps and on the slaves. The event
loop resumes every task whose gather completed, and the links are open. The
run checks no liveness property: a call's gather awaits exactly the futures
of the writes it made, so its return holds by construction. The run ends,
hence `CHECK_DEADLOCK FALSE`.

| Run | Expect | Shows |
|---|---|---|
| `client_fanout` | pass | `ReadYourWrites` (the spec 8 round-trip law with replication: a transaction reported added is seen by a later read, which goes to the dispatch slave only) |

### RootMining (components C and D together, A's inbound handler)

`RootMining` EXTENDS `RootBlockSerializer`. It adds the root path of
`getNextBlockToMine` as a task of the same event loop, so the miner and the
serializer share the FIFO slave links `toSlave`. A miner request is tagged
`task = Miner`. Each slave handles the head of its link, whoever wrote it
(`SlaveStep`). A step of one side leaves the other side's state alone (the
`Serializer(A)` and `Mining(A)` wrappers); only the links are shared.

State added to the serializer's:
- `minerPc`, `minerWaiting`: the miner's await point and the gather it
  waits on.
- `headerReplies[s]`: the unconfirmed headers slave `s` reported.
- `requestTip`: the root tip when the header fan-out was written. This is
  a history variable.
- `mines`, `mined`: the calls made so far and the root blocks built. A
  mined block records its parent, `requestTip` and its headers.
- `known[s]`: the minor headers slave `s` has.
- `toMaster[s]`: frames from `s` to the master. These are replies and
  ADD_MINOR_BLOCK_HEADER requests.
- `validated`: the hashes recorded by `addValidatedMinorBlockHash`.

Actions:
- `MineStart` (325-338): the eco fan-out to every slave.
- `EcoDone` (339-386): the root wins and the header fan-out is written, or
  a shard wins and its dispatch slave is asked for a block. The
  selection itself is `MiningDispatcher`'s.
- `HeadersDone` (286-313): the header lists are merged by shard. Replicas
  are last-writer-wins in every `slavePool` order. A shard below
  `PROOF_OF_PROGRESS_BLOCKS` falls back to a minor block. Otherwise the
  call builds on the root tip *of this moment*.
- `MinorDone` (315-323): the minor block is returned.
- `MasterRead(s)` (134-145): the master reads `s`'s link in order:
  - a reply resolves the gather;
  - an ADD_MINOR_BLOCK_HEADER request runs
    `handleAddMinorBlockHeaderRequest`.
- Slaves, from the spec:
  - `SlaveAnswerMiner`: the unconfirmed headers are the known ones minus
    those confirmed by the root blocks the slave has applied.
  - `SlaveAddMinorBlock`: produces a header and sends it upstream.

Bounds (`MC_RootMining`):
- s1 runs shard 0. s2 runs shards 0 and 1, so shard 0 is replicated.
- r1 confirms h0a and h1a. r2, a child of r1, confirms h0b and h1b.
- r1 and r2 come from peers or from the local caller c1.
- h1b is produced during the run; the other headers exist from the start.
- There is one mining call (`MaxMines = 1`), so the call can start before,
  between or after the root blocks. It builds on genesis, on r1 (only once
  h1b exists) or falls back after r2.
- There are 205,955 states, checked in about 30 s.

Fairness: weak fairness on the serializer's steps, on the miner's resumptions,
on the slaves' handling and on the master's reads. These are the event loop
and open links. There is none on root-block arrival, minor-block production
or the start of a mining call: those come from outside. The run checks
invariants only: the mining call returning holds by construction, because
its gathers await exactly the slaves it wrote to. The run ends, hence
`CHECK_DEADLOCK FALSE`.

| Run | Expect | Shows |
|---|---|---|
| `root_mining` | pass | `FreshHeadersWhenTipStable`: when the root tip did not move across the header fan-out, the mined block carries no header its parent chain already confirms, even with replicas merged in any order. `MinedHeadersValidated`: every mined header was first recorded by the ADD_MINOR_BLOCK_HEADER handler. |
| `root_mining_stale_headers` | violation | `MinedHeadersUnconfirmed` fails (313). r1 is added to the root state during the header gather, before its ADD_ROOT_BLOCK reaches the slaves. The slaves report h0a and h1a, and `createBlockToMine` builds on r1 with headers r1 already confirms. |

## 4. Findings

Each violation run gives one finding. `PROJECT.json` "findings" has the
details.

- 432 (code bug): once the tip has moved in a drain, the short-circuit `or`
  broadcasts later blocks without `RootState.addBlock`.
- 439: a slave error leaves `isUpdatingRootBlock` set, so root blocks queue
  forever.
- 375: the reservoir tie-break is not uniform, against spec S4.
- 249: a config that does not cover every shard leaves readiness pending
  forever.
- 458: `addRootBlock` returns before its block is applied when another drain
  is running.
- 313 (code bug): a root block added during the header gather makes the
  miner build on the new tip with headers it already confirms.

## 5. Hazards

`PROJECT.json` "hazards" lists what is hard to test in this code: where it
bites, and which properties cover it. Some hazards have no property yet:

- 456: a block is validated at enqueue and applied at pop. The spec's
  RootState accepts a block whose parent is known, so validity cannot be
  lost in between. The hazard needs a validity rule that can be revoked,
  and the spec gives none.
- 365: eco is computed in floating point.
- 493: CREATE results are ignored.
- 519: a slave may report a partial stats list.
- 585: a failure around readiness. The loop stops when readiness
  completes, so `ReadyOnlyWhileUp` already covers it.
- 517: `getStats` merges replicas last-writer-wins, a rule the spec does
  not state.

The note on each hazard gives the reason.
