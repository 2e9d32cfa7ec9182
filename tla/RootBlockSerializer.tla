------------------------- MODULE RootBlockSerializer -------------------------
(***************************************************************************)
(* The root-block update serializer of MasterServer (master.py 417-460).  *)
(*                                                                         *)
(* Root blocks reach the master on two paths: the peer receive path calls *)
(* updateRootBlock, which enqueues and starts a drain task with           *)
(* asyncio.ensure_future; a local caller (JSON-RPC, miner) awaits         *)
(* addRootBlock, which validates, enqueues and drains inline.  The drain  *)
(* (updateRooBlockAsync) pops blocks, adds each to the root state and     *)
(* broadcasts ADD_ROOT_BLOCK_REQUEST to every slave, awaiting all replies. *)
(*                                                                         *)
(* The master runs on one asyncio event loop: a task runs without         *)
(* interruption from one await to the next.  `running` is the task that   *)
(* holds the loop; every step that ends in an await releases it.          *)
(*                                                                         *)
(* RootState and the slaves are collaborators outside src/: the root      *)
(* state accepts a block whose parent it knows and reports whether the    *)
(* tip moved; a slave applies ADD_ROOT_BLOCK requests in link order.      *)
(***************************************************************************)
EXTENDS Naturals, Sequences, FiniteSets

CONSTANTS
  Slaves,        \* the slave connections of slavePool
  Blocks,        \* the root blocks that may arrive
  Genesis,       \* the genesis root block, known to the root state at start
  Parent,        \* Parent[b]: the parent of root block b
  Callers,       \* tasks awaiting addRootBlock (JSON-RPC handler, local miner)
  NetTask,       \* the task asyncio.ensure_future creates in updateRootBlock
  NoTask,        \* no task holds the event loop
  SlaveMayFail   \* whether a slave may answer ADD_ROOT_BLOCK with an error

ASSUME /\ Parent \in [Blocks -> Blocks \cup {Genesis}]
       /\ Genesis \notin Blocks
       /\ NetTask \notin Callers
       /\ NoTask \notin Callers \cup {NetTask}
       /\ SlaveMayFail \in BOOLEAN

Tasks == Callers \cup {NetTask}

\* The program points of a task that can drain the queue.
Idle == "idle"          \* not inside updateRooBlockAsync
Scheduled == "scheduled" \* created by ensure_future, not yet started
Loop == "loop"          \* at the `while` test of updateRooBlockAsync
Await == "await"        \* at `await asyncio.gather(*futureList)`
Draining == {Scheduled, Loop, Await}

RECURSIVE Height(_)
Height(b) == IF b = Genesis THEN 0 ELSE 1 + Height(Parent[b])

VARIABLES
  rootBlockUpdateQueue,  \* MasterServer.rootBlockUpdateQueue
  isUpdatingRootBlock,   \* MasterServer.isUpdatingRootBlock
  pc,                    \* pc[t]: program point of task t
  updateTip,             \* updateTip[t]: local `updateTip` of t's drain
  running,               \* the task holding the event loop, or NoTask
  rootBlocks,            \* blocks the RootState has added
  tip,                   \* RootState.tip
  notifiedTip,           \* the tip peers were last sent by sendUpdatedTip
  toSlave,               \* toSlave[s]: ADD_ROOT_BLOCK requests in flight on s's link
  slaveRootBlocks,       \* slaveRootBlocks[s]: root blocks slave s applied, in order
  acked,                 \* acked[t]: slaves that answered t's broadcast with errorCode 0
  nacked,                \* nacked[t]: slaves that answered t's broadcast with an error
  submitted,             \* <<b, path>> pairs already delivered (bounds the arrivals)
  accepted               \* <<b, c>>: addRootBlock(b) of caller c passed validateBlock

vars == <<rootBlockUpdateQueue, isUpdatingRootBlock, pc, updateTip, running,
          rootBlocks, tip, notifiedTip, toSlave, slaveRootBlocks, acked,
          nacked, submitted, accepted>>

rootStateVars == <<rootBlocks, tip>>
linkVars == <<toSlave, slaveRootBlocks, acked, nacked>>

-----------------------------------------------------------------------------
(* RootState (outside src/): a block is valid when its parent is known;   *)
(* addBlock returns whether the block became the new tip.                 *)

IsValid(b) == Parent[b] \in rootBlocks \cup {Genesis}

TipUpdatedBy(b) == Height(b) > Height(tip)

\* addBlock on a valid block.
RootStateAddBlock(b) ==
  /\ rootBlocks' = rootBlocks \cup {b}
  /\ tip' = IF TipUpdatedBy(b) THEN b ELSE tip

-----------------------------------------------------------------------------
(* Mutant: the request is written on the dispatch slave's link only, as  *)
(* with getSlaveConnection, while the gather still waits for every slave. *)
BroadcastAndAwaitOneSlave(t, rb) ==
  /\ \E s \in Slaves : toSlave' = [toSlave EXCEPT ![s] = Append(@, [block |-> rb, task |-> t])]
  /\ acked' = [acked EXCEPT ![t] = {}]
  /\ nacked' = [nacked EXCEPT ![t] = {}]
  /\ pc' = [pc EXCEPT ![t] = Await]
  /\ running' = NoTask
  /\ UNCHANGED slaveRootBlocks

(* MasterServer.broadcastRpc(ADD_ROOT_BLOCK_REQUEST) followed by the       *)
(* `await asyncio.gather(...)` of updateRooBlockAsync: one request is      *)
(* written on every slave link and task t yields the loop.                *)
BroadcastAndAwait(t, rb) ==
  /\ toSlave' = [s \in Slaves |-> Append(toSlave[s], [block |-> rb, task |-> t])]
  /\ acked' = [acked EXCEPT ![t] = {}]
  /\ nacked' = [nacked EXCEPT ![t] = {}]
  /\ pc' = [pc EXCEPT ![t] = Await]
  /\ running' = NoTask
  /\ UNCHANGED slaveRootBlocks

\* Mutant: `updateTip = self.rootState.addBlock(rBlock)` (the `or` dropped):
\* a later block that does not move the tip clears the flag.
AddBlockAndBroadcastNoOr(t, rb) ==
  \/ /\ ~IsValid(rb)
     /\ UNCHANGED <<rootStateVars, updateTip, pc, running, linkVars>>
  \/ /\ IsValid(rb)
     /\ RootStateAddBlock(rb)
     /\ updateTip' = [updateTip EXCEPT ![t] = TipUpdatedBy(rb)]
     /\ BroadcastAndAwait(t, rb)

\* Mutant: addBlock returning the new tip block instead of a bool; Python's
\* `or` then stores the block itself in updateTip.
AddBlockAndBroadcastTipValue(t, rb) ==
  \/ /\ updateTip[t] = TRUE
     /\ BroadcastAndAwait(t, rb)
     /\ UNCHANGED <<rootStateVars, updateTip>>
  \/ /\ updateTip[t] # TRUE
     /\ ~IsValid(rb)
     /\ UNCHANGED <<rootStateVars, updateTip, pc, running, linkVars>>
  \/ /\ updateTip[t] # TRUE
     /\ IsValid(rb)
     /\ RootStateAddBlock(rb)
     /\ updateTip' = [updateTip EXCEPT ![t] = IF TipUpdatedBy(rb) THEN rb ELSE FALSE]
     /\ BroadcastAndAwait(t, rb)

\* `updateTip = updateTip or self.rootState.addBlock(rBlock)`: once updateTip
\* is TRUE the `or` short-circuits and addBlock is not called; a ValueError
\* from addBlock is caught and the loop continues with the next block.
AddBlockAndBroadcast(t, rb) ==
  \/ /\ updateTip[t]
     /\ BroadcastAndAwait(t, rb)
     /\ UNCHANGED <<rootStateVars, updateTip>>
  \/ /\ ~updateTip[t]
     /\ ~IsValid(rb)
     /\ UNCHANGED <<rootStateVars, updateTip, pc, running, linkVars>>
  \/ /\ ~updateTip[t]
     /\ IsValid(rb)
     /\ RootStateAddBlock(rb)
     /\ updateTip' = [updateTip EXCEPT ![t] = TipUpdatedBy(rb)]
     /\ BroadcastAndAwait(t, rb)

-----------------------------------------------------------------------------
(* Actions *)

\* Mutant: asyncio.ensure_future dropped from updateRootBlock.
updateRootBlockNoTask(b) ==
  /\ running = NoTask
  /\ <<b, NetTask>> \notin submitted
  /\ submitted' = submitted \cup {<<b, NetTask>>}
  /\ rootBlockUpdateQueue' = Append(rootBlockUpdateQueue, b)
  /\ isUpdatingRootBlock' = TRUE
  /\ UNCHANGED <<pc, updateTip, running, rootStateVars, notifiedTip, linkVars, accepted>>

\* MasterServer.updateRootBlock(rBlock), called synchronously from the peer
\* receive path: enqueue, and start a drain task unless one is running.
updateRootBlock(b) ==
  /\ running = NoTask
  /\ <<b, NetTask>> \notin submitted
  /\ submitted' = submitted \cup {<<b, NetTask>>}
  /\ rootBlockUpdateQueue' = Append(rootBlockUpdateQueue, b)
  /\ IF isUpdatingRootBlock
       THEN UNCHANGED <<isUpdatingRootBlock, pc>>
       ELSE /\ isUpdatingRootBlock' = TRUE
            /\ pc' = [pc EXCEPT ![NetTask] = Scheduled]
  /\ UNCHANGED <<updateTip, running, rootStateVars, notifiedTip, linkVars, accepted>>

\* The ensure_future task starts updateRooBlockAsync: check(isUpdatingRootBlock)
\* raises (ending the task) when the flag is down; otherwise updateTip = False.
StartUpdateTask ==
  /\ running = NoTask
  /\ pc[NetTask] = Scheduled
  /\ IF isUpdatingRootBlock
       THEN /\ running' = NetTask
            /\ pc' = [pc EXCEPT ![NetTask] = Loop]
            /\ updateTip' = [updateTip EXCEPT ![NetTask] = FALSE]
       ELSE /\ pc' = [pc EXCEPT ![NetTask] = Idle]
            /\ UNCHANGED <<running, updateTip>>
  /\ UNCHANGED <<rootBlockUpdateQueue, isUpdatingRootBlock, rootStateVars,
                 notifiedTip, linkVars, submitted, accepted>>

\* One pass of `while len(self.rootBlockUpdateQueue) != 0` in
\* updateRooBlockAsync.  On an empty queue the flag is lowered and, if the
\* tip moved, every peer is sent the tip (sendUpdatedTip, synchronous).
DrainStep(t) ==
  /\ running = t
  /\ pc[t] = Loop
  /\ \/ /\ rootBlockUpdateQueue = <<>>
        /\ isUpdatingRootBlock' = FALSE
        /\ notifiedTip' = IF updateTip[t] THEN tip ELSE notifiedTip
        /\ pc' = [pc EXCEPT ![t] = Idle]
        /\ running' = NoTask
        /\ UNCHANGED <<rootBlockUpdateQueue, updateTip, rootStateVars, linkVars>>
     \/ /\ rootBlockUpdateQueue # <<>>
        /\ rootBlockUpdateQueue' = Tail(rootBlockUpdateQueue)
        /\ AddBlockAndBroadcast(t, Head(rootBlockUpdateQueue))
        /\ UNCHANGED <<isUpdatingRootBlock, notifiedTip>>
  /\ UNCHANGED <<submitted, accepted>>

\* Mutant: `while` replaced by `if`: the drain ends after one broadcast.
AwaitBroadcastNoLoop(t) ==
  /\ running = NoTask
  /\ pc[t] = Await
  /\ acked[t] \cup nacked[t] = Slaves
  /\ isUpdatingRootBlock' = FALSE
  /\ notifiedTip' = IF updateTip[t] THEN tip ELSE notifiedTip
  /\ pc' = [pc EXCEPT ![t] = Idle]
  /\ UNCHANGED <<rootBlockUpdateQueue, updateTip, running, rootStateVars,
                 linkVars, submitted, accepted>>

\* Mutant: the drain resumes on the first reply instead of all of them.
AwaitBroadcastFirstReply(t) ==
  /\ running = NoTask
  /\ pc[t] = Await
  /\ acked[t] \cup nacked[t] # {}
  /\ IF nacked[t] = {}
       THEN /\ running' = t
            /\ pc' = [pc EXCEPT ![t] = Loop]
       ELSE /\ pc' = [pc EXCEPT ![t] = Idle]
            /\ UNCHANGED running
  /\ UNCHANGED <<rootBlockUpdateQueue, isUpdatingRootBlock, updateTip,
                 rootStateVars, notifiedTip, linkVars, submitted, accepted>>

\* The gather completes once every slave answered; check(all errorCode == 0)
\* raises when one did not, which ends the drain with isUpdatingRootBlock
\* still TRUE.
AwaitBroadcast(t) ==
  /\ running = NoTask
  /\ pc[t] = Await
  /\ acked[t] \cup nacked[t] = Slaves
  /\ IF nacked[t] = {}
       THEN /\ running' = t
            /\ pc' = [pc EXCEPT ![t] = Loop]
       ELSE /\ pc' = [pc EXCEPT ![t] = Idle]
            /\ UNCHANGED running
  /\ UNCHANGED <<rootBlockUpdateQueue, isUpdatingRootBlock, updateTip,
                 rootStateVars, notifiedTip, linkVars, submitted, accepted>>

\* Mutant: the isUpdatingRootBlock test dropped from addRootBlock.
addRootBlockNoFlagCheck(c, b) ==
  /\ running = NoTask
  /\ pc[c] = Idle
  /\ <<b, c>> \notin submitted
  /\ submitted' = submitted \cup {<<b, c>>}
  /\ \/ /\ ~IsValid(b)
        /\ UNCHANGED <<rootBlockUpdateQueue, isUpdatingRootBlock, pc, updateTip, running,
                       accepted>>
     \/ /\ IsValid(b)
        /\ accepted' = accepted \cup {<<b, c>>}
        /\ rootBlockUpdateQueue' = Append(rootBlockUpdateQueue, b)
        /\ isUpdatingRootBlock' = TRUE
        /\ running' = c
        /\ pc' = [pc EXCEPT ![c] = Loop]
        /\ updateTip' = [updateTip EXCEPT ![c] = FALSE]
  /\ UNCHANGED <<rootStateVars, notifiedTip, linkVars>>

\* MasterServer.addRootBlock(block), awaited by caller c: validateBlock raises
\* to the caller on an invalid block; otherwise enqueue, and drain inline
\* unless a drain is already running (then return at once).
addRootBlock(c, b) ==
  /\ running = NoTask
  /\ pc[c] = Idle
  /\ <<b, c>> \notin submitted
  /\ submitted' = submitted \cup {<<b, c>>}
  /\ \/ /\ ~IsValid(b)
        /\ UNCHANGED <<rootBlockUpdateQueue, isUpdatingRootBlock, pc, updateTip, running,
                       accepted>>
     \/ /\ IsValid(b)
        /\ accepted' = accepted \cup {<<b, c>>}
        /\ rootBlockUpdateQueue' = Append(rootBlockUpdateQueue, b)
        /\ IF isUpdatingRootBlock
             THEN UNCHANGED <<isUpdatingRootBlock, pc, updateTip, running>>
             ELSE /\ isUpdatingRootBlock' = TRUE
                  /\ running' = c
                  /\ pc' = [pc EXCEPT ![c] = Loop]
                  /\ updateTip' = [updateTip EXCEPT ![c] = FALSE]
  /\ UNCHANGED <<rootStateVars, notifiedTip, linkVars>>

\* Slave s handles the next ADD_ROOT_BLOCK_REQUEST on its link (in order)
\* and its reply resolves the master's future: errorCode 0 after applying
\* the block, or an error when SlaveMayFail.
SlaveAddRootBlock(s) ==
  /\ toSlave[s] # <<>>
  /\ LET m == Head(toSlave[s]) IN
       /\ toSlave' = [toSlave EXCEPT ![s] = Tail(@)]
       /\ \/ /\ slaveRootBlocks' = [slaveRootBlocks EXCEPT ![s] = Append(@, m.block)]
             /\ acked' = [acked EXCEPT ![m.task] = @ \cup {s}]
             /\ UNCHANGED nacked
          \/ /\ SlaveMayFail
             /\ nacked' = [nacked EXCEPT ![m.task] = @ \cup {s}]
             /\ UNCHANGED <<slaveRootBlocks, acked>>
  /\ UNCHANGED <<rootBlockUpdateQueue, isUpdatingRootBlock, pc, updateTip,
                 running, rootStateVars, notifiedTip, submitted, accepted>>

-----------------------------------------------------------------------------
Init ==
  /\ rootBlockUpdateQueue = <<>>
  /\ isUpdatingRootBlock = FALSE
  /\ pc = [t \in Tasks |-> Idle]
  /\ updateTip = [t \in Tasks |-> FALSE]
  /\ running = NoTask
  /\ rootBlocks = {}
  /\ tip = Genesis
  /\ notifiedTip = Genesis
  /\ toSlave = [s \in Slaves |-> <<>>]
  /\ slaveRootBlocks = [s \in Slaves |-> <<>>]
  /\ acked = [t \in Tasks |-> {}]
  /\ nacked = [t \in Tasks |-> {}]
  /\ submitted = {}
  /\ accepted = {}

Next ==
  \/ \E b \in Blocks : updateRootBlock(b)
  \/ StartUpdateTask
  \/ \E t \in Tasks : DrainStep(t) \/ AwaitBroadcast(t)
  \/ \E c \in Callers, b \in Blocks : addRootBlock(c, b)
  \/ \E s \in Slaves : SlaveAddRootBlock(s)

\* The event loop runs every ready task (weak fairness on each task's steps);
\* slaves answer every request (the link is not lost).  Arrivals are not fair.
Fairness ==
  /\ WF_vars(StartUpdateTask)
  /\ \A t \in Tasks : WF_vars(DrainStep(t)) /\ WF_vars(AwaitBroadcast(t))
  /\ \A s \in Slaves : WF_vars(SlaveAddRootBlock(s))

Spec == Init /\ [][Next]_vars /\ Fairness

-----------------------------------------------------------------------------
(* Properties *)

Msgs == [block : Blocks, task : Tasks]

TypeOK ==
  /\ rootBlockUpdateQueue \in Seq(Blocks)
  /\ isUpdatingRootBlock \in BOOLEAN
  /\ pc \in [Tasks -> {Idle} \cup Draining]
  /\ updateTip \in [Tasks -> BOOLEAN]
  /\ running \in Tasks \cup {NoTask}
  /\ rootBlocks \subseteq Blocks
  /\ tip \in Blocks \cup {Genesis}
  /\ notifiedTip \in Blocks \cup {Genesis}
  /\ toSlave \in [Slaves -> Seq(Msgs)]
  /\ slaveRootBlocks \in [Slaves -> Seq(Blocks)]
  /\ acked \in [Tasks -> SUBSET Slaves]
  /\ nacked \in [Tasks -> SUBSET Slaves]
  /\ submitted \subseteq Blocks \times Tasks
  /\ accepted \subseteq Blocks \times Callers

DrainingTasks == {t \in Tasks : pc[t] \in Draining}

\* At most one task is inside updateRooBlockAsync at any instant, whether it
\* came from the ensure_future of updateRootBlock or the inline drain of
\* addRootBlock (spec section 8, invariant 2).
SingleDrainer == Cardinality(DrainingTasks) <= 1

\* No lost wakeup: a block waiting in rootBlockUpdateQueue always has a drain
\* task that will reach it, so an enqueue that saw isUpdatingRootBlock = TRUE
\* is never left behind by a drain that is finishing.
NoStrandedBlock == rootBlockUpdateQueue # <<>> => DrainingTasks # {}

\* When no drain is running the peers have been sent the current root tip:
\* the updateTip flag of each drain records every tip move it caused.
PeersLearnTip == DrainingTasks = {} => notifiedTip = tip

\* Every root block the slaves were sent has been added to the RootState
\* (spec 4.C: each popped block is given to root_state.add_block before the
\* broadcast; an invalid block is skipped).
SlavesOnlyGetAcceptedBlocks ==
  \A s \in Slaves :
    \A i \in 1..Len(slaveRootBlocks[s]) : slaveRootBlocks[s][i] \in rootBlocks

InQueue(b) == \E i \in 1..Len(rootBlockUpdateQueue) : rootBlockUpdateQueue[i] = b

\* A valid block in the queue eventually reaches every slave: the drain
\* neither stalls nor drops a block the root state would accept.
QueuedBlockReachesSlaves ==
  \A b \in Blocks :
    (InQueue(b) /\ IsValid(b)) ~>
      \A s \in Slaves : \E i \in 1..Len(slaveRootBlocks[s]) : slaveRootBlocks[s][i] = b

\* When an awaited addRootBlock has returned, the block it accepted is in
\* the root state (spec 4.C: the synchronous variant validates and then
\* runs the drain inline), so the caller may build on it.
AddRootBlockReturnsApplied ==
  \A c \in Callers : pc[c] = Idle =>
    \A b \in Blocks : <<b, c>> \in accepted => b \in rootBlocks

\* The serializer implements RootBlockBroadcast: the queue is the update
\* queue, the slaves' logs are what they applied, and the deliveries in
\* flight are the requests still on the links.
InFlight == {[block |-> Head(toSlave[s]).block, slave |-> s] :
               s \in {x \in Slaves : toSlave[x] # <<>>}}

Abs == INSTANCE RootBlockBroadcast
         WITH queue <- rootBlockUpdateQueue, inflight <- InFlight,
              delivered <- slaveRootBlocks

\* Root blocks are broadcast strictly one at a time, in queue order, each
\* reaching every slave before the next leaves the queue (spec 5: strict
\* serial application across both producers), and the queue keeps draining.
SerialBroadcast == Abs!Spec

=============================================================================
