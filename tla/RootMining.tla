------------------------------ MODULE RootMining ------------------------------
(***************************************************************************)
(* The mining path of MasterServer.getNextBlockToMine (master.py 280-386)  *)
(* running on the same event loop and the same slave links as the root-   *)
(* block serializer (417-480).                                             *)
(*                                                                         *)
(* A miner call fans out GET_ECO_INFO_LIST and awaits it; if the root wins *)
(* it fans out GET_UNCONFIRMED_HEADERS and awaits again, checks proof of   *)
(* progress per shard, and calls rootState.createBlockToMine(headerList)   *)
(* on the root tip of that moment.  Meanwhile the drain of the serializer  *)
(* may add root blocks to the root state and broadcast them.  Each slave   *)
(* handles its link in order and reports as unconfirmed the headers it     *)
(* knows that no root block it has applied confirms.  A slave that adds a  *)
(* minor block sends ADD_MINOR_BLOCK_HEADER on its link to the master,     *)
(* which records the hash as validated (handleAddMinorBlockHeaderRequest,  *)
(* 131-140); the master reads each link in order.                          *)
(*                                                                         *)
(* The eco values are abstracted: the winner of the selection (checked in  *)
(* MiningDispatcher) is any branch.  Root blocks form one chain here.      *)
(***************************************************************************)
EXTENDS RootBlockSerializer, SequencesExt

CONSTANTS
  Miner,                    \* the task running getNextBlockToMine
  Headers,                  \* minor block headers the shards have produced
  HeaderShard,              \* HeaderShard[h]: the shard of header h
  Confirms,                 \* Confirms[b]: the minor headers root block b includes
  Serves,                   \* Serves[s]: the shards slave s runs
  InitialHeaders,           \* headers every slave of the shard has, validated at start
  SHARD_SIZE,
  PROOF_OF_PROGRESS_BLOCKS,
  MaxMines                  \* number of getNextBlockToMine calls

MShards == 0..(SHARD_SIZE - 1)

ASSUME /\ Miner \notin Tasks \cup {NoTask}
       /\ HeaderShard \in [Headers -> MShards]
       /\ Confirms \in [Blocks -> SUBSET Headers]
       /\ Serves \in [Slaves -> SUBSET MShards]
       /\ InitialHeaders \subseteq Headers

\* Requests of the miner share the links with ADD_ROOT_BLOCK requests.
MinerOps == {"eco", "headers", "next"}

VARIABLES
  minerPc,       \* "idle", "eco", "headers", "minor"
  minerWaiting,  \* slaves whose reply the miner's gather still awaits
  headerReplies, \* headerReplies[s]: headers s reported unconfirmed
  requestTip,    \* root tip when GET_UNCONFIRMED_HEADERS was written
  mines,         \* calls completed
  mined,         \* [parent, headers, requestedAt] of every root block created to mine
  known,         \* known[s]: minor headers slave s has added
  toMaster,      \* toMaster[s]: [op, val] replies and ADD_MINOR_BLOCK_HEADER requests from s
  validated      \* rootState's validated minor block hashes

minerVars == <<minerPc, minerWaiting, headerReplies, requestTip, mines, mined,
               known, toMaster, validated>>
allVars == <<vars, minerVars>>
\* The serializer's variables but the links, which the miner shares.
serializerVarsButLinks ==
  <<rootBlockUpdateQueue, isUpdatingRootBlock, pc, updateTip, running,
    rootBlocks, tip, notifiedTip, slaveRootBlocks, acked, nacked, submitted, accepted>>

RECURSIVE ChainConfirms(_)
\* The minor headers the root chain ending in b has confirmed.
ChainConfirms(b) ==
  IF b = Genesis THEN {} ELSE Confirms[b] \cup ChainConfirms(Parent[b])

\* A slave's GET_UNCONFIRMED_HEADERS answer, from the root blocks it applied.
Unconfirmed(s) ==
  known[s] \
    UNION {Confirms[slaveRootBlocks[s][i]] : i \in 1..Len(slaveRootBlocks[s])}

\* getSlaveConnection: the slave running the shard.
DispatchSlave(b) == CHOOSE s \in Slaves : b \in Serves[s]

\* writeRpcRequest on every link of S, then await the gather.
MinerRequest(op, S, next) ==
  /\ toSlave' = [s \in Slaves |->
                   IF s \in S THEN Append(toSlave[s], [block |-> op, task |-> Miner])
                   ELSE toSlave[s]]
  /\ minerWaiting' = S
  /\ minerPc' = next

-----------------------------------------------------------------------------
(* The miner task; each step runs from an await to the next.              *)

\* Mutant: the eco fan-out written with the op of another request.
MineStartWrongOp ==
  /\ running = NoTask
  /\ minerPc = "idle"
  /\ mines < MaxMines
  /\ MinerRequest("stats", Slaves, "eco")
  /\ UNCHANGED <<headerReplies, requestTip, mines, mined, known, toMaster, validated>>

\* getNextBlockToMine(address) with shardMaskValue = 0: every slave is asked.
MineStart ==
  /\ running = NoTask
  /\ minerPc = "idle"
  /\ mines < MaxMines
  /\ MinerRequest("eco", Slaves, "eco")
  /\ UNCHANGED <<headerReplies, requestTip, mines, mined, known, toMaster, validated>>

\* The eco gather completes: the root wins and the unconfirmed headers are
\* requested, or a shard wins and its dispatch slave is asked for a block.
EcoDone ==
  /\ running = NoTask
  /\ minerPc = "eco" /\ minerWaiting = {}
  /\ \/ /\ MinerRequest("headers", Slaves, "headers")
        /\ requestTip' = tip
     \/ /\ \E b \in MShards : MinerRequest("next", {DispatchSlave(b)}, "minor")
        /\ UNCHANGED requestTip
  /\ UNCHANGED <<headerReplies, mines, mined, known, toMaster, validated>>

\* The header gather completes: the lists are merged by shard (replicas
\* last-writer-wins in slavePool order); the first shard below
\* PROOF_OF_PROGRESS_BLOCKS gets a minor block instead; otherwise
\* createBlockToMine builds on the root tip of this moment.
HeadersDone ==
  /\ running = NoTask
  /\ minerPc = "headers" /\ minerWaiting = {}
  /\ \E order \in SetToSeqs(Slaves) :
       LET last(b) == CHOOSE k \in 1..Len(order) :
                        /\ b \in Serves[order[k]]
                        /\ \A j \in (k + 1)..Len(order) : b \notin Serves[order[j]]
           list(b) == {h \in headerReplies[order[last(b)]] : HeaderShard[h] = b}
           short == {b \in MShards : Cardinality(list(b)) < PROOF_OF_PROGRESS_BLOCKS}
       IN \/ /\ short # {}
             /\ MinerRequest("next", {DispatchSlave(Min(short))}, "minor")
             /\ UNCHANGED <<mines, mined>>
          \/ /\ short = {}
             /\ mined' = mined \cup {[parent |-> tip, requestedAt |-> requestTip,
                                      headers |-> UNION {list(b) : b \in MShards}]}
             /\ mines' = mines + 1
             /\ minerPc' = "idle"
             /\ UNCHANGED <<toSlave, minerWaiting>>
  /\ UNCHANGED <<headerReplies, requestTip, known, toMaster, validated>>

\* __getMinorBlockToMine returns the dispatch slave's block.
MinorDone ==
  /\ running = NoTask
  /\ minerPc = "minor" /\ minerWaiting = {}
  /\ minerPc' = "idle"
  /\ mines' = mines + 1
  /\ UNCHANGED <<toSlave, minerWaiting, headerReplies, requestTip, mined, known,
                 toMaster, validated>>

\* Mutant: the handler replies without recording the hash.
MasterReadNoRecord(s) ==
  /\ running = NoTask
  /\ toMaster[s] # <<>>
  /\ LET m == Head(toMaster[s]) IN
       IF m.op = "header"
         THEN UNCHANGED <<minerWaiting, headerReplies, validated>>
         ELSE /\ minerWaiting' = minerWaiting \ {s}
              /\ headerReplies' = IF m.op = "headers" THEN [headerReplies EXCEPT ![s] = m.val]
                                  ELSE headerReplies
              /\ UNCHANGED validated
  /\ toMaster' = [toMaster EXCEPT ![s] = Tail(@)]
  /\ UNCHANGED <<toSlave, minerPc, requestTip, mines, mined, known>>

\* The master reads the next frame from s: a reply resolves the miner's
\* future; an ADD_MINOR_BLOCK_HEADER request is handled by
\* handleAddMinorBlockHeaderRequest, which records the hash in the root
\* state before anything read later from s is processed.
MasterRead(s) ==
  /\ running = NoTask
  /\ toMaster[s] # <<>>
  /\ LET m == Head(toMaster[s]) IN
       IF m.op = "header"
         THEN /\ validated' = validated \cup m.val
              /\ UNCHANGED <<minerWaiting, headerReplies>>
         ELSE /\ minerWaiting' = minerWaiting \ {s}
              /\ headerReplies' = IF m.op = "headers" THEN [headerReplies EXCEPT ![s] = m.val]
                                  ELSE headerReplies
              /\ UNCHANGED validated
  /\ toMaster' = [toMaster EXCEPT ![s] = Tail(@)]
  /\ UNCHANGED <<toSlave, minerPc, requestTip, mines, mined, known>>

-----------------------------------------------------------------------------
(* Slaves (outside src/) *)

\* A slave answers the miner's request at the head of its link.
SlaveAnswerMiner(s) ==
  /\ toSlave[s] # <<>> /\ Head(toSlave[s]).task = Miner
  /\ toSlave' = [toSlave EXCEPT ![s] = Tail(@)]
  /\ toMaster' = [toMaster EXCEPT ![s] =
                   Append(@, [op |-> Head(toSlave[s]).block,
                              val |-> IF Head(toSlave[s]).block = "headers"
                                        THEN Unconfirmed(s) ELSE {}])]
  /\ UNCHANGED <<minerPc, minerWaiting, headerReplies, requestTip, mines, mined,
                 known, validated>>

\* A slave adds a minor block of one of its shards and sends its header.
SlaveAddMinorBlock(s, h) ==
  /\ HeaderShard[h] \in Serves[s]
  /\ h \notin known[s]
  /\ known' = [known EXCEPT ![s] = @ \cup {h}]
  /\ toMaster' = [toMaster EXCEPT ![s] = Append(@, [op |-> "header", val |-> {h}])]
  /\ UNCHANGED <<toSlave, minerPc, minerWaiting, headerReplies, requestTip, mines,
                 mined, validated>>

-----------------------------------------------------------------------------
\* The serializer's steps leave the miner alone.
Serializer(A) == A /\ UNCHANGED minerVars

\* The miner's steps leave the serializer alone, its links aside.
Mining(A) == A /\ UNCHANGED serializerVarsButLinks

\* A slave handles the request at the head of its link, whoever wrote it.
SlaveStep(s) ==
  \/ Mining(SlaveAnswerMiner(s))
  \/ /\ toSlave[s] # <<>> /\ Head(toSlave[s]).task # Miner
     /\ Serializer(SlaveAddRootBlock(s))

ComposedInit ==
  /\ Init
  /\ minerPc = "idle"
  /\ minerWaiting = {}
  /\ headerReplies = [s \in Slaves |-> {}]
  /\ requestTip = Genesis
  /\ mines = 0
  /\ mined = {}
  /\ known = [s \in Slaves |-> {h \in InitialHeaders : HeaderShard[h] \in Serves[s]}]
  /\ toMaster = [s \in Slaves |-> <<>>]
  /\ validated = InitialHeaders

ComposedNext ==
  \/ Mining(MineStart \/ EcoDone \/ HeadersDone \/ MinorDone)
  \/ Serializer(\E b \in Blocks : updateRootBlock(b))
  \/ Serializer(StartUpdateTask)
  \/ \E t \in Tasks : Serializer(DrainStep(t)) \/ Serializer(AwaitBroadcast(t))
  \/ \E c \in Callers, b \in Blocks : Serializer(addRootBlock(c, b))
  \/ \E s \in Slaves : SlaveStep(s) \/ Mining(MasterRead(s))
  \/ \E s \in Slaves, h \in Headers : Mining(SlaveAddMinorBlock(s, h))

\* The event loop resumes every ready task, the miner's included, and the
\* slaves answer every request and the master reads every link; root
\* blocks, minor blocks and mining calls are not fair.
ComposedFairness ==
  /\ WF_allVars(Serializer(StartUpdateTask))
  /\ \A t \in Tasks : /\ WF_allVars(Serializer(DrainStep(t)))
                     /\ WF_allVars(Serializer(AwaitBroadcast(t)))
  /\ WF_allVars(Mining(EcoDone)) /\ WF_allVars(Mining(HeadersDone))
  /\ WF_allVars(Mining(MinorDone))
  /\ \A s \in Slaves : WF_allVars(SlaveStep(s)) /\ WF_allVars(Mining(MasterRead(s)))

ComposedSpec == ComposedInit /\ [][ComposedNext]_allVars /\ ComposedFairness

-----------------------------------------------------------------------------
(* Properties *)

MinedBlocks == [parent : Blocks \cup {Genesis}, requestedAt : Blocks \cup {Genesis},
                headers : SUBSET Headers]

ComposedTypeOK ==
  /\ minerPc \in {"idle", "eco", "headers", "minor"}
  /\ minerWaiting \subseteq Slaves
  /\ headerReplies \in [Slaves -> SUBSET Headers]
  /\ mines \in 0..MaxMines
  /\ mined \subseteq MinedBlocks
  /\ known \in [Slaves -> SUBSET Headers]
  /\ toMaster \in [Slaves -> Seq([op : MinerOps \cup {"header"}, val : SUBSET Headers])]
  /\ validated \subseteq Headers
  /\ \A s \in Slaves : \A i \in 1..Len(toSlave[s]) :
       toSlave[s][i] \in Msgs \cup [block : MinerOps, task : {Miner}]

\* A root block created to mine includes only minor headers that its parent
\* chain has not confirmed yet (RootState would reject it otherwise, and the
\* mining work on it is lost).
MinedHeadersUnconfirmed ==
  \A m \in mined : m.headers \cap ChainConfirms(m.parent) = {}

\* When the root tip has not moved between the GET_UNCONFIRMED_HEADERS
\* fan-out and createBlockToMine, no header of the block to mine is
\* confirmed by the tip, whichever replica's list wins the merge: every
\* ADD_ROOT_BLOCK of the tip's chain was written on each link before the
\* header request, and slaves handle their links in order.
FreshHeadersWhenTipStable ==
  \A m \in mined :
    m.requestedAt = m.parent => m.headers \cap ChainConfirms(m.parent) = {}

\* A root block created to mine includes only minor headers the root state
\* has recorded as validated: each slave sends ADD_MINOR_BLOCK_HEADER before
\* it can report the header, and the master reads its link in order.
MinedHeadersValidated == \A m \in mined : m.headers \subseteq validated

====
