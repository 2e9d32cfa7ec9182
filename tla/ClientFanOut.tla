----------------------------- MODULE ClientFanOut -----------------------------
(***************************************************************************)
(* The client fan-outs of MasterServer (master.py 237-240, 388-415,       *)
(* 446-453, 505-533): getAccountData and its views, addTransaction to     *)
(* every replica of the branch, addRawMinorBlock to the dispatch slave    *)
(* (the first of branchToSlaves), and getStats over the whole slavePool,  *)
(* merged by branch in slavePool iteration order.                          *)
(*                                                                         *)
(* Each client (a JSON-RPC handler task) runs a script of calls.  A call  *)
(* writes its requests and awaits asyncio.gather of the replies; calls of *)
(* different clients interleave at those awaits.  Slaves handle requests  *)
(* in link order; a replica may reject a transaction or a block.          *)
(***************************************************************************)
EXTENDS Naturals, Sequences, SequencesExt

CONSTANTS
  Slaves,          \* slavePool
  SHARD_SIZE,
  Registry,        \* branchToSlaves after bring-up: shard -> slaves in config order
  Txs,             \* transactions
  TxBranch,        \* TxBranch[tx]: the branch of tx's EVM transaction
  Clients,
  Scripts,         \* Scripts[c]: the calls client c makes, in order
  ReplicaMayReject \* a slave may answer with errorCode != 0

Shards == 0..(SHARD_SIZE - 1)
Ops == [op : {"addTransaction", "getTransactionCount"}, arg : Txs]
       \cup [op : {"addRawMinorBlock"}, arg : Nat] \cup [op : {"getStats"}, arg : {0}]

ASSUME /\ Registry \in [Shards -> Seq(Slaves)]
       /\ Scripts \in [Clients -> Seq(Ops)]
       /\ ReplicaMayReject \in BOOLEAN

VARIABLES
  pc,        \* pc[c]: "call", "await" or "done"
  step,      \* step[c]: index in Scripts[c] of the current call
  waiting,   \* waiting[c]: slaves whose reply the gather still awaits
  replies,   \* replies[c]: [slave, val] replies received for the current call
  ret,       \* ret[c]: the values the calls of c returned, in order
  toSlave,   \* toSlave[s]: [op, arg, client] requests in flight to s
  pool,      \* pool[s]: transactions slave s accepted
  height     \* height[s][b]: height of shard b's chain on slave s

vars == <<pc, step, waiting, replies, ret, toSlave, pool, height>>

Op(c) == Scripts[c][step[c]]

-----------------------------------------------------------------------------
(* Master side *)

InRegistry(b) == b \in Shards /\ Registry[b] # <<>>

\* MasterServer.getSlaveConnection: the first slave of the branch.
getSlaveConnection(b) == Head(Registry[b])

\* Write the current call's request to every slave of S and await them.
Request(c, S) ==
  /\ toSlave' = [s \in Slaves |->
                   IF s \in S THEN Append(toSlave[s], [op |-> Op(c).op, arg |-> Op(c).arg, client |-> c])
                   ELSE toSlave[s]]
  /\ waiting' = [waiting EXCEPT ![c] = S]
  /\ pc' = [pc EXCEPT ![c] = "await"]
  /\ UNCHANGED ret

\* Mutant: the script position is not advanced.
ReturnNoStep(c, v) ==
  /\ ret' = [ret EXCEPT ![c] = Append(@, v)]
  /\ replies' = [replies EXCEPT ![c] = {}]
  /\ UNCHANGED step
  /\ pc' = [pc EXCEPT ![c] = IF step[c] = Len(Scripts[c]) THEN "done" ELSE "call"]

\* Return v from the current call.
Return(c, v) ==
  /\ ret' = [ret EXCEPT ![c] = Append(@, v)]
  /\ replies' = [replies EXCEPT ![c] = {}]
  /\ step' = [step EXCEPT ![c] = @ + 1]
  /\ pc' = [pc EXCEPT ![c] = IF step[c] = Len(Scripts[c]) THEN "done" ELSE "call"]

\* addTransaction up to its gather: unknown branch returns False, otherwise
\* one ADD_TRANSACTION request per slave of the branch.
addTransaction(c) ==
  LET b == TxBranch[Op(c).arg] IN
  \/ /\ ~InRegistry(b)
     /\ Return(c, FALSE)
     /\ UNCHANGED <<waiting, toSlave>>
  \/ /\ InRegistry(b)
     /\ Request(c, ToSet(Registry[b]))
     /\ UNCHANGED <<step, replies>>

\* getTransactionCount -> getAccountData: the address's shard, to its
\* dispatch slave.
getAccountData(c) ==
  /\ Request(c, {getSlaveConnection(TxBranch[Op(c).arg])})
  /\ UNCHANGED <<step, replies>>

\* addRawMinorBlock: unknown branch returns False, otherwise one
\* ADD_MINOR_BLOCK request to the dispatch slave.
addRawMinorBlock(c) ==
  \/ /\ ~InRegistry(Op(c).arg)
     /\ Return(c, FALSE)
     /\ UNCHANGED <<waiting, toSlave>>
  \/ /\ InRegistry(Op(c).arg)
     /\ Request(c, {getSlaveConnection(Op(c).arg)})
     /\ UNCHANGED <<step, replies>>

\* getStats: one GET_STATS request per slave of slavePool.
getStats(c) ==
  /\ Request(c, Slaves)
  /\ UNCHANGED <<step, replies>>

\* A client task starts its next call.
Call(c) ==
  /\ pc[c] = "call"
  /\ CASE Op(c).op = "addTransaction" -> addTransaction(c)
       [] Op(c).op = "getTransactionCount" -> getAccountData(c)
       [] Op(c).op = "addRawMinorBlock" -> addRawMinorBlock(c)
       [] Op(c).op = "getStats" -> getStats(c)
  /\ UNCHANGED <<pool, height>>

\* getStats's merge: branchValueToShardStats[branch] = shardStats for the
\* responses in slavePool order, so the last slave serving b wins.
MergeStats(order, R) ==
  [b \in Shards |->
     LET last == CHOOSE k \in 1..Len(order) :
                   /\ b \in DOMAIN (CHOOSE r \in R : r.slave = order[k]).val
                   /\ \A j \in (k + 1)..Len(order) :
                        b \notin DOMAIN (CHOOSE r \in R : r.slave = order[j]).val
     IN (CHOOSE r \in R : r.slave = order[last]).val[b]]

\* Mutant: addTransaction returns any(results) instead of all(results).
CompleteAny(c) ==
  /\ pc[c] = "await"
  /\ waiting[c] = {}
  /\ LET R == replies[c] IN
       CASE Op(c).op = "addTransaction" -> Return(c, \E r \in R : r.val)
         [] Op(c).op = "getStats" ->
              \E order \in SetToSeqs(Slaves) : Return(c, MergeStats(order, R))
         [] OTHER -> Return(c, (CHOOSE r \in R : TRUE).val)
  /\ UNCHANGED <<waiting, toSlave, pool, height>>

\* The gather completes: addTransaction returns all(results); a read returns
\* the dispatch slave's answer; getStats merges (check: every shard has stats).
Complete(c) ==
  /\ pc[c] = "await"
  /\ waiting[c] = {}
  /\ LET R == replies[c] IN
       CASE Op(c).op = "addTransaction" -> Return(c, \A r \in R : r.val)
         [] Op(c).op = "getStats" ->
              \E order \in SetToSeqs(Slaves) : Return(c, MergeStats(order, R))
         [] OTHER -> Return(c, (CHOOSE r \in R : TRUE).val)
  /\ UNCHANGED <<waiting, toSlave, pool, height>>

-----------------------------------------------------------------------------
(* Slaves (outside src/) *)

Serves(s) == {b \in Shards : \E i \in 1..Len(Registry[b]) : Registry[b][i] = s}

Reply(m, s, v) ==
  /\ replies' = [replies EXCEPT ![m.client] = @ \cup {[slave |-> s, val |-> v]}]
  /\ waiting' = [waiting EXCEPT ![m.client] = @ \ {s}]

\* Slave s handles its next request.
SlaveHandle(s) ==
  /\ toSlave[s] # <<>>
  /\ LET m == Head(toSlave[s]) IN
       CASE m.op = "addTransaction" ->
              /\ \/ /\ pool' = [pool EXCEPT ![s] = @ \cup {m.arg}]
                    /\ Reply(m, s, TRUE)
                 \/ /\ ReplicaMayReject
                    /\ Reply(m, s, FALSE)
                    /\ UNCHANGED pool
              /\ UNCHANGED height
         [] m.op = "getTransactionCount" ->
              Reply(m, s, m.arg \in pool[s]) /\ UNCHANGED <<pool, height>>
         [] m.op = "addRawMinorBlock" ->
              /\ \/ /\ height' = [height EXCEPT ![s][m.arg] = @ + 1]
                    /\ Reply(m, s, TRUE)
                 \/ /\ ReplicaMayReject
                    /\ Reply(m, s, FALSE)
                    /\ UNCHANGED height
              /\ UNCHANGED pool
         [] m.op = "getStats" ->
              Reply(m, s, [b \in Serves(s) |-> height[s][b]]) /\ UNCHANGED <<pool, height>>
  /\ toSlave' = [toSlave EXCEPT ![s] = Tail(@)]
  /\ UNCHANGED <<pc, step, ret>>

-----------------------------------------------------------------------------
Init ==
  /\ pc = [c \in Clients |-> IF Scripts[c] = <<>> THEN "done" ELSE "call"]
  /\ step = [c \in Clients |-> 1]
  /\ waiting = [c \in Clients |-> {}]
  /\ replies = [c \in Clients |-> {}]
  /\ ret = [c \in Clients |-> <<>>]
  /\ toSlave = [s \in Slaves |-> <<>>]
  /\ pool = [s \in Slaves |-> {}]
  /\ height = [s \in Slaves |-> [b \in Shards |-> 0]]

Next ==
  \/ \E c \in Clients : Call(c) \/ Complete(c)
  \/ \E s \in Slaves : SlaveHandle(s)

\* The event loop resumes every client whose gather completed; slaves answer.
Fairness ==
  /\ \A c \in Clients : WF_vars(Call(c)) /\ WF_vars(Complete(c))
  /\ \A s \in Slaves : WF_vars(SlaveHandle(s))

Spec == Init /\ [][Next]_vars /\ Fairness

-----------------------------------------------------------------------------
(* Properties *)

TypeOK ==
  /\ pc \in [Clients -> {"call", "await", "done"}]
  /\ \A c \in Clients : step[c] \in 1..(Len(Scripts[c]) + 1)
  /\ waiting \in [Clients -> SUBSET Slaves]
  /\ \A c \in Clients : Len(ret[c]) = step[c] - 1
  /\ pool \in [Slaves -> SUBSET Txs]
  /\ height \in [Slaves -> [Shards -> Nat]]

\* The spec 8 round-trip law, with replication: once addTransaction(tx)
\* has returned True, a later getTransactionCount on tx's account by the same
\* client sees tx, although addTransaction writes to every replica and the
\* read goes only to the dispatch slave of the branch.
ReadYourWrites ==
  \A c \in Clients : \A i, j \in 1..Len(ret[c]) :
    (/\ i < j
     /\ Scripts[c][i] = [op |-> "addTransaction", arg |-> Scripts[c][j].arg]
     /\ Scripts[c][j].op = "getTransactionCount"
     /\ ret[c][i] = TRUE)
      => ret[c][j] = TRUE

=============================================================================
