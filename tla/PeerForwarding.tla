---------------------------- MODULE PeerForwarding ----------------------------
(***************************************************************************)
(* The cluster-peer lifecycle and the forwarding of slave traffic to peers *)
(* (master.py 55-69, 462-500).                                            *)
(*                                                                         *)
(* The network collaborator (not under src/, modelled from spec 4.E and   *)
(* 6) connects and disconnects remote peers.  On a connect it awaits       *)
(* createPeerClusterConnections, whose broadcastRpc writes a CREATE        *)
(* request on every slave link before its first await; on a disconnect it  *)
(* calls destroyPeerClusterConnections, which writes a one-way DESTROY     *)
(* command on every link.  Links are FIFO in both directions.  A slave     *)
(* keeps a table of the peers it has a connection for and sends frames     *)
(* addressed to them (or to cluster peer id 0 for the master itself); the  *)
(* master routes each frame when it arrives, by looking the peer up.       *)
(***************************************************************************)
EXTENDS Naturals, Sequences

CONSTANTS
  Slaves,     \* slavePool after bring-up
  Peers,      \* cluster peer ids of the remote peers, each connects once
  NoPeer,     \* cluster peer id 0: master <-> slave traffic
  MaxFrames   \* bound on the frames each slave sends

ASSUME NoPeer \notin Peers /\ MaxFrames \in Nat

\* Where the master writes an inbound frame: a peer's connection, the null
\* sink (NULL_CONNECTION), or nowhere because it is handled locally.
Local == "local"
NullSink == "sink"
Targets == Peers \cup {Local, NullSink}

Down == [op : {"create", "destroy"}, peer : Peers]       \* master -> slave
Up == [op : {"reply"}, peer : Peers] \cup [op : {"frame"}, peer : Peers \cup {NoPeer}]

VARIABLES
  peerState,      \* peerState[p]: "new", "connected" or "gone" (network)
  createPc,       \* createPeerClusterConnections(p): "idle", "await", "done"
  createReplies,  \* slaves whose CREATE reply the gather has received
  toSlave,        \* toSlave[s]: requests and commands in flight to s
  toMaster,       \* toMaster[s]: replies and frames in flight from s
  slaveTable,     \* slaveTable[s]: peers s has a cluster peer connection for
  sent,           \* sent[s]: frames s has sent
  routed          \* history: [peer, to] for every frame the master routed

vars == <<peerState, createPc, createReplies, toSlave, toMaster, slaveTable,
          sent, routed>>

-----------------------------------------------------------------------------
(* Master side *)

\* MasterServer.getPeer: the network's peer for the id, if still connected.
getPeer(c) == IF peerState[c] = "connected" THEN c ELSE NoPeer

\* Mutant: a missing peer is returned as None instead of NULL_CONNECTION.
getConnectionToForwardNoSink(c) ==
  IF c = NoPeer THEN Local
  ELSE IF getPeer(c) = NoPeer THEN NoPeer ELSE getPeer(c)

\* Mutant: the `clusterPeerId == 0` test dropped; getPeer(0) finds nothing.
getConnectionToForwardNoZeroCheck(c) ==
  IF c = NoPeer \/ getPeer(c) = NoPeer THEN NullSink ELSE getPeer(c)

\* SlaveConnection.getConnectionToForward: id 0 stays local; otherwise the
\* peer's connection, or the null sink when the peer is gone.  The result
\* always passes validateConnection (NULL_CONNECTION or a P2PConnection).
getConnectionToForward(c) ==
  IF c = NoPeer THEN Local
  ELSE IF getPeer(c) = NoPeer THEN NullSink ELSE getPeer(c)

\* broadcastRpc / broadcastCommand: one message on every link of slavePool.
Broadcast(m) == [s \in Slaves |-> Append(toSlave[s], m)]

\* Mutant: the CREATE request only goes to one slave, as with
\* getSlaveConnection.
createPeerClusterConnectionsOneSlave(p) ==
  \E s \in Slaves :
    /\ toSlave' = [toSlave EXCEPT ![s] = Append(@, [op |-> "create", peer |-> p])]
    /\ createPc' = [createPc EXCEPT ![p] = "await"]

\* createPeerClusterConnections up to its await: broadcastRpc writes CREATE.
createPeerClusterConnections(p) ==
  /\ toSlave' = Broadcast([op |-> "create", peer |-> p])
  /\ createPc' = [createPc EXCEPT ![p] = "await"]

\* Mutant: destroyPeerClusterConnections does not broadcast anything.
destroyPeerClusterConnectionsDropped(p) == UNCHANGED toSlave

\* destroyPeerClusterConnections: a one-way DESTROY command to every slave.
destroyPeerClusterConnections(p) ==
  toSlave' = Broadcast([op |-> "destroy", peer |-> p])

\* The master reads the next message from s: a reply to a CREATE request
\* completes one future of the gather (the results are not checked, 493);
\* a frame is routed by getConnectionToForward.
MasterReceive(s) ==
  /\ toMaster[s] # <<>>
  /\ LET m == Head(toMaster[s]) IN
       IF m.op = "reply"
         THEN /\ createReplies' = [createReplies EXCEPT ![m.peer] = @ \cup {s}]
              /\ createPc' = [createPc EXCEPT ![m.peer] =
                                IF createReplies'[m.peer] = Slaves THEN "done" ELSE @]
              /\ UNCHANGED routed
         ELSE /\ routed' = routed \cup
                             {[peer |-> m.peer, to |-> getConnectionToForward(m.peer)]}
              /\ UNCHANGED <<createPc, createReplies>>
  /\ toMaster' = [toMaster EXCEPT ![s] = Tail(@)]
  /\ UNCHANGED <<peerState, toSlave, slaveTable, sent>>

-----------------------------------------------------------------------------
(* Network collaborator *)

\* A remote peer connects and the network awaits createPeerClusterConnections.
PeerConnect(p) ==
  /\ peerState[p] = "new"
  /\ peerState' = [peerState EXCEPT ![p] = "connected"]
  /\ createPeerClusterConnections(p)
  /\ UNCHANGED <<createReplies, toMaster, slaveTable, sent, routed>>

\* A connected peer goes away; the network calls destroyPeerClusterConnections
\* (possibly while the create of the same peer still awaits its replies).
PeerDisconnect(p) ==
  /\ peerState[p] = "connected"
  /\ peerState' = [peerState EXCEPT ![p] = "gone"]
  /\ destroyPeerClusterConnections(p)
  /\ UNCHANGED <<createPc, createReplies, toMaster, slaveTable, sent, routed>>

-----------------------------------------------------------------------------
(* Slaves *)

\* A slave handles the next message on its link in order: CREATE opens the
\* peer connection and is answered, DESTROY closes it.
SlaveHandle(s) ==
  /\ toSlave[s] # <<>>
  /\ LET m == Head(toSlave[s]) IN
       IF m.op = "create"
         THEN /\ slaveTable' = [slaveTable EXCEPT ![s] = @ \cup {m.peer}]
              /\ toMaster' = [toMaster EXCEPT ![s] = Append(@, [op |-> "reply", peer |-> m.peer])]
         ELSE /\ slaveTable' = [slaveTable EXCEPT ![s] = @ \ {m.peer}]
              /\ UNCHANGED toMaster
  /\ toSlave' = [toSlave EXCEPT ![s] = Tail(@)]
  /\ UNCHANGED <<peerState, createPc, createReplies, sent, routed>>

\* A slave sends a frame to one of the peers in its table, or to the master.
SlaveSendFrame(s) ==
  /\ sent[s] < MaxFrames
  /\ \E c \in slaveTable[s] \cup {NoPeer} :
       toMaster' = [toMaster EXCEPT ![s] = Append(@, [op |-> "frame", peer |-> c])]
  /\ sent' = [sent EXCEPT ![s] = @ + 1]
  /\ UNCHANGED <<peerState, createPc, createReplies, toSlave, slaveTable, routed>>

-----------------------------------------------------------------------------
Init ==
  /\ peerState = [p \in Peers |-> "new"]
  /\ createPc = [p \in Peers |-> "idle"]
  /\ createReplies = [p \in Peers |-> {}]
  /\ toSlave = [s \in Slaves |-> <<>>]
  /\ toMaster = [s \in Slaves |-> <<>>]
  /\ slaveTable = [s \in Slaves |-> {}]
  /\ sent = [s \in Slaves |-> 0]
  /\ routed = {}

Next ==
  \/ \E p \in Peers : PeerConnect(p) \/ PeerDisconnect(p)
  \/ \E s \in Slaves : SlaveHandle(s) \/ SlaveSendFrame(s) \/ MasterReceive(s)

\* The event loop reads every link with data and slaves process their
\* links; peers come and go as they please.
Fairness ==
  \A s \in Slaves : WF_vars(SlaveHandle(s)) /\ WF_vars(MasterReceive(s))

Spec == Init /\ [][Next]_vars /\ Fairness

-----------------------------------------------------------------------------
(* Properties *)

TypeOK ==
  /\ peerState \in [Peers -> {"new", "connected", "gone"}]
  /\ createPc \in [Peers -> {"idle", "await", "done"}]
  /\ createReplies \in [Peers -> SUBSET Slaves]
  /\ toSlave \in [Slaves -> Seq(Down)]
  /\ toMaster \in [Slaves -> Seq(Up)]
  /\ slaveTable \in [Slaves -> SUBSET Peers]
  /\ sent \in [Slaves -> 0..MaxFrames]
  /\ routed \subseteq [peer : Peers \cup {NoPeer}, to : Targets]

\* Spec invariant 5 and the forwarding rule: a frame for cluster peer id 0
\* is handled by the master, and a frame for a peer goes to that peer or to
\* the null sink, never to another peer and never to local handling.
ForwardOnlyToAddressee ==
  \A r \in routed :
    /\ r.peer = NoPeer => r.to = Local
    /\ r.peer # NoPeer => r.to \in {r.peer, NullSink}

\* A slave holds a connection only for a connected peer, or for a departed
\* one whose DESTROY is still on its way: CREATE (written by the RPC
\* broadcast before create awaits) is never overtaken by DESTROY.
NoStaleEntry ==
  \A s \in Slaves : \A p \in slaveTable[s] :
    \/ peerState[p] = "connected"
    \/ \E i \in 1..Len(toSlave[s]) : toSlave[s][i] = [op |-> "destroy", peer |-> p]

\* Once peers stop coming and going, every slave ends up with exactly the
\* connected peers in its table.
TablesConverge ==
  <>[](\A s \in Slaves : slaveTable[s] = {p \in Peers : peerState[p] = "connected"})

=============================================================================
