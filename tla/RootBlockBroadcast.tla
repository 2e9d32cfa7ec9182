------------------------- MODULE RootBlockBroadcast -------------------------
(***************************************************************************)
(* What the root-block serializer promises (spec 4.C and 5): root blocks  *)
(* leave the update queue in arrival order, one at a time; each is either *)
(* dropped or broadcast to every slave, and the next one leaves the queue  *)
(* only after every slave has applied the previous broadcast.  Which       *)
(* blocks are dropped is left open here: that is the root state's          *)
(* business.  RootBlockSerializer implements this specification.           *)
(***************************************************************************)
EXTENDS Sequences

CONSTANTS Slaves, Blocks

VARIABLES
  queue,      \* root blocks waiting, in arrival order
  inflight,   \* [block, slave] deliveries of the current broadcast
  delivered   \* delivered[s]: the root blocks slave s applied, in order

vars == <<queue, inflight, delivered>>

Init ==
  /\ queue = <<>>
  /\ inflight = {}
  /\ delivered = [s \in Slaves |-> <<>>]

\* A root block arrives from either producer.
Enqueue(b) ==
  /\ queue' = Append(queue, b)
  /\ UNCHANGED <<inflight, delivered>>

\* With no broadcast in progress, the oldest block leaves the queue and is
\* either dropped or sent to every slave.
Take ==
  /\ inflight = {}
  /\ queue # <<>>
  /\ queue' = Tail(queue)
  /\ \/ inflight' = {[block |-> Head(queue), slave |-> s] : s \in Slaves}
     \/ UNCHANGED inflight
  /\ UNCHANGED delivered

\* One slave applies the block of the current broadcast.
Deliver(s) ==
  /\ \E m \in inflight :
       /\ m.slave = s
       /\ delivered' = [delivered EXCEPT ![s] = Append(@, m.block)]
       /\ inflight' = inflight \ {m}
  /\ UNCHANGED queue

Next ==
  \/ \E b \in Blocks : Enqueue(b)
  \/ Take
  \/ \E s \in Slaves : Deliver(s)

Spec ==
  /\ Init /\ [][Next]_vars
  /\ WF_vars(Take)
  /\ \A s \in Slaves : WF_vars(Deliver(s))

=============================================================================
