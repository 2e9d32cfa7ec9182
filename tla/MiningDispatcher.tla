--------------------------- MODULE MiningDispatcher ---------------------------
(***************************************************************************)
(* One call of MasterServer.getNextBlockToMine (master.py 280-386).       *)
(*                                                                         *)
(* The call fans out GET_ECO_INFO_LIST to the eligible slaves, merges the *)
(* replies into branchValueToEcoInfo, and walks that dict choosing the     *)
(* branch with the largest coinbase/difficulty ("eco").  Ties go to the    *)
(* lower height, or (randomizeOutput) to a reservoir draw.  A root winner  *)
(* fetches the unconfirmed headers and falls back to the first shard that *)
(* lacks proof of progress; a shard winner asks its dispatch slave for a  *)
(* minor block.                                                            *)
(*                                                                         *)
(* Shard masks are sets of shard ids (the ShardMask of quarkchain.core is  *)
(* outside src/); the empty set stands for shardMaskValue = 0.  eco values *)
(* are exact rationals <<coinbase, difficulty>>: for the small integers    *)
(* used here float division keeps == and < exact.  Replicas of a shard     *)
(* report the same eco info and headers.                                   *)
(***************************************************************************)
EXTENDS Integers, Sequences, SequencesExt

CONSTANTS
  SHARD_SIZE,               \* env.config.SHARD_SIZE
  Slaves,                   \* slavePool
  SlaveShards,              \* SlaveShards[s]: shards covered by s's shard masks
  Masks,                    \* the non-zero shardMaskValue arguments, as shard sets
  Coinbases,                \* EcoInfo.coinbaseAmount values
  Difficulties,             \* EcoInfo.difficulty values (positive)
  Heights,                  \* EcoInfo.height values
  UnconfirmedAmounts,       \* EcoInfo.unconfirmedHeadersCoinbaseAmount values
  RootDifficulty,           \* rootState.getNextBlockDifficulty()
  PROOF_OF_PROGRESS_BLOCKS, \* env.config.PROOF_OF_PROGRESS_BLOCKS
  HeaderCounts,             \* numbers of unconfirmed headers a shard may report
  Root,                     \* branch value 0: the root chain
  NoBranch                  \* branchValueWithMaxEco = None

Shards == 0..(SHARD_SIZE - 1)

ASSUME /\ SlaveShards \in [Slaves -> SUBSET Shards]
       /\ UNION {SlaveShards[s] : s \in Slaves} = Shards
       /\ Masks \subseteq (SUBSET Shards) \ {{}}
       /\ \A d \in Difficulties \cup {RootDifficulty} : d > 0

EcoInfos == [coinbaseAmount : Coinbases, difficulty : Difficulties,
             height : Heights, unconfirmedHeadersCoinbaseAmount : UnconfirmedAmounts]

Result(k, b) == [kind |-> k, branch |-> b]
NONE == Result("none", NoBranch)           \* (None, None)
ROOT == Result("root", NoBranch)           \* (True, rootBlock)
MINOR(b) == Result("minor", b)             \* (False, minorBlock)

VARIABLES
  shardMask,        \* argument shardMaskValue ({} for 0)
  randomizeOutput,  \* argument randomizeOutput
  ecoInfo,          \* ecoInfo[b]: the EcoInfo slaves report for shard b
  pc,               \* "poll", "select", "headers", "minor" or "done"
  order,            \* iteration order of branchValueToEcoInfo
  i,                \* index of the next entry of the selection loop
  sel,              \* [w: branchValueWithMaxEco, eco: maxEco, dup: dupEcoCount, h: blockHeight]
  headerCount,      \* shardIdToHeaderList lengths
  target,           \* branch asked for a minor block
  result            \* value returned by getNextBlockToMine

vars == <<shardMask, randomizeOutput, ecoInfo, pc, order, i, sel, headerCount,
          target, result>>

-----------------------------------------------------------------------------
(* Rationals <<numerator, denominator>> with positive denominators.        *)

RECURSIVE GCD(_, _)
GCD(a, b) == IF b = 0 THEN a ELSE GCD(b, a % b)

Norm(q) == LET g == GCD(q[1], q[2]) IN <<q[1] \div g, q[2] \div g>>
QAdd(p, q) == Norm(<<p[1] * q[2] + q[1] * p[2], p[2] * q[2]>>)
QMul(p, q) == Norm(<<p[1] * q[1], p[2] * q[2]>>)
QGt(p, q) == p[1] * q[2] > q[1] * p[2]
QEq(p, q) == p[1] * q[2] = q[1] * p[2]

-----------------------------------------------------------------------------
(* The registry and the fan-out of GET_ECO_INFO_LIST_REQUEST.              *)

\* SlaveConnection.hasOverlap: one of s's shard masks shares a shard with m.
HasOverlap(s, m) == SlaveShards[s] \cap m # {}

\* Slaves asked for eco info: all of them, or those overlapping the mask.
Eligible == {s \in Slaves : shardMask = {} \/ HasOverlap(s, shardMask)}

\* The branches present in branchValueToEcoInfo.
Reported == UNION {SlaveShards[s] : s \in Eligible}

\* `eco = ecoInfo.coinbaseAmount / ecoInfo.difficulty`
EcoOf(b) == <<ecoInfo[b].coinbaseAmount, ecoInfo[b].difficulty>>

RECURSIVE SumUnconfirmed(_)
SumUnconfirmed(S) ==
  IF S = {} THEN 0
  ELSE LET b == CHOOSE x \in S : TRUE
       IN ecoInfo[b].unconfirmedHeadersCoinbaseAmount + SumUnconfirmed(S \ {b})

\* rootCoinbaseAmount // 2 / rootState.getNextBlockDifficulty()
RootEco == <<SumUnconfirmed(Reported) \div 2, RootDifficulty>>

-----------------------------------------------------------------------------
(* The body of `for branchValue, ecoInfo in branchValueToEcoInfo.items()`  *)
(* (361-380) as the set of its outcomes, each with its probability         *)
(* num/den: `random.random() < 1 / dupEcoCount` replaces the winner with   *)
(* probability 1/dupEcoCount.                                              *)

Keep(s) == {[next |-> s, num |-> 1, den |-> 1]}

\* Mutant: the height rule `blockHeight > ecoInfo.height` dropped.
OutcomesNoHeightRule(s, b) ==
  LET e == EcoOf(b)
      d == s.dup + 1
  IN
  IF shardMask # {} /\ b \notin shardMask THEN Keep(s)
  ELSE IF s.w = NoBranch \/ QGt(e, s.eco)
    THEN {[next |-> [w |-> b, eco |-> e, dup |-> 1, h |-> ecoInfo[b].height],
           num |-> 1, den |-> 1]}
  ELSE IF QEq(e, s.eco) /\ randomizeOutput
    THEN IF s.w # Root /\ s.h < ecoInfo[b].height THEN Keep(s)
         ELSE {[next |-> [s EXCEPT !.dup = d, !.w = b, !.eco = e], num |-> 1, den |-> d],
               [next |-> [s EXCEPT !.dup = d], num |-> d - 1, den |-> d]}
  ELSE Keep(s)

\* Mutant: `maxEco = eco` dropped when a strictly better branch wins.
OutcomesStaleMax(s, b) ==
  LET e == EcoOf(b)
      d == s.dup + 1
  IN
  IF shardMask # {} /\ b \notin shardMask THEN Keep(s)
  ELSE IF s.w = NoBranch \/ QGt(e, s.eco)
          \/ (QEq(e, s.eco) /\ s.w # Root /\ s.h > ecoInfo[b].height)
    THEN {[next |-> [s EXCEPT !.w = b, !.dup = 1, !.h = ecoInfo[b].height],
           num |-> 1, den |-> 1]}
  ELSE IF QEq(e, s.eco) /\ randomizeOutput
    THEN IF s.w # Root /\ s.h < ecoInfo[b].height THEN Keep(s)
         ELSE {[next |-> [s EXCEPT !.dup = d, !.w = b, !.eco = e], num |-> 1, den |-> d],
               [next |-> [s EXCEPT !.dup = d], num |-> d - 1, den |-> d]}
  ELSE Keep(s)

Outcomes(s, b) ==
  LET e == EcoOf(b)
      d == s.dup + 1
  IN
  IF shardMask # {} /\ b \notin shardMask THEN Keep(s)
  ELSE IF s.w = NoBranch \/ QGt(e, s.eco)
          \/ (QEq(e, s.eco) /\ s.w # Root /\ s.h > ecoInfo[b].height)
    THEN {[next |-> [w |-> b, eco |-> e, dup |-> 1, h |-> ecoInfo[b].height],
           num |-> 1, den |-> 1]}
  ELSE IF QEq(e, s.eco) /\ randomizeOutput
    \* "The current block with max eco has smaller height, mine the block first"
    THEN IF s.w # Root /\ s.h < ecoInfo[b].height THEN Keep(s)
         \* blockHeight is left as it was when the winner is replaced here
         ELSE {[next |-> [s EXCEPT !.dup = d, !.w = b, !.eco = e], num |-> 1, den |-> d],
               [next |-> [s EXCEPT !.dup = d], num |-> d - 1, den |-> d]}
  ELSE Keep(s)

-----------------------------------------------------------------------------
(* Actions *)

\* getNextBlockToMine up to the loop (325-359): gather the eco info lists of
\* the eligible slaves; any errorCode != 0 returns (None, None).  Otherwise
\* the dict is walked in some insertion order (slavePool is a set), starting
\* from the root as winner unless a mask is given.
GetEcoInfoList ==
  /\ pc = "poll"
  /\ \/ /\ result' = NONE
        /\ pc' = "done"
        /\ UNCHANGED <<order, sel, i>>
     \/ /\ \E o \in SetToSeqs(Reported) : order' = o
        /\ sel' = [w |-> IF shardMask = {} THEN Root ELSE NoBranch,
                   eco |-> RootEco, dup |-> 1, h |-> 0]
        /\ i' = 1
        /\ pc' = "select"
        /\ UNCHANGED result
  /\ UNCHANGED <<shardMask, randomizeOutput, ecoInfo, headerCount, target>>

\* One iteration of the selection loop.
SelectStep ==
  /\ pc = "select"
  /\ i <= Len(order)
  /\ \E o \in Outcomes(sel, order[i]) : sel' = o.next
  /\ i' = i + 1
  /\ UNCHANGED <<shardMask, randomizeOutput, ecoInfo, pc, order, headerCount,
                 target, result>>

\* After the loop (382-385): the root goes to the header fan-out, a shard to
\* its dispatch slave; Branch(None) (no candidate under the mask) raises.
EndSelection ==
  /\ pc = "select"
  /\ i > Len(order)
  /\ CASE sel.w = Root -> pc' = "headers" /\ UNCHANGED <<target, result>>
       [] sel.w = NoBranch -> pc' = "done" /\ result' = Result("error", NoBranch)
                              /\ UNCHANGED target
       [] OTHER -> pc' = "minor" /\ target' = sel.w /\ UNCHANGED result
  /\ UNCHANGED <<shardMask, randomizeOutput, ecoInfo, order, i, sel, headerCount>>

\* Mutant: the fallback branch built from shardId + 1.
GetUnconfirmedHeadersShiftedShard ==
  /\ pc = "headers"
  /\ \/ /\ result' = NONE
        /\ pc' = "done"
        /\ UNCHANGED <<headerCount, target>>
     \/ \E hc \in [Shards -> HeaderCounts] :
          LET lacking == {b \in Shards : hc[b] < PROOF_OF_PROGRESS_BLOCKS} IN
          /\ headerCount' = hc
          /\ IF lacking = {}
               THEN pc' = "done" /\ result' = ROOT /\ UNCHANGED target
               ELSE pc' = "minor" /\ target' = Min(lacking) + 1 /\ UNCHANGED result
  /\ UNCHANGED <<shardMask, randomizeOutput, ecoInfo, order, i, sel>>

\* __createRootBlockToMineOrFallbackToMinorBlock (280-313): gather the
\* unconfirmed headers of every slave; an errorCode != 0 or a branch of the
\* wrong shard size returns (None, None).  Shards are checked in id order; the
\* first with fewer than PROOF_OF_PROGRESS_BLOCKS headers is mined instead.
GetUnconfirmedHeaders ==
  /\ pc = "headers"
  /\ \/ /\ result' = NONE
        /\ pc' = "done"
        /\ UNCHANGED <<headerCount, target>>
     \/ \E hc \in [Shards -> HeaderCounts] :
          LET lacking == {b \in Shards : hc[b] < PROOF_OF_PROGRESS_BLOCKS} IN
          /\ headerCount' = hc
          /\ IF lacking = {}
               THEN pc' = "done" /\ result' = ROOT /\ UNCHANGED target
               ELSE pc' = "minor" /\ target' = Min(lacking) /\ UNCHANGED result
  /\ UNCHANGED <<shardMask, randomizeOutput, ecoInfo, order, i, sel>>

\* __getMinorBlockToMine (315-323) on the branch's dispatch slave
\* (getSlaveConnection, 237-240): errorCode != 0 or no block gives (None, None).
GetMinorBlockToMine ==
  /\ pc = "minor"
  /\ result' \in {NONE, MINOR(target)}
  /\ pc' = "done"
  /\ UNCHANGED <<shardMask, randomizeOutput, ecoInfo, order, i, sel, headerCount,
                 target>>

Init ==
  /\ shardMask \in {{}} \cup Masks
  /\ randomizeOutput \in BOOLEAN
  /\ ecoInfo \in [Shards -> EcoInfos]
  /\ pc = "poll"
  /\ order = <<>>
  /\ i = 1
  /\ sel = [w |-> NoBranch, eco |-> <<0, 1>>, dup |-> 1, h |-> 0]
  /\ headerCount = [b \in Shards |-> 0]
  /\ target = NoBranch
  /\ result = Result("pending", NoBranch)

Next ==
  \/ GetEcoInfoList
  \/ SelectStep
  \/ EndSelection
  \/ GetUnconfirmedHeaders
  \/ GetMinorBlockToMine

Spec == Init /\ [][Next]_vars


-----------------------------------------------------------------------------
(* Properties *)

Branches == Shards \cup {Root, NoBranch}
Results == {NONE, ROOT, Result("error", NoBranch), Result("pending", NoBranch)}
           \cup {MINOR(b) : b \in Shards}

TypeOK ==
  /\ shardMask \in {{}} \cup Masks
  /\ randomizeOutput \in BOOLEAN
  /\ ecoInfo \in [Shards -> EcoInfos]
  /\ pc \in {"poll", "select", "headers", "minor", "done"}
  /\ order \in Seq(Shards)
  /\ i \in 1..(SHARD_SIZE + 1)
  /\ sel.w \in Branches /\ sel.dup \in 1..(SHARD_SIZE + 1) /\ sel.h \in Heights \cup {0}
  /\ headerCount \in [Shards -> HeaderCounts \cup {0}]
  /\ target \in Shards \cup {NoBranch}
  /\ result \in Results

\* The branches the loop may pick: the root unless a mask is given, and the
\* reported shards inside the mask.
Candidates == (IF shardMask = {} THEN {Root} ELSE {})
              \cup {b \in Reported : shardMask = {} \/ b \in shardMask}

Eco(c) == IF c = Root THEN RootEco ELSE EcoOf(c)

MaxEcoCandidates == {c \in Candidates : \A d \in Candidates : ~QGt(Eco(d), Eco(c))}

\* The selection loop has run to its end.
Selected == order # <<>> /\ (pc \in {"headers", "minor", "done"} \/ i > Len(order))

\* The branch chosen to mine has the largest coinbase/difficulty of all the
\* branches the call may consider, whatever the tie-breaks and random draws
\* in the loop over branchValueToEcoInfo did.
WinnerHasMaxEco == Selected => sel.w \in MaxEcoCandidates

\* Reference for randomizeOutput = False (spec 4.D): the root wins whenever
\* it is among the best; otherwise the lowest shard among the best, the
\* earliest in dict order among equal heights.
RefWinner ==
  IF Root \in MaxEcoCandidates THEN Root
  ELSE LET minH == Min({ecoInfo[b].height : b \in MaxEcoCandidates})
           low == {b \in MaxEcoCandidates : ecoInfo[b].height = minH}
       IN order[Min({k \in 1..Len(order) : order[k] \in low})]

\* Without randomness the loop picks exactly the reference winner: the
\* height rule prefers the lower block and blockHeight tracks the winner.
DeterministicTieBreak == (Selected /\ ~randomizeOutput) => sel.w = RefWinner

\* WinProb(s, k, w): the probability that the loop, in state s before entry
\* k of the dict, ends with winner w.
RECURSIVE WinProb(_, _, _), SumOutcomes(_, _, _)
WinProb(s, k, w) ==
  IF k > Len(order) THEN (IF s.w = w THEN <<1, 1>> ELSE <<0, 1>>)
  ELSE SumOutcomes(Outcomes(s, order[k]), k, w)
SumOutcomes(O, k, w) ==
  IF O = {} THEN <<0, 1>>
  ELSE LET o == CHOOSE x \in O : TRUE
       IN QAdd(QMul(<<o.num, o.den>>, WinProb(o.next, k + 1, w)),
               SumOutcomes(O \ {o}, k, w))

\* Spec 8, scenario S4: when the root and every shard tie on eco and
\* randomizeOutput is set, each of them is chosen with the same probability.
UniformTieBreak ==
  (/\ pc = "select" /\ i = 1 /\ randomizeOutput /\ shardMask = {}
   /\ \A c, d \in Candidates : QEq(Eco(c), Eco(d)))
    => \A w \in Candidates :
         QEq(WinProb(sel, 1, w), <<1, Cardinality(Candidates)>>)

=============================================================================
