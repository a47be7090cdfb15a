-------------------------- MODULE KafkaRunnerProofs --------------------------
(***************************************************************************)
(* Proofs about the Kafka consumer, for any number of processes, partitions *)
(* and messages, and any number of rebalances, evictions and crashes.       *)
(***************************************************************************)
EXTENDS KafkaRunner, ManagerProofs, TLAPS

(* Sets the type proofs need not look into.                                 *)
LEMMA Zeroes == 0 \in Offset /\ 0 \in 0 .. MaxRebalances /\ 0 \in 0 .. MaxCrashes
BY LogAssumption, BoundsAssumption DEF Offset

LEMMA InitTypes == Init => TypeOK
BY Zeroes, TriesAssumption
DEF Init, MInit, TypeOK, MTypeOK, RunnerState, CallState, ClientState, LoopState

(* The types of the client, the loops and the group are kept by every step  *)
(* that leaves the manager alone, and by the steps that do not.             *)
LEMMA StepTypes == TypeOK /\ [Next]_vars => TypeOK'
<1> SUFFICES ASSUME TypeOK, [Next]_vars
             PROVE  TypeOK'
    OBVIOUS
<1> USE DEF TypeOK, ClientState, LoopState
<1>1. CASE UNCHANGED vars
    BY <1>1 DEF vars, mvars, kvars, MTypeOK
<1>2. ASSUME NEW m \in Procs, Lifecycle(m)
      PROVE  TypeOK'
    <2>1. MTypeOK'
        BY <1>2, ManagerTypes DEF Lifecycle
    <2>2. QED
        BY <1>2, <2>1 DEF Lifecycle, kvars
<1>3. ASSUME NEW m \in Procs, NEW l \in Loops, CallbackTerminates(m, l)
      PROVE  TypeOK'
    <2>1. MTypeOK'
        BY <1>3, ManagerTypes DEF CallbackTerminates
    <2>2. client' \in [Procs -> ClientState]
        <3>1. \A c \in ClientState : AfterDisconnect(c) \in ClientState
            BY DEF AfterDisconnect
        <3>2. QED
            BY <1>3, <3>1 DEF CallbackTerminates
    <2>3. QED
        BY <1>3, <2>1, <2>2 DEF CallbackTerminates
<1>4. ASSUME UNCHANGED mvars
      PROVE  MTypeOK'
    BY <1>4 DEF mvars, MTypeOK
<1>5. ASSUME NEW m \in Procs, Ready(m) \/ ConnectFail(m) \/ Reconnect(m)
      PROVE  TypeOK'
    <2>1. CASE Ready(m)
        <3>1. client' \in [Procs -> ClientState]
            BY <2>1 DEF Ready
        <3>2. loop' \in [Procs -> [Loops -> LoopState]]
            <4>1. CASE UNCHANGED loop
                BY <4>1
            <4>2. CASE \E l \in Loops : loop' = [loop EXCEPT ![m][l] = "fetching"]
                BY <4>2
            <4>3. QED
                BY <2>1, <4>1, <4>2 DEF Ready
        <3>3. QED
            BY <1>4, <2>1, <3>1, <3>2 DEF Ready
    <2>2. CASE ConnectFail(m)
        BY <1>4, <2>2 DEF ConnectFail
    <2>3. CASE Reconnect(m)
        BY <1>4, <2>3 DEF Reconnect
    <2>4. QED
        BY <1>5, <2>1, <2>2, <2>3
<1>6. ASSUME NEW m \in Procs, NEW l \in Loops, Deliver(m, l)
      PROVE  TypeOK'
    <2>1. PICK take \in [Partitions -> 0 .. BatchSize] :
              /\ \A p \in Partitions :
                    take[p] > 0 => owner[p] = m /\ position[p] + take[p] <= LogEnd
              /\ position' = [p \in Partitions |-> position[p] + take[p]]
        BY <1>6 DEF Deliver
    <2>2. ASSUME NEW p \in Partitions
          PROVE  position[p] + take[p] \in Offset
        <3>1. position[p] \in 0 .. LogEnd /\ take[p] \in 0 .. BatchSize
            BY <2>1 DEF Offset
        <3>2. take[p] > 0 => position[p] + take[p] <= LogEnd
            BY <2>1
        <3>3. QED
            BY <3>1, <3>2, LogAssumption, BatchAssumption DEF Offset
    <2>3. position' \in [Partitions -> Offset]
        BY <2>1, <2>2
    <2>4. batch' \in [Procs -> [Loops -> SUBSET Message]]
        BY <1>6 DEF Deliver
    <2>5. QED
        BY <1>4, <1>6, <2>3, <2>4 DEF Deliver
<1>7. ASSUME NEW m \in Procs, NEW l \in Loops,
             DeliverNothing(m, l) \/ CallbackPaused(m, l) \/ WakeUp(m, l) \/ CallbackRuns(m, l)
      PROVE  TypeOK'
    <2>1. CASE DeliverNothing(m, l)
        BY <1>4, <2>1 DEF DeliverNothing
    <2>2. CASE CallbackPaused(m, l)
        BY <1>4, <2>2 DEF CallbackPaused
    <2>3. CASE WakeUp(m, l)
        BY <1>4, <2>3 DEF WakeUp
    <2>4. CASE CallbackRuns(m, l)
        BY <1>4, <2>4 DEF CallbackRuns
    <2>5. QED
        BY <1>7, <2>1, <2>2, <2>3, <2>4
<1>8. ASSUME NEW m \in Procs, NEW l \in Loops, NEW x \in Message, Settle(m, l, x)
      PROVE  TypeOK'
    BY <1>4, <1>8 DEF Settle
<1>9. ASSUME NEW m \in Procs, NEW l \in Loops, CompleteBatch(m, l)
      PROVE  TypeOK'
    <2>1. ASSUME CommitBatch(m, l)
          PROVE  /\ commits' \in [Procs -> [Partitions -> Seq(Offset)]]
                 /\ processed' \in [Procs -> [Partitions -> Offset]]
        <3>1. PICK next \in [Partitions -> Offset] :
                  /\ commits' = [commits EXCEPT ![m] =
                        [p \in Partitions |-> IF next[p] > 0 THEN Append(@[p], next[p]) ELSE @[p]]]
                  /\ processed' = [processed EXCEPT ![m] =
                        [p \in Partitions |-> IF next[p] > 0 THEN next[p] ELSE @[p]]]
            BY <2>1 DEF CommitBatch
        <3>2. \A p \in Partitions : Append(commits[m][p], next[p]) \in Seq(Offset)
            OBVIOUS
        <3>3. QED
            BY <3>1, <3>2
    <2>2. /\ commits' \in [Procs -> [Partitions -> Seq(Offset)]]
          /\ processed' \in [Procs -> [Partitions -> Offset]]
        BY <1>9, <2>1 DEF CompleteBatch
    <2>3. QED
        BY <1>4, <1>9, <2>2 DEF CompleteBatch
<1>10. ASSUME NEW m \in Procs, NEW p \in Partitions, BrokerCommit(m, p) \/ CommitFails(m, p)
       PROVE  TypeOK'
    <2>1. /\ commits[m][p] \in Seq(Offset)
          /\ commits[m][p] # <<>>
        BY <1>10 DEF BrokerCommit, CommitFails
    <2>2. Head(commits[m][p]) \in Offset /\ Tail(commits[m][p]) \in Seq(Offset)
        BY <2>1
    <2>3. CASE BrokerCommit(m, p)
        BY <1>4, <2>2, <2>3 DEF BrokerCommit
    <2>4. CASE CommitFails(m, p)
        BY <1>4, <2>2, <2>4 DEF CommitFails
    <2>5. QED
        BY <1>10, <2>3, <2>4
<1>11. ASSUME NEW m \in Procs, NEW p \in Partitions, Assign(m, p)
       PROVE  TypeOK'
    BY <1>4, <1>11 DEF Assign
<1>12. ASSUME NEW m \in Procs
       PROVE  /\ Released(m) \in [Partitions -> Procs \cup {None}]
              /\ NoEntries \in [Partitions -> Offset]
              /\ NoCommits \in [Partitions -> Seq(Offset)]
    BY Zeroes DEF Released, NoEntries, NoCommits
<1>13. ASSUME NEW m \in Procs, NEW outcome \in FlushOutcome, FlushOffsets(m, outcome)
       PROVE  /\ processed' \in [Procs -> [Partitions -> Offset]]
              /\ committed' \in [Partitions -> Offset]
    <2>1. processed' \in [Procs -> [Partitions -> Offset]]
        BY <1>12, <1>13 DEF FlushOffsets
    <2>2. CASE outcome = "committed"
        <3>1. committed' = [p \in Partitions |->
                               IF processed[m][p] > 0 THEN processed[m][p] ELSE committed[p]]
            BY <1>13, <2>2 DEF FlushOffsets
        <3>2. QED
            BY <2>1, <3>1
    <2>3. CASE outcome # "committed"
        <3>1. UNCHANGED committed
            BY <1>13, <2>3 DEF FlushOffsets, FlushOutcome
        <3>2. QED
            BY <2>1, <3>1
    <2>4. QED
        BY <2>2, <2>3
<1>14. ASSUME rebalances < MaxRebalances, rebalances' = rebalances + 1
       PROVE  rebalances' \in 0 .. MaxRebalances
    BY <1>14, BoundsAssumption
<1>15. ASSUME crashes < MaxCrashes, crashes' = crashes + 1
       PROVE  crashes' \in 0 .. MaxCrashes
    BY <1>15, BoundsAssumption
<1>16. ASSUME NEW m \in Procs, NEW revoked \in SUBSET Partitions, Revoke(m, revoked)
       PROVE  TypeOK'
    BY <1>4, <1>13, <1>14, <1>16 DEF Revoke
<1>17. ASSUME NEW m \in Procs, Evict(m)
       PROVE  TypeOK'
    BY <1>4, <1>12, <1>14, <1>17 DEF Evict
<1>18. ASSUME NEW m \in Procs, Rejoin(m)
       PROVE  TypeOK'
    BY <1>4, <1>12, <1>13, <1>18 DEF Rejoin, FlushOutcome
<1>19. ASSUME NEW m \in Procs, Disconnected(m)
       PROVE  TypeOK'
    BY <1>4, <1>12, <1>13, <1>19 DEF Disconnected
<1>20. ASSUME NEW m \in Procs, Crash(m)
       PROVE  TypeOK'
    BY <1>4, <1>12, <1>15, <1>20 DEF Crash
<1>21. QED
    BY <1>1, <1>2, <1>3, <1>5, <1>6, <1>7, <1>8, <1>9, <1>10, <1>11, <1>16, <1>17, <1>18,
       <1>19, <1>20 DEF Next, Consume, LoopStep, GroupStep

(* In every reachable state every variable of the runner, of its manager    *)
(* and of the group has its type: in particular a commit never passes the   *)
(* end of the log and the wait of stop() never exceeds its tries.           *)
THEOREM TypeCorrect == SafeSpec => []TypeOK
BY InitTypes, StepTypes, PTL DEF SafeSpec

-----------------------------------------------------------------------------
(* Offsets never run ahead of the processing, in a process with one loop.   *)

LEMMA InitInductive == Init => Inductive
<1> SUFFICES ASSUME Init
             PROVE  OffsetsCovered /\ PositionCovered /\ BatchCovered /\ BatchInHand
    BY DEF Inductive
<1>1. 1 \in Loops
    BY LoopsAssumption DEF Loops
<1>2. \A x \in Message : ~(x.offset < 0)
    BY LogAssumption DEF Message
<1>3. QED
    BY <1>1, <1>2, NoneAssumption
    DEF Init, OffsetsCovered, PositionCovered, BatchCovered, BatchInHand, Covered

(* What has been dealt with stays dealt with.                               *)
LEMMA CoveredKept ==
    ASSUME handled \subseteq handled', dropped \subseteq dropped',
           NEW p, NEW o, Covered(p, o)
    PROVE  Covered(p, o)'
BY DEF Covered

(* The offset a batch commits covers the batch and what lies below it.      *)
LEMMA CommitCovered ==
    ASSUME TypeOK, NEW m \in Procs, NEW p \in Partitions, NEW o \in Offset, o > 0,
           NextOffset(batch[m][1], p, o), batch[m][1] \subseteq Message,
           BatchCovered, batch[m][1] \subseteq handled
    PROVE  Covered(p, o)
<1> SUFFICES ASSUME NEW x \in Message, x.partition = p, x.offset < o
             PROVE  x \in handled \cup dropped
    BY DEF Covered
<1>1. PICK y \in batch[m][1] : y.partition = p /\ o = y.offset + 1
    BY DEF NextOffset
<1>2. y.offset \in Nat /\ x.offset \in Nat
    BY LogAssumption DEF Message
<1>3. CASE x.offset < y.offset
    BY <1>1, <1>3 DEF BatchCovered, DealtWith
<1>4. CASE x.offset = y.offset
    <2>1. x = y
        BY <1>1, <1>4 DEF Message
    <2>2. QED
        BY <2>1
<1>5. QED
    BY <1>1, <1>2, <1>3, <1>4

(* The elements of a queue to which a commit has been added, ...            *)
LEMMA AppendElements ==
    ASSUME NEW S, NEW s \in Seq(S), NEW e \in S
    PROVE  \A i \in DOMAIN Append(s, e) :
               \/ Append(s, e)[i] = e
               \/ i \in DOMAIN s /\ Append(s, e)[i] = s[i]
OBVIOUS

(* ... and of one whose first commit has been sent.                         *)
LEMMA TailElements ==
    ASSUME NEW S, NEW s \in Seq(S), s # <<>>
    PROVE  /\ 1 \in DOMAIN s /\ Head(s) = s[1]
           /\ \A i \in DOMAIN Tail(s) : i + 1 \in DOMAIN s /\ Tail(s)[i] = s[i + 1]
OBVIOUS

LEMMA StepInductive == TypeOK /\ Inductive /\ [Next]_vars => Inductive'
<1> SUFFICES ASSUME MaxLoops = 1, TypeOK, [Next]_vars,
                    OffsetsCovered, PositionCovered, BatchCovered, BatchInHand
             PROVE  OffsetsCovered' /\ PositionCovered' /\ BatchCovered' /\ BatchInHand'
    BY DEF Inductive
<1>0. Loops = {1}
    BY DEF Loops
<1> USE DEF TypeOK, DealtWith
\* A step that leaves the batches, the messages and the group alone.
<1>1. ASSUME UNCHANGED <<owner, position, committed, batch, todo, processed, commits,
                         handled, dropped>>,
             \A m \in Procs : loop'[m][1] = loop[m][1]
      PROVE  OffsetsCovered' /\ PositionCovered' /\ BatchCovered' /\ BatchInHand'
    <2>1. OffsetsCovered'
        BY <1>1, CoveredKept DEF OffsetsCovered
    <2>2. PositionCovered'
        BY <1>1 DEF PositionCovered
    <2>3. BatchCovered'
        BY <1>1 DEF BatchCovered
    <2>4. BatchInHand'
        BY <1>1 DEF BatchInHand
    <2>5. QED
        BY <2>1, <2>2, <2>3, <2>4
\* A step that only changes offsets and the group's assignment.
<1>2. ASSUME UNCHANGED <<loop, batch, todo, handled, dropped>>, OffsetsCovered', PositionCovered'
      PROVE  OffsetsCovered' /\ PositionCovered' /\ BatchCovered' /\ BatchInHand'
    BY <1>2 DEF BatchCovered, BatchInHand
\* A step that only releases partitions keeps PositionCovered.
<1>3. ASSUME UNCHANGED <<position, loop, batch, handled, dropped>>,
             \A p \in Partitions : owner'[p] # None => owner'[p] = owner[p]
      PROVE  PositionCovered'
    BY <1>3, NoneAssumption DEF PositionCovered
<1>4. CASE UNCHANGED vars
    BY <1>1, <1>4 DEF vars, kvars
<1>5. ASSUME NEW m \in Procs, Lifecycle(m) \/ ConnectFail(m) \/ Reconnect(m)
      PROVE  OffsetsCovered' /\ PositionCovered' /\ BatchCovered' /\ BatchInHand'
    BY <1>1, <1>5 DEF Lifecycle, ConnectFail, Reconnect, kvars
<1>6. ASSUME NEW m \in Procs, Ready(m)
      PROVE  OffsetsCovered' /\ PositionCovered' /\ BatchCovered' /\ BatchInHand'
    <2>1. UNCHANGED <<owner, position, committed, batch, todo, processed, commits, handled, dropped>>
        BY <1>6 DEF Ready
    <2>2. \A k \in Procs : \/ loop'[k][1] = loop[k][1]
                           \/ loop[k][1] = "off" /\ loop'[k][1] = "fetching"
        <3>1. CASE UNCHANGED loop
            BY <3>1
        <3>2. CASE loop[m][1] = "off" /\ loop' = [loop EXCEPT ![m][1] = "fetching"]
            BY <1>0, <3>2
        <3>3. UNCHANGED loop \/ \E l \in Loops : loop[m][l] = "off" /\ loop' = [loop EXCEPT ![m][l] = "fetching"]
            BY <1>6 DEF Ready
        <3>4. QED
            BY <1>0, <3>1, <3>2, <3>3
    <2>3. OffsetsCovered'
        BY <2>1, CoveredKept DEF OffsetsCovered
    <2>4. PositionCovered'
        BY <2>1, <2>2 DEF PositionCovered
    <2>5. BatchCovered'
        BY <2>1 DEF BatchCovered
    <2>6. BatchInHand'
        BY <2>1, <2>2 DEF BatchInHand
    <2>7. QED
        BY <2>3, <2>4, <2>5, <2>6
<1>7. ASSUME NEW m \in Procs, Deliver(m, 1)
      PROVE  OffsetsCovered' /\ PositionCovered' /\ BatchCovered' /\ BatchInHand'
    <2> DEFINE drained(take) == {x \in Message :
                                    /\ position[x.partition] <= x.offset
                                    /\ x.offset < position[x.partition] + take[x.partition]}
    <2>1. PICK take \in [Partitions -> 0 .. BatchSize] :
              /\ \A p \in Partitions : take[p] > 0 => owner[p] = m
              /\ batch' = [batch EXCEPT ![m][1] = drained(take)]
              /\ position' = [p \in Partitions |-> position[p] + take[p]]
        BY <1>7 DEF Deliver
    <2>2. /\ UNCHANGED <<owner, committed, todo, processed, commits, handled, dropped>>
          /\ loop[m][1] = "fetching"
          /\ loop' = [loop EXCEPT ![m][1] = "callback"]
        BY <1>7 DEF Deliver
    <2>3. batch[m][1] = {}
        BY <2>2 DEF BatchInHand
    <2>4. \A x \in Message : x.partition \in Partitions /\ x.offset \in Nat
        BY LogAssumption DEF Message
    <2>5. \A p \in Partitions : position[p] \in Nat /\ take[p] \in Nat
        BY LogAssumption, BatchAssumption DEF Offset
    <2>6. OffsetsCovered'
        BY <2>2, CoveredKept DEF OffsetsCovered
    <2>7. \A x \in Message :
              owner[x.partition] = m /\ x.offset < position'[x.partition] =>
                  x \in handled \cup dropped \cup drained(take)
        <3> SUFFICES ASSUME NEW x \in Message, owner[x.partition] = m,
                            x.offset < position'[x.partition]
                     PROVE  x \in handled \cup dropped \cup drained(take)
            OBVIOUS
        <3>1. CASE x.offset < position[x.partition]
            BY <2>2, <2>3, <2>4, <3>1 DEF PositionCovered
        <3>2. CASE position[x.partition] <= x.offset
            BY <2>1, <2>4, <3>2
        <3>3. QED
            BY <2>4, <2>5, <3>1, <3>2
    <2>8. batch'[m][1] = drained(take)
        BY <1>0, <2>1
    <2>9. PositionCovered'
        <3> SUFFICES ASSUME NEW k \in Procs, NEW p \in Partitions, owner[p] = k,
                            loop'[k][1] # "stopped", NEW x \in Message,
                            x.partition = p, x.offset < position'[p]
                     PROVE  x \in handled \cup dropped \cup batch'[k][1]
            BY <2>2 DEF PositionCovered
        <3>1. CASE k = m
            BY <2>7, <2>8, <3>1
        <3>2. CASE k # m
            <4>1. take[p] = 0
                BY <2>1, <2>5, <3>2
            <4>2. position'[p] = position[p] /\ batch'[k][1] = batch[k][1] /\ loop[k][1] # "stopped"
                BY <1>0, <2>1, <2>2, <2>5, <3>2, <4>1
            <4>3. QED
                BY <4>2 DEF PositionCovered
        <3>3. QED
            BY <3>1, <3>2
    <2>10. BatchCovered'
        <3> SUFFICES ASSUME NEW k \in Procs, NEW y \in batch'[k][1], NEW x \in Message,
                            x.partition = y.partition, x.offset < y.offset
                     PROVE  x \in handled \cup dropped \cup batch'[k][1]
            BY <2>2 DEF BatchCovered
        <3>1. CASE k = m
            <4>1. y \in drained(take)
                BY <2>8, <3>1
            <4>2. take[y.partition] > 0
                BY <2>4, <2>5, <4>1
            <4>3. owner[x.partition] = m /\ x.offset < position'[x.partition]
                BY <2>1, <2>4, <2>5, <4>1, <4>2
            <4>4. QED
                BY <2>7, <2>8, <3>1, <4>3
        <3>2. CASE k # m
            BY <1>0, <2>1, <3>2 DEF BatchCovered
        <3>3. QED
            BY <3>1, <3>2
    <2>11. BatchInHand'
        BY <1>0, <2>1, <2>2 DEF BatchInHand
    <2>12. QED
        BY <2>6, <2>9, <2>10, <2>11
\* The loop moves, the offsets do not, and what leaves a batch is dealt with
\* or belongs to a loop that has stopped.
<1>8. ASSUME NEW m \in Procs,
             UNCHANGED <<owner, position, committed, processed, commits>>,
             handled \subseteq handled', dropped \subseteq dropped',
             \A k \in Procs : k # m => batch'[k][1] = batch[k][1] /\ loop'[k][1] = loop[k][1],
             loop[m][1] # "stopped",
             \/ batch'[m][1] = batch[m][1]
             \/ batch'[m][1] = {} /\ batch[m][1] \subseteq handled' \cup dropped'
             \/ batch'[m][1] = {} /\ loop'[m][1] = "stopped"
      PROVE  OffsetsCovered' /\ PositionCovered' /\ BatchCovered'
    <2>1. OffsetsCovered'
        BY <1>8, CoveredKept DEF OffsetsCovered
    <2>2. PositionCovered'
        <3> SUFFICES ASSUME NEW k \in Procs, NEW p \in Partitions, owner[p] = k,
                            loop'[k][1] # "stopped", NEW x \in Message,
                            x.partition = p, x.offset < position[p]
                     PROVE  x \in handled' \cup dropped' \cup batch'[k][1]
            BY <1>8 DEF PositionCovered
        <3>1. x \in handled \cup dropped \cup batch[k][1]
            BY <1>8 DEF PositionCovered
        <3>2. QED
            BY <1>8, <3>1
    <2>3. BatchCovered'
        <3> SUFFICES ASSUME NEW k \in Procs, NEW y \in batch'[k][1], NEW x \in Message,
                            x.partition = y.partition, x.offset < y.offset
                     PROVE  x \in handled' \cup dropped' \cup batch'[k][1]
            BY DEF BatchCovered
        <3>1. batch'[k][1] = batch[k][1]
            BY <1>8
        <3>2. x \in handled \cup dropped \cup batch[k][1]
            BY <3>1 DEF BatchCovered
        <3>3. QED
            BY <1>8, <3>1, <3>2
    <2>4. QED
        BY <2>1, <2>2, <2>3
<1>9. ASSUME NEW m \in Procs, DeliverNothing(m, 1)
      PROVE  OffsetsCovered' /\ PositionCovered' /\ BatchCovered' /\ BatchInHand'
    <2>1. OffsetsCovered' /\ PositionCovered' /\ BatchCovered'
        BY <1>0, <1>8, <1>9 DEF DeliverNothing
    <2>2. BatchInHand'
        BY <1>0, <1>9 DEF DeliverNothing, BatchInHand
    <2>3. QED
        BY <2>1, <2>2
<1>13. ASSUME NEW m \in Procs, WakeUp(m, 1)
      PROVE  OffsetsCovered' /\ PositionCovered' /\ BatchCovered' /\ BatchInHand'
    <2>1. OffsetsCovered' /\ PositionCovered' /\ BatchCovered'
        BY <1>0, <1>8, <1>13 DEF WakeUp
    <2>2. BatchInHand'
        BY <1>0, <1>13 DEF WakeUp, BatchInHand
    <2>3. QED
        BY <2>1, <2>2
<1>14. ASSUME NEW m \in Procs, CallbackTerminates(m, 1)
      PROVE  OffsetsCovered' /\ PositionCovered' /\ BatchCovered' /\ BatchInHand'
    <2>1. OffsetsCovered' /\ PositionCovered' /\ BatchCovered'
        <3>1. /\ UNCHANGED <<owner, position, committed, processed, commits, handled, dropped>>
              /\ loop[m][1] = "callback" /\ loop' = [loop EXCEPT ![m][1] = "stopped"]
              /\ batch' = [batch EXCEPT ![m][1] = {}]
            BY <1>14 DEF CallbackTerminates
        <3>2. /\ batch'[m][1] = {} /\ loop'[m][1] = "stopped"
              /\ \A k \in Procs : k # m => batch'[k][1] = batch[k][1] /\ loop'[k][1] = loop[k][1]
            BY <1>0, <3>1
        <3>3. QED
            BY <1>8, <3>1, <3>2
    <2>2. BatchInHand'
        BY <1>0, <1>14 DEF CallbackTerminates, BatchInHand
    <2>3. QED
        BY <2>1, <2>2
<1>10. ASSUME NEW m \in Procs, CallbackPaused(m, 1)
       PROVE  OffsetsCovered' /\ PositionCovered' /\ BatchCovered' /\ BatchInHand'
    <2>1. OffsetsCovered' /\ PositionCovered' /\ BatchCovered'
        BY <1>0, <1>8, <1>10 DEF CallbackPaused
    <2>2. BatchInHand'
        BY <1>0, <1>10 DEF CallbackPaused, BatchInHand
    <2>3. QED
        BY <2>1, <2>2
<1>11. ASSUME NEW m \in Procs, CallbackRuns(m, 1)
       PROVE  OffsetsCovered' /\ PositionCovered' /\ BatchCovered' /\ BatchInHand'
    <2>1. OffsetsCovered' /\ PositionCovered' /\ BatchCovered'
        BY <1>0, <1>8, <1>11 DEF CallbackRuns
    <2>2. BatchInHand'
        BY <1>0, <1>11 DEF CallbackRuns, BatchInHand
    <2>3. QED
        BY <2>1, <2>2
<1>12. ASSUME NEW m \in Procs, NEW x \in Message, Settle(m, 1, x)
       PROVE  OffsetsCovered' /\ PositionCovered' /\ BatchCovered' /\ BatchInHand'
    <2>1. OffsetsCovered' /\ PositionCovered' /\ BatchCovered'
        BY <1>0, <1>8, <1>12 DEF Settle
    <2>2. BatchInHand'
        BY <1>0, <1>12 DEF Settle, BatchInHand
    <2>3. QED
        BY <2>1, <2>2
<1>15. ASSUME NEW m \in Procs, CompleteBatch(m, 1)
       PROVE  OffsetsCovered' /\ PositionCovered' /\ BatchCovered' /\ BatchInHand'
    \* Where commitMessage() throws, no partition gets a new offset.
    <2>1. PICK next \in [Partitions -> Offset] :
              /\ \A p \in Partitions : next[p] > 0 => NextOffset(batch[m][1], p, next[p])
              /\ commits' = [commits EXCEPT ![m] =
                    [p \in Partitions |-> IF next[p] > 0 THEN Append(@[p], next[p]) ELSE @[p]]]
              /\ processed' = [processed EXCEPT ![m] =
                    [p \in Partitions |-> IF next[p] > 0 THEN next[p] ELSE @[p]]]
        <3>1. CASE CommitBatch(m, 1)
            BY <3>1 DEF CommitBatch
        <3>2. CASE UNCHANGED <<commits, processed>>
            <4> DEFINE none == [p \in Partitions |-> 0]
            <4>1. none \in [Partitions -> Offset] /\ \A p \in Partitions : ~(none[p] > 0)
                BY Zeroes
            <4>2. commits = [commits EXCEPT ![m] = [p \in Partitions |-> @[p]]]
                BY <1>0
            <4>3. processed = [processed EXCEPT ![m] = [p \in Partitions |-> @[p]]]
                BY <1>0
            <4> HIDE DEF none
            <4>4. /\ commits' = [commits EXCEPT ![m] =
                        [p \in Partitions |-> IF none[p] > 0 THEN Append(@[p], none[p]) ELSE @[p]]]
                  /\ processed' = [processed EXCEPT ![m] =
                        [p \in Partitions |-> IF none[p] > 0 THEN none[p] ELSE @[p]]]
                BY <3>2, <4>1, <4>2, <4>3
            <4>5. QED
                BY <4>1, <4>4
        <3>3. QED
            BY <1>15, <3>1, <3>2 DEF CompleteBatch
    <2>2. /\ UNCHANGED <<owner, position, committed, todo, handled, dropped>>
          /\ loop[m][1] = "processing" /\ todo[m][1] = {}
          /\ loop' = [loop EXCEPT ![m][1] = "fetching"]
          /\ batch' = [batch EXCEPT ![m][1] = {}]
        BY <1>15 DEF CompleteBatch
    <2>3. batch[m][1] \subseteq handled /\ batch[m][1] \subseteq Message
        BY <1>0, <2>2 DEF BatchInHand
    <2>4. \A p \in Partitions : next[p] > 0 => Covered(p, next[p])'
        <3> SUFFICES ASSUME NEW p \in Partitions, next[p] > 0
                     PROVE  Covered(p, next[p])'
            OBVIOUS
        <3>1. Covered(p, next[p])
            BY <2>1, <2>3, CommitCovered
        <3>2. QED
            BY <2>2, <3>1, CoveredKept
    <2>5. OffsetsCovered'
        <3>1. \A p \in Partitions : Covered(p, committed[p])'
            BY <2>2, CoveredKept DEF OffsetsCovered
        <3>2. ASSUME NEW k \in Procs, NEW p \in Partitions
              PROVE  Covered(p, processed[k][p])'
            <4>1. Covered(p, processed[k][p]) /\ UNCHANGED <<handled, dropped>>
                BY <2>2 DEF OffsetsCovered
            <4>2. CASE k = m /\ next[p] > 0
                BY <2>1, <2>4, <4>2 DEF Covered
            <4>3. CASE ~(k = m /\ next[p] > 0)
                <5>1. processed'[k][p] = processed[k][p]
                    BY <2>1, <4>3
                <5>2. QED
                    BY <4>1, <5>1 DEF Covered
            <4>4. QED
                BY <4>2, <4>3
        <3>3. ASSUME NEW k \in Procs, NEW p \in Partitions, NEW i \in DOMAIN commits'[k][p]
              PROVE  Covered(p, commits[k][p][i])'
            <4>1. \A j \in DOMAIN commits[k][p] : Covered(p, commits[k][p][j])
                BY DEF OffsetsCovered
            <4>2. UNCHANGED <<handled, dropped>>
                BY <2>2
            <4>3. CASE k = m /\ next[p] > 0
                <5>1. commits'[k][p] = Append(commits[k][p], next[p])
                    BY <2>1, <4>3
                <5>2. \/ commits'[k][p][i] = next[p]
                      \/ i \in DOMAIN commits[k][p] /\ commits'[k][p][i] = commits[k][p][i]
                    BY <5>1, AppendElements
                <5>3. QED
                    BY <2>4, <4>1, <4>2, <4>3, <5>2 DEF Covered
            <4>4. CASE ~(k = m /\ next[p] > 0)
                <5>1. commits'[k][p] = commits[k][p]
                    BY <2>1, <4>4
                <5>2. QED
                    BY <4>1, <4>2, <5>1 DEF Covered
            <4>5. QED
                BY <4>3, <4>4
        <3>4. QED
            BY <3>1, <3>2, <3>3 DEF OffsetsCovered
    <2>6. PositionCovered'
        <3> SUFFICES ASSUME NEW k \in Procs, NEW p \in Partitions, owner[p] = k,
                            loop'[k][1] # "stopped", NEW x \in Message,
                            x.partition = p, x.offset < position[p]
                     PROVE  x \in handled \cup dropped \cup batch'[k][1]
            BY <2>2 DEF PositionCovered
        <3>1. loop[k][1] # "stopped"
            BY <1>0, <2>2
        <3>2. x \in handled \cup dropped \cup batch[k][1]
            BY <3>1 DEF PositionCovered
        <3>3. QED
            BY <1>0, <2>2, <2>3, <3>2
    <2>7. BatchCovered'
        BY <1>0, <2>2 DEF BatchCovered
    <2>8. BatchInHand'
        BY <1>0, <2>2 DEF BatchInHand
    <2>9. QED
        BY <2>5, <2>6, <2>7, <2>8
<1>16. ASSUME NEW m \in Procs, NEW p \in Partitions, BrokerCommit(m, p) \/ CommitFails(m, p)
       PROVE  OffsetsCovered' /\ PositionCovered' /\ BatchCovered' /\ BatchInHand'
    <2>1. commits[m][p] \in Seq(Offset) /\ commits[m][p] # <<>>
        BY <1>16 DEF BrokerCommit, CommitFails
    <2>2. /\ 1 \in DOMAIN commits[m][p] /\ Head(commits[m][p]) = commits[m][p][1]
          /\ \A i \in DOMAIN Tail(commits[m][p]) :
                i + 1 \in DOMAIN commits[m][p] /\ Tail(commits[m][p])[i] = commits[m][p][i + 1]
        BY <2>1, TailElements
    <2>3. /\ UNCHANGED <<owner, position, loop, batch, todo, processed, handled, dropped>>
          /\ commits' = [commits EXCEPT ![m][p] = Tail(@)]
          /\ \/ UNCHANGED committed
             \/ committed' = [committed EXCEPT ![p] = commits[m][p][1]]
        BY <1>16, <2>2 DEF BrokerCommit, CommitFails
    <2>4. ASSUME NEW q \in Partitions
          PROVE  Covered(q, committed[q])'
        <3>1. committed'[q] = committed[q] \/ (q = p /\ committed'[q] = commits[m][p][1])
            BY <2>3
        <3>2. Covered(q, committed[q]) /\ Covered(p, commits[m][p][1])
            BY <2>2 DEF OffsetsCovered
        <3>3. QED
            BY <2>3, <3>1, <3>2 DEF Covered
    <2>5. ASSUME NEW k \in Procs, NEW q \in Partitions, NEW i \in DOMAIN commits'[k][q]
          PROVE  Covered(q, commits[k][q][i])'
        <3>1. PICK j \in DOMAIN commits[k][q] : commits'[k][q][i] = commits[k][q][j]
            BY <2>2, <2>3
        <3>2. Covered(q, commits[k][q][j])
            BY DEF OffsetsCovered
        <3>3. QED
            BY <2>3, <3>1, <3>2 DEF Covered
    <2>6. \A k \in Procs, q \in Partitions : Covered(q, processed[k][q])'
        BY <2>3, CoveredKept DEF OffsetsCovered
    <2>7. OffsetsCovered'
        BY <2>4, <2>5, <2>6 DEF OffsetsCovered
    <2>8. PositionCovered'
        BY <2>3 DEF PositionCovered
    <2>9. QED
        BY <1>2, <2>3, <2>7, <2>8
<1>17. ASSUME NEW m \in Procs, NEW p \in Partitions, Assign(m, p)
       PROVE  OffsetsCovered' /\ PositionCovered' /\ BatchCovered' /\ BatchInHand'
    <2>1. /\ UNCHANGED <<committed, loop, batch, todo, processed, commits, handled, dropped>>
          /\ owner[p] = None /\ owner' = [owner EXCEPT ![p] = m]
          /\ position' = [position EXCEPT ![p] = committed[p]]
        BY <1>17 DEF Assign
    <2>2. OffsetsCovered'
        BY <2>1, CoveredKept DEF OffsetsCovered
    <2>3. PositionCovered'
        <3> SUFFICES ASSUME NEW k \in Procs, NEW q \in Partitions, owner'[q] = k,
                            loop[k][1] # "stopped", NEW x \in Message,
                            x.partition = q, x.offset < position'[q]
                     PROVE  x \in handled \cup dropped \cup batch[k][1]
            BY <2>1 DEF PositionCovered
        <3>1. CASE q = p
            <4>1. x.offset < committed[p]
                BY <2>1, <3>1
            <4>2. Covered(p, committed[p])
                BY DEF OffsetsCovered
            <4>3. QED
                BY <3>1, <4>1, <4>2 DEF Covered
        <3>2. CASE q # p
            <4>1. owner[q] = k /\ position'[q] = position[q]
                BY <2>1, <3>2
            <4>2. QED
                BY <4>1 DEF PositionCovered
        <3>3. QED
            BY <3>1, <3>2
    <2>4. QED
        BY <1>2, <2>1, <2>2, <2>3
\* A flush commits processed offsets, or nothing.
<1>18. ASSUME NEW m \in Procs, NEW outcome \in FlushOutcome, FlushOffsets(m, outcome),
              UNCHANGED <<handled, dropped>>,
              \A k \in Procs, p \in Partitions :
                  commits'[k][p] = commits[k][p] \/ commits'[k][p] = <<>>
       PROVE  OffsetsCovered'
    <2>1. ASSUME NEW p \in Partitions
          PROVE  Covered(p, committed[p])'
        <3>1. committed'[p] = committed[p] \/ committed'[p] = processed[m][p]
            <4>1. CASE outcome = "committed"
                BY <1>18, <4>1 DEF FlushOffsets
            <4>2. CASE outcome # "committed"
                BY <1>18, <4>2 DEF FlushOffsets, FlushOutcome
            <4>3. QED
                BY <4>1, <4>2
        <3>2. Covered(p, committed[p]) /\ Covered(p, processed[m][p])
            BY DEF OffsetsCovered
        <3>3. QED
            BY <1>18, <3>1, <3>2 DEF Covered
    <2>2. ASSUME NEW k \in Procs, NEW p \in Partitions
          PROVE  Covered(p, processed[k][p])'
        <3>1. processed'[k][p] = processed[k][p] \/ processed'[k][p] = 0
            BY <1>18 DEF FlushOffsets, NoEntries
        <3>2. Covered(p, processed[k][p]) /\ Covered(p, 0)
            BY LogAssumption DEF OffsetsCovered, Covered, Message
        <3>3. QED
            BY <1>18, <3>1, <3>2 DEF Covered
    <2>3. ASSUME NEW k \in Procs, NEW p \in Partitions, NEW i \in DOMAIN commits'[k][p]
          PROVE  Covered(p, commits[k][p][i])'
        <3>1. commits'[k][p] = commits[k][p]
            BY <1>18
        <3>2. Covered(p, commits[k][p][i])
            BY <3>1 DEF OffsetsCovered
        <3>3. QED
            BY <1>18, <3>1, <3>2 DEF Covered
    <2>4. QED
        BY <2>1, <2>2, <2>3 DEF OffsetsCovered
<1>19. ASSUME NEW m \in Procs, NEW revoked \in SUBSET Partitions, Revoke(m, revoked)
       PROVE  OffsetsCovered' /\ PositionCovered' /\ BatchCovered' /\ BatchInHand'
    <2>1. OffsetsCovered'
        BY <1>18, <1>19 DEF Revoke
    <2>2. PositionCovered'
        BY <1>3, <1>19 DEF Revoke
    <2>3. QED
        BY <1>2, <1>19, <2>1, <2>2 DEF Revoke
<1>20. ASSUME NEW m \in Procs, Evict(m)
       PROVE  OffsetsCovered' /\ PositionCovered' /\ BatchCovered' /\ BatchInHand'
    <2>1. OffsetsCovered'
        BY <1>20, CoveredKept DEF Evict, OffsetsCovered
    <2>2. PositionCovered'
        BY <1>3, <1>20 DEF Evict, Released
    <2>3. QED
        BY <1>2, <1>20, <2>1, <2>2 DEF Evict
<1>21. ASSUME NEW m \in Procs, Rejoin(m)
       PROVE  OffsetsCovered' /\ PositionCovered' /\ BatchCovered' /\ BatchInHand'
    <2>1. \A k \in Procs, p \in Partitions :
              commits'[k][p] = commits[k][p] \/ commits'[k][p] = <<>>
        BY <1>21 DEF Rejoin, NoCommits
    <2>2. OffsetsCovered'
        BY <1>18, <1>21, <2>1 DEF Rejoin, FlushOutcome
    <2>3. PositionCovered'
        BY <1>3, <1>21 DEF Rejoin
    <2>4. QED
        BY <1>2, <1>21, <2>2, <2>3 DEF Rejoin
<1>22. ASSUME NEW m \in Procs, Disconnected(m)
       PROVE  OffsetsCovered' /\ PositionCovered' /\ BatchCovered' /\ BatchInHand'
    <2>1. \A k \in Procs, p \in Partitions :
              commits'[k][p] = commits[k][p] \/ commits'[k][p] = <<>>
        BY <1>22 DEF Disconnected, NoCommits
    <2>2. UNCHANGED <<position, loop, batch, todo, handled, dropped>>
        BY <1>22 DEF Disconnected
    <2>3. OffsetsCovered'
        <3>1. CASE \E outcome \in FlushOutcome : FlushOffsets(m, outcome)
            BY <1>18, <2>1, <2>2, <3>1
        <3>2. CASE UNCHANGED <<processed, committed>>
            <4>1. ASSUME NEW k \in Procs, NEW p \in Partitions, NEW i \in DOMAIN commits'[k][p]
                  PROVE  Covered(p, commits[k][p][i])'
                <5>1. commits'[k][p] = commits[k][p]
                    BY <2>1
                <5>2. Covered(p, commits[k][p][i])
                    BY <5>1 DEF OffsetsCovered
                <5>3. QED
                    BY <2>2, <5>1, <5>2 DEF Covered
            <4>2. /\ \A p \in Partitions : Covered(p, committed[p])'
                  /\ \A k \in Procs, p \in Partitions : Covered(p, processed[k][p])'
                BY <2>2, <3>2, CoveredKept DEF OffsetsCovered
            <4>3. QED
                BY <4>1, <4>2 DEF OffsetsCovered
        <3>3. QED
            BY <1>22, <3>1, <3>2 DEF Disconnected
    <2>4. PositionCovered'
        BY <1>3, <1>22 DEF Disconnected, Released
    <2>5. QED
        BY <1>2, <2>2, <2>3, <2>4
<1>23. ASSUME NEW m \in Procs, Crash(m)
       PROVE  OffsetsCovered' /\ PositionCovered' /\ BatchCovered' /\ BatchInHand'
    <2>1. /\ UNCHANGED <<position, committed, handled, dropped>>
          /\ \A k \in Procs : k # m => batch'[k] = batch[k] /\ loop'[k] = loop[k] /\ todo'[k] = todo[k]
          /\ loop'[m][1] = "stopped" /\ batch'[m][1] = {}
          /\ \A p \in Partitions : owner'[p] # None => owner'[p] = owner[p]
        BY <1>0, <1>23 DEF Crash, Released
    <2>2. \A p \in Partitions : Covered(p, committed[p])'
        BY <2>1, CoveredKept DEF OffsetsCovered
    <2>3. ASSUME NEW k \in Procs, NEW p \in Partitions
          PROVE  Covered(p, processed[k][p])'
        <3>1. processed'[k][p] = processed[k][p] \/ processed'[k][p] = 0
            BY <1>23 DEF Crash, NoEntries
        <3>2. Covered(p, processed[k][p]) /\ Covered(p, 0)
            BY LogAssumption DEF OffsetsCovered, Covered, Message
        <3>3. QED
            BY <2>1, <3>1, <3>2 DEF Covered
    <2>4. ASSUME NEW k \in Procs, NEW p \in Partitions, NEW i \in DOMAIN commits'[k][p]
          PROVE  Covered(p, commits[k][p][i])'
        <3>1. commits'[k][p] = commits[k][p]
            BY <1>23 DEF Crash, NoCommits
        <3>2. Covered(p, commits[k][p][i])
            BY <3>1 DEF OffsetsCovered
        <3>3. QED
            BY <2>1, <3>1, <3>2 DEF Covered
    <2>5. OffsetsCovered'
        BY <2>2, <2>3, <2>4 DEF OffsetsCovered
    <2>6. PositionCovered'
        <3> SUFFICES ASSUME NEW k \in Procs, NEW p \in Partitions, owner'[p] = k,
                            loop'[k][1] # "stopped", NEW x \in Message,
                            x.partition = p, x.offset < position[p]
                     PROVE  x \in handled \cup dropped \cup batch'[k][1]
            BY <2>1 DEF PositionCovered
        <3>1. owner[p] = k /\ loop[k][1] # "stopped" /\ batch'[k][1] = batch[k][1]
            BY <2>1, NoneAssumption
        <3>2. QED
            BY <3>1 DEF PositionCovered
    <2>7. BatchCovered'
        BY <2>1 DEF BatchCovered
    <2>8. BatchInHand'
        BY <2>1 DEF BatchInHand
    <2>9. QED
        BY <2>5, <2>6, <2>7, <2>8
<1>24. QED
    BY <1>0, <1>4, <1>5, <1>6, <1>7, <1>9, <1>10, <1>11, <1>12, <1>13, <1>14, <1>15, <1>16,
       <1>17, <1>19, <1>20, <1>21, <1>22, <1>23 DEF Next, Consume, LoopStep, GroupStep

(* However partitions are revoked, members evicted, commits lost and        *)
(* processes crashed, the offset a consumer group has committed, every      *)
(* queued commit and every offset a revocation would flush lie behind the   *)
(* messages that were handled, or thrown away while paused: as long as      *)
(* every process keeps to its one consume loop.                             *)
THEOREM OffsetsNeverAhead == SafeSpec => []OffsetsCovered
<1>1. Init => TypeOK /\ Inductive
    BY InitTypes, InitInductive
<1>2. TypeOK /\ Inductive /\ [Next]_vars => TypeOK' /\ Inductive'
    BY StepTypes, StepInductive
<1>3. Inductive => OffsetsCovered
    BY DEF Inductive, OffsetsCovered
<1>4. QED
    BY <1>1, <1>2, <1>3, PTL DEF SafeSpec

-----------------------------------------------------------------------------
(* Without a pause nothing is thrown away, so that nothing is lost.         *)

NeverPaused == dropped = {} /\ \A m \in Procs : state[m] # "paused"

LEMMA StepNeverPaused ==
    ASSUME "pause" \notin LifecycleCalls \cup LateCalls, TypeOK, NeverPaused, [Next]_vars
    PROVE  NeverPaused'
<1> USE DEF NeverPaused, TypeOK, MTypeOK
<1>1. CASE UNCHANGED <<state, dropped>>
    BY <1>1
<1>2. ASSUME NEW m \in Procs, ManagerStep(m)
      PROVE  \A k \in Procs : state'[k] # "paused"
    <2>1. ASSUME AppCall(m)
          PROVE  \A k \in Procs : state'[k] # "paused"
        <3>1. ~Pause(m)
            BY DEF Pause, MayCall
        <3>2. QED
            BY <2>1, <3>1 DEF AppCall, Resume, RunnerStop, SetState
    <2>2. ASSUME NEW c \in Calls, Stop(m, c)
          PROVE  \A k \in Procs : state'[k] # "paused"
        BY <2>2 DEF Stop
    <2>3. ASSUME NEW c \in Calls, ShutdownStep(m, c)
          PROVE  \A k \in Procs : state'[k] # "paused"
        BY <2>3 DEF ShutdownStep, ShutdownWait, ForceTerminate, ShutdownSeen, FinishStop
    <2>4. QED
        BY <1>2, <2>1, <2>2, <2>3 DEF ManagerStep
<1>3. ASSUME NEW m \in Procs, Lifecycle(m)
      PROVE  NeverPaused'
    BY <1>2, <1>3 DEF Lifecycle, kvars
<1>4. ASSUME NEW m \in Procs, NEW l \in Loops, CallbackTerminates(m, l)
      PROVE  NeverPaused'
    BY <1>4 DEF CallbackTerminates, Terminate, SetState
<1>5. \A m \in Procs, l \in Loops : ~CallbackPaused(m, l)
    BY DEF CallbackPaused
<1>6. ASSUME NEW m \in Procs, NEW l \in Loops, Consume(m, l) \/ LoopStep(m, l)
      PROVE  NeverPaused'
    <2>1. CASE Consume(m, l)
        BY <1>1, <2>1 DEF Consume, Deliver, DeliverNothing, mvars
    <2>2. CASE WakeUp(m, l) \/ CallbackRuns(m, l) \/ CompleteBatch(m, l)
        BY <1>1, <2>2 DEF WakeUp, CallbackRuns, CompleteBatch, mvars
    <2>3. CASE \E x \in Message : Settle(m, l, x)
        BY <1>1, <2>3 DEF Settle, mvars
    <2>4. QED
        BY <1>4, <1>5, <1>6, <2>1, <2>2, <2>3 DEF LoopStep
<1>7. ASSUME NEW m \in Procs, Ready(m) \/ ConnectFail(m) \/ GroupStep(m)
      PROVE  NeverPaused'
    <2>1. UNCHANGED <<state, dropped>>
        BY <1>7 DEF Ready, ConnectFail, GroupStep, Reconnect, BrokerCommit, CommitFails,
                    Assign, Revoke, Evict, Rejoin, Disconnected, Crash, mvars
    <2>2. QED
        BY <1>1, <2>1
<1>8. CASE UNCHANGED vars
    BY <1>1, <1>8 DEF vars, mvars, kvars
<1>9. QED
    BY <1>3, <1>6, <1>7, <1>8 DEF Next

(* Where the application never pauses and every process keeps to its one    *)
(* consume loop, the group has committed past no message that was not       *)
(* handled: delivery is at least once through every rebalance and crash.    *)
THEOREM NothingLostUnpaused ==
    ASSUME "pause" \notin LifecycleCalls \cup LateCalls, MaxLoops = 1
    PROVE  SafeSpec => []NothingLost
<1>1. Init => NeverPaused
    BY DEF Init, MInit, NeverPaused
<1>2. TypeOK /\ NeverPaused /\ [Next]_vars => NeverPaused'
    BY StepNeverPaused
<1>3. TypeOK /\ NeverPaused /\ OffsetsCovered => NothingLost
    BY DEF TypeOK, NeverPaused, OffsetsCovered, NothingLost, Covered, Message
<1>4. QED
    BY <1>1, <1>2, <1>3, TypeCorrect, OffsetsNeverAhead, PTL DEF SafeSpec

-----------------------------------------------------------------------------
(* The runner and its manager.                                              *)

\* Every step of the runner is a step of its manager, or leaves it alone.
LEMMA ManagerSteps == [Next]_vars => [MNext]_mvars
<1> SUFFICES ASSUME [Next]_vars
             PROVE  [MNext]_mvars
    OBVIOUS
<1>1. CASE UNCHANGED vars
    BY <1>1 DEF vars
<1>2. ASSUME NEW m \in Procs, Lifecycle(m)
      PROVE  MNext
    BY <1>2 DEF Lifecycle, MNext
<1>3. ASSUME NEW m \in Procs, NEW l \in Loops, CallbackTerminates(m, l)
      PROVE  MNext
    BY <1>3 DEF CallbackTerminates, MNext
<1>4. ASSUME NEW m \in Procs, NEW l \in Loops, Consume(m, l) \/ LoopStep(m, l)
      PROVE  [MNext]_mvars
    <2>1. CASE Consume(m, l)
        BY <2>1 DEF Consume, Deliver, DeliverNothing
    <2>2. CASE LoopStep(m, l)
        BY <1>3, <2>2 DEF LoopStep, CallbackPaused, WakeUp, CallbackRuns, Settle, CompleteBatch
    <2>3. QED
        BY <1>4, <2>1, <2>2
<1>5. ASSUME NEW m \in Procs, Ready(m) \/ ConnectFail(m) \/ GroupStep(m)
      PROVE  UNCHANGED mvars
    BY <1>5 DEF Ready, ConnectFail, GroupStep, Reconnect, BrokerCommit, CommitFails,
                Assign, Revoke, Evict, Rejoin, Disconnected, Crash
<1>6. QED
    BY <1>1, <1>2, <1>4, <1>5 DEF Next

\* What is proved of the manager alone holds of it in a Kafka process.
LEMMA ImplementsManager == SafeSpec => MSafeSpec
<1>1. Init => MInit
    BY DEF Init
<1>2. QED
    BY <1>1, ManagerSteps, PTL DEF SafeSpec, MSafeSpec

\* The induction behind GracefulTermination: only a loop that stops terminates
\* the process without force, and only a batch in hand has handlers running.
LoopStopped ==
    \A m \in Procs :
        /\ IsTerminated(m) /\ ~Forced(m) => \E l \in Loops : loop[m][l] = "stopped"
        /\ \A l \in Loops : loop[m][l] # "processing" => todo[m][l] = {}

LEMMA StepLoopStopped ==
    ASSUME TypeOK, LoopStopped, [Next]_vars
    PROVE  LoopStopped'
<1> USE DEF TypeOK, MTypeOK, LoopStopped
\* A step that leaves the manager alone, and stopped loops stopped.
<1>1. ASSUME UNCHANGED mvars,
             \A m \in Procs, l \in Loops :
                 /\ loop[m][l] = "stopped" => loop'[m][l] = "stopped"
                 /\ loop'[m][l] # "processing" => todo'[m][l] = {}
      PROVE  LoopStopped'
    BY <1>1 DEF mvars, IsTerminated, Forced
<1>2. CASE UNCHANGED vars
    BY <1>1, <1>2 DEF vars, kvars
<1>3. ASSUME NEW m \in Procs, Lifecycle(m)
      PROVE  LoopStopped'
    <2>1. ManagerStep(m) /\ UNCHANGED <<loop, todo>>
        BY <1>3 DEF Lifecycle, kvars
    <2>2. \A k \in Procs : IsTerminated(k)' /\ ~Forced(k)' => IsTerminated(k) /\ ~Forced(k)
        <3>1. CASE AppCall(m)
            BY <3>1 DEF AppCall, Pause, Resume, RunnerStop, SetState, IsTerminated, Forced
        <3>2. ASSUME NEW c \in Calls, Stop(m, c) \/ ShutdownSeen(m, c) \/ FinishStop(m, c)
              PROVE  \A k \in Procs :
                        IsTerminated(k)' /\ ~Forced(k)' => IsTerminated(k) /\ ~Forced(k)
            BY <3>2 DEF Stop, ShutdownSeen, FinishStop, IsTerminated, Forced
        <3>3. ASSUME NEW c \in Calls, ShutdownWait(m, c)
              PROVE  \A k \in Procs :
                        IsTerminated(k)' /\ ~Forced(k)' => IsTerminated(k) /\ ~Forced(k)
            BY <3>3 DEF ShutdownWait, IsTerminated, Forced
        <3>4. ASSUME NEW c \in Calls, ForceTerminate(m, c)
              PROVE  \A k \in Procs :
                        IsTerminated(k)' /\ ~Forced(k)' => IsTerminated(k) /\ ~Forced(k)
            BY <3>4 DEF ForceTerminate, IsTerminated, Forced
        <3>5. QED
            BY <2>1, <3>1, <3>2, <3>3, <3>4 DEF ManagerStep, ShutdownStep
    <2>3. QED
        BY <2>1, <2>2
<1>4. ASSUME NEW m \in Procs, NEW l \in Loops, CallbackTerminates(m, l)
      PROVE  LoopStopped'
    <2>1. /\ loop' = [loop EXCEPT ![m][l] = "stopped"] /\ UNCHANGED <<todo, count>>
          /\ loop[m][l] = "callback"
          /\ state' = [state EXCEPT ![m] = "terminated"]
        BY <1>4 DEF CallbackTerminates, Terminate, SetState
    <2>2. \A k \in Procs : k # m => loop'[k] = loop[k] /\ state'[k] = state[k]
        BY <2>1
    <2>3. loop'[m][l] = "stopped" /\ \A k \in Loops : k # l => loop'[m][k] = loop[m][k]
        BY <2>1
    <2>4. ASSUME NEW k \in Procs
          PROVE  /\ IsTerminated(k)' /\ ~Forced(k)' => \E j \in Loops : loop'[k][j] = "stopped"
                 /\ \A j \in Loops : loop'[k][j] # "processing" => todo'[k][j] = {}
        <3>1. CASE k = m
            BY <2>1, <2>3, <3>1
        <3>2. CASE k # m
            BY <2>1, <2>2, <3>2 DEF IsTerminated, Forced
        <3>3. QED
            BY <3>1, <3>2
    <2>5. QED
        BY <2>4
<1>5. ASSUME NEW m \in Procs, NEW l \in Loops, Consume(m, l) \/ WakeUp(m, l) \/ CallbackPaused(m, l)
      PROVE  LoopStopped'
    <2>1. /\ UNCHANGED mvars /\ UNCHANGED todo
          /\ loop[m][l] \in {"fetching", "sleeping", "callback"}
          /\ \E s \in {"callback", "fetching", "sleeping"} : loop' = [loop EXCEPT ![m][l] = s]
        BY <1>5 DEF Consume, Deliver, DeliverNothing, WakeUp, CallbackPaused
    <2>2. QED
        BY <1>1, <2>1
<1>6. ASSUME NEW m \in Procs, NEW l \in Loops, CallbackRuns(m, l)
      PROVE  LoopStopped'
    <2>1. /\ UNCHANGED mvars /\ loop[m][l] = "callback"
          /\ loop' = [loop EXCEPT ![m][l] = IF batch[m][l] = {} THEN "fetching" ELSE "processing"]
          /\ todo' = [todo EXCEPT ![m][l] = batch[m][l]]
        BY <1>6 DEF CallbackRuns
    <2>2. QED
        BY <1>1, <2>1
<1>7. ASSUME NEW m \in Procs, NEW l \in Loops, NEW x \in Message, Settle(m, l, x)
      PROVE  LoopStopped'
    BY <1>1, <1>7 DEF Settle
<1>8. ASSUME NEW m \in Procs, NEW l \in Loops, CompleteBatch(m, l)
      PROVE  LoopStopped'
    <2>1. /\ UNCHANGED mvars /\ UNCHANGED todo
          /\ loop[m][l] = "processing" /\ todo[m][l] = {}
          /\ loop' = [loop EXCEPT ![m][l] = "fetching"]
        BY <1>8 DEF CompleteBatch
    <2>2. QED
        BY <1>1, <2>1
<1>9. ASSUME NEW m \in Procs, Ready(m)
      PROVE  LoopStopped'
    <2>1. UNCHANGED mvars /\ UNCHANGED todo
        BY <1>9 DEF Ready
    <2>2. UNCHANGED loop \/ \E l \in Loops : loop[m][l] = "off" /\ loop' = [loop EXCEPT ![m][l] = "fetching"]
        BY <1>9 DEF Ready
    <2>3. CASE UNCHANGED loop
        BY <1>1, <2>1, <2>3
    <2>4. ASSUME NEW l \in Loops, loop[m][l] = "off", loop' = [loop EXCEPT ![m][l] = "fetching"]
          PROVE  LoopStopped'
        BY <1>1, <2>1, <2>4
    <2>5. QED
        BY <2>2, <2>3, <2>4
<1>10. ASSUME NEW m \in Procs, Crash(m)
       PROVE  LoopStopped'
    <2>1. /\ UNCHANGED mvars
          /\ loop' = [loop EXCEPT ![m] = [l \in Loops |-> "stopped"]]
          /\ todo' = [todo EXCEPT ![m] = [l \in Loops |-> {}]]
        BY <1>10 DEF Crash
    <2>2. QED
        BY <1>1, <2>1
<1>11. ASSUME NEW m \in Procs, ConnectFail(m) \/ (GroupStep(m) /\ ~Crash(m))
       PROVE  LoopStopped'
    <2>1. UNCHANGED <<mvars, loop, todo>>
        BY <1>11 DEF ConnectFail, GroupStep, Reconnect, BrokerCommit, CommitFails,
                     Assign, Revoke, Evict, Rejoin, Disconnected
    <2>2. QED
        BY <1>1, <2>1
<1>12. ASSUME NEW m \in Procs, NEW l \in Loops, Consume(m, l) \/ LoopStep(m, l)
       PROVE  LoopStopped'
    BY <1>4, <1>5, <1>6, <1>7, <1>8, <1>12 DEF LoopStep
<1>13. ASSUME NEW m \in Procs, GroupStep(m)
       PROVE  LoopStopped'
    BY <1>10, <1>11, <1>13
<1>14. QED
    BY <1>2, <1>3, <1>9, <1>11, <1>12, <1>13 DEF Next

(* When the consumer itself, and not an exhausted wait of stop(), has       *)
(* terminated a process that was connected once, no handler is running any  *)
(* more and its loop has stopped: a graceful shutdown leaves no batch half  *)
(* done, however many reconnects other processes have made.                 *)
THEOREM TerminatesGracefully == SafeSpec => []GracefulTermination
<1>1. Init => LoopStopped
    <2> SUFFICES ASSUME Init, NEW m \in Procs
                 PROVE  ~IsTerminated(m) /\ \A l \in Loops : todo[m][l] = {}
        BY DEF LoopStopped
    <2>1. QED
        BY DEF Init, MInit, IsTerminated
<1>2. TypeOK /\ LoopStopped /\ [Next]_vars => LoopStopped'
    BY StepLoopStopped
<1>3. LoopStopped => GracefulTermination
    <2> SUFFICES ASSUME LoopStopped, NEW m \in Procs, OneLoop(m), IsTerminated(m), ~Forced(m),
                        NEW l \in Loops
                 PROVE  todo[m][l] = {} /\ loop[m][l] \in {"off", "stopped"}
        BY DEF GracefulTermination
    <2>1. PICK k \in Loops : loop[m][k] = "stopped"
        BY DEF LoopStopped
    <2>2. loop[m][l] # "off" => l = k
        BY <2>1 DEF OneLoop
    <2>3. QED
        BY <2>1, <2>2 DEF LoopStopped
<1>4. QED
    BY <1>1, <1>2, <1>3, TypeCorrect, PTL DEF SafeSpec


-----------------------------------------------------------------------------
(* A consumer stays stopped.                                                *)

(* Once a stop() call of a Kafka process has left its loop the process is   *)
(* terminated and stays so, and its producer is stopped in no other state,  *)
(* unless the application calls on it again: nothing that the consumer, the *)
(* client or the group does revives it (Manager.shutdown).                  *)
THEOREM StopTerminatesConsumer == SafeSpec => []StopLeavesTerminated
BY ImplementsManager, StopTerminates, PTL

\* Only a running process takes a batch into its hands.
LEMMA BatchNeedsRunning ==
    ASSUME TypeOK, [Next]_vars, NEW m \in Procs, NEW l \in Loops, state[m] # "running"
    PROVE  todo'[m][l] \subseteq todo[m][l]
<1> USE DEF TypeOK
<1>1. CASE UNCHANGED todo
    BY <1>1
<1>2. ASSUME NEW p \in Procs, NEW k \in Loops, CallbackRuns(p, k)
      PROVE  todo'[m][l] \subseteq todo[m][l]
    <2>1. state[p] = "running" /\ todo' = [todo EXCEPT ![p][k] = batch[p][k]]
        BY <1>2 DEF CallbackRuns
    <2>2. QED
        BY <2>1
<1>3. ASSUME NEW p \in Procs, NEW k \in Loops, NEW x \in Message, Settle(p, k, x)
      PROVE  todo'[m][l] \subseteq todo[m][l]
    <2>1. todo' = [todo EXCEPT ![p][k] = @ \ {x}]
        BY <1>3 DEF Settle
    <2>2. QED
        BY <2>1
<1>4. ASSUME NEW p \in Procs, Crash(p)
      PROVE  todo'[m][l] \subseteq todo[m][l]
    <2>1. todo' = [todo EXCEPT ![p] = [k \in Loops |-> {}]]
        BY <1>4 DEF Crash
    <2>2. QED
        BY <2>1
<1>5. ASSUME NEW p \in Procs, NEW k \in Loops, Consume(p, k) \/ LoopStep(p, k)
      PROVE  todo'[m][l] \subseteq todo[m][l]
    <2>1. CASE Consume(p, k)
        BY <1>1, <2>1 DEF Consume, Deliver, DeliverNothing
    <2>2. CASE CallbackTerminates(p, k) \/ CallbackPaused(p, k) \/ WakeUp(p, k) \/ CompleteBatch(p, k)
        BY <1>1, <2>2 DEF CallbackTerminates, CallbackPaused, WakeUp, CompleteBatch
    <2>3. QED
        BY <1>2, <1>3, <1>5, <2>1, <2>2 DEF LoopStep
<1>6. ASSUME NEW p \in Procs, Ready(p) \/ ConnectFail(p) \/ GroupStep(p) \/ Lifecycle(p)
      PROVE  todo'[m][l] \subseteq todo[m][l]
    <2>1. UNCHANGED todo \/ Crash(p)
        BY <1>6 DEF Ready, ConnectFail, GroupStep, Reconnect, BrokerCommit, CommitFails, Assign,
                    Revoke, Evict, Rejoin, Disconnected, Lifecycle, kvars
    <2>2. QED
        BY <1>1, <1>4, <2>1
<1>7. QED
    BY <1>1, <1>5, <1>6 DEF Next, vars, kvars

(* After stop() has returned, no loop of the process starts on another      *)
(* batch, however it ended and whatever the loops had in their hands: they  *)
(* only finish it (consumeCallback reads the state before processBatch).    *)
THEOREM NoBatchOnceStopped == SafeSpec => NoBatchAfterStop
<1>1. TypeOK /\ StopLeavesTerminated /\ [Next]_vars
      => [\A m \in Procs, l \in Loops :
             LateCalls = {} /\ (\E c \in Calls : call[m][c] = "done") =>
                 todo'[m][l] \subseteq todo[m][l]]_vars
    <2> SUFFICES ASSUME TypeOK, StopLeavesTerminated, [Next]_vars,
                        NEW m \in Procs, NEW l \in Loops,
                        LateCalls = {}, NEW c \in Calls, call[m][c] = "done"
                 PROVE  todo'[m][l] \subseteq todo[m][l]
        OBVIOUS
    <2>1. state[m] # "running"
        BY DEF StopLeavesTerminated, IsTerminated
    <2>2. QED
        BY <2>1, BatchNeedsRunning
<1>2. QED
    BY <1>1, TypeCorrect, StopTerminatesConsumer, PTL DEF SafeSpec, NoBatchAfterStop
=============================================================================
