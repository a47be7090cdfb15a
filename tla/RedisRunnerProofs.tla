-------------------------- MODULE RedisRunnerProofs --------------------------
(***************************************************************************)
(* Proofs about the Redis consumer, for any number of instances, Node       *)
(* processes, topics, messages, resources and faults.                       *)
(***************************************************************************)
EXTENDS RedisRunner, ManagerProofs, FiniteSetTheorems, TLAPS

(* The types, without the bound on `starts`: that is a theorem below.       *)
Types ==
    /\ MTypeOK
    /\ PTypeOK
    /\ loop \in [Procs -> LoopState]
    /\ lane \in [Procs -> [Topics -> LaneState]]
    /\ stage \in [Procs -> [Messages -> Stage]]
    /\ queue \in [Messages -> Procs \cup {Visible, Deleted}]
    /\ starts \in [Messages -> Nat]
    /\ faults \in 0 .. MaxFaults

-----------------------------------------------------------------------------
(* What a step does to the stages and the lanes.                            *)
Moved(p, m, from, to) ==
    /\ stage[p][m] = from /\ stage'[p][m] = to
    /\ \A q \in Procs, n \in Messages : q # p \/ n # m => stage'[q][n] = stage[q][n]

Switched(p, t, s) ==
    /\ lane'[p][t] = s
    /\ \A q \in Procs, u \in Topics : q # p \/ u # t => lane'[q][u] = lane[q][u]

LEMMA Move ==
    ASSUME stage \in [Procs -> [Messages -> Stage]], NEW p \in Procs, NEW m \in Messages,
           NEW from, NEW s \in Stage, stage[p][m] = from, SetStage(p, m, s)
    PROVE  stage' \in [Procs -> [Messages -> Stage]] /\ Moved(p, m, from, s)
<1>1. stage' = [stage EXCEPT ![p][m] = s]
    BY DEF SetStage
<1>2. stage' \in [Procs -> [Messages -> Stage]]
    BY <1>1
<1>3. stage'[p][m] = s
    BY <1>1
<1>4. \A q \in Procs, n \in Messages : q # p \/ n # m => stage'[q][n] = stage[q][n]
    BY <1>1
<1>5. QED
    BY <1>2, <1>3, <1>4 DEF Moved

LEMMA Switch ==
    ASSUME lane \in [Procs -> [Topics -> LaneState]], NEW p \in Procs, NEW t \in Topics,
           NEW s \in LaneState, SetLane(p, t, s)
    PROVE  lane' \in [Procs -> [Topics -> LaneState]] /\ Switched(p, t, s)
<1>1. lane' = [lane EXCEPT ![p][t] = s]
    BY DEF SetLane
<1>2. lane' \in [Procs -> [Topics -> LaneState]]
    BY <1>1
<1>3. lane'[p][t] = s
    BY <1>1
<1>4. \A q \in Procs, u \in Topics : q # p \/ u # t => lane'[q][u] = lane[q][u]
    BY <1>1
<1>5. QED
    BY <1>2, <1>3, <1>4 DEF Switched

LEMMA FaultEffect ==
    ASSUME faults \in 0 .. MaxFaults, NEW kind, Fault(kind)
    PROVE  faults' \in 0 .. MaxFaults /\ faults' = faults + 1
BY RedisAssumption DEF Fault

LEMMA PoolTypes ==
    ASSUME PTypeOK, NEW p \in Procs, NEW x \in Clients, Acquire(p, x) \/ Release(p, x)
    PROVE  PTypeOK'
<1> USE DEF PTypeOK
<1>1. CASE Acquire(p, x)
    <2>1. Append(line[p], x) \in Seq(Clients) /\ UNCHANGED <<leaked, draining>>
        BY <1>1 DEF Acquire
    <2>2. CASE lent' = [lent EXCEPT ![p] = @ \cup {x}] /\ UNCHANGED line
        BY <2>1, <2>2
    <2>3. CASE line' = [line EXCEPT ![p] = Append(@, x)] /\ UNCHANGED lent
        BY <2>1, <2>3
    <2>4. QED
        BY <1>1, <2>2, <2>3 DEF Acquire
<1>2. CASE Release(p, x) /\ line[p] = <<>>
    BY <1>2 DEF Release
<1>3. CASE Release(p, x) /\ line[p] # <<>>
    <2>1. Head(line[p]) \in Clients /\ Tail(line[p]) \in Seq(Clients)
        BY <1>3
    <2>2. /\ lent' = [lent EXCEPT ![p] = (@ \ {x}) \cup {Head(line[p])}]
          /\ line' = [line EXCEPT ![p] = Tail(@)] /\ UNCHANGED <<leaked, draining>>
        BY <1>3 DEF Release
    <2>3. lent' \in [Procs -> SUBSET Clients] /\ line' \in [Procs -> Seq(Clients)]
        BY <2>1, <2>2
    <2>4. QED
        BY <2>2, <2>3
<1>4. QED
    BY <1>1, <1>2, <1>3

-----------------------------------------------------------------------------
(* The steps of a handler: it goes on, or it ends and its lane is done.     *)
Going == {"acquiring", "deleting", "handling", "releasing"}

LEMMA HandlerMoves ==
    ASSUME Types, NEW p \in Procs, NEW m \in Messages, HandlerStep(p, m)
    PROVE  /\ stage' \in [Procs -> [Messages -> Stage]]
           /\ lane' \in [Procs -> [Topics -> LaneState]]
           /\ UNCHANGED <<mvars, loop>>
           /\ stage[p][m] # "none"
           /\ \/ UNCHANGED lane /\ \E s \in Going : Moved(p, m, stage[p][m], s)
              \/ Switched(p, TopicOf[m], "done") /\ Moved(p, m, stage[p][m], "none")
           /\ AcquireResource(p, m) => \E s \in {"acquiring", "none"} : Moved(p, m, "started", s)
           /\ Acquired(p, m) => \E s \in {"deleting", "releasing"} : Moved(p, m, "acquiring", s)
           /\ Delete(p, m) => Moved(p, m, "deleting", "handling")
           /\ DeleteFails(p, m) => Moved(p, m, "deleting", "releasing")
           /\ HandlerEnds(p, m) => Moved(p, m, "handling", "releasing")
           /\ ReleaseResource(p, m) => Moved(p, m, "releasing", "none")
<1> USE DEF Types
<1>0. /\ Stage = {"none", "started"} \cup Going /\ "done" \in LaneState
      /\ TopicOf[m] \in Topics /\ {"acquiring", "deleting", "handling", "releasing"} = Going
    BY RedisAssumption DEF Stage, Going, LaneState
<1> DEFINE Goes(from, s) ==
        /\ Moved(p, m, from, s) /\ stage' \in [Procs -> [Messages -> Stage]]
        /\ UNCHANGED <<mvars, loop, lane>>
    Ends(from) ==
        /\ Moved(p, m, from, "none") /\ stage' \in [Procs -> [Messages -> Stage]]
        /\ Switched(p, TopicOf[m], "done") /\ lane' \in [Procs -> [Topics -> LaneState]]
        /\ UNCHANGED <<mvars, loop>>
<1>1. ASSUME AcquireResource(p, m)
      PROVE  Goes("started", "acquiring") \/ Ends("started")
    <2>1. stage[p][m] = "started" /\ UNCHANGED <<mvars, loop>>
        BY <1>1 DEF AcquireResource
    <2>2. CASE MayAcquire(p)
        <3>1. SetStage(p, m, "acquiring") /\ UNCHANGED lane
            BY <1>1, <2>2 DEF AcquireResource
        <3>2. QED
            BY <1>0, <2>1, <3>1, Move
    <2>3. CASE ~MayAcquire(p)
        <3>1. SetStage(p, m, "none") /\ SetLane(p, TopicOf[m], "done")
            BY <1>1, <2>3 DEF AcquireResource
        <3>2. QED
            BY <1>0, <2>1, <3>1, Move, Switch
    <2>4. QED
        BY <2>2, <2>3
<1>2. ASSUME Acquired(p, m)
      PROVE  \E s \in {"deleting", "releasing"} : Goes("acquiring", s)
    <2>1. PICK s \in {"deleting", "releasing"} :
              stage[p][m] = "acquiring" /\ SetStage(p, m, s) /\ UNCHANGED <<mvars, loop, lane>>
        BY <1>2 DEF Acquired
    <2>2. Goes("acquiring", s)
        BY <1>0, <2>1, Move
    <2>3. QED
        BY <2>2
<1>3. ASSUME Delete(p, m)
      PROVE  Goes("deleting", "handling")
    <2>1. stage[p][m] = "deleting" /\ SetStage(p, m, "handling") /\ UNCHANGED <<mvars, loop, lane>>
        BY <1>3 DEF Delete
    <2>2. QED
        BY <1>0, <2>1, Move
<1>4. ASSUME DeleteFails(p, m)
      PROVE  Goes("deleting", "releasing")
    <2>1. stage[p][m] = "deleting" /\ SetStage(p, m, "releasing") /\ UNCHANGED <<mvars, loop, lane>>
        BY <1>4 DEF DeleteFails
    <2>2. QED
        BY <1>0, <2>1, Move
<1>5. ASSUME HandlerEnds(p, m)
      PROVE  Goes("handling", "releasing")
    <2>1. stage[p][m] = "handling" /\ SetStage(p, m, "releasing") /\ UNCHANGED <<mvars, loop, lane>>
        BY <1>5 DEF HandlerEnds
    <2>2. QED
        BY <1>0, <2>1, Move
<1>6. ASSUME ReleaseResource(p, m)
      PROVE  Ends("releasing")
    <2>1. /\ stage[p][m] = "releasing" /\ SetStage(p, m, "none") /\ SetLane(p, TopicOf[m], "done")
          /\ UNCHANGED <<mvars, loop>>
        BY <1>6 DEF ReleaseResource
    <2>2. QED
        BY <1>0, <2>1, Move, Switch
<1>7. \E from \in {"started"} \cup Going : Ends(from) \/ \E s \in Going : Goes(from, s)
    BY <1>0, <1>1, <1>2, <1>3, <1>4, <1>5, <1>6 DEF HandlerStep
<1>8. PICK from \in {"started"} \cup Going : Ends(from) \/ \E s \in Going : Goes(from, s)
    BY <1>7
<1>9. from # "none" /\ stage[p][m] = from
    BY <1>8 DEF Moved, Going
<1>10. QED
    BY <1>1, <1>2, <1>3, <1>4, <1>5, <1>6, <1>8, <1>9

(* ... and what they do to the rest of the state.                           *)
LEMMA HandlerEffect ==
    ASSUME Types, NEW p \in Procs, NEW m \in Messages, HandlerStep(p, m)
    PROVE  /\ Types'
           /\ faults' \in {faults, faults + 1}
           /\ \A n \in Messages \ {m} : starts'[n] = starts[n] /\ queue'[n] = queue[n]
           /\ starts'[m] \in {starts[m], starts[m] + 1} /\ queue'[m] \in {queue[m], Deleted}
<1> USE DEF Types
<1> DEFINE Fine == /\ PTypeOK'
                   /\ starts' \in [Messages -> Nat]
                   /\ queue' \in [Messages -> Procs \cup {Visible, Deleted}]
                   /\ faults' \in 0 .. MaxFaults /\ faults' \in {faults, faults + 1}
                   /\ \A n \in Messages \ {m} : starts'[n] = starts[n] /\ queue'[n] = queue[n]
                   /\ starts'[m] \in {starts[m], starts[m] + 1} /\ queue'[m] \in {queue[m], Deleted}
<1>1. UNCHANGED pvars => PTypeOK'
    BY DEF pvars, PTypeOK
<1>2. ASSUME AcquireResource(p, m) \/ ReleaseResource(p, m)
      PROVE  Fine
    <2>1. UNCHANGED pvars \/ Acquire(p, m) \/ Release(p, m)
        BY <1>2 DEF AcquireResource, ReleaseResource
    <2>2. PTypeOK'
        BY <1>1, <2>1, PoolTypes DEF Messages
    <2>3. UNCHANGED <<queue, starts, faults>>
        BY <1>2 DEF AcquireResource, ReleaseResource
    <2>4. QED
        BY <2>2, <2>3
<1>3. ASSUME Acquired(p, m) \/ HandlerEnds(p, m)
      PROVE  Fine
    BY <1>1, <1>3 DEF Acquired, HandlerEnds
<1>4. ASSUME Delete(p, m)
      PROVE  Fine
    BY <1>1, <1>4 DEF Delete
<1>5. ASSUME DeleteFails(p, m)
      PROVE  Fine
    <2>1. UNCHANGED pvars /\ starts' = starts /\ Fault("delete")
        BY <1>5 DEF DeleteFails
    <2>2. queue' = [queue EXCEPT ![m] = Deleted] \/ queue' = queue
        BY <1>5 DEF DeleteFails
    <2>3. QED
        BY <1>1, <2>1, <2>2, FaultEffect
<1>6. Fine
    BY <1>2, <1>3, <1>4, <1>5 DEF HandlerStep
<1>7. MTypeOK' /\ loop' \in [Procs -> LoopState]
    BY HandlerMoves DEF mvars, MTypeOK
<1>8. QED
    BY <1>6, <1>7, HandlerMoves

-----------------------------------------------------------------------------
(* The steps of the loop, but for a message that arrives.                   *)
LoopStep(p) ==
    \/ PollStep(p)
    \/ \E t \in Topics : EnterLane(p, t) \/ ReceiveNothing(p, t) \/ ReceiveFails(p, t)

LEMMA LoopEffect ==
    ASSUME Types, NEW p \in Procs, LoopStep(p)
    PROVE  /\ Types' /\ UNCHANGED <<pvars, stage, queue, starts>>
           /\ faults' \in {faults, faults + 1}
           /\ UNCHANGED mvars \/ Terminate(p)
<1> USE DEF Types
<1>1. CASE TimerFires(p)
    <2>1. /\ loop' = [loop EXCEPT ![p] = "polling"]
          /\ lane' = [lane EXCEPT ![p] = [t \in Topics |-> "todo"]]
          /\ UNCHANGED <<mvars, pvars, stage, queue, starts, faults>>
        BY <1>1 DEF TimerFires
    <2>2. loop' \in [Procs -> LoopState] /\ lane' \in [Procs -> [Topics -> LaneState]]
        BY <2>1 DEF LoopState, LaneState
    <2>3. QED
        BY <2>1, <2>2 DEF mvars, pvars, MTypeOK, PTypeOK
<1>2. CASE PollTerminates(p)
    <2>1. loop' \in [Procs -> LoopState]
        BY <1>2 DEF PollTerminates, LoopState
    <2>2. Terminate(p) /\ UNCHANGED <<pvars, lane, stage, queue, starts, faults>>
        BY <1>2 DEF PollTerminates
    <2>3. MTypeOK'
        BY <2>2, ManagerTypes
    <2>4. QED
        BY <2>1, <2>2, <2>3 DEF pvars, PTypeOK
<1>3. CASE PollAgain(p)
    <2>1. loop' \in [Procs -> LoopState]
        BY <1>3 DEF PollAgain, LoopState
    <2>2. UNCHANGED <<mvars, pvars, lane, stage, queue, starts, faults>>
        BY <1>3 DEF PollAgain
    <2>3. QED
        BY <2>1, <2>2 DEF mvars, pvars, MTypeOK, PTypeOK
<1>4. ASSUME NEW t \in Topics, EnterLane(p, t) \/ ReceiveNothing(p, t)
      PROVE  Types' /\ UNCHANGED <<mvars, pvars, loop, stage, queue, starts, faults>>
    <2>1. UNCHANGED <<mvars, pvars, loop, stage, queue, starts, faults>>
        BY <1>4 DEF EnterLane, ReceiveNothing
    <2>2. PICK s \in LaneState : SetLane(p, t, s)
        BY <1>4 DEF EnterLane, ReceiveNothing, LaneState
    <2>3. lane' \in [Procs -> [Topics -> LaneState]]
        BY <2>2, Switch
    <2>4. QED
        BY <2>1, <2>3 DEF mvars, pvars, MTypeOK, PTypeOK
<1>5. ASSUME NEW t \in Topics, ReceiveFails(p, t)
      PROVE  Types' /\ UNCHANGED <<mvars, pvars, stage, queue, starts>> /\ faults' = faults + 1
    <2>1. /\ UNCHANGED <<mvars, pvars, stage, queue, starts>> /\ SetLane(p, t, "done")
          /\ Fault("receive")
          /\ loop' = [loop EXCEPT ![p] = IF @ = "polling" THEN "broken" ELSE @]
        BY <1>5 DEF ReceiveFails
    <2>2. lane' \in [Procs -> [Topics -> LaneState]]
        BY <2>1, Switch DEF LaneState
    <2>3. loop' \in [Procs -> LoopState]
        BY <2>1 DEF LoopState
    <2>4. QED
        BY <2>1, <2>2, <2>3, FaultEffect DEF mvars, pvars, MTypeOK, PTypeOK
<1>6. QED
    BY <1>1, <1>2, <1>3, <1>4, <1>5 DEF LoopStep, PollStep, TimerFires, PollTerminates, PollAgain

LEMMA ReceiveEffect ==
    ASSUME Types, NEW p \in Procs, NEW m \in Messages, Receive(p, TopicOf[m], m)
    PROVE  /\ Types' /\ UNCHANGED <<mvars, pvars, loop, starts, faults>>
           /\ lane[p][TopicOf[m]] = "fetching" /\ Switched(p, TopicOf[m], "receiving")
           /\ Moved(p, m, "none", "started") /\ queue[m] = Visible /\ queue'[m] = p
           /\ \A n \in Messages \ {m} : queue'[n] = queue[n]
<1> USE DEF Types
<1>1. /\ lane[p][TopicOf[m]] = "fetching" /\ queue[m] = Visible /\ stage[p][m] = "none"
      /\ queue' = [queue EXCEPT ![m] = p] /\ SetStage(p, m, "started")
      /\ SetLane(p, TopicOf[m], "receiving")
      /\ UNCHANGED <<mvars, pvars, loop, starts, faults>>
    BY DEF Receive
<1>2. stage' \in [Procs -> [Messages -> Stage]] /\ Moved(p, m, "none", "started")
    BY <1>1, Move DEF Stage
<1>3. lane' \in [Procs -> [Topics -> LaneState]] /\ Switched(p, TopicOf[m], "receiving")
    BY <1>1, Switch, RedisAssumption DEF LaneState
<1>4. /\ queue' \in [Messages -> Procs \cup {Visible, Deleted}] /\ queue'[m] = p
      /\ \A n \in Messages \ {m} : queue'[n] = queue[n]
    BY <1>1
<1>5. QED
    BY <1>1, <1>2, <1>3, <1>4 DEF mvars, pvars, MTypeOK, PTypeOK

LEMMA LifecycleEffect ==
    ASSUME Types, NEW p \in Procs, Lifecycle(p)
    PROVE  Types' /\ UNCHANGED rvars /\ ManagerStep(p)
<1>1. PoolManagerStep(p) /\ UNCHANGED rvars
    BY DEF Lifecycle
<1>2. UNCHANGED pvars \/ DrainPools(p)
    BY <1>1 DEF PoolManagerStep, PoolShutdownStep
<1>3. ManagerStep(p)
    BY <1>1 DEF PoolManagerStep, PoolShutdownStep, ManagerStep, ShutdownStep
<1>4. PTypeOK'
    BY <1>2 DEF Types, PTypeOK, pvars, DrainPools, Neighbours
<1>5. MTypeOK'
    BY <1>3, ManagerTypes DEF Types
<1>6. QED
    BY <1>1, <1>3, <1>4, <1>5 DEF Types, rvars

LEMMA CrashEffect ==
    ASSUME Types, NEW p \in Procs, Crash(p)
    PROVE  /\ Types' /\ UNCHANGED <<mvars, queue, starts>> /\ faults' = faults + 1
           /\ \A q \in Procs :
                 \/ /\ loop'[q] = "crashed" /\ \A m \in Messages : stage'[q][m] = "none"
                 \/ loop'[q] = loop[q] /\ lane'[q] = lane[q] /\ stage'[q] = stage[q]
<1> USE DEF Types
<1> DEFINE dead == Neighbours(p)
<1>1. /\ loop' = [q \in Procs |-> IF q \in dead THEN "crashed" ELSE loop[q]]
      /\ lane' = [q \in Procs |-> IF q \in dead THEN [t \in Topics |-> "done"] ELSE lane[q]]
      /\ stage' = [q \in Procs |-> IF q \in dead THEN [m \in Messages |-> "none"] ELSE stage[q]]
      /\ Forget(dead)
      /\ UNCHANGED <<mvars, queue, starts>>
    BY DEF Crash
<1>2. faults' \in 0 .. MaxFaults /\ faults' = faults + 1
    BY FaultEffect DEF Crash
<1>3. /\ loop' \in [Procs -> LoopState] /\ lane' \in [Procs -> [Topics -> LaneState]]
      /\ stage' \in [Procs -> [Messages -> Stage]]
    BY <1>1 DEF LoopState, LaneState, Stage
<1>4. PTypeOK'
    BY <1>1 DEF Forget, PTypeOK
<1>5. QED
    BY <1>1, <1>2, <1>3, <1>4 DEF mvars, MTypeOK

LEMMA ReappearEffect ==
    ASSUME Types, NEW m \in Messages, Reappear(m)
    PROVE  /\ Types' /\ UNCHANGED <<mvars, pvars, loop, lane, stage, starts>>
           /\ queue[m] \in Procs /\ queue'[m] = Visible
           /\ \A n \in Messages \ {m} : queue'[n] = queue[n]
           /\ \/ faults' = faults /\ stage[queue[m]][m] = "none"
              \/ faults' = faults + 1
<1> USE DEF Types
<1>1. /\ queue[m] \in Procs /\ queue' = [queue EXCEPT ![m] = Visible]
      /\ UNCHANGED <<mvars, pvars, loop, lane, stage, starts>>
    BY DEF Reappear
<1>2. /\ faults' \in 0 .. MaxFaults
      /\ \/ faults' = faults /\ stage[queue[m]][m] = "none"
         \/ faults' = faults + 1
    BY FaultEffect DEF Reappear
<1>3. QED
    BY <1>1, <1>2 DEF mvars, pvars, MTypeOK, PTypeOK

(* The steps, as the lemmas above describe them.                            *)
LEMMA Steps ==
    ASSUME Next
    PROVE  \/ \E p \in Procs :
                 \/ LoopStep(p)
                 \/ \E m \in Messages : Receive(p, TopicOf[m], m) \/ HandlerStep(p, m)
                 \/ Lifecycle(p) \/ Crash(p)
           \/ \E m \in Messages : Reappear(m)
BY DEF Next, ReceiveStep, LoopStep, OfTopic

LEMMA AlwaysTypes == SafeSpec => []Types
<1>1. Init => Types
    <2> SUFFICES ASSUME Init PROVE Types
        OBVIOUS
    <2>1. MTypeOK
        BY TriesAssumption DEF Init, MInit, MTypeOK, RunnerState, CallState
    <2>2. PTypeOK
        BY DEF Init, PInit, PTypeOK
    <2>3. QED
        BY <2>1, <2>2, RedisAssumption DEF Init, Types, LoopState, LaneState, Stage
<1>2. Types /\ [Next]_vars => Types'
    <2>1. Types /\ UNCHANGED vars => Types'
        BY DEF Types, vars, rvars, mvars, pvars, MTypeOK, PTypeOK
    <2>2. QED
        BY <2>1, Steps, LoopEffect, ReceiveEffect, HandlerEffect, LifecycleEffect, CrashEffect, ReappearEffect
<1>3. QED
    BY <1>1, <1>2, PTL DEF SafeSpec

-----------------------------------------------------------------------------
(* The consumer implements the lifecycle: what is proved of Manager holds   *)
(* here.                                                                    *)
LEMMA ImplementsManager == SafeSpec => MSafeSpec
<1>1. Init => MInit
    BY DEF Init
<1>2. Types /\ [Next]_vars => [MNext]_mvars
    <2> SUFFICES ASSUME Types, [Next]_vars
                 PROVE  [MNext]_mvars
        OBVIOUS
    <2>1. ASSUME NEW p \in Procs, LoopStep(p) \/ Lifecycle(p)
          PROVE  [MNext]_mvars
        BY <2>1, LoopEffect, LifecycleEffect DEF MNext
    <2>2. ASSUME NEW p \in Procs, NEW m \in Messages, Receive(p, TopicOf[m], m) \/ HandlerStep(p, m)
          PROVE  UNCHANGED mvars
        BY <2>2, ReceiveEffect, HandlerMoves
    <2>3. ASSUME NEW p \in Procs, Crash(p)
          PROVE  UNCHANGED mvars
        BY <2>3, CrashEffect
    <2>4. ASSUME NEW m \in Messages, Reappear(m)
          PROVE  UNCHANGED mvars
        BY <2>4, ReappearEffect
    <2>5. QED
        BY <2>1, <2>2, <2>3, <2>4, Steps DEF vars
<1>3. QED
    BY <1>1, <1>2, AlwaysTypes, PTL DEF SafeSpec, MSafeSpec

(* In the consumer, too, an instance that is not stopping is terminated     *)
(* only by a stop() call whose wait is over (Manager.shutdown; poll          *)
(* terminates only an instance that is stopping).                           *)
THEOREM ForcedAfterWait == SafeSpec => ForcedOnlyAfterWaiting
BY ImplementsManager, ForcedWhenExhausted, PTL

-----------------------------------------------------------------------------
(* An instance works on one message of a topic at a time, in the topic's    *)
(* lane; a loop that waits or has ended has left no lane behind.            *)
OneInLane(p) ==
    /\ \A m \in Messages : stage[p][m] # "none" => lane[p][TopicOf[m]] = "receiving"
    /\ \A m, n \in Messages :
          TopicOf[m] = TopicOf[n] /\ stage[p][m] # "none" /\ stage[p][n] # "none" => m = n
    /\ loop[p] \in {"waiting", "ended"} => \A t \in Topics : lane[p][t] = "done"

LanesKept == \A p \in Procs : OneInLane(p)

LEMMA LaneStays ==
    ASSUME NEW p \in Procs, OneInLane(p), loop'[p] = loop[p],
           \A t \in Topics : lane'[p][t] = lane[p][t],
           \A m \in Messages : stage'[p][m] # "none" => stage[p][m] # "none"
    PROVE  OneInLane(p)'
BY RedisAssumption DEF OneInLane

LEMMA HandlerLanes ==
    ASSUME Types, LanesKept, NEW p \in Procs, NEW m \in Messages, HandlerStep(p, m)
    PROVE  LanesKept'
<1> SUFFICES ASSUME NEW q \in Procs
             PROVE  OneInLane(q)'
    BY DEF LanesKept
<1>1. OneInLane(q) /\ loop' = loop /\ stage[p][m] # "none"
    BY HandlerMoves DEF LanesKept
<1>2. ASSUME NEW s, UNCHANGED lane, Moved(p, m, stage[p][m], s)
      PROVE  OneInLane(q)'
    <2>1. \A n \in Messages : stage'[q][n] # "none" => stage[q][n] # "none"
        BY <1>1, <1>2 DEF Moved
    <2>2. QED
        BY <1>1, <1>2, <2>1, LaneStays
<1>3. ASSUME Switched(p, TopicOf[m], "done"), Moved(p, m, stage[p][m], "none")
      PROVE  OneInLane(q)'
    <2>1. \A n \in Messages : stage'[q][n] # "none" => stage[q][n] # "none"
        BY <1>3 DEF Moved
    <2>2. CASE q # p
        BY <1>1, <1>3, <2>1, <2>2, LaneStays DEF Switched
    <2>3. CASE q = p
        <3>1. /\ \A n \in Messages : TopicOf[n] = TopicOf[m] => stage'[p][n] = "none"
              /\ \A t \in Topics : lane'[p][t] = lane[p][t] \/ (t = TopicOf[m] /\ lane'[p][t] = "done")
            BY <1>1, <1>3, <2>3 DEF Moved, Switched, OneInLane
        <3>2. QED
            BY <1>1, <2>1, <2>3, <3>1, RedisAssumption DEF OneInLane
    <2>4. QED
        BY <2>2, <2>3
<1>4. QED
    BY <1>2, <1>3, HandlerMoves

LEMMA LoopLanes ==
    ASSUME Types, LanesKept, NEW p \in Procs, LoopStep(p)
    PROVE  LanesKept'
<1> USE DEF Types
<1> SUFFICES ASSUME NEW q \in Procs
             PROVE  OneInLane(q)'
    BY DEF LanesKept
<1>1. OneInLane(q) /\ stage' = stage
    BY LoopEffect DEF LanesKept
<1>2. CASE q # p
    <2>1. loop'[q] = loop[q]
        BY <1>2 DEF LoopStep, PollStep, TimerFires, PollTerminates, PollAgain, EnterLane, ReceiveNothing, ReceiveFails
    <2>2. lane'[q] = lane[q]
        BY <1>2 DEF LoopStep, PollStep, TimerFires, PollTerminates, PollAgain, EnterLane, ReceiveNothing,
               ReceiveFails, SetLane
    <2>3. QED
        BY <1>1, <2>1, <2>2, LaneStays
\* All lanes are done when the timer fires: nobody works on anything.
<1>3. CASE q = p /\ TimerFires(p)
    <2>1. loop[p] = "waiting" /\ loop'[p] = "polling"
        BY <1>3 DEF TimerFires
    <2>2. \A m \in Messages : stage[p][m] = "none"
        BY <1>1, <1>3, <2>1, RedisAssumption DEF OneInLane
    <2>3. QED
        BY <1>1, <1>3, <2>1, <2>2 DEF OneInLane
<1>4. CASE q = p /\ (PollTerminates(p) \/ PollAgain(p))
    <2>1. lane' = lane /\ \A t \in Topics : lane[p][t] = "done"
        BY <1>4 DEF PollTerminates, PollAgain, LanesDone
    <2>2. QED
        BY <1>1, <1>4, <2>1 DEF OneInLane
<1>5. ASSUME q = p, NEW t \in Topics, NEW s \in LaneState, SetLane(p, t, s), lane[p][t] # "receiving",
             lane[p][t] # "done", loop'[p] = loop[p] \/ loop'[p] = "broken"
      PROVE  OneInLane(q)'
    <2>1. Switched(p, t, s) /\ loop'[p] \notin {"waiting", "ended"}
        BY <1>1, <1>5, Switch DEF OneInLane
    <2>2. QED
        BY <1>1, <1>5, <2>1, RedisAssumption DEF OneInLane, Switched
<1>6. ASSUME q = p, NEW t \in Topics, EnterLane(p, t) \/ ReceiveNothing(p, t) \/ ReceiveFails(p, t)
      PROVE  OneInLane(q)'
    <2>1. /\ lane[p][t] \in {"todo", "fetching"}
          /\ SetLane(p, t, "fetching") \/ SetLane(p, t, "done")
          /\ loop'[p] = loop[p] \/ loop'[p] = "broken"
        BY <1>6 DEF EnterLane, ReceiveNothing, ReceiveFails
    <2>2. QED
        BY <1>5, <1>6, <2>1 DEF LaneState
<1>7. QED
    BY <1>2, <1>3, <1>4, <1>6 DEF LoopStep, PollStep

LEMMA StepLanes ==
    ASSUME Types, LanesKept, [Next]_vars
    PROVE  LanesKept'
<1>1. ASSUME UNCHANGED <<loop, lane, stage>>
      PROVE  LanesKept'
    BY <1>1, LaneStays DEF LanesKept
<1>2. ASSUME NEW p \in Procs, NEW m \in Messages, Receive(p, TopicOf[m], m)
      PROVE  LanesKept'
    <2> SUFFICES ASSUME NEW q \in Procs
                 PROVE  OneInLane(q)'
        BY DEF LanesKept
    <2>1. /\ OneInLane(q) /\ loop' = loop /\ lane[p][TopicOf[m]] = "fetching"
          /\ Switched(p, TopicOf[m], "receiving") /\ Moved(p, m, "none", "started")
        BY <1>2, ReceiveEffect DEF LanesKept
    <2>2. CASE q # p
        BY <2>1, <2>2, LaneStays DEF Switched, Moved
    <2>3. CASE q = p
        <3>1. \A n \in Messages : TopicOf[n] = TopicOf[m] => stage[p][n] = "none"
            BY <2>1, <2>3 DEF OneInLane
        <3>2. loop[p] \notin {"waiting", "ended"}
            BY <2>1, <2>3, RedisAssumption DEF OneInLane
        <3>3. QED
            BY <2>1, <2>3, <3>1, <3>2, RedisAssumption DEF OneInLane, Switched, Moved
    <2>4. QED
        BY <2>2, <2>3
<1>3. ASSUME NEW p \in Procs, Crash(p)
      PROVE  LanesKept'
    <2> SUFFICES ASSUME NEW q \in Procs
                 PROVE  OneInLane(q)'
        BY DEF LanesKept
    <2>1. CASE loop'[q] = "crashed" /\ \A m \in Messages : stage'[q][m] = "none"
        BY <2>1 DEF OneInLane
    <2>2. CASE loop'[q] = loop[q] /\ lane'[q] = lane[q] /\ stage'[q] = stage[q]
        BY <2>2, LaneStays DEF LanesKept
    <2>3. QED
        BY <1>3, <2>1, <2>2, CrashEffect
<1>4. ASSUME NEW m \in Messages, Reappear(m)
      PROVE  LanesKept'
    BY <1>1, <1>4, ReappearEffect
<1>5. ASSUME NEW p \in Procs, Lifecycle(p)
      PROVE  LanesKept'
    BY <1>1, <1>5, LifecycleEffect DEF rvars
<1>6. QED
    BY <1>1, <1>2, <1>3, <1>4, <1>5, LoopLanes, HandlerLanes, Steps DEF vars, rvars

(* When the loop has ended and quit its connection nobody works on a        *)
(* message anymore, whoever has terminated the instance, and also when it   *)
(* was paused, resumed or stopped at any time (poll, shutdown).             *)
THEOREM EndsGracefully == SafeSpec => []GracefulTermination
<1>1. Init => LanesKept
    <2> SUFFICES ASSUME Init, NEW p \in Procs
                 PROVE  OneInLane(p)
        BY DEF LanesKept
    <2>1. (\A m \in Messages : stage[p][m] = "none") /\ \A t \in Topics : lane[p][t] = "done"
        BY DEF Init
    <2>2. QED
        BY <2>1 DEF OneInLane
<1>2. Types /\ LanesKept => GracefulTermination
    BY RedisAssumption DEF LanesKept, OneInLane, GracefulTermination
<1>3. QED
    BY <1>1, <1>2, StepLanes, AlwaysTypes, PTL DEF SafeSpec

-----------------------------------------------------------------------------
(* Who may yet start the handler of m: an instance that has m in its hands, *)
(* and one that will be given it, when m is in the queue or soon back.      *)
MayStart == {"started", "acquiring", "deleting"}
MayReturn == {"none", "releasing"}
Pending(m) == {p \in Procs : stage[p][m] \in MayStart}
Free(m) == queue[m] = Visible \/ \E p \in Procs : queue[m] = p /\ stage[p][m] \in MayReturn
Spare(m) == IF Free(m) THEN 1 ELSE 0

Budget(m) ==
    /\ IsFiniteSet(Pending(m))
    /\ starts[m] + Cardinality(Pending(m)) + Spare(m) <= 1 + faults

\* A message is deleted before its handler starts, ...
DeletedBefore ==
    \A p \in Procs, m \in Messages : stage[p][m] = "handling" => queue[m] = Deleted

\* ... and right before it, unless there is a fault.
StartedAfter == \A m \in Messages : queue[m] = Deleted => starts[m] > 0 \/ faults > 0

BudgetKept == DeletedBefore /\ StartedAfter /\ \A m \in Messages : Budget(m)

(* What one instance adds to the pending ones.                              *)
Hand(p, m) == IF stage[p][m] \in MayStart THEN 1 ELSE 0

LEMMA PendingMoves ==
    ASSUME NEW m \in Messages, NEW p \in Procs, IsFiniteSet(Pending(m)),
           \A q \in Procs \ {p} : stage'[q][m] = stage[q][m]
    PROVE  /\ IsFiniteSet(Pending(m)')
           /\ Cardinality(Pending(m)) \in Nat
           /\ Cardinality(Pending(m)') = Cardinality(Pending(m)) - Hand(p, m) + Hand(p, m)'
<1> DEFINE rest == Pending(m) \ {p}
<1>1. /\ IsFiniteSet(rest) /\ Cardinality(rest) \in Nat /\ Cardinality(Pending(m)) \in Nat
      /\ Cardinality(rest) = Cardinality(Pending(m)) - Hand(p, m)
    <2>1. p \in Pending(m) <=> stage[p][m] \in MayStart
        BY DEF Pending
    <2>2. QED
        BY <2>1, FS_RemoveElement, FS_CardinalityType DEF Hand
<1>2. Pending(m)' = IF stage'[p][m] \in MayStart THEN rest \cup {p} ELSE rest
    BY DEF Pending
<1>3. /\ IsFiniteSet(rest \cup {p}) /\ Cardinality(rest \cup {p}) = Cardinality(rest) + 1
    BY <1>1, FS_AddElement
<1> HIDE DEF rest
<1>4. QED
    BY <1>1, <1>2, <1>3 DEF Hand

(* An instance moves m along without more starts, hands and returns than    *)
(* before, or a fault makes up for it.                                      *)
LEMMA BudgetMoves ==
    ASSUME NEW m \in Messages, NEW p \in Procs, Budget(m),
           {starts[m], starts'[m], faults, faults'} \subseteq Nat,
           \A q \in Procs \ {p} : stage'[q][m] = stage[q][m],
           starts'[m] + Hand(p, m)' + Spare(m)' + faults <= starts[m] + Hand(p, m) + Spare(m) + faults'
    PROVE  Budget(m)'
<1>1. {Hand(p, m), Hand(p, m)', Spare(m), Spare(m)'} \subseteq {0, 1}
    BY DEF Hand, Spare
<1>2. /\ IsFiniteSet(Pending(m)') /\ Cardinality(Pending(m)) \in Nat
      /\ Cardinality(Pending(m)') = Cardinality(Pending(m)) - Hand(p, m) + Hand(p, m)'
    BY PendingMoves DEF Budget
<1>3. starts[m] + Cardinality(Pending(m)) + Spare(m) <= 1 + faults
    BY DEF Budget
<1>4. starts'[m] + Cardinality(Pending(m)') + Spare(m)' <= 1 + faults'
    BY <1>1, <1>2, <1>3
<1>5. QED
    BY <1>2, <1>4 DEF Budget

LEMMA BudgetStays ==
    ASSUME NEW m \in Messages, Budget(m), starts'[m] = starts[m], queue'[m] = queue[m],
           \A q \in Procs : stage'[q][m] = stage[q][m],
           {starts[m], faults, faults'} \subseteq Nat, faults <= faults'
    PROVE  Budget(m)'
<1>1. Pending(m)' = Pending(m) /\ Spare(m)' = Spare(m)
    BY DEF Pending, Spare, Free
<1>2. Cardinality(Pending(m)) \in Nat /\ Spare(m) \in {0, 1}
    BY FS_CardinalityType DEF Budget, Spare
<1>3. QED
    BY <1>1, <1>2 DEF Budget

(* What a move of p with m means for the budget of m.                       *)
LEMMA MoveCosts ==
    ASSUME NEW p \in Procs, NEW m \in Messages, NEW from, NEW to, Moved(p, m, from, to)
    PROVE  /\ Hand(p, m) = IF from \in MayStart THEN 1 ELSE 0
           /\ Hand(p, m)' = IF to \in MayStart THEN 1 ELSE 0
           /\ queue'[m] = queue[m] /\ (queue[m] = p => (to \in MayReturn <=> from \in MayReturn))
                  => Spare(m)' = Spare(m)
           /\ queue'[m] = Deleted => Spare(m)' = 0
           /\ {Spare(m), Spare(m)'} \subseteq {0, 1}
<1>1. /\ Hand(p, m) = IF from \in MayStart THEN 1 ELSE 0
      /\ Hand(p, m)' = IF to \in MayStart THEN 1 ELSE 0
    BY DEF Moved, Hand
<1>2. ASSUME queue'[m] = queue[m], queue[m] = p => (to \in MayReturn <=> from \in MayReturn)
      PROVE  Spare(m)' = Spare(m)
    BY <1>2 DEF Moved, Spare, Free
<1>3. queue'[m] = Deleted => Spare(m)' = 0
    BY RedisAssumption DEF Spare, Free
<1>4. {Spare(m), Spare(m)'} \subseteq {0, 1}
    BY DEF Spare
<1>5. QED
    BY <1>1, <1>2, <1>3, <1>4

LEMMA HandlerBudget ==
    ASSUME Types, BudgetKept, NEW p \in Procs, NEW m \in Messages, HandlerStep(p, m)
    PROVE  BudgetKept'
<1> USE DEF BudgetKept
<1>0. /\ \A n \in Messages : {starts[n], starts'[n], faults, faults'} \subseteq Nat
      /\ faults' \in {faults, faults + 1}
      /\ \A n \in Messages \ {m} : starts'[n] = starts[n] /\ queue'[n] = queue[n]
      /\ starts'[m] \in {starts[m], starts[m] + 1}
      /\ queue'[m] \in {queue[m], Deleted} /\ p # Deleted
    BY HandlerEffect, RedisAssumption DEF Types
\* Only m moves: the others' budgets stay.
<1>1. ASSUME NEW from, NEW to, Moved(p, m, from, to),
             starts'[m] + Hand(p, m)' + Spare(m)' + faults <= starts[m] + Hand(p, m) + Spare(m) + faults',
             to = "handling" => queue'[m] = Deleted,
             queue'[m] = Deleted => queue[m] = Deleted \/ starts'[m] > 0 \/ faults' > 0
      PROVE  BudgetKept'
    <2>1. DeletedBefore'
        BY <1>0, <1>1 DEF DeletedBefore, Moved
    <2>2. StartedAfter'
        BY <1>0, <1>1 DEF StartedAfter
    <2>3. Budget(m)'
        BY <1>0, <1>1, BudgetMoves DEF Moved
    <2>4. \A n \in Messages \ {m} : Budget(n)'
        BY <1>0, <1>1, BudgetStays DEF Moved
    <2>5. QED
        BY <2>1, <2>2, <2>3, <2>4
<1>2. ASSUME NEW from, NEW to, Moved(p, m, from, to), UNCHANGED <<queue, starts, faults>>, to # "handling",
             \/ from \in MayStart
             \/ from \notin MayStart /\ to \notin MayStart /\ Spare(m)' = Spare(m)
      PROVE  BudgetKept'
    <2>1. Hand(p, m)' + Spare(m)' <= Hand(p, m) + Spare(m)
        <3>1. CASE from \in MayStart /\ to \in MayStart
            <4>1. Spare(m)' = Spare(m) /\ Hand(p, m) = 1 /\ Hand(p, m)' = 1
                BY <1>2, <3>1, MoveCosts DEF MayStart, MayReturn
            <4>2. QED
                BY <1>2, <4>1, MoveCosts
        <3>2. CASE from \in MayStart /\ to \notin MayStart
            BY <1>2, <3>2, MoveCosts
        <3>3. CASE from \notin MayStart
            BY <1>2, <3>3, MoveCosts
        <3>4. QED
            BY <3>1, <3>2, <3>3
    <2>2. {Hand(p, m), Hand(p, m)', Spare(m), Spare(m)'} \subseteq {0, 1}
        BY DEF Hand, Spare
    <2>3. starts'[m] + Hand(p, m)' + Spare(m)' + faults <= starts[m] + Hand(p, m) + Spare(m) + faults'
        BY <1>0, <1>2, <2>1, <2>2
    <2>4. QED
        BY <1>1, <1>2, <2>3
<1>3. CASE AcquireResource(p, m)
    <2>1. PICK s \in {"acquiring", "none"} : Moved(p, m, "started", s)
        BY <1>3, HandlerMoves
    <2>2. UNCHANGED <<queue, starts, faults>>
        BY <1>3 DEF AcquireResource
    <2>3. QED
        BY <1>2, <2>1, <2>2 DEF MayStart
<1>4. CASE Acquired(p, m)
    <2>1. PICK s \in {"deleting", "releasing"} : Moved(p, m, "acquiring", s)
        BY <1>4, HandlerMoves
    <2>2. UNCHANGED <<queue, starts, faults>>
        BY <1>4 DEF Acquired
    <2>3. QED
        BY <1>2, <2>1, <2>2 DEF MayStart
<1>5. CASE Delete(p, m)
    <2>1. /\ Moved(p, m, "deleting", "handling") /\ starts'[m] = starts[m] + 1 /\ faults' = faults
          /\ queue'[m] = Deleted
        BY <1>5, HandlerMoves DEF Delete, Types
    <2>2. Hand(p, m) = 1 /\ Hand(p, m)' = 0 /\ Spare(m) \in {0, 1} /\ Spare(m)' = 0
        BY <2>1, MoveCosts DEF MayStart
    <2>3. starts'[m] + Hand(p, m)' + Spare(m)' + faults <= starts[m] + Hand(p, m) + Spare(m) + faults'
        BY <1>0, <2>1, <2>2
    <2>4. starts'[m] > 0
        BY <1>0, <2>1
    <2>5. QED
        BY <1>1, <2>1, <2>3, <2>4
\* A fault pays for the return of the message.
<1>6. CASE DeleteFails(p, m)
    <2>1. /\ Moved(p, m, "deleting", "releasing") /\ starts'[m] = starts[m] /\ faults' = faults + 1
        BY <1>6, HandlerMoves DEF DeleteFails, Fault
    <2>2. Hand(p, m) = 1 /\ Hand(p, m)' = 0 /\ {Spare(m), Spare(m)'} \subseteq {0, 1}
        BY <2>1, MoveCosts DEF MayStart
    <2>3. starts'[m] + Hand(p, m)' + Spare(m)' + faults <= starts[m] + Hand(p, m) + Spare(m) + faults'
        BY <1>0, <2>1, <2>2
    <2>4. faults' > 0
        BY <1>0, <2>1
    <2>5. QED
        BY <1>1, <2>1, <2>3, <2>4
<1>7. CASE HandlerEnds(p, m)
    <2>1. Moved(p, m, "handling", "releasing") /\ UNCHANGED <<queue, starts, faults>>
        BY <1>7, HandlerMoves DEF HandlerEnds
    <2>2. queue[m] = Deleted
        BY <2>1 DEF DeletedBefore, Moved
    <2>3. Spare(m)' = Spare(m)
        BY <1>0, <2>1, <2>2, MoveCosts
    <2>4. QED
        BY <1>2, <2>1, <2>3 DEF MayStart
<1>8. CASE ReleaseResource(p, m)
    <2>1. Moved(p, m, "releasing", "none") /\ UNCHANGED <<queue, starts, faults>>
        BY <1>8, HandlerMoves DEF ReleaseResource
    <2>2. Spare(m)' = Spare(m)
        BY <2>1, MoveCosts DEF MayReturn
    <2>3. QED
        BY <1>2, <2>1, <2>2 DEF MayStart
<1>9. QED
    BY <1>3, <1>4, <1>5, <1>6, <1>7, <1>8 DEF HandlerStep

LEMMA StepBudget ==
    ASSUME Types, BudgetKept, [Next]_vars
    PROVE  BudgetKept'
<1> USE DEF BudgetKept
<1>0. /\ \A n \in Messages : starts[n] \in Nat
      /\ faults \in Nat /\ faults <= faults /\ faults <= faults + 1 /\ faults + 1 \in Nat
      /\ faults + 1 > 0
      /\ Visible # Deleted /\ Visible \notin Procs /\ Deleted \notin Procs
    BY RedisAssumption DEF Types
<1>1. ASSUME UNCHANGED <<stage, queue, starts>>, faults' \in {faults, faults + 1}
      PROVE  BudgetKept'
    <2>1. \A n \in Messages : Budget(n)'
        BY <1>0, <1>1, BudgetStays
    <2>2. QED
        BY <1>0, <1>1, <2>1 DEF DeletedBefore, StartedAfter
<1>2. ASSUME NEW p \in Procs, LoopStep(p) \/ Lifecycle(p)
      PROVE  BudgetKept'
    BY <1>1, <1>2, LoopEffect, LifecycleEffect DEF rvars
<1>3. ASSUME NEW p \in Procs, NEW m \in Messages, Receive(p, TopicOf[m], m)
      PROVE  BudgetKept'
    <2>1. /\ Moved(p, m, "none", "started") /\ queue[m] = Visible /\ queue'[m] = p
          /\ UNCHANGED <<starts, faults>> /\ \A n \in Messages \ {m} : queue'[n] = queue[n]
        BY <1>3, ReceiveEffect
    <2>2. DeletedBefore' /\ StartedAfter'
        BY <1>0, <2>1 DEF DeletedBefore, StartedAfter, Moved
    <2>3. Hand(p, m) = 0 /\ Hand(p, m)' = 1 /\ Spare(m) = 1 /\ Spare(m)' = 0
        <3>1. Hand(p, m) = 0 /\ Hand(p, m)' = 1
            BY <2>1, MoveCosts DEF MayStart
        <3>2. Spare(m) = 1
            BY <2>1 DEF Spare, Free
        <3>3. ~Free(m)'
            BY <1>0, <2>1 DEF Free, Moved, MayReturn
        <3>4. QED
            BY <3>1, <3>2, <3>3 DEF Spare
    <2>4. starts'[m] + Hand(p, m)' + Spare(m)' + faults <= starts[m] + Hand(p, m) + Spare(m) + faults'
        BY <1>0, <2>1, <2>3
    <2>5. Budget(m)'
        BY <1>0, <2>1, <2>4, BudgetMoves DEF Moved
    <2>6. \A n \in Messages \ {m} : Budget(n)'
        BY <1>0, <2>1, BudgetStays DEF Moved
    <2>7. QED
        BY <2>2, <2>5, <2>6
<1>4. ASSUME NEW p \in Procs, Crash(p)
      PROVE  BudgetKept'
    <2>1. /\ UNCHANGED <<queue, starts>> /\ faults' = faults + 1
          /\ \A q \in Procs, n \in Messages : stage'[q][n] = "none" \/ stage'[q][n] = stage[q][n]
        BY <1>4, CrashEffect
    <2>2. DeletedBefore' /\ StartedAfter'
        BY <1>0, <2>1 DEF DeletedBefore, StartedAfter
    <2>3. ASSUME NEW n \in Messages
          PROVE  Budget(n)'
        <3>1. IsFiniteSet(Pending(n)) /\ Pending(n)' \in SUBSET Pending(n)
            BY <2>1 DEF Budget, Pending, MayStart
        <3>2. /\ IsFiniteSet(Pending(n)')
              /\ Cardinality(Pending(n)') <= Cardinality(Pending(n))
              /\ Cardinality(Pending(n)) \in Nat /\ Cardinality(Pending(n)') \in Nat
            BY <3>1, FS_Subset, FS_CardinalityType
        <3>3. Spare(n) \in {0, 1} /\ Spare(n)' \in {0, 1}
            BY DEF Spare
        <3>4. starts[n] + Cardinality(Pending(n)) + Spare(n) <= 1 + faults
            BY DEF Budget
        <3>5. starts'[n] + Cardinality(Pending(n)') + Spare(n)' <= 1 + faults'
            BY <1>0, <2>1, <3>2, <3>3, <3>4
        <3>6. QED
            BY <3>2, <3>5 DEF Budget
    <2>4. QED
        BY <2>2, <2>3
<1>5. ASSUME NEW m \in Messages, Reappear(m)
      PROVE  BudgetKept'
    <2>1. /\ UNCHANGED <<stage, starts>> /\ queue[m] \in Procs /\ queue'[m] = Visible
          /\ \A n \in Messages \ {m} : queue'[n] = queue[n]
          /\ \/ faults' = faults /\ stage[queue[m]][m] = "none"
             \/ faults' = faults + 1
        BY <1>5, ReappearEffect
    <2>2. DeletedBefore' /\ StartedAfter'
        BY <1>0, <2>1 DEF DeletedBefore, StartedAfter
    <2>3. \A n \in Messages \ {m} : Budget(n)'
        BY <1>0, <2>1, BudgetStays
    <2>4. Budget(m)'
        <3>1. PICK p \in Procs : p = queue[m]
            BY <2>1
        <3>2. Hand(p, m) \in {0, 1} /\ Hand(p, m)' = Hand(p, m) /\ Spare(m) \in {0, 1} /\ Spare(m)' = 1
            BY <2>1 DEF Hand, Spare, Free
        <3>3. stage[p][m] = "none" => Spare(m) = 1
            BY <3>1 DEF Spare, Free, MayReturn
        <3>4. starts'[m] + Hand(p, m)' + Spare(m)' + faults <= starts[m] + Hand(p, m) + Spare(m) + faults'
            BY <1>0, <2>1, <3>1, <3>2, <3>3
        <3>5. faults' \in Nat
            BY <1>0, <2>1
        <3>6. QED
            BY <1>0, <2>1, <3>4, <3>5, BudgetMoves
    <2>5. QED
        BY <2>2, <2>3, <2>4
<1>6. QED
    BY <1>1, <1>2, <1>3, <1>4, <1>5, HandlerBudget, Steps DEF vars, rvars

(* A message is deleted and never handled only by a fault in between, and   *)
(* handled again only after a fault; not by a termination, a drained pool,  *)
(* or a body that cannot be parsed (receive, deleteMessage).                *)
THEOREM DeletesForHandler == SafeSpec => []DeletedForHandler
<1>1. Init => BudgetKept
    <2> SUFFICES ASSUME Init PROVE BudgetKept
        OBVIOUS
    <2>1. \A m \in Messages : Pending(m) = {} /\ Spare(m) = 1 /\ starts[m] = 0 /\ faults = 0
        BY DEF Init, Pending, MayStart, Spare, Free
    <2>2. \A m \in Messages : Budget(m)
        BY <2>1, FS_EmptySet DEF Budget
    <2>3. QED
        BY <2>2, RedisAssumption DEF Init, BudgetKept, DeletedBefore, StartedAfter
<1>2. Types /\ BudgetKept => DeletedForHandler
    <2> SUFFICES ASSUME Types, BudgetKept, NEW m \in Messages
                 PROVE  /\ queue[m] = Deleted => starts[m] > 0 \/ faults > 0
                        /\ starts[m] <= 1 + faults
        BY DEF DeletedForHandler
    <2>1. starts[m] \in Nat /\ faults \in Nat
        BY RedisAssumption DEF Types
    <2>2. /\ Cardinality(Pending(m)) \in Nat /\ Spare(m) \in {0, 1}
          /\ starts[m] + Cardinality(Pending(m)) + Spare(m) <= 1 + faults
        BY FS_CardinalityType DEF BudgetKept, Budget, Spare
    <2>3. starts[m] <= 1 + faults
        BY <2>1, <2>2
    <2>4. QED
        BY <2>3 DEF BudgetKept, StartedAfter
<1>3. QED
    BY <1>1, <1>2, StepBudget, AlwaysTypes, PTL DEF SafeSpec

(* Every reachable state is well typed, with the bound on the starts of a   *)
(* handler that follows.                                                    *)
THEOREM RedisTypes == SafeSpec => []TypeOK
<1>1. Types /\ DeletedForHandler => TypeOK
    <2> SUFFICES ASSUME Types, DeletedForHandler
                 PROVE  TypeOK
        OBVIOUS
    <2>1. ASSUME NEW m \in Messages
          PROVE  starts[m] \in 0 .. MaxFaults + 1
        BY RedisAssumption DEF Types, DeletedForHandler
    <2>2. starts \in [Messages -> 0 .. MaxFaults + 1]
        BY <2>1 DEF Types
    <2>3. QED
        BY <2>2 DEF Types, TypeOK
<1>2. QED
    BY <1>1, AlwaysTypes, DeletesForHandler, PTL
=============================================================================
