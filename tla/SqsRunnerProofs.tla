--------------------------- MODULE SqsRunnerProofs ---------------------------
(***************************************************************************)
(* Proofs about the SQS consumer, for any number of instances, Node         *)
(* processes, topics, messages, resources and faults.                       *)
(***************************************************************************)
EXTENDS SqsRunner, ManagerProofs, FiniteSetTheorems, TLAPS

(* The types, without the bound on `starts`: that is a theorem below.       *)
Types ==
    /\ MTypeOK
    /\ PTypeOK
    /\ null \subseteq Null
    /\ loop \in [Procs -> LoopState]
    /\ lane \in [Procs -> [Topics -> LaneState]]
    /\ stage \in [Procs -> [Messages -> Stage]]
    /\ stray \in [Procs -> SUBSET Messages]
    /\ queue \in [Messages -> Procs \cup {Visible, Deleted}]
    /\ handled \subseteq Messages
    /\ starts \in [Messages -> Nat]
    /\ faults \in 0 .. MaxFaults

-----------------------------------------------------------------------------
(* What a step does to the stages: the handler of m goes on, ...            *)
Moved(p, m, from, to) ==
    /\ stage[p][m] = from /\ stage'[p][m] = to
    /\ \A q \in Procs, n \in Messages : q # p \/ n # m => stage'[q][n] = stage[q][n]

Unbegun == {"listed", "started"}

(* ... or it throws, and others that have not begun are dropped with it;    *)
Cleared(p, m) ==
    /\ stage'[p][m] = "none"
    /\ \A q \in Procs \ {p}, n \in Messages : stage'[q][n] = stage[q][n]
    /\ \A n \in Messages \ {m} :
          stage'[p][n] = stage[p][n] \/ (stage[p][n] \in Unbegun /\ stage'[p][n] = "none")

(* ... or it has not begun itself.                                          *)
Dropped(p, m) ==
    /\ stage[p][m] \in Unbegun /\ stage'[p][m] = "none"
    /\ \A q \in Procs \ {p}, n \in Messages : stage'[q][n] = stage[q][n]
    /\ \A n \in Messages :
          stage'[p][n] = stage[p][n] \/ (stage[p][n] \in Unbegun /\ stage'[p][n] = "none")

LEMMA Move ==
    ASSUME stage \in [Procs -> [Messages -> Stage]], NEW p \in Procs, NEW m \in Messages,
           NEW from, NEW s \in Stage, stage[p][m] = from, stage' = [stage EXCEPT ![p][m] = s]
    PROVE  stage' \in [Procs -> [Messages -> Stage]] /\ Moved(p, m, from, s)
<1>1. stage' \in [Procs -> [Messages -> Stage]]
    OBVIOUS
<1>2. stage'[p][m] = s
    OBVIOUS
<1>3. \A q \in Procs, n \in Messages : q # p \/ n # m => stage'[q][n] = stage[q][n]
    OBVIOUS
<1>4. QED
    BY <1>1, <1>2, <1>3 DEF Moved

LEMMA RejectEffect ==
    ASSUME Types, NEW p \in Procs, NEW m \in Messages, Reject(p, m)
    PROVE  /\ stage' \in [Procs -> [Messages -> Stage]]
           /\ lane' \in [Procs -> [Topics -> LaneState]]
           /\ stray' \in [Procs -> SUBSET Messages]
           /\ Cleared(p, m)
<1> USE DEF Types
<1>1. CASE m \in stray[p]
    <2>1. stage' = [stage EXCEPT ![p][m] = "none"] /\ "none" \in Stage
        BY <1>1 DEF Reject, Stage
    <2>2. stage' \in [Procs -> [Messages -> Stage]] /\ Moved(p, m, stage[p][m], "none")
        BY <2>1, Move
    <2>3. Cleared(p, m)
        BY <2>2 DEF Moved, Cleared
    <2>4. stray' = [stray EXCEPT ![p] = @ \ {m}] /\ lane' = lane
        BY <1>1 DEF Reject
    <2>5. QED
        BY <2>2, <2>3, <2>4
<1>2. CASE m \notin stray[p]
    <2> DEFINE t == TopicOf[m]
               new == [n \in Messages |-> IF n \in Listed(p, t) \cup {m} THEN "none" ELSE stage[p][n]]
    <2>1. /\ stray' = [stray EXCEPT ![p] = @ \cup (Begun(p, t) \ {m})]
          /\ stage' = [stage EXCEPT ![p] = new]
          /\ lane' = [lane EXCEPT ![p][t] = "done"]
        BY <1>2 DEF Reject
    <2>2. new \in [Messages -> Stage]
        BY DEF Stage
    <2>3. Listed(p, t) \subseteq Messages /\ \A n \in Listed(p, t) : stage[p][n] = "listed"
        BY DEF Listed, OfTopic
    <2>4. Begun(p, t) \subseteq Messages
        BY DEF Begun, OfTopic
    <2>5. stage' \in [Procs -> [Messages -> Stage]]
        BY <2>1, <2>2
    <2>6. Cleared(p, m)
        BY <2>1, <2>2, <2>3 DEF Cleared, Unbegun
    <2>7. lane' \in [Procs -> [Topics -> LaneState]]
        BY <2>1, SqsAssumption DEF LaneState
    <2>8. stray' \in [Procs -> SUBSET Messages]
        BY <2>1, <2>4
    <2>9. QED
        BY <2>5, <2>6, <2>7, <2>8
<1>3. QED
    BY <1>1, <1>2

LEMMA ClearDrops ==
    ASSUME NEW p \in Procs, NEW m \in Messages, Cleared(p, m), stage[p][m] \in Unbegun
    PROVE  Dropped(p, m)
BY DEF Cleared, Dropped

(* What each step of a handler does to the stages.                          *)
LEMMA HandlerMoves ==
    ASSUME Types, NEW p \in Procs, NEW m \in Messages, HandlerStep(p, m)
    PROVE  /\ stage' \in [Procs -> [Messages -> Stage]]
           /\ lane' \in [Procs -> [Topics -> LaneState]]
           /\ stray' \in [Procs -> SUBSET Messages]
           /\ UNCHANGED <<mvars, null, loop>>
           /\ Begin(p, m) => Dropped(p, m) \/ Moved(p, m, "listed", "started")
           /\ Refuse(p, m) => Dropped(p, m)
           /\ AcquireResource(p, m) => \/ Dropped(p, m) /\ UNCHANGED pvars
                                       \/ Moved(p, m, "started", "acquiring") /\ Acquire(p, m)
           /\ Acquired(p, m) =>
                 Moved(p, m, "acquiring", IF TopicOf[m] \in WaitToCommit THEN "handling" ELSE "deleting")
           /\ ThrowsOnNull(p, m) => stage[p][m] = "acquiring" /\ Cleared(p, m)
           /\ DeleteFirst(p, m) => Moved(p, m, "deleting", "handling")
           /\ DeleteLast(p, m) => Moved(p, m, "committing", "releasing")
           /\ DeleteFails(p, m) => \E s \in {"deleting", "committing"} : Moved(p, m, s, "releasing")
           /\ HandlerSucceeds(p, m) => Moved(p, m, "handling", AfterHandler(m))
           /\ HandlerFails(p, m) => Moved(p, m, "handling", "releasing")
           /\ ReleaseResource(p, m) => Moved(p, m, "releasing", "none")
<1> USE DEF Types
<1>0. Stage = {"none", "listed"} \cup {"started", "acquiring", "deleting", "handling", "committing", "releasing"}
    BY DEF Stage
<1> DEFINE Fine == /\ stage' \in [Procs -> [Messages -> Stage]]
                   /\ lane' \in [Procs -> [Topics -> LaneState]]
                   /\ stray' \in [Procs -> SUBSET Messages]
                   /\ UNCHANGED <<mvars, null, loop>>
<1>1. ASSUME Begin(p, m)
      PROVE  Fine /\ (Dropped(p, m) \/ Moved(p, m, "listed", "started"))
    <2>1. stage[p][m] = "listed" /\ UNCHANGED <<mvars, null, loop>>
        BY <1>1 DEF Begin
    <2>2. CASE m \in Malformed
        BY <1>1, <2>1, <2>2, RejectEffect, ClearDrops DEF Begin, Unbegun
    <2>3. CASE m \notin Malformed
        <3>1. stage' = [stage EXCEPT ![p][m] = "started"] /\ UNCHANGED <<lane, stray>>
            BY <1>1, <2>3 DEF Begin
        <3>2. QED
            BY <1>0, <2>1, <3>1, Move
    <2>4. QED
        BY <2>2, <2>3
<1>2. ASSUME Refuse(p, m) \/ ReleaseResource(p, m)
      PROVE  Fine /\ Moved(p, m, stage[p][m], "none")
    <2>1. /\ stage' = [stage EXCEPT ![p][m] = "none"] /\ stray' = [stray EXCEPT ![p] = @ \ {m}]
          /\ UNCHANGED <<mvars, null, loop, lane>>
        BY <1>2 DEF Refuse, ReleaseResource, Ended
    <2>2. QED
        BY <1>0, <2>1, Move
<1>3. ASSUME AcquireResource(p, m)
      PROVE  Fine /\ \/ Dropped(p, m) /\ UNCHANGED pvars
                     \/ Moved(p, m, "started", "acquiring") /\ Acquire(p, m)
    <2>1. stage[p][m] = "started" /\ UNCHANGED <<mvars, null, loop>>
        BY <1>3 DEF AcquireResource
    <2>2. CASE MayAcquire(p)
        <3>1. Acquire(p, m) /\ stage' = [stage EXCEPT ![p][m] = "acquiring"] /\ UNCHANGED <<lane, stray>>
            BY <1>3, <2>2 DEF AcquireResource
        <3>2. QED
            BY <1>0, <2>1, <3>1, Move
    <2>3. CASE ~MayAcquire(p)
        BY <1>3, <2>1, <2>3, RejectEffect, ClearDrops DEF AcquireResource, Unbegun
    <2>4. QED
        BY <2>2, <2>3
<1>4. ASSUME Acquired(p, m)
      PROVE  Fine /\ Moved(p, m, "acquiring", IF TopicOf[m] \in WaitToCommit THEN "handling" ELSE "deleting")
    <2> DEFINE s == IF TopicOf[m] \in WaitToCommit THEN "handling" ELSE "deleting"
    <2>1. /\ stage[p][m] = "acquiring" /\ stage' = [stage EXCEPT ![p][m] = s]
          /\ s \in Stage /\ UNCHANGED <<mvars, null, loop, lane, stray>>
        BY <1>0, <1>4 DEF Acquired
    <2>2. QED
        BY <2>1, Move
<1>5. ASSUME DeleteFirst(p, m)
      PROVE  Fine /\ Moved(p, m, "deleting", "handling")
    <2>1. /\ stage[p][m] = "deleting" /\ stage' = [stage EXCEPT ![p][m] = "handling"]
          /\ UNCHANGED <<mvars, null, loop, lane, stray>>
        BY <1>5 DEF DeleteFirst
    <2>2. QED
        BY <1>0, <2>1, Move
<1>6. ASSUME DeleteLast(p, m) \/ DeleteFails(p, m) \/ HandlerFails(p, m)
      PROVE  Fine /\ Moved(p, m, stage[p][m], "releasing")
    <2>1. stage' = [stage EXCEPT ![p][m] = "releasing"] /\ UNCHANGED <<mvars, null, loop, lane, stray>>
        BY <1>6 DEF DeleteLast, DeleteFails, HandlerFails
    <2>2. QED
        BY <1>0, <2>1, Move
<1>7. ASSUME HandlerSucceeds(p, m)
      PROVE  Fine /\ Moved(p, m, "handling", AfterHandler(m))
    <2>1. /\ stage[p][m] = "handling" /\ stage' = [stage EXCEPT ![p][m] = AfterHandler(m)]
          /\ UNCHANGED <<mvars, null, loop, lane, stray>>
        BY <1>7 DEF HandlerSucceeds
    <2>2. AfterHandler(m) \in Stage
        BY <1>0 DEF AfterHandler
    <2>3. QED
        BY <2>1, <2>2, Move
<1>8. ASSUME ThrowsOnNull(p, m)
      PROVE  Fine /\ stage[p][m] = "acquiring" /\ Cleared(p, m)
    BY <1>8, RejectEffect DEF ThrowsOnNull
<1>9. Fine
    BY <1>1, <1>2, <1>3, <1>4, <1>5, <1>6, <1>7, <1>8 DEF HandlerStep
<1>10. Refuse(p, m) => Dropped(p, m)
    BY <1>2 DEF Refuse, Moved, Dropped, Unbegun
<1>11. QED
    BY <1>1, <1>2, <1>3, <1>4, <1>5, <1>6, <1>7, <1>8, <1>9, <1>10
    DEF ReleaseResource, DeleteLast, DeleteFails, HandlerFails

LEMMA AcquireTypes ==
    ASSUME PTypeOK, NEW p \in Procs, NEW x \in Clients,
           Acquire(p, x) \/ Release(p, x) \/ Leak(p, x)
    PROVE  PTypeOK'
<1> USE DEF PTypeOK
<1>1. CASE Acquire(p, x)
    <2>1. Append(line[p], x) \in Seq(Clients) /\ UNCHANGED <<leaked, draining>>
        BY <1>1 DEF Acquire
    <2>2. \/ lent' = [lent EXCEPT ![p] = @ \cup {x}] /\ UNCHANGED line
          \/ line' = [line EXCEPT ![p] = Append(@, x)] /\ UNCHANGED lent
        BY <1>1 DEF Acquire
    <2>3. CASE lent' = [lent EXCEPT ![p] = @ \cup {x}] /\ UNCHANGED line
        BY <2>1, <2>3
    <2>4. CASE line' = [line EXCEPT ![p] = Append(@, x)] /\ UNCHANGED lent
        BY <2>1, <2>4
    <2>5. QED
        BY <2>2, <2>3, <2>4
<1>2. CASE Release(p, x) /\ line[p] = <<>>
    BY <1>2 DEF Release
<1>3. CASE Release(p, x) /\ line[p] # <<>>
    <2>1. Head(line[p]) \in Clients /\ Tail(line[p]) \in Seq(Clients)
        BY <1>3
    <2>2. /\ lent' = [lent EXCEPT ![p] = (@ \ {x}) \cup {Head(line[p])}]
          /\ line' = [line EXCEPT ![p] = Tail(@)] /\ UNCHANGED <<leaked, draining>>
        BY <1>3 DEF Release
    <2>3. lent' \in [Procs -> SUBSET Clients] /\ line' \in [Procs -> Seq(Clients)]
        BY <2>1, <2>2
    <2>4. QED
        BY <2>2, <2>3
<1>4. CASE Leak(p, x)
    BY <1>4 DEF Leak
<1>5. QED
    BY <1>1, <1>2, <1>3, <1>4

LEMMA FaultEffect ==
    ASSUME faults \in 0 .. MaxFaults, NEW kind, Fault(kind)
    PROVE  faults' \in 0 .. MaxFaults /\ faults' = faults + 1
BY SqsAssumption DEF Fault

(* ... and to the rest of the state.                                        *)
LEMMA HandlerEffect ==
    ASSUME Types, NEW p \in Procs, NEW m \in Messages, HandlerStep(p, m)
    PROVE  /\ Types'
           /\ faults' \in {faults, faults + 1} /\ handled \subseteq handled'
           /\ \A n \in Messages \ {m} : starts'[n] = starts[n] /\ queue'[n] = queue[n]
           /\ starts'[m] \in {starts[m], starts[m] + 1} /\ queue'[m] \in {queue[m], Deleted}
<1> USE DEF Types
<1> DEFINE Fine == /\ PTypeOK' /\ handled' \subseteq Messages /\ handled \subseteq handled'
                   /\ starts' \in [Messages -> Nat]
                   /\ queue' \in [Messages -> Procs \cup {Visible, Deleted}]
                   /\ faults' \in 0 .. MaxFaults /\ faults' \in {faults, faults + 1}
                   /\ \A n \in Messages \ {m} : starts'[n] = starts[n] /\ queue'[n] = queue[n]
                   /\ starts'[m] \in {starts[m], starts[m] + 1} /\ queue'[m] \in {queue[m], Deleted}
<1>1. UNCHANGED pvars => PTypeOK'
    BY DEF pvars, PTypeOK
<1>2. Started(m) => /\ starts' \in [Messages -> Nat] /\ starts'[m] = starts[m] + 1
                    /\ \A n \in Messages \ {m} : starts'[n] = starts[n]
    BY DEF Started
<1>3. Removed(p, m) => /\ queue' \in [Messages -> Procs \cup {Visible, Deleted}]
                       /\ queue'[m] \in {queue[m], Deleted}
                       /\ \A n \in Messages \ {m} : queue'[n] = queue[n]
    BY DEF Removed
<1>4. ASSUME Begin(p, m) \/ Refuse(p, m)
      PROVE  Fine
    BY <1>1, <1>4 DEF Begin, Refuse
<1>5. ASSUME AcquireResource(p, m) \/ ReleaseResource(p, m) \/ ThrowsOnNull(p, m)
      PROVE  Fine
    <2>1. PTypeOK'
        BY <1>1, <1>5, AcquireTypes DEF AcquireResource, ReleaseResource, ThrowsOnNull, Messages
    <2>2. UNCHANGED <<queue, handled, starts, faults>>
        BY <1>5 DEF AcquireResource, ReleaseResource, ThrowsOnNull
    <2>3. QED
        BY <2>1, <2>2
<1>6. ASSUME Acquired(p, m) \/ DeleteFirst(p, m) \/ DeleteLast(p, m)
      PROVE  Fine
    <2>1. PTypeOK' /\ UNCHANGED <<handled, faults>>
        BY <1>1, <1>6 DEF Acquired, DeleteFirst, DeleteLast
    <2>2. (Started(m) \/ UNCHANGED starts) /\ (Removed(p, m) \/ UNCHANGED queue)
        BY <1>6 DEF Acquired, DeleteFirst, DeleteLast
    <2>3. QED
        BY <1>2, <1>3, <2>1, <2>2
<1>7. ASSUME DeleteFails(p, m) \/ HandlerFails(p, m)
      PROVE  Fine
    <2>1. PTypeOK' /\ UNCHANGED <<handled, starts>>
        BY <1>1, <1>7 DEF DeleteFails, HandlerFails
    <2>2. faults' \in 0 .. MaxFaults /\ faults' = faults + 1
        BY <1>7, FaultEffect DEF DeleteFails, HandlerFails
    <2>3. Removed(p, m) \/ UNCHANGED queue
        BY <1>7 DEF DeleteFails, HandlerFails
    <2>4. QED
        BY <1>3, <2>1, <2>2, <2>3
<1>8. ASSUME HandlerSucceeds(p, m)
      PROVE  Fine
    BY <1>1, <1>8 DEF HandlerSucceeds
<1>9. Fine
    BY <1>4, <1>5, <1>6, <1>7, <1>8 DEF HandlerStep
<1>10. MTypeOK' /\ loop' \in [Procs -> LoopState]
    BY HandlerMoves DEF mvars, MTypeOK
<1>11. QED
    BY <1>9, <1>10, HandlerMoves

-----------------------------------------------------------------------------
(* The steps of the loop, but for a batch that arrives.                     *)
LoopStep(p) ==
    \/ PollStep(p)
    \/ \E t \in Topics : EnterLane(p, t) \/ ReceiveNothing(p, t) \/ LaneEnds(p, t)

LEMMA LoopEffect ==
    ASSUME Types, NEW p \in Procs, LoopStep(p)
    PROVE  Types' /\ UNCHANGED <<call, pvars, null, stage, queue, handled, starts, faults>>
<1> USE DEF Types
<1>1. ASSUME TimerFires(p) \/ PollAgain(p)
      PROVE  /\ loop' \in [Procs -> LoopState] /\ lane' \in [Procs -> [Topics -> LaneState]]
             /\ UNCHANGED <<mvars, pvars, null, stage, stray, queue, handled, starts, faults>>
    <2>1. CASE TimerFires(p)
        <3>1. /\ loop' = [loop EXCEPT ![p] = "polling"]
              /\ lane' = [lane EXCEPT ![p] = [t \in Topics |-> "todo"]]
              /\ UNCHANGED <<mvars, pvars, null, stage, stray, queue, handled, starts, faults>>
            BY <2>1 DEF TimerFires
        <3>2. QED
            BY <3>1 DEF LoopState, LaneState
    <2>2. CASE PollAgain(p)
        BY <2>2 DEF PollAgain, LoopState
    <2>3. QED
        BY <1>1, <2>1, <2>2
<1>2. ASSUME PollTerminates(p)
      PROVE  /\ loop' \in [Procs -> LoopState] /\ MTypeOK' /\ call' = call
             /\ UNCHANGED <<pvars, null, lane, stage, stray, queue, handled, starts, faults>>
    <2>1. loop' \in [Procs -> LoopState]
        BY <1>2 DEF PollTerminates, LoopState
    <2>2. Terminate(p) /\ UNCHANGED <<pvars, null, lane, stage, stray, queue, handled, starts, faults>>
        BY <1>2 DEF PollTerminates
    <2>3. call' = call
        BY <2>2 DEF Terminate, SetState
    <2>4. QED
        BY <2>1, <2>2, <2>3, ManagerTypes
<1>3. ASSUME NEW t \in Topics, EnterLane(p, t) \/ ReceiveNothing(p, t) \/ LaneEnds(p, t)
      PROVE  /\ lane' \in [Procs -> [Topics -> LaneState]]
             /\ UNCHANGED <<mvars, pvars, null, loop, stage, stray, queue, handled, starts, faults>>
    <2>1. PICK s \in {"done", "fetching"} : lane' = [lane EXCEPT ![p][t] = s]
        BY <1>3 DEF EnterLane, ReceiveNothing, LaneEnds
    <2>2. s \in LaneState
        BY DEF LaneState
    <2>3. QED
        BY <1>3, <2>1, <2>2 DEF EnterLane, ReceiveNothing, LaneEnds
<1>4. QED
    BY <1>1, <1>2, <1>3 DEF LoopStep, PollStep, mvars, pvars, MTypeOK, PTypeOK

(* A message that arrives was visible, and not in hands of the instance; it *)
(* waits, or is begun, or was dropped with the rejected batch.              *)
Arrived(p, n) ==
    /\ queue[n] = Visible /\ queue'[n] = p
    /\ stage[p][n] = "none" /\ stage'[p][n] \in {"none"} \cup Unbegun

LEMMA ReceiveEffect ==
    ASSUME Types, NEW p \in Procs, NEW t \in Topics, ReceiveAny(p, t)
    PROVE  /\ Types' /\ UNCHANGED <<mvars, pvars, null, handled, starts, faults>>
           /\ \A q \in Procs \ {p}, n \in Messages : stage'[q][n] = stage[q][n]
           /\ \A n \in Messages :
                 Arrived(p, n) \/ (queue'[n] = queue[n] /\ stage'[p][n] = stage[p][n])
<1> USE DEF Types
<1>0. PICK batch \in SUBSET Available(p, t) : \E first \in SUBSET batch : Receive(p, t, batch, first)
    BY DEF ReceiveAny
<1>1. PICK first \in SUBSET batch : Receive(p, t, batch, first)
    BY <1>0
<1> DEFINE rejected == first \cap Malformed # {}
           begun == first \ Malformed
           new == [m \in Messages |-> IF m \in begun THEN "started"
                                      ELSE IF m \in batch /\ ~rejected THEN "listed"
                                      ELSE stage[p][m]]
<1>2. batch \subseteq Messages /\ begun \subseteq batch
    BY DEF Available, OfTopic
<1>3. /\ \A m \in batch : queue[m] = Visible /\ stage[p][m] = "none"
      /\ queue' = [m \in Messages |-> IF m \in batch THEN p ELSE queue[m]]
      /\ lane' = [lane EXCEPT ![p][t] = IF rejected THEN "done" ELSE "receiving"]
      /\ stray' = [stray EXCEPT ![p] = IF rejected THEN @ \cup begun ELSE @]
      /\ stage' = [stage EXCEPT ![p] = new]
      /\ UNCHANGED <<mvars, pvars, null, loop, handled, starts, faults>>
    BY <1>0, <1>1 DEF Receive, Available
<1>4. new \in [Messages -> Stage]
    BY DEF Stage
<1>5. stage' \in [Procs -> [Messages -> Stage]] /\ stage'[p] = new /\ \A q \in Procs \ {p} : stage'[q] = stage[q]
    <2> HIDE DEF new
    <2>1. QED
        BY <1>3, <1>4
<1>6. queue' \in [Messages -> Procs \cup {Visible, Deleted}]
    BY <1>3
<1>7. lane' \in [Procs -> [Topics -> LaneState]]
    BY <1>3 DEF LaneState
<1>8. stray' \in [Procs -> SUBSET Messages]
    BY <1>2, <1>3
<1>9. ASSUME NEW n \in Messages
      PROVE  Arrived(p, n) \/ (queue'[n] = queue[n] /\ stage'[p][n] = stage[p][n])
    <2>1. CASE n \in batch
        BY <1>3, <1>5, <2>1 DEF Arrived, Unbegun
    <2>2. CASE n \notin batch
        BY <1>2, <1>3, <1>5, <2>2
    <2>3. QED
        BY <2>1, <2>2
<1>10. QED
    BY <1>3, <1>5, <1>6, <1>7, <1>8, <1>9 DEF mvars, pvars, MTypeOK, PTypeOK

LEMMA LifecycleEffect ==
    ASSUME Types, NEW p \in Procs, Lifecycle(p)
    PROVE  /\ Types' /\ UNCHANGED <<svars, lent, leaked, line>>
           /\ draining \subseteq draining'
           /\ ManagerStep(p)
<1>1. PoolManagerStep(p) /\ UNCHANGED svars
    BY DEF Lifecycle
<1>2. UNCHANGED pvars \/ DrainPools(p)
    BY <1>1 DEF PoolManagerStep, PoolShutdownStep
<1>3. ManagerStep(p)
    BY <1>1 DEF PoolManagerStep, PoolShutdownStep, ManagerStep, ShutdownStep
<1>4. PTypeOK' /\ UNCHANGED <<lent, leaked, line>> /\ draining \subseteq draining'
    BY <1>2 DEF Types, PTypeOK, pvars, DrainPools, Neighbours
<1>5. MTypeOK'
    BY <1>3, ManagerTypes DEF Types
<1>6. QED
    BY <1>1, <1>3, <1>4, <1>5 DEF Types, svars

LEMMA CrashEffect ==
    ASSUME Types, NEW p \in Procs, Crash(p)
    PROVE  /\ Types' /\ UNCHANGED <<mvars, null, queue, handled, starts, draining>>
           /\ faults' = faults + 1
           /\ \A q \in Procs :
                 \/ /\ lent'[q] = {} /\ leaked'[q] = 0 /\ line'[q] = <<>>
                    /\ \A m \in Messages : stage'[q][m] = "none"
                 \/ /\ lent'[q] = lent[q] /\ leaked'[q] = leaked[q] /\ line'[q] = line[q]
                    /\ stage'[q] = stage[q]
<1> USE DEF Types
<1> DEFINE dead == Neighbours(p)
<1>1. /\ loop' = [q \in Procs |-> IF q \in dead THEN "crashed" ELSE loop[q]]
      /\ lane' = [q \in Procs |-> IF q \in dead THEN [t \in Topics |-> "done"] ELSE lane[q]]
      /\ stage' = [q \in Procs |-> IF q \in dead THEN [m \in Messages |-> "none"] ELSE stage[q]]
      /\ stray' = [q \in Procs |-> IF q \in dead THEN {} ELSE stray[q]]
      /\ Forget(dead)
      /\ UNCHANGED <<mvars, null, queue, handled, starts>>
    BY DEF Crash
<1>2. faults' \in 0 .. MaxFaults /\ faults' = faults + 1
    BY FaultEffect DEF Crash
<1>3. /\ loop' \in [Procs -> LoopState] /\ lane' \in [Procs -> [Topics -> LaneState]]
      /\ stage' \in [Procs -> [Messages -> Stage]] /\ stray' \in [Procs -> SUBSET Messages]
    BY <1>1 DEF LoopState, LaneState, Stage
<1>4. PTypeOK'
    BY <1>1 DEF Forget, PTypeOK
<1>5. QED
    BY <1>1, <1>2, <1>3, <1>4 DEF Forget, mvars, MTypeOK

LEMMA ReappearEffect ==
    ASSUME Types, NEW m \in Messages, Reappear(m)
    PROVE  /\ Types' /\ UNCHANGED <<mvars, pvars, null, stage, handled, starts>>
           /\ queue[m] \in Procs /\ queue'[m] = Visible
           /\ \A n \in Messages \ {m} : queue'[n] = queue[n]
           /\ \/ faults' = faults /\ stage[queue[m]][m] = "none"
              \/ faults' = faults + 1
<1> USE DEF Types
<1>1. /\ queue[m] \in Procs /\ queue' = [queue EXCEPT ![m] = Visible]
      /\ UNCHANGED <<mvars, pvars, null, loop, lane, stage, stray, handled, starts>>
    BY DEF Reappear
<1>2. /\ faults' \in 0 .. MaxFaults
      /\ \/ faults' = faults /\ stage[queue[m]][m] = "none"
         \/ faults' = faults + 1
    BY FaultEffect DEF Reappear
<1>3. QED
    BY <1>1, <1>2 DEF mvars, pvars, MTypeOK, PTypeOK

(* The steps, as the lemmas above describe them.                            *)
LEMMA Steps ==
    ASSUME Next
    PROVE  \/ \E p \in Procs :
                 \/ LoopStep(p)
                 \/ \E t \in Topics : ReceiveAny(p, t)
                 \/ \E m \in Messages : HandlerStep(p, m)
                 \/ Lifecycle(p) \/ Crash(p)
           \/ \E m \in Messages : Reappear(m)
BY DEF Next, LaneStep, LoopStep

LEMMA AlwaysTypes == SafeSpec => []Types
<1>1. Init => Types
    <2> SUFFICES ASSUME Init PROVE Types
        OBVIOUS
    <2>1. MTypeOK
        BY TriesAssumption DEF Init, MInit, MTypeOK, RunnerState, CallState
    <2>2. PTypeOK
        BY DEF Init, PInit, PTypeOK
    <2>3. QED
        BY <2>1, <2>2, SqsAssumption DEF Init, Types, LoopState, LaneState, Stage
<1>2. Types /\ [Next]_vars => Types'
    <2>1. Types /\ UNCHANGED vars => Types'
        BY DEF Types, vars, svars, mvars, pvars, MTypeOK, PTypeOK
    <2>2. QED
        BY <2>1, Steps, LoopEffect, ReceiveEffect, HandlerEffect, LifecycleEffect, CrashEffect, ReappearEffect
<1>3. QED
    BY <1>1, <1>2, PTL DEF SafeSpec

-----------------------------------------------------------------------------
(* Nothing is lost: a message is deleted after its handler with             *)
(* waitToCommit, and before it without.                                     *)
CommitSound ==
    \A p \in Procs, m \in Messages :
        /\ stage[p][m] = "committing" => TopicOf[m] \in WaitToCommit /\ m \in handled
        /\ stage[p][m] = "deleting" => TopicOf[m] \notin WaitToCommit

LEMMA HandlerCommits ==
    ASSUME Types, CommitSound, NothingLost, NEW p \in Procs, NEW m \in Messages, HandlerStep(p, m)
    PROVE  CommitSound' /\ NothingLost'
<1> USE DEF CommitSound, NothingLost
<1>0. /\ faults \in Nat /\ starts[m] \in Nat /\ faults' \in {faults, faults + 1} /\ handled \subseteq handled'
      /\ \A n \in Messages \ {m} : starts'[n] = starts[n] /\ queue'[n] = queue[n]
      /\ starts'[m] \in {starts[m], starts[m] + 1} /\ queue'[m] \in {queue[m], Deleted}
    BY HandlerEffect, SqsAssumption DEF Types
\* The other messages, and this one unless it is deleted or begins to be.
<1>1. ASSUME NEW n \in Messages, n # m \/ queue'[n] = queue[n]
      PROVE  queue'[n] = Deleted =>
                 IF TopicOf[n] \in WaitToCommit THEN n \in handled' ELSE starts'[n] > 0 \/ faults' > 0
    <2>1. faults > 0 => faults' > 0
        BY <1>0
    <2>2. starts[n] > 0 => starts'[n] > 0
        BY <1>0
    <2>3. queue'[n] = queue[n]
        BY <1>0, <1>1
    <2>4. QED
        BY <1>0, <2>1, <2>2, <2>3
<1>2. CASE \/ Begin(p, m) \/ Refuse(p, m) \/ AcquireResource(p, m) \/ ThrowsOnNull(p, m)
           \/ HandlerFails(p, m) \/ ReleaseResource(p, m)
    <2>1. queue' = queue
        BY <1>2 DEF Begin, Refuse, AcquireResource, ThrowsOnNull, HandlerFails, ReleaseResource
    <2>2. CommitSound'
        <3>1. CASE ThrowsOnNull(p, m)
            <4>1. Cleared(p, m)
                BY <3>1, HandlerMoves
            <4>2. \A q \in Procs, n \in Messages :
                      stage'[q][n] = "none" \/ stage'[q][n] = stage[q][n]
                BY <4>1 DEF Cleared
            <4>3. QED
                BY <1>0, <4>2
        <3>2. CASE ~ThrowsOnNull(p, m)
            <4>1. Dropped(p, m) \/ \E from \in Stage, to \in {"none", "started", "acquiring", "releasing"} :
                      Moved(p, m, from, to)
                BY <1>2, <3>2, HandlerMoves DEF Stage
            <4>2. \A q \in Procs, n \in Messages :
                      \/ stage'[q][n] \in {"none", "started", "acquiring", "releasing"}
                      \/ stage'[q][n] = stage[q][n]
                BY <4>1 DEF Dropped, Moved
            <4>3. QED
                BY <1>0, <4>2
        <3>3. QED
            BY <3>1, <3>2
    <2>3. QED
        BY <1>1, <2>1, <2>2
<1>3. CASE Acquired(p, m)
    <2>1. queue' = queue
        BY <1>3 DEF Acquired
    <2>2. CommitSound'
        <3> DEFINE to == IF TopicOf[m] \in WaitToCommit THEN "handling" ELSE "deleting"
        <3>1. Moved(p, m, "acquiring", to)
            BY <1>3, HandlerMoves
        <3>2. stage'[p][m] = to
              /\ \A q \in Procs, n \in Messages : q # p \/ n # m => stage'[q][n] = stage[q][n]
            BY <3>1 DEF Moved
        <3>3. QED
            BY <1>0, <3>2
    <2>3. QED
        BY <1>1, <2>1, <2>2
<1>4. CASE DeleteFirst(p, m)
    <2>0. Moved(p, m, "deleting", "handling")
        BY <1>4, HandlerMoves
    <2>1. CommitSound' /\ TopicOf[m] \notin WaitToCommit
        BY <1>0, <2>0 DEF Moved
    <2>2. starts'[m] > 0
        BY <1>0, <1>4 DEF DeleteFirst, Started, Types
    <2>3. QED
        BY <1>0, <1>1, <2>1, <2>2
<1>5. CASE DeleteLast(p, m)
    <2>0. Moved(p, m, "committing", "releasing")
        BY <1>5, HandlerMoves
    <2>1. CommitSound' /\ TopicOf[m] \in WaitToCommit /\ m \in handled
        BY <1>0, <2>0 DEF Moved
    <2>2. QED
        BY <1>0, <1>1, <2>1
<1>6. CASE DeleteFails(p, m)
    <2>0. PICK s \in {"deleting", "committing"} : Moved(p, m, s, "releasing")
        BY <1>6, HandlerMoves
    <2>1. CommitSound' /\ (TopicOf[m] \in WaitToCommit => m \in handled)
        BY <1>0, <2>0 DEF Moved
    <2>2. faults' > 0
        BY <1>0, <1>6 DEF DeleteFails, Fault
    <2>3. QED
        BY <1>0, <1>1, <2>1, <2>2
<1>7. CASE HandlerSucceeds(p, m)
    <2>1. queue' = queue /\ m \in handled'
        BY <1>7 DEF HandlerSucceeds
    <2>2. CommitSound'
        <3>1. Moved(p, m, "handling", AfterHandler(m))
            BY <1>7, HandlerMoves
        <3>2. QED
            BY <1>0, <2>1, <3>1 DEF Moved, AfterHandler
    <2>3. QED
        BY <1>1, <2>1, <2>2
<1>8. QED
    BY <1>2, <1>3, <1>4, <1>5, <1>6, <1>7 DEF HandlerStep

LEMMA StepCommits ==
    ASSUME Types, CommitSound, NothingLost, [Next]_vars
    PROVE  CommitSound' /\ NothingLost'
<1> USE DEF CommitSound, NothingLost
<1>1. CASE UNCHANGED vars
    BY <1>1 DEF vars, svars
<1>2. ASSUME NEW p \in Procs, LoopStep(p)
      PROVE  CommitSound' /\ NothingLost'
    BY <1>2, LoopEffect
<1>3. ASSUME NEW p \in Procs, NEW t \in Topics, ReceiveAny(p, t)
      PROVE  CommitSound' /\ NothingLost'
    <2>1. CommitSound'
        BY <1>3, ReceiveEffect DEF Arrived, Unbegun
    <2>2. \A n \in Messages : queue'[n] = Deleted => queue[n] = Deleted
        BY <1>3, ReceiveEffect, SqsAssumption DEF Arrived
    <2>3. QED
        BY <1>3, <2>1, <2>2, ReceiveEffect
<1>4. ASSUME NEW p \in Procs, Lifecycle(p)
      PROVE  CommitSound' /\ NothingLost'
    BY <1>4, LifecycleEffect DEF svars
<1>5. ASSUME NEW p \in Procs, Crash(p)
      PROVE  CommitSound' /\ NothingLost'
    <2>1. UNCHANGED <<queue, handled, starts>> /\ faults' > 0
        BY <1>5, CrashEffect, SqsAssumption DEF Types
    <2>2. CommitSound'
        BY <1>5, <2>1, CrashEffect
    <2>3. QED
        BY <2>1, <2>2
<1>6. ASSUME NEW m \in Messages, Reappear(m)
      PROVE  CommitSound' /\ NothingLost'
    <2>0. faults \in Nat
        BY SqsAssumption DEF Types
    <2>1. faults > 0 => faults' > 0
        BY <1>6, <2>0, ReappearEffect
    <2>2. \A n \in Messages : queue'[n] = Deleted => queue[n] = Deleted
        BY <1>6, ReappearEffect, SqsAssumption
    <2>3. QED
        BY <1>6, <2>1, <2>2, ReappearEffect
<1>7. QED
    BY <1>1, <1>2, <1>3, <1>4, <1>5, <1>6, HandlerCommits, Steps

(* Whatever overlaps, is rejected, stopped or drained: with waitToCommit a  *)
(* message is deleted only after a handler has succeeded with it; without,  *)
(* it is never handled only by a fault (processMessage, deleteMessage).     *)
THEOREM NeverLost == SafeSpec => []NothingLost
<1>1. Init => CommitSound /\ NothingLost
    BY SqsAssumption DEF Init, CommitSound, NothingLost
<1>2. QED
    BY <1>1, StepCommits, AlwaysTypes, PTL DEF SafeSpec

-----------------------------------------------------------------------------
(* Who may yet start the handler of m: an instance that has m in its hands, *)
(* and one that will be given it, when m is in the queue or soon back.      *)
MayStart == Unbegun \cup {"acquiring", "deleting"}
MayReturn == {"none", "releasing"}
Pending(m) == {p \in Procs : stage[p][m] \in MayStart}
Free(m) == queue[m] = Visible \/ \E p \in Procs : queue[m] = p /\ stage[p][m] \in MayReturn
Spare(m) == IF Free(m) THEN 1 ELSE 0

Budget(m) ==
    /\ IsFiniteSet(Pending(m))
    /\ starts[m] + Cardinality(Pending(m)) + Spare(m) <= 1 + faults

DeletedBefore ==
    \A p \in Procs, m \in Messages :
        stage[p][m] = "handling" /\ TopicOf[m] \notin WaitToCommit => queue[m] # p

BudgetKept == DeletedBefore /\ \A m \in Messages : Budget(m)

(* What one instance adds to the pending ones.                              *)
Hand(p, m) == IF stage[p][m] \in MayStart THEN 1 ELSE 0

LEMMA PendingMoves ==
    ASSUME NEW m \in Messages, NEW p \in Procs, IsFiniteSet(Pending(m)),
           \A q \in Procs \ {p} : stage'[q][m] = stage[q][m]
    PROVE  /\ IsFiniteSet(Pending(m)')
           /\ Cardinality(Pending(m)) \in Nat
           /\ Cardinality(Pending(m)') = Cardinality(Pending(m)) - Hand(p, m) + Hand(p, m)'
<1> DEFINE rest == Pending(m) \ {p}
<1>1. /\ IsFiniteSet(rest) /\ Cardinality(rest) \in Nat /\ Cardinality(Pending(m)) \in Nat
      /\ Cardinality(rest) = Cardinality(Pending(m)) - Hand(p, m)
    <2>1. p \in Pending(m) <=> stage[p][m] \in MayStart
        BY DEF Pending
    <2>2. QED
        BY <2>1, FS_RemoveElement, FS_CardinalityType DEF Hand
<1>2. Pending(m)' = IF stage'[p][m] \in MayStart THEN rest \cup {p} ELSE rest
    BY DEF Pending
<1>3. /\ IsFiniteSet(rest \cup {p}) /\ Cardinality(rest \cup {p}) = Cardinality(rest) + 1
    BY <1>1, FS_AddElement
<1> HIDE DEF rest
<1>4. QED
    BY <1>1, <1>2, <1>3 DEF Hand

LEMMA FreeStays ==
    ASSUME NEW m \in Messages, NEW p \in Procs, queue'[m] = queue[m],
           \A q \in Procs \ {p} : stage'[q][m] = stage[q][m],
           queue[m] = p => (stage'[p][m] \in MayReturn <=> stage[p][m] \in MayReturn)
    PROVE  Spare(m)' = Spare(m)
BY DEF Spare, Free

(* An instance moves m along without more starts, hands and returns than    *)
(* before, or a fault makes up for it.                                      *)
LEMMA BudgetMoves ==
    ASSUME NEW m \in Messages, NEW p \in Procs, Budget(m),
           {starts[m], starts'[m], faults, faults'} \subseteq Nat,
           \A q \in Procs \ {p} : stage'[q][m] = stage[q][m],
           starts'[m] + Hand(p, m)' + Spare(m)' + faults <= starts[m] + Hand(p, m) + Spare(m) + faults'
    PROVE  Budget(m)'
<1>1. {Hand(p, m), Hand(p, m)', Spare(m), Spare(m)'} \subseteq {0, 1}
    BY DEF Hand, Spare
<1>2. /\ IsFiniteSet(Pending(m)') /\ Cardinality(Pending(m)) \in Nat
      /\ Cardinality(Pending(m)') = Cardinality(Pending(m)) - Hand(p, m) + Hand(p, m)'
    BY PendingMoves DEF Budget
<1>3. starts[m] + Cardinality(Pending(m)) + Spare(m) <= 1 + faults
    BY DEF Budget
<1>4. starts'[m] + Cardinality(Pending(m)') + Spare(m)' <= 1 + faults'
    BY <1>1, <1>2, <1>3
<1>5. QED
    BY <1>2, <1>4 DEF Budget

LEMMA BudgetStays ==
    ASSUME NEW m \in Messages, Budget(m), starts'[m] = starts[m], queue'[m] = queue[m],
           \A q \in Procs : stage'[q][m] = stage[q][m],
           {starts[m], faults, faults'} \subseteq Nat, faults <= faults'
    PROVE  Budget(m)'
<1>1. Pending(m)' = Pending(m) /\ Spare(m)' = Spare(m)
    BY DEF Pending, Spare, Free
<1>2. Cardinality(Pending(m)) \in Nat /\ Spare(m) \in {0, 1}
    BY FS_CardinalityType DEF Budget, Spare
<1>3. QED
    BY <1>1, <1>2 DEF Budget

LEMMA HandlerBudget ==
    ASSUME Types, BudgetKept, NEW p \in Procs, NEW m \in Messages, HandlerStep(p, m)
    PROVE  BudgetKept'
<1> USE DEF BudgetKept
<1>0. /\ \A n \in Messages : {starts[n], starts'[n], faults, faults'} \subseteq Nat
      /\ faults' \in {faults, faults + 1}
      /\ \A n \in Messages \ {m} : starts'[n] = starts[n] /\ queue'[n] = queue[n]
      /\ queue'[m] \in {queue[m], Deleted} /\ p # Deleted /\ Visible # Deleted
      /\ \A q \in Procs : q # Deleted
    BY HandlerEffect, SqsAssumption DEF Types
<1>1. \A n \in Messages : Spare(n) \in {0, 1} /\ Spare(n)' \in {0, 1}
    BY DEF Spare
<1>2. ASSUME UNCHANGED <<queue, starts, faults>>,
             \A q \in Procs \ {p}, n \in Messages : stage'[q][n] = stage[q][n],
             \A n \in Messages :
                 stage'[p][n] = stage[p][n] \/ (stage[p][n] \in MayStart /\ stage'[p][n] = "none")
      PROVE  BudgetKept'
    <2>1. DeletedBefore'
        BY <1>2 DEF DeletedBefore
    <2>2. ASSUME NEW n \in Messages
          PROVE  Budget(n)'
        <3>1. CASE stage'[p][n] = stage[p][n]
            BY <1>0, <1>2, <3>1, BudgetStays
        <3>2. CASE stage[p][n] \in MayStart /\ stage'[p][n] = "none"
            <4>1. Hand(p, n) = 1 /\ Hand(p, n)' = 0
                BY <3>2 DEF Hand, MayStart, Unbegun
            <4>2. starts'[n] + Hand(p, n)' + Spare(n)' + faults <= starts[n] + Hand(p, n) + Spare(n) + faults'
                BY <1>0, <1>1, <1>2, <4>1
            <4>3. QED
                BY <1>0, <1>2, <4>2, BudgetMoves
        <3>3. QED
            BY <1>2, <3>1, <3>2
    <2>3. QED
        BY <2>1, <2>2
\* Only m moves: the others' budgets stay.
<1>3. ASSUME NEW from, NEW to, Moved(p, m, from, to),
             starts'[m] + Hand(p, m)' + Spare(m)' + faults <= starts[m] + Hand(p, m) + Spare(m) + faults',
             to = "handling" /\ TopicOf[m] \notin WaitToCommit => queue'[m] # p
      PROVE  BudgetKept'
    <2>1. DeletedBefore'
        BY <1>0, <1>3 DEF DeletedBefore, Moved
    <2>2. Budget(m)'
        BY <1>0, <1>3, BudgetMoves DEF Moved
    <2>3. \A n \in Messages \ {m} : Budget(n)'
        BY <1>0, <1>3, BudgetStays DEF Moved
    <2>4. QED
        BY <2>1, <2>2, <2>3
<1>4. ASSUME NEW from, NEW to, Moved(p, m, from, to)
      PROVE  /\ Hand(p, m) = IF from \in MayStart THEN 1 ELSE 0
             /\ Hand(p, m)' = IF to \in MayStart THEN 1 ELSE 0
             /\ queue'[m] = queue[m] /\ (queue[m] = p => (to \in MayReturn <=> from \in MayReturn))
                    => Spare(m)' = Spare(m)
             /\ queue'[m] = Deleted => Spare(m)' = 0
    <2>1. Hand(p, m) = (IF from \in MayStart THEN 1 ELSE 0) /\ Hand(p, m)' = IF to \in MayStart THEN 1 ELSE 0
        BY <1>4 DEF Moved, Hand
    <2>2. queue'[m] = queue[m] /\ (queue[m] = p => (to \in MayReturn <=> from \in MayReturn))
              => Spare(m)' = Spare(m)
        BY <1>4, FreeStays DEF Moved
    <2>3. queue'[m] = Deleted => Spare(m)' = 0
        BY <1>0 DEF Spare, Free
    <2>4. QED
        BY <2>1, <2>2, <2>3
<1>5. CASE Begin(p, m) \/ Refuse(p, m) \/ AcquireResource(p, m)
    <2>1. UNCHANGED <<queue, starts, faults>>
        BY <1>5 DEF Begin, Refuse, AcquireResource
    <2>2. \/ Dropped(p, m)
          \/ Moved(p, m, "listed", "started")
          \/ Moved(p, m, "started", "acquiring")
        BY <1>5, HandlerMoves
    <2>3. ASSUME NEW from \in Unbegun, NEW to \in {"started", "acquiring"}, Moved(p, m, from, to)
          PROVE  BudgetKept'
        <3>1. Hand(p, m) = 1 /\ Hand(p, m)' = 1 /\ Spare(m)' = Spare(m)
            BY <1>4, <2>1, <2>3 DEF MayStart, MayReturn, Unbegun
        <3>2. starts'[m] + Hand(p, m)' + Spare(m)' + faults <= starts[m] + Hand(p, m) + Spare(m) + faults'
            BY <1>0, <1>1, <2>1, <3>1
        <3>3. QED
            BY <1>3, <2>3, <3>2
    <2>4. QED
        BY <1>2, <2>1, <2>2, <2>3 DEF Dropped, Unbegun, MayStart
<1>6. CASE Acquired(p, m)
    <2>1. UNCHANGED <<queue, faults>>
        BY <1>6 DEF Acquired
    <2>2. CASE TopicOf[m] \in WaitToCommit
        <3>1. Moved(p, m, "acquiring", "handling") /\ starts'[m] = starts[m] + 1
            BY <1>6, <2>2, HandlerMoves DEF Acquired, Started, Types
        <3>2. Hand(p, m) = 1 /\ Hand(p, m)' = 0 /\ Spare(m)' = Spare(m)
            BY <1>4, <2>1, <3>1 DEF MayStart, MayReturn, Unbegun
        <3>3. starts'[m] + Hand(p, m)' + Spare(m)' + faults <= starts[m] + Hand(p, m) + Spare(m) + faults'
            BY <1>0, <1>1, <2>1, <3>1, <3>2
        <3>4. QED
            BY <1>3, <2>2, <3>1, <3>3
    <2>3. CASE TopicOf[m] \notin WaitToCommit
        <3>1. Moved(p, m, "acquiring", "deleting") /\ starts'[m] = starts[m]
            BY <1>6, <2>3, HandlerMoves DEF Acquired
        <3>2. Hand(p, m) = 1 /\ Hand(p, m)' = 1 /\ Spare(m)' = Spare(m)
            BY <1>4, <2>1, <3>1 DEF MayStart, MayReturn, Unbegun
        <3>3. starts'[m] + Hand(p, m)' + Spare(m)' + faults <= starts[m] + Hand(p, m) + Spare(m) + faults'
            BY <1>0, <1>1, <2>1, <3>1, <3>2
        <3>4. QED
            BY <1>3, <3>1, <3>3
    <2>4. QED
        BY <2>2, <2>3
<1>7. CASE DeleteFirst(p, m)
    <2>1. Moved(p, m, "deleting", "handling") /\ starts'[m] = starts[m] + 1 /\ faults' = faults
        BY <1>7, HandlerMoves DEF DeleteFirst, Started, Types
    <2>2. queue'[m] = Deleted \/ (queue[m] # p /\ queue'[m] = queue[m])
        BY <1>7 DEF DeleteFirst, Removed, Types
    <2>3. Hand(p, m) = 1 /\ Hand(p, m)' = 0 /\ (Spare(m)' = Spare(m) \/ Spare(m)' = 0)
        BY <1>4, <2>1, <2>2 DEF MayStart, Unbegun
    <2>4. starts'[m] + Hand(p, m)' + Spare(m)' + faults <= starts[m] + Hand(p, m) + Spare(m) + faults'
        BY <1>0, <1>1, <2>1, <2>3
    <2>5. queue'[m] # p
        BY <1>0, <2>2
    <2>6. QED
        BY <1>3, <2>1, <2>4, <2>5
<1>8. CASE DeleteLast(p, m)
    <2>1. Moved(p, m, "committing", "releasing") /\ starts'[m] = starts[m] /\ faults' = faults
        BY <1>8, HandlerMoves DEF DeleteLast
    <2>2. queue'[m] = Deleted \/ (queue[m] # p /\ queue'[m] = queue[m])
        BY <1>8 DEF DeleteLast, Removed, Types
    <2>3. Hand(p, m) = 0 /\ Hand(p, m)' = 0 /\ (Spare(m)' = Spare(m) \/ Spare(m)' = 0)
        BY <1>4, <2>1, <2>2 DEF MayStart, Unbegun
    <2>4. starts'[m] + Hand(p, m)' + Spare(m)' + faults <= starts[m] + Hand(p, m) + Spare(m) + faults'
        BY <1>0, <1>1, <2>1, <2>3
    <2>5. QED
        BY <1>3, <2>1, <2>4
\* A fault pays for the return of the message.
<1>9. CASE DeleteFails(p, m) \/ HandlerFails(p, m)
    <2>1. PICK s \in Stage : Moved(p, m, s, "releasing")
        BY <1>9, HandlerMoves DEF Stage
    <2>2. starts'[m] = starts[m] /\ faults' = faults + 1
        BY <1>9 DEF DeleteFails, HandlerFails, Fault
    <2>3. Hand(p, m) \in {0, 1} /\ Hand(p, m)' = 0
        BY <1>4, <2>1 DEF MayStart, Unbegun
    <2>4. starts'[m] + Hand(p, m)' + Spare(m)' + faults <= starts[m] + Hand(p, m) + Spare(m) + faults'
        BY <1>0, <1>1, <2>2, <2>3
    <2>5. QED
        BY <1>3, <2>1, <2>4
<1>10. CASE HandlerSucceeds(p, m)
    <2>1. Moved(p, m, "handling", AfterHandler(m)) /\ UNCHANGED <<queue, starts, faults>>
        BY <1>10, HandlerMoves DEF HandlerSucceeds
    <2>2. TopicOf[m] \notin WaitToCommit => queue[m] # p
        BY <2>1 DEF DeletedBefore, Moved
    <2>3. Hand(p, m) = 0 /\ Hand(p, m)' = 0 /\ Spare(m)' = Spare(m)
        BY <1>4, <2>1, <2>2 DEF MayStart, MayReturn, Unbegun, AfterHandler
    <2>4. starts'[m] + Hand(p, m)' + Spare(m)' + faults <= starts[m] + Hand(p, m) + Spare(m) + faults'
        BY <1>0, <1>1, <2>1, <2>3
    <2>5. QED
        BY <1>3, <2>1, <2>4 DEF AfterHandler
<1>11. CASE ReleaseResource(p, m)
    <2>1. Moved(p, m, "releasing", "none") /\ UNCHANGED <<queue, starts, faults>>
        BY <1>11, HandlerMoves DEF ReleaseResource
    <2>2. Hand(p, m) = 0 /\ Hand(p, m)' = 0 /\ Spare(m)' = Spare(m)
        BY <1>4, <2>1 DEF MayStart, MayReturn, Unbegun
    <2>3. starts'[m] + Hand(p, m)' + Spare(m)' + faults <= starts[m] + Hand(p, m) + Spare(m) + faults'
        BY <1>0, <1>1, <2>1, <2>2
    <2>4. QED
        BY <1>3, <2>1, <2>3
<1>12. CASE ThrowsOnNull(p, m)
    <2>1. UNCHANGED <<queue, starts, faults>>
        BY <1>12 DEF ThrowsOnNull
    <2>2. stage[p][m] \in MayStart /\ Cleared(p, m)
        BY <1>12, HandlerMoves DEF MayStart
    <2>3. QED
        BY <1>2, <2>1, <2>2 DEF Cleared, MayStart
<1>13. QED
    BY <1>5, <1>6, <1>7, <1>8, <1>9, <1>10, <1>11, <1>12 DEF HandlerStep

LEMMA StepBudget ==
    ASSUME Types, BudgetKept, [Next]_vars
    PROVE  BudgetKept'
<1> USE DEF BudgetKept
<1>0. /\ \A n \in Messages : starts[n] \in Nat
      /\ faults \in Nat /\ faults <= faults /\ faults <= faults + 1
      /\ Visible \notin Procs
    BY SqsAssumption DEF Types
<1>1. ASSUME UNCHANGED <<stage, queue, starts, faults>>
      PROVE  BudgetKept'
    BY <1>0, <1>1, BudgetStays DEF DeletedBefore
<1>2. ASSUME NEW p \in Procs, LoopStep(p) \/ Lifecycle(p)
      PROVE  BudgetKept'
    BY <1>1, <1>2, LoopEffect, LifecycleEffect DEF svars
<1>3. ASSUME NEW p \in Procs, NEW t \in Topics, ReceiveAny(p, t)
      PROVE  BudgetKept'
    <2>1. /\ UNCHANGED <<starts, faults>>
          /\ \A q \in Procs \ {p}, n \in Messages : stage'[q][n] = stage[q][n]
          /\ \A n \in Messages :
                Arrived(p, n) \/ (queue'[n] = queue[n] /\ stage'[p][n] = stage[p][n])
        BY <1>3, ReceiveEffect
    <2>2. DeletedBefore'
        BY <2>1 DEF DeletedBefore, Arrived, Unbegun
    <2>3. ASSUME NEW n \in Messages
          PROVE  Budget(n)'
        <3>1. CASE queue'[n] = queue[n] /\ stage'[p][n] = stage[p][n]
            BY <1>0, <2>1, <3>1, BudgetStays
        <3>2. CASE Arrived(p, n)
            <4>1. Hand(p, n) = 0 /\ Spare(n) = 1
                BY <3>2 DEF Arrived, Hand, MayStart, Unbegun, Spare, Free
            <4>2. \/ Hand(p, n)' = 1 /\ Spare(n)' = 0
                  \/ Hand(p, n)' = 0 /\ Spare(n)' = 1
                <5>1. queue'[n] = p /\ p # Visible
                    BY <1>0, <3>2 DEF Arrived
                <5>2. CASE stage'[p][n] = "none"
                    BY <5>1, <5>2 DEF Hand, MayStart, Unbegun, Spare, Free, MayReturn
                <5>3. CASE stage'[p][n] \in Unbegun
                    BY <5>1, <5>3 DEF Hand, MayStart, Unbegun, Spare, Free, MayReturn
                <5>4. QED
                    BY <3>2, <5>2, <5>3 DEF Arrived
            <4>3. starts'[n] + Hand(p, n)' + Spare(n)' + faults <= starts[n] + Hand(p, n) + Spare(n) + faults'
                BY <1>0, <2>1, <4>1, <4>2
            <4>4. QED
                BY <1>0, <2>1, <4>3, BudgetMoves
        <3>3. QED
            BY <2>1, <3>1, <3>2
    <2>4. QED
        BY <2>2, <2>3
<1>4. ASSUME NEW p \in Procs, Crash(p)
      PROVE  BudgetKept'
    <2>1. /\ UNCHANGED <<queue, starts>> /\ faults' = faults + 1
          /\ \A q \in Procs, n \in Messages : stage'[q][n] = "none" \/ stage'[q][n] = stage[q][n]
        BY <1>4, CrashEffect
    <2>2. DeletedBefore'
        BY <2>1 DEF DeletedBefore
    <2>3. ASSUME NEW n \in Messages
          PROVE  Budget(n)'
        <3>1. IsFiniteSet(Pending(n)) /\ Pending(n)' \in SUBSET Pending(n)
            BY <2>1 DEF Budget, Pending, MayStart, Unbegun
        <3>2. /\ IsFiniteSet(Pending(n)')
              /\ Cardinality(Pending(n)') <= Cardinality(Pending(n))
              /\ Cardinality(Pending(n)) \in Nat /\ Cardinality(Pending(n)') \in Nat
            BY <3>1, FS_Subset, FS_CardinalityType
        <3>3. Spare(n) \in {0, 1} /\ Spare(n)' \in {0, 1}
            BY DEF Spare
        <3>4. starts[n] + Cardinality(Pending(n)) + Spare(n) <= 1 + faults
            BY DEF Budget
        <3>5. starts'[n] + Cardinality(Pending(n)') + Spare(n)' <= 1 + faults'
            BY <1>0, <2>1, <3>2, <3>3, <3>4
        <3>6. QED
            BY <3>2, <3>5 DEF Budget
    <2>4. QED
        BY <2>2, <2>3
<1>5. ASSUME NEW m \in Messages, Reappear(m)
      PROVE  BudgetKept'
    <2>1. /\ UNCHANGED <<stage, starts>> /\ queue[m] \in Procs /\ queue'[m] = Visible
          /\ \A n \in Messages \ {m} : queue'[n] = queue[n]
          /\ \/ faults' = faults /\ stage[queue[m]][m] = "none"
             \/ faults' = faults + 1
        BY <1>5, ReappearEffect
    <2>2. DeletedBefore'
        BY <1>0, <2>1 DEF DeletedBefore
    <2>3. \A n \in Messages \ {m} : Budget(n)'
        BY <1>0, <2>1, BudgetStays
    <2>4. Budget(m)'
        <3>1. PICK p \in Procs : p = queue[m]
            BY <2>1
        <3>2. Hand(p, m) \in {0, 1} /\ Hand(p, m)' = Hand(p, m) /\ Spare(m) \in {0, 1} /\ Spare(m)' = 1
            BY <2>1 DEF Hand, Spare, Free
        <3>3. stage[p][m] = "none" => Spare(m) = 1
            BY <3>1 DEF Spare, Free, MayReturn
        <3>4. starts'[m] + Hand(p, m)' + Spare(m)' + faults <= starts[m] + Hand(p, m) + Spare(m) + faults'
            BY <1>0, <2>1, <3>1, <3>2, <3>3
        <3>5. faults' \in Nat
            BY <1>0, <2>1
        <3>6. QED
            BY <1>0, <2>1, <3>4, <3>5, BudgetMoves
    <2>5. QED
        BY <2>2, <2>3, <2>4
<1>6. QED
    BY <1>1, <1>2, <1>3, <1>4, <1>5, HandlerBudget, Steps DEF vars, svars

(* A handler is called again for a message only after a fault: a slow or    *)
(* failed handler, a failed deletion, a crash; neither a rejected batch,    *)
(* nor a termination or a drained pool, lets a message be handled twice     *)
(* (receive, processMessage).                                               *)
THEOREM RepeatsNeedFaults == SafeSpec => []RepeatedOnlyByFaults
<1>1. Init => BudgetKept
    <2> SUFFICES ASSUME Init PROVE BudgetKept
        OBVIOUS
    <2>1. \A m \in Messages : Pending(m) = {} /\ Spare(m) = 1 /\ starts[m] = 0 /\ faults = 0
        BY DEF Init, Pending, MayStart, Unbegun, Spare, Free
    <2>2. \A m \in Messages : Budget(m)
        BY <2>1, FS_EmptySet DEF Budget
    <2>3. QED
        BY <2>2 DEF Init, BudgetKept, DeletedBefore
<1>2. Types /\ BudgetKept => RepeatedOnlyByFaults
    <2> SUFFICES ASSUME Types, BudgetKept, NEW m \in Messages
                 PROVE  starts[m] <= 1 + faults
        BY DEF RepeatedOnlyByFaults
    <2>1. starts[m] \in Nat /\ faults \in Nat
        BY SqsAssumption DEF Types
    <2>2. /\ Cardinality(Pending(m)) \in Nat /\ Spare(m) \in {0, 1}
          /\ starts[m] + Cardinality(Pending(m)) + Spare(m) <= 1 + faults
        BY FS_CardinalityType DEF BudgetKept, Budget, Spare
    <2>3. QED
        BY <2>1, <2>2
<1>3. QED
    BY <1>1, <1>2, StepBudget, AlwaysTypes, PTL DEF SafeSpec

(* The types, with the bound on the starts of a handler that follows.       *)
THEOREM SqsTypes == SafeSpec => []TypeOK
<1>1. Types /\ RepeatedOnlyByFaults => TypeOK
    <2> SUFFICES ASSUME Types, RepeatedOnlyByFaults
                 PROVE  TypeOK
        OBVIOUS
    <2>1. ASSUME NEW m \in Messages
          PROVE  starts[m] \in 0 .. MaxFaults + 1
        BY SqsAssumption DEF Types, RepeatedOnlyByFaults
    <2>2. starts \in [Messages -> 0 .. MaxFaults + 1]
        BY <2>1 DEF Types
    <2>3. QED
        BY <2>2 DEF Types, TypeOK
<1>2. QED
    BY <1>1, AlwaysTypes, RepeatsNeedFaults, PTL

-----------------------------------------------------------------------------
(* The handlers that hold a resource, or wait for one.                      *)
Holding == {"acquiring", "deleting", "handling", "committing", "releasing"}

InLine(p, m) == \E i \in DOMAIN line[p] : line[p][i] = m

Held(p) ==
    /\ IsFiniteSet(lent[p]) /\ Out(p) <= PoolMax
    /\ line[p] # <<>> => Out(p) = PoolMax
    /\ leaked[p] > 0 => null # {}
    /\ \A i, j \in DOMAIN line[p] : line[p][i] = line[p][j] => i = j
    /\ \A m \in Messages :
          /\ m \in lent[p] => stage[p][m] \in Holding
          /\ stage[p][m] \in Holding \ {"acquiring"} => m \in lent[p]
          /\ stage[p][m] = "acquiring" => m \in lent[p] \/ InLine(p, m)
          /\ InLine(p, m) => m \notin lent[p] /\ stage[p][m] = "acquiring"

AllHeld == \A p \in Procs : Held(p)

(* A handler goes on, and neither takes nor returns a resource.             *)
LEMMA HeldStays ==
    ASSUME NEW p \in Procs, Held(p), null' = null,
           lent'[p] = lent[p], leaked'[p] = leaked[p], line'[p] = line[p],
           \A m \in Messages :
               \/ stage'[p][m] = stage[p][m]
               \/ stage'[p][m] \notin Holding /\ stage[p][m] \notin Holding
               \/ m \in lent[p] /\ stage'[p][m] \in Holding \ {"acquiring"}
    PROVE  Held(p)'
<1>1. \A m \in Messages : InLine(p, m)' <=> InLine(p, m)
    BY DEF InLine
<1>2. ASSUME NEW m \in Messages
      PROVE  /\ m \in lent'[p] => stage'[p][m] \in Holding
             /\ stage'[p][m] \in Holding \ {"acquiring"} => m \in lent'[p]
             /\ stage'[p][m] = "acquiring" => m \in lent'[p] \/ InLine(p, m)'
             /\ InLine(p, m)' => m \notin lent'[p] /\ stage'[p][m] = "acquiring"
    <2> USE <1>1 DEF Held
    <2>1. CASE stage'[p][m] = stage[p][m]
        BY <2>1
    <2>2. CASE stage'[p][m] \notin Holding /\ stage[p][m] \notin Holding
        BY <2>2 DEF Holding
    <2>3. CASE m \in lent[p] /\ stage'[p][m] \in Holding \ {"acquiring"}
        BY <2>3
    <2>4. QED
        BY <2>1, <2>2, <2>3
<1>3. Out(p)' = Out(p)
    BY DEF Out
<1>4. QED
    BY <1>2, <1>3 DEF Held

LEMMA AppendLine ==
    ASSUME NEW s \in Seq(Messages), NEW x
    PROVE  /\ \A m \in Messages :
                 (\E i \in DOMAIN Append(s, x) : Append(s, x)[i] = m) <=>
                 m = x \/ \E i \in DOMAIN s : s[i] = m
           /\ (\A i \in DOMAIN s : s[i] # x) /\ (\A i, j \in DOMAIN s : s[i] = s[j] => i = j) =>
              \A i, j \in DOMAIN Append(s, x) : Append(s, x)[i] = Append(s, x)[j] => i = j
<1>1. /\ Len(s) \in Nat /\ DOMAIN s = 1 .. Len(s) /\ DOMAIN Append(s, x) = 1 .. Len(s) + 1
      /\ Append(s, x)[Len(s) + 1] = x
      /\ \A i \in 1 .. Len(s) : Append(s, x)[i] = s[i]
    OBVIOUS
<1>2. \A i \in 1 .. Len(s) + 1 : i \in 1 .. Len(s) \/ i = Len(s) + 1
    BY <1>1
<1>3. Len(s) + 1 \in 1 .. Len(s) + 1 /\ \A i \in 1 .. Len(s) : i \in 1 .. Len(s) + 1
    BY <1>1
<1>4. QED
    BY <1>1, <1>2, <1>3

LEMMA TailLine ==
    ASSUME NEW s \in Seq(Messages), s # <<>>, \A i, j \in DOMAIN s : s[i] = s[j] => i = j
    PROVE  /\ Head(s) \in Messages /\ \E i \in DOMAIN s : s[i] = Head(s)
           /\ \A m \in Messages :
                 (\E i \in DOMAIN Tail(s) : Tail(s)[i] = m) <=>
                 m # Head(s) /\ \E i \in DOMAIN s : s[i] = m
           /\ \A i, j \in DOMAIN Tail(s) : Tail(s)[i] = Tail(s)[j] => i = j
<1>1. /\ Len(s) \in Nat \ {0} /\ DOMAIN s = 1 .. Len(s) /\ DOMAIN Tail(s) = 1 .. Len(s) - 1
      /\ Head(s) = s[1] /\ \A i \in 1 .. Len(s) - 1 : Tail(s)[i] = s[i + 1]
    OBVIOUS
<1>2. /\ 1 \in 1 .. Len(s)
      /\ \A i \in 1 .. Len(s) - 1 : i \in Int /\ i + 1 \in 1 .. Len(s) /\ i + 1 # 1
      /\ \A i \in 1 .. Len(s) : i = 1 \/ (i - 1 \in 1 .. Len(s) - 1 /\ (i - 1) + 1 = i)
    BY <1>1
<1>3. Head(s) \in Messages /\ \E i \in DOMAIN s : s[i] = Head(s)
    BY <1>1, <1>2
<1>4. ASSUME NEW m \in Messages
      PROVE  (\E i \in DOMAIN Tail(s) : Tail(s)[i] = m) <=>
             m # Head(s) /\ \E i \in DOMAIN s : s[i] = m
    <2>1. ASSUME NEW i \in DOMAIN Tail(s), Tail(s)[i] = m
          PROVE  m # Head(s) /\ \E j \in DOMAIN s : s[j] = m
        <3>1. i + 1 \in DOMAIN s /\ s[i + 1] = m /\ i + 1 # 1
            BY <1>1, <1>2, <2>1
        <3>2. QED
            BY <1>1, <1>2, <3>1
    <2>2. ASSUME m # Head(s), NEW i \in DOMAIN s, s[i] = m
          PROVE  \E j \in DOMAIN Tail(s) : Tail(s)[j] = m
        <3>1. i - 1 \in 1 .. Len(s) - 1 /\ (i - 1) + 1 = i
            BY <1>1, <1>2, <2>2
        <3>2. Tail(s)[i - 1] = m
            BY <1>1, <2>2, <3>1
        <3>3. QED
            BY <1>1, <3>1, <3>2
    <2>3. QED
        BY <2>1, <2>2
<1>5. ASSUME NEW i \in DOMAIN Tail(s), NEW j \in DOMAIN Tail(s), Tail(s)[i] = Tail(s)[j]
      PROVE  i = j
    <2>1. i \in Int /\ j \in Int /\ i + 1 = j + 1
        BY <1>1, <1>2, <1>5
    <2>2. QED
        BY <2>1
<1>6. QED
    BY <1>3, <1>4, <1>5

LEMMA AcquireHeld ==
    ASSUME Types, NEW p \in Procs, Held(p), NEW m \in Messages, null' = null,
           Moved(p, m, "started", "acquiring"), Acquire(p, m)
    PROVE  Held(p)'
<1>0. /\ line[p] \in Seq(Messages) /\ lent[p] \subseteq Messages
      /\ PoolMax \in Nat \ {0} /\ Cardinality(lent[p]) \in Nat /\ leaked[p] \in Nat
    BY PoolAssumption, FS_CardinalityType DEF Types, PTypeOK, Messages, Held
<1>1. m \notin lent[p] /\ ~InLine(p, m)
    BY DEF Held, Holding, Moved
<1>2. /\ stage'[p][m] = "acquiring"
      /\ \A n \in Messages \ {m} : stage'[p][n] = stage[p][n]
    BY DEF Moved
<1>3. CASE Out(p) < PoolMax
    <2>1. lent'[p] = lent[p] \cup {m} /\ leaked'[p] = leaked[p] /\ line'[p] = line[p]
        BY <1>3 DEF Acquire, Types, PTypeOK
    <2>2. line[p] = <<>>
        BY <1>0, <1>3 DEF Held, Out
    <2>3. /\ IsFiniteSet(lent'[p]) /\ Out(p)' <= PoolMax
        <3>1. IsFiniteSet(lent[p] \cup {m}) /\ Cardinality(lent[p] \cup {m}) = Cardinality(lent[p]) + 1
            BY <1>1, FS_AddElement DEF Held
        <3>2. QED
            BY <1>0, <1>3, <2>1, <3>1 DEF Out
    <2>4. \A n \in Messages : ~InLine(p, n)'
        BY <2>1, <2>2 DEF InLine
    <2>5. \A n \in Messages : ~InLine(p, n)
        BY <2>2 DEF InLine
    <2>6. QED
        BY <1>0, <1>2, <2>1, <2>2, <2>3, <2>4, <2>5 DEF Held, Holding
<1>4. CASE ~(Out(p) < PoolMax)
    <2>1. lent'[p] = lent[p] /\ leaked'[p] = leaked[p] /\ line'[p] = Append(line[p], m)
        BY <1>4 DEF Acquire, Types, PTypeOK
    <2>2. Out(p)' = PoolMax
        BY <1>0, <1>4, <2>1 DEF Held, Out
    <2>3. \A n \in Messages : InLine(p, n)' <=> n = m \/ InLine(p, n)
        <3>1. \A n \in Messages :
                  (\E i \in DOMAIN Append(line[p], m) : Append(line[p], m)[i] = n)
                  <=> n = m \/ \E i \in DOMAIN line[p] : line[p][i] = n
            BY <1>0, AppendLine
        <3>2. QED
            BY <2>1, <3>1 DEF InLine
    <2>4. \A i, j \in DOMAIN line'[p] : line'[p][i] = line'[p][j] => i = j
        BY <1>0, <1>1, <2>1, AppendLine DEF Held, InLine
    <2>5. QED
        BY <1>0, <1>1, <1>2, <2>1, <2>2, <2>3, <2>4 DEF Held, Holding
<1>5. QED
    BY <1>3, <1>4

LEMMA ReleaseHeld ==
    ASSUME Types, NEW p \in Procs, Held(p), NEW m \in Messages, null' = null,
           Moved(p, m, "releasing", "none"), Release(p, m)
    PROVE  Held(p)'
<1>0. /\ line[p] \in Seq(Messages) /\ lent[p] \subseteq Messages
      /\ PoolMax \in Nat \ {0} /\ Cardinality(lent[p]) \in Nat /\ leaked[p] \in Nat
    BY PoolAssumption, FS_CardinalityType DEF Types, PTypeOK, Messages, Held
<1>1. m \in lent[p] /\ ~InLine(p, m)
    BY DEF Held, Holding, Moved
<1>2. /\ stage'[p][m] = "none"
      /\ \A n \in Messages \ {m} : stage'[p][n] = stage[p][n]
    BY DEF Moved
<1>3. IsFiniteSet(lent[p] \ {m}) /\ Cardinality(lent[p] \ {m}) = Cardinality(lent[p]) - 1
    BY <1>1, FS_RemoveElement DEF Held
<1>4. CASE line[p] = <<>>
    <2>1. lent'[p] = lent[p] \ {m} /\ leaked'[p] = leaked[p] /\ line'[p] = line[p]
        BY <1>4 DEF Release, Types, PTypeOK
    <2>2. Out(p)' <= PoolMax
        BY <1>0, <1>3, <2>1 DEF Held, Out
    <2>3. \A n \in Messages : ~InLine(p, n)' /\ ~InLine(p, n)
        BY <1>4, <2>1 DEF InLine
    <2>4. QED
        BY <1>0, <1>2, <1>3, <1>4, <2>1, <2>2, <2>3 DEF Held, Holding
<1>5. CASE line[p] # <<>>
    <2> DEFINE h == Head(line[p])
    <2>1. lent'[p] = (lent[p] \ {m}) \cup {h} /\ leaked'[p] = leaked[p] /\ line'[p] = Tail(line[p])
        BY <1>5 DEF Release, Types, PTypeOK
    <2>2. h \in Messages /\ InLine(p, h)
        BY <1>0, <1>5, TailLine DEF Held, InLine
    <2>3. h \notin lent[p] /\ stage[p][h] = "acquiring" /\ h # m
        BY <1>1, <2>2 DEF Held
    <2>4. \A n \in Messages : InLine(p, n)' <=> n # h /\ InLine(p, n)
        <3>1. line[p] \in Seq(Messages) /\ \A i, j \in DOMAIN line[p] : line[p][i] = line[p][j] => i = j
            BY <1>0 DEF Held
        <3>2. \A n \in Messages : (\E i \in DOMAIN Tail(line[p]) : Tail(line[p])[i] = n) <=>
                                  n # h /\ \E i \in DOMAIN line[p] : line[p][i] = n
            BY <1>5, <3>1, TailLine
        <3>3. QED
            BY <2>1, <3>2 DEF InLine
    <2>5. \A i, j \in DOMAIN line'[p] : line'[p][i] = line'[p][j] => i = j
        BY <1>0, <1>5, <2>1, TailLine DEF Held
    <2>6. IsFiniteSet(lent'[p]) /\ Out(p)' = PoolMax
        <3>1. /\ IsFiniteSet((lent[p] \ {m}) \cup {h})
              /\ Cardinality((lent[p] \ {m}) \cup {h}) = Cardinality(lent[p] \ {m}) + 1
            BY <1>3, <2>3, FS_AddElement
        <3>2. Out(p) = PoolMax
            BY <1>5 DEF Held
        <3>3. QED
            BY <1>0, <1>3, <2>1, <3>1, <3>2 DEF Out
    <2> HIDE DEF h
    <2>7. QED
        BY <1>0, <1>1, <1>2, <2>1, <2>2, <2>3, <2>4, <2>5, <2>6 DEF Held, Holding
<1>6. QED
    BY <1>4, <1>5

(* A null payload moves a resource from those lent to those lost.           *)
LEMMA LeakHeld ==
    ASSUME Types, NEW p \in Procs, Held(p), NEW m \in Messages, ThrowsOnNull(p, m),
           HandlerStep(p, m)
    PROVE  Held(p)'
<1>0. /\ PoolMax \in Nat \ {0} /\ Cardinality(lent[p]) \in Nat /\ leaked[p] \in Nat
      /\ m \in null' /\ m \in lent[p] /\ stage[p][m] = "acquiring" /\ Cleared(p, m)
    BY PoolAssumption, FS_CardinalityType, HandlerMoves DEF Types, PTypeOK, Held, ThrowsOnNull
<1>1. IsFiniteSet(lent[p] \ {m}) /\ Cardinality(lent[p] \ {m}) = Cardinality(lent[p]) - 1
    BY <1>0, FS_RemoveElement DEF Held
<1>2. lent'[p] = lent[p] \ {m} /\ leaked'[p] = leaked[p] + 1 /\ line'[p] = line[p]
    BY DEF ThrowsOnNull, Leak, Types, PTypeOK
<1>3. Out(p)' = Out(p) /\ IsFiniteSet(lent'[p])
    BY <1>0, <1>1, <1>2 DEF Out
<1>4. \A n \in Messages : InLine(p, n)' <=> InLine(p, n)
    BY <1>2 DEF InLine
<1>5. ~InLine(p, m)
    BY <1>0 DEF Held
<1>6. ASSUME NEW n \in Messages
      PROVE  /\ n \in lent'[p] => stage'[p][n] \in Holding
             /\ stage'[p][n] \in Holding \ {"acquiring"} => n \in lent'[p]
             /\ stage'[p][n] = "acquiring" => n \in lent'[p] \/ InLine(p, n)'
             /\ InLine(p, n)' => n \notin lent'[p] /\ stage'[p][n] = "acquiring"
    <2>1. CASE n = m
        BY <1>0, <1>2, <1>4, <1>5, <2>1 DEF Cleared, Holding
    <2>2. CASE n # m
        BY <1>0, <1>2, <1>4, <2>2 DEF Cleared, Unbegun, Held, Holding
    <2>3. QED
        BY <2>1, <2>2
<1>7. QED
    BY <1>0, <1>2, <1>3, <1>6 DEF Held

LEMMA HandlerHeld ==
    ASSUME Types, AllHeld, NEW p \in Procs, NEW m \in Messages, HandlerStep(p, m)
    PROVE  AllHeld'
<1> USE DEF AllHeld
<1>0. null' = null
    BY HandlerMoves
<1>1. ASSUME NEW q \in Procs \ {p}
      PROVE  Held(q)'
    <2>1. lent'[q] = lent[q] /\ leaked'[q] = leaked[q] /\ line'[q] = line[q]
        <3>1. UNCHANGED pvars \/ Acquire(p, m) \/ Release(p, m) \/ Leak(p, m)
            BY HandlerMoves DEF HandlerStep, Begin, Refuse, AcquireResource, Acquired, ThrowsOnNull, DeleteFirst,
                   DeleteLast, DeleteFails, HandlerSucceeds, HandlerFails, ReleaseResource
        <3>2. QED
            BY <3>1 DEF pvars, Acquire, Release, Leak, Types, PTypeOK
    <2>2. \A n \in Messages : stage'[q][n] = stage[q][n]
        BY HandlerMoves DEF HandlerStep, Moved, Dropped, Cleared
    <2>3. QED
        BY <1>0, <2>1, <2>2, HeldStays
<1>2. Held(p)'
    <2>1. ASSUME Dropped(p, m), UNCHANGED pvars
          PROVE  Held(p)'
        <3>1. \A n \in Messages :
                  \/ stage'[p][n] = stage[p][n]
                  \/ stage'[p][n] \notin Holding /\ stage[p][n] \notin Holding
            BY <2>1 DEF Dropped, Unbegun, Holding
        <3>2. QED
            BY <1>0, <2>1, <3>1, HeldStays DEF pvars
    <2>2. ASSUME NEW from, NEW to, Moved(p, m, from, to), UNCHANGED pvars,
                 \/ {from, to} \cap Holding = {}
                 \/ m \in lent[p] /\ to \in Holding \ {"acquiring"}
          PROVE  Held(p)'
        <3>1. \A n \in Messages :
                  \/ stage'[p][n] = stage[p][n]
                  \/ stage'[p][n] \notin Holding /\ stage[p][n] \notin Holding
                  \/ n \in lent[p] /\ stage'[p][n] \in Holding \ {"acquiring"}
            BY <2>2 DEF Moved
        <3>2. QED
            BY <1>0, <2>2, <3>1, HeldStays DEF pvars
    <2>3. CASE Begin(p, m) \/ Refuse(p, m)
        <3>1. UNCHANGED pvars
            BY <2>3 DEF Begin, Refuse
        <3>2. Dropped(p, m) \/ Moved(p, m, "listed", "started")
            BY <2>3, HandlerMoves
        <3>3. QED
            BY <2>1, <2>2, <3>1, <3>2 DEF Holding
    <2>4. CASE AcquireResource(p, m)
        BY <1>0, <2>1, <2>4, HandlerMoves, AcquireHeld
    <2>5. CASE Acquired(p, m)
        <3>1. m \in lent[p] /\ UNCHANGED pvars
            BY <2>5 DEF Acquired
        <3>2. Moved(p, m, "acquiring", "handling") \/ Moved(p, m, "acquiring", "deleting")
            BY <2>5, HandlerMoves
        <3>3. QED
            BY <2>2, <3>1, <3>2 DEF Holding
    <2>6. CASE DeleteFirst(p, m) \/ DeleteLast(p, m) \/ DeleteFails(p, m) \/ HandlerSucceeds(p, m) \/ HandlerFails(p, m)
        <3>1. UNCHANGED pvars
            BY <2>6 DEF DeleteFirst, DeleteLast, DeleteFails, HandlerSucceeds, HandlerFails
        <3>2. PICK from \in Holding \ {"acquiring"}, to \in Holding \ {"acquiring"} : Moved(p, m, from, to)
            BY <2>6, HandlerMoves DEF Holding, AfterHandler
        <3>3. m \in lent[p]
            BY <3>2 DEF Held, Moved
        <3>4. QED
            BY <2>2, <3>1, <3>2, <3>3
    <2>7. CASE ReleaseResource(p, m)
        BY <1>0, <2>7, HandlerMoves, ReleaseHeld DEF ReleaseResource
    <2>8. CASE ThrowsOnNull(p, m)
        BY <2>8, LeakHeld
    <2>9. QED
        BY <2>3, <2>4, <2>5, <2>6, <2>7, <2>8 DEF HandlerStep
<1>3. QED
    BY <1>1, <1>2

LEMMA StepHeld ==
    ASSUME Types, AllHeld, [Next]_vars
    PROVE  AllHeld'
<1> USE DEF AllHeld
<1>1. ASSUME UNCHANGED <<null, stage, lent, leaked, line>>
      PROVE  AllHeld'
    BY <1>1, HeldStays
<1>2. ASSUME NEW p \in Procs, LoopStep(p) \/ Lifecycle(p)
      PROVE  AllHeld'
    BY <1>1, <1>2, LoopEffect, LifecycleEffect DEF svars, pvars
<1>3. ASSUME NEW p \in Procs, NEW t \in Topics, ReceiveAny(p, t)
      PROVE  AllHeld'
    <2>1. UNCHANGED <<null, lent, leaked, line>>
        BY <1>3, ReceiveEffect DEF pvars
    <2>2. \A q \in Procs, n \in Messages :
              \/ stage'[q][n] = stage[q][n]
              \/ stage'[q][n] \notin Holding /\ stage[q][n] \notin Holding
        BY <1>3, ReceiveEffect DEF Arrived, Unbegun, Holding
    <2>3. QED
        BY <2>1, <2>2, HeldStays
<1>4. ASSUME NEW p \in Procs, Crash(p)
      PROVE  AllHeld'
    <2> SUFFICES ASSUME NEW q \in Procs
                 PROVE  Held(q)'
        OBVIOUS
    <2>0. null' = null
        BY <1>4, CrashEffect
    <2>1. CASE /\ lent'[q] = lent[q] /\ leaked'[q] = leaked[q] /\ line'[q] = line[q]
               /\ stage'[q] = stage[q]
        BY <2>0, <2>1, HeldStays
    <2>2. CASE lent'[q] = {} /\ leaked'[q] = 0 /\ line'[q] = <<>> /\ \A m \in Messages : stage'[q][m] = "none"
        <3>1. IsFiniteSet({}) /\ Cardinality({}) = 0 /\ 0 <= PoolMax
            BY FS_EmptySet, PoolAssumption
        <3>2. \A m \in Messages : ~InLine(q, m)'
            BY <2>2 DEF InLine
        <3>3. QED
            BY <2>2, <3>1, <3>2 DEF Held, Out, Holding
    <2>3. QED
        BY <1>4, <2>1, <2>2, CrashEffect
<1>5. ASSUME NEW m \in Messages, Reappear(m)
      PROVE  AllHeld'
    BY <1>1, <1>5, ReappearEffect DEF pvars
<1>6. QED
    BY <1>1, <1>2, <1>3, <1>4, <1>5, HandlerHeld, Steps DEF vars, svars, pvars

LEMMA AlwaysHeld == SafeSpec => []AllHeld
<1>1. Init => AllHeld
    <2> SUFFICES ASSUME Init, NEW p \in Procs
                 PROVE  Held(p)
        BY DEF AllHeld
    <2>1. lent[p] = {} /\ leaked[p] = 0 /\ line[p] = <<>> /\ \A m \in Messages : stage[p][m] = "none" /\ ~InLine(p, m)
        BY DEF Init, PInit, InLine
    <2>2. IsFiniteSet({}) /\ Cardinality({}) = 0 /\ 0 <= PoolMax
        BY FS_EmptySet, PoolAssumption
    <2>3. QED
        BY <2>1, <2>2 DEF Held, Out, Holding
<1>2. QED
    BY <1>1, StepHeld, AlwaysTypes, PTL DEF SafeSpec

(* A pool never lends more than it has, what is lost to null payloads       *)
(* included, nobody waits while something is free, only handlers between    *)
(* acquire() and release() hold a resource, and without a null payload none *)
(* is lost (generic-pool, processMessage's finally).                        *)
THEOREM ResourcesAreHeld == SafeSpec => []ResourcesHeld
<1>1. Types /\ AllHeld => ResourcesHeld
    BY DEF Types, PTypeOK, AllHeld, Held, Holding, ResourcesHeld, PoolSound, Messages
<1>2. QED
    BY <1>1, AlwaysTypes, AlwaysHeld, PTL

(* After its stop() has looked at the pools an instance drains, or holds    *)
(* nothing; when stop() has returned it holds nothing.                      *)
Quiet(p) == \A m \in Messages : stage[p][m] \notin Holding

Calm ==
    LateCalls = {} =>
        \A p \in Procs, c \in Calls :
            /\ call[p][c] \in {"draining", "done"} => p \in draining \/ Quiet(p)
            /\ call[p][c] = "done" => Quiet(p)

(* The consumer implements the lifecycle: what is proved of Manager holds   *)
(* here.                                                                    *)
LEMMA ManagerSteps ==
    ASSUME Types, [Next]_vars
    PROVE  [MNext]_mvars
<1>1. ASSUME NEW p \in Procs, LoopStep(p)
      PROVE  [MNext]_mvars
    <2>1. CASE PollTerminates(p)
        BY <2>1 DEF PollTerminates, MNext
    <2>2. CASE ~PollTerminates(p)
        BY <1>1, <2>2 DEF LoopStep, PollStep, TimerFires, PollAgain, EnterLane, ReceiveNothing, LaneEnds
    <2>3. QED
        BY <2>1, <2>2
<1>2. ASSUME NEW p \in Procs, NEW t \in Topics, ReceiveAny(p, t)
      PROVE  UNCHANGED mvars
    BY <1>2, ReceiveEffect
<1>3. ASSUME NEW p \in Procs, NEW m \in Messages, HandlerStep(p, m)
      PROVE  UNCHANGED mvars
    BY <1>3, HandlerMoves
<1>4. ASSUME NEW p \in Procs, Lifecycle(p)
      PROVE  MNext
    BY <1>4, LifecycleEffect DEF MNext
<1>5. ASSUME NEW p \in Procs, Crash(p)
      PROVE  UNCHANGED mvars
    BY <1>5, CrashEffect
<1>6. ASSUME NEW m \in Messages, Reappear(m)
      PROVE  UNCHANGED mvars
    BY <1>6, ReappearEffect
<1>7. QED
    BY <1>1, <1>2, <1>3, <1>4, <1>5, <1>6, Steps DEF vars

LEMMA ImplementsManager == SafeSpec => MSafeSpec
<1>1. Init => MInit
    BY DEF Init
<1>2. QED
    BY <1>1, ManagerSteps, AlwaysTypes, PTL DEF SafeSpec, MSafeSpec

(* An instance that is terminated and holds nothing takes no resource.      *)
LEMMA QuietStays ==
    ASSUME Types, NEW p \in Procs, NEW m \in Messages, HandlerStep(p, m),
           NEW q \in Procs, Quiet(q), IsTerminated(q)
    PROVE  Quiet(q)'
<1>1. ASSUME NEW from, NEW to, Moved(p, m, from, to), from \in Holding \/ to \notin Holding
      PROVE  Quiet(q)'
    BY <1>1 DEF Quiet, Moved
<1>2. ASSUME Dropped(p, m)
      PROVE  Quiet(q)'
    <2>1. "none" \notin Holding
        BY DEF Holding
    <2>2. QED
        BY <1>2, <2>1 DEF Quiet, Dropped
<1>3. ASSUME Moved(p, m, "started", "acquiring"), AcquireResource(p, m)
      PROVE  Quiet(q)'
    <2>1. q # p
        BY <1>3 DEF AcquireResource, ShouldTerminate, IsTerminated
    <2>2. QED
        BY <1>3, <2>1 DEF Quiet, Moved
<1>4. CASE Begin(p, m)
    <2>1. "started" \notin Holding
        BY DEF Holding
    <2>2. QED
        BY <1>1, <1>2, <1>4, <2>1, HandlerMoves
<1>5. CASE Refuse(p, m)
    BY <1>2, <1>5, HandlerMoves
<1>6. CASE AcquireResource(p, m)
    BY <1>2, <1>3, <1>6, HandlerMoves
<1>7. CASE ThrowsOnNull(p, m)
    <2>1. Cleared(p, m)
        BY <1>7, HandlerMoves
    <2>2. \A r \in Procs, n \in Messages :
              stage'[r][n] = "none" \/ stage'[r][n] = stage[r][n]
        BY <2>1 DEF Cleared
    <2>3. QED
        BY <2>2 DEF Quiet, Holding
<1>8. CASE ~(Begin(p, m) \/ Refuse(p, m) \/ AcquireResource(p, m) \/ ThrowsOnNull(p, m))
    <2>1. PICK from \in Holding : \E to \in Stage : Moved(p, m, from, to)
        <3>1. \/ Acquired(p, m) \/ DeleteFirst(p, m) \/ DeleteLast(p, m) \/ DeleteFails(p, m)
              \/ HandlerSucceeds(p, m) \/ HandlerFails(p, m) \/ ReleaseResource(p, m)
            BY <1>8 DEF HandlerStep
        <3>2. QED
            BY <3>1, HandlerMoves DEF Holding, Stage, AfterHandler
    <2>2. QED
        BY <1>1, <2>1
<1>9. QED
    BY <1>4, <1>5, <1>6, <1>7, <1>8

LEMMA StepCalm ==
    ASSUME Types, AllHeld, StopLeavesTerminated, Calm, [Next]_vars
    PROVE  Calm'
<1> SUFFICES ASSUME LateCalls = {}
             PROVE  Calm'
    BY DEF Calm
<1>0. \A q \in Procs, c \in Calls : call[q][c] \in {"draining", "done"} => IsTerminated(q)
    BY DEF StopLeavesTerminated
<1>1. ASSUME call' = call, draining \subseteq draining',
             \A q \in Procs : Quiet(q) /\ IsTerminated(q) => Quiet(q)'
      PROVE  Calm'
    BY <1>0, <1>1 DEF Calm
<1>2. ASSUME call' = call, draining' = draining, stage' = stage
      PROVE  Calm'
    BY <1>1, <1>2 DEF Quiet
<1>3. ASSUME NEW p \in Procs, LoopStep(p)
      PROVE  Calm'
    BY <1>2, <1>3, LoopEffect DEF pvars
<1>4. ASSUME NEW p \in Procs, NEW t \in Topics, ReceiveAny(p, t)
      PROVE  Calm'
    <2>1. call' = call /\ draining' = draining
        BY <1>4, ReceiveEffect DEF mvars, pvars
    <2>2. \A q \in Procs, n \in Messages :
              stage'[q][n] = stage[q][n] \/ stage'[q][n] \notin Holding
        BY <1>4, ReceiveEffect DEF Arrived, Unbegun, Holding
    <2>3. QED
        BY <1>1, <2>1, <2>2 DEF Quiet
<1>5. ASSUME NEW p \in Procs, NEW m \in Messages, HandlerStep(p, m)
      PROVE  Calm'
    <2>1. call' = call
        BY <1>5, HandlerMoves DEF mvars
    <2>2. draining' = draining
        <3>1. UNCHANGED pvars \/ Acquire(p, m) \/ Release(p, m) \/ Leak(p, m)
            BY <1>5, HandlerMoves DEF HandlerStep, Begin, Refuse, Acquired, ThrowsOnNull, DeleteFirst, DeleteLast,
                   DeleteFails, HandlerSucceeds, HandlerFails, ReleaseResource
        <3>2. QED
            BY <3>1 DEF pvars, Acquire, Release, Leak
    <2>3. QED
        BY <1>1, <1>5, <2>1, <2>2, QuietStays
<1>6. ASSUME NEW p \in Procs, Crash(p)
      PROVE  Calm'
    <2>1. call' = call /\ draining' = draining
        BY <1>6, CrashEffect DEF mvars
    <2>2. \A q \in Procs : Quiet(q) => Quiet(q)'
        BY <1>6, CrashEffect DEF Quiet, Holding
    <2>3. QED
        BY <1>1, <2>1, <2>2
<1>7. ASSUME NEW m \in Messages, Reappear(m)
      PROVE  Calm'
    BY <1>2, <1>7, ReappearEffect DEF mvars, pvars
<1>8. ASSUME NEW p \in Procs, Lifecycle(p)
      PROVE  Calm'
    <2>1. /\ UNCHANGED <<stage, lent, leaked, line>> /\ draining \subseteq draining'
          /\ PoolManagerStep(p)
        BY <1>8, LifecycleEffect DEF svars, Lifecycle
    <2>2. \A q \in Procs : Quiet(q)' <=> Quiet(q)
        BY <2>1 DEF Quiet
    <2>3. \A q \in Procs : ~(Out(q) > 0) => Quiet(q)
        <3> SUFFICES ASSUME NEW q \in Procs, ~(Out(q) > 0), NEW m \in Messages
                     PROVE  stage[q][m] \notin Holding
            BY DEF Quiet
        <3>1. Held(q)
            BY DEF AllHeld
        <3>2. /\ PoolMax \in Nat \ {0} /\ leaked[q] \in Nat
              /\ IsFiniteSet(lent[q]) /\ Cardinality(lent[q]) \in Nat
            BY <3>1, FS_CardinalityType, PoolAssumption DEF Held, Types, PTypeOK
        <3>6. Out(q) # PoolMax /\ Cardinality(lent[q]) = 0
            BY <3>2 DEF Out
        <3>3. line[q] = <<>> /\ lent[q] = {}
            BY <3>1, <3>2, <3>6, FS_EmptySet DEF Held
        <3>4. ~InLine(q, m)
            BY <3>3 DEF InLine
        <3>5. QED
            BY <3>1, <3>3, <3>4 DEF Held
    <2>4. p \in Neighbours(p)
        BY DEF Neighbours
    <2>5. CASE call' = call
        BY <1>1, <2>1, <2>2, <2>5
    <2>6. ASSUME NEW c \in Calls, Stop(p, c)
          PROVE  Calm'
        <3>1. \A q \in Procs, d \in Calls : call'[q][d] = call[q][d] \/ call'[q][d] = "waiting"
            BY <2>6 DEF Stop, Types, MTypeOK
        <3>2. QED
            BY <2>1, <2>2, <3>1 DEF Calm
    <2>7. ASSUME NEW c \in Calls, ForceTerminate(p, c) \/ ShutdownSeen(p, c), DrainPools(p)
          PROVE  Calm'
        <3>1. \A q \in Procs, d \in Calls :
                  call'[q][d] = call[q][d] \/ (q = p /\ call'[q][d] = "draining")
            BY <2>7 DEF ForceTerminate, ShutdownSeen, Types, MTypeOK
        <3>2. p \in draining' \/ Quiet(p)
            BY <2>3, <2>4, <2>7 DEF DrainPools
        <3>3. QED
            BY <2>1, <2>2, <3>1, <3>2 DEF Calm
    <2>8. ASSUME NEW c \in Calls, FinishStop(p, c), Drained(p)
          PROVE  Calm'
        <3>1. /\ call[p][c] = "draining"
              /\ \A q \in Procs, d \in Calls :
                    call'[q][d] = call[q][d] \/ (q = p /\ call'[q][d] = "done")
            BY <2>8 DEF FinishStop, Types, MTypeOK
        <3>2. Quiet(p)
            BY <2>3, <2>4, <2>8, <3>1 DEF Calm, Drained
        <3>3. QED
            BY <2>1, <2>2, <3>1, <3>2 DEF Calm
    <2>9. QED
        BY <2>1, <2>5, <2>6, <2>7, <2>8 DEF PoolManagerStep, PoolShutdownStep, AppCall, Pause, Resume,
               RunnerStop, SetState, ShutdownWait
<1>9. QED
    BY <1>2, <1>3, <1>4, <1>5, <1>6, <1>7, <1>8, Steps DEF vars, svars, mvars, pvars

(* Once stop() has returned no handler of the instance runs, stray or not,  *)
(* whatever other instances of the Node process do, and whichever of the    *)
(* overlapping stop() calls drained the pools, as long as the application   *)
(* is quiet after stop() (_drainAndClearPools).                             *)
THEOREM StopIsQuiet == SafeSpec => []NoHandlerAfterStop
<1>1. Init => Calm
    BY DEF Init, MInit, Calm
<1>2. Types /\ Calm => NoHandlerAfterStop
    BY DEF Types, Calm, Quiet, Holding, Stage, NoHandlerAfterStop
<1>3. SafeSpec => []StopLeavesTerminated
    BY ImplementsManager, StopTerminates, PTL
<1>4. QED
    BY <1>1, <1>2, <1>3, StepCalm, AlwaysTypes, AlwaysHeld, PTL DEF SafeSpec
=============================================================================
