------------------------------ MODULE SqsRunner ------------------------------
(***************************************************************************)
(* The SQS consumer (packages/steveo/src/consumers/sqs.ts): instances that  *)
(* poll the queues of their topics, and run the handlers of the messages    *)
(* they receive over a pool of resources.                                   *)
(*                                                                         *)
(* One poll: every topic is asked for a batch (its lane), the messages of a *)
(* batch are handled, at most PoolMax at a time, and when all lanes are     *)
(* done the timer is armed again.  receive() rejects as soon as one element *)
(* of the batch throws: what was not begun is dropped, and what is running  *)
(* goes on behind the back of the loop (stray).                             *)
(*                                                                         *)
(* External, as the runner uses it: SQS.  A received message is invisible   *)
(* until it is deleted or its visibility timeout has passed, which may be   *)
(* while its handler still runs; a deletion with the receipt of an earlier  *)
(* delivery succeeds but may have no effect.                                *)
(***************************************************************************)
EXTENDS ConsumerPool

CONSTANTS
    Topics,        \* the topics that have a task
    TopicOf,       \* the topic of every message
    Malformed,     \* the messages that are no JSON
    Null,          \* those that may turn out to hold the JSON null
    WaitToCommit,  \* the topics of which waitToCommit holds
    BatchMax,      \* maxNumberOfMessages
    Faults,        \* the kinds of fault that may happen
    MaxFaults,     \* bound: how many happen
    Visible,       \* the queue's state of a message: it can be received,
    Deleted        \* or it is gone; else, the instance that received it last

Messages == Clients
FaultKind == {"crash", "timeout", "delete", "handler"}

ASSUME SqsAssumption ==
    /\ BatchMax \in Nat \ {0} /\ MaxFaults \in Nat
    /\ TopicOf \in [Messages -> Topics]
    /\ Malformed \subseteq Messages /\ Null \subseteq Messages \ Malformed
    /\ WaitToCommit \subseteq Topics
    /\ Faults \subseteq FaultKind
    /\ Visible # Deleted /\ Visible \notin Procs /\ Deleted \notin Procs

VARIABLES
    null,     \* the messages whose body is the JSON null
    loop,     \* where the poll loop of every instance stands
    lane,     \* how far the current poll is with every topic
    stage,    \* how far every instance is with every message
    stray,    \* the handlers of a batch that has been rejected meanwhile
    queue,    \* every message in SQS
    handled,  \* the messages some handler has succeeded with
    starts,   \* how often the handler of every message was started
    faults    \* the faults so far

svars == <<null, loop, lane, stage, stray, queue, handled, starts, faults>>
vars == <<mvars, pvars, svars>>

LoopState == {"waiting", "polling", "ended", "crashed"}
LaneState == {"todo", "fetching", "receiving", "done"}
Stage == {"none", "listed", "started", "acquiring", "deleting", "handling", "committing",
          "releasing"}

TypeOK ==
    /\ MTypeOK
    /\ PTypeOK
    /\ null \subseteq Null
    /\ loop \in [Procs -> LoopState]
    /\ lane \in [Procs -> [Topics -> LaneState]]
    /\ stage \in [Procs -> [Messages -> Stage]]
    /\ stray \in [Procs -> SUBSET Messages]
    /\ queue \in [Messages -> Procs \cup {Visible, Deleted}]
    /\ handled \subseteq Messages
    /\ starts \in [Messages -> 0 .. MaxFaults + 1]
    /\ faults \in 0 .. MaxFaults

Init ==
    /\ MInit
    /\ PInit
    /\ null \in SUBSET Null
    /\ loop = [p \in Procs |-> "waiting"]
    /\ lane = [p \in Procs |-> [t \in Topics |-> "done"]]
    /\ stage = [p \in Procs |-> [m \in Messages |-> "none"]]
    /\ stray = [p \in Procs |-> {}]
    /\ queue = [m \in Messages |-> Visible]
    /\ handled = {}
    /\ starts = [m \in Messages |-> 0]
    /\ faults = 0

OfTopic(t) == {m \in Messages : TopicOf[m] = t}
Fault(kind) == kind \in Faults /\ faults < MaxFaults /\ faults' = faults + 1

\* The elements of the batch in the lane: those not begun, those begun.
Listed(p, t) == {m \in OfTopic(t) : stage[p][m] = "listed"}
Begun(p, t) == {m \in OfTopic(t) \ stray[p] : stage[p][m] \notin {"none", "listed"}}

-----------------------------------------------------------------------------
(* poll() and process().  A timer that fires while the instance is paused   *)
(* is only armed again.                                                     *)

TimerFires(p) ==
    /\ loop[p] = "waiting"
    /\ state[p] # "paused"
    /\ ~ShouldTerminate(p)
    /\ loop' = [loop EXCEPT ![p] = "polling"]
    /\ lane' = [lane EXCEPT ![p] = [t \in Topics |-> "todo"]]
    /\ UNCHANGED <<mvars, null, pvars, stage, stray, queue, handled, starts, faults>>

LanesDone(p) == loop[p] = "polling" /\ \A t \in Topics : lane[p][t] = "done"

PollTerminates(p) ==
    /\ loop[p] = "waiting" \/ LanesDone(p)
    /\ Terminate(p)
    /\ loop' = [loop EXCEPT ![p] = "ended"]
    /\ UNCHANGED <<pvars, null, lane, stage, stray, queue, handled, starts, faults>>

\* Seeded fault: the timer is not armed again.
PollAgain_NoRearm(p) ==
    /\ LanesDone(p)
    /\ ~ShouldTerminate(p)
    /\ loop' = [loop EXCEPT ![p] = "ended"]
    /\ UNCHANGED <<mvars, null, pvars, lane, stage, stray, queue, handled, starts, faults>>

PollAgain(p) ==
    /\ LanesDone(p)
    /\ ~ShouldTerminate(p)
    /\ loop' = [loop EXCEPT ![p] = "waiting"]
    /\ UNCHANGED <<mvars, null, pvars, lane, stage, stray, queue, handled, starts, faults>>

\* The turn of a topic comes; it is left out when the instance should stop.
EnterLane(p, t) ==
    /\ loop[p] = "polling"
    /\ lane[p][t] = "todo"
    /\ Cardinality({u \in Topics : lane[p][u] \in {"fetching", "receiving"}}) < PoolMax
    /\ lane' = [lane EXCEPT ![p][t] = IF ShouldTerminate(p) THEN "done" ELSE "fetching"]
    /\ UNCHANGED <<mvars, null, pvars, loop, stage, stray, queue, handled, starts, faults>>

\* No URL of the queue, a failing receiveMessage(), or no message.
ReceiveNothing(p, t) ==
    /\ loop[p] = "polling"
    /\ lane[p][t] = "fetching"
    /\ lane' = [lane EXCEPT ![p][t] = "done"]
    /\ UNCHANGED <<mvars, null, pvars, loop, stage, stray, queue, handled, starts, faults>>

\* What SQS may give.  (An instance is not given a message again that it has in
\* its hands.)
Available(p, t) == {m \in OfTopic(t) : queue[m] = Visible /\ stage[p][m] = "none"}

\* A batch arrives and its first elements are begun, all in one go.  When one
\* of them cannot be parsed the batch is rejected, and the others are stray.
Receive(p, t, batch, first) ==
    /\ loop[p] = "polling"
    /\ lane[p][t] = "fetching"
    /\ batch \subseteq Available(p, t)
    /\ Cardinality(batch) \in 1 .. BatchMax
    /\ first \subseteq batch
    /\ Cardinality(first) = PoolMax \/ (Cardinality(first) < PoolMax /\ first = batch)
    /\ queue' = [m \in Messages |-> IF m \in batch THEN p ELSE queue[m]]
    /\ LET rejected == first \cap Malformed # {}
           begun == first \ Malformed
       IN  /\ lane' = [lane EXCEPT ![p][t] = IF rejected THEN "done" ELSE "receiving"]
           /\ stray' = [stray EXCEPT ![p] = IF rejected THEN @ \cup begun ELSE @]
           /\ stage' = [stage EXCEPT ![p] =
                 [m \in Messages |-> IF m \in begun THEN "started"
                                     ELSE IF m \in batch /\ ~rejected THEN "listed"
                                     ELSE stage[p][m]]]
    /\ UNCHANGED <<mvars, null, pvars, loop, handled, starts, faults>>

LaneEnds(p, t) ==
    /\ lane[p][t] = "receiving"
    /\ Listed(p, t) \cup Begun(p, t) = {}
    /\ lane' = [lane EXCEPT ![p][t] = "done"]
    /\ UNCHANGED <<mvars, null, pvars, loop, stage, stray, queue, handled, starts, faults>>

-----------------------------------------------------------------------------
(* receive() and processMessage(), for one message.                         *)

\* The handler of m throws out of receive(): the lane is done, what was not
\* begun is dropped, the rest is stray.
Reject(p, m) ==
    LET t == TopicOf[m] IN
    IF m \in stray[p]
    THEN /\ stray' = [stray EXCEPT ![p] = @ \ {m}]
         /\ stage' = [stage EXCEPT ![p][m] = "none"]
         /\ UNCHANGED lane
    ELSE /\ stray' = [stray EXCEPT ![p] = @ \cup (Begun(p, t) \ {m})]
         /\ stage' = [stage EXCEPT ![p] =
               [n \in Messages |-> IF n \in Listed(p, t) \cup {m} THEN "none" ELSE stage[p][n]]]
         /\ lane' = [lane EXCEPT ![p][t] = "done"]

\* The next element of the batch is begun when another one has ended.
Begin(p, m) ==
    /\ stage[p][m] = "listed"
    /\ Cardinality(Begun(p, TopicOf[m])) < PoolMax
    /\ IF m \in Malformed
       THEN Reject(p, m)
       ELSE /\ stage' = [stage EXCEPT ![p][m] = "started"]
            /\ UNCHANGED <<lane, stray>>
    /\ UNCHANGED <<mvars, null, pvars, loop, queue, handled, starts, faults>>

\* The handler of m ends.
Ended(p, m) ==
    /\ stage' = [stage EXCEPT ![p][m] = "none"]
    /\ stray' = [stray EXCEPT ![p] = @ \ {m}]

\* The instance should terminate: the message is left alone.
Refuse(p, m) ==
    /\ stage[p][m] = "started"
    /\ ShouldTerminate(p)
    /\ Ended(p, m)
    /\ UNCHANGED <<mvars, null, pvars, loop, lane, queue, handled, starts, faults>>

AcquireResource(p, m) ==
    /\ stage[p][m] = "started"
    /\ ~ShouldTerminate(p)
    /\ IF MayAcquire(p)
       THEN /\ Acquire(p, m)
            /\ stage' = [stage EXCEPT ![p][m] = "acquiring"]
            /\ UNCHANGED <<lane, stray>>
       ELSE Reject(p, m) /\ UNCHANGED pvars
    /\ UNCHANGED <<mvars, null, loop, queue, handled, starts, faults>>

\* task.subscribe() is called for m.
Started(m) == starts' = [starts EXCEPT ![m] = @ + 1]

\* The resource is there: with waitToCommit the handler is called at once.
Acquired(p, m) ==
    /\ stage[p][m] = "acquiring"
    /\ m \in lent[p] /\ m \notin null
    /\ IF TopicOf[m] \in WaitToCommit
       THEN stage' = [stage EXCEPT ![p][m] = "handling"] /\ Started(m)
       ELSE stage' = [stage EXCEPT ![p][m] = "deleting"] /\ UNCHANGED starts
    /\ UNCHANGED <<mvars, null, pvars, loop, lane, stray, queue, handled, faults>>

\* The payload is null, and is taken apart between acquire() and the try: it
\* throws out of receive(), and the resource is never given back.
ThrowsOnNull(p, m) ==
    /\ stage[p][m] = "acquiring"
    /\ m \in lent[p] /\ m \in null
    /\ Leak(p, m)
    /\ Reject(p, m)
    /\ UNCHANGED <<mvars, null, loop, queue, handled, starts, faults>>

\* deleteMessage() reaches SQS; with an old receipt it may have no effect.
Removed(p, m) ==
    \/ queue' = [queue EXCEPT ![m] = Deleted]
    \/ queue[m] # p /\ UNCHANGED queue

DeleteFirst(p, m) ==
    /\ stage[p][m] = "deleting"
    /\ Removed(p, m)
    /\ stage' = [stage EXCEPT ![p][m] = "handling"]
    /\ Started(m)
    /\ UNCHANGED <<mvars, null, pvars, loop, lane, stray, handled, faults>>

DeleteLast(p, m) ==
    /\ stage[p][m] = "committing"
    /\ Removed(p, m)
    /\ stage' = [stage EXCEPT ![p][m] = "releasing"]
    /\ UNCHANGED <<mvars, null, pvars, loop, lane, stray, handled, starts, faults>>

\* The deletion throws, whether or not it has reached SQS.
DeleteFails(p, m) ==
    /\ stage[p][m] \in {"deleting", "committing"}
    /\ Fault("delete")
    /\ Removed(p, m) \/ UNCHANGED queue
    /\ stage' = [stage EXCEPT ![p][m] = "releasing"]
    /\ UNCHANGED <<mvars, null, pvars, loop, lane, stray, handled, starts>>

\* Seeded fault: with waitToCommit the message is never deleted.
AfterHandler_Uncommitted(m) == "releasing"

AfterHandler(m) == IF TopicOf[m] \in WaitToCommit THEN "committing" ELSE "releasing"

HandlerSucceeds(p, m) ==
    /\ stage[p][m] = "handling"
    /\ handled' = handled \cup {m}
    /\ stage' = [stage EXCEPT ![p][m] = AfterHandler(m)]
    /\ UNCHANGED <<mvars, null, pvars, loop, lane, stray, queue, starts, faults>>

\* Seeded fault: the message of a failed handler is deleted too.
HandlerFails_Committed(p, m) ==
    /\ stage[p][m] = "handling"
    /\ Fault("handler")
    /\ stage' = [stage EXCEPT ![p][m] = AfterHandler(m)]
    /\ UNCHANGED <<mvars, null, pvars, loop, lane, stray, queue, handled, starts>>

HandlerFails(p, m) ==
    /\ stage[p][m] = "handling"
    /\ Fault("handler")
    /\ stage' = [stage EXCEPT ![p][m] = "releasing"]
    /\ UNCHANGED <<mvars, null, pvars, loop, lane, stray, queue, handled, starts>>

\* Seeded fault: the handler ends without a release.
ReleaseResource_Kept(p, m) ==
    /\ stage[p][m] = "releasing"
    /\ Ended(p, m)
    /\ UNCHANGED <<mvars, null, pvars, loop, lane, queue, handled, starts, faults>>

ReleaseResource(p, m) ==
    /\ stage[p][m] = "releasing"
    /\ Release(p, m)
    /\ Ended(p, m)
    /\ UNCHANGED <<mvars, null, loop, lane, queue, handled, starts, faults>>

-----------------------------------------------------------------------------
(* SQS, and crashes.                                                        *)

\* The visibility timeout of m passes: nobody works on it, or too slowly.
Reappear(m) ==
    /\ queue[m] \in Procs
    /\ IF stage[queue[m]][m] = "none" THEN UNCHANGED faults ELSE Fault("timeout")
    /\ queue' = [queue EXCEPT ![m] = Visible]
    /\ UNCHANGED <<mvars, null, pvars, loop, lane, stage, stray, handled, starts>>

\* The Node process of p dies, with all its instances.
Crash(p) ==
    /\ loop[p] # "crashed"
    /\ Fault("crash")
    /\ LET dead == Neighbours(p) IN
       /\ loop' = [q \in Procs |-> IF q \in dead THEN "crashed" ELSE loop[q]]
       /\ lane' = [q \in Procs |-> IF q \in dead THEN [t \in Topics |-> "done"] ELSE lane[q]]
       /\ stage' = [q \in Procs |-> IF q \in dead THEN [m \in Messages |-> "none"] ELSE stage[q]]
       /\ stray' = [q \in Procs |-> IF q \in dead THEN {} ELSE stray[q]]
       /\ Forget(dead)
    /\ UNCHANGED <<mvars, null, queue, handled, starts>>

-----------------------------------------------------------------------------
PollStep(p) == TimerFires(p) \/ PollTerminates(p) \/ PollAgain(p)

ReceiveAny(p, t) ==
    /\ lane[p][t] = "fetching"
    /\ \E batch \in SUBSET Available(p, t) : \E first \in SUBSET batch :
          Receive(p, t, batch, first)

\* m is among the messages that are begun at once.
ReceiveFirst(p, m) ==
    /\ lane[p][TopicOf[m]] = "fetching"
    /\ \E batch \in SUBSET Available(p, TopicOf[m]) : \E first \in SUBSET batch :
          m \in first /\ Receive(p, TopicOf[m], batch, first)

LaneStep(p, t) == EnterLane(p, t) \/ ReceiveNothing(p, t) \/ ReceiveAny(p, t) \/ LaneEnds(p, t)

HandlerStep(p, m) ==
    \/ Begin(p, m) \/ Refuse(p, m) \/ AcquireResource(p, m) \/ Acquired(p, m)
    \/ ThrowsOnNull(p, m) \/ DeleteFirst(p, m) \/ DeleteLast(p, m) \/ DeleteFails(p, m)
    \/ HandlerSucceeds(p, m) \/ HandlerFails(p, m) \/ ReleaseResource(p, m)

Lifecycle(p) == loop[p] # "crashed" /\ PoolManagerStep(p) /\ UNCHANGED svars

Next ==
    \/ \E p \in Procs :
          \/ PollStep(p)
          \/ \E t \in Topics : LaneStep(p, t)
          \/ \E m \in Messages : HandlerStep(p, m)
          \/ Lifecycle(p)
          \/ Crash(p)
    \/ \E m \in Messages : Reappear(m)

SafeSpec == Init /\ [][Next]_vars

\* A stop() call goes on ticking.
ShutdownTicks(p) ==
    /\ loop[p] # "crashed"
    /\ \E c \in Calls : PoolShutdownStep(p, c)
    /\ UNCHANGED svars

\* Timers fire, calls of SQS answer, handlers end, a message nobody works on
\* reappears.  SQS gives a visible message in the end to those who ask, and
\* not always behind others in the batch.
Fairness ==
    /\ \A p \in Procs :
          /\ WF_vars(PollStep(p))
          /\ WF_vars(ShutdownTicks(p))
          /\ \A t \in Topics : WF_vars(LaneStep(p, t))
          /\ \A m \in Messages : WF_vars(HandlerStep(p, m)) /\ SF_vars(ReceiveFirst(p, m))
    /\ \A m \in Messages : WF_vars(Reappear(m) /\ UNCHANGED faults)

Spec == SafeSpec /\ Fairness

-----------------------------------------------------------------------------
(* With waitToCommit a message is deleted only after a handler has          *)
(* succeeded with it; without, a message is deleted and never handled only  *)
(* by a fault in between (processMessage, deleteMessage), whatever overlaps,*)
(* is rejected, stopped or drained.                                         *)
NothingLost ==
    \A m \in Messages : queue[m] = Deleted =>
        IF TopicOf[m] \in WaitToCommit THEN m \in handled
        ELSE starts[m] > 0 \/ faults > 0

(* A handler is called again for a message only after a fault: a slow or    *)
(* failed handler, a failed deletion, a crash (receive, processMessage);    *)
(* neither a rejected batch, nor a termination or a drained pool, lets a    *)
(* message be handled twice.                                                *)
RepeatedOnlyByFaults == \A m \in Messages : starts[m] <= 1 + faults

(* A resource is held by a handler between acquire() and release(), or it   *)
(* was lost to a null payload and to nothing else; a pool never lends more  *)
(* than it has, and a handler waits only while all are lent or lost         *)
(* (processMessage, its finally).                                           *)
ResourcesHeld ==
    /\ PoolSound
    /\ \A p \in Procs :
          /\ lent[p] \subseteq
                {m \in Messages : stage[p][m] \notin {"none", "listed", "started"}}
          /\ leaked[p] > 0 => null # {}

(* Once stop() has returned no handler runs, not even a stray one, in any   *)
(* instance of the Node process that is stopped too; as long as the         *)
(* application calls nothing after stop() (_drainAndClearPools).            *)
NoHandlerAfterStop ==
    LateCalls = {} =>
        \A p \in Procs, m \in Messages :
            (\E c \in Calls : call[p][c] = "done") =>
                stage[p][m] \in {"none", "listed", "started"}

(* Every message that can be parsed and is not null is dealt with in the    *)
(* end, next to malformed ones, slow and failing handlers, failing          *)
(* deletions and crashes; unless null payloads, which come back for ever,   *)
(* have cost an instance all of its resources (poll, process, receive).     *)
EveryMessageDeleted ==
    \A m \in Messages \ Malformed :
        <>(queue[m] = Deleted \/ m \in null \/ \E p \in Procs : leaked[p] = PoolMax)

(* stop() returns although it waits for the handlers; unless it drains a    *)
(* pool that has lost a resource to a null payload (_drainAndClearPools).   *)
StopAlwaysReturns ==
    \A p \in Procs, c \in Calls :
        call[p][c] = "waiting" ~>
            \/ call[p][c] = "done" \/ loop[p] = "crashed"
            \/ \E q \in Neighbours(p) \cap draining : leaked[q] > 0
=============================================================================
