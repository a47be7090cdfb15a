----------------------------- MODULE RedisRunner -----------------------------
(***************************************************************************)
(* The Redis consumer (packages/steveo/src/consumers/redis.ts): instances   *)
(* that poll their topics for one message each, delete it, and run its      *)
(* handler over a pool of resources.                                        *)
(*                                                                         *)
(* It differs from the SQS consumer where it matters: receive() catches     *)
(* everything and waits for all of a poll; the state is read only in        *)
(* poll(), so that a terminating instance may poll once more; a message is  *)
(* always deleted before its handler; and a failing receiveMessage() is not *)
(* caught, so that the poll ends without arming the timer again.            *)
(*                                                                         *)
(* External, as the runner uses it: rsmq.  A received message is invisible  *)
(* until it is deleted, by its id, or its visibility timeout has passed.    *)
(***************************************************************************)
EXTENDS ConsumerPool

CONSTANTS
    Topics,     \* the topics that have a task
    TopicOf,    \* the topic of every message
    Malformed,  \* the messages that are no JSON
    Faults,     \* the kinds of fault that may happen
    MaxFaults,  \* bound: how many happen
    Visible,    \* the queue's state of a message: it can be received,
    Deleted     \* or it is gone; else, the instance that received it last

Messages == Clients
FaultKind == {"crash", "timeout", "receive", "delete"}

ASSUME RedisAssumption ==
    /\ MaxFaults \in Nat
    /\ TopicOf \in [Messages -> Topics]
    /\ Malformed \subseteq Messages
    /\ Faults \subseteq FaultKind
    /\ Visible # Deleted /\ Visible \notin Procs /\ Deleted \notin Procs

VARIABLES
    loop,    \* where the poll loop of every instance stands
    lane,    \* how far the current poll is with every topic
    stage,   \* how far every instance is with every message
    queue,   \* every message in Redis
    starts,  \* how often the handler of every message was started
    faults   \* the faults so far

rvars == <<loop, lane, stage, queue, starts, faults>>
vars == <<mvars, pvars, rvars>>

\* An ended loop has quit its connection; a broken one has lost its poll to an
\* error nobody catches.
LoopState == {"waiting", "polling", "ended", "broken", "crashed"}
LaneState == {"todo", "fetching", "receiving", "done"}
Stage == {"none", "started", "acquiring", "deleting", "handling", "releasing"}

TypeOK ==
    /\ MTypeOK
    /\ PTypeOK
    /\ loop \in [Procs -> LoopState]
    /\ lane \in [Procs -> [Topics -> LaneState]]
    /\ stage \in [Procs -> [Messages -> Stage]]
    /\ queue \in [Messages -> Procs \cup {Visible, Deleted}]
    /\ starts \in [Messages -> 0 .. MaxFaults + 1]
    /\ faults \in 0 .. MaxFaults

Init ==
    /\ MInit
    /\ PInit
    /\ loop = [p \in Procs |-> "waiting"]
    /\ lane = [p \in Procs |-> [t \in Topics |-> "done"]]
    /\ stage = [p \in Procs |-> [m \in Messages |-> "none"]]
    /\ queue = [m \in Messages |-> Visible]
    /\ starts = [m \in Messages |-> 0]
    /\ faults = 0

OfTopic(t) == {m \in Messages : TopicOf[m] = t}
Fault(kind) == kind \in Faults /\ faults < MaxFaults /\ faults' = faults + 1

SetStage(p, m, s) == stage' = [stage EXCEPT ![p][m] = s]
SetLane(p, t, s) == lane' = [lane EXCEPT ![p][t] = s]

-----------------------------------------------------------------------------
(* poll() and process().                                                    *)

\* Only a paused instance does not poll: a terminating one still does.  When
\* it is paused the timer is only armed again.
TimerFires(p) ==
    /\ loop[p] = "waiting"
    /\ state[p] # "paused"
    /\ loop' = [loop EXCEPT ![p] = "polling"]
    /\ lane' = [lane EXCEPT ![p] = [t \in Topics |-> "todo"]]
    /\ UNCHANGED <<mvars, pvars, stage, queue, starts, faults>>

LanesDone(p) == loop[p] = "polling" /\ \A t \in Topics : lane[p][t] = "done"

\* Seeded fault: the loop ends although its topics are not done.
PollTerminates_AtOnce(p) ==
    /\ loop[p] = "polling"
    /\ Terminate(p)
    /\ loop' = [loop EXCEPT ![p] = "ended"]
    /\ UNCHANGED <<pvars, lane, stage, queue, starts, faults>>

\* manager.terminate(), and redis.quit().
PollTerminates(p) ==
    /\ LanesDone(p)
    /\ Terminate(p)
    /\ loop' = [loop EXCEPT ![p] = "ended"]
    /\ UNCHANGED <<pvars, lane, stage, queue, starts, faults>>

PollAgain(p) ==
    /\ LanesDone(p)
    /\ ~ShouldTerminate(p)
    /\ loop' = [loop EXCEPT ![p] = "waiting"]
    /\ UNCHANGED <<mvars, pvars, lane, stage, queue, starts, faults>>

EnterLane(p, t) ==
    /\ loop[p] = "polling"
    /\ lane[p][t] = "todo"
    /\ Cardinality({u \in Topics : lane[p][u] \in {"fetching", "receiving"}}) < PoolMax
    /\ SetLane(p, t, "fetching")
    /\ UNCHANGED <<mvars, pvars, loop, stage, queue, starts, faults>>

ReceiveNothing(p, t) ==
    /\ lane[p][t] = "fetching"
    /\ SetLane(p, t, "done")
    /\ UNCHANGED <<mvars, pvars, loop, stage, queue, starts, faults>>

\* receiveMessage() throws: process() rejects, and what the other topics have
\* begun goes on without it (or Node ends over the unhandled rejection: Crash).
ReceiveFails(p, t) ==
    /\ lane[p][t] = "fetching"
    /\ Fault("receive")
    /\ SetLane(p, t, "done")
    /\ loop' = [loop EXCEPT ![p] = IF @ = "polling" THEN "broken" ELSE @]
    /\ UNCHANGED <<mvars, pvars, stage, queue, starts>>

\* (An instance is not given a message again that it has in its hands.)
Receive(p, t, m) ==
    /\ lane[p][t] = "fetching"
    /\ TopicOf[m] = t
    /\ queue[m] = Visible
    /\ stage[p][m] = "none"
    /\ queue' = [queue EXCEPT ![m] = p]
    /\ SetStage(p, m, "started")
    /\ SetLane(p, t, "receiving")
    /\ UNCHANGED <<mvars, pvars, loop, starts, faults>>

-----------------------------------------------------------------------------
(* receive(), for its one message.                                          *)

\* acquire() is inside of the try: when the pool drains the message is left.
AcquireResource(p, m) ==
    /\ stage[p][m] = "started"
    /\ IF MayAcquire(p)
       THEN /\ Acquire(p, m)
            /\ SetStage(p, m, "acquiring")
            /\ UNCHANGED lane
       ELSE /\ SetStage(p, m, "none")
            /\ SetLane(p, TopicOf[m], "done")
            /\ UNCHANGED pvars
    /\ UNCHANGED <<mvars, loop, queue, starts, faults>>

\* Seeded fault: the message is deleted before it is parsed.
Acquired_Unparsed(p, m) ==
    /\ stage[p][m] = "acquiring"
    /\ m \in lent[p]
    /\ IF m \in Malformed
       THEN SetStage(p, m, "releasing") /\ queue' = [queue EXCEPT ![m] = Deleted]
       ELSE SetStage(p, m, "deleting") /\ UNCHANGED queue
    /\ UNCHANGED <<mvars, pvars, loop, lane, starts, faults>>

\* The resource is there, and the message is parsed.
Acquired(p, m) ==
    /\ stage[p][m] = "acquiring"
    /\ m \in lent[p]
    /\ SetStage(p, m, IF m \in Malformed THEN "releasing" ELSE "deleting")
    /\ UNCHANGED <<mvars, pvars, loop, lane, queue, starts, faults>>

Delete(p, m) ==
    /\ stage[p][m] = "deleting"
    /\ queue' = [queue EXCEPT ![m] = Deleted]
    /\ starts' = [starts EXCEPT ![m] = @ + 1]
    /\ SetStage(p, m, "handling")
    /\ UNCHANGED <<mvars, pvars, loop, lane, faults>>

\* The deletion throws, whether or not it has reached Redis.
DeleteFails(p, m) ==
    /\ stage[p][m] = "deleting"
    /\ Fault("delete")
    /\ queue' = [queue EXCEPT ![m] = Deleted] \/ UNCHANGED queue
    /\ SetStage(p, m, "releasing")
    /\ UNCHANGED <<mvars, pvars, loop, lane, starts>>

\* task.subscribe() returns, or throws, which is caught.
HandlerEnds(p, m) ==
    /\ stage[p][m] = "handling"
    /\ SetStage(p, m, "releasing")
    /\ UNCHANGED <<mvars, pvars, loop, lane, queue, starts, faults>>

\* Seeded fault: the handler ends without a release.
ReleaseResource_Kept(p, m) ==
    /\ stage[p][m] = "releasing"
    /\ SetStage(p, m, "none")
    /\ SetLane(p, TopicOf[m], "done")
    /\ UNCHANGED <<mvars, pvars, loop, queue, starts, faults>>

ReleaseResource(p, m) ==
    /\ stage[p][m] = "releasing"
    /\ Release(p, m)
    /\ SetStage(p, m, "none")
    /\ SetLane(p, TopicOf[m], "done")
    /\ UNCHANGED <<mvars, loop, queue, starts, faults>>

-----------------------------------------------------------------------------
(* Redis, and crashes.                                                      *)

\* The visibility timeout of m passes: nobody works on it, or too slowly.
Reappear(m) ==
    /\ queue[m] \in Procs
    /\ IF stage[queue[m]][m] = "none" THEN UNCHANGED faults ELSE Fault("timeout")
    /\ queue' = [queue EXCEPT ![m] = Visible]
    /\ UNCHANGED <<mvars, pvars, loop, lane, stage, starts>>

\* The Node process of p dies, with all its instances.
Crash(p) ==
    /\ loop[p] # "crashed"
    /\ Fault("crash")
    /\ LET dead == Neighbours(p) IN
       /\ loop' = [q \in Procs |-> IF q \in dead THEN "crashed" ELSE loop[q]]
       /\ lane' = [q \in Procs |-> IF q \in dead THEN [t \in Topics |-> "done"] ELSE lane[q]]
       /\ stage' = [q \in Procs |-> IF q \in dead THEN [m \in Messages |-> "none"] ELSE stage[q]]
       /\ Forget(dead)
    /\ UNCHANGED <<mvars, queue, starts>>

-----------------------------------------------------------------------------
PollStep(p) == TimerFires(p) \/ PollTerminates(p) \/ PollAgain(p)

ReceiveStep(p, t) ==
    \/ EnterLane(p, t) \/ ReceiveNothing(p, t) \/ ReceiveFails(p, t)
    \/ \E m \in OfTopic(t) : Receive(p, t, m)

HandlerStep(p, m) ==
    \/ AcquireResource(p, m) \/ Acquired(p, m) \/ Delete(p, m) \/ DeleteFails(p, m)
    \/ HandlerEnds(p, m) \/ ReleaseResource(p, m)

Lifecycle(p) == loop[p] # "crashed" /\ PoolManagerStep(p) /\ UNCHANGED rvars

Next ==
    \/ \E p \in Procs :
          \/ PollStep(p)
          \/ \E t \in Topics : ReceiveStep(p, t)
          \/ \E m \in Messages : HandlerStep(p, m)
          \/ Lifecycle(p)
          \/ Crash(p)
    \/ \E m \in Messages : Reappear(m)

SafeSpec == Init /\ [][Next]_vars

\* A stop() call goes on ticking.
ShutdownTicks(p) ==
    /\ loop[p] # "crashed"
    /\ \E c \in Calls : PoolShutdownStep(p, c)
    /\ UNCHANGED rvars

\* Timers fire, calls of Redis answer, handlers end, a message nobody works on
\* reappears, and a visible message is received in the end by those who ask.
Fairness ==
    /\ \A p \in Procs :
          /\ WF_vars(PollStep(p))
          /\ WF_vars(ShutdownTicks(p))
          /\ \A t \in Topics : WF_vars(ReceiveStep(p, t))
          /\ \A m \in Messages :
                WF_vars(HandlerStep(p, m)) /\ SF_vars(Receive(p, TopicOf[m], m))
    /\ \A m \in Messages : WF_vars(Reappear(m) /\ UNCHANGED faults)

Spec == SafeSpec /\ Fairness

-----------------------------------------------------------------------------
(* A message is deleted and never handled only by a fault in between, and   *)
(* handled again only after a fault; not by a termination, a drained pool,  *)
(* or a body that cannot be parsed (receive, deleteMessage).                *)
DeletedForHandler ==
    \A m \in Messages :
        /\ queue[m] = Deleted => starts[m] > 0 \/ faults > 0
        /\ starts[m] <= 1 + faults

(* When the loop has ended and quit its connection nobody works on a        *)
(* message anymore, whoever has terminated the instance (poll, shutdown).   *)
GracefulTermination ==
    \A p \in Procs : loop[p] = "ended" => \A m \in Messages : stage[p][m] = "none"

(* Once stop() has returned no handler runs (_drainAndClearPools).  The code *)
(* does not keep this: when the wait ends by force while a message is being  *)
(* received, its handler starts after the pool was looked at.                *)
NoHandlerAfterStop ==
    LateCalls = {} =>
        \A p \in Procs, m \in Messages :
            (\E c \in Calls : call[p][c] = "done") => stage[p][m] \in {"none", "started"}

(* stop() returns although it waits for the handlers (_drainAndClearPools), *)
(* also when the loop was broken and never terminates.                      *)
StopAlwaysReturns ==
    \A p \in Procs, c \in Calls :
        call[p][c] = "waiting" ~> call[p][c] = "done" \/ loop[p] = "crashed"
=============================================================================
