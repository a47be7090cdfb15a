----------------------------- MODULE JobScheduler -----------------------------
(***************************************************************************)
(* The job scheduler of packages/scheduler-sequelize: pods poll the jobs    *)
(* table, mark due rows as queued and publish a message for each; workers   *)
(* take the messages and run the task inside timestampHelper(), which       *)
(* writes to the row when it is accepted, finished or failed; the           *)
(* maintenance job 'check', itself a row, restarts jobs that are late.      *)
(*                                                                         *)
(* Time is left out where any delay is possible: every dormant row is due   *)
(* when the query says so.  What matters of the timestamps of a queued row  *)
(* is kept: whether accepted_at is later than last_run_at, and how old the  *)
(* later of the two is.  An update of a Sequelize instance writes only the  *)
(* fields that differ from what the instance was loaded with.               *)
(*                                                                         *)
(* A message is acknowledged (deleted or committed) by the runner, after    *)
(* timestampHelper() is done; until then it may be delivered once more.     *)
(*                                                                         *)
(* External: Postgres, where every statement is atomic, and the queue.      *)
(***************************************************************************)
EXTENDS Naturals, FiniteSets

CONSTANTS
    Jobs,           \* the rows of the jobs table; the id stands for the name
    Check,          \* the maintenance job
    Safe, Risky,    \* jobsSafeToRestart, jobsRiskyToRestart
    Custom,         \* jobsCustomRestart
    OneOff,         \* the sets of jobs that may be those without a repeatInterval
    Failing,        \* jobs whose task may throw
    Late,           \* jobs that may take longer than the limits
    Pods, Workers,
    EnqueueLimit,   \* enqueueLimit
    MaxRestarts,    \* maxRestartsOnFailure
    Terminating,    \* pods that may be terminated
    Pausing,        \* pods that may be paused
    SlowBatches,    \* whether a batch may take more than waitForChange() waits
    Faults,         \* the kinds of faults that happen
    MaxFaults,      \* bound: how many
    MaxFailures,    \* bound: failures of a job without a success
    MaxSent,        \* bound: messages of a job in the queue
    Gone, NoJob

ASSUME JobAssumption ==
    /\ Check \in Jobs
    /\ Safe \cup Risky \subseteq Jobs \ {Check}
    /\ Custom \cup Failing \cup Late \subseteq Jobs
    /\ OneOff # {} /\ OneOff \subseteq SUBSET (Jobs \ {Check})
    /\ NoJob \notin Jobs
ASSUME SchedulerAssumption ==
    /\ EnqueueLimit \in Nat \ {0}
    /\ IsFiniteSet(Pods) /\ IsFiniteSet(Workers)
    /\ {MaxRestarts, MaxFaults, MaxSent} \subseteq Nat /\ MaxFailures \in Nat \ {0}
    /\ SlowBatches \in BOOLEAN

Age == {"fresh", "late", "overdue"}
Row == [queued : BOOLEAN, accepted : BOOLEAN, age : Age, failures : 0 .. MaxFailures]

ASSUME GoneAssumption == Gone \notin Row

VARIABLES
    row,     \* the rows
    sent,    \* how many messages of every job are in the queue
    phase,   \* where every pod stands in its round
    batch,   \* the rows it has queued and has yet to publish
    found,   \* the late rows its maintenance has read and has yet to reset
    paused,  \* this.paused
    term,    \* terminate(): "no", "waiting" for the batch, "returned"
    run,     \* what every worker does: the stage, the job and the row as loaded
    once,    \* the jobs that are without a repeatInterval, throughout
    faults,  \* how many there have been
    returned \* history: the messages of every job delivered on top of its runs

steady == <<once, returned>>
vars == <<row, sent, phase, batch, found, paused, term, run, faults, steady>>

Maintaining == {"accept", "blocked", "find", "reset", "laggy", "findLaggy", "resetLaggy", "finish"}
Phase == {"timer", "fetch", "publish", "stopped", "dead"} \cup Maintaining
Run == [stage : {"idle", "loaded", "running", "untracked", "ended"}, job : Jobs \cup {NoJob},
        queued : BOOLEAN, failures : 0 .. MaxFailures]
Idle == [stage |-> "idle", job |-> NoJob, queued |-> FALSE, failures |-> 0]

TypeOK ==
    /\ row \in [Jobs -> Row \cup {Gone}]
    /\ sent \in [Jobs -> 0 .. MaxSent]
    /\ phase \in [Pods -> Phase]
    /\ batch \in [Pods -> SUBSET Jobs]
    /\ found \in [Pods -> SUBSET Jobs]
    /\ paused \in [Pods -> BOOLEAN]
    /\ term \in [Pods -> {"no", "waiting", "returned"}]
    /\ run \in [Workers -> Run]
    /\ once \in OneOff
    /\ faults \in 0 .. MaxFaults
    /\ returned \in [Jobs -> 0 .. MaxFaults]

Init ==
    /\ row = [j \in Jobs |-> [queued |-> FALSE, accepted |-> FALSE, age |-> "fresh", failures |-> 0]]
    /\ sent = [j \in Jobs |-> 0]
    /\ phase = [p \in Pods |-> "timer"]
    /\ batch = [p \in Pods |-> {}]
    /\ found = [p \in Pods |-> {}]
    /\ paused = [p \in Pods |-> FALSE]
    /\ term = [p \in Pods |-> "no"]
    /\ run = [w \in Workers |-> Idle]
    /\ once \in OneOff
    /\ faults = 0
    /\ returned = [j \in Jobs |-> 0]

Go(p, ph) == phase' = [phase EXCEPT ![p] = ph]

Fault(kind) ==
    /\ kind \in Faults
    /\ faults < MaxFaults
    /\ faults' = faults + 1

Exists(j) == row[j] # Gone
Queued(j) == Exists(j) /\ row[j].queued
Dormant(j) == Exists(j) /\ ~row[j].queued

\* The scopes 'blocked' and 'laggy' of models/job.ts.
Blocked(j) == Queued(j) /\ ~row[j].accepted /\ row[j].age # "fresh"
Laggy(j) == Queued(j) /\ row[j].accepted /\ row[j].age # "fresh"

Release(r) == [r EXCEPT !.queued = FALSE, !.age = "fresh"]

-----------------------------------------------------------------------------
\* The rounds of a pod.

\* Seeded fault: the timer is armed again while the pod terminates.
AfterRound_Rearmed(p) == "timer"

\* loop(), at the end of a round: the timer is armed again, or not.
AfterRound(p) == IF term[p] = "no" THEN "timer" ELSE "stopped"

RunScheduledJobs(p) ==
    /\ phase[p] = "timer"
    /\ ~paused[p]
    /\ Go(p, "fetch")
    /\ UNCHANGED <<row, sent, batch, found, paused, term, run, faults>>

\* Seeded fault: the query does not look at `queued`.
FetchAndEnqueueJobs_Queued(p, js) ==
    /\ phase[p] = "fetch"
    /\ Cardinality(js) <= EnqueueLimit
    /\ \A j \in js : Exists(j)
    /\ row' = [j \in Jobs |-> IF j \in js
                              THEN [row[j] EXCEPT !.queued = TRUE, !.accepted = FALSE]
                              ELSE row[j]]
    /\ batch' = [batch EXCEPT ![p] = js]
    /\ Go(p, IF js = {} THEN AfterRound(p) ELSE "publish")
    /\ UNCHANGED <<sent, found, paused, term, run, faults>>

\* The query queues the rows it returns.
FetchAndEnqueueJobs(p, js) ==
    /\ phase[p] = "fetch"
    /\ Cardinality(js) <= EnqueueLimit
    /\ \A j \in js : Dormant(j)
    /\ row' = [j \in Jobs |-> IF j \in js
                              THEN [row[j] EXCEPT !.queued = TRUE, !.accepted = FALSE]
                              ELSE row[j]]
    /\ batch' = [batch EXCEPT ![p] = js]
    /\ Go(p, IF js = {} THEN AfterRound(p) ELSE "publish")
    /\ UNCHANGED <<sent, found, paused, term, run, faults>>

\* The error is thrown on, and the timer is not armed again.
FetchFails(p) ==
    /\ phase[p] = "fetch"
    /\ Fault("fetch")
    /\ Go(p, "dead")
    /\ UNCHANGED <<row, sent, batch, found, paused, term, run>>

\* publishMessages() is done with a row of the batch.
Done(p, j) ==
    /\ batch' = [batch EXCEPT ![p] = @ \ {j}]
    /\ Go(p, IF batch[p] = {j} THEN AfterRound(p) ELSE "publish")

\* The task of a job is a publishable one, the message goes to a queue ...
Publish(p, j) ==
    /\ phase[p] = "publish"
    /\ j \in batch[p] \ {Check}
    /\ sent[j] < MaxSent
    /\ sent' = [sent EXCEPT ![j] = @ + 1]
    /\ Done(p, j)
    /\ UNCHANGED <<row, found, paused, term, run, faults>>

\* Seeded fault: the row is given back when its message cannot be sent.
PublishFails_Unqueued(p, j) ==
    /\ phase[p] = "publish"
    /\ j \in batch[p] \ {Check}
    /\ Fault("publish")
    /\ row' = [row EXCEPT ![j].queued = FALSE]
    /\ Done(p, j)
    /\ UNCHANGED <<sent, found, paused, term, run>>

\* ... or cannot be sent: that is logged.
PublishFails(p, j) ==
    /\ phase[p] = "publish"
    /\ j \in batch[p] \ {Check}
    /\ Fault("publish")
    /\ Done(p, j)
    /\ UNCHANGED <<row, sent, found, paused, term, run>>

Pause(p) ==
    /\ p \in Pausing
    /\ paused' = [paused EXCEPT ![p] = ~@]
    /\ UNCHANGED <<row, sent, phase, batch, found, term, run, faults>>

\* terminate() clears the timer and waits until `processing` is false: it is
\* true only while a batch is published.
Terminate(p) ==
    /\ p \in Terminating
    /\ term[p] = "no"
    /\ phase[p] # "dead"
    /\ term' = [term EXCEPT ![p] = "waiting"]
    /\ Go(p, IF phase[p] = "timer" THEN "stopped" ELSE phase[p])
    /\ UNCHANGED <<row, sent, batch, found, paused, run, faults>>

TerminateReturns(p) ==
    /\ term[p] = "waiting"
    /\ phase[p] \notin {"publish"} \cup Maintaining \/ SlowBatches
    /\ term' = [term EXCEPT ![p] = "returned"]
    /\ UNCHANGED <<row, sent, phase, batch, found, paused, run, faults>>

PodDies(p) ==
    /\ phase[p] # "dead"
    /\ Fault("pod")
    /\ Go(p, "dead")
    /\ batch' = [batch EXCEPT ![p] = {}]
    /\ found' = [found EXCEPT ![p] = {}]
    /\ UNCHANGED <<row, sent, paused, term, run>>

\* External: healthCheck() fails, and the pod is replaced.
Restart(p) ==
    /\ phase[p] = "dead"
    /\ Go(p, "timer")
    /\ paused' = [paused EXCEPT ![p] = FALSE]
    /\ term' = [term EXCEPT ![p] = "no"]
    /\ UNCHANGED <<row, sent, batch, found, run, faults>>

-----------------------------------------------------------------------------
\* Maintenance, which the pod that has queued 'check' runs in its round.

StartCheck(p) ==
    /\ phase[p] = "publish"
    /\ Check \in batch[p]
    /\ Go(p, "accept")
    /\ UNCHANGED <<row, sent, batch, found, paused, term, run, faults>>

AcceptCheck(p) ==
    /\ phase[p] = "accept"
    /\ row' = [row EXCEPT ![Check] = [@ EXCEPT !.accepted = TRUE, !.age = "fresh"]]
    /\ Go(p, "blocked")
    /\ UNCHANGED <<sent, batch, found, paused, term, run, faults>>

\* Seeded fault: the scope of the blocked jobs is taken once more.
RestartLaggy_Blocked(p) ==
    /\ phase[p] = "laggy"
    /\ row' = [j \in Jobs |-> IF j \in Safe /\ Blocked(j) THEN Release(row[j]) ELSE row[j]]
    /\ Go(p, "findLaggy")
    /\ UNCHANGED <<sent, batch, found, paused, term, run, faults>>

\* Safe jobs that are blocked, and later those that are laggy, are restarted
\* by one update each.
RestartBlocked(p) ==
    /\ phase[p] = "blocked"
    /\ row' = [j \in Jobs |-> IF j \in Safe /\ Blocked(j)
                              THEN [Release(row[j]) EXCEPT !.failures = 0] ELSE row[j]]
    /\ Go(p, "find")
    /\ UNCHANGED <<sent, batch, found, paused, term, run, faults>>

RestartLaggy(p) ==
    /\ phase[p] = "laggy"
    /\ row' = [j \in Jobs |-> IF j \in Safe /\ Laggy(j) THEN Release(row[j]) ELSE row[j]]
    /\ Go(p, "findLaggy")
    /\ UNCHANGED <<sent, batch, found, paused, term, run, faults>>

\* Other jobs are read first, and reset one by one: the risky ones that are
\* blocked, and those with a time of their own that are laggy.
FindBlocked(p) ==
    /\ phase[p] = "find"
    /\ found' = [found EXCEPT ![p] = {j \in Risky : Blocked(j)}]
    /\ Go(p, "reset")
    /\ UNCHANGED <<row, sent, batch, paused, term, run, faults>>

\* Seeded fault: 'check' is not left out.
FindLaggy_WithCheck(p) ==
    /\ phase[p] = "findLaggy"
    /\ found' = [found EXCEPT ![p] = {j \in Custom : Laggy(j) /\ row[j].age # "overdue"}]
    /\ Go(p, "resetLaggy")
    /\ UNCHANGED <<row, sent, batch, paused, term, run, faults>>

FindLaggy(p) ==
    /\ phase[p] = "findLaggy"
    /\ found' = [found EXCEPT ![p] =
          {j \in Custom \ {Check} : Laggy(j) /\ row[j].age # "overdue"}]
    /\ Go(p, "resetLaggy")
    /\ UNCHANGED <<row, sent, batch, paused, term, run, faults>>

\* resetJob() writes by the row's id, whatever has become of it.
ResetJob(p, j) ==
    /\ phase[p] \in {"reset", "resetLaggy"}
    /\ j \in found[p]
    /\ row' = [row EXCEPT ![j] = IF j \in once \/ @ = Gone THEN @ ELSE Release(@)]
    /\ found' = [found EXCEPT ![p] = @ \ {j}]
    /\ UNCHANGED <<sent, phase, batch, paused, term, run, faults>>

AllReset(p) ==
    /\ phase[p] \in {"reset", "resetLaggy"}
    /\ found[p] = {}
    /\ Go(p, IF phase[p] = "reset" THEN "laggy" ELSE "finish")
    /\ UNCHANGED <<row, sent, batch, found, paused, term, run, faults>>

\* A reset that fails is logged by itself ...
ResetFails(p, j) ==
    /\ phase[p] \in {"reset", "resetLaggy"}
    /\ j \in found[p]
    /\ Fault("maintenance")
    /\ found' = [found EXCEPT ![p] = @ \ {j}]
    /\ UNCHANGED <<row, sent, phase, batch, paused, term, run>>

\* ... and any other error ends maintenance, and is logged.
MaintenanceFails(p) ==
    /\ phase[p] \in Maintaining \ {"accept", "finish"}
    /\ Fault("maintenance")
    /\ found' = [found EXCEPT ![p] = {}]
    /\ Go(p, "finish")
    /\ UNCHANGED <<row, sent, batch, paused, term, run>>

FinishCheck(p) ==
    /\ phase[p] = "finish"
    /\ row' = [row EXCEPT ![Check] = [Release(@) EXCEPT !.failures = 0]]
    /\ Done(p, Check)
    /\ UNCHANGED <<sent, found, paused, term, run, faults>>

\* A statement of timestampHelper() fails around 'check', which is logged.
\* After the last one the failure is counted, and the instance writes what is
\* unsaved along with it; unless that fails as well.
CheckFails(p) ==
    /\ phase[p] \in {"accept", "finish"}
    /\ Fault("maintenance")
    /\ \/ UNCHANGED row
       \/ /\ phase[p] = "finish"
          /\ row' = [row EXCEPT ![Check] = [Release(@) EXCEPT !.failures = 1]]
    /\ Done(p, Check)
    /\ UNCHANGED <<sent, found, paused, term, run>>

-----------------------------------------------------------------------------
\* timestampHelper(), in the worker that has received a message.

\* findByPk(); without a row the task runs all the same.
Take(w, j) ==
    /\ run[w].stage = "idle"
    /\ sent[j] > 0
    /\ sent' = [sent EXCEPT ![j] = @ - 1]
    /\ run' = [run EXCEPT ![w] =
          IF Exists(j)
          THEN [stage |-> "loaded", job |-> j, queued |-> row[j].queued, failures |-> row[j].failures]
          ELSE [Idle EXCEPT !.stage = "untracked", !.job = j]]
    /\ UNCHANGED <<row, phase, batch, found, paused, term, faults>>

\* updateStartTask()
AcceptJob(w) ==
    LET j == run[w].job
    IN /\ run[w].stage = "loaded"
       /\ row' = IF Exists(j)
                 THEN [row EXCEPT ![j] = [@ EXCEPT !.accepted = TRUE, !.age = "fresh"]]
                 ELSE row
       /\ run' = [run EXCEPT ![w].stage = "running"]
       /\ UNCHANGED <<sent, phase, batch, found, paused, term, faults>>

\* The row when a worker makes it dormant: `queued` is written unless it was
\* already false when the worker loaded the row.
Released(w) == LET r == row[run[w].job] IN IF run[w].queued THEN Release(r) ELSE r

\* The helper is done with the row; the message is yet to be acknowledged.
RunEnds(w) == run' = [run EXCEPT ![w] = [Idle EXCEPT !.stage = "ended", !.job = run[w].job]]

\* updateFinishTask()
FinishJob(w) ==
    LET j == run[w].job
    IN /\ run[w].stage = "running"
       /\ row' = [row EXCEPT ![j] =
             IF @ = Gone \/ j \in once THEN Gone
             ELSE IF run[w].failures # 0 THEN [Released(w) EXCEPT !.failures = 0]
             ELSE Released(w)]
       /\ RunEnds(w)
       /\ UNCHANGED <<sent, phase, batch, found, paused, term, faults>>

\* Its update fails, and updateFailure() follows.  The instance keeps what it
\* could not save, failures = 0 among it, and saves it now: the row is released
\* after all, whether the job may be retried or not, with one failure.
FinishFails(w) ==
    LET j == run[w].job
    IN /\ run[w].stage = "running"
       /\ j \notin once
       /\ Fault("finish")
       /\ row' = [row EXCEPT ![j] = IF @ = Gone THEN Gone ELSE [Released(w) EXCEPT !.failures = 1]]
       /\ RunEnds(w)
       /\ UNCHANGED <<sent, phase, batch, found, paused, term>>

\* Seeded fault: one restart too many.
Retries_OneMore(w) == run[w].failures <= MaxRestarts /\ run[w].job \in Safe

\* updateFailure()
Retries(w) == run[w].failures < MaxRestarts /\ run[w].job \in Safe

\* The task throws, or the deletion of a one-off job does.
FailJob(w) ==
    LET j == run[w].job
    IN /\ run[w].stage = "running"
       /\ (j \in Failing /\ UNCHANGED faults) \/ (j \in once /\ Fault("finish"))
       /\ run[w].failures < MaxFailures
       /\ row' = [row EXCEPT ![j] =
             IF @ = Gone THEN Gone
             ELSE [IF Retries(w) THEN Released(w) ELSE @ EXCEPT !.failures = run[w].failures + 1]]
       /\ RunEnds(w)
       /\ UNCHANGED <<sent, phase, batch, found, paused, term>>

EndUntracked(w) ==
    /\ run[w].stage = "untracked"
    /\ RunEnds(w)
    /\ UNCHANGED <<row, sent, phase, batch, found, paused, term, faults>>

\* External: subscribe() has returned, and the runner deletes or commits the
\* message (or has done so before, without waitToCommit).
Acknowledge(w) ==
    /\ run[w].stage = "ended"
    /\ run' = [run EXCEPT ![w] = Idle]
    /\ UNCHANGED <<row, sent, phase, batch, found, paused, term, faults>>

\* A message of j is in the queue again.
ComesBack(j) ==
    /\ sent[j] < MaxSent
    /\ sent' = [sent EXCEPT ![j] = @ + 1]

Counted(j) == returned' = [returned EXCEPT ![j] = @ + 1]

\* A worker dies; so it looks, too, when the helper rejects because a statement
\* of it fails, or the acknowledgement does.  The message is lost or comes back:
\* instead of this run, or on top of it when the run had ended.
WorkerDies(w) ==
    /\ run[w].stage # "idle"
    /\ Fault("worker")
    /\ run' = [run EXCEPT ![w] = Idle]
    /\ \/ UNCHANGED <<sent, returned>>
       \/ /\ ComesBack(run[w].job)
          /\ IF run[w].stage = "ended" THEN Counted(run[w].job) ELSE UNCHANGED returned
    /\ UNCHANGED <<row, phase, batch, found, paused, term>>

\* External: the message is delivered again while the worker goes on (the
\* visibility timeout has passed, the partition has gone to somebody else).
Redeliver(w) ==
    /\ run[w].stage # "idle"
    /\ Fault("redelivery")
    /\ ComesBack(run[w].job)
    /\ Counted(run[w].job)
    /\ UNCHANGED <<row, phase, batch, found, paused, term, run>>

\* Time passes: blockedInMinutes or lagInMinutes, then a custom restart's.
GrowOld(j) ==
    /\ j \in Late
    /\ Queued(j)
    /\ row[j].age = "fresh" \/ (row[j].age = "late" /\ j \in Custom)
    /\ row' = [row EXCEPT ![j].age = IF @ = "fresh" THEN "late" ELSE "overdue"]
    /\ UNCHANGED <<sent, phase, batch, found, paused, term, run, faults>>

-----------------------------------------------------------------------------
CheckStep(p) ==
    \/ AcceptCheck(p)
    \/ RestartBlocked(p) \/ FindBlocked(p)
    \/ RestartLaggy(p) \/ FindLaggy(p)
    \/ (\E j \in found[p] : ResetJob(p, j)) \/ AllReset(p)
    \/ FinishCheck(p)

RoundStep(p) ==
    \/ RunScheduledJobs(p)
    \/ \E js \in SUBSET Jobs : FetchAndEnqueueJobs(p, js)
    \/ \E j \in batch[p] : Publish(p, j)
    \/ StartCheck(p) \/ CheckStep(p)
    \/ TerminateReturns(p)
    \/ Restart(p)

WorkerStep(w) ==
    \/ AcceptJob(w) \/ FinishJob(w) \/ FailJob(w) \/ EndUntracked(w)
    \/ Acknowledge(w)

Step ==
    \/ \E p \in Pods :
        \/ RoundStep(p)
        \/ FetchFails(p) \/ MaintenanceFails(p) \/ CheckFails(p) \/ PodDies(p)
        \/ \E j \in batch[p] : PublishFails(p, j)
        \/ \E j \in found[p] : ResetFails(p, j)
        \/ Pause(p) \/ Terminate(p)
    \/ \E w \in Workers :
        \/ \E j \in Jobs : Take(w, j)
        \/ WorkerStep(w) \/ FinishFails(w)
    \/ \E j \in Jobs : GrowOld(j)

Next ==
    /\ UNCHANGED once
    /\ \/ Step /\ UNCHANGED returned
       \/ \E w \in Workers : WorkerDies(w) \/ Redeliver(w)

SafeSpec == Init /\ [][Next]_vars

Enqueue(j) == \E p \in Pods, js \in SUBSET Jobs : j \in js /\ FetchAndEnqueueJobs(p, js)

\* Pods and workers go on, time passes, and every dormant row is queued in
\* the end: it becomes due, and the query's limit does not always pass it by.
Fairness ==
    /\ \A p \in Pods : WF_vars(RoundStep(p) /\ UNCHANGED steady)
    /\ \A w \in Workers : WF_vars(WorkerStep(w) /\ UNCHANGED steady)
    /\ \A j \in Late : WF_vars(GrowOld(j) /\ UNCHANGED steady)
    /\ \A j \in Jobs \ {Check} : WF_vars((\E w \in Workers : Take(w, j)) /\ UNCHANGED steady)
    /\ \A j \in Jobs : SF_vars(Enqueue(j) /\ UNCHANGED steady)

Spec == SafeSpec /\ Fairness

-----------------------------------------------------------------------------
Holders(j) == {p \in Pods : j \in batch[p]}
Takers(j) == {w \in Workers : run[w].job = j /\ run[w].stage # "ended"}
InFlight(j) == Cardinality(Holders(j)) + sent[j] + Cardinality(Takers(j))

\* As long as no job is late, whatever dies or fails, and however the steps of
\* pods and workers fall: there is one run of a job, with a pod, in the queue or
\* with a worker, and only while its row is queued; but for those the queue
\* itself has made by delivering a message again, of which none makes a second
\* (the enqueue query, publishMessages, timestampHelper).
SingleFlight ==
    \A j \in Jobs : InFlight(j) + (IF Queued(j) THEN 0 ELSE 1) <= 1 + returned[j]

\* As long as no job is late, it is retried MaxRestarts times after failures
\* in a row, and no more, but for a message delivered again (updateFailure).
\* With late jobs this is what the comment on maxRestartsOnFailure says.
RestartsBounded ==
    \A j \in Jobs : Exists(j) => row[j].failures <= MaxRestarts + 1 + returned[j]

\* As long as no job is late, rows go round as docs/job.md says; a message that
\* is delivered again can end the next run of its job early, and nothing else.
Lifecycle == INSTANCE JobLifecycle WITH
    again <- {j \in Jobs : returned[j] > 0},
    state <- [j \in Jobs |-> IF ~Exists(j) THEN "deleted"
                             ELSE IF ~row[j].queued THEN "dormant"
                             ELSE IF row[j].accepted THEN "accepted" ELSE "running"]
LifecycleImplemented == Lifecycle!LSpec

\* However late jobs are and whatever fails, two pods are never in maintenance
\* at once: 'check' is never restarted by itself (initMaintenance).
MaintenanceAlone ==
    \A p, q \in Pods : {phase[p], phase[q]} \subseteq Maintaining => p = q

\* A pod that is told to terminate finishes its batch, arms no timer again,
\* and terminate() returns, unless the pod dies.
TerminateStops ==
    \A p \in Pods :
        term[p] = "waiting" ~> (phase[p] = "dead" \/ (term[p] = "returned" /\ phase[p] = "stopped"))

\* No maintenance is left to come: the row of 'check' is queued, and no pod
\* has it in its batch.
CheckStuck == Queued(Check) /\ InFlight(Check) = 0

\* A job that is safe to restart is not stuck, whether its message was not
\* sent or lost, its worker has died or it has failed too often: it is
\* restarted, unless 'check' itself is stuck (initMaintenance).
StuckJobsRestart == \A j \in Safe : j \in Late /\ Queued(j) ~> (~Queued(j) \/ CheckStuck)

\* What the comment on terminate() says: when it has returned, no task that
\* the pod has queued is left to be executed.
TerminateWaits == \A p \in Pods : term[p] = "returned" => batch[p] = {}

\* What the comment in initMaintenance() says: risky jobs are not just started
\* again, so no two workers run the same one.
RiskyRunsAlone ==
    \A j \in Risky : Cardinality({w \in Takers(j) : run[w].stage = "running"}) <= 1

\* What the comment above initMaintenance() says: a job that is reset because
\* it is blocked has not been accepted.
BlockedResetUnaccepted ==
    [][\A p \in Pods : phase[p] = "reset" /\ phase'[p] = "reset" =>
          \A j \in found[p] \ found'[p] : ~(Queued(j) /\ row[j].accepted)]_vars

\* What the comment on jobsCustomRestart says: such a job is restarted after
\* it has been laggy for the time it is given.
CustomRestartWaits ==
    [][\A p \in Pods : phase[p] = "resetLaggy" /\ phase'[p] = "resetLaggy" =>
          \A j \in found[p] \ found'[p] : row[j].age = "overdue"]_vars
=============================================================================
