--------------------------- MODULE PrismaScheduler ---------------------------
(***************************************************************************)
(* The job scheduler of packages/scheduler-prisma.  It shares the jobs      *)
(* table and its life cycle with the Sequelize one, and differs in what is  *)
(* modelled here: a pod looks for the row of 'check' and creates it when it *)
(* starts; a batch is worked off one row at a time, and jobs that are plain *)
(* callbacks run inside the pod; every statement writes what it says,       *)
(* whatever was loaded before; a failure is read, perhaps released, and     *)
(* counted by three statements; and maintenance first selects rows and then *)
(* writes to them by id.                                                    *)
(*                                                                         *)
(* A message is acknowledged by the runner once timestampHelper() is done;  *)
(* until then it may be delivered once more, and it is when the helper      *)
(* rejects and the runner deletes after the work only (waitToCommit).       *)
(*                                                                         *)
(* Time is treated as in JobScheduler: any delay until a row is due, and    *)
(* three ages of a queued one.  External: Postgres, where each statement is *)
(* atomic, the queue, and the deployment that starts pods.                  *)
(***************************************************************************)
EXTENDS Naturals, FiniteSets

CONSTANTS
    Jobs,           \* the rows the jobs table can have
    Checks,         \* those for the maintenance job 'check'
    Safe, Risky,    \* jobsSafeToRestart, jobsRiskyToRestart
    Custom,         \* jobsCustomRestart
    OneOff,         \* the sets of jobs that may be those without a repeatInterval
    Inline,         \* jobs whose task is not a publishable one
    Failing,        \* jobs whose task may throw
    Late,           \* jobs that may turn out to take longer than the limits
    Pods, Workers,
    Told,           \* pods that are paused, resumed and terminated
    EnqueueLimit,   \* enqueueLimit
    MaxRestarts,    \* maxRestartsOnFailure
    Together,       \* whether pods may start at the same time
    SlowBatches,    \* whether a batch may take more than waitForChange() waits
    Events,         \* the faults and the calls of the application that happen
    MaxEvents,      \* bound: how many
    MaxFailures,    \* bound: failures of a job without a success
    MaxSent,        \* bound: messages of a job in the queue
    Gone, NoJob

ASSUME JobAssumption ==
    /\ Checks # {} /\ Checks \subseteq Inline /\ Inline \subseteq Jobs
    /\ Safe \cup Risky \subseteq Jobs \ Checks
    /\ Custom \cup Failing \cup Late \subseteq Jobs
    /\ Checks \cap Failing = {}
    /\ OneOff # {} /\ OneOff \subseteq SUBSET (Jobs \ Checks)
    /\ NoJob \notin Jobs
ASSUME SchedulerAssumption ==
    /\ Pods \cap Workers = {} /\ Told \subseteq Pods
    /\ IsFiniteSet(Pods) /\ IsFiniteSet(Workers)
    /\ EnqueueLimit \in Nat \ {0}
    /\ {MaxRestarts, MaxEvents, MaxSent, MaxFailures} \subseteq Nat
    /\ {SlowBatches, Together} \subseteq BOOLEAN

Age == {"fresh", "late", "overdue"}
Row == [queued : BOOLEAN, accepted : BOOLEAN, age : Age, failures : 0 .. MaxFailures]

ASSUME GoneAssumption == Gone \notin Row

Runners == Pods \cup Workers
Run == [stage : {"idle", "loaded", "running", "retry", "retried", "count", "untracked", "ended"},
        job : Jobs \cup {NoJob}, failures : 0 .. MaxFailures]
Idle == [stage |-> "idle", job |-> NoJob, failures |-> 0]
NewRow == [queued |-> FALSE, accepted |-> FALSE, age |-> "fresh", failures |-> 0]
Passes == 4

VARIABLES
    row,     \* the rows, Gone where there is none
    sent,    \* how many messages of every job are in the queue
    phase,   \* where every pod stands in its round
    batch,   \* the rows it has queued and has yet to work off
    paused,  \* this.paused
    term,    \* terminate(): "no", "waiting" for the batch, "returned"
    run,     \* timestampHelper() in every worker and pod: stage, job, failures read
    pass,    \* how many passes the maintenance of a pod has done
    found,   \* the rows its current pass has selected and has yet to write
    slow,    \* the jobs that do take longer than the limits, now and then
    once,    \* the jobs that do have no repeatInterval
    events,  \* how many there have been
    returned \* history: the messages of every job delivered on top of its runs

podVars == <<phase, batch, paused, term>>
queueVars == <<sent, returned>>
maintenanceVars == <<pass, found>>
registered == <<slow, once>>
vars == <<row, queueVars, podVars, run, maintenanceVars, registered, events>>

TypeOK ==
    /\ row \in [Jobs -> Row \cup {Gone}]
    /\ sent \in [Jobs -> 0 .. MaxSent]
    /\ phase \in [Pods -> {"dead", "init", "create", "timer", "fetch", "publish", "stopped"}]
    /\ batch \in [Pods -> SUBSET Jobs]
    /\ paused \in [Pods -> BOOLEAN]
    /\ term \in [Pods -> {"no", "waiting", "returned"}]
    /\ run \in [Runners -> Run]
    /\ pass \in [Pods -> 0 .. Passes]
    /\ found \in [Pods -> SUBSET Jobs]
    /\ slow \subseteq Late /\ once \in OneOff
    /\ events \in 0 .. MaxEvents
    /\ returned \in [Jobs -> Nat]

Init ==
    /\ row = [j \in Jobs |-> IF j \in Checks THEN Gone ELSE NewRow]
    /\ sent = [j \in Jobs |-> 0]
    /\ phase = [p \in Pods |-> "dead"]
    /\ batch = [p \in Pods |-> {}]
    /\ paused = [p \in Pods |-> FALSE]
    /\ term = [p \in Pods |-> "no"]
    /\ run = [r \in Runners |-> Idle]
    /\ pass = [p \in Pods |-> 0]
    /\ found = [p \in Pods |-> {}]
    /\ slow \in SUBSET Late /\ once \in OneOff
    /\ events = 0
    /\ returned = [j \in Jobs |-> 0]

Go(p, ph) == phase' = [phase EXCEPT ![p] = ph]

Event(kind) ==
    /\ kind \in Events
    /\ events < MaxEvents
    /\ events' = events + 1

Exists(j) == row[j] # Gone
Queued(j) == Exists(j) /\ row[j].queued
Dormant(j) == Exists(j) /\ ~row[j].queued
Blocked(j) == Queued(j) /\ ~row[j].accepted /\ row[j].age # "fresh"
Laggy(j) == Queued(j) /\ row[j].accepted /\ row[j].age # "fresh"

Release(r) == [r EXCEPT !.queued = FALSE, !.age = "fresh"]

-----------------------------------------------------------------------------
\* The rounds of a pod.

\* External: a pod is started, or replaced when healthCheck() fails.
Start(p) ==
    /\ phase[p] = "dead"
    /\ Together \/ \A q \in Pods : phase[q] \notin {"init", "create"}
    /\ Go(p, "init")
    /\ paused' = [paused EXCEPT ![p] = FALSE]
    /\ term' = [term EXCEPT ![p] = "no"]
    /\ UNCHANGED <<row, queueVars, batch, run, maintenanceVars, events>>

\* What runScheduledJobs() does after init(): it looks at `paused` and then at
\* `exiting` before it fetches.
Begin(p) ==
    IF term[p] # "no" THEN "stopped" ELSE IF paused[p] THEN "timer" ELSE "fetch"

\* Seeded fault: it is not looked for.
FindCheck_Always(p) ==
    /\ phase[p] = "init"
    /\ Go(p, IF \A c \in Checks : Exists(c) THEN Begin(p) ELSE "create")
    /\ UNCHANGED <<row, queueVars, batch, paused, term, run, maintenanceVars, events>>

\* init() looks for the row of 'check' ...
FindCheck(p) ==
    /\ phase[p] = "init"
    /\ Go(p, IF \E c \in Checks : Exists(c) THEN Begin(p) ELSE "create")
    /\ UNCHANGED <<row, queueVars, batch, paused, term, run, maintenanceVars, events>>

\* ... and creates one, with a new id: the name is not unique.
CreateCheck(p) ==
    /\ phase[p] = "create"
    /\ \E c \in Checks : ~Exists(c)
    /\ row' = [row EXCEPT ![CHOOSE c \in Checks : ~Exists(c)] = NewRow]
    /\ Go(p, Begin(p))
    /\ UNCHANGED <<queueVars, batch, paused, term, run, maintenanceVars, events>>

RunScheduledJobs(p) ==
    /\ phase[p] = "timer"
    /\ ~paused[p]
    /\ Go(p, "fetch")
    /\ UNCHANGED <<row, queueVars, batch, paused, term, run, maintenanceVars, events>>

\* loop(), at the end of a round: the timer is armed again, or not.
AfterRound(p) == IF term[p] = "no" THEN "timer" ELSE "stopped"

\* The query queues the rows it returns.
FetchAndEnqueueJobs(p, js) ==
    /\ phase[p] = "fetch"
    /\ Cardinality(js) <= EnqueueLimit
    /\ \A j \in js : Dormant(j)
    /\ row' = [j \in Jobs |-> IF j \in js
                              THEN [row[j] EXCEPT !.queued = TRUE, !.accepted = FALSE]
                              ELSE row[j]]
    /\ batch' = [batch EXCEPT ![p] = js]
    /\ Go(p, IF js = {} THEN AfterRound(p) ELSE "publish")
    /\ UNCHANGED <<queueVars, paused, term, run, maintenanceVars, events>>

\* An error of these statements is thrown on, and no timer is armed again.
RoundFails(p) ==
    /\ phase[p] \in {"init", "create", "fetch"}
    /\ Event("round")
    /\ Go(p, "dead")
    /\ UNCHANGED <<row, queueVars, batch, paused, term, run, maintenanceVars>>

\* publishMessages() is done with a row of the batch.
Done(p, j) ==
    /\ batch' = [batch EXCEPT ![p] = @ \ {j}]
    /\ Go(p, IF batch[p] = {j} THEN AfterRound(p) ELSE "publish")

\* One row after the other: the message of a job is sent, and awaited ...
Publish(p, j) ==
    /\ phase[p] = "publish" /\ run[p] = Idle
    /\ j \in batch[p] \ Inline
    /\ sent[j] < MaxSent
    /\ sent' = [sent EXCEPT ![j] = @ + 1]
    /\ Done(p, j)
    /\ UNCHANGED <<row, returned, paused, term, run, maintenanceVars, events>>

\* ... or fails, which is logged.
PublishFails(p, j) ==
    /\ phase[p] = "publish" /\ run[p] = Idle
    /\ j \in batch[p] \ Inline
    /\ Event("publish")
    /\ Done(p, j)
    /\ UNCHANGED <<row, queueVars, paused, term, run, maintenanceVars>>

\* pause() and resume()
Pause(p, value) ==
    /\ p \in Told
    /\ phase[p] # "dead" /\ paused[p] # value
    /\ Event("pause")
    /\ paused' = [paused EXCEPT ![p] = value]
    /\ UNCHANGED <<row, queueVars, phase, batch, term, run, maintenanceVars>>

\* terminate() clears the timer and waits until `processing` is false: it is
\* true only while a batch is worked off.
Terminate(p) ==
    /\ p \in Told
    /\ phase[p] # "dead" /\ term[p] = "no"
    /\ Event("terminate")
    /\ term' = [term EXCEPT ![p] = "waiting"]
    /\ Go(p, IF phase[p] = "timer" THEN "stopped" ELSE phase[p])
    /\ UNCHANGED <<row, queueVars, batch, paused, run, maintenanceVars>>

TerminateReturns(p) ==
    /\ term[p] = "waiting"
    /\ phase[p] # "publish" \/ SlowBatches
    /\ term' = [term EXCEPT ![p] = "returned"]
    /\ UNCHANGED <<row, queueVars, phase, batch, paused, run, maintenanceVars, events>>

PodDies(p) ==
    /\ phase[p] # "dead"
    /\ Event("pod")
    /\ Go(p, "dead")
    /\ batch' = [batch EXCEPT ![p] = {}]
    /\ run' = [run EXCEPT ![p] = Idle]
    /\ pass' = [pass EXCEPT ![p] = 0]
    /\ found' = [found EXCEPT ![p] = {}]
    /\ UNCHANGED <<row, queueVars, paused, term>>

-----------------------------------------------------------------------------
\* timestampHelper(), in a worker that has received a message, or in a pod.

\* findUnique(); without a row the task runs all the same.
Load(r, j) ==
    run' = [run EXCEPT ![r] =
               [Idle EXCEPT !.stage = IF Exists(j) THEN "loaded" ELSE "untracked", !.job = j]]

Take(w, j) ==
    /\ run[w] = Idle
    /\ sent[j] > 0
    /\ sent' = [sent EXCEPT ![j] = @ - 1]
    /\ Load(w, j)
    /\ UNCHANGED <<row, returned, podVars, maintenanceVars, events>>

TakeInline(p, j) ==
    /\ phase[p] = "publish" /\ run[p] = Idle
    /\ j \in batch[p] \cap Inline
    /\ Load(p, j)
    /\ UNCHANGED <<row, queueVars, podVars, maintenanceVars, events>>

\* What becomes of a job that runs in a pod: the pod goes on with its batch.
EndInline(p) ==
    /\ run' = [run EXCEPT ![p] = Idle]
    /\ Done(p, run[p].job)
    /\ pass' = [pass EXCEPT ![p] = 0]

\* The helper returns.  The message of a worker is yet to be acknowledged.
End(r) ==
    /\ IF r \in Pods
       THEN EndInline(r)
       ELSE /\ run' = [run EXCEPT ![r] = [Idle EXCEPT !.stage = "ended", !.job = run[r].job]]
            /\ UNCHANGED <<phase, batch, pass>>
    /\ UNCHANGED <<queueVars, paused, term, found>>

\* A message of j is in the queue again.
ComesBack(j) ==
    /\ sent[j] < MaxSent
    /\ sent' = [sent EXCEPT ![j] = @ + 1]

Counted(j) == returned' = [returned EXCEPT ![j] = @ + 1]

\* The run of a worker is broken off, and its message is lost or comes back:
\* instead of this run, or on top of it when the row had been written to.
Breaks(w) ==
    LET j == run[w].job
    IN /\ run' = [run EXCEPT ![w] = Idle]
       /\ \/ UNCHANGED queueVars
          \/ /\ ComesBack(j)
             /\ IF run[w].stage \in {"retried", "ended"} THEN Counted(j) ELSE UNCHANGED returned
       /\ UNCHANGED <<podVars, maintenanceVars>>

\* The helper rejects.
Rejects(r) ==
    IF r \in Pods
    THEN EndInline(r) /\ UNCHANGED <<queueVars, paused, term, found>>
    ELSE Breaks(r)

\* An update by id throws when the row is gone, and the helper rejects.
UpdateAndGo(r, j, new, stage) ==
    IF Exists(j)
    THEN /\ row' = [row EXCEPT ![j] = new]
         /\ run' = [run EXCEPT ![r].stage = stage]
         /\ UNCHANGED <<queueVars, podVars, maintenanceVars>>
    ELSE Rejects(r) /\ UNCHANGED row

\* updateStartTask()
AcceptJob(r) ==
    LET j == run[r].job
    IN /\ run[r].stage = "loaded"
       /\ UpdateAndGo(r, j, [row[j] EXCEPT !.accepted = TRUE, !.age = "fresh"], "running")
       /\ UNCHANGED events

\* The task has come to its end: maintenance after its last pass.
TaskOver(r) == run[r].stage = "running" /\ (run[r].job \in Checks => pass[r] = Passes)

\* Seeded fault: a job that is done stays queued until its next run.
FinishJob_Queued(r) ==
    LET j == run[r].job
    IN /\ TaskOver(r)
       /\ row' = [row EXCEPT ![j] = IF @ = Gone \/ j \in once THEN Gone
                                    ELSE [@ EXCEPT !.failures = 0, !.accepted = FALSE]]
       /\ End(r)
       /\ UNCHANGED events

\* updateFinishTask().  A one-off job is deleted, and then computeNextRun()
\* throws; updateFailure() finds no row and leaves it at that.
FinishJob(r) ==
    LET j == run[r].job
    IN /\ TaskOver(r)
       /\ row' = [row EXCEPT ![j] = IF @ = Gone \/ j \in once THEN Gone
                                    ELSE [Release(@) EXCEPT !.failures = 0]]
       /\ End(r)
       /\ UNCHANGED events

\* updateFailure(), after the task or a statement of updateFinishTask() has
\* failed, reads the row first.
FailJob(r) ==
    LET j == run[r].job
    IN /\ TaskOver(r)
       /\ (j \in Failing /\ UNCHANGED events) \/ Event("finish")
       /\ IF Exists(j)
          THEN /\ row[j].failures < MaxFailures
               /\ run' = [run EXCEPT ![r] =
                     [@ EXCEPT !.failures = row[j].failures,
                               !.stage = IF row[j].failures < MaxRestarts /\ j \in Safe
                                         THEN "retry" ELSE "count"]]
               /\ UNCHANGED <<queueVars, podVars, maintenanceVars>>
          ELSE End(r)
       /\ UNCHANGED row

\* The update that lets the job be queued again.
RetryJob(r) ==
    LET j == run[r].job
    IN /\ run[r].stage = "retry"
       /\ UpdateAndGo(r, j, [Release(row[j]) EXCEPT !.failures = run[r].failures + 1], "retried")
       /\ UNCHANGED events

\* Seeded fault: it releases the row again.
CountFailure_Releases(r) ==
    LET j == run[r].job
    IN /\ run[r].stage \in {"retried", "count"}
       /\ IF Exists(j)
          THEN /\ row' = [row EXCEPT ![j] = [Release(@) EXCEPT !.failures = run[r].failures + 1]]
               /\ End(r)
          ELSE Rejects(r) /\ UNCHANGED row
       /\ UNCHANGED events

\* The update that follows in any case, with the same count.
CountFailure(r) ==
    LET j == run[r].job
    IN /\ run[r].stage \in {"retried", "count"}
       /\ IF Exists(j)
          THEN /\ row' = [row EXCEPT ![j].failures = run[r].failures + 1]
               /\ End(r)
          ELSE Rejects(r) /\ UNCHANGED row
       /\ UNCHANGED events

EndUntracked(r) ==
    /\ run[r].stage = "untracked"
    /\ End(r)
    /\ UNCHANGED <<row, events>>

\* External: subscribe() has returned, and the runner deletes or commits the
\* message (or has done so before, without waitToCommit).
Acknowledge(w) ==
    /\ run[w].stage = "ended"
    /\ run' = [run EXCEPT ![w] = Idle]
    /\ UNCHANGED <<row, queueVars, podVars, maintenanceVars, events>>

\* A statement of the helper outside of its try is rejected.
StatementFails(r) ==
    /\ run[r].stage \in {"loaded", "retry", "retried", "count"}
    /\ Event("statement")
    /\ Rejects(r)
    /\ UNCHANGED row

\* A worker dies, or the acknowledgement fails.
WorkerDies(w) ==
    /\ run[w] # Idle
    /\ Event("worker")
    /\ Breaks(w)
    /\ UNCHANGED row

\* External: the message is delivered again while the worker goes on (the
\* visibility timeout has passed, the partition has gone to somebody else).
Redeliver(w) ==
    /\ run[w] # Idle
    /\ Event("redelivery")
    /\ ComesBack(run[w].job)
    /\ Counted(run[w].job)
    /\ UNCHANGED <<row, podVars, run, maintenanceVars>>

\* Time passes: the limit of 5 or 6 minutes, then a custom restart's.
GrowOld(j) ==
    /\ j \in slow
    /\ Queued(j)
    /\ row[j].age = "fresh" \/ (row[j].age = "late" /\ j \in Custom)
    /\ row' = [row EXCEPT ![j].age = IF @ = "fresh" THEN "late" ELSE "overdue"]
    /\ UNCHANGED <<queueVars, podVars, run, maintenanceVars, events>>

-----------------------------------------------------------------------------
\* initMaintenance(), in the pod that runs 'check': four passes, each of which
\* selects rows and then writes to them by id, whatever they have become.

InMaintenance(p) == run[p].stage = "running" /\ run[p].job \in Checks

\* Seeded fault: the laggy jobs are not restarted.
Selected_OnlyBlocked(n) ==
    CASE n = 1 -> {j \in Safe : Blocked(j)}
      [] n = 2 -> {j \in Risky : Blocked(j)}
      [] n = 3 -> {}
      [] n = 4 -> {}

\* The blocked jobs that are safe, the risky ones, the laggy jobs that are
\* safe, and the others that have a time of their own.  The last query needs
\* a safe job to exist, and leaves 'check' out.
Selected(n) ==
    CASE n = 1 -> {j \in Safe : Blocked(j)}
      [] n = 2 -> {j \in Risky : Blocked(j)}
      [] n = 3 -> {j \in Safe : Laggy(j)}
      [] n = 4 -> IF Safe = {} THEN {}
                  ELSE {j \in Custom \ (Safe \cup Checks) : Laggy(j) /\ row[j].age # "overdue"}

NextPass(p, left) ==
    /\ found' = [found EXCEPT ![p] = left]
    /\ pass' = [pass EXCEPT ![p] = IF left = {} THEN @ + 1 ELSE @]

SelectRows(p) ==
    /\ InMaintenance(p) /\ pass[p] < Passes /\ found[p] = {}
    /\ NextPass(p, Selected(pass[p] + 1))
    /\ UNCHANGED <<row, queueVars, podVars, run, events>>

\* The safe jobs are released by one update ...
RestartRows(p) ==
    /\ InMaintenance(p) /\ pass[p] \in {0, 2} /\ found[p] # {}
    /\ row' = [j \in Jobs |-> IF j \in found[p] /\ Exists(j) THEN Release(row[j]) ELSE row[j]]
    /\ NextPass(p, {})
    /\ UNCHANGED <<queueVars, podVars, run, events>>

\* ... and the others reset one by one.  computeNextRun() throws for a one-off
\* job, and the update for a row that is gone: both are logged.
ResetJob(p, j) ==
    /\ InMaintenance(p) /\ pass[p] \in {1, 3} /\ j \in found[p]
    /\ row' = [row EXCEPT ![j] = IF j \in once \/ @ = Gone THEN @
                                 ELSE [Release(@) EXCEPT !.failures = 0]]
    /\ NextPass(p, found[p] \ {j})
    /\ UNCHANGED <<queueVars, podVars, run, events>>

\* One that fails is logged; any other error ends maintenance.
ResetFails(p, j) ==
    /\ InMaintenance(p) /\ pass[p] \in {1, 3} /\ j \in found[p]
    /\ Event("maintenance")
    /\ NextPass(p, found[p] \ {j})
    /\ UNCHANGED <<row, queueVars, podVars, run>>

MaintenanceFails(p) ==
    /\ InMaintenance(p) /\ pass[p] < Passes
    /\ found[p] = {} \/ pass[p] \in {0, 2}
    /\ Event("maintenance")
    /\ pass' = [pass EXCEPT ![p] = Passes]
    /\ found' = [found EXCEPT ![p] = {}]
    /\ UNCHANGED <<row, queueVars, podVars, run>>

-----------------------------------------------------------------------------
RunStep(r) ==
    \/ AcceptJob(r) \/ FinishJob(r) \/ FailJob(r)
    \/ RetryJob(r) \/ CountFailure(r) \/ EndUntracked(r)

RoundStep(p) ==
    \/ Start(p) \/ FindCheck(p) \/ CreateCheck(p)
    \/ RunScheduledJobs(p)
    \/ \E js \in SUBSET Jobs : FetchAndEnqueueJobs(p, js)
    \/ \E j \in batch[p] : Publish(p, j) \/ TakeInline(p, j)
    \/ SelectRows(p) \/ RestartRows(p) \/ (\E j \in found[p] : ResetJob(p, j))
    \/ TerminateReturns(p)

Step ==
    \/ \E p \in Pods :
        \/ RoundStep(p)
        \/ RoundFails(p) \/ MaintenanceFails(p) \/ PodDies(p)
        \/ \E j \in batch[p] : PublishFails(p, j)
        \/ \E j \in found[p] : ResetFails(p, j)
        \/ Terminate(p) \/ \E value \in BOOLEAN : Pause(p, value)
    \/ \E w \in Workers :
        \/ Acknowledge(w) \/ WorkerDies(w) \/ Redeliver(w)
        \/ \E j \in Jobs : Take(w, j)
    \/ \E r \in Runners : RunStep(r) \/ StatementFails(r)
    \/ \E j \in Jobs : GrowOld(j)

Next == Step /\ UNCHANGED registered

SafeSpec == Init /\ [][Next]_vars

Enqueue(js) == \E p \in Pods, due \in SUBSET Jobs : due \cap js # {} /\ FetchAndEnqueueJobs(p, due)

\* Pods are started, pods and workers go on, time passes, and every dormant
\* row is queued in the end: it becomes due, and the query's limit does not
\* always pass it by.
Fairness ==
    /\ \A p \in Pods : WF_vars((RoundStep(p) \/ RunStep(p)) /\ UNCHANGED registered)
    /\ \A w \in Workers : WF_vars((RunStep(w) \/ Acknowledge(w)) /\ UNCHANGED registered)
    /\ \A j \in Late : WF_vars(GrowOld(j) /\ UNCHANGED registered)
    /\ \A j \in Jobs \ Inline : WF_vars((\E w \in Workers : Take(w, j)) /\ UNCHANGED registered)
    /\ \A j \in Jobs \ Checks : SF_vars(Enqueue({j}) /\ UNCHANGED registered)
    /\ SF_vars(Enqueue(Checks) /\ UNCHANGED registered)

Spec == SafeSpec /\ Fairness

-----------------------------------------------------------------------------
\* A run whose row is released already is over, but for counting its failure
\* and for the acknowledgement.
Over(r, j) == run[r].job = j /\ run[r].stage \in {"retried", "ended"}
Holders(j) == {p \in Pods : j \in batch[p] /\ ~Over(p, j)}
Takers(j) == {w \in Workers : run[w].job = j /\ ~Over(w, j)}
InFlight(j) == Cardinality(Holders(j)) + sent[j] + Cardinality(Takers(j))

\* Whatever dies or fails, and whatever becomes of other jobs: of a job that is
\* never late there is one run, with a pod, in the queue or with a worker, and
\* only while its row is queued; but for those the queue itself has made by
\* delivering a message again, of which none makes a second (the enqueue
\* query, publishMessages, timestampHelper).
SingleFlight ==
    \A j \in Jobs \ slow : InFlight(j) + (IF Queued(j) THEN 0 ELSE 1) <= 1 + returned[j]

\* The rows of jobs that are never late go round as docs/job.md says; a message
\* that is delivered again can end the next run of its job early, and nothing
\* else.
Lifecycle == INSTANCE JobLifecycle WITH
    Jobs <- Jobs \ Checks,
    again <- {j \in Jobs \ Checks : returned[j] > 0},
    state <- [j \in Jobs \ Checks |->
                 IF j \in slow THEN "dormant"
                 ELSE IF ~Exists(j) THEN "deleted"
                 ELSE IF ~row[j].queued THEN "dormant"
                 ELSE IF row[j].accepted THEN "accepted" ELSE "running"]
LifecycleImplemented == Lifecycle!LSpec

\* However late jobs are and whatever fails, two pods are never in maintenance
\* at once, as long as pods start one after the other: there is one row of
\* 'check', and it is never restarted (init, initMaintenance).  Pods that start
\* together create a row each, and do run maintenance at once.
MaintenanceAlone == \A p, q \in Pods : InMaintenance(p) /\ InMaintenance(q) => p = q

\* No maintenance is left to come: the row of 'check' is queued, and no pod
\* has it in its batch.
CheckStuck == \A c \in Checks : Exists(c) => Queued(c) /\ InFlight(c) = 0

\* A job that is safe to restart is not stuck, whether its message was not
\* sent or lost, its worker has died or it has failed too often: it is
\* restarted, unless 'check' itself is stuck (initMaintenance).
StuckJobsRestart == \A j \in Safe : j \in slow /\ Queued(j) ~> (~Queued(j) \/ CheckStuck)

\* What the comment on maxRestartsOnFailure says, of jobs that are never late:
\* they are not released once they have failed that often in a row.  A failure
\* that is counted late hides what later runs have counted.
CountKept ==
    [][\A j \in Jobs \ slow : Exists(j) /\ row'[j] # Gone /\ row[j].failures > row'[j].failures
          => row'[j].failures = 0]_vars

\* What the comment on terminate() says: when it has returned, no task that
\* the pod has queued is left to be executed.
TerminateWaits == \A p \in Pods : term[p] = "returned" => batch[p] = {}
=============================================================================
