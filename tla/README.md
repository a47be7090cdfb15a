# Verification of Steveo

TLA+ modules, TLC configurations and TLAPS proofs for the task queues of this
repository (`src/packages/*`): a job abstraction for Node over Kafka, SQS and
Redis, with workflows kept in a database and a scheduler of recurring jobs.

## The system

| Component | Code | State | Operations | Talks to |
|---|---|---|---|---|
| Lifecycle manager | `steveo/src/lib/manager.ts`, `consumers/base.ts`, `index.ts` | `_state` (running, paused, terminating, terminated) | `pause`, `resume`, `stop`, `shutdown`, `terminate`, `BaseRunner.stop` | read by the runner; drains the pools, closes the producer |
| Consumer pool | `steveo/src/lib/pool.ts` | lent resources, who waits for one; a list of all pools of the Node process | `acquire`, `release`, `drain` | SQS and Redis consumers, manager |
| Kafka consumer | `steveo/src/consumers/kafka.ts` | librdkafka's client, `processedOffsets`, the batch in hand | connect, `consumeCallback`, `processBatch`, `commitBatch`, `flushOffsets`, `reconnect`, `disconnect` | broker and group coordinator, manager, tasks |
| SQS consumer | `consumers/sqs.ts` | poll timer, in-flight messages, pool | `poll`, `dequeue`, `receive`, `deleteMessage`, queue creation | SQS, manager, tasks |
| Redis consumer | `consumers/redis.ts` | poll timer | `poll`, `dequeue`, `receive` | rsmq, manager, tasks |
| Producers | `producers/*.ts`, `lib/producer.ts` | connection, URLs of known queues | `initialize`, `send`, `stop` | brokers, middleware, registry |
| Tasks, registry | `runtime/task.ts`, `runtime/registry.ts` | registered tasks, event listeners | `publish`, `addNewTask`, `getTask`, `getTopic` | producers, consumers |
| Workflows | `steveo/src/runtime/workflow.ts` | none in memory; a row per workflow | `publish`, `subscribe`, load, execute, rollback, `publishNextStep` | storage, producer |
| Workflow storage | `storage-postgres/src` | the rows, one transaction per message | start, load, update of the step, results and errors, delete | Postgres |
| Job scheduler | `scheduler-sequelize/src`, `scheduler-prisma/src` | the jobs table; per pod a timer, `processing`, `exiting` | `init` (Prisma), enqueue round, publish, `timestampHelper`, maintenance, `pause`, `terminate` | Postgres, tasks |
| Middleware | `steveo/src/middleware.ts` | an index per call | `composePublish`, `composeConsume` | producers, consumers |
| Instrumentation | `statsd`, `datadog`, `newrelic`, `sentry`, `cloudwatch` | none | listeners of events | services |

What is hard about them, component by component; `PROJECT.json` lists every
hazard at its line.

* *Manager.* `stop()` is a polling loop over a state that the application and
  the runner write too. Two calls can overlap, the application can pause or
  resume in between, and the wait ends by force. Correct is: a call returns;
  the force is used after the whole wait and not before; when nobody interferes
  the process is terminated when the call returns and stays so.
* *Kafka consumer.* Batches are handled while the group revokes partitions,
  members are evicted, commits are queued, fail or arrive late, and processes
  crash. Correct is: no offset runs ahead of the processing, nothing below the
  committed offset is unhandled, everything is handled in the end, a
  termination leaves no handler behind.
* *SQS and Redis consumers.* A timer polls all topics at once, handlers run over
  a pool, messages come back when they were not deleted in time, batches are
  rejected halfway, and `stop()` waits for the state and for the pool. Correct
  is: a message is deleted only for a handler, or after one where it should be;
  it is handled again only after a fault; resources are given back; no handler
  runs when `stop()` has returned; every message is dealt with in the end.
* *Workflows.* One transaction per message, but the queue is not part of it:
  messages come twice, or before the commit of the transaction that sent them,
  and workers overlap. Correct is: steps run in order, the row tells the truth,
  results are kept, a failure turns the workflow back, every workflow ends.
* *Job scheduler.* Pods share a table, queue rows in a statement, publish them
  afterwards, and crash in between; workers and maintenance write to the same
  rows. Correct is: a run is in one place, the row follows its life cycle,
  retries are bounded, stuck jobs are restarted, maintenance runs alone. The
  Prisma scheduler has to keep the same with more and smaller statements.
* *Producers, tasks, middleware.* Calls of one process overlap in one producer;
  each sets its queue up in several requests, next to runners that set up the
  same one; a send goes through functions of the application, which get a
  `next()` to call as they please; and the sends of a call end one by one.
  Correct is: a message is sent at most once, a resolved call has sent all of
  its messages, every call settles, and a queue does not come to exist without
  its dead letter queue.

## The modules

| Module | What it is |
|---|---|
| `Manager` | the lifecycle manager of any number of processes |
| `ManagerProofs` | its theorems |
| `KafkaRunner` | the Kafka consumer group; EXTENDS `Manager` and uses its actions |
| `KafkaRunnerProofs` | its theorems |
| `ConsumerPool` | the pool of a consumer, and `stop()` with its pools; EXTENDS `Manager` |
| `SqsRunner` | the SQS consumer and its queues; EXTENDS `ConsumerPool` and uses its actions |
| `RedisRunner` | the Redis consumer and its queues; likewise |
| `SqsRunnerProofs`, `RedisRunnerProofs` | their theorems |
| `Workflow` | workflows, their workers, queue, rows and transactions |
| `WorkflowProofs` | its theorems |
| `JobLifecycle` | abstract: what a scheduled job promises |
| `JobScheduler` | the Sequelize scheduler: pods, workers, maintenance, rows and messages; implements `JobLifecycle` |
| `PrismaScheduler` | the Prisma scheduler, likewise; implements the same `JobLifecycle` |
| `JobSchedulerProofs`, `PrismaSchedulerProofs` | their theorems |
| `Middleware` | the chain of functions around a handler |
| `Queues` | how the queues of the four engines come to exist, by producers and runners |
| `Publisher` | publishing; EXTENDS `Middleware` and `Queues`, and drives both |
| `PublisherProofs` | its theorems, those about `Middleware` and `Queues` included |
| `MC*` | the module each configuration checks |

Operators whose comment begins with "Seeded fault" are not part of the
specifications. They are wrong versions of an action, written to see that a
property notices. Every module has a type invariant; it is proved, where there
is a proof module, and of the runs only `kafka_group` checks one: in the others
the place is given to properties that say more.

### Manager

`state` is `_state`, `call` the progress of each `stop()` call through
`shutdown()` and `count` the seconds it has waited (`count` of the code). `Stop`
is `stop()` up to the first look at the state, `ShutdownWait` one second of the
loop (the increment included), `ForceTerminate` its way out at
`terminationWaitCount`, `ShutdownSeen` the other one, `FinishStop` the draining
of pools and the closing of the producer. `Pause`, `Resume` and `RunnerStop`
are as blunt as the code: none of them looks at the state. The application
calls `LifecycleCalls` before and `LateCalls` after the first `stop()`.
`Manager` is checked and proved through the runners that drive it: they use its
actions, and a lemma of each proof module (`ImplementsManager`) carries what is
proved of `MSafeSpec` over to the runner.

### ConsumerPool

`lent`, `line` and `draining` are the generic-pool of every instance. The way
out of the wait looks, in one go, at all pools of the Node process (`Host`) and
drains those that have lent something; `FinishStop` waits until what was told
to drain has everything back. A draining pool rejects `acquire()`. `leaked`
counts the resources whose handler has ended without a release (`Leak`): they
are out for good. The timeouts of generic-pool are not modelled: the defaults of
the repository set none.

### SqsRunner

`loop` is the chain `poll` - timer - `process`; `lane` is what one call of
`process` does with every topic (`bluebird.map`, at most `PoolMax` at once); and
`stage` is where every message stands in `receive` and `processMessage`. A batch
and the part of it that is begun at once arrive in a single step
(`Receive(p, t, batch, first)`), since nothing is awaited in between: when that
part has a malformed message, `receive` is rejected, its other elements go on as
`stray`, and what was not begun is dropped. `Refuse` is the look at the state
before the resource, `Acquired` the moment the resource is there, from where
`waitToCommit` decides on `deleting` or `handling` first. A body that is the
JSON `null` can be parsed, but is taken apart between `acquire()` and the `try`
(`sqs.ts:99`): `ThrowsOnNull` rejects the batch and leaks the resource. Which of
the messages in `Null` are (`null`) is chosen at the start, so that each run
covers both. A message in the queue
is visible, deleted, or invisible with the instance that received it last; a
deletion by an older receipt may be without effect (`Removed`). An instance is
not given a message that it still has in its hands: this leaves out two
handlers of one message in one instance, but not in two instances. `faults`
counts what may make a message come back or get lost, so that the properties
can say "only after a fault".

### RedisRunner

The same variables, with the differences of the code: one message per topic and
poll, the state read only in `poll()`, deletion always before the handler, and
`receiveMessage()` uncaught: `ReceiveFails` leaves the loop `broken`, with what
the other topics have begun going on. A null body is a malformed one here: it
throws inside the `try`, and nothing leaks.

### KafkaRunner

A loop of a process (`Loops`) is fetching, in its callback, processing a batch,
or sleeping (paused). `Ready` is the handler of `'ready'`: it subscribes and
starts a loop, so a process that reconnects has two. `Deliver` hands
`consumeCallback` what librdkafka has fetched, over all partitions, up to the
batch size. The callback then takes one of its four ways out
(`CallbackTerminates`, `CallbackPaused`, `CallbackRuns` with and without
messages). `Settle` is the end of one handler, well or badly: the code commits
either way. `CompleteBatch` is what follows `Bluebird.map`: `commitBatch`
queues a commit per partition, records it in `processedOffsets`, and consumes
again; without a connection `commitMessage()` throws, so that nothing is queued
or recorded and only the `finally` consumes again. `AfterDisconnect` is what the
`disconnect()` of `shutdown()` does to the client: a `reconnect()` under way
goes on, and its `'ready'` starts a loop that ends at its next callback.
`Revoke` is the rebalance handler with the whole of `flushOffsets`.

External, as the code uses it: the group coordinator (`Assign`, `Evict`,
`Rejoin`; a commit is taken from any live member, whoever owns the partition),
the fetch position, the client's queue of commits (`BrokerCommit`,
`CommitFails`), and crashes.

### Workflow

`row` is the committed table. A worker's handler goes through the stages load,
execute, read and write (`storeStepResult` reads the results and writes them
back), publish, error, rollback and commit. Its transaction sees `copy` once it
has updated the row, and what is committed before; `lock` is the row lock from
the first update on, `Commit` and `Abort` are the ends of the transaction.
The queue is a set of messages outside of it, to which a message comes back
when its handler is slow (`Redeliver`) or fails (`RetryFailed`: true for SQS
with `waitToCommit`, false for Kafka and for SQS without it). Results are known
by their step and the list of errors by whether it is empty: no property looks
at their content. `Void` are the steps that return nothing, because
`executeNextStep` looks at the truthiness of results.

### JobScheduler

A row is whether it is queued, whether it was accepted after it was last
queued, how late it is, and its failures in a row; `Gone` is the deleted row of
a one-off job. `FetchAndEnqueueJobs` is the one UPDATE of
`enqueue_jobs_query.ts`, `Publish` and `PublishFails` the two ends of one turn of
the loop in `publishMessages`, which awaits one row after the other, in any
order; `AfterRound` is what arms the timer again or not. A worker's run loads
the instance (`Take`), accepts, executes and writes the end (`FinishJob`,
`FailJob` with the decision to retry, `FinishFails` when the update of a
success is rejected); as in Sequelize, an instance writes the fields that differ
from what it was loaded with, those that a rejected update has not saved among
them, which is why `Released` needs the loaded value of `queued`. The row is
written by then, but the message is acknowledged by the runner when
`subscribe()` has returned: the run is `ended` until `Acknowledge`. A worker may
die in each of its stages (`WorkerDies`), the last included, and a message may
be delivered again without that (`Redeliver`). `returned` counts the messages
that came on top of a run in this way, so that the properties can say "but for
those"; a message that comes back instead of its run is none of them. The check
job is executed in the pod and goes through the five statements of
`initMaintenance` one by one, any of which may fail (`MaintenanceFails`,
`ResetFails` for a single reset), as may those of `timestampHelper` around it
(`CheckFails`). Every delay until a row is due is possible; how
long it has been queued or accepted has three ages, fresh, late (over the limit
of the scopes) and overdue (over the restart time of the job's own).

`JobLifecycle` is the promise: dormant, running, accepted, dormant again, or
deleted if it is a one-off job, one run at a time. Only a job of which a message
was delivered on top of a run (`again`) may end a run out of turn; even that
queues none and brings no deleted job back. The mapping is one CASE over the
row, with `returned` for `again`. Which jobs are one-off (`once`) is chosen at
the start.

### PrismaScheduler

The same table and life cycle, and its own code throughout. `FindCheck` and
`CreateCheck` are the two statements of `init()`: there may be no row of check
yet, and `Checks` are the rows that may be created for it. `publishMessages`
awaits one row after the other, so `batch` is worked off in any order but one
at a time: `Publish` sends a message, `TakeInline` runs a job inside the pod,
which check always is. `timestampHelper` is the same in pods and workers
(`Runners`), statement by statement: `Load`, `AcceptJob`, the task, `FinishJob`
or `FailJob` (which reads the row again), `RetryJob` (which releases it) and
`CountFailure` (which writes the count that was read, in any case). `End` is the
return of the helper, after which the message of a worker is yet to be
acknowledged (`Acknowledge`), as in `JobScheduler`. An update by id fails when
the row is gone (`UpdateAndGo`); unlike in Sequelize it writes its fields
whatever was loaded. When a statement rejects the helper (`StatementFails`,
`Rejects`), or a worker dies, at any stage, the message is lost or comes back
(`Breaks`), and `returned` counts it when the row had been released by then. Maintenance has four passes, each of which selects
rows (`SelectRows`) and then writes to them: the restarts in one update
(`RestartRows`), the resets one by one (`ResetJob`). `Events` are the faults and
calls of the application that may happen: `"round"` an error of `init()` or of
the query, `"publish"`, `"finish"`, `"statement"` and `"maintenance"` one of a
later statement or send, `"pod"` and `"worker"` a crash, `"redelivery"` a second
delivery, `"pause"` and `"terminate"`. Only jobs in `slow` are ever late; which these are, and which
jobs are one-off, is chosen at the start, so that one run covers both.

### Middleware, Queues and Publisher

`Middleware` is `dispatch()`: a run of the chain has dispatched its links up to
`index`, and each link (a function, or the handler at the end) is running or has
ended. A function is orderly (calls `next()` once and ends as it ended), wild
(calls it at any time, also after it has returned, and ends as it likes) or
absent, where the chain ends without a word (`if (!fn) return`).

`Queues` is `initialize()` of the four producers and `createQueue()` of the
runners, one request per step (`stage`): for SQS the URL, the dead letter
queue's URL or creation, its ARN, and the queue with its `RedrivePolicy`; for
Redis the list, and a creation that the producer does not await (`creating`) and
the runner does; for Kafka the runner's topic, and the producer's connection,
with `'ready'`, errors and `connectionTimeout`. `SupportsDlq` has the name under
which the task is asked for: the producer asks for that of the queue.

`Publisher` composes them. A call of `Task.publish()` initializes its topic and
sends all payloads at once, `Steveo.publish()` (`Direct`) sends without. Each
send runs the chain, and its handler is `send()`'s: SQS sets the queue up if it
does not find the URL (`UrlKnown`: a FIFO task's never), Kafka wants a
connection, Redis asks for the attributes afterwards. `CallEnds` is
`Promise.all`. `engine`, `fifo` (which tasks are FIFO), `nature` and `callOf`
(who sends what) are chosen at the start.

## The runs

| Run | Instance | Shows |
|---|---|---|
| `kafka_group` | 2 processes, 1 partition of 2 messages, 2 revocations or evictions, a crash, failing commits | offsets are covered, everything is handled |
| `kafka_lifecycle` | 1 process, 2 stop() calls, pauses, resumes, a failing connection, one reconnect and so two loops, 1 revocation | termination is graceful, each stop() leaves the process terminated, no batch is started after it, and it returns |
| `sqs_delivery` | 2 processes, 2 topics (one with `waitToCommit`), 3 messages (one malformed, one null or not), batches of 2, 1 resource, 1 fault of any kind | nothing deleted unhandled, handled again only after a fault, everything dealt with, unless a null payload has taken a whole pool |
| `sqs_stop` | 1 process, 1 stop() call, 1 topic, 4 messages (one malformed, one null or not), batches of 3, 2 resources, pauses | only handlers and null payloads have resources, no handler (stray or not) is left when stop() returns, and it returns unless a resource is lost |
| `redis_stop` | 1 process, 2 stop() calls, pauses before and after, late resumes, 2 topics, 2 messages (one malformed), 2 faults of any kind | force only after the whole wait, the loop ends without handlers, messages are deleted for a handler only, every call returns |
| `workflow_sequential` | 3 steps, 2 workflows, 1 worker, 3 redeliveries, 2 aborts, failing steps, rollbacks and sends | results kept, completion truthful, failure only goes back |
| `workflow_overlapping` | 3 steps, 1 workflow, 3 workers of 2 services, 1 redelivery, 1 abort, a failing step and failing sends | no step skipped, nothing announced or recorded before its execution, and the workflow ends |
| `workflow_rollback` | 3 steps, 1 worker | **violated**: only one rollback is ever called |
| `scheduler_rounds` | check and a failing job, one-off or not, 2 pods, 2 workers, 1 fault of any kind (a death before the acknowledgement and a second delivery included), one pod paused or told to terminate | a run is in one place, retries are bounded, `JobLifecycle` is implemented, the pod stops |
| `scheduler_restarts` | check and a safe, failing job, one-off or not, both late at any time, 2 pods, 1 worker, 1 fault of any kind but those of the query | maintenance runs alone, a stuck safe job is restarted |
| `prisma_rounds` | 2 pods that start from an empty table, 1 worker, 1 failing job in both lists of restarts, late or not, one-off or not, 1 fault (likewise) or call of any kind | a run is in one place, maintenance runs alone, a stuck job is restarted, `JobLifecycle` is implemented |
| `publishing` | 1 topic with a dead letter queue, FIFO or not, any engine, 1 middleware of any nature, 2 messages of one call or of two, 1 runner, 1 failing request or disconnection | a message is sent at most once, a resolved call has sent its messages, the dead letter queue is not forgotten, every call settles |

**Why the bounds are enough.** The offsets argument concerns one partition and
one message below another, hence two messages in a batch; two owners are needed
for a flush and a late commit to meet; a second revocation lets a partition
come back. Two `stop()` calls make the second meet each stage of the first. Two workers let a
message that was delivered again meet the run it was made for, and the next one
of its job. One null payload is enough to lose a resource while others wait. Three
handlers for two resources make one wait in line, a malformed message next to
others makes strays, and two instances let one take over what the other was too
slow for; one fault is enough for each way a message can come back. A
workflow can confuse the step before, the step itself and the step after, so
three steps; a third worker for a message that overlaps two others. In the scheduler a fault leaves
one job behind while another goes on, two pods compete for it, and two jobs
make up a batch. Two rows of check are one more than there should be; with
Prisma one job in both lists of restarts meets all passes of maintenance but the
last, which its safety properties also pass with (`Custom = {check, job}`). Of a
publication, two sends are enough for one to end before the other, and a second
call and a runner for every way in which set-ups of one queue can overlap; one
middleware can do all that several can to one index. `MaxFaults`, `MaxEvents`,
`MaxSent` and `MaxFailures` only cap what the guards of the code do not bound. The theorems below hold without any of these bounds.

`CHECK_DEADLOCK FALSE` everywhere, because these systems do stop: all processes
are terminated or crashed, all messages handled, all pods stopped, or a bound
is used up.

**Fairness.** Timers fire, promises settle and callbacks are called: weak
fairness on each process's own steps. `Deliver` is strongly fair because
`consume()` may time out again and again, but not for ever while messages are
there; `Receive` in `Workflow` because a queue delivers every message although
workers are busy with others in between, and `ReceiveFirst` of SQS and `Receive`
of Redis for the same reason: a visible message is given to those who ask. In both
schedulers the enqueue query is strongly fair for each dormant row: it becomes
due, and the LIMIT, which has no ORDER BY (`enqueue_jobs_query.ts:31`), does not
pass it by for ever. The latter is an assumption on Postgres and not a fact of
the code. `PrismaScheduler` has its pods started, also again. In `Publisher`
every request is answered and every middleware ends, but a wild one need not
call `next()`; `Ready` is not fair, because a connection may never come: the
wait ends by `ConnectFails`, that is by `connectionTimeout`. No fairness is
assumed of faults, of the application's calls, nor of `CommitFails`, `Evict`,
`Abort`.

## What is proved

TLAPS checks the following for every number of processes, calls, partitions,
messages, steps, workers, jobs and faults, from the named assumptions of the
modules alone, unless a condition is given. Every invariant and action property
of the passing runs is stated by a theorem, as is each refinement. The invariants
of the proofs were first checked by TLC on the instances of the runs.

**`ManagerProofs`**: `ManagerTypeCorrect`, `StopTerminates` (`StopLeavesTerminated`
is inductive once the calls that are still waiting or draining are related to
the state), `ForcedWhenExhausted` (an action property, step by step).

**`KafkaRunnerProofs`**: `TypeCorrect`; `OffsetsNeverAhead`: committed, queued and
flushable offsets have only handled messages below them. That is not
inductive, because a commit takes the offset of a batch and not of what lies
below it. The invariant `Inductive` adds that an owner that may still fetch
has dealt with everything below its position, that a batch in hand has
nothing open below it, and that what is not left of a batch is handled
(`PositionCovered`, `BatchCovered`, `BatchInHand`). From it follows
`NothingLostUnpaused` (without `pause` nothing is ever dropped), which no run
repeats: on its instance it would say what `OffsetsCovered` says. The theorems of
the manager hold of the consumer too (`StopTerminatesConsumer`), and since only a
running process takes a batch into its hands, `NoBatchOnceStopped`.
`TerminatesGracefully`: only a loop that stops terminates the process without
force, and only a batch in hand has handlers (`LoopStopped`).

**`SqsRunnerProofs`**: `SqsTypes`, and four arguments.
* `NeverLost` by `CommitSound`: a handler that waits to delete its message, or
  has deleted one, has started or succeeded with it, stage by stage.
* `RepeatsNeedFaults` by `BudgetKept`, a count. The starts of a message's
  handler, the handlers that may still start (`Pending`) and one more if the
  message can be received again (`Spare`) are together at most one more than the
  faults. Every step that makes a message visible again has to be a fault, or to
  take the place of a handler that has not started: this is where a rejected
  batch and a drained pool come in.
* `ResourcesAreHeld` by `AllHeld`: who holds a resource is known by the stage,
  the line is empty while something is free, and what is out without a holder
  was leaked by a null payload.
* `StopIsQuiet` by `Calm`: a call that has seen the pools drained leaves nobody
  with a resource, and nobody gets one in a terminated instance, for
  `acquire()` comes after the look at the state. This needs
  `StopLeavesTerminated`, which comes from the manager (`ImplementsManager`).

**`RedisRunnerProofs`**: `RedisTypes`; `DeletesForHandler` by the same count;
`EndsGracefully` by `LanesKept` (one message at a time in the lane of its topic,
and a loop that waits or has ended has left no lane behind); `ForcedAfterWait`
from the manager's theorem, by refinement.

**`WorkflowProofs`**: `TypeCorrect`, `StepsInOrder`, `AnnouncedAfterExecution`,
`RowsTruthful`, for any number of overlapping workers. They share one inductive
invariant, `Sound`, because none is inductive alone: what a worker is about to
write was read before others committed. `Sound` says what each worker has in its
hands: the step it has loaded was reached, the step it executed is executed, the
results it has read are of executed steps, its locked copy of the row is
truthful, and the message it carries was announced. Even `TypeOK` needs this,
because a publication goes one step further and a rollback counts down.
`ResultsAreKept`, `CompletedWhenDone` and `OnlyGoesBack` add `RowsWhole`: the row,
and the copy in hand, have the results of all steps passed, and a copy of a
failed row only goes back. They are about the behaviours in which no two
workers handle messages of the same workflow at once (`[]Separate`; with one
worker, as in `workflow_sequential`, all are), while the workers of different
workflows, redeliveries and aborts stay free. The condition is needed: with two
workers, four steps and one redelivery TLC finds a worker that lags behind with
step 3 write the results it had read over those of the other, which has executed
step 4 and completed the workflow, so that the result of step 4 is gone
(`storeStepResult` reads, and later writes, the whole list). No document promises
otherwise.

**`JobSchedulerProofs`**: `SchedulerTypes` and `OneMaintains` hold however late
jobs are, by `Sound`: a worker's and a pod's view of a row agree with what they
are doing, and a pod in maintenance has the row of check in its batch, which
stays queued, so that no other pod can enqueue it. `OnTimeSingleFlight` is
about each job that is never late (`Jobs \ Late`), whatever becomes of the
others, by `JobSound(j)`, a count: holders, messages and runs that have not ended
are tokens, a row that is not queued is one more, and there are never more than
one and those that were `returned`. Enqueuing trades the row's token for a
holder's, publication a holder's for a message's, and so on to the end of the
run, which gives it back to the row; what the queue delivers again, before or
after the acknowledgement, brings one of its own. Where no job is late
(`Late = {}`) it gives `SingleFlights`, `Restarts` (where jobs may be retried at
all: with `MaxRestarts = 0` the failure that a rejected update of a success
leaves is one too many) and `RowsGoRound`, the refinement of `JobLifecycle` step
by step. The condition is that of the properties: a late job is restarted on the
guess that its run is dead, and the guess may be wrong (`RestartsBounded` fails
in `scheduler_restarts`, see below).

**`PrismaSchedulerProofs`**: `PrismaTypes`; `OneMaintains` where pods start one
after the other (`~Together`: `init()` finds the row and creates it in two
statements, and two rows are two maintenances, see below), by `OneCheck`;
`SingleFlights` and `RowsGoRound` for the jobs that are never `slow`, whatever
dies or fails, by the same count. The inductive `OnTime` follows a run statement
by statement, because the row, the message and the runner change one after the
other here.

**`PublisherProofs`**: `PublisherTypes` by `SendsSound`: what is running of a chain
agrees with its `index`, and the handler has started exactly if `index` has
reached it. Since `index` only grows it starts once, and `SentOnce` follows, for
middleware of any nature. `SuccessDelivered` by `DeliveryInv`: the links of an
orderly chain end as the one behind them, so a success comes from the handler,
and that has sent. `RedriveAlways` by `RedriveInv`: whoever is about to create a
queue with a dead letter queue has its ARN in hand, from a queue that exists.

**Only model-checked** are the liveness properties (`EveryMessageHandled`,
`EveryMessageDeleted`, `StopAlwaysReturns`, `WorkflowSettles`, `TerminateStops`,
`StuckJobsRestart`, `PublishSettles`): fairness and ENABLED are beyond the
prover. So is, by its nature, the counterexample of `workflow_rollback`.

## Where code and documents part

One disagreement is a run of its own (`workflow_rollback`, with the lines in
`PROJECT.json`). The following were met too; the property is defined in the
module, under a comment that says so, and fails with the constants given.

| Property | Constants | What happens |
|---|---|---|
| `NothingLost` | `kafka_group` with `LifecycleCalls = {"pause", "resume"}` | a paused callback drops its messages, and later batches commit past them (`kafka.ts:328`) |
| `NothingLost` | `kafka_group` with `MaxLoops = 2` | one loop commits past the batch in the other's hands (`kafka.ts:399`) |
| `FlushedOffsetKept` | `kafka_group` | the commit of a batch in hand follows the flush of its partition and moves the offset back (`kafka.ts:260`) |
| `NoHandlerAfterStop` (`RedisRunner`) | `redis_stop` with `LateCalls = {}` | the wait ends by force while a message is being received; its handler starts after the pool was looked at (`manager.ts:50`) |
| `NoReexecution` | `workflow_sequential` | a redelivered message executes a step that has its result (`workflow.ts:321`) |
| `OnlyDisorderRefused` | `workflow_sequential` with `Void = {1}` | a step that returns nothing makes the step after the next be refused (`workflow.ts:323`) |
| `InputIsPreviousResult` | `workflow_sequential` | step by the row, payload by the message (`workflow.ts:330`) |
| `PublishedAfterUpdate` | `workflow_overlapping` | the message is out before the commit (`workflow.ts:348`) |
| `RollbackErrorRecorded` | `workflow_sequential` | a throwing rollback undoes the record of its error (`workflow.ts:411`) |
| `FailedOnlyGoesBack` | `workflow_overlapping` | a worker that loaded the row before the failure goes on with its step (`workflow.ts:269`) |
| `TerminateWaits` | `scheduler_rounds` | `terminate()` returns while the query is in flight (`index.ts:449`) |
| `RestartsBounded` | `scheduler_restarts` with `MaxFailures = 2` | the laggy restart does not look at failures (`maintenance.ts:108`) |
| `BlockedResetUnaccepted` | `scheduler_restarts` | a blocked job that was accepted meanwhile is reset (`maintenance.ts:99`) |
| `RiskyRunsAlone` | `scheduler_restarts` with two workers and `Safe = {}` | a reset risky job runs twice (`maintenance.ts:97`) |
| `CustomRestartWaits` | `scheduler_restarts` with `Safe = {}` | a job with a restart time of its own is restarted before that time, and never after it (`maintenance.ts:138`) |
| `TerminateWaits` (`PrismaScheduler`) | `prisma_rounds` | as above (`scheduler-prisma/src/index.ts:468`) |
| `MaintenanceAlone` (`PrismaScheduler`) | `prisma_rounds` with `Together = TRUE` | two pods that start at once create a row of check each (`index.ts:423`) |
| `CountKept` | `prisma_rounds` with two workers | a failure is counted by what was read before the row was released, over what a later run has counted (`helpers.ts:230`) |
| `FailureMeansNotSent` | `publishing` | a rejected `publish()` has sent some of its payloads (`task.ts:72`), or even all (Redis reports a failing `getQueueAttributes` as one of sending, `redis.ts:54`) |
| `RedriveForAll` | `publishing` | the producer asks for the task of `<topic>.fifo`, so a FIFO queue gets no dead letter queue (`producers/sqs.ts:97`); the runner gives it one that is not FIFO (`consumers/sqs.ts:356`), which SQS refuses |
| `NothingRefused`, `NothingUnhandled` | `publishing` | the Redis producer sends before the queue exists, and a rejected creation is an unhandled rejection (`producers/redis.ts:37`) |

Met while reading, and without a property that fails:

* A message whose body is the JSON `null` costs the SQS consumer a resource at
  each delivery, rejects its batch and is never deleted; `stop()` does not return
  from draining such a pool, and when all its resources are gone nothing is
  handled anymore (`sqs.ts:99`, before the `try`). It is in the model
  (`ThrowsOnNull`), and `ResourcesHeld`, `EveryMessageDeleted` and
  `StopAlwaysReturns` allow for it and for nothing else: once null payloads have
  taken an instance's whole pool `EveryMessageDeleted` promises nothing more.
* In both schedulers the message of a job is acknowledged after its row was
  released: a worker that dies in between, or is too slow, has the job run once
  more, at any time (`sqs.ts:133`). It is in the models (`returned`), and the
  properties allow for it.
* The `stop()` of one instance drains the pools of all instances of its Node
  process, which can handle nothing anymore (`pool.ts:44`, `manager.ts:47`).
* In both schedulers a pod that dies with check queued leaves it so, and nothing
  restarts check (`maintenance.ts:125`); hence `CheckStuck`.
* The Prisma scheduler reports the success of a one-off job as a failure, in the
  `duration` event: the row is deleted, and computing its next run throws
  (`helpers.ts:269`). It has the minutes of `blockedInMinutes` and
  `lagInMinutes` hard-coded (`maintenance.ts:24`), and skips the jobs with a
  restart time of their own when `jobsSafeToRestart` is empty
  (`maintenance.ts:118`). A recurrence that has ended gives `undefined` as the
  next run, which an update takes as leaving the old one (`helpers.ts:105`).
* Producer and SQS runner create the same queue with different attributes when
  the configuration has none: the producer has defaults (`producers/sqs.ts:89`),
  the runner has not (`consumers/sqs.ts:422`).
* Kafka emits `producer_success` and `producer_failure` twice per message
  (`producers/kafka.ts:115`, `118`, `134`, `143`).
* A middleware without the function for publishing ends the chain, and well: the
  message is not sent and the call resolves (`middleware.ts:16`). This is why
  `SuccessMeansDelivered` is about orderly middleware.

## What is not modelled

* Of Kafka: `healthCheck`, and the promise of `process()`, which nobody awaits.
  Of SQS: `healthCheck` and the cache of URLs that a poll looks into. Of
  workflows: arrays of payloads, topic names.
* Of the schedulers: recurrences (every delay is possible), namespaces, the
  events they emit. Of the Sequelize one also tasks other than check that are
  run inside the pod, and the creation of the check row (one exists): Prisma's
  are modelled.
* Of publishing: payloads, metadata, events, topics that carry the suffix `.fifo`
  themselves, middleware that changes the context, and `composeConsume`, which
  is the code of `composePublish` once more. `registerTopic()` is a `publish()`
  without payloads; the instance has none. The registry only as far as a task is
  known by its topic: tasks are registered before anything is published.
* Configuration, context, formatters, loggers and instrumentation: values,
  wording and listeners, without a state that the rest depends on.

## Plan

Every component of the list is modelled and checked, and its invariants are
proved. Left, in this order:

1. Sharper conditions: the single flight of a job of the Sequelize scheduler from
   the moment it was last late.
2. Consequences of `JobLifecycle` itself, once for both schedulers.
3. The steps under the liveness arguments that are not temporal: that the wait of
   a `stop()` call counts down, and that the workflow's row never leaves its end.
