------------------------------- MODULE Workflow -------------------------------
(***************************************************************************)
(* Workflows (packages/steveo/src/runtime/workflow.ts) whose state is kept  *)
(* in Postgres (packages/storage-postgres): every message of a workflow is  *)
(* handled in one database transaction that loads the state, executes the   *)
(* step the state points to, stores its result, moves the pointer and       *)
(* publishes the message of the next step, or rolls back.                   *)
(*                                                                         *)
(* Several workers take messages from the queue.  The transactions read     *)
(* what is committed, and a row is locked from its first update to the end  *)
(* of the transaction.  The queue is not part of the transaction.           *)
(*                                                                         *)
(* External: the queue delivers a message again when its handler is slow,   *)
(* fails (RetryFailed) or crashes; duplicates of a message are one element. *)
(* The content of results and errors is left out: a step's result is known  *)
(* by its step, the list of errors by whether there are any.                *)
(***************************************************************************)
EXTENDS Naturals, FiniteSets

CONSTANTS
    N,                \* the number of steps
    Ids,              \* the workflow ids (v4()) that can be made up
    Workers,          \* handlers that can run at the same time
    Service,          \* the options.serviceId of every worker
    Void,             \* steps whose execute() returns nothing, or a falsy value
    FailingSteps,     \* steps whose execute() may throw
    FailingRollbacks, \* steps whose rollback() may throw
    SendMayFail,      \* whether producer.send() may fail
    RetryFailed,      \* whether the message of a failed handler comes back
    DeleteOnComplete, \* options.deleteOnComplete
    MaxRedeliveries,  \* bound: messages delivered again while being handled
    MaxAborts,        \* bound: transactions that time out, workers that crash
    NoId, NoRow, NoWorker

Steps == 1 .. N

ASSUME StepsAssumption == N \in Nat \ {0}
ASSUME WorkerAssumption == NoWorker \notin Workers /\ NoId \notin Ids
ASSUME WorkflowBounds == MaxRedeliveries \in Nat /\ MaxAborts \in Nat
ASSUME SwitchAssumption == {SendMayFail, RetryFailed, DeleteOnComplete} \subseteq BOOLEAN
ASSUME ServiceAssumption == Service \in [Workers -> {Service[w] : w \in Workers}]

\* A row of the table; `failed` says whether there are errors.
Row == [service : {Service[w] : w \in Workers}, current : Steps, results : SUBSET Steps,
        failed : BOOLEAN, completed : BOOLEAN]

ASSUME RowAssumption == NoRow \notin Row

VARIABLES
    row,          \* the committed row of every workflow
    lock,         \* the worker whose transaction has locked it
    used,         \* the ids that have been made up
    queue,        \* the messages waiting for a worker
    pc,           \* where every worker's handler stands
    msg,          \* the message it handles
    id,           \* the workflow it handles
    step,         \* the step it has loaded (context.step)
    read,         \* the results storeStepResult() has read
    copy,         \* the row as its transaction sees it, once it is locked
    left,         \* the rollback loop's remaining turns
    executed,     \* the steps that were executed successfully, ever
    rolledBack,   \* the steps whose rollback was called, ever
    redeliveries, \* how many there have been
    aborts        \* how many there have been

vars == <<row, lock, used, queue, pc, msg, id, step, read, copy, left,
          executed, rolledBack, redeliveries, aborts>>

Message == [id : Ids \cup {NoId}, step : Steps]
StartMessage == [id |-> NoId, step |-> 1]
Stage == {"idle", "load", "execute", "read", "write", "publish", "error", "rollback", "commit"}

TypeOK ==
    /\ row \in [Ids -> Row \cup {NoRow}]
    /\ lock \in [Ids -> Workers \cup {NoWorker}]
    /\ used \subseteq Ids
    /\ queue \subseteq Message
    /\ pc \in [Workers -> Stage]
    /\ msg \in [Workers -> Message]
    /\ id \in [Workers -> Ids \cup {NoId}]
    /\ step \in [Workers -> Steps]
    /\ read \in [Workers -> SUBSET Steps]
    /\ copy \in [Workers -> Row \cup {NoRow}]
    /\ left \in [Workers -> 0 .. N]
    /\ executed \subseteq Ids \X Steps
    /\ rolledBack \subseteq Ids \X Steps
    /\ redeliveries \in 0 .. MaxRedeliveries
    /\ aborts \in 0 .. MaxAborts

\* A producer has published the start of a workflow.
Init ==
    /\ row = [i \in Ids |-> NoRow]
    /\ lock = [i \in Ids |-> NoWorker]
    /\ used = {}
    /\ queue = {StartMessage}
    /\ pc = [w \in Workers |-> "idle"]
    /\ msg = [w \in Workers |-> StartMessage]
    /\ id = [w \in Workers |-> NoId]
    /\ step = [w \in Workers |-> 1]
    /\ read = [w \in Workers |-> {}]
    /\ copy = [w \in Workers |-> NoRow]
    /\ left = [w \in Workers |-> 0]
    /\ executed = {}
    /\ rolledBack = {}
    /\ redeliveries = 0
    /\ aborts = 0

Go(w, stage) == pc' = [pc EXCEPT ![w] = stage]

\* The row as worker w's transaction sees it, and whether it may update it.
Seen(w) == IF lock[id[w]] = w THEN copy[w] ELSE row[id[w]]
MayUpdate(w) == lock[id[w]] \in {w, NoWorker}

Update(w, r) ==
    /\ MayUpdate(w)
    /\ lock' = [lock EXCEPT ![id[w]] = w]
    /\ copy' = [copy EXCEPT ![w] = r]

\* workflowInit(), updateWorkflowCompleted(), rollbackStepExecute(): the rows
\* they write.
NewRow(w) == [service |-> Service[w], current |-> 1, results |-> {},
              failed |-> FALSE, completed |-> FALSE]
Completed(r) == [r EXCEPT !.completed = TRUE]
SteppedBack(r, s) == [r EXCEPT !.current = s - 1]

\* The end of a handler: it forgets what it has worked with.
Leave(w) ==
    /\ Go(w, "idle")
    /\ msg' = [msg EXCEPT ![w] = StartMessage]
    /\ id' = [id EXCEPT ![w] = NoId]
    /\ step' = [step EXCEPT ![w] = 1]
    /\ read' = [read EXCEPT ![w] = {}]
    /\ copy' = [copy EXCEPT ![w] = NoRow]
    /\ left' = [left EXCEPT ![w] = 0]
    /\ lock' = [i \in Ids |-> IF lock[i] = w THEN NoWorker ELSE lock[i]]

\* subscribe() rejects: the transaction is rolled back, and the runner
\* delivers the message again or not.
Throw(w, again) ==
    /\ Leave(w)
    /\ queue' = IF again THEN queue \cup {msg[w]} ELSE queue
    /\ UNCHANGED <<row, used, executed, rolledBack, redeliveries>>

-----------------------------------------------------------------------------
\* Bound: a start is only taken when there is an id left for it.
IdLeft == Cardinality({w \in Workers : pc[w] = "load" /\ msg[w].id = NoId})
             < Cardinality(Ids \ used)

Receive(w, m) ==
    /\ pc[w] = "idle"
    /\ m \in queue
    /\ m.id = NoId => IdLeft
    /\ queue' = queue \ {m}
    /\ msg' = [msg EXCEPT ![w] = m]
    /\ id' = [id EXCEPT ![w] = m.id]
    /\ Go(w, "load")
    /\ UNCHANGED <<row, lock, used, step, read, copy, left, executed, rolledBack,
                   redeliveries, aborts>>

\* The handler takes too long for the queue (visibility timeout, rebalance).
Redeliver(w) ==
    /\ pc[w] # "idle"
    /\ redeliveries < MaxRedeliveries
    /\ redeliveries' = redeliveries + 1
    /\ queue' = queue \cup {msg[w]}
    /\ UNCHANGED <<row, lock, used, pc, msg, id, step, read, copy, left,
                   executed, rolledBack, aborts>>

\* processPayload() without a workflowId: workflowInit() of a new row.
StartWorkflow(w) ==
    /\ pc[w] = "load"
    /\ msg[w].id = NoId
    /\ \E i \in Ids \ used :
          /\ used' = used \cup {i}
          /\ id' = [id EXCEPT ![w] = i]
          /\ lock' = [lock EXCEPT ![i] = w]
    /\ copy' = [copy EXCEPT ![w] = NewRow(w)]
    /\ step' = [step EXCEPT ![w] = 1]
    /\ Go(w, "execute")
    /\ UNCHANGED <<row, queue, msg, read, left, executed, rolledBack, redeliveries, aborts>>

\* executeNextStep() accepts a state of its own service that has a result of
\* every step before the previous one.
MayExecute(w, r) ==
    /\ r.service = Service[w]
    /\ \A s \in Steps : s + 1 < r.current => s \in r.results

\* Seeded fault: the errors of the state are not looked at.
Load_NoErrors(w) ==
    LET r == row[id[w]]
    IN /\ pc[w] = "load"
       /\ msg[w].id # NoId
       /\ r # NoRow
       /\ step' = [step EXCEPT ![w] = r.current]
       /\ Go(w, IF MayExecute(w, r) THEN "execute" ELSE "error")
       /\ UNCHANGED <<row, lock, used, queue, msg, id, read, copy, left, executed, rolledBack,
                      redeliveries, aborts>>

\* loadState(), and the choice between the next step and the rollback.
Load(w) ==
    LET r == row[id[w]]
    IN /\ pc[w] = "load"
       /\ msg[w].id # NoId
       /\ r # NoRow
       /\ step' = [step EXCEPT ![w] = r.current]
       /\ left' = [left EXCEPT ![w] = IF r.failed THEN r.current ELSE 0]
       /\ Go(w, IF r.failed THEN "rollback"
                ELSE IF MayExecute(w, r) THEN "execute" ELSE "error")
       /\ UNCHANGED <<row, lock, used, queue, msg, id, read, copy, executed, rolledBack,
                      redeliveries, aborts>>

LoadMissing(w) ==
    /\ pc[w] = "load"
    /\ msg[w].id # NoId
    /\ row[id[w]] = NoRow
    /\ Throw(w, RetryFailed)
    /\ UNCHANGED aborts

Execute(w) ==
    /\ pc[w] = "execute"
    /\ executed' = executed \cup {<<id[w], step[w]>>}
    /\ Go(w, "read")
    /\ UNCHANGED <<row, lock, used, queue, msg, id, step, read, copy, left, rolledBack,
                   redeliveries, aborts>>

\* Seeded fault: the error of a step is swallowed.
ExecuteFails_Swallowed(w) ==
    /\ pc[w] = "execute"
    /\ step[w] \in FailingSteps
    /\ Go(w, "read")
    /\ UNCHANGED <<row, lock, used, queue, msg, id, step, read, copy, left, executed, rolledBack,
                   redeliveries, aborts>>

ExecuteFails(w) ==
    /\ pc[w] = "execute"
    /\ step[w] \in FailingSteps
    /\ Go(w, "error")
    /\ UNCHANGED <<row, lock, used, queue, msg, id, step, read, copy, left, executed, rolledBack,
                   redeliveries, aborts>>

\* storeStepResult() first reads the results, ...
ReadResults(w) ==
    /\ pc[w] = "read"
    /\ read' = [read EXCEPT ![w] = IF Seen(w) = NoRow THEN {} ELSE Seen(w).results]
    /\ Go(w, "write")
    /\ UNCHANGED <<row, lock, used, queue, msg, id, step, copy, left, executed, rolledBack,
                   redeliveries, aborts>>

\* Seeded fault: the results of the earlier steps are overwritten.
WriteResult_Replaced(w) ==
    /\ pc[w] = "write"
    /\ Seen(w) # NoRow
    /\ LET stored == [Seen(w) EXCEPT !.current = step[w], !.results = {step[w]} \ Void]
       IN IF step[w] < N
          THEN /\ Update(w, [stored EXCEPT !.current = step[w] + 1])
               /\ Go(w, "publish")
          ELSE /\ Update(w, IF DeleteOnComplete THEN NoRow ELSE Completed(stored))
               /\ Go(w, "commit")
    /\ UNCHANGED <<row, used, queue, msg, id, step, read, left, executed, rolledBack,
                   redeliveries, aborts>>

\* Seeded fault: the workflow completes before its last step.
WriteResult_OneEarly(w) ==
    /\ pc[w] = "write"
    /\ Seen(w) # NoRow
    /\ LET stored == [Seen(w) EXCEPT !.current = step[w], !.results = read[w] \cup ({step[w]} \ Void)]
       IN IF step[w] + 1 < N
          THEN /\ Update(w, [stored EXCEPT !.current = step[w] + 1])
               /\ Go(w, "publish")
          ELSE /\ Update(w, IF DeleteOnComplete THEN NoRow ELSE Completed(stored))
               /\ Go(w, "commit")
    /\ UNCHANGED <<row, used, queue, msg, id, step, read, left, executed, rolledBack,
                   redeliveries, aborts>>

\* Seeded fault: the step after the next one is taken for the next.
WriteResult_OneFurther(w) ==
    /\ pc[w] = "write"
    /\ Seen(w) # NoRow
    /\ LET stored == [Seen(w) EXCEPT !.current = step[w], !.results = read[w] \cup ({step[w]} \ Void)]
       IN IF step[w] < N
          THEN /\ Update(w, [stored EXCEPT !.current = IF step[w] + 2 < N THEN step[w] + 2 ELSE N])
               /\ Go(w, "publish")
          ELSE /\ Update(w, IF DeleteOnComplete THEN NoRow ELSE Completed(stored))
               /\ Go(w, "commit")
    /\ UNCHANGED <<row, used, queue, msg, id, step, read, left, executed, rolledBack,
                   redeliveries, aborts>>

\* ... then writes them with the one it adds; publishNextStep() completes or
\* deletes the workflow after its last step, or moves to the next.
WriteResult(w) ==
    /\ pc[w] = "write"
    /\ Seen(w) # NoRow
    /\ LET stored == [Seen(w) EXCEPT !.current = step[w], !.results = read[w] \cup ({step[w]} \ Void)]
       IN IF step[w] < N
          THEN /\ Update(w, [stored EXCEPT !.current = step[w] + 1])
               /\ Go(w, "publish")
          ELSE /\ Update(w, IF DeleteOnComplete THEN NoRow ELSE Completed(stored))
               /\ Go(w, "commit")
    /\ UNCHANGED <<row, used, queue, msg, id, step, read, left, executed, rolledBack,
                   redeliveries, aborts>>

\* The message leaves before the transaction is committed.
Publish(w) ==
    /\ pc[w] = "publish"
    /\ queue' = queue \cup {[id |-> id[w], step |-> step[w] + 1]}
    /\ Go(w, "commit")
    /\ UNCHANGED <<row, lock, used, msg, id, step, read, copy, left, executed, rolledBack,
                   redeliveries, aborts>>

\* Seeded fault: a message that could not be sent is given up.
PublishFails_GivenUp(w) ==
    /\ pc[w] = "publish"
    /\ SendMayFail
    /\ Go(w, "commit")
    /\ UNCHANGED <<row, lock, used, queue, msg, id, step, read, copy, left, executed, rolledBack,
                   redeliveries, aborts>>

PublishFails(w) ==
    /\ pc[w] = "publish"
    /\ SendMayFail
    /\ Go(w, "error")
    /\ UNCHANGED <<row, lock, used, queue, msg, id, step, read, copy, left, executed, rolledBack,
                   redeliveries, aborts>>

\* storeExecuteError(), before the rollback.
StoreError(w) ==
    /\ pc[w] = "error"
    /\ Seen(w) # NoRow
    /\ Update(w, [Seen(w) EXCEPT !.failed = TRUE])
    /\ left' = [left EXCEPT ![w] = step[w]]
    /\ Go(w, "rollback")
    /\ UNCHANGED <<row, used, queue, msg, id, step, read, executed, rolledBack,
                   redeliveries, aborts>>

\* A turn of executeRollback()'s loop: it walks back through the steps, but
\* calls the rollback of the step it has started with, and moves the pointer
\* to the step before that one.
RollbackTurn(w) ==
    /\ pc[w] = "rollback"
    /\ Seen(w) # NoRow
    /\ rolledBack' = rolledBack \cup {<<id[w], step[w]>>}
    /\ Update(w, IF step[w] > 1 THEN SteppedBack(Seen(w), step[w])
                                ELSE Completed(Seen(w)))
    /\ left' = [left EXCEPT ![w] = @ - 1]
    /\ Go(w, IF left[w] = 1 THEN "commit" ELSE "rollback")
    /\ UNCHANGED <<row, used, queue, msg, id, step, read, executed, redeliveries, aborts>>

\* rollback() throws: the error is stored, in a transaction that is then
\* rolled back because the error is thrown on.
RollbackFails(w) ==
    /\ pc[w] = "rollback"
    /\ step[w] \in FailingRollbacks
    /\ MayUpdate(w)
    /\ Throw(w, RetryFailed)
    /\ UNCHANGED aborts

\* An update of a row that another worker has deleted throws, and so does
\* the attempt to store that error.
UpdateMissing(w) ==
    /\ pc[w] \in {"write", "error", "rollback"}
    /\ Seen(w) = NoRow
    /\ MayUpdate(w)
    /\ Throw(w, RetryFailed)
    /\ UNCHANGED aborts

Commit(w) ==
    /\ pc[w] = "commit"
    /\ row' = [row EXCEPT ![id[w]] = copy[w]]
    /\ Leave(w)
    /\ UNCHANGED <<used, queue, executed, rolledBack, redeliveries, aborts>>

\* The transaction exceeds transactionTimeout, or the worker dies; the
\* message of a dead worker is delivered again.
Abort(w) ==
    /\ pc[w] # "idle"
    /\ aborts < MaxAborts
    /\ aborts' = aborts + 1
    /\ Throw(w, RetryFailed) \/ Throw(w, TRUE)

-----------------------------------------------------------------------------
HandlerStep(w) ==
    \/ StartWorkflow(w) \/ Load(w) \/ LoadMissing(w)
    \/ Execute(w) \/ ExecuteFails(w)
    \/ ReadResults(w) \/ WriteResult(w)
    \/ Publish(w) \/ PublishFails(w)
    \/ StoreError(w) \/ RollbackTurn(w) \/ RollbackFails(w)
    \/ UpdateMissing(w)
    \/ Commit(w)

Next ==
    \E w \in Workers :
        \/ \E m \in Message : Receive(w, m)
        \/ HandlerStep(w)
        \/ Redeliver(w)
        \/ Abort(w)

SafeSpec == Init /\ [][Next]_vars

\* Handlers run to their end, and the queue delivers every message.
Fairness ==
    /\ \A w \in Workers : WF_vars(HandlerStep(w))
    /\ \A m \in Message : SF_vars(\E w \in Workers : Receive(w, m))

Spec == SafeSpec /\ Fairness

-----------------------------------------------------------------------------
Stored(i) == row[i] # NoRow
Reached(i, s) == \A t \in Steps : t < s => <<i, t>> \in executed
Announced(m) == m.id # NoId => m.step > 1 /\ <<m.id, m.step - 1>> \in executed
Truthful(i, r) == Reached(i, r.current) /\ \A s \in r.results : <<i, s>> \in executed

\* However many workers handle the messages of a workflow at once, and in
\* whatever order these arrive, no step is executed or rolled back before all
\* the steps in front of it have been executed.  It rests on the pointer of
\* the row (processPayload, publishNextStep), not on executeNextStep()'s check.
NoStepSkipped ==
    \A i \in Ids, s \in Steps : <<i, s>> \in executed \cup rolledBack => Reached(i, s)

\* The message of a step is only ever published by a worker that has executed
\* the step in front of it (publishNextStep).
PublishedAfterExecution == \A m \in queue : Announced(m)

\* What a committed row says was done was done: every result is of a step
\* that has been executed, and so are all steps before the one it points to.
RowTruthful == \A i \in Ids : Stored(i) => Truthful(i, row[i])

\* As long as a workflow has not failed, the row has the result of every step
\* in front of the pointer (of the steps that return one).
ResultsKept ==
    \A i \in Ids : Stored(i) /\ ~row[i].failed =>
        {s \in Steps : s < row[i].current} \ Void \subseteq row[i].results

\* A workflow completes without an error only after its last step has been
\* executed, with the results of all its steps.
CompletedMeansDone ==
    \A i \in Ids : Stored(i) /\ row[i].completed /\ ~row[i].failed =>
        /\ Reached(i, N + 1)
        /\ Steps \ Void \subseteq row[i].results

\* Once an error is committed, redelivered messages only ever take the
\* workflow backwards: no result is added and the pointer never advances.
FailedOnlyGoesBack ==
    [][\A i \in Ids : Stored(i) /\ row[i].failed =>
          /\ Stored(i)'
          /\ row'[i].failed
          /\ row'[i].results = row[i].results
          /\ row'[i].current <= row[i].current]_vars

\* When the queue brings the message of a failed handler back, a workflow
\* that was started is completed, failed or deleted in the end.
WorkflowSettles ==
    \A i \in Ids : Stored(i) ~> (~Stored(i) \/ row[i].failed \/ row[i].completed)

\* What the comment above executeRollback() says: when a workflow has failed
\* and no handler works on it, every executed step has been rolled back.
RollbackComplete ==
    \A i \in Ids : Stored(i) /\ row[i].failed /\ (\A w \in Workers : id[w] # i) =>
        \A s \in Steps : <<i, s>> \in executed => <<i, s>> \in rolledBack

\* What the comment in executeNextStep() says: a step that has its result is
\* not executed again, ...
NoReexecution ==
    \A w \in Workers : pc[w] = "execute" /\ Stored(id[w]) => step[w] \notin row[id[w]].results

\* ... and what is refused is a step that is out of order.
OnlyDisorderRefused ==
    [][\A w \in Workers : pc[w] = "load" /\ pc'[w] = "error" =>
          ~Reached(id[w], step'[w])]_vars

\* What WorkflowState says of results: a step is executed with the result of
\* the previous step, which comes with the message of the step.
InputIsPreviousResult == \A w \in Workers : pc[w] = "execute" => msg[w].step = step[w]

\* What the comment before the call of publishNextStep() says: the state has
\* been updated when the message of the next step is published.
PublishedAfterUpdate ==
    \A m \in queue : m.id # NoId => Stored(m.id) /\ row[m.id].results # {}

\* What WorkflowState says of errors: those of a rollback are recorded.
RollbackErrorRecorded ==
    [][\A w \in Workers : pc[w] = "rollback" /\ pc'[w] = "idle" /\ aborts' = aborts =>
          row'[id[w]] # NoRow /\ row'[id[w]].failed]_vars

-----------------------------------------------------------------------------
\* Why the steps stay in order: what a worker has in its hands is truthful
\* too, at every stage of its handler.
WorkerSound(w) ==
    /\ Announced(msg[w])
    /\ pc[w] = "load" => id[w] = msg[w].id
    /\ pc[w] \in {"idle", "load"} => copy[w] = NoRow
    /\ pc[w] \notin {"idle", "load"} => id[w] \in Ids /\ Reached(id[w], step[w])
    /\ pc[w] \in {"read", "write", "publish"} => <<id[w], step[w]>> \in executed
    /\ pc[w] = "publish" => step[w] < N
    /\ pc[w] = "rollback" => left[w] > 0
    /\ pc[w] = "write" => \A s \in read[w] : <<id[w], s>> \in executed
    /\ copy[w] # NoRow => Truthful(id[w], copy[w])

Sound ==
    /\ NoStepSkipped
    /\ PublishedAfterExecution
    /\ RowTruthful
    /\ \A w \in Workers : WorkerSound(w)
=============================================================================
