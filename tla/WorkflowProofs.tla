---------------------------- MODULE WorkflowProofs ----------------------------
(***************************************************************************)
(* Proofs about workflows, for any number of steps, workflows and workers,  *)
(* of redeliveries and of aborted transactions.                             *)
(***************************************************************************)
EXTENDS Workflow, TLAPS

LEMMA StepNumbers == 1 \in Steps /\ N \in Steps /\ Steps \subseteq Nat
BY StepsAssumption DEF Steps

LEMMA StartTypes == StartMessage \in Message /\ StartMessage.id = NoId /\ Announced(StartMessage)
BY StepNumbers DEF StartMessage, Message, Announced

(* The updates of a row give rows.                                          *)
LEMMA RowUpdates ==
    ASSUME NEW r \in Row, NEW c \in Steps, NEW res \in SUBSET Steps
    PROVE  /\ [r EXCEPT !.current = c] \in Row
           /\ [r EXCEPT !.failed = TRUE] \in Row
           /\ [r EXCEPT !.completed = TRUE] \in Row
           /\ [r EXCEPT !.current = c, !.results = res] \in Row
           /\ r.current \in Steps /\ r.results \in SUBSET Steps
           /\ [r EXCEPT !.current = c].current = c
           /\ [r EXCEPT !.current = c].results = r.results
           /\ [r EXCEPT !.failed = TRUE].current = r.current
           /\ [r EXCEPT !.failed = TRUE].results = r.results
           /\ [r EXCEPT !.completed = TRUE].current = r.current
           /\ [r EXCEPT !.completed = TRUE].results = r.results
           /\ [r EXCEPT !.current = c, !.results = res].current = c
           /\ [r EXCEPT !.current = c, !.results = res].results = res
BY DEF Row

LEMMA SeenTypes ==
    ASSUME TypeOK, NEW w \in Workers, id[w] \in Ids
    PROVE  Seen(w) \in Row \cup {NoRow}
BY DEF TypeOK, Seen

-----------------------------------------------------------------------------
(* What leaves and rests keeps its type.                                    *)
LEMMA LeaveTypes ==
    ASSUME TypeOK, NEW w \in Workers, Leave(w)
    PROVE  /\ pc' \in [Workers -> Stage]
           /\ msg' \in [Workers -> Message]
           /\ id' \in [Workers -> Ids \cup {NoId}]
           /\ step' \in [Workers -> Steps]
           /\ read' \in [Workers -> SUBSET Steps]
           /\ copy' \in [Workers -> Row \cup {NoRow}]
           /\ left' \in [Workers -> 0 .. N]
           /\ lock' \in [Ids -> Workers \cup {NoWorker}]
<1> USE DEF TypeOK, Leave, Go, Stage
<1>1. pc' \in [Workers -> Stage] /\ id' \in [Workers -> Ids \cup {NoId}]
    OBVIOUS
<1>2. msg' \in [Workers -> Message]
    BY StartTypes
<1>3. step' \in [Workers -> Steps]
    BY StepNumbers
<1>4. left' \in [Workers -> 0 .. N]
    BY StepsAssumption
<1>5. read' \in [Workers -> SUBSET Steps] /\ copy' \in [Workers -> Row \cup {NoRow}]
    OBVIOUS
<1>6. lock' \in [Ids -> Workers \cup {NoWorker}]
    OBVIOUS
<1>7. QED
    BY <1>1, <1>2, <1>3, <1>4, <1>5, <1>6

LEMMA ThrowTypes ==
    ASSUME TypeOK, NEW w \in Workers, NEW again \in BOOLEAN, Throw(w, again),
           aborts' \in 0 .. MaxAborts
    PROVE  TypeOK'
<1>1. queue' \subseteq Message
    BY DEF Throw, TypeOK
<1>2. QED
    BY <1>1, LeaveTypes DEF Throw, TypeOK

LEMMA UpdateTypes ==
    ASSUME TypeOK, NEW w \in Workers, id[w] \in Ids, NEW r \in Row \cup {NoRow}, Update(w, r)
    PROVE  /\ lock' \in [Ids -> Workers \cup {NoWorker}]
           /\ copy' \in [Workers -> Row \cup {NoRow}]
BY DEF TypeOK, Update

LEMMA StepTypes ==
    ASSUME TypeOK, \A w \in Workers : WorkerSound(w), [Next]_vars
    PROVE  TypeOK'
<1>1. CASE UNCHANGED vars
    BY <1>1 DEF vars, TypeOK
<1>2. ASSUME NEW w \in Workers, NEW m \in Message, Receive(w, m)
      PROVE  TypeOK'
    BY <1>2 DEF Receive, Go, TypeOK, Stage, Message
<1>3. ASSUME NEW w \in Workers, Redeliver(w)
      PROVE  TypeOK'
    BY <1>3, WorkflowBounds DEF Redeliver, TypeOK
<1>4. ASSUME NEW w \in Workers, Abort(w)
      PROVE  TypeOK'
    <2>1. aborts' \in 0 .. MaxAborts
        BY <1>4, WorkflowBounds DEF Abort, TypeOK
    <2>2. RetryFailed \in BOOLEAN
        BY SwitchAssumption
    <2>3. QED
        BY <1>4, <2>1, <2>2, ThrowTypes DEF Abort
<1>5. ASSUME NEW w \in Workers, HandlerStep(w)
      PROVE  TypeOK'
    <2> RetryFailed \in BOOLEAN
        BY SwitchAssumption
    <2>0. WorkerSound(w)
        OBVIOUS
    <2>1. CASE StartWorkflow(w)
        <3> DEFINE new == [service |-> Service[w], current |-> 1, results |-> {},
                           failed |-> FALSE, completed |-> FALSE]
        <3>1. new \in Row
            BY StepNumbers DEF Row
        <3>2. copy' \in [Workers -> Row \cup {NoRow}]
            BY <2>1, <3>1 DEF StartWorkflow, NewRow, TypeOK
        <3>3. step' \in [Workers -> Steps]
            BY <2>1, StepNumbers DEF StartWorkflow, TypeOK
        <3>4. /\ used' \subseteq Ids
              /\ id' \in [Workers -> Ids \cup {NoId}]
              /\ lock' \in [Ids -> Workers \cup {NoWorker}]
            BY <2>1 DEF StartWorkflow, TypeOK
        <3>5. QED
            BY <2>1, <3>2, <3>3, <3>4 DEF StartWorkflow, TypeOK, Go, Stage
    <2>2. CASE Load(w)
        <3>1. id[w] \in Ids
            BY <2>0, <2>2 DEF Load, WorkerSound, TypeOK, Message
        <3>2. row[id[w]] \in Row
            BY <2>2, <3>1 DEF Load, TypeOK
        <3>3. row[id[w]].current \in Steps
            BY <3>2 DEF Row
        <3>4. row[id[w]].current \in 0 .. N /\ 0 \in 0 .. N
            BY <3>3, StepsAssumption DEF Steps
        <3>5. left' \in [Workers -> 0 .. N]
            BY <2>2, <3>4 DEF Load, TypeOK
        <3>6. step' \in [Workers -> Steps]
            BY <2>2, <3>3 DEF Load, TypeOK
        <3>7. pc' \in [Workers -> Stage]
            BY <2>2 DEF Load, TypeOK, Go, Stage
        <3>8. QED
            BY <2>2, <3>5, <3>6, <3>7 DEF Load, TypeOK
    <2>3. CASE LoadMissing(w)
        BY <2>3, ThrowTypes DEF LoadMissing, TypeOK
    <2>4. CASE Execute(w) \/ ExecuteFails(w)
        <3>1. pc' \in [Workers -> Stage]
            BY <2>4 DEF Execute, ExecuteFails, TypeOK, Go, Stage
        <3>2. executed' \subseteq Ids \X Steps
            BY <2>0, <2>4 DEF Execute, ExecuteFails, TypeOK, WorkerSound
        <3>3. QED
            BY <2>4, <3>1, <3>2 DEF Execute, ExecuteFails, TypeOK
    <2>5. CASE ReadResults(w)
        <3>1. Seen(w) \in Row \cup {NoRow}
            BY <2>0, <2>5, SeenTypes DEF ReadResults, WorkerSound
        <3>2. Seen(w) # NoRow => Seen(w).results \in SUBSET Steps
            BY <3>1 DEF Row
        <3>3. read' \in [Workers -> SUBSET Steps]
            BY <2>5, <3>2 DEF ReadResults, TypeOK
        <3>4. QED
            BY <2>5, <3>3 DEF ReadResults, TypeOK, Go, Stage
    <2>6. CASE WriteResult(w)
        <3> DEFINE res == read[w] \cup ({step[w]} \ Void)
                   stored == [Seen(w) EXCEPT !.current = step[w], !.results = res]
        <3>1. id[w] \in Ids /\ Seen(w) \in Row
            BY <2>0, <2>6, SeenTypes DEF WriteResult, WorkerSound
        <3>2. step[w] \in Steps /\ res \in SUBSET Steps
            BY DEF TypeOK
        <3>3. stored \in Row
            BY <3>1, <3>2, RowUpdates
        <3>4. step[w] < N => step[w] + 1 \in Steps
            BY <3>2, StepsAssumption DEF Steps
        <3>5. PICK r \in Row \cup {NoRow} : Update(w, r)
            <4>1. CASE step[w] < N
                <5>1. [stored EXCEPT !.current = step[w] + 1] \in Row
                    BY <3>2, <3>3, <3>4, <4>1, RowUpdates
                <5>2. QED
                    BY <2>6, <4>1, <5>1 DEF WriteResult
            <4>2. CASE ~(step[w] < N)
                <5>1. [stored EXCEPT !.completed = TRUE] \in Row
                    BY <3>2, <3>3, RowUpdates
                <5>2. QED
                    BY <2>6, <4>2, <5>1 DEF WriteResult, Completed
            <4>3. QED
                BY <4>1, <4>2
        <3>6. /\ lock' \in [Ids -> Workers \cup {NoWorker}]
              /\ copy' \in [Workers -> Row \cup {NoRow}]
            BY <3>1, <3>5, UpdateTypes
        <3>7. pc' \in [Workers -> Stage]
            BY <2>6 DEF WriteResult, Go, TypeOK, Stage
        <3>8. QED
            BY <2>6, <3>6, <3>7 DEF WriteResult, TypeOK
    <2>7. CASE Publish(w) \/ PublishFails(w)
        <3>1. pc' \in [Workers -> Stage]
            BY <2>7 DEF Publish, PublishFails, TypeOK, Go, Stage
        <3>2. id[w] \in Ids /\ step[w] + 1 \in Steps
            BY <2>0, <2>7, StepsAssumption
            DEF Publish, PublishFails, WorkerSound, TypeOK, Steps
        <3>3. queue' \subseteq Message
            BY <2>7, <3>2 DEF Publish, PublishFails, TypeOK, Message
        <3>4. QED
            BY <2>7, <3>1, <3>3 DEF Publish, PublishFails, TypeOK
    <2>8. CASE StoreError(w)
        <3>1. id[w] \in Ids /\ Seen(w) \in Row
            BY <2>0, <2>8, SeenTypes DEF StoreError, WorkerSound
        <3>2. [Seen(w) EXCEPT !.failed = TRUE] \in Row
            BY <3>1, StepNumbers, RowUpdates
        <3>3. /\ lock' \in [Ids -> Workers \cup {NoWorker}]
              /\ copy' \in [Workers -> Row \cup {NoRow}]
            BY <2>8, <3>1, <3>2, UpdateTypes DEF StoreError
        <3>4. left' \in [Workers -> 0 .. N]
            BY <2>8, StepsAssumption DEF StoreError, TypeOK, Steps
        <3>5. QED
            BY <2>8, <3>3, <3>4 DEF StoreError, TypeOK, Go, Stage
    <2>9. CASE RollbackTurn(w)
        <3> DEFINE r == IF step[w] > 1 THEN [Seen(w) EXCEPT !.current = step[w] - 1]
                        ELSE [Seen(w) EXCEPT !.completed = TRUE]
        <3>1. id[w] \in Ids /\ Seen(w) \in Row
            BY <2>0, <2>9, SeenTypes DEF RollbackTurn, WorkerSound
        <3>2. step[w] \in Steps /\ (step[w] > 1 => step[w] - 1 \in Steps)
            BY StepsAssumption DEF TypeOK, Steps
        <3>3. r \in Row
            BY <3>1, <3>2, RowUpdates
        <3>4. /\ lock' \in [Ids -> Workers \cup {NoWorker}]
              /\ copy' \in [Workers -> Row \cup {NoRow}]
            BY <2>9, <3>1, <3>3, UpdateTypes DEF RollbackTurn, Completed, SteppedBack
        <3>5. left' \in [Workers -> 0 .. N]
            BY <2>0, <2>9, StepsAssumption DEF RollbackTurn, WorkerSound, TypeOK
        <3>6. pc' \in [Workers -> Stage]
            BY <2>9 DEF RollbackTurn, Go, TypeOK, Stage
        <3>7. rolledBack' \subseteq Ids \X Steps
            BY <2>9, <3>1, <3>2 DEF RollbackTurn, TypeOK
        <3>8. QED
            BY <2>9, <3>4, <3>5, <3>6, <3>7 DEF RollbackTurn, TypeOK
    <2>10. CASE RollbackFails(w)
        BY <2>10, ThrowTypes DEF RollbackFails, TypeOK
    <2>11. CASE UpdateMissing(w)
        BY <2>11, ThrowTypes DEF UpdateMissing, TypeOK
    <2>12. CASE Commit(w)
        <3>1. row' \in [Ids -> Row \cup {NoRow}]
            BY <2>12 DEF Commit, TypeOK
        <3>2. QED
            BY <2>12, <3>1, LeaveTypes DEF Commit, TypeOK
    <2>13. QED
        BY <1>5, <2>1, <2>2, <2>3, <2>4, <2>5, <2>6, <2>7, <2>8, <2>9, <2>10, <2>11, <2>12
        DEF HandlerStep
<1>6. QED
    BY <1>1, <1>2, <1>3, <1>4, <1>5 DEF Next

LEMMA InitTypes == Init => TypeOK
BY StartTypes, StepNumbers, StepsAssumption, WorkflowBounds DEF Init, TypeOK, Stage

-----------------------------------------------------------------------------
(* What has been executed stays executed, and what rests on it stays true.  *)
LEMMA Kept ==
    ASSUME executed \subseteq executed'
    PROVE  /\ \A i, s : Reached(i, s) => Reached(i, s)'
           /\ \A m : Announced(m) => Announced(m)'
           /\ \A i, r : Truthful(i, r) => Truthful(i, r)'
BY DEF Reached, Announced, Truthful

LEMMA ExecutedGrows == [Next]_vars => executed \subseteq executed'
BY DEF Next, vars, Receive, Redeliver, Abort, Throw, HandlerStep, StartWorkflow, Load,
       LoadMissing, Execute, ExecuteFails, ReadResults, WriteResult, Publish, PublishFails,
       StoreError, RollbackTurn, RollbackFails, UpdateMissing, Commit

(* The step before one that was reached, and the step after one that was    *)
(* reached and executed.                                                    *)
LEMMA ReachedBefore ==
    ASSUME NEW i, NEW s \in Steps, Reached(i, s), NEW t \in Steps, t <= s
    PROVE  Reached(i, t)
BY DEF Reached, Steps

LEMMA ReachedNext ==
    ASSUME NEW i, NEW s \in Steps, Reached(i, s), <<i, s>> \in executed
    PROVE  Reached(i, s + 1)
BY DEF Reached, Steps

(* A worker that does nothing still has sound things in its hands, ...      *)
LEMMA OtherWorker ==
    ASSUME executed \subseteq executed', NEW w \in Workers, WorkerSound(w),
           pc'[w] = pc[w], msg'[w] = msg[w], id'[w] = id[w], step'[w] = step[w],
           read'[w] = read[w], copy'[w] = copy[w], left'[w] = left[w]
    PROVE  WorkerSound(w)'
<1> USE Kept DEF WorkerSound
<1>1. Announced(msg[w])'
    BY DEF Announced
<1>2. pc'[w] \notin {"idle", "load"} => id'[w] \in Ids /\ Reached(id[w], step[w])'
    BY DEF Reached
<1>3. copy'[w] # NoRow => Truthful(id[w], copy[w])'
    BY DEF Truthful, Reached
<1>4. QED
    BY <1>1, <1>2, <1>3

(* ... and so has one that has just left its handler.                       *)
LEMMA LeftWorker ==
    ASSUME TypeOK, NEW w \in Workers, Leave(w)
    PROVE  WorkerSound(w)'
BY StartTypes DEF Leave, Go, WorkerSound, TypeOK, Announced

LEMMA InitSound == Init => Sound
BY StartTypes, StepNumbers
DEF Init, Sound, NoStepSkipped, PublishedAfterExecution, RowTruthful, Stored, WorkerSound,
    Announced, StartMessage

(* Every step is one worker's.                                              *)
WorkerStep(w) ==
    \/ \E m \in Message : Receive(w, m)
    \/ HandlerStep(w)
    \/ Redeliver(w)
    \/ Abort(w)

LEMMA OneWorker ==
    ASSUME TypeOK, NEW w \in Workers, WorkerStep(w), NEW v \in Workers, v # w
    PROVE  /\ pc'[v] = pc[v] /\ msg'[v] = msg[v] /\ id'[v] = id[v] /\ step'[v] = step[v]
           /\ read'[v] = read[v] /\ copy'[v] = copy[v] /\ left'[v] = left[v]
<1> USE DEF TypeOK, Go, Leave, Throw, Update
<1>1. CASE \E m \in Message : Receive(w, m)
    BY <1>1 DEF Receive
<1>2. CASE Redeliver(w)
    BY <1>2 DEF Redeliver
<1>3. CASE Abort(w) \/ LoadMissing(w) \/ RollbackFails(w) \/ UpdateMissing(w) \/ Commit(w)
    BY <1>3 DEF Abort, LoadMissing, RollbackFails, UpdateMissing, Commit
<1>4. CASE StartWorkflow(w) \/ Load(w) \/ Execute(w) \/ ExecuteFails(w) \/ ReadResults(w)
    BY <1>4 DEF StartWorkflow, Load, Execute, ExecuteFails, ReadResults
<1>5. CASE WriteResult(w)
    BY <1>5 DEF WriteResult
<1>6. CASE Publish(w) \/ PublishFails(w) \/ StoreError(w) \/ RollbackTurn(w)
    BY <1>6 DEF Publish, PublishFails, StoreError, RollbackTurn
<1>7. QED
    BY <1>1, <1>2, <1>3, <1>4, <1>5, <1>6 DEF WorkerStep, HandlerStep

(* No step but its own execution and rollback concerns NoStepSkipped, ...   *)
LEMMA StepNotSkipped ==
    ASSUME TypeOK, Sound, NEW w \in Workers, WorkerStep(w), executed \subseteq executed'
    PROVE  NoStepSkipped'
<1>1. ASSUME executed' \cup rolledBack' \subseteq executed \cup rolledBack \cup {<<id[w], step[w]>>},
             Reached(id[w], step[w])
      PROVE  NoStepSkipped'
    <2> SUFFICES ASSUME NEW i \in Ids, NEW s \in Steps, <<i, s>> \in executed' \cup rolledBack'
                 PROVE  Reached(i, s)'
        BY DEF NoStepSkipped
    <2>1. Reached(i, s)
        BY <1>1 DEF Sound, NoStepSkipped
    <2>2. QED
        BY <2>1, Kept
<1>2. CASE UNCHANGED <<executed, rolledBack>>
    <2> SUFFICES ASSUME NEW i \in Ids, NEW s \in Steps, <<i, s>> \in executed' \cup rolledBack'
                 PROVE  Reached(i, s)'
        BY DEF NoStepSkipped
    <2>1. QED
        BY <1>2, Kept DEF Sound, NoStepSkipped
<1>3. CASE Execute(w)
    BY <1>1, <1>3 DEF Execute, Sound, WorkerSound
<1>4. CASE RollbackTurn(w)
    BY <1>1, <1>4 DEF RollbackTurn, Sound, WorkerSound
<1>5. QED
    BY <1>2, <1>3, <1>4
    DEF WorkerStep, Receive, Redeliver, Abort, Throw, HandlerStep, StartWorkflow, Load,
        LoadMissing, ExecuteFails, ReadResults, WriteResult, Publish, PublishFails,
        StoreError, RollbackFails, UpdateMissing, Commit

(* ... only Publish adds a message to the queue that was not there or in    *)
(* the worker's hands before, ...                                           *)
LEMMA StepPublished ==
    ASSUME TypeOK, Sound, NEW w \in Workers, WorkerStep(w), executed \subseteq executed'
    PROVE  PublishedAfterExecution'
<1>1. CASE queue' \subseteq queue \cup {msg[w]}
    BY <1>1, Kept DEF Sound, PublishedAfterExecution, WorkerSound
<1>2. CASE Publish(w)
    <2> DEFINE m == [id |-> id[w], step |-> step[w] + 1]
    <2>1. step[w] \in Nat /\ step[w] > 0 /\ <<id[w], step[w]>> \in executed
        BY <1>2, StepsAssumption DEF Publish, Sound, WorkerSound, TypeOK, Steps
    <2>2. Announced(m)
        BY <2>1 DEF Announced
    <2>3. queue' = queue \cup {m}
        BY <1>2 DEF Publish
    <2>4. QED
        BY <2>2, <2>3, Kept DEF Sound, PublishedAfterExecution
<1>3. QED
    BY <1>1, <1>2
    DEF WorkerStep, Receive, Redeliver, Abort, Throw, HandlerStep, StartWorkflow, Load,
        LoadMissing, Execute, ExecuteFails, ReadResults, WriteResult, PublishFails,
        StoreError, RollbackTurn, RollbackFails, UpdateMissing, Commit

(* ... and only Commit changes a row.                                       *)
LEMMA StepTruthful ==
    ASSUME TypeOK, Sound, NEW w \in Workers, WorkerStep(w), executed \subseteq executed'
    PROVE  RowTruthful'
<1> SUFFICES ASSUME NEW i \in Ids, row'[i] # NoRow
             PROVE  Truthful(i, row[i])'
    BY DEF RowTruthful, Stored
<1>1. CASE row'[i] = row[i]
    <2>1. Truthful(i, row[i])
        BY <1>1 DEF Sound, RowTruthful, Stored
    <2>2. QED
        BY <1>1, <2>1, Kept DEF Truthful, Reached
<1>2. CASE Commit(w) /\ i = id[w]
    <2>1. row'[i] = copy[w]
        BY <1>2 DEF Commit, TypeOK
    <2>2. Truthful(i, copy[w])
        BY <1>2, <2>1 DEF Sound, WorkerSound
    <2>3. QED
        BY <2>1, <2>2, Kept DEF Truthful, Reached
<1>3. CASE Commit(w) /\ i # id[w]
    BY <1>1, <1>3 DEF Commit, TypeOK
<1>4. QED
    BY <1>1, <1>2, <1>3
    DEF WorkerStep, Receive, Redeliver, Abort, Throw, HandlerStep, StartWorkflow, Load,
        LoadMissing, Execute, ExecuteFails, ReadResults, WriteResult, Publish, PublishFails,
        StoreError, RollbackTurn, RollbackFails, UpdateMissing

(* What a transaction sees is truthful.                                     *)
LEMMA SeenTruthful ==
    ASSUME TypeOK, Sound, NEW w \in Workers, id[w] \in Ids, Seen(w) # NoRow
    PROVE  Truthful(id[w], Seen(w)) /\ Seen(w) \in Row
BY SeenTypes DEF Seen, Sound, RowTruthful, Stored, WorkerSound

(* The worker's own step.                                                   *)
LEMMA StepWorker ==
    ASSUME TypeOK, Sound, NEW w \in Workers, WorkerStep(w), executed \subseteq executed'
    PROVE  WorkerSound(w)'
<1>0. WorkerSound(w)
    BY DEF Sound
<1> USE <1>0
\* The parts of WorkerSound(w) that concern neither the stage nor the row.
<1>1. ASSUME UNCHANGED <<msg, id, step>>
      PROVE  Announced(msg[w])' /\ (Reached(id[w], step[w]) => Reached(id[w], step[w])')
    BY <1>1, Kept DEF WorkerSound, Announced, Reached
<1>2. ASSUME UNCHANGED <<id, copy>>
      PROVE  copy'[w] # NoRow => Truthful(id[w], copy[w])'
    BY <1>2, Kept DEF WorkerSound, Truthful, Reached
<1>3. CASE \E m \in Message : Receive(w, m)
    <2>1. PICK m \in Message : Receive(w, m)
        BY <1>3
    <2>2. Announced(m)
        BY <2>1 DEF Receive, Sound, PublishedAfterExecution
    <2>3. msg'[w] = m /\ id'[w] = m.id /\ pc'[w] = "load" /\ copy'[w] = copy[w]
        BY <2>1 DEF Receive, Go, TypeOK
    <2>4. copy[w] = NoRow
        BY <2>1 DEF Receive, WorkerSound
    <2>5. QED
        BY <2>2, <2>3, <2>4, Kept DEF WorkerSound, Announced
<1>4. CASE Redeliver(w)
    BY <1>1, <1>2, <1>4 DEF Redeliver, WorkerSound
<1>5. CASE Abort(w) \/ LoadMissing(w) \/ RollbackFails(w) \/ UpdateMissing(w) \/ Commit(w)
    BY <1>5, LeftWorker DEF Abort, LoadMissing, RollbackFails, UpdateMissing, Commit, Throw
<1>6. CASE HandlerStep(w)
    <2>1. CASE StartWorkflow(w)
        <3>1. PICK i \in Ids : id' = [id EXCEPT ![w] = i]
            BY <2>1 DEF StartWorkflow
        <3>2. /\ id'[w] = i /\ step'[w] = 1 /\ pc'[w] = "execute" /\ msg'[w] = msg[w]
              /\ copy'[w].current = 1 /\ copy'[w].results = {}
            BY <2>1, <3>1 DEF StartWorkflow, NewRow, Go, TypeOK
        <3>3. Reached(i, 1)'
            BY DEF Reached, Steps
        <3>4. Announced(msg[w])'
            BY <3>2, Kept DEF WorkerSound, Announced
        <3>5. QED
            BY <3>2, <3>3, <3>4 DEF WorkerSound, Truthful, Reached
    <2>2. CASE Load(w)
        <3>1. id[w] \in Ids
            BY <2>2 DEF Load, WorkerSound, TypeOK, Message
        <3>2. row[id[w]] \in Row /\ Truthful(id[w], row[id[w]])
            BY <2>2, <3>1 DEF Load, TypeOK, Sound, RowTruthful, Stored
        <3>3. row[id[w]].current \in Steps
            BY <3>2 DEF Row
        <3>4. /\ step'[w] = row[id[w]].current /\ id'[w] = id[w]
              /\ pc'[w] \in {"rollback", "execute", "error"}
              /\ pc'[w] = "rollback" => left'[w] > 0
            BY <2>2, <3>3, StepsAssumption DEF Load, Go, TypeOK, Steps
        <3>5. Reached(id[w], step[w])'
            BY <3>2, <3>4, Kept DEF Truthful, Reached
        <3>6. Announced(msg[w])'
            BY <2>2, Kept DEF Load, WorkerSound, Announced
        <3>7. QED
            BY <1>2, <2>2, <3>1, <3>4, <3>5, <3>6 DEF Load, WorkerSound
    <2>3. CASE Execute(w)
        <3>1. pc'[w] = "read" /\ <<id[w], step[w]>> \in executed'
            BY <2>3 DEF Execute, Go, TypeOK
        <3>2. QED
            BY <1>1, <1>2, <2>3, <3>1 DEF Execute, WorkerSound
    <2>4. CASE ExecuteFails(w) \/ PublishFails(w)
        <3>1. pc'[w] = "error"
            BY <2>4 DEF ExecuteFails, PublishFails, Go, TypeOK
        <3>2. QED
            BY <1>1, <1>2, <2>4, <3>1 DEF ExecuteFails, PublishFails, WorkerSound
    <2>5. CASE ReadResults(w)
        <3>1. id[w] \in Ids
            BY <2>5 DEF ReadResults, WorkerSound
        <3>2. pc'[w] = "write" /\ \A s \in read'[w] : Seen(w) # NoRow /\ s \in Seen(w).results
            BY <2>5 DEF ReadResults, Go, TypeOK
        <3>3. \A s \in read'[w] : <<id[w], s>> \in executed
            BY <3>1, <3>2, SeenTruthful DEF Truthful
        <3>4. QED
            BY <1>1, <1>2, <2>5, <3>2, <3>3 DEF ReadResults, WorkerSound
    <2>6. CASE WriteResult(w)
        <3> DEFINE res == read[w] \cup ({step[w]} \ Void)
                   stored == [Seen(w) EXCEPT !.current = step[w], !.results = res]
        <3>1. id[w] \in Ids /\ Seen(w) \in Row
            BY <2>6, SeenTypes DEF WriteResult, WorkerSound
        <3>2. /\ step[w] \in Steps /\ res \in SUBSET Steps
              /\ Reached(id[w], step[w]) /\ <<id[w], step[w]>> \in executed
              /\ \A s \in res : <<id[w], s>> \in executed
            BY <2>6 DEF WriteResult, TypeOK, WorkerSound
        <3> HIDE DEF res
        <3>3. stored \in Row /\ stored.results = res /\ stored.current = step[w]
            BY <3>1, <3>2 DEF Row
        <3> HIDE DEF stored
        <3>4. CASE step[w] < N
            <4> DEFINE r == [stored EXCEPT !.current = step[w] + 1]
            <4>1. step[w] + 1 \in Steps
                BY <3>2, <3>4, StepsAssumption DEF Steps
            <4>2. r.current = step[w] + 1 /\ r.results = res
                BY <3>2, <3>3, <4>1, RowUpdates
            <4>3. Truthful(id[w], r)
                BY <3>2, <4>2, ReachedNext DEF Truthful
            <4>4. copy'[w] = r /\ pc'[w] = "publish"
                BY <2>6, <3>4 DEF WriteResult, Update, Go, TypeOK, stored, res
            <4>5. Truthful(id[w], copy[w])'
                BY <2>6, <4>3, <4>4, Kept DEF WriteResult, Truthful, Reached
            <4>6. QED
                BY <1>1, <2>6, <3>1, <3>2, <3>4, <4>4, <4>5 DEF WriteResult, WorkerSound
        <3>5. CASE ~(step[w] < N)
            <4> DEFINE r == [stored EXCEPT !.completed = TRUE]
            <4>1. r.current = step[w] /\ r.results = res
                BY <3>2, <3>3, RowUpdates
            <4>2. Truthful(id[w], r)
                BY <3>2, <4>1 DEF Truthful
            <4>3. copy'[w] \in {r, NoRow} /\ pc'[w] = "commit"
                BY <2>6, <3>5 DEF WriteResult, Completed, Update, Go, TypeOK, stored, res
            <4>4. copy'[w] # NoRow => Truthful(id[w], copy[w])'
                BY <2>6, <4>2, <4>3, Kept DEF WriteResult, Truthful, Reached
            <4>5. QED
                BY <1>1, <2>6, <3>1, <3>2, <4>3, <4>4 DEF WriteResult, WorkerSound
        <3>6. QED
            BY <3>4, <3>5
    <2>7. CASE Publish(w)
        <3>1. pc'[w] = "commit"
            BY <2>7 DEF Publish, Go, TypeOK
        <3>2. QED
            BY <1>1, <1>2, <2>7, <3>1 DEF Publish, WorkerSound
    <2>8. CASE StoreError(w)
        <3> DEFINE r == [Seen(w) EXCEPT !.failed = TRUE]
        <3>1. id[w] \in Ids /\ Seen(w) \in Row /\ Truthful(id[w], Seen(w))
            BY <2>8, SeenTruthful DEF StoreError, WorkerSound
        <3>2. Truthful(id[w], r)
            BY <3>1, StepNumbers, RowUpdates DEF Truthful
        <3>3. copy'[w] = r /\ pc'[w] = "rollback" /\ left'[w] = step[w]
            BY <2>8 DEF StoreError, Update, Go, TypeOK
        <3>4. Truthful(id[w], copy[w])'
            BY <2>8, <3>2, <3>3, Kept DEF StoreError, Truthful, Reached
        <3>5. step[w] > 0
            BY StepsAssumption DEF TypeOK, Steps
        <3>6. QED
            BY <1>1, <2>8, <3>1, <3>3, <3>4, <3>5 DEF StoreError, WorkerSound
    <2>9. CASE RollbackTurn(w)
        <3> DEFINE r == IF step[w] > 1 THEN [Seen(w) EXCEPT !.current = step[w] - 1]
                        ELSE [Seen(w) EXCEPT !.completed = TRUE]
        <3>1. /\ id[w] \in Ids /\ Seen(w) \in Row /\ Truthful(id[w], Seen(w))
              /\ Reached(id[w], step[w]) /\ left[w] > 0
            BY <2>9, SeenTruthful DEF RollbackTurn, WorkerSound
        <3>2. step[w] \in Steps /\ (step[w] > 1 => step[w] - 1 \in Steps /\ step[w] - 1 <= step[w])
            BY StepsAssumption DEF TypeOK, Steps
        <3>3. ASSUME step[w] > 1
              PROVE  Truthful(id[w], r)
            <4>1. Reached(id[w], step[w] - 1)
                BY <3>1, <3>2, <3>3, ReachedBefore
            <4>2. r.current = step[w] - 1 /\ r.results = Seen(w).results
                BY <3>1, <3>2, <3>3, RowUpdates
            <4>3. QED
                BY <3>1, <4>1, <4>2 DEF Truthful
        <3>4. ASSUME ~(step[w] > 1)
              PROVE  Truthful(id[w], r)
            BY <3>1, <3>4, StepNumbers, RowUpdates DEF Truthful
        <3>5. Truthful(id[w], r)
            BY <3>3, <3>4
        <3>6. copy'[w] = r
            BY <2>9 DEF RollbackTurn, Completed, SteppedBack, Update, TypeOK
        <3>7. Truthful(id[w], copy[w])'
            BY <2>9, <3>5, <3>6, Kept DEF RollbackTurn, Truthful, Reached
        <3>8. left[w] \in Nat /\ left'[w] = left[w] - 1
            BY <2>9 DEF RollbackTurn, TypeOK
        <3>9. pc'[w] = IF left[w] = 1 THEN "commit" ELSE "rollback"
            BY <2>9 DEF RollbackTurn, Go, TypeOK
        <3>10. pc'[w] = "rollback" => left'[w] > 0
            BY <3>1, <3>8, <3>9
        <3>11. QED
            BY <1>1, <2>9, <3>1, <3>7, <3>9, <3>10 DEF RollbackTurn, WorkerSound
    <2>10. QED
        BY <1>5, <1>6, <2>1, <2>2, <2>3, <2>4, <2>5, <2>6, <2>7, <2>8, <2>9 DEF HandlerStep
<1>7. QED
    BY <1>3, <1>4, <1>5, <1>6 DEF WorkerStep

LEMMA StepSound == TypeOK /\ Sound /\ [Next]_vars => Sound'
<1> SUFFICES ASSUME TypeOK, Sound, [Next]_vars
             PROVE  Sound'
    OBVIOUS
<1>1. executed \subseteq executed'
    BY ExecutedGrows
<1>2. CASE UNCHANGED vars
    BY <1>2
    DEF vars, Sound, NoStepSkipped, PublishedAfterExecution, RowTruthful, WorkerSound,
        Announced, Truthful, Reached, Stored
<1>3. ASSUME NEW w \in Workers, WorkerStep(w)
      PROVE  Sound'
    <2>1. NoStepSkipped' /\ PublishedAfterExecution' /\ RowTruthful'
        BY <1>1, <1>3, StepNotSkipped, StepPublished, StepTruthful
    <2>2. \A v \in Workers : WorkerSound(v)'
        BY <1>1, <1>3, StepWorker, OneWorker, OtherWorker DEF Sound
    <2>3. QED
        BY <2>1, <2>2 DEF Sound
<1>4. QED
    BY <1>2, <1>3 DEF Next, WorkerStep

-----------------------------------------------------------------------------
LEMMA InductiveStep == TypeOK /\ Sound /\ [Next]_vars => TypeOK' /\ Sound'
BY StepTypes, StepSound DEF Sound

LEMMA AlwaysSound == SafeSpec => [](TypeOK /\ Sound)
BY InitTypes, InitSound, InductiveStep, PTL DEF SafeSpec

(* The variables of the workers, the rows and the queue keep their types,   *)
(* and a rollback never counts below zero.                                  *)
THEOREM TypeCorrect == SafeSpec => []TypeOK
BY AlwaysSound, PTL

(* No step is executed or rolled back before all those in front of it have  *)
(* been executed, in however many workers, messages and transactions        *)
(* (processPayload, publishNextStep).                                       *)
THEOREM StepsInOrder == SafeSpec => []NoStepSkipped
<1>1. Sound => NoStepSkipped
    BY DEF Sound
<1>2. QED
    BY <1>1, AlwaysSound, PTL

(* The message of a step is published only after the one in front of it was *)
(* executed (publishNextStep).                                              *)
THEOREM AnnouncedAfterExecution == SafeSpec => []PublishedAfterExecution
<1>1. Sound => PublishedAfterExecution
    BY DEF Sound
<1>2. QED
    BY <1>1, AlwaysSound, PTL

(* A committed row claims no step and no result that was not executed       *)
(* (storeStepResult, updateCurrentStep).                                    *)
THEOREM RowsTruthful == SafeSpec => []RowTruthful
<1>1. Sound => RowTruthful
    BY DEF Sound
<1>2. QED
    BY <1>1, AlwaysSound, PTL

-----------------------------------------------------------------------------
(* What is kept besides while no two workers handle messages of the same    *)
(* workflow at once.  Of a state that has not failed no result is missing   *)
(* in front of its pointer, and none at all when it is completed; and a     *)
(* failed one only goes back.                                               *)
Whole(i, r) ==
    ~r.failed =>
        /\ {s \in Steps : s < r.current} \ Void \subseteq r.results
        /\ r.completed => Reached(i, N + 1) /\ Steps \ Void \subseteq r.results

Backwards(r, n) == r.failed => /\ n # NoRow /\ n.failed
                               /\ n.results = r.results /\ n.current <= r.current

Working(w) == pc[w] \notin {"idle", "load"}

Separate == \A v, w \in Workers : Working(v) /\ Working(w) /\ id[v] = id[w] => v = w

(* Its transaction sees the state it has loaded until it writes; it has not *)
(* failed until it is rolled back; and what it has written is locked.       *)
AloneSound(w) ==
    /\ Working(w) => id[w] \in used
    /\ \A i \in Ids : lock[i] = w => Working(w) /\ id[w] = i
    /\ copy[w] # NoRow => Whole(id[w], copy[w])
    /\ pc[w] \in {"execute", "read", "write", "publish", "error"} /\ Stored(id[w]) => ~row[id[w]].failed
    /\ pc[w] \in {"execute", "read", "write"} /\ Seen(w) # NoRow => Seen(w).current = step[w]
    /\ pc[w] = "write" /\ Seen(w) # NoRow => read[w] = Seen(w).results
    /\ pc[w] = "rollback" => /\ Seen(w) # NoRow => Seen(w).failed
                             /\ Stored(id[w]) /\ row[id[w]].failed => step[w] <= row[id[w]].current
    /\ pc[w] \in {"rollback", "commit"} /\ Stored(id[w]) => Backwards(row[id[w]], Seen(w))
    /\ pc[w] \in {"publish", "commit"} => lock[id[w]] = w

RowsWhole ==
    /\ \A i \in Ids : Stored(i) => i \in used /\ Whole(i, row[i])
    /\ \A w \in Workers : AloneSound(w)

(* What the rows hold stays whole while no row is written.                  *)
LEMMA WholeKept ==
    ASSUME executed \subseteq executed', NEW i, NEW r, Whole(i, r)
    PROVE  Whole(i, r)'
BY Kept DEF Whole, Reached

LEMMA RowsKept ==
    ASSUME RowsWhole, executed \subseteq executed', used \subseteq used', row' = row
    PROVE  \A i \in Ids : Stored(i)' => i \in used' /\ Whole(i, row[i])'
<1> SUFFICES ASSUME NEW i \in Ids, Stored(i)'
             PROVE  i \in used' /\ Whole(i, row[i])'
    OBVIOUS
<1>1. i \in used /\ Whole(i, row[i])
    BY DEF RowsWhole, Stored
<1>2. QED
    BY <1>1, WholeKept DEF Whole, Reached

(* A worker that has left its handler holds nothing.                        *)
LEMMA LeaveAlone ==
    ASSUME TypeOK, NEW w \in Workers, Leave(w)
    PROVE  AloneSound(w)'
<1>1. pc'[w] = "idle" /\ copy'[w] = NoRow
    BY DEF Leave, Go, TypeOK
<1>2. \A i \in Ids : lock'[i] # w
    BY WorkerAssumption DEF Leave, TypeOK
<1>3. QED
    BY <1>1, <1>2 DEF AloneSound, Working

(* What it writes is what it sees from then on.                             *)
LEMMA UpdateAlone ==
    ASSUME TypeOK, NEW w \in Workers, id[w] \in Ids, NEW n, Update(w, n), UNCHANGED <<row, id>>
    PROVE  /\ lock'[id[w]] = w /\ copy'[w] = n /\ Seen(w)' = n
           /\ \A i \in Ids : lock'[i] = w => lock[i] = w \/ i = id[w]
BY DEF Update, TypeOK, Seen

(* Where nothing but the stage changes, the rest of what it sees stays.     *)
LEMMA SeenAlone ==
    ASSUME NEW w \in Workers, UNCHANGED <<row, lock, id, copy>>
    PROVE  Seen(w)' = Seen(w)
BY DEF Seen

(* The steps that take a message and load its state.                        *)
LEMMA LoadAlone ==
    ASSUME TypeOK, Sound, RowsWhole, NEW w \in Workers, executed \subseteq executed',
           (\E m \in Message : Receive(w, m)) \/ Redeliver(w) \/ StartWorkflow(w) \/ Load(w)
    PROVE  AloneSound(w)' /\ row' = row /\ used \subseteq used'
<1>0. AloneSound(w) /\ WorkerSound(w)
    BY DEF RowsWhole, Sound
<1>1. ASSUME NEW m \in Message, Receive(w, m)
      PROVE  AloneSound(w)' /\ row' = row /\ used \subseteq used'
    <2>1. pc[w] = "idle" /\ pc'[w] = "load" /\ UNCHANGED <<row, lock, used, copy>>
        BY <1>1 DEF Receive, Go, TypeOK
    <2>2. copy'[w] = NoRow /\ \A i \in Ids : lock'[i] # w
        BY <1>0, <2>1 DEF WorkerSound, AloneSound, Working
    <2>3. QED
        BY <2>1, <2>2 DEF AloneSound, Working
<1>2. CASE Redeliver(w)
    <2>1. UNCHANGED <<row, lock, used, pc, id, step, read, copy, left, executed>>
        BY <1>2 DEF Redeliver
    <2>2. Seen(w)' = Seen(w) /\ (copy[w] # NoRow => Whole(id[w], copy[w])')
        BY <1>0, <2>1, SeenAlone, WholeKept DEF AloneSound
    <2>3. QED
        BY <1>0, <2>1, <2>2 DEF AloneSound, Working, Stored, Whole, Reached
<1>3. CASE StartWorkflow(w)
    <2>1. PICK i \in Ids \ used : /\ used' = used \cup {i}
                                  /\ id' = [id EXCEPT ![w] = i]
                                  /\ lock' = [lock EXCEPT ![i] = w]
        BY <1>3 DEF StartWorkflow
    <2>2. PICK n : n = NewRow(w)
        OBVIOUS
    <2>3. n # NoRow /\ n.current = 1 /\ ~n.completed /\ ~n.failed /\ n.results = {}
        <3>1. NewRow(w) \in Row
            BY StepNumbers DEF NewRow, Row
        <3>2. QED
            BY <2>2, <3>1, RowAssumption DEF NewRow
    <2>4. /\ row' = row /\ id'[w] = i /\ lock'[i] = w /\ copy'[w] = n
          /\ step'[w] = 1 /\ pc'[w] = "execute"
          /\ \A k \in Ids : lock'[k] = w => k = i
        BY <1>0, <1>3, <2>1, <2>2 DEF StartWorkflow, Go, TypeOK, AloneSound, Working
    <2>5. row[i] = NoRow
        BY <2>1 DEF RowsWhole, Stored
    <2>6. Whole(i, n)'
        BY <2>3, StepNumbers DEF Whole, Steps
    <2>7. Seen(w)' = n
        BY <2>4 DEF Seen
    <2>8. QED
        BY <2>1, <2>3, <2>4, <2>5, <2>6, <2>7 DEF AloneSound, Working, Stored
<1>4. CASE Load(w)
    <2>1. /\ id[w] \in Ids /\ pc[w] = "load"
          /\ UNCHANGED <<row, lock, used, id, copy>>
          /\ row[id[w]] # NoRow /\ step'[w] = row[id[w]].current
          /\ pc'[w] = IF row[id[w]].failed THEN "rollback"
                      ELSE IF MayExecute(w, row[id[w]]) THEN "execute" ELSE "error"
        BY <1>0, <1>4 DEF Load, Go, TypeOK, WorkerSound, Message
    <2>2. copy'[w] = NoRow /\ \A i \in Ids : lock'[i] # w
        BY <1>0, <2>1 DEF WorkerSound, AloneSound, Working
    <2>3. id[w] \in used
        BY <2>1 DEF RowsWhole, Stored
    <2>4. Seen(w)' = row[id[w]]
        BY <2>1, <2>2, WorkerAssumption DEF Seen
    <2>5. row[id[w]].current \in Nat
        BY <2>1, StepNumbers DEF TypeOK, Row
    <2>6. CASE row[id[w]].failed
        <3>1. pc'[w] = "rollback"
            BY <2>1, <2>6
        <3>2. QED
            BY <2>1, <2>2, <2>3, <2>4, <2>5, <2>6, <3>1 DEF AloneSound, Working, Stored, Backwards
    <2>7. CASE ~row[id[w]].failed
        <3>1. pc'[w] \in {"execute", "error"}
            BY <2>1, <2>7
        <3>2. QED
            BY <2>1, <2>2, <2>3, <2>4, <2>7, <3>1 DEF AloneSound, Working, Stored
    <2>8. QED
        BY <2>1, <2>6, <2>7
<1>5. QED
    BY <1>1, <1>2, <1>3, <1>4

(* Those that execute, read and publish.                                    *)
LEMMA ExecuteAlone ==
    ASSUME TypeOK, Sound, RowsWhole, NEW w \in Workers, executed \subseteq executed',
           Execute(w) \/ ExecuteFails(w) \/ ReadResults(w) \/ Publish(w) \/ PublishFails(w)
    PROVE  AloneSound(w)' /\ row' = row /\ used \subseteq used'
<1>0. AloneSound(w) /\ WorkerSound(w)
    BY DEF RowsWhole, Sound
<1>1. UNCHANGED <<row, lock, used, id, step, copy>>
    BY DEF Execute, ExecuteFails, ReadResults, Publish, PublishFails
<1>2. Seen(w)' = Seen(w) /\ (copy'[w] # NoRow => Whole(id[w], copy[w])')
    BY <1>0, <1>1, SeenAlone, WholeKept DEF AloneSound
<1>3. /\ pc[w] \in {"execute", "read", "publish"} /\ Working(w) /\ Working(w)'
      /\ id[w] \in used
      /\ Stored(id[w]) => ~row[id[w]].failed
    BY <1>0 DEF AloneSound, Execute, ExecuteFails, ReadResults, Publish, PublishFails, Go, TypeOK, Working
<1>4. CASE Execute(w)
    <2>1. pc[w] = "execute" /\ pc'[w] = "read"
        BY <1>4 DEF Execute, Go, TypeOK
    <2>2. QED
        BY <1>0, <1>1, <1>2, <1>3, <2>1 DEF AloneSound, Stored
<1>5. CASE ExecuteFails(w) \/ PublishFails(w)
    <2>1. pc'[w] = "error"
        BY <1>5 DEF ExecuteFails, PublishFails, Go, TypeOK
    <2>2. QED
        BY <1>0, <1>1, <1>2, <1>3, <2>1 DEF AloneSound, Stored
<1>6. CASE ReadResults(w)
    <2>1. pc[w] = "read" /\ pc'[w] = "write" /\ (Seen(w) # NoRow => read'[w] = Seen(w).results)
        BY <1>6 DEF ReadResults, Go, TypeOK
    <2>2. QED
        BY <1>0, <1>1, <1>2, <1>3, <2>1 DEF AloneSound, Stored
<1>7. CASE Publish(w)
    <2>1. pc[w] = "publish" /\ pc'[w] = "commit"
        BY <1>7 DEF Publish, Go, TypeOK
    <2>2. Stored(id[w])' => Backwards(row[id[w]], Seen(w))'
        BY <1>1, <1>3 DEF Backwards, Stored
    <2>3. QED
        BY <1>0, <1>1, <1>2, <1>3, <2>1, <2>2 DEF AloneSound, Stored, Backwards
<1>8. QED
    BY <1>1, <1>4, <1>5, <1>6, <1>7

(* Those that write: what is written is whole, ...                          *)
LEMMA WriteAlone ==
    ASSUME TypeOK, Sound, RowsWhole, NEW w \in Workers, executed \subseteq executed', WriteResult(w)
    PROVE  AloneSound(w)' /\ row' = row /\ used \subseteq used'
<1>0. AloneSound(w) /\ WorkerSound(w)
    BY DEF RowsWhole, Sound
<1>1. /\ pc[w] = "write" /\ UNCHANGED <<row, used, id, step, executed>>
      /\ id[w] \in Ids /\ id[w] \in used
      /\ Stored(id[w]) => ~row[id[w]].failed
      /\ Reached(id[w], step[w]) /\ <<id[w], step[w]>> \in executed
    BY <1>0 DEF WriteResult, WorkerSound, AloneSound, Working
<1>2. PICK old : old = Seen(w)
    OBVIOUS
<1>3. old \in Row /\ Whole(id[w], old) /\ old.current = step[w] /\ read[w] = old.results
    BY <1>0, <1>1, <1>2, SeenTypes, RowAssumption
    DEF WriteResult, AloneSound, RowsWhole, Seen, Stored
<1>4. PICK res : res = read[w] \cup ({step[w]} \ Void)
    OBVIOUS
<1>5. res \in SUBSET Steps /\ step[w] \in Steps /\ read[w] \subseteq res /\ ({step[w]} \ Void) \subseteq res
    BY <1>4 DEF TypeOK
<1>6. PICK stored : stored = [old EXCEPT !.current = step[w], !.results = res]
    OBVIOUS
<1>7. /\ stored \in Row /\ stored.results = res /\ stored.current = step[w]
      /\ stored.failed = old.failed /\ stored.completed = old.completed
    BY <1>3, <1>5, <1>6 DEF Row
<1>8. \A s \in Steps : s < step[w] + 1 <=> s < step[w] \/ s = step[w]
    BY <1>5 DEF Steps
<1>9. ~old.failed => {s \in Steps : s < step[w] + 1} \ Void \subseteq res
    BY <1>3, <1>5, <1>8 DEF Whole
<1>10. CASE step[w] < N
    <2>1. PICK n : n = [stored EXCEPT !.current = step[w] + 1]
        OBVIOUS
    <2>2. /\ n.results = res /\ n.current = step[w] + 1
          /\ n.failed = old.failed /\ n.completed = old.completed
        BY <1>7, <2>1 DEF Row
    <2>3. Update(w, n) /\ pc'[w] = "publish"
        BY <1>2, <1>4, <1>6, <1>10, <2>1 DEF WriteResult, Go, TypeOK
    <2>4. Whole(id[w], n)
        BY <1>3, <1>5, <1>9, <2>2 DEF Whole
    <2>5. Whole(id[w], n)'
        BY <1>1, <2>4 DEF Whole, Reached
    <2>6. lock'[id[w]] = w /\ copy'[w] = n /\ \A i \in Ids : lock'[i] = w => i = id[w]
        BY <1>0, <1>1, <2>3, UpdateAlone DEF AloneSound
    <2>7. QED
        BY <1>1, <2>3, <2>5, <2>6 DEF AloneSound, Working, Stored
<1>11. CASE ~(step[w] < N)
    <2>1. PICK n : n = IF DeleteOnComplete THEN NoRow ELSE Completed(stored)
        OBVIOUS
    <2>2. Update(w, n) /\ pc'[w] = "commit"
        BY <1>2, <1>4, <1>6, <1>11, <2>1 DEF WriteResult, Go, TypeOK
    <2>3. step[w] = N
        BY <1>5, <1>11, StepsAssumption DEF Steps
    <2>4. \A s \in Steps : s < N + 1
        BY StepsAssumption DEF Steps
    <2>5. n # NoRow => Whole(id[w], n)
        <3> SUFFICES ASSUME n # NoRow PROVE Whole(id[w], n)
            OBVIOUS
        <3>1. n.results = res /\ n.current = N /\ n.failed = old.failed
            BY <1>7, <2>1, <2>3 DEF Completed, Row
        <3>2. Reached(id[w], N + 1)
            BY <1>1, <1>5, <2>3, ReachedNext
        <3>3. ~old.failed => Steps \ Void \subseteq res
            BY <1>9, <2>3, <2>4
        <3>4. QED
            BY <3>1, <3>2, <3>3 DEF Whole
    <2>6. n # NoRow => Whole(id[w], n)'
        BY <1>1, <2>5 DEF Whole, Reached
    <2>7. lock'[id[w]] = w /\ copy'[w] = n /\ \A i \in Ids : lock'[i] = w => i = id[w]
        BY <1>0, <1>1, <2>2, UpdateAlone DEF AloneSound
    <2>8. Stored(id[w])' => Backwards(row[id[w]], Seen(w))'
        BY <1>1 DEF Backwards, Stored
    <2>9. QED
        BY <1>1, <2>2, <2>6, <2>7, <2>8 DEF AloneSound, Working, Stored, Backwards
<1>12. QED
    BY <1>1, <1>10, <1>11

(* ... and of a failed state nothing but the pointer is, and that goes back. *)
LEMMA RollbackAlone ==
    ASSUME TypeOK, Sound, RowsWhole, NEW w \in Workers, executed \subseteq executed',
           StoreError(w) \/ RollbackTurn(w)
    PROVE  AloneSound(w)' /\ row' = row /\ used \subseteq used'
<1>0. AloneSound(w) /\ WorkerSound(w)
    BY DEF RowsWhole, Sound
<1>1. /\ pc[w] \in {"error", "rollback"} /\ UNCHANGED <<row, used, id, step, executed>>
      /\ id[w] \in Ids /\ id[w] \in used
    BY <1>0 DEF StoreError, RollbackTurn, WorkerSound, AloneSound, Working
<1>2. PICK old : old = Seen(w)
    OBVIOUS
<1>3. old \in Row
    BY <1>1, <1>2, SeenTypes DEF StoreError, RollbackTurn
<1>4. step[w] \in Steps /\ step[w] \in Nat
    BY StepNumbers DEF TypeOK
<1>5. CASE StoreError(w)
    <2>1. PICK n : n = [old EXCEPT !.failed = TRUE]
        OBVIOUS
    <2>2. n \in Row /\ n.failed
        BY <1>3, <2>1 DEF Row
    <2>3. Update(w, n) /\ pc[w] = "error" /\ pc'[w] = "rollback"
        BY <1>2, <1>5, <2>1 DEF StoreError, Go, TypeOK
    <2>4. /\ lock'[id[w]] = w /\ copy'[w] = n /\ Seen(w)' = n
          /\ \A i \in Ids : lock'[i] = w => i = id[w]
        BY <1>0, <1>1, <2>3, UpdateAlone DEF AloneSound
    <2>5. Stored(id[w]) => ~row[id[w]].failed
        BY <1>0, <2>3 DEF AloneSound
    <2>6. Whole(id[w], n)' /\ (Stored(id[w])' => Backwards(row[id[w]], Seen(w))')
        BY <1>1, <2>2, <2>5 DEF Whole, Backwards, Stored
    <2>7. QED
        BY <1>1, <2>2, <2>3, <2>4, <2>5, <2>6 DEF AloneSound, Working, Stored, Backwards
<1>6. CASE RollbackTurn(w)
    <2>1. PICK n : n = IF step[w] > 1 THEN SteppedBack(old, step[w]) ELSE Completed(old)
        OBVIOUS
    <2>2. Update(w, n) /\ pc[w] = "rollback" /\ pc'[w] \in {"rollback", "commit"}
        BY <1>2, <1>6, <2>1 DEF RollbackTurn, Go, TypeOK
    <2>3. old.failed /\ (Stored(id[w]) => Backwards(row[id[w]], old))
          /\ (Stored(id[w]) /\ row[id[w]].failed => step[w] <= row[id[w]].current)
        BY <1>0, <1>2, <1>3, <2>2, RowAssumption DEF AloneSound
    <2>4. /\ n \in Row /\ n.failed /\ n.results = old.results
          /\ n.current = old.current \/ n.current = step[w] - 1
        <3>1. CASE step[w] > 1
            <4>1. step[w] - 1 \in Steps
                BY <1>4, <3>1, StepsAssumption DEF Steps
            <4>2. n = [old EXCEPT !.current = step[w] - 1]
                BY <2>1, <3>1 DEF SteppedBack
            <4>3. QED
                BY <1>3, <2>3, <4>1, <4>2 DEF Row
        <3>2. CASE ~(step[w] > 1)
            BY <1>3, <2>1, <2>3, <3>2 DEF Completed, Row
        <3>3. QED
            BY <3>1, <3>2
    <2>5. /\ lock'[id[w]] = w /\ copy'[w] = n /\ Seen(w)' = n
          /\ \A i \in Ids : lock'[i] = w => i = id[w]
        BY <1>0, <1>1, <2>2, UpdateAlone DEF AloneSound
    <2>6. Stored(id[w]) => Backwards(row[id[w]], n)
        <3> SUFFICES ASSUME Stored(id[w]), row[id[w]].failed
                     PROVE  n # NoRow /\ n.failed /\ n.results = row[id[w]].results /\ n.current <= row[id[w]].current
            BY DEF Backwards
        <3>1. row[id[w]].current \in Nat
            BY <1>1, StepNumbers DEF TypeOK, Stored, Row
        <3>2. old.results = row[id[w]].results /\ old.current <= row[id[w]].current
            BY <2>3 DEF Backwards
        <3>3. step[w] - 1 <= row[id[w]].current
            BY <1>4, <2>3, <3>1
        <3>4. QED
            BY <2>4, <3>2, <3>3, RowAssumption
    <2>7. Whole(id[w], n)' /\ (Stored(id[w])' => Backwards(row[id[w]], Seen(w))')
        BY <1>1, <2>4, <2>5, <2>6 DEF Whole, Backwards, Stored
    <2>8. QED
        BY <1>1, <2>2, <2>3, <2>4, <2>5, <2>6, <2>7 DEF AloneSound, Working, Stored, Backwards
<1>7. QED
    BY <1>1, <1>5, <1>6

(* The ends of a handler: only Commit writes the row.                       *)
LEMMA CommitAlone ==
    ASSUME TypeOK, Sound, RowsWhole, NEW w \in Workers, Commit(w)
    PROVE  /\ AloneSound(w)' /\ used' = used
           /\ \A i \in Ids : Stored(i)' => i \in used' /\ Whole(i, row[i])'
           /\ \A i \in Ids : Stored(i) => Backwards(row[i], row'[i])
<1>0. AloneSound(w) /\ WorkerSound(w)
    BY DEF RowsWhole, Sound
<1>1. pc[w] = "commit" /\ Leave(w) /\ row' = [row EXCEPT ![id[w]] = copy[w]] /\ UNCHANGED <<used, executed>>
    BY DEF Commit
<1>2. id[w] \in Ids /\ id[w] \in used /\ lock[id[w]] = w
    BY <1>0, <1>1 DEF WorkerSound, AloneSound, Working
<1>3. AloneSound(w)'
    BY <1>1, LeaveAlone
<1>4. row'[id[w]] = copy[w] /\ \A i \in Ids \ {id[w]} : row'[i] = row[i]
    BY <1>1, <1>2 DEF TypeOK
<1>5. \A i \in Ids : Stored(i)' => i \in used' /\ Whole(i, row[i])'
    <2> SUFFICES ASSUME NEW i \in Ids, Stored(i)'
                 PROVE  i \in used' /\ Whole(i, row[i])'
        OBVIOUS
    <2>1. CASE i = id[w]
        <3>1. copy[w] # NoRow /\ Whole(i, copy[w])
            BY <1>0, <1>4, <2>1 DEF AloneSound, Stored
        <3>2. QED
            BY <1>1, <1>2, <1>4, <2>1, <3>1 DEF Whole, Reached
    <2>2. CASE i # id[w]
        BY <1>1, <1>4, <2>2 DEF RowsWhole, Stored, Whole, Reached
    <2>3. QED
        BY <2>1, <2>2
<1>6. \A i \in Ids : Stored(i) => Backwards(row[i], row'[i])
    <2> SUFFICES ASSUME NEW i \in Ids, Stored(i)
                 PROVE  Backwards(row[i], row'[i])
        OBVIOUS
    <2>1. CASE i = id[w]
        <3>1. Backwards(row[i], Seen(w)) /\ Seen(w) = copy[w]
            BY <1>0, <1>1, <1>2, <2>1 DEF AloneSound, Seen
        <3>2. QED
            BY <1>4, <2>1, <3>1
    <2>2. CASE i # id[w]
        <3>1. row'[i] = row[i] /\ row[i].current \in Nat /\ row[i] # NoRow
            BY <1>4, <2>2, StepNumbers DEF TypeOK, Row, Stored
        <3>2. QED
            BY <3>1 DEF Backwards
    <2>3. QED
        BY <2>1, <2>2
<1>7. QED
    BY <1>1, <1>3, <1>5, <1>6

(* What another worker does: it writes no row but that of its workflow, and *)
(* takes no lock away.                                                      *)
LEMMA OthersLocks ==
    ASSUME TypeOK, RowsWhole, NEW w \in Workers, WorkerStep(w), NEW v \in Workers, v # w
    PROVE  /\ \A i \in Ids : lock'[i] = v <=> lock[i] = v
           /\ used \subseteq used'
           /\ row' = row \/ (Working(w) /\ row' = [row EXCEPT ![id[w]] = copy[w]])
<1> USE DEF TypeOK
<1>1. CASE UNCHANGED <<lock, used, row>>
    BY <1>1
<1>2. CASE Leave(w) /\ UNCHANGED <<used, row>>
    BY <1>2, WorkerAssumption DEF Leave
<1>3. CASE Commit(w)
    BY <1>3, WorkerAssumption DEF Commit, Leave, Working
<1>4. CASE MayUpdate(w) /\ lock' = [lock EXCEPT ![id[w]] = w] /\ UNCHANGED <<used, row>>
    BY <1>4, WorkerAssumption DEF MayUpdate
<1>5. CASE StartWorkflow(w)
    <2>1. PICK i \in Ids \ used : used' = used \cup {i} /\ lock' = [lock EXCEPT ![i] = w] /\ row' = row
        BY <1>5 DEF StartWorkflow
    <2>2. lock[i] # v
        BY <2>1 DEF RowsWhole, AloneSound
    <2>3. QED
        BY <2>1, <2>2
<1>6. CASE (\E m \in Message : Receive(w, m)) \/ Redeliver(w) \/ Load(w) \/ Execute(w)
           \/ ExecuteFails(w) \/ ReadResults(w) \/ Publish(w) \/ PublishFails(w)
    BY <1>1, <1>6 DEF Receive, Redeliver, Load, Execute, ExecuteFails, ReadResults, Publish, PublishFails
<1>7. CASE Abort(w) \/ LoadMissing(w) \/ RollbackFails(w) \/ UpdateMissing(w)
    BY <1>2, <1>7 DEF Abort, LoadMissing, RollbackFails, UpdateMissing, Throw
<1>8. CASE WriteResult(w) \/ StoreError(w) \/ RollbackTurn(w)
    BY <1>4, <1>8 DEF WriteResult, StoreError, RollbackTurn, Update
<1>9. QED
    BY <1>3, <1>5, <1>6, <1>7, <1>8 DEF WorkerStep, HandlerStep

(* So what a worker has in its hands stays as it is.                        *)
LEMMA OtherAlone ==
    ASSUME TypeOK, Sound, RowsWhole, Separate, executed \subseteq executed',
           NEW w \in Workers, WorkerStep(w), NEW v \in Workers, v # w
    PROVE  AloneSound(v)'
<1>0. AloneSound(v) /\ WorkerSound(v)
    BY DEF RowsWhole, Sound
<1>1. /\ pc'[v] = pc[v] /\ id'[v] = id[v] /\ step'[v] = step[v]
      /\ read'[v] = read[v] /\ copy'[v] = copy[v]
    BY OneWorker
<1>2. used \subseteq used' /\ \A i \in Ids : lock'[i] = v <=> lock[i] = v
    BY OthersLocks
<1>3. Working(v)' <=> Working(v)
    BY <1>1 DEF Working
<1>4. copy'[v] # NoRow => Whole(id[v], copy[v])'
    BY <1>0, <1>1, WholeKept DEF AloneSound
<1>5. CASE ~Working(v)
    <2>1. pc[v] \in {"idle", "load"} /\ copy[v] = NoRow
        BY <1>0, <1>5 DEF Working, WorkerSound
    <2>2. QED
        BY <1>0, <1>1, <1>2, <1>3, <1>5, <2>1 DEF AloneSound
<1>6. CASE Working(v)
    <2>1. id[v] \in Ids
        BY <1>0, <1>6 DEF WorkerSound, Working
    <2>2. row'[id[v]] = row[id[v]]
        <3>1. CASE row' = row
            BY <3>1
        <3>2. CASE Working(w) /\ row' = [row EXCEPT ![id[w]] = copy[w]]
            <4>1. id[v] # id[w]
                BY <1>6, <3>2 DEF Separate
            <4>2. QED
                BY <2>1, <3>2, <4>1 DEF TypeOK
        <3>3. QED
            BY <3>1, <3>2, OthersLocks
    <2>3. Seen(v)' = Seen(v) /\ (Stored(id[v])' <=> Stored(id[v]))
        BY <1>1, <1>2, <2>1, <2>2 DEF Seen, Stored
    <2>4. Backwards(row[id[v]], Seen(v))' <=> Backwards(row[id[v]], Seen(v))
        BY <1>1, <2>2, <2>3 DEF Backwards
    <2>5. QED
        BY <1>0, <1>1, <1>2, <1>3, <1>4, <2>1, <2>2, <2>3, <2>4 DEF AloneSound
<1>7. QED
    BY <1>5, <1>6

LEMMA StepAlone ==
    ASSUME TypeOK, Sound, RowsWhole, Separate, [Next]_vars
    PROVE  /\ RowsWhole'
           /\ \A i \in Ids : Stored(i) => Backwards(row[i], row'[i])
<1>0. executed \subseteq executed'
    BY ExecutedGrows
<1>1. ASSUME row' = row
      PROVE  \A i \in Ids : Stored(i) => Backwards(row[i], row'[i])
    <2>1. \A i \in Ids : Stored(i) => row[i].current \in Nat
        BY StepNumbers DEF TypeOK, Row, Stored
    <2>2. QED
        BY <1>1, <2>1 DEF Stored, Backwards
<1>2. CASE UNCHANGED vars
    <2>1. RowsWhole'
        BY <1>2 DEF vars, RowsWhole, AloneSound, Working, Stored, Whole, Reached, Seen, Backwards
    <2>2. QED
        BY <1>1, <1>2, <2>1 DEF vars
<1>3. ASSUME NEW w \in Workers, WorkerStep(w)
      PROVE  /\ RowsWhole'
             /\ \A i \in Ids : Stored(i) => Backwards(row[i], row'[i])
    <2>1. ASSUME AloneSound(w)', row' = row, used \subseteq used'
          PROVE  /\ RowsWhole'
                 /\ \A i \in Ids : Stored(i) => Backwards(row[i], row'[i])
        <3>1. \A v \in Workers : AloneSound(v)'
            BY <1>0, <1>3, <2>1, OtherAlone
        <3>2. \A i \in Ids : Stored(i)' => i \in used' /\ Whole(i, row[i])'
            BY <1>0, <2>1, RowsKept
        <3>3. QED
            BY <1>1, <2>1, <3>1, <3>2 DEF RowsWhole
    <2>2. CASE (\E m \in Message : Receive(w, m)) \/ Redeliver(w) \/ StartWorkflow(w) \/ Load(w)
        BY <1>0, <2>1, <2>2, LoadAlone
    <2>3. CASE Execute(w) \/ ExecuteFails(w) \/ ReadResults(w) \/ Publish(w) \/ PublishFails(w)
        BY <1>0, <2>1, <2>3, ExecuteAlone
    <2>4. CASE WriteResult(w)
        BY <1>0, <2>1, <2>4, WriteAlone
    <2>5. CASE StoreError(w) \/ RollbackTurn(w)
        BY <1>0, <2>1, <2>5, RollbackAlone
    <2>6. CASE Abort(w) \/ LoadMissing(w) \/ RollbackFails(w) \/ UpdateMissing(w)
        <3>1. Leave(w) /\ UNCHANGED <<row, used>>
            BY <2>6 DEF Abort, LoadMissing, RollbackFails, UpdateMissing, Throw
        <3>2. QED
            BY <2>1, <3>1, LeaveAlone
    <2>7. CASE Commit(w)
        <3>1. \A v \in Workers : AloneSound(v)'
            BY <1>0, <1>3, <2>7, CommitAlone, OtherAlone
        <3>2. QED
            BY <2>7, <3>1, CommitAlone DEF RowsWhole
    <2>8. QED
        BY <1>3, <2>2, <2>3, <2>4, <2>5, <2>6, <2>7 DEF WorkerStep, HandlerStep
<1>4. QED
    BY <1>2, <1>3 DEF Next, WorkerStep

LEMMA AlwaysWhole == SafeSpec /\ []Separate => []RowsWhole
<1>1. Init => RowsWhole
    BY WorkerAssumption DEF Init, RowsWhole, Stored, AloneSound, Working
<1>2. TypeOK /\ Sound /\ RowsWhole /\ Separate /\ [Next]_vars => RowsWhole'
    BY StepAlone
<1>3. QED
    BY <1>1, <1>2, AlwaysSound, PTL DEF SafeSpec

(* As long as no two workers handle messages of the same workflow at once,  *)
(* however many workflows and workers there are and whatever fails, is      *)
(* aborted or delivered again, a workflow that has not failed has the       *)
(* results of all steps in front of its pointer (storeStepResult,           *)
(* updateCurrentStep).                                                      *)
THEOREM ResultsAreKept == SafeSpec /\ []Separate => []ResultsKept
<1>1. RowsWhole => ResultsKept
    BY DEF RowsWhole, ResultsKept, Whole
<1>2. QED
    BY <1>1, AlwaysWhole, PTL

(* And it completes without an error only after its last step, with the     *)
(* results of all of them (publishNextStep, updateWorkflowCompleted).       *)
THEOREM CompletedWhenDone == SafeSpec /\ []Separate => []CompletedMeansDone
<1>1. RowsWhole => CompletedMeansDone
    BY DEF RowsWhole, CompletedMeansDone, Whole
<1>2. QED
    BY <1>1, AlwaysWhole, PTL

(* And once its failure is committed, it only goes back: the error stays,   *)
(* no result is added and the pointer never advances (processPayload,       *)
(* executeRollback).                                                        *)
THEOREM OnlyGoesBack == SafeSpec /\ []Separate => FailedOnlyGoesBack
<1>1. TypeOK /\ Sound /\ RowsWhole /\ Separate /\ [Next]_vars =>
          [\A i \in Ids : Stored(i) /\ row[i].failed =>
              /\ Stored(i)'
              /\ row'[i].failed
              /\ row'[i].results = row[i].results
              /\ row'[i].current <= row[i].current]_vars
    BY StepAlone DEF Backwards, Stored
<1>2. QED
    BY <1>1, AlwaysSound, AlwaysWhole, PTL DEF SafeSpec, FailedOnlyGoesBack
=============================================================================
