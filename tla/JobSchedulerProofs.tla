-------------------------- MODULE JobSchedulerProofs --------------------------
(***************************************************************************)
(* Proofs about the job scheduler, for any number of jobs, pods, workers,   *)
(* faults and restarts.                                                     *)
(***************************************************************************)
EXTENDS JobScheduler, FiniteSetTheorems, TLAPS

(* The updates of a row give rows, and what they leave alone.               *)
LEMMA RowFields ==
    ASSUME NEW r \in Row
    PROVE  r.failures \in 0 .. MaxFailures /\ r.queued \in BOOLEAN /\ r.accepted \in BOOLEAN
BY DEF Row

LEMMA ReleaseUpdate ==
    ASSUME NEW r \in Row
    PROVE  /\ Release(r) \in Row /\ ~Release(r).queued /\ Release(r).age = "fresh"
           /\ Release(r).accepted = r.accepted /\ Release(r).failures = r.failures
BY DEF Row, Release, Age

LEMMA FailuresUpdate ==
    ASSUME NEW r \in Row, NEW f \in 0 .. MaxFailures, NEW n, n = [r EXCEPT !.failures = f]
    PROVE  /\ n \in Row /\ n.failures = f
           /\ n.queued = r.queued /\ n.accepted = r.accepted /\ n.age = r.age
BY DEF Row

LEMMA QueueUpdate ==
    ASSUME NEW r \in Row, NEW n, n = [r EXCEPT !.queued = TRUE, !.accepted = FALSE]
    PROVE  n \in Row /\ n.queued /\ ~n.accepted /\ n.age = r.age /\ n.failures = r.failures
BY DEF Row

LEMMA AcceptUpdate ==
    ASSUME NEW r \in Row, NEW n, n = [r EXCEPT !.accepted = TRUE, !.age = "fresh"]
    PROVE  n \in Row /\ n.queued = r.queued /\ n.accepted /\ n.age = "fresh" /\ n.failures = r.failures
BY DEF Row, Age

LEMMA AgeUpdate ==
    ASSUME NEW r \in Row, NEW a \in {"late", "overdue"}, NEW n, n = [r EXCEPT !.age = a]
    PROVE  n \in Row /\ n.queued = r.queued /\ n.accepted = r.accepted /\ n.failures = r.failures
BY DEF Row, Age

LEMMA Naturals0 == 0 \in 0 .. MaxFailures /\ 0 \in 0 .. MaxSent /\ 0 \in 0 .. MaxFaults
BY SchedulerAssumption

LEMMA IdleType == Idle \in Run /\ Idle.stage = "idle" /\ Idle.job = NoJob
BY Naturals0 DEF Idle, Run

(* A worker has a job unless it is idle.                                    *)
WorkersSound == \A w \in Workers : run[w].stage = "idle" <=> run[w].job = NoJob

LEMMA ExistingRow == ASSUME TypeOK, NEW j \in Jobs, Exists(j) PROVE row[j] \in Row
BY DEF TypeOK, Exists

LEMMA WorkingOn ==
    ASSUME TypeOK, WorkersSound, NEW w \in Workers, run[w].stage # "idle"
    PROVE  run[w].job \in Jobs /\ run[w].failures \in 0 .. MaxFailures
BY DEF TypeOK, WorkersSound, Run

LEMMA FaultTypes == ASSUME TypeOK, NEW kind, Fault(kind) PROVE faults' \in 0 .. MaxFaults
BY SchedulerAssumption DEF TypeOK, Fault

LEMMA AfterRounds == \A p \in Pods : AfterRound(p) \in {"timer", "stopped"}
BY DEF AfterRound

(* The rows that a worker writes.                                           *)
LEMMA ReleasedRow ==
    ASSUME TypeOK, NEW w \in Workers, run[w].job \in Jobs, Exists(run[w].job)
    PROVE  /\ Released(w) \in Row /\ Released(w).failures = row[run[w].job].failures
           /\ Released(w).accepted = row[run[w].job].accepted
           /\ Released(w).queued <=> (row[run[w].job].queued /\ ~run[w].queued)
           /\ Released(w).age \in {row[run[w].job].age, "fresh"}
<1>1. row[run[w].job] \in Row
    BY ExistingRow
<1> DEFINE r == row[run[w].job]
           free == run[w].queued
<1>2. Released(w) = IF free THEN Release(r) ELSE r
    BY DEF Released
<1>3. r \in Row /\ r.queued \in BOOLEAN
    BY <1>1, RowFields
<1> HIDE DEF r, free
<1>4. /\ Released(w) \in Row /\ Released(w).failures = r.failures /\ Released(w).accepted = r.accepted
      /\ (Released(w).queued <=> r.queued /\ ~free) /\ Released(w).age \in {r.age, "fresh"}
    BY <1>2, <1>3, ReleaseUpdate
<1>5. QED
    BY <1>4 DEF r, free

-----------------------------------------------------------------------------
(* The types, action by action.                                             *)
LEMMA DoneTypes ==
    ASSUME TypeOK, NEW p \in Pods, NEW j \in Jobs, Done(p, j)
    PROVE  /\ batch' \in [Pods -> SUBSET Jobs] /\ phase' \in [Pods -> Phase]
           /\ batch'[p] = batch[p] \ {j}
           /\ phase'[p] \in {"timer", "stopped", "publish"}
           /\ batch'[p] # {} => phase'[p] = "publish"
           /\ \A q \in Pods \ {p} : batch'[q] = batch[q] /\ phase'[q] = phase[q]
BY AfterRounds DEF TypeOK, Done, Go, Phase

(* The steps of a pod that leave the rows, the messages and the runs alone. *)
PodStep(p) ==
    \/ RunScheduledJobs(p) \/ FetchFails(p) \/ Pause(p) \/ Terminate(p) \/ TerminateReturns(p)
    \/ PodDies(p) \/ Restart(p) \/ StartCheck(p) \/ FindBlocked(p) \/ FindLaggy(p) \/ AllReset(p)
    \/ MaintenanceFails(p) \/ \E j \in found[p] : ResetFails(p, j)

LEMMA PodStepTypes ==
    ASSUME TypeOK, NEW p \in Pods, PodStep(p), once' = once, returned' = returned
    PROVE  TypeOK' /\ UNCHANGED <<row, sent, run>>
<1> USE DEF TypeOK, PodStep
<1>1. CASE RunScheduledJobs(p) \/ Pause(p) \/ TerminateReturns(p) \/ Restart(p)
    BY <1>1 DEF RunScheduledJobs, Pause, TerminateReturns, Restart, Go, Phase
<1>2. CASE FetchFails(p) \/ PodDies(p) \/ MaintenanceFails(p)
    BY <1>2, FaultTypes DEF FetchFails, PodDies, MaintenanceFails, Go, Phase, Maintaining
<1>3. CASE Terminate(p)
    BY <1>3 DEF Terminate, Go, Phase
<1>4. CASE StartCheck(p) \/ FindBlocked(p) \/ FindLaggy(p) \/ AllReset(p)
    BY <1>4, JobAssumption DEF StartCheck, FindBlocked, FindLaggy, AllReset, Go, Phase, Maintaining
<1>5. CASE \E j \in found[p] : ResetFails(p, j)
    BY <1>5, FaultTypes DEF ResetFails
<1>6. QED
    BY <1>1, <1>2, <1>3, <1>4, <1>5

Working == {"publish"} \cup Maintaining
MaintainingOn == Maintaining \ {"accept"}

LEMMA PodStepEffect ==
    ASSUME TypeOK, NEW p \in Pods, PodStep(p)
    PROVE  /\ \A q \in Pods \ {p} : phase'[q] = phase[q] /\ batch'[q] = batch[q] /\ found'[q] = found[q]
           /\ phase'[p] \in Maintaining => phase[p] \in Maintaining \/ Check \in batch[p]
           /\ phase'[p] \in MaintainingOn => phase[p] \in MaintainingOn
           /\ phase'[p] \in Working => batch'[p] = batch[p]
           /\ phase'[p] \notin Working => phase[p] \notin Working \/ batch'[p] = {}
           /\ batch'[p] \in {batch[p], {}}
           /\ \A j \in found'[p] : j \in found[p] \/ (j # Check /\ Queued(j) /\ row[j].age # "fresh")
<1> USE DEF TypeOK, Working, MaintainingOn, Maintaining
<1>1. CASE RunScheduledJobs(p) \/ Pause(p) \/ TerminateReturns(p) \/ Restart(p)
    BY <1>1 DEF RunScheduledJobs, Pause, TerminateReturns, Restart, Go
<1>2. CASE FetchFails(p) \/ PodDies(p)
    BY <1>2 DEF FetchFails, PodDies, Go
<1>3. CASE Terminate(p)
    BY <1>3 DEF Terminate, Go
<1>4. CASE StartCheck(p) \/ AllReset(p) \/ MaintenanceFails(p)
    BY <1>4 DEF StartCheck, AllReset, MaintenanceFails, Go
<1>5. CASE FindBlocked(p)
    BY <1>5, JobAssumption DEF FindBlocked, Go, Blocked
<1>6. CASE FindLaggy(p)
    BY <1>6, JobAssumption DEF FindLaggy, Go, Laggy
<1>7. CASE \E j \in found[p] : ResetFails(p, j)
    BY <1>7 DEF ResetFails
<1>8. QED
    BY <1>1, <1>2, <1>3, <1>4, <1>5, <1>6, <1>7 DEF PodStep

-----------------------------------------------------------------------------
(* The maintenance job: its row always exists, no message is sent for it    *)
(* and nobody resets it; a pod in maintenance has it in its batch, as only  *)
(* one pod does, and its row is queued until that pod is done with it.      *)
CheckSound ==
    /\ Exists(Check) /\ sent[Check] = 0
    /\ \A w \in Workers : run[w].job # Check
    /\ \A p \in Pods :
          /\ Check \notin found[p]
          /\ phase[p] \in Maintaining => Check \in batch[p]
          /\ phase[p] \notin {"publish"} \cup Maintaining => batch[p] = {}
          /\ Check \in batch[p] => Queued(Check)
          /\ \A q \in Pods : Check \in batch[p] /\ Check \in batch[q] => p = q

(* Every message that was delivered again has cost a fault.                 *)
ReturnedSound == \A j \in Jobs : returned[j] <= faults

Sound == TypeOK /\ WorkersSound /\ CheckSound /\ ReturnedSound

-----------------------------------------------------------------------------
(* What the steps do that change rows, messages or runs.                    *)

LEMMA FetchEffect ==
    ASSUME TypeOK, NEW p \in Pods, NEW js \in SUBSET Jobs, FetchAndEnqueueJobs(p, js), once' = once, returned' = returned
    PROVE  /\ TypeOK'
           /\ UNCHANGED <<sent, found, run>>
           /\ phase[p] = "fetch"
           /\ batch'[p] = js
           /\ js # {} => phase'[p] = "publish"
           /\ phase'[p] \in {"timer", "stopped", "publish"}
           /\ \A q \in Pods \ {p} : batch'[q] = batch[q] /\ phase'[q] = phase[q]
           /\ \A j \in Jobs \ js : row'[j] = row[j]
           /\ \A j \in js : /\ Dormant(j)
                            /\ row'[j] \in Row /\ row'[j].queued /\ ~row'[j].accepted
                            /\ row'[j].age = row[j].age /\ row'[j].failures = row[j].failures
<1>1. \A j \in js : /\ Dormant(j)
                    /\ row'[j] \in Row /\ row'[j].queued /\ ~row'[j].accepted
                    /\ row'[j].age = row[j].age /\ row'[j].failures = row[j].failures
    BY ExistingRow, QueueUpdate DEF FetchAndEnqueueJobs, Dormant
<1>2. \A j \in Jobs \ js : row'[j] = row[j]
    BY DEF FetchAndEnqueueJobs
<1>3. row' \in [Jobs -> Row \cup {Gone}]
    <2>1. row' = [j \in Jobs |-> row'[j]]
        BY DEF FetchAndEnqueueJobs
    <2>2. \A j \in Jobs : row'[j] \in Row \cup {Gone}
        BY <1>1, <1>2 DEF TypeOK
    <2>3. QED
        BY <2>1, <2>2
<1>4. /\ phase[p] = "fetch" /\ phase' \in [Pods -> Phase]
      /\ js # {} => phase'[p] = "publish"
      /\ phase'[p] \in {"timer", "stopped", "publish"}
      /\ \A q \in Pods \ {p} : phase'[q] = phase[q]
    BY AfterRounds DEF FetchAndEnqueueJobs, Go, TypeOK, Phase
<1>5. /\ batch' \in [Pods -> SUBSET Jobs]
      /\ batch'[p] = js /\ \A q \in Pods \ {p} : batch'[q] = batch[q]
      /\ UNCHANGED <<sent, found, paused, term, run, faults>>
    BY DEF FetchAndEnqueueJobs, TypeOK
<1>6. QED
    BY <1>1, <1>2, <1>3, <1>4, <1>5 DEF TypeOK

LEMMA PublishEffect ==
    ASSUME TypeOK, NEW p \in Pods, NEW j \in batch[p], Publish(p, j) \/ PublishFails(p, j), once' = once, returned' = returned
    PROVE  /\ TypeOK'
           /\ UNCHANGED <<row, found, run>>
           /\ j \in Jobs \ {Check}
           /\ phase[p] = "publish"
           /\ batch'[p] = batch[p] \ {j}
           /\ phase'[p] \in {"timer", "stopped", "publish"}
           /\ batch'[p] # {} => phase'[p] = "publish"
           /\ sent'[j] \in {sent[j], sent[j] + 1}
           /\ \A i \in Jobs \ {j} : sent'[i] = sent[i]
           /\ \A q \in Pods \ {p} : batch'[q] = batch[q] /\ phase'[q] = phase[q]
<1>1. j \in Jobs /\ Done(p, j)
    BY DEF TypeOK, Publish, PublishFails
<1>2. /\ sent' \in [Jobs -> 0 .. MaxSent]
      /\ sent'[j] \in {sent[j], sent[j] + 1}
      /\ \A i \in Jobs \ {j} : sent'[i] = sent[i]
    BY <1>1, SchedulerAssumption DEF TypeOK, Publish, PublishFails
<1>3. faults' \in 0 .. MaxFaults
    BY FaultTypes DEF TypeOK, Publish, PublishFails
<1>4. QED
    BY <1>1, <1>2, <1>3, DoneTypes DEF TypeOK, Publish, PublishFails

(* The rows that maintenance restarts are queued ones that are not fresh,   *)
(* or those it has read.                                                    *)
LEMMA RestartEffect ==
    ASSUME TypeOK, NEW p \in Pods,
           RestartBlocked(p) \/ RestartLaggy(p) \/ (\E j \in found[p] : ResetJob(p, j)), once' = once, returned' = returned
    PROVE  /\ TypeOK'
           /\ UNCHANGED <<sent, batch, run>>
           /\ phase[p] \in Maintaining \ {"accept"} /\ phase'[p] \in Maintaining \ {"accept"}
           /\ \A q \in Pods : found'[q] \subseteq found[q]
           /\ \A q \in Pods \ {p} : phase'[q] = phase[q]
           /\ \A j \in Jobs : Exists(j) => Exists(j)'
           /\ \A j \in Jobs : row'[j] = row[j] \/ (j # Check /\ Queued(j) /\ row[j].age # "fresh") \/ j \in found[p]
<1>1. CASE RestartBlocked(p)
    <2>1. \A j \in Safe : Blocked(j) => [Release(row[j]) EXCEPT !.failures = 0] \in Row
        BY JobAssumption, ExistingRow, ReleaseUpdate, FailuresUpdate, Naturals0 DEF Blocked, Queued
    <2>2. row' \in [Jobs -> Row \cup {Gone}]
        BY <1>1, <2>1 DEF RestartBlocked, TypeOK
    <2>3. \A j \in Jobs : Exists(j) => Exists(j)'
        BY <1>1, <2>1, GoneAssumption DEF RestartBlocked, Exists
    <2>4. phase' \in [Pods -> Phase] /\ phase'[p] = "find" /\ \A q \in Pods \ {p} : phase'[q] = phase[q]
        BY <1>1 DEF RestartBlocked, Go, Phase, Maintaining, TypeOK
    <2>5. \A j \in Jobs : row'[j] = row[j] \/ (j # Check /\ Queued(j) /\ row[j].age # "fresh")
        BY <1>1, JobAssumption DEF RestartBlocked, Blocked
    <2>6. phase[p] = "blocked" /\ UNCHANGED <<sent, batch, found, paused, term, run, faults>>
        BY <1>1 DEF RestartBlocked
    <2>7. QED
        BY <2>2, <2>3, <2>4, <2>5, <2>6 DEF TypeOK, Maintaining
<1>2. CASE RestartLaggy(p)
    <2>1. \A j \in Safe : Laggy(j) => Release(row[j]) \in Row
        BY JobAssumption, ExistingRow, ReleaseUpdate DEF Laggy, Queued
    <2>2. row' \in [Jobs -> Row \cup {Gone}]
        BY <1>2, <2>1 DEF RestartLaggy, TypeOK
    <2>3. \A j \in Jobs : Exists(j) => Exists(j)'
        BY <1>2, <2>1, GoneAssumption DEF RestartLaggy, Exists
    <2>4. phase' \in [Pods -> Phase] /\ phase'[p] = "findLaggy" /\ \A q \in Pods \ {p} : phase'[q] = phase[q]
        BY <1>2 DEF RestartLaggy, Go, Phase, Maintaining, TypeOK
    <2>5. \A j \in Jobs : row'[j] = row[j] \/ (j # Check /\ Queued(j) /\ row[j].age # "fresh")
        BY <1>2, JobAssumption DEF RestartLaggy, Laggy
    <2>6. phase[p] = "laggy" /\ UNCHANGED <<sent, batch, found, paused, term, run, faults>>
        BY <1>2 DEF RestartLaggy
    <2>7. QED
        BY <2>2, <2>3, <2>4, <2>5, <2>6 DEF TypeOK, Maintaining
<1>3. CASE \E j \in found[p] : ResetJob(p, j)
    <2>0. PICK j \in found[p] : ResetJob(p, j)
        BY <1>3
    <2>1. j \in Jobs
        BY DEF TypeOK
    <2>2. Exists(j) => Release(row[j]) \in Row
        BY <2>1, ExistingRow, ReleaseUpdate
    <2>3. row' \in [Jobs -> Row \cup {Gone}]
        BY <2>0, <2>1, <2>2 DEF ResetJob, TypeOK, Exists
    <2>4. \A i \in Jobs : Exists(i) => Exists(i)'
        BY <2>0, <2>1, <2>2, GoneAssumption DEF ResetJob, Exists, TypeOK
    <2>5. \A i \in Jobs : row'[i] = row[i] \/ i \in found[p]
        BY <2>0, <2>1 DEF ResetJob, TypeOK
    <2>6. found' \in [Pods -> SUBSET Jobs] /\ \A q \in Pods : found'[q] \subseteq found[q]
        BY <2>0 DEF ResetJob, TypeOK
    <2>7. phase[p] \in {"reset", "resetLaggy"} /\ UNCHANGED <<sent, phase, batch, paused, term, run, faults>>
        BY <2>0 DEF ResetJob
    <2>8. QED
        BY <2>3, <2>4, <2>5, <2>6, <2>7 DEF TypeOK, Maintaining
<1>4. QED
    BY <1>1, <1>2, <1>3

LEMMA AcceptCheckEffect ==
    ASSUME TypeOK, Exists(Check), NEW p \in Pods, AcceptCheck(p), once' = once, returned' = returned
    PROVE  /\ TypeOK'
           /\ UNCHANGED <<sent, batch, found, run>>
           /\ phase[p] = "accept" /\ phase'[p] = "blocked"
           /\ \A q \in Pods \ {p} : phase'[q] = phase[q]
           /\ \A j \in Jobs \ {Check} : row'[j] = row[j]
           /\ row'[Check] \in Row /\ row'[Check].queued = row[Check].queued /\ row'[Check].accepted
           /\ row'[Check].age = "fresh" /\ row'[Check].failures = row[Check].failures
<1>1. /\ row'[Check] = [row[Check] EXCEPT !.accepted = TRUE, !.age = "fresh"]
      /\ row' \in [Jobs -> Row \cup {Gone}]
      /\ \A j \in Jobs \ {Check} : row'[j] = row[j]
    <2>1. Check \in Jobs /\ row[Check] \in Row
        BY JobAssumption, ExistingRow
    <2>2. [row[Check] EXCEPT !.accepted = TRUE, !.age = "fresh"] \in Row
        BY <2>1, AcceptUpdate
    <2>3. QED
        BY <2>1, <2>2 DEF AcceptCheck, TypeOK
<1>2. /\ phase[p] = "accept" /\ phase' \in [Pods -> Phase] /\ phase'[p] = "blocked"
      /\ \A q \in Pods \ {p} : phase'[q] = phase[q]
      /\ UNCHANGED <<sent, batch, found, paused, term, run, faults>>
    BY DEF AcceptCheck, Go, TypeOK, Phase, Maintaining
<1>3. row[Check] \in Row
    BY JobAssumption, ExistingRow
<1>4. QED
    BY <1>1, <1>2, <1>3, AcceptUpdate DEF TypeOK

LEMMA EndCheckEffect ==
    ASSUME TypeOK, Exists(Check), NEW p \in Pods, FinishCheck(p) \/ CheckFails(p), once' = once, returned' = returned
    PROVE  /\ TypeOK'
           /\ UNCHANGED <<sent, found, run>>
           /\ phase[p] \in {"accept", "finish"}
           /\ batch'[p] = batch[p] \ {Check}
           /\ phase'[p] \in {"timer", "stopped", "publish"}
           /\ batch'[p] # {} => phase'[p] = "publish"
           /\ \A q \in Pods \ {p} : batch'[q] = batch[q] /\ phase'[q] = phase[q]
           /\ \A j \in Jobs \ {Check} : row'[j] = row[j]
           /\ row'[Check] = row[Check] \/
                 /\ phase[p] = "finish"
                 /\ row'[Check] \in Row /\ ~row'[Check].queued /\ row'[Check].accepted = row[Check].accepted
                 /\ row'[Check].age = "fresh" /\ row'[Check].failures \in {0, 1}
<1>0. Check \in Jobs /\ row[Check] \in Row
    BY JobAssumption, ExistingRow
<1>1. ASSUME NEW f \in {0, 1}, row' = [row EXCEPT ![Check] = [Release(@) EXCEPT !.failures = f]]
      PROVE  /\ row' \in [Jobs -> Row \cup {Gone}]
             /\ \A j \in Jobs \ {Check} : row'[j] = row[j]
             /\ row'[Check] \in Row /\ ~row'[Check].queued /\ row'[Check].accepted = row[Check].accepted
             /\ row'[Check].age = "fresh" /\ row'[Check].failures \in {0, 1}
    <2>1. f \in 0 .. MaxFailures
        BY SchedulerAssumption
    <2>2. /\ row'[Check] = [Release(row[Check]) EXCEPT !.failures = f]
          /\ \A j \in Jobs \ {Check} : row'[j] = row[j]
        BY <1>0, <1>1 DEF TypeOK
    <2>3. /\ row'[Check] \in Row /\ ~row'[Check].queued /\ row'[Check].accepted = row[Check].accepted
          /\ row'[Check].age = "fresh" /\ row'[Check].failures = f
        BY <1>0, <2>1, <2>2, ReleaseUpdate, FailuresUpdate
    <2>4. row' \in [Jobs -> Row \cup {Gone}]
        BY <1>1, <2>3 DEF TypeOK
    <2>5. QED
        BY <2>2, <2>3, <2>4
<1>2. /\ Done(p, Check) /\ phase[p] \in {"accept", "finish"}
      /\ UNCHANGED <<sent, found, paused, term, run>> /\ faults' \in 0 .. MaxFaults
      /\ \/ row' = row
         \/ phase[p] = "finish" /\ \E f \in {0, 1} : row' = [row EXCEPT ![Check] = [Release(@) EXCEPT !.failures = f]]
    BY FaultTypes DEF FinishCheck, CheckFails, TypeOK
<1>3. QED
    BY <1>0, <1>1, <1>2, DoneTypes DEF TypeOK

LEMMA TakeEffect ==
    ASSUME TypeOK, WorkersSound, NEW w \in Workers, NEW j \in Jobs, Take(w, j), once' = once, returned' = returned
    PROVE  /\ TypeOK' /\ WorkersSound'
           /\ UNCHANGED <<row, phase, batch, found>>
           /\ run[w].job = NoJob /\ run'[w].job = j
           /\ sent[j] > 0 /\ sent'[j] = sent[j] - 1
           /\ \A i \in Jobs \ {j} : sent'[i] = sent[i]
           /\ \A v \in Workers \ {w} : run'[v] = run[v]
           /\ Exists(j) => /\ run'[w].stage = "loaded" /\ run'[w].queued = row[j].queued
                           /\ run'[w].failures = row[j].failures
<1>1. \A i \in Jobs \ {j} : sent'[i] = sent[i]
    BY DEF Take, TypeOK
<1>2. /\ sent[j] > 0 /\ sent'[j] = sent[j] - 1
      /\ sent' \in [Jobs -> 0 .. MaxSent]
    BY SchedulerAssumption DEF Take, TypeOK
<1> DEFINE loaded == [stage |-> "loaded", job |-> j, queued |-> row[j].queued, failures |-> row[j].failures]
           other == [Idle EXCEPT !.stage = "untracked", !.job = j]
<1>4. Exists(j) => loaded \in Run
    BY ExistingRow, RowFields DEF Run
<1>5. other \in Run /\ other.stage = "untracked" /\ other.job = j
    BY Naturals0 DEF Run, Idle
<1>6. /\ run' \in [Workers -> Run]
      /\ \A v \in Workers \ {w} : run'[v] = run[v]
      /\ run'[w] = IF Exists(j) THEN loaded ELSE other
    BY <1>4, <1>5 DEF Take, TypeOK
<1>7. run[w].stage = "idle" /\ UNCHANGED <<row, phase, batch, found, paused, term, faults>>
    BY DEF Take
<1>8. run'[w].job = j /\ run'[w].stage # "idle" /\ NoJob # j
    BY <1>5, <1>6, JobAssumption
<1>9. WorkersSound'
    BY <1>6, <1>8 DEF WorkersSound
<1>10. QED
    BY <1>1, <1>2, <1>6, <1>7, <1>8, <1>9 DEF TypeOK, WorkersSound

LEMMA AcceptJobEffect ==
    ASSUME TypeOK, WorkersSound, NEW w \in Workers, AcceptJob(w), once' = once, returned' = returned
    PROVE  /\ TypeOK' /\ WorkersSound'
           /\ UNCHANGED <<sent, phase, batch, found>>
           /\ run[w].job \in Jobs
           /\ run[w].stage = "loaded"
           /\ run'[w] = [run[w] EXCEPT !.stage = "running"]
           /\ \A v \in Workers \ {w} : run'[v] = run[v]
           /\ \A i \in Jobs \ {run[w].job} : row'[i] = row[i]
           /\ Exists(run[w].job) =>
                 LET new == row'[run[w].job]
                     old == row[run[w].job]
                 IN /\ new \in Row /\ new.queued = old.queued /\ new.accepted
                    /\ new.age = "fresh" /\ new.failures = old.failures
           /\ ~Exists(run[w].job) => row'[run[w].job] = Gone
<1> DEFINE j == run[w].job
<1>1. j \in Jobs
    BY WorkingOn DEF AcceptJob
<1>2. /\ row' \in [Jobs -> Row \cup {Gone}]
      /\ \A i \in Jobs \ {j} : row'[i] = row[i]
      /\ Exists(j) => row'[j] = [row[j] EXCEPT !.accepted = TRUE, !.age = "fresh"]
      /\ ~Exists(j) => row'[j] = Gone
    BY <1>1, ExistingRow, AcceptUpdate DEF AcceptJob, TypeOK, Exists
<1>3. /\ run' \in [Workers -> Run]
      /\ run'[w] = [run[w] EXCEPT !.stage = "running"]
      /\ \A v \in Workers \ {w} : run'[v] = run[v]
    BY DEF AcceptJob, TypeOK, Run
<1>4. run[w].stage = "loaded" /\ UNCHANGED <<sent, phase, batch, found, paused, term, faults>>
    BY DEF AcceptJob
<1>5. run'[w].stage = "running" /\ run'[w].job = j
    BY <1>3 DEF TypeOK, Run
<1>6. WorkersSound'
    <2>1. j # NoJob
        BY <1>1, JobAssumption
    <2>2. QED
        BY <1>3, <1>5, <2>1 DEF WorkersSound
<1>7. Exists(j) => row[j] \in Row
    BY <1>1, ExistingRow
<1>8. Exists(j) => /\ row'[j] \in Row /\ row'[j].queued = row[j].queued /\ row'[j].accepted
                   /\ row'[j].age = "fresh" /\ row'[j].failures = row[j].failures
    <2>1. SUFFICES ASSUME Exists(j)
                   PROVE  /\ row'[j] \in Row /\ row'[j].queued = row[j].queued /\ row'[j].accepted
                          /\ row'[j].age = "fresh" /\ row'[j].failures = row[j].failures
        OBVIOUS
    <2>2. row[j] \in Row /\ row'[j] = [row[j] EXCEPT !.accepted = TRUE, !.age = "fresh"]
        BY <1>2, <1>7, <2>1
    <2> HIDE DEF j
    <2>3. QED
        BY <2>2, AcceptUpdate
<1>9. QED
    BY <1>1, <1>2, <1>3, <1>4, <1>6, <1>8 DEF TypeOK

(* What happens when the helper is done, and when the worker is.            *)
LEMMA RunEndsEffect ==
    ASSUME TypeOK, WorkersSound, NEW w \in Workers, RunEnds(w), run[w].stage # "idle"
    PROVE  /\ run' \in [Workers -> Run] /\ WorkersSound'
           /\ run'[w].job = run[w].job /\ run'[w].stage = "ended"
           /\ \A v \in Workers \ {w} : run'[v] = run[v]
<1> DEFINE new == [Idle EXCEPT !.stage = "ended", !.job = run[w].job]
<1>1. run[w].job \in Jobs /\ run[w].job # NoJob
    BY WorkingOn, JobAssumption
<1>2. new \in Run /\ new.stage = "ended" /\ new.job = run[w].job
    BY <1>1, Naturals0 DEF Run, Idle
<1>3. run' = [run EXCEPT ![w] = new]
    BY DEF RunEnds
<1> HIDE DEF new
<1>4. QED
    BY <1>1, <1>2, <1>3 DEF TypeOK, WorkersSound

LEMMA IdleEffect ==
    ASSUME TypeOK, WorkersSound, NEW w \in Workers, run' = [run EXCEPT ![w] = Idle]
    PROVE  /\ run' \in [Workers -> Run] /\ WorkersSound'
           /\ run'[w].job = NoJob
           /\ \A v \in Workers \ {w} : run'[v] = run[v]
BY IdleType DEF TypeOK, WorkersSound

(* The end of a run, whether its task has succeeded or not.                 *)
EndJob(w) == FinishJob(w) \/ FinishFails(w) \/ FailJob(w)

LEMMA EndJobEffect ==
    ASSUME TypeOK, WorkersSound, NEW w \in Workers, EndJob(w), once' = once, returned' = returned
    PROVE  /\ TypeOK' /\ WorkersSound'
           /\ UNCHANGED <<sent, phase, batch, found>>
           /\ run[w].job \in Jobs /\ run[w].stage = "running"
           /\ run'[w].job = run[w].job /\ run'[w].stage = "ended"
           /\ \A v \in Workers \ {w} : run'[v] = run[v]
           /\ \A i \in Jobs \ {run[w].job} : row'[i] = row[i]
           /\ LET new == row'[run[w].job]
                  old == row[run[w].job]
              IN \/ new = Gone /\ (~Exists(run[w].job) \/ run[w].job \in once)
                 \/ /\ Exists(run[w].job) /\ new \in Row
                    /\ new.accepted = old.accepted /\ new.age \in {old.age, "fresh"}
                    /\ \/ /\ new.queued <=> (old.queued /\ ~run[w].queued)
                          /\ \/ new.failures \in {0, 1, old.failures}
                             \/ new.failures <= MaxRestarts
                       \/ new.queued = old.queued /\ new.failures = run[w].failures + 1
<1> DEFINE j == run[w].job
           writes(f) == [Released(w) EXCEPT !.failures = f]
           counts == [row[j] EXCEPT !.failures = run[w].failures + 1]
<1>1. j \in Jobs /\ run[w].stage = "running" /\ run[w].failures \in 0 .. MaxFailures
    BY WorkingOn DEF EndJob, FinishJob, FinishFails, FailJob
<1>2. Exists(j) => /\ Released(w) \in Row /\ Released(w).failures = row[j].failures
                   /\ Released(w).accepted = row[j].accepted
                   /\ Released(w).queued <=> (row[j].queued /\ ~run[w].queued)
                   /\ Released(w).age \in {row[j].age, "fresh"}
    BY <1>1, ReleasedRow
<1>3. ASSUME Exists(j), NEW f \in 0 .. MaxFailures
      PROVE  /\ writes(f) \in Row /\ writes(f).failures = f /\ writes(f).accepted = row[j].accepted
             /\ writes(f).queued <=> (row[j].queued /\ ~run[w].queued)
             /\ writes(f).age \in {row[j].age, "fresh"}
    BY <1>2, <1>3, FailuresUpdate
<1>4. ASSUME Exists(j), run[w].failures < MaxFailures
      PROVE  /\ counts \in Row /\ counts.failures = run[w].failures + 1 /\ counts.accepted = row[j].accepted
             /\ counts.queued = row[j].queued /\ counts.age = row[j].age
    <2>1. row[j] \in Row /\ run[w].failures + 1 \in 0 .. MaxFailures
        BY <1>1, <1>4, ExistingRow, SchedulerAssumption
    <2>2. QED
        BY <2>1, FailuresUpdate
<1>5. /\ RunEnds(w) /\ UNCHANGED <<sent, phase, batch, found, paused, term>> /\ faults' \in 0 .. MaxFaults
    BY FaultTypes DEF EndJob, FinishJob, FinishFails, FailJob, TypeOK
<1>6. \/ row' = [row EXCEPT ![j] = Gone] /\ (~Exists(j) \/ j \in once)
      \/ Exists(j) /\ row' = [row EXCEPT ![j] = Released(w)]
      \/ Exists(j) /\ \E f \in {0, 1} : row' = [row EXCEPT ![j] = writes(f)]
      \/ /\ Exists(j) /\ run[w].failures < MaxFailures /\ run[w].failures < MaxRestarts
         /\ row' = [row EXCEPT ![j] = writes(run[w].failures + 1)]
      \/ Exists(j) /\ run[w].failures < MaxFailures /\ row' = [row EXCEPT ![j] = counts]
    <2>1. CASE FinishJob(w)
        BY <1>1, <2>1 DEF FinishJob, Exists, TypeOK
    <2>2. CASE FinishFails(w)
        BY <1>1, <2>2 DEF FinishFails, Exists, TypeOK
    <2>3. CASE FailJob(w)
        BY <1>1, <2>3 DEF FailJob, Retries, Exists, TypeOK
    <2>4. QED
        BY <2>1, <2>2, <2>3 DEF EndJob
<1> HIDE DEF j, writes, counts
<1>7. /\ row' \in [Jobs -> Row \cup {Gone}]
      /\ \A i \in Jobs \ {j} : row'[i] = row[i]
      /\ \/ row'[j] = Gone /\ (~Exists(j) \/ j \in once)
         \/ /\ Exists(j) /\ row'[j] \in Row
            /\ row'[j].accepted = row[j].accepted /\ row'[j].age \in {row[j].age, "fresh"}
            /\ \/ /\ row'[j].queued <=> (row[j].queued /\ ~run[w].queued)
                  /\ \/ row'[j].failures \in {0, 1, row[j].failures}
                     \/ row'[j].failures <= MaxRestarts
               \/ row'[j].queued = row[j].queued /\ row'[j].failures = run[w].failures + 1
    <2>1. CASE row' = [row EXCEPT ![j] = Gone] /\ (~Exists(j) \/ j \in once)
        BY <1>1, <2>1 DEF TypeOK
    <2>2. CASE Exists(j) /\ row' = [row EXCEPT ![j] = Released(w)]
        BY <1>1, <1>2, <2>2 DEF TypeOK
    <2>3. CASE Exists(j) /\ \E f \in {0, 1} : row' = [row EXCEPT ![j] = writes(f)]
        <3>1. PICK f \in {0, 1} : row' = [row EXCEPT ![j] = writes(f)]
            BY <2>3
        <3>2. f \in 0 .. MaxFailures
            BY SchedulerAssumption
        <3>3. QED
            BY <1>1, <1>3, <2>3, <3>1, <3>2 DEF TypeOK
    <2>4. CASE /\ Exists(j) /\ run[w].failures < MaxFailures /\ run[w].failures < MaxRestarts
               /\ row' = [row EXCEPT ![j] = writes(run[w].failures + 1)]
        <3>1. run[w].failures + 1 \in 0 .. MaxFailures /\ run[w].failures + 1 <= MaxRestarts
            BY <1>1, <2>4, SchedulerAssumption
        <3>2. QED
            BY <1>1, <1>3, <2>4, <3>1 DEF TypeOK
    <2>5. CASE Exists(j) /\ run[w].failures < MaxFailures /\ row' = [row EXCEPT ![j] = counts]
        BY <1>1, <1>4, <2>5 DEF TypeOK
    <2>6. QED
        BY <1>6, <2>1, <2>2, <2>3, <2>4, <2>5
<1>8. /\ run' \in [Workers -> Run] /\ WorkersSound'
      /\ run'[w].job = j /\ run'[w].stage = "ended"
      /\ \A v \in Workers \ {w} : run'[v] = run[v]
    BY <1>1, <1>5, RunEndsEffect DEF j
<1>9. TypeOK'
    BY <1>5, <1>7, <1>8 DEF TypeOK
<1>10. QED
    BY <1>1, <1>5, <1>7, <1>8, <1>9 DEF j

(* The other steps that leave the rows alone: a worker is through with a    *)
(* run, or its message comes back.                                          *)
WorkerEnds(w) == EndUntracked(w) \/ Acknowledge(w) \/ WorkerDies(w) \/ Redeliver(w)

LEMMA WorkerEndsEffect ==
    ASSUME TypeOK, WorkersSound, \A j \in Jobs : returned[j] <= faults,
           NEW w \in Workers, WorkerEnds(w), once' = once,
           EndUntracked(w) \/ Acknowledge(w) => returned' = returned
    PROVE  /\ TypeOK' /\ WorkersSound' /\ \A j \in Jobs : returned'[j] <= faults'
           /\ UNCHANGED <<row, phase, batch, found>>
           /\ run[w].job \in Jobs
           /\ \/ run'[w].job = NoJob
              \/ run'[w].job = run[w].job /\ (run'[w] = run[w] \/ run'[w].stage = "ended")
           /\ \A v \in Workers \ {w} : run'[v] = run[v]
           /\ \A i \in Jobs \ {run[w].job} : sent'[i] = sent[i] /\ returned'[i] = returned[i]
           /\ LET j == run[w].job
              IN \/ sent'[j] = sent[j] /\ returned'[j] = returned[j]
                 \/ /\ sent'[j] = sent[j] + 1 /\ returned'[j] = returned[j]
                    /\ run[w].stage # "ended" /\ run'[w].job = NoJob
                 \/ sent'[j] = sent[j] + 1 /\ returned'[j] = returned[j] + 1
<1> DEFINE j == run[w].job
<1>1. j \in Jobs /\ run[w].stage # "idle"
    BY WorkingOn DEF WorkerEnds, EndUntracked, Acknowledge, WorkerDies, Redeliver
<1>2. UNCHANGED <<row, phase, batch, found, paused, term>>
    BY DEF WorkerEnds, EndUntracked, Acknowledge, WorkerDies, Redeliver
<1>3. /\ run' \in [Workers -> Run] /\ WorkersSound'
      /\ \/ run'[w].job = NoJob
         \/ run'[w].job = j /\ (run'[w] = run[w] \/ run'[w].stage = "ended")
      /\ \A v \in Workers \ {w} : run'[v] = run[v]
    <2>1. CASE run' = [run EXCEPT ![w] = Idle]
        BY <2>1, IdleEffect
    <2>2. CASE RunEnds(w)
        BY <1>1, <2>2, RunEndsEffect
    <2>3. CASE run' = run
        BY <2>3 DEF TypeOK, WorkersSound
    <2>4. QED
        BY <2>1, <2>2, <2>3 DEF WorkerEnds, EndUntracked, Acknowledge, WorkerDies, Redeliver
<1> DEFINE alone == sent' = sent /\ returned' = returned /\ faults' \in {faults, faults + 1}
           back == ComesBack(j) /\ returned' = returned /\ faults' = faults + 1
           more == ComesBack(j) /\ Counted(j) /\ faults' = faults + 1
<1>4. \/ alone
      \/ back /\ run[w].stage # "ended" /\ run'[w].job = NoJob
      \/ more
    <2>1. CASE EndUntracked(w) \/ Acknowledge(w)
        BY <2>1 DEF EndUntracked, Acknowledge
    <2>2. CASE WorkerDies(w)
        <3>1. run'[w].job = NoJob
            BY <2>2, IdleEffect DEF WorkerDies
        <3>2. QED
            BY <2>2, <3>1 DEF WorkerDies, Fault
    <2>3. CASE Redeliver(w)
        BY <2>3 DEF Redeliver, Fault
    <2>4. QED
        BY <2>1, <2>2, <2>3 DEF WorkerEnds
<1>5. faults' \in 0 .. MaxFaults
    BY FaultTypes DEF WorkerEnds, EndUntracked, Acknowledge, WorkerDies, Redeliver, TypeOK
<1> HIDE DEF j
<1>6. /\ sent' \in [Jobs -> 0 .. MaxSent] /\ returned' \in [Jobs -> 0 .. MaxFaults]
      /\ \A i \in Jobs : returned'[i] <= faults'
      /\ \A i \in Jobs \ {j} : sent'[i] = sent[i] /\ returned'[i] = returned[i]
      /\ \/ sent'[j] = sent[j] /\ returned'[j] = returned[j]
         \/ back /\ sent'[j] = sent[j] + 1 /\ returned'[j] = returned[j]
         \/ sent'[j] = sent[j] + 1 /\ returned'[j] = returned[j] + 1
    <2>1. CASE alone
        BY <1>1, <2>1, SchedulerAssumption DEF TypeOK
    <2>2. CASE back
        BY <1>1, <1>5, <2>2, SchedulerAssumption DEF TypeOK, ComesBack
    <2>3. CASE more
        <3>1. /\ sent[j] < MaxSent /\ sent' = [sent EXCEPT ![j] = @ + 1]
              /\ returned' = [returned EXCEPT ![j] = @ + 1] /\ faults' = faults + 1
            BY <2>3 DEF ComesBack, Counted
        <3>2. /\ sent'[j] = sent[j] + 1 /\ returned'[j] = returned[j] + 1
              /\ \A i \in Jobs \ {j} : sent'[i] = sent[i] /\ returned'[i] = returned[i]
              /\ sent' \in [Jobs -> 0 .. MaxSent]
            BY <1>1, <3>1, SchedulerAssumption DEF TypeOK
        <3>3. \A i \in Jobs : returned'[i] <= faults' /\ returned'[i] \in 0 .. MaxFaults
            BY <1>1, <1>5, <3>1, <3>2, SchedulerAssumption DEF TypeOK
        <3>4. returned' \in [Jobs -> 0 .. MaxFaults]
            BY <3>1, <3>3 DEF TypeOK
        <3>5. QED
            BY <3>2, <3>3, <3>4
    <2>4. QED
        BY <1>4, <2>1, <2>2, <2>3
<1>7. \/ sent'[j] = sent[j] /\ returned'[j] = returned[j]
      \/ /\ sent'[j] = sent[j] + 1 /\ returned'[j] = returned[j]
         /\ run[w].stage # "ended" /\ run'[w].job = NoJob
      \/ sent'[j] = sent[j] + 1 /\ returned'[j] = returned[j] + 1
    <2>1. CASE alone
        BY <2>1
    <2>2. CASE back /\ run[w].stage # "ended" /\ run'[w].job = NoJob
        BY <1>1, <2>2 DEF ComesBack, TypeOK
    <2>3. CASE more
        BY <1>1, <2>3 DEF ComesBack, Counted, TypeOK
    <2>4. QED
        BY <1>4, <2>1, <2>2, <2>3
<1>8. TypeOK'
    BY <1>2, <1>3, <1>5, <1>6 DEF TypeOK
<1>9. QED
    BY <1>1, <1>2, <1>3, <1>6, <1>7, <1>8 DEF j

LEMMA GrowOldEffect ==
    ASSUME TypeOK, NEW j \in Jobs, GrowOld(j), once' = once, returned' = returned
    PROVE  /\ TypeOK'
           /\ UNCHANGED <<sent, phase, batch, found, run>>
           /\ j \in Late
           /\ \A i \in Jobs \ {j} : row'[i] = row[i]
           /\ row'[j] \in Row /\ row'[j].queued = row[j].queued
           /\ row'[j].accepted = row[j].accepted /\ row'[j].failures = row[j].failures
<1>1. row[j] \in Row /\ j \in Late
    BY ExistingRow DEF GrowOld, Queued
<1>2. PICK a \in {"late", "overdue"} : row' = [row EXCEPT ![j].age = a]
    BY DEF GrowOld
<1>3. row'[j] = [row[j] EXCEPT !.age = a] /\ \A i \in Jobs \ {j} : row'[i] = row[i]
    BY <1>2 DEF TypeOK
<1>4. /\ row'[j] \in Row /\ row'[j].queued = row[j].queued
      /\ row'[j].accepted = row[j].accepted /\ row'[j].failures = row[j].failures
    BY <1>1, <1>3, AgeUpdate
<1>5. row' \in [Jobs -> Row \cup {Gone}]
    BY <1>2, <1>3, <1>4 DEF TypeOK
<1>6. QED
    BY <1>1, <1>3, <1>4, <1>5 DEF GrowOld, TypeOK

-----------------------------------------------------------------------------
(* The steps, as the lemmas above describe them.                            *)
LEMMA Steps ==
    ASSUME TypeOK, Next
    PROVE  /\ once' = once
           /\ \/ /\ returned' = returned
                 /\ \/ \E p \in Pods :
                        \/ PodStep(p)
                        \/ \E js \in SUBSET Jobs : FetchAndEnqueueJobs(p, js)
                        \/ \E j \in batch[p] : Publish(p, j) \/ PublishFails(p, j)
                        \/ RestartBlocked(p) \/ RestartLaggy(p) \/ (\E j \in found[p] : ResetJob(p, j))
                        \/ AcceptCheck(p) \/ FinishCheck(p) \/ CheckFails(p)
                    \/ \E w \in Workers :
                        \/ \E j \in Jobs : Take(w, j)
                        \/ AcceptJob(w) \/ EndJob(w)
                    \/ \E j \in Jobs : GrowOld(j)
              \/ \E w \in Workers :
                    /\ WorkerEnds(w)
                    /\ EndUntracked(w) \/ Acknowledge(w) => returned' = returned
<1>1. once' = once
    BY DEF Next
<1>2. CASE Step /\ returned' = returned
    BY <1>1, <1>2 DEF Step, RoundStep, CheckStep, WorkerStep, PodStep, EndJob, WorkerEnds
<1>3. ASSUME NEW w \in Workers, WorkerDies(w) \/ Redeliver(w)
      PROVE  WorkerEnds(w) /\ (EndUntracked(w) \/ Acknowledge(w) => returned' = returned)
    <2>1. WorkerEnds(w)
        BY <1>3 DEF WorkerEnds
    <2>2. ~EndUntracked(w) /\ ~Acknowledge(w)
        <3>1. faults' = faults + 1 /\ faults \in Nat
            BY <1>3, SchedulerAssumption DEF WorkerDies, Redeliver, Fault, TypeOK
        <3>2. QED
            BY <3>1 DEF EndUntracked, Acknowledge
    <2>3. QED
        BY <2>1, <2>2
<1>4. QED
    BY <1>1, <1>2, <1>3 DEF Next

(* Steps that do not touch the row of the maintenance job, its messages,    *)
(* runs of it, or who has it.                                               *)
LEMMA CheckStays ==
    ASSUME CheckSound, row'[Check] = row[Check], sent'[Check] = sent[Check],
           \A w \in Workers : run'[w].job # Check,
           \A p \in Pods : /\ Check \notin found'[p]
                           /\ Check \in batch'[p] <=> Check \in batch[p]
                           /\ phase'[p] \in Maintaining => phase[p] \in Maintaining
                           /\ phase'[p] \notin Working => batch'[p] = {}
    PROVE  CheckSound'
<1>1. Exists(Check)' /\ (Queued(Check)' <=> Queued(Check))
    BY DEF CheckSound, Exists, Queued
<1>2. ASSUME NEW p \in Pods
      PROVE  /\ phase'[p] \in Maintaining => Check \in batch'[p]
             /\ Check \in batch'[p] => Queued(Check)
             /\ \A q \in Pods : Check \in batch'[p] /\ Check \in batch'[q] => p = q
    BY DEF CheckSound
<1>3. sent'[Check] = 0
    BY DEF CheckSound
<1>4. QED
    BY <1>1, <1>2, <1>3 DEF CheckSound, Working

(* Other steps never take a fault back.                                     *)
LEMMA StaysReturned ==
    ASSUME Sound, returned' = returned,
           \/ \E p \in Pods :
                \/ PodStep(p)
                \/ \E js \in SUBSET Jobs : FetchAndEnqueueJobs(p, js)
                \/ \E j \in batch[p] : Publish(p, j) \/ PublishFails(p, j)
                \/ RestartBlocked(p) \/ RestartLaggy(p) \/ (\E j \in found[p] : ResetJob(p, j))
                \/ AcceptCheck(p) \/ FinishCheck(p) \/ CheckFails(p)
           \/ \E w \in Workers : (\E j \in Jobs : Take(w, j)) \/ AcceptJob(w) \/ EndJob(w)
           \/ \E j \in Jobs : GrowOld(j)
    PROVE  ReturnedSound'
<1>1. faults \in Nat /\ \A j \in Jobs : returned[j] \in Nat
    BY SchedulerAssumption DEF Sound, TypeOK
<1>2. faults' = faults \/ faults' = faults + 1
    BY DEF PodStep, RunScheduledJobs, FetchFails, Pause, Terminate, TerminateReturns, PodDies, Restart,
           StartCheck, FindBlocked, FindLaggy, AllReset, MaintenanceFails, ResetFails,
           FetchAndEnqueueJobs, Publish, PublishFails, RestartBlocked, RestartLaggy, ResetJob,
           AcceptCheck, FinishCheck, CheckFails, Take, AcceptJob, EndJob, FinishJob, FinishFails,
           FailJob, GrowOld, Fault
<1>3. QED
    BY <1>1, <1>2 DEF Sound, ReturnedSound

LEMMA StepSound ==
    ASSUME Sound, [Next]_vars
    PROVE  Sound'
<1> USE DEF Sound
<1>0. Check \in Jobs /\ Check # NoJob
    BY JobAssumption
<1>1. CASE UNCHANGED vars
    BY <1>1 DEF vars, steady, TypeOK, WorkersSound, CheckSound, ReturnedSound, Exists, Queued
<1>2. ASSUME once' = once, returned' = returned, NEW p \in Pods, PodStep(p)
      PROVE  Sound'
    <2>1. TypeOK' /\ UNCHANGED <<row, sent, run>> /\ WorkersSound'
        BY <1>2, PodStepTypes DEF WorkersSound
    <2>2. CheckSound'
        BY <1>2, <2>1, PodStepEffect DEF CheckSound, Exists, Queued, Working
    <2>3. QED
        BY <1>2, <2>1, <2>2, StaysReturned
<1>3. ASSUME once' = once, returned' = returned, NEW p \in Pods, NEW js \in SUBSET Jobs, FetchAndEnqueueJobs(p, js)
      PROVE  Sound'
    <2>1. TypeOK' /\ WorkersSound'
        BY <1>3, FetchEffect DEF WorkersSound
    <2>2. batch[p] = {} /\ phase[p] = "fetch"
        BY <1>3, FetchEffect DEF CheckSound, Maintaining
    <2>3. ASSUME Check \in js
          PROVE  CheckSound'
        <3>1. Dormant(Check) /\ row'[Check] \in Row /\ row'[Check].queued
            BY <1>3, <2>3, FetchEffect
        <3>2. Exists(Check)' /\ Queued(Check)'
            BY <3>1, GoneAssumption DEF Exists, Queued
        <3>3. \A q \in Pods : Check \notin batch[q]
            BY <3>1 DEF CheckSound, Dormant, Queued
        <3>4. QED
            BY <1>3, <2>1, <2>3, <3>2, <3>3, FetchEffect DEF CheckSound, Maintaining
    <2>4. ASSUME Check \notin js
          PROVE  CheckSound'
        BY <1>0, <1>3, <2>1, <2>2, <2>4, FetchEffect, CheckStays DEF CheckSound, Maintaining, Working
    <2>5. QED
        BY <1>3, <2>1, <2>3, <2>4, StaysReturned
<1>4. ASSUME once' = once, returned' = returned, NEW p \in Pods, NEW j \in batch[p], Publish(p, j) \/ PublishFails(p, j)
      PROVE  Sound'
    <2>1. TypeOK' /\ WorkersSound'
        BY <1>4, PublishEffect DEF WorkersSound
    <2>2. CheckSound'
        BY <1>0, <1>4, PublishEffect, CheckStays DEF CheckSound, Maintaining, Working
    <2>3. QED
        BY <1>4, <2>1, <2>2, StaysReturned
<1>5. ASSUME once' = once, returned' = returned, NEW p \in Pods,
             RestartBlocked(p) \/ RestartLaggy(p) \/ (\E j \in found[p] : ResetJob(p, j))
      PROVE  Sound'
    <2>1. TypeOK' /\ WorkersSound'
        BY <1>5, RestartEffect DEF WorkersSound
    <2>2. row'[Check] = row[Check]
        BY <1>0, <1>5, RestartEffect DEF CheckSound
    <2>3. CheckSound'
        BY <1>5, <2>2, RestartEffect, CheckStays DEF CheckSound, Working
    <2>4. QED
        BY <1>5, <2>1, <2>3, StaysReturned
<1>6. ASSUME once' = once, returned' = returned, NEW p \in Pods, AcceptCheck(p)
      PROVE  Sound'
    <2>1. TypeOK' /\ WorkersSound'
        BY <1>6, AcceptCheckEffect DEF WorkersSound, CheckSound
    <2>2. Exists(Check)' /\ (Queued(Check)' <=> Queued(Check))
        BY <1>6, AcceptCheckEffect, GoneAssumption DEF CheckSound, Exists, Queued
    <2>3. CheckSound'
        BY <1>6, <2>2, AcceptCheckEffect DEF CheckSound, Maintaining
    <2>4. QED
        BY <1>6, <2>1, <2>3, StaysReturned
<1>7. ASSUME once' = once, returned' = returned, NEW p \in Pods, FinishCheck(p) \/ CheckFails(p)
      PROVE  Sound'
    <2>1. TypeOK' /\ WorkersSound'
        BY <1>7, EndCheckEffect DEF WorkersSound, CheckSound
    <2>2. Exists(Check)'
        BY <1>7, EndCheckEffect, GoneAssumption DEF CheckSound, Exists
    <2>3. \A q \in Pods : Check \notin batch'[q]
        BY <1>7, EndCheckEffect DEF CheckSound, Maintaining
    <2>4. CheckSound'
        BY <1>7, <2>2, <2>3, EndCheckEffect DEF CheckSound, Maintaining
    <2>5. QED
        BY <1>7, <2>1, <2>4, StaysReturned
<1>8. ASSUME once' = once, returned' = returned, NEW w \in Workers, NEW j \in Jobs, Take(w, j)
      PROVE  Sound'
    <2>1. j # Check
        BY <1>8, TakeEffect DEF CheckSound
    <2>2. CheckSound'
        BY <1>0, <1>8, <2>1, TakeEffect, CheckStays DEF CheckSound, Working
    <2>3. QED
        BY <1>8, <2>2, TakeEffect, StaysReturned
<1>9. ASSUME once' = once, returned' = returned, NEW w \in Workers, AcceptJob(w)
      PROVE  Sound'
    <2>1. run[w].job # Check /\ run'[w].job = run[w].job
        <3>1. run[w] \in Run /\ run'[w] = [run[w] EXCEPT !.stage = "running"] /\ run[w].job # Check
            BY <1>9, AcceptJobEffect DEF CheckSound, TypeOK
        <3>2. QED
            BY <3>1 DEF Run
    <2>2. CheckSound'
        <3>1. /\ UNCHANGED <<sent, phase, batch, found>> /\ row'[Check] = row[Check]
              /\ \A v \in Workers \ {w} : run'[v] = run[v]
            BY <1>0, <1>9, <2>1, AcceptJobEffect
        <3>2. \A v \in Workers : run'[v].job # Check
            BY <2>1, <3>1 DEF CheckSound
        <3>3. QED
            BY <3>1, <3>2, CheckStays DEF CheckSound, Working
    <2>3. QED
        BY <1>9, <2>2, AcceptJobEffect, StaysReturned
<1>10. ASSUME once' = once, returned' = returned, NEW w \in Workers, EndJob(w)
      PROVE  Sound'
    <2>1. run[w].job # Check
        BY DEF CheckSound
    <2>2. \A v \in Workers : run'[v].job # Check
        BY <1>10, <2>1, EndJobEffect DEF CheckSound
    <2>3. CheckSound'
        <3>1. UNCHANGED <<sent, phase, batch, found>> /\ row'[Check] = row[Check]
            BY <1>0, <1>10, <2>1, EndJobEffect
        <3>2. QED
            BY <2>2, <3>1, CheckStays DEF CheckSound, Working
    <2>4. QED
        BY <1>10, <2>3, EndJobEffect, StaysReturned
<1>11. ASSUME once' = once, NEW w \in Workers, WorkerEnds(w),
              EndUntracked(w) \/ Acknowledge(w) => returned' = returned
      PROVE  Sound'
    <2>1. run[w].job # Check
        BY DEF CheckSound
    <2>2. TypeOK' /\ WorkersSound' /\ ReturnedSound'
        BY <1>11, WorkerEndsEffect DEF ReturnedSound
    <2>3. \A v \in Workers : run'[v].job # Check
        BY <1>0, <1>11, <2>1, WorkerEndsEffect DEF CheckSound, ReturnedSound
    <2>4. UNCHANGED <<row, phase, batch, found>> /\ sent'[Check] = sent[Check]
        BY <1>0, <1>11, <2>1, WorkerEndsEffect DEF ReturnedSound
    <2>5. CheckSound'
        BY <2>3, <2>4, CheckStays DEF CheckSound, Working
    <2>6. QED
        BY <2>2, <2>5
<1>12. ASSUME once' = once, returned' = returned, NEW j \in Jobs, GrowOld(j)
      PROVE  Sound'
    <2>1. TypeOK' /\ WorkersSound'
        BY <1>12, GrowOldEffect DEF WorkersSound
    <2>2. Exists(Check)' /\ (Queued(Check)' <=> Queued(Check))
        <3>1. CASE j = Check
            <4>1. row'[Check] \in Row /\ row'[Check].queued = row[Check].queued /\ Exists(Check)
                BY <1>12, <3>1, GrowOldEffect DEF CheckSound
            <4>2. QED
                BY <4>1, GoneAssumption DEF Exists, Queued
        <3>2. CASE j # Check
            <4>1. row'[Check] = row[Check]
                BY <1>0, <1>12, <3>2, GrowOldEffect
            <4>2. QED
                BY <4>1 DEF CheckSound, Exists, Queued
        <3>3. QED
            BY <3>1, <3>2
    <2>3. CheckSound'
        BY <1>12, <2>2, GrowOldEffect DEF CheckSound
    <2>4. QED
        BY <1>12, <2>1, <2>3, StaysReturned
<1>13. QED
    BY <1>1, <1>2, <1>3, <1>4, <1>5, <1>6, <1>7, <1>8, <1>9, <1>10, <1>11, <1>12, Steps

LEMMA InitSound == Init => Sound
<1> SUFFICES ASSUME Init
             PROVE  Sound
    OBVIOUS
<1>1. Check \in Jobs /\ Check # NoJob
    BY JobAssumption
<1>2. [queued |-> FALSE, accepted |-> FALSE, age |-> "fresh", failures |-> 0] \in Row
    BY Naturals0 DEF Row, Age
<1>3. TypeOK
    BY <1>2, Naturals0, IdleType DEF Init, TypeOK, Phase
<1>4. WorkersSound /\ CheckSound
    BY <1>1, <1>2, IdleType, GoneAssumption DEF Init, WorkersSound, CheckSound, Exists, Maintaining
<1>5. QED
    BY <1>3, <1>4, SchedulerAssumption DEF Init, Sound, ReturnedSound

LEMMA AlwaysSound == SafeSpec => []Sound
BY InitSound, StepSound, PTL DEF SafeSpec

(* The state of the rows, the queue, the pods and the workers is always of  *)
(* its type.                                                                *)
THEOREM SchedulerTypes == SafeSpec => []TypeOK
BY AlwaysSound, PTL DEF Sound

(* However late jobs are and whatever fails, two pods are never in          *)
(* maintenance at once: a pod in maintenance has the row of 'check' in its  *)
(* batch, which stays queued and is restarted by nobody else                *)
(* (initMaintenance).                                                       *)
THEOREM OneMaintains == SafeSpec => []MaintenanceAlone
<1>1. Sound => MaintenanceAlone
    BY DEF Sound, CheckSound, MaintenanceAlone
<1>2. QED
    BY <1>1, AlwaysSound, PTL


-----------------------------------------------------------------------------
(* What a job may have under way: the runs that pods, the queue and workers *)
(* have of it, and the next one while its row is free to be queued.         *)
Free(j) == IF Queued(j) THEN 0 ELSE 1
Tokens(j) == InFlight(j) + Free(j)

(* Sets that lose or gain an element.                                       *)
LEMMA Fewer ==
    ASSUME NEW S, NEW T, IsFiniteSet(S), T \subseteq S
    PROVE  /\ IsFiniteSet(T) /\ Cardinality(S) \in Nat /\ Cardinality(T) \in Nat
           /\ Cardinality(T) <= Cardinality(S)
BY FS_Subset, FS_CardinalityType

LEMMA OneFewer ==
    ASSUME NEW S, NEW T, IsFiniteSet(S), NEW x \in S, T \subseteq S \ {x}
    PROVE  /\ Cardinality(S) \in Nat /\ Cardinality(T) \in Nat
           /\ Cardinality(T) + 1 <= Cardinality(S)
<1>1. IsFiniteSet(S \ {x}) /\ Cardinality(S \ {x}) = Cardinality(S) - 1
    BY FS_RemoveElement
<1>2. Cardinality(S) \in Nat /\ Cardinality(T) \in Nat /\ Cardinality(T) <= Cardinality(S \ {x})
    BY <1>1, Fewer, FS_CardinalityType
<1>3. QED
    BY <1>1, <1>2

LEMMA OneMore ==
    ASSUME NEW S, NEW T, IsFiniteSet(S), NEW x, T \subseteq S \cup {x}
    PROVE  /\ Cardinality(S) \in Nat /\ Cardinality(T) \in Nat
           /\ Cardinality(T) <= Cardinality(S) + 1
<1>0. /\ Cardinality(S) \in Nat /\ IsFiniteSet(S \cup {x})
      /\ Cardinality(S \cup {x}) = IF x \in S THEN Cardinality(S) ELSE Cardinality(S) + 1
    BY FS_AddElement, FS_CardinalityType
<1>1. IsFiniteSet(S \cup {x}) /\ Cardinality(S \cup {x}) <= Cardinality(S) + 1
    BY <1>0
<1>2. Cardinality(S) \in Nat /\ Cardinality(T) \in Nat /\ Cardinality(T) <= Cardinality(S \cup {x})
    BY <1>1, Fewer, FS_CardinalityType
<1>3. QED
    BY <1>1, <1>2, FS_CardinalityType

LEMMA NotEmpty ==
    ASSUME NEW S, IsFiniteSet(S), NEW x \in S
    PROVE  Cardinality(S) \in Nat /\ Cardinality(S) >= 1
<1>1. {} \subseteq S \ {x}
    OBVIOUS
<1>2. QED
    BY <1>1, OneFewer, FS_EmptySet

LEMMA Sizes ==
    ASSUME NEW j \in Jobs
    PROVE  /\ IsFiniteSet(Holders(j)) /\ IsFiniteSet(Takers(j))
           /\ IsFiniteSet(Holders(j)') /\ IsFiniteSet(Takers(j)')
           /\ Cardinality(Holders(j)) \in Nat /\ Cardinality(Takers(j)) \in Nat
           /\ Cardinality(Holders(j)') \in Nat /\ Cardinality(Takers(j)') \in Nat
<1>1. /\ Holders(j) \subseteq Pods /\ Holders(j)' \subseteq Pods
      /\ Takers(j) \subseteq Workers /\ Takers(j)' \subseteq Workers
    BY DEF Holders, Takers
<1>2. QED
    BY <1>1, SchedulerAssumption, FS_Subset, FS_CardinalityType

LEMMA TokenTypes ==
    ASSUME TypeOK, NEW j \in Jobs
    PROVE  /\ sent[j] \in Nat /\ returned[j] \in Nat /\ InFlight(j) \in Nat
           /\ Free(j) \in {0, 1} /\ Tokens(j) \in Nat
<1>1. sent[j] \in Nat /\ returned[j] \in Nat
    BY SchedulerAssumption DEF TypeOK
<1>2. QED
    BY <1>1, Sizes DEF InFlight, Free, Tokens

(* A job that is never late, whatever other jobs are: its row is fresh, and *)
(* maintenance leaves it alone.                                             *)
Quiet(j) ==
    /\ Exists(j) => row[j].age = "fresh"
    /\ \A p \in Pods : j \notin found[p]

Budget(j) == Tokens(j) <= 1 + returned[j]

(* As long as no message of it has been delivered again, a worker has       *)
(* loaded its row as it is, and accepts it before it ends the run; so does  *)
(* a pod with the maintenance job.                                          *)
Order(j) ==
    /\ \A w \in Takers(j) :
          /\ run[w].queued /\ run[w].stage \in {"loaded", "running"}
          /\ run[w].stage = "running" => row[j].accepted
    /\ j = Check => \A p \in Pods : phase[p] \in MaintainingOn => row[j].accepted

JobSound(j) == Quiet(j) /\ Budget(j) /\ (returned[j] = 0 => Order(j))

(* While the budget is one, whoever has the run is alone with it.           *)
LEMMA Alone ==
    ASSUME TypeOK, NEW j \in Jobs, Tokens(j) <= 1
    PROVE  /\ \A w \in Takers(j) : /\ Queued(j) /\ sent[j] = 0 /\ Holders(j) = {}
                                   /\ \A v \in Takers(j) : v = w
           /\ sent[j] > 0 => Queued(j) /\ Takers(j) = {} /\ Holders(j) = {}
           /\ ~Queued(j) => sent[j] = 0 /\ Takers(j) = {} /\ Holders(j) = {}
<1> DEFINE H == Cardinality(Holders(j))
           T == Cardinality(Takers(j))
<1>1. H + sent[j] + T + Free(j) <= 1 /\ H \in Nat /\ T \in Nat /\ sent[j] \in Nat /\ Free(j) \in {0, 1}
    BY TokenTypes, Sizes DEF Tokens, InFlight
<1>2. Holders(j) # {} => H >= 1
    BY Sizes, NotEmpty
<1>3. Takers(j) # {} => T >= 1
    BY Sizes, NotEmpty
<1>4. ASSUME NEW w \in Takers(j), NEW v \in Takers(j), v # w
      PROVE  T >= 2
    <2>1. w \in Takers(j) \ {v} /\ IsFiniteSet(Takers(j) \ {v})
        BY <1>4, Sizes, FS_Subset
    <2>2. Cardinality(Takers(j) \ {v}) >= 1
        BY <2>1, NotEmpty
    <2>3. Cardinality(Takers(j) \ {v}) + 1 <= T
        BY <1>4, Sizes, OneFewer
    <2>4. QED
        BY <1>1, <2>1, <2>2, <2>3, FS_CardinalityType
<1>5. ~Queued(j) <=> Free(j) = 1
    BY DEF Free
<1> HIDE DEF H, T
<1>6. ASSUME NEW w \in Takers(j)
      PROVE  /\ Queued(j) /\ sent[j] = 0 /\ Holders(j) = {}
             /\ \A v \in Takers(j) : v = w
    BY <1>1, <1>2, <1>3, <1>4, <1>5, <1>6
<1>7. sent[j] > 0 => Queued(j) /\ Takers(j) = {} /\ Holders(j) = {}
    BY <1>1, <1>2, <1>3, <1>5
<1>8. ~Queued(j) => sent[j] = 0 /\ Takers(j) = {} /\ Holders(j) = {}
    BY <1>1, <1>2, <1>3, <1>5
<1>9. QED
    BY <1>6, <1>7, <1>8

(* What a step may do to such a job.  Its tokens grow only with a message   *)
(* that is delivered again; failures are counted by a worker that gives up  *)
(* a token, or start anew; workers load what the row says.                  *)
Counts(j) ==
    /\ Exists(j)' =>
          /\ Exists(j)
          /\ \/ row'[j].failures = row[j].failures
             \/ row'[j].failures <= 1 \/ row'[j].failures <= MaxRestarts
             \/ \E w \in Takers(j) : /\ row'[j].failures = run[w].failures + 1
                                     /\ Tokens(j)' + 1 <= Tokens(j)
    /\ \A w \in Takers(j)' : \/ w \in Takers(j) /\ run'[w].failures = run[w].failures
                             \/ Exists(j) => run'[w].failures = row[j].failures

Moves(j) ==
    /\ Quiet(j)'
    /\ Tokens(j)' + returned[j] <= Tokens(j) + returned'[j]
    /\ returned[j] <= returned'[j]
    /\ returned[j] = 0 => Order(j)'
    /\ Counts(j)

(* Steps that leave a job alone, but that its batch may be lost.            *)
LEMMA JobStays ==
    ASSUME Sound, Sound', NEW j \in Jobs, JobSound(j), row'[j] = row[j], sent'[j] = sent[j],
           returned'[j] = returned[j],
           \A w \in Workers : \/ run'[w] = run[w]
                              \/ run'[w].job # j /\ run[w].job # j,
           \A p \in Pods : j \in batch'[p] => j \in batch[p],
           \A p \in Pods : j \notin found'[p],
           \A p \in Pods : phase'[p] \in MaintainingOn => phase[p] \in MaintainingOn
    PROVE  Moves(j)
<1>1. (Exists(j)' <=> Exists(j)) /\ (Queued(j)' <=> Queued(j)) /\ Free(j)' = Free(j)
    BY DEF Exists, Queued, Free
<1>2. /\ \A w \in Takers(j)' : w \in Takers(j) /\ run'[w] = run[w]
      /\ Holders(j)' \subseteq Holders(j)
    BY DEF Takers, Holders
<1>3. /\ Cardinality(Takers(j)') <= Cardinality(Takers(j))
      /\ Cardinality(Holders(j)') <= Cardinality(Holders(j))
    BY <1>2, Sizes, Fewer
<1>4. Tokens(j)' <= Tokens(j)
    BY <1>1, <1>3, Sizes, TokenTypes DEF Sound, Tokens, InFlight
<1>5. Tokens(j) \in Nat /\ Tokens(j)' \in Nat /\ returned[j] \in Nat
    <2>1. Tokens(j)' \in Nat
        BY <1>1, Sizes, TokenTypes DEF Sound, Tokens, InFlight
    <2>2. QED
        BY <2>1, TokenTypes DEF Sound
<1>6. Tokens(j)' + returned[j] <= Tokens(j) + returned'[j] /\ returned[j] <= returned'[j]
    BY <1>4, <1>5
<1>7. Quiet(j)' /\ (returned[j] = 0 => Order(j)')
    BY <1>1, <1>2 DEF JobSound, Quiet, Order
<1>8. Counts(j)
    BY <1>1, <1>2 DEF Counts
<1>9. QED
    BY <1>6, <1>7, <1>8 DEF Moves

(* Steps of a job itself: what its tokens do follows from who has it.       *)
LEMMA TokensFrom ==
    ASSUME TypeOK, NEW j \in Jobs, sent'[j] \in Nat, returned'[j] = returned[j],
           Cardinality(Holders(j)') + sent'[j] + Cardinality(Takers(j)') + Free(j)' <=
               Cardinality(Holders(j)) + sent[j] + Cardinality(Takers(j)) + Free(j)
    PROVE  /\ Tokens(j)' + returned[j] <= Tokens(j) + returned'[j]
           /\ returned[j] <= returned'[j]
<1>1. Tokens(j)' <= Tokens(j)
    BY DEF Tokens, InFlight
<1>2. Tokens(j) \in Nat /\ returned[j] \in Nat
    BY TokenTypes
<1>3. Free(j)' \in {0, 1}
    BY DEF Free
<1>4. Tokens(j)' \in Nat
    BY <1>3, Sizes DEF Tokens, InFlight
<1>5. QED
    BY <1>1, <1>2, <1>4

LEMMA FetchMoves ==
    ASSUME Sound, Sound', NEW j \in Jobs \ Late, JobSound(j), once' = once, returned' = returned,
           NEW p \in Pods, NEW js \in SUBSET Jobs, FetchAndEnqueueJobs(p, js), j \in js
    PROVE  Moves(j)
<1> USE DEF Sound
<1>1. /\ Dormant(j) /\ row'[j] \in Row /\ row'[j].queued
      /\ row'[j].age = row[j].age /\ row'[j].failures = row[j].failures
    BY FetchEffect
<1>2. /\ UNCHANGED <<sent, found, run>> /\ batch'[p] = js /\ phase'[p] \notin MaintainingOn
      /\ \A q \in Pods \ {p} : batch'[q] = batch[q] /\ phase'[q] = phase[q]
    BY FetchEffect DEF MaintainingOn, Maintaining
<1>3. Exists(j) /\ ~Queued(j) /\ Exists(j)' /\ Queued(j)'
    BY <1>1, GoneAssumption DEF Exists, Queued, Dormant
<1>4. Takers(j)' = Takers(j) /\ Holders(j)' \subseteq Holders(j) \cup {p}
    BY <1>2 DEF Takers, Holders
<1>5. Cardinality(Holders(j)') <= Cardinality(Holders(j)) + 1
    BY <1>4, Sizes, OneMore
<1>6. Free(j) = 1 /\ Free(j)' = 0
    BY <1>3 DEF Free
<1>7. /\ Tokens(j)' + returned[j] <= Tokens(j) + returned'[j]
      /\ returned[j] <= returned'[j]
    BY <1>2, <1>4, <1>5, <1>6, Sizes, TokenTypes, TokensFrom
<1>8. Quiet(j)'
    BY <1>1, <1>2, <1>3 DEF JobSound, Quiet
<1>9. ASSUME returned[j] = 0
      PROVE  Order(j)'
    <2>1. Takers(j)' = {}
        <3>1. Tokens(j) <= 1
            BY <1>9 DEF JobSound, Budget
        <3>2. QED
            BY <1>3, <1>4, <3>1, Alone
    <2>2. j = Check => \A q \in Pods : phase'[q] \notin MaintainingOn
        BY <1>2, <1>3 DEF CheckSound, MaintainingOn
    <2>3. QED
        BY <2>1, <2>2 DEF Order
<1>10. Counts(j)
    BY <1>1, <1>2, <1>3, <1>4 DEF Counts
<1>11. QED
    BY <1>7, <1>8, <1>9, <1>10 DEF Moves

LEMMA PublishMoves ==
    ASSUME Sound, Sound', NEW j \in Jobs \ Late, JobSound(j), once' = once, returned' = returned,
           NEW p \in Pods, j \in batch[p], Publish(p, j) \/ PublishFails(p, j)
    PROVE  Moves(j)
<1> USE DEF Sound
<1>1. /\ UNCHANGED <<row, found, run>> /\ j # Check
      /\ sent'[j] \in {sent[j], sent[j] + 1}
      /\ batch'[p] = batch[p] \ {j} /\ \A q \in Pods \ {p} : batch'[q] = batch[q]
    BY PublishEffect
<1>2. (Exists(j)' <=> Exists(j)) /\ (Queued(j)' <=> Queued(j)) /\ Free(j)' = Free(j)
    BY <1>1 DEF Exists, Queued, Free
<1>3. /\ Takers(j)' = Takers(j)
      /\ p \in Holders(j) /\ Holders(j)' \subseteq Holders(j) \ {p}
    BY <1>1 DEF Takers, Holders
<1>4. Cardinality(Holders(j)') + 1 <= Cardinality(Holders(j))
    BY <1>3, Sizes, OneFewer
<1>5. /\ Tokens(j)' + returned[j] <= Tokens(j) + returned'[j]
      /\ returned[j] <= returned'[j]
    BY <1>1, <1>2, <1>3, <1>4, Sizes, TokenTypes, TokensFrom
<1>6. Quiet(j)' /\ (returned[j] = 0 => Order(j)') /\ Counts(j)
    BY <1>1, <1>2, <1>3 DEF JobSound, Quiet, Order, Counts
<1>7. QED
    BY <1>5, <1>6 DEF Moves

LEMMA AcceptCheckMoves ==
    ASSUME Sound, Sound', NEW j \in Jobs \ Late, JobSound(j), once' = once, returned' = returned,
           NEW p \in Pods, AcceptCheck(p)
    PROVE  Moves(j)
<1> USE DEF Sound
<1>1. /\ Exists(Check) /\ Check \in Jobs /\ UNCHANGED <<sent, batch, found, run>>
      /\ \A q \in Pods \ {p} : phase'[q] = phase[q]
      /\ \A i \in Jobs \ {Check} : row'[i] = row[i]
      /\ row'[Check] \in Row /\ row'[Check].queued = row[Check].queued /\ row'[Check].accepted
      /\ row'[Check].age = "fresh" /\ row'[Check].failures = row[Check].failures
    BY AcceptCheckEffect, JobAssumption DEF CheckSound
<1>2. (Exists(j)' <=> Exists(j)) /\ (Queued(j)' <=> Queued(j)) /\ Free(j)' = Free(j)
    BY <1>1, GoneAssumption DEF Exists, Queued, Free
<1>3. /\ Takers(j)' = Takers(j) /\ Holders(j)' = Holders(j)
      /\ j = Check => Takers(j) = {}
    BY <1>1 DEF Takers, Holders, CheckSound
<1>4. /\ Tokens(j)' + returned[j] <= Tokens(j) + returned'[j]
      /\ returned[j] <= returned'[j]
    BY <1>1, <1>2, <1>3, Sizes, TokenTypes, TokensFrom
<1>5. Quiet(j)' /\ Counts(j)
    BY <1>1, <1>2, <1>3 DEF JobSound, Quiet, Counts
<1>6. returned[j] = 0 => Order(j)'
    BY <1>1, <1>3 DEF JobSound, Order
<1>7. QED
    BY <1>4, <1>5, <1>6 DEF Moves

LEMMA EndCheckMoves ==
    ASSUME Sound, Sound', NEW j \in Jobs \ Late, JobSound(j), once' = once, returned' = returned,
           NEW p \in Pods, FinishCheck(p) \/ CheckFails(p)
    PROVE  Moves(j)
<1> USE DEF Sound
<1>1. /\ Exists(Check) /\ UNCHANGED <<sent, found, run>> /\ Check \in batch[p]
      /\ batch'[p] = batch[p] \ {Check} /\ phase'[p] \notin MaintainingOn
      /\ \A q \in Pods \ {p} : batch'[q] = batch[q] /\ phase'[q] = phase[q]
      /\ \A i \in Jobs \ {Check} : row'[i] = row[i]
      /\ row'[Check] = row[Check] \/
            /\ row'[Check] \in Row /\ ~row'[Check].queued
            /\ row'[Check].age = "fresh" /\ row'[Check].failures \in {0, 1}
    BY EndCheckEffect DEF CheckSound, Maintaining, MaintainingOn
<1>2. CASE j # Check
    <2>1. row'[j] = row[j] /\ sent'[j] = sent[j]
        BY <1>1, <1>2
    <2>2. \A q \in Pods : phase'[q] \in MaintainingOn => phase[q] \in MaintainingOn
        BY <1>1
    <2>3. \A q \in Pods : j \in batch'[q] => j \in batch[q]
        BY <1>1
    <2>4. QED
        BY <1>1, <2>1, <2>2, <2>3, JobStays DEF JobSound, Quiet
<1>3. CASE j = Check
    <2>1. /\ p \in Holders(j) /\ Holders(j)' \subseteq Holders(j) \ {p}
          /\ Takers(j) = {} /\ Takers(j)' = {}
        BY <1>1, <1>3 DEF Holders, Takers, CheckSound
    <2>2. Cardinality(Holders(j)') + 1 <= Cardinality(Holders(j))
        BY <2>1, Sizes, OneFewer
    <2>3. Free(j) \in {0, 1} /\ Free(j)' \in {0, 1}
        BY DEF Free
    <2>4. /\ Tokens(j)' + returned[j] <= Tokens(j) + returned'[j]
          /\ returned[j] <= returned'[j]
        <3>1. /\ sent'[j] = sent[j] /\ sent[j] \in Nat /\ returned'[j] = returned[j]
              /\ Cardinality(Takers(j)') = Cardinality(Takers(j)) /\ Cardinality(Takers(j)) \in Nat
              /\ Cardinality(Holders(j)) \in Nat /\ Cardinality(Holders(j)') \in Nat
            BY <1>1, <2>1, Sizes, TokenTypes
        <3>2. Cardinality(Holders(j)') + sent'[j] + Cardinality(Takers(j)') + Free(j)' <=
                  Cardinality(Holders(j)) + sent[j] + Cardinality(Takers(j)) + Free(j)
            BY <2>2, <2>3, <3>1
        <3>3. QED
            BY <3>1, <3>2, TokensFrom
    <2>5. Exists(j) /\ Quiet(j)'
        BY <1>1, <1>3 DEF JobSound, Quiet
    <2>6. row'[j].failures = row[j].failures \/ row'[j].failures <= 1
        BY <1>1, <1>3
    <2>7. Counts(j)
        BY <2>1, <2>5, <2>6 DEF Counts
    <2>8. \A q \in Pods : phase'[q] \notin MaintainingOn
        BY <1>1 DEF CheckSound, MaintainingOn
    <2>9. Order(j)'
        BY <2>1, <2>8 DEF Order
    <2>10. QED
        BY <2>4, <2>5, <2>7, <2>9 DEF Moves
<1>4. QED
    BY <1>2, <1>3

LEMMA PodMoves ==
    ASSUME Sound, Sound', NEW j \in Jobs \ Late, JobSound(j), once' = once, returned' = returned,
           NEW p \in Pods,
           \/ PodStep(p)
           \/ \E js \in SUBSET Jobs : FetchAndEnqueueJobs(p, js)
           \/ \E i \in batch[p] : Publish(p, i) \/ PublishFails(p, i)
           \/ RestartBlocked(p) \/ RestartLaggy(p) \/ (\E i \in found[p] : ResetJob(p, i))
           \/ AcceptCheck(p) \/ FinishCheck(p) \/ CheckFails(p)
    PROVE  Moves(j)
<1> USE DEF Sound
<1>0. \A q \in Pods : j \notin found[q]
    BY DEF JobSound, Quiet
<1>1. CASE PodStep(p)
    <2>1. UNCHANGED <<row, sent, run>>
        BY <1>1, PodStepTypes
    <2>2. \A q \in Pods : j \notin found'[q]
        BY <1>0, <1>1, PodStepEffect DEF JobSound, Quiet, Queued
    <2>3. \A q \in Pods : j \in batch'[q] => j \in batch[q]
        BY <1>1, PodStepEffect
    <2>4. \A q \in Pods : phase'[q] \in MaintainingOn => phase[q] \in MaintainingOn
        BY <1>1, PodStepEffect
    <2>5. QED
        BY <2>1, <2>2, <2>3, <2>4, JobStays
<1>2. ASSUME NEW js \in SUBSET Jobs, FetchAndEnqueueJobs(p, js), j \notin js
      PROVE  Moves(j)
    <2>1. row'[j] = row[j] /\ UNCHANGED <<sent, found, run>>
        BY <1>2, FetchEffect
    <2>2. \A q \in Pods : j \in batch'[q] => j \in batch[q]
        BY <1>2, FetchEffect
    <2>3. \A q \in Pods : phase'[q] \in MaintainingOn => phase[q] \in MaintainingOn
        BY <1>2, FetchEffect DEF MaintainingOn, Maintaining
    <2>4. QED
        BY <1>0, <2>1, <2>2, <2>3, JobStays
<1>3. ASSUME NEW i \in batch[p], Publish(p, i) \/ PublishFails(p, i), i # j
      PROVE  Moves(j)
    <2>1. row' = row /\ sent'[j] = sent[j] /\ UNCHANGED <<found, run>>
        BY <1>3, PublishEffect
    <2>2. \A q \in Pods : j \in batch'[q] => j \in batch[q]
        BY <1>3, PublishEffect
    <2>3. \A q \in Pods : phase'[q] \in MaintainingOn => phase[q] \in MaintainingOn
        BY <1>3, PublishEffect DEF MaintainingOn, Maintaining
    <2>4. QED
        BY <1>0, <2>1, <2>2, <2>3, JobStays
<1>4. CASE RestartBlocked(p) \/ RestartLaggy(p) \/ (\E i \in found[p] : ResetJob(p, i))
    <2>1. row'[j] = row[j] /\ UNCHANGED <<sent, batch, run>>
        BY <1>0, <1>4, RestartEffect DEF JobSound, Quiet, Queued
    <2>2. \A q \in Pods : phase'[q] \in MaintainingOn => phase[q] \in MaintainingOn
        BY <1>4, RestartEffect DEF MaintainingOn
    <2>3. \A q \in Pods : j \notin found'[q]
        BY <1>0, <1>4, RestartEffect
    <2>4. QED
        BY <2>1, <2>2, <2>3, JobStays
<1>5. QED
    BY <1>1, <1>2, <1>3, <1>4, FetchMoves, PublishMoves, AcceptCheckMoves, EndCheckMoves

LEMMA TakeMoves ==
    ASSUME Sound, Sound', NEW j \in Jobs \ Late, JobSound(j), once' = once, returned' = returned,
           NEW w \in Workers, Take(w, j)
    PROVE  Moves(j)
<1> USE DEF Sound
<1>1. /\ UNCHANGED <<row, phase, batch, found>>
      /\ run[w].job = NoJob /\ run'[w].job = j
      /\ sent[j] > 0 /\ sent'[j] = sent[j] - 1
      /\ \A v \in Workers \ {w} : run'[v] = run[v]
      /\ Exists(j) => /\ run'[w].stage = "loaded" /\ run'[w].queued = row[j].queued
                      /\ run'[w].failures = row[j].failures
    BY TakeEffect
<1>2. (Exists(j)' <=> Exists(j)) /\ (Queued(j)' <=> Queued(j)) /\ Free(j)' = Free(j)
    BY <1>1 DEF Exists, Queued, Free
<1>3. /\ Holders(j)' = Holders(j) /\ Takers(j)' \subseteq Takers(j) \cup {w}
      /\ \A v \in Takers(j)' : v = w \/ (v \in Takers(j) /\ run'[v] = run[v])
    BY <1>1 DEF Takers, Holders
<1>4. Cardinality(Takers(j)') <= Cardinality(Takers(j)) + 1
    BY <1>3, Sizes, OneMore
<1>5. sent'[j] \in Nat
    BY <1>1, TokenTypes
<1>6. /\ Tokens(j)' + returned[j] <= Tokens(j) + returned'[j]
      /\ returned[j] <= returned'[j]
    BY <1>1, <1>2, <1>3, <1>4, <1>5, Sizes, TokenTypes, TokensFrom
<1>7. Quiet(j)' /\ Counts(j)
    BY <1>1, <1>2, <1>3 DEF JobSound, Quiet, Counts
<1>8. ASSUME returned[j] = 0
      PROVE  Order(j)'
    <2>1. Queued(j) /\ Takers(j) = {}
        BY <1>1, <1>8, Alone DEF JobSound, Budget
    <2>2. \A v \in Takers(j)' : v = w
        BY <1>3, <2>1
    <2>3. run'[w].queued /\ run'[w].stage = "loaded"
        BY <1>1, <2>1 DEF Queued
    <2>4. j = Check => \A q \in Pods : phase'[q] \in MaintainingOn => row'[j].accepted
        BY <1>1, <1>8 DEF JobSound, Order
    <2>5. QED
        BY <2>2, <2>3, <2>4 DEF Order
<1>9. QED
    BY <1>6, <1>7, <1>8 DEF Moves

LEMMA AcceptMoves ==
    ASSUME Sound, Sound', NEW j \in Jobs \ Late, JobSound(j), once' = once, returned' = returned,
           NEW w \in Workers, AcceptJob(w), run[w].job = j
    PROVE  Moves(j)
<1> USE DEF Sound
<1>1. /\ UNCHANGED <<sent, phase, batch, found>> /\ run[w].stage = "loaded"
      /\ run'[w] = [run[w] EXCEPT !.stage = "running"]
      /\ \A v \in Workers \ {w} : run'[v] = run[v]
    BY AcceptJobEffect
<1>2. /\ Exists(j) => /\ row'[j] \in Row /\ row'[j].queued = row[j].queued /\ row'[j].accepted
                      /\ row'[j].age = "fresh" /\ row'[j].failures = row[j].failures
      /\ ~Exists(j) => row'[j] = Gone
    BY AcceptJobEffect
<1>3. /\ run'[w].job = j /\ run'[w].queued = run[w].queued
      /\ run'[w].failures = run[w].failures /\ run'[w].stage = "running"
    <2>1. run[w] \in Run
        BY DEF TypeOK
    <2>2. QED
        BY <1>1, <2>1 DEF Run
<1>4. (Exists(j)' <=> Exists(j)) /\ (Queued(j)' <=> Queued(j)) /\ Free(j)' = Free(j)
    BY <1>2, GoneAssumption DEF Exists, Queued, Free
<1>5. /\ Takers(j)' = Takers(j) /\ Holders(j)' = Holders(j) /\ w \in Takers(j)
      /\ \A v \in Takers(j) : run'[v].failures = run[v].failures
    <2>1. \A v \in Workers : /\ run'[v].job = run[v].job /\ run'[v].failures = run[v].failures
                             /\ run'[v].stage # "ended" <=> run[v].stage # "ended"
        BY <1>1, <1>3
    <2>2. Takers(j)' = Takers(j) /\ w \in Takers(j)
        BY <1>1, <2>1 DEF Takers
    <2>3. \A v \in Takers(j) : run'[v].failures = run[v].failures
        BY <2>1 DEF Takers
    <2>4. QED
        BY <1>1, <2>2, <2>3 DEF Holders
<1>6. /\ Tokens(j)' + returned[j] <= Tokens(j) + returned'[j]
      /\ returned[j] <= returned'[j]
    BY <1>1, <1>4, <1>5, Sizes, TokenTypes, TokensFrom
<1>7. Quiet(j)' /\ Counts(j)
    BY <1>1, <1>2, <1>4, <1>5 DEF JobSound, Quiet, Counts
<1>8. ASSUME returned[j] = 0
      PROVE  Order(j)'
    <2>1. Queued(j) /\ \A v \in Takers(j)' : v = w
        BY <1>5, <1>8, Alone DEF JobSound, Budget
    <2>2. row'[j].accepted /\ run'[w].queued
        BY <1>2, <1>3, <1>5, <1>8, <2>1 DEF JobSound, Order, Queued
    <2>3. QED
        BY <1>3, <2>1, <2>2 DEF Order
<1>9. QED
    BY <1>6, <1>7, <1>8 DEF Moves

LEMMA EndMoves ==
    ASSUME Sound, Sound', NEW j \in Jobs \ Late, JobSound(j), once' = once, returned' = returned,
           NEW w \in Workers, EndJob(w), run[w].job = j
    PROVE  Moves(j)
<1> USE DEF Sound
<1>1. /\ UNCHANGED <<sent, phase, batch, found>> /\ run[w].stage = "running"
      /\ run'[w].stage = "ended"
      /\ \A v \in Workers \ {w} : run'[v] = run[v]
    BY EndJobEffect
<1>2. \/ row'[j] = Gone
      \/ /\ Exists(j) /\ row'[j] \in Row /\ row'[j].age \in {row[j].age, "fresh"}
         /\ \/ row'[j].failures \in {0, 1, row[j].failures} \/ row'[j].failures <= MaxRestarts
            \/ /\ row'[j].queued = row[j].queued
               /\ row'[j].failures = run[w].failures + 1
    BY EndJobEffect
<1>3. /\ w \in Takers(j) /\ Holders(j)' = Holders(j)
      /\ Takers(j)' \subseteq Takers(j) \ {w}
      /\ \A v \in Takers(j)' : v \in Takers(j) /\ run'[v] = run[v]
    BY <1>1 DEF Takers, Holders
<1>4. Cardinality(Takers(j)') + 1 <= Cardinality(Takers(j))
    BY <1>3, Sizes, OneFewer
<1>5. Free(j) \in {0, 1} /\ Free(j)' \in {0, 1}
    BY DEF Free
<1>6. /\ Tokens(j)' + returned[j] <= Tokens(j) + returned'[j]
      /\ returned[j] <= returned'[j]
    BY <1>1, <1>3, <1>4, <1>5, Sizes, TokenTypes, TokensFrom
<1>7. Exists(j)' => Exists(j) /\ row'[j] \in Row
    BY <1>2 DEF Exists
<1>8. Quiet(j)'
    BY <1>1, <1>2 DEF JobSound, Quiet, Exists
<1>9. ASSUME Exists(j)', row'[j].queued = row[j].queued
      PROVE  Tokens(j)' + 1 <= Tokens(j)
    <2>1. Free(j)' = Free(j)
        BY <1>7, <1>9 DEF Free, Queued
    <2>2. QED
        BY <1>1, <1>3, <1>4, <1>5, <2>1, Sizes, TokenTypes DEF Tokens, InFlight
<1>10. Counts(j)
    <2>1. ASSUME Exists(j)'
          PROVE  \/ row'[j].failures = row[j].failures
                 \/ row'[j].failures <= 1 \/ row'[j].failures <= MaxRestarts
                 \/ \E v \in Takers(j) : /\ row'[j].failures = run[v].failures + 1
                                         /\ Tokens(j)' + 1 <= Tokens(j)
        BY <1>2, <1>3, <1>9, <2>1 DEF Exists
    <2>2. QED
        BY <1>3, <1>7, <2>1 DEF Counts
<1>11. ASSUME returned[j] = 0
       PROVE  Order(j)'
    <2>1. \A v \in Takers(j) : v = w
        BY <1>3, <1>11, Alone DEF JobSound, Budget
    <2>2. Takers(j)' = {} /\ j # Check
        BY <1>3, <2>1 DEF CheckSound
    <2>3. QED
        BY <2>2 DEF Order
<1>12. QED
    BY <1>6, <1>8, <1>10, <1>11 DEF Moves

LEMMA WorkerEndsMoves ==
    ASSUME Sound, Sound', NEW j \in Jobs \ Late, JobSound(j), once' = once,
           NEW w \in Workers, WorkerEnds(w), EndUntracked(w) \/ Acknowledge(w) => returned' = returned,
           run[w].job = j
    PROVE  Moves(j)
<1> USE DEF Sound
<1>0. j # NoJob
    BY JobAssumption
<1>1. /\ UNCHANGED <<row, phase, batch, found>>
      /\ run'[w].job = NoJob \/ (run'[w].job = j /\ (run'[w] = run[w] \/ run'[w].stage = "ended"))
      /\ \A v \in Workers \ {w} : run'[v] = run[v]
      /\ \/ sent'[j] = sent[j] /\ returned'[j] = returned[j]
         \/ /\ sent'[j] = sent[j] + 1 /\ returned'[j] = returned[j]
            /\ run[w].stage # "ended" /\ run'[w].job = NoJob
         \/ sent'[j] = sent[j] + 1 /\ returned'[j] = returned[j] + 1
    BY WorkerEndsEffect DEF ReturnedSound
<1>2. (Exists(j)' <=> Exists(j)) /\ (Queued(j)' <=> Queued(j)) /\ Free(j)' = Free(j)
    BY <1>1 DEF Exists, Queued, Free
<1>3. /\ Holders(j)' = Holders(j)
      /\ \A v \in Takers(j)' : v \in Takers(j) /\ run'[v] = run[v]
      /\ run[w].stage # "ended" => w \in Takers(j)
      /\ run'[w].job = NoJob => w \notin Takers(j)'
    BY <1>0, <1>1 DEF Takers, Holders
<1>4. /\ Cardinality(Takers(j)') <= Cardinality(Takers(j))
      /\ run[w].stage # "ended" /\ run'[w].job = NoJob =>
            Cardinality(Takers(j)') + 1 <= Cardinality(Takers(j))
    <2>1. Takers(j)' \subseteq Takers(j)
        BY <1>3
    <2>2. Cardinality(Takers(j)') <= Cardinality(Takers(j))
        BY <2>1, Sizes, Fewer
    <2>3. ASSUME run[w].stage # "ended", run'[w].job = NoJob
          PROVE  Cardinality(Takers(j)') + 1 <= Cardinality(Takers(j))
        <3>1. w \in Takers(j) /\ Takers(j)' \subseteq Takers(j) \ {w}
            BY <1>3, <2>1, <2>3
        <3>2. QED
            BY <3>1, Sizes, OneFewer
    <2>4. QED
        BY <2>2, <2>3
<1>5. /\ Tokens(j)' + returned[j] <= Tokens(j) + returned'[j]
      /\ returned[j] <= returned'[j]
    <2>1. Cardinality(Holders(j)') = Cardinality(Holders(j))
        BY <1>3
    <2>2. /\ sent[j] \in Nat /\ returned[j] \in Nat /\ Free(j) \in {0, 1}
          /\ Cardinality(Holders(j)) \in Nat /\ Cardinality(Takers(j)) \in Nat
          /\ Cardinality(Takers(j)') \in Nat
        BY Sizes, TokenTypes
    <2>3. QED
        BY <1>1, <1>2, <1>4, <2>1, <2>2 DEF Tokens, InFlight
<1>6. Quiet(j)' /\ (returned[j] = 0 => Order(j)') /\ Counts(j)
    BY <1>1, <1>2, <1>3 DEF JobSound, Quiet, Order, Counts
<1>7. QED
    BY <1>5, <1>6 DEF Moves

LEMMA WorkerMoves ==
    ASSUME Sound, Sound', NEW j \in Jobs \ Late, JobSound(j), once' = once, NEW w \in Workers,
           \/ /\ returned' = returned
              /\ (\E i \in Jobs : Take(w, i)) \/ AcceptJob(w) \/ EndJob(w)
           \/ /\ WorkerEnds(w)
              /\ EndUntracked(w) \/ Acknowledge(w) => returned' = returned
    PROVE  Moves(j)
<1> USE DEF Sound
<1>0. j # NoJob /\ \A q \in Pods : j \notin found[q]
    BY JobAssumption DEF JobSound, Quiet
<1>1. ASSUME NEW i \in Jobs, Take(w, i), returned' = returned, i # j
      PROVE  Moves(j)
    <2>1. /\ UNCHANGED <<row, phase, batch, found>> /\ sent'[j] = sent[j]
          /\ \A v \in Workers : \/ run'[v] = run[v]
                                \/ run'[v].job # j /\ run[v].job # j
        BY <1>0, <1>1, TakeEffect
    <2>2. QED
        BY <1>0, <1>1, <2>1, JobStays
<1>2. ASSUME AcceptJob(w) \/ EndJob(w), returned' = returned, run[w].job # j
      PROVE  Moves(j)
    <2>1. run'[w].job = run[w].job
        <3>1. run[w] \in Run
            BY DEF TypeOK
        <3>2. CASE AcceptJob(w)
            <4>1. run'[w] = [run[w] EXCEPT !.stage = "running"]
                BY <1>2, <3>2, AcceptJobEffect
            <4>2. QED
                BY <3>1, <4>1 DEF Run
        <3>3. CASE EndJob(w)
            BY <1>2, <3>3, EndJobEffect
        <3>4. QED
            BY <1>2, <3>2, <3>3
    <2>2. /\ UNCHANGED <<sent, phase, batch, found>> /\ row'[j] = row[j]
          /\ \A v \in Workers \ {w} : run'[v] = run[v]
        BY <1>2, AcceptJobEffect, EndJobEffect
    <2>3. \A v \in Workers : \/ run'[v] = run[v]
                             \/ run'[v].job # j /\ run[v].job # j
        BY <1>2, <2>1, <2>2
    <2>4. QED
        BY <1>0, <1>2, <2>2, <2>3, JobStays
<1>3. ASSUME WorkerEnds(w), EndUntracked(w) \/ Acknowledge(w) => returned' = returned, run[w].job # j
      PROVE  Moves(j)
    <2>1. /\ UNCHANGED <<row, phase, batch, found>>
          /\ sent'[j] = sent[j] /\ returned'[j] = returned[j]
          /\ run'[w].job \in {run[w].job, NoJob} /\ \A v \in Workers \ {w} : run'[v] = run[v]
        BY <1>3, WorkerEndsEffect DEF ReturnedSound
    <2>2. \A v \in Workers : \/ run'[v] = run[v]
                             \/ run'[v].job # j /\ run[v].job # j
        BY <1>0, <1>3, <2>1
    <2>3. QED
        BY <1>0, <2>1, <2>2, JobStays
<1>4. QED
    BY <1>1, <1>2, <1>3, TakeMoves, AcceptMoves, EndMoves, WorkerEndsMoves

LEMMA StepMoves ==
    ASSUME Sound, Sound', NEW j \in Jobs \ Late, JobSound(j), [Next]_vars
    PROVE  Moves(j)
<1> USE DEF Sound
<1>0. \A q \in Pods : j \notin found[q]
    BY DEF JobSound, Quiet
<1>1. CASE UNCHANGED vars
    BY <1>0, <1>1, JobStays DEF vars, steady
<1>2. ASSUME NEW i \in Jobs, GrowOld(i), once' = once, returned' = returned
      PROVE  Moves(j)
    BY <1>0, <1>2, GrowOldEffect, JobStays
<1>3. CASE Next
    BY <1>2, <1>3, Steps, PodMoves, WorkerMoves
<1>4. QED
    BY <1>1, <1>3

-----------------------------------------------------------------------------
OnTime == \A j \in Jobs \ Late : JobSound(j)

LEMMA StepOnTime ==
    ASSUME Sound, Sound', OnTime, [Next]_vars
    PROVE  OnTime'
<1> SUFFICES ASSUME NEW j \in Jobs \ Late
             PROVE  JobSound(j)'
    BY DEF OnTime
<1>1. JobSound(j) /\ Moves(j)
    BY StepMoves DEF OnTime
<1>2. /\ Tokens(j) \in Nat /\ returned[j] \in Nat /\ returned'[j] \in Nat
      /\ Free(j)' \in {0, 1} /\ sent'[j] \in Nat
    BY TokenTypes, SchedulerAssumption DEF Sound, TypeOK, Free
<1>3. Tokens(j)' \in Nat
    BY <1>2, Sizes DEF Tokens, InFlight
<1>4. QED
    BY <1>1, <1>2, <1>3 DEF JobSound, Budget, Moves

LEMMA InitTokens ==
    ASSUME Init, NEW j \in Jobs
    PROVE  /\ Tokens(j) = 1 /\ Takers(j) = {} /\ Dormant(j) /\ returned[j] = 0
           /\ row[j].age = "fresh" /\ row[j].failures = 0
<1>1. [queued |-> FALSE, accepted |-> FALSE, age |-> "fresh", failures |-> 0] \in Row
    BY Naturals0 DEF Row, Age
<1>2. /\ Dormant(j) /\ returned[j] = 0 /\ sent[j] = 0
      /\ row[j].age = "fresh" /\ row[j].failures = 0
    BY <1>1, GoneAssumption DEF Init, Dormant, Exists
<1>3. Holders(j) = {} /\ Takers(j) = {}
    BY IdleType, JobAssumption DEF Init, Holders, Takers
<1>4. QED
    BY <1>2, <1>3, FS_EmptySet DEF Tokens, InFlight, Free, Queued, Dormant

LEMMA InitOnTime == Init => OnTime
<1> SUFFICES ASSUME Init, NEW j \in Jobs \ Late
             PROVE  JobSound(j)
    BY DEF OnTime
<1>1. \A p \in Pods : j \notin found[p] /\ phase[p] \notin MaintainingOn
    BY DEF Init, MaintainingOn, Maintaining
<1>2. QED
    BY <1>1, InitTokens DEF JobSound, Quiet, Budget, Order

LEMMA AlwaysOnTime == SafeSpec => []OnTime
BY InitOnTime, StepOnTime, AlwaysSound, PTL DEF SafeSpec

(* Whatever dies or fails, however late other jobs are, and before as well  *)
(* as after the message of a run is acknowledged: a job that is never late  *)
(* has one run, with a pod, in the queue or with a worker, and only while   *)
(* its row is queued; but for those the queue itself has made by delivering *)
(* a message again, of which none makes a second (the enqueue query,        *)
(* publishMessages, timestampHelper).                                       *)
THEOREM OnTimeSingleFlight ==
    SafeSpec => [](\A j \in Jobs \ Late :
                      InFlight(j) + (IF Queued(j) THEN 0 ELSE 1) <= 1 + returned[j])
<1>1. OnTime => \A j \in Jobs \ Late :
                   InFlight(j) + (IF Queued(j) THEN 0 ELSE 1) <= 1 + returned[j]
    BY DEF OnTime, JobSound, Budget, Tokens, Free
<1>2. QED
    BY <1>1, AlwaysOnTime, PTL

(* So where no job is late, that is true of them all.                       *)
THEOREM SingleFlights == ASSUME Late = {} PROVE SafeSpec => []SingleFlight
<1>1. OnTime => SingleFlight
    BY DEF OnTime, JobSound, Budget, Tokens, Free, SingleFlight
<1>2. QED
    BY <1>1, AlwaysOnTime, PTL

(* Failures are counted by whoever has a run, so what a job may still have  *)
(* under way bounds them, too.  A last statement that fails makes them      *)
(* start at one, which is no more than a restart that is allowed.           *)
FailuresSound(j) ==
    LET most == MaxRestarts + 1 + returned[j]
    IN /\ Exists(j) => Tokens(j) + row[j].failures <= most
       /\ \A w \in Takers(j) : Exists(j) => Tokens(j) + run[w].failures <= most

LEMMA StepFailures ==
    ASSUME MaxRestarts > 0, Sound, Sound', OnTime, OnTime', [Next]_vars, NEW j \in Jobs \ Late, FailuresSound(j)
    PROVE  FailuresSound(j)'
<1>1. Moves(j) /\ Budget(j)'
    BY StepMoves DEF OnTime, JobSound
<1>2. /\ Tokens(j) \in Nat /\ returned[j] \in Nat /\ returned'[j] \in Nat
      /\ Free(j)' \in {0, 1} /\ sent'[j] \in Nat /\ MaxRestarts \in Nat
    BY TokenTypes, SchedulerAssumption DEF Sound, TypeOK, Free
<1>3. Tokens(j)' \in Nat
    BY <1>2, Sizes DEF Tokens, InFlight
<1>4. /\ Tokens(j)' + returned[j] <= Tokens(j) + returned'[j]
      /\ Tokens(j)' <= 1 + returned'[j]
    BY <1>1 DEF Moves, Budget
<1>5. SUFFICES ASSUME Exists(j)'
               PROVE  /\ Tokens(j)' + row'[j].failures <= MaxRestarts + 1 + returned'[j]
                      /\ \A w \in Takers(j)' : Tokens(j)' + run'[w].failures <= MaxRestarts + 1 + returned'[j]
    BY DEF FailuresSound
<1>6. Exists(j) /\ row[j].failures \in Nat /\ row'[j].failures \in Nat
    <2>1. Exists(j) /\ row[j] \in Row
        BY <1>1, <1>5, ExistingRow DEF Moves, Counts, Sound
    <2>2. row'[j] \in Row
        BY <1>5 DEF Sound, TypeOK, Exists
    <2>3. QED
        BY <2>1, <2>2, RowFields, SchedulerAssumption
<1>7. Tokens(j) + row[j].failures <= MaxRestarts + 1 + returned[j]
    BY <1>6 DEF FailuresSound
<1>8. Tokens(j)' + row'[j].failures <= MaxRestarts + 1 + returned'[j]
    <2>1. CASE row'[j].failures = row[j].failures
        BY <1>2, <1>3, <1>4, <1>6, <1>7, <2>1
    <2>2. CASE row'[j].failures <= 1 \/ row'[j].failures <= MaxRestarts
        BY <1>2, <1>3, <1>4, <1>6, <2>2
    <2>3. ASSUME NEW w \in Takers(j), row'[j].failures = run[w].failures + 1, Tokens(j)' + 1 <= Tokens(j)
          PROVE  Tokens(j)' + row'[j].failures <= MaxRestarts + 1 + returned'[j]
        <3>1. run[w].failures \in Nat
            BY SchedulerAssumption DEF Sound, TypeOK, Takers, Run
        <3>2. Tokens(j) + run[w].failures <= MaxRestarts + 1 + returned[j] /\ returned[j] <= returned'[j]
            BY <1>1, <1>6 DEF FailuresSound, Moves
        <3>3. QED
            BY <1>2, <1>3, <2>3, <3>1, <3>2
    <2>4. QED
        BY <1>1, <1>5, <2>1, <2>2, <2>3 DEF Moves, Counts
<1>9. ASSUME NEW w \in Takers(j)'
      PROVE  Tokens(j)' + run'[w].failures <= MaxRestarts + 1 + returned'[j]
    <2>1. CASE w \in Takers(j) /\ run'[w].failures = run[w].failures
        <3>1. run[w].failures \in Nat
            BY <2>1, SchedulerAssumption DEF Sound, TypeOK, Takers, Run
        <3>2. Tokens(j) + run[w].failures <= MaxRestarts + 1 + returned[j]
            BY <1>6, <2>1 DEF FailuresSound
        <3>3. QED
            BY <1>2, <1>3, <1>4, <2>1, <3>1, <3>2
    <2>2. CASE run'[w].failures = row[j].failures
        BY <1>2, <1>3, <1>4, <1>6, <1>7, <2>2
    <2>3. QED
        BY <1>1, <1>6, <1>9, <2>1, <2>2 DEF Moves, Counts
<1>10. QED
    BY <1>8, <1>9

(* A job that is never late, and may be retried at all, fails no more than  *)
(* MaxRestarts + 1 times in a row, but for messages delivered again         *)
(* (updateFailure).                                                         *)
THEOREM Restarts == ASSUME Late = {}, MaxRestarts > 0 PROVE SafeSpec => []RestartsBounded
<1> DEFINE All == \A j \in Jobs : FailuresSound(j)
<1>1. Init => All
    <2> SUFFICES ASSUME Init, NEW j \in Jobs
                 PROVE  FailuresSound(j)
        OBVIOUS
    <2>1. QED
        BY InitTokens, SchedulerAssumption DEF FailuresSound
<1>2. Sound /\ Sound' /\ OnTime /\ OnTime' /\ All /\ [Next]_vars => All'
    BY StepFailures
<1>3. Sound /\ All => RestartsBounded
    <2> SUFFICES ASSUME Sound, All, NEW j \in Jobs, Exists(j)
                 PROVE  row[j].failures <= MaxRestarts + 1 + returned[j]
        BY DEF RestartsBounded
    <2>1. Tokens(j) \in Nat /\ returned[j] \in Nat
        BY TokenTypes DEF Sound
    <2>2. row[j].failures \in Nat /\ MaxRestarts \in Nat
        BY ExistingRow, RowFields, SchedulerAssumption DEF Sound
    <2>3. QED
        BY <2>1, <2>2 DEF FailuresSound
<1> HIDE DEF All
<1>4. QED
    BY <1>1, <1>2, <1>3, AlwaysSound, AlwaysOnTime, PTL DEF SafeSpec

-----------------------------------------------------------------------------
(* What the lifecycle sees of a row, as in the refinement mapping.          *)
StateOf(j) ==
    IF ~Exists(j) THEN "deleted"
    ELSE IF ~row[j].queued THEN "dormant"
    ELSE IF row[j].accepted THEN "accepted" ELSE "running"

State == [j \in Jobs |-> StateOf(j)]
Again == {j \in Jobs : returned[j] > 0}

LEMMA SameRows ==
    ASSUME \A j \in Jobs : StateOf(j)' = StateOf(j)
    PROVE  State' = State
BY DEF State

LEMMA OneRow ==
    ASSUME NEW j \in Jobs, NEW s, StateOf(j)' = s, \A i \in Jobs \ {j} : row'[i] = row[i]
    PROVE  State' = [State EXCEPT ![j] = s]
<1>1. \A i \in Jobs \ {j} : StateOf(i)' = StateOf(i)
    BY DEF StateOf, Exists
<1>2. QED
    BY <1>1 DEF State

(* What a step that a worker or maintenance takes for one job means to the  *)
(* lifecycle.                                                               *)
LifeStep ==
    \/ \E js \in SUBSET Jobs : Lifecycle!Queue(js)
    \/ \E j \in Jobs : Lifecycle!Accept(j) \/ Lifecycle!Finish(j) \/ Lifecycle!Retry(j)

LEMMA AcceptMeans ==
    ASSUME NEW j \in Jobs, Exists(j), \A i \in Jobs \ {j} : row'[i] = row[i],
           Exists(j)', row'[j].queued = row[j].queued, row'[j].accepted
    PROVE  LifeStep \/ State' = State
<1>1. CASE StateOf(j) = "running"
    <2>1. StateOf(j)' = "accepted"
        BY <1>1 DEF StateOf
    <2>2. State' = [State EXCEPT ![j] = "accepted"] /\ State[j] = "running"
        BY <1>1, <2>1, OneRow DEF State
    <2>3. Lifecycle!Accept(j)
        BY <2>2 DEF State, StateOf, Lifecycle!Accept, Lifecycle!Running, Lifecycle!Accepted
    <2>4. QED
        BY <2>3 DEF LifeStep
<1>2. CASE StateOf(j) # "running"
    <2>1. StateOf(j)' = StateOf(j)
        BY <1>2 DEF StateOf
    <2>2. \A i \in Jobs : StateOf(i)' = StateOf(i)
        BY <2>1 DEF StateOf, Exists
    <2>3. QED
        BY <2>2, SameRows
<1>3. QED
    BY <1>1, <1>2

LEMMA EndMeans ==
    ASSUME NEW j \in Jobs, Exists(j), returned[j] > 0 \/ (Queued(j) /\ row[j].accepted),
           \A i \in Jobs \ {j} : row'[i] = row[i],
           \/ StateOf(j)' = "dormant"
           \/ j \in once /\ StateOf(j)' = "deleted"
    PROVE  LifeStep
<1>1. State[j] = "accepted" \/ (j \in Again /\ State[j] # "deleted")
    BY DEF State, StateOf, Again, Queued
<1>2. Lifecycle!MayEnd(j)
    BY <1>1 DEF State, StateOf, Again, Lifecycle!MayEnd, Lifecycle!Accepted, Lifecycle!Deleted
<1>3. CASE StateOf(j)' = "dormant"
    <2>1. State' = [State EXCEPT ![j] = "dormant"]
        BY <1>3, OneRow
    <2>2. Lifecycle!Retry(j)
        BY <1>2, <2>1 DEF State, StateOf, Lifecycle!Retry, Lifecycle!Dormant
    <2>3. QED
        BY <2>2 DEF LifeStep
<1>4. CASE j \in once /\ StateOf(j)' = "deleted"
    <2>1. State' = [State EXCEPT ![j] = "deleted"]
        BY <1>4, OneRow
    <2>2. Lifecycle!Finish(j)
        BY <1>2, <1>4, <2>1
        DEF State, StateOf, Lifecycle!Finish, Lifecycle!Dormant, Lifecycle!Deleted
    <2>3. QED
        BY <2>2 DEF LifeStep
<1>5. QED
    BY <1>3, <1>4

(* The end of a run: it makes the row dormant or deletes it, which it may   *)
(* do, or leaves it queued or dormant as it is.                             *)
LEMMA RunEndMeans ==
    ASSUME Sound, NEW w \in Workers, NEW j \in Jobs, run[w].job = j, JobSound(j),
           EndJob(w), once' = once, returned' = returned
    PROVE  LifeStep \/ State' = State
<1> USE DEF Sound
<1>1. /\ run[w].stage = "running" /\ \A i \in Jobs \ {j} : row'[i] = row[i]
      /\ \/ row'[j] = Gone /\ (~Exists(j) \/ j \in once)
         \/ /\ Exists(j) /\ row'[j] \in Row
            /\ row'[j].accepted = row[j].accepted
            /\ \/ row'[j].queued <=> (row[j].queued /\ ~run[w].queued)
               \/ row'[j].queued = row[j].queued
    BY EndJobEffect
<1>2. CASE StateOf(j)' = StateOf(j)
    <2>1. \A i \in Jobs : StateOf(i)' = StateOf(i)
        BY <1>1, <1>2 DEF StateOf, Exists
    <2>2. QED
        BY <2>1, SameRows
<1>3. CASE StateOf(j)' # StateOf(j)
    <2>1. Exists(j) /\ (StateOf(j)' = "dormant" \/ (j \in once /\ StateOf(j)' = "deleted"))
        BY <1>1, <1>3, GoneAssumption DEF StateOf, Exists
    <2>2. returned[j] \in Nat /\ w \in Takers(j)
        BY <1>1, TokenTypes DEF Takers
    <2>3. CASE returned[j] > 0
        BY <1>1, <2>1, <2>3, EndMeans
    <2>4. CASE returned[j] = 0
        <3>1. Queued(j)
            BY <2>2, <2>4, Alone DEF JobSound, Budget
        <3>2. row[j].accepted
            BY <1>1, <2>2, <2>4 DEF JobSound, Order
        <3>3. QED
            BY <1>1, <2>1, <3>1, <3>2, EndMeans
    <2>5. QED
        BY <2>2, <2>3, <2>4
<1>4. QED
    BY <1>2, <1>3

LEMMA StepMeans ==
    ASSUME Late = {}, Sound, OnTime, Next
    PROVE  \/ returned' = returned /\ (LifeStep \/ State' = State)
           \/ State' = State /\ (Again' = Again \/ \E j \in Jobs : Again' = Again \cup {j})
<1> USE DEF Sound
<1>0. \A j \in Jobs : JobSound(j)
    BY DEF OnTime
<1>2. ASSUME row' = row
      PROVE  State' = State
    BY <1>2 DEF State, StateOf, Exists
<1>3. ASSUME once' = once, returned' = returned, NEW p \in Pods, PodStep(p)
      PROVE  State' = State
    BY <1>2, <1>3, PodStepTypes
<1>4. ASSUME once' = once, returned' = returned, NEW p \in Pods, NEW js \in SUBSET Jobs, FetchAndEnqueueJobs(p, js)
      PROVE  LifeStep
    <2>1. \A j \in js : StateOf(j) = "dormant" /\ StateOf(j)' = "running"
        <3>1. \A j \in js : Dormant(j) /\ row'[j] \in Row /\ row'[j].queued /\ ~row'[j].accepted
            BY <1>4, FetchEffect
        <3>2. QED
            BY <3>1, GoneAssumption DEF StateOf, Dormant, Exists
    <2>2. \A j \in Jobs \ js : StateOf(j)' = StateOf(j)
        BY <1>4, FetchEffect DEF StateOf, Exists
    <2>3. State' = [j \in Jobs |-> IF j \in js THEN "running" ELSE State[j]]
        BY <2>1, <2>2 DEF State
    <2>4. \A j \in js : State[j] = "dormant"
        BY <2>1 DEF State
    <2>5. Lifecycle!Queue(js)
        BY <2>3, <2>4 DEF State, StateOf, Lifecycle!Queue, Lifecycle!Dormant, Lifecycle!Running
    <2>6. QED
        BY <2>5 DEF LifeStep
<1>5. ASSUME once' = once, returned' = returned, NEW p \in Pods, NEW j \in batch[p], Publish(p, j) \/ PublishFails(p, j)
      PROVE  State' = State
    BY <1>2, <1>5, PublishEffect
<1>6. ASSUME once' = once, returned' = returned, NEW p \in Pods,
             RestartBlocked(p) \/ RestartLaggy(p) \/ (\E j \in found[p] : ResetJob(p, j))
      PROVE  State' = State
    <2>1. \A j \in Jobs : row'[j] = row[j]
        BY <1>0, <1>6, RestartEffect DEF JobSound, Quiet, Queued
    <2>2. QED
        BY <2>1, SameRows DEF StateOf, Exists
<1>7. ASSUME once' = once, returned' = returned, NEW p \in Pods, AcceptCheck(p)
      PROVE  LifeStep \/ State' = State
    <2>1. /\ Check \in Jobs /\ Exists(Check)
          /\ \A i \in Jobs \ {Check} : row'[i] = row[i]
          /\ row'[Check] \in Row /\ row'[Check].queued = row[Check].queued /\ row'[Check].accepted
        BY <1>7, JobAssumption, AcceptCheckEffect DEF CheckSound
    <2>2. QED
        BY <2>1, GoneAssumption, AcceptMeans DEF Exists
<1>8. ASSUME once' = once, returned' = returned, NEW p \in Pods, FinishCheck(p) \/ CheckFails(p)
      PROVE  LifeStep \/ State' = State
    <2>1. /\ Check \in Jobs /\ Queued(Check)
          /\ \A i \in Jobs \ {Check} : row'[i] = row[i]
          /\ row'[Check] = row[Check] \/
                (phase[p] = "finish" /\ row'[Check] \in Row /\ ~row'[Check].queued)
        BY <1>8, JobAssumption, EndCheckEffect DEF CheckSound, Maintaining
    <2>2. CASE row'[Check] = row[Check]
        <3>1. \A j \in Jobs : StateOf(j)' = StateOf(j)
            BY <2>1, <2>2 DEF StateOf, Exists
        <3>2. QED
            BY <3>1, SameRows
    <2>3. CASE phase[p] = "finish" /\ row'[Check] \in Row /\ ~row'[Check].queued
        <3>1. StateOf(Check)' = "dormant"
            BY <2>3, GoneAssumption DEF StateOf, Exists
        <3>2. returned[Check] > 0 \/ row[Check].accepted
            <4>1. returned[Check] \in Nat
                BY <2>1, TokenTypes
            <4>2. returned[Check] = 0 => row[Check].accepted
                BY <1>0, <2>1, <2>3 DEF JobSound, Order, MaintainingOn, Maintaining
            <4>3. QED
                BY <4>1, <4>2
        <3>3. QED
            BY <2>1, <3>1, <3>2, EndMeans DEF Queued
    <2>4. QED
        BY <2>1, <2>2, <2>3
<1>9. ASSUME once' = once, returned' = returned, NEW w \in Workers, NEW j \in Jobs, Take(w, j)
      PROVE  State' = State
    BY <1>2, <1>9, TakeEffect
<1>10. ASSUME once' = once, returned' = returned, NEW w \in Workers, AcceptJob(w)
       PROVE  LifeStep \/ State' = State
    <2>0. PICK j \in Jobs : j = run[w].job
        BY <1>10, AcceptJobEffect
    <2>1. \A i \in Jobs \ {j} : row'[i] = row[i]
        BY <1>10, <2>0, AcceptJobEffect
    <2>2. CASE Exists(j)
        <3>1. row'[j] \in Row /\ row'[j].queued = row[j].queued /\ row'[j].accepted
            BY <1>10, <2>0, <2>2, AcceptJobEffect
        <3>2. Exists(j)'
            BY <3>1, GoneAssumption DEF Exists
        <3>3. QED
            BY <2>1, <2>2, <3>1, <3>2, AcceptMeans
    <2>3. CASE ~Exists(j)
        <3>1. row'[j] = row[j]
            BY <1>10, <2>0, <2>3, AcceptJobEffect DEF Exists
        <3>2. \A i \in Jobs : StateOf(i)' = StateOf(i)
            BY <2>1, <3>1 DEF StateOf, Exists
        <3>3. QED
            BY <3>2, SameRows
    <2>4. QED
        BY <2>2, <2>3
<1>11. ASSUME once' = once, returned' = returned, NEW w \in Workers, EndJob(w)
       PROVE  LifeStep \/ State' = State
    <2>1. run[w].job \in Jobs
        BY <1>11, EndJobEffect
    <2>2. QED
        BY <1>0, <1>11, <2>1, RunEndMeans
<1>12. ASSUME once' = once, NEW w \in Workers, WorkerEnds(w),
              EndUntracked(w) \/ Acknowledge(w) => returned' = returned
       PROVE  State' = State /\ (Again' = Again \/ \E j \in Jobs : Again' = Again \cup {j})
    <2>1. /\ row' = row /\ run[w].job \in Jobs
          /\ \A i \in Jobs \ {run[w].job} : returned'[i] = returned[i]
          /\ returned'[run[w].job] \in {returned[run[w].job], returned[run[w].job] + 1}
        BY <1>12, WorkerEndsEffect DEF ReturnedSound
    <2>2. returned[run[w].job] \in Nat
        BY <2>1, TokenTypes
    <2>3. CASE returned'[run[w].job] = returned[run[w].job]
        BY <1>2, <2>1, <2>3 DEF Again
    <2>4. CASE returned'[run[w].job] = returned[run[w].job] + 1
        <3>1. Again' = Again \cup {run[w].job}
            BY <2>1, <2>2, <2>4 DEF Again
        <3>2. QED
            BY <1>2, <2>1, <3>1
    <2>5. QED
        BY <2>1, <2>3, <2>4
<1>13. ASSUME NEW j \in Jobs, GrowOld(j)
       PROVE  FALSE
    BY <1>13 DEF GrowOld
<1>14. QED
    BY <1>3, <1>4, <1>5, <1>6, <1>7, <1>8, <1>9, <1>10, <1>11, <1>12, <1>13, Steps

(* So it is a step of the lifecycle, or none.                               *)
LEMMA StepImplements ==
    ASSUME Late = {}, Sound, OnTime, [Next]_vars
    PROVE  [Lifecycle!LNext /\ UNCHANGED once]_<<State, once, Again>>
<1>1. CASE UNCHANGED vars
    BY <1>1 DEF vars, steady, State, StateOf, Exists, Again
<1>2. CASE Next
    <2>1. once' = once
        BY <1>2 DEF Next
    <2>2. CASE returned' = returned /\ (LifeStep \/ State' = State)
        <3>1. Again' = Again
            BY <2>2 DEF Again
        <3>2. LifeStep => Lifecycle!LNext
            BY <3>1 DEF LifeStep, Again, Lifecycle!LNext
        <3>3. QED
            BY <2>1, <2>2, <3>1, <3>2
    <2>3. CASE State' = State /\ (Again' = Again \/ \E j \in Jobs : Again' = Again \cup {j})
        <3>1. ASSUME NEW j \in Jobs, Again' = Again \cup {j}
              PROVE  Lifecycle!LNext
            <4>1. Lifecycle!Repeat(j)
                BY <2>3, <3>1 DEF Again, State, StateOf, Lifecycle!Repeat
            <4>2. QED
                BY <4>1 DEF Lifecycle!LNext
        <3>2. QED
            BY <2>1, <2>3, <3>1
    <2>4. QED
        BY <1>2, <2>2, <2>3, StepMeans
<1>3. QED
    BY <1>1, <1>2

(* Where no job is late, rows go round as docs/job.md says, whatever dies   *)
(* or fails: dormant, queued, accepted, and dormant again or, of a one-off  *)
(* job, gone; a message that is delivered again ends at most a run out of   *)
(* turn.                                                                    *)
THEOREM RowsGoRound == ASSUME Late = {} PROVE SafeSpec => LifecycleImplemented
<1>1. Init => Lifecycle!LInit
    <2> SUFFICES ASSUME Init PROVE Lifecycle!LInit
        OBVIOUS
    <2>1. \A j \in Jobs : Exists(j) /\ ~row[j].queued /\ returned[j] = 0
        BY InitTokens DEF Dormant
    <2>2. once \subseteq Jobs
        BY JobAssumption DEF Init
    <2>3. QED
        BY <2>1, <2>2 DEF Lifecycle!LInit, Lifecycle!Dormant
<1>2. Sound /\ OnTime /\ [Next]_vars => [Lifecycle!LNext /\ UNCHANGED once]_<<State, once, Again>>
    BY StepImplements
<1>3. [Lifecycle!LNext /\ UNCHANGED once]_<<State, once, Again>> =>
      [Lifecycle!LNext /\ UNCHANGED once]_<<[j \in Jobs |-> IF ~Exists(j) THEN "deleted"
                             ELSE IF ~row[j].queued THEN "dormant"
                             ELSE IF row[j].accepted THEN "accepted" ELSE "running"], once,
                             {j \in Jobs : returned[j] > 0}>>
    BY DEF State, StateOf, Again
<1>4. QED
    BY <1>1, <1>2, <1>3, AlwaysSound, AlwaysOnTime, PTL DEF SafeSpec, LifecycleImplemented, Lifecycle!LSpec
====
