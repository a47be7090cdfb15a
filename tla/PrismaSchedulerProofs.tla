------------------------ MODULE PrismaSchedulerProofs ------------------------
(***************************************************************************)
(* Proofs about the Prisma job scheduler, for any number of jobs, pods,     *)
(* workers, faults and restarts.                                            *)
(***************************************************************************)
EXTENDS PrismaScheduler, FiniteSetTheorems, TLAPS

USE DEF queueVars

(* The updates of a row give rows, and what they leave alone.               *)
LEMMA ReleaseUpdate ==
    ASSUME NEW r \in Row
    PROVE  /\ Release(r) \in Row /\ ~Release(r).queued /\ Release(r).age = "fresh"
           /\ Release(r).accepted = r.accepted /\ Release(r).failures = r.failures
BY DEF Row, Release, Age

LEMMA FailuresUpdate ==
    ASSUME NEW r \in Row, NEW f \in 0 .. MaxFailures, NEW n, n = [r EXCEPT !.failures = f]
    PROVE  /\ n \in Row /\ n.failures = f
           /\ n.queued = r.queued /\ n.accepted = r.accepted /\ n.age = r.age
BY DEF Row

LEMMA QueueUpdate ==
    ASSUME NEW r \in Row, NEW n, n = [r EXCEPT !.queued = TRUE, !.accepted = FALSE]
    PROVE  n \in Row /\ n.queued /\ ~n.accepted /\ n.age = r.age /\ n.failures = r.failures
BY DEF Row

LEMMA AcceptUpdate ==
    ASSUME NEW r \in Row, NEW n, n = [r EXCEPT !.accepted = TRUE, !.age = "fresh"]
    PROVE  n \in Row /\ n.queued = r.queued /\ n.accepted /\ n.age = "fresh" /\ n.failures = r.failures
BY DEF Row, Age

LEMMA AgeUpdate ==
    ASSUME NEW r \in Row, NEW a \in {"late", "overdue"}, NEW n, n = [r EXCEPT !.age = a]
    PROVE  n \in Row /\ n.queued = r.queued /\ n.accepted = r.accepted /\ n.failures = r.failures
BY DEF Row, Age

LEMMA Zeros == 0 \in 0 .. MaxFailures /\ 0 \in 0 .. MaxSent /\ 0 \in 0 .. MaxEvents
BY SchedulerAssumption

LEMMA NewRowType == /\ NewRow \in Row /\ ~NewRow.queued /\ ~NewRow.accepted
                    /\ NewRow.age = "fresh" /\ NewRow.failures = 0
BY Zeros DEF NewRow, Row, Age

LEMMA IdleType == Idle \in Run /\ Idle.stage = "idle" /\ Idle.job = NoJob /\ Idle.failures = 0
BY Zeros DEF Idle, Run

LEMMA RunUpdate ==
    ASSUME NEW r \in Run, NEW s \in {"running", "retried"}, NEW n, n = [r EXCEPT !.stage = s]
    PROVE  n \in Run /\ n.stage = s /\ n.job = r.job /\ n.failures = r.failures
BY DEF Run

Loaded(j, s) == [Idle EXCEPT !.stage = s, !.job = j]

LEMMA LoadUpdate ==
    ASSUME NEW j \in Jobs, NEW s \in {"loaded", "untracked", "ended"}
    PROVE  /\ Loaded(j, s) \in Run /\ Loaded(j, s).stage = s /\ Loaded(j, s).job = j
           /\ Loaded(j, s) # Idle
BY IdleType DEF Run, Loaded

FailureRead(r, f, s) == [r EXCEPT !.failures = f, !.stage = s]

LEMMA FailUpdate ==
    ASSUME NEW r \in Run, NEW f \in 0 .. MaxFailures, NEW s \in {"retry", "count"}
    PROVE  /\ FailureRead(r, f, s) \in Run /\ FailureRead(r, f, s).stage = s
           /\ FailureRead(r, f, s).job = r.job /\ FailureRead(r, f, s).failures = f
BY DEF Run, FailureRead

LEMMA ExistingRow == ASSUME TypeOK, NEW j \in Jobs, Exists(j) PROVE row[j] \in Row
BY DEF TypeOK, Exists

LEMMA EventTypes == ASSUME TypeOK, NEW kind, Event(kind) PROVE events' \in 0 .. MaxEvents
BY SchedulerAssumption DEF TypeOK, Event

-----------------------------------------------------------------------------
(* What a runner does: it has a job unless it is idle; a pod works on one   *)
(* of its batch that is Inline, a worker on one that is not, as no message  *)
(* is sent for an Inline job; a run that may be retried is one of a safe    *)
(* job; and what was counted of failures can be counted up.                 *)
Failed == {"retry", "retried", "count"}

RunsSound ==
    /\ \A r \in Runners :
          /\ run[r] = Idle \/ (run[r].job \in Jobs /\ run[r].stage # "idle")
          /\ run[r].stage \in Failed => run[r].failures < MaxFailures
          /\ run[r].stage \in {"retry", "retried"} => run[r].job \in Safe
    /\ \A p \in Pods :
          /\ run[p] # Idle => run[p].job \in batch[p] \cap Inline
          /\ batch[p] # {} => phase[p] = "publish"
    /\ \A w \in Workers : run[w].job \notin Inline
    /\ \A j \in Inline : sent[j] = 0

(* The rows of 'check' are never selected for a restart, and one that is in *)
(* a batch is in no other, and queued.                                      *)
CheckSound ==
    \A p \in Pods, c \in Checks :
        /\ c \notin found[p]
        /\ c \in batch[p] => Queued(c) /\ \A q \in Pods : c \in batch[q] => q = p

(* When pods start one after the other there is one row of 'check': a pod   *)
(* that is about to create it has seen none, and is alone.                  *)
OneCheck ==
    /\ \A c, d \in Checks : Exists(c) /\ Exists(d) => c = d
    /\ \A p \in Pods : phase[p] \in {"init", "create"} =>
          \A q \in Pods : phase[q] \in {"init", "create"} => q = p
    /\ \A p \in Pods : phase[p] = "create" => \A c \in Checks : ~Exists(c)

-----------------------------------------------------------------------------
LEMMA Begins == \A p \in Pods : Begin(p) \in {"timer", "fetch", "stopped"}
BY DEF Begin

LEMMA AfterRounds == \A p \in Pods : AfterRound(p) \in {"timer", "stopped"}
BY DEF AfterRound

(* Maintenance selects queued rows that are old, and never one of 'check'.  *)
LEMMA SelectedRows ==
    ASSUME NEW n \in 1 .. Passes
    PROVE  Selected(n) \subseteq {j \in Jobs \ Checks : Queued(j) /\ row[j].age # "fresh"}
<1>1. n \in {1, 2, 3, 4}
    BY DEF Passes
<1>2. QED
    BY <1>1, JobAssumption DEF Selected, Blocked, Laggy, Queued

(* A step that takes no row into a batch, finds no row of 'check' and       *)
(* releases none that is in a batch; and one that starts no pod and creates *)
(* no row of 'check'.                                                       *)
Shrinks ==
    /\ \A p \in Pods : batch'[p] \subseteq batch[p]
    /\ \A p \in Pods, c \in Checks : c \in found'[p] => c \in found[p]
    /\ \A p \in Pods, c \in Checks : c \in batch'[p] /\ Queued(c) => Queued(c)'

Settles ==
    /\ \A p \in Pods : phase'[p] \in {"init", "create"} => phase'[p] = phase[p]
    /\ \A c \in Checks : Exists(c)' => Exists(c)

LEMMA ShrinksCheck ==
    ASSUME CheckSound, Shrinks
    PROVE  CheckSound'
BY DEF CheckSound, Shrinks

LEMMA SettlesOne ==
    ASSUME OneCheck, Settles
    PROVE  OneCheck'
BY DEF OneCheck, Settles

(* The steps of a pod that write no row and concern no job.                 *)
PodStep(p) ==
    \/ Start(p) \/ FindCheck(p) \/ RunScheduledJobs(p) \/ RoundFails(p)
    \/ (\E value \in BOOLEAN : Pause(p, value))
    \/ Terminate(p) \/ TerminateReturns(p)
    \/ SelectRows(p) \/ MaintenanceFails(p) \/ (\E j \in found[p] : ResetFails(p, j))

LEMMA PodStepPhases ==
    ASSUME TypeOK, RunsSound, NEW p \in Pods, PodStep(p)
    PROVE  /\ UNCHANGED <<row, sent, returned, batch, run>>
           /\ phase' \in [Pods -> {"dead", "init", "create", "timer", "fetch", "publish", "stopped"}]
           /\ \A q \in Pods : batch[q] # {} => phase'[q] = "publish"
           /\ Start(p) \/ FindCheck(p) \/
                 \A q \in Pods : phase'[q] \in {"init", "create"} => phase'[q] = phase[q]
           /\ \A q \in Pods \ {p} : phase'[q] = phase[q]
<1>1. CASE Start(p)
    BY <1>1 DEF TypeOK, RunsSound, Start, Go
<1>2. CASE FindCheck(p)
    BY <1>2, Begins DEF TypeOK, RunsSound, FindCheck, Go
<1>3. CASE RunScheduledJobs(p) \/ RoundFails(p) \/ Terminate(p)
    BY <1>3 DEF TypeOK, RunsSound, RunScheduledJobs, RoundFails, Terminate, Go
<1>4. CASE \/ (\E value \in BOOLEAN : Pause(p, value))
           \/ TerminateReturns(p)
           \/ SelectRows(p) \/ MaintenanceFails(p) \/ (\E j \in found[p] : ResetFails(p, j))
    BY <1>4 DEF TypeOK, RunsSound, Pause, TerminateReturns, SelectRows, MaintenanceFails,
                ResetFails, podVars
<1>5. QED
    BY <1>1, <1>2, <1>3, <1>4 DEF PodStep

LEMMA PodStepFinds ==
    ASSUME TypeOK, NEW p \in Pods, PodStep(p)
    PROVE  /\ found' \in [Pods -> SUBSET Jobs] /\ pass' \in [Pods -> 0 .. Passes]
           /\ \A q \in Pods, j \in Jobs : j \in found'[q] =>
                 j \in found[q] \/ (j \notin Checks /\ Queued(j) /\ row[j].age # "fresh")
<1>1. CASE \/ Start(p) \/ FindCheck(p) \/ RunScheduledJobs(p) \/ RoundFails(p)
           \/ (\E value \in BOOLEAN : Pause(p, value))
           \/ Terminate(p) \/ TerminateReturns(p)
    BY <1>1 DEF TypeOK, Start, FindCheck, RunScheduledJobs, RoundFails, Pause, Terminate,
                TerminateReturns, maintenanceVars
<1>2. CASE SelectRows(p)
    <2>1. pass[p] \in 0 .. 3 /\ pass[p] + 1 \in 1 .. Passes
        BY <1>2 DEF SelectRows, TypeOK, Passes
    <2>2. PICK s : s = Selected(pass[p] + 1)
        OBVIOUS
    <2>3. s \subseteq {j \in Jobs \ Checks : Queued(j) /\ row[j].age # "fresh"}
        BY <2>1, <2>2, SelectedRows
    <2>4. found' = [found EXCEPT ![p] = s]
        BY <1>2, <2>2 DEF SelectRows, NextPass
    <2>5. pass' = [pass EXCEPT ![p] = pass[p] + 1] \/ pass' = pass
        BY <1>2 DEF SelectRows, NextPass, TypeOK
    <2>6. pass' \in [Pods -> 0 .. Passes]
        BY <2>1, <2>5 DEF TypeOK, Passes
    <2>7. QED
        BY <2>3, <2>4, <2>6 DEF TypeOK
<1>3. CASE MaintenanceFails(p)
    BY <1>3 DEF TypeOK, MaintenanceFails, Passes
<1>4. ASSUME NEW i \in found[p], ResetFails(p, i)
      PROVE  /\ found' \in [Pods -> SUBSET Jobs] /\ pass' \in [Pods -> 0 .. Passes]
             /\ \A q \in Pods, j \in Jobs : j \in found'[q] => j \in found[q]
    <2>1. pass[p] + 1 \in 0 .. Passes
        BY <1>4 DEF ResetFails, Passes
    <2>2. QED
        BY <1>4, <2>1 DEF TypeOK, ResetFails, NextPass
<1>5. QED
    BY <1>1, <1>2, <1>3, <1>4 DEF PodStep

LEMMA PodStepTypes ==
    ASSUME TypeOK, RunsSound, UNCHANGED registered, NEW p \in Pods, PodStep(p)
    PROVE  TypeOK' /\ RunsSound'
<1>1. /\ paused' \in [Pods -> BOOLEAN]
      /\ term' \in [Pods -> {"no", "waiting", "returned"}]
    BY DEF PodStep, TypeOK, Start, FindCheck, RunScheduledJobs, RoundFails, Pause, Terminate,
           TerminateReturns, SelectRows, MaintenanceFails, ResetFails, podVars
<1>2. events' \in 0 .. MaxEvents
    <2>1. events' = events \/ \E kind \in {"round", "pause", "terminate", "maintenance"} : Event(kind)
        BY DEF PodStep, Start, FindCheck, RunScheduledJobs, RoundFails, Pause, Terminate,
               TerminateReturns, SelectRows, MaintenanceFails, ResetFails
    <2>2. QED
        BY <2>1, EventTypes DEF TypeOK
<1>3. QED
    BY <1>1, <1>2, PodStepPhases, PodStepFinds DEF TypeOK, RunsSound, registered

-----------------------------------------------------------------------------
(* What the steps of a pod for its jobs do.                                 *)
LEMMA CreateCheckEffect ==
    ASSUME TypeOK, RunsSound, UNCHANGED registered, NEW p \in Pods, CreateCheck(p)
    PROVE  /\ TypeOK' /\ RunsSound'
           /\ phase[p] = "create"
           /\ \E c \in Checks : /\ ~Exists(c)
                                /\ row'[c] = NewRow
                                /\ \A j \in Jobs \ {c} : row'[j] = row[j]
           /\ UNCHANGED <<sent, returned, batch, run, found>>
           /\ \A q \in Pods : phase'[q] \in {"init", "create"} => phase'[q] = phase[q]
           /\ phase'[p] \notin {"init", "create"}
<1>1. PICK c \in Checks : ~Exists(c) /\ row' = [row EXCEPT ![c] = NewRow]
    BY DEF CreateCheck
<1>2. c \in Jobs
    BY JobAssumption
<1>3. phase[p] = "create" /\ phase' = [phase EXCEPT ![p] = Begin(p)]
    BY DEF CreateCheck, Go
<1>4. /\ phase' \in [Pods -> {"dead", "init", "create", "timer", "fetch", "publish", "stopped"}]
      /\ \A q \in Pods : batch[q] # {} => phase'[q] = "publish"
      /\ \A q \in Pods : phase'[q] \in {"init", "create"} => phase'[q] = phase[q]
      /\ phase'[p] \notin {"init", "create"}
    BY <1>3, Begins DEF TypeOK, RunsSound
<1>5. UNCHANGED <<sent, returned, batch, paused, term, run, pass, found, events>>
    BY DEF CreateCheck, maintenanceVars
<1>6. TypeOK' /\ RunsSound'
    BY <1>1, <1>2, <1>4, <1>5, NewRowType DEF TypeOK, RunsSound, registered
<1>7. row'[c] = NewRow /\ \A j \in Jobs \ {c} : row'[j] = row[j]
    BY <1>1, <1>2 DEF TypeOK
<1>8. QED
    BY <1>1, <1>3, <1>4, <1>5, <1>6, <1>7

LEMMA FetchEffect ==
    ASSUME TypeOK, RunsSound, UNCHANGED registered, NEW p \in Pods, NEW js \in SUBSET Jobs,
           FetchAndEnqueueJobs(p, js)
    PROVE  /\ TypeOK' /\ RunsSound'
           /\ batch[p] = {} /\ run[p] = Idle
           /\ batch'[p] = js /\ \A q \in Pods \ {p} : batch'[q] = batch[q]
           /\ \A j \in js : /\ Dormant(j)
                            /\ row'[j] \in Row /\ row'[j].queued /\ ~row'[j].accepted
                            /\ row'[j].age = row[j].age
           /\ \A j \in Jobs \ js : row'[j] = row[j]
           /\ UNCHANGED <<sent, returned, run, found>>
           /\ \A q \in Pods : phase'[q] \in {"init", "create"} => phase'[q] = phase[q]
<1>1. phase[p] = "fetch" /\ batch[p] = {}
    BY DEF FetchAndEnqueueJobs, RunsSound
<1>2. run[p] = Idle
    BY <1>1 DEF RunsSound
<1>3. \A j \in js : /\ Dormant(j) /\ row'[j] \in Row /\ row'[j].queued /\ ~row'[j].accepted
                    /\ row'[j].age = row[j].age
    BY ExistingRow, QueueUpdate DEF FetchAndEnqueueJobs, Dormant
<1>4. /\ \A j \in Jobs \ js : row'[j] = row[j]
      /\ row' \in [Jobs -> Row \cup {Gone}]
    <2>1. row' = [j \in Jobs |-> IF j \in js
                              THEN [row[j] EXCEPT !.queued = TRUE, !.accepted = FALSE]
                              ELSE row[j]]
        BY DEF FetchAndEnqueueJobs
    <2>2. \A j \in Jobs \ js : row'[j] = row[j]
        BY <2>1
    <2>3. \A j \in Jobs : row'[j] \in Row \cup {Gone}
        BY <1>3, <2>2 DEF TypeOK
    <2>4. QED
        BY <2>1, <2>2, <2>3
<1>5. /\ phase' \in [Pods -> {"dead", "init", "create", "timer", "fetch", "publish", "stopped"}]
      /\ batch' = [batch EXCEPT ![p] = js]
      /\ batch' \in [Pods -> SUBSET Jobs]
      /\ \A q \in Pods : batch'[q] # {} => phase'[q] = "publish"
      /\ \A q \in Pods : phase'[q] \in {"init", "create"} => phase'[q] = phase[q]
    BY AfterRounds DEF FetchAndEnqueueJobs, Go, TypeOK, RunsSound
<1>6. UNCHANGED <<sent, returned, paused, term, run, pass, found, events>>
    BY DEF FetchAndEnqueueJobs, maintenanceVars
<1>7. TypeOK'
    BY <1>4, <1>5, <1>6 DEF TypeOK, registered
<1>8. \A q \in Pods : run[q] # Idle => batch'[q] = batch[q]
    BY <1>2, <1>5 DEF TypeOK
<1>9. RunsSound'
    BY <1>5, <1>6, <1>8 DEF RunsSound
<1>10. batch'[p] = js /\ \A q \in Pods \ {p} : batch'[q] = batch[q]
    BY <1>5 DEF TypeOK
<1>11. QED
    BY <1>1, <1>2, <1>3, <1>4, <1>5, <1>6, <1>7, <1>9, <1>10

(* A pod is done with a row of its batch.                                   *)
LEMMA DoneEffect ==
    ASSUME TypeOK, RunsSound, NEW p \in Pods, NEW j, j \in batch[p], Done(p, j)
    PROVE  /\ phase' \in [Pods -> {"dead", "init", "create", "timer", "fetch", "publish", "stopped"}]
           /\ batch' \in [Pods -> SUBSET Jobs]
           /\ batch'[p] = batch[p] \ {j} /\ \A q \in Pods \ {p} : batch'[q] = batch[q]
           /\ \A q \in Pods : batch'[q] # {} => phase'[q] = "publish"
           /\ \A q \in Pods : phase'[q] \in {"init", "create"} => phase'[q] = phase[q]
BY AfterRounds DEF Done, Go, TypeOK, RunsSound

LEMMA PublishEffect ==
    ASSUME TypeOK, RunsSound, UNCHANGED registered, NEW p \in Pods, NEW j \in batch[p],
           Publish(p, j) \/ PublishFails(p, j)
    PROVE  /\ TypeOK' /\ RunsSound'
           /\ run[p] = Idle /\ j \in Jobs \ Inline
           /\ batch'[p] = batch[p] \ {j} /\ \A q \in Pods \ {p} : batch'[q] = batch[q]
           /\ sent'[j] = sent[j] + 1 \/ sent'[j] = sent[j]
           /\ \A i \in Jobs \ {j} : sent'[i] = sent[i]
           /\ UNCHANGED <<row, returned, run, found>>
           /\ \A q \in Pods : phase'[q] \in {"init", "create"} => phase'[q] = phase[q]
<1>1. j \in Jobs \ Inline /\ run[p] = Idle /\ Done(p, j)
    BY DEF Publish, PublishFails, TypeOK
<1>2. /\ sent' \in [Jobs -> 0 .. MaxSent]
      /\ sent'[j] = sent[j] + 1 \/ sent'[j] = sent[j]
      /\ \A i \in Jobs \ {j} : sent'[i] = sent[i]
    <2>1. CASE Publish(p, j)
        <3>1. sent[j] \in 0 .. MaxSent /\ sent[j] < MaxSent /\ sent' = [sent EXCEPT ![j] = sent[j] + 1]
            BY <1>1, <2>1 DEF Publish, TypeOK
        <3>2. sent[j] + 1 \in 0 .. MaxSent
            BY <3>1, SchedulerAssumption
        <3>3. QED
            BY <1>1, <3>1, <3>2 DEF TypeOK
    <2>2. CASE PublishFails(p, j)
        BY <2>2 DEF PublishFails, TypeOK
    <2>3. QED
        BY <2>1, <2>2
<1>3. events' \in 0 .. MaxEvents
    BY EventTypes DEF Publish, PublishFails, TypeOK
<1>4. UNCHANGED <<row, returned, paused, term, run, pass, found>>
    BY DEF Publish, PublishFails, maintenanceVars
<1>5. TypeOK'
    BY <1>1, <1>2, <1>3, <1>4, DoneEffect DEF TypeOK, registered
<1>6. \A q \in Pods : run[q] # Idle => batch'[q] = batch[q]
    BY <1>1, DoneEffect
<1>7. \A i \in Inline : sent'[i] = 0
    BY <1>1, <1>2, JobAssumption DEF RunsSound
<1>8. RunsSound'
    BY <1>1, <1>4, <1>6, <1>7, DoneEffect DEF RunsSound
<1>9. QED
    BY <1>1, <1>2, <1>4, <1>5, <1>8, DoneEffect

LEMMA PodDiesEffect ==
    ASSUME TypeOK, RunsSound, UNCHANGED registered, NEW p \in Pods, PodDies(p)
    PROVE  /\ TypeOK' /\ RunsSound'
           /\ UNCHANGED <<row, sent, returned>>
           /\ \A q \in Pods : /\ batch'[q] \subseteq batch[q] /\ found'[q] \subseteq found[q]
                              /\ phase'[q] \in {"init", "create"} => phase'[q] = phase[q]
           /\ \A r \in Runners \ {p} : run'[r] = run[r]
           /\ batch'[p] = {} /\ run'[p] = Idle
           /\ \A q \in Pods \ {p} : batch'[q] = batch[q]
<1>1. p \in Runners /\ Pods \subseteq Runners /\ Workers \subseteq Runners
    BY DEF Runners
<1>2. /\ phase' = [phase EXCEPT ![p] = "dead"]
      /\ batch' = [batch EXCEPT ![p] = {}]
      /\ run' = [run EXCEPT ![p] = Idle]
      /\ pass' = [pass EXCEPT ![p] = 0]
      /\ found' = [found EXCEPT ![p] = {}]
      /\ UNCHANGED <<row, sent, returned, paused, term>>
    BY DEF PodDies, Go
<1>3. events' \in 0 .. MaxEvents
    BY EventTypes DEF PodDies
<1>4. TypeOK'
    BY <1>1, <1>2, <1>3, IdleType DEF TypeOK, registered, Passes
<1>5. /\ \A q \in Pods : /\ batch'[q] \subseteq batch[q] /\ found'[q] \subseteq found[q]
                         /\ phase'[q] \in {"init", "create"} => phase'[q] = phase[q]
                         /\ batch'[q] # {} => phase'[q] = "publish"
      /\ batch'[p] = {} /\ run'[p] = Idle
      /\ \A q \in Pods \ {p} : batch'[q] = batch[q]
    BY <1>1, <1>2 DEF TypeOK, RunsSound
<1>6. \A r \in Runners \ {p} : run'[r] = run[r]
    BY <1>1, <1>2 DEF TypeOK
<1>7. NoJob \notin Inline
    BY JobAssumption
<1>8. RunsSound'
    BY <1>1, <1>2, <1>5, <1>6, <1>7, IdleType DEF RunsSound, Failed
<1>9. QED
    BY <1>2, <1>4, <1>5, <1>6, <1>8

LEMMA TakeInlineEffect ==
    ASSUME TypeOK, RunsSound, UNCHANGED registered, NEW p \in Pods, NEW j \in batch[p],
           TakeInline(p, j)
    PROVE  /\ TypeOK' /\ RunsSound'
           /\ run[p] = Idle /\ j \in Inline
           /\ run'[p].job = j /\ run'[p].stage \in {"loaded", "untracked"}
           /\ \A r \in Runners \ {p} : run'[r] = run[r]
           /\ UNCHANGED <<row, sent, returned, podVars, maintenanceVars>>
<1>1. p \in Runners /\ Pods \subseteq Runners /\ Workers \subseteq Runners /\ p \notin Workers
    BY SchedulerAssumption DEF Runners
<1>2. j \in Jobs /\ j \in Inline /\ run[p] = Idle
    BY DEF TakeInline, TypeOK
<1>3. PICK s \in {"loaded", "untracked"} : run' = [run EXCEPT ![p] = Loaded(j, s)]
    BY DEF TakeInline, Load, Loaded
<1>4. PICK n : n = Loaded(j, s)
    OBVIOUS
<1>5. n \in Run /\ n.stage = s /\ n.job = j /\ n # Idle
    BY <1>2, <1>3, <1>4, LoadUpdate
<1>6. run' = [run EXCEPT ![p] = n]
    BY <1>3, <1>4
<1>7. UNCHANGED <<row, sent, returned, podVars, maintenanceVars, events>>
    BY DEF TakeInline
<1>8. TypeOK'
    BY <1>1, <1>5, <1>6, <1>7 DEF TypeOK, registered, podVars, maintenanceVars
<1>9. run'[p] = n /\ \A r \in Runners \ {p} : run'[r] = run[r]
    BY <1>1, <1>6 DEF TypeOK
<1>10. RunsSound'
    BY <1>1, <1>2, <1>5, <1>7, <1>9 DEF RunsSound, Failed, podVars
<1>11. QED
    BY <1>2, <1>5, <1>7, <1>8, <1>9, <1>10

LEMMA TakeEffect ==
    ASSUME TypeOK, RunsSound, UNCHANGED registered, NEW w \in Workers, NEW j \in Jobs, Take(w, j)
    PROVE  /\ TypeOK' /\ RunsSound'
           /\ run[w] = Idle /\ sent[j] > 0
           /\ sent'[j] = sent[j] - 1 /\ \A i \in Jobs \ {j} : sent'[i] = sent[i]
           /\ run'[w].job = j /\ run'[w].stage \in {"loaded", "untracked"}
           /\ \A r \in Runners \ {w} : run'[r] = run[r]
           /\ UNCHANGED <<row, returned, podVars, maintenanceVars>>
<1>1. w \in Runners /\ Pods \subseteq Runners /\ Workers \subseteq Runners /\ w \notin Pods
    BY SchedulerAssumption DEF Runners
<1>2. sent[j] > 0 /\ run[w] = Idle /\ sent' = [sent EXCEPT ![j] = sent[j] - 1]
    BY DEF Take
<1>3. sent[j] \in 0 .. MaxSent
    BY DEF TypeOK
<1>4. sent[j] - 1 \in 0 .. MaxSent /\ sent[j] # 0
    BY <1>2, <1>3, SchedulerAssumption
<1>5. j \notin Inline
    BY <1>4 DEF RunsSound
<1>6. PICK s \in {"loaded", "untracked"} : run' = [run EXCEPT ![w] = Loaded(j, s)]
    BY DEF Take, Load, Loaded
<1>7. PICK n : n = Loaded(j, s)
    OBVIOUS
<1>8. n \in Run /\ n.stage = s /\ n.job = j /\ n # Idle
    BY <1>6, <1>7, LoadUpdate
<1>9. run' = [run EXCEPT ![w] = n]
    BY <1>6, <1>7
<1>10. UNCHANGED <<row, returned, podVars, maintenanceVars, events>>
    BY DEF Take
<1>11. TypeOK'
    BY <1>1, <1>2, <1>4, <1>8, <1>9, <1>10 DEF TypeOK, registered, podVars, maintenanceVars
<1>12. run'[w] = n /\ \A r \in Runners \ {w} : run'[r] = run[r]
    BY <1>1, <1>9 DEF TypeOK
<1>13. sent'[j] = sent[j] - 1 /\ \A i \in Jobs \ {j} : sent'[i] = sent[i]
    BY <1>2 DEF TypeOK
<1>14. \A i \in Inline : sent'[i] = 0
    BY <1>5, <1>13, JobAssumption DEF RunsSound
<1>15. RunsSound'
    BY <1>1, <1>5, <1>8, <1>10, <1>12, <1>14 DEF RunsSound, Failed, podVars
<1>16. QED
    BY <1>2, <1>8, <1>10, <1>11, <1>12, <1>13, <1>15

(* Restarts write to rows that maintenance has found, and to no others.     *)
LEMMA RestartEffect ==
    ASSUME TypeOK, RunsSound, UNCHANGED registered, NEW p \in Pods,
           RestartRows(p) \/ (\E j \in found[p] : ResetJob(p, j))
    PROVE  /\ TypeOK' /\ RunsSound'
           /\ \A j \in Jobs : j \notin found[p] => row'[j] = row[j]
           /\ \A j \in Jobs : Exists(j)' => Exists(j)
           /\ \A q \in Pods : found'[q] \subseteq found[q]
           /\ UNCHANGED <<sent, returned, podVars, run>>
<1>1. CASE RestartRows(p)
    <2>1. row' = [j \in Jobs |-> IF j \in found[p] /\ Exists(j) THEN Release(row[j]) ELSE row[j]]
        BY <1>1 DEF RestartRows
    <2>2. \A j \in Jobs : Exists(j) => Release(row[j]) \in Row
        BY ExistingRow, ReleaseUpdate
    <2>3. row' \in [Jobs -> Row \cup {Gone}] /\ \A j \in Jobs : Exists(j)' => Exists(j)
        BY <2>1, <2>2 DEF TypeOK, Exists
    <2>4. pass[p] \in {0, 2} /\ found' = [found EXCEPT ![p] = {}] /\ pass' = [pass EXCEPT ![p] = pass[p] + 1]
        BY <1>1 DEF RestartRows, NextPass
    <2>5. UNCHANGED <<sent, returned, podVars, run, events>>
        BY <1>1 DEF RestartRows
    <2>6. pass' \in [Pods -> 0 .. Passes]
        BY <2>4 DEF TypeOK, Passes
    <2>7. found' \in [Pods -> SUBSET Jobs] /\ \A q \in Pods : found'[q] \subseteq found[q]
        BY <2>4 DEF TypeOK
    <2>8. TypeOK' /\ RunsSound'
        BY <2>3, <2>5, <2>6, <2>7 DEF TypeOK, RunsSound, registered, podVars
    <2>9. QED
        BY <2>1, <2>3, <2>5, <2>7, <2>8
<1>2. ASSUME NEW i \in found[p], ResetJob(p, i)
      PROVE  /\ TypeOK' /\ RunsSound'
             /\ \A j \in Jobs : j \notin found[p] => row'[j] = row[j]
             /\ \A j \in Jobs : Exists(j)' => Exists(j)
             /\ \A q \in Pods : found'[q] \subseteq found[q]
             /\ UNCHANGED <<sent, returned, podVars, run>>
    <2>1. i \in Jobs
        BY DEF TypeOK
    <2>2. PICK n : n = IF i \in once \/ row[i] = Gone THEN row[i]
                       ELSE [Release(row[i]) EXCEPT !.failures = 0]
        OBVIOUS
    <2>3. row' = [row EXCEPT ![i] = n]
        BY <1>2, <2>2 DEF ResetJob
    <2>4. n \in Row \cup {Gone} /\ (row[i] = Gone => n = Gone)
        <3>1. CASE i \in once \/ row[i] = Gone
            BY <2>1, <2>2, <3>1 DEF TypeOK
        <3>2. CASE ~(i \in once \/ row[i] = Gone)
            <4>1. row[i] \in Row /\ n = [Release(row[i]) EXCEPT !.failures = 0]
                BY <2>1, <2>2, <3>2 DEF TypeOK
            <4>2. Release(row[i]) \in Row
                BY <4>1, ReleaseUpdate
            <4>3. QED
                BY <3>2, <4>1, <4>2, Zeros, FailuresUpdate
        <3>3. QED
            BY <3>1, <3>2
    <2>5. row' \in [Jobs -> Row \cup {Gone}] /\ \A j \in Jobs : Exists(j)' => Exists(j)
        BY <2>1, <2>3, <2>4 DEF TypeOK, Exists
    <2>6. \A j \in Jobs : j \notin found[p] => row'[j] = row[j]
        BY <2>1, <2>3 DEF TypeOK
    <2>7. /\ pass[p] \in {1, 3}
          /\ found' = [found EXCEPT ![p] = found[p] \ {i}]
          /\ pass' = [pass EXCEPT ![p] = pass[p] + 1] \/ pass' = [pass EXCEPT ![p] = pass[p]]
        BY <1>2 DEF ResetJob, NextPass
    <2>8. UNCHANGED <<sent, returned, podVars, run, events>>
        BY <1>2 DEF ResetJob
    <2>9. pass' \in [Pods -> 0 .. Passes]
        BY <2>7 DEF TypeOK, Passes
    <2>10. found' \in [Pods -> SUBSET Jobs] /\ \A q \in Pods : found'[q] \subseteq found[q]
        BY <2>7 DEF TypeOK
    <2>11. TypeOK' /\ RunsSound'
        BY <2>5, <2>8, <2>9, <2>10 DEF TypeOK, RunsSound, registered, podVars
    <2>12. QED
        BY <2>5, <2>6, <2>8, <2>10, <2>11
<1>3. QED
    BY <1>1, <1>2

LEMMA GrowOldEffect ==
    ASSUME TypeOK, RunsSound, UNCHANGED registered, NEW j \in Jobs, GrowOld(j)
    PROVE  /\ TypeOK' /\ RunsSound'
           /\ j \in slow /\ Queued(j)
           /\ row'[j] \in Row /\ row'[j].queued
           /\ \A i \in Jobs \ {j} : row'[i] = row[i]
           /\ UNCHANGED <<sent, returned, podVars, run, maintenanceVars>>
<1>1. j \in slow /\ Queued(j) /\ row[j] \in Row
    BY ExistingRow DEF GrowOld, Queued
<1>2. PICK a \in {"late", "overdue"} : row' = [row EXCEPT ![j].age = a]
    <2>1. \E a \in {"late", "overdue"} : a = IF row[j].age = "fresh" THEN "late" ELSE "overdue"
        OBVIOUS
    <2>2. QED
        BY <2>1 DEF GrowOld
<1>3. PICK n : n = [row[j] EXCEPT !.age = a]
    OBVIOUS
<1>4. n \in Row /\ n.queued
    BY <1>1, <1>3, AgeUpdate DEF Queued
<1>5. row' = [row EXCEPT ![j] = n]
    BY <1>2, <1>3
<1>6. UNCHANGED <<sent, returned, podVars, run, maintenanceVars, events>>
    BY DEF GrowOld
<1>7. TypeOK' /\ RunsSound'
    BY <1>4, <1>5, <1>6 DEF TypeOK, RunsSound, registered, podVars, maintenanceVars
<1>8. row'[j] = n /\ \A i \in Jobs \ {j} : row'[i] = row[i]
    BY <1>5 DEF TypeOK
<1>9. QED
    BY <1>1, <1>4, <1>6, <1>7, <1>8

-----------------------------------------------------------------------------
(* What the steps of timestampHelper() do, in a worker or in a pod: a run   *)
(* goes on; or it is over, and then a pod is done with the row, and a       *)
(* worker has its message yet to be acknowledged; or it is broken off, and  *)
(* the message of a worker is lost or comes back.                           *)
Another(j) ==
    /\ sent'[j] = sent[j] + 1
    /\ \A i \in Jobs \ {j} : sent'[i] = sent[i]

Extra(j) ==
    /\ returned'[j] = returned[j] + 1
    /\ \A i \in Jobs \ {j} : returned'[i] = returned[i]

OnlyRun(r) == \A q \in Runners \ {r} : run'[q] = run[q]

Released == {"retried", "ended"}

GoesOn(r, stage) ==
    /\ run'[r].job = run[r].job /\ run'[r].stage = stage
    /\ OnlyRun(r)
    /\ UNCHANGED <<sent, returned, batch, phase, found>>

Leaves(r) ==
    /\ OnlyRun(r)
    /\ \A p \in Pods : batch'[p] = IF p = r THEN batch[p] \ {run[r].job} ELSE batch[p]
    /\ \A p \in Pods : phase'[p] \in {"init", "create"} => phase'[p] = phase[p]
    /\ UNCHANGED found

Stops(r) ==
    /\ Leaves(r)
    /\ run'[r] = Idle \/ (r \in Workers /\ run'[r].job = run[r].job /\ run'[r].stage = "ended")
    /\ UNCHANGED <<sent, returned>>

BreaksOff(r) ==
    /\ Leaves(r)
    /\ r \in Workers /\ run'[r] = Idle
    /\ Another(run[r].job)
    /\ IF run[r].stage \in Released THEN Extra(run[r].job) ELSE UNCHANGED returned

Ends(r) == Stops(r) \/ BreaksOff(r)

OnlyRow(j) == \A i \in Jobs \ {j} : row'[i] = row[i]

LEMMA Runs == Pods \subseteq Runners /\ Workers \subseteq Runners /\ Pods \cap Workers = {}
BY SchedulerAssumption DEF Runners

(* A run that has a stage has a job.                                        *)
LEMMA Working ==
    ASSUME TypeOK, RunsSound, NEW r \in Runners, run[r].stage # "idle"
    PROVE  run[r] # Idle /\ run[r].job \in Jobs /\ run[r] \in Run /\ run[r].failures \in 0 .. MaxFailures
BY IdleType DEF TypeOK, RunsSound, Run

LEMMA Counting ==
    ASSUME TypeOK, NEW j \in Jobs, Counted(j)
    PROVE  returned' \in [Jobs -> Nat] /\ Extra(j)
<1>1. returned[j] + 1 \in Nat /\ returned' = [returned EXCEPT ![j] = returned[j] + 1]
    BY DEF TypeOK, Counted
<1>2. QED
    BY <1>1 DEF TypeOK, Extra

LEMMA ComingBack ==
    ASSUME TypeOK, NEW j \in Jobs, ComesBack(j)
    PROVE  sent' \in [Jobs -> 0 .. MaxSent] /\ Another(j)
<1>1. sent[j] \in 0 .. MaxSent /\ sent[j] < MaxSent /\ sent' = [sent EXCEPT ![j] = sent[j] + 1]
    BY DEF TypeOK, ComesBack
<1>2. sent[j] + 1 \in 0 .. MaxSent
    BY <1>1, SchedulerAssumption
<1>3. QED
    BY <1>1, <1>2 DEF TypeOK, Another

(* The job of a pod that is done is off its batch.                          *)
LEMMA InlineEnds ==
    ASSUME TypeOK, RunsSound, NEW r \in Pods, run[r].stage # "idle", EndInline(r)
    PROVE  /\ run' = [run EXCEPT ![r] = Idle]
           /\ phase' \in [Pods -> {"dead", "init", "create", "timer", "fetch", "publish", "stopped"}]
           /\ batch' \in [Pods -> SUBSET Jobs]
           /\ pass' \in [Pods -> 0 .. Passes]
           /\ \A p \in Pods : batch'[p] = IF p = r THEN batch[p] \ {run[r].job} ELSE batch[p]
           /\ \A p \in Pods : batch'[p] # {} => phase'[p] = "publish"
           /\ \A p \in Pods : phase'[p] \in {"init", "create"} => phase'[p] = phase[p]
<1>1. Done(r, run[r].job) /\ pass' = [pass EXCEPT ![r] = 0] /\ run' = [run EXCEPT ![r] = Idle]
    BY DEF EndInline
<1>2. PICK j : j = run[r].job
    OBVIOUS
<1>3. j \in batch[r]
    BY <1>2, Working, Runs DEF RunsSound
<1>4. pass' \in [Pods -> 0 .. Passes]
    <2>1. 0 \in 0 .. Passes
        BY DEF Passes
    <2>2. QED
        BY <1>1, <2>1 DEF TypeOK
<1>5. Done(r, j)
    BY <1>1, <1>2
<1>6. /\ phase' \in [Pods -> {"dead", "init", "create", "timer", "fetch", "publish", "stopped"}]
      /\ batch' \in [Pods -> SUBSET Jobs]
      /\ batch'[r] = batch[r] \ {j} /\ \A q \in Pods \ {r} : batch'[q] = batch[q]
      /\ \A q \in Pods : batch'[q] # {} => phase'[q] = "publish"
      /\ \A q \in Pods : phase'[q] \in {"init", "create"} => phase'[q] = phase[q]
    BY <1>3, <1>5, DoneEffect
<1>7. \A p \in Pods : batch'[p] = IF p = r THEN batch[p] \ {run[r].job} ELSE batch[p]
    BY <1>2, <1>6
<1>8. QED
    BY <1>1, <1>4, <1>6, <1>7

(* What a run may become.                                                   *)
LEMMA NewRun ==
    ASSUME TypeOK, RunsSound, NEW r \in Runners, run[r].stage # "idle",
           NEW n \in Run, run' = [run EXCEPT ![r] = n],
           n = Idle \/ (/\ n.job = run[r].job /\ n.stage # "idle"
                        /\ n.stage \in Failed => n.failures < MaxFailures
                        /\ n.stage \in {"retry", "retried"} => run[r].job \in Safe),
           \A p \in Pods : batch'[p] = batch[p] \/ (p = r /\ n = Idle),
           \A p \in Pods : batch'[p] # {} => phase'[p] = "publish",
           \A j \in Inline : sent'[j] = 0
    PROVE  run' \in [Runners -> Run] /\ run'[r] = n /\ OnlyRun(r) /\ RunsSound'
<1>1. run' \in [Runners -> Run] /\ run'[r] = n /\ \A q \in Runners \ {r} : run'[q] = run[q]
    BY DEF TypeOK
<1>2. run[r] # Idle /\ run[r].job \in Jobs
    BY Working
<1>3. \A q \in Runners : /\ run'[q] = Idle \/ (run'[q].job \in Jobs /\ run'[q].stage # "idle")
                         /\ run'[q].stage \in Failed => run'[q].failures < MaxFailures
                         /\ run'[q].stage \in {"retry", "retried"} => run'[q].job \in Safe
    BY <1>1, <1>2, IdleType DEF RunsSound, Failed
<1>4. \A p \in Pods : run'[p] # Idle => run'[p].job \in batch'[p] \cap Inline
    BY <1>1, <1>2, Runs DEF RunsSound
<1>5. \A w \in Workers : run'[w].job \notin Inline
    BY <1>1, Runs, IdleType, JobAssumption DEF RunsSound
<1>6. QED
    BY <1>1, <1>3, <1>4, <1>5 DEF RunsSound, OnlyRun

LEMMA EndEffect ==
    ASSUME TypeOK, RunsSound, NEW r \in Runners, run[r].stage # "idle", End(r), UNCHANGED registered,
           row' \in [Jobs -> Row \cup {Gone}], events' \in 0 .. MaxEvents
    PROVE  TypeOK' /\ RunsSound' /\ Stops(r)
<1>1. UNCHANGED <<sent, returned, paused, term, found>>
    BY DEF End
<1>2. run[r].job \in Jobs
    BY Working
<1>3. CASE r \in Pods
    <2>1. EndInline(r)
        BY <1>3 DEF End
    <2>2. run' \in [Runners -> Run] /\ run'[r] = Idle /\ OnlyRun(r) /\ RunsSound'
        <3>1. /\ run' = [run EXCEPT ![r] = Idle] /\ Idle \in Run
              /\ \A p \in Pods : batch'[p] = batch[p] \/ p = r
              /\ \A p \in Pods : batch'[p] # {} => phase'[p] = "publish"
              /\ \A j \in Inline : sent'[j] = 0
            BY <1>1, <1>3, <2>1, InlineEnds, IdleType DEF RunsSound
        <3>2. QED
            BY <3>1, NewRun
    <2>3. TypeOK'
        BY <1>1, <1>3, <2>1, <2>2, InlineEnds DEF TypeOK, registered
    <2>4. QED
        BY <1>1, <1>3, <2>1, <2>2, <2>3, InlineEnds DEF Stops, Leaves
<1>4. CASE r \notin Pods
    <2>1. PICK n : n = Loaded(run[r].job, "ended")
        OBVIOUS
    <2>2. n \in Run /\ n.stage = "ended" /\ n.job = run[r].job
        BY <1>2, <2>1, LoadUpdate
    <2>3. run' = [run EXCEPT ![r] = n] /\ UNCHANGED <<phase, batch, pass>>
        BY <1>4, <2>1 DEF End, Loaded
    <2>4. run' \in [Runners -> Run] /\ run'[r] = n /\ OnlyRun(r) /\ RunsSound'
        BY <1>1, <2>2, <2>3, NewRun DEF RunsSound, Failed
    <2>5. TypeOK'
        BY <1>1, <2>3, <2>4 DEF TypeOK, registered
    <2>6. QED
        BY <1>1, <1>4, <2>2, <2>3, <2>4, <2>5 DEF Stops, Leaves, Runners
<1>5. QED
    BY <1>3, <1>4

LEMMA BreaksEffect ==
    ASSUME TypeOK, RunsSound, NEW w \in Workers, run[w].stage # "idle", Breaks(w), UNCHANGED registered,
           row' \in [Jobs -> Row \cup {Gone}], events' \in 0 .. MaxEvents
    PROVE  /\ TypeOK' /\ RunsSound' /\ Ends(w)
           /\ run[w].stage \notin Released => UNCHANGED returned
           /\ Leaves(w)
<1> DEFINE j == run[w].job
<1>1. w \in Runners /\ w \notin Pods /\ j \in Jobs /\ j \notin Inline
    BY Runs, Working DEF RunsSound
<1>2. run' = [run EXCEPT ![w] = Idle] /\ UNCHANGED <<podVars, maintenanceVars>>
    BY DEF Breaks
<1>3. \/ UNCHANGED <<sent, returned>>
      \/ /\ ComesBack(j)
         /\ IF run[w].stage \in Released THEN Counted(j) ELSE UNCHANGED returned
    BY DEF Breaks, Released
<1> HIDE DEF j
<1>4. \/ UNCHANGED <<sent, returned>>
      \/ /\ Another(j)
         /\ IF run[w].stage \in Released THEN Extra(j) ELSE UNCHANGED returned
    BY <1>1, <1>3, ComingBack, Counting
<1>5. sent' \in [Jobs -> 0 .. MaxSent] /\ returned' \in [Jobs -> Nat]
    BY <1>1, <1>3, ComingBack, Counting DEF TypeOK
<1>6. \A i \in Inline : sent'[i] = 0
    BY <1>1, <1>4, JobAssumption DEF RunsSound, Another
<1>7. run' \in [Runners -> Run] /\ run'[w] = Idle /\ OnlyRun(w) /\ RunsSound'
    BY <1>1, <1>2, <1>6, IdleType, NewRun DEF RunsSound, podVars
<1>8. TypeOK'
    BY <1>2, <1>5, <1>7 DEF TypeOK, registered, podVars, maintenanceVars
<1>9. Leaves(w)
    BY <1>1, <1>2, <1>7 DEF Leaves, podVars, maintenanceVars
<1>10. Ends(w)
    BY <1>4, <1>7, <1>9 DEF Ends, Stops, BreaksOff, j
<1>11. run[w].stage \notin Released => UNCHANGED returned
    BY <1>3
<1>12. QED
    BY <1>7, <1>8, <1>9, <1>10, <1>11

LEMMA RejectsEffect ==
    ASSUME TypeOK, RunsSound, NEW r \in Runners, run[r].stage # "idle", Rejects(r), UNCHANGED registered,
           row' \in [Jobs -> Row \cup {Gone}], events' \in 0 .. MaxEvents
    PROVE  TypeOK' /\ RunsSound' /\ Ends(r)
<1>1. CASE r \in Pods
    <2>1. EndInline(r) /\ UNCHANGED <<sent, returned, paused, term, found>>
        BY <1>1 DEF Rejects
    <2>2. run' \in [Runners -> Run] /\ run'[r] = Idle /\ OnlyRun(r) /\ RunsSound'
        <3>1. /\ run' = [run EXCEPT ![r] = Idle] /\ Idle \in Run
              /\ \A p \in Pods : batch'[p] = batch[p] \/ p = r
              /\ \A p \in Pods : batch'[p] # {} => phase'[p] = "publish"
              /\ \A j \in Inline : sent'[j] = 0
            BY <1>1, <2>1, InlineEnds, IdleType DEF RunsSound
        <3>2. QED
            BY <3>1, NewRun
    <2>3. TypeOK'
        BY <1>1, <2>1, <2>2, InlineEnds DEF TypeOK, registered
    <2>4. Stops(r)
        BY <1>1, <2>1, <2>2, InlineEnds DEF Stops, Leaves
    <2>5. QED
        BY <2>2, <2>3, <2>4 DEF Ends
<1>2. CASE r \notin Pods
    <2>1. r \in Workers /\ Breaks(r)
        BY <1>2 DEF Rejects, Runners
    <2>2. QED
        BY <2>1, BreaksEffect
<1>3. QED
    BY <1>1, <1>2

LEMMA GoesOnEffect ==
    ASSUME TypeOK, RunsSound, NEW r \in Runners, run[r].stage # "idle",
           NEW n \in Run, run' = [run EXCEPT ![r] = n],
           n.job = run[r].job, n.stage # "idle",
           n.stage \in Failed => n.failures < MaxFailures,
           n.stage \in {"retry", "retried"} => run[r].job \in Safe,
           UNCHANGED <<sent, returned, podVars, maintenanceVars, registered>>,
           row' \in [Jobs -> Row \cup {Gone}], events' \in 0 .. MaxEvents
    PROVE  TypeOK' /\ RunsSound' /\ GoesOn(r, n.stage)
<1>1. run' \in [Runners -> Run] /\ run'[r] = n /\ OnlyRun(r) /\ RunsSound'
    BY NewRun DEF RunsSound, podVars
<1>2. TypeOK'
    BY <1>1 DEF TypeOK, registered, podVars, maintenanceVars
<1>3. GoesOn(r, n.stage)
    BY <1>1 DEF GoesOn, podVars, maintenanceVars
<1>4. QED
    BY <1>1, <1>2, <1>3

(* A row that is written.                                                   *)
LEMMA RowWritten ==
    ASSUME TypeOK, NEW j \in Jobs, NEW n \in Row \cup {Gone}, row' = [row EXCEPT ![j] = n]
    PROVE  row' \in [Jobs -> Row \cup {Gone}] /\ row'[j] = n /\ OnlyRow(j)
BY DEF TypeOK, OnlyRow

LEMMA AcceptJobEffect ==
    ASSUME TypeOK, RunsSound, UNCHANGED registered, NEW r \in Runners, NEW j \in Jobs, j = run[r].job,
           AcceptJob(r)
    PROVE  /\ TypeOK' /\ RunsSound'
           /\ run[r].stage = "loaded" /\ OnlyRow(j)
           /\ \/ /\ Exists(j) /\ GoesOn(r, "running")
                 /\ row'[j] \in Row /\ row'[j].queued = row[j].queued
                 /\ row'[j].accepted /\ row'[j].age = "fresh"
              \/ ~Exists(j) /\ row' = row /\ Ends(r)
<1>1. run[r].stage = "loaded" /\ UNCHANGED events
    BY DEF AcceptJob
<1>2. events' \in 0 .. MaxEvents
    BY <1>1 DEF TypeOK
<1>3. CASE Exists(j)
    <2>1. PICK n : n = [row[j] EXCEPT !.accepted = TRUE, !.age = "fresh"]
        OBVIOUS
    <2>2. row' = [row EXCEPT ![j] = n]
        BY <1>3, <2>1 DEF AcceptJob, UpdateAndGo
    <2>3. /\ n \in Row /\ n.queued = row[j].queued /\ n.accepted /\ n.age = "fresh"
        BY <1>3, <2>1, ExistingRow, AcceptUpdate
    <2>4. PICK m : m = [run[r] EXCEPT !.stage = "running"]
        OBVIOUS
    <2>5. m \in Run /\ m.stage = "running" /\ m.job = run[r].job
        BY <1>1, <2>4, Working, RunUpdate
    <2>6. run' = [run EXCEPT ![r] = m] /\ UNCHANGED <<sent, returned, podVars, maintenanceVars>>
        BY <1>3, <2>4 DEF AcceptJob, UpdateAndGo
    <2>7. row' \in [Jobs -> Row \cup {Gone}] /\ row'[j] = n /\ OnlyRow(j)
        BY <2>2, <2>3, RowWritten
    <2>8. TypeOK' /\ RunsSound' /\ GoesOn(r, m.stage)
        BY <1>1, <1>2, <2>5, <2>6, <2>7, GoesOnEffect DEF Failed
    <2>9. QED
        BY <1>1, <1>3, <2>3, <2>5, <2>7, <2>8
<1>4. CASE ~Exists(j)
    <2>1. Rejects(r) /\ row' = row
        BY <1>4 DEF AcceptJob, UpdateAndGo
    <2>2. row' \in [Jobs -> Row \cup {Gone}] /\ OnlyRow(j)
        BY <2>1 DEF TypeOK, OnlyRow
    <2>3. QED
        BY <1>1, <1>2, <1>4, <2>1, <2>2, RejectsEffect
<1>5. QED
    BY <1>3, <1>4

LEMMA FinishJobEffect ==
    ASSUME TypeOK, RunsSound, UNCHANGED registered, NEW r \in Runners, NEW j \in Jobs, j = run[r].job,
           FinishJob(r)
    PROVE  /\ TypeOK' /\ RunsSound'
           /\ run[r].stage = "running" /\ OnlyRow(j) /\ Stops(r)
           /\ \/ row'[j] = Gone /\ (Exists(j) => j \in once)
              \/ Exists(j) /\ row'[j] \in Row /\ ~row'[j].queued /\ row'[j].age = "fresh"
<1>1. run[r].stage = "running" /\ UNCHANGED events /\ End(r)
    BY DEF FinishJob, TaskOver
<1>2. PICK n : n = IF row[j] = Gone \/ j \in once THEN Gone
                   ELSE [Release(row[j]) EXCEPT !.failures = 0]
    OBVIOUS
<1>3. row' = [row EXCEPT ![j] = n]
    BY <1>2 DEF FinishJob
<1>4. \/ n = Gone /\ (Exists(j) => j \in once)
      \/ Exists(j) /\ n \in Row /\ ~n.queued /\ n.age = "fresh"
    <2>1. CASE row[j] = Gone \/ j \in once
        BY <1>2, <2>1 DEF Exists
    <2>2. CASE ~(row[j] = Gone \/ j \in once)
        <3>1. Exists(j) /\ row[j] \in Row /\ n = [Release(row[j]) EXCEPT !.failures = 0]
            BY <1>2, <2>2 DEF Exists, TypeOK
        <3>2. /\ Release(row[j]) \in Row /\ ~Release(row[j]).queued /\ Release(row[j]).age = "fresh"
            BY <3>1, ReleaseUpdate
        <3>3. QED
            BY <3>1, <3>2, Zeros, FailuresUpdate
    <2>3. QED
        BY <2>1, <2>2
<1>5. row' \in [Jobs -> Row \cup {Gone}] /\ row'[j] = n /\ OnlyRow(j)
    BY <1>3, <1>4, RowWritten
<1>6. TypeOK' /\ RunsSound' /\ Stops(r)
    BY <1>1, <1>5, EndEffect DEF TypeOK
<1>7. QED
    BY <1>1, <1>4, <1>5, <1>6

LEMMA FailJobEffect ==
    ASSUME TypeOK, RunsSound, UNCHANGED registered, NEW r \in Runners, NEW j \in Jobs, j = run[r].job,
           FailJob(r)
    PROVE  /\ TypeOK' /\ RunsSound' /\ row' = row
           /\ run[r].stage = "running"
           /\ \/ Exists(j) /\ (GoesOn(r, "retry") \/ GoesOn(r, "count"))
              \/ ~Exists(j) /\ Stops(r)
<1>1. run[r].stage = "running" /\ UNCHANGED row
    BY DEF FailJob, TaskOver
<1>2. events' \in 0 .. MaxEvents /\ row' \in [Jobs -> Row \cup {Gone}]
    BY EventTypes DEF TypeOK, FailJob
<1>3. CASE Exists(j)
    <2>1. row[j] \in Row /\ row[j].failures < MaxFailures /\ row[j].failures \in 0 .. MaxFailures
        BY <1>3, ExistingRow DEF FailJob, Row
    <2>2. PICK s \in {"retry", "count"} :
              s = IF row[j].failures < MaxRestarts /\ j \in Safe THEN "retry" ELSE "count"
        OBVIOUS
    <2>3. PICK f : f = row[j].failures
        OBVIOUS
    <2>4. PICK n : n = FailureRead(run[r], f, s)
        OBVIOUS
    <2>5. n \in Run /\ n.stage = s /\ n.job = run[r].job /\ n.failures = f
        BY <1>1, <2>1, <2>2, <2>3, <2>4, Working, FailUpdate
    <2>6. run' = [run EXCEPT ![r] = n] /\ UNCHANGED <<sent, returned, podVars, maintenanceVars>>
        BY <1>3, <2>2, <2>3, <2>4 DEF FailJob, FailureRead
    <2>7. n.stage = "retry" => j \in Safe
        BY <2>2, <2>5
    <2>8. TypeOK' /\ RunsSound' /\ GoesOn(r, n.stage)
        BY <1>1, <1>2, <2>1, <2>2, <2>3, <2>5, <2>6, <2>7, GoesOnEffect
    <2>9. QED
        BY <1>1, <1>3, <2>2, <2>5, <2>8
<1>4. CASE ~Exists(j)
    <2>1. End(r)
        BY <1>4 DEF FailJob
    <2>2. QED
        BY <1>1, <1>2, <1>4, <2>1, EndEffect
<1>5. QED
    BY <1>3, <1>4

LEMMA RetryJobEffect ==
    ASSUME TypeOK, RunsSound, UNCHANGED registered, NEW r \in Runners, NEW j \in Jobs, j = run[r].job,
           RetryJob(r)
    PROVE  /\ TypeOK' /\ RunsSound'
           /\ run[r].stage = "retry" /\ j \in Safe /\ OnlyRow(j)
           /\ \/ /\ Exists(j) /\ GoesOn(r, "retried")
                 /\ row'[j] \in Row /\ ~row'[j].queued /\ row'[j].age = "fresh"
              \/ ~Exists(j) /\ row' = row /\ Ends(r)
<1>1. run[r].stage = "retry" /\ UNCHANGED events
    BY DEF RetryJob
<1>2. events' \in 0 .. MaxEvents
    BY <1>1 DEF TypeOK
<1>3. j \in Safe /\ run[r].failures < MaxFailures /\ run[r].failures \in 0 .. MaxFailures
    BY <1>1, Working DEF RunsSound, Failed
<1>4. CASE Exists(j)
    <2>1. run[r].failures + 1 \in 0 .. MaxFailures
        BY <1>3, SchedulerAssumption
    <2>2. PICK n : n = [Release(row[j]) EXCEPT !.failures = run[r].failures + 1]
        OBVIOUS
    <2>3. row' = [row EXCEPT ![j] = n]
        BY <1>4, <2>2 DEF RetryJob, UpdateAndGo
    <2>4. /\ Release(row[j]) \in Row /\ ~Release(row[j]).queued /\ Release(row[j]).age = "fresh"
        BY <1>4, ExistingRow, ReleaseUpdate
    <2>5. n \in Row /\ ~n.queued /\ n.age = "fresh"
        BY <2>1, <2>2, <2>4, FailuresUpdate
    <2>6. PICK m : m = [run[r] EXCEPT !.stage = "retried"]
        OBVIOUS
    <2>7. m \in Run /\ m.stage = "retried" /\ m.job = run[r].job /\ m.failures = run[r].failures
        BY <1>1, <2>6, Working, RunUpdate
    <2>8. run' = [run EXCEPT ![r] = m] /\ UNCHANGED <<sent, returned, podVars, maintenanceVars>>
        BY <1>4, <2>6 DEF RetryJob, UpdateAndGo
    <2>9. row' \in [Jobs -> Row \cup {Gone}] /\ row'[j] = n /\ OnlyRow(j)
        BY <2>3, <2>5, RowWritten
    <2>10. TypeOK' /\ RunsSound' /\ GoesOn(r, m.stage)
        BY <1>1, <1>2, <1>3, <2>7, <2>8, <2>9, GoesOnEffect
    <2>11. QED
        BY <1>1, <1>3, <1>4, <2>5, <2>7, <2>9, <2>10
<1>5. CASE ~Exists(j)
    <2>1. Rejects(r) /\ row' = row
        BY <1>5 DEF RetryJob, UpdateAndGo
    <2>2. row' \in [Jobs -> Row \cup {Gone}] /\ OnlyRow(j)
        BY <2>1 DEF TypeOK, OnlyRow
    <2>3. QED
        BY <1>1, <1>2, <1>3, <1>5, <2>1, <2>2, RejectsEffect
<1>6. QED
    BY <1>4, <1>5

(* The ways in which a run ends that do not release its row.                *)
RunEnds(r) ==
    \/ CountFailure(r) \/ EndUntracked(r) \/ StatementFails(r)
    \/ r \in Workers /\ (Acknowledge(r) \/ WorkerDies(r))

LEMMA AcknowledgeEffect ==
    ASSUME TypeOK, RunsSound, UNCHANGED registered, NEW w \in Workers, Acknowledge(w)
    PROVE  TypeOK' /\ RunsSound' /\ Stops(w)
<1>1. run[w].stage = "ended" /\ w \in Runners /\ w \notin Pods
    BY Runs DEF Acknowledge
<1>2. run' = [run EXCEPT ![w] = Idle] /\ UNCHANGED <<row, sent, returned, podVars, maintenanceVars, events>>
    BY DEF Acknowledge
<1>3. run' \in [Runners -> Run] /\ run'[w] = Idle /\ OnlyRun(w) /\ RunsSound'
    <2>1. /\ Idle \in Run
          /\ \A p \in Pods : batch'[p] = batch[p]
          /\ \A p \in Pods : batch'[p] # {} => phase'[p] = "publish"
          /\ \A j \in Inline : sent'[j] = 0
        BY <1>2, IdleType DEF RunsSound, podVars
    <2>2. QED
        BY <1>1, <1>2, <2>1, NewRun
<1>4. TypeOK'
    BY <1>2, <1>3 DEF TypeOK, registered, podVars, maintenanceVars
<1>5. QED
    BY <1>1, <1>2, <1>3, <1>4 DEF Stops, Leaves, podVars, maintenanceVars

LEMMA RunEndsEffect ==
    ASSUME TypeOK, RunsSound, UNCHANGED registered, NEW r \in Runners, NEW j \in Jobs, j = run[r].job,
           RunEnds(r)
    PROVE  /\ TypeOK' /\ RunsSound' /\ Ends(r) /\ OnlyRow(j)
           /\ run[r].stage # "idle"
           /\ row' = row \/ Stops(r)
           /\ \/ ~Exists(j) /\ row'[j] = Gone
              \/ /\ Exists(j) /\ row'[j] \in Row /\ row'[j].queued = row[j].queued
                 /\ row'[j].accepted = row[j].accepted /\ row'[j].age = row[j].age
<1>1. ASSUME row' = row
      PROVE  /\ OnlyRow(j) /\ row' \in [Jobs -> Row \cup {Gone}]
             /\ \/ ~Exists(j) /\ row'[j] = Gone
                \/ /\ Exists(j) /\ row'[j] \in Row /\ row'[j].queued = row[j].queued
                   /\ row'[j].accepted = row[j].accepted /\ row'[j].age = row[j].age
    BY <1>1 DEF TypeOK, OnlyRow, Exists
<1>2. ASSUME CountFailure(r), Exists(j)
      PROVE  /\ TypeOK' /\ RunsSound' /\ Stops(r) /\ OnlyRow(j)
             /\ run[r].stage # "idle"
             /\ row'[j] \in Row /\ row'[j].queued = row[j].queued
             /\ row'[j].accepted = row[j].accepted /\ row'[j].age = row[j].age
    <2>1. run[r].stage # "idle" /\ End(r) /\ UNCHANGED events
        BY <1>2 DEF CountFailure
    <2>2. run[r].failures + 1 \in 0 .. MaxFailures
        <3>1. run[r].failures < MaxFailures /\ run[r].failures \in 0 .. MaxFailures
            BY <1>2, <2>1, Working DEF CountFailure, RunsSound, Failed
        <3>2. QED
            BY <3>1, SchedulerAssumption
    <2>3. PICK f \in 0 .. MaxFailures : f = run[r].failures + 1
        BY <2>2
    <2>4. PICK n : n = [row[j] EXCEPT !.failures = f]
        OBVIOUS
    <2>5. row' = [row EXCEPT ![j] = n]
        BY <1>2, <2>3, <2>4 DEF CountFailure
    <2>6. n \in Row /\ n.queued = row[j].queued /\ n.accepted = row[j].accepted /\ n.age = row[j].age
        BY <1>2, <2>3, <2>4, ExistingRow, FailuresUpdate
    <2>7. row' \in [Jobs -> Row \cup {Gone}] /\ row'[j] = n /\ OnlyRow(j)
        BY <2>5, <2>6, RowWritten
    <2>8. TypeOK' /\ RunsSound' /\ Stops(r)
        BY <2>1, <2>7, EndEffect DEF TypeOK
    <2>9. QED
        BY <2>1, <2>6, <2>7, <2>8
<1>3. ASSUME (CountFailure(r) /\ ~Exists(j)) \/ StatementFails(r)
      PROVE  TypeOK' /\ RunsSound' /\ Ends(r) /\ row' = row /\ run[r].stage # "idle"
    <2>1. Rejects(r) /\ row' = row /\ run[r].stage # "idle"
        BY <1>3 DEF CountFailure, StatementFails
    <2>2. events' \in 0 .. MaxEvents
        BY <1>3, EventTypes DEF CountFailure, StatementFails, TypeOK
    <2>3. QED
        BY <1>1, <2>1, <2>2, RejectsEffect
<1>4. ASSUME EndUntracked(r)
      PROVE  TypeOK' /\ RunsSound' /\ Ends(r) /\ row' = row /\ run[r].stage # "idle"
    <2>1. End(r) /\ row' = row /\ run[r].stage # "idle" /\ events' \in 0 .. MaxEvents
        BY <1>4 DEF EndUntracked, TypeOK
    <2>2. QED
        BY <1>1, <2>1, EndEffect DEF Ends
<1>5. ASSUME r \in Workers, Acknowledge(r)
      PROVE  TypeOK' /\ RunsSound' /\ Ends(r) /\ row' = row /\ run[r].stage # "idle"
    BY <1>5, AcknowledgeEffect DEF Acknowledge, Ends
<1>6. ASSUME r \in Workers, WorkerDies(r)
      PROVE  TypeOK' /\ RunsSound' /\ Ends(r) /\ row' = row /\ run[r].stage # "idle"
    <2>1. Breaks(r) /\ row' = row /\ run[r].stage # "idle"
        BY <1>6, Runs DEF WorkerDies, RunsSound
    <2>2. events' \in 0 .. MaxEvents
        BY <1>6, EventTypes DEF WorkerDies
    <2>3. QED
        BY <1>1, <1>6, <2>1, <2>2, BreaksEffect
<1>7. QED
    BY <1>1, <1>2, <1>3, <1>4, <1>5, <1>6 DEF RunEnds, Ends

(* A message that is delivered again, on top of the run that goes on.       *)
LEMMA RedeliverEffect ==
    ASSUME TypeOK, RunsSound, UNCHANGED registered, NEW w \in Workers, Redeliver(w)
    PROVE  /\ TypeOK' /\ RunsSound'
           /\ run[w].job \in Jobs /\ Another(run[w].job) /\ Extra(run[w].job)
           /\ UNCHANGED <<row, podVars, run, maintenanceVars>>
<1>1. PICK j : j = run[w].job
    OBVIOUS
<1>2. j \in Jobs /\ j \notin Inline
    BY <1>1, Runs DEF Redeliver, RunsSound
<1>3. ComesBack(j) /\ Counted(j) /\ UNCHANGED <<row, podVars, run, maintenanceVars>>
    BY <1>1 DEF Redeliver
<1>4. events' \in 0 .. MaxEvents
    BY EventTypes DEF Redeliver
<1>5. /\ sent' \in [Jobs -> 0 .. MaxSent] /\ Another(j)
      /\ returned' \in [Jobs -> Nat] /\ Extra(j)
    BY <1>2, <1>3, ComingBack, Counting
<1>6. TypeOK'
    BY <1>3, <1>4, <1>5 DEF TypeOK, registered, podVars, maintenanceVars
<1>7. \A i \in Inline : sent'[i] = 0
    BY <1>2, <1>5, JobAssumption DEF RunsSound, Another
<1>8. RunsSound'
    BY <1>3, <1>7 DEF RunsSound, podVars
<1>9. QED
    BY <1>1, <1>2, <1>3, <1>5, <1>6, <1>8

-----------------------------------------------------------------------------
(* What every step is.                                                      *)
PodWrites(p) ==
    \/ CreateCheck(p)
    \/ (\E js \in SUBSET Jobs : FetchAndEnqueueJobs(p, js))
    \/ (\E j \in batch[p] : Publish(p, j) \/ PublishFails(p, j) \/ TakeInline(p, j))
    \/ PodDies(p)
    \/ RestartRows(p) \/ (\E j \in found[p] : ResetJob(p, j))

Helper(r) == AcceptJob(r) \/ FinishJob(r) \/ FailJob(r) \/ RetryJob(r) \/ RunEnds(r)

LEMMA Steps ==
    ASSUME Next
    PROVE  /\ UNCHANGED registered
           /\ \/ \E p \in Pods : PodStep(p) \/ PodWrites(p)
              \/ \E w \in Workers : Redeliver(w) \/ \E j \in Jobs : Take(w, j)
              \/ \E r \in Runners : Helper(r)
              \/ \E j \in Jobs : GrowOld(j)
<1>1. UNCHANGED registered /\ Step
    BY DEF Next
<1>2. \A p \in Pods : RoundStep(p) => PodStep(p) \/ PodWrites(p)
    BY DEF RoundStep, PodStep, PodWrites
<1>3. \A p \in Pods :
          (\/ RoundFails(p) \/ MaintenanceFails(p) \/ PodDies(p)
           \/ (\E j \in batch[p] : PublishFails(p, j))
           \/ (\E j \in found[p] : ResetFails(p, j))
           \/ Terminate(p) \/ \E value \in BOOLEAN : Pause(p, value)) => PodStep(p) \/ PodWrites(p)
    BY DEF PodStep, PodWrites
<1>4. \A r \in Runners : RunStep(r) \/ StatementFails(r) => Helper(r)
    BY DEF RunStep, Helper, RunEnds
<1>5. \A w \in Workers : w \in Runners /\ (Acknowledge(w) \/ WorkerDies(w) => Helper(w))
    BY Runs DEF Helper, RunEnds
<1>6. QED
    BY <1>1, <1>2, <1>3, <1>4, <1>5 DEF Step

(* A runner that takes a step of timestampHelper() has a job.               *)
LEMMA HelperJob ==
    ASSUME TypeOK, RunsSound, NEW r \in Runners, Helper(r)
    PROVE  run[r] # Idle /\ \E j \in Jobs : j = run[r].job
<1>1. run[r].stage # "idle" \/ (r \in Workers /\ WorkerDies(r))
    BY DEF Helper, RunEnds, AcceptJob, FinishJob, TaskOver, FailJob, RetryJob, CountFailure,
           EndUntracked, StatementFails, Acknowledge
<1>2. run[r] # Idle
    BY <1>1, Working DEF WorkerDies
<1>3. QED
    BY <1>2 DEF RunsSound

Sound == TypeOK /\ RunsSound /\ CheckSound

LEMMA HelperStep ==
    ASSUME Sound, UNCHANGED registered, NEW r \in Runners, Helper(r)
    PROVE  TypeOK' /\ RunsSound' /\ Shrinks /\ Settles
<1> USE DEF Sound
<1>0. PICK j \in Jobs : j = run[r].job
    BY HelperJob
<1>1. run[r] # Idle /\ (r \in Pods => j \in batch[r]) /\ (r \in Workers => j \notin Checks)
    BY <1>0, HelperJob, JobAssumption DEF RunsSound
<1>2. /\ TypeOK' /\ RunsSound' /\ OnlyRow(j)
      /\ Ends(r) \/ GoesOn(r, "running") \/ GoesOn(r, "retry") \/ GoesOn(r, "count") \/ GoesOn(r, "retried")
    <2>1. AcceptJob(r) => /\ TypeOK' /\ RunsSound' /\ OnlyRow(j)
                          /\ Ends(r) \/ GoesOn(r, "running")
        BY <1>0, AcceptJobEffect
    <2>2. FinishJob(r) => TypeOK' /\ RunsSound' /\ OnlyRow(j) /\ Ends(r)
        BY <1>0, FinishJobEffect DEF Ends
    <2>3. FailJob(r) => /\ TypeOK' /\ RunsSound' /\ OnlyRow(j)
                        /\ Ends(r) \/ GoesOn(r, "retry") \/ GoesOn(r, "count")
        BY <1>0, FailJobEffect DEF OnlyRow, Ends
    <2>4. RetryJob(r) => /\ TypeOK' /\ RunsSound' /\ OnlyRow(j)
                         /\ Ends(r) \/ GoesOn(r, "retried")
        BY <1>0, RetryJobEffect
    <2>5. RunEnds(r) => TypeOK' /\ RunsSound' /\ OnlyRow(j) /\ Ends(r)
        BY <1>0, RunEndsEffect
    <2>6. QED
        BY <2>1, <2>2, <2>3, <2>4, <2>5 DEF Helper
<1>3. /\ \A p \in Pods : batch'[p] \subseteq batch[p]
      /\ \A p \in Pods, c \in Checks : c \in found'[p] => c \in found[p]
      /\ \A p \in Pods : phase'[p] \in {"init", "create"} => phase'[p] = phase[p]
    BY <1>2 DEF Ends, Stops, BreaksOff, Leaves, GoesOn
<1>4. Exists(j)' => Exists(j)
    <2>1. AcceptJob(r) => (Exists(j)' => Exists(j))
        BY <1>0, AcceptJobEffect DEF Exists
    <2>2. FinishJob(r) => (Exists(j)' => Exists(j))
        BY <1>0, FinishJobEffect DEF Exists
    <2>3. FailJob(r) => (Exists(j)' => Exists(j))
        BY <1>0, FailJobEffect DEF Exists
    <2>4. RetryJob(r) => (Exists(j)' => Exists(j))
        BY <1>0, RetryJobEffect DEF Exists
    <2>5. RunEnds(r) => (Exists(j)' => Exists(j))
        BY <1>0, RunEndsEffect DEF Exists
    <2>6. QED
        BY <2>1, <2>2, <2>3, <2>4, <2>5 DEF Helper
<1>5. \A c \in Checks : Exists(c)' => Exists(c)
    BY <1>2, <1>4, JobAssumption DEF OnlyRow, Exists
<1>6. j \in Checks => (Queued(j) => Queued(j)') \/ FinishJob(r)
    <2>1. AcceptJob(r) => (Queued(j) => Queued(j)')
        BY <1>0, AcceptJobEffect, GoneAssumption DEF Exists, Queued
    <2>2. FailJob(r) => (Queued(j) => Queued(j)')
        BY <1>0, FailJobEffect DEF Exists, Queued
    <2>3. RetryJob(r) => j \notin Checks
        BY <1>0, RetryJobEffect, JobAssumption
    <2>4. RunEnds(r) => (Queued(j) => Queued(j)')
        BY <1>0, RunEndsEffect, GoneAssumption DEF Exists, Queued
    <2>5. QED
        BY <2>1, <2>2, <2>3, <2>4 DEF Helper
<1>7. FinishJob(r) /\ j \in Checks => \A p \in Pods : j \notin batch'[p]
    <2> SUFFICES ASSUME FinishJob(r), j \in Checks, NEW p \in Pods, j \in batch'[p]
                 PROVE  FALSE
        OBVIOUS
    <2>1. Stops(r)
        BY <1>0, FinishJobEffect
    <2>2. r \in Pods /\ j \in batch[r] /\ j \in batch[p]
        BY <1>1, <1>3 DEF Runners
    <2>3. p = r
        BY <2>2 DEF CheckSound
    <2>4. QED
        BY <1>0, <2>1, <2>3 DEF Stops, Leaves
<1>8. \A c \in Checks \ {j} : Queued(c)' = Queued(c)
    BY <1>2, JobAssumption DEF OnlyRow, Queued, Exists
<1>9. \A p \in Pods, c \in Checks : c \in batch'[p] /\ Queued(c) => Queued(c)'
    BY <1>6, <1>7, <1>8
<1>10. QED
    BY <1>2, <1>3, <1>5, <1>9 DEF Shrinks, Settles

LEMMA StepEffect ==
    ASSUME Sound, Next
    PROVE  /\ TypeOK' /\ RunsSound'
           /\ Shrinks \/ \E p \in Pods, js \in SUBSET Jobs : FetchAndEnqueueJobs(p, js)
           /\ Settles \/ \E p \in Pods : Start(p) \/ FindCheck(p) \/ CreateCheck(p)
<1> USE DEF Sound
<1>0. UNCHANGED registered
    BY Steps
<1>c. Checks \subseteq Jobs
    BY JobAssumption
<1>1. ASSUME NEW p \in Pods, PodStep(p)
      PROVE  TypeOK' /\ RunsSound' /\ Shrinks /\ (Settles \/ Start(p) \/ FindCheck(p))
    <2>1. UNCHANGED <<row, batch>>
        BY <1>1, PodStepPhases
    <2>2. Shrinks
        BY <1>1, <1>c, <2>1, PodStepFinds DEF Shrinks, Queued, Exists
    <2>3. Settles \/ Start(p) \/ FindCheck(p)
        BY <1>1, <2>1, PodStepPhases DEF Settles, Exists
    <2>4. QED
        BY <1>0, <1>1, <2>2, <2>3, PodStepTypes
<1>2. ASSUME NEW p \in Pods, CreateCheck(p)
      PROVE  TypeOK' /\ RunsSound' /\ Shrinks
    BY <1>0, <1>2, <1>c, CreateCheckEffect DEF Shrinks, Queued, Exists
<1>3. ASSUME NEW p \in Pods, NEW js \in SUBSET Jobs, FetchAndEnqueueJobs(p, js)
      PROVE  TypeOK' /\ RunsSound' /\ Settles
    <2>1. \A c \in Checks : Exists(c)' => Exists(c)
        BY <1>0, <1>3, <1>c, FetchEffect DEF Dormant, Exists
    <2>2. QED
        BY <1>0, <1>3, <2>1, FetchEffect DEF Settles
<1>4. ASSUME NEW p \in Pods, NEW j \in batch[p], Publish(p, j) \/ PublishFails(p, j)
      PROVE  TypeOK' /\ RunsSound' /\ Shrinks /\ Settles
    <2>1. \A q \in Pods : batch'[q] \subseteq batch[q]
        BY <1>0, <1>4, PublishEffect
    <2>2. QED
        BY <1>0, <1>4, <2>1, PublishEffect DEF Shrinks, Settles, Queued, Exists
<1>5. ASSUME NEW p \in Pods, NEW j \in batch[p], TakeInline(p, j)
      PROVE  TypeOK' /\ RunsSound' /\ Shrinks /\ Settles
    BY <1>0, <1>5, TakeInlineEffect DEF Shrinks, Settles, Queued, Exists, podVars, maintenanceVars
<1>6. ASSUME NEW p \in Pods, PodDies(p)
      PROVE  TypeOK' /\ RunsSound' /\ Shrinks /\ Settles
    BY <1>0, <1>6, PodDiesEffect DEF Shrinks, Settles, Queued, Exists
<1>7. ASSUME NEW p \in Pods, RestartRows(p) \/ (\E j \in found[p] : ResetJob(p, j))
      PROVE  TypeOK' /\ RunsSound' /\ Shrinks /\ Settles
    <2>1. \A c \in Checks : row'[c] = row[c]
        BY <1>0, <1>7, <1>c, RestartEffect DEF CheckSound
    <2>2. \A q \in Pods : found'[q] \subseteq found[q]
        BY <1>0, <1>7, RestartEffect
    <2>3. TypeOK' /\ RunsSound' /\ UNCHANGED podVars
        BY <1>0, <1>7, RestartEffect
    <2>4. QED
        BY <2>1, <2>2, <2>3 DEF Shrinks, Settles, Queued, Exists, podVars
<1>8. ASSUME NEW w \in Workers, NEW j \in Jobs, Take(w, j)
      PROVE  TypeOK' /\ RunsSound' /\ Shrinks /\ Settles
    BY <1>0, <1>8, TakeEffect DEF Shrinks, Settles, Queued, Exists, podVars, maintenanceVars
<1>9. ASSUME NEW w \in Workers, Redeliver(w)
      PROVE  TypeOK' /\ RunsSound' /\ Shrinks /\ Settles
    BY <1>0, <1>9, RedeliverEffect DEF Shrinks, Settles, Queued, Exists, podVars, maintenanceVars
<1>10. ASSUME NEW j \in Jobs, GrowOld(j)
       PROVE  TypeOK' /\ RunsSound' /\ Shrinks /\ Settles
    <2>1. \A c \in Checks : Queued(c) => Queued(c)'
        BY <1>0, <1>10, <1>c, GrowOldEffect, GoneAssumption DEF Queued, Exists
    <2>2. \A c \in Checks : Exists(c)' => Exists(c)
        BY <1>0, <1>10, <1>c, GrowOldEffect DEF Queued, Exists
    <2>3. QED
        BY <1>0, <1>10, <2>1, <2>2, GrowOldEffect DEF Shrinks, Settles, podVars, maintenanceVars
<1>11. QED
    BY <1>0, <1>1, <1>2, <1>3, <1>4, <1>5, <1>6, <1>7, <1>8, <1>9, <1>10, Steps, HelperStep DEF PodWrites

LEMMA StepSound ==
    ASSUME Sound, [Next]_vars
    PROVE  Sound'
<1> USE DEF Sound
<1>1. CASE UNCHANGED vars
    BY <1>1 DEF vars, podVars, maintenanceVars, registered, TypeOK, RunsSound, CheckSound, Queued, Exists
<1>2. CASE Next
    <2>1. ASSUME NEW p \in Pods, NEW js \in SUBSET Jobs, FetchAndEnqueueJobs(p, js)
          PROVE  CheckSound'
        <3>1. UNCHANGED registered /\ Checks \subseteq Jobs
            BY <1>2, Steps, JobAssumption
        <3>2. ASSUME NEW c \in Checks, c \in js
              PROVE  Queued(c)' /\ \A q \in Pods : c \notin batch[q]
            <4>1. Dormant(c) /\ row'[c] \in Row /\ row'[c].queued
                BY <2>1, <3>1, <3>2, FetchEffect
            <4>2. QED
                BY <4>1, GoneAssumption DEF CheckSound, Dormant, Queued, Exists
        <3>3. ASSUME NEW c \in Checks, c \notin js
              PROVE  Queued(c)' = Queued(c) /\ c \notin batch'[p]
            BY <2>1, <3>1, <3>3, FetchEffect DEF Queued, Exists
        <3>4. found' = found /\ batch'[p] = js /\ \A q \in Pods \ {p} : batch'[q] = batch[q]
            BY <2>1, <3>1, FetchEffect
        <3>5. QED
            BY <3>2, <3>3, <3>4 DEF CheckSound
    <2>2. QED
        BY <1>2, <2>1, StepEffect, ShrinksCheck
<1>3. QED
    BY <1>1, <1>2

LEMMA InitSound == Init => Sound
<1> SUFFICES ASSUME Init PROVE Sound
    OBVIOUS
<1>1. TypeOK
    <2>1. row \in [Jobs -> Row \cup {Gone}] /\ run \in [Runners -> Run]
        BY NewRowType, IdleType DEF Init
    <2>2. QED
        BY <2>1, Zeros DEF Init, TypeOK, Passes
<1>2. /\ \A r \in Runners : run[r] = Idle
      /\ \A p \in Pods : batch[p] = {} /\ found[p] = {}
      /\ \A j \in Jobs : sent[j] = 0
    BY DEF Init
<1>3. RunsSound /\ CheckSound
    BY <1>2, Runs, IdleType, JobAssumption DEF RunsSound, CheckSound, Failed
<1>4. QED
    BY <1>1, <1>3 DEF Sound

LEMMA AlwaysSound == SafeSpec => []Sound
BY InitSound, StepSound, PTL DEF SafeSpec

(* The state always has its type, whatever fails, and however late jobs     *)
(* are.                                                                     *)
THEOREM PrismaTypes == SafeSpec => []TypeOK
<1>1. Sound => TypeOK
    BY DEF Sound
<1>2. QED
    BY <1>1, AlwaysSound, PTL

LEMMA StepOneCheck ==
    ASSUME ~Together, Sound, OneCheck, [Next]_vars
    PROVE  OneCheck'
<1>1. CASE UNCHANGED vars
    BY <1>1 DEF vars, podVars, OneCheck, Exists
<1>2. CASE Next
    <2>1. UNCHANGED registered /\ Checks \subseteq Jobs
        BY <1>2, Steps, JobAssumption
    <2>2. ASSUME NEW p \in Pods, Start(p)
          PROVE  OneCheck'
        <3>1. row' = row /\ phase' = [phase EXCEPT ![p] = "init"]
              /\ \A q \in Pods : phase[q] \notin {"init", "create"}
            BY <2>2 DEF Start, Go
        <3>2. QED
            BY <3>1 DEF Sound, TypeOK, OneCheck, Exists
    <2>3. ASSUME NEW p \in Pods, FindCheck(p)
          PROVE  OneCheck'
        <3>1. PICK ph : ph = IF \E c \in Checks : Exists(c) THEN Begin(p) ELSE "create"
            OBVIOUS
        <3>2. row' = row /\ phase[p] = "init" /\ phase' = [phase EXCEPT ![p] = ph]
            BY <2>3, <3>1 DEF FindCheck, Go
        <3>3. ph \in {"init", "create"} => \A c \in Checks : ~Exists(c)
            BY <3>1, Begins
        <3>4. QED
            BY <3>2, <3>3 DEF Sound, TypeOK, OneCheck, Exists
    <2>4. ASSUME NEW p \in Pods, CreateCheck(p)
          PROVE  OneCheck'
        <3>1. /\ phase[p] = "create"
              /\ \A q \in Pods : phase'[q] \in {"init", "create"} => phase'[q] = phase[q]
              /\ phase'[p] \notin {"init", "create"}
            BY <2>1, <2>4, CreateCheckEffect DEF Sound
        <3>2. PICK c \in Checks : \A j \in Jobs \ {c} : row'[j] = row[j]
            BY <2>1, <2>4, CreateCheckEffect DEF Sound
        <3>3. \A d \in Checks : Exists(d)' => d = c
            BY <2>1, <3>1, <3>2 DEF OneCheck, Exists
        <3>4. \A q \in Pods : phase'[q] \notin {"init", "create"}
            BY <3>1 DEF OneCheck
        <3>5. QED
            BY <3>3, <3>4 DEF OneCheck
    <2>5. QED
        BY <1>2, <2>2, <2>3, <2>4, StepEffect, SettlesOne
<1>3. QED
    BY <1>1, <1>2

(* Two pods are never in maintenance at once, however late jobs are and     *)
(* whatever fails, when pods start one after the other.                     *)
THEOREM OneMaintains == ASSUME ~Together PROVE SafeSpec => []MaintenanceAlone
<1>1. Init => OneCheck
    BY JobAssumption DEF Init, OneCheck, Exists
<1>2. Sound /\ OneCheck /\ [Next]_vars => OneCheck'
    BY StepOneCheck
<1>3. Sound /\ OneCheck => MaintenanceAlone
    <2> SUFFICES ASSUME Sound, OneCheck, NEW p \in Pods, NEW q \in Pods,
                        InMaintenance(p), InMaintenance(q)
                 PROVE  p = q
        BY DEF MaintenanceAlone
    <2>1. /\ run[p].job \in Checks /\ run[p].job \in batch[p]
          /\ run[q].job \in Checks /\ run[q].job \in batch[q]
        BY Runs, IdleType DEF InMaintenance, Sound, RunsSound
    <2>2. run[p].job = run[q].job
        BY <2>1 DEF Sound, CheckSound, OneCheck, Queued
    <2>3. QED
        BY <2>1, <2>2 DEF Sound, CheckSound
<1>4. QED
    BY <1>1, <1>2, <1>3, AlwaysSound, PTL DEF SafeSpec

-----------------------------------------------------------------------------
(* The tokens of a job: the pods that hold its row, its messages, the       *)
(* workers that have it, and its row when it is not queued.                 *)
Free(j) == IF Queued(j) THEN 0 ELSE 1
Tokens(j) == InFlight(j) + Free(j)

(* Finite sets that lose or gain elements.                                  *)
LEMMA Fewer ==
    ASSUME NEW S, NEW T, IsFiniteSet(S), T \subseteq S
    PROVE  /\ IsFiniteSet(T) /\ Cardinality(S) \in Nat /\ Cardinality(T) \in Nat
           /\ Cardinality(T) <= Cardinality(S)
BY FS_Subset, FS_CardinalityType

LEMMA OneFewer ==
    ASSUME NEW S, NEW T, IsFiniteSet(S), NEW x \in S, T \subseteq S \ {x}
    PROVE  /\ Cardinality(S) \in Nat /\ Cardinality(T) \in Nat
           /\ Cardinality(T) + 1 <= Cardinality(S)
<1>1. IsFiniteSet(S \ {x}) /\ Cardinality(S \ {x}) = Cardinality(S) - 1
    BY FS_RemoveElement
<1>2. Cardinality(S) \in Nat /\ Cardinality(T) \in Nat /\ Cardinality(T) <= Cardinality(S \ {x})
    BY <1>1, Fewer, FS_CardinalityType
<1>3. QED
    BY <1>1, <1>2

LEMMA OneMore ==
    ASSUME NEW S, NEW T, IsFiniteSet(S), NEW x, T \subseteq S \cup {x}
    PROVE  /\ Cardinality(S) \in Nat /\ Cardinality(T) \in Nat
           /\ Cardinality(T) <= Cardinality(S) + 1
<1>0. /\ Cardinality(S) \in Nat /\ IsFiniteSet(S \cup {x})
      /\ Cardinality(S \cup {x}) = IF x \in S THEN Cardinality(S) ELSE Cardinality(S) + 1
    BY FS_AddElement, FS_CardinalityType
<1>1. IsFiniteSet(S \cup {x}) /\ Cardinality(S \cup {x}) <= Cardinality(S) + 1
    BY <1>0
<1>2. Cardinality(S) \in Nat /\ Cardinality(T) \in Nat /\ Cardinality(T) <= Cardinality(S \cup {x})
    BY <1>1, Fewer, FS_CardinalityType
<1>3. QED
    BY <1>1, <1>2, FS_CardinalityType

LEMMA NotEmpty ==
    ASSUME NEW S, IsFiniteSet(S), NEW x \in S
    PROVE  Cardinality(S) \in Nat /\ Cardinality(S) >= 1
<1>1. {} \subseteq S \ {x}
    OBVIOUS
<1>2. QED
    BY <1>1, OneFewer, FS_EmptySet

LEMMA NotTwo ==
    ASSUME NEW S, IsFiniteSet(S), Cardinality(S) <= 1, NEW x \in S, NEW y \in S
    PROVE  x = y
<1> SUFFICES ASSUME x # y PROVE FALSE
    OBVIOUS
<1>1. IsFiniteSet(S \ {y}) /\ x \in S \ {y}
    BY FS_Subset
<1>2. Cardinality(S \ {y}) \in Nat /\ Cardinality(S \ {y}) >= 1
    BY <1>1, NotEmpty
<1>3. Cardinality(S) \in Nat /\ Cardinality(S \ {y}) + 1 <= Cardinality(S)
    BY OneFewer
<1>4. QED
    BY <1>2, <1>3

LEMMA Sizes ==
    ASSUME NEW j \in Jobs
    PROVE  /\ IsFiniteSet(Holders(j)) /\ IsFiniteSet(Takers(j))
           /\ IsFiniteSet(Holders(j)') /\ IsFiniteSet(Takers(j)')
           /\ Cardinality(Holders(j)) \in Nat /\ Cardinality(Takers(j)) \in Nat
           /\ Cardinality(Holders(j)') \in Nat /\ Cardinality(Takers(j)') \in Nat
<1>1. /\ Holders(j) \subseteq Pods /\ Holders(j)' \subseteq Pods
      /\ Takers(j) \subseteq Workers /\ Takers(j)' \subseteq Workers
    BY DEF Holders, Takers
<1>2. QED
    BY <1>1, SchedulerAssumption, FS_Subset, FS_CardinalityType

LEMMA Kinds == \A j : Free(j) \in {0, 1} /\ Free(j)' \in {0, 1}
BY DEF Free

LEMMA TokenTypes ==
    ASSUME TypeOK, NEW j \in Jobs
    PROVE  /\ sent[j] \in Nat /\ returned[j] \in Nat /\ InFlight(j) \in Nat
           /\ Tokens(j) \in Nat
<1>1. sent[j] \in Nat /\ returned[j] \in Nat
    BY SchedulerAssumption DEF TypeOK
<1>2. QED
    BY <1>1, Kinds, Sizes DEF InFlight, Tokens

(* A job that is never late, whatever other jobs are: its row is fresh, and *)
(* maintenance leaves it alone.                                             *)
Quiet(j) ==
    /\ Exists(j) => row[j].age = "fresh"
    /\ \A p \in Pods : j \notin found[p]

Budget(j) == Tokens(j) <= 1 + returned[j]

(* As long as no message of it has been delivered again, a run accepts its  *)
(* row before the task begins.                                              *)
Begun == {"running", "retry", "count"}

Order(j) == \A r \in Runners : run[r].job = j /\ run[r].stage \in Begun => row[j].accepted

JobSound(j) == Quiet(j) /\ Budget(j) /\ (returned[j] = 0 => Order(j))

OnTime == \A j \in Jobs \ slow : JobSound(j)

(* While the budget is one, whoever has the run is alone with it.           *)
LEMMA Alone ==
    ASSUME TypeOK, NEW j \in Jobs, Tokens(j) <= 1
    PROVE  /\ \A x, y \in Holders(j) \cup Takers(j) : x = y
           /\ Holders(j) \cup Takers(j) # {} => Queued(j) /\ sent[j] = 0
<1> DEFINE H == Cardinality(Holders(j))
           T == Cardinality(Takers(j))
<1>1. H + sent[j] + T + Free(j) <= 1 /\ H \in Nat /\ T \in Nat /\ sent[j] \in Nat /\ Free(j) \in {0, 1}
    BY TokenTypes, Kinds, Sizes DEF Tokens, InFlight
<1>2. Holders(j) # {} => H >= 1
    BY Sizes, NotEmpty
<1>3. Takers(j) # {} => T >= 1
    BY Sizes, NotEmpty
<1>4. ~Queued(j) <=> Free(j) = 1
    BY DEF Free
<1>5. H <= 1 => \A x, y \in Holders(j) : x = y
    BY Sizes, NotTwo
<1>6. T <= 1 => \A x, y \in Takers(j) : x = y
    BY Sizes, NotTwo
<1> HIDE DEF H, T
<1>7. Holders(j) # {} => Takers(j) = {} /\ Queued(j) /\ sent[j] = 0
    BY <1>1, <1>2, <1>3, <1>4
<1>8. Takers(j) # {} => Holders(j) = {} /\ Queued(j) /\ sent[j] = 0
    BY <1>1, <1>2, <1>3, <1>4
<1>9. H <= 1 /\ T <= 1
    BY <1>1
<1>10. QED
    BY <1>5, <1>6, <1>7, <1>8, <1>9

(* A runner that has the job is one of its tokens, unless it has released   *)
(* the row.                                                                 *)
LEMMA HasToken ==
    ASSUME RunsSound, NEW j \in Jobs, NEW r \in Runners, run[r].job = j, run[r].stage \notin Released
    PROVE  r \in Holders(j) \cup Takers(j)
<1>1. run[r] # Idle
    BY IdleType, JobAssumption
<1>2. QED
    BY <1>1 DEF RunsSound, Runners, Holders, Takers, Over, Released

(* As long as nothing is delivered again, it is the only one.               *)
LEMMA OnlyToken ==
    ASSUME TypeOK, RunsSound, NEW j \in Jobs, JobSound(j), returned[j] = 0, NEW r \in Runners,
           run[r].job = j, run[r].stage \notin Released
    PROVE  /\ Queued(j)
           /\ \A q \in Runners \ {r} : run[q].job = j => run[q].stage \in Released
<1>1. Tokens(j) <= 1
    BY DEF JobSound, Budget
<1>2. QED
    BY <1>1, Alone, HasToken

LEMMA NoToken ==
    ASSUME TypeOK, RunsSound, NEW j \in Jobs, JobSound(j), returned[j] = 0, ~Queued(j)
    PROVE  \A r \in Runners : run[r].job = j => run[r].stage \in Released
<1>1. Tokens(j) <= 1
    BY DEF JobSound, Budget
<1>2. QED
    BY <1>1, Alone, HasToken

(* What a step does to such a job: its tokens grow only with a message that *)
(* is delivered again.                                                      *)
Spends(j) ==
    /\ Tokens(j)' + returned[j] <= Tokens(j) + returned'[j]
    /\ returned[j] <= returned'[j]

Moves(j) == Quiet(j)' /\ Spends(j) /\ (returned[j] = 0 => Order(j)')

LEMMA KeepsTokens ==
    ASSUME TypeOK, TypeOK', NEW j \in Jobs,
           Holders(j)' \subseteq Holders(j), Takers(j)' \subseteq Takers(j), returned[j] <= returned'[j],
           sent'[j] + Free(j)' + returned[j] <= sent[j] + Free(j) + returned'[j]
    PROVE  Spends(j)
<1>1. /\ Cardinality(Takers(j)') <= Cardinality(Takers(j))
      /\ Cardinality(Holders(j)') <= Cardinality(Holders(j))
    BY Sizes, Fewer
<1>2. sent[j] \in Nat /\ sent'[j] \in Nat /\ returned[j] \in Nat /\ returned'[j] \in Nat
    BY SchedulerAssumption DEF TypeOK
<1>3. QED
    BY <1>1, <1>2, Kinds, Sizes DEF Spends, Tokens, InFlight

LEMMA SpendsToken ==
    ASSUME TypeOK, TypeOK', NEW j \in Jobs, NEW r \in Holders(j) \cup Takers(j),
           Holders(j)' \subseteq Holders(j) \ {r}, Takers(j)' \subseteq Takers(j) \ {r},
           returned'[j] = returned[j], sent'[j] + Free(j)' <= sent[j] + Free(j) + 1
    PROVE  Spends(j)
<1>1. /\ Cardinality(Takers(j)') <= Cardinality(Takers(j))
      /\ Cardinality(Holders(j)') <= Cardinality(Holders(j))
    BY Sizes, Fewer
<1>2. \/ Cardinality(Takers(j)') + 1 <= Cardinality(Takers(j))
      \/ Cardinality(Holders(j)') + 1 <= Cardinality(Holders(j))
    <2>1. CASE r \in Holders(j)
        BY <2>1, Sizes, OneFewer
    <2>2. CASE r \in Takers(j)
        BY <2>2, Sizes, OneFewer
    <2>3. QED
        BY <2>1, <2>2
<1>3. sent[j] \in Nat /\ sent'[j] \in Nat /\ returned[j] \in Nat /\ returned'[j] \in Nat
    BY SchedulerAssumption DEF TypeOK
<1>4. QED
    BY <1>1, <1>2, <1>3, Kinds, Sizes DEF Spends, Tokens, InFlight

LEMMA SameRow ==
    ASSUME NEW j \in Jobs, row'[j] = row[j]
    PROVE  (Exists(j)' <=> Exists(j)) /\ (Queued(j)' <=> Queued(j)) /\ Free(j)' = Free(j)
BY DEF Exists, Queued, Free

(* A step that has nothing to do with the job.                              *)
LEMMA JobStays ==
    ASSUME TypeOK, TypeOK', NEW j \in Jobs, JobSound(j),
           row'[j] = row[j], sent'[j] = sent[j], returned'[j] = returned[j],
           \A p \in Pods : j \in batch'[p] => j \in batch[p],
           \A r \in Runners : run'[r] = run[r] \/ (run[r].job # j /\ run'[r].job # j),
           \A p \in Pods : j \in found'[p] =>
               j \in found[p] \/ (Queued(j) /\ row[j].age # "fresh")
    PROVE  Moves(j)
<1>1. Holders(j)' \subseteq Holders(j) /\ Takers(j)' \subseteq Takers(j)
    BY Runs DEF Holders, Takers, Over
<1>2. Spends(j)
    <2>1. sent[j] \in Nat /\ returned[j] \in Nat
        BY TokenTypes
    <2>2. QED
        BY <1>1, <2>1, SameRow, Kinds, KeepsTokens
<1>3. Quiet(j)'
    BY SameRow DEF JobSound, Quiet, Queued
<1>4. returned[j] = 0 => Order(j)'
    BY DEF JobSound, Order
<1>5. QED
    BY <1>2, <1>3, <1>4 DEF Moves

(* The job in the hands of the pods.                                        *)
LEMMA CreateMoves ==
    ASSUME Sound, TypeOK', UNCHANGED registered, NEW j \in Jobs, JobSound(j),
           NEW p \in Pods, CreateCheck(p)
    PROVE  Moves(j)
<1> USE DEF Sound
<1>1. PICK c \in Checks : /\ ~Exists(c)
                          /\ row'[c] = NewRow
                          /\ \A i \in Jobs \ {c} : row'[i] = row[i]
    BY CreateCheckEffect
<1>2. UNCHANGED <<sent, returned, batch, run, found>>
    BY CreateCheckEffect
<1>3. CASE c # j
    BY <1>1, <1>2, <1>3, JobStays
<1>4. CASE c = j
    <2>1. ~Queued(j) /\ ~Queued(j)' /\ row'[j].age = "fresh"
        BY <1>1, <1>4, NewRowType DEF Queued
    <2>2. Holders(j)' = Holders(j) /\ Takers(j)' = Takers(j)
        BY <1>2 DEF Holders, Takers, Over
    <2>3. Free(j)' = Free(j)
        BY <2>1 DEF Free
    <2>4. Spends(j)
        BY <1>2, <2>2, <2>3, TokenTypes, Kinds, KeepsTokens
    <2>5. Quiet(j)'
        BY <1>2, <2>1 DEF JobSound, Quiet
    <2>6. returned[j] = 0 => Order(j)'
        BY <1>2, <2>1, NoToken DEF Order, Begun, Released
    <2>7. QED
        BY <2>4, <2>5, <2>6 DEF Moves
<1>5. QED
    BY <1>3, <1>4

LEMMA FetchMoves ==
    ASSUME Sound, TypeOK', UNCHANGED registered, NEW j \in Jobs, JobSound(j),
           NEW p \in Pods, NEW js \in SUBSET Jobs, FetchAndEnqueueJobs(p, js)
    PROVE  Moves(j)
<1> USE DEF Sound
<1>1. /\ batch[p] = {} /\ run[p] = Idle
      /\ batch'[p] = js /\ \A q \in Pods \ {p} : batch'[q] = batch[q]
      /\ UNCHANGED <<sent, returned, run, found>>
    BY FetchEffect
<1>2. CASE j \in js
    <2>1. Dormant(j) /\ row'[j] \in Row /\ row'[j].queued /\ row'[j].age = row[j].age
        BY <1>2, FetchEffect
    <2>2. ~Queued(j) /\ Queued(j)' /\ row'[j].age = "fresh"
        BY <2>1, GoneAssumption DEF Dormant, Queued, Exists, JobSound, Quiet
    <2>3. Free(j) = 1 /\ Free(j)' = 0
        BY <2>2 DEF Free
    <2>4. Holders(j)' \subseteq Holders(j) \cup {p} /\ Takers(j)' = Takers(j)
        BY <1>1 DEF Holders, Takers, Over
    <2>5. Cardinality(Holders(j)') <= Cardinality(Holders(j)) + 1
        BY <2>4, Sizes, OneMore
    <2>6. Spends(j)
        BY <1>1, <2>3, <2>4, <2>5, Sizes, TokenTypes DEF Spends, Tokens, InFlight
    <2>7. Quiet(j)'
        BY <1>1, <2>2 DEF JobSound, Quiet
    <2>8. returned[j] = 0 => Order(j)'
        BY <1>1, <2>2, NoToken DEF Order, Begun, Released
    <2>9. QED
        BY <2>6, <2>7, <2>8 DEF Moves
<1>3. CASE j \notin js
    <2>1. row'[j] = row[j]
        BY <1>3, FetchEffect
    <2>2. QED
        BY <1>1, <1>3, <2>1, JobStays
<1>4. QED
    BY <1>2, <1>3

LEMMA PublishMoves ==
    ASSUME Sound, TypeOK', UNCHANGED registered, NEW j \in Jobs, JobSound(j),
           NEW p \in Pods, NEW i \in batch[p], Publish(p, i) \/ PublishFails(p, i)
    PROVE  Moves(j)
<1> USE DEF Sound
<1>1. /\ run[p] = Idle /\ i \in Jobs
      /\ batch'[p] = batch[p] \ {i} /\ \A q \in Pods \ {p} : batch'[q] = batch[q]
      /\ UNCHANGED <<row, returned, run, found>>
      /\ sent'[i] = sent[i] + 1 \/ sent'[i] = sent[i]
      /\ \A h \in Jobs \ {i} : sent'[h] = sent[h]
    BY PublishEffect
<1>2. CASE i # j
    BY <1>1, <1>2, JobStays
<1>3. CASE i = j
    <2>1. p \in Holders(j)
        BY <1>1, <1>3, IdleType, JobAssumption DEF Holders, Over
    <2>2. Holders(j)' \subseteq Holders(j) \ {p} /\ Takers(j)' = Takers(j)
        BY <1>1, <1>3 DEF Holders, Takers, Over
    <2>3. p \notin Takers(j)
        BY Runs DEF Takers
    <2>4. Spends(j)
        <3>1. sent'[j] + Free(j)' <= sent[j] + Free(j) + 1
            BY <1>1, <1>3, SameRow, TokenTypes, Kinds
        <3>2. QED
            BY <1>1, <2>1, <2>2, <2>3, <3>1, SpendsToken
    <2>5. Quiet(j)' /\ (returned[j] = 0 => Order(j)')
        BY <1>1 DEF JobSound, Quiet, Exists, Order
    <2>6. QED
        BY <2>4, <2>5 DEF Moves
<1>4. QED
    BY <1>2, <1>3

LEMMA TakeInlineMoves ==
    ASSUME Sound, TypeOK', UNCHANGED registered, NEW j \in Jobs, JobSound(j),
           NEW p \in Pods, NEW i \in batch[p], TakeInline(p, i)
    PROVE  Moves(j)
<1> USE DEF Sound
<1>1. /\ run[p] = Idle
      /\ run'[p].job = i /\ run'[p].stage \in {"loaded", "untracked"}
      /\ \A r \in Runners \ {p} : run'[r] = run[r]
      /\ UNCHANGED <<row, sent, returned, batch, found>>
    BY TakeInlineEffect DEF podVars, maintenanceVars
<1>2. Holders(j)' \subseteq Holders(j) /\ Takers(j)' \subseteq Takers(j)
    BY <1>1, Runs, IdleType, JobAssumption DEF Holders, Takers, Over
<1>3. Spends(j)
    BY <1>1, <1>2, SameRow, TokenTypes, Kinds, KeepsTokens
<1>4. Quiet(j)' /\ (returned[j] = 0 => Order(j)')
    BY <1>1 DEF JobSound, Quiet, Exists, Order, Begun
<1>5. QED
    BY <1>3, <1>4 DEF Moves

LEMMA PodDiesMoves ==
    ASSUME Sound, TypeOK', UNCHANGED registered, NEW j \in Jobs, JobSound(j),
           NEW p \in Pods, PodDies(p)
    PROVE  Moves(j)
<1> USE DEF Sound
<1>1. /\ UNCHANGED <<row, sent, returned>>
      /\ \A q \in Pods : batch'[q] \subseteq batch[q] /\ found'[q] \subseteq found[q]
      /\ \A r \in Runners \ {p} : run'[r] = run[r]
      /\ batch'[p] = {} /\ run'[p] = Idle
    BY PodDiesEffect
<1>2. Holders(j)' \subseteq Holders(j) /\ Takers(j)' \subseteq Takers(j)
    BY <1>1, Runs DEF Holders, Takers, Over
<1>3. Spends(j)
    BY <1>1, <1>2, SameRow, TokenTypes, Kinds, KeepsTokens
<1>4. Quiet(j)' /\ (returned[j] = 0 => Order(j)')
    BY <1>1, IdleType DEF JobSound, Quiet, Exists, Order, Begun
<1>5. QED
    BY <1>3, <1>4 DEF Moves

LEMMA PodMoves ==
    ASSUME Sound, TypeOK', UNCHANGED registered, NEW j \in Jobs, JobSound(j),
           NEW p \in Pods, PodStep(p) \/ PodWrites(p)
    PROVE  Moves(j)
<1> USE DEF Sound
<1>1. CASE PodStep(p)
    <2>1. UNCHANGED <<row, sent, returned, batch, run>>
        BY <1>1, PodStepPhases
    <2>2. \A q \in Pods : j \in found'[q] => j \in found[q] \/ (Queued(j) /\ row[j].age # "fresh")
        BY <1>1, PodStepFinds
    <2>3. QED
        BY <2>1, <2>2, JobStays
<1>2. CASE RestartRows(p) \/ (\E i \in found[p] : ResetJob(p, i))
    <2>1. row'[j] = row[j] /\ UNCHANGED <<sent, returned, batch, run>>
        BY <1>2, RestartEffect DEF JobSound, Quiet, podVars
    <2>2. \A q \in Pods : j \in found'[q] => j \in found[q]
        BY <1>2, RestartEffect
    <2>3. QED
        BY <2>1, <2>2, JobStays
<1>3. QED
    BY <1>1, <1>2, CreateMoves, FetchMoves, PublishMoves, TakeInlineMoves, PodDiesMoves DEF PodWrites

(* The job in the hands of the workers: taken, and delivered again.         *)
LEMMA TakeMoves ==
    ASSUME Sound, TypeOK', UNCHANGED registered, NEW j \in Jobs, JobSound(j),
           NEW w \in Workers, NEW i \in Jobs, Take(w, i)
    PROVE  Moves(j)
<1> USE DEF Sound
<1>1. /\ run[w] = Idle /\ sent[i] > 0
      /\ sent'[i] = sent[i] - 1 /\ \A h \in Jobs \ {i} : sent'[h] = sent[h]
      /\ run'[w].job = i /\ run'[w].stage \in {"loaded", "untracked"}
      /\ \A r \in Runners \ {w} : run'[r] = run[r]
      /\ UNCHANGED <<row, returned, batch, found>>
    BY TakeEffect DEF podVars, maintenanceVars
<1>2. CASE i # j
    BY <1>1, <1>2, IdleType, JobAssumption, JobStays
<1>3. CASE i = j
    <2>1. Holders(j)' = Holders(j) /\ Takers(j)' \subseteq Takers(j) \cup {w}
        BY <1>1, Runs DEF Holders, Takers, Over
    <2>2. Cardinality(Takers(j)') <= Cardinality(Takers(j)) + 1
        BY <2>1, Sizes, OneMore
    <2>3. Free(j)' = Free(j)
        BY <1>1, SameRow
    <2>4. sent'[j] \in Nat
        BY SchedulerAssumption DEF TypeOK
    <2>5. Spends(j)
        BY <1>1, <1>3, <2>1, <2>2, <2>3, <2>4, Kinds, Sizes, TokenTypes DEF Spends, Tokens, InFlight
    <2>6. Quiet(j)' /\ (returned[j] = 0 => Order(j)')
        BY <1>1 DEF JobSound, Quiet, Exists, Order, Begun
    <2>7. QED
        BY <2>5, <2>6 DEF Moves
<1>4. QED
    BY <1>2, <1>3

LEMMA RedeliverMoves ==
    ASSUME Sound, TypeOK', UNCHANGED registered, NEW j \in Jobs, JobSound(j),
           NEW w \in Workers, Redeliver(w)
    PROVE  Moves(j)
<1> USE DEF Sound
<1>1. PICK i \in Jobs : i = run[w].job
    BY RedeliverEffect
<1>2. /\ Another(i) /\ Extra(i)
      /\ UNCHANGED <<row, batch, run, found>>
    BY <1>1, RedeliverEffect DEF podVars, maintenanceVars
<1>3. CASE i # j
    BY <1>2, <1>3, JobStays DEF Another, Extra
<1>4. CASE i = j
    <2>1. Holders(j)' = Holders(j) /\ Takers(j)' = Takers(j)
        BY <1>2 DEF Holders, Takers, Over
    <2>2. Spends(j)
        BY <1>2, <1>4, <2>1, SameRow, TokenTypes, Kinds, KeepsTokens DEF Another, Extra
    <2>3. Quiet(j)' /\ (returned[j] = 0 => Order(j)')
        BY <1>2 DEF JobSound, Quiet, Exists, Order
    <2>4. QED
        BY <2>2, <2>3 DEF Moves
<1>5. QED
    BY <1>3, <1>4

(* What the steps of timestampHelper() mean to the tokens of its job: one   *)
(* that ends gives its token up, or to the message that comes back; one     *)
(* that had given it up leaves the others alone.                            *)
LEMMA EndSpends ==
    ASSUME TypeOK, RunsSound, TypeOK', NEW j \in Jobs, NEW r \in Runners, run[r].job = j,
           Ends(r), run[r].stage # "idle",
           \/ Free(j)' <= Free(j)
           \/ Stops(r) /\ run[r].stage \notin Released
    PROVE  Spends(j)
<1>1. /\ \A q \in Runners \ {r} : run'[q] = run[q]
      /\ \A p \in Pods : batch'[p] = IF p = r THEN batch[p] \ {j} ELSE batch[p]
      /\ run'[r].job # j \/ (r \in Workers /\ run'[r].stage = "ended")
    BY IdleType, JobAssumption DEF Ends, Stops, BreaksOff, Leaves, OnlyRun
<1>2. Holders(j)' \subseteq Holders(j) \ {r}
    BY <1>1, Runs DEF Holders, Over
<1>3. Takers(j)' \subseteq Takers(j) \ {r}
    BY <1>1, Runs DEF Takers, Over
<1>4. /\ sent[j] \in Nat /\ returned[j] \in Nat
      /\ sent'[j] \in Nat /\ returned'[j] \in Nat
    BY SchedulerAssumption DEF TypeOK
<1>5. CASE run[r].stage \notin Released
    <2>1. r \in Holders(j) \cup Takers(j)
        BY <1>5, HasToken
    <2>2. returned'[j] = returned[j] /\ sent'[j] + Free(j)' <= sent[j] + Free(j) + 1
        <3>1. CASE Stops(r)
            BY <1>4, <3>1, Kinds DEF Stops
        <3>2. CASE ~Stops(r)
            BY <1>4, <1>5, <3>2, Kinds DEF Ends, BreaksOff, Another
        <3>3. QED
            BY <3>1, <3>2
    <2>3. QED
        BY <1>2, <1>3, <2>1, <2>2, SpendsToken
<1>6. CASE run[r].stage \in Released
    <2>1. returned[j] <= returned'[j] /\ sent'[j] + Free(j)' + returned[j] <= sent[j] + Free(j) + returned'[j]
        <3>1. CASE Stops(r)
            BY <1>4, <1>6, <3>1, Kinds DEF Stops
        <3>2. CASE BreaksOff(r)
            BY <1>4, <1>6, <3>2, Kinds DEF BreaksOff, Another, Extra, Stops
        <3>3. QED
            BY <3>1, <3>2 DEF Ends
    <2>2. QED
        BY <1>2, <1>3, <2>1, KeepsTokens
<1>7. QED
    BY <1>5, <1>6

LEMMA GoesOnSpends ==
    ASSUME TypeOK, RunsSound, TypeOK', NEW j \in Jobs, NEW r \in Runners, run[r].job = j,
           NEW s, GoesOn(r, s), run[r].stage \notin Released,
           Free(j)' <= Free(j) \/ s \in Released
    PROVE  Spends(j)
<1>1. /\ \A q \in Runners \ {r} : run'[q] = run[q]
      /\ run'[r].job = j /\ run'[r].stage = s
      /\ UNCHANGED <<sent, returned, batch>>
    BY DEF GoesOn, OnlyRun
<1>2. Holders(j)' \subseteq Holders(j) /\ Takers(j)' \subseteq Takers(j)
    BY <1>1, Runs DEF Holders, Takers, Over, Released
<1>3. CASE Free(j)' <= Free(j)
    BY <1>1, <1>2, <1>3, TokenTypes, Kinds, KeepsTokens
<1>4. CASE s \in Released
    <2>1. Holders(j)' \subseteq Holders(j) \ {r} /\ Takers(j)' \subseteq Takers(j) \ {r}
        BY <1>1, <1>2, <1>4, Runs DEF Holders, Takers, Over, Released
    <2>2. r \in Holders(j) \cup Takers(j)
        BY HasToken
    <2>3. QED
        BY <1>1, <2>1, <2>2, TokenTypes, Kinds, SpendsToken
<1>5. QED
    BY <1>3, <1>4

(* What the row and the runs of a job are after a step of timestampHelper() *)
(* for it.                                                                  *)
LEMMA HelperRow ==
    ASSUME Sound, UNCHANGED registered, NEW j \in Jobs, JobSound(j),
           NEW r \in Runners, run[r].job = j, Helper(r)
    PROVE  /\ Exists(j)' => row'[j].age = "fresh"
           /\ UNCHANGED found
           /\ \A q \in Runners \ {r} : run'[q] = run[q]
           /\ Spends(j)
<1> USE DEF Sound
<1>0. Exists(j) => row[j].age = "fresh"
    BY DEF JobSound, Quiet
<1>f. \A s : Stops(r) \/ Ends(r) \/ GoesOn(r, s) => UNCHANGED found /\ \A q \in Runners \ {r} : run'[q] = run[q]
    BY DEF Stops, Ends, BreaksOff, Leaves, GoesOn, OnlyRun
<1>1. ASSUME AcceptJob(r), Exists(j)
      PROVE  TypeOK' /\ row'[j].age = "fresh" /\ GoesOn(r, "running") /\ Spends(j)
    <2>1. /\ TypeOK' /\ run[r].stage = "loaded" /\ GoesOn(r, "running")
          /\ row'[j] \in Row /\ row'[j].queued = row[j].queued /\ row'[j].age = "fresh"
        BY <1>1, AcceptJobEffect
    <2>2. Free(j)' = Free(j)
        BY <1>1, <2>1, GoneAssumption DEF Free, Queued, Exists
    <2>3. QED
        BY <2>1, <2>2, Kinds, GoesOnSpends DEF Released
<1>2. ASSUME FinishJob(r)
      PROVE  (Exists(j)' => row'[j].age = "fresh") /\ Stops(r) /\ Spends(j)
    <2>1. /\ TypeOK' /\ run[r].stage = "running" /\ Stops(r)
          /\ row'[j] = Gone \/ row'[j].age = "fresh"
        BY <1>2, FinishJobEffect
    <2>2. QED
        BY <2>1, EndSpends DEF Exists, Released, Ends
<1>3. ASSUME FailJob(r)
      PROVE  /\ row' = row /\ Spends(j)
             /\ Stops(r) \/ GoesOn(r, "retry") \/ GoesOn(r, "count")
    <2>1. /\ TypeOK' /\ row' = row /\ run[r].stage = "running"
          /\ Stops(r) \/ GoesOn(r, "retry") \/ GoesOn(r, "count")
        BY <1>3, FailJobEffect
    <2>2. Free(j)' <= Free(j)
        BY <2>1, SameRow, Kinds
    <2>3. QED
        BY <2>1, <2>2, EndSpends, GoesOnSpends DEF Released, Ends
<1>4. ASSUME RetryJob(r), Exists(j)
      PROVE  row'[j].age = "fresh" /\ GoesOn(r, "retried") /\ Spends(j)
    <2>1. TypeOK' /\ run[r].stage = "retry" /\ GoesOn(r, "retried") /\ row'[j].age = "fresh"
        BY <1>4, RetryJobEffect
    <2>2. QED
        BY <2>1, GoesOnSpends DEF Released
<1>5. ASSUME ~Exists(j), AcceptJob(r) \/ RetryJob(r)
      PROVE  row' = row /\ Ends(r) /\ Spends(j)
    <2>1. TypeOK' /\ row' = row /\ Ends(r) /\ run[r].stage # "idle"
        BY <1>5, AcceptJobEffect, RetryJobEffect
    <2>2. Free(j)' <= Free(j)
        BY <2>1, SameRow, Kinds
    <2>3. QED
        BY <2>1, <2>2, EndSpends
<1>6. ASSUME RunEnds(r)
      PROVE  (Exists(j)' => row'[j].age = "fresh") /\ Ends(r) /\ Spends(j)
    <2>1. /\ TypeOK' /\ Ends(r) /\ run[r].stage # "idle"
          /\ \/ ~Exists(j) /\ row'[j] = Gone
             \/ /\ Exists(j) /\ row'[j] \in Row /\ row'[j].queued = row[j].queued
                /\ row'[j].age = row[j].age
        BY <1>6, RunEndsEffect
    <2>2. Free(j)' <= Free(j)
        BY <2>1, GoneAssumption, Kinds DEF Free, Queued, Exists
    <2>3. QED
        BY <1>0, <2>1, <2>2, EndSpends DEF Exists
<1>7. QED
    BY <1>0, <1>f, <1>1, <1>2, <1>3, <1>4, <1>5, <1>6 DEF Helper, Exists

LEMMA HelperOrder ==
    ASSUME Sound, UNCHANGED registered, NEW j \in Jobs, JobSound(j), returned[j] = 0,
           NEW r \in Runners, run[r].job = j, Helper(r)
    PROVE  Order(j)'
<1> USE DEF Sound
<1>0. /\ Order(j)
      /\ \A q \in Runners \ {r} : run'[q] = run[q]
    BY HelperRow DEF JobSound
<1>1. ASSUME run'[r].stage \notin Begun \/ row'[j].accepted,
             row'[j].accepted = row[j].accepted \/ row'[j].accepted
                \/ \A q \in Runners \ {r} : run[q].job = j => run[q].stage \notin Begun
      PROVE  Order(j)'
    BY <1>0, <1>1 DEF Order
<1>2. ASSUME Ends(r)
      PROVE  run'[r].stage \notin Begun
    BY <1>2, IdleType DEF Ends, Stops, BreaksOff, Begun
<1>3. ASSUME row' = row, Ends(r)
      PROVE  Order(j)'
    BY <1>1, <1>2, <1>3
<1>4. ASSUME AcceptJob(r), Exists(j)
      PROVE  Order(j)'
    BY <1>1, <1>4, AcceptJobEffect
<1>5. ASSUME FinishJob(r)
      PROVE  Order(j)'
    <2>1. run[r].stage = "running" /\ Ends(r)
        BY <1>5, FinishJobEffect DEF Ends
    <2>2. \A q \in Runners \ {r} : run[q].job = j => run[q].stage \notin Begun
        BY <2>1, OnlyToken DEF Begun, Released
    <2>3. QED
        BY <1>1, <1>2, <2>1, <2>2
<1>6. ASSUME FailJob(r)
      PROVE  Order(j)'
    <2>1. row' = row /\ run[r].stage = "running" /\ (Ends(r) \/ GoesOn(r, "retry") \/ GoesOn(r, "count"))
        BY <1>6, FailJobEffect DEF Ends
    <2>2. row[j].accepted
        BY <1>0, <2>1 DEF Order, Begun
    <2>3. QED
        BY <1>1, <2>1, <2>2
<1>7. ASSUME RetryJob(r), Exists(j)
      PROVE  Order(j)'
    <2>1. run[r].stage = "retry" /\ GoesOn(r, "retried")
        BY <1>7, RetryJobEffect
    <2>2. \A q \in Runners \ {r} : run[q].job = j => run[q].stage \notin Begun
        BY <2>1, OnlyToken DEF Begun, Released
    <2>3. run'[r].stage \notin Begun
        BY <2>1 DEF GoesOn, Begun
    <2>4. QED
        BY <1>1, <2>2, <2>3
<1>8. ASSUME ~Exists(j), AcceptJob(r) \/ RetryJob(r)
      PROVE  Order(j)'
    BY <1>3, <1>8, AcceptJobEffect, RetryJobEffect
<1>9. ASSUME RunEnds(r)
      PROVE  Order(j)'
    <2>1. /\ Ends(r)
          /\ \/ ~Exists(j) /\ row'[j] = Gone
             \/ row'[j].accepted = row[j].accepted
        BY <1>9, RunEndsEffect
    <2>2. row'[j].accepted = row[j].accepted
        BY <2>1 DEF Exists
    <2>3. QED
        BY <1>1, <1>2, <2>1, <2>2
<1>10. QED
    BY <1>4, <1>5, <1>6, <1>7, <1>8, <1>9 DEF Helper

(* A step of timestampHelper() concerns the job it has.                     *)
LEMMA HelperFrame ==
    ASSUME Sound, UNCHANGED registered, NEW i \in Jobs, NEW r \in Runners, run[r].job = i, Helper(r)
    PROVE  /\ TypeOK' /\ OnlyRow(i) /\ UNCHANGED found
           /\ \A q \in Runners \ {r} : run'[q] = run[q]
           /\ run'[r].job \in {i, NoJob}
           /\ \A p \in Pods : batch'[p] \subseteq batch[p]
           /\ \A h \in Jobs \ {i} : sent'[h] = sent[h] /\ returned'[h] = returned[h]
           /\ \/ UNCHANGED returned
              \/ row' = row /\ Extra(i)
<1> USE DEF Sound
<1>1. /\ TypeOK' /\ OnlyRow(i)
      /\ \/ Ends(r)
         \/ GoesOn(r, "running") \/ GoesOn(r, "retry") \/ GoesOn(r, "count") \/ GoesOn(r, "retried")
      /\ BreaksOff(r) /\ ~Stops(r) => row' = row
    <2>1. AcceptJob(r) => /\ TypeOK' /\ OnlyRow(i)
                          /\ (Ends(r) /\ row' = row) \/ GoesOn(r, "running")
        BY AcceptJobEffect
    <2>2. FinishJob(r) => TypeOK' /\ OnlyRow(i) /\ Stops(r)
        BY FinishJobEffect
    <2>3. FailJob(r) => /\ TypeOK' /\ OnlyRow(i)
                        /\ Stops(r) \/ GoesOn(r, "retry") \/ GoesOn(r, "count")
        BY FailJobEffect DEF OnlyRow
    <2>4. RetryJob(r) => /\ TypeOK' /\ OnlyRow(i)
                         /\ (Ends(r) /\ row' = row) \/ GoesOn(r, "retried")
        BY RetryJobEffect
    <2>5. RunEnds(r) => TypeOK' /\ OnlyRow(i) /\ Ends(r) /\ (row' = row \/ Stops(r))
        BY RunEndsEffect
    <2>6. \A s : GoesOn(r, s) /\ s \in {"running", "retry", "count", "retried"} => ~BreaksOff(r)
        BY IdleType DEF GoesOn, BreaksOff
    <2>7. QED
        BY <2>1, <2>2, <2>3, <2>4, <2>5, <2>6 DEF Helper, Ends
<1>2. CASE BreaksOff(r) /\ ~Stops(r)
    BY <1>1, <1>2, IdleType DEF BreaksOff, Leaves, OnlyRun, Another, Extra
<1>3. CASE Stops(r)
    BY <1>1, <1>3, IdleType DEF Stops, Leaves, OnlyRun
<1>4. CASE GoesOn(r, "running") \/ GoesOn(r, "retry") \/ GoesOn(r, "count") \/ GoesOn(r, "retried")
    BY <1>1, <1>4 DEF GoesOn, OnlyRun
<1>5. QED
    BY <1>1, <1>2, <1>3, <1>4 DEF Ends

LEMMA HelperMoves ==
    ASSUME Sound, TypeOK', UNCHANGED registered, NEW j \in Jobs, JobSound(j),
           NEW r \in Runners, Helper(r)
    PROVE  Moves(j)
<1>0. PICK i \in Jobs : i = run[r].job
    BY HelperJob DEF Sound
<1>1. CASE i # j
    <2>1. row'[j] = row[j] /\ run'[r].job # j
        BY <1>0, <1>1, HelperFrame, JobAssumption DEF OnlyRow
    <2>2. QED
        BY <1>0, <1>1, <2>1, HelperFrame, JobStays DEF Sound
<1>2. CASE i = j
    <2>1. Quiet(j)' /\ Spends(j)
        BY <1>0, <1>2, HelperRow DEF JobSound, Quiet
    <2>2. returned[j] = 0 => Order(j)'
        BY <1>0, <1>2, HelperOrder
    <2>3. QED
        BY <2>1, <2>2 DEF Moves
<1>3. QED
    BY <1>1, <1>2

LEMMA StepMoves ==
    ASSUME Sound, Sound', OnTime, NEW j \in Jobs \ slow, [Next]_vars
    PROVE  Moves(j)
<1> USE DEF Sound
<1>0. JobSound(j)
    BY DEF OnTime
<1>1. CASE UNCHANGED vars
    BY <1>0, <1>1, JobStays DEF vars, podVars, maintenanceVars
<1>2. CASE Next
    <2>1. UNCHANGED registered
        BY <1>2, Steps
    <2>2. ASSUME NEW i \in Jobs, GrowOld(i)
          PROVE  Moves(j)
        BY <1>0, <2>1, <2>2, GrowOldEffect, JobStays DEF podVars, maintenanceVars
    <2>3. QED
        BY <1>0, <1>2, <2>1, <2>2, Steps, PodMoves, TakeMoves, RedeliverMoves, HelperMoves
<1>3. QED
    BY <1>1, <1>2

LEMMA StepOnTime ==
    ASSUME Sound, Sound', OnTime, [Next]_vars
    PROVE  OnTime'
<1>1. slow' = slow
    BY Steps DEF vars, registered
<1>2. ASSUME NEW j \in Jobs \ slow
      PROVE  JobSound(j)'
    <2>1. JobSound(j) /\ Moves(j)
        BY StepMoves DEF OnTime
    <2>2. /\ Tokens(j) \in Nat /\ returned[j] \in Nat /\ returned'[j] \in Nat /\ sent'[j] \in Nat
        BY TokenTypes, SchedulerAssumption DEF Sound, TypeOK
    <2>3. Tokens(j)' \in Nat
        BY <2>2, Kinds, Sizes DEF Tokens, InFlight
    <2>4. QED
        BY <2>1, <2>2, <2>3 DEF JobSound, Budget, Moves, Spends
<1>3. QED
    BY <1>1, <1>2 DEF OnTime

LEMMA InitOnTime == Init => OnTime
<1> SUFFICES ASSUME Init, NEW j \in Jobs
             PROVE  JobSound(j)
    BY DEF OnTime
<1>1. /\ \A r \in Runners : run[r] = Idle
      /\ \A p \in Pods : batch[p] = {} /\ found[p] = {}
      /\ sent[j] = 0 /\ returned[j] = 0
      /\ Exists(j) => row[j].age = "fresh"
    BY NewRowType DEF Init, Exists
<1>2. Holders(j) = {} /\ Takers(j) = {}
    BY <1>1, Runs, IdleType, JobAssumption DEF Holders, Takers
<1>3. Tokens(j) <= 1
    BY <1>1, <1>2, Kinds, FS_EmptySet DEF Tokens, InFlight
<1>4. Order(j)
    BY <1>1, IdleType DEF Order, Begun
<1>5. QED
    BY <1>1, <1>3, <1>4 DEF JobSound, Quiet, Budget

LEMMA AlwaysOnTime == SafeSpec => []OnTime
BY InitOnTime, StepOnTime, AlwaysSound, PTL DEF SafeSpec

(* Whatever dies or fails, whatever becomes of other jobs, and before as    *)
(* well as after the message of a run is acknowledged: a job that is never  *)
(* late has one run, with a pod, in the queue or with a worker, and only    *)
(* while its row is queued; but for those the queue itself has made by      *)
(* delivering a message again, of which none makes a second (the enqueue    *)
(* query, publishMessages, timestampHelper).                                *)
THEOREM SingleFlights == SafeSpec => []SingleFlight
<1>1. OnTime => SingleFlight
    BY DEF OnTime, JobSound, Budget, Tokens, Free, SingleFlight
<1>2. QED
    BY <1>1, AlwaysOnTime, PTL

-----------------------------------------------------------------------------
(* What the lifecycle sees of a row, as in the refinement mapping.          *)
StateOf(j) ==
    IF j \in slow THEN "dormant"
    ELSE IF ~Exists(j) THEN "deleted"
    ELSE IF ~row[j].queued THEN "dormant"
    ELSE IF row[j].accepted THEN "accepted" ELSE "running"

State == [j \in Jobs \ Checks |-> StateOf(j)]
Again == {j \in Jobs \ Checks : returned[j] > 0}

LEMMA SameRows ==
    ASSUME slow' = slow, \A j \in Jobs \ (Checks \cup slow) : row'[j] = row[j]
    PROVE  State' = State
<1>1. \A j \in Jobs \ Checks : StateOf(j)' = StateOf(j)
    BY DEF StateOf, Exists
<1>2. QED
    BY <1>1 DEF State

LEMMA OneRow ==
    ASSUME NEW j \in Jobs \ Checks, NEW s, slow' = slow, StateOf(j)' = s, OnlyRow(j)
    PROVE  State' = [State EXCEPT ![j] = s]
<1>1. \A i \in (Jobs \ Checks) \ {j} : StateOf(i)' = StateOf(i)
    BY DEF StateOf, Exists, OnlyRow
<1>2. QED
    BY <1>1 DEF State

LEMMA SameState ==
    ASSUME NEW j \in Jobs \ Checks, slow' = slow, StateOf(j)' = StateOf(j), OnlyRow(j)
    PROVE  State' = State
<1>1. \A i \in Jobs \ Checks : StateOf(i)' = StateOf(i)
    BY DEF StateOf, Exists, OnlyRow
<1>2. QED
    BY <1>1 DEF State

(* What a step that a run takes for its job means to the lifecycle.         *)
LifeStep ==
    \/ \E js \in SUBSET (Jobs \ Checks) : Lifecycle!Queue(js)
    \/ \E j \in Jobs \ Checks : Lifecycle!Accept(j) \/ Lifecycle!Finish(j) \/ Lifecycle!Retry(j)

LEMMA AcceptMeans ==
    ASSUME NEW j \in Jobs \ Checks, slow' = slow, Exists(j), OnlyRow(j),
           Exists(j)', row'[j].queued = row[j].queued, row'[j].accepted
    PROVE  LifeStep \/ State' = State
<1>1. CASE StateOf(j) = "running"
    <2>1. StateOf(j)' = "accepted"
        BY <1>1 DEF StateOf
    <2>2. State' = [State EXCEPT ![j] = "accepted"] /\ State[j] = "running"
        BY <1>1, <2>1, OneRow DEF State
    <2>3. Lifecycle!Accept(j)
        BY <2>2 DEF State, StateOf, Lifecycle!Accept, Lifecycle!Running, Lifecycle!Accepted
    <2>4. QED
        BY <2>3 DEF LifeStep
<1>2. CASE StateOf(j) # "running"
    <2>1. StateOf(j)' = StateOf(j)
        BY <1>2 DEF StateOf
    <2>2. QED
        BY <2>1, SameState
<1>3. QED
    BY <1>1, <1>2

LEMMA EndMeans ==
    ASSUME NEW j \in Jobs \ (Checks \cup slow), slow' = slow, Exists(j), OnlyRow(j),
           returned[j] > 0 \/ (Queued(j) /\ row[j].accepted),
           \/ StateOf(j)' = "dormant"
           \/ j \in once /\ StateOf(j)' = "deleted"
    PROVE  LifeStep
<1>1. State[j] = "accepted" \/ (j \in Again /\ State[j] # "deleted")
    BY DEF State, StateOf, Again, Queued
<1>2. Lifecycle!MayEnd(j)
    BY <1>1 DEF State, StateOf, Again, Lifecycle!MayEnd, Lifecycle!Accepted, Lifecycle!Deleted
<1>3. CASE StateOf(j)' = "dormant"
    <2>1. State' = [State EXCEPT ![j] = "dormant"]
        BY <1>3, OneRow
    <2>2. Lifecycle!Retry(j)
        BY <1>2, <2>1 DEF State, StateOf, Lifecycle!Retry, Lifecycle!Dormant
    <2>3. QED
        BY <2>2 DEF LifeStep
<1>4. CASE j \in once /\ StateOf(j)' = "deleted"
    <2>1. State' = [State EXCEPT ![j] = "deleted"]
        BY <1>4, OneRow
    <2>2. Lifecycle!Finish(j)
        BY <1>2, <1>4, <2>1
        DEF State, StateOf, Lifecycle!Finish, Lifecycle!Dormant, Lifecycle!Deleted
    <2>3. QED
        BY <2>2 DEF LifeStep
<1>5. QED
    BY <1>3, <1>4

LEMMA FetchMeans ==
    ASSUME Sound, UNCHANGED registered, NEW p \in Pods, NEW js \in SUBSET Jobs, FetchAndEnqueueJobs(p, js)
    PROVE  LifeStep
<1>0. slow' = slow
    BY DEF registered
<1>1. PICK ks \in SUBSET (Jobs \ Checks) : ks = js \ (Checks \cup slow)
    OBVIOUS
<1>2. \A j \in ks : StateOf(j) = "dormant" /\ StateOf(j)' = "running"
    <2>1. \A j \in ks : Dormant(j) /\ row'[j] \in Row /\ row'[j].queued /\ ~row'[j].accepted
        BY <1>1, FetchEffect DEF Sound
    <2>2. QED
        BY <1>0, <1>1, <2>1, GoneAssumption DEF StateOf, Dormant, Exists
<1>3. \A j \in (Jobs \ Checks) \ ks : StateOf(j)' = StateOf(j)
    BY <1>0, <1>1, FetchEffect DEF Sound, StateOf, Exists
<1>4. State' = [j \in Jobs \ Checks |-> IF j \in ks THEN "running" ELSE State[j]]
    BY <1>1, <1>2, <1>3 DEF State
<1>5. \A j \in ks : State[j] = "dormant"
    BY <1>1, <1>2 DEF State
<1>6. Lifecycle!Queue(ks)
    BY <1>4, <1>5 DEF State, StateOf, Lifecycle!Queue, Lifecycle!Dormant, Lifecycle!Running
<1>7. QED
    BY <1>1, <1>6 DEF LifeStep

(* A run that releases its row may end, or finds the row released.          *)
LEMMA ReleaseMeans ==
    ASSUME Sound, UNCHANGED registered, NEW j \in Jobs \ (Checks \cup slow), JobSound(j),
           NEW r \in Runners, run[r].job = j, run[r].stage \in {"running", "retry"},
           Exists(j), OnlyRow(j),
           \/ row'[j] \in Row /\ ~row'[j].queued
           \/ j \in once /\ row'[j] = Gone
    PROVE  LifeStep
<1> USE DEF Sound
<1>1. slow' = slow
    BY DEF registered
<1>2. StateOf(j)' = "dormant" \/ (j \in once /\ StateOf(j)' = "deleted")
    BY <1>1, GoneAssumption DEF StateOf, Exists
<1>3. returned[j] \in Nat
    BY TokenTypes
<1>4. returned[j] = 0 => Queued(j) /\ row[j].accepted
    BY OnlyToken DEF JobSound, Order, Begun, Released
<1>5. QED
    BY <1>1, <1>2, <1>3, <1>4, EndMeans

LEMMA HelperMeans ==
    ASSUME Sound, OnTime, UNCHANGED registered, NEW r \in Runners, Helper(r)
    PROVE  LifeStep \/ State' = State
<1> USE DEF Sound
<1>0. slow' = slow
    BY DEF registered
<1>1. PICK j \in Jobs : j = run[r].job
    BY HelperJob
<1>2. OnlyRow(j)
    BY <1>1, HelperFrame
<1>3. row'[j] = row[j] => State' = State
    BY <1>0, <1>2, SameRows DEF OnlyRow
<1>4. CASE j \in Checks \cup slow
    BY <1>0, <1>2, <1>4, SameRows DEF OnlyRow
<1>5. CASE j \notin Checks \cup slow
    <2>1. j \in Jobs \ (Checks \cup slow) /\ JobSound(j) /\ run[r].job = j
        BY <1>1, <1>5 DEF OnTime
    <2>2. ASSUME AcceptJob(r), Exists(j)
          PROVE  LifeStep \/ State' = State
        <3>1. row'[j] \in Row /\ row'[j].queued = row[j].queued /\ row'[j].accepted
            BY <2>1, <2>2, AcceptJobEffect
        <3>2. QED
            BY <1>0, <1>2, <2>1, <2>2, <3>1, GoneAssumption, AcceptMeans DEF Exists
    <2>3. ASSUME FinishJob(r)
          PROVE  LifeStep \/ State' = State
        <3>1. /\ run[r].stage = "running"
              /\ \/ row'[j] = Gone /\ (Exists(j) => j \in once)
                 \/ Exists(j) /\ row'[j] \in Row /\ ~row'[j].queued
            BY <2>1, <2>3, FinishJobEffect
        <3>2. CASE Exists(j)
            BY <1>2, <2>1, <3>1, <3>2, ReleaseMeans
        <3>3. CASE ~Exists(j)
            BY <1>3, <3>1, <3>3 DEF Exists
        <3>4. QED
            BY <3>2, <3>3
    <2>4. ASSUME RetryJob(r), Exists(j)
          PROVE  LifeStep
        <3>1. run[r].stage = "retry" /\ row'[j] \in Row /\ ~row'[j].queued
            BY <2>1, <2>4, RetryJobEffect
        <3>2. QED
            BY <1>2, <2>1, <2>4, <3>1, ReleaseMeans
    <2>5. ASSUME ~Exists(j), AcceptJob(r) \/ RetryJob(r)
          PROVE  State' = State
        BY <1>3, <2>1, <2>5, AcceptJobEffect, RetryJobEffect
    <2>6. CASE FailJob(r)
        BY <1>1, <1>3, <2>6, FailJobEffect
    <2>7. ASSUME RunEnds(r)
          PROVE  State' = State
        <3>1. \/ ~Exists(j) /\ row'[j] = Gone
              \/ /\ Exists(j) /\ row'[j] \in Row /\ row'[j].queued = row[j].queued
                 /\ row'[j].accepted = row[j].accepted
            BY <2>1, <2>7, RunEndsEffect
        <3>2. StateOf(j)' = StateOf(j)
            BY <1>0, <3>1, GoneAssumption DEF StateOf, Exists
        <3>3. QED
            BY <1>0, <1>2, <2>1, <3>2, SameState
    <2>8. QED
        BY <2>2, <2>3, <2>4, <2>5, <2>6, <2>7 DEF Helper
<1>6. QED
    BY <1>4, <1>5

(* A step does something to the rows, or counts one message more.           *)
LEMMA StepMeans ==
    ASSUME Sound, OnTime, Next
    PROVE  \/ returned' = returned /\ (LifeStep \/ State' = State)
           \/ State' = State /\ (Again' = Again \/ \E j \in Jobs \ Checks : Again' = Again \cup {j})
<1> USE DEF Sound
<1>1. UNCHANGED registered /\ slow' = slow
    BY Steps DEF registered
<1>2. row' = row => State' = State
    BY <1>1, SameRows
<1>3. ASSUME NEW p \in Pods, PodStep(p) \/ PodWrites(p)
      PROVE  returned' = returned /\ (LifeStep \/ State' = State)
    <2>1. CASE PodStep(p)
        BY <1>2, <2>1, PodStepPhases
    <2>2. CASE CreateCheck(p)
        BY <1>1, <2>2, CreateCheckEffect, SameRows
    <2>3. CASE \E js \in SUBSET Jobs : FetchAndEnqueueJobs(p, js)
        BY <1>1, <2>3, FetchEffect, FetchMeans
    <2>4. ASSUME NEW i \in batch[p], Publish(p, i) \/ PublishFails(p, i) \/ TakeInline(p, i)
          PROVE  row' = row /\ returned' = returned
        BY <1>1, <2>4, PublishEffect, TakeInlineEffect
    <2>5. CASE PodDies(p)
        BY <1>1, <1>2, <2>5, PodDiesEffect
    <2>6. CASE RestartRows(p) \/ (\E i \in found[p] : ResetJob(p, i))
        <3>1. \A j \in Jobs \ slow : row'[j] = row[j]
            BY <1>1, <2>6, RestartEffect DEF OnTime, JobSound, Quiet
        <3>2. returned' = returned
            BY <1>1, <2>6, RestartEffect
        <3>3. QED
            BY <1>1, <3>1, <3>2, SameRows
    <2>7. QED
        BY <1>2, <1>3, <2>1, <2>2, <2>3, <2>4, <2>5, <2>6 DEF PodWrites
<1>4. ASSUME NEW w \in Workers, NEW j \in Jobs, Take(w, j)
      PROVE  returned' = returned /\ State' = State
    BY <1>1, <1>2, <1>4, TakeEffect
<1>5. ASSUME row' = row, NEW j \in Jobs, Extra(j)
      PROVE  State' = State /\ (Again' = Again \/ \E i \in Jobs \ Checks : Again' = Again \cup {i})
    <2>1. returned[j] \in Nat /\ returned'[j] = returned[j] + 1
          /\ \A i \in Jobs \ {j} : returned'[i] = returned[i]
        BY <1>5, TokenTypes DEF Extra
    <2>2. CASE j \in Checks
        BY <1>2, <1>5, <2>1, <2>2 DEF Again
    <2>3. CASE j \notin Checks
        <3>1. Again' = Again \cup {j}
            BY <2>1, <2>3 DEF Again
        <3>2. QED
            BY <1>2, <1>5, <2>3, <3>1
    <2>4. QED
        BY <2>2, <2>3
<1>6. ASSUME NEW w \in Workers, Redeliver(w)
      PROVE  row' = row /\ \E j \in Jobs : Extra(j)
    BY <1>1, <1>6, RedeliverEffect
<1>7. ASSUME NEW r \in Runners, Helper(r)
      PROVE  \/ returned' = returned /\ (LifeStep \/ State' = State)
             \/ row' = row /\ \E j \in Jobs : Extra(j)
    <2>1. PICK j \in Jobs : j = run[r].job
        BY <1>7, HelperJob
    <2>2. returned' = returned \/ (row' = row /\ Extra(j))
        BY <1>1, <1>7, <2>1, HelperFrame
    <2>3. QED
        BY <1>1, <1>7, <2>2, HelperMeans
<1>8. ASSUME NEW j \in Jobs, GrowOld(j)
      PROVE  returned' = returned /\ State' = State
    BY <1>1, <1>8, GrowOldEffect, SameRows
<1>9. QED
    BY <1>3, <1>4, <1>5, <1>6, <1>7, <1>8, Steps

(* So it is a step of the lifecycle, or none.                               *)
LEMMA StepImplements ==
    ASSUME Sound, OnTime, [Next]_vars
    PROVE  [Lifecycle!LNext /\ UNCHANGED once]_<<State, once, Again>>
<1>1. CASE UNCHANGED vars
    BY <1>1 DEF vars, registered, State, StateOf, Exists, Again
<1>2. CASE Next
    <2>1. once' = once
        BY <1>2 DEF Next, registered
    <2>2. CASE returned' = returned /\ (LifeStep \/ State' = State)
        <3>1. Again' = Again
            BY <2>2 DEF Again
        <3>2. LifeStep => Lifecycle!LNext
            BY <3>1 DEF LifeStep, Again, Lifecycle!LNext
        <3>3. QED
            BY <2>1, <2>2, <3>1, <3>2
    <2>3. CASE State' = State /\ (Again' = Again \/ \E j \in Jobs \ Checks : Again' = Again \cup {j})
        <3>1. ASSUME NEW j \in Jobs \ Checks, Again' = Again \cup {j}
              PROVE  Lifecycle!LNext
            <4>1. Lifecycle!Repeat(j)
                BY <2>3, <3>1 DEF Again, State, StateOf, Lifecycle!Repeat
            <4>2. QED
                BY <4>1 DEF Lifecycle!LNext
        <3>2. QED
            BY <2>1, <2>3, <3>1
    <2>4. QED
        BY <1>2, <2>2, <2>3, StepMeans
<1>3. QED
    BY <1>1, <1>2

(* The rows of jobs that are never late go round as docs/job.md says,       *)
(* whatever dies or fails: dormant, queued, accepted, and dormant again or, *)
(* of a one-off job, gone; a message that is delivered again ends at most a *)
(* run out of turn.                                                         *)
THEOREM RowsGoRound == SafeSpec => LifecycleImplemented
<1>1. Init => Lifecycle!LInit
    <2> SUFFICES ASSUME Init PROVE Lifecycle!LInit
        OBVIOUS
    <2>1. \A j \in Jobs \ Checks : row[j] = NewRow /\ returned[j] = 0
        BY DEF Init
    <2>2. \A j \in Jobs \ Checks : Exists(j) /\ ~row[j].queued
        BY <2>1, NewRowType, GoneAssumption DEF Exists
    <2>3. once \subseteq Jobs \ Checks
        BY JobAssumption DEF Init
    <2>4. QED
        BY <2>1, <2>2, <2>3 DEF Lifecycle!LInit, Lifecycle!Dormant
<1>2. Sound /\ OnTime /\ [Next]_vars => [Lifecycle!LNext /\ UNCHANGED once]_<<State, once, Again>>
    BY StepImplements
<1>3. [Lifecycle!LNext /\ UNCHANGED once]_<<State, once, Again>> =>
      [Lifecycle!LNext /\ UNCHANGED once]_<<[j \in Jobs \ Checks |->
                 IF j \in slow THEN "dormant"
                 ELSE IF ~Exists(j) THEN "deleted"
                 ELSE IF ~row[j].queued THEN "dormant"
                 ELSE IF row[j].accepted THEN "accepted" ELSE "running"], once,
                 {j \in Jobs \ Checks : returned[j] > 0}>>
    BY DEF State, StateOf, Again
<1>4. QED
    BY <1>1, <1>2, <1>3, AlwaysSound, AlwaysOnTime, PTL DEF SafeSpec, LifecycleImplemented, Lifecycle!LSpec
=============================================================================
