------------------------------- MODULE Manager -------------------------------
(***************************************************************************)
(* The lifecycle of a Steveo process (packages/steveo/src/lib/manager.ts).  *)
(*                                                                         *)
(* Every process owns one Manager.  The application pauses, resumes and     *)
(* stops it; the runner (the consumer loop) only reads the state, and calls *)
(* terminate() once it has noticed that it should stop.  stop() is a        *)
(* polling loop: it asks the runner to terminate, looks at the state once a *)
(* second, and forces the termination when the tries are used up.           *)
(*                                                                         *)
(* What the runner does between two looks at the state is not modelled      *)
(* here: modules that model a runner extend this one, and implement its     *)
(* specification.                                                           *)
(***************************************************************************)
EXTENDS Naturals

CONSTANTS
    Procs,          \* the processes, each with its own Manager
    Calls,          \* the stop() calls of a process that may overlap
    Tries,          \* config.terminationWaitCount
    LifecycleCalls, \* what the application calls before it calls stop()
    LateCalls       \* what it still calls after that

AppCalls == {"pause", "resume", "runnerStop"}

ASSUME TriesAssumption == Tries \in Nat \ {0}
ASSUME CallsAssumption == LifecycleCalls \subseteq AppCalls /\ LateCalls \subseteq AppCalls

VARIABLES
    state,    \* Manager._state of every process
    call,     \* how far each stop() call has come
    count,    \* the seconds it has waited
    producer  \* the producer that stop() closes last

mvars == <<state, call, count, producer>>

RunnerState == {"running", "paused", "terminating", "terminated"}
CallState == {"none", "waiting", "draining", "done"}

MTypeOK ==
    /\ state \in [Procs -> RunnerState]
    /\ call \in [Procs -> [Calls -> CallState]]
    /\ count \in [Procs -> [Calls -> 0 .. Tries]]
    /\ producer \in [Procs -> {"open", "stopped"}]

MInit ==
    /\ state = [p \in Procs |-> "running"]
    /\ call = [p \in Procs |-> [c \in Calls |-> "none"]]
    /\ count = [p \in Procs |-> [c \in Calls |-> 0]]
    /\ producer = [p \in Procs |-> "open"]

IsTerminated(p) == state[p] = "terminated"
ShouldTerminate(p) == state[p] \in {"terminating", "terminated"}
StopCalled(p) == \E c \in Calls : call[p][c] # "none"
MayCall(p, name) == name \in IF StopCalled(p) THEN LateCalls ELSE LifecycleCalls

-----------------------------------------------------------------------------
(* The application's calls.  None of the three looks at the current state. *)

SetState(p, s) ==
    /\ state' = [state EXCEPT ![p] = s]
    /\ UNCHANGED <<call, count, producer>>

Pause(p) == MayCall(p, "pause") /\ SetState(p, "paused")
Resume(p) == MayCall(p, "resume") /\ SetState(p, "running")

\* BaseRunner.stop(): the runner's own stop, which does not wait.
RunnerStop(p) == MayCall(p, "runnerStop") /\ SetState(p, "terminating")

-----------------------------------------------------------------------------
(* stop(): shutdown() up to its first look at the state, the loop, the way  *)
(* out of the loop, and what follows it.                                    *)

Stop(p, c) ==
    /\ call[p][c] = "none"
    /\ state' = [state EXCEPT ![p] = IF @ \in {"running", "paused"} THEN "terminating" ELSE @]
    /\ call' = [call EXCEPT ![p][c] = "waiting"]
    /\ UNCHANGED <<count, producer>>

\* Seeded fault: the loop forgets to count its turns.
ShutdownWait_NoCount(p, c) ==
    /\ call[p][c] = "waiting"
    /\ ~IsTerminated(p)
    /\ UNCHANGED mvars

\* One turn of the loop: the state was not yet terminated, sleep a second.
ShutdownWait(p, c) ==
    /\ call[p][c] = "waiting"
    /\ ~IsTerminated(p)
    /\ count[p][c] # Tries
    /\ count' = [count EXCEPT ![p][c] = @ + 1]
    /\ UNCHANGED <<state, call, producer>>

\* Seeded fault: the runner is terminated one try too early.
ForceTerminate_OneEarly(p, c) ==
    /\ call[p][c] = "waiting"
    /\ ~IsTerminated(p)
    /\ count[p][c] + 1 = Tries
    /\ state' = [state EXCEPT ![p] = "terminated"]
    /\ call' = [call EXCEPT ![p][c] = "draining"]
    /\ UNCHANGED <<count, producer>>

ForceTerminate(p, c) ==
    /\ call[p][c] = "waiting"
    /\ ~IsTerminated(p)
    /\ count[p][c] = Tries
    /\ state' = [state EXCEPT ![p] = "terminated"]
    /\ call' = [call EXCEPT ![p][c] = "draining"]
    /\ UNCHANGED <<count, producer>>

\* Seeded fault: the loop waits for the signal it has given itself.
ShutdownSeen_AnyStop(p, c) ==
    /\ call[p][c] = "waiting"
    /\ ShouldTerminate(p)
    /\ call' = [call EXCEPT ![p][c] = "draining"]
    /\ UNCHANGED <<state, count, producer>>

ShutdownSeen(p, c) ==
    /\ call[p][c] = "waiting"
    /\ IsTerminated(p)
    /\ call' = [call EXCEPT ![p][c] = "draining"]
    /\ UNCHANGED <<state, count, producer>>

\* The pools are drained (a runner without a pool has nothing to wait for),
\* then the producer is stopped and stop() returns.
FinishStop(p, c) ==
    /\ call[p][c] = "draining"
    /\ call' = [call EXCEPT ![p][c] = "done"]
    /\ producer' = [producer EXCEPT ![p] = "stopped"]
    /\ UNCHANGED <<state, count>>

\* The runner has noticed that it should stop and calls manager.terminate().
Terminate(p) == ShouldTerminate(p) /\ SetState(p, "terminated")

-----------------------------------------------------------------------------
AppCall(p) == Pause(p) \/ Resume(p) \/ RunnerStop(p)

ShutdownStep(p, c) ==
    \/ ShutdownWait(p, c)
    \/ ForceTerminate(p, c)
    \/ ShutdownSeen(p, c)
    \/ FinishStop(p, c)

ManagerStep(p) == AppCall(p) \/ \E c \in Calls : Stop(p, c) \/ ShutdownStep(p, c)

MNext == \E p \in Procs : ManagerStep(p) \/ Terminate(p)

MSafeSpec == MInit /\ [][MNext]_mvars

-----------------------------------------------------------------------------
(* Once a stop() call has left its loop the process stays terminated, and   *)
(* the producer is stopped in no other state, as long as the application    *)
(* makes no pause, resume or stop of the runner after stop()                *)
(* (Manager.shutdown: the loop, and what follows it).                       *)
StopLeavesTerminated ==
    LateCalls = {} =>
        \A p \in Procs :
            ((\E c \in Calls : call[p][c] \in {"draining", "done"}) \/ producer[p] = "stopped")
            => IsTerminated(p)

(* A runner that is not stopping is terminated only by a stop() call that   *)
(* has used up all its tries: the case is a resume() that arrives while     *)
(* stop() is waiting, and is overruled when the wait ends                   *)
(* (Manager.resume against Manager.shutdown).                               *)
ForcedOnlyAfterWaiting ==
    [][\A p \in Procs :
          state[p] \in {"running", "paused"} /\ state'[p] = "terminated" =>
              \E c \in Calls : call[p][c] = "waiting" /\ count[p][c] = Tries]_mvars
=============================================================================
