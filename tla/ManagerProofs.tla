---------------------------- MODULE ManagerProofs ----------------------------
(***************************************************************************)
(* Proofs about the lifecycle, for any number of processes, of overlapping  *)
(* stop() calls and of tries.                                               *)
(***************************************************************************)
EXTENDS Manager, TLAPS

(* A counter below its limit stays within it when it is increased.          *)
LEMMA CountUp ==
    ASSUME NEW n, NEW limit \in Nat, n \in 0 .. limit, n # limit
    PROVE  n + 1 \in 0 .. limit
OBVIOUS

(* Manager's own steps keep Manager's types.                                *)
LEMMA ManagerTypes ==
    ASSUME MTypeOK, NEW p \in Procs, ManagerStep(p) \/ Terminate(p)
    PROVE  MTypeOK'
<1> USE TriesAssumption DEF MTypeOK, RunnerState, CallState
<1>1. CASE AppCall(p)
    BY <1>1 DEF AppCall, Pause, Resume, RunnerStop, SetState
<1>2. CASE Terminate(p)
    BY <1>2 DEF Terminate, SetState
<1>3. ASSUME NEW c \in Calls, Stop(p, c)
      PROVE  MTypeOK'
    BY <1>3 DEF Stop
<1>4. ASSUME NEW c \in Calls, ShutdownStep(p, c)
      PROVE  MTypeOK'
    <2>1. CASE ShutdownWait(p, c)
        <3>1. count[p][c] \in 0 .. Tries /\ count[p][c] # Tries
            BY <2>1 DEF ShutdownWait
        <3>2. count[p][c] + 1 \in 0 .. Tries
            BY <3>1, CountUp
        <3>3. QED
            BY <2>1, <3>2 DEF ShutdownWait
    <2>2. CASE ForceTerminate(p, c)
        BY <2>2 DEF ForceTerminate
    <2>3. CASE ShutdownSeen(p, c)
        BY <2>3 DEF ShutdownSeen
    <2>4. CASE FinishStop(p, c)
        BY <2>4 DEF FinishStop
    <2>5. QED
        BY <1>4, <2>1, <2>2, <2>3, <2>4 DEF ShutdownStep
<1>5. QED
    BY <1>1, <1>2, <1>3, <1>4 DEF ManagerStep

(* Every reachable state of the managers is well typed; in particular the   *)
(* wait of stop() never exceeds its tries.                                  *)
THEOREM ManagerTypeCorrect == MSafeSpec => []MTypeOK
<1>1. MInit => MTypeOK
    BY TriesAssumption DEF MInit, MTypeOK, RunnerState, CallState
<1>2. MTypeOK /\ [MNext]_mvars => MTypeOK'
    <2>1. MTypeOK /\ UNCHANGED mvars => MTypeOK'
        BY DEF MTypeOK, mvars
    <2>2. QED
        BY <2>1, ManagerTypes DEF MNext
<1>3. QED
    BY <1>1, <1>2, PTL DEF MSafeSpec

-----------------------------------------------------------------------------
(* The induction behind StopLeavesTerminated: a stopped producer remembers  *)
(* the stop() call that stopped it, so that the application is quiet.       *)
Stopped(p) ==
    /\ producer[p] = "stopped" => \E c \in Calls : call[p][c] = "done"
    /\ (\E c \in Calls : call[p][c] \in {"draining", "done"}) => IsTerminated(p)

LEMMA StoppedStep ==
    ASSUME LateCalls = {}, MTypeOK, \A q \in Procs : Stopped(q),
           NEW p \in Procs, ManagerStep(p) \/ Terminate(p)
    PROVE  \A q \in Procs : Stopped(q)'
<1> USE DEF MTypeOK, Stopped, IsTerminated
<1>1. ASSUME AppCall(p)
      PROVE  \A q \in Procs : Stopped(q)'
    <2>1. \A c \in Calls : call[p][c] = "none"
        BY <1>1 DEF AppCall, Pause, Resume, RunnerStop, MayCall, StopCalled
    <2>2. PICK s \in RunnerState : SetState(p, s)
        BY <1>1 DEF AppCall, Pause, Resume, RunnerStop, RunnerState
    <2>3. QED
        BY <2>1, <2>2 DEF SetState
<1>2. ASSUME Terminate(p)
      PROVE  \A q \in Procs : Stopped(q)'
    BY <1>2 DEF Terminate, SetState
<1>3. ASSUME NEW c \in Calls, Stop(p, c)
      PROVE  \A q \in Procs : Stopped(q)'
    BY <1>3 DEF Stop
<1>4. ASSUME NEW c \in Calls, ShutdownWait(p, c)
      PROVE  \A q \in Procs : Stopped(q)'
    BY <1>4 DEF ShutdownWait
<1>5. ASSUME NEW c \in Calls, ForceTerminate(p, c) \/ ShutdownSeen(p, c)
      PROVE  \A q \in Procs : Stopped(q)'
    BY <1>5 DEF ForceTerminate, ShutdownSeen
<1>6. ASSUME NEW c \in Calls, FinishStop(p, c)
      PROVE  \A q \in Procs : Stopped(q)'
    BY <1>6 DEF FinishStop
<1>7. QED
    BY <1>1, <1>2, <1>3, <1>4, <1>5, <1>6 DEF ManagerStep, ShutdownStep

(* When the application is quiet after stop(), no stop() call gets past its *)
(* loop, and no producer is stopped, in a process that is not terminated;   *)
(* the overlap of several stop() calls does not change that.                *)
THEOREM StopTerminates == MSafeSpec => []StopLeavesTerminated
<1> DEFINE Inv == LateCalls = {} => \A p \in Procs : Stopped(p)
<1>1. MInit => Inv
    <2> SUFFICES ASSUME MInit, NEW p \in Procs
                 PROVE  Stopped(p)
        OBVIOUS
    <2>1. producer[p] = "open" /\ \A c \in Calls : call[p][c] = "none"
        BY DEF MInit
    <2>2. QED
        BY <2>1 DEF Stopped
<1>2. MTypeOK /\ Inv /\ [MNext]_mvars => Inv'
    <2>1. Inv /\ UNCHANGED mvars => Inv'
        BY DEF mvars, Stopped, IsTerminated
    <2>2. QED
        BY <2>1, StoppedStep DEF MNext
<1>3. Inv => StopLeavesTerminated
    BY DEF Stopped, StopLeavesTerminated
<1>4. QED
    BY <1>1, <1>2, <1>3, ManagerTypeCorrect, PTL DEF MSafeSpec

(* A runner that is running or paused is terminated only by a stop() call   *)
(* whose wait is over, whoever calls what in which order.                   *)
THEOREM ForcedWhenExhausted == MSafeSpec => ForcedOnlyAfterWaiting
<1> DEFINE A == \A p \in Procs :
          state[p] \in {"running", "paused"} /\ state'[p] = "terminated" =>
              \E c \in Calls : call[p][c] = "waiting" /\ count[p][c] = Tries
<1>1. MTypeOK /\ [MNext]_mvars => A
    <2> SUFFICES ASSUME MTypeOK, [MNext]_mvars
                 PROVE  A
        OBVIOUS
    <2> USE DEF MTypeOK
    <2>1. CASE UNCHANGED mvars
        BY <2>1 DEF mvars
    <2>2. ASSUME NEW p \in Procs, AppCall(p)
          PROVE  A
        BY <2>2 DEF AppCall, Pause, Resume, RunnerStop, SetState
    <2>3. ASSUME NEW p \in Procs, Terminate(p)
          PROVE  A
        BY <2>3 DEF Terminate, SetState, ShouldTerminate
    <2>4. ASSUME NEW p \in Procs, NEW c \in Calls, Stop(p, c)
          PROVE  A
        BY <2>4 DEF Stop
    <2>5. ASSUME NEW p \in Procs, NEW c \in Calls, ForceTerminate(p, c)
          PROVE  A
        BY <2>5 DEF ForceTerminate
    <2>6. ASSUME NEW p \in Procs, NEW c \in Calls,
                 ShutdownWait(p, c) \/ ShutdownSeen(p, c) \/ FinishStop(p, c)
          PROVE  A
        BY <2>6 DEF ShutdownWait, ShutdownSeen, FinishStop
    <2>7. QED
        BY <2>1, <2>2, <2>3, <2>4, <2>5, <2>6 DEF MNext, ManagerStep, ShutdownStep
<1>2. QED
    BY <1>1, ManagerTypeCorrect, PTL DEF MSafeSpec, ForcedOnlyAfterWaiting
=============================================================================
