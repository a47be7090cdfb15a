---------------------------- MODULE ConsumerPool ----------------------------
(***************************************************************************)
(* The pool of a consumer (packages/steveo/src/lib/pool.ts, a generic-pool  *)
(* of workerConfig.max resources), and stop() with its pools               *)
(* (_drainAndClearPools of lib/manager.ts).                                 *)
(*                                                                         *)
(* A handler acquires a resource, or waits in line for one, and releases it *)
(* at its end.  All Steveo instances of one Node process keep their pools   *)
(* in one global list, and the stop() of any of them drains every pool of   *)
(* the list that has lent something.  A drained pool lends nothing anymore. *)
(* A resource that its handler never gives back is lost to its pool, and    *)
(* the pool waits for it.                                                   *)
(***************************************************************************)
EXTENDS Manager, Sequences, FiniteSets

CONSTANTS
    Host,     \* the Node process every instance lives in
    Clients,  \* who may hold a resource of an instance
    PoolMax   \* workerConfig.max

ASSUME PoolAssumption == PoolMax \in Nat \ {0}

VARIABLES
    lent,      \* the clients of every instance that hold a resource
    leaked,    \* how many resources of it nobody will ever give back
    line,      \* those that wait for one, first come first served
    draining   \* the instances whose pool was told to drain

pvars == <<lent, leaked, line, draining>>

PTypeOK ==
    /\ lent \in [Procs -> SUBSET Clients]
    /\ leaked \in [Procs -> Nat]
    /\ line \in [Procs -> Seq(Clients)]
    /\ draining \subseteq Procs

PInit ==
    /\ lent = [p \in Procs |-> {}]
    /\ leaked = [p \in Procs |-> 0]
    /\ line = [p \in Procs |-> <<>>]
    /\ draining = {}

\* The instances of the same Node process: global.steveo.pools.
Neighbours(p) == {q \in Procs : Host[q] = Host[p]}

\* acquire() of a pool that drains is rejected.
MayAcquire(p) == p \notin draining

\* How many resources are out.
Out(p) == Cardinality(lent[p]) + leaked[p]

Acquire(p, x) ==
    /\ MayAcquire(p)
    /\ IF Out(p) < PoolMax
       THEN lent' = [lent EXCEPT ![p] = @ \cup {x}] /\ UNCHANGED line
       ELSE line' = [line EXCEPT ![p] = Append(@, x)] /\ UNCHANGED lent
    /\ UNCHANGED <<leaked, draining>>

Release(p, x) ==
    /\ IF line[p] = <<>>
       THEN lent' = [lent EXCEPT ![p] = @ \ {x}] /\ UNCHANGED line
       ELSE /\ lent' = [lent EXCEPT ![p] = (@ \ {x}) \cup {Head(line[p])}]
            /\ line' = [line EXCEPT ![p] = Tail(@)]
    /\ UNCHANGED <<leaked, draining>>

\* The handler of x ends without a release.
Leak(p, x) ==
    /\ lent' = [lent EXCEPT ![p] = @ \ {x}]
    /\ leaked' = [leaked EXCEPT ![p] = @ + 1]
    /\ UNCHANGED <<line, draining>>

\* The memory of a Node process that dies.
Forget(dead) ==
    /\ lent' = [p \in Procs |-> IF p \in dead THEN {} ELSE lent[p]]
    /\ leaked' = [p \in Procs |-> IF p \in dead THEN 0 ELSE leaked[p]]
    /\ line' = [p \in Procs |-> IF p \in dead THEN <<>> ELSE line[p]]
    /\ UNCHANGED draining

-----------------------------------------------------------------------------
(* stop() looks at the pools right after its wait.                          *)

\* Seeded fault: a pool is only drained when somebody waits for it.
DrainPools_OnlyLines(p) ==
    /\ draining' = draining \cup {q \in Neighbours(p) : line[q] # <<>>}
    /\ UNCHANGED <<lent, leaked, line>>

\* Every pool that has lent something is told to drain.
DrainPools(p) ==
    /\ draining' = draining \cup {q \in Neighbours(p) : Out(q) > 0}
    /\ UNCHANGED <<lent, leaked, line>>

\* drain() ends when the line is served and everything was returned.
Drained(p) == \A q \in Neighbours(p) \cap draining : Out(q) = 0 /\ line[q] = <<>>

PoolShutdownStep(p, c) ==
    \/ ShutdownWait(p, c) /\ UNCHANGED pvars
    \/ (ForceTerminate(p, c) \/ ShutdownSeen(p, c)) /\ DrainPools(p)
    \/ FinishStop(p, c) /\ Drained(p) /\ UNCHANGED pvars

\* What the application does to an instance.
PoolManagerStep(p) ==
    \/ (AppCall(p) \/ \E c \in Calls : Stop(p, c)) /\ UNCHANGED pvars
    \/ \E c \in Calls : PoolShutdownStep(p, c)

-----------------------------------------------------------------------------
(* No pool lends more than it has, and no handler waits while something is  *)
(* free, whatever drains the pool (acquire, release, _drainAndClearPools).  *)
PoolSound ==
    \A p \in Procs :
        /\ Out(p) <= PoolMax
        /\ line[p] # <<>> => Out(p) = PoolMax
=============================================================================
