----------------------------- MODULE KafkaRunner -----------------------------
(***************************************************************************)
(* The Kafka consumer (packages/steveo/src/consumers/kafka.ts): processes   *)
(* of one consumer group that fetch batches, run the tasks' handlers,       *)
(* commit the offsets they have processed, and lose and gain partitions.    *)
(*                                                                         *)
(* A consume loop is  consume(n, callback) -> consumeCallback -> batch ->   *)
(* commitBatch -> consume(n, callback).  Only one is meant to run in a      *)
(* process, but every 'ready' event starts one, so that reconnect() adds    *)
(* another; Loops bounds them.  The lifecycle is that of module Manager.    *)
(*                                                                         *)
(* External, modelled as the runner uses it: the group coordinator (owner,  *)
(* committed), the client's fetch position, and its queue of asynchronous   *)
(* commits.  The broker takes a commit from any live member of the group,   *)
(* whoever owns the partition.  A failed handler settles like a successful  *)
(* one, because the batch is committed either way.                          *)
(***************************************************************************)
EXTENDS Manager, Sequences, FiniteSets

CONSTANTS
    Partitions,    \* the partitions of the topics that have a task
    LogEnd,        \* every partition holds the offsets 0 .. LogEnd - 1
    BatchSize,     \* getBatchSize()
    MaxLoops,      \* bound: the 'ready' events of a process (1: no reconnect)
    MaxRebalances, \* bound: revocations and evictions
    MaxCrashes,    \* bound: processes that crash
    Taskless,      \* the processes that may be given no topic with a task
    Unreachable,   \* the processes that may fail to connect
    Flaky,         \* the processes whose commits may fail
    None           \* the owner of a partition nobody owns

ASSUME LogAssumption == LogEnd \in Nat
ASSUME BatchAssumption == BatchSize \in Nat \ {0}
ASSUME LoopsAssumption == MaxLoops \in Nat \ {0}
ASSUME BoundsAssumption == MaxRebalances \in Nat /\ MaxCrashes \in Nat
ASSUME NoneAssumption == None \notin Procs

VARIABLES
    client,     \* the state of every process's Kafka client
    owner,      \* the process every partition is assigned to
    position,   \* the next offset its owner fetches
    committed,  \* the offset the group has committed
    loop,       \* where every consume loop stands
    batch,      \* the batch in its hands
    todo,       \* the messages of the batch whose handler has not settled
    processed,  \* processedOffsets of every process; 0: no entry
    commits,    \* the queued commits of every process and partition
    handled,    \* the messages some handler has settled for
    dropped,    \* the messages a paused loop has thrown away
    rebalances, \* how many revocations and evictions there have been
    crashes     \* how many processes have crashed

kvars == <<client, owner, position, committed, loop, batch, todo, processed, commits,
           handled, dropped, rebalances, crashes>>
vars == <<mvars, kvars>>

Loops == 1 .. MaxLoops
Offset == 0 .. LogEnd
Message == [partition : Partitions, offset : 0 .. LogEnd - 1]
ClientState == {"connecting", "subscribed", "idle", "failed", "evicted",
                "reconnecting", "closing", "disconnected", "crashed"}
LoopState == {"off", "fetching", "callback", "processing", "sleeping", "stopped"}

TypeOK ==
    /\ MTypeOK
    /\ client \in [Procs -> ClientState]
    /\ owner \in [Partitions -> Procs \cup {None}]
    /\ position \in [Partitions -> Offset]
    /\ committed \in [Partitions -> Offset]
    /\ loop \in [Procs -> [Loops -> LoopState]]
    /\ batch \in [Procs -> [Loops -> SUBSET Message]]
    /\ todo \in [Procs -> [Loops -> SUBSET Message]]
    /\ processed \in [Procs -> [Partitions -> Offset]]
    /\ commits \in [Procs -> [Partitions -> Seq(Offset)]]
    /\ handled \subseteq Message
    /\ dropped \subseteq Message
    /\ rebalances \in 0 .. MaxRebalances
    /\ crashes \in 0 .. MaxCrashes

Init ==
    /\ MInit
    /\ client = [m \in Procs |-> "connecting"]
    /\ owner = [p \in Partitions |-> None]
    /\ position = [p \in Partitions |-> 0]
    /\ committed = [p \in Partitions |-> 0]
    /\ loop = [m \in Procs |-> [l \in Loops |-> "off"]]
    /\ batch = [m \in Procs |-> [l \in Loops |-> {}]]
    /\ todo = [m \in Procs |-> [l \in Loops |-> {}]]
    /\ processed = [m \in Procs |-> [p \in Partitions |-> 0]]
    /\ commits = [m \in Procs |-> [p \in Partitions |-> <<>>]]
    /\ handled = {}
    /\ dropped = {}
    /\ rebalances = 0
    /\ crashes = 0

Owned(m) == {p \in Partitions : owner[p] = m}
Released(m) == [p \in Partitions |-> IF owner[p] = m THEN None ELSE owner[p]]
NoCommits == [p \in Partitions |-> <<>>]
NoEntries == [p \in Partitions |-> 0]

-----------------------------------------------------------------------------
(* process(): connect, and on 'ready' subscribe and start a consume loop.   *)

Ready(m) ==
    /\ client[m] = "connecting"
    /\ \/ /\ m \in Taskless
          /\ client' = [client EXCEPT ![m] = "idle"]
          /\ UNCHANGED loop
       \/ /\ client' = [client EXCEPT ![m] = "subscribed"]
          /\ \E l \in Loops :
                /\ loop[m][l] = "off"
                /\ \A k \in Loops : k < l => loop[m][k] # "off"
                /\ loop' = [loop EXCEPT ![m][l] = "fetching"]
    /\ UNCHANGED <<mvars, owner, position, committed, batch, todo, processed, commits,
                   handled, dropped, rebalances, crashes>>

ConnectFail(m) ==
    /\ client[m] = "connecting"
    /\ m \in Unreachable
    /\ client' = [client EXCEPT ![m] = "failed"]
    /\ UNCHANGED <<mvars, owner, position, committed, loop, batch, todo, processed, commits,
                   handled, dropped, rebalances, crashes>>

\* reconnect(): disconnect, then connect; the 'ready' handler is still there.
Reconnect(m) ==
    /\ client[m] = "subscribed"
    /\ \E l \in Loops : loop[m][l] = "off"
    /\ client' = [client EXCEPT ![m] = "reconnecting"]
    /\ UNCHANGED <<mvars, owner, position, committed, loop, batch, todo, processed, commits,
                   handled, dropped, rebalances, crashes>>

-----------------------------------------------------------------------------
(* The consume loop.                                                        *)

\* consume() hands over what it has drained from the client's queue: the next
\* messages of some of the process's partitions, at most a batch of them.
Deliver(m, l) ==
    /\ loop[m][l] = "fetching"
    /\ client[m] = "subscribed"
    /\ \E take \in [Partitions -> 0 .. BatchSize] :
          LET drained == {x \in Message :
                             /\ position[x.partition] <= x.offset
                             /\ x.offset < position[x.partition] + take[x.partition]}
          IN /\ \A p \in Partitions :
                   take[p] > 0 => owner[p] = m /\ position[p] + take[p] <= LogEnd
             /\ drained # {}
             /\ Cardinality(drained) <= BatchSize
             /\ batch' = [batch EXCEPT ![m][l] = drained]
             /\ position' = [p \in Partitions |-> position[p] + take[p]]
    /\ loop' = [loop EXCEPT ![m][l] = "callback"]
    /\ UNCHANGED <<mvars, client, owner, committed, todo, processed, commits,
                   handled, dropped, rebalances, crashes>>

\* ... or nothing: consume() has timed out, or reports an error.
DeliverNothing(m, l) ==
    /\ loop[m][l] = "fetching"
    /\ client[m] # "evicted"
    /\ loop' = [loop EXCEPT ![m][l] = "callback"]
    /\ UNCHANGED <<mvars, client, owner, position, committed, batch, todo, processed, commits,
                   handled, dropped, rebalances, crashes>>

\* Seeded fault: nothing returns after shutdown(), and consume() runs again.
CallbackTerminates_NoReturn(m, l) ==
    /\ loop[m][l] = "callback"
    /\ Terminate(m)
    /\ loop' = [loop EXCEPT ![m][l] = "fetching"]
    /\ batch' = [batch EXCEPT ![m][l] = {}]
    /\ UNCHANGED <<client, owner, position, committed, todo, processed, commits,
                   handled, dropped, rebalances, crashes>>

\* What disconnect() does to a client: nothing while an earlier disconnect()
\* runs, so that a reconnect() still connects and 'ready' starts its loop.
AfterDisconnect(c) ==
    CASE c \in {"subscribed", "connecting"} -> "closing"
      [] c \in {"reconnecting", "closing"}  -> c
      [] OTHER                              -> "disconnected"

\* consumeCallback, first way out: shutdown() disconnects and terminates.
CallbackTerminates(m, l) ==
    /\ loop[m][l] = "callback"
    /\ Terminate(m)
    /\ loop' = [loop EXCEPT ![m][l] = "stopped"]
    /\ batch' = [batch EXCEPT ![m][l] = {}]
    /\ client' = [client EXCEPT ![m] = AfterDisconnect(@)]
    /\ UNCHANGED <<owner, position, committed, todo, processed, commits,
                   handled, dropped, rebalances, crashes>>

\* Second: the runner is paused; the messages it was given are not kept.
CallbackPaused(m, l) ==
    /\ loop[m][l] = "callback"
    /\ state[m] = "paused"
    /\ loop' = [loop EXCEPT ![m][l] = "sleeping"]
    /\ dropped' = dropped \cup batch[m][l]
    /\ batch' = [batch EXCEPT ![m][l] = {}]
    /\ UNCHANGED <<mvars, client, owner, position, committed, todo, processed, commits,
                   handled, rebalances, crashes>>

WakeUp(m, l) ==
    /\ loop[m][l] = "sleeping"
    /\ loop' = [loop EXCEPT ![m][l] = "fetching"]
    /\ UNCHANGED <<mvars, client, owner, position, committed, batch, todo, processed, commits,
                   handled, dropped, rebalances, crashes>>

\* Seeded fault: the callback does not ask whether it should terminate.
CallbackRuns_Unchecked(m, l) ==
    /\ loop[m][l] = "callback"
    /\ state[m] # "paused"
    /\ loop' = [loop EXCEPT ![m][l] = IF batch[m][l] = {} THEN "fetching" ELSE "processing"]
    /\ todo' = [todo EXCEPT ![m][l] = batch[m][l]]
    /\ UNCHANGED <<mvars, client, owner, position, committed, batch, processed, commits,
                   handled, dropped, rebalances, crashes>>

\* Third: an error or no messages: consume again.  Fourth: process the batch.
CallbackRuns(m, l) ==
    /\ loop[m][l] = "callback"
    /\ state[m] = "running"
    /\ loop' = [loop EXCEPT ![m][l] = IF batch[m][l] = {} THEN "fetching" ELSE "processing"]
    /\ todo' = [todo EXCEPT ![m][l] = batch[m][l]]
    /\ UNCHANGED <<mvars, client, owner, position, committed, batch, processed, commits,
                   handled, dropped, rebalances, crashes>>

\* receive() of one message settles; Bluebird.map promises no order.
Settle(m, l, x) ==
    /\ loop[m][l] = "processing"
    /\ x \in todo[m][l]
    /\ todo' = [todo EXCEPT ![m][l] = @ \ {x}]
    /\ handled' = handled \cup {x}
    /\ UNCHANGED <<mvars, client, owner, position, committed, loop, batch, processed, commits,
                   dropped, rebalances, crashes>>

\* commitBatch(): for every partition of the batch, the offset after its
\* highest message; 0 for a partition that is not in the batch.
NextOffset(b, p, o) ==
    IF \E x \in b : x.partition = p
    THEN /\ \E x \in b : x.partition = p /\ o = x.offset + 1
         /\ \A x \in b : x.partition = p => x.offset < o
    ELSE o = 0

CommitBatch(m, l) ==
    \E next \in [Partitions -> Offset] :
       /\ \A p \in Partitions : NextOffset(batch[m][l], p, next[p])
       /\ commits' = [commits EXCEPT ![m] =
             [p \in Partitions |-> IF next[p] > 0 THEN Append(@[p], next[p]) ELSE @[p]]]
       /\ processed' = [processed EXCEPT ![m] =
             [p \in Partitions |-> IF next[p] > 0 THEN next[p] ELSE @[p]]]

\* commitMessage() throws when the client is not connected, and may while it
\* disconnects: nothing is queued or recorded, the finally consumes again, and
\* the rejection nobody handles may end the process (Crash).
CompleteBatch(m, l) ==
    /\ loop[m][l] = "processing"
    /\ todo[m][l] = {}
    /\ \/ /\ client[m] \in {"subscribed", "idle", "evicted", "reconnecting", "closing"}
          /\ CommitBatch(m, l)
       \/ /\ client[m] \notin {"subscribed", "idle", "evicted"}
          /\ UNCHANGED <<commits, processed>>
    /\ batch' = [batch EXCEPT ![m][l] = {}]
    /\ loop' = [loop EXCEPT ![m][l] = "fetching"]
    /\ UNCHANGED <<mvars, client, owner, position, committed, todo,
                   handled, dropped, rebalances, crashes>>

-----------------------------------------------------------------------------
(* The group: commits, assignments, revocations, departures.                *)

\* A queued commit reaches the broker.
BrokerCommit(m, p) ==
    /\ client[m] \in {"subscribed", "reconnecting", "closing"}
    /\ commits[m][p] # <<>>
    /\ committed' = [committed EXCEPT ![p] = Head(commits[m][p])]
    /\ commits' = [commits EXCEPT ![m][p] = Tail(@)]
    /\ UNCHANGED <<mvars, client, owner, position, loop, batch, todo, processed,
                   handled, dropped, rebalances, crashes>>

\* A queued commit fails, as every commit of an evicted member does;
\* offset_commit_cb only logs it.
CommitFails(m, p) ==
    /\ m \in Flaky \/ client[m] = "evicted"
    /\ commits[m][p] # <<>>
    /\ commits' = [commits EXCEPT ![m][p] = Tail(@)]
    /\ UNCHANGED <<mvars, client, owner, position, committed, loop, batch, todo, processed,
                   handled, dropped, rebalances, crashes>>

Assign(m, p) ==
    /\ client[m] = "subscribed"
    /\ owner[p] = None
    /\ owner' = [owner EXCEPT ![p] = m]
    /\ position' = [position EXCEPT ![p] = committed[p]]
    /\ UNCHANGED <<mvars, client, committed, loop, batch, todo, processed, commits,
                   handled, dropped, rebalances, crashes>>

\* Seeded fault: the flush commits the offset after the next one.
FlushOffsets_OneFurther(m, outcome) ==
    /\ processed' = [processed EXCEPT ![m] = NoEntries]
    /\ CASE outcome = "empty" -> processed[m] = NoEntries /\ UNCHANGED committed
         [] outcome = "committed" ->
              /\ processed[m] # NoEntries
              /\ commits[m] = NoCommits
              /\ committed' = [p \in Partitions |->
                                  IF processed[m][p] > 0 THEN processed[m][p] + 1 ELSE committed[p]]
         [] outcome = "failed" ->
              /\ processed[m] # NoEntries
              /\ m \in Flaky \/ client[m] = "evicted"
              /\ UNCHANGED committed

\* Seeded fault: the flush commits the stored offsets, not the processed ones.
FlushOffsets_Stored(m, outcome) ==
    /\ processed' = [processed EXCEPT ![m] = NoEntries]
    /\ CASE outcome = "empty" -> processed[m] = NoEntries /\ UNCHANGED committed
         [] outcome = "committed" ->
              /\ processed[m] # NoEntries
              /\ commits[m] = NoCommits
              /\ committed' = [p \in Partitions |->
                                  IF owner[p] = m THEN position[p] ELSE committed[p]]
         [] outcome = "failed" ->
              /\ processed[m] # NoEntries
              /\ m \in Flaky \/ client[m] = "evicted"
              /\ UNCHANGED committed

\* flushOffsets(): commitSync of every entry, behind the commits still queued.
\* When it throws the error is caught; the entries are gone in all cases.
FlushOffsets(m, outcome) ==
    /\ processed' = [processed EXCEPT ![m] = NoEntries]
    /\ CASE outcome = "empty" -> processed[m] = NoEntries /\ UNCHANGED committed
         [] outcome = "committed" ->
              /\ processed[m] # NoEntries
              /\ commits[m] = NoCommits
              /\ committed' = [p \in Partitions |->
                                  IF processed[m][p] > 0 THEN processed[m][p] ELSE committed[p]]
         [] outcome = "failed" ->
              /\ processed[m] # NoEntries
              /\ m \in Flaky \/ client[m] = "evicted"
              /\ UNCHANGED committed

FlushOutcome == {"empty", "committed", "failed"}

\* The 'rebalance' event that takes partitions away.
Revoke(m, revoked) ==
    /\ client[m] = "subscribed"
    /\ revoked # {}
    /\ revoked \subseteq Owned(m)
    /\ rebalances < MaxRebalances
    /\ rebalances' = rebalances + 1
    /\ \E outcome \in FlushOutcome : FlushOffsets(m, outcome)
    /\ owner' = [p \in Partitions |-> IF p \in revoked THEN None ELSE owner[p]]
    /\ UNCHANGED <<mvars, client, position, loop, batch, todo, commits,
                   handled, dropped, crashes>>

\* A batch takes longer than max.poll.interval.ms: the broker evicts the
\* member and takes no commit from it.  The next consume() notices: the
\* revocation event flushes, which fails, and the member joins again.
Evict(m) ==
    /\ client[m] = "subscribed"
    /\ \E l \in Loops : loop[m][l] = "processing"
    /\ rebalances < MaxRebalances
    /\ rebalances' = rebalances + 1
    /\ client' = [client EXCEPT ![m] = "evicted"]
    /\ owner' = Released(m)
    /\ UNCHANGED <<mvars, position, committed, loop, batch, todo, processed, commits,
                   handled, dropped, crashes>>

Rejoin(m) ==
    /\ client[m] = "evicted"
    /\ \E l \in Loops : loop[m][l] = "fetching"
    /\ client' = [client EXCEPT ![m] = "subscribed"]
    /\ commits' = [commits EXCEPT ![m] = NoCommits]
    /\ \E outcome \in {"empty", "failed"} : FlushOffsets(m, outcome)
    /\ UNCHANGED <<mvars, owner, position, loop, batch, todo,
                   handled, dropped, rebalances, crashes>>

\* disconnect() has left the group.  Closing revokes the partitions; whether
\* the event still reaches the runner depends on the client.
Disconnected(m) ==
    /\ client[m] \in {"reconnecting", "closing"}
    /\ client' = [client EXCEPT ![m] = IF @ = "closing" THEN "disconnected" ELSE "connecting"]
    /\ owner' = Released(m)
    /\ commits' = [commits EXCEPT ![m] = NoCommits]
    /\ \/ \E outcome \in FlushOutcome : FlushOffsets(m, outcome)
       \/ UNCHANGED <<processed, committed>>
    /\ UNCHANGED <<mvars, position, loop, batch, todo, handled, dropped, rebalances, crashes>>

\* The process dies; its memory is gone and the group takes its partitions.
Crash(m) ==
    /\ client[m] # "crashed"
    /\ crashes < MaxCrashes
    /\ crashes' = crashes + 1
    /\ client' = [client EXCEPT ![m] = "crashed"]
    /\ owner' = Released(m)
    /\ loop' = [loop EXCEPT ![m] = [l \in Loops |-> "stopped"]]
    /\ batch' = [batch EXCEPT ![m] = [l \in Loops |-> {}]]
    /\ todo' = [todo EXCEPT ![m] = [l \in Loops |-> {}]]
    /\ processed' = [processed EXCEPT ![m] = NoEntries]
    /\ commits' = [commits EXCEPT ![m] = NoCommits]
    /\ UNCHANGED <<mvars, position, committed, handled, dropped, rebalances>>

-----------------------------------------------------------------------------
LoopStep(m, l) ==
    \/ CallbackTerminates(m, l)
    \/ CallbackPaused(m, l)
    \/ WakeUp(m, l)
    \/ CallbackRuns(m, l)
    \/ \E x \in Message : Settle(m, l, x)
    \/ CompleteBatch(m, l)

Consume(m, l) == Deliver(m, l) \/ DeliverNothing(m, l)

GroupStep(m) ==
    \/ Reconnect(m)
    \/ \E p \in Partitions : BrokerCommit(m, p) \/ CommitFails(m, p) \/ Assign(m, p)
    \/ \E revoked \in SUBSET Partitions : Revoke(m, revoked)
    \/ Evict(m)
    \/ Rejoin(m)
    \/ Disconnected(m)
    \/ Crash(m)

Lifecycle(m) == client[m] # "crashed" /\ ManagerStep(m) /\ UNCHANGED kvars

Next ==
    \E m \in Procs :
        \/ Ready(m)
        \/ ConnectFail(m)
        \/ \E l \in Loops : Consume(m, l) \/ LoopStep(m, l)
        \/ GroupStep(m)
        \/ Lifecycle(m)

SafeSpec == Init /\ [][Next]_vars

\* A stop() call goes on ticking.
ShutdownTicks(m) ==
    /\ client[m] # "crashed"
    /\ \E c \in Calls : ShutdownStep(m, c)
    /\ UNCHANGED kvars

\* The client connects, the loop's callbacks run and the handlers settle, an
\* evicted or disconnecting client gets through, and the group assigns a
\* partition that a subscribed member could own.  consume() calls back again
\* and again, and not always empty-handed.
Fairness ==
    /\ \A m \in Procs :
          /\ WF_vars(Ready(m))
          /\ WF_vars(Rejoin(m))
          /\ WF_vars(Disconnected(m))
          /\ WF_vars(ShutdownTicks(m))
          /\ \A l \in Loops :
                /\ WF_vars(Consume(m, l))
                /\ SF_vars(Deliver(m, l))
                /\ WF_vars(LoopStep(m, l))
    /\ \A p \in Partitions : WF_vars(\E m \in Procs : Assign(m, p))

Spec == SafeSpec /\ Fairness

-----------------------------------------------------------------------------
\* Every message below an offset has been handled, or thrown away by a pause.
Covered(p, o) == \A x \in Message :
    x.partition = p /\ x.offset < o => x \in handled \cup dropped

\* Some stop() call of the process may have forced the termination.
Forced(m) == \E c \in Calls : count[m][c] = Tries

(* Without a reconnect, no offset runs ahead of the processing: not the     *)
(* committed one, not one in the queue, and not one a revocation would      *)
(* flush.  Only a paused loop leaves a gap (commitBatch, flushOffsets,      *)
(* consumeCallback), whatever is revoked, evicted, failed or crashed while  *)
(* batches are in hand.                                                     *)
OffsetsCovered ==
    MaxLoops = 1 =>
        /\ \A p \in Partitions : Covered(p, committed[p])
        /\ \A m \in Procs, p \in Partitions : Covered(p, processed[m][p])
        /\ \A m \in Procs, p \in Partitions :
              \A i \in DOMAIN commits[m][p] : Covered(p, commits[m][p][i])

(* The offsets that are committed are those of processed messages: nothing  *)
(* the group has committed past was never handled.                          *)
NothingLost ==
    \A x \in Message : x.offset < committed[x.partition] => x \in handled

(* The committed offset of a partition between two owners is what the old   *)
(* owner has flushed: it does not move back until the partition is assigned *)
(* (flushOffsets runs "while the old generation is still current").         *)
FlushedOffsetKept ==
    [][\A p \in Partitions : owner[p] = None => committed'[p] >= committed[p]]_vars

\* At most one consume loop of the process was ever started.
OneLoop(m) == \A l, k \in Loops : loop[m][l] # "off" /\ loop[m][k] # "off" => l = k

(* When the runner, and not an exhausted wait, has terminated a process     *)
(* that was connected once, no handler is still running and no loop can     *)
(* start one (consumeCallback, shutdown; the manager reports the consumer   *)
(* as terminated).  A second loop may run on: it stops at its next callback.*)
GracefulTermination ==
    \A m \in Procs :
        OneLoop(m) /\ IsTerminated(m) /\ ~Forced(m) =>
            \A l \in Loops : todo[m][l] = {} /\ loop[m][l] \in {"off", "stopped"}

(* After stop() has returned the process starts no new batch: at most it    *)
(* finishes the one a forced termination left in its hands, as long as the  *)
(* application does not resume it (consumeCallback reads the state first).  *)
NoBatchAfterStop ==
    [][\A m \in Procs, l \in Loops :
          LateCalls = {} /\ (\E c \in Calls : call[m][c] = "done") =>
              todo'[m][l] \subseteq todo[m][l]]_vars

(* If nobody pauses or stops a process and one of them survives, every      *)
(* message is handled, although partitions are revoked, members evicted and *)
(* processes crash with batches in hand (commitBatch, flushOffsets).        *)
EveryMessageHandled == <>(handled = Message)

(* Every stop() call returns, even in a process that never got a connection *)
(* or never had a topic to consume (Manager.shutdown).                      *)
StopAlwaysReturns ==
    \A m \in Procs, c \in Calls :
        call[m][c] = "waiting" ~> call[m][c] = "done" \/ client[m] = "crashed"
-----------------------------------------------------------------------------
(* Why OffsetsCovered is kept: the inductive argument, for a process with   *)
(* its one loop.                                                            *)

\* x has been dealt with, or process m has it in its hands.
DealtWith(m, x) == x \in handled \cup dropped \cup batch[m][1]

\* An owner that can still fetch has dealt with all it has fetched.
PositionCovered ==
    \A m \in Procs, p \in Partitions :
        owner[p] = m /\ loop[m][1] # "stopped" =>
            \A x \in Message :
                x.partition = p /\ x.offset < position[p] => DealtWith(m, x)

\* A batch in hand has nothing open below it.
BatchCovered ==
    \A m \in Procs : \A y \in batch[m][1], x \in Message :
        x.partition = y.partition /\ x.offset < y.offset => DealtWith(m, x)

\* A batch is in hand only from its delivery to its commit, and what is not
\* left to do of it is done.
BatchInHand ==
    \A m \in Procs :
        /\ loop[m][1] \notin {"callback", "processing"} => batch[m][1] = {}
        /\ loop[m][1] = "processing" => batch[m][1] \subseteq todo[m][1] \cup handled

Inductive ==
    MaxLoops = 1 => OffsetsCovered /\ PositionCovered /\ BatchCovered /\ BatchInHand
=============================================================================
