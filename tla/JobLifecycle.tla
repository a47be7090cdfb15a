----------------------------- MODULE JobLifecycle -----------------------------
(***************************************************************************)
(* What a scheduled job promises, in both of the schedulers: its row is     *)
(* dormant, running (queued) or accepted, it only goes round in that order, *)
(* and one run ends before the next is queued.  Only a message that the     *)
(* queue delivers again may end a run out of turn; it queues none, and does *)
(* not bring back a job that is deleted.                                    *)
(***************************************************************************)
CONSTANT Jobs

VARIABLES
    state,   \* of every row
    once,    \* the jobs that are without a repeatInterval, throughout
    again    \* the jobs of which a message has been delivered again

Dormant == "dormant"     \* waits for its next run
Running == "running"     \* queued, and not yet accepted
Accepted == "accepted"   \* worked on
Deleted == "deleted"     \* a one-off job that is done

LInit ==
    /\ state = [j \in Jobs |-> Dormant]
    /\ once \subseteq Jobs
    /\ again = {}

\* A scheduler queues some of the dormant jobs at once.
Queue(js) ==
    /\ \A j \in js : state[j] = Dormant
    /\ state' = [j \in Jobs |-> IF j \in js THEN Running ELSE state[j]]

Accept(j) == state[j] = Running /\ state' = [state EXCEPT ![j] = Accepted]

MayEnd(j) == state[j] = Accepted \/ (j \in again /\ state[j] # Deleted)

\* The run ends, well or badly.
Finish(j) ==
    /\ MayEnd(j)
    /\ state' = [state EXCEPT ![j] = IF j \in once THEN Deleted ELSE Dormant]

Retry(j) == MayEnd(j) /\ state' = [state EXCEPT ![j] = Dormant]

Repeat(j) == again' = again \cup {j} /\ UNCHANGED state

LNext ==
    \/ /\ \/ \E js \in SUBSET Jobs : Queue(js)
          \/ \E j \in Jobs : Accept(j) \/ Finish(j) \/ Retry(j)
       /\ UNCHANGED again
    \/ \E j \in Jobs : Repeat(j)

LSpec == LInit /\ [][LNext /\ UNCHANGED once]_<<state, once, again>>
=============================================================================
