-------------------------------- MODULE Queues --------------------------------
(***************************************************************************)
(* How the queues of topics come to exist: initialize() of the producers of *)
(* the four engines (packages/steveo/src/producers), which is called before *)
(* a message is sent, and createQueue() of the runners (consumers).  Every  *)
(* request is one step, and other set-ups go on in between.                 *)
(*                                                                         *)
(* Names are left out but for what they tell apart: a topic has one queue   *)
(* (for a FIFO task under the name <topic>.fifo), and a dead letter queue.  *)
(* A FIFO task is one with options.fifo: its topic has no suffix itself.    *)
(*                                                                         *)
(* External: the brokers.  A request may fail (MaxFaults), whether or not   *)
(* it has had its effect.  SQS answers the creation of a queue that exists  *)
(* with its URL, or with an error when it has other attributes, and refuses *)
(* a FIFO queue with a dead letter queue that is not one; rsmq and Kafka    *)
(* answer with an error when the queue exists.                              *)
(***************************************************************************)
EXTENDS Naturals

CONSTANTS
    Engines,    \* the engines that may be configured
    Topics,
    Fifo,       \* the sets of those whose task may have options.fifo
    WithDlq,    \* those whose task has options.deadLetterQueue
    Setups,     \* who sets a queue up,
    Consumers,  \* those of them that are runners,
    Topic,      \* and for which topic
    MaxFaults   \* bound: requests that fail

ASSUME QueuesAssumption ==
    /\ Engines # {} /\ Engines \subseteq {"kafka", "sqs", "redis", "dummy"}
    /\ Fifo # {} /\ Fifo \subseteq SUBSET Topics
    /\ WithDlq \subseteq Topics
    /\ Consumers \subseteq Setups
    /\ Topic \in [Setups -> Topics]
    /\ MaxFaults \in Nat

Stage == {"off", "url", "dlqUrl", "dlqCreate", "arn", "create", "list", "connecting", "ok", "bad"}

VARIABLES
    engine,     \* the one that is configured
    fifo,       \* the topics whose task has options.fifo
    queues,     \* the topics whose queue exists,
    dlqs,       \* those whose dead letter queue exists,
    redrive,    \* and those whose queue was created with a RedrivePolicy
    urls,       \* the topics whose queue is in the producer's sqsUrls
    conn,       \* the Kafka producer's connection: "off", "pending" or "on"
    stage,      \* how far every set-up is
    policy,     \* the set-ups that have a RedrivePolicy to give
    creating,   \* the set-ups whose creation of a Redis queue is on its way
    unhandled,  \* and those whose creation has failed, with nobody to notice
    faults

configured == <<engine, fifo>>
queueVars == <<configured, queues, dlqs, redrive, urls, conn, stage, policy, creating, unhandled, faults>>

QTypeOK ==
    /\ engine \in Engines /\ fifo \in Fifo
    /\ {queues, dlqs, redrive, urls} \subseteq SUBSET Topics
    /\ conn \in {"off", "pending", "on"}
    /\ stage \in [Setups -> Stage]
    /\ {policy, creating, unhandled} \subseteq SUBSET Setups
    /\ faults \in 0 .. MaxFaults

QInit ==
    /\ engine \in Engines /\ fifo \in Fifo
    /\ queues = {} /\ dlqs = {} /\ redrive = {} /\ urls = {}
    /\ conn = "off"
    /\ stage = [s \in Setups |-> "off"]
    /\ policy = {} /\ creating = {} /\ unhandled = {}
    /\ faults = 0

Fault == faults < MaxFaults /\ faults' = faults + 1
Fine == UNCHANGED faults
To(s, st) == stage' = [stage EXCEPT ![s] = st]
NewSet(set, x) == set' = set \cup {x}

\* getDeadLetterQueuePolicy() asks the registry for the task of a topic.  The
\* producer asks with the name of the queue, which for a FIFO task is not that
\* of the topic: it finds none.
SupportsDlq(s) == Topic[s] \in WithDlq /\ (Topic[s] \in fifo => s \in Consumers)

AfterUrl(s) == IF SupportsDlq(s) THEN "dlqUrl" ELSE "create"

\* What initialize(), or createQueue() of a runner, does first.
First(s) ==
    CASE engine = "sqs" -> IF s \in Consumers THEN AfterUrl(s) ELSE "url"
      [] engine = "redis" -> "list"
      [] engine = "kafka" -> IF s \in Consumers THEN "create"
                             ELSE IF conn = "on" THEN "ok" ELSE "connecting"
      [] OTHER -> "ok"

\* connect() is called again while a connection is on its way.
Begin(s) ==
    /\ To(s, First(s))
    /\ conn' = IF First(s) = "connecting" THEN "pending" ELSE conn
    /\ UNCHANGED <<configured, queues, dlqs, redrive, urls, policy, creating, unhandled, faults>>

-----------------------------------------------------------------------------
\* SQS.

\* getQueueUrl(): that it fails counts as that there is no such queue.
GetUrl(s) ==
    /\ stage[s] = "url"
    /\ \/ Topic[s] \in queues /\ Fine /\ NewSet(urls, Topic[s]) /\ To(s, "ok")
       \/ /\ (Topic[s] \notin queues /\ Fine) \/ Fault
          /\ To(s, AfterUrl(s))
          /\ UNCHANGED urls
    /\ UNCHANGED <<configured, queues, dlqs, redrive, conn, policy, creating, unhandled>>

\* getDeadLetterQueuePolicy(): the queue is looked up or created, and its ARN
\* retrieved.
GetDlqUrl(s) ==
    /\ stage[s] = "dlqUrl"
    /\ \/ Topic[s] \in dlqs /\ Fine /\ To(s, "arn")
       \/ ((Topic[s] \notin dlqs /\ Fine) \/ Fault) /\ To(s, "dlqCreate")
    /\ UNCHANGED <<configured, queues, dlqs, redrive, urls, conn, policy, creating, unhandled>>

\* Seeded fault: a queue that cannot be created is done without.
CreateDlq_Optional(s) ==
    /\ stage[s] = "dlqCreate"
    /\ \/ Fine /\ NewSet(dlqs, Topic[s]) /\ To(s, "arn")
       \/ Fault /\ UNCHANGED dlqs /\ To(s, "create")
    /\ UNCHANGED <<configured, queues, redrive, urls, conn, policy, creating, unhandled>>

CreateDlq(s) ==
    /\ stage[s] = "dlqCreate"
    /\ \/ Fine /\ NewSet(dlqs, Topic[s]) /\ To(s, "arn")
       \/ Fault /\ (NewSet(dlqs, Topic[s]) \/ UNCHANGED dlqs) /\ To(s, "bad")
    /\ UNCHANGED <<configured, queues, redrive, urls, conn, policy, creating, unhandled>>

GetArn(s) ==
    /\ stage[s] = "arn"
    /\ \/ Fine /\ NewSet(policy, s) /\ To(s, "create")
       \/ Fault /\ UNCHANGED policy /\ To(s, "bad")
    /\ UNCHANGED <<configured, queues, dlqs, redrive, urls, conn, creating, unhandled>>

\* The queue is created with the policy of the set-up, ...
CreateWithPolicy(s) ==
    /\ NewSet(queues, Topic[s])
    /\ redrive' = redrive \cup {t \in {Topic[s]} : s \in policy}

\* ... unless it exists with another, or is a FIFO queue, whose dead letter
\* queue would have to be one too.
Conflict(s) ==
    \/ Topic[s] \in queues /\ ~(s \in policy <=> Topic[s] \in redrive)
    \/ Topic[s] \in fifo /\ s \in policy

CreateQueue(s) ==
    /\ engine = "sqs" /\ stage[s] = "create"
    /\ \/ /\ ~Conflict(s) /\ Fine
          /\ CreateWithPolicy(s)
          /\ urls' = IF s \in Consumers THEN urls ELSE urls \cup {Topic[s]}
          /\ To(s, "ok")
       \/ /\ ~Conflict(s) /\ Fault
          /\ CreateWithPolicy(s) \/ UNCHANGED <<queues, redrive>>
          /\ UNCHANGED urls
          /\ To(s, "bad")
       \/ Conflict(s) /\ Fine /\ UNCHANGED <<queues, redrive, urls>> /\ To(s, "bad")
    /\ UNCHANGED <<configured, dlqs, conn, policy, creating, unhandled>>

-----------------------------------------------------------------------------
\* Redis.

\* listQueues(); the producer does not wait for the creation it starts.
ListQueues(s) ==
    /\ stage[s] = "list"
    /\ \/ Topic[s] \in queues /\ Fine /\ To(s, "ok") /\ UNCHANGED creating
       \/ /\ Topic[s] \notin queues /\ Fine
          /\ IF s \in Consumers
             THEN To(s, "create") /\ UNCHANGED creating
             ELSE To(s, "ok") /\ NewSet(creating, s)
       \/ Fault /\ To(s, "bad") /\ UNCHANGED creating
    /\ UNCHANGED <<configured, queues, dlqs, redrive, urls, conn, policy, unhandled>>

CreateLands(s) ==
    /\ s \in creating
    /\ creating' = creating \ {s}
    /\ \/ Topic[s] \notin queues /\ Fine /\ NewSet(queues, Topic[s]) /\ UNCHANGED unhandled
       \/ Topic[s] \in queues /\ Fine /\ NewSet(unhandled, s) /\ UNCHANGED queues
       \/ Fault /\ NewSet(unhandled, s) /\ UNCHANGED queues
    /\ UNCHANGED <<configured, dlqs, redrive, urls, conn, stage, policy>>

\* The runners' creation of a Redis queue or a Kafka topic; createQueues() logs
\* an error and goes on.
CreateOnce(s) ==
    /\ engine \in {"redis", "kafka"} /\ stage[s] = "create"
    /\ \/ Topic[s] \notin queues /\ Fine /\ NewSet(queues, Topic[s]) /\ To(s, "ok")
       \/ Topic[s] \in queues /\ Fine /\ UNCHANGED queues /\ To(s, "bad")
       \/ Fault /\ (NewSet(queues, Topic[s]) \/ UNCHANGED queues) /\ To(s, "bad")
    /\ UNCHANGED <<configured, dlqs, redrive, urls, conn, policy, creating, unhandled>>

-----------------------------------------------------------------------------
\* Kafka.

\* The event 'ready' resolves all that wait for it.
Ready ==
    /\ conn = "pending"
    /\ conn' = "on"
    /\ stage' = [s \in Setups |-> IF stage[s] = "connecting" THEN "ok" ELSE stage[s]]
    /\ UNCHANGED <<configured, queues, dlqs, redrive, urls, policy, creating, unhandled, faults>>

\* Seeded fault: nobody limits the wait.
ConnectFails_NoTimeout(s) ==
    /\ stage[s] = "connecting"
    /\ Fault
    /\ To(s, "bad")
    /\ UNCHANGED <<configured, queues, dlqs, redrive, urls, conn, policy, creating, unhandled>>

\* An error of connect(), or connectionTimeout: a connection may come later.
ConnectFails(s) ==
    /\ stage[s] = "connecting"
    /\ To(s, "bad")
    /\ UNCHANGED <<configured, queues, dlqs, redrive, urls, conn, policy, creating, unhandled, faults>>

\* stop(), from the manager's shutdown: later messages are rejected.
Disconnect ==
    /\ conn = "on"
    /\ Fault
    /\ conn' = "off"
    /\ UNCHANGED <<configured, queues, dlqs, redrive, urls, stage, policy, creating, unhandled>>

SetupStep(s) ==
    \/ GetUrl(s) \/ GetDlqUrl(s) \/ CreateDlq(s) \/ GetArn(s) \/ CreateQueue(s)
    \/ ListQueues(s) \/ CreateLands(s) \/ CreateOnce(s)
    \/ ConnectFails(s)
=============================================================================
