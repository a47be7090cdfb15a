------------------------------- MODULE Publisher -------------------------------
(***************************************************************************)
(* How messages are published: Task.publish() sets its queue up and sends   *)
(* all its payloads at once (packages/steveo/src/runtime/task.ts),          *)
(* Steveo.publish() sends one without (index.ts), registerTopic() only sets *)
(* the queue up, and the runners create queues too.  Every send() of a      *)
(* producer goes through the publish middleware (producers).  Calls overlap *)
(* in one process, which has one producer: they interleave at every await.  *)
(*                                                                         *)
(* Every topic is registered.  Payloads and events are left out.            *)
(***************************************************************************)
EXTENDS Middleware, Queues, FiniteSets

CONSTANTS
    Calls,      \* of Task.publish(), Steveo.publish() and registerTopic();
    Direct,     \* those of Steveo.publish(), which do not initialize()
    Sends,      \* the messages to be sent
    Plans       \* which call may send which

ASSUME PublisherAssumption ==
    /\ Runs = Sends
    /\ Setups = Calls \cup Sends \cup Consumers
    /\ Direct \subseteq Calls
    /\ Plans # {} /\ Plans \subseteq [Sends -> Calls]
    /\ \A plan \in Plans, m \in Sends : Topic[m] = Topic[plan[m]]

VARIABLES
    callOf,     \* the call that sends each message
    call,       \* how far every call is
    work,       \* how far the innermost handler of every send() is
    sent        \* how often the broker has got every message

vars == <<mwVars, queueVars, callOf, call, work, sent>>

TypeOK ==
    /\ MwTypeOK
    /\ QTypeOK
    /\ callOf \in Plans
    /\ call \in [Calls -> {"idle", "setup", "sending", "success", "failure"}]
    /\ work \in [Sends -> {"begin", "setup", "send", "attributes"}]
    /\ sent \in [Sends -> 0 .. 1]

Init ==
    /\ MwInit
    /\ QInit
    /\ callOf \in Plans
    /\ call = [c \in Calls |-> "idle"]
    /\ work = [m \in Sends |-> "begin"]
    /\ sent = [m \in Sends |-> 0]

SendsOf(c) == {m \in Sends : callOf[m] = c}
Goes(c, st) == call' = [call EXCEPT ![c] = st]
Works(m, st) == work' = [work EXCEPT ![m] = st]

\* send() of all the call's messages, each with a run of the chain: the first
\* link is dispatched.
SendAll(c) ==
    /\ index' = [m \in Sends |-> IF callOf[m] = c THEN 1 ELSE index[m]]
    /\ link' = [m \in Sends |->
                   IF callOf[m] = c
                   THEN [link[m] EXCEPT ![1] = IF Lacking(1) THEN "ok" ELSE "running"]
                   ELSE link[m]]
    /\ UNCHANGED nature

-----------------------------------------------------------------------------
\* The calls.

\* Task.publish() and registerTopic(), which is done after that, initialize()
\* first.
CallBegins(c) ==
    /\ call[c] = "idle"
    /\ c \in Direct => SendsOf(c) # {}
    /\ IF c \in Direct
       THEN Goes(c, "sending") /\ SendAll(c) /\ UNCHANGED queueVars
       ELSE Goes(c, "setup") /\ Begin(c) /\ UNCHANGED mwVars
    /\ UNCHANGED <<work, sent>>

CallContinues(c) ==
    /\ call[c] = "setup"
    /\ \/ stage[c] = "bad" /\ Goes(c, "failure") /\ UNCHANGED mwVars
       \/ stage[c] = "ok" /\ Goes(c, "sending") /\ SendAll(c)
    /\ UNCHANGED <<queueVars, work, sent>>

\* Seeded fault: the first of the sends settles the call.
CallEnds_First(c) ==
    /\ call[c] = "sending"
    /\ \/ (\E m \in SendsOf(c) : Outcome(m) = "bad") /\ Goes(c, "failure")
       \/ (\E m \in SendsOf(c) : Outcome(m) = "ok") /\ Goes(c, "success")
    /\ UNCHANGED <<mwVars, queueVars, work, sent>>

\* Promise.all(): the first rejection settles the call, and the other sends
\* go on.
CallEnds(c) ==
    /\ call[c] = "sending"
    /\ \/ (\E m \in SendsOf(c) : Outcome(m) = "bad") /\ Goes(c, "failure")
       \/ (\A m \in SendsOf(c) : Outcome(m) = "ok") /\ Goes(c, "success")
    /\ UNCHANGED <<mwVars, queueVars, work, sent>>

\* A runner creates the queue of a topic.
RunnerCreatesQueue(s) ==
    /\ s \in Consumers /\ stage[s] = "off"
    /\ Begin(s)
    /\ UNCHANGED <<mwVars, call, work, sent>>

-----------------------------------------------------------------------------
\* The innermost handler of send().

Handling(m) == link[m][Handler] = "running"

HandlerEnds(m, result) ==
    /\ Ends(m, Handler, result)
    /\ Works(m, "begin")
    /\ UNCHANGED <<nature, index>>

\* The SQS producer looks for the URL under the name of the topic, and so it
\* initializes the queue of a FIFO task again with every message.
UrlKnown(m) == Topic[m] \in urls \ fifo

HandlerBegins(m) ==
    /\ Handling(m) /\ work[m] = "begin"
    /\ IF engine = "sqs" /\ ~UrlKnown(m)
       THEN Works(m, "setup") /\ Begin(m)
       ELSE Works(m, "send") /\ UNCHANGED queueVars
    /\ UNCHANGED <<mwVars, call, sent>>

HandlerContinues(m) ==
    /\ Handling(m) /\ work[m] = "setup"
    /\ \/ stage[m] = "ok" /\ Works(m, "send") /\ UNCHANGED mwVars
       \/ stage[m] = "bad" /\ HandlerEnds(m, "bad")
    /\ UNCHANGED <<queueVars, call, sent>>

\* Whether the broker takes the message: a Kafka producer has to be connected,
\* and a Redis queue to exist.
Accepting(m) ==
    CASE engine = "kafka" -> conn = "on"
      [] engine = "redis" -> Topic[m] \in queues
      [] OTHER -> TRUE

Arrives(m) == sent' = [sent EXCEPT ![m] = @ + 1]

\* The request is refused, or fails, with its effect or without.
Refused(m) ==
    /\ Handling(m) /\ work[m] = "send"
    /\ engine # "dummy"
    /\ \/ ~Accepting(m) /\ UNCHANGED <<sent, faults>>
       \/ Accepting(m) /\ Fault /\ (Arrives(m) \/ UNCHANGED sent)
    /\ HandlerEnds(m, "bad")
    /\ UNCHANGED <<configured, queues, dlqs, redrive, urls, conn, stage, policy, creating, unhandled, call>>

\* The Redis producer asks for the attributes of the queue before it is done;
\* the dummy one sends nothing.
Sent(m) ==
    /\ Handling(m) /\ work[m] = "send"
    /\ Accepting(m)
    /\ IF engine = "dummy" THEN UNCHANGED sent ELSE Arrives(m)
    /\ IF engine = "redis"
       THEN Works(m, "attributes") /\ UNCHANGED mwVars
       ELSE HandlerEnds(m, "ok")
    /\ UNCHANGED <<queueVars, call>>

GetAttributes(m) ==
    /\ Handling(m) /\ work[m] = "attributes"
    /\ \/ Fine /\ HandlerEnds(m, "ok")
       \/ Fault /\ HandlerEnds(m, "bad")
    /\ UNCHANGED <<configured, queues, dlqs, redrive, urls, conn, stage, policy, creating, unhandled, call, sent>>

-----------------------------------------------------------------------------
CallStep(c) == CallBegins(c) \/ CallContinues(c) \/ CallEnds(c)

SendStep(m) ==
    \/ HandlerBegins(m) \/ HandlerContinues(m)
    \/ Sent(m) \/ Refused(m) \/ GetAttributes(m)

ChainStep(m) ==
    /\ \E k \in Chain : CallNext(m, k) \/ Return(m, k)
    /\ UNCHANGED <<queueVars, call, work, sent>>

QueueStep(s) == SetupStep(s) /\ UNCHANGED <<mwVars, call, work, sent>>

Step ==
    \/ \E c \in Calls : CallStep(c)
    \/ \E m \in Sends : SendStep(m) \/ ChainStep(m)
    \/ \E s \in Setups : QueueStep(s)
    \/ \E s \in Consumers : RunnerCreatesQueue(s)
    \/ (Ready \/ Disconnect) /\ UNCHANGED <<mwVars, call, work, sent>>

Next == Step /\ UNCHANGED callOf

SafeSpec == Init /\ [][Next]_vars

\* The process goes on, every request is answered, a wait for a connection
\* ends with connectionTimeout, and every middleware ends.
Fairness ==
    /\ \A c \in Calls : WF_vars((CallContinues(c) \/ CallEnds(c)) /\ UNCHANGED callOf)
    /\ \A m \in Sends : WF_vars(SendStep(m) /\ UNCHANGED callOf)
    /\ \A m \in Sends, k \in Chain :
          WF_vars((Return(m, k) \/ (nature[k] = "orderly" /\ CallNext(m, k)))
                  /\ UNCHANGED <<queueVars, callOf, call, work, sent>>)
    /\ \A s \in Setups : WF_vars(QueueStep(s) /\ UNCHANGED callOf)

Spec == SafeSpec /\ Fairness

-----------------------------------------------------------------------------
\* Whatever the middleware does, and however calls, set-ups and failures
\* interleave: a message is sent at most once by the send() it was given to
\* (composePublish).
DeliveredOnce == \A m \in Sends : sent[m] <= 1

\* With orderly middleware, a publish() that resolves has sent each of its
\* messages, unless the engine is the dummy (Task.publish, send).
SuccessMeansDelivered ==
    Orderly /\ engine # "dummy" =>
        \A m \in Sends : call[callOf[m]] = "success" => sent[m] = 1

\* Whoever comes first, producer or runner, and whatever fails on the way: the
\* queue of a task with a dead letter queue never exists without it, as long
\* as the task is not a FIFO one (getDeadLetterQueuePolicy).
RedriveKept ==
    engine = "sqs" => \A t \in (WithDlq \ fifo) \cap queues : t \in redrive /\ t \in dlqs

\* Every call is resolved or rejected, also when the Kafka producer gets no
\* connection (connectionTimeout) and when a middleware ends without next().
PublishSettles ==
    \A c \in Calls : call[c] \in {"setup", "sending"} ~> call[c] \in {"success", "failure"}

\* What one would expect of a publish() that rejects: its messages are not
\* sent.  Promise.all() lets the others go on, and the Redis producer reports
\* a failure of getQueueAttributes() as one of sending.
FailureMeansNotSent == \A m \in Sends : call[callOf[m]] = "failure" => sent[m] = 0

\* What options.deadLetterQueue says of any task.  FIFO tasks get none from
\* the producer, and the one that the runner would give them is refused.
RedriveForAll == engine = "sqs" => \A t \in WithDlq \cap queues : t \in redrive

\* What initialize() is for: a message that is sent after it finds its queue.
\* The Redis producer does not wait for the creation.
NothingRefused == [][\A m \in Sends : Refused(m) => faults' # faults]_vars

\* And what goes with it: nobody notices that this creation has failed.
NothingUnhandled == unhandled = {}
=============================================================================
