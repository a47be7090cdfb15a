----------------------------- MODULE MCPublisher -----------------------------
(* Publisher for TLC: a Task.publish() of two payloads, or of one next to a *)
(* Steveo.publish() of the other, and a runner that creates the queue too.  *)
EXTENDS Publisher

CONSTANTS task, steveo, m1, m2, t

Everyone == Calls \cup Sends \cup Consumers
OneTopic == [s \in Everyone |-> t]
Both == [m \in Sends |-> task]
OneEach == [m \in Sends |-> IF m = m1 THEN task ELSE steveo]
BothOrOneEach == {Both, OneEach}
=============================================================================
