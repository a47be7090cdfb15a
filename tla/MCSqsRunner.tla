----------------------------- MODULE MCSqsRunner -----------------------------
(* SqsRunner for TLC: instances in Node processes of their own, or in one.  *)
EXTENDS SqsRunner

CONSTANTS t1, t2, m2

SecondApart == [m \in Messages |-> IF m = m2 THEN t2 ELSE t1]
OneTopic == [m \in Messages |-> t1]
OwnHost == [p \in Procs |-> p]
SharedHost == [p \in Procs |-> "host"]
=============================================================================
