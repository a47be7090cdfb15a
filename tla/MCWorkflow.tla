------------------------------ MODULE MCWorkflow ------------------------------
(* Workflow for TLC: the workers belong to one service, or one of them to   *)
(* another.                                                                 *)
EXTENDS Workflow

OneService == [w \in Workers |-> "service"]
OtherWorker == CHOOSE w \in Workers : TRUE
TwoServices == [w \in Workers |-> IF w = OtherWorker THEN "other" ELSE "service"]
=============================================================================
