---------------------------- MODULE MCKafkaRunner ----------------------------
(* Small groups of consumers.                                              *)
EXTENDS KafkaRunner
=============================================================================
