-------------------------- MODULE MCOrderPipeline --------------------------
(* OrderPipeline for TLC: the constants have their values in the .cfg files. *)
EXTENDS OrderPipeline
============================================================================
