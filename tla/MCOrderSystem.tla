-------------------------- MODULE MCOrderSystem --------------------------
(* OrderSystem for TLC: the constants have their values in the .cfg file. *)
EXTENDS OrderSystem
==========================================================================
