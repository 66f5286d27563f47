------------------------- MODULE MCOrderHandler -------------------------
(* OrderHandler on small instances. *)
EXTENDS OrderHandler
==========================================================================
