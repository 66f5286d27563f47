------------------------ MODULE MCPaymentHandler ------------------------
(* PaymentHandler on small instances. *)
EXTENDS PaymentHandler
==========================================================================
