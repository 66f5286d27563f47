--------------------------- MODULE MCSmtpSender ---------------------------
(* SmtpSender for TLC: the constants have their values in the .cfg files. *)
EXTENDS SmtpSender
===========================================================================
