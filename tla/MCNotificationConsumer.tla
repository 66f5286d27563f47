--------------------- MODULE MCNotificationConsumer ---------------------
(* NotificationConsumer on small instances. *)
EXTENDS NotificationConsumer
==========================================================================
