---------------------- MODULE NotificationDelivery ----------------------
(***************************************************************************)
(* What the notification service promises about one payment event,         *)
(* whatever its workers, its connection and its stores do:                 *)
(*                                                                         *)
(*   - an event taken off the main queue for good was either notified at   *)
(*     least once ("done") or moved to the dead-letter queue ("dead");     *)
(*   - a dead letter was not notified, unless the service forgot it was;   *)
(*   - once settled, an event is never notified again;                     *)
(*   - a customer gets at most one email more than the number of times the *)
(*     service forgot what it had done.                                    *)
(*                                                                         *)
(* NotificationConsumer implements this specification.                     *)
(***************************************************************************)
EXTENDS Naturals

CONSTANTS
  Events,      \* the payment events, by event_id
  MaxForgets   \* bound on the number of times the service forgets

VARIABLES
  status,      \* status[e]: "unpublished", "pending", "done" or "dead"
  emails,      \* emails[e]: how many emails for e the provider accepted
  losses       \* how many times a record of what was sent has been lost

vars == <<status, emails, losses>>

Init ==
  /\ status = [e \in Events |-> "unpublished"]
  /\ emails = [e \in Events |-> 0]
  /\ losses = 0

Publish(e) ==
  /\ status[e] = "unpublished"
  /\ status' = [status EXCEPT ![e] = "pending"]
  /\ UNCHANGED <<emails, losses>>

\* An email goes out only for a pending event, and a repeated one only after
\* the record of an earlier one was lost.
Notify(e) ==
  /\ status[e] = "pending"
  /\ emails[e] <= losses
  /\ emails' = [emails EXCEPT ![e] = @ + 1]
  /\ UNCHANGED <<status, losses>>

Complete(e) ==
  /\ status[e] = "pending"
  /\ emails[e] >= 1
  /\ status' = [status EXCEPT ![e] = "done"]
  /\ UNCHANGED <<emails, losses>>

Abandon(e) ==
  /\ status[e] = "pending"
  /\ emails[e] <= losses
  /\ status' = [status EXCEPT ![e] = "dead"]
  /\ UNCHANGED <<emails, losses>>

Lose ==
  /\ losses < MaxForgets
  /\ losses' = losses + 1
  /\ UNCHANGED <<status, emails>>

Next ==
  \/ \E e \in Events : Publish(e) \/ Notify(e) \/ Complete(e) \/ Abandon(e)
  \/ Lose

Spec == Init /\ [][Next]_vars
==========================================================================
