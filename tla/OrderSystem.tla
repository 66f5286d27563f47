--------------------------- MODULE OrderSystem ---------------------------
(***************************************************************************)
(* The whole system with nothing abstracted between its parts: the order   *)
(* and the payment service of OrderPipeline, and the worker pool of        *)
(* NotificationConsumer in the place of the NotificationDelivery that      *)
(* OrderPipeline takes it for.  They meet in one action, the publish that  *)
(* puts the event of a payment into the queue; every other step belongs to *)
(* one side, and the other does not notice it.                             *)
(*                                                                         *)
(* OrderSystem implements OrderPipeline, and with it Purchase.             *)
(*                                                                         *)
(* Bounds: those of OrderPipeline and NotificationConsumer.                *)
(* A definition that a comment calls a mutant is never part of Spec.       *)
(***************************************************************************)
EXTENDS Naturals, FiniteSets

CONSTANTS
  Orders, GrpcOrders, NoOrder, MaxOrderFaults, MaxPaymentFaults, MaxBroken,
                 \* as in OrderPipeline
  Workers, MaxRetries, MaxForgets, MaxBreaks, NoEvent
                 \* as in NotificationConsumer, an order's event being the order

ASSUME SystemAssumption ==
  /\ GrpcOrders \subseteq Orders
  /\ NoOrder \notin Orders
  /\ MaxOrderFaults \in Nat
  /\ MaxPaymentFaults \in Nat
  /\ MaxBroken \in Nat
  /\ NoEvent \notin Orders
  /\ IsFiniteSet(Workers)
  /\ MaxRetries \in Nat
  /\ MaxForgets \in Nat
  /\ MaxBreaks \in Nat

VARIABLES
  row, call, reply, cancelled, orderMode, orderFaults, lostUpdates, missed,
  wire, broken,
  pc, open, payments, connected, bound, paymentMode, paymentFaults,
                 \* of OrderPipeline
  broker, prefetched, notifierMode, notifierConnected, workerPc, job, attempt,
  processed, pgProcessed, emails, forgets, breaks
                 \* of NotificationConsumer

Notifier == INSTANCE NotificationConsumer WITH
  Events <- Orders, Malformed <- {}, mode <- notifierMode,
  connected <- notifierConnected, pc <- workerPc

Pipeline == INSTANCE OrderPipeline WITH
  status <- Notifier!Status, losses <- forgets

salesVars    == <<row, call, reply, cancelled, orderMode, orderFaults,
                  lostUpdates, missed, wire, broken, pc, open, payments,
                  connected, bound, paymentMode, paymentFaults>>
notifierVars == <<broker, prefetched, notifierMode, notifierConnected, workerPc,
                  job, attempt, processed, pgProcessed, emails, forgets, breaks>>
vars == <<salesVars, notifierVars>>

\* The type of every variable.
TypeOK == Notifier!TypeOK /\ Pipeline!TypeOK

Init == Notifier!Init /\ Pipeline!Init

--------------------------------------------------------------------------

\* A step of the order or the payment service that publishes nothing.
SalesStep(o) ==
  /\ UNCHANGED notifierVars
  /\ \/ Pipeline!PlaceOrder(o) \/ Pipeline!ReceiveRequest(o)
     \/ Pipeline!CallEnds(o) \/ Pipeline!CallBreaks(o)
     \/ Pipeline!OrderInterrupted(o) \/ Pipeline!OrderFinishes(o)
     \/ Pipeline!PaymentServes(o)

SalesProcess ==
  /\ UNCHANGED notifierVars
  /\ Pipeline!OrderProcess \/ Pipeline!PaymentProcess

\* Mutant of Announce: the event is published before the payment is committed.
AnnounceBeforeCommit(o) ==
  /\ pc[o] = "committing"
  /\ Notifier!Publish(o)
  /\ UNCHANGED salesVars

\* The payment service publishes the event of a payment, and the broker has it.
Announce(o) == Notifier!Publish(o) /\ Pipeline!PaymentServes(o)

\* A step of the notification service or of what it works with.
NotifierStep ==
  /\ UNCHANGED salesVars
  /\ \/ \E o \in Orders : Notifier!Deliver(o) \/ Notifier!KeyExpires(o)
     \/ \E w \in Workers : Notifier!WorkerStep(w)
     \/ Notifier!ConnectionLost \/ Notifier!Start \/ Notifier!Shutdown
     \/ Notifier!Exit \/ Notifier!Crash

Next ==
  \/ \E o \in Orders : SalesStep(o) \/ Announce(o)
  \/ SalesProcess \/ NotifierStep

Spec == Init /\ [][Next]_vars

\* The fairness of the components and nothing more.
Fairness ==
  /\ \A o \in Orders :
       WF_vars(/\ UNCHANGED notifierVars
               /\ call[o] = "paying"
               /\ Pipeline!ReceiveRequest(o) \/ Pipeline!CallEnds(o))
  /\ \A o \in Orders : WF_vars(UNCHANGED notifierVars /\ Pipeline!OrderFinishes(o))
  /\ \A o \in Orders :
       WF_vars(\/ Announce(o)
               \/ UNCHANGED notifierVars /\ Pipeline!PaymentServes(o))
  /\ \A w \in Workers : WF_vars(UNCHANGED salesVars /\ Notifier!WorkerStep(w))
  /\ WF_vars(UNCHANGED salesVars /\ \E o \in Orders : Notifier!Deliver(o))
  /\ WF_vars(UNCHANGED salesVars /\ Notifier!Exit)

FairSpec == Spec /\ Fairness

--------------------------------------------------------------------------
(* What must hold. *)

\* The worker pool may take the place of NotificationDelivery: with all its
\* crashes, redeliveries and stores it does to orders and payments only what
\* OrderPipeline expects.
PipelineSpec == Pipeline!Spec

\* The event of o is still in the queue or with a worker, or was acknowledged
\* after an email, one more at most than the notification service forgot, or is
\* a dead letter that was not sent.
Followed(o) ==
  \/ broker[o] \in {"ready", "unacked"}
  \/ broker[o] = "acked" /\ emails[o] \in 1 .. 1 + forgets
  \/ broker[o] = "dead" /\ emails[o] <= forgets

\* The event of o never came to the queue, and the payment service had a fault.
Unheard(o) == paymentFaults > 0 /\ broker[o] = "unpublished"

\* From the row of an order to the inbox of its customer.  The one excuse is a
\* publish that went wrong and was answered nevertheless: a payment service
\* that dies or is stopped between the commit and the publish completes no
\* order.
CompletedReachesCustomer ==
  \A o \in Orders :
    row[o] = "completed" => Followed(o) \/ (Unheard(o) /\ pc[o] = "replied")

\* From a charge to the inbox of the customer, also when the order does not
\* become completed: neither a caller that was cancelled or stopped nor a
\* shutdown of the payment service makes a charge end in silence.
ChargeReachesCustomer ==
  \A o \in payments : pc[o] = "publishing" \/ Followed(o) \/ Unheard(o)

\* Every charge is followed up by the real worker pool, as long as the payment
\* service has no fault and from some time on the pool runs connected.
ChargesFollowedUp ==
  [](paymentFaults = 0) /\ <>[](notifierMode = "running" /\ notifierConnected) =>
    \A o \in Orders : o \in payments ~> broker[o] \in {"acked", "dead"}
==========================================================================
