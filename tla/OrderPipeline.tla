-------------------------- MODULE OrderPipeline --------------------------
(***************************************************************************)
(* The three services together.  OrderHandler calls PaymentHandler over    *)
(* gRPC, PaymentHandler publishes to the queue of the notification         *)
(* service, which is here by what it promises, NotificationDelivery; the   *)
(* proofs show that NotificationConsumer keeps that promise.               *)
(*                                                                         *)
(* Each action is one action of a component, or one of two components that *)
(* meet: a request that arrives, an answer that is read, an event that is  *)
(* queued.  Between them the call travels: it may be refused because the   *)
(* payment service is not up or not connected to, broken off, or abandoned *)
(* by a caller that was cancelled or died, while the payment service,      *)
(* which looks at no context, goes on.                                     *)
(*                                                                         *)
(* The cache and the reads are left out: CreateOrder never looks at them.  *)
(*                                                                         *)
(* Bounds: those of the components, and MaxBroken calls broken off.        *)
(* A definition that a comment calls a mutant is never part of Spec.       *)
(***************************************************************************)
EXTENDS Naturals, FiniteSets

CONSTANTS
  Orders,           \* as in OrderHandler; an order makes one request
  GrpcOrders,       \* as in OrderHandler
  NoOrder,          \* as in OrderHandler
  MaxOrderFaults,   \* bound on the faults of the order service
  MaxPaymentFaults, \* bound on the faults of the payment service
  MaxBroken,        \* bound on the calls broken off
  MaxForgets        \* as in NotificationDelivery

ASSUME PipelineAssumption ==
  /\ GrpcOrders \subseteq Orders
  /\ NoOrder \notin Orders
  /\ MaxOrderFaults \in Nat
  /\ MaxPaymentFaults \in Nat
  /\ MaxBroken \in Nat
  /\ MaxForgets \in Nat

VARIABLES
  row, call, reply, cancelled, orderMode, orderFaults, lostUpdates, missed,
                 \* of OrderHandler
  wire,          \* requests sent that may still reach the payment service
  broken,        \* calls whose connection broke before the answer was read
  pc, open, payments, connected, bound, paymentMode, paymentFaults,
                 \* of PaymentHandler, pc[o] being the request for order o
  status, emails, losses
                 \* of NotificationDelivery, status[o] being o's event

orderVars    == <<row, call, reply, cancelled, orderMode, orderFaults,
                  lostUpdates, missed>>
rpcVars      == <<wire, broken>>
paymentVars  == <<pc, open, payments, connected, bound, paymentMode, paymentFaults>>
deliveryVars == <<status, emails, losses>>
vars == <<orderVars, rpcVars, paymentVars, deliveryVars>>

\* What the payment service sees of the queue: an event is in it for good.
queued == {o \in Orders : status[o] # "unpublished"}

Order == INSTANCE OrderHandler WITH
  Readers <- {}, TTL <- 0, MaxFaults <- MaxOrderFaults,
  entry <- [o \in Orders |-> "none"], target <- <<>>, seen <- <<>>, late <- {},
  caching <- ~TRUE, mode <- orderMode, faults <- orderFaults

Payment == INSTANCE PaymentHandler WITH
  Requests <- Orders, MaxFaults <- MaxPaymentFaults, events <- queued,
  mode <- paymentMode, faults <- paymentFaults

Delivery == INSTANCE NotificationDelivery WITH Events <- Orders

RpcType ==
  /\ wire \subseteq {o \in Orders : pc[o] = "new"}
  /\ broken \subseteq Orders

DeliveryType ==
  /\ status \in [Orders -> {"unpublished", "pending", "done", "dead"}]
  /\ emails \in [Orders -> Nat]
  /\ losses \in 0 .. MaxForgets

\* The type of every variable; a request is on its way only before it begins.
TypeOK ==
  /\ Order!StoreType /\ Order!CallType /\ Order!ProcessType
  /\ Payment!TypeOK
  /\ RpcType /\ DeliveryType

Init ==
  /\ Order!Init
  /\ wire = {}
  /\ broken = {}
  /\ status = [o \in Orders |-> "unpublished"]
  /\ Payment!Init
  /\ Delivery!Init

--------------------------------------------------------------------------
(* The call of the payment service. *)

\* The row is in, and the handler calls ProcessPayment.
PlaceOrder(o) ==
  /\ Order!Insert(o)
  /\ wire' = wire \cup {o}
  /\ UNCHANGED <<broken, paymentVars, deliveryVars>>

\* Mutant of ReceiveRequest: the request is still there to arrive again.
ReceiveRequestAgain(o) ==
  /\ o \in wire
  /\ UNCHANGED <<orderVars, rpcVars, deliveryVars>>
  /\ Payment!Begin(o) \/ Payment!BeginFails(o)

\* The request arrives, whatever has become of its caller, and the handler
\* begins its transaction or fails to.
ReceiveRequest(o) ==
  /\ o \in wire
  /\ wire' = wire \ {o}
  /\ UNCHANGED <<orderVars, broken, deliveryVars>>
  /\ Payment!Begin(o) \/ Payment!BeginFails(o)

\* Mutant of AnswerArrives: the service replies before it commits.
AnswerArrivesEarly(o) ==
  /\ pc[o] \in {"committing", "publishing", "replied"}
  /\ Order!PaymentSucceeds(o)
  /\ UNCHANGED <<rpcVars, paymentVars, deliveryVars>>

\* The order service reads the answer "completed".
AnswerArrives(o) ==
  /\ pc[o] = "replied"
  /\ Order!PaymentSucceeds(o)
  /\ UNCHANGED <<rpcVars, paymentVars, deliveryVars>>

\* Mutant of CallFails: nobody tells the client that the process is gone.
CallFailsUnnoticed(o) ==
  /\ pc[o] = "failed" \/ o \in cancelled
  /\ Order!PaymentFails(o)
  /\ UNCHANGED <<rpcVars, paymentVars, deliveryVars>>

\* Mutant of CallFails: the client also gives up on a call in progress.
CallFailsImpatiently(o) ==
  /\ Order!PaymentFails(o)
  /\ UNCHANGED <<rpcVars, paymentVars, deliveryVars>>

\* The request failed, its process is gone, or its context is cancelled: what
\* the payment service still does with it is not waited for.
CallFails(o) ==
  /\ \/ pc[o] \in {"failed", "lost"}
     \/ pc[o] = "new" /\ o \notin wire
     \/ o \in cancelled
  /\ Order!PaymentFails(o)
  /\ UNCHANGED <<rpcVars, paymentVars, deliveryVars>>

\* Nobody takes the request: the payment service is not started yet, draining,
\* or gone, or it is back and the client still waits to connect again.
\* grpc.Dial did not wait for the service, and a call does not either.
CallRefused(o) ==
  /\ o \in wire
  /\ wire' = wire \ {o}
  /\ Order!PaymentFails(o)
  /\ UNCHANGED <<broken, paymentVars, deliveryVars>>

\* The connection breaks; the request may or may not have got through.
CallBreaks(o) ==
  /\ Cardinality(broken) < MaxBroken
  /\ broken' = broken \cup {o}
  /\ Order!PaymentFails(o)
  /\ UNCHANGED <<wire, paymentVars, deliveryVars>>

--------------------------------------------------------------------------
(* Each service on its own. *)

\* The order service: an insert that fails, a client that goes away.
OrderInterrupted(o) ==
  /\ Order!InsertFails(o) \/ Order!Cancel(o)
  /\ UNCHANGED <<rpcVars, paymentVars, deliveryVars>>

\* The order service, with the answer in hand.
OrderFinishes(o) ==
  /\ Order!FinishStep(o)
  /\ UNCHANGED <<rpcVars, paymentVars, deliveryVars>>

OrderProcess ==
  /\ \/ Order!Start \/ Order!Notify \/ Order!Sigterm \/ Order!SigtermEarly
     \/ Order!Exit \/ Order!Crash
  /\ UNCHANGED <<rpcVars, paymentVars, deliveryVars>>

\* Mutant of PaymentServes: the publish minds the context of the request.
PaymentServesWithContext(o) ==
  /\ o \notin cancelled \/ pc[o] # "publishing"
  /\ Delivery!Publish(o) \/ UNCHANGED deliveryVars
  /\ UNCHANGED <<orderVars, rpcVars>>
  /\ Payment!RequestStep(o)

\* The payment service: a step of a request, which may queue its event.
PaymentServes(o) ==
  /\ Delivery!Publish(o) \/ UNCHANGED deliveryVars
  /\ UNCHANGED <<orderVars, rpcVars>>
  /\ Payment!RequestStep(o)

\* The process of the payment service; its connections end with it.
PaymentProcess ==
  /\ UNCHANGED <<orderVars, broken, deliveryVars>>
  /\ \/ /\ Payment!ConnectionLost \/ Payment!Unbind \/ Payment!Start
           \/ Payment!Sigterm
        /\ UNCHANGED wire
     \/ /\ Payment!Exit \/ Payment!Crash
        /\ wire' = {}

\* The notification service.
DeliveryStep(o) ==
  /\ Delivery!Notify(o) \/ Delivery!Complete(o) \/ Delivery!Abandon(o)
  /\ UNCHANGED <<orderVars, rpcVars, paymentVars>>

DeliveryForgets ==
  /\ Delivery!Lose
  /\ UNCHANGED <<orderVars, rpcVars, paymentVars>>

--------------------------------------------------------------------------

CallEnds(o) == AnswerArrives(o) \/ CallFails(o) \/ CallRefused(o)

Next ==
  \/ \E o \in Orders :
       \/ PlaceOrder(o) \/ ReceiveRequest(o) \/ CallEnds(o) \/ CallBreaks(o)
       \/ OrderInterrupted(o) \/ OrderFinishes(o)
       \/ PaymentServes(o) \/ DeliveryStep(o)
  \/ OrderProcess \/ PaymentProcess \/ DeliveryForgets

Spec == Init /\ [][Next]_vars

\* While its caller waits a request is taken or refused, and what is answered
\* is read; the handlers of both services run.  Nothing is assumed of clients,
\* operators, faults or broken connections.
Fairness ==
  \A o \in Orders :
    /\ WF_vars(call[o] = "paying" /\ (ReceiveRequest(o) \/ CallEnds(o)))
    /\ WF_vars(OrderFinishes(o))
    /\ WF_vars(PaymentServes(o))

FairSpec == Spec /\ Fairness

--------------------------------------------------------------------------
(* What must hold. *)

Sale == INSTANCE Purchase WITH
  outcome <- row, charged <- payments,
  notified <- {o \in Orders : emails[o] > 0}

\* The services together keep the promises of Purchase: what is completed is
\* charged, what is charged was placed, an outcome is final, and a customer
\* hears only of a charge that was made.
PurchaseSpec == Sale!Spec

\* A completed order is announced, for the caller heard of it after the
\* publish: its event is in the queue, unless its own publish went wrong.  A
\* payment service that dies or is stopped before that completes no order.
CompletedMeansQueued ==
  \A o \in Orders :
    row[o] = "completed" =>
      o \in queued \/ (paymentFaults > 0 /\ pc[o] = "replied")

\* Every charge is announced or about to be, whatever becomes of its caller and
\* however often the payment service is stopped, unless that had a fault.
ChargedMeansQueued ==
  paymentFaults = 0 =>
    \A o \in payments : o \in queued \/ pc[o] = "publishing"

\* The customer who is charged for an order that does not become completed is
\* the victim of one of these: a cancelled call, a broken connection, a lost
\* update, an order service that ended, or a payment service that failed
\* after or within its commit.  A payment service that is down, draining or
\* restarted is never the cause, nor are two orders side by side.
ChargedOrderExplained ==
  \A o \in payments :
    call[o] \in Order!Ended /\ row[o] # "completed" =>
      \/ o \in cancelled \cup broken \cup lostUpdates
      \/ call[o] = "lost"
      \/ paymentFaults > 0 /\ pc[o] \in {"failed", "lost"}

\* No CreateOrder waits for the payment service for ever, whatever becomes of
\* it; the call has no deadline and needs none for that.
CallsComeBack == \A o \in Orders : call[o] = "paying" ~> call[o] # "paying"
==========================================================================
