------------------------- MODULE PaymentHandler -------------------------
(***************************************************************************)
(* The payment service: ProcessPayment, which commits a row of payments in *)
(* a transaction and then publishes an event, and the life of the process  *)
(* around it.  The RabbitMQ connection is opened once, when the process    *)
(* starts; publishes are not confirmed and nobody listens for returned     *)
(* messages.  ProcessPayment ignores the context of its request, and       *)
(* PublishWithContext ignores the one it is given.                         *)
(*                                                                         *)
(* Bound: MaxFaults limits the calls that fail and the crashes.            *)
(* A definition that a comment calls a mutant is never part of Spec.       *)
(***************************************************************************)
EXTENDS Naturals

CONSTANTS
  Requests,   \* ProcessPayment requests: each makes its own payment and event
  MaxFaults   \* bound on the faults

ASSUME PaymentAssumption == MaxFaults \in Nat

VARIABLES
  pc,         \* pc[p]: what request p does next, or how it ended
  open,       \* requests with a transaction open on a pooled connection
  payments,   \* requests whose payment is committed
  events,     \* requests whose event is in the queue payment.completed
  connected,  \* the publisher's AMQP connection is open
  bound,      \* the queue is bound to the exchange payments
  mode,       \* the process: "up", "draining" (GracefulStop), "down"
  faults      \* faults so far

brokerVars == <<connected, bound>>
vars == <<pc, open, payments, events, brokerVars, mode, faults>>

\* "replied": the response says "completed"; "failed": it is an error.
RequestState == {"new", "inserting", "committing", "publishing",
                 "replied", "failed", "lost"}

RequestType ==
  /\ pc \in [Requests -> RequestState]
  /\ open \subseteq Requests
  /\ payments \subseteq Requests

BrokerType ==
  /\ events \subseteq Requests
  /\ connected \in BOOLEAN
  /\ bound \in BOOLEAN

ProcessType ==
  /\ mode \in {"up", "draining", "down"}
  /\ faults \in 0 .. MaxFaults

\* The type of every variable.
TypeOK == RequestType /\ BrokerType /\ ProcessType

Init ==
  /\ pc = [p \in Requests |-> "new"]
  /\ open = {}
  /\ payments = {}
  /\ events = {}
  /\ connected = FALSE
  /\ bound = FALSE
  /\ mode = "down"
  /\ faults = 0

Fault == faults < MaxFaults /\ faults' = faults + 1

Step(p, from, to) ==
  /\ pc[p] = from
  /\ pc' = [pc EXCEPT ![p] = to]

InFlight(p) == pc[p] \in {"inserting", "committing", "publishing"}

--------------------------------------------------------------------------
(* CreatePayment. *)

\* GracefulStop refuses new requests.
Begin(p) ==
  /\ mode = "up"
  /\ Step(p, "new", "inserting")
  /\ open' = open \cup {p}
  /\ UNCHANGED <<payments, events, brokerVars, mode, faults>>

BeginFails(p) ==
  /\ mode = "up"
  /\ Fault
  /\ Step(p, "new", "failed")
  /\ UNCHANGED <<open, payments, events, brokerVars, mode>>

\* INSERT INTO payments, seen by nobody before the commit.
InsertPayment(p) ==
  /\ Step(p, "inserting", "committing")
  /\ UNCHANGED <<open, payments, events, brokerVars, mode, faults>>

\* Mutant of InsertFails: the deferred function does not see the error.
InsertFailsWithoutRollback(p) ==
  /\ Fault
  /\ Step(p, "inserting", "failed")
  /\ UNCHANGED <<open, payments, events, brokerVars, mode>>

\* The insert fails and the deferred function rolls back.
InsertFails(p) ==
  /\ Fault
  /\ Step(p, "inserting", "failed")
  /\ open' = open \ {p}
  /\ UNCHANGED <<payments, events, brokerVars, mode>>

Commit(p) ==
  /\ Step(p, "committing", "publishing")
  /\ open' = open \ {p}
  /\ payments' = payments \cup {p}
  /\ UNCHANGED <<events, brokerVars, mode, faults>>

\* Mutant of CommitFails: the error of the commit is dropped.
CommitFailsUnnoticed(p) ==
  /\ Fault
  /\ Step(p, "committing", "publishing")
  /\ open' = open \ {p}
  /\ payments' \in {payments, payments \cup {p}}
  /\ UNCHANGED <<events, brokerVars, mode>>

\* The commit returns an error: it failed, or only its answer was lost.
CommitFails(p) ==
  /\ Fault
  /\ Step(p, "committing", "failed")
  /\ open' = open \ {p}
  /\ payments' \in {payments, payments \cup {p}}
  /\ UNCHANGED <<events, brokerVars, mode>>

--------------------------------------------------------------------------
(* Publish. *)

\* The event is written to an open connection.  The broker routes it or, the
\* flag Mandatory being set, returns it; but it comes back on a channel of
\* NotifyReturn, which the publisher never asks for: Publish returns nil.
Publish(p) ==
  /\ connected
  /\ Step(p, "publishing", "replied")
  /\ events' = IF bound THEN events \cup {p} ELSE events
  /\ UNCHANGED <<open, payments, brokerVars, mode, faults>>

\* The connection breaks after the write and before the broker has the event:
\* no confirm is waited for, so Publish returns nil.
PublishLost(p) ==
  /\ connected
  /\ Fault
  /\ Step(p, "publishing", "replied")
  /\ connected' = FALSE
  /\ UNCHANGED <<open, payments, events, bound, mode>>

\* Mutant of PublishFails: the publish error becomes the payment's status.
PublishFailsReported(p) ==
  /\ ~connected
  /\ Step(p, "publishing", "publish_failed")
  /\ UNCHANGED <<open, payments, events, brokerVars, mode, faults>>

\* Mutant of PublishFails: it is tried again until it works.
PublishFailsRetries(p) ==
  /\ ~connected
  /\ Step(p, "publishing", "publishing")
  /\ UNCHANGED <<open, payments, events, brokerVars, mode, faults>>

\* The connection is closed: the error is logged and the reply is the same.
PublishFails(p) ==
  /\ ~connected
  /\ Step(p, "publishing", "replied")
  /\ UNCHANGED <<open, payments, events, brokerVars, mode, faults>>

--------------------------------------------------------------------------
(* The broker and the process. *)

\* Nothing reopens the connection.
ConnectionLost ==
  /\ connected
  /\ Fault
  /\ connected' = FALSE
  /\ UNCHANGED <<pc, open, payments, events, bound, mode>>

\* Somebody deletes the binding.  The notification service only declares the
\* queue: a publisher binds it again when it starts.
Unbind ==
  /\ bound
  /\ Fault
  /\ bound' = FALSE
  /\ UNCHANGED <<pc, open, payments, events, connected, mode>>

\* The process starts, connects and declares the topology.
Start ==
  /\ mode = "down"
  /\ mode' = "up"
  /\ connected' = TRUE
  /\ bound' = TRUE
  /\ UNCHANGED <<pc, open, payments, events, faults>>

\* SIGINT or SIGTERM: GracefulStop begins.
Sigterm ==
  /\ mode = "up"
  /\ mode' = "draining"
  /\ UNCHANGED <<pc, open, payments, events, brokerVars, faults>>

\* PostgreSQL rolls back what a process that is gone left open.
ProcessEnds ==
  /\ mode' = "down"
  /\ connected' = FALSE
  /\ open' = {}
  /\ pc' = [p \in Requests |-> IF InFlight(p) THEN "lost" ELSE pc[p]]

\* Mutant of Exit: Stop in the place of GracefulStop.
ExitAtOnce ==
  /\ mode = "draining"
  /\ ProcessEnds
  /\ UNCHANGED <<payments, events, bound, faults>>

\* GracefulStop returns when all requests are over.
Exit ==
  /\ mode = "draining"
  /\ \A p \in Requests : ~InFlight(p)
  /\ ProcessEnds
  /\ UNCHANGED <<payments, events, bound, faults>>

\* The process is killed at any point.
Crash ==
  /\ mode # "down"
  /\ Fault
  /\ ProcessEnds
  /\ UNCHANGED <<payments, events, bound>>

--------------------------------------------------------------------------

RequestStep(p) ==
  \/ InsertPayment(p) \/ InsertFails(p) \/ Commit(p) \/ CommitFails(p)
  \/ Publish(p) \/ PublishLost(p) \/ PublishFails(p)

Next ==
  \/ \E p \in Requests : Begin(p) \/ BeginFails(p) \/ RequestStep(p)
  \/ ConnectionLost \/ Unbind \/ Start \/ Sigterm \/ Exit \/ Crash

Spec == Init /\ [][Next]_vars

\* Handlers are scheduled and their calls return; a process with no request
\* left exits.  Nothing is assumed of clients, operators or faults.
Fairness ==
  /\ \A p \in Requests : WF_vars(RequestStep(p))
  /\ WF_vars(Exit)

FairSpec == Spec /\ Fairness

--------------------------------------------------------------------------
(* What must hold. *)

\* Nobody is told of a payment that was not made: neither the caller by a
\* reply nor the customer by an event, even when a commit goes wrong.
SaidMeansPaid ==
  \A p \in Requests : pc[p] = "replied" \/ p \in events => p \in payments

\* No path through CreatePayment keeps its transaction, and with it one of
\* the pool's connections, after the request is over.
NoOpenTransaction ==
  \A p \in open : pc[p] \in {"inserting", "committing"}

\* As long as nothing fails every payment has its event, or a request that is
\* still at work to publish it: neither a shutdown between commit and publish
\* nor a restart costs one, and no reply is given before.
PublishedWithoutFaults ==
  faults = 0 => \A p \in payments : p \in events \/ pc[p] = "publishing"

\* Every payment begun comes to a reply, and draining comes to an end.
RequestsEnd ==
  /\ \A p \in Requests : InFlight(p) ~> ~InFlight(p)
  /\ mode = "draining" ~> mode = "down"

\* Publish: "Uses Mandatory=true so the broker returns an error if the queue is
\* not bound", and "if publish fails here, the caller can retry".  On a
\* connection that is up an event that was not queued would not be followed by
\* the reply "completed".
UnroutedReported ==
  [][\A p \in Requests :
       pc[p] = "publishing" /\ pc'[p] = "replied" /\ connected' =>
         p \in events']_vars
==========================================================================
