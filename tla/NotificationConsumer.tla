---------------------- MODULE NotificationConsumer ----------------------
(***************************************************************************)
(* The notification service: one process that runs a pool of worker        *)
(* goroutines over one RabbitMQ channel                                    *)
(* (notification-service/internal/consumer/notification_consumer.go), with *)
(* the Redis idempotency keys, the processed_events table and the email    *)
(* provider it calls.                                                      *)
(*                                                                         *)
(* The grain is one call to something outside the process: between two     *)
(* such calls of one worker every other worker, the broker and the         *)
(* failures below may act.  RabbitMQ, Redis and PostgreSQL are modelled    *)
(* from how this code uses them.  What a message carries is left out       *)
(* except for its event_id and for whether it can be parsed.               *)
(*                                                                         *)
(* Bounds: MaxForgets and MaxBreaks limit how often the failures happen.   *)
(*                                                                         *)
(* A definition that a comment calls a mutant is never part of Spec: it is *)
(* a slip the definition after it could have, and a property must catch it.*)
(***************************************************************************)
EXTENDS Naturals, FiniteSets

CONSTANTS
  Events,      \* payment events, by event_id: a fresh uuid for each publish
  Malformed,   \* those whose body is not the JSON of a PaymentEvent
  Workers,     \* the numWorkers goroutines of the pool
  MaxRetries,  \* maxRetries
  MaxForgets,  \* bound: crashes, failed Redis marks, expired Redis keys
  MaxBreaks,   \* bound: lost connections, failed Redis lookups
  NoEvent      \* what an idle worker holds

ASSUME ConsumerAssumption ==
  /\ Malformed \subseteq Events
  /\ NoEvent \notin Events
  /\ IsFiniteSet(Workers)
  /\ MaxRetries \in Nat
  /\ MaxForgets \in Nat
  /\ MaxBreaks \in Nat

VARIABLES
  broker,      \* broker[e]: where RabbitMQ has event e
  prefetched,  \* deliveries of the channel no worker has received yet
  mode,        \* the process: "running", "draining" (done closed), "stopped"
  connected,   \* the AMQP connection is open
  pc,          \* pc[w]: what worker w does next
  job,         \* job[w]: the event worker w is handling
  attempt,     \* attempt[w]: the loop variable of sendWithRetry
  processed,   \* the keys notif:processed:<event_id> set in Redis
  pgProcessed, \* the rows of processed_events in PostgreSQL
  emails,      \* emails[e]: how many times Send returned nil for e
  forgets,     \* crashes, failed Redis marks and expired keys so far
  breaks       \* lost connections and failed Redis lookups so far

workerVars == <<pc, job, attempt>>
storeVars  == <<processed, pgProcessed>>
vars == <<broker, prefetched, mode, connected, pc, job, attempt,
          processed, pgProcessed, emails, forgets, breaks>>

BrokerState == {"unpublished", "ready", "unacked", "acked", "dead"}
WorkerState == {"select", "received", "sending", "marking", "markingPG",
                "acking", "stopped"}

QueueType ==
  /\ broker \in [Events -> BrokerState]
  /\ prefetched \subseteq Events
  /\ mode \in {"running", "draining", "stopped"}
  /\ connected \in BOOLEAN

WorkerType ==
  /\ pc \in [Workers -> WorkerState]
  /\ job \in [Workers -> Events \cup {NoEvent}]
  /\ attempt \in [Workers -> 0 .. MaxRetries + 1]

RecordType ==
  /\ processed \subseteq Events
  /\ pgProcessed \subseteq Events
  /\ emails \in [Events -> Nat]
  /\ forgets \in 0 .. MaxForgets
  /\ breaks \in 0 .. MaxBreaks

\* The type of every variable; no worker tries more often than maxRetries.
TypeOK == QueueType /\ WorkerType /\ RecordType

Init ==
  /\ broker = [e \in Events |-> "unpublished"]
  /\ prefetched = {}
  /\ mode = "stopped"
  /\ connected = FALSE
  /\ pc = [w \in Workers |-> "stopped"]
  /\ job = [w \in Workers |-> NoEvent]
  /\ attempt = [w \in Workers |-> 0]
  /\ processed = {}
  /\ pgProcessed = {}
  /\ emails = [e \in Events |-> 0]
  /\ forgets = 0
  /\ breaks = 0

--------------------------------------------------------------------------
(* The broker and the client library. *)

\* The payment service publishes each event once.
Publish(e) ==
  /\ broker[e] = "unpublished"
  /\ broker' = [broker EXCEPT ![e] = "ready"]
  /\ UNCHANGED <<prefetched, mode, connected, workerVars, storeVars, emails,
                 forgets, breaks>>

Unacked == {e \in Events : broker[e] = "unacked"}

\* Mutant of WithinPrefetch: the window holds one message more than the pool.
WithinPrefetchOfOneMore == Cardinality(Unacked) <= Cardinality(Workers)

\* ch.Qos(numWorkers, 0, false): a prefetch count of zero is no limit.
WithinPrefetch ==
  Workers = {} \/ Cardinality(Unacked) < Cardinality(Workers)

\* Mutant of Deliver: autoAck is true.
DeliverAutoAck(e) ==
  /\ connected
  /\ broker[e] = "ready"
  /\ broker' = [broker EXCEPT ![e] = "acked"]
  /\ prefetched' = prefetched \cup {e}
  /\ UNCHANGED <<mode, connected, workerVars, storeVars, emails, forgets, breaks>>

\* The broker pushes a ready message.  It keeps pushing while the pool drains:
\* the consumer is never cancelled before the channel is closed.
Deliver(e) ==
  /\ connected
  /\ broker[e] = "ready"
  /\ WithinPrefetch
  /\ broker' = [broker EXCEPT ![e] = "unacked"]
  /\ prefetched' = prefetched \cup {e}
  /\ UNCHANGED <<mode, connected, workerVars, storeVars, emails, forgets, breaks>>

\* Every unacknowledged message goes back to the queue when the channel ends.
Requeued == [e \in Events |-> IF broker[e] = "unacked" THEN "ready" ELSE broker[e]]

\* The connection is lost and nothing reopens it.  Some deliveries that were
\* already in the process may still reach a worker before the deliveries
\* channel is closed.
ConnectionLost ==
  /\ connected
  /\ breaks < MaxBreaks
  /\ connected' = FALSE
  /\ broker' = Requeued
  /\ prefetched' \in SUBSET prefetched
  /\ breaks' = breaks + 1
  /\ UNCHANGED <<mode, workerVars, storeVars, emails, forgets>>

--------------------------------------------------------------------------
(* A worker. *)

Goto(w, from, to) ==
  /\ pc[w] = from
  /\ pc' = [pc EXCEPT ![w] = to]

\* d.Ack or d.Nack of the event w holds, which the broker then has in state
\* to; on a connection that is gone it fails, and the error is only logged.
Answer(w, to) ==
  broker' = IF connected THEN [broker EXCEPT ![job[w]] = to] ELSE broker

\* handleDelivery returns to the select loop.
Return(w, from) ==
  /\ Goto(w, from, "select")
  /\ job' = [job EXCEPT ![w] = NoEvent]
  /\ attempt' = [attempt EXCEPT ![w] = 0]

\* select takes a delivery; it may do so even when done is closed as well.
Receive(w) ==
  /\ Goto(w, "select", "received")
  /\ \E e \in prefetched :
       /\ job' = [job EXCEPT ![w] = e]
       /\ prefetched' = prefetched \ {e}
  /\ UNCHANGED <<broker, mode, connected, attempt, storeVars, emails, forgets, breaks>>

\* Mutant of RejectMalformed: it returns without an answer.
RejectSilently(w) ==
  /\ job[w] \in Malformed
  /\ Return(w, "received")
  /\ UNCHANGED <<broker, prefetched, mode, connected, storeVars, emails, forgets, breaks>>

\* The body cannot be parsed: Nack(false, false), to the dead-letter queue.
RejectMalformed(w) ==
  /\ job[w] \in Malformed
  /\ Return(w, "received")
  /\ Answer(w, "dead")
  /\ UNCHANGED <<prefetched, mode, connected, storeVars, emails, forgets, breaks>>

\* Mutant of LookupFails: the return after the Nack is missing.
LookupFailsGoesOn(w) ==
  /\ job[w] \notin Malformed
  /\ breaks < MaxBreaks
  /\ Goto(w, "received", "sending")
  /\ Answer(w, "ready")
  /\ attempt' = [attempt EXCEPT ![w] = 1]
  /\ breaks' = breaks + 1
  /\ UNCHANGED <<prefetched, mode, connected, job, storeVars, emails, forgets>>

\* The Redis lookup fails: Nack(false, true), back to the queue.
LookupFails(w) ==
  /\ job[w] \notin Malformed
  /\ breaks < MaxBreaks
  /\ Return(w, "received")
  /\ Answer(w, "ready")
  /\ breaks' = breaks + 1
  /\ UNCHANGED <<prefetched, mode, connected, storeVars, emails, forgets>>

\* Mutant of IsDuplicate: it asks the PostgreSQL table alone.
IsDuplicateInPostgres(e) == e \in pgProcessed

\* EXISTS notif:processed:<event_id>
IsDuplicate(e) == e \in processed

SkipDuplicate(w) ==
  /\ job[w] \notin Malformed
  /\ IsDuplicate(job[w])
  /\ Return(w, "received")
  /\ Answer(w, "acked")
  /\ UNCHANGED <<prefetched, mode, connected, storeVars, emails, forgets, breaks>>

BeginSending(w) ==
  /\ job[w] \notin Malformed
  /\ ~IsDuplicate(job[w])
  /\ Goto(w, "received", "sending")
  /\ attempt' = [attempt EXCEPT ![w] = 1]
  /\ UNCHANGED <<broker, prefetched, mode, connected, job, storeVars, emails,
                 forgets, breaks>>

\* One turn of sendWithRetry's loop: the provider accepts the email ...
SendSucceeds(w) ==
  /\ attempt[w] <= MaxRetries
  /\ Goto(w, "sending", "marking")
  /\ emails' = [emails EXCEPT ![job[w]] = @ + 1]
  /\ UNCHANGED <<broker, prefetched, mode, connected, job, attempt, storeVars,
                 forgets, breaks>>

\* Mutant of SendFails: the loop does not look at maxRetries.
SendFailsForever(w) ==
  /\ Goto(w, "sending", "sending")
  /\ attempt' = [attempt EXCEPT ![w] = @ + 1]
  /\ UNCHANGED <<broker, prefetched, mode, connected, job, storeVars, emails,
                 forgets, breaks>>

\* ... or not; the backoff before the next turn takes time and nothing else.
SendFails(w) ==
  /\ attempt[w] <= MaxRetries
  /\ Goto(w, "sending", "sending")
  /\ attempt' = [attempt EXCEPT ![w] = @ + 1]
  /\ UNCHANGED <<broker, prefetched, mode, connected, job, storeVars, emails,
                 forgets, breaks>>

\* Mutant of GiveUp: it acknowledges.
GiveUpAcks(w) ==
  /\ attempt[w] > MaxRetries
  /\ Return(w, "sending")
  /\ Answer(w, "acked")
  /\ UNCHANGED <<prefetched, mode, connected, storeVars, emails, forgets, breaks>>

\* Mutant of GiveUp: it puts the message back, Nack(false, true).
GiveUpRequeues(w) ==
  /\ attempt[w] > MaxRetries
  /\ Return(w, "sending")
  /\ Answer(w, "ready")
  /\ UNCHANGED <<prefetched, mode, connected, storeVars, emails, forgets, breaks>>

\* All attempts failed: Nack(false, false), to the dead-letter queue.
GiveUp(w) ==
  /\ attempt[w] > MaxRetries
  /\ Return(w, "sending")
  /\ Answer(w, "dead")
  /\ UNCHANGED <<prefetched, mode, connected, storeVars, emails, forgets, breaks>>

\* SET NX sets the key, whether or not the answer comes back.
MarkRedis(w) ==
  /\ Goto(w, "marking", "markingPG")
  /\ processed' = processed \cup {job[w]}
  /\ UNCHANGED <<broker, prefetched, mode, connected, job, attempt, pgProcessed,
                 emails, forgets, breaks>>

\* SET NX does not reach Redis: logged, and the worker goes on to the ack.
MarkRedisFails(w) ==
  /\ forgets < MaxForgets
  /\ Goto(w, "marking", "markingPG")
  /\ forgets' = forgets + 1
  /\ UNCHANGED <<broker, prefetched, mode, connected, job, attempt, storeVars,
                 emails, breaks>>

\* The row is written, or it is not: the insert failed, or PostgreSQL could
\* not be reached when the process started and pgStore is nil.
MarkPostgres(w) ==
  /\ Goto(w, "markingPG", "acking")
  /\ pgProcessed' \in {pgProcessed, pgProcessed \cup {job[w]}}
  /\ UNCHANGED <<broker, prefetched, mode, connected, job, attempt, processed,
                 emails, forgets, breaks>>

Ack(w) ==
  /\ Return(w, "acking")
  /\ Answer(w, "acked")
  /\ UNCHANGED <<prefetched, mode, connected, storeVars, emails, forgets, breaks>>

\* Mutant of WorkerStops: the select has no case for done.
WorkerStopsOnlyWhenClosed(w) ==
  /\ ~connected /\ prefetched = {}
  /\ Goto(w, "select", "stopped")
  /\ UNCHANGED <<broker, prefetched, mode, connected, job, attempt, storeVars,
                 emails, forgets, breaks>>

\* select takes done, or finds the deliveries channel closed.
WorkerStops(w) ==
  /\ mode = "draining" \/ (~connected /\ prefetched = {})
  /\ Goto(w, "select", "stopped")
  /\ UNCHANGED <<broker, prefetched, mode, connected, job, attempt, storeVars,
                 emails, forgets, breaks>>

--------------------------------------------------------------------------
(* The process and its stores. *)

\* The process starts, connects, and spins up its workers.
Start ==
  /\ mode = "stopped"
  /\ mode' = "running"
  /\ connected' = TRUE
  /\ pc' = [w \in Workers |-> "select"]
  /\ UNCHANGED <<broker, prefetched, job, attempt, storeVars, emails, forgets, breaks>>

\* SIGINT or SIGTERM: done is closed.
Shutdown ==
  /\ mode = "running"
  /\ mode' = "draining"
  /\ UNCHANGED <<broker, prefetched, connected, workerVars, storeVars, emails,
                 forgets, breaks>>

\* What ends with the process: the channel, and all that is in memory.
ProcessEnds ==
  /\ mode' = "stopped"
  /\ connected' = FALSE
  /\ broker' = Requeued
  /\ prefetched' = {}
  /\ pc' = [w \in Workers |-> "stopped"]
  /\ job' = [w \in Workers |-> NoEvent]
  /\ attempt' = [w \in Workers |-> 0]

\* Mutant of Exit: no wg.Wait.
ExitWithoutWait ==
  /\ mode = "draining"
  /\ ProcessEnds
  /\ UNCHANGED <<storeVars, emails, forgets, breaks>>

\* wg.Wait returns, Consume returns, the deferred Close calls run.
Exit ==
  /\ mode = "draining"
  /\ \A w \in Workers : pc[w] = "stopped"
  /\ ProcessEnds
  /\ UNCHANGED <<storeVars, emails, forgets, breaks>>

\* The process is killed at any point.
Crash ==
  /\ mode # "stopped"
  /\ forgets < MaxForgets
  /\ ProcessEnds
  /\ forgets' = forgets + 1
  /\ UNCHANGED <<storeVars, emails, breaks>>

\* The time-to-live of an idempotency key ends.
KeyExpires(e) ==
  /\ e \in processed
  /\ forgets < MaxForgets
  /\ processed' = processed \ {e}
  /\ forgets' = forgets + 1
  /\ UNCHANGED <<broker, prefetched, mode, connected, workerVars, pgProcessed,
                 emails, breaks>>

--------------------------------------------------------------------------

Handle(w) ==
  \/ RejectMalformed(w) \/ LookupFails(w) \/ SkipDuplicate(w) \/ BeginSending(w)
  \/ SendSucceeds(w) \/ SendFails(w) \/ GiveUp(w)
  \/ MarkRedis(w) \/ MarkRedisFails(w) \/ MarkPostgres(w) \/ Ack(w)

WorkerStep(w) == Receive(w) \/ Handle(w) \/ WorkerStops(w)

Next ==
  \/ \E e \in Events : Publish(e) \/ Deliver(e) \/ KeyExpires(e)
  \/ \E w \in Workers : WorkerStep(w)
  \/ ConnectionLost \/ Start \/ Shutdown \/ Exit \/ Crash

Spec == Init /\ [][Next]_vars

\* Goroutines are scheduled, the broker pushes what it may push, and a process
\* whose workers have all returned exits.  Nothing is assumed of the payment
\* service, of operators who start or stop the process, or of failures.
Fairness ==
  /\ \A w \in Workers : WF_vars(WorkerStep(w))
  /\ WF_vars(\E e \in Events : Deliver(e))
  /\ WF_vars(Exit)

FairSpec == Spec /\ Fairness

--------------------------------------------------------------------------
(* What must hold. *)

\* An event reaches one pair of hands at a time: no two workers of the pool
\* hold it, and none holds it while its delivery still waits for a worker.
\* EXISTS before the send and SET NX after it are safe only because of this.
OneHolder ==
  \A w \in Workers :
    job[w] # NoEvent =>
      /\ job[w] \notin prefetched
      /\ \A v \in Workers \ {w} : job[v] # job[w]

\* No path through handleDelivery forgets its answer: a message the broker
\* counts as unacknowledged waits for a worker or is in a worker's hands, so
\* the prefetch window never fills up with messages nobody will answer.
NoLeakedDelivery ==
  \A e \in Events :
    broker[e] = "unacked" =>
      connected /\ (e \in prefetched \/ \E w \in Workers : job[w] = e)

\* The prefetch window and the pool fit: while the service runs, a delivery
\* that has reached the process finds a worker in its select, and never waits
\* behind the backoffs of busy ones while it is taken from other consumers.
WorkerForDelivery ==
  mode = "running" /\ connected /\ prefetched # {} /\ Workers # {} =>
    \E w \in Workers : pc[w] = "select"

\* At-least-once: a message is acknowledged only when its customer has been
\* notified, in this run of the process or in an earlier one.
AckedMeansNotified ==
  \A e \in Events : broker[e] = "acked" => emails[e] >= 1

\* A repeated email is always paid for by a crash, a failed Redis mark or an
\* expired key.  A graceful shutdown, a lost connection, a requeue and two
\* workers side by side never cause one.
DuplicatesAccounted ==
  \A e \in Events : emails[e] <= 1 + forgets

\* A dead letter may be replayed: its customer has not been notified, unless
\* the service forgot that.  It takes the answers of all handlers and the
\* redeliveries between them to put a notified event there.
DeadLettersUnsent ==
  \A e \in Events : broker[e] = "dead" => emails[e] <= forgets

\* The answer of the duplicate check is still right when the email goes out,
\* however long the retries took: nothing is sent for an event whose key is
\* in Redis at that moment.
NeverSentAfterMark ==
  [][\A e \in processed : emails'[e] = emails[e]]_vars

\* What NotificationDelivery sees of the broker: the two states of a message
\* that is still on the queue are one there.
Status == [e \in Events |-> CASE broker[e] = "unacked" -> "pending"
                              [] broker[e] = "ready" -> "pending"
                              [] broker[e] = "acked" -> "done"
                              [] OTHER -> broker[e]]

Delivery == INSTANCE NotificationDelivery WITH status <- Status, losses <- forgets

\* Every behaviour of the pool is one NotificationDelivery allows: an event is
\* settled once, after an email or into the dead-letter queue, and not
\* notified afterwards.
DeliverySpec == Delivery!Spec

\* While the process runs and stays connected, every queued event leaves the
\* queue: retries are bounded, and requeues end when the failures do.
EventuallySettled ==
  <>[](mode = "running" /\ connected) =>
    \A e \in Events : broker[e] = "ready" ~> broker[e] \in {"acked", "dead"}

\* After SIGTERM the workers finish what they hold and the process exits,
\* whatever the broker keeps pushing.
DrainCompletes == mode = "draining" ~> mode = "stopped"

\* The comment on IdempotencyStore (processed_events): "Before processing any
\* message, the consumer checks this store. If the event_id already exists,
\* the message is a duplicate and is silently ACKed."
NeverSentWhenStored ==
  [][\A e \in pgProcessed : emails'[e] = emails[e]]_vars
==========================================================================
