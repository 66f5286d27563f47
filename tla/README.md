# Verification of the AP2 order, payment and notification services

TLA+ models of the three Go services of this repository, one by one and
together, checked with TLC on small instances. Every invariant, every action
property and all three refinements are also proved with TLAPS for every value of
the constants; the proofs compose, up to the whole system with nothing abstracted
between its parts. Paths below are relative to the repository.

## 1. The system

```
 client --HTTP--> rate limiter --> HTTPHandler --\
 client --gRPC--------------------------------> OrderHandler --gRPC--> PaymentHandler
                                   |    |                               |        |
                              orders  Redis order:<id>              payments  Publisher
                              (PG)    (cache-aside)                  (PG)        |
                                                             RabbitMQ payment.completed
                                                                                 |
 email provider <-- worker pool (NotificationConsumer) <-------------------------+
                       |               |
               Redis notif:processed   PG processed_events
```

| Component | State | Operations | Interaction | What is hard | What makes it correct |
|---|---|---|---|---|---|
| Notification worker pool (`notification-service/internal/consumer`, `cmd/main.go`) | deliveries channel, each worker's delivery and attempt, `done`, AMQP connection | receive, parse, look up, send with retries, mark, ack/nack, shutdown | RabbitMQ deliveries, Redis, PostgreSQL, email provider | N workers on one channel, redelivery, failed marks and acks, crash at any point, drain on SIGTERM | every delivery is answered, at-least-once, duplicates only after a record was lost, dead letters unsent, no delivery waits for a busy pool, drain ends |
| Idempotency stores (`internal/repository`) | Redis keys with TTL; `processed_events` | `IsDuplicate`, `MarkProcessed` | called by the workers | check and mark are two calls around the send; keys expire; the PostgreSQL store is written and never read | no email for an event whose key is set |
| Email providers (`internal/provider`) | the SMTP connection of an attempt | `Send` | called by the workers through `sendWithRetry` | no deadline, answers lost after the body, errors of deferred calls dropped | a retry repeats no email, a dead letter was not sent, only a silent server keeps a worker |
| Order to notification pipeline | gRPC requests on their way | call, refuse, break off, abandon, answer | all three services | each side may end or fail while the other goes on; nothing compensates | a charge has its order, a completed order its charge and its event; every charge without a completed order has a known cause |
| Order handler (`order-service/internal/handler`) | one CreateOrder per order, GetOrder requests with a fill goroutine | CreateOrder, GetOrder, invalidateCache | orders table, Redis cache, payment RPC | fills race invalidations; dropped errors; a cancelled context fails the delete and not the update | the cache never shows what the row never said; stale keys have known causes and go away |
| Order cache, order repository | Redis keys with TTL; `orders.status` | get, set, delete; insert, update, select | called by the handler | best effort, TTL 0 never expires | as above |
| Order service process (`order-service/cmd/main.go`) | gRPC and HTTP server | start, GracefulStop, Close, crash | runs the handlers | the two servers stop differently; a signal before `signal.Notify` | what a stop cuts off leaves no wrong status in the cache for ever, and charges nobody unexplained |
| Rate limiter (`internal/middleware`) | Redis counter with TTL per client | INCR, EXPIRE, admit, refuse | in front of HTTPHandler | INCR and EXPIRE are two calls; fail-open; hang-ups | a window admits exactly its limit and ends |
| Payment handler, repository (`payment-service/internal`) | transaction, `payments` | CreatePayment, publish, reply | called by the order service | ambiguous commit, crash between commit and publish | nothing is said of a payment that was not made; nothing leaks |
| Publisher (`internal/messaging`) | AMQP connection and topology | declare, publish | RabbitMQ | no confirms, no reconnect, returned messages go unread | every payment has its event, also across stops and restarts, as long as nothing fails |
| Whole system | all of the above | all of the above; the pool meets the payment service in the publish | RabbitMQ | the event of a payment may be sent and acknowledged before its order is completed, or never completed | from a completed row to the email or the unsent dead letter; every charge is followed up |
| gRPC stubs, codec | none | marshal, invoke, dispatch | between the services | | the call itself is in the pipeline; marshalling is stateless and left out |
| Deployment files | none | | | | not modelled: configuration |

## 2. Modules

| Module | What it is |
|---|---|
| `NotificationDelivery` | abstract: what the notification service promises about one event |
| `NotificationConsumer` | the worker pool with broker, stores, failures; implements `NotificationDelivery` |
| `OrderHandler` | CreateOrder, GetOrder, the cache and the process around them |
| `PaymentHandler` | ProcessPayment, publisher and process |
| `RateLimiter` | the middleware with Redis and the clock |
| `SmtpSender` | `sendWithRetry` over the SMTP dialogue of the real email provider |
| `Purchase` | abstract: what the three services promise together about one order |
| `OrderPipeline` | `OrderHandler`, `PaymentHandler` and `NotificationDelivery` composed; implements `Purchase` |
| `OrderSystem` | `OrderPipeline` with `NotificationConsumer` in the place of `NotificationDelivery`; implements `OrderPipeline` |
| `*_proofs` | the theorems about the module of that name |
| `MC*` | what TLC loads, one `.cfg` per run |

The layers fit together: `OrderPipeline` takes the notification service as
`NotificationDelivery`, which `NotificationConsumer` is proved to implement;
`OrderSystem` puts the real pool in that place and is proved to implement
`OrderPipeline`, and with it `Purchase`. `NotificationConsumer` takes `Send` as
one step, which `SmtpSender` opens up.

A definition whose comment says "Mutant of ..." is not part of any
specification. It is a slip the definition after it could have, kept to show
that a property notices it.

### NotificationConsumer

The grain is one call to something outside the process. `pc[w]` is the place of
worker `w` in `Consume`/`handleDelivery`/`sendWithRetry`: `select`, `received`
(before parse and lookup), `sending` (in the retry loop), `marking`,
`markingPG`, `acking`, `stopped`. Parsing and the Redis lookup are one step
because parsing is local. `broker[e]` is RabbitMQ's view of an event and
`prefetched` the deliveries of the channel that no worker has taken.

| Code | Actions |
|---|---|
| `Consume`, the select loop | `Receive`, `WorkerStops` (`done` and the closed channel; with both ready the select may take either) |
| `handleDelivery` | `RejectMalformed`, `LookupFails`, `SkipDuplicate`, `BeginSending`, `GiveUp`, `MarkRedis`, `MarkRedisFails`, `MarkPostgres`, `Ack` |
| `sendWithRetry` | `SendSucceeds`, `SendFails` |
| `main` | `Start`, `Shutdown`, `Exit`, `Crash` |
| RabbitMQ, Redis | `Publish`, `Deliver`, `ConnectionLost`, `KeyExpires` |

An ack or nack on a connection that is gone changes nothing at the broker; its
error is ignored by the code. `MarkPostgres` writes the row or not, which also
covers a process that started without PostgreSQL. When the connection is lost
the deliveries still in the process may or may not reach a worker. The counter
`forgets` counts what makes the service forget that it sent something: a crash,
a failed `SET NX`, an expired key. `breaks` counts lost connections and failed
lookups. Both exist to bound the failures, and `forgets` is also what
`DuplicatesAccounted` charges a repeated email to.

### OrderHandler

`call[o]` is the place of the CreateOrder call that made order `o`: `paying`,
`updating`, `invalidating`, then `returned`, `failed` or `lost` (its process
ended). A GetOrder that misses the cache is a reader: `target[r]` is its order
and `seen[r]` the status it read from the row and its goroutine will put into
the cache. A hit changes nothing and is no action. `cancelled` are the gRPC
calls whose client is gone: their payment call fails, their cache delete fails,
their update does not, because the repository takes no context. Three history
variables record causes: `lostUpdates`, `missed` (no delete), `late` (a fill
with a status the row no longer had). In mode `starting` the servers already
take requests and `main` has not called `signal.Notify` yet: a signal then ends
the process at once (`SigtermEarly`).

| Code | Actions |
|---|---|
| `CreateOrder` | `Insert`, `InsertFails`, `PaymentSucceeds`, `PaymentFails`, `Update`, `UpdateFails`, `Invalidate`, `InvalidateFails` |
| `GetOrder` and its goroutine | `Miss`, `QueryFinds`, `QueryEnds`, `Fill`, `FillFails` |
| `main` | `Start`, `Notify`, `Sigterm`, `SigtermEarly`, `Exit`, `Crash` |
| clients, Redis | `Cancel`, `Expire` |

### PaymentHandler

A request goes through `inserting`, `committing`, `publishing` to `replied`,
`failed` or `lost`. A commit that returns an error may have been executed. A
publish on an open connection may be lost without an error (`PublishLost`), may
be returned by the broker to nobody (`Publish` with the queue unbound: the flag
Mandatory makes the broker return the message, and only a `NotifyReturn` channel,
which the publisher does not have, would see it), and fails at once when the
connection is closed, which nothing reopens before the next start. That error is
logged; in all three cases the reply is "completed".

### RateLimiter

`count` and `ttl` are the Redis key of a client, `Tick` is one second. A request
is `expiring` after an INCR that answered 1, and `deciding` otherwise. `current`
marks the requests that the key now present has counted, so that `admitted` and
`refused` speak of one window even when a handler is slow. `window` is
`windowSeconds`; the runs take it from {0, 2}, as a malformed value becomes 0.
A request whose INCR returns an error is let through without the limiter, counted
by Redis or not (`IncrFails`); it is not one of those in `admitted`, so `LimitKept`
speaks of the requests that got an answer. `go-redis` repeats a call whose answer
was lost: that is an `IncrFails` that was executed and an `Incr` after it, which
answers 2 to a first request, and no EXPIRE follows.

### SmtpSender

One action is one answer that `Send` waits for. `pc[m]` is its place: `loop` in
`sendWithRetry`, then the greeting and the commands in their order, `body`
(`wc.Write`), `closing` and `ending` (the deferred `wc.Close`, before and after
the final dot), `quit` (the deferred `Quit`), `returned`. The deferred calls run
in reverse order and their results are dropped, so `result[m]` is decided before
them. `conn[m]` is `open`, `broken` or `silent`: the code sets no deadline, so a
connection that stays open without an answer holds its worker. `accepted[m]` is
the truth at the mail server, which no variable of the program has. A failed
`Auth` calls `Quit` itself before the deferred one; the second finds the
connection closed, and both are the one `Quit` here. A body that fits the
4096 bytes of the writer is not sent before `wc.Close`, so `Write` sees no
error; `WriteFails` is there for longer ones.

### OrderPipeline

The components are instances over the variables of this module; a step of the
composition is a step of one of them, or of two that meet. New is the way
between: `wire` holds the requests that were sent and have not begun. A request
may be taken (`ReceiveRequest`), refused because the payment service is not up or
because the client still waits, after an earlier failure, to connect again
(`CallRefused`: `grpc.Dial` does not wait, and neither does a call; the state of
the connection is not kept, so a call may be refused at any time before it is
taken), or fail with its connection (`CallBreaks`) and then still be executed. A caller that is
cancelled or dies leaves its request behind: the payment service looks at no
context. The answer is read by `AnswerArrives` or `CallFails`. The event of a
payment is `status[o]`; `PaymentHandler` sees of it only that it is in the queue.
`OrderHandler`'s cache is left out (`caching` is false), because CreateOrder
never reads it and its place in the call changes no row.

### OrderSystem

The variables are those of `OrderPipeline` without `status` and `losses`, and
those of `NotificationConsumer`; the event of an order is named by the order.
`status` and `losses` are computed from the worker pool by the refinement mapping
of `NotificationConsumer` (`Status`, `forgets`). `SalesStep` and `SalesProcess`
are the steps of the order and the payment service, `NotifierStep` those of the
pool, the broker and Redis, and `Announce` is the one step in which the two meet:
`Publish` in the payment service is the message in RabbitMQ. `SalesStep` covers
a publish that fails or is lost, which no one at the broker sees. A payment
always makes a well-formed event, so no event is malformed here.

## 3. Runs

| Run | Properties | What it shows |
|---|---|---|
| `notif` | `TypeOK`, `OneHolder`, `NoLeakedDelivery`, `WorkerForDelivery`, `DeadLettersUnsent`, `AckedMeansNotified`, `DuplicatesAccounted`, `NeverSentAfterMark`, `DeliverySpec`, `EventuallySettled`, `DrainCompletes` | custody of messages, a worker for every delivery, at-least-once, the price of a duplicate, dead letters that can be replayed, refinement, settling and draining |
| `notif_stored` | `NeverSentWhenStored` violated | after one failed `SET NX` and a lost ack an event in `processed_events` is sent a second time: `IdempotencyStore.IsDuplicate` has no caller, and the package comment's "never fulfilled twice" is not kept either |
| `order` | `TypeOK`, `CacheNeverAhead`, `StaleExplained`, `ReplyMatchesRow`, `FreshInTheEnd`, `CallsEnd` | row, cache and reply stay in step but for the causes named, the TTL repairs every stale key, calls and shutdown end |
| `order_stale` | `NoPendingAfterPayment` violated | read, update, delete, fill: `pending` is cached after a successful payment, without any fault |
| `payment` | `TypeOK`, `SaidMeansPaid`, `NoOpenTransaction`, `PublishedWithoutFaults`, `RequestsEnd` | no word of a payment that was not made, no leak; without a fault every payment has its event, across shutdowns and restarts |
| `payment_publish` | `UnroutedReported` violated | the queue is unbound, the broker returns the event, `Publish` returns nil and the caller is told "completed": Mandatory makes nobody return an error, and the caller has nothing to retry |
| `ratelimiter` | `TypeOK`, `LimitKept`, `RefusedOnlyWhenFull`, `WindowCloses`, `LimitLifted` | the limit is exact and, without faults, every window ends |
| `ratelimiter_window` | `EveryWindowEnds` violated | a counted key may never get its EXPIRE |
| `pipeline` | `TypeOK`, `ChargedOrderExplained`, `PurchaseSpec`, `CallsComeBack` | order, charge, event and email keep the promises of `Purchase`; every charge without a completed order has a named cause; no call waits for ever |
| `system` | `TypeOK`, `CompletedReachesCustomer`, `ChargeReachesCustomer`, `PipelineSpec`, `ChargesFollowedUp` | the worker pool may stand where `OrderPipeline` has `NotificationDelivery`; a completed order, and any charge, can be followed to the email or the unsent dead letter, unless the payment service had a fault before the publish or in it; every charge is followed up although its caller is gone |
| `smtp` | `TypeOK`, `AcceptedOnce`, `EveryEmailEnds` | retries repeat nothing, dead letters were not sent, a silent server holds its own worker only |
| `smtp_accepted` | `NilMeansAccepted` violated | the server refuses the body, and `Send` returns nil |

The runs check for deadlock, except those of `SmtpSender`: with all emails
settled, or every server silent, it really stops. No run uses symmetry.

`main` of the order service ends the HTTP server with `Close` and not with
`Shutdown`, which cuts off a CreateOrder over HTTP wherever it is (`Exit` waits for
the gRPC calls only); its row may stay pending although it is paid. A payment
service that is killed between commit and publish leaves a charge without an event
and without a completed order. Both are what the code does: no property forbids
them, `ChargedOrderExplained` names them as causes, and `CompletedReachesCustomer`
says that the second never completes the order.

What the runs say about money and messages, in short. A customer who is charged
and whose order does not end `completed` was cancelled, lost a connection or an
update, or one of the two services failed or was stopped at that point: restarts,
drains and refused calls of the payment service never cause it. Nobody is
notified without a charge, and no order is completed by a payment service that
died before its publish. With a healthy payment service every charge is
followed by an email or a dead letter. And a confirmed email is, with the SMTP
provider, one that was handed over and not one that was accepted.

### Bounds

- `notif`: three events, one malformed; two workers, so that the third event
  waits in the broker behind a full prefetch window; two attempts; one forget
  and one break, enough for a redelivery after each kind of failure. The safety
  properties are also proved without these bounds.
- `order`: one order over each server, one reader, which can read either order
  before and fill after any step of its CreateOrder, one fault. Several readers,
  orders and faults are covered by the proofs; liveness is checked with these.
- `payment`: three concurrent requests, two faults: a lost connection followed
  by a crash or an ambiguous commit.
- `ratelimiter`: two clients, limit 2, three requests in flight, so one more
  than the limit; counts above 3 are not told apart, which the code does not do
  either; one fault.
- `pipeline`: one order over gRPC (so that it can be cancelled), one fault of
  the order service, two of the payment service, one broken connection, one
  record lost by the notification service. Orders meet only in the processes and
  in the queue; any number of them is covered by `OrderPipeline_proofs`.
- `system`: one order over gRPC, one worker, one attempt, one fault of the payment
  service, one forget. These are enough for a cancelled caller, a crash on either
  side of the queue and a redelivery; what several workers and attempts add is
  the subject of `notif`, what broken calls and faults of the order service add
  that of `pipeline`, and the proofs have no bounds.
- `smtp`: two emails, so that one can wait on a silent server while the other
  goes on; two attempts; one kill.
- The violated runs use the smallest instance that shows the trace.

Counters of failures are bounded in the guards of the actions that count them,
never by a state constraint, so liveness and refinement are checked on complete
behaviours.

### Fairness

Only what the Go runtime, the broker and the stores do of themselves is fair,
and only weakly: a worker or handler that can take a step takes one (goroutines
are scheduled, and the calls they wait for return), the broker delivers what the
prefetch window lets it deliver, keys with a time-to-live expire, time passes,
and a process whose waiting is over exits. Starting, stopping, publishing,
cancelling, requests and all failures have no fairness. Failures stop because
they are bounded; `EventuallySettled` and `ChargesFollowedUp` also assume that
from some point on the process runs and its connection stays open, as nothing in
the code restores it.

In `OrderHandler` `main` is also fair in reaching `signal.Notify`. In
`OrderPipeline` a request whose caller waits is taken or refused and an answer
that is there is read; nothing is assumed of requests nobody waits for.
`OrderSystem` has the fairness of its parts and no other.

That `Send` returns is true of the simulated provider and an assumption of
`NotificationConsumer`. In `SmtpSender` it is the question: a step is fair unless
the server is silent, and a silent server may stay so for ever. `EveryEmailEnds`
therefore speaks of each email whose own server is not silent for ever. While one
is, its worker does not return, and a shutdown waits for it.

## 4. Proofs

Seven modules hold theorems. Each proves an inductive invariant `IInv` by one
lemma per named part (`...Step`), with one step per action, and draws the
properties from it. The assumptions are the named `ASSUME`s of the modules and
nothing else: any sets of events, workers, orders, readers, requests, clients,
emails, and any bounds, zero included. Two sets must be finite, because they are
counted: the rate limiter's requests, and the workers.

### Notification service

`NotificationConsumer_proofs` proves for any sets of events and workers, any
`maxRetries` and any bounds, from `ConsumerAssumption` only:

- `Implements`: `Spec => DeliverySpec`, the refinement of
  `NotificationDelivery`;
- `OneHolderHolds`, `NoLeak`, `DeliveryFindsWorker`, `DeadLettersReplayable`,
  `AtLeastOnce`, `DuplicatesBounded`, `TypeCorrect`: the invariants of run `notif`;
- `CheckNeverStale`: its action property.

None of these is inductive alone. `IInv` has four layers:

1. `TypeOK`;
2. `Custody`: a worker holds an event exactly while it handles one, what is held
   or prefetched is `unacked` at the broker while the connection lives and
   `ready` once it is gone, holders are unique, and a stopped process holds
   nothing;
3. `Window`: the unacknowledged messages are a finite set, no larger than the pool
   unless the pool is empty (a prefetch count of zero is no limit), and in a
   process that runs connected no worker has stopped;
4. `Records`: an event has at most `1 + forgets` emails, and at most `forgets`
   when neither Redis nor a worker about to mark it remembers the last one
   (`UnrecordedAccounted`); the key of an event is absent while a worker is
   sending it (`CheckStaysRight`); whatever counts as notified was.

`DeliveryFindsWorker` is a pigeonhole argument on the second and third layer: were
every worker to hold an event while one is prefetched, the events they hold would
be as many as the workers (`OneHolder`), all unacknowledged, and the prefetched one
would be one more than `Qos` allows. `DeadLettersReplayable` needs that what is
given up after its attempts was last seen without a key, and that a malformed
event is never sent (`MalformedUnsent`).

That a worker about to send finds `emails <= forgets` is what the abstract
`Notify` demands, and needs all of this: the key is absent by `CheckStaysRight`,
nobody else is about to set it by `OneHolder`. `TypeStep`, `CustodyStep`,
`WindowStep` and `RecordsStep` show that each action preserves its layer,
with one step per action; `AnswerStatus` says what an ack or nack does to the abstract state;
`StepRefines` maps every step to a step or a stutter.

### Order service

`OrderHandler_proofs`: `TypeCorrect`, `NeverAhead`, `StaleHasCause`, `ReplyIsRow`.
`IInv` is `TypeOK`; `Lifecycle`, that a stopped process
has no call and no reader under way, that fills exist only with the cache, and
that without it no order in flight has a key; `Progress`, which row and reply
exist at each point of `CreateOrder`; and `Copies`, that every status outside the
table, in a key or in a fill under way, is one the row has or has had, and that
a wrong one is in a fill, waits for its delete, or is recorded in `missed` or
`late`. The last part is why the invariants of the run are not inductive: a stale
key is caused by a reader that read before the update, so the invariant must
speak of what readers carry.

### Payment service

`PaymentHandler_proofs`: `TypeCorrect`, `SaidIsPaid`, `NoLeak`, `QuietPublishes`.
`Committed` ties the place of a request to its transaction and its row; `Quiet`
says that until the first fault a running process is connected, the queue is
bound, and every payment has its event or a request about to publish it. For the
step `Exit` this needs that GracefulStop waits, for `Start` that the topology is
declared before a request is served.

### Rate limiter

`RateLimiter_proofs`: `TypeCorrect`, `LimitHolds`, `RefusalsAreFair`,
`WindowsClose`. The heart is `Balanced`: for each client what was admitted and
the requests of its window that are still undecided within the limit come to the
smaller of the counter and `maxRequests` (to at most that, once something has
failed). `LimitKept` does not follow from any statement about one request: a
handler that was counted early may decide late, and only the sum is preserved.

### The services together

`OrderPipeline_proofs`: `TypeCorrect`, `CompletedIsQueued`, `ChargedIsQueued`,
`ChargeHasCause` and `ImplementsPurchase`, the refinement of `Purchase`. `Ledger` is what the order
service knows at each point of its call, `Journey` what its request has become,
`Charges` what is committed and announced, `Announced` that without a fault of
the payment service a charge has a queued event or is about to get one. The argument follows the
answer back along the call: `completed` in the row was a reply, the reply was
given by a request at its end, and that request has committed and published.

The composition keeps its parts: `OrderKept`, `PaymentKept` and `DeliveryKept` say
that each step of `OrderPipeline` is, on the variables of one service, a step of
that service or a stutter. So what is proved of a service alone holds in the
composition, whatever the others do, and nothing is proved twice: `AnswersTrue`
lifts the invariants on replies, rows and transactions. Lemmas named `Same...` identify the definitions of the instance that
carries the theorems with those of the instance that the module itself has.

### The whole system

`OrderSystem_proofs` adds no invariant of its own. `NotifierKept`: the pool in the
system is the one `NotificationConsumer` specifies, so its invariant and its
refinement hold here. `ImplementsPipeline`: each step of the pool is a step of
`NotificationDelivery` or a stutter and leaves the rest alone, and so is a step of
`OrderPipeline`; the publish is the publish of both. From there
`ImplementsPurchase` and `ChargeHasCause` carry over. `CompletedIsNotified` and
`ChargeIsNotified` join the two sides: `CompletedIsQueued` and `ChargedIsQueued` of
the pipeline say whose event was queued, and the custody and the records of the
pool (`PublishedIsFollowed`) where it then is and how many emails it has cost.

### SMTP provider

`SmtpSender_proofs`: `TypeCorrect` and `NoRepeatByRetry`. An
email the server has taken is paid for by a kill, or its `Send` is past the final
dot and will return nil.

### What is only model-checked

The liveness properties: `EventuallySettled`, `DrainCompletes`, `FreshInTheEnd`,
`CallsEnd`, `RequestsEnd`, `LimitLifted`, `CallsComeBack`, `ChargesFollowedUp`,
`EveryEmailEnds`. Liveness under fairness is outside what the prover handles.

## 5. Not modelled

- Parsing of the configuration: malformed numbers become zero, and the
  constants may be zero. What such a service then does (no attempts, no workers,
  keys without expiry) follows from the models.
- HTTP routing and the cut of a path id to 32 bits in `getOrder`: orders are
  named, not numbered, in the models.
- Lengths of delays, message contents, logging, routing and validation of
  requests, the gRPC stubs and the JSON codec: they do not change the state the
  properties speak of.
- More than one replica of a service: the deployment has one of each.
- RabbitMQ's consumer timeout and loss of data by the stores themselves.
- `amqp091-go`, `go-redis`, `database/sql` and `net/http` are modelled by what
  this code relies on and marked external.

## 6. What could come next

- A run of two orders through the pipeline with liveness; the safety half is
  proved, and the state space is beyond a short run.
- An abstract `sendWithRetry` that both `SmtpSender` and the send loop of
  `NotificationConsumer` implement; today they meet in their descriptions only.
- A reconnecting consumer and publisher, once the code has them: today a lost
  connection ends the work of the process, and `EventuallySettled` and
  `PublishedWithoutFaults` have to assume that it does not happen.
- An outbox or a compensation, for the causes `ChargedOrderExplained` lists.
