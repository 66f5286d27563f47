-------------------------- MODULE OrderHandler --------------------------
(***************************************************************************)
(* The order service: CreateOrder and GetOrder of OrderHandler, over the   *)
(* orders table, the Redis cache of orders (cache-aside) and the payment   *)
(* service it calls, with the two servers of the process that run them:    *)
(* gRPC, whose requests carry a context the client may cancel, and HTTP,   *)
(* whose handlers pass context.Background().                               *)
(*                                                                         *)
(* One action is one call to PostgreSQL, Redis or the payment service, so  *)
(* all requests interleave between such calls.  Of an order only its       *)
(* status is kept: the other columns never change.                         *)
(*                                                                         *)
(* Bound: MaxFaults limits the calls that fail and the crashes.            *)
(* A definition that a comment calls a mutant is never part of Spec.       *)
(***************************************************************************)
EXTENDS Naturals

CONSTANTS
  Orders,     \* order ids: the serial column never gives one out twice
  GrpcOrders, \* those created over gRPC; the others come over HTTP
  Readers,    \* GetOrder requests in flight, each with its fill goroutine
  TTL,        \* CACHE_TTL_SECONDS; 0, also for a malformed value, is no expiry
  MaxFaults,  \* bound on the faults
  NoOrder     \* what an idle reader looks for

ASSUME OrderAssumption ==
  /\ GrpcOrders \subseteq Orders
  /\ NoOrder \notin Orders
  /\ TTL \in Nat
  /\ MaxFaults \in Nat

VARIABLES
  row,         \* row[o]: the status column, "none" before the insert
  entry,       \* entry[o]: the status under the key order:<o>, or "none"
  call,        \* call[o]: what the CreateOrder call of o does next
  reply,       \* reply[o]: what ProcessPayment returned for o
  cancelled,   \* gRPC calls whose context is cancelled
  target,      \* target[r]: the order reader r asks for
  seen,        \* seen[r]: the status r read from the row, to be cached
  mode,        \* the process: "starting", "up", "draining", "down"
  caching,     \* h.cache != nil: Redis answered when the process started
  faults,      \* faults so far
  lostUpdates, \* history: orders whose UPDATE failed
  missed,      \* history: orders whose cache key was not deleted
  late         \* history: orders filled with a status the row no longer had

callVars    == <<call, reply, cancelled>>
readVars    == <<target, seen>>
historyVars == <<lostUpdates, missed, late>>
processVars == <<mode, caching>>
vars == <<row, entry, callVars, readVars, processVars, faults, historyVars>>

Status    == {"pending", "completed", "payment_failed"}
Ended     == {"returned", "failed", "lost"}
CallState == {"new", "paying", "updating", "invalidating"} \cup Ended

InFlight(o) == call[o] \in {"paying", "updating", "invalidating"}

StoreType ==
  /\ row \in [Orders -> Status \cup {"none"}]
  /\ entry \in [Orders -> Status \cup {"none"}]

CallType ==
  /\ call \in [Orders -> CallState]
  /\ reply \in [Orders -> {"none", "completed", "error"}]
  /\ cancelled \subseteq GrpcOrders

ReaderType ==
  /\ target \in [Readers -> Orders \cup {NoOrder}]
  /\ seen \in [Readers -> Status \cup {"none"}]

ProcessType ==
  /\ mode \in {"starting", "up", "draining", "down"}
  /\ caching \in BOOLEAN
  /\ faults \in 0 .. MaxFaults
  /\ lostUpdates \subseteq Orders
  /\ missed \subseteq Orders
  /\ late \subseteq Orders

\* The type of every variable.
TypeOK == StoreType /\ CallType /\ ReaderType /\ ProcessType

Init ==
  /\ row = [o \in Orders |-> "none"]
  /\ entry = [o \in Orders |-> "none"]
  /\ call = [o \in Orders |-> "new"]
  /\ reply = [o \in Orders |-> "none"]
  /\ cancelled = {}
  /\ target = [r \in Readers |-> NoOrder]
  /\ seen = [r \in Readers |-> "none"]
  /\ mode = "down"
  /\ caching = FALSE
  /\ faults = 0
  /\ lostUpdates = {}
  /\ missed = {}
  /\ late = {}

\* One of the calls below goes wrong.
Fault == faults < MaxFaults /\ faults' = faults + 1

--------------------------------------------------------------------------
(* CreateOrder. *)

\* Mutant of Step: the key is deleted before the row is updated.
StepDeleteFirst(o, from, to) ==
  /\ call[o] = from
  /\ call' = [call EXCEPT ![o] = CASE from = "paying" -> "invalidating"
                                   [] from = "invalidating" -> "updating"
                                   [] from = "updating" -> "returned"
                                   [] OTHER -> to]

Step(o, from, to) ==
  /\ call[o] = from
  /\ call' = [call EXCEPT ![o] = to]

\* GracefulStop refuses new gRPC calls; the HTTP server still takes requests.
Accepts(o) ==
  \/ mode \in {"starting", "up"}
  \/ mode = "draining" /\ o \notin GrpcOrders

\* INSERT ... 'pending' RETURNING id
Insert(o) ==
  /\ Accepts(o)
  /\ Step(o, "new", "paying")
  /\ row' = [row EXCEPT ![o] = "pending"]
  /\ UNCHANGED <<entry, reply, cancelled, readVars, processVars, faults, historyVars>>

\* The insert fails, or its answer is lost: the call returns the error.
InsertFails(o) ==
  /\ Accepts(o)
  /\ Fault
  /\ Step(o, "new", "failed")
  /\ row' \in {row, [row EXCEPT ![o] = "pending"]}
  /\ UNCHANGED <<entry, reply, cancelled, readVars, processVars, historyVars>>

\* The HTTP handler gives CreateOrder context.Background(), which ends for
\* nobody; a gRPC call brings the context of its client.
HasContext(o) == o \in GrpcOrders

\* The client of a gRPC call goes away.
Cancel(o) ==
  /\ HasContext(o)
  /\ InFlight(o)
  /\ cancelled' = cancelled \cup {o}
  /\ UNCHANGED <<row, entry, call, reply, readVars, processVars, faults, historyVars>>

\* ProcessPayment answers: its status is always "completed".
PaymentSucceeds(o) ==
  /\ Step(o, "paying", "updating")
  /\ reply' = [reply EXCEPT ![o] = "completed"]
  /\ UNCHANGED <<row, entry, cancelled, readVars, processVars, faults, historyVars>>

\* Mutant of PaymentFails: the error returns before the row is updated.
PaymentFailsAtOnce(o) ==
  /\ Step(o, "paying", "failed")
  /\ reply' = [reply EXCEPT ![o] = "error"]
  /\ UNCHANGED <<row, entry, cancelled, readVars, processVars, faults, historyVars>>

\* ProcessPayment returns an error: the context is cancelled, the payment
\* service is not there, or it failed.  A call does so once: no bound is needed.
PaymentFails(o) ==
  /\ Step(o, "paying", "updating")
  /\ reply' = [reply EXCEPT ![o] = "error"]
  /\ UNCHANGED <<row, entry, cancelled, readVars, processVars, faults, historyVars>>

\* Mutant of FinalStatus: an error is written as it is.
FinalStatusRaw(o) == reply[o]

\* The status the handler writes after reply[o].
FinalStatus(o) ==
  IF reply[o] = "completed" THEN "completed" ELSE "payment_failed"

\* UPDATE orders SET status: it has no context to be cancelled.
Update(o) ==
  /\ Step(o, "updating", "invalidating")
  /\ row' = [row EXCEPT ![o] = FinalStatus(o)]
  /\ UNCHANGED <<entry, reply, cancelled, readVars, processVars, faults, historyVars>>

\* The update fails: `_ =` drops the error and the handler goes on.
UpdateFails(o) ==
  /\ Fault
  /\ Step(o, "updating", "invalidating")
  /\ lostUpdates' = lostUpdates \cup {o}
  /\ UNCHANGED <<row, entry, reply, cancelled, readVars, processVars, missed, late>>

\* CreateOrder returns the payment's status, or the payment's error.
Returned(o) == IF reply[o] = "completed" THEN "returned" ELSE "failed"

\* Mutant of Invalidate: it writes the new status instead of deleting the key.
InvalidateByWriting(o) ==
  /\ caching /\ o \notin cancelled
  /\ Step(o, "invalidating", Returned(o))
  /\ entry' = [entry EXCEPT ![o] = FinalStatus(o)]
  /\ UNCHANGED <<row, reply, cancelled, readVars, processVars, faults, historyVars>>

\* invalidateCache deletes the key, with the context of the request.
Invalidate(o) ==
  /\ caching => o \notin cancelled
  /\ Step(o, "invalidating", Returned(o))
  /\ entry' = IF caching THEN [entry EXCEPT ![o] = "none"] ELSE entry
  /\ UNCHANGED <<row, reply, cancelled, readVars, processVars, faults, historyVars>>

\* Mutant of InvalidateFails: the handler tries again until it succeeds.
InvalidateRetries(o) ==
  /\ caching
  /\ Step(o, "invalidating", "invalidating")
  /\ IF o \in cancelled THEN UNCHANGED faults ELSE Fault
  /\ missed' = missed \cup {o}
  /\ UNCHANGED <<row, entry, reply, cancelled, readVars, processVars, lostUpdates, late>>

\* The delete fails, as it must when the context is cancelled: only logged.
InvalidateFails(o) ==
  /\ caching
  /\ Step(o, "invalidating", Returned(o))
  /\ IF o \in cancelled THEN UNCHANGED faults ELSE Fault
  /\ missed' = missed \cup {o}
  /\ UNCHANGED <<row, entry, reply, cancelled, readVars, processVars, lostUpdates, late>>

--------------------------------------------------------------------------
(* GetOrder. *)

\* A request finds no key, or the lookup fails, or there is no cache.  A hit
\* is answered from the key and changes nothing.
Miss(r, o) ==
  /\ mode # "down"
  /\ target[r] = NoOrder
  /\ IF caching /\ entry[o] # "none" THEN Fault ELSE UNCHANGED faults
  /\ target' = [target EXCEPT ![r] = o]
  /\ UNCHANGED <<row, entry, callVars, seen, processVars, historyVars>>

Querying(r) == target[r] # NoOrder /\ seen[r] = "none"
Filling(r)  == seen[r] # "none"

\* The row is there: the response is on its way, and a goroutine will cache
\* the order.
QueryFinds(r) ==
  /\ caching
  /\ Querying(r)
  /\ row[target[r]] # "none"
  /\ seen' = [seen EXCEPT ![r] = row[target[r]]]
  /\ UNCHANGED <<row, entry, callVars, target, processVars, faults, historyVars>>

\* No row, a failed query, or no cache to fill: nothing is left to do.
QueryEnds(r) ==
  /\ Querying(r)
  /\ IF caching /\ row[target[r]] # "none" THEN Fault ELSE UNCHANGED faults
  /\ target' = [target EXCEPT ![r] = NoOrder]
  /\ UNCHANGED <<row, entry, callVars, seen, processVars, historyVars>>

\* The goroutine of r is over.
EndFill(r) ==
  /\ Filling(r)
  /\ target' = [target EXCEPT ![r] = NoOrder]
  /\ seen' = [seen EXCEPT ![r] = "none"]

\* SET order:<id>, whatever has happened since the row was read.
Fill(r) ==
  /\ EndFill(r)
  /\ entry' = [entry EXCEPT ![target[r]] = seen[r]]
  /\ late' = IF row[target[r]] = seen[r] THEN late ELSE late \cup {target[r]}
  /\ UNCHANGED <<row, callVars, processVars, faults, lostUpdates, missed>>

\* The SET fails: only logged.
FillFails(r) ==
  /\ Fault
  /\ EndFill(r)
  /\ UNCHANGED <<row, entry, callVars, processVars, historyVars>>

--------------------------------------------------------------------------
(* Redis and the process. *)

\* Mutant of Expire: the key is set without a time-to-live.
ExpireNever(o) ==
  /\ FALSE
  /\ entry' = [entry EXCEPT ![o] = "none"]
  /\ UNCHANGED <<row, callVars, readVars, processVars, faults, historyVars>>

\* The time-to-live of a key ends, if it has one.
Expire(o) ==
  /\ TTL > 0
  /\ entry[o] # "none"
  /\ entry' = [entry EXCEPT ![o] = "none"]
  /\ UNCHANGED <<row, callVars, readVars, processVars, faults, historyVars>>

\* The process starts; when Redis does not answer it runs without the cache.
\* Its servers take requests, in goroutines, before main listens for signals.
Start ==
  /\ mode = "down"
  /\ mode' = "starting"
  /\ caching' \in BOOLEAN
  /\ UNCHANGED <<row, entry, callVars, readVars, faults, historyVars>>

\* signal.Notify, after the ping of the rate limiter.
Notify ==
  /\ mode = "starting"
  /\ mode' = "up"
  /\ UNCHANGED <<row, entry, caching, callVars, readVars, faults, historyVars>>

\* SIGINT or SIGTERM: GracefulStop begins.
Sigterm ==
  /\ mode = "up"
  /\ mode' = "draining"
  /\ UNCHANGED <<row, entry, caching, callVars, readVars, faults, historyVars>>

\* Every request and goroutine ends with the process, wherever it is.
ProcessEnds ==
  /\ mode' = "down"
  /\ caching' = FALSE
  /\ call' = [o \in Orders |-> IF InFlight(o) THEN "lost" ELSE call[o]]
  /\ target' = [r \in Readers |-> NoOrder]
  /\ seen' = [r \in Readers |-> "none"]
  /\ missed' = missed \cup {o \in Orders : InFlight(o)}

\* GracefulStop returns when the gRPC calls are over; then httpServer.Close
\* and the end of main, which wait for nobody.
Exit ==
  /\ mode = "draining"
  /\ \A o \in GrpcOrders : ~InFlight(o)
  /\ ProcessEnds
  /\ UNCHANGED <<row, entry, reply, cancelled, faults, lostUpdates, late>>

\* SIGINT or SIGTERM before signal.Notify ends the process there and then.
SigtermEarly ==
  /\ mode = "starting"
  /\ ProcessEnds
  /\ UNCHANGED <<row, entry, reply, cancelled, faults, lostUpdates, late>>

\* The process is killed at any point.
Crash ==
  /\ mode # "down"
  /\ Fault
  /\ ProcessEnds
  /\ UNCHANGED <<row, entry, reply, cancelled, lostUpdates, late>>

--------------------------------------------------------------------------

\* What CreateOrder does when it has the answer of the payment service.
FinishStep(o) ==
  \/ Update(o) \/ UpdateFails(o)
  \/ Invalidate(o) \/ InvalidateFails(o)

CreateStep(o) == PaymentSucceeds(o) \/ PaymentFails(o) \/ FinishStep(o)

ReadStep(r) == QueryFinds(r) \/ QueryEnds(r) \/ Fill(r) \/ FillFails(r)

Next ==
  \/ \E o \in Orders :
       \/ Insert(o) \/ InsertFails(o) \/ Cancel(o) \/ CreateStep(o) \/ Expire(o)
       \/ \E r \in Readers : Miss(r, o)
  \/ \E r \in Readers : ReadStep(r)
  \/ Start \/ Notify \/ Sigterm \/ SigtermEarly \/ Exit \/ Crash

Spec == Init /\ [][Next]_vars

\* Handlers and goroutines are scheduled and the calls they wait for return,
\* keys expire, main goes on to signal.Notify, and a process with nothing left
\* to wait for exits.  Nothing is assumed of clients, operators or faults.
Fairness ==
  /\ \A o \in Orders : WF_vars(CreateStep(o)) /\ WF_vars(Expire(o))
  /\ \A r \in Readers : WF_vars(ReadStep(r))
  /\ WF_vars(Notify) /\ WF_vars(Exit)

FairSpec == Spec /\ Fairness

--------------------------------------------------------------------------
(* What must hold. *)

Stale(o) == entry[o] \notin {"none", row[o]}

\* The cache never runs ahead of the database: a status it shows is one the
\* row has or had, and a final one is the row's own.
CacheNeverAhead ==
  \A o \in Orders :
    entry[o] # "none" =>
      /\ row[o] # "none"
      /\ entry[o] # "pending" => entry[o] = row[o]

\* When a CreateOrder call is over, a stale key has one of two causes: its
\* delete did not happen, or a fill begun before the update landed after it.
\* Updating before deleting rules out every other interleaving with readers.
StaleExplained ==
  \A o \in Orders :
    call[o] \in Ended /\ Stale(o) => o \in missed \cup late

\* What CreateOrder tells its caller is what the row says; the UPDATE whose
\* error it drops can leave the row pending, and nothing else.
ReplyMatchesRow ==
  \A o \in Orders :
    call[o] \in {"returned", "failed"} /\ reply[o] # "none" =>
      row[o] = FinalStatus(o) \/ (o \in lostUpdates /\ row[o] = "pending")

\* With a time-to-live every key is right from some point on, whatever was
\* lost or late: "cache invalidation failure is handled at the TTL boundary".
FreshInTheEnd ==
  TTL > 0 => \A o \in Orders : <>[](~Stale(o))

\* A CreateOrder call that inserted its row ends, and a process told to stop
\* does.
CallsEnd ==
  /\ \A o \in Orders : InFlight(o) ~> call[o] \in Ended
  /\ mode = "draining" ~> mode = "down"

\* README, cache invalidation: after UpdateOrderStatus "the handler
\* immediately calls cache.Delete(orderID). This prevents serving stale data
\* (e.g., showing "pending" status after a successful payment)".
NoPendingAfterPayment ==
  \A o \in Orders : call[o] = "returned" => entry[o] # "pending"
==========================================================================
