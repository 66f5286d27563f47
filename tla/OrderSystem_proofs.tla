---------------------- MODULE OrderSystem_proofs ----------------------
(***************************************************************************)
(* Proofs about OrderSystem, put together from those of its parts:         *)
(* OrderSystem does to the notification service only what                  *)
(* NotificationConsumer says, so that its theorems hold here; by its       *)
(* refinement of NotificationDelivery each step is one of OrderPipeline,   *)
(* so that the theorems of that module hold here too; and what one side    *)
(* promises goes on where the promise of the other ends.                   *)
(*                                                                         *)
(* NotifierLaws and PipelineLaws are the theorems of the two parts.  The   *)
(* prover takes their definitions for others than those of Notifier and    *)
(* Pipeline; two lemmas say that they are the same.                        *)
(***************************************************************************)
EXTENDS OrderSystem, TLAPS

NotifierLaws == INSTANCE NotificationConsumer_proofs WITH
  Events <- Orders, Malformed <- {}, mode <- notifierMode,
  connected <- notifierConnected, pc <- workerPc

PipelineLaws == INSTANCE OrderPipeline_proofs WITH
  status <- Notifier!Status, losses <- forgets

USE DEF salesVars, notifierVars

--------------------------------------------------------------------------
(* The notification service in the system. *)

\* The assumptions of NotificationConsumer are among those of OrderSystem.
LEMMA NotifierAssumed == NotifierLaws!ConsumerAssumption
  BY SystemAssumption DEF SystemAssumption, NotifierLaws!ConsumerAssumption,
     IsFiniteSet, NotifierLaws!IsFiniteSet

\* A step of the notification service is the step its theorems are about.
LEMMA SameNotifier ==
  [Notifier!Next]_(Notifier!vars) => [NotifierLaws!Next]_(NotifierLaws!vars)
<1> USE DEF Notifier!vars, Notifier!workerVars, Notifier!storeVars,
            NotifierLaws!vars, NotifierLaws!workerVars, NotifierLaws!storeVars
<1>1. ASSUME NEW e \in Orders,
             \/ Notifier!Publish(e) \/ Notifier!Deliver(e)
             \/ Notifier!KeyExpires(e)
      PROVE  \/ NotifierLaws!Publish(e) \/ NotifierLaws!Deliver(e)
             \/ NotifierLaws!KeyExpires(e)
  <2>1. Notifier!WithinPrefetch <=> NotifierLaws!WithinPrefetch
    BY DEF Notifier!WithinPrefetch, NotifierLaws!WithinPrefetch,
       Notifier!Unacked, NotifierLaws!Unacked,
       Notifier!Cardinality, NotifierLaws!Cardinality
  <2> QED
    BY <1>1, <2>1, Zenon
    DEF Notifier!Publish, NotifierLaws!Publish, Notifier!Deliver,
        NotifierLaws!Deliver, Notifier!KeyExpires, NotifierLaws!KeyExpires
<1>2. ASSUME NEW w \in Workers, Notifier!WorkerStep(w)
      PROVE  NotifierLaws!WorkerStep(w)
  BY <1>2, Zenon
  DEF Notifier!WorkerStep, NotifierLaws!WorkerStep, Notifier!Handle,
      NotifierLaws!Handle, Notifier!Receive, NotifierLaws!Receive,
      Notifier!RejectMalformed, NotifierLaws!RejectMalformed,
      Notifier!LookupFails, NotifierLaws!LookupFails, Notifier!SkipDuplicate,
      NotifierLaws!SkipDuplicate, Notifier!BeginSending,
      NotifierLaws!BeginSending, Notifier!SendSucceeds,
      NotifierLaws!SendSucceeds, Notifier!SendFails, NotifierLaws!SendFails,
      Notifier!GiveUp, NotifierLaws!GiveUp, Notifier!MarkRedis,
      NotifierLaws!MarkRedis, Notifier!MarkRedisFails,
      NotifierLaws!MarkRedisFails, Notifier!MarkPostgres,
      NotifierLaws!MarkPostgres, Notifier!Ack, NotifierLaws!Ack,
      Notifier!WorkerStops, NotifierLaws!WorkerStops, Notifier!Goto,
      NotifierLaws!Goto, Notifier!Return, NotifierLaws!Return, Notifier!Answer,
      NotifierLaws!Answer, Notifier!IsDuplicate, NotifierLaws!IsDuplicate
<1>3. ASSUME \/ Notifier!ConnectionLost \/ Notifier!Start \/ Notifier!Shutdown
             \/ Notifier!Exit \/ Notifier!Crash
      PROVE  \/ NotifierLaws!ConnectionLost \/ NotifierLaws!Start
             \/ NotifierLaws!Shutdown \/ NotifierLaws!Exit
             \/ NotifierLaws!Crash
  BY <1>3, Zenon
  DEF Notifier!ConnectionLost, NotifierLaws!ConnectionLost, Notifier!Start,
      NotifierLaws!Start, Notifier!Shutdown, NotifierLaws!Shutdown,
      Notifier!Exit, NotifierLaws!Exit, Notifier!Crash, NotifierLaws!Crash,
      Notifier!ProcessEnds, NotifierLaws!ProcessEnds, Notifier!Requeued,
      NotifierLaws!Requeued
<1> QED
  BY <1>1, <1>2, <1>3 DEF Notifier!Next, NotifierLaws!Next

\* No step of the system does to the notification service what it does not do.
LEMMA NotifierStepKept == [Next]_vars => [Notifier!Next]_(Notifier!vars)
<1> SUFFICES ASSUME [Next]_vars PROVE [Notifier!Next]_(Notifier!vars)
  OBVIOUS
<1>1. CASE UNCHANGED notifierVars
  BY <1>1 DEF Notifier!vars
<1>2. ASSUME NEW o \in Orders, Announce(o) PROVE Notifier!Next
  BY <1>2 DEF Announce, Notifier!Next
<1>3. CASE NotifierStep
  BY <1>3 DEF NotifierStep, Notifier!Next
<1> QED
  BY <1>1, <1>2, <1>3 DEF Next, SalesStep, SalesProcess, vars

\* In the system the notification service is the one NotificationConsumer
\* describes, and all that is proved of that holds.
THEOREM NotifierKept == Spec => Notifier!Spec
<1>1. Init => Notifier!Init
  BY DEF Init
<1> QED
  BY <1>1, NotifierStepKept, PTL DEF Spec, Notifier!Spec

LEMMA NotifierInvariant == Spec => []NotifierLaws!IInv
<1>1. Init => NotifierLaws!Init
  BY DEF Init, Notifier!Init, NotifierLaws!Init
<1>2. NotifierLaws!Spec => []NotifierLaws!IInv
  BY NotifierAssumed, NotifierLaws!Invariance
<1> QED
  BY <1>1, <1>2, SameNotifier, NotifierStepKept, PTL DEF Spec, NotifierLaws!Spec

--------------------------------------------------------------------------
(* The refinement of OrderPipeline. *)

\* Only the payment service publishes: a message that is not in the queue yet
\* is not in the hands of a worker who could put it there.
LEMMA NotifierPublishesNothing ==
  ASSUME NotifierLaws!IInv, NotifierStep, NEW o \in Orders,
         broker[o] = "unpublished"
  PROVE  broker'[o] = "unpublished"
<1> USE DEF NotifierLaws!IInv, NotifierLaws!TypeOK, NotifierLaws!QueueType,
            NotifierLaws!WorkerType, NotifierLaws!Custody,
            NotifierLaws!HeldInProcess, NotifierLaws!InProcess
<1>1. ASSUME NEW w \in Workers, NEW to, job[w] # NoEvent, Notifier!Answer(w, to)
      PROVE  broker'[o] = "unpublished"
  BY <1>1 DEF Notifier!Answer
<1>2. ASSUME NEW w \in Workers, Notifier!WorkerStep(w)
      PROVE  broker'[o] = "unpublished"
  BY <1>1, <1>2 DEF Notifier!WorkerStep, Notifier!Handle, Notifier!Receive,
      Notifier!RejectMalformed, Notifier!LookupFails, Notifier!SkipDuplicate,
      Notifier!BeginSending, Notifier!SendSucceeds, Notifier!SendFails,
      Notifier!GiveUp, Notifier!MarkRedis, Notifier!MarkRedisFails,
      Notifier!MarkPostgres, Notifier!Ack, Notifier!WorkerStops, Notifier!Goto,
      Notifier!Return, Notifier!Answer, Notifier!IsDuplicate
<1>3. CASE \/ \E e \in Orders : Notifier!Deliver(e) \/ Notifier!KeyExpires(e)
           \/ Notifier!ConnectionLost \/ Notifier!Start \/ Notifier!Shutdown
           \/ Notifier!Exit \/ Notifier!Crash
  BY <1>3
  DEF Notifier!Deliver, Notifier!KeyExpires, Notifier!ConnectionLost,
      Notifier!Start, Notifier!Shutdown, Notifier!Exit, Notifier!Crash,
      Notifier!ProcessEnds, Notifier!Requeued
<1> QED
  BY <1>2, <1>3 DEF NotifierStep

\* What OrderPipeline sees of the queue is what the theorems speak of.
LEMMA SameStatus ==
  /\ Notifier!Status = NotifierLaws!Status
  /\ Notifier!Status' = NotifierLaws!Status'
  BY DEF Notifier!Status, NotifierLaws!Status

\* A step of the notification service is one that OrderPipeline expects.
LEMMA NotifierStepMaps ==
  ASSUME NotifierLaws!IInv, NotifierStep
  PROVE  [Pipeline!Next]_(Pipeline!vars)
<1>1. [NotifierLaws!Delivery!Next]_(NotifierLaws!Delivery!vars)
  <2>1. [NotifierLaws!Next]_(NotifierLaws!vars)
    BY SameNotifier DEF NotifierStep, Notifier!Next
  <2> QED
    BY <2>1, NotifierAssumed, NotifierLaws!StepRefines
<1>2. UNCHANGED salesVars
  BY DEF NotifierStep
<1>3. ASSUME NEW o \in Orders, NotifierLaws!Delivery!Publish(o) PROVE FALSE
  BY <1>3, NotifierPublishesNothing DEF NotifierLaws!Delivery!Publish,
     NotifierLaws!Status, NotifierLaws!IInv, NotifierLaws!TypeOK,
     NotifierLaws!QueueType, NotifierLaws!BrokerState
<1>4. ASSUME NEW o \in Orders,
             \/ NotifierLaws!Delivery!Notify(o)
             \/ NotifierLaws!Delivery!Complete(o)
             \/ NotifierLaws!Delivery!Abandon(o)
      PROVE  Pipeline!DeliveryStep(o)
  BY <1>2, <1>4, SameStatus DEF Pipeline!DeliveryStep, Pipeline!orderVars,
     Pipeline!rpcVars, Pipeline!paymentVars,
     NotifierLaws!Delivery!Notify, Pipeline!Delivery!Notify,
     NotifierLaws!Delivery!Complete, Pipeline!Delivery!Complete,
     NotifierLaws!Delivery!Abandon, Pipeline!Delivery!Abandon
<1>5. NotifierLaws!Delivery!Lose => Pipeline!DeliveryForgets
  BY <1>2, SameStatus DEF Pipeline!DeliveryForgets, Pipeline!orderVars,
     Pipeline!rpcVars, Pipeline!paymentVars, NotifierLaws!Delivery!Lose,
     Pipeline!Delivery!Lose
<1>6. UNCHANGED NotifierLaws!Delivery!vars => UNCHANGED Pipeline!vars
  BY <1>2, SameStatus DEF NotifierLaws!Delivery!vars, Pipeline!vars,
     Pipeline!orderVars, Pipeline!rpcVars, Pipeline!paymentVars,
     Pipeline!deliveryVars
<1> QED
  BY <1>1, <1>3, <1>4, <1>5, <1>6 DEF NotifierLaws!Delivery!Next, Pipeline!Next

\* Every step of the system is one of OrderPipeline, or none that it sees.
LEMMA StepMaps ==
  NotifierLaws!IInv /\ [Next]_vars => [Pipeline!Next]_(Pipeline!vars)
<1> SUFFICES ASSUME NotifierLaws!IInv, [Next]_vars
             PROVE  [Pipeline!Next]_(Pipeline!vars)
  OBVIOUS
<1>1. ASSUME NEW o \in Orders, SalesStep(o) \/ Announce(o) PROVE Pipeline!Next
  BY <1>1 DEF SalesStep, Announce, Pipeline!Next
<1>2. CASE SalesProcess
  BY <1>2 DEF SalesProcess, Pipeline!Next
<1>3. CASE NotifierStep
  BY <1>3, NotifierStepMaps
<1>4. CASE UNCHANGED vars
  BY <1>4 DEF vars, Notifier!Status, Pipeline!vars, Pipeline!orderVars,
     Pipeline!rpcVars, Pipeline!paymentVars, Pipeline!deliveryVars
<1> QED
  BY <1>1, <1>2, <1>3, <1>4 DEF Next

\* The worker pool may take the place of NotificationDelivery in OrderPipeline.
THEOREM ImplementsPipeline == Spec => PipelineSpec
<1>1. Init => Pipeline!Init
  BY DEF Init
<1> QED
  BY <1>1, NotifierInvariant, StepMaps, PTL
  DEF Spec, PipelineSpec, Pipeline!Spec

--------------------------------------------------------------------------
(* What the services together promise, in the system. *)

\* The assumptions of OrderPipeline are among those of OrderSystem.
LEMMA PipelineAssumed == PipelineLaws!PipelineAssumption
  BY SystemAssumption DEF SystemAssumption, PipelineLaws!PipelineAssumption

\* OrderPipeline in the system is the one its theorems are about.
LEMMA SamePipelineInit == Pipeline!Init => PipelineLaws!Init
  BY Zenon
  DEF Pipeline!Init, PipelineLaws!Init, Pipeline!Order!Init,
      PipelineLaws!Order!Init, Pipeline!Payment!Init,
      PipelineLaws!Payment!Init, Pipeline!Delivery!Init,
      PipelineLaws!Delivery!Init, Pipeline!queued, PipelineLaws!queued

LEMMA SamePipeline ==
  [Pipeline!Next]_(Pipeline!vars) => [PipelineLaws!Next]_(PipelineLaws!vars)
<1> USE DEF Pipeline!orderVars, PipelineLaws!orderVars, Pipeline!rpcVars,
            PipelineLaws!rpcVars, Pipeline!paymentVars,
            PipelineLaws!paymentVars, Pipeline!deliveryVars,
            PipelineLaws!deliveryVars, Pipeline!queued, PipelineLaws!queued
<1>1. ASSUME NEW o \in Orders,
             \/ Pipeline!PlaceOrder(o) \/ Pipeline!CallEnds(o)
             \/ Pipeline!CallBreaks(o) \/ Pipeline!OrderInterrupted(o)
             \/ Pipeline!OrderFinishes(o)
      PROVE  \/ PipelineLaws!PlaceOrder(o) \/ PipelineLaws!CallEnds(o)
             \/ PipelineLaws!CallBreaks(o) \/ PipelineLaws!OrderInterrupted(o)
             \/ PipelineLaws!OrderFinishes(o)
  BY <1>1, Zenon
  DEF Pipeline!PlaceOrder, PipelineLaws!PlaceOrder, Pipeline!CallEnds,
      PipelineLaws!CallEnds, Pipeline!AnswerArrives,
      PipelineLaws!AnswerArrives, Pipeline!CallFails, PipelineLaws!CallFails,
      Pipeline!CallRefused, PipelineLaws!CallRefused, Pipeline!CallBreaks,
      PipelineLaws!CallBreaks, Pipeline!Cardinality, PipelineLaws!Cardinality,
      Pipeline!OrderInterrupted, PipelineLaws!OrderInterrupted,
      Pipeline!OrderFinishes, PipelineLaws!OrderFinishes,
      Pipeline!Order!InFlight, PipelineLaws!Order!InFlight,
      Pipeline!Order!Insert, PipelineLaws!Order!Insert,
      Pipeline!Order!InsertFails, PipelineLaws!Order!InsertFails,
      Pipeline!Order!Cancel, PipelineLaws!Order!Cancel,
      Pipeline!Order!HasContext, PipelineLaws!Order!HasContext,
      Pipeline!Order!Accepts, PipelineLaws!Order!Accepts,
      Pipeline!Order!PaymentSucceeds, PipelineLaws!Order!PaymentSucceeds,
      Pipeline!Order!PaymentFails, PipelineLaws!Order!PaymentFails,
      Pipeline!Order!FinishStep, PipelineLaws!Order!FinishStep,
      Pipeline!Order!Update, PipelineLaws!Order!Update,
      Pipeline!Order!UpdateFails, PipelineLaws!Order!UpdateFails,
      Pipeline!Order!Invalidate, PipelineLaws!Order!Invalidate,
      Pipeline!Order!InvalidateFails, PipelineLaws!Order!InvalidateFails,
      Pipeline!Order!FinalStatus, PipelineLaws!Order!FinalStatus,
      Pipeline!Order!Returned, PipelineLaws!Order!Returned,
      Pipeline!Order!Step, PipelineLaws!Order!Step, Pipeline!Order!Fault,
      PipelineLaws!Order!Fault, Pipeline!Order!vars, PipelineLaws!Order!vars,
      Pipeline!Order!callVars, PipelineLaws!Order!callVars,
      Pipeline!Order!readVars, PipelineLaws!Order!readVars,
      Pipeline!Order!processVars, PipelineLaws!Order!processVars,
      Pipeline!Order!historyVars, PipelineLaws!Order!historyVars
<1>2. ASSUME NEW o \in Orders,
             Pipeline!ReceiveRequest(o) \/ Pipeline!PaymentServes(o)
      PROVE  PipelineLaws!ReceiveRequest(o) \/ PipelineLaws!PaymentServes(o)
  BY <1>2, Zenon
  DEF Pipeline!ReceiveRequest, PipelineLaws!ReceiveRequest,
      Pipeline!PaymentServes, PipelineLaws!PaymentServes,
      Pipeline!Delivery!Publish, PipelineLaws!Delivery!Publish,
      Pipeline!Payment!Begin, PipelineLaws!Payment!Begin,
      Pipeline!Payment!BeginFails, PipelineLaws!Payment!BeginFails,
      Pipeline!Payment!RequestStep, PipelineLaws!Payment!RequestStep,
      Pipeline!Payment!InsertPayment, PipelineLaws!Payment!InsertPayment,
      Pipeline!Payment!InsertFails, PipelineLaws!Payment!InsertFails,
      Pipeline!Payment!Commit, PipelineLaws!Payment!Commit,
      Pipeline!Payment!CommitFails, PipelineLaws!Payment!CommitFails,
      Pipeline!Payment!Publish, PipelineLaws!Payment!Publish,
      Pipeline!Payment!PublishLost, PipelineLaws!Payment!PublishLost,
      Pipeline!Payment!PublishFails, PipelineLaws!Payment!PublishFails,
      Pipeline!Payment!Step, PipelineLaws!Payment!Step, Pipeline!Payment!Fault,
      PipelineLaws!Payment!Fault, Pipeline!Payment!brokerVars,
      PipelineLaws!Payment!brokerVars
<1>3. Pipeline!OrderProcess => PipelineLaws!OrderProcess
  BY Zenon
  DEF Pipeline!OrderProcess, PipelineLaws!OrderProcess, Pipeline!Order!Start,
      PipelineLaws!Order!Start, Pipeline!Order!Notify,
      PipelineLaws!Order!Notify, Pipeline!Order!Sigterm,
      PipelineLaws!Order!Sigterm, Pipeline!Order!SigtermEarly,
      PipelineLaws!Order!SigtermEarly, Pipeline!Order!Exit,
      PipelineLaws!Order!Exit, Pipeline!Order!Crash, PipelineLaws!Order!Crash,
      Pipeline!Order!ProcessEnds, PipelineLaws!Order!ProcessEnds,
      Pipeline!Order!InFlight, PipelineLaws!Order!InFlight,
      Pipeline!Order!Fault, PipelineLaws!Order!Fault, Pipeline!Order!callVars,
      PipelineLaws!Order!callVars, Pipeline!Order!readVars,
      PipelineLaws!Order!readVars, Pipeline!Order!processVars,
      PipelineLaws!Order!processVars, Pipeline!Order!historyVars,
      PipelineLaws!Order!historyVars
<1>4. Pipeline!PaymentProcess => PipelineLaws!PaymentProcess
  BY Zenon
  DEF Pipeline!PaymentProcess, PipelineLaws!PaymentProcess,
      Pipeline!Payment!ConnectionLost, PipelineLaws!Payment!ConnectionLost,
      Pipeline!Payment!Unbind, PipelineLaws!Payment!Unbind,
      Pipeline!Payment!Start, PipelineLaws!Payment!Start,
      Pipeline!Payment!Sigterm, PipelineLaws!Payment!Sigterm,
      Pipeline!Payment!Exit, PipelineLaws!Payment!Exit, Pipeline!Payment!Crash,
      PipelineLaws!Payment!Crash, Pipeline!Payment!ProcessEnds,
      PipelineLaws!Payment!ProcessEnds, Pipeline!Payment!InFlight,
      PipelineLaws!Payment!InFlight, Pipeline!Payment!Fault,
      PipelineLaws!Payment!Fault, Pipeline!Payment!brokerVars,
      PipelineLaws!Payment!brokerVars
<1>5. ASSUME NEW o \in Orders, Pipeline!DeliveryStep(o)
      PROVE  PipelineLaws!DeliveryStep(o)
  BY <1>5, Zenon
  DEF Pipeline!DeliveryStep, PipelineLaws!DeliveryStep,
      Pipeline!DeliveryForgets, PipelineLaws!DeliveryForgets,
      Pipeline!Delivery!Publish, PipelineLaws!Delivery!Publish,
      Pipeline!Delivery!Notify, PipelineLaws!Delivery!Notify,
      Pipeline!Delivery!Complete, PipelineLaws!Delivery!Complete,
      Pipeline!Delivery!Abandon, PipelineLaws!Delivery!Abandon,
      Pipeline!Delivery!Lose, PipelineLaws!Delivery!Lose
<1>6. Pipeline!DeliveryForgets => PipelineLaws!DeliveryForgets
  BY Zenon
  DEF Pipeline!DeliveryStep, PipelineLaws!DeliveryStep,
      Pipeline!DeliveryForgets, PipelineLaws!DeliveryForgets,
      Pipeline!Delivery!Publish, PipelineLaws!Delivery!Publish,
      Pipeline!Delivery!Notify, PipelineLaws!Delivery!Notify,
      Pipeline!Delivery!Complete, PipelineLaws!Delivery!Complete,
      Pipeline!Delivery!Abandon, PipelineLaws!Delivery!Abandon,
      Pipeline!Delivery!Lose, PipelineLaws!Delivery!Lose
<1> QED
  BY <1>1, <1>2, <1>3, <1>4, <1>5, <1>6
  DEF Pipeline!Next, PipelineLaws!Next, Pipeline!vars, PipelineLaws!vars

\* What is proved of OrderPipeline holds in the system.
LEMMA PipelineLawful == Spec => PipelineLaws!Spec
<1>1. PipelineSpec => PipelineLaws!Spec
  BY SamePipelineInit, SamePipeline, PTL
  DEF PipelineSpec, Pipeline!Spec, PipelineLaws!Spec
<1> QED
  BY <1>1, ImplementsPipeline, PTL

\* Every variable keeps its type.
THEOREM TypeCorrect == Spec => []TypeOK
<1>1. Spec => []PipelineLaws!TypeOK
  BY PipelineLawful, PipelineAssumed, PipelineLaws!TypeCorrect, PTL
<1>2. NotifierLaws!IInv => Notifier!TypeOK
  BY Zenon
  DEF NotifierLaws!IInv,
      Notifier!TypeOK, NotifierLaws!TypeOK, Notifier!QueueType,
      NotifierLaws!QueueType, Notifier!WorkerType, NotifierLaws!WorkerType,
      Notifier!RecordType, NotifierLaws!RecordType, Notifier!BrokerState,
      NotifierLaws!BrokerState, Notifier!WorkerState, NotifierLaws!WorkerState
<1>3. PipelineLaws!TypeOK => Pipeline!TypeOK
  BY Zenon
  DEF Pipeline!TypeOK, PipelineLaws!TypeOK, Pipeline!RpcType,
      PipelineLaws!RpcType, Pipeline!DeliveryType, PipelineLaws!DeliveryType,
      Pipeline!Order!StoreType, PipelineLaws!Order!StoreType,
      Pipeline!Order!CallType, PipelineLaws!Order!CallType,
      Pipeline!Order!ProcessType, PipelineLaws!Order!ProcessType,
      Pipeline!Order!Status, PipelineLaws!Order!Status,
      Pipeline!Order!CallState, PipelineLaws!Order!CallState,
      Pipeline!Order!Ended, PipelineLaws!Order!Ended, Pipeline!Payment!TypeOK,
      PipelineLaws!Payment!TypeOK, Pipeline!Payment!RequestType,
      PipelineLaws!Payment!RequestType, Pipeline!Payment!BrokerType,
      PipelineLaws!Payment!BrokerType, Pipeline!Payment!ProcessType,
      PipelineLaws!Payment!ProcessType, Pipeline!Payment!RequestState,
      PipelineLaws!Payment!RequestState, Pipeline!queued, PipelineLaws!queued
<1> QED
  BY <1>1, <1>2, <1>3, NotifierInvariant, PTL DEF TypeOK

\* An event that was published is followed: who takes it from the queue does
\* not lose it, and does not send it more often than it forgets.
LEMMA PublishedIsFollowed ==
  ASSUME NotifierLaws!IInv, NEW o \in Orders
  PROVE  broker[o] = "unpublished" \/ Followed(o)
<1> USE DEF NotifierLaws!IInv, NotifierLaws!TypeOK, NotifierLaws!QueueType,
            NotifierLaws!RecordType, NotifierLaws!BrokerState
<1>1. broker[o] \in {"unpublished", "ready", "unacked", "acked", "dead"}
  OBVIOUS
<1>2. broker[o] = "acked" => emails[o] \in 1 .. 1 + forgets
  BY DEF NotifierLaws!Records, NotifierLaws!AckedMeansNotified,
     NotifierLaws!DuplicatesAccounted
<1>3. broker[o] = "dead" => emails[o] <= forgets
  BY DEF NotifierLaws!Records, NotifierLaws!DeadLettersUnsent
<1> QED
  BY <1>1, <1>2, <1>3 DEF Followed

\* What OrderPipeline sees in the queue was published to the broker.
LEMMA QueuedIsPublished ==
  ASSUME NEW o \in Orders, o \in PipelineLaws!queued
  PROVE  broker[o] # "unpublished"
  BY DEF PipelineLaws!queued, Notifier!Status

\* From the row of a completed order to the inbox of its customer.  That its
\* event is in the queue, OrderPipeline knows; what becomes of it there,
\* NotificationConsumer.
THEOREM CompletedIsNotified == Spec => []CompletedReachesCustomer
<1>1. Spec => []PipelineLaws!CompletedMeansQueued
  BY PipelineLawful, PipelineAssumed, PipelineLaws!CompletedIsQueued, PTL
<1>2. NotifierLaws!IInv /\ PipelineLaws!CompletedMeansQueued
        => CompletedReachesCustomer
  <2> SUFFICES ASSUME NotifierLaws!IInv, PipelineLaws!CompletedMeansQueued,
                      NEW o \in Orders, row[o] = "completed"
               PROVE  Followed(o) \/ (Unheard(o) /\ pc[o] = "replied")
    BY DEF CompletedReachesCustomer
  <2>1. o \in PipelineLaws!queued \/ (paymentFaults > 0 /\ pc[o] = "replied")
    BY DEF PipelineLaws!CompletedMeansQueued
  <2> QED
    BY <2>1, PublishedIsFollowed, QueuedIsPublished DEF Unheard
<1> QED
  BY <1>1, <1>2, NotifierInvariant, PTL

\* From a charge to the inbox of the customer, whatever becomes of the caller.
THEOREM ChargeIsNotified == Spec => []ChargeReachesCustomer
<1>1. Spec => [](PipelineLaws!ChargedMeansQueued /\ PipelineLaws!TypeOK)
  BY PipelineLawful, PipelineAssumed, PipelineLaws!ChargedIsQueued,
     PipelineLaws!TypeCorrect, PTL
<1>2. NotifierLaws!IInv /\ PipelineLaws!ChargedMeansQueued /\ PipelineLaws!TypeOK
        => ChargeReachesCustomer
  <2> SUFFICES ASSUME NotifierLaws!IInv, PipelineLaws!ChargedMeansQueued,
                      PipelineLaws!TypeOK, NEW o \in payments
               PROVE  pc[o] = "publishing" \/ Followed(o) \/ Unheard(o)
    BY DEF ChargeReachesCustomer
  <2>1. o \in Orders
    BY DEF PipelineLaws!TypeOK, PipelineLaws!Payment!TypeOK,
       PipelineLaws!Payment!RequestType
  <2>2. paymentFaults = 0 \/ paymentFaults > 0
    BY SystemAssumption DEF SystemAssumption, PipelineLaws!TypeOK,
       PipelineLaws!Payment!TypeOK, PipelineLaws!Payment!ProcessType
  <2>3. paymentFaults = 0 => o \in PipelineLaws!queued \/ pc[o] = "publishing"
    BY DEF PipelineLaws!ChargedMeansQueued
  <2> QED
    BY <2>1, <2>2, <2>3, PublishedIsFollowed, QueuedIsPublished DEF Unheard
<1> QED
  BY <1>1, <1>2, NotifierInvariant, PTL

\* In the whole system a charge without a completed order has one of the causes
\* that OrderPipeline lists.
THEOREM ChargeHasCause == Spec => []Pipeline!ChargedOrderExplained
<1>1. Spec => []PipelineLaws!ChargedOrderExplained
  BY PipelineLawful, PipelineAssumed, PipelineLaws!ChargeHasCause, PTL
<1>2. PipelineLaws!ChargedOrderExplained => Pipeline!ChargedOrderExplained
  BY DEF PipelineLaws!ChargedOrderExplained, Pipeline!ChargedOrderExplained,
     PipelineLaws!Order!Ended, Pipeline!Order!Ended
<1> QED
  BY <1>1, <1>2, PTL

\* The whole system implements Purchase.
THEOREM ImplementsPurchase == Spec => Pipeline!PurchaseSpec
<1>1. Spec => PipelineLaws!PurchaseSpec
  BY PipelineLawful, PipelineAssumed, PipelineLaws!ImplementsPurchase, PTL
<1>2. PipelineLaws!Sale!Init => Pipeline!Sale!Init
  BY Zenon DEF PipelineLaws!Sale!Init, Pipeline!Sale!Init
<1>3. [PipelineLaws!Sale!Next]_(PipelineLaws!Sale!vars)
        => [Pipeline!Sale!Next]_(Pipeline!Sale!vars)
  BY Zenon
  DEF Pipeline!Sale!Next, PipelineLaws!Sale!Next, Pipeline!Sale!Place,
      PipelineLaws!Sale!Place, Pipeline!Sale!Charge, PipelineLaws!Sale!Charge,
      Pipeline!Sale!Complete, PipelineLaws!Sale!Complete, Pipeline!Sale!Refuse,
      PipelineLaws!Sale!Refuse, Pipeline!Sale!Notify, PipelineLaws!Sale!Notify,
      Pipeline!Sale!vars, PipelineLaws!Sale!vars
<1> QED
  BY <1>1, <1>2, <1>3, PTL
  DEF PipelineLaws!PurchaseSpec, Pipeline!PurchaseSpec, PipelineLaws!Sale!Spec,
      Pipeline!Sale!Spec
=======================================================================
