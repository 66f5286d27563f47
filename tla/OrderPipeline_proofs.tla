---------------------- MODULE OrderPipeline_proofs ----------------------
(***************************************************************************)
(* Proofs about OrderPipeline, for any number of orders, faults and broken *)
(* calls: what TLC checks on one order holds however many are under way.   *)
(*                                                                         *)
(* The argument follows the answer back along the call.  Ledger says what  *)
(* the order service knows when, Journey what its request has become,      *)
(* Charges what the payment service has committed, and Announced that what *)
(* was committed without a fault is in the queue.                          *)
(*                                                                         *)
(* The last part shows that the composition keeps each of its components,  *)
(* so that what is proved of a component alone holds here as well.         *)
(***************************************************************************)
EXTENDS OrderPipeline, TLAPS

\* The row and the reply at each point of CreateOrder.
Ledger ==
  \A o \in Orders :
    /\ call[o] = "new" => row[o] = "none" /\ reply[o] = "none"
    /\ call[o] = "paying" => row[o] = "pending" /\ reply[o] = "none"
    /\ call[o] = "updating" => row[o] = "pending" /\ reply[o] # "none"
    /\ call[o] = "invalidating" =>
         reply[o] # "none" /\ (row[o] = Order!FinalStatus(o) \/ o \in lostUpdates)
    /\ call[o] = "returned" =>
         reply[o] = "completed" /\ (row[o] = "completed" \/ o \in lostUpdates)
    /\ call[o] = "failed" => reply[o] # "completed"
    /\ row[o] = "completed" => reply[o] = "completed"

\* A request exists only for an order that is in the table; a reply was given
\* by a request that ended so, and an error has its cause.
Journey ==
  \A o \in Orders :
    /\ call[o] = "new" => pc[o] = "new" /\ o \notin wire
    /\ call[o] = "failed" /\ reply[o] = "none" => pc[o] = "new" /\ o \notin wire
    /\ pc[o] # "new" \/ o \in wire => row[o] # "none"
    /\ reply[o] = "completed" => pc[o] = "replied"
    /\ reply[o] = "error" =>
         \/ o \in cancelled \cup broken
         \/ pc[o] \in {"failed", "lost"}
         \/ pc[o] = "new" /\ o \notin wire

\* Who is charged, and who has been told.
Charges ==
  \A o \in Orders :
    /\ pc[o] \in {"publishing", "replied"} => o \in payments
    /\ o \in payments => pc[o] \in {"publishing", "replied", "failed", "lost"}
    /\ o \in payments /\ pc[o] \in {"failed", "lost"} => paymentFaults > 0
    /\ status[o] # "unpublished" => o \in payments
    /\ emails[o] > 0 => status[o] # "unpublished"

\* Until the payment service has a fault its topology is there when it runs,
\* so that no request ends with a payment whose event is not in the queue.
Announced ==
  /\ paymentMode = "down" => \A o \in Orders : ~Payment!InFlight(o)
  /\ paymentFaults = 0 =>
       /\ paymentMode # "down" => connected /\ bound
       /\ \A o \in payments : o \in queued \/ pc[o] = "publishing"

\* The inductive invariant.
IInv == TypeOK /\ Ledger /\ Journey /\ Charges /\ Announced

\* TypeOK, for the proof: the order service, and what is between the services.
OrderTypeOK == Order!StoreType /\ Order!CallType /\ Order!ProcessType
RestTypeOK  == RpcType /\ DeliveryType

USE DEF orderVars, rpcVars, paymentVars, deliveryVars,
        Order!callVars, Order!readVars, Order!processVars, Order!historyVars,
        Payment!brokerVars, Order!Step, Payment!Step

--------------------------------------------------------------------------
(* The steps keep the invariant. *)

\* What CreateOrder knows and what the row says go together.
LEMMA LedgerStep == TypeOK /\ Ledger /\ [Next]_vars => Ledger'
<1> SUFFICES ASSUME TypeOK, Ledger, [Next]_vars PROVE Ledger'
  OBVIOUS
<1> USE DEF Ledger, TypeOK, Order!StoreType, Order!CallType,
     Order!FinalStatus, Order!Status, Order!CallState, Order!Ended
<1>1. CASE UNCHANGED orderVars
  BY <1>1
<1>2. ASSUME NEW o \in Orders, PlaceOrder(o) PROVE Ledger'
  BY <1>2 DEF PlaceOrder, Order!Insert
<1>3. ASSUME NEW o \in Orders, AnswerArrives(o) PROVE Ledger'
  BY <1>3 DEF AnswerArrives, Order!PaymentSucceeds
<1>4. ASSUME NEW o \in Orders, CallFails(o) PROVE Ledger'
  BY <1>4 DEF CallFails, Order!PaymentFails
<1>5. ASSUME NEW o \in Orders, CallRefused(o) PROVE Ledger'
  BY <1>5 DEF CallRefused, Order!PaymentFails
<1>6. ASSUME NEW o \in Orders, CallBreaks(o) PROVE Ledger'
  BY <1>6 DEF CallBreaks, Order!PaymentFails
<1>7. ASSUME NEW o \in Orders, OrderInterrupted(o) PROVE Ledger'
  BY <1>7 DEF OrderInterrupted, Order!InsertFails, Order!Cancel,
       Order!HasContext
<1>8. ASSUME NEW o \in Orders, OrderFinishes(o) PROVE Ledger'
  BY <1>8 DEF OrderFinishes, Order!FinishStep, Order!Update,
       Order!UpdateFails, Order!Invalidate, Order!InvalidateFails,
       Order!FinalStatus, Order!Returned
<1>9. CASE OrderProcess
  BY <1>9 DEF OrderProcess, Order!Start, Order!Notify, Order!Sigterm,
       Order!SigtermEarly, Order!Exit, Order!Crash, Order!ProcessEnds,
       Order!InFlight
<1> QED
  BY <1>1, <1>2, <1>3, <1>4, <1>5, <1>6, <1>7, <1>8, <1>9 DEF Next, CallEnds,
       ReceiveRequest, PaymentServes, DeliveryStep, DeliveryForgets,
       PaymentProcess, vars

\* A request, its row and its answer go together.
LEMMA JourneyStep == IInv /\ [Next]_vars => Journey'
<1> SUFFICES ASSUME IInv, [Next]_vars PROVE Journey'
  OBVIOUS
<1> USE DEF IInv, Journey, Ledger, Charges, Announced, TypeOK,
     Order!StoreType, Order!CallType, Order!ProcessType, Order!Status,
     Order!CallState, Order!Ended, Payment!TypeOK, Payment!RequestType,
     Payment!BrokerType, Payment!ProcessType, Payment!RequestState, RpcType,
     DeliveryType
<1>1. CASE UNCHANGED <<orderVars, rpcVars, paymentVars>>
  BY <1>1
<1>2. ASSUME NEW o \in Orders, PlaceOrder(o) PROVE Journey'
  BY <1>2 DEF PlaceOrder, Order!Insert
<1>3. ASSUME NEW o \in Orders, ReceiveRequest(o) PROVE Journey'
  BY <1>3 DEF ReceiveRequest, Payment!Begin, Payment!BeginFails
<1>4. ASSUME NEW o \in Orders, AnswerArrives(o) PROVE Journey'
  BY <1>4 DEF AnswerArrives, Order!PaymentSucceeds
<1>5. ASSUME NEW o \in Orders, CallFails(o) PROVE Journey'
  BY <1>5 DEF CallFails, Order!PaymentFails
<1>6. ASSUME NEW o \in Orders, CallRefused(o) PROVE Journey'
  BY <1>6 DEF CallRefused, Order!PaymentFails
<1>7. ASSUME NEW o \in Orders, CallBreaks(o) PROVE Journey'
  BY <1>7 DEF CallBreaks, Order!PaymentFails
<1>8. ASSUME NEW o \in Orders, OrderInterrupted(o) PROVE Journey'
  BY <1>8 DEF OrderInterrupted, Order!InsertFails, Order!Cancel,
       Order!HasContext
<1>9. ASSUME NEW o \in Orders, OrderFinishes(o) PROVE Journey'
  BY <1>9 DEF OrderFinishes, Order!FinishStep, Order!Update,
       Order!UpdateFails, Order!Invalidate, Order!InvalidateFails,
       Order!FinalStatus, Order!Returned
<1>10. ASSUME NEW o \in Orders, PaymentServes(o) PROVE Journey'
  BY <1>10 DEF PaymentServes, Payment!RequestStep, Payment!InsertPayment,
       Payment!InsertFails, Payment!Commit, Payment!CommitFails,
       Payment!Publish, Payment!PublishLost, Payment!PublishFails,
       Delivery!Publish, queued
<1>11. CASE OrderProcess
  BY <1>11 DEF OrderProcess, Order!Start, Order!Notify, Order!Sigterm,
       Order!SigtermEarly, Order!Exit, Order!Crash, Order!ProcessEnds,
       Order!InFlight
<1>12. CASE PaymentProcess
  BY <1>12 DEF PaymentProcess, Payment!ConnectionLost, Payment!Unbind,
       Payment!Start, Payment!Sigterm, Payment!Exit, Payment!Crash,
       Payment!ProcessEnds, Payment!InFlight
<1> QED
  BY <1>1, <1>2, <1>3, <1>4, <1>5, <1>6, <1>7, <1>8, <1>9, <1>10, <1>11,
       <1>12 DEF Next, CallEnds, DeliveryStep, DeliveryForgets, vars

\* Charges and notifications keep their cause.
LEMMA ChargesStep == IInv /\ [Next]_vars => Charges'
<1> SUFFICES ASSUME IInv, [Next]_vars PROVE Charges'
  OBVIOUS
<1> USE DEF IInv, Charges, Payment!Fault, TypeOK, Order!StoreType,
     Order!CallType, Order!ProcessType, Order!Status, Order!CallState,
     Order!Ended, Payment!TypeOK, Payment!RequestType, Payment!BrokerType,
     Payment!ProcessType, Payment!RequestState, RpcType, DeliveryType
<1>1. CASE UNCHANGED <<paymentVars, deliveryVars>>
  BY <1>1
<1>2. ASSUME NEW o \in Orders, ReceiveRequest(o) PROVE Charges'
  BY <1>2 DEF ReceiveRequest, Payment!Begin, Payment!BeginFails
<1>3. ASSUME NEW o \in Orders, PaymentServes(o) PROVE Charges'
  BY <1>3 DEF PaymentServes, Payment!RequestStep, Payment!InsertPayment,
       Payment!InsertFails, Payment!Commit, Payment!CommitFails,
       Payment!Publish, Payment!PublishLost, Payment!PublishFails,
       Delivery!Publish, queued
<1>4. ASSUME NEW o \in Orders, DeliveryStep(o) PROVE Charges'
  BY <1>4 DEF DeliveryStep, Delivery!Notify, Delivery!Complete,
       Delivery!Abandon
<1>5. CASE DeliveryForgets
  BY <1>5 DEF DeliveryForgets, Delivery!Lose
<1>6. CASE PaymentProcess
  BY <1>6 DEF PaymentProcess, Payment!ConnectionLost, Payment!Unbind,
       Payment!Start, Payment!Sigterm, Payment!Exit, Payment!Crash,
       Payment!ProcessEnds, Payment!InFlight
<1> QED
  BY <1>1, <1>2, <1>3, <1>4, <1>5, <1>6 DEF Next, CallEnds, PlaceOrder,
       AnswerArrives, CallFails, CallRefused, CallBreaks, OrderInterrupted,
       OrderFinishes, OrderProcess, vars

\* Without a fault what is charged is announced or about to be.
LEMMA AnnouncedStep == IInv /\ [Next]_vars => Announced'
<1> SUFFICES ASSUME IInv, [Next]_vars PROVE Announced'
  OBVIOUS
<1> USE DEF IInv, Announced, Payment!Fault, Payment!InFlight, queued, TypeOK,
     Order!StoreType, Order!CallType, Order!ProcessType, Order!Status,
     Order!CallState, Order!Ended, Payment!TypeOK, Payment!RequestType,
     Payment!BrokerType, Payment!ProcessType, Payment!RequestState, RpcType,
     DeliveryType
<1>1. CASE UNCHANGED <<paymentVars, deliveryVars>>
  BY <1>1
<1>2. ASSUME NEW o \in Orders, ReceiveRequest(o) PROVE Announced'
  BY <1>2 DEF ReceiveRequest, Payment!Begin, Payment!BeginFails
<1>3. ASSUME NEW o \in Orders, PaymentServes(o) PROVE Announced'
  BY <1>3 DEF PaymentServes, Payment!RequestStep, Payment!InsertPayment,
       Payment!InsertFails, Payment!Commit, Payment!CommitFails,
       Payment!Publish, Payment!PublishLost, Payment!PublishFails,
       Delivery!Publish, queued
<1>4. ASSUME NEW o \in Orders, DeliveryStep(o) PROVE Announced'
  BY <1>4 DEF DeliveryStep, Delivery!Notify, Delivery!Complete,
       Delivery!Abandon
<1>5. CASE DeliveryForgets
  BY <1>5 DEF DeliveryForgets, Delivery!Lose
<1>6. CASE PaymentProcess
  BY <1>6 DEF PaymentProcess, Payment!ConnectionLost, Payment!Unbind,
       Payment!Start, Payment!Sigterm, Payment!Exit, Payment!Crash,
       Payment!ProcessEnds, Payment!InFlight
<1> QED
  BY <1>1, <1>2, <1>3, <1>4, <1>5, <1>6 DEF Next, CallEnds, PlaceOrder,
       AnswerArrives, CallFails, CallRefused, CallBreaks, OrderInterrupted,
       OrderFinishes, OrderProcess, vars

\* The variables of the order service keep their types.
LEMMA OrderTypeStep == TypeOK /\ [Next]_vars => OrderTypeOK'
<1> SUFFICES ASSUME TypeOK, [Next]_vars PROVE OrderTypeOK'
  OBVIOUS
<1> USE PipelineAssumption DEF TypeOK, OrderTypeOK, Order!StoreType,
     Order!CallType, Order!ProcessType, Order!Status, Order!CallState,
     Order!Ended, Order!Fault, Order!FinalStatus, Order!Returned,
     PipelineAssumption
<1>1. CASE UNCHANGED orderVars
  BY <1>1
<1>2. ASSUME NEW o \in Orders, PlaceOrder(o) PROVE OrderTypeOK'
  BY <1>2 DEF PlaceOrder, Order!Insert
<1>3. ASSUME NEW o \in Orders, AnswerArrives(o) PROVE OrderTypeOK'
  BY <1>3 DEF AnswerArrives, Order!PaymentSucceeds
<1>4. ASSUME NEW o \in Orders, CallFails(o) PROVE OrderTypeOK'
  BY <1>4 DEF CallFails, Order!PaymentFails
<1>5. ASSUME NEW o \in Orders, CallRefused(o) PROVE OrderTypeOK'
  BY <1>5 DEF CallRefused, Order!PaymentFails
<1>6. ASSUME NEW o \in Orders, CallBreaks(o) PROVE OrderTypeOK'
  BY <1>6 DEF CallBreaks, Order!PaymentFails
<1>7. ASSUME NEW o \in Orders, OrderInterrupted(o) PROVE OrderTypeOK'
  BY <1>7 DEF OrderInterrupted, Order!InsertFails, Order!Cancel,
       Order!HasContext
<1>8. ASSUME NEW o \in Orders, OrderFinishes(o) PROVE OrderTypeOK'
  BY <1>8 DEF OrderFinishes, Order!FinishStep, Order!Update,
       Order!UpdateFails, Order!Invalidate, Order!InvalidateFails,
       Order!FinalStatus, Order!Returned
<1>9. CASE OrderProcess
  BY <1>9 DEF OrderProcess, Order!Start, Order!Notify, Order!Sigterm,
       Order!SigtermEarly, Order!Exit, Order!Crash, Order!ProcessEnds,
       Order!InFlight
<1> QED
  BY <1>1, <1>2, <1>3, <1>4, <1>5, <1>6, <1>7, <1>8, <1>9 DEF Next, CallEnds,
       ReceiveRequest, PaymentServes, DeliveryStep, DeliveryForgets,
       PaymentProcess, vars

\* So do those of the payment service.
LEMMA PaymentTypeStep == TypeOK /\ [Next]_vars => Payment!TypeOK'
<1> SUFFICES ASSUME TypeOK, [Next]_vars PROVE Payment!TypeOK'
  OBVIOUS
<1> USE PipelineAssumption DEF TypeOK, Payment!TypeOK, Payment!RequestType,
     Payment!BrokerType, Payment!ProcessType, Payment!RequestState,
     Payment!Fault, Payment!InFlight, DeliveryType, queued,
     PipelineAssumption
<1>1. CASE UNCHANGED <<paymentVars, deliveryVars>>
  BY <1>1
<1>2. ASSUME NEW o \in Orders, ReceiveRequest(o) PROVE Payment!TypeOK'
  BY <1>2 DEF ReceiveRequest, Payment!Begin, Payment!BeginFails
<1>3. ASSUME NEW o \in Orders, PaymentServes(o) PROVE Payment!TypeOK'
  <2>1. CASE Payment!InsertPayment(o) \/ Payment!InsertFails(o)
    BY <1>3, <2>1 DEF PaymentServes, Payment!InsertPayment, Payment!InsertFails,
         Delivery!Publish, queued
  <2>2. CASE Payment!Commit(o) \/ Payment!CommitFails(o)
    BY <1>3, <2>2 DEF PaymentServes, Payment!Commit, Payment!CommitFails
  <2>3. CASE Payment!Publish(o) \/ Payment!PublishFails(o)
    BY <1>3, <2>3 DEF PaymentServes, Payment!Publish, Payment!PublishFails
  <2>4. CASE Payment!PublishLost(o)
    <3>1. Payment!RequestType'
      BY <1>3, <2>4 DEF PaymentServes, Payment!PublishLost
    <3>2. Payment!BrokerType'
      BY <1>3, <2>4 DEF PaymentServes, Payment!PublishLost
    <3>3. Payment!ProcessType'
      BY <1>3, <2>4 DEF PaymentServes, Payment!PublishLost
    <3> QED
      BY <3>1, <3>2, <3>3
  <2> QED
    BY <1>3, <2>1, <2>2, <2>3, <2>4 DEF PaymentServes, Payment!RequestStep
<1>4. ASSUME NEW o \in Orders, DeliveryStep(o) PROVE Payment!TypeOK'
  BY <1>4 DEF DeliveryStep, Delivery!Notify, Delivery!Complete,
       Delivery!Abandon
<1>5. CASE DeliveryForgets
  BY <1>5 DEF DeliveryForgets, Delivery!Lose
<1>6. CASE PaymentProcess
  <2>1. CASE Payment!ConnectionLost \/ Payment!Unbind
    <3>1. Payment!RequestType'
      BY <1>6, <2>1 DEF PaymentProcess, Payment!ConnectionLost, Payment!Unbind
    <3>2. Payment!BrokerType'
      BY <1>6, <2>1 DEF PaymentProcess, Payment!ConnectionLost, Payment!Unbind
    <3>3. Payment!ProcessType'
      BY <1>6, <2>1 DEF PaymentProcess, Payment!ConnectionLost, Payment!Unbind
    <3> QED
      BY <3>1, <3>2, <3>3
  <2>2. CASE Payment!Start \/ Payment!Sigterm
    BY <1>6, <2>2 DEF PaymentProcess, Payment!Start, Payment!Sigterm
  <2>3. CASE Payment!Exit \/ Payment!Crash
    <3>1. Payment!RequestType'
      BY <1>6, <2>3 DEF PaymentProcess, Payment!Exit, Payment!Crash,
             Payment!ProcessEnds
    <3>2. Payment!BrokerType'
      BY <1>6, <2>3 DEF PaymentProcess, Payment!Exit, Payment!Crash,
             Payment!ProcessEnds
    <3>3. Payment!ProcessType'
      BY <1>6, <2>3 DEF PaymentProcess, Payment!Exit, Payment!Crash,
             Payment!ProcessEnds
    <3> QED
      BY <3>1, <3>2, <3>3
  <2> QED
    BY <1>6, <2>1, <2>2, <2>3 DEF PaymentProcess
<1> QED
  BY <1>1, <1>2, <1>3, <1>4, <1>5, <1>6 DEF Next, CallEnds, PlaceOrder,
       AnswerArrives, CallFails, CallRefused, CallBreaks, OrderInterrupted,
       OrderFinishes, OrderProcess, vars

\* So do those of the calls and of the notification service.
LEMMA RestTypeStep == TypeOK /\ Journey /\ [Next]_vars => RestTypeOK'
<1> SUFFICES ASSUME TypeOK, Journey, [Next]_vars PROVE RestTypeOK'
  OBVIOUS
<1> USE PipelineAssumption DEF TypeOK, RestTypeOK, Journey,
     PipelineAssumption, RpcType, DeliveryType, Payment!TypeOK,
     Payment!RequestType, Payment!RequestState, Order!CallType
<1>1. CASE UNCHANGED <<rpcVars, paymentVars, deliveryVars>>
  BY <1>1
<1>2. ASSUME NEW o \in Orders, PlaceOrder(o) PROVE RestTypeOK'
  BY <1>2 DEF PlaceOrder, Order!Insert
<1>3. ASSUME NEW o \in Orders, ReceiveRequest(o) PROVE RestTypeOK'
  BY <1>3 DEF ReceiveRequest, Payment!Begin, Payment!BeginFails
<1>4. ASSUME NEW o \in Orders, CallRefused(o) PROVE RestTypeOK'
  BY <1>4 DEF CallRefused, Order!PaymentFails
<1>5. ASSUME NEW o \in Orders, CallBreaks(o) PROVE RestTypeOK'
  BY <1>5 DEF CallBreaks, Order!PaymentFails
<1>6. ASSUME NEW o \in Orders, PaymentServes(o) PROVE RestTypeOK'
  BY <1>6 DEF PaymentServes, Payment!RequestStep, Payment!InsertPayment,
       Payment!InsertFails, Payment!Commit, Payment!CommitFails,
       Payment!Publish, Payment!PublishLost, Payment!PublishFails,
       Delivery!Publish, queued
<1>7. ASSUME NEW o \in Orders, DeliveryStep(o) PROVE RestTypeOK'
  BY <1>7 DEF DeliveryStep, Delivery!Notify, Delivery!Complete,
       Delivery!Abandon
<1>8. CASE DeliveryForgets
  BY <1>8 DEF DeliveryForgets, Delivery!Lose
<1>9. CASE PaymentProcess
  BY <1>9 DEF PaymentProcess, Payment!ConnectionLost, Payment!Unbind,
       Payment!Start, Payment!Sigterm, Payment!Exit, Payment!Crash,
       Payment!ProcessEnds, Payment!InFlight
<1> QED
  BY <1>1, <1>2, <1>3, <1>4, <1>5, <1>6, <1>7, <1>8, <1>9 DEF Next, CallEnds,
       AnswerArrives, CallFails, OrderInterrupted, OrderFinishes,
       OrderProcess, vars

\* The invariant holds at the start.
LEMMA InitHolds == Init => IInv
<1> SUFFICES ASSUME Init PROVE IInv
  OBVIOUS
<1> USE PipelineAssumption DEF PipelineAssumption, Init, Order!Init, Payment!Init,
        Delivery!Init
<1>1. Order!StoreType /\ Order!CallType /\ Order!ProcessType
  BY DEF Order!StoreType, Order!CallType, Order!ProcessType, Order!Status,
         Order!CallState, Order!Ended
<1>2. Payment!TypeOK
  <2>1. Payment!RequestType /\ Payment!ProcessType
    BY DEF Payment!RequestType, Payment!ProcessType, Payment!RequestState
  <2>2. Payment!BrokerType
    BY DEF Payment!BrokerType, queued
  <2> QED
    BY <2>1, <2>2 DEF Payment!TypeOK
<1>3. RpcType /\ DeliveryType
  BY DEF RpcType, DeliveryType
<1>4. Ledger /\ Journey /\ Charges /\ Announced
  BY DEF Ledger, Journey, Charges, Announced, Payment!InFlight
<1> QED
  BY <1>1, <1>2, <1>3, <1>4 DEF IInv, TypeOK

\* The inductive invariant holds in every behaviour.
THEOREM Invariance == Spec => []IInv
<1>1. IInv /\ [Next]_vars => IInv'
  BY OrderTypeStep, PaymentTypeStep, RestTypeStep, LedgerStep, JourneyStep,
     ChargesStep, AnnouncedStep DEF IInv, TypeOK, OrderTypeOK, RestTypeOK
<1> QED
  BY InitHolds, <1>1, PTL DEF Spec

--------------------------------------------------------------------------
(* What follows from it. *)

\* Every variable keeps its type.
THEOREM TypeCorrect == Spec => []TypeOK
  BY Invariance, PTL DEF IInv

\* A completed order is announced, however many orders are under way and
\* whatever happens to the order service and the calls.
THEOREM CompletedIsQueued == Spec => []CompletedMeansQueued
<1>1. IInv => CompletedMeansQueued
  <2> SUFFICES ASSUME IInv, NEW o \in Orders, row[o] = "completed"
               PROVE  o \in queued \/ (paymentFaults > 0 /\ pc[o] = "replied")
    BY DEF CompletedMeansQueued
  <2>1. pc[o] = "replied" /\ o \in payments
    BY DEF IInv, Ledger, Journey, Charges
  <2>2. paymentFaults = 0 => o \in queued
    BY <2>1 DEF IInv, Announced
  <2>3. paymentFaults = 0 \/ paymentFaults > 0
    BY PipelineAssumption DEF PipelineAssumption, IInv, TypeOK, Payment!TypeOK,
       Payment!ProcessType
  <2> QED
    BY <2>1, <2>2, <2>3
<1> QED
  BY Invariance, <1>1, PTL

\* Without a fault of the payment service every charge is announced, whoever
\* else fails, is cancelled or shut down.
THEOREM ChargedIsQueued == Spec => []ChargedMeansQueued
<1>1. IInv => ChargedMeansQueued
  BY DEF IInv, Announced, ChargedMeansQueued
<1> QED
  BY Invariance, <1>1, PTL

\* A charge without a completed order has one of the causes listed.
THEOREM ChargeHasCause == Spec => []ChargedOrderExplained
<1>1. IInv => ChargedOrderExplained
  <2> SUFFICES ASSUME IInv, NEW o \in Orders, o \in payments,
                      call[o] \in Order!Ended, row[o] # "completed",
                      call[o] # "lost"
               PROVE  \/ o \in cancelled \cup broken \cup lostUpdates
                      \/ paymentFaults > 0 /\ pc[o] \in {"failed", "lost"}
    BY DEF IInv, TypeOK, Payment!TypeOK, Payment!RequestType, ChargedOrderExplained
  <2>1. call[o] = "returned" => o \in lostUpdates
    BY DEF IInv, Ledger
  <2>2. call[o] = "failed" => reply[o] = "error"
    BY DEF IInv, Ledger, Journey, Charges, TypeOK, Order!CallType
  <2>3. reply[o] = "error" =>
          o \in cancelled \cup broken \/ pc[o] \in {"failed", "lost"}
    BY DEF IInv, Journey, Charges
  <2>4. pc[o] \in {"failed", "lost"} => paymentFaults > 0
    BY DEF IInv, Charges
  <2> QED
    BY <2>1, <2>2, <2>3, <2>4 DEF Order!Ended
<1> QED
  BY Invariance, <1>1, PTL

--------------------------------------------------------------------------
(* The services together implement Purchase. *)

\* At the start nothing has been placed, charged or announced.
LEMMA PurchaseInit == Init => Sale!Init
  BY DEF Init, Order!Init, Payment!Init, Delivery!Init, Sale!Init

\* Every step of the services is one of Purchase, or none that it sees.
LEMMA PurchaseStep == IInv /\ [Next]_vars => [Sale!Next]_(Sale!vars)
<1> SUFFICES ASSUME IInv, [Next]_vars PROVE [Sale!Next]_(Sale!vars)
  OBVIOUS
<1> USE DEF IInv, TypeOK, Order!StoreType, Order!CallType, Order!ProcessType,
     Order!Status, Order!CallState, Order!Ended, Payment!TypeOK,
     Payment!RequestType, Payment!BrokerType, Payment!ProcessType,
     Payment!RequestState, RpcType, DeliveryType, Sale!Next, Sale!Place,
     Sale!Charge, Sale!Complete, Sale!Refuse, Sale!Notify, Sale!vars, Ledger,
     Journey, Charges
<1>1. ASSUME NEW o \in Orders, PlaceOrder(o) PROVE [Sale!Next]_(Sale!vars)
  BY <1>1 DEF PlaceOrder, Order!Insert
<1>2. ASSUME NEW o \in Orders, ReceiveRequest(o) PROVE [Sale!Next]_(Sale!vars)
  BY <1>2 DEF ReceiveRequest, Payment!Begin, Payment!BeginFails
<1>3. ASSUME NEW o \in Orders, AnswerArrives(o) PROVE [Sale!Next]_(Sale!vars)
  BY <1>3 DEF AnswerArrives, Order!PaymentSucceeds
<1>4. ASSUME NEW o \in Orders, CallFails(o) PROVE [Sale!Next]_(Sale!vars)
  BY <1>4 DEF CallFails, Order!PaymentFails
<1>5. ASSUME NEW o \in Orders, CallRefused(o) PROVE [Sale!Next]_(Sale!vars)
  BY <1>5 DEF CallRefused, Order!PaymentFails
<1>6. ASSUME NEW o \in Orders, CallBreaks(o) PROVE [Sale!Next]_(Sale!vars)
  BY <1>6 DEF CallBreaks, Order!PaymentFails
<1>7. ASSUME NEW o \in Orders, OrderInterrupted(o) PROVE [Sale!Next]_(Sale!vars)
  BY <1>7 DEF OrderInterrupted, Order!InsertFails, Order!Cancel,
       Order!HasContext
<1>8. ASSUME NEW o \in Orders, OrderFinishes(o) PROVE [Sale!Next]_(Sale!vars)
  BY <1>8 DEF OrderFinishes, Order!FinishStep, Order!Update,
       Order!UpdateFails, Order!Invalidate, Order!InvalidateFails,
       Order!FinalStatus, Order!Returned
<1>9. ASSUME NEW o \in Orders, PaymentServes(o) PROVE [Sale!Next]_(Sale!vars)
  BY <1>9 DEF PaymentServes, Payment!RequestStep, Payment!InsertPayment,
       Payment!InsertFails, Payment!Commit, Payment!CommitFails,
       Payment!Publish, Payment!PublishLost, Payment!PublishFails,
       Delivery!Publish, queued
<1>10. ASSUME NEW o \in Orders, DeliveryStep(o) PROVE [Sale!Next]_(Sale!vars)
  BY <1>10 DEF DeliveryStep, Delivery!Notify, Delivery!Complete,
       Delivery!Abandon
<1>11. CASE DeliveryForgets
  BY <1>11 DEF DeliveryForgets, Delivery!Lose
<1>12. CASE OrderProcess
  BY <1>12 DEF OrderProcess, Order!Start, Order!Notify, Order!Sigterm,
       Order!SigtermEarly, Order!Exit, Order!Crash, Order!ProcessEnds,
       Order!InFlight
<1>13. CASE PaymentProcess
  BY <1>13 DEF PaymentProcess, Payment!ConnectionLost, Payment!Unbind,
       Payment!Start, Payment!Sigterm, Payment!Exit, Payment!Crash,
       Payment!ProcessEnds, Payment!InFlight
<1>14. CASE UNCHANGED vars
  BY <1>14 DEF vars
<1> QED
  BY <1>1, <1>2, <1>3, <1>4, <1>5, <1>6, <1>7, <1>8, <1>9, <1>10, <1>11,
       <1>12, <1>13, <1>14 DEF Next, CallEnds

\* What is completed is charged, what is charged was placed, an outcome is
\* final, and a customer hears only of a charge that was made.
THEOREM ImplementsPurchase == Spec => PurchaseSpec
  BY Invariance, PurchaseInit, PurchaseStep, PTL 
  DEF Spec, PurchaseSpec, Sale!Spec

--------------------------------------------------------------------------
(* Each service in the pipeline is the one its own module describes. *)

OrderLaws == INSTANCE OrderHandler_proofs WITH
  Readers <- {}, TTL <- 0, MaxFaults <- MaxOrderFaults,
  entry <- [o \in Orders |-> "none"], target <- <<>>, seen <- <<>>, late <- {},
  caching <- ~TRUE, mode <- orderMode, faults <- orderFaults

PaymentLaws == INSTANCE PaymentHandler_proofs WITH
  Requests <- Orders, MaxFaults <- MaxPaymentFaults, events <- queued,
  mode <- paymentMode, faults <- paymentFaults

\* No step of the pipeline does to the order service what it does not do.
LEMMA OrderStep == [Next]_vars => [Order!Next]_(Order!vars)
<1> SUFFICES ASSUME [Next]_vars PROVE [Order!Next]_(Order!vars)
  OBVIOUS
<1>1. CASE UNCHANGED orderVars
  BY <1>1 DEF Order!vars
<1>2. ASSUME NEW o \in Orders,
             \/ PlaceOrder(o) \/ CallEnds(o) \/ CallBreaks(o)
             \/ OrderInterrupted(o) \/ OrderFinishes(o)
      PROVE  Order!Next
  BY <1>2 DEF PlaceOrder, CallEnds, AnswerArrives, CallFails, CallRefused,
     CallBreaks, OrderInterrupted, OrderFinishes, Order!Next, Order!CreateStep
<1>3. CASE OrderProcess
  BY <1>3 DEF OrderProcess, Order!Next
<1> QED
  BY <1>1, <1>2, <1>3 DEF Next, ReceiveRequest, PaymentServes, DeliveryStep,
     DeliveryForgets, PaymentProcess, vars

\* The calls of CreateOrder, with the answers the payment service really gives,
\* and the process around them are what OrderHandler says without its readers.
THEOREM OrderKept == Spec => Order!Spec
<1>1. Init => Order!Init
  BY DEF Init
<1> QED
  BY <1>1, OrderStep, PTL DEF Spec, Order!Spec

\* What is in the queue stays what the payment service has put there.
LEMMA DeliveryKeepsQueued ==
  ASSUME TypeOK, DeliveryForgets \/ \E o \in Orders : DeliveryStep(o)
  PROVE  queued' = queued
  BY DEF DeliveryForgets, DeliveryStep, Delivery!Lose, Delivery!Notify,
     Delivery!Complete, Delivery!Abandon, queued, TypeOK, DeliveryType

\* No step of the pipeline does to the payment service what it does not do.
LEMMA PaymentStep == TypeOK /\ [Next]_vars => [Payment!Next]_(Payment!vars)
<1> SUFFICES ASSUME TypeOK, [Next]_vars PROVE [Payment!Next]_(Payment!vars)
  OBVIOUS
<1>1. CASE UNCHANGED paymentVars /\ queued' = queued
  BY <1>1 DEF Payment!vars
<1>2. ASSUME NEW o \in Orders, ReceiveRequest(o) \/ PaymentServes(o)
      PROVE  Payment!Next
  BY <1>2 DEF ReceiveRequest, PaymentServes, Payment!Next
<1>3. CASE PaymentProcess
  BY <1>3 DEF PaymentProcess, Payment!Next
<1>4. CASE DeliveryForgets \/ \E o \in Orders : DeliveryStep(o)
  BY <1>1, <1>4, DeliveryKeepsQueued DEF DeliveryForgets, DeliveryStep
<1>5. CASE UNCHANGED <<paymentVars, deliveryVars>>
  BY <1>1, <1>5 DEF queued
<1> QED
  BY <1>2, <1>3, <1>4, <1>5 DEF Next, PlaceOrder, CallEnds, AnswerArrives,
     CallFails, CallRefused, CallBreaks, OrderInterrupted, OrderFinishes,
     OrderProcess, vars

\* The payment service serves the requests of the order service as
\* PaymentHandler says it serves any.
THEOREM PaymentKept == Spec => Payment!Spec
<1>1. Init => Payment!Init
  BY DEF Init
<1>2. IInv => TypeOK
  BY DEF IInv
<1> QED
  BY <1>1, <1>2, Invariance, PaymentStep, PTL DEF Spec, Payment!Spec

\* The notification service gets from the payment service what it expects.
THEOREM DeliveryKept == Spec => Delivery!Spec
<1>1. Init => Delivery!Init
  BY DEF Init
<1>2. [Next]_vars => [Delivery!Next]_(Delivery!vars)
  <2> SUFFICES ASSUME [Next]_vars PROVE [Delivery!Next]_(Delivery!vars)
    OBVIOUS
  <2>1. CASE UNCHANGED deliveryVars
    BY <2>1 DEF Delivery!vars
  <2>2. ASSUME NEW o \in Orders, Delivery!Publish(o) \/ DeliveryStep(o)
        PROVE  Delivery!Next
    BY <2>2 DEF DeliveryStep, Delivery!Next
  <2>3. CASE DeliveryForgets
    BY <2>3 DEF DeliveryForgets, Delivery!Next
  <2> QED
    BY <2>1, <2>2, <2>3 DEF Next, PlaceOrder, ReceiveRequest, CallEnds,
       AnswerArrives, CallFails, CallRefused, CallBreaks, OrderInterrupted,
       OrderFinishes, PaymentServes, OrderProcess, PaymentProcess, vars
<1> QED
  BY <1>1, <1>2, PTL DEF Spec, Delivery!Spec

--------------------------------------------------------------------------
(* What is proved of a service alone holds beside the others. *)

\* The definitions the theorems of a service speak of are its own.
LEMMA SameOrder ==
  [Order!Next]_(Order!vars) => [OrderLaws!Next]_(OrderLaws!vars)
<1> USE DEF Order!vars, OrderLaws!vars, OrderLaws!callVars, OrderLaws!readVars,
            OrderLaws!processVars, OrderLaws!historyVars
<1>1. ASSUME NEW o \in Orders,
             \/ Order!Insert(o) \/ Order!InsertFails(o) \/ Order!Cancel(o)
             \/ Order!CreateStep(o) \/ Order!Expire(o)
      PROVE  \/ OrderLaws!Insert(o) \/ OrderLaws!InsertFails(o)
             \/ OrderLaws!Cancel(o) \/ OrderLaws!CreateStep(o)
             \/ OrderLaws!Expire(o)
  BY <1>1, Zenon
  DEF Order!Insert, OrderLaws!Insert, Order!InsertFails, OrderLaws!InsertFails,
      Order!Cancel, OrderLaws!Cancel, Order!CreateStep, OrderLaws!CreateStep,
      Order!PaymentSucceeds, OrderLaws!PaymentSucceeds, Order!PaymentFails,
      OrderLaws!PaymentFails, Order!FinishStep, OrderLaws!FinishStep,
      Order!Update, OrderLaws!Update, Order!UpdateFails, OrderLaws!UpdateFails,
      Order!Invalidate, OrderLaws!Invalidate, Order!InvalidateFails,
      OrderLaws!InvalidateFails, Order!Expire, OrderLaws!Expire, Order!Accepts,
      OrderLaws!Accepts, Order!HasContext, OrderLaws!HasContext,
      Order!FinalStatus, OrderLaws!FinalStatus, Order!Returned,
      OrderLaws!Returned, Order!InFlight, OrderLaws!InFlight, Order!Step,
      OrderLaws!Step, Order!Fault, OrderLaws!Fault
<1>2. ASSUME \/ Order!Start \/ Order!Notify \/ Order!Sigterm
             \/ Order!SigtermEarly \/ Order!Exit \/ Order!Crash
      PROVE  \/ OrderLaws!Start \/ OrderLaws!Notify \/ OrderLaws!Sigterm
             \/ OrderLaws!SigtermEarly \/ OrderLaws!Exit \/ OrderLaws!Crash
  BY <1>2, Zenon
  DEF Order!Start, OrderLaws!Start, Order!Notify, OrderLaws!Notify,
      Order!Sigterm, OrderLaws!Sigterm, Order!SigtermEarly,
      OrderLaws!SigtermEarly, Order!Exit, OrderLaws!Exit, Order!Crash,
      OrderLaws!Crash, Order!ProcessEnds, OrderLaws!ProcessEnds,
      Order!InFlight, OrderLaws!InFlight, Order!Fault, OrderLaws!Fault
<1> QED
  BY <1>1, <1>2 DEF Order!Next, OrderLaws!Next

LEMMA SamePayment ==
  [Payment!Next]_(Payment!vars) => [PaymentLaws!Next]_(PaymentLaws!vars)
<1> USE DEF Payment!vars, PaymentLaws!vars, PaymentLaws!brokerVars
<1>1. ASSUME NEW o \in Orders,
             Payment!Begin(o) \/ Payment!BeginFails(o) \/ Payment!RequestStep(o)
      PROVE  \/ PaymentLaws!Begin(o) \/ PaymentLaws!BeginFails(o)
             \/ PaymentLaws!RequestStep(o)
  BY <1>1, Zenon
  DEF Payment!Begin, PaymentLaws!Begin, Payment!BeginFails,
      PaymentLaws!BeginFails, Payment!RequestStep, PaymentLaws!RequestStep,
      Payment!InsertPayment, PaymentLaws!InsertPayment, Payment!InsertFails,
      PaymentLaws!InsertFails, Payment!Commit, PaymentLaws!Commit,
      Payment!CommitFails, PaymentLaws!CommitFails, Payment!Publish,
      PaymentLaws!Publish, Payment!PublishLost, PaymentLaws!PublishLost,
      Payment!PublishFails, PaymentLaws!PublishFails, Payment!Step,
      PaymentLaws!Step, Payment!Fault, PaymentLaws!Fault
<1>2. ASSUME \/ Payment!ConnectionLost \/ Payment!Unbind \/ Payment!Start
             \/ Payment!Sigterm \/ Payment!Exit \/ Payment!Crash
      PROVE  \/ PaymentLaws!ConnectionLost \/ PaymentLaws!Unbind
             \/ PaymentLaws!Start \/ PaymentLaws!Sigterm \/ PaymentLaws!Exit
             \/ PaymentLaws!Crash
  BY <1>2, Zenon
  DEF Payment!ConnectionLost, PaymentLaws!ConnectionLost, Payment!Unbind,
      PaymentLaws!Unbind, Payment!Start, PaymentLaws!Start, Payment!Sigterm,
      PaymentLaws!Sigterm, Payment!Exit, PaymentLaws!Exit, Payment!Crash,
      PaymentLaws!Crash, Payment!ProcessEnds, PaymentLaws!ProcessEnds,
      Payment!InFlight, PaymentLaws!InFlight, Payment!Fault, PaymentLaws!Fault
<1> QED
  BY <1>1, <1>2 DEF Payment!Next, PaymentLaws!Next

LEMMA OrderLawful == Spec => OrderLaws!Spec
<1>1. Order!Init => OrderLaws!Init
  BY Zenon DEF Order!Init, OrderLaws!Init
<1> QED
  BY <1>1, OrderKept, SameOrder, PTL DEF Order!Spec, OrderLaws!Spec

LEMMA PaymentLawful == Spec => PaymentLaws!Spec
<1>1. Payment!Init => PaymentLaws!Init
  BY Zenon DEF Payment!Init, PaymentLaws!Init
<1> QED
  BY <1>1, PaymentKept, SamePayment, PTL DEF Payment!Spec, PaymentLaws!Spec

LEMMA LawsAssumed ==
  OrderLaws!OrderAssumption /\ PaymentLaws!PaymentAssumption
  BY PipelineAssumption DEF PipelineAssumption, OrderLaws!OrderAssumption,
     PaymentLaws!PaymentAssumption

\* What the two services answer is so: the reply of CreateOrder is in the row
\* unless its update was lost, nobody hears of a payment that was not made,
\* and no request of the order service keeps a transaction open.
THEOREM AnswersTrue ==
  Spec => [](Order!ReplyMatchesRow /\ Payment!SaidMeansPaid
             /\ Payment!NoOpenTransaction)
<1>1. Spec => []OrderLaws!ReplyMatchesRow
  BY OrderLawful, LawsAssumed, OrderLaws!ReplyIsRow, PTL
<1>2. Spec => [](PaymentLaws!SaidMeansPaid /\ PaymentLaws!NoOpenTransaction)
  BY PaymentLawful, LawsAssumed, PaymentLaws!SaidIsPaid, PaymentLaws!NoLeak, PTL
<1>3. OrderLaws!ReplyMatchesRow => Order!ReplyMatchesRow
  BY DEF OrderLaws!ReplyMatchesRow, Order!ReplyMatchesRow,
     OrderLaws!FinalStatus, Order!FinalStatus
<1>4. PaymentLaws!SaidMeansPaid /\ PaymentLaws!NoOpenTransaction
        => Payment!SaidMeansPaid /\ Payment!NoOpenTransaction
  BY DEF PaymentLaws!SaidMeansPaid, Payment!SaidMeansPaid,
     PaymentLaws!NoOpenTransaction, Payment!NoOpenTransaction
<1> QED
  BY <1>1, <1>2, <1>3, <1>4, PTL
=========================================================================
