---------------------- MODULE PaymentHandler_proofs ----------------------
(***************************************************************************)
(* Theorems about PaymentHandler for any requests and any bound on the     *)
(* faults.  The inductive invariant says, besides the types:               *)
(*                                                                         *)
(*   Committed  what the place of a request says of its transaction;       *)
(*   Quiet      what is true of the broker as long as nothing failed.      *)
(***************************************************************************)
EXTENDS PaymentHandler, TLAPS

USE PaymentAssumption DEF PaymentAssumption, brokerVars

--------------------------------------------------------------------------
(* The inductive invariant. *)

\* A request past its commit has its payment, so has one with an event; a
\* transaction is open only before the commit, and a process that is down has
\* no request under way.
Committed ==
  /\ \A p \in Requests : pc[p] \in {"publishing", "replied"} => p \in payments
  /\ events \subseteq payments
  /\ \A p \in open : pc[p] \in {"inserting", "committing"}
  /\ mode = "down" => \A p \in Requests : ~InFlight(p)

\* Without a fault the publisher of a running process reaches the queue, and
\* every payment has its event there or a request about to publish it.
Quiet ==
  faults = 0 =>
    /\ mode # "down" => connected /\ bound
    /\ \A p \in payments : p \in events \/ pc[p] = "publishing"

IInv == TypeOK /\ Committed /\ Quiet

--------------------------------------------------------------------------
(* Each layer is inductive. *)

\* Nothing is wrong before anything has happened.
LEMMA InitHolds == Init => IInv
<1> SUFFICES ASSUME Init PROVE IInv
  OBVIOUS
<1> USE DEF Init
<1>1. RequestType
  BY DEF RequestType, RequestState
<1>2. BrokerType
  BY DEF BrokerType
<1>3. ProcessType
  BY DEF ProcessType
<1>4. Committed /\ Quiet
  BY DEF Committed, Quiet, InFlight
<1> QED
  BY <1>1, <1>2, <1>3, <1>4 DEF IInv, TypeOK

\* Every step keeps the types.
LEMMA TypeStep == TypeOK /\ [Next]_vars => TypeOK'
<1> SUFFICES ASSUME TypeOK, [Next]_vars PROVE TypeOK'
  OBVIOUS
<1> USE DEF TypeOK, RequestType, BrokerType, ProcessType, RequestState
<1>1. ASSUME NEW p \in Requests, Begin(p) PROVE TypeOK'
  BY <1>1 DEF Begin, Step
<1>2. ASSUME NEW p \in Requests, BeginFails(p) PROVE TypeOK'
  BY <1>2 DEF BeginFails, Step, Fault
<1>3. ASSUME NEW p \in Requests, InsertPayment(p) PROVE TypeOK'
  BY <1>3 DEF InsertPayment, Step
<1>4. ASSUME NEW p \in Requests, InsertFails(p) PROVE TypeOK'
  BY <1>4 DEF InsertFails, Step, Fault
<1>5. ASSUME NEW p \in Requests, Commit(p) PROVE TypeOK'
  BY <1>5 DEF Commit, Step
<1>6. ASSUME NEW p \in Requests, CommitFails(p) PROVE TypeOK'
  BY <1>6 DEF CommitFails, Step, Fault
<1>7. ASSUME NEW p \in Requests, Publish(p) PROVE TypeOK'
  BY <1>7 DEF Publish, Step
<1>8. ASSUME NEW p \in Requests, PublishLost(p) PROVE TypeOK'
  <2>1. RequestType'
    BY <1>8 DEF PublishLost, Step, Fault
  <2>2. BrokerType'
    BY <1>8 DEF PublishLost, Step, Fault
  <2>3. ProcessType'
    BY <1>8 DEF PublishLost, Step, Fault
  <2> QED
    BY <2>1, <2>2, <2>3
<1>9. ASSUME NEW p \in Requests, PublishFails(p) PROVE TypeOK'
  BY <1>9 DEF PublishFails, Step
<1>10. CASE ConnectionLost
  <2>1. RequestType'
    BY <1>10 DEF ConnectionLost, Fault
  <2>2. BrokerType'
    BY <1>10 DEF ConnectionLost, Fault
  <2>3. ProcessType'
    BY <1>10 DEF ConnectionLost, Fault
  <2> QED
    BY <2>1, <2>2, <2>3
<1>11. CASE Unbind
  <2>1. RequestType'
    BY <1>11 DEF Unbind, Fault
  <2>2. BrokerType'
    BY <1>11 DEF Unbind, Fault
  <2>3. ProcessType'
    BY <1>11 DEF Unbind, Fault
  <2> QED
    BY <2>1, <2>2, <2>3
<1>12. CASE Start
  BY <1>12 DEF Start
<1>13. CASE Sigterm
  BY <1>13 DEF Sigterm
<1>14. CASE Exit
  BY <1>14 DEF Exit, ProcessEnds, InFlight
<1>15. CASE Crash
  <2>1. RequestType'
    BY <1>15 DEF Crash, ProcessEnds, InFlight, Fault
  <2>2. BrokerType'
    BY <1>15 DEF Crash, ProcessEnds, InFlight, Fault
  <2>3. ProcessType'
    BY <1>15 DEF Crash, ProcessEnds, InFlight, Fault
  <2> QED
    BY <2>1, <2>2, <2>3
<1>16. CASE UNCHANGED vars
  BY <1>16 DEF vars
<1> QED
  BY <1>1, <1>2, <1>3, <1>4, <1>5, <1>6, <1>7, <1>8, <1>9, <1>10, <1>11,
     <1>12, <1>13, <1>14, <1>15, <1>16
     DEF Next, RequestStep

\* Every step leaves a request where its transaction says it is.
LEMMA CommittedStep == TypeOK /\ Committed /\ [Next]_vars => Committed'
<1> SUFFICES ASSUME TypeOK, Committed, [Next]_vars PROVE Committed'
  OBVIOUS
<1> USE DEF TypeOK, RequestType, BrokerType, ProcessType, RequestState,
            Committed, InFlight
<1>1. ASSUME NEW p \in Requests, Begin(p) PROVE Committed'
  BY <1>1 DEF Begin, Step
<1>2. ASSUME NEW p \in Requests, BeginFails(p) PROVE Committed'
  BY <1>2 DEF BeginFails, Step, Fault
<1>3. ASSUME NEW p \in Requests, InsertPayment(p) PROVE Committed'
  BY <1>3 DEF InsertPayment, Step
<1>4. ASSUME NEW p \in Requests, InsertFails(p) PROVE Committed'
  BY <1>4 DEF InsertFails, Step, Fault
<1>5. ASSUME NEW p \in Requests, Commit(p) PROVE Committed'
  BY <1>5 DEF Commit, Step
<1>6. ASSUME NEW p \in Requests, CommitFails(p) PROVE Committed'
  BY <1>6 DEF CommitFails, Step, Fault
<1>7. ASSUME NEW p \in Requests, Publish(p) PROVE Committed'
  BY <1>7 DEF Publish, Step
<1>8. ASSUME NEW p \in Requests, PublishLost(p) PROVE Committed'
  BY <1>8 DEF PublishLost, Step, Fault
<1>9. ASSUME NEW p \in Requests, PublishFails(p) PROVE Committed'
  BY <1>9 DEF PublishFails, Step
<1>10. CASE ConnectionLost
  BY <1>10 DEF ConnectionLost, Fault
<1>11. CASE Unbind
  BY <1>11 DEF Unbind, Fault
<1>12. CASE Start
  BY <1>12 DEF Start
<1>13. CASE Sigterm
  BY <1>13 DEF Sigterm
<1>14. CASE Exit
  BY <1>14 DEF Exit, ProcessEnds, InFlight
<1>15. CASE Crash
  BY <1>15 DEF Crash, ProcessEnds, InFlight, Fault
<1>16. CASE UNCHANGED vars
  BY <1>16 DEF vars
<1> QED
  BY <1>1, <1>2, <1>3, <1>4, <1>5, <1>6, <1>7, <1>8, <1>9, <1>10, <1>11,
     <1>12, <1>13, <1>14, <1>15, <1>16
     DEF Next, RequestStep

\* Every step without a fault keeps the way to the queue open.
LEMMA QuietStep == TypeOK /\ Committed /\ Quiet /\ [Next]_vars => Quiet'
<1> SUFFICES ASSUME TypeOK, Committed, Quiet, [Next]_vars PROVE Quiet'
  OBVIOUS
<1> USE DEF TypeOK, RequestType, BrokerType, ProcessType, RequestState,
            Committed, InFlight, Quiet
<1>1. ASSUME NEW p \in Requests, Begin(p) PROVE Quiet'
  BY <1>1 DEF Begin, Step
<1>2. ASSUME NEW p \in Requests, BeginFails(p) PROVE Quiet'
  BY <1>2 DEF BeginFails, Step, Fault
<1>3. ASSUME NEW p \in Requests, InsertPayment(p) PROVE Quiet'
  BY <1>3 DEF InsertPayment, Step
<1>4. ASSUME NEW p \in Requests, InsertFails(p) PROVE Quiet'
  BY <1>4 DEF InsertFails, Step, Fault
<1>5. ASSUME NEW p \in Requests, Commit(p) PROVE Quiet'
  BY <1>5 DEF Commit, Step
<1>6. ASSUME NEW p \in Requests, CommitFails(p) PROVE Quiet'
  BY <1>6 DEF CommitFails, Step, Fault
<1>7. ASSUME NEW p \in Requests, Publish(p) PROVE Quiet'
  BY <1>7 DEF Publish, Step
<1>8. ASSUME NEW p \in Requests, PublishLost(p) PROVE Quiet'
  BY <1>8 DEF PublishLost, Step, Fault
<1>9. ASSUME NEW p \in Requests, PublishFails(p) PROVE Quiet'
  BY <1>9 DEF PublishFails, Step
<1>10. CASE ConnectionLost
  BY <1>10 DEF ConnectionLost, Fault
<1>11. CASE Unbind
  BY <1>11 DEF Unbind, Fault
<1>12. CASE Start
  BY <1>12 DEF Start
<1>13. CASE Sigterm
  BY <1>13 DEF Sigterm
<1>14. CASE Exit
  BY <1>14 DEF Exit, ProcessEnds, InFlight
<1>15. CASE Crash
  BY <1>15 DEF Crash, ProcessEnds, InFlight, Fault
<1>16. CASE UNCHANGED vars
  BY <1>16 DEF vars
<1> QED
  BY <1>1, <1>2, <1>3, <1>4, <1>5, <1>6, <1>7, <1>8, <1>9, <1>10, <1>11,
     <1>12, <1>13, <1>14, <1>15, <1>16
     DEF Next, RequestStep

\* The inductive invariant holds in every behaviour.
THEOREM Invariance == Spec => []IInv
<1>1. IInv /\ [Next]_vars => IInv'
  BY TypeStep, CommittedStep, QuietStep DEF IInv
<1> QED
  BY InitHolds, <1>1, PTL DEF Spec

--------------------------------------------------------------------------
(* What follows from it. *)

\* Every variable keeps its type.
THEOREM TypeCorrect == Spec => []TypeOK
  BY Invariance, PTL DEF IInv

\* Neither a reply nor an event ever speaks of a payment that was not made.
THEOREM SaidIsPaid == Spec => []SaidMeansPaid
<1>1. IInv => SaidMeansPaid
  BY DEF IInv, Committed, SaidMeansPaid
<1> QED
  BY Invariance, <1>1, PTL

\* No path through CreatePayment leaves its transaction open.
THEOREM NoLeak == Spec => []NoOpenTransaction
<1>1. IInv => NoOpenTransaction
  BY DEF IInv, Committed, NoOpenTransaction
<1> QED
  BY Invariance, <1>1, PTL

\* Without a fault every payment is published, across any shutdowns and
\* restarts, and before its reply.
THEOREM QuietPublishes == Spec => []PublishedWithoutFaults
<1>1. IInv => PublishedWithoutFaults
  BY DEF IInv, Quiet, PublishedWithoutFaults
<1> QED
  BY Invariance, <1>1, PTL
==========================================================================
