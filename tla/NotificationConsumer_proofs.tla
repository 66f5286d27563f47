------------------ MODULE NotificationConsumer_proofs ------------------
(***************************************************************************)
(* Theorems about NotificationConsumer for any events, any pool of workers *)
(* and any bounds.  The inductive invariant has four layers, each proved  *)
(* with the help of the ones before it:                                    *)
(*                                                                         *)
(*   TypeOK   the type of every variable;                                  *)
(*   Custody  who holds an event, and what the broker thinks of it;        *)
(*   Window   how much the broker hands over, and that the pool is there;  *)
(*   Records  how the emails sent, the Redis keys and the progress of the  *)
(*            workers account for each other.                              *)
(***************************************************************************)
EXTENDS NotificationConsumer, FiniteSetTheorems, TLAPS

USE ConsumerAssumption

--------------------------------------------------------------------------
(* The inductive invariant. *)

\* The broker's view of an event that is in the process.
InProcess(e) == broker[e] = IF connected THEN "unacked" ELSE "ready"

\* A worker holds an event exactly while it handles one, and the broker knows.
HeldInProcess ==
  \A w \in Workers :
    /\ job[w] = NoEvent <=> pc[w] \in {"select", "stopped"}
    /\ job[w] # NoEvent => InProcess(job[w])

PrefetchedInProcess == \A e \in prefetched : InProcess(e)

\* The broker keeps to the prefetch window, and the pool is there.
WindowKept ==
  /\ IsFiniteSet(Unacked)
  /\ Workers # {} => Cardinality(Unacked) <= Cardinality(Workers)

PoolRuns ==
  mode = "running" /\ connected => \A w \in Workers : pc[w] # "stopped"

StoppedIsEmpty ==
  mode = "stopped" =>
    /\ ~connected
    /\ prefetched = {}
    /\ \A w \in Workers : pc[w] = "stopped"

Custody ==
  /\ OneHolder
  /\ NoLeakedDelivery
  /\ HeldInProcess
  /\ PrefetchedInProcess
  /\ StoppedIsEmpty

Window == WindowKept /\ PoolRuns

\* An email nothing records any more was paid for by a forget: the record is
\* the Redis key or the worker that is about to set it.
Unrecorded(e) ==
  /\ e \notin processed
  /\ \A w \in Workers : job[w] = e => pc[w] # "marking"

UnrecordedAccounted == \A e \in Events : Unrecorded(e) => emails[e] <= forgets

\* The duplicate check stays right for as long as the sending takes.
CheckStaysRight ==
  \A w \in Workers : pc[w] = "sending" => job[w] \notin processed

\* What counts as notified was notified.
NotifiedWhenRecorded ==
  /\ \A e \in processed : emails[e] >= 1
  /\ \A w \in Workers :
       pc[w] \in {"marking", "markingPG", "acking"} => emails[job[w]] >= 1

\* What cannot be parsed is never sent.
MalformedUnsent ==
  /\ \A e \in Malformed : emails[e] = 0
  /\ \A w \in Workers :
       pc[w] \in {"sending", "marking", "markingPG", "acking"} =>
         job[w] \notin Malformed

Records ==
  /\ DuplicatesAccounted
  /\ UnrecordedAccounted
  /\ CheckStaysRight
  /\ NotifiedWhenRecorded
  /\ MalformedUnsent
  /\ AckedMeansNotified
  /\ DeadLettersUnsent

IInv == TypeOK /\ Custody /\ Window /\ Records

--------------------------------------------------------------------------
(* Types. *)

\* The initial state has the right types.
LEMMA TypeInit == Init => TypeOK
<1>1. Init => QueueType
  BY DEF Init, QueueType, BrokerState
<1>2. Init => WorkerType
  BY DEF Init, WorkerType, WorkerState
<1>3. Init => RecordType
  BY DEF Init, RecordType
<1> QED
  BY <1>1, <1>2, <1>3 DEF TypeOK

\* Every step keeps the types; that only events are recorded needs Custody,
\* by which a worker that records one holds one.
LEMMA TypeStep == TypeOK /\ Custody /\ [Next]_vars => TypeOK'
<1> SUFFICES ASSUME TypeOK, Custody, [Next]_vars PROVE TypeOK'
  OBVIOUS
<1>1. ASSUME NEW e \in Events, Publish(e) PROVE TypeOK'
  BY <1>1 DEF Publish, workerVars, storeVars, TypeOK, QueueType, WorkerType,
              RecordType, BrokerState, WorkerState
<1>2. ASSUME NEW e \in Events, Deliver(e) PROVE TypeOK'
  BY <1>2 DEF Deliver, workerVars, storeVars, TypeOK, QueueType, WorkerType,
              RecordType, BrokerState, WorkerState
<1>3. ASSUME NEW e \in Events, KeyExpires(e) PROVE TypeOK'
  BY <1>3 DEF KeyExpires, workerVars, TypeOK, QueueType, WorkerType,
              RecordType, BrokerState, WorkerState
<1>4. ASSUME NEW w \in Workers, Receive(w) PROVE TypeOK'
  BY <1>4 DEF Receive, Goto, storeVars, TypeOK, QueueType, WorkerType,
              RecordType, BrokerState, WorkerState
<1>5. ASSUME NEW w \in Workers, RejectMalformed(w) PROVE TypeOK'
  BY <1>5 DEF RejectMalformed, Goto, Return, Answer, storeVars, TypeOK,
              QueueType, WorkerType, RecordType, BrokerState, WorkerState
<1>6. ASSUME NEW w \in Workers, LookupFails(w) PROVE TypeOK'
  <2>1. QueueType'
    BY <1>6 DEF LookupFails, Answer, storeVars, TypeOK, QueueType,
                BrokerState
  <2>2. WorkerType'
    BY <1>6 DEF LookupFails, Goto, Return, storeVars, TypeOK, WorkerType,
                WorkerState
  <2>3. RecordType'
    BY <1>6 DEF LookupFails, storeVars, TypeOK, RecordType
  <2> QED
    BY <2>1, <2>2, <2>3 DEF TypeOK
<1>7. ASSUME NEW w \in Workers, SkipDuplicate(w) PROVE TypeOK'
  BY <1>7 DEF SkipDuplicate, Goto, Return, Answer, IsDuplicate, storeVars,
              TypeOK, QueueType, WorkerType, RecordType, BrokerState,
              WorkerState
<1>8. ASSUME NEW w \in Workers, BeginSending(w) PROVE TypeOK'
  BY <1>8 DEF BeginSending, Goto, IsDuplicate, storeVars, TypeOK, QueueType,
              WorkerType, RecordType, BrokerState, WorkerState
<1>9. ASSUME NEW w \in Workers, SendSucceeds(w) PROVE TypeOK'
  <2>1. QueueType'
    BY <1>9 DEF SendSucceeds, storeVars, TypeOK, QueueType, BrokerState
  <2>2. WorkerType'
    BY <1>9 DEF SendSucceeds, Goto, storeVars, TypeOK, WorkerType,
                WorkerState
  <2>3. RecordType'
    BY <1>9 DEF SendSucceeds, storeVars, TypeOK, RecordType, Goto,
                WorkerType, Custody, HeldInProcess
  <2> QED
    BY <2>1, <2>2, <2>3 DEF TypeOK
<1>10. ASSUME NEW w \in Workers, SendFails(w) PROVE TypeOK'
  BY <1>10 DEF SendFails, Goto, storeVars, TypeOK, QueueType, WorkerType,
               RecordType, BrokerState, WorkerState
<1>11. ASSUME NEW w \in Workers, GiveUp(w) PROVE TypeOK'
  <2>1. QueueType'
    BY <1>11 DEF GiveUp, Answer, storeVars, TypeOK, QueueType, BrokerState
  <2>2. WorkerType'
    BY <1>11 DEF GiveUp, Goto, Return, storeVars, TypeOK, WorkerType,
                 WorkerState
  <2>3. RecordType'
    BY <1>11 DEF GiveUp, storeVars, TypeOK, RecordType
  <2> QED
    BY <2>1, <2>2, <2>3 DEF TypeOK
<1>12. ASSUME NEW w \in Workers, MarkRedis(w) PROVE TypeOK'
  <2>1. QueueType'
    BY <1>12 DEF MarkRedis, TypeOK, QueueType, BrokerState
  <2>2. WorkerType'
    BY <1>12 DEF MarkRedis, Goto, TypeOK, WorkerType, WorkerState
  <2>3. RecordType'
    BY <1>12 DEF MarkRedis, TypeOK, RecordType, Goto, WorkerType, Custody,
                 HeldInProcess
  <2> QED
    BY <2>1, <2>2, <2>3 DEF TypeOK
<1>13. ASSUME NEW w \in Workers, MarkRedisFails(w) PROVE TypeOK'
  BY <1>13 DEF MarkRedisFails, Goto, storeVars, TypeOK, QueueType,
               WorkerType, RecordType, BrokerState, WorkerState
<1>14. ASSUME NEW w \in Workers, MarkPostgres(w) PROVE TypeOK'
  <2>1. QueueType'
    BY <1>14 DEF MarkPostgres, TypeOK, QueueType, BrokerState
  <2>2. WorkerType'
    BY <1>14 DEF MarkPostgres, Goto, TypeOK, WorkerType, WorkerState
  <2>3. RecordType'
    BY <1>14 DEF MarkPostgres, TypeOK, RecordType, Goto, WorkerType,
                 Custody, HeldInProcess
  <2> QED
    BY <2>1, <2>2, <2>3 DEF TypeOK
<1>15. ASSUME NEW w \in Workers, Ack(w) PROVE TypeOK'
  <2>1. QueueType'
    BY <1>15 DEF Ack, Answer, storeVars, TypeOK, QueueType, BrokerState
  <2>2. WorkerType'
    BY <1>15 DEF Ack, Goto, Return, storeVars, TypeOK, WorkerType,
                 WorkerState
  <2>3. RecordType'
    BY <1>15 DEF Ack, storeVars, TypeOK, RecordType
  <2> QED
    BY <2>1, <2>2, <2>3 DEF TypeOK
<1>16. ASSUME NEW w \in Workers, WorkerStops(w) PROVE TypeOK'
  BY <1>16 DEF WorkerStops, Goto, storeVars, TypeOK, QueueType, WorkerType,
               RecordType, BrokerState, WorkerState
<1>17. CASE ConnectionLost
  <2>1. QueueType'
    BY <1>17 DEF ConnectionLost, Requeued, workerVars, storeVars, TypeOK,
                 QueueType, BrokerState
  <2>2. WorkerType'
    BY <1>17 DEF ConnectionLost, workerVars, storeVars, TypeOK, WorkerType,
                 WorkerState
  <2>3. RecordType'
    BY <1>17 DEF ConnectionLost, workerVars, storeVars, TypeOK, RecordType
  <2> QED
    BY <2>1, <2>2, <2>3 DEF TypeOK
<1>18. CASE Start
  BY <1>18 DEF Start, storeVars, TypeOK, QueueType, WorkerType, RecordType,
               BrokerState, WorkerState
<1>19. CASE Shutdown
  BY <1>19 DEF Shutdown, workerVars, storeVars, TypeOK, QueueType,
               WorkerType, RecordType, BrokerState, WorkerState
<1>20. CASE Exit
  <2>1. QueueType'
    BY <1>20 DEF Exit, ProcessEnds, Requeued, storeVars, TypeOK, QueueType,
                 BrokerState
  <2>2. WorkerType'
    BY <1>20 DEF Exit, ProcessEnds, storeVars, TypeOK, WorkerType,
                 WorkerState
  <2>3. RecordType'
    BY <1>20 DEF Exit, ProcessEnds, storeVars, TypeOK, RecordType
  <2> QED
    BY <2>1, <2>2, <2>3 DEF TypeOK
<1>21. CASE Crash
  <2>1. QueueType'
    BY <1>21 DEF Crash, ProcessEnds, Requeued, storeVars, TypeOK, QueueType,
                 BrokerState
  <2>2. WorkerType'
    BY <1>21 DEF Crash, ProcessEnds, storeVars, TypeOK, WorkerType,
                 WorkerState
  <2>3. RecordType'
    BY <1>21 DEF Crash, ProcessEnds, storeVars, TypeOK, RecordType
  <2> QED
    BY <2>1, <2>2, <2>3 DEF TypeOK
<1>22. CASE UNCHANGED vars
  BY <1>22 DEF vars, workerVars, storeVars, TypeOK, QueueType, WorkerType,
               RecordType, BrokerState, WorkerState
<1> QED
  BY <1>1, <1>2, <1>3, <1>4, <1>5, <1>6, <1>7, <1>8, <1>9, <1>10, <1>11,
     <1>12, <1>13, <1>14, <1>15, <1>16, <1>17, <1>18, <1>19, <1>20, <1>21,
     <1>22
     DEF Next, WorkerStep, Handle

--------------------------------------------------------------------------
(* Custody. *)

\* Before the process first starts nothing is in anybody's hands.
LEMMA CustodyInit == Init => Custody
  BY DEF Init, Custody, OneHolder, NoLeakedDelivery, HeldInProcess,
         PrefetchedInProcess, StoppedIsEmpty

\* Every step keeps an event in one pair of hands and the broker informed.
LEMMA CustodyStep == TypeOK /\ Custody /\ [Next]_vars => Custody'
<1> SUFFICES ASSUME TypeOK, Custody, [Next]_vars PROVE Custody'
  OBVIOUS
<1> USE DEF TypeOK, QueueType, WorkerType, Custody, OneHolder, NoLeakedDelivery,
            HeldInProcess, PrefetchedInProcess, StoppedIsEmpty, InProcess
<1>1. ASSUME NEW e \in Events, Publish(e) PROVE Custody'
  BY <1>1 DEF Publish, workerVars, storeVars
<1>2. ASSUME NEW e \in Events, Deliver(e) PROVE Custody'
  BY <1>2 DEF Deliver, workerVars, storeVars
<1>3. ASSUME NEW e \in Events, KeyExpires(e) PROVE Custody'
  BY <1>3 DEF KeyExpires, workerVars
<1>4. ASSUME NEW w \in Workers, Receive(w) PROVE Custody'
  BY <1>4 DEF Receive, Goto, storeVars
<1>5. ASSUME NEW w \in Workers, RejectMalformed(w) PROVE Custody'
  BY <1>5 DEF RejectMalformed, Goto, Return, Answer, storeVars
<1>6. ASSUME NEW w \in Workers, LookupFails(w) PROVE Custody'
  BY <1>6 DEF LookupFails, Goto, Return, Answer, storeVars
<1>7. ASSUME NEW w \in Workers, SkipDuplicate(w) PROVE Custody'
  BY <1>7 DEF SkipDuplicate, Goto, Return, Answer, IsDuplicate, storeVars
<1>8. ASSUME NEW w \in Workers, BeginSending(w) PROVE Custody'
  BY <1>8 DEF BeginSending, Goto, IsDuplicate, storeVars
<1>9. ASSUME NEW w \in Workers, SendSucceeds(w) PROVE Custody'
  BY <1>9 DEF SendSucceeds, Goto, storeVars
<1>10. ASSUME NEW w \in Workers, SendFails(w) PROVE Custody'
  BY <1>10 DEF SendFails, Goto, storeVars
<1>11. ASSUME NEW w \in Workers, GiveUp(w) PROVE Custody'
  BY <1>11 DEF GiveUp, Goto, Return, Answer, storeVars
<1>12. ASSUME NEW w \in Workers, MarkRedis(w) PROVE Custody'
  BY <1>12 DEF MarkRedis, Goto
<1>13. ASSUME NEW w \in Workers, MarkRedisFails(w) PROVE Custody'
  BY <1>13 DEF MarkRedisFails, Goto, storeVars
<1>14. ASSUME NEW w \in Workers, MarkPostgres(w) PROVE Custody'
  BY <1>14 DEF MarkPostgres, Goto
<1>15. ASSUME NEW w \in Workers, Ack(w) PROVE Custody'
  BY <1>15 DEF Ack, Goto, Return, Answer, storeVars
<1>16. ASSUME NEW w \in Workers, WorkerStops(w) PROVE Custody'
  BY <1>16 DEF WorkerStops, Goto, storeVars
<1>17. CASE ConnectionLost
  BY <1>17 DEF ConnectionLost, Requeued, workerVars, storeVars
<1>18. CASE Start
  BY <1>18 DEF Start, storeVars
<1>19. CASE Shutdown
  BY <1>19 DEF Shutdown, workerVars, storeVars
<1>20. CASE Exit
  BY <1>20 DEF Exit, ProcessEnds, Requeued, storeVars
<1>21. CASE Crash
  BY <1>21 DEF Crash, ProcessEnds, Requeued, storeVars
<1>22. CASE UNCHANGED vars
  BY <1>22 DEF vars, workerVars, storeVars
<1> QED
  BY <1>1, <1>2, <1>3, <1>4, <1>5, <1>6, <1>7, <1>8, <1>9, <1>10, <1>11,
     <1>12, <1>13, <1>14, <1>15, <1>16, <1>17, <1>18, <1>19, <1>20, <1>21,
     <1>22
     DEF Next, WorkerStep, Handle

--------------------------------------------------------------------------
(* Window. *)

\* Nothing is handed over before the start, when there is no pool either.
LEMMA WindowInit == Init => Window
<1> SUFFICES ASSUME Init PROVE Window
  OBVIOUS
<1>1. Unacked = {}
  BY DEF Init, Unacked
<1>2. WindowKept
  <2>1. Cardinality(Workers) \in Nat
    BY FS_CardinalityType
  <2> QED
    BY <1>1, <2>1, FS_EmptySet DEF WindowKept
<1> QED
  BY <1>2 DEF Init, Window, PoolRuns

\* A step after which the broker waits for no more answers than before keeps
\* the window.
LEMMA FewerUnacked == WindowKept /\ Unacked' \subseteq Unacked => WindowKept'
<1> SUFFICES ASSUME WindowKept, Unacked' \subseteq Unacked PROVE WindowKept'
  OBVIOUS
<1>1. IsFiniteSet(Unacked') /\ Cardinality(Unacked') <= Cardinality(Unacked)
  BY FS_Subset DEF WindowKept
<1>2. /\ Cardinality(Unacked') \in Nat
      /\ Cardinality(Unacked) \in Nat
      /\ Cardinality(Workers) \in Nat
  BY <1>1, FS_CardinalityType DEF WindowKept
<1> QED
  BY <1>1, <1>2 DEF WindowKept

\* An answer makes nothing unacknowledged.
LEMMA AnswerUnacks ==
  ASSUME TypeOK, NEW w \in Workers, NEW to \in {"ready", "acked", "dead"},
         Answer(w, to)
  PROVE  Unacked' \subseteq Unacked
  BY DEF Answer, Unacked, TypeOK, QueueType

\* Only a push of the broker fills the window, and it looks at it first.
LEMMA WindowKeptStep == TypeOK /\ WindowKept /\ [Next]_vars => WindowKept'
<1> SUFFICES ASSUME TypeOK, WindowKept, [Next]_vars PROVE WindowKept'
  OBVIOUS
<1>1. ASSUME NEW e \in Events, Deliver(e) PROVE WindowKept'
  <2>1. Unacked' = Unacked \cup {e} /\ e \notin Unacked
    BY <1>1 DEF Deliver, Unacked, TypeOK, QueueType
  <2>2. /\ IsFiniteSet(Unacked')
        /\ Cardinality(Unacked') = Cardinality(Unacked) + 1
    BY <2>1, FS_AddElement DEF WindowKept
  <2>3. Cardinality(Unacked) \in Nat /\ Cardinality(Workers) \in Nat
    BY FS_CardinalityType DEF WindowKept
  <2> QED
    BY <1>1, <2>2, <2>3 DEF Deliver, WithinPrefetch, WindowKept
<1>2. ASSUME NEW e \in Events, Publish(e) \/ KeyExpires(e) PROVE WindowKept'
  BY <1>2, FewerUnacked DEF Publish, KeyExpires, Unacked, TypeOK, QueueType
<1>3. ASSUME NEW w \in Workers, WorkerStep(w) PROVE WindowKept'
  <2>1. CASE UNCHANGED broker
    BY <2>1, FewerUnacked DEF Unacked
  <2>2. CASE \/ RejectMalformed(w) \/ LookupFails(w) \/ SkipDuplicate(w)
             \/ GiveUp(w) \/ Ack(w)
    BY <2>2, FewerUnacked, AnswerUnacks DEF RejectMalformed, LookupFails,
       SkipDuplicate, GiveUp, Ack
  <2> QED
    BY <1>3, <2>1, <2>2 DEF WorkerStep, Handle, Receive, BeginSending,
       SendSucceeds, SendFails, MarkRedis, MarkRedisFails, MarkPostgres,
       WorkerStops
<1>4. CASE ConnectionLost \/ Exit \/ Crash
  BY <1>4, FewerUnacked DEF ConnectionLost, Exit, Crash, ProcessEnds, Requeued,
     Unacked
<1>5. CASE Start \/ Shutdown \/ UNCHANGED vars
  BY <1>5, FewerUnacked DEF Start, Shutdown, vars, Unacked
<1> QED
  BY <1>1, <1>2, <1>3, <1>4, <1>5 DEF Next

\* While the process runs connected no worker has a reason to stop.
LEMMA PoolRunsStep == TypeOK /\ Custody /\ PoolRuns /\ [Next]_vars => PoolRuns'
<1> SUFFICES ASSUME TypeOK, Custody, PoolRuns, [Next]_vars PROVE PoolRuns'
  OBVIOUS
<1> USE DEF TypeOK, QueueType, WorkerType, Custody, StoppedIsEmpty, PoolRuns
<1>1. CASE UNCHANGED <<mode, connected, pc>>
  BY <1>1
<1>2. ASSUME NEW w \in Workers, WorkerStep(w) PROVE PoolRuns'
  BY <1>2 DEF WorkerStep, Handle, Receive, RejectMalformed, LookupFails,
     SkipDuplicate, BeginSending, SendSucceeds, SendFails, GiveUp, MarkRedis,
     MarkRedisFails, MarkPostgres, Ack, WorkerStops, Return, Goto
<1>3. CASE ConnectionLost \/ Start \/ Shutdown \/ Exit \/ Crash
  BY <1>3 DEF ConnectionLost, Start, Shutdown, Exit, Crash, ProcessEnds
<1> QED
  BY <1>1, <1>2, <1>3 DEF Next, Publish, Deliver, KeyExpires, workerVars, vars

\* Every step keeps to the window, and the pool running.
LEMMA WindowStep == TypeOK /\ Custody /\ Window /\ [Next]_vars => Window'
  BY WindowKeptStep, PoolRunsStep DEF Window

--------------------------------------------------------------------------
(* Records. *)

\* At the start nothing was sent and nothing is recorded.
LEMMA RecordsInit == Init => Records
  BY DEF Init, Records, DuplicatesAccounted, UnrecordedAccounted, Unrecorded,
         CheckStaysRight, NotifiedWhenRecorded, MalformedUnsent,
         AckedMeansNotified, DeadLettersUnsent

\* Every step keeps the emails sent and the records of them in balance.
LEMMA RecordsStep == TypeOK /\ Custody /\ Records /\ [Next]_vars => Records'
<1> SUFFICES ASSUME TypeOK, Custody, Records, [Next]_vars PROVE Records'
  OBVIOUS
<1> USE DEF TypeOK, QueueType, WorkerType, RecordType, Custody, OneHolder,
            HeldInProcess, StoppedIsEmpty, Records, DuplicatesAccounted,
            UnrecordedAccounted, Unrecorded, CheckStaysRight,
            NotifiedWhenRecorded, MalformedUnsent, AckedMeansNotified,
            DeadLettersUnsent
<1>1. ASSUME NEW e \in Events, Publish(e) PROVE Records'
  BY <1>1 DEF Publish, workerVars, storeVars
<1>2. ASSUME NEW e \in Events, Deliver(e) PROVE Records'
  BY <1>2 DEF Deliver, workerVars, storeVars
<1>3. ASSUME NEW e \in Events, KeyExpires(e) PROVE Records'
  BY <1>3 DEF KeyExpires, workerVars
<1>4. ASSUME NEW w \in Workers, Receive(w) PROVE Records'
  BY <1>4 DEF Receive, Goto, storeVars
<1>5. ASSUME NEW w \in Workers, RejectMalformed(w) PROVE Records'
  BY <1>5 DEF RejectMalformed, Goto, Return, Answer, storeVars
<1>6. ASSUME NEW w \in Workers, LookupFails(w) PROVE Records'
  BY <1>6 DEF LookupFails, Goto, Return, Answer, storeVars
<1>7. ASSUME NEW w \in Workers, SkipDuplicate(w) PROVE Records'
  BY <1>7 DEF SkipDuplicate, Goto, Return, Answer, IsDuplicate, storeVars
<1>8. ASSUME NEW w \in Workers, BeginSending(w) PROVE Records'
  BY <1>8 DEF BeginSending, Goto, IsDuplicate, storeVars
<1>9. ASSUME NEW w \in Workers, SendSucceeds(w) PROVE Records'
  <2>1. job[w] \in Events /\ broker[job[w]] \in {"ready", "unacked"}
    BY <1>9 DEF SendSucceeds, Goto, InProcess
  <2>2. /\ emails' = [emails EXCEPT ![job[w]] = @ + 1]
        /\ pc' = [pc EXCEPT ![w] = "marking"]
        /\ UNCHANGED <<broker, job, processed, forgets>>
    BY <1>9 DEF SendSucceeds, Goto, storeVars
  <2>3. DeadLettersUnsent' /\ AckedMeansNotified'
    BY <2>1, <2>2
  <2>4. MalformedUnsent'
    BY <1>9, <2>1, <2>2 DEF SendSucceeds, Goto
  <2>5. CheckStaysRight' /\ NotifiedWhenRecorded'
    BY <2>1, <2>2
  <2>6. DuplicatesAccounted' /\ UnrecordedAccounted'
    BY <1>9, <2>1, <2>2 DEF SendSucceeds, Goto
  <2> QED
    BY <2>3, <2>4, <2>5, <2>6
<1>10. ASSUME NEW w \in Workers, SendFails(w) PROVE Records'
  BY <1>10 DEF SendFails, Goto, storeVars
<1>11. ASSUME NEW w \in Workers, GiveUp(w) PROVE Records'
  BY <1>11 DEF GiveUp, Goto, Return, Answer, storeVars
<1>12. ASSUME NEW w \in Workers, MarkRedis(w) PROVE Records'
  BY <1>12 DEF MarkRedis, Goto
<1>13. ASSUME NEW w \in Workers, MarkRedisFails(w) PROVE Records'
  BY <1>13 DEF MarkRedisFails, Goto, storeVars
<1>14. ASSUME NEW w \in Workers, MarkPostgres(w) PROVE Records'
  BY <1>14 DEF MarkPostgres, Goto
<1>15. ASSUME NEW w \in Workers, Ack(w) PROVE Records'
  BY <1>15 DEF Ack, Goto, Return, Answer, storeVars
<1>16. ASSUME NEW w \in Workers, WorkerStops(w) PROVE Records'
  BY <1>16 DEF WorkerStops, Goto, storeVars
<1>17. CASE ConnectionLost
  BY <1>17 DEF ConnectionLost, Requeued, workerVars, storeVars
<1>18. CASE Start
  BY <1>18 DEF Start, storeVars
<1>19. CASE Shutdown
  BY <1>19 DEF Shutdown, workerVars, storeVars
<1>20. CASE Exit
  BY <1>20 DEF Exit, ProcessEnds, Requeued, storeVars
<1>21. CASE Crash
  BY <1>21 DEF Crash, ProcessEnds, Requeued, storeVars
<1>22. CASE UNCHANGED vars
  BY <1>22 DEF vars, workerVars, storeVars
<1> QED
  BY <1>1, <1>2, <1>3, <1>4, <1>5, <1>6, <1>7, <1>8, <1>9, <1>10, <1>11,
     <1>12, <1>13, <1>14, <1>15, <1>16, <1>17, <1>18, <1>19, <1>20, <1>21,
     <1>22
     DEF Next, WorkerStep, Handle

\* The inductive invariant holds in every behaviour.
THEOREM Invariance == Spec => []IInv
<1>1. Init => IInv
  BY TypeInit, CustodyInit, WindowInit, RecordsInit DEF IInv
<1>2. IInv /\ [Next]_vars => IInv'
  BY TypeStep, CustodyStep, WindowStep, RecordsStep DEF IInv
<1> QED
  BY <1>1, <1>2, PTL DEF Spec

--------------------------------------------------------------------------
(* What follows from it. *)

\* Every variable keeps its type; in particular sendWithRetry never makes more
\* than maxRetries attempts.
THEOREM TypeCorrect == Spec => []TypeOK
  BY Invariance, PTL DEF IInv

\* Two workers never hold one event.
THEOREM OneHolderHolds == Spec => []OneHolder
  BY Invariance, PTL DEF IInv, Custody

\* No handler path leaks an unacknowledged message.
THEOREM NoLeak == Spec => []NoLeakedDelivery
  BY Invariance, PTL DEF IInv, Custody

\* A delivery in a running process finds an idle worker.  Were all at work,
\* each would hold another unacknowledged event, and the delivery would be one
\* more than the window allows.
THEOREM DeliveryFindsWorker == Spec => []WorkerForDelivery
<1>1. IInv => WorkerForDelivery
  <2> SUFFICES ASSUME IInv, mode = "running", connected, Workers # {},
                      NEW p \in prefetched,
                      \A w \in Workers : pc[w] # "select"
               PROVE  FALSE
    BY DEF WorkerForDelivery
  <2> DEFINE Others == Unacked \ {p}
  <2>1. \A w \in Workers : job[w] # NoEvent /\ job[w] \in Others
    BY DEF IInv, TypeOK, QueueType, WorkerType, Custody, OneHolder,
       HeldInProcess, InProcess, Window, PoolRuns, Unacked
  <2>2. job \in Injection(Workers, Others)
    BY <2>1 DEF IInv, TypeOK, WorkerType, Custody, OneHolder, Injection,
       IsInjective
  <2>3. IsFiniteSet(Unacked) /\ p \in Unacked
    BY DEF IInv, TypeOK, QueueType, Custody, PrefetchedInProcess, InProcess,
       Window, WindowKept, Unacked
  <2>4. IsFiniteSet(Others) /\ Cardinality(Others) = Cardinality(Unacked) - 1
    BY <2>3, FS_RemoveElement
  <2>5. Cardinality(Workers) <= Cardinality(Others)
    BY <2>2, <2>4, FS_Injection
  <2>6. Cardinality(Unacked) <= Cardinality(Workers)
    BY DEF IInv, Window, WindowKept
  <2> QED
    BY <2>3, <2>4, <2>5, <2>6, FS_CardinalityType
<1> QED
  BY Invariance, <1>1, PTL

\* At-least-once: an acknowledged event was notified.
THEOREM AtLeastOnce == Spec => []AckedMeansNotified
  BY Invariance, PTL DEF IInv, Records

\* A customer gets at most one email more than the service forgot.
THEOREM DuplicatesBounded == Spec => []DuplicatesAccounted
  BY Invariance, PTL DEF IInv, Records

\* What is in the dead-letter queue was not notified, unless that was forgotten.
THEOREM DeadLettersReplayable == Spec => []DeadLettersUnsent
  BY Invariance, PTL DEF IInv, Records

\* No email goes out for an event whose key is in Redis at that moment.
THEOREM CheckNeverStale == Spec => NeverSentAfterMark
<1>1. IInv /\ [Next]_vars => [\A e \in processed : emails'[e] = emails[e]]_vars
  <2> SUFFICES ASSUME IInv, Next
               PROVE  \A e \in processed : emails'[e] = emails[e]
    BY DEF IInv
  <2>1. ASSUME NEW w \in Workers, SendSucceeds(w)
        PROVE  \A e \in processed : emails'[e] = emails[e]
    BY <2>1 DEF SendSucceeds, Goto, IInv, TypeOK, WorkerType, RecordType,
                Records, CheckStaysRight
  <2>2. CASE UNCHANGED emails
    BY <2>2
  <2> QED
    BY <2>1, <2>2 DEF Next, WorkerStep, Handle, Publish, Deliver, KeyExpires,
       Receive, RejectMalformed, LookupFails, SkipDuplicate, BeginSending,
       SendFails, GiveUp, MarkRedis, MarkRedisFails, MarkPostgres, Ack,
       WorkerStops, ConnectionLost, Start, Shutdown, Exit, Crash
<1> QED
  BY Invariance, <1>1, PTL DEF Spec, NeverSentAfterMark

--------------------------------------------------------------------------
(* Refinement of NotificationDelivery. *)

\* Nothing the abstract specification sees has changed.
LEMMA Stutter ==
  ASSUME UNCHANGED <<Status, emails, forgets>>
  PROVE  [Delivery!Next]_(Delivery!vars)
  BY DEF Delivery!vars

\* A handler that answers its delivery leaves every other event where it was.
LEMMA AnswerStatus ==
  ASSUME TypeOK, Custody, NEW w \in Workers, job[w] # NoEvent,
         NEW to \in {"ready", "acked", "dead"}, Answer(w, to)
  PROVE  /\ job[w] \in Events
         /\ Status[job[w]] = "pending"
         /\ to = "ready" => Status' = Status
         /\ to = "acked" =>
              Status' \in {Status, [Status EXCEPT ![job[w]] = "done"]}
         /\ to = "dead" =>
              Status' \in {Status, [Status EXCEPT ![job[w]] = "dead"]}
<1>1. job[w] \in Events /\ InProcess(job[w])
  BY DEF TypeOK, WorkerType, Custody, HeldInProcess
<1>2. CASE ~connected
  BY <1>1, <1>2 DEF Answer, Status, InProcess
<1>3. CASE connected
  <2>1. broker[job[w]] = "unacked" /\ broker' = [broker EXCEPT ![job[w]] = to]
    BY <1>1, <1>3 DEF Answer, InProcess
  <2> QED
    BY <1>1, <2>1 DEF Status, TypeOK, QueueType
<1> QED
  BY <1>2, <1>3 DEF TypeOK, QueueType

\* Nothing unforgotten was sent for an event whose sending goes on.
LEMMA SenderUnaccounted ==
  ASSUME IInv, NEW w \in Workers, pc[w] = "sending"
  PROVE  emails[job[w]] <= forgets
<1>1. job[w] \in Events
  BY DEF IInv, TypeOK, WorkerType, Custody, HeldInProcess
<1>2. \A v \in Workers : job[v] = job[w] => pc[v] # "marking"
  BY <1>1 DEF IInv, Custody, OneHolder, TypeOK, WorkerType
<1> QED
  BY <1>1, <1>2 DEF IInv, Records, CheckStaysRight, UnrecordedAccounted, Unrecorded

\* Every step of the service is a step of NotificationDelivery or invisible.
LEMMA StepRefines == IInv /\ [Next]_vars => [Delivery!Next]_(Delivery!vars)
<1> SUFFICES ASSUME IInv, [Next]_vars PROVE [Delivery!Next]_(Delivery!vars)
  OBVIOUS
<1> USE DEF IInv
<1>1. ASSUME NEW e \in Events, Publish(e) PROVE Delivery!Publish(e)
  BY <1>1 DEF Publish, Delivery!Publish, Status, TypeOK, QueueType
<1>2. ASSUME NEW w \in Workers, SendSucceeds(w) PROVE Delivery!Notify(job[w])
  <2>1. job[w] \in Events /\ InProcess(job[w])
    BY <1>2 DEF SendSucceeds, Goto, TypeOK, WorkerType, Custody, HeldInProcess
  <2>2. emails[job[w]] <= forgets
    BY <1>2, SenderUnaccounted DEF SendSucceeds, Goto
  <2> QED
    BY <1>2, <2>1, <2>2 DEF SendSucceeds, Delivery!Notify, Status, InProcess
<1>3. ASSUME NEW w \in Workers, SkipDuplicate(w) \/ Ack(w)
      PROVE  [Delivery!Complete(job[w])]_(Delivery!vars)
  <2>1. job[w] # NoEvent /\ Answer(w, "acked") /\ UNCHANGED <<emails, forgets>>
    BY <1>3 DEF SkipDuplicate, Ack, Return, Goto, Custody, HeldInProcess
  <2>2. emails[job[w]] >= 1
    BY <1>3 DEF SkipDuplicate, IsDuplicate, Ack, Return, Goto, Records,
       NotifiedWhenRecorded
  <2> QED
    BY <2>1, <2>2, AnswerStatus DEF Delivery!Complete, Delivery!vars
<1>4. ASSUME NEW w \in Workers, RejectMalformed(w) \/ GiveUp(w)
      PROVE  [Delivery!Abandon(job[w])]_(Delivery!vars)
  <2>1. job[w] # NoEvent /\ Answer(w, "dead") /\ UNCHANGED <<emails, forgets>>
    BY <1>4 DEF RejectMalformed, GiveUp, Return, Goto, Custody, HeldInProcess
  <2>2. emails[job[w]] <= forgets
    <3>1. CASE RejectMalformed(w)
      BY <3>1 DEF RejectMalformed, Records, MalformedUnsent, TypeOK, RecordType
    <3>2. CASE GiveUp(w)
      BY <3>2, SenderUnaccounted DEF GiveUp, Return, Goto
    <3> QED
      BY <1>4, <3>1, <3>2
  <2> QED
    BY <2>1, <2>2, AnswerStatus DEF Delivery!Abandon, Delivery!vars
<1>5. ASSUME NEW w \in Workers, LookupFails(w)
      PROVE  UNCHANGED <<Status, emails, forgets>>
  BY <1>5, AnswerStatus DEF LookupFails, Return, Goto, Custody, HeldInProcess
<1>6. ASSUME NEW e \in Events, Deliver(e)
      PROVE  UNCHANGED <<Status, emails, forgets>>
  BY <1>6 DEF Deliver, Status, TypeOK, QueueType
<1>7. ConnectionLost => UNCHANGED <<Status, emails, forgets>>
  BY DEF ConnectionLost, Requeued, Status
<1>8. Exit => UNCHANGED <<Status, emails, forgets>>
  BY DEF Exit, ProcessEnds, Requeued, Status
<1>9. Crash => Delivery!Lose
  BY DEF Crash, ProcessEnds, Requeued, Status, Delivery!Lose
<1>10. ASSUME NEW w \in Workers, MarkRedisFails(w) PROVE Delivery!Lose
  BY <1>10 DEF MarkRedisFails, Status, Delivery!Lose
<1>11. ASSUME NEW e \in Events, KeyExpires(e) PROVE Delivery!Lose
  BY <1>11 DEF KeyExpires, Status, Delivery!Lose
<1>12. CASE UNCHANGED <<broker, emails, forgets>>
  BY <1>12, Stutter DEF Status
<1>13. ASSUME NEW w \in Workers, WorkerStep(w)
       PROVE  [Delivery!Next]_(Delivery!vars)
  <2>1. job[w] # NoEvent => job[w] \in Events
    BY DEF TypeOK, WorkerType
  <2>2. CASE SendSucceeds(w)
    BY <1>2, <2>1, <2>2 DEF Delivery!Next, SendSucceeds, Goto, Custody,
       HeldInProcess
  <2>3. CASE SkipDuplicate(w) \/ Ack(w)
    BY <1>3, <2>1, <2>3 DEF Delivery!Next, SkipDuplicate, Ack, Return, Goto,
       Custody, HeldInProcess
  <2>4. CASE RejectMalformed(w) \/ GiveUp(w)
    BY <1>4, <2>1, <2>4 DEF Delivery!Next, RejectMalformed, GiveUp, Return, Goto,
       Custody, HeldInProcess
  <2>5. CASE LookupFails(w)
    BY <1>5, <2>5, Stutter
  <2>6. CASE MarkRedisFails(w)
    BY <1>10, <2>6 DEF Delivery!Next
  <2>7. CASE \/ Receive(w) \/ BeginSending(w) \/ SendFails(w) \/ MarkRedis(w)
             \/ MarkPostgres(w) \/ WorkerStops(w)
    BY <1>12, <2>7 DEF Receive, BeginSending, SendFails, MarkRedis, MarkPostgres,
       WorkerStops
  <2> QED
    BY <1>13, <2>2, <2>3, <2>4, <2>5, <2>6, <2>7 DEF WorkerStep, Handle
<1>14. CASE Start \/ Shutdown \/ UNCHANGED vars
  BY <1>12, <1>14 DEF Start, Shutdown, vars
<1>15. CASE ConnectionLost \/ Exit
  BY <1>7, <1>8, <1>15, Stutter
<1>16. CASE Crash
  BY <1>9, <1>16 DEF Delivery!Next
<1>17. CASE \E e \in Events : Publish(e) \/ Deliver(e) \/ KeyExpires(e)
  BY <1>1, <1>6, <1>11, <1>17, Stutter DEF Delivery!Next
<1> QED
  BY <1>13, <1>14, <1>15, <1>16, <1>17 DEF Next

\* The worker pool, with its broker, stores and failures, implements
\* NotificationDelivery.
THEOREM Implements == Spec => DeliverySpec
<1>1. Init => Delivery!Init
  BY DEF Init, Delivery!Init, Status
<1> QED
  BY Invariance, <1>1, StepRefines, PTL DEF Spec, DeliverySpec, Delivery!Spec

==========================================================================
