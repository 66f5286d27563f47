----------------------- MODULE OrderHandler_proofs -----------------------
(***************************************************************************)
(* Theorems about OrderHandler for any orders, readers, time-to-live and   *)
(* bound on the faults.  The inductive invariant says, besides the types:  *)
(*                                                                         *)
(*   Lifecycle  what runs when the process is down, or without its cache;  *)
(*   Progress   what each place of a CreateOrder call knows of its row;    *)
(*   Copies     what a cached or a carried status may be, and what it      *)
(*              takes for one to be out of date.                           *)
(***************************************************************************)
EXTENDS OrderHandler, TLAPS

USE OrderAssumption DEF OrderAssumption

--------------------------------------------------------------------------
(* The inductive invariant. *)

\* Nothing is under way in a process that is down, and nothing is or will be
\* in the cache of an order whose handler runs without one.
Lifecycle ==
  /\ mode = "down" =>
       /\ ~caching
       /\ \A o \in Orders : ~InFlight(o)
       /\ \A r \in Readers : target[r] = NoOrder
  /\ \A r \in Readers : seen[r] # "none" => caching /\ target[r] # NoOrder
  /\ ~caching => \A o \in Orders : InFlight(o) => entry[o] = "none"

\* What is known of the row at each place of CreateOrder.
Progress ==
  \A o \in Orders :
    /\ call[o] = "new" => row[o] = "none" /\ reply[o] = "none"
    /\ call[o] = "paying" => row[o] = "pending" /\ reply[o] = "none"
    /\ call[o] = "updating" => row[o] = "pending" /\ reply[o] # "none"
    /\ call[o] \in {"invalidating", "returned"} => reply[o] # "none"
    /\ call[o] \in {"invalidating", "returned", "failed"} /\ reply[o] # "none" =>
         row[o] = FinalStatus(o) \/ (o \in lostUpdates /\ row[o] = "pending")

\* A status that a key holds or a fill carries was the row's at some time; one
\* that is out of date belongs to a call about to delete it, or has a cause.
Copies ==
  /\ CacheNeverAhead
  /\ \A r \in Readers : seen[r] # "none" =>
       /\ row[target[r]] # "none"
       /\ seen[r] # "pending" => seen[r] = row[target[r]]
  /\ \A o \in Orders :
       Stale(o) => call[o] = "invalidating" \/ o \in missed \cup late

IInv == TypeOK /\ Lifecycle /\ Progress /\ Copies

USE DEF callVars, readVars, historyVars, processVars

--------------------------------------------------------------------------
(* Each layer is inductive. *)

\* The initial state has the right types and nothing to explain.
LEMMA InitHolds == Init => IInv
<1> SUFFICES ASSUME Init PROVE IInv
  OBVIOUS
<1> USE DEF Init
<1>1. StoreType /\ ReaderType
  BY DEF StoreType, ReaderType
<1>2. CallType
  BY DEF CallType, CallState
<1>3. caching \in BOOLEAN
  OBVIOUS
<1>4. faults \in 0 .. MaxFaults
  OBVIOUS
<1>5. ProcessType
  BY <1>3, <1>4 DEF ProcessType
<1>6. Lifecycle
  BY DEF Lifecycle, InFlight
<1>7. Progress
  BY DEF Progress
<1>8. Copies
  BY DEF Copies, CacheNeverAhead, Stale
<1> QED
  BY <1>1, <1>2, <1>5, <1>6, <1>7, <1>8 DEF IInv, TypeOK

\* Every step keeps the types.
LEMMA TypeStep == TypeOK /\ Lifecycle /\ [Next]_vars => TypeOK'
<1> SUFFICES ASSUME TypeOK, Lifecycle, [Next]_vars PROVE TypeOK'
  OBVIOUS
<1> USE DEF TypeOK, StoreType, CallType, ReaderType, ProcessType, Status,
            CallState, Ended
<1>1. ASSUME NEW o \in Orders, Insert(o) PROVE TypeOK'
  BY <1>1 DEF Insert, Accepts, Step
<1>2. ASSUME NEW o \in Orders, InsertFails(o) PROVE TypeOK'
  BY <1>2 DEF InsertFails, Accepts, Fault, Step
<1>3. ASSUME NEW o \in Orders, Cancel(o) PROVE TypeOK'
  BY <1>3 DEF Cancel, HasContext, InFlight
<1>4. ASSUME NEW o \in Orders, PaymentSucceeds(o) PROVE TypeOK'
  BY <1>4 DEF PaymentSucceeds, Step
<1>5. ASSUME NEW o \in Orders, PaymentFails(o) PROVE TypeOK'
  BY <1>5 DEF PaymentFails, Step
<1>6. ASSUME NEW o \in Orders, Update(o) PROVE TypeOK'
  BY <1>6 DEF Update, Step, FinalStatus
<1>7. ASSUME NEW o \in Orders, UpdateFails(o) PROVE TypeOK'
  BY <1>7 DEF UpdateFails, Step, Fault
<1>8. ASSUME NEW o \in Orders, Invalidate(o) PROVE TypeOK'
  BY <1>8 DEF Invalidate, Step, Returned
<1>9. ASSUME NEW o \in Orders, InvalidateFails(o) PROVE TypeOK'
  BY <1>9 DEF InvalidateFails, Step, Returned, Fault
<1>10. ASSUME NEW o \in Orders, Expire(o) PROVE TypeOK'
  BY <1>10 DEF Expire
<1>11. ASSUME NEW o \in Orders, NEW r \in Readers, Miss(r, o) PROVE TypeOK'
  BY <1>11 DEF Miss, Fault
<1>12. ASSUME NEW r \in Readers, QueryFinds(r) PROVE TypeOK'
  BY <1>12 DEF QueryFinds, Querying
<1>13. ASSUME NEW r \in Readers, QueryEnds(r) PROVE TypeOK'
  BY <1>13 DEF QueryEnds, Querying, Fault
<1>14. ASSUME NEW r \in Readers, Fill(r) PROVE TypeOK'
  <2>1. target[r] \in Orders /\ seen[r] \in Status
    BY <1>14 DEF Fill, EndFill, Filling, Lifecycle
  <2>2. StoreType' /\ CallType'
    BY <1>14, <2>1 DEF Fill
  <2>3. ReaderType'
    BY <1>14 DEF Fill, EndFill
  <2>4. ProcessType'
    BY <1>14, <2>1 DEF Fill
  <2> QED
    BY <2>2, <2>3, <2>4
<1>15. ASSUME NEW r \in Readers, FillFails(r) PROVE TypeOK'
  BY <1>15 DEF FillFails, EndFill, Filling, Fault
<1>16. CASE Start
  BY <1>16 DEF Start
<1>17. CASE Notify
  BY <1>17 DEF Notify
<1>18. CASE Sigterm
  BY <1>18 DEF Sigterm
<1>19. CASE SigtermEarly
  BY <1>19 DEF SigtermEarly, ProcessEnds, InFlight
<1>20. CASE Exit
  BY <1>20 DEF Exit, ProcessEnds, InFlight
<1>21. CASE Crash
  <2>1. StoreType' /\ CallType'
    BY <1>21 DEF Crash, ProcessEnds, InFlight
  <2>2. ReaderType'
    BY <1>21 DEF Crash, ProcessEnds
  <2>3. faults' \in 0 .. MaxFaults
    BY <1>21 DEF Crash, Fault
  <2>4. mode' = "down" /\ missed' \subseteq Orders
    BY <1>21 DEF Crash, ProcessEnds, InFlight
  <2>5. caching' \in BOOLEAN
    BY <1>21 DEF Crash, ProcessEnds
  <2>6. ProcessType'
    BY <1>21, <2>3, <2>4, <2>5 DEF Crash
  <2> QED
    BY <2>1, <2>2, <2>6
<1>22. CASE UNCHANGED vars
  <2>1. /\ row' = row /\ entry' = entry
        /\ call' = call /\ reply' = reply /\ cancelled' = cancelled
        /\ target' = target /\ seen' = seen
        /\ mode' = mode /\ faults' = faults
        /\ lostUpdates' = lostUpdates /\ missed' = missed /\ late' = late
    BY <1>22 DEF vars
  <2>2. caching' \in BOOLEAN
    BY <1>22 DEF vars
  <2> QED
    BY <2>1, <2>2
<1> QED
  BY <1>1, <1>2, <1>3, <1>4, <1>5, <1>6, <1>7, <1>8, <1>9, <1>10, <1>11,
     <1>12, <1>13, <1>14, <1>15, <1>16, <1>17, <1>18, <1>19, <1>20, <1>21,
     <1>22
     DEF Next, CreateStep, FinishStep, ReadStep

\* Every step keeps a process that is down empty, and one without a cache away
\* from it.
LEMMA LifecycleStep == TypeOK /\ Lifecycle /\ Progress /\ Copies /\ [Next]_vars => Lifecycle'
<1> SUFFICES ASSUME TypeOK, Lifecycle, Progress, Copies, [Next]_vars PROVE Lifecycle'
  OBVIOUS
<1> USE DEF TypeOK, StoreType, CallType, ReaderType, ProcessType, Status,
            CallState, Ended, Lifecycle, InFlight, Progress, Copies,
            CacheNeverAhead
<1>1. ASSUME NEW o \in Orders, Insert(o) PROVE Lifecycle'
  BY <1>1 DEF Insert, Accepts, Step
<1>2. ASSUME NEW o \in Orders, InsertFails(o) PROVE Lifecycle'
  BY <1>2 DEF InsertFails, Accepts, Fault, Step
<1>3. ASSUME NEW o \in Orders, Cancel(o) PROVE Lifecycle'
  BY <1>3 DEF Cancel, HasContext, InFlight
<1>4. ASSUME NEW o \in Orders, PaymentSucceeds(o) PROVE Lifecycle'
  BY <1>4 DEF PaymentSucceeds, Step
<1>5. ASSUME NEW o \in Orders, PaymentFails(o) PROVE Lifecycle'
  BY <1>5 DEF PaymentFails, Step
<1>6. ASSUME NEW o \in Orders, Update(o) PROVE Lifecycle'
  BY <1>6 DEF Update, Step, FinalStatus
<1>7. ASSUME NEW o \in Orders, UpdateFails(o) PROVE Lifecycle'
  BY <1>7 DEF UpdateFails, Step, Fault
<1>8. ASSUME NEW o \in Orders, Invalidate(o) PROVE Lifecycle'
  BY <1>8 DEF Invalidate, Step, Returned
<1>9. ASSUME NEW o \in Orders, InvalidateFails(o) PROVE Lifecycle'
  BY <1>9 DEF InvalidateFails, Step, Returned, Fault
<1>10. ASSUME NEW o \in Orders, Expire(o) PROVE Lifecycle'
  BY <1>10 DEF Expire
<1>11. ASSUME NEW o \in Orders, NEW r \in Readers, Miss(r, o) PROVE Lifecycle'
  BY <1>11 DEF Miss, Fault
<1>12. ASSUME NEW r \in Readers, QueryFinds(r) PROVE Lifecycle'
  BY <1>12 DEF QueryFinds, Querying
<1>13. ASSUME NEW r \in Readers, QueryEnds(r) PROVE Lifecycle'
  BY <1>13 DEF QueryEnds, Querying, Fault
<1>14. ASSUME NEW r \in Readers, Fill(r) PROVE Lifecycle'
  BY <1>14 DEF Fill, EndFill, Filling
<1>15. ASSUME NEW r \in Readers, FillFails(r) PROVE Lifecycle'
  BY <1>15 DEF FillFails, EndFill, Filling, Fault
<1>16. CASE Start
  BY <1>16 DEF Start
<1>17. CASE Notify
  BY <1>17 DEF Notify
<1>18. CASE Sigterm
  BY <1>18 DEF Sigterm
<1>19. CASE SigtermEarly
  BY <1>19 DEF SigtermEarly, ProcessEnds, InFlight
<1>20. CASE Exit
  BY <1>20 DEF Exit, ProcessEnds, InFlight
<1>21. CASE Crash
  BY <1>21 DEF Crash, ProcessEnds, InFlight, Fault
<1>22. CASE UNCHANGED vars
  BY <1>22 DEF vars
<1> QED
  BY <1>1, <1>2, <1>3, <1>4, <1>5, <1>6, <1>7, <1>8, <1>9, <1>10, <1>11,
     <1>12, <1>13, <1>14, <1>15, <1>16, <1>17, <1>18, <1>19, <1>20, <1>21,
     <1>22
     DEF Next, CreateStep, FinishStep, ReadStep

\* Every step of a CreateOrder call leaves the row as the next place expects.
LEMMA ProgressStep == TypeOK /\ Progress /\ [Next]_vars => Progress'
<1> SUFFICES ASSUME TypeOK, Progress, [Next]_vars PROVE Progress'
  OBVIOUS
<1> USE DEF TypeOK, StoreType, CallType, ReaderType, ProcessType, Status,
            CallState, Ended, Progress, FinalStatus
<1>1. ASSUME NEW o \in Orders, Insert(o) PROVE Progress'
  BY <1>1 DEF Insert, Accepts, Step
<1>2. ASSUME NEW o \in Orders, InsertFails(o) PROVE Progress'
  BY <1>2 DEF InsertFails, Accepts, Fault, Step
<1>3. ASSUME NEW o \in Orders, Cancel(o) PROVE Progress'
  BY <1>3 DEF Cancel, HasContext, InFlight
<1>4. ASSUME NEW o \in Orders, PaymentSucceeds(o) PROVE Progress'
  BY <1>4 DEF PaymentSucceeds, Step
<1>5. ASSUME NEW o \in Orders, PaymentFails(o) PROVE Progress'
  BY <1>5 DEF PaymentFails, Step
<1>6. ASSUME NEW o \in Orders, Update(o) PROVE Progress'
  BY <1>6 DEF Update, Step, FinalStatus
<1>7. ASSUME NEW o \in Orders, UpdateFails(o) PROVE Progress'
  BY <1>7 DEF UpdateFails, Step, Fault
<1>8. ASSUME NEW o \in Orders, Invalidate(o) PROVE Progress'
  BY <1>8 DEF Invalidate, Step, Returned
<1>9. ASSUME NEW o \in Orders, InvalidateFails(o) PROVE Progress'
  BY <1>9 DEF InvalidateFails, Step, Returned, Fault
<1>10. ASSUME NEW o \in Orders, Expire(o) PROVE Progress'
  BY <1>10 DEF Expire
<1>11. ASSUME NEW o \in Orders, NEW r \in Readers, Miss(r, o) PROVE Progress'
  BY <1>11 DEF Miss, Fault
<1>12. ASSUME NEW r \in Readers, QueryFinds(r) PROVE Progress'
  BY <1>12 DEF QueryFinds, Querying
<1>13. ASSUME NEW r \in Readers, QueryEnds(r) PROVE Progress'
  BY <1>13 DEF QueryEnds, Querying, Fault
<1>14. ASSUME NEW r \in Readers, Fill(r) PROVE Progress'
  BY <1>14 DEF Fill, EndFill, Filling
<1>15. ASSUME NEW r \in Readers, FillFails(r) PROVE Progress'
  BY <1>15 DEF FillFails, EndFill, Filling, Fault
<1>16. CASE Start
  BY <1>16 DEF Start
<1>17. CASE Notify
  BY <1>17 DEF Notify
<1>18. CASE Sigterm
  BY <1>18 DEF Sigterm
<1>19. CASE SigtermEarly
  BY <1>19 DEF SigtermEarly, ProcessEnds, InFlight
<1>20. CASE Exit
  BY <1>20 DEF Exit, ProcessEnds, InFlight
<1>21. CASE Crash
  BY <1>21 DEF Crash, ProcessEnds, InFlight, Fault
<1>22. CASE UNCHANGED vars
  BY <1>22 DEF vars
<1> QED
  BY <1>1, <1>2, <1>3, <1>4, <1>5, <1>6, <1>7, <1>8, <1>9, <1>10, <1>11,
     <1>12, <1>13, <1>14, <1>15, <1>16, <1>17, <1>18, <1>19, <1>20, <1>21,
     <1>22
     DEF Next, CreateStep, FinishStep, ReadStep

\* Every step keeps the cached and carried statuses in bounds.
LEMMA CopiesStep == TypeOK /\ Lifecycle /\ Progress /\ Copies /\ [Next]_vars => Copies'
<1> SUFFICES ASSUME TypeOK, Lifecycle, Progress, Copies, [Next]_vars PROVE Copies'
  OBVIOUS
<1> USE DEF TypeOK, StoreType, CallType, ReaderType, ProcessType, Status,
            CallState, Ended, Lifecycle, InFlight, Progress, FinalStatus,
            Copies, CacheNeverAhead, Stale
<1>1. ASSUME NEW o \in Orders, Insert(o) PROVE Copies'
  BY <1>1 DEF Insert, Accepts, Step
<1>2. ASSUME NEW o \in Orders, InsertFails(o) PROVE Copies'
  BY <1>2 DEF InsertFails, Accepts, Fault, Step
<1>3. ASSUME NEW o \in Orders, Cancel(o) PROVE Copies'
  BY <1>3 DEF Cancel, HasContext, InFlight
<1>4. ASSUME NEW o \in Orders, PaymentSucceeds(o) PROVE Copies'
  BY <1>4 DEF PaymentSucceeds, Step
<1>5. ASSUME NEW o \in Orders, PaymentFails(o) PROVE Copies'
  BY <1>5 DEF PaymentFails, Step
<1>6. ASSUME NEW o \in Orders, Update(o) PROVE Copies'
  BY <1>6 DEF Update, Step, FinalStatus
<1>7. ASSUME NEW o \in Orders, UpdateFails(o) PROVE Copies'
  BY <1>7 DEF UpdateFails, Step, Fault
<1>8. ASSUME NEW o \in Orders, Invalidate(o) PROVE Copies'
  BY <1>8 DEF Invalidate, Step, Returned
<1>9. ASSUME NEW o \in Orders, InvalidateFails(o) PROVE Copies'
  BY <1>9 DEF InvalidateFails, Step, Returned, Fault
<1>10. ASSUME NEW o \in Orders, Expire(o) PROVE Copies'
  BY <1>10 DEF Expire
<1>11. ASSUME NEW o \in Orders, NEW r \in Readers, Miss(r, o) PROVE Copies'
  BY <1>11 DEF Miss, Fault
<1>12. ASSUME NEW r \in Readers, QueryFinds(r) PROVE Copies'
  BY <1>12 DEF QueryFinds, Querying
<1>13. ASSUME NEW r \in Readers, QueryEnds(r) PROVE Copies'
  BY <1>13 DEF QueryEnds, Querying, Fault
<1>14. ASSUME NEW r \in Readers, Fill(r) PROVE Copies'
  BY <1>14 DEF Fill, EndFill, Filling
<1>15. ASSUME NEW r \in Readers, FillFails(r) PROVE Copies'
  BY <1>15 DEF FillFails, EndFill, Filling, Fault
<1>16. CASE Start
  BY <1>16 DEF Start
<1>17. CASE Notify
  BY <1>17 DEF Notify
<1>18. CASE Sigterm
  BY <1>18 DEF Sigterm
<1>19. CASE SigtermEarly
  BY <1>19 DEF SigtermEarly, ProcessEnds, InFlight
<1>20. CASE Exit
  BY <1>20 DEF Exit, ProcessEnds, InFlight
<1>21. CASE Crash
  BY <1>21 DEF Crash, ProcessEnds, InFlight, Fault
<1>22. CASE UNCHANGED vars
  BY <1>22 DEF vars
<1> QED
  BY <1>1, <1>2, <1>3, <1>4, <1>5, <1>6, <1>7, <1>8, <1>9, <1>10, <1>11,
     <1>12, <1>13, <1>14, <1>15, <1>16, <1>17, <1>18, <1>19, <1>20, <1>21,
     <1>22
     DEF Next, CreateStep, FinishStep, ReadStep

\* The inductive invariant holds in every behaviour.
THEOREM Invariance == Spec => []IInv
<1>1. IInv /\ [Next]_vars => IInv'
  BY TypeStep, LifecycleStep, ProgressStep, CopiesStep DEF IInv
<1> QED
  BY InitHolds, <1>1, PTL DEF Spec

--------------------------------------------------------------------------
(* What follows from it. *)

\* Every variable keeps its type.
THEOREM TypeCorrect == Spec => []TypeOK
  BY Invariance, PTL DEF IInv

\* The cache never shows a status the row has not had, nor a final status that
\* is not the row's own.
THEOREM NeverAhead == Spec => []CacheNeverAhead
  BY Invariance, PTL DEF IInv, Copies

\* Once CreateOrder is over, a stale key means a delete that did not happen or
\* a fill that landed late, for any number of readers.
THEOREM StaleHasCause == Spec => []StaleExplained
<1>1. IInv => StaleExplained
  BY DEF IInv, Copies, StaleExplained, Ended
<1> QED
  BY Invariance, <1>1, PTL

\* CreateOrder tells its caller what the row says, unless the update was lost.
THEOREM ReplyIsRow == Spec => []ReplyMatchesRow
<1>1. IInv => ReplyMatchesRow
  BY DEF IInv, Progress, ReplyMatchesRow
<1> QED
  BY Invariance, <1>1, PTL
==========================================================================
