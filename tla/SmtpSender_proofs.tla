------------------------ MODULE SmtpSender_proofs ------------------------
(***************************************************************************)
(* Proofs about SmtpSender, for any number of emails, retries and kills.   *)
(*                                                                         *)
(* The argument counts: an email the server has taken is paid for by a     *)
(* kill, or its Send is past the final dot.  There Send already knows that *)
(* it will return nil, and nothing it still does can change that.          *)
(***************************************************************************)
EXTENDS SmtpSender, TLAPS

\* Past the final dot of an attempt; from there on the only way is to "sent".
PastDot(m) == pc[m] \in {"ending", "quit", "returned", "sent"} /\ result[m] = "nil"

\* At most one acceptance is not the fault of a kill, and it is there only
\* when the attempt that caused it, or might have, is past its final dot.
Counted ==
  \A m \in Emails : accepted[m] <= IF PastDot(m) THEN 1 + kills ELSE kills

\* What Send is going to return is known from the write on, and an error of
\* the write means that the connection is broken.
Known ==
  \A m \in Emails :
    /\ pc[m] = "ending" => result[m] = "nil"
    /\ pc[m] = "closing" => result[m] = "nil" \/ conn[m] = "broken"

\* The inductive invariant.
IInv == TypeOK /\ Counted /\ Known

LEMMA InitHolds == Init => IInv
  BY SmtpAssumption DEF Init, IInv, TypeOK, Counted, Known, PastDot, Command, Done

\* The types are kept.
LEMMA TypeStep == TypeOK /\ [Next]_vars => TypeOK'
<1> SUFFICES ASSUME TypeOK, [Next]_vars PROVE TypeOK'
  OBVIOUS
<1> USE SmtpAssumption DEF SmtpAssumption, TypeOK, Command, Done
<1>1. ASSUME NEW m \in Emails, LoopStep(m) PROVE TypeOK'
  BY <1>1 DEF LoopStep, Take, Dial, DialFails, Retry, Succeed, GiveUp, Goto
<1>2. ASSUME NEW m \in Emails, SendStep(m) PROVE TypeOK'
  <2>1. CASE Answered(m)
    BY <2>1 DEF Answered, Following
  <2>2. CASE Refused(m)
    BY <2>2 DEF Refused
  <2>3. CASE Write(m) \/ WriteFails(m)
    BY <2>3 DEF Write, WriteFails, Goto
  <2>4. CASE Close(m) \/ CloseReturns(m)
    BY <2>4 DEF Close, CloseReturns, Goto
  <2>5. CASE Quit(m)
    BY <2>5 DEF Quit, Goto
  <2> QED
    BY <1>2, <2>1, <2>2, <2>3, <2>4, <2>5 DEF SendStep
<1>3. ASSUME NEW m \in Emails, Disturb(m) \/ Hangup(m) PROVE TypeOK'
  BY <1>3 DEF Disturb, Hangup
<1>4. CASE Kill
  BY <1>4 DEF Kill
<1>5. CASE UNCHANGED vars
  BY <1>5 DEF vars
<1> QED
  BY <1>1, <1>2, <1>3, <1>4, <1>5 DEF Next

\* The count is kept.
LEMMA CountStep == IInv /\ [Next]_vars => Counted' /\ Known'
<1> SUFFICES ASSUME IInv, [Next]_vars PROVE Counted' /\ Known'
  OBVIOUS
<1> USE DEF IInv, TypeOK, Counted, Known, PastDot, Command, Done
<1>1. ASSUME NEW m \in Emails, LoopStep(m) PROVE Counted' /\ Known'
  BY <1>1 DEF LoopStep, Take, Dial, DialFails, Retry, Succeed, GiveUp, Goto
<1>2. ASSUME NEW m \in Emails, SendStep(m) PROVE Counted' /\ Known'
  <2>1. CASE Answered(m)
    BY <2>1 DEF Answered, Following
  <2>2. CASE Refused(m)
    BY <2>2 DEF Refused
  <2>3. CASE Write(m) \/ WriteFails(m)
    BY <2>3 DEF Write, WriteFails, Goto
  <2>4. CASE Close(m)
    BY <2>4 DEF Close, Goto
  <2>5. CASE CloseReturns(m)
    BY <2>5 DEF CloseReturns, Goto
  <2>6. CASE Quit(m)
    BY <2>6 DEF Quit, Goto
  <2> QED
    BY <1>2, <2>1, <2>2, <2>3, <2>4, <2>5, <2>6 DEF SendStep
<1>3. ASSUME NEW m \in Emails, Disturb(m) \/ Hangup(m) PROVE Counted' /\ Known'
  BY <1>3 DEF Disturb, Hangup
<1>4. CASE Kill
  BY <1>4 DEF Kill
<1>5. CASE UNCHANGED vars
  BY <1>5 DEF vars
<1> QED
  BY <1>1, <1>2, <1>3, <1>4, <1>5 DEF Next

\* The inductive invariant holds in every behaviour.
THEOREM Invariance == Spec => []IInv
<1>1. IInv /\ [Next]_vars => IInv'
  BY TypeStep, CountStep DEF IInv
<1> QED
  BY InitHolds, <1>1, PTL DEF Spec

\* Every variable keeps its type.
THEOREM TypeCorrect == Spec => []TypeOK
  BY Invariance, PTL DEF IInv

\* No retry repeats an email and a dead letter was not sent by any attempt:
\* only a kill can, for any maxRetries and any loss of answers.
THEOREM NoRepeatByRetry == Spec => []AcceptedOnce
<1>1. IInv => AcceptedOnce
  <2> SUFFICES ASSUME IInv, NEW m \in Emails
               PROVE  accepted[m] <= IF pc[m] = "failed" THEN kills ELSE 1 + kills
    BY DEF AcceptedOnce
  <2>1. accepted[m] \in Nat /\ kills \in Nat
    BY SmtpAssumption DEF IInv, TypeOK
  <2>2. accepted[m] <= kills \/ (pc[m] # "failed" /\ accepted[m] <= 1 + kills)
    BY DEF IInv, Counted, PastDot
  <2> QED
    BY <2>1, <2>2
<1> QED
  BY Invariance, <1>1, PTL
==========================================================================
