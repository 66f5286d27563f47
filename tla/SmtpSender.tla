--------------------------- MODULE SmtpSender ---------------------------
(***************************************************************************)
(* sendWithRetry over the real email provider: SMTPEmailSender.Send, which *)
(* opens a connection for each attempt and holds one SMTP dialogue on it.  *)
(* NotificationConsumer has this as two actions, SendSucceeds and          *)
(* SendFails, and says that an email "went out" when Send returns nil;     *)
(* here is what that means at the mail server.                             *)
(*                                                                         *)
(* One action is one exchange with the server, which may refuse any of     *)
(* them, break the connection, or keep it open and say nothing more: the   *)
(* code sets no deadline.  net/smtp is modelled from how Send uses it.     *)
(*                                                                         *)
(* Bound: MaxKills limits how often the process is killed.                 *)
(* A definition that a comment calls a mutant is never part of Spec.       *)
(***************************************************************************)
EXTENDS Naturals

CONSTANTS
  Emails,      \* the emails to send, each in the hands of a worker of its own
  MaxRetries,  \* maxRetries
  MaxKills     \* bound on the kills

ASSUME SmtpAssumption == MaxRetries \in Nat /\ MaxKills \in Nat

VARIABLES
  pc,        \* pc[m]: what the worker of m does next
  conn,      \* conn[m]: the connection of the attempt, as the server left it
  result,    \* result[m]: what Send is going to return, "none" before it knows
  attempts,  \* attempts[m]: calls of Send in this run of the process
  accepted,  \* accepted[m]: how many times the server has taken m
  kills      \* kills so far

vars == <<pc, conn, result, attempts, accepted, kills>>

\* The answers Send waits for, in their order.
Command == {"greeting", "starttls", "auth", "mail", "rcpt", "data"}
Done    == {"sent", "failed"}

\* The type of every variable.
TypeOK ==
  /\ pc \in [Emails -> {"queued", "loop", "body", "closing", "ending",
                        "quit", "returned"} \cup Command \cup Done]
  /\ conn \in [Emails -> {"none", "open", "broken", "silent"}]
  /\ result \in [Emails -> {"none", "nil", "error"}]
  /\ attempts \in [Emails -> 0 .. MaxRetries]
  /\ accepted \in [Emails -> Nat]
  /\ kills \in 0 .. MaxKills

Init ==
  /\ pc = [m \in Emails |-> "queued"]
  /\ conn = [m \in Emails |-> "none"]
  /\ result = [m \in Emails |-> "none"]
  /\ attempts = [m \in Emails |-> 0]
  /\ accepted = [m \in Emails |-> 0]
  /\ kills = 0

Goto(m, from, to) ==
  /\ pc[m] = from
  /\ pc' = [pc EXCEPT ![m] = to]

--------------------------------------------------------------------------
(* sendWithRetry. *)

\* A worker reaches sendWithRetry with m.
Take(m) ==
  /\ Goto(m, "queued", "loop")
  /\ UNCHANGED <<conn, result, attempts, accepted, kills>>

\* Mutant of Dial: the attempt is not counted.
DialForever(m) ==
  /\ Goto(m, "loop", "greeting")
  /\ conn' = [conn EXCEPT ![m] = "open"]
  /\ UNCHANGED <<result, attempts, accepted, kills>>

\* The next attempt, after the backoff: net.Dial gets its connection ...
Dial(m) ==
  /\ attempts[m] < MaxRetries
  /\ Goto(m, "loop", "greeting")
  /\ attempts' = [attempts EXCEPT ![m] = @ + 1]
  /\ conn' = [conn EXCEPT ![m] = "open"]
  /\ UNCHANGED <<result, accepted, kills>>

\* Mutant of DialFails: the loop makes one attempt too many.
DialFailsOnceMore(m) ==
  /\ attempts[m] <= MaxRetries
  /\ Goto(m, "loop", "returned")
  /\ attempts' = [attempts EXCEPT ![m] = @ + 1]
  /\ result' = [result EXCEPT ![m] = "error"]
  /\ UNCHANGED <<conn, accepted, kills>>

\* ... or an error, which Send returns.
DialFails(m) ==
  /\ attempts[m] < MaxRetries
  /\ Goto(m, "loop", "returned")
  /\ attempts' = [attempts EXCEPT ![m] = @ + 1]
  /\ result' = [result EXCEPT ![m] = "error"]
  /\ UNCHANGED <<conn, accepted, kills>>

\* Send returned an error: the loop goes on.
Retry(m) ==
  /\ result[m] = "error"
  /\ Goto(m, "returned", "loop")
  /\ result' = [result EXCEPT ![m] = "none"]
  /\ UNCHANGED <<conn, attempts, accepted, kills>>

\* Send returned nil, and so does sendWithRetry.
Succeed(m) ==
  /\ result[m] = "nil"
  /\ Goto(m, "returned", "sent")
  /\ UNCHANGED <<conn, result, attempts, accepted, kills>>

\* All attempts failed.
GiveUp(m) ==
  /\ attempts[m] = MaxRetries
  /\ Goto(m, "loop", "failed")
  /\ UNCHANGED <<conn, result, attempts, accepted, kills>>

--------------------------------------------------------------------------
(* Send. *)

Following == [greeting |-> "starttls", starttls |-> "auth", auth |-> "mail",
              mail |-> "rcpt", rcpt |-> "data", data |-> "body"]

\* The server answers as it should: NewClient, StartTLS, Auth, Mail, Rcpt, Data.
Answered(m) ==
  /\ pc[m] \in Command
  /\ conn[m] = "open"
  /\ pc' = [pc EXCEPT ![m] = Following[pc[m]]]
  /\ UNCHANGED <<conn, result, attempts, accepted, kills>>

\* It refuses, or the connection is broken: Send will return the error.
\* NewClient has then closed the connection, and Quit is not deferred yet.
Refused(m) ==
  /\ pc[m] \in Command
  /\ conn[m] \in {"open", "broken"}
  /\ result' = [result EXCEPT ![m] = "error"]
  /\ IF pc[m] = "greeting"
       THEN /\ pc' = [pc EXCEPT ![m] = "returned"]
            /\ conn' = [conn EXCEPT ![m] = "none"]
       ELSE /\ pc' = [pc EXCEPT ![m] = "quit"]
            /\ UNCHANGED conn
  /\ UNCHANGED <<attempts, accepted, kills>>

\* wc.Write: all of a short body fits the buffer, and no error is seen.
Write(m) ==
  /\ Goto(m, "body", "closing")
  /\ result' = [result EXCEPT ![m] = "nil"]
  /\ UNCHANGED <<conn, attempts, accepted, kills>>

\* A long one has to be written out, to a connection that is broken.
WriteFails(m) ==
  /\ conn[m] = "broken"
  /\ Goto(m, "body", "closing")
  /\ result' = [result EXCEPT ![m] = "error"]
  /\ UNCHANGED <<conn, attempts, accepted, kills>>

\* The deferred wc.Close sends the rest of the body and the final dot.  The
\* server takes the email, whether or not it says so, or does not.
Close(m) ==
  /\ conn[m] # "broken"
  /\ Goto(m, "closing", "ending")
  /\ \/ accepted' = [accepted EXCEPT ![m] = @ + 1]
     \/ UNCHANGED accepted
  /\ UNCHANGED <<conn, result, attempts, kills>>

\* Mutant of CloseReturns: its error is the one Send returns.
CloseReturnsError(m) ==
  /\ \/ conn[m] = "broken" /\ Goto(m, "closing", "quit")
     \/ conn[m] # "silent" /\ Goto(m, "ending", "quit")
  /\ result' \in {result, [result EXCEPT ![m] = "error"]}
  /\ UNCHANGED <<conn, attempts, accepted, kills>>

\* wc.Close returns: the server has the email, or refuses it, or its answer
\* does not come, or the dot could not be sent.  The defer drops the error.
CloseReturns(m) ==
  /\ \/ conn[m] = "broken" /\ Goto(m, "closing", "quit")
     \/ conn[m] # "silent" /\ Goto(m, "ending", "quit")
  /\ UNCHANGED <<conn, result, attempts, accepted, kills>>

\* The deferred Quit: whatever it returns, Send returns what it had.
Quit(m) ==
  /\ conn[m] # "silent"
  /\ Goto(m, "quit", "returned")
  /\ conn' = [conn EXCEPT ![m] = "none"]
  /\ UNCHANGED <<result, attempts, accepted, kills>>

--------------------------------------------------------------------------
(* The server's connections and the process. *)

\* The connection breaks, or the server, or what is between, falls silent on a
\* connection that stays open.
Disturb(m) ==
  /\ conn[m] = "open"
  /\ \E c \in {"broken", "silent"} : conn' = [conn EXCEPT ![m] = c]
  /\ UNCHANGED <<pc, result, attempts, accepted, kills>>

\* The silence ends, with the connection.
Hangup(m) ==
  /\ conn[m] = "silent"
  /\ conn' = [conn EXCEPT ![m] = "broken"]
  /\ UNCHANGED <<pc, result, attempts, accepted, kills>>

\* The process is killed; what it had not finished is delivered again.
Kill ==
  /\ kills < MaxKills
  /\ kills' = kills + 1
  /\ pc' = [m \in Emails |-> IF pc[m] \in Done THEN pc[m] ELSE "queued"]
  /\ conn' = [m \in Emails |-> "none"]
  /\ result' = [m \in Emails |-> IF pc[m] \in Done THEN result[m] ELSE "none"]
  /\ attempts' = [m \in Emails |-> 0]
  /\ UNCHANGED accepted

--------------------------------------------------------------------------

LoopStep(m) == Take(m) \/ Dial(m) \/ DialFails(m) \/ Retry(m) \/ Succeed(m) \/ GiveUp(m)

SendStep(m) ==
  \/ Answered(m) \/ Refused(m) \/ Write(m) \/ WriteFails(m)
  \/ Close(m) \/ CloseReturns(m) \/ Quit(m)

Next ==
  \/ \E m \in Emails : LoopStep(m) \/ SendStep(m) \/ Disturb(m) \/ Hangup(m)
  \/ Kill

Spec == Init /\ [][Next]_vars

\* Workers are scheduled, and a server that is not silent answers or closes.
\* Nothing is assumed of a silent one, which may stay so for ever.
Fairness == \A m \in Emails : WF_vars(LoopStep(m) \/ SendStep(m))

FairSpec == Spec /\ Fairness

--------------------------------------------------------------------------
(* What must hold. *)

\* Retries never send an email twice, although each attempt starts from the
\* beginning and an answer can be lost, and what is given up after all of them
\* was not sent, so that whoever replays the dead letters repeats no email:
\* a kill alone can make a customer hear once more.  It rests on Send never
\* reporting an error once the body is out, dropped errors of wc.Close and
\* Quit included.
AcceptedOnce ==
  \A m \in Emails :
    accepted[m] <= IF pc[m] = "failed" THEN kills ELSE 1 + kills

\* Each sendWithRetry ends as long as its own server does not go silent for
\* ever, whatever the connections of the other workers do.
EveryEmailEnds ==
  \A m \in Emails : <>[](conn[m] # "silent") => <>(pc[m] \in Done)

\* EmailSender: Send "Returns an error if the delivery failed (and should be
\* retried)."
NilMeansAccepted == \A m \in Emails : pc[m] = "sent" => accepted[m] >= 1
==========================================================================
