-------------------------- MODULE RateLimiter --------------------------
(***************************************************************************)
(* The rate limiter of the order service's HTTP server: for each client a  *)
(* Redis counter with a time-to-live, a fixed window.  A request makes two *)
(* calls to Redis, INCR and, when the counter was 1, EXPIRE; requests of   *)
(* one client, other clients and the clock act between them.               *)
(*                                                                         *)
(* Bounds: MaxFaults limits the calls that fail, the clients that hang up  *)
(* and the crashes; counters above MaxCount are not told apart, which is   *)
(* sound because the code compares them with 1 and MaxRequests only.       *)
(* A definition that a comment calls a mutant is never part of Spec.       *)
(***************************************************************************)
EXTENDS Integers, FiniteSets

CONSTANTS
  Clients,     \* client addresses
  Requests,    \* HTTP requests in flight: the goroutines of the server
  MaxRequests, \* maxRequests
  Windows,     \* the values windowSeconds may have; malformed ones become 0
  MaxCount,    \* bound on the counter
  MaxFaults,   \* bound on the faults
  NoClient     \* the client of a request slot that is free

ASSUME LimiterAssumption ==
  /\ NoClient \notin Clients
  /\ IsFiniteSet(Requests)
  /\ MaxRequests \in Nat
  /\ Windows \subseteq Nat
  /\ MaxCount \in Nat /\ MaxCount > MaxRequests /\ MaxCount > 1
  /\ MaxFaults \in Nat

VARIABLES
  window,   \* windowSeconds, read when the process starts
  count,    \* count[c]: the counter under rate:<c>, 0 when there is no key
  ttl,      \* ttl[c]: the seconds the key has left, NoExpiry when it has none
  pc,       \* pc[r]: what request r does next
  client,   \* client[r]: who sent r
  got,      \* got[r]: what INCR answered to r
  current,  \* requests that were counted by the key that is there now
  admitted, \* admitted[c]: those of them already let through
  refused,  \* refused[c]: whether one of them was already refused
  faults    \* faults so far

keyVars     == <<count, ttl>>
requestVars == <<pc, client, got>>
windowVars  == <<current, admitted, refused>>
vars == <<window, keyVars, requestVars, windowVars, faults>>

\* Redis' own answer to TTL for a key that never expires.
NoExpiry == -1

KeyType ==
  /\ window \in Windows
  /\ count \in [Clients -> 0 .. MaxCount]
  /\ ttl \in [Clients -> {NoExpiry} \cup 1 .. window]
  /\ faults \in 0 .. MaxFaults

RequestType ==
  /\ pc \in [Requests -> {"free", "expiring", "deciding"}]
  /\ client \in [Requests -> Clients \cup {NoClient}]
  /\ got \in [Requests -> 0 .. MaxCount]

WindowType ==
  /\ current \subseteq Requests
  /\ admitted \in [Clients -> Nat]
  /\ refused \in [Clients -> BOOLEAN]

\* The type of every variable.
TypeOK == KeyType /\ RequestType /\ WindowType

Init ==
  /\ window \in Windows
  /\ count = [c \in Clients |-> 0]
  /\ ttl = [c \in Clients |-> NoExpiry]
  /\ pc = [r \in Requests |-> "free"]
  /\ client = [r \in Requests |-> NoClient]
  /\ got = [r \in Requests |-> 0]
  /\ current = {}
  /\ admitted = [c \in Clients |-> 0]
  /\ refused = [c \in Clients |-> FALSE]
  /\ faults = 0

Fault == faults < MaxFaults /\ faults' = faults + 1

--------------------------------------------------------------------------
(* Redis. *)

\* The keys of the clients in gone disappear: their windows are over.
Drop(gone) ==
  /\ count' = [c \in Clients |-> IF c \in gone THEN 0 ELSE count[c]]
  /\ current' = {r \in current : client[r] \notin gone}
  /\ admitted' = [c \in Clients |-> IF c \in gone THEN 0 ELSE admitted[c]]
  /\ refused' = [c \in Clients |-> IF c \in gone THEN FALSE ELSE refused[c]]

\* A second passes: every time-to-live runs down, and ends at zero.
Tick ==
  /\ \E c \in Clients : ttl[c] > 0
  /\ ttl' = [c \in Clients |-> IF ttl[c] > 1 THEN ttl[c] - 1 ELSE NoExpiry]
  /\ Drop({c \in Clients : ttl[c] = 1})
  /\ UNCHANGED <<window, requestVars, faults>>

\* INCR: a key that is not there starts at 1 and without a time-to-live.
Increased(c) == IF count[c] < MaxCount THEN count[c] + 1 ELSE MaxCount

--------------------------------------------------------------------------
(* ServeHTTP. *)

\* Mutant of Incr: EXPIRE follows every INCR, not only the first one.
IncrAlwaysExpires(r, c) ==
  /\ pc[r] = "free"
  /\ count' = [count EXCEPT ![c] = Increased(c)]
  /\ client' = [client EXCEPT ![r] = c]
  /\ got' = [got EXCEPT ![r] = Increased(c)]
  /\ pc' = [pc EXCEPT ![r] = "expiring"]
  /\ current' = current \cup {r}
  /\ UNCHANGED <<window, ttl, admitted, refused, faults>>

\* Mutant of Incr: the window is set on the second request.
IncrExpiresLate(r, c) ==
  /\ pc[r] = "free"
  /\ count' = [count EXCEPT ![c] = Increased(c)]
  /\ client' = [client EXCEPT ![r] = c]
  /\ got' = [got EXCEPT ![r] = Increased(c)]
  /\ pc' = [pc EXCEPT ![r] = IF Increased(c) = 2 THEN "expiring" ELSE "deciding"]
  /\ current' = current \cup {r}
  /\ UNCHANGED <<window, ttl, admitted, refused, faults>>

\* A request of c is counted.
Incr(r, c) ==
  /\ pc[r] = "free"
  /\ count' = [count EXCEPT ![c] = Increased(c)]
  /\ client' = [client EXCEPT ![r] = c]
  /\ got' = [got EXCEPT ![r] = Increased(c)]
  /\ pc' = [pc EXCEPT ![r] = IF Increased(c) = 1 THEN "expiring" ELSE "deciding"]
  /\ current' = current \cup {r}
  /\ UNCHANGED <<window, ttl, admitted, refused, faults>>

\* INCR returns an error, because Redis is away or the client hung up; it may
\* have been executed.  The request is served without the limiter, and not one
\* of those in admitted.  Or only the answer is lost and go-redis sends INCR
\* again: this step and an Incr, which then may answer 2 to the first request.
IncrFails(c) ==
  /\ Fault
  /\ count' \in {count, [count EXCEPT ![c] = Increased(c)]}
  /\ UNCHANGED <<window, ttl, requestVars, windowVars>>

\* Mutant of Expire: the seconds are taken for milliseconds and rounded down.
ExpireRoundedDown(r) ==
  /\ pc[r] = "expiring"
  /\ pc' = [pc EXCEPT ![r] = "deciding"]
  /\ ttl' = [ttl EXCEPT ![client[r]] = window \div 1000]
  /\ UNCHANGED <<window, count, client, got, windowVars, faults>>

\* EXPIRE; with zero seconds Redis deletes the key.
Expire(r) ==
  /\ pc[r] = "expiring"
  /\ pc' = [pc EXCEPT ![r] = "deciding"]
  /\ IF window > 0
       THEN /\ ttl' = [ttl EXCEPT ![client[r]] = window]
            /\ UNCHANGED <<count, windowVars>>
       ELSE /\ Drop({client[r]})
            /\ UNCHANGED ttl
  /\ UNCHANGED <<window, client, got, faults>>

\* EXPIRE does not reach Redis, because it is away or the client hung up: its
\* error is not looked at.
ExpireFails(r) ==
  /\ Fault
  /\ pc[r] = "expiring"
  /\ pc' = [pc EXCEPT ![r] = "deciding"]
  /\ UNCHANGED <<window, keyVars, client, got, windowVars>>

\* The request leaves the limiter.
Leave(r) ==
  /\ pc[r] = "deciding"
  /\ pc' = [pc EXCEPT ![r] = "free"]
  /\ client' = [client EXCEPT ![r] = NoClient]
  /\ got' = [got EXCEPT ![r] = 0]
  /\ current' = current \ {r}

\* Mutant of Admit: the limit is off by one.
AdmitOneMore(r) ==
  /\ got[r] <= MaxRequests + 1
  /\ Leave(r)
  /\ admitted' = IF r \in current THEN [admitted EXCEPT ![client[r]] = @ + 1]
                                  ELSE admitted
  /\ UNCHANGED <<window, keyVars, refused, faults>>

\* next.ServeHTTP
Admit(r) ==
  /\ got[r] <= MaxRequests
  /\ Leave(r)
  /\ admitted' = IF r \in current THEN [admitted EXCEPT ![client[r]] = @ + 1]
                                  ELSE admitted
  /\ UNCHANGED <<window, keyVars, refused, faults>>

\* Mutant of Reject: the comparison is >=.
RejectTooEarly(r) ==
  /\ got[r] >= MaxRequests
  /\ Leave(r)
  /\ refused' = IF r \in current THEN [refused EXCEPT ![client[r]] = TRUE]
                                 ELSE refused
  /\ UNCHANGED <<window, keyVars, admitted, faults>>

\* HTTP 429
Reject(r) ==
  /\ got[r] > MaxRequests
  /\ Leave(r)
  /\ refused' = IF r \in current THEN [refused EXCEPT ![client[r]] = TRUE]
                                 ELSE refused
  /\ UNCHANGED <<window, keyVars, admitted, faults>>

\* The order service is killed and started again: it keeps no state.
Crash ==
  /\ Fault
  /\ pc' = [r \in Requests |-> "free"]
  /\ client' = [r \in Requests |-> NoClient]
  /\ got' = [r \in Requests |-> 0]
  /\ current' = {}
  /\ UNCHANGED <<window, keyVars, admitted, refused>>

--------------------------------------------------------------------------

ServeStep(r) == Expire(r) \/ ExpireFails(r) \/ Admit(r) \/ Reject(r)

Next ==
  \/ \E r \in Requests, c \in Clients : Incr(r, c)
  \/ \E c \in Clients : IncrFails(c)
  \/ \E r \in Requests : ServeStep(r)
  \/ Tick \/ Crash

Spec == Init /\ [][Next]_vars

\* Handlers are scheduled, their calls return, and time passes; clients may
\* send requests or not.
Fairness == (\A r \in Requests : WF_vars(ServeStep(r))) /\ WF_vars(Tick)

FairSpec == Spec /\ Fairness

--------------------------------------------------------------------------
(* What must hold. *)

\* The limit: of the requests one window counts and gives an answer, at most
\* maxRequests are let through, however the handlers of the same client
\* interleave.  Requests that got an error for an answer are let through beside.
LimitKept == \A c \in Clients : admitted[c] <= MaxRequests

\* The requests of c that its window has counted and that are still undecided
\* within the limit.
Undecided(c) == {r \in current : client[r] = c /\ got[r] <= MaxRequests}

\* Nobody is refused before the window is full: those let through and those
\* about to be let through take up the whole limit.
RefusedOnlyWhenFull ==
  faults = 0 =>
    \A c \in Clients :
      refused[c] => admitted[c] + Cardinality(Undecided(c)) = MaxRequests

\* A window that is open without an end is about to get one, unless something
\* failed.
WindowCloses ==
  \A c \in Clients :
    count[c] > 0 /\ ttl[c] = NoExpiry /\ faults = 0 =>
      \E r \in Requests : pc[r] = "expiring" /\ client[r] = c

\* Without faults a client over the limit gets a new window, however many
\* requests it goes on sending.
LimitLifted ==
  [](faults = 0) =>
    \A c \in Clients : count[c] > MaxRequests ~> count[c] = 0

\* The comment on RateLimiter: "On first request from an IP: SET counter=1
\* with EXPIRE=windowSeconds".
EveryWindowEnds ==
  \A c \in Clients :
    count[c] > 0 /\ ttl[c] = NoExpiry =>
      \E r \in Requests : pc[r] = "expiring" /\ client[r] = c
==========================================================================
