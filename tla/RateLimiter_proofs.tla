----------------------- MODULE RateLimiter_proofs -----------------------
(***************************************************************************)
(* Theorems about RateLimiter for any clients, any finite number of        *)
(* requests in flight, any limit, window and bound.  The inductive         *)
(* invariant says, besides the types:                                      *)
(*                                                                         *)
(*   Serving      what a request in progress knows of its client's key;    *)
(*   Balanced     the requests let through and those about to be take up   *)
(*                no more than the limit, and exactly the counter below it;*)
(*   WindowCloses as it stands.                                            *)
(***************************************************************************)
EXTENDS RateLimiter, FiniteSetTheorems, TLAPS

USE LimiterAssumption DEF LimiterAssumption

--------------------------------------------------------------------------
(* The inductive invariant. *)

\* A request in progress has a client, and the key that counted it, if still
\* there, has a counter no lower than its answer.
Serving ==
  \A r \in Requests :
    /\ pc[r] # "free" => client[r] \in Clients
    /\ r \in current => pc[r] # "free" /\ got[r] <= count[client[r]]

\* The part of the limit that the counter of c has used up.
Used(c) == IF count[c] < MaxRequests THEN count[c] ELSE MaxRequests

Balance(c) ==
  /\ admitted[c] + Cardinality(Undecided(c)) <= Used(c)
  /\ faults = 0 =>
       /\ admitted[c] + Cardinality(Undecided(c)) = Used(c)
       /\ refused[c] => count[c] > MaxRequests

Balanced == \A c \in Clients : Balance(c)

IInv == TypeOK /\ Serving /\ Balanced /\ WindowCloses

USE DEF keyVars, requestVars, windowVars, NoExpiry

--------------------------------------------------------------------------
(* Facts about the set of undecided requests and about INCR. *)

\* The undecided requests of a client can be counted.
LEMMA UndecidedCounted ==
  ASSUME TypeOK, NEW c
  PROVE  IsFiniteSet(Undecided(c)) /\ Cardinality(Undecided(c)) \in Nat
<1>1. Undecided(c) \in SUBSET Requests
  BY DEF TypeOK, WindowType, Undecided
<1>2. IsFiniteSet(Undecided(c))
  BY <1>1, FS_Subset
<1> QED
  BY <1>2, FS_CardinalityType

\* What INCR answers, and that the cap on the counter does not hide the limit.
LEMMA IncreasedFacts ==
  ASSUME TypeOK, NEW c \in Clients
  PROVE  /\ Increased(c) \in 1 .. MaxCount
         /\ Increased(c) >= count[c]
         /\ count[c] < MaxRequests => Increased(c) = count[c] + 1
         /\ count[c] >= MaxRequests => Increased(c) > MaxRequests
         /\ Increased(c) = 1 => count[c] = 0
  BY DEF TypeOK, KeyType, Increased

\* A balance whose parts do not change stays, when faults do not run back.
LEMMA BalanceKept ==
  ASSUME TypeOK, TypeOK', NEW c \in Clients, Balance(c),
         Undecided(c)' = Undecided(c), admitted'[c] = admitted[c],
         refused'[c] = refused[c], count'[c] = count[c], faults' >= faults
  PROVE  Balance(c)'
<1>1. Cardinality(Undecided(c)) \in Nat
  BY UndecidedCounted
<1>2. Cardinality(Undecided(c)') = Cardinality(Undecided(c))
  OBVIOUS
<1>3. Used(c)' = Used(c)
  BY DEF Used
<1>4. faults' = 0 => faults = 0
  BY DEF TypeOK, KeyType
<1> QED
  BY <1>1, <1>2, <1>3, <1>4 DEF Balance

\* When keys disappear the balances start again from nothing.
LEMMA DropBalance ==
  ASSUME TypeOK, TypeOK', NEW gone, Drop(gone), NEW c \in Clients, Balance(c),
         client' = client, got' = got, faults' = faults
  PROVE  Balance(c)'
<1>1. CASE c \in gone
  <2>1. Undecided(c)' = {}
    BY <1>1 DEF Drop, Undecided
  <2>2. Cardinality(Undecided(c)') = 0
    BY <2>1, FS_EmptySet
  <2>3. admitted'[c] = 0 /\ refused'[c] = FALSE /\ count'[c] = 0
    BY <1>1 DEF Drop
  <2> QED
    BY <2>2, <2>3 DEF Balance, Used
<1>2. CASE c \notin gone
  <2>1. Undecided(c)' = Undecided(c)
    BY <1>2 DEF Drop, Undecided
  <2>2. admitted'[c] = admitted[c] /\ refused'[c] = refused[c]
        /\ count'[c] = count[c]
    BY <1>2 DEF Drop
  <2> QED
    BY <2>1, <2>2, BalanceKept DEF TypeOK, KeyType
<1> QED
  BY <1>1, <1>2

--------------------------------------------------------------------------
(* Each layer is inductive. *)

\* No key, no request, nothing counted.
LEMMA InitHolds == Init => IInv
<1> SUFFICES ASSUME Init PROVE IInv
  OBVIOUS
<1> USE DEF Init
<1>1. KeyType /\ RequestType
  BY DEF KeyType, RequestType
<1>2. WindowType
  BY DEF WindowType
<1>3. Serving /\ WindowCloses
  BY DEF Serving, WindowCloses
<1>4. ASSUME NEW c \in Clients PROVE Balance(c)
  <2>1. Undecided(c) = {}
    BY DEF Undecided
  <2> QED
    BY <2>1, FS_EmptySet DEF Balance, Used
<1> QED
  BY <1>1, <1>2, <1>3, <1>4 DEF IInv, TypeOK, Balanced

\* Keys that disappear keep the types.
LEMMA DropTypes ==
  ASSUME TypeOK, NEW gone, Drop(gone)
  PROVE  count' \in [Clients -> 0 .. MaxCount] /\ WindowType'
<1> USE DEF TypeOK, KeyType, WindowType, Drop
<1>1. count' \in [Clients -> 0 .. MaxCount]
  OBVIOUS
<1>2. current' \subseteq Requests
  OBVIOUS
<1>3. admitted' \in [Clients -> Nat]
  OBVIOUS
<1>4. refused' \in [Clients -> BOOLEAN]
  OBVIOUS
<1> QED
  BY <1>1, <1>2, <1>3, <1>4

\* Every step keeps the types.
LEMMA TypeStep == TypeOK /\ Serving /\ [Next]_vars => TypeOK'
<1> SUFFICES ASSUME TypeOK, Serving, [Next]_vars PROVE TypeOK'
  OBVIOUS
<1> USE DEF TypeOK, KeyType, RequestType
<1>1. ASSUME NEW r \in Requests, NEW c \in Clients, Incr(r, c) PROVE TypeOK'
  BY <1>1, IncreasedFacts DEF Incr, WindowType
<1>2. ASSUME NEW c \in Clients, IncrFails(c) PROVE TypeOK'
  BY <1>2, IncreasedFacts DEF IncrFails, Fault, WindowType
<1>3. ASSUME NEW r \in Requests, Expire(r) PROVE TypeOK'
  <2>1. client[r] \in Clients
    BY <1>3 DEF Expire, Serving
  <2>2. CASE window > 0
    BY <1>3, <2>1, <2>2 DEF Expire, WindowType
  <2>3. CASE ~(window > 0)
    <3>1. Drop({client[r]})
      BY <1>3, <2>3 DEF Expire
    <3>2. count' \in [Clients -> 0 .. MaxCount] /\ WindowType'
      BY <3>1, DropTypes
    <3> QED
      BY <1>3, <2>3, <3>2 DEF Expire
  <2> QED
    BY <2>2, <2>3
<1>4. ASSUME NEW r \in Requests, ExpireFails(r) PROVE TypeOK'
  BY <1>4 DEF ExpireFails, Fault, WindowType
<1>5. ASSUME NEW r \in Requests, Admit(r) PROVE TypeOK'
  BY <1>5 DEF Admit, Leave, WindowType, Serving
<1>6. ASSUME NEW r \in Requests, Reject(r) PROVE TypeOK'
  <2>1. KeyType' /\ RequestType'
    BY <1>6 DEF Reject, Leave
  <2>2. current' \subseteq Requests /\ admitted' \in [Clients -> Nat]
    BY <1>6 DEF Reject, Leave, WindowType
  <2>3. refused' \in [Clients -> BOOLEAN]
    BY <1>6 DEF Reject, WindowType
  <2> QED
    BY <2>1, <2>2, <2>3 DEF WindowType
<1>7. CASE Tick
  <2>1. count' \in [Clients -> 0 .. MaxCount] /\ WindowType'
    BY <1>7, DropTypes DEF Tick
  <2>2. ttl' \in [Clients -> {NoExpiry} \cup 1 .. window]
    BY <1>7 DEF Tick
  <2> QED
    BY <1>7, <2>1, <2>2 DEF Tick
<1>8. CASE Crash
  BY <1>8 DEF Crash, Fault, WindowType
<1>9. CASE UNCHANGED vars
  BY <1>9 DEF vars, WindowType
<1> QED
  BY <1>1, <1>2, <1>3, <1>4, <1>5, <1>6, <1>7, <1>8, <1>9
     DEF Next, ServeStep

\* Every step leaves the requests in progress with what they know.
LEMMA ServingStep == TypeOK /\ Serving /\ [Next]_vars => Serving'
<1> SUFFICES ASSUME TypeOK, Serving, [Next]_vars PROVE Serving'
  OBVIOUS
<1> USE DEF TypeOK, KeyType, RequestType, WindowType, Serving
<1>1. ASSUME NEW r \in Requests, NEW c \in Clients, Incr(r, c) PROVE Serving'
  BY <1>1, IncreasedFacts DEF Incr
<1>2. ASSUME NEW c \in Clients, IncrFails(c) PROVE Serving'
  BY <1>2, IncreasedFacts DEF IncrFails
<1>3. ASSUME NEW r \in Requests, Expire(r) PROVE Serving'
  BY <1>3 DEF Expire, Drop
<1>4. ASSUME NEW r \in Requests, ExpireFails(r) PROVE Serving'
  BY <1>4 DEF ExpireFails
<1>5. ASSUME NEW r \in Requests, Admit(r) PROVE Serving'
  BY <1>5 DEF Admit, Leave
<1>6. ASSUME NEW r \in Requests, Reject(r) PROVE Serving'
  BY <1>6 DEF Reject, Leave
<1>7. CASE Tick
  BY <1>7 DEF Tick, Drop
<1>8. CASE Crash
  BY <1>8 DEF Crash
<1>9. CASE UNCHANGED vars
  BY <1>9 DEF vars
<1> QED
  BY <1>1, <1>2, <1>3, <1>4, <1>5, <1>6, <1>7, <1>8, <1>9
     DEF Next, ServeStep

\* Every step keeps every balance: an INCR below the limit adds an undecided
\* request, one above it adds none, and Admit turns an undecided request into
\* one that was let through.
LEMMA BalanceStep ==
  TypeOK /\ TypeOK' /\ Serving /\ Balanced /\ [Next]_vars => Balanced'
<1> SUFFICES ASSUME TypeOK, TypeOK', Serving, Balanced, [Next]_vars,
                    NEW c \in Clients
             PROVE  Balance(c)'
  BY DEF Balanced
<1>1. Balance(c)
  BY DEF Balanced
<1>2. IsFiniteSet(Undecided(c)) /\ Cardinality(Undecided(c)) \in Nat
  BY UndecidedCounted
<1>3. /\ count[c] \in Nat /\ admitted[c] \in Nat /\ faults \in Nat
      /\ faults' \in Nat
  BY DEF TypeOK, KeyType, WindowType
<1>4. ASSUME NEW r \in Requests, NEW d \in Clients, Incr(r, d)
      PROVE  Balance(c)'
  <2>1. r \notin current /\ current' = current \cup {r}
        /\ client' = [client EXCEPT ![r] = d]
        /\ got' = [got EXCEPT ![r] = Increased(d)]
    BY <1>4 DEF Incr, Serving
  <2>2. /\ count' = [count EXCEPT ![d] = Increased(d)]
        /\ admitted' = admitted /\ refused' = refused /\ faults' = faults
    BY <1>4 DEF Incr
  <2>3. CASE c = d /\ count[c] < MaxRequests
    <3>1. Increased(c) = count[c] + 1
      BY <2>3, IncreasedFacts
    <3>2. Undecided(c)' = Undecided(c) \cup {r} /\ r \notin Undecided(c)
      BY <1>3, <2>1, <2>3, <3>1 DEF Undecided, TypeOK, RequestType, WindowType
    <3>3. Cardinality(Undecided(c)') = Cardinality(Undecided(c)) + 1
      BY <1>2, <3>2, FS_AddElement
    <3>4. count'[c] = count[c] + 1 /\ admitted'[c] = admitted[c]
      BY <2>2, <2>3, <3>1 DEF TypeOK, KeyType
    <3>5. Used(c) = count[c] /\ Used(c)' = count[c] + 1
      BY <1>3, <2>3, <3>4 DEF Used
    <3> QED
      BY <1>1, <1>2, <1>3, <2>2, <2>3, <3>3, <3>4, <3>5 DEF Balance
  <2>4. CASE c = d /\ count[c] >= MaxRequests
    <3>1. Increased(c) > MaxRequests
      BY <2>4, IncreasedFacts
    <3>2. Undecided(c)' = Undecided(c)
      BY <2>1, <2>4, <3>1 DEF Undecided, TypeOK, RequestType, WindowType
    <3>3. count'[c] > MaxRequests /\ admitted'[c] = admitted[c]
      BY <2>2, <2>4, <3>1 DEF TypeOK, KeyType
    <3>4. Used(c) = MaxRequests /\ Used(c)' = MaxRequests
      BY <1>3, <2>4, <3>3 DEF Used, TypeOK, KeyType
    <3> QED
      BY <1>1, <2>2, <3>2, <3>3, <3>4 DEF Balance
  <2>5. CASE c # d
    <3>1. Undecided(c)' = Undecided(c)
      BY <2>1, <2>5 DEF Undecided, TypeOK, RequestType, WindowType
    <3> QED
      BY <1>1, <1>3, <2>2, <2>5, <3>1, BalanceKept DEF TypeOK, KeyType
  <2> QED
    BY <1>3, <2>3, <2>4, <2>5
<1>5. ASSUME NEW d \in Clients, IncrFails(d) PROVE Balance(c)'
  <2>1. faults' # 0
    BY <1>3, <1>5 DEF IncrFails, Fault
  <2>2. Undecided(c)' = Undecided(c) /\ admitted' = admitted
    BY <1>5 DEF IncrFails, Undecided
  <2>3. count'[c] \in Nat /\ count'[c] >= count[c]
    BY <1>5, IncreasedFacts DEF IncrFails, TypeOK, KeyType
  <2>4. Used(c)' >= Used(c) /\ Used(c) \in Nat /\ Used(c)' \in Nat
    BY <1>3, <2>3 DEF Used
  <2> QED
    BY <1>1, <1>2, <1>3, <2>1, <2>2, <2>4 DEF Balance
<1>6. ASSUME NEW r \in Requests, Expire(r) PROVE Balance(c)'
  <2>1. client' = client /\ got' = got /\ faults' = faults
    BY <1>6 DEF Expire
  <2>2. CASE window > 0
    BY <1>1, <1>3, <1>6, <2>2, BalanceKept DEF Expire, Undecided
  <2>3. CASE ~(window > 0)
    BY <1>1, <1>6, <2>1, <2>3, DropBalance DEF Expire
  <2> QED
    BY <2>2, <2>3
<1>7. ASSUME NEW r \in Requests, ExpireFails(r) PROVE Balance(c)'
  BY <1>1, <1>3, <1>7, BalanceKept DEF ExpireFails, Fault, Undecided
<1>8. ASSUME NEW r \in Requests, Admit(r) PROVE Balance(c)'
  <2>1. /\ got[r] <= MaxRequests
        /\ current' = current \ {r}
        /\ client' = [client EXCEPT ![r] = NoClient]
        /\ got' = [got EXCEPT ![r] = 0]
        /\ count' = count /\ refused' = refused /\ faults' = faults
    BY <1>8 DEF Admit, Leave
  <2>2. CASE r \in current /\ client[r] = c
    <3>1. Undecided(c)' = Undecided(c) \ {r} /\ r \in Undecided(c)
      BY <2>1, <2>2 DEF Undecided, TypeOK, RequestType, WindowType
    <3>2. Cardinality(Undecided(c)') = Cardinality(Undecided(c)) - 1
      BY <1>2, <3>1, FS_RemoveElement
    <3>3. admitted'[c] = admitted[c] + 1
      BY <1>8, <2>2 DEF Admit, TypeOK, WindowType
    <3>4. Used(c)' = Used(c)
      BY <2>1 DEF Used
    <3> QED
      BY <1>1, <1>2, <1>3, <2>1, <3>2, <3>3, <3>4 DEF Balance
  <2>3. CASE ~(r \in current /\ client[r] = c)
    <3>1. Undecided(c)' = Undecided(c)
      BY <2>1, <2>3 DEF Undecided, TypeOK, RequestType, WindowType
    <3>2. admitted'[c] = admitted[c]
      BY <1>8, <2>3 DEF Admit, TypeOK, WindowType
    <3> QED
      BY <1>1, <1>3, <2>1, <3>1, <3>2, BalanceKept
  <2> QED
    BY <2>2, <2>3
<1>9. ASSUME NEW r \in Requests, Reject(r) PROVE Balance(c)'
  <2>1. /\ got[r] > MaxRequests
        /\ current' = current \ {r}
        /\ client' = [client EXCEPT ![r] = NoClient]
        /\ got' = [got EXCEPT ![r] = 0]
        /\ count' = count /\ admitted' = admitted /\ faults' = faults
    BY <1>9 DEF Reject, Leave
  <2>2. Undecided(c)' = Undecided(c)
    BY <2>1 DEF Undecided, TypeOK, RequestType, WindowType
  <2>3. CASE r \in current /\ client[r] = c
    <3>1. count[c] > MaxRequests
      BY <2>1, <2>3 DEF Serving, TypeOK, RequestType, KeyType
    <3>2. Used(c)' = Used(c)
      BY <2>1 DEF Used
    <3> QED
      BY <1>1, <2>1, <2>2, <3>1, <3>2 DEF Balance
  <2>4. CASE ~(r \in current /\ client[r] = c)
    <3>1. refused'[c] = refused[c]
      BY <1>9, <2>4 DEF Reject, TypeOK, WindowType
    <3> QED
      BY <1>1, <1>3, <2>1, <2>2, <3>1, BalanceKept
  <2> QED
    BY <2>3, <2>4
<1>10. CASE Tick
  BY <1>1, <1>10, DropBalance DEF Tick
<1>11. CASE Crash
  <2>1. Undecided(c)' = {}
    BY <1>11 DEF Crash, Undecided
  <2>2. Cardinality(Undecided(c)') = 0
    BY <2>1, FS_EmptySet
  <2>3. faults' # 0 /\ admitted' = admitted /\ Used(c)' = Used(c)
    BY <1>3, <1>11 DEF Crash, Fault, Used
  <2> QED
    BY <1>1, <1>2, <1>3, <2>2, <2>3 DEF Balance, Used
<1>12. CASE UNCHANGED vars
  BY <1>1, <1>3, <1>12, BalanceKept DEF vars, Undecided
<1> QED
  BY <1>4, <1>5, <1>6, <1>7, <1>8, <1>9, <1>10, <1>11, <1>12
     DEF Next, ServeStep

\* Every step without a fault leaves an open window with its end, or with a
\* request that is about to set it.
LEMMA WindowStep ==
  TypeOK /\ Serving /\ WindowCloses /\ [Next]_vars => WindowCloses'
<1> SUFFICES ASSUME TypeOK, Serving, WindowCloses, [Next]_vars
             PROVE  WindowCloses'
  OBVIOUS
<1> USE DEF TypeOK, KeyType, RequestType, WindowCloses
<1>1. ASSUME NEW r \in Requests, NEW d \in Clients, Incr(r, d)
      PROVE  WindowCloses'
  BY <1>1, IncreasedFacts DEF Incr, Increased
<1>2. ASSUME NEW d \in Clients, IncrFails(d) PROVE WindowCloses'
  BY <1>2 DEF IncrFails, Fault
<1>3. ASSUME NEW r \in Requests, Expire(r) PROVE WindowCloses'
  <2>1. client[r] \in Clients /\ client' = client /\ faults' = faults
    BY <1>3 DEF Expire, Serving
  <2>2. SUFFICES ASSUME NEW c \in Clients,
                        count'[c] > 0, ttl'[c] = NoExpiry, faults = 0
                 PROVE  \E q \in Requests : pc'[q] = "expiring" /\ client[q] = c
    BY <2>1
  <2>3. c # client[r]
    <3>1. CASE window > 0
      BY <1>3, <2>1, <2>2, <3>1 DEF Expire, NoExpiry
    <3>2. CASE ~(window > 0)
      BY <1>3, <2>1, <2>2, <3>2 DEF Expire, Drop
    <3> QED
      BY <3>1, <3>2
  <2>4. count[c] > 0 /\ ttl[c] = NoExpiry
    <3>1. CASE window > 0
      BY <1>3, <2>1, <2>2, <2>3, <3>1 DEF Expire
    <3>2. CASE ~(window > 0)
      BY <1>3, <2>1, <2>2, <2>3, <3>2 DEF Expire, Drop
    <3> QED
      BY <3>1, <3>2
  <2>5. PICK q \in Requests : pc[q] = "expiring" /\ client[q] = c
    BY <2>2, <2>4
  <2>6. pc'[q] = "expiring"
    BY <1>3, <2>3, <2>5 DEF Expire
  <2> QED
    BY <2>5, <2>6
<1>4. ASSUME NEW r \in Requests, ExpireFails(r) PROVE WindowCloses'
  BY <1>4 DEF ExpireFails, Fault
<1>5. ASSUME NEW r \in Requests, Admit(r) \/ Reject(r) PROVE WindowCloses'
  BY <1>5 DEF Admit, Reject, Leave
<1>6. CASE Tick
  BY <1>6 DEF Tick, Drop
<1>7. CASE Crash
  BY <1>7 DEF Crash, Fault
<1>8. CASE UNCHANGED vars
  BY <1>8 DEF vars
<1> QED
  BY <1>1, <1>2, <1>3, <1>4, <1>5, <1>6, <1>7, <1>8 DEF Next, ServeStep

\* The inductive invariant holds in every behaviour.
THEOREM Invariance == Spec => []IInv
<1>1. IInv /\ [Next]_vars => IInv'
  BY TypeStep, ServingStep, BalanceStep, WindowStep DEF IInv
<1> QED
  BY InitHolds, <1>1, PTL DEF Spec

--------------------------------------------------------------------------
(* What follows from it. *)

\* Every variable keeps its type.
THEOREM TypeCorrect == Spec => []TypeOK
  BY Invariance, PTL DEF IInv

\* No window lets more than maxRequests through, however many requests of a
\* client are in flight and whatever fails.
THEOREM LimitHolds == Spec => []LimitKept
<1>1. IInv => LimitKept
  <2> SUFFICES ASSUME IInv, NEW c \in Clients PROVE admitted[c] <= MaxRequests
    BY DEF LimitKept
  <2>1. Balance(c) /\ count[c] \in Nat /\ admitted[c] \in Nat
    BY DEF IInv, Balanced, TypeOK, KeyType, WindowType
  <2>2. Cardinality(Undecided(c)) \in Nat
    BY UndecidedCounted DEF IInv
  <2> QED
    BY <2>1, <2>2 DEF Balance, Used
<1> QED
  BY Invariance, <1>1, PTL

\* Without faults nobody is refused before the limit is taken up.
THEOREM RefusalsAreFair == Spec => []RefusedOnlyWhenFull
<1>1. IInv => RefusedOnlyWhenFull
  <2> SUFFICES ASSUME IInv, faults = 0, NEW c \in Clients, refused[c]
               PROVE  admitted[c] + Cardinality(Undecided(c)) = MaxRequests
    BY DEF RefusedOnlyWhenFull
  <2>1. Balance(c) /\ count[c] \in Nat
    BY DEF IInv, Balanced, TypeOK, KeyType
  <2> QED
    BY <2>1 DEF Balance, Used
<1> QED
  BY Invariance, <1>1, PTL

\* Without faults every window that opens gets an end.
THEOREM WindowsClose == Spec => []WindowCloses
  BY Invariance, PTL DEF IInv
==========================================================================
