---------------------------- MODULE Purchase ----------------------------
(***************************************************************************)
(* What the three services promise together about one order, whatever      *)
(* crashes, connections and clients do:                                    *)
(*                                                                         *)
(*   - a customer is charged for an order that was placed, and once;       *)
(*   - an order is completed only when it is charged, and its outcome      *)
(*     never changes once it has one;                                      *)
(*   - a customer is notified only of an order that is charged.            *)
(*                                                                         *)
(* It does not promise that every charged order is completed: the answer   *)
(* of the payment service may be lost, and nothing compensates.            *)
(*                                                                         *)
(* OrderPipeline implements this specification.                            *)
(***************************************************************************)
CONSTANT Orders

VARIABLES
  outcome,  \* outcome[o]: "none" (not placed), "pending", or the final one
  charged,  \* orders that were paid for
  notified  \* orders whose customer has been sent an email

vars == <<outcome, charged, notified>>

Init ==
  /\ outcome = [o \in Orders |-> "none"]
  /\ charged = {}
  /\ notified = {}

Place(o) ==
  /\ outcome[o] = "none"
  /\ outcome' = [outcome EXCEPT ![o] = "pending"]
  /\ UNCHANGED <<charged, notified>>

Charge(o) ==
  /\ outcome[o] # "none"
  /\ o \notin charged
  /\ charged' = charged \cup {o}
  /\ UNCHANGED <<outcome, notified>>

Complete(o) ==
  /\ outcome[o] = "pending"
  /\ o \in charged
  /\ outcome' = [outcome EXCEPT ![o] = "completed"]
  /\ UNCHANGED <<charged, notified>>

Refuse(o) ==
  /\ outcome[o] = "pending"
  /\ outcome' = [outcome EXCEPT ![o] = "payment_failed"]
  /\ UNCHANGED <<charged, notified>>

Notify(o) ==
  /\ o \in charged
  /\ o \notin notified
  /\ notified' = notified \cup {o}
  /\ UNCHANGED <<outcome, charged>>

Next ==
  \E o \in Orders : Place(o) \/ Charge(o) \/ Complete(o) \/ Refuse(o) \/ Notify(o)

Spec == Init /\ [][Next]_vars
=========================================================================
