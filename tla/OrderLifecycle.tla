---------------------------- MODULE OrderLifecycle ----------------------------
(***************************************************************************)
(* What the fulfillment of a purchase order promises, whatever runs it and *)
(* in whatever order its parts fail: nothing is sold to a customer who has *)
(* not handed over the billing, Partner-Led-Support is sold only where the *)
(* roles are deployed, at most one subscription is sold, and only an order *)
(* that is sold, under an account the agreement names, completes.          *)
(***************************************************************************)
VARIABLES
    pls,        \* the order is for Partner-Led Support
    order,      \* open, waiting for the customer, completed or failed
    accepted,   \* a billing transfer of the order was accepted
    deployed,   \* the customer's roles are deployed
    sold,       \* subscriptions created for the order
    named       \* the agreement names the customer's account

vars == <<pls, order, accepted, deployed, sold, named>>

Init ==
    /\ pls \in BOOLEAN /\ order = "open"
    /\ accepted = FALSE /\ deployed = FALSE /\ sold = 0 /\ named = FALSE

Accept == accepted' = TRUE /\ UNCHANGED <<pls, order, deployed, sold, named>>

Deploy == deployed' = TRUE /\ UNCHANGED <<pls, order, accepted, sold, named>>

Wait   == /\ order = "open" /\ order' = "waiting"
          /\ UNCHANGED <<pls, accepted, deployed, sold, named>>

Resume == /\ order = "waiting" /\ order' = "open"
          /\ UNCHANGED <<pls, accepted, deployed, sold, named>>

Sell ==
    /\ order \in {"open", "waiting"} /\ accepted /\ (pls => deployed) /\ sold = 0
    /\ sold' = 1
    /\ UNCHANGED <<pls, order, accepted, deployed, named>>

Name ==
    /\ sold = 1 /\ named' = TRUE
    /\ UNCHANGED <<pls, order, accepted, deployed, sold>>

Complete ==
    /\ order = "open" /\ sold = 1 /\ named
    /\ order' = "completed"
    /\ UNCHANGED <<pls, accepted, deployed, sold, named>>

Fail ==
    /\ order = "open" /\ order' = "failed"
    /\ UNCHANGED <<pls, accepted, deployed, sold, named>>

Next == Accept \/ Deploy \/ Wait \/ Resume \/ Sell \/ Name \/ Complete \/ Fail

Spec == Init /\ [][Next]_vars
==============================================================================
