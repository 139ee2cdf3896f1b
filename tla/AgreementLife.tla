---------------------------- MODULE AgreementLife ----------------------------
(***************************************************************************)
(* What the worker and the cron job promise together of an agreement after *)
(* its purchase, whichever of them acts, in whatever order their calls     *)
(* come and fail: a transfer in use is ended only for an order on the      *)
(* master payer's subscription whose commitment is over, and such an order *)
(* is not turned down once it has; what belongs to the transfer goes after *)
(* it; a subscription begins with usage and ends with a reason; and an     *)
(* agreement without a subscription stays without.                         *)
(***************************************************************************)
EXTENDS Naturals

CONSTANTS Accounts, Master, Inactivity

VARIABLES
    payer,          \* the master payer's subscription
    live,           \* linked accounts with a subscription
    entitled,       \* linked accounts with a FinOps entitlement
    transfer,       \* ACCEPTED, ENDING with the month, or WITHDRAWN
    over,           \* the commitment of the transfer is over
    group, relationship,    \* what the purchase has created for the transfer
    used,           \* accounts with usage in this month
    seen,           \* those of them that the job knows of
    unused          \* months without recorded usage

bill == <<transfer, over>>
resources == <<group, relationship>>
usage == <<used, seen, unused>>
vars == <<payer, live, entitled, bill, resources, usage>>

Init ==
    /\ payer = "Active" /\ live = Accounts /\ entitled = Accounts
    /\ transfer = "ACCEPTED" /\ over = FALSE /\ group = TRUE /\ relationship = TRUE
    /\ used = {} /\ seen = {} /\ unused = [a \in Accounts |-> 0]

Ended == payer = "Terminated" /\ live = {}

-----------------------------------------------------------------------------
(* The order of the master payer's subscription.                           *)
PayerKeep == UNCHANGED <<live, bill, resources, usage>>

OrderEnd == /\ payer = "Active" /\ payer' = "Terminating"
            /\ UNCHANGED entitled /\ PayerKeep

TurnDown == /\ payer = "Terminating" /\ transfer = "ACCEPTED" /\ payer' = "Active"
            /\ UNCHANGED entitled /\ PayerKeep

Revoke(a) == /\ payer = "Terminating" \/ transfer = "WITHDRAWN"
             /\ entitled' = entitled \ {a}
             /\ UNCHANGED payer /\ PayerKeep

Complete == /\ payer = "Terminating" /\ entitled = {} /\ payer' = "Terminated"
            /\ UNCHANGED entitled /\ PayerKeep

-----------------------------------------------------------------------------
(* The transfer, and what goes after it.                                   *)
BillKeep == UNCHANGED <<payer, live, entitled, usage>>

CommitmentEnds == over' = TRUE /\ UNCHANGED <<transfer, resources>> /\ BillKeep

EndTransfer == /\ transfer = "ACCEPTED" /\ over /\ payer = "Terminating"
               /\ transfer' = "ENDING"
               /\ UNCHANGED <<over, resources>> /\ BillKeep

CustomerWithdraws == /\ transfer = "ACCEPTED" /\ transfer' = "WITHDRAWN"
                     /\ UNCHANGED <<over, resources>> /\ BillKeep

CleanUp == /\ transfer # "ACCEPTED"
           /\ \/ group' = FALSE /\ UNCHANGED relationship
              \/ relationship' = FALSE /\ UNCHANGED group
           /\ UNCHANGED bill /\ BillKeep

-----------------------------------------------------------------------------
(* Usage and the subscriptions it begins.                                  *)
UsageKeep == UNCHANGED <<entitled, over, resources>>

Use(a) == used' = used \cup {a}
          /\ UNCHANGED <<payer, live, transfer, seen, unused>> /\ UsageKeep

See == /\ seen' \in {{}} \cup SUBSET used
       /\ UNCHANGED <<payer, live, transfer, used, unused>> /\ UsageKeep

Record(a) == /\ a \in seen /\ unused' = [unused EXCEPT ![a] = 0]
             /\ UNCHANGED <<payer, live, transfer, used, seen>> /\ UsageKeep

MonthPasses ==
    /\ used' = {}
    /\ unused' = [a \in Accounts |->
                    IF unused[a] = Inactivity THEN unused[a] ELSE unused[a] + 1]
    /\ transfer' = IF transfer = "ENDING" THEN "WITHDRAWN" ELSE transfer
    /\ UNCHANGED <<payer, live, seen>> /\ UsageKeep

Subscribe(a) == /\ a \in seen /\ ~Ended
                /\ live' = live \cup {a} /\ unused' = [unused EXCEPT ![a] = 0]
                /\ UNCHANGED <<payer, transfer, used, seen>> /\ UsageKeep

SubscribePayer == /\ Master \in seen /\ payer = "Terminated" /\ ~Ended
                  /\ payer' = "Active"
                  /\ UNCHANGED <<live, transfer, usage>> /\ UsageKeep

(* The countdown of an account is over; or it has just been seen in use,   *)
(* too late.  Or the transfer is lost.                                     *)
Unsubscribe(a) == /\ unused[a] = Inactivity \/ a \in seen \/ transfer = "WITHDRAWN"
                  /\ live' = live \ {a}
                  /\ UNCHANGED <<payer, transfer, usage>> /\ UsageKeep

UnsubscribePayer == /\ transfer = "WITHDRAWN" /\ payer' = "Terminated"
                    /\ UNCHANGED <<live, transfer, usage>> /\ UsageKeep

-----------------------------------------------------------------------------
Next ==
    \/ OrderEnd \/ TurnDown \/ Complete
    \/ CommitmentEnds \/ EndTransfer \/ CustomerWithdraws \/ CleanUp
    \/ See \/ MonthPasses \/ SubscribePayer \/ UnsubscribePayer
    \/ \E a \in Accounts : Revoke(a) \/ Record(a) \/ Subscribe(a) \/ Unsubscribe(a)
    \/ \E a \in Accounts \cup {Master} : Use(a)

Spec == Init /\ [][Next]_vars
==============================================================================
