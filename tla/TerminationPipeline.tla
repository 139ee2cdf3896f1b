------------------------- MODULE TerminationPipeline -------------------------
(***************************************************************************)
(* The worker with a termination order: the terminate pipeline, step by    *)
(* step.  A step that stops leaves the order Processing, and the pipeline  *)
(* is run again from its beginning.                                        *)
(***************************************************************************)
EXTENDS Agreement

At(point) == run = point
Goes(point) == run' = point /\ UNCHANGED mptVars

(* MPT fails an order: its subscription is what it was.                    *)
FailOrder ==
    /\ run' = "idle"
    /\ MptHolds(IF master = "Terminating" THEN "Active" ELSE master, subs, "Failed")

TransferSame == UNCHANGED <<transfer, withdrawer>>
Keep == UNCHANGED <<committed, used, jobVars>>

-----------------------------------------------------------------------------
(* fulfill_order of a termination order.  SetupContext changes nothing.    *)
PollTermination ==
    /\ At("idle") /\ order = "Processing" /\ Goes("validate")
    /\ TransferSame /\ UNCHANGED <<group, relationship, missed, entitled, faults>> /\ Keep

BugAnySubscription ==
    /\ At("validate") /\ Goes("transfer")
    /\ TransferSame /\ UNCHANGED <<group, relationship, missed, entitled, faults>> /\ Keep
ValidateTerminationOrder ==
    /\ At("validate")
    /\ IF master = "Terminating" THEN Goes("transfer") ELSE FailOrder
    /\ TransferSame /\ UNCHANGED <<group, relationship, missed, entitled, faults>> /\ Keep

BugForgetsGroup ==
    transfer' = "ENDING" /\ withdrawer' = "order" /\ Goes("entitlements")

(* AWS ends the transfer with the month; it may refuse the date of a       *)
(* transfer that nobody has ended yet.                                     *)
EndTransfer ==
    \/ /\ transfer' = "ENDING" /\ withdrawer' = "order" /\ Goes("group")
    \/ /\ transfer = "ACCEPTED" /\ FailOrder /\ TransferSame

BugEndsBeforeCommitment ==
    /\ At("transfer") /\ Accepted
    /\ transfer' = "ENDING" /\ withdrawer' = "order"
    /\ IF committed = "accepted" THEN FailOrder ELSE Goes("group")
    /\ UNCHANGED <<group, relationship, missed, entitled, faults>> /\ Keep
BugRemovesAnyway ==
    /\ At("transfer")
    /\ \/ Accepted /\ committed = "over" /\ EndTransfer
       \/ committed # "over" /\ Goes("group") /\ TransferSame
    /\ UNCHANGED <<group, relationship, missed, entitled, faults>> /\ Keep
TerminateResponsibilityTransfer ==
    /\ At("transfer")
    /\ \/ ~Accepted /\ Goes("entitlements") /\ TransferSame
       \/ Accepted /\ committed = "over" /\ EndTransfer
       \/ Accepted /\ committed = "accepted" /\ FailOrder /\ TransferSame
       \/ Accepted /\ committed = "open" /\ Goes("entitlements") /\ TransferSame
    /\ UNCHANGED <<group, relationship, missed, entitled, faults>> /\ Keep

(* An AWS error in the removal of the group or the relationship is logged. *)
RemoveBillingGroup ==
    /\ At("group") /\ Goes("relationship")
    /\ \/ group' = FALSE /\ UNCHANGED faults
       \/ Fault /\ UNCHANGED group
    /\ TransferSame /\ UNCHANGED <<relationship, entitled>> /\ Misses({"group"}) /\ Keep

RemoveRelationship ==
    /\ At("relationship") /\ Goes("entitlements")
    /\ \/ relationship' = FALSE /\ UNCHANGED faults
       \/ Fault /\ UNCHANGED relationship
    /\ TransferSame /\ UNCHANGED <<group, entitled>> /\ Misses({"relationship"}) /\ Keep

TerminateFinOpsEntitlement ==
    /\ At("entitlements")
    /\ \/ entitled = {} /\ Goes("ticket") /\ UNCHANGED entitled
       \/ \E a \in entitled : entitled' = entitled \ {a} /\ UNCHANGED <<run, mptVars>>
    /\ TransferSame /\ UNCHANGED <<group, relationship, missed, faults>> /\ Keep

(* With or without a ticket, the order goes on.                            *)
CRMTicketTerminateOrder ==
    /\ At("ticket") /\ Goes("complete")
    /\ TransferSame /\ UNCHANGED <<group, relationship, missed, entitled, faults>> /\ Keep

CompleteTerminationOrder ==
    /\ At("complete") /\ run' = "idle"
    /\ MptHolds("Terminated", subs, "Completed")
    /\ TransferSame /\ UNCHANGED <<group, relationship, missed, entitled, faults>> /\ Keep

(* A call of the step fails: the run stops, the order is polled again.     *)
TerminationStops ==
    /\ run \in RunPoints \ {"idle", "group", "relationship"} /\ Goes("idle")
    /\ TransferSame /\ UNCHANGED <<group, relationship, missed, entitled, faults>> /\ Keep

(* The worker restarts between two calls of TerminateResponsibilityTransfer. *)
WorkerRestarts ==
    /\ run \in {"group", "relationship"} /\ Goes("idle") /\ Fault
    /\ TransferSame /\ UNCHANGED <<group, relationship, entitled>>
    /\ Misses({run, "relationship"}) /\ Keep

TerminationStep ==
    \/ ValidateTerminationOrder \/ TerminateResponsibilityTransfer
    \/ RemoveBillingGroup \/ RemoveRelationship \/ TerminateFinOpsEntitlement
    \/ CRMTicketTerminateOrder \/ CompleteTerminationOrder
TerminationNext == PollTermination \/ TerminationStep \/ TerminationStops \/ WorkerRestarts
==============================================================================
