--------------------------- MODULE AgreementSystem ---------------------------
(***************************************************************************)
(* An agreement with the worker, the cron job, the customer and AWS, and   *)
(* what must be true of them.                                              *)
(***************************************************************************)
EXTENDS TerminationPipeline, AgreementSync

Init ==
    /\ agreement = "Active" /\ master = "Active" /\ order = "none"
    /\ subs = [NoSubs EXCEPT !.live = Accounts]
    /\ transfer = "ACCEPTED" /\ withdrawer = "nobody"
    /\ committed \in {"open", "accepted"}
    /\ group = TRUE /\ relationship = TRUE
    /\ used = {} /\ unused = [a \in Accounts |-> 0]
    /\ missed = {} /\ entitled = Accounts
    /\ run = "idle" /\ job = IdleJob /\ faults = 0

-----------------------------------------------------------------------------
CustomerKeep == UNCHANGED <<subs, committed, group, relationship, used, missed,
                            entitled, run, jobVars, faults>>

(* The customer orders the end of the master payer's subscription, or of a *)
(* linked account's.                                                       *)
Order(m) ==
    /\ agreement = "Active" /\ MptHolds(m, subs, "Processing")
    /\ withdrawer' = IF withdrawer = "order" THEN "earlier order" ELSE withdrawer
    /\ UNCHANGED transfer /\ CustomerKeep

OrderMaster == master = "Active" /\ Order("Terminating")
OrderLinked == subs.live # {} /\ Order(master)

CustomerWithdraws ==
    /\ transfer = "ACCEPTED" /\ transfer' = "WITHDRAWN" /\ withdrawer' = "customer"
    /\ UNCHANGED mptVars /\ CustomerKeep

-----------------------------------------------------------------------------
AwsKeep == UNCHANGED <<agreement, master, order, withdrawer, group, relationship,
                       missed, entitled, run, faults>>

CommitmentMoves ==
    /\ \/ committed = "open" /\ committed' \in {"accepted", "over"}
       \/ committed = "accepted" /\ committed' = "over"
    /\ AwsKeep /\ UNCHANGED <<subs, transfer, used, jobVars>>

UsageAppears ==
    /\ \E a \in Spending \ used : used' = used \cup {a}
    /\ AwsKeep /\ UNCHANGED <<subs, committed, transfer, jobVars>>

MonthPasses ==
    /\ used' = {} /\ subs' = MonthOn(subs) /\ job' = [job EXCEPT !.snap = MonthOn(@)]
    /\ unused' = [a \in Accounts |->
                    IF unused[a] = Inactivity THEN unused[a] ELSE unused[a] + 1]
    /\ transfer' = IF transfer = "ENDING" THEN "WITHDRAWN" ELSE transfer
    /\ AwsKeep /\ UNCHANGED committed

Environment == OrderMaster \/ OrderLinked \/ CustomerWithdraws
               \/ CommitmentMoves \/ UsageAppears \/ MonthPasses

Next == TerminationNext \/ SyncNext \/ Environment
Spec == Init /\ [][Next]_vars

(* The worker and the cron job are started without end and go on with what *)
(* they run; from some time on the services they call answer, and the      *)
(* customer orders no more what cannot be ordered.                         *)
ServiceDown == TerminationStops \/ PassSkipped

Fairness == /\ WF_vars(PollTermination \/ TerminationStep)
            /\ WF_vars(FetchAgreement \/ PassStep)
            /\ <>[][~ServiceDown /\ ~OrderLinked]_vars
FairSpec == Spec /\ Fairness

-----------------------------------------------------------------------------
(* A subscription whose countdown ends has had no usage on record for all  *)
(* of LINKED_ACCOUNT_INACTIVITY_MONTHS, whatever calls and passes failed,  *)
(* unless the usage is of the very pass that terminates it.                *)
CountdownHonoured ==
    [][\A a \in Accounts :
          (job.at = "expire" /\ a \in subs.live /\ a \notin subs'.live)
             => unused[a] = Inactivity \/ a \in job.found]_vars

(* A termination order that fails has not ended the customer's transfer,   *)
(* whatever retries came before, unless the cron job has ended the master  *)
(* payer's subscription meanwhile.                                         *)
FailedOrderKeepsTransfer ==
    order = "Failed" => (withdrawer # "order" \/ master = "Terminated")

(* A transfer is ended by the worker only for an order on the master payer *)
(* subscription, never for one on a linked account.                        *)
OnlyMasterOrderWithdraws ==
    [][(transfer = "ACCEPTED" /\ transfer' = "ENDING") => master = "Terminating"]_vars

(* The worker and the cron job do not take away the billing group and the  *)
(* relationship of a transfer that goes on.                                *)
TransferInUseIsWhole == transfer = "ACCEPTED" => group /\ relationship

(* When the worker has ended the transfer and the agreement is over, the   *)
(* group and the relationship are gone, whatever calls failed, orders were *)
(* repeated and passes died, but for what the worker itself has not        *)
(* removed because that call failed or it restarted just before; a         *)
(* completed order leaves no entitlement.                                  *)
NothingLeftBehind ==
    (agreement = "Terminated" /\ run = "idle" /\ job.at = "idle")
       => /\ withdrawer \in {"order", "earlier order"} =>
                /\ group => "group" \in missed
                /\ relationship => "relationship" \in missed
          /\ order = "Completed" => entitled = {}

(* An agreement whose transfer is lost is terminated in the end, in spite  *)
(* of passes that died, refused calls and orders that cross them, and      *)
(* stays so.                                                               *)
LostAgreementEnds == <>[](transfer = "WITHDRAWN" => agreement = "Terminated")

(* The worker, the cron job, the customer and AWS together implement the   *)
(* life of an agreement that AgreementLife promises: what ends a transfer, *)
(* a subscription or an agreement, and that what is over stays over.       *)
Life == INSTANCE AgreementLife WITH
    payer <- master, live <- subs.live, over <- committed = "over", seen <- job.found

ImplementsLife == Life!Spec

(* The documented rule: a countdown terminates the subscription of an      *)
(* account without usage (docs/architecture.md:56).                        *)
OnlyUnusedTerminated ==
    [][\A a \in Accounts :
          (job.at = "expire" /\ a \in subs.live /\ a \notin subs'.live)
             => a \notin job.found]_vars
==============================================================================
