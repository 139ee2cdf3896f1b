-------------------------- MODULE PurchaseProperties --------------------------
(***************************************************************************)
(* What must hold of a purchase order under fulfillment.  The properties   *)
(* marked [always] hold whatever is lost, repeated or overwritten; the     *)
(* others say what is kept as long as no stale copy has replaced newer     *)
(* parameters (~lost), and how a fault weakens it.                         *)
(***************************************************************************)
EXTENDS PurchaseSystem

Rank == [ph \in Phases |->
    CASE ph = ""                                -> 0
      [] ph = "createAccount"                   -> 1
      [] ph = "createBillingTransferInvitation" -> 2
      [] ph = "checkBillingTransferInvitation"  -> 3
      [] ph = "configureApnProgram"             -> 4
      [] ph = "createChannelHandshake"          -> 5
      [] ph = "checkChannelHandshakeStatus"     -> 6
      [] ph = "checkCustomerRoles"              -> 7
      [] ph = "onboardServices"                 -> 8
      [] ph = "checkOnboardStatus"              -> 9
      [] ph = "createSubscription"              -> 10
      [] ph = "projectCreation"                 -> 11
      [] ph = "completed"                       -> 12]

Invited      == Phases \ {"", "createAccount", "createBillingTransferInvitation"}
Transferred  == Invited \ {"checkBillingTransferInvitation"}
Related      == Transferred \ {"configureApnProgram"}
HandshakeDue == Related \ {"createChannelHandshake"}
Sold         == {"projectCreation", "completed"}

Set(p, kind) == p.id[kind] # 0

(* The customer has accepted the transfer p names, for the account p names. *)
TransferAccepted(p) ==
    /\ Set(p, "transfer")
    /\ transferStatus[p.id["transfer"]] \in {"ACCEPTED", "WITHDRAWN"}
    /\ transferMpa[p.id["transfer"]] = p.mpa

-----------------------------------------------------------------------------
(* Parts of ParamsFollowPhase: what a copy p of the parameters claims.      *)

InvitationKnown(p) ==
    IF p.phase \in Invited
    THEN /\ p.mpa # NoMpa /\ Set(p, "transfer")
         /\ transferMpa[p.id["transfer"]] = p.mpa
    ELSE ~Set(p, "transfer")

ResourcesKnown(p) ==
    /\ p.phase \in Transferred => TransferAccepted(p) /\ Set(p, "group")
    /\ p.phase \in Related => Set(p, "relationship")
    /\ p.phase \in HandshakeDue => Set(p, "handshake")
    /\ p.phase \in Sold => made["subscription"] > 0
    /\ \A kind \in Kinds : p.id[kind] <= made[kind]

AnswersKnown(p) ==
    /\ p.roles = "yes" => rolesUp
    /\ p.approved = "yes" => /\ Set(p, "handshake")
                             /\ handshakeStatus[p.id["handshake"]] = "ACCEPTED"
    /\ p.phase = "" <=> p.roles = ""

ErrorShown(p) == p.mpaErr => p.phase \in {"createAccount", "createBillingTransferInvitation"}

Consistent(p) ==
    InvitationKnown(p) /\ ResourcesKnown(p) /\ AnswersKnown(p) /\ ErrorShown(p)

(* What the worker's run will save, or has saved.                          *)
RunClaims == IF run.mode = "save" THEN Posted(run.at, run.p) ELSE run.p

(* [always] The phase never runs ahead of the world: an order is past a     *)
(* step only when that step's resource exists, belongs to the order's       *)
(* account and has the answer the step waits for, in the stored parameters, *)
(* in the worker's context and in the cron job's, stale as it may be.       *)
ParamsFollowPhase ==
    /\ Consistent(params)
    /\ Consistent(RunClaims)
    /\ Consistent(job.p)

(* [always] A completed order was provisioned in full: its billing transfer *)
(* was accepted by the account the agreement now names, the billing group,  *)
(* the relationship and the handshake are recorded, one subscription exists. *)
CompletedIsProvisioned ==
    status = "Completed" =>
        /\ TransferAccepted(params) /\ vendor = params.mpa
        /\ \A kind \in {"group", "relationship", "handshake"} : Set(params, kind)
        /\ made["subscription"] > 0

(* [always] A Partner-Led-Support order gets a subscription only when the   *)
(* customer has deployed the roles (CreateSubscription.pre_step), although  *)
(* the cron job moves the order to that phase when the roles time out.      *)
PlsGate == PLS /\ made["subscription"] > 0 => rolesUp

(* Without a stale write, every resource but the subscription is created at *)
(* most once plus once for each crash or lost answer between its creation   *)
(* and the save that records it.                                            *)
OneResourceWithoutFault ==
    ~lost => /\ \A kind \in Kinds \ {"rolesTicket"} : made[kind] <= 1 + faults
             /\ Cardinality(openTickets) <= 1 + faults

(* Without a stale write the customer-facing deployment error is mailed at  *)
(* most once, over retries, errors of two steps and restarts.               *)
OneErrorEmail == ~lost => emails <= 1

(* Without a stale write nothing has been sold to an order that failed.     *)
FailedIsNotSold == status = "Failed" /\ ~lost => made["subscription"] = 0

(* The cron job and the worker overwrite each other only after the customer *)
(* has put the order back to Processing under the job's feet.               *)
StaleWriteNeedsCustomer == lost => resubmits > 0

(* An order that waits is waited for: by a processor of the cron job, which *)
(* may be about to move it, or by the customer who is shown an error.  A    *)
(* fault or a customer's race with the job can break it (AlwaysWatched).    *)
QueryingIsWatched ==
    status = "Querying" /\ faults = 0 /\ resubmits = 0 =>
        params.phase \in JobPhases \/ params.mpaErr \/ job.at = "process"

(* Without a stale write the stored phase never goes back.                  *)
PhaseOnlyAdvances ==
    [][~lost' => Rank[params.phase] <= Rank[params'.phase]]_vars

(* [always] The worker, the cron job and the customer together implement    *)
(* the life of an order that OrderLifecycle promises.                       *)
Lifecycle == INSTANCE OrderLifecycle WITH
    pls      <- PLS,
    order    <- [Processing |-> "open", Querying |-> "waiting",
                 Completed |-> "completed", Failed |-> "failed"][status],
    accepted <- \E i \in Ids : transferStatus[i] \in {"ACCEPTED", "WITHDRAWN"},
    deployed <- rolesUp,
    sold     <- made["subscription"],
    named    <- vendor # NoMpa

ImplementsLifecycle == Lifecycle!Spec

-----------------------------------------------------------------------------
(* Somebody at SoftwareOne has been told that the order needs him.          *)
OperatorTold == PLS /\ (params.errSent \/ Set(params, "failTicket"))

(* Once the billing transfer is accepted the order needs nobody to go on:   *)
(* the timeouts of the cron job end both waits for the customer and errors  *)
(* of the onboarding do not hold an order back, so an order no fault meets  *)
(* is completed, except that a Partner-Led-Support order may stop where an  *)
(* operator has been told of it.                                            *)
AcceptedOrderEnds ==
    params.phase = "configureApnProgram" ~>
        \/ IF PLS THEN status \in {"Completed", "Failed"} \/ OperatorTold
           ELSE status = "Completed"
        \/ faults > 0

-----------------------------------------------------------------------------
(* What the repository says of the program and the code does not do.        *)

(* aws_customer_roles.py:107-110: at the timeout the job is "Updating order *)
(* to processing with Phase CREATE_SUBSCRIPTION": whenever it is done, a    *)
(* Querying order is in a phase one of its processors takes, or shows the   *)
(* customer an error.                                                       *)
AlwaysWatched ==
    status = "Querying" /\ job.at = "idle" =>
        params.phase \in JobPhases \/ params.mpaErr
==============================================================================
