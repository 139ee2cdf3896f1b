---------------------------- MODULE PurchaseOrder ----------------------------
(***************************************************************************)
(* The state one purchase order is fulfilled with: what the marketplace    *)
(* (MPT) stores of it, the copies of it the worker process and the         *)
(* querying cron job hold in memory, and what exists for it in the         *)
(* external systems.  PurchasePipeline and QueryingJob give the actions of *)
(* the two processes, PurchaseSystem composes them with the environment.   *)
(*                                                                         *)
(* A fulfillment parameter that stores the id of an external resource is   *)
(* params.id[kind]: 0 while unset, else the number of the resource among   *)
(* the made[kind] ones the extension has created.                          *)
(***************************************************************************)
EXTENDS Naturals, FiniteSets

CONSTANTS
    MPAs,            \* master payer accounts the customer may name
    NoMpa,           \* the masterPayerID parameter has no value
    AccountTypes,    \* of the orders considered, a subset of {"new", "existing"}
    SupportTypes,    \* of the orders considered, a subset of {"PLS", "RESOLD"}
    RolesTimeout,    \* CUSTOMER_ROLES_QUERYING_TIMEOUT_DAYS
    QueryTimeout,    \* QUERYING_TIMEOUT_DAYS
    MaxAge,          \* bound on the age of a Querying period
    MaxMade,         \* bound on the resources of one kind
    MaxFaults,       \* bound on crashes, failed saves and lost ids
    MaxResubmits     \* bound on the times a customer resubmits the order

ASSUME MpaAssumption == NoMpa \notin MPAs
ASSUME OrderAssumption ==
    AccountTypes \subseteq {"new", "existing"} /\ SupportTypes \subseteq {"PLS", "RESOLD"}
ASSUME BoundAssumption ==
    /\ RolesTimeout \in Nat /\ QueryTimeout \in Nat /\ MaxAge \in Nat
    /\ MaxMade \in Nat /\ MaxFaults \in Nat /\ MaxResubmits \in Nat

VARIABLES
    account, support,   \* what was ordered; never changes
    status, params,     \* the order as MPT stores it
    age,                \* days since audit.querying.at
    vendor,             \* externalIds.vendor of the agreement
    run,                \* the worker's context of the order
    notified,           \* order id in notified_order_ids of the worker process
    emails,             \* deployment error emails sent
    job,                \* the cron job's context of the order
    made,               \* number of resources created, per kind
    transferStatus, transferMpa,  \* AWS: responsibility transfers, by number
    handshakeStatus,    \* AWS: channel handshakes, by number
    rolesUp,            \* the customer has deployed the roles
    execution,          \* Cloud Orchestrator: outcome of the onboarding
    openTickets,        \* CRM: customer role tickets not resolved
    faults, resubmits,  \* how often the bounded events have happened
    lost                \* some write replaced parameters its writer had not read

orderVars == <<status, params, age, vendor>>
awsVars   == <<transferStatus, transferMpa, handshakeStatus, rolesUp, execution>>
crmVars   == <<made, openTickets>>
alertVars == <<notified, emails>>
vars == <<account, support, orderVars, run, alertVars, job, awsVars, crmVars,
          faults, resubmits, lost>>

-----------------------------------------------------------------------------
Phases ==
    {"", "createAccount", "createBillingTransferInvitation",
     "checkBillingTransferInvitation", "configureApnProgram",
     "createChannelHandshake", "checkChannelHandshakeStatus",
     "checkCustomerRoles", "onboardServices", "checkOnboardStatus",
     "createSubscription", "projectCreation", "completed"}

Statuses == {"Processing", "Querying", "Completed", "Failed"}

Kinds == {"newTicket", "transfer", "group", "relationship", "handshake",
          "failTicket", "rolesTicket", "execution", "contract", "project",
          "plsTicket", "onboardTicket"}
Resources == Kinds \cup {"subscription"}

(* DECLINED stands for every INVALID_RESPONSIBILITY_TRANSFER_STATUS and     *)
(* REJECTED for every handshake status that is neither of the other two.   *)
TransferStatuses == {"REQUESTED", "ACCEPTED", "DECLINED", "WITHDRAWN"}
HandshakeStatuses == {"PENDING", "ACCEPTED", "REJECTED"}
None == "none"

Ids == 1..MaxMade

Params == [phase : Phases, mpa : MPAs \cup {NoMpa}, mpaErr : BOOLEAN,
           roles : {"", "no", "yes"}, approved : {"", "no", "yes"},
           errSent : BOOLEAN, id : [Kinds -> 0..MaxMade]]

Steps == {"setup", "validate", "newTicket", "createEnv", "createTransfer",
          "checkTransfer", "configureApn", "createHandshake", "checkHandshake",
          "checkRoles", "failTicket", "onboard", "checkOnboard",
          "createSubscription", "contract", "project", "plsTicket",
          "onboardTicket", "complete"}

(* run: process of the step to be executed; record, alert and email: inside *)
(* process, after an external effect; save: post_step to be executed.       *)
Modes == {"run", "record", "alert", "email", "save"}

FreshParams(mpa) ==
    [phase |-> "", mpa |-> mpa, mpaErr |-> FALSE, roles |-> "", approved |-> "",
     errSent |-> FALSE, id |-> [k \in Kinds |-> 0]]

IdleRun == [at |-> "idle", mode |-> "run", p |-> FreshParams(NoMpa), fresh |-> TRUE]
IdleJob == [at |-> "idle", p |-> FreshParams(NoMpa), age |-> 0, fresh |-> TRUE]

RunType == [at : Steps \cup {"idle"}, mode : Modes, p : Params, fresh : BOOLEAN]
JobType == [at : {"idle", "look", "saveTicket", "savePhase", "process"},
            p : Params, age : 0..MaxAge, fresh : BOOLEAN]

TypeOK ==
    /\ account \in {"new", "existing"} /\ support \in {"PLS", "RESOLD"}
    /\ status \in Statuses /\ params \in Params /\ age \in 0..MaxAge
    /\ vendor \in MPAs \cup {NoMpa}
    /\ run \in RunType /\ job \in JobType
    /\ notified \in BOOLEAN /\ emails \in Nat
    /\ made \in [Resources -> 0..MaxMade]
    /\ transferStatus \in [Ids -> TransferStatuses \cup {None}]
    /\ transferMpa \in [Ids -> MPAs \cup {NoMpa}]
    /\ handshakeStatus \in [Ids -> HandshakeStatuses \cup {None}]
    /\ rolesUp \in BOOLEAN
    /\ execution \in {None, "running", "succeeded", "failed"}
    /\ openTickets \subseteq Ids
    /\ faults \in 0..MaxFaults /\ resubmits \in 0..MaxResubmits
    /\ lost \in BOOLEAN

-----------------------------------------------------------------------------
(* The platform accepts update_order while the order is open.              *)
Editable == status \in {"Processing", "Querying"}

WithPhase(p, ph) == [p EXCEPT !.phase = ph]
WithId(p, kind, n) == [p EXCEPT !.id[kind] = n]

(* A context whose stored order another writer has replaced.               *)
Overtaken(ctx, p) ==
    IF ctx.at = "idle" \/ p = params THEN ctx ELSE [ctx EXCEPT !.fresh = FALSE]

(* Every MPT call sends the whole parameters section of the caller's own   *)
(* copy of the order.                                                      *)
Store(p, ctx) ==
    /\ params' = p
    /\ lost' = (lost \/ (~ctx.fresh /\ p # params))

CanMake(kind) == made[kind] < MaxMade
Made(kind) == [made EXCEPT ![kind] = @ + 1]

Fault == faults < MaxFaults /\ faults' = faults + 1
==============================================================================
