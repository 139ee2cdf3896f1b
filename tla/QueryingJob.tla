----------------------------- MODULE QueryingJob -----------------------------
(***************************************************************************)
(* The order_querying_processor cron job.  It fetches the purchase orders  *)
(* that are Querying and treats each by the processor of its phase, on the *)
(* copy it fetched: by the time a processor saves that copy, the customer  *)
(* may have resubmitted the order and the worker may have run it.          *)
(***************************************************************************)
EXTENDS PurchaseOrder

JobPhases == {"checkBillingTransferInvitation", "checkChannelHandshakeStatus",
              "checkCustomerRoles"}

JobAt(point) == job.at = point
JobGoes(point, p) == job' = [job EXCEPT !.at = point, !.p = p]
JobDone == job' = IdleJob

JobSame == UNCHANGED <<orderVars, run, lost>>
JobKeep == UNCHANGED <<account, support, alertVars, awsVars, resubmits>>

(* The filter of the orders the job fetches.                               *)
BugAnyStatus == Editable
Fetched == status = "Querying"

FetchOrder ==
    /\ JobAt("idle") /\ Fetched /\ params.phase \in JobPhases
    /\ job' = [at |-> "look", p |-> params, age |-> age, fresh |-> TRUE]
    /\ JobSame /\ UNCHANGED <<crmVars, faults>> /\ JobKeep

(* is_querying_timeout: the job's copy, by audit.querying.at.              *)
BugNeverTimedOut(since, days) == FALSE
TimedOut(since, days) == since > days

(* AWSBillingTransferInvitationProcessor                                   *)
ProcessTransfer ==
    /\ JobAt("look") /\ job.p.phase = "checkBillingTransferInvitation"
    /\ job.p.id["transfer"] # 0
    /\ transferStatus[job.p.id["transfer"]] # "REQUESTED"
    /\ JobGoes("process", job.p)
    /\ JobSame /\ UNCHANGED <<crmVars, faults>> /\ JobKeep

(* AWSChannelHandshakeProcessor                                            *)
ProcessHandshake ==
    /\ JobAt("look") /\ job.p.phase = "checkChannelHandshakeStatus"
    /\ job.p.id["handshake"] # 0
    /\ IF handshakeStatus[job.p.id["handshake"]] # "PENDING"
       THEN JobGoes("process", job.p)
       ELSE /\ TimedOut(job.age, QueryTimeout)
            /\ JobGoes("savePhase", [job.p EXCEPT !.phase = "checkCustomerRoles"])
    /\ JobSame /\ UNCHANGED <<crmVars, faults>> /\ JobKeep

(* The querying timeout of the customer roles, after the ticket's.         *)
RolesDeadline(ctx) ==
    IF TimedOut(ctx.age, QueryTimeout)
    THEN job' = [ctx EXCEPT !.at = "savePhase", !.p.phase = "createSubscription"]
    ELSE JobDone

TicketDue ==
    TimedOut(job.age, RolesTimeout) /\ job.p.id["rolesTicket"] \notin openTickets

(* AWSCustomerRolesProcessor: a reply without an id unsets the parameter.  *)
ProcessRoles ==
    /\ JobAt("look") /\ job.p.phase = "checkCustomerRoles"
    /\ \/ /\ rolesUp
          /\ JobGoes("process", job.p) /\ UNCHANGED <<crmVars, faults>>
       \/ /\ ~rolesUp /\ ~TicketDue
          /\ RolesDeadline(job) /\ UNCHANGED <<crmVars, faults>>
       \/ /\ ~rolesUp /\ TicketDue /\ CanMake("rolesTicket")
          /\ LET n == made["rolesTicket"] + 1
             IN  /\ openTickets' = openTickets \cup {n}
                 /\ \/ JobGoes("saveTicket", WithId(job.p, "rolesTicket", n))
                       /\ UNCHANGED faults
                    \/ JobGoes("saveTicket", WithId(job.p, "rolesTicket", 0)) /\ Fault
          /\ made' = Made("rolesTicket")
    /\ JobSame /\ JobKeep

(* The answer of a save replaces the job's copy, audit included.           *)
Refreshed ==
    [job EXCEPT !.fresh = TRUE, !.age = IF status = "Querying" THEN age ELSE @]

BugForgetsOrder == IF job.at = "savePhase" THEN JobDone ELSE RolesDeadline(Refreshed)
AfterSave ==
    IF job.at = "savePhase" THEN job' = [Refreshed EXCEPT !.at = "process"]
    ELSE RolesDeadline(Refreshed)

(* update_order of the job's copy; MPT refuses it once the order is closed.*)
JobSaves ==
    /\ job.at \in {"saveTicket", "savePhase"}
    /\ IF Editable
       THEN /\ Store(job.p, job) /\ run' = Overtaken(run, job.p)
            /\ AfterSave
       ELSE JobDone /\ UNCHANGED <<params, run, lost>>
    /\ UNCHANGED <<status, age, vendor, crmVars, faults>> /\ JobKeep

(* switch_order_status_to_process: MPT moves only an order that is         *)
(* Querying, and the job ignores its refusal.                              *)
ProcessOrder ==
    /\ JobAt("process") /\ JobDone
    /\ IF status = "Querying"
       THEN /\ status' = "Processing" /\ age' = 0
            /\ Store(job.p, job) /\ run' = Overtaken(run, job.p)
       ELSE UNCHANGED <<status, age, params, run, lost>>
    /\ UNCHANGED <<vendor, crmVars, faults>> /\ JobKeep

(* A processor that finds nothing to do or cannot reach a service leaves   *)
(* the order for the next run of the job.                                  *)
NothingToDo ==
    /\ JobAt("look") /\ JobDone
    /\ JobSame /\ UNCHANGED <<crmVars, faults>> /\ JobKeep

(* The job dies, or a save raises and the loop goes on to the next order.  *)
JobFails ==
    /\ job.at \notin {"idle", "look"}
    /\ JobDone /\ Fault
    /\ JobSame /\ UNCHANGED crmVars /\ JobKeep

JobStep == \/ ProcessTransfer \/ ProcessHandshake \/ ProcessRoles
           \/ JobSaves \/ ProcessOrder
JobNext == FetchOrder \/ JobStep \/ NothingToDo \/ JobFails
==============================================================================
