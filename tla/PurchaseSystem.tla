---------------------------- MODULE PurchaseSystem ----------------------------
(***************************************************************************)
(* A purchase order under fulfillment: the worker, the querying cron job,  *)
(* the customer, the services they wait for, and the operator.             *)
(***************************************************************************)
EXTENDS PurchasePipeline, QueryingJob

Init ==
    /\ account \in AccountTypes /\ support \in SupportTypes
    /\ status = "Processing" /\ age = 0 /\ vendor = NoMpa
    /\ \E mpa \in MPAs \cup {NoMpa} :
          /\ account = "new" => mpa = NoMpa
          /\ params = FreshParams(mpa)
    /\ run = IdleRun /\ notified = FALSE /\ emails = 0
    /\ job = IdleJob
    /\ made = [r \in Resources |-> 0] /\ openTickets = {}
    /\ transferStatus = [i \in Ids |-> None]
    /\ transferMpa = [i \in Ids |-> NoMpa]
    /\ handshakeStatus = [i \in Ids |-> None]
    /\ rolesUp = FALSE /\ execution = None
    /\ faults = 0 /\ resubmits = 0 /\ lost = FALSE

-----------------------------------------------------------------------------
EnvKeep == UNCHANGED <<account, support, vendor, alertVars, faults>>

(* The customer moves a Querying order back to Processing; the account is  *)
(* open to edit where the pipeline has marked it as wrong.                 *)
CustomerResubmits ==
    /\ status = "Querying" /\ resubmits < MaxResubmits
    /\ status' = "Processing" /\ age' = 0 /\ resubmits' = resubmits + 1
    /\ \E mpa \in MPAs \cup {params.mpa} :
          LET p == [params EXCEPT !.mpa = mpa]
          IN  /\ mpa # params.mpa => params.mpaErr
              /\ params' = p
              /\ run' = Overtaken(run, p) /\ job' = Overtaken(job, p)
    /\ UNCHANGED <<lost, awsVars, crmVars>> /\ EnvKeep

(* The customer, or AWS when it expires, settles an invitation; an accepted *)
(* transfer can be withdrawn.                                              *)
TransferSettles ==
    /\ \E i \in Ids, answer \in {"ACCEPTED", "DECLINED", "WITHDRAWN"} :
          /\ transferStatus[i] = IF answer = "WITHDRAWN" THEN "ACCEPTED" ELSE "REQUESTED"
          /\ transferStatus' = [transferStatus EXCEPT ![i] = answer]
    /\ UNCHANGED <<orderVars, run, job, lost, resubmits, transferMpa,
                   handshakeStatus, rolesUp, execution, crmVars>> /\ EnvKeep

HandshakeSettles ==
    /\ \E i \in Ids, answer \in HandshakeStatuses \ {"PENDING"} :
          /\ handshakeStatus[i] = "PENDING"
          /\ handshakeStatus' = [handshakeStatus EXCEPT ![i] = answer]
    /\ UNCHANGED <<orderVars, run, job, lost, resubmits, transferStatus,
                   transferMpa, rolesUp, execution, crmVars>> /\ EnvKeep

RolesDeployed ==
    /\ ~rolesUp /\ rolesUp' = TRUE
    /\ UNCHANGED <<orderVars, run, job, lost, resubmits, transferStatus,
                   transferMpa, handshakeStatus, execution, crmVars>> /\ EnvKeep

OnboardingEnds ==
    /\ execution = "running" /\ execution' \in {"succeeded", "failed"}
    /\ UNCHANGED <<orderVars, run, job, lost, resubmits, transferStatus,
                   transferMpa, handshakeStatus, rolesUp, crmVars>> /\ EnvKeep

TicketResolved ==
    /\ CanMake("rolesTicket")
    /\ \E i \in openTickets : openTickets' = openTickets \ {i}
    /\ UNCHANGED <<orderVars, run, job, lost, resubmits, awsVars, made>> /\ EnvKeep

(* The operator fails the order CreateSubscription asks to fail manually.  *)
OperatorFails ==
    /\ status = "Processing" /\ params.phase = "createSubscription"
    /\ PlsWithoutRoles(params)
    /\ status' = "Failed"
    /\ UNCHANGED <<params, age, run, job, lost, resubmits, awsVars, crmVars>> /\ EnvKeep

DayPasses ==
    /\ status = "Querying" /\ age < MaxAge
    /\ age' = age + 1
    /\ job' = IF job.at = "idle" \/ job.age = MaxAge THEN job
              ELSE [job EXCEPT !.age = @ + 1]
    /\ UNCHANGED <<status, params, run, lost, resubmits, awsVars, crmVars>> /\ EnvKeep

Environment == \/ CustomerResubmits \/ TransferSettles \/ HandshakeSettles
               \/ RolesDeployed \/ OnboardingEnds \/ TicketResolved
               \/ OperatorFails \/ DayPasses

Next == WorkerNext \/ JobNext \/ Environment
Spec == Init /\ [][Next]_vars

-----------------------------------------------------------------------------
(* The worker polls without end and goes on with what it runs; from some    *)
(* time on the services its steps call answer.  The cron job is started     *)
(* without end and reaches its services now and then; days pass and Cloud   *)
(* Orchestrator ends what it runs.  Nothing is asked of the customer, of    *)
(* the AWS invitations, of the operator, or of a fault.                     *)
ServiceDown == StepFails \/ (SetupContext /\ run'.at = "idle")

Fairness ==
    /\ WF_vars(Poll \/ WorkerStep) /\ <>[][~ServiceDown]_vars
    /\ WF_vars(FetchOrder) /\ SF_vars(JobStep)
    /\ WF_vars(DayPasses) /\ WF_vars(OnboardingEnds)

FairSpec == Spec /\ Fairness
==============================================================================
