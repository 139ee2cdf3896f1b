--------------------------- MODULE PurchasePipeline ---------------------------
(***************************************************************************)
(* The worker process: the purchase pipeline it runs on its own copy of an *)
(* order that is Processing.  One action per step's process, with the step *)
(* base class's handling of its outcome; an external call and the save     *)
(* that records it are different actions, a crash may fall between them.   *)
(***************************************************************************)
EXTENDS PurchaseOrder, Sequences

Pipeline ==
    << "setup", "validate", "newTicket", "createEnv", "createTransfer",
       "checkTransfer", "configureApn", "createHandshake", "checkHandshake",
       "checkRoles", "failTicket", "onboard", "checkOnboard",
       "createSubscription", "contract", "project", "plsTicket",
       "onboardTicket", "complete" >>

Position == [s \in Steps |-> CHOOSE i \in 1..Len(Pipeline) : Pipeline[i] = s]

PhaseOf(s) ==
    CASE s = "newTicket"          -> "createAccount"
      [] s = "createEnv"          -> "createAccount"
      [] s = "validate"           -> "createBillingTransferInvitation"
      [] s = "createTransfer"     -> "createBillingTransferInvitation"
      [] s = "checkTransfer"      -> "checkBillingTransferInvitation"
      [] s = "configureApn"       -> "configureApnProgram"
      [] s = "createHandshake"    -> "createChannelHandshake"
      [] s = "checkHandshake"     -> "checkChannelHandshakeStatus"
      [] s = "checkRoles"         -> "checkCustomerRoles"
      [] s = "onboard"            -> "onboardServices"
      [] s = "checkOnboard"       -> "checkOnboardStatus"
      [] s = "createSubscription" -> "createSubscription"
      [] s = "contract"           -> "projectCreation"
      [] s = "project"            -> "projectCreation"
      [] s = "onboardTicket"      -> "completed"
      [] s = "complete"           -> "completed"
      [] OTHER                    -> "any"

(* post_step: the phase the step leaves the order in.                      *)
PhaseAfter(s, phase) ==
    CASE s = "createEnv"          -> "createBillingTransferInvitation"
      [] s = "createTransfer"     -> "checkBillingTransferInvitation"
      [] s = "checkTransfer"      -> "configureApnProgram"
      [] s = "configureApn"       -> "createChannelHandshake"
      [] s = "createHandshake"    -> "checkChannelHandshakeStatus"
      [] s = "checkHandshake"     -> "checkCustomerRoles"
      [] s = "checkRoles"         -> "onboardServices"
      [] s = "onboard"            -> "checkOnboardStatus"
      [] s = "checkOnboard"       -> "createSubscription"
      [] s = "createSubscription" -> "projectCreation"
      [] s = "project"            -> "completed"
      [] OTHER                    -> phase

BugPostedUnknown(s, p) ==
    WithPhase(p, IF s = "project" THEN "complete" ELSE PhaseAfter(s, p.phase))
BugPostedRetries(s, p) ==
    WithPhase(p, IF s = "checkOnboard" /\ execution = "failed" THEN "onboardServices"
                 ELSE PhaseAfter(s, p.phase))
BugPostedSkipsCheck(s, p) ==
    WithPhase(p, IF s = "createTransfer" THEN "configureApnProgram"
                 ELSE PhaseAfter(s, p.phase))
BugPostedSkipsSale(s, p) ==
    WithPhase(p, IF s = "checkOnboard" THEN "projectCreation"
                 ELSE PhaseAfter(s, p.phase))
Posted(s, p) == WithPhase(p, PhaseAfter(s, p.phase))

PLS == support = "PLS"
BugPlsUnset(p) == PLS /\ p.roles = ""
PlsWithoutRoles(p) == PLS /\ p.roles = "no"

(* pre_step: the step is not skipped.                                      *)
BugValidatesAlways(s, p) == s = "validate" \/ PhaseOf(s) \in {"any", p.phase}
InPhase(s, p) == PhaseOf(s) \in {"any", p.phase}

BugNotRecorded(s, p) == TRUE
NotRecorded(s, p) ==
    s \in {"newTicket", "failTicket", "contract", "plsTicket", "onboardTicket"}
        => p.id[s] = 0

Applies(s, p) ==
    /\ InPhase(s, p) /\ NotRecorded(s, p)
    /\ s \in {"newTicket", "createEnv"} => account = "new"
    /\ s = "failTicket" => PlsWithoutRoles(p)
    /\ s = "plsTicket" => PLS

Later(s, p) == {t \in Steps : Position[t] > Position[s] /\ Applies(t, p)}

(* The run goes on with the first of the later steps that applies to p.    *)
Advance(p, fresh) ==
    LET later == Later(run.at, p)
    IN  \/ later = {} /\ run' = IdleRun
        \/ \E t \in later :
              /\ \A u \in later : Position[t] <= Position[u]
              /\ run' = [at |-> t, mode |-> "run", p |-> p, fresh |-> fresh]

At(step) == run.at = step /\ run.mode = "run" /\ Applies(step, run.p)
Then(mode, p) == run' = [run EXCEPT !.mode = mode, !.p = p]
Stop == run' = IdleRun

-----------------------------------------------------------------------------
(* The platform changes the status only of an order that is Processing;    *)
(* any other answer is an exception that ends the run.                     *)
Close(newStatus, p) ==
    /\ Stop
    /\ IF status = "Processing"
       THEN /\ status' = newStatus
            /\ Store(p, run)
            /\ job' = Overtaken(job, p)
            /\ age' = 0
       ELSE UNCHANGED <<status, params, age, job, lost>>
    /\ UNCHANGED vendor

QueryOrder(p) ==
    /\ Close("Querying", p)
    /\ UNCHANGED <<awsVars, crmVars>>

(* An action that only moves the run on.                                   *)
OrderSame == UNCHANGED <<orderVars, job, lost>>
WorldSame == UNCHANGED <<awsVars, crmVars>>
Keep == UNCHANGED <<account, support, resubmits>>

-----------------------------------------------------------------------------
(* fulfill_order gets a copy of an order polled while Processing.          *)
Poll ==
    /\ run.at = "idle" /\ status = "Processing"
    /\ run' = [at |-> "setup", mode |-> "run", p |-> params, fresh |-> TRUE]
    /\ OrderSame /\ WorldSame /\ UNCHANGED <<alertVars, faults>> /\ Keep

(* update_processing_template saves the order when its template is not the *)
(* expected one; the first run sets the catalog's default values and the   *)
(* first phase.                                                            *)
SetupContext ==
    /\ At("setup")
    /\ LET clean == [run.p EXCEPT !.mpaErr = FALSE]
           first == IF account = "new" THEN "createAccount"
                    ELSE "createBillingTransferInvitation"
           begun == [clean EXCEPT !.phase = first, !.roles = "no", !.approved = "no"]
       IN  \/ /\ run.p.phase = "" /\ Editable
              /\ Store(begun, run) /\ job' = Overtaken(job, begun)
              /\ Advance(begun, TRUE)
           \/ /\ run.p.phase # ""
              /\ UNCHANGED <<params, lost, job>> /\ Advance(clean, run.fresh)
           \/ /\ run.p.phase # "" /\ Editable
              /\ Store(run.p, run) /\ job' = Overtaken(job, run.p)
              /\ Advance(clean, TRUE) \/ Stop
    /\ UNCHANGED <<status, age, vendor>> /\ WorldSame
    /\ UNCHANGED <<alertVars, faults>> /\ Keep

(* has_previous_order: another agreement of the licensee is in use.        *)
ValidateOrder ==
    /\ At("validate")
    /\ \/ Close("Failed", run.p)
       \/ Advance(run.p, run.fresh) /\ OrderSame
    /\ WorldSame /\ UNCHANGED <<alertVars, faults>> /\ Keep

(* BaseCRMTicketStep: a reply without an id leaves the parameter unset.    *)
CreateTicket(s) ==
    /\ At(s)
    /\ CanMake(s) /\ made' = Made(s)
    /\ \/ Then("save", WithId(run.p, s, made[s] + 1)) /\ UNCHANGED faults
       \/ Then("save", run.p) /\ Fault
    /\ OrderSame /\ UNCHANGED <<awsVars, openTickets, alertVars>> /\ Keep

TicketSteps == {"newTicket", "failTicket", "plsTicket", "onboardTicket"}
CreateTickets == \E s \in TicketSteps : CreateTicket(s)

CreateNewAWSEnvironment ==
    /\ At("createEnv")
    /\ IF run.p.mpa = NoMpa
       THEN QueryOrder([run.p EXCEPT !.mpaErr = TRUE])
       ELSE Then("save", run.p) /\ OrderSame /\ WorldSame
    /\ UNCHANGED <<alertVars, faults>> /\ Keep

InviteOrganization ==
    /\ run.p.id["transfer"] = 0 /\ run.p.mpa # NoMpa /\ CanMake("transfer")
    /\ LET n == made["transfer"] + 1
       IN  /\ Then("save", WithId(run.p, "transfer", n))
           /\ transferStatus' = [transferStatus EXCEPT ![n] = "REQUESTED"]
           /\ transferMpa' = [transferMpa EXCEPT ![n] = run.p.mpa]
    /\ made' = Made("transfer")
    /\ OrderSame /\ UNCHANGED <<handshakeStatus, rolesUp, execution, openTickets>>

CreateBillingTransferInvitation ==
    /\ At("createTransfer")
    /\ \/ /\ run.p.id["transfer"] # 0
          /\ Then("save", run.p) /\ OrderSame /\ WorldSame
       \/ /\ run.p.id["transfer"] = 0   \* no MPA, or AWS refuses the invitation
          /\ QueryOrder([run.p EXCEPT !.mpaErr = TRUE])
       \/ InviteOrganization
    /\ UNCHANGED <<alertVars, faults>> /\ Keep

CheckBillingTransferInvitation ==
    /\ At("checkTransfer") /\ run.p.id["transfer"] # 0
    /\ LET transfer == transferStatus[run.p.id["transfer"]]
       IN  \/ /\ transfer = "ACCEPTED" /\ CanMake("group")
              /\ Then("save", WithId(run.p, "group", made["group"] + 1))
              /\ made' = Made("group")
              /\ OrderSame /\ UNCHANGED <<awsVars, openTickets>>
           \/ /\ transfer = "DECLINED"
              /\ Close("Failed", run.p) /\ WorldSame
           \/ /\ transfer \in {"REQUESTED", "WITHDRAWN"}
              /\ QueryOrder(run.p)
    /\ UNCHANGED <<alertVars, faults>> /\ Keep

ConfigureAPNProgram ==
    /\ At("configureApn")
    /\ \/ run.p.id["relationship"] # 0 /\ Then("save", run.p) /\ UNCHANGED made
       \/ /\ run.p.id["relationship"] = 0 /\ CanMake("relationship")
          /\ Then("save", WithId(run.p, "relationship", made["relationship"] + 1))
          /\ made' = Made("relationship")
    /\ OrderSame /\ UNCHANGED <<awsVars, openTickets, alertVars, faults>> /\ Keep

CreateChannelHandshake ==
    /\ At("createHandshake")
    /\ \/ /\ run.p.id["handshake"] # 0
          /\ Then("save", run.p) /\ UNCHANGED <<made, handshakeStatus>>
       \/ /\ run.p.id["handshake"] = 0 /\ CanMake("handshake")
          /\ LET n == made["handshake"] + 1
             IN  /\ Then("save", WithId(run.p, "handshake", n))
                 /\ handshakeStatus' = [handshakeStatus EXCEPT ![n] = "PENDING"]
          /\ made' = Made("handshake")
    /\ OrderSame
    /\ UNCHANGED <<transferStatus, transferMpa, rolesUp, execution, openTickets,
                   alertVars, faults>> /\ Keep

CheckChannelHandshakeStatus ==
    /\ At("checkHandshake") /\ run.p.id["handshake"] # 0
    /\ LET handshake == handshakeStatus[run.p.id["handshake"]]
           marked(v) == [run.p EXCEPT !.approved = v]
       IN  \/ /\ handshake = "ACCEPTED"
              /\ Then("save", marked("yes")) /\ OrderSame /\ WorldSame
           \/ handshake = "PENDING" /\ QueryOrder(marked("no"))
           \/ /\ handshake = "REJECTED"
              /\ Then("save", marked("no")) /\ OrderSame /\ WorldSame
    /\ UNCHANGED <<alertVars, faults>> /\ Keep

CheckCustomerRoles ==
    /\ At("checkRoles")
    /\ IF rolesUp
       THEN Then("save", [run.p EXCEPT !.roles = "yes"]) /\ OrderSame /\ WorldSame
       ELSE QueryOrder([run.p EXCEPT !.roles = "no"])
    /\ UNCHANGED <<alertVars, faults>> /\ Keep

(* handle_error: flag the order and mail once; PLS orders stop.            *)
BugFlagOrMemory == ~run.p.errSent \/ ~notified
NotNotified == ~run.p.errSent /\ ~notified

HandleError ==
    IF NotNotified THEN Then("alert", [run.p EXCEPT !.errSent = TRUE])
    ELSE IF PLS THEN Stop
    ELSE Then("save", run.p)

OnboardServices ==
    /\ At("onboard")
    /\ \/ /\ CanMake("execution")
          /\ Then("record", WithId(run.p, "execution", made["execution"] + 1))
          /\ made' = Made("execution") /\ execution' = "running"
       \/ HandleError /\ UNCHANGED <<made, execution>>
    /\ OrderSame
    /\ UNCHANGED <<transferStatus, transferMpa, handshakeStatus, rolesUp, openTickets,
                   alertVars, faults>> /\ Keep

(* While the onboarding runs post_step changes nothing, yet the later      *)
(* steps are still called.                                                 *)
CheckOnboardStatus ==
    /\ At("checkOnboard")
    /\ \/ HandleError
       \/ /\ run.p.id["execution"] # 0 /\ execution = "running"
          /\ Advance(run.p, run.fresh)
       \/ /\ run.p.id["execution"] # 0 /\ execution = "succeeded"
          /\ Then("save", run.p)
    /\ OrderSame /\ WorldSame /\ UNCHANGED <<alertVars, faults>> /\ Keep

(* get_order_subscription_by_external_id                                   *)
BugNoLookUp == TRUE
NotSubscribed == made["subscription"] = 0

CreateSubscription ==
    /\ At("createSubscription") /\ ~PlsWithoutRoles(run.p) /\ Editable
    /\ NotSubscribed => CanMake("subscription")
    /\ made' = IF NotSubscribed THEN Made("subscription") ELSE made
    /\ Then("save", run.p)
    /\ OrderSame /\ UNCHANGED <<awsVars, openTickets, alertVars, faults>> /\ Keep

(* The contract of the account is reused; an error leaves it unset.        *)
ContractCardStep ==
    /\ At("contract")
    /\ \/ Then("save", run.p) /\ UNCHANGED made
       \/ /\ made["contract"] # 0
          /\ Then("save", WithId(run.p, "contract", 1)) /\ UNCHANGED made
       \/ /\ made["contract"] = 0 /\ CanMake("contract")
          /\ Then("save", WithId(run.p, "contract", 1)) /\ made' = Made("contract")
    /\ OrderSame /\ UNCHANGED <<awsVars, openTickets, alertVars, faults>> /\ Keep

SWOJobStep ==
    /\ At("project")
    /\ \/ Then("save", run.p) /\ UNCHANGED made
       \/ /\ run.p.id["project"] = 0 /\ run.p.id["contract"] # 0 /\ CanMake("project")
          /\ Then("save", WithId(run.p, "project", made["project"] + 1))
          /\ made' = Made("project")
    /\ OrderSame /\ UNCHANGED <<awsVars, openTickets, alertVars, faults>> /\ Keep

(* update_agreement, then complete_order (mode "save").                    *)
UpdateAgreement ==
    /\ At("complete")
    /\ vendor' = run.p.mpa
    /\ Then("save", run.p)
    /\ UNCHANGED <<status, params, age, job, lost, alertVars, faults>>
    /\ WorldSame /\ Keep

CompleteOrder ==
    /\ run.at = "complete" /\ run.mode = "save"
    /\ Close("Completed", run.p)
    /\ WorldSame /\ UNCHANGED <<alertVars, faults>> /\ Keep

-----------------------------------------------------------------------------
(* post_step: the new phase and the update_order that saves the context.   *)
PostStep ==
    /\ run.mode = "save" /\ run.at # "complete"
    /\ LET p == Posted(run.at, run.p)
       IN  IF Editable
           THEN Store(p, run) /\ job' = Overtaken(job, p) /\ Advance(p, TRUE)
           ELSE Stop /\ UNCHANGED <<params, job, lost>>
    /\ UNCHANGED <<status, age, vendor>> /\ WorldSame
    /\ UNCHANGED <<alertVars, faults>> /\ Keep

(* The update_order inside process: of OnboardServices after the call and  *)
(* of handle_error before the email.                                       *)
SaveInProcess ==
    /\ run.mode \in {"record", "alert"}
    /\ IF Editable
       THEN /\ Store(run.p, run) /\ job' = Overtaken(job, run.p)
            /\ run' = [run EXCEPT !.mode = IF @ = "record" THEN "save" ELSE "email",
                                  !.fresh = TRUE]
       ELSE Stop /\ UNCHANGED <<params, job, lost>>
    /\ UNCHANGED <<status, age, vendor>> /\ WorldSame
    /\ UNCHANGED <<alertVars, faults>> /\ Keep

SendErrorEmail ==
    /\ run.mode = "email"
    /\ notified' = TRUE /\ emails' = emails + 1
    /\ IF PLS THEN Stop ELSE Then("save", run.p)
    /\ OrderSame /\ WorldSame /\ UNCHANGED faults /\ Keep

(* The step's call fails before it has an effect: UnexpectedStopError,     *)
(* ConfigurationStepError, or an exception pipeline_error_handler raises   *)
(* again.  The order stays as it is stored and is polled again.            *)
StepFails ==
    /\ run.at # "idle" /\ run.mode = "run"
    /\ Stop
    /\ OrderSame /\ WorldSame /\ UNCHANGED <<alertVars, faults>> /\ Keep

(* A save fails, what the step did is not recorded.                        *)
SaveFails ==
    /\ run.mode \in {"record", "alert", "save"}
    /\ Stop /\ Fault
    /\ OrderSame /\ WorldSame /\ UNCHANGED alertVars /\ Keep

(* The worker pod restarts.                                                *)
Restart ==
    /\ Stop /\ Fault /\ notified' = FALSE
    /\ OrderSame /\ WorldSame /\ UNCHANGED emails /\ Keep

WorkerStep ==
    \/ SetupContext \/ ValidateOrder \/ CreateTickets \/ CreateNewAWSEnvironment
    \/ CreateBillingTransferInvitation \/ CheckBillingTransferInvitation
    \/ ConfigureAPNProgram \/ CreateChannelHandshake \/ CheckChannelHandshakeStatus
    \/ CheckCustomerRoles \/ OnboardServices \/ CheckOnboardStatus
    \/ CreateSubscription \/ ContractCardStep \/ SWOJobStep
    \/ UpdateAgreement \/ CompleteOrder \/ PostStep \/ SaveInProcess \/ SendErrorEmail
WorkerNext == Poll \/ WorkerStep \/ StepFails \/ SaveFails \/ Restart
==============================================================================
