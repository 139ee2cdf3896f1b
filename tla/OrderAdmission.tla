---------------------------- MODULE OrderAdmission ----------------------------
(***************************************************************************)
(* The purchase orders of one licensee, client and product: the form the   *)
(* validation endpoint checks, the order once it is placed, the agreement  *)
(* MPT keeps for it, and the one worker that runs the first steps of the   *)
(* purchase pipelines on one order after the other.  A licensee may have   *)
(* one agreement in use; endpoint and worker look for another one (AWS004).*)
(* What follows the invitation is PurchasePipeline's; here it only ends.   *)
(***************************************************************************)
CONSTANTS Orders, NoOrder

ASSUME OrdersAssumption == NoOrder \notin Orders

VARIABLES
    form,       \* account type, account named, instructions shown, no error
    order,      \* status of the order
    agreement,  \* status of the order's agreement
    phase,      \* of the order: "account", "invite", then "begun"
    run,        \* the worker: the order of its run and the step it is at
    late,       \* orders placed while another agreement was in use
    duplicate   \* orders the worker has failed with AWS004

vars == <<form, order, agreement, phase, run, late, duplicate>>

-----------------------------------------------------------------------------
AccountTypes == {"new", "existing"}
InUse == {"Active", "Updating", "Provisioning"}
IdleRun == [at |-> "idle", o |-> NoOrder]

Exists(o) == form[o].type = "existing"

Forms == [type : AccountTypes, named : BOOLEAN, shown : BOOLEAN, valid : BOOLEAN]
Statuses == {"Draft", "Processing", "Querying", "Completed", "Failed"}
AgreementStatuses == InUse \cup {"Draft", "Terminated", "Failed"}
Phases == {"", "account", "invite", "begun"}
Steps == {"setup", "validate", "fail", "env", "invite", "later"}

TypeOK ==
    /\ form \in [Orders -> Forms] /\ order \in [Orders -> Statuses]
    /\ agreement \in [Orders -> AgreementStatuses] /\ phase \in [Orders -> Phases]
    /\ run = IdleRun \/ run \in [at : Steps, o : Orders]
    /\ late \subseteq Orders /\ duplicate \subseteq Orders
    /\ \A o \in Orders : phase[o] = "account" => ~Exists(o)

Init ==
    /\ form \in [Orders -> [type : AccountTypes, named : {FALSE},
                            shown : {FALSE}, valid : {FALSE}]]
    /\ order = [o \in Orders |-> "Draft"] /\ agreement = [o \in Orders |-> "Draft"]
    /\ phase = [o \in Orders |-> ""] /\ run = IdleRun
    /\ late = {} /\ duplicate = {}

-----------------------------------------------------------------------------
(* Mutants: orders not completed do not count; or the order finds itself.   *)
BugFinishedOnly(o) == \E p \in Orders \ {o} : agreement[p] \in {"Active", "Updating"}
BugOwnToo(o) == \E p \in Orders : agreement[p] \in InUse

(* has_previous_order.                                                      *)
HasPrevious(o) == \E p \in Orders \ {o} : agreement[p] \in InUse

(* The form of a draft.                                                     *)
FormOnly == UNCHANGED <<order, agreement, phase, run, late, duplicate>>

EditForm(o) ==
    /\ order[o] = "Draft"
    /\ \E t \in AccountTypes, n \in BOOLEAN :
          form' = [form EXCEPT ![o] = [@ EXCEPT !.type = t, !.named = n, !.valid = FALSE]]
    /\ FormOnly

(* AWS002: the instructions for a new account have been shown already.      *)
Instructed(o) == ~Exists(o) /\ form[o].shown

(* validate_order of a purchase: an error leaves the form as it is; else    *)
(* the constraints of the account type show the instructions and reset the  *)
(* account of a new one, or hide them again.                                *)
ValidateForm(o) ==
    /\ order[o] = "Draft"
    /\ form' = [form EXCEPT ![o] =
                  IF HasPrevious(o) \/ Instructed(o) THEN [@ EXCEPT !.valid = FALSE]
                  ELSE [@ EXCEPT !.valid = TRUE, !.shown = ~Exists(o),
                                 !.named = form[o].named /\ Exists(o)]]
    /\ FormOnly

(* The order is placed on the last answer; its agreement is provisioning    *)
(* from then on.                                                            *)
Place(o) ==
    /\ order[o] = "Draft" /\ form[o].valid /\ (Exists(o) => form[o].named)
    /\ order' = [order EXCEPT ![o] = "Processing"]
    /\ agreement' = [agreement EXCEPT ![o] = "Provisioning"]
    /\ late' = IF HasPrevious(o) THEN late \cup {o} ELSE late
    /\ UNCHANGED <<form, phase, run, duplicate>>

-----------------------------------------------------------------------------
(* The worker.                                                              *)
At(o, step) == run = [at |-> step, o |-> o]
Goto(o, step) == run' = [at |-> step, o |-> o]
SetPhase(o, p) == phase' = [phase EXCEPT ![o] = p]
Stop == run' = IdleRun
Keep == UNCHANGED <<form, late>>

Close(o, status, a) ==
    /\ Stop
    /\ order' = [order EXCEPT ![o] = status]
    /\ agreement' = [agreement EXCEPT ![o] = a]

OrderSame == UNCHANGED <<order, agreement, duplicate>>

Poll(o) ==
    /\ run = IdleRun /\ order[o] = "Processing"
    /\ Goto(o, "setup") /\ UNCHANGED phase /\ OrderSame /\ Keep

(* A mutant: existing accounts begin like new ones.                         *)
BugAccountFirst(o) == "account"
FirstPhase(o) == IF Exists(o) THEN "invite" ELSE "account"

SetupContext(o) ==
    /\ At(o, "setup") /\ Goto(o, "validate")
    /\ IF phase[o] = "" THEN SetPhase(o, FirstPhase(o)) ELSE UNCHANGED phase
    /\ OrderSame /\ Keep

(* The step is skipped outside its phase; the next one that is not follows. *)
AfterValidation(o) ==
    CASE phase[o] = "account" -> "env" [] phase[o] = "invite" -> "invite" [] OTHER -> "later"

ValidateOrder(o) ==
    /\ At(o, "validate")
    /\ Goto(o, IF phase[o] = "invite" /\ HasPrevious(o) THEN "fail" ELSE AfterValidation(o))
    /\ UNCHANGED phase /\ OrderSame /\ Keep

(* A mutant: the run ends and the order stays Processing.                   *)
BugOnlyStops(o) == At(o, "fail") /\ Stop /\ UNCHANGED phase /\ OrderSame /\ Keep

FailDuplicate(o) ==
    /\ At(o, "fail") /\ Close(o, "Failed", "Failed")
    /\ duplicate' = duplicate \cup {o}
    /\ UNCHANGED phase /\ Keep

Query(o) == Close(o, "Querying", agreement[o]) /\ UNCHANGED <<phase, duplicate>>

CreateNewAWSEnvironment(o) ==
    /\ At(o, "env") /\ Keep
    /\ \/ ~form[o].named /\ Query(o)
       \/ form[o].named /\ Goto(o, "invite") /\ SetPhase(o, "invite") /\ OrderSame

(* AWS may refuse the account that is named.                                *)
CreateBillingTransferInvitation(o) ==
    /\ At(o, "invite") /\ Keep
    /\ \/ Query(o)
       \/ form[o].named /\ Goto(o, "later") /\ SetPhase(o, "begun") /\ OrderSame

(* The steps after it end, fail or query the order, if it is still theirs.  *)
LaterSteps(o) ==
    /\ At(o, "later") /\ order[o] = "Processing"
    /\ \/ Close(o, "Completed", "Active") \/ Close(o, "Failed", "Failed")
       \/ Close(o, "Querying", agreement[o])
    /\ UNCHANGED <<phase, duplicate>> /\ Keep

(* A failed call or a restart ends a run anywhere.                          *)
RunStops ==
    /\ run.at # "idle" /\ Stop /\ UNCHANGED phase /\ OrderSame /\ Keep

-----------------------------------------------------------------------------
(* Around the worker.                                                       *)
Around == UNCHANGED <<phase, run, late, duplicate>>

(* The customer, or the cron job, gives a Querying order back.              *)
Resubmit(o) ==
    /\ order[o] = "Querying" /\ order' = [order EXCEPT ![o] = "Processing"]
    /\ \E n \in {TRUE, form[o].named} : form' = [form EXCEPT ![o].named = n]
    /\ UNCHANGED agreement /\ Around

OperatorFails(o) ==
    /\ order[o] = "Processing" /\ phase[o] = "begun"
    /\ order' = [order EXCEPT ![o] = "Failed"]
    /\ agreement' = [agreement EXCEPT ![o] = "Failed"]
    /\ UNCHANGED form /\ Around

(* Termination orders and the agreement sync.                               *)
AgreementMoves(o) ==
    /\ agreement[o] \in {"Active", "Updating"}
    /\ \E a \in {"Active", "Updating", "Terminated"} :
          agreement' = [agreement EXCEPT ![o] = a]
    /\ UNCHANGED <<form, order>> /\ Around

-----------------------------------------------------------------------------
Drafting(o) == EditForm(o) \/ ValidateForm(o) \/ Place(o)
WorkerStep(o) ==
    \/ SetupContext(o) \/ ValidateOrder(o) \/ FailDuplicate(o)
    \/ CreateNewAWSEnvironment(o) \/ CreateBillingTransferInvitation(o) \/ LaterSteps(o)
Environment(o) == Resubmit(o) \/ OperatorFails(o) \/ AgreementMoves(o)

Next == RunStops \/ \E o \in Orders :
            Drafting(o) \/ Poll(o) \/ WorkerStep(o) \/ Environment(o)
Spec == Init /\ [][Next]_vars

(* The worker lists all orders that are Processing again and again, and not *)
(* every run of an order's stops at the same step.                          *)
Fairness ==
    /\ WF_vars(RunStops \/ \E o \in Orders : WorkerStep(o))
    /\ \A o \in Orders : SF_vars(Poll(o)) /\ SF_vars(SetupContext(o))
                         /\ SF_vars(ValidateOrder(o)) /\ SF_vars(FailDuplicate(o))
LiveSpec == Spec /\ Fairness

-----------------------------------------------------------------------------
(* The orders that have gone on to the invitation and hold an agreement.    *)
Admitted == {o \in Orders : phase[o] = "begun" /\ agreement[o] \in InUse}

(* Of two agreements of one licensee in use, one was ordered as a new       *)
(* environment, and on a form validated before the other order was placed:  *)
(* an existing account is invited only where ValidateOrder found no other   *)
(* agreement, and whoever is placed later finds this one.                   *)
OneAgreement ==
    \A o, p \in Admitted : o # p => \E q \in {o, p} : ~Exists(q) /\ q \in late

(* Orders that find each other are not all failed as duplicates: one of     *)
(* those placed is left to the pipeline.                                    *)
LastIsKept ==
    duplicate # {} => \E o \in Orders \ duplicate : order[o] # "Draft"

(* A placed order for an existing account beside an agreement in use is     *)
(* failed, unless the other agreement ends or it was invited before.        *)
Beside(o) ==
    Exists(o) /\ order[o] = "Processing" /\ phase[o] # "begun" /\ HasPrevious(o)
DuplicateIsRefused == \A o \in Orders : Beside(o) ~> ~Beside(o)

(* "A new agreement can only be created with a different licensee"          *)
(* (validate_order.py:38-39), of new and of existing accounts.              *)
OnePerLicensee == \A o, p \in Admitted : o = p
==============================================================================
