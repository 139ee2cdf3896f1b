----------------------------- MODULE PurchaseTypes -----------------------------
(***************************************************************************)
(* Type correctness of the purchase system, for every value of its         *)
(* constants: the lemmas about the operators the actions are built from,   *)
(* one lemma per process, and the theorem.                                  *)
(***************************************************************************)
EXTENDS PurchaseProperties, TLAPS

(* Editing a parameter keeps the parameters well formed (parameters.py).    *)
LEMMA EditedParams ==
    ASSUME NEW p \in Params
    PROVE  /\ \A ph \in Phases : WithPhase(p, ph) \in Params
           /\ \A kind \in Kinds, n \in 0..MaxMade : WithId(p, kind, n) \in Params
           /\ \A b \in BOOLEAN : [p EXCEPT !.mpaErr = b] \in Params
           /\ \A a \in MPAs \cup {NoMpa} : [p EXCEPT !.mpa = a] \in Params
           /\ \A v \in {"", "no", "yes"} : [p EXCEPT !.roles = v] \in Params
           /\ \A v \in {"", "no", "yes"} : [p EXCEPT !.approved = v] \in Params
           /\ [p EXCEPT !.errSent = TRUE] \in Params
    BY DEF Params, WithPhase, WithId

(* The phase a step leaves an order in is a phase (post_step).              *)
LEMMA PostedParams ==
    ASSUME NEW p \in Params, NEW s
    PROVE  Posted(s, p) \in Params
  <1>1. p.phase \in Phases
    BY DEF Params
  <1>2. PhaseAfter(s, p.phase) \in Phases
    BY <1>1 DEF PhaseAfter, Phases
  <1> QED BY <1>2, EditedParams DEF Posted

LEMMA FreshParamsType ==
    ASSUME NEW a \in MPAs \cup {NoMpa}
    PROVE  FreshParams(a) \in Params
    BY BoundAssumption DEF FreshParams, Params, Phases

LEMMA IdleTypes == IdleRun \in RunType /\ IdleJob \in JobType
    BY FreshParamsType, BoundAssumption DEF IdleRun, IdleJob, RunType, JobType, Modes

(* Marking a context as overtaken keeps it well formed.                     *)
LEMMA OvertakenTypes ==
    ASSUME NEW p
    PROVE  /\ run \in RunType => Overtaken(run, p) \in RunType
           /\ job \in JobType => Overtaken(job, p) \in JobType
    BY DEF Overtaken, RunType, JobType

(* Moving a run on keeps it well formed.                                    *)
LEMMA AdvanceType ==
    ASSUME NEW p \in Params, NEW fresh \in BOOLEAN, Advance(p, fresh)
    PROVE  run' \in RunType
    BY IdleTypes DEF Advance, Later, RunType, Modes

LEMMA ThenType ==
    ASSUME run \in RunType, NEW p \in Params, NEW mode \in Modes, Then(mode, p)
    PROVE  run' \in RunType
    BY DEF Then, RunType

(* Saving a context keeps the state well formed.                            *)
LEMMA StoreTypes ==
    ASSUME TypeOK, NEW p \in Params, NEW ctx, Store(p, ctx)
    PROVE  params' \in Params /\ lost' \in BOOLEAN
    BY DEF Store, TypeOK

(* Closing or querying an order keeps the state well formed.                *)
LEMMA CloseTypes ==
    ASSUME TypeOK, NEW p \in Params, NEW st \in Statuses, Close(st, p)
    PROVE  /\ status' \in Statuses /\ params' \in Params /\ age' \in 0..MaxAge
           /\ vendor' \in MPAs \cup {NoMpa}
           /\ run' \in RunType /\ job' \in JobType /\ lost' \in BOOLEAN
  <1>1. run' \in RunType /\ vendor' = vendor
    BY IdleTypes DEF Close, Stop
  <1>2. CASE status = "Processing"
    BY <1>1, <1>2, OvertakenTypes, BoundAssumption DEF Close, Store, TypeOK
  <1>3. CASE status # "Processing"
    BY <1>1, <1>3 DEF Close, TypeOK
  <1> QED BY <1>2, <1>3

LEMMA FaultType ==
    ASSUME TypeOK, Fault
    PROVE  faults' \in 0..MaxFaults
    BY BoundAssumption DEF Fault, TypeOK

(* Creating a resource numbers it with an id.                               *)
LEMMA MadeTypes ==
    ASSUME TypeOK, NEW kind \in Resources, CanMake(kind)
    PROVE  /\ Made(kind) \in [Resources -> 0..MaxMade]
           /\ made[kind] + 1 \in Ids /\ made[kind] + 1 \in 0..MaxMade
    BY BoundAssumption DEF CanMake, Made, TypeOK, Ids

(* The run's parameters, with what a step records of a new resource.        *)
LEMMA RunParams ==
    ASSUME TypeOK
    PROVE  run.p \in Params /\ run.fresh \in BOOLEAN
    BY DEF TypeOK, RunType

(* The error handling of a deployment step leaves the run well formed.      *)
LEMMA HandleErrorType ==
    ASSUME TypeOK, HandleError
    PROVE  run' \in RunType
    BY RunParams, EditedParams, IdleTypes, ThenType
    DEF HandleError, Stop, TypeOK, Modes

-----------------------------------------------------------------------------
(* The worker process keeps the state well formed.                          *)
LEMMA WorkerTypes ==
    ASSUME TypeOK, WorkerNext
    PROVE  TypeOK'
  <1> USE RunParams, IdleTypes, FaultType
      DEF Keep, OrderSame, WorldSame, orderVars, awsVars, crmVars, alertVars
  <1>1. CASE Poll
    BY <1>1 DEF Poll, TypeOK, RunType, Steps, Modes
  <1>2. CASE SetupContext
    <2> DEFINE clean == [run.p EXCEPT !.mpaErr = FALSE]
               first == IF account = "new" THEN "createAccount"
                        ELSE "createBillingTransferInvitation"
               begun == [clean EXCEPT !.phase = first, !.roles = "no", !.approved = "no"]
    <2>1. clean \in Params /\ begun \in Params
      BY DEF Params, Phases
    <2>2. run' \in RunType
      BY <1>2, <2>1, AdvanceType DEF SetupContext, Stop
    <2>3. /\ params' \in Params /\ lost' \in BOOLEAN /\ job' \in JobType
      <3>1. CASE Store(begun, run) /\ job' = Overtaken(job, begun)
        BY <2>1, <3>1, StoreTypes, OvertakenTypes DEF TypeOK
      <3>2. CASE UNCHANGED <<params, lost, job>>
        BY <3>2 DEF TypeOK
      <3>3. CASE Store(run.p, run) /\ job' = Overtaken(job, run.p)
        BY <3>3, StoreTypes, OvertakenTypes DEF TypeOK
      <3> QED BY <1>2, <3>1, <3>2, <3>3 DEF SetupContext
    <2>4. UNCHANGED <<account, support, status, age, vendor, awsVars, crmVars,
                       alertVars, faults, resubmits>>
      BY <1>2 DEF SetupContext
    <2> QED BY <2>2, <2>3, <2>4 DEF TypeOK
  <1>3. CASE ValidateOrder
    <2>1. CASE Close("Failed", run.p)
      BY <1>3, <2>1, CloseTypes DEF ValidateOrder, TypeOK, Statuses
    <2>2. CASE Advance(run.p, run.fresh) /\ OrderSame
      BY <1>3, <2>2, AdvanceType DEF ValidateOrder, TypeOK
    <2> QED BY <1>3, <2>1, <2>2 DEF ValidateOrder
  <1>4. CASE CreateTickets
    <2>1. PICK s \in TicketSteps : CreateTicket(s)
      BY <1>4 DEF CreateTickets
    <2>2. s \in Kinds /\ s \in Resources
      BY DEF TicketSteps, Kinds, Resources
    <2>3. made' \in [Resources -> 0..MaxMade] /\ made[s] + 1 \in 0..MaxMade
      BY <2>1, <2>2, MadeTypes DEF CreateTicket
    <2>4. run' \in RunType
      BY <2>1, <2>2, <2>3, EditedParams, ThenType DEF CreateTicket, TypeOK, Modes
    <2> QED BY <2>1, <2>3, <2>4 DEF CreateTicket, TypeOK
  <1>5. CASE CreateNewAWSEnvironment
    <2>1. CASE QueryOrder([run.p EXCEPT !.mpaErr = TRUE])
      BY <1>5, <2>1, EditedParams, CloseTypes
      DEF CreateNewAWSEnvironment, QueryOrder, TypeOK, Statuses
    <2>2. CASE Then("save", run.p) /\ OrderSame /\ WorldSame
      BY <1>5, <2>2, ThenType DEF CreateNewAWSEnvironment, TypeOK, Modes
    <2> QED BY <1>5, <2>1, <2>2 DEF CreateNewAWSEnvironment
  <1>6. CASE CreateBillingTransferInvitation
    <2>1. CASE Then("save", run.p) /\ OrderSame /\ WorldSame
      BY <1>6, <2>1, ThenType DEF CreateBillingTransferInvitation, TypeOK, Modes
    <2>2. CASE QueryOrder([run.p EXCEPT !.mpaErr = TRUE])
      BY <1>6, <2>2, EditedParams, CloseTypes
      DEF CreateBillingTransferInvitation, QueryOrder, TypeOK, Statuses
    <2>3. CASE InviteOrganization
      <3> DEFINE n == made["transfer"] + 1
      <3>1. /\ CanMake("transfer") /\ OrderSame
            /\ Then("save", WithId(run.p, "transfer", n))
            /\ transferStatus' = [transferStatus EXCEPT ![n] = "REQUESTED"]
            /\ transferMpa' = [transferMpa EXCEPT ![n] = run.p.mpa]
            /\ UNCHANGED <<handshakeStatus, rolesUp, execution, openTickets>>
        BY <2>3 DEF InviteOrganization
      <3>2. /\ made' \in [Resources -> 0..MaxMade] /\ n \in Ids /\ n \in 0..MaxMade
        BY <2>3, <3>1, MadeTypes DEF InviteOrganization, Resources, Kinds
      <3>3. run' \in RunType
        BY <3>1, <3>2, EditedParams, ThenType DEF TypeOK, Kinds, Modes
      <3>4. /\ transferStatus' \in [Ids -> TransferStatuses \cup {None}]
            /\ transferMpa' \in [Ids -> MPAs \cup {NoMpa}]
        BY <3>1, <3>2 DEF TypeOK, TransferStatuses, Params
      <3> HIDE DEF n
      <3> QED BY <1>6, <3>1, <3>2, <3>3, <3>4 DEF CreateBillingTransferInvitation, TypeOK
    <2> QED BY <1>6, <2>1, <2>2, <2>3 DEF CreateBillingTransferInvitation
  <1>7. CASE CheckBillingTransferInvitation
    <2>1. CASE made' = Made("group") /\ CanMake("group")
               /\ Then("save", WithId(run.p, "group", made["group"] + 1))
               /\ OrderSame /\ UNCHANGED <<awsVars, openTickets>>
      <3>1. made' \in [Resources -> 0..MaxMade] /\ made["group"] + 1 \in 0..MaxMade
        BY <2>1, MadeTypes DEF Resources, Kinds
      <3>2. run' \in RunType
        BY <2>1, <3>1, EditedParams, ThenType DEF TypeOK, Kinds, Modes
      <3> QED BY <1>7, <2>1, <3>1, <3>2 DEF CheckBillingTransferInvitation, TypeOK
    <2>2. CASE Close("Failed", run.p) /\ WorldSame
      BY <1>7, <2>2, CloseTypes DEF CheckBillingTransferInvitation, TypeOK, Statuses
    <2>3. CASE QueryOrder(run.p)
      BY <1>7, <2>3, CloseTypes
      DEF CheckBillingTransferInvitation, QueryOrder, TypeOK, Statuses
    <2> QED BY <1>7, <2>1, <2>2, <2>3 DEF CheckBillingTransferInvitation
  <1>8. CASE ConfigureAPNProgram
    <2>1. CASE Then("save", run.p) /\ UNCHANGED made
      BY <1>8, <2>1, ThenType DEF ConfigureAPNProgram, TypeOK, Modes
    <2>2. CASE /\ CanMake("relationship") /\ made' = Made("relationship")
               /\ Then("save", WithId(run.p, "relationship", made["relationship"] + 1))
      <3>1. /\ made' \in [Resources -> 0..MaxMade]
            /\ made["relationship"] + 1 \in 0..MaxMade
        BY <2>2, MadeTypes DEF Resources, Kinds
      <3>2. run' \in RunType
        BY <2>2, <3>1, EditedParams, ThenType DEF TypeOK, Kinds, Modes
      <3> QED BY <1>8, <3>1, <3>2 DEF ConfigureAPNProgram, TypeOK
    <2> QED BY <1>8, <2>1, <2>2 DEF ConfigureAPNProgram
  <1>9. CASE CreateChannelHandshake
    <2>1. CASE Then("save", run.p) /\ UNCHANGED <<made, handshakeStatus>>
      BY <1>9, <2>1, ThenType DEF CreateChannelHandshake, TypeOK, Modes
    <2>2. CASE /\ CanMake("handshake") /\ made' = Made("handshake")
               /\ Then("save", WithId(run.p, "handshake", made["handshake"] + 1))
               /\ handshakeStatus' =
                    [handshakeStatus EXCEPT ![made["handshake"] + 1] = "PENDING"]
      <3>1. /\ made' \in [Resources -> 0..MaxMade]
            /\ made["handshake"] + 1 \in 0..MaxMade
        BY <2>2, MadeTypes DEF Resources, Kinds
      <3>2. run' \in RunType
        BY <2>2, <3>1, EditedParams, ThenType DEF TypeOK, Kinds, Modes
      <3>3. handshakeStatus' \in [Ids -> HandshakeStatuses \cup {None}]
        BY <2>2 DEF TypeOK, HandshakeStatuses
      <3> QED BY <1>9, <3>1, <3>2, <3>3 DEF CreateChannelHandshake, TypeOK
    <2> QED BY <1>9, <2>1, <2>2 DEF CreateChannelHandshake
  <1>10. CASE CheckChannelHandshakeStatus
    <2>1. \A v \in {"no", "yes"} : [run.p EXCEPT !.approved = v] \in Params
      BY EditedParams
    <2>2. CASE \E v \in {"no", "yes"} : /\ Then("save", [run.p EXCEPT !.approved = v])
                                        /\ OrderSame /\ WorldSame
      BY <1>10, <2>1, <2>2, ThenType DEF CheckChannelHandshakeStatus, TypeOK, Modes
    <2>3. CASE QueryOrder([run.p EXCEPT !.approved = "no"])
      BY <1>10, <2>1, <2>3, CloseTypes
      DEF CheckChannelHandshakeStatus, QueryOrder, TypeOK, Statuses
    <2> QED BY <1>10, <2>2, <2>3 DEF CheckChannelHandshakeStatus
  <1>11. CASE CheckCustomerRoles
    <2>1. \A v \in {"no", "yes"} : [run.p EXCEPT !.roles = v] \in Params
      BY EditedParams
    <2>2. CASE rolesUp
      BY <1>11, <2>1, <2>2, ThenType DEF CheckCustomerRoles, TypeOK, Modes
    <2>3. CASE QueryOrder([run.p EXCEPT !.roles = "no"])
      BY <1>11, <2>1, <2>3, CloseTypes
      DEF CheckCustomerRoles, QueryOrder, TypeOK, Statuses
    <2> QED BY <1>11, <2>2, <2>3 DEF CheckCustomerRoles
  <1>12. CASE OnboardServices
    <2>1. CASE /\ CanMake("execution") /\ made' = Made("execution")
               /\ Then("record", WithId(run.p, "execution", made["execution"] + 1))
               /\ execution' = "running"
      <3>1. /\ made' \in [Resources -> 0..MaxMade]
            /\ made["execution"] + 1 \in 0..MaxMade
        BY <2>1, MadeTypes DEF Resources, Kinds
      <3>2. run' \in RunType
        BY <2>1, <3>1, EditedParams, ThenType DEF TypeOK, Kinds, Modes
      <3> QED BY <1>12, <2>1, <3>1, <3>2 DEF OnboardServices, TypeOK
    <2>2. CASE HandleError /\ UNCHANGED <<made, execution>>
      BY <1>12, <2>2, HandleErrorType DEF OnboardServices, TypeOK
    <2> QED BY <1>12, <2>1, <2>2 DEF OnboardServices
  <1>13. CASE CheckOnboardStatus
    <2>1. run' \in RunType
      BY <1>13, HandleErrorType, AdvanceType, ThenType
      DEF CheckOnboardStatus, TypeOK, Modes
    <2> QED BY <1>13, <2>1 DEF CheckOnboardStatus, TypeOK
  <1>14. CASE CreateSubscription
    <2>1. made' \in [Resources -> 0..MaxMade]
      BY <1>14, MadeTypes DEF CreateSubscription, TypeOK, Resources
    <2>2. run' \in RunType
      BY <1>14, ThenType DEF CreateSubscription, TypeOK, Modes
    <2> QED BY <1>14, <2>1, <2>2 DEF CreateSubscription, TypeOK
  <1>15. CASE ContractCardStep
    <2>1. made' \in [Resources -> 0..MaxMade]
      BY <1>15, MadeTypes DEF ContractCardStep, TypeOK, Resources, Kinds
    <2>2. CASE Then("save", run.p)
      BY <1>15, <2>1, <2>2, ThenType DEF ContractCardStep, TypeOK, Modes
    <2>3. CASE Then("save", WithId(run.p, "contract", 1)) /\ 1 \in 0..MaxMade
      <3>1. run' \in RunType
        BY <2>3, EditedParams, ThenType DEF TypeOK, Kinds, Modes
      <3> QED BY <1>15, <2>1, <3>1 DEF ContractCardStep, TypeOK
    <2>4. made["contract"] # 0 \/ CanMake("contract") => 1 \in 0..MaxMade
      BY BoundAssumption DEF CanMake, TypeOK, Resources, Kinds
    <2> QED BY <1>15, <2>2, <2>3, <2>4 DEF ContractCardStep
  <1>16. CASE SWOJobStep
    <2>1. CASE Then("save", run.p) /\ UNCHANGED made
      BY <1>16, <2>1, ThenType DEF SWOJobStep, TypeOK, Modes
    <2>2. CASE /\ CanMake("project") /\ made' = Made("project")
               /\ Then("save", WithId(run.p, "project", made["project"] + 1))
      <3>1. made' \in [Resources -> 0..MaxMade] /\ made["project"] + 1 \in 0..MaxMade
        BY <2>2, MadeTypes DEF Resources, Kinds
      <3>2. run' \in RunType
        BY <2>2, <3>1, EditedParams, ThenType DEF TypeOK, Kinds, Modes
      <3> QED BY <1>16, <3>1, <3>2 DEF SWOJobStep, TypeOK
    <2> QED BY <1>16, <2>1, <2>2 DEF SWOJobStep
  <1>17. CASE UpdateAgreement
    <2>1. vendor' \in MPAs \cup {NoMpa} /\ run' \in RunType
      BY <1>17, ThenType DEF UpdateAgreement, TypeOK, Params, Modes
    <2> QED BY <1>17, <2>1 DEF UpdateAgreement, TypeOK
  <1>18. CASE CompleteOrder
    BY <1>18, CloseTypes DEF CompleteOrder, TypeOK, Statuses
  <1>19. CASE PostStep
    <2> DEFINE p == Posted(run.at, run.p)
    <2>1. p \in Params
      BY PostedParams
    <2>2. CASE Store(p, run) /\ job' = Overtaken(job, p) /\ Advance(p, TRUE)
      <3>1. params' \in Params /\ lost' \in BOOLEAN
        BY <2>1, <2>2, StoreTypes
      <3>2. job' \in JobType /\ run' \in RunType
        BY <2>1, <2>2, OvertakenTypes, AdvanceType DEF TypeOK
      <3> QED BY <1>19, <3>1, <3>2 DEF PostStep, TypeOK
    <2>3. CASE Stop /\ UNCHANGED <<params, job, lost>>
      BY <1>19, <2>3 DEF PostStep, Stop, TypeOK
    <2> QED BY <1>19, <2>2, <2>3 DEF PostStep
  <1>20. CASE SaveInProcess
    <2>1. CASE Editable
      <3>1. params' \in Params /\ lost' \in BOOLEAN
        BY <1>20, <2>1, StoreTypes DEF SaveInProcess
      <3>2. job' \in JobType
        BY <1>20, <2>1, OvertakenTypes DEF SaveInProcess, TypeOK
      <3>3. run' \in RunType
        BY <1>20, <2>1 DEF SaveInProcess, TypeOK, RunType, Modes
      <3> QED BY <1>20, <3>1, <3>2, <3>3 DEF SaveInProcess, TypeOK
    <2>2. CASE ~Editable
      BY <1>20, <2>2 DEF SaveInProcess, Stop, TypeOK
    <2> QED BY <2>1, <2>2
  <1>21. CASE SendErrorEmail
    <2>1. run' \in RunType
      BY <1>21, ThenType DEF SendErrorEmail, Stop, TypeOK, Modes
    <2> QED BY <1>21, <2>1 DEF SendErrorEmail, TypeOK
  <1>22. CASE StepFails
    BY <1>22 DEF StepFails, Stop, TypeOK
  <1>23. CASE SaveFails
    BY <1>23 DEF SaveFails, Stop, TypeOK
  <1>24. CASE Restart
    BY <1>24 DEF Restart, Stop, TypeOK
  <1> QED
    BY <1>1, <1>2, <1>3, <1>4, <1>5, <1>6, <1>7, <1>8, <1>9, <1>10, <1>11, <1>12,
       <1>13, <1>14, <1>15, <1>16, <1>17, <1>18, <1>19, <1>20, <1>21, <1>22, <1>23,
       <1>24
    DEF WorkerNext, WorkerStep

-----------------------------------------------------------------------------
(* The cron job keeps the state well formed.                                *)
LEMMA JobTypes ==
    ASSUME TypeOK, JobNext
    PROVE  TypeOK'
  <1> USE IdleTypes, FaultType DEF JobSame, JobKeep, JobDone, orderVars, awsVars,
          crmVars, alertVars
  <1>0. job.p \in Params /\ job.age \in 0..MaxAge /\ Refreshed \in JobType
    BY DEF TypeOK, JobType, Refreshed
  <1>1. ASSUME NEW ctx \in JobType, RolesDeadline(ctx)
        PROVE  job' \in JobType
    <2>1. ctx.p \in Params
      BY DEF JobType
    <2>2. [ctx.p EXCEPT !.phase = "createSubscription"] \in Params
      BY <2>1, EditedParams DEF WithPhase, Phases
    <2>3. [ctx EXCEPT !.at = "savePhase", !.p.phase = "createSubscription"]
            = [ctx EXCEPT !.at = "savePhase",
                          !.p = [ctx.p EXCEPT !.phase = "createSubscription"]]
      BY DEF JobType
    <2>4. [ctx EXCEPT !.at = "savePhase", !.p.phase = "createSubscription"] \in JobType
      BY <2>2, <2>3 DEF JobType
    <2> QED BY <1>1, <2>4 DEF RolesDeadline
  <1>2. ASSUME NEW p \in Params, NEW point \in {"saveTicket", "savePhase", "process"},
               JobGoes(point, p)
        PROVE  job' \in JobType
    BY <1>2 DEF JobGoes, TypeOK, JobType
  <1>3. CASE FetchOrder
    BY <1>3 DEF FetchOrder, TypeOK, JobType
  <1>4. CASE ProcessTransfer
    <2>1. job' \in JobType
      BY <1>4, <1>0, <1>2 DEF ProcessTransfer
    <2> QED BY <1>4, <2>1 DEF ProcessTransfer, TypeOK
  <1>5. CASE ProcessHandshake
    <2>1. [job.p EXCEPT !.phase = "checkCustomerRoles"] \in Params
      BY <1>0 DEF Params, Phases
    <2>2. job' \in JobType
      BY <1>5, <1>0, <1>2, <2>1 DEF ProcessHandshake
    <2> QED BY <1>5, <2>2 DEF ProcessHandshake, TypeOK
  <1>6. CASE ProcessRoles
    <2>1. CASE JobGoes("process", job.p) /\ UNCHANGED <<crmVars, faults>>
      <3>1. job' \in JobType
        BY <1>0, <1>2, <2>1
      <3> QED BY <1>6, <2>1, <3>1 DEF ProcessRoles, TypeOK
    <2>2. CASE RolesDeadline(job) /\ UNCHANGED <<crmVars, faults>>
      <3>1. job' \in JobType
        BY <1>1, <2>2 DEF TypeOK
      <3> QED BY <1>6, <2>2, <3>1 DEF ProcessRoles, TypeOK
    <2>3. CASE /\ CanMake("rolesTicket") /\ made' = Made("rolesTicket")
               /\ openTickets' = openTickets \cup {made["rolesTicket"] + 1}
               /\ \E n \in {0, made["rolesTicket"] + 1} :
                     JobGoes("saveTicket", WithId(job.p, "rolesTicket", n))
               /\ UNCHANGED faults \/ Fault
      <3>1. /\ made' \in [Resources -> 0..MaxMade]
            /\ made["rolesTicket"] + 1 \in Ids /\ made["rolesTicket"] + 1 \in 0..MaxMade
        BY <2>3, MadeTypes DEF Resources, Kinds
      <3>2. openTickets' \subseteq Ids
        BY <2>3, <3>1 DEF TypeOK
      <3>3. PICK n \in 0..MaxMade : JobGoes("saveTicket", WithId(job.p, "rolesTicket", n))
        BY <2>3, <3>1, BoundAssumption
      <3>4. job' \in JobType
        BY <1>0, <1>2, <3>3, EditedParams DEF Kinds
      <3>5. faults' \in 0..MaxFaults
        BY <2>3 DEF TypeOK
      <3> QED BY <1>6, <3>1, <3>2, <3>4, <3>5 DEF ProcessRoles, TypeOK
    <2> QED BY <1>6, <2>1, <2>2, <2>3 DEF ProcessRoles
  <1>7. CASE JobSaves
    <2>1. CASE Editable
      <3>1. params' \in Params /\ lost' \in BOOLEAN
        BY <1>0, <1>7, <2>1, StoreTypes DEF JobSaves
      <3>2. run' \in RunType
        BY <1>7, <2>1, OvertakenTypes DEF JobSaves, TypeOK
      <3>3. job' \in JobType
        BY <1>0, <1>1, <1>7, <2>1 DEF JobSaves, AfterSave, JobType
      <3> QED BY <1>7, <3>1, <3>2, <3>3 DEF JobSaves, TypeOK
    <2>2. CASE ~Editable
      BY <1>7, <2>2 DEF JobSaves, TypeOK
    <2> QED BY <2>1, <2>2
  <1>8. CASE ProcessOrder
    <2>1. CASE status = "Querying"
      <3>1. params' \in Params /\ lost' \in BOOLEAN
        BY <1>0, <1>8, <2>1, StoreTypes DEF ProcessOrder
      <3>2. run' \in RunType
        BY <1>8, <2>1, OvertakenTypes DEF ProcessOrder, TypeOK
      <3> QED BY <1>8, <2>1, <3>1, <3>2, BoundAssumption
          DEF ProcessOrder, TypeOK, Statuses
    <2>2. CASE status # "Querying"
      BY <1>8, <2>2 DEF ProcessOrder, TypeOK
    <2> QED BY <2>1, <2>2
  <1>9. CASE NothingToDo
    BY <1>9 DEF NothingToDo, TypeOK
  <1>10. CASE JobFails
    BY <1>10 DEF JobFails, TypeOK
  <1> QED BY <1>3, <1>4, <1>5, <1>6, <1>7, <1>8, <1>9, <1>10 DEF JobNext, JobStep

(* The customer, the services and the operator keep the state well formed.  *)
LEMMA EnvironmentTypes ==
    ASSUME TypeOK, Environment
    PROVE  TypeOK'
  <1> USE BoundAssumption DEF EnvKeep, orderVars, awsVars, crmVars, alertVars
  <1>1. CASE CustomerResubmits
    <2>1. PICK mpa \in MPAs \cup {params.mpa} :
            /\ params' = [params EXCEPT !.mpa = mpa]
            /\ run' = Overtaken(run, [params EXCEPT !.mpa = mpa])
            /\ job' = Overtaken(job, [params EXCEPT !.mpa = mpa])
      BY <1>1 DEF CustomerResubmits
    <2>2. params' \in Params
      <3>1. params \in Params /\ mpa \in MPAs \cup {NoMpa}
        BY DEF TypeOK, Params
      <3> QED BY <2>1, <3>1, EditedParams
    <2>3. run' \in RunType /\ job' \in JobType
      BY <2>1, OvertakenTypes DEF TypeOK
    <2> QED BY <1>1, <2>2, <2>3 DEF CustomerResubmits, TypeOK, Statuses
  <1>2. CASE TransferSettles
    <2>1. transferStatus' \in [Ids -> TransferStatuses \cup {None}]
      BY <1>2 DEF TransferSettles, TypeOK, TransferStatuses
    <2> QED BY <1>2, <2>1 DEF TransferSettles, TypeOK
  <1>3. CASE HandshakeSettles
    <2>1. handshakeStatus' \in [Ids -> HandshakeStatuses \cup {None}]
      BY <1>3 DEF HandshakeSettles, TypeOK, HandshakeStatuses
    <2> QED BY <1>3, <2>1 DEF HandshakeSettles, TypeOK
  <1>4. CASE RolesDeployed
    BY <1>4 DEF RolesDeployed, TypeOK
  <1>5. CASE OnboardingEnds
    BY <1>5 DEF OnboardingEnds, TypeOK
  <1>6. CASE TicketResolved
    BY <1>6 DEF TicketResolved, TypeOK
  <1>7. CASE OperatorFails
    BY <1>7 DEF OperatorFails, TypeOK, Statuses
  <1>8. CASE DayPasses
    <2>1. age' \in 0..MaxAge
      BY <1>8 DEF DayPasses, TypeOK
    <2>2. job' \in JobType
      BY <1>8 DEF DayPasses, TypeOK, JobType
    <2> QED BY <1>8, <2>1, <2>2 DEF DayPasses, TypeOK
  <1> QED
    BY <1>1, <1>2, <1>3, <1>4, <1>5, <1>6, <1>7, <1>8 DEF Environment

LEMMA InitTypes == Init => TypeOK
  <1> SUFFICES ASSUME Init PROVE TypeOK
    OBVIOUS
  <1>1. account \in {"new", "existing"} /\ support \in {"PLS", "RESOLD"}
    BY OrderAssumption DEF Init
  <1>2. params \in Params
    BY FreshParamsType DEF Init
  <1>3. /\ status \in Statuses /\ vendor \in MPAs \cup {NoMpa}
        /\ notified \in BOOLEAN /\ rolesUp \in BOOLEAN /\ lost \in BOOLEAN
        /\ execution \in {None, "running", "succeeded", "failed"}
        /\ openTickets \subseteq Ids
    BY DEF Init, Statuses
  <1>7. /\ age \in 0..MaxAge /\ emails \in Nat
        /\ faults \in 0..MaxFaults /\ resubmits \in 0..MaxResubmits
    BY BoundAssumption DEF Init
  <1>4. made \in [Resources -> 0..MaxMade]
    BY BoundAssumption DEF Init
  <1>5. /\ transferStatus \in [Ids -> TransferStatuses \cup {None}]
        /\ transferMpa \in [Ids -> MPAs \cup {NoMpa}]
        /\ handshakeStatus \in [Ids -> HandshakeStatuses \cup {None}]
    BY DEF Init
  <1>6. run \in RunType /\ job \in JobType
    BY IdleTypes DEF Init
  <1> QED BY <1>1, <1>2, <1>3, <1>4, <1>5, <1>6, <1>7 DEF TypeOK

(* A step that changes nothing keeps the state well formed.                 *)
LEMMA StutterTypes ==
    ASSUME TypeOK, UNCHANGED vars
    PROVE  TypeOK'
    BY DEF TypeOK, vars, orderVars, awsVars, crmVars, alertVars

(* The state of an order, of the two processes and of the services is well *)
(* formed whatever the accounts and the bounds: no step saves a phase that *)
(* no step takes, nor an id of a resource that was not created.            *)
THEOREM TypeCorrect == Spec => []TypeOK
  <1>1. TypeOK /\ [Next]_vars => TypeOK'
    BY WorkerTypes, JobTypes, EnvironmentTypes, StutterTypes DEF Next
  <1> QED BY <1>1, InitTypes, PTL DEF Spec
==============================================================================
